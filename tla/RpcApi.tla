------------------------------- MODULE RpcApi -------------------------------
(***************************************************************************)
(* What #[rpc] generates from a trait, as pure operators: the names the    *)
(* request enum answers to, From<Enum> for Request, TryFrom<Request> for   *)
(* the enum, and the dispatch table of the server layer                    *)
(* (tower-json-rpc-derive/src/render_server.rs and rpc_macro.rs).          *)
(*                                                                         *)
(* An api is the RpcDescription of one trait:                              *)
(*   [namespace, separator, methods, subscriptions]                        *)
(* where namespace is <<>> (no namespace) or <<ns>>, methods and           *)
(* subscriptions are sequences of items in declaration order, and an item  *)
(* is [name, aliases, kind, params]: aliases is a set of full names, kind  *)
(* is "array" or "map", params is a sequence of [key, ty], ty the set of   *)
(* JSON values the parameter's Rust type deserializes from.                *)
(*                                                                         *)
(* A method string is a sequence of pieces, so that gluing a namespace, a  *)
(* separator and a name is concatenation and may collide with an alias.    *)
(* A JSON value is whatever ty contains; an argument is represented by the *)
(* JSON value it serializes to.                                            *)
(***************************************************************************)
EXTENDS Naturals, Sequences

-----------------------------------------------------------------------------
(* Names *)

\* RpcDescription::rpc_identifier: namespace ++ separator ++ name.
rpc_identifier(api, name) ==
  IF api.namespace = <<>> THEN name
  ELSE api.namespace[1] \o api.separator \o name

\* The variants of the request enum: methods first, then subscriptions.
Items(api) == api.methods \o api.subscriptions

IsSubscription(api, i) == i > Len(api.methods)

\* names_with_aliases: the primary name carries the namespace, aliases do not.
names_with_aliases(api, item) ==
  {rpc_identifier(api, item.name)} \cup item.aliases

\* Mutant of all_method_names: leaves the subscriptions to the inner service.
only_method_names(api) ==
  UNION {names_with_aliases(api, api.methods[i]) : i \in DOMAIN api.methods}

\* The names the server layer takes for itself, subscriptions included.
all_method_names(api) ==
  UNION {names_with_aliases(api, Items(api)[i]) : i \in DOMAIN Items(api)}

-----------------------------------------------------------------------------
(* Parameters: None, a JSON array or a JSON object *)

NoParams == [form |-> "none"]
ArrayParams(seq) == [form |-> "array", seq |-> seq]
MapParams(map) == [form |-> "map", map |-> map]

Keys(item) == {item.params[i].key : i \in DOMAIN item.params}

\* map.insert per parameter in order: the last parameter with a key wins.
Inserted(item, args) ==
  [k \in Keys(item) |->
     args[CHOOSE i \in DOMAIN item.params :
            /\ item.params[i].key = k
            /\ \A j \in DOMAIN item.params :
                 item.params[j].key = k => j <= i]]

\* params_value of render_into_request.
params_value(item, args) ==
  IF item.params = <<>> THEN NoParams
  ELSE IF item.kind = "map" THEN MapParams(Inserted(item, args))
  ELSE ArrayParams(args)

\* Mutant of Accepts: no arity check, an array may leave out its last elements.
AcceptsPartial(item, params) ==
  \/ item.params = <<>>
  \/ /\ item.kind = "map"
     /\ params.form = "map"
     /\ \A i \in DOMAIN item.params :
          /\ item.params[i].key \in DOMAIN params.map
          /\ params.map[item.params[i].key] \in item.params[i].ty
  \/ /\ item.kind # "map"
     /\ params.form = "array"
     /\ \A i \in DOMAIN item.params :
          i \in DOMAIN params.seq => params.seq[i] \in item.params[i].ty

\* The decoder of a match arm, as the condition under which it does not
\* return InvalidParams ...
Accepts(item, params) ==
  \/ item.params = <<>>
  \/ /\ item.kind = "map"
     /\ params.form = "map"
     /\ \A i \in DOMAIN item.params :
          /\ item.params[i].key \in DOMAIN params.map
          /\ params.map[item.params[i].key] \in item.params[i].ty
  \/ /\ item.kind # "map"
     /\ params.form = "array"
     /\ Len(params.seq) = Len(item.params)
     /\ \A i \in DOMAIN item.params : params.seq[i] \in item.params[i].ty

\* ... and the fields it then gives the variant.
Extracted(item, params) ==
  IF item.params = <<>> THEN <<>>
  ELSE IF item.kind = "map"
       THEN [i \in 1..Len(item.params) |-> params.map[item.params[i].key]]
       ELSE params.seq

-----------------------------------------------------------------------------
(* From<Enum> for Request, and TryFrom<Request> for Enum *)

\* A variant of the enum: which item, and its fields.
Variant(i, args) == [item |-> i, args |-> args]

Ok(v) == [ok |-> TRUE, variant |-> v]
Err(code) == [ok |-> FALSE, code |-> code]

\* Mutant of into_request: forgets the namespace.
into_bare_request(api, v) ==
  LET item == Items(api)[v.item] IN
  [method |-> item.name, params |-> params_value(item, v.args), id |-> 0]

\* Request::owned(name, params, Id::Number(0)): every built request has id 0.
into_request(api, v) ==
  LET item == Items(api)[v.item] IN
  [method |-> rpc_identifier(api, item.name),
   params |-> params_value(item, v.args),
   id     |-> 0]

\* The arms of the generated match that a method string fits.
Arms(api, method) ==
  {i \in DOMAIN Items(api) : method \in names_with_aliases(api, Items(api)[i])}

\* match takes the first of them.
FirstArm(api, method) ==
  CHOOSE i \in Arms(api, method) : \A j \in Arms(api, method) : i <= j

try_from(api, request) ==
  LET arm  == FirstArm(api, request.method)
      item == Items(api)[arm]
  IN IF Arms(api, request.method) = {} THEN Err("MethodNotFound")
     ELSE IF Accepts(item, request.params)
          THEN Ok(Variant(arm, Extracted(item, request.params)))
          ELSE Err("InvalidParams")

-----------------------------------------------------------------------------
(* What the macro does not check *)

\* No item's primary name is also a name of an earlier item.
DistinctNames(api) ==
  \A i, j \in DOMAIN Items(api) :
    j < i => rpc_identifier(api, Items(api)[i].name)
               \notin names_with_aliases(api, Items(api)[j])

\* No two parameters of a map-encoded item share a key after renaming.
DistinctKeys(api) ==
  \A n \in DOMAIN Items(api) :
    LET item == Items(api)[n] IN
    item.kind = "map" =>
      \A i, j \in DOMAIN item.params :
        item.params[i].key = item.params[j].key => i = j

Unambiguous(api) == DistinctNames(api) /\ DistinctKeys(api)

-----------------------------------------------------------------------------
(* What a value of a type of the program is *)

\* A sequence, of whatever.
IsSequence(s) == s \in Seq({s[i] : i \in DOMAIN s})

\* A trait declares its items, and an item its parameters, in order.
IsApi(api) ==
  /\ IsSequence(Items(api))
  /\ \A i \in DOMAIN Items(api) : IsSequence(Items(api)[i].params)

\* A value of the request enum: a variant of the trait, with a value of the
\* right type for each parameter.
WellTyped(api, v) ==
  LET params == Items(api)[v.item].params IN
  /\ v = Variant(v.item, v.args)
  /\ v.item \in DOMAIN Items(api)
  /\ IsSequence(v.args) /\ Len(v.args) = Len(params)
  /\ \A i \in DOMAIN params : v.args[i] \in params[i].ty

\* A request's array of parameters, if it has one.
IsRequest(request) ==
  request.params.form = "array" => IsSequence(request.params.seq)
=============================================================================
