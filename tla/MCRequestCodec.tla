--------------------------- MODULE MCRequestCodec ---------------------------
(***************************************************************************)
(* Every trait of two methods or a method and a subscription, from a small *)
(* stock of names, aliases and parameter lists.                            *)
(***************************************************************************)
EXTENDS RequestCodec, TLC

Param(key, ty) == [key |-> key, ty |-> ty]

\* No parameter; two of different types, in an array and in a map; two that
\* are renamed to the same key.
Shapes ==
  {[kind |-> "array", params |-> <<>>],
   [kind |-> "array", params |-> <<Param("a", {0, 1}), Param("b", {1, 2})>>],
   [kind |-> "map",   params |-> <<Param("a", {0, 1}), Param("b", {1, 2})>>],
   [kind |-> "map",   params |-> <<Param("a", {0, 1}), Param("a", {1, 2})>>]}

\* Aliases that collide with nothing, with a bare and with a full name.
Aliases == {{}, {<<"z">>}, {<<"f">>}, {<<"n", "_", "g">>}}

ItemsNamed(name) ==
  {[name |-> name, aliases |-> al, kind |-> s.kind, params |-> s.params] :
     al \in Aliases, s \in Shapes}

\* Two items of one name make two variants of one name: rustc refuses them.
SmallApis ==
  {[namespace |-> ns, separator |-> <<"_">>,
    methods |-> IF sub THEN <<i>> ELSE <<i, j>>,
    subscriptions |-> IF sub THEN <<j>> ELSE <<>>] :
     ns \in {<<>>, <<<<"n">>>>}, sub \in BOOLEAN,
     i \in {it \in ItemsNamed(<<"f">>) : it.aliases # {<<"f">>}},
     j \in ItemsNamed(<<"g">>)}

\* All well-typed fields of an item.
ArgsOf(item) ==
  {args \in [1..Len(item.params) -> 0..2] :
     \A n \in DOMAIN item.params : args[n] \in item.params[n].ty}

AllVariants(a) ==
  UNION {{Variant(i, args) : args \in ArgsOf(Items(a)[i])} :
           i \in DOMAIN Items(a)}

SomeParams ==
  {NoParams, ArrayParams(<<>>), ArrayParams(<<1>>), ArrayParams(<<2>>),
   ArrayParams(<<1, 1>>), ArrayParams(<<2, 1>>), ArrayParams(<<1, 1, 1>>),
   MapParams([k \in {} |-> 0]), MapParams("a" :> 1), MapParams("b" :> 1),
   MapParams("a" :> 1 @@ "b" :> 2), MapParams("a" :> 2 @@ "b" :> 1)}

SomeRequests ==
  [method : {<<"f">>, <<"n", "_", "f">>, <<"n", "_", "g">>, <<"z">>, <<"w">>},
   params : SomeParams, id : {7}]
=============================================================================
