------------------------------ MODULE RpcMacro ------------------------------
(***************************************************************************)
(* The expansion of #[rpc] on a trait: the attribute arguments are parsed  *)
(* and checked, the trait's entries are taken one after the other as       *)
(* methods and subscriptions, and the enums, matches and client traits are *)
(* rendered from what was collected (attributes.rs, rpc_macro.rs and the   *)
(* outlines of render_server.rs and render_client.rs).                     *)
(*                                                                         *)
(* A token is <<kind>> or <<kind, value>>; an attribute is                 *)
(* [path, parens, tokens], the tokens between its parentheses. A name is a *)
(* sequence of characters. An entry is [fn, receiver, attrs, ident, async, *)
(* params], a parameter [pat, ident, attrs].                               *)
(***************************************************************************)
EXTENDS Naturals, Sequences, FiniteSets

CONSTANTS
  Inputs,   \* what is expanded: [attr, entries], #[rpc(..)] and the trait's
  Types,    \* token sequences that are a Rust type
  Upper,    \* to_ascii_uppercase, on the characters of names
  Begins,   \* the characters an identifier may begin with,
  Continues \* and those it may go on with

Elements(s) == {s[i] : i \in DOMAIN s}
IsList(s) == s \in Seq(Elements(s))

IsAttrs(attrs) == IsList(attrs) /\ \A a \in Elements(attrs) : IsList(a.tokens)

IsParam(p) ==
  IsAttrs(p.attrs) /\ p = [pat |-> p.pat, ident |-> p.ident, attrs |-> p.attrs]

IsEntry(e) ==
  /\ e = [fn |-> e.fn, receiver |-> e.receiver, attrs |-> e.attrs,
          ident |-> e.ident, async |-> e.async, params |-> e.params]
  /\ IsAttrs(e.attrs) /\ IsList(e.ident) /\ IsList(e.params)
  /\ \A p \in Elements(e.params) : IsParam(p)

ASSUME MacroAssumption ==
  \A i \in Inputs : IsList(i.entries) /\ \A e \in Elements(i.entries) : IsEntry(e)

\* What divides the words of a name.
Underscore == "_"
Dash == "-"

Capitals == {Upper[c] : c \in {c \in DOMAIN Upper : Upper[c] # c}}

\* Underscore and dash have no case, and no two other characters one capital.
ASSUME UpperAssumption ==
  /\ {Underscore, Dash} \subseteq DOMAIN Upper \ Capitals
  /\ \A c \in {Underscore, Dash} : Upper[c] = c
  /\ \A c, d \in DOMAIN Upper \ Capitals : Upper[c] = Upper[d] => c = d

\* A capital may stand where its small letter may.
ASSUME IdentAssumption ==
  /\ Begins \subseteq Continues
  /\ \A c \in Begins \cap DOMAIN Upper : Upper[c] \in Begins
  /\ \A c \in Continues \cap DOMAIN Upper : Upper[c] \in Continues

\* What syn::Ident::new takes; it panics over anything else.
IsIdent(name) ==
  name # <<>> /\ name[1] \in Begins /\ Elements(name) \subseteq Continues

Comma == <<"comma">>
Equals == <<"equals">>
FatArrow == <<"fat arrow">>
Arrow == <<"arrow">>
Open == <<"open">>
Close == <<"close">>
Closing == {Close, Arrow, FatArrow}   \* arrows, too, end in the character >
Word(w) == <<"word", w>>         \* an identifier
Str(name) == <<"str", name>>     \* a string literal
List(names) == <<"list", names>> \* string literals in brackets
Group == <<"group">>             \* something in parentheses

-----------------------------------------------------------------------------
(* An attribute and its arguments *)

\* Mutant of scope: every comma ends an argument.
scope_flat(tokens) == [i \in 0..Len(tokens) |-> 0]

\* The angle brackets that are open after i tokens (saturating_sub).
scope(tokens) ==
  LET s[i \in 0..Len(tokens)] ==
        IF i = 0 THEN 0
        ELSE IF tokens[i] = Open THEN s[i - 1] + 1
        ELSE IF tokens[i] \in Closing /\ s[i - 1] > 0 THEN s[i - 1] - 1
        ELSE s[i - 1]
  IN s

\* The commas that end an argument.
Separators(tokens) ==
  {i \in DOMAIN tokens : tokens[i] = Comma /\ scope(tokens)[i - 1] = 0}

\* Where arguments start, and one past their ends; a last comma starts none.
Starts(tokens) ==
  {i + 1 : i \in {0} \cup Separators(tokens)} \ {Len(tokens) + 1}

EndOf(tokens, s) ==
  CHOOSE e \in Separators(tokens) \cup {Len(tokens) + 1} :
    e >= s /\ \A i \in s..(e - 1) : i \notin Separators(tokens)

\* Argument::parse: a label, and the tokens up to the next separator.
Arguments(attr) ==
  {[start |-> s, label |-> attr.tokens[s][2],
    tokens |-> SubSeq(attr.tokens, s + 1, EndOf(attr.tokens, s) - 1)] :
     s \in {s \in Starts(attr.tokens) : attr.tokens[s][1] = "word"}}

\* AttributeMeta::parse: parentheses, and arguments that have labels.
Parses(attr) ==
  /\ attr.parens
  /\ \A s \in Starts(attr.tokens) : attr.tokens[s][1] = "word"

\* Mutant of retain: an argument may be there twice.
retain_any(attr, allowed) ==
  Parses(attr) /\ \A a \in Arguments(attr) : a.label \in allowed

\* AttributeMeta::retain: nothing unknown and nothing twice.
retain(attr, allowed) ==
  /\ Parses(attr)
  /\ \A a \in Arguments(attr) :
       /\ a.label \in allowed
       /\ \A b \in Arguments(attr) : a.label = b.label => a = b

Given(attr, label) == \E a \in Arguments(attr) : a.label = label
Tokens(attr, label) == (CHOOSE a \in Arguments(attr) : a.label = label).tokens

Valued(tokens, kind) ==
  Len(tokens) >= 2 /\ tokens[1] = Equals /\ tokens[2][1] = kind

\* = "name", or = "name" => "name".
NameMapping(tokens) ==
  /\ Valued(tokens, "str")
  /\ \/ Len(tokens) = 2
     \/ Len(tokens) = 4 /\ tokens[3] = FatArrow /\ tokens[4][1] = "str"

Bracketed(tokens) == Valued(tokens, "list") /\ Len(tokens) = 2
parenthesized(tokens) == tokens = <<Group>>

\* Argument::flag, string, value::<Ident>, value::<Type>, value::<Aliases>,
\* value::<NameMapping> and group.
Fits(tokens, form) ==
  CASE form = "flag"    -> tokens = <<>>
    [] form = "string"  -> Valued(tokens, "str") /\ Len(tokens) = 2
    [] form = "word"    -> Valued(tokens, "word") /\ Len(tokens) = 2
    [] form = "type"    -> /\ Len(tokens) >= 2 /\ tokens[1] = Equals
                           /\ SubSeq(tokens, 2, Len(tokens)) \in Types
    [] form = "list"    -> Bracketed(tokens)
    [] form = "mapping" -> NameMapping(tokens)
    [] form = "group"   -> parenthesized(tokens)

\* optional(..): an argument that is there has the form asked for.
optional(attr, label, form) ==
  Given(attr, label) => Fits(Tokens(attr, label), form)

Value(attr, label, default) ==
  IF Given(attr, label) THEN Tokens(attr, label)[2][2] ELSE default

\* Mutant of parse_param_kind: any identifier will do.
parse_any_kind(attr) == optional(attr, "param_kind", "word")

\* parse_param_kind: one of two identifiers; a string is none.
parse_param_kind(attr) ==
  /\ optional(attr, "param_kind", "word")
  /\ Value(attr, "param_kind", "array") \in {"array", "map"}

\* find_attr: the first one; there may be more.
HasAttr(attrs, path) == \E i \in DOMAIN attrs : attrs[i].path = path
find_attr(attrs, path) ==
  attrs[CHOOSE i \in DOMAIN attrs :
          /\ attrs[i].path = path
          /\ \A j \in 1..(i - 1) : attrs[j].path # path]

-----------------------------------------------------------------------------
(* Names *)

\* The elements of a sequence that are not in the set, in their order.
Omit(s, set) ==
  LET left[i \in 0..Len(s)] ==
        IF i = 0 THEN <<>>
        ELSE IF s[i] \in set THEN left[i - 1] ELSE Append(left[i - 1], s[i])
  IN left[Len(s)]

\* Mutant of snake_to_camel: forgets to capitalize.
snake_to_flat(ident) == Omit(ident, {Underscore})

\* Underscores go, and capitalize what follows them.
snake_to_camel(ident) ==
  Omit([i \in DOMAIN ident |->
          IF i > 1 /\ ident[i - 1] = Underscore THEN Upper[ident[i]] ELSE ident[i]],
       {Underscore})

\* The same with dashes, and the first character too: the text that goes to
\* syn::Ident::new, which PanicRender is about.
to_variant_name(name) ==
  Omit([i \in DOMAIN name |->
          IF i = 1 \/ name[i - 1] \in {Underscore, Dash} THEN Upper[name[i]] ELSE name[i]],
       {Underscore, Dash})

\* build_unsubscribe_method: only for a name that begins with subscribe.
CanUnsubscribe(name) == name # <<>> /\ name[1] = "subscribe"
build_unsubscribe(name) == <<"unsubscribe">> \o Tail(name)

-----------------------------------------------------------------------------
(* The attribute of the trait, and its entries *)

Server(attr) == Given(attr, "server")
Client(attr) == Given(attr, "client")

\* RpcDescription::from_item, before the entries.
SwitchesOk(attr) ==
  /\ retain(attr, {"client", "server", "namespace", "namespace_separator",
                   "client_bounds", "server_bounds"})
  /\ \A l \in {"client", "server"} : optional(attr, l, "flag")
  /\ \A l \in {"namespace", "namespace_separator"} : optional(attr, l, "string")
  /\ \A l \in {"client_bounds", "server_bounds"} : optional(attr, l, "group")
  /\ Server(attr) \/ Client(attr)
  /\ Given(attr, "client_bounds") => Client(attr)
  /\ Given(attr, "server_bounds") => Server(attr)

\* A function with a receiver, and not both a method and a subscription.
Usable(e) ==
  /\ e.fn /\ e.receiver
  /\ ~(HasAttr(e.attrs, "method") /\ HasAttr(e.attrs, "subscription"))

IsSub(e) == HasAttr(e.attrs, "subscription")
SubAttr(e) == find_attr(e.attrs, "subscription")

\* No attribute at all is an attribute without arguments.
MethodAttr(e) ==
  IF HasAttr(e.attrs, "method") THEN find_attr(e.attrs, "method")
  ELSE [path |-> "method", parens |-> TRUE, tokens |-> <<>>]

\* RpcFnArg::from_arg_attrs, and RpcFnArg::name.
Renamed(p) == HasAttr(p.attrs, "argument")
ArgumentOk(p) ==
  LET attr == find_attr(p.attrs, "argument") IN
  Renamed(p) => retain(attr, {"rename"}) /\ optional(attr, "rename", "string")
Key(p) ==
  IF Renamed(p) THEN Value(find_attr(p.attrs, "argument"), "rename", p.ident)
  ELSE p.ident

ParamsOk(e) ==
  \A i \in DOMAIN e.params :
    e.params[i].pat = "ident" /\ ArgumentOk(e.params[i])

\* RpcMethod::from_item.
MethodOk(e) ==
  LET attr == MethodAttr(e) IN
  /\ retain(attr, {"aliases", "blocking", "name", "param_kind",
                   "with_extensions"})
  /\ optional(attr, "aliases", "list") /\ optional(attr, "name", "string")
  /\ \A l \in {"blocking", "with_extensions"} : optional(attr, l, "flag")
  /\ parse_param_kind(attr)
  /\ ~(Given(attr, "blocking") /\ e.async)
  /\ ParamsOk(e)

\* RpcSubscription::from_item, up to the parameters; what it does not find
\* there it derives, or panics.
SubAttrOk(e) ==
  LET attr == SubAttr(e) IN
  /\ retain(attr, {"aliases", "item", "name", "param_kind", "unsubscribe",
                   "unsubscribe_aliases", "with_extensions"})
  /\ optional(attr, "aliases", "list")
  /\ Given(attr, "name") /\ optional(attr, "name", "mapping")
  /\ Given(attr, "item") /\ optional(attr, "item", "type")
  /\ parse_param_kind(attr)
  /\ optional(attr, "unsubscribe_aliases", "list")
  /\ optional(attr, "with_extensions", "flag")
  /\ optional(attr, "unsubscribe", "string")

Unsubscribable(e) ==
  \/ Given(SubAttr(e), "unsubscribe")
  \/ CanUnsubscribe(Value(SubAttr(e), "name", <<>>))

\* A pattern that is no identifier, before any parameter that is refused.
SubParamPanics(e) ==
  \E i \in DOMAIN e.params :
    /\ e.params[i].pat # "ident"
    /\ \A j \in 1..(i - 1) : ArgumentOk(e.params[j])

\* What is recorded of an entry; from is its place in the trait.
Item(attr, e, from, name, unsubscribe) ==
  [from |-> from, name |-> name,
   aliases |-> Value(attr, "aliases", <<>>),
   kind |-> Value(attr, "param_kind", "array"),
   keys |-> [i \in DOMAIN e.params |-> Key(e.params[i])],
   unsubscribe |-> unsubscribe]

MethodItem(e, from) ==
  Item(MethodAttr(e), e, from,
       Value(MethodAttr(e), "name", snake_to_camel(e.ident)), <<>>)

SubItem(e, from) ==
  LET name == Value(SubAttr(e), "name", <<>>) IN
  Item(SubAttr(e), e, from, name,
       IF Given(SubAttr(e), "unsubscribe")
       THEN Value(SubAttr(e), "unsubscribe", <<>>) ELSE build_unsubscribe(name))

-----------------------------------------------------------------------------
(* The expansion *)

VARIABLES
  attr,     \* #[rpc(..)]
  entries,  \* the trait's
  pc,       \* "switches", "entries", or how it ended
  at,       \* the entry that is next
  methods, subscriptions,   \* the items collected
  out       \* what was rendered

vars == <<attr, entries, pc, at, methods, subscriptions, out>>

Nothing == [def |-> <<>>, enum |-> <<>>, matches |-> {}]

Init ==
  /\ \E i \in Inputs : attr = i.attr /\ entries = i.entries
  /\ pc = "switches" /\ at = 1
  /\ methods = <<>> /\ subscriptions = <<>>
  /\ out = Nothing

Ends(how) ==
  pc' = how /\ UNCHANGED <<attr, entries, at, methods, subscriptions, out>>

AcceptSwitches == pc = "switches" /\ SwitchesOk(attr) /\ Ends("entries")
RefuseSwitches == pc = "switches" /\ ~SwitchesOk(attr) /\ Ends("refused")

AtEntry == pc = "entries" /\ at <= Len(entries)
Entry == entries[at]

RefuseEntry == AtEntry /\ ~Usable(Entry) /\ Ends("refused")

\* Mutant of TakeMethod: an entry without an attribute is left alone.
TakeMarkedMethod ==
  /\ AtEntry /\ Usable(Entry) /\ ~IsSub(Entry) /\ MethodOk(Entry)
  /\ at' = at + 1
  /\ methods' = IF HasAttr(Entry.attrs, "method")
                THEN Append(methods, MethodItem(Entry, at)) ELSE methods
  /\ UNCHANGED <<attr, entries, pc, subscriptions, out>>

\* With or without #[method].
TakeMethod ==
  /\ AtEntry /\ Usable(Entry) /\ ~IsSub(Entry) /\ MethodOk(Entry)
  /\ at' = at + 1
  /\ methods' = Append(methods, MethodItem(Entry, at))
  /\ UNCHANGED <<attr, entries, pc, subscriptions, out>>

RefuseMethod ==
  AtEntry /\ Usable(Entry) /\ ~IsSub(Entry) /\ ~MethodOk(Entry) /\ Ends("refused")

TakeSubscription ==
  /\ AtEntry /\ Usable(Entry) /\ IsSub(Entry)
  /\ SubAttrOk(Entry) /\ Unsubscribable(Entry) /\ ParamsOk(Entry)
  /\ at' = at + 1
  /\ subscriptions' = Append(subscriptions, SubItem(Entry, at))
  /\ UNCHANGED <<attr, entries, pc, methods, out>>

RefuseSubscription ==
  /\ AtEntry /\ Usable(Entry) /\ IsSub(Entry)
  /\ \/ ~SubAttrOk(Entry)
     \/ /\ SubAttrOk(Entry) /\ Unsubscribable(Entry)
        /\ ~ParamsOk(Entry) /\ ~SubParamPanics(Entry)
  /\ Ends("refused")

PanicSubscription ==
  /\ AtEntry /\ Usable(Entry) /\ IsSub(Entry) /\ SubAttrOk(Entry)
  /\ ~Unsubscribable(Entry) \/ SubParamPanics(Entry)
  /\ Ends("panicked")

AtEnd == pc = "entries" /\ at > Len(entries)
RefuseEmpty == AtEnd /\ entries = <<>> /\ Ends("refused")

\* strip_rpc_attrs
Without(attrs, paths) == Omit(attrs, {a \in Elements(attrs) : a.path \in paths})

\* Mutant of rewritten: leaves the parameters' attributes.
rewritten_outside(e) ==
  [e EXCEPT !.attrs = Without(@, {"method", "subscription"}), !.async = FALSE]

stripped(p) == [p EXCEPT !.attrs = Without(@, {"argument"})]

\* strip_rpc_attrs, rewrite_async_methods: the trait that goes out.
rewritten(e) ==
  [e EXCEPT !.attrs = Without(@, {"method", "subscription"}),
            !.async = FALSE,
            !.params = [i \in DOMAIN @ |-> stripped(@[i])]]

\* Mutant of Variants: of the full names (rpc_identifier).
Variants_full(items) ==
  [i \in DOMAIN items |->
     to_variant_name(IF Given(attr, "namespace")
                     THEN Value(attr, "namespace", <<>>)
                          \o Value(attr, "namespace_separator", <<Underscore>>)
                          \o items[i].name
                     ELSE items[i].name)]

Variants(items) == [i \in DOMAIN items |-> to_variant_name(items[i].name)]

\* Mutant of render_client_request_enum: as in render_server.
client_request_enum_all == Variants(methods \o subscriptions)

\* The client's own request enum has no subscriptions.
render_client_request_enum == Variants(methods)

request_enum ==
  IF Server(attr) THEN Variants(methods \o subscriptions)
  ELSE render_client_request_enum

\* The matches over the request enum: From<Enum> for Request in the server's
\* half, into_json_rpc_request in the client's.
matches ==
  {m \in {[half |-> "server", arms |-> Variants(methods \o subscriptions)],
          [half |-> "client", arms |-> Variants(methods)]} :
     IF m.half = "server" THEN Server(attr) ELSE Client(attr)}

Named(enum) == \A v \in Elements(enum) : IsIdent(v)

\* RpcDescription::render
Render ==
  /\ AtEnd /\ entries # <<>> /\ Named(request_enum)
  /\ pc' = "expanded"
  /\ out' = [def |-> [i \in DOMAIN entries |-> rewritten(entries[i])],
             enum |-> request_enum, matches |-> matches]
  /\ UNCHANGED <<attr, entries, at, methods, subscriptions>>

\* A name that gives a variant no identifier.
PanicRender ==
  AtEnd /\ entries # <<>> /\ ~Named(request_enum) /\ Ends("panicked")

Next ==
  \/ AcceptSwitches \/ RefuseSwitches \/ RefuseEntry
  \/ TakeMethod \/ RefuseMethod
  \/ TakeSubscription \/ RefuseSubscription \/ PanicSubscription
  \/ RefuseEmpty \/ Render \/ PanicRender

Spec == Init /\ [][Next]_vars

-----------------------------------------------------------------------------
MacroTypeOK ==
  /\ pc \in {"switches", "entries", "refused", "panicked", "expanded"}
  /\ at \in 1..(Len(entries) + 1)
  /\ \A m \in Elements(methods \o subscriptions) :
       m.from \in DOMAIN entries /\ m.kind \in {"array", "map"}
  /\ pc # "expanded" => out = Nothing

\* The values that are written after a label and =, in a list of arguments.
Said(meta, label) ==
  {meta.tokens[s + 2][2] :
     s \in {s \in Starts(meta.tokens) :
              /\ s + 2 <= Len(meta.tokens)
              /\ meta.tokens[s] = Word(label) /\ meta.tokens[s + 1] = Equals}}

Marking(e) == IF IsSub(e) THEN SubAttr(e) ELSE MethodAttr(e)

\* What the author wrote is what is recorded: of an entry that is taken, no
\* value written in its attribute, or in that of a parameter, gives way to
\* another one, to one derived from the signature or to a default.
WrittenIsRecorded ==
  \A m \in Elements(methods) \cup Elements(subscriptions) :
    LET e == entries[m.from]
        said(label) == Said(Marking(e), label)
    IN /\ said("name") \subseteq {m.name}
       /\ said("aliases") \subseteq {m.aliases}
       /\ said("param_kind") \subseteq {m.kind}
       /\ IsSub(e) => said("unsubscribe") \subseteq {m.unsubscribe}
       /\ \A j \in DOMAIN e.params :
            Renamed(e.params[j]) =>
              Said(find_attr(e.params[j].attrs, "argument"), "rename") \subseteq {m.keys[j]}

\* o is a bracket that c closes: between them, each that opens closes.
Pairs(tokens, o, c) ==
  LET n(k, kind) == Cardinality({i \in o..k : tokens[i] = kind}) IN
  /\ tokens[o] = Open /\ tokens[c] = Close
  /\ n(c, Open) = n(c, Close)
  /\ \A k \in o..(c - 1) : n(k, Open) > n(k, Close)

Enclosed(tokens, i) ==
  \E o \in 1..(i - 1), c \in (i + 1)..Len(tokens) : Pairs(tokens, o, c)

\* Every bracket is closed, and not with an arrow before that.
Bracketing(tokens) ==
  \A o \in DOMAIN tokens :
    /\ tokens[o] = Open => \E c \in (o + 1)..Len(tokens) : Pairs(tokens, o, c)
    /\ tokens[o] \in {Arrow, FatArrow} => ~Enclosed(tokens, o)

\* However brackets nest and follow one another, the arguments of an entry's
\* attribute are cut at its commas outside them and nowhere else. (An arrow in a bracket
\* counts as its end; attributes.rs:67-69 does not say so.)
CutsAtOuterCommas ==
  AtEntry => \A a \in Elements(Entry.attrs) :
    Parses(a) /\ Bracketing(a.tokens) =>
      Separators(a.tokens) =
        {c \in DOMAIN a.tokens : a.tokens[c] = Comma /\ ~Enclosed(a.tokens, c)}

\* Of the entries that have been gone through, in their order, which are
\* collected as one kind of item.
InOrder(items) ==
  /\ \A i, j \in DOMAIN items : i < j => items[i].from < items[j].from
  /\ \A i \in DOMAIN items : items[i].from < at

Places(items) == {items[i].from : i \in DOMAIN items}

\* Every entry gone through is in one of the lists, once, in the order of the
\* trait, and in the list its attribute asks for: none is dropped, doubled or
\* taken for the other kind.
CollectsInOrder ==
  /\ InOrder(methods) /\ InOrder(subscriptions)
  /\ Places(methods) \cup Places(subscriptions) = 1..(at - 1)
  /\ \A i \in Places(methods) : ~IsSub(entries[i])
  /\ \A i \in Places(subscriptions) : IsSub(entries[i])

\* What rustc is given back: no attribute of the macro's is left in it, which
\* it would not know, no async fn, and whatever else the author wrote.
OutputClean ==
  pc = "expanded" =>
    /\ Len(out.def) = Len(entries)
    /\ \A i \in DOMAIN entries :
         LET e == out.def[i] IN
         /\ ~e.async /\ e.ident = entries[i].ident
         /\ Len(e.params) = Len(entries[i].params)
         /\ \A a \in Elements(e.attrs) : a.path \notin {"method", "subscription"}
         /\ \A a \in Elements(entries[i].attrs) :
              a.path \in {"method", "subscription"} \/ a \in Elements(e.attrs)
         /\ \A j \in DOMAIN e.params :
              LET p == entries[i].params[j] IN
              /\ ~Renamed(e.params[j])
              /\ e.params[j].pat = p.pat /\ e.params[j].ident = p.ident
              /\ \A a \in Elements(p.attrs) :
                   a.path = "argument" \/ a \in Elements(e.params[j].attrs)

\* Each match over the generated enum has an arm for each of its variants.
Exhaustive(m) == Elements(out.enum) \subseteq Elements(m.arms)

\* ... unless a trait with subscriptions asks for a server and a client.
ExhaustiveMatches ==
  ~(Server(attr) /\ Client(attr) /\ subscriptions # <<>>) =>
    /\ \A m \in out.matches : Exhaustive(m)
    /\ \A m \in out.matches : Elements(m.arms) \subseteq Elements(out.enum)

\* The same without the exception.
EveryMatchExhaustive == \A m \in out.matches : Exhaustive(m)

\* snake_case as Rust writes it: no capitals, and words that begin with a letter.
Snake(ident) ==
  /\ IsIdent(ident)
  /\ Elements(ident) \subseteq DOMAIN Upper \ (Capitals \cup {Dash})
  /\ \A i \in DOMAIN ident : ident[i] = Underscore =>
       /\ i > 1 /\ i < Len(ident)
       /\ ident[i + 1] # Underscore /\ Upper[ident[i + 1]] # ident[i + 1]

\* Methods that keep the names derived from their identifiers do not collide
\* on the wire or in the enum, as long as they are in snake case.
DefaultNamesDistinct ==
  \A i, j \in DOMAIN methods :
    LET e == entries[methods[i].from]
        f == entries[methods[j].from]
    IN (/\ e.ident # f.ident /\ Snake(e.ident) /\ Snake(f.ident)
        /\ ~Given(MethodAttr(e), "name") /\ ~Given(MethodAttr(f), "name"))
       => /\ methods[i].name # methods[j].name
          /\ to_variant_name(methods[i].name) # to_variant_name(methods[j].name)

\* The items that give the request enum its variants.
Varied == Elements(methods) \cup (IF Server(attr) THEN Elements(subscriptions) ELSE {})

\* A trait whose entries are all taken is rendered, if its names are derived
\* from identifiers in snake case: only a name somebody wrote, or an identifier
\* in another case, can make the last step panic, and no namespace can.
DefaultNamesRender ==
  pc = "panicked" /\ at > Len(entries) =>
    \E m \in Varied :
      /\ ~IsIdent(to_variant_name(m.name))
      /\ ~Snake(entries[m.from].ident) \/ Given(Marking(entries[m.from]), "name")
=============================================================================
