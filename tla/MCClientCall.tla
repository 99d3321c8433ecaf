---------------------------- MODULE MCClientCall ----------------------------
(***************************************************************************)
(* A trait with a method of positional and one of named parameters, whose  *)
(* results overlap, one that returns a type alias of Result, and a         *)
(* subscription with named parameters.                                     *)
(***************************************************************************)
EXTENDS ClientCall, TLC

CONSTANTS x, y, z   \* JSON values

Item(name, kind, params, ret) ==
  [name |-> name, aliases |-> {}, kind |-> kind, params |-> params, ret |-> ret]

Named == <<[key |-> "name", ty |-> {x}]>>

\* -> Result<T, E>, T one of the given values
ResultOf(values) == [wrapped |-> TRUE, ok |-> values, whole |-> {z}]

\* -> T, in a trait with a client only
Plain(values) == [wrapped |-> FALSE, ok |-> values, whole |-> values]

\* -> RpcResult<T>, which deserializes from {"Ok": ..} only
AliasOf(values) == [wrapped |-> FALSE, ok |-> values, whole |-> {z}]

Trait(third) ==
  [namespace |-> <<<<"ns">>>>, separator |-> <<"_">>,
   methods |-> <<Item(<<"hello">>, "array", Named, Plain({x})),
                 Item(<<"stat">>, "map", Named, ResultOf({x, y}))>> \o third,
   subscriptions |-> <<Item(<<"ticks">>, "map", Named, ResultOf({}))>>]

Alias == Item(<<"old">>, "array", <<>>, AliasOf({y}))

SmallApi == Trait(<<>>)
AliasApi == Trait(<<Alias>>)

SmallCalls == {Variant(1, <<x>>), Variant(2, <<x>>), Variant(3, <<x>>)}
AliasCalls == {Variant(1, <<x>>), Variant(3, <<>>)}

\* Requests of callers without a trait: one that fits, and an object where an
\* array is expected.
OwnRequests ==
  {[method |-> <<"ns", "_", "hello">>, params |-> p, id |-> 9] :
     p \in {ArrayParams(<<x>>), MapParams([k \in {"name"} |-> x])}}

Symmetry == Permutations(Caller) \cup Permutations(Ticket)
=============================================================================
