----------------------------- MODULE MCRpcMacro -----------------------------
(***************************************************************************)
(* Traits for TLC, as the README and the crate's tests (tests/test_*.rs    *)
(* and the cases under tests/ui) write them, with mistakes and without.    *)
(***************************************************************************)
EXTENDS RpcMacro, SequencesExt

\* Characters of names; subscribe stands for that prefix.
Capital ==
  "a" :> "A" @@ "b" :> "B" @@ "r" :> "R" @@ "A" :> "A" @@ "B" :> "B" @@ "R" :> "R"
  @@ "1" :> "1" @@ "_" :> "_" @@ "-" :> "-" @@ "." :> "." @@ "#" :> "#"
  @@ "subscribe" :> "Subscribe" @@ "unsubscribe" :> "Unsubscribe"

Letters == {"_", "a", "b", "r", "A", "B", "R", "subscribe", "unsubscribe",
            "Subscribe", "Unsubscribe"}
LettersAndDigits == Letters \cup {"1"}

U8 == <<Word("u8")>>
Pair(t) == <<Word("Pair"), Open>> \o t \o <<Comma>> \o U8 \o <<Close>>
Fn == <<Word("fn"), Group, Arrow>> \o U8
SomeTypes == {U8, Pair(U8), Fn, Pair(Fn)}

\* Attributes, from arguments that are label and tokens.
With(path, parens, tokens) == [path |-> path, parens |-> parens, tokens |-> tokens]
Is(label, token) == <<Word(label), Equals, token, Comma>>
Flag(label) == <<Word(label), Comma>>
Bounds(label) == <<Word(label), Group, Comma>>
Item_(tokens) == <<Word("item"), Equals>> \o tokens
Rpc(tokens) == With("rpc", TRUE, tokens)
Method(tokens) == With("method", TRUE, tokens)
Sub(tokens) == With("subscription", TRUE, tokens)
Rename(tokens) == With("argument", TRUE, tokens)
Doc == With("doc", FALSE, <<>>)

Ns == Is("namespace", Str(<<"a">>))

SoundSwitches ==
  {Rpc(Flag("server")),
   Rpc(Flag("client") \o Ns \o Bounds("client_bounds")),
   Rpc(Flag("server") \o Flag("client") \o Ns
       \o Is("namespace_separator", Str(<<"-">>))),
   Rpc(Bounds("server_bounds") \o Ns \o Is("namespace_separator", Str(<<".">>))
       \o <<Word("server")>>)}

OtherSwitches ==
  {Rpc(<<>>), Rpc(Ns), Rpc(Flag("server") \o Flag("magic")),
   Rpc(Flag("server") \o Flag("client") \o Flag("server")),
   Rpc(Flag("server") \o <<Comma>>), Rpc(Is("server", Str(<<"a">>))),
   Rpc(Flag("server") \o Is("namespace", Word("a"))),
   Rpc(Flag("server") \o Flag("server_bounds")),
   Rpc(Flag("server") \o Bounds("client_bounds")),
   Rpc(Flag("client") \o Bounds("server_bounds"))}

Param(pat, attrs) == [pat |-> pat, ident |-> <<"a">>, attrs |-> attrs]
E(ident, attrs, async, params) ==
  [fn |-> TRUE, receiver |-> TRUE, attrs |-> attrs, ident |-> ident,
   async |-> async, params |-> params]

AB == <<"a", "_", "b">>
Called(name) == Is("name", Str(name))
B_ == Called(<<"b">>)
Ticks == Is("name", Str(<<"subscribe", "_", "a">>))
A_ == Param("ident", <<>>)
Renamed_ == Param("ident", <<Doc, Rename(Is("rename", Str(<<"b">>)))>>)

SoundEntries ==
  {E(AB, <<>>, TRUE, <<A_>>), E(<<"a", "b">>, <<Doc>>, FALSE, <<>>),
   E(<<"a", "_", "1">>, <<>>, FALSE, <<>>), E(<<"a", "1">>, <<>>, FALSE, <<>>),
   E(<<"a">>, <<Method(<<>>)>>, TRUE, <<>>),
   E(<<"b">>, <<Doc, Method(B_ \o Is("aliases", List(<<<<"a">>, <<"a", "b">>>>)))>>,
     TRUE, <<A_>>),
   E(AB, <<Method(B_ \o Is("param_kind", Word("map")))>>, TRUE, <<Renamed_, A_>>),
   E(AB, <<Method(Flag("blocking") \o Is("param_kind", Word("array"))
                  \o Flag("with_extensions")), Method(Flag("magic"))>>, FALSE, <<>>),
   E(<<"b">>, <<Sub(Ticks \o Item_(U8))>>, TRUE, <<Renamed_>>),
   E(AB, <<Sub(<<Word("name"), Equals, Str(<<"b">>), FatArrow, Str(<<"a">>), Comma>>
               \o Is("unsubscribe", Str(<<"a">>)) \o Is("aliases", List(<<<<"a">>>>))
               \o Is("unsubscribe_aliases", List(<<>>)) \o Item_(Pair(U8))), Doc>>,
     TRUE, <<>>),
   E(<<"a">>, <<Sub(Item_(Fn) \o <<Comma>> \o Ticks)>>, FALSE, <<>>)}

\* Taken, but with names that are no identifiers, or not all of them.
OddNames ==
  {E(<<"b">>, <<Method(Called(n))>>, TRUE, <<>>) :
     n \in {<<>>, <<"1", "a">>, <<"a", ".", "b">>, <<"a", "-", "b">>}}
  \cup {E(ident, <<>>, TRUE, <<>>) :
          ident \in {<<"_", "1">>, <<"_", "_">>, <<"r", "#", "a">>}}
  \cup {E(<<"b">>, <<Sub(Called(<<"subscribe", ".", "a">>) \o Item_(U8))>>, TRUE, <<>>)}

\* Refused, or panicked over.
OtherEntries ==
  {[E(AB, <<>>, FALSE, <<>>) EXCEPT !.fn = FALSE],
   [E(AB, <<>>, FALSE, <<>>) EXCEPT !.receiver = FALSE],
   E(AB, <<Method(B_), Sub(Ticks \o Item_(U8))>>, TRUE, <<>>),
   E(AB, <<Method(B_ \o Is("param_kind", Str(<<"a">>)))>>, TRUE, <<>>),
   E(AB, <<Method(B_ \o Is("param_kind", Word("other")))>>, TRUE, <<>>),
   E(AB, <<Method(B_ \o Is("magic", Word("false")))>>, TRUE, <<>>),
   E(AB, <<Method(B_ \o Is("name", Str(<<"a">>)))>>, TRUE, <<>>),
   E(AB, <<Method(Is("name", List(<<>>)))>>, TRUE, <<>>),
   E(AB, <<With("method", FALSE, <<>>)>>, TRUE, <<>>),
   E(AB, <<Method(Flag("blocking"))>>, TRUE, <<>>),
   E(AB, <<>>, TRUE, <<Param("wild", <<>>)>>),
   E(AB, <<>>, TRUE, <<Param("ident", <<Rename(Flag("rename"))>>)>>),
   E(AB, <<Sub(<<>>)>>, TRUE, <<>>), E(AB, <<Sub(Ticks)>>, TRUE, <<>>),
   E(AB, <<Sub(Item_(U8))>>, TRUE, <<>>),
   E(AB, <<Sub(B_ \o Item_(U8))>>, TRUE, <<>>),
   E(AB, <<Sub(Ticks \o Item_(U8))>>, TRUE, <<Param("tuple", <<>>)>>),
   E(AB, <<Sub(Ticks \o Item_(U8))>>, TRUE,
     <<Param("ident", <<Rename(Flag("a"))>>), Param("tuple", <<>>)>>),
   E(AB, <<Sub(Ticks \o Item_(Pair(Fn)))>>, TRUE, <<>>)}

\* Items of every nesting of brackets, however it comes to an end.
Nested ==
  {E(<<"b">>, <<Sub(Ticks \o Item_(t))>>, TRUE, <<>>) :
     t \in SeqOf({Open, Close, Comma, Arrow, Word("u8")}, 5)}

SomeInputs ==
  LET e == SoundEntries \cup OddNames \cup OtherEntries
      short == {<<>>} \cup {<<f>> : f \in e}
      long == {<<f, g>> : f \in e, g \in e}
  IN [attr : SoundSwitches, entries : short \cup long]
     \cup [attr : OtherSwitches, entries : short]
     \cup [attr : {Rpc(Flag("server"))}, entries : {<<f>> : f \in Nested}]
=============================================================================
