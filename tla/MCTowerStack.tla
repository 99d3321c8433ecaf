---------------------------- MODULE MCTowerStack ----------------------------
(***************************************************************************)
(* Small stacks for TLC: the say api and the admin api of the README, with *)
(* limit layers around or between them, over an innermost service.         *)
(***************************************************************************)
EXTENDS TowerStackFlat, TLC

CONSTANTS x, y   \* two JSON values

Item(name, aliases, kind, params) ==
  [name |-> name, aliases |-> aliases, kind |-> kind, params |-> params]

\* say_hello(name), with the alias "hi", and the subscription say_ticks.
Say ==
  [namespace |-> <<<<"say">>>>, separator |-> <<"_">>,
   methods |-> <<Item(<<"hello">>, {<<"hi">>}, "array",
                      <<[key |-> "name", ty |-> {x}]>>)>>,
   subscriptions |-> <<Item(<<"ticks">>, {}, "array", <<>>)>>]

\* ping(), without a namespace, and a method that is also called hi.
Admin ==
  [namespace |-> <<>>, separator |-> <<"_">>,
   methods |-> <<Item(<<"hi">>, {}, "array", <<>>),
                 Item(<<"ping">>, {}, "array", <<>>)>>,
   subscriptions |-> <<>>]

In(readable, method, params, id) ==
  [readable |-> readable, method |-> method, params |-> params, id |-> id]

\* One of each way through the stack.
AllIncoming ==
  {In(FALSE, <<"ping">>, NoParams, 1),
   In(TRUE, <<"hi">>, ArrayParams(<<x>>), 1),
   In(TRUE, <<"say", "_", "hello">>, ArrayParams(<<y>>), 2),
   In(TRUE, <<"say", "_", "ticks">>, NoParams, 1),
   In(TRUE, <<"ping">>, NoParams, 2),
   In(TRUE, <<"other">>, NoParams, 1)}

\* A request for each layer, for the runs with more requests.
FewIncoming ==
  {In(TRUE, <<"hi">>, ArrayParams(<<x>>), 1),
   In(TRUE, <<"other">>, NoParams, 1)}

Ids == 0..2
OneId == {1}

\* Limits around everything, as an http server would place them.
OuterLimits == <<"limit", "limit", "bridge", "api", "api">>
OuterCap == 1 :> 2 @@ 2 :> 1
OuterApi == 4 :> Say @@ 5 :> Admin

Symmetry == Permutations(Req)

\* A limit inside JsonRpcLayer, where a layer sees jsonrpsee's Request.
InnerLimit == <<"bridge", "limit", "api">>
InnerCap == 2 :> 1
InnerApi == 3 :> Say

\* The same with a limit around it and an api that is reached first.
MiddleLimit == <<"limit", "bridge", "api", "limit", "api">>
MiddleCap == 1 :> 2 @@ 4 :> 1
MiddleApi == 3 :> Say @@ 5 :> Admin
=============================================================================
