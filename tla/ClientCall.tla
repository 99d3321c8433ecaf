----------------------------- MODULE ClientCall -----------------------------
(***************************************************************************)
(* Concurrent calls through the clients the crate offers, and what comes   *)
(* back: the methods of the generated client trait, rpc_call with the      *)
(* request enum or with a Request of the caller's own, and the generated   *)
(* subscription client (render_client.rs, client.rs), over HTTP or over    *)
(* one shared WsClient (ws_client.rs).                                     *)
(*                                                                         *)
(* The other end serves the trait the clients were generated from; a       *)
(* WebSocket server is jsonrpsee's, so it may also serve subscriptions. An *)
(* item has a field ret besides those of RpcApi:                           *)
(*   [wrapped, ok, whole]                                                  *)
(* ok is the set of JSON values its handler's successes serialize to,      *)
(* whole the set its whole declared return type deserializes from, and     *)
(* wrapped says whether that type is spelled Result<_, _>.                 *)
(*                                                                         *)
(* A ticket names an exchange from Send until its reply is taken or thrown *)
(* away; it is free again then, which bounds how many are on the wire.     *)
(***************************************************************************)
EXTENDS RpcApi, FiniteSets

CONSTANTS
  Caller,   \* tasks that call through clones of the clients
  Ticket,   \* names of exchanges, and the ids jsonrpsee gives them
  Api,      \* the trait
  Calls,    \* typed calls: variants of the items of Api
  Raw,      \* requests callers make themselves: [method, params, id]
  None      \* nothing

ASSUME ClientAssumption ==
  /\ IsApi(Api) /\ \A v \in Calls : WellTyped(Api, v)
  /\ \A q \in Raw :
       IsRequest(q) /\ q = [method |-> q.method, params |-> q.params, id |-> q.id]
  /\ None \notin Ticket

VARIABLES
  pc,       \* "idle", "polling" (until ready) or "waiting" (for the response)
  call,     \* what a caller has called: [face, via, request, variant]
  ticket,   \* the exchange a waiting caller waits for
  wire      \* the exchanges under way: [at, via, request, reply]

vars == <<pc, call, ticket, wire>>

NoVariant == Variant(0, <<>>)
NoRequest == [method |-> <<>>, params |-> NoParams, id |-> 0]
NoCall == [face |-> "raw", via |-> "http", request |-> NoRequest,
           variant |-> NoVariant]

\* What comes back: kind, the id on it, what was executed and its result.
Reply(kind, id, variant, value) ==
  [kind |-> kind, id |-> id, variant |-> variant, value |-> value]

\* An exchange is "free" (there is none), "asked" or "answered".
Exchange(at, via, request, reply) ==
  [at |-> at, via |-> via, request |-> request, reply |-> reply]

NoReply == Reply("none", 0, NoVariant, None)
NoExchange == Exchange("free", "http", NoRequest, NoReply)

Init ==
  /\ pc = [c \in Caller |-> "idle"]
  /\ call = [c \in Caller |-> NoCall]
  /\ ticket = [c \in Caller |-> None]
  /\ wire = [t \in Ticket |-> NoExchange]

-----------------------------------------------------------------------------
(* Four faces, one way in: the request is built before anything is polled *)

Begin(c, face, via, request, variant) ==
  /\ pc[c] = "idle"
  /\ pc' = [pc EXCEPT ![c] = "polling"]
  /\ call' = [call EXCEPT ![c] = [face |-> face, via |-> via,
                                  request |-> request, variant |-> variant]]
  /\ UNCHANGED <<ticket, wire>>

IsMethod(v) == ~IsSubscription(Api, v.item)

\* A method of the generated client trait.
CallMethod(c, v, via) ==
  IsMethod(v) /\ Begin(c, "method", via, into_request(Api, v), v)

\* rpc_call with the request enum, and its generated into_json_rpc_request.
CallEnum(c, v, via) ==
  IsMethod(v) /\ Begin(c, "enum", via, into_request(Api, v), v)

\* rpc_call with a Request, which converts to itself.
CallRaw(c, q, via) == Begin(c, "raw", via, q, NoVariant)

\* A method of the generated subscription client, on jsonrpsee's client.
Subscribe(c, v) ==
  ~IsMethod(v) /\ Begin(c, "subscribe", "ws", into_request(Api, v), v)

-----------------------------------------------------------------------------
(* Out *)

\* The call's future ends, and its state with it.
Finish(c) ==
  /\ pc' = [pc EXCEPT ![c] = "idle"]
  /\ call' = [call EXCEPT ![c] = NoCall]
  /\ ticket' = [ticket EXCEPT ![c] = None]

\* The http service is never ready, or the http request does not build. A
\* WsClient is always ready.
PollFails(c) ==
  /\ pc[c] = "polling" /\ call[c].via = "http"
  /\ Finish(c)
  /\ UNCHANGED wire

\* Mutant of ws_params: forgets that an array is an array.
ws_params_none(params) == ArrayParams(<<>>)

\* from_str::<Vec<Value>>(params).unwrap_or_default()
ws_params(params) ==
  IF params.form = "array" THEN params ELSE ArrayParams(<<>>)

\* Mutant of OnWire: WsClient sends the request it was given.
OnWireOwnId(c, t) ==
  LET k == call[c] IN
  IF k.via = "http" \/ k.face = "subscribe" THEN k.request
  ELSE [k.request EXCEPT !.params = ws_params(@)]

\* The request as it is sent. WsClient::call hands jsonrpsee the method and
\* the parameters; jsonrpsee's own calls, subscribe too, have ids of its own.
OnWire(c, t) ==
  LET k == call[c]
      own == [k.request EXCEPT !.id = t]
  IN IF k.via = "http" THEN k.request
     ELSE IF k.face = "subscribe" THEN own
     ELSE [own EXCEPT !.params = ws_params(@)]

\* Mutant of Send: a request goes out that nobody waits for.
SendForgets(c, t) ==
  /\ pc[c] = "polling" /\ wire[t].at = "free"
  /\ pc' = [pc EXCEPT ![c] = "waiting"]
  /\ wire' = [wire EXCEPT ![t] =
                Exchange("asked", call[c].via, OnWire(c, t), NoReply)]
  /\ UNCHANGED <<call, ticket>>

Send(c, t) ==
  /\ pc[c] = "polling" /\ wire[t].at = "free"
  /\ pc' = [pc EXCEPT ![c] = "waiting"]
  /\ ticket' = [ticket EXCEPT ![c] = t]
  /\ wire' = [wire EXCEPT ![t] =
                Exchange("asked", call[c].via, OnWire(c, t), NoReply)]
  /\ UNCHANGED call

-----------------------------------------------------------------------------
(* The other end, and the way back to it *)

Asked(t) == wire[t].at = "asked"

Parsed(t) == try_from(Api, wire[t].request)

Answer(t, kind, variant, value) ==
  /\ wire' = [wire EXCEPT ![t] =
                Exchange("answered", @.via, @.request,
                         Reply(kind, @.request.id, variant, value))]
  /\ UNCHANGED <<pc, call, ticket>>

\* The handler runs: a result, or an error object.
Execute(t) ==
  /\ Asked(t) /\ Parsed(t).ok /\ IsMethod(Parsed(t).variant)
  /\ \/ \E value \in Items(Api)[Parsed(t).variant.item].ret.ok :
          Answer(t, "value", Parsed(t).variant, value)
     \/ Answer(t, "error", Parsed(t).variant, None)

\* try_from refuses the request.
Refuse(t) ==
  /\ Asked(t) /\ ~Parsed(t).ok
  /\ Answer(t, Parsed(t).code, NoVariant, None)

\* A subscription: the generated server has a stub, jsonrpsee's accepts it.
Accept(t) ==
  /\ Asked(t) /\ Parsed(t).ok /\ ~IsMethod(Parsed(t).variant)
  /\ \/ Answer(t, "NotImplemented", NoVariant, None)
     \/ /\ wire[t].via = "ws"
        /\ Answer(t, "value", Parsed(t).variant, None)

\* A page that is no JSON-RPC response, under whatever status, or a broken
\* connection.
Spoil(t) ==
  /\ Asked(t)
  /\ \/ wire[t].via = "http" /\ Answer(t, "page", NoVariant, None)
     \/ Answer(t, "broken", NoVariant, None)

-----------------------------------------------------------------------------
(* Back *)

\* The reply is matched to the caller: an http exchange is the caller's own,
\* jsonrpsee goes by the id it sent.
Correlates(c, t) ==
  /\ pc[c] = "waiting" /\ wire[t].at = "answered"
  /\ wire[t].via = call[c].via
  /\ IF call[c].via = "http" THEN t = ticket[c]
     ELSE wire[t].reply.id = OnWire(c, ticket[c]).id

Failed == [kind |-> "failed", id |-> 0, as |-> 0, value |-> None]
Got(kind, id, as, value) == [kind |-> kind, id |-> id, as |-> as, value |-> value]

\* Mutant of ok_type: never unwraps.
ok_type_whole(i) == Items(Api)[i].ret.whole

\* result_ok_type, ok_type: only a type spelled Result is unwrapped.
ok_type(i) ==
  LET ret == Items(Api)[i].ret IN IF ret.wrapped THEN ret.ok ELSE ret.whole

\* to_json_rpc_response reads any JSON-RPC body, whatever its status ...
HttpReads(reply) == reply.kind \notin {"page", "broken"}

\* ... and WsClient::call turns everything but a result into an error.
WsReads(reply) == reply.kind = "value"

\* Mutant of RespondedId: the id of the response is jsonrpsee's.
RespondedWireId(k, reply) == reply.id

\* WsClient::call answers under the id of the request it was given.
RespondedId(k, reply) ==
  IF k.via = "ws" /\ k.face # "subscribe" THEN k.request.id ELSE reply.id

\* Mutant of method_result: takes any payload for the result.
method_result_any(i, reply, id) == Got("ok", id, i, reply.value)

\* The generated method: the payload as the method's own type.
method_result(i, reply, id) ==
  IF reply.kind = "value" /\ reply.value \in ok_type(i)
  THEN Got("ok", id, i, reply.value) ELSE Failed

\* The response enum's variants whose type the value deserializes to.
Fitting(value) ==
  {i \in DOMAIN Items(Api) : ~IsSubscription(Api, i) /\ value \in ok_type(i)}

\* Mutant of enum_result: the last type wins.
enum_result_last(reply, id) ==
  LET fit == Fitting(reply.value) IN
  IF reply.kind = "value" /\ fit # {}
  THEN Got("ok", id, CHOOSE i \in fit : \A j \in fit : j <= i, reply.value)
  ELSE Failed

\* The response enum: the first type that deserializes, whatever was called.
enum_result(reply, id) ==
  LET fit == Fitting(reply.value) IN
  IF reply.kind = "value" /\ fit # {}
  THEN Got("ok", id, CHOOSE i \in fit : \A j \in fit : i <= j, reply.value)
  ELSE Failed

\* A caller of rpc_call(Request) gets the response itself, error or not.
raw_result(reply, id) ==
  Got(IF reply.kind = "value" THEN "ok" ELSE "error", id, 0, reply.value)

Read(k, reply) ==
  LET id == RespondedId(k, reply) IN
  IF ~(IF k.via = "http" THEN HttpReads(reply) ELSE WsReads(reply)) THEN Failed
  ELSE CASE k.face = "method"    -> method_result(k.variant.item, reply, id)
         [] k.face = "enum"      -> enum_result(reply, id)
         [] k.face = "raw"       -> raw_result(reply, id)
         [] k.face = "subscribe" -> Got("ok", id, k.variant.item, reply.value)

Receive(c, t) ==
  /\ Correlates(c, t)
  /\ Finish(c)
  /\ wire' = [wire EXCEPT ![t] = NoExchange]

\* A reply nobody waits for any more.
Discard(t) ==
  /\ wire[t].at = "answered"
  /\ \A c \in Caller : ~Correlates(c, t)
  /\ wire' = [wire EXCEPT ![t] = NoExchange]
  /\ UNCHANGED <<pc, call, ticket>>

\* The caller drops the future: a timeout, a shutdown. It takes its http
\* connection along; what it sent through the WsClient stays on the wire.
Cancel(c) ==
  /\ pc[c] # "idle"
  /\ Finish(c)
  /\ wire' = [t \in Ticket |->
                IF t = ticket[c] /\ call[c].via = "http"
                THEN NoExchange ELSE wire[t]]

-----------------------------------------------------------------------------
Serve(t) == Execute(t) \/ Refuse(t) \/ Accept(t) \/ Spoil(t)

Next ==
  \/ \E c \in Caller :
       \/ \E v \in Calls, via \in {"http", "ws"} :
            CallMethod(c, v, via) \/ CallEnum(c, v, via)
       \/ \E q \in Raw, via \in {"http", "ws"} : CallRaw(c, q, via)
       \/ \E v \in Calls : Subscribe(c, v)
       \/ PollFails(c) \/ Cancel(c)
       \/ \E t \in Ticket : Send(c, t) \/ Receive(c, t)
  \/ \E t \in Ticket : Serve(t) \/ Discard(t)

Spec == Init /\ [][Next]_vars

-----------------------------------------------------------------------------
ReplyKind == {"value", "error", "InvalidParams", "MethodNotFound",
              "NotImplemented", "page", "broken"}

ClientTypeOK ==
  /\ \A c \in Caller :
       /\ pc[c] \in {"idle", "polling", "waiting"}
       /\ call[c].face \in {"method", "enum", "raw", "subscribe"}
       /\ call[c].via \in {"http", "ws"}
       /\ ticket[c] \in IF pc[c] = "waiting" THEN Ticket ELSE {None}
  /\ \A t \in Ticket :
       /\ wire[t].at \in {"free", "asked", "answered"}
       /\ wire[t].via \in {"http", "ws"}
       /\ wire[t].at = "answered" => wire[t].reply.kind \in ReplyKind

\* What the caller would be given for a reply, and whether it is a success.
Result(c, t) == Read(call[c], wire[t].reply)
Succeeds(c, t) == Correlates(c, t) /\ Result(c, t).kind = "ok"
Typed(c) == call[c].face # "raw"

\* The only reply a caller can receive is the one to its own present request:
\* although every generated request has id 0, callers share one WsClient,
\* replies overtake one another and the replies to abandoned calls come late.
OwnAnswer ==
  \A c \in Caller, t \in Ticket : Correlates(c, t) => t = ticket[c]

\* ... and that one reaches it: nothing that other callers do, with their
\* replies or by giving up, takes away the exchange a caller waits for, or has
\* its reply discarded.
WaitersServed ==
  \A c \in Caller : pc[c] = "waiting" =>
    /\ wire[ticket[c]].at # "free"
    /\ wire[ticket[c]].at = "answered" => Correlates(c, ticket[c])

\* A call that succeeds was executed, with the arguments it was made with: no
\* error object, no foreign page and no lost parameter passes for a result.
OkIsServed ==
  \A c \in Caller, t \in Ticket : Succeeds(c, t) =>
    LET reply == wire[t].reply IN
    /\ reply.kind = "value" /\ reply.value = Result(c, t).value
    /\ Ok(reply.variant) = try_from(Api, call[c].request)
    /\ Typed(c) => reply.variant = call[c].variant

\* The declared type takes what the handler's success serializes to.
Decodable(v) ==
  IsMethod(v) =>
    LET ret == Items(Api)[v.item].ret IN ret.wrapped \/ ret.ok \subseteq ret.whole

\* The response enum names the method that was called, unless an earlier
\* method's type takes its result too.
VariantSound ==
  \A c \in Caller, t \in Ticket :
    Succeeds(c, t) /\ call[c].face = "enum" /\ Decodable(call[c].variant) =>
    LET own == call[c].variant.item
        got == Result(c, t)
    IN /\ got.as <= own
       /\ got.as = own \/ \E i \in 1..(own - 1) : got.value \in ok_type(i)

\* WsClient::call cannot carry an object of parameters.
Loses(c) ==
  /\ call[c].via = "ws" /\ call[c].face # "subscribe"
  /\ call[c].request.params.form = "map"

Malformed(c, t) ==
  Correlates(c, t) /\ wire[t].reply.kind \in {"InvalidParams", "MethodNotFound"}

\* The server never refuses a typed call as malformed, whichever client and
\* transport carried it, except for named parameters through WsClient.
TypedCallServed ==
  \A c \in Caller, t \in Ticket : Typed(c) /\ ~Loses(c) => ~Malformed(c, t)

\* The same without the exception.
EveryTypedCallServed ==
  \A c \in Caller, t \in Ticket : Typed(c) => ~Malformed(c, t)

\* A typed call that the server has carried out.
CarriedOut(c, t) ==
  Correlates(c, t) /\ Typed(c) /\ wire[t].reply.kind = "value"

\* A call that the server carries out succeeds for its caller too, if the
\* return type is spelled Result<_, _> or is the type of the value itself.
SuccessReaches ==
  \A c \in Caller, t \in Ticket :
    CarriedOut(c, t) /\ Decodable(call[c].variant) => Succeeds(c, t)

\* The same for every return type, a type alias of Result among them.
EverySuccessReaches ==
  \A c \in Caller, t \in Ticket : CarriedOut(c, t) => Succeeds(c, t)

\* The response to a request of the caller's own has that request's id, over
\* HTTP because the server repeats it, over WebSocket because WsClient does.
IdRestored ==
  \A c \in Caller, t \in Ticket :
    Correlates(c, t) /\ ~Typed(c) /\ Result(c, t).kind # "failed" =>
      Result(c, t).id = call[c].request.id

-----------------------------------------------------------------------------
(* A caller alone with its server *)

Requests == Raw \cup {into_request(Api, v) : v \in Calls}

\* What executing a variant can return.
HandlerResults(v) ==
  IF IsMethod(v) THEN Items(Api)[v.item].ret.ok ELSE {None}

Execution(v, value) == [variant |-> v, value |-> value]

successes ==
  [q \in Requests |->
     LET parsed == try_from(Api, q) IN
     IF parsed.ok
     THEN {Execution(parsed.variant, value) :
             value \in HandlerResults(parsed.variant)}
     ELSE {}]

\* What a waiting caller will be told, once its exchange is answered.
OutcomeFor(c) ==
  LET t == ticket[c] IN
  IF ~(pc[c] = "waiting" /\ wire[t].at = "answered") THEN <<>>
  ELSE IF Result(c, t).kind = "ok"
  THEN <<[success |-> TRUE,
          did |-> Execution(wire[t].reply.variant, Result(c, t).value)]>>
  ELSE <<[success |-> FALSE]>>

asked == [c \in Caller |-> IF pc[c] = "idle" THEN <<>> ELSE <<call[c].request>>]
outcome == [c \in Caller |-> OutcomeFor(c)]

Alone == INSTANCE RemoteCall WITH Request <- Requests, Successes <- successes

\* However many callers share a client and a connection, whatever they
\* abandon, and whatever WsClient makes of ids and parameters, each is served
\* as if it were alone: by one execution of its own request or by none, and
\* once that is settled nothing that others do undoes it.
CallersAreAlone == Alone!Spec
=============================================================================
