-------------------------- MODULE ClientCallProofs --------------------------
(***************************************************************************)
(* ClientCall for every trait, any number of callers and of exchanges.     *)
(***************************************************************************)
EXTENDS ClientCall, RpcApiProofs

-----------------------------------------------------------------------------
(* The inductive invariant *)

\* What a caller under way has called was built from its variant, or is its
\* own.
Made(k) ==
  /\ k.via \in {"http", "ws"}
  /\ \/ k.face = "raw" /\ k.request \in Raw
     \/ /\ k.face \in {"method", "enum"} /\ IsMethod(k.variant)
        /\ k.variant \in Calls /\ k.request = into_request(Api, k.variant)
     \/ /\ k.face = "subscribe" /\ k.via = "ws" /\ ~IsMethod(k.variant)
        /\ k.variant \in Calls /\ k.request = into_request(Api, k.variant)

\* A waiting caller's exchange exists and carries its call.
Carried(c) ==
  /\ ticket[c] \in Ticket
  /\ wire[ticket[c]].at # "free"
  /\ wire[ticket[c]].via = call[c].via
  /\ wire[ticket[c]].request = OnWire(c, ticket[c])

CallerOK(c) ==
  /\ pc[c] \in {"idle", "polling", "waiting"}
  /\ pc[c] = "idle" => call[c] = NoCall
  /\ pc[c] # "idle" => Made(call[c])
  /\ pc[c] = "waiting" => Carried(c)
  /\ pc[c] # "waiting" => ticket[c] = None

\* A reply repeats the id it was asked with, and says truly what was done.
Truthful(e) ==
  /\ e.reply.kind \in ReplyKind
  /\ e.reply.id = e.request.id
  /\ e.reply.kind = "value" =>
       /\ try_from(Api, e.request) = Ok(e.reply.variant)
       /\ e.reply.value \in HandlerResults(e.reply.variant)
  /\ e.reply.kind \in {"InvalidParams", "MethodNotFound"} =>
       ~try_from(Api, e.request).ok

ExchangeOK(t) ==
  LET e == wire[t] IN
  /\ e.at \in {"free", "asked", "answered"} /\ e.via \in {"http", "ws"}
  /\ e.at # "free" /\ e.via = "ws" => e.request.id = t
  /\ e.at = "answered" => Truthful(e)

\* No two callers wait for one exchange.
Apart ==
  \A c, d \in Caller :
    pc[c] = "waiting" /\ pc[d] = "waiting" /\ ticket[c] = ticket[d] => c = d

Functions ==
  /\ pc = [c \in Caller |-> pc[c]] /\ call = [c \in Caller |-> call[c]]
  /\ ticket = [c \in Caller |-> ticket[c]] /\ wire = [t \in Ticket |-> wire[t]]

ClientInv ==
  /\ Functions /\ Apart
  /\ \A c \in Caller : CallerOK(c)
  /\ \A t \in Ticket : ExchangeOK(t)

-----------------------------------------------------------------------------
(* Lemmas *)

\* A request under way has its three fields.
LEMMA RequestFields ==
  ASSUME NEW k, Made(k)
  PROVE  k.request = [method |-> k.request.method, params |-> k.request.params,
                      id |-> k.request.id]
BY ClientAssumption DEF ClientAssumption, Made, into_request

\* Over the WebSocket a request carries the ticket as its id.
LEMMA WireId ==
  ASSUME NEW c, NEW t, Made(call[c]), call[c].via = "ws"
  PROVE  OnWire(c, t).id = t
BY RequestFields DEF OnWire

\* What a caller carries depends on its own call only.
LEMMA OnWireSame ==
  ASSUME NEW c, NEW t, call'[c] = call[c]
  PROVE  OnWire(c, t)' = OnWire(c, t)
BY DEF OnWire

\* The only reply that correlates is the caller's own.
LEMMA OwnReply ==
  ASSUME ClientInv, NEW c \in Caller, NEW t \in Ticket, Correlates(c, t)
  PROVE  t = ticket[c] /\ Made(call[c]) /\ Truthful(wire[t])
         /\ wire[t].request = OnWire(c, t) /\ wire[t].via = call[c].via
<1>1. CallerOK(c) /\ ExchangeOK(t)
  BY DEF ClientInv
<1>2. Made(call[c]) /\ Carried(c) /\ Truthful(wire[t])
  BY <1>1 DEF CallerOK, ExchangeOK, Correlates
<1>3. t = ticket[c]
  <2>1. CASE call[c].via = "http"
    BY <2>1 DEF Correlates
  <2>2. CASE call[c].via # "http"
    <3>1. call[c].via = "ws" /\ wire[t].reply.id = OnWire(c, ticket[c]).id
      BY <1>2, <2>2 DEF Correlates, Made
    <3>2. OnWire(c, ticket[c]).id = ticket[c]
      BY <1>2, <3>1, WireId
    <3>3. wire[t].reply.id = wire[t].request.id
      BY <1>2 DEF Truthful
    <3>4. wire[t].request.id = t
      BY <1>1, <3>1 DEF ExchangeOK, Correlates
    <3> QED
      BY <3>1, <3>2, <3>3, <3>4
  <2> QED
    BY <2>1, <2>2
<1> QED
  BY <1>2, <1>3 DEF Carried

\* Callers a step does not touch stay as they are, if their exchanges do.
LEMMA CallerUntouched ==
  ASSUME NEW c \in Caller, CallerOK(c),
         pc'[c] = pc[c], call'[c] = call[c], ticket'[c] = ticket[c],
         pc[c] = "waiting" =>
           /\ wire'[ticket[c]].at # "free"
           /\ wire'[ticket[c]].via = wire[ticket[c]].via
           /\ wire'[ticket[c]].request = wire[ticket[c]].request
  PROVE  CallerOK(c)'
BY OnWireSame DEF CallerOK, Carried, Made, IsMethod

\* So do exchanges.
LEMMA ExchangeUntouched ==
  ASSUME NEW t \in Ticket, ExchangeOK(t), wire'[t] = wire[t]
  PROVE  ExchangeOK(t)'
BY DEF ExchangeOK, Truthful, HandlerResults, IsMethod

-----------------------------------------------------------------------------
(* The steps *)

\* A call begins.
LEMMA BeginStep ==
  ASSUME ClientInv, NEW c \in Caller, NEW face, NEW via, NEW q, NEW v,
         Begin(c, face, via, q, v),
         Made([face |-> face, via |-> via, request |-> q, variant |-> v])
  PROVE  ClientInv'
<1>1. /\ pc'[c] = "polling" /\ ticket'[c] = ticket[c]
      /\ call'[c] = [face |-> face, via |-> via, request |-> q, variant |-> v]
      /\ \A d \in Caller : d # c =>
           pc'[d] = pc[d] /\ call'[d] = call[d] /\ ticket'[d] = ticket[d]
      /\ wire' = wire
  BY DEF Begin, ClientInv, Functions
<1>2. Functions'
  BY DEF Begin, ClientInv, Functions
<1>3. ticket[c] = None
  BY DEF Begin, ClientInv, CallerOK
<1>4. CallerOK(c)'
  BY <1>1, <1>3 DEF CallerOK, Made, IsMethod
<1>5. \A d \in Caller : d # c => CallerOK(d)'
  <2> SUFFICES ASSUME NEW d \in Caller, d # c PROVE CallerOK(d)'
    OBVIOUS
  <2>1. CallerOK(d) /\ (pc[d] = "waiting" => wire[ticket[d]].at # "free")
    BY DEF ClientInv, CallerOK, Carried
  <2> QED
    BY <1>1, <2>1, CallerUntouched
<1>6. \A t \in Ticket : ExchangeOK(t)'
  BY <1>1, ExchangeUntouched DEF ClientInv
<1>7. Apart'
  BY <1>1 DEF ClientInv, Apart
<1> QED
  BY <1>2, <1>4, <1>5, <1>6, <1>7 DEF ClientInv

\* A call ends, and at most its own exchange with it.
LEMMA FinishStep ==
  ASSUME ClientInv, NEW c \in Caller, Finish(c), Functions',
         \A t \in Ticket : t # ticket[c] => wire'[t] = wire[t],
         \A t \in Ticket : wire'[t] = wire[t] \/ wire'[t] = NoExchange
  PROVE  ClientInv'
<1>1. /\ pc'[c] = "idle" /\ call'[c] = NoCall /\ ticket'[c] = None
      /\ \A d \in Caller : d # c =>
           pc'[d] = pc[d] /\ call'[d] = call[d] /\ ticket'[d] = ticket[d]
  BY DEF Finish, ClientInv, Functions
<1>2. CallerOK(c)'
  BY <1>1 DEF CallerOK
<1>3. \A d \in Caller : d # c => CallerOK(d)'
  <2> SUFFICES ASSUME NEW d \in Caller, d # c PROVE CallerOK(d)'
    OBVIOUS
  <2>1. CallerOK(d) /\ CallerOK(c) /\ None \notin Ticket
    BY ClientAssumption DEF ClientInv, ClientAssumption
  <2>2. pc[d] = "waiting" =>
          /\ ticket[d] \in Ticket /\ ticket[d] # ticket[c]
          /\ wire[ticket[d]].at # "free"
    BY <2>1 DEF ClientInv, CallerOK, Carried, Apart
  <2> QED
    BY <1>1, <2>1, <2>2, CallerUntouched
<1>4. \A t \in Ticket : ExchangeOK(t)'
  <2> SUFFICES ASSUME NEW t \in Ticket PROVE ExchangeOK(t)'
    OBVIOUS
  <2>1. CASE wire'[t] = wire[t]
    BY <2>1, ExchangeUntouched DEF ClientInv
  <2>2. CASE wire'[t] = NoExchange
    BY <2>2 DEF ExchangeOK, NoExchange, Exchange
  <2> QED
    BY <2>1, <2>2
<1>5. Apart'
  BY <1>1 DEF ClientInv, Apart
<1> QED
  BY <1>2, <1>3, <1>4, <1>5 DEF ClientInv

\* A caller sends its request under a ticket nobody uses.
LEMMA SendStep ==
  ASSUME ClientInv, NEW c \in Caller, NEW t \in Ticket, Send(c, t)
  PROVE  ClientInv'
<1> DEFINE e == Exchange("asked", call[c].via, OnWire(c, t), NoReply)
<1>1. /\ pc'[c] = "waiting" /\ ticket'[c] = t /\ call' = call /\ wire'[t] = e
      /\ \A d \in Caller : d # c => pc'[d] = pc[d] /\ ticket'[d] = ticket[d]
      /\ \A u \in Ticket : u # t => wire'[u] = wire[u]
  BY DEF Send, ClientInv, Functions
<1>2. Functions'
  BY DEF Send, ClientInv, Functions
<1>3. /\ e.at = "asked" /\ e.via = call[c].via /\ e.request = OnWire(c, t)
  BY DEF Exchange
<1>4. Made(call[c])
  BY DEF Send, ClientInv, CallerOK
<1> HIDE DEF e
<1>5. CallerOK(c)'
  <2>1. Carried(c)'
    BY <1>1, <1>3, OnWireSame DEF Carried
  <2> QED
    BY <1>1, <1>4, <2>1 DEF CallerOK, Made, IsMethod
<1>6. \A d \in Caller : pc[d] = "waiting" => ticket[d] # t
  BY DEF Send, ClientInv, CallerOK, Carried
<1>7. \A d \in Caller : d # c => CallerOK(d)'
  <2> SUFFICES ASSUME NEW d \in Caller, d # c PROVE CallerOK(d)'
    OBVIOUS
  <2>1. CallerOK(d)
    BY DEF ClientInv
  <2>2. pc[d] = "waiting" =>
          /\ wire'[ticket[d]] = wire[ticket[d]] /\ wire[ticket[d]].at # "free"
    BY <1>1, <1>6, <2>1 DEF CallerOK, Carried
  <2> QED
    BY <1>1, <2>1, <2>2, CallerUntouched
<1>8. \A u \in Ticket : ExchangeOK(u)'
  <2> SUFFICES ASSUME NEW u \in Ticket PROVE ExchangeOK(u)'
    OBVIOUS
  <2>1. CASE u # t
    BY <1>1, <2>1, ExchangeUntouched DEF ClientInv
  <2>2. CASE u = t
    <3>1. e.via \in {"http", "ws"} /\ (e.via = "ws" => e.request.id = t)
      BY <1>3, <1>4, WireId DEF Made
    <3> QED
      BY <1>1, <1>3, <2>2, <3>1 DEF ExchangeOK
  <2> QED
    BY <2>1, <2>2
<1>9. Apart'
  BY <1>1, <1>6 DEF ClientInv, Apart
<1> QED
  BY <1>2, <1>5, <1>7, <1>8, <1>9 DEF ClientInv

\* The other end answers an exchange, truthfully.
LEMMA AnswerStep ==
  ASSUME ClientInv, NEW t \in Ticket, NEW kind, NEW v, NEW value, Asked(t),
         Answer(t, kind, v, value),
         kind \in ReplyKind,
         kind = "value" =>
           /\ Parsed(t) = Ok(v)
           /\ value \in HandlerResults(v),
         kind \in {"InvalidParams", "MethodNotFound"} => ~Parsed(t).ok
  PROVE  ClientInv'
<1> DEFINE e == Exchange("answered", wire[t].via, wire[t].request,
                         Reply(kind, wire[t].request.id, v, value))
<1>1. /\ wire'[t] = e /\ UNCHANGED <<pc, call, ticket>>
      /\ \A u \in Ticket : u # t => wire'[u] = wire[u]
  BY DEF Answer, ClientInv, Functions
<1>2. Functions'
  BY DEF Answer, ClientInv, Functions
<1>3. /\ e.at = "answered" /\ e.via = wire[t].via /\ e.request = wire[t].request
      /\ e.reply.kind = kind /\ e.reply.id = wire[t].request.id
      /\ e.reply.variant = v /\ e.reply.value = value
  BY DEF Exchange, Reply
<1> HIDE DEF e
<1>4. \A c \in Caller : CallerOK(c)'
  <2> SUFFICES ASSUME NEW c \in Caller PROVE CallerOK(c)'
    OBVIOUS
  <2>1. CallerOK(c)
    BY DEF ClientInv
  <2>2. pc[c] = "waiting" =>
          /\ wire'[ticket[c]].at # "free"
          /\ wire'[ticket[c]].via = wire[ticket[c]].via
          /\ wire'[ticket[c]].request = wire[ticket[c]].request
    BY <1>1, <1>3, <2>1 DEF CallerOK, Carried
  <2> QED
    BY <1>1, <2>1, <2>2, CallerUntouched
<1>5. \A u \in Ticket : ExchangeOK(u)'
  <2> SUFFICES ASSUME NEW u \in Ticket PROVE ExchangeOK(u)'
    OBVIOUS
  <2>1. CASE u # t
    BY <1>1, <2>1, ExchangeUntouched DEF ClientInv
  <2>2. CASE u = t
    <3>1. ExchangeOK(t)
      BY DEF ClientInv
    <3>2. Truthful(e)
      BY <1>3 DEF Truthful, Parsed
    <3> QED
      BY <1>1, <1>3, <2>2, <3>1, <3>2
      DEF ExchangeOK, Asked, Truthful, HandlerResults, IsMethod
  <2> QED
    BY <2>1, <2>2
<1>6. Apart'
  BY <1>1 DEF ClientInv, Apart
<1> QED
  BY <1>2, <1>4, <1>5, <1>6 DEF ClientInv

\* try_from refuses with one of two codes.
LEMMA RefusalCodes ==
  ASSUME NEW q, ~try_from(Api, q).ok
  PROVE  try_from(Api, q).code \in {"InvalidParams", "MethodNotFound"}
BY DEF try_from, Ok, Err

\* What try_from accepts, it gives as a variant.
LEMMA AcceptedIsOk ==
  ASSUME NEW q, try_from(Api, q).ok
  PROVE  try_from(Api, q) = Ok(try_from(Api, q).variant)
BY DEF try_from, Ok, Err

\* Every step of a caller keeps the invariant.
LEMMA CallerStep ==
  ASSUME ClientInv, NEW c \in Caller,
         \/ \E v \in Calls, via \in {"http", "ws"} :
              CallMethod(c, v, via) \/ CallEnum(c, v, via)
         \/ \E q \in Raw, via \in {"http", "ws"} : CallRaw(c, q, via)
         \/ \E v \in Calls : Subscribe(c, v)
         \/ PollFails(c) \/ Cancel(c)
         \/ \E t \in Ticket : Send(c, t) \/ Receive(c, t)
  PROVE  ClientInv'
<1>1. ASSUME NEW v \in Calls, NEW via \in {"http", "ws"},
             CallMethod(c, v, via) \/ CallEnum(c, v, via)
      PROVE  ClientInv'
  <2>1. PICK face \in {"method", "enum"} :
          IsMethod(v) /\ Begin(c, face, via, into_request(Api, v), v)
    BY <1>1 DEF CallMethod, CallEnum
  <2>2. Made([face |-> face, via |-> via, request |-> into_request(Api, v),
              variant |-> v])
    BY <2>1 DEF Made
  <2> QED
    BY <2>1, <2>2, BeginStep
<1>2. ASSUME NEW q \in Raw, NEW via \in {"http", "ws"}, CallRaw(c, q, via)
      PROVE  ClientInv'
  <2>1. Made([face |-> "raw", via |-> via, request |-> q, variant |-> NoVariant])
    BY DEF Made
  <2> QED
    BY <1>2, <2>1, BeginStep DEF CallRaw
<1>3. ASSUME NEW v \in Calls, Subscribe(c, v)
      PROVE  ClientInv'
  <2>1. Made([face |-> "subscribe", via |-> "ws", request |-> into_request(Api, v),
              variant |-> v])
    BY <1>3 DEF Made, Subscribe
  <2> QED
    BY <1>3, <2>1, BeginStep DEF Subscribe
<1>4. CASE PollFails(c)
  BY <1>4, FinishStep DEF PollFails, Finish, ClientInv, Functions
<1>5. CASE Cancel(c)
  <2>1. Finish(c) /\ Functions'
    BY <1>5 DEF Cancel, Finish, ClientInv, Functions
  <2>2. \A t \in Ticket :
          /\ wire'[t] = wire[t] \/ wire'[t] = NoExchange
          /\ t # ticket[c] => wire'[t] = wire[t]
    BY <1>5 DEF Cancel
  <2> QED
    BY <2>1, <2>2, FinishStep
<1>6. ASSUME NEW t \in Ticket, Send(c, t) \/ Receive(c, t)
      PROVE  ClientInv'
  <2>1. CASE Send(c, t)
    BY <2>1, SendStep
  <2>2. CASE Receive(c, t)
    <3>1. t = ticket[c] /\ Finish(c)
      BY <2>2, OwnReply DEF Receive
    <3>2. Functions'
      BY <2>2 DEF Receive, Finish, ClientInv, Functions
    <3>3. \A u \in Ticket :
            /\ wire'[u] = wire[u] \/ wire'[u] = NoExchange
            /\ u # ticket[c] => wire'[u] = wire[u]
      BY <2>2, <3>1 DEF Receive, ClientInv, Functions
    <3> QED
      BY <3>1, <3>2, <3>3, FinishStep
  <2> QED
    BY <1>6, <2>1, <2>2
<1> QED
  BY <1>1, <1>2, <1>3, <1>4, <1>5, <1>6

\* What is thrown away, nobody waits for.
LEMMA NobodyWaits ==
  ASSUME ClientInv, NEW t \in Ticket, Discard(t)
  PROVE  \A c \in Caller : pc[c] = "waiting" => ticket[c] # t
<1> SUFFICES ASSUME NEW c \in Caller, pc[c] = "waiting", ticket[c] = t
             PROVE  FALSE
  OBVIOUS
<1>1. Carried(c) /\ Made(call[c]) /\ ExchangeOK(t) /\ wire[t].at = "answered"
  BY DEF ClientInv, CallerOK, Discard
<1>2. wire[t].reply.id = OnWire(c, t).id /\ wire[t].via = call[c].via
  BY <1>1 DEF ExchangeOK, Truthful, Carried
<1>3. Correlates(c, t)
  BY <1>1, <1>2 DEF Correlates
<1> QED
  BY <1>3 DEF Discard

\* So does every step of the other end, and the loss of a late reply.
LEMMA WireStep ==
  ASSUME ClientInv, NEW t \in Ticket, Serve(t) \/ Discard(t)
  PROVE  ClientInv'
<1>1. CASE Execute(t)
  BY <1>1, AnswerStep, AcceptedIsOk DEF Execute, ReplyKind, Parsed, HandlerResults
<1>2. CASE Refuse(t)
  BY <1>2, AnswerStep, RefusalCodes DEF Refuse, ReplyKind, Parsed
<1>3. CASE Accept(t)
  BY <1>3, AnswerStep, AcceptedIsOk DEF Accept, ReplyKind, Parsed, HandlerResults
<1>4. CASE Spoil(t)
  BY <1>4, AnswerStep DEF Spoil, ReplyKind
<1>5. CASE Discard(t)
  <2>1. /\ UNCHANGED <<pc, call, ticket>> /\ wire'[t] = NoExchange
        /\ \A u \in Ticket : u # t => wire'[u] = wire[u]
    BY <1>5 DEF Discard, ClientInv, Functions
  <2>2. Functions'
    BY <1>5 DEF Discard, ClientInv, Functions
  <2>3. \A c \in Caller : pc[c] = "waiting" => ticket[c] # t
    BY <1>5, NobodyWaits
  <2>4. \A c \in Caller : CallerOK(c)'
    <3> SUFFICES ASSUME NEW c \in Caller PROVE CallerOK(c)'
      OBVIOUS
    <3>1. CallerOK(c)
      BY DEF ClientInv
    <3>2. pc[c] = "waiting" =>
            wire'[ticket[c]] = wire[ticket[c]] /\ wire[ticket[c]].at # "free"
      BY <2>1, <2>3, <3>1 DEF CallerOK, Carried
    <3> QED
      BY <2>1, <3>1, <3>2, CallerUntouched
  <2>5. \A u \in Ticket : ExchangeOK(u)'
    <3> SUFFICES ASSUME NEW u \in Ticket PROVE ExchangeOK(u)'
      OBVIOUS
    <3>1. CASE u # t
      BY <2>1, <3>1, ExchangeUntouched DEF ClientInv
    <3>2. CASE u = t
      BY <2>1, <3>2 DEF ExchangeOK, NoExchange, Exchange
    <3> QED
      BY <3>1, <3>2
  <2>6. Apart'
    BY <2>1 DEF ClientInv, Apart
  <2> QED
    BY <2>2, <2>4, <2>5, <2>6 DEF ClientInv
<1> QED
  BY <1>1, <1>2, <1>3, <1>4, <1>5 DEF Serve

\* The invariant behind the theorems below.
THEOREM ClientInvariant == Spec => []ClientInv
<1>1. Init => ClientInv
  BY DEF Init, ClientInv, Functions, Apart, CallerOK, ExchangeOK, NoExchange, Exchange
<1>2. ClientInv /\ [Next]_vars => ClientInv'
  <2> SUFFICES ASSUME ClientInv, [Next]_vars PROVE ClientInv'
    OBVIOUS
  <2>1. CASE Next
    BY <2>1, CallerStep, WireStep DEF Next
  <2>2. CASE UNCHANGED vars
    <3>1. /\ \A c \in Caller : CallerOK(c) /\ (pc[c] = "waiting" => Carried(c))
          /\ \A t \in Ticket : ExchangeOK(t)
      BY DEF ClientInv, CallerOK
    <3>2. \A c \in Caller : CallerOK(c)'
      BY <2>2, <3>1, CallerUntouched DEF vars, Carried
    <3>3. \A t \in Ticket : ExchangeOK(t)'
      BY <2>2, <3>1, ExchangeUntouched DEF vars
    <3> QED
      BY <2>2, <3>2, <3>3 DEF vars, ClientInv, Functions, Apart
  <2> QED
    BY <2>1, <2>2
<1> QED
  BY <1>1, <1>2, PTL DEF Spec

-----------------------------------------------------------------------------
(* What callers can rely on *)

\* Callers and exchanges keep their types.
THEOREM ClientTypes == Spec => []ClientTypeOK
<1>1. ClientInv => ClientTypeOK
  BY DEF ClientInv, CallerOK, Made, Carried, ExchangeOK, Truthful, ClientTypeOK,
         NoCall
<1> QED
  BY <1>1, ClientInvariant, PTL

\* However many callers share a WsClient, whatever they abandon and in
\* whatever order replies come, each receives the reply to its own request.
THEOREM RepliesAreOwn == Spec => []OwnAnswer
<1>1. ClientInv => OwnAnswer
  BY OwnReply DEF OwnAnswer
<1> QED
  BY <1>1, ClientInvariant, PTL

\* ... and that reply is there for it: whatever the other callers do, a caller
\* that waits has its exchange, and the answer to it can only be taken by it.
THEOREM WaitersAreServed == Spec => []WaitersServed
<1>1. ClientInv => WaitersServed
  <2> SUFFICES ASSUME ClientInv, NEW c \in Caller, pc[c] = "waiting"
               PROVE  /\ wire[ticket[c]].at # "free"
                      /\ wire[ticket[c]].at = "answered" => Correlates(c, ticket[c])
    BY DEF WaitersServed
  <2>1. Carried(c)
    BY DEF ClientInv, CallerOK
  <2>2. wire[ticket[c]].at = "answered" =>
          wire[ticket[c]].reply.id = wire[ticket[c]].request.id
    BY <2>1 DEF ClientInv, ExchangeOK, Truthful, Carried
  <2> QED
    BY <2>1, <2>2 DEF Carried, Correlates
<1> QED
  BY <1>1, ClientInvariant, PTL

\* A caller with a request of its own gets the response under its own id.
THEOREM IdsRestored == Spec => []IdRestored
<1>1. ClientInv => IdRestored
  <2> SUFFICES ASSUME ClientInv, NEW c \in Caller, NEW t \in Ticket,
                      Correlates(c, t), ~Typed(c), Result(c, t).kind # "failed"
               PROVE  Result(c, t).id = call[c].request.id
    BY DEF IdRestored
  <2>1. /\ Made(call[c]) /\ Truthful(wire[t]) /\ call[c].face = "raw"
        /\ wire[t].request = OnWire(c, t)
    BY OwnReply DEF Typed
  <2>2. Result(c, t).id = RespondedId(call[c], wire[t].reply)
    BY <2>1 DEF Result, Read, Failed, raw_result, Got
  <2>3. CASE call[c].via = "http"
    BY <2>1, <2>2, <2>3 DEF RespondedId, Truthful, OnWire
  <2>4. CASE call[c].via = "ws"
    BY <2>1, <2>2, <2>4 DEF RespondedId
  <2> QED
    BY <2>1, <2>3, <2>4 DEF Made
<1> QED
  BY <1>1, ClientInvariant, PTL

-----------------------------------------------------------------------------
(* What the WebSocket client does to the parameters *)

\* The empty sequence is one.
LEMMA EmptyIsSequence == IsSequence(<<>>) /\ Len(<<>>) = 0
BY DEF IsSequence

\* A request that is served although WsClient has put its parameters in an
\* array is the same call as the original.
LEMMA ServedThroughWs ==
  ASSUME NEW q, NEW r, IsApi(Api), r.method = q.method,
         r.params = ws_params(q.params), try_from(Api, r).ok
  PROVE  try_from(Api, q) = try_from(Api, r)
<1> DEFINE arm == FirstArm(Api, r.method)
           item == Items(Api)[arm]
<1>1. CASE q.params.form = "array"
  BY <1>1 DEF try_from, ws_params
<1>2. CASE q.params.form # "array"
  <2>1. r.params = ArrayParams(<<>>)
    BY <1>2 DEF ws_params
  <2>2. Arms(Api, r.method) # {} /\ Accepts(item, r.params)
    BY DEF try_from, Err
  <2>3. arm \in DOMAIN Items(Api)
    BY <2>2, FirstArmFits DEF Arms
  <2>4. IsSequence(item.params)
    BY <2>3 DEF IsApi
  <2>5. item.params = <<>>
    <3>1. CASE item.kind # "map" /\ Len(item.params) = Len(<<>>)
      BY <2>4, <3>1, SameSequence, EmptyIsSequence
    <3> QED
      BY <2>1, <2>2, <3>1 DEF Accepts, ArrayParams
  <2> QED
    BY <2>5 DEF try_from, Accepts, Extracted
<1> QED
  BY <1>1, <1>2

\* A typed call that loses nothing on the way parses to itself.
LEMMA TypedParses ==
  ASSUME NEW c, NEW t, Made(call[c]), Typed(c), ~Loses(c), Unambiguous(Api)
  PROVE  try_from(Api, OnWire(c, t)) = Ok(call[c].variant)
<1> DEFINE k == call[c]
           q == k.request
           r == OnWire(c, t)
<1>1. /\ k.variant \in Calls /\ q = into_request(Api, k.variant)
      /\ k.via \in {"http", "ws"} /\ k.face \in {"method", "enum", "subscribe"}
  BY DEF Made, Typed
<1>2. IsApi(Api) /\ WellTyped(Api, k.variant)
  BY <1>1, ClientAssumption DEF ClientAssumption
<1>3. try_from(Api, q) = Ok(k.variant)
  BY <1>1, <1>2, ParseAfterBuild
<1>4. q.method = r.method
  BY <1>1 DEF OnWire, into_request
<1>5. CASE r.params = q.params
  BY <1>3, <1>4, <1>5 DEF try_from
<1>6. CASE r.params # q.params
  <2>1. k.via = "ws" /\ k.face # "subscribe" /\ r.params = ws_params(q.params)
    BY <1>1, <1>6 DEF OnWire, into_request
  <2>2. r.params = ArrayParams(<<>>) /\ q.params.form # "array"
    BY <1>6, <2>1 DEF ws_params
  <2>3. Items(Api)[k.variant.item].params = <<>> /\ q.params = NoParams
    BY <1>1, <2>1, <2>2
    DEF Loses, into_request, params_value, NoParams, MapParams, ArrayParams
  <2> DEFINE arm == FirstArm(Api, q.method)
  <2>4. Arms(Api, q.method) # {} /\ arm = k.variant.item
    BY <1>3 DEF try_from, Ok, Err, Variant
  <2>5. Accepts(Items(Api)[arm], r.params)
        /\ Extracted(Items(Api)[arm], r.params) = Extracted(Items(Api)[arm], q.params)
    BY <2>3, <2>4 DEF Accepts, Extracted
  <2>6. Accepts(Items(Api)[arm], q.params)
    BY <2>3, <2>4 DEF Accepts
  <2>7. try_from(Api, r) = try_from(Api, q)
    BY <1>4, <2>4, <2>5, <2>6 DEF try_from
  <2> QED
    BY <1>3, <2>7
<1> QED
  BY <1>5, <1>6

\* What the server has carried out is the call the caller made.
LEMMA CarriedOutIsOwn ==
  ASSUME ClientInv, NEW c \in Caller, NEW t \in Ticket, Correlates(c, t),
         wire[t].reply.kind = "value"
  PROVE  /\ try_from(Api, call[c].request) = Ok(wire[t].reply.variant)
         /\ Typed(c) /\ Unambiguous(Api) => wire[t].reply.variant = call[c].variant
<1>1. /\ Made(call[c]) /\ Truthful(wire[t])
      /\ wire[t].request = OnWire(c, t)
  BY OwnReply
<1>2. IsApi(Api)
  BY ClientAssumption DEF ClientAssumption
<1>3. try_from(Api, OnWire(c, t)) = Ok(wire[t].reply.variant)
  BY <1>1 DEF Truthful
<1>4. OnWire(c, t).method = call[c].request.method
      /\ \/ OnWire(c, t).params = call[c].request.params
         \/ OnWire(c, t).params = ws_params(call[c].request.params)
  BY <1>1, RequestFields DEF OnWire
<1>5. try_from(Api, call[c].request) = Ok(wire[t].reply.variant)
  <2>1. CASE OnWire(c, t).params = call[c].request.params
    BY <1>3, <1>4, <2>1 DEF try_from
  <2>2. CASE OnWire(c, t).params = ws_params(call[c].request.params)
    <3>1. try_from(Api, OnWire(c, t)).ok
      BY <1>3 DEF Ok
    <3> QED
      BY <1>2, <1>3, <1>4, <2>2, <3>1, ServedThroughWs
  <2> QED
    BY <1>4, <2>1, <2>2
<1>6. ASSUME Typed(c), Unambiguous(Api)
      PROVE  wire[t].reply.variant = call[c].variant
  <2>1. call[c].variant \in Calls
        /\ call[c].request = into_request(Api, call[c].variant)
    BY <1>1, <1>6 DEF Made, Typed
  <2>2. Ok(call[c].variant) = Ok(wire[t].reply.variant)
    BY <1>2, <1>5, <1>6, <2>1, ClientAssumption, ParseAfterBuild
    DEF ClientAssumption
  <2> QED
    BY <2>2 DEF Ok
<1> QED
  BY <1>5, <1>6

\* A success is a result the server sent, whichever client reads it.
LEMMA OkIsValue ==
  ASSUME ClientInv, NEW c \in Caller, NEW t \in Ticket, Succeeds(c, t)
  PROVE  wire[t].reply.kind = "value" /\ wire[t].reply.value = Result(c, t).value
<1>1. Result(c, t).kind = "ok" /\ Made(call[c])
  BY OwnReply DEF Succeeds
<1>2. /\ call[c].face \in {"method", "enum", "raw", "subscribe"}
      /\ call[c].face = "subscribe" => call[c].via = "ws"
  BY <1>1 DEF Made
<1> QED
  BY <1>1, <1>2 DEF Result, Read, Failed, method_result, enum_result, raw_result,
                    Got, WsReads

\* For every trait without collisions: a success was executed, as called.
THEOREM SuccessesServed ==
  ASSUME Unambiguous(Api)
  PROVE  Spec => []OkIsServed
<1>1. ClientInv => OkIsServed
  <2> SUFFICES ASSUME ClientInv, NEW c \in Caller, NEW t \in Ticket, Succeeds(c, t)
               PROVE  /\ wire[t].reply.kind = "value"
                      /\ wire[t].reply.value = Result(c, t).value
                      /\ Ok(wire[t].reply.variant) = try_from(Api, call[c].request)
                      /\ Typed(c) => wire[t].reply.variant = call[c].variant
    BY DEF OkIsServed
  <2>1. wire[t].reply.kind = "value" /\ wire[t].reply.value = Result(c, t).value
    BY OkIsValue
  <2> QED
    BY <2>1, CarriedOutIsOwn DEF Succeeds
<1> QED
  BY <1>1, ClientInvariant, PTL

\* For every trait without collisions: no typed call is refused as malformed,
\* unless WsClient had to carry an object.
THEOREM TypedCallsServed ==
  ASSUME Unambiguous(Api)
  PROVE  Spec => []TypedCallServed
<1>1. ClientInv => TypedCallServed
  <2> SUFFICES ASSUME ClientInv, NEW c \in Caller, NEW t \in Ticket,
                      Typed(c), ~Loses(c), Malformed(c, t)
               PROVE  FALSE
    BY DEF TypedCallServed
  <2>1. /\ Made(call[c]) /\ Truthful(wire[t])
        /\ wire[t].request = OnWire(c, t)
    BY OwnReply DEF Malformed
  <2>2. ~try_from(Api, OnWire(c, t)).ok
    BY <2>1 DEF Malformed, Truthful
  <2> QED
    BY <2>1, <2>2, TypedParses DEF Ok
<1> QED
  BY <1>1, ClientInvariant, PTL

\* A typed call that is carried out returns a value of its method's type.
LEMMA ValueDecodes ==
  ASSUME ClientInv, NEW c \in Caller, NEW t \in Ticket, CarriedOut(c, t),
         Unambiguous(Api), Decodable(call[c].variant), IsMethod(call[c].variant)
  PROVE  call[c].variant.item \in Fitting(wire[t].reply.value)
<1>1. /\ wire[t].reply.kind = "value" /\ wire[t].reply.variant = call[c].variant
  BY CarriedOutIsOwn DEF CarriedOut
<1>2. Truthful(wire[t]) /\ Made(call[c])
  BY OwnReply DEF CarriedOut
<1>3. wire[t].reply.value \in Items(Api)[call[c].variant.item].ret.ok
  BY <1>1, <1>2 DEF Truthful, HandlerResults
<1>4. call[c].variant.item \in DOMAIN Items(Api)
  BY <1>2, ClientAssumption DEF Made, CarriedOut, Typed, ClientAssumption, WellTyped
<1> QED
  BY <1>3, <1>4 DEF Decodable, ok_type, Fitting, IsMethod

\* For every trait without collisions: what the server carries out reaches
\* the caller as a success, if the declared type can hold it.
THEOREM SuccessesReach ==
  ASSUME Unambiguous(Api)
  PROVE  Spec => []SuccessReaches
<1>1. ClientInv => SuccessReaches
  <2> SUFFICES ASSUME ClientInv, NEW c \in Caller, NEW t \in Ticket,
                      CarriedOut(c, t), Decodable(call[c].variant)
               PROVE  Succeeds(c, t)
    BY DEF SuccessReaches
  <2>1. /\ Made(call[c]) /\ Typed(c) /\ Correlates(c, t)
        /\ wire[t].reply.kind = "value"
    BY OwnReply DEF CarriedOut
  <2>2. CASE call[c].face = "subscribe"
    BY <2>1, <2>2 DEF Succeeds, Result, Read, Got, WsReads, Made
  <2>3. CASE call[c].face \in {"method", "enum"}
    <3>1. call[c].variant.item \in Fitting(wire[t].reply.value)
      BY <2>1, <2>3, ValueDecodes DEF Made
    <3>2. wire[t].reply.value \in ok_type(call[c].variant.item)
      BY <3>1 DEF Fitting
    <3>3. HttpReads(wire[t].reply) /\ WsReads(wire[t].reply)
      BY <2>1 DEF HttpReads, WsReads
    <3> QED
      BY <2>1, <2>3, <3>1, <3>2, <3>3
      DEF Succeeds, Result, Read, Got, method_result, enum_result
  <2> QED
    BY <2>1, <2>2, <2>3 DEF Made, Typed
<1> QED
  BY <1>1, ClientInvariant, PTL

\* For every trait without collisions: the response enum names the method
\* that was called, unless an earlier method's type takes the result too.
THEOREM VariantsSound ==
  ASSUME Unambiguous(Api)
  PROVE  Spec => []VariantSound
<1>1. ClientInv => VariantSound
  <2> SUFFICES ASSUME ClientInv, NEW c \in Caller, NEW t \in Ticket,
                      Succeeds(c, t), call[c].face = "enum",
                      Decodable(call[c].variant)
               PROVE  LET own == call[c].variant.item
                          got == Result(c, t)
                      IN /\ got.as <= own
                         /\ got.as = own
                            \/ \E i \in 1..(own - 1) : got.value \in ok_type(i)
    BY DEF VariantSound
  <2> DEFINE own == call[c].variant.item
             reply == wire[t].reply
             fit == Fitting(reply.value)
  <2>1. Made(call[c]) /\ Correlates(c, t)
    BY OwnReply DEF Succeeds
  <2>2. reply.kind = "value" /\ fit # {}
        /\ Result(c, t).as = (CHOOSE i \in fit : \A j \in fit : i <= j)
        /\ Result(c, t).value = reply.value
    BY <2>1 DEF Succeeds, Result, Read, Failed, enum_result, Got
  <2>3. own \in fit
    BY <2>1, <2>2, ValueDecodes DEF CarriedOut, Typed, Made
  <2>4. fit \subseteq Nat /\ \A i \in fit : i >= 1
    BY ClientAssumption, SequenceFacts DEF Fitting, ClientAssumption, IsApi
  <2>5. PICK m \in fit : \A j \in fit : m <= j
    BY <2>2, <2>4, LeastNumber
  <2>6. Result(c, t).as \in fit /\ \A j \in fit : Result(c, t).as <= j
    BY <2>2, <2>5
  <2>7. reply.value \in ok_type(Result(c, t).as)
    BY <2>6 DEF Fitting
  <2> QED
    BY <2>2, <2>3, <2>4, <2>6, <2>7
<1> QED
  BY <1>1, ClientInvariant, PTL

-----------------------------------------------------------------------------
(* Every step is a step of one caller alone with its server, or none *)

\* What a caller with this request can be told.
Settles(o, q) ==
  \/ o = <<Alone!Unsuccessful>>
  \/ \E s \in successes[q] : o = <<Alone!Successful(s)>>

OutcomesOwn ==
  \A c \in Caller :
    pc[c] = "waiting" /\ wire[ticket[c]].at = "answered" =>
      Settles(OutcomeFor(c), call[c].request)

\* Requests under way are among those that can be asked.
LEMMA MadeIsAsked ==
  ASSUME NEW k, Made(k)
  PROVE  k.request \in Requests
BY DEF Made, Requests

\* What a caller is told was executed is what its own request asks for.
LEMMA OutcomesAreOwn == ClientInv => OutcomesOwn
<1> SUFFICES ASSUME ClientInv, NEW c \in Caller, pc[c] = "waiting",
                    wire[ticket[c]].at = "answered"
             PROVE  Settles(OutcomeFor(c), call[c].request)
  BY DEF OutcomesOwn
<1> DEFINE t == ticket[c]
           q == call[c].request
<1>1. /\ Made(call[c]) /\ t \in Ticket /\ wire[t].via = call[c].via
      /\ ExchangeOK(t) /\ wire[t].request = OnWire(c, t)
  BY DEF ClientInv, CallerOK, Carried
<1>2. Correlates(c, t)
  BY <1>1 DEF Correlates, ExchangeOK, Truthful
<1>3. CASE Result(c, t).kind # "ok"
  BY <1>3 DEF OutcomeFor, Settles, Alone!Unsuccessful
<1>4. CASE Result(c, t).kind = "ok"
  <2> DEFINE s == Execution(wire[t].reply.variant, Result(c, t).value)
  <2>1. Succeeds(c, t)
    BY <1>2, <1>4 DEF Succeeds
  <2>2. wire[t].reply.kind = "value" /\ wire[t].reply.value = Result(c, t).value
    BY <1>1, <2>1, OkIsValue
  <2>3. try_from(Api, q) = Ok(wire[t].reply.variant)
    BY <1>1, <1>2, <2>2, CarriedOutIsOwn
  <2>4. Result(c, t).value \in HandlerResults(wire[t].reply.variant)
    BY <1>1, <2>2 DEF ExchangeOK, Truthful
  <2>5. q \in Requests
    BY <1>1, MadeIsAsked
  <2>6. try_from(Api, q).ok /\ try_from(Api, q).variant = wire[t].reply.variant
    BY <2>3 DEF Ok
  <2>7. s \in successes[q]
    BY <2>4, <2>5, <2>6 DEF successes
  <2>8. OutcomeFor(c) = <<Alone!Successful(s)>>
    BY <1>4 DEF OutcomeFor, Alone!Successful
  <2> QED
    BY <2>7, <2>8 DEF Settles
<1> QED
  BY <1>3, <1>4

\* What a caller is told depends on its call and its exchange only.
LEMMA OutcomeUntouched ==
  ASSUME NEW c \in Caller,
         pc'[c] = pc[c], call'[c] = call[c], ticket'[c] = ticket[c],
         pc[c] = "waiting" => wire'[ticket[c]] = wire[ticket[c]]
  PROVE  OutcomeFor(c)' = OutcomeFor(c)
BY DEF OutcomeFor, Result

\* A caller that asks is no idle one.
LEMMA OneElement ==
  ASSUME NEW e PROVE <<e>> # <<>> /\ <<e>>[1] = e
<1>1. Len(<<e>>) = 1 /\ Len(<<>>) = 0
  OBVIOUS
<1> QED
  BY <1>1

AloneStep == [Alone!Next]_(Alone!vars)

\* Steps no caller can see.
LEMMA AloneStutter ==
  ASSUME call' = call, \A c \in Caller : pc'[c] = "idle" <=> pc[c] = "idle",
         \A c \in Caller : OutcomeFor(c)' = OutcomeFor(c)
  PROVE  AloneStep
<1>1. asked' = asked /\ outcome' = outcome
  BY DEF asked, outcome
<1> QED
  BY <1>1 DEF AloneStep, Alone!vars

\* A caller asks.
LEMMA AloneAsk ==
  ASSUME ClientInv, NEW c \in Caller, NEW face, NEW via, NEW q \in Requests, NEW v,
         Begin(c, face, via, q, v)
  PROVE  AloneStep
<1>1. /\ pc[c] = "idle" /\ pc'[c] = "polling" /\ call'[c].request = q
      /\ \A d \in Caller : d # c =>
           pc'[d] = pc[d] /\ call'[d] = call[d] /\ ticket'[d] = ticket[d]
      /\ wire' = wire
  BY DEF Begin, ClientInv, Functions
<1>2. asked[c] = <<>> /\ asked' = [asked EXCEPT ![c] = <<q>>]
  BY <1>1 DEF asked
<1>3. \A d \in Caller : OutcomeFor(d)' = OutcomeFor(d)
  <2>1. OutcomeFor(c)' = OutcomeFor(c)
    BY <1>1 DEF OutcomeFor
  <2> QED
    BY <1>1, <2>1, OutcomeUntouched
<1>4. outcome' = outcome
  BY <1>3 DEF outcome
<1>5. Alone!Ask(c)
  BY <1>2, <1>4 DEF Alone!Ask
<1> QED
  BY <1>5 DEF AloneStep, Alone!Next

\* A call ends, whatever becomes of its exchange.
LEMMA AloneEnd ==
  ASSUME ClientInv, NEW c \in Caller, pc[c] # "idle", Finish(c),
         \A t \in Ticket : t # ticket[c] => wire'[t] = wire[t]
  PROVE  AloneStep
<1>1. /\ pc'[c] = "idle"
      /\ \A d \in Caller : d # c =>
           pc'[d] = pc[d] /\ call'[d] = call[d] /\ ticket'[d] = ticket[d]
  BY DEF Finish, ClientInv, Functions
<1>2. asked[c] # <<>> /\ asked' = [asked EXCEPT ![c] = <<>>]
  <2>1. asked[c] = <<call[c].request>>
    BY DEF asked
  <2> QED
    BY <1>1, <2>1, OneElement DEF asked
<1>3. \A d \in Caller : d # c => OutcomeFor(d)' = OutcomeFor(d)
  <2> SUFFICES ASSUME NEW d \in Caller, d # c
               PROVE  OutcomeFor(d)' = OutcomeFor(d)
    OBVIOUS
  <2>1. CallerOK(c) /\ CallerOK(d) /\ None \notin Ticket
    BY ClientAssumption DEF ClientInv, ClientAssumption
  <2>2. pc[d] = "waiting" => ticket[d] \in Ticket /\ ticket[d] # ticket[c]
    BY <2>1 DEF ClientInv, CallerOK, Carried, Apart
  <2> QED
    BY <1>1, <2>2, OutcomeUntouched
<1>4. OutcomeFor(c)' = <<>>
  BY <1>1 DEF OutcomeFor
<1>5. outcome' = [outcome EXCEPT ![c] = <<>>]
  BY <1>3, <1>4 DEF outcome
<1>6. Alone!End(c)
  BY <1>2, <1>5 DEF Alone!End
<1> QED
  BY <1>6 DEF AloneStep, Alone!Next

\* The other end answers: that settles the one call that waits for it, if any.
LEMMA AloneSettle ==
  ASSUME ClientInv, OutcomesOwn', NEW t \in Ticket, Asked(t),
         UNCHANGED <<pc, call, ticket>>, wire'[t].at = "answered",
         \A u \in Ticket : u # t => wire'[u] = wire[u]
  PROVE  AloneStep
<1>1. \A c \in Caller : ~(pc[c] = "waiting" /\ ticket[c] = t) =>
        OutcomeFor(c)' = OutcomeFor(c)
  <2> SUFFICES ASSUME NEW c \in Caller, ~(pc[c] = "waiting" /\ ticket[c] = t)
               PROVE  OutcomeFor(c)' = OutcomeFor(c)
    OBVIOUS
  <2>1. pc[c] = "waiting" => ticket[c] \in Ticket
    BY DEF ClientInv, CallerOK, Carried
  <2> QED
    BY <2>1, OutcomeUntouched
<1>2. CASE \A c \in Caller : ~(pc[c] = "waiting" /\ ticket[c] = t)
  BY <1>1, <1>2, AloneStutter
<1>3. ASSUME NEW c \in Caller, pc[c] = "waiting", ticket[c] = t
      PROVE  AloneStep
  <2> DEFINE o == OutcomeFor(c)'
  <2>1. asked[c] = <<call[c].request>> /\ asked' = asked
    BY <1>3 DEF asked
  <2>2. asked[c] # <<>> /\ asked[c][1] = call[c].request
    BY <2>1, OneElement
  <2>3. OutcomeFor(c) = <<>>
    BY <1>3 DEF OutcomeFor, Asked
  <2>4. \A d \in Caller : d # c => OutcomeFor(d)' = OutcomeFor(d)
    BY <1>1, <1>3 DEF ClientInv, Apart
  <2>5. outcome[c] = <<>> /\ outcome' = [outcome EXCEPT ![c] = o]
    BY <2>3, <2>4 DEF outcome
  <2>6. Settles(o, call[c].request)
    BY <1>3 DEF OutcomesOwn, Settles, successes
  <2> HIDE DEF o
  <2>7. CASE o = <<Alone!Unsuccessful>>
    <3>1. Alone!Fail(c)
      BY <2>1, <2>2, <2>5, <2>7 DEF Alone!Fail, Alone!Settle
    <3> QED
      BY <3>1 DEF AloneStep, Alone!Next
  <2>8. ASSUME NEW s \in successes[call[c].request], o = <<Alone!Successful(s)>>
        PROVE  AloneStep
    <3>1. Alone!Settle(c, Alone!Successful(s))
      BY <2>1, <2>2, <2>5, <2>8 DEF Alone!Settle
    <3>2. Alone!Succeed(c)
      BY <2>2, <3>1 DEF Alone!Succeed
    <3> QED
      BY <3>2 DEF AloneStep, Alone!Next
  <2> QED
    BY <2>6, <2>7, <2>8 DEF Settles
<1> QED
  BY <1>2, <1>3

LEMMA AloneCaller ==
  ASSUME ClientInv, NEW c \in Caller,
         \/ \E v \in Calls, via \in {"http", "ws"} :
              CallMethod(c, v, via) \/ CallEnum(c, v, via)
         \/ \E q \in Raw, via \in {"http", "ws"} : CallRaw(c, q, via)
         \/ \E v \in Calls : Subscribe(c, v)
         \/ PollFails(c) \/ Cancel(c)
         \/ \E t \in Ticket : Send(c, t) \/ Receive(c, t)
  PROVE  AloneStep
<1>1. ASSUME NEW v \in Calls, NEW via \in {"http", "ws"},
             CallMethod(c, v, via) \/ CallEnum(c, v, via) \/ Subscribe(c, v)
      PROVE  AloneStep
  <2>1. into_request(Api, v) \in Requests
    BY DEF Requests
  <2> QED
    BY <1>1, <2>1, AloneAsk DEF CallMethod, CallEnum, Subscribe
<1>2. ASSUME NEW q \in Raw, NEW via \in {"http", "ws"}, CallRaw(c, q, via)
      PROVE  AloneStep
  BY <1>2, AloneAsk DEF CallRaw, Requests
<1>3. CASE PollFails(c)
  BY <1>3, AloneEnd DEF PollFails
<1>4. CASE Cancel(c)
  BY <1>4, AloneEnd DEF Cancel
<1>5. ASSUME NEW t \in Ticket, Send(c, t)
      PROVE  AloneStep
  <2>1. /\ pc[c] = "polling" /\ pc'[c] = "waiting" /\ ticket'[c] = t
        /\ call' = call /\ wire'[t].at = "asked" /\ wire[t].at = "free"
        /\ \A d \in Caller : d # c => pc'[d] = pc[d] /\ ticket'[d] = ticket[d]
        /\ \A u \in Ticket : u # t => wire'[u] = wire[u]
    BY <1>5 DEF Send, Exchange, ClientInv, Functions
  <2>2. OutcomeFor(c)' = OutcomeFor(c)
    BY <2>1 DEF OutcomeFor
  <2>3. ASSUME NEW d \in Caller, d # c
        PROVE  OutcomeFor(d)' = OutcomeFor(d)
    <3>1. pc[d] = "waiting" => ticket[d] \in Ticket /\ ticket[d] # t
      BY <2>1 DEF ClientInv, CallerOK, Carried
    <3> QED
      BY <2>1, <2>3, <3>1, OutcomeUntouched
  <2>4. \A d \in Caller : pc'[d] = "idle" <=> pc[d] = "idle"
    BY <2>1
  <2>5. \A d \in Caller : OutcomeFor(d)' = OutcomeFor(d)
    BY <2>2, <2>3
  <2> QED
    BY <2>1, <2>4, <2>5, AloneStutter
<1>6. ASSUME NEW t \in Ticket, Receive(c, t)
      PROVE  AloneStep
  <2>1. t = ticket[c] /\ Finish(c) /\ pc[c] # "idle"
    BY <1>6, OwnReply DEF Receive, Correlates
  <2>2. \A u \in Ticket : u # ticket[c] => wire'[u] = wire[u]
    BY <1>6, <2>1 DEF Receive, ClientInv, Functions
  <2> QED
    BY <2>1, <2>2, AloneEnd
<1> QED
  BY <1>1, <1>2, <1>3, <1>4, <1>5, <1>6

LEMMA AloneWire ==
  ASSUME ClientInv, OutcomesOwn', NEW t \in Ticket, Serve(t) \/ Discard(t)
  PROVE  AloneStep
<1>1. CASE Serve(t)
  <2>1. Asked(t) /\ \E kind, v, value : Answer(t, kind, v, value)
    BY <1>1 DEF Serve, Execute, Refuse, Accept, Spoil
  <2>2. /\ UNCHANGED <<pc, call, ticket>> /\ wire'[t].at = "answered"
        /\ \A u \in Ticket : u # t => wire'[u] = wire[u]
    BY <2>1 DEF Answer, Exchange, ClientInv, Functions
  <2> QED
    BY <2>1, <2>2, AloneSettle
<1>2. CASE Discard(t)
  <2>1. /\ UNCHANGED <<pc, call, ticket>>
        /\ \A u \in Ticket : u # t => wire'[u] = wire[u]
    BY <1>2 DEF Discard, ClientInv, Functions
  <2>2. ASSUME NEW c \in Caller
        PROVE  OutcomeFor(c)' = OutcomeFor(c)
    <3>1. pc[c] = "waiting" => ticket[c] \in Ticket /\ ticket[c] # t
      BY <1>2, NobodyWaits DEF ClientInv, CallerOK, Carried
    <3> QED
      BY <2>1, <3>1, OutcomeUntouched
  <2> QED
    BY <2>1, <2>2, AloneStutter
<1> QED
  BY <1>1, <1>2

LEMMA AloneNext ==
  ASSUME ClientInv, OutcomesOwn', [Next]_vars
  PROVE  AloneStep
<1>1. CASE Next
  BY <1>1, AloneCaller, AloneWire DEF Next
<1>2. CASE UNCHANGED vars
  <2>1. \A c \in Caller : OutcomeFor(c)' = OutcomeFor(c)
    BY <1>2, OutcomeUntouched DEF vars
  <2> QED
    BY <1>2, <2>1, AloneStutter DEF vars
<1> QED
  BY <1>1, <1>2

LEMMA AloneInit == Init => Alone!Init
BY DEF Init, Alone!Init, asked, outcome, OutcomeFor

\* Whatever the trait, however many callers share a WsClient and whatever they
\* abandon: each is served as by a server of its own, by one execution of its
\* own request or by none, and what it is told is settled once.
THEOREM CallersServedAlone == Spec => CallersAreAlone
<1>1. ClientInv => OutcomesOwn
  BY OutcomesAreOwn
<1>2. ClientInv /\ OutcomesOwn' /\ [Next]_vars => [Alone!Next]_(Alone!vars)
  BY AloneNext DEF AloneStep
<1>3. Init => Alone!Init
  BY AloneInit
<1>4. Spec => Alone!Init /\ [][Alone!Next]_(Alone!vars)
  BY <1>1, <1>2, <1>3, ClientInvariant, PTL DEF Spec
<1> QED
  BY <1>4 DEF CallersAreAlone, Alone!Spec
=============================================================================
