----------------------------- MODULE TowerStack -----------------------------
(***************************************************************************)
(* A stack of Tower services built with the crate's layers, and the        *)
(* requests that travel through it concurrently.                           *)
(*                                                                         *)
(* Layers are numbered from the outside, Depth+1 is the innermost service. *)
(* A layer is                                                              *)
(*   "bridge"  JsonRpcServer (server.rs) or JsonRpcClient (client.rs):     *)
(*             the two have the same poll_ready and the same call;         *)
(*   "api"     the service a <Trait>ServerLayer makes (render_server.rs);  *)
(*   "limit"   a standard Tower layer that reserves capacity in poll_ready *)
(*             and spends it in call, on the same handle (external; the    *)
(*             layer modelled is tower's ConcurrencyLimit).                *)
(*                                                                         *)
(* A handle is one clone of the outermost service and everything it owns.  *)
(* Its owner polls it until every layer is ready and then calls it. A      *)
(* library layer's call does not use the inner service it has polled: it   *)
(* clones it, and calls the clone later, from the future it returns.       *)
(***************************************************************************)
EXTENDS RpcApi, FiniteSets

CONSTANTS
  Handle,     \* handles of the outermost service
  Kept,       \* those whose owner keeps them open after a request
  Req,        \* requests that may be in the stack together
  Incoming,   \* what arrives: [readable, method, params, id]
  Id,         \* ids that may occur in a response
  Kind,       \* the kind of each layer, outermost first
  Cap,        \* permits of each limit layer
  Api,        \* the api of each api layer
  None        \* no request

Depth == Len(Kind)
Layer == 1..Depth
Inner == Depth + 1
Limit == {l \in Layer : Kind[l] = "limit"}
Cloning == {l \in Layer : Kind[l] \in {"bridge", "api"}}

ASSUME StackAssumption ==
  /\ Kind \in Seq({"limit", "bridge", "api"}) /\ Cloning # {}
  /\ Cap \in [Limit -> Nat]
  /\ IsFiniteSet(Handle) /\ Kept \subseteq Handle
  /\ IsFiniteSet(Req) /\ None \notin Req
  /\ \A q \in Incoming : q.readable \in BOOLEAN /\ q.id \in Id

\* The layer that converts from the transport's request: for every layer
\* under it the conversion is the identity on jsonrpsee's Request.
Outermost(l) == l \in Cloning /\ \A m \in Cloning : l <= m

\* The method is among the names the layer's match takes for itself.
Declares(l, method) ==
  /\ Kind[l] = "api"
  /\ method \in all_method_names(Api[l])

VARIABLES
  serving,    \* the request a handle is being polled or called for
  polled,     \* the layer the handle's poll_ready has come to
  permit,     \* the limit layers in which the handle holds a permit
  free,       \* permits left in each limit layer's semaphore
  pc, pos,    \* what a request is at, and in which layer
  flight,     \* limit layers whose permit is in the request's future
  req,        \* the request as it arrived
  ran,        \* the layers that began to execute it
  answer      \* the response, or why there is none

handleVars == <<serving, polled, permit>>
vars == <<handleVars, free, pc, pos, flight, req, ran, answer>>

Phase == {"idle", "waiting", "calling", "converting", "forwarding",
          "handling", "inner", "responding"}

\* The phases in which the request's future exists and is suspended.
Suspended == {"converting", "handling", "inner", "responding"}

Reply(kind, id, by) == [kind |-> kind, id |-> id, by |-> by]
NoReply(why) == [kind |-> why]

ReplyKind == {"success", "error", "InvalidParams", "MethodNotFound",
              "NotImplemented"}
Replies == [kind : ReplyKind, id : Id, by : 1..Inner]
NoReplies == {NoReply(w) : w \in {"pending", "failed", "unready", "panicked",
                                  "cancelled"}}

TypeOK ==
  /\ serving \in [Handle -> Req \cup {None}]
  /\ polled \in [Handle -> 1..Inner]
  /\ permit \in [Handle -> SUBSET Limit]
  /\ free \in [Limit -> Nat]
  /\ pc \in [Req -> Phase]
  /\ pos \in [Req -> 1..Inner]
  /\ flight \in [Req -> SUBSET Limit]
  /\ req \in [Req -> Incoming]
  /\ ran \in [Req -> Seq(1..Inner)]
  /\ answer \in [Req -> Replies \cup NoReplies]

Init ==
  /\ serving = [h \in Handle |-> None]
  /\ polled = [h \in Handle |-> 1]
  /\ permit = [h \in Handle |-> {}]
  /\ free = Cap
  /\ pc = [r \in Req |-> "idle"]
  /\ pos = [r \in Req |-> 1]
  /\ flight = [r \in Req |-> {}]
  /\ req \in [Req -> Incoming]
  /\ ran = [r \in Req |-> <<>>]
  /\ answer = [r \in Req |-> NoReply("pending")]

-----------------------------------------------------------------------------
(* The owner of a handle: readiness first, then the call *)

\* Mutant of Submit: rpc_call calls its clone without polling it.
SubmitUnpolled(h, r, q) ==
  /\ serving[h] = None /\ pc[r] = "idle"
  /\ h \in Kept \/ permit[h] = {}
  /\ serving' = [serving EXCEPT ![h] = r]
  /\ pc' = [pc EXCEPT ![r] = "calling"]
  /\ req' = [req EXCEPT ![r] = q]
  /\ ran' = [ran EXCEPT ![r] = <<>>]
  /\ answer' = [answer EXCEPT ![r] = NoReply("pending")]
  /\ UNCHANGED <<polled, permit, free, pos, flight>>

\* A transport takes up a request, or rpc_call clones the service for one: a
\* handle that is not kept is a fresh clone, and holds nothing.
Submit(h, r, q) ==
  /\ serving[h] = None /\ pc[r] = "idle"
  /\ h \in Kept \/ permit[h] = {}
  /\ serving' = [serving EXCEPT ![h] = r]
  /\ pc' = [pc EXCEPT ![r] = "waiting"]
  /\ req' = [req EXCEPT ![r] = q]
  /\ ran' = [ran EXCEPT ![r] = <<>>]
  /\ answer' = [answer EXCEPT ![r] = NoReply("pending")]
  /\ UNCHANGED <<polled, permit, free, pos, flight>>

Polling(h) == serving[h] # None /\ pc[serving[h]] = "waiting"

\* Mutant of PollLayer: polls past its inner service.
PollLayerSkips(h) ==
  /\ Polling(h) /\ polled[h] \in Cloning
  /\ polled' = [polled EXCEPT ![h] = @ + 2]
  /\ UNCHANGED <<serving, permit, free, pc, pos, flight, req, ran, answer>>

\* A library layer's poll_ready is its inner service's.
PollLayer(h) ==
  /\ Polling(h) /\ polled[h] \in Cloning
  /\ polled' = [polled EXCEPT ![h] = @ + 1]
  /\ UNCHANGED <<serving, permit, free, pc, pos, flight, req, ran, answer>>

\* A limit layer takes a permit, unless the handle still has one, and then
\* polls the layer inside it.
PollLimit(h) ==
  LET l == polled[h] IN
  /\ Polling(h) /\ l \in Limit
  /\ \/ /\ l \in permit[h]
        /\ UNCHANGED <<permit, free>>
     \/ /\ l \notin permit[h] /\ free[l] > 0
        /\ free' = [free EXCEPT ![l] = @ - 1]
        /\ permit' = [permit EXCEPT ![h] = @ \cup {l}]
  /\ polled' = [polled EXCEPT ![h] = l + 1]
  /\ UNCHANGED <<serving, pc, pos, flight, req, ran, answer>>

\* Mutant of PollInner: polls a service and calls the one inside it.
PollInnerSkips(h) ==
  /\ Polling(h) /\ polled[h] = Inner
  /\ pc' = [pc EXCEPT ![serving[h]] = "calling"]
  /\ pos' = [pos EXCEPT ![serving[h]] = 2]
  /\ UNCHANGED <<handleVars, free, flight, req, ran, answer>>

\* The innermost service is ready, so the whole stack is: call it.
PollInner(h) ==
  /\ Polling(h) /\ polled[h] = Inner
  /\ pc' = [pc EXCEPT ![serving[h]] = "calling"]
  /\ pos' = [pos EXCEPT ![serving[h]] = 1]
  /\ UNCHANGED <<handleVars, free, flight, req, ran, answer>>

\* Permits go back to their semaphores.
Released(permits) ==
  [l \in Limit |-> IF l \in permits THEN free[l] + 1 ELSE free[l]]

\* The handle is its owner's again, with whatever poll_ready left in it.
GiveBack(h) ==
  /\ serving' = [serving EXCEPT ![h] = None]
  /\ polled' = [polled EXCEPT ![h] = 1]

\* The request's future is dropped, with the permits in it.
Finish(r, outcome) ==
  /\ pc' = [pc EXCEPT ![r] = "idle"]
  /\ pos' = [pos EXCEPT ![r] = 1]
  /\ answer' = [answer EXCEPT ![r] = outcome]
  /\ flight' = [flight EXCEPT ![r] = {}]
  /\ free' = Released(flight[r])

\* Mutant of PollFails: the error loses what was reserved on the way to it.
PollFailsLeaks(h) ==
  /\ Polling(h) /\ polled[h] = Inner
  /\ Finish(serving[h], NoReply("failed"))
  /\ GiveBack(h)
  /\ permit' = [permit EXCEPT ![h] = {}]
  /\ UNCHANGED <<req, ran>>

\* The innermost service's poll_ready returns an error, which ends the
\* request. The layers around it keep the permits they have just taken.
PollFails(h) ==
  /\ Polling(h) /\ polled[h] = Inner
  /\ Finish(serving[h], NoReply("failed"))
  /\ GiveBack(h)
  /\ UNCHANGED <<permit, req, ran>>

\* The owner gives up before the handle is ready.
CancelPoll(h) ==
  /\ Polling(h)
  /\ Finish(serving[h], NoReply("cancelled"))
  /\ GiveBack(h)
  /\ UNCHANGED <<permit, req, ran>>

\* A handle that is not in use is dropped, and another one takes its place.
DropHandle(h) ==
  /\ serving[h] = None /\ permit[h] # {}
  /\ permit' = [permit EXCEPT ![h] = {}]
  /\ free' = Released(permit[h])
  /\ UNCHANGED <<serving, polled, pc, pos, flight, req, ran, answer>>

-----------------------------------------------------------------------------
(* The synchronous part of call: down the handle's own services *)

Calling(h) == serving[h] # None /\ pc[serving[h]] = "calling"

\* A limit layer moves the handle's permit into the future it returns, and
\* panics if poll_ready did not leave one there.
CallLimit(h) ==
  LET r == serving[h]
      l == pos[r]
  IN /\ Calling(h) /\ l \in Limit
     /\ IF l \in permit[h]
        THEN /\ permit' = [permit EXCEPT ![h] = @ \ {l}]
             /\ flight' = [flight EXCEPT ![r] = @ \cup {l}]
             /\ pos' = [pos EXCEPT ![r] = l + 1]
             /\ UNCHANGED <<serving, polled, free, pc, answer>>
        ELSE /\ Finish(r, NoReply("unready"))
             /\ GiveBack(h)
             /\ UNCHANGED permit
     /\ UNCHANGED <<req, ran>>

\* A library layer's call: clone the inner service, return the future.
CallLayer(h) ==
  LET r == serving[h] IN
  /\ Calling(h) /\ pos[r] \in Cloning
  /\ pc' = [pc EXCEPT ![r] = "converting"]
  /\ GiveBack(h)
  /\ UNCHANGED <<permit, free, pos, flight, req, ran, answer>>

-----------------------------------------------------------------------------
(* The future of a library layer *)

Converting(r) == pc[r] = "converting"
Unreadable(r) == Outermost(pos[r]) /\ ~req[r].readable

\* into_json_rpc_request (from_json_rpc_request in a client) fails.
ConvertFails(r) ==
  /\ Converting(r) /\ Unreadable(r)
  /\ Finish(r, NoReply("failed"))
  /\ UNCHANGED <<handleVars, req, ran>>

\* Mutant of Forward: spawns the inner call and resolves, so that the layers
\* outside drop their futures.
ForwardSpawns(r) ==
  /\ Converting(r) /\ ~Unreadable(r)
  /\ ~Declares(pos[r], req[r].method)
  /\ pc' = [pc EXCEPT ![r] = "forwarding"]
  /\ pos' = [pos EXCEPT ![r] = @ + 1]
  /\ flight' = [flight EXCEPT ![r] = {}]
  /\ free' = Released(flight[r])
  /\ UNCHANGED <<handleVars, req, ran, answer>>

\* Mutant of Forward: clones the service itself in place of its inner one.
ForwardSelf(r) ==
  /\ Converting(r) /\ ~Unreadable(r)
  /\ ~Declares(pos[r], req[r].method)
  /\ pc' = [pc EXCEPT ![r] = "forwarding"]
  /\ UNCHANGED <<handleVars, free, pos, flight, req, ran, answer>>

\* Not this layer's method, or not an api layer: call the cloned service.
Forward(r) ==
  /\ Converting(r) /\ ~Unreadable(r)
  /\ ~Declares(pos[r], req[r].method)
  /\ pc' = [pc EXCEPT ![r] = "forwarding"]
  /\ pos' = [pos EXCEPT ![r] = @ + 1]
  /\ UNCHANGED <<handleVars, free, flight, req, ran, answer>>

Own(r) ==
  Converting(r) /\ ~Unreadable(r) /\ Declares(pos[r], req[r].method)

Parsed(r) == try_from(Api[pos[r]], req[r])

\* Mutant of Respond: answers under the id every generated request has.
RespondZero(r, kind) ==
  /\ pc' = [pc EXCEPT ![r] = "responding"]
  /\ answer' = [answer EXCEPT ![r] = Reply(kind, 0, pos[r])]
  /\ UNCHANGED <<handleVars, free, pos, flight, req>>

Respond(r, kind) ==
  /\ pc' = [pc EXCEPT ![r] = "responding"]
  /\ answer' = [answer EXCEPT ![r] = Reply(kind, req[r].id, pos[r])]
  /\ UNCHANGED <<handleVars, free, pos, flight, req>>

\* Mutant of Reject: a request that does not parse goes to the inner service.
RejectForwards(r) ==
  /\ Own(r) /\ ~Parsed(r).ok
  /\ pc' = [pc EXCEPT ![r] = "forwarding"]
  /\ pos' = [pos EXCEPT ![r] = @ + 1]
  /\ UNCHANGED <<handleVars, free, flight, req, ran, answer>>

\* Mutant of Reject: takes every refusal for an unknown method.
RejectNotFound(r) ==
  /\ Own(r) /\ ~Parsed(r).ok
  /\ Respond(r, "MethodNotFound")
  /\ UNCHANGED ran

\* try_from refuses the request: an error response, nothing is forwarded.
Reject(r) ==
  /\ Own(r) /\ ~Parsed(r).ok
  /\ Respond(r, Parsed(r).code)
  /\ UNCHANGED ran

\* A subscription is answered with a fixed error.
Stub(r) ==
  /\ Own(r) /\ Parsed(r).ok
  /\ IsSubscription(Api[pos[r]], Parsed(r).variant.item)
  /\ Respond(r, "NotImplemented")
  /\ UNCHANGED ran

\* A method: the handler begins to execute it.
Execute(r) ==
  /\ Own(r) /\ Parsed(r).ok
  /\ ~IsSubscription(Api[pos[r]], Parsed(r).variant.item)
  /\ pc' = [pc EXCEPT ![r] = "handling"]
  /\ ran' = [ran EXCEPT ![r] = Append(@, pos[r])]
  /\ UNCHANGED <<handleVars, free, pos, flight, req, answer>>

\* The handler returns Ok or Err.
HandlerReturns(r) ==
  /\ pc[r] = "handling"
  /\ \E kind \in {"success", "error"} : Respond(r, kind)
  /\ UNCHANGED ran

-----------------------------------------------------------------------------
(* The call on the cloned service, synchronous like the first one *)

Forwarding(r) == pc[r] = "forwarding"

\* The clone was never polled, so it holds nothing.
ForwardLimit(r) ==
  /\ Forwarding(r) /\ pos[r] \in Limit
  /\ Finish(r, NoReply("unready"))
  /\ UNCHANGED <<handleVars, req, ran>>

ForwardLayer(r) ==
  /\ Forwarding(r) /\ pos[r] \in Cloning
  /\ pc' = [pc EXCEPT ![r] = "converting"]
  /\ UNCHANGED <<handleVars, free, pos, flight, req, ran, answer>>

\* The innermost service begins to execute the request.
ForwardInner(r) ==
  /\ Forwarding(r) /\ pos[r] = Inner
  /\ pc' = [pc EXCEPT ![r] = "inner"]
  /\ ran' = [ran EXCEPT ![r] = Append(@, Inner)]
  /\ UNCHANGED <<handleVars, free, pos, flight, req, answer>>

-----------------------------------------------------------------------------
(* The way back *)

\* The innermost service resolves: a response under an id of its choice ...
InnerReturns(r) ==
  /\ pc[r] = "inner"
  /\ pc' = [pc EXCEPT ![r] = "responding"]
  /\ \E kind \in {"success", "error"}, id \in Id :
       answer' = [answer EXCEPT ![r] = Reply(kind, id, Inner)]
  /\ UNCHANGED <<handleVars, free, pos, flight, req, ran>>

\* Mutant of InnerFails: reports the error but forgets the future, and the
\* permits in it.
InnerFailsLeaks(r) ==
  /\ pc[r] = "inner"
  /\ pc' = [pc EXCEPT ![r] = "idle"]
  /\ pos' = [pos EXCEPT ![r] = 1]
  /\ answer' = [answer EXCEPT ![r] = NoReply("failed")]
  /\ flight' = [flight EXCEPT ![r] = {}]
  /\ UNCHANGED <<handleVars, free, req, ran>>

\* ... or an error, which every layer passes on.
InnerFails(r) ==
  /\ pc[r] = "inner"
  /\ Finish(r, NoReply("failed"))
  /\ UNCHANGED <<handleVars, req, ran>>

\* The handler or the innermost service panics, or the handler's result
\* does not serialize (to_value(result).unwrap()).
Panic(r) ==
  /\ pc[r] \in {"handling", "inner"}
  /\ Finish(r, NoReply("panicked"))
  /\ UNCHANGED <<handleVars, req, ran>>

\* from_json_rpc_response in the outermost library layer, and the response
\* is out.
Deliver(r) ==
  /\ pc[r] = "responding"
  /\ Finish(r, answer[r])
  /\ UNCHANGED <<handleVars, req, ran>>

\* ... unless the response does not convert.
DeliverFails(r) ==
  /\ pc[r] = "responding"
  /\ Finish(r, NoReply("failed"))
  /\ UNCHANGED <<handleVars, req, ran>>

\* The owner drops the future: a timeout, a closed connection.
Cancel(r) ==
  /\ pc[r] \in Suspended
  /\ Finish(r, NoReply("cancelled"))
  /\ UNCHANGED <<handleVars, req, ran>>

-----------------------------------------------------------------------------
PollStep(h) == PollLayer(h) \/ PollLimit(h) \/ PollInner(h) \/ PollFails(h)

CallStep(h) == CallLimit(h) \/ CallLayer(h)

LayerStep(r) ==
  \/ ConvertFails(r) \/ Forward(r) \/ Reject(r) \/ Stub(r) \/ Execute(r)
  \/ ForwardLimit(r) \/ ForwardLayer(r) \/ ForwardInner(r)

ReturnStep(r) ==
  \/ HandlerReturns(r) \/ InnerReturns(r) \/ InnerFails(r) \/ Panic(r)
  \/ Deliver(r) \/ DeliverFails(r)

Next ==
  \/ \E h \in Handle :
       \/ \E r \in Req, q \in Incoming : Submit(h, r, q)
       \/ PollStep(h) \/ CallStep(h)
       \/ CancelPoll(h) \/ DropHandle(h)
  \/ \E r \in Req : LayerStep(r) \/ ReturnStep(r) \/ Cancel(r)

Spec == Init /\ [][Next]_vars

\* The executor polls what it was told to poll, a semaphore serves its
\* waiters in turn, handlers and the innermost service return, and a handle
\* nobody keeps is dropped.
Fairness ==
  /\ \A h \in Handle :
       WF_vars(PollStep(h)) /\ SF_vars(PollLimit(h)) /\ WF_vars(CallStep(h))
  /\ \A h \in Handle \ Kept : WF_vars(DropHandle(h))
  /\ \A r \in Req : WF_vars(LayerStep(r)) /\ WF_vars(ReturnStep(r))

FairSpec == Spec /\ Fairness

-----------------------------------------------------------------------------
(* Limits keep their meaning *)

Holders(l) == {h \in Handle : l \in permit[h]}
Carriers(l) == {r \in Req : l \in flight[r]}

\* No sequence of calls, cancellations, failures and dropped handles loses
\* or makes a permit of a limit layer: each is in the semaphore, in a
\* handle, or in the future of one request.
PermitConservation ==
  \A l \in Limit :
    free[l] + Cardinality(Holders(l)) + Cardinality(Carriers(l)) = Cap[l]

\* The requests being executed by the services inside a layer.
Past(l) ==
  {r \in Req : pc[r] \notin {"idle", "waiting"} /\ pos[r] > l}

\* A limit layer limits: however requests interleave with the layers'
\* cloning, no more of them are inside it than its capacity.
InFlightWithinCap == \A l \in Limit : Cardinality(Past(l)) <= Cap[l]

\* No service is called that was not ready: a request never ends in the
\* "poll_ready must be called first" panic of a limit layer.
NeverUnready == \A r \in Req : answer[r] # NoReply("unready")

\* Where NeverUnready holds: no limit layer inside a library layer.
LimitsOutside == \A l \in Limit, m \in Cloning : l < m

\* The limit layers that have a library layer around them.
Shielded == {l \in Limit : \E m \in Cloning : m < l}

\* What a call spends of what poll_ready reserved, in one call or over several
\* on one handle: when it has returned, the handle has no permit of a limit
\* outside the library layers, and one of every limit inside them. Those stay
\* with a handle that is kept, idle, for the requests of others to wait for.
CallSpendsReservation ==
  [][\A h \in Handle :
       (Calling(h) /\ serving'[h] = None) => permit'[h] = Shielded]_vars

\* What can go on without anyone from outside: a handle that is called and has
\* a layer to call, that waits for no permit or for one that is there, or that
\* is about to be dropped with the permits it has.
CanStep(h) ==
  \/ Calling(h) /\ pos[serving[h]] \in Layer
  \/ Polling(h) /\ (polled[h] \in Limit \ permit[h] => free[polled[h]] > 0)
  \/ h \notin Kept /\ serving[h] = None /\ permit[h] # {}

\* Requests never wait for one another in a circle, although each waits for the
\* inner limits with the permits of the outer ones in its hand: as long as one
\* is under way, a handle or a future can go on.
NeverStuck ==
  (\E r \in Req : pc[r] # "idle") =>
    \/ \E h \in Handle : CanStep(h)
    \/ \E r \in Req : pc[r] \notin {"idle", "waiting", "calling"}

\* At most how many steps lie ahead of a request, whatever others do: down the
\* stack with poll_ready, down it with call, through the clones, and out.
Ahead(r) ==
  CASE pc[r] = "idle"       -> 0
    [] pc[r] = "responding" -> 1
    [] pc[r] \in {"handling", "inner"} -> 2
    [] pc[r] = "converting" -> 2 * (Inner - pos[r]) + 3
    [] pc[r] \in {"calling", "forwarding"} -> 2 * (Inner - pos[r]) + 4
    [] pc[r] = "waiting" ->
         3 * Inner + 3 - polled[CHOOSE h \in Handle : serving[h] = r]

\* Nothing goes round in circles: but for idle handles that are dropped, every
\* step takes up a request or brings one nearer to its end, and none sets
\* another request back. With NeverStuck, a stack that gets no new requests
\* comes to rest, with all of them ended.
Advances ==
  [][\/ \E h \in Handle : DropHandle(h)
     \/ \E r \in Req :
          /\ pc[r] = "idle" \/ Ahead(r)' \in 0..(Ahead(r) - 1)
          /\ \A s \in Req \ {r} : Ahead(s)' = Ahead(s)]_vars

\* Where NeverStuck holds: a limit has more permits than there are handles
\* that may keep one while they are idle.
CapsExceedKept == \A l \in Limit : Cap[l] > Cardinality(Kept)

-----------------------------------------------------------------------------
(* Dispatch *)

\* The handler of layer l executes this request.
Takes(l, q) ==
  /\ l \in Layer /\ Declares(l, q.method)
  /\ try_from(Api[l], q).ok
  /\ ~IsSubscription(Api[l], try_from(Api[l], q).variant.item)

\* What has begun to execute a request: at most one service, which takes
\* it, and no layer outside that service declares its method.
ExecutedRight(r) ==
  /\ Len(ran[r]) <= 1
  /\ \A i \in DOMAIN ran[r] :
       /\ ran[r][i] = Inner \/ Takes(ran[r][i], req[r])
       /\ \A l \in Layer : l < ran[r][i] => ~Declares(l, req[r].method)

\* A request is executed at most once, by the outermost api that declares
\* its method, or by the innermost service if none does; never if its
\* parameters do not parse or it is a subscription.
DispatchedOnce == \A r \in Req : ExecutedRight(r)

Explained(r) ==
  answer[r] \in Replies =>
    /\ answer[r].kind \in {"success", "error"} => ran[r] = <<answer[r].by>>
    /\ answer[r].kind \notin {"success", "error"} =>
         /\ ran[r] = <<>>
         /\ Declares(answer[r].by, req[r].method)
    /\ answer[r].by # Inner => answer[r].id = req[r].id

\* A response tells its caller what happened: success and error come from
\* the one service that executed the request, the layers' own errors mean
\* that none did, and only the innermost service can change the id.
AnswerExplained == \A r \in Req : Explained(r)

\* Every request that is taken up ends, answered or not, although requests
\* wait for permits of several layers while they hold others.
Resolves == \A r \in Req : pc[r] = "waiting" ~> pc[r] = "idle"
=============================================================================
