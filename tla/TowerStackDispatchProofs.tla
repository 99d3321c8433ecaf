---------------------- MODULE TowerStackDispatchProofs ----------------------
(***************************************************************************)
(* Proofs about which service executes a request and what its answer       *)
(* tells, for any stack and any apis.                                      *)
(***************************************************************************)
EXTENDS TowerStackProofs

\* The layers a request has passed do not declare its method.
Clear(r) ==
  \A l \in Layer : pc[r] # "idle" /\ l < pos[r] => ~Declares(l, req[r].method)

\* What has been executed and answered, by the phase a request is in.
History(r) ==
  /\ pc[r] \in {"waiting", "calling", "converting", "forwarding"} =>
       ran[r] = <<>> /\ answer[r] = NoReply("pending")
  /\ pc[r] = "handling" => ran[r] = <<pos[r]>> /\ answer[r] = NoReply("pending")
  /\ pc[r] = "inner" => ran[r] = <<Inner>> /\ answer[r] = NoReply("pending")

Sound(r) == Clear(r) /\ History(r) /\ ExecutedRight(r) /\ Explained(r)

DispatchInv == \A r \in Req : Sound(r)

\* Why there is no response is not a response.
LEMMA NoReplyIsNone ==
  \A w \in {"pending", "failed", "unready", "panicked", "cancelled"} :
    NoReply(w) \notin Replies
BY DEF NoReply, Replies, ReplyKind

\* Requests start sound: nothing was executed, nothing is answered.
LEMMA DispatchInit == Init => DispatchInv
<1> SUFFICES ASSUME Init, NEW r \in Req PROVE Sound(r)
  BY DEF DispatchInv
<1>1. pc[r] = "idle" /\ ran[r] = <<>> /\ answer[r] = NoReply("pending")
  BY DEF Init
<1>2. answer[r] \notin Replies
  BY <1>1, NoReplyIsNone
<1> QED
  BY <1>1, <1>2 DEF Sound, Clear, History, ExecutedRight, Explained

\* A request nothing happens to stays sound.
LEMMA SoundUntouched ==
  ASSUME NEW s \in Req, Sound(s),
         pc'[s] = pc[s], pos'[s] = pos[s], req'[s] = req[s],
         ran'[s] = ran[s], answer'[s] = answer[s]
  PROVE  Sound(s)'
BY DEF Sound, Clear, History, ExecutedRight, Explained, Takes, Declares

\* Only the request a step is about has to be looked at.
LEMMA OneRequest ==
  ASSUME TypeOK, DispatchInv, NEW r \in Req, Sound(r)',
         \A s \in Req : s # r =>
           /\ pc'[s] = pc[s] /\ pos'[s] = pos[s] /\ req'[s] = req[s]
           /\ ran'[s] = ran[s] /\ answer'[s] = answer[s]
  PROVE  DispatchInv'
<1> SUFFICES ASSUME NEW s \in Req PROVE Sound(s)'
  BY DEF DispatchInv
<1>1. CASE s = r
  BY <1>1
<1>2. CASE s # r
  BY <1>2, SoundUntouched DEF DispatchInv
<1> QED
  BY <1>1, <1>2

\* A request that ends keeps what was executed, and a reply only if it had it.
LEMMA FinishSound ==
  ASSUME TypeOK, DispatchInv, NEW r \in Req, NEW out, Finish(r, out),
         out \in NoReplies \/ out = answer[r], UNCHANGED <<req, ran>>
  PROVE  DispatchInv'
<1>1. /\ pc'[r] = "idle" /\ answer'[r] = out
      /\ \A s \in Req : s # r =>
           pc'[s] = pc[s] /\ pos'[s] = pos[s] /\ answer'[s] = answer[s]
  BY DEF Finish, TypeOK
<1>2. Sound(r)
  BY DEF DispatchInv
<1>3. \A a \in NoReplies : a \notin Replies
  BY NoReplyIsNone DEF NoReplies
<1>4. Sound(r)'
  <2>1. Clear(r)' /\ History(r)'
    BY <1>1 DEF Clear, History
  <2>2. ExecutedRight(r)'
    BY <1>2 DEF Sound, ExecutedRight, Takes, Declares
  <2>3. Explained(r)'
    BY <1>1, <1>2, <1>3 DEF Sound, Explained, Declares
  <2> QED
    BY <2>1, <2>2, <2>3 DEF Sound
<1> QED
  BY <1>1, <1>4, OneRequest

\* A step that only changes this request's phase, and leaves it in its place.
LEMMA PhaseSound ==
  ASSUME TypeOK, DispatchInv, NEW r \in Req, NEW ph,
         pc' = [pc EXCEPT ![r] = ph], UNCHANGED <<pos, req, ran, answer>>,
         pc[r] # "idle", ph \in {"waiting", "calling", "converting", "forwarding"},
         pc[r] \in {"waiting", "calling", "converting", "forwarding"}
  PROVE  DispatchInv'
<1>1. pc'[r] = ph /\ \A s \in Req : s # r => pc'[s] = pc[s]
  BY DEF TypeOK
<1>2. Sound(r)
  BY DEF DispatchInv
<1>3. Sound(r)'
  BY <1>1, <1>2 DEF Sound, Clear, History, ExecutedRight, Explained, Takes, Declares
<1> QED
  BY <1>1, <1>3, OneRequest

\* A first element appended to nothing is a sequence of one.
LEMMA OneElement ==
  ASSUME NEW n
  PROVE  /\ Append(<<>>, n) = <<n>>
         /\ Len(<<n>>) = 1
         /\ <<n>>[1] = n
         /\ \A i \in DOMAIN <<n>> : i = 1
<1>1. Append(<<>>, n) = <<n>>
  OBVIOUS
<1>2. Len(<<n>>) = 1 /\ <<n>>[1] = n
  OBVIOUS
<1>3. DOMAIN <<n>> = 1..1
  OBVIOUS
<1> QED
  BY <1>1, <1>2, <1>3

\* A service begins to execute a request: the first one that may.
LEMMA ExecuteSound ==
  ASSUME TypeOK, DispatchInv, NEW r \in Req, NEW ph \in {"handling", "inner"},
         pc[r] \in {"calling", "converting", "forwarding"},
         pc' = [pc EXCEPT ![r] = ph],
         ran' = [ran EXCEPT ![r] = Append(@, pos[r])],
         UNCHANGED <<pos, req, answer>>,
         ph = "inner" => pos[r] = Inner,
         ph = "handling" => Takes(pos[r], req[r])
  PROVE  DispatchInv'
<1>1. /\ pc'[r] = ph /\ ran'[r] = Append(ran[r], pos[r])
      /\ \A s \in Req : s # r => pc'[s] = pc[s] /\ ran'[s] = ran[s]
  BY DEF TypeOK
<1>2. Sound(r)
  BY DEF DispatchInv
<1>3. ran[r] = <<>> /\ answer[r] = NoReply("pending")
  BY <1>2 DEF Sound, History
<1>4. ran'[r] = <<pos[r]>>
  BY <1>1, <1>3, OneElement
<1>5. Clear(r)' /\ History(r)'
  <2>1. Clear(r)'
    BY <1>2 DEF Sound, Clear, Declares
  <2>2. ran'[r] = <<pos'[r]>> /\ answer'[r] = NoReply("pending")
    BY <1>3, <1>4
  <2>3. ph = "inner" => ran'[r] = <<Inner>>
    BY <1>4
  <2> QED
    BY <1>1, <2>1, <2>2, <2>3 DEF History
<1>6. ExecutedRight(r)'
  <2>1. /\ Len(ran'[r]) = 1
        /\ \A i \in DOMAIN ran'[r] : ran'[r][i] = pos[r]
    BY <1>4, OneElement
  <2>2. pos[r] = Inner \/ Takes(pos[r], req[r])
    OBVIOUS
  <2>3. \A l \in Layer : l < pos[r] => ~Declares(l, req[r].method)
    BY <1>2 DEF Sound, Clear
  <2>4. /\ Len(ran'[r]) <= 1
        /\ \A i \in DOMAIN ran'[r] :
             /\ ran'[r][i] = Inner \/ Takes(ran'[r][i], req[r])
             /\ \A l \in Layer : l < ran'[r][i] => ~Declares(l, req[r].method)
    BY <2>1, <2>2, <2>3
  <2> QED
    BY <2>4 DEF ExecutedRight, Takes, Declares
<1>7. Explained(r)'
  BY <1>3, NoReplyIsNone DEF Explained
<1>8. Sound(r)'
  BY <1>5, <1>6, <1>7 DEF Sound
<1> QED
  BY <1>1, <1>8, OneRequest

\* A layer or the innermost service answers.
LEMMA RespondSound ==
  ASSUME TypeOK, DispatchInv, NEW r \in Req, NEW a \in Replies,
         pc[r] # "idle",
         pc' = [pc EXCEPT ![r] = "responding"],
         answer' = [answer EXCEPT ![r] = a],
         UNCHANGED <<pos, req, ran>>,
         a.kind \in {"success", "error"} => ran[r] = <<a.by>>,
         a.kind \notin {"success", "error"} =>
           ran[r] = <<>> /\ Declares(a.by, req[r].method),
         a.by # Inner => a.id = req[r].id
  PROVE  DispatchInv'
<1>1. /\ pc'[r] = "responding" /\ answer'[r] = a
      /\ \A s \in Req : s # r => pc'[s] = pc[s] /\ answer'[s] = answer[s]
  BY DEF TypeOK
<1>2. Sound(r)
  BY DEF DispatchInv
<1>3. Clear(r)' /\ History(r)'
  BY <1>1, <1>2 DEF Sound, Clear, History, Declares
<1>4. ExecutedRight(r)'
  BY <1>2 DEF Sound, ExecutedRight, Takes, Declares
<1>5. Explained(r)'
  BY <1>1 DEF Explained, Declares
<1>6. Sound(r)'
  BY <1>3, <1>4, <1>5 DEF Sound
<1> QED
  BY <1>1, <1>6, OneRequest

\* A request goes one layer further in, past a layer that does not declare
\* its method.
LEMMA PassSound ==
  ASSUME TypeOK, DispatchInv, NEW r \in Req,
         NEW ph \in {"calling", "forwarding"},
         pc[r] \in {"calling", "converting"},
         pc' = [pc EXCEPT ![r] = ph],
         pos' = [pos EXCEPT ![r] = @ + 1],
         UNCHANGED <<req, ran, answer>>,
         ~Declares(pos[r], req[r].method)
  PROVE  DispatchInv'
<1>1. /\ pc'[r] = ph /\ pos'[r] = pos[r] + 1
      /\ \A s \in Req : s # r => pc'[s] = pc[s] /\ pos'[s] = pos[s]
  BY DEF TypeOK
<1>2. Sound(r)
  BY DEF DispatchInv
<1>3. Clear(r)'
  <2> SUFFICES ASSUME NEW l \in Layer, l < pos[r] + 1
               PROVE  ~Declares(l, req[r].method)
    BY <1>1 DEF Clear, Declares
  <2>1. l < pos[r] \/ l = pos[r]
    BY LayerFacts DEF TypeOK, Layer
  <2> QED
    BY <1>2, <2>1 DEF Sound, Clear
<1>4. History(r)' /\ ExecutedRight(r)' /\ Explained(r)'
  BY <1>1, <1>2 DEF Sound, History, ExecutedRight, Explained, Takes, Declares
<1>5. Sound(r)'
  BY <1>3, <1>4 DEF Sound
<1> QED
  BY <1>1, <1>5, OneRequest

\* Steps that touch no request.
LEMMA AllUntouched ==
  ASSUME DispatchInv, UNCHANGED <<pc, pos, req, ran, answer>>
  PROVE  DispatchInv'
BY SoundUntouched DEF DispatchInv

\* The steps of a handle's owner, polling and calling, keep requests sound.
LEMMA DispatchOwner ==
  ASSUME PermitInv, DispatchInv, NEW h \in Handle,
         \/ \E r \in Req, q \in Incoming : Submit(h, r, q)
         \/ PollStep(h) \/ CallStep(h) \/ CancelPoll(h) \/ DropHandle(h)
  PROVE  DispatchInv'
<1> USE DEF PermitInv, TypeInv
<1>1. ASSUME NEW r \in Req, NEW q \in Incoming, Submit(h, r, q)
      PROVE  DispatchInv'
  <2>1. /\ pc'[r] = "waiting" /\ ran'[r] = <<>> /\ answer'[r] = NoReply("pending")
        /\ pos'[r] = 1
        /\ \A s \in Req : s # r =>
             /\ pc'[s] = pc[s] /\ pos'[s] = pos[s] /\ req'[s] = req[s]
             /\ ran'[s] = ran[s] /\ answer'[s] = answer[s]
    BY <1>1 DEF Submit, TypeOK, FlightExact
  <2>2. Clear(r)'
    BY <2>1, LayerFacts DEF Clear, Layer
  <2>3. ExecutedRight(r)'
    BY <2>1 DEF ExecutedRight
  <2>4. History(r)' /\ Explained(r)'
    BY <2>1, NoReplyIsNone DEF History, Explained
  <2>5. Sound(r)'
    BY <2>2, <2>3, <2>4 DEF Sound
  <2> QED
    BY <2>1, <2>5, OneRequest
<1>2. CASE PollLayer(h) \/ PollLimit(h) \/ DropHandle(h)
  BY <1>2, AllUntouched DEF PollLayer, PollLimit, DropHandle
<1> DEFINE r == serving[h]
<1>3. CASE PollInner(h)
  <2>1. r \in Req /\ pc[r] = "waiting"
    BY <1>3 DEF PollInner, Polling, TypeOK
  <2>2. pos' = pos
    BY <1>3, <2>1 DEF PollInner, FlightExact, TypeOK
  <2>3. pc' = [pc EXCEPT ![r] = "calling"] /\ UNCHANGED <<req, ran, answer>>
    BY <1>3 DEF PollInner
  <2> QED
    BY <2>1, <2>2, <2>3, PhaseSound
<1>4. CASE PollFails(h) \/ CancelPoll(h)
  <2>1. r \in Req
    BY <1>4 DEF PollFails, CancelPoll, Polling, TypeOK
  <2>2. PICK out \in NoReplies : Finish(r, out)
    BY <1>4, NoReplyType DEF PollFails, CancelPoll
  <2>3. UNCHANGED <<req, ran>>
    BY <1>4 DEF PollFails, CancelPoll
  <2> QED
    BY <2>1, <2>2, <2>3, FinishSound
<1>5. CASE CallLimit(h) /\ pos[r] \in permit[h]
  <2>1. r \in Req /\ pc[r] = "calling" /\ pos[r] \in Limit
    BY <1>5 DEF CallLimit, Calling, TypeOK
  <2>2. /\ pos' = [pos EXCEPT ![r] = @ + 1]
        /\ UNCHANGED <<pc, req, ran, answer>>
    BY <1>5 DEF CallLimit
  <2>3. pc' = [pc EXCEPT ![r] = "calling"]
    BY <2>1, <2>2 DEF TypeOK
  <2>4. ~Declares(pos[r], req[r].method)
    BY <2>1 DEF Declares, Limit
  <2> QED
    BY <2>1, <2>2, <2>3, <2>4, PassSound
<1>6. CASE CallLimit(h) /\ pos[r] \notin permit[h]
  <2>1. r \in Req /\ Finish(r, NoReply("unready")) /\ UNCHANGED <<req, ran>>
    BY <1>6 DEF CallLimit, Calling, TypeOK
  <2> QED
    BY <2>1, NoReplyType, FinishSound
<1>7. CASE CallLayer(h)
  <2>1. /\ r \in Req /\ pc[r] = "calling"
        /\ pc' = [pc EXCEPT ![r] = "converting"]
        /\ UNCHANGED <<pos, req, ran, answer>>
    BY <1>7 DEF CallLayer, Calling, TypeOK
  <2> QED
    BY <2>1, PhaseSound
<1> QED
  BY <1>1, <1>2, <1>3, <1>4, <1>5, <1>6, <1>7 DEF PollStep, CallStep

\* So do the steps of a request's future, one per way it can go.
LEMMA DispatchFuture ==
  ASSUME PermitInv, DispatchInv, NEW r \in Req,
         LayerStep(r) \/ ReturnStep(r) \/ Cancel(r)
  PROVE  DispatchInv'
<1> USE DEF PermitInv, TypeInv
<1>0. Sound(r) /\ req[r].id \in Id
  BY StackAssumption DEF DispatchInv, StackAssumption, TypeOK
<1>1. CASE \/ ConvertFails(r) \/ ForwardLimit(r) \/ InnerFails(r) \/ Panic(r)
           \/ Deliver(r) \/ DeliverFails(r) \/ Cancel(r)
  <2>1. PICK out : /\ Finish(r, out) /\ UNCHANGED <<req, ran>>
                   /\ out \in NoReplies \/ out = answer[r]
    BY <1>1, NoReplyType
    DEF ConvertFails, ForwardLimit, InnerFails, Panic, Deliver, DeliverFails, Cancel
  <2> QED
    BY <2>1, FinishSound
<1>2. CASE Forward(r)
  <2>1. /\ pc[r] = "converting" /\ pc' = [pc EXCEPT ![r] = "forwarding"]
        /\ pos' = [pos EXCEPT ![r] = @ + 1]
        /\ UNCHANGED <<req, ran, answer>>
        /\ ~Declares(pos[r], req[r].method)
    BY <1>2 DEF Forward, Converting
  <2> QED
    BY <2>1, PassSound
<1>3. CASE ForwardLayer(r)
  <2>1. /\ pc[r] = "forwarding" /\ pc' = [pc EXCEPT ![r] = "converting"]
        /\ UNCHANGED <<pos, req, ran, answer>>
    BY <1>3 DEF ForwardLayer, Forwarding
  <2> QED
    BY <2>1, PhaseSound
<1>4. CASE ForwardInner(r)
  <2>1. /\ pc[r] = "forwarding" /\ pos[r] = Inner
        /\ pc' = [pc EXCEPT ![r] = "inner"]
        /\ ran' = [ran EXCEPT ![r] = Append(@, pos[r])]
        /\ UNCHANGED <<pos, req, answer>>
    BY <1>4 DEF ForwardInner, Forwarding
  <2> QED
    BY <2>1, ExecuteSound
<1>5. CASE Execute(r)
  <2>1. /\ pc[r] = "converting" /\ pc' = [pc EXCEPT ![r] = "handling"]
        /\ ran' = [ran EXCEPT ![r] = Append(@, pos[r])]
        /\ UNCHANGED <<pos, req, answer>>
    BY <1>5 DEF Execute, Own, Converting
  <2>2. pos[r] \in Layer
    BY <2>1 DEF Placed, Cloning
  <2>3. Takes(pos[r], req[r])
    BY <1>5, <2>2 DEF Execute, Own, Parsed, Takes
  <2> QED
    BY <2>1, <2>3, ExecuteSound
<1>6. CASE Reject(r) \/ Stub(r)
  <2>1. PICK kind \in {"InvalidParams", "MethodNotFound", "NotImplemented"} :
          /\ Own(r) /\ UNCHANGED <<pos, req, ran>>
          /\ pc' = [pc EXCEPT ![r] = "responding"]
          /\ answer' = [answer EXCEPT ![r] = Reply(kind, req[r].id, pos[r])]
    BY <1>6, TryFromCodes DEF Reject, Stub, Parsed, Respond
  <2> DEFINE a == Reply(kind, req[r].id, pos[r])
  <2>2. a \in Replies /\ a.kind = kind /\ a.id = req[r].id /\ a.by = pos[r]
    BY <1>0 DEF Reply, Replies, ReplyKind, TypeOK
  <2>3. pc[r] = "converting" /\ Declares(pos[r], req[r].method)
    BY <2>1 DEF Own, Converting
  <2>4. ran[r] = <<>>
    BY <1>0, <2>3 DEF Sound, History
  <2>5. kind \notin {"success", "error"}
    OBVIOUS
  <2> HIDE DEF a
  <2>6. answer' = [answer EXCEPT ![r] = a]
    BY <2>1 DEF a
  <2> QED
    BY <2>1, <2>2, <2>3, <2>4, <2>5, <2>6, RespondSound
<1>7. CASE HandlerReturns(r)
  <2>1. PICK kind \in {"success", "error"} :
          /\ pc[r] = "handling" /\ UNCHANGED <<pos, req, ran>>
          /\ pc' = [pc EXCEPT ![r] = "responding"]
          /\ answer' = [answer EXCEPT ![r] = Reply(kind, req[r].id, pos[r])]
    BY <1>7 DEF HandlerReturns, Respond
  <2> DEFINE a == Reply(kind, req[r].id, pos[r])
  <2>2. a \in Replies /\ a.kind = kind /\ a.id = req[r].id /\ a.by = pos[r]
    BY <1>0 DEF Reply, Replies, ReplyKind, TypeOK
  <2>3. ran[r] = <<pos[r]>>
    BY <1>0, <2>1 DEF Sound, History
  <2> HIDE DEF a
  <2>4. answer' = [answer EXCEPT ![r] = a]
    BY <2>1 DEF a
  <2> QED
    BY <2>1, <2>2, <2>3, <2>4, RespondSound
<1>8. CASE InnerReturns(r)
  <2>1. PICK kind \in {"success", "error"}, id \in Id :
          /\ pc[r] = "inner" /\ UNCHANGED <<pos, req, ran>>
          /\ pc' = [pc EXCEPT ![r] = "responding"]
          /\ answer' = [answer EXCEPT ![r] = Reply(kind, id, Inner)]
    BY <1>8 DEF InnerReturns
  <2> DEFINE a == Reply(kind, id, Inner)
  <2>2. a \in Replies /\ a.kind = kind /\ a.by = Inner
    BY LayerFacts DEF Reply, Replies, ReplyKind
  <2>3. ran[r] = <<Inner>>
    BY <1>0, <2>1 DEF Sound, History
  <2> HIDE DEF a
  <2>4. answer' = [answer EXCEPT ![r] = a]
    BY <2>1 DEF a
  <2> QED
    BY <2>1, <2>2, <2>3, <2>4, RespondSound
<1> QED
  BY <1>1, <1>2, <1>3, <1>4, <1>5, <1>6, <1>7, <1>8 DEF LayerStep, ReturnStep

\* Every step keeps requests sound.
LEMMA DispatchStep ==
  ASSUME PermitInv, DispatchInv, [Next]_vars
  PROVE  DispatchInv'
<1>1. CASE Next
  BY <1>1, DispatchOwner, DispatchFuture DEF Next
<1>2. CASE UNCHANGED vars
  BY <1>2, AllUntouched DEF vars
<1> QED
  BY <1>1, <1>2

\* The inductive invariant behind the next two theorems.
THEOREM DispatchInvariant == Spec => []DispatchInv
BY PermitInvariant, DispatchInit, DispatchStep, PTL DEF Spec

\* In a stack of several apis every request is executed at most once, by the
\* outermost api that declares its method and accepts its parameters, or by
\* the innermost service if no api declares it.
THEOREM ExecutedOnce == Spec => []DispatchedOnce
<1>1. DispatchInv => DispatchedOnce
  BY DEF DispatchInv, Sound, DispatchedOnce
<1> QED
  BY <1>1, DispatchInvariant, PTL

\* An answer says truly who executed the request, or that nobody did, and
\* the layers give it the id of the request it answers.
THEOREM AnswersTruthful == Spec => []AnswerExplained
<1>1. DispatchInv => AnswerExplained
  BY DEF DispatchInv, Sound, AnswerExplained
<1> QED
  BY <1>1, DispatchInvariant, PTL
=============================================================================
