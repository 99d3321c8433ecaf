----------------------- MODULE TowerStackReadyProofs -----------------------
(***************************************************************************)
(* Proofs about readiness: no service is called unready in the stacks in   *)
(* which every layer that reserves capacity is outside the crate's layers, *)
(* and in no stack do requests that wait for permits block one another.    *)
(***************************************************************************)
EXTENDS TowerStackProofs, WellFoundedInduction

\* A handle in use is being polled or called, for one request only; an idle
\* one has not begun to poll.
Busy ==
  \A h \in Handle :
    IF serving[h] = None THEN polled[h] = 1
    ELSE pc[serving[h]] \in {"waiting", "calling"}

Alone ==
  \A g, h \in Handle : serving[g] = serving[h] /\ serving[g] # None => g = h

\* Polling has reserved what it has passed; a call still finds everything
\* reserved that it has not passed, and nothing else.
Reserved ==
  \A h \in Handle : serving[h] # None =>
    /\ pc[serving[h]] = "waiting" =>
         \A l \in Limit : l < polled[h] => l \in permit[h]
    /\ pc[serving[h]] = "calling" =>
         permit[h] = {l \in Limit : pos[serving[h]] <= l}

\* A request that travels through clones is inside some library layer.
CloneDeep ==
  \A r \in Req : pc[r] = "forwarding" => \E m \in Cloning : m < pos[r]

\* A request that is being called is not yet inside a library layer.
Enters == \A r \in Req : pc[r] = "calling" => \A m \in Cloning : pos[r] <= m

HandleInv == Busy /\ Alone /\ Reserved
HandlesInv == TypeInv /\ HandleInv /\ CloneDeep
ReadyInv == HandlesInv /\ NeverUnready

\* No request ends for want of a poll_ready in this step.
StaysReady == NeverUnready => NeverUnready'

\* No other outcome is taken for an unready service.
LEMMA NotUnready ==
  /\ \A a \in Replies : a # NoReply("unready")
  /\ \A w \in {"pending", "failed", "panicked", "cancelled"} :
       NoReply(w) # NoReply("unready")
BY DEF Replies, ReplyKind, NoReply

\* At first no handle is in use and no request has ended.
LEMMA ReadyInit == Init => ReadyInv
<1> SUFFICES ASSUME Init PROVE ReadyInv
  OBVIOUS
<1>1. TypeInv
  BY TypeInit
<1>2. HandleInv
  BY DEF Init, HandleInv, Busy, Alone, Reserved
<1>3. CloneDeep
  BY DEF Init, CloneDeep
<1>4. NeverUnready
  BY NotUnready DEF Init, NeverUnready
<1> QED
  BY <1>1, <1>2, <1>3, <1>4 DEF ReadyInv, HandlesInv

\* A step of a request that no handle is busy with leaves the handles alone.
LEMMA HandlesUntouched ==
  ASSUME TypeOK, HandleInv, NEW r \in Req, UNCHANGED handleVars,
         pc[r] \notin {"waiting", "calling"},
         \A s \in Req : s # r => pc'[s] = pc[s] /\ pos'[s] = pos[s]
  PROVE  HandleInv'
<1>1. \A h \in Handle : serving[h] # None => serving[h] \in Req /\ serving[h] # r
  BY DEF TypeOK, HandleInv, Busy
<1>2. Busy'
  BY <1>1 DEF HandleInv, Busy, handleVars
<1>3. Alone'
  BY DEF HandleInv, Alone, handleVars
<1>4. Reserved'
  BY <1>1 DEF HandleInv, Reserved, handleVars
<1> QED
  BY <1>2, <1>3, <1>4 DEF HandleInv

\* A handle that is given back is idle, and the others are left alone.
LEMMA HandleGivenBack ==
  ASSUME TypeOK, HandleInv, NEW h \in Handle, serving[h] # None, GiveBack(h),
         \A g \in Handle : g # h => permit'[g] = permit[g],
         \A s \in Req : s # serving[h] => pc'[s] = pc[s] /\ pos'[s] = pos[s]
  PROVE  HandleInv'
<1>1. /\ serving'[h] = None /\ polled'[h] = 1
      /\ \A g \in Handle : g # h => serving'[g] = serving[g] /\ polled'[g] = polled[g]
  BY DEF GiveBack, TypeOK
<1>2. \A g \in Handle : g # h /\ serving[g] # None =>
        serving[g] \in Req /\ serving[g] # serving[h]
  BY DEF TypeOK, HandleInv, Alone
<1>3. Busy'
  BY <1>1, <1>2 DEF HandleInv, Busy
<1>4. Alone'
  BY <1>1 DEF HandleInv, Alone
<1>5. Reserved'
  BY <1>1, <1>2 DEF HandleInv, Reserved
<1> QED
  BY <1>3, <1>4, <1>5 DEF HandleInv

\* Steps after which no new request is being forwarded and no new answer is
\* "unready".
LEMMA CloneUntouched ==
  ASSUME CloneDeep,
         \A r \in Req : pc'[r] = "forwarding" => pc[r] = "forwarding" /\ pos'[r] = pos[r],
         \A r \in Req : answer'[r] = answer[r] \/ answer'[r] # NoReply("unready")
  PROVE  CloneDeep' /\ StaysReady
<1>1. CloneDeep'
  BY DEF CloneDeep
<1>2. StaysReady
  BY DEF StaysReady, NeverUnready
<1> QED
  BY <1>1, <1>2

\* The end of a request, for the steps that end one with this outcome.
LEMMA FinishClones ==
  ASSUME TypeOK, CloneDeep, NEW r \in Req,
         NEW out \in Replies \cup NoReplies,
         out # NoReply("unready"), Finish(r, out)
  PROVE  CloneDeep' /\ StaysReady
<1>1. \A s \in Req : pc'[s] = "forwarding" => pc[s] = "forwarding" /\ pos'[s] = pos[s]
  BY FinishType
<1>2. answer' = [answer EXCEPT ![r] = out]
  BY DEF Finish
<1>3. \A s \in Req : answer'[s] = answer[s] \/ answer'[s] # NoReply("unready")
  BY <1>2 DEF TypeOK
<1> QED
  BY <1>1, <1>3, CloneUntouched

\* The owner's steps, polling and giving up, keep the handles in order.
LEMMA ReadyOwner ==
  ASSUME HandlesInv, NEW h \in Handle,
         \/ \E r \in Req, q \in Incoming : Submit(h, r, q)
         \/ PollStep(h) \/ CancelPoll(h) \/ DropHandle(h)
  PROVE  HandleInv' /\ CloneDeep' /\ StaysReady
<1> USE DEF HandlesInv, TypeInv
<1>0. None \notin Req
  BY StackAssumption DEF StackAssumption
<1>1. ASSUME NEW r \in Req, NEW q \in Incoming, Submit(h, r, q)
      PROVE  HandleInv' /\ CloneDeep' /\ StaysReady
  <2>1. /\ serving[h] = None /\ pc[r] = "idle" /\ polled[h] = 1
        /\ serving' = [serving EXCEPT ![h] = r]
        /\ pc' = [pc EXCEPT ![r] = "waiting"]
        /\ answer' = [answer EXCEPT ![r] = NoReply("pending")]
        /\ UNCHANGED <<polled, permit, free, pos, flight>>
    BY <1>1 DEF Submit, HandleInv, Busy
  <2>2. \A g \in Handle : serving[g] # r
    BY <1>0, <2>1 DEF HandleInv, Busy
  <2>3. \A g \in Handle : g # h => serving'[g] = serving[g]
    BY <2>1 DEF TypeOK
  <2>4. serving'[h] = r /\ pc'[r] = "waiting" /\ \A s \in Req : s # r => pc'[s] = pc[s]
    BY <2>1 DEF TypeOK
  <2>5. Busy'
    BY <1>0, <2>1, <2>2, <2>3, <2>4 DEF HandleInv, Busy, TypeOK
  <2>6. Alone'
    BY <2>1, <2>2, <2>3, <2>4 DEF HandleInv, Alone
  <2>7. Reserved'
    <3>1. \A l \in Limit : ~(l < 1)
      BY LayerFacts
    <3> QED
      BY <2>1, <2>2, <2>3, <2>4, <3>1 DEF HandleInv, Reserved, TypeOK
  <2>8. CloneDeep' /\ StaysReady
    BY <2>1, <2>4, NotUnready, CloneUntouched DEF TypeOK
  <2> QED
    BY <2>5, <2>6, <2>7, <2>8 DEF HandleInv
<1>2. CASE PollLayer(h) \/ PollLimit(h)
  <2>1. /\ Polling(h) /\ polled[h] \in Limit \cup Cloning
        /\ polled' = [polled EXCEPT ![h] = @ + 1]
        /\ UNCHANGED <<serving, pc, pos, answer>>
    BY <1>2 DEF PollLayer, PollLimit
  <2>2. /\ \A g \in Handle : g # h => permit'[g] = permit[g]
        /\ permit[h] \subseteq permit'[h]
        /\ polled[h] \in Limit => polled[h] \in permit'[h]
    <3>1. CASE PollLayer(h)
      <4>1. polled[h] \in Cloning /\ permit' = permit
        BY <3>1 DEF PollLayer
      <4>2. polled[h] \notin Limit
        BY <4>1, LayerFacts
      <4> QED
        BY <4>1, <4>2
    <3>2. CASE PollLimit(h)
      BY <3>2 DEF PollLimit, TypeOK
    <3> QED
      BY <1>2, <3>1, <3>2
  <2>3. /\ \A g \in Handle : g # h => polled'[g] = polled[g]
        /\ polled'[h] = polled[h] + 1
    BY <2>1 DEF TypeOK
  <2>4. Busy' /\ Alone'
    BY <2>1, <2>3 DEF HandleInv, Busy, Alone, Polling
  <2>5. Reserved'
    <3> SUFFICES ASSUME NEW g \in Handle, serving[g] # None
                 PROVE  /\ pc[serving[g]] = "waiting" =>
                             \A l \in Limit : l < polled'[g] => l \in permit'[g]
                        /\ pc[serving[g]] = "calling" =>
                             permit'[g] = {l \in Limit : pos[serving[g]] <= l}
      BY <2>1 DEF Reserved
    <3>1. CASE g = h
      <4>1. pc[serving[g]] = "waiting"
        BY <2>1, <3>1 DEF Polling
      <4>2. \A l \in Limit : l < polled[h] + 1 <=> (l < polled[h] \/ l = polled[h])
        BY <2>1, LayerNumbers
      <4>3. \A l \in Limit : l < polled[h] => l \in permit[h]
        BY <3>1, <4>1 DEF HandleInv, Reserved
      <4> QED
        BY <2>2, <2>3, <3>1, <4>1, <4>2, <4>3
    <3>2. CASE g # h
      BY <2>2, <2>3, <3>2 DEF HandleInv, Reserved
    <3> QED
      BY <3>1, <3>2
  <2>6. CloneDeep' /\ StaysReady
    BY <2>1, CloneUntouched
  <2> QED
    BY <2>4, <2>5, <2>6 DEF HandleInv
<1>3. CASE PollInner(h)
  <2> DEFINE r == serving[h]
  <2>1. /\ r \in Req /\ r # None /\ pc[r] = "waiting" /\ polled[h] = Inner
        /\ pc' = [pc EXCEPT ![r] = "calling"]
        /\ pos' = [pos EXCEPT ![r] = 1]
        /\ UNCHANGED <<serving, polled, permit, answer>>
    BY <1>3 DEF PollInner, Polling, handleVars, TypeOK
  <2>2. \A g \in Handle : g # h /\ serving[g] # None =>
          serving[g] \in Req /\ serving[g] # r
    BY <2>1 DEF TypeOK, HandleInv, Alone
  <2>3. /\ pc'[r] = "calling" /\ pos'[r] = 1
        /\ \A s \in Req : s # r => pc'[s] = pc[s] /\ pos'[s] = pos[s]
    BY <2>1 DEF TypeOK
  <2>4. Busy' /\ Alone'
    BY <2>1, <2>2, <2>3 DEF HandleInv, Busy, Alone
  <2>5. permit[h] = {l \in Limit : 1 <= l}
    <3>1. \A l \in Limit : l < Inner /\ 1 <= l
      BY LayerFacts
    <3>2. permit[h] \subseteq Limit
      BY DEF TypeOK
    <3>3. \A l \in Limit : l \in permit[h]
      BY <2>1, <3>1 DEF HandleInv, Reserved
    <3> QED
      BY <3>1, <3>2, <3>3
  <2>6. Reserved'
    <3> SUFFICES ASSUME NEW g \in Handle, serving[g] # None
                 PROVE  /\ pc'[serving[g]] = "waiting" =>
                             \A l \in Limit : l < polled[g] => l \in permit[g]
                        /\ pc'[serving[g]] = "calling" =>
                             permit[g] = {l \in Limit : pos'[serving[g]] <= l}
      BY <2>1 DEF Reserved
    <3>1. CASE g = h
      BY <2>3, <2>5, <3>1
    <3>2. CASE g # h
      BY <2>2, <2>3, <3>2 DEF HandleInv, Reserved
    <3> QED
      BY <3>1, <3>2
  <2>7. CloneDeep' /\ StaysReady
    BY <2>1, <2>3, CloneUntouched
  <2> QED
    BY <2>4, <2>6, <2>7 DEF HandleInv
<1>4. CASE PollFails(h) \/ CancelPoll(h)
  <2>1. serving[h] \in Req /\ serving[h] # None
    BY <1>4 DEF PollFails, CancelPoll, Polling, TypeOK
  <2>2. PICK out \in NoReplies : out # NoReply("unready") /\ Finish(serving[h], out)
    BY <1>4, NoReplyType, NotUnready DEF PollFails, CancelPoll
  <2>3. GiveBack(h) /\ permit' = permit
    BY <1>4 DEF PollFails, CancelPoll
  <2>4. HandleInv'
    BY <2>1, <2>2, <2>3, FinishType, HandleGivenBack
  <2>5. CloneDeep' /\ StaysReady
    BY <2>1, <2>2, FinishClones
  <2> QED
    BY <2>4, <2>5
<1>5. CASE DropHandle(h)
  <2>1. /\ serving[h] = None /\ permit' = [permit EXCEPT ![h] = {}]
        /\ UNCHANGED <<serving, polled, pc, pos, answer>>
    BY <1>5 DEF DropHandle
  <2>2. \A g \in Handle : g # h => permit'[g] = permit[g]
    BY <2>1 DEF TypeOK
  <2>3. Busy' /\ Alone' /\ Reserved'
    BY <2>1, <2>2 DEF HandleInv, Busy, Alone, Reserved
  <2>4. CloneDeep' /\ StaysReady
    BY <2>1, CloneUntouched
  <2> QED
    BY <2>3, <2>4 DEF HandleInv
<1> QED
  BY <1>1, <1>2, <1>3, <1>4, <1>5 DEF PollStep

\* The calls on the handle's own services: what they need is reserved.
LEMMA ReadyCall ==
  ASSUME HandlesInv, NEW h \in Handle, CallStep(h)
  PROVE  HandleInv' /\ CloneDeep' /\ StaysReady
<1> USE DEF HandlesInv, TypeInv
<1> DEFINE r == serving[h]
<1>0. r \in Req /\ r # None /\ pc[r] = "calling" /\ serving[h] # None
  BY DEF CallStep, CallLimit, CallLayer, Calling, TypeOK
<1>1. permit[h] = {l \in Limit : pos[r] <= l}
  BY <1>0 DEF HandleInv, Reserved
<1>2. \A g \in Handle : g # h /\ serving[g] # None =>
        serving[g] \in Req /\ serving[g] # r
  BY <1>0 DEF TypeOK, HandleInv, Alone
<1>3. CASE CallLimit(h)
  <2> DEFINE k == pos[r]
  <2>a. k \in Limit
    BY <1>3 DEF CallLimit
  <2>b. k \in 1..Depth /\ Depth \in Nat
    BY <2>a, LayerFacts
  <2>1. k \in Limit /\ k \in permit[h]
    BY <1>1, <2>a, <2>b
  <2>2. /\ permit' = [permit EXCEPT ![h] = @ \ {k}]
        /\ pos' = [pos EXCEPT ![r] = k + 1]
        /\ UNCHANGED <<serving, polled, pc, answer>>
    BY <1>3, <2>1 DEF CallLimit
  <2>3. /\ pos'[r] = k + 1 /\ \A s \in Req : s # r => pos'[s] = pos[s]
        /\ permit'[h] = permit[h] \ {k}
        /\ \A g \in Handle : g # h => permit'[g] = permit[g]
    BY <1>0, <2>2 DEF TypeOK
  <2>4. Busy' /\ Alone'
    BY <2>2 DEF HandleInv, Busy, Alone
  <2>5. Reserved'
    <3> SUFFICES ASSUME NEW g \in Handle, serving[g] # None
                 PROVE  /\ pc[serving[g]] = "waiting" =>
                             \A l \in Limit : l < polled[g] => l \in permit'[g]
                        /\ pc[serving[g]] = "calling" =>
                             permit'[g] = {l \in Limit : pos'[serving[g]] <= l}
      BY <2>2 DEF Reserved
    <3>1. CASE g = h
      <4>1. \A l \in Limit : k + 1 <= l <=> (k <= l /\ l # k)
        <5> TAKE l \in Limit
        <5>1. l \in 1..Depth
          BY LayerFacts
        <5> QED
          BY <2>b, <5>1
      <4>2. permit'[h] = {l \in Limit : k + 1 <= l}
        BY <1>1, <2>3, <4>1
      <4> QED
        BY <1>0, <2>3, <3>1, <4>2
    <3>2. CASE g # h
      BY <1>2, <2>3, <3>2 DEF HandleInv, Reserved
    <3> QED
      BY <3>1, <3>2
  <2>6. CloneDeep' /\ StaysReady
    BY <1>0, <2>2, <2>3, CloneUntouched
  <2> QED
    BY <2>4, <2>5, <2>6 DEF HandleInv
<1>4. CASE CallLayer(h)
  <2>1. /\ pc' = [pc EXCEPT ![r] = "converting"]
        /\ GiveBack(h) /\ UNCHANGED <<permit, pos, answer>>
    BY <1>4 DEF CallLayer
  <2>2. /\ pc'[r] # "forwarding"
        /\ \A s \in Req : s # r => pc'[s] = pc[s] /\ pos'[s] = pos[s]
    BY <1>0, <2>1 DEF TypeOK
  <2>3. HandleInv'
    BY <1>0, <2>1, <2>2, HandleGivenBack
  <2>4. CloneDeep' /\ StaysReady
    BY <2>1, <2>2, CloneUntouched
  <2> QED
    BY <2>3, <2>4
<1> QED
  BY <1>3, <1>4 DEF CallStep

\* The steps of futures. The clones they call have no permit, and the one
\* place where that matters is a limit layer inside a library layer.
LEMMA ReadyFuture ==
  ASSUME HandlesInv, NEW r \in Req,
         LayerStep(r) \/ ReturnStep(r) \/ Cancel(r)
  PROVE  HandleInv' /\ CloneDeep' /\ (LimitsOutside => StaysReady)
<1> USE DEF HandlesInv, TypeInv
<1>0. /\ pc[r] \in {"converting", "forwarding", "handling", "inner", "responding"}
      /\ UNCHANGED handleVars
  BY DEF LayerStep, ReturnStep, Cancel, Suspended, ConvertFails, Forward, Reject,
         Stub, Execute, Own, Converting, ForwardLimit, ForwardLayer, ForwardInner,
         Forwarding, HandlerReturns, InnerReturns, InnerFails, Panic, Deliver,
         DeliverFails, Respond
<1>1. CASE ForwardLimit(r)
  <2>1. /\ pc[r] = "forwarding" /\ pos[r] \in Limit
        /\ Finish(r, NoReply("unready"))
    BY <1>1 DEF ForwardLimit, Forwarding
  <2>2. /\ \A s \in Req : s # r => pc'[s] = pc[s] /\ pos'[s] = pos[s]
        /\ \A s \in Req : pc'[s] = "forwarding" => s # r
    BY <2>1 DEF Finish, TypeOK
  <2>3. HandleInv'
    BY <1>0, <2>2, HandlesUntouched
  <2>4. CloneDeep'
    BY <2>2 DEF CloneDeep
  <2>5. ASSUME LimitsOutside PROVE FALSE
    <3>1. PICK m \in Cloning : m < pos[r]
      BY <2>1 DEF CloneDeep
    <3>2. pos[r] < m
      BY <2>1, <2>5 DEF LimitsOutside
    <3>3. pos[r] \in Nat /\ m \in Nat
      BY <2>1, LayerNumbers
    <3> QED
      BY <3>1, <3>2, <3>3
  <2> QED
    BY <2>3, <2>4, <2>5
<1>2. CASE \/ ConvertFails(r) \/ InnerFails(r) \/ Panic(r) \/ Deliver(r)
           \/ DeliverFails(r) \/ Cancel(r)
  <2>1. PICK out \in Replies \cup NoReplies :
          out # NoReply("unready") /\ Finish(r, out)
    <3>1. CASE Deliver(r)
      <4>1. answer[r] \in Replies /\ Finish(r, answer[r])
        BY <3>1 DEF Deliver, Placed
      <4> QED
        BY <4>1, NotUnready
    <3>2. CASE ~Deliver(r)
      <4>1. PICK w \in {"pending", "failed", "panicked", "cancelled"} :
              Finish(r, NoReply(w))
        BY <1>2, <3>2 DEF ConvertFails, InnerFails, Panic, DeliverFails, Cancel
      <4> QED
        BY <4>1, NoReplyType, NotUnready
    <3> QED
      BY <3>1, <3>2
  <2>2. HandleInv'
    BY <1>0, <2>1, FinishType, HandlesUntouched
  <2>3. CloneDeep' /\ StaysReady
    BY <2>1, FinishClones
  <2> QED
    BY <2>2, <2>3
<1>3. CASE Forward(r)
  <2>1. /\ pos[r] \in Cloning /\ answer' = answer
        /\ pc' = [pc EXCEPT ![r] = "forwarding"]
        /\ pos' = [pos EXCEPT ![r] = @ + 1]
    BY <1>3 DEF Forward, Converting, Placed
  <2>2. /\ pos'[r] = pos[r] + 1
        /\ \A s \in Req : s # r => pc'[s] = pc[s] /\ pos'[s] = pos[s]
    BY <2>1 DEF TypeOK
  <2>3. HandleInv'
    BY <1>0, <2>2, HandlesUntouched
  <2>4. CloneDeep'
    <3>0. pos[r] \in 1..Depth /\ Depth \in Nat
      BY <2>1, LayerFacts
    <3>1. pos[r] < pos'[r]
      BY <2>2, <3>0
    <3> QED
      BY <2>1, <2>2, <3>1 DEF CloneDeep
  <2>5. StaysReady
    BY <2>1 DEF StaysReady, NeverUnready
  <2> QED
    BY <2>3, <2>4, <2>5
<1>4. CASE \/ Reject(r) \/ Stub(r) \/ Execute(r) \/ ForwardLayer(r) \/ ForwardInner(r)
           \/ HandlerReturns(r) \/ InnerReturns(r)
  <2>1. /\ pos' = pos
        /\ \E ph \in Phase \ {"forwarding"} : pc' = [pc EXCEPT ![r] = ph]
    BY <1>4
    DEF Reject, Stub, Execute, ForwardLayer, ForwardInner, HandlerReturns,
        InnerReturns, Respond, Phase
  <2>2. /\ pc'[r] # "forwarding"
        /\ \A s \in Req : s # r => pc'[s] = pc[s] /\ pos'[s] = pos[s]
    BY <2>1 DEF TypeOK
  <2>3. \A s \in Req : answer'[s] = answer[s] \/ answer'[s] # NoReply("unready")
    <3>1. \/ answer' = answer
          \/ \E kind, id, by : answer' = [answer EXCEPT ![r] = Reply(kind, id, by)]
      BY <1>4
      DEF Reject, Stub, Execute, ForwardLayer, ForwardInner, HandlerReturns,
          InnerReturns, Respond
    <3>2. \A kind, id, by : Reply(kind, id, by) # NoReply("unready")
      BY DEF Reply, NoReply
    <3> QED
      BY <3>1, <3>2 DEF TypeOK
  <2>4. HandleInv'
    BY <1>0, <2>2, HandlesUntouched
  <2>5. CloneDeep' /\ StaysReady
    BY <2>1, <2>2, <2>3, CloneUntouched
  <2> QED
    BY <2>4, <2>5
<1> QED
  BY <1>1, <1>2, <1>3, <1>4 DEF LayerStep, ReturnStep

\* In every stack each step keeps the handles in order.
LEMMA HandlesStep ==
  ASSUME HandlesInv, [Next]_vars
  PROVE  HandlesInv' /\ (LimitsOutside => StaysReady)
<1>1. TypeInv'
  BY TypeStep DEF HandlesInv
<1>2. CASE Next
  BY <1>1, <1>2, ReadyOwner, ReadyCall, ReadyFuture DEF Next, HandlesInv
<1>3. CASE UNCHANGED vars
  <2>1. HandleInv'
    BY <1>3 DEF HandlesInv, HandleInv, Busy, Alone, Reserved, vars, handleVars
  <2>2. CloneDeep' /\ StaysReady
    BY <1>3, CloneUntouched DEF HandlesInv, vars
  <2> QED
    BY <1>1, <2>1, <2>2 DEF HandlesInv
<1> QED
  BY <1>2, <1>3

\* Where every limit layer is outside the crate's layers, poll_ready followed
\* by call is enough: no request, however it interleaves with others, ends
\* in a service that was not ready.
THEOREM ReadyWhereLimitsOutside ==
  ASSUME LimitsOutside
  PROVE  Spec => []NeverUnready
<1>1. ReadyInv /\ [Next]_vars => ReadyInv'
  BY HandlesStep DEF ReadyInv, StaysReady
<1>2. ReadyInv => NeverUnready
  BY DEF ReadyInv
<1> QED
  BY <1>1, <1>2, ReadyInit, PTL DEF Spec

\* A call begins outside all layers, and goes past limit layers only.
LEMMA EntersStep ==
  ASSUME TypeInv, Enters, Next
  PROVE  Enters'
<1> USE DEF TypeInv
<1>1. ASSUME NEW h \in Handle, PollInner(h)
      PROVE  Enters'
  <2>1. /\ pos' = [pos EXCEPT ![serving[h]] = 1]
        /\ pc' = [pc EXCEPT ![serving[h]] = "calling"]
    BY <1>1 DEF PollInner
  <2>2. \A m \in Cloning : 1 <= m
    BY LayerFacts
  <2> QED
    BY <2>1, <2>2 DEF Enters, TypeOK
<1>2. ASSUME NEW h \in Handle, CallLimit(h), pos[serving[h]] \in permit[h]
      PROVE  Enters'
  <2> DEFINE l == pos[serving[h]]
  <2>1. /\ pos' = [pos EXCEPT ![serving[h]] = l + 1] /\ UNCHANGED pc
        /\ l \in Limit /\ pc[serving[h]] = "calling" /\ serving[h] \in Req
    BY <1>2 DEF CallLimit, Calling, TypeOK
  <2>2. ASSUME NEW m \in Cloning PROVE l + 1 <= m
    <3>1. l <= m
      BY <2>1 DEF Enters
    <3>2. l # m /\ l \in 1..Depth /\ m \in 1..Depth /\ Depth \in Nat
      BY <2>1, LayerFacts
    <3> QED
      BY <3>1, <3>2
  <2>5. pos'[serving[h]] = l + 1 /\ \A s \in Req : s # serving[h] => pos'[s] = pos[s]
    BY <2>1 DEF TypeOK
  <2> QED
    BY <2>1, <2>2, <2>5 DEF Enters
<1>3. ASSUME NEW h \in Handle, CallLimit(h), pos[serving[h]] \notin permit[h]
      PROVE  Enters'
  BY <1>3 DEF CallLimit, Calling, Finish, Enters, TypeOK
<1>4. ASSUME NEW h \in Handle,
             \/ \E r \in Req, q \in Incoming : Submit(h, r, q)
             \/ PollLayer(h) \/ PollLimit(h) \/ PollFails(h) \/ CancelPoll(h)
             \/ DropHandle(h) \/ CallLayer(h)
      PROVE  Enters'
  BY <1>4 DEF Submit, PollLayer, PollLimit, PollFails, CancelPoll, DropHandle,
              CallLayer, Finish, Enters, TypeOK
<1>5. ASSUME NEW r \in Req, LayerStep(r) \/ ReturnStep(r) \/ Cancel(r)
      PROVE  Enters'
  <2>1. /\ \A s \in Req : s # r => pc'[s] = pc[s] /\ pos'[s] = pos[s]
        /\ pc'[r] # "calling"
    BY <1>5
    DEF LayerStep, ReturnStep, Cancel, ConvertFails, Forward, Reject,
        Stub, Execute, ForwardLimit, ForwardLayer, ForwardInner,
        HandlerReturns, InnerReturns, InnerFails, Panic, Deliver,
        DeliverFails, Respond, Finish, TypeOK
  <2> QED
    BY <2>1 DEF Enters
<1> QED
  BY <1>1, <1>2, <1>3, <1>4, <1>5 DEF Next, PollStep, CallStep

\* In every stack a call spends exactly what was reserved for it outside the
\* crate's layers: an idle connection keeps no permit of those from the others,
\* and keeps those inside until it is dropped or called again.
THEOREM CallsSpendReservations == Spec => CallSpendsReservation
<1>1. HandlesInv /\ Enters /\ [Next]_vars => HandlesInv' /\ Enters'
  <2> SUFFICES ASSUME HandlesInv, Enters, [Next]_vars
               PROVE  HandlesInv' /\ Enters'
    OBVIOUS
  <2>1. CASE Next
    BY <2>1, HandlesStep, EntersStep DEF HandlesInv
  <2>2. CASE UNCHANGED vars
    BY <2>2, HandlesStep DEF Enters, vars
  <2> QED
    BY <2>1, <2>2
<1>2. HandlesInv /\ Enters /\ [Next]_vars =>
        [\A h \in Handle :
           (Calling(h) /\ serving'[h] = None) => permit'[h] = Shielded]_vars
  <2> SUFFICES ASSUME HandlesInv, Enters, Next, NEW h \in Handle,
                      Calling(h), serving'[h] = None
               PROVE  permit'[h] = Shielded
    OBVIOUS
  <2> USE DEF HandlesInv, TypeInv
  <2>1. /\ serving[h] \in Req /\ serving[h] # None
        /\ pc[serving[h]] = "calling"
        /\ permit[h] = {l \in Limit : pos[serving[h]] <= l}
    BY DEF Calling, TypeOK, HandleInv, Reserved
  <2>2. CallStep(h)
    <3>1. ASSUME NEW g \in Handle, g # h,
                 \/ \E r \in Req, q \in Incoming : Submit(g, r, q)
                 \/ PollStep(g) \/ CallStep(g) \/ CancelPoll(g) \/ DropHandle(g)
          PROVE  serving'[h] = serving[h]
      BY <3>1
      DEF Submit, PollStep, PollLayer, PollLimit, PollInner, PollFails, CallStep,
          CallLimit, CallLayer, CancelPoll, DropHandle, GiveBack,
          handleVars, TypeOK
    <3>2. ASSUME \/ \E r \in Req, q \in Incoming : Submit(h, r, q)
                 \/ PollStep(h) \/ CancelPoll(h) \/ DropHandle(h)
          PROVE  FALSE
      BY <2>1, <3>2
      DEF Submit, PollStep, PollLayer, PollLimit, PollInner, PollFails, CancelPoll,
          DropHandle, Polling
    <3>3. ASSUME NEW r \in Req, LayerStep(r) \/ ReturnStep(r) \/ Cancel(r)
          PROVE  serving' = serving
      BY <3>3
      DEF LayerStep, ReturnStep, Cancel, ConvertFails, Forward, Reject, Stub,
          Execute, ForwardLimit, ForwardLayer, ForwardInner, HandlerReturns,
          InnerReturns, InnerFails, Panic, Deliver, DeliverFails, Respond,
          handleVars
    <3> QED
      BY <2>1, <3>1, <3>2, <3>3 DEF Next
  <2>3. ~CallLimit(h)
    <3> SUFFICES ASSUME CallLimit(h) PROVE FALSE
      OBVIOUS
    <3>1. pos[serving[h]] \in Limit
      BY DEF CallLimit
    <3>2. pos[serving[h]] \in 1..Depth /\ Depth \in Nat
      BY <3>1, LayerFacts
    <3>3. pos[serving[h]] \in permit[h]
      BY <2>1, <3>1, <3>2
    <3>4. serving' = serving
      BY <3>3 DEF CallLimit
    <3> QED
      BY <2>1, <3>4
  <2>4. /\ pos[serving[h]] \in Cloning
        /\ permit' = permit
    BY <2>2, <2>3 DEF CallStep, CallLayer
  <2>5. ASSUME NEW l \in Limit
        PROVE  pos[serving[h]] <= l <=> \E m \in Cloning : m < l
    <3>1. /\ l \in 1..Depth /\ pos[serving[h]] \in 1..Depth /\ Depth \in Nat
          /\ l # pos[serving[h]] /\ \A m \in Cloning : m \in 1..Depth
      BY <2>4, LayerFacts
    <3>2. \A m \in Cloning : pos[serving[h]] <= m
      BY <2>1 DEF Enters
    <3> QED
      BY <2>4, <3>1, <3>2
  <2> QED
    BY <2>1, <2>4, <2>5 DEF Shielded
<1>3. Init => HandlesInv /\ Enters
  BY ReadyInit DEF ReadyInv, Init, Enters
<1> QED
  BY <1>1, <1>2, <1>3, PTL DEF Spec, CallSpendsReservation

-----------------------------------------------------------------------------
(* Waiting *)

\* A request that waits or is called has a handle that is busy with it.
Attended ==
  \A r \in Req : pc[r] \in {"waiting", "calling"} => \E h \in Handle : serving[h] = r

\* A clone made for one request has reserved what its polling has passed, and
\* nothing else. A handle that is kept may have more, from before.
FreshClones ==
  \A h \in Handle \ Kept : Polling(h) => permit[h] = {l \in Limit : l < polled[h]}

OwnersOK == Busy /\ Alone /\ Attended /\ FreshClones
OwnersInv == PermitInv /\ OwnersOK /\ Enters

LEMMA OwnersInit == Init => OwnersInv
BY PermitInit
DEF Init, OwnersInv, OwnersOK, Busy, Alone, Attended, FreshClones, Polling, Enters

\* A step of a request that no handle is busy with, and that it leaves so.
LEMMA OwnersUntouched ==
  ASSUME TypeOK, OwnersOK, NEW r \in Req, UNCHANGED handleVars,
         pc[r] \notin {"waiting", "calling"}, pc'[r] \notin {"waiting", "calling"},
         \A s \in Req : s # r => pc'[s] = pc[s]
  PROVE  OwnersOK'
<1>1. \A h \in Handle : serving[h] # None => serving[h] \in Req /\ serving[h] # r
  BY DEF TypeOK, OwnersOK, Busy
<1>2. Busy' /\ Alone'
  BY <1>1 DEF OwnersOK, Busy, Alone, handleVars
<1>3. Attended'
  BY DEF OwnersOK, Attended, handleVars
<1>4. FreshClones'
  BY <1>1 DEF OwnersOK, FreshClones, Polling, handleVars
<1> QED
  BY <1>2, <1>3, <1>4 DEF OwnersOK

\* A handle is given back when its request no longer waits for it.
LEMMA OwnersGivenBack ==
  ASSUME TypeOK, OwnersOK, NEW h \in Handle, serving[h] # None, GiveBack(h),
         \A g \in Handle : g # h => permit'[g] = permit[g],
         pc'[serving[h]] \notin {"waiting", "calling"},
         \A s \in Req : s # serving[h] => pc'[s] = pc[s]
  PROVE  OwnersOK'
<1>1. /\ serving'[h] = None /\ polled'[h] = 1
      /\ \A g \in Handle : g # h => serving'[g] = serving[g] /\ polled'[g] = polled[g]
  BY DEF GiveBack, TypeOK
<1>2. \A g \in Handle : g # h /\ serving[g] # None =>
        serving[g] \in Req /\ serving[g] # serving[h]
  BY DEF TypeOK, OwnersOK, Alone
<1>3. Busy' /\ Alone'
  BY <1>1, <1>2 DEF OwnersOK, Busy, Alone
<1>4. Attended'
  <2> SUFFICES ASSUME NEW r \in Req, pc'[r] \in {"waiting", "calling"}
               PROVE  \E g \in Handle : serving'[g] = r
    BY DEF Attended
  <2>1. r # serving[h] /\ pc'[r] = pc[r]
    OBVIOUS
  <2>2. PICK g \in Handle : serving[g] = r
    BY <2>1 DEF OwnersOK, Attended
  <2> QED
    BY <1>1, <2>1, <2>2
<1>5. FreshClones'
  BY <1>1, <1>2 DEF OwnersOK, FreshClones, Polling
<1> QED
  BY <1>3, <1>4, <1>5 DEF OwnersOK

\* The owner's steps. A clone that is new holds nothing, and takes a permit
\* where it goes past a limit.
LEMMA OwnersPoll ==
  ASSUME TypeInv, OwnersOK, NEW h \in Handle,
         \/ \E r \in Req, q \in Incoming : Submit(h, r, q)
         \/ PollStep(h) \/ CancelPoll(h) \/ DropHandle(h)
  PROVE  OwnersOK'
<1> USE DEF TypeInv
<1>0. None \notin Req
  BY StackAssumption DEF StackAssumption
<1>1. ASSUME NEW r \in Req, NEW q \in Incoming, Submit(h, r, q)
      PROVE  OwnersOK'
  <2>1. /\ serving[h] = None /\ pc[r] = "idle" /\ polled[h] = 1
        /\ h \in Kept \/ permit[h] = {}
        /\ serving' = [serving EXCEPT ![h] = r]
        /\ pc' = [pc EXCEPT ![r] = "waiting"]
        /\ UNCHANGED <<polled, permit>>
    BY <1>1 DEF Submit, OwnersOK, Busy
  <2>2. \A g \in Handle : serving[g] # r
    BY <1>0, <2>1 DEF OwnersOK, Busy
  <2>3. \A g \in Handle : g # h => serving'[g] = serving[g]
    BY <2>1 DEF TypeOK
  <2>4. serving'[h] = r /\ pc'[r] = "waiting" /\ \A s \in Req : s # r => pc'[s] = pc[s]
    BY <2>1 DEF TypeOK
  <2>5. Busy'
    BY <1>0, <2>1, <2>2, <2>3, <2>4 DEF OwnersOK, Busy, TypeOK
  <2>6. Alone'
    BY <2>1, <2>2, <2>3, <2>4 DEF OwnersOK, Alone
  <2>7. Attended'
    BY <1>0, <2>1, <2>3, <2>4 DEF OwnersOK, Attended
  <2>8. FreshClones'
    <3>1. \A l \in Limit : ~(l < 1)
      BY LayerFacts
    <3>2. \A g \in Handle : g # h /\ serving[g] # None => serving[g] \in Req /\ serving[g] # r
      BY <2>2 DEF TypeOK
    <3> QED
      BY <2>1, <2>3, <2>4, <3>1, <3>2 DEF OwnersOK, FreshClones, Polling
  <2> QED
    BY <2>5, <2>6, <2>7, <2>8 DEF OwnersOK
<1>2. CASE PollLayer(h) \/ PollLimit(h)
  <2> DEFINE k == polled[h]
  <2>1. /\ Polling(h) /\ k \in Limit \cup Cloning
        /\ polled' = [polled EXCEPT ![h] = @ + 1]
        /\ UNCHANGED <<serving, pc>>
    BY <1>2 DEF PollLayer, PollLimit
  <2>2. /\ \A g \in Handle : g # h => permit'[g] = permit[g]
        /\ permit'[h] = permit[h] \cup ({k} \cap Limit)
    <3>1. CASE PollLayer(h)
      <4>1. k \notin Limit /\ permit' = permit
        BY <3>1, LayerFacts DEF PollLayer
      <4> QED
        BY <4>1
    <3>2. CASE PollLimit(h)
      BY <3>2 DEF PollLimit, TypeOK
    <3> QED
      BY <1>2, <3>1, <3>2
  <2>3. /\ \A g \in Handle : g # h => polled'[g] = polled[g]
        /\ polled'[h] = k + 1
    BY <2>1 DEF TypeOK
  <2>4. Busy' /\ Alone' /\ Attended'
    BY <2>1, <2>3 DEF OwnersOK, Busy, Alone, Attended, Polling
  <2>5. FreshClones'
    <3> SUFFICES ASSUME NEW g \in Handle \ Kept, Polling(g)
                 PROVE  permit'[g] = {l \in Limit : l < polled'[g]}
      BY <2>1 DEF FreshClones, Polling
    <3>1. permit[g] = {l \in Limit : l < polled[g]}
      BY DEF OwnersOK, FreshClones
    <3>2. CASE g = h
      <4>1. \A l \in Limit : l < k + 1 <=> (l < k \/ l = k)
        BY <2>1, LayerNumbers
      <4> QED
        BY <2>2, <2>3, <3>1, <3>2, <4>1
    <3>3. CASE g # h
      BY <2>2, <2>3, <3>1, <3>3
    <3> QED
      BY <3>2, <3>3
  <2> QED
    BY <2>4, <2>5 DEF OwnersOK
<1>3. CASE PollInner(h)
  <2> DEFINE r == serving[h]
  <2>1. /\ r \in Req /\ r # None
        /\ pc' = [pc EXCEPT ![r] = "calling"]
        /\ UNCHANGED <<serving, polled, permit>>
    BY <1>3 DEF PollInner, Polling, handleVars, TypeOK
  <2>2. pc'[r] = "calling" /\ \A s \in Req : s # r => pc'[s] = pc[s]
    BY <2>1 DEF TypeOK
  <2>3. Busy' /\ Alone' /\ Attended'
    BY <2>1, <2>2 DEF OwnersOK, Busy, Alone, Attended, TypeOK
  <2>4. FreshClones'
    BY <2>1, <2>2 DEF OwnersOK, FreshClones, Polling, TypeOK
  <2> QED
    BY <2>3, <2>4 DEF OwnersOK
<1>4. CASE PollFails(h) \/ CancelPoll(h)
  <2>1. serving[h] \in Req /\ serving[h] # None
    BY <1>4 DEF PollFails, CancelPoll, Polling, TypeOK
  <2>2. PICK out \in NoReplies : Finish(serving[h], out)
    BY <1>4, NoReplyType DEF PollFails, CancelPoll
  <2>3. GiveBack(h) /\ permit' = permit
    BY <1>4 DEF PollFails, CancelPoll
  <2>4. /\ pc'[serving[h]] = "idle"
        /\ \A s \in Req : s # serving[h] => pc'[s] = pc[s]
    BY <2>1, <2>2 DEF Finish, TypeOK
  <2> QED
    BY <2>1, <2>3, <2>4, OwnersGivenBack
<1>5. CASE DropHandle(h)
  <2>1. /\ serving[h] = None /\ permit' = [permit EXCEPT ![h] = {}]
        /\ UNCHANGED <<serving, polled, pc>>
    BY <1>5 DEF DropHandle
  <2>2. \A g \in Handle : g # h => permit'[g] = permit[g]
    BY <2>1 DEF TypeOK
  <2> QED
    BY <2>1, <2>2
    DEF OwnersOK, Busy, Alone, Attended, FreshClones, Polling
<1> QED
  BY <1>1, <1>2, <1>3, <1>4, <1>5 DEF PollStep

\* Calls and futures. A call gives its handle back when it returns, and when
\* a limit layer panics for want of a permit.
LEMMA OwnersCall ==
  ASSUME TypeInv, OwnersOK, NEW h \in Handle, CallStep(h)
  PROVE  OwnersOK'
<1> USE DEF TypeInv
<1> DEFINE r == serving[h]
<1>0. r \in Req /\ r # None /\ pc[r] = "calling"
  BY DEF CallStep, CallLimit, CallLayer, Calling, TypeOK
<1>1. \A g \in Handle : g # h /\ serving[g] # None =>
        serving[g] \in Req /\ serving[g] # r
  BY <1>0 DEF TypeOK, OwnersOK, Alone
<1>2. CASE CallLimit(h) /\ UNCHANGED <<serving, polled, pc>>
  <2>1. \A g \in Handle : g # h => permit'[g] = permit[g]
    BY <1>2 DEF CallLimit, TypeOK
  <2>2. ~Polling(h)
    BY <1>0 DEF Polling
  <2> QED
    BY <1>2, <2>1, <2>2 DEF OwnersOK, Busy, Alone, Attended, FreshClones, Polling
<1>3. ASSUME GiveBack(h), permit' = permit, NEW ph \in {"idle", "converting"},
             pc' = [pc EXCEPT ![r] = ph]
      PROVE  OwnersOK'
  <2>1. pc'[r] = ph /\ \A s \in Req : s # r => pc'[s] = pc[s]
    BY <1>0, <1>3 DEF TypeOK
  <2> QED
    BY <1>0, <1>3, <2>1, OwnersGivenBack
<1>4. CASE CallLimit(h)
  BY <1>2, <1>3, <1>4 DEF CallLimit, Finish
<1>5. CASE CallLayer(h)
  BY <1>3, <1>5 DEF CallLayer
<1> QED
  BY <1>4, <1>5 DEF CallStep

LEMMA OwnersFuture ==
  ASSUME TypeInv, OwnersOK, NEW r \in Req,
         LayerStep(r) \/ ReturnStep(r) \/ Cancel(r)
  PROVE  OwnersOK'
<1>1. /\ pc[r] \in {"converting", "forwarding", "handling", "inner", "responding"}
      /\ UNCHANGED handleVars
  BY DEF LayerStep, ReturnStep, Cancel, Suspended, ConvertFails, Forward, Reject,
         Stub, Execute, Own, Converting, ForwardLimit, ForwardLayer, ForwardInner,
         Forwarding, HandlerReturns, InnerReturns, InnerFails, Panic, Deliver,
         DeliverFails, Respond
<1>2. \E ph \in Phase \ {"waiting", "calling"} : pc' = [pc EXCEPT ![r] = ph]
  BY DEF LayerStep, ReturnStep, Cancel, ConvertFails, Forward, Reject,
         Stub, Execute, ForwardLimit, ForwardLayer, ForwardInner,
         HandlerReturns, InnerReturns, InnerFails, Panic, Deliver,
         DeliverFails, Respond, Finish, Phase
<1>3. /\ pc'[r] \notin {"waiting", "calling"}
      /\ \A s \in Req : s # r => pc'[s] = pc[s]
  BY <1>2 DEF TypeInv, TypeOK
<1> QED
  BY <1>1, <1>3, OwnersUntouched DEF TypeInv

LEMMA OwnersStep ==
  ASSUME OwnersInv, [Next]_vars
  PROVE  OwnersInv'
<1>1. PermitInv'
  BY PermitStep DEF OwnersInv
<1>2. TypeInv /\ OwnersOK
  BY DEF OwnersInv, PermitInv
<1>3. CASE Next
  <2>1. OwnersOK'
    BY <1>2, <1>3, OwnersPoll, OwnersCall, OwnersFuture DEF Next
  <2> QED
    BY <1>1, <1>2, <1>3, <2>1, EntersStep DEF OwnersInv
<1>4. CASE UNCHANGED vars
  BY <1>1, <1>2, <1>4
  DEF OwnersInv, OwnersOK, Busy, Alone, Attended, FreshClones, Polling, Enters,
      vars, handleVars
<1> QED
  BY <1>3, <1>4

\* A handle that is being called has a layer to call.
LEMMA CallsGoOn ==
  ASSUME OwnersInv, NEW h \in Handle, Calling(h)
  PROVE  CanStep(h)
<1>1. serving[h] \in Req /\ pos[serving[h]] \in 1..Inner
  BY DEF OwnersInv, PermitInv, TypeInv, TypeOK, Calling
<1>2. PICK m \in Cloning : pos[serving[h]] <= m
  BY <1>1, StackAssumption DEF OwnersInv, Enters, Calling, StackAssumption
<1>3. pos[serving[h]] \in Layer
  BY <1>1, <1>2, LayerFacts DEF Layer
<1> QED
  BY <1>3 DEF CanStep

\* Of some numbers below a bound one is the greatest.
LEMMA GreatestNumber ==
  ASSUME NEW n \in Nat, NEW T, T \subseteq 0..n, T # {}
  PROVE  \E i \in T : \A j \in T : j <= i
<1> DEFINE R == OpToRel(<, Nat)
           U == {n - i : i \in T}
<1>0. IsWellFoundedOn(R, Nat)
  BY NatLessThanWellFounded
<1>1. U \subseteq Nat /\ U # {}
  <2>1. \A i \in T : i \in Nat /\ i <= n
    OBVIOUS
  <2>2. PICK i \in T : TRUE
    OBVIOUS
  <2>3. n - i \in U
    OBVIOUS
  <2> QED
    BY <2>1, <2>3
<1>2. \A i, j \in Nat : i > j => <<j, i>> \in R
  BY DEF OpToRel
<1> HIDE DEF R
<1>3. PICK u \in U : \A v \in U : ~(<<v, u>> \in R)
  BY <1>0, <1>1, WFMin
<1>4. PICK i \in T : u = n - i
  OBVIOUS
<1>5. ASSUME NEW j \in T PROVE j <= i
  <2>1. n - j \in U /\ n - j \in Nat /\ u \in Nat
    BY <1>1
  <2>2. ~(u > n - j)
    BY <1>2, <1>3, <2>1
  <2> QED
    BY <1>4, <2>2
<1> QED
  BY <1>5

\* Where nobody can go on, a permit that is waited for is held by a clone that
\* was made for one request, and that waits further inside.
LEMMA HolderWaitsInside ==
  ASSUME OwnersInv, CapsExceedKept, NEW l \in Limit, free[l] = 0,
         \A h \in Handle : ~CanStep(h),
         \A r \in Req : pc[r] \in {"idle", "waiting", "calling"}
  PROVE  \E g \in Handle \ Kept : Polling(g) /\ l < polled[g]
<1> USE DEF OwnersInv, PermitInv, TypeInv, OwnersOK
<1>1. \A r \in Req : pc[r] # "calling"
  BY CallsGoOn, StackAssumption DEF Calling, Attended, StackAssumption
<1>2. Carriers(l) = {}
  <2> SUFFICES ASSUME NEW r \in Req PROVE l \notin flight[r]
    BY DEF Carriers
  <2>1. pos[r] = 1 /\ ~(l < 1)
    BY <1>1, LayerFacts DEF FlightExact
  <2> QED
    BY <2>1 DEF FlightExact
<1>3. Cardinality(Holders(l)) = Cap[l]
  <2>1. free[l] + Cardinality(Holders(l)) + Cardinality(Carriers(l)) = Cap[l]
    BY DEF PermitConservation
  <2>2. Cardinality(Carriers(l)) = 0 /\ Cardinality(Holders(l)) \in Nat
    BY <1>2, FS_EmptySet, FiniteParts
  <2> QED
    BY <2>1, <2>2
<1>4. PICK g \in Handle \ Kept : l \in permit[g]
  <2> SUFFICES ASSUME Holders(l) \subseteq Kept PROVE FALSE
    BY DEF Holders
  <2>1. IsFiniteSet(Kept)
    BY FS_Subset, StackAssumption DEF StackAssumption
  <2>2. /\ Cardinality(Holders(l)) <= Cardinality(Kept)
        /\ Cardinality(Kept) \in Nat /\ Cardinality(Holders(l)) \in Nat
    BY <2>1, FS_Subset, FS_CardinalityType, FiniteParts
  <2>3. Cap[l] > Cardinality(Kept) /\ Cap[l] \in Nat
    BY LayerFacts DEF CapsExceedKept
  <2> QED
    BY <1>3, <2>2, <2>3
<1>5. Polling(g)
  <2>1. serving[g] # None
    BY <1>4 DEF CanStep
  <2> QED
    BY <1>1, <2>1 DEF Busy, Polling, TypeOK
<1> QED
  BY <1>4, <1>5 DEF FreshClones

\* Requests that wait for permits never block one another for good, in any
\* stack and with any number of callers, if every limit has more permits than
\* handles are kept open: following the waits, from each clone to one that
\* holds what it waits for, leads further inside and so to an end.
THEOREM NobodyStuck ==
  ASSUME CapsExceedKept
  PROVE  Spec => []NeverStuck
<1>1. OwnersInv => NeverStuck
  <2> SUFFICES ASSUME OwnersInv, NEW r \in Req, pc[r] # "idle",
                      \A h \in Handle : ~CanStep(h),
                      \A s \in Req : pc[s] \in {"idle", "waiting", "calling"}
               PROVE  FALSE
    BY DEF NeverStuck
  <2> USE DEF OwnersInv, PermitInv, TypeInv, OwnersOK
  <2>1. ASSUME NEW h \in Handle, Polling(h)
        PROVE  polled[h] \in Limit /\ free[polled[h]] = 0
    <3>1. polled[h] \in Limit /\ ~(free[polled[h]] > 0)
      BY <2>1 DEF CanStep
    <3> QED
      BY <3>1 DEF TypeOK
  <2>2. \E h \in Handle : Polling(h)
    <3>1. PICK h \in Handle : serving[h] = r
      BY DEF Attended
    <3>2. serving[h] # None
      BY <3>1, StackAssumption DEF StackAssumption
    <3> QED
      BY <3>1, <3>2, CallsGoOn DEF Calling, Polling
  <2> DEFINE T == {polled[g] : g \in {g \in Handle \ Kept : Polling(g)}}
  <2>3. T # {}
    BY <2>1, <2>2, HolderWaitsInside
  <2>4. T \subseteq 0..Inner /\ Inner \in Nat
    BY LayerFacts DEF TypeOK
  <2>5. PICK i \in T : \A j \in T : j <= i
    BY <2>3, <2>4, GreatestNumber
  <2>6. PICK h \in Handle \ Kept : Polling(h) /\ i = polled[h]
    BY <2>5
  <2>7. PICK g \in Handle \ Kept : Polling(g) /\ i < polled[g]
    BY <2>1, <2>6, HolderWaitsInside
  <2> QED
    BY <2>4, <2>5, <2>7
<1> QED
  BY <1>1, OwnersInit, OwnersStep, PTL DEF Spec
-----------------------------------------------------------------------------
(* Going on *)

\* A request is served by the one handle that is busy with it.
LEMMA TheHandle ==
  ASSUME NEW sv, NEW r, NEW h \in Handle, sv[h] = r,
         \A g \in Handle : sv[g] = r => g = h
  PROVE  (CHOOSE g \in Handle : sv[g] = r) = h
OBVIOUS

\* A step of one request, on its handle or on one that is idle, leaves the
\* others where they are.
LEMMA OthersKept ==
  ASSUME TypeOK, OwnersOK, OwnersOK', NEW r \in Req,
         \A s \in Req : s # r => pc'[s] = pc[s] /\ pos'[s] = pos[s],
         \A g \in Handle : serving[g] \notin {None, r} =>
           serving'[g] = serving[g] /\ polled'[g] = polled[g]
  PROVE  \A s \in Req \ {r} : Ahead(s)' = Ahead(s)
<1> SUFFICES ASSUME NEW s \in Req, s # r
             PROVE  Ahead(s)' = Ahead(s)
  OBVIOUS
<1>0. s # None
  BY StackAssumption DEF StackAssumption
<1>1. CASE pc[s] = "waiting"
  <2>1. PICK g \in Handle : serving[g] = s
    BY <1>1 DEF OwnersOK, Attended
  <2>2. serving'[g] = s /\ polled'[g] = polled[g]
    BY <1>0, <2>1
  <2>3. (CHOOSE h \in Handle : serving[h] = s) = g
    BY <1>0, <2>1, TheHandle DEF OwnersOK, Alone
  <2>4. (CHOOSE h \in Handle : serving'[h] = s) = g
    BY <1>0, <2>2, TheHandle DEF OwnersOK, Alone
  <2> QED
    BY <1>1, <2>2, <2>3, <2>4 DEF Ahead
<1>2. CASE pc[s] # "waiting"
  BY <1>2 DEF Ahead, TypeOK, Phase
<1> QED
  BY <1>1, <1>2

\* What is ahead of a request, by what it is at.
LEMMA AheadWaiting ==
  ASSUME TypeOK, OwnersOK, NEW h \in Handle, Polling(h)
  PROVE  /\ Ahead(serving[h]) = 3 * Inner + 3 - polled[h]
         /\ Ahead(serving[h]) > 0
<1>1. (CHOOSE g \in Handle : serving[g] = serving[h]) = h
  BY TheHandle DEF OwnersOK, Alone, Polling
<1>2. Ahead(serving[h]) = 3 * Inner + 3 - polled[h]
  BY <1>1 DEF Ahead, Polling
<1> QED
  BY <1>2, LayerFacts DEF TypeOK

\* What is ahead of a request is a number of steps below a bound that only the
\* depth of the stack sets, and not none while the request is under way.
Bounded == \A r \in Req : Ahead(r) \in 0..(3 * Inner + 2)

LEMMA AheadBounded ==
  ASSUME TypeOK, OwnersOK
  PROVE  Bounded /\ \A r \in Req : pc[r] # "idle" => Ahead(r) > 0
<1> SUFFICES ASSUME NEW r \in Req
             PROVE  /\ Ahead(r) \in 0..(3 * Inner + 2)
                    /\ pc[r] # "idle" => Ahead(r) > 0
  BY DEF Bounded
<1>1. CASE pc[r] = "waiting"
  <2>1. PICK h \in Handle : serving[h] = r
    BY <1>1 DEF OwnersOK, Attended
  <2>2. Polling(h)
    BY <1>1, <2>1, StackAssumption DEF StackAssumption, Polling
  <2>3. Ahead(r) = 3 * Inner + 3 - polled[h] /\ polled[h] \in 1..Inner
    BY <2>1, <2>2, AheadWaiting DEF TypeOK
  <2> QED
    BY <2>3, LayerFacts
<1>2. CASE pc[r] # "waiting"
  <2>1. Ahead(r) \in {0, 1, 2, 2 * (Inner - pos[r]) + 3, 2 * (Inner - pos[r]) + 4}
        /\ (pc[r] # "idle" => Ahead(r) # 0)
    BY <1>2, LayerFacts DEF TypeOK, Phase, Ahead
  <2>2. pos[r] \in 1..Inner
    BY DEF TypeOK
  <2> QED
    BY <2>1, <2>2, LayerFacts
<1> QED
  BY <1>1, <1>2

\* A request that ends has come nearer to its end.
LEMMA AheadFinish ==
  ASSUME TypeOK, OwnersOK, NEW r \in Req, NEW out, pc[r] # "idle", Finish(r, out)
  PROVE  /\ Ahead(r)' < Ahead(r)
         /\ \A s \in Req : s # r => pc'[s] = pc[s] /\ pos'[s] = pos[s]
<1>1. pc'[r] = "idle" /\ \A s \in Req : s # r => pc'[s] = pc[s] /\ pos'[s] = pos[s]
  BY DEF Finish, TypeOK
<1>2. Ahead(r)' = 0
  BY <1>1 DEF Ahead
<1> QED
  BY <1>1, <1>2, AheadBounded

\* Taking up a request disturbs none that is under way.
LEMMA SubmitAdvances ==
  ASSUME TypeOK, OwnersOK, OwnersOK', NEW h \in Handle, NEW r \in Req,
         NEW q \in Incoming, Submit(h, r, q)
  PROVE  pc[r] = "idle" /\ \A s \in Req \ {r} : Ahead(s)' = Ahead(s)
<1>1. /\ serving[h] = None /\ pc[r] = "idle"
      /\ serving' = [serving EXCEPT ![h] = r]
      /\ pc' = [pc EXCEPT ![r] = "waiting"]
      /\ UNCHANGED <<polled, pos>>
  BY DEF Submit
<1>2. \A s \in Req : s # r => pc'[s] = pc[s] /\ pos'[s] = pos[s]
  BY <1>1 DEF TypeOK
<1>3. \A g \in Handle : serving[g] \notin {None, r} =>
        serving'[g] = serving[g] /\ polled'[g] = polled[g]
  BY <1>1 DEF TypeOK
<1> QED
  BY <1>1, <1>2, <1>3, OthersKept

\* Polling goes inward, and then calls or fails; so does giving up.
LEMMA PollAdvances ==
  ASSUME TypeOK, OwnersOK, OwnersOK', NEW h \in Handle, NEW r \in Req,
         serving[h] = r, PollStep(h) \/ CancelPoll(h)
  PROVE  /\ Ahead(r)' < Ahead(r)
         /\ \A s \in Req \ {r} : Ahead(s)' = Ahead(s)
<1>0. Polling(h) /\ r # None /\ pc[r] = "waiting"
  BY DEF PollStep, PollLayer, PollLimit, PollInner, PollFails, CancelPoll,
         Polling, TypeOK
<1>1. Ahead(r) = 3 * Inner + 3 - polled[h]
  BY <1>0, AheadWaiting
<1>2. CASE PollLayer(h) \/ PollLimit(h)
  <2>1. /\ polled' = [polled EXCEPT ![h] = @ + 1]
        /\ UNCHANGED <<serving, pc, pos>>
    BY <1>2 DEF PollLayer, PollLimit
  <2>2. /\ polled'[h] = polled[h] + 1
        /\ \A g \in Handle : serving[g] # r => polled'[g] = polled[g]
    BY <2>1 DEF TypeOK
  <2>3. (CHOOSE g \in Handle : serving'[g] = r) = h
    BY <1>0, <2>1, TheHandle DEF OwnersOK, Alone
  <2>4. Ahead(r)' = 3 * Inner + 3 - polled'[h]
    BY <1>0, <2>1, <2>3 DEF Ahead
  <2>5. Ahead(r)' < Ahead(r)
    BY <1>1, <2>2, <2>4, LayerFacts DEF TypeOK
  <2> QED
    BY <1>0, <2>1, <2>2, <2>5, OthersKept
<1>3. CASE PollInner(h)
  <2>1. /\ polled[h] = Inner
        /\ pc' = [pc EXCEPT ![r] = "calling"]
        /\ pos' = [pos EXCEPT ![r] = 1]
        /\ UNCHANGED <<serving, polled>>
    BY <1>3 DEF PollInner, handleVars
  <2>2. /\ pc'[r] = "calling" /\ pos'[r] = 1
        /\ \A s \in Req : s # r => pc'[s] = pc[s] /\ pos'[s] = pos[s]
    BY <1>0, <2>1 DEF TypeOK
  <2>3. Ahead(r)' = 2 * (Inner - 1) + 4
    BY <2>1, <2>2 DEF Ahead
  <2>4. Ahead(r)' < Ahead(r)
    BY <1>1, <2>1, <2>3, LayerFacts
  <2> QED
    BY <1>0, <2>1, <2>2, <2>4, OthersKept
<1>4. CASE PollFails(h) \/ CancelPoll(h)
  <2>1. PICK out \in NoReplies : Finish(r, out)
    BY <1>4, NoReplyType DEF PollFails, CancelPoll
  <2>2. \A g \in Handle : serving[g] # r =>
          serving'[g] = serving[g] /\ polled'[g] = polled[g]
    BY <1>4 DEF PollFails, CancelPoll, GiveBack, TypeOK
  <2> QED
    BY <1>0, <2>1, <2>2, AheadFinish, OthersKept
<1> QED
  BY <1>2, <1>3, <1>4 DEF PollStep

\* The call goes inward to the first library layer, or panics on its way.
LEMMA CallAdvances ==
  ASSUME TypeOK, OwnersOK, OwnersOK', NEW h \in Handle, NEW r \in Req,
         serving[h] = r, CallStep(h)
  PROVE  /\ Ahead(r)' < Ahead(r)
         /\ \A s \in Req \ {r} : Ahead(s)' = Ahead(s)
<1>0. pc[r] = "calling"
  BY DEF CallStep, CallLimit, CallLayer, Calling, TypeOK
<1>1. Ahead(r) = 2 * (Inner - pos[r]) + 4 /\ pos[r] \in 1..Inner
  BY <1>0 DEF Ahead, TypeOK
<1>2. CASE CallLimit(h) /\ pos[r] \in permit[h]
  <2>1. /\ pos' = [pos EXCEPT ![r] = pos[r] + 1]
        /\ UNCHANGED <<serving, polled, pc>>
    BY <1>2 DEF CallLimit
  <2>2. pos'[r] = pos[r] + 1 /\ \A s \in Req : s # r => pos'[s] = pos[s]
    BY <1>0, <2>1 DEF TypeOK
  <2>3. Ahead(r)' = 2 * (Inner - pos'[r]) + 4
    BY <1>0, <2>1 DEF Ahead
  <2>4. Ahead(r)' < Ahead(r)
    BY <1>1, <2>2, <2>3, LayerFacts
  <2> QED
    BY <1>0, <2>1, <2>2, <2>4, OthersKept
<1>3. CASE CallLimit(h) /\ pos[r] \notin permit[h]
  <2>1. Finish(r, NoReply("unready")) /\ GiveBack(h)
    BY <1>3 DEF CallLimit
  <2>2. \A g \in Handle : serving[g] # r =>
          serving'[g] = serving[g] /\ polled'[g] = polled[g]
    BY <2>1 DEF GiveBack, TypeOK
  <2> QED
    BY <1>0, <2>1, <2>2, AheadFinish, OthersKept
<1>4. CASE CallLayer(h)
  <2>1. /\ pc' = [pc EXCEPT ![r] = "converting"]
        /\ GiveBack(h) /\ UNCHANGED pos
    BY <1>4 DEF CallLayer
  <2>2. pc'[r] = "converting" /\ \A s \in Req : s # r => pc'[s] = pc[s]
    BY <1>0, <2>1 DEF TypeOK
  <2>3. \A g \in Handle : serving[g] # r =>
          serving'[g] = serving[g] /\ polled'[g] = polled[g]
    BY <2>1 DEF GiveBack, TypeOK
  <2>4. Ahead(r)' = 2 * (Inner - pos[r]) + 3
    BY <2>1, <2>2 DEF Ahead
  <2>5. Ahead(r)' < Ahead(r)
    BY <1>1, <2>4, LayerFacts
  <2> QED
    BY <1>0, <2>1, <2>2, <2>3, <2>5, OthersKept
<1> QED
  BY <1>2, <1>3, <1>4 DEF CallStep

\* A future goes inward through the clones, and then out.
LEMMA FutureAdvances ==
  ASSUME TypeOK, OwnersOK, OwnersOK', NEW r \in Req,
         LayerStep(r) \/ ReturnStep(r) \/ Cancel(r)
  PROVE  /\ Ahead(r)' < Ahead(r)
         /\ \A s \in Req \ {r} : Ahead(s)' = Ahead(s)
<1>0. UNCHANGED handleVars
  BY DEF LayerStep, ReturnStep, Cancel, ConvertFails, Forward, Reject,
         Stub, Execute, ForwardLimit, ForwardLayer, ForwardInner,
         HandlerReturns, InnerReturns, InnerFails, Panic, Deliver,
         DeliverFails, Respond
<1>1. pos[r] \in 1..Inner /\ Inner \in Nat
  BY LayerFacts DEF TypeOK
<1>2. ASSUME NEW p \in Phase, NEW k,
             pc' = [pc EXCEPT ![r] = p], pos' = [pos EXCEPT ![r] = k],
             Ahead(r)' < Ahead(r)
      PROVE  \A s \in Req \ {r} : Ahead(s)' = Ahead(s)
  <2>1. \A s \in Req : s # r => pc'[s] = pc[s] /\ pos'[s] = pos[s]
    BY <1>2 DEF TypeOK
  <2> QED
    BY <1>0, <2>1, OthersKept DEF handleVars
<1>3. CASE Forward(r)
  <2>1. /\ pc[r] = "converting"
        /\ pc' = [pc EXCEPT ![r] = "forwarding"]
        /\ pos' = [pos EXCEPT ![r] = pos[r] + 1]
    BY <1>3 DEF Forward, Converting
  <2>2. pc'[r] = "forwarding" /\ pos'[r] = pos[r] + 1
    BY <2>1 DEF TypeOK
  <2>3. /\ Ahead(r) = 2 * (Inner - pos[r]) + 3
        /\ Ahead(r)' = 2 * (Inner - (pos[r] + 1)) + 4
    BY <2>1, <2>2 DEF Ahead
  <2>4. Ahead(r)' < Ahead(r)
    BY <1>1, <2>3
  <2> QED
    BY <1>2, <2>1, <2>4 DEF Phase
<1>4. CASE ForwardLayer(r)
  <2>1. /\ pc[r] = "forwarding"
        /\ pc' = [pc EXCEPT ![r] = "converting"] /\ pos' = pos
    BY <1>4 DEF ForwardLayer, Forwarding
  <2>2. pc'[r] = "converting" /\ pos' = [pos EXCEPT ![r] = pos[r]]
    BY <2>1 DEF TypeOK
  <2>3. /\ Ahead(r) = 2 * (Inner - pos[r]) + 4
        /\ Ahead(r)' = 2 * (Inner - pos[r]) + 3
    BY <2>1, <2>2 DEF Ahead
  <2>4. Ahead(r)' < Ahead(r)
    BY <1>1, <2>3
  <2> QED
    BY <1>2, <2>1, <2>2, <2>4 DEF Phase
<1>5. CASE Execute(r) \/ ForwardInner(r)
  <2>1. PICK p \in {"handling", "inner"} :
          /\ pc[r] \in {"converting", "forwarding"}
          /\ pc' = [pc EXCEPT ![r] = p] /\ pos' = pos
    BY <1>5 DEF Execute, Own, Converting, ForwardInner, Forwarding
  <2>2. pc'[r] = p /\ pos' = [pos EXCEPT ![r] = pos[r]]
    BY <2>1 DEF TypeOK
  <2>3. Ahead(r) \in {2 * (Inner - pos[r]) + 3, 2 * (Inner - pos[r]) + 4}
    BY <2>1 DEF Ahead
  <2>4. Ahead(r)' = 2
    BY <2>2 DEF Ahead
  <2>5. Ahead(r)' < Ahead(r)
    BY <1>1, <2>3, <2>4
  <2> QED
    BY <1>2, <2>1, <2>2, <2>5 DEF Phase
<1>6. CASE Reject(r) \/ Stub(r) \/ HandlerReturns(r) \/ InnerReturns(r)
  <2>1. /\ pc[r] \in {"converting", "handling", "inner"}
        /\ pc' = [pc EXCEPT ![r] = "responding"] /\ pos' = pos
    BY <1>6 DEF Reject, Stub, Own, Converting, HandlerReturns, Respond, InnerReturns
  <2>2. pc'[r] = "responding" /\ pos' = [pos EXCEPT ![r] = pos[r]]
    BY <2>1 DEF TypeOK
  <2>3. Ahead(r) \in {2, 2 * (Inner - pos[r]) + 3}
    BY <2>1 DEF Ahead
  <2>4. Ahead(r)' = 1
    BY <2>2 DEF Ahead
  <2>5. Ahead(r)' < Ahead(r)
    BY <1>1, <2>3, <2>4
  <2> QED
    BY <1>2, <2>1, <2>2, <2>5 DEF Phase
<1>7. CASE \/ ConvertFails(r) \/ ForwardLimit(r) \/ InnerFails(r) \/ Panic(r)
           \/ Deliver(r) \/ DeliverFails(r) \/ Cancel(r)
  <2>1. pc[r] # "idle" /\ \E out : Finish(r, out)
    BY <1>7 DEF ConvertFails, Converting, ForwardLimit, Forwarding, InnerFails,
                Panic, Deliver, DeliverFails, Cancel, Suspended
  <2>2. Ahead(r)' < Ahead(r)
    BY <2>1, AheadFinish
  <2> QED
    BY <1>2, <2>1, <2>2 DEF Finish, Phase
<1> QED
  BY <1>3, <1>4, <1>5, <1>6, <1>7 DEF LayerStep, ReturnStep

\* Whatever the stack, every step but the taking up of a request and the drop
\* of an idle handle brings one request nearer to its end and sets no other
\* back. From NobodyStuck it is then known that requests end if steps are
\* taken at all: nothing can go on for ever without a new request.
THEOREM StepsAdvance == Spec => Advances
<1>0. OwnersInv => Bounded
  BY AheadBounded DEF OwnersInv, PermitInv, TypeInv
<1>1. OwnersInv /\ OwnersInv' /\ Bounded /\ Bounded' /\ [Next]_vars =>
        [\/ \E h \in Handle : DropHandle(h)
         \/ \E r \in Req :
              /\ pc[r] = "idle" \/ Ahead(r)' \in 0..(Ahead(r) - 1)
              /\ \A s \in Req \ {r} : Ahead(s)' = Ahead(s)]_vars
  <2> SUFFICES ASSUME OwnersInv, OwnersInv', Bounded, Bounded', Next,
                      \A h \in Handle : ~DropHandle(h)
               PROVE  \E r \in Req :
                        /\ pc[r] = "idle" \/ Ahead(r)' \in 0..(Ahead(r) - 1)
                        /\ \A s \in Req \ {r} : Ahead(s)' = Ahead(s)
    OBVIOUS
  <2>0. TypeOK /\ OwnersOK /\ OwnersOK'
    BY DEF OwnersInv, PermitInv, TypeInv
  <2>1. ASSUME NEW h \in Handle, NEW r \in Req, NEW q \in Incoming, Submit(h, r, q)
        PROVE  pc[r] = "idle" /\ \A s \in Req \ {r} : Ahead(s)' = Ahead(s)
    BY <2>0, <2>1, SubmitAdvances
  <2>2. ASSUME NEW h \in Handle, PollStep(h) \/ CancelPoll(h) \/ CallStep(h)
        PROVE  \E r \in Req :
                 /\ Ahead(r)' < Ahead(r)
                 /\ \A s \in Req \ {r} : Ahead(s)' = Ahead(s)
    <3>1. PICK r \in Req : serving[h] = r
      BY <2>0, <2>2
      DEF PollStep, PollLayer, PollLimit, PollInner, PollFails, CancelPoll,
          Polling, CallStep, CallLimit, CallLayer, Calling, TypeOK
    <3> QED
      BY <2>0, <2>2, <3>1, PollAdvances, CallAdvances
  <2>3. ASSUME NEW r \in Req, LayerStep(r) \/ ReturnStep(r) \/ Cancel(r)
        PROVE  /\ Ahead(r)' < Ahead(r)
               /\ \A s \in Req \ {r} : Ahead(s)' = Ahead(s)
    BY <2>0, <2>3, FutureAdvances
  <2>4. ASSUME NEW r \in Req, Ahead(r)' < Ahead(r)
        PROVE  Ahead(r)' \in 0..(Ahead(r) - 1)
    <3>1. /\ Ahead(r) \in 0..(3 * Inner + 2)
          /\ Ahead(r)' \in 0..(3 * Inner + 2)
      BY DEF Bounded
    <3> QED
      BY <2>4, <3>1, LayerFacts
  <2> QED
    BY <2>1, <2>2, <2>3, <2>4 DEF Next
<1> QED
  BY <1>0, <1>1, OwnersInit, OwnersStep, PTL DEF Spec, Advances
=============================================================================
