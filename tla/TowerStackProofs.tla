-------------------------- MODULE TowerStackProofs --------------------------
(***************************************************************************)
(* Proofs about TowerStack, for stacks of any depth and kind, any number   *)
(* of handles and requests, and any apis.                                  *)
(***************************************************************************)
EXTENDS TowerStack, TLAPS, FiniteSetTheorems

-----------------------------------------------------------------------------
(* The shape of a stack *)

\* The layers are numbered 1 to Depth, each of one kind, around Inner.
LEMMA LayerFacts ==
  /\ Depth \in Nat /\ Inner \in Nat /\ Inner = Depth + 1
  /\ 1 \in 1..Inner /\ Inner \in 1..Inner
  /\ Limit \subseteq 1..Depth /\ Cloning \subseteq 1..Depth
  /\ Limit \cap Cloning = {}
  /\ \A l \in 1..Depth : l \in 1..Inner /\ l + 1 \in 1..Inner /\ l # Inner
  /\ Cap \in [Limit -> Nat]
<1>1. Kind \in Seq({"limit", "bridge", "api"}) /\ Cap \in [Limit -> Nat]
  BY StackAssumption DEF StackAssumption
<1>2. Depth \in Nat
  BY <1>1 DEF Depth
<1> QED
  BY <1>1, <1>2 DEF Inner, Limit, Cloning, Layer

\* The numbers of the layers that matter below.
LEMMA LayerNumbers ==
  /\ Inner \in Nat
  /\ \A l \in Limit \cup Cloning : l \in Nat /\ 1 <= l /\ l < Inner
<1>1. Depth \in Nat /\ Inner = Depth + 1
  BY LayerFacts
<1>2. \A l \in Limit \cup Cloning : l \in 1..Depth
  BY LayerFacts
<1> QED
  BY <1>1, <1>2

\* try_from refuses a request with one of two codes.
LEMMA TryFromCodes ==
  ASSUME NEW a, NEW q, ~try_from(a, q).ok
  PROVE  try_from(a, q).code \in {"InvalidParams", "MethodNotFound"}
BY DEF try_from, Ok, Err

-----------------------------------------------------------------------------
(* Type correctness *)

\* The strengthening TypeOK needs: what a request is at says where it is.
Placed ==
  \A r \in Req :
    /\ pc[r] \in {"converting", "handling"} => pos[r] \in Cloning
    /\ pc[r] = "inner" => pos[r] = Inner
    /\ pc[r] = "responding" => answer[r] \in Replies

TypeInv == TypeOK /\ Placed

\* Permits that go back leave a count in every semaphore.
LEMMA ReleasedType ==
  ASSUME TypeOK, NEW P
  PROVE  Released(P) \in [Limit -> Nat]
BY DEF TypeOK, Released

\* Dropping a future keeps the types.
LEMMA FinishType ==
  ASSUME TypeOK, NEW r \in Req, NEW out \in Replies \cup NoReplies,
         Finish(r, out)
  PROVE  /\ pc' \in [Req -> Phase]
         /\ pos' \in [Req -> 1..Inner]
         /\ flight' \in [Req -> SUBSET Limit]
         /\ free' \in [Limit -> Nat]
         /\ answer' \in [Req -> Replies \cup NoReplies]
         /\ pc'[r] = "idle"
         /\ \A s \in Req : s # r =>
              pc'[s] = pc[s] /\ pos'[s] = pos[s] /\ answer'[s] = answer[s]
<1>1. free' \in [Limit -> Nat]
  BY ReleasedType DEF Finish
<1>2. 1 \in 1..Inner
  BY LayerFacts
<1>3. /\ pc' \in [Req -> Phase]
      /\ pos' \in [Req -> 1..Inner]
      /\ flight' \in [Req -> SUBSET Limit]
      /\ answer' \in [Req -> Replies \cup NoReplies]
  BY <1>2 DEF Finish, TypeOK, Phase
<1>4. /\ pc'[r] = "idle"
      /\ \A s \in Req : s # r =>
           pc'[s] = pc[s] /\ pos'[s] = pos[s] /\ answer'[s] = answer[s]
  BY DEF Finish, TypeOK
<1> QED
  BY <1>1, <1>3, <1>4

\* The outcomes without a response are those TypeOK lists.
LEMMA NoReplyType ==
  \A w \in {"pending", "failed", "unready", "panicked", "cancelled"} :
    NoReply(w) \in NoReplies
BY DEF NoReplies

\* The initial state is type correct.
LEMMA TypeInit == Init => TypeInv
<1> SUFFICES ASSUME Init PROVE TypeInv
  OBVIOUS
<1>1. TypeOK
  BY LayerFacts, NoReplyType DEF Init, TypeOK, Phase
<1>2. Placed
  BY DEF Init, Placed
<1> QED
  BY <1>1, <1>2 DEF TypeInv

\* The owner's steps keep the types.
LEMMA TypeOwner ==
  ASSUME TypeInv, NEW h \in Handle,
         \/ \E r \in Req, q \in Incoming : Submit(h, r, q)
         \/ PollLayer(h) \/ PollLimit(h) \/ PollInner(h) \/ PollFails(h)
         \/ CancelPoll(h) \/ DropHandle(h)
  PROVE  TypeInv'
<1> USE DEF TypeInv
<1>1. ASSUME NEW r \in Req, NEW q \in Incoming, Submit(h, r, q)
      PROVE  TypeInv'
  <2>1. TypeOK'
    BY <1>1, NoReplyType DEF TypeOK, Submit, Phase
  <2>2. Placed'
    BY <1>1 DEF Placed, TypeOK, Submit
  <2> QED
    BY <2>1, <2>2
<1>2. CASE PollLayer(h)
  <2>0. polled[h] + 1 \in 1..Inner
    BY <1>2, LayerFacts DEF PollLayer
  <2>a. polled' \in [Handle -> 1..Inner]
    BY <1>2, <2>0 DEF TypeOK, PollLayer
  <2>1. TypeOK'
    BY <1>2, <2>a DEF TypeOK, PollLayer
  <2>2. Placed'
    BY <1>2 DEF Placed, PollLayer
  <2> QED
    BY <2>1, <2>2
<1>3. CASE PollLimit(h)
  <2>1. polled' \in [Handle -> 1..Inner]
    BY <1>3, LayerFacts DEF TypeOK, PollLimit
  <2>2. permit' \in [Handle -> SUBSET Limit] /\ free' \in [Limit -> Nat]
    <3> DEFINE l == polled[h]
    <3>1. /\ l \in Limit
          /\ \/ UNCHANGED <<permit, free>>
             \/ /\ free[l] > 0
                /\ free' = [free EXCEPT ![l] = @ - 1]
                /\ permit' = [permit EXCEPT ![h] = @ \cup {l}]
      BY <1>3 DEF PollLimit
    <3> HIDE DEF l
    <3>2. CASE UNCHANGED <<permit, free>>
      BY <3>2 DEF TypeOK
    <3>3. CASE /\ free[l] > 0
               /\ free' = [free EXCEPT ![l] = @ - 1]
               /\ permit' = [permit EXCEPT ![h] = @ \cup {l}]
      <4>1. free[l] \in Nat /\ free[l] - 1 \in Nat
        BY <3>1, <3>3 DEF TypeOK
      <4>2. free' \in [Limit -> Nat]
        BY <3>3, <4>1 DEF TypeOK
      <4>3. permit' \in [Handle -> SUBSET Limit]
        BY <3>1, <3>3 DEF TypeOK
      <4> QED
        BY <4>2, <4>3
    <3> QED
      BY <3>1, <3>2, <3>3
  <2>3. TypeOK'
    BY <1>3, <2>1, <2>2 DEF TypeOK, PollLimit
  <2>4. Placed'
    BY <1>3 DEF Placed, PollLimit
  <2> QED
    BY <2>3, <2>4
<1>4. CASE PollInner(h)
  <2>1. serving[h] \in Req
    BY <1>4 DEF PollInner, Polling, TypeOK
  <2>2. TypeOK'
    BY <1>4, <2>1, LayerFacts DEF TypeOK, PollInner, Phase, handleVars
  <2>3. Placed'
    BY <1>4, <2>1 DEF Placed, TypeOK, PollInner
  <2> QED
    BY <2>2, <2>3
<1>5. CASE PollFails(h) \/ CancelPoll(h)
  <2>1. serving[h] \in Req
    BY <1>5 DEF PollFails, CancelPoll, Polling, TypeOK
  <2>2. PICK out \in NoReplies : Finish(serving[h], out)
    BY <1>5, NoReplyType DEF PollFails, CancelPoll
  <2>3. serving' \in [Handle -> Req \cup {None}] /\ polled' \in [Handle -> 1..Inner]
    BY <1>5, LayerFacts DEF PollFails, CancelPoll, GiveBack, TypeOK
  <2>4. UNCHANGED <<permit, req, ran>>
    BY <1>5 DEF PollFails, CancelPoll
  <2>5. TypeOK'
    BY <2>1, <2>2, <2>3, <2>4, FinishType DEF TypeOK
  <2>6. Placed'
    BY <2>1, <2>2, FinishType DEF Placed
  <2> QED
    BY <2>5, <2>6
<1>6. CASE DropHandle(h)
  <2>1. free' \in [Limit -> Nat]
    BY <1>6, ReleasedType DEF DropHandle
  <2>2. TypeOK'
    BY <1>6, <2>1 DEF TypeOK, DropHandle
  <2>3. Placed'
    BY <1>6 DEF Placed, DropHandle
  <2> QED
    BY <2>2, <2>3
<1> QED
  BY <1>1, <1>2, <1>3, <1>4, <1>5, <1>6

\* The synchronous calls on a handle keep the types.
LEMMA TypeCall ==
  ASSUME TypeInv, NEW h \in Handle, CallStep(h)
  PROVE  TypeInv'
<1> USE DEF TypeInv
<1>0. serving[h] \in Req
  BY DEF CallStep, CallLimit, CallLayer, Calling, TypeOK
<1>1. CASE CallLimit(h) /\ pos[serving[h]] \in permit[h]
  <2>0. pos[serving[h]] \in Limit /\ pos[serving[h]] + 1 \in 1..Inner
    BY <1>1, LayerFacts DEF CallLimit
  <2>b. pos' = [pos EXCEPT ![serving[h]] = pos[serving[h]] + 1]
    BY <1>1 DEF CallLimit
  <2>1. pos' \in [Req -> 1..Inner]
    BY <1>0, <2>0, <2>b DEF TypeOK
  <2>c. /\ flight' = [flight EXCEPT ![serving[h]] = @ \cup {pos[serving[h]]}]
        /\ permit' = [permit EXCEPT ![h] = @ \ {pos[serving[h]]}]
    BY <1>1 DEF CallLimit
  <2>a. flight' \in [Req -> SUBSET Limit] /\ permit' \in [Handle -> SUBSET Limit]
    BY <1>0, <2>0, <2>c DEF TypeOK
  <2>2. TypeOK'
    BY <1>1, <2>1, <2>a DEF TypeOK, CallLimit
  <2>3. Placed'
    BY <1>0, <1>1 DEF Placed, TypeOK, CallLimit, Calling
  <2> QED
    BY <2>2, <2>3
<1>2. CASE CallLimit(h) /\ pos[serving[h]] \notin permit[h]
  <2>1. Finish(serving[h], NoReply("unready")) /\ GiveBack(h)
        /\ UNCHANGED <<permit, req, ran>>
    BY <1>2 DEF CallLimit
  <2>2. TypeOK'
    BY <1>0, <2>1, FinishType, NoReplyType, LayerFacts DEF TypeOK, GiveBack
  <2>3. Placed'
    BY <1>0, <2>1, FinishType, NoReplyType DEF Placed
  <2> QED
    BY <2>2, <2>3
<1>3. CASE CallLayer(h)
  <2>1. TypeOK'
    BY <1>0, <1>3, LayerFacts DEF TypeOK, CallLayer, GiveBack, Phase
  <2>2. Placed'
    BY <1>0, <1>3 DEF Placed, TypeOK, CallLayer
  <2> QED
    BY <2>1, <2>2
<1> QED
  BY <1>1, <1>2, <1>3 DEF CallStep

\* The steps of a library layer's future keep the types.
LEMMA TypeLayer ==
  ASSUME TypeInv, NEW r \in Req, LayerStep(r)
  PROVE  TypeInv'
<1> USE DEF TypeInv
<1>1. CASE ConvertFails(r)
  <2>1. TypeOK'
    BY <1>1, FinishType, NoReplyType DEF TypeOK, ConvertFails, handleVars
  <2>2. Placed'
    BY <1>1, FinishType, NoReplyType DEF Placed, ConvertFails
  <2> QED
    BY <2>1, <2>2
<1>2. CASE Forward(r)
  <2>1. pos[r] \in Cloning
    BY <1>2 DEF Placed, Forward, Converting
  <2>2. pos' \in [Req -> 1..Inner]
    BY <1>2, <2>1, LayerFacts DEF TypeOK, Forward
  <2>3. TypeOK'
    BY <1>2, <2>2 DEF TypeOK, Forward, handleVars, Phase
  <2>4. Placed'
    BY <1>2 DEF Placed, TypeOK, Forward
  <2> QED
    BY <2>3, <2>4
<1>3. CASE Reject(r) \/ Stub(r)
  <2>1. PICK kind \in ReplyKind : Respond(r, kind) /\ UNCHANGED ran
    BY <1>3, TryFromCodes DEF Reject, Stub, Parsed, ReplyKind
  <2>2. req[r].id \in Id
    BY StackAssumption DEF StackAssumption, TypeOK
  <2>3. Reply(kind, req[r].id, pos[r]) \in Replies
    BY <2>1, <2>2 DEF Reply, Replies, TypeOK
  <2>4. TypeOK'
    BY <2>1, <2>3 DEF TypeOK, Respond, handleVars, Phase
  <2>5. Placed'
    BY <2>1, <2>3 DEF Placed, TypeOK, Respond
  <2> QED
    BY <2>4, <2>5
<1>4. CASE Execute(r)
  <2>1. TypeOK'
    BY <1>4 DEF TypeOK, Execute, handleVars, Phase
  <2>2. Placed'
    BY <1>4 DEF Placed, TypeOK, Execute, Own, Converting
  <2> QED
    BY <2>1, <2>2
<1>5. CASE ForwardLimit(r)
  <2>1. TypeOK'
    BY <1>5, FinishType, NoReplyType DEF TypeOK, ForwardLimit, handleVars
  <2>2. Placed'
    BY <1>5, FinishType, NoReplyType DEF Placed, ForwardLimit
  <2> QED
    BY <2>1, <2>2
<1>6. CASE ForwardLayer(r)
  <2>1. TypeOK'
    BY <1>6 DEF TypeOK, ForwardLayer, handleVars, Phase
  <2>2. Placed'
    BY <1>6 DEF Placed, TypeOK, ForwardLayer
  <2> QED
    BY <2>1, <2>2
<1>7. CASE ForwardInner(r)
  <2>1. ran' \in [Req -> Seq(1..Inner)]
    BY <1>7, LayerFacts DEF TypeOK, ForwardInner
  <2>2. TypeOK'
    BY <1>7, <2>1 DEF TypeOK, ForwardInner, handleVars, Phase
  <2>3. Placed'
    BY <1>7 DEF Placed, TypeOK, ForwardInner
  <2> QED
    BY <2>2, <2>3
<1> QED
  BY <1>1, <1>2, <1>3, <1>4, <1>5, <1>6, <1>7 DEF LayerStep

\* So do the steps by which a request ends.
LEMMA TypeReturn ==
  ASSUME TypeInv, NEW r \in Req, ReturnStep(r) \/ Cancel(r)
  PROVE  TypeInv'
<1> USE DEF TypeInv
<1>1. CASE HandlerReturns(r) \/ InnerReturns(r)
  <2>1. PICK a \in Replies :
          /\ pc' = [pc EXCEPT ![r] = "responding"]
          /\ answer' = [answer EXCEPT ![r] = a]
          /\ UNCHANGED <<handleVars, free, pos, flight, req, ran>>
    <3>1. req[r].id \in Id /\ pos[r] \in 1..Inner
      BY StackAssumption DEF StackAssumption, TypeOK
    <3>2. CASE HandlerReturns(r)
      BY <3>1, <3>2 DEF HandlerReturns, Respond, Reply, Replies, ReplyKind
    <3>3. CASE InnerReturns(r)
      BY <3>3, LayerFacts DEF InnerReturns, Reply, Replies, ReplyKind
    <3> QED
      BY <1>1, <3>2, <3>3
  <2>2. TypeOK'
    BY <2>1 DEF TypeOK, handleVars, Phase
  <2>3. Placed'
    BY <2>1 DEF Placed, TypeOK
  <2> QED
    BY <2>2, <2>3
<1>2. CASE InnerFails(r) \/ Panic(r) \/ Deliver(r) \/ DeliverFails(r) \/ Cancel(r)
  <2>1. PICK out \in Replies \cup NoReplies :
          Finish(r, out) /\ UNCHANGED <<handleVars, req, ran>>
    BY <1>2, NoReplyType
    DEF InnerFails, Panic, Deliver, DeliverFails, Cancel, Placed
  <2>2. TypeOK'
    BY <2>1, FinishType DEF TypeOK, handleVars
  <2>3. Placed'
    BY <2>1, FinishType DEF Placed
  <2> QED
    BY <2>2, <2>3
<1> QED
  BY <1>1, <1>2 DEF ReturnStep

\* Every step keeps the types and the places of requests.
LEMMA TypeStep ==
  ASSUME TypeInv, [Next]_vars
  PROVE  TypeInv'
<1>1. CASE Next
  BY <1>1, TypeOwner, TypeCall, TypeLayer, TypeReturn DEF Next, PollStep
<1>2. CASE UNCHANGED vars
  BY <1>2 DEF TypeInv, TypeOK, Placed, vars, handleVars
<1> QED
  BY <1>1, <1>2

\* TowerStack is type correct: in every stack the program counters, layers,
\* permits and answers of all requests and handles keep their ranges.
THEOREM TypeCorrect == Spec => []TypeOK
<1>1. TypeInv /\ [Next]_vars => TypeInv'
  BY TypeStep
<1>2. TypeInv => TypeOK
  BY DEF TypeInv
<1> QED
  BY <1>1, <1>2, TypeInit, PTL DEF Spec

-----------------------------------------------------------------------------
(* Permits *)

\* A request's future holds the permits of exactly the limit layers around
\* the place the request has come to.
FlightExact ==
  \A r \in Req :
    /\ pc[r] \in {"idle", "waiting"} => pos[r] = 1
    /\ flight[r] = {l \in Limit : l < pos[r]}

PermitInv == TypeInv /\ FlightExact /\ PermitConservation

\* Steps that move no permit and do not change where a request is.
LEMMA NothingMoves ==
  ASSUME FlightExact, PermitConservation,
         UNCHANGED <<permit, free, pos, flight>>,
         \A r \in Req : pc'[r] \in {"idle", "waiting"} => pc[r] \in {"idle", "waiting"}
  PROVE  FlightExact' /\ PermitConservation'
<1>1. FlightExact'
  BY DEF FlightExact
<1>2. PermitConservation'
  BY DEF PermitConservation, Holders, Carriers
<1> QED
  BY <1>1, <1>2

\* Holders and carriers of a permit can be counted.
LEMMA FiniteParts ==
  \A l \in Limit :
    /\ IsFiniteSet(Holders(l)) /\ Cardinality(Holders(l)) \in Nat
    /\ IsFiniteSet(Carriers(l)) /\ Cardinality(Carriers(l)) \in Nat
<1> TAKE l \in Limit
<1>1. IsFiniteSet(Handle) /\ IsFiniteSet(Req)
  BY StackAssumption DEF StackAssumption
<1>2. IsFiniteSet(Holders(l))
  BY <1>1, FS_Subset DEF Holders
<1>3. IsFiniteSet(Carriers(l))
  BY <1>1, FS_Subset DEF Carriers
<1> QED
  BY <1>2, <1>3, FS_CardinalityType

\* Dropping a request's future puts its permits back.
LEMMA FinishConserves ==
  ASSUME PermitInv, NEW r \in Req, NEW out \in Replies \cup NoReplies,
         Finish(r, out), permit' = permit
  PROVE  FlightExact' /\ PermitConservation'
<1> USE DEF PermitInv, TypeInv
<1>1. FlightExact'
  <2> SUFFICES ASSUME NEW s \in Req
               PROVE  /\ pc'[s] \in {"idle", "waiting"} => pos'[s] = 1
                      /\ flight'[s] = {l \in Limit : l < pos'[s]}
    BY DEF FlightExact
  <2>1. CASE s = r
    <3>1. pos'[s] = 1 /\ flight'[s] = {}
      BY <2>1 DEF Finish, TypeOK
    <3>2. \A l \in Limit : ~(l < 1)
      BY LayerFacts
    <3> QED
      BY <3>1, <3>2
  <2>2. CASE s # r
    <3>1. pos'[s] = pos[s] /\ pc'[s] = pc[s] /\ flight'[s] = flight[s]
      BY <2>2 DEF Finish, TypeOK
    <3> QED
      BY <3>1 DEF FlightExact
  <2> QED
    BY <2>1, <2>2
<1>2. ASSUME NEW l \in Limit
      PROVE  free'[l] + Cardinality(Holders(l)') + Cardinality(Carriers(l)') = Cap[l]
  <2>1. Holders(l)' = Holders(l)
    BY DEF Holders
  <2>2. free[l] \in Nat /\ Cap[l] \in Nat
    BY LayerFacts DEF TypeOK
  <2>3. free[l] + Cardinality(Holders(l)) + Cardinality(Carriers(l)) = Cap[l]
    BY DEF PermitConservation
  <2>4. CASE l \in flight[r]
    <3>1. Carriers(l)' = Carriers(l) \ {r} /\ r \in Carriers(l)
      BY <2>4 DEF Carriers, Finish, TypeOK
    <3>2. Cardinality(Carriers(l)') = Cardinality(Carriers(l)) - 1
      BY <3>1, FiniteParts, FS_RemoveElement
    <3>3. free'[l] = free[l] + 1
      BY <2>4 DEF Finish, Released
    <3> QED
      BY <2>1, <2>2, <2>3, <3>2, <3>3, FiniteParts
  <2>5. CASE l \notin flight[r]
    <3>1. Carriers(l)' = Carriers(l)
      BY <2>5 DEF Carriers, Finish, TypeOK
    <3>2. free'[l] = free[l]
      BY <2>5 DEF Finish, Released
    <3> QED
      BY <2>1, <2>3, <3>1, <3>2
  <2> QED
    BY <2>4, <2>5
<1> QED
  BY <1>1, <1>2 DEF PermitConservation

\* poll_ready of a limit layer moves a permit from the semaphore to the
\* handle.
LEMMA PollConserves ==
  ASSUME PermitInv, NEW h \in Handle, PollLimit(h)
  PROVE  FlightExact' /\ PermitConservation'
<1> USE DEF PermitInv, TypeInv
<1>1. FlightExact'
  BY DEF FlightExact, PollLimit
<1> DEFINE k == polled[h]
<1>2. /\ k \in Limit /\ flight' = flight
      /\ \/ UNCHANGED <<permit, free>>
         \/ /\ k \notin permit[h] /\ free[k] > 0
            /\ free' = [free EXCEPT ![k] = @ - 1]
            /\ permit' = [permit EXCEPT ![h] = @ \cup {k}]
  BY DEF PollLimit
<1> HIDE DEF k
<1>3. CASE UNCHANGED <<permit, free>>
  BY <1>1, <1>2, <1>3 DEF PermitConservation, Holders, Carriers
<1>4. CASE /\ k \notin permit[h] /\ free[k] > 0
           /\ free' = [free EXCEPT ![k] = @ - 1]
           /\ permit' = [permit EXCEPT ![h] = @ \cup {k}]
  <2> SUFFICES ASSUME NEW l \in Limit
               PROVE  free'[l] + Cardinality(Holders(l)') + Cardinality(Carriers(l)')
                        = Cap[l]
    BY <1>1 DEF PermitConservation
  <2>1. Carriers(l)' = Carriers(l)
    BY <1>2 DEF Carriers
  <2>2. free[l] \in Nat /\ Cap[l] \in Nat
    BY LayerFacts DEF TypeOK
  <2>3. free[l] + Cardinality(Holders(l)) + Cardinality(Carriers(l)) = Cap[l]
    BY DEF PermitConservation
  <2>4. CASE l = k
    <3>1. Holders(l)' = Holders(l) \cup {h} /\ h \notin Holders(l)
      BY <1>4, <2>4 DEF Holders, TypeOK
    <3>2. Cardinality(Holders(l)') = Cardinality(Holders(l)) + 1
      BY <3>1, FiniteParts, FS_AddElement
    <3>3. free'[l] = free[l] - 1
      BY <1>4, <2>4 DEF TypeOK
    <3> QED
      BY <2>1, <2>2, <2>3, <3>2, <3>3, FiniteParts
  <2>5. CASE l # k
    <3>1. Holders(l)' = Holders(l)
      BY <1>4, <2>5 DEF Holders, TypeOK
    <3>2. free'[l] = free[l]
      BY <1>4, <2>5 DEF TypeOK
    <3> QED
      BY <2>1, <2>3, <3>1, <3>2
  <2> QED
    BY <2>4, <2>5
<1> QED
  BY <1>1, <1>2, <1>3, <1>4

\* call of a limit layer moves it on into the request's future.
LEMMA CallConserves ==
  ASSUME PermitInv, NEW h \in Handle, CallLimit(h), pos[serving[h]] \in permit[h]
  PROVE  FlightExact' /\ PermitConservation'
<1> USE DEF PermitInv, TypeInv
<1> DEFINE r == serving[h]
           k == pos[serving[h]]
<1>1. /\ r \in Req /\ pc[r] = "calling" /\ k \in Limit /\ k \in permit[h]
      /\ permit' = [permit EXCEPT ![h] = @ \ {k}]
      /\ flight' = [flight EXCEPT ![r] = @ \cup {k}]
      /\ pos' = [pos EXCEPT ![r] = k + 1]
      /\ pc' = pc /\ free' = free
  BY DEF CallLimit, Calling, TypeOK
<1>2. k = pos[r]
  OBVIOUS
<1> HIDE DEF r, k
<1>3. FlightExact'
  <2> SUFFICES ASSUME NEW s \in Req
               PROVE  /\ pc'[s] \in {"idle", "waiting"} => pos'[s] = 1
                      /\ flight'[s] = {l \in Limit : l < pos'[s]}
    BY DEF FlightExact
  <2>1. CASE s = r
    <3>1. pos'[s] = k + 1 /\ flight'[s] = flight[r] \cup {k}
      BY <1>1, <2>1 DEF TypeOK
    <3>2. flight[r] = {l \in Limit : l < k}
      BY <1>1, <1>2 DEF FlightExact
    <3>3. \A l \in Limit : l < k + 1 <=> (l < k \/ l = k)
      BY <1>1, LayerFacts
    <3>4. flight'[s] = {l \in Limit : l < pos'[s]}
      BY <1>1, <3>1, <3>2, <3>3
    <3> QED
      BY <1>1, <2>1, <3>4
  <2>2. CASE s # r
    <3>1. pos'[s] = pos[s] /\ flight'[s] = flight[s]
      BY <1>1, <2>2 DEF TypeOK
    <3> QED
      BY <1>1, <3>1 DEF FlightExact
  <2> QED
    BY <2>1, <2>2
<1>4. ASSUME NEW l \in Limit
      PROVE  free'[l] + Cardinality(Holders(l)') + Cardinality(Carriers(l)') = Cap[l]
  <2>1. free[l] + Cardinality(Holders(l)) + Cardinality(Carriers(l)) = Cap[l]
    BY DEF PermitConservation
  <2>2. free[l] \in Nat /\ Cap[l] \in Nat
    BY LayerFacts DEF TypeOK
  <2>3. CASE l = k
    <3>1. Holders(l)' = Holders(l) \ {h} /\ h \in Holders(l)
      BY <1>1, <2>3 DEF Holders, TypeOK
    <3>2. k \notin flight[r]
      BY <1>1, <1>2, LayerFacts DEF FlightExact
    <3>3. Carriers(l)' = Carriers(l) \cup {r} /\ r \notin Carriers(l)
      BY <1>1, <2>3, <3>2 DEF Carriers, TypeOK
    <3>4. Cardinality(Holders(l)') = Cardinality(Holders(l)) - 1
      BY <3>1, FiniteParts, FS_RemoveElement
    <3>5. Cardinality(Carriers(l)') = Cardinality(Carriers(l)) + 1
      BY <3>3, FiniteParts, FS_AddElement
    <3> QED
      BY <1>1, <2>1, <2>2, <3>4, <3>5, FiniteParts
  <2>4. CASE l # k
    <3>1. Holders(l)' = Holders(l) /\ Carriers(l)' = Carriers(l)
      BY <1>1, <2>4 DEF Holders, Carriers, TypeOK
    <3> QED
      BY <1>1, <2>1, <3>1
  <2> QED
    BY <2>3, <2>4
<1> QED
  BY <1>3, <1>4 DEF PermitConservation

\* Dropping a handle puts its permits back.
LEMMA DropConserves ==
  ASSUME PermitInv, NEW h \in Handle, DropHandle(h)
  PROVE  FlightExact' /\ PermitConservation'
<1> USE DEF PermitInv, TypeInv
<1>1. FlightExact'
  BY DEF FlightExact, DropHandle
<1>2. ASSUME NEW l \in Limit
      PROVE  free'[l] + Cardinality(Holders(l)') + Cardinality(Carriers(l)') = Cap[l]
  <2>1. Carriers(l)' = Carriers(l)
    BY DEF Carriers, DropHandle
  <2>2. free[l] \in Nat /\ Cap[l] \in Nat
    BY LayerFacts DEF TypeOK
  <2>3. free[l] + Cardinality(Holders(l)) + Cardinality(Carriers(l)) = Cap[l]
    BY DEF PermitConservation
  <2>4. CASE l \in permit[h]
    <3>1. Holders(l)' = Holders(l) \ {h} /\ h \in Holders(l)
      BY <2>4 DEF Holders, DropHandle, TypeOK
    <3>2. Cardinality(Holders(l)') = Cardinality(Holders(l)) - 1
      BY <3>1, FiniteParts, FS_RemoveElement
    <3>3. free'[l] = free[l] + 1
      BY <2>4 DEF DropHandle, Released
    <3> QED
      BY <2>1, <2>2, <2>3, <3>2, <3>3, FiniteParts
  <2>5. CASE l \notin permit[h]
    <3>1. Holders(l)' = Holders(l)
      BY <2>5 DEF Holders, DropHandle, TypeOK
    <3>2. free'[l] = free[l]
      BY <2>5 DEF DropHandle, Released
    <3> QED
      BY <2>1, <2>3, <3>1, <3>2
  <2> QED
    BY <2>4, <2>5
<1> QED
  BY <1>1, <1>2 DEF PermitConservation

\* Every step keeps each permit in one place.
LEMMA PermitStep ==
  ASSUME PermitInv, [Next]_vars
  PROVE  PermitInv'
<1> USE DEF PermitInv
<1>0. TypeInv'
  BY TypeStep
<1>1. ASSUME NEW h \in Handle, NEW r \in Req, NEW q \in Incoming, Submit(h, r, q)
      PROVE  FlightExact' /\ PermitConservation'
  BY <1>1, NothingMoves DEF Submit, TypeInv, TypeOK
<1>2. ASSUME NEW h \in Handle, PollStep(h) \/ CancelPoll(h)
      PROVE  FlightExact' /\ PermitConservation'
  <2>1. CASE PollLayer(h)
    BY <2>1, NothingMoves DEF PollLayer
  <2>2. CASE PollLimit(h)
    BY <2>2, PollConserves
  <2>3. CASE PollInner(h)
    <3>1. serving[h] \in Req /\ pc[serving[h]] = "waiting"
      BY <2>3 DEF PollInner, Polling, TypeInv, TypeOK
    <3>2. pos' = pos
      BY <2>3, <3>1 DEF PollInner, FlightExact, TypeInv, TypeOK
    <3>3. \A r \in Req : pc'[r] \in {"idle", "waiting"} => pc[r] \in {"idle", "waiting"}
      BY <2>3, <3>1 DEF PollInner, TypeInv, TypeOK
    <3> QED
      BY <2>3, <3>2, <3>3, NothingMoves DEF PollInner, handleVars
  <2>4. CASE PollFails(h) \/ CancelPoll(h)
    <3>1. serving[h] \in Req
      BY <2>4 DEF PollFails, CancelPoll, Polling, TypeInv, TypeOK
    <3>2. PICK out \in NoReplies : Finish(serving[h], out)
      BY <2>4, NoReplyType DEF PollFails, CancelPoll
    <3>3. permit' = permit
      BY <2>4 DEF PollFails, CancelPoll
    <3> QED
      BY <3>1, <3>2, <3>3, FinishConserves
  <2> QED
    BY <1>2, <2>1, <2>2, <2>3, <2>4 DEF PollStep
<1>3. ASSUME NEW h \in Handle, DropHandle(h)
      PROVE  FlightExact' /\ PermitConservation'
  BY <1>3, DropConserves
<1>4. ASSUME NEW h \in Handle, CallStep(h)
      PROVE  FlightExact' /\ PermitConservation'
  <2>0. serving[h] \in Req
    BY <1>4 DEF CallStep, CallLimit, CallLayer, Calling, TypeInv, TypeOK
  <2>1. CASE CallLimit(h) /\ pos[serving[h]] \in permit[h]
    BY <2>1, CallConserves
  <2>2. CASE CallLimit(h) /\ pos[serving[h]] \notin permit[h]
    <3>1. Finish(serving[h], NoReply("unready")) /\ permit' = permit
      BY <2>2 DEF CallLimit
    <3> QED
      BY <2>0, <3>1, NoReplyType, FinishConserves
  <2>3. CASE CallLayer(h)
    BY <2>0, <2>3, NothingMoves DEF CallLayer, TypeInv, TypeOK
  <2> QED
    BY <1>4, <2>1, <2>2, <2>3 DEF CallStep
<1>5. ASSUME NEW r \in Req, LayerStep(r)
      PROVE  FlightExact' /\ PermitConservation'
  <2>1. CASE ConvertFails(r) \/ ForwardLimit(r)
    <3>1. PICK out \in NoReplies : Finish(r, out)
      BY <2>1, NoReplyType DEF ConvertFails, ForwardLimit
    <3>2. permit' = permit
      BY <2>1 DEF ConvertFails, ForwardLimit, handleVars
    <3> QED
      BY <3>1, <3>2, FinishConserves
  <2>2. CASE Forward(r)
    <3>1. pos[r] \in Cloning
      BY <2>2 DEF Forward, Converting, TypeInv, Placed
    <3>2. \A l \in Limit : l < pos[r] + 1 <=> l < pos[r]
      <4> TAKE l \in Limit
      <4>1. l # pos[r]
        BY <3>1, LayerFacts
      <4>2. l \in 1..Depth /\ pos[r] \in 1..Depth /\ Depth \in Nat
        BY <3>1, LayerFacts
      <4> QED
        BY <4>1, <4>2
    <3>3. FlightExact'
      BY <2>2, <3>2 DEF Forward, FlightExact, TypeInv, TypeOK
    <3>4. PermitConservation'
      BY <2>2 DEF Forward, handleVars, PermitConservation, Holders, Carriers
    <3> QED
      BY <3>3, <3>4
  <2>3. CASE Reject(r) \/ Stub(r)
    BY <2>3, NothingMoves
    DEF Reject, Stub, Own, Converting, Respond, handleVars, TypeInv, TypeOK
  <2>4. CASE Execute(r) \/ ForwardLayer(r) \/ ForwardInner(r)
    BY <2>4, NothingMoves
    DEF Execute, ForwardLayer, ForwardInner, Own, Converting, Forwarding,
        handleVars, TypeInv, TypeOK
  <2> QED
    BY <1>5, <2>1, <2>2, <2>3, <2>4 DEF LayerStep
<1>6. ASSUME NEW r \in Req, ReturnStep(r) \/ Cancel(r)
      PROVE  FlightExact' /\ PermitConservation'
  <2>1. CASE HandlerReturns(r) \/ InnerReturns(r)
    BY <2>1, NothingMoves
    DEF HandlerReturns, InnerReturns, Respond, handleVars, TypeInv, TypeOK
  <2>2. CASE InnerFails(r) \/ Panic(r) \/ Deliver(r) \/ DeliverFails(r) \/ Cancel(r)
    <3>1. PICK out \in Replies \cup NoReplies : Finish(r, out) /\ permit' = permit
      BY <2>2, NoReplyType
      DEF InnerFails, Panic, Deliver, DeliverFails, Cancel, handleVars, TypeInv, Placed
    <3> QED
      BY <3>1, FinishConserves
  <2> QED
    BY <1>6, <2>1, <2>2 DEF ReturnStep
<1>7. CASE UNCHANGED vars
  BY <1>0, <1>7, NothingMoves DEF vars, handleVars
<1> QED
  BY <1>0, <1>1, <1>2, <1>3, <1>4, <1>5, <1>6, <1>7 DEF Next

\* At first every permit is in its semaphore.
LEMMA PermitInit == Init => PermitInv
<1> SUFFICES ASSUME Init PROVE PermitInv
  OBVIOUS
<1>1. FlightExact
  <2>1. \A l \in Limit : ~(l < 1)
    BY LayerFacts
  <2> QED
    BY <2>1 DEF Init, FlightExact
<1>2. PermitConservation
  <2> SUFFICES ASSUME NEW l \in Limit
               PROVE  free[l] + Cardinality(Holders(l)) + Cardinality(Carriers(l)) = Cap[l]
    BY DEF PermitConservation
  <2>1. Holders(l) = {} /\ Carriers(l) = {}
    BY DEF Init, Holders, Carriers
  <2>2. Cardinality({}) = 0
    BY FS_EmptySet
  <2>3. free[l] = Cap[l] /\ Cap[l] \in Nat
    BY LayerFacts DEF Init
  <2> QED
    BY <2>1, <2>2, <2>3
<1> QED
  BY <1>1, <1>2, TypeInit DEF PermitInv

\* The inductive invariant behind the next two theorems.
THEOREM PermitInvariant == Spec => []PermitInv
BY PermitInit, PermitStep, PTL DEF Spec

\* Permits are never lost or duplicated, in any stack, whatever its requests
\* do: cancelled futures, panics, failed conversions and dropped handles
\* give back exactly what they held.
THEOREM PermitsConserved == Spec => []PermitConservation
<1>1. PermitInv => PermitConservation
  BY DEF PermitInv
<1> QED
  BY <1>1, PermitInvariant, PTL

\* A limit layer keeps its promise wherever it is in the stack: the services
\* inside it never execute more requests than it has permits.
THEOREM LimitsHold == Spec => []InFlightWithinCap
<1>1. PermitInv => InFlightWithinCap
  <2> SUFFICES ASSUME PermitInv, NEW l \in Limit
               PROVE  Cardinality(Past(l)) <= Cap[l]
    BY DEF InFlightWithinCap
  <2>1. Past(l) \subseteq Carriers(l)
    BY DEF Past, Carriers, PermitInv, FlightExact
  <2>2. Cardinality(Past(l)) \in Nat /\ Cardinality(Past(l)) <= Cardinality(Carriers(l))
    BY <2>1, FiniteParts, FS_Subset, FS_CardinalityType
  <2>3. free[l] \in Nat /\ Cap[l] \in Nat
    BY LayerFacts DEF PermitInv, TypeInv, TypeOK
  <2>4. free[l] + Cardinality(Holders(l)) + Cardinality(Carriers(l)) = Cap[l]
    BY DEF PermitInv, PermitConservation
  <2> QED
    BY <2>2, <2>3, <2>4, FiniteParts
<1> QED
  BY <1>1, PermitInvariant, PTL
=============================================================================
