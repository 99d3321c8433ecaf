------------------------ MODULE TowerStackFlatProofs ------------------------
(***************************************************************************)
(* Proof that a stack of layers, of any depth, with any apis and any layers *)
(* between them, implements the flat router.                               *)
(***************************************************************************)
EXTENDS TowerStackFlat, TowerStackDispatchProofs

\* Nothing gets past the outermost library layer that cannot be read.
Readable(r) ==
  /\ pc[r] = "calling" => \A m \in Cloning : pos[r] <= m
  /\ pc[r] = "converting" => req[r].readable \/ Outermost(pos[r])
  /\ pc[r] \in {"forwarding", "handling", "inner", "responding"} =>
       req[r].readable

ReadableInv == \A r \in Req : Readable(r)

FlatInv == PermitInv /\ DispatchInv /\ ReadableInv

LEMMA ReadableInit == Init => ReadableInv
BY DEF Init, ReadableInv, Readable

\* Only the request a step is about has to be looked at.
LEMMA ReadableOne ==
  ASSUME ReadableInv, NEW r \in Req, Readable(r)',
         \A s \in Req : s # r =>
           pc'[s] = pc[s] /\ pos'[s] = pos[s] /\ req'[s] = req[s]
  PROVE  ReadableInv'
BY DEF ReadableInv, Readable, Outermost

\* A request that is not in the layers any more, or not yet.
LEMMA ReadableOut ==
  ASSUME TypeOK, ReadableInv, NEW r \in Req, NEW out, Finish(r, out), req' = req
  PROVE  ReadableInv'
<1>1. Readable(r)'
  BY DEF Finish, TypeOK, Readable
<1> QED
  BY <1>1, ReadableOne DEF Finish, TypeOK

LEMMA ReadableOwner ==
  ASSUME PermitInv, ReadableInv, NEW h \in Handle,
         \/ \E r \in Req, q \in Incoming : Submit(h, r, q)
         \/ PollStep(h) \/ CallStep(h) \/ CancelPoll(h) \/ DropHandle(h)
  PROVE  ReadableInv'
<1> USE DEF PermitInv, TypeInv
<1> DEFINE r == serving[h]
<1>1. ASSUME NEW s \in Req, NEW q \in Incoming, Submit(h, s, q)
      PROVE  ReadableInv'
  <2>1. Readable(s)'
    BY <1>1 DEF Submit, TypeOK, Readable
  <2> QED
    BY <1>1, <2>1, ReadableOne DEF Submit, TypeOK
<1>2. CASE PollLayer(h) \/ PollLimit(h) \/ DropHandle(h)
  BY <1>2 DEF PollLayer, PollLimit, DropHandle, ReadableInv, Readable, Outermost
<1>3. CASE PollInner(h)
  <2>1. PICK s \in Req : /\ pos' = [pos EXCEPT ![s] = 1] /\ req' = req
                         /\ pc' = [pc EXCEPT ![s] = "calling"]
    BY <1>3 DEF PollInner, Polling, TypeOK
  <2>2. \A m \in Cloning : 1 <= m
    BY LayerNumbers
  <2>3. Readable(s)'
    BY <2>1, <2>2 DEF TypeOK, Readable
  <2> QED
    BY <2>1, <2>3, ReadableOne DEF TypeOK
<1>4. CASE PollFails(h) \/ CancelPoll(h)
  <2>1. PICK out : r \in Req /\ Finish(r, out) /\ req' = req
    BY <1>4 DEF PollFails, CancelPoll, Polling, TypeOK
  <2> QED
    BY <2>1, ReadableOut
<1>5. CASE CallLimit(h) /\ pos[r] \in permit[h]
  <2>1. PICK s \in Req :
          /\ pc[s] = "calling" /\ pos[s] \in Limit
          /\ pos' = [pos EXCEPT ![s] = pos[s] + 1] /\ UNCHANGED <<pc, req>>
    BY <1>5 DEF CallLimit, Calling, TypeOK
  <2>2. \A m \in Cloning : pos[s] + 1 <= m
    <3> TAKE m \in Cloning
    <3>1. pos[s] <= m /\ m # pos[s]
      BY <2>1, LayerFacts DEF ReadableInv, Readable
    <3> QED
      BY <2>1, <3>1, LayerNumbers
  <2>3. Readable(s)'
    BY <2>1, <2>2 DEF TypeOK, Readable
  <2> QED
    BY <2>1, <2>3, ReadableOne DEF TypeOK
<1>6. CASE CallLimit(h) /\ pos[r] \notin permit[h]
  <2>1. r \in Req /\ Finish(r, NoReply("unready")) /\ req' = req
    BY <1>6 DEF CallLimit, Calling, TypeOK
  <2> QED
    BY <2>1, ReadableOut
<1>7. CASE CallLayer(h)
  <2>1. PICK s \in Req :
          /\ pc[s] = "calling" /\ pos[s] \in Cloning
          /\ pc' = [pc EXCEPT ![s] = "converting"] /\ UNCHANGED <<pos, req>>
    BY <1>7 DEF CallLayer, Calling, TypeOK
  <2>2. Outermost(pos[s])
    BY <2>1 DEF ReadableInv, Readable, Outermost
  <2>3. Readable(s)'
    BY <2>1, <2>2 DEF TypeOK, Readable, Outermost
  <2> QED
    BY <2>1, <2>3, ReadableOne DEF TypeOK
<1> QED
  BY <1>1, <1>2, <1>3, <1>4, <1>5, <1>6, <1>7 DEF PollStep, CallStep

LEMMA ReadableFuture ==
  ASSUME PermitInv, ReadableInv, NEW r \in Req,
         LayerStep(r) \/ ReturnStep(r) \/ Cancel(r)
  PROVE  ReadableInv'
<1> USE DEF PermitInv, TypeInv
<1>0. Readable(r)
  BY DEF ReadableInv
<1>1. CASE \/ ConvertFails(r) \/ ForwardLimit(r) \/ InnerFails(r) \/ Panic(r)
           \/ Deliver(r) \/ DeliverFails(r) \/ Cancel(r)
  <2>1. PICK out : Finish(r, out) /\ req' = req
    BY <1>1
    DEF ConvertFails, ForwardLimit, InnerFails, Panic, Deliver, DeliverFails, Cancel
  <2> QED
    BY <2>1, ReadableOut
<1>2. CASE \/ Forward(r) \/ Reject(r) \/ Stub(r) \/ Execute(r)
           \/ ForwardLayer(r) \/ ForwardInner(r)
           \/ HandlerReturns(r) \/ InnerReturns(r)
  <2>1. req[r].readable
    BY <1>0, <1>2
    DEF Forward, Reject, Stub, Execute, Own, ForwardLayer, ForwardInner,
        Forwarding, HandlerReturns, InnerReturns, Readable, Converting, Unreadable
  <2>2. PICK ph \in {"forwarding", "converting", "handling", "inner", "responding"} :
          pc' = [pc EXCEPT ![r] = ph] /\ req' = req
    BY <1>2
    DEF Forward, Reject, Stub, Execute, ForwardLayer, ForwardInner,
        HandlerReturns, InnerReturns, Respond
  <2>3. \A s \in Req : s # r => pos'[s] = pos[s]
    BY <1>2
    DEF Forward, Reject, Stub, Execute, ForwardLayer, ForwardInner,
        HandlerReturns, InnerReturns, Respond, TypeOK
  <2>4. Readable(r)'
    BY <2>1, <2>2 DEF TypeOK, Readable
  <2> QED
    BY <2>2, <2>3, <2>4, ReadableOne DEF TypeOK
<1> QED
  BY <1>1, <1>2 DEF LayerStep, ReturnStep

LEMMA ReadableStep ==
  ASSUME PermitInv, ReadableInv, [Next]_vars
  PROVE  ReadableInv'
<1>1. CASE Next
  BY <1>1, ReadableOwner, ReadableFuture DEF Next
<1>2. CASE UNCHANGED vars
  BY <1>2 DEF vars, ReadableInv, Readable, Outermost
<1> QED
  BY <1>1, <1>2

-----------------------------------------------------------------------------
(* Who a request is for *)

\* Where a layer takes a request, it is for that layer.
LEMMA OwnerHere ==
  ASSUME FlatInv, NEW r \in Req, pc[r] # "idle", pos[r] \in Cloning,
         Declares(pos[r], req[r].method)
  PROVE  owner[req[r]] = pos[r] /\ pos[r] # Inner
<1>1. /\ pos[r] \in Layer /\ req[r] \in Incoming /\ pos[r] \in Nat
      /\ pos[r] # Inner
  BY LayerNumbers DEF FlatInv, PermitInv, TypeInv, TypeOK, Cloning
<1>2. \A l \in Layer : l < pos[r] => ~Declares(l, req[r].method)
  BY DEF FlatInv, DispatchInv, Sound, Clear
<1>3. Layer \subseteq Nat
  BY LayerFacts DEF Layer
<1> DEFINE D == Declaring(req[r])
<1>4. pos[r] \in D /\ \A l \in D : l \in Nat /\ ~(l < pos[r])
  BY <1>1, <1>2, <1>3 DEF Declaring
<1>5. \A l \in D : pos[r] <= l
  BY <1>1, <1>4
<1>6. \A l \in D : (\A m \in D : l <= m) => l = pos[r]
  BY <1>1, <1>4, <1>5
<1>7. OwnerOf(req[r]) = CHOOSE l \in D : \A m \in D : l <= m
  BY <1>4 DEF OwnerOf
<1> HIDE DEF D
<1>8. OwnerOf(req[r]) = pos[r]
  BY <1>4, <1>5, <1>6, <1>7
<1> QED
  BY <1>1, <1>8 DEF owner

\* What reaches the innermost service is for it, and to be served.
LEMMA OwnerInner ==
  ASSUME FlatInv, NEW r \in Req, pc[r] \in {"forwarding", "inner"},
         pos[r] = Inner
  PROVE  owner[req[r]] = Inner /\ verdict[req[r]] = "serve"
<1>1. req[r] \in Incoming /\ req[r].readable
  BY DEF FlatInv, PermitInv, TypeInv, TypeOK, ReadableInv, Readable
<1>2. \A l \in Layer : l < Inner => ~Declares(l, req[r].method)
  BY DEF FlatInv, DispatchInv, Sound, Clear
<1>3. \A l \in Layer : l < Inner
  BY LayerFacts DEF Layer
<1>4. Declaring(req[r]) = {}
  BY <1>2, <1>3 DEF Declaring
<1> QED
  BY <1>1, <1>4 DEF OwnerOf, VerdictOf, owner, verdict

\* What a layer takes: served, or refused with the refusal it has for it.
LEMMA VerdictHere ==
  ASSUME FlatInv, NEW r \in Req, Own(r)
  PROVE  /\ ~Parsed(r).ok => verdict[req[r]] = Parsed(r).code
         /\ Parsed(r).ok =>
              verdict[req[r]] =
                IF IsSubscription(Api[pos[r]], Parsed(r).variant.item)
                THEN "NotImplemented" ELSE "serve"
<1>1. /\ req[r] \in Incoming /\ pos[r] \in Cloning
      /\ Declares(pos[r], req[r].method) /\ pc[r] # "idle"
  BY DEF Own, Converting, FlatInv, PermitInv, TypeInv, TypeOK, Placed
<1>2. OwnerOf(req[r]) = pos[r] /\ pos[r] # Inner
  BY <1>1, OwnerHere DEF owner
<1>3. req[r].readable
  BY DEF Own, Converting, Unreadable, FlatInv, ReadableInv, Readable
<1> QED
  BY <1>1, <1>2, <1>3 DEF verdict, VerdictOf, Parsed

-----------------------------------------------------------------------------
(* Every step is a step of the flat router, or none *)

FlatStep == [Flat!Next]_(Flat!vars)

\* Steps that a caller cannot see.
LEMMA FlatStutter ==
  ASSUME TypeOK, UNCHANGED <<req, ran, answer>>,
         \A r \in Req : pc'[r] = "idle" <=> pc[r] = "idle"
  PROVE  FlatStep
<1>1. open' = open
  BY DEF open
<1> QED
  BY <1>1 DEF FlatStep, Flat!vars

\* A request ends.
LEMMA FlatClose ==
  ASSUME FlatInv, NEW r \in Req, NEW out, Finish(r, out), UNCHANGED <<req, ran>>,
         pc[r] # "idle",
         \/ out = answer[r] /\ out # NoReply("pending")
         \/ \E why \in {"failed", "cancelled", "panicked", "unready"} :
              /\ out = NoReply(why)
              /\ why = "panicked" =>
                   answer[r] = NoReply("pending") /\ ran[r] # <<>>
              /\ why = "unready" =>
                   answer[r] = NoReply("pending") /\ ran[r] = <<>>
  PROVE  FlatStep
<1>1. /\ open[r] /\ open' = [open EXCEPT ![r] = FALSE]
  BY DEF open, Finish, FlatInv, PermitInv, TypeInv, TypeOK
<1>2. answer' = [answer EXCEPT ![r] = out] /\ answer \in [Req -> Replies \cup NoReplies]
  BY DEF Finish, FlatInv, PermitInv, TypeInv, TypeOK
<1>3. CASE out = answer[r] /\ out # NoReply("pending")
  <2>1. answer' = answer
    BY <1>2, <1>3
  <2>2. Flat!Close(r)
    BY <1>1, <1>3, <2>1 DEF Flat!Close, Flat!Pending, Flat!NoReply, NoReply
  <2> QED
    BY <2>2 DEF FlatStep, Flat!Next
<1>4. CASE ~(out = answer[r] /\ out # NoReply("pending"))
  <2>1. Flat!Close(r)
    BY <1>1, <1>2, <1>4 DEF Flat!Close, Flat!Pending, Flat!NoReply, NoReply
  <2> QED
    BY <2>1 DEF FlatStep, Flat!Next
<1> QED
  BY <1>3, <1>4

\* A service begins to execute a request that is for it.
LEMMA FlatExecute ==
  ASSUME FlatInv, NEW r \in Req, NEW ph \in {"handling", "inner"},
         pc[r] \in {"converting", "forwarding"},
         pc' = [pc EXCEPT ![r] = ph],
         ran' = [ran EXCEPT ![r] = Append(@, pos[r])],
         UNCHANGED <<req, answer>>,
         owner[req[r]] = pos[r], verdict[req[r]] = "serve"
  PROVE  FlatStep
<1>1. ran[r] = <<>> /\ answer[r] = NoReply("pending")
  BY DEF FlatInv, DispatchInv, Sound, History
<1>2. open[r] /\ open' = open
  BY DEF open, FlatInv, PermitInv, TypeInv, TypeOK
<1>3. ran' = [ran EXCEPT ![r] = <<owner[req[r]]>>]
  BY <1>1, OneElement
<1>4. Flat!Execute(r)
  BY <1>1, <1>2, <1>3 DEF Flat!Execute, Flat!Pending, Flat!NoReply, NoReply
<1> QED
  BY <1>4 DEF FlatStep, Flat!Next

\* The service that executed it answers.
LEMMA FlatAnswer ==
  ASSUME FlatInv, NEW r \in Req, NEW kind \in {"success", "error"}, NEW id \in Id,
         pc[r] \in {"handling", "inner"},
         pc' = [pc EXCEPT ![r] = "responding"],
         answer' = [answer EXCEPT ![r] = Reply(kind, id, pos[r])],
         UNCHANGED <<req, ran>>,
         owner[req[r]] = pos[r],
         pos[r] = Inner \/ id = req[r].id
  PROVE  FlatStep
<1>1. ran[r] = <<owner[req[r]]>> /\ answer[r] = NoReply("pending")
  BY DEF FlatInv, DispatchInv, Sound, History, PermitInv, TypeInv, Placed
<1>2. open[r] /\ open' = open
  BY DEF open, FlatInv, PermitInv, TypeInv, TypeOK
<1>3. Flat!Answer(r)
  BY <1>1, <1>2 DEF Flat!Answer, Flat!Pending, Flat!NoReply, NoReply, Flat!Reply, Reply
<1> QED
  BY <1>3 DEF FlatStep, Flat!Next

\* The service a request is for refuses it.
LEMMA FlatRefuse ==
  ASSUME FlatInv, NEW r \in Req, Own(r),
         NEW kind \in {"InvalidParams", "MethodNotFound", "NotImplemented"},
         Respond(r, kind), ran' = ran, verdict[req[r]] = kind
  PROVE  FlatStep
<1>1. /\ pc[r] = "converting" /\ pos[r] \in Cloning
      /\ Declares(pos[r], req[r].method)
  BY DEF Own, Converting, FlatInv, PermitInv, TypeInv, Placed
<1>2. ran[r] = <<>> /\ answer[r] = NoReply("pending")
  BY <1>1 DEF FlatInv, DispatchInv, Sound, History
<1>3. open[r] /\ open' = open
  BY <1>1 DEF open, Respond, FlatInv, PermitInv, TypeInv, TypeOK
<1>4. owner[req[r]] = pos[r]
  BY <1>1, OwnerHere
<1>5. Flat!Refuse(r)
  BY <1>2, <1>3, <1>4
  DEF Flat!Refuse, Flat!Refusal, Flat!Pending, Flat!NoReply, NoReply,
      Flat!Reply, Reply, Respond
<1> QED
  BY <1>5 DEF FlatStep, Flat!Next

LEMMA FlatOwner ==
  ASSUME FlatInv, NEW h \in Handle,
         \/ \E r \in Req, q \in Incoming : Submit(h, r, q)
         \/ PollStep(h) \/ CallStep(h) \/ CancelPoll(h) \/ DropHandle(h)
  PROVE  FlatStep
<1> USE DEF FlatInv, PermitInv, TypeInv
<1> DEFINE r == serving[h]
<1>1. ASSUME NEW s \in Req, NEW q \in Incoming, Submit(h, s, q)
      PROVE  FlatStep
  <2>1. ~open[s] /\ open' = [open EXCEPT ![s] = TRUE]
    BY <1>1 DEF Submit, open, TypeOK
  <2>2. Flat!Ask(s, q)
    BY <1>1, <2>1 DEF Submit, Flat!Ask, Flat!NoReply, NoReply
  <2> QED
    BY <2>2 DEF FlatStep, Flat!Next
<1>2. CASE \/ PollLayer(h) \/ PollLimit(h) \/ DropHandle(h) \/ PollInner(h)
           \/ CallLayer(h)
           \/ (CallLimit(h) /\ pos[r] \in permit[h])
  <2>1. UNCHANGED <<req, ran, answer>>
    BY <1>2 DEF PollLayer, PollLimit, DropHandle, PollInner, CallLayer, CallLimit
  <2>2. \A s \in Req : pc'[s] = "idle" <=> pc[s] = "idle"
    BY <1>2
    DEF PollLayer, PollLimit, DropHandle, PollInner, Polling, CallLayer,
        CallLimit, Calling, TypeOK
  <2> QED
    BY <2>1, <2>2, FlatStutter
<1>3. CASE PollFails(h) \/ CancelPoll(h)
  <2>1. r \in Req /\ pc[r] # "idle" /\ UNCHANGED <<req, ran>>
    BY <1>3 DEF PollFails, CancelPoll, Polling, TypeOK
  <2>2. PICK why \in {"failed", "cancelled"} : Finish(r, NoReply(why))
    BY <1>3 DEF PollFails, CancelPoll
  <2> QED
    BY <2>1, <2>2, FlatClose
<1>4. CASE CallLimit(h) /\ pos[r] \notin permit[h]
  <2>1. /\ r \in Req /\ pc[r] = "calling" /\ UNCHANGED <<req, ran>>
        /\ Finish(r, NoReply("unready"))
    BY <1>4 DEF CallLimit, Calling, TypeOK
  <2>2. ran[r] = <<>> /\ answer[r] = NoReply("pending")
    BY <2>1 DEF DispatchInv, Sound, History
  <2> QED
    BY <2>1, <2>2, FlatClose
<1> QED
  BY <1>1, <1>2, <1>3, <1>4 DEF PollStep, CallStep

LEMMA FlatFuture ==
  ASSUME FlatInv, NEW r \in Req, LayerStep(r) \/ ReturnStep(r) \/ Cancel(r)
  PROVE  FlatStep
<1> USE DEF FlatInv, PermitInv, TypeInv
<1>0. /\ History(r) /\ ExecutedRight(r)
      /\ req[r] \in Incoming /\ req[r].id \in Id
  BY StackAssumption DEF DispatchInv, Sound, StackAssumption, TypeOK
<1>1. CASE ConvertFails(r) \/ InnerFails(r) \/ DeliverFails(r) \/ Cancel(r)
  <2>1. PICK why \in {"failed", "cancelled"} : Finish(r, NoReply(why))
    BY <1>1 DEF ConvertFails, InnerFails, DeliverFails, Cancel
  <2>2. pc[r] # "idle" /\ UNCHANGED <<req, ran>>
    BY <1>1
    DEF ConvertFails, Converting, InnerFails, DeliverFails, Cancel, Suspended
  <2> QED
    BY <2>1, <2>2, FlatClose
<1>2. CASE ForwardLimit(r)
  <2>1. /\ pc[r] = "forwarding" /\ UNCHANGED <<req, ran>>
        /\ Finish(r, NoReply("unready"))
    BY <1>2 DEF ForwardLimit, Forwarding
  <2>2. ran[r] = <<>> /\ answer[r] = NoReply("pending")
    BY <1>0, <2>1 DEF History
  <2> QED
    BY <2>1, <2>2, FlatClose
<1>3. CASE Panic(r)
  <2>1. /\ pc[r] \in {"handling", "inner"} /\ UNCHANGED <<req, ran>>
        /\ Finish(r, NoReply("panicked"))
    BY <1>3 DEF Panic
  <2>2. answer[r] = NoReply("pending")
        /\ (ran[r] = <<pos[r]>> \/ ran[r] = <<Inner>>)
    BY <1>0, <2>1 DEF History
  <2>3. ran[r] # <<>>
    BY <2>2, OneElement
  <2> QED
    BY <2>1, <2>2, <2>3, FlatClose
<1>4. CASE Deliver(r)
  <2>1. /\ pc[r] = "responding" /\ UNCHANGED <<req, ran>>
        /\ Finish(r, answer[r])
    BY <1>4 DEF Deliver
  <2>2. answer[r] # NoReply("pending")
    BY <2>1, NoReplyIsNone DEF Placed
  <2> QED
    BY <2>1, <2>2, FlatClose
<1>5. CASE Forward(r) \/ ForwardLayer(r)
  <2>1. UNCHANGED <<req, ran, answer>>
    BY <1>5 DEF Forward, ForwardLayer
  <2>2. \A s \in Req : pc'[s] = "idle" <=> pc[s] = "idle"
    BY <1>5 DEF Forward, Converting, ForwardLayer, Forwarding, TypeOK
  <2> QED
    BY <2>1, <2>2, FlatStutter
<1>6. CASE Reject(r)
  <2>1. /\ Own(r) /\ ~Parsed(r).ok /\ ran' = ran
        /\ Respond(r, Parsed(r).code)
        /\ Parsed(r).code \in {"InvalidParams", "MethodNotFound"}
    BY <1>6, TryFromCodes DEF Reject, Parsed
  <2>2. verdict[req[r]] = Parsed(r).code
    BY <2>1, VerdictHere
  <2> QED
    BY <2>1, <2>2, FlatRefuse
<1>7. CASE Stub(r)
  <2>1. Own(r) /\ ran' = ran /\ Respond(r, "NotImplemented")
    BY <1>7 DEF Stub
  <2>2. verdict[req[r]] = "NotImplemented"
    BY <1>7, <2>1, VerdictHere DEF Stub
  <2> QED
    BY <2>1, <2>2, FlatRefuse
<1>8. CASE Execute(r)
  <2>1. /\ Own(r) /\ pc[r] = "converting" /\ pos[r] \in Cloning
        /\ Declares(pos[r], req[r].method)
    BY <1>8 DEF Execute, Own, Converting, Placed
  <2>2. owner[req[r]] = pos[r]
    BY <2>1, OwnerHere
  <2>3. verdict[req[r]] = "serve"
    BY <1>8, <2>1, VerdictHere DEF Execute
  <2>4. /\ pc' = [pc EXCEPT ![r] = "handling"]
        /\ ran' = [ran EXCEPT ![r] = Append(@, pos[r])]
        /\ UNCHANGED <<req, answer>>
    BY <1>8 DEF Execute
  <2> QED
    BY <2>1, <2>2, <2>3, <2>4, FlatExecute
<1>9. CASE ForwardInner(r)
  <2>1. /\ pc[r] = "forwarding" /\ pos[r] = Inner
        /\ pc' = [pc EXCEPT ![r] = "inner"]
        /\ ran' = [ran EXCEPT ![r] = Append(@, pos[r])]
        /\ UNCHANGED <<req, answer>>
    BY <1>9 DEF ForwardInner, Forwarding
  <2> QED
    BY <2>1, OwnerInner, FlatExecute
<1>10. CASE HandlerReturns(r)
  <2>1. PICK kind \in {"success", "error"} :
          /\ pc[r] = "handling" /\ UNCHANGED <<req, ran>>
          /\ pc' = [pc EXCEPT ![r] = "responding"]
          /\ answer' = [answer EXCEPT ![r] = Reply(kind, req[r].id, pos[r])]
    BY <1>10 DEF HandlerReturns, Respond
  <2>2. ran[r] = <<pos[r]>> /\ pos[r] \in Cloning /\ pos[r] # Inner
    BY <1>0, <2>1, LayerNumbers DEF History, Placed
  <2>3. Takes(pos[r], req[r])
    BY <1>0, <2>2, OneElement DEF ExecutedRight
  <2>4. owner[req[r]] = pos[r]
    BY <2>1, <2>2, <2>3, OwnerHere DEF Takes
  <2> QED
    BY <1>0, <2>1, <2>4, FlatAnswer
<1>11. CASE InnerReturns(r)
  <2>1. pc[r] = "inner" /\ pos[r] = Inner
    BY <1>11 DEF InnerReturns, Placed
  <2>2. PICK kind \in {"success", "error"}, id \in Id :
          /\ UNCHANGED <<req, ran>>
          /\ pc' = [pc EXCEPT ![r] = "responding"]
          /\ answer' = [answer EXCEPT ![r] = Reply(kind, id, pos[r])]
    BY <1>11, <2>1 DEF InnerReturns
  <2> QED
    BY <2>1, <2>2, OwnerInner, FlatAnswer
<1> QED
  BY <1>1, <1>2, <1>3, <1>4, <1>5, <1>6, <1>7, <1>8, <1>9, <1>10, <1>11
  DEF LayerStep, ReturnStep

LEMMA FlatNext ==
  ASSUME FlatInv, [Next]_vars
  PROVE  FlatStep
<1>1. CASE Next
  BY <1>1, FlatOwner, FlatFuture DEF Next
<1>2. CASE UNCHANGED vars
  BY <1>2, FlatStutter DEF vars, FlatInv, PermitInv, TypeInv
<1> QED
  BY <1>1, <1>2

LEMMA FlatInit == Init => Flat!Init
BY DEF Init, Flat!Init, open, NoReply, Flat!NoReply

\* However deep the stack and whatever layers and apis are in it, it does what
\* one router would that knew every api: a request is executed once or refused,
\* by the outermost service that declares it, and its end tells which.
THEOREM StackImplementsFlat == Spec => StackIsFlat
<1>1. Init => ReadableInv
  BY ReadableInit
<1>2. PermitInv /\ ReadableInv /\ [Next]_vars => ReadableInv'
  BY ReadableStep
<1>3. PermitInv /\ DispatchInv /\ ReadableInv /\ [Next]_vars => [Flat!Next]_(Flat!vars)
  BY FlatNext DEF FlatInv, FlatStep
<1>4. Init => Flat!Init
  BY FlatInit
<1>5. Spec => []PermitInv
  BY PermitInvariant
<1>6. Spec => []DispatchInv
  BY DispatchInvariant
<1>7. Spec => []ReadableInv
  BY <1>1, <1>2, <1>5, PTL DEF Spec
<1>8. Spec => Flat!Init /\ [][Flat!Next]_(Flat!vars)
  BY <1>3, <1>4, <1>5, <1>6, <1>7, PTL DEF Spec
<1> QED
  BY <1>8 DEF StackIsFlat, Flat!Spec
=============================================================================
