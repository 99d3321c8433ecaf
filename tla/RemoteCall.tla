----------------------------- MODULE RemoteCall -----------------------------
(***************************************************************************)
(* What the clients promise to those who call through them: a caller has a *)
(* server of its own, that does what it is asked at most once, and says so *)
(* once. There are no ids, no connections and no other callers.            *)
(***************************************************************************)
CONSTANTS
  Caller,      \* tasks that call
  Request,     \* what they may ask
  Successes    \* of a request: what was executed and returned, if it succeeds

VARIABLES
  asked,     \* the request of a caller, if it is waiting
  outcome    \* what it will be told, if that is settled

vars == <<asked, outcome>>

Unsuccessful == [success |-> FALSE]
Successful(s) == [success |-> TRUE, did |-> s]

Init ==
  /\ asked = [c \in Caller |-> <<>>]
  /\ outcome = [c \in Caller |-> <<>>]

Ask(c) ==
  /\ asked[c] = <<>>
  /\ \E q \in Request : asked' = [asked EXCEPT ![c] = <<q>>]
  /\ UNCHANGED outcome

Settle(c, o) ==
  /\ asked[c] # <<>> /\ outcome[c] = <<>>
  /\ outcome' = [outcome EXCEPT ![c] = <<o>>]
  /\ UNCHANGED asked

\* The request is executed, and the caller will get what it returned.
Succeed(c) ==
  /\ asked[c] # <<>>
  /\ \E s \in Successes[asked[c][1]] : Settle(c, Successful(s))

\* It is refused, fails or gets lost.
Fail(c) == Settle(c, Unsuccessful)

\* The caller is told, or gives up.
End(c) ==
  /\ asked[c] # <<>>
  /\ asked' = [asked EXCEPT ![c] = <<>>]
  /\ outcome' = [outcome EXCEPT ![c] = <<>>]

Next == \E c \in Caller : Ask(c) \/ Succeed(c) \/ Fail(c) \/ End(c)

Spec == Init /\ [][Next]_vars
=============================================================================
