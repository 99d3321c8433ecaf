----------------------------- MODULE FlatRouter -----------------------------
(***************************************************************************)
(* What a stack of api layers promises to those who call it, without the   *)
(* layers: one router that knows of everything that can arrive which       *)
(* service it is for, and whether that service serves or refuses it.       *)
(***************************************************************************)
EXTENDS Sequences

CONSTANTS
  Req,        \* requests that may be under way together
  Incoming,   \* what arrives, with an id
  Id,         \* ids that may occur in a response
  Owner,      \* the service that what arrives is for
  Verdict,    \* "serve", "drop" if it cannot be read, or a refusal
  Fallback    \* the service that nothing declares, and that picks its ids

VARIABLES
  open,    \* whether a request is under way
  asked,   \* what arrived
  ran,     \* the services that began to execute it
  reply    \* its response, or why there is none

vars == <<open, asked, ran, reply>>

Refusal == {"InvalidParams", "MethodNotFound", "NotImplemented"}
Reply(kind, id, by) == [kind |-> kind, id |-> id, by |-> by]
NoReply(why) == [kind |-> why]

Pending(r) == open[r] /\ reply[r] = NoReply("pending")

Init ==
  /\ open = [r \in Req |-> FALSE]
  /\ asked \in [Req -> Incoming]
  /\ ran = [r \in Req |-> <<>>]
  /\ reply = [r \in Req |-> NoReply("pending")]

Ask(r, q) ==
  /\ ~open[r]
  /\ open' = [open EXCEPT ![r] = TRUE]
  /\ asked' = [asked EXCEPT ![r] = q]
  /\ ran' = [ran EXCEPT ![r] = <<>>]
  /\ reply' = [reply EXCEPT ![r] = NoReply("pending")]

\* The one service the request is for begins to execute it, once.
Execute(r) ==
  /\ Pending(r) /\ ran[r] = <<>>
  /\ Verdict[asked[r]] = "serve"
  /\ ran' = [ran EXCEPT ![r] = <<Owner[asked[r]]>>]
  /\ UNCHANGED <<open, asked, reply>>

\* It answers under the request's id, unless it is the fallback.
Answer(r) ==
  /\ Pending(r) /\ ran[r] = <<Owner[asked[r]]>>
  /\ \E kind \in {"success", "error"}, id \in Id :
       /\ Owner[asked[r]] = Fallback \/ id = asked[r].id
       /\ reply' = [reply EXCEPT ![r] = Reply(kind, id, Owner[asked[r]])]
  /\ UNCHANGED <<open, asked, ran>>

\* It refuses the request, which nothing has executed and nothing will.
Refuse(r) ==
  /\ Pending(r) /\ ran[r] = <<>>
  /\ Verdict[asked[r]] \in Refusal
  /\ reply' = [reply EXCEPT
       ![r] = Reply(Verdict[asked[r]], asked[r].id, Owner[asked[r]])]
  /\ UNCHANGED <<open, asked, ran>>

\* The request ends: with its response, or without one. A panic is the
\* executing service's, an unready service was never called.
Close(r) ==
  /\ open[r]
  /\ open' = [open EXCEPT ![r] = FALSE]
  /\ \/ ~Pending(r) /\ UNCHANGED reply
     \/ \E why \in {"failed", "cancelled", "panicked", "unready"} :
          /\ why = "panicked" => Pending(r) /\ ran[r] # <<>>
          /\ why = "unready" => Pending(r) /\ ran[r] = <<>>
          /\ reply' = [reply EXCEPT ![r] = NoReply(why)]
  /\ UNCHANGED <<asked, ran>>

Next ==
  \E r \in Req :
    \/ \E q \in Incoming : Ask(r, q)
    \/ Execute(r) \/ Answer(r) \/ Refuse(r) \/ Close(r)

Spec == Init /\ [][Next]_vars
=============================================================================
