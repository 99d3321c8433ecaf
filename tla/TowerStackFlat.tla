--------------------------- MODULE TowerStackFlat ---------------------------
(***************************************************************************)
(* The stack of layers as one flat router: however deep it is, whatever    *)
(* layers stand between the apis, and in whichever order concurrent        *)
(* requests go through it, a caller sees a service per request.            *)
(***************************************************************************)
EXTENDS TowerStack

Declaring(q) == {l \in Layer : Declares(l, q.method)}

\* The outermost layer that declares the method, or the innermost service.
OwnerOf(q) ==
  IF Declaring(q) = {} THEN Inner
  ELSE CHOOSE l \in Declaring(q) : \A m \in Declaring(q) : l <= m

\* What becomes of a request that gets there.
VerdictOf(q) ==
  LET parsed == try_from(Api[OwnerOf(q)], q) IN
  IF ~q.readable THEN "drop"
  ELSE IF OwnerOf(q) = Inner THEN "serve"
  ELSE IF ~parsed.ok THEN parsed.code
  ELSE IF IsSubscription(Api[OwnerOf(q)], parsed.variant.item)
       THEN "NotImplemented"
       ELSE "serve"

owner == [q \in Incoming |-> OwnerOf(q)]
verdict == [q \in Incoming |-> VerdictOf(q)]
open == [r \in Req |-> pc[r] # "idle"]

Flat == INSTANCE FlatRouter
          WITH Owner <- owner, Verdict <- verdict, Fallback <- Inner,
               asked <- req, reply <- answer

\* The layers together do what one router would that knew every api: the
\* request is executed or refused by the service it is for, with the refusal
\* that service has for it, and a panic or an unready service tells truly
\* whether anything was executed.
StackIsFlat == Flat!Spec
=============================================================================
