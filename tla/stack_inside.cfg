SPECIFICATION Spec
CONSTANTS
  Handle = {h1, h2, h3}
  Kept = {h1}
  Req = {r1, r2, r3}
  Incoming <- FewIncoming
  Id <- OneId
  Kind <- MiddleLimit
  Cap <- MiddleCap
  Api <- MiddleApi
  None = None
  x = x
  y = y
INVARIANT PermitConservation
PROPERTY CallSpendsReservation
SYMMETRY Symmetry
