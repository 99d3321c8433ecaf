SPECIFICATION Spec
CONSTANTS
  Handle = {h1, h2, h3}
  Kept = {h1}
  Req = {r1, r2, r3}
  Incoming <- FewIncoming
  Id <- OneId
  Kind <- OuterLimits
  Cap <- OuterCap
  Api <- OuterApi
  None = None
  x = x
  y = y
INVARIANTS PermitConservation InFlightWithinCap NeverUnready
SYMMETRY Symmetry
