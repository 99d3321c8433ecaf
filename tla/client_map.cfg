SPECIFICATION Spec
CONSTANTS
  Caller = {c1, c2}
  Ticket = {t1, t2, t3}
  Api <- SmallApi
  Calls <- SmallCalls
  Raw <- OwnRequests
  None = None
  x = x
  y = y
  z = z
INVARIANT EveryTypedCallServed
SYMMETRY Symmetry
