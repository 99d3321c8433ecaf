SPECIFICATION Spec
CONSTANTS
  Caller = {c1, c2}
  Ticket = {t1, t2, t3}
  Api <- AliasApi
  Calls <- AliasCalls
  Raw <- OwnRequests
  None = None
  x = x
  y = y
  z = z
INVARIANT EverySuccessReaches
SYMMETRY Symmetry
