SPECIFICATION Spec
CONSTANTS
  Handle = {h1, h2}
  Kept = {h1}
  Req = {r1, r2}
  Incoming <- AllIncoming
  Id <- Ids
  Kind <- OuterLimits
  Cap <- OuterCap
  Api <- OuterApi
  None = None
  x = x
  y = y
INVARIANTS TypeOK DispatchedOnce AnswerExplained
PROPERTY StackIsFlat
