SPECIFICATION FairSpec
CONSTANTS
  Handle = {h1, h2, h3}
  Kept = {}
  Req = {r1, r2}
  Incoming <- FewIncoming
  Id <- OneId
  Kind <- OuterLimits
  Cap <- OuterCap
  Api <- OuterApi
  None = None
  x = x
  y = y
INVARIANT NeverStuck
PROPERTIES Advances Resolves
