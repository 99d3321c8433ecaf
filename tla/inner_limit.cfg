SPECIFICATION Spec
CONSTANTS
  Handle = {h1}
  Kept = {h1}
  Req = {r1}
  Incoming <- FewIncoming
  Id <- OneId
  Kind <- InnerLimit
  Cap <- InnerCap
  Api <- InnerApi
  None = None
  x = x
  y = y
INVARIANT NeverUnready
