SPECIFICATION FairSpec
CONSTANTS
  k1 = k1
  k2 = k2
  k3 = k3
  c1 = c1
  c2 = c2
  c3 = c3
  Key = {k1, k2, k3}
  Content = {c1, c2, c3}
  hash <- MCHash
  Mutable = {k1}
  fixed <- MCFixed
  Value = {v1, v2}
  NoValue = NoValue
  NoContent = NoContent
  Size = 3
  MaxEntries = 3
  MaxCalls = 1
INVARIANTS TypeOK AllGiven
PROPERTIES UntouchedFound GivenOnce LoopEnds Implements
CHECK_DEADLOCK FALSE
