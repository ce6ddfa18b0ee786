SPECIFICATION SpecDefine
CONSTANTS
  g1 = g1
  g2 = g2
  oo = oo
  oo2 = oo2
  aa = aa
  ba = ba
  ab = ab
  Method = {oo, oo2, aa, ba, ab}
  GF = {g1}
  Class <- MCClass
  CPL <- MCCPL
  SmallInteger = "small"
  IntegerClass = "integer"
  Arity = 2
  Specs <- ClassSpecs
  Args <- ClassArgs
  GFSpecs <- MCGFSpecs
  MaxNM = 2
  MaxDepth = 2
INVARIANTS TypeOK LiveListed CacheCoherent LiveChainsCurrent NextMethodDescends
PROPERTY LeastMethodRuns
CHECK_DEADLOCK FALSE
