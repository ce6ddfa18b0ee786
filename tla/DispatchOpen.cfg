SPECIFICATION Spec
CONSTANTS
  g1 = g1
  g2 = g2
  oo = oo
  oo2 = oo2
  aa = aa
  ba = ba
  ab = ab
  Method = {oo, aa, ba, ab}
  GF = {g1}
  Class <- MCClass
  CPL <- MCCPL
  SmallInteger = "small"
  IntegerClass = "integer"
  Arity = 1
  Specs <- OneSpecs
  Args <- OneArgs
  GFSpecs <- OneGFSpecs
  MaxNM = 2
  MaxDepth = 2
INVARIANTS LiveListed NextMethodDescends
CHECK_DEADLOCK FALSE
