SPECIFICATION Spec
CONSTANTS
  Value <- MCValue
  ResultType <- MCResultType
  OwedBlocks = FALSE
  CleanupExits = FALSE
  MaxBlocks = 2
  MaxDepth = 11
  MaxMethods = 3
  MaxResults = 11
  MaxRuns = 2
INVARIANTS TypeOK EnoughResults LeftCleaned CleanupOnce
PROPERTY DeclaredResults
CHECK_DEADLOCK FALSE
