SPECIFICATION Spec
CONSTANTS
  Value <- MCValue
  ResultType <- MCResultType
  OwedBlocks = TRUE
  CleanupExits = FALSE
  MaxBlocks = 2
  MaxDepth = 11
  MaxMethods = 3
  MaxResults = 11
  MaxRuns = 2
PROPERTY DeclaredResults
CHECK_DEADLOCK FALSE
