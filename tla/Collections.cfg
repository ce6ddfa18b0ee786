SPECIFICATION FairSpec
CONSTANTS
  a = a
  b = b
  Element = {a, b, False}
  False = False
  Failed = Failed
  Datum = {a, b}
  MaxPairs = 3
  First = {0, 1}
  MaxSize = 4
  Keys = {1, 2, 3}
  Bound = 4
INVARIANTS HeapRestored ListsAnswer OthersKept SequencesAnswer
PROPERTIES LengthEnds
CHECK_DEADLOCK FALSE
