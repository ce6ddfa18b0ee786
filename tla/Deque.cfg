SPECIFICATION HSpec
CONSTANTS
  Value = {a, b}
  Index <- MCIndex
  MaxMade = 2
  MaxEntries = 3
  LastOfEmptied = FALSE
INVARIANTS TypeOK Linked CurrentKey Walking
PROPERTY Implements
SYMMETRY Values
CHECK_DEADLOCK FALSE
