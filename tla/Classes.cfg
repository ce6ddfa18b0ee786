SPECIFICATION Spec
CONSTANTS
  Name = {na, nb}
  Sealable = {2}
  Getter = {"x", "y", "e"}
  SlotLists <- MCSlotLists
  Redundant = FALSE
  Unprepared = FALSE
  MaxSupers = 2
  MaxClasses = 5
SYMMETRY Names
INVARIANTS TypeOK SlotsInPlace SuperclassesFirst MonotonicLists
CHECK_DEADLOCK FALSE
