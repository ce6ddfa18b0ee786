SPECIFICATION Spec
CONSTANTS
  Module <- MCModule
  Visited = {"dylan-user", "A"}
  Name <- MCName
  Kernel = "k"
  HashOrder <- MCOrder
  Method = {x, y}
  Forms <- MCForms
  MaxModules = 4
  MaxCells = 3
  MaxGFs = 2
SYMMETRY Methods
INVARIANT ConstantsKeep
CHECK_DEADLOCK FALSE
