SPECIFICATION Spec
CONSTANTS
  Global <- MCGlobal
  Program <- MCProgram
  MaxForms = 2
INVARIANTS
  TypeOK
  LexicalScoping
  ScopesLeft
CHECK_DEADLOCK FALSE
