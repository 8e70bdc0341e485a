SPECIFICATION Spec
CONSTANTS
  MaxPage = 3
  OldPages = 2
  MaxWrites = 5
  Settings <- DocSettings
INVARIANTS
  AnySubsetRestores
CHECK_DEADLOCK FALSE
