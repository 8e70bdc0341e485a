SPECIFICATION Spec
CONSTANTS
  MaxPage = 4
  OldPages = 2
  MaxWrites = 7
  Settings <- RemainsSettings
CONSTRAINT FewPages
INVARIANTS
  RollbackRestoresCache
CHECK_DEADLOCK FALSE
