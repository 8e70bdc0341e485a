SPECIFICATION Spec
CONSTANTS
  MaxPage = 4
  OldPages = 2
  MaxWrites = 7
  Settings <- KeptSettings
CONSTRAINT FewPages
INVARIANTS
  ReadersSeeCommitted
PROPERTIES
  ImplementsAtomicFile
CHECK_DEADLOCK FALSE
