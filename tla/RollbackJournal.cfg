SPECIFICATION Spec
CONSTANTS
  MaxPage = 3
  OldPages = 2
  MaxWrites = 6
  Settings <- MCSettings
CONSTRAINT FewPages
INVARIANTS
  ReadersSeeCommitted
PROPERTIES
  WriteAheadOfFile
  ReturnedCommitIsSafe
  ImplementsAtomicFile
CHECK_DEADLOCK FALSE
