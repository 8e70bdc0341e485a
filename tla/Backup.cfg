SPECIFICATION Spec
CONSTANTS
  Files <- MCFiles
  Handles <- MCHandles
  Others <- MCOthers
  Home <- MCHome
  MaxWrites = 1
INVARIANTS
  ReadsAreStable
  NoLockLeft
PROPERTIES
  CallsReturn
  ImplementsAtomicCopy
CHECK_DEADLOCK FALSE
