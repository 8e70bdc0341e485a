SPECIFICATION Spec
CONSTANTS
  Writes = {w1, w2}
  Names = {a}
  Handles = {q, r}
  Returning = {r}
  Hazards <- AllHazards
  MaxSavepoints = 2
INVARIANTS
  NothingUnasked
PROPERTIES
  LazyBegin
  CommitMakesDurable
  RollbackDiscards
  DisconnectRollsBack
