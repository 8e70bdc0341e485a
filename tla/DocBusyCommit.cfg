SPECIFICATION Spec
CONSTANTS
  Writes = {w1, w2}
  Names = {a}
  Handles = {q}
  Returning = {}
  Hazards = {"CommitBusy"}
  MaxSavepoints = 1
INVARIANTS
  AutoCommitMeansNoTransaction
