SPECIFICATION DoSpec
CONSTANTS
  Writes = {w1, w2}
  Names = {a}
  Handles = {q}
  Returning = {}
  Hazards <- CoherentHazards
  MaxSavepoints = 2
  MaxStatements = 3
  AnyOrder = FALSE
INVARIANTS
  PromisesKept
  AutoCommitMeansNoTransaction
PROPERTIES
  ImplementsContract
