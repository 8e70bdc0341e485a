SPECIFICATION DoSpec
CONSTANTS
  Writes = {w1, w2}
  Names = {a}
  Handles = {r}
  Returning = {r}
  Hazards <- AllHazards
  MaxSavepoints = 1
  MaxStatements = 3
  AnyOrder = TRUE
PROPERTIES
  LaterStatementsAreInTheTransaction
  FailureLeavesAllToRollback
