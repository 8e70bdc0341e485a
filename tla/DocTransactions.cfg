SPECIFICATION Spec
CONSTANTS
  Writes = {w1, w2}
  Names = {a}
  Handles = {q}
  Returning = {}
  Hazards = {"BeginBusy"}
  MaxSavepoints = 1
PROPERTIES
  CommitStatementRestoresAutoCommit
  FailedBeginKeepsAutoCommit
  BeginIssuedInternally
  RollbackProhibitedWhileSelecting
