SPECIFICATION DoSpec
CONSTANTS
  Writes = {w1, w2}
  Names = {a}
  Handles = {}
  Returning = {}
  Hazards = {}
  MaxSavepoints = 1
  MaxStatements = 2
  AnyOrder = TRUE
INVARIANTS
  AutoCommitIsOffDuringATransaction
  RowsAreThoseAffected
PROPERTIES
  AnotherTransactionBegins
