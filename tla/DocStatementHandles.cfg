SPECIFICATION Spec
CONSTANTS
  Handles = {h1}
  Addrs = {a1}
  NULL = NULL
  MaxNodes = 1
  BindInactive = TRUE
INVARIANTS
  DisconnectedHandlesLeaveEngineAlone
