SPECIFICATION Spec
CONSTANTS
  Handles = {h1, h2}
  Modes = {pv, unicode}
  PV = pv
  Slots = {"func", "aggr", "profile", "vtab"}
  MaxSv = 2
  MaxDepth = 2
  NULL = NULL
SYMMETRY Symmetry
INVARIANTS
  SlotsAlive
  RunningIsRegistered
  RunningIsKept
CHECK_DEADLOCK FALSE
