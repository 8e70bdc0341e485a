SPECIFICATION Spec
CONSTANTS
  Handles = {h1, h2}
  Modes = {pv, unicode}
  PV = pv
  Slots = {"aggr", "coll", "trace", "profile", "vtab"}
  MaxSv = 2
  MaxDepth = 1
  NULL = NULL
INVARIANTS
  TraceIsInvoked
  VtabFollowsHandle
  AggregateFollowsHandle
  CollationFollowsHandle
CHECK_DEADLOCK FALSE
