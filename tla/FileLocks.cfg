SPECIFICATION FairSpec
CONSTANTS
  a = a
  b = b
  i = i
  d = d
  Conns = {a, i, d}
  Mode <- MCModeSome
  TimeOuts = {a, d}
INVARIANTS
  SnapshotHolds
  IdleHoldsNothing
  NoCircularWait
PROPERTIES
  ImmediateNeverRefused
  WriterIsNotStarved
