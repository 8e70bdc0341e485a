SPECIFICATION AggrSpec
CONSTANTS
  NumCols = 2
  MaxDepth = 2
  MaxGroupRows = 2
  MaxGroups = 2
  NULL = NULL
INVARIANTS
  FinalizedWhenComplete
