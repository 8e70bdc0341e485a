SPECIFICATION Spec
CONSTANTS
  Chars <- MCChars
  MaxString = 5
  Pow63 <- MCPow63
  StringModes = {"BYTES", "NAIVE", "FALLBACK", "STRICT"}
  AnyBytes = FALSE
  MaxBytes = 5
  MaxTokens = 3
  r1 = r1
  r2 = r2
  r3 = r3
  r4 = r4
  c1 = c1
  Rows = {r1, r2, r3, r4}
  Falsy = {}
  Given = {0, 2}
  Cursors = {c1}
  MaxRows = 4
  Hole = Hole
  NumCols = 2
  MaxDepth = 2
  MaxGroupRows = 2
  MaxGroups = 2
  NULL = NULL
SYMMETRY Symmetry
INVARIANTS
  IntegersAreExact
  OffsetsInBytes
  ScanReturnsRowsOnce
  ObjectsAreReleased
  CalledInOrder
  ResultIsOfTheGroup
CHECK_DEADLOCK FALSE
