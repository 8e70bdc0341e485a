SPECIFICATION DataSpec
CONSTANTS
  Rows = {r1, r2, r3}
  Falsy = {r1}
  Given = {0}
  Cursors = {c1}
  MaxRows = 3
  Hole = Hole
INVARIANTS
  DeleteRemovesSelected
  DeletedRowsAreGone
  LastRowidNamesRow
  RowidSelectsRow
  InsertKeepsRows
CHECK_DEADLOCK FALSE
