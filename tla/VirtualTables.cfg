SPECIFICATION Spec
CONSTANTS
  t1 = t1
  t2 = t2
  s1 = s1
  s2 = s2
  Tables = {t1}
  Stmts = {s1, s2}
  MaxInst = 2
  MaxModules = 2
  NULL = NULL
SYMMETRY Symmetry
CHECK_DEADLOCK FALSE
INVARIANTS
  ReferencesCounted
  TransactionsAgree
  AllSyncedFirst
  NothingLeft
PROPERTIES
  ObjectContract
