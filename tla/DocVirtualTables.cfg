SPECIFICATION Spec
CONSTANTS
  t1 = t1
  t2 = t2
  s1 = s1
  s2 = s2
  Tables = {t1}
  Stmts = {s1}
  MaxInst = 1
  MaxModules = 1
  NULL = NULL
CHECK_DEADLOCK FALSE
INVARIANTS
  RollbackToIsSignalled
