SPECIFICATION Spec
CONSTANTS
  None = None
  Tasks = {t1, t2}
  Capacity = 1
  Rate = 1
  Limit = 2
  Window = 4
  Numbers = {1, 2}
  MaxSkew = 1
  MaxDelay = 1
  MaxTime = 8
  MaxChecks = 5
SYMMETRY TaskSymmetry
INVARIANTS
  BudgetButForRewinds
  WindowButForBlur
\* The bounds let the system stop.
CHECK_DEADLOCK FALSE
