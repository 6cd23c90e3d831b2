CONSTANTS
  Absent = Absent
  Tasks = {t1, t2}
  Keys = {k1, k2}
  Rps = 2
  Window = 1
  MaxTime = 3
  MaxChecks = 4
  MaxEvictions = 1
SPECIFICATION Spec
INVARIANTS
  QueueIsBounded
  WindowUnlessRaced
CHECK_DEADLOCK FALSE
