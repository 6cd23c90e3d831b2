CONSTANTS
  Absent = Absent
  Tasks = {t1, t2}
  Keys = {k1, k2}
  Burst = 2
  Rate = 1
  MaxTime = 2
  MaxChecks = 5
  MaxEvictions = 1
SPECIFICATION Spec
INVARIANTS
  NoTokenVanishes
  BudgetUnlessRaced
PROPERTY DenyMeansBurstSpent
CHECK_DEADLOCK FALSE
