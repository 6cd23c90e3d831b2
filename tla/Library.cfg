SPECIFICATION MCSpec
CONSTANTS
  Tasks = {t1, t2}
  Names = {"a", "b"}
  Libraries <- MCLibraries
  None = None
  Fuel = 3
  MaxCost = 2
  PageSize = 4
  Offset = 2
  Lengths = {0, 3, 6, 10, 11}
  MaxLoads = 2
  Callers = {c1, c2, c3}
  FailureThreshold = 2
  OpenDuration = 2
  Reloads = {r1, r2}
  MaxEdits = 2
  Nothing = Nothing
INVARIANTS
  FieldsAgree
  PayloadsFit
  OpenWhileUsed
PROPERTIES
  KeepsContract
  HealedUpstreamCloses
  WearsOut
  StoresWhatWasWhole
  NeverBackAlone
  LastReloadWins
\* The plugins' loads are bounded, and with them all that follows.
CHECK_DEADLOCK FALSE
