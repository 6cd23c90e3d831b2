SPECIFICATION FairGateway
CONSTANTS
  None = None
  old = old
  new = new
  bucket = bucket
  window = window
  Requests = {q1, q2}
  Configs <- MCConfigs
  Known <- MCKnown
  DefaultLimit <- MCDefaultLimit
  Algorithms <- MCAlgorithms
  MaxRequests = 4
  MaxReloads = 1
  MaxEvictions = 1
INVARIANTS
  OneLimiterUnlessRaced
  AllowedIsRecorded
PROPERTY EveryoneIsAnswered
\* The bounds let the system stop.
CHECK_DEADLOCK FALSE
