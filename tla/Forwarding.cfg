SPECIFICATION MCSpec
CONSTANTS
  MaxEvents = 4
  MaxBodyBytes = 1
  MaxRequests = 2
  Exempt <- MCExempt
  Bodies <- MCBodies
  Answers <- MCAnswers
  Streams <- MCStreams
  a = a
  b = b
  scalar = scalar
  other = other
  Removed = Removed
  Names = {a, b}
  Documents <- MCDocuments
  BodyRules <- MCBodyRules
  MaxRules = 2
INVARIANTS
  NothingReadIsLost
  FailureIsReported
  AnswersAreTagged
  NoOversizedBody
  RequestSurvives
  TextArrives
  RulesAreLocal
PROPERTY StopCompletes
\* The process exits.
CHECK_DEADLOCK FALSE
