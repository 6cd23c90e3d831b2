SPECIFICATION MCSpec
CONSTANTS
  MaxEvents = 2
  MaxBodyBytes = 1
  MaxRequests = 1
  Exempt <- MCExempt
  Bodies <- MCBodies
  Answers <- MCAnswers
  Streams <- MCStreams
  a = a
  b = b
  scalar = scalar
  other = other
  Removed = Removed
  Names = {a, b}
  Documents <- MCDocuments
  BodyRules <- MCBodyRules
  MaxRules = 0
INVARIANT SystemIsKept
\* The process exits.
CHECK_DEADLOCK FALSE
