SPECIFICATION BreakerSpec
CONSTANTS
  Callers = {c1, c2}
  FailureThreshold = 1
  OpenDuration = 1
PROPERTY OpenLasts
