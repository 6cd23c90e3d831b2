SPECIFICATION WsSpec
CONSTANTS
  Keys = {k1}
  Token = k1
  Capacity = 1
  MaxMessages = 2
INVARIANTS
  OnlyTheLastIsLost
  EnderIsHeardOut
PROPERTY HangUpEnds
CHECK_DEADLOCK FALSE
