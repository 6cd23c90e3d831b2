SPECIFICATION CanarySpec
CONSTANTS
  Initial <- MCInitial
  Tables <- MCTables
  Requests <- MCRequests
  Upper <- MCUpper
  MaxBuilds = 1
  UpstreamIds = {"u1", "u2", "u3"}
  Modulus = 8
  Hashes = {0, 1, 2, 3, 4, 5, 6, 7, 8, 9, 10, 11, 12}
  NodeHash <- MCNodeHash
  Sessions = {0, 5, 7}
INVARIANTS
  MatchIsBest
  NormalizeResolves
  WeightsAreShares
  ChosenIsOffered
PROPERTY RingMovesLittle
