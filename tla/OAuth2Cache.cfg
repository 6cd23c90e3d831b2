SPECIFICATION FairSpec
CONSTANTS
  None = None
  Tasks = {t1, t2}
  RefreshTokens = {r1, r2, r3, r4, r5, r6}
  Lifetime = 2
  TTL = 3
  MaxDelay = 1
INVARIANT CachedRefreshWorks
PROPERTIES
  AliveButForTheWay
  Recovers
