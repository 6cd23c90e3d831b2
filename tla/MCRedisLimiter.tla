---------------------------- MODULE MCRedisLimiter ---------------------------
(* RedisLimiter with two tasks, which differ in nothing but their clocks.  *)
EXTENDS RedisLimiter, TLC

TaskSymmetry == Permutations(Tasks)

=============================================================================
