----------------------------- MODULE TokenBucket -----------------------------
(***************************************************************************)
(* The token bucket of src/core/ratelimit/token_bucket.rs on LocalStore.   *)
(*                                                                         *)
(* Time advances in ticks, each worth Rate whole tokens: readings of the   *)
(* clock between two ticks, which give the code's f64 a fraction of a      *)
(* token, are left out.                                                    *)
(***************************************************************************)
EXTENDS Integers, LocalStore

CONSTANTS
  Burst,        \* burst
  Rate,         \* rps: the tokens a tick is worth
  MaxTime,      \* bounds of the instance: the clock,
  MaxChecks,    \* the calls of check,
  MaxEvictions  \* and the evictions of one key

ASSUME BucketAssumption ==
  /\ Burst \in Nat
  /\ Rate \in Nat
  /\ MaxTime \in Nat /\ MaxChecks \in Nat /\ MaxEvictions \in Nat
  /\ Absent \notin [tokens : 0 .. Burst, last_refill : Nat]

VARIABLES
  now,       \* the monotonic clock
  at,        \* `now` as a task's check read it
  checks,    \* history: the number of calls,
  granted,   \* what each key was allowed,
  evictions, \* how often it was evicted,
  raced      \* and whether two checks of it ever overlapped

vars == <<store, pc, key, held, now, at, checks, granted, evictions, raced>>

Bucket == [tokens : 0 .. Burst, last_refill : Nat]

TypeOK ==
  /\ StoreTypeOK(Bucket)
  /\ now \in Nat
  /\ at \in [Tasks -> Nat]
  /\ checks \in Nat
  /\ granted \in [Keys -> Nat]
  /\ evictions \in [Keys -> Nat]
  /\ raced \in [Keys -> BOOLEAN]

Init ==
  /\ StoreInit
  /\ now = 0
  /\ at = [t \in Tasks |-> 0]
  /\ checks = 0
  /\ granted = [k \in Keys |-> 0]
  /\ evictions = [k \in Keys |-> 0]
  /\ raced = [k \in Keys |-> FALSE]

Smaller(a, b) == IF a < b THEN a ELSE b

(* Instant::duration_since saturates: another task may have refilled at a  *)
(* later reading of the clock.                                             *)
Elapsed(b, t) == IF at[t] > b.last_refill THEN at[t] - b.last_refill ELSE 0

(* Variant, as in Breaker: a refill that forgets its time. *)
RefillForgetful(b, t) ==
  [tokens |-> Smaller(Burst, b.tokens + Elapsed(b, t) * Rate),
   last_refill |-> b.last_refill]

Refill(b, t) ==
  [tokens |-> Smaller(Burst, b.tokens + Elapsed(b, t) * Rate),
   last_refill |-> at[t]]

(* Variant: the last token is never spent. *)
HasTwoTokens(b) == b.tokens > 1

HasToken(b) == b.tokens >= 1

Check(t, k) ==
  /\ checks < MaxChecks
  /\ BeginUpdate(t, k)
  /\ at' = [at EXCEPT ![t] = now]
  /\ checks' = checks + 1
  /\ raced' = [raced EXCEPT ![k] = @ \/ InFlight(k) # {}]
  /\ UNCHANGED <<now, granted, evictions>>

(* Variant: a new client starts with nothing. *)
GetEmpty(t) ==
  /\ GetOrInit(t, [tokens |-> 0, last_refill |-> at[t]])
  /\ UNCHANGED <<now, at, checks, granted, evictions, raced>>

Get(t) ==
  /\ GetOrInit(t, [tokens |-> Burst, last_refill |-> at[t]])
  /\ UNCHANGED <<now, at, checks, granted, evictions, raced>>

InsertFull(t) ==
  /\ InsertInit(t)
  /\ UNCHANGED <<now, at, checks, granted, evictions, raced>>

WriteRefilled(t) ==
  /\ WriteBack(t, Refill(held[t], t))
  /\ UNCHANGED <<now, at, checks, granted, evictions, raced>>

(* Decision::Allow, which stores the bucket once more. *)
Allow(t) ==
  /\ pc[t] = "decide"
  /\ HasToken(held[t])
  /\ ReturnInserting(t, [held[t] EXCEPT !.tokens = @ - 1])
  /\ at' = [at EXCEPT ![t] = 0]
  /\ granted' = [granted EXCEPT ![key[t]] = @ + 1]
  /\ UNCHANGED <<now, checks, evictions, raced>>

(* Decision::Deny. *)
Deny(t) ==
  /\ pc[t] = "decide"
  /\ ~HasToken(held[t])
  /\ ReturnOnly(t)
  /\ at' = [at EXCEPT ![t] = 0]
  /\ UNCHANGED <<now, checks, granted, evictions, raced>>

EvictBucket(k) ==
  /\ evictions[k] < MaxEvictions
  /\ Evict(k)
  /\ evictions' = [evictions EXCEPT ![k] = @ + 1]
  /\ UNCHANGED <<now, at, checks, granted, raced>>

Tick ==
  /\ now < MaxTime
  /\ now' = now + 1
  /\ UNCHANGED <<store, pc, key, held, at, checks, granted, evictions, raced>>

Next ==
  \/ \E t \in Tasks, k \in Keys : Check(t, k)
  \/ \E t \in Tasks : Get(t) \/ InsertFull(t) \/ WriteRefilled(t)
  \/ \E t \in Tasks : Allow(t) \/ Deny(t)
  \/ \E k \in Keys : EvictBucket(k)
  \/ Tick

Spec == Init /\ [][Next]_vars

-----------------------------------------------------------------------------
(* Overlapping checks lose each other's writes, and evictions lose whole   *)
(* buckets, but never at the client's cost: no copy of a key's bucket, in  *)
(* the store or in a task's hands, lacks a token that was not granted.     *)
NoTokenVanishes ==
  /\ \A k \in Keys :
       store[k] # Absent => store[k].tokens + granted[k] >= Burst
  /\ \A t \in Tasks :
       held[t] # Absent => held[t].tokens + granted[key[t]] >= Burst

(* A client is turned away only after it was granted a full burst. *)
DenyMeansBurstSpent ==
  [][\A t \in Tasks : Deny(t) => granted[key[t]] >= Burst]_vars

(* The limit itself: burst and rate bound what a key is granted, once more *)
(* for every eviction of its bucket, as long as no two checks of that key  *)
(* overlap.  Checks of other keys do not matter.                           *)
BudgetUnlessRaced ==
  \A k \in Keys :
    raced[k] \/ granted[k] <= Burst * (1 + evictions[k]) + Rate * now
=============================================================================
