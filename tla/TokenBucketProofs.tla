-------------------------- MODULE TokenBucketProofs --------------------------
(***************************************************************************)
(* The token bucket for any number of tasks, keys, checks and evictions:   *)
(* whatever writes of overlapping checks are lost, no client is denied     *)
(* before it was granted a full burst.  TypeOK /\ NoTokenVanishes is       *)
(* inductive: it speaks of every copy of a bucket, the stored one and      *)
(* those in the hands of tasks that may still write them back.  And the    *)
(* other way round, a key whose checks never overlapped is granted no more *)
(* than its bursts and its refill: every copy of its bucket accounts for   *)
(* all grants (BudgetInv).                                                 *)
(***************************************************************************)
EXTENDS TokenBucket, TLAPS

USE BucketAssumption, AbsentAssumption

(* A refill yields a bucket, with at least the tokens it started from. *)
LEMMA RefillBounds ==
  ASSUME NEW t \in Tasks, at \in [Tasks -> Nat], NEW b \in Bucket
  PROVE  /\ Refill(b, t) \in Bucket
         /\ Refill(b, t).tokens >= b.tokens
<1>1. Elapsed(b, t) \in Nat
  BY DEF Elapsed, Bucket
<1>2. Elapsed(b, t) * Rate \in Nat
  BY <1>1
<1>3. QED
  BY <1>2 DEF Refill, Smaller, Bucket

LEMMA InitType == Init => TypeOK
  BY DEF Init, StoreInit, TypeOK, StoreTypeOK

LEMMA NextType == TypeOK /\ [Next]_vars => TypeOK'
<1> SUFFICES ASSUME TypeOK, [Next]_vars
             PROVE  TypeOK'
  OBVIOUS
<1> USE DEF TypeOK, StoreTypeOK
<1>1. ASSUME NEW t \in Tasks, NEW k \in Keys, Check(t, k)
      PROVE  TypeOK'
  BY <1>1 DEF Check, BeginUpdate
<1>2. ASSUME NEW t \in Tasks, Get(t)
      PROVE  TypeOK'
  <2>1. [tokens |-> Burst, last_refill |-> at[t]] \in Bucket
    BY DEF Bucket
  <2>2. QED
    BY <1>2, <2>1 DEF Get, GetOrInit, Bucket
<1>3. ASSUME NEW t \in Tasks, InsertFull(t)
      PROVE  TypeOK'
  BY <1>3 DEF InsertFull, InsertInit
<1>4. ASSUME NEW t \in Tasks, WriteRefilled(t)
      PROVE  TypeOK'
  <2>1. held[t] \in Bucket /\ key[t] \in Keys
    BY <1>4 DEF WriteRefilled, WriteBack
  <2>2. Refill(held[t], t) \in Bucket
    BY <2>1, RefillBounds
  <2>3. QED
    BY <1>4, <2>1, <2>2 DEF WriteRefilled, WriteBack, Bucket
<1>5. ASSUME NEW t \in Tasks, Allow(t)
      PROVE  TypeOK'
  <2>1. held[t] \in Bucket /\ key[t] \in Keys
    BY <1>5 DEF Allow
  <2>2. [held[t] EXCEPT !.tokens = @ - 1] \in Bucket
    BY <1>5, <2>1 DEF Allow, HasToken, Bucket
  <2>3. QED
    BY <1>5, <2>1, <2>2 DEF Allow, ReturnInserting, Return
<1>6. ASSUME NEW t \in Tasks, Deny(t)
      PROVE  TypeOK'
  BY <1>6 DEF Deny, ReturnOnly, Return
<1>7. ASSUME NEW k \in Keys, EvictBucket(k)
      PROVE  TypeOK'
  BY <1>7 DEF EvictBucket, Evict
<1>8. CASE Tick
  BY <1>8 DEF Tick
<1>9. CASE UNCHANGED vars
  BY <1>9 DEF vars
<1>10. QED
  BY <1>1, <1>2, <1>3, <1>4, <1>5, <1>6, <1>7, <1>8, <1>9 DEF Next

(* The store and the tasks hold well-formed buckets, never fuller than     *)
(* the burst of token_bucket.rs.                                           *)
THEOREM TypeCorrect == Spec => []TypeOK
  BY InitType, NextType, PTL DEF Spec

-----------------------------------------------------------------------------
LEMMA NextNoTokenVanishes ==
  TypeOK /\ TypeOK' /\ NoTokenVanishes /\ [Next]_vars => NoTokenVanishes'
<1> SUFFICES ASSUME TypeOK, TypeOK', NoTokenVanishes, [Next]_vars
             PROVE  NoTokenVanishes'
  OBVIOUS
<1> USE DEF TypeOK, StoreTypeOK, NoTokenVanishes
<1>1. ASSUME NEW t \in Tasks, NEW k \in Keys, Check(t, k)
      PROVE  NoTokenVanishes'
  BY <1>1 DEF Check, BeginUpdate
<1>2. ASSUME NEW t \in Tasks, Get(t)
      PROVE  NoTokenVanishes'
  BY <1>2 DEF Get, GetOrInit, Bucket
<1>3. ASSUME NEW t \in Tasks, InsertFull(t)
      PROVE  NoTokenVanishes'
  BY <1>3 DEF InsertFull, InsertInit
<1>4. ASSUME NEW t \in Tasks, WriteRefilled(t)
      PROVE  NoTokenVanishes'
  <2>1. held[t] \in Bucket /\ held[t] # Absent /\ key[t] \in Keys
    BY <1>4 DEF WriteRefilled, WriteBack
  <2>2. /\ Refill(held[t], t) \in Bucket
        /\ Refill(held[t], t).tokens >= held[t].tokens
    BY <2>1, RefillBounds
  <2>3. Refill(held[t], t).tokens + granted[key[t]] >= Burst
    BY <2>1, <2>2 DEF Bucket
  <2>4. QED
    BY <1>4, <2>1, <2>3 DEF WriteRefilled, WriteBack
<1>5. ASSUME NEW t \in Tasks, Allow(t)
      PROVE  NoTokenVanishes'
  <2>1. held[t] \in Bucket /\ held[t] # Absent /\ key[t] \in Keys
    BY <1>5 DEF Allow
  <2> DEFINE spent == [held[t] EXCEPT !.tokens = @ - 1]
  <2>2. spent.tokens + granted'[key[t]] >= Burst
    BY <1>5, <2>1 DEF Allow, Bucket
  <2>3. \A k \in Keys : granted'[k] >= granted[k]
    BY <1>5, <2>1 DEF Allow
  <2>4. ASSUME NEW k \in Keys, store'[k] # Absent
        PROVE  store'[k].tokens + granted'[k] >= Burst
    <3>1. store' = [store EXCEPT ![key[t]] = spent]
      BY <1>5 DEF Allow, ReturnInserting
    <3>2. CASE k = key[t]
      BY <2>2, <3>1, <3>2
    <3>3. CASE k # key[t]
      BY <2>3, <2>4, <3>1, <3>3 DEF Bucket
    <3>4. QED
      BY <3>2, <3>3
  <2>5. ASSUME NEW u \in Tasks, held'[u] # Absent
        PROVE  held'[u].tokens + granted'[key'[u]] >= Burst
    <3>1. u # t /\ held'[u] = held[u] /\ key'[u] = key[u]
      BY <1>5, <2>5 DEF Allow, ReturnInserting, Return
    <3>2. key[u] \in Keys /\ held[u] \in Bucket
      BY <1>5, <2>5, <3>1
    <3>3. QED
      BY <2>3, <2>5, <3>1, <3>2 DEF Bucket
  <2>6. QED
    BY <2>4, <2>5
<1>6. ASSUME NEW t \in Tasks, Deny(t)
      PROVE  NoTokenVanishes'
  BY <1>6 DEF Deny, ReturnOnly, Return
<1>7. ASSUME NEW k \in Keys, EvictBucket(k)
      PROVE  NoTokenVanishes'
  BY <1>7 DEF EvictBucket, Evict
<1>8. CASE Tick
  BY <1>8 DEF Tick
<1>9. CASE UNCHANGED vars
  BY <1>9 DEF vars
<1>10. QED
  BY <1>1, <1>2, <1>3, <1>4, <1>5, <1>6, <1>7, <1>8, <1>9 DEF Next

(* No copy of a bucket ever lacks a token that was not granted. *)
THEOREM TokensAreKept == Spec => []NoTokenVanishes
<1>1. Init => NoTokenVanishes
  BY DEF Init, StoreInit, NoTokenVanishes
<1>2. QED
  BY <1>1, NextNoTokenVanishes, TypeCorrect, PTL DEF Spec

(* Decision::Deny is only returned to a client that was granted a burst. *)
THEOREM DenyIsEarned == Spec => DenyMeansBurstSpent
<1>1. TypeOK /\ NoTokenVanishes /\ [Next]_vars =>
        [\A t \in Tasks : Deny(t) => granted[key[t]] >= Burst]_vars
  BY DEF TypeOK, StoreTypeOK, NoTokenVanishes, Deny, HasToken, Bucket
<1>2. QED
  BY <1>1, TypeCorrect, TokensAreKept, PTL DEF Spec, DenyMeansBurstSpent

-----------------------------------------------------------------------------
(* The budget, for a key whose checks never overlapped.  A copy of its     *)
(* bucket accounts for what the key was granted: burst, a burst per        *)
(* eviction and the refill up to the copy's own last_refill cover it and   *)
(* the tokens that are left.  Serial says so of the stored copy and of the *)
(* one task's that is under way, and that this task's reading of the clock *)
(* is not older than any of them, so that no refill starts in the past;    *)
(* without a stored copy a whole burst is left to give.                    *)
Covered(b, k) ==
  b.tokens + granted[k] <= Burst * (1 + evictions[k]) + Rate * b.last_refill

SerialStore(k) ==
  /\ store[k] = Absent =>
       granted[k] <= Burst * evictions[k] + Rate * now
  /\ store[k] # Absent =>
       Covered(store[k], k) /\ store[k].last_refill <= now

SerialTask(t, k) ==
  /\ at[t] <= now
  /\ (store[k] = Absent /\ pc[t] = "get") =>
       granted[k] <= Burst * evictions[k] + Rate * at[t]
  /\ store[k] # Absent => store[k].last_refill <= at[t]
  /\ held[t] # Absent => Covered(held[t], k) /\ held[t].last_refill <= at[t]

Serial(k) ==
  /\ \A t, u \in InFlight(k) : t = u
  /\ SerialStore(k)
  /\ \A t \in InFlight(k) : SerialTask(t, k)

BudgetInv == \A k \in Keys : raced[k] \/ Serial(k)

(* A step that leaves the key's bucket and its tasks alone, or only ends a *)
(* task, keeps it serial.                                                  *)
LEMMA SerialFrame ==
  ASSUME TypeOK, TypeOK', NEW k \in Keys, Serial(k),
         store'[k] = store[k], granted'[k] = granted[k],
         evictions'[k] = evictions[k], now' >= now,
         InFlight(k)' \subseteq InFlight(k),
         \A u \in InFlight(k)' :
           pc'[u] = pc[u] /\ at'[u] = at[u] /\ held'[u] = held[u]
  PROVE  Serial(k)'
<1> USE DEF TypeOK
<1>1. Rate * now' >= Rate * now
  OBVIOUS
<1>2. SerialStore(k)'
  <2>1. SerialStore(k)
    BY DEF Serial
  <2>2. CASE store[k] = Absent
    <3>1. granted[k] <= Burst * evictions[k] + Rate * now
      BY <2>1, <2>2 DEF SerialStore
    <3>2. /\ Burst * evictions[k] \in Nat
          /\ Rate * now \in Nat /\ Rate * now' \in Nat
      OBVIOUS
    <3>3. granted'[k] <= Burst * evictions'[k] + Rate * now'
      BY <1>1, <3>1, <3>2
    <3>4. QED
      BY <2>2, <3>3 DEF SerialStore
  <2>3. CASE store[k] # Absent
    <3>1. Covered(store[k], k) /\ store[k].last_refill <= now
      BY <2>1, <2>3 DEF SerialStore
    <3>2. store[k].last_refill \in Nat
      BY <2>3 DEF StoreTypeOK, Bucket
    <3>3. Covered(store[k], k)' /\ store'[k].last_refill <= now'
      BY <3>1, <3>2 DEF Covered
    <3>4. QED
      BY <2>3, <3>3 DEF SerialStore
  <2>4. QED
    BY <2>2, <2>3
<1>3. ASSUME NEW u \in InFlight(k)'
      PROVE  SerialTask(u, k)'
  <2>1. u \in InFlight(k) /\ u \in Tasks /\ SerialTask(u, k)
    BY <1>3 DEF Serial, InFlight
  <2>2. QED
    BY <1>3, <2>1 DEF SerialTask, Covered
<1>4. QED
  BY <1>2, <1>3 DEF Serial

(* A refill at a time that is not in the bucket's past stays covered.      *)
LEMMA RefillCovered ==
  ASSUME TypeOK, NEW k \in Keys, NEW t \in Tasks, NEW b \in Bucket,
         Covered(b, k), b.last_refill <= at[t]
  PROVE  Covered(Refill(b, t), k)
<1> USE DEF TypeOK
<1>1. b.tokens \in Nat /\ b.last_refill \in Nat /\ at[t] \in Nat
  BY DEF Bucket
<1> DEFINE e == at[t] - b.last_refill
<1>2. e \in Nat /\ Elapsed(b, t) = e
  BY <1>1 DEF Elapsed
<1>3. Rate * at[t] = Rate * b.last_refill + e * Rate
  BY <1>1, <1>2
<1>4. e * Rate \in Nat
  BY <1>2
<1>5. /\ Refill(b, t).tokens <= b.tokens + e * Rate
      /\ Refill(b, t).tokens \in Nat
  BY <1>1, <1>2, <1>4 DEF Refill, Smaller
<1>6. Refill(b, t).last_refill = at[t]
  BY DEF Refill
<1>7. Burst * (1 + evictions[k]) \in Nat /\ Rate * b.last_refill \in Nat
  BY <1>1
<1> HIDE DEF e
<1>8. QED
  BY <1>1, <1>3, <1>4, <1>5, <1>6, <1>7 DEF Covered

LEMMA CheckSerial ==
  ASSUME TypeOK, TypeOK', NEW t \in Tasks, NEW c \in Keys, Check(t, c),
         NEW k \in Keys, raced[k] \/ Serial(k)
  PROVE  raced'[k] \/ Serial(k)'
<1> USE DEF TypeOK, StoreTypeOK
<1>1. raced[k] => raced'[k]
  BY DEF Check
<1>2. CASE ~raced[k] /\ k # c
  <2>1. /\ InFlight(k)' \subseteq InFlight(k)
        /\ \A u \in InFlight(k)' :
             pc'[u] = pc[u] /\ at'[u] = at[u] /\ held'[u] = held[u]
    BY <1>2 DEF Check, BeginUpdate, InFlight
  <2>2. QED
    BY <1>2, <2>1, SerialFrame DEF Check, BeginUpdate
<1>3. CASE ~raced[k] /\ k = c /\ InFlight(k) # {}
  BY <1>3 DEF Check
<1>4. CASE ~raced[k] /\ k = c /\ InFlight(k) = {}
  <2>1. InFlight(k)' = {t}
    BY <1>4 DEF Check, BeginUpdate, InFlight
  <2>2. at'[t] = now /\ now' = now /\ held'[t] = Absent /\ pc'[t] = "get"
    BY DEF Check, BeginUpdate
  <2>3. SerialStore(k)'
    BY <1>4 DEF Check, BeginUpdate, Serial, SerialStore, Covered
  <2>4. SerialTask(t, k)'
    BY <2>2, <2>3 DEF Check, BeginUpdate, SerialStore, SerialTask
  <2>5. QED
    BY <2>1, <2>3, <2>4 DEF Serial
<1>5. QED
  BY <1>1, <1>2, <1>3, <1>4 DEF Serial

(* A step of a task of another key, or of a key whose checks overlapped.   *)
LEMMA StepOfOther ==
  ASSUME TypeOK, TypeOK', NEW t \in Tasks, NEW k \in Keys,
         Get(t) \/ InsertFull(t) \/ WriteRefilled(t) \/ Allow(t) \/ Deny(t),
         raced[k] \/ Serial(k), raced[k] \/ key[t] # k
  PROVE  raced'[k] \/ Serial(k)'
<1> USE DEF TypeOK, StoreTypeOK, Get, GetOrInit, InsertFull, InsertInit,
            WriteRefilled, WriteBack, Allow, ReturnInserting, Return, Deny,
            ReturnOnly
<1>1. raced' = raced
  OBVIOUS
<1>2. ASSUME ~raced[k]
      PROVE  Serial(k)'
  <2>1. store'[k] = store[k] /\ granted'[k] = granted[k]
    BY <1>2
  <2>2. evictions' = evictions /\ now' = now
    OBVIOUS
  <2>3. /\ InFlight(k)' \subseteq InFlight(k)
        /\ \A u \in InFlight(k)' :
             pc'[u] = pc[u] /\ at'[u] = at[u] /\ held'[u] = held[u]
    BY <1>2 DEF InFlight
  <2>4. QED
    BY <1>2, <2>1, <2>2, <2>3, SerialFrame
<1>3. QED
  BY <1>1, <1>2

(* What is to be shown of a step of a key's only task that stays under     *)
(* way.                                                                    *)
LEMMA SerialStep ==
  ASSUME TypeOK, NEW t \in Tasks, pc[t] # "idle",
         NEW k \in Keys, key[t] = k, Serial(k),
         pc' \in [Tasks -> {"idle", "get", "init", "write", "decide"}],
         key' = key, \A u \in Tasks : u # t => pc'[u] = pc[u],
         SerialStore(k)', SerialTask(t, k)'
  PROVE  Serial(k)'
<1>1. InFlight(k) = {t}
  BY DEF Serial, InFlight
<1>2. InFlight(k)' \subseteq {t}
  BY <1>1 DEF InFlight, TypeOK, StoreTypeOK
<1>3. QED
  BY <1>2 DEF Serial

LEMMA GetSerial ==
  ASSUME TypeOK, TypeOK', NEW t \in Tasks, Get(t),
         NEW k \in Keys, key[t] = k, Serial(k)
  PROVE  Serial(k)'
<1> USE DEF TypeOK, StoreTypeOK
<1> DEFINE full == [tokens |-> Burst, last_refill |-> at[t]]
<1>1. pc[t] = "get" /\ t \in InFlight(k)
  BY DEF Get, GetOrInit, InFlight
<1>2. SerialStore(k) /\ SerialTask(t, k)
  BY <1>1 DEF Serial
<1>3. /\ UNCHANGED <<store, key, now, at, granted, evictions>>
      /\ held'[t] = IF store[k] = Absent THEN full ELSE store[k]
      /\ pc'[t] # "get"
  BY DEF Get, GetOrInit
<1>4. SerialStore(k)'
  BY <1>2, <1>3 DEF SerialStore, Covered
<1>5. CASE store[k] = Absent
  <2>1. granted[k] <= Burst * evictions[k] + Rate * at[t]
    BY <1>1, <1>2, <1>5 DEF SerialTask
  <2>2. Burst * (1 + evictions[k]) = Burst + Burst * evictions[k]
    BY <1>1
  <2>3. Covered(full, k)
    <3>1. Burst * evictions[k] \in Nat /\ Rate * at[t] \in Nat
      BY <1>1
    <3>2. QED
      BY <1>1, <2>1, <2>2, <3>1 DEF Covered
  <2>4. SerialTask(t, k)'
    BY <1>2, <1>3, <1>5, <2>3 DEF SerialTask, Covered
  <2>5. QED
    BY <1>1, <1>4, <2>4, SerialStep DEF Get, GetOrInit
<1>6. CASE store[k] # Absent
  <2>1. SerialTask(t, k)'
    BY <1>2, <1>3, <1>6 DEF SerialTask, SerialStore, Covered
  <2>2. QED
    BY <1>1, <1>4, <2>1, SerialStep DEF Get, GetOrInit
<1>7. QED
  BY <1>5, <1>6
LEMMA InsertFullSerial ==
  ASSUME TypeOK, TypeOK', NEW t \in Tasks, InsertFull(t),
         NEW k \in Keys, key[t] = k, Serial(k)
  PROVE  Serial(k)'
<1> USE DEF TypeOK, StoreTypeOK
<1>1. pc[t] = "init" /\ t \in InFlight(k) /\ held[t] # Absent
  BY DEF InsertFull, InsertInit, InFlight
<1>2. SerialTask(t, k)
  BY <1>1 DEF Serial
<1>3. /\ UNCHANGED <<key, held, now, at, granted, evictions>>
      /\ store'[k] = held[t]
      /\ pc'[t] = "write"
  BY <1>1 DEF InsertFull, InsertInit
<1>4. held[t].last_refill \in Nat
  BY <1>1 DEF Bucket
<1>5. SerialStore(k)'
  BY <1>1, <1>2, <1>3, <1>4 DEF SerialStore, SerialTask, Covered
<1>6. SerialTask(t, k)'
  BY <1>1, <1>2, <1>3 DEF SerialTask, Covered
<1>7. QED
  BY <1>1, <1>5, <1>6, SerialStep DEF InsertFull, InsertInit

LEMMA WriteRefilledSerial ==
  ASSUME TypeOK, TypeOK', NEW t \in Tasks, WriteRefilled(t),
         NEW k \in Keys, key[t] = k, Serial(k)
  PROVE  Serial(k)'
<1> USE DEF TypeOK, StoreTypeOK
<1> DEFINE b == Refill(held[t], t)
<1>1. pc[t] = "write" /\ t \in InFlight(k) /\ held[t] # Absent
  BY DEF WriteRefilled, WriteBack, InFlight
<1>2. SerialTask(t, k)
  BY <1>1 DEF Serial
<1>3. b \in Bucket /\ b.last_refill = at[t] /\ Covered(b, k)
  BY <1>1, <1>2, RefillBounds, RefillCovered DEF SerialTask, Refill
<1>4. /\ UNCHANGED <<key, now, at, granted, evictions>>
      /\ store'[k] = b /\ held'[t] = b
      /\ pc'[t] = "decide"
  BY <1>1 DEF WriteRefilled, WriteBack
<1>5. b # Absent
  BY <1>3 DEF Bucket
<1> HIDE DEF b
<1>6. SerialStore(k)'
  BY <1>2, <1>3, <1>4, <1>5 DEF SerialStore, SerialTask, Covered
<1>7. SerialTask(t, k)'
  BY <1>2, <1>3, <1>4, <1>5 DEF SerialTask, Covered
<1>8. QED
  BY <1>1, <1>6, <1>7, SerialStep DEF WriteRefilled, WriteBack

(* The last write of a call: the token that is spent is one that is        *)
(* granted.                                                                *)
LEMMA AllowSerial ==
  ASSUME TypeOK, TypeOK', NEW t \in Tasks, Allow(t),
         NEW k \in Keys, key[t] = k, Serial(k)
  PROVE  Serial(k)'
<1> USE DEF TypeOK, StoreTypeOK
<1> DEFINE b == [held[t] EXCEPT !.tokens = @ - 1]
<1>1. pc[t] = "decide" /\ t \in InFlight(k) /\ held[t] # Absent
  BY DEF Allow, InFlight
<1>2. SerialTask(t, k) /\ InFlight(k) = {t}
  BY <1>1 DEF Serial
<1>3. key'[t] = Absent /\ pc'[t] = "idle"
  BY DEF Allow, ReturnInserting, Return
<1>4. InFlight(k)' = {}
  BY <1>2, <1>3 DEF Allow, ReturnInserting, Return, InFlight
<1>5. /\ store'[k] = b /\ granted'[k] = granted[k] + 1
      /\ UNCHANGED <<now, evictions>>
  BY <1>1 DEF Allow, ReturnInserting
<1>6. /\ held[t].tokens \in Nat /\ held[t].last_refill \in Nat
      /\ b.tokens = held[t].tokens - 1 /\ b.last_refill = held[t].last_refill
      /\ b # Absent
  BY <1>1 DEF Bucket, Allow, HasToken
<1> HIDE DEF b
<1>7. SerialStore(k)'
  <2>1. b.last_refill <= now
    BY <1>1, <1>2, <1>6 DEF SerialTask
  <2>2. b.tokens + granted'[k] = held[t].tokens + granted[k]
    BY <1>1, <1>5, <1>6
  <2>3. QED
    BY <1>1, <1>2, <1>5, <1>6, <2>1, <2>2 DEF SerialStore, SerialTask, Covered
<1>8. QED
  BY <1>4, <1>7 DEF Serial

LEMMA DenySerial ==
  ASSUME TypeOK, TypeOK', NEW t \in Tasks, Deny(t),
         NEW k \in Keys, key[t] = k, Serial(k)
  PROVE  Serial(k)'
<1> USE DEF TypeOK, StoreTypeOK
<1>1. /\ pc[t] = "decide" /\ t \in InFlight(k)
      /\ pc'[t] = "idle"
  BY DEF Deny, ReturnOnly, Return, InFlight
<1>2. InFlight(k)' = {}
  BY <1>1 DEF Deny, ReturnOnly, Return, InFlight, Serial
<1>3. QED
  BY <1>1, <1>2, SerialFrame DEF Deny, ReturnOnly, Return

LEMMA EvictSerial ==
  ASSUME TypeOK, TypeOK', NEW k \in Keys, EvictBucket(k), Serial(k)
  PROVE  Serial(k)'
<1> USE DEF TypeOK, StoreTypeOK
<1> DEFINE b == store[k]
<1>1. /\ b # Absent /\ store'[k] = Absent
      /\ evictions'[k] = evictions[k] + 1
      /\ UNCHANGED <<pc, key, held, now, at, granted>>
  BY DEF EvictBucket, Evict
<1>2. b.tokens \in Nat /\ b.last_refill \in Nat
  BY <1>1 DEF Bucket
<1>3. SerialStore(k)
  BY DEF Serial
<1>4. /\ granted[k] <= Burst * evictions'[k] + Rate * b.last_refill
      /\ b.last_refill <= now
  BY <1>1, <1>2, <1>3 DEF SerialStore, Covered
<1>5. Burst * evictions[k] \in Nat /\ Burst * evictions'[k] \in Nat
  BY <1>1
<1>6. Burst * (1 + evictions[k]) <= Burst * (1 + evictions'[k])
  BY <1>1
<1> HIDE DEF b
<1>7. SerialStore(k)'
  <2>1. Rate * b.last_refill <= Rate * now
    BY <1>2, <1>4
  <2>2. Rate * b.last_refill \in Nat /\ Rate * now \in Nat
    BY <1>2
  <2>3. granted[k] <= Burst * evictions'[k] + Rate * now
    BY <1>4, <1>5, <2>1, <2>2
  <2>4. QED
    BY <1>1, <2>3 DEF SerialStore
<1>8. ASSUME NEW t \in InFlight(k)
      PROVE  SerialTask(t, k)'
  <2>1. t \in Tasks /\ SerialTask(t, k)
    BY DEF Serial, InFlight
  <2>2. b.last_refill <= at[t]
    BY <1>1, <2>1 DEF SerialTask, b
  <2>3. granted[k] <= Burst * evictions'[k] + Rate * at[t]
    <3>1. Rate * b.last_refill <= Rate * at[t]
      BY <1>2, <2>1, <2>2
    <3>2. Rate * b.last_refill \in Nat /\ Rate * at[t] \in Nat
      BY <1>2, <2>1
    <3>3. QED
      BY <1>4, <1>5, <3>1, <3>2
  <2>4. ASSUME held[t] # Absent
        PROVE  Covered(held[t], k)' /\ held[t].last_refill <= at[t]
    <3>1. held[t].tokens \in Nat /\ held[t].last_refill \in Nat
      BY <2>1, <2>4 DEF Bucket
    <3>2. Burst * (1 + evictions[k]) \in Nat /\ Burst * (1 + evictions'[k]) \in Nat
      BY <1>1
    <3>3. Rate * held[t].last_refill \in Nat
      BY <3>1
    <3>4. Covered(held[t], k) /\ held[t].last_refill <= at[t]
      BY <2>1, <2>4 DEF SerialTask
    <3>5. held[t].tokens + granted[k] <=
            Burst * (1 + evictions'[k]) + Rate * held[t].last_refill
      BY <1>6, <3>1, <3>2, <3>3, <3>4 DEF Covered
    <3>6. QED
      BY <1>1, <3>4, <3>5 DEF Covered
  <2>5. QED
    BY <1>1, <2>1, <2>3, <2>4 DEF SerialTask
<1>9. InFlight(k)' = InFlight(k)
  BY <1>1 DEF InFlight
<1>10. QED
  BY <1>7, <1>8, <1>9 DEF Serial

LEMMA NextBudgetInv ==
  TypeOK /\ TypeOK' /\ BudgetInv /\ [Next]_vars => BudgetInv'
<1> SUFFICES ASSUME TypeOK, TypeOK', BudgetInv, [Next]_vars,
                    NEW k \in Keys
             PROVE  raced'[k] \/ Serial(k)'
  BY DEF BudgetInv
<1>1. raced[k] \/ Serial(k)
  BY DEF BudgetInv
<1>2. ASSUME NEW t \in Tasks, NEW c \in Keys, Check(t, c)
      PROVE  raced'[k] \/ Serial(k)'
  BY <1>1, <1>2, CheckSerial
<1>3. ASSUME NEW t \in Tasks,
             Get(t) \/ InsertFull(t) \/ WriteRefilled(t) \/ Allow(t) \/ Deny(t)
      PROVE  raced'[k] \/ Serial(k)'
  <2>1. CASE raced[k] \/ key[t] # k
    BY <1>1, <1>3, <2>1, StepOfOther
  <2>2. CASE ~raced[k] /\ key[t] = k
    BY <1>1, <1>3, <2>2, GetSerial, InsertFullSerial, WriteRefilledSerial,
       AllowSerial, DenySerial
  <2>3. QED
    BY <2>1, <2>2
<1>4. ASSUME NEW c \in Keys, EvictBucket(c)
      PROVE  raced'[k] \/ Serial(k)'
  <2>1. raced' = raced
    BY <1>4 DEF EvictBucket
  <2>2. CASE c = k
    BY <1>1, <1>4, <2>1, <2>2, EvictSerial
  <2>3. CASE c # k
    <3>1. /\ store'[k] = store[k] /\ evictions'[k] = evictions[k]
          /\ UNCHANGED <<pc, key, held, now, at, granted>>
      BY <1>4, <2>3 DEF EvictBucket, Evict, TypeOK, StoreTypeOK
    <3>2. InFlight(k)' = InFlight(k)
      BY <3>1 DEF InFlight
    <3>3. QED
      BY <1>1, <2>1, <3>1, <3>2, SerialFrame DEF TypeOK
  <2>4. QED
    BY <2>2, <2>3
<1>5. CASE Tick \/ UNCHANGED vars
  <2>1. /\ UNCHANGED <<store, pc, key, held, at, granted, evictions, raced>>
        /\ now' >= now
    BY <1>5 DEF Tick, vars, TypeOK
  <2>2. InFlight(k)' = InFlight(k)
    BY <2>1 DEF InFlight
  <2>3. QED
    BY <1>1, <2>1, <2>2, SerialFrame
<1>6. QED
  BY <1>2, <1>3, <1>4, <1>5 DEF Next

(* The limit: burst and rate bound what a key is granted, whatever the     *)
(* other keys' checks do, once more for every eviction of its bucket, as   *)
(* long as its own checks do not overlap.                                  *)
THEOREM BudgetHolds == Spec => []BudgetUnlessRaced
<1>1. Init => BudgetInv
  <2> SUFFICES ASSUME Init, NEW k \in Keys
               PROVE  Serial(k)
    BY DEF BudgetInv
  <2>1. InFlight(k) = {}
    BY DEF Init, StoreInit, InFlight
  <2>2. SerialStore(k)
    BY DEF Init, StoreInit, SerialStore
  <2>3. QED
    BY <2>1, <2>2 DEF Serial
<1>2. TypeOK /\ BudgetInv => BudgetUnlessRaced
  <2> SUFFICES ASSUME TypeOK, NEW k \in Keys, SerialStore(k)
               PROVE  granted[k] <= Burst * (1 + evictions[k]) + Rate * now
    BY DEF BudgetInv, Serial, BudgetUnlessRaced
  <2> USE DEF TypeOK, StoreTypeOK
  <2>1. Burst * (1 + evictions[k]) = Burst + Burst * evictions[k]
    OBVIOUS
  <2>2. Burst * evictions[k] \in Nat /\ Rate * now \in Nat
    OBVIOUS
  <2>3. CASE store[k] = Absent
    BY <2>1, <2>2, <2>3 DEF SerialStore
  <2>4. CASE store[k] # Absent
    <3>1. store[k].tokens \in Nat /\ store[k].last_refill \in Nat
      BY <2>4 DEF Bucket
    <3>2. Covered(store[k], k) /\ store[k].last_refill <= now
      BY <2>4 DEF SerialStore
    <3>3. /\ Rate * store[k].last_refill <= Rate * now
          /\ Rate * store[k].last_refill \in Nat
      BY <3>1, <3>2
    <3>4. QED
      BY <2>1, <2>2, <3>1, <3>2, <3>3 DEF Covered
  <2>5. QED
    BY <2>3, <2>4
<1>3. QED
  BY <1>1, <1>2, NextBudgetInv, TypeCorrect, PTL DEF Spec
=============================================================================
