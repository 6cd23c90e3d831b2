------------------------- MODULE SlidingWindowProofs -------------------------
(***************************************************************************)
(* The memory of the sliding window, for any number of tasks, keys, checks *)
(* and evictions: no queue ever outgrows rps, however checks overlap.  The *)
(* stored queue alone is not inductive, since a task may write back the    *)
(* copy it holds; CopiesAreBounded speaks of both.  And its limit: a key   *)
(* without races and evictions is granted no more than rps in any window,  *)
(* as each copy of its queue is the end of the log of grants (WindowInv).  *)
(***************************************************************************)
EXTENDS SlidingWindow, SequenceTheorems, FiniteSetTheorems,
        WellFoundedInduction, TLAPS

CopiesAreBounded ==
  /\ QueueIsBounded
  /\ \A t \in Tasks : held[t] # Absent => Len(held[t]) <= Rps

USE WindowAssumption, AbsentAssumption

(* A set of naturals with an element has a least one. *)
LEMMA LeastNatural ==
  ASSUME NEW S \in SUBSET Nat, S # {}
  PROVE  \E n \in S : \A m \in S : n <= m
<1>1. \E n \in S : \A m \in S : ~(<<m, n>> \in OpToRel(<, Nat))
  BY NatLessThanWellFounded, WFMin
<1>2. ASSUME NEW m \in Nat, NEW n \in Nat, m < n
      PROVE  <<m, n>> \in OpToRel(<, Nat)
  <2>1. <<m, n>> \in Nat \X Nat /\ <<m, n>>[1] < <<m, n>>[2]
    BY <1>2
  <2>2. QED
    BY <2>1 DEF OpToRel
<1>3. PICK n \in S : \A m \in S : ~(<<m, n>> \in OpToRel(<, Nat))
  BY <1>1
<1>4. ASSUME NEW m \in S
      PROVE  n <= m
  <2>1. m \in Nat /\ n \in Nat
    OBVIOUS
  <2>2. ~(m < n)
    BY <1>2, <1>3, <2>1
  <2>3. QED
    BY <2>1, <2>2
<1>5. QED
  BY <1>4

(* Pruning leaves a queue of instants, no longer than it was. *)
LEMMA PruneBounds ==
  ASSUME NEW t \in Tasks, at \in [Tasks -> Nat], NEW q \in Queue
  PROVE  /\ Prune(q, t) \in Queue
         /\ Len(Prune(q, t)) <= Len(q)
<1> DEFINE kept == {n \in 1 .. Len(q) + 1 : n <= Len(q) => ~Outside(q[n], t)}
           first == CHOOSE n \in kept : \A m \in kept : n <= m
<1>1. q \in Seq(Nat) /\ Len(q) \in Nat
  BY DEF Queue
<1>2. Len(q) + 1 \in kept /\ kept \subseteq Nat
  BY <1>1
<1>3. \E n \in kept : \A m \in kept : n <= m
  BY <1>2, LeastNatural
<1>4. first \in kept
  BY <1>3
<1>5. first \in 1 .. Len(q) + 1
  BY <1>4
<1> HIDE DEF first
<1>6. \A i \in first .. Len(q) : q[i] \in Nat
  BY <1>1, <1>5
<1>7. /\ SubSeq(q, first, Len(q)) \in Seq(Nat)
      /\ Len(SubSeq(q, first, Len(q))) <= Len(q)
  BY <1>1, <1>5, <1>6, SubSeqProperties
<1>8. QED
  BY <1>7 DEF Prune, Queue, first

LEMMA InitType == Init => TypeOK
  BY DEF Init, StoreInit, TypeOK, StoreTypeOK

LEMMA NextType == TypeOK /\ [Next]_vars => TypeOK'
<1> SUFFICES ASSUME TypeOK, [Next]_vars
             PROVE  TypeOK'
  OBVIOUS
<1> USE DEF TypeOK, StoreTypeOK
<1>1. ASSUME NEW t \in Tasks, NEW k \in Keys, Check(t, k)
      PROVE  TypeOK'
  BY <1>1 DEF Check, BeginUpdate
<1>2. ASSUME NEW t \in Tasks, Get(t)
      PROVE  TypeOK'
  <2>1. << >> \in Queue /\ Absent \notin Queue
    BY DEF Queue
  <2>2. QED
    BY <1>2, <2>1 DEF Get, GetOrInit
<1>3. ASSUME NEW t \in Tasks, InsertEmpty(t)
      PROVE  TypeOK'
  BY <1>3 DEF InsertEmpty, InsertInit
<1>4. ASSUME NEW t \in Tasks, WritePruned(t)
      PROVE  TypeOK'
  <2>1. held[t] \in Queue /\ key[t] \in Keys
    BY <1>4 DEF WritePruned, WriteBack
  <2>2. Prune(held[t], t) \in Queue
    BY <2>1, PruneBounds
  <2>3. Absent \notin Queue
    BY DEF Queue
  <2>4. QED
    BY <1>4, <2>1, <2>2, <2>3 DEF WritePruned, WriteBack
<1>5. ASSUME NEW t \in Tasks, Allow(t)
      PROVE  TypeOK'
  <2>1. held[t] \in Queue /\ key[t] \in Keys /\ at[t] \in Nat
    BY <1>5 DEF Allow
  <2>2. Append(held[t], at[t]) \in Queue
    BY <2>1, AppendProperties DEF Queue
  <2>3. log' \in [Keys -> Seq(Nat)]
    BY <1>5, <2>1, AppendProperties DEF Allow
  <2>4. QED
    BY <1>5, <2>1, <2>2, <2>3 DEF Allow, ReturnInserting, Return
<1>6. ASSUME NEW t \in Tasks, Deny(t)
      PROVE  TypeOK'
  BY <1>6 DEF Deny, ReturnOnly, Return
<1>7. ASSUME NEW k \in Keys, EvictQueue(k)
      PROVE  TypeOK'
  BY <1>7 DEF EvictQueue, Evict
<1>8. CASE Tick
  BY <1>8 DEF Tick
<1>9. CASE UNCHANGED vars
  BY <1>9 DEF vars
<1>10. QED
  BY <1>1, <1>2, <1>3, <1>4, <1>5, <1>6, <1>7, <1>8, <1>9 DEF Next

(* The store and the tasks hold queues of instants. *)
THEOREM TypeCorrect == Spec => []TypeOK
  BY InitType, NextType, PTL DEF Spec

-----------------------------------------------------------------------------
LEMMA NextCopies ==
  TypeOK /\ CopiesAreBounded /\ [Next]_vars => CopiesAreBounded'
<1> SUFFICES ASSUME TypeOK, CopiesAreBounded, [Next]_vars
             PROVE  CopiesAreBounded'
  OBVIOUS
<1> USE DEF TypeOK, StoreTypeOK, CopiesAreBounded, QueueIsBounded
<1>1. ASSUME NEW t \in Tasks, NEW k \in Keys, Check(t, k)
      PROVE  CopiesAreBounded'
  BY <1>1 DEF Check, BeginUpdate
<1>2. ASSUME NEW t \in Tasks, Get(t)
      PROVE  CopiesAreBounded'
  BY <1>2 DEF Get, GetOrInit
<1>3. ASSUME NEW t \in Tasks, InsertEmpty(t)
      PROVE  CopiesAreBounded'
  BY <1>3 DEF InsertEmpty, InsertInit
<1>4. ASSUME NEW t \in Tasks, WritePruned(t)
      PROVE  CopiesAreBounded'
  <2>1. held[t] \in Queue /\ held[t] # Absent /\ key[t] \in Keys
    BY <1>4 DEF WritePruned, WriteBack
  <2>2. Len(held[t]) \in Nat /\ Len(Prune(held[t], t)) \in Nat
    BY <2>1, PruneBounds DEF Queue
  <2>3. Len(held[t]) <= Rps /\ Len(Prune(held[t], t)) <= Len(held[t])
    BY <2>1, PruneBounds
  <2>4. Len(Prune(held[t], t)) <= Rps
    BY <2>2, <2>3
  <2>5. QED
    BY <1>4, <2>1, <2>4 DEF WritePruned, WriteBack
<1>5. ASSUME NEW t \in Tasks, Allow(t)
      PROVE  CopiesAreBounded'
  <2>1. held[t] \in Seq(Nat) /\ key[t] \in Keys /\ at[t] \in Nat
    BY <1>5 DEF Allow, Queue
  <2>2. Len(Append(held[t], at[t])) <= Rps
    BY <1>5, <2>1, AppendProperties DEF Allow, HasRoom
  <2>3. QED
    BY <1>5, <2>1, <2>2 DEF Allow, ReturnInserting, Return
<1>6. ASSUME NEW t \in Tasks, Deny(t)
      PROVE  CopiesAreBounded'
  BY <1>6 DEF Deny, ReturnOnly, Return
<1>7. ASSUME NEW k \in Keys, EvictQueue(k)
      PROVE  CopiesAreBounded'
  BY <1>7 DEF EvictQueue, Evict
<1>8. CASE Tick
  BY <1>8 DEF Tick
<1>9. CASE UNCHANGED vars
  BY <1>9 DEF vars
<1>10. QED
  BY <1>1, <1>2, <1>3, <1>4, <1>5, <1>6, <1>7, <1>8, <1>9 DEF Next

(* Lost updates, late appends and evictions never make a queue longer than *)
(* rps: the push of sliding_window.rs is guarded by the length of the copy *)
(* it pushes to, and no copy in any task's hands is longer.                *)
THEOREM QueuesStayBounded == Spec => []QueueIsBounded
<1>1. Init => CopiesAreBounded
  BY DEF Init, StoreInit, CopiesAreBounded, QueueIsBounded
<1>2. CopiesAreBounded => QueueIsBounded
  BY DEF CopiesAreBounded
<1>3. QED
  BY <1>1, <1>2, NextCopies, TypeCorrect, PTL DEF Spec

-----------------------------------------------------------------------------
(* The limit, for a key whose checks never overlapped and whose queue was  *)
(* never evicted.  A copy of its queue is then the end of the log, and     *)
(* what it lacks was already outside the window for whoever may use the    *)
(* copy next.  So the request that is allowed with room in the queue lies  *)
(* more than a window after the one rps places before it.                  *)
EndsLog(q, k) ==
  /\ Len(q) <= Len(log[k])
  /\ \A i \in 1 .. Len(q) : q[i] = log[k][Len(log[k]) - Len(q) + i]

DroppedBy(q, k, time) ==
  \A i \in 1 .. Len(log[k]) - Len(q) : time - log[k][i] > Window

SerialLog(k) ==
  /\ \A i \in 1 .. Len(log[k]) : log[k][i] <= now
  /\ \A i, j \in 1 .. Len(log[k]) : i <= j => log[k][i] <= log[k][j]
  /\ \A i \in 1 .. Len(log[k]) - Rps : log[k][i + Rps] - log[k][i] > Window

SerialStore(k) ==
  /\ store[k] = Absent => log[k] = << >>
  /\ store[k] # Absent => EndsLog(store[k], k) /\ DroppedBy(store[k], k, now)

SerialTask(t, k) ==
  /\ at[t] <= now
  /\ \A i \in 1 .. Len(log[k]) : log[k][i] <= at[t]
  /\ store[k] # Absent => DroppedBy(store[k], k, at[t])
  /\ held[t] # Absent => EndsLog(held[t], k) /\ DroppedBy(held[t], k, at[t])

Serial(k) ==
  /\ \A t, u \in InFlight(k) : t = u
  /\ SerialLog(k)
  /\ SerialStore(k)
  /\ \A t \in InFlight(k) : SerialTask(t, k)

WindowInv == \A k \in Keys : raced[k] \/ evictions[k] > 0 \/ Serial(k)

(* A step that leaves the key's queue and its tasks alone, or only ends a  *)
(* task, keeps it serial.                                                  *)
LEMMA SerialFrame ==
  ASSUME TypeOK, TypeOK', NEW k \in Keys, Serial(k),
         store'[k] = store[k], log'[k] = log[k], now' >= now,
         InFlight(k)' \subseteq InFlight(k),
         \A u \in InFlight(k)' : at'[u] = at[u] /\ held'[u] = held[u]
  PROVE  Serial(k)'
<1> USE DEF TypeOK
<1>1. log[k] \in Seq(Nat) /\ Len(log[k]) \in Nat
  OBVIOUS
<1>2. SerialLog(k)'
  BY <1>1 DEF Serial, SerialLog
<1>3. SerialStore(k)'
  <2>1. SerialStore(k)
    BY DEF Serial
  <2>2. CASE store[k] = Absent
    BY <2>1, <2>2 DEF SerialStore
  <2>3. CASE store[k] # Absent
    <3>1. EndsLog(store[k], k) /\ DroppedBy(store[k], k, now)
      BY <2>1, <2>3 DEF SerialStore
    <3>2. Len(store[k]) \in Nat
      BY <2>3 DEF StoreTypeOK, Queue
    <3>3. EndsLog(store[k], k)'
      BY <3>1 DEF EndsLog
    <3>4. DroppedBy(store[k], k, now)'
      <4> DEFINE dropped == 1 .. Len(log[k]) - Len(store[k])
      <4>1. \A i \in dropped : log[k][i] \in Nat
        BY <1>1, <3>2
      <4>2. \A i \in dropped : now - log[k][i] > Window
        BY <3>1 DEF DroppedBy
      <4>3. now \in Nat /\ now' \in Nat /\ now' >= now /\ Window \in Nat
        BY WindowAssumption
      <4> HIDE DEF dropped
      <4>4. \A i \in dropped : now' - log[k][i] > Window
        BY ONLY <4>1, <4>2, <4>3
      <4>5. QED
        BY <4>4 DEF DroppedBy, dropped
    <3>5. QED
      BY <2>3, <3>3, <3>4 DEF SerialStore
  <2>4. QED
    BY <2>2, <2>3
<1>4. ASSUME NEW u \in InFlight(k)'
      PROVE  SerialTask(u, k)'
  <2>1. u \in InFlight(k) /\ u \in Tasks /\ SerialTask(u, k)
    BY <1>4 DEF Serial, InFlight
  <2>2. at'[u] = at[u] /\ held'[u] = held[u]
    BY <1>4
  <2>3. at'[u] <= now'
    BY <2>1, <2>2 DEF SerialTask
  <2>4. QED
    BY <2>1, <2>2, <2>3 DEF SerialTask, DroppedBy, EndsLog
<1>5. QED
  BY <1>2, <1>3, <1>4 DEF Serial

LEMMA CheckSerial ==
  ASSUME TypeOK, TypeOK', NEW t \in Tasks, NEW c \in Keys, Check(t, c),
         NEW k \in Keys, raced[k] \/ evictions[k] > 0 \/ Serial(k)
  PROVE  raced'[k] \/ evictions'[k] > 0 \/ Serial(k)'
<1> USE DEF TypeOK, StoreTypeOK
<1>1. /\ raced[k] => raced'[k]
      /\ evictions' = evictions
  BY DEF Check
<1>2. CASE Serial(k) /\ k # c
  <2>1. /\ InFlight(k)' \subseteq InFlight(k)
        /\ \A u \in InFlight(k)' : at'[u] = at[u] /\ held'[u] = held[u]
    BY <1>2 DEF Check, BeginUpdate, InFlight
  <2>2. store' = store /\ log' = log /\ now' >= now
    BY DEF Check, BeginUpdate
  <2> HIDE DEF TypeOK, StoreTypeOK
  <2>3. QED
    BY <1>2, <2>1, <2>2, SerialFrame
<1>3. CASE Serial(k) /\ k = c /\ InFlight(k) # {}
  BY <1>3 DEF Check
<1>4. CASE Serial(k) /\ k = c /\ InFlight(k) = {}
  <2>1. InFlight(k)' = {t}
    BY <1>4 DEF Check, BeginUpdate, InFlight
  <2>2. /\ at'[t] = now /\ now' = now /\ held'[t] = Absent
        /\ log' = log /\ store' = store
    BY DEF Check, BeginUpdate
  <2>3. SerialStore(k)'
    BY <1>4, <2>2 DEF Serial, SerialStore, EndsLog, DroppedBy
  <2>4. SerialLog(k)'
    BY <1>4, <2>2 DEF Serial, SerialLog
  <2>5. SerialTask(t, k)'
    BY <1>4, <2>2 DEF Serial, SerialStore, SerialLog, SerialTask, DroppedBy
  <2>6. QED
    BY <2>1, <2>3, <2>4, <2>5 DEF Serial
<1>5. QED
  BY <1>1, <1>2, <1>3, <1>4

(* A step of a task of another key, or of a key that is exempt.            *)
LEMMA StepOfOther ==
  ASSUME TypeOK, TypeOK', NEW t \in Tasks, NEW k \in Keys,
         Get(t) \/ InsertEmpty(t) \/ WritePruned(t) \/ Allow(t) \/ Deny(t),
         raced[k] \/ evictions[k] > 0 \/ Serial(k),
         raced[k] \/ evictions[k] > 0 \/ key[t] # k
  PROVE  raced'[k] \/ evictions'[k] > 0 \/ Serial(k)'
<1> USE DEF TypeOK, StoreTypeOK, Get, GetOrInit, InsertEmpty, InsertInit,
            WritePruned, WriteBack, Allow, ReturnInserting, Return, Deny,
            ReturnOnly
<1>1. raced' = raced /\ evictions' = evictions
  OBVIOUS
<1>2. ASSUME ~raced[k], ~(evictions[k] > 0)
      PROVE  Serial(k)'
  <2>1. store'[k] = store[k] /\ log'[k] = log[k] /\ now' >= now
    BY <1>2
  <2>2. /\ InFlight(k)' \subseteq InFlight(k)
        /\ \A u \in InFlight(k)' : at'[u] = at[u] /\ held'[u] = held[u]
    <3>1. t \notin InFlight(k) /\ t \notin InFlight(k)'
      BY <1>2, AbsentAssumption DEF InFlight
    <3>2. \A u \in Tasks : u # t =>
            pc'[u] = pc[u] /\ key'[u] = key[u] /\ at'[u] = at[u] /\ held'[u] = held[u]
      OBVIOUS
    <3>3. QED
      BY ONLY <3>1, <3>2 DEF InFlight
  <2> HIDE DEF TypeOK, StoreTypeOK, Get, GetOrInit, InsertEmpty, InsertInit,
               WritePruned, WriteBack, Allow, ReturnInserting, Return, Deny,
               ReturnOnly
  <2>3. QED
    BY <1>2, <2>1, <2>2, SerialFrame
<1>3. QED
  BY <1>1, <1>2

(* What is to be shown of a step of a key's only task that stays under     *)
(* way and leaves the log alone.                                           *)
LEMMA SerialStep ==
  ASSUME TypeOK, NEW t \in Tasks, pc[t] # "idle",
         NEW k \in Keys, key[t] = k, Serial(k),
         key' = key, \A u \in Tasks : u # t => pc'[u] = pc[u],
         log' = log, now' = now, SerialStore(k)', SerialTask(t, k)'
  PROVE  Serial(k)'
<1>1. InFlight(k) = {t}
  BY DEF Serial, InFlight
<1>2. InFlight(k)' \subseteq {t}
  BY <1>1 DEF InFlight
<1>3. SerialLog(k)'
  BY DEF Serial, SerialLog
<1>4. QED
  BY <1>2, <1>3 DEF Serial

LEMMA GetSerial ==
  ASSUME TypeOK, TypeOK', NEW t \in Tasks, Get(t),
         NEW k \in Keys, key[t] = k, Serial(k)
  PROVE  Serial(k)'
<1> USE DEF TypeOK, StoreTypeOK
<1>1. pc[t] = "get" /\ t \in InFlight(k)
  BY DEF Get, GetOrInit, InFlight
<1>2. SerialStore(k) /\ SerialTask(t, k)
  BY <1>1 DEF Serial
<1>3. /\ UNCHANGED <<store, key, now, at, log>>
      /\ held'[t] = IF store[k] = Absent THEN << >> ELSE store[k]
  BY DEF Get, GetOrInit
<1>4. SerialStore(k)'
  BY <1>2, <1>3 DEF SerialStore, EndsLog, DroppedBy
<1>5. CASE store[k] = Absent
  <2>1. log[k] = << >> /\ held'[t] = << >>
    BY <1>2, <1>3, <1>5 DEF SerialStore
  <2>2. SerialTask(t, k)'
    BY <1>2, <1>3, <1>5, <2>1 DEF SerialTask, EndsLog, DroppedBy
  <2>3. QED
    BY <1>1, <1>3, <1>4, <2>2, SerialStep DEF Get, GetOrInit
<1>6. CASE store[k] # Absent
  <2>1. SerialTask(t, k)'
    BY <1>2, <1>3, <1>6 DEF SerialTask, SerialStore, EndsLog, DroppedBy
  <2>2. QED
    BY <1>1, <1>3, <1>4, <2>1, SerialStep DEF Get, GetOrInit
<1>7. QED
  BY <1>5, <1>6

LEMMA InsertEmptySerial ==
  ASSUME TypeOK, TypeOK', NEW t \in Tasks, InsertEmpty(t),
         NEW k \in Keys, key[t] = k, Serial(k)
  PROVE  Serial(k)'
<1> USE DEF TypeOK, StoreTypeOK
<1>1. pc[t] = "init" /\ t \in InFlight(k) /\ held[t] # Absent
  BY DEF InsertEmpty, InsertInit, InFlight
<1>2. SerialTask(t, k)
  BY <1>1 DEF Serial
<1>3. /\ UNCHANGED <<key, held, now, at, log>>
      /\ store'[k] = held[t]
  BY <1>1 DEF InsertEmpty, InsertInit
<1>4. Len(held[t]) \in Nat /\ Len(log[k]) \in Nat
  BY <1>1 DEF Queue
<1>5. SerialStore(k)'
  BY <1>1, <1>2, <1>3, <1>4, SMTT(20) DEF SerialStore, SerialTask, EndsLog, DroppedBy
<1>6. SerialTask(t, k)'
  BY <1>1, <1>2, <1>3 DEF SerialTask, EndsLog, DroppedBy
<1>7. QED
  BY <1>1, <1>3, <1>5, <1>6, SerialStep DEF InsertEmpty, InsertInit
(* Pruning drops the front of a queue, as far as it is outside the window. *)
LEMMA PruneDrops ==
  ASSUME NEW t \in Tasks, at \in [Tasks -> Nat], NEW q \in Queue
  PROVE  \E n \in 1 .. Len(q) + 1 :
           /\ Prune(q, t) = SubSeq(q, n, Len(q))
           /\ \A m \in 1 .. n - 1 : Outside(q[m], t)
<1> DEFINE kept == {n \in 1 .. Len(q) + 1 : n <= Len(q) => ~Outside(q[n], t)}
           first == CHOOSE n \in kept : \A m \in kept : n <= m
<1>1. Len(q) \in Nat
  BY DEF Queue
<1>2. Len(q) + 1 \in kept /\ kept \subseteq Nat
  BY <1>1
<1>3. \E n \in kept : \A m \in kept : n <= m
  BY <1>2, LeastNatural
<1>4. first \in kept /\ \A m \in kept : first <= m
  BY <1>3
<1>5. first \in 1 .. Len(q) + 1
  BY <1>4
<1>6. Prune(q, t) = SubSeq(q, first, Len(q))
  BY DEF Prune
<1>7. ASSUME NEW m \in 1 .. first - 1
      PROVE  Outside(q[m], t)
  <2>1. m \in 1 .. Len(q) + 1 /\ m < first
    BY <1>1, <1>5
  <2>2. m \notin kept
    BY <1>4, <1>5, <2>1, SMTT(20)
  <2>3. QED
    BY <2>1, <2>2
<1> HIDE DEF first
<1>8. QED
  BY <1>5, <1>6, <1>7

(* So a pruned end of the log is an end of the log, and lacks only what is *)
(* outside the window.                                                     *)
LEMMA PruneEnds ==
  ASSUME TypeOK, NEW t \in Tasks, NEW k \in Keys, NEW q \in Queue,
         EndsLog(q, k), DroppedBy(q, k, at[t])
  PROVE  EndsLog(Prune(q, t), k) /\ DroppedBy(Prune(q, t), k, at[t])
<1>1. q \in Seq(Nat) /\ Len(q) \in Nat /\ Len(log[k]) \in Nat
  BY DEF Queue, TypeOK
<1>2. PICK n \in 1 .. Len(q) + 1 :
             /\ Prune(q, t) = SubSeq(q, n, Len(q))
             /\ \A m \in 1 .. n - 1 : Outside(q[m], t)
  BY PruneDrops DEF TypeOK
<1> DEFINE p == Prune(q, t)
<1>3. /\ Len(p) = Len(q) - n + 1
      /\ \A i \in 1 .. Len(p) : p[i] = q[n + i - 1]
  BY <1>1, <1>2, SubSeqProperties, SMTT(20)
<1> HIDE DEF p
<1>4. /\ n \in Nat /\ Len(q) \in Nat /\ Len(log[k]) \in Nat
      /\ Len(p) \in Nat /\ Len(p) = Len(q) - n + 1
  BY <1>1, <1>3
<1>5. EndsLog(p, k)
  <2>1. Len(p) <= Len(log[k])
    BY <1>1, <1>3 DEF EndsLog
  <2>2. ASSUME NEW i \in 1 .. Len(p)
        PROVE  p[i] = log[k][Len(log[k]) - Len(p) + i]
    <3>1. n + i - 1 \in 1 .. Len(q)
      BY <1>1, <1>3
    <3>2. q[n + i - 1] = log[k][Len(log[k]) - Len(q) + (n + i - 1)]
      BY <3>1 DEF EndsLog
    <3>3. Len(log[k]) - Len(q) + (n + i - 1) = Len(log[k]) - Len(p) + i
      <4> DEFINE l == Len(log[k])
                 x == Len(q)
                 y == Len(p)
      <4>1. l \in Nat /\ x \in Nat /\ y \in Nat /\ i \in Nat /\ y = x - n + 1
        BY <1>4
      <4> HIDE DEF l, x, y
      <4>2. l - x + (n + i - 1) = l - y + i
        BY <1>4, <4>1
      <4>3. QED
        BY <4>2 DEF l, x, y
    <3>4. QED
      BY <1>3, <3>2, <3>3
  <2>3. QED
    BY <2>1, <2>2 DEF EndsLog
<1>6. ASSUME NEW i \in 1 .. Len(log[k]) - Len(p)
      PROVE  at[t] - log[k][i] > Window
  <2>1. CASE i <= Len(log[k]) - Len(q)
    BY <1>1, <2>1 DEF DroppedBy
  <2>2. CASE i > Len(log[k]) - Len(q)
    <3> DEFINE m == i - (Len(log[k]) - Len(q))
    <3>1. m \in 1 .. n - 1 /\ m \in 1 .. Len(q)
      BY <1>1, <1>3, <2>2 DEF EndsLog
    <3>2. q[m] = log[k][Len(log[k]) - Len(q) + m]
      BY <3>1 DEF EndsLog
    <3>3. Len(log[k]) - Len(q) + m = i
      <4> DEFINE l == Len(log[k])
                 x == Len(q)
      <4>1. l \in Nat /\ x \in Nat /\ i \in Int
        BY <1>4
      <4> HIDE DEF l, x
      <4>2. l - x + (i - (l - x)) = i
        BY <4>1
      <4>3. QED
        BY <4>2 DEF l, x
    <3>4. Outside(q[m], t)
      BY <1>2, <3>1
    <3>5. QED
      BY <3>2, <3>3, <3>4 DEF Outside
  <2>3. QED
    BY <1>1, <1>3, <2>1, <2>2
<1>7. QED
  BY <1>5, <1>6 DEF DroppedBy, p

LEMMA WritePrunedSerial ==
  ASSUME TypeOK, TypeOK', NEW t \in Tasks, WritePruned(t),
         NEW k \in Keys, key[t] = k, Serial(k)
  PROVE  Serial(k)'
<1> DEFINE p == Prune(held[t], t)
<1>1. /\ pc[t] = "write" /\ t \in InFlight(k) /\ held[t] # Absent
      /\ held[t] \in Queue
  BY DEF WritePruned, WriteBack, InFlight, TypeOK, StoreTypeOK
<1>2. SerialTask(t, k)
  BY <1>1 DEF Serial
<1>3. EndsLog(p, k) /\ DroppedBy(p, k, at[t])
  BY <1>1, <1>2, PruneEnds DEF SerialTask
<1>4. /\ UNCHANGED <<key, now, at, log>>
      /\ store'[k] = p /\ held'[t] = p
      /\ \A u \in Tasks : u # t => pc'[u] = pc[u]
  BY <1>1 DEF WritePruned, WriteBack, TypeOK, StoreTypeOK
<1>5. p \in Queue /\ Len(p) \in Nat /\ p # Absent
  <2>1. p \in Queue
    BY <1>1, PruneBounds DEF TypeOK
  <2>2. QED
    BY <2>1 DEF Queue
<1> HIDE DEF p
<1>6. /\ at[t] \in Nat /\ now \in Nat /\ at[t] <= now
      /\ log[k] \in Seq(Nat) /\ Len(log[k]) \in Nat
  BY <1>2 DEF SerialTask, TypeOK
<1>7. \A i \in 1 .. Len(log[k]) - Len(p) : now - log[k][i] > Window
  <2>1. ASSUME NEW i \in 1 .. Len(log[k]) - Len(p)
        PROVE  now - log[k][i] > Window
    <3>1. i \in 1 .. Len(log[k])
      BY <1>5, <1>6
    <3>2. log[k][i] \in Nat /\ at[t] - log[k][i] > Window
      BY <1>3, <1>6, <3>1, SMTT(20) DEF DroppedBy
    <3>3. QED
      BY <1>6, <3>2, SMTT(20)
  <2>2. QED
    BY <2>1
<1>8. SerialStore(k)'
  BY <1>3, <1>4, <1>5, <1>7 DEF SerialStore, EndsLog, DroppedBy
<1>9. SerialTask(t, k)'
  <2>1. at'[t] <= now' /\ \A i \in 1 .. Len(log'[k]) : log'[k][i] <= at'[t]
    BY <1>2, <1>4 DEF SerialTask
  <2>2. EndsLog(held[t], k)' /\ DroppedBy(held[t], k, at[t])'
    BY <1>3, <1>4 DEF EndsLog, DroppedBy
  <2>3. DroppedBy(store[k], k, at[t])'
    BY <1>3, <1>4 DEF DroppedBy
  <2>4. QED
    BY <2>1, <2>2, <2>3 DEF SerialTask
<1>10. QED
  BY <1>1, <1>4, <1>8, <1>9, SerialStep

(* The request that is allowed: the one rps places before it is in the     *)
(* dropped part of the log.                                                *)
LEMMA AllowSerial ==
  ASSUME TypeOK, TypeOK', NEW t \in Tasks, Allow(t),
         NEW k \in Keys, key[t] = k, Serial(k)
  PROVE  Serial(k)'
<1> DEFINE q == held[t]
           n == Len(log[k])
<1>1. /\ pc[t] = "decide" /\ t \in InFlight(k) /\ q # Absent /\ q \in Seq(Nat)
      /\ Len(q) \in Nat /\ Len(q) < Rps /\ at[t] \in Nat /\ now \in Nat
      /\ log[k] \in Seq(Nat) /\ n \in Nat
      /\ log \in [Keys -> Seq(Nat)] /\ store \in [Keys -> Queue \union {Absent}]
  BY DEF Allow, InFlight, TypeOK, StoreTypeOK, HasRoom, Queue
<1>2. SerialTask(t, k) /\ SerialLog(k) /\ InFlight(k) = {t}
  BY <1>1 DEF Serial
<1>3. EndsLog(q, k) /\ DroppedBy(q, k, at[t]) /\ at[t] <= now
  BY <1>1, <1>2 DEF SerialTask
<1>4. /\ store'[k] = Append(q, at[t]) /\ log'[k] = Append(log[k], at[t])
      /\ now' = now
  BY <1>1 DEF Allow, ReturnInserting
<1>5. InFlight(k)' = {}
  BY <1>2 DEF Allow, ReturnInserting, Return, InFlight, TypeOK, StoreTypeOK
<1>6. /\ Len(log'[k]) = n + 1 /\ log'[k][n + 1] = at[t]
      /\ \A i \in 1 .. n : log'[k][i] = log[k][i]
      /\ \A i \in 1 .. n : log[k][i] \in Nat
  BY <1>1, <1>4, AppendProperties
<1>7. /\ Len(store'[k]) = Len(q) + 1 /\ store'[k][Len(q) + 1] = at[t]
      /\ \A i \in 1 .. Len(q) : store'[k][i] = q[i]
      /\ store'[k] # Absent
  <2> HIDE DEF q
  <2>1. Append(q, at[t]) \in Seq(Nat) /\ Absent \notin Seq(Nat)
    BY <1>1, AppendProperties
  <2>2. /\ Len(Append(q, at[t])) = Len(q) + 1
        /\ Append(q, at[t])[Len(q) + 1] = at[t]
        /\ \A i \in 1 .. Len(q) : Append(q, at[t])[i] = q[i]
    BY <1>1, AppendProperties
  <2>3. QED
    BY <1>4, <2>1, <2>2
<1>8. \A i \in 1 .. n : log[k][i] <= at[t]
  BY <1>2 DEF SerialTask
<1> HIDE DEF q, n
<1>9. SerialLog(k)'
  <2>1. \A i \in 1 .. n + 1 : log'[k][i] <= now'
    BY <1>1, <1>3, <1>4, <1>6, <1>8, SMTT(20)
  <2>2. \A i, j \in 1 .. n + 1 : i <= j => log'[k][i] <= log'[k][j]
    <3>1. \A i, j \in 1 .. n : i <= j => log[k][i] <= log[k][j]
      BY <1>2 DEF SerialLog, n
    <3>2. ASSUME NEW i \in 1 .. n + 1, NEW j \in 1 .. n + 1, i <= j
          PROVE  log'[k][i] <= log'[k][j]
      <4>1. CASE j \in 1 .. n
        <5>1. i \in 1 .. n
          BY <1>1, <3>2, <4>1
        <5>2. QED
          BY <1>6, <3>1, <3>2, <4>1, <5>1
      <4>2. CASE j = n + 1 /\ i \in 1 .. n
        BY <1>6, <1>8, <4>2
      <4>3. CASE j = n + 1 /\ i = n + 1
        BY <1>1, <1>6, <4>3
      <4>4. QED
        BY <1>1, <4>1, <4>2, <4>3
    <3>3. QED
      BY <3>2
  <2>3. ASSUME NEW i \in 1 .. (n + 1) - Rps
        PROVE  log'[k][i + Rps] - log'[k][i] > Window
    <3>1. CASE i \in 1 .. n - Rps
      <4>1. log[k][i + Rps] - log[k][i] > Window
        BY <1>2, <3>1 DEF SerialLog, n
      <4>2. i \in 1 .. n /\ i + Rps \in 1 .. n
        BY <1>1, <3>1
      <4>3. QED
        BY <1>6, <4>1, <4>2
    <3>2. CASE i = n + 1 - Rps
      <4>1. i \in 1 .. n - Len(q) /\ i \in 1 .. n
        BY <1>1, <3>2
      <4>2. at[t] - log[k][i] > Window
        BY <1>3, <4>1 DEF DroppedBy, n
      <4>3. i + Rps = n + 1
        BY <1>1, <3>2
      <4>4. QED
        BY <1>6, <4>1, <4>2, <4>3
    <3>3. QED
      BY <1>1, <3>1, <3>2
  <2>4. Len(log'[k]) = n + 1
    BY <1>6
  <2>5. QED
    BY <2>1, <2>2, <2>3, <2>4, Zenon DEF SerialLog
<1>10. SerialStore(k)'
  <2>1. Len(q) <= n /\ \A i \in 1 .. Len(q) : q[i] = log[k][n - Len(q) + i]
    BY <1>3 DEF EndsLog, n
  <2>2. ASSUME NEW i \in 1 .. Len(q) + 1
        PROVE  store'[k][i] = log'[k][(n + 1) - (Len(q) + 1) + i]
    <3>1. CASE i \in 1 .. Len(q)
      <4>1. n - Len(q) + i \in 1 .. n /\ (n + 1) - (Len(q) + 1) + i = n - Len(q) + i
        BY <1>1, <2>1, <3>1
      <4>2. log'[k][n - Len(q) + i] = log[k][n - Len(q) + i]
        BY <1>6, <4>1
      <4>3. store'[k][i] = log[k][n - Len(q) + i]
        BY <1>7, <2>1, <3>1
      <4>4. QED
        BY <4>1, <4>2, <4>3
    <3>2. CASE i = Len(q) + 1
      BY <1>1, <1>6, <1>7, <3>2
    <3>3. QED
      BY <1>1, <3>1, <3>2
  <2>3. EndsLog(store[k], k)'
    BY <1>1, <1>6, <1>7, <2>1, <2>2 DEF EndsLog
  <2>4. ASSUME NEW i \in 1 .. (n + 1) - (Len(q) + 1)
        PROVE  now' - log'[k][i] > Window
    <3>1. i \in 1 .. n - Len(q) /\ i \in 1 .. n
      BY <1>1
    <3>2. at[t] - log[k][i] > Window
      BY <1>3, <3>1 DEF DroppedBy, n
    <3>3. log[k][i] \in Nat /\ log'[k][i] = log[k][i] /\ now' = now
      BY <1>4, <1>6, <3>1
    <3>4. QED
      BY <1>1, <1>3, <3>2, <3>3, SMTT(20)
  <2>5. DroppedBy(store[k], k, now)'
    BY <1>6, <1>7, <2>4 DEF DroppedBy
  <2>6. QED
    BY <1>7, <2>3, <2>5 DEF SerialStore
<1>11. QED
  BY <1>5, <1>9, <1>10 DEF Serial

LEMMA DenySerial ==
  ASSUME TypeOK, TypeOK', NEW t \in Tasks, Deny(t),
         NEW k \in Keys, key[t] = k, Serial(k)
  PROVE  Serial(k)'
<1>1. /\ pc[t] = "decide" /\ t \in InFlight(k) /\ pc'[t] = "idle"
  BY DEF Deny, ReturnOnly, Return, InFlight, TypeOK, StoreTypeOK
<1>2. InFlight(k)' = {}
  BY <1>1 DEF Deny, ReturnOnly, Return, InFlight, Serial, TypeOK, StoreTypeOK
<1>3. store' = store /\ log' = log /\ now' >= now
  BY DEF Deny, ReturnOnly, TypeOK
<1>4. QED
  BY <1>2, <1>3, SerialFrame

LEMMA NextWindowInv ==
  TypeOK /\ TypeOK' /\ WindowInv /\ [Next]_vars => WindowInv'
<1> SUFFICES ASSUME TypeOK, TypeOK', WindowInv, [Next]_vars,
                    NEW k \in Keys
             PROVE  raced'[k] \/ evictions'[k] > 0 \/ Serial(k)'
  BY DEF WindowInv
<1>1. raced[k] \/ evictions[k] > 0 \/ Serial(k)
  BY DEF WindowInv
<1>2. ASSUME NEW t \in Tasks, NEW c \in Keys, Check(t, c)
      PROVE  raced'[k] \/ evictions'[k] > 0 \/ Serial(k)'
  BY <1>1, <1>2, CheckSerial
<1>3. ASSUME NEW t \in Tasks,
             Get(t) \/ InsertEmpty(t) \/ WritePruned(t) \/ Allow(t) \/ Deny(t)
      PROVE  raced'[k] \/ evictions'[k] > 0 \/ Serial(k)'
  <2>1. CASE raced[k] \/ evictions[k] > 0 \/ key[t] # k
    BY <1>1, <1>3, <2>1, StepOfOther
  <2>2. CASE Serial(k) /\ key[t] = k
    BY <1>3, <2>2, GetSerial, InsertEmptySerial, WritePrunedSerial,
       AllowSerial, DenySerial
  <2>3. QED
    BY <1>1, <2>1, <2>2
<1>4. ASSUME NEW c \in Keys, EvictQueue(c)
      PROVE  raced'[k] \/ evictions'[k] > 0 \/ Serial(k)'
  <2>1. raced' = raced /\ evictions' = [evictions EXCEPT ![c] = @ + 1]
    BY <1>4 DEF EvictQueue
  <2>2. CASE c = k
    BY <2>1, <2>2 DEF TypeOK
  <2>3. CASE c # k
    <3>1. /\ store'[k] = store[k] /\ evictions'[k] = evictions[k]
          /\ UNCHANGED <<pc, key, held, at, log>> /\ now' >= now
      BY <1>4, <2>3 DEF EvictQueue, Evict, TypeOK, StoreTypeOK
    <3>2. InFlight(k)' = InFlight(k)
      BY <3>1 DEF InFlight
    <3>3. QED
      BY <1>1, <2>1, <3>1, <3>2, SerialFrame
  <2>4. QED
    BY <2>2, <2>3
<1>5. CASE Tick \/ UNCHANGED vars
  <2>1. /\ UNCHANGED <<store, pc, key, held, at, log, evictions, raced>>
        /\ now' >= now
    BY <1>5 DEF Tick, vars, TypeOK
  <2>2. InFlight(k)' = InFlight(k)
    BY <2>1 DEF InFlight
  <2>3. QED
    BY <1>1, <2>1, <2>2, SerialFrame
<1>6. QED
  BY <1>2, <1>3, <1>4, <1>5 DEF Next

(* A log in which requests rps places apart are more than a window apart   *)
(* has no window with more than rps requests.                              *)
LEMMA SpacedWindows ==
  ASSUME TypeOK, NEW k \in Keys, SerialLog(k), NEW from \in Nat
  PROVE  AllowedIn(k, from, Window) <= Rps
<1> DEFINE S == {i \in 1 .. Len(log[k]) : log[k][i] \in from .. from + Window}
<1>1. log[k] \in Seq(Nat) /\ Len(log[k]) \in Nat
  BY DEF TypeOK
<1>2. CASE S = {}
  <2>1. Cardinality(S) = 0
    BY <1>2, FS_EmptySet
  <2>2. QED
    BY <2>1 DEF AllowedIn
<1>3. CASE S # {}
  <2>1. S \in SUBSET Nat
    OBVIOUS
  <2>2. PICK a \in S : \A i \in S : a <= i
    BY <1>3, <2>1, LeastNatural
  <2>3. a \in 1 .. Len(log[k]) /\ log[k][a] >= from
    BY <1>1, <2>2
  <2>4. ASSUME NEW i \in S
        PROVE  i \in a .. a + Rps - 1
    <3>1. i \in 1 .. Len(log[k]) /\ log[k][i] <= from + Window /\ a <= i
      BY <1>1, <2>2
    <3>2. SUFFICES ASSUME i >= a + Rps PROVE FALSE
      BY <1>1, <2>3, <3>1
    <3>3. a \in 1 .. Len(log[k]) - Rps /\ a + Rps \in 1 .. Len(log[k])
      BY <1>1, <2>3, <3>1, <3>2
    <3>4. log[k][a + Rps] - log[k][a] > Window
      BY <3>3 DEF SerialLog
    <3>5. log[k][a + Rps] <= log[k][i]
      BY <3>1, <3>2, <3>3 DEF SerialLog
    <3>6. log[k][a] \in Nat /\ log[k][a + Rps] \in Nat /\ log[k][i] \in Nat
      <4>1. \A j \in 1 .. Len(log[k]) : log[k][j] \in Nat
        BY <1>1, ElementOfSeq
      <4>2. QED
        BY <2>3, <3>1, <3>3, <4>1
    <3>7. QED
      BY <2>3, <3>1, <3>4, <3>5, <3>6, SMTT(20)
  <2>5. S \in SUBSET (a .. a + Rps - 1) /\ a \in Int /\ a + Rps - 1 \in Int
    BY <2>3, <2>4
  <2>6. /\ IsFiniteSet(a .. a + Rps - 1)
        /\ Cardinality(a .. a + Rps - 1) <= Rps
    <3> DEFINE b == a + Rps - 1
    <3>1. a \in Int /\ b \in Int
      BY <2>5
    <3>2. b - a + 1 = Rps /\ 0 <= Rps
      BY <2>5
    <3> HIDE DEF b
    <3>3. /\ IsFiniteSet(a .. b)
          /\ Cardinality(a .. b) = IF a > b THEN 0 ELSE b - a + 1
      BY <3>1, FS_Interval
    <3>4. IsFiniteSet(a .. b) /\ Cardinality(a .. b) <= Rps
      BY <3>2, <3>3
    <3>5. QED
      BY <3>4 DEF b
  <2>7. Cardinality(S) <= Cardinality(a .. a + Rps - 1) /\ IsFiniteSet(S)
    BY <2>5, <2>6, FS_Subset
  <2>8. Cardinality(S) \in Nat /\ Cardinality(a .. a + Rps - 1) \in Nat
    BY <2>6, <2>7, FS_CardinalityType
  <2>9. Cardinality(S) <= Rps
    BY <2>6, <2>7, <2>8
  <2>10. QED
    BY <2>9 DEF AllowedIn
<1>4. QED
  BY <1>2, <1>3

(* The limit: as long as no two checks of a key overlap and its queue is   *)
(* not evicted, no window of sliding_window.rs holds more than rps of its  *)
(* allowed requests, whatever the other keys' checks do.                   *)
THEOREM WindowHolds == Spec => []WindowUnlessRaced
<1>1. Init => WindowInv
  <2> SUFFICES ASSUME Init, NEW k \in Keys
               PROVE  Serial(k)
    BY DEF WindowInv
  <2>1. InFlight(k) = {}
    BY DEF Init, StoreInit, InFlight
  <2>2. store[k] = Absent /\ log[k] = << >> /\ now = 0
    BY DEF Init, StoreInit
  <2>3. SerialStore(k) /\ SerialLog(k)
    BY <2>2 DEF SerialStore, SerialLog
  <2>4. QED
    BY <2>1, <2>3 DEF Serial
<1>2. TypeOK /\ WindowInv => WindowUnlessRaced
  <2> SUFFICES ASSUME TypeOK, NEW k \in Keys, SerialLog(k),
                      NEW from \in 0 .. MaxTime
               PROVE  AllowedIn(k, from, Window) <= Rps
    BY DEF WindowInv, Serial, WindowUnlessRaced
  <2>1. from \in Nat
    OBVIOUS
  <2>2. QED
    BY <2>1, SpacedWindows
<1>3. QED
  BY <1>1, <1>2, NextWindowInv, TypeCorrect, PTL DEF Spec
=============================================================================
