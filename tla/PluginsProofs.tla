---------------------------- MODULE PluginsProofs -----------------------------
(***************************************************************************)
(* Plugins for any number of tasks, names, libraries and loads: libraries  *)
(* are open exactly while they are needed, and payloads fit the memory.    *)
(* Both are inductive with TypeOK and with what a task has in its hands at *)
(* each place.                                                             *)
(***************************************************************************)
EXTENDS Plugins, TLAPS

USE PluginsAssumption

(* A task that is idle holds nothing, and any other an instance; what is   *)
(* held or registered was loaded.                                          *)
Holding ==
  /\ \A t \in Tasks : held[t] = None <=> pc[t] = "idle"
  /\ \A t \in Tasks : held[t] # None => made[held[t]] # None
  /\ \A n \in Names : registry[n] # None => made[registry[n]] # None

IInv == TypeOK /\ Holding /\ OpenWhileUsed /\ PayloadsFit

LEMMA Ids1 == Ids \subseteq Int /\ None \notin Ids
  BY DEF Ids

(* The pages that are added hold what was missing. *)
LEMMA GrowthSuffices ==
  ASSUME NEW missing \in Nat
  PROVE  /\ GrownBy(missing) \in Nat
         /\ GrownBy(missing) * PageSize >= missing
<1> DEFINE q == (missing + PageSize - 1) \div PageSize
           r == (missing + PageSize - 1) % PageSize
<1>1. /\ missing + PageSize - 1 = PageSize * q + r
      /\ q \in Nat /\ r \in 0 .. PageSize - 1
  OBVIOUS
<1>2. QED
  BY <1>1 DEF GrownBy

LEMMA MemorySuffices ==
  ASSUME TypeOK, NEW i \in Ids, NEW length \in Lengths
  PROVE  /\ Grown(i, length) \in Nat
         /\ Offset + length <= Grown(i, length) * PageSize
<1> DEFINE needed == Offset + length
           size == pages[i] * PageSize
<1>1. needed \in Nat /\ pages[i] \in Nat /\ size \in Nat
  BY DEF TypeOK
<1>2. CASE needed > size
  <2>1. needed - size \in Nat
    BY <1>1, <1>2
  <2>2. /\ GrownBy(needed - size) \in Nat
        /\ GrownBy(needed - size) * PageSize >= needed - size
    BY <2>1, GrowthSuffices
  <2>3. Grown(i, length) = pages[i] + GrownBy(needed - size)
    BY <1>2 DEF Grown
  <2>4. Grown(i, length) * PageSize = size + GrownBy(needed - size) * PageSize
    BY <1>1, <2>2, <2>3
  <2>5. QED
    BY <1>1, <2>2, <2>3, <2>4
<1>3. CASE ~(needed > size)
  BY <1>1, <1>3 DEF Grown
<1>4. QED
  BY <1>2, <1>3

-----------------------------------------------------------------------------
LEMMA InitInv == Init => IInv
<1> SUFFICES ASSUME Init
             PROVE  IInv
  OBVIOUS
<1>1. TypeOK
  BY DEF Init, TypeOK
<1>2. Holding /\ OpenWhileUsed /\ PayloadsFit
  BY DEF Init, Holding, OpenWhileUsed, PayloadsFit, Registered
<1>3. QED
  BY <1>1, <1>2 DEF IInv

(* A hook ends: whatever it did to fuel, pages and lock. *)
LEMMA FinishKeeps ==
  ASSUME IInv, NEW t \in Tasks, NEW outcome \in {"ok", "error"}, Finish(t, outcome),
         fuel' \in [Ids -> Nat], pages' \in [Ids -> Nat], UNCHANGED poisoned
  PROVE  IInv'
<1> USE DEF IInv
<1>1. TypeOK'
  BY DEF TypeOK, Finish
<1>2. Holding'
  BY Ids1 DEF TypeOK, Holding, Finish
<1>3. OpenWhileUsed'
  BY Ids1 DEF TypeOK, Holding, Finish, OpenWhileUsed, Registered, Dropped
<1>4. PayloadsFit'
  BY DEF PayloadsFit
<1>5. QED
  BY <1>1, <1>2, <1>3, <1>4

LEMMA BurnType ==
  ASSUME TypeOK, NEW i \in Ids, NEW cost \in 1 .. MaxCost
  PROVE  [fuel EXCEPT ![i] = Burn(i, cost)] \in [Ids -> Nat]
<1>1. Burn(i, cost) \in Nat
  BY DEF TypeOK, Burn
<1>2. QED
  BY <1>1 DEF TypeOK

LEMMA LoadKeeps ==
  ASSUME IInv, NEW t \in Tasks, NEW l \in Libraries, Load(t, l)
  PROVE  IInv'
<1> USE DEF IInv
<1>1. PICK i \in Ids :
        /\ made[i] = None
        /\ made' = [made EXCEPT ![i] = l]
        /\ open' = open \union {i}
        /\ fuel' = [fuel EXCEPT ![i] = Fuel]
        /\ pages' = [pages EXCEPT ![i] = l.pages]
        /\ held' = [held EXCEPT ![t] = i]
  BY DEF Load
<1>2. pc[t] = "idle" /\ pc' = [pc EXCEPT ![t] = "loaded"]
      /\ UNCHANGED <<registry, poisoned, result>>
  BY DEF Load
<1>3. TypeOK'
  BY <1>1, <1>2 DEF TypeOK
<1>4. Holding'
  BY <1>1, <1>2, Ids1 DEF TypeOK, Holding
<1>5. OpenWhileUsed'
  BY <1>1, <1>2, Ids1 DEF TypeOK, Holding, OpenWhileUsed, Registered
<1>6. PayloadsFit'
  BY <1>2 DEF PayloadsFit
<1>7. QED
  BY <1>3, <1>4, <1>5, <1>6

LEMMA RegisterKeeps ==
  ASSUME IInv, NEW t \in Tasks, Register(t)
  PROVE  IInv'
<1> USE DEF IInv
<1> DEFINE i == held[t]
           n == made[i].name
<1>1. /\ pc[t] = "loaded"
      /\ registry' = [registry EXCEPT ![n] = Takes(n, i)]
      /\ held' = [held EXCEPT ![t] = None]
      /\ open' = open \ Dropped(i, registry', held')
      /\ pc' = [pc EXCEPT ![t] = "idle"]
      /\ UNCHANGED <<made, fuel, pages, poisoned, result>>
  BY DEF Register
<1>2. i \in Ids /\ i # None /\ made[i] \in Libraries /\ n \in Names
  <2>1. i # None
    BY <1>1 DEF Holding
  <2>2. i \in Ids
    BY <2>1 DEF TypeOK
  <2>3. made[i] \in Libraries
    BY <2>1, <2>2 DEF TypeOK, Holding
  <2>4. QED
    BY <2>1, <2>2, <2>3
<1>3. Takes(n, i) \in Ids /\ (registry[n] # None => Takes(n, i) = registry[n])
      /\ (registry[n] = None => Takes(n, i) = i)
  BY <1>2 DEF TypeOK, Takes
<1> HIDE DEF i, n
<1>4. TypeOK'
  BY <1>1, <1>2, <1>3 DEF TypeOK
<1>5. Holding'
  BY <1>1, <1>2, <1>3 DEF TypeOK, Holding
<1>6. OpenWhileUsed'
  <2>1. CASE registry[n] # None
    <3>1. registry' = registry
      BY <1>1, <1>3, <2>1 DEF TypeOK
    <3>2. QED
      BY <1>1, <1>2, <3>1 DEF TypeOK, OpenWhileUsed, Registered, Dropped, i
  <2>2. CASE registry[n] = None
    <3>1. registry' = [registry EXCEPT ![n] = i]
      BY <1>1, <1>3, <2>2
    <3>2. Registered(registry') = Registered(registry) \union {i}
      BY <1>2, <2>2, <3>1 DEF TypeOK, Registered
    <3>3. open' = open
      BY <1>1, <1>2, <3>2 DEF Dropped
    <3>4. QED
      <4>1. {held[u] : u \in Tasks} \ {None} =
              ({held'[u] : u \in Tasks} \ {None}) \union {i}
        BY <1>1, <1>2 DEF TypeOK, i
      <4>2. QED
        BY <3>2, <3>3, <4>1 DEF OpenWhileUsed
  <2>3. QED
    BY <2>1, <2>2
<1>7. PayloadsFit'
  BY <1>1 DEF PayloadsFit
<1>8. QED
  BY <1>4, <1>5, <1>6, <1>7

LEMMA CallTransformKeeps ==
  ASSUME IInv, NEW t \in Tasks, NEW length \in Lengths, NEW cost \in 1 .. MaxCost,
         CallTransform(t, length, cost)
  PROVE  IInv'
<1> DEFINE i == held[t]
<1>1. i \in Ids
  BY DEF CallTransform, IInv, TypeOK, Holding
<1>2. /\ Grown(i, length) \in Nat
      /\ ~(Offset + length > Grown(i, length) * PageSize)
  <2>1. Offset + length \in Int /\ Grown(i, length) * PageSize \in Int
        /\ Grown(i, length) \in Nat
        /\ Offset + length <= Grown(i, length) * PageSize
    BY <1>1, MemorySuffices DEF IInv
  <2>2. QED
    BY <2>1
<1>3. CASE UNCHANGED <<fuel, pages, poisoned>>
  <2>1. \E outcome \in {"ok", "error"} : Finish(t, outcome)
    BY DEF CallTransform
  <2>2. QED
    BY <1>3, <2>1, FinishKeeps DEF IInv, TypeOK
<1>4. CASE /\ poisoned' = [poisoned EXCEPT ![i] = FALSE]
           /\ ~poisoned[i]
           /\ pages' = [pages EXCEPT ![i] = Grown(i, length)]
           /\ fuel' = [fuel EXCEPT ![i] = Burn(i, cost)]
  <2>1. \E outcome \in {"ok", "error"} : Finish(t, outcome)
    BY DEF CallTransform
  <2>2. poisoned' = poisoned
    BY <1>1, <1>4 DEF IInv, TypeOK
  <2>3. pages' \in [Ids -> Nat] /\ fuel' \in [Ids -> Nat]
    BY <1>1, <1>2, <1>4, BurnType DEF IInv, TypeOK
  <2>4. QED
    BY <2>1, <2>2, <2>3, FinishKeeps
<1> DEFINE overrun == Offset + length > Grown(i, length) * PageSize
<1>5. \/ UNCHANGED <<fuel, pages, poisoned>>
      \/ /\ ~poisoned[i]
         /\ poisoned' = [poisoned EXCEPT ![i] = overrun]
         /\ pages' = [pages EXCEPT ![i] = Grown(i, length)]
         /\ fuel' = IF overrun THEN fuel ELSE [fuel EXCEPT ![i] = Burn(i, cost)]
  BY DEF CallTransform
<1>6. overrun = FALSE
  BY <1>2
<1> HIDE DEF overrun
<1>7. QED
  BY <1>3, <1>4, <1>5, <1>6

LEMMA NextInv == IInv /\ [Next]_vars => IInv'
<1> SUFFICES ASSUME IInv, [Next]_vars
             PROVE  IInv'
  OBVIOUS
<1>1. ASSUME NEW t \in Tasks, Manage(t)
      PROVE  IInv'
  BY <1>1, LoadKeeps, RegisterKeeps DEF Manage
<1>2. ASSUME NEW t \in Tasks, NEW n \in Names, Get(t, n)
      PROVE  IInv'
  <2> USE DEF IInv
  <2>1. registry[n] \in Ids /\ registry[n] # None /\ held[t] = None
    BY <1>2, Ids1 DEF Get, TypeOK, Holding
  <2>2. TypeOK'
    BY <1>2, <2>1 DEF Get, TypeOK
  <2>3. Holding'
    BY <1>2, <2>1 DEF Get, TypeOK, Holding
  <2>4. OpenWhileUsed'
    BY <1>2, <2>1 DEF Get, TypeOK, OpenWhileUsed, Registered
  <2>5. PayloadsFit'
    BY <1>2 DEF Get, PayloadsFit
  <2>6. QED
    BY <2>2, <2>3, <2>4, <2>5
<1>3. ASSUME NEW t \in Tasks, RunTransform(t)
      PROVE  IInv'
  <2>1. \E outcome \in {"ok", "error"} : Finish(t, outcome)
    BY <1>3 DEF RunTransform
  <2>2. QED
    BY <1>3, <2>1, FinishKeeps DEF RunTransform, IInv, TypeOK
<1>4. ASSUME NEW t \in Tasks, InstanceExports(t)
      PROVE  IInv'
  <2> USE DEF IInv
  <2>1. TypeOK'
    BY <1>4 DEF InstanceExports, TypeOK
  <2>2. Holding'
    BY <1>4 DEF InstanceExports, TypeOK, Holding
  <2>3. OpenWhileUsed' /\ PayloadsFit'
    BY <1>4 DEF InstanceExports, OpenWhileUsed, PayloadsFit, Registered
  <2>4. QED
    BY <2>1, <2>2, <2>3
<1>5. ASSUME NEW t \in Tasks, Call(t)
      PROVE  IInv'
  <2>1. ASSUME NEW code \in {0, 1}, NEW cost \in 1 .. MaxCost, CallPhase(t, code, cost)
        PROVE  IInv'
    <3>1. \E outcome \in {"ok", "error"} : Finish(t, outcome)
      BY <2>1 DEF CallPhase
    <3>2. held[t] \in Ids
      BY <2>1 DEF CallPhase, IInv, TypeOK, Holding
    <3>3. fuel' \in [Ids -> Nat] /\ pages' \in [Ids -> Nat] /\ UNCHANGED poisoned
      BY <2>1, <3>2, BurnType DEF CallPhase, IInv, TypeOK
    <3>4. QED
      BY <3>1, <3>3, FinishKeeps
  <2>2. QED
    BY <1>5, <2>1, CallTransformKeeps DEF Call
<1>6. ASSUME NEW n \in Names, Unregister(n)
      PROVE  IInv'
  <2> USE DEF IInv
  <2>1. TypeOK'
    BY <1>6 DEF Unregister, TypeOK
  <2>2. Holding'
    BY <1>6 DEF Unregister, TypeOK, Holding
  <2>3. OpenWhileUsed'
    BY <1>6, Ids1 DEF Unregister, TypeOK, OpenWhileUsed, Registered, Dropped
  <2>4. PayloadsFit'
    BY <1>6 DEF Unregister, PayloadsFit
  <2>5. QED
    BY <2>1, <2>2, <2>3, <2>4
<1>7. CASE UNCHANGED vars
  BY <1>7 DEF vars, IInv, TypeOK, Holding, OpenWhileUsed, PayloadsFit, Registered
<1>8. QED
  BY <1>1, <1>2, <1>3, <1>4, <1>5, <1>6, <1>7 DEF Next, Hook

(* The variables keep their types. *)
THEOREM TypeCorrect == Spec => []TypeOK
<1>1. Spec => []IInv
  BY InitInv, NextInv, PTL DEF Spec
<1>2. IInv => TypeOK
  BY DEF IInv
<1>3. QED
  BY <1>1, <1>2, PTL

(* However tasks load, register, unregister and call, a library is open    *)
(* exactly as long as a name or a task needs it.                           *)
THEOREM LibrariesOutliveCalls == Spec => []OpenWhileUsed
<1>1. Spec => []IInv
  BY InitInv, NextInv, PTL DEF Spec
<1>2. IInv => OpenWhileUsed
  BY DEF IInv
<1>3. QED
  BY <1>1, <1>2, PTL

(* No payload of any length overruns the memory of a plugin, for any size  *)
(* of a page and any place of the payload, so no panic poisons a lock.     *)
THEOREM NoOverrun == Spec => []PayloadsFit
<1>1. Spec => []IInv
  BY InitInv, NextInv, PTL DEF Spec
<1>2. IInv => PayloadsFit
  BY DEF IInv
<1>3. QED
  BY <1>1, <1>2, PTL
=============================================================================
