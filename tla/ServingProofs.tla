---------------------------- MODULE ServingProofs -----------------------------
(***************************************************************************)
(* The safety of three components that serve requests, for any callers,    *)
(* requests, limits and messages: of Breaker, whose fields agree, and      *)
(* which implements BreakerContract; of Gateway, whose limiters are few    *)
(* because only the requests that missed the cache make one (FewLimiters), *)
(* and whose grants are counted one by one (GrantsCounted); and of         *)
(* WsForwarder, where each loop has passed on what it read (LoopOK).       *)
(***************************************************************************)
EXTENDS Breaker, Gateway, WsForwarder, FiniteSetTheorems, WellFoundedInduction, TLAPS

Inv == BreakerTypeOK /\ FieldsAgree

USE ThresholdAssumption, DurationAssumption

LEMMA InitInv == BreakerInit => Inv
  BY DEF BreakerInit, Inv, BreakerTypeOK, FieldsAgree, NotOpened

LEMMA NextInv == Inv /\ [BreakerNext]_breakerVars => Inv'
<1> SUFFICES ASSUME Inv, [BreakerNext]_breakerVars
             PROVE  Inv'
  OBVIOUS
<1> USE DEF Inv, BreakerTypeOK, NotOpened, Awaiting, Move
<1>1. ASSUME NEW c \in Callers, TryHalfOpen(c)
      PROVE  Inv'
  <2>1. BreakerTypeOK'
    BY <1>1 DEF TryHalfOpen
  <2>2. FieldsAgree'
    BY <1>1 DEF TryHalfOpen, CooledDown, FieldsAgree
  <2>3. QED BY <2>1, <2>2
<1>2. ASSUME NEW c \in Callers, Gate(c)
      PROVE  Inv'
  BY <1>2 DEF Gate, Reject, Admit, FieldsAgree
<1>3. ASSUME NEW c \in Callers, OnSuccess(c)
      PROVE  Inv'
  BY <1>3 DEF OnSuccess, FieldsAgree
<1>4. ASSUME NEW c \in Callers, OnFailure(c)
      PROVE  Inv'
  <2>1. BreakerTypeOK'
    BY <1>4 DEF OnFailure
  <2>2. FieldsAgree'
    BY <1>4 DEF OnFailure, FieldsAgree
  <2>3. QED BY <2>1, <2>2
<1>5. ASSUME NEW c \in Callers, Drop(c)
      PROVE  Inv'
  BY <1>5 DEF Drop, FieldsAgree
<1>6. CASE Tick
  BY <1>6 DEF Tick, FieldsAgree
<1>7. CASE UNCHANGED breakerVars
  BY <1>7 DEF breakerVars, FieldsAgree
<1>8. QED
  BY <1>1, <1>2, <1>3, <1>4, <1>5, <1>6, <1>7 DEF BreakerNext, Settle

(* Every reachable state of breaker.rs has well-typed fields. *)
THEOREM TypeCorrect == BreakerSpec => []BreakerTypeOK
<1>1. Inv => BreakerTypeOK
  BY DEF Inv
<1>2. QED
  BY InitInv, NextInv, <1>1, PTL DEF BreakerSpec

(* The three mutex-protected fields of the breaker always agree. *)
THEOREM FieldsAlwaysAgree == BreakerSpec => []FieldsAgree
<1>1. Inv => FieldsAgree
  BY DEF Inv
<1>2. QED
  BY InitInv, NextInv, <1>1, PTL DEF BreakerSpec

(* In a half-open breaker.rs a single failure reopens. *)
THEOREM OneFailureReopens == BreakerSpec => ProbeFailureReopens
<1>1. Inv /\ [BreakerNext]_breakerVars =>
        [\A c \in Callers :
           (OnFailure(c) /\ state = "HalfOpen") => state' = "Open"]_breakerVars
  BY DEF Inv, BreakerTypeOK, FieldsAgree, OnFailure
<1>2. QED
  BY <1>1, InitInv, NextInv, PTL DEF BreakerSpec, ProbeFailureReopens

-----------------------------------------------------------------------------
(* The refinement.  Its mapping reads the cool-down off the trip time.     *)

(* breaker.rs keeps the promises of BreakerContract. *)
THEOREM BreakerImplementsContract == BreakerSpec => KeepsContract
<1> USE DEF NotOpened, Awaiting, Move
<1>1. BreakerInit => Contract!Init
  BY DEF BreakerInit, Contract!Init, Cooldown
<1>2. Inv /\ [BreakerNext]_breakerVars => [Contract!Next]_(Contract!contractVars)
  <2> SUFFICES ASSUME Inv, Inv', [BreakerNext]_breakerVars
               PROVE  Contract!Next \/ UNCHANGED Contract!contractVars
    BY NextInv
  <2> USE DEF Inv, BreakerTypeOK, Contract!Next, Contract!contractVars
  <2>0. /\ Cooldown \in {"none", "running", "expired"}
        /\ Cooldown = "none" <=> opened_for = NotOpened
        /\ Cooldown = "expired" <=> opened_for = OpenDuration
    BY DEF Cooldown
  <2>1. ASSUME NEW c \in Callers, TryHalfOpen(c)
        PROVE  Contract!Probe \/ UNCHANGED Contract!contractVars
    BY <2>1, <2>0 DEF TryHalfOpen, CooledDown, Contract!Probe, Cooldown
  <2>2. ASSUME NEW c \in Callers, Reject(c)
        PROVE  UNCHANGED Contract!contractVars
    BY <2>2 DEF Reject, Cooldown
  <2>3. ASSUME NEW c \in Callers, Admit(c)
        PROVE  Contract!Admit(c)
    BY <2>3, <2>0 DEF Admit, FieldsAgree, Contract!Admit, Cooldown
  <2>4. ASSUME NEW c \in Callers, OnSuccess(c)
        PROVE  Contract!Recover(c)
    BY <2>4 DEF OnSuccess, Contract!Recover, Cooldown
  <2>5. ASSUME NEW c \in Callers, OnFailure(c)
        PROVE  Contract!Trip(c) \/ Contract!Tolerate(c)
    BY <2>5 DEF OnFailure, FieldsAgree, Contract!Trip, Contract!Tolerate,
                Cooldown
  <2>6. ASSUME NEW c \in Callers, Drop(c)
        PROVE  Contract!Abandon(c)
    BY <2>6 DEF Drop, Contract!Abandon, Cooldown
  <2>7. CASE Tick
    BY <2>7 DEF Tick, Contract!Expire, Cooldown
  <2>8. CASE UNCHANGED breakerVars
    BY <2>8 DEF breakerVars, Cooldown
  <2>9. QED
    BY <2>1, <2>2, <2>3, <2>4, <2>5, <2>6, <2>7, <2>8
    DEF BreakerNext, Gate, Settle
<1>3. QED
  BY <1>1, <1>2, InitInv, NextInv, PTL DEF BreakerSpec, KeepsContract, Contract!Spec

-----------------------------------------------------------------------------
USE ConfigAssumption

(* A limiter is made for each request that has missed the cache, and only  *)
(* while the cache is empty may another miss it: what was made before an   *)
(* eviction, and what those who missed it are about to make, is bounded by *)
(* the number of requests.                                                 *)
Missed(a) == {q \in Requests : At(q, "insert") /\ Algorithm(q) = a}

Crowd == Cardinality(Requests)

FewLimiters(a) ==
  LET limiters == Cardinality(LimitersOf(a))
      missed == Cardinality(Missed(a))
  IN  /\ cached[a] = None =>
           /\ limiters <= Crowd * evictions[a]
           /\ raced[a] \/ limiters <= evictions[a]
      /\ cached[a] # None =>
           /\ limiters + missed <= Crowd * (1 + evictions[a])
           /\ raced[a] \/ limiters + missed <= 1 + evictions[a]
      /\ raced[a] \/ missed <= 1

(* The requests that were allowed and have left. *)
Settled == recorded + cut + panicked

(* How a request leaves. *)
Leaving(q) ==
  Answer(q) \/ RefuseBody(q) \/ Panic(q) \/ Disconnect(q) \/ Deny(q)

GrantsCounted ==
  /\ \A i \in DOMAIN made : made[i].left <= made[i].limit.burst
  /\ IsFiniteSet(Grants)
  /\ AllowedIsRecorded

GatewayInv ==
  /\ GatewayTypeOK
  /\ \A a \in Algorithms : FewLimiters(a)
  /\ GrantsCounted

LEMMA LimitIsLimit ==
  ASSUME NEW c \in Configs
  PROVE  LimitOf(c) \in Limit
  BY DEF LimitOf

LEMMA GatewayInitInv == GatewayInit => GatewayInv
<1> SUFFICES ASSUME GatewayInit
             PROVE  GatewayInv
  OBVIOUS
<1> USE DEF GatewayInit
<1>1. GatewayTypeOK
  BY DEF GatewayTypeOK
<1>2. Cardinality({}) = 0 /\ IsFiniteSet({})
  BY FS_EmptySet
<1>3. ASSUME NEW a \in Algorithms
      PROVE  FewLimiters(a)
  <2>1. LimitersOf(a) = {} /\ Missed(a) = {}
    BY DEF LimitersOf, Missed, At
  <2>2. Crowd \in Nat
    BY FS_CardinalityType DEF Crowd
  <2>3. QED
    BY <1>2, <2>1, <2>2 DEF FewLimiters
<1>4. GrantsCounted
  <2>1. Grants = {} /\ Forwarded = {}
    BY DEF Grants, Forwarded, At
  <2>2. AllowedIsRecorded
    BY <1>2, <2>1 DEF AllowedIsRecorded
  <2>3. DOMAIN made = {}
    OBVIOUS
  <2>4. QED
    BY <1>2, <2>1, <2>2, <2>3 DEF GrantsCounted
<1>5. QED
  BY <1>1, <1>3, <1>4 DEF GatewayInv

(* The facts about one algorithm that the steps keep using. *)
LEMMA Counts ==
  ASSUME GatewayTypeOK, NEW a \in Algorithms
  PROVE  /\ IsFiniteSet(LimitersOf(a)) /\ Cardinality(LimitersOf(a)) \in Nat
         /\ IsFiniteSet(Missed(a)) /\ Cardinality(Missed(a)) \in Nat
         /\ Cardinality(Missed(a)) <= Crowd
         /\ Crowd \in Nat
         /\ evictions[a] \in Nat
         /\ Crowd * (1 + evictions[a]) = Crowd + Crowd * evictions[a]
         /\ Crowd * evictions[a] \in Nat
<1>1. IsFiniteSet(1 .. Len(made))
  <2>1. Len(made) \in Int
    BY DEF GatewayTypeOK
  <2>2. QED
    BY <2>1, FS_Interval
<1>2. LimitersOf(a) \in SUBSET (1 .. Len(made))
  BY DEF LimitersOf, GatewayTypeOK
<1>3. Missed(a) \in SUBSET Requests
  BY DEF Missed
<1>4. evictions[a] \in Nat
  BY DEF GatewayTypeOK
<1>5. Crowd \in Nat
  BY FS_CardinalityType DEF Crowd
<1>6. ASSUME NEW m \in Nat, NEW n \in Nat
      PROVE  m * (1 + n) = m + m * n /\ m * n \in Nat
  BY <1>6
<1>7. QED
  BY <1>1, <1>2, <1>3, <1>4, <1>5, <1>6, FS_Subset, FS_CardinalityType DEF Crowd

(* A step that makes no limiter of an algorithm, nor misses or evicts one. *)
LEMMA FewFrame ==
  ASSUME GatewayTypeOK, NEW a \in Algorithms, FewLimiters(a),
         LimitersOf(a)' = LimitersOf(a),
         \A q \in Requests : (stage'[q] = "insert" /\ stage'[q] # stage[q]) =>
           Algorithm(q)' # a,
         \A q \in Requests : stage'[q] = "insert" => route'[q] = route[q],
         cached'[a] = cached[a], evictions'[a] = evictions[a], raced'[a] = raced[a]
  PROVE  FewLimiters(a)'
<1>1. Missed(a)' \in SUBSET Missed(a)
  BY DEF Missed, At, Algorithm
<1>2. Cardinality(Missed(a)') \in Nat /\ Cardinality(Missed(a)') <= Cardinality(Missed(a))
  BY <1>1, Counts, FS_Subset, FS_CardinalityType
<1> DEFINE more == Missed(a)'
<1>3. Cardinality(more) \in Nat /\ Cardinality(more) <= Cardinality(Missed(a))
  BY <1>2
<1>4. Cardinality(Missed(a))' = Cardinality(more) /\ Cardinality(LimitersOf(a))' = Cardinality(LimitersOf(a))
  OBVIOUS
<1> HIDE DEF more
<1>5. QED
  BY <1>3, <1>4, Counts DEF FewLimiters, Crowd

LEMMA LookupKeeps ==
  ASSUME GatewayInv, NEW q \in Requests, Lookup(q), NEW a \in Algorithms
  PROVE  FewLimiters(a)'
<1> USE DEF Lookup, GatewayInv, GatewayTypeOK, At, Goes
<1>1. FewLimiters(a) /\ GatewayTypeOK
  OBVIOUS
<1>2. LimitersOf(a)' = LimitersOf(a)
  BY DEF LimitersOf
<1>3. CASE a # Algorithm(q) \/ cached[a] # None
  BY <1>1, <1>2, <1>3, FewFrame DEF Algorithm
<1>4. CASE a = Algorithm(q) /\ cached[a] = None
  <2>1. cached' = cached /\ evictions' = evictions
    OBVIOUS
  <2>2. raced'[a] = (raced[a] \/ Missed(a) # {})
    BY <1>4 DEF Missed
  <2>3. Missed(a)' = Missed(a) \union {q}
    BY <1>4 DEF Missed, Algorithm
  <2>4. CASE Missed(a) = {}
    <3>1. Cardinality(Missed(a)') = 1
      <4>1. Missed(a)' = {q}
        BY <2>3, <2>4
      <4>2. QED
        BY <4>1, FS_Singleton
    <3>2. QED
      BY <1>1, <1>2, <1>4, <2>1, <2>2, <2>4, <3>1 DEF FewLimiters
  <2>5. CASE Missed(a) # {}
    BY <1>1, <1>2, <1>4, <2>1, <2>2, <2>5 DEF FewLimiters
  <2>6. QED
    BY <2>4, <2>5
<1>5. QED
  BY <1>3, <1>4

LEMMA InsertKeeps ==
  ASSUME GatewayInv, NEW q \in Requests, Insert(q), NEW a \in Algorithms
  PROVE  FewLimiters(a)'
<1> DEFINE n == Len(made) + 1
<1>1. /\ FewLimiters(a) /\ GatewayTypeOK
      /\ Algorithm(q) \in Algorithms /\ route[q] \in Configs
  <2>1. route[q] \in Configs
    BY DEF GatewayInv, GatewayTypeOK, Insert, At
  <2>2. QED
    BY <2>1, LimitIsLimit DEF GatewayInv, Algorithm, Limit
<1>2. /\ DOMAIN made' = 1 .. n /\ DOMAIN made = 1 .. Len(made) /\ Len(made) \in Nat
      /\ made'[n].limit = LimitOf(route[q])
      /\ \A i \in DOMAIN made : made'[i] = made[i]
      /\ Len(made') = n
  BY DEF Insert, GatewayInv, GatewayTypeOK
<1>3. /\ stage' = [stage EXCEPT ![q] = "check"] /\ stage[q] = "insert"
      /\ route' = route /\ raced' = raced /\ evictions' = evictions
      /\ cached' = [cached EXCEPT ![Algorithm(q)] = n]
      /\ stage \in [Requests -> {"idle", "lookup", "insert", "check", "body", "forward"}]
      /\ cached \in [Algorithms -> DOMAIN made \union {None}]
  BY <1>2 DEF Insert, At, Goes, GatewayInv, GatewayTypeOK
<1>4. CASE a # Algorithm(q)
  <2>1. LimitersOf(a)' = LimitersOf(a)
    BY <1>2, <1>4 DEF LimitersOf, Algorithm
  <2>2. QED
    BY <1>1, <1>3, <1>4, <2>1, FewFrame
<1>5. CASE a = Algorithm(q)
  <2>1. LimitersOf(a)' = LimitersOf(a) \union {n} /\ n \notin LimitersOf(a)
    BY <1>2, <1>5 DEF LimitersOf, Algorithm
  <2>2. Missed(a)' = Missed(a) \ {q} /\ q \in Missed(a)
    BY <1>3, <1>5 DEF Missed, At, Algorithm
  <2>3. cached'[a] = n /\ n # None
    BY <1>2, <1>3, <1>5
  <2>4. /\ Cardinality(LimitersOf(a)') = Cardinality(LimitersOf(a)) + 1
        /\ Cardinality(Missed(a)') = Cardinality(Missed(a)) - 1
    <3>1. IsFiniteSet(LimitersOf(a)) /\ IsFiniteSet(Missed(a))
      BY <1>1, Counts
    <3>2. Cardinality(LimitersOf(a) \union {n}) = Cardinality(LimitersOf(a)) + 1
      BY <2>1, <3>1, FS_AddElement
    <3>3. Cardinality(Missed(a) \ {q}) = Cardinality(Missed(a)) - 1
      BY <2>2, <3>1, FS_RemoveElement
    <3>4. QED
      BY <2>1, <2>2, <3>2, <3>3
  <2>5. /\ Cardinality(LimitersOf(a))' = Cardinality(LimitersOf(a)) + 1
        /\ Cardinality(Missed(a))' = Cardinality(Missed(a)) - 1
        /\ Crowd' = Crowd /\ raced'[a] = raced[a] /\ evictions'[a] = evictions[a]
    BY <1>3, <2>4 DEF Crowd
  <2> DEFINE limiters == Cardinality(LimitersOf(a))
             missed == Cardinality(Missed(a))
             most == Crowd * (1 + evictions[a])
  <2>6. limiters \in Nat /\ missed \in Nat /\ evictions[a] \in Nat /\ most \in Nat
        /\ Crowd \in Nat /\ most = Crowd + Crowd * evictions[a]
        /\ Crowd * evictions[a] \in Nat /\ missed <= Crowd
    BY <1>1, Counts
  <2>7. /\ limiters + missed <= most
        /\ raced[a] \/ limiters + missed <= 1 + evictions[a]
        /\ raced[a] \/ missed <= 1
    <3>1. CASE cached[a] = None
      BY <1>1, <2>6, <3>1 DEF FewLimiters
    <3>2. CASE cached[a] # None
      BY <1>1, <3>2 DEF FewLimiters
    <3>3. QED
      BY <1>1, <3>1, <3>2 DEF FewLimiters
  <2>8. /\ (limiters + 1) + (missed - 1) <= most
        /\ raced[a] \/ (limiters + 1) + (missed - 1) <= 1 + evictions[a]
        /\ raced[a] \/ missed - 1 <= 1
    BY <2>6, <2>7
  <2>9. QED
    BY <2>3, <2>5, <2>8 DEF FewLimiters
<1>6. QED
  BY <1>4, <1>5

LEMMA EvictKeeps ==
  ASSUME GatewayInv, NEW b \in Algorithms, Evict(b), NEW a \in Algorithms
  PROVE  FewLimiters(a)'
<1>1. FewLimiters(a) /\ GatewayTypeOK
  BY DEF GatewayInv
<1>2. LimitersOf(a)' = LimitersOf(a) /\ Missed(a)' = Missed(a)
  BY DEF Evict, LimitersOf, Missed, At, Algorithm
<1>3. CASE a # b
  BY <1>1, <1>2, <1>3, FewFrame DEF Evict, GatewayTypeOK
<1>4. CASE a = b
  <2>1. /\ cached[a] # None /\ cached'[a] = None
        /\ evictions'[a] = 1 + evictions[a] /\ raced' = raced
    BY <1>4 DEF Evict, GatewayInv, GatewayTypeOK
  <2>2. /\ Cardinality(LimitersOf(a))' = Cardinality(LimitersOf(a))
        /\ Cardinality(Missed(a))' = Cardinality(Missed(a))
        /\ Crowd' = Crowd
    BY <1>2 DEF Crowd
  <2>3. QED
    BY <1>1, <2>1, <2>2, Counts DEF FewLimiters
<1>5. QED
  BY <1>3, <1>4

-----------------------------------------------------------------------------
(* A step that grants nothing, and forwards, records or gives up nothing   *)
(* but together.                                                           *)
LEMMA GrantsFrame ==
  ASSUME GatewayInv, Grants' = Grants,
         \A i \in DOMAIN made' : made'[i].left <= made'[i].limit.burst,
         Settled' + Cardinality(Forwarded') = Settled + Cardinality(Forwarded)
  PROVE  GrantsCounted'
<1>1. AllowedIsRecorded
  BY DEF GatewayInv, GrantsCounted
<1>2. AllowedIsRecorded'
  BY <1>1 DEF AllowedIsRecorded, Settled
<1>3. QED
  BY <1>2 DEF GatewayInv, GrantsCounted

LEMMA InsertGrantsNothing ==
  ASSUME GatewayInv, NEW q \in Requests, Insert(q)
  PROVE  GrantsCounted'
<1> DEFINE n == Len(made) + 1
           limit == LimitOf(route[q])
<1>1. /\ DOMAIN made' = 1 .. n /\ DOMAIN made = 1 .. Len(made) /\ Len(made) \in Nat
      /\ made'[n] = [limit |-> limit, left |-> limit.burst]
      /\ \A i \in DOMAIN made : made'[i] = made[i]
  BY DEF Insert, GatewayInv, GatewayTypeOK
<1>2. limit \in Limit
  BY LimitIsLimit DEF GatewayInv, GatewayTypeOK, Insert, At
<1>3. Grants' = Grants
  <2>1. made'[n].left = limit.burst /\ made'[n].limit.burst = limit.burst /\ limit.burst \in Nat
    BY <1>1, <1>2 DEF Limit
  <2>2. {n} \X (made'[n].left + 1 .. made'[n].limit.burst) = {}
    BY <2>1
  <2>3. DOMAIN made' = DOMAIN made \union {n}
    BY <1>1
  <2>4. QED
    BY <1>1, <2>2, <2>3 DEF Grants
<1>4. \A i \in DOMAIN made' : made'[i].left <= made'[i].limit.burst
  <2>1. made'[n].left <= made'[n].limit.burst
    BY <1>1, <1>2 DEF Limit
  <2>2. \A i \in DOMAIN made : made[i].left <= made[i].limit.burst
    BY DEF GatewayInv, GrantsCounted
  <2>3. QED
    BY <1>1, <2>1, <2>2
<1>5. Forwarded' = Forwarded /\ Settled' = Settled
  BY DEF Insert, Forwarded, At, Goes, counted, Settled, GatewayInv, GatewayTypeOK
<1>6. QED
  BY <1>3, <1>4, <1>5, GrantsFrame

LEMMA MadeAreLimiters ==
  ASSUME GatewayTypeOK, NEW i \in DOMAIN made
  PROVE  made[i] \in [limit : Limit, left : Nat]
<1> DEFINE limiters == [limit : Limit, left : Nat]
<1>1. made \in Seq(limiters)
  BY DEF GatewayTypeOK
<1> HIDE DEF limiters
<1>2. made[i] \in limiters
  BY <1>1
<1>3. QED
  BY <1>2 DEF limiters

(* A request that is to ask its limiter has one. *)
LEMMA LimiterToAsk ==
  ASSUME GatewayTypeOK, NEW q \in Requests, Allow(q)
  PROVE  LET i == limiter[q]
             rest == [made[i] EXCEPT !.left = @ - 1]
         IN  /\ i \in DOMAIN made
             /\ made[i].left \in Nat /\ made[i].left > 0 /\ made[i].limit.burst \in Nat
             /\ rest \in [limit : Limit, left : Nat]
             /\ rest.left = made[i].left - 1 /\ rest.limit = made[i].limit
             /\ made' = [made EXCEPT ![i] = rest]
<1> DEFINE i == limiter[q]
           rest == [made[i] EXCEPT !.left = @ - 1]
<1>1. i \in DOMAIN made /\ made[i].left > 0
  <2>1. limiter[q] # None /\ limiter[q] \in DOMAIN made \union {None}
    BY DEF GatewayTypeOK, Allow, At
  <2>2. QED
    BY <2>1 DEF Allow
<1>2. made[i] \in [limit : Limit, left : Nat]
  BY <1>1, MadeAreLimiters
<1>3. made' = [made EXCEPT ![i] = rest]
  BY DEF Allow
<1> HIDE DEF i
<1>4. made[i].limit.burst \in Nat
  BY <1>2 DEF Limit
<1>5. /\ rest \in [limit : Limit, left : Nat]
      /\ rest.left = made[i].left - 1 /\ rest.limit = made[i].limit
  BY <1>1, <1>2
<1>6. QED
  BY <1>1, <1>2, <1>3, <1>4, <1>5 DEF i

LEMMA AllowGrantsOne ==
  ASSUME GatewayInv, NEW q \in Requests, Allow(q)
  PROVE  GrantsCounted'
<1> DEFINE i == limiter[q]
           left == made[i].left
<1>1. /\ i \in DOMAIN made /\ left \in Nat /\ left > 0
      /\ made[i].limit.burst \in Nat /\ left <= made[i].limit.burst
  BY LimiterToAsk DEF GatewayInv, GrantsCounted
<1>2. /\ DOMAIN made' = DOMAIN made
      /\ made'[i].left = left - 1 /\ made'[i].limit = made[i].limit
      /\ \A j \in DOMAIN made \ {i} : made'[j] = made[j]
  <2> DEFINE rest == [made[i] EXCEPT !.left = @ - 1]
  <2>1. /\ rest.left = left - 1 /\ rest.limit = made[i].limit
        /\ made' = [made EXCEPT ![i] = rest]
    BY LimiterToAsk DEF GatewayInv
  <2> HIDE DEF rest, i, left
  <2>2. QED
    BY ONLY <1>1, <2>1
<1> HIDE DEF i
<1> DEFINE token == <<i, left>>
<1>3. token \notin Grants
  BY <1>1 DEF Grants
<1>4. Grants' = Grants \union {token}
  <2>1. {i} \X (made'[i].left + 1 .. made'[i].limit.burst) =
          ({i} \X (made[i].left + 1 .. made[i].limit.burst)) \union {token}
    <3>1. left .. made[i].limit.burst = (left + 1 .. made[i].limit.burst) \union {left}
      BY <1>1
    <3>2. made'[i].left + 1 = left
      BY <1>1, <1>2
    <3>3. QED
      BY <1>2, <3>1, <3>2 DEF left
  <2>2. \A j \in DOMAIN made : j # i =>
          {j} \X (made'[j].left + 1 .. made'[j].limit.burst) =
            {j} \X (made[j].left + 1 .. made[j].limit.burst)
    BY <1>2
  <2>3. QED
    BY <1>1, <1>2, <2>1, <2>2 DEF Grants
<1>5. /\ IsFiniteSet(Grants') /\ Cardinality(Grants') = Cardinality(Grants) + 1
  BY <1>3, <1>4, FS_AddElement DEF GatewayInv, GrantsCounted
<1>6. Cardinality(Forwarded') = Cardinality(Forwarded) + 1 /\ Cardinality(Forwarded) \in Nat
  <2>1. Forwarded' = Forwarded \union {q} /\ q \notin Forwarded
    BY DEF Allow, Forwarded, At, Goes, GatewayInv, GatewayTypeOK
  <2>2. Forwarded \in SUBSET Requests
    BY DEF Forwarded
  <2>3. IsFiniteSet(Forwarded)
    BY <2>2, FS_Subset
  <2>4. QED
    BY <2>1, <2>3, FS_AddElement, FS_CardinalityType
<1>7. UNCHANGED counted /\ Settled \in Nat
  BY DEF Allow, Settled, GatewayInv, GatewayTypeOK
<1>8. AllowedIsRecorded'
  BY <1>5, <1>6, <1>7
  DEF AllowedIsRecorded, Settled, counted, GatewayInv, GrantsCounted
<1>9. \A j \in DOMAIN made' : made'[j].left <= made'[j].limit.burst
  <2>1. \A j \in DOMAIN made : made[j].left <= made[j].limit.burst
    BY DEF GatewayInv, GrantsCounted
  <2>2. QED
    BY <1>1, <1>2, <2>1
<1>10. QED
  BY <1>5, <1>8, <1>9 DEF GrantsCounted

LEMMA LeavingIsCounted ==
  ASSUME GatewayInv, NEW q \in Requests, Leaving(q)
  PROVE  GrantsCounted'
<1> USE DEF Leaving, Answer, RefuseBody, Return
<1>1. Grants' = Grants /\ \A i \in DOMAIN made' : made'[i].left <= made'[i].limit.burst
  BY DEF Panic, Disconnect, Deny, limiting, Grants, GatewayInv, GrantsCounted
<1>2. IsFiniteSet(Forwarded)
  <2>1. Forwarded \in SUBSET Requests
    BY DEF Forwarded
  <2>2. QED
    BY <2>1, FS_Subset
<1>3. Forwarded' = Forwarded \ {q}
  <2>1. /\ stage' = [stage EXCEPT ![q] = "idle"]
        /\ stage \in [Requests -> {"idle", "lookup", "insert", "check", "body", "forward"}]
    BY DEF Panic, Disconnect, Deny, Leaves, Goes, GatewayInv, GatewayTypeOK
  <2>2. QED
    BY <2>1 DEF Forwarded
<1>4. {recorded, cut, panicked} \subseteq Nat /\ Cardinality(Forwarded) \in Nat
  BY <1>2, FS_CardinalityType DEF GatewayInv, GatewayTypeOK
<1>5. Cardinality(Forwarded') =
        IF q \in Forwarded THEN Cardinality(Forwarded) - 1 ELSE Cardinality(Forwarded)
  BY <1>2, <1>3, FS_RemoveElement
<1>6. Settled' = IF q \in Forwarded THEN Settled + 1 ELSE Settled
  <2>1. CASE (At(q, "forward") \/ At(q, "body")) /\ Return(q)
    BY <1>4, <2>1 DEF At, Forwarded, Settled
  <2>2. CASE Panic(q)
    BY <1>4, <2>2 DEF Panic, At, Forwarded, Settled
  <2>3. CASE Disconnect(q)
    BY <1>4, <2>3 DEF Disconnect, Settled
  <2>4. CASE Deny(q)
    BY <1>4, <2>4 DEF Deny, At, Forwarded, counted, Settled
  <2>5. QED
    BY <2>1, <2>2, <2>3, <2>4
<1>7. Settled' + Cardinality(Forwarded') = Settled + Cardinality(Forwarded)
  <2> DEFINE before == Cardinality(Forwarded)
             after == Cardinality(Forwarded')
  <2>1. before \in Nat /\ Settled \in Nat
    BY <1>4 DEF Settled
  <2>2. after = IF q \in Forwarded THEN before - 1 ELSE before
    BY <1>5
  <2> HIDE DEF before, after
  <2>3. Settled' + after = Settled + before
    BY <1>6, <2>1, <2>2
  <2>4. QED
    BY <2>3 DEF before, after
<1>8. QED
  BY <1>1, <1>7, GrantsFrame

LEMMA GatewayTypeKept ==
  ASSUME GatewayTypeOK, [GatewayNext]_gatewayVars
  PROVE  GatewayTypeOK'
<1> USE DEF GatewayTypeOK, At, Goes, Leaves, limiting, counted
<1>1. ASSUME NEW q \in Requests, NEW credential \in BOOLEAN, Refuse(q, credential)
      PROVE  GatewayTypeOK'
  BY <1>1 DEF Refuse
<1>2. ASSUME NEW q \in Requests, NEW credential \in BOOLEAN, Accept(q, credential)
      PROVE  GatewayTypeOK'
  <2>1. table \in Configs
    BY <1>2 DEF Accept, MayResolve
  <2>2. QED
    BY <1>2, <2>1 DEF Accept
<1>3. ASSUME NEW q \in Requests, Lookup(q)
      PROVE  GatewayTypeOK'
  <2>1. Algorithm(q) \in Algorithms
    BY <1>3, LimitIsLimit DEF Lookup, Algorithm, Limit
  <2>2. QED
    BY <1>3, <2>1 DEF Lookup
<1>4. ASSUME NEW q \in Requests, Insert(q)
      PROVE  GatewayTypeOK'
  <2>1. LimitOf(route[q]) \in Limit /\ Algorithm(q) \in Algorithms
    BY <1>4, LimitIsLimit DEF Insert, Algorithm, Limit
  <2>2. LimitOf(route[q]).burst \in Nat
    BY <2>1 DEF Limit
  <2>3. made' \in Seq([limit : Limit, left : Nat])
    BY <1>4, <2>1, <2>2 DEF Insert
  <2>4. DOMAIN made \subseteq DOMAIN made' /\ Len(made') \in DOMAIN made' /\ Len(made') \in Nat
    BY <1>4 DEF Insert
  <2>5. limiter' \in [Requests -> DOMAIN made' \union {None}] /\ limiter'[q] # None
        /\ \A p \in Requests \ {q} : limiter'[p] = limiter[p]
    BY <1>4, <2>4 DEF Insert
  <2>6. cached' \in [Algorithms -> DOMAIN made' \union {None}]
    BY <1>4, <2>4 DEF Insert
  <2>7. QED
    BY <1>4, <2>3, <2>5, <2>6 DEF Insert
<1>5. ASSUME NEW q \in Requests, Allow(q)
      PROVE  GatewayTypeOK'
  <2>1. DOMAIN made' = DOMAIN made /\ made' \in Seq([limit : Limit, left : Nat])
    <3> DEFINE i == limiter[q]
               rest == [made[i] EXCEPT !.left = @ - 1]
    <3>1. /\ i \in DOMAIN made /\ rest \in [limit : Limit, left : Nat]
          /\ made' = [made EXCEPT ![i] = rest]
      BY <1>5, LimiterToAsk
    <3> HIDE DEF i, rest
    <3>2. QED
      BY <3>1, SMTT(20)
  <2>2. QED
    BY <1>5, <2>1 DEF Allow
<1>6. ASSUME NEW q \in Requests, Leaving(q)
      PROVE  GatewayTypeOK'
  <2>1. CASE Deny(q)
    BY <2>1 DEF Deny
  <2>2. CASE Return(q)
    BY <2>2 DEF Return
  <2>3. CASE Disconnect(q)
    BY <2>3, SMTT(20) DEF Disconnect
  <2>4. CASE Panic(q)
    BY <2>4 DEF Panic
  <2>5. QED
    BY <1>6, <2>1, <2>2, <2>3, <2>4 DEF Leaving, Answer, RefuseBody
<1>7. ASSUME NEW c \in Configs \union {None}, Reload(c)
      PROVE  GatewayTypeOK'
  BY <1>7 DEF Reload
<1>8. ASSUME NEW a \in Algorithms, Evict(a)
      PROVE  GatewayTypeOK'
  <2>1. /\ cached' \in [Algorithms -> DOMAIN made \union {None}]
        /\ evictions' \in [Algorithms -> Nat]
    BY <1>8 DEF Evict
  <2>2. UNCHANGED <<table, reloads, asked, stage, route, limiter, made, raced,
                    recorded, cut, panicked>>
    BY <1>8 DEF Evict
  <2> HIDE DEF At, Goes, Leaves
  <2>3. QED
    BY <2>1, <2>2
<1>9. ASSUME NEW q \in Requests, ReadBody(q)
      PROVE  GatewayTypeOK'
  BY <1>9 DEF ReadBody
<1>10. CASE UNCHANGED gatewayVars
  BY <1>10 DEF gatewayVars
<1>11. QED
  BY <1>1, <1>2, <1>3, <1>4, <1>5, <1>6, <1>7, <1>8, <1>9, <1>10
  DEF GatewayNext, Serve, BodyEnds, Leaving

LEMMA GatewayNextInv == GatewayInv /\ [GatewayNext]_gatewayVars => GatewayInv'
<1> SUFFICES ASSUME GatewayInv, [GatewayNext]_gatewayVars
             PROVE  GatewayInv'
  OBVIOUS
<1>1. GatewayTypeOK' /\ GatewayTypeOK /\ (\A a \in Algorithms : FewLimiters(a))
  BY GatewayTypeKept DEF GatewayInv
<1>2. ASSUME UNCHANGED limiting, UNCHANGED counted, Forwarded' = Forwarded,
             \A q \in Requests : stage'[q] = "insert" => stage[q] = "insert" /\ route'[q] = route[q]
      PROVE  GatewayInv'
  <2>1. ASSUME NEW a \in Algorithms
        PROVE  FewLimiters(a)'
    BY <1>1, <1>2, FewFrame DEF limiting, LimitersOf
  <2>2. GrantsCounted'
    BY <1>2, GrantsFrame
    DEF limiting, counted, Settled, Grants, GatewayInv, GrantsCounted
  <2>3. QED
    BY <1>1, <2>1, <2>2 DEF GatewayInv
<1>3. ASSUME NEW q \in Requests, NEW credential \in BOOLEAN,
             Refuse(q, credential) \/ Accept(q, credential)
      PROVE  GatewayInv'
  <2>1. /\ UNCHANGED limiting /\ UNCHANGED counted
        /\ \/ stage' = stage /\ route' = route
           \/ /\ stage[q] = "idle" /\ stage' = [stage EXCEPT ![q] = "lookup"]
              /\ route' = [route EXCEPT ![q] = table]
    BY <1>3 DEF Refuse, Accept, At, Goes
  <2>2. Forwarded' = Forwarded
    BY <1>1, <2>1 DEF Forwarded, At, GatewayTypeOK
  <2>3. QED
    BY <1>1, <1>2, <2>1, <2>2 DEF GatewayTypeOK
<1>4. ASSUME NEW q \in Requests, Lookup(q)
      PROVE  GatewayInv'
  <2>1. GrantsCounted'
    <3>1. Forwarded' = Forwarded
      BY <1>1, <1>4 DEF Lookup, Forwarded, At, Goes, GatewayTypeOK
    <3>2. QED
      BY <1>4, <3>1, GrantsFrame
      DEF Lookup, counted, Settled, Grants, GatewayInv, GrantsCounted
  <2>2. QED
    BY <1>1, <1>4, <2>1, LookupKeeps DEF GatewayInv
<1>5. ASSUME NEW q \in Requests, Insert(q)
      PROVE  GatewayInv'
  BY <1>1, <1>5, InsertKeeps, InsertGrantsNothing DEF GatewayInv
<1>6. ASSUME NEW q \in Requests, Allow(q)
      PROVE  GatewayInv'
  <2>1. ASSUME NEW a \in Algorithms
        PROVE  FewLimiters(a)'
    <3>1. /\ made \in Seq([limit : Limit, left : Nat]) /\ limiter[q] \in DOMAIN made
          /\ made' = [made EXCEPT ![limiter[q]].left = @ - 1]
      BY <1>1, <1>6, LimiterToAsk DEF Allow, GatewayTypeOK
    <3>2. DOMAIN made' = DOMAIN made /\ \A i \in DOMAIN made : made'[i].limit = made[i].limit
      BY <3>1
    <3>3. LimitersOf(a)' = LimitersOf(a)
      BY <3>2 DEF LimitersOf
    <3>4. QED
      BY <1>1, <1>6, <3>3, FewFrame DEF Allow, At, Goes, GatewayTypeOK
  <2>2. QED
    BY <1>1, <1>6, <2>1, AllowGrantsOne DEF GatewayInv
<1>7. ASSUME NEW q \in Requests, Leaving(q)
      PROVE  GatewayInv'
  <2>1. ASSUME NEW a \in Algorithms
        PROVE  FewLimiters(a)'
    <3>1. UNCHANGED limiting /\ Leaves(q)
      BY <1>7 DEF Leaving, Answer, RefuseBody, Return, Panic, Disconnect, Deny
    <3>2. LimitersOf(a)' = LimitersOf(a)
      BY <3>1 DEF limiting, LimitersOf
    <3>3. QED
      BY <1>1, <3>1, <3>2, FewFrame DEF limiting, Leaves, Goes, GatewayTypeOK
  <2>2. QED
    BY <1>1, <1>7, <2>1, LeavingIsCounted DEF GatewayInv
<1>8. ASSUME NEW c \in Configs \union {None}, Reload(c)
      PROVE  GatewayInv'
  BY <1>2, <1>8 DEF Reload, Forwarded, At
<1>9. ASSUME NEW b \in Algorithms, Evict(b)
      PROVE  GatewayInv'
  <2>1. GrantsCounted'
    BY <1>9, GrantsFrame
    DEF Evict, counted, Settled, Grants, Forwarded, GatewayInv, GrantsCounted
  <2>2. QED
    BY <1>1, <1>9, <2>1, EvictKeeps DEF GatewayInv
<1>10. ASSUME NEW q \in Requests, ReadBody(q)
      PROVE  GatewayInv'
  <2>1. Forwarded' = Forwarded
    BY <1>1, <1>10 DEF ReadBody, Forwarded, At, Goes, GatewayTypeOK
  <2>2. QED
    BY <1>1, <1>2, <1>10, <2>1 DEF ReadBody, At, Goes, GatewayTypeOK
<1>11. CASE UNCHANGED gatewayVars
  BY <1>2, <1>11 DEF gatewayVars, limiting, counted, Forwarded
<1>12. QED
  BY <1>3, <1>4, <1>5, <1>6, <1>7, <1>8, <1>9, <1>10, <1>11
  DEF GatewayNext, Serve, BodyEnds, Leaving

(* Every reachable state of the gateway is well typed: a request has a     *)
(* limiter exactly when it has looked one up or made one.                  *)
THEOREM GatewayTypeCorrect == GatewaySpec => []GatewayTypeOK
<1>1. GatewayInv => GatewayTypeOK
  BY DEF GatewayInv
<1>2. QED
  BY <1>1, GatewayInitInv, GatewayNextInv, PTL DEF GatewaySpec

(* Nothing is forwarded past the limiters; and what they let through the   *)
(* metrics miss only if its client went away or its body made the adapter  *)
(* panic.                                                                  *)
THEOREM EveryGrantIsRecorded == GatewaySpec => []AllowedIsRecorded
<1>1. GatewayInv => AllowedIsRecorded
  BY DEF GatewayInv, GrantsCounted
<1>2. QED
  BY <1>1, GatewayInitInv, GatewayNextInv, PTL DEF GatewaySpec

-----------------------------------------------------------------------------
(* A set of naturals with an element has a least one. *)
LEMMA LeastNatural ==
  ASSUME NEW S \in SUBSET Nat, S # {}
  PROVE  \E n \in S : \A m \in S : n <= m
<1>1. \E n \in S : \A m \in S : ~(<<m, n>> \in OpToRel(<, Nat))
  BY NatLessThanWellFounded, WFMin
<1>2. ASSUME NEW m \in Nat, NEW n \in Nat, m < n
      PROVE  <<m, n>> \in OpToRel(<, Nat)
  <2>1. <<m, n>> \in Nat \X Nat /\ <<m, n>>[1] < <<m, n>>[2]
    BY <1>2
  <2>2. QED
    BY <2>1 DEF OpToRel
<1>3. PICK n \in S : \A m \in S : ~(<<m, n>> \in OpToRel(<, Nat))
  BY <1>1
<1>4. ASSUME NEW m \in S
      PROVE  n <= m
  <2>1. m \in Nat /\ n \in Nat
    OBVIOUS
  <2>2. ~(m < n)
    BY <1>2, <1>3, <2>1
  <2>3. QED
    BY <2>1, <2>2
<1>5. QED
  BY <1>4

(* A finite set of naturals with an element has a greatest one: the one    *)
(* with the fewest above it.                                               *)
LEMMA GreatestOfFinite ==
  ASSUME NEW S \in SUBSET Nat, IsFiniteSet(S), S # {}
  PROVE  Max(S) \in S /\ \A m \in S : m <= Max(S)
<1> DEFINE Above(n) == {m \in S : n < m}
           counts == {Cardinality(Above(n)) : n \in S}
<1>1. ASSUME NEW n \in S
      PROVE  IsFiniteSet(Above(n)) /\ Cardinality(Above(n)) \in Nat
  <2>1. Above(n) \in SUBSET S
    OBVIOUS
  <2>2. QED
    BY <2>1, FS_Subset, FS_CardinalityType
<1>2. ASSUME NEW n \in S, NEW m \in S, n < m
      PROVE  Cardinality(Above(m)) < Cardinality(Above(n))
  <2>1. n \in Nat /\ m \in Nat
    OBVIOUS
  <2>2. \A k \in S : m < k => n < k
    BY <1>2, <2>1
  <2>3. Above(m) \in SUBSET Above(n)
    BY <2>2
  <2>4. m \in Above(n) /\ m \notin Above(m)
    BY <1>2, <2>1
  <2>5. /\ Cardinality(Above(m)) <= Cardinality(Above(n))
        /\ Cardinality(Above(m)) # Cardinality(Above(n))
    <3>1. IsFiniteSet(Above(n))
      BY <1>1
    <3> HIDE DEF Above
    <3>2. QED
      BY <2>3, <2>4, <3>1, FS_Subset
  <2>6. Cardinality(Above(m)) \in Nat /\ Cardinality(Above(n)) \in Nat
    BY <1>1
  <2> HIDE DEF Above
  <2>7. QED
    BY <2>5, <2>6
<1> HIDE DEF Above
<1>3. PICK least \in counts : \A k \in counts : least <= k
  <2>1. counts \in SUBSET Nat /\ counts # {}
    BY <1>1
  <2>2. QED
    BY <2>1, LeastNatural
<1>4. PICK n \in S : least = Cardinality(Above(n))
  BY <1>3
<1>5. ASSUME NEW m \in S
      PROVE  n >= m
  <2>1. ~ (Cardinality(Above(m)) < Cardinality(Above(n)))
    BY <1>1, <1>3, <1>4
  <2>2. n \in Nat /\ m \in Nat
    OBVIOUS
  <2>3. QED
    BY <1>2, <2>1, <2>2
<1>6. Max(S) \in S /\ \A m \in S : Max(S) >= m
  BY <1>5 DEF Max
<1>7. QED
  BY <1>6

LEMMA TimesMonotone ==
  ASSUME NEW k \in Nat, NEW m \in Nat, NEW n \in Nat, k <= m
  PROVE  k * n <= m * n
  OBVIOUS

(* What an algorithm's limiters let through, each at most the largest      *)
(* burst among them.                                                       *)
LEMMA GrantsPerLimiter ==
  ASSUME GatewayInv, NEW a \in Algorithms
  PROVE  /\ LargestBurst(a) \in Nat
         /\ Cardinality(GrantsOf(a)) <= Cardinality(LimitersOf(a)) * LargestBurst(a)
<1> DEFINE bursts == {0} \union {made[i].limit.burst : i \in LimitersOf(a)}
<1>1. IsFiniteSet(LimitersOf(a)) /\ LimitersOf(a) \subseteq DOMAIN made
  BY Counts DEF GatewayInv, LimitersOf
<1>2. ASSUME NEW i \in DOMAIN made
      PROVE  made[i].limit.burst \in Nat /\ made[i].left \in Nat
  <2>1. made[i] \in [limit : Limit, left : Nat]
    BY MadeAreLimiters DEF GatewayInv
  <2>2. QED
    BY <2>1 DEF Limit
<1>3. IsFiniteSet(bursts) /\ bursts \in SUBSET Nat
  <2> DEFINE f == [i \in LimitersOf(a) |-> made[i].limit.burst]
             T == {made[i].limit.burst : i \in LimitersOf(a)}
  <2>1. f \in Surjection(LimitersOf(a), T)
    BY DEF Surjection
  <2>2. IsFiniteSet(T)
    BY <1>1, <2>1, FS_Surjection
  <2>3. bursts = T \union {0}
    OBVIOUS
  <2>4. IsFiniteSet(T \union {0})
    BY <2>2, FS_AddElement
  <2>5. \A i \in LimitersOf(a) : made[i].limit.burst \in Nat
    BY <1>1, <1>2
  <2>6. T \in SUBSET Nat
    BY <2>5
  <2> HIDE DEF T
  <2>7. bursts \in SUBSET Nat /\ IsFiniteSet(bursts)
    <3> HIDE DEF bursts
    <3>1. QED
      BY <2>3, <2>4, <2>6
  <2>8. QED
    BY <2>7
<1>4. LargestBurst(a) \in Nat /\ \A i \in LimitersOf(a) : made[i].limit.burst <= LargestBurst(a)
  BY <1>3, GreatestOfFinite DEF LargestBurst
<1>5. GrantsOf(a) \in SUBSET (LimitersOf(a) \X (1 .. LargestBurst(a)))
  BY <1>1, <1>2, <1>4 DEF GrantsOf, Grants
<1>6. /\ IsFiniteSet(1 .. LargestBurst(a))
      /\ Cardinality(1 .. LargestBurst(a)) = LargestBurst(a)
  BY <1>4, FS_Interval
<1> DEFINE all == LimitersOf(a) \X (1 .. LargestBurst(a))
<1>7. /\ IsFiniteSet(all)
      /\ Cardinality(all) = Cardinality(LimitersOf(a)) * LargestBurst(a)
  BY <1>1, <1>6, FS_Product
<1>8. Cardinality(GrantsOf(a)) <= Cardinality(all)
  BY <1>5, <1>7, FS_Subset
<1>9. QED
  BY <1>4, <1>7, <1>8

(* A route has one limiter per algorithm but for evictions and races, and  *)
(* no race lets more through than a burst for each task that serves        *)
(* requests, once and once more per eviction.                              *)
THEOREM OneLimiterPerAlgorithm == GatewaySpec => []OneLimiterUnlessRaced
<1>1. GatewayInv => OneLimiterUnlessRaced
  <2> SUFFICES ASSUME GatewayInv, NEW a \in Algorithms
               PROVE  /\ raced[a] \/ Cardinality(LimitersOf(a)) <= 1 + evictions[a]
                      /\ Cardinality(GrantsOf(a)) <=
                           Crowd * (1 + evictions[a]) * LargestBurst(a)
    BY DEF OneLimiterUnlessRaced, Crowd
  <2> DEFINE limiters == Cardinality(LimitersOf(a))
             granted == Cardinality(GrantsOf(a))
             most == Crowd * (1 + evictions[a])
             missed == Cardinality(Missed(a))
  <2>1. /\ limiters \in Nat /\ missed \in Nat /\ evictions[a] \in Nat /\ Crowd \in Nat
        /\ most = Crowd + Crowd * evictions[a] /\ Crowd * evictions[a] \in Nat /\ most \in Nat
    BY Counts DEF GatewayInv
  <2>2. /\ limiters <= most
        /\ raced[a] \/ limiters <= 1 + evictions[a]
    <3>1. CASE cached[a] = None
      BY <2>1, <3>1 DEF GatewayInv, FewLimiters
    <3>2. CASE cached[a] # None
      <4>1. /\ limiters + missed <= most
            /\ raced[a] \/ limiters + missed <= 1 + evictions[a]
        BY <3>2 DEF GatewayInv, FewLimiters
      <4>2. QED
        BY <2>1, <4>1
    <3>3. QED
      BY <3>1, <3>2
  <2>3. LargestBurst(a) \in Nat /\ granted <= limiters * LargestBurst(a)
    BY GrantsPerLimiter
  <2>4. granted \in Nat
    <3>1. GrantsOf(a) \in SUBSET Grants /\ IsFiniteSet(Grants)
      BY DEF GrantsOf, GatewayInv, GrantsCounted
    <3>2. QED
      BY <3>1, FS_Subset, FS_CardinalityType
  <2> HIDE DEF limiters, granted, most
  <2>5. limiters * LargestBurst(a) <= most * LargestBurst(a)
    BY <2>1, <2>2, <2>3, TimesMonotone
  <2>6. limiters * LargestBurst(a) \in Int /\ most * LargestBurst(a) \in Int
    BY <2>1, <2>3
  <2>7. granted <= most * LargestBurst(a)
    BY <2>3, <2>4, <2>5, <2>6
  <2>8. QED
    BY <2>2, <2>7 DEF limiters, granted, most
<1>2. QED
  BY <1>1, GatewayInitInv, GatewayNextInv, PTL DEF GatewaySpec

-----------------------------------------------------------------------------
(* A script ends at most once, at its end; of what arrived the loop has    *)
(* read a part, and what it has in hand is the last of that.               *)
Kinds == {"data", "pong"} \union Ends

Scripted ==
  /\ script \in [Dirs -> Seq(Kinds)]
  /\ \A d \in Dirs : \A i \in 1 .. Len(script[d]) : script[d][i] \in Ends => i = Len(script[d])

LoopOK(d) ==
  /\ arrived[d] \in 0 .. Len(script[d])
  /\ read[d] \in 0 .. arrived[d]
  /\ hand[d] # 0 => hand[d] = read[d] /\ Forwards(script[d][hand[d]])
  /\ ToSet(Passed(d)) = Worth(d, read[d])
  /\ Ascending(Passed(d))

WsInv == WsTypeOK /\ Scripted /\ (\A d \in Dirs : LoopOK(d)) /\ EnderIsHeardOut

USE WsAssumption

LEMMA ScriptsAreScripted ==
  ASSUME NEW s \in Scripts
  PROVE  /\ s \in Seq(Kinds)
         /\ \A i \in 1 .. Len(s) : s[i] \in Ends => i = Len(s)
<1> DEFINE Talk == UNION {[1 .. n -> {"data", "pong"}] : n \in 0 .. MaxMessages}
<1>1. ASSUME NEW t \in Talk
      PROVE  t \in Seq(Kinds) /\ t \in Seq({"data", "pong"})
  <2>1. PICK n \in 0 .. MaxMessages : t \in [1 .. n -> {"data", "pong"}]
    OBVIOUS
  <2>2. QED
    BY <2>1 DEF Kinds
<1>2. CASE s \in Talk
  <2>1. \A i \in 1 .. Len(s) : s[i] \in {"data", "pong"}
    BY <1>1, <1>2
  <2>2. QED
    BY <1>1, <1>2, <2>1 DEF Ends
<1>3. ASSUME NEW t \in Talk, NEW e \in Ends, s = Append(t, e)
      PROVE  /\ s \in Seq(Kinds)
             /\ \A i \in 1 .. Len(s) : s[i] \in Ends => i = Len(s)
  <2>1. \A i \in 1 .. Len(t) : t[i] \in {"data", "pong"} /\ s[i] = t[i]
    BY <1>1, <1>3
  <2>2. Len(s) = Len(t) + 1 /\ Len(t) \in Nat
    BY <1>1, <1>3
  <2>3. s \in Seq(Kinds)
    BY <1>1, <1>3 DEF Kinds
  <2>4. QED
    BY <2>1, <2>2, <2>3 DEF Ends
<1>4. QED
  BY <1>2, <1>3 DEF Scripts

LEMMA WsInitInv == WsInit => WsInv
<1> SUFFICES ASSUME WsInit
             PROVE  WsInv
  OBVIOUS
<1> USE DEF WsInit
<1>1. Scripted
  BY ScriptsAreScripted DEF Scripted
<1>2. WsTypeOK
  BY <1>1 DEF WsTypeOK, Scripted, Kinds
<1>3. ASSUME NEW d \in Dirs
      PROVE  LoopOK(d)
  <2>1. Passed(d) = <<>> /\ Worth(d, read[d]) = {}
    BY DEF Passed, Worth
  <2>2. QED
    BY <1>1, <2>1 DEF LoopOK, Ascending, ToSet, Scripted
<1>4. EnderIsHeardOut
  BY DEF EnderIsHeardOut
<1>5. QED
  BY <1>1, <1>2, <1>3, <1>4 DEF WsInv

LEMMA AppendToAscending ==
  ASSUME NEW s \in Seq(Nat), Ascending(s), NEW x \in Nat, \A i \in ToSet(s) : i < x
  PROVE  /\ Ascending(Append(s, x))
         /\ ToSet(Append(s, x)) = ToSet(s) \union {x}
<1> DEFINE t == Append(s, x)
<1>1. /\ Len(s) \in Nat /\ DOMAIN s = 1 .. Len(s)
      /\ DOMAIN t = 1 .. Len(s) + 1
      /\ t[Len(s) + 1] = x
      /\ \A i \in 1 .. Len(s) : t[i] = s[i]
  OBVIOUS
<1> HIDE DEF t
<1>2. ASSUME NEW i \in 1 .. Len(s)
      PROVE  s[i] < x /\ s[i] \in Nat
  BY <1>1 DEF ToSet
<1>3. ASSUME NEW i \in DOMAIN t, NEW j \in DOMAIN t, i < j
      PROVE  t[i] < t[j]
  <2>1. i \in 1 .. Len(s)
    BY <1>1, <1>3
  <2>2. CASE j = Len(s) + 1
    BY <1>1, <1>2, <2>1, <2>2
  <2>3. CASE j # Len(s) + 1
    BY <1>1, <1>3, <2>1, <2>3, SMTT(20) DEF Ascending
  <2>4. QED
    BY <2>2, <2>3
<1>4. \A i \in ToSet(t) : i \in ToSet(s) \union {x}
  BY <1>1 DEF ToSet
<1>5. x \in ToSet(t) /\ \A i \in ToSet(s) : i \in ToSet(t)
  BY <1>1 DEF ToSet
<1>6. QED
  BY <1>3, <1>4, <1>5 DEF t, Ascending

(* A step that leaves the loop of a direction alone. *)
LEMMA LoopFrame ==
  ASSUME WsInv, NEW d \in Dirs, script' = script,
         read'[d] = read[d], hand'[d] = hand[d], sent'[d] = sent[d],
         arrived'[d] \in arrived[d] .. Len(script[d])
  PROVE  LoopOK(d)'
<1>1. Passed(d)' = Passed(d) /\ Worth(d, read[d])' = Worth(d, read[d])
  BY DEF Passed, Worth
<1>2. arrived[d] \in Nat /\ Len(script[d]) \in Nat
  BY DEF WsInv, WsTypeOK
<1>3. QED
  BY <1>1, <1>2 DEF WsInv, LoopOK, Forwards

LEMMA EnderFrame ==
  ASSUME WsInv, WsTypeOK', script' = script,
         \A e \in Dirs : arrived'[e] \in arrived[e] .. Len(script[e]),
         NEW d \in over, hand'[d] = hand[d], sent'[d] = sent[d]
  PROVE  \/ (HungUp(Back(d)))' /\ hand'[d] = 0 /\ ToSet(sent'[d]) = Worth(d, Len(script[d]))'
         \/ (HungUp(d))' /\ hand'[d] # 0
<1>1. d \in Dirs /\ Back(d) \in Dirs /\ \A e \in Dirs : Back(Back(e)) = e
  BY DEF WsInv, WsTypeOK, Dirs, Back
<1>2. ASSUME NEW e \in Dirs, HungUp(e)
      PROVE  HungUp(e)'
  <2>1. Back(e) \in Dirs
    BY DEF Dirs, Back
  <2>2. arrived[Back(e)] \in Nat
    BY <2>1 DEF WsInv, WsTypeOK
  <2>3. QED
    BY <1>2, <2>1, <2>2 DEF HungUp
<1>3. QED
  BY <1>1, <1>2 DEF WsInv, EnderIsHeardOut, Worth

(* Steps of the loop of a direction, which leave the other direction be.   *)
LEMMA ReadKeeps ==
  ASSUME WsInv, WsTypeOK', NEW d \in Dirs, Read(d)
  PROVE  LoopOK(d)' /\ EnderIsHeardOut'
<1> DEFINE n == read[d] + 1
           kind == script[d][n]
<1>1. /\ LoopOK(d) /\ Scripted
      /\ read[d] \in Nat /\ arrived[d] \in Nat /\ Len(script[d]) \in Nat
      /\ n \in 1 .. Len(script[d]) /\ n <= arrived[d]
  <2>1. LoopOK(d) /\ Scripted /\ read[d] < arrived[d]
    BY DEF WsInv, Read, Reads
  <2>2. script[d] \in Seq(Kinds)
    BY <2>1 DEF Scripted
  <2>3. Len(script[d]) \in Nat
    BY <2>2
  <2>4. arrived[d] \in 0 .. Len(script[d]) /\ read[d] \in 0 .. arrived[d]
    BY <2>1 DEF LoopOK
  <2>5. QED
    BY <2>1, <2>3, <2>4
<1>2. /\ script' = script /\ arrived' = arrived /\ sent' = sent
      /\ read'[d] = n /\ hand[d] = 0 /\ d \notin over
      /\ hand'[d] = IF Forwards(kind) /\ ~EndsLoop(kind) THEN n ELSE 0
      /\ \A e \in Dirs \ {d} : hand'[e] = hand[e]
      /\ over' = IF EndsLoop(kind) THEN over \union {d} ELSE over
  BY DEF Read, Reads, peers, WsInv, WsTypeOK
<1>3. Worth(d, read[d])' = Worth(d, n) /\ Worth(d, Len(script[d]))' = Worth(d, Len(script[d]))
  BY <1>2 DEF Worth
<1>4. Worth(d, n) = IF Forwards(kind) THEN Worth(d, read[d]) \union {n} ELSE Worth(d, read[d])
  BY <1>1 DEF Worth
<1>5. /\ sent[d] \in Seq(Nat) /\ ToSet(sent[d]) = Worth(d, read[d]) /\ Ascending(sent[d])
  BY <1>1, <1>2 DEF LoopOK, Passed, WsInv, WsTypeOK
<1>6. Forwards(kind) => ~EndsLoop(kind)
  BY DEF Forwards, EndsLoop
<1>7. ToSet(Passed(d)') = Worth(d, n) /\ Ascending(Passed(d)')
  <2>1. CASE Forwards(kind)
    <3>1. Passed(d)' = Append(sent[d], n)
      BY <1>1, <1>2, <1>6, <2>1 DEF Passed
    <3>2. \A i \in ToSet(sent[d]) : i < n
      BY <1>1, <1>5 DEF Worth
    <3>3. n \in Nat
      BY <1>1
    <3> HIDE DEF n
    <3>4. Ascending(Append(sent[d], n)) /\ ToSet(Append(sent[d], n)) = ToSet(sent[d]) \union {n}
      BY <1>5, <3>2, <3>3, AppendToAscending
    <3>5. QED
      BY <1>4, <1>5, <2>1, <3>1, <3>4
  <2>2. CASE ~Forwards(kind)
    BY <1>2, <1>4, <1>5, <2>2 DEF Passed
  <2>3. QED
    BY <2>1, <2>2
<1>8. LoopOK(d)'
  <2>1. hand'[d] # 0 => hand'[d] = n /\ Forwards(script[d][n])
    BY <1>2
  <2>2. QED
    BY <1>1, <1>2, <1>3, <1>7, <2>1 DEF LoopOK, Ascending, ToSet
<1>9. EnderIsHeardOut'
  <2>1. SUFFICES ASSUME NEW e \in over'
                 PROVE  \/ (HungUp(Back(e)))' /\ hand'[e] = 0
                           /\ ToSet(sent'[e]) = Worth(e, Len(script[e]))'
                        \/ (HungUp(e))' /\ hand'[e] # 0
    BY <1>2 DEF EnderIsHeardOut, ToSet
  <2>2. CASE e \in over
    <3>1. e \in Dirs /\ e # d
      BY <1>2, <2>2 DEF WsInv, WsTypeOK
    <3>2. \A g \in Dirs : arrived'[g] \in arrived[g] .. Len(script[g])
      BY <1>2 DEF WsInv, WsTypeOK, LoopOK
    <3>3. QED
      BY <1>2, <2>2, <3>1, <3>2, EnderFrame
  <2>3. CASE e \notin over
    <3>1. e = d /\ EndsLoop(kind)
      BY <1>2, <2>3
    <3>2. kind \in Ends /\ ~Forwards(kind)
      BY <3>1 DEF EndsLoop, Ends, Forwards
    <3>3. n = Len(script[d]) /\ arrived[d] = n
      <4>1. \A i \in 1 .. Len(script[d]) : script[d][i] \in Ends => i = Len(script[d])
        BY <1>1 DEF Scripted
      <4>2. arrived[d] \in 0 .. Len(script[d])
        BY <1>1 DEF LoopOK
      <4>3. QED
        BY <1>1, <3>2, <4>1, <4>2
    <3>4. Back(Back(d)) = d
      BY DEF Dirs, Back
    <3>5. (HungUp(Back(d)))'
      BY <1>1, <1>2, <3>2, <3>3, <3>4 DEF HungUp, Last
    <3>6. hand'[d] = 0 /\ ToSet(sent'[d]) = Worth(d, Len(script[d]))'
      BY <1>2, <1>3, <1>4, <1>5, <3>2, <3>3 DEF ToSet
    <3>7. QED
      BY <3>1, <3>5, <3>6
  <2>4. QED
    BY <2>2, <2>3
<1>10. QED
  BY <1>8, <1>9

LEMMA SendKeeps ==
  ASSUME WsInv, WsTypeOK', NEW d \in Dirs, Send(d)
  PROVE  LoopOK(d)' /\ EnderIsHeardOut'
<1> DEFINE n == hand[d]
<1>1. /\ LoopOK(d) /\ Scripted
      /\ n # 0 /\ n = read[d] /\ read[d] \in Nat /\ arrived[d] \in Nat /\ Len(script[d]) \in Nat
      /\ n \in 1 .. Len(script[d]) /\ n <= arrived[d]
  <2>1. LoopOK(d) /\ Scripted /\ n # 0
    BY DEF WsInv, Send
  <2>2. script[d] \in Seq(Kinds)
    BY <2>1 DEF Scripted
  <2>3. Len(script[d]) \in Nat
    BY <2>2
  <2>4. /\ arrived[d] \in 0 .. Len(script[d]) /\ read[d] \in 0 .. arrived[d]
        /\ n = read[d]
    BY <2>1 DEF LoopOK
  <2>5. QED
    BY <2>1, <2>3, <2>4
<1>2. /\ script' = script /\ arrived' = arrived /\ read' = read
      /\ sent'[d] = Append(sent[d], n) /\ hand'[d] = 0 /\ d \notin over
      /\ \A e \in Dirs \ {d} : hand'[e] = hand[e] /\ sent'[e] = sent[e]
      /\ over' = IF script[d][n] = "close" THEN over \union {d} ELSE over
  BY DEF Send, peers, WsInv, WsTypeOK
<1>3. Passed(d)' = Passed(d) /\ Passed(d) = sent'[d] /\ Worth(d, read[d])' = Worth(d, read[d])
  BY <1>1, <1>2 DEF Passed, Worth
<1>4. LoopOK(d)'
  BY <1>1, <1>2, <1>3 DEF LoopOK
<1>5. EnderIsHeardOut'
  <2>1. SUFFICES ASSUME NEW e \in over'
                 PROVE  \/ (HungUp(Back(e)))' /\ hand'[e] = 0
                           /\ ToSet(sent'[e]) = Worth(e, Len(script[e]))'
                        \/ (HungUp(e))' /\ hand'[e] # 0
    BY <1>2 DEF EnderIsHeardOut, ToSet
  <2>2. CASE e \in over
    <3>1. e \in Dirs /\ e # d
      BY <1>2, <2>2 DEF WsInv, WsTypeOK
    <3>2. \A g \in Dirs : arrived'[g] \in arrived[g] .. Len(script[g])
      BY <1>2 DEF WsInv, WsTypeOK, LoopOK
    <3>3. QED
      BY <1>2, <2>2, <3>1, <3>2, EnderFrame
  <2>3. CASE e \notin over
    <3>1. e = d /\ script[d][n] \in Ends
      BY <1>2, <2>3 DEF Ends
    <3>2. n = Len(script[d]) /\ arrived[d] = n /\ read[d] = n
      <4>1. \A i \in 1 .. Len(script[d]) : script[d][i] \in Ends => i = Len(script[d])
        BY <1>1 DEF Scripted
      <4>2. arrived[d] \in 0 .. Len(script[d])
        BY <1>1 DEF LoopOK
      <4>3. QED
        BY <1>1, <3>1, <4>1, <4>2
    <3>3. Back(Back(d)) = d
      BY DEF Dirs, Back
    <3>4. (HungUp(Back(d)))'
      BY <1>1, <1>2, <3>1, <3>2, <3>3 DEF HungUp, Last
    <3>5. ToSet(sent'[d]) = Worth(d, Len(script[d]))'
      BY <1>1, <1>2, <1>3, <3>2 DEF LoopOK
    <3>6. QED
      BY <1>2, <3>1, <3>4, <3>5
  <2>4. QED
    BY <2>2, <2>3
<1>6. QED
  BY <1>4, <1>5

LEMMA SendFailsKeeps ==
  ASSUME WsInv, WsTypeOK', NEW d \in Dirs, SendFails(d)
  PROVE  EnderIsHeardOut'
<1>1. /\ script' = script /\ arrived' = arrived /\ sent' = sent /\ hand' = hand
      /\ over' = over \union {d} /\ hand[d] # 0 /\ HungUp(d)
  BY DEF SendFails, peers
<1>2. SUFFICES ASSUME NEW e \in over'
               PROVE  \/ (HungUp(Back(e)))' /\ hand'[e] = 0
                         /\ ToSet(sent'[e]) = Worth(e, Len(script[e]))'
                      \/ (HungUp(e))' /\ hand'[e] # 0
  BY DEF EnderIsHeardOut, ToSet
<1>3. CASE e \in over
  <2>1. \A g \in Dirs : arrived'[g] \in arrived[g] .. Len(script[g])
    BY <1>1 DEF WsInv, WsTypeOK, LoopOK
  <2>2. QED
    BY <1>1, <1>3, <2>1, EnderFrame
<1>4. CASE e = d
  BY <1>1, <1>4 DEF HungUp
<1>5. QED
  BY <1>1, <1>3, <1>4

LEMMA WsNextInv == WsInv /\ [WsNext]_wsVars => WsInv'
<1> SUFFICES ASSUME WsInv, [WsNext]_wsVars
             PROVE  WsInv'
  OBVIOUS
<1>1. WsTypeOK'
  <2> USE DEF WsInv, WsTypeOK
  <2>1. ASSUME NEW k \in Keys, RegisterKey(k) \/ UnregisterKey(k)
        PROVE  WsTypeOK'
    BY <2>1 DEF RegisterKey, UnregisterKey, peers
  <2>2. CASE Handle \/ Connect \/ Exit
    BY <2>2 DEF Handle, Connect, Exit, peers
  <2>3. ASSUME NEW d \in Dirs, Read(d)
        PROVE  WsTypeOK'
    BY <2>3 DEF Read, peers
  <2>4. ASSUME NEW d \in Dirs, Send(d)
        PROVE  WsTypeOK'
    BY <2>4, SMTT(20) DEF Send, peers
  <2>5. ASSUME NEW d \in Dirs, SendFails(d)
        PROVE  WsTypeOK'
    BY <2>5 DEF SendFails, peers
  <2>6. ASSUME NEW d \in Dirs, Peer(d)
        PROVE  WsTypeOK'
    <3>1. CASE Arrive(d)
      BY <3>1, SMTT(20) DEF Arrive
    <3>2. CASE Drain(d)
      <4>1. taken' = [taken EXCEPT ![d] = taken[d] + 1] /\ taken[d] \in Nat
        BY <3>2 DEF Drain
      <4>2. taken' \in [Dirs -> Nat]
        BY <4>1
      <4>3. UNCHANGED <<keys, phase, script, arrived, stalled, read, hand, sent, over>>
        BY <3>2 DEF Drain
      <4>4. QED
        BY <4>2, <4>3
    <3>3. CASE Stall(d)
      BY <3>3 DEF Stall
    <3>4. QED
      BY <2>6, <3>1, <3>2, <3>3 DEF Peer
  <2>7. CASE UNCHANGED wsVars
    BY <2>7 DEF wsVars, peers
  <2>8. QED
    BY <2>1, <2>2, <2>3, <2>4, <2>5, <2>6, <2>7 DEF WsNext, Forward
<1>2. script' = script
  BY DEF WsNext, RegisterKey, UnregisterKey, Handle, Connect, Exit, Forward, Read, Send,
         SendFails, Peer, Arrive, Drain, Stall, wsVars, peers
<1>3. Scripted'
  BY <1>2 DEF WsInv, Scripted
<1>4. ASSUME UNCHANGED <<read, hand, sent, over>>,
             \A e \in Dirs : arrived'[e] \in arrived[e] .. Len(script[e])
      PROVE  (\A d \in Dirs : LoopOK(d)') /\ EnderIsHeardOut'
  <2>1. \A d \in Dirs : LoopOK(d)'
    BY <1>2, <1>4, LoopFrame
  <2>2. EnderIsHeardOut'
    BY <1>1, <1>2, <1>4, EnderFrame DEF EnderIsHeardOut, ToSet
  <2>3. QED
    BY <2>1, <2>2
<1>5. \A e \in Dirs : arrived[e] \in arrived[e] .. Len(script[e])
  BY DEF WsInv, WsTypeOK, LoopOK
<1>6. ASSUME NEW d \in Dirs, Forward(d)
      PROVE  (\A e \in Dirs : LoopOK(e)') /\ EnderIsHeardOut'
  <2>1. \A e \in Dirs \ {d} : LoopOK(e)'
    <3>1. /\ arrived' = arrived
          /\ \A e \in Dirs \ {d} : read'[e] = read[e] /\ hand'[e] = hand[e] /\ sent'[e] = sent[e]
      BY <1>6 DEF Forward, Read, Send, SendFails, peers, WsInv, WsTypeOK
    <3>2. QED
      BY <1>2, <1>5, <3>1, LoopFrame
  <2>2. CASE Read(d)
    BY <1>1, <2>1, <2>2, ReadKeeps
  <2>3. CASE Send(d)
    BY <1>1, <2>1, <2>3, SendKeeps
  <2>4. CASE SendFails(d)
    <3>1. UNCHANGED <<read, hand, sent, arrived>>
      BY <2>4 DEF SendFails, peers
    <3>2. LoopOK(d)'
      BY <1>2, <1>5, <3>1, LoopFrame
    <3>3. QED
      BY <1>1, <2>1, <2>4, <3>2, SendFailsKeeps
  <2>5. QED
    BY <1>6, <2>2, <2>3, <2>4 DEF Forward
<1>7. ASSUME NEW d \in Dirs, Peer(d)
      PROVE  (\A e \in Dirs : LoopOK(e)') /\ EnderIsHeardOut'
  <2>1. UNCHANGED <<read, hand, sent, over>>
    BY <1>7 DEF Peer, Arrive, Drain, Stall
  <2>2. \A e \in Dirs : arrived'[e] \in arrived[e] .. Len(script[e])
    <3>1. CASE Arrive(d)
      BY <1>5, <3>1 DEF Arrive, WsInv, WsTypeOK, Scripted
    <3>2. CASE Drain(d) \/ Stall(d)
      BY <1>5, <3>2 DEF Drain, Stall
    <3>3. QED
      BY <1>7, <3>1, <3>2 DEF Peer
  <2>3. QED
    BY <1>4, <2>1, <2>2
<1>8. CASE \/ \E k \in Keys : RegisterKey(k) \/ UnregisterKey(k)
           \/ Handle \/ Connect \/ Exit \/ UNCHANGED wsVars
  <2>1. UNCHANGED <<read, hand, sent, over>> /\ arrived' = arrived
    BY <1>8 DEF RegisterKey, UnregisterKey, Handle, Connect, Exit, wsVars, peers
  <2>2. \A e \in Dirs : arrived'[e] \in arrived[e] .. Len(script[e])
    BY <1>5, <2>1
  <2>3. QED
    BY <1>1, <1>3, <1>4, <2>1, <2>2 DEF WsInv
<1>9. QED
  BY <1>1, <1>3, <1>6, <1>7, <1>8 DEF WsInv, WsNext

(* The run of the WebSocket forwarder never leaves its types.              *)
THEOREM WsTypeCorrect == WsSpec => []WsTypeOK
<1>1. WsInv => WsTypeOK
  BY DEF WsInv
<1>2. QED
  BY <1>1, WsInitInv, WsNextInv, PTL DEF WsSpec

(* Per direction a socket loses one message at most, and none out of       *)
(* order, whatever the peers send and however much they hold back.         *)
THEOREM OneMessageAtMost == WsSpec => []OnlyTheLastIsLost
<1>1. WsInv => OnlyTheLastIsLost
  BY DEF WsInv, LoopOK, OnlyTheLastIsLost
<1>2. QED
  BY <1>1, WsInitInv, WsNextInv, PTL DEF WsSpec

(* Of the direction whose end ends the forwarding, close frame included,   *)
(* nothing is lost unless its receiver was gone.                           *)
THEOREM EndersAreHeard == WsSpec => []EnderIsHeardOut
<1>1. WsInv => EnderIsHeardOut
  BY DEF WsInv
<1>2. QED
  BY <1>1, WsInitInv, WsNextInv, PTL DEF WsSpec
=============================================================================
