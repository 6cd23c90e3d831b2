------------------------- MODULE RedisLimiterProofs --------------------------
(***************************************************************************)
(* The shared limiter for any number of gateways, any skew of their clocks *)
(* and any delay between reading the clock and the script.  What the       *)
(* script keeps in Redis is tied to what it let through so far: the        *)
(* bucket's tokens and last_time account for every grant, whatever clock   *)
(* they were counted on (BucketInv), and the sorted set still holds every  *)
(* member that was added less than the window less the blur ago            *)
(* (WindowInv).                                                            *)
(***************************************************************************)
EXTENDS RedisLimiter, FiniteSetTheorems, TLAPS

(* A limiter uses one kind of key. *)
OneKind ==
  /\ algorithm = "token_bucket" => members = {}
  /\ algorithm = "sliding_window" => bucket = None

(* A time that was read is neither older than the delay nor further ahead  *)
(* than the gateway's clock, and a key lives until its expiry.             *)
TimesOK ==
  /\ \A t \in Tasks : at[t] # None =>
       at[t] - ahead[t] <= now /\ now <= (at[t] - ahead[t]) + MaxDelay
  /\ expiry # None => expiry > now

TimeToFill == CeilDiv(Capacity, Rate)

(* The time that was given away, and the refill a key has been due up to a *)
(* time of the script's clocks.                                            *)
Lost == rewound + lapses * Excess

DueBy(time) == Rate * (time + Lost)

BucketInv ==
  algorithm = "token_bucket" =>
    /\ bucket # None =>
         /\ bucket.tokens + taken <= Capacity + DueBy(bucket.last_time)
         /\ bucket.last_time <= now + MaxSkew
         /\ bucket.last_time + 2 * TimeToFill <= expiry + MaxSkew
    /\ bucket = None => taken = 0 \/ taken <= DueBy(now - MaxDelay)

(* What is left of the window, and the members added in one. *)
Span == Window - Blur

Within(to) ==
  {a.member : a \in {a \in added : a.time > to - Span /\ a.time <= to}}

Bounded(to) == Cardinality(Within(to)) <= Limit

(* The script has not removed what it added less than Span ago, although   *)
(* the score may be older than the time by the delay, nor has Redis.       *)
Kept ==
  \A a \in added :
    /\ a.time <= now
    /\ a.member.score >= a.time - MaxDelay
    /\ expiry # None => a.time + 2 * Window <= expiry
    /\ a.time > now - Span => a.member \in members

WindowInv ==
  algorithm = "sliding_window" =>
    IsFiniteSet(members) /\ Kept /\ \A to \in Int : Bounded(to)

USE RedisAssumption

LEMMA FillTime ==
  /\ TimeToFill \in Nat \ {0}
  /\ Capacity <= Rate * TimeToFill
<1>1. TimeToFill = (Capacity + Rate - 1) \div Rate
  BY DEF TimeToFill, CeilDiv
<1>2. Capacity + Rate - 1 \in Nat
  OBVIOUS
<1>3. \A a \in Nat, b \in Nat \ {0} :
        /\ a \div b \in Nat
        /\ a < b * (a \div b) + b
  OBVIOUS
<1>4. /\ TimeToFill \in Nat
      /\ Capacity + Rate - 1 < Rate * TimeToFill + Rate
  BY <1>1, <1>2, <1>3
<1> HIDE DEF TimeToFill
<1>5. Rate * TimeToFill \in Nat
  BY <1>4
<1>6. Capacity <= Rate * TimeToFill
  BY <1>4, <1>5
<1>7. TimeToFill # 0
  BY <1>4, <1>6
<1>8. QED
  BY <1>4, <1>6, <1>7

LEMMA ExcessBounds ==
  /\ Excess \in Nat
  /\ Excess >= (MaxSkew + MaxDelay) - TimeToFill
  BY FillTime DEF Excess, Larger, Blur, TimeToFill

(* A refill yields a bucket, and no more than the tick between the times   *)
(* is worth.                                                               *)
LEMMA RefillBounds ==
  ASSUME bucket \in Bucket \union {None}, NEW time \in Nat
  PROVE  /\ FoundBucket(time) \in Bucket
         /\ Refilled(time) \in 0 .. Capacity
         /\ Refilled(time) <=
              FoundBucket(time).tokens
                + Larger(0, time - FoundBucket(time).last_time) * Rate
<1> DEFINE b == FoundBucket(time)
           e == Larger(0, time - b.last_time)
<1>1. b \in Bucket
  BY DEF FoundBucket, Bucket
<1>2. b.tokens \in 0 .. Capacity /\ b.last_time \in Nat
  BY <1>1 DEF Bucket
<1>3. e \in Nat
  BY <1>2 DEF Larger
<1>4. Refilled(time) = Smaller(Capacity, b.tokens + e * Rate)
  BY DEF Refilled
<1> HIDE DEF b, e
<1>5. e * Rate \in Nat
  BY <1>3
<1>6. Refilled(time) \in 0 .. Capacity /\ Refilled(time) <= b.tokens + e * Rate
  BY <1>2, <1>4, <1>5 DEF Smaller
<1>7. QED
  BY <1>1, <1>6 DEF b, e

LEMMA InitType == Init => TypeOK /\ OneKind
  BY DEF Init, TypeOK, OneKind

LEMMA NextType == TypeOK /\ OneKind /\ [Next]_vars => TypeOK' /\ OneKind'
<1> SUFFICES ASSUME TypeOK, OneKind, [Next]_vars
             PROVE  TypeOK' /\ OneKind'
  OBVIOUS
<1> USE DEF TypeOK, OneKind
<1>1. ASSUME NEW t \in Tasks, ReadClock(t)
      PROVE  TypeOK' /\ OneKind'
  BY <1>1 DEF ReadClock, keys
<1>2. ASSUME NEW t \in Tasks, Degrade(t)
      PROVE  TypeOK' /\ OneKind'
  BY <1>2 DEF Degrade, keys
<1>3. ASSUME NEW t \in Tasks, Fail(t)
      PROVE  TypeOK' /\ OneKind'
  BY <1>3 DEF Fail, keys
<1>4. ASSUME NEW t \in Tasks, Take(t)
      PROVE  TypeOK' /\ OneKind'
  <2> DEFINE new == [tokens |-> Refilled(at[t]) - 1, last_time |-> at[t]]
             back == Larger(0, FoundBucket(at[t]).last_time - at[t])
  <2>1. at[t] \in Nat
    BY <1>4 DEF Take
  <2>2. FoundBucket(at[t]) \in Bucket /\ Refilled(at[t]) \in 1 .. Capacity
    <3>1. /\ FoundBucket(at[t]) \in Bucket
          /\ Refilled(at[t]) \in 0 .. Capacity
      BY <2>1, RefillBounds
    <3>2. Refilled(at[t]) >= 1
      BY <1>4 DEF Take
    <3>3. QED
      BY <3>1, <3>2
  <2>3. new \in Bucket /\ new # None
    BY <2>1, <2>2 DEF Bucket
  <2>4. back \in Nat
    BY <2>1, <2>2 DEF Bucket, Larger
  <2>5. now + TimeToFill * 2 \in Nat
    BY FillTime
  <2>6. /\ bucket' = new /\ rewound' = rewound + back
        /\ expiry' = now + TimeToFill * 2
        /\ taken' = taken + 1 /\ at' = [at EXCEPT ![t] = None]
        /\ UNCHANGED <<algorithm, ahead, now, members, checks, added, lapses>>
        /\ algorithm = "token_bucket"
    BY <1>4 DEF Take, TimeToFill
  <2> HIDE DEF new, back
  <2>7. at' \in [Tasks -> Nat \union {None}]
    BY <2>6
  <2>8. QED
    BY <2>3, <2>4, <2>5, <2>6, <2>7
<1>5. ASSUME NEW t \in Tasks, RefuseTake(t)
      PROVE  TypeOK' /\ OneKind'
  BY <1>5 DEF RefuseTake, keys
<1>6. ASSUME NEW t \in Tasks, Add(t)
      PROVE  TypeOK' /\ OneKind'
  <2> DEFINE m(n) == [score |-> at[t], number |-> n]
  <2>1. PICK n \in Numbers :
          /\ members' = Remaining(at[t]) \union {m(n)}
          /\ added' = added \union {[time |-> now, member |-> m(n)]}
    BY <1>6 DEF Add
  <2>2. at[t] \in Nat /\ m(n) \in Member
    BY <1>6 DEF Add, Member
  <2>3. members' \subseteq Member /\ members' # {}
    BY <2>1, <2>2 DEF Remaining
  <2>4. added' \subseteq [time : Nat, member : Member]
    BY <2>1, <2>2
  <2>5. expiry' \in Nat
    BY <1>6 DEF Add
  <2>6. at' \in [Tasks -> Nat \union {None}]
    BY <1>6 DEF Add
  <2>7. QED
    BY <1>6, <2>3, <2>4, <2>5, <2>6 DEF Add
<1>7. ASSUME NEW t \in Tasks, RefuseAdd(t)
      PROVE  TypeOK' /\ OneKind'
  BY <1>7 DEF RefuseAdd, Remaining
<1>8. CASE Tick
  BY <1>8 DEF Tick, keys
<1>9. CASE UNCHANGED vars
  BY <1>9 DEF vars
<1>10. QED
  BY <1>1, <1>2, <1>3, <1>4, <1>5, <1>6, <1>7, <1>8, <1>9 DEF Next

(* What the script stores is well-formed: no bucket of redis_store.rs has  *)
(* more tokens than its capacity or fewer than none, and a key has an      *)
(* expiry just as long as it exists.                                       *)
THEOREM TypeCorrect == Spec => []TypeOK
<1>1. Spec => [](TypeOK /\ OneKind)
  BY InitType, NextType, PTL DEF Spec
<1>2. QED
  BY <1>1, PTL

-----------------------------------------------------------------------------
LEMMA InitTimes == Init => TimesOK
  BY DEF Init, TimesOK

LEMMA NextTimes == TypeOK /\ TimesOK /\ [Next]_vars => TimesOK'
<1> SUFFICES ASSUME TypeOK, TimesOK, [Next]_vars
             PROVE  TimesOK'
  OBVIOUS
<1> USE DEF TypeOK, TimesOK
<1>1. ASSUME NEW t \in Tasks, ReadClock(t)
      PROVE  TimesOK'
  BY <1>1 DEF ReadClock, keys
<1>2. ASSUME NEW t \in Tasks, Degrade(t) \/ Fail(t) \/ RefuseTake(t)
      PROVE  TimesOK'
  BY <1>2 DEF Degrade, Fail, RefuseTake, keys
<1>3. ASSUME NEW t \in Tasks, Take(t)
      PROVE  TimesOK'
  <2>1. expiry' = now + TimeToFill * 2
    BY <1>3 DEF Take, TimeToFill
  <2>2. expiry' > now'
    BY <1>3, <2>1, FillTime DEF Take
  <2>3. QED
    BY <1>3, <2>2 DEF Take
<1>4. ASSUME NEW t \in Tasks, Add(t)
      PROVE  TimesOK'
  BY <1>4 DEF Add
<1>5. ASSUME NEW t \in Tasks, RefuseAdd(t)
      PROVE  TimesOK'
  BY <1>5 DEF RefuseAdd
<1>6. CASE Tick
  <2>1. ASSUME NEW t \in Tasks, at'[t] # None
        PROVE  at'[t] - ahead'[t] <= now' /\ now' <= (at'[t] - ahead'[t]) + MaxDelay
    BY <1>6, <2>1 DEF Tick
  <2>2. expiry' # None => expiry' > now'
    BY <1>6 DEF Tick, keys
  <2>3. QED
    BY <2>1, <2>2
<1>7. CASE UNCHANGED vars
  BY <1>7 DEF vars
<1>8. QED
  BY <1>1, <1>2, <1>3, <1>4, <1>5, <1>6, <1>7 DEF Next

(* A time the script is given differs from Redis's own by the blur.        *)
LEMMA TimeBounds ==
  ASSUME TypeOK, TimesOK, NEW t \in Tasks, at[t] # None
  PROVE  at[t] \in Nat /\ now - MaxDelay <= at[t] /\ at[t] <= now + MaxSkew
<1>1. at[t] \in Nat /\ ahead[t] \in 0 .. MaxSkew /\ now \in Nat
  BY DEF TypeOK
<1>2. at[t] - ahead[t] <= now /\ now <= (at[t] - ahead[t]) + MaxDelay
  BY DEF TimesOK
<1>3. QED
  BY <1>1, <1>2

-----------------------------------------------------------------------------
LEMMA LostType == ASSUME TypeOK PROVE Lost \in Nat
<1>1. lapses * Excess \in Nat
  BY ExcessBounds DEF TypeOK
<1>2. rewound \in Nat
  BY DEF TypeOK
<1>3. QED
  BY <1>1, <1>2 DEF Lost

(* DueBy grows with the time. *)
LEMMA DueByGrows ==
  ASSUME TypeOK, NEW a \in Int, NEW b \in Int, a <= b
  PROVE  DueBy(a) \in Int /\ DueBy(b) \in Int /\ DueBy(a) <= DueBy(b)
<1>1. Lost \in Nat
  BY LostType
<1> HIDE DEF TypeOK
<1>2. Rate * (b + Lost) = Rate * (a + Lost) + Rate * (b - a)
  BY <1>1
<1>3. Rate * (b - a) \in Nat /\ Rate * (a + Lost) \in Int
  BY <1>1
<1>4. QED
  BY <1>2, <1>3 DEF DueBy

(* What the script let through by a step, other than Take, is unchanged.   *)
LEMMA BucketFrame ==
  ASSUME TypeOK, TypeOK', BucketInv,
         UNCHANGED <<algorithm, bucket, expiry, taken, rewound, lapses>>,
         now' >= now
  PROVE  BucketInv'
<1> SUFFICES ASSUME algorithm = "token_bucket"
             PROVE  BucketInv'
  BY DEF BucketInv
<1>1. now \in Nat /\ now' \in Nat
  BY DEF TypeOK
<1>2. ASSUME bucket # None
      PROVE  BucketInv'
  <2>1. bucket.last_time \in Nat
    BY <1>2 DEF TypeOK, Bucket
  <2>2. /\ bucket.tokens + taken <= Capacity + DueBy(bucket.last_time)
        /\ bucket.last_time <= now + MaxSkew
        /\ bucket.last_time + 2 * TimeToFill <= expiry + MaxSkew
    BY <1>2 DEF BucketInv
  <2>3. bucket.last_time <= now' + MaxSkew
    BY <1>1, <2>1, <2>2
  <2>4. DueBy(bucket.last_time)' = DueBy(bucket.last_time)
    BY DEF DueBy, Lost
  <2>5. QED
    BY <1>2, <2>2, <2>3, <2>4 DEF BucketInv
<1>3. ASSUME bucket = None
      PROVE  BucketInv'
  <2>1. taken = 0 \/ taken <= DueBy(now - MaxDelay)
    BY <1>3 DEF BucketInv
  <2>2. /\ now - MaxDelay \in Int /\ now' - MaxDelay \in Int
        /\ now - MaxDelay <= now' - MaxDelay
    <3>1. \A a, b \in Nat :
            /\ a - MaxDelay \in Int /\ b - MaxDelay \in Int
            /\ b >= a => a - MaxDelay <= b - MaxDelay
      OBVIOUS
    <3>2. QED
      BY <1>1, <3>1, Zenon
  <2>3. /\ DueBy(now' - MaxDelay) \in Int /\ DueBy(now - MaxDelay) \in Int
        /\ DueBy(now - MaxDelay) <= DueBy(now' - MaxDelay)
    BY <2>2, DueByGrows, Zenon
  <2>4. taken \in Nat
    BY DEF TypeOK
  <2>5. taken = 0 \/ taken <= DueBy(now' - MaxDelay)
    BY <2>1, <2>3, <2>4
  <2>6. DueBy(now - MaxDelay)' = DueBy(now' - MaxDelay)
    BY DEF DueBy, Lost
  <2>7. QED
    BY <1>3, <2>5, <2>6 DEF BucketInv
<1>4. QED
  BY <1>2, <1>3

(* A grant: the token comes out of the bucket that was found, or of a full *)
(* one if there was none, and the refill out of the time that has passed   *)
(* on the script's clocks, or out of rewound.                              *)
LEMMA TakeBucket ==
  ASSUME TypeOK, TypeOK', TimesOK, BucketInv, NEW t \in Tasks, Take(t)
  PROVE  BucketInv'
<1> DEFINE time == at[t]
           b == FoundBucket(time)
           back == Larger(0, b.last_time - time)
           forth == Larger(0, time - b.last_time)
<1>1. time \in Nat /\ now - MaxDelay <= time /\ time <= now + MaxSkew
  <2>1. at[t] # None
    BY DEF Take
  <2>2. QED
    BY <2>1, TimeBounds
<1>2. /\ now \in Nat /\ taken \in Nat /\ rewound \in Nat /\ lapses \in Nat
      /\ bucket \in Bucket \union {None}
  BY DEF TypeOK
<1>3. Lost \in Nat
  BY LostType
<1>4. /\ b \in Bucket /\ Refilled(time) \in 0 .. Capacity
      /\ Refilled(time) <= b.tokens + forth * Rate
  BY <1>1, <1>2, RefillBounds
<1>5. b.tokens \in 0 .. Capacity /\ b.last_time \in Nat
  BY <1>4 DEF Bucket
<1>6. /\ algorithm = "token_bucket" /\ algorithm' = algorithm
      /\ bucket' = [tokens |-> Refilled(time) - 1, last_time |-> time]
      /\ rewound' = rewound + back
      /\ expiry' = now + TimeToFill * 2
      /\ taken' = taken + 1
      /\ now' = now /\ lapses' = lapses
      /\ Refilled(time) >= 1
  BY DEF Take, TimeToFill, CeilDiv
<1>7. taken' = taken + 1
  BY <1>6 DEF TypeOK
<1>8. Lost' = Lost + back
  <2>1. back \in Int /\ lapses * Excess \in Nat
    BY <1>1, <1>2, <1>5, ExcessBounds DEF Larger
  <2> HIDE DEF back
  <2>2. QED
    BY <1>2, <1>6, <2>1 DEF Lost
<1>9. b.tokens + taken <= Capacity + DueBy(b.last_time)
  <2>1. CASE bucket # None
    BY <1>6, <2>1 DEF BucketInv, FoundBucket
  <2>2. CASE bucket = None
    <3>1. b.tokens = Capacity /\ b.last_time = time
      BY <2>2 DEF FoundBucket
    <3>2. DueBy(time) >= 0
      <4>1. Rate * (time + Lost) \in Nat
        BY <1>1, <1>3
      <4>2. QED
        BY <4>1 DEF DueBy
    <3>3. /\ DueBy(now - MaxDelay) \in Int /\ DueBy(time) \in Int
          /\ DueBy(now - MaxDelay) <= DueBy(time)
      <4>1. now - MaxDelay \in Int /\ time \in Int /\ now - MaxDelay <= time
        BY <1>1, <1>2
      <4>2. QED
        BY <4>1, DueByGrows, Zenon
    <3>4. taken = 0 \/ taken <= DueBy(now - MaxDelay)
      BY <1>6, <2>2 DEF BucketInv
    <3> HIDE DEF b, time
    <3>5. taken <= DueBy(time)
      BY <1>2, <3>2, <3>3, <3>4
    <3>6. QED
      BY <1>2, <3>1, <3>3, <3>5
  <2>3. QED
    BY <2>1, <2>2
<1> HIDE DEF time, b
<1>10. forth \in Nat /\ back \in Nat /\ b.last_time + forth = time + back
  BY <1>1, <1>5 DEF Larger
<1> HIDE DEF forth, back
<1>11. (Refilled(time) - 1) + (taken + 1) <= Capacity + Rate * (time + Lost')
  <2> DEFINE y == b.last_time + Lost
  <2>1. time + Lost' = y + forth
    BY <1>1, <1>3, <1>5, <1>8, <1>10
  <2>2. y \in Nat
    BY <1>3, <1>5
  <2>3. b.tokens + taken <= Capacity + Rate * y
    BY <1>9 DEF DueBy
  <2> HIDE DEF y
  <2>4. Rate * (y + forth) = Rate * y + forth * Rate
    BY <1>10, <2>2
  <2>5. Rate * y \in Nat /\ forth * Rate \in Nat
    BY <1>10, <2>2
  <2>6. (Refilled(time) - 1) + (taken + 1) <= Capacity + Rate * (y + forth)
    BY <1>2, <1>4, <1>5, <2>3, <2>4, <2>5
  <2>7. QED
    BY <2>1, <2>6
<1>12. bucket'.tokens = Refilled(time) - 1 /\ bucket'.last_time = time
  BY <1>6
<1>13. DueBy(bucket.last_time)' = Rate * (time + Lost')
  BY <1>12 DEF DueBy
<1>14. time + 2 * TimeToFill <= expiry' + MaxSkew
  BY <1>1, <1>2, <1>6, FillTime
<1>15. bucket' # None
  <2>1. bucket' \in Bucket
    BY <1>1, <1>4, <1>6 DEF Bucket
  <2>2. QED
    BY <2>1 DEF Bucket
<1> DEFINE last == bucket'.last_time
           tokens == bucket'.tokens
           length == taken'
<1>16. /\ tokens + length <= Capacity + DueBy(bucket.last_time)'
       /\ last <= now' + MaxSkew
       /\ last + 2 * TimeToFill <= expiry' + MaxSkew
  BY <1>1, <1>6, <1>7, <1>11, <1>12, <1>13, <1>14
<1>17. QED
  BY <1>15, <1>16 DEF BucketInv, TimeToFill

(* The key expires: its bucket would have filled since, but for the excess *)
(* by which the next script's time may be behind the last one's.           *)
LEMMA LapseBucket ==
  ASSUME TypeOK, TypeOK', BucketInv, Tick, expiry = now + 1
  PROVE  BucketInv'
<1> SUFFICES ASSUME algorithm = "token_bucket"
             PROVE  BucketInv'
  BY DEF BucketInv, Tick
<1>1. /\ bucket' = None /\ lapses' = lapses + 1 /\ now' = now + 1
      /\ UNCHANGED <<algorithm, taken, rewound>>
  BY DEF Tick
<1> DEFINE f == TimeToFill
<1>2. now \in Nat /\ taken \in Nat /\ lapses \in Nat /\ rewound \in Nat
  BY DEF TypeOK
<1>3. /\ f \in Nat /\ Capacity <= Rate * f
      /\ Excess \in Nat /\ Excess >= (MaxSkew + MaxDelay) - f
      /\ Lost \in Nat
  BY FillTime, ExcessBounds, LostType
<1> DEFINE later == ((now + 1) - MaxDelay) + (Lost + Excess)
<1>4. DueBy(now - MaxDelay)' = Rate * later
  <2>1. Lost' = Lost + Excess
    <3>1. (lapses + 1) * Excess = lapses * Excess + Excess
      BY <1>2, <1>3
    <3>2. lapses * Excess \in Nat
      BY <1>2, <1>3
    <3>3. QED
      BY <1>1, <1>2, <1>3, <3>1, <3>2 DEF Lost
  <2>2. QED
    BY <1>1, <2>1 DEF DueBy
<1> HIDE DEF f
<1>5. later \in Int
  BY <1>2, <1>3
<1>6. ASSUME bucket # None
      PROVE  taken <= Rate * later
  <2>1. /\ bucket.tokens + taken <= Capacity + DueBy(bucket.last_time)
        /\ bucket.last_time + 2 * f <= expiry + MaxSkew
    BY <1>6 DEF BucketInv, f
  <2>2. bucket.tokens \in Nat /\ bucket.last_time \in Nat
    BY <1>6 DEF TypeOK, Bucket
  <2> DEFINE last == bucket.last_time + Lost
  <2>3. DueBy(bucket.last_time) = Rate * last
    BY DEF DueBy
  <2>4. last \in Nat /\ f + last <= later
    BY <1>2, <1>3, <2>1, <2>2
  <2> HIDE DEF last, later
  <2>5. Rate * later = Rate * (f + last) + Rate * (later - (f + last))
    BY <1>3, <1>5, <2>4
  <2>6. Rate * (f + last) = Rate * f + Rate * last
    BY <1>3, <2>4
  <2>7. /\ Rate * f \in Nat /\ Rate * last \in Nat
        /\ Rate * (later - (f + last)) \in Nat
    BY <1>3, <1>5, <2>4
  <2>8. QED
    BY <1>2, <1>3, <2>1, <2>2, <2>3, <2>5, <2>6, <2>7
<1>7. ASSUME bucket = None
      PROVE  taken = 0 \/ taken <= Rate * later
  <2>1. CASE taken = 0
    BY <2>1
  <2>2. CASE taken <= DueBy(now - MaxDelay)
    <3> DEFINE before == (now - MaxDelay) + Lost
    <3>1. DueBy(now - MaxDelay) = Rate * before
      BY DEF DueBy
    <3>2. before \in Int /\ before <= later
      BY <1>2, <1>3
    <3> HIDE DEF before, later
    <3>3. Rate * later = Rate * before + Rate * (later - before)
      BY <1>5, <3>2
    <3>4. Rate * before \in Int /\ Rate * (later - before) \in Nat
      BY <1>5, <3>2
    <3>5. QED
      BY <1>2, <2>2, <3>1, <3>3, <3>4
  <2>3. QED
    BY <1>7, <2>1, <2>2 DEF BucketInv
<1>8. QED
  BY <1>1, <1>4, <1>6, <1>7 DEF BucketInv

LEMMA NextBucket ==
  TypeOK /\ TypeOK' /\ OneKind /\ TimesOK /\ BucketInv /\ [Next]_vars
    => BucketInv'
<1> SUFFICES ASSUME TypeOK, TypeOK', OneKind, TimesOK, BucketInv, [Next]_vars
             PROVE  BucketInv'
  OBVIOUS
<1>1. ASSUME NEW t \in Tasks,
             ReadClock(t) \/ Degrade(t) \/ Fail(t) \/ RefuseTake(t)
      PROVE  BucketInv'
  <2>1. /\ UNCHANGED <<algorithm, bucket, expiry, taken, rewound, lapses>>
        /\ now' >= now
    BY <1>1 DEF ReadClock, Degrade, Fail, RefuseTake, keys, TypeOK
  <2>2. QED
    BY <2>1, BucketFrame
<1>2. ASSUME NEW t \in Tasks, Take(t)
      PROVE  BucketInv'
  BY <1>2, TakeBucket
<1>3. ASSUME NEW t \in Tasks, Add(t) \/ RefuseAdd(t)
      PROVE  BucketInv'
  BY <1>3 DEF Add, RefuseAdd, BucketInv
<1>4. CASE Tick
  <2>1. CASE expiry = now + 1
    BY <1>4, <2>1, LapseBucket
  <2>2. CASE expiry # now + 1
    <3>1. /\ UNCHANGED <<algorithm, bucket, expiry, taken, rewound, lapses>>
          /\ now' >= now
      BY <1>4, <2>2 DEF Tick, keys, TypeOK
    <3>2. QED
      BY <3>1, BucketFrame
  <2>3. QED
    BY <2>1, <2>2
<1>5. CASE UNCHANGED vars
  <2>1. /\ UNCHANGED <<algorithm, bucket, expiry, taken, rewound, lapses>>
        /\ now' >= now
    BY <1>5 DEF vars, TypeOK
  <2>2. QED
    BY <2>1, BucketFrame
<1>6. QED
  BY <1>1, <1>2, <1>3, <1>4, <1>5 DEF Next

(* The budget of all gateways together: capacity and refill bound what     *)
(* TOKEN_BUCKET_SCRIPT lets through, whatever the gateways' clocks and     *)
(* delays, once each turn of last_time is added, and the excess for each   *)
(* expiry of the key.                                                      *)
THEOREM BudgetHolds == Spec => []BudgetButForRewinds
<1>1. Init => BucketInv
  BY DEF Init, BucketInv
<1>2. TypeOK /\ BucketInv => BudgetButForRewinds
  <2> SUFFICES ASSUME TypeOK, BucketInv, algorithm = "token_bucket"
               PROVE  taken <= Capacity
                        + Rate * (now + MaxSkew + rewound + lapses * Excess)
    BY DEF BudgetButForRewinds
  <2>1. now \in Nat /\ taken \in Nat
    BY DEF TypeOK
  <2>2. DueBy(now + MaxSkew) \in Nat
    <3>1. Rate * ((now + MaxSkew) + Lost) \in Nat
      BY <2>1, LostType
    <3>2. QED
      BY <3>1 DEF DueBy
  <2>3. ASSUME bucket # None
        PROVE  taken <= Capacity + DueBy(now + MaxSkew)
    <3>1. bucket.tokens \in Nat /\ bucket.last_time \in Nat
      BY <2>3 DEF TypeOK, Bucket
    <3>2. /\ bucket.tokens + taken <= Capacity + DueBy(bucket.last_time)
          /\ bucket.last_time <= now + MaxSkew
      BY <2>3 DEF BucketInv
    <3>3. /\ DueBy(bucket.last_time) <= DueBy(now + MaxSkew)
          /\ DueBy(bucket.last_time) \in Int
      <4>1. /\ bucket.last_time \in Int /\ now + MaxSkew \in Int
            /\ bucket.last_time <= now + MaxSkew
        BY <2>1, <3>1, <3>2
      <4>2. QED
        BY <4>1, DueByGrows, Zenon
    <3>4. QED
      BY <2>1, <2>2, <3>1, <3>2, <3>3
  <2>4. ASSUME bucket = None
        PROVE  taken <= Capacity + DueBy(now + MaxSkew)
    <3>1. taken = 0 \/ taken <= DueBy(now - MaxDelay)
      BY <2>4 DEF BucketInv
    <3>2. /\ DueBy(now - MaxDelay) <= DueBy(now + MaxSkew)
          /\ DueBy(now - MaxDelay) \in Int
      <4>1. /\ now - MaxDelay \in Int /\ now + MaxSkew \in Int
            /\ now - MaxDelay <= now + MaxSkew
        BY <2>1
      <4>2. QED
        BY <4>1, DueByGrows, Zenon
    <3>3. taken = 0 => taken = 0
      OBVIOUS
    <3>4. QED
      BY <2>1, <2>2, <3>1, <3>2, <3>3
  <2>5. taken <= Capacity + DueBy(now + MaxSkew)
    BY <2>3, <2>4
  <2>6. DueBy(now + MaxSkew)
          = Rate * (now + MaxSkew + rewound + lapses * Excess)
    <3>1. now \in Nat /\ rewound \in Nat /\ lapses * Excess \in Nat
      BY ExcessBounds DEF TypeOK
    <3>2. ASSUME NEW x \in Nat
          PROVE  now + MaxSkew + rewound + x = (now + MaxSkew) + (rewound + x)
      BY <3>1
    <3>3. QED
      BY <3>1, <3>2 DEF DueBy, Lost
  <2>7. QED
    BY <2>5, <2>6
<1>3. Spec => [](TypeOK /\ OneKind /\ TimesOK)
  BY InitType, NextType, InitTimes, NextTimes, PTL DEF Spec
<1>4. QED
  BY <1>1, <1>2, <1>3, NextBucket, PTL DEF Spec

-----------------------------------------------------------------------------
(* The script removes no member that was added less than Span ago,         *)
(* whatever time it is given.                                              *)
LEMMA YoungRemains ==
  ASSUME TypeOK, TimesOK, Kept, NEW t \in Tasks, at[t] # None,
         NEW a \in added, a.time > now - Span
  PROVE  a.member \in Remaining(at[t])
<1>1. at[t] \in Nat /\ at[t] <= now + MaxSkew
  BY TimeBounds
<1>2. now \in Nat /\ a.time \in Nat /\ a.member.score \in Nat
  BY DEF TypeOK, Member
<1>3. a.time > now - (Window - (MaxSkew + MaxDelay))
  BY DEF Span, Blur
<1>4. a.member \in members /\ a.member.score >= a.time - MaxDelay
  BY DEF Kept
<1>5. a.member.score > at[t] - Window
  BY <1>1, <1>2, <1>3, <1>4
<1>6. QED
  BY <1>4, <1>5 DEF Remaining

(* A member is added where fewer than Limit remain, and all of the last    *)
(* Span are among them.                                                    *)
LEMMA AddWindow ==
  ASSUME TypeOK, TimesOK, WindowInv, NEW t \in Tasks, Add(t)
  PROVE  WindowInv'
<1> DEFINE rest == Remaining(at[t])
           M(n) == [score |-> at[t], number |-> n]
<1>1. /\ algorithm = "sliding_window" /\ at[t] # None
      /\ Cardinality(rest) < Limit
      /\ expiry' = now + Window * 2
      /\ now' = now
  BY DEF Add
<1>2. PICK n \in Numbers :
        /\ members' = rest \union {M(n)}
        /\ added' = added \union {[time |-> now, member |-> M(n)]}
  BY DEF Add
<1> DEFINE m == M(n)
           new == [time |-> now, member |-> m]
<1>3. IsFiniteSet(members) /\ Kept /\ \A to \in Int : Bounded(to)
  BY <1>1 DEF WindowInv
<1>4. /\ now \in Nat /\ Span \in Int /\ Span' = Span
      /\ \A a \in added : a.time \in Nat
  BY DEF TypeOK, Span, Blur
<1>5. IsFiniteSet(rest)
  BY <1>3, FS_Subset DEF Remaining
<1>6. IsFiniteSet(members')
  BY <1>2, <1>5, FS_AddElement
<1>7. Kept'
  <2> SUFFICES ASSUME NEW a \in added'
               PROVE  /\ a.time <= now
                      /\ a.member.score >= a.time - MaxDelay
                      /\ a.time + 2 * Window <= now + Window * 2
                      /\ a.time > now - Span => a.member \in members'
    BY <1>1, <1>4 DEF Kept
  <2>1. CASE a = new
    <3>1. at[t] >= now - MaxDelay
      BY <1>1, TimeBounds
    <3>2. QED
      BY <1>2, <1>4, <2>1, <3>1
  <2>2. CASE a \in added
    <3>1. /\ a.time <= now /\ a.time \in Nat
          /\ a.member.score >= a.time - MaxDelay
      BY <1>3, <1>4, <2>2 DEF Kept
    <3>2. a.time > now - Span => a.member \in rest
      BY <1>1, <1>3, <2>2, YoungRemains
    <3>3. a.time + 2 * Window <= now + Window * 2
      BY <1>4, <3>1
    <3>4. QED
      BY <1>2, <3>1, <3>2, <3>3
  <2>3. QED
    BY <1>2, <2>1, <2>2
<1>8. ASSUME NEW to \in Int
      PROVE  Bounded(to)'
  <2>1. CASE to < now
    <3>1. Within(to)' = Within(to)
      BY <1>2, <1>4, <2>1 DEF Within
    <3>2. QED
      BY <1>3, <3>1 DEF Bounded
  <2>2. CASE to >= now
    <3>1. Within(to)' \subseteq rest \union {m}
      <4> SUFFICES ASSUME NEW a \in added, a.time > to - Span
                   PROVE  a.member \in rest
        BY <1>2, <1>4 DEF Within
      <4>1. a.time > now - Span
        BY <1>4, <2>2
      <4>2. QED
        BY <1>1, <1>3, <4>1, YoungRemains
    <3> HIDE DEF rest, m
    <3>2. /\ IsFiniteSet(rest \union {m})
          /\ Cardinality(rest \union {m}) <= Cardinality(rest) + 1
      <4>1. Cardinality(rest) \in Nat
        BY <1>5, FS_CardinalityType
      <4>2. /\ IsFiniteSet(rest \union {m})
            /\ \/ Cardinality(rest \union {m}) = Cardinality(rest)
               \/ Cardinality(rest \union {m}) = Cardinality(rest) + 1
        BY <1>5, FS_AddElement, Zenon
      <4>3. QED
        BY <4>1, <4>2
    <3>3. /\ IsFiniteSet(Within(to)')
          /\ Cardinality(Within(to)') <= Cardinality(rest \union {m})
      BY <3>1, <3>2, FS_Subset
    <3>4. /\ Cardinality(rest) \in Nat /\ Cardinality(Within(to)') \in Nat
          /\ Cardinality(rest \union {m}) \in Nat
      BY <1>5, <3>2, <3>3, FS_CardinalityType
    <3>5. Cardinality(Within(to)') <= Limit
      BY <1>1, <3>2, <3>3, <3>4
    <3>6. QED
      BY <3>5 DEF Bounded
  <2>3. QED
    BY <1>4, <2>1, <2>2
<1>9. QED
  BY <1>6, <1>7, <1>8 DEF WindowInv

LEMMA RefuseAddWindow ==
  ASSUME TypeOK, TimesOK, WindowInv, NEW t \in Tasks, RefuseAdd(t)
  PROVE  WindowInv'
<1>1. /\ algorithm = "sliding_window" /\ at[t] # None
      /\ members' = Remaining(at[t])
      /\ expiry' = None \/ expiry' = expiry
      /\ UNCHANGED <<now, added>>
  BY DEF RefuseAdd
<1>2. IsFiniteSet(members) /\ Kept /\ \A to \in Int : Bounded(to)
  BY <1>1 DEF WindowInv
<1>3. IsFiniteSet(members')
  BY <1>1, <1>2, FS_Subset DEF Remaining
<1>4. \A to \in Int : Bounded(to)'
  BY <1>1, <1>2 DEF Bounded, Within, Span
<1>5. ASSUME NEW a \in added, a.time > now - Span
      PROVE  a.member \in members'
  BY <1>1, <1>2, <1>5, YoungRemains
<1>6. Kept'
  BY <1>1, <1>2, <1>5 DEF Kept, Span
<1>7. QED
  BY <1>3, <1>4, <1>6 DEF WindowInv

LEMMA TickWindow ==
  ASSUME TypeOK, WindowInv, Tick
  PROVE  WindowInv'
<1> SUFFICES ASSUME algorithm = "sliding_window"
             PROVE  WindowInv'
  BY DEF WindowInv, Tick
<1>1. /\ now' = now + 1 /\ added' = added
      /\ \/ /\ expiry = now + 1 /\ members' = {} /\ expiry' = None
         \/ members' = members /\ expiry' = expiry
  BY DEF Tick, keys
<1>2. IsFiniteSet(members) /\ Kept /\ \A to \in Int : Bounded(to)
  BY DEF WindowInv
<1>3. /\ now \in Nat /\ expiry \in Nat \union {None}
      /\ \A a \in added : a.time \in Nat
  BY DEF TypeOK
<1>4. Span \in Int /\ Span <= Window /\ Span' = Span
  BY DEF Span, Blur
<1>5. IsFiniteSet(members')
  BY <1>1, <1>2, FS_EmptySet
<1>6. \A to \in Int : Bounded(to)'
  BY <1>1, <1>2, <1>4 DEF Bounded, Within
<1>7. Kept'
  <2> SUFFICES ASSUME NEW a \in added
               PROVE  /\ a.time <= now + 1
                      /\ a.member.score >= a.time - MaxDelay
                      /\ expiry' # None => a.time + 2 * Window <= expiry'
                      /\ a.time > (now + 1) - Span => a.member \in members'
    BY <1>1, <1>4 DEF Kept
  <2>1. /\ a.time <= now /\ a.time \in Nat
        /\ a.member.score >= a.time - MaxDelay
        /\ expiry # None => a.time + 2 * Window <= expiry
        /\ a.time > now - Span => a.member \in members
    BY <1>2, <1>3 DEF Kept
  <2>2. CASE expiry = now + 1 /\ members' = {} /\ expiry' = None
    <3>1. a.time + 2 * Window <= now + 1
      BY <1>3, <2>1, <2>2
    <3>2. ~(a.time > (now + 1) - Span)
      BY <1>3, <1>4, <2>1, <3>1
    <3>3. QED
      BY <1>3, <2>1, <2>2, <3>2
  <2>3. CASE members' = members /\ expiry' = expiry
    BY <1>3, <1>4, <2>1, <2>3
  <2>4. QED
    BY <1>1, <2>2, <2>3
<1>8. QED
  BY <1>5, <1>6, <1>7 DEF WindowInv

LEMMA NextWindow ==
  TypeOK /\ OneKind /\ TimesOK /\ WindowInv /\ [Next]_vars => WindowInv'
<1> SUFFICES ASSUME TypeOK, OneKind, TimesOK, WindowInv, [Next]_vars
             PROVE  WindowInv'
  OBVIOUS
<1>1. ASSUME UNCHANGED <<algorithm, now, members, expiry, added>>
      PROVE  WindowInv'
  BY <1>1 DEF WindowInv, Kept, Bounded, Within, Span
<1>2. ASSUME NEW t \in Tasks,
             ReadClock(t) \/ Degrade(t) \/ Fail(t) \/ RefuseTake(t)
      PROVE  WindowInv'
  BY <1>1, <1>2 DEF ReadClock, Degrade, Fail, RefuseTake, keys
<1>3. ASSUME NEW t \in Tasks, Take(t)
      PROVE  WindowInv'
  BY <1>3 DEF Take, WindowInv
<1>4. ASSUME NEW t \in Tasks, Add(t)
      PROVE  WindowInv'
  BY <1>4, AddWindow
<1>5. ASSUME NEW t \in Tasks, RefuseAdd(t)
      PROVE  WindowInv'
  BY <1>5, RefuseAddWindow
<1>6. CASE Tick
  BY <1>6, TickWindow
<1>7. CASE UNCHANGED vars
  BY <1>1, <1>7 DEF vars
<1>8. QED
  BY <1>2, <1>3, <1>4, <1>5, <1>6, <1>7 DEF Next

(* The limit of all gateways together: in what is left of a window, once   *)
(* the differences of the clocks and the delays are taken off,             *)
(* SLIDING_WINDOW_SCRIPT adds no more members than the limit.              *)
THEOREM WindowHolds == Spec => []WindowButForBlur
<1>1. Init => WindowInv
  <2> SUFFICES ASSUME Init, NEW to \in Int
               PROVE  IsFiniteSet(members) /\ Kept /\ Bounded(to)
    BY DEF WindowInv
  <2>1. members = {} /\ added = {}
    BY DEF Init
  <2>2. Within(to) = {}
    BY <2>1 DEF Within
  <2>3. QED
    BY <2>1, <2>2, FS_EmptySet DEF Kept, Bounded
<1>2. TypeOK /\ WindowInv => WindowButForBlur
  <2> SUFFICES ASSUME TypeOK, WindowInv, algorithm = "sliding_window",
                      NEW from \in 0 .. now
               PROVE  Cardinality(AddedBetween(from, from + Window - Blur - 1))
                        <= Limit
    BY DEF WindowButForBlur
  <2> DEFINE to == from + Window - Blur - 1
  <2>1. from \in Int /\ to \in Int /\ to - Span = from - 1
    BY DEF TypeOK, Span, Blur
  <2>2. Bounded(to)
    BY <2>1 DEF WindowInv
  <2> HIDE DEF to
  <2>3. \A a \in added : a.time \in from .. to <=> a.time > to - Span /\ a.time <= to
    BY <2>1 DEF TypeOK
  <2>4. AddedBetween(from, to) = Within(to)
    BY <2>3 DEF AddedBetween, Within
  <2>5. QED
    BY <2>2, <2>4 DEF Bounded, to
<1>3. Spec => [](TypeOK /\ OneKind /\ TimesOK)
  BY InitType, NextType, InitTimes, NextTimes, PTL DEF Spec
<1>4. QED
  BY <1>1, <1>2, <1>3, NextWindow, PTL DEF Spec
=============================================================================
