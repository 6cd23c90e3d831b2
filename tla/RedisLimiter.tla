----------------------------- MODULE RedisLimiter ----------------------------
(***************************************************************************)
(* The shared limiter of src/core/ratelimit/redis_store.rs: tasks of       *)
(* several gateways run one script in Redis, which is atomic, with a time  *)
(* each has read from its own gateway's clock before.  So the script meets *)
(* times of clocks that differ, and times out of order.                    *)
(*                                                                         *)
(* One key is modelled, and the algorithm its limiter was made with.  Time *)
(* is whole seconds and so are refills.  A member of the sorted set is a   *)
(* time and a random number, so two requests may have the same one.  A     *)
(* gateway that cannot connect asks a limiter of its own instead, which    *)
(* shares nothing with Redis: see TokenBucket and SlidingWindow.           *)
(***************************************************************************)
EXTENDS Integers, FiniteSets

CONSTANTS
  Tasks,
  Capacity, \* of the bucket
  Rate,     \* tokens per second
  Limit,    \* requests per window
  Window,   \* in seconds
  Numbers,  \* that math.random may return
  MaxSkew,  \* how far a gateway's clock is ahead at most
  None,     \* no key, no time read
  MaxDelay, \* bounds of the instance: from reading the clock to the script,
  MaxTime,  \* the time,
  MaxChecks \* and the calls of check

ASSUME RedisAssumption ==
  /\ Capacity \in Nat \ {0} /\ Rate \in Nat \ {0}
  /\ Limit \in Nat /\ Window \in Nat \ {0}
  /\ MaxSkew \in Nat /\ MaxDelay \in Nat
  /\ MaxTime \in Nat /\ MaxChecks \in Nat
  /\ None \notin Nat
  /\ None \notin [tokens : 0 .. Capacity, last_time : Nat]

VARIABLES
  algorithm, \* of the limiter, fixed when it is made
  ahead,     \* how far the clock of each task's gateway is ahead
  now,       \* the time, which is Redis's own
  at,        \* the time each task has read and not used yet
  bucket,    \* the hash, or None
  members,   \* the sorted set
  expiry,    \* when Redis drops the key, None if there is none
  checks,    \* history: calls of check,
  taken,     \* how many tokens the script took,
  added,     \* the members it added, and when,
  rewound,   \* by how much it moved last_time backwards, in all,
  lapses     \* and how often Redis dropped the key

vars == <<algorithm, ahead, now, at, bucket, members, expiry, checks, taken,
          added, rewound, lapses>>

Bucket == [tokens : 0 .. Capacity, last_time : Nat]
Member == [score : Nat, number : Numbers]

(* The types of the variables. *)
TypeOK ==
  /\ algorithm \in {"token_bucket", "sliding_window"}
  /\ ahead \in [Tasks -> 0 .. MaxSkew]
  /\ {now, checks, taken, rewound, lapses} \subseteq Nat
  /\ at \in [Tasks -> Nat \union {None}]
  /\ bucket \in Bucket \union {None}
  /\ members \subseteq Member
  /\ expiry \in Nat \union {None}
  /\ added \subseteq [time : Nat, member : Member]
  /\ expiry = None <=> (bucket = None /\ members = {})

Init ==
  /\ algorithm \in {"token_bucket", "sliding_window"}
  /\ ahead \in [Tasks -> 0 .. MaxSkew]
  /\ now = 0 /\ checks = 0 /\ taken = 0 /\ rewound = 0 /\ lapses = 0
  /\ at = [t \in Tasks |-> None]
  /\ bucket = None /\ members = {} /\ expiry = None
  /\ added = {}

-----------------------------------------------------------------------------
Larger(a, b) == IF a >= b THEN a ELSE b
Smaller(a, b) == IF a <= b THEN a ELSE b
CeilDiv(a, b) == (a + b - 1) \div b

keys == <<bucket, members, expiry>>

(* check: the connection is there, and the clock is read. *)
ReadClock(t) ==
  /\ checks < MaxChecks
  /\ at[t] = None
  /\ at' = [at EXCEPT ![t] = now + ahead[t]]
  /\ checks' = checks + 1
  /\ UNCHANGED <<algorithm, ahead, now, keys, taken, added, rewound, lapses>>

(* check: no connection, and the local limiter decides. *)
Degrade(t) ==
  /\ checks < MaxChecks
  /\ at[t] = None
  /\ checks' = checks + 1
  /\ UNCHANGED <<algorithm, ahead, now, at, keys, taken, added, rewound, lapses>>

(* The connection breaks before the script runs: an error.  (If it breaks  *)
(* later, the script has run all the same.)                                *)
Fail(t) ==
  /\ at[t] # None
  /\ at' = [at EXCEPT ![t] = None]
  /\ UNCHANGED <<algorithm, ahead, now, keys, checks, taken, added, rewound,
                 lapses>>

(* TOKEN_BUCKET_SCRIPT. *)
FoundBucket(time) ==
  IF bucket = None THEN [tokens |-> Capacity, last_time |-> time] ELSE bucket

Refilled(time) ==
  LET b == FoundBucket(time)
  IN  Smaller(Capacity, b.tokens + Larger(0, time - b.last_time) * Rate)

(* Variant (see Breaker): the time of the refill is not stored. *)
TakeUntimed(t) ==
  /\ at[t] # None /\ algorithm = "token_bucket"
  /\ Refilled(at[t]) >= 1
  /\ bucket' = [FoundBucket(at[t]) EXCEPT !.tokens = Refilled(at[t]) - 1]
  /\ expiry' = now + CeilDiv(Capacity, Rate) * 2
  /\ taken' = taken + 1
  /\ at' = [at EXCEPT ![t] = None]
  /\ UNCHANGED <<algorithm, ahead, now, members, checks, added, rewound, lapses>>

Take(t) ==
  /\ at[t] # None /\ algorithm = "token_bucket"
  /\ Refilled(at[t]) >= 1
  /\ bucket' = [tokens |-> Refilled(at[t]) - 1, last_time |-> at[t]]
  /\ rewound' = rewound + Larger(0, FoundBucket(at[t]).last_time - at[t])
  /\ expiry' = now + CeilDiv(Capacity, Rate) * 2
  /\ taken' = taken + 1
  /\ at' = [at EXCEPT ![t] = None]
  /\ UNCHANGED <<algorithm, ahead, now, members, checks, added, lapses>>

(* Nothing is written, so no refill is lost. *)
RefuseTake(t) ==
  /\ at[t] # None /\ algorithm = "token_bucket"
  /\ Refilled(at[t]) < 1
  /\ at' = [at EXCEPT ![t] = None]
  /\ UNCHANGED <<algorithm, ahead, now, keys, checks, taken, added, rewound,
                 lapses>>

(* SLIDING_WINDOW_SCRIPT.  Variant: a window too short by one. *)
RemainingShort(time) == {m \in members : m.score > time - Window + 1}

Remaining(time) == {m \in members : m.score > time - Window}

Add(t) ==
  /\ at[t] # None /\ algorithm = "sliding_window"
  /\ Cardinality(Remaining(at[t])) < Limit
  /\ \E n \in Numbers : LET m == [score |-> at[t], number |-> n]
       IN  /\ members' = Remaining(at[t]) \union {m}
           /\ added' = added \union {[time |-> now, member |-> m]}
  /\ expiry' = now + Window * 2
  /\ at' = [at EXCEPT ![t] = None]
  /\ UNCHANGED <<algorithm, ahead, now, bucket, checks, taken, rewound, lapses>>

RefuseAdd(t) ==
  /\ at[t] # None /\ algorithm = "sliding_window"
  /\ Cardinality(Remaining(at[t])) >= Limit
  /\ members' = Remaining(at[t])
  /\ expiry' = IF members' = {} THEN None ELSE expiry
  /\ at' = [at EXCEPT ![t] = None]
  /\ UNCHANGED <<algorithm, ahead, now, bucket, checks, taken, added, rewound,
                 lapses>>

(* Redis drops a key whose time has come. *)
Tick ==
  /\ now < MaxTime
  /\ \A t \in Tasks : at[t] # None => now < at[t] - ahead[t] + MaxDelay
  /\ now' = now + 1
  /\ IF expiry = now + 1
       THEN /\ bucket' = None /\ members' = {} /\ expiry' = None
            /\ lapses' = lapses + 1
       ELSE UNCHANGED <<keys, lapses>>
  /\ UNCHANGED <<algorithm, ahead, at, checks, taken, added, rewound>>

Next ==
  \/ \E t \in Tasks : ReadClock(t) \/ Degrade(t) \/ Fail(t)
  \/ \E t \in Tasks : Take(t) \/ RefuseTake(t)
  \/ \E t \in Tasks : Add(t) \/ RefuseAdd(t)
  \/ Tick

Spec == Init /\ [][Next]_vars

-----------------------------------------------------------------------------
(* How far apart two times can be that the script is given at one moment. *)
Blur == MaxSkew + MaxDelay

(* A bucket expires after twice the time it takes to fill, CeilDiv of it.  *)
(* If the times of two scripts can differ by more than one such time, the  *)
(* next bucket may start before the time the last one had reached.         *)
Excess == Larger(0, Blur - CeilDiv(Capacity, Rate))

(* What all gateways together let through is the capacity and the refill   *)
(* since the start, on the clock that is furthest ahead, and once more the *)
(* refill of each time by which the script turned last_time back.  That    *)
(* the key expires gives away the excess at the most: nothing, as long as  *)
(* the clocks and the delays differ by less than a bucket takes to fill.   *)
BudgetButForRewinds ==
  algorithm = "token_bucket" =>
    taken <= Capacity + Rate * (now + MaxSkew + rewound + lapses * Excess)

AddedBetween(from, to) ==
  {a.member : a \in {a \in added : a.time \in from .. to}}

(* Clocks that differ, and times that are used late, shorten the window by *)
(* as much at the worst: in what is left of it, the script adds no more    *)
(* than Limit members.  So many requests pass, and those whose member was  *)
(* there already, as the script counts members and not requests.           *)
WindowButForBlur ==
  algorithm = "sliding_window" =>
    \A from \in 0 .. now :
      Cardinality(AddedBetween(from, from + Window - Blur - 1)) <= Limit

=============================================================================
