---------------------------- MODULE SlidingWindow ----------------------------
(***************************************************************************)
(* The sliding window of src/core/ratelimit/sliding_window.rs on           *)
(* LocalStore: an entry is the queue of the instants of the requests that  *)
(* were allowed, in the order in which they were appended.                 *)
(*                                                                         *)
(* SlidingWindow::new(rps, _) divides one second by rps: it allows Rps     *)
(* requests per window of 1/Rps seconds.                                   *)
(***************************************************************************)
EXTENDS Integers, Sequences, FiniteSets, LocalStore

CONSTANTS
  Rps,          \* rps, which is also max_requests
  Window,       \* window, in ticks
  MaxTime,      \* bounds of the instance: the clock,
  MaxChecks,    \* the calls of check,
  MaxEvictions  \* and the evictions of one key

ASSUME WindowAssumption ==
  /\ Rps \in Nat
  /\ Window \in Nat \ {0}
  /\ MaxTime \in Nat /\ MaxChecks \in Nat /\ MaxEvictions \in Nat
  /\ Absent \notin Seq(Nat)

VARIABLES
  now,       \* the monotonic clock
  at,        \* `now` as a task's check read it
  checks,    \* history: the number of calls,
  log,       \* the instants of a key's allowed requests, as they returned,
  evictions, \* how often it was evicted,
  raced      \* and whether two checks of it ever overlapped

vars == <<store, pc, key, held, now, at, checks, log, evictions, raced>>

Queue == Seq(Nat)

TypeOK ==
  /\ StoreTypeOK(Queue)
  /\ now \in Nat
  /\ at \in [Tasks -> Nat]
  /\ checks \in Nat
  /\ log \in [Keys -> Seq(Nat)]
  /\ evictions \in [Keys -> Nat]
  /\ raced \in [Keys -> BOOLEAN]

Init ==
  /\ StoreInit
  /\ now = 0
  /\ at = [t \in Tasks |-> 0]
  /\ checks = 0
  /\ log = [k \in Keys |-> << >>]
  /\ evictions = [k \in Keys |-> 0]
  /\ raced = [k \in Keys |-> FALSE]

(* duration_since saturates, so an instant later than the task's reading   *)
(* of the clock is not outside the window.                                 *)
Outside(i, t) == at[t] - i > Window

(* Variant, as in Breaker: `>=` for `>` in Outside. *)
PruneBoundary(q, t) == SelectSeq(q, LAMBDA i : at[t] - i < Window)

(* The loop pops from the front, up to the first instant in the window. *)
Prune(q, t) ==
  LET kept == {n \in 1 .. Len(q) + 1 : n <= Len(q) => ~Outside(q[n], t)}
      first == CHOOSE n \in kept : \A m \in kept : n <= m
  IN  SubSeq(q, first, Len(q))

(* Variant: one request too many. *)
HasRoomInclusive(q) == Len(q) <= Rps

HasRoom(q) == Len(q) < Rps

Check(t, k) ==
  /\ checks < MaxChecks
  /\ BeginUpdate(t, k)
  /\ at' = [at EXCEPT ![t] = now]
  /\ checks' = checks + 1
  /\ raced' = [raced EXCEPT ![k] = @ \/ InFlight(k) # {}]
  /\ UNCHANGED <<now, log, evictions>>

Get(t) ==
  /\ GetOrInit(t, << >>)
  /\ UNCHANGED <<now, at, checks, log, evictions, raced>>

InsertEmpty(t) ==
  /\ InsertInit(t)
  /\ UNCHANGED <<now, at, checks, log, evictions, raced>>

WritePruned(t) ==
  /\ WriteBack(t, Prune(held[t], t))
  /\ UNCHANGED <<now, at, checks, log, evictions, raced>>

(* Decision::Allow, which stores the queue once more. *)
Allow(t) ==
  /\ pc[t] = "decide"
  /\ HasRoom(held[t])
  /\ ReturnInserting(t, Append(held[t], at[t]))
  /\ at' = [at EXCEPT ![t] = 0]
  /\ log' = [log EXCEPT ![key[t]] = Append(@, at[t])]
  /\ UNCHANGED <<now, checks, evictions, raced>>

(* Decision::Deny. *)
Deny(t) ==
  /\ pc[t] = "decide"
  /\ ~HasRoom(held[t])
  /\ ReturnOnly(t)
  /\ at' = [at EXCEPT ![t] = 0]
  /\ UNCHANGED <<now, checks, log, evictions, raced>>

EvictQueue(k) ==
  /\ evictions[k] < MaxEvictions
  /\ Evict(k)
  /\ evictions' = [evictions EXCEPT ![k] = @ + 1]
  /\ UNCHANGED <<now, at, checks, log, raced>>

Tick ==
  /\ now < MaxTime
  /\ now' = now + 1
  /\ UNCHANGED <<store, pc, key, held, at, checks, log, evictions, raced>>

Next ==
  \/ \E t \in Tasks, k \in Keys : Check(t, k)
  \/ \E t \in Tasks : Get(t) \/ InsertEmpty(t) \/ WritePruned(t)
  \/ \E t \in Tasks : Allow(t) \/ Deny(t)
  \/ \E k \in Keys : EvictQueue(k)
  \/ Tick

Spec == Init /\ [][Next]_vars

-----------------------------------------------------------------------------
(* The requests of key k allowed in the span of ticks from `from` on. *)
AllowedIn(k, from, span) ==
  Cardinality({i \in 1 .. Len(log[k]) : log[k][i] \in from .. from + span})

(* A key's queue never outgrows the limit, however its checks overlap: the *)
(* memory the store spends on one client is bounded.                       *)
QueueIsBounded ==
  \A k \in Keys : store[k] # Absent => Len(store[k]) <= Rps

(* The limit itself: no window holds more than Rps allowed requests of a   *)
(* key, as long as no two checks of it overlap and it is not evicted.      *)
WindowUnlessRaced ==
  \A k \in Keys :
    raced[k] \/ evictions[k] > 0
      \/ \A from \in 0 .. MaxTime : AllowedIn(k, from, Window) <= Rps

=============================================================================
