------------------------------- MODULE Breaker -------------------------------
(***************************************************************************)
(* The circuit breaker of src/core/breaker/breaker.rs, shared by several   *)
(* tasks.  Breaker::call is three steps with gaps between them in which    *)
(* other tasks run: try_half_open, the separate read of `state` that       *)
(* decides on admission, and, after the await of the wrapped future, the   *)
(* accounting of its outcome.  Each of on_success, on_failure and          *)
(* try_half_open holds the `state` mutex to its end, hence is one step.    *)
(*                                                                         *)
(* `opened_for` is opened_at.elapsed(), which is all the code ever reads   *)
(* of opened_at: it stops at OpenDuration, beyond which the comparison     *)
(* with open_duration cannot change.  For the same reason                  *)
(* `consecutive_failures` stops at FailureThreshold.  (The u32 behind it   *)
(* would wrap after 2^32 failures with no success between them.)           *)
(***************************************************************************)
EXTENDS Integers, FiniteSets

CONSTANTS
  Callers,          \* the tasks that share the breaker
  FailureThreshold, \* failure_threshold
  OpenDuration      \* open_duration, in ticks of the clock

ASSUME ThresholdAssumption == FailureThreshold \in Nat
ASSUME DurationAssumption == OpenDuration \in Nat

VARIABLES
  state,                \* the three mutexes of the breaker
  consecutive_failures,
  opened_for,           \* opened_at: NotOpened, or the time since
  call                    \* where each caller is in Breaker::call

breakerVars == <<state, consecutive_failures, opened_for, call>>

(* opened_at = None *)
NotOpened == -1

(* "gated": past try_half_open, before the read of the state.  A caller    *)
(* awaits its future in "calling" if it read Closed, in "probing" if it    *)
(* read HalfOpen; the code treats the two alike.                           *)
Awaiting == {"calling", "probing"}

BreakerTypeOK ==
  /\ state \in {"Closed", "Open", "HalfOpen"}
  /\ consecutive_failures \in 0 .. FailureThreshold
  /\ opened_for \in {NotOpened} \union 0 .. OpenDuration
  /\ call \in [Callers -> {"idle", "gated"} \union Awaiting]

BreakerInit ==
  /\ state = "Closed"
  /\ consecutive_failures = 0
  /\ opened_for = NotOpened
  /\ call = [c \in Callers |-> "idle"]

Move(c, from, to) ==
  /\ call[c] \in from
  /\ call' = [call EXCEPT ![c] = to]

(* elapsed >= open_duration, and only in Open *)
CooledDown ==
  /\ state = "Open"
  /\ opened_for # NotOpened
  /\ opened_for >= OpenDuration

(* Breaker::call enters try_half_open. *)
TryHalfOpen(c) ==
  /\ Move(c, {"idle"}, "gated")
  /\ state' = IF CooledDown THEN "HalfOpen" ELSE state
  /\ UNCHANGED <<consecutive_failures, opened_for>>

(* The match on self.state(): an open breaker returns BreakerOpen. *)
Reject(c) ==
  /\ state = "Open"
  /\ Move(c, {"gated"}, "idle")
  /\ UNCHANGED <<state, consecutive_failures, opened_for>>

(* Variants: the slips a property below is there to catch.  None is part   *)
(* of BreakerNext.  Here: the decision taken before the gap, in            *)
(* try_half_open.                                                          *)
AdmitUnchecked(c) ==
  /\ Move(c, {"gated"}, "calling")
  /\ UNCHANGED <<state, consecutive_failures, opened_for>>

Admit(c) ==
  /\ state # "Open"
  /\ Move(c, {"gated"}, IF state = "HalfOpen" THEN "probing" ELSE "calling")
  /\ UNCHANGED <<state, consecutive_failures, opened_for>>

(* Variants: a success that leaves the state, or the trip time, behind. *)
OnSuccessKeepsState(c) ==
  /\ Move(c, Awaiting, "idle")
  /\ consecutive_failures' = 0
  /\ opened_for' = NotOpened
  /\ UNCHANGED state
OnSuccessKeepsTrip(c) ==
  /\ Move(c, Awaiting, "idle")
  /\ state' = "Closed"
  /\ consecutive_failures' = 0
  /\ UNCHANGED opened_for

OnSuccess(c) ==
  /\ Move(c, Awaiting, "idle")
  /\ state' = "Closed"
  /\ consecutive_failures' = 0
  /\ opened_for' = NotOpened

OnFailure(c) ==
  LET failures == consecutive_failures + 1
      trips    == failures >= FailureThreshold
  IN
  /\ Move(c, Awaiting, "idle")
  /\ consecutive_failures' =
       IF failures > FailureThreshold THEN FailureThreshold ELSE failures
  /\ state' = IF trips THEN "Open" ELSE state
  /\ opened_for' = IF trips THEN 0 ELSE opened_for

(* The task is dropped at its await (its client went away): no accounting. *)
Drop(c) ==
  /\ Move(c, Awaiting, "idle")
  /\ UNCHANGED <<state, consecutive_failures, opened_for>>

Tick ==
  /\ opened_for # NotOpened
  /\ opened_for < OpenDuration
  /\ opened_for' = opened_for + 1
  /\ UNCHANGED <<state, consecutive_failures, call>>

Gate(c) == Reject(c) \/ Admit(c)
Settle(c) == OnSuccess(c) \/ OnFailure(c) \/ Drop(c)

BreakerNext ==
  \/ \E c \in Callers : TryHalfOpen(c) \/ Gate(c) \/ Settle(c)
  \/ Tick

(* Time passes, clients keep calling, the runtime schedules every task,    *)
(* and every wrapped future ends (upstream calls carry a timeout).         *)
Fairness ==
  /\ WF_breakerVars(Tick)
  /\ \A c \in Callers :
       /\ WF_breakerVars(TryHalfOpen(c))
       /\ WF_breakerVars(Gate(c))
       /\ WF_breakerVars(Settle(c))

BreakerSpec == BreakerInit /\ [][BreakerNext]_breakerVars
FairBreaker == BreakerSpec /\ Fairness

-----------------------------------------------------------------------------
(* The three separately locked fields always agree: a closed breaker is    *)
(* below its threshold and has no trip time; any other has reached the     *)
(* threshold and has one; and a half-open one has sat out its cool-down,   *)
(* with no failure having restarted it.                                    *)
FieldsAgree ==
  /\ state = "Closed" =>
       /\ opened_for = NotOpened
       /\ consecutive_failures < FailureThreshold \/ consecutive_failures = 0
  /\ state # "Closed" =>
       /\ opened_for # NotOpened
       /\ consecutive_failures = FailureThreshold
  /\ state = "HalfOpen" => opened_for = OpenDuration

(* "Open lasts until open_duration_ms, then HalfOpen" is what the head of  *)
(* the file says.  The code keeps to it unless a call that was admitted    *)
(* before the trip succeeds after it: on_success closes whatever it finds, *)
(* and the cool-down is over before its time.                              *)
OpenLasts ==
  [][(state = "Open" /\ state' # "Open") =>
       (state' = "HalfOpen" /\ opened_for = OpenDuration)]_breakerVars

(* "HalfOpen: one failure -> Open": whichever call fails while the breaker *)
(* is half open, one failure is enough, since try_half_open keeps the      *)
(* counter at the threshold.                                               *)
ProbeFailureReopens ==
  [][\A c \in Callers :
       (OnFailure(c) /\ state = "HalfOpen") => state' = "Open"]_breakerVars

(* Once the upstream stops failing (and no client gives up), the breaker   *)
(* closes and stays closed: late failures of calls admitted before a trip  *)
(* restart the cool-down only finitely often.                              *)
HealedUpstreamCloses ==
  <>[][\A c \in Callers : ~OnFailure(c) /\ ~Drop(c)]_breakerVars
    => <>[](state = "Closed")

-----------------------------------------------------------------------------
(* The breaker keeps the promises of BreakerContract. *)
Cooldown ==
  IF opened_for = NotOpened THEN "none"
  ELSE IF opened_for = OpenDuration THEN "expired" ELSE "running"

Contract == INSTANCE BreakerContract WITH
  cooldown      <- Cooldown,
  admitted      <- {c \in Callers : call[c] \in Awaiting},
  FreshCooldown <- IF OpenDuration = 0 THEN "expired" ELSE "running"

(* Every step of the breaker is a step its contract allows, or none. *)
KeepsContract == Contract!Spec
=============================================================================
