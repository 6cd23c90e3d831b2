--------------------------- MODULE BreakerContract ---------------------------
(***************************************************************************)
(* What the circuit breaker promises its callers, without the failure      *)
(* counter, the clock and the two-step gate of Breaker.tla.                *)
(*                                                                         *)
(* The cool-down after a trip is one of three phases: there is none while  *)
(* the breaker is Closed, it is running, or it has expired.  A breaker     *)
(* lets no call through while its cool-down is running, goes half open     *)
(* only once it has expired, and a half-open breaker that sees a failure   *)
(* always trips again.                                                     *)
(***************************************************************************)
CONSTANTS
  Callers,      \* the tasks that share one breaker
  FreshCooldown \* the phase a cool-down is in right after a trip

VARIABLES
  state,        \* BreakerState: "Closed", "Open" or "HalfOpen"
  cooldown,     \* "none", "running" or "expired"
  admitted      \* the callers whose future is being awaited

contractVars == <<state, cooldown, admitted>>

Init ==
  /\ state = "Closed"
  /\ cooldown = "none"
  /\ admitted = {}

(* A caller passes the gate. *)
Admit(c) ==
  /\ c \notin admitted
  /\ state # "Open"
  /\ cooldown # "running"
  /\ admitted' = admitted \union {c}
  /\ UNCHANGED <<state, cooldown>>

(* A success closes the breaker, whatever happened since the admission. *)
Recover(c) ==
  /\ c \in admitted
  /\ state' = "Closed"
  /\ cooldown' = "none"
  /\ admitted' = admitted \ {c}

(* A failure trips the breaker, or trips it again. *)
Trip(c) ==
  /\ c \in admitted
  /\ state' = "Open"
  /\ cooldown' = FreshCooldown
  /\ admitted' = admitted \ {c}

(* A failure is only tolerated by a closed breaker; a dropped future is    *)
(* not accounted for in any state.                                         *)
Tolerate(c) ==
  /\ c \in admitted
  /\ state = "Closed"
  /\ admitted' = admitted \ {c}
  /\ UNCHANGED <<state, cooldown>>

Abandon(c) ==
  /\ c \in admitted
  /\ admitted' = admitted \ {c}
  /\ UNCHANGED <<state, cooldown>>

Expire ==
  /\ cooldown = "running"
  /\ cooldown' = "expired"
  /\ UNCHANGED <<state, admitted>>

Probe ==
  /\ state = "Open"
  /\ cooldown = "expired"
  /\ state' = "HalfOpen"
  /\ UNCHANGED <<cooldown, admitted>>

Next ==
  \/ \E c \in Callers :
       Admit(c) \/ Recover(c) \/ Trip(c) \/ Tolerate(c) \/ Abandon(c)
  \/ Expire
  \/ Probe

Spec == Init /\ [][Next]_contractVars
=============================================================================
