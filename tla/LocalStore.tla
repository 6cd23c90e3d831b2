----------------------------- MODULE LocalStore ------------------------------
(***************************************************************************)
(* The in-process store of limiter state, src/core/ratelimit/              *)
(* local_store.rs, and the calls of the tasks that use it.  Only one       *)
(* get or insert of the cache behind it is a single step.  `update` is a   *)
(* get, an insert of the initial value if the key was absent, and an       *)
(* insert of the new value; other tasks run between them.                  *)
(*                                                                         *)
(* The module is extended by the limiters, which say what is stored, what  *)
(* `update` computes and how a call ends.                                  *)
(***************************************************************************)
CONSTANTS
  Tasks,  \* the tasks that check a limit
  Keys,   \* the client keys they check
  Absent  \* no entry, no key, no value: None

ASSUME AbsentAssumption == Absent \notin Keys

VARIABLES
  store, \* the cache: an entry or Absent for every key
  pc,    \* "idle", "get", "init", "write" or "decide"
  key,   \* the key of a task's call
  held   \* the task's own copy of the entry, Absent before its get

StoreTypeOK(Entry) ==
  /\ store \in [Keys -> Entry \union {Absent}]
  /\ pc \in [Tasks -> {"idle", "get", "init", "write", "decide"}]
  /\ key \in [Tasks -> Keys \union {Absent}]
  /\ held \in [Tasks -> Entry \union {Absent}]
  /\ \A t \in Tasks :
       /\ pc[t] # "idle" <=> key[t] # Absent
       /\ pc[t] \in {"init", "write", "decide"} <=> held[t] # Absent

StoreInit ==
  /\ store = [k \in Keys |-> Absent]
  /\ pc = [t \in Tasks |-> "idle"]
  /\ key = [t \in Tasks |-> Absent]
  /\ held = [t \in Tasks |-> Absent]

(* The caller enters update. *)
BeginUpdate(t, k) ==
  /\ pc[t] = "idle"
  /\ pc' = [pc EXCEPT ![t] = "get"]
  /\ key' = [key EXCEPT ![t] = k]
  /\ UNCHANGED <<store, held>>

(* get_or_insert: the get, with `init` for an absent entry. *)
GetOrInit(t, init) ==
  LET found == store[key[t]] IN
  /\ pc[t] = "get"
  /\ pc' = [pc EXCEPT ![t] = IF found = Absent THEN "init" ELSE "write"]
  /\ held' = [held EXCEPT ![t] = IF found = Absent THEN init ELSE found]
  /\ UNCHANGED <<store, key>>

(* get_or_insert: the insert, which does not look again. *)
InsertInit(t) ==
  /\ pc[t] = "init"
  /\ pc' = [pc EXCEPT ![t] = "write"]
  /\ store' = [store EXCEPT ![key[t]] = held[t]]
  /\ UNCHANGED <<key, held>>

(* update: the insert of the new value, computed from the task's copy. *)
WriteBack(t, new) ==
  /\ pc[t] = "write"
  /\ pc' = [pc EXCEPT ![t] = "decide"]
  /\ store' = [store EXCEPT ![key[t]] = new]
  /\ held' = [held EXCEPT ![t] = new]
  /\ UNCHANGED key

Return(t) ==
  /\ pc[t] = "decide"
  /\ pc' = [pc EXCEPT ![t] = "idle"]
  /\ key' = [key EXCEPT ![t] = Absent]
  /\ held' = [held EXCEPT ![t] = Absent]

(* A call that ends with an insert of its own, and one that does not. *)
ReturnInserting(t, new) ==
  /\ Return(t)
  /\ store' = [store EXCEPT ![key[t]] = new]

ReturnOnly(t) ==
  /\ Return(t)
  /\ UNCHANGED store

(* The cache drops the entry of a key: it was last written a time to live  *)
(* ago, or the cache is at its capacity.                                   *)
Evict(k) ==
  /\ store[k] # Absent
  /\ store' = [store EXCEPT ![k] = Absent]
  /\ UNCHANGED <<pc, key, held>>

InFlight(k) == {t \in Tasks : pc[t] # "idle" /\ key[t] = k}
=============================================================================
