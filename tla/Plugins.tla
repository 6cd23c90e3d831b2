------------------------------- MODULE Plugins --------------------------------
(***************************************************************************)
(* The plugins of src/core/plugins: tasks load libraries (native.rs,       *)
(* wasm.rs), register them under their names (registry.rs), look them up   *)
(* and call their hooks while others register and unregister them.         *)
(*                                                                         *)
(* A registry operation holds the write or the read lock and is one step.  *)
(* A hook of a wasm plugin locks its store twice, once to see what it      *)
(* exports and once for the call, which holds the lock to its end.  The    *)
(* three hooks differ in the number they pass, which is left out.  Loads   *)
(* that fail change nothing and are left out, too.                         *)
(***************************************************************************)
EXTENDS Integers, FiniteSets

CONSTANTS
  Tasks,
  Libraries,  \* what may be loaded: [kind, name, exports, pages, limit]
  Names,      \* the names of plugins
  None,       \* no instance, no library
  Fuel,       \* the fuel of a store, 10_000_000
  MaxCost,    \* bound of the instance: the fuel a call burns, if it ends
  PageSize,   \* WASM_PAGE_SIZE and
  Offset,     \* PAYLOAD_OFFSET, scaled down
  Lengths,    \* the lengths of payloads
  MaxLoads    \* bound of the instance: the loads

ASSUME PluginsAssumption ==
  /\ Fuel \in Nat /\ MaxCost \in Nat \ {0} /\ MaxLoads \in Nat
  /\ PageSize \in Nat \ {0} /\ Offset \in Nat /\ Lengths \subseteq Nat
  /\ None \notin Int /\ None \notin Libraries
  /\ \A l \in Libraries : l.name \in Names /\ l.pages \in Nat

VARIABLES
  made,     \* the library of every instance, None before its load
  registry, \* name -> instance or None
  open,     \* the instances that have not been dropped
  fuel,     \* of an instance's store
  pages,    \* of its memory
  poisoned, \* whether a panic left its lock poisoned
  pc,       \* of a task: "idle", "loaded", "got", "transform" or "phase"
  held,     \* the Arc a task has in its hands
  result    \* how its last hook ended

vars == <<made, registry, open, fuel, pages, poisoned, pc, held, result>>

Ids == 1 .. MaxLoads
Registered(reg) == {reg[n] : n \in Names} \ {None}

Init ==
  /\ made = [i \in Ids |-> None]
  /\ registry = [n \in Names |-> None]
  /\ open = {}
  /\ fuel = [i \in Ids |-> 0]
  /\ pages = [i \in Ids |-> 0]
  /\ poisoned = [i \in Ids |-> FALSE]
  /\ pc = [t \in Tasks |-> "idle"]
  /\ held = [t \in Tasks |-> None]
  /\ result = [t \in Tasks |-> "none"]

(* An Arc is dropped: its last one closes the instance, and with it the    *)
(* dynamic library.  Variant: who unregisters a plugin closes it.          *)
DroppedAlways(i, reg, hands) == {i}

Dropped(i, reg, hands) ==
  IF i \in Registered(reg) \/ \E t \in Tasks : hands[t] = i THEN {} ELSE {i}

-----------------------------------------------------------------------------
(* load_from_library, load_from_wasm and from_bytes. *)
Load(t, l) ==
  /\ pc[t] = "idle"
  /\ \E i \in Ids :
       /\ made[i] = None
       /\ \A j \in Ids : j < i => made[j] # None
       /\ made' = [made EXCEPT ![i] = l]
       /\ open' = open \union {i}
       /\ fuel' = [fuel EXCEPT ![i] = Fuel]
       /\ pages' = [pages EXCEPT ![i] = l.pages]
       /\ held' = [held EXCEPT ![t] = i]
  /\ pc' = [pc EXCEPT ![t] = "loaded"]
  /\ UNCHANGED <<registry, poisoned, result>>

(* PluginRegistry::register refuses a name that is taken, and the plugin   *)
(* it was given is dropped.                                                *)
Takes(n, i) == IF registry[n] = None THEN i ELSE registry[n]

Register(t) ==
  LET i == held[t]
      n == made[i].name IN
  /\ pc[t] = "loaded"
  /\ registry' = [registry EXCEPT ![n] = Takes(n, i)]
  /\ held' = [held EXCEPT ![t] = None]
  /\ open' = open \ Dropped(i, registry', held')
  /\ pc' = [pc EXCEPT ![t] = "idle"]
  /\ UNCHANGED <<made, fuel, pages, poisoned, result>>

Unregister(n) ==
  /\ registry[n] # None
  /\ registry' = [registry EXCEPT ![n] = None]
  /\ open' = open \ Dropped(registry[n], registry', held)
  /\ UNCHANGED <<made, fuel, pages, poisoned, pc, held, result>>

Get(t, n) ==
  /\ pc[t] = "idle"
  /\ registry[n] # None
  /\ held' = [held EXCEPT ![t] = registry[n]]
  /\ pc' = [pc EXCEPT ![t] = "got"]
  /\ UNCHANGED <<made, registry, open, fuel, pages, poisoned, result>>

-----------------------------------------------------------------------------
(* The end of a hook: the task drops its Arc.                              *)
Finish(t, outcome) ==
  /\ result' = [result EXCEPT ![t] = outcome]
  /\ pc' = [pc EXCEPT ![t] = "idle"]
  /\ held' = [held EXCEPT ![t] = None]
  /\ open' = open \ Dropped(held[t], registry, held')
  /\ UNCHANGED <<made, registry>>

(* NativePlugin::run_transform: ok if it is not exported or returns 0.     *)
RunTransform(t) ==
  /\ pc[t] = "got" /\ made[held[t]].kind = "native"
  /\ \E code \in {0, 1} :
       Finish(t, IF code = 0 \/ "transform" \notin made[held[t]].exports
                   THEN "ok" ELSE "error")
  /\ UNCHANGED <<fuel, pages, poisoned>>

(* instance_exports: a poisoned lock counts as not exported. *)
InstanceExports(t) ==
  LET l == made[held[t]] IN
  /\ pc[t] = "got" /\ l.kind = "wasm"
  /\ pc' = [pc EXCEPT ![t] = IF "transform" \in l.exports /\ ~poisoned[held[t]]
                               THEN "transform" ELSE "phase"]
  /\ UNCHANGED <<made, registry, open, fuel, pages, poisoned, held, result>>

(* A call into the module: it burns fuel, and traps when there is too      *)
(* little.  Variant: the store is refuelled first.                         *)
BurnRefuelled(i, cost) == Fuel - cost
Burn(i, cost) == IF cost > fuel[i] THEN 0 ELSE fuel[i] - cost

Traps(i, cost) == cost > fuel[i]

(* call_transform: the memory grows by whole pages until the payload fits; *)
(* a slice out of its bounds would panic under the lock.  Variant: the     *)
(* last page is rounded off.                                               *)
GrownByFloor(missing) == missing \div PageSize
GrownBy(missing) == (missing + PageSize - 1) \div PageSize

Grown(i, length) ==
  LET needed == Offset + length
      size == pages[i] * PageSize
  IN  pages[i] + (IF needed > size THEN GrownBy(needed - size) ELSE 0)

CallTransform(t, length, cost) ==
  LET i == held[t]
      l == made[i]
      total == Grown(i, length)
      receives == "memory" \in l.exports
      overrun == Offset + length > total * PageSize
  IN
  /\ pc[t] = "transform"
  /\ \/ /\ poisoned[i] \/ (receives /\ total > l.limit)
        /\ Finish(t, "error")
        /\ UNCHANGED <<fuel, pages, poisoned>>
     \/ /\ ~poisoned[i] /\ ~receives
        /\ Finish(t, "ok")
        /\ UNCHANGED <<fuel, pages, poisoned>>
     \/ /\ ~poisoned[i] /\ receives /\ total <= l.limit
        /\ poisoned' = [poisoned EXCEPT ![i] = overrun]
        /\ pages' = [pages EXCEPT ![i] = total]
        /\ fuel' = IF overrun THEN fuel ELSE [fuel EXCEPT ![i] = Burn(i, cost)]
        /\ Finish(t, IF overrun \/ Traps(i, cost) THEN "error" ELSE "ok")

(* call_phase: a code other than 0 is an error. *)
CallPhase(t, code, cost) ==
  LET i == held[t]
      calls == "phase" \in made[i].exports /\ ~poisoned[i]
  IN
  /\ pc[t] = "phase"
  /\ fuel' = IF calls THEN [fuel EXCEPT ![i] = Burn(i, cost)] ELSE fuel
  /\ Finish(t, IF poisoned[i] \/ (calls /\ (Traps(i, cost) \/ code # 0))
                 THEN "error" ELSE "ok")
  /\ UNCHANGED <<pages, poisoned>>

-----------------------------------------------------------------------------
Manage(t) == Register(t) \/ \E l \in Libraries : Load(t, l)

Call(t) ==
  \/ \E length \in Lengths, cost \in 1 .. MaxCost : CallTransform(t, length, cost)
  \/ \E code \in {0, 1}, cost \in 1 .. MaxCost : CallPhase(t, code, cost)

Hook(t) ==
  \/ \E n \in Names : Get(t, n)
  \/ RunTransform(t)
  \/ InstanceExports(t)
  \/ Call(t)

Next ==
  \/ \E t \in Tasks : Manage(t) \/ Hook(t)
  \/ \E n \in Names : Unregister(n)

Spec == Init /\ [][Next]_vars

-----------------------------------------------------------------------------
(* The types of the variables. *)
TypeOK ==
  /\ made \in [Ids -> Libraries \union {None}]
  /\ registry \in [Names -> Ids \union {None}]
  /\ open \subseteq Ids
  /\ fuel \in [Ids -> Nat]
  /\ pages \in [Ids -> Nat]
  /\ poisoned \in [Ids -> BOOLEAN]
  /\ pc \in [Tasks -> {"idle", "loaded", "got", "transform", "phase"}]
  /\ held \in [Tasks -> Ids \union {None}]
  /\ result \in [Tasks -> {"none", "ok", "error"}]

(* However long the payloads are and in whatever order they come, none is  *)
(* written past the end of the memory, which would poison the store's lock *)
(* and fail every later call.                                              *)
PayloadsFit == \A i \in Ids : ~poisoned[i]

(* A library is open exactly as long as a name or a running hook needs it: *)
(* unregistering does not close it under a call, and nothing leaks, not    *)
(* even the loser of two registrations of one name.                        *)
OpenWhileUsed ==
  open = Registered(registry) \union ({held[t] : t \in Tasks} \ {None})

(* A store's fuel is all its calls will ever get: if its hooks are called  *)
(* again and again they end up failing, all of them, until it is replaced. *)
Metered(i) ==
  /\ made[i] # None /\ made[i].kind = "wasm"
  /\ "transform" \in made[i].exports \/ "phase" \in made[i].exports
  /\ "transform" \in made[i].exports => "memory" \in made[i].exports

CallOf(i) == \E t \in Tasks : held[t] = i /\ Call(t)

Fails(i) ==
  \A t \in Tasks : (held[t] = i /\ held'[t] = None /\ pc[t] # "loaded") =>
    result'[t] = "error"

WearsOut ==
  \A i \in Ids :
    []<><<Metered(i) /\ CallOf(i)>>_vars => <>[][Fails(i)]_vars
=============================================================================
