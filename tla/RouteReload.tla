----------------------------- MODULE RouteReload -----------------------------
(***************************************************************************)
(* Reloading the routes: src/service/hot_reload.rs, the load of            *)
(* src/service/config_loader.rs it runs, and the table of                  *)
(* src/core/routing/table.rs it replaces, while an operator edits the      *)
(* files.  A reload reads default.yaml (and the overlay), then the routes  *)
(* file, then validates, compiles and stores the table; none of this is    *)
(* locked, so edits and other reloads come between the reads, and between  *)
(* the last read and the store.                                            *)
(*                                                                         *)
(* Only one file of routes/ can be modelled as holding routes, since the   *)
(* files are joined as text and a second `routes:` is an error.  Compiling *)
(* cannot fail after validation: is_valid_path leaves only exact paths.    *)
(***************************************************************************)
EXTENDS Integers

CONSTANTS
  Reloads,  \* the tasks that run reload
  MaxEdits, \* bound of the instance: the operator's edits
  Nothing   \* nothing read yet

ASSUME EditsAssumption == MaxEdits \in Nat
ASSUME NoneAssumption ==
  /\ Nothing \notin BOOLEAN
  /\ Nothing \notin [version : Nat, text : {"valid", "invalid", "empty"}]

VARIABLES
  defaults,  \* does default.yaml, with its overlay, load and validate?
  routes,    \* the routes file
  served,     \* what was stored in state.route_table
  phase,     \* where each reload is
  files,     \* what each has read of the two files
  overlaps,  \* history: did another reload run at the same time?
  torn,      \* history: was default.yaml edited between the two reads?
  whole,     \* history: the versions of the routes that were on disk
             \* together with a default.yaml they load with
  notified   \* the watcher's channel is not empty

reloadVars == <<defaults, routes, served, phase, files, overlaps, torn, whole,
  notified>>

history == <<overlaps, torn, whole>>

(* A routes file: its place in the history of edits and what it holds.     *)
(* "empty" is a file that is being rewritten in place: it parses, to no    *)
(* routes at all.                                                          *)
RoutesFile == [version : Nat, text : {"valid", "invalid", "empty"}]

Unread == [defaults |-> Nothing, routes |-> Nothing]

ReloadTypeOK ==
  /\ defaults \in BOOLEAN
  /\ routes \in RoutesFile
  /\ served \in RoutesFile
  /\ phase \in [Reloads -> {"idle", "defaults", "routes", "store"}]
  /\ files \in [Reloads -> [defaults : BOOLEAN \union {Nothing},
                           routes   : RoutesFile \union {Nothing}]]
  /\ \A r \in Reloads :
       /\ files[r].defaults # Nothing <=> phase[r] \in {"routes", "store"}
       /\ files[r].routes # Nothing <=> phase[r] = "store"
  /\ overlaps \in [Reloads -> BOOLEAN]
  /\ torn \in [Reloads -> BOOLEAN]
  /\ whole \in SUBSET Nat
  /\ notified \in BOOLEAN

(* main has loaded the configuration and built the table from it.          *)
ReloadInit ==
  /\ defaults = TRUE
  /\ routes = [version |-> 0, text |-> "valid"]
  /\ served = routes
  /\ phase = [r \in Reloads |-> "idle"]
  /\ files = [r \in Reloads |-> Unread]
  /\ overlaps = [r \in Reloads |-> FALSE]
  /\ torn = [r \in Reloads |-> FALSE]
  /\ whole = {0}
  /\ notified = FALSE

-----------------------------------------------------------------------------
(* Variants (see Breaker): of the two files only one is validated.         *)
LoadsRoutesOnly(h) == h.routes.text # "invalid"

(* Parsing and validate, of what was read. *)
Loads(h) == h.defaults /\ h.routes.text # "invalid"

OnDisk == [defaults |-> defaults, routes |-> routes]

(* The operator's side.  Every edit is an event of the watcher, whose      *)
(* callback sends to a channel that nothing receives from.                 *)
Edited(loads) ==
  /\ notified' = TRUE
  /\ whole' = whole \union (IF loads THEN {routes'.version} ELSE {})
  /\ UNCHANGED <<served, phase, files, overlaps>>

EditDefaults ==
  /\ defaults' = ~defaults
  /\ UNCHANGED routes
  /\ torn' = [r \in Reloads |-> torn[r] \/ phase[r] = "routes"]
  /\ Edited(defaults' /\ routes.text # "invalid")

(* The routes file is moved into place, or rewritten there in two steps.   *)
EditRoutes(text) ==
  /\ routes' = [version |-> routes.version + 1, text |-> text]
  /\ UNCHANGED <<defaults, torn>>
  /\ Edited(defaults /\ text # "invalid")

MoveRoutes(text) ==
  /\ routes.version < MaxEdits
  /\ routes.text # "empty"
  /\ EditRoutes(text)

TruncateRoutes ==
  /\ routes.version < MaxEdits
  /\ routes.text # "empty"
  /\ EditRoutes("empty")

WriteRoutes(text) ==
  /\ routes.text = "empty"
  /\ EditRoutes(text)

Edit ==
  \/ EditDefaults
  \/ TruncateRoutes
  \/ \E text \in {"valid", "invalid"} : MoveRoutes(text) \/ WriteRoutes(text)

-----------------------------------------------------------------------------
(* The program's side. *)
Running == {r \in Reloads : phase[r] # "idle"}

Advance(r, from, to) ==
  /\ phase[r] = from
  /\ phase' = [phase EXCEPT ![r] = to]

(* Something calls reload: in the repository, its tests. *)
Start(r) ==
  /\ Advance(r, "idle", "defaults")
  /\ overlaps' = [o \in Reloads |->
                    IF o = r THEN Running # {}
                    ELSE overlaps[o] \/ o \in Running]
  /\ torn' = [torn EXCEPT ![r] = FALSE]
  /\ UNCHANGED <<defaults, routes, served, files, whole, notified>>

ReadDefaults(r) ==
  /\ Advance(r, "defaults", "routes")
  /\ files' = [files EXCEPT ![r] = [defaults |-> defaults, routes |-> Nothing]]
  /\ UNCHANGED <<defaults, routes, served, history, notified>>

ReadRoutes(r) ==
  /\ Advance(r, "routes", "store")
  /\ files' = [files EXCEPT ![r].routes = routes]
  /\ UNCHANGED <<defaults, routes, served, history, notified>>

(* Variants: a reload whose failure brings back the table main built; one  *)
(* that defers to any other.                                               *)
StoreOrReset(r) ==
  /\ Advance(r, "store", "idle")
  /\ served' = IF Loads(files[r]) THEN files[r].routes
               ELSE [version |-> 0, text |-> "valid"]
  /\ files' = [files EXCEPT ![r] = Unread]
  /\ UNCHANGED <<defaults, routes, history, notified>>
StoreIfAlone(r) ==
  /\ Advance(r, "store", "idle")
  /\ served' = IF Loads(files[r]) /\ Running = {r} THEN files[r].routes
               ELSE served
  /\ files' = [files EXCEPT ![r] = Unread]
  /\ UNCHANGED <<defaults, routes, history, notified>>

(* The rest of load, RouteTable::new and replace; on failure nothing.      *)
Store(r) ==
  /\ Advance(r, "store", "idle")
  /\ served' = IF Loads(files[r]) THEN files[r].routes ELSE served
  /\ files' = [files EXCEPT ![r] = Unread]
  /\ UNCHANGED <<defaults, routes, history, notified>>

Step(r) == ReadDefaults(r) \/ ReadRoutes(r) \/ Store(r)

ReloadNext == Edit \/ \E r \in Reloads : Start(r) \/ Step(r)

ReloadSpec == ReloadInit /\ [][ReloadNext]_reloadVars

(* A reload that was started runs to its end; nothing starts one. *)
FairReload == ReloadSpec /\ \A r \in Reloads : WF_reloadVars(Step(r))

-----------------------------------------------------------------------------
(* Rollback: whatever a reload stores was on disk, at one moment, as part  *)
(* of a configuration that loads.  (The two reads of a reload are apart:   *)
(* if default.yaml changes between them, what it validates may never have  *)
(* been there.)                                                            *)
StoresWhatWasWhole ==
  [][\A r \in Reloads :
       (Store(r) /\ served' # served /\ ~torn[r]) => served'.version \in whole]_reloadVars

(* The table never goes back to older routes, but for a reload that was    *)
(* overtaken by another: store does not look at what it replaces.          *)
NeverBackAlone ==
  [][\A r \in Reloads :
       (Store(r) /\ ~overlaps[r]) => served'.version >= served.version]_reloadVars

(* Once the operator leaves a configuration that loads, and reloads keep   *)
(* being asked for, its routes are served and stay: no reload that read    *)
(* an older file, or half a file, has the last word.                       *)
LastReloadWins ==
  (/\ <>[][~Edit]_reloadVars
   /\ <>[]Loads(OnDisk)
   /\ []<><<\E r \in Reloads : Start(r)>>_reloadVars) => <>[](served = routes)

=============================================================================
