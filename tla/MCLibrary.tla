------------------------------- MODULE MCLibrary -------------------------------
(***************************************************************************)
(* Three parts of the code that no request of the gateway reaches: the     *)
(* plugins, the breaker and the reload of the configuration.  They share   *)
(* nothing, and each runs while the others rest where they start.          *)
(*                                                                         *)
(* Of plugins there is a library of each shape: a native one, a wasm       *)
(* module with a transform and one of the same name without memory, and    *)
(* one that has only a phase hook.                                         *)
(***************************************************************************)
EXTENDS Plugins, Breaker, RouteReload

Library(kind, name, exports, from, limit) ==
  [kind |-> kind, name |-> name, exports |-> exports, pages |-> from, limit |-> limit]

MCLibraries ==
  { Library("native", "a", {"transform"}, 0, 0),
    Library("wasm", "a", {"memory", "transform"}, 1, 3),
    Library("wasm", "b", {"transform"}, 0, 0),
    Library("wasm", "b", {"phase"}, 0, 0) }

libraryVars == <<vars, breakerVars, reloadVars>>

MCInit == Init /\ BreakerInit /\ ReloadInit

OfPlugins(A) ==
  BreakerInit /\ ReloadInit /\ A /\ UNCHANGED <<breakerVars, reloadVars>>
OfBreaker(A) == Init /\ ReloadInit /\ A /\ UNCHANGED <<vars, reloadVars>>
OfReload(A) == Init /\ BreakerInit /\ A /\ UNCHANGED <<vars, breakerVars>>

(* Of the plugins no step is forced; of the others, those their own        *)
(* specifications force.                                                   *)
MCSpec ==
  /\ MCInit
  /\ [][\/ OfPlugins(Next)
        \/ OfBreaker(BreakerNext)
        \/ OfReload(ReloadNext)]_libraryVars
  /\ WF_libraryVars(OfBreaker(Tick))
  /\ \A c \in Callers :
       /\ WF_libraryVars(OfBreaker(TryHalfOpen(c)))
       /\ WF_libraryVars(OfBreaker(Gate(c)))
       /\ WF_libraryVars(OfBreaker(Settle(c)))
  /\ \A r \in Reloads : WF_libraryVars(OfReload(Step(r)))
=============================================================================
