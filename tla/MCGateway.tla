----------------------------- MODULE MCGateway -------------------------------
(***************************************************************************)
(* Gateway with two upstreams, one of them added after the process         *)
(* started, and the configurations an operator may move between: a smaller *)
(* limit, another algorithm, the default limit, a canary to the new        *)
(* upstream, keys, and none where some are needed.                         *)
(***************************************************************************)
EXTENDS Gateway

CONSTANTS old, new, bucket, window

MCKnown == {old}
MCAlgorithms == {bucket, window}
MCDefaultLimit == [algorithm |-> bucket, burst |-> 1]
Config(targets, auth, limit) ==
  [targets |-> targets, auth |-> auth, limit |-> limit]
MCConfigs ==
  { Config({old}, "none", [algorithm |-> bucket, burst |-> 2]),
    Config({old}, "keys", [algorithm |-> window, burst |-> 1]),
    Config({old, new}, "none", None),
    Config({old}, "nokeys", None) }
=============================================================================
