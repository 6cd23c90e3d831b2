------------------------------ MODULE MCRouting ------------------------------
(***************************************************************************)
(* Canary, and so Routing, with every table of up to two of ten rules, of  *)
(* all kinds, every table of three of five of them, and every table of one *)
(* exact rule whose path has up to four segments.                          *)
(***************************************************************************)
EXTENDS Canary

Rule(method, path, needs, to) ==
  [method |-> method, path |-> path, needs |-> needs, to |-> to]

(* Weights are modulo 8: {t1, t2} of 3 + 2 and 6 + 1 stay below it, 6 + 5  *)
(* wraps to 3, 4 + 4 to nothing.  "gone" is not configured.                *)
MCRules ==
  { Rule("GET", Rooted(<<"a">>), {}, Direct("u1")),
    Rule("get", Rooted(<<"a">>), {"h"}, Split(<<Target("u1", 3), Target("u2", 0), Target("u3", 2)>>)),
    Rule("ANY", Rooted(<<"a", "..", "a", ".", "b">>), {}, Split(<<Target("u3", 6), Target("u1", 5)>>)),
    Rule("ANY", Rooted(<<"">>), {}, Split(<<Target("u1", 4), Target("u2", 4)>>)),
    Rule("get", Rooted(<<"a", "">>), {}, Split(<<Target("gone", 1), Target("u2", 6)>>)),
    Rule("POST", Rooted(<<"a", "b", "", "">>), {}, Direct("gone")),
    Rule("ANY", Rooted(<<"", "">>), {"h"}, Nowhere),
    Rule("GET", Regex({<<"a">>, <<"a", "b">>}), {}, Split(<<Target("u2", 0), Target("u2", 1)>>)),
    Rule("ANY", Regex({<<"">>, <<"a", "", "b">>}), {}, Direct("u3")),
    Rule("GET", BadRegex, {}, Direct("u1")) }

MCInitial == <<Rule("ANY", Rooted(<<"a", "">>), {}, Split(<<Target("u2", 1), Target("u3", 1)>>)),
               Rule("GET", Rooted(<<"a", "b">>), {}, Direct("u1"))>>

MCNodeHash == [u1 |-> {1, 9}, u2 |-> {3, 6}, u3 |-> {6, 11}, gone |-> {4}]

MCSegments == {"a", "b", "", ".", ".."}

MCTables ==
  UNION {[1 .. n -> MCRules] : n \in 0 .. 2}
    \union [1 .. 3 -> {r \in MCRules : r.method = "ANY" \/ r.needs # {}}]
    \union {<<Rule("GET", Rooted(p), {}, Direct("u1"))>> :
              p \in UNION {[1 .. n -> MCSegments] : n \in 1 .. 4}}
    \union {<<Rule("GET", Relative, {}, Nowhere)>>}

MCRequests ==
  [method : {"get", "POST"},
   path   : {<<"">>, <<"a">>, <<"a", "b">>, <<"a", "", "b">>, <<"ab">>},
   has    : {{}, {"h"}}]

MCUpper == [m \in {"get", "GET", "POST", "ANY"} |-> IF m = "get" THEN "GET" ELSE m]
=============================================================================
