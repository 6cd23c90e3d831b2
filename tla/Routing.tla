------------------------------- MODULE Routing -------------------------------
(***************************************************************************)
(* The route table of src/core/routing: rules are compiled in the order of *)
(* their registration, sorted by kind, and a request is answered by the    *)
(* first that matches.  Requests come in while the table is replaced, and  *)
(* keep the snapshot they took.                                            *)
(*                                                                         *)
(* A path is what split('/') makes of it after the leading slash: "/" is   *)
(* <<"">>, and "/a//b/" is <<"a", "", "b", "">>.  A regex is the set of    *)
(* the paths it finds a match in.  Headers and query parameters are one    *)
(* set of conditions.  (Of what the table can do the gateway uses part:    *)
(* is_valid_path lets only exact paths into a configuration, and           *)
(* resolve_route passes no headers and no query.)                          *)
(***************************************************************************)
EXTENDS Integers, FiniteSets, Sequences, SequencesExt

CONSTANTS
  Initial,   \* the rules the process started with
  Tables,    \* the lists of rules the table may be built from
  Requests,  \* the requests that may come in
  Upper,     \* to_uppercase, on the methods of both
  MaxBuilds  \* bound of the instance: how often the table is replaced

AnyMethod == "ANY"

(* The three forms of a rule's path, and two that do not compile.          *)
Regex(found) == [form |-> "regex", found |-> found]
Rooted(segments) == [form |-> "rooted", segments |-> segments]
BadRegex == [form |-> "bad_regex"]
Relative == [form |-> "relative"]

VARIABLES
  table,    \* the compiled table in force, and the rules it was made of
  builds,   \* history: how often it was replaced
  request,  \* the request that is being matched, <<>> if there is none
  snapshot, \* the table it took
  cursor,   \* the entry that is tried next, 0 if there is none
  result    \* the index of the rule that matched, 0 if none did

routingVars == <<table, builds, request, snapshot, cursor, result>>

-----------------------------------------------------------------------------
(* util::path::normalize.  Variant (see Breaker): a parent at the root is  *)
(* kept.                                                                   *)
FollowKeepingParents(out, segment) ==
  CASE segment \in {"", "."} -> out
    [] segment = ".." /\ out # << >> -> Front(out)
    [] OTHER -> Append(out, segment)

Follow(out, segment) ==
  CASE segment \in {"", "."} -> out
    [] segment = ".." -> IF out = << >> THEN out ELSE Front(out)
    [] OTHER -> Append(out, segment)

Followed(segments) ==
  LET out[n \in 0 .. Len(segments)] ==
        IF n = 0 THEN << >> ELSE Follow(out[n - 1], segments[n])
  IN  out

Normalize(segments) ==
  LET out == Followed(segments)[Len(segments)]
  IN  IF out = << >> THEN <<"">> ELSE out

(* trim_end_matches('/') *)
Trim(segments) ==
  LET kept == {n \in 1 .. Len(segments) : segments[n] # ""}
  IN  SubSeq(segments, 1,
             CHOOSE n \in kept \union {0} : \A m \in kept : m <= n)

EndsWithSlash(segments) == Len(segments) > 1 /\ Last(segments) = ""

(* Matcher::compile, of the rule at `index`. *)
Compiles(rule) == rule.path.form \in {"regex", "rooted"}

(* Rules come as lists, and main starts with those of the configuration,   *)
(* which compiled.                                                         *)
ASSUME RoutingAssumption ==
  /\ MaxBuilds \in Nat
  /\ \A rules \in Tables \union {Initial} :
       /\ rules \in Seq(ToSet(rules))
       /\ \A i \in DOMAIN rules :
            rules[i].path.form = "rooted" => rules[i].path.segments \in Seq(STRING)
  /\ \A i \in DOMAIN Initial : Compiles(Initial[i])
  /\ \A r \in Requests : r.path \in Seq(STRING)

Compile(rule, index) ==
  LET path == rule.path IN
  [kind   |-> CASE path.form = "regex" -> "regex"
                [] path.form = "rooted" /\ EndsWithSlash(path.segments) -> "prefix"
                [] OTHER -> "exact",
   path   |-> CASE path.form = "regex" -> path.found
                [] path.form = "rooted" /\ EndsWithSlash(path.segments) ->
                     Trim(path.segments)
                [] OTHER -> Normalize(path.segments),
   method |-> Upper[rule.method],
   index  |-> index]

(* The elements of S as `order` has them, a total order given by its pairs *)
(* (SelectSeq and SetToSortSeq would take it as an operator, and an        *)
(* operator is nothing the provers can quantify over).                     *)
InOrder(S, order) ==
  [n \in 1 .. Cardinality(S) |->
     CHOOSE x \in S : Cardinality({y \in S : <<y, x>> \in order}) = n]

(* RouteTable::new: compile_all, then a stable sort.  Variant: no sort.    *)
CompileAll(rules) == [i \in 1 .. Len(rules) |-> Compile(rules[i], i)]

SortedNot(entries) == entries

Priority(kind) == CASE kind = "exact" -> 1 [] kind = "prefix" -> 2 [] kind = "regex" -> 3

Sorted(entries) ==
  LET places == DOMAIN entries
      Kind(i) == Priority(entries[i].kind)
      before == {p \in places \X places :
                   Kind(p[1]) < Kind(p[2]) \/ (Kind(p[1]) = Kind(p[2]) /\ p[1] <= p[2])}
      order == InOrder(places, before)
  IN  [n \in places |-> entries[order[n]]]

TableOf(rules) == [rules |-> rules, compiled |-> Sorted(CompileAll(rules))]

(* method_matches, path_matches and full_match. *)
MethodMatches(e, r) == e.method \in {Upper[r.method], AnyMethod}

PathMatches(e, path) ==
  CASE e.kind = "exact"  -> path = e.path
    [] e.kind = "prefix" -> IsPrefix(e.path, path)
    [] e.kind = "regex"  -> path \in e.path

FullMatch(e, rules, r) ==
  /\ MethodMatches(e, r)
  /\ PathMatches(e, r.path)
  /\ rules[e.index].needs \subseteq r.has

-----------------------------------------------------------------------------
RoutingInit ==
  /\ table = TableOf(Initial)
  /\ builds = 0
  /\ request = << >> /\ snapshot = table
  /\ cursor = 0 /\ result = 0

(* RouteTable::new and Router::replace; rules that do not compile leave    *)
(* the table alone.                                                        *)
Build(rules) ==
  /\ builds < MaxBuilds
  /\ builds' = builds + 1
  /\ table' = IF \A i \in DOMAIN rules : Compiles(rules[i])
                 THEN TableOf(rules) ELSE table
  /\ UNCHANGED <<request, snapshot, cursor, result>>

(* match_request, on the snapshot of this moment. *)
Receive(r) ==
  /\ cursor = 0
  /\ request' = r
  /\ snapshot' = table
  /\ cursor' = 1
  /\ result' = 0
  /\ UNCHANGED <<table, builds>>

(* One turn of the loop of first_match, and its end. *)
Try ==
  /\ cursor \in DOMAIN snapshot.compiled
  /\ LET e == snapshot.compiled[cursor] IN
       IF FullMatch(e, snapshot.rules, request)
         THEN result' = e.index /\ cursor' = 0
         ELSE cursor' = cursor + 1 /\ UNCHANGED result
  /\ UNCHANGED <<table, builds, request, snapshot>>

Miss ==
  /\ cursor = Len(snapshot.compiled) + 1
  /\ cursor' = 0
  /\ UNCHANGED <<table, builds, request, snapshot, result>>

RoutingNext ==
  \/ \E rules \in Tables : Build(rules)
  \/ \E r \in Requests : Receive(r)
  \/ Try
  \/ Miss

RoutingSpec == RoutingInit /\ [][RoutingNext]_routingVars

-----------------------------------------------------------------------------
(* What a path with "." and ".." means: a name stays unless, at some place *)
(* further on, more parents than names have followed it.                   *)
IsName(segment) == segment \notin {"", ".", ".."}

Parents(segments, i, j) == {k \in i + 1 .. j : segments[k] = ".."}
Names(segments, i, j) == {k \in i + 1 .. j : IsName(segments[k])}

Survives(segments, i) ==
  /\ IsName(segments[i])
  /\ \A j \in i + 1 .. Len(segments) :
       Cardinality(Parents(segments, i, j)) <= Cardinality(Names(segments, i, j))

Ascending(numbers) == InOrder(numbers, {p \in numbers \X numbers : p[1] <= p[2]})

Meaning(segments) ==
  LET survivors == {i \in DOMAIN segments : Survives(segments, i)}
      places == Ascending(survivors)
  IN  IF survivors = {} THEN <<"">> ELSE [n \in DOMAIN places |-> segments[places[n]]]

(* What the header of matcher.rs promises: exact before prefix before      *)
(* regex, and the first registered where they conflict.                    *)
Rank(rule) ==
  CASE rule.path.form = "regex" -> 3
    [] rule.path.form = "rooted" /\ EndsWithSlash(rule.path.segments) -> 2
    [] OTHER -> 1

Reaches(rule, path) ==
  LET own == rule.path.segments IN
  CASE Rank(rule) = 3 -> path \in rule.path.found
    [] Rank(rule) = 2 -> \A i \in DOMAIN own :
                           (\E j \in i .. Len(own) : own[j] # "") =>
                             i <= Len(path) /\ path[i] = own[i]
    [] OTHER -> path = Meaning(own)

Wants(rule, r) ==
  /\ Upper[rule.method] \in {AnyMethod, Upper[r.method]}
  /\ Reaches(rule, r.path)
  /\ rule.needs \subseteq r.has

IsBest(rules, r, i) ==
  /\ Wants(rules[i], r)
  /\ \A j \in DOMAIN rules :
       Wants(rules[j], r) =>
         \/ Rank(rules[i]) < Rank(rules[j])
         \/ Rank(rules[i]) = Rank(rules[j]) /\ i <= j

(* Whatever is registered in whatever order, and replaced meanwhile, a     *)
(* request gets the best rule of the table it found, and none only if no   *)
(* rule wants it.                                                          *)
MatchIsBest ==
  (request # << >> /\ cursor = 0) =>
    IF result = 0
      THEN \A i \in DOMAIN snapshot.rules : ~Wants(snapshot.rules[i], request)
      ELSE IsBest(snapshot.rules, request, result)

(* The path of an exact rule is what its dots and slashes mean, and never  *)
(* leaves the root.                                                        *)
NormalizeResolves ==
  \A n \in DOMAIN table.compiled :
    LET e == table.compiled[n] IN
    e.kind = "exact" => e.path = Meaning(table.rules[e.index].path.segments)
=============================================================================
