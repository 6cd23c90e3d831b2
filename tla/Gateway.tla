------------------------------- MODULE Gateway -------------------------------
(***************************************************************************)
(* Requests on their way through src/service/handler.rs, while the route   *)
(* table is replaced under them.  A request resolves its route and         *)
(* upstream and is authenticated without an await; then it looks its       *)
(* route's limiter up, makes and caches one if there is none, asks it, and *)
(* is forwarded, each of which awaits.                                     *)
(*                                                                         *)
(* One route is modelled, as routes meet nowhere below the table: limiters *)
(* are cached by the route's name and algorithm.  A limiter is asked in    *)
(* one step and not refilled, for one client: what a single limiter does   *)
(* under concurrency and over time is the matter of TokenBucket and        *)
(* SlidingWindow, here it matters which one is asked.  Reload is any       *)
(* Store of RouteReload.                                                   *)
(***************************************************************************)
EXTENDS Integers, Sequences, FiniteSets, FiniteSetsExt

CONSTANTS
  Requests,     \* the tasks that serve requests
  Configs,      \* configurations of the route that may be in the table
  Known,        \* the ids of upstream_configs, fixed when the process starts
  DefaultLimit, \* default_rate_limit, likewise
  Algorithms,   \* the names of the limiters
  None,         \* no route, no limit of its own, no limiter
  MaxRequests,  \* bounds of the instance: requests,
  MaxReloads,   \* changes of the table
  MaxEvictions  \* and evictions of cached limiters

Limit == [algorithm : Algorithms, burst : Nat]

ASSUME ConfigAssumption ==
  /\ IsFiniteSet(Requests)
  /\ \A c \in Configs : c.limit \in Limit \union {None}
  /\ DefaultLimit \in Limit /\ None \notin Limit
  /\ None \notin Configs /\ None \notin Nat
  /\ MaxRequests \in Nat /\ MaxReloads \in Nat /\ MaxEvictions \in Nat

VARIABLES
  table,     \* the route's configuration, None if it has no route
  reloads,   \* history: how often the table was replaced
  asked,     \* history: how many requests came in
  stage,     \* where each request is
  route,     \* the configuration it resolved
  limiter,   \* the limiter it asks
  cached,    \* state.limiters: the limiter of each algorithm
  made,      \* the limiters, in the order they were cached, and what
             \* each has left for the client
  recorded,  \* rapidgate_requests_total, errors included
  cut,       \* history: allowed requests whose clients went away
  panicked,  \* history: allowed requests whose handlers panicked
  evictions, \* history: how often an algorithm's limiter was evicted
  raced      \* history: did two requests ever miss it together?

gatewayVars == <<table, reloads, asked, stage, route, limiter, cached, made,
  recorded, cut, panicked, evictions, raced>>

limiting == <<cached, made, evictions, raced>>
counted == <<recorded, cut, panicked>>

(* The types of the variables. *)
GatewayTypeOK ==
  /\ table \in Configs \union {None}
  /\ stage \in [Requests -> {"idle", "lookup", "insert", "check", "body", "forward"}]
  /\ route \in [Requests -> Configs \union {None}]
  /\ \A q \in Requests : stage[q] # "idle" <=> route[q] # None
  /\ limiter \in [Requests -> DOMAIN made \union {None}]
  /\ \A q \in Requests : limiter[q] # None <=> stage[q] \in {"check", "body", "forward"}
  /\ cached \in [Algorithms -> DOMAIN made \union {None}]
  /\ made \in Seq([limit : Limit, left : Nat])
  /\ {reloads, asked, recorded, cut, panicked} \subseteq Nat
  /\ evictions \in [Algorithms -> Nat]
  /\ raced \in [Algorithms -> BOOLEAN]

GatewayInit ==
  /\ table \in Configs
  /\ reloads = 0 /\ asked = 0 /\ recorded = 0 /\ cut = 0 /\ panicked = 0
  /\ stage = [q \in Requests |-> "idle"]
  /\ route = [q \in Requests |-> None]
  /\ limiter = [q \in Requests |-> None]
  /\ cached = [a \in Algorithms |-> None]
  /\ made = <<>>
  /\ evictions = [a \in Algorithms |-> 0]
  /\ raced = [a \in Algorithms |-> FALSE]

(* resolve_upstream: of `targets` (the direct upstream, or the canary      *)
(* targets of positive weight) one is drawn; it has to be known.           *)
MayResolve(c) == c # None /\ c.targets \intersect Known # {}
Resolves(c) == MayResolve(c) /\ c.targets \subseteq Known

(* check_route_auth.  `credential`: does the request carry a listed key of *)
(* the right kind?  An authenticated route without keys refuses everyone.  *)
Authenticated(c, credential) ==
  c.auth = "none" \/ (c.auth = "keys" /\ credential)

LimitOf(c) == IF c.limit = None THEN DefaultLimit ELSE c.limit
Algorithm(q) == LimitOf(route[q]).algorithm

At(q, place) == stage[q] = place
Goes(q, place) == stage' = [stage EXCEPT ![q] = place]
Leaves(q) ==
  /\ Goes(q, "idle")
  /\ route' = [route EXCEPT ![q] = None]
  /\ limiter' = [limiter EXCEPT ![q] = None]

(* 404, an unknown upstream, a missing credential, or no keys to match.    *)
Refuse(q, credential) ==
  /\ At(q, "idle")
  /\ asked < MaxRequests
  /\ ~(Resolves(table) /\ Authenticated(table, credential))
  /\ asked' = asked + 1
  /\ UNCHANGED <<table, reloads, stage, route, limiter, limiting, counted>>

Accept(q, credential) ==
  /\ At(q, "idle")
  /\ asked < MaxRequests
  /\ MayResolve(table) /\ Authenticated(table, credential)
  /\ asked' = asked + 1
  /\ Goes(q, "lookup")
  /\ route' = [route EXCEPT ![q] = table]
  /\ UNCHANGED <<table, reloads, limiter, limiting, counted>>

(* Variant (see Breaker): a limiter of an older limit is not used again.   *)
LookupCurrent(q) ==
  LET a == Algorithm(q)
      hit == cached[a] # None /\ made[cached[a]].limit = LimitOf(route[q])
  IN
  /\ At(q, "lookup")
  /\ Goes(q, IF hit THEN "check" ELSE "insert")
  /\ limiter' = [limiter EXCEPT ![q] = IF hit THEN cached[a] ELSE None]
  /\ raced' = [raced EXCEPT ![a] = @ \/ (~hit /\ \E o \in Requests :
                                   At(o, "insert") /\ Algorithm(o) = a)]
  /\ UNCHANGED <<table, reloads, asked, route, cached, made, evictions,
                 counted>>

(* state.limiters.get *)
Lookup(q) ==
  LET a   == Algorithm(q)
      hit == cached[a] # None
  IN
  /\ At(q, "lookup")
  /\ Goes(q, IF hit THEN "check" ELSE "insert")
  /\ limiter' = [limiter EXCEPT ![q] = cached[a]]
  /\ raced' = [raced EXCEPT ![a] = @ \/ (~hit /\ \E o \in Requests :
                                   At(o, "insert") /\ Algorithm(o) = a)]
  /\ UNCHANGED <<table, reloads, asked, route, cached, made, evictions,
                 counted>>

(* A limiter of the request's own limit is made and cached, without        *)
(* another look at the cache.                                              *)
Insert(q) ==
  /\ At(q, "insert")
  /\ Goes(q, "check")
  /\ made' = Append(made, [limit |-> LimitOf(route[q]),
                           left |-> LimitOf(route[q]).burst])
  /\ cached' = [cached EXCEPT ![Algorithm(q)] = Len(made')]
  /\ limiter' = [limiter EXCEPT ![q] = Len(made')]
  /\ UNCHANGED <<table, reloads, asked, route, evictions, raced, counted>>

Allow(q) ==
  /\ At(q, "check")
  /\ made[limiter[q]].left > 0
  /\ Goes(q, "body")
  /\ made' = [made EXCEPT ![limiter[q]].left = @ - 1]
  /\ UNCHANGED <<table, reloads, asked, route, limiter, cached, evictions,
                 raced, counted>>

(* Variant: the request is held back until it is allowed. *)
DenyLater(q) ==
  /\ At(q, "check")
  /\ made[limiter[q]].left = 0
  /\ UNCHANGED gatewayVars

(* 429 *)
Deny(q) ==
  /\ At(q, "check")
  /\ made[limiter[q]].left = 0
  /\ Leaves(q)
  /\ UNCHANGED <<table, reloads, asked, limiting, counted>>

(* forward_streaming awaits the client's body, with no timeout.            *)
ReadBody(q) ==
  /\ At(q, "body")
  /\ Goes(q, "forward")
  /\ UNCHANGED <<table, reloads, asked, route, limiter, limiting, counted>>

(* Variant: an error returns (the `?` of Rust) before it is recorded.      *)
ReturnOrError(q) ==
  /\ Leaves(q)
  /\ recorded' \in {recorded, recorded + 1}
  /\ UNCHANGED <<table, reloads, asked, limiting, cut, panicked>>

(* forward_streaming returns a response or an error, and either counts.    *)
Return(q) ==
  /\ Leaves(q)
  /\ recorded' = recorded + 1
  /\ UNCHANGED <<table, reloads, asked, limiting, cut, panicked>>

(* The body breaks off, is too large, or is not JSON. *)
RefuseBody(q) == At(q, "body") /\ Return(q)

(* The body is JSON but no object, and the adapter of Anthropic panics on  *)
(* it.  The recovery layer answers, and nothing is recorded.               *)
Panic(q) ==
  /\ At(q, "body")
  /\ Leaves(q)
  /\ panicked' = panicked + 1
  /\ UNCHANGED <<table, reloads, asked, limiting, recorded, cut>>

(* The upstream answered, or failed, or the body could not be put to it.   *)
(* (A streamed body is still on its way: see SseStream.)                   *)
Answer(q) == At(q, "forward") /\ Return(q)

Forwarded == {q \in Requests : stage[q] \in {"body", "forward"}}

(* The client goes away and the handler's future is dropped at its await.  *)
Disconnect(q) ==
  /\ ~At(q, "idle")
  /\ Leaves(q)
  /\ cut' = IF q \in Forwarded THEN cut + 1 ELSE cut
  /\ UNCHANGED <<table, reloads, asked, limiting, recorded, panicked>>

Reload(c) ==
  /\ reloads < MaxReloads
  /\ table' = c
  /\ reloads' = reloads + 1
  /\ UNCHANGED <<asked, stage, route, limiter, limiting, counted>>

(* The cache holds 1024 limiters and drops one when it is full. *)
Evict(a) ==
  /\ evictions[a] < MaxEvictions
  /\ cached[a] # None
  /\ cached' = [cached EXCEPT ![a] = None]
  /\ evictions' = [evictions EXCEPT ![a] = @ + 1]
  /\ UNCHANGED <<table, reloads, asked, stage, route, limiter, made, raced,
                 counted>>

Serve(q) ==
  Lookup(q) \/ Insert(q) \/ Allow(q) \/ Deny(q) \/ Answer(q)

BodyEnds(q) == ReadBody(q) \/ RefuseBody(q) \/ Panic(q)

GatewayNext ==
  \/ \E q \in Requests, credential \in BOOLEAN :
       Refuse(q, credential) \/ Accept(q, credential)
  \/ \E q \in Requests : Serve(q) \/ BodyEnds(q) \/ Disconnect(q)
  \/ \E c \in Configs \union {None} : Reload(c)
  \/ \E a \in Algorithms : Evict(a)

GatewaySpec == GatewayInit /\ [][GatewayNext]_gatewayVars

(* Every task is scheduled, and upstream calls end: they carry a timeout.  *)
(* Nothing makes a client send its body.                                   *)
FairGateway == GatewaySpec /\ \A q \in Requests : WF_gatewayVars(Serve(q))

-----------------------------------------------------------------------------
LimitersOf(a) == {i \in DOMAIN made : made[i].limit.algorithm = a}

(* What the limiters let through: the i-th gave its client each n of its   *)
(* burst that is not left.                                                 *)
Grants == UNION {{i} \X (made[i].left + 1 .. made[i].limit.burst) : i \in DOMAIN made}
GrantsOf(a) == {g \in Grants : g[1] \in LimitersOf(a)}

LargestBurst(a) == Max({0} \union {made[i].limit.burst : i \in LimitersOf(a)})

(* A route has one limiter per algorithm, through reloads of its limits    *)
(* too, unless it was evicted or requests missed it together.  The worst   *)
(* such a race can do to the limit: each task that serves requests gets a  *)
(* burst of its own out of it, once, and once more per eviction.           *)
OneLimiterUnlessRaced ==
  \A a \in Algorithms :
    /\ raced[a] \/ Cardinality(LimitersOf(a)) <= 1 + evictions[a]
    /\ Cardinality(GrantsOf(a)) <=
         Cardinality(Requests) * (1 + evictions[a]) * LargestBurst(a)

(* What the limiters let through is in flight, recorded in the metrics,    *)
(* was given up by its client, or panicked on its body: only those who     *)
(* leave with the last two cost a token that no metric shows.              *)
AllowedIsRecorded ==
  Cardinality(Grants) = recorded + cut + panicked + Cardinality(Forwarded)

(* A request is answered, unless its client keeps the body from it for     *)
(* ever; a limiter that says no, or a reload, never leaves it waiting.     *)
EveryoneIsAnswered ==
  \A q \in Requests :
    []<>(stage[q] # "body") => (stage[q] # "idle" ~> stage[q] = "idle")
=============================================================================
