-------------------------------- MODULE Canary --------------------------------
(***************************************************************************)
(* Which upstream a matched route leads to: resolve_upstream of            *)
(* src/service/handler.rs, which draws by weight, and the library's        *)
(* CanaryRouter (src/core/routing/canary.rs) with its policies, its sticky *)
(* sessions and the consistent hash ring, which no request path uses yet.  *)
(*                                                                         *)
(* A rule of Routing has one more field here, `to`: Direct, Split over     *)
(* weighted targets, or Nowhere.  u32 arithmetic is modulo Modulus, as a   *)
(* release build does it; hashes are CONSTANT functions.                   *)
(***************************************************************************)
EXTENDS Routing

CONSTANTS
  UpstreamIds,   \* the ids in upstream_configs, fixed at the start
  Modulus,       \* 2^32, made small
  Hashes,        \* the range of the hash functions: 0 .. n
  NodeHash,      \* bucket -> the hashes of its virtual nodes
  Sessions       \* session ids: their hashes

ASSUME CanaryAssumption ==
  /\ Modulus \in Nat \ {0}
  /\ Sessions \subseteq Hashes /\ Hashes \subseteq Nat
  /\ \A b \in DOMAIN NodeHash : NodeHash[b] \subseteq Hashes /\ NodeHash[b] # {}
  /\ "error" \notin UpstreamIds
  /\ \A rules \in Tables \union {Initial} : \A i \in DOMAIN rules :
       /\ rules[i].to.upstream \in DOMAIN NodeHash \union {"none"}
       /\ rules[i].to.targets \in Seq([id : DOMAIN NodeHash, weight : Nat])

Direct(id) == [upstream |-> id, targets |-> << >>]
Split(targets) == [upstream |-> "none", targets |-> targets]
Nowhere == [upstream |-> "none", targets |-> << >>]
Target(id, weight) == [id |-> id, weight |-> weight]

VARIABLES
  chosen,  \* the upstream of the request, "pending" before, "error" if none
  steered, \* the same for CanaryRouter
  ring     \* a ConsistentHash over the upstreams of the table's rules

canaryVars == <<routingVars, chosen, steered, ring>>

-----------------------------------------------------------------------------
(* What the first n of the amounts add up to, and the same of the weights, *)
(* as the u32 of the code have it.                                         *)
Sums(amounts) ==
  LET sum[n \in 0 .. Len(amounts)] == IF n = 0 THEN 0 ELSE sum[n - 1] + amounts[n]
  IN  sum

Weights(targets) == [n \in 1 .. Len(targets) |-> targets[n].weight]

Cumulative(targets, n) == Sums(Weights(targets))[n] % Modulus
Total(targets) == Cumulative(targets, Len(targets))

Least(S) == CHOOSE h \in S : \A g \in S : h <= g

(* The targets at which the loop of select_canary_target may return.       *)
(* Variant: targets of weight zero are not skipped and the comparison is   *)
(* inclusive.                                                              *)
HitsInclusive(targets, roll) ==
  {n \in 1 .. Len(targets) : roll <= Cumulative(targets, n)}

Hits(targets, roll) ==
  {n \in 1 .. Len(targets) : targets[n].weight # 0 /\ roll < Cumulative(targets, n)}

(* It returns at the first of them. *)
SelectCanaryTarget(targets, roll) ==
  IF Hits(targets, roll) = {} THEN "error" ELSE targets[Least(Hits(targets, roll))].id

(* resolve_upstream: a route that is split is never direct.  Variant: a    *)
(* split route whose draw is unknown falls back to its direct upstream.    *)
Known(id) == IF id \in UpstreamIds THEN id ELSE "error"

ResolveUpstreamAnyhow(to, roll) ==
  IF to.targets = << >> THEN to.upstream ELSE SelectCanaryTarget(to.targets, roll)

ResolveUpstream(to, roll) ==
  Known(IF to.targets = << >> THEN to.upstream
        ELSE SelectCanaryTarget(to.targets, roll))

-----------------------------------------------------------------------------
(* The policies, as the sets of indices (from 0) they may return among n.  *)
WeightPolicy(primary, n) ==
  IF n <= 1 THEN {0}
  ELSE (IF primary > 0 THEN {0} ELSE {}) \union (IF primary < 100 THEN 1 .. n - 1 ELSE {})

HeaderPolicy(matches, target, n) == {IF matches /\ target < n THEN target ELSE 0}
CookiePolicy(matches, target, n) == {IF matches /\ target < n THEN target ELSE 0}

(* StickySession::select_upstream; bucket_index does the same arithmetic.  *)
StickyIndex(session, n) == IF n = 0 THEN 0 ELSE session % n

(* CanaryRouter::select_upstream: a session wins over the policy.          *)
RouterPicks(policy, cookies, upstreams) ==
  LET n == Len(upstreams)
      indices == IF cookies = {} THEN policy ELSE {StickyIndex(s, n) : s \in cookies}
  IN  {IF i < n THEN upstreams[i + 1] ELSE "error" : i \in indices}

(* The upstreams a table's rules lead to, each once, in the table's order. *)
Targets(to) == IF to.targets = << >> THEN <<to.upstream>>
               ELSE [i \in DOMAIN to.targets |-> to.targets[i].id]
Upstreams(rules) ==
  LET Id(p) == Targets(rules[p[1]].to)[p[2]]
      Before(p, q) == p[1] < q[1] \/ (p[1] = q[1] /\ p[2] <= q[2])
      all == UNION {{i} \X DOMAIN Targets(rules[i].to) : i \in DOMAIN rules}
      first == {p \in all : Id(p) # "none" /\ \A q \in all : Id(q) = Id(p) => Before(p, q)}
      places == InOrder(first, {pair \in first \X first : Before(pair[1], pair[2])})
  IN  [n \in DOMAIN places |-> Id(places[n])]

(* ConsistentHash: a later bucket takes over a node whose hash is taken.   *)
(* Variant: the hash of a node mixes in how many buckets there are.        *)
RingOfSize(buckets) ==
  [buckets |-> buckets,
   nodes |-> [h \in {g \in Hashes : buckets # << >>} |->
                buckets[(h % Len(buckets)) + 1]]]

RingOf(buckets) ==
  [buckets |-> buckets,
   nodes |-> [h \in UNION {NodeHash[u] : u \in ToSet(buckets)} |->
                buckets[CHOOSE i \in DOMAIN buckets :
                          /\ h \in NodeHash[buckets[i]]
                          /\ \A j \in i + 1 .. Len(buckets) : h \notin NodeHash[buckets[j]]]]]

RingGet(r, h) ==
  LET after == {g \in DOMAIN r.nodes : g >= h} IN
  IF r.buckets = << >> THEN "none"
  ELSE r.nodes[Least(IF after # {} THEN after ELSE DOMAIN r.nodes)]

-----------------------------------------------------------------------------
CanaryInit ==
  /\ RoutingInit
  /\ chosen = "pending" /\ steered = "pending"
  /\ ring = RingOf(Upstreams(table.rules))

(* resolve_route: the match, with any roll below the total. *)
Resolve(roll) ==
  /\ cursor = 0 /\ result # 0 /\ chosen = "pending" /\ steered = "pending"
  /\ LET to == snapshot.rules[result].to
         total == Total(to.targets)
     IN  /\ roll < (IF total = 0 THEN 1 ELSE total)
         /\ chosen' = IF to.targets # << >> /\ total = 0 THEN "error"
                      ELSE ResolveUpstream(to, roll)
  /\ UNCHANGED <<routingVars, steered, ring>>

(* The same for a caller of CanaryRouter that offers it all upstreams of   *)
(* the snapshot, under each policy, with and without a session.            *)
Policies(n) ==
  {WeightPolicy(primary, n) : primary \in {0, 60, 100}}
    \union {HeaderPolicy(matches, target, n) : matches \in BOOLEAN, target \in 0 .. 2}
    \union {CookiePolicy(matches, target, n) : matches \in BOOLEAN, target \in 0 .. 2}

Steer ==
  /\ cursor = 0 /\ result # 0 /\ chosen = "pending" /\ steered = "pending"
  /\ LET upstreams == Upstreams(snapshot.rules) IN
     \E policy \in Policies(Len(upstreams)),
        cookies \in {{}} \union {{s} : s \in Sessions} :
       steered' \in RouterPicks(policy, cookies, upstreams)
  /\ UNCHANGED <<routingVars, chosen, ring>>

CanaryNext ==
  \/ \E rules \in Tables : Build(rules) /\ ring' = RingOf(Upstreams(table'.rules))
                            /\ UNCHANGED <<chosen, steered>>
  \/ \E r \in Requests : Receive(r) /\ chosen' = "pending" /\ steered' = "pending"
                         /\ UNCHANGED ring
  \/ Try /\ UNCHANGED <<chosen, steered, ring>>
  \/ Miss /\ UNCHANGED <<chosen, steered, ring>>
  \/ \E roll \in 0 .. Modulus - 1 : Resolve(roll)
  \/ Steer

CanarySpec == CanaryInit /\ [][CanaryNext]_canaryVars

-----------------------------------------------------------------------------
(* Every target of the matched route is drawn by as many rolls as its      *)
(* weight says, as long as the weights do not overflow; when they do, each *)
(* roll still has a target, and one that takes traffic.                    *)
WeightsAreShares ==
  (cursor = 0 /\ result # 0 /\ chosen = "pending") =>
    LET targets == snapshot.rules[result].to.targets
        rolls == 0 .. Total(targets) - 1
        WeightOf(id) == Sums([n \in 1 .. Len(targets) |->
                                IF targets[n].id = id THEN targets[n].weight ELSE 0])[Len(targets)]
        Drawn(id) == {r \in rolls : SelectCanaryTarget(targets, r) = id}
    IN  /\ \A r \in rolls : WeightOf(SelectCanaryTarget(targets, r)) > 0
        /\ Sums(Weights(targets))[Len(targets)] < Modulus =>
             \A id \in {t.id : t \in ToSet(targets)} : Cardinality(Drawn(id)) = WeightOf(id)

(* A request goes to a configured upstream that its own rule gives traffic *)
(* to, whatever is reloaded meanwhile, and to none only if the rule's      *)
(* weights add up to zero or it names an upstream that is not configured.  *)
(* A router that is offered any upstream picks one of them.                *)
ChosenIsOffered ==
  LET to == snapshot.rules[result].to
      taking == IF to.targets = << >> THEN {to.upstream}
                ELSE {t.id : t \in {t \in ToSet(to.targets) : t.weight > 0}}
      offered == ToSet(Upstreams(snapshot.rules))
  IN  /\ chosen \notin {"pending", "error"} => chosen \in taking \intersect UpstreamIds
      /\ chosen = "error" =>
           \/ to.targets # << >> /\ Total(to.targets) = 0
           \/ ~(ToSet(Targets(to)) \subseteq UpstreamIds)
      /\ steered # "pending" => steered \in IF offered = {} THEN {"error"} ELSE offered

(* When a reload adds or removes upstreams, a key of the ring moves only   *)
(* away from an upstream that went or to one that came.  (Hashes that      *)
(* collide go to the later bucket, so the others must keep their order.)   *)
SameOrder(old, new) ==
  \A i, j \in DOMAIN old, k, l \in DOMAIN new :
    (old[i] = new[k] /\ old[j] = new[l]) => (i < j <=> k < l)

RingMovesLittle ==
  [][SameOrder(ring.buckets, ring'.buckets) =>
       \A h \in Hashes :
         RingGet(ring, h) # RingGet(ring', h) =>
           \/ RingGet(ring, h) \notin ToSet(ring'.buckets)
           \/ RingGet(ring', h) \notin ToSet(ring.buckets)]_ring
=============================================================================
