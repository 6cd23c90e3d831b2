# A verification development for RapidGate

RapidGate is a gateway for LLM providers, written in Rust on tokio and axum: it matches a
request to a route, authenticates it, limits its rate, forwards it to an upstream and streams
the answer back. This directory holds TLA+ models of its parts, the TLC runs that check them
on small instances, and TLAPS proofs of the properties that matter most for every size of
instance.

    tlc -config TokenBucket.cfg TokenBucket.tla  # a run: one .cfg, one module
    tlapm ServingProofs.tla                      # a module of proofs

`PROJECT.json` lists the components, the runs and what they check, the lines of the source
that each definition models (`map`), the hazards of the code, and the theorems.

## 1. Inventory

Paths are relative to `src/src/`. "Wired" parts are reached by a request of the running
gateway; the others are library code which the repository's tests use and nothing else does.

| component | state it keeps | operations | with whom | what is hard |
|---|---|---|---|---|
| request handling: `service/handler.rs`, `state.rs`, `middleware/auth.rs` (wired) | none of its own; reads `AppState` | `chat_completions`, `embeddings`: resolve, authenticate, limit, forward, record | route table, limiter cache, client pool, providers, metrics | requests interleave with reloads; clients leave at any await; upstream configurations and the default limit are those of the start |
| route limiter cache: `service/middleware/ratelimit.rs` (wired) | `AppState.limiters`, a moka cache | get, make, insert, `check` | limiters | get-then-insert is not atomic; limits outlive a reload |
| local limiters: `core/ratelimit/{local_store,token_bucket,sliding_window}.rs` (wired) | one entry per client key in a moka cache | `check`, by `update` of the store | clock | `update` is three cache operations with awaits between |
| SSE forwarding: `service/handler.rs` 328-489 (wired) | buffer of the scan, batch of parsed events | poll a chunk, emit an event | upstream body, provider adapter, client | chunks cut events anywhere; failures after half an answer; disconnects |
| configuration and hot reload: `service/{config_loader,hot_reload}.rs` | the route table (`ArcSwap`), the watcher's channel | `load`, `validate`, `reload` | files, operator | files change between the reads; reloads overlap; half-written files |
| route matching: `core/routing`, `core/util/path.rs` (wired) | the compiled table | compile, sort, `first_match`, `replace` | handler, reload | order of kinds and registrations; dots in paths; replacement under a request |
| circuit breaker: `core/breaker` | state, failure counter, opening time, each under its own lock | `call` | wrapped future | two looks at the state; late outcomes; dropped futures |
| OAuth2 tokens: `core/auth/oauth2.rs` | a moka cache of tokens | `get_token`, `client_credentials`, `exchange_authorization_code`, `refresh_token` | provider | concurrent refreshes, lost and late answers |
| Redis limiter: `core/ratelimit/redis_store.rs` | a key in Redis | two Lua scripts, fallback | clocks of several gateways | skewed clocks, late scripts, expiry, no connection |
| canary: `service/handler.rs` 179-236 (wired), `core/canary`, `core/routing/canary.rs`, `core/util/consistent_hash.rs` | the ring of the consistent hash | weighted draw, policies, sticky choice, ring | handler, route table | u32 sums that wrap; configured upstreams of the start; clients that move when upstreams change |
| upstream client pool: `service/upstream_pool.rs` (wired) | a moka cache of clients, by upstream id | `check_ssrf`, `client_for` | resolver, reqwest | the check must precede a cached client, too |
| layers and process: `main.rs`, `service/server.rs`, `service/middleware/{recovery,trace}.rs`, `service/error.rs` (wired) | the listener | start, body limit, recovery, request id, drain and exit | handler | order of the layers; panics; chunked bodies; a drain that waits for streams |
| provider adapters: `service/providers` (wired) | none | requests, URLs, stream events and answers of four providers | handler | formats that put the same text in different places |
| transformers: `core/proxy/transformer.rs` (wired with no rules), `core/proxy/stream.rs` | none | body rules, header edits | handler | rules on paths that are missing, or not objects |
| WebSocket forwarding: `core/proxy/ws.rs`, with `core/auth/apikey.rs` before it | the API keys, under a lock | verify, connect, two copy loops in a `select!` | both peers | the end of one loop drops what the other holds; peers that stop reading |
| plugins: `core/plugins` | registry under a lock; per wasm plugin a store with memory and fuel, under a lock; per native plugin a library | load, register, unregister, get, three hooks | wasmtime, dynamic libraries | lifetime of libraries under calls; growth of memory; fuel is set once; poisoned locks |
| JWT, audit, metrics, tracing, admin pages, configuration centres | counters, exporters | library calls, I/O | | no concurrency of their own |

What makes each correct, in a sentence: a request is answered, counted, and served under one
table and one limiter; a limiter lets no more through than it says and turns nobody away
without reason; a stream delivers what was read, in order, and does not pass failures off as
ends; a reload never puts in force what was not there to be loaded; a match is the best match;
a breaker lets nobody through while it is open and finds its way out of it; a cached token is
usable; a request reaches an upstream that was offered and is asked in its own terms, and its
answer says whose it is; a socket's end is heard by the other side; a plugin is there while it
is called.

## 2. Modules

| module | models | composes |
|---|---|---|
| `BreakerContract` | what a breaker promises its callers, without counters, clocks or tasks | |
| `Breaker` | `core/breaker/breaker.rs` | implements `BreakerContract` |
| `LocalStore` | `core/ratelimit/local_store.rs` | extended by the two limiters |
| `TokenBucket`, `SlidingWindow` | the limiters on it | `LocalStore` |
| `RedisLimiter`, `MCRedisLimiter` | `core/ratelimit/redis_store.rs` | |
| `SseStream` | the streamed branch of `forward_streaming` | |
| `RouteReload` | `hot_reload.rs`, the load it runs, the operator's edits | |
| `Routing` | matcher, table and path normalisation | |
| `Canary`, `MCRouting` | which upstream a match leads to: the draw, the policies, the ring | extends `Routing` |
| `Gateway`, `MCGateway` | many requests for one route: the two handlers over the limiter cache and a table that is replaced | the parts above, by what they promise |
| `Providers` | the four adapters, as operators | |
| `Transformer` | body rules | |
| `Forwarding`, `MCForwarding` | one request after another on the whole way: process, layers, handler, adapter, client pool, stream, client | extends `SseStream` and `Providers`; `MCForwarding` has `Transformer` beside it |
| `OAuth2Cache` | `core/auth/oauth2.rs` and a provider | |
| `WsForwarder` | `core/proxy/ws.rs` behind `core/auth/apikey.rs` | |
| `Plugins` | registry, native and wasm plugins, and their callers | |
| `MCLibrary` | what no request reaches, for one run | `Plugins`, `Breaker` and `RouteReload`, each while the others rest |
| `TokenBucketProofs`, `SlidingWindowProofs`, `RedisLimiterProofs`, `OAuth2CacheProofs`, `PluginsProofs` | theorems | each extends its module |
| `ForwardingProofs` | theorems | `SseStream`, `Providers`, `Transformer`, `Forwarding` |
| `ServingProofs` | theorems | `Breaker`, `Gateway`, `WsForwarder` |
| `RouteProofs` | theorems | `Routing`, `Canary`, `RouteReload` |

How to read them. A task (a caller, a request, a reload) is at a place, which a function
(`call`, `stage`, `phase`, `pc`) gives, and an action is what it does from one await, or one
lock, to the next. *History* variables are marked so in their declarations: no action of the
code depends on them, properties do. *Variants* are operators that no specification uses: each
is a slip a programmer could make in the definition that follows it, and the project checks
that the property it names in `PROJECT.json` (`mutants`) notices.

### Breaker

`call` is split where its locks are released: `TryHalfOpen` (the first look, which may move
Open to HalfOpen), then `Reject` or `Admit` (the second look), then the wrapped future, whose
end is `OnSuccess`, `OnFailure` or, if its client goes away, `Drop`. `Tick` moves the clock
as far as the cool-down can tell. `FieldsAgree` relates the three fields although calls that
were admitted before a trip settle after it. `KeepsContract` is the refinement of
`BreakerContract`, which holds across the gap of the two looks. `HealedUpstreamCloses`
says that the breaker closes once the upstream no longer fails, and so that late failures,
which restart the cool-down, do not do so for ever. What cannot be said is that an open breaker
stays open for `open_duration`: `on_success` closes whatever it finds, and so a call admitted
before the trip that succeeds after it ends the cool-down at once. The head of `breaker.rs`
says otherwise; `OpenLasts` states it, and `breaker_open` is the violation. A half-open breaker
admits every caller that reads HalfOpen, where `breaker/state.rs:9` speaks of one probe; the
contract allows it.

### LocalStore, TokenBucket, SlidingWindow

`update` is a get, an insert if the key was absent, and an insert of the new value; the
comment at `local_store.rs:61` calls it atomic, but any two of these interleave with another
task's. The limiter then decides on its own copy and, if it allows, inserts once more.
What still holds is what the runs check: lost updates are always to the client's benefit
(`NoTokenVanishes`, `DenyMeansBurstSpent`), memory per client is bounded (`QueueIsBounded`),
and the limits themselves hold for keys whose checks do not overlap and which were not
evicted (`BudgetUnlessRaced`, `WindowUnlessRaced`). Tokens are whole: `Rate` tokens per tick
stands for the f64 of the code, whose rounding is left out. Two keys are modelled because the
store is shared, two tasks because every race here needs two.
One thing to know when reading the configuration: `sliding_window.rs:22` divides a second by
`rps` *and* allows `rps` requests in each such window, so the "requests per second" of
`docs/OPERATIONS.md:522` are the square of that under this algorithm. The model takes `Rps`
and `Window` as separate constants.

### RedisLimiter

A script is one step, with the time that its task read before from its gateway's clock
(`ahead`). The token bucket stores that time even if it is older than the stored one, so each
such step back lets the next refill count a stretch again; `BudgetButForRewinds` is the
account: capacity, the refill on the furthest clock, a refill of what was rewound, and one of
the `Excess` for each time that the key expired. A bucket expires after twice the time it
takes to fill, so a new one is no fuller than the old one would be, unless the times that two
scripts use at one moment can differ by more than that time (`Blur`): only then is there an
excess, a bucket that starts at a time the last one had passed. The proof asked for this term;
the instance has a bucket of one token, a skew and a delay of one second, and five checks, with
which the excess is really given away. For the window, skew and delay shorten what is
enforced by just as much (`WindowButForBlur`). A member of the sorted set is its time and a
random number (one of `Numbers` here, of a million in the code), so that two requests may
have the same one; the script counts members, and the property says how many were added. Both
keys expire within the bounds (after 2 and 8 seconds). The fallback's decisions are those of
the local limiters and left out.

### SseStream

An answer is a sequence of up to `MaxEvents` events of every kind the adapter tells apart
(shown, dropped, `[DONE]`, unusable, without data), cut into chunks at and inside events. The
first `poll` reads a chunk (`PollChunk`), the `scan` either returns the events it completed
or, if there were none, ends the stream (`starved`); the translation emits them one by one
(`EmitEvent`, `EmitNothing`, `EmitError`), and the client may go away (`Disconnect`). The
byte search of `find_sse_event_end` is abstracted to halves of events. `NothingReadIsLost`:
what was read is what reached the client and what waits in the batch, each event once and in
order (`Due` are the places of the events that a client is shown). `FailureIsReported`: a failure of
the upstream is visible to the client. That a clean end which was not caused by starvation is
the end of the answer, and that streams end, is checked where the stream has its adapter and
its client, in `Forwarding` (`TextArrives`, `StopCompletes`), whose run checks the two
invariants of this module as well. `sse_delivery` is a violation: a chunk that completes no
event ends the client's stream, although the comment at `handler.rs:333` says that the scan
handles chunk boundaries. `into_axum_response` in `core/proxy/stream.rs` scans in the same
way, but nothing calls it.

### RouteReload

The operator edits `default.yaml` (one bit: does it load?) and the routes file, by moving a
file into place or by rewriting it in two steps, in between which it is empty and loads as no
routes. A reload reads one file, then the other, then validates and stores. So what it
validates may never have been on disk together; `StoresWhatWasWhole` says that this takes an
edit of `default.yaml` between its reads. `NeverBackAlone`: only a reload that overlapped
another can move the table back. `LastReloadWins`: if the operator stops at a configuration
that loads, and reloads keep being asked for, it is what is served. The hypothesis matters:
the callback of the watcher sends to a channel whose receiver nobody reads (`hot_reload.rs:17`)
and `main` starts no watcher, so that nothing but a caller of `reload` ever serves a change,
where the comment at `hot_reload.rs:3` describes a watcher that does.

### Routing

Compilation of every kind of rule, the stable sort, and the loop of `first_match`, against
declarative definitions: `IsBest` for the match, and `Meaning` for normalisation, where a
name stays unless more parents than names follow it at some point. The instance has every
list of up to two of ten rules (all kinds, duplicates, conditions, both slashes, parents, a
rule that does not compile), every list of three of the five that overlap most, and every raw
path of up to four segments, which covers each pair of kinds with a third rule between them
and each way in which three segments cancel.
Of the table's abilities the gateway uses part: `is_valid_path` lets only exact paths into
a configuration, and `resolve_route` passes no headers and no query, so that routes with
such conditions are never matched.

### Canary

Extends `Routing` by what follows a match, so that a draw is made for a rule of a snapshot
while the table, and with it the ring, is replaced. `Resolve` is `resolve_upstream` for every
roll: `Cumulative` adds modulo `Modulus`, as a release build does (`validate` bounds no weight;
a debug build panics instead, which is `Panic` of `Forwarding`), and the loop returns at the
least of `Hits`, the targets at which it may. `WeightsAreShares`: each target gets as many
rolls as its weight says unless the sum wraps, and even then no roll falls through and no
target of weight zero is drawn. `ChosenIsOffered`: a request goes where its own rule sends it
and the process is configured to go, and is refused only for want of weights or configuration.
`upstream_configs` are those of the start (`UpstreamIds`), so a reload may name one that is
unknown. `Steer` is `CanaryRouter` with each policy, as the set of indices it may return, and
with sticky sessions. `RingMovesLittle` relates the ring before and after a reload: keys move
only to upstreams that came or from upstreams that went. It holds only while the others keep
their order, since on equal hashes the later bucket wins; `NodeHash` of the instance has such a
collision. The sticky session, by contrast, is a modulo of the number of upstreams
(`sticky.rs:55`), and nothing of the kind can be said of it.

### Gateway

`Accept` and `Refuse` resolve and authenticate, which takes no await and is one step on one
snapshot; `Lookup`, `Insert`, `Allow` or `Deny` follow, one per await; then the client's body is
read (`ReadBody`), or is none the handler can use (`RefuseBody`), or is JSON but no object, on
which the adapter of Anthropic panics (`Panic`, `anthropic.rs:31`: the recovery layer answers,
and `record_request_metrics` is skipped); and `Answer` is the upstream's answer or failure. `Reload`
stores any of the configurations (whatever `RouteReload` may store), `Evict` drops a cached
limiter, `Disconnect` drops the handler's future at any await. Resolving uses the upstreams
and the default limit of the start (`Known`, `DefaultLimit`), as the code does. A limiter is
asked in one step, for one client, and not refilled: here it matters *which* limiter is
asked. `OneLimiterUnlessRaced` says what the get-then-insert of the cache can cost: nothing
but in a race, and then a burst for each task that took part; `AllowedIsRecorded` balances what the
limiters let through with the metric, the requests in flight, those given up by their clients
and those that panicked, so that only the last two cost a token and leave no trace;
`EveryoneIsAnswered` is liveness, for every request whose client does not keep its body back for
ever. The instance has
four configurations of a route: a limit, another algorithm with keys, a canary to an upstream
that was added after the start, and an authenticated route without keys.

### OAuth2Cache

One cache key. `Grant`, `Refuse` and `NewRefresh` are the provider, which is external; it may
replace a refresh token when it is used, as RFC 6749 allows. `CachedRefreshWorks`: races and
late answers never leave a used refresh token in the cache, only a lost answer does.
`Recovers`: even then a caller that does not stop calling gets tokens again, since the time
to live ends the entry. (The comment at `oauth2.rs:277` takes the other grant when there is no
entry or it "cannot be refreshed"; a refused refresh does not get there, it ends the call.)
`AliveButForTheWay`: `expires_at` counts from the arrival of the answer, so a token is handed
out too long by at most the answer's way. Time is kept as time left, which keeps the state
finite without a bound on the clock.

### Forwarding, Providers, Transformer

The other cut through the gateway: one request at a time, on its whole way. `Start`,
`Shutdown` and `Exit` are `main`; `Layers` is the order in which `server.rs` wraps the
handlers, from the handlers out, and `IdAt` which of them an answer still passes. A request has
a target, an id of its own or none, a declared length or none (then it is chunked) and a true
one. It is refused at the door (`RefuseDeclared`), answered by a probe, turned away (the
outcomes of `Gateway`), panics, or is admitted: the body is read (`ReadBody`) and put to the
provider, who may refuse it or panic on it (`Translate`), the address checked and a client
found or built (`Connect`), and the upstream fails, answers whole
(`AnswerWhole`) or starts a stream (`AnswerStream`), which is then `SseStream` with the kinds
of events that the provider's adapter makes of the upstream's. `HangUp` drops it all at any await,
`Stall` is a client that neither reads, nor sends, nor closes. Each provider has one upstream;
an earlier request matters only by the client it left in `cached`.

`AnswersAreTagged` is about the layers, `NoOversizedBody` about the two places where a body is
measured, `RequestSurvives` and `TextArrives` about what four formats do to a conversation and
to an answer in pieces, and
`StopCompletes` about the drain. The last has a stalled client as its exception, because the
code has: uploads and downloads have no timeout, and `shutdown_timeout_ms` (`config/gateway.rs:14`,
described in `docs/OPERATIONS.md:636`) is read by nothing.

A message has its speaker (the role), its text, and whether its content is a string or a list
of parts; a body may also be no object at all. With these `RequestSurvives` says what an
adapter keeps: all turns in their order, the limit on tokens, and who said what; but to Gemini
only the assistant's and the user's turns keep their speaker, as any other role becomes `user`
(`gemini.rs:41`), and only strings keep their text, as parts become the empty one
(`gemini.rs:38`). Of the first the repository says that it shall not be: the system role is
kept by the forwarding to providers (`docs/known-issues-2026.9.1.md:130`), and the adapter of
Anthropic says of itself that the specification demands it. `SystemIsKept` states it, and
`system_role` is the violation. An upstream's event has its text where the adapter looks
(`text`) or elsewhere (`late`: a later part or candidate of Gemini, another kind of delta of
Anthropic). `TextArrives` is about the texts an adapter looks for (`LookedFor`); of Gemini and
Anthropic those elsewhere never arrive (`gemini.rs:151` and 155).

`Providers` has the adapters as operators over records of the fields the properties tell apart.
What it shows beyond the properties: Gemini is always asked at `:generateContent`, which does
not stream, so that a streamed request to it gets an answer that is no SSE; whole answers of
Anthropic and Gemini keep the first block only, and `finish_reason` is always `stop`; a stream
of Anthropic ends without `[DONE]`. The error body of `ServiceError` has an empty `request_id`
(`error.rs:71`), while that of the recovery layer has the id; the metrics know 200 and 500
only, and a stream that fails later counts as 200.

`Transformer` has the body rules as functions on documents; a rule names a field by its path,
which has one name at least (`TransformAssumption`). The handler uses
`Transformer::default()`, which has none, so the rules run beside `Forwarding` in the same
run and share no state with it. `RulesAreLocal`: a rule changes what it names and nothing else, and
two rules commute unless the field of one lies within that of the other.

### WsForwarder

The request is authenticated against keys that come and go, the upstream is connected to, and
two loops, one per direction, read a message and send it on. A send waits while `Capacity`
messages lie unread, or fails if its receiver has hung up. `Exit` is the `select!`: the end of
either loop ends both, whatever the other has in hand. `OnlyTheLastIsLost`: per direction that
is one message, and all before it were sent in order. `EnderIsHeardOut`: of the direction that
ended it, nothing is lost, the close frame included, unless the receiver was gone.
`HangUpEnds`: once a peer has hung up the forwarding ends, unless its messages go to a
receiver that stopped reading; for then the loop that would see the end is inside a send. The
comment at `ws.rs:54` wants no half-open connection; this is the case that remains.

### Plugins

A task loads a library (`Load`), registers what it got (`Register`, which drops it if the name
is taken), looks a plugin up (`Get`) and calls one of its hooks, holding an `Arc` from the get
to the end of the hook; others unregister it meanwhile. A hook of a wasm plugin locks its
store twice: `InstanceExports`, then `CallTransform` or `CallPhase`. `OpenWhileUsed` is the
counting of `Arc`s: a library is open if and only if the registry or a task needs it.
`PayloadsFit` is about the growth of the linear memory over any sequence of payload lengths,
where a write past the end would panic under the lock and poison it for good; the lengths of
the instance are those at which a page more or less decides. `WearsOut` states what the fuel
means: it is set when the store is made and never again (`wasm.rs:103`), so a plugin that
keeps being called ends up failing each call. The host discards what `plugin_transform`
returns, the documentation at `wasm.rs:10` notwithstanding.

## 3. Runs

| run | instance | distinct states | seconds | shows |
|---|---|---|---|---|
| `library` | breaker: 3 tasks, threshold 2, cool-down 2; plugins: 2 tasks, 2 names, 2 loads of 4 shapes, fuel 3, pages of 4; reload: 2 reloads, 2 edits of the routes | 218 000 | 92 | fields, contract, closing; memory, lifetimes, fuel; rollback, order, the last word |
| `token_bucket` | 2 tasks, 2 keys, 5 checks, 2 ticks, 1 eviction | 784 000 | 13 | races cost the limiter, never the client |
| `sliding_window` | 2 tasks, 2 keys, 2 per window of 1, 4 checks, 3 ticks | 1 257 000 | 15 | bounded queues, windows of unraced keys |
| `redis_limiter` | 2 tasks (symmetric), capacity 1, 2 per window of 4, 2 numbers, skew 1, delay 1, 8 s, 5 checks | 2 070 000 | 31 | shared limits up to clocks and delays |
| `routing` | lists of up to 3 rules, paths of up to 4 segments, weights modulo 8, 4 upstreams, one of them unknown | 195 000 | 140 | best match, normalisation, shares, the ring |
| `gateway` | 2 tasks, 4 requests, 1 reload, 1 eviction each | 679 000 | 124 | one limiter, accounting, answers |
| `forwarding` | 2 requests, 4 providers, all streams of up to 2 events and some of up to 4; documents of two levels, 2 rules | 379 000 | 144 | layers, limits, translation, delivery, drain |
| `oauth2_cache` | 2 callers, 6 names of refresh tokens, lifetime 2, time to live 3, delay 1 | 436 000 | 82 | usable tokens, recovery |
| `websocket` | scripts of up to 2 messages and an end, capacity 1 | 684 000 | 82 | what is lost, who is heard, what ends |
| `sse_delivery` | answers of up to 2 events | | 1 | a violation: a comment says that chunk boundaries are handled |
| `breaker_open` | 2 tasks, threshold 1, cool-down 1 | | 1 | a violation: the head of the file says how long Open lasts |
| `system_role` | 1 request, streams of up to 2 events | | 5 | a violation: the system role is said to be kept |

Two tasks suffice for every race listed under `hazards`, since each is between two; the
breaker has three, for a late outcome of an admitted call besides the two looks of another.
Two loads of plugins give a name's second registration, and a library that is replaced; two
messages in each direction of a socket give one in hand behind one unread. Of two requests the
second finds what the first left; two events are cut at both ends and between. Bounds on
counters (`Max...`) are named in the `CONSTANTS` of each module and appear only in guards.
Deadlock is checked except where these bounds, or the end of the process, let the system stop,
which the `.cfg` says.

The type invariants (`TypeOK`, `BreakerTypeOK`, `ReloadTypeOK`, `GatewayTypeOK`, `WsTypeOK`)
are in no run, since they are proved; `Routing`, `Canary`, `SseStream` and `Forwarding` have
none, and the invariants of their proofs hold the types those need. The six names of refresh
tokens in `oauth2_cache` are what the cache, two requests and two answers can hold, and one
more (`OAuth2Assumption`): a name stands for a new token once nobody holds it, and with fewer
there might be none left.

**Fairness.** Weak fairness per task on the steps the program takes by itself: the tokio
runtime schedules every ready task, and the calls a step waits for end (the pooled upstream
clients carry a timeout; the clock moves). In `Forwarding` that is one condition on `Handle`,
as one request is followed; a stalled client disables it. In `Gateway` the steps that await the
client's body (`BodyEnds`) have no fairness, as the code waits for it without a timeout
(`handler.rs:259`); `EveryoneIsAnswered` has a body that ends as its hypothesis. In
`WsForwarder` the two loops are polled by the `select!` each, a peer that has not stalled keeps
reading, and nothing is said of what peers send. The breaker's callers keep calling, since only
a call moves it out of Open. Otherwise nothing forces edits, calls of `reload`, new requests,
disconnects, failures or evictions, and liveness properties that need such an event or its
absence name it as a hypothesis (`LastReloadWins`, `HealedUpstreamCloses`,
`EveryoneIsAnswered`, `Recovers`, `WearsOut`, `StopCompletes`, `HangUpEnds`).

## 4. Proofs

Every safety invariant and every action property that a passing run checks is proved by TLAPS
for all values of the constants, and so is the refinement of `BreakerContract`, from the named
assumptions of the module (`ThresholdAssumption` and the like: naturals are naturals, `None` is
no value), which TLC evaluates in each run.

* **Breaker**: `TypeCorrect`; `FieldsAlwaysAgree`, `OneFailureReopens`; and
  `BreakerImplementsContract`, that every step is a step of `BreakerContract` or stutters. The
  argument rests on `FieldsAgree` together with the type invariant: a breaker that is not
  closed has an opening time and a counter at the threshold, so one failure trips it again; a
  half-open one has sat out its cool-down, as the contract asks.
* **TokenBucket**: `TypeCorrect`, `TokensAreKept`, `DenyIsEarned`, `BudgetHolds`.
  `NoTokenVanishes` is inductive because it speaks of every copy of a bucket, the stored one
  and those in the hands of tasks that may yet write them back: tokens and grants together make
  a burst. The budget (`BudgetUnlessRaced`) is the other direction, and holds for keys whose
  checks never overlapped. For those `Serial` says that one task at most is in flight and that
  every copy is `Covered`: its tokens and all grants so far are no more than a burst, one more
  per eviction, and the refill up to its `last_refill`; and that the task's reading of the
  clock is no older than any copy, so that no refill starts in the past.
* **SlidingWindow**: `TypeCorrect`, `QueuesStayBounded`, `WindowHolds`. The stored queue alone
  is not inductive; `CopiesAreBounded` adds the copies. `PruneBounds` says what the pruning
  loop returns, by the least element of a set of naturals. For the limit itself
  (`WindowUnlessRaced`), `Serial` says of a key without races and evictions that each copy of
  the queue is the end of the log of grants (`EndsLog`), and that what was pruned had left the
  window (`DroppedBy`); so `rps` + 1 grants within one window would all be in the queue.
* **RedisLimiter**: `TypeCorrect`, `BudgetHolds`, `WindowHolds`, for any number of gateways,
  skew and delay. `TimesOK` bounds the times that tasks carry and says that a key lives until
  its expiry. `BucketInv`: tokens and grants are no more than the capacity and the refill due
  by `last_time` and by what was given away, and without a key the same holds at a time no
  script can still be behind, for which the expiry must be late enough (`FillTime`).
  `WindowInv`: the sorted set still holds every member that was added less than the window less
  the blur ago, and never more than the limit; so no such stretch saw more.
* **Gateway**: `GatewayTypeCorrect`, `OneLimiterPerAlgorithm`, `EveryGrantIsRecorded`, for any
  finite set of tasks and any configurations (`ConfigAssumption`). `FewLimiters` counts: the
  limiters made for an algorithm and the requests that missed it (`Missed`) and will make one
  are no more than one and the evictions, unless requests raced, and no more than a crowd of
  all tasks per eviction even then. What the limiters let through is a set, `Grants`: a pair of
  a limiter and a unit of its burst. `GrantsCounted` adds it up (`AllowGrantsOne`,
  `LeavingIsCounted`), and `GrantsPerLimiter` bounds the grants of so many limiters by a burst
  for each.
* **WsForwarder**: `WsTypeCorrect`, `OneMessageAtMost`, `EndersAreHeard`, for scripts and
  buffers of any length. `LoopOK` is, of each direction, what a loop has done between two
  awaits: what it read and was to forward it has sent, in order, but for the one in hand;
  `Scripted` that nothing but an end ends a script, so that a loop that ended has read all of
  it.
* **Routing and Canary** (in `RouteProofs`; `RoutingAssumption`, `CanaryAssumption`: rules are
  lists, the rules at the start compile, weights are naturals, each upstream has a node):
  * `RoutingInvariant`: the table and the snapshots are the rules in the order of their kinds
    (`IsTable`; `EntriesAreSorted`, `TableEntries`), and the loop has tried, without a match,
    every entry before its cursor (`FirstIsTaken`). `BestRuleWins` follows once an entry is
    seen to match what its rule wants (`EntryIsItsRule`; `TrimmedPrefix` for prefixes).
  * `NormalizeIsMeaning`, for paths of any length over any segments: what `normalize` has on
    its stack after n segments `Lists` the names that no parent among them cancels, and of each
    how deep it lies: as many more names than parents follow it as there are names above
    (`ListIsFollowed`). The depth is what makes the claim inductive, as it says which name the
    next parent takes. `ExactPathsMeanTheirNames` is the same of every compiled rule.
  * `SharesFollowWeights`: sums grow (`SumsGrow`), so a roll hits a target if and only if it
    lies between the sums before and after it (`RollsOfTarget`), which is as many rolls as it
    weighs (`SharesAreWeights`); when the sum wraps, a roll below the total is still below the
    sum at some target that takes traffic (`EveryRollHits`).
  * `OnlyOfferedUpstreams`: nothing is chosen while a request is matched (`NothingChosenYet`),
    so that a choice is of the snapshot and the rule it still has.
  * `FewKeysMove`: the owner of a node is the last bucket that has it (`RingNodes`), a key
    lands on the next node or, past the last, on the first (`KeyLands`), and if the upstream it
    leaves and the one it comes to are in both rings, both of its nodes are, and the order of
    hashes and of buckets contradicts the move (`KeysStay`).
  * `CanaryIsRouting`: `CanarySpec` implements `RoutingSpec`, by which the invariant carries
    over.
* **RouteReload** (in `RouteProofs`): `TypeCorrect`, `OnlyWholeConfigurationsAreServed`,
  `LoneReloadsNeverGoBack`. `Order` says that what a reload holds is no newer than the file
  and, if it has no rivals, no older than the table, and that a reload without rivals is the
  only one; `Wholeness` that what an untorn reload would store has been on disk as a whole.
* **Plugins**: `TypeCorrect`, `LibrariesOutliveCalls`, `NoOverrun`, for any page size, offset
  and lengths. `OpenWhileUsed` needs `Holding`: an idle task holds nothing, a busy one an
  instance that was loaded; then what an operation takes out of the registry or of a task's
  hands is just what `Dropped` closes. `GrowthSuffices` is the arithmetic of the pages.
* **OAuth2Cache**: `TypeCorrect`, `RefreshHolds`, `ExpiryHolds`. `CachedRefreshWorks` needs
  `Fresh`: the refresh token in an answer on its way is accepted, and neither cached, nor
  presented by a request, nor in another answer. That a new token is new is `NewRefreshIsNew`,
  a count of the names that can be in use. `Ages`: a token's life and its `expires_at` run down
  together and differ by the time its answer was under way.
* **Forwarding**: `OversizedBodiesStay` and `EveryAnswerIsTagged`, for any
  bodies, answers and streams. `Measured` carries the length of the body from where it is read
  to the upstream; `EveryPlaceIsTagged` says that each place a reply is made at lies within the
  request id layer. No types are needed for these.
* **Forwarding, with SseStream and Providers**: `StreamsAreInOrder`, `FailuresAreSeen`,
  `EveryTurnIsHeard`, `EveryTextArrives`, for streams of any length, cut in any way.
  `StreamInv` adds to `NothingReadIsLost` and `FailureIsReported` that the batch is places that
  were read (`BatchHolds`). That a chunk's batch lists what it completed, and in order, is
  `OrderedIsAll`, by ranks: the k-th number of a finite set is the one with k numbers up to it.
  `TranslationIsFaithful` is about the four adapters: whoever is asked hears every turn and the
  limit on tokens, from the speakers and with the texts that `HeardAs` names for it.
  `TextIsData` says that each adapter shows an event with a text where it looks for one, by
  which `TextsAreDue` makes texts events that are due; `Carried` holds these from the step that
  asks, or answers, to the end of the stream.
* **Transformer**: `RulesStayLocal`, for documents of any depth and any rules. `OneRuleIsLocal`
  is about one rule; `ApartRulesCommute` about two whose fields are not one within the other,
  by which of them leads anywhere and whether the other can change that (`PrefixOfFront`).

Induction over data is done with sets. The library's induction theorems take an operator, which
none of the installed provers can instantiate. But a set of numbers that has 0, and with n also
n + 1, has them all (`NatSetInduction`, from the least number outside, which
`WellFoundedInduction` gives), and the claim about a list of any length is such a set. That a
recursive function is what its equation says is `RecursionExists`, proved in the same way: such
functions exist on each initial segment, so `CHOOSE` finds one. From these come the laws of
`Sums`, `Followed` and `InOrder` (`SumsAdd`, `FollowedSteps`, `InOrderLists`). The modules say
with sets, functions and `InOrder` what `SelectSeq`, `SortSeq`, `@@` and the folds would say,
for which the prover has no laws.

Only model-checked: liveness (`HealedUpstreamCloses`, `LastReloadWins`, `EveryoneIsAnswered`,
`Recovers`, `WearsOut`, `HangUpEnds`, `StopCompletes`), since TLAPS does not reason about
fairness and ENABLED; and `ChunkingIsInvisible`, `OpenLasts` and `SystemIsKept`, which the code
violates.

## 5. Not modelled

* The configuration centres (a fetch over HTTP and a stub, called by nothing), the admin pages
  and the cli (they print, or edit what nothing reads back), JWT verification (one call of a
  library), audit and the exporters of metrics and traces (counters, library calls; nothing
  sends to the audit channel): straight-line I/O, without state that interacts.
* In modelled parts: the text of messages; the rules R-1 to R-8 one by one (one bit per file)
  and the environment overlay; the byte level of SSE framing; header edits of the
  transformer; models, ids and usage numbers of the adapters; which addresses are blocked (a
  name resolves to one that is, or is not, when it is checked), and which address is then
  contacted: the cached client resolves the name once more and follows redirects, where the
  specification asks for a connection to the verified address (`docs/rapidgate-spec.md:628`);
  a model of `src/` has no step in which the two could differ, and no property here says
  anything of it; `remove` and `health_check` of the pool, which
  have no callers; the expiry and generation of session ids, which have none either.

## 6. Plan

What remains is to model the byte level of `find_sse_event_end` below `SseStream`, with CRLF,
and its invariance under chunking, which the recursion laws of `RouteProofs` would serve; and
the budget of several gateways that fall back to limiters of their own (`redis_store.rs:157`),
as a multiple of that of `TokenBucket`.

The runs ask as many questions as can be kept current together; a new part takes the place of
the shallowest property or is composed into an existing run.
