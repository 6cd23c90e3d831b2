----------------------------- MODULE OAuth2Cache -----------------------------
(***************************************************************************)
(* The outbound tokens of src/core/auth/oauth2.rs: a cache that concurrent *)
(* calls fill, and the provider they ask.  A call looks into the cache,    *)
(* sends a request and inserts what comes back, without a lock and without *)
(* looking again; so calls refresh with the same refresh token, answers    *)
(* overtake one another, and an answer may be lost after the provider has  *)
(* acted on it.                                                            *)
(*                                                                         *)
(* One cache key (one set of scopes) is modelled, as keys do not interact. *)
(* Time is kept as what is left of it: Tick makes every deadline one tick  *)
(* nearer.  The provider is external: as RFC 6749 lets it, it issues       *)
(* refresh tokens or not, and replaces them when they are used or not.     *)
(***************************************************************************)
EXTENDS Integers, FiniteSets

CONSTANTS
  Tasks,         \* the callers
  RefreshTokens, \* names for the refresh tokens in use
  Lifetime,      \* expires_in, in ticks
  TTL,           \* cache_ttl_secs, in ticks
  MaxDelay,      \* bound of the instance: how long an answer travels
  None           \* no entry, no refresh token, no expiry, no answer

(* There are names for what the cache, the requests and the answers hold,  *)
(* and for one more.                                                       *)
ASSUME OAuth2Assumption ==
  /\ Lifetime \in Nat \ {0} /\ TTL \in Nat \ {0} /\ MaxDelay \in Nat
  /\ None \notin RefreshTokens /\ None \notin Int
  /\ IsFiniteSet(Tasks) /\ IsFiniteSet(RefreshTokens)
  /\ Cardinality(RefreshTokens) > 1 + 2 * Cardinality(Tasks)

VARIABLES
  cache,    \* the cached token, or None
  pc,       \* where each call is
  presents, \* the refresh token a call's request carries, None if another grant
  answer,   \* the provider's answer on its way to the call
  outcome,  \* of the task's last call: "pending", "token", "error" or "none"
  valid,    \* the refresh tokens the provider accepts
  lost      \* history: those it replaced in answers that never arrived

vars == <<cache, pc, presents, answer, outcome, valid, lost>>

provider == <<valid, lost>>

(* `left` is the token's life as the provider sees it, `delay` how long    *)
(* the answer with it was under way, `expires` what is left until          *)
(* expires_at (None if the provider did not say), `ttl` until the cache    *)
(* drops it.                                                               *)
Answer == [left : Int, delay : Nat, told : BOOLEAN,
           refresh : RefreshTokens \union {None}]
CachedToken == [left : Int, delay : Nat, expires : Nat \union {None},
                ttl : 1 .. TTL, refresh : RefreshTokens \union {None}]

ASSUME NoneAssumption == None \notin Answer /\ None \notin CachedToken

(* The types of the variables. *)
TypeOK ==
  /\ cache \in CachedToken \union {None}
  /\ pc \in [Tasks -> {"idle", "get", "look", "sent", "answered"}]
  /\ presents \in [Tasks -> RefreshTokens \union {None}]
  /\ answer \in [Tasks -> Answer \union {None}]
  /\ outcome \in [Tasks -> {"none", "pending", "token", "error"}]
  /\ \A t \in Tasks :
       /\ answer[t] # None <=> pc[t] = "answered"
       /\ presents[t] # None => pc[t] \in {"sent", "answered"}
       /\ outcome[t] = "pending" <=> pc[t] # "idle"
  /\ valid \subseteq RefreshTokens
  /\ lost \subseteq RefreshTokens

Init ==
  /\ cache = None
  /\ pc = [t \in Tasks |-> "idle"]
  /\ presents = [t \in Tasks |-> None]
  /\ answer = [t \in Tasks |-> None]
  /\ outcome = [t \in Tasks |-> "none"]
  /\ valid = {} /\ lost = {}

-----------------------------------------------------------------------------
(* Variant (see Breaker): a token is good for as long as it is cached.     *)
NeverExpired(c) == FALSE

IsExpired(c) == c.expires # None /\ c.expires = 0

Hit == cache # None /\ ~IsExpired(cache)

Calls(t, place) ==
  /\ pc[t] = "idle"
  /\ pc' = [pc EXCEPT ![t] = place]
  /\ outcome' = [outcome EXCEPT ![t] = "pending"]

(* The request leaves; `rt` is the refresh token in it, None for the other *)
(* grants.                                                                 *)
Sends(t, rt) ==
  /\ pc' = [pc EXCEPT ![t] = "sent"]
  /\ presents' = [presents EXCEPT ![t] = rt]

Returns(t, result) ==
  /\ pc' = [pc EXCEPT ![t] = "idle"]
  /\ outcome' = [outcome EXCEPT ![t] = result]
  /\ presents' = [presents EXCEPT ![t] = None]
  /\ answer' = [answer EXCEPT ![t] = None]

(* get_token and client_credentials. *)
GetToken(t) ==
  /\ Calls(t, "get")
  /\ UNCHANGED <<cache, presents, answer, provider>>

ClientCredentials(t) ==
  /\ Calls(t, "look")
  /\ UNCHANGED <<cache, presents, answer, provider>>

(* exchange_authorization_code does not look into the cache.  (A wrong     *)
(* state parameter is refused before anything happens.)                    *)
ExchangeCode(t) ==
  /\ pc[t] = "idle"
  /\ Sends(t, None)
  /\ outcome' = [outcome EXCEPT ![t] = "pending"]
  /\ UNCHANGED <<cache, answer, provider>>

(* A look into the cache finds a token that is_expired does not reject.    *)
ReturnCached(t) ==
  /\ pc[t] \in {"get", "look"}
  /\ Hit
  /\ Returns(t, "token")
  /\ UNCHANGED <<cache, provider>>

(* get_token: an expired token with a refresh token is refreshed, else     *)
(* client_credentials looks once more.                                     *)
Refresh(t) ==
  /\ pc[t] = "get"
  /\ ~Hit /\ cache # None
  /\ cache.refresh # None
  /\ Sends(t, cache.refresh)
  /\ UNCHANGED <<cache, answer, outcome, provider>>

LookAgain(t) ==
  /\ pc[t] = "get"
  /\ ~Hit
  /\ cache # None => cache.refresh = None
  /\ pc' = [pc EXCEPT ![t] = "look"]
  /\ UNCHANGED <<cache, presents, answer, outcome, provider>>

RequestCredentials(t) ==
  /\ pc[t] = "look"
  /\ ~Hit
  /\ Sends(t, None)
  /\ UNCHANGED <<cache, answer, outcome, provider>>

(* Variant: the token that was refreshed keeps its refresh token. *)
ReceiveKeepingRefresh(t) ==
  /\ pc[t] = "answered"
  /\ cache' = [left |-> answer[t].left, delay |-> answer[t].delay, ttl |-> TTL,
               expires |-> IF answer[t].told THEN Lifetime ELSE None,
               refresh |-> IF presents[t] # None THEN presents[t]
                           ELSE answer[t].refresh]
  /\ Returns(t, "token")
  /\ UNCHANGED provider

(* The answer arrives and is cached over whatever is there; expires_at is  *)
(* counted from now on.                                                    *)
Receive(t) ==
  /\ pc[t] = "answered"
  /\ cache' = [left |-> answer[t].left, delay |-> answer[t].delay, ttl |-> TTL,
               expires |-> IF answer[t].told THEN Lifetime ELSE None,
               refresh |-> answer[t].refresh]
  /\ Returns(t, "token")
  /\ UNCHANGED provider

-----------------------------------------------------------------------------
(* The provider and the network. *)
InUse ==
  (IF cache = None THEN {} ELSE {cache.refresh})
    \union {presents[t] : t \in Tasks}
    \union {answer[t].refresh : t \in {u \in Tasks : answer[u] # None}}

(* A refresh token that no one holds any more lends its name to a new one. *)
NewRefresh == CHOOSE rt \in RefreshTokens : rt \notin InUse

(* The provider grants a token: with a new refresh token, which replaces   *)
(* the one that was presented, or with none.                               *)
Grant(t, told, renews) ==
  /\ pc[t] = "sent"
  /\ presents[t] \in valid \union {None}
  /\ pc' = [pc EXCEPT ![t] = "answered"]
  /\ answer' = [answer EXCEPT ![t] =
                  [left |-> Lifetime, delay |-> 0, told |-> told,
                   refresh |-> IF renews THEN NewRefresh ELSE None]]
  /\ valid' = IF renews
                 THEN ((valid \intersect InUse) \ {presents[t]}) \union {NewRefresh}
                 ELSE valid \intersect InUse
  /\ lost' = lost \intersect InUse
  /\ UNCHANGED <<cache, presents, outcome>>

(* Variant: a refused refresh is tried again. *)
RefuseToRetry(t) ==
  /\ pc[t] = "sent"
  /\ presents[t] \notin valid \union {None}
  /\ UNCHANGED vars

(* invalid_grant: the call fails, and the cached token stays as it is.     *)
Refuse(t) ==
  /\ pc[t] = "sent"
  /\ presents[t] \notin valid \union {None}
  /\ Returns(t, "error")
  /\ UNCHANGED <<cache, provider>>

(* A request or its answer is lost, or the caller's future is dropped.     *)
Abandons(t, result) ==
  /\ Returns(t, result)
  /\ lost' = IF pc[t] = "answered" /\ presents[t] # None /\ presents[t] \notin valid
                THEN lost \union {presents[t]}
                ELSE lost
  /\ UNCHANGED <<cache, valid>>

FailNetwork(t) ==
  /\ pc[t] \in {"sent", "answered"}
  /\ Abandons(t, "error")

Drop(t) ==
  /\ pc[t] # "idle"
  /\ Abandons(t, "none")

(* Invalidation by the cache when it is full. *)
Evict ==
  /\ cache # None
  /\ cache' = None
  /\ UNCHANGED <<pc, presents, answer, outcome, provider>>

(* One tick of every clock: the provider's, is_expired's and the cache's.  *)
Nearer(n) == IF n = 0 THEN 0 ELSE n - 1

Aged(c) ==
  IF c.ttl = 1 THEN None
  ELSE [c EXCEPT !.left = @ - 1, !.ttl = @ - 1,
                 !.expires = IF @ = None THEN None ELSE Nearer(@)]

Tick ==
  /\ \A t \in Tasks : answer[t] # None => answer[t].delay < MaxDelay
  /\ cache' = IF cache = None THEN None ELSE Aged(cache)
  /\ answer' = [t \in Tasks |->
                  IF answer[t] = None THEN None
                  ELSE [answer[t] EXCEPT !.left = @ - 1, !.delay = @ + 1]]
  /\ UNCHANGED <<pc, presents, outcome, provider>>

Call(t) == GetToken(t) \/ ClientCredentials(t) \/ ExchangeCode(t)

Looks(t) ==
  ReturnCached(t) \/ Refresh(t) \/ LookAgain(t) \/ RequestCredentials(t)

Answers(t) ==
  \/ \E told, renews \in BOOLEAN : Grant(t, told, renews)
  \/ Refuse(t)
  \/ Receive(t)

Next ==
  \/ \E t \in Tasks : \/ Call(t) \/ Looks(t) \/ Answers(t)
                      \/ FailNetwork(t) \/ Drop(t)
  \/ Evict
  \/ Tick

Spec == Init /\ [][Next]_vars

(* Time passes, calls are scheduled, and the provider answers what reaches *)
(* it.  That the network keeps working is no assumption but a hypothesis   *)
(* of Recovers.                                                            *)
FairSpec ==
  /\ Spec
  /\ WF_vars(Tick)
  /\ \A t \in Tasks : WF_vars(Looks(t)) /\ WF_vars(Answers(t))

-----------------------------------------------------------------------------
(* A token that is handed out from the cache is alive, or was so when the  *)
(* provider began to answer: is_expired errs by the answer's way only.     *)
(* (Without expires_in the cache's time to live is all there is.)          *)
AliveButForTheWay ==
  [][\A t \in Tasks :
       (ReturnCached(t) /\ cache.expires # None)
         => cache.left + cache.delay > 0]_vars

(* The cached refresh token works, unless a call is about to replace it or *)
(* the answer that replaces it was lost: neither races of refreshes nor    *)
(* answers that overtake one another leave a used one behind.              *)
CachedRefreshWorks ==
  (cache # None /\ cache.refresh # None) =>
    \/ cache.refresh \in valid \union lost
    \/ \E t \in Tasks : pc[t] = "answered" /\ presents[t] = cache.refresh

(* A lost answer leaves a refresh token behind that is refused each time;  *)
(* get_token does not then try its other grant, but the cache's time to    *)
(* live ends this: if from some moment on nothing is lost or dropped, a    *)
(* caller that does not stop calling keeps getting tokens (and no call     *)
(* stays without an end).                                                  *)
Recovers ==
  <>[][\A t \in Tasks : ~FailNetwork(t) /\ ~Drop(t)]_vars =>
    \A t \in Tasks :
      []<>(pc[t] # "idle") => []<>(outcome[t] = "token")
=============================================================================
