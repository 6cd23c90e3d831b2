-------------------------- MODULE OAuth2CacheProofs ---------------------------
(***************************************************************************)
(* The token cache for any number of callers and any lifetimes.  A new     *)
(* refresh token is known to the answer that carries it and to nobody      *)
(* else, until it is cached (Fresh); a token and its expires_at run down   *)
(* together, and are apart by the answer's way (Ages).                     *)
(***************************************************************************)
EXTENDS OAuth2Cache, FiniteSetTheorems, TLAPS

Fresh(t) ==
  (answer[t] # None /\ answer[t].refresh # None) =>
    /\ answer[t].refresh \in valid
    /\ cache # None => cache.refresh # answer[t].refresh
    /\ \A u \in Tasks :
         /\ presents[u] # answer[t].refresh
         /\ (u # t /\ answer[u] # None) => answer[u].refresh # answer[t].refresh

RefreshInv == CachedRefreshWorks /\ \A t \in Tasks : Fresh(t)

Ages ==
  /\ \A t \in Tasks :
       answer[t] # None => answer[t].left + answer[t].delay = Lifetime
  /\ (cache # None /\ cache.expires # None /\ cache.expires # 0) =>
       cache.left + cache.delay = cache.expires

USE OAuth2Assumption, NoneAssumption

LEMMA Image ==
  ASSUME NEW S, IsFiniteSet(S), NEW f
  PROVE  /\ IsFiniteSet({f[x] : x \in S})
         /\ Cardinality({f[x] : x \in S}) <= Cardinality(S)
<1> DEFINE T == {f[x] : x \in S}
           g == [x \in S |-> f[x]]
<1>1. g \in Surjection(S, T)
  BY DEF Surjection
<1>2. QED
  BY <1>1, FS_Surjection

LEMMA UnionBound ==
  ASSUME NEW S, IsFiniteSet(S), NEW T, IsFiniteSet(T)
  PROVE  /\ IsFiniteSet(S \union T)
         /\ Cardinality(S \union T) <= Cardinality(S) + Cardinality(T)
<1>1. /\ IsFiniteSet(S \union T)
      /\ Cardinality(S \union T)
           = Cardinality(S) + Cardinality(T) - Cardinality(S \intersect T)
  BY FS_Union, Zenon
<1>2. IsFiniteSet(S \intersect T)
  BY FS_Subset
<1>3. /\ Cardinality(S) \in Nat /\ Cardinality(T) \in Nat
      /\ Cardinality(S \intersect T) \in Nat
  BY <1>2, FS_CardinalityType
<1>4. QED
  BY <1>1, <1>3

(* There always is a refresh token to issue that no one holds. *)
LEMMA NewRefreshIsNew == NewRefresh \in RefreshTokens /\ NewRefresh \notin InUse
<1> DEFINE A == IF cache = None THEN {} ELSE {cache.refresh}
           B == {presents[t] : t \in Tasks}
           S == {u \in Tasks : answer[u] # None}
           f == [t \in S |-> answer[t].refresh]
           C == {answer[t].refresh : t \in S}
           n == Cardinality(Tasks)
<1>1. IsFiniteSet(A) /\ Cardinality(A) <= 1
  <2>1. CASE cache = None
    BY <2>1, FS_EmptySet
  <2>2. CASE cache # None
    <3>1. IsFiniteSet({cache.refresh}) /\ Cardinality({cache.refresh}) = 1
      BY FS_Singleton
    <3>2. QED
      BY <2>2, <3>1
  <2>3. QED
    BY <2>1, <2>2
<1>2. IsFiniteSet(B) /\ Cardinality(B) <= n
  BY Image
<1>3. IsFiniteSet(S) /\ Cardinality(S) <= n
  <2>1. S \in SUBSET Tasks
    OBVIOUS
  <2> HIDE DEF S
  <2>2. QED
    BY <2>1, FS_Subset
<1>4. IsFiniteSet(C) /\ Cardinality(C) <= Cardinality(S)
  <2>1. C = {f[t] : t \in S}
    OBVIOUS
  <2> HIDE DEF S, f, C
  <2>2. QED
    BY <1>3, <2>1, Image
<1>5. InUse = (A \union B) \union C
  BY DEF InUse
<1> HIDE DEF A, B, C, S
<1>6. /\ IsFiniteSet(A \union B)
      /\ Cardinality(A \union B) <= Cardinality(A) + Cardinality(B)
  BY <1>1, <1>2, UnionBound
<1>7. /\ IsFiniteSet(InUse)
      /\ Cardinality(InUse) <= Cardinality(A \union B) + Cardinality(C)
  BY <1>4, <1>5, <1>6, UnionBound
<1>8. /\ Cardinality(A) \in Nat /\ Cardinality(B) \in Nat /\ Cardinality(C) \in Nat
      /\ Cardinality(A \union B) \in Nat /\ Cardinality(InUse) \in Nat
      /\ Cardinality(S) \in Nat /\ n \in Nat /\ Cardinality(RefreshTokens) \in Nat
  BY <1>1, <1>2, <1>3, <1>4, <1>6, <1>7, FS_CardinalityType
<1>9. Cardinality(InUse) < Cardinality(RefreshTokens)
  BY <1>1, <1>2, <1>3, <1>4, <1>6, <1>7, <1>8
<1>10. ~(RefreshTokens \subseteq InUse)
  <2> SUFFICES ASSUME RefreshTokens \subseteq InUse PROVE FALSE
    OBVIOUS
  <2>1. Cardinality(RefreshTokens) <= Cardinality(InUse)
    BY <1>7, FS_Subset
  <2>2. QED
    BY <1>8, <1>9, <2>1
<1>11. QED
  BY <1>10 DEF NewRefresh

-----------------------------------------------------------------------------
LEMMA InitType == Init => TypeOK
  BY DEF Init, TypeOK

LEMMA AgedType ==
  ASSUME NEW c \in CachedToken
  PROVE  Aged(c) \in CachedToken \union {None}
<1> SUFFICES ASSUME c.ttl # 1
             PROVE  Aged(c) \in CachedToken
  BY DEF Aged
<1> DEFINE left == IF c.expires = None THEN None ELSE Nearer(c.expires)
<1>1. left \in Nat \union {None}
  BY DEF CachedToken, Nearer
<1>2. c.ttl - 1 \in 1 .. TTL /\ c.left - 1 \in Int
  BY DEF CachedToken
<1>3. Aged(c) = [left |-> c.left - 1, delay |-> c.delay, expires |-> left,
                 ttl |-> c.ttl - 1, refresh |-> c.refresh]
  BY DEF Aged, CachedToken
<1> HIDE DEF left
<1>4. QED
  BY <1>1, <1>2, <1>3 DEF CachedToken

LEMMA TickAnswer ==
  ASSUME TypeOK, Tick, NEW t \in Tasks
  PROVE  /\ answer'[t] # None <=> answer[t] # None
         /\ answer[t] # None =>
              /\ answer'[t] \in Answer
              /\ answer'[t].left = answer[t].left - 1
              /\ answer'[t].delay = answer[t].delay + 1
              /\ answer'[t].refresh = answer[t].refresh
<1>1. CASE answer[t] = None
  BY <1>1 DEF Tick
<1>2. CASE answer[t] # None
  <2>1. answer[t] \in Answer
    BY <1>2 DEF TypeOK
  <2>2. answer'[t] = [answer[t] EXCEPT !.left = @ - 1, !.delay = @ + 1]
    BY <1>2 DEF Tick
  <2>3. answer'[t] = [left |-> answer[t].left - 1, delay |-> answer[t].delay + 1,
                      told |-> answer[t].told, refresh |-> answer[t].refresh]
    BY <2>1, <2>2 DEF Answer
  <2>4. answer'[t] \in Answer
    BY <2>1, <2>3 DEF Answer
  <2>5. /\ answer'[t].left = answer[t].left - 1
        /\ answer'[t].delay = answer[t].delay + 1
        /\ answer'[t].refresh = answer[t].refresh
    BY <2>3
  <2>6. QED
    BY <1>2, <2>4, <2>5
<1>3. QED
  BY <1>1, <1>2

LEMMA NextType == TypeOK /\ [Next]_vars => TypeOK'
<1> SUFFICES ASSUME TypeOK, [Next]_vars
             PROVE  TypeOK'
  OBVIOUS
<1> USE DEF TypeOK, provider
<1>1. ASSUME NEW t \in Tasks, Call(t)
      PROVE  TypeOK'
  BY <1>1 DEF Call, GetToken, ClientCredentials, ExchangeCode, Calls, Sends
<1>2. ASSUME NEW t \in Tasks, ReturnCached(t)
      PROVE  TypeOK'
  BY <1>2 DEF ReturnCached, Returns
<1>3. ASSUME NEW t \in Tasks, Refresh(t)
      PROVE  TypeOK'
  <2>1. cache.refresh \in RefreshTokens
    BY <1>3 DEF Refresh, CachedToken
  <2>2. QED
    BY <1>3, <2>1 DEF Refresh, Sends
<1>4. ASSUME NEW t \in Tasks, LookAgain(t) \/ RequestCredentials(t)
      PROVE  TypeOK'
  BY <1>4 DEF LookAgain, RequestCredentials, Sends
<1>5. ASSUME NEW t \in Tasks, NEW told \in BOOLEAN, NEW renews \in BOOLEAN,
             Grant(t, told, renews)
      PROVE  TypeOK'
  <2> DEFINE new == [left |-> Lifetime, delay |-> 0, told |-> told,
                     refresh |-> IF renews THEN NewRefresh ELSE None]
  <2>1. new \in Answer /\ new # None
    BY NewRefreshIsNew DEF Answer
  <2>2. valid' \subseteq RefreshTokens /\ lost' \subseteq RefreshTokens
    BY <1>5, NewRefreshIsNew DEF Grant
  <2>3. answer' = [answer EXCEPT ![t] = new]
    BY <1>5 DEF Grant
  <2> HIDE DEF new
  <2>4. QED
    BY <1>5, <2>1, <2>2, <2>3 DEF Grant
<1>6. ASSUME NEW t \in Tasks, Refuse(t)
      PROVE  TypeOK'
  BY <1>6 DEF Refuse, Returns
<1>7. ASSUME NEW t \in Tasks, Receive(t)
      PROVE  TypeOK'
  <2>1. answer[t] \in Answer
    BY <1>7 DEF Receive
  <2>2. cache' \in CachedToken
    BY <1>7, <2>1 DEF Receive, Answer, CachedToken
  <2>3. QED
    BY <1>7, <2>2 DEF Receive, Returns
<1>8. ASSUME NEW t \in Tasks, FailNetwork(t) \/ Drop(t)
      PROVE  TypeOK'
  <2>1. lost' \subseteq RefreshTokens
    BY <1>8 DEF FailNetwork, Drop, Abandons
  <2>2. QED
    BY <1>8, <2>1 DEF FailNetwork, Drop, Abandons, Returns
<1>9. CASE Evict
  BY <1>9 DEF Evict
<1>10. CASE Tick
  <2>1. cache' \in CachedToken \union {None}
    BY <1>10, AgedType DEF Tick
  <2>2. ASSUME NEW t \in Tasks
        PROVE  /\ answer'[t] # None <=> answer[t] # None
               /\ answer'[t] \in Answer \union {None}
    BY <1>10, TickAnswer
  <2>3. answer' \in [Tasks -> Answer \union {None}]
    <3>1. answer' = [t \in Tasks |-> answer'[t]]
      BY <1>10 DEF Tick
    <3>2. QED
      BY <2>2, <3>1
  <2>4. QED
    BY <1>10, <2>1, <2>2, <2>3 DEF Tick
<1>11. CASE UNCHANGED vars
  BY <1>11 DEF vars
<1>12. QED
  BY <1>1, <1>2, <1>3, <1>4, <1>5, <1>6, <1>7, <1>8, <1>9, <1>10, <1>11
     DEF Next, Looks, Answers

(* The cache and the calls of oauth2.rs are in step: a call holds an       *)
(* answer just when one came, and a refresh token only while it asks.      *)
THEOREM TypeCorrect == Spec => []TypeOK
  BY InitType, NextType, PTL DEF Spec

-----------------------------------------------------------------------------
(* What is issued is new, and what is in use keeps its standing, but for   *)
(* the token that was presented.                                           *)
LEMMA GrantRefresh ==
  ASSUME TypeOK, RefreshInv, NEW t \in Tasks, NEW told \in BOOLEAN,
         NEW renews \in BOOLEAN, Grant(t, told, renews)
  PROVE  RefreshInv'
<1>1. /\ pc[t] = "sent" /\ answer[t] = None
      /\ pc' = [pc EXCEPT ![t] = "answered"]
      /\ UNCHANGED <<cache, presents>>
  BY DEF Grant, TypeOK
<1>2. /\ answer'[t] # None
      /\ answer'[t].refresh = IF renews THEN NewRefresh ELSE None
      /\ \A u \in Tasks \ {t} : answer'[u] = answer[u]
  <2> DEFINE new == [left |-> Lifetime, delay |-> 0, told |-> told,
                     refresh |-> IF renews THEN NewRefresh ELSE None]
  <2>1. new \in Answer
    BY NewRefreshIsNew DEF Answer
  <2>2. answer' = [answer EXCEPT ![t] = new]
    BY DEF Grant
  <2>3. new.refresh = IF renews THEN NewRefresh ELSE None
    OBVIOUS
  <2> HIDE DEF new
  <2>4. answer \in [Tasks -> Answer \union {None}]
    BY DEF TypeOK
  <2>5. QED
    BY <2>1, <2>2, <2>3, <2>4
<1>3. ASSUME NEW rt \in InUse, rt # presents[t]
      PROVE  /\ rt \in valid => rt \in valid'
             /\ rt \in lost => rt \in lost'
  BY <1>3 DEF Grant
<1>4. ASSUME NEW rt \in InUse, ~renews
      PROVE  /\ rt \in valid => rt \in valid'
             /\ rt \in lost => rt \in lost'
  BY <1>4 DEF Grant
<1>5. NewRefresh \notin InUse /\ NewRefresh # None
  BY NewRefreshIsNew
<1>6. CachedRefreshWorks'
  <2> SUFFICES ASSUME cache # None, cache.refresh # None
               PROVE  \/ cache.refresh \in valid' \union lost'
                      \/ \E u \in Tasks : pc'[u] = "answered"
                                         /\ presents'[u] = cache.refresh
    BY <1>1 DEF CachedRefreshWorks
  <2>1. cache.refresh \in InUse
    BY DEF InUse
  <2>2. CASE cache.refresh = presents[t]
    BY <1>1, <2>2 DEF TypeOK
  <2>3. CASE cache.refresh # presents[t]
    <3>1. CASE cache.refresh \in valid \union lost
      BY <1>3, <2>1, <2>3, <3>1
    <3>2. CASE \E u \in Tasks : pc[u] = "answered" /\ presents[u] = cache.refresh
      BY <1>1, <3>2 DEF TypeOK
    <3>3. QED
      BY <3>1, <3>2 DEF RefreshInv, CachedRefreshWorks
  <2>4. QED
    BY <2>2, <2>3
<1>7. ASSUME NEW u \in Tasks
      PROVE  Fresh(u)'
  <2>1. CASE u = t
    <3> SUFFICES ASSUME renews
                 PROVE  Fresh(t)'
      BY <1>2, <2>1 DEF Fresh
    <3>1. answer'[t].refresh = NewRefresh /\ NewRefresh \in valid'
      BY <1>2 DEF Grant
    <3>2. cache # None => cache.refresh # NewRefresh
      BY <1>5 DEF InUse
    <3>3. ASSUME NEW v \in Tasks
          PROVE  /\ presents[v] # NewRefresh
                 /\ (v # t /\ answer[v] # None) => answer[v].refresh # NewRefresh
      BY <1>5 DEF InUse
    <3>4. QED
      BY <1>1, <1>2, <3>1, <3>2, <3>3 DEF Fresh
  <2>2. CASE u # t
    <3> SUFFICES ASSUME answer[u] # None, answer[u].refresh # None
                 PROVE  Fresh(u)'
      BY <1>2, <2>2 DEF Fresh
    <3>1. Fresh(u)
      BY DEF RefreshInv
    <3>2. answer[u].refresh \in InUse
      BY DEF InUse
    <3>3. answer[u].refresh \in valid'
      BY <1>3, <3>1, <3>2 DEF Fresh
    <3>4. answer'[t].refresh # answer[u].refresh
      BY <1>2, <1>5, <3>2
    <3>5. QED
      BY <1>1, <1>2, <2>2, <3>1, <3>3, <3>4 DEF Fresh
  <2>3. QED
    BY <2>1, <2>2
<1>8. QED
  BY <1>6, <1>7 DEF RefreshInv

(* The answer brings a token into the cache that no one has used. *)
LEMMA ReceiveRefresh ==
  ASSUME TypeOK, RefreshInv, NEW t \in Tasks, Receive(t)
  PROVE  RefreshInv'
<1>1. /\ answer[t] \in Answer /\ answer[t] # None
      /\ cache' # None /\ cache'.refresh = answer[t].refresh
      /\ answer' = [answer EXCEPT ![t] = None]
      /\ presents' = [presents EXCEPT ![t] = None]
      /\ UNCHANGED <<valid, lost>>
  <2>1. answer[t] \in Answer /\ answer[t] # None
    BY DEF Receive, TypeOK
  <2>2. cache' \in CachedToken
    BY <2>1 DEF Receive, Answer, CachedToken
  <2>3. QED
    BY <2>1, <2>2 DEF Receive, Returns, provider
<1>2. CachedRefreshWorks'
  <2> SUFFICES ASSUME cache'.refresh # None
               PROVE  cache'.refresh \in valid'
    BY DEF CachedRefreshWorks
  <2>1. QED
    BY <1>1 DEF RefreshInv, Fresh
<1>3. ASSUME NEW u \in Tasks, answer'[u] # None, answer'[u].refresh # None
      PROVE  Fresh(u)'
  <2>1. u # t /\ answer'[u] = answer[u]
    BY <1>1, <1>3 DEF TypeOK
  <2>2. Fresh(u)
    BY DEF RefreshInv
  <2>3. cache'.refresh # answer[u].refresh
    BY <1>1, <1>3, <2>1, <2>2 DEF Fresh
  <2>4. ASSUME NEW v \in Tasks
        PROVE  /\ presents'[v] = presents[v] \/ presents'[v] = None
               /\ answer'[v] = answer[v] \/ answer'[v] = None
    BY <1>1 DEF TypeOK
  <2>5. QED
    BY <1>1, <1>3, <2>1, <2>2, <2>3, <2>4 DEF Fresh
<1>4. \A u \in Tasks : Fresh(u)'
  BY <1>3 DEF Fresh
<1>5. QED
  BY <1>2, <1>4 DEF RefreshInv

(* A call that ends without an answer: what replaced its token is lost.    *)
LEMMA EndRefresh ==
  ASSUME TypeOK, RefreshInv, NEW t \in Tasks,
         pc' = [pc EXCEPT ![t] = "idle"],
         presents' = [presents EXCEPT ![t] = None],
         answer' = [answer EXCEPT ![t] = None],
         UNCHANGED <<cache, valid>>,
         lost \subseteq lost',
         (pc[t] = "answered" /\ presents[t] # None) =>
           presents[t] \in valid \union lost'
  PROVE  RefreshInv'
<1>1. CachedRefreshWorks'
  <2> SUFFICES ASSUME cache # None, cache.refresh # None
               PROVE  \/ cache.refresh \in valid \union lost'
                      \/ \E u \in Tasks : pc'[u] = "answered"
                                         /\ presents'[u] = cache.refresh
    BY DEF CachedRefreshWorks
  <2>1. CASE cache.refresh \in valid \union lost
    BY <2>1
  <2>2. ASSUME NEW u \in Tasks, pc[u] = "answered", presents[u] = cache.refresh
        PROVE  \/ cache.refresh \in valid \union lost'
               \/ pc'[u] = "answered" /\ presents'[u] = cache.refresh
    BY <2>2 DEF TypeOK
  <2>3. QED
    BY <2>1, <2>2 DEF RefreshInv, CachedRefreshWorks
<1>2. ASSUME NEW u \in Tasks, answer'[u] # None, answer'[u].refresh # None
      PROVE  Fresh(u)'
  <2>1. u # t /\ answer'[u] = answer[u]
    BY <1>2 DEF TypeOK
  <2>2. Fresh(u)
    BY DEF RefreshInv
  <2>3. ASSUME NEW v \in Tasks
        PROVE  /\ presents'[v] = presents[v] \/ presents'[v] = None
               /\ answer'[v] = answer[v] \/ answer'[v] = None
    BY DEF TypeOK
  <2>4. QED
    BY <1>2, <2>1, <2>2, <2>3 DEF Fresh
<1>3. \A u \in Tasks : Fresh(u)'
  BY <1>2 DEF Fresh
<1>4. QED
  BY <1>1, <1>3 DEF RefreshInv

(* A request that leaves, with the cached refresh token or with none.      *)
LEMMA SendRefresh ==
  ASSUME TypeOK, RefreshInv, NEW t \in Tasks, NEW rt,
         pc[t] \in {"idle", "get", "look"},
         \/ rt = None
         \/ cache # None /\ rt = cache.refresh,
         Sends(t, rt), UNCHANGED <<cache, answer, provider>>
  PROVE  RefreshInv'
<1>1. /\ pc' = [pc EXCEPT ![t] = "sent"]
      /\ presents' = [presents EXCEPT ![t] = rt]
      /\ UNCHANGED <<cache, answer, valid, lost>>
  BY DEF Sends, provider
<1>2. CachedRefreshWorks'
  <2>1. ASSUME NEW u \in Tasks, pc[u] = "answered"
        PROVE  pc'[u] = "answered" /\ presents'[u] = presents[u]
    BY <1>1, <2>1 DEF TypeOK
  <2>2. QED
    BY <1>1, <2>1 DEF RefreshInv, CachedRefreshWorks
<1>3. ASSUME NEW u \in Tasks
      PROVE  Fresh(u)'
  <2>1. Fresh(u)
    BY DEF RefreshInv
  <2>2. ASSUME NEW v \in Tasks
        PROVE  presents'[v] = presents[v] \/ presents'[v] = rt
    BY <1>1 DEF TypeOK
  <2>3. QED
    BY <1>1, <2>1, <2>2 DEF Fresh
<1>4. QED
  BY <1>2, <1>3 DEF RefreshInv

LEMMA TickRefresh ==
  ASSUME TypeOK, RefreshInv, Tick
  PROVE  RefreshInv'
<1>1. UNCHANGED <<pc, presents, valid, lost>>
  BY DEF Tick, provider
<1>2. cache' # None => cache # None /\ cache'.refresh = cache.refresh
  <2> SUFFICES ASSUME cache # None, cache.ttl # 1
               PROVE  Aged(cache).refresh = cache.refresh
    BY DEF Tick, Aged
  <2>1. cache \in CachedToken
    BY DEF TypeOK
  <2>2. QED
    BY <2>1 DEF Aged, CachedToken
<1>3. ASSUME NEW u \in Tasks
      PROVE  /\ answer'[u] # None <=> answer[u] # None
             /\ answer[u] # None => answer'[u].refresh = answer[u].refresh
  BY TickAnswer
<1>4. CachedRefreshWorks'
  BY <1>1, <1>2 DEF RefreshInv, CachedRefreshWorks
<1>5. ASSUME NEW u \in Tasks
      PROVE  Fresh(u)'
  <2>1. Fresh(u)
    BY DEF RefreshInv
  <2>2. QED
    BY <1>1, <1>2, <1>3, <2>1 DEF Fresh
<1>6. QED
  BY <1>4, <1>5 DEF RefreshInv

LEMMA NextRefresh == TypeOK /\ RefreshInv /\ [Next]_vars => RefreshInv'
<1> SUFFICES ASSUME TypeOK, RefreshInv, [Next]_vars
             PROVE  RefreshInv'
  OBVIOUS
<1>1. ASSUME NEW t \in Tasks, GetToken(t) \/ ClientCredentials(t) \/ LookAgain(t)
      PROVE  RefreshInv'
  <2>1. UNCHANGED <<cache, presents, answer, valid, lost>>
    BY <1>1 DEF GetToken, ClientCredentials, LookAgain, provider
  <2>2. ASSUME NEW u \in Tasks, pc[u] = "answered"
        PROVE  pc'[u] = "answered"
    BY <1>1, <2>2 DEF GetToken, ClientCredentials, LookAgain, Calls, TypeOK
  <2>3. CachedRefreshWorks'
    BY <2>1, <2>2 DEF RefreshInv, CachedRefreshWorks
  <2>4. \A u \in Tasks : Fresh(u)'
    BY <2>1 DEF RefreshInv, Fresh
  <2>5. QED
    BY <2>3, <2>4 DEF RefreshInv
<1>2. ASSUME NEW t \in Tasks, ExchangeCode(t) \/ RequestCredentials(t)
      PROVE  RefreshInv'
  <2>1. /\ pc[t] \in {"idle", "get", "look"} /\ Sends(t, None)
        /\ UNCHANGED <<cache, answer, provider>>
    BY <1>2 DEF ExchangeCode, RequestCredentials
  <2>2. QED
    BY <2>1, SendRefresh
<1>3. ASSUME NEW t \in Tasks, Refresh(t)
      PROVE  RefreshInv'
  <2>1. /\ pc[t] \in {"idle", "get", "look"} /\ Sends(t, cache.refresh)
        /\ cache # None /\ UNCHANGED <<cache, answer, provider>>
    BY <1>3 DEF Refresh
  <2>2. QED
    BY <2>1, SendRefresh
<1>4. ASSUME NEW t \in Tasks, NEW told \in BOOLEAN, NEW renews \in BOOLEAN,
             Grant(t, told, renews)
      PROVE  RefreshInv'
  BY <1>4, GrantRefresh
<1>5. ASSUME NEW t \in Tasks, Receive(t)
      PROVE  RefreshInv'
  BY <1>5, ReceiveRefresh
<1>6. ASSUME NEW t \in Tasks, ReturnCached(t) \/ Refuse(t)
      PROVE  RefreshInv'
  <2>1. /\ pc[t] # "answered"
        /\ pc' = [pc EXCEPT ![t] = "idle"]
        /\ presents' = [presents EXCEPT ![t] = None]
        /\ answer' = [answer EXCEPT ![t] = None]
        /\ UNCHANGED <<cache, valid>> /\ lost \subseteq lost'
    BY <1>6 DEF ReturnCached, Refuse, Returns, provider
  <2>2. QED
    BY <2>1, EndRefresh
<1>7. ASSUME NEW t \in Tasks, FailNetwork(t) \/ Drop(t)
      PROVE  RefreshInv'
  <2>1. /\ pc' = [pc EXCEPT ![t] = "idle"]
        /\ presents' = [presents EXCEPT ![t] = None]
        /\ answer' = [answer EXCEPT ![t] = None]
        /\ UNCHANGED <<cache, valid>> /\ lost \subseteq lost'
        /\ (pc[t] = "answered" /\ presents[t] # None) =>
             presents[t] \in valid \union lost'
    BY <1>7 DEF FailNetwork, Drop, Abandons, Returns
  <2>2. QED
    BY <2>1, EndRefresh
<1>8. CASE Evict
  BY <1>8 DEF Evict, provider, RefreshInv, CachedRefreshWorks, Fresh
<1>9. CASE Tick
  BY <1>9, TickRefresh
<1>10. CASE UNCHANGED vars
  BY <1>10 DEF vars, provider, RefreshInv, CachedRefreshWorks, Fresh
<1>11. QED
  BY <1>1, <1>2, <1>3, <1>4, <1>5, <1>6, <1>7, <1>8, <1>9, <1>10
     DEF Next, Call, Looks, Answers

(* Races of refreshes: whatever callers do at once, in whatever order      *)
(* answers overtake one another, oauth2.rs does not go on caching a        *)
(* refresh token that was used, unless the answer was lost.                *)
THEOREM RefreshHolds == Spec => []CachedRefreshWorks
<1>1. Init => RefreshInv
  BY DEF Init, RefreshInv, CachedRefreshWorks, Fresh
<1>2. RefreshInv => CachedRefreshWorks
  BY DEF RefreshInv
<1>3. QED
  BY <1>1, <1>2, NextRefresh, TypeCorrect, PTL DEF Spec

-----------------------------------------------------------------------------
LEMMA NextAges == TypeOK /\ Ages /\ [Next]_vars => Ages'
<1> SUFFICES ASSUME TypeOK, Ages, [Next]_vars
             PROVE  Ages'
  OBVIOUS
<1>1. ASSUME UNCHANGED cache,
             \A t \in Tasks : answer'[t] = answer[t] \/ answer'[t] = None
      PROVE  Ages'
  BY <1>1 DEF Ages
<1>2. ASSUME NEW t \in Tasks, Call(t) \/ Looks(t) \/ Refuse(t)
      PROVE  Ages'
  <2>1. UNCHANGED cache
    BY <1>2 DEF Call, Looks, GetToken, ClientCredentials, ExchangeCode,
                ReturnCached, Refresh, LookAgain, RequestCredentials, Refuse
  <2>2. UNCHANGED answer \/ answer' = [answer EXCEPT ![t] = None]
    BY <1>2 DEF Call, Looks, GetToken, ClientCredentials, ExchangeCode,
                ReturnCached, Refresh, LookAgain, RequestCredentials, Refuse,
                Returns
  <2>3. QED
    BY <1>1, <2>1, <2>2 DEF TypeOK
<1>3. ASSUME NEW t \in Tasks, FailNetwork(t) \/ Drop(t)
      PROVE  Ages'
  <2>1. UNCHANGED cache /\ answer' = [answer EXCEPT ![t] = None]
    BY <1>3 DEF FailNetwork, Drop, Abandons, Returns
  <2>2. QED
    BY <1>1, <2>1 DEF TypeOK
<1>4. ASSUME NEW t \in Tasks, NEW told \in BOOLEAN, NEW renews \in BOOLEAN,
             Grant(t, told, renews)
      PROVE  Ages'
  <2> DEFINE new == [left |-> Lifetime, delay |-> 0, told |-> told,
                     refresh |-> IF renews THEN NewRefresh ELSE None]
  <2>1. UNCHANGED cache /\ answer' = [answer EXCEPT ![t] = new]
    BY <1>4 DEF Grant
  <2>2. new.left + new.delay = Lifetime
    OBVIOUS
  <2> HIDE DEF new
  <2>3. QED
    BY <2>1, <2>2 DEF Ages, TypeOK
<1>5. ASSUME NEW t \in Tasks, Receive(t)
      PROVE  Ages'
  <2>1. answer[t] # None /\ answer[t].left + answer[t].delay = Lifetime
    BY <1>5 DEF Receive, TypeOK, Ages
  <2>2. /\ cache'.left = answer[t].left /\ cache'.delay = answer[t].delay
        /\ cache'.expires = None \/ cache'.expires = Lifetime
    BY <1>5 DEF Receive
  <2>3. answer' = [answer EXCEPT ![t] = None]
    BY <1>5 DEF Receive, Returns
  <2>4. QED
    BY <2>1, <2>2, <2>3 DEF Ages, TypeOK
<1>6. CASE Evict
  BY <1>6 DEF Evict, Ages
<1>7. CASE Tick
  <2>1. ASSUME NEW t \in Tasks, answer'[t] # None
        PROVE  answer'[t].left + answer'[t].delay = Lifetime
    <3>1. /\ answer[t] # None
          /\ answer'[t].left = answer[t].left - 1
          /\ answer'[t].delay = answer[t].delay + 1
      BY <1>7, <2>1, TickAnswer
    <3>2. answer[t].left \in Int /\ answer[t].delay \in Nat
      BY <3>1 DEF TypeOK, Answer
    <3>3. answer[t].left + answer[t].delay = Lifetime
      BY <3>1 DEF Ages
    <3>4. QED
      BY <3>1, <3>2, <3>3
  <2>2. ASSUME cache' # None, cache'.expires # None, cache'.expires # 0
        PROVE  cache'.left + cache'.delay = cache'.expires
    <3>1. cache # None /\ cache.ttl # 1 /\ cache' = Aged(cache)
      BY <1>7, <2>2 DEF Tick, Aged
    <3>2. /\ cache \in CachedToken /\ cache.left \in Int
          /\ cache.delay \in Nat /\ cache.expires \in Nat \union {None}
      BY <3>1 DEF TypeOK, CachedToken
    <3>3. /\ cache'.left = cache.left - 1 /\ cache'.delay = cache.delay
          /\ cache'.expires = IF cache.expires = None THEN None
                              ELSE Nearer(cache.expires)
      BY <3>1, <3>2 DEF Aged, CachedToken
    <3>4. /\ cache.expires # None /\ cache.expires # 0
          /\ cache'.expires = cache.expires - 1
      BY <2>2, <3>3 DEF Nearer
    <3>5. cache.left + cache.delay = cache.expires
      BY <3>1, <3>4 DEF Ages
    <3>6. QED
      BY <3>2, <3>3, <3>4, <3>5
  <2>3. QED
    BY <2>1, <2>2 DEF Ages
<1>8. CASE UNCHANGED vars
  BY <1>1, <1>8 DEF vars
<1>9. QED
  BY <1>2, <1>3, <1>4, <1>5, <1>6, <1>7, <1>8 DEF Next, Answers

(* is_expired: a token with expires_in that is handed out of the cache has *)
(* life left, or had when its answer set out.                              *)
THEOREM ExpiryHolds == Spec => AliveButForTheWay
<1>1. Init => Ages
  BY DEF Init, Ages
<1>2. ASSUME TypeOK, Ages, NEW t \in Tasks, ReturnCached(t), cache.expires # None
      PROVE  cache.left + cache.delay > 0
  <2>1. cache # None /\ cache.expires # 0
    BY <1>2 DEF ReturnCached, Hit, IsExpired
  <2>2. cache.expires \in Nat
    BY <1>2, <2>1 DEF TypeOK, CachedToken
  <2>3. cache.left + cache.delay = cache.expires
    BY <1>2, <2>1 DEF Ages
  <2>4. QED
    BY <2>1, <2>2, <2>3
<1>3. TypeOK /\ Ages /\ [Next]_vars =>
        [\A t \in Tasks : (ReturnCached(t) /\ cache.expires # None)
                            => cache.left + cache.delay > 0]_vars
  BY <1>2
<1>4. QED
  BY <1>1, <1>3, NextAges, TypeCorrect, PTL DEF Spec, AliveButForTheWay
=============================================================================
