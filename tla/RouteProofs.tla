----------------------------- MODULE RouteProofs ------------------------------
(***************************************************************************)
(* The safety of Routing, Canary and RouteReload, for any rules, requests, *)
(* weights, hash functions and reloads.                                    *)
(*                                                                         *)
(* Of Routing: the matching loop has tried every entry before its cursor   *)
(* and none matched (FirstIsTaken), the entries of a table are its rules   *)
(* in the order of their kinds (TableEntries), and what normalize has made *)
(* of the first n segments are the names that no parent among them cancels *)
(* (Lists).  Of Canary: nothing is chosen while a request is matched, and  *)
(* every roll below the total hits a target (EveryRollHits), the roll      *)
(* between the sums before and after a target that target (RollsOfTarget). *)
(* Of RouteReload: what a reload holds is never newer than the file, what  *)
(* is served never newer than what a reload without rivals holds (Order),  *)
(* and what an untorn reload would store was on disk as a whole            *)
(* (Wholeness).                                                            *)
(*                                                                         *)
(* The lemmas on recursive functions (Sums, Followed) need induction over  *)
(* the numbers, and it is that of NatSetInduction: the set of the numbers  *)
(* for which the claim holds has 0, and with n also n + 1.                 *)
(***************************************************************************)
EXTENDS RouteReload, Canary, SequenceTheorems, FiniteSetTheorems,
        WellFoundedInduction, TLAPS

(* A set of naturals with an element has a least one. *)
LEMMA LeastNatural ==
  ASSUME NEW S \in SUBSET Nat, S # {}
  PROVE  \E n \in S : \A m \in S : n <= m
<1>1. \E n \in S : \A m \in S : ~(<<m, n>> \in OpToRel(<, Nat))
  BY NatLessThanWellFounded, WFMin
<1>2. ASSUME NEW m \in Nat, NEW n \in Nat, m < n
      PROVE  <<m, n>> \in OpToRel(<, Nat)
  <2>1. <<m, n>> \in Nat \X Nat /\ <<m, n>>[1] < <<m, n>>[2]
    BY <1>2
  <2>2. QED
    BY <2>1 DEF OpToRel
<1>3. PICK n \in S : \A m \in S : ~(<<m, n>> \in OpToRel(<, Nat))
  BY <1>1
<1>4. ASSUME NEW m \in S
      PROVE  n <= m
  <2>1. m \in Nat /\ n \in Nat
    OBVIOUS
  <2>2. ~(m < n)
    BY <1>2, <1>3, <2>1
  <2>3. QED
    BY <2>1, <2>2
<1>5. QED
  BY <1>4

(* Induction, of a set: no operator is its parameter. *)
LEMMA NatSetInduction ==
  ASSUME NEW S \in SUBSET Nat, 0 \in S, \A n \in S : n + 1 \in S
  PROVE  S = Nat
<1> SUFFICES ASSUME Nat \ S # {}
             PROVE  FALSE
  OBVIOUS
<1>1. PICK n \in Nat \ S : \A m \in Nat \ S : n <= m
  BY LeastNatural
<1>2. n # 0 /\ n - 1 \in Nat /\ n - 1 < n
  BY <1>1
<1>3. n - 1 \in S
  BY <1>1, <1>2
<1>4. n \in S
  BY <1>2, <1>3
<1>5. QED
  BY <1>1, <1>4

(* And recursion: an initial value and a step for each index define a      *)
(* function.                                                               *)
Steps(m, V) == [1 .. m -> [V -> V]]

Obeys(h, V, v, m, g) ==
  /\ h \in [0 .. m -> V]
  /\ h[0] = v
  /\ \A n \in 1 .. m : h[n] = g[n][h[n - 1]]

LEMMA RecursionExists ==
  ASSUME NEW V, NEW v, NEW m, NEW g, v \in V, m \in Nat, g \in Steps(m, V)
  PROVE  \E h : Obeys(h, V, v, m, g)
<1> DEFINE S == {k \in Nat : k <= m => \E h : Obeys(h, V, v, k, g)}
<1>0. g \in [1 .. m -> [V -> V]]
  BY DEF Steps
<1>1. 0 \in S
  <2> DEFINE h == [n \in 0 .. 0 |-> v]
  <2>1. Obeys(h, V, v, 0, g)
    BY DEF Obeys
  <2>2. QED
    BY <2>1
<1>2. ASSUME NEW k \in S
      PROVE  k + 1 \in S
  <2>1. k \in Nat /\ k + 1 \in Nat
    OBVIOUS
  <2>2. ASSUME k + 1 <= m
        PROVE  \E f : Obeys(f, V, v, k + 1, g)
    <3>1. PICK h : Obeys(h, V, v, k, g)
      BY <2>1, <2>2
    <3> DEFINE f == [n \in 0 .. k + 1 |-> IF n = k + 1 THEN g[k + 1][h[k]] ELSE h[n]]
    <3>2. g[k + 1][h[k]] \in V
      BY <1>0, <2>1, <2>2, <3>1 DEF Obeys
    <3>3. f \in [0 .. k + 1 -> V]
      BY <2>1, <3>1, <3>2 DEF Obeys
    <3>4. f[0] = v
      BY <2>1, <3>1 DEF Obeys
    <3>5. ASSUME NEW n \in 1 .. k + 1
          PROVE  f[n] = g[n][f[n - 1]]
      <4>1. CASE n = k + 1
        <5>1. n - 1 = k /\ k # k + 1 /\ k \in 0 .. k + 1
          BY <2>1, <4>1
        <5>2. QED
          BY <2>1, <4>1, <5>1
      <4>2. CASE n # k + 1
        <5>1. n \in 1 .. k /\ n - 1 # k + 1 /\ n - 1 \in 0 .. k + 1
          BY <2>1, <4>2
        <5>2. QED
          BY <3>1, <4>2, <5>1 DEF Obeys
      <4>3. QED
        BY <4>1, <4>2
    <3>6. Obeys(f, V, v, k + 1, g)
      BY <3>3, <3>4, <3>5 DEF Obeys
    <3>7. QED
      BY <3>6
  <2>3. QED
    BY <2>1, <2>2
<1> HIDE DEF S
<1>3. S = Nat
  <2>1. S \in SUBSET Nat
    BY DEF S
  <2>2. QED
    BY <1>1, <1>2, <2>1, NatSetInduction
<1>4. m \in S
  BY <1>3
<1>5. QED
  BY <1>4 DEF S

(* InOrder lists a finite set by a total order: each element once, at the  *)
(* place that counts what is no later than it.                             *)
LEMMA InOrderLists ==
  ASSUME NEW S, IsFiniteSet(S), NEW order,
         \A x \in S : <<x, x>> \in order,
         \A x, y \in S : <<x, y>> \in order \/ <<y, x>> \in order,
         \A x, y \in S : <<x, y>> \in order /\ <<y, x>> \in order => x = y,
         \A x, y, z \in S : <<x, y>> \in order /\ <<y, z>> \in order => <<x, z>> \in order
  PROVE  LET all == InOrder(S, order)
             n == Cardinality(S)
         IN  /\ n \in Nat
             /\ all \in [1 .. n -> S]
             /\ \A x \in S : \E k \in 1 .. n : all[k] = x
             /\ \A k, l \in 1 .. n : k <= l <=> <<all[k], all[l]>> \in order
             /\ \A k \in 1 .. n : Cardinality({y \in S : <<y, all[k]>> \in order}) = k
             /\ \A x, y \in S : Cardinality({z \in S : <<z, x>> \in order}) =
                                Cardinality({z \in S : <<z, y>> \in order}) => x = y
<1> DEFINE n == Cardinality(S)
           Below(x) == {y \in S : <<y, x>> \in order}
           place == [x \in S |-> Cardinality(Below(x))]
<1>1. n \in Nat
  BY FS_CardinalityType
<1>2. ASSUME NEW x \in S
      PROVE  IsFiniteSet(Below(x)) /\ place[x] \in 1 .. n /\ place[x] \in Nat
  <2>1. Below(x) \in SUBSET S /\ x \in Below(x)
    OBVIOUS
  <2> HIDE DEF Below
  <2>2. IsFiniteSet(Below(x)) /\ Cardinality(Below(x)) <= n /\ Cardinality(Below(x)) \in Nat
    BY <2>1, FS_Subset, FS_CardinalityType
  <2>3. Cardinality(Below(x)) # 0
    BY <2>1, <2>2, FS_EmptySet
  <2>4. QED
    BY <1>1, <2>2, <2>3
<1>3. ASSUME NEW x \in S, NEW y \in S, <<x, y>> \in order, x # y
      PROVE  place[x] < place[y]
  <2>1. Below(x) \in SUBSET Below(y) /\ y \in Below(y) /\ y \notin Below(x)
    BY <1>3
  <2>2. IsFiniteSet(Below(y)) /\ place[x] \in Nat /\ place[y] \in Nat
    BY <1>1, <1>2
  <2> HIDE DEF Below
  <2>3. /\ Cardinality(Below(x)) <= Cardinality(Below(y))
        /\ Cardinality(Below(x)) # Cardinality(Below(y))
    BY <2>1, <2>2, FS_Subset
  <2>4. QED
    BY <2>2, <2>3
<1> HIDE DEF Below
<1>4. ASSUME NEW x \in S, NEW y \in S, place[x] = place[y]
      PROVE  x = y
  <2>1. SUFFICES ASSUME x # y
                 PROVE  FALSE
    OBVIOUS
  <2>2. place[x] \in Nat /\ place[y] \in Nat
    BY <1>1, <1>2
  <2>3. place[x] < place[y] \/ place[y] < place[x]
    <3>1. CASE <<x, y>> \in order
      BY <1>3, <2>1, <3>1
    <3>2. CASE <<y, x>> \in order
      BY <1>3, <2>1, <3>2
    <3>3. QED
      BY <3>1, <3>2
  <2> HIDE DEF place
  <2>4. QED
    BY <1>4, <2>2, <2>3
<1>5. place \in Surjection(S, 1 .. n)
  <2>1. place \in [S -> 1 .. n]
    BY <1>2
  <2>2. place \in Injection(S, 1 .. n)
    BY <1>4, <2>1 DEF Injection, IsInjective
  <2>3. IsFiniteSet(1 .. n) /\ Cardinality(1 .. n) = n
    BY <1>1, FS_Interval, SMTT(20)
  <2>4. QED
    BY <2>2, <2>3, FS_Injection
<1> DEFINE all == InOrder(S, order)
<1>6. ASSUME NEW k \in 1 .. n
      PROVE  all[k] \in S /\ place[all[k]] = k
  <2>1. \E x \in S : place[x] = k
    BY <1>5 DEF Surjection
  <2>2. all[k] = CHOOSE x \in S : Cardinality(Below(x)) = k
    BY DEF InOrder, Below
  <2>3. QED
    BY <2>1, <2>2
<1>7. all \in [1 .. n -> S]
  BY <1>6 DEF InOrder
<1> HIDE DEF all
<1>8. ASSUME NEW x \in S
      PROVE  \E k \in 1 .. n : all[k] = x
  <2>1. place[x] \in 1 .. n
    BY <1>2
  <2>2. place[all[place[x]]] = place[x] /\ all[place[x]] \in S
    BY <1>6, <2>1
  <2>3. QED
    BY <1>4, <2>1, <2>2
<1>9. ASSUME NEW k \in 1 .. n, NEW l \in 1 .. n
      PROVE  k <= l <=> <<all[k], all[l]>> \in order
  <2>1. all[k] \in S /\ all[l] \in S /\ place[all[k]] = k /\ place[all[l]] = l
    BY <1>6
  <2>2. CASE all[k] = all[l]
    BY <2>1, <2>2
  <2>3. CASE all[k] # all[l] /\ <<all[k], all[l]>> \in order
    BY <1>3, <2>1, <2>3
  <2>4. CASE all[k] # all[l] /\ <<all[l], all[k]>> \in order
    <3>1. l < k
      BY <1>3, <2>1, <2>4
    <3>2. ~ (<<all[k], all[l]>> \in order)
      BY <2>1, <2>4
    <3>3. QED
      BY <3>1, <3>2
  <2>5. QED
    BY <2>1, <2>2, <2>3, <2>4
<1>10. \A k \in 1 .. n : Cardinality(Below(all[k])) = k
  BY <1>6
<1>11. \A x, y \in S : Cardinality(Below(x)) = Cardinality(Below(y)) => x = y
  BY <1>4
<1>12. QED
  BY <1>1, <1>7, <1>8, <1>9, <1>10, <1>11 DEF Below, all

(* The same up to a bound.                                                 *)
LEMMA InductionTo ==
  ASSUME NEW m \in Nat, NEW S, 0 \in S,
         \A n \in 0 .. m : n < m /\ n \in S => n + 1 \in S
  PROVE  0 .. m \subseteq S
<1> DEFINE T == {n \in Nat : n <= m => n \in S}
<1>1. T \in SUBSET Nat /\ 0 \in T
  OBVIOUS
<1>2. ASSUME NEW n \in T
      PROVE  n + 1 \in T
  OBVIOUS
<1> HIDE DEF T
<1>3. T = Nat
  BY <1>1, <1>2, NatSetInduction
<1>4. QED
  BY <1>3 DEF T

LEMMA FiniteImage ==
  ASSUME NEW S, IsFiniteSet(S), NEW f, f = [x \in S |-> f[x]]
  PROVE  IsFiniteSet({f[x] : x \in S})
<1> DEFINE T == {f[x] : x \in S}
<1>1. f \in Surjection(S, T)
  BY DEF Surjection
<1> HIDE DEF T
<1>2. IsFiniteSet(T)
  BY <1>1, FS_Surjection
<1>3. QED
  BY <1>2 DEF T

-----------------------------------------------------------------------------
(* Sums, as its definition says, and how it grows.                         *)
LEMMA SumsAdd ==
  ASSUME NEW m \in Nat, NEW a \in [1 .. m -> Nat]
  PROVE  /\ Sums(a) \in [0 .. m -> Nat]
         /\ Sums(a)[0] = 0
         /\ \A n \in 1 .. m : Sums(a)[n] = Sums(a)[n - 1] + a[n]
<1> DEFINE g == [n \in 1 .. m |-> [x \in Nat |-> x + a[n]]]
           R(h) == [n \in 0 .. m |-> IF n = 0 THEN 0 ELSE h[n - 1] + a[n]]
<1>1. 0 \in Nat /\ g \in Steps(m, Nat)
  BY DEF Steps
<1> HIDE DEF g
<1>2. PICK h : Obeys(h, Nat, 0, m, g)
  BY <1>1, RecursionExists
<1>3. Len(a) = m /\ h \in [0 .. m -> Nat]
  BY <1>2 DEF Obeys
<1>4. h = R(h) /\ h[0] = 0 /\ \A n \in 1 .. m : h[n] = h[n - 1] + a[n]
  <2>1. ASSUME NEW n \in 1 .. m
        PROVE  h[n] = h[n - 1] + a[n]
    <3>1. h[n - 1] \in Nat /\ n # 0 /\ n \in 0 .. m
      BY <1>3
    <3>2. g[n][h[n - 1]] = h[n - 1] + a[n]
      BY <3>1 DEF g
    <3>3. QED
      BY <1>2, <3>2 DEF Obeys
  <2>2. h[0] = 0
    BY <1>2 DEF Obeys
  <2>3. \A n \in 0 .. m : h[n] = IF n = 0 THEN 0 ELSE h[n - 1] + a[n]
    BY <2>1, <2>2
  <2>4. QED
    BY <1>3, <2>1, <2>2, <2>3
<1> HIDE DEF R
<1>5. Sums(a) = R(Sums(a))
  BY <1>3, <1>4 DEF Sums, R
<1>6. Sums(a) = [n \in 0 .. m |-> Sums(a)[n]]
  BY <1>5 DEF R
<1>7. 0 .. m \subseteq {n \in 0 .. m : Sums(a)[n] = h[n]}
  <2> DEFINE S == {n \in 0 .. m : Sums(a)[n] = h[n]}
  <2>1. 0 \in S
    BY <1>4, <1>5 DEF R
  <2>2. ASSUME NEW n \in 0 .. m, n < m, n \in S
        PROVE  n + 1 \in S
    <3>1. n + 1 \in 1 .. m /\ n + 1 # 0 /\ (n + 1) - 1 = n /\ n + 1 \in 0 .. m
      BY <2>2
    <3>2. Sums(a)[n + 1] = Sums(a)[(n + 1) - 1] + a[n + 1]
      BY <1>5, <3>1 DEF R
    <3>3. h[n + 1] = h[(n + 1) - 1] + a[n + 1]
      BY <1>4, <3>1
    <3>4. QED
      BY <2>2, <3>1, <3>2, <3>3
  <2> HIDE DEF S
  <2>3. 0 .. m \subseteq S
    BY <2>1, <2>2, InductionTo
  <2>4. QED
    BY <2>3 DEF S
<1>8. Sums(a) = h
  BY <1>3, <1>6, <1>7
<1>9. QED
  BY <1>3, <1>4, <1>8

LEMMA SumsGrow ==
  ASSUME NEW m \in Nat, NEW a \in [1 .. m -> Nat]
  PROVE  \A i, j \in 0 .. m : i <= j => Sums(a)[i] <= Sums(a)[j]
<1> SUFFICES ASSUME NEW i \in 0 .. m
             PROVE  \A j \in 0 .. m : i <= j => Sums(a)[i] <= Sums(a)[j]
  OBVIOUS
<1> DEFINE S == {j \in 0 .. m : i <= j => Sums(a)[i] <= Sums(a)[j]}
<1>1. 0 \in S
  BY SumsAdd
<1>2. ASSUME NEW j \in 0 .. m, j < m, j \in S
      PROVE  j + 1 \in S
  <2>1. j + 1 \in 1 .. m /\ (j + 1) - 1 = j
    BY <1>2
  <2>2. Sums(a)[j + 1] = Sums(a)[(j + 1) - 1] + a[j + 1]
    BY <2>1, SumsAdd
  <2>3. Sums(a) \in [0 .. m -> Nat] /\ a[j + 1] \in Nat
    BY <2>1, SumsAdd
  <2>4. CASE i = j + 1
    BY <2>1, <2>3, <2>4
  <2>5. CASE i # j + 1
    BY <1>2, <2>1, <2>2, <2>3, <2>5
  <2>6. QED
    BY <2>4, <2>5
<1> HIDE DEF S
<1>3. 0 .. m \subseteq S
  BY <1>1, <1>2, InductionTo
<1>4. QED
  BY <1>3 DEF S

LEMMA LeastIsLeast ==
  ASSUME NEW S \in SUBSET Nat, S # {}
  PROVE  Least(S) \in S /\ \A n \in S : Least(S) <= n
BY LeastNatural DEF Least

LEMMA CumulativeGrows ==
  ASSUME NEW I, NEW targets \in Seq([id : I, weight : Nat])
  PROVE  LET m == Len(targets)
         IN  /\ m \in Nat
             /\ Weights(targets) \in [1 .. m -> Nat]
             /\ \A n \in 1 .. m : Weights(targets)[n] = targets[n].weight
             /\ \A n \in 0 .. m : Cumulative(targets, n) \in 0 .. Modulus - 1
             /\ Cumulative(targets, 0) = 0
             /\ \A n \in 1 .. m : targets[n].weight = 0 =>
                  Cumulative(targets, n) = Cumulative(targets, n - 1)
<1> DEFINE m == Len(targets)
<1>1. m \in Nat /\ Modulus \in Nat \ {0}
  BY CanaryAssumption
<1> DEFINE T == [id : I, weight : Nat]
<1>2. \A t \in T : t.weight \in Nat
  OBVIOUS
<1>3. targets \in Seq(T)
  OBVIOUS
<1> HIDE DEF T
<1>4. \A n \in 1 .. m : targets[n].weight \in Nat
  BY <1>2, <1>3
<1>5. /\ Weights(targets) \in [1 .. m -> Nat]
      /\ \A n \in 1 .. m : Weights(targets)[n] = targets[n].weight
  BY <1>4 DEF Weights
<1> DEFINE s == Sums(Weights(targets))
<1>6. /\ s \in [0 .. m -> Nat] /\ s[0] = 0
      /\ \A n \in 1 .. m : s[n] = s[n - 1] + Weights(targets)[n]
  BY <1>1, <1>5, SumsAdd
<1> HIDE DEF s
<1>7. \A n \in 0 .. m : Cumulative(targets, n) = s[n] % Modulus
  BY DEF Cumulative, s
<1>8. ASSUME NEW n \in 0 .. m
      PROVE  Cumulative(targets, n) \in 0 .. Modulus - 1
  BY <1>1, <1>6, <1>7, SMTT(20)
<1>9. Cumulative(targets, 0) = 0
  <2>1. 0 % Modulus = 0
    BY <1>1
  <2>2. QED
    BY <1>1, <1>6, <1>7, <2>1
<1>10. ASSUME NEW n \in 1 .. m, targets[n].weight = 0
       PROVE  Cumulative(targets, n) = Cumulative(targets, n - 1)
  <2>1. n - 1 \in 0 .. m /\ n \in 0 .. m
    BY <1>1
  <2>2. Weights(targets)[n] = 0 /\ s[n - 1] \in Nat
    BY <1>5, <1>6, <1>10, <2>1
  <2>3. s[n] = s[n - 1]
    BY <1>6, <2>2
  <2>4. QED
    BY <1>7, <2>1, <2>3
<1>11. QED
  BY <1>1, <1>5, <1>8, <1>9, <1>10

(* Whatever the weights are, and though they wrap, every roll below their  *)
(* total hits a target.                                                    *)
LEMMA EveryRollHits ==
  ASSUME NEW I, NEW targets \in Seq([id : I, weight : Nat]),
         NEW roll \in Nat, roll < Total(targets)
  PROVE  Hits(targets, roll) # {}
<1> SUFFICES ASSUME Hits(targets, roll) = {}
             PROVE  FALSE
  OBVIOUS
<1> DEFINE m == Len(targets)
           S == {n \in 0 .. m : Cumulative(targets, n) <= roll}
<1>1. /\ m \in Nat
      /\ \A n \in 0 .. m : Cumulative(targets, n) \in 0 .. Modulus - 1
      /\ Cumulative(targets, 0) = 0
      /\ \A n \in 1 .. m : targets[n].weight = 0 =>
           Cumulative(targets, n) = Cumulative(targets, n - 1)
  BY CumulativeGrows
<1>2. 0 \in S
  BY <1>1
<1>3. ASSUME NEW n \in 0 .. m, n < m, n \in S
      PROVE  n + 1 \in S
  <2>1. n + 1 \in 1 .. m /\ (n + 1) - 1 = n /\ n + 1 \in 0 .. m
    BY <1>1, <1>3
  <2>2. CASE targets[n + 1].weight = 0
    <3>1. Cumulative(targets, n + 1) = Cumulative(targets, (n + 1) - 1)
      BY <1>1, <2>1, <2>2
    <3>2. QED
      BY <1>3, <2>1, <3>1
  <2>3. CASE targets[n + 1].weight # 0
    <3>1. ~(roll < Cumulative(targets, n + 1))
      BY <2>1, <2>3 DEF Hits
    <3>2. Cumulative(targets, n + 1) \in 0 .. Modulus - 1
      BY <1>1, <2>1
    <3>3. QED
      BY <2>1, <3>1, <3>2
  <2>4. QED
    BY <2>2, <2>3
<1> HIDE DEF S
<1>4. 0 .. m \subseteq S
  BY <1>1, <1>2, <1>3, InductionTo
<1>5. Total(targets) <= roll
  BY <1>1, <1>4 DEF S, Total
<1>6. Total(targets) \in 0 .. Modulus - 1
  BY <1>1 DEF Total
<1>7. QED
  BY <1>5, <1>6

(* The target it selects is the first hit, and takes traffic.              *)
LEMMA SelectedTakes ==
  ASSUME NEW I, NEW targets \in Seq([id : I, weight : Nat]),
         NEW roll \in Nat, roll < Total(targets)
  PROVE  LET n == Least(Hits(targets, roll))
         IN  /\ n \in Hits(targets, roll)
             /\ \A k \in Hits(targets, roll) : n <= k
             /\ n \in 1 .. Len(targets) /\ targets[n].weight # 0
             /\ SelectCanaryTarget(targets, roll) = targets[n].id
<1>1. Hits(targets, roll) # {} /\ Hits(targets, roll) \in SUBSET Nat
  <2>1. Hits(targets, roll) # {}
    BY EveryRollHits
  <2>2. QED
    BY <2>1 DEF Hits
<1>2. /\ Least(Hits(targets, roll)) \in Hits(targets, roll)
      /\ \A k \in Hits(targets, roll) : Least(Hits(targets, roll)) <= k
  BY <1>1, LeastIsLeast
<1>3. QED
  BY <1>1, <1>2 DEF Hits, SelectCanaryTarget

(* The rules, their targets and the upstreams of a table are sequences.    *)
LEMMA RulesAreListed ==
  ASSUME NEW rules \in Tables \union {Initial}
  PROVE  /\ Len(rules) \in Nat
         /\ DOMAIN rules = 1 .. Len(rules)
         /\ \A i \in 1 .. Len(rules) :
              /\ rules[i].to.upstream \in DOMAIN NodeHash \union {"none"}
              /\ rules[i].to.targets \in Seq([id : DOMAIN NodeHash, weight : Nat])
<1>1. rules \in Seq(ToSet(rules))
  BY RoutingAssumption
<1>2. Len(rules) \in Nat /\ DOMAIN rules = 1 .. Len(rules)
  BY <1>1
<1>3. QED
  BY <1>2, CanaryAssumption

LEMMA TargetIds ==
  ASSUME NEW I, NEW targets \in Seq([id : I, weight : Nat])
  PROVE  /\ Len(targets) \in Nat
         /\ \A i \in 1 .. Len(targets) : targets[i].id \in I /\ targets[i].weight \in Nat
<1> DEFINE T == [id : I, weight : Nat]
<1>1. \A t \in T : t.id \in I /\ t.weight \in Nat
  OBVIOUS
<1>2. targets \in Seq(T)
  OBVIOUS
<1> HIDE DEF T
<1>3. QED
  BY <1>1, <1>2

LEMMA TargetsAreListed ==
  ASSUME NEW rules \in Tables \union {Initial}, NEW i \in DOMAIN rules
  PROVE  LET ids == Targets(rules[i].to)
         IN  /\ Len(ids) \in Nat
             /\ ids \in [1 .. Len(ids) -> DOMAIN NodeHash \union {"none"}]
<1> DEFINE to == rules[i].to
           Ids == DOMAIN NodeHash \union {"none"}
<1>1. to.upstream \in Ids /\ to.targets \in Seq([id : DOMAIN NodeHash, weight : Nat])
  BY RulesAreListed
<1> HIDE DEF to
<1>2. CASE to.targets = << >>
  <2>1. Targets(to) = <<to.upstream>>
    BY <1>2 DEF Targets
  <2>2. QED
    BY <1>1, <2>1 DEF to
<1>3. CASE to.targets # << >>
  <2> DEFINE ids == [n \in DOMAIN to.targets |-> to.targets[n].id]
             m == Len(to.targets)
  <2>1. /\ m \in Nat
        /\ DOMAIN to.targets = 1 .. m
        /\ \A n \in 1 .. m : to.targets[n].id \in DOMAIN NodeHash
    BY <1>1, TargetIds
  <2>2. ids \in [1 .. m -> Ids]
    BY <2>1
  <2>3. Targets(to) = ids
    BY <1>3 DEF Targets
  <2>4. Len(ids) = m
    BY <2>1, <2>2
  <2>5. QED
    BY <2>1, <2>2, <2>3, <2>4 DEF to
<1>4. QED
  BY <1>2, <1>3

LEMMA UpstreamsAreListed ==
  ASSUME NEW rules \in Tables \union {Initial}
  PROVE  LET upstreams == Upstreams(rules)
         IN  /\ Len(upstreams) \in Nat
             /\ upstreams \in [1 .. Len(upstreams) -> DOMAIN NodeHash]
<1> DEFINE Id(p) == Targets(rules[p[1]].to)[p[2]]
           Before(p, q) == p[1] < q[1] \/ (p[1] = q[1] /\ p[2] <= q[2])
           from == [i \in DOMAIN rules |-> {i} \X DOMAIN Targets(rules[i].to)]
           all == UNION {{i} \X DOMAIN Targets(rules[i].to) : i \in DOMAIN rules}
           first == {p \in all : Id(p) # "none" /\ \A q \in all : Id(q) = Id(p) => Before(p, q)}
           before == {pair \in first \X first : Before(pair[1], pair[2])}
           places == InOrder(first, before)
<1>1. Len(rules) \in Nat /\ DOMAIN rules = 1 .. Len(rules)
  BY RulesAreListed
<1>2. \A i \in DOMAIN rules :
        LET ids == Targets(rules[i].to)
        IN  /\ Len(ids) \in Nat
            /\ ids \in [1 .. Len(ids) -> DOMAIN NodeHash \union {"none"}]
  BY TargetsAreListed
<1>3. IsFiniteSet(all)
  <2>1. IsFiniteSet(DOMAIN rules)
    BY <1>1, FS_Interval, SMTT(20)
  <2>2. IsFiniteSet({from[i] : i \in DOMAIN rules})
    <3>1. from = [i \in DOMAIN rules |-> from[i]]
      OBVIOUS
    <3> HIDE DEF from
    <3>2. QED
      BY <2>1, <3>1, FiniteImage
  <2>3. ASSUME NEW i \in DOMAIN rules
        PROVE  IsFiniteSet(from[i])
    <3>1. IsFiniteSet({i})
      BY FS_Singleton
    <3>2. IsFiniteSet(DOMAIN Targets(rules[i].to))
      <4>1. /\ Len(Targets(rules[i].to)) \in Int
            /\ DOMAIN Targets(rules[i].to) = 1 .. Len(Targets(rules[i].to))
        BY <1>2
      <4>2. QED
        BY <4>1, FS_Interval, SMTT(20)
    <3>3. QED
      BY <3>1, <3>2, FS_Product
  <2>4. \A T \in {from[i] : i \in DOMAIN rules} : IsFiniteSet(T)
    BY <2>3
  <2>5. IsFiniteSet(UNION {from[i] : i \in DOMAIN rules})
    <3> HIDE DEF from
    <3>1. QED
      BY <2>2, <2>4, FS_UNION
  <2>6. all = UNION {from[i] : i \in DOMAIN rules}
    OBVIOUS
  <2>7. QED
    BY <2>5, <2>6
<1>4. ASSUME NEW p \in all
      PROVE  /\ p = <<p[1], p[2]>> /\ p[1] \in Nat /\ p[2] \in Nat
             /\ Id(p) \in DOMAIN NodeHash \union {"none"}
  <2>1. PICK i \in DOMAIN rules : p \in {i} \X DOMAIN Targets(rules[i].to)
    OBVIOUS
  <2>2. p = <<p[1], p[2]>> /\ p[1] = i /\ p[2] \in DOMAIN Targets(rules[i].to)
    BY <2>1
  <2>3. QED
    BY <1>1, <1>2, <2>2
<1>5. IsFiniteSet(first) /\ first \in SUBSET all
  <2>1. first \in SUBSET all
    OBVIOUS
  <2> HIDE DEF first, all
  <2>2. QED
    BY <1>3, <2>1, FS_Subset
<1>6. /\ \A x \in first : <<x, x>> \in before
      /\ \A x, y \in first : <<x, y>> \in before \/ <<y, x>> \in before
      /\ \A x, y \in first : <<x, y>> \in before /\ <<y, x>> \in before => x = y
      /\ \A x, y, z \in first : <<x, y>> \in before /\ <<y, z>> \in before => <<x, z>> \in before
  <2>1. \A x, y \in first : <<x, y>> \in before <=> Before(x, y)
    <3> HIDE DEF first
    <3>1. QED
      OBVIOUS
  <2>2. \A x \in first : x = <<x[1], x[2]>> /\ x[1] \in Nat /\ x[2] \in Nat
    BY <1>4, <1>5
  <2> HIDE DEF first, before
  <2>3. QED
    BY <2>1, <2>2
<1>7. /\ Cardinality(first) \in Nat
      /\ places \in [1 .. Cardinality(first) -> first]
  <2> HIDE DEF first, before
  <2>1. QED
    BY <1>5, <1>6, InOrderLists
<1>8. \A p \in first : Id(p) \in DOMAIN NodeHash
  BY <1>4
<1>9. Upstreams(rules) = [n \in DOMAIN places |-> Id(places[n])]
  BY DEF Upstreams
<1> HIDE DEF places, first, Id
<1>10. Upstreams(rules) \in [1 .. Cardinality(first) -> DOMAIN NodeHash]
  BY <1>7, <1>8, <1>9
<1>11. Len(Upstreams(rules)) = Cardinality(first)
  BY <1>7, <1>10
<1>12. QED
  BY <1>7, <1>10, <1>11

-----------------------------------------------------------------------------
(* A table's entries are its rules, each compiled once, in the order of    *)
(* their kinds and of their registration.                                  *)
Precedes(es, i, j) ==
  \/ Priority(es[i].kind) < Priority(es[j].kind)
  \/ Priority(es[i].kind) = Priority(es[j].kind) /\ i <= j

SortedBy(es, s, m, order) ==
  /\ order \in [1 .. m -> 1 .. m]
  /\ DOMAIN s = 1 .. m /\ Len(s) = m
  /\ \A n \in 1 .. m : s[n] = es[order[n]]
  /\ \A i \in 1 .. m : \E n \in 1 .. m : order[n] = i
  /\ \A k, l \in 1 .. m : k <= l <=> Precedes(es, order[k], order[l])

LEMMA FirstNumbers ==
  ASSUME NEW m \in Nat
  PROVE  IsFiniteSet(1 .. m) /\ Cardinality(1 .. m) = m
<1>1. 1 \in Int /\ m \in Int
  OBVIOUS
<1>2. IsFiniteSet(1 .. m) /\ Cardinality(1 .. m) = IF 1 > m THEN 0 ELSE m - 1 + 1
  BY ONLY <1>1, FS_Interval
<1>3. QED
  BY <1>2

LEMMA EntriesAreSorted ==
  ASSUME NEW rules \in Tables \union {Initial}
  PROVE  \E order : SortedBy(CompileAll(rules), Sorted(CompileAll(rules)), Len(rules), order)
<1> DEFINE es == CompileAll(rules)
           m == Len(rules)
           places == 1 .. m
           Kind(i) == Priority(es[i].kind)
           before == {p \in places \X places :
                        Kind(p[1]) < Kind(p[2]) \/ (Kind(p[1]) = Kind(p[2]) /\ p[1] <= p[2])}
           order == InOrder(places, before)
<1>1. m \in Nat
  BY RulesAreListed
<1>2. DOMAIN es = places
  BY DEF CompileAll
<1>3. \A i \in places : es[i].kind \in {"exact", "prefix", "regex"}
  BY DEF CompileAll, Compile
<1>4. \A i \in places : Kind(i) \in Nat
  BY <1>3 DEF Priority
<1>5. IsFiniteSet(places) /\ Cardinality(places) = m
  BY ONLY <1>1, FirstNumbers
<1> HIDE DEF es
<1>6. /\ \A x \in places : <<x, x>> \in before
      /\ \A x, y \in places : <<x, y>> \in before \/ <<y, x>> \in before
      /\ \A x, y \in places : <<x, y>> \in before /\ <<y, x>> \in before => x = y
      /\ \A x, y, z \in places : <<x, y>> \in before /\ <<y, z>> \in before => <<x, z>> \in before
  <2>1. \A x, y \in places : <<x, y>> \in before <=> Precedes(es, x, y)
    BY DEF Precedes
  <2>2. \A x, y \in places : Precedes(es, x, y) <=>
          Kind(x) < Kind(y) \/ (Kind(x) = Kind(y) /\ x <= y)
    BY DEF Precedes
  <2>3. \A x \in places : x \in Nat
    BY <1>1
  <2> HIDE DEF before, places, Kind
  <2>4. QED
    BY <1>4, <2>1, <2>2, <2>3
<1>7. \A x, y \in places : <<x, y>> \in before <=> Precedes(es, x, y)
  BY DEF Precedes
<1>8. Sorted(es) = [n \in places |-> es[order[n]]]
  BY <1>2 DEF Sorted
<1> HIDE DEF before, places
<1>9. /\ order \in [1 .. m -> places]
      /\ \A x \in places : \E k \in 1 .. m : order[k] = x
      /\ \A k, l \in 1 .. m : k <= l <=> <<order[k], order[l]>> \in before
  BY <1>5, <1>6, InOrderLists
<1> HIDE DEF order
<1> USE DEF places
<1>10. /\ DOMAIN Sorted(es) = 1 .. m /\ Len(Sorted(es)) = m
       /\ \A n \in 1 .. m : Sorted(es)[n] = es[order[n]]
  BY <1>1, <1>8
<1>11. SortedBy(es, Sorted(es), m, order)
  BY <1>7, <1>9, <1>10 DEF SortedBy
<1>12. QED
  BY <1>11 DEF es

-----------------------------------------------------------------------------
IsTable(t) ==
  \E rules \in Tables \union {Initial} :
    /\ \A i \in DOMAIN rules : Compiles(rules[i])
    /\ t = TableOf(rules)

(* Does the table try entry e no later than entry f? *)
TriedBefore(e, f) ==
  \/ Priority(e.kind) < Priority(f.kind)
  \/ Priority(e.kind) = Priority(f.kind) /\ e.index <= f.index

LEMMA TableEntries ==
  ASSUME NEW t, IsTable(t)
  PROVE  LET m == Len(t.rules)
             e == t.compiled
         IN  /\ m \in Nat
             /\ t.rules \in Tables \union {Initial}
             /\ DOMAIN t.rules = 1 .. m
             /\ \A i \in 1 .. m : Compiles(t.rules[i])
             /\ DOMAIN e = 1 .. m /\ Len(e) = m
             /\ \A n \in 1 .. m : /\ e[n].index \in 1 .. m
                                  /\ e[n] = Compile(t.rules[e[n].index], e[n].index)
             /\ \A i \in 1 .. m : \E n \in 1 .. m : e[n].index = i
             /\ \A k, l \in 1 .. m : k <= l <=> TriedBefore(e[k], e[l])
<1>1. PICK rules \in Tables \union {Initial} :
        /\ \A i \in DOMAIN rules : Compiles(rules[i])
        /\ t = TableOf(rules)
  BY DEF IsTable
<1>2. t.rules = rules /\ t.compiled = Sorted(CompileAll(rules))
  BY <1>1 DEF TableOf
<1> DEFINE m == Len(rules)
           es == CompileAll(rules)
           e == t.compiled
<1>3. m \in Nat /\ DOMAIN rules = 1 .. m
  BY RulesAreListed
<1>4. PICK order : SortedBy(es, e, m, order)
  BY <1>2, EntriesAreSorted
<1>5. \A i \in 1 .. m : es[i] = Compile(rules[i], i) /\ es[i].index = i
  BY DEF CompileAll, Compile
<1> HIDE DEF es, e
<1>6. \A n \in 1 .. m : order[n] \in 1 .. m /\ e[n] = es[order[n]]
  BY <1>4 DEF SortedBy
<1>7. \A n \in 1 .. m : e[n].index = order[n] /\ e[n] = Compile(rules[order[n]], order[n])
  BY <1>5, <1>6
<1>8. DOMAIN e = 1 .. m /\ Len(e) = m
  BY <1>4 DEF SortedBy
<1>9. \A i \in 1 .. m : \E n \in 1 .. m : e[n].index = i
  <2>1. \A i \in 1 .. m : \E n \in 1 .. m : order[n] = i
    BY <1>4 DEF SortedBy
  <2>2. \A n \in 1 .. m : e[n].index = order[n]
    BY <1>7
  <2>3. QED
    BY <2>1, <2>2
<1>10. \A k, l \in 1 .. m : k <= l <=> TriedBefore(e[k], e[l])
  <2>1. \A k, l \in 1 .. m : k <= l <=> Precedes(es, order[k], order[l])
    BY <1>4 DEF SortedBy
  <2>2. \A k, l \in 1 .. m : Precedes(es, order[k], order[l]) <=> TriedBefore(e[k], e[l])
    BY <1>6, <1>7 DEF Precedes, TriedBefore
  <2>3. QED
    BY <2>1, <2>2
<1>11. \A n \in 1 .. m : e[n].index \in 1 .. m /\ e[n] = Compile(rules[e[n].index], e[n].index)
  BY <1>6, <1>7
<1>12. QED
  BY <1>1, <1>2, <1>3, <1>8, <1>9, <1>10, <1>11 DEF e

-----------------------------------------------------------------------------
(* The matching loop: what was tried before the cursor does not match, and *)
(* the result is the first entry that does.                                *)
Matches(n) == FullMatch(snapshot.compiled[n], snapshot.rules, request)

FirstIsTaken ==
  /\ cursor \in 0 .. Len(snapshot.rules) + 1
  /\ result \in 0 .. Len(snapshot.rules)
  /\ cursor # 0 => result = 0 /\ \A n \in 1 .. cursor - 1 : ~Matches(n)
  /\ (cursor = 0 /\ request # << >> /\ result = 0) =>
       \A n \in 1 .. Len(snapshot.rules) : ~Matches(n)
  /\ result # 0 =>
       \E n \in 1 .. Len(snapshot.rules) :
         /\ snapshot.compiled[n].index = result
         /\ Matches(n)
         /\ \A k \in 1 .. n - 1 : ~Matches(k)

RoutingInv ==
  /\ IsTable(table)
  /\ IsTable(snapshot)
  /\ request \in Requests \union {<< >>}
  /\ FirstIsTaken

LEMMA RoutingInitInv == RoutingInit => RoutingInv
<1> SUFFICES ASSUME RoutingInit
             PROVE  RoutingInv
  OBVIOUS
<1>1. IsTable(table) /\ IsTable(snapshot)
  <2>1. \A i \in DOMAIN Initial : Compiles(Initial[i])
    BY RoutingAssumption
  <2>2. QED
    BY <2>1 DEF RoutingInit, IsTable
<1>2. Len(snapshot.rules) \in Nat
  BY <1>1, TableEntries
<1>3. FirstIsTaken
  BY <1>2 DEF RoutingInit, FirstIsTaken
<1>4. QED
  BY <1>1, <1>3 DEF RoutingInit, RoutingInv

LEMMA RoutingStepInv == RoutingInv /\ [RoutingNext]_routingVars => RoutingInv'
<1> SUFFICES ASSUME RoutingInv, [RoutingNext]_routingVars
             PROVE  RoutingInv'
  OBVIOUS
<1> DEFINE m == Len(snapshot.rules)
<1>1. /\ m \in Nat /\ Len(snapshot.compiled) = m /\ DOMAIN snapshot.compiled = 1 .. m
      /\ \A n \in 1 .. m : snapshot.compiled[n].index \in 1 .. m
  BY TableEntries DEF RoutingInv
<1>2. ASSUME NEW rules \in Tables, Build(rules)
      PROVE  RoutingInv'
  <2>1. IsTable(table')
    BY <1>2 DEF Build, RoutingInv, IsTable
  <2>2. UNCHANGED <<request, snapshot, cursor, result>>
    BY <1>2 DEF Build
  <2>3. QED
    BY <2>1, <2>2 DEF RoutingInv, FirstIsTaken, Matches
<1>3. ASSUME NEW r \in Requests, Receive(r)
      PROVE  RoutingInv'
  <2>1. /\ snapshot' = table /\ cursor' = 1 /\ result' = 0 /\ table' = table
        /\ request' \in Requests
    BY <1>3 DEF Receive
  <2>2. Len(snapshot'.rules) \in Nat
    BY <2>1, TableEntries DEF RoutingInv
  <2>3. FirstIsTaken'
    BY <2>1, <2>2 DEF FirstIsTaken
  <2>4. QED
    BY <2>1, <2>3 DEF RoutingInv
<1>4. CASE Try
  <2>1. UNCHANGED <<table, builds, request, snapshot>> /\ cursor \in 1 .. m
    BY <1>1, <1>4 DEF Try
  <2>2. \A n : Matches(n)' <=> Matches(n)
    BY <2>1 DEF Matches
  <2>3. result = 0 /\ \A n \in 1 .. cursor - 1 : ~Matches(n)
    BY <2>1 DEF RoutingInv, FirstIsTaken
  <2>4. CASE Matches(cursor)
    <3>1. result' = snapshot.compiled[cursor].index /\ cursor' = 0
      BY <1>4, <2>4 DEF Try, Matches
    <3>2. result' \in 1 .. m
      BY <1>1, <2>1, <3>1
    <3>3. FirstIsTaken'
      BY <1>1, <2>1, <2>2, <2>3, <2>4, <3>1, <3>2 DEF FirstIsTaken
    <3>4. QED
      BY <2>1, <3>3 DEF RoutingInv
  <2>5. CASE ~Matches(cursor)
    <3>1. result' = 0 /\ cursor' = cursor + 1
      BY <1>4, <2>3, <2>5 DEF Try, Matches
    <3>2. \A n \in 1 .. cursor' - 1 : ~Matches(n)'
      BY <2>1, <2>2, <2>3, <2>5, <3>1
    <3>3. FirstIsTaken'
      BY <1>1, <2>1, <3>1, <3>2 DEF FirstIsTaken
    <3>4. QED
      BY <2>1, <3>3 DEF RoutingInv
  <2>6. QED
    BY <2>4, <2>5
<1>5. CASE Miss
  <2>1. /\ UNCHANGED <<table, builds, request, snapshot, result>>
        /\ cursor = m + 1 /\ cursor' = 0
    BY <1>1, <1>5 DEF Miss
  <2>2. \A n : Matches(n)' <=> Matches(n)
    BY <2>1 DEF Matches
  <2>3. result = 0 /\ \A n \in 1 .. m : ~Matches(n)
    BY <1>1, <2>1 DEF RoutingInv, FirstIsTaken
  <2>4. FirstIsTaken'
    BY <1>1, <2>1, <2>2, <2>3 DEF FirstIsTaken
  <2>5. QED
    BY <2>1, <2>4 DEF RoutingInv
<1>6. CASE UNCHANGED routingVars
  BY <1>6 DEF RoutingInv, FirstIsTaken, Matches, routingVars
<1>7. QED
  BY <1>2, <1>3, <1>4, <1>5, <1>6 DEF RoutingNext

(* The table's entries and the matching loop, at every moment.             *)
THEOREM RoutingInvariant == RoutingSpec => []RoutingInv
<1>1. QED
  BY RoutingInitInv, RoutingStepInv, PTL DEF RoutingSpec

LEMMA CanaryStepsRoute == [CanaryNext]_canaryVars => [RoutingNext]_routingVars
<1> SUFFICES ASSUME [CanaryNext]_canaryVars
             PROVE  [RoutingNext]_routingVars
  OBVIOUS
<1>1. CASE \E rules \in Tables : Build(rules) /\ ring' = RingOf(Upstreams(table'.rules))
                                 /\ UNCHANGED <<chosen, steered>>
  BY <1>1 DEF RoutingNext
<1>2. CASE \E r \in Requests : Receive(r) /\ chosen' = "pending" /\ steered' = "pending"
                               /\ UNCHANGED ring
  BY <1>2 DEF RoutingNext
<1>3. CASE Try \/ Miss
  BY <1>3 DEF RoutingNext
<1>4. CASE \E roll \in 0 .. Modulus - 1 : Resolve(roll)
  BY <1>4 DEF Resolve
<1>5. CASE Steer
  BY <1>5 DEF Steer
<1>6. CASE UNCHANGED canaryVars
  BY <1>6 DEF canaryVars
<1>7. QED
  BY <1>1, <1>2, <1>3, <1>4, <1>5, <1>6 DEF CanaryNext

(* Whatever CanaryRouter and resolve_route do, to the matching it is the   *)
(* route table alone.                                                      *)
THEOREM CanaryIsRouting == CanarySpec => RoutingSpec
<1>1. CanaryInit => RoutingInit
  BY DEF CanaryInit
<1>2. QED
  BY <1>1, CanaryStepsRoute, PTL DEF CanarySpec, RoutingSpec

-----------------------------------------------------------------------------
(* While a request is matched, nothing is chosen for it yet.               *)
NothingChosenYet ==
  cursor # 0 => chosen = "pending" /\ steered = "pending"

ChosenInv ==
  /\ RoutingInv
  /\ NothingChosenYet
  /\ ChosenIsOffered

LEMMA MatchedRule ==
  ASSUME RoutingInv, result # 0
  PROVE  /\ snapshot.rules \in Tables \union {Initial}
         /\ result \in DOMAIN snapshot.rules
         /\ snapshot.rules[result].to.targets \in Seq([id : DOMAIN NodeHash, weight : Nat])
<1>1. /\ snapshot.rules \in Tables \union {Initial}
      /\ Len(snapshot.rules) \in Nat
      /\ DOMAIN snapshot.rules = 1 .. Len(snapshot.rules)
  BY TableEntries DEF RoutingInv
<1>2. result \in 1 .. Len(snapshot.rules)
  BY <1>1 DEF RoutingInv, FirstIsTaken
<1>3. QED
  BY <1>1, <1>2, RulesAreListed

(* The route's draw: one of the rule's own targets that takes traffic.     *)
LEMMA DrawIsTaking ==
  ASSUME NEW I, NEW to, to.targets \in Seq([id : I, weight : Nat]),
         NEW roll \in Nat, roll < (IF Total(to.targets) = 0 THEN 1 ELSE Total(to.targets)),
         NEW drawn,
         drawn = IF to.targets # << >> /\ Total(to.targets) = 0 THEN "error"
                 ELSE ResolveUpstream(to, roll)
  PROVE  LET taking == IF to.targets = << >> THEN {to.upstream}
                       ELSE {t.id : t \in {t \in ToSet(to.targets) : t.weight > 0}}
         IN  /\ drawn # "error" => drawn \in taking \intersect UpstreamIds
             /\ drawn = "error" =>
                  \/ to.targets # << >> /\ Total(to.targets) = 0
                  \/ ~(ToSet(Targets(to)) \subseteq UpstreamIds)
<1>1. CASE to.targets = << >>
  <2>1. drawn = Known(to.upstream)
    BY <1>1 DEF ResolveUpstream
  <2>2. to.upstream \in ToSet(Targets(to))
    <3>1. Targets(to) = <<to.upstream>>
      BY <1>1 DEF Targets
    <3>2. DOMAIN <<to.upstream>> = {1} /\ <<to.upstream>>[1] = to.upstream
      OBVIOUS
    <3>3. QED
      BY <3>1, <3>2 DEF ToSet
  <2>3. QED
    BY <1>1, <2>1, <2>2, CanaryAssumption DEF Known
<1>2. CASE to.targets # << >> /\ Total(to.targets) = 0
  BY <1>2
<1>3. CASE to.targets # << >> /\ Total(to.targets) # 0
  <2> DEFINE targets == to.targets
             n == Least(Hits(targets, roll))
  <2>1. roll < Total(targets)
    BY <1>3
  <2>2. /\ n \in 1 .. Len(targets) /\ targets[n].weight # 0
        /\ SelectCanaryTarget(targets, roll) = targets[n].id
    BY <2>1, SelectedTakes
  <2>3. drawn = Known(targets[n].id)
    BY <1>3, <2>2 DEF ResolveUpstream
  <2>4. Len(targets) \in Nat /\ DOMAIN targets = 1 .. Len(targets)
    OBVIOUS
  <2>5. targets[n].weight \in Nat
    BY <2>2, TargetIds
  <2> HIDE DEF n
  <2>6. targets[n] \in ToSet(targets) /\ targets[n].weight > 0
    BY <2>2, <2>4, <2>5 DEF ToSet
  <2>7. targets[n].id \in {t.id : t \in {t \in ToSet(targets) : t.weight > 0}}
    BY <2>6
  <2>8. targets[n].id \in ToSet(Targets(to))
    <3>1. Targets(to) = [i \in 1 .. Len(targets) |-> targets[i].id]
      BY <1>3, <2>4 DEF Targets
    <3>2. DOMAIN Targets(to) = 1 .. Len(targets) /\ Targets(to)[n] = targets[n].id
      BY <2>2, <3>1
    <3>3. QED
      BY <2>2, <3>2 DEF ToSet
  <2>9. QED
    BY <1>3, <2>3, <2>7, <2>8, CanaryAssumption DEF Known
<1>4. QED
  BY <1>1, <1>2, <1>3

(* A policy, or a session, picks an index within what it is offered.       *)
LEMMA PicksAreOffered ==
  ASSUME NEW I, NEW upstreams, Len(upstreams) \in Nat,
         upstreams \in [1 .. Len(upstreams) -> I],
         NEW policy \in Policies(Len(upstreams)),
         NEW cookies \in {{}} \union {{s} : s \in Sessions},
         NEW pick \in RouterPicks(policy, cookies, upstreams)
  PROVE  pick \in IF ToSet(upstreams) = {} THEN {"error"} ELSE ToSet(upstreams)
<1> DEFINE n == Len(upstreams)
           indices == IF cookies = {} THEN policy ELSE {StickyIndex(s, n) : s \in cookies}
<1>1. PICK i \in indices : pick = IF i < n THEN upstreams[i + 1] ELSE "error"
  BY DEF RouterPicks
<1>2. i \in Nat /\ (n # 0 => i < n)
  <2>1. CASE cookies = {}
    <3>1. i \in policy
      BY <1>1, <2>1
    <3>2. CASE \E primary \in {0, 60, 100} : policy = WeightPolicy(primary, n)
      BY <3>1, <3>2 DEF WeightPolicy
    <3>3. CASE \E matches \in BOOLEAN, target \in 0 .. 2 :
                 policy = HeaderPolicy(matches, target, n)
      BY <3>1, <3>3 DEF HeaderPolicy
    <3>4. CASE \E matches \in BOOLEAN, target \in 0 .. 2 :
                 policy = CookiePolicy(matches, target, n)
      BY <3>1, <3>4 DEF CookiePolicy
    <3>5. QED
      BY <3>2, <3>3, <3>4 DEF Policies
  <2>2. CASE cookies # {}
    <3>1. PICK s \in Sessions : cookies = {s}
      BY <2>2
    <3>2. i = StickyIndex(s, n) /\ s \in Nat
      BY <1>1, <2>2, <3>1, CanaryAssumption
    <3>3. QED
      BY <3>2 DEF StickyIndex
  <2>3. QED
    BY <2>1, <2>2
<1> HIDE DEF indices
<1>3. CASE n = 0
  <2>1. pick = "error"
    BY <1>1, <1>2, <1>3
  <2>2. DOMAIN upstreams = {}
    BY <1>3
  <2>3. ToSet(upstreams) = {}
    BY <2>2 DEF ToSet
  <2>4. QED
    BY <2>1, <2>3
<1>4. CASE n # 0
  <2>1. i + 1 \in 1 .. n /\ pick = upstreams[i + 1]
    BY <1>1, <1>2, <1>4
  <2>2. DOMAIN upstreams = 1 .. n
    OBVIOUS
  <2>3. pick \in ToSet(upstreams)
    BY <2>1, <2>2 DEF ToSet
  <2>4. QED
    BY <2>3
<1>5. QED
  BY <1>3, <1>4

LEMMA ChosenStepInv == ChosenInv /\ [CanaryNext]_canaryVars => ChosenInv'
<1> SUFFICES ASSUME ChosenInv, [CanaryNext]_canaryVars
             PROVE  ChosenInv'
  OBVIOUS
<1>1. RoutingInv /\ RoutingInv'
  BY CanaryStepsRoute, RoutingStepInv DEF ChosenInv
<1>2. ASSUME NEW rules \in Tables, Build(rules), UNCHANGED <<chosen, steered>>
      PROVE  ChosenInv'
  <2>1. UNCHANGED <<request, snapshot, cursor, result, chosen, steered>>
    BY <1>2 DEF Build
  <2>2. QED
    BY <1>1, <2>1 DEF ChosenInv, NothingChosenYet, ChosenIsOffered
<1>3. ASSUME NEW r \in Requests, Receive(r), chosen' = "pending", steered' = "pending"
      PROVE  ChosenInv'
  BY <1>1, <1>3 DEF ChosenInv, NothingChosenYet, ChosenIsOffered
<1>4. ASSUME Try \/ Miss, UNCHANGED <<chosen, steered>>
      PROVE  ChosenInv'
  <2>1. cursor # 0
    <3>1. 0 \notin DOMAIN snapshot.compiled /\ Len(snapshot.compiled) + 1 # 0
      <4>1. /\ DOMAIN snapshot.compiled = 1 .. Len(snapshot.rules)
            /\ Len(snapshot.rules) \in Nat /\ Len(snapshot.compiled) = Len(snapshot.rules)
        BY <1>1, TableEntries DEF RoutingInv
      <4>2. QED
        BY <4>1
    <3>2. QED
      BY <1>4, <3>1 DEF Try, Miss
  <2>2. chosen' = "pending" /\ steered' = "pending"
    BY <1>4, <2>1 DEF ChosenInv, NothingChosenYet
  <2>3. QED
    BY <1>1, <2>2 DEF ChosenInv, NothingChosenYet, ChosenIsOffered
<1>5. ASSUME NEW roll \in 0 .. Modulus - 1, Resolve(roll)
      PROVE  ChosenInv'
  <2> DEFINE to == snapshot.rules[result].to
             taking == IF to.targets = << >> THEN {to.upstream}
                       ELSE {t.id : t \in {t \in ToSet(to.targets) : t.weight > 0}}
  <2>1. /\ cursor = 0 /\ result # 0 /\ steered = "pending"
        /\ UNCHANGED <<table, builds, request, snapshot, cursor, result, steered>>
    BY <1>5 DEF Resolve, routingVars
  <2>2. /\ roll < (IF Total(to.targets) = 0 THEN 1 ELSE Total(to.targets))
        /\ chosen' = IF to.targets # << >> /\ Total(to.targets) = 0 THEN "error"
                     ELSE ResolveUpstream(to, roll)
    BY <1>5 DEF Resolve
  <2>3. to.targets \in Seq([id : DOMAIN NodeHash, weight : Nat]) /\ roll \in Nat
    BY <1>1, <2>1, MatchedRule
  <2>4. /\ chosen' # "error" => chosen' \in taking \intersect UpstreamIds
        /\ chosen' = "error" =>
             \/ to.targets # << >> /\ Total(to.targets) = 0
             \/ ~(ToSet(Targets(to)) \subseteq UpstreamIds)
    <3> HIDE DEF to
    <3>1. QED
      BY <2>2, <2>3, DrawIsTaking
  <2>5. ChosenIsOffered'
    BY <2>1, <2>4 DEF ChosenIsOffered
  <2>6. QED
    BY <1>1, <2>1, <2>5 DEF ChosenInv, NothingChosenYet
<1>6. CASE Steer
  <2> DEFINE upstreams == Upstreams(snapshot.rules)
  <2>1. /\ cursor = 0 /\ result # 0 /\ chosen = "pending"
        /\ UNCHANGED <<table, builds, request, snapshot, cursor, result, chosen>>
    BY <1>6 DEF Steer, routingVars
  <2>2. PICK policy \in Policies(Len(upstreams)), cookies \in {{}} \union {{s} : s \in Sessions} :
          steered' \in RouterPicks(policy, cookies, upstreams)
    BY <1>6 DEF Steer
  <2>3. Len(upstreams) \in Nat /\ upstreams \in [1 .. Len(upstreams) -> DOMAIN NodeHash]
    BY <1>1, <2>1, MatchedRule, UpstreamsAreListed
  <2>4. steered' \in IF ToSet(upstreams) = {} THEN {"error"} ELSE ToSet(upstreams)
    <3> HIDE DEF upstreams
    <3>1. QED
      BY <2>2, <2>3, PicksAreOffered
  <2>5. ChosenIsOffered'
    BY <2>1, <2>4 DEF ChosenIsOffered
  <2>6. QED
    BY <1>1, <2>1, <2>5 DEF ChosenInv, NothingChosenYet
<1>7. CASE UNCHANGED canaryVars
  BY <1>1, <1>7 DEF ChosenInv, NothingChosenYet, ChosenIsOffered, canaryVars, routingVars
<1>8. QED
  BY <1>2, <1>3, <1>4, <1>5, <1>6, <1>7 DEF CanaryNext

(* A request goes to a configured upstream that its rule gives traffic to, *)
(* for every table, weight and roll, though the weights wrap.              *)
THEOREM OnlyOfferedUpstreams == CanarySpec => []ChosenIsOffered
<1>1. CanaryInit => ChosenInv
  <2>1. CanaryInit => RoutingInv
    BY RoutingInitInv DEF CanaryInit
  <2>2. QED
    BY <2>1 DEF CanaryInit, RoutingInit, ChosenInv, NothingChosenYet, ChosenIsOffered
<1>2. ChosenInv => ChosenIsOffered
  BY DEF ChosenInv
<1>3. QED
  BY <1>1, <1>2, ChosenStepInv, PTL DEF CanarySpec

-----------------------------------------------------------------------------
(* Finite sets of naturals have a greatest element, too.                   *)
LEMMA GreatestNatural ==
  ASSUME NEW n \in Nat, NEW S \in SUBSET (0 .. n), S # {}
  PROVE  \E x \in S : \A y \in S : y <= x
<1> DEFINE T == {n - x : x \in S}
<1>1. T \in SUBSET Nat /\ T # {}
  <2>1. \A x \in S : n - x \in Nat
    OBVIOUS
  <2>2. PICK x : x \in S
    OBVIOUS
  <2>3. n - x \in T
    BY <2>2
  <2>4. T \subseteq Nat
    BY <2>1
  <2>5. QED
    BY <2>3, <2>4
<1> HIDE DEF T
<1>2. PICK t \in T : \A u \in T : t <= u
  BY <1>1, LeastNatural
<1>3. PICK x \in S : t = n - x
  BY <1>2 DEF T
<1>4. ASSUME NEW y \in S
      PROVE  y <= x
  <2>1. n - y \in T /\ x \in 0 .. n /\ y \in 0 .. n
    BY DEF T
  <2>2. n - x <= n - y
    BY <1>2, <1>3, <2>1
  <2>3. QED
    BY <2>1, <2>2
<1>5. QED
  BY <1>4

(* Is index i of the buckets the one that hash h belongs to: the last one  *)
(* with a node there?                                                      *)
Owns(buckets, i, h) ==
  /\ i \in 1 .. Len(buckets)
  /\ h \in NodeHash[buckets[i]]
  /\ \A j \in 1 .. Len(buckets) : h \in NodeHash[buckets[j]] => j <= i

IsBuckets(buckets) ==
  /\ Len(buckets) \in Nat
  /\ buckets \in [1 .. Len(buckets) -> DOMAIN NodeHash]

(* The nodes of a ring: those of its buckets, each with its owner.         *)
LEMMA RingNodes ==
  ASSUME NEW buckets, IsBuckets(buckets)
  PROVE  LET nodes == RingOf(buckets).nodes
         IN  /\ RingOf(buckets).buckets = buckets
             /\ DOMAIN nodes \in SUBSET Nat
             /\ \A i \in 1 .. Len(buckets) : NodeHash[buckets[i]] \subseteq DOMAIN nodes
             /\ \A h \in DOMAIN nodes :
                  \E i \in 1 .. Len(buckets) : nodes[h] = buckets[i] /\ Owns(buckets, i, h)
             /\ buckets # << >> => Len(buckets) # 0 /\ DOMAIN nodes # {}
<1> DEFINE m == Len(buckets)
           nodes == RingOf(buckets).nodes
           LastWith(h, i) == /\ h \in NodeHash[buckets[i]]
                         /\ \A j \in i + 1 .. m : h \notin NodeHash[buckets[j]]
<1>1. m \in Nat /\ buckets \in [1 .. m -> DOMAIN NodeHash] /\ DOMAIN buckets = 1 .. m
  BY DEF IsBuckets
<1>2. \A i \in 1 .. m : NodeHash[buckets[i]] \subseteq Nat /\ NodeHash[buckets[i]] # {}
  BY <1>1, CanaryAssumption
<1>3. ToSet(buckets) = {buckets[i] : i \in 1 .. m}
  BY <1>1 DEF ToSet
<1>4. /\ RingOf(buckets).buckets = buckets
      /\ nodes = [h \in UNION {NodeHash[u] : u \in ToSet(buckets)} |->
                    buckets[CHOOSE i \in DOMAIN buckets : LastWith(h, i)]]
  BY DEF RingOf
<1>5. DOMAIN nodes = UNION {NodeHash[u] : u \in {buckets[i] : i \in 1 .. m}}
  BY <1>3, <1>4
<1>6. ASSUME NEW h \in DOMAIN nodes
      PROVE  \E i \in 1 .. m : nodes[h] = buckets[i] /\ Owns(buckets, i, h)
  <2> DEFINE S == {i \in 1 .. m : h \in NodeHash[buckets[i]]}
             i == CHOOSE i \in DOMAIN buckets : LastWith(h, i)
  <2>1. S \in SUBSET (0 .. m) /\ S # {}
    BY <1>1, <1>5
  <2> HIDE DEF S
  <2>2. PICK x \in S : \A y \in S : y <= x
    BY <1>1, <2>1, GreatestNatural
  <2>3. x \in DOMAIN buckets /\ LastWith(h, x)
    <3>1. x \in 1 .. m /\ h \in NodeHash[buckets[x]]
      BY DEF S
    <3>2. ASSUME NEW j \in x + 1 .. m, h \in NodeHash[buckets[j]]
          PROVE  FALSE
      <4>1. j \in 1 .. m /\ x < j
        BY <1>1, <3>1
      <4>2. j \in S
        BY <3>2, <4>1 DEF S
      <4>3. QED
        BY <1>1, <2>2, <3>1, <4>1, <4>2
    <3>3. QED
      BY <1>1, <3>1, <3>2
  <2>4. i \in 1 .. m /\ LastWith(h, i)
    BY <1>1, <2>3
  <2>5. nodes[h] = buckets[i]
    BY <1>4
  <2> HIDE DEF i
  <2>6. ASSUME NEW j \in 1 .. m, h \in NodeHash[buckets[j]]
        PROVE  j <= i
    BY <1>1, <2>4, <2>6
  <2>7. Owns(buckets, i, h)
    BY <2>4, <2>6 DEF Owns
  <2>8. QED
    BY <2>4, <2>5, <2>7
<1>7. DOMAIN nodes \in SUBSET Nat
  BY <1>2, <1>5
<1>8. \A i \in 1 .. m : NodeHash[buckets[i]] \subseteq DOMAIN nodes
  BY <1>5
<1> HIDE DEF nodes
<1>9. ASSUME buckets # << >>
      PROVE  m # 0 /\ DOMAIN nodes # {}
  <2>1. m # 0
    BY <1>1, <1>9
  <2>2. 1 \in 1 .. m
    BY <1>1, <2>1
  <2>3. QED
    BY <1>2, <1>8, <2>1, <2>2
<1>10. QED
  BY <1>4, <1>6, <1>7, <1>8, <1>9 DEF nodes

(* Where a key lands: at the next node, or the first one past the end.     *)
Lands(D, h, g) ==
  /\ g \in D
  /\ \/ g >= h /\ \A x \in D : x >= h => g <= x
     \/ g < h /\ \A x \in D : x < h /\ g <= x

LEMMA KeyLands ==
  ASSUME NEW buckets, IsBuckets(buckets), buckets # << >>, NEW h \in Nat
  PROVE  LET nodes == RingOf(buckets).nodes
         IN  \E g : Lands(DOMAIN nodes, h, g) /\ RingGet(RingOf(buckets), h) = nodes[g]
<1> DEFINE nodes == RingOf(buckets).nodes
           D == DOMAIN nodes
           after == {g \in D : g >= h}
<1>1. D \in SUBSET Nat /\ D # {} /\ RingOf(buckets).buckets = buckets
  BY RingNodes
<1>2. RingGet(RingOf(buckets), h) = nodes[Least(IF after # {} THEN after ELSE D)]
  BY <1>1 DEF RingGet
<1> HIDE DEF nodes
<1>3. CASE after # {}
  <2>1. after \in SUBSET Nat
    BY <1>1
  <2> HIDE DEF after
  <2>2. Least(after) \in after /\ \A x \in after : Least(after) <= x
    BY <1>3, <2>1, LeastIsLeast
  <2>3. Lands(D, h, Least(after))
    BY <2>2 DEF after, Lands
  <2>4. QED
    BY <1>2, <1>3, <2>3 DEF nodes
<1>4. CASE after = {}
  <2> HIDE DEF D
  <2>2. Least(D) \in D /\ \A x \in D : Least(D) <= x
    BY <1>1, LeastIsLeast
  <2>3. \A x \in D : x < h
    BY <1>1, <1>4
  <2>4. Lands(D, h, Least(D))
    BY <2>2, <2>3 DEF Lands
  <2>5. QED
    BY <1>2, <1>4, <2>4 DEF nodes, D
<1>5. QED
  BY <1>3, <1>4

(* A key whose upstream stays, and whose new upstream was there before,    *)
(* lands on the same node before and after.                                *)
LEMMA KeysStay ==
  ASSUME NEW old, IsBuckets(old), NEW new, IsBuckets(new), SameOrder(old, new),
         NEW h \in Nat,
         RingGet(RingOf(old), h) \in ToSet(new),
         RingGet(RingOf(new), h) \in ToSet(old)
  PROVE  RingGet(RingOf(old), h) = RingGet(RingOf(new), h)
<1> DEFINE b == RingGet(RingOf(old), h)
           c == RingGet(RingOf(new), h)
           D == DOMAIN RingOf(old).nodes
           E == DOMAIN RingOf(new).nodes
<1>1. /\ Len(old) \in Nat /\ DOMAIN old = 1 .. Len(old)
      /\ Len(new) \in Nat /\ DOMAIN new = 1 .. Len(new)
  BY DEF IsBuckets
<1>2. old # << >> /\ new # << >>
  <2>1. ToSet(<< >>) = {}
    BY DEF ToSet
  <2>2. QED
    BY <2>1
<1>3. PICK g : Lands(D, h, g) /\ b = RingOf(old).nodes[g]
  BY <1>2, KeyLands
<1>4. PICK f : Lands(E, h, f) /\ c = RingOf(new).nodes[f]
  BY <1>2, KeyLands
<1>5. PICK i \in 1 .. Len(old) : b = old[i] /\ Owns(old, i, g)
  <2>1. g \in D
    BY <1>3 DEF Lands
  <2>2. QED
    BY <1>3, <2>1, RingNodes
<1>6. PICK k \in 1 .. Len(new) : c = new[k] /\ Owns(new, k, f)
  <2>1. f \in E
    BY <1>4 DEF Lands
  <2>2. QED
    BY <1>4, <2>1, RingNodes
<1>7. PICK l \in 1 .. Len(new) : b = new[l]
  BY <1>1 DEF ToSet
<1>8. PICK j \in 1 .. Len(old) : c = old[j]
  BY <1>1 DEF ToSet
<1> HIDE DEF b, c
<1>9. g \in NodeHash[new[l]] /\ f \in NodeHash[old[j]]
  BY <1>5, <1>6, <1>7, <1>8 DEF Owns
<1>10. g \in E /\ f \in D /\ D \in SUBSET Nat /\ E \in SUBSET Nat
  BY <1>9, RingNodes
<1> HIDE DEF D, E
<1>11. g = f
  BY <1>3, <1>4, <1>10 DEF Lands
<1>12. l <= k /\ j <= i
  BY <1>5, <1>6, <1>9, <1>11 DEF Owns
<1>13. i < j <=> l < k
  BY <1>1, <1>5, <1>6, <1>7, <1>8 DEF SameOrder
<1>14. l = k
  BY <1>1, <1>12, <1>13
<1>15. QED
  BY <1>6, <1>7, <1>14 DEF b, c

RingInv ==
  /\ RoutingInv
  /\ ring = RingOf(Upstreams(table.rules))

LEMMA TableBuckets ==
  ASSUME NEW t, IsTable(t)
  PROVE  IsBuckets(Upstreams(t.rules))
BY TableEntries, UpstreamsAreListed DEF IsBuckets

LEMMA RingStepInv == RingInv /\ [CanaryNext]_canaryVars => RingInv'
<1> SUFFICES ASSUME RingInv, [CanaryNext]_canaryVars
             PROVE  RingInv'
  OBVIOUS
<1>1. RoutingInv'
  BY CanaryStepsRoute, RoutingStepInv DEF RingInv
<1>2. CASE \E rules \in Tables : Build(rules) /\ ring' = RingOf(Upstreams(table'.rules))
                                 /\ UNCHANGED <<chosen, steered>>
  BY <1>1, <1>2 DEF RingInv
<1>3. ASSUME UNCHANGED <<table, ring>>
      PROVE  RingInv'
  BY <1>1, <1>3 DEF RingInv
<1>4. CASE \E r \in Requests : Receive(r) /\ chosen' = "pending" /\ steered' = "pending"
                               /\ UNCHANGED ring
  BY <1>3, <1>4 DEF Receive
<1>5. CASE (Try \/ Miss) /\ UNCHANGED ring
  BY <1>3, <1>5 DEF Try, Miss
<1>6. CASE \E roll \in 0 .. Modulus - 1 : Resolve(roll)
  BY <1>3, <1>6 DEF Resolve, routingVars
<1>7. CASE Steer
  BY <1>3, <1>7 DEF Steer, routingVars
<1>8. CASE UNCHANGED canaryVars
  BY <1>3, <1>8 DEF canaryVars, routingVars
<1>9. QED
  BY <1>2, <1>4, <1>5, <1>6, <1>7, <1>8 DEF CanaryNext

(* A key of the ring moves only away from an upstream that a reload took   *)
(* away or to one that it brought, for every hash function, though nodes   *)
(* collide.                                                                *)
THEOREM FewKeysMove == CanarySpec => RingMovesLittle
<1>1. CanaryInit => RingInv
  BY RoutingInitInv DEF CanaryInit, RingInv
<1>2. RingInv /\ RingInv' =>
        [SameOrder(ring.buckets, ring'.buckets) =>
           \A h \in Hashes :
             RingGet(ring, h) # RingGet(ring', h) =>
               \/ RingGet(ring, h) \notin ToSet(ring'.buckets)
               \/ RingGet(ring', h) \notin ToSet(ring.buckets)]_ring
  <2> DEFINE old == Upstreams(table.rules)
             new == Upstreams(table'.rules)
  <2> SUFFICES ASSUME RingInv, RingInv', SameOrder(ring.buckets, ring'.buckets),
                      NEW h \in Hashes,
                      RingGet(ring, h) \in ToSet(ring'.buckets),
                      RingGet(ring', h) \in ToSet(ring.buckets)
               PROVE  RingGet(ring, h) = RingGet(ring', h)
    OBVIOUS
  <2>1. ring = RingOf(old) /\ ring' = RingOf(new)
    BY DEF RingInv
  <2>2. IsBuckets(old) /\ IsBuckets(new)
    BY TableBuckets DEF RingInv, RoutingInv
  <2>3. ring.buckets = old /\ ring'.buckets = new /\ h \in Nat
    BY <2>1, <2>2, RingNodes, CanaryAssumption
  <2> HIDE DEF old, new
  <2>4. QED
    BY <2>1, <2>2, <2>3, KeysStay
<1>3. QED
  BY <1>1, <1>2, RingStepInv, PTL DEF CanarySpec, RingMovesLittle

-----------------------------------------------------------------------------
(* What is below the modulus does not wrap.                                *)
LEMMA SmallRemainder ==
  ASSUME NEW x \in Nat, x < Modulus
  PROVE  x % Modulus = x
BY CanaryAssumption

(* With weights that do not wrap, target n is drawn by the rolls between   *)
(* the sums before and after it.                                           *)
LEMMA RollsOfTarget ==
  ASSUME NEW I, NEW targets \in Seq([id : I, weight : Nat]),
         Sums(Weights(targets))[Len(targets)] < Modulus,
         NEW n \in 1 .. Len(targets),
         NEW r \in Nat,
         Sums(Weights(targets))[n - 1] <= r, r < Sums(Weights(targets))[n]
  PROVE  SelectCanaryTarget(targets, r) = targets[n].id
<1> DEFINE m == Len(targets)
           w == Weights(targets)
           s == Sums(w)
           hits == Hits(targets, r)
<1>1. /\ m \in Nat /\ w \in [1 .. m -> Nat]
      /\ \A k \in 1 .. m : w[k] = targets[k].weight
  BY CumulativeGrows
<1> HIDE DEF w
<1>2. /\ s \in [0 .. m -> Nat] /\ s[0] = 0
      /\ \A k \in 1 .. m : s[k] = s[k - 1] + w[k]
      /\ \A i, j \in 0 .. m : i <= j => s[i] <= s[j]
  BY <1>1, SumsAdd, SumsGrow
<1>3. s[m] < Modulus /\ s[n - 1] <= r /\ r < s[n]
  BY DEF w
<1>4. \A k \in 1 .. m : Cumulative(targets, k) = s[k] % Modulus
  BY DEF Cumulative, w
<1> HIDE DEF s
<1>5. \A k \in 1 .. m : Cumulative(targets, k) = s[k]
  <2>1. ASSUME NEW k \in 1 .. m
        PROVE  s[k] \in Nat /\ s[k] < Modulus
    <3>0. k \in 0 .. m /\ m \in 0 .. m /\ k <= m
      BY <1>1
    <3>1. s[k] <= s[m] /\ s[k] \in Nat /\ s[m] \in Nat
      BY <1>2, <3>0
    <3>2. QED
      BY <1>3, <3>1, CanaryAssumption
  <2>2. QED
    BY <1>4, <2>1, SmallRemainder
<1>6. hits = {k \in 1 .. m : w[k] # 0 /\ r < s[k]}
  BY <1>1, <1>5 DEF Hits
<1> HIDE DEF hits
<1>7. n \in hits
  <2>0. n - 1 \in 0 .. m
    BY <1>1
  <2>1. s[n] = s[n - 1] + w[n] /\ s[n - 1] \in Nat /\ w[n] \in Nat
    BY <1>1, <1>2, <2>0
  <2>2. QED
    BY <1>3, <1>6, <2>1
<1>8. \A k \in hits : n <= k
  <2>1. ASSUME NEW k \in 1 .. m, r < s[k], k < n
        PROVE  FALSE
    <3>0. k \in 0 .. m /\ n - 1 \in 0 .. m /\ k <= n - 1
      BY <1>1, <2>1
    <3>1. s[k] <= s[n - 1] /\ s[k] \in Nat /\ s[n - 1] \in Nat
      BY <1>2, <3>0
    <3>2. QED
      BY <1>3, <2>1, <3>1
  <2>2. QED
    BY <1>1, <1>6, <2>1
<1>9. Least(hits) = n
  <2>1. hits \in SUBSET Nat /\ hits # {}
    BY <1>1, <1>6, <1>7
  <2>2. Least(hits) \in hits /\ \A k \in hits : Least(hits) <= k
    BY <2>1, LeastIsLeast
  <2>3. Least(hits) <= n /\ n <= Least(hits) /\ Least(hits) \in Nat
    BY <1>7, <1>8, <2>1, <2>2
  <2>4. QED
    BY <2>3
<1>10. QED
  BY <1>7, <1>9 DEF SelectCanaryTarget, hits

LEMMA NumbersBetween ==
  ASSUME NEW a \in Nat, NEW w \in Nat, NEW b, b = a + w
  PROVE  IsFiniteSet(a .. b - 1) /\ Cardinality(a .. b - 1) = w
<1>1. a \in Int /\ b - 1 \in Int
  OBVIOUS
<1>2. /\ IsFiniteSet(a .. b - 1)
      /\ Cardinality(a .. b - 1) = IF a > b - 1 THEN 0 ELSE (b - 1) - a + 1
  BY ONLY <1>1, FS_Interval
<1>3. (IF a > b - 1 THEN 0 ELSE (b - 1) - a + 1) = w
  OBVIOUS
<1>4. QED
  BY <1>2, <1>3

(* So an upstream is drawn by as many rolls as its targets weigh: by       *)
(* induction over the targets, which add disjoint intervals of rolls.      *)
LEMMA SharesAreWeights ==
  ASSUME NEW I, NEW targets \in Seq([id : I, weight : Nat]), NEW id,
         Sums(Weights(targets))[Len(targets)] < Modulus
  PROVE  LET own == [n \in 1 .. Len(targets) |->
                       IF targets[n].id = id THEN targets[n].weight ELSE 0]
             drawn == {r \in 0 .. Total(targets) - 1 : SelectCanaryTarget(targets, r) = id}
         IN  Cardinality(drawn) = Sums(own)[Len(targets)]
<1> DEFINE m == Len(targets)
           w == Weights(targets)
           s == Sums(w)
           own == [n \in 1 .. m |-> IF targets[n].id = id THEN targets[n].weight ELSE 0]
           share == Sums(own)
           Drawn(n) == {r \in 0 .. s[n] - 1 : SelectCanaryTarget(targets, r) = id}
           S == {n \in 0 .. m : IsFiniteSet(Drawn(n)) /\ Cardinality(Drawn(n)) = share[n]}
<1>1. /\ m \in Nat /\ w \in [1 .. m -> Nat]
      /\ \A k \in 1 .. m : w[k] = targets[k].weight
  BY CumulativeGrows
<1>2. own \in [1 .. m -> Nat] /\ \A n \in 1 .. m : own[n] = IF targets[n].id = id THEN w[n] ELSE 0
  BY <1>1
<1> HIDE DEF w, own
<1>3. /\ s \in [0 .. m -> Nat] /\ s[0] = 0
      /\ \A k \in 1 .. m : s[k] = s[k - 1] + w[k]
  BY <1>1, SumsAdd
<1>4. /\ share \in [0 .. m -> Nat] /\ share[0] = 0
      /\ \A k \in 1 .. m : share[k] = share[k - 1] + own[k]
  BY <1>1, <1>2, SumsAdd
<1>5. s[m] < Modulus
  BY DEF w
<1>6. \A n \in 1 .. m, r \in Nat :
        s[n - 1] <= r /\ r < s[n] => SelectCanaryTarget(targets, r) = targets[n].id
  BY <1>5, RollsOfTarget DEF w
<1>7. Total(targets) = s[m]
  <2>1. Total(targets) = s[m] % Modulus
    BY DEF Total, Cumulative, w
  <2>2. s[m] \in Nat
    BY <1>1, <1>3
  <2>3. QED
    BY <1>5, <2>1, <2>2, SmallRemainder
<1> HIDE DEF s, share
<1>8. 0 \in S
  <2>1. Drawn(0) = {}
    BY <1>1, <1>3
  <2>2. IsFiniteSet({}) /\ Cardinality({}) = 0
    BY FS_EmptySet
  <2>3. 0 \in 0 .. m
    BY <1>1
  <2> HIDE DEF Drawn
  <2>4. QED
    BY <1>4, <2>1, <2>2, <2>3
<1>9. ASSUME NEW n \in 0 .. m, n < m, n \in S
      PROVE  n + 1 \in S
  <2> DEFINE rolls == s[n] .. s[n + 1] - 1
             mine == IF targets[n + 1].id = id THEN rolls ELSE {}
  <2>1. n + 1 \in 1 .. m /\ (n + 1) - 1 = n
    BY <1>1, <1>9
  <2>2. /\ s[n + 1] = s[n] + w[n + 1] /\ s[n] \in Nat /\ s[n + 1] \in Nat /\ w[n + 1] \in Nat
        /\ share[n + 1] = share[n] + own[n + 1] /\ share[n] \in Nat
        /\ own[n + 1] = IF targets[n + 1].id = id THEN w[n + 1] ELSE 0
    <3>1. n \in 0 .. m /\ n + 1 \in 0 .. m
      BY <1>1, <2>1
    <3>2. s[n + 1] = s[n] + w[n + 1] /\ s[n] \in Nat /\ s[n + 1] \in Nat /\ w[n + 1] \in Nat
      BY <1>1, <1>3, <2>1, <3>1
    <3>3. share[n + 1] = share[n] + own[n + 1] /\ share[n] \in Nat
      BY <1>4, <2>1, <3>1
    <3>4. own[n + 1] = IF targets[n + 1].id = id THEN w[n + 1] ELSE 0
      BY <1>2, <2>1
    <3>5. QED
      BY <3>2, <3>3, <3>4
  <2>3. IsFiniteSet(rolls) /\ Cardinality(rolls) = w[n + 1]
    <3>1. /\ s[n] \in Nat /\ w[n + 1] \in Nat
          /\ s[n + 1] = s[n] + w[n + 1]
      BY <2>2
    <3>2. QED
      BY ONLY <3>1, NumbersBetween
  <2>4. IsFiniteSet(mine) /\ Cardinality(mine) = own[n + 1]
    <3> HIDE DEF rolls
    <3>1. QED
      BY <2>2, <2>3, FS_EmptySet
  <2>5. Drawn(n + 1) = Drawn(n) \union mine
    <3>1. \A r \in Nat : s[n] <= r /\ r < s[n + 1] =>
            SelectCanaryTarget(targets, r) = targets[n + 1].id
      BY <1>6, <2>1
    <3>2. 0 .. s[n + 1] - 1 = (0 .. s[n] - 1) \union rolls
      <4> DEFINE a == s[n]
                 b == s[n + 1]
      <4>1. a \in Nat /\ b \in Nat /\ a <= b
        BY <2>2
      <4> HIDE DEF a, b
      <4>2. 0 .. b - 1 = (0 .. a - 1) \union (a .. b - 1)
        BY <4>1
      <4>3. QED
        BY <4>2 DEF a, b
    <3>3. \A r \in rolls : SelectCanaryTarget(targets, r) = targets[n + 1].id
      BY <2>2, <3>1
    <3> HIDE DEF rolls
    <3>4. QED
      BY <3>2, <3>3
  <2>6. Drawn(n) \intersect mine = {}
    BY <2>2
  <2>7. IsFiniteSet(Drawn(n)) /\ Cardinality(Drawn(n)) = share[n]
    BY <1>9
  <2> HIDE DEF Drawn, mine
  <2>8. /\ IsFiniteSet(Drawn(n) \union mine)
        /\ Cardinality(Drawn(n) \union mine) =
             Cardinality(Drawn(n)) + Cardinality(mine) - Cardinality(Drawn(n) \intersect mine)
    BY <2>4, <2>7, FS_Union
  <2>9. Cardinality(Drawn(n) \intersect mine) = 0
    BY <2>6, FS_EmptySet
  <2>10. own[n + 1] \in Nat
    BY <1>2, <2>1
  <2>11. Cardinality(Drawn(n) \union mine) = share[n + 1]
    BY <2>2, <2>4, <2>7, <2>8, <2>9, <2>10
  <2>12. IsFiniteSet(Drawn(n + 1)) /\ Cardinality(Drawn(n + 1)) = share[n + 1]
    BY <2>5, <2>8, <2>11
  <2>13. n + 1 \in 0 .. m
    BY <1>1, <2>1
  <2>14. QED
    BY <2>12, <2>13
<1> HIDE DEF S
<1>10. m \in S
  <2>1. 0 .. m \subseteq S
    BY <1>1, <1>8, <1>9, InductionTo
  <2>2. m \in 0 .. m
    BY <1>1
  <2>3. QED
    BY <2>1, <2>2
<1>11. Cardinality(Drawn(m)) = share[m]
  BY <1>10 DEF S
<1>12. QED
  BY <1>7, <1>11 DEF share, own

LEMMA DrawnHasWeight ==
  ASSUME NEW I, NEW targets \in Seq([id : I, weight : Nat]),
         NEW n \in 1 .. Len(targets), targets[n].weight # 0
  PROVE  LET own == [k \in 1 .. Len(targets) |->
                       IF targets[k].id = targets[n].id THEN targets[k].weight ELSE 0]
         IN  Sums(own)[Len(targets)] > 0
<1> DEFINE m == Len(targets)
           own == [k \in 1 .. m |->
                     IF targets[k].id = targets[n].id THEN targets[k].weight ELSE 0]
           share == Sums(own)
<1>1. m \in Nat /\ \A k \in 1 .. m : targets[k].weight \in Nat
  BY TargetIds
<1>2. own \in [1 .. m -> Nat] /\ own[n] > 0
  BY <1>1
<1> HIDE DEF own
<1>3. /\ share \in [0 .. m -> Nat]
      /\ \A k \in 1 .. m : share[k] = share[k - 1] + own[k]
      /\ \A i, j \in 0 .. m : i <= j => share[i] <= share[j]
  BY <1>1, <1>2, SumsAdd, SumsGrow
<1> HIDE DEF share
<1>4. n - 1 \in 0 .. m /\ n \in 0 .. m /\ m \in 0 .. m /\ n <= m
  BY <1>1
<1>5. /\ share[n - 1] \in Nat /\ share[n] \in Nat /\ share[m] \in Nat /\ own[n] \in Nat
      /\ share[n] = share[n - 1] + own[n] /\ share[n] <= share[m]
  BY <1>2, <1>3, <1>4
<1>6. share[m] > 0
  BY <1>2, <1>5
<1>7. QED
  BY <1>6 DEF share, own

(* Weighted traffic is split as the weights say, for every list of targets *)
(* of a route; and when their sum wraps, each roll still has a target that *)
(* takes traffic.                                                          *)
THEOREM SharesFollowWeights == CanarySpec => []WeightsAreShares
<1>1. RoutingInv => WeightsAreShares
  <2> SUFFICES ASSUME RoutingInv, cursor = 0, result # 0, chosen = "pending"
               PROVE  WeightsAreShares
    BY DEF WeightsAreShares
  <2> DEFINE targets == snapshot.rules[result].to.targets
             m == Len(targets)
             Own(id) == [n \in 1 .. m |-> IF targets[n].id = id THEN targets[n].weight ELSE 0]
             WeightOf(id) == Sums(Own(id))[m]
             rolls == 0 .. Total(targets) - 1
             Drawn(id) == {r \in rolls : SelectCanaryTarget(targets, r) = id}
  <2>1. targets \in Seq([id : DOMAIN NodeHash, weight : Nat])
    BY MatchedRule
  <2> HIDE DEF targets
  <2>2. Total(targets) \in 0 .. Modulus - 1
    <3>1. m \in Nat /\ \A n \in 0 .. m : Cumulative(targets, n) \in 0 .. Modulus - 1
      BY <2>1, CumulativeGrows
    <3>2. QED
      BY <3>1 DEF Total
  <2>3. ASSUME NEW r \in rolls
        PROVE  WeightOf(SelectCanaryTarget(targets, r)) > 0
    <3> DEFINE n == Least(Hits(targets, r))
    <3>1. r \in Nat /\ r < Total(targets)
      BY <2>2, CanaryAssumption
    <3>2. /\ n \in 1 .. m /\ targets[n].weight # 0
          /\ SelectCanaryTarget(targets, r) = targets[n].id
      BY <2>1, <3>1, SelectedTakes
    <3> HIDE DEF n
    <3>3. Sums(Own(targets[n].id))[m] > 0
      BY <2>1, <3>2, DrawnHasWeight
    <3>4. QED
      BY <3>2, <3>3
  <2>4. ASSUME Sums(Weights(targets))[m] < Modulus, NEW id
        PROVE  Cardinality(Drawn(id)) = WeightOf(id)
    BY <2>1, <2>4, SharesAreWeights
  <2>5. QED
    BY <2>3, <2>4 DEF WeightsAreShares, targets
<1>2. QED
  BY <1>1, CanaryIsRouting, RoutingInvariant, PTL

-----------------------------------------------------------------------------
(* An ascending list of a set of naturals is how InOrder lists the set.    *)
Ascends(place, L, n, S) ==
  /\ n \in Nat /\ L \in Nat
  /\ place \in [1 .. L -> 1 .. n]
  /\ \A k, l \in 1 .. L : k < l => place[k] < place[l]
  /\ S = {place[k] : k \in 1 .. L}

LEMMA AscendingIsInOrder ==
  ASSUME NEW place, NEW L, NEW n, NEW S, Ascends(place, L, n, S)
  PROVE  Ascending(S) = place
<1> USE DEF Ascends
<1> DEFINE order == {p \in S \X S : p[1] <= p[2]}
           Below(x) == {y \in S : <<y, x>> \in order}
           all == InOrder(S, order)
<1>1. S \in SUBSET Nat
  OBVIOUS
<1>2. \A x, y \in S : <<x, y>> \in order <=> x <= y
  BY <1>1
<1>3. ASSUME NEW k \in 1 .. L
      PROVE  IsFiniteSet({place[l] : l \in 1 .. k}) /\ Cardinality({place[l] : l \in 1 .. k}) = k
  <2> DEFINE T == {place[l] : l \in 1 .. k}
             f == [l \in 1 .. k |-> place[l]]
  <2>1. k \in Nat /\ 1 .. k \subseteq 1 .. L
    OBVIOUS
  <2>2. f \in [1 .. k -> T] /\ \A t \in T : \E l \in 1 .. k : f[l] = t
    OBVIOUS
  <2>3. \A i, j \in 1 .. k : f[i] = f[j] => i = j
    <3>1. SUFFICES ASSUME NEW i \in 1 .. k, NEW j \in 1 .. k, place[i] = place[j], i # j
                   PROVE  FALSE
      OBVIOUS
    <3>2. i \in 1 .. L /\ j \in 1 .. L /\ (i < j \/ j < i)
      BY <2>1, <3>1
    <3>3. place[i] \in Nat /\ place[j] \in Nat
      BY <3>2
    <3>4. place[i] < place[j] \/ place[j] < place[i]
      BY <3>2
    <3>5. QED
      BY <3>1, <3>3, <3>4
  <2> HIDE DEF f, T
  <2>4. f \in Bijection(1 .. k, T)
    BY <2>2, <2>3 DEF Bijection, Injection, IsInjective, Surjection
  <2>5. IsFiniteSet(1 .. k) /\ Cardinality(1 .. k) = k
    BY <2>1, FS_Interval, SMTT(20)
  <2>6. ExistsBijection(1 .. k, T)
    BY <2>4 DEF ExistsBijection
  <2>7. IsFiniteSet(T) /\ Cardinality(T) = k
    BY <2>5, <2>6, FS_Bijection
  <2>8. QED
    BY <2>7 DEF T
<1>4. IsFiniteSet(S) /\ Cardinality(S) = L
  <2>1. CASE L = 0
    <3>1. S = {}
      BY <2>1
    <3>2. QED
      BY <2>1, <3>1, FS_EmptySet
  <2>2. CASE L # 0
    <3>1. L \in 1 .. L
      BY <2>2
    <3>2. QED
      BY <1>3, <3>1
  <2>3. QED
    BY <2>1, <2>2
<1>5. ASSUME NEW k \in 1 .. L
      PROVE  place[k] \in S /\ Cardinality(Below(place[k])) = k
  <2>1. place[k] \in S
    OBVIOUS
  <2>2. \A l \in 1 .. L : place[l] <= place[k] <=> l \in 1 .. k
    <3>1. SUFFICES ASSUME NEW l \in 1 .. L
                   PROVE  place[l] <= place[k] <=> l \in 1 .. k
      OBVIOUS
    <3>2. place[l] \in Nat /\ place[k] \in Nat
      OBVIOUS
    <3>3. k < l => place[k] < place[l]
      OBVIOUS
    <3>4. l < k => place[l] < place[k]
      OBVIOUS
    <3>5. QED
      BY <3>2, <3>3, <3>4
  <2>3. Below(place[k]) = {place[l] : l \in 1 .. k}
    <3>1. \A y \in S : <<y, place[k]>> \in order <=> y <= place[k]
      BY <1>2, <2>1
    <3>2. Below(place[k]) = {y \in S : y <= place[k]}
      BY <3>1
    <3>3. 1 .. k \subseteq 1 .. L
      OBVIOUS
    <3>4. {y \in S : y <= place[k]} = {place[l] : l \in 1 .. k}
      BY <2>2, <3>3
    <3>5. QED
      BY <3>2, <3>4
  <2>4. QED
    BY <1>3, <2>1, <2>3
<1>6. /\ \A x \in S : <<x, x>> \in order
      /\ \A x, y \in S : <<x, y>> \in order \/ <<y, x>> \in order
      /\ \A x, y \in S : <<x, y>> \in order /\ <<y, x>> \in order => x = y
      /\ \A x, y, z \in S : <<x, y>> \in order /\ <<y, z>> \in order => <<x, z>> \in order
  <2>1. \A x \in S : x \in Nat
    BY <1>1
  <2> HIDE DEF order
  <2>2. ASSUME NEW x \in S, NEW y \in S
        PROVE  /\ <<x, y>> \in order \/ <<y, x>> \in order
               /\ <<x, y>> \in order /\ <<y, x>> \in order => x = y
    <3>1. x \in Nat /\ y \in Nat
      BY <2>1
    <3>2. (<<x, y>> \in order <=> x <= y) /\ (<<y, x>> \in order <=> y <= x)
      BY <1>2
    <3>3. QED
      BY <3>1, <3>2
  <2>3. \A x, y, z \in S : <<x, y>> \in order /\ <<y, z>> \in order => <<x, z>> \in order
    BY ONLY <1>2, <2>1
  <2>4. \A x \in S : <<x, x>> \in order
    BY ONLY <1>2, <2>1
  <2>5. QED
    BY <2>2, <2>3, <2>4
<1> HIDE DEF order
<1>7. /\ all \in [1 .. L -> S]
      /\ \A k \in 1 .. L : Cardinality(Below(all[k])) = k
      /\ \A x, y \in S : Cardinality(Below(x)) = Cardinality(Below(y)) => x = y
  <2>1. /\ all \in [1 .. Cardinality(S) -> S]
        /\ \A k \in 1 .. Cardinality(S) : Cardinality({y \in S : <<y, all[k]>> \in order}) = k
        /\ \A x, y \in S : Cardinality({z \in S : <<z, x>> \in order}) =
                           Cardinality({z \in S : <<z, y>> \in order}) => x = y
    BY ONLY <1>4, <1>6, InOrderLists DEF all
  <2> HIDE DEF all
  <2>2. QED
    BY <1>4, <2>1
<1> HIDE DEF all, Below
<1>8. \A k \in 1 .. L : all[k] = place[k]
  BY <1>5, <1>7
<1>9. all = place
  BY <1>7, <1>8
<1>10. QED
  BY <1>9 DEF all, order, Ascending

-----------------------------------------------------------------------------
(* Parents and names, counted one segment further.                         *)
LEMMA CountsGrow ==
  ASSUME NEW segments, NEW i \in Nat, NEW j \in Nat, i <= j
  PROVE  LET P(k) == Cardinality(Parents(segments, i, k))
             N(k) == Cardinality(Names(segments, i, k))
         IN  /\ P(j) \in Nat /\ N(j) \in Nat
             /\ P(j + 1) = P(j) + IF segments[j + 1] = ".." THEN 1 ELSE 0
             /\ N(j + 1) = N(j) + IF IsName(segments[j + 1]) THEN 1 ELSE 0
             /\ P(i) = 0 /\ N(i) = 0
<1>1. i + 1 .. j + 1 = (i + 1 .. j) \union {j + 1} /\ j + 1 \notin i + 1 .. j
  OBVIOUS
<1>2. IsFiniteSet(i + 1 .. j)
  BY FS_Interval, SMTT(20)
<1>3. i + 1 .. i = {}
  OBVIOUS
<1> DEFINE Q(k) == Parents(segments, i, k)
           M(k) == Names(segments, i, k)
<1>4. /\ Q(j + 1) = IF segments[j + 1] = ".." THEN Q(j) \union {j + 1} ELSE Q(j)
      /\ Q(j) \in SUBSET (i + 1 .. j) /\ Q(i) = {}
  BY <1>1, <1>3 DEF Parents
<1>5. /\ M(j + 1) = IF IsName(segments[j + 1]) THEN M(j) \union {j + 1} ELSE M(j)
      /\ M(j) \in SUBSET (i + 1 .. j) /\ M(i) = {}
  BY <1>1, <1>3 DEF Names
<1> HIDE DEF Q, M
<1>6. IsFiniteSet(Q(j)) /\ IsFiniteSet(M(j))
  BY <1>2, <1>4, <1>5, FS_Subset
<1>7. Cardinality(Q(j)) \in Nat /\ Cardinality(M(j)) \in Nat
  BY <1>6, FS_CardinalityType
<1>8. j + 1 \notin Q(j) /\ j + 1 \notin M(j)
  BY <1>1, <1>4, <1>5
<1>9. /\ Cardinality(Q(j) \union {j + 1}) = Cardinality(Q(j)) + 1
      /\ Cardinality(M(j) \union {j + 1}) = Cardinality(M(j)) + 1
  BY <1>6, <1>8, FS_AddElement
<1>10. Cardinality(Q(i)) = 0 /\ Cardinality(M(i)) = 0
  BY <1>4, <1>5, FS_EmptySet
<1>11. /\ Cardinality(Q(j + 1)) = Cardinality(Q(j)) + IF segments[j + 1] = ".." THEN 1 ELSE 0
       /\ Cardinality(M(j + 1)) = Cardinality(M(j)) + IF IsName(segments[j + 1]) THEN 1 ELSE 0
  BY <1>4, <1>5, <1>7, <1>9
<1>12. QED
  BY <1>7, <1>10, <1>11 DEF Q, M

LEMMA FrontOf ==
  ASSUME NEW T, NEW s \in Seq(T), s # << >>
  PROVE  /\ Front(s) \in Seq(T) /\ Len(s) \in Nat /\ Len(s) # 0
         /\ Len(Front(s)) = Len(s) - 1
         /\ \A k \in 1 .. Len(s) - 1 : Front(s)[k] = s[k]
<1>1. Len(s) \in Nat /\ Len(s) # 0
  OBVIOUS
<1>2. \A i \in 1 .. Len(s) - 1 : s[i] \in T
  BY <1>1
<1>3. 1 \in Int /\ Len(s) - 1 \in Int
  BY <1>1
<1>4. /\ Front(s) \in Seq(T)
      /\ Len(Front(s)) = IF 1 <= Len(s) - 1 THEN Len(s) - 1 - 1 + 1 ELSE 0
      /\ \A k \in 1 .. Len(s) - 1 - 1 + 1 : Front(s)[k] = s[1 + k - 1]
  BY <1>2, <1>3, SubSeqProperties DEF Front
<1>5. Len(Front(s)) = Len(s) - 1
  <2>1. \A x \in Nat : x # 0 => (IF 1 <= x - 1 THEN x - 1 - 1 + 1 ELSE 0) = x - 1
    OBVIOUS
  <2>2. QED
    BY <1>1, <1>4, <2>1
<1>6. ASSUME NEW k \in 1 .. Len(s) - 1
      PROVE  Front(s)[k] = s[k]
  <2>1. k \in 1 .. Len(s) - 1 - 1 + 1 /\ 1 + k - 1 = k
    BY <1>1
  <2>2. Front(s)[k] = s[1 + k - 1]
    BY <1>4, <2>1
  <2>3. QED
    BY <2>1, <2>2
<1>7. QED
  BY <1>1, <1>4, <1>5, <1>6

LEMMA FollowType ==
  ASSUME NEW T, NEW out \in Seq(T), NEW segment \in T
  PROVE  Follow(out, segment) \in Seq(T)
<1>1. ASSUME out # << >>
      PROVE  Front(out) \in Seq(T)
  BY <1>1, FrontOf
<1>2. Append(out, segment) \in Seq(T)
  OBVIOUS
<1>3. QED
  BY <1>1, <1>2 DEF Follow

(* Followed, as its definition says.                                       *)
LEMMA FollowedSteps ==
  ASSUME NEW T, NEW segments \in Seq(T)
  PROVE  LET m == Len(segments)
             out == Followed(segments)
         IN  /\ m \in Nat
             /\ out \in [0 .. m -> Seq(T)]
             /\ out[0] = << >>
             /\ \A n \in 1 .. m : out[n] = Follow(out[n - 1], segments[n])
<1> DEFINE m == Len(segments)
           V == Seq(T)
           g == [n \in 1 .. m |-> [out \in V |-> Follow(out, segments[n])]]
           R(h) == [n \in 0 .. m |-> IF n = 0 THEN << >> ELSE Follow(h[n - 1], segments[n])]
<1>1. m \in Nat /\ \A n \in 1 .. m : segments[n] \in T
  OBVIOUS
<1>2. g \in Steps(m, V) /\ << >> \in V
  <2>1. \A out \in V, n \in 1 .. m : Follow(out, segments[n]) \in V
    BY <1>1, FollowType
  <2>2. << >> \in V
    OBVIOUS
  <2> HIDE DEF V
  <2>3. QED
    BY <2>1, <2>2 DEF Steps
<1> HIDE DEF g, V
<1>3. PICK h : Obeys(h, V, << >>, m, g)
  BY <1>1, <1>2, RecursionExists
<1>4. h \in [0 .. m -> V] /\ h[0] = << >> /\ \A n \in 1 .. m : h[n] = g[n][h[n - 1]]
  BY <1>3 DEF Obeys
<1>5. \A n \in 1 .. m : h[n] = Follow(h[n - 1], segments[n])
  <2>1. ASSUME NEW n \in 1 .. m
        PROVE  h[n] = Follow(h[n - 1], segments[n])
    <3>1. n - 1 \in 0 .. m
      BY <1>1
    <3>2. g[n][h[n - 1]] = Follow(h[n - 1], segments[n])
      BY <1>4, <3>1 DEF g
    <3>3. QED
      BY <1>4, <3>2
  <2>2. QED
    BY <2>1
<1>6. h = R(h)
  BY <1>1, <1>4, <1>5
<1>7. Followed(segments) = R(Followed(segments))
  BY <1>6 DEF Followed
<1> DEFINE out == Followed(segments)
<1>8. out[0] = << >> /\ \A n \in 1 .. m : out[n] = Follow(out[n - 1], segments[n])
  BY <1>1, <1>7
<1>9. out = [n \in 0 .. m |-> out[n]]
  BY <1>7
<1> HIDE DEF out
<1> DEFINE S == {n \in 0 .. m : out[n] \in V}
<1>10. 0 .. m \subseteq S
  <2>1. 0 \in S
    BY <1>1, <1>2, <1>8
  <2>2. ASSUME NEW n \in 0 .. m, n < m, n \in S
        PROVE  n + 1 \in S
    <3>1. n + 1 \in 1 .. m /\ (n + 1) - 1 = n /\ n + 1 \in 0 .. m
      BY <1>1, <2>2
    <3>2. out[n + 1] = Follow(out[n], segments[n + 1]) /\ segments[n + 1] \in T
      BY <1>1, <1>8, <3>1
    <3>3. out[n + 1] \in V
      BY <2>2, <3>2, FollowType DEF V
    <3>4. QED
      BY <3>1, <3>3
  <2> HIDE DEF S
  <2>3. QED
    BY <1>1, <2>1, <2>2, InductionTo
<1>11. out \in [0 .. m -> V]
  BY <1>9, <1>10
<1>12. QED
  BY <1>1, <1>8, <1>11 DEF out, V

ParentsOn(segments, i, n) == Cardinality(Parents(segments, i, n))
NamesOn(segments, i, n) == Cardinality(Names(segments, i, n))

(* Is the name at place i still part of the path after n segments?         *)
StillThere(segments, i, n) ==
  /\ IsName(segments[i])
  /\ \A j \in i + 1 .. n : ParentsOn(segments, i, j) <= NamesOn(segments, i, j)

(* What normalize has after n segments are the names still there, in order;*)
(* and after each of them the names outnumber the parents by the names     *)
(* that follow it there.                                                   *)
Lists(segments, out, n, place) ==
  /\ place \in [1 .. Len(out) -> 1 .. n]
  /\ \A k, l \in 1 .. Len(out) : k < l => place[k] < place[l]
  /\ \A i \in 1 .. n :
       StillThere(segments, i, n) <=> \E k \in 1 .. Len(out) : place[k] = i
  /\ \A k \in 1 .. Len(out) :
       /\ out[k] = segments[place[k]]
       /\ NamesOn(segments, place[k], n) =
            ParentsOn(segments, place[k], n) + (Len(out) - k)

LEMMA OneMoreSegment ==
  ASSUME NEW segments, NEW n \in Nat, NEW i \in 1 .. n
  PROVE  /\ ParentsOn(segments, i, n) \in Nat /\ NamesOn(segments, i, n) \in Nat
         /\ ParentsOn(segments, i, n + 1) =
              ParentsOn(segments, i, n) + IF segments[n + 1] = ".." THEN 1 ELSE 0
         /\ NamesOn(segments, i, n + 1) =
              NamesOn(segments, i, n) + IF IsName(segments[n + 1]) THEN 1 ELSE 0
         /\ StillThere(segments, i, n + 1) <=>
              /\ StillThere(segments, i, n)
              /\ ParentsOn(segments, i, n + 1) <= NamesOn(segments, i, n + 1)
<1>1. i \in Nat /\ i <= n
  OBVIOUS
<1>2. /\ ParentsOn(segments, i, n) \in Nat /\ NamesOn(segments, i, n) \in Nat
      /\ ParentsOn(segments, i, n + 1) =
           ParentsOn(segments, i, n) + IF segments[n + 1] = ".." THEN 1 ELSE 0
      /\ NamesOn(segments, i, n + 1) =
           NamesOn(segments, i, n) + IF IsName(segments[n + 1]) THEN 1 ELSE 0
  BY <1>1, CountsGrow DEF ParentsOn, NamesOn
<1>3. i + 1 .. n + 1 = (i + 1 .. n) \union {n + 1}
  BY <1>1
<1>4. StillThere(segments, i, n + 1) <=>
        /\ StillThere(segments, i, n)
        /\ ParentsOn(segments, i, n + 1) <= NamesOn(segments, i, n + 1)
  BY <1>3 DEF StillThere
<1>5. QED
  BY <1>2, <1>4

LEMMA TheNewSegment ==
  ASSUME NEW segments, NEW n \in Nat
  PROVE  /\ StillThere(segments, n + 1, n + 1) <=> IsName(segments[n + 1])
         /\ NamesOn(segments, n + 1, n + 1) = 0 /\ ParentsOn(segments, n + 1, n + 1) = 0
<1>1. (n + 1) + 1 .. n + 1 = {} /\ n + 1 \in Nat
  OBVIOUS
<1>2. NamesOn(segments, n + 1, n + 1) = 0 /\ ParentsOn(segments, n + 1, n + 1) = 0
  BY <1>1, CountsGrow DEF ParentsOn, NamesOn
<1>3. QED
  BY <1>1, <1>2 DEF StillThere

(* Each segment keeps the list: a name is added to it, a parent takes the  *)
(* last name off it, anything else leaves it alone.                        *)
LEMMA ListIsFollowed ==
  ASSUME NEW T, NEW segments, NEW n \in Nat, NEW out \in Seq(T), segments[n + 1] \in T,
         NEW place, Lists(segments, out, n, place)
  PROVE  \E q : Lists(segments, Follow(out, segments[n + 1]), n + 1, q)
<1> DEFINE L == Len(out)
           x == segments[n + 1]
           new == Follow(out, x)
           P(i, j) == ParentsOn(segments, i, j)
           N(i, j) == NamesOn(segments, i, j)
<1>1. L \in Nat /\ n + 1 \notin 1 .. n /\ 1 .. n + 1 = (1 .. n) \union {n + 1}
  OBVIOUS
<1>2. /\ place \in [1 .. L -> 1 .. n]
      /\ \A k, l \in 1 .. L : k < l => place[k] < place[l]
      /\ \A i \in 1 .. n : StillThere(segments, i, n) <=> \E k \in 1 .. L : place[k] = i
      /\ \A k \in 1 .. L : out[k] = segments[place[k]]
      /\ \A k \in 1 .. L : N(place[k], n) = P(place[k], n) + (L - k)
  BY DEF Lists
<1>3. \A i \in 1 .. n :
        /\ P(i, n) \in Nat /\ N(i, n) \in Nat
        /\ P(i, n + 1) = P(i, n) + IF x = ".." THEN 1 ELSE 0
        /\ N(i, n + 1) = N(i, n) + IF IsName(x) THEN 1 ELSE 0
        /\ StillThere(segments, i, n + 1) <=>
             StillThere(segments, i, n) /\ P(i, n + 1) <= N(i, n + 1)
  BY OneMoreSegment
<1>4. /\ StillThere(segments, n + 1, n + 1) <=> IsName(x)
      /\ N(n + 1, n + 1) = 0 /\ P(n + 1, n + 1) = 0
  BY TheNewSegment
<1>5. ASSUME NEW k \in 1 .. L
      PROVE  /\ place[k] \in 1 .. n
             /\ N(place[k], n + 1) - P(place[k], n + 1) =
                  (L - k) + (IF IsName(x) THEN 1 ELSE 0) - (IF x = ".." THEN 1 ELSE 0)
             /\ P(place[k], n + 1) \in Nat /\ N(place[k], n + 1) \in Nat
  <2> DEFINE i == place[k]
             a == IF IsName(x) THEN 1 ELSE 0
             b == IF x = ".." THEN 1 ELSE 0
  <2>1. i \in 1 .. n /\ N(i, n) = P(i, n) + (L - k)
    BY <1>2
  <2>2. P(i, n) \in Nat /\ N(i, n) \in Nat /\ P(i, n + 1) = P(i, n) + b /\ N(i, n + 1) = N(i, n) + a
    BY <1>3, <2>1
  <2>3. a \in {0, 1} /\ b \in {0, 1}
    OBVIOUS
  <2> HIDE DEF i, a, b, P, N, L
  <2>4. N(i, n + 1) - P(i, n + 1) = (L - k) + a - b /\ P(i, n + 1) \in Nat /\ N(i, n + 1) \in Nat
    <3> DEFINE p == P(i, n)
               u == P(i, n + 1)
               v == N(i, n + 1)
    <3>1. p \in Nat /\ u = p + b /\ v = p + (L - k) + a
      BY <2>1, <2>2
    <3>2. L \in Nat /\ k \in 1 .. L
      BY <1>1
    <3> HIDE DEF p, u, v
    <3>3. v - u = (L - k) + a - b /\ u \in Nat /\ v \in Nat
      BY <2>3, <3>1, <3>2
    <3>4. QED
      BY <3>3 DEF u, v
  <2>5. QED
    BY <2>1, <2>4 DEF i, a, b
<1> HIDE DEF L, P, N, x
<1>6. CASE x \in {"", "."}
  <2>1. new = out /\ ~IsName(x) /\ x # ".."
    BY <1>6 DEF Follow, IsName
  <2>2. place \in [1 .. L -> 1 .. n + 1]
    BY <1>1, <1>2
  <2>3. ASSUME NEW k \in 1 .. L
        PROVE  N(place[k], n + 1) = P(place[k], n + 1) + (L - k)
    BY <1>1, <1>5, <2>1
  <2>4. ASSUME NEW i \in 1 .. n + 1
        PROVE  StillThere(segments, i, n + 1) <=> \E k \in 1 .. L : place[k] = i
    <3>1. CASE i = n + 1
      BY <1>1, <1>2, <1>4, <2>1, <3>1
    <3>2. CASE i \in 1 .. n /\ \E k \in 1 .. L : place[k] = i
      <4>1. PICK k \in 1 .. L : place[k] = i
        BY <3>2
      <4>2. P(i, n + 1) <= N(i, n + 1)
        BY <1>1, <1>5, <2>3, <4>1
      <4>3. QED
        BY <1>2, <1>3, <3>2, <4>1, <4>2
    <3>3. CASE i \in 1 .. n /\ ~\E k \in 1 .. L : place[k] = i
      BY <1>2, <1>3, <3>3
    <3>4. QED
      BY <1>1, <3>1, <3>2, <3>3
  <2>5. Lists(segments, new, n + 1, place)
    BY <1>2, <2>1, <2>2, <2>3, <2>4 DEF Lists, L, N, P
  <2>6. QED
    BY <2>5 DEF x
<1>7. CASE x = ".." /\ L = 0
  <2>1. out = << >>
    BY <1>7 DEF L
  <2>2. new = out /\ ~IsName(x)
    BY <1>7, <2>1 DEF Follow, IsName
  <2>3. place \in [1 .. L -> 1 .. n + 1] /\ 1 .. L = {}
    BY <1>1, <1>2, <1>7
  <2>4. ASSUME NEW i \in 1 .. n + 1
        PROVE  ~StillThere(segments, i, n + 1)
    <3>1. CASE i = n + 1
      BY <1>4, <2>2, <3>1
    <3>2. CASE i \in 1 .. n
      BY <1>2, <1>3, <2>3, <3>2
    <3>3. QED
      BY <1>1, <3>1, <3>2
  <2>5. Lists(segments, new, n + 1, place)
    BY <2>2, <2>3, <2>4 DEF Lists, L
  <2>6. QED
    BY <2>5 DEF x
<1>8. CASE x = ".." /\ L # 0
  <2> DEFINE q == [k \in 1 .. L - 1 |-> place[k]]
  <2>1. out # << >>
    BY <1>8 DEF L
  <2>2. new = Front(out) /\ ~IsName(x)
    BY <1>8, <2>1 DEF Follow, IsName
  <2>3. Len(new) = L - 1 /\ \A k \in 1 .. L - 1 : new[k] = out[k]
    BY <2>1, <2>2, FrontOf DEF L
  <2>4. L - 1 \in Nat /\ 1 .. L - 1 \subseteq 1 .. L /\ L \in 1 .. L /\ L \notin 1 .. L - 1
    BY <1>1, <1>8
  <2>5. q \in [1 .. L - 1 -> 1 .. n + 1] /\ \A k \in 1 .. L - 1 : q[k] = place[k]
    BY <1>1, <1>2, <2>4
  <2> HIDE DEF q
  <2>6. ASSUME NEW k \in 1 .. L
        PROVE  N(place[k], n + 1) = P(place[k], n + 1) + ((L - 1) - k)
    BY <1>1, <1>5, <1>8, <2>2
  <2>7. ASSUME NEW k \in 1 .. L
        PROVE  P(place[k], n + 1) <= N(place[k], n + 1) <=> k \in 1 .. L - 1
    BY <1>1, <1>5, <2>6
  <2>8. ASSUME NEW k \in 1 .. L, NEW l \in 1 .. L, place[k] = place[l]
        PROVE  k = l
    <3>1. place[k] \in Nat /\ place[l] \in Nat
      BY <1>5
    <3>2. k < l \/ l < k \/ k = l
      <4>1. k \in Int /\ l \in Int
        BY <1>1
      <4>2. QED
        BY ONLY <4>1
    <3>3. QED
      BY <1>2, <2>8, <3>1, <3>2
  <2>9. ASSUME NEW i \in 1 .. n + 1
        PROVE  StillThere(segments, i, n + 1) <=> \E k \in 1 .. L - 1 : q[k] = i
    <3>1. CASE i = n + 1
      BY <1>1, <1>2, <1>4, <2>2, <2>4, <2>5, <3>1
    <3>2. CASE i \in 1 .. n /\ \E k \in 1 .. L : place[k] = i
      <4>1. PICK k \in 1 .. L : place[k] = i
        BY <3>2
      <4>2. StillThere(segments, i, n + 1) <=> k \in 1 .. L - 1
        BY <1>2, <1>3, <2>7, <3>2, <4>1
      <4>3. (\E l \in 1 .. L - 1 : q[l] = i) <=> k \in 1 .. L - 1
        BY <2>4, <2>5, <2>8, <4>1
      <4>4. QED
        BY <4>2, <4>3
    <3>3. CASE i \in 1 .. n /\ ~\E k \in 1 .. L : place[k] = i
      BY <1>2, <1>3, <2>4, <2>5, <3>3
    <3>4. QED
      BY <1>1, <3>1, <3>2, <3>3
  <2>10. \A k, l \in 1 .. L - 1 : k < l => q[k] < q[l]
    BY <1>2, <2>4, <2>5
  <2>11. \A k \in 1 .. L - 1 :
           new[k] = segments[q[k]] /\ N(q[k], n + 1) = P(q[k], n + 1) + ((L - 1) - k)
    BY <1>2, <2>3, <2>4, <2>5, <2>6
  <2>12. Lists(segments, new, n + 1, q)
    BY <2>3, <2>5, <2>9, <2>10, <2>11 DEF Lists, N, P
  <2>13. QED
    BY <2>12 DEF x
<1>9. CASE x \notin {"", ".", ".."}
  <2> DEFINE q == [k \in 1 .. L + 1 |-> IF k = L + 1 THEN n + 1 ELSE place[k]]
  <2>1. new = Append(out, x) /\ IsName(x) /\ x # ".."
    BY <1>9 DEF Follow, IsName
  <2>2. Len(new) = L + 1 /\ new[L + 1] = x /\ \A k \in 1 .. L : new[k] = out[k]
    BY <2>1 DEF L
  <2>3. 1 .. L + 1 = (1 .. L) \union {L + 1} /\ L + 1 \notin 1 .. L
    BY <1>1
  <2>4. q[L + 1] = n + 1 /\ \A k \in 1 .. L : q[k] = place[k]
    BY <2>3
  <2>5. q \in [1 .. L + 1 -> 1 .. n + 1]
    BY <1>1, <1>2, <2>3
  <2> HIDE DEF q
  <2>6. ASSUME NEW k \in 1 .. L
        PROVE  N(place[k], n + 1) = P(place[k], n + 1) + ((L + 1) - k)
    BY <1>1, <1>5, <2>1
  <2>7. ASSUME NEW i \in 1 .. n + 1
        PROVE  StillThere(segments, i, n + 1) <=> \E k \in 1 .. L + 1 : q[k] = i
    <3>1. CASE i = n + 1
      BY <1>4, <2>1, <2>3, <2>4, <3>1
    <3>2. CASE i \in 1 .. n /\ \E k \in 1 .. L : place[k] = i
      <4>1. PICK k \in 1 .. L : place[k] = i
        BY <3>2
      <4>2. P(i, n + 1) <= N(i, n + 1)
        BY <1>1, <1>5, <2>6, <4>1
      <4>3. k \in 1 .. L + 1 /\ q[k] = i
        BY <2>3, <2>4, <4>1
      <4>4. QED
        BY <1>2, <1>3, <3>2, <4>1, <4>2, <4>3
    <3>3. CASE i \in 1 .. n /\ ~\E k \in 1 .. L : place[k] = i
      <4>1. ~\E k \in 1 .. L + 1 : q[k] = i
        BY <1>1, <2>3, <2>4, <3>3
      <4>2. QED
        BY <1>2, <1>3, <3>3, <4>1
    <3>4. QED
      BY <1>1, <3>1, <3>2, <3>3
  <2>8. ASSUME NEW k \in 1 .. L + 1, NEW l \in 1 .. L + 1, k < l
        PROVE  q[k] < q[l]
    <3>1. k \in 1 .. L
      BY <1>1, <2>8
    <3>2. CASE l = L + 1
      <4>1. place[k] \in 1 .. n
        BY <1>5, <3>1
      <4>2. QED
        BY <2>4, <3>1, <3>2, <4>1
    <3>3. CASE l # L + 1
      BY <1>2, <2>3, <2>4, <2>8, <3>1, <3>3
    <3>4. QED
      BY <3>2, <3>3
  <2>9. ASSUME NEW k \in 1 .. L + 1
        PROVE  new[k] = segments[q[k]] /\ N(q[k], n + 1) = P(q[k], n + 1) + ((L + 1) - k)
    <3>1. CASE k = L + 1
      BY <1>1, <1>4, <2>2, <2>4, <3>1 DEF x
    <3>2. CASE k \in 1 .. L
      BY <1>2, <2>2, <2>4, <2>6, <3>2
    <3>3. QED
      BY <2>3, <3>1, <3>2
  <2>10. Lists(segments, new, n + 1, q)
    BY <2>2, <2>5, <2>7, <2>8, <2>9 DEF Lists, N, P
  <2>11. QED
    BY <2>10 DEF x
<1>10. QED
  BY <1>6, <1>7, <1>8, <1>9

-----------------------------------------------------------------------------
LEMMA EveryPrefixIsListed ==
  ASSUME NEW T, NEW segments \in Seq(T)
  PROVE  LET m == Len(segments)
             out == Followed(segments)[m]
         IN  /\ m \in Nat
             /\ out \in Seq(T)
             /\ \E place : Lists(segments, out, m, place)
<1> DEFINE m == Len(segments)
           out == Followed(segments)
           S == {n \in 0 .. m : \E place : Lists(segments, out[n], n, place)}
<1>1. /\ m \in Nat
      /\ out \in [0 .. m -> Seq(T)]
      /\ out[0] = << >>
      /\ \A n \in 1 .. m : out[n] = Follow(out[n - 1], segments[n])
  BY FollowedSteps
<1>2. \A n \in 1 .. m : segments[n] \in T
  OBVIOUS
<1> HIDE DEF out, m
<1>3. 0 \in S
  <2>1. Len(out[0]) = 0 /\ 1 .. 0 = {}
    BY <1>1
  <2>2. Lists(segments, out[0], 0, << >>)
    BY <2>1 DEF Lists
  <2>3. QED
    BY <1>1, <2>2
<1>4. ASSUME NEW n \in 0 .. m, n < m, n \in S
      PROVE  n + 1 \in S
  <2>1. n + 1 \in 1 .. m /\ (n + 1) - 1 = n /\ n + 1 \in 0 .. m /\ n \in Nat
    BY <1>1, <1>4
  <2>2. PICK place : Lists(segments, out[n], n, place)
    BY <1>4
  <2>3. out[n + 1] = Follow(out[n], segments[n + 1]) /\ out[n] \in Seq(T) /\ segments[n + 1] \in T
    BY <1>1, <1>2, <2>1
  <2>4. \E q : Lists(segments, Follow(out[n], segments[n + 1]), n + 1, q)
    BY <2>1, <2>2, <2>3, ListIsFollowed
  <2>5. QED
    BY <2>1, <2>3, <2>4
<1> HIDE DEF S
<1>5. 0 .. m \subseteq S
  BY <1>1, <1>3, <1>4, InductionTo
<1>6. m \in S /\ m \in 0 .. m
  BY <1>1, <1>5
<1>7. QED
  BY <1>1, <1>6 DEF S, m, out

(* normalize: one pass with a stack gives the names that no parent after   *)
(* them cancels.                                                           *)
THEOREM NormalizeIsMeaning ==
  ASSUME NEW T, NEW segments \in Seq(T)
  PROVE  Normalize(segments) = Meaning(segments)
<1> DEFINE m == Len(segments)
           out == Followed(segments)[m]
           L == Len(out)
           survivors == {i \in DOMAIN segments : Survives(segments, i)}
           places == Ascending(survivors)
           named == [n \in DOMAIN places |-> segments[places[n]]]
<1>1. m \in Nat /\ out \in Seq(T) /\ DOMAIN segments = 1 .. m
  BY EveryPrefixIsListed
<1>2. PICK place : Lists(segments, out, m, place)
  BY EveryPrefixIsListed
<1>3. Normalize(segments) = IF out = << >> THEN <<"">> ELSE out
  BY DEF Normalize
<1>4. Meaning(segments) =
        IF survivors = {} THEN <<"">> ELSE named
  BY DEF Meaning
<1>5. \A i : Survives(segments, i) <=> StillThere(segments, i, m)
  BY DEF Survives, StillThere, ParentsOn, NamesOn
<1> HIDE DEF m, out
<1>6. /\ L \in Nat
      /\ place \in [1 .. L -> 1 .. m]
      /\ \A k, l \in 1 .. L : k < l => place[k] < place[l]
      /\ \A i \in 1 .. m : StillThere(segments, i, m) <=> \E k \in 1 .. L : place[k] = i
      /\ \A k \in 1 .. L : out[k] = segments[place[k]]
  BY <1>1, <1>2 DEF Lists
<1>7. survivors = {place[k] : k \in 1 .. L}
  BY <1>1, <1>5, <1>6, SMTT(20)
<1> HIDE DEF L, survivors
<1>8. places = place
  <2>1. Ascends(place, L, m, survivors)
    BY <1>1, <1>6, <1>7 DEF Ascends
  <2>2. QED
    BY <2>1, AscendingIsInOrder
<1> HIDE DEF places
<1>9. survivors = {} <=> out = << >>
  <2>1. survivors = {} <=> L = 0
    <3>1. L # 0 => 1 \in 1 .. L
      BY <1>6
    <3>2. L = 0 => 1 .. L = {}
      OBVIOUS
    <3>3. QED
      BY <1>7, <3>1, <3>2
  <2>2. L = 0 <=> out = << >>
    BY <1>1 DEF L
  <2>3. QED
    BY <2>1, <2>2
<1>10. named = out
  <2>1. DOMAIN places = 1 .. L
    BY <1>6, <1>8
  <2>2. out = [n \in 1 .. L |-> out[n]]
    BY <1>1 DEF L
  <2>3. \A n \in 1 .. L : segments[places[n]] = out[n]
    BY <1>6, <1>8
  <2>4. QED
    BY <2>1, <2>2, <2>3
<1> HIDE DEF named
<1>11. QED
  <2>1. CASE survivors = {}
    <3>1. Normalize(segments) = <<"">>
      BY <1>3, <1>9, <2>1
    <3>2. Meaning(segments) = <<"">>
      BY <1>4, <2>1
    <3>3. QED
      BY <3>1, <3>2
  <2>2. CASE survivors # {}
    <3>1. Normalize(segments) = out
      BY <1>3, <1>9, <2>2
    <3>2. Meaning(segments) = named
      BY <1>4, <2>2
    <3>3. QED
      BY <1>10, <3>1, <3>2
  <2>3. QED
    BY <2>1, <2>2

(* What an entry of a table is made of.                                    *)
LEMMA CompiledExact ==
  ASSUME NEW t, IsTable(t), NEW n \in 1 .. Len(t.rules)
  PROVE  LET e == t.compiled[n]
             rule == t.rules[e.index]
         IN  /\ e.index \in 1 .. Len(t.rules)
             /\ rule.path.form \in {"regex", "rooted"}
             /\ e.method = Upper[rule.method]
             /\ e.kind = CASE rule.path.form = "regex" -> "regex"
                           [] rule.path.form = "rooted" /\ EndsWithSlash(rule.path.segments) -> "prefix"
                           [] OTHER -> "exact"
             /\ rule.path.form = "rooted" => rule.path.segments \in Seq(STRING)
             /\ e.kind = "regex" => e.path = rule.path.found
             /\ e.kind = "prefix" => e.path = Trim(rule.path.segments)
             /\ e.kind = "exact" => e.path = Meaning(rule.path.segments)
<1> DEFINE e == t.compiled[n]
           i == e.index
           rule == t.rules[i]
<1>1. /\ t.rules \in Tables \union {Initial}
      /\ DOMAIN t.rules = 1 .. Len(t.rules)
      /\ i \in 1 .. Len(t.rules) /\ e = Compile(rule, i)
      /\ Compiles(rule)
  BY TableEntries
<1>2. rule.path.form \in {"regex", "rooted"}
  BY <1>1 DEF Compiles
<1>3. rule.path.form = "rooted" => rule.path.segments \in Seq(STRING)
  BY <1>1, RoutingAssumption
<1> HIDE DEF e, i, rule
<1>4. e.method = Upper[rule.method]
  BY <1>1 DEF Compile
<1>5. CASE rule.path.form = "regex"
  <2>1. e.kind = "regex" /\ e.path = rule.path.found
    BY <1>1, <1>5 DEF Compile
  <2>2. QED
    BY <1>1, <1>2, <1>4, <1>5, <2>1 DEF e, i, rule
<1>6. CASE rule.path.form = "rooted" /\ EndsWithSlash(rule.path.segments)
  <2>1. e.kind = "prefix" /\ e.path = Trim(rule.path.segments)
    BY <1>1, <1>6 DEF Compile
  <2>2. QED
    BY <1>1, <1>2, <1>3, <1>4, <1>6, <2>1 DEF e, i, rule
<1>7. CASE rule.path.form = "rooted" /\ ~EndsWithSlash(rule.path.segments)
  <2>1. e.kind = "exact" /\ e.path = Normalize(rule.path.segments)
    BY <1>1, <1>7 DEF Compile
  <2>2. Normalize(rule.path.segments) = Meaning(rule.path.segments)
    BY <1>3, <1>7, NormalizeIsMeaning
  <2>3. QED
    BY <1>1, <1>2, <1>3, <1>4, <1>7, <2>1, <2>2 DEF e, i, rule
<1>8. QED
  BY <1>2, <1>5, <1>6, <1>7

(* The path of an exact rule is what its dots and slashes mean.            *)
THEOREM ExactPathsMeanTheirNames == CanarySpec => []NormalizeResolves
<1>1. RoutingInv => NormalizeResolves
  <2> SUFFICES ASSUME RoutingInv
               PROVE  NormalizeResolves
    OBVIOUS
  <2>1. IsTable(table)
    BY DEF RoutingInv
  <2>2. DOMAIN table.compiled = 1 .. Len(table.rules)
    BY <2>1, TableEntries
  <2>3. \A n \in 1 .. Len(table.rules) :
          LET e == table.compiled[n]
          IN  e.kind = "exact" => e.path = Meaning(table.rules[e.index].path.segments)
    BY <2>1, CompiledExact
  <2>4. QED
    BY <2>2, <2>3 DEF NormalizeResolves
<1>2. QED
  BY <1>1, CanaryIsRouting, RoutingInvariant, PTL

-----------------------------------------------------------------------------
LEMMA SubSeqIs ==
  ASSUME NEW T, NEW s \in Seq(T), NEW n \in Nat, n <= Len(s)
  PROVE  SubSeq(s, 1, n) = [i \in 1 .. n |-> s[i]]
OBVIOUS

LEMMA PrefixMeans ==
  ASSUME NEW T, NEW s \in Seq(T), NEW t \in Seq(T)
  PROVE  IsPrefix(s, t) <=> Len(s) <= Len(t) /\ \A i \in 1 .. Len(s) : t[i] = s[i]
<1>1. Len(s) \in Nat /\ Len(t) \in Nat
  OBVIOUS
<1>2. ASSUME Len(s) <= Len(t)
      PROVE  SubSeq(s, 1, Len(s)) = SubSeq(t, 1, Len(s)) <=> \A i \in 1 .. Len(s) : t[i] = s[i]
  <2>1. /\ SubSeq(s, 1, Len(s)) = [i \in 1 .. Len(s) |-> s[i]]
        /\ SubSeq(t, 1, Len(s)) = [i \in 1 .. Len(s) |-> t[i]]
    BY <1>1, <1>2, SubSeqIs
  <2>2. QED
    BY <2>1
<1>3. QED
  BY <1>2 DEF IsPrefix

(* A prefix rule reaches what begins with its path, trailing slashes cut.  *)
LEMMA TrimmedPrefix ==
  ASSUME NEW T, NEW own \in Seq(T), NEW path \in Seq(T)
  PROVE  IsPrefix(Trim(own), path) <=>
           \A i \in DOMAIN own :
             (\E j \in i .. Len(own) : own[j] # "") => i <= Len(path) /\ path[i] = own[i]
<1> DEFINE m == Len(own)
           Kept(n) == own[n] # ""
           kept == {n \in 1 .. m : Kept(n)}
           t == CHOOSE n \in kept \union {0} : \A k \in kept : k <= n
<1>1. m \in Nat /\ DOMAIN own = 1 .. m /\ Len(path) \in Nat
  OBVIOUS
<1>0. m = Len(own)
  OBVIOUS
<1> HIDE DEF m, Kept
<1>2. t \in kept \union {0} /\ \A k \in kept : k <= t
  <2>1. CASE kept = {}
    BY <2>1
  <2>2. CASE kept # {}
    <3>1. kept \in SUBSET (0 .. m)
      BY <1>1
    <3> HIDE DEF kept
    <3>2. \E x \in kept : \A y \in kept : y <= x
      BY <1>1, <2>2, <3>1, GreatestNatural
    <3>3. QED
      BY <3>2
  <2>3. QED
    BY <2>1, <2>2
<1>3. Trim(own) = SubSeq(own, 1, t)
  BY <1>0, <1>1 DEF Trim, Kept
<1> HIDE DEF t
<1>4. t \in 0 .. m /\ t \in Nat /\ 1 .. t \subseteq 1 .. m
  BY <1>1, <1>2
<1>5. SubSeq(own, 1, t) = [i \in 1 .. t |-> own[i]]
  BY <1>0, <1>4, SubSeqIs
<1>6. Trim(own) \in Seq(T) /\ Len(Trim(own)) = t /\ \A i \in 1 .. t : Trim(own)[i] = own[i]
  BY <1>0, <1>3, <1>4, <1>5
<1>7. IsPrefix(Trim(own), path) <=> t <= Len(path) /\ \A i \in 1 .. t : path[i] = own[i]
  BY <1>6, PrefixMeans
<1>8. ASSUME NEW i \in 1 .. m
      PROVE  (\E j \in i .. m : Kept(j)) <=> i \in 1 .. t
  <2>1. ASSUME NEW j \in i .. m, Kept(j)
        PROVE  i \in 1 .. t
    <3>1. j \in kept /\ i <= j
      BY <1>1, <2>1
    <3>2. j <= t
      BY <1>2, <3>1
    <3>3. QED
      BY <1>1, <1>4, <3>1, <3>2
  <2>2. ASSUME i \in 1 .. t
        PROVE  \E j \in i .. m : Kept(j)
    <3>1. t # 0
      BY <1>4, <2>2
    <3>2. t \in kept
      BY <1>2, <3>1
    <3>3. t \in i .. m /\ Kept(t)
      BY <1>1, <1>4, <2>2, <3>2
    <3>4. QED
      BY <3>3
  <2>3. QED
    BY <2>1, <2>2
<1>9. (t <= Len(path) /\ \A i \in 1 .. t : path[i] = own[i]) <=>
        \A i \in 1 .. t : i <= Len(path) /\ path[i] = own[i]
  <2>1. CASE t = 0
    BY <1>1, <2>1
  <2>2. CASE t # 0
    <3>1. t \in 1 .. t
      BY <1>4, <2>2
    <3>2. QED
      BY <1>1, <1>4, <3>1
  <2>3. QED
    BY <2>1, <2>2
<1>10. (\A i \in 1 .. t : i <= Len(path) /\ path[i] = own[i]) <=>
         \A i \in 1 .. m : (\E j \in i .. m : Kept(j)) =>
                             i <= Len(path) /\ path[i] = own[i]
  BY <1>4, <1>8
<1>11. QED
  BY <1>0, <1>1, <1>7, <1>9, <1>10 DEF Kept

(* An entry of a table matches what its rule wants.                        *)
LEMMA EntryIsItsRule ==
  ASSUME NEW t, IsTable(t), NEW n \in 1 .. Len(t.rules), NEW r \in Requests
  PROVE  LET e == t.compiled[n]
         IN  /\ FullMatch(e, t.rules, r) <=> Wants(t.rules[e.index], r)
             /\ Priority(e.kind) = Rank(t.rules[e.index])
<1> DEFINE e == t.compiled[n]
           rule == t.rules[e.index]
           own == rule.path.segments
<1>1. /\ rule.path.form \in {"regex", "rooted"}
      /\ e.method = Upper[rule.method]
      /\ e.kind = CASE rule.path.form = "regex" -> "regex"
                    [] rule.path.form = "rooted" /\ EndsWithSlash(own) -> "prefix"
                    [] OTHER -> "exact"
      /\ rule.path.form = "rooted" => own \in Seq(STRING)
      /\ e.kind = "regex" => e.path = rule.path.found
      /\ e.kind = "prefix" => e.path = Trim(own)
      /\ e.kind = "exact" => e.path = Meaning(own)
  BY CompiledExact
<1>2. r.path \in Seq(STRING)
  BY RoutingAssumption
<1>3. MethodMatches(e, r) <=> Upper[rule.method] \in {AnyMethod, Upper[r.method]}
  BY <1>1 DEF MethodMatches
<1>4. FullMatch(e, t.rules, r) <=>
        MethodMatches(e, r) /\ PathMatches(e, r.path) /\ rule.needs \subseteq r.has
  BY DEF FullMatch
<1> HIDE DEF e, rule
<1>5. Wants(rule, r) <=>
        /\ Upper[rule.method] \in {AnyMethod, Upper[r.method]}
        /\ Reaches(rule, r.path)
        /\ rule.needs \subseteq r.has
  BY DEF Wants
<1>6. (PathMatches(e, r.path) <=> Reaches(rule, r.path)) /\ Priority(e.kind) = Rank(rule)
  <2>1. CASE rule.path.form = "regex"
    <3>1. e.kind = "regex" /\ Rank(rule) = 3 /\ e.path = rule.path.found
      BY <1>1, <2>1 DEF Rank
    <3>2. QED
      BY <3>1 DEF PathMatches, Reaches, Priority
  <2>2. CASE rule.path.form = "rooted" /\ EndsWithSlash(own)
    <3>1. e.kind = "prefix" /\ Rank(rule) = 2 /\ e.path = Trim(own) /\ own \in Seq(STRING)
      BY <1>1, <2>2 DEF Rank
    <3>2. PathMatches(e, r.path) <=> IsPrefix(Trim(own), r.path)
      BY <3>1 DEF PathMatches
    <3>3. Reaches(rule, r.path) <=>
            \A i \in DOMAIN own :
              (\E j \in i .. Len(own) : own[j] # "") =>
                i <= Len(r.path) /\ r.path[i] = own[i]
      BY <3>1 DEF Reaches
    <3>4. Priority(e.kind) = Rank(rule)
      BY <3>1 DEF Priority
    <3>5. IsPrefix(Trim(own), r.path) <=>
            \A i \in DOMAIN own :
              (\E j \in i .. Len(own) : own[j] # "") =>
                i <= Len(r.path) /\ r.path[i] = own[i]
      <4> DEFINE path == r.path
                 T == STRING
      <4>1. own \in Seq(T) /\ path \in Seq(T)
        BY <1>2, <3>1
      <4> HIDE DEF own, path, T
      <4>2. IsPrefix(Trim(own), path) <=>
              \A i \in DOMAIN own :
                (\E j \in i .. Len(own) : own[j] # "") => i <= Len(path) /\ path[i] = own[i]
        BY <4>1, TrimmedPrefix, Zenon
      <4>3. QED
        BY <4>2 DEF own, path
    <3>6. QED
      BY <3>2, <3>3, <3>4, <3>5
  <2>3. CASE rule.path.form = "rooted" /\ ~EndsWithSlash(own)
    <3>1. e.kind = "exact" /\ Rank(rule) = 1 /\ e.path = Meaning(own)
      BY <1>1, <2>3 DEF Rank
    <3>2. QED
      BY <3>1 DEF PathMatches, Reaches, Priority
  <2>4. QED
    BY <1>1, <2>1, <2>2, <2>3
<1>7. QED
  BY <1>3, <1>4, <1>5, <1>6 DEF e, rule

(* A request gets the best rule of the table it found, whatever is         *)
(* registered in whatever order, and replaced meanwhile.                   *)
THEOREM BestRuleWins == CanarySpec => []MatchIsBest
<1>1. RoutingInv => MatchIsBest
  <2> SUFFICES ASSUME RoutingInv, request # << >>, cursor = 0
               PROVE  MatchIsBest
    BY DEF MatchIsBest
  <2> DEFINE rules == snapshot.rules
             e == snapshot.compiled
             m == Len(rules)
  <2>1. /\ m \in Nat /\ DOMAIN rules = 1 .. m
        /\ \A n \in 1 .. m : e[n].index \in 1 .. m
        /\ \A i \in 1 .. m : \E n \in 1 .. m : e[n].index = i
        /\ \A k, l \in 1 .. m : k <= l <=> TriedBefore(e[k], e[l])
    BY TableEntries DEF RoutingInv
  <2>2. request \in Requests /\ IsTable(snapshot) /\ FirstIsTaken
    BY DEF RoutingInv
  <2>3. \A n \in 1 .. m :
          /\ Matches(n) <=> Wants(rules[e[n].index], request)
          /\ Priority(e[n].kind) = Rank(rules[e[n].index])
    BY <2>2, EntryIsItsRule DEF Matches
  <2> HIDE DEF rules, e, m
  <2>4. CASE result = 0
    <3>1. \A n \in 1 .. m : ~Matches(n)
      BY <2>2, <2>4 DEF FirstIsTaken, m, rules
    <3>2. \A i \in 1 .. m : ~Wants(rules[i], request)
      BY <2>1, <2>3, <3>1
    <3>3. QED
      BY <2>1, <2>4, <3>2 DEF MatchIsBest, rules
  <2>5. CASE result # 0
    <3>1. PICK n \in 1 .. m :
            e[n].index = result /\ Matches(n) /\ \A k \in 1 .. n - 1 : ~Matches(k)
      BY <2>2, <2>5 DEF FirstIsTaken, m, rules, e
    <3>2. Wants(rules[result], request)
      BY <2>3, <3>1
    <3>3. ASSUME NEW j \in 1 .. m, Wants(rules[j], request)
          PROVE  \/ Rank(rules[result]) < Rank(rules[j])
                 \/ Rank(rules[result]) = Rank(rules[j]) /\ result <= j
      <4>1. PICK k \in 1 .. m : e[k].index = j
        BY <2>1
      <4>2. Matches(k)
        BY <2>3, <3>3, <4>1
      <4>3. n <= k
        BY <2>1, <3>1, <4>2
      <4>4. TriedBefore(e[n], e[k])
        BY <2>1, <4>3
      <4>5. QED
        BY <2>3, <3>1, <4>1, <4>4 DEF TriedBefore
    <3>4. IsBest(rules, request, result)
      BY <2>1, <3>2, <3>3 DEF IsBest
    <3>5. QED
      BY <2>5, <3>4 DEF MatchIsBest, rules
  <2>6. QED
    BY <2>4, <2>5
<1>2. QED
  BY <1>1, CanaryIsRouting, RoutingInvariant, PTL

-----------------------------------------------------------------------------
(* Only one reload runs if none of them overlaps another, the table is not *)
(* newer than the file, nor than what a lone reload has read.              *)
Order ==
  /\ served.version <= routes.version
  /\ \A r \in Reloads :
       /\ phase[r] = "store" => files[r].routes.version <= routes.version
       /\ (phase[r] # "idle" /\ ~overlaps[r]) => Running = {r}
       /\ (phase[r] = "store" /\ ~overlaps[r]) =>
            served.version <= files[r].routes.version

Wholeness ==
  /\ Loads(OnDisk) => routes.version \in whole
  /\ \A r \in Reloads :
       ~torn[r] =>
         /\ phase[r] = "routes" => files[r].defaults = defaults
         /\ (phase[r] = "store" /\ Loads(files[r])) =>
              files[r].routes.version \in whole

USE NoneAssumption

LEMMA InitType == ReloadInit => ReloadTypeOK
<1> SUFFICES ASSUME ReloadInit
             PROVE  ReloadTypeOK
  OBVIOUS
<1>1. Unread \in [defaults : BOOLEAN \union {Nothing}, routes : RoutesFile \union {Nothing}]
  BY DEF Unread
<1>2. \A r \in Reloads : /\ phase[r] = "idle"
                         /\ files[r].defaults = Nothing
                         /\ files[r].routes = Nothing
  BY DEF ReloadInit, Unread
<1>3. routes \in RoutesFile /\ served \in RoutesFile
  BY DEF ReloadInit, RoutesFile
<1>4. /\ phase \in [Reloads -> {"idle", "defaults", "routes", "store"}]
      /\ files \in [Reloads -> [defaults : BOOLEAN \union {Nothing},
                               routes   : RoutesFile \union {Nothing}]]
  BY <1>1 DEF ReloadInit
<1>5. /\ overlaps \in [Reloads -> BOOLEAN]
      /\ torn \in [Reloads -> BOOLEAN]
      /\ defaults \in BOOLEAN /\ notified \in BOOLEAN
  BY Zenon DEF ReloadInit
<1>6. whole \in SUBSET Nat
  BY DEF ReloadInit
<1>7. QED
  BY <1>2, <1>3, <1>4, <1>5, <1>6 DEF ReloadTypeOK

LEMMA NextType == ReloadTypeOK /\ [ReloadNext]_reloadVars => ReloadTypeOK'
<1> SUFFICES ASSUME ReloadTypeOK, [ReloadNext]_reloadVars
             PROVE  ReloadTypeOK'
  OBVIOUS
<1> USE DEF ReloadTypeOK, RoutesFile
<1>1. CASE Edit
  <2>1. CASE EditDefaults
    BY <2>1 DEF EditDefaults, Edited
  <2>2. ASSUME NEW text \in {"valid", "invalid", "empty"}, EditRoutes(text)
        PROVE  ReloadTypeOK'
    <3>1. /\ routes.version \in Nat
          /\ routes' = [version |-> routes.version + 1, text |-> text]
      BY <2>2 DEF EditRoutes
    <3>2. routes' \in RoutesFile /\ routes'.version \in Nat
      BY <3>1
    <3>3. QED
      BY <2>2, <3>2 DEF EditRoutes, Edited
  <2>3. QED
    BY <1>1, <2>1, <2>2 DEF Edit, TruncateRoutes, MoveRoutes, WriteRoutes
<1>2. ASSUME NEW r \in Reloads, Start(r)
      PROVE  ReloadTypeOK'
  BY <1>2 DEF Start, Advance, Running
<1>3. ASSUME NEW r \in Reloads, ReadDefaults(r)
      PROVE  ReloadTypeOK'
  BY <1>3 DEF ReadDefaults, Advance, history
<1>4. ASSUME NEW r \in Reloads, ReadRoutes(r)
      PROVE  ReloadTypeOK'
  BY <1>4 DEF ReadRoutes, Advance, history
<1>5. ASSUME NEW r \in Reloads, Store(r)
      PROVE  ReloadTypeOK'
  BY <1>5 DEF Store, Advance, history, Unread, Loads
<1>6. CASE UNCHANGED reloadVars
  BY <1>6 DEF reloadVars
<1>7. QED
  BY <1>1, <1>2, <1>3, <1>4, <1>5, <1>6 DEF ReloadNext, Step

(* Whatever edits and reloads do, table, files and reloads are well typed; *)
(* in particular a reload holds exactly what its place says it has read.   *)
THEOREM TypeCorrect == ReloadSpec => []ReloadTypeOK
  BY InitType, NextType, PTL DEF ReloadSpec

-----------------------------------------------------------------------------
(* An edit, seen by the invariants: the routes do not change, or are newer *)
(* than they were; default.yaml changes under whoever has read it, or not  *)
(* at all; and a configuration that loads is remembered.                   *)
LEMMA EditEffect ==
  ASSUME ReloadTypeOK, Edit
  PROVE  /\ UNCHANGED <<served, phase, files, overlaps>>
         /\ \/ routes' = routes
            \/ routes'.version = routes.version + 1
         /\ \/ torn' = torn /\ defaults' = defaults
            \/ torn' = [r \in Reloads |-> torn[r] \/ phase[r] = "routes"]
         /\ whole \subseteq whole'
         /\ Loads(OnDisk)' => routes'.version \in whole'
<1> USE DEF Edited, Loads, OnDisk
<1>1. CASE EditDefaults
  BY <1>1 DEF EditDefaults
<1>2. ASSUME NEW text, EditRoutes(text)
      PROVE  /\ UNCHANGED <<served, phase, files, overlaps, torn, defaults>>
             /\ routes'.version = routes.version + 1
             /\ whole \subseteq whole'
             /\ Loads(OnDisk)' => routes'.version \in whole'
  BY <1>2 DEF EditRoutes
<1>3. QED
  BY <1>1, <1>2 DEF Edit, TruncateRoutes, MoveRoutes, WriteRoutes

LEMMA InitOrder == ReloadInit => Order
  BY DEF ReloadInit, Order, Running

LEMMA NextOrder == ReloadTypeOK /\ Order /\ [ReloadNext]_reloadVars => Order'
<1> SUFFICES ASSUME ReloadTypeOK, Order, [ReloadNext]_reloadVars
             PROVE  Order'
  OBVIOUS
<1> USE DEF ReloadTypeOK, RoutesFile, Order, Running
<1>1. CASE Edit
  BY <1>1, EditEffect
<1>2. ASSUME NEW r \in Reloads, Start(r)
      PROVE  Order'
  <2>1. /\ phase[r] = "idle" /\ phase' = [phase EXCEPT ![r] = "defaults"]
        /\ UNCHANGED <<routes, served, files>>
        /\ \A o \in Reloads : overlaps'[o] =
             IF o = r THEN Running # {} ELSE overlaps[o] \/ o \in Running
    BY <1>2 DEF Start, Advance
  <2>2. ASSUME NEW o \in Reloads, phase'[o] # "idle", ~overlaps'[o]
        PROVE  o = r /\ Running = {}
    BY <2>1, <2>2
  <2>3. \A o \in Reloads : (phase'[o] # "idle" /\ ~overlaps'[o]) => Running' = {o}
    BY <2>1, <2>2
  <2>4. QED
    BY <2>1, <2>2, <2>3
<1>3. ASSUME NEW r \in Reloads, ReadDefaults(r)
      PROVE  Order'
  BY <1>3 DEF ReadDefaults, Advance, history
<1>4. ASSUME NEW r \in Reloads, ReadRoutes(r)
      PROVE  Order'
  BY <1>4 DEF ReadRoutes, Advance, history
<1>5. ASSUME NEW r \in Reloads, Store(r)
      PROVE  Order'
  <2>1. \A o \in Reloads \ {r} : phase[o] # "idle" => overlaps[o]
    BY <1>5 DEF Store, Advance
  <2>2. QED
    BY <1>5, <2>1 DEF Store, Advance, history
<1>6. CASE UNCHANGED reloadVars
  BY <1>6 DEF reloadVars
<1>7. QED
  BY <1>1, <1>2, <1>3, <1>4, <1>5, <1>6 DEF ReloadNext, Step

LEMMA InitWholeness == ReloadInit => Wholeness
  BY DEF ReloadInit, Wholeness

LEMMA NextWholeness == ReloadTypeOK /\ Wholeness /\ [ReloadNext]_reloadVars => Wholeness'
<1> SUFFICES ASSUME ReloadTypeOK, Wholeness, [ReloadNext]_reloadVars
             PROVE  Wholeness'
  OBVIOUS
<1> USE DEF ReloadTypeOK, Wholeness, Loads, OnDisk
<1>1. CASE Edit
  BY <1>1, EditEffect
<1>2. ASSUME NEW r \in Reloads, Start(r)
      PROVE  Wholeness'
  BY <1>2 DEF Start, Advance
<1>3. ASSUME NEW r \in Reloads, ReadDefaults(r)
      PROVE  Wholeness'
  BY <1>3 DEF ReadDefaults, Advance, history
<1>4. ASSUME NEW r \in Reloads, ReadRoutes(r)
      PROVE  Wholeness'
  BY <1>4 DEF ReadRoutes, Advance, history
<1>5. ASSUME NEW r \in Reloads, Store(r)
      PROVE  Wholeness'
  BY <1>5 DEF Store, Advance, history
<1>6. CASE UNCHANGED reloadVars
  BY <1>6 DEF reloadVars
<1>7. QED
  BY <1>1, <1>2, <1>3, <1>4, <1>5, <1>6 DEF ReloadNext, Step

-----------------------------------------------------------------------------
(* Rollback, for any number of reloads and edits: a reload between whose   *)
(* reads default.yaml was left alone stores only routes that were on disk  *)
(* with a default.yaml they load with.                                     *)
THEOREM OnlyWholeConfigurationsAreServed == ReloadSpec => StoresWhatWasWhole
<1>1. ASSUME ReloadTypeOK, Wholeness, [ReloadNext]_reloadVars
      PROVE  [\A r \in Reloads :
                (Store(r) /\ served' # served /\ ~torn[r])
                  => served'.version \in whole]_reloadVars
  BY <1>1 DEF Wholeness, Store, Advance
<1>2. QED
  BY <1>1, InitType, NextType, InitWholeness, NextWholeness, PTL
     DEF ReloadSpec, StoresWhatWasWhole

(* A reload that no other reload overlaps never puts older routes in force *)
(* than those it replaces, whatever was edited while it ran.               *)
THEOREM LoneReloadsNeverGoBack == ReloadSpec => NeverBackAlone
<1>1. ASSUME ReloadTypeOK, Order, [ReloadNext]_reloadVars
      PROVE  [\A r \in Reloads :
                (Store(r) /\ ~overlaps[r])
                  => served'.version >= served.version]_reloadVars
  BY <1>1 DEF ReloadTypeOK, RoutesFile, Order, Store, Advance
<1>2. QED
  BY <1>1, InitType, NextType, InitOrder, NextOrder, PTL
     DEF ReloadSpec, NeverBackAlone
=============================================================================
