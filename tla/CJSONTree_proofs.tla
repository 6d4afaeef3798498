---------------------------- MODULE CJSONTree_proofs ----------------------------
(* The tree functions of cjson.c keep an ordered forest, whatever the number   *)
(* of blocks and names. That no link of an item in use leads to freed memory   *)
(* is not inductive: it allows two containers to have the same first child,    *)
(* and deleting one would leave the other pointing into freed memory. The      *)
(* invariant says more: the links represent a sequence of children for each    *)
(* container, no item has two places in them, items without a place have no    *)
(* neighbours, and no item is below itself. Each call moves from one family of *)
(* sequences to another, and the move is a step that JsonForest allows.        *)
EXTENDS CJSONTree, FiniteSetTheorems, SequenceTheorems, WellFoundedInduction, TLAPS

-----------------------------------------------------------------------------
(* Facts about natural numbers and repetition, in place of induction over data.*)

\* A set of natural numbers that is not empty has a least element.
LEMMA LeastElement ==
  ASSUME NEW T \in SUBSET Nat, T # {}
  PROVE  \E m \in T : \A i \in T : ~(i < m)
<1>1. PICK m \in T : \A i \in T : <<i, m>> \notin OpToRel(<, Nat)
  BY NatLessThanWellFounded, WFMin
<1>2. m \in Nat /\ \A i \in T : i \in Nat
  OBVIOUS
<1> QED BY <1>1, <1>2 DEF OpToRel

\* A set of natural numbers that has 0, and each number after one it has, has all.
LEMMA AllNumbers ==
  ASSUME NEW T \in SUBSET Nat, 0 \in T, \A m \in T : m + 1 \in T
  PROVE  T = Nat
<1> SUFFICES ASSUME Nat \ T # {} PROVE FALSE
  OBVIOUS
<1>1. PICK m \in Nat \ T : \A i \in Nat \ T : ~(i < m)
  BY LeastElement
<1>2. m - 1 \in Nat /\ m - 1 < m /\ (m - 1) + 1 = m
  <2>1. m # 0
    OBVIOUS
  <2> QED BY <2>1
<1>3. m - 1 \in T
  BY <1>1, <1>2
<1> QED BY <1>2, <1>3

\* The first n + 1 values of repeating the function G from s on.
Prefix(S, s, G, n, f) ==
  f \in [0..n -> S] /\ f[0] = s /\ \A m \in 0..(n - 1) : f[m + 1] = G[f[m]]

\* A function can be repeated for ever.
LEMMA Repeated ==
  ASSUME NEW S, NEW s \in S, NEW G \in [S -> S]
  PROVE  \E f \in [Nat -> S] : f[0] = s /\ \A n \in Nat : f[n + 1] = G[f[n]]
<1>1. ASSUME NEW n \in Nat, NEW m \in Nat, n <= m, NEW f, NEW g,
             Prefix(S, s, G, n, f), Prefix(S, s, G, m, g)
      PROVE  \A k \in 0..n : f[k] = g[k]
  <2> DEFINE T == {k \in Nat : k <= n => f[k] = g[k]}
  <2>1. 0 \in T
    BY <1>1 DEF Prefix
  <2>2. ASSUME NEW k \in T PROVE k + 1 \in T
    <3> SUFFICES ASSUME k + 1 <= n PROVE f[k + 1] = g[k + 1]
      OBVIOUS
    <3>1. k \in 0..(n - 1) /\ k \in 0..(m - 1) /\ k <= n
      BY <1>1
    <3>2. f[k] = g[k]
      BY <3>1
    <3> QED BY <1>1, <3>1, <3>2 DEF Prefix
  <2> HIDE DEF T
  <2>3. T = Nat
    BY <2>1, <2>2, AllNumbers DEF T
  <2> QED BY <2>3 DEF T
<1>2. \A n \in Nat : \E f : Prefix(S, s, G, n, f)
  <2> DEFINE T == {n \in Nat : \E f : Prefix(S, s, G, n, f)}
  <2>1. 0 \in T
    <3>1. Prefix(S, s, G, 0, [m \in 0..0 |-> s])
      BY DEF Prefix
    <3> QED BY <3>1
  <2>2. ASSUME NEW n \in T PROVE n + 1 \in T
    <3>1. PICK f : Prefix(S, s, G, n, f)
      OBVIOUS
    <3> DEFINE g == [m \in 0..(n + 1) |-> IF m = n + 1 THEN G[f[n]] ELSE f[m]]
    <3>2. f \in [0..n -> S] /\ n \in 0..n /\ n \in Nat
      BY <3>1 DEF Prefix
    <3>3. g \in [0..(n + 1) -> S] /\ g[0] = s
      <4>1. \A m \in 0..(n + 1) : m # n + 1 => m \in 0..n
        BY <3>2
      <4>2. 0 \in 0..(n + 1) /\ 0 # n + 1
        BY <3>2
      <4> QED BY <3>1, <3>2, <4>1, <4>2 DEF Prefix
    <3>4. ASSUME NEW m \in 0..((n + 1) - 1) PROVE g[m + 1] = G[g[m]]
      <4>1. m \in 0..n /\ m + 1 \in 0..(n + 1) /\ m \in 0..(n + 1) /\ m # n + 1
        BY <3>2
      <4>2. CASE m = n
        BY <4>1, <4>2
      <4>3. CASE m # n
        <5>1. m \in 0..(n - 1) /\ m + 1 # n + 1
          BY <3>2, <4>1, <4>3
        <5> QED BY <3>1, <4>1, <5>1 DEF Prefix
      <4> QED BY <4>2, <4>3
    <3> HIDE DEF g
    <3>5. Prefix(S, s, G, n + 1, g)
      BY <3>3, <3>4 DEF Prefix
    <3> QED BY <3>2, <3>5
  <2> HIDE DEF T
  <2>3. T = Nat
    BY <2>1, <2>2, AllNumbers DEF T
  <2> QED BY <2>3 DEF T
<1> DEFINE pre(n) == CHOOSE f : Prefix(S, s, G, n, f)
           h == [n \in Nat |-> pre(n)[n]]
<1>3. \A n \in Nat : Prefix(S, s, G, n, pre(n))
  BY <1>2
<1> HIDE DEF pre
<1>4. h \in [Nat -> S]
  <2>1. \A n \in Nat : n \in 0..n
    OBVIOUS
  <2> QED BY <1>3, <2>1 DEF Prefix
<1>5. h[0] = s
  BY <1>3 DEF Prefix
<1>6. ASSUME NEW n \in Nat PROVE h[n + 1] = G[h[n]]
  <2>1. n + 1 \in Nat /\ n \in 0..n /\ n \in 0..((n + 1) - 1) /\ n <= n + 1
    OBVIOUS
  <2>2. pre(n)[n] = pre(n + 1)[n]
    BY <1>1, <1>3, <2>1
  <2>3. pre(n + 1)[n + 1] = G[pre(n + 1)[n]]
    BY <1>3, <2>1 DEF Prefix
  <2> QED BY <2>1, <2>2, <2>3
<1> HIDE DEF h
<1> QED BY <1>4, <1>5, <1>6

-----------------------------------------------------------------------------
(* What Closure computes.                                                      *)

\* Closure(i, step) is the least set that has i and that step does not leave, among
\* the subsets of a set with at most one element more than there are items.
LEMMA ClosureIn ==
  ASSUME NEW U, IsFiniteSet(U), Cardinality(U) <= Cardinality(Item) + 1,
         NEW i \in U, NEW step \in [U -> SUBSET (U \cup {NULL})]
  PROVE  /\ Closure(i, step) \in SUBSET U /\ i \in Closure(i, step)
         /\ \A y \in Closure(i, step) : step[y] \subseteq Closure(i, step) \cup {NULL}
         /\ \A S \in SUBSET U :
              i \in S /\ (\A y \in S : step[y] \subseteq S \cup {NULL}) => Closure(i, step) \subseteq S
<1> DEFINE wider(X) == X \cup ((UNION {step[y] : y \in X}) \ {NULL})
           G == [X \in SUBSET U |-> wider(X)]
<1>w. ASSUME NEW X \in SUBSET U
      PROVE  /\ wider(X) \in SUBSET U /\ X \subseteq wider(X)
             /\ \A y \in X : step[y] \subseteq wider(X) \cup {NULL}
             /\ \A S \in SUBSET U :
                  X \subseteq S /\ (\A y \in S : step[y] \subseteq S \cup {NULL}) => wider(X) \subseteq S
  <2>1. \A z : z \in wider(X) <=> z \in X \/ (z # NULL /\ \E y \in X : z \in step[y])
    <3> DEFINE V == UNION {step[y] : y \in X}
    <3>1. \A z : z \in V <=> \E y \in X : z \in step[y]
      BY Zenon
    <3>2. wider(X) = X \cup (V \ {NULL})
      OBVIOUS
    <3> HIDE DEF V, wider
    <3> QED BY <3>1, <3>2
  <2> HIDE DEF wider
  <2>2. \A y \in X : step[y] \subseteq U \cup {NULL}
    OBVIOUS
  <2> QED BY <2>1, <2>2
<1> HIDE DEF wider
<1>1. PICK r : /\ r = [n \in Nat |-> IF n = 0 THEN {i}
                                     ELSE r[n - 1] \cup ((UNION {step[y] : y \in r[n - 1]}) \ {NULL})]
               /\ Closure(i, step) = r[Cardinality(Item)]
  <2> DEFINE P == SUBSET U
  <2>2. {i} \in P /\ G \in [P -> P]
    BY <1>w
  <2> HIDE DEF G, P
  <2>3. PICK f \in [Nat -> P] : f[0] = {i} /\ \A n \in Nat : f[n + 1] = G[f[n]]
    BY <2>2, Repeated, SMTT(30)
  <2> USE DEF P
  <2>4. ASSUME NEW n \in Nat
        PROVE  f[n] = IF n = 0 THEN {i} ELSE wider(f[n - 1])
    <3>1. CASE n = 0
      BY <2>3, <3>1
    <3>2. CASE n # 0
      <4>1. n - 1 \in Nat /\ (n - 1) + 1 = n
        BY <3>2
      <4>2. f[n] = G[f[n - 1]] /\ f[n - 1] \in SUBSET U
        BY <2>3, <4>1
      <4> QED BY <3>2, <4>2 DEF G
    <3> QED BY <3>1, <3>2
  <2>5. f = [n \in Nat |-> IF n = 0 THEN {i} ELSE wider(f[n - 1])]
    BY <2>4
  <2> QED BY <2>5 DEF Closure, wider
<1>2. /\ r[0] = {i}
      /\ \A n \in Nat : r[n + 1] = wider(r[n])
  <2>1. \A n \in Nat : r[n] = IF n = 0 THEN {i} ELSE wider(r[n - 1])
    BY <1>1 DEF wider
  <2>2. ASSUME NEW n \in Nat PROVE r[n + 1] = wider(r[n])
    <3>1. n + 1 \in Nat /\ n + 1 # 0 /\ (n + 1) - 1 = n
      OBVIOUS
    <3> QED BY <2>1, <3>1
  <2> QED BY <2>1, <2>2
<1>3. \A n \in Nat : r[n] \in SUBSET U /\ i \in r[n]
  <2> DEFINE T == {n \in Nat : r[n] \in SUBSET U /\ i \in r[n]}
  <2>1. 0 \in T
    BY <1>2
  <2>2. \A n \in T : n + 1 \in T
    BY <1>2, <1>w
  <2> HIDE DEF T
  <2>3. T = Nat
    BY <2>1, <2>2, AllNumbers DEF T
  <2> QED BY <2>3 DEF T
<1> DEFINE N == Cardinality(Item)
<1>4. N \in Nat
  BY ItemAssumption, FS_CardinalityType
<1>5. ASSUME NEW S \in SUBSET U, i \in S, \A y \in S : step[y] \subseteq S \cup {NULL}
      PROVE  r[N] \subseteq S
  <2> DEFINE T == {n \in Nat : r[n] \subseteq S}
  <2>1. 0 \in T
    BY <1>2, <1>5
  <2>2. ASSUME NEW n \in T PROVE n + 1 \in T
    BY <1>2, <1>3, <1>5, <1>w
  <2> HIDE DEF T
  <2>3. T = Nat
    BY <2>1, <2>2, AllNumbers DEF T
  <2> QED BY <1>4, <2>3 DEF T
<1>6. wider(r[N]) = r[N]
  <2> DEFINE T == {n \in Nat : wider(r[n]) = r[n] \/ Cardinality(r[n]) >= n + 1}
  <2>1. 0 \in T
    <3>1. Cardinality({i}) = 1
      BY FS_Singleton
    <3> QED BY <1>2, <3>1
  <2>2. ASSUME NEW n \in T PROVE n + 1 \in T
    <3>1. n \in Nat /\ r[n + 1] = wider(r[n])
      BY <1>2
    <3>2. CASE wider(r[n]) = r[n]
      BY <3>1, <3>2
    <3>3. CASE wider(r[n]) # r[n]
      <4>1. r[n] \in SUBSET r[n + 1] /\ r[n] # r[n + 1]
        BY <1>3, <1>w, <3>1, <3>3
      <4>2. Cardinality(r[n]) >= n + 1
        BY <3>3
      <4>3. IsFiniteSet(r[n + 1])
        BY <1>3, <3>1, FS_Subset
      <4>4. /\ Cardinality(r[n]) <= Cardinality(r[n + 1])
            /\ Cardinality(r[n]) # Cardinality(r[n + 1])
        BY <4>1, <4>3, FS_Subset
      <4>5. Cardinality(r[n]) \in Nat /\ Cardinality(r[n + 1]) \in Nat
        BY <4>1, <4>3, FS_Subset, FS_CardinalityType
      <4> DEFINE a == Cardinality(r[n])
                 b == Cardinality(r[n + 1])
      <4>6. b >= (n + 1) + 1
        <5>1. a \in Nat /\ b \in Nat /\ a >= n + 1 /\ a <= b /\ a # b /\ n \in Nat
          BY <3>1, <4>2, <4>4, <4>5
        <5> HIDE DEF a, b
        <5> QED BY <5>1
      <4> QED BY <3>1, <4>6
    <3> QED BY <3>2, <3>3
  <2> HIDE DEF T
  <2>3. T = Nat
    BY <2>1, <2>2, AllNumbers DEF T
  <2>4. wider(r[N]) = r[N] \/ Cardinality(r[N]) >= N + 1
    BY <1>4, <2>3 DEF T
  <2>5. CASE Cardinality(r[N]) >= N + 1
    <3>1. r[N] \in SUBSET U /\ wider(r[N]) \in SUBSET U /\ r[N] \subseteq wider(r[N])
      BY <1>3, <1>4, <1>w
    <3> DEFINE a == Cardinality(r[N])
               c == Cardinality(U)
    <3>2. a \in Nat /\ c \in Nat /\ a <= c /\ (a = c => r[N] = U)
      BY <3>1, FS_Subset, FS_CardinalityType
    <3>3. a >= N + 1 /\ c <= N + 1
      BY <2>5
    <3>4. a = c
      <4> HIDE DEF a, c, N
      <4> QED BY <1>4, <3>2, <3>3
    <3> QED BY <3>1, <3>2, <3>4
  <2> QED BY <2>4, <2>5
<1>7. \A y \in r[N] : step[y] \subseteq r[N] \cup {NULL}
  BY <1>3, <1>4, <1>6, <1>w
<1> QED BY <1>1, <1>3, <1>4, <1>5, <1>7

\* Closure(i, step) is the least set of items that has i and that step does not
\* leave.
LEMMA ClosureLeast ==
  ASSUME NEW i \in Item, NEW step \in [Item -> SUBSET (Item \cup {NULL})]
  PROVE  /\ Closure(i, step) \in SUBSET Item /\ i \in Closure(i, step)
         /\ \A y \in Closure(i, step) : step[y] \subseteq Closure(i, step) \cup {NULL}
         /\ \A S \in SUBSET Item :
              i \in S /\ (\A y \in S : step[y] \subseteq S \cup {NULL}) => Closure(i, step) \subseteq S
<1>1. IsFiniteSet(Item) /\ Cardinality(Item) <= Cardinality(Item) + 1
  BY ItemAssumption, FS_CardinalityType
<1> QED BY <1>1, ClosureIn

-----------------------------------------------------------------------------
(* What Along computes, for links that spell out a sequence.                   *)

Links == [Item -> Item \cup {NULL}]

\* The k-th of the items s, NULL where there is none.
At(s, k) == IF k \in 1..Len(s) THEN s[k] ELSE NULL

\* Following f from the first of the items s on leads through all of them, each
\* one once.
Runs(f, s) == /\ \A k \in 1..Len(s) : f[s[k]] = At(s, k + 1)
              /\ \A k, m \in 1..Len(s) : s[k] = s[m] => k = m

\* No more items are different from each other than there are.
LEMMA RunsFit ==
  ASSUME NEW s \in Seq(Item), \A k, m \in 1..Len(s) : s[k] = s[m] => k = m
  PROVE  Len(s) <= Cardinality(Item) /\ Cardinality(Item) \in Nat
<1>1. Len(s) \in Nat /\ s \in [1..Len(s) -> Item]
  OBVIOUS
<1>2. s \in Injection(1..Len(s), Item)
  BY <1>1 DEF Injection, IsInjective
<1>3. Cardinality(1..Len(s)) <= Cardinality(Item)
  BY <1>2, ItemAssumption, FS_Injection
<1>4. Cardinality(1..Len(s)) = Len(s)
  BY <1>1, FS_Interval
<1> QED BY <1>3, <1>4, ItemAssumption, FS_CardinalityType

\* What Along computes, one item at a time.
LEMMA AlongWalk ==
  ASSUME NEW nx \in Links
  PROVE  \E w \in [Nat -> [Item -> Seq(Item)]] :
           /\ \A x \in Item : w[0][x] = <<>>
           /\ \A n \in Nat : \A x \in Item :
                w[n + 1][x] = IF nx[x] = NULL THEN <<x>> ELSE <<x>> \o w[n][nx[x]]
           /\ \A i \in Item : Along(nx, i) = w[Cardinality(Item)][i]
<1> DEFINE S == [Item -> Seq(Item)]
           from(f) == [x \in Item |-> IF nx[x] = NULL THEN <<x>> ELSE <<x>> \o f[nx[x]]]
           start == [x \in Item |-> <<>>]
           G == [f \in S |-> from(f)]
           W(w) == w = [n \in Nat |-> [x \in Item |->
                           IF n = 0 THEN <<>>
                           ELSE IF nx[x] = NULL THEN <<x>> ELSE <<x>> \o w[n - 1][nx[x]]]]
<1>1. \A f \in S : from(f) \in S
  <2> TAKE f \in S
  <2>1. ASSUME NEW x \in Item
        PROVE  (IF nx[x] = NULL THEN <<x>> ELSE <<x>> \o f[nx[x]]) \in Seq(Item)
    <3>1. <<x>> \in Seq(Item)
      OBVIOUS
    <3>2. CASE nx[x] # NULL
      <4>1. nx[x] \in Item
        BY <3>2 DEF Links
      <4>2. f[nx[x]] \in Seq(Item)
        BY <4>1
      <4> QED BY <3>1, <3>2, <4>2, ConcatProperties
    <3> QED BY <3>1, <3>2
  <2> QED BY <2>1
<1>2. start \in S
  BY EmptySeq
<1>3. \E w \in [Nat -> S] : W(w)
  <2>1. G \in [S -> S]
    BY <1>1
  <2> HIDE DEF G, S, start, from
  <2>2. PICK w \in [Nat -> S] : w[0] = start /\ \A n \in Nat : w[n + 1] = G[w[n]]
    <3> HIDE DEF W
    <3> QED BY Z3, <1>2, <2>1, Repeated
  <2>3. ASSUME NEW n \in Nat
        PROVE  w[n] = IF n = 0 THEN start ELSE from(w[n - 1])
    <3>1. CASE n = 0
      BY <2>2, <3>1
    <3>2. CASE n # 0
      <4>1. n - 1 \in Nat /\ (n - 1) + 1 = n
        BY <3>2
      <4>2. w[n] = G[w[n - 1]] /\ w[n - 1] \in S
        BY <2>2, <4>1
      <4> QED BY <3>2, <4>2 DEF G
    <3> QED BY <3>1, <3>2
  <2> DEFINE body(n) == [x \in Item |->
                           IF n = 0 THEN <<>>
                           ELSE IF nx[x] = NULL THEN <<x>> ELSE <<x>> \o w[n - 1][nx[x]]]
  <2>4. \A n \in Nat : body(n) = IF n = 0 THEN start ELSE from(w[n - 1])
    BY DEF start, from
  <2> HIDE DEF body
  <2>5. \A n \in Nat : w[n] = body(n)
    BY <2>3, <2>4
  <2>6. w = [n \in Nat |-> body(n)]
    BY <2>5
  <2> QED BY <2>6 DEF body
<1> DEFINE w == CHOOSE v : W(v)
<1>4. W(w)
  BY <1>3
<1>5. \A i \in Item : Along(nx, i) = w[Cardinality(Item)][i]
  BY NullAssumption DEF Along
<1> HIDE DEF w
<1>6. \A x \in Item : w[0][x] = <<>>
  BY <1>4
<1>7. ASSUME NEW n \in Nat, NEW x \in Item
      PROVE  w[n + 1][x] = IF nx[x] = NULL THEN <<x>> ELSE <<x>> \o w[n][nx[x]]
  <2>1. w[n + 1] = from(w[n])
    <3>1. n + 1 \in Nat /\ n + 1 # 0 /\ (n + 1) - 1 = n
      OBVIOUS
    <3> QED BY <1>4, <3>1
  <2> HIDE DEF W
  <2> QED BY <2>1
<1>8. w \in [Nat -> S]
  <2> DEFINE T == {n \in Nat : w[n] \in S}
  <2>1. 0 \in T
    <3>1. w[0] = start
      BY <1>4
    <3> QED BY <1>2, <3>1
  <2>2. ASSUME NEW n \in T PROVE n + 1 \in T
    <3>1. w[n + 1] = from(w[n])
      <4>1. n + 1 \in Nat /\ n + 1 # 0 /\ (n + 1) - 1 = n
        OBVIOUS
      <4> QED BY <1>4, <4>1
    <3> HIDE DEF from, S
    <3> QED BY <1>1, <3>1
  <2> HIDE DEF T
  <2>3. T = Nat
    BY <2>1, <2>2, AllNumbers DEF T
  <2>4. DOMAIN w = Nat /\ w = [n \in Nat |-> w[n]]
    BY <1>4
  <2> HIDE DEF W, S
  <2>5. \A n \in Nat : w[n] \in S
    BY <2>3 DEF T
  <2> QED BY <2>4, <2>5
<1> HIDE DEF W
<1> QED BY <1>5, <1>6, <1>7, <1>8

\* From any item on, Along yields items.
LEMMA AlongType ==
  ASSUME NEW nx \in Links, NEW i \in Item \cup {NULL}
  PROVE  Along(nx, i) \in Seq(Item)
<1>1. CASE i = NULL
  BY <1>1, EmptySeq DEF Along
<1>2. CASE i # NULL
  <2>1. PICK w \in [Nat -> [Item -> Seq(Item)]] :
          \A x \in Item : Along(nx, x) = w[Cardinality(Item)][x]
    BY AlongWalk
  <2>2. i \in Item /\ Cardinality(Item) \in Nat
    BY <1>2, ItemAssumption, FS_CardinalityType
  <2> QED BY <2>1, <2>2
<1> QED BY <1>1, <1>2

\* Along(nx, i) is the run from i.
LEMMA AlongRuns ==
  ASSUME NEW nx \in Links, NEW s \in Seq(Item), s # <<>>, Runs(nx, s)
  PROVE  Along(nx, s[1]) = s
<1> DEFINE L == Len(s)
           N == Cardinality(Item)
<1>1. /\ L \in Nat /\ L > 0 /\ \A k \in 1..L : s[k] \in Item
  BY EmptySeq
<1>2. L <= N /\ N \in Nat
  BY RunsFit DEF Runs
<1>3. PICK w \in [Nat -> [Item -> Seq(Item)]] :
        /\ \A x \in Item : w[0][x] = <<>>
        /\ \A n \in Nat : \A x \in Item :
             w[n + 1][x] = IF nx[x] = NULL THEN <<x>> ELSE <<x>> \o w[n][nx[x]]
        /\ \A i \in Item : Along(nx, i) = w[Cardinality(Item)][i]
  BY AlongWalk
<1> DEFINE T == {n \in Nat : \A k \in 1..L : L - k < n => w[n][s[k]] = SubSeq(s, k, L)}
<1>4. 0 \in T
  BY <1>1
<1>5. ASSUME NEW n \in Nat, \A k \in 1..L : L - k < n => w[n][s[k]] = SubSeq(s, k, L),
             NEW k \in 1..L, L - k < n + 1
      PROVE  w[n + 1][s[k]] = SubSeq(s, k, L)
  <2>1. /\ s[k] \in Item /\ nx[s[k]] = At(s, k + 1)
    BY <1>1 DEF Runs
  <2>2. SubSeq(s, k, L) = <<s[k]>> \o SubSeq(s, k + 1, L)
    <3>1. L \in k..L
      BY <1>1
    <3> QED BY <3>1, SubSeqRecursiveFirst
  <2>3. CASE k = L
    <3>1. nx[s[k]] = NULL
      BY <1>1, <2>1, <2>3 DEF At
    <3>2. SubSeq(s, k + 1, L) = <<>>
      BY <1>1, <2>3, SubSeqEmpty
    <3>3. <<s[k]>> \in Seq(Item)
      BY <2>1
    <3>4. <<s[k]>> \o <<>> = <<s[k]>>
      BY <3>3, ConcatEmptySeq
    <3> HIDE DEF L
    <3> QED BY <1>3, <2>1, <2>2, <3>1, <3>2, <3>4
  <2>4. CASE k # L
    <3>1. k + 1 \in 1..L /\ L - (k + 1) < n
      <4> HIDE DEF L
      <4> QED BY <1>1, <1>5, <2>4
    <3>2. nx[s[k]] = s[k + 1] /\ s[k + 1] # NULL
      BY <1>1, <2>1, <3>1, NullAssumption DEF At
    <3>3. w[n][s[k + 1]] = SubSeq(s, k + 1, L)
      BY <1>5, <3>1
    <3> HIDE DEF L
    <3>4. w[n + 1][s[k]] = <<s[k]>> \o w[n][nx[s[k]]]
      BY <1>3, <2>1, <3>2
    <3> QED BY <2>2, <3>2, <3>3, <3>4
  <2> QED BY <2>3, <2>4
<1>6. T = Nat
  <2>1. ASSUME NEW n \in T PROVE n + 1 \in T
    <3>1. /\ n \in Nat /\ n + 1 \in Nat
          /\ \A k \in 1..L : L - k < n => w[n][s[k]] = SubSeq(s, k, L)
      OBVIOUS
    <3> HIDE DEF L
    <3>2. \A k \in 1..L : L - k < n + 1 => w[n + 1][s[k]] = SubSeq(s, k, L)
      BY <1>5, <3>1
    <3> QED BY <3>1, <3>2
  <2> HIDE DEF T
  <2> QED BY <1>4, <2>1, AllNumbers DEF T
<1>7. w[N][s[1]] = SubSeq(s, 1, L)
  <2>1. N \in T
    BY <1>2, <1>6
  <2>2. 1 \in 1..L /\ L - 1 < N
    <3> HIDE DEF L, N
    <3> QED BY <1>1, <1>2
  <2> HIDE DEF L, N
  <2> QED BY <2>1, <2>2
<1> HIDE DEF T
<1>8. SubSeq(s, 1, L) = s
  BY SubSeqFull
<1>9. Along(nx, s[1]) = w[N][s[1]]
  <2>1. 1 \in 1..L
    BY <1>1
  <2> QED BY <1>1, <1>3, <2>1
<1> QED BY <1>7, <1>8, <1>9

-----------------------------------------------------------------------------
(* Links that represent the children q of all items.                           *)

Types == [Item -> {"free", "array", "object", "reference"}]
Kids == [Item -> Seq(Item)]

\* i is among the children that q gives to some item.
Placed(q, i) == \E p \in Item : \E k \in 1..Len(q[p]) : q[p][k] = i

\* No item has two places.
Apart(q) ==
  \A p, g \in Item : \A k \in 1..Len(q[p]), m \in 1..Len(q[g]) :
    q[p][k] = q[g][m] => p = g /\ k = m

\* The items s are linked to each other in that order, both ways.
Siblings(nx, pv, s) ==
  \A k \in 1..Len(s) : nx[s[k]] = At(s, k + 1) /\ pv[s[k]] = At(s, k - 1)

Box(ty, p) == ty[p] \in {"array", "object"}

\* The links of the items give each container the children q.
Lists(nx, pv, ch, ty, q) ==
  \A p \in Item : IF Box(ty, p) THEN ch[p] = At(q[p], 1) /\ Siblings(nx, pv, q[p])
                  ELSE q[p] = <<>>

\* Items that are in no container have no neighbours, and items that are not
\* allocated are nowhere.
Tidy(nx, pv, ch, ty, q) ==
  /\ \A i \in Item : ~Placed(q, i) => nx[i] = NULL /\ pv[i] = NULL
  /\ \A i \in Item : ty[i] = "free" => ch[i] = NULL /\ ~Placed(q, i)
  /\ \A i \in Item : ch[i] # NULL => ty[ch[i]] # "free"

Rep(nx, pv, ch, ty, q) ==
  Lists(nx, pv, ch, ty, q) /\ Tidy(nx, pv, ch, ty, q) /\ Apart(q)

\* t may be the children of p beside those q gives to the others.
Fits(q, p, t) ==
  /\ \A k, m \in 1..Len(t) : t[k] = t[m] => k = m
  /\ \A g \in Item \ {p} : \A k \in 1..Len(t), m \in 1..Len(q[g]) : t[k] # q[g][m]

\* What At yields.
LEMMA AtValues ==
  ASSUME NEW s \in Seq(Item)
  PROVE  /\ Len(s) \in Nat
         /\ At(s, 0) = NULL /\ At(s, Len(s) + 1) = NULL
         /\ \A k \in 1..Len(s) : At(s, k) = s[k] /\ s[k] \in Item
         /\ \A k : At(s, k) \in Item \cup {NULL}
  BY DEF At

\* Changing the children of p keeps every item in one place.
LEMMA ApartExcept ==
  ASSUME NEW q \in Kids, Apart(q), NEW p \in Item, NEW t \in Seq(Item), Fits(q, p, t)
  PROVE  Apart([q EXCEPT ![p] = t])
<1> DEFINE r == [q EXCEPT ![p] = t]
<1>1. r[p] = t /\ \A g \in Item \ {p} : r[g] = q[g]
  BY DEF Kids
<1> HIDE DEF r
<1> SUFFICES ASSUME NEW a \in Item, NEW b \in Item,
                    NEW k \in 1..Len(r[a]), NEW m \in 1..Len(r[b]), r[a][k] = r[b][m]
             PROVE  a = b /\ k = m
  BY DEF Apart, r
<1>2. CASE a = p /\ b = p
  BY <1>1, <1>2 DEF Fits
<1>3. CASE a = p /\ b # p
  <2>1. k \in 1..Len(t) /\ m \in 1..Len(q[b]) /\ t[k] = q[b][m]
    BY <1>1, <1>3
  <2> QED BY <1>3, <2>1 DEF Fits
<1>4. CASE a # p /\ b = p
  <2>1. k \in 1..Len(q[a]) /\ m \in 1..Len(t) /\ t[m] = q[a][k]
    BY <1>1, <1>4
  <2> QED BY <1>4, <2>1 DEF Fits
<1>5. CASE a # p /\ b # p
  BY <1>1, <1>5 DEF Apart
<1> QED BY <1>2, <1>3, <1>4, <1>5

\* Links that changed for the children of p, which are t now.
ListChange(nx, pv, ch, ty, q, nx2, pv2, ch2, ty2, p, t) ==
  /\ Fits(q, p, t) /\ Box(ty, p)
  /\ \A g \in Item : Box(ty2, g) <=> Box(ty, g)
  /\ ch2[p] = At(t, 1) /\ Siblings(nx2, pv2, t)
  /\ \A g \in Item \ {p} : Box(ty, g) => ch2[g] = ch[g]
  /\ \A g \in Item \ {p} : \A m \in 1..Len(q[g]) :
       nx2[q[g][m]] = nx[q[g][m]] /\ pv2[q[g][m]] = pv[q[g][m]]

\* The links represent the changed children if they do so for p, and did not
\* change for the children of the others.
LEMMA ListChanged ==
  ASSUME NEW nx \in Links, NEW pv \in Links, NEW ch \in Links, NEW ty \in Types,
         NEW q \in Kids, Rep(nx, pv, ch, ty, q),
         NEW nx2 \in Links, NEW pv2 \in Links, NEW ch2 \in Links, NEW ty2 \in Types,
         NEW p \in Item, NEW t \in Seq(Item),
         ListChange(nx, pv, ch, ty, q, nx2, pv2, ch2, ty2, p, t),
         Tidy(nx2, pv2, ch2, ty2, [q EXCEPT ![p] = t])
  PROVE  Rep(nx2, pv2, ch2, ty2, [q EXCEPT ![p] = t]) /\ [q EXCEPT ![p] = t] \in Kids
<1> DEFINE r == [q EXCEPT ![p] = t]
<1>1. r \in Kids /\ r[p] = t /\ \A g \in Item \ {p} : r[g] = q[g]
  BY DEF Kids
<1>2. Apart(r)
  BY ApartExcept DEF Rep, ListChange
<1>3. ASSUME NEW g \in Item
      PROVE  IF Box(ty2, g) THEN ch2[g] = At(r[g], 1) /\ Siblings(nx2, pv2, r[g])
             ELSE r[g] = <<>>
  <2> HIDE DEF r
  <2>1. CASE g = p
    BY <1>1, <2>1 DEF ListChange
  <2>2. CASE g # p /\ Box(ty, g)
    <3>1. ch[g] = At(q[g], 1) /\ Siblings(nx, pv, q[g])
      BY <2>2 DEF Rep, Lists
    <3>2. Siblings(nx2, pv2, q[g])
      BY <2>2, <3>1 DEF Siblings, ListChange
    <3> QED BY <1>1, <2>2, <3>1, <3>2 DEF ListChange
  <2>3. CASE g # p /\ ~Box(ty, g)
    BY <1>1, <2>3 DEF Rep, Lists, ListChange
  <2> QED BY <2>1, <2>2, <2>3
<1>4. Lists(nx2, pv2, ch2, ty2, r)
  <2> HIDE DEF r
  <2> QED BY <1>3 DEF Lists
<1> QED BY <1>1, <1>2, <1>4 DEF Rep

-----------------------------------------------------------------------------
(* An item is put among the children of a container.                           *)

\* t is s with i put in after its first k items.
PutIn(s, k, i, t) ==
  /\ Len(t) = Len(s) + 1
  /\ \A j \in 1..(Len(s) + 1) :
       t[j] = IF j <= k THEN s[j] ELSE IF j = k + 1 THEN i ELSE s[j - 1]

\* The links after i was put there.
InsertLinks(nx, pv, s, k, i, nx2, pv2) ==
  \A x \in Item :
    /\ nx2[x] = IF x = i THEN At(s, k + 1) ELSE IF x = At(s, k) THEN i ELSE nx[x]
    /\ pv2[x] = IF x = i THEN At(s, k) ELSE IF x = At(s, k + 1) THEN i ELSE pv[x]

\* The nodes of t in terms of those of s.
LEMMA PutInAt ==
  ASSUME NEW s \in Seq(Item), NEW t \in Seq(Item), NEW k \in 0..Len(s), NEW i \in Item,
         PutIn(s, k, i, t)
  PROVE  /\ Len(s) \in Nat /\ Len(t) = Len(s) + 1
         /\ \A j \in 0..k : At(t, j) = At(s, j)
         /\ At(t, k + 1) = i
         /\ \A j \in (k + 1)..(Len(s) + 1) : At(t, j + 1) = At(s, j)
<1>1. Len(s) \in Nat /\ k \in Nat /\ k <= Len(s) /\ Len(t) = Len(s) + 1
  BY DEF PutIn
<1>2. ASSUME NEW j \in 0..k PROVE At(t, j) = At(s, j)
  BY <1>1 DEF At, PutIn
<1>3. At(t, k + 1) = i
  BY <1>1 DEF At, PutIn
<1>4. ASSUME NEW j \in (k + 1)..(Len(s) + 1) PROVE At(t, j + 1) = At(s, j)
  <2>1. CASE j = Len(s) + 1
    BY <1>1, <2>1 DEF At
  <2>2. CASE j # Len(s) + 1
    <3>1. j \in 1..Len(s) /\ j + 1 \in 1..(Len(s) + 1) /\ ~(j + 1 <= k) /\ j + 1 # k + 1
          /\ (j + 1) - 1 = j
      BY <1>1, <2>2
    <3> QED BY <1>1, <3>1 DEF At, PutIn
  <2> QED BY <2>1, <2>2
<1> QED BY <1>1, <1>2, <1>3, <1>4

\* What is to be known of links, and types, that change as i is put among the
\* children of p: i may be a new item, and its own child pointer may change.
Insertion(nx, pv, ch, ty, q, p, k, i, nx2, pv2, ch2, ty2, t) ==
  /\ InsertLinks(nx, pv, q[p], k, i, nx2, pv2)
  /\ \A g \in Item : Box(ty2, g) <=> Box(ty, g)
  /\ ty2[i] # "free"
  /\ \A x \in Item \ {i} : ty2[x] = ty[x]
  /\ ch2[p] = IF k = 0 THEN i ELSE ch[p]
  /\ \A g \in Item \ {p} : ch2[g] = ch[g] \/ (g = i /\ ~Box(ty, i))
  /\ ch2[i] = NULL \/ ty2[ch2[i]] # "free"
  /\ PutIn(q[p], k, i, t)

\* An item that is in no container may go anywhere among the children of p.
LEMMA InsertRep ==
  ASSUME NEW nx \in Links, NEW pv \in Links, NEW ch \in Links, NEW ty \in Types,
         NEW q \in Kids, Rep(nx, pv, ch, ty, q),
         NEW p \in Item, Box(ty, p), NEW k \in 0..Len(q[p]), NEW i \in Item, ~Placed(q, i),
         NEW nx2 \in Links, NEW pv2 \in Links, NEW ch2 \in Links, NEW ty2 \in Types,
         NEW t \in Seq(Item),
         Insertion(nx, pv, ch, ty, q, p, k, i, nx2, pv2, ch2, ty2, t)
  PROVE  /\ Rep(nx2, pv2, ch2, ty2, [q EXCEPT ![p] = t])
         /\ [q EXCEPT ![p] = t] \in Kids
<1> DEFINE s == q[p]
           r == [q EXCEPT ![p] = t]
<1>0. /\ InsertLinks(nx, pv, q[p], k, i, nx2, pv2)
      /\ \A g \in Item : Box(ty2, g) <=> Box(ty, g)
      /\ ty2[i] # "free"
      /\ \A x \in Item \ {i} : ty2[x] = ty[x]
      /\ ch2[p] = IF k = 0 THEN i ELSE ch[p]
      /\ \A g \in Item \ {p} : ch2[g] = ch[g] \/ (g = i /\ ~Box(ty, i))
      /\ ch2[i] = NULL \/ ty2[ch2[i]] # "free"
      /\ PutIn(q[p], k, i, t)
  BY DEF Insertion
<1> USE <1>0
<1>1. /\ s \in Seq(Item) /\ Len(s) \in Nat /\ k \in Nat /\ k <= Len(s)
      /\ Len(t) = Len(s) + 1
      /\ r \in Kids /\ r[p] = t /\ \A g \in Item \ {p} : r[g] = q[g]
  BY DEF Kids, PutIn
<1>2. /\ ch[p] = At(s, 1) /\ Siblings(nx, pv, s)
      /\ \A a, b \in 1..Len(s) : s[a] = s[b] => a = b
  BY DEF Rep, Lists, Apart
<1>3. \A j \in 1..Len(s) : s[j] # i /\ s[j] \in Item
  BY <1>1 DEF Placed
<1>4. /\ \A j \in 0..k : At(t, j) = At(s, j)
      /\ At(t, k + 1) = i
      /\ \A j \in (k + 1)..(Len(s) + 1) : At(t, j + 1) = At(s, j)
  BY <1>1, PutInAt
<1>5. Fits(q, p, t)
  <2>1. ASSUME NEW a \in 1..Len(t), NEW b \in 1..Len(t), t[a] = t[b] PROVE a = b
    <3> DEFINE from(x) == IF x <= k THEN x ELSE x - 1
    <3>1. \A x \in 1..Len(t) : x # k + 1 => from(x) \in 1..Len(s) /\ t[x] = s[from(x)]
      BY <1>1 DEF PutIn
    <3>2. t[k + 1] = i
      BY <1>1 DEF PutIn
    <3>3. \A x \in 1..Len(t) : x # k + 1 => t[x] # i
      <4> HIDE DEF from
      <4> QED BY <1>3, <3>1
    <3>4. CASE a = k + 1 \/ b = k + 1
      BY <2>1, <3>2, <3>3, <3>4
    <3>5. CASE a # k + 1 /\ b # k + 1
      <4>1. from(a) = from(b)
        <5> HIDE DEF from
        <5>1. /\ from(a) \in 1..Len(s) /\ from(b) \in 1..Len(s)
              /\ t[a] = s[from(a)] /\ t[b] = s[from(b)]
          BY <3>1, <3>5
        <5> QED BY <1>2, <2>1, <5>1
      <4> QED BY <1>1, <3>5, <4>1
    <3> QED BY <3>4, <3>5
  <2>2. ASSUME NEW g \in Item \ {p}, NEW a \in 1..Len(t), NEW b \in 1..Len(q[g])
        PROVE  t[a] # q[g][b]
    <3>1. q[g][b] # i
      BY DEF Placed
    <3>2. \A c \in 1..Len(s) : s[c] # q[g][b]
      BY DEF Rep, Apart
    <3>3. CASE a = k + 1
      BY <1>1, <3>1, <3>3 DEF PutIn
    <3>4. CASE a <= k
      BY <1>1, <3>2, <3>4 DEF PutIn
    <3>5. CASE a > k + 1
      <4>1. a - 1 \in 1..Len(s) /\ ~(a <= k) /\ a # k + 1 /\ a \in 1..(Len(s) + 1)
        BY <1>1, <3>5
      <4> QED BY <3>2, <4>1 DEF PutIn
    <3> QED BY <1>1, <3>3, <3>4, <3>5
  <2> QED BY <2>1, <2>2 DEF Fits
<1>6. ASSUME NEW x \in Item, x # i, \A j \in 1..Len(s) : x # s[j]
      PROVE  nx2[x] = nx[x] /\ pv2[x] = pv[x]
  <2>1. At(s, k) # x /\ At(s, k + 1) # x
    BY <1>6, NullAssumption DEF At
  <2> QED BY <1>6, <2>1 DEF InsertLinks
<1>7. Siblings(nx2, pv2, t)
  <2> SUFFICES ASSUME NEW j \in 1..Len(t)
               PROVE  nx2[t[j]] = At(t, j + 1) /\ pv2[t[j]] = At(t, j - 1)
    BY DEF Siblings
  <2>1. CASE j = k + 1
    <3>1. t[j] = i /\ nx2[i] = At(s, k + 1) /\ pv2[i] = At(s, k)
      BY <1>1, <2>1 DEF InsertLinks, PutIn
    <3>2. At(t, j + 1) = At(s, k + 1) /\ At(t, j - 1) = At(s, k)
      <4>1. k + 1 \in (k + 1)..(Len(s) + 1) /\ k \in 0..k /\ j - 1 = k
        <5>1. k \in Nat /\ Len(s) \in Nat /\ k <= Len(s)
          BY <1>1
        <5> HIDE DEF s
        <5> QED BY <5>1, <2>1
      <4> QED BY <1>4, <2>1, <4>1
    <3> QED BY <3>1, <3>2
  <2>2. CASE j <= k
    <3>1. j \in 1..Len(s) /\ j \in 0..k /\ j - 1 \in 0..k /\ j - 1 # k /\ j # k + 1
      BY <1>1, <2>2
    <3>2. t[j] = s[j] /\ s[j] # i /\ s[j] \in Item
      BY <1>1, <1>3, <2>2, <3>1 DEF PutIn
    <3>3. nx[s[j]] = At(s, j + 1) /\ pv[s[j]] = At(s, j - 1)
      BY <1>2, <3>1 DEF Siblings
    <3>4. s[j] # At(s, k + 1)
      BY <1>1, <1>2, <3>1, <3>2, NullAssumption DEF At
    <3>5. pv2[s[j]] = At(t, j - 1)
      BY <1>4, <3>1, <3>2, <3>3, <3>4 DEF InsertLinks
    <3>6. nx2[s[j]] = At(t, j + 1)
      <4>1. CASE j = k
        <5>1. s[j] = At(s, k) /\ j + 1 = k + 1
          BY <3>1, <4>1 DEF At
        <5> QED BY <1>4, <3>2, <5>1 DEF InsertLinks
      <4>2. CASE j # k
        <5>1. j + 1 \in 0..k /\ k \in 1..Len(s)
          BY <1>1, <2>2, <3>1, <4>2
        <5>2. s[j] # At(s, k)
          BY <1>2, <3>1, <4>2, <5>1 DEF At
        <5> QED BY <1>4, <3>2, <3>3, <5>1, <5>2 DEF InsertLinks
      <4> QED BY <4>1, <4>2
    <3> QED BY <3>2, <3>5, <3>6
  <2>3. CASE j > k + 1
    <3>1. PICK m \in (k + 1)..Len(s) : m + 1 = j
      <4>1. j - 1 \in (k + 1)..Len(s) /\ (j - 1) + 1 = j
        BY <1>1, <2>3
      <4> QED BY <4>1
    <3>2. /\ m \in 1..Len(s) /\ m # k /\ m \in (k + 1)..(Len(s) + 1) /\ j - 1 = m
          /\ m + 1 \in (k + 1)..(Len(s) + 1) /\ ~(j <= k) /\ j # k + 1 /\ j \in 1..(Len(s) + 1)
      BY <1>1, <2>3, <3>1
    <3>3. t[j] = s[m] /\ s[m] # i /\ s[m] \in Item
      BY <1>3, <3>1, <3>2 DEF PutIn
    <3>4. nx[s[m]] = At(s, m + 1) /\ pv[s[m]] = At(s, m - 1)
      BY <1>2, <3>2 DEF Siblings
    <3>5. s[m] # At(s, k)
      BY <1>1, <1>2, <3>2, <3>3, NullAssumption DEF At
    <3>6. nx2[s[m]] = At(t, j + 1)
      BY <1>4, <3>1, <3>2, <3>3, <3>4, <3>5 DEF InsertLinks
    <3>7. pv2[s[m]] = At(t, j - 1)
      <4>1. CASE m = k + 1
        <5>1. s[m] = At(s, k + 1)
          BY <3>2, <4>1 DEF At
        <5> QED BY <1>4, <3>2, <3>3, <4>1, <5>1 DEF InsertLinks
      <4>2. CASE m # k + 1
        <5>1. PICK n \in (k + 1)..(Len(s) + 1) : n + 1 = m
          <6>1. m - 1 \in (k + 1)..(Len(s) + 1) /\ (m - 1) + 1 = m
            BY <1>1, <3>1, <4>2
          <6> QED BY <6>1
        <5>2. k + 1 \in 1..Len(s) /\ m - 1 = n /\ j - 1 = n + 1
          BY <1>1, <3>1, <3>2, <4>2, <5>1
        <5>3. s[m] # At(s, k + 1)
          BY <1>2, <3>2, <4>2, <5>2 DEF At
        <5> QED BY <1>4, <3>3, <3>4, <5>1, <5>2, <5>3 DEF InsertLinks
      <4> QED BY <4>1, <4>2
    <3> QED BY <3>3, <3>6, <3>7
  <2> QED BY <1>1, <2>1, <2>2, <2>3
<1>8. ch2[p] = At(t, 1)
  <2>1. CASE k = 0
    BY <1>4, <2>1
  <2>2. CASE k # 0
    <3>1. 1 \in 0..k
      BY <1>1, <2>2
    <3> QED BY <1>2, <1>4, <2>2, <3>1
  <2> QED BY <2>1, <2>2
<1>9. ASSUME NEW x \in Item PROVE Placed(r, x) <=> Placed(q, x) \/ x = i
  <2>1. ASSUME NEW j \in 1..Len(s) PROVE \E m \in 1..Len(t) : t[m] = s[j]
    <3>1. CASE j <= k
      <4>1. j \in 1..Len(t) /\ t[j] = s[j]
        BY <1>1, <3>1 DEF PutIn
      <4> QED BY <4>1
    <3>2. CASE j > k
      <4>1. j + 1 \in 1..(Len(s) + 1) /\ ~(j + 1 <= k) /\ j + 1 # k + 1 /\ (j + 1) - 1 = j
        BY <1>1, <3>2
      <4>2. t[j + 1] = s[j] /\ j + 1 \in 1..Len(t)
        BY <1>1, <4>1 DEF PutIn
      <4> QED BY <4>2
    <3> QED BY <1>1, <3>1, <3>2
  <2>2. ASSUME NEW m \in 1..Len(t) PROVE t[m] = i \/ \E j \in 1..Len(s) : t[m] = s[j]
    <3>1. CASE m <= k
      BY <1>1, <3>1 DEF PutIn
    <3>2. CASE m = k + 1
      BY <1>1, <3>2 DEF PutIn
    <3>3. CASE m > k + 1
      <4>1. m - 1 \in 1..Len(s) /\ t[m] = s[m - 1]
        BY <1>1, <3>3 DEF PutIn
      <4> QED BY <4>1
    <3> QED BY <1>1, <3>1, <3>2, <3>3
  <2>3. \E m \in 1..Len(t) : t[m] = i
    <3>1. k + 1 \in 1..Len(t) /\ t[k + 1] = i
      BY <1>1 DEF PutIn
    <3> QED BY <3>1
  <2>4. Placed(r, x) => Placed(q, x) \/ x = i
    <3> SUFFICES ASSUME NEW g \in Item, NEW m \in 1..Len(r[g]), r[g][m] = x
                 PROVE  Placed(q, x) \/ x = i
      BY DEF Placed
    <3> HIDE DEF r
    <3>1. CASE g = p
      <4>1. m \in 1..Len(t) /\ t[m] = x
        BY <1>1, <3>1
      <4>2. x = i \/ \E j \in 1..Len(s) : x = s[j]
        BY <2>2, <4>1
      <4> QED BY <4>2 DEF Placed
    <3>2. CASE g # p
      <4>1. m \in 1..Len(q[g]) /\ q[g][m] = x
        BY <1>1, <3>2
      <4> QED BY <4>1 DEF Placed
    <3> QED BY <3>1, <3>2
  <2>5. Placed(q, x) => Placed(r, x)
    <3> SUFFICES ASSUME NEW g \in Item, NEW m \in 1..Len(q[g]), q[g][m] = x
                 PROVE  Placed(r, x)
      BY DEF Placed
    <3> HIDE DEF r
    <3> QED BY <1>1, <2>1 DEF Placed
  <2>6. Placed(r, i)
    <3> HIDE DEF r
    <3> QED BY <1>1, <2>3 DEF Placed
  <2> QED BY <2>4, <2>5, <2>6
<1>10. Tidy(nx2, pv2, ch2, ty2, r)
  <2>1. ASSUME NEW x \in Item, ~Placed(r, x) PROVE nx2[x] = NULL /\ pv2[x] = NULL
    <3>1. x # i /\ ~Placed(q, x)
      BY <1>9, <2>1
    <3>2. \A j \in 1..Len(s) : x # s[j]
      BY <3>1 DEF Placed
    <3>3. nx[x] = NULL /\ pv[x] = NULL
      BY <3>1 DEF Rep, Tidy
    <3> QED BY <1>6, <3>1, <3>2, <3>3
  <2>2. ASSUME NEW x \in Item, ty2[x] = "free" PROVE ch2[x] = NULL /\ ~Placed(r, x)
    <3>1. x # i /\ ty[x] = "free" /\ x # p
      BY <2>2 DEF Box
    <3>2. ch[x] = NULL /\ ~Placed(q, x)
      BY <3>1 DEF Rep, Tidy
    <3> HIDE DEF r
    <3> QED BY <1>9, <3>1, <3>2
  <2>3. ASSUME NEW x \in Item, ch2[x] # NULL PROVE ty2[ch2[x]] # "free"
    <3>1. \A y \in Item : ty[y] # "free" => ty2[y] # "free"
      BY DEF Box
    <3>2. ch[x] # NULL => ty[ch[x]] # "free" /\ ch[x] \in Item
      BY DEF Rep, Tidy, Links
    <3>3. CASE x = p
      BY <2>3, <3>1, <3>2, <3>3
    <3>4. CASE x # p
      BY <2>3, <3>1, <3>2, <3>4
    <3> QED BY <3>3, <3>4
  <2> HIDE DEF r
  <2> QED BY <2>1, <2>2, <2>3 DEF Tidy
<1>11. ASSUME NEW g \in Item \ {p}, NEW m \in 1..Len(q[g])
       PROVE  nx2[q[g][m]] = nx[q[g][m]] /\ pv2[q[g][m]] = pv[q[g][m]]
  <2>1. q[g][m] \in Item
    BY DEF Kids
  <2>2. q[g][m] # i /\ \A j \in 1..Len(s) : q[g][m] # s[j]
    BY DEF Placed, Rep, Apart
  <2> QED BY <1>6, <2>1, <2>2
<1>12. \A g \in Item \ {p} : Box(ty, g) => ch2[g] = ch[g]
  OBVIOUS
<1>13. ListChange(nx, pv, ch, ty, q, nx2, pv2, ch2, ty2, p, t)
  BY <1>5, <1>7, <1>8, <1>11, <1>12 DEF ListChange
<1> QED BY <1>10, <1>13, ListChanged

-----------------------------------------------------------------------------
(* A child is taken out.                                                       *)

\* t is s without its k-th item.
TakeOut(s, k, t) ==
  /\ Len(t) + 1 = Len(s)
  /\ \A j \in 1..Len(t) : t[j] = IF j < k THEN s[j] ELSE s[j + 1]

\* The links after the k-th of the items s was taken out.
RemoveLinks(nx, pv, s, k, nx2, pv2) ==
  \A x \in Item :
    /\ nx2[x] = IF x = s[k] THEN NULL ELSE IF x = At(s, k - 1) THEN At(s, k + 1) ELSE nx[x]
    /\ pv2[x] = IF x = s[k] THEN NULL ELSE IF x = At(s, k + 1) THEN At(s, k - 1) ELSE pv[x]

\* The nodes of t in terms of those of s.
LEMMA TakeOutAt ==
  ASSUME NEW s \in Seq(Item), NEW t \in Seq(Item), NEW k \in 1..Len(s), TakeOut(s, k, t)
  PROVE  /\ \A j \in 0..(k - 1) : At(t, j) = At(s, j)
         /\ \A j \in k..Len(s) : At(t, j) = At(s, j + 1)
<1>1. Len(s) \in Nat /\ Len(t) \in Nat /\ k \in Nat /\ 1 <= k /\ k <= Len(s) /\ Len(t) + 1 = Len(s)
  BY DEF TakeOut
<1>2. ASSUME NEW j \in 0..(k - 1) PROVE At(t, j) = At(s, j)
  <2>1. CASE j = 0
    BY <2>1 DEF At
  <2>2. CASE j # 0
    <3>1. j \in 1..Len(t) /\ j \in 1..Len(s) /\ j < k
      BY <1>1, <2>2
    <3> QED BY <3>1 DEF At, TakeOut
  <2> QED BY <2>1, <2>2
<1>3. ASSUME NEW j \in k..Len(s) PROVE At(t, j) = At(s, j + 1)
  <2>1. CASE j = Len(s)
    BY <1>1, <2>1 DEF At
  <2>2. CASE j # Len(s)
    <3>1. j \in 1..Len(t) /\ j + 1 \in 1..Len(s) /\ ~(j < k)
      BY <1>1, <2>2
    <3> QED BY <3>1 DEF At, TakeOut
  <2> QED BY <2>1, <2>2
<1> QED BY <1>2, <1>3

\* What is to be known of links that change as the k-th child of p is taken out.
Removal(nx, pv, ch, q, p, k, nx2, pv2, ch2, t) ==
  /\ RemoveLinks(nx, pv, q[p], k, nx2, pv2)
  /\ ch2[p] = IF k = 1 THEN At(q[p], 2) ELSE ch[p]
  /\ \A g \in Item \ {p} : ch2[g] = ch[g]
  /\ TakeOut(q[p], k, t)

\* A child of p may be taken out of the list, and is then in no container.
LEMMA RemoveRep ==
  ASSUME NEW nx \in Links, NEW pv \in Links, NEW ch \in Links, NEW ty \in Types,
         NEW q \in Kids, Rep(nx, pv, ch, ty, q),
         NEW p \in Item, Box(ty, p), NEW k \in 1..Len(q[p]),
         NEW nx2 \in Links, NEW pv2 \in Links, NEW ch2 \in Links, NEW t \in Seq(Item),
         Removal(nx, pv, ch, q, p, k, nx2, pv2, ch2, t)
  PROVE  /\ Rep(nx2, pv2, ch2, ty, [q EXCEPT ![p] = t])
         /\ [q EXCEPT ![p] = t] \in Kids
         /\ ~Placed([q EXCEPT ![p] = t], q[p][k])
<1> DEFINE s == q[p]
           i == s[k]
           r == [q EXCEPT ![p] = t]
<1>1. /\ s \in Seq(Item) /\ Len(s) \in Nat /\ k \in Nat /\ 1 <= k /\ k <= Len(s)
      /\ Len(t) \in Nat /\ Len(t) + 1 = Len(s) /\ i \in Item
  BY DEF Kids, TakeOut, Removal
<1>2. r \in Kids /\ r[p] = t /\ \A g \in Item \ {p} : r[g] = q[g]
  BY DEF Kids
<1>3. /\ ch[p] = At(s, 1) /\ Siblings(nx, pv, s)
      /\ \A a, b \in 1..Len(s) : s[a] = s[b] => a = b
  BY DEF Rep, Lists, Apart
<1>4. /\ \A j \in 0..(k - 1) : At(t, j) = At(s, j)
      /\ \A j \in k..Len(s) : At(t, j) = At(s, j + 1)
  BY <1>1, TakeOutAt DEF Removal
<1>5. /\ \A j \in 1..Len(t) : j < k => t[j] = s[j]
      /\ \A j \in 1..Len(t) : ~(j < k) => t[j] = s[j + 1]
  BY DEF Removal, TakeOut
<1> HIDE DEF s, i, r
<1>6. \A x \in Item :
        /\ nx2[x] = IF x = i THEN NULL ELSE IF x = At(s, k - 1) THEN At(s, k + 1) ELSE nx[x]
        /\ pv2[x] = IF x = i THEN NULL ELSE IF x = At(s, k + 1) THEN At(s, k - 1) ELSE pv[x]
  BY DEF Removal, RemoveLinks, i, s
<1>7. ASSUME NEW a \in 1..Len(t), NEW b \in 1..Len(t), t[a] = t[b] PROVE a = b
  <2>1. CASE a < k /\ b < k
    <3>1. a \in 1..Len(s) /\ b \in 1..Len(s)
      BY <1>1
    <3> QED BY <1>3, <1>5, <1>7, <2>1, <3>1
  <2>2. CASE a < k /\ ~(b < k)
    <3>1. a \in 1..Len(s) /\ b + 1 \in 1..Len(s) /\ a # b + 1
      BY <1>1, <2>2
    <3> QED BY <1>3, <1>5, <1>7, <2>2, <3>1
  <2>3. CASE ~(a < k) /\ b < k
    <3>1. b \in 1..Len(s) /\ a + 1 \in 1..Len(s) /\ b # a + 1
      BY <1>1, <2>3
    <3> QED BY <1>3, <1>5, <1>7, <2>3, <3>1
  <2>4. CASE ~(a < k) /\ ~(b < k)
    <3>1. b + 1 \in 1..Len(s) /\ a + 1 \in 1..Len(s)
      BY <1>1
    <3>2. a + 1 = b + 1
      BY <1>3, <1>5, <1>7, <2>4, <3>1
    <3> QED BY <1>1, <3>2
  <2> QED BY <2>1, <2>2, <2>3, <2>4
<1>8. ASSUME NEW a \in 1..Len(t) PROVE \E c \in 1..Len(s) : t[a] = s[c] /\ c # k
  <2>1. CASE a < k
    <3>1. a \in 1..Len(s) /\ a # k
      BY <1>1, <2>1
    <3> QED BY <1>5, <2>1, <3>1
  <2>2. CASE ~(a < k)
    <3>1. a + 1 \in 1..Len(s) /\ a + 1 # k
      BY <1>1, <2>2
    <3> QED BY <1>5, <2>2, <3>1
  <2> QED BY <2>1, <2>2
<1>9. ASSUME NEW c \in 1..Len(s), c # k PROVE \E a \in 1..Len(t) : t[a] = s[c]
  <2>1. CASE c < k
    <3>1. c \in 1..Len(t)
      BY <1>1, <2>1
    <3> QED BY <1>5, <2>1, <3>1
  <2>2. CASE ~(c < k)
    <3>1. c - 1 \in 1..Len(t) /\ ~(c - 1 < k) /\ (c - 1) + 1 = c
      BY <1>1, <1>9, <2>2
    <3> QED BY <1>5, <3>1
  <2> QED BY <2>1, <2>2
<1>10. Fits(q, p, t)
  <2>1. ASSUME NEW g \in Item \ {p}, NEW a \in 1..Len(t), NEW b \in 1..Len(q[g])
        PROVE  t[a] # q[g][b]
    BY <1>8 DEF Rep, Apart, s
  <2> QED BY <1>7, <2>1 DEF Fits
<1>11. \A c \in 1..Len(s) : s[c] \in Item /\ (s[c] = i => c = k)
  BY <1>1, <1>3 DEF i
<1>12. Siblings(nx2, pv2, t)
  <2> SUFFICES ASSUME NEW j \in 1..Len(t)
               PROVE  nx2[t[j]] = At(t, j + 1) /\ pv2[t[j]] = At(t, j - 1)
    BY DEF Siblings
  <2>1. CASE j < k
    <3>1. j \in 1..Len(s) /\ j # k /\ j - 1 \in 0..(k - 1)
      BY <1>1, <2>1
    <3>2. t[j] = s[j] /\ s[j] # i /\ s[j] \in Item
      BY <1>5, <1>11, <2>1, <3>1
    <3>3. nx[s[j]] = At(s, j + 1) /\ pv[s[j]] = At(s, j - 1)
      BY <1>3, <3>1 DEF Siblings
    <3>4. s[j] # At(s, k + 1)
      <4>1. k + 1 # j
        BY <1>1, <2>1
      <4> QED BY <1>3, <3>1, <3>2, <4>1, NullAssumption DEF At
    <3>5. pv2[t[j]] = At(t, j - 1)
      BY <1>4, <1>6, <3>1, <3>2, <3>3, <3>4
    <3>6. nx2[t[j]] = At(t, j + 1)
      <4>1. CASE j = k - 1
        <5>1. k - 1 \in 1..Len(s) /\ k \in k..Len(s) /\ j + 1 = k
          BY <1>1, <3>1, <4>1
        <5>2. At(s, k - 1) = s[j]
          BY <4>1, <5>1 DEF At
        <5>3. At(t, k) = At(s, k + 1)
          BY <1>4, <5>1
        <5> QED BY <1>6, <3>2, <5>1, <5>2, <5>3
      <4>2. CASE j # k - 1
        <5>1. j + 1 \in 0..(k - 1)
          BY <1>1, <2>1, <4>2
        <5>2. s[j] # At(s, k - 1)
          BY <1>3, <3>1, <3>2, <4>2, NullAssumption DEF At
        <5>3. At(t, j + 1) = At(s, j + 1)
          BY <1>4, <5>1
        <5> QED BY <1>6, <3>2, <3>3, <5>2, <5>3
      <4> QED BY <4>1, <4>2
    <3> QED BY <3>5, <3>6
  <2>2. CASE ~(j < k)
    <3>1. /\ j + 1 \in 1..Len(s) /\ j + 1 # k /\ j + 1 # k - 1 /\ j + 1 \in k..Len(s)
          /\ j \in k..Len(s) /\ (j + 1) - 1 = j
      BY <1>1, <2>2
    <3>2. t[j] = s[j + 1] /\ s[j + 1] # i /\ s[j + 1] \in Item
      BY <1>5, <1>11, <2>2, <3>1
    <3>3. nx[s[j + 1]] = At(s, (j + 1) + 1) /\ pv[s[j + 1]] = At(s, j)
      BY <1>3, <3>1 DEF Siblings
    <3>4. s[j + 1] # At(s, k - 1)
      BY <1>3, <3>1, <3>2, NullAssumption DEF At
    <3>5. nx2[t[j]] = At(t, j + 1)
      BY <1>4, <1>6, <3>1, <3>2, <3>3, <3>4
    <3>6. pv2[t[j]] = At(t, j - 1)
      <4>1. CASE j = k
        <5>1. k + 1 \in 1..Len(s) /\ k - 1 \in 0..(k - 1)
          BY <1>1, <3>1, <4>1
        <5>2. At(s, k + 1) = s[j + 1] /\ At(t, k - 1) = At(s, k - 1)
          BY <1>4, <4>1, <5>1 DEF At
        <5> QED BY <1>6, <3>2, <4>1, <5>2
      <4>2. CASE j # k
        <5>1. PICK m \in k..Len(s) : m + 1 = j
          <6>1. j - 1 \in k..Len(s) /\ (j - 1) + 1 = j
            BY <1>1, <2>2, <4>2
          <6> QED BY <6>1
        <5>2. j - 1 = m /\ j + 1 # k + 1
          BY <1>1, <4>2, <5>1
        <5>3. s[j + 1] # At(s, k + 1)
          BY <1>3, <3>1, <3>2, <5>2, NullAssumption DEF At
        <5>4. At(t, m) = At(s, j)
          BY <1>4, <5>1
        <5> QED BY <1>6, <3>2, <3>3, <5>2, <5>3, <5>4
      <4> QED BY <4>1, <4>2
    <3> QED BY <3>5, <3>6
  <2> QED BY <2>1, <2>2
<1>13. ASSUME NEW x \in Item, \A j \in 1..Len(s) : x # s[j]
       PROVE  nx2[x] = nx[x] /\ pv2[x] = pv[x]
  <2>1. At(s, k - 1) # x /\ At(s, k + 1) # x /\ x # i
    BY <1>13, <1>1, NullAssumption DEF At, i
  <2> QED BY <1>6, <1>13, <2>1
<1>14. ch2[p] = At(t, 1)
  <2>1. CASE k = 1
    <3>1. 1 \in k..Len(s) /\ At(t, 1) = At(s, 1 + 1)
      BY <1>1, <1>4, <2>1
    <3> QED BY <2>1, <3>1 DEF Removal, s
  <2>2. CASE k # 1
    <3>1. 1 \in 0..(k - 1)
      BY <1>1, <2>2
    <3> QED BY <1>3, <1>4, <2>2, <3>1 DEF Removal
  <2> QED BY <2>1, <2>2
<1>15. ASSUME NEW g \in Item \ {p}, NEW m \in 1..Len(q[g])
       PROVE  nx2[q[g][m]] = nx[q[g][m]] /\ pv2[q[g][m]] = pv[q[g][m]]
  <2>1. q[g][m] \in Item
    BY DEF Kids
  <2>2. \A j \in 1..Len(s) : q[g][m] # s[j]
    BY DEF Rep, Apart, s
  <2> QED BY <1>13, <2>1, <2>2
<1>16. ASSUME NEW x \in Item PROVE Placed(r, x) <=> Placed(q, x) /\ x # i
  <2>1. ASSUME Placed(r, x) PROVE Placed(q, x) /\ x # i
    <3> PICK g \in Item : \E m \in 1..Len(r[g]) : r[g][m] = x
      BY <2>1 DEF Placed
    <3> PICK m \in 1..Len(r[g]) : r[g][m] = x
      OBVIOUS
    <3>1. CASE g = p
      <4>1. PICK c \in 1..Len(s) : x = s[c] /\ c # k
        BY <1>2, <1>8, <3>1
      <4> QED BY <1>11, <4>1 DEF Placed, s
    <3>2. CASE g # p
      <4>1. m \in 1..Len(q[g]) /\ q[g][m] = x
        BY <1>2, <3>2
      <4>2. x # i
        BY <1>1, <3>2, <4>1 DEF i, s, Rep, Apart
      <4> QED BY <4>1, <4>2 DEF Placed
    <3> QED BY <3>1, <3>2
  <2>2. ASSUME Placed(q, x), x # i PROVE Placed(r, x)
    <3> PICK g \in Item : \E m \in 1..Len(q[g]) : q[g][m] = x
      BY <2>2 DEF Placed
    <3> PICK m \in 1..Len(q[g]) : q[g][m] = x
      OBVIOUS
    <3>1. CASE g = p
      <4>1. m \in 1..Len(s) /\ s[m] = x /\ m # k
        BY <2>2, <3>1 DEF i, s
      <4>2. PICK a \in 1..Len(t) : t[a] = x
        BY <1>9, <4>1
      <4> QED BY <1>2, <4>2 DEF Placed
    <3>2. CASE g # p
      BY <1>2, <3>2 DEF Placed
    <3> QED BY <3>1, <3>2
  <2> QED BY <2>1, <2>2
<1>17. Tidy(nx2, pv2, ch2, ty, r)
  <2>1. ASSUME NEW x \in Item, ~Placed(r, x) PROVE nx2[x] = NULL /\ pv2[x] = NULL
    <3>1. CASE x = i
      BY <1>6, <3>1
    <3>2. CASE x # i
      <4>1. ~Placed(q, x)
        BY <1>16, <2>1, <3>2
      <4>2. \A j \in 1..Len(s) : x # s[j]
        BY <4>1 DEF Placed, s
      <4>3. nx[x] = NULL /\ pv[x] = NULL
        BY <4>1 DEF Rep, Tidy
      <4> QED BY <1>13, <4>2, <4>3
    <3> QED BY <3>1, <3>2
  <2>2. ASSUME NEW x \in Item, ty[x] = "free" PROVE ch2[x] = NULL /\ ~Placed(r, x)
    <3>1. x # p
      BY <2>2 DEF Box
    <3> QED BY <1>16, <2>2, <3>1 DEF Rep, Tidy, Removal
  <2>3. ASSUME NEW x \in Item, ch2[x] # NULL PROVE ty[ch2[x]] # "free"
    <3>1. CASE x = p /\ k = 1
      <4>1. ch2[x] = At(s, 2)
        BY <3>1 DEF Removal, s
      <4>2. 2 \in 1..Len(s) /\ ch2[x] = s[2]
        BY <2>3, <4>1 DEF At
      <4>3. Placed(q, s[2]) /\ s[2] \in Item
        BY <1>11, <4>2 DEF Placed, s
      <4> QED BY <4>2, <4>3 DEF Rep, Tidy
    <3>2. CASE ~(x = p /\ k = 1)
      <4>1. ch2[x] = ch[x]
        BY <3>2 DEF Removal
      <4> QED BY <2>3, <4>1 DEF Rep, Tidy
    <3> QED BY <3>1, <3>2
  <2> QED BY <2>1, <2>2, <2>3 DEF Tidy
<1>18. ListChange(nx, pv, ch, ty, q, nx2, pv2, ch2, ty, p, t)
  <2>1. \A g \in Item \ {p} : ch2[g] = ch[g]
    BY DEF Removal
  <2> QED BY <1>10, <1>12, <1>14, <1>15, <2>1 DEF ListChange
<1>19. ~Placed(r, i)
  BY <1>1, <1>16
<1> QED BY <1>17, <1>18, <1>19, ListChanged DEF r, i, s

-----------------------------------------------------------------------------
(* A child is replaced.                                                        *)

\* There is such a sequence.
LEMMA PutInExists ==
  ASSUME NEW s \in Seq(Item), NEW k \in 0..Len(s), NEW i \in Item
  PROVE  \E t \in Seq(Item) : PutIn(s, k, i, t)
<1> DEFINE t == [j \in 1..(Len(s) + 1) |-> IF j <= k THEN s[j] ELSE IF j = k + 1 THEN i ELSE s[j - 1]]
<1>1. Len(s) \in Nat /\ k \in Nat /\ k <= Len(s)
  OBVIOUS
<1>2. ASSUME NEW j \in 1..(Len(s) + 1)
      PROVE  (IF j <= k THEN s[j] ELSE IF j = k + 1 THEN i ELSE s[j - 1]) \in Item
  BY <1>1
<1>3. t \in Seq(Item) /\ Len(t) = Len(s) + 1
  <2>1. Len(s) + 1 \in Nat
    BY <1>1
  <2> QED BY <1>2, <2>1, IsASeq
<1> QED BY <1>3 DEF PutIn

\* There is such a sequence.
LEMMA TakeOutExists ==
  ASSUME NEW s \in Seq(Item), NEW k \in 1..Len(s)
  PROVE  \E t \in Seq(Item) : TakeOut(s, k, t)
<1> DEFINE t == [j \in 1..(Len(s) - 1) |-> IF j < k THEN s[j] ELSE s[j + 1]]
<1>1. Len(s) \in Nat /\ k \in Nat /\ k <= Len(s) /\ 1 <= k
  OBVIOUS
<1>2. ASSUME NEW j \in 1..(Len(s) - 1)
      PROVE  (IF j < k THEN s[j] ELSE s[j + 1]) \in Item
  BY <1>1
<1>3. t \in Seq(Item) /\ Len(t) = Len(s) - 1
  <2>1. Len(s) - 1 \in Nat
    BY <1>1
  <2> QED BY <1>2, <2>1, IsASeq
<1>4. Len(t) + 1 = Len(s)
  BY <1>1, <1>3
<1> QED BY <1>3, <1>4 DEF TakeOut

\* Links that change as r takes the place of the k-th of the items s.
ReplaceLinks(nx, pv, s, k, r, nx2, pv2) ==
  \A x \in Item :
    /\ nx2[x] = IF x = s[k] THEN NULL ELSE IF x = At(s, k - 1) THEN r
                ELSE IF x = r THEN At(s, k + 1) ELSE nx[x]
    /\ pv2[x] = IF x = s[k] THEN NULL ELSE IF x = At(s, k + 1) THEN r
                ELSE IF x = r THEN At(s, k - 1) ELSE pv[x]

Replacement(nx, pv, ch, q, p, k, r, nx2, pv2, ch2) ==
  /\ ReplaceLinks(nx, pv, q[p], k, r, nx2, pv2)
  /\ ch2[p] = IF k = 1 THEN r ELSE ch[p]
  /\ \A g \in Item \ {p} : ch2[g] = ch[g]

\* An item that is in no container may take the place of a child of p: it is as
\* if it were put before that child, and the child then taken out.
LEMMA ReplaceRep ==
  ASSUME NEW nx \in Links, NEW pv \in Links, NEW ch \in Links, NEW ty \in Types,
         NEW q \in Kids, Rep(nx, pv, ch, ty, q),
         NEW p \in Item, Box(ty, p), NEW k \in 1..Len(q[p]),
         NEW r \in Item, ty[r] # "free", ~Placed(q, r),
         NEW nx2 \in Links, NEW pv2 \in Links, NEW ch2 \in Links,
         Replacement(nx, pv, ch, q, p, k, r, nx2, pv2, ch2)
  PROVE  LET t == [q[p] EXCEPT ![k] = r]
         IN  /\ Rep(nx2, pv2, ch2, ty, [q EXCEPT ![p] = t])
             /\ [q EXCEPT ![p] = t] \in Kids
             /\ ~Placed([q EXCEPT ![p] = t], q[p][k])
<1> DEFINE s == q[p]
           i == s[k]
<1>1. /\ s \in Seq(Item) /\ Len(s) \in Nat /\ k \in Nat /\ 1 <= k /\ k <= Len(s) /\ i \in Item
      /\ k - 1 \in 0..Len(s)
  BY DEF Kids
<1>2. \A j \in 1..Len(s) : s[j] # r
  BY DEF Placed
<1> HIDE DEF s, i
<1>3. PICK t1 \in Seq(Item) : PutIn(s, k - 1, r, t1)
  BY <1>1, PutInExists
<1>4. /\ Len(t1) = Len(s) + 1
      /\ \A j \in 0..(k - 1) : At(t1, j) = At(s, j)
      /\ At(t1, k) = r
      /\ \A j \in k..(Len(s) + 1) : At(t1, j + 1) = At(s, j)
  <2>1. (k - 1) + 1 = k
    BY <1>1
  <2>2. /\ Len(t1) = Len(s) + 1
        /\ \A j \in 0..(k - 1) : At(t1, j) = At(s, j)
        /\ At(t1, (k - 1) + 1) = r
        /\ \A j \in ((k - 1) + 1)..(Len(s) + 1) : At(t1, j + 1) = At(s, j)
    BY <1>1, <1>3, PutInAt
  <2> QED BY <2>1, <2>2
<1>5. k + 1 \in 1..Len(t1)
  BY <1>1, <1>4
<1>6. PICK t2 \in Seq(Item) : TakeOut(t1, k + 1, t2)
  BY <1>5, TakeOutExists
<1> DEFINE nx1 == [x \in Item |-> IF x = r THEN i ELSE IF x = At(s, k - 1) THEN r ELSE nx[x]]
           pv1 == [x \in Item |-> IF x = r THEN At(s, k - 1) ELSE IF x = i THEN r ELSE pv[x]]
           ch1 == [x \in Item |-> IF x = p /\ k = 1 THEN r ELSE ch[x]]
           q1 == [q EXCEPT ![p] = t1]
<1>7. nx1 \in Links /\ pv1 \in Links /\ ch1 \in Links
  <2>1. At(s, k - 1) \in Item \cup {NULL}
    BY <1>1, AtValues
  <2> QED BY <1>1, <2>1 DEF Links
<1>8. Rep(nx1, pv1, ch1, ty, q1) /\ q1 \in Kids
  <2>1. At(s, (k - 1) + 1) = i
    BY <1>1 DEF At, i
  <2>2. InsertLinks(nx, pv, s, k - 1, r, nx1, pv1)
    BY <2>1 DEF InsertLinks
  <2>3. ch1[p] = IF k - 1 = 0 THEN r ELSE ch[p]
    BY <1>1
  <2>4. \A g \in Item \ {p} : ch1[g] = ch[g]
    OBVIOUS
  <2>5. ch1[r] = NULL \/ ty[ch1[r]] # "free"
    BY DEF Rep, Tidy
  <2> HIDE DEF nx1, pv1, ch1, q1
  <2>6. Insertion(nx, pv, ch, ty, q, p, k - 1, r, nx1, pv1, ch1, ty, t1)
    BY <1>3, <2>2, <2>3, <2>4, <2>5 DEF Insertion, s
  <2> QED BY <1>1, <1>7, <2>6, InsertRep DEF q1, s
<1>9. q1[p] = t1
  BY DEF Kids
<1>10. t1[k + 1] = i /\ i # r /\ At(t1, (k + 1) - 1) = r /\ At(t1, (k + 1) + 1) = At(s, k + 1)
  <2>1. At(t1, k + 1) = t1[k + 1]
    BY <1>5 DEF At
  <2>2. At(s, k) = i
    BY <1>1 DEF At, i
  <2>3. k \in k..(Len(s) + 1) /\ k + 1 \in k..(Len(s) + 1) /\ (k + 1) - 1 = k
    BY <1>1
  <2>4. i # r
    BY <1>1, <1>2 DEF i
  <2> QED BY <1>4, <2>1, <2>2, <2>3, <2>4
<1>11. \A x \in Item :
        /\ nx2[x] = IF x = i THEN NULL ELSE IF x = r THEN At(s, k + 1) ELSE nx1[x]
        /\ pv2[x] = IF x = i THEN NULL ELSE IF x = At(s, k + 1) THEN r ELSE pv1[x]
  <2>1. At(s, k - 1) # r /\ At(s, k + 1) # r
    BY <1>2, NullAssumption DEF At
  <2>2. \A x \in Item :
          /\ nx2[x] = IF x = i THEN NULL ELSE IF x = At(s, k - 1) THEN r
                      ELSE IF x = r THEN At(s, k + 1) ELSE nx[x]
          /\ pv2[x] = IF x = i THEN NULL ELSE IF x = At(s, k + 1) THEN r
                      ELSE IF x = r THEN At(s, k - 1) ELSE pv[x]
    BY DEF Replacement, ReplaceLinks, s, i
  <2> QED BY <2>1, <2>2
<1>12. Removal(nx1, pv1, ch1, q1, p, k + 1, nx2, pv2, ch2, t2)
  <2>1. k + 1 # 1
    BY <1>1
  <2>2. ch2[p] = ch1[p] /\ \A g \in Item \ {p} : ch2[g] = ch1[g]
    BY DEF Replacement
  <2> HIDE DEF nx1, pv1, ch1, q1
  <2>3. RemoveLinks(nx1, pv1, t1, k + 1, nx2, pv2)
    BY <1>10, <1>11 DEF RemoveLinks
  <2> QED BY <1>6, <1>9, <2>1, <2>2, <2>3 DEF Removal
<1>13. /\ Rep(nx2, pv2, ch2, ty, [q1 EXCEPT ![p] = t2]) /\ [q1 EXCEPT ![p] = t2] \in Kids
       /\ ~Placed([q1 EXCEPT ![p] = t2], i)
  <2> HIDE DEF nx1, pv1, ch1, q1
  <2> QED BY <1>5, <1>7, <1>8, <1>9, <1>10, <1>12, RemoveRep
<1>14. t2 = [s EXCEPT ![k] = r]
  <2>1. Len(t2) = Len(s)
    BY <1>1, <1>4, <1>6 DEF TakeOut
  <2>2. ASSUME NEW j \in 1..Len(s) PROVE t2[j] = IF j = k THEN r ELSE s[j]
    <3>1. t2[j] = IF j < k + 1 THEN t1[j] ELSE t1[j + 1]
      BY <1>6, <2>1 DEF TakeOut
    <3>2. CASE j < k
      <4>1. j <= k - 1 /\ j # k /\ j < k + 1 /\ j \in 1..(Len(s) + 1)
        BY <1>1, <3>2
      <4> QED BY <1>3, <3>1, <4>1 DEF PutIn
    <3>3. CASE j = k
      <4>1. ~(j <= k - 1) /\ j = (k - 1) + 1 /\ j < k + 1 /\ j \in 1..(Len(s) + 1)
        BY <1>1, <3>3
      <4> QED BY <1>3, <3>1, <3>3, <4>1 DEF PutIn
    <3>4. CASE j > k
      <4>1. /\ ~(j + 1 <= k - 1) /\ j + 1 # (k - 1) + 1 /\ ~(j < k + 1) /\ j # k
            /\ j + 1 \in 1..(Len(s) + 1) /\ (j + 1) - 1 = j
        BY <1>1, <3>4
      <4> QED BY <1>3, <3>1, <4>1 DEF PutIn
    <3> QED BY <1>1, <3>2, <3>3, <3>4
  <2>3. [s EXCEPT ![k] = r] \in Seq(Item) /\ Len([s EXCEPT ![k] = r]) = Len(s)
    BY <1>1
  <2>4. \A j \in 1..Len(s) : [s EXCEPT ![k] = r][j] = IF j = k THEN r ELSE s[j]
    BY <1>1
  <2> DEFINE u == [s EXCEPT ![k] = r]
  <2>5. u \in Seq(Item) /\ Len(u) = Len(s) /\ \A j \in 1..Len(s) : u[j] = t2[j]
    BY <2>2, <2>3, <2>4
  <2> HIDE DEF u
  <2>6. t2 = u
    BY <2>1, <2>5, SeqEqual
  <2> QED BY <2>6 DEF u
<1>15. [q1 EXCEPT ![p] = t2] = [q EXCEPT ![p] = t2]
  BY DEF Kids
<1> HIDE DEF q1, nx1, pv1, ch1
<1> QED BY <1>13, <1>14, <1>15 DEF i, s

-----------------------------------------------------------------------------
(* An item and its tree are freed.                                             *)

\* What cJSON_Delete goes to from y.
Goes(nx, ch, ty) ==
  [y \in Item |-> {nx[y]} \cup IF ty[y] = "reference" THEN {} ELSE {ch[y]}]
Gone(nx, ch, ty, i) == Closure(i, Goes(nx, ch, ty))

Cleared(gone, f) == [x \in Item |-> IF x \in gone THEN NULL ELSE f[x]]
Freed(gone, ty) == [x \in Item |-> IF x \in gone THEN "free" ELSE ty[x]]
Emptied(gone, q) == [x \in Item |-> IF x \in gone THEN <<>> ELSE q[x]]

\* Nothing in S leads out of it.
Inside(nx, ch, ty, S) ==
  \A y \in S : /\ nx[y] \in S \cup {NULL}
               /\ ty[y] # "reference" => ch[y] \in S \cup {NULL}

\* Gone has i and is the least set that nothing leads out of.
LEMMA GoneClosed ==
  ASSUME NEW nx \in Links, NEW ch \in Links, NEW ty \in Types, NEW i \in Item
  PROVE  /\ Gone(nx, ch, ty, i) \in SUBSET Item /\ i \in Gone(nx, ch, ty, i)
         /\ Inside(nx, ch, ty, Gone(nx, ch, ty, i))
         /\ \A S \in SUBSET Item :
              i \in S /\ Inside(nx, ch, ty, S) => Gone(nx, ch, ty, i) \subseteq S
<1> DEFINE step == Goes(nx, ch, ty)
           gone == Closure(i, step)
<1>1. step \in [Item -> SUBSET (Item \cup {NULL})]
  BY DEF Goes, Links
<1>2. \A y \in Item : step[y] = {nx[y]} \cup IF ty[y] = "reference" THEN {} ELSE {ch[y]}
  BY DEF Goes
<1> HIDE DEF step
<1>3. /\ gone \in SUBSET Item /\ i \in gone
      /\ \A y \in gone : step[y] \subseteq gone \cup {NULL}
      /\ \A S \in SUBSET Item :
           i \in S /\ (\A y \in S : step[y] \subseteq S \cup {NULL}) => gone \subseteq S
  BY <1>1, ClosureLeast
<1> HIDE DEF gone
<1>4. ASSUME NEW y \in gone
      PROVE  nx[y] \in gone \cup {NULL} /\ (ty[y] # "reference" => ch[y] \in gone \cup {NULL})
  BY <1>2, <1>3
<1>5. Inside(nx, ch, ty, gone)
  BY <1>4 DEF Inside
<1>6. ASSUME NEW S \in SUBSET Item, i \in S, Inside(nx, ch, ty, S)
      PROVE  gone \subseteq S
  <2>1. \A y \in S : step[y] \subseteq S \cup {NULL}
    <3> TAKE y \in S
    <3>1. nx[y] \in S \cup {NULL} /\ (ty[y] # "reference" => ch[y] \in S \cup {NULL})
      BY <1>6 DEF Inside
    <3> QED BY <1>2, <3>1
  <2> QED BY <1>3, <1>6, <2>1
<1> QED BY <1>3, <1>5, <1>6 DEF gone, step, Gone

\* What is freed of a list is the whole list and its container; what is freed
\* from an item in no container on is whole subtrees.
LEMMA GoneWhole ==
  ASSUME NEW nx \in Links, NEW pv \in Links, NEW ch \in Links, NEW ty \in Types,
         NEW q \in Kids, Rep(nx, pv, ch, ty, q), NEW i \in Item, ~Placed(q, i),
         NEW p \in Item, NEW k \in 1..Len(q[p])
  PROVE  q[p][k] \in Gone(nx, ch, ty, i) <=> p \in Gone(nx, ch, ty, i)
<1> DEFINE gone == Gone(nx, ch, ty, i)
<1>1. /\ gone \in SUBSET Item /\ i \in gone
      /\ \A y \in gone : /\ nx[y] \in gone \cup {NULL}
                         /\ ty[y] # "reference" => ch[y] \in gone \cup {NULL}
      /\ \A S \in SUBSET Item :
           i \in S /\ Inside(nx, ch, ty, S) => gone \subseteq S
  <2>1. /\ gone \in SUBSET Item /\ i \in gone /\ Inside(nx, ch, ty, gone)
        /\ \A S \in SUBSET Item : i \in S /\ Inside(nx, ch, ty, S) => gone \subseteq S
    BY GoneClosed
  <2> HIDE DEF gone
  <2>2. \A y \in gone : /\ nx[y] \in gone \cup {NULL}
                        /\ ty[y] # "reference" => ch[y] \in gone \cup {NULL}
    BY <2>1 DEF Inside
  <2> QED BY <2>1, <2>2
<1> HIDE DEF gone
<1>2. \A g \in Item : q[g] \in Seq(Item) /\ Len(q[g]) \in Nat
  BY DEF Kids
<1>3. \A g \in Item : Len(q[g]) # 0 => Box(ty, g)
  <2>1. Len(<<>>) = 0
    OBVIOUS
  <2> QED BY <2>1 DEF Rep, Lists
<1>4. \A g \in Item : Box(ty, g) => ch[g] = At(q[g], 1) /\ Siblings(nx, pv, q[g])
  BY DEF Rep, Lists
<1>5. ASSUME p \in gone PROVE q[p][k] \in gone
  <2> DEFINE T == {m \in Nat : m \in 1..Len(q[p]) /\ q[p][m] \notin gone}
  <2> SUFFICES ASSUME T # {} PROVE FALSE
    BY <1>2
  <2>1. PICK m \in T : \A j \in T : ~(j < m)
    <3>1. T \in SUBSET Nat
      OBVIOUS
    <3> HIDE DEF T
    <3> QED BY <3>1, LeastElement
  <2>2. m \in 1..Len(q[p]) /\ q[p][m] \notin gone /\ Box(ty, p)
    BY <1>2, <1>3
  <2>3. q[p][m] \in Item /\ At(q[p], m) = q[p][m]
    BY <1>2, <2>2 DEF At
  <2>4. CASE m = 1
    BY <1>1, <1>4, <1>5, <2>2, <2>3, <2>4, NullAssumption DEF Box
  <2>5. CASE m # 1
    <3>1. m - 1 \in 1..Len(q[p]) /\ (m - 1) + 1 = m /\ m - 1 < m /\ m - 1 \in Nat
      BY <1>2, <2>2, <2>5
    <3>2. q[p][m - 1] \in gone
      BY <2>1, <3>1
    <3>3. nx[q[p][m - 1]] = q[p][m]
      BY <1>4, <2>2, <2>3, <3>1 DEF Siblings
    <3> QED BY <1>1, <2>2, <2>3, <3>2, <3>3, NullAssumption
  <2> QED BY <2>4, <2>5
<1>6. ASSUME p \notin gone PROVE q[p][k] \notin gone
  <2> DEFINE S == {y \in gone : \A m \in 1..Len(q[p]) : y # q[p][m]}
  <2>1. S \in SUBSET Item /\ i \in S /\ S \subseteq gone
    BY <1>1 DEF Placed
  <2>2. ASSUME NEW y \in S
        PROVE  nx[y] \in S \cup {NULL} /\ (ty[y] # "reference" => ch[y] \in S \cup {NULL})
    <3>1. y \in gone /\ y \in Item /\ \A m \in 1..Len(q[p]) : y # q[p][m]
      BY <1>1
    <3>2. nx[y] \in S \cup {NULL}
      <4>1. CASE ~Placed(q, y)
        BY <3>1, <4>1 DEF Rep, Tidy
      <4>2. CASE Placed(q, y)
        <5> PICK g \in Item : \E m \in 1..Len(q[g]) : q[g][m] = y
          BY <4>2 DEF Placed
        <5> PICK m \in 1..Len(q[g]) : q[g][m] = y
          OBVIOUS
        <5>1. g # p /\ Box(ty, g)
          BY <1>2, <1>3, <3>1
        <5>2. nx[y] = At(q[g], m + 1)
          BY <1>4, <5>1 DEF Siblings
        <5>3. CASE m + 1 \in 1..Len(q[g])
          <6>1. nx[y] = q[g][m + 1]
            BY <5>2, <5>3 DEF At
          <6>2. nx[y] # NULL
            BY <1>2, <5>3, <6>1, NullAssumption
          <6>3. \A a \in 1..Len(q[p]) : nx[y] # q[p][a]
            BY <5>1, <5>3, <6>1 DEF Rep, Apart
          <6> QED BY <1>1, <3>1, <6>2, <6>3
        <5>4. CASE m + 1 \notin 1..Len(q[g])
          BY <5>2, <5>4 DEF At
        <5> QED BY <5>3, <5>4
      <4> QED BY <4>1, <4>2
    <3>3. ty[y] # "reference" => ch[y] \in S \cup {NULL}
      <4> SUFFICES ASSUME ty[y] # "reference", ch[y] # NULL PROVE ch[y] \in S
        OBVIOUS
      <4>1. ch[y] \in gone
        BY <1>1, <3>1
      <4>2. ty[y] # "free"
        BY <3>1 DEF Rep, Tidy
      <4>3. Box(ty, y) /\ y # p
        BY <3>1, <1>6, <4>2 DEF Box, Types
      <4>4. 1 \in 1..Len(q[y]) /\ ch[y] = q[y][1]
        BY <1>4, <3>1, <4>3 DEF At
      <4>5. \A a \in 1..Len(q[p]) : ch[y] # q[p][a]
        BY <3>1, <4>3, <4>4 DEF Rep, Apart
      <4> QED BY <4>1, <4>5
    <3> QED BY <3>2, <3>3
  <2>3. gone \subseteq S
    <3> HIDE DEF S
    <3>1. Inside(nx, ch, ty, S)
      BY <2>2 DEF Inside
    <3> QED BY <1>1, <2>1, <3>1
  <2> QED BY <2>3
<1> QED BY <1>5, <1>6 DEF gone

\* Deleting an item that is in no container, and to whose tree no reference
\* outside of it points, leaves the rest as it was.
LEMMA DeleteRep ==
  ASSUME NEW nx \in Links, NEW pv \in Links, NEW ch \in Links, NEW ty \in Types,
         NEW q \in Kids, Rep(nx, pv, ch, ty, q), NEW i \in Item, ~Placed(q, i),
         NEW gone, gone = Gone(nx, ch, ty, i),
         \A r \in Item \ gone : ty[r] = "reference" => ch[r] \notin gone
  PROVE  /\ Rep(Cleared(gone, nx), Cleared(gone, pv), Cleared(gone, ch), Freed(gone, ty), Emptied(gone, q))
         /\ Cleared(gone, nx) \in Links /\ Cleared(gone, pv) \in Links /\ Cleared(gone, ch) \in Links
         /\ Freed(gone, ty) \in Types /\ Emptied(gone, q) \in Kids
<1>1. gone \in SUBSET Item
  BY GoneClosed
<1>2. \A p \in Item : \A k \in 1..Len(q[p]) : q[p][k] \in gone <=> p \in gone
  BY GoneWhole
<1> DEFINE nx2 == Cleared(gone, nx)
           pv2 == Cleared(gone, pv)
           ch2 == Cleared(gone, ch)
           ty2 == Freed(gone, ty)
           r == Emptied(gone, q)
<1>3. /\ nx2 \in Links /\ pv2 \in Links /\ ch2 \in Links /\ ty2 \in Types
      /\ \A x \in Item : /\ nx2[x] = IF x \in gone THEN NULL ELSE nx[x]
                         /\ pv2[x] = IF x \in gone THEN NULL ELSE pv[x]
                         /\ ch2[x] = IF x \in gone THEN NULL ELSE ch[x]
                         /\ ty2[x] = IF x \in gone THEN "free" ELSE ty[x]
  BY DEF Cleared, Freed, Links, Types
<1>4. r \in Kids /\ \A x \in Item : r[x] = IF x \in gone THEN <<>> ELSE q[x]
  <2>1. <<>> \in Seq(Item)
    BY EmptySeq
  <2> QED BY <2>1 DEF Emptied, Kids
<1> HIDE DEF nx2, pv2, ch2, ty2, r
<1>5. Len(<<>>) = 0 /\ \A g \in Item : q[g] \in Seq(Item)
  BY DEF Kids
<1>6. Apart(r)
  <2> SUFFICES ASSUME NEW a \in Item, NEW b \in Item, NEW k \in 1..Len(r[a]), NEW m \in 1..Len(r[b]),
                      r[a][k] = r[b][m]
               PROVE  a = b /\ k = m
    BY DEF Apart
  <2>1. a \notin gone /\ b \notin gone
    BY <1>4, <1>5
  <2> QED BY <1>4, <2>1 DEF Rep, Apart
<1>7. \A x \in Item : Placed(r, x) <=> Placed(q, x) /\ x \notin gone
  <2> TAKE x \in Item
  <2>1. ASSUME Placed(r, x) PROVE Placed(q, x) /\ x \notin gone
    <3> PICK g \in Item : \E m \in 1..Len(r[g]) : r[g][m] = x
      BY <2>1 DEF Placed
    <3> PICK m \in 1..Len(r[g]) : r[g][m] = x
      OBVIOUS
    <3>1. g \notin gone /\ r[g] = q[g]
      BY <1>4, <1>5
    <3> QED BY <1>2, <3>1 DEF Placed
  <2>2. ASSUME Placed(q, x), x \notin gone PROVE Placed(r, x)
    <3> PICK g \in Item : \E m \in 1..Len(q[g]) : q[g][m] = x
      BY <2>2 DEF Placed
    <3> PICK m \in 1..Len(q[g]) : q[g][m] = x
      OBVIOUS
    <3>1. g \notin gone /\ r[g] = q[g]
      BY <1>2, <1>4, <2>2
    <3> QED BY <3>1 DEF Placed
  <2> QED BY <2>1, <2>2
<1>8. Lists(nx2, pv2, ch2, ty2, r)
  <2> SUFFICES ASSUME NEW g \in Item
               PROVE  IF Box(ty2, g) THEN ch2[g] = At(r[g], 1) /\ Siblings(nx2, pv2, r[g])
                      ELSE r[g] = <<>>
    BY DEF Lists
  <2>1. CASE g \in gone
    BY <1>3, <1>4, <2>1 DEF Box
  <2>2. CASE g \notin gone
    <3>1. r[g] = q[g] /\ (Box(ty2, g) <=> Box(ty, g)) /\ ch2[g] = ch[g]
      BY <1>3, <1>4, <2>2 DEF Box
    <3>2. ASSUME Siblings(nx, pv, q[g]) PROVE Siblings(nx2, pv2, q[g])
      <4>1. \A m \in 1..Len(q[g]) : q[g][m] \in Item /\ q[g][m] \notin gone
        BY <1>2, <1>5, <2>2
      <4> QED BY <1>3, <3>2, <4>1 DEF Siblings
    <3> QED BY <3>1, <3>2 DEF Rep, Lists
  <2> QED BY <2>1, <2>2
<1>9. Tidy(nx2, pv2, ch2, ty2, r)
  <2>1. ASSUME NEW x \in Item, ~Placed(r, x) PROVE nx2[x] = NULL /\ pv2[x] = NULL
    BY <1>3, <1>7, <2>1 DEF Rep, Tidy
  <2>2. ASSUME NEW x \in Item, ty2[x] = "free" PROVE ch2[x] = NULL /\ ~Placed(r, x)
    BY <1>3, <1>7, <2>2 DEF Rep, Tidy
  <2>3. ASSUME NEW x \in Item, ch2[x] # NULL PROVE ty2[ch2[x]] # "free"
    <3>1. x \notin gone /\ ch2[x] = ch[x] /\ ch[x] # NULL
      BY <1>3, <2>3
    <3>2. ch[x] \in Item /\ ty[ch[x]] # "free" /\ ty[x] # "free"
      BY <3>1 DEF Rep, Tidy, Links
    <3>3. ch[x] \notin gone
      <4>1. CASE ty[x] = "reference"
        BY <3>1, <4>1
      <4>2. CASE ty[x] # "reference"
        <5>1. Box(ty, x)
          BY <3>2, <4>2 DEF Box, Types
        <5>2. ch[x] = At(q[x], 1)
          BY <5>1 DEF Rep, Lists
        <5>3. 1 \in 1..Len(q[x]) /\ ch[x] = q[x][1]
          BY <3>1, <5>2 DEF At
        <5> QED BY <1>2, <3>1, <5>3
      <4> QED BY <4>1, <4>2
    <3> QED BY <1>3, <3>1, <3>2, <3>3
  <2> QED BY <2>1, <2>2, <2>3 DEF Tidy
<1> QED BY <1>3, <1>4, <1>6, <1>8, <1>9 DEF Rep, nx2, pv2, ch2, ty2, r

-----------------------------------------------------------------------------
(* A tree is built in free blocks.                                             *)

\* tree is a tree, or several, of the nodes D, and K gives the children of each.
Grown(tree, D, K) ==
  /\ NULL \notin D
  /\ \A d \in D : tree.type[d] \in {"array", "object"} /\ K[d] \in Seq(D)
  /\ \A d \in D : tree.child[d] = At(K[d], 1)
  /\ \A d \in D : \A k \in 1..Len(K[d]) :
       tree.next[K[d][k]] = At(K[d], k + 1) /\ tree.prev[K[d][k]] = At(K[d], k - 1)
  /\ \A d, e \in D : \A k \in 1..Len(K[d]), m \in 1..Len(K[e]) :
       K[d][k] = K[e][m] => d = e /\ k = m
  /\ \A d \in D : \/ tree.next[d] = NULL /\ tree.prev[d] = NULL
                  \/ \E e \in D : \E k \in 1..Len(K[e]) : K[e][k] = d

\* f after the links g of the tree were put into the blocks B.
Over(f, g, B, at, bl) == [b \in Item |-> IF b \in B THEN bl[g[at[b]]] ELSE f[b]]

\* The tree is in blocks that were free: bl says in which one a node is, at
\* which node is in a block.
BuiltRep(ty, B, at, bl, D, ty2, tree) ==
  /\ \A b \in B : b \in Item /\ ty[b] = "free" /\ at[b] \in D /\ bl[at[b]] = b
  /\ \A d \in D : bl[d] \in B /\ at[bl[d]] = d
  /\ bl[NULL] = NULL
  /\ \A b \in Item : ty2[b] = IF b \in B THEN tree.type[at[b]] ELSE ty[b]

\* The links represent the tree, beside all that was there before.
LEMMA BuildRep ==
  ASSUME NEW nx \in Links, NEW pv \in Links, NEW ch \in Links, NEW ty \in Types,
         NEW q \in Kids, Rep(nx, pv, ch, ty, q),
         NEW tree, NEW D, NEW K, Grown(tree, D, K),
         NEW B, NEW at, NEW bl, NEW ty2, BuiltRep(ty, B, at, bl, D, ty2, tree),
         NEW nx2, nx2 = Over(nx, tree.next, B, at, bl),
         NEW pv2, pv2 = Over(pv, tree.prev, B, at, bl),
         NEW ch2, ch2 = Over(ch, tree.child, B, at, bl),
         NEW r, r = [b \in Item |-> IF b \in B THEN [k \in 1..Len(K[at[b]]) |-> bl[K[at[b]][k]]]
                                    ELSE q[b]]
  PROVE  Rep(nx2, pv2, ch2, ty2, r) /\ nx2 \in Links /\ pv2 \in Links /\ ch2 \in Links /\ r \in Kids
<1> DEFINE links2(f, g, f2) == \A b \in Item : f2[b] = IF b \in B THEN bl[g[at[b]]] ELSE f[b]
<1>1. /\ \A b \in B : b \in Item /\ ty[b] = "free" /\ at[b] \in D /\ bl[at[b]] = b
      /\ \A d \in D : bl[d] \in B /\ bl[d] \in Item /\ at[bl[d]] = d
      /\ bl[NULL] = NULL
      /\ \A b \in Item : ty2[b] = IF b \in B THEN tree.type[at[b]] ELSE ty[b]
  BY DEF BuiltRep
<1>2. /\ \A d \in D : tree.type[d] \in {"array", "object"}
      /\ \A d \in D : K[d] \in Seq(D) /\ Len(K[d]) \in Nat
      /\ \A d \in D : \A k \in 1..Len(K[d]) : K[d][k] \in D
      /\ \A d \in D : tree.child[d] = At(K[d], 1)
      /\ NULL \notin D
  BY DEF Grown
<1>3. /\ \A d \in D : \A k \in 1..Len(K[d]) :
           tree.next[K[d][k]] = At(K[d], k + 1) /\ tree.prev[K[d][k]] = At(K[d], k - 1)
      /\ \A d \in D : \/ tree.next[d] = NULL /\ tree.prev[d] = NULL
                      \/ \E e \in D : \E k \in 1..Len(K[e]) : K[e][k] = d
  BY DEF Grown
<1>4. \A d, e \in D : \A k \in 1..Len(K[d]), m \in 1..Len(K[e]) :
        K[d][k] = K[e][m] => d = e /\ k = m
  BY DEF Grown
<1>5. /\ \A b \in Item : nx2[b] = IF b \in B THEN bl[tree.next[at[b]]] ELSE nx[b]
      /\ \A b \in Item : pv2[b] = IF b \in B THEN bl[tree.prev[at[b]]] ELSE pv[b]
      /\ \A b \in Item : ch2[b] = IF b \in B THEN bl[tree.child[at[b]]] ELSE ch[b]
  BY DEF Over
<1>6. \A d \in D : \A k : At(K[d], k) \in D \cup {NULL}
  BY <1>2 DEF At
<1>7. \A d \in D : /\ tree.next[d] \in D \cup {NULL} /\ tree.prev[d] \in D \cup {NULL}
                   /\ tree.child[d] \in D \cup {NULL}
  <2> TAKE d \in D
  <2>1. CASE tree.next[d] = NULL /\ tree.prev[d] = NULL
    BY <1>2, <1>6, <2>1
  <2>2. CASE ~(tree.next[d] = NULL /\ tree.prev[d] = NULL)
    <3> PICK e \in D : \E k \in 1..Len(K[e]) : K[e][k] = d
      BY <1>3, <2>2
    <3> PICK k \in 1..Len(K[e]) : K[e][k] = d
      OBVIOUS
    <3>1. tree.next[d] = At(K[e], k + 1) /\ tree.prev[d] = At(K[e], k - 1)
      BY <1>3
    <3> QED BY <1>2, <1>6, <3>1
  <2> QED BY <2>1, <2>2
<1>8. \A x \in D \cup {NULL} : bl[x] \in Item \cup {NULL}
  BY <1>1
<1>9. nx2 \in Links /\ pv2 \in Links /\ ch2 \in Links
  <2>1. \A b \in B : /\ bl[tree.next[at[b]]] \in Item \cup {NULL}
                     /\ bl[tree.prev[at[b]]] \in Item \cup {NULL}
                     /\ bl[tree.child[at[b]]] \in Item \cup {NULL}
    BY <1>1, <1>7, <1>8
  <2>2. nx2 \in Links
    BY <2>1 DEF Over, Links
  <2>3. pv2 \in Links
    BY <2>1 DEF Over, Links
  <2>4. ch2 \in Links
    BY <2>1 DEF Over, Links
  <2> QED BY <2>2, <2>3, <2>4
<1> DEFINE kid(b) == [k \in 1..Len(K[at[b]]) |-> bl[K[at[b]][k]]]
<1>10. \A b \in B : /\ kid(b) \in Seq(Item) /\ Len(kid(b)) = Len(K[at[b]])
                    /\ \A k \in 1..Len(K[at[b]]) : kid(b)[k] = bl[K[at[b]][k]]
  <2> TAKE b \in B
  <2>1. Len(K[at[b]]) \in Nat /\ \A k \in 1..Len(K[at[b]]) : bl[K[at[b]][k]] \in Item
    BY <1>1, <1>2
  <2> QED BY <2>1, IsASeq
<1>11. r \in Kids /\ \A b \in Item : r[b] = IF b \in B THEN kid(b) ELSE q[b]
  <2>1. \A b \in B : kid(b) \in Seq(Item)
    BY <1>10
  <2>2. \A b \in Item : q[b] \in Seq(Item)
    BY DEF Kids
  <2>3. r = [b \in Item |-> IF b \in B THEN kid(b) ELSE q[b]]
    OBVIOUS
  <2> HIDE DEF kid
  <2> QED BY <2>1, <2>2, <2>3 DEF Kids
<1>12. ASSUME NEW b \in B
       PROVE  /\ Len(r[b]) = Len(K[at[b]])
              /\ \A k \in 1..Len(K[at[b]]) : r[b][k] = bl[K[at[b]][k]] /\ r[b][k] \in B
              /\ \A k : At(r[b], k) = bl[At(K[at[b]], k)]
  <2>1. b \in Item /\ at[b] \in D /\ r[b] = kid(b)
    BY <1>1, <1>11
  <2>2. Len(r[b]) = Len(K[at[b]]) /\ \A k \in 1..Len(K[at[b]]) : r[b][k] = bl[K[at[b]][k]]
    BY <1>10, <2>1
  <2>3. \A k \in 1..Len(K[at[b]]) : r[b][k] \in B
    BY <1>1, <1>2, <2>1, <2>2
  <2>4. \A k : At(r[b], k) = bl[At(K[at[b]], k)]
    BY <1>1, <2>2 DEF At
  <2> QED BY <2>2, <2>3, <2>4
<1>13. \A b \in Item \ B : r[b] = q[b]
  BY <1>11
<1> HIDE DEF kid
<1>14. \A b \in Item : \A k \in 1..Len(q[b]) : q[b][k] \in Item \ B
  <2> TAKE b \in Item
  <2> TAKE k \in 1..Len(q[b])
  <2>1. q[b][k] \in Item /\ Placed(q, q[b][k])
    BY DEF Kids, Placed
  <2>2. ty[q[b][k]] # "free"
    BY <2>1 DEF Rep, Tidy
  <2> QED BY <1>1, <2>1, <2>2
<1>15. Apart(r)
  <2> SUFFICES ASSUME NEW a \in Item, NEW b \in Item, NEW k \in 1..Len(r[a]), NEW m \in 1..Len(r[b]),
                      r[a][k] = r[b][m]
               PROVE  a = b /\ k = m
    BY DEF Apart
  <2>1. CASE a \in B /\ b \in B
    <3>1. /\ at[a] \in D /\ at[b] \in D /\ k \in 1..Len(K[at[a]]) /\ m \in 1..Len(K[at[b]])
          /\ bl[K[at[a]][k]] = bl[K[at[b]][m]]
      BY <1>1, <1>12, <2>1
    <3>2. K[at[a]][k] = K[at[b]][m]
      BY <1>1, <1>2, <3>1
    <3>3. at[a] = at[b] /\ k = m
      BY <1>4, <3>1, <3>2
    <3> QED BY <1>1, <2>1, <3>3
  <2>2. CASE a \notin B /\ b \notin B
    BY <1>13, <2>2 DEF Rep, Apart
  <2>3. CASE a \in B /\ b \notin B
    <3>1. r[a][k] \in B
      BY <1>12, <2>3
    <3>2. r[b][m] \in Item \ B
      BY <1>13, <1>14, <2>3
    <3> QED BY <3>1, <3>2
  <2>4. CASE a \notin B /\ b \in B
    <3>1. r[b][m] \in B
      BY <1>12, <2>4
    <3>2. r[a][k] \in Item \ B
      BY <1>13, <1>14, <2>4
    <3> QED BY <3>1, <3>2
  <2> QED BY <2>1, <2>2, <2>3, <2>4
<1>16. \A x \in Item \ B : Placed(r, x) <=> Placed(q, x)
  <2> TAKE x \in Item \ B
  <2>1. ASSUME Placed(r, x) PROVE Placed(q, x)
    <3> PICK g \in Item : \E m \in 1..Len(r[g]) : r[g][m] = x
      BY <2>1 DEF Placed
    <3> PICK m \in 1..Len(r[g]) : r[g][m] = x
      OBVIOUS
    <3>1. g \notin B
      BY <1>12
    <3> QED BY <1>13, <3>1 DEF Placed
  <2>2. ASSUME Placed(q, x) PROVE Placed(r, x)
    <3> PICK g \in Item : \E m \in 1..Len(q[g]) : q[g][m] = x
      BY <2>2 DEF Placed
    <3> PICK m \in 1..Len(q[g]) : q[g][m] = x
      OBVIOUS
    <3>1. g \notin B
      <4>1. Len(<<>>) = 0
        OBVIOUS
      <4> QED BY <1>1, <4>1 DEF Rep, Lists, Box
    <3> QED BY <1>13, <3>1 DEF Placed
  <2> QED BY <2>1, <2>2
<1>17. \A b \in B : Box(ty2, b)
  BY <1>1, <1>2 DEF Box
<1>18. Lists(nx2, pv2, ch2, ty2, r)
  <2> SUFFICES ASSUME NEW g \in Item
               PROVE  IF Box(ty2, g) THEN ch2[g] = At(r[g], 1) /\ Siblings(nx2, pv2, r[g])
                      ELSE r[g] = <<>>
    BY DEF Lists
  <2>1. CASE g \in B
    <3>1. at[g] \in D /\ Box(ty2, g) /\ ch2[g] = At(r[g], 1)
      <4>1. at[g] \in D /\ Box(ty2, g) /\ ch2[g] = bl[tree.child[at[g]]]
        BY <1>1, <1>5, <1>17, <2>1
      <4>2. At(r[g], 1) = bl[At(K[at[g]], 1)]
        <5>1. \A k : At(r[g], k) = bl[At(K[at[g]], k)]
          BY <1>12, <2>1
        <5> QED BY <5>1
      <4> QED BY <1>2, <4>1, <4>2
    <3>2. ASSUME NEW k \in 1..Len(r[g])
          PROVE  nx2[r[g][k]] = At(r[g], k + 1) /\ pv2[r[g][k]] = At(r[g], k - 1)
      <4>1. k \in 1..Len(K[at[g]]) /\ r[g][k] \in B /\ r[g][k] = bl[K[at[g]][k]] /\ r[g][k] \in Item
        BY <1>1, <1>12, <2>1
      <4>2. at[r[g][k]] = K[at[g]][k]
        BY <1>1, <1>2, <3>1, <4>1
      <4>3. nx2[r[g][k]] = bl[At(K[at[g]], k + 1)] /\ pv2[r[g][k]] = bl[At(K[at[g]], k - 1)]
        <5>1. nx2[r[g][k]] = bl[tree.next[at[r[g][k]]]] /\ pv2[r[g][k]] = bl[tree.prev[at[r[g][k]]]]
          BY <1>5, <4>1
        <5>2. tree.next[K[at[g]][k]] = At(K[at[g]], k + 1) /\ tree.prev[K[at[g]][k]] = At(K[at[g]], k - 1)
          BY <1>3, <3>1, <4>1
        <5> QED BY <4>2, <5>1, <5>2
      <4>4. \A j : At(r[g], j) = bl[At(K[at[g]], j)]
        BY <1>12, <2>1
      <4>5. At(r[g], k + 1) = bl[At(K[at[g]], k + 1)] /\ At(r[g], k - 1) = bl[At(K[at[g]], k - 1)]
        BY <4>4
      <4> QED BY <4>3, <4>5
    <3> QED BY <3>1, <3>2 DEF Siblings
  <2>2. CASE g \notin B
    <3>1. r[g] = q[g] /\ ch2[g] = ch[g] /\ (Box(ty2, g) <=> Box(ty, g))
      BY <1>1, <1>5, <1>13, <2>2 DEF Box
    <3>2. ASSUME Siblings(nx, pv, q[g]) PROVE Siblings(nx2, pv2, q[g])
      BY <1>5, <1>14, <3>2 DEF Siblings
    <3> QED BY <3>1, <3>2 DEF Rep, Lists
  <2> QED BY <2>1, <2>2
<1>19. Tidy(nx2, pv2, ch2, ty2, r)
  <2>1. ASSUME NEW x \in Item, ~Placed(r, x) PROVE nx2[x] = NULL /\ pv2[x] = NULL
    <3>1. CASE x \in B
      <4>1. at[x] \in D /\ bl[at[x]] = x
        BY <1>1, <3>1
      <4>2. CASE tree.next[at[x]] = NULL /\ tree.prev[at[x]] = NULL
        BY <1>1, <1>5, <3>1, <4>2
      <4>3. CASE ~(tree.next[at[x]] = NULL /\ tree.prev[at[x]] = NULL)
        <5> PICK e \in D : \E k \in 1..Len(K[e]) : K[e][k] = at[x]
          BY <1>3, <4>1, <4>3
        <5> PICK k \in 1..Len(K[e]) : K[e][k] = at[x]
          OBVIOUS
        <5>1. bl[e] \in B /\ bl[e] \in Item /\ at[bl[e]] = e
          BY <1>1
        <5>2. /\ Len(r[bl[e]]) = Len(K[e])
              /\ \A j \in 1..Len(K[e]) : r[bl[e]][j] = bl[K[e][j]]
          BY <1>12, <5>1
        <5>3. k \in 1..Len(r[bl[e]]) /\ r[bl[e]][k] = x
          BY <4>1, <5>2
        <5> QED BY <2>1, <5>1, <5>3 DEF Placed
      <4> QED BY <4>2, <4>3
    <3>2. CASE x \notin B
      BY <1>5, <1>16, <2>1, <3>2 DEF Rep, Tidy
    <3> QED BY <3>1, <3>2
  <2>2. ASSUME NEW x \in Item, ty2[x] = "free" PROVE ch2[x] = NULL /\ ~Placed(r, x)
    <3>1. x \notin B /\ ty[x] = "free"
      BY <1>1, <1>2, <2>2
    <3> QED BY <1>5, <1>16, <3>1 DEF Rep, Tidy
  <2>3. ASSUME NEW x \in Item, ch2[x] # NULL PROVE ty2[ch2[x]] # "free"
    <3>1. CASE x \in B
      <4>1. at[x] \in D /\ ch2[x] = bl[tree.child[at[x]]]
        BY <1>1, <1>5, <3>1
      <4>2. tree.child[at[x]] \in D
        BY <1>1, <1>7, <2>3, <4>1
      <4>3. ch2[x] \in B
        BY <1>1, <4>1, <4>2
      <4> QED BY <1>1, <1>2, <4>3
    <3>2. CASE x \notin B
      <4>1. ch2[x] = ch[x]
        BY <1>5, <3>2
      <4>2. ch[x] \in Item /\ ty[ch[x]] # "free"
        BY <2>3, <4>1 DEF Rep, Tidy, Links
      <4> QED BY <1>1, <4>1, <4>2
    <3> QED BY <3>1, <3>2
  <2> QED BY <2>1, <2>2, <2>3 DEF Tidy
<1> QED BY <1>9, <1>11, <1>15, <1>18, <1>19 DEF Rep

-----------------------------------------------------------------------------
(* The same for the operators of the module, on records of links.              *)

LinkRecords == [next : Links, prev : Links, child : Links]

\* The links L and types ty give each container the children q.
Shape(L, ty, q) ==
  L \in LinkRecords /\ ty \in Types /\ q \in Kids /\ Rep(L.next, L.prev, L.child, ty, q)

\* g is f with another value for x.
IsPut(f, x, v, g) == g \in Links /\ \A y \in Item : g[y] = IF y = x THEN v ELSE f[y]

\* What Put yields.
LEMMA PutValues ==
  ASSUME NEW f \in Links, NEW x \in Item \cup {NULL}, NEW v \in Item \cup {NULL}
  PROVE  IsPut(f, x, v, Put(f, x, v))
  BY NullAssumption DEF IsPut, Put, Links

\* The links of the k-th child of p.
ChildLink(nx, pv, ch, q, p, k) ==
  /\ q[p][k] \in Item /\ At(q[p], k) = q[p][k]
  /\ nx[q[p][k]] = At(q[p], k + 1) /\ pv[q[p][k]] = At(q[p], k - 1)
  /\ \A j : At(q[p], j) \in Item \cup {NULL}
  /\ ch[p] = q[p][1]
  /\ ch[p] = q[p][k] <=> k = 1

\* The pointers from the k-th child of p, and whether p points to it.
LEMMA ChildLinks ==
  ASSUME NEW nx \in Links, NEW pv \in Links, NEW ch \in Links, NEW ty \in Types,
         NEW q \in Kids, Rep(nx, pv, ch, ty, q),
         NEW p \in Item, Box(ty, p), NEW k \in 1..Len(q[p])
  PROVE  ChildLink(nx, pv, ch, q, p, k)
<1> DEFINE s == q[p]
<1>1. s \in Seq(Item) /\ Len(s) \in Nat /\ k \in Nat /\ 1 <= k /\ k <= Len(s)
  BY DEF Kids
<1>2. ch[p] = At(s, 1) /\ Siblings(nx, pv, s) /\ \A a, b \in 1..Len(s) : s[a] = s[b] => a = b
  BY DEF Rep, Lists, Apart
<1> HIDE DEF s
<1>3. 1 \in 1..Len(s)
  BY <1>1
<1>4. ch[p] = s[1] /\ (s[1] = s[k] <=> k = 1)
  BY <1>1, <1>2, <1>3 DEF At
<1>5. s[k] \in Item /\ At(s, k) = s[k] /\ \A j : At(s, j) \in Item \cup {NULL}
  BY <1>1 DEF At
<1>6. nx[s[k]] = At(s, k + 1) /\ pv[s[k]] = At(s, k - 1)
  BY <1>1, <1>2 DEF Siblings
<1> QED BY <1>4, <1>5, <1>6 DEF s, ChildLink

\* Detached takes the k-th child out of the children of p.
LEMMA DetachedShape ==
  ASSUME NEW L, NEW ty, NEW q, Shape(L, ty, q),
         NEW p \in Item, Box(ty, p), NEW k \in 1..Len(q[p]),
         NEW t \in Seq(Item), TakeOut(q[p], k, t)
  PROVE  /\ Shape(Detached(L, p, q[p][k]), ty, [q EXCEPT ![p] = t])
         /\ ~Placed([q EXCEPT ![p] = t], q[p][k])
         /\ \A g \in Item : ~Box(ty, g) => Detached(L, p, q[p][k]).child[g] = L.child[g]
<1> DEFINE i == q[p][k]
           nx == L.next
           pv == L.prev
           ch == L.child
           nx2 == Put(Put(nx, pv[i], nx[i]), i, NULL)
           pv2 == Put(Put(pv, nx[i], pv[i]), i, NULL)
           ch2 == IF ch[p] = i THEN Put(ch, p, nx[i]) ELSE ch
           r == [q EXCEPT ![p] = t]
<1>1. /\ nx \in Links /\ pv \in Links /\ ch \in Links /\ ty \in Types /\ q \in Kids
      /\ Rep(nx, pv, ch, ty, q)
  BY DEF Shape, LinkRecords
<1>2. Detached(L, p, i) = [next |-> nx2, prev |-> pv2, child |-> ch2]
  BY DEF Detached
<1> HIDE DEF nx, pv, ch
<1>3. /\ i \in Item /\ nx[i] = At(q[p], k + 1) /\ pv[i] = At(q[p], k - 1)
      /\ \A j : At(q[p], j) \in Item \cup {NULL}
      /\ ch[p] = i <=> k = 1
  <2>1. ChildLink(nx, pv, ch, q, p, k)
    BY <1>1, ChildLinks
  <2> QED BY <2>1 DEF ChildLink
<1>4. /\ nx2 \in Links
      /\ \A y \in Item : nx2[y] = IF y = i THEN NULL ELSE IF y = pv[i] THEN nx[i] ELSE nx[y]
  <2> DEFINE f == Put(nx, pv[i], nx[i])
  <2>1. IsPut(nx, pv[i], nx[i], f)
    BY <1>1, <1>3, PutValues
  <2> HIDE DEF f
  <2>2. IsPut(f, i, NULL, Put(f, i, NULL))
    <3>1. f \in Links
      BY <2>1 DEF IsPut
    <3> QED BY <1>3, <3>1, PutValues
  <2> QED BY <2>1, <2>2 DEF f, IsPut
<1>5. /\ pv2 \in Links
      /\ \A y \in Item : pv2[y] = IF y = i THEN NULL ELSE IF y = nx[i] THEN pv[i] ELSE pv[y]
  <2> DEFINE f == Put(pv, nx[i], pv[i])
  <2>1. IsPut(pv, nx[i], pv[i], f)
    BY <1>1, <1>3, PutValues
  <2> HIDE DEF f
  <2>2. IsPut(f, i, NULL, Put(f, i, NULL))
    <3>1. f \in Links
      BY <2>1 DEF IsPut
    <3> QED BY <1>3, <3>1, PutValues
  <2> QED BY <2>1, <2>2 DEF f, IsPut
<1>6. /\ ch2 \in Links
      /\ \A y \in Item : ch2[y] = IF y = p /\ k = 1 THEN At(q[p], 2) ELSE ch[y]
  <2>1. CASE k = 1
    <3>1. nx[i] = At(q[p], 2)
      BY <1>3, <2>1
    <3>2. IsPut(ch, p, nx[i], Put(ch, p, nx[i]))
      BY <1>1, <1>3, PutValues
    <3> QED BY <1>3, <2>1, <3>1, <3>2 DEF IsPut
  <2>2. CASE k # 1
    BY <1>1, <1>3, <2>2
  <2> QED BY <2>1, <2>2
<1> HIDE DEF nx2, pv2, ch2
<1>7. Removal(nx, pv, ch, q, p, k, nx2, pv2, ch2, t)
  <2>1. RemoveLinks(nx, pv, q[p], k, nx2, pv2)
    BY <1>3, <1>4, <1>5 DEF RemoveLinks
  <2> QED BY <1>6, <2>1 DEF Removal
<1>8. Rep(nx2, pv2, ch2, ty, r) /\ r \in Kids /\ ~Placed(r, i)
  BY <1>1, <1>4, <1>5, <1>6, <1>7, RemoveRep
<1>9. \A g \in Item : ~Box(ty, g) => ch2[g] = ch[g]
  BY <1>6
<1> HIDE DEF r, i
<1>10. Shape([next |-> nx2, prev |-> pv2, child |-> ch2], ty, r)
  BY <1>1, <1>4, <1>5, <1>6, <1>8 DEF Shape, LinkRecords
<1>11. /\ Shape(Detached(L, p, i), ty, r) /\ ~Placed(r, i)
       /\ \A g \in Item : ~Box(ty, g) => Detached(L, p, i).child[g] = L.child[g]
  BY <1>2, <1>8, <1>9, <1>10 DEF ch
<1> QED BY <1>11 DEF r, i

\* Replaced puts r in the place of the k-th child of p.
LEMMA ReplacedShape ==
  ASSUME NEW L, NEW ty, NEW q, Shape(L, ty, q),
         NEW p \in Item, Box(ty, p), NEW k \in 1..Len(q[p]),
         NEW r \in Item, ty[r] # "free", ~Placed(q, r)
  PROVE  LET t == [q[p] EXCEPT ![k] = r]
         IN  /\ Shape(Replaced(L, p, q[p][k], r), ty, [q EXCEPT ![p] = t])
             /\ ~Placed([q EXCEPT ![p] = t], q[p][k])
             /\ \A g \in Item : ~Box(ty, g) => Replaced(L, p, q[p][k], r).child[g] = L.child[g]
<1> DEFINE i == q[p][k]
           nx == L.next
           pv == L.prev
           ch == L.child
           nx2 == Put(Put(Put(nx, r, nx[i]), pv[i], r), i, NULL)
           pv2 == Put(Put(Put(pv, r, pv[i]), nx[i], r), i, NULL)
           ch2 == IF ch[p] = i THEN Put(ch, p, r) ELSE ch
           u == [q EXCEPT ![p] = [q[p] EXCEPT ![k] = r]]
<1>1. /\ nx \in Links /\ pv \in Links /\ ch \in Links /\ ty \in Types /\ q \in Kids
      /\ Rep(nx, pv, ch, ty, q)
  BY DEF Shape, LinkRecords
<1>2. Replaced(L, p, i, r) = [next |-> nx2, prev |-> pv2, child |-> ch2]
  BY DEF Replaced
<1> HIDE DEF nx, pv, ch
<1>3. /\ i \in Item /\ nx[i] = At(q[p], k + 1) /\ pv[i] = At(q[p], k - 1)
      /\ \A j : At(q[p], j) \in Item \cup {NULL}
      /\ ch[p] = i <=> k = 1
  <2>1. ChildLink(nx, pv, ch, q, p, k)
    BY <1>1, ChildLinks
  <2> QED BY <2>1 DEF ChildLink
<1>4. /\ nx2 \in Links
      /\ \A y \in Item : nx2[y] = IF y = i THEN NULL ELSE IF y = pv[i] THEN r
                                  ELSE IF y = r THEN nx[i] ELSE nx[y]
  <2> DEFINE e == Put(nx, r, nx[i])
             f == Put(e, pv[i], r)
  <2>1. IsPut(nx, r, nx[i], e)
    BY <1>1, <1>3, PutValues
  <2> HIDE DEF e
  <2>2. IsPut(e, pv[i], r, f)
    <3>1. e \in Links
      BY <2>1 DEF IsPut
    <3> QED BY <1>3, <3>1, PutValues
  <2> HIDE DEF f
  <2>3. IsPut(f, i, NULL, Put(f, i, NULL))
    <3>1. f \in Links
      BY <2>2 DEF IsPut
    <3> QED BY <1>3, <3>1, PutValues
  <2> QED BY <2>1, <2>2, <2>3 DEF e, f, IsPut
<1>5. /\ pv2 \in Links
      /\ \A y \in Item : pv2[y] = IF y = i THEN NULL ELSE IF y = nx[i] THEN r
                                  ELSE IF y = r THEN pv[i] ELSE pv[y]
  <2> DEFINE e == Put(pv, r, pv[i])
             f == Put(e, nx[i], r)
  <2>1. IsPut(pv, r, pv[i], e)
    BY <1>1, <1>3, PutValues
  <2> HIDE DEF e
  <2>2. IsPut(e, nx[i], r, f)
    <3>1. e \in Links
      BY <2>1 DEF IsPut
    <3> QED BY <1>3, <3>1, PutValues
  <2> HIDE DEF f
  <2>3. IsPut(f, i, NULL, Put(f, i, NULL))
    <3>1. f \in Links
      BY <2>2 DEF IsPut
    <3> QED BY <1>3, <3>1, PutValues
  <2> QED BY <2>1, <2>2, <2>3 DEF e, f, IsPut
<1>6. ch2 \in Links /\ \A y \in Item : ch2[y] = IF y = p /\ k = 1 THEN r ELSE ch[y]
  <2>1. IsPut(ch, p, r, Put(ch, p, r))
    BY <1>1, PutValues
  <2> QED BY <1>1, <1>3, <2>1 DEF IsPut
<1> HIDE DEF nx2, pv2, ch2
<1>7. Replacement(nx, pv, ch, q, p, k, r, nx2, pv2, ch2)
  <2>1. ReplaceLinks(nx, pv, q[p], k, r, nx2, pv2)
    BY <1>3, <1>4, <1>5 DEF ReplaceLinks
  <2> QED BY <1>6, <2>1 DEF Replacement
<1>8. Rep(nx2, pv2, ch2, ty, u) /\ u \in Kids /\ ~Placed(u, i)
  <2>1. nx2 \in Links /\ pv2 \in Links /\ ch2 \in Links
    BY <1>4, <1>5, <1>6
  <2> QED BY <1>1, <1>7, <2>1, ReplaceRep
<1>9. \A g \in Item : ~Box(ty, g) => ch2[g] = ch[g]
  BY <1>6
<1> HIDE DEF u, i
<1>10. Shape([next |-> nx2, prev |-> pv2, child |-> ch2], ty, u)
  BY <1>1, <1>4, <1>5, <1>6, <1>8 DEF Shape, LinkRecords
<1>11. /\ Shape(Replaced(L, p, i, r), ty, u) /\ ~Placed(u, i)
       /\ \A g \in Item : ~Box(ty, g) => Replaced(L, p, i, r).child[g] = L.child[g]
  BY <1>2, <1>8, <1>9, <1>10 DEF ch
<1> QED BY <1>11 DEF u, i

\* Inserted puts i before the (k+1)-th child of p.
LEMMA InsertedShape ==
  ASSUME NEW L, NEW ty, NEW q, Shape(L, ty, q),
         NEW p \in Item, Box(ty, p), NEW k \in 0..(Len(q[p]) - 1),
         NEW i \in Item, i # p, ty[i] # "free", ~Placed(q, i),
         NEW t \in Seq(Item), PutIn(q[p], k, i, t)
  PROVE  Shape(Inserted(L, p, q[p][k + 1], i), ty, [q EXCEPT ![p] = t])
<1> DEFINE a == q[p][k + 1]
           nx == L.next
           pv == L.prev
           ch == L.child
           nx2 == Put(Put(nx, i, a), pv[a], i)
           pv2 == Put(Put(pv, i, pv[a]), a, i)
           ch2 == IF ch[p] = a THEN Put(ch, p, i) ELSE ch
           r == [q EXCEPT ![p] = t]
<1>1. /\ nx \in Links /\ pv \in Links /\ ch \in Links /\ ty \in Types /\ q \in Kids
      /\ Rep(nx, pv, ch, ty, q)
  BY DEF Shape, LinkRecords
<1>2. Inserted(L, p, a, i) = [next |-> nx2, prev |-> pv2, child |-> ch2]
  BY DEF Inserted
<1> HIDE DEF nx, pv, ch
<1>3. /\ a \in Item /\ At(q[p], k + 1) = a /\ pv[a] = At(q[p], k)
      /\ \A j : At(q[p], j) \in Item \cup {NULL}
      /\ ch[p] = a <=> k = 0
  <2>1. q[p] \in Seq(Item) /\ Len(q[p]) \in Nat
    BY <1>1 DEF Kids
  <2>2. k + 1 \in 1..Len(q[p]) /\ (k + 1) - 1 = k /\ (k + 1 = 1 <=> k = 0)
    BY <2>1
  <2>3. ChildLink(nx, pv, ch, q, p, k + 1)
    BY <1>1, <2>2, ChildLinks
  <2>4. /\ q[p][k + 1] \in Item /\ At(q[p], k + 1) = q[p][k + 1]
        /\ pv[q[p][k + 1]] = At(q[p], (k + 1) - 1)
        /\ \A j : At(q[p], j) \in Item \cup {NULL}
        /\ ch[p] = q[p][k + 1] <=> k + 1 = 1
    BY <2>3 DEF ChildLink
  <2> QED BY <2>2, <2>4
<1>4. i # a /\ At(q[p], k) # i
  <2>1. q[p] \in Seq(Item) /\ Len(q[p]) \in Nat
    BY <1>1 DEF Kids
  <2>2. k + 1 \in 1..Len(q[p])
    BY <2>1
  <2>3. \A j \in 1..Len(q[p]) : q[p][j] # i
    BY DEF Placed
  <2> QED BY <2>2, <2>3, NullAssumption DEF At
<1>5. /\ nx2 \in Links
      /\ \A y \in Item : nx2[y] = IF y = pv[a] THEN i ELSE IF y = i THEN a ELSE nx[y]
  <2> DEFINE f == Put(nx, i, a)
  <2>1. IsPut(nx, i, a, f)
    BY <1>1, <1>3, PutValues
  <2> HIDE DEF f
  <2>2. IsPut(f, pv[a], i, Put(f, pv[a], i))
    <3>1. f \in Links
      BY <2>1 DEF IsPut
    <3> QED BY <1>3, <3>1, PutValues
  <2> QED BY <2>1, <2>2 DEF f, IsPut
<1>6. /\ pv2 \in Links
      /\ \A y \in Item : pv2[y] = IF y = a THEN i ELSE IF y = i THEN pv[a] ELSE pv[y]
  <2> DEFINE f == Put(pv, i, pv[a])
  <2>1. IsPut(pv, i, pv[a], f)
    BY <1>1, <1>3, PutValues
  <2> HIDE DEF f
  <2>2. IsPut(f, a, i, Put(f, a, i))
    <3>1. f \in Links
      BY <2>1 DEF IsPut
    <3> QED BY <1>3, <3>1, PutValues
  <2> QED BY <2>1, <2>2 DEF f, IsPut
<1>7. ch2 \in Links /\ \A y \in Item : ch2[y] = IF y = p /\ k = 0 THEN i ELSE ch[y]
  <2>1. IsPut(ch, p, i, Put(ch, p, i))
    BY <1>1, PutValues
  <2> QED BY <1>1, <1>3, <2>1 DEF IsPut
<1> HIDE DEF nx2, pv2, ch2
<1>8. Insertion(nx, pv, ch, ty, q, p, k, i, nx2, pv2, ch2, ty, t)
  <2>1. InsertLinks(nx, pv, q[p], k, i, nx2, pv2)
    BY <1>3, <1>4, <1>5, <1>6 DEF InsertLinks
  <2>2. ch2[i] = ch[i] /\ (ch[i] = NULL \/ ty[ch[i]] # "free")
    BY <1>1, <1>7 DEF Rep, Tidy
  <2> QED BY <1>7, <2>1, <2>2 DEF Insertion
<1>9. k \in 0..Len(q[p])
  <2>1. q[p] \in Seq(Item) /\ Len(q[p]) \in Nat
    BY <1>1 DEF Kids
  <2> QED BY <2>1
<1>10. Rep(nx2, pv2, ch2, ty, r) /\ r \in Kids
  BY <1>1, <1>5, <1>6, <1>7, <1>8, <1>9, InsertRep
<1> HIDE DEF r, a
<1>11. Shape([next |-> nx2, prev |-> pv2, child |-> ch2], ty, r)
  BY <1>1, <1>5, <1>6, <1>7, <1>10 DEF Shape, LinkRecords
<1>12. Shape(Inserted(L, p, a, i), ty, r)
  BY <1>2, <1>11
<1> QED BY <1>12 DEF r, a

\* i is allocated in ty2, and nothing else becomes or stops being a container or
\* an item in use.
Adds(ty, ty2, i) ==
  /\ \A g \in Item : Box(ty2, g) <=> Box(ty, g)
  /\ ty2[i] # "free"
  /\ \A x \in Item \ {i} : ty2[x] = ty[x]

\* A reference is a new item, whose child pointer is set after it was added.
LEMMA AppendedShape ==
  ASSUME NEW L, NEW ty, NEW q, Shape(L, ty, q),
         NEW p \in Item, Box(ty, p), Children(p) = q[p],
         NEW i \in Item, i # p, ~Placed(q, i),
         NEW ty2 \in Types, Adds(ty, ty2, i),
         NEW L2, L2.next = Appended(L, p, i).next, L2.prev = Appended(L, p, i).prev,
         L2 \in LinkRecords,
         \A x \in Item \ {i} : L2.child[x] = Appended(L, p, i).child[x],
         L2.child[i] = L.child[i] \/ ~Box(ty, i),
         L2.child[i] = NULL \/ ty2[L2.child[i]] # "free",
         NEW t \in Seq(Item), PutIn(q[p], Len(q[p]), i, t)
  PROVE  Shape(L2, ty2, [q EXCEPT ![p] = t])
<1> DEFINE s == q[p]
           n == Len(s)
           nx == L.next
           pv == L.prev
           ch == L.child
           nx2 == L2.next
           pv2 == L2.prev
           ch2 == L2.child
           r == [q EXCEPT ![p] = t]
<1>1. /\ nx \in Links /\ pv \in Links /\ ch \in Links /\ ty \in Types /\ q \in Kids
      /\ Rep(nx, pv, ch, ty, q) /\ L \in LinkRecords
      /\ nx2 \in Links /\ pv2 \in Links /\ ch2 \in Links
  BY DEF Shape, LinkRecords
<1>2. s \in Seq(Item) /\ n \in Nat /\ ch[p] = At(s, 1) /\ nx[i] = NULL /\ pv[i] = NULL
  BY <1>1 DEF Kids, Rep, Lists, Tidy
<1>3. \A j \in 1..n : s[j] # i /\ s[j] \in Item
  BY <1>2 DEF Placed
<1>4. /\ InsertLinks(nx, pv, s, n, i, nx2, pv2)
      /\ ch2[p] = IF n = 0 THEN i ELSE ch[p]
      /\ \A x \in Item \ {i, p} : ch2[x] = ch[x]
  <2>1. CASE n = 0
    <3>1. ch[p] = NULL /\ At(s, n) = NULL /\ At(s, n + 1) = NULL
      BY <1>2, <2>1 DEF At
    <3>2. Appended(L, p, i) = [L EXCEPT !.child = [ch EXCEPT ![p] = i]]
      BY <3>1 DEF Appended
    <3>3. nx2 = nx /\ pv2 = pv /\ \A x \in Item \ {i} : ch2[x] = [ch EXCEPT ![p] = i][x]
      BY <1>1, <3>2 DEF LinkRecords
    <3> HIDE DEF s, n, nx, pv, ch, nx2, pv2, ch2
    <3>4. InsertLinks(nx, pv, s, n, i, nx2, pv2)
      BY <1>2, <3>1, <3>3, NullAssumption DEF InsertLinks
    <3> QED BY <1>1, <2>1, <3>3, <3>4 DEF Links
  <2>2. CASE n # 0
    <3>1. n \in 1..n /\ 1 \in 1..n
      BY <1>2, <2>2
    <3>2. ch[p] # NULL /\ s[n] \in Item /\ s[n] # i
      BY <1>2, <1>3, <3>1, NullAssumption DEF At
    <3>3. Last(Children(p)) = s[n]
      BY DEF Last
    <3>4. Appended(L, p, i) = [L EXCEPT !.next = [nx EXCEPT ![s[n]] = i], !.prev = [pv EXCEPT ![i] = s[n]]]
      BY <3>2, <3>3 DEF Appended
    <3>5. nx2 = [nx EXCEPT ![s[n]] = i] /\ pv2 = [pv EXCEPT ![i] = s[n]]
          /\ \A x \in Item \ {i} : ch2[x] = ch[x]
      BY <1>1, <3>4 DEF LinkRecords
    <3>6. At(s, n) = s[n] /\ At(s, n + 1) = NULL
      BY <1>2, <3>1 DEF At
    <3> HIDE DEF s, n, nx, pv, ch, nx2, pv2, ch2
    <3>7. InsertLinks(nx, pv, s, n, i, nx2, pv2)
      BY <1>1, <1>2, <3>2, <3>5, <3>6, NullAssumption DEF InsertLinks, Links
    <3>8. ch2[p] = ch[p] /\ \A x \in Item \ {i, p} : ch2[x] = ch[x]
      BY <3>5
    <3> QED BY <2>2, <3>7, <3>8
  <2> QED BY <2>1, <2>2
<1>5. Insertion(nx, pv, ch, ty, q, p, n, i, nx2, pv2, ch2, ty2, t)
  <2>1. /\ L2.child[i] = L.child[i] \/ ~Box(ty, i)
        /\ ch2[i] = NULL \/ ty2[ch2[i]] # "free"
    OBVIOUS
  <2>2. \A g \in Item \ {p} : ch2[g] = ch[g] \/ (g = i /\ ~Box(ty, i))
    BY <1>4, <2>1
  <2> HIDE DEF nx, pv, ch, nx2, pv2, ch2
  <2> QED BY <1>4, <2>1, <2>2 DEF Insertion, Adds
<1>6. n \in 0..n
  BY <1>2
<1>7. Rep(nx2, pv2, ch2, ty2, r) /\ r \in Kids
  <2> HIDE DEF nx, pv, ch, nx2, pv2, ch2
  <2> QED BY <1>1, <1>5, <1>6, InsertRep
<1> QED BY <1>7 DEF Shape

\* L and ty after the items `gone` were freed.
ClearedLinks(gone, L) ==
  [next |-> Cleared(gone, L.next), prev |-> Cleared(gone, L.prev),
   child |-> Cleared(gone, L.child)]

\* Freeing an item that is in no container, with its tree, leaves the rest.
LEMMA DeletedShape ==
  ASSUME NEW L, NEW ty, NEW q, Shape(L, ty, q), NEW i \in Item, ~Placed(q, i),
         NEW gone, gone = Gone(L.next, L.child, ty, i),
         \A r \in Item \ gone : ty[r] = "reference" => L.child[r] \notin gone
  PROVE  Shape(ClearedLinks(gone, L), Freed(gone, ty), Emptied(gone, q))
<1> DEFINE nx == L.next
           pv == L.prev
           ch == L.child
<1>1. /\ nx \in Links /\ pv \in Links /\ ch \in Links /\ ty \in Types /\ q \in Kids
      /\ Rep(nx, pv, ch, ty, q)
  BY DEF Shape, LinkRecords
<1>2. gone = Gone(nx, ch, ty, i) /\ \A r \in Item \ gone : ty[r] = "reference" => ch[r] \notin gone
  OBVIOUS
<1>3. ClearedLinks(gone, L) = [next |-> Cleared(gone, nx), prev |-> Cleared(gone, pv), child |-> Cleared(gone, ch)]
  BY DEF ClearedLinks
<1> HIDE DEF nx, pv, ch
<1>4. /\ Rep(Cleared(gone, nx), Cleared(gone, pv), Cleared(gone, ch), Freed(gone, ty), Emptied(gone, q))
      /\ Cleared(gone, nx) \in Links /\ Cleared(gone, pv) \in Links /\ Cleared(gone, ch) \in Links
      /\ Freed(gone, ty) \in Types /\ Emptied(gone, q) \in Kids
  BY <1>1, <1>2, DeleteRep
<1> QED BY <1>3, <1>4 DEF Shape, LinkRecords

-----------------------------------------------------------------------------
(* Walking down from an item, through references too.                          *)

\* Along follows the children of a container.
LEMMA AlongChildren ==
  ASSUME NEW nx \in Links, NEW pv \in Links, NEW ch \in Links, NEW ty \in Types,
         NEW q \in Kids, Rep(nx, pv, ch, ty, q), NEW p \in Item, Box(ty, p)
  PROVE  Along(nx, ch[p]) = q[p]
<1> DEFINE s == q[p]
<1>1. /\ s \in Seq(Item) /\ Len(s) \in Nat /\ ch[p] = At(s, 1) /\ Siblings(nx, pv, s)
      /\ \A a, b \in 1..Len(s) : s[a] = s[b] => a = b
  BY DEF Kids, Rep, Lists, Apart
<1> HIDE DEF s
<1>2. CASE s = <<>>
  <2>1. ch[p] = NULL
    <3>1. Len(<<>>) = 0
      OBVIOUS
    <3> QED BY <1>1, <1>2, <3>1 DEF At
  <2> QED BY <1>2, <2>1 DEF Along, s
<1>3. CASE s # <<>>
  <2>1. Runs(nx, s)
    BY <1>1 DEF Runs, Siblings
  <2>2. 1 \in 1..Len(s)
    BY <1>1, <1>3, EmptySeq
  <2>3. ch[p] = s[1]
    BY <1>1, <2>2 DEF At
  <2> QED BY <1>1, <1>3, <2>1, <2>3, AlongRuns DEF s
<1> QED BY <1>2, <1>3

\* s leads from x to the end of the list that x is in.
Rest(nx, pv, ty, x, s) ==
  /\ s \in Seq(Item) /\ Len(s) # 0 /\ s[1] = x /\ Runs(nx, s)
  /\ \A k \in 1..Len(s) : ty[s[k]] # "free"
  /\ \A k \in 1..Len(s) : k # 1 => pv[s[k]] = s[k - 1]

\* From any item in use, Along leads through items in use to the last one.
LEMMA RestOf ==
  ASSUME NEW nx \in Links, NEW pv \in Links, NEW ch \in Links, NEW ty \in Types,
         NEW q \in Kids, Rep(nx, pv, ch, ty, q), NEW x \in Item, ty[x] # "free"
  PROVE  Rest(nx, pv, ty, x, Along(nx, x))
<1>1. CASE ~Placed(q, x)
  <2> DEFINE s == <<x>>
  <2>1. s \in Seq(Item) /\ Len(s) = 1 /\ s[1] = x
    OBVIOUS
  <2>2. \A k : k \in 1..1 <=> k = 1
    OBVIOUS
  <2> HIDE DEF s
  <2>3. s # <<>>
    <3>1. Len(<<>>) = 0 /\ Len(s) # 0
      BY <2>1
    <3> QED BY <3>1, Zenon
  <2>4. nx[x] = NULL
    BY <1>1 DEF Rep, Tidy
  <2>5. At(s, 2) = NULL
    BY <2>1 DEF At
  <2>6. Runs(nx, s)
    BY <2>1, <2>2, <2>4, <2>5 DEF Runs
  <2>7. Along(nx, x) = s
    BY <2>1, <2>3, <2>6, AlongRuns
  <2>8. \A k \in 1..Len(s) : k = 1
    BY <2>1, <2>2
  <2>9. Rest(nx, pv, ty, x, s)
    BY <2>1, <2>6, <2>8 DEF Rest
  <2> QED BY <2>7, <2>9
<1>2. CASE Placed(q, x)
  <2> PICK g \in Item : \E m \in 1..Len(q[g]) : q[g][m] = x
    BY <1>2 DEF Placed
  <2> PICK m \in 1..Len(q[g]) : q[g][m] = x
    OBVIOUS
  <2> DEFINE c == q[g]
             s == SubSeq(c, m, Len(c))
  <2>1. /\ c \in Seq(Item) /\ Len(c) \in Nat /\ m \in Nat /\ 1 <= m /\ m <= Len(c) /\ c[m] = x
        /\ \A a, b \in 1..Len(c) : c[a] = c[b] => a = b
    BY DEF Kids, Rep, Apart
  <2>2. Siblings(nx, pv, c)
    <3>1. q[g] # <<>>
      <4>1. Len(<<>>) = 0 /\ Len(q[g]) # 0
        BY <2>1
      <4> QED BY <4>1, Zenon
    <3> QED BY <3>1 DEF Rep, Lists
  <2>3. \A k \in 1..Len(c) : ty[c[k]] # "free" /\ c[k] \in Item
    <3> TAKE k \in 1..Len(c)
    <3>1. c[k] \in Item /\ Placed(q, c[k])
      BY <2>1 DEF Placed
    <3> QED BY <3>1 DEF Rep, Tidy
  <2> HIDE DEF c
  <2>4. /\ s \in Seq(Item) /\ Len(s) = Len(c) - m + 1
        /\ \A k \in 1..Len(s) : s[k] = c[m + k - 1]
    BY <2>1, SubSeqProperties
  <2> HIDE DEF s
  <2>5. \A k \in 1..Len(s) : m + k - 1 \in 1..Len(c)
    BY <2>1, <2>4
  <2>6. 1 \in 1..Len(s) /\ s[1] = x /\ s # <<>> /\ Len(s) # 0
    <3>1. 1 \in 1..Len(s) /\ m + 1 - 1 = m /\ Len(s) # 0
      BY <2>1, <2>4
    <3>2. s # <<>>
      <4>1. Len(<<>>) = 0
        OBVIOUS
      <4> QED BY <3>1, <4>1, Zenon
    <3> QED BY <2>1, <2>4, <3>1, <3>2
  <2>7. ASSUME NEW k \in 1..Len(s) PROVE nx[s[k]] = At(s, k + 1)
    <3>1. nx[s[k]] = At(c, (m + k - 1) + 1)
      BY <2>2, <2>4, <2>5 DEF Siblings
    <3>2. CASE k = Len(s)
      <4>1. (m + k - 1) + 1 \notin 1..Len(c) /\ k + 1 \notin 1..Len(s)
        BY <2>1, <2>4, <3>2
      <4> QED BY <3>1, <4>1 DEF At
    <3>3. CASE k # Len(s)
      <4>0. /\ Len(s) = Len(c) - m + 1 /\ Len(c) \in Nat /\ m \in Nat /\ 1 <= m
            /\ k \in Nat /\ 1 <= k /\ k <= Len(s)
        BY <2>1, <2>4
      <4>1. /\ (m + k - 1) + 1 \in 1..Len(c) /\ k + 1 \in 1..Len(s)
            /\ (m + k - 1) + 1 = m + (k + 1) - 1
        BY <3>3, <4>0
      <4>2. s[k + 1] = c[m + (k + 1) - 1]
        BY <2>4, <4>1
      <4> QED BY <3>1, <4>1, <4>2 DEF At
    <3> QED BY <3>2, <3>3
  <2>8. ASSUME NEW k \in 1..Len(s), NEW j \in 1..Len(s), s[k] = s[j] PROVE k = j
    <3>1. m + k - 1 = m + j - 1
      BY <2>1, <2>4, <2>5, <2>8
    <3> QED BY <2>1, <2>4, <3>1
  <2>9. ASSUME NEW k \in 1..Len(s), k # 1 PROVE pv[s[k]] = s[k - 1]
    <3>1. pv[s[k]] = At(c, (m + k - 1) - 1)
      BY <2>2, <2>4, <2>5 DEF Siblings
    <3>2. /\ k - 1 \in 1..Len(s) /\ m + (k - 1) - 1 \in 1..Len(c)
          /\ (m + k - 1) - 1 = m + (k - 1) - 1
      BY <2>1, <2>4, <2>9
    <3>3. s[k - 1] = c[m + (k - 1) - 1]
      BY <2>4, <3>2
    <3> QED BY <3>1, <3>2, <3>3 DEF At
  <2>10. Runs(nx, s)
    BY <2>7, <2>8 DEF Runs
  <2>11. Along(nx, x) = s
    BY <2>4, <2>6, <2>10, AlongRuns
  <2>12. \A k \in 1..Len(s) : ty[s[k]] # "free"
    BY <2>3, <2>4, <2>5
  <2> QED BY <2>4, <2>6, <2>9, <2>10, <2>11, <2>12 DEF Rest
<1> QED BY <1>1, <1>2

Ways == {s \in Seq(Item) : Len(s) # 0}
End(s) == s[Len(s)]

\* The ways one item longer than those in X, C giving the items below an item.
Further(C, X, Y) ==
  \A z : z \in Y <=> \E s \in X : \E k \in 1..Len(C[End(s)]) : z = Append(s, C[End(s)][k])

\* A way ends in an item.
LEMMA WayEnd ==
  ASSUME NEW s \in Ways
  PROVE  End(s) \in Item
<1>1. s \in Seq(Item) /\ Len(s) \in 1..Len(s)
  BY DEF Ways
<1> QED BY <1>1 DEF End

\* A way and the one that goes on to x.
LEMMA AppendWay ==
  ASSUME NEW s \in Ways, NEW x \in Item
  PROVE  /\ Append(s, x) \in Ways /\ Len(s) \in Nat /\ Len(Append(s, x)) = Len(s) + 1
         /\ End(s) \in Item /\ End(Append(s, x)) = x
         /\ Append(s, x)[Len(s)] = End(s)
         /\ Front(Append(s, x)) = s
<1>1. s \in Seq(Item) /\ Len(s) \in Nat /\ Len(s) # 0
  BY DEF Ways
<1>2. /\ Append(s, x) \in Seq(Item) /\ Len(Append(s, x)) = Len(s) + 1
      /\ Append(s, x)[Len(s) + 1] = x
      /\ \A k \in 1..Len(s) : Append(s, x)[k] = s[k]
  BY <1>1, AppendProperties
<1>3. Len(s) \in 1..Len(s) /\ Len(s) + 1 # 0
  BY <1>1
<1>4. Front(Append(s, x)) = s
  <2>1. Front(Append(s, x)) = SubSeq(Append(s, x), 1, Len(s))
    BY <1>1, <1>2 DEF Front
  <2> DEFINE a == Append(s, x)
             u == SubSeq(a, 1, Len(s))
  <2>2. 1 <= Len(s) /\ Len(s) <= Len(a) /\ Len(s) - 1 + 1 = Len(s)
    BY <1>1, <1>2
  <2>3. a \in Seq(Item) /\ \A k \in 1..Len(s) : a[k] = s[k]
    BY <1>2
  <2> HIDE DEF a
  <2>4. u \in Seq(Item) /\ Len(u) = Len(s) /\ \A k \in 1..Len(s) : u[k] = a[k]
    BY <1>1, <2>2, <2>3, SubSeqProperties
  <2> HIDE DEF u
  <2>5. u = s
    BY <1>1, <2>3, <2>4, SeqEqual
  <2> QED BY <2>1, <2>5 DEF u, a
<1> QED BY <1>1, <1>2, <1>3, <1>4 DEF Ways, End

Repeats(S, s, G, f) == f \in [Nat -> S] /\ f[0] = s /\ \A n \in Nat : f[n + 1] = G[f[n]]
Maps(S, s, G) == s \in S /\ G \in [S -> S]

\* Repeated, for a function that is known only by its type.
LEMMA RepeatedMap ==
  ASSUME NEW S, NEW s, NEW G, Maps(S, s, G)
  PROVE  \E f : Repeats(S, s, G, f)
<1>1. s \in S /\ G \in [S -> S]
  BY DEF Maps
<1>2. PICK f \in [Nat -> S] : f[0] = s /\ \A n \in Nat : f[n + 1] = G[f[n]]
  BY <1>1, Repeated
<1> QED BY <1>2 DEF Repeats

\* The ways down from i, one set of them for each length.
LEMMA PathSets ==
  ASSUME NEW C \in [Item -> Seq(Item)], \A x \in Item : Children(x) = C[x], NEW i \in Item
  PROVE  \E w \in [Nat -> SUBSET Ways] :
           /\ w[0] = {<<i>>}
           /\ \A n \in Nat : Further(C, w[n], w[n + 1])
           /\ Paths(i, TRUE) = UNION {w[n] : n \in 0..Cardinality(Item)}
<1> DEFINE P == SUBSET Ways
           next1(X) == UNION {{Append(s, k) : k \in Range(C[End(s)])} : s \in X}
           next2(X) == UNION {{Append(s, k) : k \in Range(Children(Last(s)))} : s \in X}
           G == [X \in P |-> next1(X)]
           W(w) == w = [n \in Nat |-> IF n = 0 THEN {<<i>>} ELSE next2(w[n - 1])]
<1>1. ASSUME NEW X \in P PROVE next1(X) \in P /\ next2(X) = next1(X) /\ Further(C, X, next1(X))
  <2>1. \A s \in X : s \in Seq(Item) /\ Len(s) \in Nat /\ Len(s) # 0 /\ End(s) \in Item /\ Last(s) = End(s)
    <3> TAKE s \in X
    <3>1. s \in Seq(Item) /\ Len(s) \in Nat /\ Len(s) # 0
      BY DEF Ways
    <3>2. Len(s) \in 1..Len(s)
      BY <3>1
    <3> QED BY <3>1, <3>2 DEF End, Last
  <2>2. \A s \in X : Children(Last(s)) = C[End(s)] /\ C[End(s)] \in Seq(Item)
    BY <2>1
  <2>3. next2(X) = next1(X)
    <3> DEFINE A1(s) == {Append(s, k) : k \in Range(C[End(s)])}
               A2(s) == {Append(s, k) : k \in Range(Children(Last(s)))}
    <3>1. \A s \in X : A1(s) = A2(s)
      BY <2>2
    <3>2. next1(X) = UNION {A1(s) : s \in X} /\ next2(X) = UNION {A2(s) : s \in X}
      OBVIOUS
    <3> HIDE DEF next1, next2, A1, A2
    <3>3. {A1(s) : s \in X} = {A2(s) : s \in X}
      BY <3>1
    <3> QED BY <3>2, <3>3
  <2>4. \A s \in X : \A z : z \in Range(C[End(s)]) <=> \E k \in 1..Len(C[End(s)]) : z = C[End(s)][k]
    BY <2>2 DEF Range
  <2>5. \A z : z \in next1(X) <=> \E s \in X : \E k \in Range(C[End(s)]) : z = Append(s, k)
    <3> DEFINE A(s) == {Append(s, k) : k \in Range(C[End(s)])}
               U == UNION {A(s) : s \in X}
    <3>1. \A s, z : z \in A(s) <=> \E k \in Range(C[End(s)]) : z = Append(s, k)
      OBVIOUS
    <3>2. next1(X) = U
      OBVIOUS
    <3> HIDE DEF A
    <3>3. \A z : z \in U <=> \E s \in X : z \in A(s)
      BY Zenon
    <3> HIDE DEF U, next1
    <3> QED BY <3>1, <3>2, <3>3
  <2>6. Further(C, X, next1(X))
    <3> HIDE DEF next1
    <3>1. ASSUME NEW z
          PROVE  z \in next1(X) <=> \E s \in X : \E k \in 1..Len(C[End(s)]) : z = Append(s, C[End(s)][k])
      <4>1. \A s \in X : (\E k \in Range(C[End(s)]) : z = Append(s, k))
                         <=> \E k \in 1..Len(C[End(s)]) : z = Append(s, C[End(s)][k])
        <5> TAKE s \in X
        <5>1. \A k : k \in Range(C[End(s)]) <=> \E m \in 1..Len(C[End(s)]) : k = C[End(s)][m]
          BY <2>4
        <5> QED BY <5>1, Zenon
      <4> QED BY <2>5, <4>1
    <3> QED BY <3>1 DEF Further
  <2>7. next1(X) \in P
    <3> SUFFICES ASSUME NEW z \in next1(X) PROVE z \in Ways
      OBVIOUS
    <3> HIDE DEF next1
    <3> PICK s \in X : \E k \in 1..Len(C[End(s)]) : z = Append(s, C[End(s)][k])
      BY <2>6 DEF Further
    <3> PICK k \in 1..Len(C[End(s)]) : z = Append(s, C[End(s)][k])
      OBVIOUS
    <3>1. s \in Ways /\ C[End(s)][k] \in Item
      BY <2>2
    <3> QED BY <3>1, AppendWay
  <2> QED BY <2>3, <2>6, <2>7
<1>2. {<<i>>} \in P
  <2>1. <<i>> \in Seq(Item) /\ Len(<<i>>) = 1
    OBVIOUS
  <2> QED BY <2>1 DEF Ways
<1>3. \E w \in [Nat -> P] : W(w)
  <2>1. G \in [P -> P]
    BY <1>1
  <2> DEFINE start == {<<i>>}
  <2>2. start \in P
    BY <1>2
  <2> HIDE DEF G, P, start
  <2>3. PICK w \in [Nat -> P] : w[0] = start /\ \A n \in Nat : w[n + 1] = G[w[n]]
    <3> HIDE DEF W, next1, next2
    <3>1. start \in P /\ G \in [P -> P]
      BY <2>1, <2>2
    <3>2. \E w : Repeats(P, start, G, w)
      BY <3>1, RepeatedMap DEF Maps
    <3> QED BY <3>2 DEF Repeats
  <2>4. ASSUME NEW n \in Nat
        PROVE  w[n] = IF n = 0 THEN start ELSE next2(w[n - 1])
    <3>1. CASE n = 0
      BY <2>3, <3>1
    <3>2. CASE n # 0
      <4>1. n - 1 \in Nat /\ (n - 1) + 1 = n
        BY <3>2
      <4>2. w[n] = G[w[n - 1]] /\ w[n - 1] \in P
        BY <2>3, <4>1
      <4>3. next2(w[n - 1]) = next1(w[n - 1])
        BY <1>1, <4>2
      <4> HIDE DEF next1, next2
      <4> QED BY <3>2, <4>2, <4>3 DEF G
    <3> QED BY <3>1, <3>2
  <2> HIDE DEF next2
  <2>5. w = [n \in Nat |-> IF n = 0 THEN start ELSE next2(w[n - 1])]
    BY <2>4
  <2> QED BY <2>5 DEF start, next2
<1> DEFINE w == CHOOSE v : W(v)
<1>4. W(w)
  BY <1>3
<1>5. Paths(i, TRUE) = UNION {w[n] : n \in 0..Cardinality(Item)}
  BY DEF Paths
<1> HIDE DEF w
<1>6. w[0] = {<<i>>} /\ \A n \in Nat : w[n + 1] = next2(w[n])
  <2>1. \A n \in Nat : w[n] = IF n = 0 THEN {<<i>>} ELSE next2(w[n - 1])
    BY <1>4
  <2> HIDE DEF next2
  <2>2. ASSUME NEW n \in Nat PROVE w[n + 1] = next2(w[n])
    <3>1. n + 1 \in Nat /\ n + 1 # 0 /\ (n + 1) - 1 = n
      OBVIOUS
    <3> QED BY <2>1, <3>1
  <2> QED BY <2>1, <2>2
<1>7. w \in [Nat -> P]
  <2> DEFINE T == {n \in Nat : w[n] \in P}
  <2>1. 0 \in T
    BY <1>2, <1>6
  <2>2. ASSUME NEW n \in T PROVE n + 1 \in T
    <3>1. n \in Nat /\ w[n] \in P
      OBVIOUS
    <3> HIDE DEF P, next1, next2
    <3>2. next2(w[n]) \in P
      BY <1>1, <3>1
    <3>3. w[n + 1] = next2(w[n])
      BY <1>6, <3>1
    <3>4. w[n + 1] \in P /\ n + 1 \in Nat
      BY <3>1, <3>2, <3>3
    <3> QED BY <3>4
  <2> HIDE DEF T
  <2>3. T = Nat
    BY <2>1, <2>2, AllNumbers DEF T
  <2>4. w = [n \in Nat |-> w[n]]
    BY <1>4
  <2> HIDE DEF W, P
  <2>5. \A n \in Nat : w[n] \in P
    BY <2>3 DEF T
  <2> QED BY <2>4, <2>5
<1>8. \A n \in Nat : Further(C, w[n], w[n + 1])
  <2> TAKE n \in Nat
  <2>1. w[n] \in P
    BY <1>7
  <2> HIDE DEF P, next1, next2
  <2> QED BY <1>1, <1>6, <2>1
<1> HIDE DEF W
<1> QED BY <1>5, <1>6, <1>7, <1>8

\* C gives the items below each item, those below a reference included.
Below(nx, pv, ch, ty, C) ==
  \A x \in Item :
    /\ C[x] \in Seq(Item) /\ ch[x] = At(C[x], 1) /\ Runs(nx, C[x])
    /\ \A k \in 1..Len(C[x]) : ty[C[x][k]] # "free"
    /\ \A k \in 1..Len(C[x]) : k # 1 => pv[C[x][k]] = C[x][k - 1]

\* Along, from their child pointers on, gives the items below all items.
LEMMA BelowIs ==
  ASSUME NEW nx \in Links, NEW pv \in Links, NEW ch \in Links, NEW ty \in Types,
         NEW q \in Kids, Rep(nx, pv, ch, ty, q)
  PROVE  Below(nx, pv, ch, ty, [x \in Item |-> Along(nx, ch[x])])
<1> DEFINE C == [x \in Item |-> Along(nx, ch[x])]
<1> SUFFICES ASSUME NEW x \in Item
             PROVE  /\ C[x] \in Seq(Item) /\ ch[x] = At(C[x], 1) /\ Runs(nx, C[x])
                    /\ \A k \in 1..Len(C[x]) : ty[C[x][k]] # "free"
                    /\ \A k \in 1..Len(C[x]) : k # 1 => pv[C[x][k]] = C[x][k - 1]
  BY DEF Below
<1> DEFINE s == Along(nx, ch[x])
<1>1. C[x] = s
  OBVIOUS
<1> HIDE DEF C
<1>2. CASE ch[x] = NULL
  <2>1. s = <<>>
    BY <1>2 DEF Along
  <2>2. s \in Seq(Item) /\ Len(s) = 0
    BY <2>1
  <2> HIDE DEF s
  <2>3. At(s, 1) = NULL /\ \A k : k \notin 1..Len(s)
    BY <2>2 DEF At
  <2> QED BY <1>1, <1>2, <2>2, <2>3 DEF Runs
<1>3. CASE ch[x] # NULL
  <2>1. ch[x] \in Item /\ ty[ch[x]] # "free"
    BY <1>3 DEF Rep, Tidy, Links
  <2>2. PICK y \in Item : y = ch[x]
    BY <2>1
  <2>3. Rest(nx, pv, ty, y, Along(nx, y))
    BY <2>1, <2>2, RestOf
  <2>4. Rest(nx, pv, ty, y, s)
    BY <2>2, <2>3
  <2> HIDE DEF s
  <2>5. s \in Seq(Item) /\ 1 \in 1..Len(s) /\ s[1] = ch[x]
    BY <2>2, <2>4 DEF Rest
  <2>6. ch[x] = At(s, 1)
    BY <2>5 DEF At
  <2> QED BY <1>1, <2>4, <2>5, <2>6 DEF Rest
<1> QED BY <1>2, <1>3

\* The ways D lead from i down through all the items below, each to an item in
\* use.
Descent(ty, C, i, D) ==
  /\ D \subseteq Ways /\ <<i>> \in D
  /\ \A s \in D : ty[End(s)] # "free"
  /\ \A s \in D : \A k \in 1..Len(C[End(s)]) : Append(s, C[End(s)][k]) \in D
  /\ \A s \in D : s = <<i>> \/ \E u \in D : \E k \in 1..Len(C[End(u)]) : s = Append(u, C[End(u)][k])

\* Paths, when none is without end, leads to all the items below.
LEMMA PathsDescend ==
  ASSUME NEW nx \in Links, NEW pv \in Links, NEW ch \in Links, NEW ty \in Types,
         NEW C \in [Item -> Seq(Item)], Below(nx, pv, ch, ty, C),
         \A x \in Item : Children(x) = C[x],
         NEW i \in Item, ty[i] # "free", ~Endless(Paths(i, TRUE))
  PROVE  Descent(ty, C, i, Paths(i, TRUE))
<1> DEFINE N == Cardinality(Item)
           D == Paths(i, TRUE)
<1>1. PICK w \in [Nat -> SUBSET Ways] :
           /\ w[0] = {<<i>>}
           /\ \A n \in Nat : Further(C, w[n], w[n + 1])
           /\ D = UNION {w[n] : n \in 0..N}
  BY PathSets
<1>2. N \in Nat
  BY ItemAssumption, FS_CardinalityType
<1>3. \A s \in D : Len(s) <= N
  <2>1. \A s \in D : ~(Len(s) > N)
    BY DEF Endless
  <2>2. \A s \in D : Len(s) \in Nat
    BY <1>1 DEF Ways
  <2> HIDE DEF D, N
  <2> QED BY <1>2, <2>1, <2>2
<1> HIDE DEF D, N
<1>4. \A s : s \in D <=> \E n \in 0..N : s \in w[n]
  BY <1>1, Zenon
<1>5. \A n \in Nat : \A s \in w[n] : Len(s) = n + 1 /\ ty[End(s)] # "free"
  <2> DEFINE T == {n \in Nat : \A s \in w[n] : Len(s) = n + 1 /\ ty[End(s)] # "free"}
  <2>1. 0 \in T
    <3>1. \A s \in w[0] : s = <<i>>
      BY <1>1
    <3>2. Len(<<i>>) = 1 /\ <<i>>[1] = i
      OBVIOUS
    <3>3. \A s \in w[0] : Len(s) = 0 + 1 /\ End(s) = i
      <4> DEFINE o == <<i>>
      <4>1. Len(o) = 0 + 1 /\ End(o) = i
        BY <3>2 DEF End
      <4> HIDE DEF o
      <4>2. \A s \in w[0] : s = o
        BY <3>1 DEF o
      <4> QED BY <4>1, <4>2
    <3> QED BY <3>3
  <2>2. ASSUME NEW n \in T PROVE n + 1 \in T
    <3>1. n \in Nat /\ n + 1 \in Nat /\ \A s \in w[n] : Len(s) = n + 1
      OBVIOUS
    <3>2. ASSUME NEW z \in w[n + 1] PROVE Len(z) = (n + 1) + 1 /\ ty[End(z)] # "free"
      <4> PICK s \in w[n] : \E k \in 1..Len(C[End(s)]) : z = Append(s, C[End(s)][k])
        <5>1. Further(C, w[n], w[n + 1])
          BY <1>1, <3>1
        <5> QED BY <5>1 DEF Further
      <4> PICK k \in 1..Len(C[End(s)]) : z = Append(s, C[End(s)][k])
        OBVIOUS
      <4> DEFINE x == C[End(s)][k]
      <4>1. s \in Ways
        BY <1>1, <3>1
      <4>2. End(s) \in Item
        BY <4>1, AppendWay
      <4>3. x \in Item /\ ty[x] # "free"
        BY <4>2 DEF Below
      <4> HIDE DEF x
      <4>4. Len(Append(s, x)) = Len(s) + 1 /\ End(Append(s, x)) = x
        BY <4>1, <4>3, AppendWay
      <4> QED BY <3>1, <4>3, <4>4 DEF x
    <3> QED BY <3>1, <3>2
  <2> HIDE DEF T
  <2>3. T = Nat
    BY <2>1, <2>2, AllNumbers DEF T
  <2> QED BY <2>3 DEF T
<1>6. D \subseteq Ways
  BY <1>1, <1>2, <1>4
<1>7. <<i>> \in D
  <2>1. 0 \in 0..N
    BY <1>2
  <2>2. <<i>> \in w[0]
    BY <1>1
  <2> QED BY <1>4, <2>1, <2>2
<1>8. \A s \in D : ty[End(s)] # "free"
  BY <1>2, <1>4, <1>5
<1>9. ASSUME NEW s \in D, NEW k \in 1..Len(C[End(s)]) PROVE Append(s, C[End(s)][k]) \in D
  <2>1. PICK n \in 0..N : s \in w[n]
    BY <1>4
  <2>2. n \in Nat /\ Len(s) = n + 1
    BY <1>2, <1>5, <2>1
  <2>3. n + 1 \in 0..N
    BY <1>2, <1>3, <2>2
  <2>4. Append(s, C[End(s)][k]) \in w[n + 1]
    BY <1>1, <2>1, <2>2 DEF Further
  <2> QED BY <1>4, <2>3, <2>4
<1>10. ASSUME NEW s \in D, s # <<i>>
       PROVE  \E u \in D : \E k \in 1..Len(C[End(u)]) : s = Append(u, C[End(u)][k])
  <2>1. PICK n \in 0..N : s \in w[n]
    BY <1>4
  <2>2. n \in Nat /\ Len(s) = n + 1
    BY <1>2, <1>5, <2>1
  <2>3. PICK m \in Nat : m + 1 = n
    <3>1. n # 0
      BY <1>1, <1>10, <2>1
    <3>2. n - 1 \in Nat /\ (n - 1) + 1 = n
      BY <2>2, <3>1
    <3> QED BY <3>2
  <2>4. m \in 0..N
    BY <1>2, <2>3
  <2>5. s \in w[m + 1]
    BY <2>1, <2>3
  <2>6. \E u \in w[m] : \E k \in 1..Len(C[End(u)]) : s = Append(u, C[End(u)][k])
    <3>1. Further(C, w[m], w[m + 1])
      BY <1>1
    <3> QED BY <2>5, <3>1 DEF Further
  <2> QED BY <1>4, <2>4, <2>6
<1> QED BY <1>6, <1>7, <1>8, <1>9, <1>10 DEF Descent, D

-----------------------------------------------------------------------------
(* The trees that cJSON_Duplicate and the cJSON_Create*Array functions build.  *)

\* The children of each way in a copy.
KidsOf(C, D) == [s \in D |-> [k \in 1..Len(C[End(s)]) |-> Append(s, C[End(s)][k])]]

\* The whole copy of i and what is below it.
LEMMA DeepCopy ==
  ASSUME NEW nx \in Links, NEW pv \in Links, NEW ch \in Links, NEW ty \in Types,
         nx = next, pv = prev, ch = child, ty = type,
         NEW C \in [Item -> Seq(Item)], Below(nx, pv, ch, ty, C),
         NEW i \in Item, NEW D, Descent(ty, C, i, D), kind \in [Item -> {"array", "object"}]
  PROVE  Grown(CopyOf(D, TRUE), D, KidsOf(C, D))
<1> DEFINE tree == CopyOf(D, TRUE)
           K == KidsOf(C, D)
<1>1. /\ D \subseteq Ways
      /\ \A s \in D : ty[End(s)] # "free"
      /\ \A s \in D : \A k \in 1..Len(C[End(s)]) : Append(s, C[End(s)][k]) \in D
      /\ \A s \in D : s = <<i>> \/ \E u \in D : \E k \in 1..Len(C[End(u)]) : s = Append(u, C[End(u)][k])
  BY DEF Descent
<1>2. \A s \in D : s \in Seq(Item) /\ Len(s) \in Nat /\ Len(s) # 0 /\ End(s) \in Item
                   /\ C[End(s)] \in Seq(Item) /\ Len(C[End(s)]) \in Nat
  <2> TAKE s \in D
  <2>1. s \in Seq(Item) /\ Len(s) \in Nat /\ Len(s) # 0
    BY <1>1 DEF Ways
  <2>2. Len(s) \in 1..Len(s)
    BY <2>1
  <2>3. End(s) \in Item
    BY <2>1, <2>2 DEF End
  <2> QED BY <2>1, <2>3
<1>3. \A x \in Item :
        /\ C[x] \in Seq(Item) /\ ch[x] = At(C[x], 1)
        /\ \A k \in 1..Len(C[x]) : C[x][k] \in Item /\ nx[C[x][k]] = At(C[x], k + 1)
        /\ \A k, m \in 1..Len(C[x]) : C[x][k] = C[x][m] => k = m
        /\ \A k \in 1..Len(C[x]) : k # 1 => pv[C[x][k]] = C[x][k - 1]
  BY DEF Below, Runs
<1>4. ASSUME NEW s \in D
      PROVE  /\ tree.type[s] = IF ty[End(s)] = "reference" THEN kind[End(s)] ELSE ty[End(s)]
             /\ tree.child[s] = IF ch[End(s)] = NULL THEN NULL ELSE Append(s, ch[End(s)])
             /\ tree.next[s] = IF Len(s) = 1 \/ nx[End(s)] = NULL THEN NULL
                               ELSE Append(Front(s), nx[End(s)])
             /\ tree.prev[s] = IF Len(s) = 1 \/ ch[s[Len(s) - 1]] = End(s) THEN NULL
                               ELSE IF pv[End(s)] = NULL THEN NULL
                               ELSE Append(Front(s), pv[End(s)])
  BY DEF CopyOf, Last, End, Kind
<1>5. \A s \in D : K[s] = [k \in 1..Len(C[End(s)]) |-> Append(s, C[End(s)][k])]
  BY DEF KidsOf
<1>6. ASSUME NEW s \in D
      PROVE  /\ K[s] \in Seq(D) /\ Len(K[s]) = Len(C[End(s)]) /\ Len(K[s]) \in Nat
             /\ \A k \in 1..Len(K[s]) : K[s][k] = Append(s, C[End(s)][k])
  <2>1. Len(C[End(s)]) \in Nat /\ \A k \in 1..Len(C[End(s)]) : Append(s, C[End(s)][k]) \in D
    BY <1>1, <1>2
  <2> DEFINE n == Len(C[End(s)])
             e(k) == Append(s, C[End(s)][k])
  <2>2. n \in Nat /\ \A k \in 1..n : e(k) \in D
    BY <2>1
  <2>3. K[s] = [k \in 1..n |-> e(k)]
    BY <1>5
  <2> HIDE DEF K, n, e
  <2>4. [k \in 1..n |-> e(k)] \in Seq(D) /\ Len([k \in 1..n |-> e(k)]) = n
    BY <2>2, IsASeq
  <2>5. K[s] \in Seq(D) /\ Len(K[s]) = n /\ \A k \in 1..n : K[s][k] = e(k)
    BY <2>3, <2>4
  <2> QED BY <2>2, <2>5 DEF n, e
<1> HIDE DEF tree, K
<1>7. NULL \notin D /\ \A s \in D : s # NULL
  BY <1>2, NodeAssumption
<1>8. ASSUME NEW s \in D PROVE tree.type[s] \in {"array", "object"}
  <2>1. ty[End(s)] \in {"array", "object", "reference"}
    BY <1>1, <1>2 DEF Types
  <2>2. CASE ty[End(s)] = "reference"
    <3> QED BY <1>2, <1>4, <2>2
  <2> QED BY <1>4, <2>1, <2>2
<1>9. ASSUME NEW s \in D PROVE tree.child[s] = At(K[s], 1)
  <2>1. ch[End(s)] = At(C[End(s)], 1)
    BY <1>2, <1>3
  <2>2. CASE 1 \in 1..Len(K[s])
    <3>1. ch[End(s)] = C[End(s)][1] /\ K[s][1] = Append(s, C[End(s)][1])
      BY <1>6, <2>1, <2>2 DEF At
    <3>2. ch[End(s)] # NULL
      <4>1. C[End(s)][1] \in Item
        BY <1>2, <1>3, <1>6, <2>2
      <4> QED BY <3>1, <4>1, NullAssumption
    <3> QED BY <1>4, <2>2, <3>1, <3>2 DEF At
  <2>3. CASE 1 \notin 1..Len(K[s])
    <3>1. ch[End(s)] = NULL
      BY <1>6, <2>1, <2>3 DEF At
    <3> QED BY <1>4, <2>3, <3>1 DEF At
  <2> QED BY <2>2, <2>3
<1>10. ASSUME NEW u \in D, NEW k \in 1..Len(K[u])
       PROVE  tree.next[K[u][k]] = At(K[u], k + 1) /\ tree.prev[K[u][k]] = At(K[u], k - 1)
  <2> DEFINE c == C[End(u)]
             s == Append(u, c[k])
  <2>1. /\ Len(K[u]) = Len(c) /\ Len(c) \in Nat /\ K[u][k] = s /\ s \in D
        /\ k \in 1..Len(c) /\ k \in Nat /\ c \in Seq(Item)
        /\ \A m \in 1..Len(K[u]) : K[u][m] = Append(u, c[m])
    <3>1. /\ Len(K[u]) = Len(c) /\ Len(c) \in Nat /\ c \in Seq(Item)
          /\ \A m \in 1..Len(K[u]) : K[u][m] = Append(u, c[m])
      BY <1>2, <1>6
    <3>2. k \in 1..Len(c) /\ k \in Nat
      BY <3>1
    <3>3. s \in D
      BY <1>1, <3>2
    <3> HIDE DEF c
    <3> QED BY <3>1, <3>2, <3>3
  <2>2. /\ c[k] \in Item /\ nx[c[k]] = At(c, k + 1)
        /\ k # 1 => pv[c[k]] = c[k - 1]
        /\ ch[End(u)] = At(c, 1)
        /\ \A m \in 1..Len(c) : c[k] = c[m] => k = m
    BY <1>2, <1>3, <2>1
  <2>3. u \in Ways /\ Len(u) \in Nat /\ Len(u) # 0
    BY <1>1, <1>2
  <2>4. Len(s) = Len(u) + 1 /\ End(s) = c[k] /\ s[Len(u)] = End(u) /\ Front(s) = u
    BY <2>2, <2>3, AppendWay
  <2> HIDE DEF c, s
  <2>5. Len(s) # 1 /\ s[Len(s) - 1] = End(u)
    BY <2>3, <2>4
  <2>6. tree.next[s] = At(K[u], k + 1)
    <3>0. tree.next[s] = IF Len(s) = 1 \/ nx[End(s)] = NULL THEN NULL
                         ELSE Append(Front(s), nx[End(s)])
      BY <1>4, <2>1
    <3>1. CASE k + 1 \in 1..Len(c)
      <4>1. nx[c[k]] = c[k + 1] /\ c[k + 1] \in Item
        BY <2>1, <2>2, <3>1 DEF At
      <4>2. nx[c[k]] # NULL
        BY <4>1, NullAssumption
      <4>3. At(K[u], k + 1) = Append(u, c[k + 1])
        BY <2>1, <3>1 DEF At
      <4> QED BY <2>4, <2>5, <3>0, <4>1, <4>2, <4>3
    <3>2. CASE k + 1 \notin 1..Len(c)
      <4>1. nx[c[k]] = NULL /\ At(K[u], k + 1) = NULL
        BY <2>1, <2>2, <3>2 DEF At
      <4> QED BY <2>4, <3>0, <4>1
    <3> QED BY <3>1, <3>2
  <2>7. tree.prev[s] = At(K[u], k - 1)
    <3>0. tree.prev[s] = IF ch[End(u)] = c[k] THEN NULL
                         ELSE IF pv[c[k]] = NULL THEN NULL ELSE Append(u, pv[c[k]])
      <4>1. tree.prev[s] = IF Len(s) = 1 \/ ch[s[Len(s) - 1]] = End(s) THEN NULL
                           ELSE IF pv[End(s)] = NULL THEN NULL
                           ELSE Append(Front(s), pv[End(s)])
        BY <1>4, <2>1
      <4> QED BY <2>4, <2>5, <4>1
    <3>1. CASE k = 1
      <4>1. At(c, 1) = c[k] /\ At(K[u], k - 1) = NULL
        BY <2>1, <3>1 DEF At
      <4> QED BY <2>2, <3>0, <4>1
    <3>2. CASE k # 1
      <4>1. k - 1 \in 1..Len(c) /\ 1 \in 1..Len(c)
        BY <2>1, <3>2
      <4>2. At(c, 1) = c[1] /\ c[1] # c[k]
        BY <2>2, <3>2, <4>1 DEF At
      <4>3. At(K[u], k - 1) = Append(u, c[k - 1])
        BY <2>1, <4>1 DEF At
      <4>4. pv[c[k]] = c[k - 1] /\ c[k - 1] # NULL
        <5>1. c[k - 1] \in Item
          BY <2>1, <4>1
        <5> QED BY <2>2, <3>2, <5>1, NullAssumption
      <4> QED BY <2>2, <3>0, <4>2, <4>3, <4>4
    <3> QED BY <3>1, <3>2
  <2> QED BY <2>1, <2>6, <2>7
<1>11. ASSUME NEW d \in D, NEW e \in D, NEW k \in 1..Len(K[d]), NEW m \in 1..Len(K[e]),
              K[d][k] = K[e][m]
       PROVE  d = e /\ k = m
  <2>1. /\ K[d][k] = Append(d, C[End(d)][k]) /\ K[e][m] = Append(e, C[End(e)][m])
        /\ C[End(d)][k] \in Item /\ C[End(e)][m] \in Item
        /\ k \in 1..Len(C[End(d)]) /\ m \in 1..Len(C[End(e)]) /\ d \in Ways /\ e \in Ways
    BY <1>1, <1>2, <1>3, <1>6
  <2>2. /\ Front(Append(d, C[End(d)][k])) = d /\ End(Append(d, C[End(d)][k])) = C[End(d)][k]
        /\ Front(Append(e, C[End(e)][m])) = e /\ End(Append(e, C[End(e)][m])) = C[End(e)][m]
    BY <2>1, AppendWay
  <2>3. d = e
    BY <1>11, <2>1, <2>2
  <2>4. C[End(d)][k] = C[End(d)][m]
    BY <1>11, <2>1, <2>2, <2>3
  <2> QED BY <1>2, <1>3, <2>1, <2>3, <2>4
<1>12. ASSUME NEW d \in D
       PROVE  \/ tree.next[d] = NULL /\ tree.prev[d] = NULL
              \/ \E e \in D : \E k \in 1..Len(K[e]) : K[e][k] = d
  <2>1. CASE Len(d) = 1
    BY <1>4, <2>1
  <2>2. CASE Len(d) # 1
    <3> PICK u \in D : \E k \in 1..Len(C[End(u)]) : d = Append(u, C[End(u)][k])
      BY <1>1, <2>2
    <3> PICK k \in 1..Len(C[End(u)]) : d = Append(u, C[End(u)][k])
      OBVIOUS
    <3>1. k \in 1..Len(K[u]) /\ K[u][k] = d
      BY <1>6
    <3> QED BY <3>1
  <2> QED BY <2>1, <2>2
<1>13. Grown(tree, D, K)
  BY <1>6, <1>7, <1>8, <1>9, <1>10, <1>11, <1>12 DEF Grown
<1> QED BY <1>13 DEF tree, K

\* The copy of i alone.
LEMMA ShallowCopy ==
  ASSUME NEW ty \in Types, ty = type, NEW i \in Item, ty[i] # "free",
         kind \in [Item -> {"array", "object"}]
  PROVE  Grown(CopyOf({<<i>>}, FALSE), {<<i>>}, [s \in {<<i>>} |-> <<>>])
<1> DEFINE o == <<i>>
           D == {o}
           tree == CopyOf(D, FALSE)
           K == [s \in D |-> <<>>]
<1>1. o \in Seq(Item) /\ Len(o) = 1 /\ End(o) = i /\ Last(o) = i
  BY DEF End, Last
<1>2. NULL \notin D /\ o # NULL
  BY <1>1, NodeAssumption
<1> HIDE DEF o
<1>3. /\ tree.type[o] = IF ty[i] = "reference" THEN kind[i] ELSE ty[i]
      /\ tree.child[o] = NULL /\ tree.next[o] = NULL /\ tree.prev[o] = NULL
  BY <1>1 DEF CopyOf, Kind
<1>4. tree.type[o] \in {"array", "object"}
  <2> QED BY <1>3 DEF Types
<1>5. \A s \in D : s = o /\ K[s] = <<>>
  OBVIOUS
<1>6. <<>> \in Seq(D) /\ Len(<<>>) = 0
  BY EmptySeq
<1>7. At(<<>>, 1) = NULL /\ \A k : k \notin 1..Len(<<>>)
  BY <1>6 DEF At
<1> HIDE DEF tree, K, D
<1>8. Grown(tree, D, K)
  BY <1>2, <1>3, <1>4, <1>5, <1>6, <1>7 DEF Grown
<1> QED BY <1>8 DEF tree, K, D, o

\* The children of the nodes of an array that CreateArrayOf builds.
ArrayKids(count) == [d \in 0..count |-> IF d = 0 THEN [k \in 1..count |-> k] ELSE <<>>]

\* The array and its numbers or strings are a tree of nodes.
LEMMA ArrayGrown ==
  ASSUME NEW count \in Nat
  PROVE  Grown(ArrayOf(count), 0..count, ArrayKids(count))
<1> DEFINE D == 0..count
           tree == ArrayOf(count)
           K == ArrayKids(count)
           all == [k \in 1..count |-> k]
<1>1. \A d \in D : d \in Nat /\ d <= count
  OBVIOUS
<1>2. NULL \notin D /\ \A d \in Nat : d # NULL
  BY NodeAssumption
<1>3. all \in Seq(D) /\ Len(all) = count /\ \A k \in 1..count : all[k] = k
  <2>1. \A k \in 1..count : k \in D
    OBVIOUS
  <2> HIDE DEF D
  <2> QED BY <2>1, IsASeq
<1>4. <<>> \in Seq(D) /\ Len(<<>>) = 0
  BY EmptySeq
<1>5. /\ 0 \in D /\ K[0] = all
      /\ \A d \in D : d # 0 => K[d] = <<>>
  BY DEF ArrayKids
<1>6. \A d \in D :
        /\ tree.type[d] = "array"
        /\ tree.next[d] = IF d \in {0, count} THEN NULL ELSE d + 1
        /\ tree.prev[d] = IF d \in {0, 1} THEN NULL ELSE d - 1
        /\ tree.child[d] = IF d = 0 /\ count > 0 THEN 1 ELSE NULL
  BY DEF ArrayOf
<1> HIDE DEF tree, K, all, D
<1>7. ASSUME NEW d \in D PROVE K[d] \in Seq(D) /\ (d # 0 => Len(K[d]) = 0)
  BY <1>3, <1>4, <1>5
<1>8. ASSUME NEW d \in D PROVE tree.child[d] = At(K[d], 1)
  <2>1. CASE d # 0
    BY <1>4, <1>5, <1>6, <2>1 DEF At
  <2>2. CASE d = 0 /\ count > 0
    <3>1. 1 \in 1..Len(all) /\ all[1] = 1
      BY <1>3, <2>2
    <3> QED BY <1>5, <1>6, <2>2, <3>1 DEF At
  <2>3. CASE d = 0 /\ count = 0
    <3>1. 1 \notin 1..Len(all)
      BY <1>3, <2>3
    <3> QED BY <1>5, <1>6, <2>3, <3>1 DEF At
  <2> QED BY <2>1, <2>2, <2>3
<1>9. ASSUME NEW d \in D, NEW k \in 1..Len(K[d])
      PROVE  d = 0 /\ K[d][k] = k /\ k \in 1..count
  <2>1. d = 0
    <3>1. \A m : m \notin 1..0
      OBVIOUS
    <3> QED BY <1>7, <3>1
  <2> QED BY <1>3, <1>5, <2>1
<1>10. ASSUME NEW k \in 1..count
       PROVE  tree.next[k] = At(all, k + 1) /\ tree.prev[k] = At(all, k - 1)
  <2>1. k \in D /\ k # 0 /\ k \in Nat
    BY DEF D
  <2>2. tree.next[k] = At(all, k + 1)
    <3>1. CASE k = count
      <4>1. k + 1 \notin 1..Len(all)
        BY <1>3, <3>1
      <4> QED BY <1>6, <2>1, <3>1, <4>1 DEF At
    <3>2. CASE k # count
      <4>1. k + 1 \in 1..Len(all) /\ all[k + 1] = k + 1
        BY <1>3, <3>2
      <4> QED BY <1>6, <2>1, <3>2, <4>1 DEF At
    <3> QED BY <3>1, <3>2
  <2>3. tree.prev[k] = At(all, k - 1)
    <3>1. CASE k = 1
      <4>1. k - 1 \notin 1..Len(all)
        BY <1>3, <3>1
      <4> QED BY <1>6, <2>1, <3>1, <4>1 DEF At
    <3>2. CASE k # 1
      <4>1. k - 1 \in 1..Len(all) /\ all[k - 1] = k - 1
        BY <1>3, <3>2
      <4> QED BY <1>6, <2>1, <3>2, <4>1 DEF At
    <3> QED BY <3>1, <3>2
  <2> QED BY <2>2, <2>3
<1>11. ASSUME NEW d \in D
       PROVE  \/ tree.next[d] = NULL /\ tree.prev[d] = NULL
              \/ \E e \in D : \E k \in 1..Len(K[e]) : K[e][k] = d
  <2>1. CASE d = 0
    BY <1>6, <2>1
  <2>2. CASE d # 0
    <3>1. d \in 1..count
      BY <2>2 DEF D
    <3>2. d \in 1..Len(K[0]) /\ K[0][d] = d
      BY <1>3, <1>5, <3>1
    <3> QED BY <1>5, <3>2
  <2> QED BY <2>1, <2>2
<1>12. \A d \in D : \A k \in 1..Len(K[d]) :
         tree.next[K[d][k]] = At(K[d], k + 1) /\ tree.prev[K[d][k]] = At(K[d], k - 1)
  BY <1>5, <1>9, <1>10
<1>13. \A d, e \in D : \A k \in 1..Len(K[d]), m \in 1..Len(K[e]) : K[d][k] = K[e][m] => d = e /\ k = m
  BY <1>9
<1>14. Grown(tree, D, K)
  BY <1>2, <1>6, <1>7, <1>8, <1>11, <1>12, <1>13 DEF Grown
<1> QED BY <1>14 DEF tree, K, D

-----------------------------------------------------------------------------
(* Trees of the forest that the links represent, and that it has no cycles.    *)

\* x is a child of g.
Edge(q, g, x) == \E m \in 1..Len(q[g]) : q[g][m] = x

\* The items of the tree of i.
Under(q, i) == Closure(i, [x \in Item |-> Range(q[x])])

\* Nothing in S has a child outside.
Whole(q, S) == \A g \in S : \A x \in Item : Edge(q, g, x) => x \in S

\* Under(q, i) has i and is the least set that no child is outside of.
LEMMA UnderLeast ==
  ASSUME NEW q \in Kids, NEW i \in Item
  PROVE  /\ Under(q, i) \in SUBSET Item /\ i \in Under(q, i)
         /\ Whole(q, Under(q, i))
         /\ \A S \in SUBSET Item : i \in S /\ Whole(q, S) => Under(q, i) \subseteq S
<1> DEFINE step == [x \in Item |-> Range(q[x])]
           tree == Closure(i, step)
<1>1. \A g \in Item : /\ step[g] \in SUBSET Item
                      /\ \A x : x \in step[g] <=> Edge(q, g, x)
  <2> TAKE g \in Item
  <2>1. q[g] \in Seq(Item)
    BY DEF Kids
  <2>2. \A x : x \in Range(q[g]) <=> \E m \in 1..Len(q[g]) : q[g][m] = x
    BY <2>1 DEF Range
  <2>3. step[g] = Range(q[g])
    OBVIOUS
  <2> HIDE DEF step
  <2> QED BY <2>1, <2>2, <2>3 DEF Edge
<1>2. step \in [Item -> SUBSET (Item \cup {NULL})]
  BY <1>1
<1> HIDE DEF step
<1>3. /\ tree \in SUBSET Item /\ i \in tree
      /\ \A y \in tree : step[y] \subseteq tree \cup {NULL}
      /\ \A S \in SUBSET Item :
           i \in S /\ (\A y \in S : step[y] \subseteq S \cup {NULL}) => tree \subseteq S
  BY <1>2, ClosureLeast
<1> HIDE DEF tree
<1>4. Whole(q, tree)
  <2> SUFFICES ASSUME NEW g \in tree, NEW x \in Item, Edge(q, g, x) PROVE x \in tree
    BY DEF Whole
  <2>1. g \in Item /\ x \in step[g]
    BY <1>1, <1>3
  <2> QED BY <1>3, <2>1, NullAssumption
<1>5. ASSUME NEW S \in SUBSET Item, i \in S, Whole(q, S) PROVE tree \subseteq S
  <2>1. \A y \in S : step[y] \subseteq S \cup {NULL}
    BY <1>1, <1>5 DEF Whole
  <2> QED BY <1>3, <1>5, <2>1
<1> QED BY <1>3, <1>4, <1>5 DEF tree, step, Under

\* All of a tree but its root has a parent in it.
LEMMA UnderParent ==
  ASSUME NEW q \in Kids, NEW i \in Item, NEW x \in Under(q, i), x # i
  PROVE  \E g \in Under(q, i) : Edge(q, g, x)
<1> DEFINE U == Under(q, i)
           S == {y \in U : y = i \/ \E g \in U : Edge(q, g, y)}
<1>1. /\ U \in SUBSET Item /\ i \in U /\ Whole(q, U)
      /\ \A V \in SUBSET Item : i \in V /\ Whole(q, V) => U \subseteq V
  BY UnderLeast
<1> HIDE DEF U
<1>2. S \in SUBSET Item /\ i \in S
  BY <1>1
<1>3. Whole(q, S)
  BY <1>1 DEF Whole
<1>4. U \subseteq S
  <2> HIDE DEF S
  <2> QED BY <1>1, <1>2, <1>3
<1>5. x \in S
  BY <1>4 DEF U
<1> QED BY <1>5 DEF U

\* What cJSON_Delete frees is the tree.
LEMMA GoneIsUnder ==
  ASSUME NEW nx \in Links, NEW pv \in Links, NEW ch \in Links, NEW ty \in Types,
         NEW q \in Kids, Rep(nx, pv, ch, ty, q), NEW i \in Item, ~Placed(q, i)
  PROVE  Gone(nx, ch, ty, i) = Under(q, i)
<1> DEFINE gone == Gone(nx, ch, ty, i)
           U == Under(q, i)
<1>1. /\ U \in SUBSET Item /\ i \in U /\ Whole(q, U)
      /\ \A S \in SUBSET Item : i \in S /\ Whole(q, S) => U \subseteq S
  BY UnderLeast
<1>2. /\ gone \in SUBSET Item /\ i \in gone
      /\ \A S \in SUBSET Item : i \in S /\ Inside(nx, ch, ty, S) => gone \subseteq S
  BY GoneClosed
<1>3. \A p \in Item : \A k \in 1..Len(q[p]) : q[p][k] \in gone <=> p \in gone
  BY GoneWhole
<1>4. \A x \in U : x # i => \E g \in U : Edge(q, g, x)
  BY UnderParent
<1> HIDE DEF gone, U
<1>5. Whole(q, gone)
  BY <1>2, <1>3 DEF Whole, Edge
<1>6. Inside(nx, ch, ty, U)
  <2> SUFFICES ASSUME NEW y \in U
               PROVE  nx[y] \in U \cup {NULL} /\ (ty[y] # "reference" => ch[y] \in U \cup {NULL})
    BY DEF Inside
  <2>1. ASSUME ty[y] # "reference", ch[y] # NULL PROVE ch[y] \in U
    <3>1. y \in Item /\ ty[y] # "free"
      BY <1>1, <2>1 DEF Rep, Tidy
    <3>2. Box(ty, y)
      BY <2>1, <3>1 DEF Box, Types
    <3>3. ch[y] = At(q[y], 1)
      BY <3>1, <3>2 DEF Rep, Lists
    <3>4. 1 \in 1..Len(q[y]) /\ ch[y] = q[y][1]
      BY <2>1, <3>3 DEF At
    <3>5. ch[y] \in Item
      BY <2>1, <3>1 DEF Links
    <3> QED BY <1>1, <3>1, <3>4, <3>5 DEF Whole, Edge
  <2>2. nx[y] \in U \cup {NULL}
    <3>1. CASE y = i
      BY <3>1 DEF Rep, Tidy
    <3>2. CASE y # i
      <4>1. PICK g \in U : Edge(q, g, y)
        BY <1>4, <3>2
      <4>2. PICK m \in 1..Len(q[g]) : q[g][m] = y
        BY <4>1 DEF Edge
      <4>3. g \in Item /\ q[g] \in Seq(Item)
        BY <1>1 DEF Kids
      <4>4. q[g] # <<>>
        <5>1. Len(<<>>) = 0 /\ Len(q[g]) # 0
          BY <4>2, <4>3
        <5> QED BY <5>1, Zenon
      <4>5. nx[y] = At(q[g], m + 1)
        BY <4>2, <4>3, <4>4 DEF Rep, Lists, Siblings
      <4>6. CASE m + 1 \in 1..Len(q[g])
        <5>1. nx[y] = q[g][m + 1] /\ nx[y] \in Item
          BY <4>3, <4>5, <4>6 DEF At
        <5> QED BY <1>1, <4>3, <4>6, <5>1 DEF Whole, Edge
      <4>7. CASE m + 1 \notin 1..Len(q[g])
        BY <4>5, <4>7 DEF At
      <4> QED BY <4>6, <4>7
    <3> QED BY <3>1, <3>2
  <2> QED BY <2>1, <2>2
<1> QED BY <1>1, <1>2, <1>5, <1>6 DEF gone, U

\* There are no cycles: in every set is an item with no parent in it.
Grounded(q) ==
  \A S \in SUBSET Item : S # {} => \E x \in S : \A g \in S : ~Edge(q, g, x)

\* Taking edges away makes no cycle.
LEMMA GroundedLess ==
  ASSUME NEW q, Grounded(q), NEW q2, \A g, x \in Item : Edge(q2, g, x) => Edge(q, g, x)
  PROVE  Grounded(q2)
  BY DEF Grounded

\* Putting a root under an item outside its tree makes no cycle.
LEMMA GroundedMore ==
  ASSUME NEW q \in Kids, Grounded(q), NEW i \in Item, ~Placed(q, i), NEW p \in Item, p \notin Under(q, i),
         NEW q2, \A g, x \in Item : Edge(q2, g, x) => Edge(q, g, x) \/ (g = p /\ x = i)
  PROVE  Grounded(q2)
<1> SUFFICES ASSUME NEW S \in SUBSET Item, S # {}, \A x \in S : \E g \in S : Edge(q2, g, x)
             PROVE  FALSE
  BY DEF Grounded
<1> DEFINE U == Under(q, i)
<1>1. U \in SUBSET Item /\ i \in U /\ Whole(q, U)
  BY UnderLeast
<1> HIDE DEF U
<1>2. CASE i \notin S
  <2>1. \A x \in S : \E g \in S : Edge(q, g, x)
    BY <1>2
  <2> QED BY <2>1 DEF Grounded
<1>3. CASE i \in S
  <2> DEFINE T == S \ U
  <2>1. p \in T
    <3>1. PICK g \in S : Edge(q2, g, i)
      BY <1>3
    <3>2. ~Edge(q, g, i)
      BY DEF Placed, Edge
    <3> QED BY <3>1, <3>2 DEF U
  <2>2. ASSUME NEW x \in T PROVE \E g \in T : Edge(q, g, x)
    <3>1. PICK g \in S : Edge(q2, g, x)
      OBVIOUS
    <3>2. x # i
      BY <1>1
    <3>3. Edge(q, g, x)
      BY <3>1, <3>2
    <3>4. g \notin U
      BY <1>1, <3>3 DEF Whole
    <3> QED BY <3>3, <3>4
  <2>3. T \in SUBSET Item /\ T # {}
    BY <2>1
  <2> HIDE DEF T
  <2> QED BY <2>2, <2>3 DEF Grounded
<1> QED BY <1>2, <1>3

\* The tree of i does not depend on the children of the container that i is in.
LEMMA UnderKept ==
  ASSUME NEW q \in Kids, Grounded(q), NEW i \in Item, NEW p \in Item, Edge(q, p, i),
         NEW q2 \in Kids, \A g \in Item \ {p} : q2[g] = q[g]
  PROVE  Under(q2, i) = Under(q, i) /\ p \notin Under(q, i)
<1> DEFINE U == Under(q2, i)
           V == Under(q, i)
<1>1. /\ U \in SUBSET Item /\ i \in U /\ Whole(q2, U)
      /\ \A S \in SUBSET Item : i \in S /\ Whole(q2, S) => U \subseteq S
  BY UnderLeast
<1>2. /\ V \in SUBSET Item /\ i \in V /\ Whole(q, V)
      /\ \A S \in SUBSET Item : i \in S /\ Whole(q, S) => V \subseteq S
  BY UnderLeast
<1>3. \A x \in V : x # i => \E g \in V : Edge(q, g, x)
  BY UnderParent
<1> HIDE DEF U, V
<1>4. p \notin V
  <2> SUFFICES ASSUME p \in V PROVE FALSE
    OBVIOUS
  <2>1. \A x \in V : \E g \in V : Edge(q, g, x)
    BY <1>3
  <2> QED BY <1>2, <2>1 DEF Grounded
<1>5. Whole(q2, V)
  BY <1>2, <1>4 DEF Whole, Edge
<1>6. U \subseteq V
  BY <1>1, <1>2, <1>5
<1>7. Whole(q, U)
  BY <1>1, <1>4, <1>6 DEF Whole, Edge
<1> QED BY <1>1, <1>2, <1>4, <1>6, <1>7 DEF U, V

-----------------------------------------------------------------------------
(* The ways in which a call may change the forest.                             *)

\* The ways in which the types ty and children q become ty2 and q2: the steps of
\* the forest, in terms of links that represent it.

Attaches(ty, q, ty2, q2) ==
  /\ ty2 = ty
  /\ \E p, i \in Item :
       /\ ty[p] # "free" /\ ty[i] # "free" /\ ~Placed(q, i) /\ p \notin Under(q, i)
       /\ \E k \in 0..Len(q[p]), t \in Seq(Item) :
            PutIn(q[p], k, i, t) /\ q2 = [q EXCEPT ![p] = t]

AttachesNew(ty, q, ty2, q2) ==
  \E p, i \in Item :
    /\ ty[p] # "free" /\ ty[i] = "free" /\ ~Placed(q, i) /\ q[i] = <<>>
    /\ ty2 = [ty EXCEPT ![i] = "reference"]
    /\ \E t \in Seq(Item) : PutIn(q[p], Len(q[p]), i, t) /\ q2 = [q EXCEPT ![p] = t]

Detaches(ty, q, ty2, q2) ==
  /\ ty2 = ty
  /\ \E p \in Item :
       /\ ty[p] # "free"
       /\ \E k \in 1..Len(q[p]), t \in Seq(Item) :
            TakeOut(q[p], k, t) /\ q2 = [q EXCEPT ![p] = t]

Frees(ty, q, ty2, q2) ==
  \E i \in Item :
    /\ ty[i] # "free" /\ ~Placed(q, i)
    /\ ty2 = Freed(Under(q, i), ty) /\ q2 = Emptied(Under(q, i), q)

\* t is the children s of p without the k-th, or with another in its place.
Without(ty, q, p, k, t) ==
  \/ TakeOut(q[p], k, t)
  \/ \E r \in Item : /\ ty[r] # "free" /\ ~Placed(q, r) /\ p \notin Under(q, r)
                     /\ t = [q[p] EXCEPT ![k] = r]

FreesChild(ty, q, ty2, q2) ==
  \E p \in Item : \E k \in 1..Len(q[p]), t \in Seq(Item) :
    /\ ty[p] # "free" /\ ty[q[p][k]] # "free" /\ p \notin Under(q, q[p][k])
    /\ Without(ty, q, p, k, t)
    /\ ty2 = Freed(Under(q, q[p][k]), ty)
    /\ q2 = Emptied(Under(q, q[p][k]), [q EXCEPT ![p] = t])

\* The items B are a tree, with the root top.
Sprouts(q, B, top) ==
  /\ top \in B /\ B \in SUBSET Item
  /\ \A g \in B : \A x \in Item : Edge(q, g, x) => x \in B /\ x # top
  /\ \A x \in B : x # top => \E g \in B : Edge(q, g, x)
  /\ \A S \in SUBSET B : S # {} => \E x \in S : \A g \in S : ~Edge(q, g, x)

Builds(ty, q, ty2, q2) ==
  \E B \in SUBSET Item, top \in Item :
    /\ \A b \in B : ty[b] = "free" /\ ty2[b] # "free" /\ ~Placed(q, b)
    /\ \A x \in Item \ B : ty2[x] = ty[x] /\ q2[x] = q[x]
    /\ Sprouts(q2, B, top)

Moves(ty, q, ty2, q2) ==
  \/ Attaches(ty, q, ty2, q2) \/ AttachesNew(ty, q, ty2, q2) \/ Detaches(ty, q, ty2, q2)
  \/ Frees(ty, q, ty2, q2) \/ FreesChild(ty, q, ty2, q2) \/ Builds(ty, q, ty2, q2)

\* The only new edge is the one to the item that was put in.
LEMMA PutInEdges ==
  ASSUME NEW q \in Kids, NEW p \in Item, NEW i \in Item, NEW k \in 0..Len(q[p]),
         NEW t \in Seq(Item), PutIn(q[p], k, i, t)
  PROVE  \A g, x \in Item : Edge([q EXCEPT ![p] = t], g, x) => Edge(q, g, x) \/ (g = p /\ x = i)
<1> SUFFICES ASSUME NEW g \in Item, NEW x \in Item, Edge([q EXCEPT ![p] = t], g, x),
                    ~(g = p /\ x = i)
             PROVE  Edge(q, g, x)
  OBVIOUS
<1>1. CASE g # p
  BY <1>1 DEF Edge, Kids
<1>2. CASE g = p
  <2> DEFINE s == q[p]
             n == Len(s)
  <2>1. s \in Seq(Item) /\ n \in Nat /\ k \in 0..n
    BY DEF Kids
  <2>2. [q EXCEPT ![p] = t][p] = t
    BY DEF Kids
  <2>3. PICK m \in 1..Len(t) : t[m] = x
    BY <1>2, <2>2 DEF Edge
  <2>4. Len(t) = n + 1 /\ \A j \in 1..(n + 1) : t[j] = IF j <= k THEN s[j] ELSE IF j = k + 1 THEN i ELSE s[j - 1]
    BY DEF PutIn
  <2>5. m \in 1..(n + 1) /\ (x = IF m <= k THEN s[m] ELSE IF m = k + 1 THEN i ELSE s[m - 1])
    BY <2>3, <2>4
  <2>6. \E j \in 1..n : s[j] = x
    <3> HIDE DEF s, n
    <3>1. CASE m <= k
      BY <3>1, <2>1, <2>5
    <3>2. CASE m > k
      <4>1. m # k + 1
        BY <1>2, <2>5, <3>2, <2>1
      <4>2. m - 1 \in 1..n /\ s[m - 1] = x
        BY <4>1, <3>2, <2>1, <2>5
      <4> QED BY <4>2
    <3> QED BY <3>1, <3>2, <2>1, <2>5
  <2> QED BY <1>2, <2>6 DEF Edge
<1> QED BY <1>1, <1>2

\* Taking a child out makes no new edge.
LEMMA TakeOutEdges ==
  ASSUME NEW q \in Kids, NEW p \in Item, NEW k \in 1..Len(q[p]),
         NEW t \in Seq(Item), TakeOut(q[p], k, t)
  PROVE  \A g, x \in Item : Edge([q EXCEPT ![p] = t], g, x) => Edge(q, g, x)
<1> SUFFICES ASSUME NEW g \in Item, NEW x \in Item, Edge([q EXCEPT ![p] = t], g, x)
             PROVE  Edge(q, g, x)
  OBVIOUS
<1>1. CASE g # p
  BY <1>1 DEF Edge, Kids
<1>2. CASE g = p
  <2> DEFINE s == q[p]
             n == Len(s)
  <2>1. s \in Seq(Item) /\ n \in Nat /\ k \in 1..n /\ Len(t) \in Nat
    BY DEF Kids
  <2>2. [q EXCEPT ![p] = t][p] = t
    BY DEF Kids
  <2>3. PICK m \in 1..Len(t) : t[m] = x
    BY <1>2, <2>2 DEF Edge
  <2>4. Len(t) + 1 = n /\ \A j \in 1..Len(t) : t[j] = IF j < k THEN s[j] ELSE s[j + 1]
    BY DEF TakeOut
  <2>5. \E j \in 1..n : s[j] = x
    <3> HIDE DEF s, n
    <3>1. m \in 1..n /\ m + 1 \in 1..n
      BY <2>1, <2>3, <2>4
    <3>2. x = s[m] \/ x = s[m + 1]
      BY <2>3, <2>4
    <3> QED BY <3>1, <3>2
  <2> QED BY <1>2, <2>5 DEF Edge
<1> QED BY <1>1, <1>2

\* The only new edge is the one to the item that replaces a child.
LEMMA ReplaceEdges ==
  ASSUME NEW q \in Kids, NEW p \in Item, NEW k \in 1..Len(q[p]), NEW r \in Item
  PROVE  \A g, x \in Item : Edge([q EXCEPT ![p] = [q[p] EXCEPT ![k] = r]], g, x)
                              => Edge(q, g, x) \/ (g = p /\ x = r)
<1> DEFINE t == [q[p] EXCEPT ![k] = r]
<1> SUFFICES ASSUME NEW g \in Item, NEW x \in Item, Edge([q EXCEPT ![p] = t], g, x),
                    ~(g = p /\ x = r)
             PROVE  Edge(q, g, x)
  OBVIOUS
<1>1. CASE g # p
  BY <1>1 DEF Edge, Kids
<1>2. CASE g = p
  <2>1. q[p] \in Seq(Item) /\ Len(q[p]) \in Nat /\ t \in Seq(Item) /\ Len(t) = Len(q[p])
    BY DEF Kids
  <2>2. [q EXCEPT ![p] = t][p] = t
    BY DEF Kids
  <2>3. PICK m \in 1..Len(t) : t[m] = x
    BY <1>2, <2>2 DEF Edge
  <2>4. m \in 1..Len(q[p]) /\ q[p][m] = x
    BY <1>2, <2>1, <2>3
  <2> QED BY <1>2, <2>4 DEF Edge
<1> QED BY <1>1, <1>2

\* Freeing items makes no new edge.
LEMMA EmptiedEdges ==
  ASSUME NEW gone, NEW q
  PROVE  \A g, x \in Item : Edge(Emptied(gone, q), g, x) => Edge(q, g, x)
<1> SUFFICES ASSUME NEW g \in Item, NEW x \in Item, Edge(Emptied(gone, q), g, x)
             PROVE  Edge(q, g, x)
  OBVIOUS
<1>1. CASE g \in gone
  BY <1>1 DEF Edge, Emptied
<1>2. CASE g \notin gone
  BY <1>2 DEF Edge, Emptied
<1> QED BY <1>1, <1>2

\* No move makes a cycle.
LEMMA MoveGrounded ==
  ASSUME NEW ty, NEW q \in Kids, Grounded(q), NEW ty2, NEW q2, Moves(ty, q, ty2, q2)
  PROVE  Grounded(q2)
<1>1. CASE Attaches(ty, q, ty2, q2)
  <2>1. PICK p \in Item, i \in Item :
          /\ ~Placed(q, i) /\ p \notin Under(q, i)
          /\ \E k \in 0..Len(q[p]), t \in Seq(Item) : PutIn(q[p], k, i, t) /\ q2 = [q EXCEPT ![p] = t]
    BY <1>1 DEF Attaches
  <2>2. PICK k \in 0..Len(q[p]), t \in Seq(Item) : PutIn(q[p], k, i, t) /\ q2 = [q EXCEPT ![p] = t]
    BY <2>1
  <2>3. \A g, x \in Item : Edge(q2, g, x) => Edge(q, g, x) \/ (g = p /\ x = i)
    BY <2>2, PutInEdges
  <2> QED BY <2>1, <2>3, GroundedMore
<1>2. CASE AttachesNew(ty, q, ty2, q2)
  <2>1. PICK p \in Item, i \in Item :
          /\ ty[p] # "free" /\ ty[i] = "free" /\ ~Placed(q, i) /\ q[i] = <<>>
          /\ \E t \in Seq(Item) : PutIn(q[p], Len(q[p]), i, t) /\ q2 = [q EXCEPT ![p] = t]
    BY <1>2 DEF AttachesNew
  <2>2. PICK t \in Seq(Item) : PutIn(q[p], Len(q[p]), i, t) /\ q2 = [q EXCEPT ![p] = t]
    BY <2>1
  <2>3. Len(q[p]) \in 0..Len(q[p])
    BY DEF Kids
  <2>4. \A g, x \in Item : Edge(q2, g, x) => Edge(q, g, x) \/ (g = p /\ x = i)
    BY <2>2, <2>3, PutInEdges
  <2>5. Whole(q, {i})
    BY <2>1 DEF Whole, Edge
  <2>6. p \notin Under(q, i)
    BY <2>1, <2>5, UnderLeast
  <2> QED BY <2>1, <2>4, <2>6, GroundedMore
<1>3. CASE Detaches(ty, q, ty2, q2)
  <2>1. PICK p \in Item : \E k \in 1..Len(q[p]), t \in Seq(Item) : TakeOut(q[p], k, t) /\ q2 = [q EXCEPT ![p] = t]
    BY <1>3 DEF Detaches
  <2>2. PICK k \in 1..Len(q[p]), t \in Seq(Item) : TakeOut(q[p], k, t) /\ q2 = [q EXCEPT ![p] = t]
    BY <2>1
  <2>3. \A g, x \in Item : Edge(q2, g, x) => Edge(q, g, x)
    BY <2>2, TakeOutEdges
  <2> QED BY <2>3, GroundedLess
<1>4. CASE Frees(ty, q, ty2, q2)
  <2>1. PICK i \in Item : q2 = Emptied(Under(q, i), q)
    BY <1>4 DEF Frees
  <2> QED BY <2>1, EmptiedEdges, GroundedLess
<1>5. CASE FreesChild(ty, q, ty2, q2)
  <2>1. PICK p \in Item : \E k \in 1..Len(q[p]), t \in Seq(Item) :
          Without(ty, q, p, k, t) /\ q2 = Emptied(Under(q, q[p][k]), [q EXCEPT ![p] = t])
    BY <1>5 DEF FreesChild
  <2>2. PICK k \in 1..Len(q[p]), t \in Seq(Item) :
          Without(ty, q, p, k, t) /\ q2 = Emptied(Under(q, q[p][k]), [q EXCEPT ![p] = t])
    BY <2>1
  <2> DEFINE m == [q EXCEPT ![p] = t]
  <2>3. Grounded(m)
    <3>1. CASE TakeOut(q[p], k, t)
      <4>1. \A g, x \in Item : Edge(m, g, x) => Edge(q, g, x)
        BY <3>1, TakeOutEdges
      <4> QED BY <4>1, GroundedLess
    <3>2. CASE ~TakeOut(q[p], k, t)
      <4>1. PICK r \in Item : ~Placed(q, r) /\ p \notin Under(q, r) /\ t = [q[p] EXCEPT ![k] = r]
        BY <2>2, <3>2 DEF Without
      <4>2. \A g, x \in Item : Edge(m, g, x) => Edge(q, g, x) \/ (g = p /\ x = r)
        BY <4>1, ReplaceEdges
      <4> QED BY <4>1, <4>2, GroundedMore
    <3> QED BY <3>1, <3>2
  <2>4. \A g, x \in Item : Edge(q2, g, x) => Edge(m, g, x)
    BY <2>2, EmptiedEdges
  <2> QED BY <2>3, <2>4, GroundedLess
<1>6. CASE Builds(ty, q, ty2, q2)
  <2>1. PICK B \in SUBSET Item, top \in Item :
          /\ \A b \in B : ~Placed(q, b)
          /\ \A x \in Item \ B : q2[x] = q[x]
          /\ Sprouts(q2, B, top)
    BY <1>6 DEF Builds
  <2> SUFFICES ASSUME NEW S \in SUBSET Item, S # {}
               PROVE  \E x \in S : \A g \in S : ~Edge(q2, g, x)
    BY DEF Grounded
  <2>2. \A g \in Item \ B : \A x \in Item : Edge(q2, g, x) => Edge(q, g, x) /\ x \notin B
    BY <2>1 DEF Edge, Placed
  <2>3. CASE S \cap B = {}
    <3>1. PICK x \in S : \A g \in S : ~Edge(q, g, x)
      BY DEF Grounded
    <3> QED BY <2>2, <2>3, <3>1
  <2>4. CASE S \cap B # {}
    <3>1. PICK x \in S \cap B : \A g \in S \cap B : ~Edge(q2, g, x)
      BY <2>1, <2>4 DEF Sprouts
    <3> QED BY <2>2, <3>1
  <2> QED BY <2>3, <2>4
<1> QED BY <1>1, <1>2, <1>3, <1>4, <1>5, <1>6 DEF Moves

-----------------------------------------------------------------------------
(* What the operators of the module say of the forest.                         *)

\* L, ty and q are what the links, the types and the children are in this state.
Snapshot(L, ty, q) == L = links /\ ty = type /\ Shape(L, ty, q) /\ Grounded(q)

\* The call makes a move of the children q, and the links represent what they
\* have become.
Arrives(ty, q) == \E q2 : Shape(links', type', q2) /\ Moves(ty, q, type', q2)

\* What the operators of the module yield in a state whose links represent q.
LEMMA Seen ==
  ASSUME NEW L, NEW ty, NEW q, Snapshot(L, ty, q)
  PROVE  /\ L \in LinkRecords /\ ty \in Types /\ q \in Kids /\ Rep(L.next, L.prev, L.child, ty, q)
         /\ L.next = next /\ L.prev = prev /\ L.child = child /\ type = ty
         /\ L.next \in Links /\ L.prev \in Links /\ L.child \in Links
         /\ \A p \in Item : p \in Containers <=> Box(ty, p)
         /\ \A p \in Item : Box(ty, p) => Children(p) = q[p]
         /\ \A p \in Item : ~Box(ty, p) => q[p] = <<>>
         /\ \A i \in Item : i \in Allocated <=> ty[i] # "free"
         /\ \A i \in Item : Root(i) <=> ty[i] # "free" /\ ~Placed(q, i)
         /\ \A i \in Item : Placed(q, i) => ty[i] # "free"
         /\ \A i \in Item : Root(i) => Deleted(links, i) = Under(q, i)
<1>1. L \in LinkRecords /\ ty \in Types /\ q \in Kids /\ Rep(L.next, L.prev, L.child, ty, q)
  BY DEF Snapshot, Shape
<1>2. L.next = next /\ L.prev = prev /\ L.child = child /\ type = ty /\ links = L
  BY DEF Snapshot, links
<1>3. L.next \in Links /\ L.prev \in Links /\ L.child \in Links
  BY <1>1 DEF LinkRecords
<1>4. \A p \in Item : p \in Containers <=> Box(ty, p)
  BY <1>2 DEF Containers, OfType, Box
<1>5. \A p \in Item : Box(ty, p) => Children(p) = q[p]
  <2> SUFFICES ASSUME NEW p \in Item, Box(ty, p) PROVE Children(p) = q[p]
    OBVIOUS
  <2> DEFINE nx == L.next
             pv == L.prev
             ch == L.child
  <2>1. nx \in Links /\ pv \in Links /\ ch \in Links /\ Rep(nx, pv, ch, ty, q)
    BY <1>1, <1>3
  <2>2. Children(p) = Along(nx, ch[p])
    BY <1>2 DEF Children
  <2> HIDE DEF nx, pv, ch
  <2> QED BY <1>1, <2>1, <2>2, AlongChildren
<1>6. \A p \in Item : ~Box(ty, p) => q[p] = <<>>
  BY <1>1 DEF Rep, Lists
<1>7. \A i \in Item : i \in Allocated <=> ty[i] # "free"
  BY <1>2 DEF Allocated
<1>8. \A i \in Item : Root(i) <=> ty[i] # "free" /\ ~Placed(q, i)
  <2> SUFFICES ASSUME NEW i \in Item
               PROVE  (\E p \in Containers : i \in Range(Children(p))) <=> Placed(q, i)
    BY <1>7 DEF Root
  <2>1. ASSUME NEW p \in Containers, i \in Range(Children(p)) PROVE Placed(q, i)
    <3>1. p \in Item
      BY DEF Containers, OfType
    <3>2. i \in Range(q[p]) /\ q[p] \in Seq(Item)
      BY <1>1, <1>4, <1>5, <2>1, <3>1 DEF Kids
    <3>3. \E k \in 1..Len(q[p]) : q[p][k] = i
      BY <3>2 DEF Range
    <3> QED BY <3>1, <3>3 DEF Placed
  <2>2. ASSUME Placed(q, i) PROVE \E p \in Containers : i \in Range(Children(p))
    <3>1. PICK p \in Item : \E k \in 1..Len(q[p]) : q[p][k] = i
      BY <2>2 DEF Placed
    <3>2. q[p] \in Seq(Item)
      BY <1>1 DEF Kids
    <3>3. Len(q[p]) # 0
      BY <3>1, <3>2
    <3>4. Len(<<>>) = 0
      OBVIOUS
    <3>5. q[p] # <<>>
      BY <3>3, <3>4, Zenon
    <3>6. p \in Containers /\ Children(p) = q[p]
      BY <1>4, <1>5, <1>6, <3>5
    <3>7. i \in Range(q[p])
      BY <3>1, <3>2 DEF Range
    <3> QED BY <3>6, <3>7
  <2> QED BY <2>1, <2>2
<1>9. \A i \in Item : Placed(q, i) => ty[i] # "free"
  BY <1>1 DEF Rep, Tidy
<1>10. \A i \in Item : Root(i) => Deleted(links, i) = Under(q, i)
  <2> SUFFICES ASSUME NEW i \in Item, Root(i) PROVE Deleted(links, i) = Under(q, i)
    OBVIOUS
  <2> DEFINE nx == L.next
             pv == L.prev
             ch == L.child
  <2>1. nx \in Links /\ pv \in Links /\ ch \in Links /\ Rep(nx, pv, ch, ty, q)
    BY <1>1, <1>3
  <2>2. Deleted(links, i) = Gone(nx, ch, ty, i)
    BY <1>2 DEF Deleted, Gone, Goes
  <2> HIDE DEF nx, pv, ch
  <2> QED BY <1>1, <1>8, <2>1, <2>2, GoneIsUnder
<1> QED BY <1>1, <1>2, <1>3, <1>4, <1>5, <1>6, <1>7, <1>8, <1>9, <1>10

\* An item may be added to p.
LEMMA MayBeAdded ==
  ASSUME NEW L, NEW ty, NEW q, Snapshot(L, ty, q), NEW p \in Item, NEW i \in Item, MayAdd(p, i)
  PROVE  /\ Box(ty, p) /\ ty[p] # "free" /\ ty[i] # "free" /\ ~Placed(q, i)
         /\ p \notin Under(q, i) /\ i # p
<1>1. Root(i) /\ p \in Containers /\ p \notin Deleted(links, i)
  BY DEF MayAdd
<1>2. Box(ty, p) /\ ty[i] # "free" /\ ~Placed(q, i) /\ p \notin Under(q, i) /\ q \in Kids
  BY <1>1, Seen
<1>3. i \in Under(q, i)
  BY <1>2, UnderLeast
<1> QED BY <1>2, <1>3 DEF Box

\* Appending sets no pointer of i but prev.
LEMMA AppendedLinks ==
  ASSUME NEW L, NEW ty, NEW q, Snapshot(L, ty, q), NEW p \in Item, Box(ty, p),
         NEW i \in Item, i # p
  PROVE  Appended(L, p, i) \in LinkRecords /\ Appended(L, p, i).child[i] = L.child[i]
<1>1. /\ L \in LinkRecords /\ q \in Kids /\ Children(p) = q[p]
      /\ L.next \in Links /\ L.prev \in Links /\ L.child \in Links
      /\ Rep(L.next, L.prev, L.child, ty, q)
  BY Seen
<1>2. q[p] \in Seq(Item) /\ Len(q[p]) \in Nat
  BY <1>1 DEF Kids
<1>3. CASE L.child[p] = NULL
  <2>1. Appended(L, p, i) = [L EXCEPT !.child = [L.child EXCEPT ![p] = i]]
    BY <1>3 DEF Appended
  <2> QED BY <1>1, <2>1 DEF LinkRecords, Links
<1>4. CASE L.child[p] # NULL
  <2> DEFINE N == [L.next EXCEPT ![Last(q[p])] = i]
             P == [L.prev EXCEPT ![i] = Last(q[p])]
  <2>1. Last(q[p]) \in Item
    <3>1. L.child[p] = At(q[p], 1)
      BY <1>1 DEF Rep, Lists
    <3>2. Len(q[p]) \in 1..Len(q[p])
      BY <1>2, <1>4, <3>1 DEF At
    <3> QED BY <1>2, <3>2 DEF Last
  <2>2. Appended(L, p, i) = [L EXCEPT !.next = N, !.prev = P]
    BY <1>1, <1>4 DEF Appended
  <2>3. N \in Links /\ P \in Links
    BY <1>1, <2>1 DEF Links
  <2> HIDE DEF N, P
  <2> QED BY <1>1, <2>2, <2>3 DEF LinkRecords
<1> QED BY <1>3, <1>4

\* Adding an item at the end (add_item_to_array, through suffix_object) attaches
\* a root.
LEMMA AppendStep ==
  ASSUME NEW L, NEW ty, NEW q, Snapshot(L, ty, q), NEW p \in Item, NEW i \in Item, MayAdd(p, i),
         SetLinks(Appended(links, p, i)), UNCHANGED type
  PROVE  Arrives(ty, q)
<1>1. /\ Box(ty, p) /\ ty[p] # "free" /\ ty[i] # "free" /\ ~Placed(q, i)
      /\ p \notin Under(q, i) /\ i # p
  BY MayBeAdded
<1>2. /\ L \in LinkRecords /\ ty \in Types /\ q \in Kids
      /\ L.next = next /\ L.prev = prev /\ L.child = child /\ type = ty
      /\ L.next \in Links /\ L.prev \in Links /\ L.child \in Links
      /\ Children(p) = q[p] /\ links = L
      /\ Rep(L.next, L.prev, L.child, ty, q)
  <2>1. links = L
    BY DEF Snapshot
  <2> QED BY <1>1, <2>1, Seen
<1>3. q[p] \in Seq(Item) /\ Len(q[p]) \in Nat
  BY <1>2 DEF Kids
<1>4. PICK t \in Seq(Item) : PutIn(q[p], Len(q[p]), i, t)
  <2>1. Len(q[p]) \in 0..Len(q[p])
    BY <1>3
  <2> QED BY <1>3, <2>1, PutInExists
<1>5. /\ Appended(L, p, i) \in LinkRecords
      /\ Appended(L, p, i).child[i] = L.child[i]
  BY <1>1, AppendedLinks
<1>6. links' = Appended(L, p, i)
  BY <1>2, <1>5 DEF SetLinks, links, LinkRecords
<1> DEFINE L2 == Appended(L, p, i)
<1>7. L2.child[i] = NULL \/ ty[L2.child[i]] # "free"
  BY <1>2, <1>5 DEF Rep, Tidy
<1>8. Adds(ty, ty, i)
  BY <1>1 DEF Adds
<1>9. Shape(L, ty, q)
  BY DEF Snapshot
<1>10. PICK M : M = Appended(L, p, i)
  OBVIOUS
<1>11. Shape(M, ty, [q EXCEPT ![p] = t])
  <2>1. /\ M.next = Appended(L, p, i).next /\ M.prev = Appended(L, p, i).prev
        /\ \A x \in Item \ {i} : M.child[x] = Appended(L, p, i).child[x]
    BY <1>10
  <2>2. M \in LinkRecords /\ M.child[i] = L.child[i] /\ (M.child[i] = NULL \/ ty[M.child[i]] # "free")
    BY <1>5, <1>7, <1>10
  <2> QED BY <1>1, <1>2, <1>4, <1>8, <1>9, <2>1, <2>2, AppendedShape
<1>12. Attaches(ty, q, ty, [q EXCEPT ![p] = t])
  <2>1. Len(q[p]) \in 0..Len(q[p])
    BY <1>3
  <2> QED BY <1>1, <1>4, <2>1 DEF Attaches
<1>13. type' = ty /\ links' = M
  BY <1>2, <1>6, <1>10
<1> QED BY <1>11, <1>12, <1>13 DEF Arrives, Moves

-----------------------------------------------------------------------------
(* One lemma per operation: the call makes a move of the forest, and the links *)
(* represent what has come of it.                                              *)

\* The links after a call, when it sets all three of them.
LEMMA NewLinks ==
  ASSUME NEW M \in LinkRecords, SetLinks(M)
  PROVE  links' = M
  BY DEF SetLinks, links, LinkRecords

\* cJSON_InsertItemInArray attaches a root before a child.
LEMMA InsertStep ==
  ASSUME NEW L, NEW ty, NEW q, Snapshot(L, ty, q), NEW p \in Item, NEW i \in Item, MayAdd(p, i),
         NEW k \in 0..(Len(q[p]) - 1),
         SetLinks(Inserted(links, p, q[p][k + 1], i)), UNCHANGED type
  PROVE  Arrives(ty, q)
<1>1. /\ Box(ty, p) /\ ty[p] # "free" /\ ty[i] # "free" /\ ~Placed(q, i)
      /\ p \notin Under(q, i) /\ i # p
  BY MayBeAdded
<1>2. q \in Kids /\ type = ty
  BY Seen
<1>3. q[p] \in Seq(Item) /\ Len(q[p]) \in Nat /\ k \in 0..Len(q[p])
  BY <1>2 DEF Kids
<1>4. PICK t \in Seq(Item) : PutIn(q[p], k, i, t)
  BY <1>3, PutInExists
<1>5. Shape(L, ty, q) /\ links = L
  BY DEF Snapshot
<1>6. PICK M : M = Inserted(L, p, q[p][k + 1], i)
  OBVIOUS
<1>7. Shape(M, ty, [q EXCEPT ![p] = t])
  BY <1>1, <1>4, <1>5, <1>6, InsertedShape
<1>8. Attaches(ty, q, ty, [q EXCEPT ![p] = t])
  BY <1>1, <1>3, <1>4 DEF Attaches
<1>9. type' = ty /\ links' = M
  <2>1. M \in LinkRecords /\ SetLinks(M)
    BY <1>5, <1>6, <1>7 DEF Shape
  <2> QED BY <1>2, <2>1, NewLinks
<1> QED BY <1>7, <1>8, <1>9 DEF Arrives, Moves

\* Detaching a child makes it a root.
LEMMA DetachStep ==
  ASSUME NEW L, NEW ty, NEW q, Snapshot(L, ty, q), NEW p \in Item, Box(ty, p),
         NEW k \in 1..Len(q[p]), Detach(p, q[p][k])
  PROVE  Arrives(ty, q)
<1>1. q \in Kids /\ type = ty
  BY Seen
<1>2. q[p] \in Seq(Item) /\ Len(q[p]) \in Nat
  BY <1>1 DEF Kids
<1>3. PICK t \in Seq(Item) : TakeOut(q[p], k, t)
  BY <1>2, TakeOutExists
<1>4. Shape(L, ty, q) /\ links = L
  BY DEF Snapshot
<1>5. PICK M : M = Detached(L, p, q[p][k])
  OBVIOUS
<1>6. Shape(M, ty, [q EXCEPT ![p] = t])
  BY <1>3, <1>4, <1>5, DetachedShape
<1>7. Detaches(ty, q, ty, [q EXCEPT ![p] = t])
  <2>1. ty[p] # "free"
    BY DEF Box
  <2> QED BY <1>3, <2>1 DEF Detaches
<1>8. type' = ty /\ links' = M
  <2>1. M \in LinkRecords
    BY <1>6 DEF Shape
  <2>2. SetLinks(M) /\ type' = type
    BY <1>4, <1>5 DEF Detach
  <2> QED BY <1>1, <2>1, <2>2, NewLinks
<1> QED BY <1>6, <1>7, <1>8 DEF Arrives, Moves

\* The items that are freed at the end of a call are the tree of i in what the
\* call made of the children before, mid.
LEMMA EndStep ==
  ASSUME NEW L, NEW ty, NEW q, Snapshot(L, ty, q), NEW M, NEW mid, Shape(M, ty, mid),
         NEW i \in Item, ~Placed(mid, i),
         \A g \in Item : ~Box(ty, g) => M.child[g] = L.child[g],
         EndsWithDelete(M, i, string)
  PROVE  /\ Shape(links', type', Emptied(Under(mid, i), mid))
         /\ type' = Freed(Under(mid, i), ty)
<1> DEFINE nx == M.next
           pv == M.prev
           ch == M.child
<1>1. /\ nx \in Links /\ pv \in Links /\ ch \in Links /\ ty \in Types /\ mid \in Kids
      /\ Rep(nx, pv, ch, ty, mid)
  BY DEF Shape, LinkRecords
<1>2. type = ty /\ child = L.child
  BY Seen
<1>3. PICK gone : gone = Gone(nx, ch, ty, i)
  OBVIOUS
<1>4. Deleted(M, i) = gone
  BY <1>2, <1>3 DEF Deleted, Gone, Goes
<1>5. gone = Under(mid, i)
  <2> HIDE DEF nx, pv, ch
  <2> QED BY <1>1, <1>3, GoneIsUnder
<1>6. \A r \in Item \ gone : ty[r] = "reference" => ch[r] \notin gone
  <2>1. NotReferenced(gone)
    BY <1>4 DEF EndsWithDelete
  <2> SUFFICES ASSUME NEW r \in Item \ gone, ty[r] = "reference" PROVE ch[r] \notin gone
    OBVIOUS
  <2>2. child[r] \notin gone
    BY <1>2, <2>1 DEF NotReferenced, OfType
  <2>3. ~Box(ty, r)
    BY DEF Box
  <2> QED BY <1>2, <2>2, <2>3
<1>7. Shape(ClearedLinks(gone, M), Freed(gone, ty), Emptied(gone, mid))
  BY <1>3, <1>6, DeletedShape
<1>8. type' = Freed(gone, ty) /\ SetLinks(ClearedLinks(gone, M))
  BY <1>2, <1>4 DEF EndsWithDelete, Freed, ClearedLinks, Cleared
<1>9. PICK N : N = ClearedLinks(gone, M)
  OBVIOUS
<1>10. N \in LinkRecords /\ SetLinks(N)
  BY <1>7, <1>8, <1>9 DEF Shape
<1>11. links' = N
  BY <1>10, NewLinks
<1> QED BY <1>5, <1>7, <1>8, <1>9, <1>11

\* cJSON_Delete frees the tree of a root.
LEMMA FreeStep ==
  ASSUME NEW L, NEW ty, NEW q, Snapshot(L, ty, q), NEW i \in Item, cJSON_Delete(i)
  PROVE  Arrives(ty, q)
<1>1. ty[i] # "free" /\ ~Placed(q, i)
  BY Seen DEF cJSON_Delete
<1>2. Shape(L, ty, q) /\ EndsWithDelete(L, i, string)
  BY DEF Snapshot, cJSON_Delete
<1>3. /\ Shape(links', type', Emptied(Under(q, i), q))
      /\ type' = Freed(Under(q, i), ty)
  BY <1>1, <1>2, EndStep
<1>4. Frees(ty, q, type', Emptied(Under(q, i), q))
  BY <1>1, <1>3 DEF Frees
<1> QED BY <1>3, <1>4 DEF Arrives, Moves

\* The k-th child of p is freed.
LEMMA FreeChildMove ==
  ASSUME NEW L, NEW ty, NEW q, Snapshot(L, ty, q), NEW p \in Item, Box(ty, p), NEW k \in 1..Len(q[p]),
         NEW t \in Seq(Item), Without(ty, q, p, k, t), NEW M, Shape(M, ty, [q EXCEPT ![p] = t]),
         ~Placed([q EXCEPT ![p] = t], q[p][k]),
         \A g \in Item : ~Box(ty, g) => M.child[g] = L.child[g],
         EndsWithDelete(M, q[p][k], string)
  PROVE  Arrives(ty, q)
<1> DEFINE i == q[p][k]
           mid == [q EXCEPT ![p] = t]
<1>1. /\ q \in Kids /\ Grounded(q) /\ ty[p] # "free"
      /\ \A x \in Item : Placed(q, x) => ty[x] # "free"
  BY Seen DEF Snapshot, Box
<1>2. i \in Item /\ Edge(q, p, i) /\ mid \in Kids /\ \A g \in Item \ {p} : mid[g] = q[g]
  BY <1>1 DEF Kids, Edge
<1>3. ty[i] # "free"
  BY <1>1, <1>2 DEF Placed
<1>4. /\ Shape(links', type', Emptied(Under(mid, i), mid))
      /\ type' = Freed(Under(mid, i), ty)
  <2>1. ~Placed(mid, i) /\ EndsWithDelete(M, i, string) /\ Shape(M, ty, mid)
    OBVIOUS
  <2> HIDE DEF i, mid
  <2> QED BY <1>2, <2>1, EndStep
<1>5. Under(mid, i) = Under(q, i) /\ p \notin Under(q, i)
  <2> HIDE DEF i, mid
  <2> QED BY <1>1, <1>2, UnderKept
<1>6. FreesChild(ty, q, type', Emptied(Under(q, i), mid))
  BY <1>1, <1>3, <1>4, <1>5 DEF FreesChild
<1> QED BY <1>4, <1>5, <1>6 DEF Arrives, Moves

\* Deleting a child detaches it and frees its tree.
LEMMA DeleteStep ==
  ASSUME NEW L, NEW ty, NEW q, Snapshot(L, ty, q), NEW p \in Item, Box(ty, p),
         NEW k \in 1..Len(q[p]), DeleteItem(p, q[p][k])
  PROVE  Arrives(ty, q)
<1>1. q \in Kids /\ Shape(L, ty, q) /\ links = L
  BY Seen DEF Snapshot
<1>2. q[p] \in Seq(Item) /\ Len(q[p]) \in Nat
  BY <1>1 DEF Kids
<1>3. PICK t \in Seq(Item) : TakeOut(q[p], k, t)
  BY <1>2, TakeOutExists
<1>4. PICK M : M = Detached(L, p, q[p][k])
  OBVIOUS
<1>5. /\ Shape(M, ty, [q EXCEPT ![p] = t])
      /\ ~Placed([q EXCEPT ![p] = t], q[p][k])
      /\ \A g \in Item : ~Box(ty, g) => M.child[g] = L.child[g]
  BY <1>1, <1>3, <1>4, DetachedShape
<1>6. EndsWithDelete(M, q[p][k], string)
  BY <1>1, <1>4 DEF DeleteItem
<1>7. Without(ty, q, p, k, t)
  BY <1>3 DEF Without
<1> QED BY <1>5, <1>6, <1>7, FreeChildMove

\* Replacing a child frees its tree, and a root takes its place.
LEMMA ReplaceStep ==
  ASSUME NEW L, NEW ty, NEW q, Snapshot(L, ty, q), NEW p \in Item,
         NEW k \in 1..Len(q[p]), NEW r \in Item, MayAdd(p, r), ReplaceBy(r, p, q[p][k])
  PROVE  Arrives(ty, q)
<1>1. q \in Kids /\ Shape(L, ty, q) /\ links = L
  BY Seen DEF Snapshot
<1>2. q[p] \in Seq(Item) /\ Len(q[p]) \in Nat /\ q[p][k] \in Item
  BY <1>1 DEF Kids
<1>3. Box(ty, p) /\ ty[r] # "free" /\ ~Placed(q, r) /\ p \notin Under(q, r)
  BY MayBeAdded
<1>4. PICK M : M = Replaced(L, p, q[p][k], r)
  OBVIOUS
<1>5. PICK t : t = [q[p] EXCEPT ![k] = r]
  OBVIOUS
<1>6. t \in Seq(Item)
  BY <1>2, <1>5
<1>7. /\ Shape(M, ty, [q EXCEPT ![p] = t])
      /\ ~Placed([q EXCEPT ![p] = t], q[p][k])
      /\ \A g \in Item : ~Box(ty, g) => M.child[g] = L.child[g]
  BY <1>1, <1>3, <1>4, <1>5, ReplacedShape
<1>8. EndsWithDelete(M, q[p][k], string)
  <2>1. q[p][k] # NULL
    BY <1>2, NullAssumption
  <2> QED BY <1>1, <1>4, <2>1 DEF ReplaceBy
<1>9. Without(ty, q, p, k, t)
  BY <1>3, <1>5 DEF Without
<1> QED BY <1>3, <1>6, <1>7, <1>8, <1>9, FreeChildMove

\* Adding a reference allocates it and attaches it.
LEMMA ReferenceStep ==
  ASSUME NEW L, NEW ty, NEW q, Snapshot(L, ty, q), NEW p \in Item, Box(ty, p), NEW i \in Item,
         NEW names, AddReference(p, names, i)
  PROVE  Arrives(ty, q)
<1>1. /\ q \in Kids /\ ty \in Types /\ Children(p) = q[p]
      /\ L.next \in Links /\ L.prev \in Links /\ L.child \in Links
      /\ L.child = child /\ type = ty
      /\ Rep(L.next, L.prev, L.child, ty, q)
      /\ \A x \in Item : ~Box(ty, x) => q[x] = <<>>
      /\ \A x \in Item : Placed(q, x) => ty[x] # "free"
  BY Seen
<1>2. Shape(L, ty, q) /\ links = L
  BY DEF Snapshot
<1>3. PICK i0 \in OfType("free") :
        /\ type' = [type EXCEPT ![i0] = "reference"]
        /\ SetLinks([Appended(links, p, i0) EXCEPT !.child[i0] = child[i]])
  BY DEF AddReference
<1>4. i0 \in Item /\ ty[i0] = "free" /\ i0 # p /\ ~Placed(q, i0) /\ q[i0] = <<>> /\ ty[p] # "free"
  BY <1>1, <1>3 DEF OfType, Box
<1>5. PICK M : M = [Appended(L, p, i0) EXCEPT !.child[i0] = L.child[i]]
  OBVIOUS
<1>6. PICK ty2 : ty2 = [ty EXCEPT ![i0] = "reference"]
  OBVIOUS
<1>7. q[p] \in Seq(Item) /\ Len(q[p]) \in Nat /\ Len(q[p]) \in 0..Len(q[p])
  BY <1>1 DEF Kids
<1>8. PICK t \in Seq(Item) : PutIn(q[p], Len(q[p]), i0, t)
  BY <1>4, <1>7, PutInExists
<1>9. Appended(L, p, i0) \in LinkRecords
  BY <1>4, AppendedLinks
<1>10. /\ M.next = Appended(L, p, i0).next /\ M.prev = Appended(L, p, i0).prev
       /\ M \in LinkRecords
       /\ \A x \in Item \ {i0} : M.child[x] = Appended(L, p, i0).child[x]
       /\ M.child[i0] = L.child[i]
  <2> DEFINE A == Appended(L, p, i0)
  <2> HIDE DEF A
  <2>1. A \in LinkRecords /\ M = [A EXCEPT !.child = [A.child EXCEPT ![i0] = L.child[i]]]
    BY <1>5, <1>9 DEF A
  <2>2. A.child \in Links /\ L.child[i] \in Item \cup {NULL}
    BY <1>1, <2>1 DEF LinkRecords, Links
  <2>3. [A.child EXCEPT ![i0] = L.child[i]] \in Links
    BY <2>2 DEF Links
  <2>4. /\ M \in LinkRecords /\ M.next = A.next /\ M.prev = A.prev
        /\ M.child = [A.child EXCEPT ![i0] = L.child[i]]
    BY <2>1, <2>3 DEF LinkRecords
  <2>5. \A x \in Item : M.child[x] = IF x = i0 THEN L.child[i] ELSE A.child[x]
    BY <2>2, <2>4 DEF Links
  <2> QED BY <1>4, <2>1, <2>4, <2>5 DEF A
<1>11. ty2 \in Types /\ Adds(ty, ty2, i0) /\ ~Box(ty, i0)
  <2>1. ty2 \in Types /\ \A x \in Item : ty2[x] = IF x = i0 THEN "reference" ELSE ty[x]
    BY <1>1, <1>6 DEF Types
  <2> QED BY <1>4, <2>1 DEF Adds, Box
<1>12. M.child[i0] = NULL \/ ty2[M.child[i0]] # "free"
  <2>1. L.child[i] = NULL \/ ty[L.child[i]] # "free"
    BY <1>1 DEF Rep, Tidy
  <2>2. L.child[i] = NULL \/ L.child[i] \in Item
    BY <1>1 DEF Links
  <2> QED BY <1>4, <1>10, <1>11, <2>1, <2>2 DEF Adds
<1>13. Shape(M, ty2, [q EXCEPT ![p] = t])
  BY <1>1, <1>2, <1>4, <1>8, <1>10, <1>11, <1>12, AppendedShape
<1>14. AttachesNew(ty, q, ty2, [q EXCEPT ![p] = t])
  BY <1>4, <1>6, <1>8 DEF AttachesNew
<1>15. type' = ty2 /\ links' = M
  <2>1. SetLinks(M)
    BY <1>1, <1>2, <1>3, <1>5
  <2> QED BY <1>1, <1>3, <1>6, <1>10, <2>1, NewLinks
<1> QED BY <1>13, <1>14, <1>15 DEF Arrives, Moves

\* Creating an item builds a tree of that item alone.
LEMMA CreateStep ==
  ASSUME NEW L, NEW ty, NEW q, Snapshot(L, ty, q), NEW i \in Item, NEW t \in {"array", "object"},
         Create(i, t)
  PROVE  Arrives(ty, q)
<1>1. /\ q \in Kids /\ ty \in Types /\ L \in LinkRecords /\ type = ty
      /\ L.next \in Links /\ L.prev \in Links /\ L.child \in Links
      /\ Rep(L.next, L.prev, L.child, ty, q)
      /\ \A x \in Item : ~Box(ty, x) => q[x] = <<>>
      /\ \A x \in Item : Placed(q, x) => ty[x] # "free"
      /\ links = L
  <2>1. links = L
    BY DEF Snapshot
  <2> QED BY <2>1, Seen
<1>2. PICK ty2 : ty2 = [ty EXCEPT ![i] = t]
  OBVIOUS
<1>3. type' = ty2 /\ links' = L /\ ty[i] = "free"
  BY <1>1, <1>2 DEF Create, links
<1>4. ty2 \in Types /\ \A x \in Item : ty2[x] = IF x = i THEN t ELSE ty[x]
  BY <1>1, <1>2 DEF Types
<1>5. ~Placed(q, i) /\ q[i] = <<>> /\ L.child[i] = NULL
  BY <1>1, <1>3 DEF Rep, Tidy, Box
<1>6. Shape(L, ty2, q)
  <2> DEFINE nx == L.next
             pv == L.prev
             ch == L.child
  <2>1. nx \in Links /\ pv \in Links /\ ch \in Links /\ Rep(nx, pv, ch, ty, q) /\ ch[i] = NULL
    BY <1>1, <1>5
  <2> HIDE DEF nx, pv, ch
  <2>2. Len(<<>>) = 0 /\ At(<<>>, 1) = NULL
    BY DEF At
  <2>3. Lists(nx, pv, ch, ty2, q)
    <3> SUFFICES ASSUME NEW p \in Item
                 PROVE  IF Box(ty2, p) THEN ch[p] = At(q[p], 1) /\ Siblings(nx, pv, q[p])
                        ELSE q[p] = <<>>
      BY DEF Lists
    <3>1. CASE p = i
      <4>1. Siblings(nx, pv, <<>>)
        BY <2>2 DEF Siblings
      <4> QED BY <1>4, <1>5, <2>1, <2>2, <3>1, <4>1 DEF Box
    <3>2. CASE p # i
      BY <1>4, <2>1, <3>2 DEF Rep, Lists, Box
    <3> QED BY <3>1, <3>2
  <2>4. Tidy(nx, pv, ch, ty2, q)
    <3>1. \A x \in Item : ty2[x] = "free" => ty[x] = "free"
      BY <1>4
    <3>2. \A x \in Item : ch[x] # NULL => ty2[ch[x]] # "free"
      <4> SUFFICES ASSUME NEW x \in Item, ch[x] # NULL PROVE ty2[ch[x]] # "free"
        OBVIOUS
      <4>1. ch[x] \in Item /\ ty[ch[x]] # "free"
        BY <2>1 DEF Rep, Tidy, Links
      <4> QED BY <1>4, <4>1
    <3> QED BY <2>1, <3>1, <3>2 DEF Rep, Tidy
  <2>5. Rep(nx, pv, ch, ty2, q)
    BY <2>1, <2>3, <2>4 DEF Rep
  <2> QED BY <1>1, <1>4, <2>5 DEF Shape, nx, pv, ch
<1>7. Builds(ty, q, ty2, q)
  <2>1. \A x \in Item : ~Edge(q, i, x)
    BY <1>5 DEF Edge
  <2>2. Sprouts(q, {i}, i)
    BY <2>1 DEF Sprouts
  <2>3. {i} \in SUBSET Item /\ \A x \in Item \ {i} : ty2[x] = ty[x] /\ q[x] = q[x]
    BY <1>4
  <2>4. \A b \in {i} : ty[b] = "free" /\ ty2[b] # "free" /\ ~Placed(q, b)
    BY <1>3, <1>4, <1>5
  <2> QED BY <2>2, <2>3, <2>4 DEF Builds
<1> QED BY <1>3, <1>6, <1>7 DEF Arrives, Moves

\* d is a child of e.
Sub(K, e, d) == \E k \in 1..Len(K[e]) : K[e][k] = d
\* The nodes D are a single tree, with the root top.
Sprouting(D, K, top) ==
  /\ top \in D
  /\ \A d \in D : ~Sub(K, d, top)
  /\ \A d \in D : d = top \/ \E e \in D : Sub(K, e, d)
  /\ \A S \in SUBSET D : S # {} => \E d \in S : \A e \in S : ~Sub(K, e, d)

\* The links of the nodes lead to nodes.
LEMMA GrownLinks ==
  ASSUME NEW tree, NEW D, NEW K, Grown(tree, D, K)
  PROVE  \A d \in D : /\ tree.next[d] \in D \cup {NULL} /\ tree.prev[d] \in D \cup {NULL}
                      /\ tree.child[d] \in D \cup {NULL}
<1>1. \A d \in D : K[d] \in Seq(D) /\ \A k : At(K[d], k) \in D \cup {NULL}
  <2> SUFFICES ASSUME NEW d \in D PROVE K[d] \in Seq(D) /\ \A k : At(K[d], k) \in D \cup {NULL}
    OBVIOUS
  <2>1. K[d] \in Seq(D)
    BY DEF Grown
  <2> QED BY <2>1 DEF At
<1> SUFFICES ASSUME NEW d \in D
             PROVE  /\ tree.next[d] \in D \cup {NULL} /\ tree.prev[d] \in D \cup {NULL}
                    /\ tree.child[d] \in D \cup {NULL}
  OBVIOUS
<1>2. tree.child[d] \in D \cup {NULL}
  <2>1. tree.child[d] = At(K[d], 1)
    BY DEF Grown
  <2> QED BY <1>1, <2>1
<1>3. CASE tree.next[d] = NULL /\ tree.prev[d] = NULL
  BY <1>2, <1>3
<1>4. CASE \E e \in D : \E k \in 1..Len(K[e]) : K[e][k] = d
  <2>1. PICK e \in D : \E k \in 1..Len(K[e]) : K[e][k] = d
    BY <1>4
  <2>2. PICK k \in 1..Len(K[e]) : K[e][k] = d
    BY <2>1
  <2>3. tree.next[d] = At(K[e], k + 1) /\ tree.prev[d] = At(K[e], k - 1)
    BY <2>2 DEF Grown
  <2>4. At(K[e], k + 1) \in D \cup {NULL} /\ At(K[e], k - 1) \in D \cup {NULL}
    BY <1>1
  <2> QED BY <1>2, <2>3, <2>4
<1> QED BY <1>3, <1>4 DEF Grown

\* The children of the blocks B, in which the nodes D are.
Filled(q, K, B, at, bl) ==
  [b \in Item |-> IF b \in B THEN [k \in 1..Len(K[at[b]]) |-> bl[K[at[b]][k]]] ELSE q[b]]

\* The blocks are a tree as the nodes are.
LEMMA FilledSprouts ==
  ASSUME NEW q, NEW D, NEW K, \A d \in D : K[d] \in Seq(D), NEW top, Sprouting(D, K, top),
         NEW B \in SUBSET Item, NEW at \in [B -> D], NEW bl,
         \A b \in B : bl[at[b]] = b, \A d \in D : bl[d] \in B /\ at[bl[d]] = d
  PROVE  Sprouts(Filled(q, K, B, at, bl), B, bl[top])
<1> DEFINE r == Filled(q, K, B, at, bl)
<1>1. \A g \in B : \A x \in Item : Edge(r, g, x) <=> \E d \in D : Sub(K, at[g], d) /\ bl[d] = x
  <2> SUFFICES ASSUME NEW g \in B, NEW x \in Item
               PROVE  Edge(r, g, x) <=> \E d \in D : Sub(K, at[g], d) /\ bl[d] = x
    OBVIOUS
  <2> DEFINE n == Len(K[at[g]])
             e(k) == bl[K[at[g]][k]]
  <2>1. at[g] \in D /\ K[at[g]] \in Seq(D) /\ n \in Nat
    OBVIOUS
  <2>2. r[g] = [k \in 1..n |-> e(k)]
    BY DEF Filled
  <2>3. DOMAIN r[g] = 1..n
    <3> HIDE DEF r, n, e
    <3> QED BY <2>2
  <2>4. Len(r[g]) = n
    <3> HIDE DEF r, n, e
    <3> QED BY <2>1, <2>2
  <2>5. \A k \in 1..n : r[g][k] = e(k)
    <3> HIDE DEF r, n, e
    <3> QED BY <2>2
  <2>6. Edge(r, g, x) <=> \E k \in 1..n : e(k) = x
    <3> HIDE DEF r, n, e
    <3> QED BY <2>4, <2>5 DEF Edge
  <2>7. \A k \in 1..n : K[at[g]][k] \in D
    BY <2>1
  <2> QED BY <2>6, <2>7 DEF Sub
<1> HIDE DEF r
<1>2. \A g, x \in B : Edge(r, g, x) <=> Sub(K, at[g], at[x])
  <2> SUFFICES ASSUME NEW g \in B, NEW x \in B PROVE Edge(r, g, x) <=> Sub(K, at[g], at[x])
    OBVIOUS
  <2>1. x \in Item /\ at[x] \in D /\ bl[at[x]] = x
    OBVIOUS
  <2> QED BY <1>1, <2>1
<1>3. top \in D /\ bl[top] \in B /\ at[bl[top]] = top
  BY DEF Sprouting
<1>4. \A g \in B : \A x \in Item : Edge(r, g, x) => x \in B /\ x # bl[top]
  <2> SUFFICES ASSUME NEW g \in B, NEW x \in Item, Edge(r, g, x) PROVE x \in B /\ x # bl[top]
    OBVIOUS
  <2>1. PICK d \in D : Sub(K, at[g], d) /\ bl[d] = x
    BY <1>1
  <2>2. at[x] = d /\ x \in B
    BY <2>1
  <2>3. d # top
    BY <2>1 DEF Sprouting
  <2> QED BY <1>3, <2>2, <2>3
<1>5. \A x \in B : x # bl[top] => \E g \in B : Edge(r, g, x)
  <2> SUFFICES ASSUME NEW x \in B, x # bl[top] PROVE \E g \in B : Edge(r, g, x)
    OBVIOUS
  <2>1. at[x] \in D /\ at[x] # top
    OBVIOUS
  <2>2. PICK e \in D : Sub(K, e, at[x])
    BY <2>1 DEF Sprouting
  <2>3. bl[e] \in B /\ at[bl[e]] = e
    OBVIOUS
  <2> QED BY <1>2, <2>2, <2>3
<1>6. ASSUME NEW S \in SUBSET B, S # {} PROVE \E x \in S : \A g \in S : ~Edge(r, g, x)
  <2> DEFINE T == {at[b] : b \in S}
  <2>1. T \in SUBSET D /\ T # {}
    BY <1>6
  <2>2. PICK d \in T : \A e \in T : ~Sub(K, e, d)
    <3> HIDE DEF T
    <3> QED BY <2>1 DEF Sprouting
  <2>3. PICK x \in S : at[x] = d
    OBVIOUS
  <2>4. \A g \in S : ~Sub(K, at[g], at[x])
    BY <2>2, <2>3
  <2> QED BY <1>2, <2>3, <2>4
<1> QED BY <1>3, <1>4, <1>5, <1>6 DEF Sprouts, r

\* A tree is built in free blocks.
LEMMA BuildStep ==
  ASSUME NEW L, NEW ty, NEW q, Snapshot(L, ty, q),
         NEW tree, NEW D, D = DOMAIN tree.type, NEW K, Grown(tree, D, K),
         NEW top, Sprouting(D, K, top), NEW rt, Build(tree, rt)
  PROVE  Arrives(ty, q)
<1>1. /\ q \in Kids /\ ty \in Types /\ L \in LinkRecords /\ type = ty
      /\ L.next \in Links /\ L.prev \in Links /\ L.child \in Links
      /\ L.next = next /\ L.prev = prev /\ L.child = child
      /\ Rep(L.next, L.prev, L.child, ty, q)
      /\ \A x \in Item : Placed(q, x) => ty[x] # "free"
  BY Seen
<1>2. PICK B \in SUBSET OfType("free") : \E at \in Bijection(B, D) : Built(B, at, tree)
  BY DEF Build, Holding
<1>3. PICK at \in Bijection(B, D) : Built(B, at, tree)
  BY <1>2
<1>4. /\ at \in [B -> D] /\ \A d \in D : \E b \in B : at[b] = d
      /\ \A a, b \in B : at[a] = at[b] => a = b
  BY DEF Bijection, Injection, Surjection, IsInjective
<1>5. B \in SUBSET Item /\ \A b \in B : ty[b] = "free"
  BY <1>1 DEF OfType
<1>6. PICK bl : bl = [x \in D \cup {NULL} |-> IF x = NULL THEN NULL ELSE CHOOSE b \in B : at[b] = x]
  OBVIOUS
<1>7. NULL \notin D /\ \A d \in D : K[d] \in Seq(D)
  BY DEF Grown
<1>8. /\ bl[NULL] = NULL
      /\ \A d \in D : bl[d] \in B /\ at[bl[d]] = d
      /\ \A b \in B : bl[at[b]] = b
      /\ \A d \in D : bl[d] = CHOOSE b \in B : at[b] = d
  <2>1. bl[NULL] = NULL
    BY <1>6
  <2>2. \A d \in D : bl[d] = CHOOSE b \in B : at[b] = d
    BY <1>6, <1>7
  <2>3. \A d \in D : bl[d] \in B /\ at[bl[d]] = d
    <3> SUFFICES ASSUME NEW d \in D PROVE bl[d] \in B /\ at[bl[d]] = d
      OBVIOUS
    <3>1. \E b \in B : at[b] = d
      BY <1>4
    <3> QED BY <2>2, <3>1
  <2>4. \A b \in B : bl[at[b]] = b
    BY <1>4, <2>3
  <2> QED BY <2>1, <2>2, <2>3, <2>4
<1>9. \A d \in D : /\ tree.next[d] \in D \cup {NULL} /\ tree.prev[d] \in D \cup {NULL}
                   /\ tree.child[d] \in D \cup {NULL}
  BY GrownLinks
<1>10. PICK nx2, pv2, ch2, ty2 :
         /\ nx2 = Over(L.next, tree.next, B, at, bl) /\ pv2 = Over(L.prev, tree.prev, B, at, bl)
         /\ ch2 = Over(L.child, tree.child, B, at, bl)
         /\ ty2 = [b \in Item |-> IF b \in B THEN tree.type[at[b]] ELSE ty[b]]
  OBVIOUS
<1>11. next' = nx2 /\ prev' = pv2 /\ child' = ch2 /\ type' = ty2
  <2> DEFINE block(x) == IF \E b \in B : at[b] = x THEN CHOOSE b \in B : at[b] = x ELSE NULL
             over(f, g) == [b \in Item |-> IF b \in B THEN block(g[at[b]]) ELSE f[b]]
  <2>1. /\ next' = over(next, tree.next) /\ prev' = over(prev, tree.prev)
        /\ child' = over(child, tree.child)
        /\ type' = [b \in Item |-> IF b \in B THEN tree.type[at[b]] ELSE type[b]]
    BY <1>3 DEF Built
  <2>2. \A x \in D \cup {NULL} : block(x) = bl[x]
    <3>1. ~ \E b \in B : at[b] = NULL
      BY <1>4, <1>7
    <3> QED BY <1>4, <1>8, <3>1
  <2> HIDE DEF block
  <2>3. \A b \in B : /\ block(tree.next[at[b]]) = bl[tree.next[at[b]]]
                     /\ block(tree.prev[at[b]]) = bl[tree.prev[at[b]]]
                     /\ block(tree.child[at[b]]) = bl[tree.child[at[b]]]
    BY <1>4, <1>9, <2>2
  <2>4. over(next, tree.next) = nx2
    BY <1>1, <1>10, <2>3 DEF Over
  <2>5. over(prev, tree.prev) = pv2
    BY <1>1, <1>10, <2>3 DEF Over
  <2>6. over(child, tree.child) = ch2
    BY <1>1, <1>10, <2>3 DEF Over
  <2> QED BY <1>1, <1>10, <2>1, <2>4, <2>5, <2>6
<1>12. \A b \in Item : ty2[b] = IF b \in B THEN tree.type[at[b]] ELSE ty[b]
  BY <1>10
<1>13. BuiltRep(ty, B, at, bl, D, ty2, tree)
  BY <1>4, <1>5, <1>8, <1>12 DEF BuiltRep
<1>14. PICK r : r = Filled(q, K, B, at, bl)
  OBVIOUS
<1>15. Rep(nx2, pv2, ch2, ty2, r) /\ nx2 \in Links /\ pv2 \in Links /\ ch2 \in Links /\ r \in Kids
  <2> DEFINE nx == L.next
             pv == L.prev
             ch == L.child
  <2>1. nx \in Links /\ pv \in Links /\ ch \in Links /\ Rep(nx, pv, ch, ty, q)
    BY <1>1
  <2>2. /\ nx2 = Over(nx, tree.next, B, at, bl) /\ pv2 = Over(pv, tree.prev, B, at, bl)
        /\ ch2 = Over(ch, tree.child, B, at, bl)
    BY <1>10
  <2>3. r = [b \in Item |-> IF b \in B THEN [k \in 1..Len(K[at[b]]) |-> bl[K[at[b]][k]]]
                                    ELSE q[b]]
    BY <1>14 DEF Filled
  <2> HIDE DEF nx, pv, ch
  <2> QED BY <1>1, <1>13, <2>1, <2>2, <2>3, BuildRep
<1>16. ty2 \in Types
  <2>1. \A d \in D : tree.type[d] \in {"array", "object"}
    BY DEF Grown
  <2> QED BY <1>1, <1>4, <1>5, <1>10, <2>1 DEF Types
<1>17. PICK M : M = [next |-> nx2, prev |-> pv2, child |-> ch2]
  OBVIOUS
<1>18. Shape(M, ty2, r)
  BY <1>15, <1>16, <1>17 DEF Shape, LinkRecords
<1>19. links' = M
  BY <1>11, <1>17 DEF links
<1>20. Builds(ty, q, ty2, r)
  <2>1. Sprouts(r, B, bl[top])
    BY <1>4, <1>5, <1>7, <1>8, <1>14, FilledSprouts
  <2>2. \A b \in B : ty[b] = "free" /\ ty2[b] # "free" /\ ~Placed(q, b)
    <3> SUFFICES ASSUME NEW b \in B PROVE ty[b] = "free" /\ ty2[b] # "free" /\ ~Placed(q, b)
      OBVIOUS
    <3>1. at[b] \in D /\ b \in Item
      BY <1>4, <1>5
    <3>2. tree.type[at[b]] \in {"array", "object"}
      BY <3>1 DEF Grown
    <3> QED BY <1>1, <1>5, <1>12, <3>1, <3>2
  <2>3. \A x \in Item \ B : ty2[x] = ty[x] /\ r[x] = q[x]
    BY <1>12, <1>14 DEF Filled
  <2>4. bl[top] \in Item
    BY <2>1 DEF Sprouts
  <2> QED BY <1>5, <2>1, <2>2, <2>3, <2>4 DEF Builds
<1> QED BY <1>11, <1>18, <1>19, <1>20 DEF Arrives, Moves

\* The copy of i and what is below it is one tree.
LEMMA DeepSprouting ==
  ASSUME NEW ty, NEW C \in [Item -> Seq(Item)], NEW i \in Item, NEW D, Descent(ty, C, i, D)
  PROVE  Sprouting(D, KidsOf(C, D), <<i>>)
<1> DEFINE K == KidsOf(C, D)
<1>1. D \subseteq Ways /\ <<i>> \in D
  BY DEF Descent
<1>2. \A s \in D : s \in Seq(Item) /\ Len(s) \in Nat /\ Len(s) # 0 /\ End(s) \in Item
  <2> SUFFICES ASSUME NEW s \in D PROVE s \in Seq(Item) /\ Len(s) \in Nat /\ Len(s) # 0 /\ End(s) \in Item
    OBVIOUS
  <2>1. s \in Seq(Item) /\ Len(s) # 0
    BY <1>1 DEF Ways
  <2>2. Len(s) \in 1..Len(s)
    BY <2>1
  <2> QED BY <2>1, <2>2 DEF End
<1>3. \A e, d \in D : Sub(K, e, d) <=> \E k \in 1..Len(C[End(e)]) : d = Append(e, C[End(e)][k])
  <2> SUFFICES ASSUME NEW e \in D, NEW d \in D
               PROVE  Sub(K, e, d) <=> \E k \in 1..Len(C[End(e)]) : d = Append(e, C[End(e)][k])
    OBVIOUS
  <2> DEFINE n == Len(C[End(e)])
             f(k) == Append(e, C[End(e)][k])
  <2>1. n \in Nat /\ K[e] = [k \in 1..n |-> f(k)]
    BY <1>2 DEF KidsOf
  <2>2. Len(K[e]) = n /\ \A k \in 1..n : K[e][k] = f(k)
    <3> HIDE DEF K, n, f
    <3> QED BY <2>1
  <2> HIDE DEF K
  <2> QED BY <2>2 DEF Sub
<1> HIDE DEF K
<1>4. \A e, d \in D : Sub(K, e, d) => Len(d) = Len(e) + 1
  <2> SUFFICES ASSUME NEW e \in D, NEW d \in D, Sub(K, e, d) PROVE Len(d) = Len(e) + 1
    OBVIOUS
  <2>1. PICK k \in 1..Len(C[End(e)]) : d = Append(e, C[End(e)][k])
    BY <1>3
  <2>2. C[End(e)] \in Seq(Item)
    BY <1>2
  <2>3. C[End(e)][k] \in Item
    BY <2>2
  <2> QED BY <1>2, <2>1, <2>3
<1>5. \A d \in D : ~Sub(K, d, <<i>>)
  <2> SUFFICES ASSUME NEW d \in D, Sub(K, d, <<i>>) PROVE FALSE
    OBVIOUS
  <2> DEFINE o == <<i>>
  <2>1. Len(o) = 1
    OBVIOUS
  <2>2. o \in D /\ Sub(K, d, o)
    BY <1>1
  <2> HIDE DEF o
  <2>3. 1 = Len(d) + 1 /\ Len(d) \in Nat /\ Len(d) # 0
    BY <1>2, <1>4, <2>1, <2>2
  <2> QED BY <2>3
<1>6. \A d \in D : d = <<i>> \/ \E e \in D : Sub(K, e, d)
  <2> SUFFICES ASSUME NEW d \in D, d # <<i>> PROVE \E e \in D : Sub(K, e, d)
    OBVIOUS
  <2>1. PICK u \in D : \E k \in 1..Len(C[End(u)]) : d = Append(u, C[End(u)][k])
    BY DEF Descent
  <2> QED BY <1>3, <2>1
<1>7. ASSUME NEW S \in SUBSET D, S # {} PROVE \E d \in S : \A e \in S : ~Sub(K, e, d)
  <2> DEFINE T == {Len(s) : s \in S}
  <2>1. T \in SUBSET Nat /\ T # {}
    BY <1>2, <1>7
  <2>2. PICK m \in T : \A n \in T : ~(n < m)
    <3> HIDE DEF T
    <3> QED BY <2>1, LeastElement
  <2>3. PICK d \in S : Len(d) = m
    OBVIOUS
  <2>4. \A e \in S : ~Sub(K, e, d)
    <3> SUFFICES ASSUME NEW e \in S, Sub(K, e, d) PROVE FALSE
      OBVIOUS
    <3>1. Len(d) = Len(e) + 1 /\ Len(e) \in Nat
      BY <1>2, <1>4
    <3>2. Len(e) \in T
      OBVIOUS
    <3>3. Len(e) < m
      BY <2>3, <3>1
    <3> QED BY <2>2, <3>2, <3>3
  <2> QED BY <2>4
<1> QED BY <1>1, <1>5, <1>6, <1>7 DEF Sprouting, K

\* An item without what is below it is a tree.
LEMMA ShallowSprouting ==
  ASSUME NEW i
  PROVE  Sprouting({<<i>>}, [s \in {<<i>>} |-> <<>>], <<i>>)
<1>1. Len(<<>>) = 0
  OBVIOUS
<1>2. \A d, e : ~Sub([s \in {<<i>>} |-> <<>>], <<i>>, d)
  BY <1>1 DEF Sub
<1> QED BY <1>2 DEF Sprouting

\* The array with its numbers or strings is a tree.
LEMMA ArraySprouting ==
  ASSUME NEW count \in Nat
  PROVE  Sprouting(0..count, ArrayKids(count), 0)
<1> DEFINE K == ArrayKids(count)
<1>1. \A e, d \in 0..count : Sub(K, e, d) <=> e = 0 /\ d # 0
  <2> SUFFICES ASSUME NEW e \in 0..count, NEW d \in 0..count
               PROVE  Sub(K, e, d) <=> e = 0 /\ d # 0
    OBVIOUS
  <2>1. CASE e = 0
    <3>1. K[e] = [k \in 1..count |-> k]
      BY <2>1 DEF ArrayKids
    <3>2. Len(K[e]) = count /\ \A k \in 1..count : K[e][k] = k
      BY <3>1
    <3> QED BY <2>1, <3>2 DEF Sub
  <2>2. CASE e # 0
    <3>1. K[e] = <<>>
      BY <2>2 DEF ArrayKids
    <3>2. Len(K[e]) = 0
      BY <3>1
    <3> QED BY <2>2, <3>2 DEF Sub
  <2> QED BY <2>1, <2>2
<1> HIDE DEF K
<1>2. 0 \in 0..count
  OBVIOUS
<1>3. ASSUME NEW S \in SUBSET (0..count), S # {} PROVE \E d \in S : \A e \in S : ~Sub(K, e, d)
  <2>1. CASE 0 \in S
    <3>1. \A e \in S : ~Sub(K, e, 0)
      BY <1>1, <1>2
    <3> QED BY <2>1, <3>1
  <2>2. CASE 0 \notin S
    <3>1. PICK d \in S : TRUE
      BY <1>3
    <3>2. \A e \in S : ~Sub(K, e, d)
      BY <1>1, <2>2
    <3> QED BY <3>2
  <2> QED BY <2>1, <2>2
<1> QED BY <1>1, <1>2, <1>3 DEF Sprouting, K

\* cJSON_Duplicate builds the copy of a tree.
LEMMA DuplicateStep ==
  ASSUME NEW L, NEW ty, NEW q, Snapshot(L, ty, q), NEW i \in Item, NEW recurse \in BOOLEAN,
         i \in Allocated, kind \in [Item -> {"array", "object"}],
         ~Endless(Paths(i, recurse)), Build(CopyOf(Paths(i, recurse), recurse), <<i>>)
  PROVE  Arrives(ty, q)
<1>1. /\ q \in Kids /\ ty \in Types /\ L \in LinkRecords /\ type = ty
      /\ L.next \in Links /\ L.prev \in Links /\ L.child \in Links
      /\ L.next = next /\ L.prev = prev /\ L.child = child
      /\ Rep(L.next, L.prev, L.child, ty, q)
      /\ i \in Allocated <=> ty[i] # "free"
  BY Seen
<1>2. ty[i] # "free"
  BY <1>1
<1>4. PICK D : D = Paths(i, recurse)
  OBVIOUS
<1>5. PICK tree : tree = CopyOf(D, recurse)
  OBVIOUS
<1>6. Build(tree, <<i>>)
  BY <1>4, <1>5
<1>7. D = DOMAIN tree.type
  BY <1>5 DEF CopyOf
<1>8. CASE recurse = TRUE
  <2> DEFINE nx == L.next
             pv == L.prev
             ch == L.child
             C == [x \in Item |-> Along(nx, ch[x])]
  <2>1. /\ nx \in Links /\ pv \in Links /\ ch \in Links /\ Rep(nx, pv, ch, ty, q)
        /\ nx = next /\ pv = prev /\ ch = child
    BY <1>1
  <2>2. \A x \in Item : Children(x) = C[x]
    BY <2>1 DEF Children
  <2> HIDE DEF nx, pv, ch
  <2>3. C \in [Item -> Seq(Item)]
    <3>1. \A x \in Item : ch[x] \in Item \cup {NULL}
      BY <2>1 DEF Links
    <3> QED BY <2>1, <3>1, AlongType
  <2>4. Below(nx, pv, ch, ty, C)
    BY <1>1, <2>1, BelowIs
  <2> HIDE DEF C
  <2>5. Descent(ty, C, i, D)
    <3>1. ~Endless(Paths(i, TRUE)) /\ D = Paths(i, TRUE)
      BY <1>4, <1>8
    <3>2. Descent(ty, C, i, Paths(i, TRUE))
      BY <1>1, <1>2, <2>1, <2>2, <2>3, <2>4, <3>1, PathsDescend
    <3> QED BY <3>1, <3>2
  <2>6. Grown(tree, D, KidsOf(C, D))
    <3>1. Grown(CopyOf(D, TRUE), D, KidsOf(C, D))
      BY <1>1, <2>1, <2>3, <2>4, <2>5, DeepCopy
    <3> QED BY <1>5, <1>8, <3>1
  <2>7. Sprouting(D, KidsOf(C, D), <<i>>)
    BY <2>3, <2>5, DeepSprouting
  <2> QED BY <1>6, <1>7, <2>6, <2>7, BuildStep
<1>9. CASE recurse = FALSE
  <2>1. D = {<<i>>}
    BY <1>4, <1>9 DEF Paths
  <2>2. Grown(tree, D, [s \in {<<i>>} |-> <<>>])
    <3>1. Grown(CopyOf({<<i>>}, FALSE), {<<i>>}, [s \in {<<i>>} |-> <<>>])
      BY <1>1, <1>2, ShallowCopy
    <3> QED BY <1>5, <1>9, <2>1, <3>1
  <2>3. Sprouting(D, [s \in {<<i>>} |-> <<>>], <<i>>)
    BY <2>1, ShallowSprouting
  <2> QED BY <1>6, <1>7, <2>2, <2>3, BuildStep
<1> QED BY <1>8, <1>9

\* The cJSON_Create*Array functions build an array of items.
LEMMA ArrayStep ==
  ASSUME NEW L, NEW ty, NEW q, Snapshot(L, ty, q), NEW count \in Nat, Build(ArrayOf(count), 0)
  PROVE  Arrives(ty, q)
<1>1. PICK tree : tree = ArrayOf(count)
  OBVIOUS
<1>2. Build(tree, 0)
  BY <1>1
<1>3. 0..count = DOMAIN tree.type
  BY <1>1 DEF ArrayOf
<1>4. Grown(tree, 0..count, ArrayKids(count))
  BY <1>1, ArrayGrown
<1>5. Sprouting(0..count, ArrayKids(count), 0)
  BY ArraySprouting
<1> QED BY <1>2, <1>3, <1>4, <1>5, BuildStep

-----------------------------------------------------------------------------
(* Calls that fail half way: what has been made by then is released again.     *)

Strings == [Item -> Name \cup {NULL}]

\* What TypeOK says of the other variables.
StringOK ==
  /\ string \in Strings /\ kind \in [Item -> {"array", "object"}]
  /\ held \in SUBSET Item /\ fault \in BOOLEAN

\* Each set of the nodes made with no call under way has one that a node outside
\* the set leads to.
Hanging(tree, made, open) ==
  \A T \in SUBSET (made \ open) :
    T # {} => \E s \in T : \E y \in made \ T : tree.next[y] = s \/ tree.child[y] = s

\* Every node made is released with one of the calls under way.
AllReleased(tree, made, open) == made \subseteq UNION {Released(tree, made, open, x) : x \in open}

\* The nodes that are made when a call fails are then all released.
LEMMA ReleasedAll ==
  ASSUME NEW tree, NEW made, IsFiniteSet(made), Cardinality(made) <= Cardinality(Item) + 1,
         NULL \notin made, NEW open \in SUBSET made, Hanging(tree, made, open)
  PROVE  AllReleased(tree, made, open)
<1> DEFINE step == [y \in made |-> ({tree.next[y]} \cap (made \ open))
                                    \cup ({tree.child[y]} \cap (made \ open))]
           below(x) == Closure(x, step)
           all == UNION {below(x) : x \in open}
<1>1. step \in [made -> SUBSET (made \cup {NULL})]
  OBVIOUS
<1>2. \A y \in made : \A z \in made \ open :
        tree.next[y] = z \/ tree.child[y] = z => z \in step[y]
  OBVIOUS
<1>3. \A x : Released(tree, made, open, x) = below(x)
  BY DEF Released
<1> HIDE DEF step
<1>4. \A x \in open : /\ below(x) \in SUBSET made /\ x \in below(x)
                      /\ \A y \in below(x) : step[y] \subseteq below(x) \cup {NULL}
  BY <1>1, ClosureIn
<1> HIDE DEF below
<1>5. \A z : z \in all <=> \E x \in open : z \in below(x)
  BY Zenon
<1>6. all = UNION {Released(tree, made, open, x) : x \in open}
  BY <1>3
<1> HIDE DEF all
<1>7. made \ all = {}
  <2> SUFFICES ASSUME made \ all # {} PROVE FALSE
    OBVIOUS
  <2>1. made \ all \in SUBSET (made \ open)
    BY <1>4, <1>5
  <2>2. PICK s \in made \ all : \E y \in made \ (made \ all) : tree.next[y] = s \/ tree.child[y] = s
    BY <2>1 DEF Hanging
  <2>3. PICK y \in made : y \in all /\ (tree.next[y] = s \/ tree.child[y] = s)
    BY <2>2
  <2>4. PICK x \in open : y \in below(x)
    BY <1>5, <2>3
  <2>5. s \in step[y]
    BY <1>2, <2>1, <2>3
  <2>6. s \in below(x)
    BY <1>4, <2>4, <2>5
  <2> QED BY <1>5, <2>6
<1> QED BY <1>6, <1>7 DEF AllReleased

\* Of a call that releases what it has made, nothing is left.
LEMMA NothingMade ==
  ASSUME NEW L, NEW ty, NEW q, Snapshot(L, ty, q), StringOK, NEW tree, NEW made, NEW open,
         AllReleased(tree, made, open), Fails(tree, made, open)
  PROVE  UNCHANGED vars
<1>1. made \ UNION {Released(tree, made, open, x) : x \in open} = {}
  BY DEF AllReleased
<1>2. Holding(tree, {}, NULL)
  BY <1>1 DEF Fails
<1>3. PICK B \in SUBSET OfType("free") :
        /\ Cardinality(B) = Cardinality({})
        /\ \E at \in Bijection(B, {}) : Built(B, at, tree) /\ held' = held \cup {b \in B : at[b] = NULL}
  BY <1>2 DEF Holding
<1>4. PICK at \in Bijection(B, {}) : Built(B, at, tree) /\ held' = held \cup {b \in B : at[b] = NULL}
  BY <1>3
<1>5. B = {}
  <2>1. at \in [B -> {}]
    BY DEF Bijection, Injection
  <2> QED BY <2>1
<1>6. /\ type \in Types /\ next \in Links /\ prev \in Links /\ child \in Links
  BY Seen
<1>7. /\ type' = [b \in Item |-> type[b]] /\ next' = [b \in Item |-> next[b]]
      /\ prev' = [b \in Item |-> prev[b]] /\ child' = [b \in Item |-> child[b]]
      /\ string' = [b \in Item |-> string[b]] /\ UNCHANGED <<kind, fault>>
  BY <1>4, <1>5 DEF Built
<1>8. held' = held
  BY <1>4, <1>5
<1> QED BY <1>6, <1>7, <1>8 DEF vars, Types, Links, StringOK, Strings

\* There are so many free blocks.
LEMMA FreeCount == Cardinality(OfType("free")) \in Nat
<1>1. OfType("free") \in SUBSET Item
  BY DEF OfType
<1> QED BY <1>1, ItemAssumption, FS_Subset, FS_CardinalityType

\* There are no more nodes made than blocks, but for the one that finds no memory.
LEMMA MadeFits ==
  ASSUME NEW made, IsFiniteSet(made), OutOfMemory(made)
  PROVE  Cardinality(made) <= Cardinality(Item) + 1
<1>1. OfType("free") \in SUBSET Item
  BY DEF OfType
<1>2. /\ Cardinality(OfType("free")) \in Nat /\ Cardinality(Item) \in Nat /\ Cardinality(made) \in Nat
      /\ Cardinality(OfType("free")) <= Cardinality(Item)
  BY <1>1, ItemAssumption, FS_Subset, FS_CardinalityType
<1>3. Cardinality(made) - Cardinality(OfType("free")) \in {0, 1}
  BY DEF OutOfMemory
<1> QED BY <1>2, <1>3

\* An array that is not completed leaves nothing behind.
LEMMA ArrayFails ==
  ASSUME NEW L, NEW ty, NEW q, Snapshot(L, ty, q), StringOK, NEW count \in Nat, NEW k \in 0..count,
         Fails(ArrayOf(count), 0..k, {0, k})
  PROVE  UNCHANGED vars
<1> DEFINE tree == ArrayOf(count)
           made == 0..k
           open == {0, k}
<1>1. IsFiniteSet(made) /\ OutOfMemory(made)
  BY FS_Interval DEF Fails
<1>2. NULL \notin made /\ open \in SUBSET made
  BY NodeAssumption
<1>3. ASSUME NEW T \in SUBSET (made \ open), T # {}
      PROVE  \E s \in T : \E y \in made \ T : tree.next[y] = s \/ tree.child[y] = s
  <2>1. \A s \in T : s \in Nat /\ s # 0 /\ s < k
    OBVIOUS
  <2>2. PICK s \in T : \A n \in T : ~(n < s)
    BY <1>3, <2>1, LeastElement
  <2>3. s - 1 \in made /\ s - 1 \notin T /\ s - 1 \in 0..count /\ s - 1 < count /\ (s - 1) + 1 = s /\ s \in Nat
    BY <2>1, <2>2
  <2>4. CASE s = 1
    BY <2>1, <2>3, <2>4 DEF ArrayOf
  <2>5. CASE s # 1
    <3>1. s - 1 \notin {0, count}
      BY <2>1, <2>3, <2>5
    <3>2. tree.next[s - 1] = s
      BY <2>3, <3>1 DEF ArrayOf
    <3> QED BY <2>3, <3>2
  <2> QED BY <2>4, <2>5
<1>h. Hanging(tree, made, open)
  BY <1>3 DEF Hanging
<1> HIDE DEF tree, made, open
<1>4. AllReleased(tree, made, open)
  <2>1. Cardinality(made) <= Cardinality(Item) + 1
    BY <1>1, <1>2, MadeFits, Zenon
  <2> QED BY <1>1, <1>2, <1>h, <2>1, ReleasedAll, Zenon
<1>5. Fails(tree, made, open)
  BY DEF tree, made, open
<1> QED BY <1>4, <1>5, NothingMade

\* The ways in S start at i; with one of them S has the shorter ones and those that
\* lead to a sibling of its end.
Spread(C, i, S) ==
  /\ S \subseteq Ways /\ IsFiniteSet(S)
  /\ \A s \in S : s = <<i>> \/ \E u \in S : \E k \in 1..Len(C[End(u)]) : s = Append(u, C[End(u)][k])
  /\ \A u \in S : \A k, m \in 1..Len(C[End(u)]) :
       Append(u, C[End(u)][k]) \in S => Append(u, C[End(u)][m]) \in S

\* Paths spreads, even when it would go on without end.
LEMMA PathsSpread ==
  ASSUME NEW C \in [Item -> Seq(Item)], \A x \in Item : Children(x) = C[x], NEW i \in Item
  PROVE  Spread(C, i, Paths(i, TRUE))
<1> DEFINE N == Cardinality(Item)
           S == Paths(i, TRUE)
<1>1. PICK w \in [Nat -> SUBSET Ways] :
           /\ w[0] = {<<i>>}
           /\ \A n \in Nat : Further(C, w[n], w[n + 1])
           /\ S = UNION {w[n] : n \in 0..N}
  BY PathSets
<1>2. N \in Nat
  BY ItemAssumption, FS_CardinalityType
<1> HIDE DEF S, N
<1>3. \A s : s \in S <=> \E n \in 0..N : s \in w[n]
  BY <1>1, Zenon
<1>4. \A n \in Nat : \A z \in w[n + 1] : \E s \in w[n] : \E k \in 1..Len(C[End(s)]) :
        z = Append(s, C[End(s)][k]) /\ C[End(s)][k] \in Item /\ s \in Ways
  <2> TAKE n \in Nat
  <2> TAKE z \in w[n + 1]
  <2>0. Further(C, w[n], w[n + 1])
    BY <1>1, Zenon
  <2>1. PICK s \in w[n] : \E k \in 1..Len(C[End(s)]) : z = Append(s, C[End(s)][k])
    BY <2>0, Zenon DEF Further
  <2>2. PICK k \in 1..Len(C[End(s)]) : z = Append(s, C[End(s)][k])
    BY <2>1
  <2>3. s \in Ways
    BY <1>1
  <2>4. End(s) \in Item
    BY <2>3, WayEnd
  <2>5. C[End(s)] \in Seq(Item)
    BY <2>4
  <2>6. C[End(s)][k] \in Item
    BY <2>5
  <2> QED BY <2>2, <2>3, <2>6
<1>5. \A n \in Nat : IsFiniteSet(w[n]) /\ \A s \in w[n] : Len(s) = n + 1
  <2> DEFINE T == {n \in Nat : IsFiniteSet(w[n]) /\ \A s \in w[n] : Len(s) = n + 1}
  <2>1. 0 \in T
    <3>1. IsFiniteSet(w[0])
      BY <1>1, FS_Singleton
    <3> DEFINE o == <<i>>
    <3>2. Len(o) = 0 + 1 /\ w[0] = {o}
      BY <1>1
    <3> HIDE DEF o
    <3> QED BY <3>1, <3>2
  <2>2. ASSUME NEW n \in T PROVE n + 1 \in T
    <3>1. n \in Nat /\ n + 1 \in Nat /\ IsFiniteSet(w[n]) /\ \A s \in w[n] : Len(s) = n + 1
      OBVIOUS
    <3> DEFINE X == w[n] \X Item
               f == [x \in X |-> Append(x[1], x[2])]
               Y == {f[x] : x \in X}
    <3>2. IsFiniteSet(X)
      BY <3>1, ItemAssumption, FS_Product
    <3>3. IsFiniteSet(Y)
      <4> HIDE DEF X, f
      <4>1. f \in [X -> Y]
        BY DEF f
      <4>2. f \in Surjection(X, Y)
        BY <4>1 DEF Surjection
      <4> HIDE DEF Y
      <4> QED BY <3>2, <4>2, FS_Surjection
    <3>4. w[n + 1] \in SUBSET Y
      <4> SUFFICES ASSUME NEW z \in w[n + 1] PROVE z \in Y
        OBVIOUS
      <4>1. PICK s \in w[n] : \E k \in 1..Len(C[End(s)]) :
              z = Append(s, C[End(s)][k]) /\ C[End(s)][k] \in Item /\ s \in Ways
        BY <1>4, <3>1
      <4>2. PICK x \in Item : z = Append(s, x)
        BY <4>1
      <4>3. <<s, x>> \in X /\ f[<<s, x>>] = z
        BY <4>2
      <4> HIDE DEF X, f
      <4> QED BY <4>3
    <3>5. IsFiniteSet(w[n + 1])
      <4> HIDE DEF Y
      <4> QED BY <3>3, <3>4, FS_Subset
    <3>6. ASSUME NEW z \in w[n + 1] PROVE Len(z) = (n + 1) + 1
      <4>1. PICK s \in w[n] : \E k \in 1..Len(C[End(s)]) :
              z = Append(s, C[End(s)][k]) /\ C[End(s)][k] \in Item /\ s \in Ways
        BY <1>4, <3>1
      <4>2. PICK x \in Item : z = Append(s, x) /\ s \in Ways
        BY <4>1
      <4>3. Len(z) = Len(s) + 1
        BY <4>2, AppendWay
      <4> QED BY <3>1, <4>3
    <3> QED BY <3>1, <3>5, <3>6
  <2> HIDE DEF T
  <2>3. T = Nat
    BY <2>1, <2>2, AllNumbers DEF T
  <2> QED BY <2>3 DEF T
<1>6. S \subseteq Ways
  BY <1>1, <1>2, <1>3
<1>7. IsFiniteSet(S)
  <2> DEFINE F == {w[n] : n \in 0..N}
  <2>1. IsFiniteSet(0..N)
    BY <1>2, FS_Interval
  <2>2. IsFiniteSet(F)
    <3> DEFINE f == [n \in 0..N |-> w[n]]
    <3>1. f \in [0..N -> F] /\ \A y \in F : \E n \in 0..N : f[n] = y
      OBVIOUS
    <3> HIDE DEF f, F
    <3>2. f \in Surjection(0..N, F)
      BY <3>1 DEF Surjection
    <3> QED BY <2>1, <3>2, FS_Surjection
  <2>3. \A X \in F : IsFiniteSet(X)
    BY <1>2, <1>5
  <2>4. S = UNION F
    BY <1>1
  <2> HIDE DEF F
  <2> QED BY <2>2, <2>3, <2>4, FS_UNION
<1>8. ASSUME NEW s \in S, s # <<i>>
      PROVE  \E u \in S : \E k \in 1..Len(C[End(u)]) : s = Append(u, C[End(u)][k])
  <2>1. PICK n \in 0..N : s \in w[n]
    BY <1>3
  <2>2. n \in Nat /\ n # 0
    BY <1>1, <1>2, <1>8, <2>1
  <2>3. PICK m \in Nat : m + 1 = n
    <3>1. n - 1 \in Nat /\ (n - 1) + 1 = n
      BY <2>2
    <3> QED BY <3>1
  <2>4. m \in 0..N
    BY <1>2, <2>3
  <2>5. PICK u \in w[m] : \E k \in 1..Len(C[End(u)]) : s = Append(u, C[End(u)][k])
    BY <1>4, <2>1, <2>3
  <2> QED BY <1>3, <2>4, <2>5
<1>9. ASSUME NEW u \in S, NEW k \in 1..Len(C[End(u)]), NEW m \in 1..Len(C[End(u)]),
             Append(u, C[End(u)][k]) \in S
      PROVE  Append(u, C[End(u)][m]) \in S
  <2>1. u \in Ways
    BY <1>6
  <2>2. C[End(u)] \in Seq(Item)
    BY <2>1, WayEnd
  <2>3. PICK x \in Item : x = C[End(u)][k]
    BY <2>2
  <2>4. PICK a \in 0..N : u \in w[a]
    BY <1>3
  <2>5. PICK b \in 0..N : Append(u, x) \in w[b]
    BY <1>3, <1>9, <2>3
  <2>6. a \in Nat /\ b \in Nat /\ Len(u) = a + 1 /\ Len(Append(u, x)) = b + 1
    <3>1. a \in Nat /\ b \in Nat
      BY <1>2
    <3> QED BY <1>5, <2>4, <2>5, <3>1, Zenon
  <2>7. Len(Append(u, x)) = Len(u) + 1
    BY <2>1, AppendWay
  <2>8. a + 1 = b
    BY <2>6, <2>7
  <2>9. Append(u, C[End(u)][m]) \in w[b]
    BY <1>1, <2>4, <2>6, <2>8 DEF Further
  <2> QED BY <1>3, <2>9
<1> QED BY <1>6, <1>7, <1>8, <1>9 DEF Spread, S

\* The beginnings of a way that goes on.
LEMMA AppendStart ==
  ASSUME NEW u \in Ways, NEW x \in Item, NEW n \in 1..Len(u)
  PROVE  /\ SubSeq(Append(u, x), 1, n) = SubSeq(u, 1, n)
         /\ Append(u, x)[n + 1] = IF n < Len(u) THEN u[n + 1] ELSE x
<1> DEFINE a == Append(u, x)
<1>1. u \in Seq(Item) /\ Len(u) \in Nat /\ n \in Nat /\ 1 <= n /\ n <= Len(u)
  BY DEF Ways
<1>2. a \in Seq(Item) /\ Len(a) = Len(u) + 1 /\ a[Len(u) + 1] = x /\ \A k \in 1..Len(u) : a[k] = u[k]
  BY <1>1, AppendProperties
<1> HIDE DEF a
<1>3. SubSeq(a, 1, n) = SubSeq(u, 1, n)
  <2> DEFINE c == SubSeq(a, 1, n)
             d == SubSeq(u, 1, n)
  <2>1. 1 <= n /\ n <= Len(a) /\ n - 1 + 1 = n
    BY <1>1, <1>2
  <2>2. c \in Seq(Item) /\ Len(c) = n /\ \A k \in 1..n : c[k] = a[k]
    BY <1>1, <1>2, <2>1, SubSeqProperties
  <2>3. d \in Seq(Item) /\ Len(d) = n /\ \A k \in 1..n : d[k] = u[k]
    BY <1>1, <2>1, SubSeqProperties
  <2>4. \A k \in 1..n : k \in 1..Len(u)
    BY <1>1
  <2> HIDE DEF c, d
  <2>5. c = d
    BY <1>2, <2>2, <2>3, <2>4, SeqEqual
  <2> QED BY <2>5 DEF c, d
<1>4. a[n + 1] = IF n < Len(u) THEN u[n + 1] ELSE x
  <2>1. CASE n < Len(u)
    <3>1. n + 1 \in 1..Len(u)
      BY <1>1, <2>1
    <3> QED BY <1>2, <2>1, <3>1
  <2>2. CASE ~(n < Len(u))
    <3>1. n = Len(u)
      BY <1>1, <2>2
    <3> QED BY <1>2, <2>2, <3>1
  <2> QED BY <2>1, <2>2
<1> QED BY <1>3, <1>4 DEF a

\* The beginning of a way.
LEMMA StartOfWay ==
  ASSUME NEW u \in Seq(Item), NEW n \in 1..Len(u)
  PROVE  /\ SubSeq(u, 1, n) \in Seq(Item) /\ Len(SubSeq(u, 1, n)) = n
         /\ \A a \in 1..n : SubSeq(u, 1, n)[a] = u[a]
<1>1. Len(u) \in Nat /\ n \in Int /\ 1 \in Int /\ 1 <= n /\ n <= Len(u) /\ n - 1 + 1 = n
  OBVIOUS
<1>2. \A k \in 1..n : u[k] \in Item /\ 1 + k - 1 = k
  BY <1>1
<1> QED BY <1>1, <1>2, SubSeqProperties

\* What comes before q: its earlier siblings, and with each way the one it goes on.
LEMMA BeforeKept ==
  ASSUME NEW C \in [Item -> Seq(Item)], \A x \in Item : Children(x) = C[x],
         \A x \in Item : \A k, m \in 1..Len(C[x]) : C[x][k] = C[x][m] => k = m,
         NEW q \in Ways, NEW u \in Ways, NEW k \in 1..Len(C[End(u)]),
         Before(Append(u, C[End(u)][k]), q)
  PROVE  /\ u \in OnTheWay(q) \/ Before(u, q)
         /\ k # 1 => Before(Append(u, C[End(u)][k - 1]), q)
<1> DEFINE c == C[End(u)]
           s == Append(u, c[k])
<1>1. End(u) \in Item /\ u \in Seq(Item) /\ Len(u) \in Nat /\ Len(u) # 0
  BY WayEnd DEF Ways
<1>2. c \in Seq(Item) /\ Len(c) \in Nat /\ k \in 1..Len(c) /\ DOMAIN c = 1..Len(c)
  BY <1>1
<1>3. q \in Seq(Item) /\ Len(q) \in Nat
  BY DEF Ways
<1>4. PICK n \in 1..(Len(q) - 1) :
        /\ n < Len(s) /\ SubSeq(s, 1, n) = SubSeq(q, 1, n)
        /\ \E j, m \in DOMAIN Children(q[n]) :
             j < m /\ Children(q[n])[j] = s[n + 1] /\ Children(q[n])[m] = q[n + 1]
  BY DEF Before
<1>5. n \in Nat /\ n \in 1..Len(q) /\ q[n] \in Item
  BY <1>3
<1>6. PICK j, m \in DOMAIN C[q[n]] : j < m /\ C[q[n]][j] = s[n + 1] /\ C[q[n]][m] = q[n + 1]
  BY <1>4, <1>5
<1>7. Len(s) = Len(u) + 1 /\ c[k] \in Item
  BY <1>1, <1>2, AppendWay
<1>8. n <= Len(u) /\ n \in 1..Len(u)
  BY <1>1, <1>4, <1>5, <1>7
<1>9. ASSUME NEW x \in Item
      PROVE  /\ SubSeq(Append(u, x), 1, n) = SubSeq(u, 1, n) /\ n < Len(Append(u, x))
             /\ Append(u, x)[n + 1] = IF n < Len(u) THEN u[n + 1] ELSE x
  <2>1. Len(Append(u, x)) = Len(u) + 1
    BY AppendWay
  <2>2. n < Len(Append(u, x))
    BY <1>1, <1>5, <1>8, <2>1
  <2>3. /\ SubSeq(Append(u, x), 1, n) = SubSeq(u, 1, n)
        /\ Append(u, x)[n + 1] = IF n < Len(u) THEN u[n + 1] ELSE x
    BY <1>8, AppendStart, Zenon
  <2> QED BY <2>2, <2>3, Zenon
<1>10. SubSeq(u, 1, n) = SubSeq(q, 1, n)
  BY <1>4, <1>7, <1>9
<1> DEFINE Early(z) == \E a, b \in DOMAIN C[q[n]] : a < b /\ C[q[n]][a] = z[n + 1] /\ C[q[n]][b] = q[n + 1]
<1>11. ASSUME NEW z, n < Len(z), SubSeq(z, 1, n) = SubSeq(q, 1, n), Early(z)
       PROVE  Before(z, q)
  <2>1. Children(q[n]) = C[q[n]]
    BY <1>5
  <2>2. \E a, b \in DOMAIN Children(q[n]) :
          a < b /\ Children(q[n])[a] = z[n + 1] /\ Children(q[n])[b] = q[n + 1]
    BY <1>11, <2>1, Zenon
  <2> HIDE DEF Early
  <2> QED BY <1>11, <2>2, Zenon DEF Before
<1>12. CASE n < Len(u)
  <2>1. s[n + 1] = u[n + 1]
    BY <1>7, <1>9, <1>12
  <2>2. Early(u)
    BY <1>6, <2>1
  <2>3. Before(u, q)
    <3> HIDE DEF Early
    <3> QED BY <1>10, <1>11, <1>12, <2>2
  <2>4. ASSUME k # 1 PROVE Before(Append(u, c[k - 1]), q)
    <3>1. c[k - 1] \in Item
      <4>1. k - 1 \in 1..Len(c)
        BY <1>2, <2>4
      <4> QED BY <1>2, <4>1
    <3> DEFINE y == Append(u, c[k - 1])
    <3>2. y[n + 1] = u[n + 1] /\ SubSeq(y, 1, n) = SubSeq(u, 1, n) /\ n < Len(y)
      BY <1>9, <1>12, <3>1
    <3> HIDE DEF y
    <3>3. Early(y)
      BY <2>2, <3>2
    <3> HIDE DEF Early
    <3>4. Before(y, q)
      BY <1>10, <1>11, <3>2, <3>3
    <3> QED BY <3>4 DEF y
  <2> QED BY <2>3, <2>4
<1>13. CASE ~(n < Len(u))
  <2>1. n = Len(u)
    BY <1>1, <1>5, <1>8, <1>13
  <2>2. SubSeq(u, 1, n) = u
    <3>1. SubSeq(u, 1, n) \in Seq(Item) /\ Len(SubSeq(u, 1, n)) = n /\ \A a \in 1..n : SubSeq(u, 1, n)[a] = u[a]
      BY <1>1, <1>8, StartOfWay, Zenon
    <3> QED BY <1>1, <2>1, <3>1, SeqEqual
  <2>3. u = SubSeq(q, 1, n) /\ u \in OnTheWay(q)
    <3>1. u = SubSeq(q, 1, n)
      BY <1>10, <2>2, Zenon
    <3> QED BY <1>5, <3>1, Zenon DEF OnTheWay
  <2>4. q[n] = End(u)
    <3>1. \A a \in 1..n : SubSeq(q, 1, n)[a] = q[a]
      BY <1>3, <1>5, StartOfWay, Zenon
    <3>2. n \in 1..n
      BY <1>5, <1>8
    <3>3. u[n] = q[n]
      BY <2>3, <3>1, <3>2
    <3> QED BY <2>1, <3>3 DEF End
  <2>5. ASSUME k # 1 PROVE Before(Append(u, c[k - 1]), q)
    <3>1. s[n + 1] = c[k]
      BY <1>7, <1>9, <1>13
    <3>2. C[q[n]] = c
      BY <2>4
    <3>3. \A a, b \in 1..Len(c) : c[a] = c[b] => a = b
      BY <1>1
    <3> HIDE DEF c, s
    <3>4. j \in 1..Len(c) /\ m \in 1..Len(c) /\ c[j] = c[k] /\ j < m /\ c[m] = q[n + 1]
      BY <1>2, <1>6, <3>1, <3>2
    <3>5. j = k
      BY <1>2, <3>3, <3>4
    <3>6. k - 1 \in 1..Len(c) /\ k - 1 < m
      <4>1. k < m /\ m \in 1..Len(c)
        BY <3>4, <3>5, Zenon
      <4>2. k \in Nat /\ m \in Nat /\ Len(c) \in Nat /\ 1 <= k /\ k <= Len(c)
        BY <1>2, <4>1
      <4> QED BY <2>5, <4>1, <4>2
    <3>7. c[k - 1] \in Item
      BY <1>2, <3>6
    <3> DEFINE y == Append(u, c[k - 1])
    <3>8. y[n + 1] = c[k - 1] /\ SubSeq(y, 1, n) = SubSeq(u, 1, n) /\ n < Len(y)
      BY <1>9, <1>13, <3>7
    <3> HIDE DEF y
    <3>9. Early(y)
      BY <1>2, <3>2, <3>4, <3>6, <3>8
    <3> HIDE DEF Early
    <3>10. Before(y, q)
      BY <1>10, <1>11, <3>8, <3>9
    <3> QED BY <3>10 DEF y
  <2> QED BY <2>3, <2>5
<1> QED BY <1>12, <1>13

\* The links of the present state.
Now(nx, ch) == nx = next /\ ch = child

\* The link of the copies in S that leads to child k of the copy u.
Leads(C, S, u, k) ==
  /\ k = 1 => CopyOf(S, TRUE).child[u] = Append(u, C[End(u)][k])
  /\ k # 1 /\ Append(u, C[End(u)][k - 1]) \in S
       => CopyOf(S, TRUE).next[Append(u, C[End(u)][k - 1])] = Append(u, C[End(u)][k])

\* The links of a copy lead from a way to those to the children of its end.
LEMMA CopyLinks ==
  ASSUME NEW nx \in Links, NEW pv \in Links, NEW ch \in Links, NEW ty \in Types,
         Now(nx, ch),
         NEW C \in [Item -> Seq(Item)], Below(nx, pv, ch, ty, C),
         NEW S \in SUBSET Ways, NEW u \in S, NEW k \in 1..Len(C[End(u)])
  PROVE  Leads(C, S, u, k)
<1> DEFINE c == C[End(u)]
           tree == CopyOf(S, TRUE)
<1>1. End(u) \in Item /\ u \in Ways /\ Len(u) \in Nat /\ Len(u) # 0
  BY WayEnd DEF Ways
<1>2. c \in Seq(Item) /\ Len(c) \in Nat /\ k \in 1..Len(c)
  BY <1>1
<1>3. ch[End(u)] = At(c, 1) /\ \A m \in 1..Len(c) : c[m] \in Item /\ c[m] # NULL /\ nx[c[m]] = At(c, m + 1)
  <2>1. ch[End(u)] = At(c, 1) /\ \A m \in 1..Len(c) : nx[c[m]] = At(c, m + 1)
    BY <1>1 DEF Below, Runs
  <2>2. \A m \in 1..Len(c) : c[m] \in Item
    BY <1>2
  <2> QED BY <2>1, <2>2, NullAssumption
<1>4. tree.child[u] = IF ch[End(u)] = NULL THEN NULL ELSE Append(u, ch[End(u)])
  BY DEF CopyOf, Last, End, Now
<1>5. \A y \in S : tree.next[y] = IF Len(y) = 1 \/ nx[End(y)] = NULL THEN NULL
                                  ELSE Append(Front(y), nx[End(y)])
  BY DEF CopyOf, Last, End, Now
<1> HIDE DEF c, tree
<1>6. ASSUME k = 1 PROVE tree.child[u] = Append(u, c[k])
  BY <1>2, <1>3, <1>4, <1>6 DEF At
<1>7. ASSUME k # 1, Append(u, c[k - 1]) \in S PROVE tree.next[Append(u, c[k - 1])] = Append(u, c[k])
  <2>1. k - 1 \in 1..Len(c) /\ (k - 1) + 1 = k
    BY <1>2, <1>7
  <2>2. nx[c[k - 1]] = c[k] /\ c[k] # NULL /\ c[k - 1] \in Item
    BY <1>2, <1>3, <2>1 DEF At
  <2> DEFINE y == Append(u, c[k - 1])
  <2>3. Len(y) = Len(u) + 1 /\ End(y) = c[k - 1] /\ Front(y) = u
    BY <1>1, <2>2, AppendWay
  <2>4. y \in S
    BY <1>7
  <2> HIDE DEF y
  <2>5. tree.next[y] = Append(u, c[k])
    <3>1. Len(y) # 1
      BY <1>1, <2>3
    <3>2. nx[End(y)] = c[k] /\ nx[End(y)] # NULL
      BY <2>2, <2>3, Zenon
    <3> QED BY <1>5, <2>3, <2>4, <3>1, <3>2, Zenon
  <2> QED BY <2>5 DEF y
<1> QED BY <1>6, <1>7 DEF c, tree, Leads

\* The ways made when the copying fails at q can all be reached from those under way.
LEMMA CopyReached ==
  ASSUME NEW nx \in Links, NEW pv \in Links, NEW ch \in Links, NEW ty \in Types,
         Now(nx, ch),
         NEW C \in [Item -> Seq(Item)], \A x \in Item : Children(x) = C[x], Below(nx, pv, ch, ty, C),
         NEW i \in Item, NEW S, Spread(C, i, S), NEW q \in S
  PROVE  Hanging(CopyOf(S, TRUE), CopiedBy(S, q), OnTheWay(q))
<1> SUFFICES ASSUME NEW T \in SUBSET (CopiedBy(S, q) \ OnTheWay(q)), T # {}
             PROVE  \E s \in T : \E y \in CopiedBy(S, q) \ T :
                      CopyOf(S, TRUE).next[y] = s \/ CopyOf(S, TRUE).child[y] = s
  BY DEF Hanging
<1>1. /\ S \in SUBSET Ways /\ q \in Ways
      /\ \A s \in S : s = <<i>> \/ \E u \in S : \E k \in 1..Len(C[End(u)]) : s = Append(u, C[End(u)][k])
      /\ \A u \in S : \A k, m \in 1..Len(C[End(u)]) :
           Append(u, C[End(u)][k]) \in S => Append(u, C[End(u)][m]) \in S
  BY DEF Spread
<1>2. \A s \in T : s \in S /\ Before(s, q) /\ s \in Ways /\ Len(s) \in Nat
  BY <1>1 DEF CopiedBy, Ways
<1>3. \A x \in Item : \A k, m \in 1..Len(C[x]) : C[x][k] = C[x][m] => k = m
  BY DEF Below, Runs
<1>4. \A s \in T : s # <<i>>
  <2> SUFFICES ASSUME <<i>> \in T PROVE FALSE
    OBVIOUS
  <2>1. PICK o : o = <<i>>
    OBVIOUS
  <2>2. Len(o) = 1
    BY <2>1
  <2>3. PICK n \in 1..(Len(q) - 1) : n < Len(o)
    BY <1>2, <2>1 DEF Before
  <2>4. Len(q) \in Nat
    BY <1>1 DEF Ways
  <2> QED BY <2>2, <2>3, <2>4
<1> DEFINE sizes == {Len(s) : s \in T}
<1>5. sizes \in SUBSET Nat /\ sizes # {}
  BY <1>2
<1>6. PICK size \in sizes : \A n \in sizes : ~(n < size)
  <2> HIDE DEF sizes
  <2> QED BY <1>5, LeastElement
<1> DEFINE places == {k \in Nat : \E u \in S : /\ k \in 1..Len(C[End(u)])
                                               /\ Append(u, C[End(u)][k]) \in T
                                               /\ Len(Append(u, C[End(u)][k])) = size}
<1>7. \A u \in S : End(u) \in Item /\ C[End(u)] \in Seq(Item) /\ Len(C[End(u)]) \in Nat
  <2> TAKE u \in S
  <2>1. End(u) \in Item
    BY <1>1, WayEnd
  <2> QED BY <2>1
<1>8. places # {}
  <2>1. PICK s \in T : Len(s) = size
    OBVIOUS
  <2>2. PICK u \in S : \E k \in 1..Len(C[End(u)]) : s = Append(u, C[End(u)][k])
    BY <1>1, <1>2, <1>4, <2>1
  <2>3. PICK k \in 1..Len(C[End(u)]) : s = Append(u, C[End(u)][k])
    BY <2>2
  <2>4. k \in places
    BY <1>7, <2>1, <2>3
  <2> QED BY <2>4
<1>9. PICK k \in places : \A n \in places : ~(n < k)
  <2>1. places \in SUBSET Nat
    OBVIOUS
  <2> HIDE DEF places
  <2> QED BY <1>8, <2>1, LeastElement
<1>10. PICK u \in S : /\ k \in 1..Len(C[End(u)])
                      /\ Append(u, C[End(u)][k]) \in T
                      /\ Len(Append(u, C[End(u)][k])) = size
  OBVIOUS
<1> DEFINE c == C[End(u)]
           s == Append(u, c[k])
<1>11. u \in Ways /\ c \in Seq(Item) /\ Len(c) \in Nat /\ k \in 1..Len(c) /\ c[k] \in Item
  <2>1. c \in Seq(Item) /\ Len(c) \in Nat /\ k \in 1..Len(c)
    BY <1>7, <1>10
  <2> QED BY <1>1, <2>1
<1>12. s \in S /\ s \in T /\ Before(s, q) /\ Len(s) = size
  BY <1>2, <1>10
<1>13. /\ u \in OnTheWay(q) \/ Before(u, q)
       /\ k # 1 => Before(Append(u, c[k - 1]), q)
  BY <1>1, <1>3, <1>10, <1>11, <1>12, BeforeKept
<1>14. CASE k = 1
  <2>1. CopyOf(S, TRUE).child[u] = s
    <3>1. Leads(C, S, u, k)
      BY <1>1, <1>11, CopyLinks, Zenon
    <3> QED BY <1>14, <3>1, Zenon DEF Leads
  <2>2. u \in CopiedBy(S, q)
    BY <1>13 DEF CopiedBy
  <2>3. u \notin T
    <3>1. Len(s) = Len(u) + 1 /\ Len(u) \in Nat
      BY <1>11, AppendWay
    <3>2. Len(u) < size
      BY <1>12, <3>1
    <3> QED BY <1>6, <3>2
  <2> QED BY <1>12, <2>1, <2>2, <2>3
<1>15. CASE k # 1
  <2> DEFINE y == Append(u, c[k - 1])
  <2>1. k - 1 \in 1..Len(c) /\ k - 1 \in Nat /\ k - 1 < k
    BY <1>11, <1>15
  <2>2. c[k - 1] \in Item
    BY <1>11, <2>1
  <2>3. y \in S
    BY <1>1, <1>10, <1>12, <2>1
  <2>4. CopyOf(S, TRUE).next[y] = s
    <3>1. Leads(C, S, u, k)
      BY <1>1, <1>11, CopyLinks, Zenon
    <3> QED BY <1>15, <2>3, <3>1, Zenon DEF Leads
  <2>5. y \in CopiedBy(S, q)
    BY <1>13, <1>15, <2>3 DEF CopiedBy
  <2>6. y \notin T
    <3> SUFFICES ASSUME y \in T PROVE FALSE
      OBVIOUS
    <3>1. Len(y) = Len(u) + 1 /\ Len(s) = Len(u) + 1
      BY <1>11, <2>2, AppendWay
    <3>2. Len(y) = size
      BY <1>12, <3>1
    <3>3. k - 1 \in places
      BY <2>1, <3>2
    <3> QED BY <1>9, <2>1, <3>3
  <2> QED BY <1>12, <2>4, <2>5, <2>6
<1> QED BY <1>14, <1>15

\* A copy that is not completed leaves nothing behind.
LEMMA CopyFails ==
  ASSUME NEW L, NEW ty, NEW q, Snapshot(L, ty, q), StringOK, NEW i \in Item, NEW recurse \in BOOLEAN,
         NEW way \in Paths(i, recurse),
         Fails(CopyOf(Paths(i, recurse), recurse), CopiedBy(Paths(i, recurse), way), OnTheWay(way))
  PROVE  UNCHANGED vars
<1>1. PICK S : S = Paths(i, recurse)
  OBVIOUS
<1>2. PICK tree, made, open :
        tree = CopyOf(S, recurse) /\ made = CopiedBy(S, way) /\ open = OnTheWay(way)
  OBVIOUS
<1>3. way \in S /\ Fails(tree, made, open) /\ OutOfMemory(made) /\ open \in SUBSET made
  BY <1>1, <1>2 DEF Fails, CopiedBy
<1>4. /\ q \in Kids /\ ty \in Types
      /\ L.next \in Links /\ L.prev \in Links /\ L.child \in Links
      /\ L.next = next /\ L.prev = prev /\ L.child = child
      /\ Rep(L.next, L.prev, L.child, ty, q)
  BY Seen
<1>5. /\ S \in SUBSET Ways /\ IsFiniteSet(S)
      /\ Hanging(tree, made, open)
  <2>1. CASE recurse = TRUE
    <3> DEFINE nx == L.next
               pv == L.prev
               ch == L.child
               C == [x \in Item |-> Along(nx, ch[x])]
    <3>1. /\ nx \in Links /\ pv \in Links /\ ch \in Links /\ Rep(nx, pv, ch, ty, q)
          /\ nx = next /\ pv = prev /\ ch = child
      BY <1>4
    <3>2. \A x \in Item : Children(x) = C[x]
      BY <3>1 DEF Children
    <3> HIDE DEF nx, pv, ch
    <3>3. C \in [Item -> Seq(Item)]
      <4>1. \A x \in Item : ch[x] \in Item \cup {NULL}
        BY <3>1 DEF Links
      <4> QED BY <3>1, <4>1, AlongType
    <3>4. Below(nx, pv, ch, ty, C)
      BY <1>4, <3>1, BelowIs
    <3> HIDE DEF C
    <3>5. Spread(C, i, S)
      <4>1. Spread(C, i, Paths(i, TRUE))
        BY <3>2, <3>3, PathsSpread
      <4> QED BY <1>1, <2>1, <4>1
    <3>n. Now(nx, ch)
      BY <3>1 DEF Now
    <3>6. Hanging(CopyOf(S, TRUE), CopiedBy(S, way), OnTheWay(way))
      BY <1>3, <1>4, <3>1, <3>2, <3>3, <3>4, <3>5, <3>n, CopyReached, Zenon
    <3>7. Hanging(tree, made, open)
      BY <1>2, <2>1, <3>6
    <3> QED BY <3>5, <3>7 DEF Spread
  <2>2. CASE recurse = FALSE
    <3>1. PICK o : o = <<i>>
      OBVIOUS
    <3>2. o \in Ways /\ Len(o) = 1
      BY <3>1 DEF Ways
    <3>3. S = {o} /\ way = o
      BY <1>1, <1>3, <2>2, <3>1 DEF Paths
    <3>4. ~Before(o, way)
      BY <3>2, <3>3 DEF Before
    <3>5. made = open
      BY <1>2, <3>3, <3>4 DEF CopiedBy
    <3>6. Hanging(tree, made, open)
      BY <3>5 DEF Hanging
    <3> QED BY <3>2, <3>3, <3>6, FS_Singleton
  <2> QED BY <2>1, <2>2
<1>6. way \in Seq(Item) /\ Len(way) \in Nat
  BY <1>3, <1>5 DEF Ways
<1>7. IsFiniteSet(made) /\ NULL \notin made
  <2> DEFINE f == [n \in 1..Len(way) |-> SubSeq(way, 1, n)]
  <2>1. IsFiniteSet(1..Len(way))
    BY <1>6, FS_Interval
  <2>2. f \in [1..Len(way) -> open] /\ \A s \in open : \E n \in 1..Len(way) : f[n] = s
    BY <1>2 DEF OnTheWay
  <2> HIDE DEF f
  <2>3. f \in Surjection(1..Len(way), open)
    BY <2>2 DEF Surjection
  <2>4. IsFiniteSet(open)
    BY <2>1, <2>3, FS_Surjection
  <2>5. {s \in S : Before(s, way)} \in SUBSET S
    OBVIOUS
  <2>6. IsFiniteSet({s \in S : Before(s, way)})
    BY <1>5, <2>5, FS_Subset
  <2>7. IsFiniteSet(made)
    BY <1>2, <2>4, <2>6, FS_Union DEF CopiedBy
  <2>8. \A s \in open : s \in Seq(Item)
    <3> SUFFICES ASSUME NEW n \in 1..Len(way) PROVE SubSeq(way, 1, n) \in Seq(Item)
      BY <1>2 DEF OnTheWay
    <3> QED BY <1>6
  <2>9. \A s \in made : s \in Seq(Item)
    BY <1>2, <1>5, <2>8 DEF CopiedBy, Ways
  <2> QED BY <2>7, <2>9, NodeAssumption
<1>8. Cardinality(made) <= Cardinality(Item) + 1
  BY <1>3, <1>7, MadeFits
<1>9. AllReleased(tree, made, open)
  BY <1>3, <1>5, <1>7, <1>8, ReleasedAll, Zenon
<1> QED BY <1>3, <1>9, NothingMade

-----------------------------------------------------------------------------
(* Calls that look for an item by its index or its name.                       *)

\* An item that is found by its index or its name is NULL or a child.
LEMMA FoundByIndex ==
  ASSUME NEW L, NEW ty, NEW q, Snapshot(L, ty, q), NEW p \in Item, Box(ty, p),
         NEW which \in Indices(p)
  PROVE  IF which < Len(q[p]) THEN get_array_item(p, which) = q[p][which + 1] /\ which + 1 \in 1..Len(q[p])
                                   /\ which \in 0..(Len(q[p]) - 1)
         ELSE get_array_item(p, which) = NULL
<1>1. Children(p) = q[p] /\ q \in Kids
  BY Seen
<1>2. Len(q[p]) \in Nat
  BY <1>1 DEF Kids
<1>3. which \in 0..Len(q[p])
  BY <1>1 DEF Indices
<1> QED BY <1>1, <1>2, <1>3 DEF get_array_item

\* An item that is found by its name is NULL or a child.
LEMMA FoundByName ==
  ASSUME NEW L, NEW ty, NEW q, Snapshot(L, ty, q), NEW p \in Item, Box(ty, p), NEW name
  PROVE  get_object_item(p, name) = NULL \/ \E k \in 1..Len(q[p]) : get_object_item(p, name) = q[p][k]
<1>1. Children(p) = q[p] /\ q \in Kids
  BY Seen
<1>2. q[p] \in Seq(Item)
  BY <1>1 DEF Kids
<1>3. DOMAIN q[p] = 1..Len(q[p])
  BY <1>2
<1> DEFINE N == Named(p, name)
<1>4. N \in SUBSET (1..Len(q[p]))
  BY <1>1, <1>3 DEF Named
<1>5. CASE N = {}
  BY <1>5 DEF get_object_item
<1>6. CASE N # {}
  <2>1. N \in SUBSET Nat
    BY <1>4
  <2>2. PICK m \in N : \A j \in N : ~(j < m)
    <3> HIDE DEF N
    <3> QED BY <1>6, <2>1, LeastElement
  <2>3. \A j \in N : m <= j
    <3> HIDE DEF N
    <3> QED BY <2>1, <2>2
  <2> DEFINE k == CHOOSE k \in N : \A j \in N : k <= j
  <2>4. k \in N
    <3> HIDE DEF N
    <3> QED BY <2>3
  <2>5. get_object_item(p, name) = q[p][k]
    BY <1>1, <1>6 DEF get_object_item
  <2> HIDE DEF k, N
  <2> QED BY <1>4, <2>4, <2>5
<1> QED BY <1>5, <1>6

\* What a call that takes an item of p does, in terms of the children of p.
LEMMA OfArray ==
  ASSUME NEW L, NEW ty, NEW q, Snapshot(L, ty, q), NEW p \in Item
  PROVE  /\ cJSON_DetachItemFromArray(p) => Box(ty, p) /\ \E k \in 1..Len(q[p]) : Detach(p, q[p][k])
         /\ cJSON_DeleteItemFromArray(p) => Box(ty, p) /\ \E k \in 1..Len(q[p]) : DeleteItem(p, q[p][k])
         /\ \A r \in Item : cJSON_ReplaceItemInArray(p, r) =>
              Fault \/ (MayAdd(p, r) /\ \E k \in 1..Len(q[p]) : ReplaceBy(r, p, q[p][k]))
<1>1. type = ty
  BY Seen
<1>2. type[p] = "array" => Box(ty, p)
  BY <1>1 DEF Box
<1>3. ASSUME cJSON_DetachItemFromArray(p)
      PROVE  Box(ty, p) /\ \E k \in 1..Len(q[p]) : Detach(p, q[p][k])
  <2>1. Box(ty, p)
    BY <1>2, <1>3 DEF cJSON_DetachItemFromArray, ByIndex
  <2>2. PICK which \in Indices(p) : Detach(p, get_array_item(p, which))
    BY <1>3 DEF cJSON_DetachItemFromArray, ByIndex
  <2>3. get_array_item(p, which) # NULL
    BY <2>2 DEF Detach
  <2>4. which + 1 \in 1..Len(q[p]) /\ get_array_item(p, which) = q[p][which + 1]
    BY <2>1, <2>3, FoundByIndex
  <2> QED BY <2>1, <2>2, <2>4
<1>4. ASSUME cJSON_DeleteItemFromArray(p)
      PROVE  Box(ty, p) /\ \E k \in 1..Len(q[p]) : DeleteItem(p, q[p][k])
  <2>1. Box(ty, p)
    BY <1>2, <1>4 DEF cJSON_DeleteItemFromArray, ByIndex
  <2>2. PICK which \in Indices(p) : DeleteItem(p, get_array_item(p, which))
    BY <1>4 DEF cJSON_DeleteItemFromArray, ByIndex
  <2>3. get_array_item(p, which) # NULL
    BY <2>2 DEF DeleteItem
  <2>4. which + 1 \in 1..Len(q[p]) /\ get_array_item(p, which) = q[p][which + 1]
    BY <2>1, <2>3, FoundByIndex
  <2> QED BY <2>1, <2>2, <2>4
<1>5. ASSUME NEW r \in Item, cJSON_ReplaceItemInArray(p, r)
      PROVE  Fault \/ (MayAdd(p, r) /\ \E k \in 1..Len(q[p]) : ReplaceBy(r, p, q[p][k]))
  <2>1. Box(ty, p) /\ MayAdd(p, r)
    BY <1>2, <1>5 DEF cJSON_ReplaceItemInArray, ByIndex
  <2>2. PICK which \in Indices(p) : ReplaceBy(r, p, get_array_item(p, which))
    BY <1>5 DEF cJSON_ReplaceItemInArray, ByIndex
  <2>3. CASE get_array_item(p, which) = NULL
    BY <2>2, <2>3 DEF ReplaceBy
  <2>4. CASE get_array_item(p, which) # NULL
    <3>1. which + 1 \in 1..Len(q[p]) /\ get_array_item(p, which) = q[p][which + 1]
      BY <2>1, <2>4, FoundByIndex
    <3> QED BY <2>1, <2>2, <3>1
  <2> QED BY <2>3, <2>4
<1> QED BY <1>3, <1>4, <1>5

\* The same for the calls that take a name.
LEMMA OfObject ==
  ASSUME NEW L, NEW ty, NEW q, Snapshot(L, ty, q), NEW p \in Item, NEW name
  PROVE  /\ cJSON_DetachItemFromObject(p, name) \/ cJSON_DetachItemFromObjectCaseSensitive(p, name)
              => Fault \/ (Box(ty, p) /\ \E k \in 1..Len(q[p]) : Detach(p, q[p][k]))
         /\ cJSON_DeleteItemFromObject(p, name) \/ cJSON_DeleteItemFromObjectCaseSensitive(p, name)
              => Fault \/ (Box(ty, p) /\ \E k \in 1..Len(q[p]) : DeleteItem(p, q[p][k]))
         /\ \A r \in Item :
              cJSON_ReplaceItemInObject(p, name, r) \/ cJSON_ReplaceItemInObjectCaseSensitive(p, name, r)
              => Fault \/ (MayAdd(p, r) /\ \E k \in 1..Len(q[p]) : ReplaceBy(r, p, q[p][k]))
<1> DEFINE x == get_object_item(p, name)
<1>1. type = ty
  BY Seen
<1>2. type[p] = "object" => Box(ty, p)
  BY <1>1 DEF Box
<1>3. type[p] = "object" /\ x # NULL => \E k \in 1..Len(q[p]) : x = q[p][k]
  BY <1>2, FoundByName
<1>4. ASSUME cJSON_DetachItemFromObject(p, name) \/ cJSON_DetachItemFromObjectCaseSensitive(p, name)
      PROVE  Fault \/ (Box(ty, p) /\ \E k \in 1..Len(q[p]) : Detach(p, q[p][k]))
  <2>1. type[p] = "object" /\ (Fault \/ Detach(p, x))
    BY <1>4 DEF cJSON_DetachItemFromObject, cJSON_DetachItemFromObjectCaseSensitive,
                ByName, ByNameCaseSensitive
  <2>2. Detach(p, x) => x # NULL
    BY DEF Detach
  <2> HIDE DEF x
  <2> QED BY <1>2, <1>3, <2>1, <2>2
<1>5. ASSUME cJSON_DeleteItemFromObject(p, name) \/ cJSON_DeleteItemFromObjectCaseSensitive(p, name)
      PROVE  Fault \/ (Box(ty, p) /\ \E k \in 1..Len(q[p]) : DeleteItem(p, q[p][k]))
  <2>1. type[p] = "object" /\ (Fault \/ DeleteItem(p, x))
    BY <1>5 DEF cJSON_DeleteItemFromObject, cJSON_DeleteItemFromObjectCaseSensitive,
                ByName, ByNameCaseSensitive
  <2>2. DeleteItem(p, x) => x # NULL
    BY DEF DeleteItem
  <2> HIDE DEF x
  <2> QED BY <1>2, <1>3, <2>1, <2>2
<1>6. ASSUME NEW r \in Item,
             cJSON_ReplaceItemInObject(p, name, r) \/ cJSON_ReplaceItemInObjectCaseSensitive(p, name, r)
      PROVE  Fault \/ (MayAdd(p, r) /\ \E k \in 1..Len(q[p]) : ReplaceBy(r, p, q[p][k]))
  <2>1. type[p] = "object" /\ MayAdd(p, r) /\ (Fault \/ ReplaceBy(r, p, x))
    BY <1>6 DEF cJSON_ReplaceItemInObject, cJSON_ReplaceItemInObjectCaseSensitive,
                ByName, ByNameCaseSensitive
  <2>2. x = NULL /\ ReplaceBy(r, p, x) => Fault
    BY DEF ReplaceBy
  <2> HIDE DEF x
  <2> QED BY <1>2, <1>3, <2>1, <2>2
<1> QED BY <1>4, <1>5, <1>6

\* The same for the calls that take a pointer to a child.
LEMMA OfPointer ==
  ASSUME NEW L, NEW ty, NEW q, Snapshot(L, ty, q), NEW p \in Item, NEW i \in Item
  PROVE  /\ cJSON_DetachItemViaPointer(p, i)
              => Box(ty, p) /\ \E k \in 1..Len(q[p]) : Detach(p, q[p][k])
         /\ cJSON_ReplaceItemViaPointer(p, i)
              => \E r \in Item : MayAdd(p, r) /\ \E k \in 1..Len(q[p]) : ReplaceBy(r, p, q[p][k])
<1>1. p \in Containers /\ i \in Range(Children(p)) => Box(ty, p) /\ \E k \in 1..Len(q[p]) : q[p][k] = i
  <2> SUFFICES ASSUME p \in Containers, i \in Range(Children(p))
               PROVE  Box(ty, p) /\ \E k \in 1..Len(q[p]) : q[p][k] = i
    OBVIOUS
  <2>1. Box(ty, p) /\ Children(p) = q[p] /\ q \in Kids
    BY Seen
  <2>2. q[p] \in Seq(Item)
    BY <2>1 DEF Kids
  <2> QED BY <2>1, <2>2 DEF Range
<1>2. ASSUME cJSON_DetachItemViaPointer(p, i)
      PROVE  Box(ty, p) /\ \E k \in 1..Len(q[p]) : Detach(p, q[p][k])
  <2>1. p \in Containers /\ i \in Range(Children(p)) /\ Detach(p, i)
    BY <1>2 DEF cJSON_DetachItemViaPointer
  <2> QED BY <1>1, <2>1
<1>3. ASSUME cJSON_ReplaceItemViaPointer(p, i)
      PROVE  \E r \in Item : MayAdd(p, r) /\ \E k \in 1..Len(q[p]) : ReplaceBy(r, p, q[p][k])
  <2>1. p \in Containers /\ i \in Range(Children(p))
    BY <1>3 DEF cJSON_ReplaceItemViaPointer
  <2>2. PICK r \in Item : MayAdd(p, r) /\ ReplaceBy(r, p, i)
    BY <1>3 DEF cJSON_ReplaceItemViaPointer
  <2> QED BY <1>1, <2>1, <2>2
<1> QED BY <1>2, <1>3

-----------------------------------------------------------------------------
(* Every call.                                                                 *)

\* What a call makes of the items: a move of the children, a fault, or nothing.
LEMMA StepArrives ==
  ASSUME NEW L, NEW ty, NEW q, Snapshot(L, ty, q), StringOK, Next
  PROVE  Arrives(ty, q) \/ Fault \/ UNCHANGED vars
<1>1. ASSUME NEW i \in Item, NEW t \in {"array", "object"}, Create(i, t) PROVE Arrives(ty, q)
  BY <1>1, CreateStep
<1>2. ASSUME NEW count \in 0..Cardinality(OfType("free")), CreateArrayOf(count)
      PROVE  Arrives(ty, q) \/ UNCHANGED vars
  <2>1. count \in Nat
    BY FreeCount
  <2> QED BY <1>2, <2>1, ArrayStep, ArrayFails DEF CreateArrayOf
<1>3. ASSUME NEW p \in Item, OnOne(p) PROVE Arrives(ty, q) \/ Fault \/ UNCHANGED vars
  <2>1. CASE cJSON_DetachItemFromArray(p)
    BY <2>1, OfArray, DetachStep
  <2>2. CASE cJSON_DeleteItemFromArray(p)
    BY <2>2, OfArray, DeleteStep
  <2>3. CASE AddNullToObject(p)
    BY <2>3 DEF AddNullToObject
  <2>4. CASE cJSON_Delete(p)
    BY <2>4, FreeStep
  <2>5. ASSUME NEW recurse \in BOOLEAN, cJSON_Duplicate(p, recurse)
        PROVE  Arrives(ty, q) \/ Fault \/ UNCHANGED vars
    <3>0. PICK S, tree : S = Paths(p, recurse) /\ tree = CopyOf(S, recurse)
      OBVIOUS
    <3>1. p \in Allocated
      BY <2>5 DEF cJSON_Duplicate
    <3>2. CASE ~Endless(S) /\ Build(tree, <<p>>)
      BY <3>0, <3>1, <3>2, DuplicateStep DEF StringOK
    <3>3. ASSUME NEW way \in S, Fails(tree, CopiedBy(S, way), OnTheWay(way)) PROVE UNCHANGED vars
      BY <3>0, <3>3, CopyFails
    <3> QED BY <2>5, <3>0, <3>2, <3>3 DEF cJSON_Duplicate
  <2> QED BY <1>3, <2>1, <2>2, <2>3, <2>4, <2>5 DEF OnOne
<1>4. ASSUME NEW p \in Item, NEW i \in Item, OnTwo(p, i) PROVE Arrives(ty, q) \/ Fault
  <2>1. CASE cJSON_AddItemToArray(p, i)
    BY <2>1, AppendStep DEF cJSON_AddItemToArray
  <2>2. CASE cJSON_AddItemReferenceToArray(p, i)
    <3>1. Box(ty, p)
      BY <2>2, Seen DEF cJSON_AddItemReferenceToArray, Box
    <3> QED BY <2>2, <3>1, ReferenceStep DEF cJSON_AddItemReferenceToArray
  <2>3. CASE cJSON_InsertItemInArray(p, i)
    <3>1. MayAdd(p, i) /\ UNCHANGED type
      BY <2>3 DEF cJSON_InsertItemInArray
    <3>2. PICK which \in Indices(p) :
            SetLinks(LET a == get_array_item(p, which)
                     IN  IF a = NULL THEN Appended(links, p, i) ELSE Inserted(links, p, a, i))
      BY <2>3 DEF cJSON_InsertItemInArray
    <3>3. Box(ty, p)
      BY <3>1, MayBeAdded
    <3>4. CASE get_array_item(p, which) = NULL
      BY <3>1, <3>2, <3>4, AppendStep
    <3>5. CASE get_array_item(p, which) # NULL
      <4>1. which \in 0..(Len(q[p]) - 1) /\ get_array_item(p, which) = q[p][which + 1]
        BY <3>3, <3>5, FoundByIndex
      <4>2. SetLinks(Inserted(links, p, q[p][which + 1], i))
        BY <3>2, <3>5, <4>1
      <4> QED BY <3>1, <4>1, <4>2, InsertStep
    <3> QED BY <3>4, <3>5
  <2>4. CASE cJSON_DetachItemViaPointer(p, i)
    BY <2>4, OfPointer, DetachStep
  <2>5. CASE cJSON_ReplaceItemInArray(p, i)
    BY <2>5, OfArray, ReplaceStep
  <2>6. CASE cJSON_ReplaceItemViaPointer(p, i)
    <3>1. PICK r \in Item : MayAdd(p, r) /\ \E k \in 1..Len(q[p]) : ReplaceBy(r, p, q[p][k])
      BY <2>6, OfPointer
    <3> QED BY <3>1, ReplaceStep
  <2> QED BY <1>4, <2>1, <2>2, <2>3, <2>4, <2>5, <2>6 DEF OnTwo
<1>5. ASSUME NEW p \in Item, NEW name \in Name, OnObject(p, name) PROVE Arrives(ty, q) \/ Fault
  <2>1. CASE cJSON_DetachItemFromObject(p, name) \/ cJSON_DetachItemFromObjectCaseSensitive(p, name)
    BY <2>1, OfObject, DetachStep
  <2>2. CASE cJSON_DeleteItemFromObject(p, name) \/ cJSON_DeleteItemFromObjectCaseSensitive(p, name)
    BY <2>2, OfObject, DeleteStep
  <2>3. ASSUME NEW i \in Item, cJSON_AddItemToObject(p, name, i) PROVE Arrives(ty, q)
    BY <2>3, AppendStep DEF cJSON_AddItemToObject
  <2>4. ASSUME NEW i \in Item, cJSON_AddItemReferenceToObject(p, name, i) PROVE Arrives(ty, q)
    <3>1. Box(ty, p)
      BY <2>4, Seen DEF cJSON_AddItemReferenceToObject, Box
    <3> QED BY <2>4, <3>1, ReferenceStep DEF cJSON_AddItemReferenceToObject
  <2>5. ASSUME NEW i \in Item,
               cJSON_ReplaceItemInObject(p, name, i) \/ cJSON_ReplaceItemInObjectCaseSensitive(p, name, i)
        PROVE  Arrives(ty, q) \/ Fault
    BY <2>5, OfObject, ReplaceStep
  <2> QED BY <1>5, <2>1, <2>2, <2>3, <2>4, <2>5 DEF OnObject
<1> QED BY <1>1, <1>2, <1>3, <1>4, <1>5 DEF Next

\* The items of a new tree have names, or none, and the call returns one of them.
LEMMA BuildStrings ==
  ASSUME StringOK, NEW tree, \A d \in DOMAIN tree.type : tree.string[d] \in Name \cup {NULL},
         NEW top, Build(tree, top)
  PROVE  StringOK'
<1> DEFINE D == DOMAIN tree.type
<1>1. PICK B \in SUBSET OfType("free") :
        \E at \in Bijection(B, D) :
          Built(B, at, tree) /\ held' = held \cup {b \in B : at[b] = top}
  BY DEF Build, Holding
<1>2. PICK at \in Bijection(B, D) :
        Built(B, at, tree) /\ held' = held \cup {b \in B : at[b] = top}
  BY <1>1
<1>3. at \in [B -> D] /\ B \subseteq Item
  BY DEF Bijection, Injection, OfType
<1>4. /\ string' = [b \in Item |-> IF b \in B THEN tree.string[at[b]] ELSE string[b]]
      /\ UNCHANGED <<kind, fault>>
  BY <1>2 DEF Built
<1>5. \A b \in B : tree.string[at[b]] \in Name \cup {NULL}
  BY <1>3
<1>6. held' \in SUBSET Item
  BY <1>2, <1>3 DEF StringOK
<1> HIDE DEF D
<1>7. string' \in Strings
  BY <1>4, <1>5 DEF StringOK, Strings
<1> QED BY <1>4, <1>6, <1>7 DEF StringOK

\* The ways down from an item end in items.
LEMMA PathsEnd ==
  ASSUME NEW L, NEW ty, NEW q, Snapshot(L, ty, q), NEW i \in Item, NEW recurse \in BOOLEAN
  PROVE  \A s \in Paths(i, recurse) : Last(s) \in Item
<1>1. CASE recurse = TRUE
  <2>1. PICK nx, ch : nx = next /\ ch = child /\ nx \in Links /\ ch \in Links
    BY Seen
  <2>2. PICK C : C = [x \in Item |-> Along(nx, ch[x])]
    OBVIOUS
  <2>3. \A x \in Item : Children(x) = C[x]
    BY <2>1, <2>2 DEF Children
  <2>4. C \in [Item -> Seq(Item)]
    <3>1. \A x \in Item : ch[x] \in Item \cup {NULL}
      BY <2>1 DEF Links
    <3> QED BY <2>1, <2>2, <3>1, AlongType
  <2>5. PICK w \in [Nat -> SUBSET Ways] : Paths(i, TRUE) = UNION {w[n] : n \in 0..Cardinality(Item)}
    BY <2>3, <2>4, PathSets
  <2>6. \A n \in 0..Cardinality(Item) : w[n] \subseteq Ways
    BY ItemAssumption, FS_CardinalityType
  <2>7. Paths(i, TRUE) \subseteq Ways
    BY <2>5, <2>6
  <2>8. \A s \in Ways : Last(s) \in Item
    <3> SUFFICES ASSUME NEW s \in Ways PROVE Last(s) \in Item
      OBVIOUS
    <3>1. s \in Seq(Item) /\ Len(s) \in 1..Len(s)
      BY DEF Ways
    <3> QED BY <3>1 DEF Last
  <2> QED BY <1>1, <2>7, <2>8
<1>2. CASE recurse = FALSE
  <2>1. Paths(i, recurse) = {<<i>>}
    BY <1>2 DEF Paths
  <2>2. Last(<<i>>) = i
    BY DEF Last
  <2> QED BY <2>1, <2>2
<1> QED BY <1>1, <1>2

\* Freed items have no name.
LEMMA EndStrings ==
  ASSUME StringOK, NEW M, NEW i, EndsWithDelete(M, i, string), held' \in SUBSET Item
  PROVE  StringOK'
<1>1. string' \in Strings
  BY DEF EndsWithDelete, StringOK, Strings
<1>2. kind' \in [Item -> {"array", "object"}]
  BY DEF EndsWithDelete, StringOK
<1>3. UNCHANGED fault
  BY DEF EndsWithDelete
<1> QED BY <1>1, <1>2, <1>3 DEF StringOK

\* A reference has the copy of a name, or none, and the kind of what it refers to.
LEMMA ReferenceStrings ==
  ASSUME StringOK, type \in Types, NEW p, NEW i, NEW names \in SUBSET (Name \cup {NULL}),
         AddReference(p, names, i)
  PROVE  StringOK'
<1>1. PICK ref \in OfType("free") :
        /\ kind' = [kind EXCEPT ![ref] = Kind(i)]
        /\ \E copy \in names : string' = [string EXCEPT ![ref] = copy]
  BY DEF AddReference
<1>2. i \in Allocated /\ UNCHANGED <<held, fault>>
  BY DEF AddReference
<1>3. Kind(i) \in {"array", "object"}
  BY <1>2 DEF Kind, Allocated, Types, StringOK
<1>4. string' \in Strings
  BY <1>1 DEF StringOK, Strings
<1>5. kind' \in [Item -> {"array", "object"}]
  BY <1>1, <1>3 DEF StringOK
<1> QED BY <1>2, <1>4, <1>5 DEF StringOK

\* A replacement is no longer held.
LEMMA ReplaceStrings ==
  ASSUME StringOK, NEW r, NEW p, NEW i, ReplaceBy(r, p, i)
  PROVE  StringOK'
<1>1. CASE i = NULL
  BY <1>1 DEF ReplaceBy, Fault, StringOK
<1>2. CASE i # NULL
  <2>1. EndsWithDelete(Replaced(links, p, i, r), i, string) /\ held' = held \ {r}
    BY <1>2 DEF ReplaceBy
  <2>2. held' \in SUBSET Item
    BY <2>1 DEF StringOK
  <2> QED BY <2>1, <2>2, EndStrings
<1> QED BY <1>1, <1>2

\* A detached item is held.
LEMMA DetachStrings ==
  ASSUME StringOK, type \in Types, NEW p \in Item, NEW i \in Item, Detach(p, i)
  PROVE  StringOK'
  BY DEF Detach, StringOK

\* Names stay names, whatever the call.
LEMMA StepStrings ==
  ASSUME NEW L, NEW ty, NEW q, Snapshot(L, ty, q), StringOK, Next
  PROVE  StringOK'
<1>0. Fault => StringOK'
  BY DEF Fault, StringOK
<1>u. UNCHANGED vars => StringOK'
  BY DEF vars, StringOK
<1>t. type \in Types
  BY Seen
<1>i. \A x \in Item : \A k \in 1..Len(q[x]) : q[x][k] \in Item
  BY Seen DEF Kids
<1>1. ASSUME NEW i \in Item, NEW t \in {"array", "object"}, Create(i, t) PROVE StringOK'
  BY <1>1 DEF Create, StringOK
<1>2. ASSUME NEW count \in 0..Cardinality(OfType("free")), CreateArrayOf(count) PROVE StringOK'
  <2>0. count \in Nat
    BY FreeCount
  <2>1. PICK tree : tree = ArrayOf(count)
    OBVIOUS
  <2>2. CASE Build(tree, 0)
    <3>1. \A d \in DOMAIN tree.type : tree.string[d] \in Name \cup {NULL}
      BY <2>1 DEF ArrayOf
    <3> QED BY <2>2, <3>1, BuildStrings
  <2>3. ASSUME NEW k \in 0..count, Fails(ArrayOf(count), 0..k, {0, k}) PROVE StringOK'
    BY <1>u, <2>0, <2>3, ArrayFails
  <2> QED BY <1>2, <2>1, <2>2, <2>3 DEF CreateArrayOf
<1>3. ASSUME NEW p \in Item, OnOne(p) PROVE StringOK'
  <2>1. CASE cJSON_DetachItemFromArray(p)
    <3>1. PICK k \in 1..Len(q[p]) : Detach(p, q[p][k])
      BY <2>1, OfArray
    <3> QED BY <1>i, <1>t, <3>1, DetachStrings
  <2>2. CASE cJSON_DeleteItemFromArray(p)
    <3>1. PICK k \in 1..Len(q[p]) : DeleteItem(p, q[p][k])
      BY <2>2, OfArray
    <3> QED BY <3>1, EndStrings DEF DeleteItem, StringOK
  <2>3. CASE AddNullToObject(p)
    BY <1>0, <2>3 DEF AddNullToObject
  <2>4. CASE cJSON_Delete(p)
    <3>1. EndsWithDelete(links, p, string) /\ held' \in SUBSET Item
      BY <2>4 DEF cJSON_Delete, StringOK
    <3> QED BY <3>1, EndStrings
  <2>5. ASSUME NEW recurse \in BOOLEAN, cJSON_Duplicate(p, recurse) PROVE StringOK'
    <3>0. PICK S, tree : S = Paths(p, recurse) /\ tree = CopyOf(S, recurse)
      OBVIOUS
    <3>1. CASE Fault
      BY <1>0, <3>1
    <3>2. CASE Build(tree, <<p>>)
      <4>1. \A s \in Paths(p, recurse) : string[Last(s)] \in Name \cup {NULL}
        BY PathsEnd DEF StringOK, Strings
      <4>2. \A d \in DOMAIN tree.type : tree.string[d] \in Name \cup {NULL}
        BY <3>0, <4>1 DEF CopyOf
      <4> QED BY <3>2, <4>2, BuildStrings
    <3>3. ASSUME NEW way \in S, Fails(tree, CopiedBy(S, way), OnTheWay(way)) PROVE StringOK'
      BY <1>u, <3>0, <3>3, CopyFails
    <3> QED BY <2>5, <3>0, <3>1, <3>2, <3>3 DEF cJSON_Duplicate
  <2> QED BY <1>3, <2>1, <2>2, <2>3, <2>4, <2>5 DEF OnOne
<1>4. ASSUME NEW p \in Item, NEW i \in Item, OnTwo(p, i) PROVE StringOK'
  <2>1. CASE cJSON_AddItemToArray(p, i)
    BY <2>1 DEF cJSON_AddItemToArray, StringOK
  <2>2. CASE cJSON_AddItemReferenceToArray(p, i)
    BY <1>t, <2>2, ReferenceStrings DEF cJSON_AddItemReferenceToArray
  <2>3. CASE cJSON_InsertItemInArray(p, i)
    BY <2>3 DEF cJSON_InsertItemInArray, StringOK
  <2>4. CASE cJSON_DetachItemViaPointer(p, i)
    BY <1>t, <2>4, DetachStrings DEF cJSON_DetachItemViaPointer
  <2>5. CASE cJSON_ReplaceItemInArray(p, i)
    BY <1>0, <2>5, OfArray, ReplaceStrings
  <2>6. CASE cJSON_ReplaceItemViaPointer(p, i)
    <3>1. PICK r \in Item : ReplaceBy(r, p, i)
      BY <2>6 DEF cJSON_ReplaceItemViaPointer
    <3> QED BY <3>1, ReplaceStrings
  <2> QED BY <1>4, <2>1, <2>2, <2>3, <2>4, <2>5, <2>6 DEF OnTwo
<1>5. ASSUME NEW p \in Item, NEW name \in Name, OnObject(p, name) PROVE StringOK'
  <2>0. Copies(name) \in SUBSET (Name \cup {NULL})
    BY DEF Copies
  <2>1. CASE cJSON_DetachItemFromObject(p, name) \/ cJSON_DetachItemFromObjectCaseSensitive(p, name)
    BY <1>0, <2>1, OfObject, <1>i, <1>t, DetachStrings
  <2>2. CASE cJSON_DeleteItemFromObject(p, name) \/ cJSON_DeleteItemFromObjectCaseSensitive(p, name)
    BY <1>0, <2>2, OfObject, EndStrings DEF DeleteItem, StringOK
  <2>3. ASSUME NEW i \in Item, cJSON_AddItemToObject(p, name, i) PROVE StringOK'
    BY <2>0, <2>3 DEF cJSON_AddItemToObject, StringOK, Strings
  <2>4. ASSUME NEW i \in Item, cJSON_AddItemReferenceToObject(p, name, i) PROVE StringOK'
    BY <1>t, <2>0, <2>4, ReferenceStrings DEF cJSON_AddItemReferenceToObject
  <2>5. ASSUME NEW i \in Item,
               cJSON_ReplaceItemInObject(p, name, i) \/ cJSON_ReplaceItemInObjectCaseSensitive(p, name, i)
        PROVE  StringOK'
    BY <1>0, <2>5, OfObject, ReplaceStrings
  <2> QED BY <1>5, <2>1, <2>2, <2>3, <2>4, <2>5 DEF OnObject
<1> QED BY <1>1, <1>2, <1>3, <1>4, <1>5 DEF Next

-----------------------------------------------------------------------------
(* The invariant, and the properties that follow from it.                      *)

\* The links represent an ordered forest: each container has a sequence of
\* children, which its child pointer and their next and prev pointers spell out,
\* no item is in two places, and no item is below itself.
Represented == \E q \in Kids : Shape(links, type, q) /\ Grounded(q)

TreeInv == TypeOK /\ Represented

\* No item is in use at first: the forest is empty.
LEMMA InitRepresented == Init => TreeInv
<1> SUFFICES ASSUME Init PROVE TreeInv
  OBVIOUS
<1>1. TypeOK
  BY DEF Init, TypeOK
<1>2. PICK ty, nx, q, L :
        /\ ty = [i \in Item |-> "free"] /\ nx = [i \in Item |-> NULL] /\ q = [i \in Item |-> <<>>]
        /\ L = [next |-> nx, prev |-> nx, child |-> nx]
  OBVIOUS
<1>3. links = L /\ type = ty
  BY <1>2 DEF Init, links
<1>4. nx \in Links /\ L \in LinkRecords /\ ty \in Types /\ q \in Kids
  BY <1>2 DEF LinkRecords, Links, Types, Kids
<1>5. Len(<<>>) = 0
  OBVIOUS
<1>6. \A p \in Item : q[p] = <<>> /\ Len(q[p]) = 0 /\ ~Box(ty, p)
  BY <1>2, <1>5 DEF Box
<1>7. \A i \in Item : ~Placed(q, i)
  BY <1>6 DEF Placed
<1>8. Rep(nx, nx, nx, ty, q)
  BY <1>2, <1>6, <1>7 DEF Rep, Lists, Tidy, Apart
<1>9. Grounded(q)
  BY <1>6 DEF Grounded, Edge
<1>10. Shape(L, ty, q)
  BY <1>2, <1>4, <1>8 DEF Shape
<1> QED BY <1>1, <1>3, <1>4, <1>9, <1>10 DEF TreeInv, Represented

\* TypeOK, as far as the representation does not say it.
LEMMA TypesFollow == (Represented /\ StringOK) => TypeOK
<1> SUFFICES ASSUME Represented, StringOK
             PROVE  TypeOK
  OBVIOUS
<1>1. PICK q \in Kids : Shape(links, type, q)
  BY DEF Represented
<1>2. type \in Types /\ links \in LinkRecords
  BY <1>1 DEF Shape
<1>3. next \in Links /\ prev \in Links /\ child \in Links
  BY <1>2 DEF links, LinkRecords
<1> QED BY <1>2, <1>3 DEF TypeOK, Types, Links, Strings, StringOK

\* Whatever the call, the links represent a forest after it if they did before.
LEMMA StepRepresented == TreeInv /\ [Next]_vars => TreeInv'
<1> SUFFICES ASSUME TreeInv, [Next]_vars PROVE TreeInv'
  OBVIOUS
<1>1. CASE UNCHANGED vars
  BY <1>1 DEF TreeInv, TypeOK, Represented, links, vars
<1>2. CASE Next
  <2>1. PICK q \in Kids : Shape(links, type, q) /\ Grounded(q)
    BY DEF TreeInv, Represented
  <2>2. PICK L, ty : L = links /\ ty = type
    OBVIOUS
  <2>3. Snapshot(L, ty, q)
    BY <2>1, <2>2 DEF Snapshot
  <2>4. StringOK
    BY DEF TreeInv, TypeOK, Strings, StringOK
  <2>6. Represented'
    <3>1. CASE Arrives(ty, q)
      <4>1. PICK q2 : Shape(links', type', q2) /\ Moves(ty, q, type', q2)
        BY <3>1 DEF Arrives
      <4>2. q2 \in Kids
        BY <4>1 DEF Shape
      <4>3. PICK ty2 : ty2 = type'
        OBVIOUS
      <4>4. Grounded(q2)
        BY <2>1, <4>1, <4>3, MoveGrounded
      <4> QED BY <4>1, <4>2, <4>4 DEF Represented
    <3>2. CASE Fault
      BY <2>1, <3>2 DEF Fault, Represented, links
    <3>3. CASE UNCHANGED vars
      BY <2>1, <3>3 DEF vars, Represented, links
    <3> QED BY <1>2, <2>3, <2>4, <3>1, <3>2, <3>3, StepArrives
  <2>7. StringOK'
    BY <1>2, <2>3, <2>4, StepStrings
  <2>8. TypeOK'
    BY <2>6, <2>7, TypesFollow, PTL
  <2> QED BY <2>6, <2>8 DEF TreeInv
<1> QED BY <1>1, <1>2

\* Whatever calls are made, in whatever order, the links represent an ordered
\* forest: the children of a container are linked both ways, no item is in two
\* places or below itself, and nothing leads to freed memory.
THEOREM TreeHolds == Spec => []TreeInv
<1> QED BY InitRepresented, StepRepresented, PTL DEF Spec

\* The variables keep their types, whatever calls are made.
THEOREM TypeCorrect == Spec => []TypeOK
<1>1. TreeInv => TypeOK
  BY DEF TreeInv
<1> QED BY <1>1, TreeHolds, PTL

\* The links of a forest lead to items in use.
LEMMA NoDangling == TreeInv => NothingDangling
<1> SUFFICES ASSUME TreeInv PROVE NothingDangling
  OBVIOUS
<1>1. PICK q \in Kids : Shape(links, type, q) /\ Grounded(q)
  BY DEF TreeInv, Represented
<1>2. PICK L, ty : L = links /\ ty = type
  OBVIOUS
<1>3. Snapshot(L, ty, q)
  BY <1>1, <1>2 DEF Snapshot
<1>4. /\ L.next = next /\ L.prev = prev /\ L.child = child /\ type = ty
      /\ L.next \in Links /\ L.prev \in Links /\ L.child \in Links
      /\ Rep(L.next, L.prev, L.child, ty, q)
      /\ \A x \in Item : ~Box(ty, x) => q[x] = <<>>
      /\ \A x \in Item : x \in Allocated <=> ty[x] # "free"
      /\ \A x \in Item : Placed(q, x) => ty[x] # "free"
  BY <1>3, Seen
<1> SUFFICES ASSUME NEW i \in Allocated
             PROVE  {next[i], prev[i], child[i]} \subseteq Allocated \cup {NULL}
  BY DEF NothingDangling
<1>5. i \in Item
  BY DEF Allocated
<1>6. child[i] \in Allocated \cup {NULL}
  BY <1>4, <1>5 DEF Rep, Tidy, Links
<1>7. {next[i], prev[i]} \subseteq Allocated \cup {NULL}
  <2>1. CASE ~Placed(q, i)
    BY <1>4, <1>5, <2>1 DEF Rep, Tidy
  <2>2. CASE Placed(q, i)
    <3>1. PICK p \in Item : \E k \in 1..Len(q[p]) : q[p][k] = i
      BY <2>2 DEF Placed
    <3>2. PICK k \in 1..Len(q[p]) : q[p][k] = i
      BY <3>1
    <3>3. q[p] \in Seq(Item)
      BY DEF Kids
    <3>4. Len(q[p]) # 0 /\ Len(<<>>) = 0
      BY <3>2, <3>3
    <3>5. q[p] # <<>>
      BY <3>4, Zenon
    <3>6. Box(ty, p)
      BY <1>4, <3>5
    <3>7. next[i] = At(q[p], k + 1) /\ prev[i] = At(q[p], k - 1)
      BY <1>4, <3>2, <3>6 DEF Rep, Lists, Siblings
    <3>8. \A m : At(q[p], m) \in Allocated \cup {NULL}
      <4> SUFFICES ASSUME NEW m, m \in 1..Len(q[p]) PROVE q[p][m] \in Allocated
        BY DEF At
      <4>1. q[p][m] \in Item /\ Placed(q, q[p][m])
        BY <3>3 DEF Placed
      <4> QED BY <1>4, <4>1
    <3> QED BY <3>7, <3>8
  <2> QED BY <2>1, <2>2
<1> QED BY <1>6, <1>7

\* No pointer of an item in use leads to memory that cJSON_Delete has freed.
THEOREM NothingDanglingHolds == Spec => []NothingDangling
<1> QED BY NoDangling, TreeHolds, PTL

\* The links of a forest are doubly linked lists of siblings.
LEMMA Linked == TreeInv => SiblingsLinked
<1> SUFFICES ASSUME TreeInv PROVE SiblingsLinked
  OBVIOUS
<1>1. PICK q \in Kids : Shape(links, type, q) /\ Grounded(q)
  BY DEF TreeInv, Represented
<1>2. PICK L, ty : L = links /\ ty = type
  OBVIOUS
<1>3. Snapshot(L, ty, q)
  BY <1>1, <1>2 DEF Snapshot
<1>4. /\ L.next = next /\ L.prev = prev
      /\ Rep(L.next, L.prev, L.child, ty, q)
      /\ \A p \in Item : p \in Containers <=> Box(ty, p)
      /\ \A p \in Item : Box(ty, p) => Children(p) = q[p]
      /\ \A i \in Item : Root(i) <=> ty[i] # "free" /\ ~Placed(q, i)
  BY <1>3, Seen
<1>5. ASSUME NEW p \in Containers, NEW k \in DOMAIN Children(p)
      PROVE  prev[Children(p)[k]] = IF k = 1 THEN NULL ELSE Children(p)[k - 1]
  <2>1. p \in Item
    BY DEF Containers, OfType
  <2>2. Box(ty, p) /\ Children(p) = q[p] /\ q[p] \in Seq(Item)
    BY <1>4, <2>1 DEF Kids
  <2>3. k \in 1..Len(q[p])
    BY <2>2
  <2>4. prev[q[p][k]] = At(q[p], k - 1)
    BY <1>4, <2>1, <2>2, <2>3 DEF Rep, Lists, Siblings
  <2>5. At(q[p], k - 1) = IF k = 1 THEN NULL ELSE q[p][k - 1]
    BY <2>2, <2>3 DEF At
  <2> QED BY <2>2, <2>4, <2>5
<1>6. ASSUME NEW i \in Allocated, Root(i) PROVE next[i] = NULL /\ prev[i] = NULL
  <2>1. i \in Item
    BY DEF Allocated
  <2> QED BY <1>4, <1>6, <2>1 DEF Rep, Tidy
<1> QED BY <1>5, <1>6 DEF SiblingsLinked

\* The children of a container are doubly linked, and an item in no container has
\* no neighbours: what cJSON_Delete and the functions that add an item count on.
THEOREM SiblingsLinkedHolds == Spec => []SiblingsLinked
<1> QED BY Linked, TreeHolds, PTL

-----------------------------------------------------------------------------
(* The forest of JsonForest is the one that the links represent.               *)

\* The forest counts as this module does.
LEMMA SameSize ==
  ASSUME NEW S
  PROVE  Forest!Cardinality(S) = Cardinality(S)
  BY DEF Forest!Cardinality, Cardinality

\* The tree of an item, as the forest has it.
LEMMA TreeIsUnder ==
  ASSUME NEW q \in Kids, NEW i \in Item
  PROVE  Forest!TreeIn(q, i) = Under(q, i)
<1> DEFINE step == [x \in Item |-> Range(q[x])]
           E(X) == UNION {Range(q[x]) : x \in X}
           F(X) == (UNION {step[y] : y \in X}) \ {NULL}
           P == SUBSET Item
           G == [X \in P |-> X \cup E(X)]
           N == Cardinality(Item)
<1>1. N \in Nat
  BY ItemAssumption, FS_CardinalityType
<1>2. ASSUME NEW X \in SUBSET Item PROVE X \cup E(X) \in SUBSET Item /\ E(X) = F(X)
  <2> DEFINE U == UNION {step[y] : y \in X}
  <2>1. \A z : z \in E(X) <=> \E y \in X : z \in Range(q[y])
    BY Zenon
  <2>2. \A z : z \in U <=> \E y \in X : z \in step[y]
    BY Zenon
  <2>3. \A y \in X : step[y] = Range(q[y]) /\ Range(q[y]) \subseteq Item
    BY DEF Kids, Range
  <2>4. F(X) = U \ {NULL}
    OBVIOUS
  <2> HIDE DEF E, F, U, step
  <2> QED BY <2>1, <2>2, <2>3, <2>4, NullAssumption
<1>3. PICK r : /\ r = [n \in Nat |-> IF n = 0 THEN {i} ELSE r[n - 1] \cup E(r[n - 1])]
               /\ Forest!TreeIn(q, i) = r[N]
  <2>1. {i} \in P /\ G \in [P -> P]
    <3> HIDE DEF E, F
    <3> QED BY <1>2
  <2>2. PICK f \in [Nat -> P] : f[0] = {i} /\ \A n \in Nat : f[n + 1] = G[f[n]]
    <3> HIDE DEF P, G
    <3>1. Maps(P, {i}, G)
      BY <2>1 DEF Maps
    <3>2. \E f : Repeats(P, {i}, G, f)
      BY <3>1, RepeatedMap
    <3> QED BY <3>2 DEF Repeats
  <2>3. ASSUME NEW n \in Nat PROVE f[n] = IF n = 0 THEN {i} ELSE f[n - 1] \cup E(f[n - 1])
    <3>1. CASE n = 0
      BY <2>2, <3>1
    <3>2. CASE n # 0
      <4>1. n - 1 \in Nat /\ (n - 1) + 1 = n
        BY <3>2
      <4>2. f[n] = G[f[n - 1]] /\ f[n - 1] \in P
        BY <2>2, <4>1
      <4> HIDE DEF E
      <4> QED BY <3>2, <4>2
    <3> QED BY <3>1, <3>2
  <2>4. f = [n \in Nat |-> IF n = 0 THEN {i} ELSE f[n - 1] \cup E(f[n - 1])]
    <3> HIDE DEF E
    <3> QED BY <2>2, <2>3
  <2> DEFINE M == Forest!Cardinality(Item)
  <2>5. PICK r : /\ r = [n \in Nat |-> IF n = 0 THEN {i} ELSE r[n - 1] \cup E(r[n - 1])]
                 /\ Forest!TreeIn(q, i) = r[M]
    BY <2>4 DEF Forest!TreeIn, Forest!Range, Range
  <2>6. M = N
    BY SameSize
  <2> QED BY <2>5, <2>6
<1>4. r[0] = {i} /\ \A n \in Nat : r[n + 1] = r[n] \cup E(r[n])
  <2> HIDE DEF E
  <2>1. \A n \in Nat : r[n] = IF n = 0 THEN {i} ELSE r[n - 1] \cup E(r[n - 1])
    BY <1>3
  <2>2. ASSUME NEW n \in Nat PROVE r[n + 1] = r[n] \cup E(r[n])
    <3>1. n + 1 \in Nat /\ n + 1 # 0 /\ (n + 1) - 1 = n
      OBVIOUS
    <3> QED BY <2>1, <3>1
  <2> QED BY <2>1, <2>2
<1>5. \A n \in Nat : r[n] \in P
  <2> DEFINE T == {n \in Nat : r[n] \in P}
  <2>1. 0 \in T
    BY <1>4
  <2>2. \A n \in T : n + 1 \in T
    <3> HIDE DEF E, F
    <3> QED BY <1>2, <1>4
  <2> HIDE DEF T
  <2>3. T = Nat
    BY <2>1, <2>2, AllNumbers DEF T
  <2> QED BY <2>3 DEF T
<1>6. r = [n \in Nat |-> IF n = 0 THEN {i} ELSE r[n - 1] \cup F(r[n - 1])]
  <2> HIDE DEF E, F
  <2>1. ASSUME NEW n \in Nat, n # 0 PROVE E(r[n - 1]) = F(r[n - 1])
    <3>1. n - 1 \in Nat
      BY <2>1
    <3> QED BY <1>2, <1>5, <3>1
  <2> QED BY <1>3, <2>1
<1>7. PICK r2 : /\ r2 = [n \in Nat |-> IF n = 0 THEN {i} ELSE r2[n - 1] \cup F(r2[n - 1])]
                /\ Under(q, i) = r2[N]
  BY <1>6 DEF Under, Closure
<1>8. r2[0] = {i} /\ \A n \in Nat : r2[n + 1] = r2[n] \cup F(r2[n])
  <2> HIDE DEF F
  <2>1. \A n \in Nat : r2[n] = IF n = 0 THEN {i} ELSE r2[n - 1] \cup F(r2[n - 1])
    BY <1>7
  <2>2. ASSUME NEW n \in Nat PROVE r2[n + 1] = r2[n] \cup F(r2[n])
    <3>1. n + 1 \in Nat /\ n + 1 # 0 /\ (n + 1) - 1 = n
      OBVIOUS
    <3> QED BY <2>1, <3>1
  <2> QED BY <2>1, <2>2
<1>9. \A n \in Nat : r[n] = r2[n]
  <2> DEFINE T == {n \in Nat : r[n] = r2[n]}
  <2>1. 0 \in T
    BY <1>4, <1>8
  <2>2. \A n \in T : n + 1 \in T
    <3> SUFFICES ASSUME NEW n \in Nat, r[n] = r2[n] PROVE r[n + 1] = r2[n + 1]
      OBVIOUS
    <3>1. r[n] \in SUBSET Item
      BY <1>5
    <3> HIDE DEF E, F
    <3>2. E(r[n]) = F(r[n])
      BY <1>2, <3>1
    <3> QED BY <1>4, <1>8, <3>2
  <2> HIDE DEF T
  <2>3. T = Nat
    BY <2>1, <2>2, AllNumbers DEF T
  <2> QED BY <2>3 DEF T
<1> QED BY <1>1, <1>3, <1>7, <1>9

\* Sequences with the same items are the same.
LEMMA SameItems ==
  ASSUME NEW s \in Seq(Item), NEW t \in Seq(Item), Len(s) = Len(t),
         \A j \in 1..Len(t) : s[j] = t[j]
  PROVE  s = t
  OBVIOUS

\* PutIn is what InsertAt does.
LEMMA InsertAtIs ==
  ASSUME NEW s \in Seq(Item), NEW k \in 0..Len(s), NEW i \in Item, NEW t \in Seq(Item),
         PutIn(s, k, i, t)
  PROVE  t = Forest!InsertAt(s, k + 1, i)
<1> DEFINE n == Len(s)
           a == SubSeq(s, 1, k)
           b == SubSeq(s, k + 1, n)
           o == <<i>>
           u == a \o o
           v == u \o b
<1>1. n \in Nat /\ k \in Nat /\ k <= n /\ (k + 1) - 1 = k
  OBVIOUS
<1>2. v = Forest!InsertAt(s, k + 1, i)
  BY <1>1 DEF Forest!InsertAt
<1>3. a \in Seq(Item) /\ Len(a) = k /\ \A j \in 1..k : a[j] = s[j]
  BY <1>1
<1>4. b \in Seq(Item) /\ Len(b) = n - k /\ \A j \in 1..(n - k) : b[j] = s[k + j]
  BY <1>1
<1>5. o \in Seq(Item) /\ Len(o) = 1 /\ o[1] = i
  OBVIOUS
<1> HIDE DEF a, b, o, n
<1>6. u \in Seq(Item) /\ Len(u) = k + 1 /\ \A j \in 1..(k + 1) : u[j] = IF j <= k THEN s[j] ELSE i
  <2>1. /\ u \in Seq(Item) /\ Len(u) = k + 1
        /\ \A j \in 1..(k + 1) : u[j] = IF j <= k THEN a[j] ELSE o[j - k]
    <3>1. /\ u \in Seq(Item) /\ Len(u) = Len(a) + Len(o)
          /\ \A j \in 1..(Len(a) + Len(o)) : u[j] = IF j <= Len(a) THEN a[j] ELSE o[j - Len(a)]
      BY <1>3, <1>5, ConcatProperties
    <3> HIDE DEF u
    <3> QED BY <1>1, <1>3, <1>5, <3>1
  <2>2. \A j \in 1..(k + 1) : ~(j <= k) => j - k = 1
    BY <1>1
  <2>3. \A j \in 1..(k + 1) : j <= k => j \in 1..k
    BY <1>1
  <2> HIDE DEF u
  <2> QED BY <1>3, <1>5, <2>1, <2>2, <2>3
<1> HIDE DEF u
<1>7. v \in Seq(Item) /\ Len(v) = n + 1
  <2>1. v \in Seq(Item) /\ Len(v) = (k + 1) + (n - k)
    <3>1. v \in Seq(Item) /\ Len(v) = Len(u) + Len(b)
      BY <1>4, <1>6, ConcatProperties
    <3> HIDE DEF v
    <3> QED BY <1>4, <1>6, <3>1
  <2> HIDE DEF v
  <2> QED BY <1>1, <2>1
<1>8. \A j \in 1..(n + 1) : v[j] = IF j <= k + 1 THEN u[j] ELSE b[j - (k + 1)]
  BY <1>1, <1>4, <1>6
<1> HIDE DEF v
<1>9. Len(t) = n + 1 /\ \A j \in 1..(n + 1) : t[j] = IF j <= k THEN s[j] ELSE IF j = k + 1 THEN i ELSE s[j - 1]
  BY DEF PutIn, n
<1>10. ASSUME NEW j \in 1..(n + 1) PROVE v[j] = t[j]
  <2>1. CASE j <= k + 1
    <3>1. j \in 1..(k + 1) /\ v[j] = u[j]
      BY <1>1, <1>8, <2>1
    <3>2. u[j] = IF j <= k THEN s[j] ELSE i
      BY <1>6, <3>1
    <3>3. ~(j <= k) => j = k + 1
      BY <1>1, <2>1
    <3>4. t[j] = IF j <= k THEN s[j] ELSE IF j = k + 1 THEN i ELSE s[j - 1]
      BY <1>9
    <3> QED BY <3>1, <3>2, <3>3, <3>4
  <2>2. CASE ~(j <= k + 1)
    <3>1. j - (k + 1) \in 1..(n - k) /\ k + (j - (k + 1)) = j - 1
      BY <1>1, <2>2
    <3>2. b[j - (k + 1)] = s[j - 1]
      BY <1>4, <3>1
    <3> QED BY <1>1, <1>8, <1>9, <2>2, <3>2
  <2> QED BY <2>1, <2>2
<1> QED BY <1>2, <1>7, <1>9, <1>10, SameItems

\* TakeOut is what RemoveAt does.
LEMMA RemoveAtIs ==
  ASSUME NEW s \in Seq(Item), NEW k \in 1..Len(s), NEW t \in Seq(Item), TakeOut(s, k, t)
  PROVE  t = Forest!RemoveAt(s, k)
<1> DEFINE n == Len(s)
           a == SubSeq(s, 1, k - 1)
           b == SubSeq(s, k + 1, n)
           v == a \o b
<1>1. n \in Nat /\ k \in Nat /\ k - 1 \in Nat /\ k <= n
  OBVIOUS
<1>2. v = Forest!RemoveAt(s, k)
  BY DEF Forest!RemoveAt
<1>3. a \in Seq(Item) /\ Len(a) = k - 1 /\ \A j \in 1..(k - 1) : a[j] = s[j]
  BY <1>1
<1>4. b \in Seq(Item) /\ Len(b) = n - k /\ \A j \in 1..(n - k) : b[j] = s[k + j]
  BY <1>1
<1> HIDE DEF a, b, n
<1>5. v \in Seq(Item) /\ Len(v) = n - 1
  BY <1>1, <1>3, <1>4
<1>6. \A j \in 1..(n - 1) : v[j] = IF j <= k - 1 THEN a[j] ELSE b[j - (k - 1)]
  BY <1>1, <1>3, <1>4
<1> HIDE DEF v
<1>7. Len(t) = n - 1 /\ \A j \in 1..(n - 1) : t[j] = IF j < k THEN s[j] ELSE s[j + 1]
  <2>1. Len(t) \in Nat /\ Len(t) + 1 = n /\ \A j \in 1..Len(t) : t[j] = IF j < k THEN s[j] ELSE s[j + 1]
    BY DEF TakeOut, n
  <2>2. Len(t) = n - 1
    BY <1>1, <2>1
  <2> QED BY <2>1, <2>2
<1>8. ASSUME NEW j \in 1..(n - 1) PROVE v[j] = t[j]
  <2>1. CASE j < k
    BY <1>1, <1>3, <1>6, <1>7, <2>1
  <2>2. CASE ~(j < k)
    <3>1. j - (k - 1) \in 1..(n - k) /\ k + (j - (k - 1)) = j + 1
      BY <1>1, <2>2
    <3>2. b[j - (k - 1)] = s[j + 1]
      BY <1>4, <3>1
    <3> QED BY <1>1, <1>6, <1>7, <2>2, <3>2
  <2> QED BY <2>1, <2>2
<1> QED BY <1>2, <1>5, <1>7, <1>8, SameItems

\* PutIn at the end is what Append does.
LEMMA AppendIs ==
  ASSUME NEW s \in Seq(Item), NEW i \in Item, NEW t \in Seq(Item), PutIn(s, Len(s), i, t)
  PROVE  t = Append(s, i)
<1> DEFINE n == Len(s)
           v == Append(s, i)
<1>1. n \in Nat
  OBVIOUS
<1>2. v \in Seq(Item) /\ Len(v) = n + 1 /\ v[n + 1] = i /\ \A j \in 1..n : v[j] = s[j]
  OBVIOUS
<1>3. Len(t) = n + 1 /\ \A j \in 1..(n + 1) : t[j] = IF j <= n THEN s[j] ELSE IF j = n + 1 THEN i ELSE s[j - 1]
  BY DEF PutIn
<1> HIDE DEF n, v
<1>4. ASSUME NEW j \in 1..(n + 1) PROVE v[j] = t[j]
  <2>1. CASE j <= n
    BY <1>1, <1>2, <1>3, <2>1
  <2>2. CASE j = n + 1
    BY <1>1, <1>2, <1>3, <2>2
  <2> QED BY <1>1, <2>1, <2>2
<1>5. v = t
  BY <1>2, <1>3, <1>4, SameItems
<1> QED BY <1>5 DEF v

\* The items that sprout from top are its tree.
LEMMA SproutTree ==
  ASSUME NEW q \in Kids, NEW B, NEW top, Sprouts(q, B, top)
  PROVE  Under(q, top) = B
<1> DEFINE U == Under(q, top)
<1>1. B \in SUBSET Item /\ top \in B /\ top \in Item
  BY DEF Sprouts
<1>2. /\ U \in SUBSET Item /\ top \in U /\ Whole(q, U)
      /\ \A S \in SUBSET Item : top \in S /\ Whole(q, S) => U \subseteq S
  BY <1>1, UnderLeast
<1> HIDE DEF U
<1>3. Whole(q, B)
  BY <1>1 DEF Sprouts, Whole
<1>4. U \subseteq B
  BY <1>1, <1>2, <1>3
<1>5. B \ U = {}
  <2> SUFFICES ASSUME B \ U # {} PROVE FALSE
    OBVIOUS
  <2>1. PICK x \in B \ U : \A g \in B \ U : ~Edge(q, g, x)
    BY DEF Sprouts
  <2>2. x # top /\ x \in Item
    BY <1>1, <1>2
  <2>3. PICK g \in B : Edge(q, g, x)
    BY <2>1, <2>2 DEF Sprouts
  <2>4. g \in U
    BY <2>1, <2>3
  <2> QED BY <1>2, <2>1, <2>2, <2>3, <2>4 DEF Whole
<1> QED BY <1>4, <1>5 DEF U

\* All of the tree but its root are in one place of it each.
LEMMA SproutPlaces ==
  ASSUME NEW q \in Kids, Apart(q), NEW B, NEW top, Sprouts(q, B, top)
  PROVE  Cardinality({x \in B \X (1..Cardinality(Item)) : x[2] <= Len(q[x[1]])}) = Cardinality(B) - 1
<1> DEFINE N == Cardinality(Item)
           place == {x \in B \X (1..N) : x[2] <= Len(q[x[1]])}
           rest == B \ {top}
           f == [x \in place |-> q[x[1]][x[2]]]
<1>1. N \in Nat /\ B \in SUBSET Item /\ top \in B /\ IsFiniteSet(B)
  <2>1. B \in SUBSET Item /\ top \in B
    BY DEF Sprouts
  <2> QED BY <2>1, ItemAssumption, FS_CardinalityType, FS_Subset
<1>2. \A g \in B : q[g] \in Seq(Item) /\ Len(q[g]) \in Nat /\ Len(q[g]) <= N
  <2> SUFFICES ASSUME NEW g \in B PROVE q[g] \in Seq(Item) /\ Len(q[g]) \in Nat /\ Len(q[g]) <= N
    OBVIOUS
  <2>1. g \in Item /\ q[g] \in Seq(Item)
    BY <1>1 DEF Kids
  <2>2. \A k, m \in 1..Len(q[g]) : q[g][k] = q[g][m] => k = m
    BY <2>1 DEF Apart
  <2> QED BY <2>1, <2>2, RunsFit
<1>3. \A x : x \in place <=> x \in B \X (1..N) /\ x[1] \in B /\ x[2] \in 1..Len(q[x[1]])
  BY <1>1, <1>2
<1>4. \A g \in B : \A k \in 1..Len(q[g]) : <<g, k>> \in place
  BY <1>1, <1>2
<1> HIDE DEF place, N
<1>5. f \in [place -> rest]
  <2> SUFFICES ASSUME NEW x \in place PROVE q[x[1]][x[2]] \in rest
    OBVIOUS
  <2>1. x[1] \in B /\ x[2] \in 1..Len(q[x[1]])
    BY <1>3
  <2>2. q[x[1]][x[2]] \in Item
    BY <1>2, <2>1
  <2>3. Edge(q, x[1], q[x[1]][x[2]])
    BY <2>1 DEF Edge
  <2> QED BY <2>1, <2>2, <2>3 DEF Sprouts
<1>6. f \in Injection(place, rest)
  <2> SUFFICES ASSUME NEW x \in place, NEW y \in place, f[x] = f[y] PROVE x = y
    BY <1>5 DEF Injection, IsInjective
  <2>1. x[1] \in B /\ x[2] \in 1..Len(q[x[1]]) /\ x \in B \X (1..N)
    BY <1>3
  <2>2. y[1] \in B /\ y[2] \in 1..Len(q[y[1]]) /\ y \in B \X (1..N)
    BY <1>3
  <2>3. x[1] = y[1] /\ x[2] = y[2]
    BY <1>1, <2>1, <2>2 DEF Apart
  <2> QED BY <2>1, <2>2, <2>3
<1>7. f \in Surjection(place, rest)
  <2> SUFFICES ASSUME NEW b \in rest PROVE \E x \in place : f[x] = b
    BY <1>5 DEF Surjection
  <2>1. PICK g \in B : Edge(q, g, b)
    BY DEF Sprouts
  <2>2. PICK k \in 1..Len(q[g]) : q[g][k] = b
    BY <2>1 DEF Edge
  <2>3. PICK x : x = <<g, k>>
    OBVIOUS
  <2>4. x \in place /\ x[1] = g /\ x[2] = k
    BY <1>4, <2>3
  <2> QED BY <2>2, <2>4
<1>8. IsFiniteSet(rest) /\ Cardinality(rest) = Cardinality(B) - 1
  BY <1>1, FS_RemoveElement
<1> HIDE DEF f, rest
<1>9. Cardinality(place) = Cardinality(rest)
  BY <1>6, <1>7, <1>8, FS_Injection
<1> QED BY <1>8, <1>9 DEF place, N

-----------------------------------------------------------------------------
(* Every move is a step of JsonForest.                                         *)

\* The children as the forest sees them.
Trees == [i \in Item |-> IF type[i] \in {"array", "object"} THEN Children(i) ELSE <<>>]
Used(ty) == {i \in Item : ty[i] # "free"}

Seeing == \A q \in Kids : (Shape(links, type, q) /\ Grounded(q)) => Trees = q

\* Where the links represent q, the forest sees q.
LEMMA Viewed == Seeing
<1> SUFFICES ASSUME NEW q \in Kids, Shape(links, type, q), Grounded(q) PROVE Trees = q
  BY DEF Seeing
<1>1. PICK L, ty : L = links /\ ty = type
  OBVIOUS
<1>2. Snapshot(L, ty, q)
  BY <1>1 DEF Snapshot
<1>3. /\ \A p \in Item : p \in Containers <=> Box(ty, p)
      /\ \A p \in Item : Box(ty, p) => Children(p) = q[p]
      /\ \A p \in Item : ~Box(ty, p) => q[p] = <<>>
  BY <1>2, Seen
<1>4. \A p \in Item : type[p] \in {"array", "object"} <=> Box(ty, p)
  BY <1>1 DEF Box
<1> QED BY <1>3, <1>4 DEF Trees, Kids

\* What a move looks like in the forest before the call, and after it.
View(ty, q, ty2, q2) ==
  /\ Trees = q /\ Trees' = q2 /\ Allocated = Used(ty) /\ Allocated' = Used(ty2)
  /\ q \in Kids /\ q2 \in Kids

\* An item without a place is a root.
LEMMA NotPlaced ==
  ASSUME NEW q \in Kids, NEW i \in Item, ~Placed(q, i)
  PROVE  \A p \in Item : i \notin Forest!Range(q[p])
  BY DEF Placed, Forest!Range, Kids

\* Attaching a root is a step of the forest.
LEMMA AttachIs ==
  ASSUME NEW ty, NEW q, NEW ty2, NEW q2, View(ty, q, ty2, q2), Attaches(ty, q, ty2, q2)
  PROVE  Forest!Attach
<1>1. PICK p \in Item, i \in Item :
        /\ ty[p] # "free" /\ ty[i] # "free" /\ ~Placed(q, i) /\ p \notin Under(q, i)
        /\ \E k \in 0..Len(q[p]), t \in Seq(Item) : PutIn(q[p], k, i, t) /\ q2 = [q EXCEPT ![p] = t]
  BY DEF Attaches
<1>2. PICK k \in 0..Len(q[p]), t \in Seq(Item) : PutIn(q[p], k, i, t) /\ q2 = [q EXCEPT ![p] = t]
  BY <1>1
<1>3. q \in Kids /\ q[p] \in Seq(Item) /\ Len(q[p]) \in Nat
  BY DEF View, Kids
<1>4. k + 1 \in 1..(Len(q[p]) + 1)
  BY <1>3
<1>5. t = Forest!InsertAt(q[p], k + 1, i)
  BY <1>2, <1>3, InsertAtIs
<1>6. \E at \in 1..(Len(q[p]) + 1) : q2 = [q EXCEPT ![p] = Forest!InsertAt(q[p], at, i)]
  BY <1>2, <1>4, <1>5
<1>7. p \notin Forest!TreeIn(q, i)
  BY <1>1, <1>3, TreeIsUnder
<1>8. \A g \in Item : i \notin Forest!Range(q[g])
  BY <1>1, <1>3, NotPlaced
<1>9. p \in Allocated /\ i \in Allocated /\ Trees = q /\ Trees' = q2 /\ UNCHANGED Allocated
  BY <1>1 DEF View, Used, Attaches
<1>10. Forest!Root(i) /\ p \notin Forest!Tree(i)
  BY <1>7, <1>8, <1>9 DEF Forest!Root, Forest!Tree, Trees
<1>11. \E at \in 1..(Len(Trees[p]) + 1) : Trees' = [Trees EXCEPT ![p] = Forest!InsertAt(Trees[p], at, i)]
  BY <1>6, <1>9
<1>12. Len(Trees'[p]) > Len(Trees[p])
  <2>1. Trees'[p] = t /\ Trees[p] = q[p]
    BY <1>2, <1>3, <1>9 DEF Kids
  <2>2. Len(t) = Len(q[p]) + 1
    BY <1>2 DEF PutIn
  <2> QED BY <1>3, <2>1, <2>2
<1> QED BY <1>9, <1>10, <1>11, <1>12 DEF Forest!Attach, Trees

\* Attaching a reference is a step of the forest.
LEMMA AttachNewIs ==
  ASSUME NEW ty, NEW q, NEW ty2, NEW q2, View(ty, q, ty2, q2), AttachesNew(ty, q, ty2, q2), ty \in Types
  PROVE  Forest!AttachNew
<1>1. PICK p \in Item, i \in Item :
        /\ ty[p] # "free" /\ ty[i] = "free" /\ ~Placed(q, i) /\ q[i] = <<>>
        /\ ty2 = [ty EXCEPT ![i] = "reference"]
        /\ \E t \in Seq(Item) : PutIn(q[p], Len(q[p]), i, t) /\ q2 = [q EXCEPT ![p] = t]
  BY DEF AttachesNew
<1>2. PICK t \in Seq(Item) : PutIn(q[p], Len(q[p]), i, t) /\ q2 = [q EXCEPT ![p] = t]
  BY <1>1
<1>3. q \in Kids /\ q[p] \in Seq(Item) /\ Trees = q /\ Trees' = q2
  BY DEF View, Kids
<1>4. q2 = [q EXCEPT ![p] = Append(q[p], i)]
  BY <1>2, <1>3, AppendIs
<1>5. Used(ty2) = Used(ty) \cup {i}
  BY <1>1 DEF Used, Types
<1>6. p \in Allocated /\ i \in Item \ Allocated /\ Allocated' = Allocated \cup {i}
  BY <1>1, <1>5 DEF View, Used
<1>7. Trees' = [Trees EXCEPT ![p] = Append(Trees[p], i)]
  BY <1>3, <1>4
<1> QED BY <1>6, <1>7 DEF Forest!AttachNew, Trees

\* Detaching a child is a step of the forest.
LEMMA DetachIs ==
  ASSUME NEW ty, NEW q, NEW ty2, NEW q2, View(ty, q, ty2, q2), Detaches(ty, q, ty2, q2)
  PROVE  Forest!Detach
<1>1. PICK p \in Item :
        /\ ty[p] # "free"
        /\ \E k \in 1..Len(q[p]), t \in Seq(Item) : TakeOut(q[p], k, t) /\ q2 = [q EXCEPT ![p] = t]
  BY DEF Detaches
<1>2. PICK k \in 1..Len(q[p]), t \in Seq(Item) : TakeOut(q[p], k, t) /\ q2 = [q EXCEPT ![p] = t]
  BY <1>1
<1>3. q \in Kids /\ q[p] \in Seq(Item) /\ Trees = q /\ Trees' = q2
  BY DEF View, Kids
<1>4. t = Forest!RemoveAt(q[p], k) /\ k \in DOMAIN q[p]
  BY <1>2, <1>3, RemoveAtIs
<1>5. p \in Allocated /\ UNCHANGED Allocated
  BY <1>1 DEF View, Used, Detaches
<1>6. k \in DOMAIN Trees[p] /\ Trees' = [Trees EXCEPT ![p] = Forest!RemoveAt(Trees[p], k)]
  BY <1>2, <1>3, <1>4
<1>7. Len(Trees'[p]) < Len(Trees[p])
  <2>1. Trees'[p] = t /\ Trees[p] = q[p]
    BY <1>2, <1>3 DEF Kids
  <2>2. Len(t) + 1 = Len(q[p]) /\ Len(t) \in Nat
    BY <1>2 DEF TakeOut
  <2> QED BY <2>1, <2>2
<1> QED BY <1>5, <1>6, <1>7 DEF Forest!Detach, Trees

\* Freeing a root is a step of the forest.
LEMMA FreeIs ==
  ASSUME NEW ty, NEW q, NEW ty2, NEW q2, View(ty, q, ty2, q2), Frees(ty, q, ty2, q2)
  PROVE  Forest!Free
<1>1. PICK i \in Item :
        /\ ty[i] # "free" /\ ~Placed(q, i)
        /\ ty2 = Freed(Under(q, i), ty) /\ q2 = Emptied(Under(q, i), q)
  BY DEF Frees
<1>2. q \in Kids /\ Trees = q /\ Trees' = q2
  BY DEF View
<1>3. Forest!TreeIn(q, i) = Under(q, i) /\ i \in Under(q, i)
  BY <1>2, TreeIsUnder, UnderLeast
<1>4. \A g \in Item : i \notin Forest!Range(q[g])
  BY <1>1, <1>2, NotPlaced
<1>5. i \in Allocated /\ Allocated' = Allocated \ Under(q, i)
  BY <1>1 DEF View, Used, Freed
<1>6. i \in Allocated \ Allocated'
  BY <1>3, <1>5
<1>7. Forest!Root(i) /\ Forest!Tree(i) = Under(q, i)
  BY <1>2, <1>3, <1>4, <1>5 DEF Forest!Root, Forest!Tree, Trees
<1>8. Trees' = Forest!Without(Forest!Tree(i), Trees)
  BY <1>1, <1>2, <1>7 DEF Forest!Without, Emptied
<1> QED BY <1>5, <1>6, <1>7, <1>8 DEF Forest!Free, Trees

\* Freeing a child, or replacing it, is a step of the forest.
LEMMA FreeChildIs ==
  ASSUME NEW ty, NEW q, NEW ty2, NEW q2, View(ty, q, ty2, q2), FreesChild(ty, q, ty2, q2)
  PROVE  Forest!FreeChild
<1>1. PICK p \in Item : \E k \in 1..Len(q[p]), t \in Seq(Item) :
        /\ ty[p] # "free" /\ ty[q[p][k]] # "free" /\ p \notin Under(q, q[p][k])
        /\ Without(ty, q, p, k, t)
        /\ ty2 = Freed(Under(q, q[p][k]), ty)
        /\ q2 = Emptied(Under(q, q[p][k]), [q EXCEPT ![p] = t])
  BY DEF FreesChild
<1>2. PICK k \in 1..Len(q[p]), t \in Seq(Item) :
        /\ ty[p] # "free" /\ ty[q[p][k]] # "free" /\ p \notin Under(q, q[p][k])
        /\ Without(ty, q, p, k, t)
        /\ ty2 = Freed(Under(q, q[p][k]), ty)
        /\ q2 = Emptied(Under(q, q[p][k]), [q EXCEPT ![p] = t])
  BY <1>1
<1>3. PICK i : i = q[p][k]
  OBVIOUS
<1>4. q \in Kids /\ q[p] \in Seq(Item) /\ Trees = q /\ Trees' = q2 /\ i \in Item /\ k \in DOMAIN q[p]
  BY <1>3 DEF View, Kids
<1>5. Forest!TreeIn(q, i) = Under(q, i) /\ i \in Under(q, i)
  BY <1>4, TreeIsUnder, UnderLeast
<1>6. i \in Allocated /\ p \in Allocated /\ Allocated' = Allocated \ Under(q, i)
  BY <1>2, <1>3, <1>4 DEF View, Used, Freed
<1>7. i \in Allocated \ Allocated' /\ Forest!Tree(i) = Under(q, i)
  BY <1>4, <1>5, <1>6 DEF Forest!Tree, Trees
<1>8. Trees' = Forest!Without(Forest!Tree(i), [Trees EXCEPT ![p] = t])
  BY <1>2, <1>3, <1>4, <1>7 DEF Forest!Without, Emptied
<1>9. k \in DOMAIN Trees[p] /\ Trees[p][k] = i
  BY <1>3, <1>4
<1> DEFINE Taken(at) == Trees' = Forest!Without(Forest!Tree(i), [Trees EXCEPT ![p] = Forest!RemoveAt(Trees[p], at)])
           Swapped(at) == \E new \in Allocated :
             /\ Forest!Root(new) /\ p \notin Forest!Tree(new)
             /\ Trees' = Forest!Without(Forest!Tree(i), [Trees EXCEPT ![p] = Forest!ReplaceAt(Trees[p], at, new)])
<1>f. ASSUME Taken(k) \/ Swapped(k) PROVE Forest!FreeChild
  <2>1. Allocated' = Allocated \ Forest!Tree(i)
    BY <1>6, <1>7
  <2>2. \E at \in DOMAIN Trees[p] :
          Trees[p][at] = i /\ Allocated' = Allocated \ Forest!Tree(i) /\ (Taken(at) \/ Swapped(at))
    <3> HIDE DEF Taken, Swapped
    <3> QED BY <1>f, <1>9, <2>1
  <2> DEFINE Step(j, g, at) ==
               /\ Trees[g][at] = j
               /\ Allocated' = Allocated \ Forest!Tree(j)
               /\ \/ Trees' = Forest!Without(Forest!Tree(j), [Trees EXCEPT ![g] = Forest!RemoveAt(Trees[g], at)])
                  \/ \E new \in Allocated :
                       /\ Forest!Root(new) /\ g \notin Forest!Tree(new)
                       /\ Trees' = Forest!Without(Forest!Tree(j), [Trees EXCEPT ![g] = Forest!ReplaceAt(Trees[g], at, new)])
  <2>3. \E at \in DOMAIN Trees[p] : Step(i, p, at)
    BY <2>2
  <2>4. \E j \in Allocated \ Allocated', g \in Allocated : \E at \in DOMAIN Trees[g] : Step(j, g, at)
    <3> HIDE DEF Step
    <3> QED BY <1>6, <1>7, <2>3
  <2> QED BY <2>4, Zenon DEF Forest!FreeChild, Trees
<1>10. CASE TakeOut(q[p], k, t)
  <2>1. t = Forest!RemoveAt(Trees[p], k)
    BY <1>4, <1>10, RemoveAtIs
  <2>2. Trees' = Forest!Without(Forest!Tree(i), [Trees EXCEPT ![p] = Forest!RemoveAt(Trees[p], k)])
    BY <1>8, <2>1
  <2> QED BY <1>f, <2>2
<1>11. CASE ~TakeOut(q[p], k, t)
  <2>1. PICK r \in Item : /\ ty[r] # "free" /\ ~Placed(q, r) /\ p \notin Under(q, r)
                          /\ t = [q[p] EXCEPT ![k] = r]
    BY <1>2, <1>11 DEF Without
  <2>2. r \in Allocated /\ p \notin Forest!TreeIn(q, r) /\ \A g \in Item : r \notin Forest!Range(q[g])
    BY <1>4, <2>1, TreeIsUnder, NotPlaced DEF View, Used
  <2>3. Forest!Root(r) /\ p \notin Forest!Tree(r)
    BY <1>4, <2>2 DEF Forest!Root, Forest!Tree, Trees
  <2>4. t = Forest!ReplaceAt(Trees[p], k, r)
    BY <1>4, <2>1 DEF Forest!ReplaceAt
  <2>5. Trees' = Forest!Without(Forest!Tree(i), [Trees EXCEPT ![p] = Forest!ReplaceAt(Trees[p], k, r)])
    BY <1>8, <2>4
  <2> QED BY <1>f, <2>2, <2>3, <2>5
<1> QED BY <1>10, <1>11

\* Building a tree is a step of the forest.
LEMMA BuildIs ==
  ASSUME NEW ty, NEW q, NEW ty2, NEW q2, View(ty, q, ty2, q2), Apart(q2), Builds(ty, q, ty2, q2)
  PROVE  Forest!Build
<1>1. PICK B \in SUBSET Item, top \in Item :
        /\ \A b \in B : ty[b] = "free" /\ ty2[b] # "free" /\ ~Placed(q, b)
        /\ \A x \in Item \ B : ty2[x] = ty[x] /\ q2[x] = q[x]
        /\ Sprouts(q2, B, top)
  BY DEF Builds
<1>2. Trees = q /\ Trees' = q2 /\ q2 \in Kids
  BY DEF View
<1>3. Allocated \subseteq Allocated' /\ Allocated' \ Allocated = B
  BY <1>1 DEF View, Used
<1>4. Forest!TreeIn(Trees', top) = B /\ top \in B
  <2>1. Forest!TreeIn(q2, top) = B
    BY <1>1, <1>2, TreeIsUnder, SproutTree
  <2> QED BY <1>1, <1>2, <2>1 DEF Sprouts
<1>5. \A x \in Item \ B : Trees'[x] = Trees[x]
  BY <1>1, <1>2
<1> DEFINE place == {x \in B \X (1..Forest!Cardinality(Item)) : x[2] <= Len(Trees'[x[1]])}
<1>6. Forest!Cardinality(place) = Forest!Cardinality(B) - 1
  <2>1. place = {x \in B \X (1..Cardinality(Item)) : x[2] <= Len(q2[x[1]])}
    BY <1>2, SameSize
  <2>2. Cardinality(place) = Cardinality(B) - 1
    BY <1>1, <1>2, <2>1, SproutPlaces
  <2> HIDE DEF place
  <2> QED BY <2>2, SameSize
<1> QED BY <1>3, <1>4, <1>5, <1>6 DEF Forest!Build, Trees

-----------------------------------------------------------------------------
(* The links implement the forest.                                             *)

\* Every move is a step of the forest.
LEMMA MoveIsStep ==
  ASSUME NEW ty \in Types, NEW q, NEW ty2, NEW q2, View(ty, q, ty2, q2), Apart(q2), Moves(ty, q, ty2, q2)
  PROVE  Forest!Next
  BY AttachIs, AttachNewIs, DetachIs, FreeIs, FreeChildIs, BuildIs DEF Moves, Forest!Next

\* The forest is empty at first.
LEMMA ForestInit == Init => Forest!Init
<1> SUFFICES ASSUME Init PROVE Forest!Init
  OBVIOUS
<1>1. Allocated = {} /\ \A i \in Item : type[i] \notin {"array", "object"}
  BY DEF Init, Allocated
<1> QED BY <1>1 DEF Forest!Init

\* Every call is a step of the forest, or leaves it as it is.
LEMMA ForestStep == (TreeInv /\ TreeInv' /\ [Next]_vars) => [Forest!Next]_<<Allocated, Trees>>
<1> SUFFICES ASSUME TreeInv, TreeInv', [Next]_vars
             PROVE  [Forest!Next]_<<Allocated, Trees>>
  OBVIOUS
<1>1. CASE UNCHANGED vars
  BY <1>1 DEF vars, Allocated, Trees, Children
<1>2. CASE Next
  <2>1. PICK q \in Kids : Shape(links, type, q) /\ Grounded(q)
    BY DEF TreeInv, Represented
  <2>2. PICK L, ty : L = links /\ ty = type
    OBVIOUS
  <2>3. Snapshot(L, ty, q) /\ ty \in Types
    BY <2>1, <2>2 DEF Snapshot, Shape
  <2>4. CASE Arrives(ty, q)
    <3>1. PICK q2 : Shape(links', type', q2) /\ Moves(ty, q, type', q2)
      BY <2>4 DEF Arrives
    <3>2. q2 \in Kids /\ Apart(q2)
      BY <3>1 DEF Shape, Rep
    <3>3. PICK ty2 : ty2 = type'
      OBVIOUS
    <3>4. Grounded(q2)
      BY <2>1, <3>1, <3>3, MoveGrounded
    <3>5. Trees = q
      BY <2>1, Viewed DEF Seeing
    <3>6. Seeing'
      BY Viewed, PTL
    <3>7. Trees' = q2
      BY <3>1, <3>2, <3>4, <3>6 DEF Seeing
    <3>8. Allocated = Used(ty) /\ Allocated' = Used(ty2)
      BY <2>2, <3>3 DEF Allocated, Used
    <3>9. View(ty, q, ty2, q2)
      BY <3>2, <3>5, <3>7, <3>8 DEF View
    <3> QED BY <2>3, <3>1, <3>2, <3>3, <3>9, MoveIsStep
  <2>5. CASE Fault
    BY <2>5 DEF Fault, Allocated, Trees, Children
  <2>6. StringOK
    BY DEF TreeInv, TypeOK, Strings, StringOK
  <2> QED BY <1>1, <1>2, <2>3, <2>4, <2>5, <2>6, StepArrives
<1> QED BY <1>1, <1>2

\* The tree functions implement the ordered forest: every call attaches, detaches,
\* builds or frees whole subtrees and leaves the order of all others alone.
THEOREM RefinesForest == Spec => ImplementsForest
<1>1. (TreeInv /\ TreeInv' /\ [Next]_vars)
        => [Forest!Next]_<<Allocated, [i \in Item |-> IF type[i] \in {"array", "object"} THEN Children(i) ELSE <<>>]>>
  BY ForestStep DEF Trees
<1> QED BY <1>1, ForestInit, TreeHolds, PTL DEF Spec, ImplementsForest, Forest!Spec

=============================================================================
