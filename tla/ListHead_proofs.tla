--------------------------- MODULE ListHead_proofs ---------------------------
(* list.h implements lists, for any number of heads and entries. That every    *)
(* node of a ring leads back and forth is not inductive: joining a list to a   *)
(* head that is in the same ring would tear it. The invariant says more: the   *)
(* links represent a sequence of entries for each head, no entry has two       *)
(* places in them, and a traversal stands next to the rest of the sequence it  *)
(* has still to visit. Each operation moves from one family of sequences to    *)
(* another, which is the step that the module Lists allows.                    *)
EXTENDS ListHead, FiniteSetTheorems, SequenceTheorems, WellFoundedInduction, TLAPS

-----------------------------------------------------------------------------
(* The sequences that the links represent.                                    *)

LinkType ==
  /\ next \in [Node -> Node \cup {NULL}] /\ prev \in [Node -> Node \cup {NULL}]
  /\ live \subseteq Heads

\* The links form the ring of h with the entries s, in both directions.
Chain(h, s) ==
  \A i \in 0..Len(s) : /\ next[At(h, s, i)] = At(h, s, i + 1)
                       /\ prev[At(h, s, i + 1)] = At(h, s, i)

\* No entry has two places in the lists q.
Apart(q) ==
  \A h, k \in Heads : \A i \in 1..Len(q[h]), j \in 1..Len(q[k]) :
    q[h][i] = q[k][j] => h = k /\ i = j

HasPlace(q, e) == \E h \in Heads : \E i \in 1..Len(q[h]) : q[h][i] = e

Represents(q) ==
  /\ \A h \in live : Chain(h, q[h])
  /\ \A h \in Heads \ live : q[h] = <<>>
  /\ Apart(q)
  /\ \A e \in Entries : ~HasPlace(q, e) => next[e] \in {NULL, e} /\ prev[e] = next[e]

Lists == [Heads -> Seq(Entries)]

\* The nodes of a ring: the head at both ends, the entries between.
LEMMA AtValues ==
  ASSUME NEW h \in Heads, NEW s \in Seq(Entries)
  PROVE  /\ Len(s) \in Nat
         /\ At(h, s, 0) = h /\ At(h, s, Len(s) + 1) = h
         /\ \A i \in 1..Len(s) : At(h, s, i) = s[i] /\ s[i] \in Entries
         /\ \A i \in 0..(Len(s) + 1) : At(h, s, i) \in Node
  BY DEF At, Node

\* No node occurs twice on the way round.
LEMMA AtDistinct ==
  ASSUME NEW q \in Lists, Apart(q), NEW h \in Heads
  PROVE  /\ \A i, j \in 0..Len(q[h]) : At(h, q[h], i) = At(h, q[h], j) => i = j
         /\ \A i, j \in 1..(Len(q[h]) + 1) : At(h, q[h], i) = At(h, q[h], j) => i = j
<1>1. q[h] \in Seq(Entries)
  BY DEF Lists
<1>2. \A i, j \in 1..Len(q[h]) : q[h][i] = q[h][j] => i = j
  BY DEF Apart
<1>3. \A i \in 1..Len(q[h]) : q[h][i] # h
  BY <1>1, NodeAssumption
<1> QED BY <1>1, <1>2, <1>3 DEF At

\* Two rings have no node in common.
LEMMA AtApart ==
  ASSUME NEW q \in Lists, Apart(q), NEW h \in Heads, NEW k \in Heads, h # k
  PROVE  \A i \in 0..(Len(q[h]) + 1), j \in 0..(Len(q[k]) + 1) :
           At(h, q[h], i) # At(k, q[k], j)
<1>1. q[h] \in Seq(Entries) /\ q[k] \in Seq(Entries)
  BY DEF Lists
<1>2. \A i \in 1..Len(q[h]), j \in 1..Len(q[k]) : q[h][i] # q[k][j]
  BY DEF Apart
<1>3. /\ \A i \in 1..Len(q[h]) : q[h][i] \notin Heads
      /\ \A i \in 1..Len(q[k]) : q[k][i] \notin Heads
  BY <1>1, NodeAssumption
<1> QED BY <1>1, <1>2, <1>3 DEF At

\* A ring whose nodes keep their links stays a ring.
LEMMA ChainKept ==
  ASSUME NEW h \in Heads, NEW s \in Seq(Entries), Chain(h, s),
         \A i \in 0..Len(s) : /\ next'[At(h, s, i)] = next[At(h, s, i)]
                              /\ prev'[At(h, s, i)] = prev[At(h, s, i)]
  PROVE  Chain(h, s)'
<1>1. \A i \in 0..Len(s) : prev'[At(h, s, i + 1)] = prev[At(h, s, i + 1)]
  BY AtValues DEF At
<1> QED BY <1>1 DEF Chain

\* Changing one list keeps the places apart, if its new entries are.
LEMMA ApartExcept ==
  ASSUME NEW q \in Lists, Apart(q), NEW h \in Heads, NEW t \in Seq(Entries),
         \A i, j \in 1..Len(t) : t[i] = t[j] => i = j,
         \A g \in Heads \ {h} : \A i \in 1..Len(t), j \in 1..Len(q[g]) : t[i] # q[g][j]
  PROVE  Apart([q EXCEPT ![h] = t])
<1> DEFINE r == [q EXCEPT ![h] = t]
<1>1. r[h] = t /\ \A g \in Heads \ {h} : r[g] = q[g]
  BY DEF Lists
<1> SUFFICES ASSUME NEW g \in Heads, NEW f \in Heads,
                    NEW i \in 1..Len(r[g]), NEW j \in 1..Len(r[f]), r[g][i] = r[f][j]
             PROVE  g = f /\ i = j
  BY DEF Apart
<1> HIDE DEF r
<1>2. CASE g = h \/ f = h
  BY <1>1, <1>2
<1>3. CASE g # h /\ f # h
  BY <1>1, <1>3 DEF Apart
<1> QED BY <1>2, <1>3

\* An entry without a place goes between the k-th node of the ring of h and the
\* next one.
LEMMA InsertPlace ==
  ASSUME LinkType, NEW q \in Lists, Represents(q), NEW h \in live,
         NEW e \in Entries, ~HasPlace(q, e), NEW k \in 0..Len(q[h]),
         InsertBetween(e, At(h, q[h], k), At(h, q[h], k + 1)), live' = live,
         NEW t \in Seq(Entries), Len(t) = Len(q[h]) + 1, t[k + 1] = e,
         \A j \in 1..k : t[j] = q[h][j],
         \A j \in (k + 1)..Len(q[h]) : t[j + 1] = q[h][j]
  PROVE  LinkType' /\ Represents([q EXCEPT ![h] = t])'
<1> DEFINE s == q[h]
           r == [q EXCEPT ![h] = t]
           before == At(h, s, k)
           after == At(h, s, k + 1)
<1>1. /\ h \in Heads /\ s \in Seq(Entries) /\ Apart(q) /\ Len(s) \in Nat /\ k \in Nat
      /\ k + 1 \in 1..(Len(s) + 1)
      /\ r \in Lists /\ r[h] = t /\ \A g \in Heads \ {h} : r[g] = q[g]
  BY DEF LinkType, Lists, Represents
<1>at. \A i \in 0..Len(s) : /\ i + 1 \in 0..(Len(s) + 1) /\ i \in 0..(Len(s) + 1)
                            /\ At(h, s, i) \in Node /\ At(h, s, i + 1) \in Node
  BY <1>1, AtValues
<1>2. before \in Node /\ after \in Node /\ e \in Node
  BY <1>at DEF Node
<1>4. \A g \in Heads : \A i \in 0..(Len(q[g]) + 1) : At(g, q[g], i) # e
  BY <1>1, NodeAssumption DEF HasPlace, At
<1>3. \A i \in 0..(Len(s) + 1) : At(h, s, i) # e
  BY <1>1, <1>4
<1>5. /\ next' = [next EXCEPT ![e] = after, ![before] = e]
      /\ prev' = [prev EXCEPT ![after] = e, ![e] = before]
  BY DEF InsertBetween
<1>6. /\ next'[e] = after /\ next'[before] = e /\ prev'[after] = e /\ prev'[e] = before
      /\ \A x \in Node \ {e, before} : next'[x] = next[x]
      /\ \A x \in Node \ {e, after} : prev'[x] = prev[x]
  <2>1. before # e /\ after # e
    BY <1>1, <1>3
  <2> QED BY <1>2, <1>5, <2>1 DEF LinkType
<1>7. LinkType'
  BY <1>2, <1>5 DEF LinkType
<1>8. /\ \A i \in 0..k : At(h, t, i) = At(h, s, i)
      /\ At(h, t, k + 1) = e
      /\ \A i \in (k + 1)..(Len(s) + 1) : At(h, t, i + 1) = At(h, s, i)
  BY <1>1 DEF At
<1>9. ASSUME NEW i \in 0..Len(s), i # k
      PROVE  next'[At(h, s, i)] = At(h, s, i + 1) /\ prev'[At(h, s, i + 1)] = At(h, s, i)
  <2>1. i + 1 \in 1..(Len(s) + 1) /\ i + 1 # k + 1
    BY <1>1, <1>9
  <2>2. At(h, s, i) # before /\ At(h, s, i + 1) # after
    BY <1>1, <1>9, <2>1, AtDistinct
  <2>3. At(h, s, i) \in Node \ {e, before} /\ At(h, s, i + 1) \in Node \ {e, after}
    BY <1>3, <1>at, <2>2
  <2>4. next[At(h, s, i)] = At(h, s, i + 1) /\ prev[At(h, s, i + 1)] = At(h, s, i)
    BY DEF Represents, Chain
  <2> QED BY <1>6, <2>3, <2>4
<1>10. Chain(h, t)'
  <2> SUFFICES ASSUME NEW i \in 0..(Len(s) + 1)
               PROVE  /\ next'[At(h, t, i)] = At(h, t, i + 1)
                      /\ prev'[At(h, t, i + 1)] = At(h, t, i)
    BY DEF Chain, At
  <2>1. CASE i < k
    <3>1. i \in 0..Len(s) /\ i # k /\ i \in 0..k /\ i + 1 \in 0..k
      BY <1>1, <2>1
    <3>2. At(h, t, i) = At(h, s, i) /\ At(h, t, i + 1) = At(h, s, i + 1)
      BY <1>8, <3>1
    <3> QED BY <1>9, <3>1, <3>2
  <2>2. CASE i = k \/ i = k + 1
    BY <1>1, <1>6, <1>8, <2>2
  <2>3. CASE i > k + 1
    <3>1. PICK j \in 0..Len(s) : j + 1 = i /\ j # k /\ j \in (k + 1)..(Len(s) + 1)
                                /\ i \in (k + 1)..(Len(s) + 1)
      <4>1. i - 1 \in 0..Len(s) /\ (i - 1) + 1 = i /\ i - 1 # k
            /\ i - 1 \in (k + 1)..(Len(s) + 1) /\ i \in (k + 1)..(Len(s) + 1)
        BY <1>1, <2>3
      <4> QED BY <4>1
    <3>2. At(h, t, i) = At(h, s, j) /\ At(h, t, i + 1) = At(h, s, j + 1)
      BY <1>8, <3>1
    <3> QED BY <1>9, <3>1, <3>2
  <2> QED BY <1>1, <2>1, <2>2, <2>3
<1>11. ASSUME NEW g \in live', g # h PROVE Chain(g, r[g])'
  <2>1. g \in Heads /\ g \in live /\ q[g] \in Seq(Entries) /\ r[g] = q[g]
    BY <1>1, <1>11 DEF LinkType, Lists
  <2>2. \A i \in 0..Len(q[g]) : At(g, q[g], i) \in Node \ {e, before, after}
    <3> TAKE i \in 0..Len(q[g])
    <3>1. i \in 0..(Len(q[g]) + 1) /\ k \in 0..(Len(s) + 1) /\ k + 1 \in 0..(Len(s) + 1)
      BY <1>1, <2>1
    <3>2. At(g, q[g], i) \in Node /\ At(g, q[g], i) # e
      BY <1>4, <2>1, <3>1, AtValues
    <3>3. At(g, q[g], i) # before /\ At(g, q[g], i) # after
      BY <1>1, <1>11, <2>1, <3>1, AtApart
    <3> QED BY <3>2, <3>3
  <2>3. Chain(g, q[g])
    BY <2>1 DEF Represents
  <2>4. Chain(g, q[g])'
    BY <1>6, <2>1, <2>2, <2>3, ChainKept
  <2> QED BY <2>1, <2>4
<1> DEFINE from(x) == IF x <= k THEN x ELSE x - 1
<1>p. \A x \in 1..Len(t) : x # k + 1 => from(x) \in 1..Len(s) /\ t[x] = s[from(x)]
  <2> SUFFICES ASSUME NEW x \in 1..Len(t), x # k + 1
               PROVE  from(x) \in 1..Len(s) /\ t[x] = s[from(x)]
    OBVIOUS
  <2>1. CASE x <= k
    BY <1>1, <2>1
  <2>2. CASE x > k
    <3>1. x - 1 \in (k + 1)..Len(s) /\ (x - 1) + 1 = x
      BY <1>1, <2>2
    <3> QED BY <1>1, <2>2, <3>1
  <2> QED BY <1>1, <2>1, <2>2
<1>12. Apart(r)
  <2>1. ASSUME NEW i \in 1..Len(t), NEW j \in 1..Len(t), t[i] = t[j] PROVE i = j
    <3>1. \A x \in 1..Len(s), y \in 1..Len(s) : s[x] = s[y] => x = y
      BY <1>1 DEF Apart
    <3>2. \A x \in 1..Len(s) : s[x] # e
      BY <1>1 DEF HasPlace
    <3>3. CASE i = k + 1 \/ j = k + 1
      <4>1. \A x \in 1..Len(t) : x # k + 1 => t[x] # e
        <5> HIDE DEF from, s
        <5> QED BY <1>p, <3>2
      <4> QED BY <2>1, <3>3, <4>1
    <3>4. CASE i # k + 1 /\ j # k + 1
      <4>1. /\ from(i) \in 1..Len(s) /\ t[i] = s[from(i)]
            /\ from(j) \in 1..Len(s) /\ t[j] = s[from(j)]
        BY Zenon, <1>p, <3>4
      <4>2. from(i) = from(j)
        BY Zenon, <2>1, <3>1, <4>1
      <4> QED BY <1>1, <3>4, <4>2
    <3> QED BY <3>3, <3>4
  <2>2. ASSUME NEW g \in Heads \ {h}, NEW i \in 1..Len(t), NEW j \in 1..Len(q[g])
        PROVE  t[i] # q[g][j]
    <3>1. \A x \in 1..Len(s) : s[x] # q[g][j]
      BY <1>1 DEF Apart
    <3>2. q[g][j] # e
      BY DEF HasPlace
    <3> QED BY <1>p, <3>1, <3>2
  <2> QED BY <1>1, <2>1, <2>2, ApartExcept
<1>13. ASSUME NEW x \in Entries, ~HasPlace(r, x)
       PROVE  next'[x] \in {NULL, x} /\ prev'[x] = next'[x]
  <2>1. x # e
    BY <1>1, <1>13 DEF HasPlace
  <2>2. ~HasPlace(q, x)
    <3> SUFFICES ASSUME NEW g \in Heads, NEW i \in 1..Len(q[g]), q[g][i] = x
                 PROVE  HasPlace(r, x)
      BY <1>13 DEF HasPlace
    <3>1. CASE g # h
      BY <1>1, <3>1 DEF HasPlace
    <3>2. CASE g = h
      <4>1. i \in 1..k \/ i \in (k + 1)..Len(s)
        BY <1>1, <3>2
      <4>2. i \in 1..Len(t) /\ i + 1 \in 1..Len(t)
        BY <1>1, <3>2
      <4> QED BY <1>1, <3>2, <4>1, <4>2 DEF HasPlace
    <3> QED BY <3>1, <3>2
  <2>3. x # before /\ x # after
    BY <1>1, <2>2, NodeAssumption DEF HasPlace, At
  <2> QED BY <1>6, <2>1, <2>2, <2>3 DEF Represents, Node
<1>14. \A g \in Heads \ live' : r[g] = <<>>
  BY <1>1 DEF Represents
<1> QED BY <1>1, <1>7, <1>10, <1>11, <1>12, <1>13, <1>14 DEF Represents, Apart, HasPlace

\* The entry at the k-th place of h is taken out, and its own links are cleared.
LEMMA DeletePlace ==
  ASSUME LinkType, NEW q \in Lists, Represents(q), NEW h \in live,
         NEW k \in 1..Len(q[h]), NEW to \in {NULL, q[h][k]},
         DeleteThen(q[h][k], to), live' = live,
         NEW t \in Seq(Entries), Len(t) = Len(q[h]) - 1,
         \A j \in 1..(k - 1) : t[j] = q[h][j],
         \A j \in k..Len(t) : t[j] = q[h][j + 1]
  PROVE  LinkType' /\ Represents([q EXCEPT ![h] = t])'
<1> DEFINE s == q[h]
           e == s[k]
           r == [q EXCEPT ![h] = t]
           before == At(h, s, k - 1)
           after == At(h, s, k + 1)
<1>1. /\ h \in Heads /\ s \in Seq(Entries) /\ Apart(q) /\ Len(s) \in Nat /\ k \in Nat
      /\ k - 1 \in 0..Len(s) /\ k \in 0..Len(s) /\ k + 1 \in 1..(Len(s) + 1)
      /\ k \in 1..(Len(s) + 1) /\ (k - 1) + 1 = k /\ k - 1 # k /\ k + 1 # k
      /\ e \in Entries /\ At(h, s, k) = e
      /\ r \in Lists /\ r[h] = t /\ \A g \in Heads \ {h} : r[g] = q[g]
  BY DEF LinkType, Lists, Represents, At
<1>at. \A i \in 0..Len(s) : /\ i + 1 \in 0..(Len(s) + 1) /\ i \in 0..(Len(s) + 1)
                            /\ At(h, s, i) \in Node /\ At(h, s, i + 1) \in Node
  BY <1>1, AtValues
<1>2. before \in Node /\ after \in Node /\ e \in Node
  BY <1>at, <1>1 DEF Node
<1>3. before # e /\ after # e
  BY <1>1, AtDistinct
<1>4. next[e] = after /\ prev[e] = before
  <2>1. Chain(h, s)
    BY DEF Represents
  <2>2. next[At(h, s, k)] = At(h, s, k + 1) /\ prev[At(h, s, (k - 1) + 1)] = At(h, s, k - 1)
    BY <1>1, <2>1 DEF Chain
  <2> QED BY <1>1, <2>2
<1>5. /\ next' = [next EXCEPT ![before] = after, ![e] = to]
      /\ prev' = [prev EXCEPT ![after] = before, ![e] = to]
  BY <1>4 DEF DeleteThen
<1>6. /\ next'[before] = after /\ prev'[after] = before /\ next'[e] = to /\ prev'[e] = to
      /\ \A x \in Node \ {e, before} : next'[x] = next[x]
      /\ \A x \in Node \ {e, after} : prev'[x] = prev[x]
  BY <1>2, <1>3, <1>5 DEF LinkType
<1>7. LinkType'
  BY <1>1, <1>2, <1>5 DEF LinkType
<1>8. /\ \A i \in 0..(k - 1) : At(h, t, i) = At(h, s, i)
      /\ \A i \in k..Len(s) : At(h, t, i) = At(h, s, i + 1)
  <2>1. ASSUME NEW i \in 0..(k - 1) PROVE At(h, t, i) = At(h, s, i)
    BY <1>1 DEF At
  <2>2. ASSUME NEW i \in k..Len(s) PROVE At(h, t, i) = At(h, s, i + 1)
    <3>1. CASE i = Len(s)
      BY <1>1, <3>1 DEF At
    <3>2. CASE i # Len(s)
      <4>1. i \in k..Len(t) /\ i \in 1..Len(t) /\ i + 1 \in 1..Len(s)
        BY <1>1, <3>2
      <4> QED BY <4>1 DEF At
    <3> QED BY <3>1, <3>2
  <2> QED BY <2>1, <2>2
<1>9. ASSUME NEW i \in 0..Len(s), i # k - 1, i # k
      PROVE  next'[At(h, s, i)] = At(h, s, i + 1) /\ prev'[At(h, s, i + 1)] = At(h, s, i)
  <2>1. i + 1 \in 1..(Len(s) + 1) /\ i + 1 # k + 1 /\ i + 1 # k
    BY <1>1, <1>9
  <2>2. At(h, s, i) # before /\ At(h, s, i) # e /\ At(h, s, i + 1) # after /\ At(h, s, i + 1) # e
    BY <1>1, <1>9, <2>1, AtDistinct
  <2>3. At(h, s, i) \in Node \ {e, before} /\ At(h, s, i + 1) \in Node \ {e, after}
    BY <1>at, <2>2
  <2>4. next[At(h, s, i)] = At(h, s, i + 1) /\ prev[At(h, s, i + 1)] = At(h, s, i)
    BY DEF Represents, Chain
  <2> QED BY <1>6, <2>3, <2>4
<1>10. Chain(h, t)'
  <2> SUFFICES ASSUME NEW i \in 0..Len(t)
               PROVE  /\ next'[At(h, t, i)] = At(h, t, i + 1)
                      /\ prev'[At(h, t, i + 1)] = At(h, t, i)
    BY DEF Chain, At
  <2>1. CASE i < k - 1
    <3>1. i \in 0..Len(s) /\ i \in 0..(k - 1) /\ i + 1 \in 0..(k - 1) /\ i # k - 1 /\ i # k
      <4>1. i \in Nat /\ k \in Nat /\ Len(s) \in Nat /\ k <= Len(s) /\ i < k - 1
        BY <1>1, <2>1
      <4>2. i \in 0..Len(s) /\ i \in 0..(k - 1)
        BY <4>1
      <4>3. i + 1 \in 0..(k - 1)
        BY <4>1
      <4>4. i # k - 1 /\ i # k
        BY <4>1
      <4> HIDE DEF s
      <4> QED BY <4>2, <4>3, <4>4
    <3>2. At(h, t, i) = At(h, s, i) /\ At(h, t, i + 1) = At(h, s, i + 1)
      BY <1>8, <3>1
    <3> QED BY <1>9, <3>1, <3>2
  <2>2. CASE i = k - 1
    <3>1. At(h, t, i) = before /\ At(h, t, i + 1) = after
      BY <1>1, <1>8, <2>2
    <3> QED BY <1>6, <3>1
  <2>3. CASE i > k - 1
    <3>1. PICK j \in 0..Len(s) : j = i + 1 /\ j # k /\ j # k - 1 /\ j \in k..Len(s)
                                /\ i \in k..Len(s)
      <4>1. i + 1 \in 0..Len(s) /\ i + 1 # k - 1 /\ i + 1 # k
            /\ i + 1 \in k..Len(s) /\ i \in k..Len(s)
        BY <1>1, <2>3
      <4> QED BY <4>1
    <3>2. At(h, t, i) = At(h, s, j) /\ At(h, t, i + 1) = At(h, s, j + 1)
      BY <1>8, <3>1
    <3> QED BY <1>9, <3>1, <3>2
  <2> QED BY <1>1, <2>1, <2>2, <2>3
<1>11. ASSUME NEW g \in live', g # h PROVE Chain(g, r[g])'
  <2>1. g \in Heads /\ g \in live /\ q[g] \in Seq(Entries) /\ r[g] = q[g]
    BY <1>1, <1>11 DEF LinkType, Lists
  <2>2. \A i \in 0..Len(q[g]) : At(g, q[g], i) \in Node \ {e, before, after}
    <3> TAKE i \in 0..Len(q[g])
    <3>1. /\ i \in 0..(Len(q[g]) + 1) /\ k \in 0..(Len(s) + 1)
          /\ k + 1 \in 0..(Len(s) + 1) /\ k - 1 \in 0..(Len(s) + 1)
      BY <1>1, <2>1
    <3>2. At(g, q[g], i) \in Node
      BY <2>1, <3>1, AtValues
    <3>3. At(g, q[g], i) # before /\ At(g, q[g], i) # after /\ At(g, q[g], i) # e
      BY <1>1, <1>11, <2>1, <3>1, AtApart
    <3> QED BY <3>2, <3>3
  <2>3. Chain(g, q[g])
    BY <2>1 DEF Represents
  <2>4. Chain(g, q[g])'
    BY <1>6, <2>1, <2>2, <2>3, ChainKept
  <2> QED BY <2>1, <2>4
<1> DEFINE from(x) == IF x < k THEN x ELSE x + 1
<1>p. \A x \in 1..Len(t) : from(x) \in 1..Len(s) /\ from(x) # k /\ t[x] = s[from(x)]
  <2> TAKE x \in 1..Len(t)
  <2>1. CASE x < k
    <3>1. x \in 1..(k - 1) /\ x \in 1..Len(s) /\ x # k
      BY <1>1, <2>1
    <3> QED BY <2>1, <3>1
  <2>2. CASE ~(x < k)
    <3>1. x \in k..Len(t) /\ x + 1 \in 1..Len(s) /\ x + 1 # k
      BY <1>1, <2>2
    <3> QED BY <2>2, <3>1
  <2> QED BY <2>1, <2>2
<1>12. Apart(r)
  <2>1. ASSUME NEW i \in 1..Len(t), NEW j \in 1..Len(t), t[i] = t[j] PROVE i = j
    <3>1. \A x \in 1..Len(s), y \in 1..Len(s) : s[x] = s[y] => x = y
      BY <1>1 DEF Apart
    <3>2. /\ from(i) \in 1..Len(s) /\ t[i] = s[from(i)]
          /\ from(j) \in 1..Len(s) /\ t[j] = s[from(j)]
      BY Zenon, <1>p
    <3>3. from(i) = from(j)
      BY Zenon, <2>1, <3>1, <3>2
    <3> QED BY <1>1, <3>3
  <2>2. ASSUME NEW g \in Heads \ {h}, NEW i \in 1..Len(t), NEW j \in 1..Len(q[g])
        PROVE  t[i] # q[g][j]
    <3>1. \A x \in 1..Len(s) : s[x] # q[g][j]
      BY <1>1 DEF Apart
    <3> QED BY <1>p, <3>1
  <2> QED BY <1>1, <2>1, <2>2, ApartExcept
<1>13. ASSUME NEW x \in Entries, ~HasPlace(r, x)
       PROVE  next'[x] \in {NULL, x} /\ prev'[x] = next'[x]
  <2>1. CASE x = e
    BY <1>6, <2>1
  <2>2. CASE x # e
    <3>1. ~HasPlace(q, x)
      <4> SUFFICES ASSUME NEW g \in Heads, NEW i \in 1..Len(q[g]), q[g][i] = x
                   PROVE  HasPlace(r, x)
        BY <1>13 DEF HasPlace
      <4>1. CASE g # h
        BY <1>1, <4>1 DEF HasPlace
      <4>2. CASE g = h
        <5>1. i \in 1..(k - 1) \/ (i - 1 \in k..Len(t) /\ (i - 1) + 1 = i)
          BY <1>1, <2>2, <4>2
        <5>2. i \in 1..(k - 1) => i \in 1..Len(t)
          BY <1>1
        <5>3. i - 1 \in k..Len(t) => i - 1 \in 1..Len(t)
          BY <1>1
        <5>4. CASE i \in 1..(k - 1)
          BY <1>1, <4>2, <5>2, <5>4 DEF HasPlace
        <5>5. CASE i - 1 \in k..Len(t) /\ (i - 1) + 1 = i
          <6>1. t[i - 1] = s[i] /\ i - 1 \in 1..Len(r[h])
            BY <1>1, <5>3, <5>5
          <6> QED BY <1>1, <4>2, <6>1 DEF HasPlace
        <5> QED BY <5>1, <5>4, <5>5
      <4> QED BY <4>1, <4>2
    <3>2. x # before /\ x # after
      BY <1>1, <3>1, NodeAssumption DEF HasPlace, At
    <3> QED BY <1>6, <2>2, <3>1, <3>2 DEF Represents, Node
  <2> QED BY <2>1, <2>2
<1>14. \A g \in Heads \ live' : r[g] = <<>>
  BY <1>1 DEF Represents
<1> QED BY <1>1, <1>7, <1>10, <1>11, <1>12, <1>13, <1>14 DEF Represents, Apart, HasPlace

\* t is s with the sequence u put in after its first k elements.
SplicedAt(t, s, k, u) ==
  /\ Len(t) = Len(s) + Len(u)
  /\ \A j \in 1..k : t[j] = s[j]
  /\ \A j \in 1..Len(u) : t[k + j] = u[j]
  /\ \A j \in (k + 1)..Len(s) : t[Len(u) + j] = s[j]

\* The entries of l go between the k-th node of the ring of h and the next one;
\* l is then an empty list, or out of use.
LEMMA SplicePlace ==
  ASSUME LinkType, NEW q \in Lists, Represents(q), NEW h \in live, NEW l \in live \ {h},
         NEW k \in 0..Len(q[h]), Len(q[l]) > 0, NEW reinit \in BOOLEAN,
         SpliceBetween(l, At(h, q[h], k), At(h, q[h], k + 1), reinit),
         live' = IF reinit THEN live ELSE live \ {l},
         NEW t \in Seq(Entries), SplicedAt(t, q[h], k, q[l])
  PROVE  LinkType' /\ Represents([[q EXCEPT ![l] = <<>>] EXCEPT ![h] = t])'
<1> USE DEF Lists
<1> DEFINE s == q[h]
           u == q[l]
           p == [q EXCEPT ![l] = <<>>]
           r == [p EXCEPT ![h] = t]
           before == At(h, s, k)
           after == At(h, s, k + 1)
           first == At(l, u, 1)
           last == At(l, u, Len(u))
<1>1. /\ h \in Heads /\ l \in Heads /\ h # l /\ Apart(q)
      /\ s \in Seq(Entries) /\ u \in Seq(Entries)
      /\ Len(s) \in Nat /\ k \in Nat /\ Len(u) \in Nat /\ Len(u) > 0
      /\ k \in 0..Len(s) /\ k + 1 \in 1..(Len(s) + 1)
      /\ 1 \in 1..Len(u) /\ Len(u) \in 1..Len(u)
  BY DEF LinkType, Lists, Represents
<1>t. Len(t) = Len(s) + Len(u)
  BY DEF SplicedAt
<1>r. /\ r \in Lists /\ r[h] = t /\ r[l] = <<>> /\ \A g \in Heads \ {h, l} : r[g] = q[g]
  <2>1. <<>> \in Seq(Entries)
    OBVIOUS
  <2>2. p \in Lists /\ p[l] = <<>> /\ \A g \in Heads \ {l} : p[g] = q[g]
    BY <1>1, <2>1
  <2> HIDE DEF p
  <2> QED BY <1>1, <2>2
<1> HIDE DEF r
<1>2. /\ \A i \in 0..(Len(s) + 1) : At(h, s, i) \in Node /\ At(h, s, i) # l
      /\ \A i \in 1..Len(u) : At(l, u, i) = u[i] /\ At(l, u, i) \in Node /\ At(l, u, i) # l
      /\ \A i \in 0..(Len(s) + 1), j \in 1..Len(u) : At(h, s, i) # At(l, u, j)
  <2>1. \A i \in 0..(Len(s) + 1) : At(h, s, i) \in Node
    BY <1>1, AtValues
  <2>2. /\ At(l, u, 0) = l /\ \A i \in 1..Len(u) : At(l, u, i) = u[i] /\ u[i] \in Entries
    BY <1>1, AtValues
  <2>3. \A i \in 0..(Len(s) + 1), j \in 0..(Len(u) + 1) : At(h, s, i) # At(l, u, j)
    BY <1>1, AtApart
  <2>4. \A j \in 1..Len(u) : j \in 0..(Len(u) + 1)
    BY <1>1
  <2>5. 0 \in 0..(Len(u) + 1)
    BY <1>1
  <2> QED BY <1>1, <2>1, <2>2, <2>3, <2>4, <2>5, NodeAssumption DEF Node
<1>3. /\ before \in Node /\ after \in Node /\ first \in Node /\ last \in Node /\ l \in Node
      /\ before \notin {l, first, last} /\ after \notin {l, first, last}
      /\ first # l /\ last # l
  <2>1. k \in 0..(Len(s) + 1) /\ k + 1 \in 0..(Len(s) + 1)
    BY <1>1
  <2> QED BY <1>1, <1>2, <2>1 DEF Node
<1>4. next[l] = first /\ prev[l] = last
  <2>1. Chain(l, u)
    BY <1>1 DEF Represents
  <2>2. 0 \in 0..Len(u) /\ Len(u) \in 0..Len(u)
    BY <1>1
  <2>3. /\ next[At(l, u, 0)] = At(l, u, 0 + 1)
        /\ prev[At(l, u, Len(u) + 1)] = At(l, u, Len(u))
    BY <2>1, <2>2 DEF Chain
  <2> QED BY <1>1, <2>3, AtValues
<1>5. /\ next' = [next EXCEPT ![before] = first, ![last] = after,
                              ![l] = IF reinit THEN l ELSE @]
      /\ prev' = [prev EXCEPT ![first] = before, ![after] = last,
                              ![l] = IF reinit THEN l ELSE @]
  BY <1>4 DEF SpliceBetween
<1>6. /\ next'[before] = first /\ next'[last] = after
      /\ prev'[first] = before /\ prev'[after] = last
      /\ reinit => next'[l] = l /\ prev'[l] = l
      /\ \A x \in Node \ {before, last, l} : next'[x] = next[x]
      /\ \A x \in Node \ {first, after, l} : prev'[x] = prev[x]
  BY <1>3, <1>5 DEF LinkType
<1>7. LinkType'
  BY <1>1, <1>3, <1>5 DEF LinkType
<1>8. /\ \A i \in 0..k : At(h, t, i) = At(h, s, i)
      /\ \A i \in 1..Len(u) : At(h, t, k + i) = At(l, u, i)
      /\ \A i \in (k + 1)..(Len(s) + 1) : At(h, t, Len(u) + i) = At(h, s, i)
  <2>1. ASSUME NEW i \in 0..k PROVE At(h, t, i) = At(h, s, i)
    BY <1>1, <1>t DEF At, SplicedAt
  <2>2. ASSUME NEW i \in 1..Len(u) PROVE At(h, t, k + i) = At(l, u, i)
    <3>1. k + i \in 1..Len(t)
      BY <1>1, <1>t
    <3> QED BY <1>1, <3>1 DEF At, SplicedAt
  <2>3. ASSUME NEW i \in (k + 1)..(Len(s) + 1) PROVE At(h, t, Len(u) + i) = At(h, s, i)
    <3>1. CASE i = Len(s) + 1
      BY <1>1, <1>t, <3>1 DEF At
    <3>2. CASE i # Len(s) + 1
      <4>1. i \in (k + 1)..Len(s) /\ i \in 1..Len(s) /\ Len(u) + i \in 1..Len(t)
        BY <1>1, <1>t, <3>2
      <4> QED BY <1>1, <4>1 DEF At, SplicedAt
    <3> QED BY <3>1, <3>2
  <2> QED BY <2>1, <2>2, <2>3
<1>9. ASSUME NEW i \in 0..Len(s), i # k
      PROVE  next'[At(h, s, i)] = At(h, s, i + 1) /\ prev'[At(h, s, i + 1)] = At(h, s, i)
  <2>1. /\ i + 1 \in 1..(Len(s) + 1) /\ i + 1 # k + 1
        /\ i \in 0..(Len(s) + 1) /\ i + 1 \in 0..(Len(s) + 1)
    BY <1>1, <1>9
  <2>2. At(h, s, i) # before /\ At(h, s, i + 1) # after
    BY <1>1, <1>9, <2>1, AtDistinct
  <2>3. At(h, s, i) \in Node \ {before, last, l} /\ At(h, s, i + 1) \in Node \ {first, after, l}
    BY <1>1, <1>2, <2>1, <2>2
  <2>4. next[At(h, s, i)] = At(h, s, i + 1) /\ prev[At(h, s, i + 1)] = At(h, s, i)
    BY DEF Represents, Chain
  <2> QED BY <1>6, <2>3, <2>4
<1>10. ASSUME NEW i \in 1..Len(u), i + 1 \in 1..Len(u)
       PROVE  next'[At(l, u, i)] = At(l, u, i + 1) /\ prev'[At(l, u, i + 1)] = At(l, u, i)
  <2>1. /\ i \in 0..Len(u) /\ i + 1 \in 0..Len(u) /\ i # Len(u) /\ i + 1 # 1
        /\ 1 \in 0..Len(u) /\ Len(u) \in 0..Len(u)
        /\ k \in 0..(Len(s) + 1) /\ k + 1 \in 0..(Len(s) + 1)
    BY <1>1, <1>10
  <2>2. At(l, u, i) # last /\ At(l, u, i + 1) # first
    BY <1>1, <2>1, AtDistinct
  <2>3. At(l, u, i) \in Node \ {before, last, l} /\ At(l, u, i + 1) \in Node \ {first, after, l}
    BY <1>2, <1>10, <2>1, <2>2
  <2>4. Chain(l, u)
    BY <1>1 DEF Represents
  <2>5. next[At(l, u, i)] = At(l, u, i + 1) /\ prev[At(l, u, i + 1)] = At(l, u, i)
    BY <2>1, <2>4 DEF Chain
  <2> QED BY <1>6, <2>3, <2>5
<1>11. Chain(h, t)'
  <2> SUFFICES ASSUME NEW i \in 0..Len(t)
               PROVE  /\ next'[At(h, t, i)] = At(h, t, i + 1)
                      /\ prev'[At(h, t, i + 1)] = At(h, t, i)
    BY DEF Chain, At
  <2>1. CASE i < k
    <3>1. i \in 0..Len(s) /\ i # k /\ i \in 0..k /\ i + 1 \in 0..k
      BY <1>1, <1>t, <2>1
    <3>2. At(h, t, i) = At(h, s, i) /\ At(h, t, i + 1) = At(h, s, i + 1)
      BY <1>8, <3>1
    <3> QED BY <1>9, <3>1, <3>2
  <2>2. CASE i = k
    <3>1. At(h, t, i) = before /\ At(h, t, i + 1) = first
      BY <1>1, <1>t, <1>8, <2>2
    <3> QED BY <1>6, <3>1
  <2>3. CASE i > k /\ i < k + Len(u)
    <3>1. PICK j \in 1..Len(u) : j + 1 \in 1..Len(u) /\ i = k + j /\ i + 1 = k + (j + 1)
      <4>1. i - k \in 1..Len(u) /\ (i - k) + 1 \in 1..Len(u) /\ i = k + (i - k)
            /\ i + 1 = k + ((i - k) + 1)
        BY <1>1, <1>t, <2>3
      <4> QED BY <4>1
    <3>2. At(h, t, i) = At(l, u, j) /\ At(h, t, i + 1) = At(l, u, j + 1)
      BY <1>8, <3>1
    <3> QED BY <1>10, <3>1, <3>2
  <2>4. CASE i = k + Len(u)
    <3>1. i + 1 = Len(u) + (k + 1) /\ k + 1 \in (k + 1)..(Len(s) + 1)
      BY <1>1, <1>t, <2>4
    <3>2. At(h, t, i) = last /\ At(h, t, i + 1) = after
      BY <1>1, <1>t, <1>8, <2>4, <3>1
    <3> QED BY <1>6, <3>2
  <2>5. CASE i > k + Len(u)
    <3>1. PICK j \in 0..Len(s) : /\ j # k /\ i = Len(u) + j /\ i + 1 = Len(u) + (j + 1)
                                /\ j \in (k + 1)..(Len(s) + 1)
                                /\ j + 1 \in (k + 1)..(Len(s) + 1)
      <4>1. /\ i - Len(u) \in 0..Len(s) /\ i - Len(u) # k /\ i = Len(u) + (i - Len(u))
            /\ i + 1 = Len(u) + ((i - Len(u)) + 1)
            /\ i - Len(u) \in (k + 1)..(Len(s) + 1) /\ (i - Len(u)) + 1 \in (k + 1)..(Len(s) + 1)
        BY <1>1, <1>t, <2>5
      <4> QED BY <4>1
    <3>2. At(h, t, i) = At(h, s, j) /\ At(h, t, i + 1) = At(h, s, j + 1)
      BY <1>8, <3>1
    <3> QED BY <1>9, <3>1, <3>2
  <2>6. i < k \/ i = k \/ (i > k /\ i < k + Len(u)) \/ i = k + Len(u) \/ i > k + Len(u)
    <3>1. i \in Int /\ k \in Int /\ Len(u) \in Int
      BY <1>1
    <3>2. \A x, y, z \in Int : x < y \/ x = y \/ (x > y /\ x < y + z) \/ x = y + z \/ x > y + z
      OBVIOUS
    <3> QED BY <1>1, <3>1, <3>2
  <2> QED BY <2>1, <2>2, <2>3, <2>4, <2>5, <2>6
<1>12. ASSUME NEW g \in live', g # h PROVE Chain(g, r[g])'
  <2>1. CASE g = l
    <3>1. reinit
      BY <1>12, <2>1
    <3> QED BY <1>1, <1>r, <1>6, <2>1, <3>1 DEF Chain, At
  <2>2. CASE g # l
    <3>1. g \in Heads /\ g \in live /\ q[g] \in Seq(Entries) /\ r[g] = q[g]
      BY <1>1, <1>r, <1>12, <2>2 DEF LinkType, Lists
    <3>2. \A i \in 0..Len(q[g]) : At(g, q[g], i) \in Node \ {before, after, first, last, l}
      <4> TAKE i \in 0..Len(q[g])
      <4>1. /\ i \in 0..(Len(q[g]) + 1) /\ k \in 0..(Len(s) + 1) /\ k + 1 \in 0..(Len(s) + 1)
            /\ 0 \in 0..(Len(u) + 1) /\ 1 \in 0..(Len(u) + 1) /\ Len(u) \in 0..(Len(u) + 1)
        BY <1>1, <3>1
      <4>2. At(g, q[g], i) \in Node
        BY <3>1, <4>1, AtValues
      <4>3. At(g, q[g], i) # before /\ At(g, q[g], i) # after
        BY <1>1, <1>12, <3>1, <4>1, AtApart
      <4>4. \A j \in 0..(Len(u) + 1) : At(g, q[g], i) # At(l, u, j)
        BY <1>1, <2>2, <3>1, <4>1, AtApart
      <4>5. At(l, u, 0) = l
        BY <1>1, AtValues
      <4> QED BY <4>1, <4>2, <4>3, <4>4, <4>5
    <3>3. Chain(g, q[g])
      BY <3>1 DEF Represents
    <3>4. Chain(g, q[g])'
      BY <1>6, <3>1, <3>2, <3>3, ChainKept
    <3> QED BY <3>1, <3>4
  <2> QED BY <2>1, <2>2
<1> DEFINE inside(x) == x > k /\ x <= k + Len(u)
           from(x) == IF x <= k THEN x ELSE x - Len(u)
<1>13. \A x \in 1..Len(t) :
         /\ inside(x) => x - k \in 1..Len(u) /\ t[x] = u[x - k]
         /\ ~inside(x) => from(x) \in 1..Len(s) /\ t[x] = s[from(x)]
  <2> TAKE x \in 1..Len(t)
  <2>1. CASE x <= k
    <3>1. x \in 1..k /\ x \in 1..Len(s)
      BY <1>1, <1>t, <2>1
    <3> QED BY <1>1, <2>1, <3>1 DEF SplicedAt
  <2>2. CASE inside(x)
    <3>1. x - k \in 1..Len(u) /\ k + (x - k) = x
      BY <1>1, <1>t, <2>2
    <3> QED BY <2>2, <3>1 DEF SplicedAt
  <2>3. CASE x > k + Len(u)
    <3>1. x - Len(u) \in (k + 1)..Len(s) /\ Len(u) + (x - Len(u)) = x
          /\ x - Len(u) \in 1..Len(s) /\ from(x) = x - Len(u) /\ ~inside(x)
      BY <1>1, <1>t, <2>3
    <3>2. t[x] = s[x - Len(u)]
      BY <1>1, <3>1 DEF SplicedAt
    <3> QED BY <3>1, <3>2
  <2> QED BY <1>1, <1>t, <2>1, <2>2, <2>3
<1>14. Apart(r)
  <2>1. Apart(p) /\ p \in Lists
    <3>1. <<>> \in Seq(Entries) /\ 1..Len(<<>>) = {}
      OBVIOUS
    <3>2. /\ \A i, j \in 1..Len(<<>>) : <<>>[i] = <<>>[j] => i = j
          /\ \A g \in Heads \ {l} : \A i \in 1..Len(<<>>), j \in 1..Len(q[g]) :
               <<>>[i] # q[g][j]
      BY <3>1
    <3>3. Apart(p)
      BY <1>1, <3>1, <3>2, ApartExcept
    <3> QED BY <1>1, <3>1, <3>3
  <2>2. p[l] = <<>> /\ \A g \in Heads \ {h, l} : p[g] = q[g]
    BY <1>1 DEF Lists
  <2>3. ASSUME NEW i \in 1..Len(t), NEW j \in 1..Len(t), t[i] = t[j] PROVE i = j
    <3>1. /\ \A x, y \in 1..Len(s) : s[x] = s[y] => x = y
          /\ \A x, y \in 1..Len(u) : u[x] = u[y] => x = y
          /\ \A x \in 1..Len(s), y \in 1..Len(u) : s[x] # u[y]
      BY <1>1 DEF Apart
    <3>2. inside(i) = inside(j)
      BY <1>13, <2>3, <3>1
    <3>3. CASE inside(i)
      <4>1. i - k = j - k
        BY <1>13, <2>3, <3>1, <3>2, <3>3
      <4> QED BY <1>1, <4>1
    <3>4. CASE ~inside(i)
      <4>1. from(i) = from(j)
        BY <1>13, <2>3, <3>1, <3>2, <3>4
      <4> QED BY <1>1, <3>2, <3>4, <4>1
    <3> QED BY <3>3, <3>4
  <2>4. ASSUME NEW g \in Heads \ {h}, NEW i \in 1..Len(t), NEW j \in 1..Len(p[g])
        PROVE  t[i] # p[g][j]
    <3>1. g # l /\ p[g] = q[g]
      BY <1>1, <2>2
    <3>2. /\ \A x \in 1..Len(s) : s[x] # q[g][j]
          /\ \A x \in 1..Len(u) : u[x] # q[g][j]
      BY <1>1, <3>1 DEF Apart
    <3> QED BY <1>13, <3>1, <3>2
  <2> QED BY <1>1, <2>1, <2>3, <2>4, ApartExcept DEF r
<1>15. ASSUME NEW x \in Entries, ~HasPlace(r, x)
       PROVE  next'[x] \in {NULL, x} /\ prev'[x] = next'[x]
  <2>1. ~HasPlace(q, x)
    <3> SUFFICES ASSUME NEW g \in Heads, NEW i \in 1..Len(q[g]), q[g][i] = x
                 PROVE  HasPlace(r, x)
      BY <1>15 DEF HasPlace
    <3>1. CASE g \notin {h, l}
      BY <1>1, <1>r, <3>1 DEF HasPlace
    <3>2. CASE g = l
      <4>1. k + i \in 1..Len(r[h])
        BY <1>1, <1>r, <1>t, <3>2
      <4>2. r[h][k + i] = x
        BY <1>1, <1>r, <3>2 DEF SplicedAt
      <4> QED BY <1>1, <1>r, <4>1, <4>2 DEF HasPlace
    <3>3. CASE g = h /\ i <= k
      <4>1. i \in 1..k /\ i \in 1..Len(r[h])
        BY <1>1, <1>r, <1>t, <3>3
      <4>2. r[h][i] = x
        BY <1>1, <1>r, <3>3, <4>1 DEF SplicedAt
      <4> QED BY <1>1, <1>r, <4>1, <4>2 DEF HasPlace
    <3>4. CASE g = h /\ i > k
      <4>1. i \in (k + 1)..Len(s) /\ Len(u) + i \in 1..Len(r[h])
        BY <1>1, <1>r, <1>t, <3>4
      <4>2. r[h][Len(u) + i] = x
        BY <1>1, <1>r, <3>4, <4>1 DEF SplicedAt
      <4> QED BY <1>1, <1>r, <4>1, <4>2 DEF HasPlace
    <3> QED BY <1>1, <1>r, <3>1, <3>2, <3>3, <3>4
  <2>2. x # before /\ x # after /\ x # first /\ x # last /\ x # l
    BY <1>1, <1>r, <2>1, NodeAssumption DEF HasPlace, At
  <2> QED BY <1>6, <2>1, <2>2 DEF Represents, Node
<1>16. \A g \in Heads \ live' : r[g] = <<>>
  BY <1>1, <1>r DEF Represents
<1> QED BY <1>1, <1>r, <1>7, <1>11, <1>12, <1>14, <1>15, <1>16 DEF Represents, Apart, HasPlace, r

-----------------------------------------------------------------------------
(* Walking a ring yields the sequence it represents, and no other.            *)

\* A set of natural numbers that is not empty has a least element.
LEMMA LeastElement ==
  ASSUME NEW T \in SUBSET Nat, T # {}
  PROVE  \E m \in T : \A i \in T : ~(i < m)
<1>1. PICK m \in T : \A i \in T : <<i, m>> \notin OpToRel(<, Nat)
  BY NatLessThanWellFounded, WFMin
<1>2. \A i \in T : i \in Nat /\ m \in Nat /\ ~(i < m)
  BY <1>1 DEF OpToRel
<1> QED BY <1>2

\* Following next from h until h comes again finds one sequence of entries.
Follows(h, s) == \A i \in 0..Len(s) : next[At(h, s, i)] = At(h, s, i + 1)

LEMMA FollowsOnce ==
  ASSUME NEW h \in Heads, NEW a \in Seq(Entries), NEW b \in Seq(Entries),
         Follows(h, a), Follows(h, b)
  PROVE  a = b
<1>1. Len(a) \in Nat /\ Len(b) \in Nat
  OBVIOUS
<1> DEFINE T == {i \in Nat : i <= Len(a) + 1 /\ i <= Len(b) + 1 /\ At(h, a, i) # At(h, b, i)}
<1>2. T = {}
  <2> SUFFICES ASSUME T # {} PROVE FALSE
    OBVIOUS
  <2>1. PICK m \in T : \A i \in T : ~(i < m)
    BY LeastElement
  <2>2. m # 0
    BY <2>1 DEF At
  <2>3. PICK i \in Nat : i + 1 = m
    <3>1. m - 1 \in Nat /\ (m - 1) + 1 = m
      BY <2>2
    <3> QED BY <3>1
  <2>4. i \notin T /\ i \in 0..Len(a) /\ i \in 0..Len(b)
    BY <1>1, <2>1, <2>3
  <2>5. At(h, a, i) = At(h, b, i)
    BY <1>1, <2>4
  <2>6. At(h, a, i + 1) = At(h, b, i + 1)
    BY <2>4, <2>5 DEF Follows
  <2> QED BY <2>1, <2>3, <2>6
<1>3. \A i \in Nat : i <= Len(a) + 1 /\ i <= Len(b) + 1 => At(h, a, i) = At(h, b, i)
  BY <1>2
<1> HIDE DEF T
<1>4. Len(a) = Len(b)
  <2>1. CASE Len(a) < Len(b)
    <3>1. Len(a) + 1 \in 1..Len(b) /\ Len(a) + 1 \in Nat
      BY <1>1, <2>1
    <3>2. At(h, a, Len(a) + 1) = h /\ At(h, b, Len(a) + 1) \in Entries
      BY <3>1, AtValues
    <3> QED BY <1>1, <1>3, <3>1, <3>2, NodeAssumption
  <2>2. CASE Len(b) < Len(a)
    <3>1. Len(b) + 1 \in 1..Len(a) /\ Len(b) + 1 \in Nat
      BY <1>1, <2>2
    <3>2. At(h, b, Len(b) + 1) = h /\ At(h, a, Len(b) + 1) \in Entries
      BY <3>1, AtValues
    <3> QED BY <1>1, <1>3, <3>1, <3>2, NodeAssumption
  <2> QED BY <1>1, <2>1, <2>2
<1>5. \A i \in 1..Len(a) : a[i] = b[i]
  BY <1>1, <1>3, <1>4, AtValues
<1> QED BY <1>4, <1>5, SeqEqual

\* Items(h) is the sequence that the links represent.
LEMMA ItemsRepresented ==
  ASSUME NEW q \in Lists, Represents(q), NEW h \in live \cap Heads
  PROVE  Items(h) = q[h]
<1> DEFINE s == q[h]
           N == Cardinality(Entries)
<1>1. s \in Seq(Entries) /\ Len(s) \in Nat /\ s \in [1..Len(s) -> Entries]
  BY DEF Lists
<1>2. Len(s) <= N /\ N \in Nat
  <2>1. s \in Injection(1..Len(s), Entries)
    <3>1. \A i, j \in 1..Len(s) : s[i] = s[j] => i = j
      BY DEF Represents, Apart
    <3> QED BY <1>1, <3>1 DEF Injection, IsInjective
  <2>2. Cardinality(1..Len(s)) <= N
    BY <2>1, EntriesAssumption, FS_Injection
  <2>3. Cardinality(1..Len(s)) = Len(s)
    BY <1>1, FS_Interval
  <2> QED BY <2>2, <2>3, EntriesAssumption, FS_CardinalityType
<1>3. s \in BoundedSeq(Entries, N)
  BY <1>1, <1>2 DEF BoundedSeq, SeqOf
<1>4. Follows(h, s)
  BY DEF Represents, Chain, Follows
<1>5. Items(h) \in BoundedSeq(Entries, N) /\ Follows(h, Items(h))
  BY <1>3, <1>4 DEF Items, Follows
<1>6. Items(h) \in Seq(Entries)
  BY <1>2, <1>5 DEF BoundedSeq, SeqOf
<1> QED BY <1>1, <1>4, <1>5, <1>6, FollowsOnce

-----------------------------------------------------------------------------
(* The invariant.                                                             *)

\* Where in the list s the j-th entry of todo is, if it is still there.
Place(s, j) == IF backward THEN Len(todo) - j + 1 ELSE Len(s) - Len(todo) + j

\* A traversal under way over the list s: todo is the current entry and then the
\* far end of s, the cursors are at its first two nodes, and the current entry,
\* unless it was deleted or moved, is in s just before the rest.
Ahead(s) ==
  /\ Len(todo) <= Len(s) + 1
  /\ pos = todo[1] /\ n = At(over, todo, 2)
  /\ \A j \in 2..Len(todo) : s[Place(s, j)] = todo[j]
  /\ \A i \in 1..Len(s) : s[i] = todo[1] => i = Place(s, 1)

CursorType == /\ over \in Heads \cup {NULL} /\ backward \in BOOLEAN
              /\ todo \in Seq(Entries)
              /\ over # NULL => n \in Node

InStep(q) ==
  /\ CursorType
  /\ over # NULL => /\ over \in live
                    /\ todo = <<>> => pos = over
                    /\ todo # <<>> => Ahead(q[over])

ListInv == LinkType /\ \E q \in Lists : Represents(q) /\ InStep(q)

\* The sequences that the refinement mapping reads off the links.
Mapped == [h \in Heads |-> IF h \in live THEN Items(h) ELSE <<>>]

LEMMA MappedRepresented == \A q \in Lists : LinkType /\ Represents(q) => Mapped = q
<1> SUFFICES ASSUME NEW q \in Lists, LinkType, Represents(q)
             PROVE  Mapped = q
  OBVIOUS
<1>1. \A h \in Heads : Mapped[h] = q[h]
  BY ItemsRepresented DEF Mapped, Represents
<1> QED BY <1>1 DEF Mapped, Lists

\* An entry is unlisted exactly if it has no place.
LEMMA UnlistedHasNoPlace ==
  ASSUME LinkType, NEW q \in Lists, Represents(q), NEW e \in Entries
  PROVE  Unlisted(e) <=> ~HasPlace(q, e)
<1>1. ASSUME NEW h \in Heads, NEW i \in 1..Len(q[h]), q[h][i] = e
      PROVE  ~Unlisted(e)
  <2>1. q[h] \in Seq(Entries) /\ h \in live
    BY <1>1 DEF Lists, Represents
  <2>2. /\ i \in 0..Len(q[h]) /\ i \in 1..(Len(q[h]) + 1)
        /\ i + 1 \in 1..(Len(q[h]) + 1) /\ i + 1 \in 0..(Len(q[h]) + 1) /\ i + 1 # i
    BY <2>1
  <2>3. next[At(h, q[h], i)] = At(h, q[h], i + 1)
    BY <2>1, <2>2 DEF Represents, Chain
  <2>4. At(h, q[h], i) = e
    BY <1>1, <2>1, AtValues
  <2>5. At(h, q[h], i + 1) # At(h, q[h], i)
    BY <2>2, AtDistinct DEF Represents
  <2>6. At(h, q[h], i + 1) \in Node
    BY <2>1, <2>2, AtValues
  <2> QED BY <2>3, <2>4, <2>5, <2>6, NodeAssumption DEF Unlisted, Node
<1> QED BY <1>1 DEF HasPlace, Unlisted, Represents

\* An action that changes neither the cursors nor the list being traversed keeps
\* the traversal in step.
LEMMA InStepKept ==
  ASSUME NEW q \in Lists, InStep(q), NEW r \in Lists, UNCHANGED cursorVars,
         over # NULL => over \in live' /\ r[over] = q[over]
  PROVE  InStep(r)'
  BY DEF InStep, CursorType, Ahead, Place, At, cursorVars

-----------------------------------------------------------------------------
(* One lemma per operation: from lists q it leads to lists r, and the step    *)
(* from q to r is the abstract one.                                           *)

\* The links represent the lists r after the step.
Reached(r) == LinkType' /\ Represents(r)' /\ InStep(r)'

\* A head that is initialised becomes an empty list.
LEMMA StartStep ==
  ASSUME LinkType, NEW q \in Lists, Represents(q), InStep(q),
         NEW h \in Heads, init_list_head(h)
  PROVE  Reached(q) /\ (Mapped = q /\ Mapped' = q => Abstract!Start(h))
<1>1. /\ h \notin live /\ live' = live \cup {h} /\ UNCHANGED cursorVars
      /\ next' = [next EXCEPT ![h] = h] /\ prev' = [prev EXCEPT ![h] = h]
  BY DEF init_list_head
<1>2. LinkType'
  BY <1>1 DEF LinkType, Node
<1>3. /\ next'[h] = h /\ prev'[h] = h
      /\ \A x \in Node \ {h} : next'[x] = next[x] /\ prev'[x] = prev[x]
  BY <1>1 DEF LinkType, Node
<1>4. q[h] = <<>> /\ Len(q[h]) = 0 /\ Apart(q)
  BY <1>1 DEF Represents
<1>5. Chain(h, q[h])'
  BY <1>3, <1>4 DEF Chain, At
<1>6. ASSUME NEW g \in live PROVE Chain(g, q[g])'
  <2>1. g \in Heads /\ g # h /\ q[g] \in Seq(Entries) /\ Chain(g, q[g])
    BY <1>1 DEF LinkType, Lists, Represents
  <2>2. ASSUME NEW i \in 0..Len(q[g]) PROVE At(g, q[g], i) \in Node \ {h}
    <3>1. i \in 0..(Len(q[g]) + 1) /\ 0 \in 0..(Len(q[h]) + 1)
      BY <1>4, <2>1
    <3>2. At(g, q[g], i) \in Node /\ At(g, q[g], i) # At(h, q[h], 0)
      BY <1>4, <2>1, <3>1, AtValues, AtApart
    <3> QED BY <1>4, <3>2 DEF At
  <2> QED BY <1>3, <2>1, <2>2, ChainKept
<1>7. \A e \in Entries : next'[e] = next[e] /\ prev'[e] = prev[e]
  BY <1>3, NodeAssumption DEF Node
<1>8. Represents(q)'
  BY <1>1, <1>4, <1>5, <1>6, <1>7 DEF Represents, Apart, HasPlace
<1>9. InStep(q)'
  BY <1>1, InStepKept DEF InStep
<1>10. Mapped = q /\ Mapped' = q => Abstract!Start(h)
  BY <1>1 DEF Abstract!Start, Mapped
<1> QED BY <1>2, <1>8, <1>9, <1>10 DEF Reached

\* list_add and list_add_tail put an entry at one end.
LEMMA AddStep ==
  ASSUME LinkType, NEW q \in Lists, Represents(q), InStep(q),
         NEW e \in Entries, NEW h \in Heads, Add(e, h)
  PROVE  \E r \in Lists : /\ Reached(r)
                          /\ Mapped = q /\ Mapped' = r => Abstract!Insert(h, e)
<1> DEFINE s == q[h]
<1>1. /\ h \in live /\ h # over /\ Unlisted(e) /\ UNCHANGED <<live, cursorVars>>
      /\ s \in Seq(Entries) /\ Len(s) \in Nat
  BY DEF Add, Touchable, Lists
<1>2. ~HasPlace(q, e) /\ Chain(h, s)
  BY <1>1, UnlistedHasNoPlace DEF Represents
<1>3. PICK k \in 0..Len(s), t \in Seq(Entries) :
        /\ InsertBetween(e, At(h, s, k), At(h, s, k + 1))
        /\ Len(t) = Len(s) + 1 /\ t[k + 1] = e
        /\ \A j \in 1..k : t[j] = s[j]
        /\ \A j \in (k + 1)..Len(s) : t[j + 1] = s[j]
        /\ t \in {<<e>> \o s, Append(s, e)}
  <2>1. CASE list_add(e, h)
    <3>1. InsertBetween(e, At(h, s, 0), At(h, s, 0 + 1))
      <4>1. next[At(h, s, 0)] = At(h, s, 0 + 1) /\ At(h, s, 0) = h
        BY <1>1, <1>2, AtValues DEF Chain
      <4> QED BY <2>1, <4>1 DEF list_add
    <3> DEFINE t == <<e>> \o s
    <3>2. <<e>> \in Seq(Entries) /\ Len(<<e>>) = 1 /\ <<e>>[1] = e
      OBVIOUS
    <3>3. /\ t \in Seq(Entries) /\ Len(t) = 1 + Len(s)
          /\ \A i \in 1..(1 + Len(s)) : t[i] = IF i <= 1 THEN <<e>>[i] ELSE s[i - 1]
      BY <1>1, <3>2, ConcatProperties
    <3>4. t[0 + 1] = e /\ \A j \in (0 + 1)..Len(s) : t[j + 1] = s[j]
      <4> HIDE DEF t
      <4>1. \A j \in (0 + 1)..Len(s) : j + 1 \in 1..(1 + Len(s)) /\ ~(j + 1 <= 1) /\ (j + 1) - 1 = j
        BY <1>1
      <4> QED BY <1>1, <3>2, <3>3, <4>1
    <3>5. 0 \in 0..Len(s) /\ 1..0 = {} /\ Len(t) = Len(s) + 1
      BY <1>1, <3>3
    <3> HIDE DEF t
    <3>6. t \in {<<e>> \o s, Append(s, e)}
      BY DEF t
    <3> QED BY <3>1, <3>3, <3>4, <3>5, <3>6
  <2>2. CASE list_add_tail(e, h)
    <3>1. InsertBetween(e, At(h, s, Len(s)), At(h, s, Len(s) + 1))
      <4>1. /\ next[At(h, s, Len(s))] = At(h, s, Len(s) + 1)
            /\ prev[At(h, s, Len(s) + 1)] = At(h, s, Len(s))
        BY <1>1, <1>2 DEF Chain
      <4>2. At(h, s, Len(s) + 1) = h
        BY <1>1, AtValues
      <4> QED BY <2>2, <4>1, <4>2 DEF list_add_tail
    <3> DEFINE t == Append(s, e)
    <3>2. /\ t \in Seq(Entries) /\ Len(t) = Len(s) + 1 /\ t[Len(s) + 1] = e
          /\ \A j \in 1..Len(s) : t[j] = s[j]
      BY <1>1, AppendProperties
    <3>3. Len(s) \in 0..Len(s) /\ (Len(s) + 1)..Len(s) = {}
      BY <1>1
    <3> HIDE DEF t
    <3>4. t \in {<<e>> \o s, Append(s, e)}
      BY DEF t
    <3> QED BY <3>1, <3>2, <3>3, <3>4
  <2> QED BY <2>1, <2>2 DEF Add
<1> DEFINE r == [q EXCEPT ![h] = t]
<1>4. r \in Lists /\ \A g \in Heads \ {h} : r[g] = q[g]
  BY DEF Lists
<1>5. LinkType' /\ Represents(r)'
  BY <1>1, <1>2, <1>3, InsertPlace
<1>6. InStep(r)'
  <2>1. over # NULL => over \in live' /\ r[over] = q[over]
    BY <1>1, <1>4 DEF InStep, CursorType
  <2> QED BY <1>1, <1>4, <2>1, InStepKept
<1>7. Mapped = q /\ Mapped' = r => Abstract!Insert(h, e)
  <2> SUFFICES ASSUME Mapped = q, Mapped' = r PROVE Abstract!Insert(h, e)
    OBVIOUS
  <2>1. ~Abstract!Listed(e)
    <3>1. Abstract!Listed(e) <=> \E g \in Heads : e \in Range(q[g])
      <4>1. Abstract!Listed(e) <=> \E g \in Heads : e \in Range(Mapped[g])
        BY Zenon DEF Abstract!Listed, Abstract!Range, Range, Mapped
      <4> QED BY <4>1
    <3>2. ASSUME NEW g \in Heads, e \in Range(q[g]) PROVE HasPlace(q, e)
      <4>1. q[g] \in Seq(Entries)
        BY DEF Lists
      <4>2. PICK i \in 1..Len(q[g]) : q[g][i] = e
        BY <3>2, <4>1, RangeEquality
      <4> QED BY <4>2 DEF HasPlace
    <3> QED BY <1>2, <3>1, <3>2
  <2>2. Mapped' \in {[Mapped EXCEPT ![h] = <<e>> \o @], [Mapped EXCEPT ![h] = Append(@, e)]}
    BY <1>3 DEF Lists
  <2> QED BY <1>1, <2>1, <2>2 DEF Abstract!Insert, Mapped
<1> QED BY <1>4, <1>5, <1>6, <1>7 DEF Reached

\* RemoveAt(s, k) is s without its k-th element.
LEMMA RemoveAtProperties ==
  ASSUME NEW s \in Seq(Entries), NEW k \in 1..Len(s)
  PROVE  /\ RemoveAt(s, k) \in Seq(Entries) /\ Len(RemoveAt(s, k)) = Len(s) - 1
         /\ \A j \in 1..(k - 1) : RemoveAt(s, k)[j] = s[j]
         /\ \A j \in k..(Len(s) - 1) : RemoveAt(s, k)[j] = s[j + 1]
<1> DEFINE a == SubSeq(s, 1, k - 1)
           b == SubSeq(s, k + 1, Len(s))
<1>1. /\ Len(s) \in Nat /\ k \in Int /\ 1 <= k /\ k <= Len(s)
      /\ \A i \in 1..Len(s) : s[i] \in Entries
  OBVIOUS
<1>2. a \in Seq(Entries) /\ Len(a) = k - 1 /\ \A i \in 1..(k - 1) : a[i] = s[i]
  <2>1. \A i \in 1..(k - 1) : s[i] \in Entries
    BY <1>1
  <2>2. /\ a \in Seq(Entries) /\ Len(a) = (IF 1 <= k - 1 THEN (k - 1) - 1 + 1 ELSE 0)
        /\ \A i \in 1..((k - 1) - 1 + 1) : a[i] = s[1 + i - 1]
    <3>1. 1 \in Int /\ k - 1 \in Int
      BY <1>1
    <3> QED BY <2>1, <3>1, SubSeqProperties
  <2> HIDE DEF a
  <2> QED BY <1>1, <2>2
<1>3. /\ b \in Seq(Entries) /\ Len(b) = Len(s) - k
      /\ \A i \in 1..(Len(s) - k) : b[i] = s[k + i]
  <2>1. \A i \in (k + 1)..Len(s) : s[i] \in Entries
    BY <1>1
  <2>2. /\ b \in Seq(Entries)
        /\ Len(b) = (IF k + 1 <= Len(s) THEN Len(s) - (k + 1) + 1 ELSE 0)
        /\ \A i \in 1..(Len(s) - (k + 1) + 1) : b[i] = s[(k + 1) + i - 1]
    <3>1. Len(s) \in Int /\ k + 1 \in Int
      BY <1>1
    <3> QED BY <2>1, <3>1, SubSeqProperties
  <2> HIDE DEF b
  <2> QED BY <1>1, <2>2
<1>4. RemoveAt(s, k) = a \o b
  BY DEF RemoveAt
<1> HIDE DEF a, b
<1>5. /\ a \o b \in Seq(Entries) /\ Len(a \o b) = Len(a) + Len(b)
      /\ \A i \in 1..(Len(a) + Len(b)) :
           (a \o b)[i] = IF i <= Len(a) THEN a[i] ELSE b[i - Len(a)]
  BY <1>2, <1>3, ConcatProperties
<1> DEFINE c == a \o b
<1>6. c = RemoveAt(s, k) /\ c \in Seq(Entries) /\ Len(c) = Len(s) - 1
      /\ \A i \in 1..(Len(s) - 1) : c[i] = IF i <= k - 1 THEN a[i] ELSE b[i - (k - 1)]
  BY <1>1, <1>2, <1>3, <1>4, <1>5
<1> HIDE DEF c
<1>7. ASSUME NEW j \in 1..(k - 1) PROVE c[j] = s[j]
  BY <1>1, <1>2, <1>6
<1>8. ASSUME NEW j \in k..(Len(s) - 1) PROVE c[j] = s[j + 1]
  <2>1. j \in 1..(Len(s) - 1) /\ ~(j <= k - 1) /\ j - (k - 1) \in 1..(Len(s) - k)
        /\ k + (j - (k - 1)) = j + 1
    BY <1>1
  <2> QED BY <1>3, <1>6, <2>1
<1> QED BY <1>6, <1>7, <1>8

\* list_del and list_del_init take the entry out of its list; if that list is
\* being traversed, the entry is the current one, and the rest stays ahead.
LEMMA DeleteStep ==
  ASSUME LinkType, NEW q \in Lists, Represents(q), InStep(q),
         NEW e \in Entries, Delete(e)
  PROVE  \E r \in Lists : /\ Reached(r)
                          /\ Mapped = q /\ Mapped' = r => Abstract!Unlist(e)
<1>1. /\ ~Unlisted(e) /\ UNCHANGED <<live, cursorVars>>
      /\ \E to \in {NULL, e} : DeleteThen(e, to)
      /\ over # NULL /\ e # pos => \A i \in DOMAIN Items(over) : Items(over)[i] # e
  BY DEF Delete, Deletable, list_del, list_del_init
<1>h. PICK h \in Heads : \E k \in 1..Len(q[h]) : q[h][k] = e
  BY <1>1, UnlistedHasNoPlace DEF HasPlace
<1>2. PICK k \in 1..Len(q[h]) : q[h][k] = e
  BY <1>h
<1> DEFINE s == q[h]
           t == RemoveAt(s, k)
           r == [q EXCEPT ![h] = t]
<1>3. /\ h \in live /\ s \in Seq(Entries) /\ Len(s) \in Nat /\ Len(s) > 0
  BY <1>2 DEF Represents, Lists
<1>4. /\ t \in Seq(Entries) /\ Len(t) = Len(s) - 1
      /\ \A j \in 1..(k - 1) : t[j] = s[j]
      /\ \A j \in k..(Len(s) - 1) : t[j] = s[j + 1]
  BY <1>3, RemoveAtProperties
<1> HIDE DEF t
<1>5. r \in Lists /\ r[h] = t /\ \A g \in Heads \ {h} : r[g] = q[g]
  BY <1>4 DEF Lists
<1>6. LinkType' /\ Represents(r)'
  BY <1>1, <1>2, <1>3, <1>4, DeletePlace
<1>7. InStep(r)'
  <2>1. CASE over # h
    <3>1. over # NULL => over \in live' /\ r[over] = q[over]
      BY <1>1, <1>5, <2>1 DEF InStep, CursorType
    <3> QED BY <1>1, <1>5, <3>1, InStepKept
  <2>2. CASE over = h
    <3>1. over # NULL /\ Items(over) = s
      BY <1>3, <2>2, NodeAssumption, ItemsRepresented
    <3>2. e = pos
      <4>1. DOMAIN s = 1..Len(s)
        BY <1>3
      <4> QED BY <1>1, <1>2, <3>1, <4>1
    <3>3. todo # <<>> /\ Ahead(s)
      BY <2>2, <3>1, <3>2, NodeAssumption DEF InStep
    <3>4. todo \in Seq(Entries) /\ Len(todo) \in Nat /\ Len(todo) > 0 /\ backward \in BOOLEAN
      <4>1. todo \in Seq(Entries) /\ backward \in BOOLEAN
        BY Zenon DEF InStep, CursorType
      <4> QED BY <3>3, <4>1, EmptySeq
    <3>5. k = Place(s, 1)
      BY <1>2, <3>2, <3>3 DEF Ahead
    <3>6. ASSUME NEW j \in 2..Len(todo) PROVE t[Place(t, j)] = todo[j]
      <4>1. s[Place(s, j)] = todo[j] /\ Len(todo) <= Len(s) + 1
        BY <3>3 DEF Ahead
      <4>2. CASE backward
        <5>1. k = Len(todo) /\ Place(s, j) = Len(todo) - j + 1 /\ Place(t, j) = Place(s, j)
          BY <1>4, <3>4, <3>5, <4>2 DEF Place
        <5>2. Place(s, j) \in 1..(k - 1)
          BY <3>4, <5>1
        <5> QED BY <1>4, <4>1, <5>1, <5>2
      <4>3. CASE ~backward
        <5>1. /\ k = Len(s) - Len(todo) + 1 /\ Place(s, j) = Len(s) - Len(todo) + j
              /\ Place(t, j) = Len(s) - 1 - Len(todo) + j
          BY <1>4, <3>4, <3>5, <4>3 DEF Place
        <5>2. Place(t, j) \in k..(Len(s) - 1) /\ Place(t, j) + 1 = Place(s, j)
          BY <1>3, <3>4, <5>1
        <5> QED BY <1>4, <4>1, <5>2
      <4> QED BY <4>2, <4>3
    <3>7. ASSUME NEW i \in 1..Len(t) PROVE t[i] # todo[1]
      <4>1. \A x, y \in 1..Len(s) : s[x] = s[y] => x = y
        BY DEF Represents, Apart
      <4>2. todo[1] = s[k]
        BY <1>2, <3>2, <3>3 DEF Ahead
      <4>3. CASE i < k
        <5>1. i \in 1..(k - 1) /\ i \in 1..Len(s) /\ i # k
          BY <1>3, <1>4, <4>3
        <5> QED BY <1>4, <4>1, <4>2, <5>1
      <4>4. CASE ~(i < k)
        <5>1. i \in k..(Len(s) - 1) /\ i + 1 \in 1..Len(s) /\ i + 1 # k
          BY <1>3, <1>4, <4>4
        <5> QED BY <1>4, <4>1, <4>2, <5>1
      <4> QED BY <4>3, <4>4
    <3>8. Len(todo) <= Len(t) + 1
      <4>1. backward => k = Len(todo)
        BY <3>5 DEF Place
      <4>2. ~backward => k = Len(s) - Len(todo) + 1
        BY <3>5 DEF Place
      <4> QED BY <1>3, <1>4, <3>4, <4>1, <4>2
    <3>9. UNCHANGED cursorVars /\ pos = todo[1] /\ n = At(over, todo, 2)
      BY <1>1, <3>3 DEF Ahead
    <3>10. Ahead(t)'
      BY <3>6, <3>7, <3>8, <3>9 DEF Ahead, Place, At, cursorVars
    <3> QED BY <1>1, <1>3, <1>5, <2>2, <3>3, <3>10 DEF InStep, CursorType, cursorVars
  <2> QED BY <2>1, <2>2
<1>8. Mapped = q /\ Mapped' = r => Abstract!Unlist(e)
  <2> SUFFICES ASSUME Mapped = q, Mapped' = r PROVE Abstract!Unlist(e)
    OBVIOUS
  <2>1. Mapped[h][k] = e /\ k \in 1..Len(Mapped[h])
    BY <1>2
  <2>2. Mapped' = [Mapped EXCEPT ![h] = Abstract!RemoveAt(@, k)]
    BY DEF t, RemoveAt, Abstract!RemoveAt, Lists
  <2> QED BY <1>1, <2>1, <2>2 DEF Abstract!Unlist, Mapped
<1> QED BY <1>5, <1>6, <1>7, <1>8 DEF Reached

\* A concatenation has one of its parts at one end of the other.
LEMMA ConcatSpliced ==
  ASSUME NEW a \in Seq(Entries), NEW b \in Seq(Entries)
  PROVE  SplicedAt(a \o b, b, 0, a) /\ SplicedAt(a \o b, a, Len(a), b)
<1> DEFINE c == a \o b
<1>1. Len(a) \in Nat /\ Len(b) \in Nat
  OBVIOUS
<1>2. /\ Len(c) = Len(a) + Len(b)
      /\ \A i \in 1..(Len(a) + Len(b)) : c[i] = IF i <= Len(a) THEN a[i] ELSE b[i - Len(a)]
  BY ConcatProperties
<1> HIDE DEF c
<1>3. \A j \in 1..Len(a) : c[j] = a[j] /\ 0 + j = j
  BY <1>1, <1>2
<1>4. ASSUME NEW j \in 1..Len(b) PROVE c[Len(a) + j] = b[j]
  <2>1. Len(a) + j \in 1..(Len(a) + Len(b)) /\ ~(Len(a) + j <= Len(a)) /\ (Len(a) + j) - Len(a) = j
    BY <1>1
  <2> QED BY <1>2, <2>1
<1>5. SplicedAt(c, b, 0, a)
  BY <1>1, <1>2, <1>3, <1>4 DEF SplicedAt
<1>6. SplicedAt(c, a, Len(a), b)
  <2>1. (Len(a) + 1)..Len(a) = {}
    BY <1>1
  <2> QED BY <1>1, <1>2, <1>3, <1>4, <2>1 DEF SplicedAt
<1> QED BY <1>5, <1>6 DEF c

\* The list_splice functions put one list at an end of another.
LEMMA JoinStep ==
  ASSUME LinkType, NEW q \in Lists, Represents(q), InStep(q),
         NEW list \in Heads, NEW h \in Heads, list_splice(list, h) \/ SpliceInit(list, h)
  PROVE  \E r \in Lists : /\ Reached(r)
                          /\ Mapped = q /\ Mapped' = r => Abstract!Join(list, h)
<1> DEFINE s == q[h]
           u == q[list]
<1>1. /\ list \in live \ {h} /\ h \in live /\ list # h /\ list # over /\ h # over
      /\ next[list] # list /\ UNCHANGED cursorVars
      /\ s \in Seq(Entries) /\ u \in Seq(Entries) /\ Len(s) \in Nat /\ Len(u) \in Nat
  <2>1. list \in live \ {h} /\ h \in live /\ list # over /\ h # over /\ next[list] # list
    BY DEF list_splice, SpliceInit, Touchable, list_empty
  <2>2. UNCHANGED cursorVars
    BY DEF list_splice, SpliceInit
  <2> QED BY <2>1, <2>2 DEF Lists
<1>2. Chain(h, s) /\ Chain(list, u)
  BY <1>1 DEF Represents
<1>3. Len(u) > 0
  <2> SUFFICES ASSUME Len(u) = 0 PROVE FALSE
    BY <1>1
  <2>1. next[At(list, u, 0)] = At(list, u, 0 + 1)
    BY <1>2 DEF Chain
  <2>2. At(list, u, 0) = list /\ At(list, u, 0 + 1) = list
    BY <1>1, AtValues
  <2> QED BY <1>1, <2>1, <2>2
<1>4. PICK k \in 0..Len(s), t \in Seq(Entries), reinit \in BOOLEAN :
        /\ SpliceBetween(list, At(h, s, k), At(h, s, k + 1), reinit)
        /\ live' = IF reinit THEN live ELSE live \ {list}
        /\ SplicedAt(t, s, k, u)
        /\ t \in {u \o s, s \o u}
  <2>1. /\ At(h, s, 0) = h /\ At(h, s, Len(s) + 1) = h
        /\ next[h] = At(h, s, 0 + 1) /\ prev[h] = At(h, s, Len(s))
    <3>1. At(h, s, 0) = h /\ At(h, s, Len(s) + 1) = h
      BY <1>1, AtValues
    <3>2. /\ next[At(h, s, 0)] = At(h, s, 0 + 1)
          /\ prev[At(h, s, Len(s) + 1)] = At(h, s, Len(s))
      BY <1>1, <1>2 DEF Chain
    <3> QED BY <3>1, <3>2
  <2>2. /\ u \o s \in Seq(Entries) /\ s \o u \in Seq(Entries)
        /\ 0 \in 0..Len(s) /\ Len(s) \in 0..Len(s)
    BY <1>1, ConcatProperties
  <2>3. CASE list_splice(list, h)
    <3>1. SpliceBetween(list, At(h, s, 0), At(h, s, 0 + 1), FALSE) /\ live' = live \ {list}
      BY <2>1, <2>3 DEF list_splice
    <3>2. SplicedAt(u \o s, s, 0, u)
      BY <1>1, ConcatSpliced
    <3> QED BY <2>2, <3>1, <3>2
  <2>4. CASE SpliceInit(list, h)
    <3>1. /\ live' = live
          /\ \/ SpliceBetween(list, At(h, s, 0), At(h, s, 0 + 1), TRUE)
             \/ SpliceBetween(list, At(h, s, Len(s)), At(h, s, Len(s) + 1), TRUE)
      BY <2>1, <2>4 DEF SpliceInit
    <3>2. SplicedAt(u \o s, s, 0, u) /\ SplicedAt(s \o u, s, Len(s), u)
      BY <1>1, ConcatSpliced
    <3> QED BY <2>2, <3>1, <3>2
  <2> QED BY <2>3, <2>4
<1> DEFINE r == [[q EXCEPT ![list] = <<>>] EXCEPT ![h] = t]
<1>5. r \in Lists /\ \A g \in Heads \ {h, list} : r[g] = q[g]
  <2> DEFINE p == [q EXCEPT ![list] = <<>>]
  <2>1. <<>> \in Seq(Entries)
    OBVIOUS
  <2>2. p \in Lists /\ \A g \in Heads \ {list} : p[g] = q[g]
    BY <2>1 DEF Lists
  <2> HIDE DEF p
  <2>3. [p EXCEPT ![h] = t] \in Lists
        /\ \A g \in Heads \ {h, list} : [p EXCEPT ![h] = t][g] = q[g]
    BY <2>2 DEF Lists
  <2> QED BY <2>3 DEF p
<1>6. LinkType' /\ Represents(r)'
  BY <1>1, <1>3, <1>4, SplicePlace
<1> HIDE DEF r
<1>7. InStep(r)'
  <2>1. over # NULL => over \in live' /\ r[over] = q[over]
    BY <1>1, <1>4, <1>5 DEF InStep, CursorType
  <2> QED BY <1>1, <1>5, <2>1, InStepKept
<1>8. Mapped = q /\ Mapped' = r => Abstract!Join(list, h)
  <2> SUFFICES ASSUME Mapped = q, Mapped' = r PROVE Abstract!Join(list, h)
    OBVIOUS
  <2>1. Mapped' = [Mapped EXCEPT ![list] = <<>>, ![h] = t]
    BY Zenon DEF r
  <2>2. t \in {Mapped[list] \o Mapped[h], Mapped[h] \o Mapped[list]}
    BY <1>4
  <2>3. live' \in {live, live \ {list}}
    BY <1>4
  <2> QED BY Zenon, <1>1, <2>1, <2>2, <2>3 DEF Abstract!Join, Mapped
<1> QED BY <1>5, <1>6, <1>7, <1>8 DEF Reached

-----------------------------------------------------------------------------
(* The traversals change no list.                                             *)

\* The lists stay as they are when no link changes.
LEMMA LinksKept ==
  ASSUME LinkType, NEW q \in Lists, Represents(q), UNCHANGED <<linkVars, live>>
  PROVE  LinkType' /\ Represents(q)'
  BY DEF LinkType, Represents, Chain, At, Apart, HasPlace, linkVars

\* At the start of a loop the whole list is ahead, in the loop's direction.
LEMMA BeginStep ==
  ASSUME LinkType, NEW q \in Lists, Represents(q), InStep(q),
         NEW h \in Heads, NEW back \in BOOLEAN, Begin(h, back)
  PROVE  InStep(q)'
<1> DEFINE s == q[h]
           t == IF back THEN Reverse(s) ELSE s
<1>1. /\ h \in live /\ h # NULL /\ over' = h /\ backward' = back /\ UNCHANGED <<linkVars, live>>
      /\ pos' = IF back THEN prev[h] ELSE next[h]
      /\ n' = IF back THEN prev[prev[h]] ELSE next[next[h]]
      /\ todo' = IF back THEN Reverse(Items(h)) ELSE Items(h)
  BY NodeAssumption DEF Begin
<1>2. todo' = t /\ Chain(h, s) /\ s \in Seq(Entries) /\ Len(s) \in Nat
  BY <1>1, ItemsRepresented DEF Represents, Lists
<1>3. /\ t \in Seq(Entries) /\ Len(t) = Len(s)
      /\ \A j \in 1..Len(s) : t[j] = IF back THEN s[Len(s) - j + 1] ELSE s[j]
  <2>1. CASE back
    <3>1. t = [j \in 1..Len(s) |-> s[(Len(s) - j) + 1]]
      BY <2>1 DEF Reverse
    <3>2. \A j \in 1..Len(s) : (Len(s) - j) + 1 \in 1..Len(s)
      BY <1>2
    <3> HIDE DEF t
    <3>3. t \in [1..Len(s) -> Entries]
      BY <1>2, <3>1, <3>2
    <3>4. t \in Seq(Entries) /\ Len(t) = Len(s)
      BY <1>2, <3>3, SeqDef
    <3> QED BY <2>1, <3>1, <3>4
  <2>2. CASE ~back
    BY <1>2, <2>2
  <2> QED BY <2>1, <2>2
<1> HIDE DEF t
<1>4. /\ 0 \in 0..Len(s) /\ Len(s) \in 0..Len(s)
      /\ next[h] = At(h, s, 1) /\ prev[h] = At(h, s, Len(s))
  <2>1. 0 \in 0..Len(s) /\ Len(s) \in 0..Len(s) /\ 0 + 1 = 1
    BY <1>2
  <2>2. At(h, s, 0) = h /\ At(h, s, Len(s) + 1) = h
    BY <1>2, AtValues
  <2>3. /\ next[At(h, s, 0)] = At(h, s, 0 + 1)
        /\ prev[At(h, s, Len(s) + 1)] = At(h, s, Len(s))
    BY <1>2, <2>1 DEF Chain
  <2> QED BY <2>1, <2>2, <2>3
<1>5. CASE Len(s) = 0
  <2>1. todo' = <<>>
    BY <1>2, <1>3, <1>5, EmptySeq
  <2>2. next[h] = h /\ prev[h] = h
    BY <1>4, <1>5 DEF At
  <2>3. pos' = h /\ n' = h
    BY <1>1, <2>2
  <2> QED BY <1>1, <1>2, <1>3, <2>1, <2>3 DEF InStep, CursorType, Node
<1>6. CASE Len(s) > 0
  <2>1. todo' # <<>>
    BY <1>2, <1>3, <1>6
  <2>2. pos' = t[1]
    BY <1>1, <1>2, <1>3, <1>4, <1>6 DEF At
  <2>3. n' = At(h, t, 2) /\ n' \in Node
    <3>1. CASE back
      <4>1. PICK i \in 0..Len(s) : i + 1 = Len(s)
        <5>1. Len(s) - 1 \in 0..Len(s) /\ (Len(s) - 1) + 1 = Len(s)
          BY <1>2, <1>6
        <5> QED BY <5>1
      <4>2. prev[At(h, s, Len(s))] = At(h, s, i)
        BY <1>2, <4>1 DEF Chain
      <4>3. n' = At(h, s, i)
        BY <1>1, <1>4, <3>1, <4>2
      <4>4. At(h, t, 2) = At(h, s, i)
        BY <1>2, <1>3, <3>1, <4>1 DEF At
      <4>5. At(h, s, i) \in Node
        BY <1>2, AtValues
      <4> QED BY <4>3, <4>4, <4>5
    <3>2. CASE ~back
      <4>1. 1 \in 0..Len(s) /\ 1 + 1 = 2 /\ 2 \in 0..(Len(s) + 1)
        BY <1>2, <1>6
      <4>2. next[At(h, s, 1)] = At(h, s, 2)
        BY <1>2, <4>1 DEF Chain
      <4>3. At(h, t, 2) = At(h, s, 2)
        BY <1>2, <1>3, <3>2 DEF At
      <4>4. At(h, s, 2) \in Node
        BY <1>2, <4>1, AtValues
      <4> QED BY <1>1, <1>4, <3>2, <4>2, <4>3, <4>4
    <3> QED BY <3>1, <3>2
  <2>4. ASSUME NEW j \in 1..Len(t) PROVE s[Place(s, j)'] = t[j]
    <3>1. CASE back
      <4>1. Place(s, j)' = Len(s) - j + 1
        BY <1>1, <1>2, <1>3, <3>1 DEF Place
      <4> QED BY <1>3, <3>1, <4>1
    <3>2. CASE ~back
      <4>1. Place(s, j)' = j
        BY <1>1, <1>2, <1>3, <3>2 DEF Place
      <4> QED BY <1>3, <3>2, <4>1
    <3> QED BY <3>1, <3>2
  <2>5. ASSUME NEW i \in 1..Len(s), s[i] = t[1] PROVE i = Place(s, 1)'
    <3>1. \A x, y \in 1..Len(s) : s[x] = s[y] => x = y
      BY DEF Represents, Apart
    <3>2. Place(s, 1)' \in 1..Len(s)
      BY <1>1, <1>2, <1>3, <1>6 DEF Place
    <3>3. s[Place(s, 1)'] = t[1]
      BY <1>2, <1>3, <1>6, <2>4
    <3> QED BY <2>5, <3>1, <3>2, <3>3
  <2>6. Ahead(s)'
    <3>1. \A j \in 2..Len(t) : j \in 1..Len(t)
      BY <1>2, <1>3
    <3> QED BY <1>1, <1>2, <1>3, <2>2, <2>3, <2>4, <2>5, <3>1 DEF Ahead, At
  <2> QED BY <1>1, <1>2, <1>3, <2>1, <2>3, <2>6 DEF InStep, CursorType
<1> QED BY <1>2, <1>5, <1>6

\* The loop steps to the entry it read before the body ran, which is the next
\* one ahead, and reads the one after it.
LEMMA AdvanceStep ==
  ASSUME LinkType, NEW q \in Lists, Represents(q), InStep(q), Advance
  PROVE  InStep(q)'
<1> USE DEF Lists
<1>h. over # NULL /\ over \in Heads
  BY Zenon DEF Advance, InStep, CursorType
<1> PICK h \in Heads : h = over
  BY <1>h
<1> DEFINE s == q[h]
           T == Len(todo)
<1>1. /\ over # NULL /\ pos # over /\ pos' = n /\ n' = Onward(n) /\ todo' = Tail(todo)
      /\ UNCHANGED <<linkVars, live, over, backward>>
  BY DEF Advance
<1>2. /\ over \in live /\ over \in Heads /\ backward \in BOOLEAN /\ todo \in Seq(Entries)
      /\ todo # <<>> /\ Ahead(s) /\ n \in Node
  BY Zenon, <1>1 DEF InStep, CursorType, LinkType
<1>3. /\ s \in Seq(Entries) /\ Len(s) \in Nat /\ Chain(over, s)
      /\ \A x, y \in 1..Len(s) : s[x] = s[y] => x = y
  BY <1>1, <1>2 DEF Represents, Apart
<1>4. /\ T \in Nat /\ T > 0 /\ T <= Len(s) + 1 /\ n = At(over, todo, 2)
      /\ Tail(todo) \in Seq(Entries) /\ Len(Tail(todo)) = T - 1
      /\ \A i \in 1..(T - 1) : Tail(todo)[i] = todo[i + 1]
      /\ \A j \in 2..T : s[Place(s, j)] = todo[j]
  BY <1>2, EmptySeq, HeadTailProperties DEF Ahead
<1>5. CASE T = 1
  <2>1. Tail(todo) = <<>> /\ n = over
    <3>1. Tail(todo) \in Seq(Entries) /\ Len(Tail(todo)) = 0 /\ ~(2 \in 1..T)
      BY <1>4, <1>5
    <3> QED BY <1>4, <3>1, EmptySeq DEF At
  <2>2. next[over] \in Node /\ prev[over] \in Node
    <3>1. 0 \in 0..Len(s) /\ Len(s) \in 0..Len(s)
      BY <1>3
    <3>2. /\ next[At(over, s, 0)] = At(over, s, 0 + 1)
          /\ prev[At(over, s, Len(s) + 1)] = At(over, s, Len(s))
      BY <1>3, <3>1 DEF Chain
    <3>3. /\ At(over, s, 0 + 1) \in Node /\ At(over, s, Len(s)) \in Node
          /\ At(over, s, 0) = over /\ At(over, s, Len(s) + 1) = over
      BY <1>2, <1>3, AtValues
    <3> QED BY <3>2, <3>3
  <2> QED BY <1>1, <1>2, <2>1, <2>2 DEF InStep, CursorType, Onward
<1>6. CASE T > 1
  <2> DEFINE k == Place(s, 2)
  <2>1. k = IF backward THEN T - 1 ELSE Len(s) - T + 2
    BY <1>3, <1>4 DEF Place
  <2>2. k \in 1..Len(s)
    BY <1>2, <1>3, <1>4, <1>6, <2>1
  <2>3. n = todo[2] /\ n = At(over, s, k) /\ Tail(todo)[1] = todo[2]
    <3>1. 2 \in 2..T /\ 2 \in 1..T /\ 1 \in 1..(T - 1)
      BY <1>4, <1>6
    <3>2. n = todo[2] /\ s[k] = todo[2] /\ Tail(todo)[1] = todo[2]
      BY <1>4, <3>1 DEF At
    <3> HIDE DEF k
    <3> QED BY <2>2, <3>2 DEF At
  <2>4. Onward(n) = At(over, Tail(todo), 2) /\ Onward(n) \in Node
    <3>1. CASE backward
      <4>1. PICK i \in 0..Len(s) : i + 1 = k
        <5>1. k - 1 \in 0..Len(s) /\ (k - 1) + 1 = k
          BY <2>2
        <5> QED BY <5>1
      <4>2. prev[n] = At(over, s, i)
        BY <1>3, <2>3, <4>1 DEF Chain
      <4>3. At(over, s, i) = At(over, Tail(todo), 2)
        <5>1. CASE T = 2
          <6>1. ~(0 \in 1..Len(s)) /\ ~(2 \in 1..1) /\ Len(Tail(todo)) = 1
            BY <1>3, <1>4, <5>1
          <6>2. i = 0
            BY <2>1, <3>1, <4>1, <5>1
          <6> HIDE DEF k
          <6> QED BY <6>1, <6>2 DEF At
        <5>2. CASE T > 2
          <6>1. 3 \in 2..T /\ 2 \in 1..(T - 1) /\ Place(s, 3) = i /\ i \in 1..Len(s)
            <7>1. Place(s, 3) = T - 2
              BY <1>3, <1>4, <3>1 DEF Place
            <7>2. i = T - 2
              BY <1>4, <2>1, <3>1, <4>1
            <7>3. T - 2 \in 1..Len(s)
              BY <1>3, <1>4, <5>2
            <7>4. 3 \in 2..T /\ 2 \in 1..(T - 1)
              BY <1>4, <5>2
            <7> HIDE DEF k
            <7> QED BY <7>1, <7>2, <7>3, <7>4
          <6> HIDE DEF k
          <6>2. s[i] = todo[3] /\ Tail(todo)[2] = todo[3]
            BY <1>4, <6>1
          <6> QED BY <1>4, <6>1, <6>2 DEF At
        <5> QED BY <1>4, <1>6, <5>1, <5>2
      <4>4. At(over, s, i) \in Node
        BY <1>2, <1>3, AtValues
      <4> QED BY <3>1, <4>2, <4>3, <4>4 DEF Onward
    <3>2. CASE ~backward
      <4>1. k \in 0..Len(s) /\ k + 1 \in 0..(Len(s) + 1)
        BY <1>3, <2>2
      <4>2. next[n] = At(over, s, k + 1)
        BY <1>3, <2>3, <4>1 DEF Chain
      <4>3. At(over, s, k + 1) = At(over, Tail(todo), 2)
        <5>1. CASE T = 2
          <6>1. k + 1 = Len(s) + 1
            BY <1>3, <2>1, <3>2, <5>1
          <6>2. ~(Len(s) + 1 \in 1..Len(s)) /\ ~(2 \in 1..1) /\ Len(Tail(todo)) = 1
            BY <1>3, <1>4, <5>1
          <6> HIDE DEF k
          <6> QED BY <6>1, <6>2 DEF At
        <5>2. CASE T > 2
          <6>1. 3 \in 2..T /\ 2 \in 1..(T - 1) /\ Place(s, 3) = k + 1 /\ k + 1 \in 1..Len(s)
            BY <1>3, <1>4, <2>1, <2>2, <3>2, <5>2 DEF Place
          <6>2. s[k + 1] = todo[3] /\ Tail(todo)[2] = todo[3]
            BY <1>4, <6>1
          <6> HIDE DEF k
          <6> QED BY <1>4, <6>1, <6>2 DEF At
        <5> QED BY <1>4, <1>6, <5>1, <5>2
      <4>4. At(over, s, k + 1) \in Node
        BY <1>2, <1>3, <4>1, AtValues
      <4> QED BY <3>2, <4>2, <4>3, <4>4 DEF Onward
    <3> QED BY <3>1, <3>2
  <2>5. ASSUME NEW x \in Seq(Entries), NEW j \in 1..(T - 1)
        PROVE  Place(x, j)' = Place(x, j + 1)
    BY <1>1, <1>2, <1>4 DEF Place
  <2>6. \A j \in 2..(T - 1) : s[Place(s, j)'] = Tail(todo)[j]
    <3> TAKE j \in 2..(T - 1)
    <3>1. j \in 1..(T - 1) /\ j + 1 \in 2..T
      BY <1>4
    <3> QED BY <1>3, <1>4, <2>5, <3>1
  <2>7. \A i \in 1..Len(s) : s[i] = Tail(todo)[1] => i = Place(s, 1)'
    <3>1. Place(s, 1)' = k
      <4>1. 1 \in 1..(T - 1) /\ 1 + 1 = 2
        BY <1>4, <1>6
      <4> QED BY <1>3, <2>5, <4>1
    <3>2. s[k] = Tail(todo)[1]
      BY <2>2, <2>3 DEF At
    <3> HIDE DEF k
    <3> QED BY <1>3, <2>2, <3>1, <3>2
  <2>8. /\ Len(todo') <= Len(s) + 1 /\ pos' = todo'[1] /\ n' = At(over, todo', 2)
    <3>1. Len(todo') <= Len(s) + 1
      BY <1>1, <1>3, <1>4
    <3>2. pos' = todo'[1]
      BY <1>1, <2>3
    <3>3. n' = At(over, todo', 2)
      BY <1>1, <2>4
    <3> QED BY <3>1, <3>2, <3>3
  <2>9. /\ \A j \in 2..Len(todo') : s[Place(s, j)'] = todo'[j]
        /\ \A i \in 1..Len(s) : s[i] = todo'[1] => i = Place(s, 1)'
    BY <1>1, <1>4, <2>6, <2>7
  <2>10. over' = over /\ todo' # <<>> /\ n' \in Node
    <3>1. Len(Tail(todo)) # 0
      BY <1>4, <1>6
    <3>2. Len(<< >>) = 0
      OBVIOUS
    <3>3. Tail(todo) # << >>
      BY Zenon, <3>1, <3>2
    <3> HIDE DEF k
    <3> QED BY <1>1, <2>4, <3>3
  <2> HIDE DEF k
  <2>11. ASSUME NEW x, x = s PROVE Ahead(x)'
    BY <2>8, <2>9, <2>10, <2>11 DEF Ahead, At, Place
  <2>12. Ahead(q[over])'
    BY <2>10, <2>11
  <2> QED BY <1>1, <1>2, <1>4, <2>10, <2>12 DEF InStep, CursorType
<1> QED BY <1>4, <1>5, <1>6

\* No traversal is under way after the loop.
LEMMA LeaveStep ==
  ASSUME NEW q \in Lists, InStep(q), Leave
  PROVE  InStep(q)'
<1>1. over' = NULL /\ backward' = FALSE /\ todo' = <<>> /\ UNCHANGED <<linkVars, live>>
  BY DEF Leave
<1>2. <<>> \in Seq(Entries)
  OBVIOUS
<1> QED BY <1>1, <1>2 DEF InStep, CursorType

-----------------------------------------------------------------------------
(* The invariant is inductive, and every step is the abstract one.            *)

\* All lists are out of use at first.
LEMMA InitLists == Init => LinkType /\ \E q \in Lists : Represents(q) /\ InStep(q)
<1> SUFFICES ASSUME Init PROVE LinkType /\ \E q \in Lists : Represents(q) /\ InStep(q)
  OBVIOUS
<1> DEFINE q == [h \in Heads |-> <<>>]
<1>1. <<>> \in Seq(Entries) /\ Len(<<>>) = 0
  OBVIOUS
<1>2. q \in Lists /\ \A h \in Heads : q[h] = <<>> /\ 1..Len(q[h]) = {}
  BY <1>1 DEF Lists
<1>3. LinkType
  BY DEF Init, LinkType
<1>4. \A e \in Entries : next[e] = NULL /\ prev[e] = NULL
  BY DEF Init, Node
<1> HIDE DEF q
<1>5. Represents(q)
  BY <1>2, <1>4 DEF Init, Represents, Apart
<1>6. InStep(q)
  BY <1>1 DEF Init, InStep, CursorType
<1> QED BY <1>2, <1>3, <1>5, <1>6

\* From lists q every step leads to lists r, and is the abstract step from q to
\* r or, if it is one of a traversal, changes no list.
LEMMA NextLists ==
  ASSUME LinkType, NEW q \in Lists, Represents(q), InStep(q), [Next]_vars
  PROVE  \E r \in Lists :
           /\ Reached(r)
           /\ Mapped = q /\ Mapped' = r => [Abstract!Next]_<<live, Mapped>>
<1>1. ASSUME NEW h \in Heads, init_list_head(h)
      PROVE  Reached(q) /\ (Mapped = q /\ Mapped' = q => Abstract!Next)
  BY <1>1, StartStep DEF Abstract!Next
<1>2. ASSUME NEW h \in Heads, NEW e \in Entries, Add(e, h)
      PROVE  \E r \in Lists : Reached(r) /\ (Mapped = q /\ Mapped' = r => Abstract!Next)
  BY <1>2, AddStep DEF Abstract!Next
<1>3. ASSUME NEW h \in Heads, NEW list \in Heads, list_splice(list, h) \/ SpliceInit(list, h)
      PROVE  \E r \in Lists : Reached(r) /\ (Mapped = q /\ Mapped' = r => Abstract!Next)
  BY <1>3, JoinStep DEF Abstract!Next
<1>4. ASSUME NEW e \in Entries, Delete(e)
      PROVE  \E r \in Lists : Reached(r) /\ (Mapped = q /\ Mapped' = r => Abstract!Next)
  BY <1>4, DeleteStep DEF Abstract!Next
<1>5. ASSUME \/ \E h \in Heads, back \in BOOLEAN : Begin(h, back)
             \/ Advance \/ Leave \/ UNCHANGED vars
      PROVE  Reached(q) /\ UNCHANGED live
  <2>1. UNCHANGED <<linkVars, live>>
    BY <1>5 DEF Begin, Advance, Leave, vars
  <2>2. InStep(q)'
    <3>1. CASE UNCHANGED vars
      <4>1. over # NULL => over \in live' /\ q[over] = q[over]
        BY <3>1 DEF InStep, vars
      <4> QED BY <3>1, <4>1, InStepKept DEF vars
    <3> QED BY <1>5, <3>1, BeginStep, AdvanceStep, LeaveStep
  <2> QED BY <2>1, <2>2, LinksKept DEF Reached
<1>6. CASE Next
  BY <1>1, <1>2, <1>3, <1>4, <1>5, <1>6 DEF Next
<1> QED BY <1>5, <1>6

\* The links represent lists at every moment.
LEMMA ListInvHolds == Spec => []ListInv
<1>1. Init => ListInv
  BY InitLists DEF ListInv
<1>2. ListInv /\ [Next]_vars => ListInv'
  BY NextLists DEF ListInv, Reached
<1> QED BY <1>1, <1>2, PTL DEF Spec

\* What the refinement mapping reads off the links is the lists they represent,
\* in the next state too.
MapsBack == \A q \in Lists : LinkType /\ Represents(q) => Mapped = q

LEMMA MappedAfter == \A r \in Lists : LinkType' /\ Represents(r)' => Mapped' = r
<1>1. MapsBack
  BY MappedRepresented DEF MapsBack
<1>2. MapsBack'
  BY <1>1, PTL
<1> QED BY <1>2 DEF MapsBack, Lists

-----------------------------------------------------------------------------
(* The theorems.                                                              *)

\* A traversal's cursors are nodes of the list at every moment, never the NULL
\* that list_del leaves in an entry, whatever the body deletes or moves.
THEOREM TypeCorrect == Spec => []TypeOK
<1>1. ListInv => TypeOK
  <2> SUFFICES ASSUME ListInv PROVE TypeOK
    OBVIOUS
  <2>1. PICK q \in Lists : InStep(q)
    BY DEF ListInv
  <2>2. LinkType /\ CursorType
    BY <2>1 DEF ListInv, InStep
  <2>3. over # NULL => pos \in Node
    <3>1. CASE over # NULL /\ todo # <<>>
      <4>1. Len(todo) \in Nat \ {0} /\ todo[1] \in Entries
        BY <2>2, <3>1, EmptySeq DEF CursorType
      <4> QED BY <2>1, <3>1, <4>1 DEF InStep, Ahead, Node
    <3>2. CASE over # NULL /\ todo = <<>>
      BY <2>1, <2>2, <3>2 DEF InStep, CursorType, Node
    <3> QED BY <3>1, <3>2
  <2> QED BY <2>2, <2>3 DEF TypeOK, LinkType, CursorType
<1> QED BY <1>1, ListInvHolds, PTL

\* Every list is a ring that can be walked both ways, whatever sequence of
\* list_add, list_del and list_splice produced it, for any number of lists and
\* entries.
THEOREM RingsHold == Spec => []Rings
<1>1. ListInv => Rings
  <2> SUFFICES ASSUME ListInv, NEW x \in Linked
               PROVE  /\ next[x] \in Linked /\ prev[next[x]] = x
                      /\ prev[x] \in Linked /\ next[prev[x]] = x
    BY DEF Rings
  <2>1. PICK q \in Lists : LinkType /\ Represents(q)
    BY DEF ListInv
  <2> USE DEF Lists
  <2>2. ASSUME NEW h \in live, NEW i \in 0..(Len(q[h]) + 1)
        PROVE  At(h, q[h], i) \in Linked
    <3>1. h \in Heads /\ q[h] \in Seq(Entries) /\ Len(q[h]) \in Nat /\ Chain(h, q[h])
      BY <2>1 DEF LinkType, Represents
    <3>2. CASE i \in 1..Len(q[h])
      <4>1. q[h][i] \in Entries
        BY <3>1, <3>2
      <4>2. next[q[h][i]] # NULL
        <5>1. i \in 0..Len(q[h]) /\ i + 1 \in 0..(Len(q[h]) + 1)
          BY <3>1, <3>2
        <5>2. next[At(h, q[h], i)] = At(h, q[h], i + 1)
          BY <3>1, <5>1 DEF Chain
        <5>3. At(h, q[h], i + 1) \in Node /\ At(h, q[h], i) = q[h][i]
          BY <3>1, <3>2, <5>1, AtValues
        <5> QED BY <5>2, <5>3, NodeAssumption DEF Node
      <4> QED BY <3>2, <4>1, <4>2 DEF Linked, At
    <3>3. CASE i \notin 1..Len(q[h])
      BY <3>3 DEF Linked, At
    <3> QED BY <3>2, <3>3
  <2>3. ASSUME NEW h \in live, NEW i \in 0..Len(q[h]), x = At(h, q[h], i)
        PROVE  next[x] \in Linked /\ prev[next[x]] = x
    <3>1. Chain(h, q[h]) /\ Len(q[h]) \in Nat /\ i + 1 \in 0..(Len(q[h]) + 1)
      BY <2>1 DEF LinkType, Represents
    <3> QED BY <2>2, <2>3, <3>1 DEF Chain
  <2>4. ASSUME NEW h \in live, NEW i \in 0..Len(q[h]), x = At(h, q[h], i + 1)
        PROVE  prev[x] \in Linked /\ next[prev[x]] = x
    <3>1. Chain(h, q[h]) /\ Len(q[h]) \in Nat /\ i \in 0..(Len(q[h]) + 1)
      BY <2>1 DEF LinkType, Represents
    <3> QED BY <2>2, <2>4, <3>1 DEF Chain
  <2>5. CASE x \in live
    <3>1. Len(q[x]) \in Nat /\ x \in Heads /\ q[x] \in Seq(Entries)
      BY <2>1, <2>5 DEF LinkType
    <3>2. 0 \in 0..Len(q[x]) /\ Len(q[x]) \in 0..Len(q[x])
      BY <3>1
    <3>3. x = At(x, q[x], 0) /\ x = At(x, q[x], Len(q[x]) + 1)
      BY <3>1, AtValues
    <3> QED BY <2>3, <2>4, <2>5, <3>2, <3>3
  <2>6. CASE x \in Entries /\ HasPlace(q, x)
    <3>1. PICK h \in Heads : \E i \in 1..Len(q[h]) : q[h][i] = x
      BY <2>6 DEF HasPlace
    <3>2. PICK i \in 1..Len(q[h]) : q[h][i] = x
      BY <3>1
    <3>3. q[h] \in Seq(Entries) /\ Len(q[h]) \in Nat
      OBVIOUS
    <3>4. h \in live
      BY <2>1, <3>2, <3>3 DEF Represents
    <3>5. PICK j \in 0..Len(q[h]) : j + 1 = i
      <4>1. i - 1 \in 0..Len(q[h]) /\ (i - 1) + 1 = i
        BY <3>3
      <4> QED BY <4>1
    <3>6. i \in 0..Len(q[h]) /\ x = At(h, q[h], i) /\ x = At(h, q[h], j + 1)
      BY <3>2, <3>3, <3>5 DEF At
    <3> QED BY <2>3, <2>4, <3>4, <3>5, <3>6
  <2>7. CASE x \in Entries /\ ~HasPlace(q, x)
    <3>1. next[x] = x /\ prev[x] = x
      BY <2>1, <2>7, NodeAssumption DEF Represents, Linked, LinkType
    <3> QED BY <3>1
  <2> QED BY <2>5, <2>6, <2>7 DEF Linked
<1> QED BY <1>1, ListInvHolds, PTL

\* list_for_each_entry_safe and its reverse visit each entry the list had when
\* the loop began once and in order, although the body may delete the current
\* entry, move it to another list, or change the other lists.
THEOREM TraversalHolds == Spec => []TraversalInStep
<1>1. ListInv => TraversalInStep
  BY DEF ListInv, InStep, Ahead, TraversalInStep
<1> QED BY <1>1, ListInvHolds, PTL

\* The functions of list.h implement sequences of entries: what following next
\* from a head yields changes exactly as the name of the function says.
THEOREM RefinesLists == Spec => ImplementsLists
<1>1. Init => Abstract!Init
  <2>1. Init => Mapped = [h \in Heads |-> <<>>]
    BY DEF Init, Mapped
  <2> QED BY <2>1 DEF Init, Abstract!Init, Mapped
<1>2. ListInv /\ [Next]_vars => [Abstract!Next]_<<live, Mapped>>
  <2> SUFFICES ASSUME ListInv, [Next]_vars
               PROVE  [Abstract!Next]_<<live, Mapped>>
    OBVIOUS
  <2>1. PICK q \in Lists : Represents(q) /\ InStep(q)
    BY DEF ListInv
  <2>2. LinkType
    BY DEF ListInv
  <2>3. Mapped = q
    BY <2>1, <2>2, MappedRepresented
  <2>4. PICK r \in Lists :
          /\ Reached(r)
          /\ Mapped = q /\ Mapped' = r => [Abstract!Next]_<<live, Mapped>>
    BY <2>1, <2>2, NextLists
  <2>5. Mapped' = r
    BY <2>4, MappedAfter DEF Reached
  <2> QED BY <2>3, <2>4, <2>5
<1> QED BY <1>1, <1>2, ListInvHolds, PTL DEF Spec, ImplementsLists, Abstract!Spec, Mapped

=============================================================================
