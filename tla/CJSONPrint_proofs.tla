--------------------------- MODULE CJSONPrint_proofs ---------------------------
(* The printer of cjson.c keeps to the memory it has and loses none of it, for *)
(* every item, every size its caller gives, every limit of ensure and every    *)
(* allocation that fails.                                                      *)
EXTENDS CJSONPrint, SequenceTheorems, WellFoundedInduction, TLAPS

-----------------------------------------------------------------------------
(* Functions that are defined by recursion on a number exist.                  *)

\* A set of natural numbers that is not empty has a least element.
LEMMA LeastElement ==
  ASSUME NEW T \in SUBSET Nat, T # {}
  PROVE  \E m \in T : \A i \in T : ~(i < m)
<1>1. PICK m \in T : \A i \in T : <<i, m>> \notin OpToRel(<, Nat)
  BY NatLessThanWellFounded, WFMin
<1>2. m \in Nat /\ \A i \in T : i \in Nat
  OBVIOUS
<1> QED BY <1>1, <1>2 DEF OpToRel

\* A set of natural numbers that has 0, and each number after one it has, has all.
LEMMA AllNumbers ==
  ASSUME NEW T \in SUBSET Nat, 0 \in T, \A m \in T : m + 1 \in T
  PROVE  T = Nat
<1> SUFFICES ASSUME Nat \ T # {} PROVE FALSE
  OBVIOUS
<1>1. PICK m \in Nat \ T : \A i \in Nat \ T : ~(i < m)
  BY LeastElement
<1>2. m - 1 \in Nat /\ m - 1 < m /\ (m - 1) + 1 = m
  <2>1. m # 0
    OBVIOUS
  <2> QED BY <2>1
<1>3. m - 1 \in T
  BY <1>1, <1>2
<1> QED BY <1>2, <1>3

\* The first n + 1 values of repeating the function G from s on.
Prefix(S, s, G, n, f) ==
  f \in [0..n -> S] /\ f[0] = s /\ \A m \in 0..(n - 1) : f[m + 1] = G[f[m]]

\* A function can be repeated for ever.
LEMMA Repeated ==
  ASSUME NEW S, NEW s \in S, NEW G \in [S -> S]
  PROVE  \E f \in [Nat -> S] : f[0] = s /\ \A n \in Nat : f[n + 1] = G[f[n]]
<1>1. ASSUME NEW n \in Nat, NEW m \in Nat, n <= m, NEW f, NEW g,
             Prefix(S, s, G, n, f), Prefix(S, s, G, m, g)
      PROVE  \A k \in 0..n : f[k] = g[k]
  <2> DEFINE T == {k \in Nat : k <= n => f[k] = g[k]}
  <2>1. 0 \in T
    BY <1>1 DEF Prefix
  <2>2. ASSUME NEW k \in T PROVE k + 1 \in T
    <3> SUFFICES ASSUME k + 1 <= n PROVE f[k + 1] = g[k + 1]
      OBVIOUS
    <3>1. k \in 0..(n - 1) /\ k \in 0..(m - 1) /\ k <= n
      BY <1>1
    <3>2. f[k] = g[k]
      BY <3>1
    <3> QED BY <1>1, <3>1, <3>2 DEF Prefix
  <2> HIDE DEF T
  <2>3. T = Nat
    BY <2>1, <2>2, AllNumbers DEF T
  <2> QED BY <2>3 DEF T
<1>2. \A n \in Nat : \E f : Prefix(S, s, G, n, f)
  <2> DEFINE T == {n \in Nat : \E f : Prefix(S, s, G, n, f)}
  <2>1. 0 \in T
    <3>1. Prefix(S, s, G, 0, [m \in 0..0 |-> s])
      BY DEF Prefix
    <3> QED BY <3>1
  <2>2. ASSUME NEW n \in T PROVE n + 1 \in T
    <3>1. PICK f : Prefix(S, s, G, n, f)
      OBVIOUS
    <3> DEFINE g == [m \in 0..(n + 1) |-> IF m = n + 1 THEN G[f[n]] ELSE f[m]]
    <3>2. f \in [0..n -> S] /\ n \in 0..n /\ n \in Nat
      BY <3>1 DEF Prefix
    <3>3. g \in [0..(n + 1) -> S] /\ g[0] = s
      <4>1. \A m \in 0..(n + 1) : m # n + 1 => m \in 0..n
        BY <3>2
      <4>2. 0 \in 0..(n + 1) /\ 0 # n + 1
        BY <3>2
      <4> QED BY <3>1, <3>2, <4>1, <4>2 DEF Prefix
    <3>4. ASSUME NEW m \in 0..((n + 1) - 1) PROVE g[m + 1] = G[g[m]]
      <4>1. m \in 0..n /\ m + 1 \in 0..(n + 1) /\ m \in 0..(n + 1) /\ m # n + 1
        BY <3>2
      <4>2. CASE m = n
        BY <4>1, <4>2
      <4>3. CASE m # n
        <5>1. m \in 0..(n - 1) /\ m + 1 # n + 1
          BY <3>2, <4>1, <4>3
        <5> QED BY <3>1, <4>1, <5>1 DEF Prefix
      <4> QED BY <4>2, <4>3
    <3> HIDE DEF g
    <3>5. Prefix(S, s, G, n + 1, g)
      BY <3>3, <3>4 DEF Prefix
    <3> QED BY <3>2, <3>5
  <2> HIDE DEF T
  <2>3. T = Nat
    BY <2>1, <2>2, AllNumbers DEF T
  <2> QED BY <2>3 DEF T
<1> DEFINE pre(n) == CHOOSE f : Prefix(S, s, G, n, f)
           h == [n \in Nat |-> pre(n)[n]]
<1>3. \A n \in Nat : Prefix(S, s, G, n, pre(n))
  BY <1>2
<1> HIDE DEF pre
<1>4. h \in [Nat -> S]
  <2>1. \A n \in Nat : n \in 0..n
    OBVIOUS
  <2> QED BY <1>3, <2>1 DEF Prefix
<1>5. h[0] = s
  BY <1>3 DEF Prefix
<1>6. ASSUME NEW n \in Nat PROVE h[n + 1] = G[h[n]]
  <2>1. n + 1 \in Nat /\ n \in 0..n /\ n \in 0..((n + 1) - 1) /\ n <= n + 1
    OBVIOUS
  <2>2. pre(n)[n] = pre(n + 1)[n]
    BY <1>1, <1>3, <2>1
  <2>3. pre(n + 1)[n + 1] = G[pre(n + 1)[n]]
    BY <1>3, <2>1 DEF Prefix
  <2> QED BY <2>1, <2>2, <2>3
<1> HIDE DEF h
<1> QED BY <1>4, <1>5, <1>6

\* Repeated, for a function that is known only by its type.
Maps(S, s, G) == s \in S /\ G \in [S -> S]
Repeats(S, s, G, f) == f \in [Nat -> S] /\ f[0] = s /\ \A n \in Nat : f[n + 1] = G[f[n]]

\* The same, with the hypothesis and the conclusion as one fact each.
LEMMA RepeatedMap ==
  ASSUME NEW S, NEW s, NEW G, Maps(S, s, G)
  PROVE  \E f : Repeats(S, s, G, f)
<1>1. s \in S /\ G \in [S -> S]
  BY DEF Maps
<1>2. PICK f \in [Nat -> S] : f[0] = s /\ \A n \in Nat : f[n + 1] = G[f[n]]
  BY <1>1, Repeated
<1> QED BY <1>2 DEF Repeats

\* A function defined by recursion on the number before exists.
Steps(N, V, v, H) == N \in Nat /\ v \in V /\ H \in [Nat -> [V -> V]]
Reaches(N, V, v, H, f) ==
  f \in [0..N -> V] /\ f[0] = v /\ \A n \in 1..N : f[n] = H[n][f[n - 1]]

\* There is a function on 0..N whose value at n is made by H[n] from the one at
\* n - 1: by repeating the step that takes <<n, value>> on.
LEMMA Recursive ==
  ASSUME NEW N, NEW V, NEW v, NEW H, Steps(N, V, v, H)
  PROVE  \E f : Reaches(N, V, v, H, f)
<1>0. N \in Nat /\ v \in V /\ H \in [Nat -> [V -> V]]
  BY DEF Steps
<1> DEFINE S == Nat \X V
           s == <<0, v>>
           G == [x \in S |-> <<x[1] + 1, H[x[1] + 1][x[2]]>>]
<1>1. s \in S
  BY <1>0
<1>2. G \in [S -> S]
  <2>1. ASSUME NEW x \in S PROVE <<x[1] + 1, H[x[1] + 1][x[2]]>> \in S
    <3>1. x[1] \in Nat /\ x[1] + 1 \in Nat /\ x[2] \in V
      OBVIOUS
    <3>2. H[x[1] + 1][x[2]] \in V
      BY <1>0, <3>1
    <3> QED BY <3>1, <3>2
  <2> QED BY <2>1
<1> HIDE DEF S, s, G
<1>3. PICK g \in [Nat -> S] : g[0] = s /\ \A n \in Nat : g[n + 1] = G[g[n]]
  <2>1. Maps(S, s, G)
    BY <1>1, <1>2 DEF Maps
  <2>2. \E g : Repeats(S, s, G, g)
    BY <2>1, RepeatedMap
  <2> QED BY <2>2 DEF Repeats
<1>4. \A n \in Nat : g[n] \in Nat \X V /\ g[n + 1] = <<g[n][1] + 1, H[g[n][1] + 1][g[n][2]]>>
  BY <1>3 DEF S, G
<1> DEFINE T == {n \in Nat : g[n][1] = n}
<1>5. T = Nat
  <2>1. 0 \in T
    BY <1>3 DEF s
  <2>2. ASSUME NEW n \in T PROVE n + 1 \in T
    <3>1. n \in Nat /\ g[n][1] = n
      OBVIOUS
    <3> HIDE DEF T
    <3>2. g[n + 1][1] = n + 1
      BY <1>4, <3>1
    <3> QED BY <3>1, <3>2 DEF T
  <2> HIDE DEF T
  <2>3. T \in SUBSET Nat
    BY DEF T
  <2> QED BY <2>1, <2>2, <2>3, AllNumbers
<1> DEFINE f == [n \in 0..N |-> g[n][2]]
<1>6. f \in [0..N -> V]
  <2>1. \A n \in 0..N : g[n][2] \in V
    BY <1>4
  <2> QED BY <2>1
<1>7. f[0] = v
  <2>1. f[0] = g[0][2]
    BY <1>0
  <2>2. g[0][2] = v
    BY <1>3 DEF s
  <2> HIDE DEF f
  <2> QED BY <2>1, <2>2
<1>8. ASSUME NEW n \in 1..N PROVE f[n] = H[n][f[n - 1]]
  <2>1. n - 1 \in Nat /\ (n - 1) + 1 = n /\ n \in 0..N /\ n - 1 \in 0..N
    BY <1>0
  <2>2. g[n - 1][1] = n - 1
    BY <1>5, <2>1
  <2>3. g[n] = <<n, H[n][g[n - 1][2]]>>
    BY <1>4, <2>1, <2>2
  <2>4. f[n] = g[n][2] /\ f[n - 1] = g[n - 1][2]
    BY <2>1
  <2> HIDE DEF f
  <2> QED BY <2>3, <2>4
<1> HIDE DEF f
<1> QED BY <1>6, <1>7, <1>8 DEF Reaches

-----------------------------------------------------------------------------
(* What is written for a string is as long as print_string_ptr has counted.    *)

\* Characters: those of items, and those the printer writes of its own.
Own == {NUL, "unset", "newline", "tab", "backspace", "formfeed", "return", "space", "control",
        "\"", "\\", "b", "f", "n", "r", "t", "u", "0", "1", "a", "e", "l", "s",
        "[", "]", "{", "}", ",", ":"}
Chars == STRING \cup Own

\* The characters that the escape of c takes beyond one.
Extra(c) == IF c \in Letters THEN 1 ELSE IF c = "control" THEN 5 ELSE 0

\* A sequence over S is one over every larger set.
LEMMA WiderSeq ==
  ASSUME NEW S, NEW T, S \subseteq T
  PROVE  Seq(S) \subseteq Seq(T)
<1> SUFFICES ASSUME NEW s \in Seq(S) PROVE s \in Seq(T)
  OBVIOUS
<1>1. Len(s) \in Nat /\ s \in [1..Len(s) -> S]
  OBVIOUS
<1>2. s \in [1..Len(s) -> T]
  BY <1>1
<1> QED BY <1>1, <1>2

\* The texts of items and what the printer adds are sequences of characters.
LEMMA InChars ==
  /\ \A s \in Seq(STRING) : s \in Seq(Chars)
  /\ Own \subseteq Chars
<1>1. STRING \subseteq Chars /\ Own \subseteq Chars
  BY DEF Chars
<1>2. \A s \in Seq(STRING) : s \in Seq(Chars)
  BY Zenon, <1>1, WiderSeq
<1> QED BY <1>1, <1>2

\* The escape of a character is as long as EscapeCharacters counts.
LEMMA EscapeLength ==
  ASSUME NEW c \in Chars
  PROVE  Escape(c) \in Seq(Chars) /\ Len(Escape(c)) = 1 + Extra(c) /\ Extra(c) \in Nat
<1>1. CASE c \in Letters
  <2>1. EscapeLetter[c] \in {"n", "t", "b", "f", "r", c}
    <3>1. EscapeLetter[c] = CASE c = "newline" -> "n" [] c = "tab" -> "t" [] c = "backspace" -> "b"
                              [] c = "formfeed" -> "f" [] c = "return" -> "r" [] OTHER -> c
      BY <1>1 DEF EscapeLetter
    <3> QED BY <3>1
  <2>2. EscapeLetter[c] \in Chars /\ "\\" \in Chars
    BY <2>1, InChars DEF Own
  <2>3. Escape(c) = <<"\\", EscapeLetter[c]>> /\ Extra(c) = 1
    BY <1>1 DEF Escape, Extra
  <2> QED BY <2>2, <2>3
<1>2. CASE c \notin Letters /\ c = "control"
  <2>1. Escape(c) = <<"\\", "u", "0", "0", "0", "1">> /\ Extra(c) = 5
    BY <1>2 DEF Escape, Extra
  <2>2. "\\" \in Chars /\ "u" \in Chars /\ "0" \in Chars /\ "1" \in Chars
    BY InChars DEF Own
  <2> QED BY <2>1, <2>2
<1>3. CASE c \notin Letters /\ c # "control"
  BY <1>3 DEF Escape, Extra
<1> QED BY <1>1, <1>2, <1>3

\* EscapeCharacters adds up, over the characters before n.
LEMMA CountUpto ==
  ASSUME NEW s \in Seq(Chars)
  PROVE  \E f : /\ EscapeCharacters(s) = f[Len(s)]
                /\ f[0] = 0
                /\ \A n \in 1..Len(s) : f[n] = f[n - 1] + Extra(s[n])
<1> DEFINE extra(n) == IF s[n] \in Letters THEN 1 ELSE IF s[n] = "control" THEN 5 ELSE 0
           H == [n \in Nat |-> [x \in Nat |-> x + extra(n)]]
           W(f) == f = [n \in 0..Len(s) |-> IF n = 0 THEN 0 ELSE f[n - 1] + extra(n)]
<1>1. H \in [Nat -> [Nat -> Nat]]
  OBVIOUS
<1>2. \E f : W(f)
  <2>1. PICK f \in [0..Len(s) -> Nat] : f[0] = 0 /\ \A n \in 1..Len(s) : f[n] = H[n][f[n - 1]]
    <3>1. Steps(Len(s), Nat, 0, H)
      BY <1>1 DEF Steps
    <3> HIDE DEF H
    <3>2. \E f : Reaches(Len(s), Nat, 0, H, f)
      BY <3>1, Recursive
    <3> QED BY <3>2 DEF Reaches
  <2> HIDE DEF extra
  <2>2. ASSUME NEW n \in 0..Len(s) PROVE f[n] = IF n = 0 THEN 0 ELSE f[n - 1] + extra(n)
    <3>1. CASE n = 0
      BY <2>1, <3>1
    <3>2. CASE n # 0
      <4>1. n - 1 \in 0..Len(s) /\ n \in Nat /\ n \in 1..Len(s)
        BY <3>2
      <4>2. f[n - 1] \in Nat
        BY <4>1
      <4> QED BY <2>1, <3>2, <4>1, <4>2
    <3> QED BY <3>1, <3>2
  <2>3. f = [n \in 0..Len(s) |-> f[n]]
    OBVIOUS
  <2>4. W(f)
    BY <2>2, <2>3
  <2> QED BY <2>4
<1> DEFINE f == CHOOSE g : W(g)
<1>3. W(f)
  BY <1>2
<1>4. EscapeCharacters(s) = f[Len(s)]
  BY DEF EscapeCharacters
<1> HIDE DEF f
<1>5. f[0] = 0
  BY <1>3
<1>6. ASSUME NEW n \in 1..Len(s) PROVE f[n] = f[n - 1] + Extra(s[n])
  BY <1>3 DEF Extra
<1> HIDE DEF W
<1> QED BY <1>4, <1>5, <1>6

\* Escaped is the concatenation, character by character, of the escapes.
LEMMA EscapedUpto ==
  ASSUME NEW s \in Seq(Chars)
  PROVE  \E f : /\ Escaped(s) = f[Len(s)]
                /\ f[0] = <<>>
                /\ \A n \in 1..Len(s) : f[n] = f[n - 1] \o Escape(s[n])
<1> DEFINE V == Seq(Chars)
           letters(n) == Escape(s[n])
           H == [n \in Nat |-> [x \in V |-> IF n \in 1..Len(s) THEN x \o letters(n) ELSE x]]
           W(f) == f = [n \in 0..Len(s) |-> IF n = 0 THEN <<>> ELSE f[n - 1] \o letters(n)]
<1>1. H \in [Nat -> [V -> V]]
  <2>1. \A n \in 1..Len(s) : letters(n) \in V
    BY EscapeLength
  <2> HIDE DEF letters
  <2> QED BY <2>1, ConcatProperties
<1>2. \E f : W(f)
  <2>1. PICK f \in [0..Len(s) -> V] : f[0] = <<>> /\ \A n \in 1..Len(s) : f[n] = H[n][f[n - 1]]
    <3>1. Steps(Len(s), V, <<>>, H)
      BY <1>1 DEF Steps
    <3> HIDE DEF H, V
    <3>2. \E f : Reaches(Len(s), V, <<>>, H, f)
      BY <3>1, Recursive
    <3> QED BY <3>2 DEF Reaches
  <2> HIDE DEF letters, V
  <2>2. ASSUME NEW n \in 0..Len(s) PROVE f[n] = IF n = 0 THEN <<>> ELSE f[n - 1] \o letters(n)
    <3>1. CASE n = 0
      BY <2>1, <3>1
    <3>2. CASE n # 0
      <4>1. n - 1 \in 0..Len(s) /\ n \in Nat /\ n \in 1..Len(s)
        BY <3>2
      <4>2. f[n - 1] \in V
        BY <4>1
      <4> QED BY <2>1, <3>2, <4>1, <4>2
    <3> QED BY <3>1, <3>2
  <2>3. f = [n \in 0..Len(s) |-> f[n]]
    OBVIOUS
  <2>4. W(f)
    BY <2>2, <2>3
  <2> QED BY <2>4
<1> DEFINE f == CHOOSE g : W(g)
<1>3. W(f)
  BY <1>2
<1>4. Escaped(s) = f[Len(s)]
  BY DEF Escaped
<1> HIDE DEF f
<1>5. f[0] = <<>>
  BY <1>3
<1>6. ASSUME NEW n \in 1..Len(s) PROVE f[n] = f[n - 1] \o Escape(s[n])
  BY <1>3
<1> HIDE DEF W
<1> QED BY <1>4, <1>5, <1>6

\* The text of a string, with its quotes.
LEMMA QuotedLength ==
  ASSUME NEW s \in Seq(Chars)
  PROVE  /\ EscapeCharacters(s) \in Nat /\ Quoted(s) \in Seq(Chars)
         /\ Len(Quoted(s)) = Len(s) + EscapeCharacters(s) + 2
<1>1. PICK f : /\ EscapeCharacters(s) = f[Len(s)] /\ f[0] = 0
               /\ \A n \in 1..Len(s) : f[n] = f[n - 1] + Extra(s[n])
  BY CountUpto
<1>2. PICK g : /\ Escaped(s) = g[Len(s)] /\ g[0] = <<>>
               /\ \A n \in 1..Len(s) : g[n] = g[n - 1] \o Escape(s[n])
  BY EscapedUpto
<1> DEFINE T == {n \in Nat : n <= Len(s) =>
                   f[n] \in Nat /\ g[n] \in Seq(Chars) /\ Len(g[n]) = n + f[n]}
<1>0. ASSUME NEW S
      PROVE  /\ <<>> \in Seq(S) /\ Len(<<>>) = 0
             /\ \A t \in Seq(S) : Len(t) \in Nat /\ \A i \in 1..Len(t) : t[i] \in S
  OBVIOUS
<1>3. 0 \in T
  <2>1. <<>> \in Seq(Chars) /\ Len(<<>>) = 0
    BY Zenon, <1>0
  <2>2. f[0] \in Nat /\ g[0] \in Seq(Chars) /\ Len(g[0]) = 0 + f[0]
    BY <1>1, <1>2, <2>1
  <2> QED BY <2>2
<1>4. ASSUME NEW n \in T PROVE n + 1 \in T
  <2>0. n \in Nat /\ (n <= Len(s) => f[n] \in Nat /\ g[n] \in Seq(Chars) /\ Len(g[n]) = n + f[n])
    OBVIOUS
  <2> HIDE DEF T
  <2> SUFFICES ASSUME n + 1 <= Len(s)
               PROVE  /\ f[n + 1] \in Nat /\ g[n + 1] \in Seq(Chars)
                      /\ Len(g[n + 1]) = n + 1 + f[n + 1]
    BY <2>0 DEF T
  <2>1. n \in Nat /\ n + 1 \in 1..Len(s) /\ (n + 1) - 1 = n
    BY <2>0
  <2>2. f[n] \in Nat /\ g[n] \in Seq(Chars) /\ Len(g[n]) = n + f[n]
    BY <2>0, <2>1
  <2>6. s[n + 1] \in Chars
    BY Zenon, <1>0, <2>1
  <2>3. f[n + 1] = f[n] + Extra(s[n + 1]) /\ g[n + 1] = g[n] \o Escape(s[n + 1])
    BY <1>1, <1>2, <2>1
  <2>4. /\ Escape(s[n + 1]) \in Seq(Chars) /\ Len(Escape(s[n + 1])) = 1 + Extra(s[n + 1])
        /\ Extra(s[n + 1]) \in Nat
    BY <2>6, EscapeLength
  <2>5. g[n + 1] \in Seq(Chars) /\ Len(g[n + 1]) = Len(g[n]) + Len(Escape(s[n + 1]))
    <3>1. /\ g[n] \o Escape(s[n + 1]) \in Seq(Chars)
          /\ Len(g[n] \o Escape(s[n + 1])) = Len(g[n]) + Len(Escape(s[n + 1]))
      BY Zenon, <2>2, <2>4, ConcatProperties
    <3> QED BY Zenon, <2>3, <3>1
  <2>7. Len(g[n + 1]) = (n + f[n]) + (1 + Extra(s[n + 1]))
    BY Zenon, <2>2, <2>4, <2>5
  <2>8. Len(g[n + 1]) = n + 1 + f[n + 1] /\ f[n + 1] \in Nat
    <3> DEFINE l == Len(g[n + 1])
               k == f[n + 1]
               y == f[n]
               z == Extra(s[n + 1])
    <3>1. n \in Nat /\ y \in Nat /\ z \in Nat /\ l = (n + y) + (1 + z) /\ k = y + z
      BY Zenon, <2>0, <2>2, <2>3, <2>4, <2>7
    <3> HIDE DEF l, k, y, z
    <3>2. l = n + 1 + k /\ k \in Nat
      BY <3>1
    <3> QED BY Zenon, <3>2 DEF l, k
  <2> QED BY Zenon, <2>5, <2>8
<1> HIDE DEF T
<1>5. T = Nat
  <2>1. T \in SUBSET Nat
    BY DEF T
  <2> QED BY <1>3, <1>4, <2>1, AllNumbers
<1>6. /\ EscapeCharacters(s) \in Nat /\ Escaped(s) \in Seq(Chars)
      /\ Len(Escaped(s)) = Len(s) + EscapeCharacters(s)
  BY <1>1, <1>2, <1>5 DEF T
<1>7. <<"\"">> \in Seq(Chars) /\ Len(<<"\"">>) = 1
  <2>1. "\"" \in Chars
    BY InChars DEF Own
  <2>2. ASSUME NEW S, NEW c \in S PROVE <<c>> \in Seq(S) /\ Len(<<c>>) = 1
    OBVIOUS
  <2> QED BY Zenon, <2>1, <2>2
<1>8. <<"\"">> \o Escaped(s) \in Seq(Chars) /\ Len(<<"\"">> \o Escaped(s)) = 1 + Len(Escaped(s))
  BY <1>6, <1>7, ConcatProperties
<1>9. Quoted(s) \in Seq(Chars) /\ Len(Quoted(s)) = 1 + Len(Escaped(s)) + 1
  <2>1. /\ (<<"\"">> \o Escaped(s)) \o <<"\"">> \in Seq(Chars)
        /\ Len((<<"\"">> \o Escaped(s)) \o <<"\"">>)
             = Len(<<"\"">> \o Escaped(s)) + Len(<<"\"">>)
    BY Zenon, <1>7, <1>8, ConcatProperties
  <2> QED BY Zenon, <1>7, <1>8, <2>1 DEF Quoted
<1> DEFINE a == Len(s)
           b == Len(Escaped(s))
           c == Len(Quoted(s))
<1>10. a \in Nat
  BY Zenon, <1>0
<1> HIDE DEF a, b, c
<1>11. b = a + EscapeCharacters(s) /\ c = 1 + b + 1
  BY <1>6, <1>9 DEF a, b, c
<1>12. c = a + EscapeCharacters(s) + 2
  BY <1>6, <1>10, <1>11
<1> QED BY Zenon, <1>6, <1>9, <1>12 DEF a, c

-----------------------------------------------------------------------------
(* The buffer.                                                                 *)

\* The printbuffers.
Buffers ==
  [mem : Seq(Chars), isNULL : BOOLEAN, length : Nat, offset : Nat, depth : Nat,
   noalloc : BOOLEAN, format : BOOLEAN, realloc : BOOLEAN, failAt : Nat,
   allocations : Nat, blocks : {0, 1}, ok : BOOLEAN,
   fault : {"none", "read", "write", "wild"}]

\* No memory may be there at all: the caller's buffer and prebuffer can be empty.
\* The caller's buffer is the one that must not grow.
Unfilled(q, c) == q.noalloc \/ (c.name = "cJSON_PrintBuffered" /\ c.size = 0)
Caller(q, c) == q.noalloc <=> c.name = "cJSON_PrintPreallocated"

\* A buffer that can be written: it has memory, which is as long as `length`
\* says unless print() has left that 0, and the offset is inside.
Good(q, c) ==
  /\ q \in Buffers /\ q.ok /\ ~q.isNULL /\ q.fault = "none"
  /\ q.length = Len(q.mem) \/ q.length = 0
  /\ q.offset < q.length \/ q.offset = 0
  /\ Len(q.mem) = 0 => Unfilled(q, c)
  /\ q.blocks = IF q.noalloc THEN 0 ELSE 1
  /\ Caller(q, c)

\* A buffer of which a print function has said that it failed: nothing was
\* written outside, and what went wrong otherwise is what the properties except.
Lost(q, c) ==
  /\ q \in Buffers /\ ~q.ok /\ q.fault # "write"
  /\ q.fault = "wild" => q.realloc /\ q.failAt = q.allocations /\ q.offset > 0
  /\ q.fault = "read" => ~q.realloc /\ c.name = "cJSON_PrintBuffered" /\ c.size = 0
  /\ q.fault = "none" =>
       \/ q.isNULL /\ (q.blocks = 0 \/ (q.realloc /\ q.failAt = q.allocations))
       \/ ~q.isNULL /\ q.blocks = IF q.noalloc THEN 0 ELSE 1
  /\ Caller(q, c)

\* Resize gives a sequence of the size asked for, with what there was kept.
LEMMA ResizeLength ==
  ASSUME NEW S, "unset" \in S, NEW m \in Seq(S), NEW n \in Nat
  PROVE  /\ Resize(m, n) \in Seq(S) /\ Len(Resize(m, n)) = n
         /\ \A i \in 1..n : i <= Len(m) => Resize(m, n)[i] = m[i]
BY DEF Resize

\* The parts of a printbuffer that no allocation changes.
Kept(q, r) ==
  /\ r.offset = q.offset /\ r.depth = q.depth /\ r.format = q.format
  /\ r.noalloc = q.noalloc /\ r.realloc = q.realloc /\ r.failAt = q.failAt

\* What Fail leaves as it was.
LEMMA OfFail ==
  ASSUME NEW q \in Buffers, NEW r, r = Fail(q)
  PROVE  /\ r \in Buffers /\ Kept(q, r) /\ ~r.ok /\ r.fault = q.fault /\ r.blocks = q.blocks
         /\ r.isNULL = q.isNULL /\ r.allocations = q.allocations
BY DEF Buffers, Kept, Fail

\* What Allocated leaves as it was.
LEMMA OfAllocated ==
  ASSUME NEW q \in Buffers, NEW r, r = Allocated(q)
  PROVE  /\ r \in Buffers /\ Kept(q, r) /\ r.ok = q.ok /\ r.fault = q.fault /\ r.blocks = q.blocks
         /\ r.isNULL = q.isNULL /\ r.mem = q.mem /\ r.length = q.length
         /\ r.allocations = q.allocations + 1
<1> DEFINE a == q.allocations + 1
<1>1. a \in Nat
  BY DEF Buffers
<1>2. r = [q EXCEPT !.allocations = a]
  BY DEF Allocated, Buffers
<1> HIDE DEF a
<1>3. /\ r \in Buffers /\ Kept(q, r) /\ r.ok = q.ok /\ r.fault = q.fault /\ r.blocks = q.blocks
      /\ r.isNULL = q.isNULL /\ r.mem = q.mem /\ r.length = q.length /\ r.allocations = a
  BY <1>1, <1>2 DEF Buffers, Kept
<1> QED BY <1>3 DEF a

\* What Crash leaves as it was.
Faults == {"none", "read", "write", "wild"}

LEMMA OfCrash ==
  ASSUME NEW q \in Buffers, NEW how \in Faults, NEW r, r = Crash(q, how)
  PROVE  /\ r \in Buffers /\ Kept(q, r) /\ ~r.ok /\ r.fault = how /\ r.blocks = q.blocks
         /\ r.isNULL = q.isNULL /\ r.allocations = q.allocations
BY DEF Buffers, Kept, Crash, Faults

\* Memory of another size, and what it leaves as it was.
Resized(q, m, n) == [q EXCEPT !.mem = m, !.length = n]

SameBut(q, m, n, r) ==
  /\ r \in Buffers /\ Kept(q, r) /\ r.ok = q.ok /\ r.fault = q.fault /\ r.blocks = q.blocks
  /\ r.isNULL = q.isNULL /\ r.allocations = q.allocations
  /\ r.mem = m /\ r.length = n

LEMMA OfResized ==
  ASSUME NEW q \in Buffers, NEW m \in Seq(Chars), NEW n \in Nat,
         NEW r, r = Resized(q, m, n)
  PROVE  SameBut(q, m, n, r)
BY DEF Buffers, Kept, Resized, SameBut

\* What is left of a buffer whose memory is gone.
LEMMA OfLost ==
  ASSUME NEW q \in Buffers, NEW n \in Nat, NEW b \in {0, 1},
         NEW r, r = [q EXCEPT !.isNULL = TRUE, !.length = n, !.blocks = b]
  PROVE  /\ r \in Buffers /\ Kept(q, r) /\ r.ok = q.ok /\ r.fault = q.fault /\ r.blocks = b
         /\ r.isNULL /\ r.allocations = q.allocations
BY DEF Buffers, Kept

\* A print function that returns false leaves a Lost buffer.
LEMMA FailLoses ==
  ASSUME NEW q, NEW c, Good(q, c)
  PROVE  Lost(Fail(q), c)
<1> DEFINE r == Fail(q)
<1>1. q \in Buffers
  BY DEF Good
<1>2. /\ r \in Buffers /\ Kept(q, r) /\ ~r.ok /\ r.fault = q.fault /\ r.blocks = q.blocks
      /\ r.isNULL = q.isNULL
  BY <1>1, OfFail
<1> HIDE DEF r
<1>3. Lost(r, c)
  BY <1>2 DEF Good, Lost, Kept, Caller
<1> QED BY <1>3 DEF r

\* realloc gives the room asked for, or the buffer is Lost: the old block, or the
\* write through NULL + offset, are the exceptions of the properties.
LEMMA ReallocateKeeps ==
  ASSUME NEW q, NEW c, NEW n \in Nat, Good(q, c), ~q.noalloc, q.realloc,
         q.offset < n, NEW r, r = Reallocate(q, n)
  PROVE  (r.ok /\ Good(r, c) /\ r.length = n /\ Kept(q, r)) \/ Lost(r, c)
<1> DEFINE a == Allocated(q)
           m == Resize(a.mem, n)
<1>0. "unset" \in Chars
  BY InChars DEF Own
<1>1. q \in Buffers /\ q.mem \in Seq(Chars)
  BY DEF Good, Buffers
<1>2. /\ a \in Buffers /\ Kept(q, a) /\ a.ok = q.ok /\ a.fault = q.fault /\ a.blocks = q.blocks
      /\ a.isNULL = q.isNULL /\ a.mem = q.mem /\ a.length = q.length
      /\ a.allocations = q.allocations + 1
  BY <1>1, OfAllocated
<1>3. m \in Seq(Chars) /\ Len(m) = n
  BY Zenon, <1>0, <1>1, <1>2, ResizeLength
<1>4. CASE ~AllocationFails(q)
  <2>2. r = Resized(a, m, n)
    BY <1>4 DEF Reallocate, Resized
  <2> HIDE DEF a, m
  <2>3. /\ r \in Buffers /\ Kept(a, r) /\ r.ok = a.ok /\ r.fault = a.fault /\ r.blocks = a.blocks
        /\ r.isNULL = a.isNULL /\ r.mem = m /\ r.length = n
    <3>1. SameBut(a, m, n, r)
      BY Zenon, <1>2, <1>3, <2>2, OfResized
    <3> QED BY <3>1 DEF SameBut
  <2>4. Good(r, c)
    <3>1. r.ok /\ ~r.isNULL /\ r.fault = "none" /\ r.blocks = IF r.noalloc THEN 0 ELSE 1
      BY <1>2, <2>3 DEF Good, Kept
    <3>2. r.length = Len(r.mem) /\ r.offset < r.length /\ n # 0
      BY <1>1, <1>2, <1>3, <2>3 DEF Kept, Buffers
    <3> QED BY <1>2, <2>3, <3>1, <3>2 DEF Good, Kept, Caller
  <2> QED BY <1>2, <2>3, <2>4 DEF Good, Kept
<1>5. CASE AllocationFails(q)
  <2> DEFINE l == [a EXCEPT !.isNULL = TRUE, !.length = n]
  <2>1. r = IF q.offset = 0 THEN Fail(l) ELSE Crash(l, "wild")
    BY <1>5 DEF Reallocate
  <2> HIDE DEF a
  <2>2. l = [a EXCEPT !.isNULL = TRUE, !.length = n, !.blocks = a.blocks]
    BY <1>2 DEF Buffers
  <2>3. a.blocks \in {0, 1}
    BY <1>2 DEF Buffers
  <2> HIDE DEF l
  <2>4. /\ l \in Buffers /\ Kept(a, l) /\ l.ok = a.ok /\ l.fault = a.fault
        /\ l.isNULL /\ l.allocations = a.allocations
    BY Zenon, <1>2, <2>2, <2>3, OfLost
  <2>6. l.failAt = l.allocations
    BY <1>2, <1>5, <2>4 DEF Kept, AllocationFails
  <2>7. CASE q.offset = 0
    <3>1. /\ r \in Buffers /\ Kept(l, r) /\ ~r.ok /\ r.fault = l.fault /\ r.isNULL = l.isNULL
          /\ r.allocations = l.allocations
      BY Zenon, <2>1, <2>4, <2>7, OfFail
    <3> QED BY <1>2, <2>4, <2>6, <3>1 DEF Lost, Good, Kept, Caller
  <2>8. CASE q.offset # 0
    <3>1. /\ r \in Buffers /\ Kept(l, r) /\ ~r.ok /\ r.fault = "wild" /\ r.isNULL = l.isNULL
          /\ r.allocations = l.allocations
      <4>1. r = Crash(l, "wild")
        BY <2>1, <2>8
      <4>2. "wild" \in Faults
        BY DEF Faults
      <4> QED BY Zenon, <2>4, <4>1, <4>2, OfCrash
    <3>2. q.offset > 0
      BY <1>1, <2>8 DEF Buffers
    <3> QED BY <1>2, <2>4, <2>6, <3>1, <3>2 DEF Lost, Good, Kept, Caller
  <2> QED BY <2>7, <2>8
<1> QED BY <1>4, <1>5

\* Without realloc too; only a prebuffer of no bytes is read outside.
LEMMA CopyOverKeeps ==
  ASSUME NEW q, NEW c, NEW n \in Nat, Good(q, c), ~q.noalloc, ~q.realloc,
         q.offset < n, NEW r, r = CopyOver(q, n)
  PROVE  (r.ok /\ Good(r, c) /\ r.length = n /\ Kept(q, r)) \/ Lost(r, c)
<1> DEFINE a == Allocated(q)
<1>1. q \in Buffers /\ q.mem \in Seq(Chars) /\ q.offset \in Nat /\ q.length \in Nat
  BY DEF Good, Buffers
<1>2. /\ a \in Buffers /\ Kept(q, a) /\ a.ok = q.ok /\ a.fault = q.fault /\ a.blocks = q.blocks
      /\ a.isNULL = q.isNULL /\ a.mem = q.mem /\ a.length = q.length
      /\ a.allocations = q.allocations + 1
  BY <1>1, OfAllocated
<1>3. CASE AllocationFails(q)
  <2> DEFINE b == a.blocks - 1
             l == [a EXCEPT !.isNULL = TRUE, !.length = 0, !.blocks = b]
  <2>1. r = Fail(l)
    BY <1>3 DEF CopyOver
  <2> HIDE DEF a
  <2>2. b = 0
    BY <1>2 DEF Good
  <2> HIDE DEF b
  <2>3. /\ l \in Buffers /\ Kept(a, l) /\ l.ok = a.ok /\ l.fault = a.fault
        /\ l.isNULL /\ l.blocks = 0
    BY <1>2, <2>2 DEF Buffers, Kept
  <2> HIDE DEF l
  <2>4. /\ r \in Buffers /\ Kept(l, r) /\ ~r.ok /\ r.fault = l.fault /\ r.isNULL = l.isNULL
        /\ r.blocks = l.blocks
    BY Zenon, <2>1, <2>3, OfFail
  <2> QED BY <1>2, <2>3, <2>4 DEF Lost, Good, Kept, Caller
<1>4. CASE ~AllocationFails(q) /\ q.offset + 1 > Len(q.mem)
  <2>1. r = Crash(q, "read")
    BY <1>4 DEF CopyOver
  <2>2. r \in Buffers /\ Kept(q, r) /\ ~r.ok /\ r.fault = "read"
    <3>1. "read" \in Faults
      BY DEF Faults
    <3> QED BY Zenon, <1>1, <2>1, <3>1, OfCrash
  <2>3. Len(q.mem) = 0
    <3>1. Len(q.mem) \in Nat
      BY <1>1
    <3> QED BY <1>1, <1>4, <3>1 DEF Good
  <2>4. c.name = "cJSON_PrintBuffered" /\ c.size = 0
    BY <2>3 DEF Good, Unfilled
  <2> QED BY <2>2, <2>4 DEF Lost, Good, Kept, Caller
<1>5. CASE ~AllocationFails(q) /\ ~(q.offset + 1 > Len(q.mem))
  <2> DEFINE t == SubSeq(a.mem, 1, q.offset + 1)
             m == Resize(t, n)
  <2>1. r = Resized(a, m, n)
    BY <1>5 DEF CopyOver, Resized
  <2> HIDE DEF a
  <2>2. t \in Seq(Chars)
    <3>1. ASSUME NEW S, NEW s \in Seq(S), NEW k \in Nat, ~(k + 1 > Len(s))
          PROVE  SubSeq(s, 1, k + 1) \in Seq(S)
      BY <3>1, SubSeqProperties
    <3> QED BY Zenon, <1>1, <1>2, <1>5, <3>1
  <2> HIDE DEF t
  <2>3. m \in Seq(Chars) /\ Len(m) = n
    <3>1. "unset" \in Chars
      BY InChars DEF Own
    <3> QED BY Zenon, <2>2, <3>1, ResizeLength
  <2> HIDE DEF m
  <2>4. /\ r \in Buffers /\ Kept(a, r) /\ r.ok = a.ok /\ r.fault = a.fault /\ r.blocks = a.blocks
        /\ r.isNULL = a.isNULL /\ r.mem = m /\ r.length = n
    <3>1. SameBut(a, m, n, r)
      BY Zenon, <1>2, <2>1, <2>3, OfResized
    <3> QED BY <3>1 DEF SameBut
  <2>5. Good(r, c)
    <3>1. r.ok /\ ~r.isNULL /\ r.fault = "none" /\ r.blocks = IF r.noalloc THEN 0 ELSE 1
      BY <1>2, <2>4 DEF Good, Kept
    <3>2. r.length = Len(r.mem) /\ r.offset < r.length /\ n # 0
      BY <1>1, <1>2, <2>3, <2>4 DEF Kept, Buffers
    <3> QED BY <1>2, <2>4, <3>1, <3>2 DEF Good, Kept, Caller
  <2> QED BY <1>2, <2>4, <2>5 DEF Good, Kept
<1> QED BY <1>3, <1>4, <1>5

\* The heart of the matter: when ensure does not fail, there is room behind the
\* offset for what is needed and for a terminator, for every size of the buffer,
\* limit and allocation that fails.
LEMMA EnsureRoom ==
  ASSUME NEW q, NEW c, NEW needed \in Nat, Good(q, c),
         NEW r, r = ensure(q, needed)
  PROVE  \/ /\ Good(r, c) /\ Kept(q, r) /\ r.length = Len(r.mem)
            /\ q.offset + needed + 1 <= Len(r.mem)
         \/ Lost(r, c)
<1> DEFINE total == needed + q.offset + 1
           n == IF total > LLONG_MAX \div 2 THEN LLONG_MAX ELSE 2 * total
<1>1. q \in Buffers /\ q.offset \in Nat /\ q.length \in Nat /\ total \in Nat
  BY DEF Good, Buffers
<1>2. CASE r = Fail(q)
  BY <1>2, FailLoses
<1>3. CASE r = q /\ total <= q.length
  BY <1>1, <1>3 DEF Good, Kept
<1>4. CASE ~q.noalloc /\ total <= LLONG_MAX /\ r = Grow(q, n)
  <2>1. n \in Nat /\ q.offset < n /\ total <= n
    BY <1>1, <1>4, PrintAssumption
  <2> HIDE DEF n, total
  <2>2. (r.ok /\ Good(r, c) /\ r.length = n /\ Kept(q, r)) \/ Lost(r, c)
    BY Zenon, <1>4, <2>1, ReallocateKeeps, CopyOverKeeps DEF Grow
  <2>3. ASSUME Good(r, c), r.length = n PROVE r.length = Len(r.mem)
    BY <1>1, <2>1, <2>3 DEF Good
  <2> QED BY <1>1, <2>1, <2>2, <2>3 DEF total
<1>5. r = Fail(q) \/ (r = q /\ total <= q.length)
        \/ (~q.noalloc /\ total <= LLONG_MAX /\ r = Grow(q, n))
  BY <1>1, PrintAssumption DEF ensure
<1> QED BY <1>2, <1>3, <1>4, <1>5

-----------------------------------------------------------------------------
(* What is written into it.                                                    *)

\* Between two calls of ensure a buffer is one or the other.
Fine(q, c) == Good(q, c) \/ Lost(q, c)

\* A terminator stands at or behind the offset, so that update_offset finds one.
Written(q) ==
  q.length = Len(q.mem) /\ \E i \in (q.offset + 1)..Len(q.mem) : q.mem[i] = NUL

\* What only Deepen and Raise change, or nothing does.
Level(q, r) == r.depth = q.depth /\ r.format = q.format

\* The sequence s with t written behind the first o characters.
Over(s, t, o) == [i \in DOMAIN s |-> IF i > o /\ i <= o + Len(t) THEN t[i - o] ELSE s[i]]

\* Writing inside a sequence keeps its length and puts t there.
LEMMA Overwritten ==
  ASSUME NEW S, NEW s \in Seq(S), NEW t \in Seq(S), NEW o \in Nat, o + Len(t) <= Len(s)
  PROVE  /\ Over(s, t, o) \in Seq(S) /\ Len(Over(s, t, o)) = Len(s)
         /\ \A i \in 1..Len(t) : Over(s, t, o)[o + i] = t[i]
<1> DEFINE m == Over(s, t, o)
<1>1. Len(s) \in Nat /\ Len(t) \in Nat /\ DOMAIN s = 1..Len(s)
  OBVIOUS
<1>2. ASSUME NEW i \in 1..Len(s) PROVE (IF i > o /\ i <= o + Len(t) THEN t[i - o] ELSE s[i]) \in S
  BY <1>1
<1>3. m \in [1..Len(s) -> S]
  BY <1>1, <1>2 DEF Over
<1>4. m \in Seq(S) /\ Len(m) = Len(s)
  BY <1>1, <1>3
<1>5. ASSUME NEW i \in 1..Len(t) PROVE m[o + i] = t[i]
  <2>1. o + i \in 1..Len(s) /\ o + i > o /\ o + i <= o + Len(t) /\ (o + i) - o = i
    BY <1>1
  <2> QED BY <1>1, <2>1 DEF Over
<1> QED BY <1>4, <1>5

\* What fits is written inside the memory, and the offset stays inside.
LEMMA PutKeeps ==
  ASSUME NEW q, NEW c, Good(q, c), q.length = Len(q.mem), NEW t \in Seq(Chars), NEW n \in Nat,
         q.offset + Len(t) <= Len(q.mem), q.offset + n < Len(q.mem), NEW r, r = Put(q, t, n)
  PROVE  /\ Good(r, c) /\ Level(q, r)
         /\ n < Len(t) /\ t[Len(t)] = NUL => Written(r)
<1> DEFINE m == Over(q.mem, t, q.offset)
           o == q.offset + n
<1>1. q \in Buffers /\ q.mem \in Seq(Chars) /\ q.offset \in Nat /\ q.length \in Nat /\ o \in Nat
  BY DEF Good, Buffers
<1>2. r = [q EXCEPT !.mem = m, !.offset = o]
  BY <1>1 DEF Put, Good, Buffers, Over
<1>3. m \in Seq(Chars) /\ Len(m) = Len(q.mem) /\ \A i \in 1..Len(t) : m[q.offset + i] = t[i]
  <2>1. /\ Over(q.mem, t, q.offset) \in Seq(Chars)
        /\ Len(Over(q.mem, t, q.offset)) = Len(q.mem)
        /\ \A i \in 1..Len(t) : Over(q.mem, t, q.offset)[q.offset + i] = t[i]
    <3>1. q.mem \in Seq(Chars) /\ q.offset \in Nat /\ q.offset + Len(t) <= Len(q.mem) /\ t \in Seq(Chars)
      BY <1>1
    <3> HIDE <1>1
    <3> HIDE DEF m, o
    <3> QED BY <3>1, Overwritten
  <2> QED BY <2>1
<1> HIDE DEF m
<1>4. o < Len(m) /\ Len(t) \in Nat /\ Len(m) \in Nat
  <2>1. ASSUME NEW S, NEW s \in Seq(S) PROVE Len(s) \in Nat
    OBVIOUS
  <2>2. Len(t) \in Nat /\ Len(m) \in Nat
    BY Zenon, <1>3, <2>1
  <2> QED BY <1>3, <2>2
<1>5. n < Len(t) /\ t[Len(t)] = NUL => \E i \in (o + 1)..Len(m) : m[i] = NUL
  <2> SUFFICES ASSUME n < Len(t), t[Len(t)] = NUL PROVE \E i \in (o + 1)..Len(m) : m[i] = NUL
    OBVIOUS
  <2>1. q.offset + Len(t) \in (o + 1)..Len(m) /\ Len(t) \in 1..Len(t)
    BY <1>1, <1>3, <1>4
  <2>2. m[q.offset + Len(t)] = NUL
    BY Zenon, <1>3, <2>1
  <2> QED BY Zenon, <2>1, <2>2
<1> HIDE DEF o
<1>6. /\ r \in Buffers /\ r.mem = m /\ r.offset = o /\ r.ok = q.ok /\ r.isNULL = q.isNULL
      /\ r.fault = q.fault /\ r.length = q.length /\ r.blocks = q.blocks
      /\ r.noalloc = q.noalloc /\ Level(q, r)
  BY <1>1, <1>2, <1>3 DEF Buffers, Level
<1>7. Good(r, c)
  BY <1>1, <1>3, <1>4, <1>6 DEF Good, Caller
<1>8. n < Len(t) /\ t[Len(t)] = NUL => Written(r)
  BY <1>3, <1>5, <1>6 DEF Written
<1> QED BY <1>6, <1>7, <1>8

\* A print function that asks ensure for all that it writes, its terminator
\* beside, keeps the buffer Fine; with a terminator behind the new offset, Written.
LEMMA WriteKeeps ==
  ASSUME NEW q, NEW c, Fine(q, c),
         NEW needed \in Nat, NEW t \in Seq(Chars), NEW n \in Nat,
         n <= needed, Len(t) <= needed + 1, NEW r, r = Write(q, needed, t, n)
  PROVE  /\ Fine(r, c)
         /\ r.ok => /\ q.ok /\ Level(q, r)
                    /\ n < Len(t) /\ t[Len(t)] = NUL => Written(r)
<1>1. CASE Lost(q, c)
  BY <1>1 DEF Lost, Write, Fine
<1>2. CASE Good(q, c)
  <2> DEFINE e == ensure(q, needed)
  <2>1. q.ok /\ r = Put(e, t, n)
    BY <1>2 DEF Good, Write
  <2>2. \/ /\ Good(e, c) /\ Kept(q, e) /\ e.length = Len(e.mem)
           /\ q.offset + needed + 1 <= Len(e.mem)
        \/ Lost(e, c)
    BY Zenon, <1>2, EnsureRoom
  <2> HIDE DEF e
  <2>3. CASE Lost(e, c)
    BY <2>1, <2>3 DEF Put, Lost, Fine
  <2>4. CASE /\ Good(e, c) /\ Kept(q, e) /\ e.length = Len(e.mem)
             /\ q.offset + needed + 1 <= Len(e.mem)
    <3>1. /\ e.offset + Len(t) <= Len(e.mem) /\ e.offset + n < Len(e.mem)
      <4>1. ASSUME NEW S, NEW s \in Seq(S) PROVE Len(s) \in Nat
        OBVIOUS
      <4>2. Len(t) \in Nat /\ e.length \in Nat /\ e.offset \in Nat /\ e.offset = q.offset
        <5>1. Len(t) \in Nat
          BY Zenon, <4>1
        <5> QED BY <2>4, <5>1 DEF Good, Buffers, Kept
      <4> QED BY <2>4, <4>2
    <3>2. /\ Good(r, c) /\ Level(e, r)
          /\ n < Len(t) /\ t[Len(t)] = NUL => Written(r)
      BY Zenon, <2>1, <2>4, <3>1, PutKeeps
    <3>3. Level(q, r)
      BY <2>4, <3>2 DEF Level, Kept
    <3> QED BY <2>1, <3>2, <3>3 DEF Fine
  <2> QED BY <2>2, <2>3, <2>4
<1> QED BY <1>1, <1>2 DEF Fine

\* update_offset stops at a terminator inside the memory.
LEMMA OffsetKeeps ==
  ASSUME NEW q, NEW c, Fine(q, c), q.ok => Written(q), NEW r, r = update_offset(q)
  PROVE  /\ Fine(r, c)
         /\ r.ok => /\ q.ok /\ Level(q, r) /\ Written(r)
                    /\ r.offset < Len(r.mem) /\ r.mem[r.offset + 1] = NUL
<1>1. CASE Lost(q, c)
  BY <1>1 DEF Lost, update_offset, Fine
<1>2. CASE Good(q, c)
  <2> DEFINE T == Terminators(q)
             o == Min(T) - 1
  <2>1. q \in Buffers /\ q.mem \in Seq(Chars) /\ q.offset \in Nat /\ q.length \in Nat /\ Written(q) /\ q.ok
    BY <1>2 DEF Good, Buffers
  <2>2. Len(q.mem) \in Nat /\ DOMAIN q.mem = 1..Len(q.mem)
    <3>1. ASSUME NEW S, NEW s \in Seq(S) PROVE Len(s) \in Nat /\ DOMAIN s = 1..Len(s)
      OBVIOUS
    <3> QED BY Zenon, <2>1, <3>1
  <2>3. T \in SUBSET Nat /\ T # {}
    <3>1. PICK i \in (q.offset + 1)..Len(q.mem) : q.mem[i] = NUL
      BY <2>1 DEF Written
    <3>2. i \in DOMAIN q.mem /\ i > q.offset
      BY <2>1, <2>2
    <3>3. i \in T
      BY <3>1, <3>2 DEF Terminators
    <3> QED BY <2>2, <3>3 DEF Terminators
  <2>4. Min(T) \in T
    <3>1. PICK k \in T : \A i \in T : ~(i < k)
      BY <2>3, LeastElement
    <3> HIDE DEF T
    <3>2. \A i \in T : k <= i
      BY <2>3, <3>1
    <3> QED BY <3>2 DEF Min
  <2>5. r = [q EXCEPT !.offset = o]
    BY <2>1, <2>3 DEF update_offset
  <2>6. o \in Nat /\ q.offset <= o /\ o < Len(q.mem) /\ q.mem[o + 1] = NUL
    <3>1. Min(T) \in 1..Len(q.mem) /\ Min(T) > q.offset /\ q.mem[Min(T)] = NUL
      BY <2>2, <2>4 DEF Terminators
    <3> HIDE DEF T
    <3>2. o + 1 = Min(T)
      BY <3>1
    <3> QED BY <2>1, <2>2, <3>1, <3>2
  <2> HIDE DEF o, T
  <2>7. /\ r \in Buffers /\ r.mem = q.mem /\ r.offset = o /\ r.ok = q.ok /\ r.isNULL = q.isNULL
        /\ r.fault = q.fault /\ r.length = q.length /\ r.blocks = q.blocks
        /\ r.noalloc = q.noalloc /\ Level(q, r)
    BY <2>1, <2>5, <2>6 DEF Buffers, Level
  <2>8. Good(r, c)
    BY <1>2, <2>1, <2>2, <2>6, <2>7 DEF Good, Caller, Unfilled, Written
  <2>9. Written(r)
    <3>1. o + 1 \in (o + 1)..Len(q.mem)
      BY <2>2, <2>6
    <3> QED BY <2>1, <2>6, <2>7, <3>1 DEF Written
  <2> QED BY <2>1, <2>6, <2>7, <2>8, <2>9 DEF Fine
<1> QED BY <1>1, <1>2 DEF Fine

-----------------------------------------------------------------------------
(* What each print function does to the buffer.                                *)

\* A text with its terminator is longer by one, and ends with it.
LEMMA Ended ==
  ASSUME NEW S, NUL \in S, NEW t \in Seq(S)
  PROVE  /\ t \o <<NUL>> \in Seq(S) /\ Len(t \o <<NUL>>) = Len(t) + 1
         /\ (t \o <<NUL>>)[Len(t \o <<NUL>>)] = NUL
<1>1. <<NUL>> \in Seq(S) /\ Len(<<NUL>>) = 1 /\ <<NUL>>[1] = NUL /\ Len(t) \in Nat
  OBVIOUS
<1>2. /\ t \o <<NUL>> \in Seq(S) /\ Len(t \o <<NUL>>) = Len(t) + 1
      /\ \A i \in 1..Len(t) + 1 : (t \o <<NUL>>)[i] = IF i <= Len(t) THEN t[i] ELSE <<NUL>>[i - Len(t)]
  BY <1>1, ConcatProperties
<1>3. Len(t) + 1 \in 1..Len(t) + 1 /\ ~(Len(t) + 1 <= Len(t)) /\ (Len(t) + 1) - Len(t) = 1
  BY <1>1
<1> QED BY <1>1, <1>2, <1>3

\* The same for characters.
LEMMA EndedChars ==
  ASSUME NEW t \in Seq(Chars)
  PROVE  /\ t \o <<NUL>> \in Seq(Chars) /\ Len(t \o <<NUL>>) = Len(t) + 1 /\ Len(t) \in Nat
         /\ (t \o <<NUL>>)[Len(t \o <<NUL>>)] = NUL
<1>1. NUL \in Chars
  BY InChars DEF Own
<1>2. ASSUME NEW S, NEW s \in Seq(S) PROVE Len(s) \in Nat
  OBVIOUS
<1> QED BY Zenon, <1>1, <1>2, Ended

\* Text that ends with its terminator, which the offset is not moved behind.
LEMMA WriteEnded ==
  ASSUME NEW q, NEW c, Fine(q, c), NEW needed \in Nat, NEW t \in Seq(Chars),
         Len(t) <= needed, NEW n \in Nat, n <= Len(t), NEW r, r = Write(q, needed, t \o <<NUL>>, n)
  PROVE  Fine(r, c) /\ (r.ok => q.ok /\ Level(q, r) /\ Written(r))
<1> DEFINE u == t \o <<NUL>>
<1>1. u \in Seq(Chars) /\ Len(u) = Len(t) + 1 /\ u[Len(u)] = NUL /\ Len(t) \in Nat
  BY Zenon, EndedChars
<1> HIDE DEF u
<1>2. n <= needed /\ Len(u) <= needed + 1 /\ n < Len(u)
  BY <1>1
<1>3. r = Write(q, needed, u, n)
  BY DEF u
<1> QED BY Zenon, <1>1, <1>2, <1>3, WriteKeeps

\* print_string_ptr asks for three more than the string and its escapes: for the
\* two quotes and the terminator.
LEMMA StringKeeps ==
  ASSUME NEW q, NEW c, Fine(q, c), NEW s \in Seq(STRING),
         NEW r, r = print_string_ptr(q, s)
  PROVE  Fine(r, c) /\ (r.ok => q.ok /\ Level(q, r) /\ Written(r))
<1> DEFINE needed == Len(s) + EscapeCharacters(s) + 3
           t == Quoted(s)
<1>1. s \in Seq(Chars)
  BY Zenon, InChars
<1>2. EscapeCharacters(s) \in Nat /\ t \in Seq(Chars) /\ Len(t) = Len(s) + EscapeCharacters(s) + 2
  BY Zenon, <1>1, QuotedLength
<1>3. Len(s) \in Nat
  <2>1. ASSUME NEW S, NEW x \in Seq(S) PROVE Len(x) \in Nat
    OBVIOUS
  <2> QED BY Zenon, <1>1, <2>1
<1>4. r = Write(q, needed, t \o <<NUL>>, 0)
  BY DEF print_string_ptr
<1> HIDE DEF t
<1>5. needed \in Nat /\ Len(t) <= needed /\ 0 \in Nat /\ 0 <= Len(t)
  BY <1>2, <1>3
<1> HIDE DEF needed
<1> QED BY Zenon, <1>2, <1>4, <1>5, WriteEnded

\* A word is a sequence of characters, and so is what a number is printed as.
LEMMA LiteralChars ==
  ASSUME NEW type \in Words
  PROVE  Literal(type) \in Seq(Chars) /\ Len(Literal(type)) \in {4, 5}
<1>1. {"n", "u", "l", "t", "r", "e", "f", "a", "s"} \subseteq Chars
  BY InChars DEF Own
<1>2. ASSUME NEW S, {"n", "u", "l", "t", "r", "e", "f", "a", "s"} \subseteq S
      PROVE  Literal(type) \in Seq(S) /\ Len(Literal(type)) \in {4, 5}
  BY <1>2 DEF Literal, Words
<1> QED BY Zenon, <1>1, <1>2

LEMMA NumberChars ==
  ASSUME NEW digits \in Seq(STRING)
  PROVE  NumberText(digits) \in Seq(Chars)
<1>1. CASE digits \in NonFinite
  BY <1>1, LiteralChars DEF NumberText, Words
<1>2. CASE digits \notin NonFinite
  BY <1>2, InChars DEF NumberText
<1> QED BY <1>1, <1>2

\* print_number asks for what it prints, and ensure adds the terminator; a raw item
\* asks for one more.
AsRaw(q, s) == Write(q, Len(s) + 1, s \o <<NUL>>, 0)

LEMMA NumberKeeps ==
  ASSUME NEW q, NEW c, Fine(q, c), NEW s \in Seq(STRING),
         NEW r, r = print_number(q, s) \/ r = AsRaw(q, s)
  PROVE  Fine(r, c) /\ (r.ok => q.ok /\ Level(q, r) /\ Written(r))
<1>1. s \in Seq(Chars)
  BY Zenon, InChars
<1>2. Len(s) \in Nat
  <2>1. ASSUME NEW S, NEW x \in Seq(S) PROVE Len(x) \in Nat
    OBVIOUS
  <2> QED BY Zenon, <1>1, <2>1
<1>3. 0 \in Nat /\ 0 <= Len(s) /\ Len(s) <= Len(s) /\ Len(s) + 1 \in Nat /\ Len(s) <= Len(s) + 1
  BY <1>2
<1>4. CASE r = print_number(q, s)
  <2> DEFINE t == NumberText(s)
  <2>1. t \in Seq(Chars)
    BY Zenon, NumberChars
  <2>2. r = Fail(q) \/ r = Write(q, Len(t), t \o <<NUL>>, Len(t))
    BY <1>4 DEF print_number
  <2> HIDE DEF t
  <2>3. CASE r = Fail(q)
    <3>1. Good(q, c) => Lost(r, c)
      BY Zenon, <2>3, FailLoses
    <3>2. Lost(q, c) => r = q
      BY <2>3 DEF Lost, Buffers, Fail
    <3>3. Lost(r, c)
      BY Zenon, <3>1, <3>2 DEF Fine
    <3> QED BY <3>3 DEF Fine, Lost
  <2>4. CASE r = Write(q, Len(t), t \o <<NUL>>, Len(t))
    <3>1. Len(t) \in Nat
      <4>1. ASSUME NEW S, NEW x \in Seq(S) PROVE Len(x) \in Nat
        OBVIOUS
      <4> QED BY Zenon, <2>1, <4>1
    <3>2. Len(t) <= Len(t)
      BY <3>1
    <3> QED BY Zenon, <2>1, <2>4, <3>1, <3>2, WriteEnded
  <2> QED BY <2>2, <2>3, <2>4
<1>5. CASE r = AsRaw(q, s)
  <2> DEFINE k == Len(s) + 1
  <2>1. r = Write(q, k, s \o <<NUL>>, 0) /\ k \in Nat /\ Len(s) <= k /\ 0 \in Nat /\ 0 <= Len(s)
    BY <1>2, <1>5 DEF AsRaw
  <2> HIDE DEF k
  <2> QED BY <1>1, <2>1, WriteEnded
<1> QED BY <1>4, <1>5

\* The words null, true and false.
LEMMA WordKeeps ==
  ASSUME NEW q, NEW c, Fine(q, c), NEW type \in Words, NEW r, r = AsRaw(q, Literal(type))
  PROVE  Fine(r, c) /\ (r.ok => q.ok /\ Level(q, r) /\ Written(r))
<1> DEFINE t == Literal(type)
<1>1. t \in Seq(Chars) /\ Len(t) \in {4, 5}
  BY Zenon, LiteralChars
<1> HIDE DEF t
<1>2. 0 \in Nat /\ 0 <= Len(t) /\ Len(t) + 1 \in Nat /\ Len(t) <= Len(t) + 1
  BY <1>1
<1>3. r = Write(q, Len(t) + 1, t \o <<NUL>>, 0)
  BY DEF t, AsRaw
<1> QED BY Zenon, <1>1, <1>2, <1>3, WriteEnded

\* As many characters as asked for.
LEMMA RepeatLength ==
  ASSUME NEW S, NEW x \in S, NEW n \in Nat
  PROVE  Repeat(x, n) \in Seq(S) /\ Len(Repeat(x, n)) = n
BY DEF Repeat

\* Texts of one character and of two.
LEMMA ShortText ==
  ASSUME NEW S, NEW x \in S, NEW y \in S
  PROVE  /\ <<>> \in Seq(S) /\ Len(<<>>) = 0
         /\ <<x>> \in Seq(S) /\ Len(<<x>>) = 1
         /\ <<x, y>> \in Seq(S) /\ Len(<<x, y>>) = 2 /\ <<x, y>>[2] = y
OBVIOUS

\* One character, and perhaps a blank.
LEMMA WithBlank ==
  ASSUME NEW S, NEW x \in S, NEW y \in S
  PROVE  /\ <<x>> \o <<y>> \in Seq(S) /\ Len(<<x>> \o <<y>>) = 2
         /\ <<x>> \o <<>> \in Seq(S) /\ Len(<<x>> \o <<>>) = 1
OBVIOUS

\* Perhaps a blank.
LEMMA OnlyBlank ==
  ASSUME NEW S, NEW y \in S
  PROVE  /\ <<>> \o <<y>> \in Seq(S) /\ Len(<<>> \o <<y>>) = 1
         /\ <<>> \o <<>> \in Seq(S) /\ Len(<<>> \o <<>>) = 0
OBVIOUS

\* The tabs, the key and the colon in front of a member; a key has its quotes.
LEMMA NameKeeps ==
  ASSUME NEW q, NEW c, Good(q, c), NEW s \in Seq(STRING),
         NEW r, r = Name(q, s)
  PROVE  Fine(r, c) /\ (r.ok => Level(q, r))
<1> DEFINE indented == IF q.format THEN Write(q, q.depth, Repeat("tab", q.depth), q.depth) ELSE q
           named == print_string_ptr(indented, s)
           behind == update_offset(named)
           colon == <<":">> \o IF q.format THEN <<"tab">> ELSE <<>>
<1>1. Fine(indented, c) /\ (indented.ok => Level(q, indented))
  <2>1. CASE ~q.format
    BY <2>1 DEF Fine, Level
  <2>2. CASE q.format
    <3> DEFINE t == Repeat("tab", q.depth)
               d == q.depth
               i == Write(q, d, t, d)
    <3>1. d \in Nat
      BY DEF Good, Buffers
    <3>2. "tab" \in Chars
      BY InChars DEF Own
    <3>3. t \in Seq(Chars) /\ Len(t) = d
      BY Zenon, <3>1, <3>2, RepeatLength
    <3>4. indented = i
      BY <2>2
    <3> HIDE DEF t, d, indented
    <3>5. d <= d /\ Len(t) <= d + 1
      BY <3>1, <3>3
    <3>6. Fine(q, c)
      BY DEF Fine
    <3> HIDE DEF i
    <3>7. i = Write(q, d, t, d)
      BY DEF i
    <3>8. Fine(i, c) /\ (i.ok => Level(q, i))
      BY Zenon, <3>1, <3>3, <3>5, <3>6, <3>7, WriteKeeps
    <3> QED BY <3>4, <3>8
  <2> QED BY <2>1, <2>2
<1> HIDE DEF indented
<1>2. Fine(named, c) /\ (named.ok => indented.ok /\ Level(indented, named) /\ Written(named))
  BY Zenon, <1>1, StringKeeps
<1> HIDE DEF named
<1>3. Fine(behind, c) /\ (behind.ok => named.ok /\ Level(named, behind))
  BY Zenon, <1>2, OffsetKeeps
<1> HIDE DEF behind
<1>4. colon \in Seq(Chars) /\ Len(colon) \in {1, 2}
  <2>1. ":" \in Chars /\ "tab" \in Chars
    BY InChars DEF Own
  <2>2. CASE q.format
    <3>1. colon = <<":">> \o <<"tab">>
      BY <2>2
    <3>2. <<":">> \o <<"tab">> \in Seq(Chars) /\ Len(<<":">> \o <<"tab">>) = 2
      BY Zenon, <2>1, WithBlank
    <3> QED BY <3>1, <3>2
  <2>3. CASE ~q.format
    <3>1. colon = <<":">> \o <<>>
      BY <2>3
    <3>2. <<":">> \o <<>> \in Seq(Chars) /\ Len(<<":">> \o <<>>) = 1
      BY Zenon, <2>1, WithBlank
    <3> QED BY <3>1, <3>2
  <2> QED BY <2>2, <2>3
<1>5. r = Write(behind, Len(colon), colon, Len(colon))
  BY DEF Name, behind, named, indented
<1> HIDE DEF colon
<1>6. Len(colon) \in Nat /\ Len(colon) <= Len(colon) /\ Len(colon) <= Len(colon) + 1
  BY <1>4
<1>7. Fine(r, c) /\ (r.ok => behind.ok /\ Level(behind, r))
  BY Zenon, <1>3, <1>4, <1>5, <1>6, WriteKeeps
<1> QED BY <1>1, <1>2, <1>3, <1>7 DEF Level

\* The comma and the blank behind a child.
LEMMA SeparatorKeeps ==
  ASSUME NEW q, NEW c, Fine(q, c), NEW kind, NEW last,
         NEW r, r = Separator(q, kind, last)
  PROVE  Fine(r, c) /\ (r.ok => q.ok /\ Level(q, r))
<1> DEFINE comma == IF last THEN <<>> ELSE <<",">>
           blank == IF ~q.format THEN <<>>
                    ELSE IF kind = "array" THEN <<"space">> ELSE <<"newline">>
           t == comma \o blank
<1>1. CASE kind = "array" /\ last
  BY <1>1 DEF Separator, Level
<1>2. CASE ~(kind = "array" /\ last)
  <2>1. t \in Seq(Chars) /\ Len(t) \in 0..2
    <3>1. "," \in Chars /\ "space" \in Chars /\ "newline" \in Chars
      BY InChars DEF Own
    <3>2. comma \in {<<>>, <<",">>} /\ blank \in {<<>>, <<"space">>, <<"newline">>}
      OBVIOUS
    <3>3. ASSUME NEW y \in {"space", "newline"}
          PROVE  /\ <<",">> \o <<y>> \in Seq(Chars) /\ Len(<<",">> \o <<y>>) = 2
                 /\ <<",">> \o <<>> \in Seq(Chars) /\ Len(<<",">> \o <<>>) = 1
                 /\ <<>> \o <<y>> \in Seq(Chars) /\ Len(<<>> \o <<y>>) = 1
                 /\ <<>> \o <<>> \in Seq(Chars) /\ Len(<<>> \o <<>>) = 0
      <4>1. y \in Chars /\ "," \in Chars
        BY <3>1
      <4>2. /\ <<",">> \o <<y>> \in Seq(Chars) /\ Len(<<",">> \o <<y>>) = 2
            /\ <<",">> \o <<>> \in Seq(Chars) /\ Len(<<",">> \o <<>>) = 1
        BY Zenon, <4>1, WithBlank
      <4>3. /\ <<>> \o <<y>> \in Seq(Chars) /\ Len(<<>> \o <<y>>) = 1
            /\ <<>> \o <<>> \in Seq(Chars) /\ Len(<<>> \o <<>>) = 0
        BY Zenon, <4>1, OnlyBlank
      <4> QED BY Zenon, <4>2, <4>3
    <3> HIDE DEF comma, blank
    <3>4. \A x \in {<<>>, <<",">>}, y \in {<<>>, <<"space">>, <<"newline">>} :
            x \o y \in Seq(Chars) /\ Len(x \o y) \in {0, 1, 2}
      BY Zenon, <3>3
    <3>5. t \in Seq(Chars) /\ Len(t) \in {0, 1, 2}
      BY Zenon, <3>2, <3>4
    <3> HIDE DEF t
    <3> QED BY <3>5
  <2>2. r = Write(q, Len(t) + 1, t \o <<NUL>>, Len(t))
    BY <1>2 DEF Separator
  <2> HIDE DEF t
  <2> DEFINE k == Len(t) + 1
  <2>3. k \in Nat /\ Len(t) <= k /\ Len(t) \in Nat /\ Len(t) <= Len(t)
    BY <2>1
  <2>4. r = Write(q, k, t \o <<NUL>>, Len(t))
    BY <2>2
  <2> HIDE DEF k
  <2> QED BY <2>1, <2>3, <2>4, WriteEnded
<1> QED BY <1>1, <1>2

\* The depth has no part in it.
LEMMA DepthKeeps ==
  ASSUME NEW q, NEW c, Fine(q, c), NEW d \in Nat, NEW r, r = [q EXCEPT !.depth = d]
  PROVE  /\ Fine(r, c) /\ r.depth = d /\ r.ok = q.ok
         /\ Written(q) => Written(r)
<1>1. q \in Buffers
  BY DEF Fine, Good, Lost
<1>2. /\ r \in Buffers /\ r.depth = d /\ r.ok = q.ok /\ r.mem = q.mem /\ r.isNULL = q.isNULL
      /\ r.length = q.length /\ r.offset = q.offset /\ r.noalloc = q.noalloc
      /\ r.realloc = q.realloc /\ r.failAt = q.failAt /\ r.allocations = q.allocations
      /\ r.blocks = q.blocks /\ r.fault = q.fault
  BY <1>1 DEF Buffers
<1>3. Good(q, c) => Good(r, c)
  BY <1>2 DEF Good, Caller, Unfilled
<1>4. Lost(q, c) => Lost(r, c)
  BY <1>2 DEF Lost, Caller
<1>5. Written(q) => Written(r)
  BY <1>2 DEF Written
<1> QED BY <1>2, <1>3, <1>4, <1>5 DEF Fine

\* A container that is opened is a level deeper.
LEMMA OpeningKeeps ==
  ASSUME NEW q, NEW c, Good(q, c), NEW kind, NEW r, r = Opening(q, kind)
  PROVE  Fine(r, c) /\ (r.ok => r.depth = q.depth + 1)
<1> DEFINE brace == <<"{">> \o IF q.format THEN <<"newline">> ELSE <<>>
           w == IF kind = "array" THEN Write(q, 1, <<"[">>, 1)
                ELSE Write(q, Len(brace) + 1, brace, Len(brace))
<1>1. Fine(q, c)
  BY DEF Fine
<1>2. Fine(w, c) /\ (w.ok => Level(q, w))
  <2>0. "[" \in Chars /\ "{" \in Chars /\ "newline" \in Chars
    BY InChars DEF Own
  <2>1. CASE kind = "array"
    <3> DEFINE t == <<"[">>
    <3>1. w = Write(q, 1, t, 1)
      BY <2>1
    <3>2. t \in Seq(Chars) /\ Len(t) = 1
      BY Zenon, <2>0, ShortText
    <3> HIDE DEF t, w
    <3>3. 1 \in Nat /\ 1 <= 1 /\ Len(t) <= 1 + 1
      BY <3>2
    <3> QED BY <1>1, <3>1, <3>2, <3>3, WriteKeeps
  <2>2. CASE kind # "array"
    <3>1. brace \in Seq(Chars) /\ Len(brace) \in {1, 2}
      <4>1. brace = <<"{">> \o <<"newline">> \/ brace = <<"{">> \o <<>>
        OBVIOUS
      <4>2. /\ <<"{">> \o <<"newline">> \in Seq(Chars) /\ Len(<<"{">> \o <<"newline">>) = 2
            /\ <<"{">> \o <<>> \in Seq(Chars) /\ Len(<<"{">> \o <<>>) = 1
        BY Zenon, <2>0, WithBlank
      <4> QED BY <4>1, <4>2
    <3> DEFINE k == Len(brace) + 1
               l == Len(brace)
    <3>2. w = Write(q, k, brace, l)
      BY <2>2
    <3> HIDE DEF brace, w
    <3>3. k \in Nat /\ l \in Nat /\ l <= k /\ Len(brace) <= k + 1
      BY <3>1
    <3> HIDE DEF k, l
    <3> QED BY <1>1, <3>1, <3>2, <3>3, WriteKeeps
  <2> QED BY <2>1, <2>2
<1> DEFINE d == IF w.ok THEN w.depth + 1 ELSE w.depth
<1>3. r = [w EXCEPT !.depth = d]
  <2>1. r = Deepen(w)
    BY DEF Opening
  <2> HIDE DEF w
  <2>2. w \in Buffers
    BY <1>2 DEF Fine, Good, Lost
  <2> QED BY <2>1, <2>2 DEF Deepen, Buffers
<1> HIDE DEF w
<1>4. d \in Nat
  BY <1>2 DEF Fine, Good, Lost, Buffers
<1> HIDE DEF d
<1>5. Fine(r, c) /\ r.depth = d /\ r.ok = w.ok /\ (Written(w) => Written(r))
  BY Zenon, <1>2, <1>3, <1>4, DepthKeeps
<1>6. w.ok => d = q.depth + 1
  BY <1>2 DEF d, Level
<1> QED BY <1>5, <1>6

\* One that is closed is a level higher; print_object asks for depth + 1 and writes
\* depth - 1 tabs, the brace and the terminator.
LEMMA ClosingKeeps ==
  ASSUME NEW q, NEW c, Good(q, c), q.depth > 0, NEW kind, NEW r, r = Closing(q, kind)
  PROVE  Fine(r, c) /\ (r.ok => r.depth = q.depth - 1 /\ Written(r))
<1> DEFINE tabs == Repeat("tab", q.depth - 1)
           w == IF kind = "array" THEN Write(q, 2, <<"]", NUL>>, 0)
                ELSE IF q.format
                THEN Write(q, q.depth + 1, tabs \o <<"}", NUL>>, 0)
                ELSE Write(q, 2, <<"}", NUL>>, 0)
<1>0. "]" \in Chars /\ "}" \in Chars /\ "tab" \in Chars /\ NUL \in Chars
  BY InChars DEF Own
<1>1. Fine(q, c) /\ q.depth \in Nat
  BY DEF Fine, Good, Buffers
<1>2. Fine(w, c) /\ (w.ok => Level(q, w) /\ Written(w))
  <2>1. ASSUME NEW x \in Chars, w = Write(q, 2, <<x, NUL>>, 0)
        PROVE  Fine(w, c) /\ (w.ok => Level(q, w) /\ Written(w))
    <3> DEFINE t == <<x, NUL>>
    <3>1. w = Write(q, 2, t, 0)
      BY <2>1
    <3>2. t \in Seq(Chars) /\ Len(t) = 2 /\ t[2] = NUL
      BY Zenon, <1>0, ShortText
    <3> HIDE DEF t, w
    <3>3. 2 \in Nat /\ 0 \in Nat /\ 0 <= 2 /\ Len(t) <= 2 + 1 /\ 0 < Len(t) /\ t[Len(t)] = NUL
      BY <3>2
    <3> QED BY <1>1, <3>1, <3>2, <3>3, WriteKeeps
  <2>2. CASE kind # "array" /\ q.format
    <3> DEFINE d == q.depth - 1
               k == q.depth + 1
               t == tabs \o <<"}", NUL>>
    <3>1. w = Write(q, k, t, 0)
      BY <2>2
    <3>2. d \in Nat /\ k \in Nat /\ k = d + 2
      BY <1>1
    <3>3. tabs \in Seq(Chars) /\ Len(tabs) = d
      BY Zenon, <1>0, <3>2, RepeatLength
    <3>4. <<"}", NUL>> \in Seq(Chars) /\ Len(<<"}", NUL>>) = 2 /\ <<"}", NUL>>[2] = NUL
      BY Zenon, <1>0, ShortText
    <3> HIDE DEF tabs, d
    <3>5. t \in Seq(Chars) /\ Len(t) = d + 2 /\ t[Len(t)] = NUL
      <4>1. ASSUME NEW S, NEW x \in Seq(S), NEW y \in Seq(S), NEW e \in Nat, Len(x) = e, Len(y) = 2,
                   y[2] = NUL
            PROVE  x \o y \in Seq(S) /\ Len(x \o y) = e + 2 /\ (x \o y)[Len(x \o y)] = NUL
        <5>1. /\ x \o y \in Seq(S) /\ Len(x \o y) = e + 2
              /\ \A i \in 1..e + 2 : (x \o y)[i] = IF i <= e THEN x[i] ELSE y[i - e]
          <6>1. /\ x \o y \in Seq(S) /\ Len(x \o y) = Len(x) + Len(y)
                /\ \A i \in 1..Len(x) + Len(y) :
                     (x \o y)[i] = IF i <= Len(x) THEN x[i] ELSE y[i - Len(x)]
            BY Zenon, ConcatProperties
          <6> QED BY <4>1, <6>1
        <5>2. e + 2 \in 1..e + 2 /\ ~(e + 2 <= e) /\ (e + 2) - e = 2
          OBVIOUS
        <5>3. (x \o y)[e + 2] = y[2]
          BY <5>1, <5>2
        <5> QED BY <4>1, <5>1, <5>3
      <4> QED BY Zenon, <3>2, <3>3, <3>4, <4>1
    <3> HIDE DEF t, w, k
    <3>6. 0 \in Nat /\ 0 <= k /\ Len(t) <= k + 1 /\ 0 < Len(t)
      BY <3>2, <3>5
    <3> QED BY <1>1, <3>1, <3>2, <3>5, <3>6, WriteKeeps
  <2>3. CASE kind = "array"
    BY <1>0, <2>1, <2>3
  <2>4. CASE kind # "array" /\ ~q.format
    BY <1>0, <2>1, <2>4
  <2> QED BY <2>2, <2>3, <2>4
<1> DEFINE d == IF w.ok THEN w.depth - 1 ELSE w.depth
<1>3. r = [w EXCEPT !.depth = d]
  <2>1. r = Raise(w)
    BY DEF Closing
  <2> HIDE DEF w
  <2>2. w \in Buffers
    BY <1>2 DEF Fine, Good, Lost
  <2> QED BY <2>1, <2>2 DEF Raise, Buffers
<1> HIDE DEF w
<1>4. d \in Nat
  BY <1>1, <1>2 DEF Fine, Good, Lost, Buffers, Level
<1> HIDE DEF d
<1>5. Fine(r, c) /\ r.depth = d /\ r.ok = w.ok /\ (Written(w) => Written(r))
  BY Zenon, <1>2, <1>3, <1>4, DepthKeeps
<1>6. w.ok => d = q.depth - 1
  BY <1>2 DEF d, Level
<1> QED BY <1>2, <1>5, <1>6

-----------------------------------------------------------------------------
(* The invariant, and each step keeps it.                                      *)

\* The frames of the pending calls.
Frames ==
  {f \in [kind : {"array", "object"}, left : Seq(Parts)] :
     f.kind = "object" => \A i \in DOMAIN f.left : f.left[i].key \in Seq(STRING)}

\* All that is left to print is part of the item; the children of a frame are not
\* used up while one of them is being printed.
InTree ==
  /\ item \in Parts /\ open \in Seq(Frames)
  /\ \A i \in 1..Len(open) : i < Len(open) \/ ppc \in {"value", "return"} => open[i].left # <<>>
  /\ ppc = "next" => open # <<>>

\* The buffer at each position of print_value, with a frame for each level; when
\* it returns true, the terminator of what it has written is there.
InBuffer ==
  /\ ppc \in {"value", "next", "return"} => Good(p, call) /\ p.depth = Len(open)
  /\ ppc = "return" => Written(p)
  /\ ppc = "fail" => Lost(p, call)

\* Before and after the call. What the caller sees is stated by the properties.
Calling ==
  /\ ppc = "idle" =>
       /\ \E format, realloc \in BOOLEAN, failAt \in Nat : p = Empty(format, realloc, failAt)
       /\ call = NoCall /\ open = <<>>
  /\ ppc # "idle" => call.name \in {"print", "cJSON_PrintBuffered", "cJSON_PrintPreallocated"}
  /\ ppc # "done" => result = "none"
  /\ ppc = "done" =>
       /\ p \in Buffers /\ result \in {"text", "NULL", "crashed"}
       /\ StaysInBounds /\ NothingLeaks
       /\ result = "text" /\ call.name # "print" => Len(p.mem) = p.length /\ p.offset < p.length

\* The inductive invariant.
PrintInv ==
  /\ ppc \in {"idle", "value", "next", "return", "fail", "done"}
  /\ InTree /\ InBuffer /\ Calling

\* The sequence functions, by their elements.
LEMMA Pushed ==
  ASSUME NEW S, NEW s \in Seq(S), NEW x \in S
  PROVE  /\ Append(s, x) \in Seq(S) /\ Len(Append(s, x)) = Len(s) + 1 /\ Append(s, x) # <<>>
         /\ Len(s) \in Nat
         /\ \A i \in 1..Len(s) : Append(s, x)[i] = s[i]
         /\ Append(s, x)[Len(s) + 1] = x
OBVIOUS

LEMMA Popped ==
  ASSUME NEW S, NEW s \in Seq(S), s # <<>>
  PROVE  /\ Front(s) \in Seq(S) /\ Len(Front(s)) = Len(s) - 1
         /\ Len(s) \in Nat /\ Len(s) > 0
         /\ \A i \in 1..(Len(s) - 1) : Front(s)[i] = s[i]
         /\ Last(s) \in S /\ Last(s) = s[Len(s)]
<1>1. Len(s) \in Nat /\ Len(s) > 0
  OBVIOUS
<1>2. Front(s) = SubSeq(s, 1, Len(s) - 1) /\ Last(s) = s[Len(s)]
  BY DEF Front, Last
<1>3. Front(s) \in Seq(S) /\ Len(Front(s)) = Len(s) - 1 /\ \A i \in 1..(Len(s) - 1) : Front(s)[i] = s[i]
  <2> DEFINE n == Len(s) - 1
             f == SubSeq(s, 1, n)
  <2>1. n \in Nat /\ n \in Int /\ 1 \in Int /\ \A i \in 1..n : s[i] \in S
    BY <1>1
  <2>2. Front(s) = f
    BY <1>2
  <2> HIDE DEF n
  <2>3. /\ f \in Seq(S) /\ Len(f) = (IF 1 <= n THEN n - 1 + 1 ELSE 0)
        /\ \A i \in 1..n - 1 + 1 : f[i] = s[1 + i - 1]
    BY <2>1, SubSeqProperties
  <2>4. \A i \in 1..n : i \in 1..n - 1 + 1 /\ 1 + i - 1 = i
    BY <2>1
  <2>5. Len(f) = n
    BY <2>1, <2>3
  <2> HIDE DEF f
  <2>6. \A i \in 1..n : f[i] = s[i]
    BY <2>3, <2>4
  <2> QED BY <2>2, <2>3, <2>5, <2>6 DEF n
<1> QED BY <1>1, <1>2, <1>3

LEMMA FirstOf ==
  ASSUME NEW S, NEW s \in Seq(S), s # <<>>
  PROVE  Head(s) \in S /\ Head(s) = s[1] /\ 1 \in DOMAIN s /\ Tail(s) \in Seq(S)
         /\ Len(Tail(s)) = Len(s) - 1 /\ \A i \in DOMAIN Tail(s) : i + 1 \in DOMAIN s /\ Tail(s)[i] = s[i + 1]
OBVIOUS

\* A step from one position of print_value to the next keeps the invariant if what
\* it writes keeps the buffer Fine and its frames are as the position wants them.
LEMMA ContinueKeeps ==
  ASSUME PrintInv, NEW q, NEW c, c = call, NEW position \in {"value", "next", "return"},
         ppc \in {"value", "next", "return"},
         Continue(q, position), Fine(q, c),
         q.ok => q.depth = Len(open') /\ (position = "return" => Written(q)),
         open' \in Seq(Frames),
         \A i \in 1..Len(open') : i < Len(open') \/ position # "next" => open'[i].left # <<>>,
         position = "next" => open' # <<>>
  PROVE  PrintInv'
<1>1. /\ p' = q /\ ppc' = (IF q.ok THEN position ELSE "fail")
      /\ item' = item /\ call' = c /\ result' = result
  BY DEF Continue
<1>2. (q.ok => Good(q, c)) /\ (~q.ok => Lost(q, c)) /\ q.ok \in BOOLEAN
  BY DEF Fine, Good, Lost, Buffers
<1>3. InTree'
  BY <1>1 DEF PrintInv, InTree
<1>4. InBuffer'
  BY <1>1, <1>2 DEF InBuffer
<1>5. Calling'
  BY <1>1 DEF PrintInv, Calling
<1> QED BY <1>1, <1>3, <1>4, <1>5 DEF PrintInv

\* The argument of print_value is a part of the item.
LEMMA CurrentIs ==
  ASSUME PrintInv
  PROVE  /\ ppc = "value" => Current \in Parts /\ IsPart(Current)
         /\ ppc = "next" => open # <<>> /\ Last(open) \in Frames
         /\ ppc = "next" /\ Last(open).left # <<>> /\ Last(open).kind = "object" =>
              Current.key \in Seq(STRING)
<1>1. open \in Seq(Frames) /\ item \in Parts
  BY DEF PrintInv, InTree
<1>2. open # <<>> => Last(open) \in Frames /\ Last(open) = open[Len(open)] /\ Len(open) \in Nat /\ Len(open) > 0
  BY Zenon, <1>1, Popped
<1>3. ASSUME open # <<>>, Last(open).left # <<>>
      PROVE  /\ Current \in Parts
             /\ Last(open).kind = "object" => Current.key \in Seq(STRING)
  <2>1. /\ Last(open).left \in Seq(Parts)
        /\ Last(open).kind = "object" =>
              \A i \in DOMAIN Last(open).left : Last(open).left[i].key \in Seq(STRING)
    BY <1>2, <1>3 DEF Frames
  <2>2. /\ Head(Last(open).left) \in Parts /\ Head(Last(open).left) = Last(open).left[1]
        /\ 1 \in DOMAIN Last(open).left
    BY Zenon, <1>3, <2>1, FirstOf
  <2>3. Current = Head(Last(open).left)
    BY <1>3 DEF Current
  <2> QED BY Zenon, <2>1, <2>2, <2>3
<1>4. ASSUME ppc = "value" PROVE Current \in Parts /\ IsPart(Current)
  <2>1. CASE open = <<>>
    BY <1>1, <2>1, PrintAssumption DEF Current
  <2>2. CASE open # <<>>
    <3>1. Last(open).left # <<>>
      BY <1>2, <1>4, <2>2 DEF PrintInv, InTree
    <3> QED BY <1>3, <2>2, <3>1, PrintAssumption
  <2> QED BY <2>1, <2>2
<1>5. ppc = "next" => open # <<>>
  BY DEF PrintInv, InTree
<1> QED BY <1>2, <1>3, <1>4, <1>5

\* The steps that print an item without children.
LEMMA LeafKeeps ==
  ASSUME PrintInv, print_word \/ print_scalar
  PROVE  PrintInv'
<1>1. /\ ppc = "value" /\ open' = open
  BY DEF print_word, print_scalar
<1>2. /\ Good(p, call) /\ p.depth = Len(open) /\ open \in Seq(Frames)
      /\ \A i \in 1..Len(open) : open[i].left # <<>>
  BY <1>1 DEF PrintInv, InBuffer, InTree
<1>3. Fine(p, call)
  BY <1>2 DEF Fine
<1>4. IsPart(Current)
  BY <1>1, CurrentIs
<1>5. ASSUME NEW q, Continue(q, "return"),
             Fine(q, call), q.ok => p.ok /\ Level(p, q) /\ Written(q)
      PROVE  PrintInv'
  <2>1. q.ok => q.depth = Len(open')
    BY <1>1, <1>2, <1>5 DEF Level
  <2> QED BY <1>1, <1>2, <1>5, <2>1, ContinueKeeps
<1>6. CASE print_word
  <2>1. PICK type : type = Current.type
    OBVIOUS
  <2>2. PICK q : q = AsRaw(p, Literal(type))
    OBVIOUS
  <2>3. type \in Words /\ Continue(q, "return")
    BY <1>6, <2>1, <2>2 DEF print_word, AsRaw
  <2>4. Fine(q, call) /\ (q.ok => p.ok /\ Level(p, q) /\ Written(q))
    BY Zenon, <1>3, <2>2, <2>3, WordKeeps
  <2> QED BY <1>5, <2>3, <2>4
<1>7. CASE print_scalar /\ Current.type = "number" /\ Continue(print_number(p, Current.digits), "return")
  <2>1. PICK digits : digits = Current.digits
    OBVIOUS
  <2>2. PICK q : q = print_number(p, digits)
    OBVIOUS
  <2>3. digits \in Seq(STRING) /\ Continue(q, "return")
    BY <1>4, <1>7, <2>1, <2>2 DEF IsPart
  <2>4. Fine(q, call) /\ (q.ok => p.ok /\ Level(p, q) /\ Written(q))
    BY Zenon, <1>3, <2>2, <2>3, NumberKeeps
  <2> QED BY <1>5, <2>3, <2>4
<1>8. CASE print_scalar /\ Current.type = "raw"
             /\ Continue(Write(p, Len(Current.digits) + 1, Current.digits \o <<NUL>>, 0), "return")
  <2>1. PICK digits : digits = Current.digits
    OBVIOUS
  <2>2. PICK q : q = AsRaw(p, digits)
    OBVIOUS
  <2>3. digits \in Seq(STRING) /\ Continue(q, "return")
    BY <1>4, <1>8, <2>1, <2>2 DEF IsPart, AsRaw
  <2>4. Fine(q, call) /\ (q.ok => p.ok /\ Level(p, q) /\ Written(q))
    BY Zenon, <1>3, <2>2, <2>3, NumberKeeps
  <2> QED BY <1>5, <2>3, <2>4
<1>9. CASE print_scalar /\ Current.type = "string" /\ Continue(print_string_ptr(p, Current.text), "return")
  <2>1. PICK q : q = print_string_ptr(p, Current.text)
    OBVIOUS
  <2>2. Current.text \in Seq(STRING)
    BY <1>4, <1>9 DEF IsPart
  <2>3. Fine(q, call) /\ (q.ok => p.ok /\ Level(p, q) /\ Written(q))
    BY Zenon, <1>3, <2>1, <2>2, StringKeeps
  <2> QED BY <1>5, <1>9, <2>1, <2>3
<1> QED BY <1>6, <1>7, <1>8, <1>9 DEF print_scalar

\* A container is entered.
LEMMA OpenKeeps ==
  ASSUME PrintInv, OpenContainer
  PROVE  PrintInv'
<1> DEFINE frame == [kind |-> Current.type, left |-> Current.kids]
<1>1. PICK q : q = Opening(p, Current.type)
  OBVIOUS
<1>2. /\ ppc = "value" /\ Current.type \in {"array", "object"} /\ Continue(q, "next")
      /\ open' = Append(open, frame)
  BY <1>1 DEF OpenContainer
<1>3. /\ Good(p, call) /\ p.depth = Len(open) /\ open \in Seq(Frames)
      /\ \A i \in 1..Len(open) : open[i].left # <<>>
  BY <1>2 DEF PrintInv, InBuffer, InTree
<1>4. frame \in Frames
  <2>1. IsPart(Current)
    BY <1>2, CurrentIs
  <2> QED BY <1>2, <2>1 DEF Frames, IsPart
<1>5. Fine(q, call) /\ (q.ok => q.depth = p.depth + 1)
  BY Zenon, <1>1, <1>3, OpeningKeeps
<1> HIDE DEF frame
<1>6. /\ open' \in Seq(Frames) /\ Len(open') = Len(open) + 1 /\ open' # <<>>
      /\ Len(open) \in Nat /\ \A i \in 1..Len(open) : open'[i] = open[i]
  <2>1. /\ Append(open, frame) \in Seq(Frames) /\ Len(Append(open, frame)) = Len(open) + 1
        /\ Append(open, frame) # <<>> /\ Len(open) \in Nat
        /\ \A i \in 1..Len(open) : Append(open, frame)[i] = open[i]
    BY <1>3, <1>4, Pushed
  <2> QED BY Zenon, <1>2, <2>1
<1>7. \A i \in 1..Len(open') : i < Len(open') => open'[i].left # <<>>
  BY <1>3, <1>6
<1> QED BY <1>2, <1>3, <1>5, <1>6, <1>7, ContinueKeeps

\* The loop over the children calls print_value for one.
LEMMA LoopKeeps ==
  ASSUME PrintInv, Element \/ Member
  PROVE  PrintInv'
<1>1. /\ ppc = "next" /\ open' = open /\ Last(open).left # <<>>
  BY DEF Element, Member
<1>2. /\ Good(p, call) /\ p.depth = Len(open) /\ open \in Seq(Frames) /\ open # <<>>
      /\ \A i \in 1..Len(open) : i < Len(open) => open[i].left # <<>>
  BY <1>1 DEF PrintInv, InBuffer, InTree
<1>3. \A i \in 1..Len(open) : open[i].left # <<>>
  <2>1. Len(open) \in Nat /\ Last(open) = open[Len(open)]
    BY Zenon, <1>2, Popped
  <2> QED BY <1>1, <1>2, <2>1
<1>4. ASSUME NEW q, Continue(q, "value"), Fine(q, call), q.ok => Level(p, q)
      PROVE  PrintInv'
  <2>1. q.ok => q.depth = Len(open')
    BY <1>1, <1>2, <1>4 DEF Level
  <2> QED BY <1>1, <1>2, <1>3, <1>4, <2>1, ContinueKeeps
<1>5. CASE Element
  <2>1. PICK q : q = p
    OBVIOUS
  <2>2. Fine(q, call) /\ Level(p, q)
    BY <1>2, <2>1 DEF Fine, Level
  <2> QED BY <1>4, <1>5, <2>1, <2>2 DEF Element
<1>6. CASE Member
  <2>1. PICK q : q = Name(p, Current.key)
    OBVIOUS
  <2>2. Current.key \in Seq(STRING)
    BY <1>1, <1>6, CurrentIs DEF Member
  <2>3. Fine(q, call) /\ (q.ok => Level(p, q))
    BY Zenon, <1>2, <2>1, <2>2, NameKeeps
  <2> QED BY <1>4, <1>6, <2>1, <2>3 DEF Member
<1> QED BY <1>5, <1>6

\* A child has been printed.
LEMMA NextChildKeeps ==
  ASSUME PrintInv, NextChild
  PROVE  PrintInv'
<1> DEFINE frame == Last(open)
           after == [frame EXCEPT !.left = Tail(@)]
           last == Len(frame.left) = 1
<1>1. PICK b : b = update_offset(p)
  OBVIOUS
<1>2. PICK q : q = Separator(b, frame.kind, last)
  OBVIOUS
<1>3. /\ ppc = "return" /\ open # <<>> /\ Continue(q, "next") /\ open' = Append(Front(open), after)
  BY <1>1, <1>2 DEF NextChild
<1>4. /\ Good(p, call) /\ Written(p) /\ p.depth = Len(open) /\ open \in Seq(Frames)
      /\ \A i \in 1..Len(open) : open[i].left # <<>>
  BY <1>3 DEF PrintInv, InBuffer, InTree
<1>5. /\ Front(open) \in Seq(Frames) /\ Len(Front(open)) = Len(open) - 1
      /\ Len(open) \in Nat /\ Len(open) > 0
      /\ \A i \in 1..(Len(open) - 1) : Front(open)[i] = open[i]
      /\ frame \in Frames /\ frame = open[Len(open)]
  BY Zenon, <1>3, <1>4, Popped
<1>6. after \in Frames
  <2>1. frame.left \in Seq(Parts) /\ frame.left # <<>>
    BY <1>4, <1>5 DEF Frames
  <2>2. /\ Tail(frame.left) \in Seq(Parts)
        /\ \A i \in DOMAIN Tail(frame.left) :
             i + 1 \in DOMAIN frame.left /\ Tail(frame.left)[i] = frame.left[i + 1]
    BY Zenon, <2>1, FirstOf
  <2> DEFINE t == Tail(frame.left)
  <2>3. after = [frame EXCEPT !.left = t]
    OBVIOUS
  <2> HIDE DEF t, after, frame
  <2>4. after \in [kind : {"array", "object"}, left : Seq(Parts)] /\ after.kind = frame.kind
        /\ after.left = t
    BY <1>5, <2>2, <2>3 DEF Frames, t
  <2>5. after.kind = "object" => \A i \in DOMAIN after.left : after.left[i].key \in Seq(STRING)
    <3> SUFFICES ASSUME after.kind = "object", NEW i \in DOMAIN after.left
                 PROVE  after.left[i].key \in Seq(STRING)
      OBVIOUS
    <3>1. \A j \in DOMAIN frame.left : frame.left[j].key \in Seq(STRING)
      BY <1>5, <2>4 DEF Frames
    <3>2. i + 1 \in DOMAIN frame.left /\ after.left[i] = frame.left[i + 1]
      BY <2>2, <2>4 DEF t
    <3> QED BY Zenon, <3>1, <3>2
  <2> QED BY <2>4, <2>5 DEF Frames
<1>7. Fine(b, call) /\ (b.ok => Level(p, b))
  <2>1. Fine(p, call)
    BY <1>4 DEF Fine
  <2> QED BY Zenon, <1>1, <1>4, <2>1, OffsetKeeps
<1>8. Fine(q, call) /\ (q.ok => b.ok /\ Level(b, q))
  <2> HIDE DEF last, frame
  <2>1. PICK k, l : k = frame.kind /\ l = last
    OBVIOUS
  <2>2. q = Separator(b, k, l)
    BY <1>2, <2>1
  <2>3. Fine(b, call)
    BY <1>7
  <2> QED BY Zenon, <2>2, <2>3, SeparatorKeeps
<1> HIDE DEF after, last, frame
<1>9. /\ open' \in Seq(Frames) /\ Len(open') = Len(Front(open)) + 1 /\ open' # <<>>
      /\ \A i \in 1..Len(Front(open)) : open'[i] = Front(open)[i]
  <2>1. PICK front : front = Front(open)
    OBVIOUS
  <2>2. front \in Seq(Frames) /\ open' = Append(front, after)
    BY <1>3, <1>5, <2>1
  <2>3. /\ Append(front, after) \in Seq(Frames) /\ Len(Append(front, after)) = Len(front) + 1
        /\ Append(front, after) # <<>>
        /\ \A i \in 1..Len(front) : Append(front, after)[i] = front[i]
    BY <1>6, <2>2, Pushed
  <2> QED BY Zenon, <2>1, <2>2, <2>3
<1>10. \A i \in 1..Len(open') : i < Len(open') => open'[i].left # <<>>
  BY <1>4, <1>5, <1>9
<1>11. q.ok => q.depth = Len(open')
  BY <1>4, <1>5, <1>7, <1>8, <1>9 DEF Level
<1> QED BY <1>3, <1>8, <1>9, <1>10, <1>11, ContinueKeeps

\* The last child has been printed.
LEMMA CloseKeeps ==
  ASSUME PrintInv, CloseContainer
  PROVE  PrintInv'
<1>1. PICK q : q = Closing(p, Last(open).kind)
  OBVIOUS
<1>2. ppc = "next" /\ Continue(q, "return") /\ open' = Front(open)
  BY <1>1 DEF CloseContainer
<1>3. /\ Good(p, call) /\ p.depth = Len(open) /\ open \in Seq(Frames) /\ open # <<>>
      /\ \A i \in 1..Len(open) : i < Len(open) => open[i].left # <<>>
  BY <1>2 DEF PrintInv, InBuffer, InTree
<1>4. /\ open' \in Seq(Frames) /\ Len(open') = Len(open) - 1
      /\ Len(open) \in Nat /\ Len(open) > 0
      /\ \A i \in 1..(Len(open) - 1) : open'[i] = open[i]
  BY Zenon, <1>2, <1>3, Popped
<1>5. p.depth > 0
  BY <1>3, <1>4
<1>6. Fine(q, call) /\ (q.ok => q.depth = p.depth - 1 /\ Written(q))
  BY Zenon, <1>1, <1>3, <1>5, ClosingKeeps
<1>7. \A i \in 1..Len(open') : open'[i].left # <<>>
  BY <1>3, <1>4
<1>8. q.ok => q.depth = Len(open')
  BY <1>3, <1>4, <1>6
<1> QED BY <1>2, <1>4, <1>6, <1>7, <1>8, ContinueKeeps

\* The printbuffer before the call.
LEMMA EmptyIs ==
  ASSUME NEW format \in BOOLEAN, NEW realloc \in BOOLEAN, NEW n \in Nat,
         NEW q, q = Empty(format, realloc, n)
  PROVE  /\ q \in Buffers /\ q.ok /\ q.isNULL /\ q.fault = "none" /\ q.mem = <<>> /\ q.length = 0
         /\ q.offset = 0 /\ q.depth = 0 /\ q.blocks = 0 /\ ~q.noalloc
<1>1. <<>> \in Seq(Chars)
  <2>1. ASSUME NEW S PROVE <<>> \in Seq(S)
    OBVIOUS
  <2> QED BY Zenon, <2>1
<1> QED BY <1>1 DEF Empty, Buffers

\* The initial states satisfy the invariant.
LEMMA InitKeeps ==
  ASSUME Init
  PROVE  PrintInv
<1>1. item \in Parts
  BY PrintAssumption, MemoryAssumption DEF Init
<1>2. open = <<>> /\ ppc = "idle" /\ result = "none" /\ call = NoCall
  BY DEF Init
<1>3. \E format, realloc \in BOOLEAN, n \in Nat : p = Empty(format, realloc, n)
  BY PrintAssumption, MemoryAssumption DEF Init
<1>4. InTree
  <2>1. ASSUME NEW S PROVE <<>> \in Seq(S) /\ Len(<<>>) = 0
    OBVIOUS
  <2>2. open \in Seq(Frames) /\ Len(open) = 0
    BY Zenon, <1>2, <2>1
  <2> QED BY <1>1, <1>2, <2>2 DEF InTree
<1> QED BY <1>2, <1>3, <1>4 DEF PrintInv, InBuffer, Calling

\* What the public functions allocate before they call print_value.
LEMMA BlockIs ==
  ASSUME PrintInv, ppc = "idle", NEW size \in Nat, NEW r, r = WithBlock(size)
  PROVE  /\ r \in Buffers /\ r.fault = "none" /\ ~r.noalloc /\ r.length = 0 /\ r.offset = 0
         /\ r.depth = 0
         /\ \/ ~r.ok /\ r.isNULL /\ r.blocks = 0
            \/ r.ok /\ ~r.isNULL /\ r.blocks = 1 /\ Len(r.mem) = size
<1>1. /\ p \in Buffers /\ p.ok /\ p.isNULL /\ p.fault = "none" /\ p.length = 0
      /\ p.offset = 0 /\ p.depth = 0 /\ p.blocks = 0 /\ ~p.noalloc
  BY EmptyIs DEF PrintInv, Calling
<1> DEFINE a == Allocated(p)
<1>2. /\ a \in Buffers /\ Kept(p, a) /\ a.ok = p.ok /\ a.fault = p.fault /\ a.blocks = p.blocks
      /\ a.isNULL = p.isNULL /\ a.mem = p.mem /\ a.length = p.length
  BY <1>1, OfAllocated
<1>3. CASE AllocationFails(p)
  <2>1. r = [a EXCEPT !.ok = FALSE]
    BY <1>3 DEF WithBlock, Fail
  <2> HIDE DEF a
  <2>2. /\ r \in Buffers /\ ~r.ok /\ r.fault = a.fault /\ r.blocks = a.blocks /\ r.isNULL = a.isNULL
        /\ r.length = a.length /\ r.offset = a.offset /\ r.noalloc = a.noalloc /\ r.depth = a.depth
    BY <1>2, <2>1 DEF Buffers
  <2> QED BY <1>1, <1>2, <2>2 DEF Kept
<1>4. CASE ~AllocationFails(p)
  <2> DEFINE m == Resize(<<>>, size)
  <2>1. r = [a EXCEPT !.mem = m, !.isNULL = FALSE, !.blocks = 1]
    BY <1>4 DEF WithBlock
  <2>2. m \in Seq(Chars) /\ Len(m) = size
    <3>1. "unset" \in Chars
      BY InChars DEF Own
    <3>2. ASSUME NEW S PROVE <<>> \in Seq(S)
      OBVIOUS
    <3> QED BY Zenon, <3>1, <3>2, ResizeLength
  <2> HIDE DEF a, m
  <2>3. /\ r \in Buffers /\ r.ok = a.ok /\ r.fault = a.fault /\ r.blocks = 1 /\ ~r.isNULL /\ r.mem = m
        /\ r.length = a.length /\ r.offset = a.offset /\ r.noalloc = a.noalloc /\ r.depth = a.depth
    BY <1>2, <2>1, <2>2 DEF Buffers
  <2> QED BY <1>1, <1>2, <2>2, <2>3 DEF Kept
<1> QED BY <1>3, <1>4

\* A public function begins with a buffer that is Fine, or without memory.
LEMMA BeginKeeps ==
  ASSUME PrintInv, NEW name \in {"print", "cJSON_PrintBuffered", "cJSON_PrintPreallocated"},
         NEW size, NEW q, Begin(name, size, q), NEW c, c = [name |-> name, size |-> size],
         Fine(q, c), q.depth = 0
  PROVE  PrintInv'
<1>1. /\ ppc = "idle" /\ call' = c /\ p' = q /\ ppc' = IF q.ok THEN "value" ELSE "fail"
  BY DEF Begin
<1>2. open = <<>> /\ open' = open /\ item' = item /\ result' = result
  BY <1>1 DEF Begin, PrintInv, Calling
<1>3. (q.ok => Good(q, c)) /\ (~q.ok => Lost(q, c)) /\ q.ok \in BOOLEAN
  BY DEF Fine, Good, Lost, Buffers
<1>4. Len(open) = 0
  BY <1>2
<1>5. InTree'
  BY <1>1, <1>2, <1>4 DEF PrintInv, InTree
<1>6. InBuffer'
  BY <1>1, <1>2, <1>3, <1>4 DEF InBuffer
<1>7. Calling'
  <2>1. call'.name = name
    BY <1>1
  <2> QED BY <1>1, <1>2, <2>1 DEF PrintInv, Calling
<1> QED BY <1>1, <1>5, <1>6, <1>7 DEF PrintInv

\* print, cJSON_PrintBuffered and cJSON_PrintPreallocated begin so.
LEMMA CallKeeps ==
  ASSUME PrintInv,
         print \/ \E size \in Sizes : cJSON_PrintBuffered(size) \/ cJSON_PrintPreallocated(size)
  PROVE  PrintInv'
<1>0. ppc = "idle"
  BY DEF print, cJSON_PrintBuffered, cJSON_PrintPreallocated, Begin
<1>1. CASE print
  <2>1. PICK q : q = WithBlock(InitialSize)
    OBVIOUS
  <2>2. PICK c : c = [name |-> "print", size |-> InitialSize]
    OBVIOUS
  <2>3. /\ q \in Buffers /\ q.fault = "none" /\ ~q.noalloc /\ q.length = 0 /\ q.offset = 0
        /\ q.depth = 0
        /\ \/ ~q.ok /\ q.isNULL /\ q.blocks = 0
           \/ q.ok /\ ~q.isNULL /\ q.blocks = 1 /\ Len(q.mem) = InitialSize
    <3>1. InitialSize \in Nat
      BY PrintAssumption
    <3> QED BY Zenon, <1>0, <2>1, <3>1, BlockIs
  <2>4. Fine(q, c)
    BY <2>2, <2>3, PrintAssumption DEF Fine, Good, Lost, Caller
  <2>5. Begin("print", InitialSize, q)
    BY <1>1, <2>1 DEF print
  <2> QED BY <2>2, <2>3, <2>4, <2>5, BeginKeeps
<1>2. ASSUME NEW size \in Sizes, cJSON_PrintBuffered(size)
      PROVE  PrintInv'
  <2>0. size \in Nat
    BY PrintAssumption
  <2>1. PICK b : b = WithBlock(size)
    OBVIOUS
  <2>2. PICK c : c = [name |-> "cJSON_PrintBuffered", size |-> size]
    OBVIOUS
  <2>3. PICK q : q = IF b.ok THEN [b EXCEPT !.length = size] ELSE b
    OBVIOUS
  <2>4. /\ b \in Buffers /\ b.fault = "none" /\ ~b.noalloc /\ b.length = 0 /\ b.offset = 0
        /\ b.depth = 0
        /\ \/ ~b.ok /\ b.isNULL /\ b.blocks = 0
           \/ b.ok /\ ~b.isNULL /\ b.blocks = 1 /\ Len(b.mem) = size
    BY Zenon, <1>0, <2>0, <2>1, BlockIs
  <2>5. Fine(q, c) /\ q.depth = 0
    <3>1. CASE ~b.ok
      BY <2>2, <2>3, <2>4, <3>1 DEF Fine, Lost, Caller
    <3>2. CASE b.ok
      <4>1. q = [b EXCEPT !.length = size]
        BY <2>3, <3>2
      <4>2. /\ q \in Buffers /\ q.mem = b.mem /\ q.length = size /\ q.offset = b.offset /\ q.depth = b.depth
            /\ q.ok = b.ok /\ q.isNULL = b.isNULL /\ q.noalloc = b.noalloc /\ q.blocks = b.blocks
            /\ q.fault = b.fault
        BY <2>0, <2>4, <4>1 DEF Buffers
      <4>3. c.name = "cJSON_PrintBuffered" /\ c.size = size
        BY <2>2
      <4> QED BY <2>0, <2>4, <3>2, <4>2, <4>3 DEF Fine, Good, Caller, Unfilled
    <3> QED BY <3>1, <3>2
  <2>6. Begin("cJSON_PrintBuffered", size, q)
    BY <1>2, <2>1, <2>3 DEF cJSON_PrintBuffered
  <2> QED BY <2>2, <2>5, <2>6, BeginKeeps
<1>3. ASSUME NEW size \in Sizes, cJSON_PrintPreallocated(size)
      PROVE  PrintInv'
  <2>0. size \in Nat
    BY PrintAssumption
  <2>1. PICK q : q = [p EXCEPT !.mem = Resize(<<>>, size), !.isNULL = FALSE, !.length = size,
                               !.noalloc = TRUE]
    OBVIOUS
  <2>2. PICK c : c = [name |-> "cJSON_PrintPreallocated", size |-> size]
    OBVIOUS
  <2>3. PICK m : m = Resize(<<>>, size)
    OBVIOUS
  <2>4. m \in Seq(Chars) /\ Len(m) = size
    <3>1. "unset" \in Chars
      BY InChars DEF Own
    <3>2. ASSUME NEW S PROVE <<>> \in Seq(S)
      OBVIOUS
    <3> QED BY Zenon, <2>0, <2>3, <3>1, <3>2, ResizeLength
  <2>5. /\ p \in Buffers /\ p.ok /\ p.fault = "none" /\ p.offset = 0 /\ p.depth = 0 /\ p.blocks = 0
    BY <1>0, EmptyIs DEF PrintInv, Calling
  <2>6. q = [p EXCEPT !.mem = m, !.isNULL = FALSE, !.length = size, !.noalloc = TRUE]
    BY <2>1, <2>3
  <2>7. /\ q \in Buffers /\ q.mem = m /\ q.length = size /\ q.offset = p.offset /\ q.depth = p.depth
        /\ q.ok = p.ok /\ ~q.isNULL /\ q.noalloc /\ q.blocks = p.blocks /\ q.fault = p.fault
    BY <2>0, <2>4, <2>5, <2>6 DEF Buffers
  <2>8. Fine(q, c) /\ q.depth = 0
    BY <2>0, <2>2, <2>4, <2>5, <2>7 DEF Fine, Good, Caller, Unfilled
  <2>9. Begin("cJSON_PrintPreallocated", size, q)
    BY <1>3, <2>1 DEF cJSON_PrintPreallocated
  <2> QED BY <2>2, <2>8, <2>9, BeginKeeps
<1> QED BY <1>1, <1>2, <1>3

\* What print does when print_value has returned.
LEMMA ShrinkEnds ==
  ASSUME NEW q, NEW c, c.name = "print", Fine(q, c),
         q.ok => Written(q) /\ q.offset < Len(q.mem) /\ q.mem[q.offset + 1] = NUL,
         NEW r, r = Shrink(q)
  PROVE  /\ r \in Buffers
         /\ r.fault # "write"
         /\ r.fault = "wild" => r.realloc /\ r.failAt = r.allocations /\ r.offset > 0
         /\ r.fault = "read" => ~r.realloc /\ c.name = "cJSON_PrintBuffered" /\ c.size = 0
         /\ r.fault = "none" /\ ~r.ok /\ r.blocks > 0 => r.realloc /\ r.failAt = r.allocations
         /\ r.ok => \E i \in DOMAIN r.mem : r.mem[i] = NUL
<1>1. CASE Lost(q, c) /\ q.fault # "none"
  <2>1. r = q
    BY <1>1 DEF Shrink, Crashed, Lost
  <2>2. /\ q \in Buffers /\ q.fault # "write"
        /\ q.fault = "wild" => q.realloc /\ q.failAt = q.allocations /\ q.offset > 0
        /\ q.fault = "read" => ~q.realloc /\ c.name = "cJSON_PrintBuffered" /\ c.size = 0
        /\ ~q.ok
    BY <1>1 DEF Lost
  <2> QED BY Zenon, <1>1, <2>1, <2>2
<1>2. CASE Lost(q, c) /\ q.fault = "none"
  <2> DEFINE b == IF q.isNULL THEN q.blocks ELSE q.blocks - 1
  <2>1. r = Free(q) /\ q \in Buffers
    BY <1>2 DEF Shrink, Crashed, Lost
  <2>2. b \in {0, 1} /\ (b = 0 \/ (q.realloc /\ q.failAt = q.allocations))
    BY <1>2 DEF Lost, Caller, Buffers
  <2>3. r = [q EXCEPT !.blocks = b]
    BY <2>1 DEF Free, Buffers
  <2> HIDE DEF b
  <2>4. /\ r \in Buffers /\ r.fault = q.fault /\ r.blocks = b /\ r.realloc = q.realloc
        /\ r.failAt = q.failAt /\ r.allocations = q.allocations /\ r.ok = q.ok
    BY <2>1, <2>2, <2>3 DEF Buffers
  <2> QED BY <1>2, <2>2, <2>4 DEF Lost
<1>3. CASE Good(q, c)
  <2> DEFINE a == Allocated(q)
  <2>0. /\ q \in Buffers /\ q.mem \in Seq(Chars) /\ q.offset \in Nat /\ q.length \in Nat
        /\ q.ok /\ ~q.isNULL /\ q.fault = "none" /\ q.blocks = 1 /\ ~Crashed(q)
    BY <1>3 DEF Good, Buffers, Caller, Crashed
  <2>1. /\ a \in Buffers /\ Kept(q, a) /\ a.ok = q.ok /\ a.fault = q.fault /\ a.blocks = q.blocks
        /\ a.isNULL = q.isNULL /\ a.mem = q.mem /\ a.length = q.length
        /\ a.allocations = q.allocations + 1
    BY <2>0, OfAllocated
  <2>2. ASSUME NEW n \in Nat, NEW s \in Seq(Chars)
        PROVE  /\ Resize(s, n) \in Seq(Chars) /\ Len(Resize(s, n)) = n
               /\ DOMAIN Resize(s, n) = 1..n
               /\ \A i \in 1..n : i <= Len(s) => Resize(s, n)[i] = s[i]
    <3>1. "unset" \in Chars
      BY InChars DEF Own
    <3>2. DOMAIN Resize(s, n) = 1..n
      BY DEF Resize
    <3> QED BY Zenon, <3>1, <3>2, ResizeLength
  <2>w. /\ q.length = Len(q.mem) /\ q.offset < Len(q.mem) /\ q.mem[q.offset + 1] = NUL
    BY <2>0 DEF Written
  <2>3. CASE q.realloc /\ AllocationFails(q)
    <3> DEFINE l == [a EXCEPT !.isNULL = TRUE]
    <3>1. r = Fail(l)
      BY <2>0, <2>3 DEF Shrink
    <3> HIDE DEF a
    <3>2. /\ l \in Buffers /\ Kept(a, l) /\ l.fault = a.fault /\ l.allocations = a.allocations
      BY <2>1 DEF Buffers, Kept
    <3> HIDE DEF l
    <3>3. /\ r \in Buffers /\ Kept(l, r) /\ r.fault = l.fault /\ r.allocations = l.allocations
          /\ ~r.ok
      BY <3>1, <3>2, OfFail
    <3> QED BY <2>0, <2>1, <2>3, <3>2, <3>3 DEF Kept, AllocationFails
  <2>4. CASE q.realloc /\ ~AllocationFails(q)
    <3> DEFINE m == Resize(a.mem, q.length)
    <3>1. r = [a EXCEPT !.mem = m]
      BY <2>0, <2>4 DEF Shrink
    <3> HIDE DEF a
    <3>2. /\ m \in Seq(Chars) /\ DOMAIN m = 1..q.length
          /\ \A i \in 1..q.length : i <= Len(a.mem) => m[i] = a.mem[i]
      <4>1. a.mem \in Seq(Chars) /\ q.length \in Nat
        BY <2>0, <2>1
      <4> QED BY Zenon, <2>2, <4>1
    <3> HIDE DEF m
    <3>e. q.offset + 1 \in DOMAIN m /\ m[q.offset + 1] = NUL
      <4>1. q.offset + 1 \in 1..q.length
        BY <2>0, <2>w
      <4>2. q.offset + 1 <= Len(a.mem)
        BY <2>0, <2>1, <2>w
      <4>3. q.offset + 1 \in DOMAIN m /\ m[q.offset + 1] = a.mem[q.offset + 1]
        BY <3>2, <4>1, <4>2
      <4> QED BY <2>1, <2>w, <4>3
    <3>3. r \in Buffers /\ r.ok = a.ok /\ r.fault = a.fault /\ r.mem = m
      BY <2>1, <3>1, <3>2 DEF Buffers
    <3> QED BY <2>0, <2>1, <3>e, <3>3
  <2>5. CASE ~q.realloc /\ AllocationFails(q)
    <3> DEFINE f == Free(a)
               b == a.blocks - 1
    <3>1. r = Fail(f)
      BY <2>0, <2>5 DEF Shrink
    <3> HIDE DEF a
    <3>2. b = 0
      BY <2>0, <2>1
    <3>3. f = [a EXCEPT !.blocks = b]
      BY <2>0, <2>1 DEF Free, Buffers
    <3> HIDE DEF b, f
    <3>4. f \in Buffers /\ f.fault = a.fault /\ f.blocks = 0
      BY <2>1, <3>2, <3>3 DEF Buffers
    <3>5. r \in Buffers /\ r.fault = f.fault /\ r.blocks = f.blocks /\ ~r.ok
      BY <3>1, <3>4, OfFail
    <3> QED BY <2>0, <2>1, <3>4, <3>5
  <2>6. CASE ~q.realloc /\ ~AllocationFails(q)
    <3> DEFINE n == q.offset + 1
               m == Resize(a.mem, n)
    <3>1. r = [a EXCEPT !.mem = m]
      BY <2>0, <2>6 DEF Shrink
    <3>2. n \in Nat
      BY <2>0
    <3> HIDE DEF n
    <3> HIDE DEF a
    <3>3. /\ m \in Seq(Chars) /\ DOMAIN m = 1..n
          /\ \A i \in 1..n : i <= Len(a.mem) => m[i] = a.mem[i]
      <4>1. a.mem \in Seq(Chars)
        BY <2>0, <2>1
      <4> QED BY Zenon, <2>2, <3>2, <4>1
    <3> HIDE DEF m
    <3>e. q.offset + 1 \in DOMAIN m /\ m[q.offset + 1] = NUL
      <4>1. n \in 1..n /\ n <= Len(a.mem) /\ n = q.offset + 1
        BY <2>0, <2>1, <2>w DEF n
      <4>3. n \in DOMAIN m /\ m[n] = a.mem[n]
        BY <3>3, <4>1
      <4> QED BY <2>1, <2>w, <4>1, <4>3
    <3>4. r \in Buffers /\ r.ok = a.ok /\ r.fault = a.fault /\ r.mem = m
      BY <2>1, <3>1, <3>3 DEF Buffers
    <3> QED BY <2>0, <2>1, <3>e, <3>4
  <2> QED BY <2>0, <2>3, <2>4, <2>5, <2>6 DEF Buffers
<1> QED BY <1>1, <1>2, <1>3 DEF Fine

\* The public function returns.
LEMMA ReturnKeeps ==
  ASSUME PrintInv, Return
  PROVE  PrintInv'
<1>1. PICK q : q = IF call.name = "print" THEN Shrink(update_offset(p)) ELSE p
  OBVIOUS
<1>2. /\ p' = q /\ ppc' = "done" /\ open' = <<>> /\ item' = item /\ call' = call
      /\ result' = IF Crashed(q) THEN "crashed" ELSE IF q.ok THEN "text" ELSE "NULL"
  BY <1>1 DEF Return
<1>3. /\ Fine(p, call) /\ (p.ok => Written(p))
      /\ call.name \in {"print", "cJSON_PrintBuffered", "cJSON_PrintPreallocated"}
  BY DEF Return, PrintInv, InBuffer, Calling, Fine, Lost
<1>4. /\ q \in Buffers
      /\ q.fault # "write"
      /\ q.fault = "wild" => q.realloc /\ q.failAt = q.allocations /\ q.offset > 0
      /\ q.fault = "read" => ~q.realloc /\ call.name = "cJSON_PrintBuffered" /\ call.size = 0
      /\ q.fault = "none" /\ ~q.ok /\ q.blocks > 0 =>
           \/ q.realloc /\ q.failAt = q.allocations
           \/ call.name = "cJSON_PrintBuffered" /\ ~q.isNULL
      /\ q.ok /\ call.name # "print" => Len(q.mem) = q.length /\ q.offset < q.length
      /\ q.ok => \E i \in DOMAIN q.mem : q.mem[i] = NUL
  <2>1. CASE call.name = "print"
    <3>1. PICK b : b = update_offset(p)
      OBVIOUS
    <3>2. /\ Fine(b, call)
          /\ b.ok => Written(b) /\ b.offset < Len(b.mem) /\ b.mem[b.offset + 1] = NUL
      BY Zenon, <1>3, <3>1, OffsetKeeps
    <3>3. q = Shrink(b)
      BY <1>1, <2>1, <3>1
    <3>4. /\ q \in Buffers
          /\ q.fault # "write"
          /\ q.fault = "wild" => q.realloc /\ q.failAt = q.allocations /\ q.offset > 0
          /\ q.fault = "read" => ~q.realloc /\ call.name = "cJSON_PrintBuffered" /\ call.size = 0
          /\ q.fault = "none" /\ ~q.ok /\ q.blocks > 0 => q.realloc /\ q.failAt = q.allocations
          /\ q.ok => \E i \in DOMAIN q.mem : q.mem[i] = NUL
      BY Zenon, <2>1, <3>2, <3>3, ShrinkEnds
    <3> QED BY <2>1, <3>4
  <2>2. CASE call.name # "print" /\ Lost(p, call)
    BY <1>1, <1>3, <2>2 DEF Lost, Caller
  <2>3. CASE call.name # "print" /\ Good(p, call)
    <3>1. q = p /\ Written(p)
      BY <1>1, <1>3, <2>3 DEF Good
    <3>2. p \in Buffers /\ p.ok /\ p.fault = "none" /\ p.mem \in Seq(Chars) /\ p.offset \in Nat
      BY <2>3 DEF Good, Buffers
    <3>3. Len(p.mem) = p.length /\ p.offset < p.length
      <4>1. p.offset \in Nat /\ p.length \in Nat
        BY <3>2 DEF Buffers
      <4> QED BY <3>1, <4>1 DEF Written
    <3>4. \E i \in DOMAIN p.mem : p.mem[i] = NUL
      <4>1. PICK i \in (p.offset + 1)..Len(p.mem) : p.mem[i] = NUL
        BY <3>1 DEF Written
      <4>2. DOMAIN p.mem = 1..Len(p.mem) /\ Len(p.mem) \in Nat
        <5>1. ASSUME NEW S, NEW s \in Seq(S) PROVE DOMAIN s = 1..Len(s) /\ Len(s) \in Nat
          OBVIOUS
        <5> QED BY Zenon, <3>2, <5>1
      <4>3. i \in DOMAIN p.mem
        BY <3>2, <4>1, <4>2
      <4> QED BY <4>1, <4>3
    <3> QED BY <3>1, <3>2, <3>3, <3>4
  <2> QED BY <1>3, <2>1, <2>2, <2>3 DEF Fine
<1>5. InTree'
  <2>1. ASSUME NEW S PROVE <<>> \in Seq(S) /\ Len(<<>>) = 0
    OBVIOUS
  <2>2. open' \in Seq(Frames) /\ Len(open') = 0
    BY Zenon, <1>2, <2>1
  <2> QED BY <1>2, <2>2 DEF PrintInv, InTree
<1>6. InBuffer'
  BY <1>2 DEF InBuffer
<1>7. StaysInBounds' /\ NothingLeaks'
  <2>1. StaysInBounds'
    <3>1. result' = "text" => q.ok
      BY <1>2
    <3> QED BY Zenon, <1>2, <1>4, <3>1 DEF StaysInBounds
  <2>2. NothingLeaks'
    <3>1. result' = "NULL" => q.fault = "none" /\ ~q.ok
      BY <1>2 DEF Crashed
    <3> QED BY Zenon, <1>2, <1>4, <3>1 DEF NothingLeaks
  <2> QED BY <2>1, <2>2
<1>8. Calling'
  BY <1>2, <1>3, <1>4, <1>7 DEF Calling
<1> QED BY <1>2, <1>5, <1>6, <1>8 DEF PrintInv

-----------------------------------------------------------------------------
(* The theorems.                                                               *)

\* The inductive invariant holds of the printer.
THEOREM PrintInvHolds == Spec => []PrintInv
<1>1. Init => PrintInv
  BY InitKeeps
<1>2. PrintInv /\ [Next]_vars => PrintInv'
  <2> SUFFICES ASSUME PrintInv, [Next]_vars PROVE PrintInv'
    OBVIOUS
  <2>1. CASE print \/ \E size \in Sizes : cJSON_PrintBuffered(size) \/ cJSON_PrintPreallocated(size)
    BY <2>1, CallKeeps
  <2>2. CASE print_word \/ print_scalar
    BY <2>2, LeafKeeps
  <2>3. CASE OpenContainer
    BY <2>3, OpenKeeps
  <2>4. CASE Element \/ Member
    BY <2>4, LoopKeeps
  <2>5. CASE NextChild
    BY <2>5, NextChildKeeps
  <2>6. CASE CloseContainer
    BY <2>6, CloseKeeps
  <2>7. CASE Return
    BY <2>7, ReturnKeeps
  <2>8. CASE UNCHANGED vars
    BY <2>8 DEF vars, PrintInv, InTree, InBuffer, Calling, StaysInBounds, NothingLeaks
  <2> QED BY <2>1, <2>2, <2>3, <2>4, <2>5, <2>6, <2>7, <2>8 DEF Next
<1> QED BY <1>1, <1>2, PTL DEF Spec

\* The invariant implies the properties.
LEMMA InvSays ==
  ASSUME PrintInv
  PROVE  TypeOK /\ StaysInBounds /\ NothingLeaks
<1>1. CASE ppc = "idle"
  <2>1. /\ p \in Buffers /\ p.ok /\ p.fault = "none" /\ p.depth = 0
        /\ open = <<>> /\ result = "none"
    BY <1>1, EmptyIs DEF PrintInv, Calling
  <2>2. Len(open) = 0
    BY <2>1
  <2> QED BY <1>1, <2>1, <2>2 DEF TypeOK, StaysInBounds, NothingLeaks, Buffers
<1>2. CASE ppc \in {"value", "next", "return"}
  BY <1>2 DEF PrintInv, Calling, InBuffer, Good, Buffers, TypeOK, StaysInBounds, NothingLeaks
<1>3. CASE ppc = "fail"
  BY <1>3 DEF PrintInv, Calling, InBuffer, Lost, Buffers, TypeOK, StaysInBounds, NothingLeaks
<1>4. CASE ppc = "done"
  BY <1>4 DEF PrintInv, Calling, Buffers, TypeOK
<1> QED BY <1>1, <1>2, <1>3, <1>4 DEF PrintInv

\* No print function writes outside the memory of its buffer, and the text that is
\* returned ends inside it (ensure, cjson.c:337, and all that call it).
THEOREM StaysInBoundsHolds == Spec => []StaysInBounds
BY PrintInvHolds, InvSays, PTL

\* A caller that gets NULL owns no memory, but for the two ways to lose it
\* (cjson.c:390 and 1055; cjson.c:1125).
THEOREM NothingLeaksHolds == Spec => []NothingLeaks
BY PrintInvHolds, InvSays, PTL

\* The types of the printbuffer, the depth, which is the number of pending calls,
\* and the length a caller can rely on.
THEOREM TypeOKHolds == Spec => []TypeOK
BY PrintInvHolds, InvSays, PTL

=============================================================================
