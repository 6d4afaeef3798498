-------------------------- MODULE CJSONParse_proofs --------------------------
(* The parser of cjson.c stays inside its text, its recursion within           *)
(* CJSON_NESTING_LIMIT, what it puts out fits its blocks, and what it          *)
(* allocates is freed when it fails, for every text, every limit and every     *)
(* allocation that may fail.                                                   *)
EXTENDS CJSONParse, SequenceTheorems, FiniteSetTheorems, WellFoundedInduction, TLAPS

-----------------------------------------------------------------------------
(* The least and the greatest of a set, which CHOOSE needs to exist.           *)

LEMMA LeastIn ==
  ASSUME NEW S, S \subseteq Nat, S # {}
  PROVE  Least(S) \in S /\ \A y \in S : Least(S) <= y
<1> DEFINE R == {p \in Nat \X Nat : p[1] < p[2]}
<1>1. IsWellFoundedOn(R, Nat)
  BY NatLessThanWellFounded DEF OpToRel
<1> HIDE DEF R
<1>2. PICK x \in S : \A y \in S : ~ (<<y, x>> \in R)
  BY <1>1, WFMin
<1>3. \A y \in S : x <= y
  <2> SUFFICES ASSUME NEW y \in S, y < x PROVE FALSE
    OBVIOUS
  <2>1. <<y, x>> \in R
    BY DEF R
  <2> QED BY <1>2, <2>1
<1> QED BY <1>3 DEF Least

LEMMA GreatestIn ==
  ASSUME NEW n \in Nat, NEW S, S \subseteq 0..n, S # {}
  PROVE  Greatest(S) \in S /\ \A y \in S : y <= Greatest(S)
<1> DEFINE T == {n - x : x \in S}
<1>1. T \subseteq Nat /\ T # {}
  <2>1. \A x \in S : n - x \in Nat
    OBVIOUS
  <2> QED BY <2>1
<1>2. Least(T) \in T /\ \A y \in T : Least(T) <= y
  BY <1>1, LeastIn
<1>3. PICK x \in S : Least(T) = n - x
  BY <1>2
<1>4. \A y \in S : y <= x
  <2> SUFFICES ASSUME NEW y \in S PROVE y <= x
    OBVIOUS
  <2>1. n - x <= n - y
    BY <1>2, <1>3
  <2> QED BY <2>1
<1> QED BY <1>4 DEF Greatest

-----------------------------------------------------------------------------
(* Where reading gets to.                                                      *)

TextType == Len(text) \in Nat \ {0} /\ text[Len(text)] = NUL

\* Behind a character that is neither the terminator nor outside there is
\* another one.
LEMMA OneMore ==
  ASSUME TextType, NEW o \in Nat, At(o) # NUL, At(o) # "outside"
  PROVE  o + 1 < Len(text)
BY DEF TextType, At, length

LEMMA SkipsInside ==
  ASSUME TextType, NEW o \in Nat
  PROVE  buffer_skip_whitespace(o) \in 0..(Len(text) - 1)
<1>1. CASE NonBlanks(o) = {}
  BY <1>1 DEF buffer_skip_whitespace, length, TextType
<1>2. CASE NonBlanks(o) # {}
  <2>1. NonBlanks(o) \subseteq 0..(Len(text) - 1) /\ NonBlanks(o) \subseteq Nat
    BY DEF NonBlanks, length, TextType
  <2> QED BY <1>2, <2>1, LeastIn DEF buffer_skip_whitespace
<1> QED BY <1>1, <1>2

LEMMA WordInside ==
  ASSUME TextType, NEW o \in Nat, NEW word, Len(word) \in Nat \ {0},
         DOMAIN word = 1..Len(word),
         Reads(word, o), word[Len(word)] # NUL, word[Len(word)] # "outside"
  PROVE  o + Len(word) \in 0..(Len(text) - 1)
<1>1. Len(word) \in DOMAIN word /\ o + Len(word) - 1 \in Nat
  OBVIOUS
<1>2. At(o + Len(word) - 1) = word[Len(word)]
  BY <1>1 DEF Reads
<1>3. o + Len(word) < Len(text)
  BY <1>1, <1>2, OneMore
<1> QED BY <1>3 DEF TextType

LEMMA NumberInside ==
  ASSUME TextType, NEW o \in Nat
  PROVE  /\ Taken(o) \in Nat
         /\ Taken(o) # 0 => o + Taken(o) \in 0..(Len(text) - 1)
<1> DEFINE C == {k \in 0..NumberLength : \A j \in o..(o + k - 1) : At(j) \in NumberChars}
           T == {0} \cup {k \in 1..Copied(o) : IsDecimal(Slice(o, o + k))}
<1>1. NumberLength \in Nat
  BY ParseAssumption
<1>2. 0 \in C /\ C \subseteq 0..NumberLength
  BY <1>1
<1>3. Copied(o) \in C
  BY <1>1, <1>2, GreatestIn DEF Copied
<1>4. Taken(o) \in T
  <2>1. Copied(o) \in Nat /\ T \subseteq 0..Copied(o) /\ T # {}
    BY <1>3
  <2> QED BY <2>1, GreatestIn DEF Taken
<1>5. Taken(o) \in Nat /\ Taken(o) <= Copied(o)
  BY <1>3, <1>4
<1>6. ASSUME Taken(o) # 0 PROVE o + Taken(o) \in 0..(Len(text) - 1)
  <2>1. o + Taken(o) - 1 \in o..(o + Copied(o) - 1) /\ o + Taken(o) - 1 \in Nat
    BY <1>3, <1>5, <1>6
  <2>2. At(o + Taken(o) - 1) \in NumberChars
    BY <1>3, <2>1
  <2>3. NUL \notin NumberChars /\ "outside" \notin NumberChars
    BY DEF NumberChars, Digit, NUL
  <2>4. o + Taken(o) < Len(text)
    BY <2>1, <2>2, <2>3, <1>5, OneMore
  <2> QED BY <2>4, <1>5 DEF TextType
<1> QED BY <1>5, <1>6

LEMMA StringInside ==
  ASSUME TextType, offset \in Nat, HasLiteral
  PROVE  StringEnd \in 0..(Len(text) - 1)
<1> DEFINE close == Least(Closings(offset))
<1>1. Closings(offset) # {}
  BY DEF HasLiteral
<1>2. \A k \in Closings(offset) : k \in (offset + 1)..(Len(text) - 1) /\ At(k) = QUOTE
  BY DEF Closings, length
<1>3. Len(text) \in Nat
  BY DEF TextType
<1>4. Closings(offset) \subseteq Nat
  BY <1>2, <1>3
<1>5. close \in Closings(offset)
  BY <1>1, <1>4, LeastIn
<1> HIDE DEF close
<1>6. close \in Nat /\ At(close) = QUOTE
  BY <1>2, <1>4, <1>5
<1>7. close + 1 < Len(text)
  <2>1. QUOTE # NUL /\ QUOTE # "outside"
    BY DEF NUL, QUOTE
  <2> QED BY <1>6, <2>1, OneMore
<1>8. close + 1 \in 0..(Len(text) - 1)
  BY <1>3, <1>6, <1>7
<1> QED BY <1>8 DEF StringEnd, close

-----------------------------------------------------------------------------
(* The calls in progress: what their frames look like, and what they own.      *)

Fields == {"kind", "items", "name", "owned"}

Frames(s) ==
  /\ \E S : s \in Seq(S)
  /\ \A i \in 1..Len(s) : DOMAIN s[i] = Fields /\ s[i].owned \in Nat
  /\ \A i \in 2..Len(s) : s[i].kind \in {"array", "object"}

\* total[i] is what the first i calls own.
Totals(s, total, n) ==
  /\ total \in [0..Len(s) -> Nat]
  /\ total[0] = 0 /\ total[Len(s)] = n
  /\ \A i \in 1..Len(s) : total[i] = total[i - 1] + s[i].owned

\* The calls own n blocks, all of them together.
Owns(s, n) == \E total : Totals(s, total, n)

\* A change of the innermost frame that leaves its kind alone.
LEMMA TopChanges ==
  ASSUME NEW s, Frames(s), Len(s) > 0, NEW n, Owns(s, n), NEW k \in Nat, NEW g,
         DOMAIN g = Fields, g.kind = s[Len(s)].kind, g.owned = s[Len(s)].owned + k
  PROVE  LET t == [s EXCEPT ![Len(s)] = g]
         IN  Len(t) = Len(s) /\ Frames(t) /\ Owns(t, n + k) /\ n + k \in Nat
<1> DEFINE t == [s EXCEPT ![Len(s)] = g]
<1>1. PICK S : s \in Seq(S)
  BY DEF Frames
<1>2. Len(s) \in 1..Len(s) /\ Len(s) - 1 \in Nat
  BY <1>1
<1>3. t \in Seq(S \cup {g}) /\ Len(t) = Len(s)
  <2>1. s \in Seq(S \cup {g})
    BY <1>1
  <2> QED BY <1>2, <2>1
<1>4. \A i \in 1..Len(s) : t[i] = IF i = Len(s) THEN g ELSE s[i]
  BY <1>1
<1> HIDE DEF t
<1>5. Frames(t)
  <2>1. s[Len(s)].owned \in Nat
    BY <1>2 DEF Frames
  <2>2. g.owned \in Nat
    BY <2>1
  <2>3. \A i \in 1..Len(t) : DOMAIN t[i] = Fields /\ t[i].owned \in Nat
    BY <1>3, <1>4, <2>2 DEF Frames
  <2>4. \A i \in 2..Len(t) : t[i].kind \in {"array", "object"}
    BY <1>1, <1>3, <1>4 DEF Frames
  <2> QED BY <1>3, <2>3, <2>4 DEF Frames
<1>6. Owns(t, n + k) /\ n + k \in Nat
  <2>1. PICK f : Totals(s, f, n)
    BY DEF Owns
  <2> DEFINE h == [f EXCEPT ![Len(s)] = n + k]
  <2>2. n \in Nat
    BY <1>2, <2>1 DEF Totals
  <2>3. h \in [0..Len(t) -> Nat] /\ h[0] = 0 /\ h[Len(t)] = n + k
    BY <1>1, <1>2, <1>3, <2>1, <2>2 DEF Totals
  <2>4. \A i \in 1..Len(t) : h[i] = h[i - 1] + t[i].owned
    <3> TAKE i \in 1..Len(t)
    <3>1. i \in 1..Len(s) /\ i - 1 \in 0..Len(s) /\ i - 1 # Len(s)
      BY <1>1, <1>3
    <3>2. f[i] = f[i - 1] + s[i].owned /\ h[i - 1] = f[i - 1]
      BY <2>1, <3>1 DEF Totals
    <3>3. CASE i = Len(s)
      <4>1. h[i] = n + k /\ t[i].owned = s[i].owned + k
        BY <1>4, <2>1, <3>1, <3>3 DEF Totals
      <4>2. s[i].owned \in Nat /\ f[i - 1] \in Nat
        BY <2>1, <3>1 DEF Frames, Totals
      <4>3. n = f[i - 1] + s[i].owned
        BY <2>1, <3>2, <3>3 DEF Totals
      <4> HIDE DEF h
      <4>4. n + k = f[i - 1] + (s[i].owned + k)
        BY <4>2, <4>3
      <4> QED BY <3>2, <4>1, <4>4
    <3>4. CASE i # Len(s)
      BY <1>4, <2>1, <3>1, <3>2, <3>4 DEF Totals
    <3> QED BY <3>3, <3>4
  <2>5. Totals(t, h, n + k)
    BY <2>3, <2>4 DEF Totals
  <2> QED BY <2>2, <2>5 DEF Owns
<1> QED BY <1>3, <1>5, <1>6 DEF t

\* A call that owns nothing yet.
LEMMA CallBegins ==
  ASSUME NEW s, Frames(s), NEW n, Owns(s, n), NEW g, DOMAIN g = Fields, g.owned = 0,
         Len(s) > 0 => g.kind \in {"array", "object"}
  PROVE  /\ Len(Append(s, g)) = Len(s) + 1
         /\ Frames(Append(s, g)) /\ Owns(Append(s, g), n)
<1> DEFINE t == Append(s, g)
<1>1. PICK S : s \in Seq(S)
  BY DEF Frames
<1>2. /\ t \in Seq(S \cup {g}) /\ Len(t) = Len(s) + 1 /\ t[Len(s) + 1] = g
      /\ \A i \in 1..Len(s) : t[i] = s[i]
  <2>1. s \in Seq(S \cup {g})
    BY <1>1
  <2> QED BY <2>1
<1>3. Len(s) \in Nat
  BY <1>1
<1> HIDE DEF t
<1>4. Frames(t)
  <2>1. \A i \in 1..Len(t) : DOMAIN t[i] = Fields /\ t[i].owned \in Nat
    BY <1>2, <1>3 DEF Frames
  <2>2. \A i \in 2..Len(t) : t[i].kind \in {"array", "object"}
    BY <1>2, <1>3 DEF Frames
  <2> QED BY <1>2, <2>1, <2>2 DEF Frames
<1>5. Owns(t, n)
  <2>1. PICK f : Totals(s, f, n)
    BY DEF Owns
  <2> DEFINE h == [i \in 0..Len(t) |-> IF i = Len(t) THEN n ELSE f[i]]
  <2>2. n \in Nat
    BY <1>3, <2>1 DEF Totals
  <2>3. h \in [0..Len(t) -> Nat] /\ h[0] = 0 /\ h[Len(t)] = n
    BY <1>2, <1>3, <2>1, <2>2 DEF Totals
  <2>4. \A i \in 1..Len(t) : h[i] = h[i - 1] + t[i].owned
    <3> TAKE i \in 1..Len(t)
    <3>1. i - 1 \in 0..Len(s) /\ h[i - 1] = f[i - 1]
      BY <1>2, <1>3
    <3>2. CASE i = Len(t)
      <4>1. h[i] = n /\ f[i - 1] = n /\ t[i].owned = 0
        BY <1>2, <1>3, <2>1, <3>2 DEF Totals
      <4> QED BY <2>2, <3>1, <4>1
    <3>3. CASE i # Len(t)
      BY <1>2, <1>3, <2>1, <3>1, <3>3 DEF Totals
    <3> QED BY <3>2, <3>3
  <2>5. Totals(t, h, n)
    BY <2>3, <2>4 DEF Totals
  <2> QED BY <2>5 DEF Owns
<1> QED BY <1>2, <1>4, <1>5 DEF t

LEMMA CallEnds ==
  ASSUME NEW s, Frames(s), Len(s) > 0, NEW n, Owns(s, n)
  PROVE  LET t == SubSeq(s, 1, Len(s) - 1)
         IN  /\ Len(t) = Len(s) - 1 /\ Frames(t) /\ Owns(t, n - s[Len(s)].owned)
             /\ n - s[Len(s)].owned \in Nat
<1> DEFINE t == SubSeq(s, 1, Len(s) - 1)
           m == n - s[Len(s)].owned
<1>1. PICK S : s \in Seq(S)
  BY DEF Frames
<1>2. Len(s) - 1 \in Nat /\ Len(s) \in 1..Len(s)
  BY <1>1
<1>3. /\ t \in Seq(S) /\ Len(t) = Len(s) - 1
      /\ \A i \in 1..(Len(s) - 1) : t[i] = s[i]
  <2> DEFINE k == Len(s) - 1
  <2>1. k \in Nat /\ \A i \in 1..k : s[i] \in S
    BY <1>1, <1>2
  <2> HIDE DEF k
  <2>2. /\ SubSeq(s, 1, k) \in Seq(S)
        /\ Len(SubSeq(s, 1, k)) = IF 1 <= k THEN k - 1 + 1 ELSE 0
        /\ \A i \in 1..(k - 1 + 1) : SubSeq(s, 1, k)[i] = s[1 + i - 1]
    BY <2>1, SubSeqProperties
  <2>3. Len(SubSeq(s, 1, k)) = k /\ \A i \in 1..k : SubSeq(s, 1, k)[i] = s[i]
    BY <2>1, <2>2
  <2> QED BY <2>2, <2>3 DEF k
<1> HIDE DEF t
<1>4. Frames(t)
  BY <1>2, <1>3 DEF Frames
<1>5. Owns(t, m) /\ m \in Nat
  <2>1. PICK f : Totals(s, f, n)
    BY DEF Owns
  <2> DEFINE h == [i \in 0..Len(t) |-> f[i]]
  <2>2. f[Len(s)] = f[Len(s) - 1] + s[Len(s)].owned /\ f[Len(s) - 1] \in Nat
    BY <1>2, <2>1 DEF Totals
  <2>3. s[Len(s)].owned \in Nat /\ f[Len(s)] = n
    BY <1>2, <2>1 DEF Frames, Totals
  <2>4. m = f[Len(s) - 1] /\ m \in Nat
    BY <2>2, <2>3
  <2>5. h \in [0..Len(t) -> Nat] /\ h[0] = 0 /\ h[Len(t)] = m
    BY <1>2, <1>3, <2>1, <2>4 DEF Totals
  <2>6. \A i \in 1..Len(t) : h[i] = h[i - 1] + t[i].owned
    BY <1>2, <1>3, <2>1 DEF Totals
  <2>7. Totals(t, h, m)
    BY <2>5, <2>6 DEF Totals
  <2> QED BY <2>4, <2>7 DEF Owns
<1> QED BY <1>3, <1>4, <1>5 DEF t

-----------------------------------------------------------------------------
(* The inductive invariant: a call that reads is inside the text and as deep   *)
(* as `depth` says, and all the memory in use is owned by a call in progress.  *)

Control ==
  /\ TextType
  /\ strict \in BOOLEAN /\ failAt \in Nat /\ allocations \in Nat
  /\ depth \in Nat /\ live \in Nat
  /\ pc \in {"idle", "call", "name", "return", "fail", "done"}
  /\ pc = "idle" => depth = 0
  /\ pc = "return" => value # NULL
  /\ pc \in {"call", "name", "return"} => offset \in 0..(Len(text) - 1)

Calls ==
  /\ Frames(stack) /\ Len(stack) <= NestingLimit + 1
  /\ stack = <<>> <=> pc \in {"idle", "done"}
  /\ pc \in {"call", "name", "return"} => depth = Len(stack) - 1

Memory == IF pc = "done" THEN value = NULL => live = 0 ELSE Owns(stack, live)

Inv == Control /\ Calls /\ Memory

LEMMA NoCalls == Frames(<<>>) /\ Owns(<<>>, 0)
<1> DEFINE f == [i \in 0..0 |-> 0]
<1>1. Totals(<<>>, f, 0)
  BY DEF Totals
<1>2. Frames(<<>>)
  <2>1. <<>> \in Seq({}) /\ Len(<<>>) = 0
    OBVIOUS
  <2> QED BY <2>1 DEF Frames
<1> QED BY <1>1, <1>2 DEF Owns

LEMMA NothingOwned ==
  ASSUME NEW s, NEW n, Owns(s, n), Len(s) = 0
  PROVE  n = 0
BY DEF Owns, Totals

LEMMA EmptyStack ==
  ASSUME NEW s, Frames(s)
  PROVE  Len(s) \in Nat /\ (s = <<>> <=> Len(s) = 0)
BY DEF Frames

LEMMA InvInit == Init => Inv
<1> SUFFICES ASSUME Init PROVE Inv
  OBVIOUS
<1>1. TextType
  <2>1. PICK t \in Texts : text = Append(t, NUL)
    BY DEF Init
  <2>2. t \in Seq(STRING)
    BY ParseAssumption
  <2>3. t \in Seq(STRING \cup {NUL})
    BY <2>2
  <2>4. Len(text) = Len(t) + 1 /\ text[Len(t) + 1] = NUL
    BY <2>1, <2>3, AppendProperties
  <2>5. Len(t) \in Nat
    BY <2>2
  <2> QED BY <2>4, <2>5 DEF TextType
<1>2. Control
  BY <1>1, ParseAssumption DEF Init, Idle, Control
<1>3. Calls
  <2>1. Len(<<>>) = 0
    OBVIOUS
  <2> QED BY <2>1, NoCalls, ParseAssumption DEF Init, Idle, Calls
<1>4. Memory
  BY NoCalls DEF Init, Idle, Memory
<1> QED BY <1>2, <1>3, <1>4 DEF Inv

-----------------------------------------------------------------------------
(* One lemma for each part of a step.                                          *)

LEMMA OwningKeeps ==
  ASSUME NEW s, Frames(s), Len(s) > 0, NEW n, Owns(s, n), NEW k \in Nat
  PROVE  /\ Len(Owning(s, k)) = Len(s) /\ Frames(Owning(s, k))
         /\ Owns(Owning(s, k), n + k) /\ n + k \in Nat
<1> DEFINE top == s[Len(s)]
           g == [top EXCEPT !.owned = top.owned + k]
<1>1. Len(s) \in 1..Len(s)
  BY DEF Frames
<1>2. DOMAIN top = Fields /\ top.owned \in Nat
  BY <1>1 DEF Frames
<1>3. DOMAIN g = Fields /\ g.kind = top.kind /\ g.owned = top.owned + k
  BY <1>2 DEF Fields
<1>4. Owning(s, k) = [s EXCEPT ![Len(s)] = g]
  BY DEF Owning
<1> DEFINE t == [s EXCEPT ![Len(s)] = g]
<1>5. Len(t) = Len(s) /\ Frames(t) /\ Owns(t, n + k) /\ n + k \in Nat
  <2> HIDE DEF g
  <2> QED BY <1>3, TopChanges
<1> QED BY <1>4, <1>5

LEMMA NewItemKeeps ==
  ASSUME TextType, allocations \in Nat, live \in Nat,
         NEW f, Frames(f), Len(f) > 0, Owns(f, live),
         NEW o \in Int, o + 1 \in Nat, NewItem(f, o)
  PROVE  /\ allocations' \in Nat /\ live' \in Nat
         /\ Frames(stack') /\ Len(stack') = Len(f) /\ Owns(stack', live')
         /\ pc' \in {"call", "name", "fail"}
         /\ pc' # "fail" => offset' \in 0..(Len(text) - 1)
<1>1. CASE NoMemory
  BY <1>1 DEF NewItem, Fails
<1>2. CASE ~NoMemory
  <2>1. stack' = Owning(f, 1) /\ live' = live + 1 /\ offset' = buffer_skip_whitespace(o + 1)
    BY <1>2 DEF NewItem
  <2>2. pc' \in {"call", "name"} /\ allocations' \in Nat
    BY <1>2 DEF NewItem
  <2>3. /\ Len(Owning(f, 1)) = Len(f) /\ Frames(Owning(f, 1))
        /\ Owns(Owning(f, 1), live + 1)
    BY OwningKeeps
  <2>4. offset' \in 0..(Len(text) - 1)
    BY <2>1, SkipsInside
  <2> QED BY <2>1, <2>2, <2>3, <2>4
<1> QED BY <1>1, <1>2

LEMMA FieldKeeps ==
  ASSUME NEW s, Frames(s), Len(s) > 0, NEW n, Owns(s, n), NEW v,
         NEW t, \/ t = [s EXCEPT ![Len(s)].name = v]
                \/ t = [s EXCEPT ![Len(s)].items = v]
  PROVE  Len(t) = Len(s) /\ Frames(t) /\ Owns(t, n)
<1> DEFINE top == s[Len(s)]
<1>1. PICK g \in {[top EXCEPT !.name = v], [top EXCEPT !.items = v]} :
        t = [s EXCEPT ![Len(s)] = g]
  OBVIOUS
<1>2. Len(s) \in 1..Len(s)
  BY DEF Frames
<1>3. DOMAIN top = Fields /\ top.owned \in Nat
  BY <1>2 DEF Frames
<1>4. DOMAIN g = Fields /\ g.kind = top.kind /\ g.owned = top.owned
  BY <1>3 DEF Fields
<1>5. g.owned = top.owned + 0 /\ n \in Nat
  <2>1. n \in Nat
    BY <1>2 DEF Owns, Totals
  <2> QED BY <1>3, <1>4, <2>1
<1>6. Len(t) = Len(s) /\ Frames(t) /\ Owns(t, n + 0)
  BY <1>1, <1>4, <1>5, TopChanges
<1> QED BY <1>5, <1>6

LEMMA StringKeeps ==
  ASSUME allocations \in Nat, live \in Nat,
         NEW f, Frames(f), Len(f) > 0, Owns(f, live), StringFound(f)
  PROVE  /\ allocations' \in Nat /\ live' \in Nat
         /\ Frames(stack') /\ Len(stack') = Len(f) /\ Owns(stack', live')
<1>1. stack' = Owning(f, 1) /\ live' = live + 1 /\ allocations' \in Nat
  BY DEF StringFound
<1> QED BY <1>1, OwningKeeps

LEMMA InCall ==
  ASSUME Inv, pc \notin {"idle", "done"}
  PROVE  /\ TextType /\ allocations \in Nat /\ live \in Nat /\ depth \in Nat
         /\ Frames(stack) /\ Len(stack) \in 1..(NestingLimit + 1) /\ Owns(stack, live)
         /\ pc # "fail" => offset \in 0..(Len(text) - 1) /\ depth = Len(stack) - 1
<1>1. Frames(stack) /\ Len(stack) <= NestingLimit + 1 /\ stack # <<>>
  BY DEF Inv, Calls
<1>2. Len(stack) \in 1..(NestingLimit + 1)
  BY <1>1, EmptyStack, ParseAssumption
<1>3. Owns(stack, live)
  BY DEF Inv, Memory
<1>4. TextType /\ allocations \in Nat /\ live \in Nat /\ depth \in Nat
  BY DEF Inv, Control
<1>5. pc # "fail" => offset \in 0..(Len(text) - 1) /\ depth = Len(stack) - 1
  BY DEF Inv, Control, Calls
<1> QED BY <1>1, <1>2, <1>3, <1>4, <1>5

LEMMA StillInCall ==
  ASSUME Inv, UNCHANGED given,
         allocations' \in Nat, live' \in Nat, depth' \in Nat,
         Frames(stack'), Len(stack') \in 1..(NestingLimit + 1), Owns(stack', live'),
         pc' \in {"call", "name", "return", "fail"},
         pc' = "return" => value' # NULL,
         pc' # "fail" => offset' \in 0..(Len(text) - 1) /\ depth' = Len(stack') - 1
  PROVE  Inv'
<1>1. Control'
  BY DEF Inv, Control, TextType, given
<1>2. Calls'
  <2>1. stack' # <<>>
    BY EmptyStack
  <2> QED BY <2>1 DEF Calls
<1>3. Memory'
  BY DEF Memory
<1> QED BY <1>1, <1>2, <1>3 DEF Inv

\* Steps that only read: the innermost call returns or fails.
LEMMA Answers ==
  ASSUME Inv, pc \notin {"idle", "done"}, UNCHANGED <<given, depth, stack, memoryVars>>,
         \/ \E o : Fails(o)
         \/ /\ pc # "fail" /\ pc' = "return" /\ value' # NULL
            /\ offset' \in 0..(Len(text) - 1)
  PROVE  Inv'
<1>1. /\ TextType /\ allocations \in Nat /\ live \in Nat /\ depth \in Nat
      /\ Frames(stack) /\ Len(stack) \in 1..(NestingLimit + 1) /\ Owns(stack, live)
      /\ pc # "fail" => offset \in 0..(Len(text) - 1) /\ depth = Len(stack) - 1
  BY InCall
<1>2. /\ allocations' \in Nat /\ live' \in Nat /\ depth' \in Nat
      /\ Frames(stack') /\ Len(stack') \in 1..(NestingLimit + 1) /\ Owns(stack', live')
      /\ pc # "fail" => depth' = Len(stack') - 1
  BY <1>1 DEF memoryVars
<1>3. /\ pc' \in {"call", "name", "return", "fail"}
      /\ pc' = "return" => value' # NULL
      /\ pc' # "fail" => offset' \in 0..(Len(text) - 1) /\ pc # "fail"
  BY DEF Fails
<1> QED BY <1>2, <1>3, StillInCall

-----------------------------------------------------------------------------
(* The steps.                                                                  *)

LEMMA StepBegins == Inv /\ cJSON_ParseWithOpts => Inv'
<1> SUFFICES ASSUME Inv, cJSON_ParseWithOpts PROVE Inv'
  OBVIOUS
<1>1. /\ TextType /\ pc = "idle" /\ depth = 0 /\ stack = <<>> /\ allocations' \in Nat
      /\ live \in Nat /\ Owns(<<>>, live) /\ strict \in BOOLEAN /\ failAt \in Nat
  BY DEF Inv, Control, Calls, Memory, cJSON_ParseWithOpts
<1>2. live = 0
  BY <1>1, NothingOwned
<1>3. CASE NoMemory
  <2>1. pc' = "done" /\ UNCHANGED <<text, strict, failAt, stack, live, depth>>
    BY <1>3 DEF cJSON_ParseWithOpts, given
  <2>2. Control' /\ Memory'
    BY <1>1, <1>2, <2>1 DEF Control, Memory, TextType
  <2>3. Calls'
    BY <1>1, <2>1 DEF Inv, Calls
  <2> QED BY <2>2, <2>3 DEF Inv
<1>4. CASE ~NoMemory
  <2> DEFINE g == [Frame("root") EXCEPT !.owned = 1]
             b == Frame("root")
             s == Append(<<>>, b)
  <2>1. /\ stack' = <<g>> /\ live' = 1 /\ depth' = 0 /\ pc' = "call" /\ UNCHANGED given
        /\ offset' = buffer_skip_whitespace(0)
    BY <1>1, <1>2, <1>4 DEF cJSON_ParseWithOpts
  <2>2. offset' \in 0..(Len(text) - 1)
    BY <1>1, <2>1, SkipsInside
  <2>3. DOMAIN b = Fields /\ b.owned = 0
    BY DEF Frame, Fields
  <2>4. Len(s) = 1 /\ Frames(s) /\ Owns(s, 0)
    <3> DEFINE e == <<>>
    <3>1. Frames(e) /\ Owns(e, 0) /\ Len(e) = 0
      BY NoCalls
    <3> HIDE DEF b, e
    <3>2. /\ Len(Append(e, b)) = Len(e) + 1
          /\ Frames(Append(e, b)) /\ Owns(Append(e, b), 0)
      <4>1. Len(e) > 0 => b.kind \in {"array", "object"}
        BY <3>1
      <4> QED BY <2>3, <3>1, <4>1, CallBegins
    <3>3. Len(e) + 1 = 1
      BY <3>1
    <3> QED BY <3>2, <3>3 DEF e
  <2>5. Len(Owning(s, 1)) = 1 /\ Frames(Owning(s, 1)) /\ Owns(Owning(s, 1), 1)
    <3> HIDE DEF s
    <3>1. Len(Owning(s, 1)) = 1 /\ Frames(Owning(s, 1)) /\ Owns(Owning(s, 1), 0 + 1)
      BY <2>4, OwningKeeps
    <3> QED BY <3>1
  <2>6. Owning(s, 1) = <<g>>
    <3>1. s = <<b>> /\ Len(<<b>>) = 1 /\ <<b>>[1].owned = 0
      BY <2>3
    <3>2. g = [b EXCEPT !.owned = 1]
      OBVIOUS
    <3> QED BY <2>3, <3>1, <3>2 DEF Owning, Fields
  <2> HIDE DEF g, s, b
  <2>7. Frames(stack') /\ Len(stack') \in 1..(NestingLimit + 1) /\ Owns(stack', live')
    BY <2>1, <2>5, <2>6, ParseAssumption
  <2> QED BY <1>1, <2>1, <2>2, <2>5, <2>6, <2>7, StillInCall
<1> QED BY <1>3, <1>4

LEMMA StepWord ==
  ASSUME Inv, NEW word, NEW type, type # "NULL", ParseWord(word, type),
         Len(word) \in Nat \ {0}, DOMAIN word = 1..Len(word),
         word[Len(word)] # NUL, word[Len(word)] # "outside"
  PROVE  Inv'
<1>1. /\ pc = "call" /\ Reads(word, offset) /\ UNCHANGED <<given, depth, stack, memoryVars>>
      /\ pc' = "return" /\ value' = [type |-> type] /\ offset' = offset + Len(word)
  BY DEF ParseWord, Returns
<1>2. TextType /\ offset \in Nat
  BY <1>1, InCall
<1>3. offset' \in 0..(Len(text) - 1)
  BY <1>1, <1>2, WordInside
<1>4. value' # NULL
  BY <1>1 DEF NULL
<1> QED BY <1>1, <1>3, <1>4, Answers

LEMMA StepWords ==
  /\ Inv /\ ParseWord(<<"n", "u", "l", "l">>, "null") => Inv'
  /\ Inv /\ ParseWord(<<"t", "r", "u", "e">>, "true") => Inv'
  /\ Inv /\ ParseWord(<<"f", "a", "l", "s", "e">>, "false") => Inv'
<1>1. Inv /\ ParseWord(<<"n", "u", "l", "l">>, "null") => Inv'
  <2> DEFINE w == <<"n", "u", "l", "l">>
  <2>1. /\ Len(w) \in Nat \ {0} /\ DOMAIN w = 1..Len(w)
        /\ w[Len(w)] # NUL /\ w[Len(w)] # "outside"
    BY DEF NUL
  <2> HIDE DEF w
  <2>2. Inv /\ ParseWord(w, "null") => Inv'
    BY <2>1, StepWord
  <2> QED BY <2>2 DEF w
<1>2. Inv /\ ParseWord(<<"t", "r", "u", "e">>, "true") => Inv'
  <2> DEFINE w == <<"t", "r", "u", "e">>
  <2>1. /\ Len(w) \in Nat \ {0} /\ DOMAIN w = 1..Len(w)
        /\ w[Len(w)] # NUL /\ w[Len(w)] # "outside"
    BY DEF NUL
  <2> HIDE DEF w
  <2>2. Inv /\ ParseWord(w, "true") => Inv'
    BY <2>1, StepWord
  <2> QED BY <2>2 DEF w
<1>3. Inv /\ ParseWord(<<"f", "a", "l", "s", "e">>, "false") => Inv'
  <2> DEFINE w == <<"f", "a", "l", "s", "e">>
  <2>1. /\ Len(w) \in Nat \ {0} /\ DOMAIN w = 1..Len(w)
        /\ w[Len(w)] # NUL /\ w[Len(w)] # "outside"
    BY DEF NUL
  <2> HIDE DEF w
  <2>2. Inv /\ ParseWord(w, "false") => Inv'
    BY <2>1, StepWord
  <2> QED BY <2>2 DEF w
<1> QED BY <1>1, <1>2, <1>3

LEMMA StepNumber == Inv /\ parse_number => Inv'
<1> SUFFICES ASSUME Inv, parse_number PROVE Inv'
  OBVIOUS
<1>1. pc = "call" /\ UNCHANGED <<given, depth, stack, memoryVars>>
  BY DEF parse_number
<1>2. TextType /\ offset \in Nat
  BY <1>1, InCall
<1>3. Taken(offset) \in Nat /\ (Taken(offset) # 0 => offset + Taken(offset) \in 0..(Len(text) - 1))
  BY <1>2, NumberInside
<1>4. CASE offset + Taken(offset) = offset
  <2>1. Fails(offset)
    BY <1>4 DEF parse_number
  <2> QED BY <1>1, <2>1, Answers
<1>5. CASE offset + Taken(offset) # offset
  <2>1. Returns([type |-> "number", digits |-> Slice(offset, offset + Taken(offset))],
                offset + Taken(offset))
    BY <1>5 DEF parse_number
  <2>2. pc' = "return" /\ value' # NULL
    BY <2>1 DEF Returns, NULL
  <2>3. offset' \in 0..(Len(text) - 1)
    BY <1>2, <1>3, <1>5, <2>1 DEF Returns
  <2> QED BY <1>1, <2>2, <2>3, Answers
<1> QED BY <1>4, <1>5

LEMMA StepString == Inv /\ parse_string => Inv'
<1> SUFFICES ASSUME Inv, parse_string PROVE Inv'
  OBVIOUS
<1>1. pc = "call" /\ UNCHANGED <<given, depth>>
  BY DEF parse_string
<1>2. /\ TextType /\ allocations \in Nat /\ live \in Nat /\ depth \in Nat
      /\ Frames(stack) /\ Len(stack) \in 1..(NestingLimit + 1) /\ Owns(stack, live)
      /\ offset \in Nat
  BY <1>1, InCall
<1>3. CASE StringFails
  <2>1. UNCHANGED <<stack, live>> /\ allocations' \in Nat /\ pc' = "fail"
    BY <1>2, <1>3 DEF StringFails, Fails
  <2>2. depth' \in Nat
    BY <1>1, <1>2
  <2> QED BY <1>1, <1>2, <2>1, <2>2, StillInCall
<1>4. CASE StringFound(stack) /\ Returns([type |-> "string", text |-> CString(Scan.out)], StringEnd)
  <2>1. /\ allocations' \in Nat /\ live' \in Nat
        /\ Frames(stack') /\ Len(stack') = Len(stack) /\ Owns(stack', live')
    BY <1>2, <1>4, StringKeeps
  <2>2. pc' = "return" /\ value' # NULL /\ offset' = StringEnd
    BY <1>4 DEF Returns, NULL
  <2>3. offset' \in 0..(Len(text) - 1)
    BY <1>2, <1>4, <2>2, StringInside DEF StringFound, StringParses
  <2>4. depth' \in Nat /\ depth' = Len(stack) - 1
    BY <1>1, <1>2, InCall
  <2> QED BY <1>1, <1>2, <2>1, <2>2, <2>3, <2>4, StillInCall
<1> QED BY <1>3, <1>4 DEF parse_string

LEMMA StepName == Inv /\ ParseName => Inv'
<1> SUFFICES ASSUME Inv, ParseName PROVE Inv'
  OBVIOUS
<1>1. pc = "name" /\ UNCHANGED <<given, depth>>
  BY DEF ParseName
<1>2. /\ TextType /\ allocations \in Nat /\ live \in Nat /\ depth \in Nat
      /\ Frames(stack) /\ Len(stack) \in 1..(NestingLimit + 1) /\ Owns(stack, live)
      /\ offset \in Nat /\ depth = Len(stack) - 1
  BY <1>1, InCall
<1>3. CASE StringFails
  <2>1. UNCHANGED <<stack, live>> /\ allocations' \in Nat /\ pc' = "fail"
    BY <1>2, <1>3 DEF StringFails, Fails
  <2>2. depth' \in Nat
    BY <1>1, <1>2
  <2> QED BY <1>1, <1>2, <2>1, <2>2, StillInCall
<1>4. CASE ~StringFails
  <2> DEFINE colon == buffer_skip_whitespace(StringEnd)
             name == CString(Scan.out)
             named == [stack EXCEPT ![Len(stack)].name = name]
  <2>1. /\ StringFound(named)
        /\ IF At(colon) # ":" THEN Fails(colon)
           ELSE pc' = "call" /\ offset' = buffer_skip_whitespace(colon + 1)
    BY <1>4 DEF ParseName
  <2>2. Len(named) = Len(stack) /\ Frames(named) /\ Owns(named, live)
    <3> HIDE DEF name
    <3>1. named = [stack EXCEPT ![Len(stack)].name = name]
      OBVIOUS
    <3>2. Len(stack) > 0
      BY <1>2
    <3> HIDE DEF named
    <3> QED BY <1>2, <3>1, <3>2, FieldKeeps
  <2> HIDE DEF named
  <2>3. /\ allocations' \in Nat /\ live' \in Nat
        /\ Frames(stack') /\ Len(stack') = Len(stack) /\ Owns(stack', live')
    BY <1>2, <2>1, <2>2, StringKeeps
  <2>4. StringEnd \in Nat
    BY <1>2, <2>1, StringInside DEF StringFound, StringParses
  <2>5. colon + 1 \in Nat
    <3>1. colon \in 0..(Len(text) - 1)
      BY <1>2, <2>4, SkipsInside
    <3> QED BY <3>1, <1>2 DEF TextType
  <2> HIDE DEF colon
  <2>6. buffer_skip_whitespace(colon + 1) \in 0..(Len(text) - 1)
    BY <1>2, <2>5, SkipsInside
  <2>7. pc' = "fail" \/ (pc' = "call" /\ offset' \in 0..(Len(text) - 1))
    BY <2>1, <2>6 DEF Fails
  <2>8. depth' \in Nat /\ depth' = Len(stack) - 1
    BY <1>1, <1>2
  <2> QED BY <1>1, <1>2, <2>3, <2>7, <2>8, StillInCall
<1> QED BY <1>3, <1>4

LEMMA CloseCharacters ==
  ASSUME NEW kind \in {"array", "object"}
  PROVE  Close[kind] # NUL /\ Close[kind] # "outside"
<1>1. CASE kind = "array"
  BY <1>1 DEF Close, NUL
<1>2. CASE kind = "object"
  BY <1>2 DEF Close, NUL
<1> QED BY <1>1, <1>2

LEMMA StepContainer == \A kind \in {"array", "object"} : Inv /\ ParseContainer(kind) => Inv'
<1> SUFFICES ASSUME NEW kind \in {"array", "object"}, Inv, ParseContainer(kind) PROVE Inv'
  OBVIOUS
<1>1. pc = "call"
  BY DEF ParseContainer, TooDeep, ParseEmpty, ParseFirst, Enters
<1>2. /\ TextType /\ allocations \in Nat /\ live \in Nat /\ depth \in Nat
      /\ Frames(stack) /\ Len(stack) \in 1..(NestingLimit + 1) /\ Owns(stack, live)
      /\ offset \in Nat /\ depth = Len(stack) - 1
  BY <1>1, InCall
<1>3. Inside \in 0..(Len(text) - 1)
  <2>1. offset + 1 \in Nat
    BY <1>2
  <2> QED BY <1>2, <2>1, SkipsInside DEF Inside
<1>4. Inside \in Nat
  BY <1>2, <1>3 DEF TextType
<1>5. CASE TooDeep(kind)
  BY <1>1, <1>5, Answers DEF TooDeep
<1>6. CASE ParseEmpty(kind)
  <2>1. /\ UNCHANGED <<given, depth, stack, memoryVars>> /\ At(Inside) = Close[kind]
        /\ Returns([type |-> kind, kids |-> <<>>], Inside + 1)
    BY <1>6 DEF ParseEmpty
  <2>2. pc' = "return" /\ value' # NULL /\ offset' = Inside + 1
    BY <2>1 DEF Returns, NULL
  <2>3. At(Inside) # NUL /\ At(Inside) # "outside"
    BY <2>1, CloseCharacters
  <2>4. Inside + 1 < Len(text)
    BY <1>2, <1>4, <2>3, OneMore
  <2>5. offset' \in 0..(Len(text) - 1)
    BY <1>2, <1>4, <2>2, <2>4 DEF TextType
  <2> QED BY <1>1, <2>1, <2>2, <2>5, Answers
<1>7. CASE ParseFirst(kind)
  <2> DEFINE f == Frame(kind)
             s == Append(stack, f)
  <2>1. /\ UNCHANGED given /\ depth < NestingLimit /\ depth' = depth + 1
        /\ NewItem(s, Inside - 1)
    BY <1>7 DEF ParseFirst, Enters
  <2>2. DOMAIN f = Fields /\ f.owned = 0 /\ f.kind = kind
    BY DEF Frame, Fields
  <2>3. Len(s) = Len(stack) + 1 /\ Frames(s) /\ Owns(s, live)
    <3> HIDE DEF f
    <3> QED BY <1>2, <2>2, CallBegins
  <2> HIDE DEF s
  <2>4. Len(s) > 0 /\ Inside - 1 \in Int /\ Inside - 1 + 1 \in Nat
    BY <1>2, <1>4, <2>3
  <2>5. /\ allocations' \in Nat /\ live' \in Nat
        /\ Frames(stack') /\ Len(stack') = Len(s) /\ Owns(stack', live')
        /\ pc' \in {"call", "name", "fail"}
        /\ pc' # "fail" => offset' \in 0..(Len(text) - 1)
    BY <1>2, <2>1, <2>3, <2>4, NewItemKeeps
  <2>6. depth' \in Nat /\ depth' = Len(s) - 1 /\ Len(s) \in 1..(NestingLimit + 1)
    BY <1>2, <2>1, <2>3, ParseAssumption
  <2> QED BY <2>1, <2>5, <2>6, StillInCall
<1> QED BY <1>5, <1>6, <1>7 DEF ParseContainer

LEMMA StepListKept == Inv /\ (BadList \/ BadValue) => Inv'
<1> SUFFICES ASSUME Inv, BadList \/ BadValue PROVE Inv'
  OBVIOUS
<1>1. CASE BadList
  <2>1. pc = "return" /\ Fails(Behind) /\ UNCHANGED <<given, depth, stack, memoryVars>>
    BY <1>1 DEF BadList
  <2> QED BY <2>1, Answers
<1>2. CASE BadValue
  <2>1. pc = "call" /\ Fails(offset) /\ UNCHANGED <<given, depth, stack, memoryVars>>
    BY <1>2 DEF BadValue
  <2> QED BY <2>1, Answers
<1> QED BY <1>1, <1>2

LEMMA BehindInside ==
  ASSUME TextType, offset \in Nat
  PROVE  Behind \in Nat /\ Behind < Len(text)
<1>1. Behind \in 0..(Len(text) - 1)
  BY SkipsInside DEF Behind
<1> QED BY <1>1 DEF TextType

LEMMA StepNextMember == Inv /\ NextMember => Inv'
<1> SUFFICES ASSUME Inv, NextMember PROVE Inv'
  OBVIOUS
<1>1. pc = "return" /\ UNCHANGED <<given, depth>>
  BY DEF NextMember
<1>2. /\ TextType /\ allocations \in Nat /\ live \in Nat /\ depth \in Nat
      /\ Frames(stack) /\ Len(stack) \in 1..(NestingLimit + 1) /\ Owns(stack, live)
      /\ offset \in Nat /\ depth = Len(stack) - 1
  BY <1>1, InCall
<1> DEFINE s == [stack EXCEPT ![Len(stack)].items = ItemsSoFar]
<1>3. NewItem(s, Behind)
  BY DEF NextMember
<1>4. s = [stack EXCEPT ![Len(stack)].items = ItemsSoFar] /\ Len(stack) > 0
  BY <1>2
<1> HIDE DEF s
<1>5. Len(s) = Len(stack) /\ Frames(s) /\ Owns(s, live)
  BY <1>2, <1>4, FieldKeeps
<1>6. Behind \in Int /\ Behind + 1 \in Nat /\ Len(s) > 0
  BY <1>2, <1>4, <1>5, BehindInside
<1>7. /\ allocations' \in Nat /\ live' \in Nat
      /\ Frames(stack') /\ Len(stack') = Len(s) /\ Owns(stack', live')
      /\ pc' \in {"call", "name", "fail"}
      /\ pc' # "fail" => offset' \in 0..(Len(text) - 1)
  BY <1>2, <1>3, <1>5, <1>6, NewItemKeeps
<1>8. depth' \in Nat /\ depth' = Len(stack) - 1
  BY <1>1, <1>2
<1> QED BY <1>1, <1>2, <1>5, <1>7, <1>8, StillInCall

\* The innermost call hands its blocks to its caller.
LEMMA StepCloseList == Inv /\ CloseList => Inv'
<1> SUFFICES ASSUME Inv, CloseList PROVE Inv'
  OBVIOUS
<1>1. /\ pc = "return" /\ UNCHANGED <<given, memoryVars>> /\ Len(stack) > 1
      /\ depth' = depth - 1 /\ stack' = Owning(Callers, Top.owned)
      /\ At(Behind) = Close[Top.kind]
      /\ Returns([type |-> Top.kind, kids |-> ItemsSoFar], Behind + 1)
  BY DEF CloseList, InList
<1>2. /\ TextType /\ allocations \in Nat /\ live \in Nat /\ depth \in Nat
      /\ Frames(stack) /\ Len(stack) \in 2..(NestingLimit + 1) /\ Owns(stack, live)
      /\ offset \in Nat /\ depth = Len(stack) - 1
  BY <1>1, InCall
<1>3. /\ Len(Callers) = Len(stack) - 1 /\ Frames(Callers)
      /\ Owns(Callers, live - Top.owned) /\ live - Top.owned \in Nat
  BY <1>1, <1>2, CallEnds DEF Callers, Top
<1>4. Top.owned \in Nat /\ Top.kind \in {"array", "object"}
  BY <1>2 DEF Frames, Top
<1>5. /\ Len(stack') = Len(Callers) /\ Frames(stack')
      /\ Owns(stack', (live - Top.owned) + Top.owned)
  <2> DEFINE s == Callers
             k == Top.owned
             n == live - k
  <2>1. /\ Frames(s) /\ Len(s) > 0 /\ Owns(s, n) /\ k \in Nat
        /\ stack' = Owning(s, k)
    BY <1>1, <1>2, <1>3, <1>4
  <2> HIDE DEF s, k, n
  <2>2. Len(stack') = Len(s) /\ Frames(stack') /\ Owns(stack', n + k)
    BY <2>1, OwningKeeps
  <2> QED BY <2>2 DEF s, k, n
<1>6. Owns(stack', live') /\ allocations' \in Nat /\ live' \in Nat
  <2>1. (live - Top.owned) + Top.owned = live
    BY <1>2, <1>4
  <2> QED BY <1>1, <1>2, <1>5, <2>1 DEF memoryVars
<1>7. pc' = "return" /\ value' # NULL /\ offset' = Behind + 1
  BY <1>1, <1>4 DEF Returns, NULL
<1>8. Behind \in Nat /\ Behind < Len(text) /\ At(Behind) # NUL /\ At(Behind) # "outside"
  BY <1>1, <1>2, <1>4, BehindInside, CloseCharacters
<1>9. offset' \in 0..(Len(text) - 1)
  BY <1>2, <1>7, <1>8, OneMore DEF TextType
<1>10. /\ Len(stack') \in 1..(NestingLimit + 1) /\ depth' \in Nat
       /\ depth' = Len(stack') - 1
  BY <1>1, <1>2, <1>3, <1>5, ParseAssumption
<1> QED BY <1>1, <1>5, <1>6, <1>7, <1>9, <1>10, StillInCall

LEMMA StepUnwind == Inv /\ Unwind => Inv'
<1> SUFFICES ASSUME Inv, Unwind PROVE Inv'
  OBVIOUS
<1>1. /\ pc = "fail" /\ pc' = "fail" /\ UNCHANGED <<given, depth, allocations>>
      /\ Len(stack) > 1 /\ live' = live - Top.owned /\ stack' = Callers
  BY DEF Unwind, InList, bufferVars
<1>2. /\ TextType /\ allocations \in Nat /\ live \in Nat /\ depth \in Nat
      /\ Frames(stack) /\ Len(stack) \in 2..(NestingLimit + 1) /\ Owns(stack, live)
  BY <1>1, InCall
<1>3. /\ Len(stack') = Len(stack) - 1 /\ Frames(stack')
      /\ Owns(stack', live') /\ live' \in Nat
  BY <1>1, <1>2, CallEnds DEF Callers, Top
<1>4. Len(stack') \in 1..(NestingLimit + 1) /\ allocations' \in Nat /\ depth' \in Nat
  BY <1>1, <1>2, <1>3, ParseAssumption
<1> QED BY <1>1, <1>3, <1>4, StillInCall

LEMMA Finished ==
  ASSUME Inv, UNCHANGED <<given, depth, allocations>>, stack' = <<>>, pc' = "done",
         live' \in Nat, value' = NULL => live' = 0
  PROVE  Inv'
<1>1. Control'
  BY DEF Inv, Control, TextType, given
<1>2. Calls'
  <2>1. Len(<<>>) = 0
    OBVIOUS
  <2> QED BY <2>1, NoCalls, ParseAssumption DEF Calls
<1>3. Memory'
  BY DEF Memory
<1> QED BY <1>1, <1>2, <1>3 DEF Inv

LEMMA StepReturnItem == Inv /\ ReturnItem => Inv'
<1> SUFFICES ASSUME Inv, ReturnItem PROVE Inv'
  OBVIOUS
<1>1. /\ pc = "return" /\ UNCHANGED <<given, depth, memoryVars>>
      /\ \/ Fails(Behind) /\ UNCHANGED stack
         \/ pc' = "done" /\ stack' = <<>> /\ UNCHANGED value
  BY DEF ReturnItem
<1>2. value # NULL /\ live \in Nat
  BY <1>1 DEF Inv, Control
<1>3. CASE Fails(Behind) /\ UNCHANGED stack
  BY <1>1, <1>3, Answers
<1>4. CASE pc' = "done" /\ stack' = <<>> /\ UNCHANGED value
  BY <1>1, <1>2, <1>4, Finished DEF memoryVars
<1> QED BY <1>1, <1>3, <1>4

\* The last call owns all there is, and it is freed.
LEMMA StepReturnNULL == Inv /\ ReturnNULL => Inv'
<1> SUFFICES ASSUME Inv, ReturnNULL PROVE Inv'
  OBVIOUS
<1>1. /\ pc = "fail" /\ UNCHANGED <<given, depth, allocations>> /\ Len(stack) <= 1
      /\ live' = live - Top.owned /\ pc' = "done" /\ stack' = <<>>
  <2>1. Len(stack) \in Nat
    BY EmptyStack DEF Inv, Calls
  <2> QED BY <2>1 DEF ReturnNULL, InList
<1>2. Frames(stack) /\ Len(stack) \in 1..(NestingLimit + 1) /\ Owns(stack, live)
  BY <1>1, InCall
<1>3. Len(stack) = 1 /\ Len(stack) > 0
  <2>1. Len(stack) \in Nat /\ Len(stack) # 0
    BY <1>2, EmptyStack, ParseAssumption
  <2>2. Len(stack) <= 1
    BY <1>1
  <2> DEFINE n == Len(stack)
  <2>3. n \in Nat /\ n # 0 /\ n <= 1
    BY <2>1, <2>2
  <2> HIDE DEF n
  <2>4. n = 1 /\ n > 0
    BY <2>3
  <2> QED BY <2>4 DEF n
<1>4. /\ Len(Callers) = Len(stack) - 1
      /\ Owns(Callers, live - Top.owned) /\ live - Top.owned \in Nat
  BY <1>2, <1>3, CallEnds DEF Callers, Top
<1>5. live - Top.owned = 0
  BY <1>3, <1>4, NothingOwned
<1> QED BY <1>1, <1>5, Finished

LEMMA InvNext == Inv /\ [Next]_vars => Inv'
<1> SUFFICES ASSUME Inv, [Next]_vars PROVE Inv'
  OBVIOUS
<1>1. CASE ParseScalar
  BY <1>1, StepWords, StepNumber, StepString, StepListKept DEF ParseScalar
<1>2. CASE \E kind \in {"array", "object"} : ParseContainer(kind)
  BY <1>2, StepContainer
<1>3. CASE UNCHANGED vars
  BY <1>3 DEF vars, bufferVars, memoryVars, Inv, Control, TextType, Calls, Memory
<1>4. CASE \/ cJSON_ParseWithOpts \/ ParseName
           \/ NextMember \/ CloseList \/ BadList \/ Unwind \/ ReturnItem \/ ReturnNULL
  BY <1>4, StepBegins, StepName, StepNextMember, StepCloseList, StepListKept, StepUnwind,
     StepReturnItem, StepReturnNULL
<1> QED BY <1>1, <1>2, <1>3, <1>4 DEF Next

-----------------------------------------------------------------------------
(* The theorems.                                                               *)

\* The invariant holds in every behaviour of the parser (parse_value and what
\* it calls, cjson.c).
THEOREM Invariance == Spec => []Inv
<1>1. Init => Inv
  BY InvInit
<1>2. Inv /\ [Next]_vars => Inv'
  BY InvNext
<1> QED BY <1>1, <1>2, PTL DEF Spec

\* The variables of the parser keep their types; in particular a parse frees no
\* block twice, since the count of blocks does not fall below zero.
THEOREM TypeCorrect == Spec => []TypeOK
<1>1. Inv => TypeOK
  <2> SUFFICES ASSUME Inv PROVE TypeOK
    OBVIOUS
  <2>1. \A i \in 2..Len(stack) : stack[i].kind \in {"array", "object"}
    BY DEF Inv, Calls, Frames
  <2> QED BY <2>1 DEF TypeOK, Inv, Control, Calls
<1> QED BY <1>1, Invariance, PTL

\* No text makes the parser read behind its terminator: the unchecked reads of
\* parse_string and parse_object (cjson.c:662, 1296) are at the offset.
THEOREM StaysInside == Spec => []InsideText
<1>1. Inv => InsideText
  BY DEF Inv, Control, InsideText, TextType
<1> QED BY <1>1, Invariance, PTL

\* The recursion of parse_value is never deeper than CJSON_NESTING_LIMIT.
THEOREM RecursionBounded == Spec => []NestingBounded
<1>1. Inv => NestingBounded
  BY DEF Inv, Calls, NestingBounded
<1> QED BY <1>1, Invariance, PTL

\* Whichever allocation fails, and whatever is wrong with the text, a parse
\* that returns NULL has freed all it allocated.
THEOREM FailureLeavesNothing == Spec => []NothingLeft
<1>1. Inv => NothingLeft
  BY DEF Inv, Memory, NothingLeft
<1> QED BY <1>1, Invariance, PTL

-----------------------------------------------------------------------------
(* What parse_string puts out fits the block it has estimated.                 *)
(*                                                                             *)
(* Literal is the fixed point of a loop that CHOOSE has to find: it exists,    *)
(* since what a turn comes to depends only on the places further on. No two    *)
(* escapes of a string are neighbours, so at most half of what a turn takes    *)
(* are escapes, and a turn puts out at most what it takes less its escapes.    *)

\* A turn of the loop of Literal at o, when g is what it comes to further on.
Turn(g, o, end) ==
  LET piece == Unescape(o, end)
      rest  == g[o + piece.taken]
  IN  IF o >= end \/ piece.taken = 0 THEN [at |-> o, out |-> <<>>]
      ELSE [at |-> rest.at, out |-> piece.out \o rest.out]
\* g is the loop from the place first on.
AgreesFrom(g, first, end) ==
  DOMAIN g = Nat /\ \A o \in Nat : o >= first => g[o] = Turn(g, o, end)

\* A turn depends on nothing but the places behind it.
LEMMA TurnReadsAhead ==
  ASSUME NEW g, NEW h, NEW end \in Nat, NEW o \in Nat, Unescape(o, end).taken \in Nat,
         \A k \in Nat : k > o => g[k] = h[k]
  PROVE  Turn(g, o, end) = Turn(h, o, end)
<1>1. CASE o >= end \/ Unescape(o, end).taken = 0
  BY <1>1 DEF Turn
<1>2. CASE ~(o >= end \/ Unescape(o, end).taken = 0)
  <2>1. o + Unescape(o, end).taken \in Nat /\ o + Unescape(o, end).taken > o
    BY <1>2
  <2> QED BY <2>1 DEF Turn
<1> QED BY <1>1, <1>2

\* If the loop existed only from some first place on, it would also exist from
\* the place before.
LEMMA LoopExists ==
  ASSUME NEW end \in Nat, \A o \in Nat : Unescape(o, end).taken \in Nat
  PROVE  \E g : AgreesFrom(g, 0, end)
<1> DEFINE Starts == {first \in Nat : \E g : AgreesFrom(g, first, end)}
<1>1. end \in Starts
  <2> DEFINE g == [o \in Nat |-> [at |-> o, out |-> <<>>]]
  <2>1. AgreesFrom(g, end, end)
    BY DEF AgreesFrom, Turn
  <2> QED BY <2>1
<1>2. Starts \subseteq Nat /\ Starts # {}
  BY <1>1
<1> DEFINE first == Least(Starts)
<1>3. first \in Starts /\ \A i \in Starts : first <= i
  BY <1>2, LeastIn
<1>4. PICK g : AgreesFrom(g, first, end)
  BY <1>3
<1>5. ASSUME first # 0 PROVE first - 1 \in Starts
  <2> DEFINE h == [g EXCEPT ![first - 1] = Turn(g, first - 1, end)]
  <2>1. first \in Nat /\ first - 1 \in Nat
    BY <1>3, <1>5
  <2> HIDE DEF first
  <2>2. DOMAIN g = Nat
    BY <1>4 DEF AgreesFrom
  <2>3. DOMAIN h = Nat /\ h[first - 1] = Turn(g, first - 1, end)
    BY <2>1, <2>2
  <2>4. \A o \in Nat : o # first - 1 => h[o] = g[o]
    BY <2>1, <2>2
  <2> HIDE DEF h
  <2>5. ASSUME NEW o \in Nat, o >= first - 1 PROVE h[o] = Turn(h, o, end)
    <3>1. \A k \in Nat : k > o => g[k] = h[k]
      BY <2>1, <2>4, <2>5
    <3>2. Turn(g, o, end) = Turn(h, o, end)
      BY <3>1, TurnReadsAhead
    <3>3. CASE o = first - 1
      BY <3>2, <3>3, <2>3
    <3>4. CASE o # first - 1
      <4>1. o >= first
        BY <2>1, <2>5, <3>4
      <4>2. g[o] = Turn(g, o, end)
        BY <1>4, <4>1 DEF AgreesFrom
      <4> QED BY <2>4, <3>2, <3>4, <4>2
    <3> QED BY <3>3, <3>4
  <2>6. AgreesFrom(h, first - 1, end)
    BY <2>3, <2>5 DEF AgreesFrom
  <2> QED BY <2>1, <2>6
<1>6. first = 0
  <2>1. first \in Nat
    BY <1>3
  <2> HIDE DEF first, Starts
  <2> QED BY <1>3, <1>5, <2>1
<1> QED BY <1>4, <1>6

\* So Literal is what the loop of parse_string computes.
LEMMA LiteralUnfolds ==
  ASSUME NEW end \in Nat, \A o \in Nat : Unescape(o, end).taken \in Nat
  PROVE  \A o \in Nat : Literal(o, end) = Turn([k \in Nat |-> Literal(k, end)], o, end)
<1> DEFINE Solves(g) == g = [o \in Nat |-> Turn(g, o, end)]
           loop == CHOOSE g : Solves(g)
<1>1. \E g : Solves(g)
  <2>1. PICK g : AgreesFrom(g, 0, end)
    BY LoopExists
  <2> DEFINE h == [o \in Nat |-> g[o]]
  <2>2. \A o \in Nat : h[o] = Turn(g, o, end)
    BY <2>1 DEF AgreesFrom
  <2>3. \A o \in Nat : Turn(h, o, end) = Turn(g, o, end)
    <3>1. \A k \in Nat : h[k] = g[k]
      OBVIOUS
    <3> HIDE DEF h
    <3> QED BY <3>1, TurnReadsAhead
  <2>4. Solves(h)
    <3>1. [o \in Nat |-> Turn(h, o, end)] = [o \in Nat |-> g[o]]
      BY <2>2, <2>3
    <3> QED BY <3>1
  <2> QED BY <2>4
<1>2. Solves(loop)
  BY <1>1
<1>3. \A o : Literal(o, end) = loop[o]
  BY DEF Literal, Turn
<1> HIDE DEF loop
<1>4. \A o \in Nat : loop[o] = Turn(loop, o, end)
  BY <1>2
<1>5. ASSUME NEW o \in Nat PROVE Turn(loop, o, end) = Turn([k \in Nat |-> Literal(k, end)], o, end)
  <2> DEFINE h == [k \in Nat |-> Literal(k, end)]
  <2>1. \A k \in Nat : h[k] = loop[k]
    BY <1>3
  <2> HIDE DEF h
  <2>2. Turn(loop, o, end) = Turn(h, o, end)
    BY <2>1, TurnReadsAhead
  <2> QED BY <2>2 DEF h
<1> QED BY <1>3, <1>4, <1>5

LEMMA OutOf ==
  ASSUME NEW at, NEW out
  PROVE  [at |-> at, out |-> out].out = out
OBVIOUS

LEMMA LiteralTurns ==
  ASSUME NEW end \in Nat, \A o \in Nat : Unescape(o, end).taken \in Nat,
         NEW o \in Nat, NEW piece, piece = Unescape(o, end)
  PROVE  /\ (o >= end \/ piece.taken = 0) => Literal(o, end).out = <<>>
         /\ ~(o >= end \/ piece.taken = 0) =>
              Literal(o, end).out = piece.out \o Literal(o + piece.taken, end).out
<1> DEFINE loop == [k \in Nat |-> Literal(k, end)]
<1>1. Literal(o, end) = Turn(loop, o, end)
  BY LiteralUnfolds
<1>2. o + piece.taken \in Nat
  OBVIOUS
<1>3. loop[o + piece.taken] = Literal(o + piece.taken, end)
  BY <1>2
<1> HIDE DEF loop
<1>4. CASE o >= end \/ piece.taken = 0
  <2>1. Literal(o, end) = [at |-> o, out |-> <<>>]
    BY <1>1, <1>4 DEF Turn
  <2>2. Literal(o, end).out = <<>>
    BY <2>1
  <2> QED BY <1>4, <2>2, Zenon
<1>5. CASE ~(o >= end \/ piece.taken = 0)
  <2>1. Literal(o, end) = [at |-> loop[o + piece.taken].at,
                           out |-> piece.out \o loop[o + piece.taken].out]
    BY <1>1, <1>5 DEF Turn
  <2> DEFINE out == piece.out \o loop[o + piece.taken].out
  <2>2. Literal(o, end).out = out
    <3> HIDE DEF out
    <3>1. Literal(o, end) = [at |-> loop[o + piece.taken].at, out |-> out]
      BY <2>1, Zenon DEF out
    <3> QED BY <3>1, OutOf
  <2>3. Literal(o, end).out = piece.out \o Literal(o + piece.taken, end).out
    BY <1>3, <2>2, Zenon
  <2> QED BY <1>5, <2>3, Zenon
<1> QED BY <1>4, <1>5

\* A sequence, of whatever.
IsSequence(s) == \E S : s \in Seq(S)

LEMMA ConcatLength ==
  ASSUME NEW s, NEW t, IsSequence(s), IsSequence(t)
  PROVE  IsSequence(s \o t) /\ Len(s \o t) = Len(s) + Len(t)
<1>1. PICK S : s \in Seq(S)
  BY DEF IsSequence
<1>2. PICK T : t \in Seq(T)
  BY DEF IsSequence
<1>3. s \in Seq(S \cup T) /\ t \in Seq(S \cup T)
  BY <1>1, <1>2
<1>4. s \o t \in Seq(S \cup T) /\ Len(s \o t) = Len(s) + Len(t)
  BY <1>3, ConcatProperties
<1> QED BY <1>4 DEF IsSequence

LEMMA Listed ==
  ASSUME NEW n \in Nat, NEW s, DOMAIN s = 1..n, s = [i \in 1..n |-> s[i]]
  PROVE  IsSequence(s) /\ Len(s) = n
<1> DEFINE S == {s[i] : i \in 1..n}
<1>1. s \in [1..n -> S]
  OBVIOUS
<1>2. s \in Seq(S)
  BY <1>1
<1>3. Len(s) = n
  BY <1>1
<1> QED BY <1>2, <1>3 DEF IsSequence

LEMMA PieceLength ==
  ASSUME NEW taken, NEW n \in Nat, NEW bytes, DOMAIN bytes = 1..n
  PROVE  /\ Piece(taken, bytes).taken = taken
         /\ IsSequence(Piece(taken, bytes).out) /\ Len(Piece(taken, bytes).out) = n
<1> DEFINE out == [i \in DOMAIN bytes |-> ByteChar[bytes[i]]]
<1>1. DOMAIN out = 1..n /\ out = [i \in 1..n |-> out[i]]
  OBVIOUS
<1>2. Piece(taken, bytes).taken = taken /\ Piece(taken, bytes).out = out
  BY DEF Piece
<1> HIDE DEF out
<1> QED BY <1>1, <1>2, Listed

\* Four bytes only for what no single literal can encode.
LEMMA EncodedLength ==
  ASSUME NEW codepoint \in Nat
  PROVE  \E n \in 1..4 : DOMAIN Encoded(codepoint) = 1..n /\ (codepoint < 65536 => n <= 3)
<1>1. CASE codepoint < 128
  <2>1. DOMAIN Encoded(codepoint) = 1..1
    BY <1>1 DEF Encoded
  <2> QED BY <2>1
<1>2. CASE ~(codepoint < 128) /\ codepoint < 2048
  <2>1. DOMAIN Encoded(codepoint) = 1..2
    BY <1>2 DEF Encoded
  <2> QED BY <2>1
<1>3. CASE ~(codepoint < 128) /\ ~(codepoint < 2048) /\ codepoint < 65536
  <2>1. DOMAIN Encoded(codepoint) = 1..3
    BY <1>3 DEF Encoded
  <2> QED BY <2>1
<1>4. CASE ~(codepoint < 128) /\ ~(codepoint < 2048) /\ ~(codepoint < 65536)
  <2>1. DOMAIN Encoded(codepoint) = 1..4
    BY <1>4 DEF Encoded
  <2> QED BY <1>4, <2>1
<1> QED BY <1>1, <1>2, <1>3, <1>4

LEMMA HexRange ==
  ASSUME NEW o \in Nat
  PROVE  parse_hex4(o) \in Nat /\ parse_hex4(o) < 65536
<1>1. ASSUME NEW c \in DOMAIN HexValue PROVE HexValue[c] \in 0..15
  <2>1. HexValue[c] \in {0, 1, 2, 3, 4, 5, 6, 7, 8, 9, 10, 11, 12, 13, 14, 15}
    BY Zenon DEF HexValue, Digit
  <2> QED BY <2>1
<1>2. CASE \A k \in 0..3 : At(o + k) \in DOMAIN HexValue
  <2> DEFINE h(k) == HexValue[At(o + k)]
  <2>1. h(0) \in 0..15 /\ h(1) \in 0..15 /\ h(2) \in 0..15 /\ h(3) \in 0..15
    <3>1. 0 \in 0..3 /\ 1 \in 0..3 /\ 2 \in 0..3 /\ 3 \in 0..3
      OBVIOUS
    <3> HIDE DEF HexValue
    <3> QED BY <1>1, <1>2, <3>1
  <2>2. o + 0 = o
    OBVIOUS
  <2>3. parse_hex4(o) = 4096 * h(0) + 256 * h(1) + 16 * h(2) + h(3)
    BY <1>2, <2>2 DEF parse_hex4
  <2>4. PICK a \in 0..15, b \in 0..15, c \in 0..15, d \in 0..15 :
          h(0) = a /\ h(1) = b /\ h(2) = c /\ h(3) = d
    BY <2>1
  <2>5. parse_hex4(o) = 4096 * a + 256 * b + 16 * c + d
    BY <2>3, <2>4
  <2>6. /\ 4096 * a + 256 * b + 16 * c + d \in Nat
        /\ 4096 * a + 256 * b + 16 * c + d < 65536
    OBVIOUS
  <2> QED BY <2>5, <2>6
<1>3. CASE ~ \A k \in 0..3 : At(o + k) \in DOMAIN HexValue
  <2>1. parse_hex4(o) = 0
    BY <1>3 DEF parse_hex4
  <2> QED BY <2>1
<1> QED BY <1>2, <1>3

\* What a turn of the loop takes and puts out.
Small(piece) ==
  /\ piece.taken \in {0, 1, 2, 6, 12}
  /\ IsSequence(piece.out) /\ Len(piece.out) \in Nat
  /\ piece.taken \in {1, 2} => Len(piece.out) = 1
  /\ piece.taken = 6 => Len(piece.out) <= 3
  /\ piece.taken = 12 => Len(piece.out) <= 4

LEMMA Singles == \A x : IsSequence(<<x>>) /\ Len(<<x>>) = 1
<1>1. \A x : <<x>> \in Seq({x}) /\ Len(<<x>>) = 1
  OBVIOUS
<1> QED BY <1>1 DEF IsSequence

LEMMA FailureSmall == Small(Failure)
<1>1. <<>> \in Seq({}) /\ Len(<<>>) = 0
  OBVIOUS
<1>2. Failure.taken = 0 /\ Failure.out = <<>>
  BY DEF Failure
<1> QED BY <1>1, <1>2 DEF Small, IsSequence

LEMMA LiteralSmall ==
  ASSUME NEW o \in Nat, NEW end \in Nat, NEW piece, piece = utf16_literal_to_utf8(o, end)
  PROVE  Small(piece) /\ piece.taken \in {0, 6, 12} /\ (piece.taken # 0 => piece.taken <= end - o)
<1> DEFINE first == parse_hex4(o + 2)
           second == parse_hex4(o + 8)
           pair == 65536 + 1024 * (first % 1024) + (second % 1024)
           whole == end - o >= 12 /\ Reads(<<"\\", "u">>, o + 6) /\ second \in LowHalf
<1>1. first \in Nat /\ first < 65536 /\ second \in Nat
  BY HexRange
<1>2. pair \in Nat
  <2> HIDE DEF first, second
  <2> QED BY <1>1
<1>3. CASE piece = Failure
  BY <1>3, FailureSmall DEF Failure
<1>4. CASE ~(end - o < 6) /\ piece = Piece(6, Encoded(first))
  <2> HIDE DEF first
  <2>1. PICK n \in 1..4 : DOMAIN Encoded(first) = 1..n /\ n <= 3
    BY <1>1, EncodedLength
  <2>2. piece.taken = 6 /\ IsSequence(piece.out) /\ Len(piece.out) = n
    BY <1>4, <2>1, PieceLength
  <2> QED BY <1>4, <2>1, <2>2 DEF Small
<1>5. CASE end - o >= 12 /\ piece = Piece(12, Encoded(pair))
  <2> HIDE DEF pair
  <2>1. PICK n \in 1..4 : DOMAIN Encoded(pair) = 1..n
    BY <1>2, EncodedLength
  <2>2. piece.taken = 12 /\ IsSequence(piece.out) /\ Len(piece.out) = n
    BY <1>5, <2>1, PieceLength
  <2> QED BY <1>5, <2>1, <2>2 DEF Small
<1>6. CASE end - o < 6 \/ first \in LowHalf
  <2>1. piece = Failure
    BY <1>6 DEF utf16_literal_to_utf8
  <2> QED BY <1>3, <2>1
<1>7. CASE ~(end - o < 6 \/ first \in LowHalf) /\ first \notin HighHalf
  <2>1. piece = Piece(6, Encoded(first))
    BY <1>7 DEF utf16_literal_to_utf8
  <2> QED BY <1>4, <1>7, <2>1
<1>8. CASE ~(end - o < 6 \/ first \in LowHalf) /\ first \in HighHalf /\ whole
  <2>1. piece = Piece(12, Encoded(pair))
    BY <1>8 DEF utf16_literal_to_utf8
  <2> QED BY <1>5, <1>8, <2>1
<1>9. CASE ~(end - o < 6 \/ first \in LowHalf) /\ first \in HighHalf /\ ~whole
  <2>1. piece = Failure
    BY <1>9 DEF utf16_literal_to_utf8
  <2> QED BY <1>3, <2>1
<1> QED BY <1>6, <1>7, <1>8, <1>9

LEMMA UnescapeSmall ==
  ASSUME NEW o \in Nat, NEW end \in Nat, NEW piece, piece = Unescape(o, end)
  PROVE  /\ Small(piece)
         /\ piece.taken = 1 => At(o) # "\\"
         /\ piece.taken \in {6, 12} => piece.taken <= end - o
<1>1. CASE At(o) # "\\"
  <2>1. piece.taken = 1 /\ piece.out = <<At(o)>>
    BY <1>1 DEF Unescape
  <2> QED BY <1>1, <2>1, Singles DEF Small
<1>2. CASE At(o) = "\\" /\ At(o + 1) = "u"
  <2>1. piece = utf16_literal_to_utf8(o, end)
    BY <1>2 DEF Unescape
  <2> QED BY <2>1, LiteralSmall
<1>3. CASE At(o) = "\\" /\ At(o + 1) # "u" /\ At(o + 1) \in DOMAIN Unescaped
  <2>1. piece.taken = 2 /\ piece.out = <<Unescaped[At(o + 1)]>>
    BY <1>3 DEF Unescape
  <2> QED BY <2>1, Singles DEF Small
<1>4. CASE At(o) = "\\" /\ At(o + 1) # "u" /\ At(o + 1) \notin DOMAIN Unescaped
  <2>1. piece = Failure
    BY <1>4 DEF Unescape
  <2>2. piece.taken = 0
    BY <2>1 DEF Failure
  <2> QED BY <2>1, <2>2, FailureSmall
<1> QED BY <1>1, <1>2, <1>3, <1>4

\* The escapes that lie in a stretch of a literal.
EscapesIn(o, a, b) == {k \in Escapes(o) : a <= k /\ k < b}

\* The character after an escape is none: an odd number of backslashes is before it.
LEMMA EscapesApart ==
  ASSUME TextType, NEW o \in Nat, At(o) = QUOTE, NEW k \in Escapes(o)
  PROVE  k \in Nat /\ k > o /\ At(k) = "\\" /\ k + 1 \notin Escapes(o)
<1> DEFINE Others(j) == {i \in o..(j - 1) : At(i) # "\\"}
<1>1. k \in Int /\ o + 1 <= k /\ At(k) = "\\" /\ Even(RunBefore(o, k))
  BY DEF Escapes
<1>2. k \in Nat /\ k > o
  BY <1>1
<1>3. SUFFICES ASSUME k + 1 \in Escapes(o) PROVE FALSE
  BY <1>1, <1>2
<1>4. Even(RunBefore(o, k + 1))
  BY <1>3 DEF Escapes
<1>5. Others(k + 1) = Others(k)
  <2>1. \A i \in Int : i \in o..(k + 1 - 1) <=> i = k \/ i \in o..(k - 1)
    BY <1>2
  <2> QED BY <1>1, <1>2, <2>1
<1>6. Greatest(Others(k)) \in Nat
  <2>1. o \in Others(k) /\ Others(k) \subseteq 0..(k - 1) /\ k - 1 \in Nat
    <3>1. o \in o..(k - 1)
      BY <1>2
    <3>2. QUOTE # "\\"
      BY DEF QUOTE
    <3> QED BY <1>2, <3>1, <3>2
  <2> HIDE DEF Others
  <2>2. Greatest(Others(k)) \in 0..(k - 1)
    BY <2>1, GreatestIn
  <2> QED BY <2>2
<1>7. \A j : RunBefore(o, j) = j - 1 - Greatest(Others(j))
  BY Zenon DEF RunBefore
<1>8. ASSUME NEW next, next = k + 1
      PROVE  RunBefore(o, next) = RunBefore(o, k) + 1 /\ RunBefore(o, k) \in Int
  <2>1. Others(next) = Others(k)
    BY <1>5, <1>8, Zenon
  <2> HIDE DEF Others
  <2>2. RunBefore(o, next) = next - 1 - Greatest(Others(k))
    BY <1>7, <2>1, Zenon
  <2>3. RunBefore(o, k) = k - 1 - Greatest(Others(k))
    BY <1>7, Zenon
  <2> QED BY <1>2, <1>6, <1>8, <2>2, <2>3
<1> HIDE DEF Others
<1> QED BY <1>1, <1>4, <1>8 DEF Even

LEMMA EscapesFinite ==
  ASSUME TextType, NEW o \in Nat, At(o) = QUOTE, NEW a \in Nat, NEW b \in Nat
  PROVE  /\ IsFiniteSet(EscapesIn(o, a, b)) /\ Cardinality(EscapesIn(o, a, b)) \in Nat
         /\ a <= b => Cardinality(EscapesIn(o, a, b)) <= b - a
<1>1. EscapesIn(o, a, b) \subseteq a..(b - 1)
  BY EscapesApart DEF EscapesIn
<1>2. IsFiniteSet(a..(b - 1)) /\ Cardinality(a..(b - 1)) = IF a > b - 1 THEN 0 ELSE b - 1 - a + 1
  BY FS_Interval
<1>3. IsFiniteSet(EscapesIn(o, a, b)) /\ Cardinality(EscapesIn(o, a, b)) <= Cardinality(a..(b - 1))
  BY <1>1, <1>2, FS_Subset
<1>4. Cardinality(EscapesIn(o, a, b)) \in Nat
  BY <1>3, FS_CardinalityType
<1> QED BY <1>2, <1>3, <1>4

LEMMA EscapesAdd ==
  ASSUME TextType, NEW o \in Nat, At(o) = QUOTE,
         NEW a \in Nat, NEW b \in Nat, NEW c \in Nat, a <= b, b <= c
  PROVE  Cardinality(EscapesIn(o, a, c))
           = Cardinality(EscapesIn(o, a, b)) + Cardinality(EscapesIn(o, b, c))
<1>1. EscapesIn(o, a, c) = EscapesIn(o, a, b) \cup EscapesIn(o, b, c)
  BY EscapesApart DEF EscapesIn
<1>2. EscapesIn(o, a, b) \cap EscapesIn(o, b, c) = {}
  BY EscapesApart DEF EscapesIn
<1>3. IsFiniteSet(EscapesIn(o, a, b)) /\ IsFiniteSet(EscapesIn(o, b, c))
  BY EscapesFinite
<1>4. /\ Cardinality(EscapesIn(o, a, b)) \in Nat /\ Cardinality(EscapesIn(o, b, c)) \in Nat
  BY EscapesFinite
<1>5. Cardinality(EscapesIn(o, a, b) \cap EscapesIn(o, b, c)) = 0
  BY <1>2, FS_EmptySet
<1>6. Cardinality(EscapesIn(o, a, b) \cup EscapesIn(o, b, c))
        = Cardinality(EscapesIn(o, a, b)) + Cardinality(EscapesIn(o, b, c))
            - Cardinality(EscapesIn(o, a, b) \cap EscapesIn(o, b, c))
  BY <1>3, FS_Union
<1> QED BY <1>1, <1>4, <1>5, <1>6

LEMMA EscapesInPair ==
  ASSUME TextType, NEW o \in Nat, At(o) = QUOTE, NEW a \in Nat
  PROVE  Cardinality(EscapesIn(o, a, a + 2)) <= 1
<1>1. \A k \in EscapesIn(o, a, a + 2) : k = a \/ k = a + 1
  BY EscapesApart DEF EscapesIn
<1>2. CASE EscapesIn(o, a, a + 2) = {}
  BY <1>2, FS_EmptySet
<1>3. CASE EscapesIn(o, a, a + 2) # {}
  <2>1. PICK k \in EscapesIn(o, a, a + 2) : TRUE
    BY <1>3
  <2>2. ASSUME NEW j \in EscapesIn(o, a, a + 2) PROVE j = k
    <3>1. j + 1 # k /\ k + 1 # j
      BY <2>1, EscapesApart DEF EscapesIn
    <3> QED BY <1>1, <2>1, <3>1
  <2>3. EscapesIn(o, a, a + 2) = {k}
    BY <2>1, <2>2
  <2>4. Cardinality({k}) = 1
    BY FS_Singleton
  <2> QED BY <2>3, <2>4
<1> QED BY <1>2, <1>3

\* At most half of a \u literal, or of a pair of them, are escapes.
LEMMA HalfEscapes ==
  ASSUME TextType, NEW o \in Nat, At(o) = QUOTE, NEW a \in Nat
  PROVE  /\ Cardinality(EscapesIn(o, a, a + 6)) <= 3
         /\ Cardinality(EscapesIn(o, a, a + 12)) <= 6
<1> DEFINE E(b, c) == Cardinality(EscapesIn(o, b, c))
<1>1. ASSUME NEW b \in Nat PROVE E(b, b + 6) <= 3 /\ E(b, b + 6) \in Nat
  <2>1. b + 2 \in Nat /\ b + 4 \in Nat /\ b + 6 \in Nat /\ b + 2 + 2 = b + 4 /\ b + 4 + 2 = b + 6
    OBVIOUS
  <2>2. E(b, b + 2) <= 1 /\ E(b + 2, b + 4) <= 1 /\ E(b + 4, b + 6) <= 1
    <3>1. \A c \in Nat : E(c, c + 2) <= 1
      BY EscapesInPair
    <3> HIDE DEF E
    <3>2. E(b, b + 2) <= 1 /\ E(b + 2, b + 2 + 2) <= 1 /\ E(b + 4, b + 4 + 2) <= 1
      BY <2>1, <3>1
    <3> QED BY <2>1, <3>2
  <2>3. /\ E(b, b + 6) = E(b, b + 4) + E(b + 4, b + 6)
        /\ E(b, b + 4) = E(b, b + 2) + E(b + 2, b + 4)
    <3>1. b <= b + 2 /\ b + 2 <= b + 4 /\ b <= b + 4 /\ b + 4 <= b + 6
      OBVIOUS
    <3>2. \A c, d \in Nat : b <= c /\ c <= d => E(b, d) = E(b, c) + E(c, d)
      BY EscapesAdd
    <3> HIDE DEF E
    <3> QED BY <2>1, <3>1, <3>2
  <2>4. E(b, b + 2) \in Nat /\ E(b + 2, b + 4) \in Nat /\ E(b + 4, b + 6) \in Nat
    <3>1. \A c, d \in Nat : E(c, d) \in Nat
      BY EscapesFinite
    <3> HIDE DEF E
    <3> QED BY <2>1, <3>1
  <2> HIDE DEF E
  <2> QED BY <2>2, <2>3, <2>4
<1>2. E(a, a + 12) = E(a, a + 6) + E(a + 6, a + 12)
  BY EscapesAdd
<1>3. a + 6 \in Nat /\ a + 6 + 6 = a + 12
  OBVIOUS
<1> HIDE DEF E
<1>4. E(a, a + 6) <= 3 /\ E(a, a + 6) \in Nat
  BY <1>1
<1>5. E(a + 6, a + 6 + 6) <= 3 /\ E(a + 6, a + 6 + 6) \in Nat
  BY <1>1, <1>3
<1>6. E(a, a + 12) <= 6
  BY <1>2, <1>3, <1>4, <1>5
<1> QED BY <1>4, <1>6 DEF E

\* A turn puts out at most what it takes less the escapes in it, and takes nothing
\* behind the string, except that a last escape may take the quote.
LEMMA PieceFits ==
  ASSUME TextType, NEW o \in Nat, At(o) = QUOTE, NEW a \in Nat, NEW end \in Nat, a < end,
         NEW piece, piece = Unescape(a, end), piece.taken # 0
  PROVE  /\ piece.taken \in {1, 2, 6, 12} /\ IsSequence(piece.out) /\ Len(piece.out) \in Nat
         /\ Len(piece.out) <= piece.taken - Cardinality(EscapesIn(o, a, a + piece.taken))
         /\ a + piece.taken <= end \/ (piece.taken = 2 /\ a + 1 = end)
<1>1. /\ Small(piece)
      /\ piece.taken = 1 => At(a) # "\\"
      /\ piece.taken \in {6, 12} => piece.taken <= end - a
  BY UnescapeSmall
<1>2. /\ piece.taken \in {1, 2, 6, 12} /\ IsSequence(piece.out) /\ Len(piece.out) \in Nat
  BY <1>1 DEF Small
<1>3. Len(piece.out) <= piece.taken - Cardinality(EscapesIn(o, a, a + piece.taken))
  <2>1. CASE piece.taken = 1
    <3>1. EscapesIn(o, a, a + 1) = {}
      BY <1>1, <2>1, EscapesApart DEF EscapesIn
    <3>2. Cardinality(EscapesIn(o, a, a + 1)) = 0
      BY <3>1, FS_EmptySet
    <3>3. Len(piece.out) = 1
      BY <1>1, <2>1 DEF Small
    <3> QED BY <2>1, <3>2, <3>3
  <2>2. CASE piece.taken = 2
    <3>1. Cardinality(EscapesIn(o, a, a + 2)) \in Nat /\ Cardinality(EscapesIn(o, a, a + 2)) <= 1
      BY EscapesInPair, EscapesFinite
    <3>3. Len(piece.out) = 1
      BY <1>1, <2>2 DEF Small
    <3> QED BY <2>2, <3>1, <3>3
  <2>3. CASE piece.taken = 6
    <3>1. Cardinality(EscapesIn(o, a, a + 6)) \in Nat /\ Cardinality(EscapesIn(o, a, a + 6)) <= 3
      BY HalfEscapes, EscapesFinite
    <3> QED BY <1>1, <2>3, <3>1 DEF Small
  <2>4. CASE piece.taken = 12
    <3>1. Cardinality(EscapesIn(o, a, a + 12)) \in Nat /\ Cardinality(EscapesIn(o, a, a + 12)) <= 6
      BY HalfEscapes, EscapesFinite
    <3> QED BY <1>1, <2>4, <3>1 DEF Small
  <2> QED BY <1>2, <2>1, <2>2, <2>3, <2>4
<1>4. a + piece.taken <= end \/ (piece.taken = 2 /\ a + 1 = end)
  BY <1>1, <1>2
<1> QED BY <1>2, <1>3, <1>4

LEMMA TurnFits ==
  ASSUME NEW a \in Nat, NEW b \in Nat, NEW end \in Nat, NEW taken \in Nat, NEW out \in Nat,
         NEW rest \in Nat, NEW first \in Nat, NEW second \in Nat, NEW all \in Nat, NEW sum,
         b = a + taken, out <= taken - first, rest <= end - b - second + 1,
         all = first + second, sum = out + rest
  PROVE  sum <= end - a - all + 1
OBVIOUS

\* What is put out from a place on, if the literal is read from there: at most a
\* character for each that is left, one less for each escape, and one that the
\* last escape may take from the quote.
LEMMA RestFits ==
  ASSUME TextType, NEW o \in Nat, At(o) = QUOTE, NEW end \in Nat
  PROVE  \A a \in Nat :
           LET rest == Literal(a, end).out
           IN  /\ IsSequence(rest) /\ Len(rest) \in Nat
               /\ a < end => Len(rest) <= end - a - Cardinality(EscapesIn(o, a, end)) + 1
               /\ a >= end => Len(rest) = 0
<1> DEFINE rest(a) == Literal(a, end).out
           Fits(a) == /\ IsSequence(rest(a)) /\ Len(rest(a)) \in Nat
                      /\ a < end => Len(rest(a)) <= end - a - Cardinality(EscapesIn(o, a, end)) + 1
                      /\ a >= end => Len(rest(a)) = 0
           Misfits == {n \in Nat : n <= end /\ ~Fits(end - n)}
<1>1. \A a \in Nat : Unescape(a, end).taken \in Nat
  <2> SUFFICES ASSUME NEW a \in Nat PROVE Unescape(a, end).taken \in Nat
    OBVIOUS
  <2>1. Small(Unescape(a, end))
    BY UnescapeSmall
  <2> QED BY <2>1 DEF Small
<1>2. ASSUME NEW a \in Nat, NEW piece, piece = Unescape(a, end)
      PROVE  /\ (a >= end \/ piece.taken = 0) => rest(a) = <<>>
             /\ ~(a >= end \/ piece.taken = 0) => rest(a) = piece.out \o rest(a + piece.taken)
  BY <1>1, LiteralTurns, <1>2
<1>3. IsSequence(<<>>) /\ Len(<<>>) = 0
  <2>1. <<>> \in Seq({}) /\ Len(<<>>) = 0
    OBVIOUS
  <2> QED BY <2>1 DEF IsSequence
<1>4. ASSUME NEW a \in Nat, a >= end PROVE Fits(a)
  <2>1. rest(a) = <<>>
    BY <1>2, <1>4
  <2> HIDE DEF rest
  <2> QED BY <1>3, <1>4, <2>1
<1>5. ASSUME NEW a \in Nat, a < end, \A b \in Nat : b > a => Fits(b) PROVE Fits(a)
  <2> DEFINE piece == Unescape(a, end)
  <2>1. /\ Cardinality(EscapesIn(o, a, end)) \in Nat
        /\ Cardinality(EscapesIn(o, a, end)) <= end - a
    <3>1. a <= end
      BY <1>5
    <3> QED BY <3>1, EscapesFinite
  <2>2. CASE piece.taken = 0
    <3>1. rest(a) = <<>>
      BY <1>2, <2>2
    <3> HIDE DEF rest
    <3> QED BY <1>3, <1>5, <2>1, <3>1
  <2>3. CASE piece.taken # 0
    <3>1. /\ piece.taken \in {1, 2, 6, 12} /\ IsSequence(piece.out) /\ Len(piece.out) \in Nat
          /\ Len(piece.out) <= piece.taken - Cardinality(EscapesIn(o, a, a + piece.taken))
          /\ a + piece.taken <= end \/ (piece.taken = 2 /\ a + 1 = end)
      BY <1>5, <2>3, PieceFits
    <3> DEFINE b == a + piece.taken
    <3>2. b \in Nat /\ b > a
      BY <3>1
    <3>3. Fits(b)
      BY <1>5, <3>2
    <3>4. rest(a) = piece.out \o rest(b)
      <4>1. ~(a >= end \/ piece.taken = 0)
        BY <1>5, <2>3
      <4> QED BY <1>2, <4>1
    <3>5. Cardinality(EscapesIn(o, a, b)) \in Nat
      BY <3>2, EscapesFinite
    <3> HIDE DEF rest
    <3>6. IsSequence(rest(a)) /\ Len(rest(a)) = Len(piece.out) + Len(rest(b))
      BY <3>1, <3>3, <3>4, ConcatLength
    <3>7. CASE b < end
      <4>1. Cardinality(EscapesIn(o, a, end)) = Cardinality(EscapesIn(o, a, b)) + Cardinality(EscapesIn(o, b, end))
        BY <3>2, <3>7, EscapesAdd
      <4>2. Cardinality(EscapesIn(o, b, end)) \in Nat
        BY <3>2, EscapesFinite
      <4>3. b = a + piece.taken
        OBVIOUS
      <4> HIDE DEF piece, b
      <4>4. Len(piece.out) <= piece.taken - Cardinality(EscapesIn(o, a, b))
        BY <3>1, <4>3
      <4>5. Len(rest(b)) <= end - b - Cardinality(EscapesIn(o, b, end)) + 1 /\ Len(rest(b)) \in Nat
        BY <3>3, <3>7
      <4>6. piece.taken \in Nat /\ Len(piece.out) \in Nat
        BY <3>1
      <4>7. Len(rest(a)) <= end - a - Cardinality(EscapesIn(o, a, end)) + 1
        <5> DEFINE first == Cardinality(EscapesIn(o, a, b))
                   second == Cardinality(EscapesIn(o, b, end))
                   all == Cardinality(EscapesIn(o, a, end))
                   out == Len(piece.out)
                   left == Len(rest(b))
                   taken == piece.taken
        <5>1. /\ first \in Nat /\ second \in Nat /\ all \in Nat /\ all = first + second
              /\ out \in Nat /\ left \in Nat /\ taken \in Nat /\ Len(rest(a)) = out + left
          BY <2>1, <3>5, <3>6, <4>1, <4>2, <4>5, <4>6, Zenon
        <5>2. b = a + taken /\ out <= taken - first /\ left <= end - b - second + 1
          BY <4>3, <4>4, <4>5, Zenon
        <5> HIDE DEF first, second, all, out, left, taken
        <5>3. Len(rest(a)) <= end - a - all + 1
          BY <3>2, <5>1, <5>2, TurnFits
        <5> QED BY <5>3 DEF all
      <4>8. Len(rest(a)) \in Nat
        BY <3>6, <4>5, <4>6
      <4> QED BY <1>5, <3>6, <4>7, <4>8
    <3>8. CASE b = end
      <4>3. b = a + piece.taken
        OBVIOUS
      <4> HIDE DEF piece, b
      <4>4. Cardinality(EscapesIn(o, a, a + piece.taken)) = Cardinality(EscapesIn(o, a, end))
        BY <3>8, <4>3
      <4>5. Len(piece.out) <= piece.taken - Cardinality(EscapesIn(o, a, end))
        BY <3>1, <4>4
      <4>6. Len(rest(b)) = 0
        BY <3>2, <3>3, <3>8
      <4>7. piece.taken \in Nat /\ Len(piece.out) \in Nat
        BY <3>1
      <4>8. Len(rest(a)) <= end - a - Cardinality(EscapesIn(o, a, end)) + 1
        <5> DEFINE all == Cardinality(EscapesIn(o, a, end))
        <5>1. all \in Nat /\ Len(piece.out) <= piece.taken - all /\ Len(rest(a)) = Len(piece.out) + 0
          BY <2>1, <3>6, <4>5, <4>6
        <5> HIDE DEF all
        <5>2. Len(rest(a)) <= end - a - all + 1
          <6> DEFINE out == Len(piece.out)
                     taken == piece.taken
          <6>1. out \in Nat /\ taken \in Nat /\ b = a + taken /\ out <= taken - all /\ Len(rest(a)) = out + 0
            BY <4>3, <4>7, <5>1, Zenon
          <6> HIDE DEF out, taken
          <6> QED BY <3>2, <3>8, <5>1, <6>1
        <5> QED BY <5>2 DEF all
      <4>9. Len(rest(a)) \in Nat
        BY <3>6, <4>6, <4>7
      <4> QED BY <1>5, <3>6, <4>8, <4>9
    <3>9. CASE b > end
      <4>1. piece.taken = 2 /\ a + 1 = end
        BY <3>1, <3>2, <3>9
      <4>2. Len(piece.out) <= 1
        <5>1. Len(piece.out) = 1
          BY <4>1, UnescapeSmall DEF Small
        <5> QED BY <5>1
      <4>3. Cardinality(EscapesIn(o, a, end)) <= 1
        BY <1>5, <2>1, <4>1
      <4> HIDE DEF piece, b
      <4> QED BY <1>5, <2>1, <3>1, <3>2, <3>3, <3>6, <3>9, <4>1, <4>2, <4>3
    <3> QED BY <3>2, <3>7, <3>8, <3>9
  <2> QED BY <2>2, <2>3
<1> HIDE DEF Fits
<1>6. Misfits = {}
  <2> SUFFICES ASSUME Misfits # {} PROVE FALSE
    OBVIOUS
  <2>1. PICK n \in Misfits : \A m \in Misfits : n <= m
    BY LeastIn
  <2>2. n \in Nat /\ n <= end /\ ~Fits(end - n) /\ end - n \in Nat
    BY <2>1
  <2>3. ASSUME NEW b \in Nat, b > end - n PROVE Fits(b)
    <3>1. CASE b >= end
      BY <1>4, <3>1
    <3>2. CASE b < end
      <4>1. end - b \in Nat /\ end - b <= end /\ ~(n <= end - b) /\ end - (end - b) = b
        BY <2>2, <2>3, <3>2
      <4> QED BY <2>1, <4>1
    <3> QED BY <3>1, <3>2
  <2>4. CASE end - n < end
    BY <1>5, <2>2, <2>3, <2>4
  <2>5. CASE end - n >= end
    BY <1>4, <2>2, <2>5
  <2> QED BY <2>2, <2>4, <2>5
<1>7. ASSUME NEW a \in Nat PROVE Fits(a)
  <2>1. CASE a >= end
    BY <1>4, <2>1
  <2>2. CASE a < end
    <3>1. end - a \in Nat /\ end - a <= end /\ end - (end - a) = a
      BY <2>2
    <3>2. end - a \notin Misfits
      BY <1>6
    <3> HIDE DEF Misfits
    <3> QED BY <3>1, <3>2 DEF Misfits
  <2> QED BY <2>1, <2>2
<1> QED BY <1>7 DEF Fits

\* The output of parse_string, with its terminator, fits the block it has
\* estimated (cjson.c:692), also when it stops at an escape it cannot read.
THEOREM OutputFitsHolds == Spec => []OutputFits
<1>1. ASSUME Inv PROVE OutputFits
  <2> DEFINE end == Least(Closings(offset))
  <2> SUFFICES ASSUME pc = "name" \/ pc = "call", HasLiteral PROVE Len(Scan.out) + 1 <= Room(offset)
    BY DEF OutputFits
  <2>1. TextType /\ offset \in Nat
    BY <1>1 DEF Inv, Control
  <2>2. At(offset) = QUOTE
    BY DEF HasLiteral
  <2>3. end \in Nat /\ offset + 1 <= end /\ At(end) = QUOTE
    <3>1. Closings(offset) # {} /\ Closings(offset) \subseteq Nat
      BY <2>1 DEF HasLiteral, Closings
    <3>2. end \in Closings(offset)
      BY <3>1, LeastIn
    <3> QED BY <2>1, <3>1, <3>2 DEF Closings
  <2>4. Escapes(offset) = EscapesIn(offset, offset + 1, end)
    <3>1. \A k \in Escapes(offset) : k <= end /\ k # end
      <4>1. QUOTE # "\\"
        BY DEF QUOTE
      <4>2. \A k \in Escapes(offset) : k \in (offset + 1)..end /\ At(k) = "\\"
        BY DEF Escapes
      <4> HIDE DEF end
      <4> QED BY <2>1, <2>3, <4>1, <4>2
    <3>2. \A k \in Escapes(offset) : k \in Nat /\ offset + 1 <= k
      BY <2>1, <2>2, EscapesApart
    <3> HIDE DEF end
    <3> QED BY <2>3, <3>1, <3>2 DEF EscapesIn
  <2> DEFINE n == Cardinality(EscapesIn(offset, offset + 1, end))
  <2>5. Room(offset) = end - offset - n + 1
    BY <2>4 DEF Room
  <2>6. Scan = Literal(offset + 1, end)
    BY DEF Scan
  <2> HIDE DEF end
  <2>7. n \in Nat /\ n <= end - (offset + 1)
    <3>1. offset + 1 \in Nat
      BY <2>1
    <3> QED BY <2>1, <2>2, <2>3, <3>1, EscapesFinite
  <2>8. /\ Len(Scan.out) \in Nat
        /\ offset + 1 < end => Len(Scan.out) <= end - (offset + 1) - n + 1
        /\ offset + 1 >= end => Len(Scan.out) = 0
    <3>1. offset + 1 \in Nat
      BY <2>1
    <3> QED BY <2>1, <2>2, <2>3, <2>6, <3>1, RestFits
  <2> HIDE DEF n
  <2> QED BY <2>1, <2>3, <2>5, <2>7, <2>8
<1> QED BY <1>1, Invariance, PTL

=============================================================================
