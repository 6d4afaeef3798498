-------------------------- MODULE ParamExchange_proofs --------------------------
(* JSON_read returns an object only for a frame that was written and read in   *)
(* full, and then the two ends take opposite roles and every setting of the    *)
(* server is the client's, to the precision of a double: proofs for any sizes  *)
(* of the length word, of the text, of a double and of a valueint, and for any *)
(* clients.                                                                    *)
EXTENDS ParamExchange, IperfTest_proofs, FiniteSetTheorems, WellFoundedInduction

\* What the writer has put on the connection, by the position it is in; a
\* connection that ended may have lost some of it.
WriterInv ==
  /\ wpc \in {"print", "failed"} => sent = 0 /\ text = 0
  /\ wpc = "word" => sent = 0
  /\ wpc = "text" => sent <= WordSize
  /\ wpc \in {"word", "text", "done"} => text > 0

\* The reader is in step with the frame unless the length word was cut short,
\* and then the connection has ended and nothing more can be read.
InStep == hsize = text /\ WordSize <= pos
CutShort == closed /\ pos = sent /\ pos < WordSize

ReaderInv ==
  /\ rpc = "word" => pos + left = WordSize
  /\ rpc = "calloc" => (InStep /\ pos = WordSize) \/ CutShort
  /\ rpc = "text" => \/ InStep /\ pos + left = WordSize + hsize
                     \/ CutShort /\ left = hsize
  /\ rpc # "returned" => result = "none"

FrameInv == TypeOK /\ WriterInv /\ ReaderInv /\ FrameOrNothing

USE SizesAssumption

LEMMA InitFrame == Init => FrameInv
<1> SUFFICES ASSUME Init PROVE FrameInv
  OBVIOUS
<1>1. /\ wpc = "print" /\ text = 0 /\ sent = 0 /\ closed = FALSE
      /\ rpc = "word" /\ pos = 0 /\ left = WordSize /\ hsize = 0 /\ result = "none"
  BY DEF Init
<1>2. WordSize \in Nat /\ MaxText \in Nat
  BY SizesAssumption DEF SizesAssumption
<1>3. TypeOK
  <2>1. closed \in BOOLEAN
    BY <1>1
  <2>2. text \in 0..MaxText /\ hsize \in 0..(MaxText + 1)
    BY <1>1, <1>2
  <2>3. left \in Nat /\ sent <= WordSize + text
    BY <1>1, <1>2
  <2> QED BY <1>1, <2>1, <2>2, <2>3 DEF TypeOK
<1>4. WriterInv
  BY <1>1 DEF WriterInv
<1>5. ReaderInv
  BY <1>1, <1>2 DEF ReaderInv
<1>6. FrameOrNothing
  BY <1>1 DEF FrameOrNothing
<1> QED BY <1>3, <1>4, <1>5, <1>6 DEF FrameInv

\* The client's steps, which write and may end the connection.
LEMMA WriterFrame ==
  ASSUME FrameInv, Write \/ Close
  PROVE  FrameInv'
<1> USE DEF FrameInv, readerVars
<1>1. CASE PrintText
  BY <1>1 DEF PrintText, TypeOK, WriterInv, ReaderInv, FrameOrNothing, InStep, CutShort
<1>2. CASE WriteWord
  BY <1>2 DEF WriteWord, TypeOK, WriterInv, ReaderInv, FrameOrNothing, InStep, CutShort
<1>3. CASE WriteText
  BY <1>3 DEF WriteText, TypeOK, WriterInv, ReaderInv, FrameOrNothing, InStep, CutShort
<1>4. CASE Close
  BY <1>4 DEF Close, TypeOK, WriterInv, ReaderInv, FrameOrNothing, InStep, CutShort
<1> QED BY <1>1, <1>2, <1>3, <1>4 DEF Write

\* The server's steps, which read.
LEMMA ReaderFrame ==
  ASSUME FrameInv, Read \/ ReadFails
  PROVE  FrameInv'
<1> USE DEF FrameInv, writerVars
<1>1. CASE ReadSome
  BY <1>1 DEF ReadSome, TypeOK, WriterInv, ReaderInv, FrameOrNothing, InStep, CutShort
<1>2. CASE TakeWord
  BY <1>2 DEF TakeWord, NreadOver, TypeOK, WriterInv, ReaderInv, FrameOrNothing,
              InStep, CutShort
<1>3. CASE Calloc
  BY <1>3 DEF Calloc, ReturnNULL, TypeOK, WriterInv, ReaderInv, FrameOrNothing,
              InStep, CutShort
<1>4. CASE TakeText
  <2>1. UNCHANGED <<closed, wpc, text, sent, pos, left, hsize>> /\ rpc' = "returned"
    BY <1>4 DEF TakeText, Parse, ReturnNULL
  <2>2. CASE result' = "NULL"
    BY <2>1, <2>2 DEF TypeOK, WriterInv, ReaderInv, FrameOrNothing
  <2>3. CASE result' = "object" /\ left = 0 /\ hsize > 0
    <3>1. pos = WordSize + text /\ hsize = text
      BY <1>4, <2>3 DEF TakeText, ReaderInv, InStep, CutShort, TypeOK
    <3>2. sent = WordSize + text /\ wpc = "done"
      BY <3>1, <2>3 DEF TypeOK, WriterInv
    <3> QED BY <2>1, <2>3, <3>1, <3>2 DEF TypeOK, WriterInv, ReaderInv, FrameOrNothing
  <2> QED BY <1>4, <2>2, <2>3 DEF TakeText, Parse, ReturnNULL
<1>5. CASE ReadFails
  BY <1>5 DEF ReadFails, ReturnNULL, TypeOK, WriterInv, ReaderInv, FrameOrNothing
<1> QED BY <1>1, <1>2, <1>3, <1>4, <1>5 DEF Read

LEMMA FrameInvariant == Spec => []FrameInv
<1>1. FrameInv /\ [Next]_vars => FrameInv'
  <2>1. ASSUME FrameInv, UNCHANGED vars
        PROVE  FrameInv'
    BY <2>1 DEF FrameInv, vars, writerVars, readerVars, TypeOK, WriterInv, ReaderInv,
                FrameOrNothing, InStep, CutShort
  <2> QED BY <2>1, WriterFrame, ReaderFrame DEF Next
<1> QED BY <1>1, InitFrame, PTL DEF Spec

\* The counters of Nread never leave the frame.
THEOREM TypeCorrect == Spec => []TypeOK
<1>1. FrameInv => TypeOK
  BY DEF FrameInv
<1> QED BY <1>1, FrameInvariant, PTL

\* An object stands for a complete frame, wherever the bytes were split and
\* wherever the connection ended.
THEOREM FrameOrNothingHolds == Spec => []FrameOrNothing
<1>1. FrameInv => FrameOrNothing
  BY DEF FrameInv
<1> QED BY <1>1, FrameInvariant, PTL

-----------------------------------------------------------------------------
(* Powers of two, by counting subsets instead of by induction.               *)

\* A set of natural numbers that is not empty has a least element.
LEMMA LeastElement ==
  ASSUME NEW T \in SUBSET Nat, T # {}
  PROVE  \E m \in T : \A i \in T : m <= i
<1>1. PICK m \in T : \A i \in T : <<i, m>> \notin OpToRel(<, Nat)
  BY NatLessThanWellFounded, WFMin
<1>2. m \in Nat /\ \A i \in T : i \in Nat
  OBVIOUS
<1>3. \A i \in T : ~(i < m)
  BY <1>1, <1>2 DEF OpToRel
<1> QED BY <1>2, <1>3

\* A power of two is the number of subsets of so many numbers.
LEMMA PowerCounts ==
  ASSUME NEW k \in Nat
  PROVE  IsFiniteSet(SUBSET (1..k)) /\ Cardinality(SUBSET (1..k)) = 2^k /\ 2^k \in Nat
<1>1. IsFiniteSet(1..k) /\ Cardinality(1..k) = k
  BY FS_Interval
<1>2. IsFiniteSet(SUBSET (1..k)) /\ Cardinality(SUBSET (1..k)) = 2^Cardinality(1..k)
  BY <1>1, FS_SUBSET
<1>3. Cardinality(SUBSET (1..k)) \in Nat
  BY <1>2, FS_CardinalityType
<1> QED BY <1>1, <1>2, <1>3

\* With one number more there are twice as many: each subset without it, and
\* each with it.
LEMMA PowerDoubles ==
  ASSUME NEW k \in Nat
  PROVE  2^(k + 1) = 2 * 2^k
<1> DEFINE S == SUBSET (1..k)
           W == {B \cup {k + 1} : B \in S}
           f == [B \in S |-> B \cup {k + 1}]
<1>1. k + 1 \in Nat /\ 1..(k + 1) = (1..k) \cup {k + 1} /\ k + 1 \notin 1..k
  OBVIOUS
<1>2. SUBSET (1..(k + 1)) = S \cup W
  <2>1. ASSUME NEW A \in SUBSET (1..(k + 1)) PROVE A \in S \cup W
    <3>1. CASE k + 1 \in A
      <4>1. A \ {k + 1} \in S /\ A = (A \ {k + 1}) \cup {k + 1}
        BY <1>1, <3>1
      <4> QED BY <4>1
    <3>2. CASE k + 1 \notin A
      BY <1>1, <3>2
    <3> QED BY <3>1, <3>2
  <2>2. ASSUME NEW A \in S \cup W PROVE A \in SUBSET (1..(k + 1))
    BY <1>1
  <2> QED BY <2>1, <2>2
<1>3. S \cap W = {}
  BY <1>1
<1>4. ExistsBijection(S, W)
  <2>1. f \in [S -> W] /\ \A A \in W : \E B \in S : f[B] = A
    OBVIOUS
  <2>2. ASSUME NEW A \in S, NEW B \in S, f[A] = f[B] PROVE A = B
    <3>1. A = (A \cup {k + 1}) \ {k + 1} /\ B = (B \cup {k + 1}) \ {k + 1}
      BY <1>1
    <3> QED BY <2>2, <3>1
  <2> HIDE DEF S, W, f
  <2>3. f \in Bijection(S, W)
    BY <2>1, <2>2 DEF Bijection, Injection, Surjection, IsInjective
  <2> QED BY <2>3 DEF ExistsBijection
<1>5. IsFiniteSet(S) /\ Cardinality(S) = 2^k /\ 2^k \in Nat
  BY PowerCounts
<1>6. Cardinality(SUBSET (1..(k + 1))) = 2^(k + 1)
  BY <1>1, PowerCounts
<1> HIDE DEF S, W
<1>7. IsFiniteSet(W) /\ Cardinality(W) = Cardinality(S)
  BY <1>4, <1>5, FS_Bijection
<1>8. Cardinality(S \cup W) = Cardinality(S) + Cardinality(W) - Cardinality(S \cap W)
  BY <1>5, <1>7, FS_Union
<1>9. Cardinality(S \cap W) = 0
  BY <1>3, FS_EmptySet
<1>10. Cardinality(S \cup W) = 2 * 2^k
  BY <1>5, <1>7, <1>8, <1>9
<1> QED BY <1>2, <1>6, <1>10, Zenon

\* The powers multiply as their exponents add.
LEMMA PowerSum ==
  ASSUME NEW a \in Nat, NEW b \in Nat
  PROVE  2^(a + b) = 2^a * 2^b
<1> DEFINE Bad == {d \in Nat : 2^(a + d) # 2^a * 2^d}
<1> SUFFICES ASSUME Bad # {} PROVE FALSE
  OBVIOUS
<1>1. PICK d \in Bad : \A c \in Bad : d <= c
  <2> HIDE DEF Bad
  <2>1. Bad \in SUBSET Nat
    BY DEF Bad
  <2> QED BY <2>1, LeastElement
<1>2. d # 0
  <2> SUFFICES ASSUME d = 0 PROVE 2^(a + d) = 2^a * 2^d
    OBVIOUS
  <2>1. 2^0 = 1 /\ a + 0 = a
    OBVIOUS
  <2>2. 2^(a + d) = 2^a /\ 2^d = 1
    BY <2>1, Zenon
  <2>3. 2^a * 1 = 2^a
    BY PowerCounts
  <2> QED BY <2>2, <2>3, Zenon
<1>3. PICK c \in Nat : d = c + 1
  <2>1. d - 1 \in Nat /\ d = (d - 1) + 1
    BY <1>2
  <2> QED BY <2>1
<1>4. 2^(a + c) = 2^a * 2^c
  <2>1. ~(d <= c)
    BY <1>3
  <2> QED BY <1>1, <2>1
<1>5. a + d = (a + c) + 1 /\ a + c \in Nat
  BY <1>3
<1>6. 2^(a + d) = 2 * 2^(a + c) /\ 2^d = 2 * 2^c
  BY <1>3, <1>5, PowerDoubles
<1>7. 2^(a + d) # 2^a * 2^d
  OBVIOUS
<1>8. PICK x \in Nat, y \in Nat : x = 2^a /\ y = 2^c
  BY PowerCounts
<1>9. 2 * (x * y) = x * (2 * y)
  OBVIOUS
<1> QED BY <1>4, <1>6, <1>7, <1>8, <1>9

\* They are positive, and grow with the exponent.
LEMMA PowerGrows ==
  ASSUME NEW a \in Nat, NEW b \in Nat, a <= b
  PROVE  /\ 2^a \in Nat /\ 2^b \in Nat /\ 1 <= 2^a /\ 2^a <= 2^b
<1>1. ASSUME NEW k \in Nat PROVE 2^k \in Nat /\ 1 <= 2^k
  <2>1. {} \in SUBSET (1..k) /\ IsFiniteSet(SUBSET (1..k)) /\ Cardinality(SUBSET (1..k)) = 2^k
    BY PowerCounts
  <2>2. Cardinality(SUBSET (1..k)) # 0
    BY <2>1, FS_EmptySet
  <2> QED BY <2>1, <2>2, PowerCounts
<1>2. b - a \in Nat /\ b = a + (b - a)
  OBVIOUS
<1>3. 2^b = 2^a * 2^(b - a)
  BY <1>2, PowerSum
<1>4. PICK x \in Nat, y \in Nat : x = 2^a /\ y = 2^(b - a) /\ 1 <= x /\ 1 <= y
  BY <1>1, <1>2
<1>5. x <= x * y
  BY <1>4
<1> QED BY <1>1, <1>3, <1>4, <1>5

-----------------------------------------------------------------------------
(* How a number arrives that travels as a double.                            *)

USE BitsAssumption DEF BitsAssumption

\* ToDouble finds how far an integer exceeds the significand: k bits.
Exceeds(n, k) ==
  /\ k \in 0..(ValueBits + 1)
  /\ n < 2^(DoubleBits + k)
  /\ k = 0 \/ n >= 2^(DoubleBits + k - 1)

\* There is such a k for every value of a setting.
LEMMA ExceedsExists ==
  ASSUME NEW n \in SettingValues
  PROVE  n \in Int /\ n < 2^(ValueBits + 1) /\ \E k : Exceeds(n, k)
<1> DEFINE T == {i \in Nat : n < 2^(DoubleBits + i)}
           top == ValueBits + 1
<1>1. top \in Nat /\ DoubleBits \in Nat /\ DoubleBits + top \in Nat /\ top <= DoubleBits + top
  OBVIOUS
<1>2. \A i \in Nat : DoubleBits + i \in Nat /\ 2^(DoubleBits + i) \in Nat
  BY PowerGrows
<1>3. /\ 2^top \in Nat /\ 2^DoubleBits \in Nat /\ 2^top <= 2^(DoubleBits + top)
  BY <1>1, PowerGrows
<1>4. n \in Int /\ n < 2^top
  BY <1>3 DEF SettingValues
<1>5. top \in T
  BY <1>1, <1>2, <1>3, <1>4
<1>6. PICK k \in T : \A i \in T : k <= i
  <2> HIDE DEF top
  <2>1. T \in SUBSET Nat /\ T # {}
    BY <1>5
  <2> HIDE DEF T
  <2> QED BY <2>1, LeastElement
<1>7. k \in 0..top /\ n < 2^(DoubleBits + k)
  BY <1>1, <1>5, <1>6
<1>8. ASSUME k # 0 PROVE n >= 2^(DoubleBits + k - 1)
  <2>1. k - 1 \in Nat /\ DoubleBits + (k - 1) = DoubleBits + k - 1 /\ ~(k <= k - 1)
    BY <1>1, <1>7, <1>8
  <2>2. k - 1 \notin T
    BY <1>6, <2>1
  <2>3. ~(n < 2^(DoubleBits + (k - 1)))
    BY <2>1, <2>2
  <2> QED BY <1>2, <1>4, <2>1, <2>3
<1> QED BY <1>4, <1>7, <1>8 DEF Exceeds

\* t is n rounded to a multiple of p, the nearer of the two around it.
Rounded(n, p, t) ==
  \E q, r \in Int :
    /\ n = p * q + r /\ 0 <= r /\ r < p
    /\ \/ t = p * q /\ 2 * r <= p
       \/ t = p * q + p /\ 2 * r >= p

\* Quotient and remainder.
LEMMA Division ==
  ASSUME NEW n \in Int, NEW p \in Int, p > 0,
         NEW q \in Int, q = n \div p, NEW r \in Int, r = n % p
  PROVE  n = p * q + r
  OBVIOUS

\* ToDouble rounds to a multiple of 2^k.
LEMMA ToDoubleRounds ==
  ASSUME NEW n \in SettingValues
  PROVE  \E k : Exceeds(n, k) /\ Rounded(n, 2^k, ToDouble(n))
<1> DEFINE k == CHOOSE i \in 0..(ValueBits + 1) :
                  /\ n < 2^(DoubleBits + i)
                  /\ i = 0 \/ n >= 2^(DoubleBits + i - 1)
<1>1. n \in Int /\ Exceeds(n, k)
  <2>1. PICK i : Exceeds(n, i)
    BY ExceedsExists
  <2> QED BY <2>1, ExceedsExists DEF Exceeds
<1>2. ToDouble(n) = 2^k * (IF 2 * (n % 2^k) > 2^k \/ (2 * (n % 2^k) = 2^k /\ (n \div 2^k) % 2 = 1)
                          THEN (n \div 2^k) + 1 ELSE n \div 2^k)
  BY DEF ToDouble
<1> HIDE DEF k
<1>3. 2^k \in Nat /\ 1 <= 2^k
  <2>1. k \in Nat
    BY <1>1 DEF Exceeds
  <2> QED BY <2>1, PowerGrows
<1>4. PICK p \in Int : p = 2^k /\ p > 0
  BY <1>3
<1>5. n \div p \in Int /\ n % p \in Int /\ 0 <= n % p /\ n % p < p
  BY <1>1, <1>4
<1>6. PICK q \in Int, r \in Int : q = n \div p /\ r = n % p
  BY <1>5
<1>7. n = p * q + r
  <2>1. n \in Int /\ p \in Int /\ p > 0 /\ q \in Int /\ r \in Int
    BY <1>1, <1>4, <1>6
  <2>2. q = n \div p /\ r = n % p
    BY <1>6
  <2> QED BY <2>1, <2>2, Division
<1>8. ToDouble(n) = p * (IF 2 * r > p \/ (2 * r = p /\ q % 2 = 1) THEN q + 1 ELSE q)
  BY <1>2, <1>4, <1>6
<1>9. p * (q + 1) = p * q + p
  BY <1>4
<1>10. Rounded(n, p, ToDouble(n))
  <2>1. 0 <= r /\ r < p
    BY <1>5, <1>6
  <2>2. \/ ToDouble(n) = p * q /\ 2 * r <= p
        \/ ToDouble(n) = p * q + p /\ 2 * r >= p
    <3>1. CASE 2 * r > p \/ (2 * r = p /\ q % 2 = 1)
      <4>1. 2 * r >= p
        BY <1>4, <3>1
      <4> QED BY <1>8, <1>9, <3>1, <4>1
    <3>2. CASE ~(2 * r > p \/ (2 * r = p /\ q % 2 = 1))
      <4>1. 2 * r <= p
        BY <1>4, <3>2
      <4> QED BY <1>8, <3>2, <4>1
    <3> QED BY <3>1, <3>2
  <2> QED BY <1>7, <2>1, <2>2 DEF Rounded
<1> QED BY <1>1, <1>4, <1>10

\* What rounding leaves alone, and how far it goes.
LEMMA RoundedFacts ==
  ASSUME NEW n \in Int, NEW p \in Nat, 1 <= p, NEW t, Rounded(n, p, t)
  PROVE  /\ t \in Int
         /\ \A y \in Int : n = p * y => t = n
         /\ \A y \in Int : p * y <= n => p * y <= t
         /\ \A h \in Int : p = 2 * h => n - t <= h /\ t - n <= h
<1>1. PICK q \in Int, r \in Int :
        /\ n = p * q + r /\ 0 <= r /\ r < p
        /\ \/ t = p * q /\ 2 * r <= p
           \/ t = p * q + p /\ 2 * r >= p
  BY DEF Rounded
<1>2. PICK m \in Int : m = p * q
  OBVIOUS
<1>3. t \in Int /\ m <= t
  BY <1>1, <1>2
<1>4. ASSUME NEW y \in Int, p * y <= n PROVE y <= q
  <2> SUFFICES ASSUME q + 1 <= y PROVE FALSE
    OBVIOUS
  <2>1. p * (q + 1) = p * q + p
    OBVIOUS
  <2>2. p * (q + 1) <= p * y
    OBVIOUS
  <2> QED BY <1>1, <1>4, <2>1, <2>2
<1>5. ASSUME NEW y \in Int, p * y <= n PROVE p * y <= t
  <2>1. p * y <= p * q
    BY <1>4, <1>5
  <2> QED BY <1>2, <1>3, <2>1
<1>6. ASSUME NEW y \in Int, n = p * y PROVE t = n
  <2>1. y <= q
    BY <1>4, <1>6
  <2>2. p * y <= p * q
    BY <2>1
  <2>3. r = 0
    BY <1>1, <1>2, <1>6, <2>2
  <2> QED BY <1>1, <1>2, <2>3
<1>7. ASSUME NEW h \in Int, p = 2 * h PROVE n - t <= h /\ t - n <= h
  BY <1>1, <1>2, <1>7
<1> QED BY <1>3, <1>5, <1>6, <1>7

\* The largest valueint, and the largest power of two below which a double holds
\* every integer.
LEMMA LargestValue ==
  /\ 2^ValueBits \in Nat /\ 2^DoubleBits \in Nat /\ 1 <= 2^DoubleBits
  /\ LLONG_MAX = 2^ValueBits - 1 /\ 2^DoubleBits <= LLONG_MAX
<1>1. PICK top \in Nat, double \in Nat : top = 2^ValueBits /\ double = 2^DoubleBits /\ 1 <= double
  BY PowerGrows
<1>2. ValueBits - 1 \in Nat /\ ValueBits = (ValueBits - 1) + 1 /\ DoubleBits <= ValueBits - 1
  OBVIOUS
<1>3. /\ 2^(ValueBits - 1) \in Nat /\ 1 <= 2^(ValueBits - 1)
      /\ double <= 2^(ValueBits - 1)
  BY <1>1, <1>2, PowerGrows
<1>4. top = 2 * 2^(ValueBits - 1)
  BY <1>1, <1>2, PowerDoubles
<1>5. LLONG_MAX = top - 1
  BY <1>1 DEF LLONG_MAX
<1> QED BY <1>1, <1>3, <1>4, <1>5

\* Every setting arrives as closely as a double can carry it.
LEMMA ValueArrives ==
  ASSUME NEW n \in SettingValues
  PROVE  valueint(n) \in Int /\ Arrives(n, valueint(n))
<1>1. PICK k : Exceeds(n, k) /\ Rounded(n, 2^k, ToDouble(n))
  BY ToDoubleRounds
<1>2. n \in Int /\ n < 2^(ValueBits + 1) /\ k \in Nat /\ DoubleBits \in Nat /\ ValueBits \in Nat
  BY <1>1, ExceedsExists DEF Exceeds
<1>3. PICK t, p : t = ToDouble(n) /\ p = 2^k
  OBVIOUS
<1>4. p \in Nat /\ 1 <= p
  BY <1>2, <1>3, PowerGrows
<1>5. /\ t \in Int
      /\ \A y \in Int : n = p * y => t = n
      /\ \A y \in Int : p * y <= n => p * y <= t
      /\ \A h \in Int : p = 2 * h => n - t <= h /\ t - n <= h
  <2>1. Rounded(n, p, t)
    BY <1>1, <1>3
  <2> QED BY <1>2, <1>4, <2>1, RoundedFacts
<1>6. PICK top \in Nat, double \in Nat : top = 2^ValueBits /\ double = 2^DoubleBits /\ 1 <= double
  BY LargestValue
<1>7. LLONG_MAX = top - 1 /\ double <= LLONG_MAX
  BY <1>6, LargestValue
<1>8. PICK v, max : v = valueint(n) /\ max = LLONG_MAX
  OBVIOUS
<1>9. max \in Int /\ v = IF t >= max THEN max ELSE t
  BY <1>3, <1>6, <1>7, <1>8 DEF valueint
<1>10. v \in Int
  BY <1>5, <1>9
<1>11. k # 0 => /\ k - 1 \in Nat /\ k = (k - 1) + 1
                /\ DoubleBits + k - 1 = DoubleBits + (k - 1) /\ 2^(DoubleBits + (k - 1)) <= n
  <2> SUFFICES ASSUME k # 0
               PROVE  /\ k - 1 \in Nat /\ k = (k - 1) + 1
                      /\ DoubleBits + k - 1 = DoubleBits + (k - 1) /\ 2^(DoubleBits + (k - 1)) <= n
    OBVIOUS
  <2>1. k - 1 \in Nat /\ k = (k - 1) + 1 /\ DoubleBits + k - 1 = DoubleBits + (k - 1)
    BY <1>2
  <2>2. n >= 2^(DoubleBits + k - 1)
    BY <1>1 DEF Exceeds
  <2>3. 2^(DoubleBits + (k - 1)) \in Nat
    BY <1>2, <2>1, PowerGrows
  <2> QED BY <1>2, <2>1, <2>2, <2>3
<1>12. k = 0 => n < double
  <2> SUFFICES ASSUME k = 0 PROVE n < double
    OBVIOUS
  <2>1. DoubleBits + k = DoubleBits
    BY <1>2
  <2>2. n < 2^(DoubleBits + k)
    BY <1>1 DEF Exceeds
  <2> QED BY <1>6, <2>1, <2>2
<1>13. PICK h : k # 0 => /\ h = 2^(k - 1) /\ h \in Nat /\ 1 <= h /\ p = 2 * h
                         /\ double * h <= n
  <2>1. CASE k = 0
    BY <2>1
  <2>2. CASE k # 0
    <3>1. 2^(k - 1) \in Nat /\ 1 <= 2^(k - 1)
      BY <1>11, <2>2, PowerGrows
    <3>2. p = 2 * 2^(k - 1)
      BY <1>3, <1>11, <2>2, PowerDoubles
    <3>3. 2^(DoubleBits + (k - 1)) = double * 2^(k - 1)
      BY <1>2, <1>6, <1>11, <2>2, PowerSum
    <3> QED BY <1>11, <2>2, <3>1, <3>2, <3>3
  <2> QED BY <2>1, <2>2
\* A double holds it.
<1>14. CASE n <= double
  <2>1. t = n
    <3>1. CASE k = 0
      <4>1. p = 1
        <5>1. 2^0 = 1
          OBVIOUS
        <5> QED BY <1>3, <3>1, <5>1
      <4>2. n = p * n
        BY <1>2, <4>1
      <4> QED BY <1>2, <1>5, <4>2
    <3>2. CASE k # 0
      <4>1. h = 1 /\ n = double
        <5>1. h \in Nat /\ 1 <= h /\ double * h <= n
          BY <1>13, <3>2
        <5>2. CASE h # 1
          <6>1. 2 <= h
            BY <5>1, <5>2
          <6>2. double * 2 <= double * h
            BY <1>6, <5>1, <6>1
          <6>3. double * 2 > double
            BY <1>6
          <6> QED BY <1>2, <1>6, <1>14, <5>1, <6>2, <6>3
        <5>3. CASE h = 1
          <6>1. double * h = double
            BY <1>6, <5>3
          <6> QED BY <1>2, <1>6, <1>14, <5>1, <5>3, <6>1
        <5> QED BY <5>2, <5>3
      <4>2. p = 2
        BY <1>13, <3>2, <4>1
      <4>3. DoubleBits - 1 \in Nat /\ DoubleBits = (DoubleBits - 1) + 1
        OBVIOUS
      <4>4. 2^(DoubleBits - 1) \in Nat
        BY <4>3, PowerGrows
      <4>5. double = 2 * 2^(DoubleBits - 1)
        BY <1>6, <4>3, PowerDoubles
      <4>6. PICK y \in Int : n = p * y
        BY <4>1, <4>2, <4>4, <4>5
      <4> QED BY <1>5, <4>6
    <3> QED BY <3>1, <3>2
  <2>2. v = n
    BY <1>2, <1>6, <1>7, <1>8, <1>9, <1>14, <2>1
  <2>3. n <= 2^DoubleBits
    BY <1>6, <1>14
  <2>4. Arrives(n, v)
    BY <1>2, <1>6, <1>7, <2>2, <2>3 DEF Arrives
  <2> QED BY <1>8, <1>10, <2>4
\* It is more than the largest valueint.
<1>15. CASE n > max
  <2>1. k # 0
    BY <1>2, <1>6, <1>7, <1>8, <1>12, <1>15
  <2>2. DoubleBits + (k - 1) < ValueBits + 1
    <3> SUFFICES ASSUME ValueBits + 1 <= DoubleBits + (k - 1) PROVE FALSE
      BY <1>2
    <3>1. /\ 2^(ValueBits + 1) \in Nat /\ 2^(DoubleBits + (k - 1)) \in Nat
          /\ 2^(ValueBits + 1) <= 2^(DoubleBits + (k - 1))
      <4>1. ValueBits + 1 \in Nat /\ DoubleBits + (k - 1) \in Nat
        BY <1>2, <1>11, <2>1
      <4> QED BY <4>1, PowerGrows
    <3>2. 2^(DoubleBits + (k - 1)) <= n
      BY <1>11, <2>1
    <3> QED BY <1>2, <3>1, <3>2
  <2>3. ValueBits - k \in Nat /\ ValueBits = k + (ValueBits - k)
    BY <1>2, <2>2
  <2>4. PICK y \in Nat : y = 2^(ValueBits - k)
    BY <2>3, PowerGrows
  <2>5. top = p * y
    BY <1>2, <1>3, <1>6, <2>3, <2>4, PowerSum
  <2>6. top <= n
    BY <1>2, <1>6, <1>7, <1>8, <1>15
  <2>7. top <= t
    BY <1>5, <2>4, <2>5, <2>6
  <2>8. v = max /\ ~(n <= double)
    BY <1>2, <1>5, <1>6, <1>7, <1>8, <1>9, <1>15, <2>7
  <2> QED BY <1>6, <1>8, <1>10, <1>15, <2>8 DEF Arrives
\* It is rounded.
<1>16. CASE ~(n <= double) /\ ~(n > max)
  <2>1. k # 0
    BY <1>2, <1>6, <1>12, <1>16
  <2>2. /\ h \in Nat /\ 1 <= h /\ p = 2 * h /\ double * h <= n
    BY <1>13, <2>1
  <2>3. n - t <= h /\ t - n <= h
    BY <1>5, <2>2
  <2> DEFINE e == IF v > n THEN v - n ELSE n - v
  <2>4. e \in Int /\ e <= h
    BY <1>2, <1>5, <1>8, <1>9, <1>10, <1>16, <2>2, <2>3
  <2> HIDE DEF e
  <2>5. e * double <= n
    <3>1. e * double <= h * double
      BY <1>6, <2>2, <2>4
    <3>2. h * double = double * h /\ e * double \in Int /\ h * double \in Int
      BY <1>6, <2>2, <2>4
    <3> QED BY <1>2, <2>2, <3>1, <3>2
  <2>6. Arrives(n, v)
    BY <1>6, <1>8, <1>16, <2>5 DEF Arrives, e
  <2> QED BY <1>8, <1>10, <2>6
<1> QED BY <1>14, <1>15, <1>16

HIDE BitsAssumption DEF BitsAssumption

-----------------------------------------------------------------------------
(* The settings that arrive.                                                   *)

\* The descriptor and the settings of the server are those it started with until
\* JSON_read returns an object, and then what get_parameters makes of the client's.
ServerTest == iperf_set_test_role(iperf_defaults, "s")
FromClient(c) ==
  [test     |-> get_parameters(ServerTest, send_parameters(c)),
   settings |-> store_settings(DefaultSettings, send_parameters(c))]
DeliveredTo(c, end) ==
  /\ client = c
  /\ rpc # "returned" => result = "none"
  /\ result # "object" => server = [test |-> ServerTest, settings |-> DefaultSettings]
  /\ result = "object" => server = end
Delivered == \E c \in Clients : DeliveredTo(c, FromClient(c))

LEMMA DeliveredInvariant == Spec => []Delivered
<1>1. Init => Delivered
  BY DEF Init, Delivered, DeliveredTo, ServerTest
<1>2. ASSUME NEW c \in Clients, NEW end, end = FromClient(c), DeliveredTo(c, end),
             [Next]_vars
      PROVE  DeliveredTo(c, end)'
  <2> USE DEF DeliveredTo
  <2>1. CASE UNCHANGED <<client, rpc, result, server>>
    BY <1>2, <2>1
  <2>2. CASE UNCHANGED <<client, server>> /\ result' = "NULL" /\ rpc' = "returned"
             /\ rpc # "returned"
    BY <1>2, <2>2
  <2>3. CASE UNCHANGED <<client, server, result>> /\ rpc # "returned"
    BY <1>2, <2>3
  <2>4. CASE TakeText /\ result' = "object"
    <3>1. /\ client' = c /\ rpc = "text"
          /\ server = [test |-> ServerTest, settings |-> DefaultSettings]
          /\ rpc' = "returned"
      BY <1>2, <2>4 DEF TakeText, Parse, ReturnNULL
    <3>2. server' = [test |-> get_parameters(server.test, send_parameters(client)),
                     settings |-> store_settings(server.settings, send_parameters(client))]
      BY <2>4 DEF TakeText, Parse, ReturnNULL
    <3>3. server' = end
      BY <1>2, <3>1, <3>2 DEF FromClient
    <3> QED BY <2>4, <3>1, <3>3
  <2>5. CASE Write \/ Close
    BY <2>1, <2>5 DEF Write, PrintText, WriteWord, WriteText, Close, readerVars
  <2>6. CASE ReadSome \/ TakeWord
    BY <2>1, <2>3, <2>6 DEF ReadSome, TakeWord
  <2>7. CASE Calloc
    BY <2>2, <2>3, <2>7 DEF Calloc, ReturnNULL
  <2>8. CASE TakeText
    BY <2>2, <2>4, <2>8 DEF TakeText, Parse, ReturnNULL
  <2>9. CASE ReadFails
    BY <2>2, <2>9 DEF ReadFails, ReturnNULL
  <2>10. CASE UNCHANGED vars
    BY <2>1, <2>10 DEF vars, readerVars
  <2> QED BY <1>2, <2>5, <2>6, <2>7, <2>8, <2>9, <2>10 DEF Next, Read
<1>3. Delivered /\ [Next]_vars => Delivered'
  <2> SUFFICES ASSUME Delivered, [Next]_vars
               PROVE  \E c \in Clients : DeliveredTo(c, FromClient(c))'
    BY DEF Delivered
  <2>1. PICK c \in Clients : DeliveredTo(c, FromClient(c))
    BY DEF Delivered
  <2>2. DeliveredTo(c, FromClient(c))'
    BY <1>2, <2>1
  <2> QED BY <2>2
<1> QED BY <1>1, <1>3, PTL DEF Spec

\* The server starts as main starts it, with TCP listed.
LEMMA ListedServerTest == ServerTest \in ServerTests /\ "tcp" \in ServerTest.protocols
<1>1. ServerTest \in ServerTests
  BY DEF ServerTest, ServerTests, NewTests
<1> QED BY <1>1, ServerTestValue DEF ServerTest, Registered

\* The parameters name the client's protocol, say whether it reverses, and have
\* the numbers that are sent, each as a double carries it.
LEMMA ParametersSent ==
  ASSUME NEW c \in Clients, NEW m, m = send_parameters(c)
  PROVE  /\ "tcp" \in DOMAIN m /\ TimeIsInt(m)
         /\ ("reverse" \in DOMAIN m) = c.test.reverse
         /\ "time" \in DOMAIN m <=> c.test.duration # 0
         /\ "time" \in DOMAIN m => m["time"] = valueint(c.test.duration)
         /\ \A k \in SettingKeys :
              /\ k \in DOMAIN m <=> IsSent(c.settings, k)
              /\ k \in DOMAIN m => m[k] = valueint(c.settings[k])
<1>1. /\ c.test \in Tests /\ c.test.protocol = "tcp" /\ c.test.reverse \in BOOLEAN
      /\ c.test.duration \in SettingValues
  BY ClientsAssumption DEF ClientsAssumption, Tests, Registered
<1>2. valueint(c.test.duration) \in Int
  BY <1>1, ValueArrives
<1> DEFINE testKeys == {"tcp"} \cup (IF c.test.reverse THEN {"reverse"} ELSE {})
                         \cup (IF c.test.duration # 0 THEN {"time"} ELSE {})
           keys == testKeys \cup {x \in SettingKeys : IsSent(c.settings, x)}
<1>3. "time" \notin SettingKeys /\ "reverse" \notin SettingKeys /\ "tcp" \notin SettingKeys
  BY DEF SettingKeys, NumberKeys, FlagKeys
<1>4. /\ DOMAIN m = keys
      /\ "time" \in DOMAIN m => m["time"] = valueint(c.test.duration)
      /\ \A k \in SettingKeys : k \in DOMAIN m => m[k] = valueint(c.settings[k])
  <2>1. m = [k \in keys |->
               CASE k = "time"        -> valueint(c.test.duration)
                 [] k \in SettingKeys -> valueint(c.settings[k])
                 [] OTHER             -> 1]
    BY <1>1 DEF send_parameters, NULL
  <2> HIDE DEF testKeys, keys
  <2>2. DOMAIN m = keys
    BY <2>1
  <2>3. "time" \in DOMAIN m => m["time"] = valueint(c.test.duration)
    BY <1>3, <2>1
  <2>4. ASSUME NEW k \in SettingKeys, k \in DOMAIN m PROVE m[k] = valueint(c.settings[k])
    <3>1. k # "time"
      BY <1>3
    <3> QED BY <2>1, <2>4, <3>1
  <2> QED BY <2>2, <2>3, <2>4
<1>5. \A k \in SettingKeys : k \in keys <=> IsSent(c.settings, k)
  BY <1>3
<1>6. /\ "tcp" \in keys /\ ("reverse" \in keys) = c.test.reverse
      /\ "time" \in keys <=> c.test.duration # 0
  BY <1>1, <1>3
<1> HIDE DEF keys
<1> QED BY <1>2, <1>4, <1>5, <1>6 DEF TimeIsInt

\* However the client set its direction, after an exchange exactly one end
\* sends, both name the same protocol, and the sender counts retransmits.
THEOREM OppositeRolesHolds == Spec => []OppositeRoles
<1>1. ASSUME NEW c \in Clients, DeliveredTo(c, FromClient(c)), result = "object"
      PROVE  OppositeRoles
  <2> DEFINE m == send_parameters(c)
  <2>1. client = c /\ server.test = get_parameters(ServerTest, m)
    BY <1>1 DEF DeliveredTo, FromClient
  <2>2. /\ c.test.protocol = "tcp" /\ c.test.reverse \in BOOLEAN
        /\ c.test.sender = ~c.test.reverse
        /\ c.test.sender_has_retransmits = c.test.sender
    BY ClientsAssumption DEF ClientsAssumption, Tests, Registered
  <2>3. /\ "tcp" \in DOMAIN m /\ TimeIsInt(m)
        /\ ("reverse" \in DOMAIN m) = c.test.reverse
    BY ParametersSent
  <2> HIDE DEF m
  <2>4. /\ server.test.protocol = "tcp"
        /\ server.test.reverse = ("reverse" \in DOMAIN m)
        /\ server.test.sender = server.test.reverse
        /\ server.test.sender_has_retransmits = (server.test.sender /\ server.test.protocol = "tcp")
    BY <2>1, <2>3, ListedServerTest, ParametersEffect
  <2> QED BY <2>1, <2>2, <2>3, <2>4 DEF OppositeRoles
<1>2. Delivered => OppositeRoles
  BY <1>1 DEF Delivered, OppositeRoles
<1> QED BY <1>2, DeliveredInvariant, PTL

\* A small number arrives as itself.
LEMMA SmallArrives ==
  ASSUME NEW n \in Int, n <= 1
  PROVE  Arrives(n, n)
<1>1. n <= 2^DoubleBits /\ ~(n > LLONG_MAX)
  BY LargestValue
<1> QED BY <1>1 DEF Arrives

\* After an exchange that succeeded every setting of the server is the client's,
\* zeros that are not sent included but for the three that have another default:
\* unchanged where a double holds it, to the precision of a double or saturated
\* where it does not.
THEOREM SettingsArriveHolds == Spec => []SettingsArrive
<1>1. ASSUME NEW c \in Clients, DeliveredTo(c, FromClient(c)), result = "object"
      PROVE  SettingsArrive
  <2> DEFINE m == send_parameters(c)
  <2>1. /\ client = c
        /\ server.test = get_parameters(ServerTest, m)
        /\ server.settings = store_settings(DefaultSettings, m)
    BY <1>1 DEF DeliveredTo, FromClient
  <2>2. /\ c.test.duration \in SettingValues
        /\ \A k \in SettingKeys : c.settings[k] \in SettingValues
    BY ClientsAssumption DEF ClientsAssumption
  <2>3. /\ TimeIsInt(m)
        /\ "time" \in DOMAIN m <=> c.test.duration # 0
        /\ "time" \in DOMAIN m => m["time"] = valueint(c.test.duration)
        /\ \A k \in SettingKeys :
             /\ k \in DOMAIN m <=> IsSent(c.settings, k)
             /\ k \in DOMAIN m => m[k] = valueint(c.settings[k])
    BY ParametersSent
  <2> HIDE DEF m
  <2>4. IF c.test.duration = 0
        THEN server.test.duration = DefaultDuration
        ELSE Arrives(c.test.duration, server.test.duration)
    <3>1. server.test.duration = IF "time" \in DOMAIN m THEN m["time"]
                                 ELSE DefaultDuration
      BY <2>1, <2>3, ListedServerTest, ParametersEffect
    <3>2. Arrives(c.test.duration, valueint(c.test.duration))
      BY <2>2, ValueArrives
    <3> QED BY <2>3, <3>1, <3>2
  <2>5. ASSUME NEW k \in SettingKeys, NEW n, n = c.settings[k]
        PROVE  IF n = 0 /\ k \in ZeroIsDefault
               THEN server.settings[k] = DefaultSettings[k]
               ELSE Arrives(IF n # 0 /\ k \in FlagKeys THEN 1 ELSE n, server.settings[k])
    <3>1. server.settings[k] = IF k \notin DOMAIN m THEN DefaultSettings[k]
                               ELSE IF k \in FlagKeys THEN 1 ELSE m[k]
      BY <2>1 DEF store_settings
    <3>2. k \in ZeroIsDefault \/ k \in FlagKeys => k # "parallel" /\ k # "server_affinity"
      BY DEF ZeroIsDefault, FlagKeys
    <3>3. k \in DOMAIN m /\ (k \in ZeroIsDefault \/ k \in FlagKeys) => n # 0
      BY <2>3, <2>5, <3>2 DEF IsSent
    <3>4. CASE k \in DOMAIN m /\ k \in FlagKeys
      BY <3>1, <3>4, <3>3, SmallArrives
    <3>5. CASE k \in DOMAIN m /\ k \notin FlagKeys
      <4>1. Arrives(c.settings[k], valueint(c.settings[k]))
        BY <2>2, ValueArrives
      <4> QED BY <2>3, <2>5, <3>1, <3>5, <3>3, <4>1
    <3>6. CASE k \notin DOMAIN m
      <4>1. ~IsSent(c.settings, k)
        BY <2>3, <3>6
      <4>2. CASE k = "server_affinity"
        <5>1. n = -1 /\ DefaultSettings[k] = -1
          BY <2>5, <4>1, <4>2 DEF IsSent, DefaultSettings
        <5> QED BY <3>1, <3>6, <3>2, <4>2, <5>1, SmallArrives
      <4>3. CASE k # "server_affinity"
        <5>1. n = 0 /\ k # "parallel"
          BY <2>5, <4>1, <4>3 DEF IsSent
        <5>2. k \notin ZeroIsDefault => DefaultSettings[k] = 0
          BY <4>3, <5>1 DEF DefaultSettings, ZeroIsDefault
        <5> QED BY <3>1, <3>6, <5>1, <5>2, SmallArrives
      <4> QED BY <4>2, <4>3
    <3> QED BY <3>4, <3>5, <3>6
  <2> QED BY <2>1, <2>4, <2>5 DEF SettingsArrive
<1>2. Delivered => SettingsArrive
  BY <1>1 DEF Delivered, SettingsArrive
<1> QED BY <1>2, DeliveredInvariant, PTL

=============================================================================
