---------------------------- MODULE WriterProofs ----------------------------
(***************************************************************************)
(* What is written is what is read.  The decoder follows the greedy encoder:*)
(* whatever is parsed, for any window, parameters of distances, lengths up  *)
(* to a whole metablock and distances up to the greatest, the chunks as they*)
(* are written mean to the decoder the commands they were written for.  And *)
(* no bit is lost in the bit writer that they go through.                   *)
(***************************************************************************)
EXTENDS GreedyWriter, BitWriter, FiniteSetTheorems, SequenceTheorems, TLAPS

-----------------------------------------------------------------------------
(* Numbers. *)

\* A set of numbers has a least one; what is proved of a number from all that
\* are less is proved with it.  Were there none, all that is above some member
\* could be moved down by one and still be above some member.
LEMMA LeastNumber ==
  ASSUME NEW T \in SUBSET Nat, T # {}
  PROVE  \E x \in T : \A y \in T : x <= y
<1> SUFFICES ASSUME \A x \in T : \E y \in T : y < x PROVE FALSE
  BY SMT
<1>0. PICK b \in T : TRUE
  OBVIOUS
<1> DEFINE U == {x \in 0..b : \E y \in T : y <= x}
           V == U \ {b}
           f == [x \in U |-> x - 1]
<1>1. b \in Nat /\ U \subseteq 0..b /\ b \in U
  BY <1>0, SMT
<1>2. \A x \in U : x - 1 \in V
  <2> TAKE x \in U
  <2>1. PICK y \in T : y <= x
    OBVIOUS
  <2>2. PICK z \in T : z < y
    OBVIOUS
  <2>3. y \in Nat /\ z \in Nat /\ x \in 0..b
    OBVIOUS
  <2>4. x - 1 \in 0..b /\ z <= x - 1 /\ x - 1 # b
    BY <2>1, <2>2, <2>3, <1>1, SMT
  <2> QED
    BY <2>2, <2>4
<1>3. IsFiniteSet(U)
  <2>1. IsFiniteSet(0..b)
    BY <1>1, FS_Interval, 0 \in Int, b \in Int
  <2> QED
    BY <2>1, <1>1, FS_Subset
<1>4. IsFiniteSet(V) /\ Cardinality(V) = Cardinality(U) - 1
  BY <1>1, <1>3, FS_RemoveElement
<1>5. Cardinality(V) < Cardinality(U)
  <2>1. Cardinality(U) \in Nat
    BY <1>3, FS_CardinalityType
  <2> HIDE DEF U, V
  <2> QED
    BY <2>1, <1>4
<1>6. f \in [U -> V]
  BY <1>2
<1>7. \A x, y \in U : x # y => f[x] # f[y]
  BY <1>1
<1>8. \E x, y \in U : x # y /\ f[x] = f[y]
  <2> HIDE DEF U, V, f
  <2> QED
    BY <1>3, <1>4, <1>5, <1>6, FS_PigeonHole
<1> QED
  BY <1>7, <1>8

\* The lesser of two.
LEMMA MinOfTwo ==
  ASSUME NEW a \in Int, NEW b \in Int
  PROVE  Min({a, b}) = IF a <= b THEN a ELSE b
<1> DEFINE m == IF a <= b THEN a ELSE b
<1>1. m \in {a, b} /\ \A y \in {a, b} : m <= y
  OBVIOUS
<1>2. \A x \in {a, b} : (\A y \in {a, b} : x <= y) => x = m
  OBVIOUS
<1> QED
  BY <1>1, <1>2 DEF Min

\* What is within reach is a number.
LEMMA ReachIs ==
  ASSUME NEW p \in Nat PROVE Reach(p) \in Nat
BY DistancesAssumption, MinOfTwo DEF Reach

\* A power of two of a word is a number, and the next is twice as much.
Power(k) == 2 ^ k \in Nat /\ 2 ^ k > 0 /\ 2 ^ (k + 1) = 2 * 2 ^ k

LEMMA PowersAreNumbers == \A k \in 0..31 : Power(k)
<1>1. \A k \in 0..7 : Power(k)
  <2>1. /\ Power(0) /\ Power(1) /\ Power(2) /\ Power(3)
        /\ Power(4) /\ Power(5) /\ Power(6) /\ Power(7)
    BY DEF Power
  <2>2. \A k \in 0..7 :
          \/ k = 0 \/ k = 1 \/ k = 2 \/ k = 3
          \/ k = 4 \/ k = 5 \/ k = 6 \/ k = 7
    OBVIOUS
  <2> QED
    BY <2>1, <2>2, Zenon
<1>2. \A k \in 8..15 : Power(k)
  <2>1. /\ Power(8) /\ Power(9) /\ Power(10) /\ Power(11)
        /\ Power(12) /\ Power(13) /\ Power(14) /\ Power(15)
    BY DEF Power
  <2>2. \A k \in 8..15 :
          \/ k = 8 \/ k = 9 \/ k = 10 \/ k = 11
          \/ k = 12 \/ k = 13 \/ k = 14 \/ k = 15
    OBVIOUS
  <2> QED
    BY <2>1, <2>2, Zenon
<1>3. \A k \in 16..23 : Power(k)
  <2>1. /\ Power(16) /\ Power(17) /\ Power(18) /\ Power(19)
        /\ Power(20) /\ Power(21) /\ Power(22) /\ Power(23)
    BY DEF Power
  <2>2. \A k \in 16..23 :
          \/ k = 16 \/ k = 17 \/ k = 18 \/ k = 19
          \/ k = 20 \/ k = 21 \/ k = 22 \/ k = 23
    OBVIOUS
  <2> QED
    BY <2>1, <2>2, Zenon
<1>4. \A k \in 24..31 : Power(k)
  <2>1. /\ Power(24) /\ Power(25) /\ Power(26) /\ Power(27)
        /\ Power(28) /\ Power(29) /\ Power(30) /\ Power(31)
    BY DEF Power
  <2>2. \A k \in 24..31 :
          \/ k = 24 \/ k = 25 \/ k = 26 \/ k = 27
          \/ k = 28 \/ k = 29 \/ k = 30 \/ k = 31
    OBVIOUS
  <2> QED
    BY <2>1, <2>2, Zenon
<1>5. \A k \in 0..31 : k \in 0..7 \/ k \in 8..15 \/ k \in 16..23 \/ k \in 24..31
  OBVIOUS
<1> QED
  BY <1>1, <1>2, <1>3, <1>4, <1>5, Zenon

\* The powers grow: the least one below an earlier one would follow one that is.
LEMMA PowersGrow ==
  ASSUME NEW j \in 0..31, NEW k \in 0..31, j <= k
  PROVE  2 ^ j <= 2 ^ k
<1> DEFINE T == {n \in j..31 : ~(2 ^ j <= 2 ^ n)}
<1>1. SUFFICES ASSUME T # {} PROVE FALSE
  <2>1. k \in j..31 /\ (k \notin T => 2 ^ j <= 2 ^ k)
    OBVIOUS
  <2> QED
    BY <2>1
<1>2. PICK n \in T : \A i \in T : n <= i
  <2>1. T \in SUBSET Nat
    OBVIOUS
  <2> HIDE DEF T
  <2> QED
    BY <1>1, <2>1, LeastNumber
<1>3. n \in j..31 /\ ~(2 ^ j <= 2 ^ n)
  OBVIOUS
<1>4. Power(j) /\ Power(n)
  BY <1>3, PowersAreNumbers
<1>5. n # j
  BY <1>3, <1>4 DEF Power
<1>6. PICK m : m = n - 1
  OBVIOUS
<1>7. m \in j..31 /\ m \in 0..31 /\ m + 1 = n /\ ~(n <= m)
  BY <1>3, <1>5, <1>6
<1>8. 2 ^ j <= 2 ^ m
  BY <1>2, <1>7
<1>9. Power(m)
  BY <1>7, PowersAreNumbers
<1>10. 2 ^ n = 2 * 2 ^ m
  BY <1>7, <1>9 DEF Power
<1> QED
  BY <1>3, <1>4, <1>8, <1>9, <1>10 DEF Power

\* A number of a word has a highest bit.
LEMMA Log2Is ==
  ASSUME NEW n \in Nat, 1 <= n, n < 2 ^ 31
  PROVE  Log2(n) \in 0..30 /\ 2 ^ Log2(n) <= n /\ n < 2 ^ (Log2(n) + 1)
<1> DEFINE T == {k \in 0..30 : n < 2 ^ (k + 1)}
           P(k) == 2 ^ k <= n /\ n < 2 ^ (k + 1)
<1>1. T \in SUBSET Nat /\ 30 \in T
  OBVIOUS
<1>2. PICK k \in T : \A j \in T : k <= j
  <2> HIDE DEF T
  <2> QED
    BY <1>1, LeastNumber
<1>3. k \in 0..30 /\ n < 2 ^ (k + 1)
  OBVIOUS
<1>4. ~(n < 2 ^ k)
  <2>1. CASE k = 0
    <3>1. 2 ^ 0 = 1
      OBVIOUS
    <3> QED
      BY <2>1, <3>1
  <2>2. CASE k # 0
    <3>1. k - 1 \in 0..30 /\ (k - 1) + 1 = k /\ ~(k <= k - 1)
      BY <1>3, <2>2
    <3>2. k - 1 \notin T
      BY <1>2, <3>1
    <3> QED
      BY <3>1, <3>2
  <2> QED
    BY <2>1, <2>2
<1>5. P(k)
  <2>1. Power(k)
    BY <1>3, PowersAreNumbers
  <2> QED
    BY <1>3, <1>4, <2>1 DEF Power
<1> DEFINE l == Log2(n)
<1>6. l \in 0..31 /\ P(l)
  <2> HIDE DEF P
  <2>1. \E j \in 0..31 : P(j)
    BY <1>3, <1>5
  <2>2. l = CHOOSE j \in 0..31 : P(j)
    BY DEF Log2, P
  <2> HIDE DEF l
  <2> QED
    BY <2>1, <2>2
<1> HIDE DEF l
<1>7. l # 31
  <2> SUFFICES ASSUME l = 31 PROVE FALSE
    OBVIOUS
  <2>1. 2 ^ 31 <= n
    BY <1>6
  <2> QED
    BY <2>1
<1>8. l \in 0..30
  BY <1>6, <1>7
<1> QED
  BY <1>6, <1>8 DEF l

-----------------------------------------------------------------------------
(* The names of distances. *)

\* Recent distances, each a byte back or more.
IsRing(r) == r \in Seq(Nat) /\ Len(r) = 4 /\ \A i \in 1..4 : r[i] > 0

\* Each of the four is a distance.
LEMMA RingFacts ==
  ASSUME NEW r, IsRing(r)
  PROVE  /\ r[1] \in Nat /\ r[2] \in Nat /\ r[3] \in Nat /\ r[4] \in Nat
         /\ r[1] > 0 /\ r[2] > 0 /\ r[3] > 0 /\ r[4] > 0
<1>1. \A i \in 1..4 : r[i] \in Nat /\ r[i] > 0
  BY ElementOfSeq DEF IsRing
<1> QED
  BY <1>1

\* So it is at the start of a stream.
LEMMA InitialIsRing == IsRing(InitialRing)
<1>1. InitialRing \in Seq(Nat) /\ Len(InitialRing) = 4
  BY DEF InitialRing
<1>2. \A i \in 1..4 : InitialRing[i] > 0
  BY DEF InitialRing
<1> QED
  BY <1>1, <1>2 DEF IsRing

\* And when a distance is remembered.
LEMMA PushedIsRing ==
  ASSUME NEW r, IsRing(r), NEW d \in Nat \ {0}
  PROVE  IsRing(Pushed(r, d))
<1> DEFINE rest == SubSeq(r, 1, 3)
           s == <<d>> \o rest
<1>1. rest \in Seq(Nat) /\ Len(rest) = 3 /\ \A i \in 1..3 : rest[i] = r[i]
  <2>1. \A i \in 1..3 : r[i] \in Nat
    BY RingFacts
  <2> QED
    BY <2>1, SubSeqProperties
<1>2. <<d>> \in Seq(Nat) /\ Len(<<d>>) = 1 /\ <<d>>[1] = d
  OBVIOUS
<1> HIDE DEF rest
<1>3. /\ s \in Seq(Nat) /\ Len(s) = 1 + 3
      /\ \A i \in 1..(1 + 3) : s[i] = IF i <= 1 THEN <<d>>[i] ELSE rest[i - 1]
  <2>1. /\ s \in Seq(Nat) /\ Len(s) = Len(<<d>>) + Len(rest)
        /\ \A i \in 1..(Len(<<d>>) + Len(rest)) :
             s[i] = IF i <= Len(<<d>>) THEN <<d>>[i] ELSE rest[i - Len(<<d>>)]
    BY <1>1, <1>2, ConcatProperties, Zenon
  <2> QED
    BY <1>1, <1>2, <2>1
<1>4. \A i \in 1..3 : rest[i] > 0
  BY <1>1 DEF IsRing
<1> HIDE DEF s
<1>5. \A i \in 1..4 : s[i] > 0
  <2> TAKE i \in 1..4
  <2>1. CASE i = 1
    BY <1>2, <1>3, <2>1
  <2>2. CASE i # 1
    <3>1. i - 1 \in 1..3 /\ ~(i <= 1) /\ i \in 1..(1 + 3)
      BY <2>2
    <3>2. s[i] = rest[i - 1]
      BY <1>3, <3>1
    <3> QED
      BY <1>4, <3>1, <3>2
  <2> QED
    BY <2>1, <2>2
<1> QED
  BY <1>3, <1>5 DEF IsRing, Pushed, rest, s

\* A code that refers to the recent distances means the distance it was chosen
\* for.
LEMMA ShortCodeMeans ==
  ASSUME NEW r, IsRing(r), NEW d \in Nat \ {0}, NEW reach \in Nat,
         ComputeCode(r, d, reach) # d + 15
  PROVE  /\ ComputeCode(r, d, reach) \in 0..15
         /\ ShortDistance(r, ComputeCode(r, d, reach)) = d
         /\ ComputeCode(r, d, reach) = 0 => d = r[1]
<1> DEFINE code == ComputeCode(r, d, reach)
<1>1. r[1] \in Nat /\ r[2] \in Nat /\ r[3] \in Nat /\ r[4] \in Nat
  BY RingFacts
<1>2. /\ LastCodes[1] = 8 /\ LastCodes[2] = 6 /\ LastCodes[3] = 4 /\ LastCodes[4] = 0
      /\ LastCodes[5] = 5 /\ LastCodes[6] = 7 /\ LastCodes[7] = 9
  BY DEF LastCodes
<1>3. /\ SecondLastCodes[1] = 14 /\ SecondLastCodes[2] = 12 /\ SecondLastCodes[3] = 10
      /\ SecondLastCodes[4] = 1 /\ SecondLastCodes[5] = 11 /\ SecondLastCodes[6] = 13
      /\ SecondLastCodes[7] = 15
  BY DEF SecondLastCodes
<1>4. /\ ShortDistance(r, 0) = r[1] /\ ShortDistance(r, 1) = r[2]
      /\ ShortDistance(r, 2) = r[3] /\ ShortDistance(r, 3) = r[4]
  BY <1>1 DEF ShortDistance, ShortCodes
<1>5. /\ ShortDistance(r, 4) = r[1] - 1 /\ ShortDistance(r, 5) = r[1] + 1
      /\ ShortDistance(r, 6) = r[1] - 2 /\ ShortDistance(r, 7) = r[1] + 2
      /\ ShortDistance(r, 8) = r[1] - 3 /\ ShortDistance(r, 9) = r[1] + 3
  BY <1>1 DEF ShortDistance, ShortCodes
<1>6. /\ ShortDistance(r, 10) = r[2] - 1 /\ ShortDistance(r, 11) = r[2] + 1
      /\ ShortDistance(r, 12) = r[2] - 2 /\ ShortDistance(r, 13) = r[2] + 2
      /\ ShortDistance(r, 14) = r[2] - 3 /\ ShortDistance(r, 15) = r[2] + 3
  BY <1>1 DEF ShortDistance, ShortCodes
<1>7. \/ d = r[1] /\ code = 0
      \/ d = r[2] /\ code = 1
      \/ d # r[1] /\ Near(d, r[1]) /\ code = LastCodes[Offset(d, r[1])]
      \/ d # r[2] /\ Near(d, r[2]) /\ code = SecondLastCodes[Offset(d, r[2])]
      \/ d = r[3] /\ code = 2
      \/ d = r[4] /\ code = 3
  BY DEF ComputeCode
<1> HIDE DEF code
<1>8. CASE d # r[1] /\ Near(d, r[1]) /\ code = LastCodes[Offset(d, r[1])]
  <2>1. \/ Offset(d, r[1]) = 1 /\ d = r[1] - 3
        \/ Offset(d, r[1]) = 2 /\ d = r[1] - 2
        \/ Offset(d, r[1]) = 3 /\ d = r[1] - 1
        \/ Offset(d, r[1]) = 5 /\ d = r[1] + 1
        \/ Offset(d, r[1]) = 6 /\ d = r[1] + 2
        \/ Offset(d, r[1]) = 7 /\ d = r[1] + 3
    BY <1>1, <1>8 DEF Near, Offset
  <2>2. \/ code = 8 /\ d = r[1] - 3
        \/ code = 6 /\ d = r[1] - 2
        \/ code = 4 /\ d = r[1] - 1
        \/ code = 5 /\ d = r[1] + 1
        \/ code = 7 /\ d = r[1] + 2
        \/ code = 9 /\ d = r[1] + 3
    BY <1>2, <1>8, <2>1
  <2>3. code \in 4..9 /\ ShortDistance(r, code) = d
    BY <1>5, <2>2
  <2> QED
    BY <2>3 DEF code
<1>9. CASE d # r[2] /\ Near(d, r[2]) /\ code = SecondLastCodes[Offset(d, r[2])]
  <2>1. \/ Offset(d, r[2]) = 1 /\ d = r[2] - 3
        \/ Offset(d, r[2]) = 2 /\ d = r[2] - 2
        \/ Offset(d, r[2]) = 3 /\ d = r[2] - 1
        \/ Offset(d, r[2]) = 5 /\ d = r[2] + 1
        \/ Offset(d, r[2]) = 6 /\ d = r[2] + 2
        \/ Offset(d, r[2]) = 7 /\ d = r[2] + 3
    BY <1>1, <1>9 DEF Near, Offset
  <2>2. \/ code = 14 /\ d = r[2] - 3
        \/ code = 12 /\ d = r[2] - 2
        \/ code = 10 /\ d = r[2] - 1
        \/ code = 11 /\ d = r[2] + 1
        \/ code = 13 /\ d = r[2] + 2
        \/ code = 15 /\ d = r[2] + 3
    BY <1>3, <1>9, <2>1
  <2>3. code \in 10..15 /\ ShortDistance(r, code) = d
    BY <1>6, <2>2
  <2> QED
    BY <2>3 DEF code
<1> QED
  BY <1>4, <1>7, <1>8, <1>9 DEF code

\* A number is put together again of its remainder by a small power of two, and
\* of what is left when a multiple of the power is taken away.
Together(P, dist, w, h, low) ==
  /\ low \in 0..(P - 1)
  /\ (h * P + low) \div P = h /\ (h * P + low) % P = low
  /\ (h * P + low) \div (2 * P) = h \div 2
  /\ ((w - 4) * P) + low + (((dist - w * P) \div P) * P) = dist - 4 * P
  /\ (dist - w * P) \div P \in Int /\ h * P + low \in Nat

LEMMA PutTogether ==
  ASSUME NEW P \in {1, 2, 4, 8}, NEW dist \in Nat, NEW w \in Int, NEW h \in Nat
  PROVE  Together(P, dist, w, h, dist % P)
<1>1. CASE P = 1
  BY <1>1 DEF Together
<1>2. CASE P = 2
  BY <1>2 DEF Together
<1>3. CASE P = 4
  BY <1>3 DEF Together
<1>4. CASE P = 8
  BY <1>4 DEF Together
<1> QED
  BY <1>1, <1>2, <1>3, <1>4

\* The postfix bits as a power of two, and powers that many bits higher.
LEMMA PostfixPower ==
  ASSUME NEW p \in 0..3
  PROVE  /\ 2 ^ p \in {1, 2, 4, 8}
         /\ 2 ^ (p + 1) = 2 * 2 ^ p /\ 2 ^ (p + 2) = 4 * 2 ^ p
         /\ \A e \in 0..28 : 2 ^ (e + p) = 2 ^ e * 2 ^ p
<1>1. CASE p = 0
  <2>1. 2 ^ 0 = 1 /\ 2 ^ (0 + 1) = 2 /\ 2 ^ (0 + 2) = 4
    OBVIOUS
  <2>2. \A e \in 0..28 : 2 ^ (e + 0) = 2 ^ e * 1
    <3> TAKE e \in 0..28
    <3>1. Power(e) /\ e + 0 = e
      BY PowersAreNumbers
    <3> QED
      BY <3>1 DEF Power
  <2> QED
    BY <1>1, <2>1, <2>2
<1>2. CASE p = 1
  <2>1. 2 ^ 1 = 2 /\ 2 ^ (1 + 1) = 4 /\ 2 ^ (1 + 2) = 8
    OBVIOUS
  <2>2. \A e \in 0..28 : 2 ^ (e + 1) = 2 ^ e * 2
    <3> TAKE e \in 0..28
    <3>1. Power(e)
      BY PowersAreNumbers
    <3> QED
      BY <3>1 DEF Power
  <2> QED
    BY <1>2, <2>1, <2>2
<1>3. CASE p = 2
  <2>1. 2 ^ 2 = 4 /\ 2 ^ (2 + 1) = 8 /\ 2 ^ (2 + 2) = 16
    OBVIOUS
  <2>2. \A e \in 0..28 : 2 ^ (e + 2) = 2 ^ e * 4
    <3> TAKE e \in 0..28
    <3>1. Power(e) /\ Power(e + 1) /\ (e + 1) + 1 = e + 2
      BY PowersAreNumbers
    <3> QED
      BY <3>1 DEF Power
  <2> QED
    BY <1>3, <2>1, <2>2
<1>4. CASE p = 3
  <2>1. 2 ^ 3 = 8 /\ 2 ^ (3 + 1) = 16 /\ 2 ^ (3 + 2) = 32
    OBVIOUS
  <2>2. \A e \in 0..28 : 2 ^ (e + 3) = 2 ^ e * 8
    <3> TAKE e \in 0..28
    <3>1. Power(e) /\ Power(e + 1) /\ Power(e + 2) /\ (e + 1) + 1 = e + 2 /\ (e + 2) + 1 = e + 3
      BY PowersAreNumbers
    <3> QED
      BY <3>1 DEF Power
  <2> QED
    BY <1>4, <2>1, <2>2
<1> QED
  BY <1>1, <1>2, <1>3, <1>4

\* The encoder's parameters: up to three postfix bits, any direct codes.
IsMode(m) == m[1] \in 0..3 /\ m[2] \in Nat

\* Under these parameters and recent distances, the code is within its alphabet
\* and means the distance, and is remembered as one that was not the last.
NameMeans(m, r, code, d) ==
  LET coded == SymbolOf(code, m)
      named == NewDistance(r, coded.symbol, m[1], m[2])
  IN /\ coded.symbol \in Nat /\ coded.symbol < AlphabetSize(m[1], m[2]) /\ coded.extra \in Int
     /\ Resolve(named, coded.extra, m[1]) = d
     /\ named.push <=> code # 0
     /\ code = 0 => r[1] = d

\* A distance by a number of its own, with no extra bits.
LEMMA DirectCodeMeans ==
  ASSUME NEW m, IsMode(m), NEW r, NEW d \in Nat \ {0}, d + 15 < 16 + m[2]
  PROVE  NameMeans(m, r, d + 15, d)
<1>1. SymbolOf(d + 15, m) = [symbol |-> d + 15, extra |-> 0]
  BY DEF SymbolOf
<1>2. NewDistance(r, d + 15, m[1], m[2])
        = [state |-> "resolved", symbol |-> d + 15, value |-> d + 15 - 16 + 1,
           push |-> (d + 15) # 0, bits |-> 0]
  BY DEF NewDistance, IsMode
<1>3. 2 ^ m[1] \in Nat
  <2>1. 2 ^ m[1] \in {1, 2, 4, 8}
    BY PostfixPower DEF IsMode
  <2> QED
    BY <2>1
<1>4. Resolve(NewDistance(r, d + 15, m[1], m[2]), 0, m[1]) = d
  BY <1>2, <1>3 DEF Resolve
<1>5. d + 15 < AlphabetSize(m[1], m[2])
  BY <1>3 DEF AlphabetSize, IsMode
<1>6. SymbolOf(d + 15, m).symbol = d + 15 /\ SymbolOf(d + 15, m).extra = 0
  BY <1>1
<1>7. NewDistance(r, d + 15, m[1], m[2]).push = ((d + 15) # 0)
  BY ONLY <1>2, SMT
<1>8. d + 15 # 0 /\ d + 15 \in Nat /\ 0 \in Int
  OBVIOUS
<1> QED
  BY <1>4, <1>5, <1>6, <1>7, <1>8, Zenon DEF NameMeans

\* A distance by its number: the symbol holds how many bits its highest one is
\* followed by, the first of them and the last, the extra bits the rest, and the
\* decoder puts them together again.
LEMMA LongCodeMeans ==
  ASSUME NEW m, IsMode(m), NEW r, NEW d \in 1..MaxDistance, ~(d + 15 < 16 + m[2])
  PROVE  NameMeans(m, r, d + 15, d)
<1> DEFINE p == m[1]  direct == m[2]  P == 2 ^ p
           dist   == 2 ^ (p + 2) + (d + 15) - 16 - direct
           bucket == Log2(dist) - 1
           prefix == (dist \div 2 ^ bucket) % 2
           extra  == bucket - p
           low    == dist % P
           h      == 2 * (extra - 1) + prefix
           w      == (2 + prefix) * 2 ^ extra
           rest   == (dist - (2 + prefix) * 2 ^ bucket) \div P
           symbol == 16 + direct + h * P + low
<1>1. p \in 0..3 /\ direct \in Nat /\ d \in Nat /\ d < 2 ^ 26 - 3
  BY DEF IsMode, MaxDistance
<1>2. /\ P \in {1, 2, 4, 8} /\ 2 ^ (p + 1) = 2 * P /\ 2 ^ (p + 2) = 4 * P
      /\ \A e \in 0..28 : 2 ^ (e + p) = 2 ^ e * P
  BY <1>1, PostfixPower
<1> HIDE DEF p, direct, P
<1>3. /\ dist = 4 * P + (d - 1 - direct) /\ d - 1 - direct \in Nat /\ dist \in Nat
      /\ 4 * P <= dist /\ dist < 2 ^ 26 * P /\ dist < 2 ^ 31 /\ 1 <= dist
  <2>1. 2 ^ 26 = 67108864 /\ 2 ^ 31 = 2147483648
    OBVIOUS
  <2>2. d - 1 - direct \in Nat /\ d - 1 - direct <= 67108859
    BY <1>1, <2>1 DEF direct
  <2>3. dist = 4 * P + (d - 1 - direct)
    BY <1>1, <1>2
  <2> HIDE DEF dist
  <2> QED
    BY <1>2, <2>1, <2>2, <2>3
<1> HIDE DEF dist
<1>4. bucket \in (p + 1)..(p + 24) /\ 2 ^ (bucket + 1) <= dist
  <2> DEFINE l == Log2(dist)
  <2>1. l \in 0..30 /\ 2 ^ l <= dist /\ dist < 2 ^ (l + 1)
    BY <1>3, Log2Is
  <2> HIDE DEF l
  <2>2. l >= p + 2
    <3> SUFFICES ASSUME l + 1 <= p + 2 PROVE FALSE
      BY <1>1, <2>1
    <3>1. 2 ^ (l + 1) <= 2 ^ (p + 2)
      <4>1. l + 1 \in 0..31 /\ p + 2 \in 0..31 /\ l + 1 <= p + 2
        BY <1>1, <2>1
      <4> QED
        BY ONLY <4>1, PowersGrow, Zenon
    <3>2. Power(l)
      BY <2>1, PowersAreNumbers
    <3>3. PICK a : a = 2 ^ (l + 1)
      OBVIOUS
    <3>4. a \in Nat /\ dist < a /\ a <= 4 * P
      BY <1>2, <2>1, <3>1, <3>2, <3>3 DEF Power
    <3> QED
      BY <1>2, <1>3, <3>4
  <2>3. l <= p + 25
    <3> SUFFICES ASSUME p + 26 <= l PROVE FALSE
      BY <1>1, <2>1
    <3>1. 2 ^ (26 + p) <= 2 ^ l
      <4>1. 26 + p \in 0..31 /\ l \in 0..31 /\ 26 + p <= l
        BY <1>1, <2>1
      <4> QED
        BY ONLY <4>1, PowersGrow, Zenon
    <3>2. 2 ^ (26 + p) = 2 ^ 26 * P
      BY <1>2
    <3>3. Power(l)
      BY <2>1, PowersAreNumbers
    <3>4. PICK a : a = 2 ^ l
      OBVIOUS
    <3>5. a \in Nat /\ a <= dist /\ 2 ^ 26 * P <= a
      BY <2>1, <3>1, <3>2, <3>3, <3>4 DEF Power
    <3> QED
      BY <1>2, <1>3, <3>5
  <2>4. bucket = l - 1
    BY DEF l
  <2> HIDE DEF bucket
  <2>5. bucket \in (p + 1)..(p + 24) /\ bucket + 1 = l
    BY <1>1, <2>1, <2>2, <2>3, <2>4
  <2> QED
    BY <2>1, <2>5
<1> HIDE DEF bucket
<1>5. extra \in 1..24 /\ bucket = extra + p /\ bucket \in Nat
  BY <1>1, <1>4
<1> HIDE DEF extra
<1>6. 2 ^ bucket = 2 ^ extra * P /\ 2 ^ extra \in Nat /\ 2 ^ bucket \in Nat \ {0}
  <2>1. 2 ^ bucket = 2 ^ extra * P
    <3>1. extra \in 0..28
      BY <1>5
    <3> QED
      BY <1>2, <1>5, <3>1, Zenon
  <2>2. Power(extra) /\ Power(bucket)
    BY <1>1, <1>5, PowersAreNumbers
  <2> QED
    BY <2>1, <2>2 DEF Power
<1>7. prefix \in 0..1
  <2>1. PICK b : b = 2 ^ bucket
    OBVIOUS
  <2>2. b \in Nat \ {0} /\ dist \div b \in Nat
    BY <1>3, <1>6, <2>1
  <2> QED
    BY <2>1, <2>2
<1> HIDE DEF prefix
<1>8. w \in Int /\ (2 + prefix) * 2 ^ bucket = w * P
  <2>1. PICK a : a = 2 ^ extra
    OBVIOUS
  <2>2. a \in Nat /\ 2 ^ bucket = a * P /\ w = (2 + prefix) * a
    BY <1>6, <2>1
  <2>3. prefix = 0 \/ prefix = 1
    BY <1>7
  <2> QED
    BY <1>2, <2>2, <2>3
<1>9. h \in Nat /\ h < 48 /\ h % 2 = prefix /\ 1 + (h \div 2) = extra
  BY <1>5, <1>7
<1> HIDE DEF w, h
<1>10. /\ low \in 0..(P - 1)
       /\ (h * P + low) \div P = h /\ (h * P + low) % P = low
       /\ (h * P + low) \div (2 * P) = h \div 2
       /\ ((w - 4) * P) + low + (((dist - w * P) \div P) * P) = dist - 4 * P
       /\ (dist - w * P) \div P \in Int /\ h * P + low \in Nat
  <2>1. Together(P, dist, w, h, dist % P)
    BY <1>2, <1>3, <1>8, <1>9, PutTogether
  <2>2. Together(P, dist, w, h, low)
    BY <2>1
  <2> HIDE DEF low
  <2> QED
    BY <2>2, Zenon DEF Together
<1>11. rest = (dist - w * P) \div P
  BY <1>8
<1> HIDE DEF low, rest
<1>12. SymbolOf(d + 15, m) = [symbol |-> symbol, extra |-> rest]
  <2>1. SymbolOf(d + 15, m)
          = [symbol |-> 16 + direct + (2 * (extra - 1) + prefix) * P + (dist % P),
             extra  |-> (dist - (2 + prefix) * 2 ^ bucket) \div P]
    BY DEF SymbolOf, p, direct, P, dist, bucket, prefix, extra
  <2> QED
    BY <2>1 DEF h, low, rest
<1>13. /\ symbol \in Nat /\ ~(symbol < 16) /\ ~(symbol < 16 + direct)
       /\ symbol - direct - 16 = h * P + low
  <2>1. PICK c : c = h * P + low
    OBVIOUS
  <2>2. c \in Nat /\ symbol = 16 + direct + c
    BY <1>1, <1>2, <1>9, <1>10, <2>1
  <2> HIDE DEF symbol
  <2> QED
    BY <1>1, <2>1, <2>2
<1>14. symbol < 16 + direct + 48 * P
  <2>1. h * P + low < 48 * P
    <3>1. P = 1 \/ P = 2 \/ P = 4 \/ P = 8
      BY <1>2
    <3> QED
      BY <1>9, <1>10, <3>1
  <2>2. PICK c : c = h * P + low
    OBVIOUS
  <2>3. c \in Nat /\ symbol = 16 + direct + c /\ c < 48 * P
    BY <1>1, <1>2, <1>9, <1>10, <2>1, <2>2
  <2> HIDE DEF symbol
  <2> QED
    BY <1>1, <1>2, <2>3
<1> HIDE DEF symbol
<1>15. NewDistance(r, symbol, p, direct)
         = [state |-> "extra", symbol |-> symbol, push |-> TRUE, bits |-> extra,
            value |-> ((w - 4) * P) + low + direct + 1]
  <2>1. NewDistance(r, symbol, p, direct)
          = [state |-> "extra", symbol |-> symbol, push |-> TRUE,
             bits |-> 1 + ((h * P + low) \div (2 * P)),
             value |-> ((((2 + (((h * P + low) \div P) % 2)) * (2 ^ (1 + ((h * P + low) \div (2 * P))))) - 4) * P)
                       + ((h * P + low) % P) + direct + 1]
    BY <1>2, <1>13 DEF NewDistance, P
  <2> QED
    BY <1>9, <1>10, <2>1 DEF w
<1>16. /\ NewDistance(r, symbol, p, direct).value = ((w - 4) * P) + low + direct + 1
       /\ NewDistance(r, symbol, p, direct).push
  BY <1>15
<1>17. Resolve(NewDistance(r, symbol, p, direct), rest, p) = d
  <2>1. Resolve(NewDistance(r, symbol, p, direct), rest, p)
          = (((w - 4) * P) + low + direct + 1) + rest * P
    BY <1>16 DEF Resolve, P
  <2>2. PICK a, b : a = (w - 4) * P /\ b = rest * P
    OBVIOUS
  <2>3. a \in Int /\ b \in Int /\ low \in Int /\ a + low + b = dist - 4 * P
    <3>1. rest \in Int
      BY <1>10, <1>11
    <3>2. P = 1 \/ P = 2 \/ P = 4 \/ P = 8
      BY <1>2
    <3> QED
      BY <1>8, <1>10, <1>11, <2>2, <3>1, <3>2
  <2>4. (a + low + direct + 1) + b = d
    BY <1>1, <1>2, <1>3, <2>3
  <2> QED
    BY <2>1, <2>2, <2>4
<1>18. symbol < AlphabetSize(p, direct)
  BY <1>14 DEF AlphabetSize, P
<1>19. d + 15 # 0 /\ rest \in Int
  BY <1>1, <1>10, <1>11
<1>20. /\ SymbolOf(d + 15, m).symbol = symbol /\ SymbolOf(d + 15, m).extra = rest
  BY <1>12
<1> QED
  BY <1>13, <1>16, <1>17, <1>18, <1>19, <1>20 DEF NameMeans, p, direct

\* Whatever name the encoder finds for a distance, the decoder finds the
\* distance, and remembers it when the encoder does.
LEMMA NameDecodes ==
  ASSUME NEW m, IsMode(m), NEW r, IsRing(r), NEW d \in 1..MaxDistance, NEW reach \in Nat
  PROVE  NameMeans(m, r, ComputeCode(r, d, reach), d)
<1> DEFINE code == ComputeCode(r, d, reach)
<1>1. CASE code = d + 15
  BY <1>1, DirectCodeMeans, LongCodeMeans
<1>2. CASE code # d + 15
  <2>1. code \in 0..15 /\ ShortDistance(r, code) = d /\ (code = 0 => d = r[1])
    BY <1>2, ShortCodeMeans
  <2> HIDE DEF code
  <2>2. code < 16 /\ code < 16 + m[2]
    BY <2>1 DEF IsMode
  <2>3. SymbolOf(code, m) = [symbol |-> code, extra |-> 0]
    BY <2>2 DEF SymbolOf
  <2>4. /\ NewDistance(r, code, m[1], m[2]).value = d
        /\ NewDistance(r, code, m[1], m[2]).push = (code # 0)
    BY <2>1, <2>2 DEF NewDistance
  <2>5. 2 ^ m[1] \in Nat
    <3>1. 2 ^ m[1] \in {1, 2, 4, 8}
      BY PostfixPower DEF IsMode
    <3> QED
      BY <3>1
  <2>6. Resolve(NewDistance(r, code, m[1], m[2]), 0, m[1]) = d
    BY <2>4, <2>5 DEF Resolve
  <2>7. code < AlphabetSize(m[1], m[2]) /\ code \in Nat
    BY <2>1, <2>5 DEF AlphabetSize, IsMode
  <2>8. SymbolOf(code, m).symbol = code /\ SymbolOf(code, m).extra = 0
    BY <2>3
  <2>9. 0 \in Int
    OBVIOUS
  <2>10. NameMeans(m, r, code, d)
    BY <2>1, <2>4, <2>6, <2>7, <2>8, <2>9, Zenon DEF NameMeans
  <2> QED
    BY <2>10 DEF code
<1> QED
  BY <1>1, <1>2

-----------------------------------------------------------------------------
(* The names of lengths. *)

\* A length in the row of a table.
InRow(n, c, base, bits) == n \in base[c]..(base[c] + 2 ^ bits[c] - 1)

\* A table of lengths: a row begins where the one before it ends, and the last
\* is as long as a metablock.
IsTable(base, bits, first) ==
  /\ \A c \in 1..24 : base[c] \in Nat /\ bits[c] \in 0..24
  /\ base[1] = first /\ bits[24] = 24 /\ base[24] > 0
  /\ \A c \in 1..23 : base[c + 1] = base[c] + 2 ^ bits[c]

\* So are the insert lengths, from none.
LEMMA InsertTable == IsTable(InsertBase, InsertExtraBits, 0)
<1> DEFINE Row(c) == InsertBase[c] \in Nat /\ InsertExtraBits[c] \in 0..24
           Meet(c) == InsertBase[c + 1] = InsertBase[c] + 2 ^ InsertExtraBits[c]
<1>1. /\ InsertBase[1] = 0 /\ InsertBase[2] = 1 /\ InsertBase[3] = 2 /\ InsertBase[4] = 3
      /\ InsertBase[5] = 4 /\ InsertBase[6] = 5 /\ InsertBase[7] = 6 /\ InsertBase[8] = 8
      /\ InsertExtraBits[1] = 0 /\ InsertExtraBits[2] = 0 /\ InsertExtraBits[3] = 0 /\ InsertExtraBits[4] = 0
      /\ InsertExtraBits[5] = 0 /\ InsertExtraBits[6] = 0 /\ InsertExtraBits[7] = 1 /\ InsertExtraBits[8] = 1
  BY DEF InsertBase, InsertExtraBits
<1>2. /\ InsertBase[9] = 10 /\ InsertBase[10] = 14 /\ InsertBase[11] = 18 /\ InsertBase[12] = 26
      /\ InsertBase[13] = 34 /\ InsertBase[14] = 50 /\ InsertBase[15] = 66 /\ InsertBase[16] = 98
      /\ InsertExtraBits[9] = 2 /\ InsertExtraBits[10] = 2 /\ InsertExtraBits[11] = 3 /\ InsertExtraBits[12] = 3
      /\ InsertExtraBits[13] = 4 /\ InsertExtraBits[14] = 4 /\ InsertExtraBits[15] = 5 /\ InsertExtraBits[16] = 5
  BY DEF InsertBase, InsertExtraBits
<1>3. /\ InsertBase[17] = 130 /\ InsertBase[18] = 194 /\ InsertBase[19] = 322 /\ InsertBase[20] = 578
      /\ InsertBase[21] = 1090 /\ InsertBase[22] = 2114 /\ InsertBase[23] = 6210 /\ InsertBase[24] = 22594
      /\ InsertExtraBits[17] = 6 /\ InsertExtraBits[18] = 7 /\ InsertExtraBits[19] = 8 /\ InsertExtraBits[20] = 9
      /\ InsertExtraBits[21] = 10 /\ InsertExtraBits[22] = 12 /\ InsertExtraBits[23] = 14 /\ InsertExtraBits[24] = 24
  BY DEF InsertBase, InsertExtraBits
<1>4. /\ Row(1) /\ Row(2) /\ Row(3) /\ Row(4)
      /\ Row(5) /\ Row(6) /\ Row(7) /\ Row(8)
  BY <1>1
<1>5. /\ Row(9) /\ Row(10) /\ Row(11) /\ Row(12)
      /\ Row(13) /\ Row(14) /\ Row(15) /\ Row(16)
  BY <1>2
<1>6. /\ Row(17) /\ Row(18) /\ Row(19) /\ Row(20)
      /\ Row(21) /\ Row(22) /\ Row(23) /\ Row(24)
  BY <1>3
<1>7. /\ Meet(1) /\ Meet(2) /\ Meet(3) /\ Meet(4)
      /\ Meet(5) /\ Meet(6) /\ Meet(7) /\ Meet(8)
  BY <1>1, <1>2
<1>8. /\ Meet(9) /\ Meet(10) /\ Meet(11) /\ Meet(12)
      /\ Meet(13) /\ Meet(14) /\ Meet(15) /\ Meet(16)
  BY <1>2, <1>3
<1>9. /\ Meet(17) /\ Meet(18) /\ Meet(19) /\ Meet(20)
      /\ Meet(21) /\ Meet(22) /\ Meet(23)
  BY <1>3
<1>0. \A c \in 1..24 :
        \/ c = 1 \/ c = 2 \/ c = 3 \/ c = 4 \/ c = 5 \/ c = 6 \/ c = 7 \/ c = 8
        \/ c = 9 \/ c = 10 \/ c = 11 \/ c = 12 \/ c = 13 \/ c = 14 \/ c = 15 \/ c = 16
        \/ c = 17 \/ c = 18 \/ c = 19 \/ c = 20 \/ c = 21 \/ c = 22 \/ c = 23 \/ c = 24
  OBVIOUS
<1>10. InsertBase[1] = 0 /\ InsertExtraBits[24] = 24 /\ InsertBase[24] > 0
  BY <1>1, <1>3
<1> HIDE DEF Row, Meet
<1>11. \A c \in 1..24 : Row(c)
  BY <1>4, <1>5, <1>6, <1>0, Zenon
<1>12. \A c \in 1..23 : Meet(c)
  <2>1. \A c \in 1..23 : c \in 1..24 /\ c # 24
    OBVIOUS
  <2> QED
    BY <1>7, <1>8, <1>9, <1>0, <2>1, Zenon
<1> QED
  BY <1>10, <1>11, <1>12 DEF IsTable, Row, Meet

\* And the copy lengths, from two.
LEMMA CopyTable == IsTable(CopyBase, CopyExtraBits, 2)
<1> DEFINE Row(c) == CopyBase[c] \in Nat /\ CopyExtraBits[c] \in 0..24
           Meet(c) == CopyBase[c + 1] = CopyBase[c] + 2 ^ CopyExtraBits[c]
<1>1. /\ CopyBase[1] = 2 /\ CopyBase[2] = 3 /\ CopyBase[3] = 4 /\ CopyBase[4] = 5
      /\ CopyBase[5] = 6 /\ CopyBase[6] = 7 /\ CopyBase[7] = 8 /\ CopyBase[8] = 9
      /\ CopyExtraBits[1] = 0 /\ CopyExtraBits[2] = 0 /\ CopyExtraBits[3] = 0 /\ CopyExtraBits[4] = 0
      /\ CopyExtraBits[5] = 0 /\ CopyExtraBits[6] = 0 /\ CopyExtraBits[7] = 0 /\ CopyExtraBits[8] = 0
  BY DEF CopyBase, CopyExtraBits
<1>2. /\ CopyBase[9] = 10 /\ CopyBase[10] = 12 /\ CopyBase[11] = 14 /\ CopyBase[12] = 18
      /\ CopyBase[13] = 22 /\ CopyBase[14] = 30 /\ CopyBase[15] = 38 /\ CopyBase[16] = 54
      /\ CopyExtraBits[9] = 1 /\ CopyExtraBits[10] = 1 /\ CopyExtraBits[11] = 2 /\ CopyExtraBits[12] = 2
      /\ CopyExtraBits[13] = 3 /\ CopyExtraBits[14] = 3 /\ CopyExtraBits[15] = 4 /\ CopyExtraBits[16] = 4
  BY DEF CopyBase, CopyExtraBits
<1>3. /\ CopyBase[17] = 70 /\ CopyBase[18] = 102 /\ CopyBase[19] = 134 /\ CopyBase[20] = 198
      /\ CopyBase[21] = 326 /\ CopyBase[22] = 582 /\ CopyBase[23] = 1094 /\ CopyBase[24] = 2118
      /\ CopyExtraBits[17] = 5 /\ CopyExtraBits[18] = 5 /\ CopyExtraBits[19] = 6 /\ CopyExtraBits[20] = 7
      /\ CopyExtraBits[21] = 8 /\ CopyExtraBits[22] = 9 /\ CopyExtraBits[23] = 10 /\ CopyExtraBits[24] = 24
  BY DEF CopyBase, CopyExtraBits
<1>4. /\ Row(1) /\ Row(2) /\ Row(3) /\ Row(4)
      /\ Row(5) /\ Row(6) /\ Row(7) /\ Row(8)
  BY <1>1
<1>5. /\ Row(9) /\ Row(10) /\ Row(11) /\ Row(12)
      /\ Row(13) /\ Row(14) /\ Row(15) /\ Row(16)
  BY <1>2
<1>6. /\ Row(17) /\ Row(18) /\ Row(19) /\ Row(20)
      /\ Row(21) /\ Row(22) /\ Row(23) /\ Row(24)
  BY <1>3
<1>7. /\ Meet(1) /\ Meet(2) /\ Meet(3) /\ Meet(4)
      /\ Meet(5) /\ Meet(6) /\ Meet(7) /\ Meet(8)
  BY <1>1, <1>2
<1>8. /\ Meet(9) /\ Meet(10) /\ Meet(11) /\ Meet(12)
      /\ Meet(13) /\ Meet(14) /\ Meet(15) /\ Meet(16)
  BY <1>2, <1>3
<1>9. /\ Meet(17) /\ Meet(18) /\ Meet(19) /\ Meet(20)
      /\ Meet(21) /\ Meet(22) /\ Meet(23)
  BY <1>3
<1>0. \A c \in 1..24 :
        \/ c = 1 \/ c = 2 \/ c = 3 \/ c = 4 \/ c = 5 \/ c = 6 \/ c = 7 \/ c = 8
        \/ c = 9 \/ c = 10 \/ c = 11 \/ c = 12 \/ c = 13 \/ c = 14 \/ c = 15 \/ c = 16
        \/ c = 17 \/ c = 18 \/ c = 19 \/ c = 20 \/ c = 21 \/ c = 22 \/ c = 23 \/ c = 24
  OBVIOUS
<1>10. CopyBase[1] = 2 /\ CopyExtraBits[24] = 24 /\ CopyBase[24] > 0
  BY <1>1, <1>3
<1> HIDE DEF Row, Meet
<1>11. \A c \in 1..24 : Row(c)
  BY <1>4, <1>5, <1>6, <1>0, Zenon
<1>12. \A c \in 1..23 : Meet(c)
  <2>1. \A c \in 1..23 : c \in 1..24 /\ c # 24
    OBVIOUS
  <2> QED
    BY <1>7, <1>8, <1>9, <1>0, <2>1, Zenon
<1> QED
  BY <1>10, <1>11, <1>12 DEF IsTable, Row, Meet

\* A length up to a metablock's is found in a row.
LEMMA LengthCodeIs ==
  ASSUME NEW base, NEW bits, NEW first \in Nat, IsTable(base, bits, first),
         NEW n \in first..MaxMetaBlock
  PROVE  \E c \in 1..24 : /\ LengthCode(n, base, bits) = [code |-> c - 1, extra |-> n - base[c]]
                          /\ InRow(n, c, base, bits)
<1> DEFINE T == {c \in 1..24 : n < base[c] + 2 ^ bits[c]}
           P(c) == /\ InRow(n, c, base, bits)
                   /\ \A d \in 1..(c - 1) : ~InRow(n, d, base, bits)
<1>1. n \in Nat /\ n <= 2 ^ 24
  <2>1. 2 ^ 24 \in Nat
    BY PowersAreNumbers DEF Power
  <2> QED
    BY <2>1 DEF MaxMetaBlock
<1>2. \A c \in 1..24 : base[c] \in Nat /\ bits[c] \in 0..31 /\ 2 ^ bits[c] \in Nat
  <2> TAKE c \in 1..24
  <2>1. base[c] \in Nat /\ bits[c] \in 0..31
    BY DEF IsTable
  <2>2. Power(bits[c])
    BY <2>1, PowersAreNumbers
  <2> QED
    BY <2>1, <2>2 DEF Power
<1>3. 24 \in T
  <2>1. bits[24] = 24 /\ base[24] \in Nat /\ base[24] > 0
    BY <1>2 DEF IsTable
  <2>2. PICK a : a = 2 ^ bits[24]
    OBVIOUS
  <2>3. a \in Nat /\ n <= a
    <3>1. a = 2 ^ 24
      BY <2>1, <2>2, Zenon
    <3> QED
      BY <1>1, <1>2, <2>2, <3>1
  <2>4. n < base[24] + a
    BY <1>1, <2>1, <2>3
  <2>5. n < base[24] + 2 ^ bits[24] /\ 24 \in 1..24
    BY <2>2, <2>4
  <2> QED
    BY <2>5, Zenon
<1>4. PICK c \in T : \A j \in T : c <= j
  <2>1. T \in SUBSET Nat
    OBVIOUS
  <2> HIDE DEF T
  <2> QED
    BY <1>3, <2>1, LeastNumber
<1>5. c \in 1..24 /\ n < base[c] + 2 ^ bits[c]
  OBVIOUS
<1>6. \A d \in 1..24 : d < c => base[d] + 2 ^ bits[d] <= n
  <2> TAKE d \in 1..24
  <2> HAVE d < c
  <2>1. d \notin T
    BY <1>4, <1>5
  <2> QED
    BY <1>1, <1>2, <2>1
<1>7. base[c] <= n
  <2>1. CASE c = 1
    BY <2>1 DEF IsTable
  <2>2. CASE c # 1
    <3>1. PICK d : d = c - 1
      OBVIOUS
    <3>2. d \in 1..23 /\ d \in 1..24 /\ d < c /\ c = d + 1
      BY <1>5, <2>2, <3>1
    <3> QED
      BY <1>6, <3>2 DEF IsTable
  <2> QED
    BY <2>1, <2>2
<1>8. InRow(n, c, base, bits)
  BY <1>1, <1>2, <1>5, <1>7 DEF InRow
<1>9. \A d \in 1..(c - 1) : ~InRow(n, d, base, bits)
  <2> TAKE d \in 1..(c - 1)
  <2>1. d \in 1..24 /\ d < c
    BY <1>5
  <2> QED
    BY <1>1, <1>2, <1>6, <2>1 DEF InRow
<1>10. P(c)
  BY <1>8, <1>9
<1> DEFINE code == CHOOSE e \in 1..24 : P(e)
<1>11. LengthCode(n, base, bits) = [code |-> code - 1, extra |-> n - base[code]]
  BY DEF LengthCode, InRow
<1>12. P(code) => InRow(n, code, base, bits)
  OBVIOUS
<1> HIDE DEF P
<1>13. code \in 1..24 /\ P(code)
  BY <1>5, <1>10
<1> HIDE DEF code
<1> QED
  BY <1>11, <1>12, <1>13

\* A symbol is a range of 64, and eight rows of eight columns in it.
LEMMA SymbolSplits ==
  ASSUME NEW range \in 0..10, NEW a \in 0..7, NEW b \in 0..7
  PROVE  LET s == (64 * range) + (b + (8 * a)) IN
         s \in Nat /\ s \div 64 = range /\ (s \div 8) % 8 = a /\ s % 8 = b
OBVIOUS

\* What the decoder makes of a symbol: two codes, and whether the distance is
\* the last one.
MeansCodes(s, insertCode, copyCode, implicit) ==
  /\ s \in Nat /\ s \div 64 \in 0..10
  /\ Groups[(s \div 64) + 1][1] + ((s \div 8) % 8) = insertCode
  /\ Groups[(s \div 64) + 1][2] + (s % 8) = copyCode
  /\ RequiresDistance(s) <=> ~implicit
  /\ s \div 64 < 2 <=> implicit

\* A range of symbols, its codes and the rows and columns.
LEMMA RangeMeans ==
  ASSUME NEW range \in 0..10, NEW a \in 0..7, NEW b \in 0..7
  PROVE  MeansCodes((64 * range) + (b + (8 * a)), Groups[range + 1][1] + a,
                    Groups[range + 1][2] + b, range < 2)
<1> DEFINE s == (64 * range) + (b + (8 * a))
<1>1. s \in Nat /\ s \div 64 = range /\ (s \div 8) % 8 = a /\ s % 8 = b
  BY SymbolSplits
<1>2. s >= 128 <=> ~(range < 2)
  OBVIOUS
<1> HIDE DEF s
<1>3. MeansCodes(s, Groups[range + 1][1] + a, Groups[range + 1][2] + b, range < 2)
  BY <1>1, <1>2 DEF MeansCodes, RequiresDistance
<1> QED
  BY <1>3 DEF s

\* The symbol of two codes means the two codes, and leaves the distance out only
\* when it may.
LEMMA CombinedMeans ==
  ASSUME NEW i \in 0..23, NEW c \in 0..23, NEW u \in BOOLEAN
  PROVE  \E implicit \in BOOLEAN :
           MeansCodes(Combined(i, c, u), i, c, implicit) /\ (implicit => u)
<1> DEFINE a == i % 8  b == c % 8
           low == b + (8 * a)
           Goal(range) == /\ Combined(i, c, u) = (64 * range) + low
                          /\ Groups[range + 1][1] + a = i /\ Groups[range + 1][2] + b = c
                          /\ range < 2 => u
<1>1. a \in 0..7 /\ b \in 0..7
  OBVIOUS
<1>2. /\ Groups[1][1] = 0 /\ Groups[1][2] = 0
      /\ Groups[2][1] = 0 /\ Groups[2][2] = 8
      /\ Groups[3][1] = 0 /\ Groups[3][2] = 0
      /\ Groups[4][1] = 0 /\ Groups[4][2] = 8
      /\ Groups[5][1] = 8 /\ Groups[5][2] = 0
      /\ Groups[6][1] = 8 /\ Groups[6][2] = 8
      /\ Groups[7][1] = 0 /\ Groups[7][2] = 16
      /\ Groups[8][1] = 16 /\ Groups[8][2] = 0
      /\ Groups[9][1] = 8 /\ Groups[9][2] = 16
      /\ Groups[10][1] = 16 /\ Groups[10][2] = 8
      /\ Groups[11][1] = 16 /\ Groups[11][2] = 16
  BY DEF Groups
<1>3. /\ (5377344 \div (2 ^ (0 + 6))) % 4 = 1
      /\ (5377344 \div (2 ^ (2 + 6))) % 4 = 1
      /\ (5377344 \div (2 ^ (4 + 6))) % 4 = 3
      /\ (5377344 \div (2 ^ (6 + 6))) % 4 = 0
      /\ (5377344 \div (2 ^ (8 + 6))) % 4 = 0
      /\ (5377344 \div (2 ^ (10 + 6))) % 4 = 2
      /\ (5377344 \div (2 ^ (12 + 6))) % 4 = 0
      /\ (5377344 \div (2 ^ (14 + 6))) % 4 = 1
      /\ (5377344 \div (2 ^ (16 + 6))) % 4 = 1
  BY SMT
<1> DEFINE Found == \E range \in 0..10 : Goal(range)
<1>4. u /\ i < 8 /\ c < 16 => Found
  <2> SUFFICES ASSUME u /\ i < 8 /\ c < 16 PROVE Found
    OBVIOUS
  <2> DEFINE range == IF c < 8 THEN 0 ELSE 1
  <2>1. Combined(i, c, u) = (64 * range) + low /\ i = a /\ c = (8 * range) + b
    BY DEF Combined
  <2>2. range \in 0..10 /\ range < 2 /\ (range = 0 \/ range = 1)
    OBVIOUS
  <2> HIDE DEF a, b, low, range
  <2>3. Groups[range + 1][1] + a = i /\ Groups[range + 1][2] + b = c
    BY <1>1, <1>2, <2>1, <2>2
  <2>4. Goal(range)
    BY <2>1, <2>2, <2>3
  <2> QED
    BY <2>2, <2>4
<1>5. ~(u /\ i < 8 /\ c < 16) => Found
  <2> SUFFICES ASSUME ~(u /\ i < 8 /\ c < 16) PROVE Found
    OBVIOUS
  <2> DEFINE I == i \div 8  C == c \div 8
             offset == 2 * (C + (3 * I))
             cell   == (5377344 \div (2 ^ (offset + 6))) % 4
  <2>1. Combined(i, c, u) = (32 * offset) + 64 + (64 * cell) + low
    BY DEF Combined
  <2>2. i = (8 * I) + a /\ c = (8 * C) + b
    OBVIOUS
  <2>3. I \in 0..2 /\ C \in 0..2
    OBVIOUS
  <2> HIDE DEF I, C, a, b
  <2>4. (I = 0 \/ I = 1 \/ I = 2) /\ (C = 0 \/ C = 1 \/ C = 2)
    BY <2>3
  <2>5. CASE I = 0 /\ C = 0
    <3>1. offset = 0 /\ cell = 1
      BY <1>3, <2>5
    <3> HIDE DEF offset, cell
    <3>2. Goal(2)
      BY <1>1, <1>2, <2>1, <2>2, <2>5, <3>1
    <3> QED
      BY <3>2
  <2>6. CASE I = 0 /\ C = 1
    <3>1. offset = 2 /\ cell = 1
      BY <1>3, <2>6
    <3> HIDE DEF offset, cell
    <3>2. Goal(3)
      BY <1>1, <1>2, <2>1, <2>2, <2>6, <3>1
    <3> QED
      BY <3>2
  <2>7. CASE I = 0 /\ C = 2
    <3>1. offset = 4 /\ cell = 3
      BY <1>3, <2>7
    <3> HIDE DEF offset, cell
    <3>2. Goal(6)
      BY <1>1, <1>2, <2>1, <2>2, <2>7, <3>1
    <3> QED
      BY <3>2
  <2>8. CASE I = 1 /\ C = 0
    <3>1. offset = 6 /\ cell = 0
      BY <1>3, <2>8
    <3> HIDE DEF offset, cell
    <3>2. Goal(4)
      BY <1>1, <1>2, <2>1, <2>2, <2>8, <3>1
    <3> QED
      BY <3>2
  <2>9. CASE I = 1 /\ C = 1
    <3>1. offset = 8 /\ cell = 0
      BY <1>3, <2>9
    <3> HIDE DEF offset, cell
    <3>2. Goal(5)
      BY <1>1, <1>2, <2>1, <2>2, <2>9, <3>1
    <3> QED
      BY <3>2
  <2>10. CASE I = 1 /\ C = 2
    <3>1. offset = 10 /\ cell = 2
      BY <1>3, <2>10
    <3> HIDE DEF offset, cell
    <3>2. Goal(8)
      BY <1>1, <1>2, <2>1, <2>2, <2>10, <3>1
    <3> QED
      BY <3>2
  <2>11. CASE I = 2 /\ C = 0
    <3>1. offset = 12 /\ cell = 0
      BY <1>3, <2>11
    <3> HIDE DEF offset, cell
    <3>2. Goal(7)
      BY <1>1, <1>2, <2>1, <2>2, <2>11, <3>1
    <3> QED
      BY <3>2
  <2>12. CASE I = 2 /\ C = 1
    <3>1. offset = 14 /\ cell = 1
      BY <1>3, <2>12
    <3> HIDE DEF offset, cell
    <3>2. Goal(9)
      BY <1>1, <1>2, <2>1, <2>2, <2>12, <3>1
    <3> QED
      BY <3>2
  <2>13. CASE I = 2 /\ C = 2
    <3>1. offset = 16 /\ cell = 1
      BY <1>3, <2>13
    <3> HIDE DEF offset, cell
    <3>2. Goal(10)
      BY <1>1, <1>2, <2>1, <2>2, <2>13, <3>1
    <3> QED
      BY <3>2
  <2> QED
    BY <2>4, <2>5, <2>6, <2>7, <2>8, <2>9, <2>10, <2>11, <2>12, <2>13
<1>6. PICK range \in 0..10 : Goal(range)
  BY <1>4, <1>5
<1>7. MeansCodes((64 * range) + low, Groups[range + 1][1] + a, Groups[range + 1][2] + b, range < 2)
  <2> HIDE DEF a, b
  <2> QED
    BY <1>1, RangeMeans
<1>8. (range < 2) \in BOOLEAN
  OBVIOUS
<1> HIDE DEF low, a, b
<1> QED
  BY <1>6, <1>7, <1>8

\* What fits in a number of bits is read back from them.
LEMMA BitsHold ==
  ASSUME NEW k \in 0..31, NEW x \in 0..(2 ^ k - 1)
  PROVE  x % (2 ^ k) = x
<1>1. PICK B : B = 2 ^ k
  OBVIOUS
<1>2. B \in Nat /\ B > 0
  BY <1>1, PowersAreNumbers DEF Power
<1>3. x \in 0..(B - 1)
  BY <1>1
<1>4. PICK q, r : q = x \div B /\ r = x % B
  OBVIOUS
<1>5. q \in Int /\ r \in 0..(B - 1) /\ x = B * q + r
  BY <1>2, <1>3, <1>4
<1>6. q = 0
  <2>1. q >= 1 => B * q >= B
    BY <1>2, <1>5
  <2>2. q <= -1 => B * q <= 0 - B
    BY <1>2, <1>5
  <2> QED
    BY <1>2, <1>3, <1>5, <2>1, <2>2
<1>7. x = r
  BY <1>2, <1>3, <1>5, <1>6
<1> QED
  BY <1>1, <1>4, <1>7

\* The decoder reads of a command the two lengths it was written for, and finds
\* its distance left out only if it may be.
CommandReads(e, insertLength, copyLength, useLast) ==
  LET read == CommandOf(e) IN
  /\ e.symbol \in Nat /\ e.insertExtra \in Nat /\ e.copyExtra \in Nat
  /\ read.insert = insertLength /\ read.copy = copyLength
  /\ read.implicit <=> ~RequiresDistance(e.symbol)
  /\ read.implicit => useLast

LEMMA CommandMeans ==
  ASSUME NEW n \in 0..MaxMetaBlock, NEW c \in 2..MaxMetaBlock, NEW u \in BOOLEAN
  PROVE  CommandReads(ExplicitCommand(n, c, u), n, c, u)
<1>1. PICK i \in 1..24 :
        /\ LengthCode(n, InsertBase, InsertExtraBits) = [code |-> i - 1, extra |-> n - InsertBase[i]]
        /\ InRow(n, i, InsertBase, InsertExtraBits)
  BY InsertTable, LengthCodeIs, 0 \in Nat
<1>2. PICK j \in 1..24 :
        /\ LengthCode(c, CopyBase, CopyExtraBits) = [code |-> j - 1, extra |-> c - CopyBase[j]]
        /\ InRow(c, j, CopyBase, CopyExtraBits)
  BY CopyTable, LengthCodeIs, 2 \in Nat
<1> DEFINE s == Combined(i - 1, j - 1, u)
           x == n - InsertBase[i]  y == c - CopyBase[j]
           e == [symbol |-> s, insertExtra |-> x, copyExtra |-> y]
<1>3. ExplicitCommand(n, c, u) = e
  BY <1>1, <1>2 DEF ExplicitCommand
<1>4. PICK implicit \in BOOLEAN : MeansCodes(s, i - 1, j - 1, implicit) /\ (implicit => u)
  <2>1. i - 1 \in 0..23 /\ j - 1 \in 0..23
    OBVIOUS
  <2> QED
    BY <2>1, CombinedMeans
<1>5. x \in Nat /\ x % (2 ^ InsertExtraBits[i]) = x /\ InsertBase[i] + x = n
  <2>1. InsertBase[i] \in Nat /\ InsertExtraBits[i] \in 0..31
    BY InsertTable DEF IsTable
  <2>2. 2 ^ InsertExtraBits[i] \in Nat
    BY <2>1, PowersAreNumbers DEF Power
  <2>3. n \in Nat /\ InsertBase[i] <= n /\ n <= InsertBase[i] + 2 ^ InsertExtraBits[i] - 1
    BY <1>1, <2>1, <2>2 DEF InRow
  <2>4. x \in 0..(2 ^ InsertExtraBits[i] - 1) /\ InsertBase[i] + x = n /\ x \in Nat
    BY <2>1, <2>2, <2>3
  <2> HIDE DEF x
  <2> QED
    BY <2>1, <2>4, BitsHold
<1>6. y \in Nat /\ y % (2 ^ CopyExtraBits[j]) = y /\ CopyBase[j] + y = c
  <2>1. CopyBase[j] \in Nat /\ CopyExtraBits[j] \in 0..31
    BY CopyTable DEF IsTable
  <2>2. 2 ^ CopyExtraBits[j] \in Nat
    BY <2>1, PowersAreNumbers DEF Power
  <2>3. c \in Nat /\ CopyBase[j] <= c /\ c <= CopyBase[j] + 2 ^ CopyExtraBits[j] - 1
    BY <1>2, <2>1, <2>2 DEF InRow
  <2>4. y \in 0..(2 ^ CopyExtraBits[j] - 1) /\ CopyBase[j] + y = c /\ y \in Nat
    BY <2>1, <2>2, <2>3
  <2> HIDE DEF y
  <2> QED
    BY <2>1, <2>4, BitsHold
<1> HIDE DEF s, x, y
<1>7. /\ CommandOf(e).insert = InsertBase[(i - 1) + 1] + (x % (2 ^ InsertExtraBits[(i - 1) + 1]))
      /\ CommandOf(e).copy = CopyBase[(j - 1) + 1] + (y % (2 ^ CopyExtraBits[(j - 1) + 1]))
      /\ CommandOf(e).implicit = (s \div 64 < 2)
  <2>1. CommandOf(e) =
          [insert |-> InsertBase[(i - 1) + 1] + (x % (2 ^ InsertExtraBits[(i - 1) + 1])),
           copy   |-> CopyBase[(j - 1) + 1] + (y % (2 ^ CopyExtraBits[(j - 1) + 1])),
           implicit |-> s \div 64 < 2]
    BY <1>4, Zenon DEF CommandOf, MeansCodes
  <2> QED
    BY ONLY <2>1, SMT
<1>8. (i - 1) + 1 = i /\ (j - 1) + 1 = j
  OBVIOUS
<1>9. CommandOf(e).insert = n /\ CommandOf(e).copy = c
  BY <1>5, <1>6, <1>7, <1>8
<1>10. e.symbol = s /\ e.insertExtra = x /\ e.copyExtra = y
  OBVIOUS
<1> HIDE DEF e
<1>11. s \in Nat /\ (RequiresDistance(s) <=> ~implicit) /\ (s \div 64 < 2 <=> implicit)
  BY <1>4 DEF MeansCodes
<1>12. CommandReads(e, n, c, u)
  BY <1>4, <1>5, <1>6, <1>7, <1>9, <1>10, <1>11, Zenon DEF CommandReads
<1> QED
  BY <1>3, <1>12

-----------------------------------------------------------------------------
(* What is written. *)

Kinds == {"stored", "compressed", "last", "end", "command", "literals", "distance"}
Items == [kind : Kinds, symbol : Nat, x : Int, y : Int]

\* An item in front: it is read, and the rest is left.
LEMMA HeadFollows ==
  ASSUME NEW X, NEW it \in X, NEW s \in Seq(X)
  PROVE  /\ <<it>> \o s \in Seq(X) /\ <<it>> \o s # <<>>
         /\ Head(<<it>> \o s) = it /\ Tail(<<it>> \o s) = s
<1> DEFINE w == <<it>> \o s
<1>1. <<it>> \in Seq(X) /\ Len(<<it>>) = 1 /\ <<it>>[1] = it
  OBVIOUS
<1>2. /\ w \in Seq(X) /\ Len(w) = 1 + Len(s) /\ Len(s) \in Nat
      /\ \A i \in 1..(1 + Len(s)) : w[i] = IF i <= 1 THEN <<it>>[i] ELSE s[i - 1]
  <2>1. /\ w \in Seq(X) /\ Len(w) = Len(<<it>>) + Len(s)
        /\ \A i \in 1..(Len(<<it>>) + Len(s)) :
             w[i] = IF i <= Len(<<it>>) THEN <<it>>[i] ELSE s[i - Len(<<it>>)]
    BY <1>1, ConcatProperties, Zenon
  <2>2. Len(s) \in Nat
    OBVIOUS
  <2> QED
    BY <1>1, <2>1, <2>2
<1> HIDE DEF w
<1>3. w # <<>>
  BY <1>2
<1>4. Head(w) = it
  <2>1. Head(w) = w[1]
    BY <1>2, <1>3, HeadTailProperties
  <2>2. 1 \in 1..(1 + Len(s)) /\ 1 <= 1
    BY <1>2
  <2> QED
    BY <1>1, <1>2, <2>1, <2>2
<1>5. Tail(w) = s
  <2>1. Tail(w) \in Seq(X) /\ Len(Tail(w)) = Len(s)
    BY <1>2, <1>3, HeadTailProperties
  <2>2. \A i \in 1..Len(s) : Tail(w)[i] = s[i]
    <3> TAKE i \in 1..Len(s)
    <3>1. i + 1 \in 1..(1 + Len(s)) /\ ~(i + 1 <= 1) /\ (i + 1) - 1 = i
      BY <1>2
    <3>2. Tail(w)[i] = w[i + 1]
      BY <1>2, <1>3, <2>1, HeadTailProperties
    <3> QED
      BY <1>2, <3>1, <3>2
  <2> QED
    BY <2>1, <2>2, SeqEqual
<1> QED
  BY <1>2, <1>3, <1>4, <1>5 DEF w

\* A sequence that is written from its end exists.
Backwards(g, n, X, last, piece) ==
  /\ g \in [0..n -> Seq(X)] /\ g[n] = last
  /\ \A i \in 0..(n - 1) : g[i] = piece[i + 1] \o g[i + 1]

LEMMA WrittenBackwards ==
  ASSUME NEW n \in Nat, NEW X, NEW last \in Seq(X), NEW piece \in [1..n -> Seq(X)]
  PROVE  \E g : Backwards(g, n, X, last, piece)
<1> DEFINE Is(g, j) == /\ g \in [(n - j)..n -> Seq(X)] /\ g[n] = last
                       /\ \A i \in (n - j)..(n - 1) : g[i] = piece[i + 1] \o g[i + 1]
           T == {j \in 0..n : ~\E g : Is(g, j)}
<1>1. T = {}
  <2> SUFFICES ASSUME T # {} PROVE FALSE
    OBVIOUS
  <2>1. PICK j \in T : \A k \in T : j <= k
    <3>1. T \in SUBSET Nat
      <4> HIDE DEF Is
      <4> QED
        OBVIOUS
    <3> HIDE DEF T
    <3> QED
      BY <3>1, LeastNumber
  <2>2. j \in 0..n /\ ~\E g : Is(g, j)
    <3> HIDE DEF Is
    <3> QED
      OBVIOUS
  <2>3. Is([i \in n..n |-> last], 0)
    <3>1. n - 0 = n /\ n..n = {n} /\ n..(n - 1) = {}
      OBVIOUS
    <3>2. [i \in {n} |-> last] \in [{n} -> Seq(X)] /\ [i \in {n} |-> last][n] = last
      OBVIOUS
    <3> QED
      BY <3>1, <3>2
  <2>4. j # 0
    BY <2>2, <2>3
  <2>5. PICK k : k = j - 1
    OBVIOUS
  <2>6. k \in 0..n /\ ~(j <= k) /\ j = k + 1 /\ k \notin T
    <3>1. k \in 0..n /\ ~(j <= k) /\ j = k + 1
      BY <2>2, <2>4, <2>5
    <3> HIDE DEF T
    <3> QED
      BY <2>1, <3>1
  <2>7. PICK g : Is(g, k)
    <3> HIDE DEF Is
    <3> QED
      BY <2>6
  <2>8. PICK a : a = n - j
    OBVIOUS
  <2>9. a \in Nat /\ a \in 0..(n - 1) /\ n - k = a + 1 /\ a + 1 \in 1..n
    BY <2>2, <2>6, <2>8
  <2> DEFINE h == [i \in a..n |-> IF i = a THEN piece[a + 1] \o g[a + 1] ELSE g[i]]
  <2>10. g \in [(a + 1)..n -> Seq(X)] /\ g[n] = last
    BY <2>7, <2>9
  <2>11. \A i \in (a + 1)..(n - 1) : g[i] = piece[i + 1] \o g[i + 1]
    BY <2>7, <2>9
  <2>12. piece[a + 1] \o g[a + 1] \in Seq(X)
    <3>1. g[a + 1] \in Seq(X) /\ piece[a + 1] \in Seq(X)
      BY <2>9, <2>10
    <3> QED
      BY <3>1, ConcatProperties
  <2>13. h \in [a..n -> Seq(X)]
    <3>1. \A i \in a..n : i # a => i \in (a + 1)..n
      BY <2>9
    <3> QED
      BY <2>10, <2>12, <3>1
  <2>14. h[n] = last
    BY <2>9, <2>10
  <2>15. \A i \in a..(n - 1) : h[i] = piece[i + 1] \o h[i + 1]
    <3> TAKE i \in a..(n - 1)
    <3>1. i \in a..n /\ i + 1 \in a..n /\ i + 1 # a /\ (i # a => i \in (a + 1)..(n - 1))
      BY <2>9
    <3>2. h[i + 1] = g[i + 1]
      BY <3>1
    <3>3. h[i] = IF i = a THEN piece[a + 1] \o g[a + 1] ELSE g[i]
      BY <3>1
    <3> HIDE DEF h
    <3> QED
      BY <2>11, <3>1, <3>2, <3>3
  <2> HIDE DEF h
  <2>16. Is(h, j)
    BY <2>8, <2>13, <2>14, <2>15
  <2> QED
    BY <2>2, <2>16
<1>2. n \in 0..n /\ n - n = 0
  OBVIOUS
<1>3. PICK g : Is(g, n)
  <2> HIDE DEF Is
  <2> QED
    BY <1>1, <1>2
<1> QED
  BY <1>2, <1>3 DEF Backwards

\* A command as it is parsed, and what the names of its lengths and its distance
\* need.
Parsed == [insert : Nat, copy : Nat, distance : Nat, code : Nat, at : Nat, length : Nat]

Writable(m, c) ==
  /\ c.insert \in 0..MaxMetaBlock /\ c.copy \in 2..MaxMetaBlock
  /\ SymbolOf(c.code, m).symbol \in Nat /\ SymbolOf(c.code, m).extra \in Int

CommandFor(c) == ExplicitCommand(c.insert, c.copy, c.code = 0)
DistanceItem(m, c) == Item("distance", SymbolOf(c.code, m).symbol, SymbolOf(c.code, m).extra, 0)
Named(m, c) == IF RequiresDistance(CommandFor(c).symbol) THEN <<DistanceItem(m, c)>> ELSE <<>>

\* A command is written to be read.
LEMMA CommandForMeans ==
  ASSUME NEW m, NEW c, Writable(m, c)
  PROVE  CommandReads(CommandFor(c), c.insert, c.copy, c.code = 0)
BY CommandMeans, (c.code = 0) \in BOOLEAN DEF Writable, CommandFor

\* It is an item of the metablock.
LEMMA CommandIsItem ==
  ASSUME NEW e, NEW i, NEW c, NEW u, CommandReads(e, i, c, u)
  PROVE  CommandItem(e) \in Items
BY DEF CommandReads, CommandItem, Item, Items, Kinds

\* So are literals,
LEMMA LiteralsAreItems ==
  ASSUME NEW n \in Nat PROVE Literals(n) \in Seq(Items)
<1>1. Item("literals", 0, n, 0) \in Items
  BY DEF Item, Items, Kinds
<1> QED
  BY <1>1 DEF Literals

\* a distance,
LEMMA NamedIsItems ==
  ASSUME NEW m, NEW c, Writable(m, c)
  PROVE  DistanceItem(m, c) \in Items /\ Named(m, c) \in Seq(Items)
<1>1. DistanceItem(m, c) \in Items
  BY DEF DistanceItem, Item, Items, Kinds, Writable
<1> QED
  BY <1>1 DEF Named

\* and the tail of a chunk.
LEMMA TailIsItems ==
  ASSUME NEW tail \in 0..MaxMetaBlock
  PROVE  TailItems(tail) \in Seq(Items) /\ CommandItem(InsertCommand(tail)) \in Items
<1>1. tail \in Nat /\ 4 \in 2..MaxMetaBlock
  BY DEF MaxMetaBlock
<1>2. CommandReads(InsertCommand(tail), tail, 4, FALSE)
  BY <1>1, CommandMeans DEF InsertCommand
<1>3. CommandItem(InsertCommand(tail)) \in Items
  BY <1>2, CommandIsItem
<1>4. Literals(tail) \in Seq(Items)
  BY <1>1, LiteralsAreItems
<1>5. <<CommandItem(InsertCommand(tail))>> \o Literals(tail) \in Seq(Items)
  BY <1>3, <1>4, HeadFollows
<1>6. <<>> \in Seq(Items)
  OBVIOUS
<1> QED
  BY <1>3, <1>5, <1>6 DEF TailItems

\* A command's items, and then what follows.
LEMMA CommandItemsAre ==
  ASSUME NEW c, Writable(mode, c)
  PROVE  /\ CommandItems(c) \in Seq(Items)
         /\ \A s \in Seq(Items) :
              CommandItems(c) \o s
                = <<CommandItem(CommandFor(c))>> \o (Literals(c.insert) \o (Named(mode, c) \o s))
<1> DEFINE it == CommandItem(CommandFor(c))
           L  == Literals(c.insert)
           N  == Named(mode, c)
<1>1. it \in Items
  BY CommandForMeans, CommandIsItem
<1>2. L \in Seq(Items) /\ N \in Seq(Items)
  <2>1. c.insert \in Nat
    BY DEF Writable, MaxMetaBlock
  <2> QED
    BY <2>1, LiteralsAreItems, NamedIsItems
<1>3. CommandItems(c) = (<<it>> \o L) \o N
  BY DEF CommandItems, CommandFor, Named, DistanceItem
<1> HIDE DEF it, L, N
<1>4. <<it>> \in Seq(Items) /\ <<it>> \o L \in Seq(Items) /\ (<<it>> \o L) \o N \in Seq(Items)
  BY <1>1, <1>2, ConcatProperties
<1>5. \A s \in Seq(Items) : ((<<it>> \o L) \o N) \o s = <<it>> \o (L \o (N \o s))
  <2> TAKE s \in Seq(Items)
  <2>1. N \o s \in Seq(Items)
    BY <1>2, ConcatProperties
  <2>2. ((<<it>> \o L) \o N) \o s = (<<it>> \o L) \o (N \o s)
    BY <1>2, <1>4, ConcatAssociative
  <2>3. (<<it>> \o L) \o (N \o s) = <<it>> \o (L \o (N \o s))
    BY <1>2, <1>4, <2>1, ConcatAssociative
  <2> QED
    BY <2>2, <2>3
<1> QED
  BY <1>3, <1>4, <1>5 DEF it, L, N

\* What is written of a chunk from each of its commands on.
Rests(m, cs, rest, tail) ==
  /\ rest \in [0..Len(cs) -> Seq(Items)] /\ rest[Len(cs)] = TailItems(tail)
  /\ \A i \in 1..Len(cs) :
       rest[i - 1] = <<CommandItem(CommandFor(cs[i]))>>
                     \o (Literals(cs[i].insert) \o (Named(m, cs[i]) \o rest[i]))

LEMMA ChunkItemsAre ==
  ASSUME NEW cs \in Seq(Parsed), \A i \in 1..Len(cs) : Writable(mode, cs[i]),
         NEW tail \in 0..MaxMetaBlock
  PROVE  \E rest : Rests(mode, cs, rest, tail) /\ ChunkItems(cs, tail) = rest[0]
<1> DEFINE n == Len(cs)
           last == TailItems(tail)
           piece == [i \in 1..n |-> CommandItems(cs[i])]
           Is(g) == g = [i \in 0..Len(cs) |-> IF i = Len(cs) THEN TailItems(tail)
                                              ELSE CommandItems(cs[i + 1]) \o g[i + 1]]
           rest == CHOOSE g : Is(g)
<1>1. n \in Nat /\ last \in Seq(Items)
  BY TailIsItems
<1>2. \A i \in 1..n : CommandItems(cs[i]) \in Seq(Items)
  BY CommandItemsAre
<1>3. piece \in [1..n -> Seq(Items)] /\ \A i \in 1..n : piece[i] = CommandItems(cs[i])
  BY <1>2
<1>4. PICK g : Backwards(g, n, Items, last, piece)
  <2> HIDE DEF n, last, piece
  <2> QED
    BY <1>1, <1>3, WrittenBackwards
<1>5. Is(g)
  <2>1. \A i \in 0..n : g[i] = IF i = n THEN last ELSE CommandItems(cs[i + 1]) \o g[i + 1]
    <3> TAKE i \in 0..n
    <3>1. i # n => i \in 0..(n - 1) /\ i + 1 \in 1..n
      BY <1>1
    <3> HIDE DEF n, last, piece
    <3> QED
      BY <1>3, <1>4, <3>1 DEF Backwards
  <2> QED
    BY <1>4, <2>1 DEF Backwards
<1>6. ChunkItems(cs, tail) = rest[0]
  BY DEF ChunkItems
<1>7. Is(rest)
  <2> HIDE DEF Is
  <2> QED
    BY <1>5
<1>8. /\ rest[n] = last /\ \A i \in 0..(n - 1) : rest[i] = CommandItems(cs[i + 1]) \o rest[i + 1]
      /\ rest = [i \in 0..n |-> rest[i]]
  <2> HIDE DEF rest
  <2>1. \A i \in 0..n : rest[i] = IF i = n THEN last ELSE CommandItems(cs[i + 1]) \o rest[i + 1]
    BY <1>7
  <2>2. rest = [i \in 0..n |-> rest[i]]
    BY <1>7, <2>1
  <2>3. n \in 0..n /\ \A i \in 0..(n - 1) : i \in 0..n /\ i # n
    BY <1>1
  <2> HIDE DEF n, last
  <2> QED
    BY <2>1, <2>2, <2>3
<1> HIDE DEF rest, Is, piece
<1> DEFINE T == {j \in 0..n : rest[n - j] \notin Seq(Items)}
<1>9. T = {}
  <2> SUFFICES ASSUME T # {} PROVE FALSE
    OBVIOUS
  <2>1. PICK j \in T : \A k \in T : j <= k
    <3>1. T \in SUBSET Nat
      OBVIOUS
    <3> HIDE DEF T
    <3> QED
      BY <3>1, LeastNumber
  <2>2. j \in 0..n /\ rest[n - j] \notin Seq(Items)
    OBVIOUS
  <2>3. j # 0
    <3>1. n - 0 = n
      BY <1>1
    <3> QED
      BY <1>1, <1>8, <2>2, <3>1
  <2>4. PICK k, a : k = j - 1 /\ a = n - j
    OBVIOUS
  <2>5. k \in 0..n /\ ~(j <= k) /\ n - k = a + 1 /\ a \in 0..(n - 1) /\ a + 1 \in 1..n
    BY <1>1, <2>2, <2>3, <2>4
  <2>6. k \notin T
    <3> HIDE DEF T
    <3> QED
      BY <2>1, <2>5
  <2>7. rest[a + 1] \in Seq(Items)
    BY <2>5, <2>6
  <2>8. rest[a] \in Seq(Items)
    BY <1>2, <1>8, <2>5, <2>7, ConcatProperties
  <2> QED
    BY <2>2, <2>4, <2>8
<1>10. \A i \in 0..n : rest[i] \in Seq(Items)
  <2> TAKE i \in 0..n
  <2>1. PICK j : j = n - i
    OBVIOUS
  <2>2. j \in 0..n /\ n - j = i
    BY <1>1, <2>1
  <2> QED
    BY <1>9, <2>2
<1>11. rest \in [0..n -> Seq(Items)]
  BY <1>8, <1>10
<1>12. \A i \in 1..n :
         rest[i - 1] = <<CommandItem(CommandFor(cs[i]))>>
                       \o (Literals(cs[i].insert) \o (Named(mode, cs[i]) \o rest[i]))
  <2> TAKE i \in 1..n
  <2>1. PICK j : j = i - 1
    OBVIOUS
  <2>2. j \in 0..(n - 1) /\ j + 1 = i /\ i \in 0..n
    BY <1>1, <2>1
  <2>3. rest[j] = CommandItems(cs[i]) \o rest[i]
    BY <1>8, <2>2
  <2>4. rest[i] \in Seq(Items) /\ Writable(mode, cs[i])
    BY <1>10, <2>2
  <2> QED
    BY <2>1, <2>3, <2>4, CommandItemsAre
<1>13. Rests(mode, cs, rest, tail)
  BY <1>8, <1>11, <1>12 DEF Rests
<1> QED
  BY <1>6, <1>13

-----------------------------------------------------------------------------
(* The commands of a chunk. *)

\* A command that begins at a byte of the stream, with the recent distances as
\* they are there: it can be written, and its name means its distance.
Fits(m, c, r, from) ==
  /\ Writable(m, c) /\ c.distance > 0
  /\ c.at = from + c.insert
  /\ c.length = CopyLength(c.copy, c.distance, Reach(c.at)) /\ c.length > 0
  /\ NameMeans(m, r, c.code, c.distance)

\* The recent distances after it.
After(c, r) == IF Remembers(c.distance, c.code, Reach(c.at)) THEN Pushed(r, c.distance) ELSE r

\* The commands one after the other: the bytes where they begin and end, and the
\* recent distances there.
Chain(m, cs, marks, rings, from, first) ==
  /\ cs \in Seq(Parsed)
  /\ marks \in [0..Len(cs) -> Nat] /\ rings = [i \in 0..Len(cs) |-> rings[i]]
  /\ marks[0] = from /\ rings[0] = first
  /\ \A i \in 0..Len(cs) : IsRing(rings[i]) /\ (i < Len(cs) => marks[i] < marks[Len(cs)])
  /\ \A i \in 1..Len(cs) : /\ Fits(m, cs[i], rings[i - 1], marks[i - 1])
                           /\ marks[i] = cs[i].at + cs[i].length
                           /\ rings[i] = After(cs[i], rings[i - 1])

\* What is parsed, and where the parse is then.
ParsedTo(m, cs, from, first, to, last) ==
  \E marks, rings : /\ Chain(m, cs, marks, rings, from, first)
                    /\ marks[Len(cs)] = to /\ rings[Len(cs)] = last

\* No command yet.
LEMMA ChainBegins ==
  ASSUME NEW m, NEW from \in Nat, NEW first, IsRing(first)
  PROVE  ParsedTo(m, <<>>, from, first, from, first)
<1> DEFINE marks == [i \in 0..0 |-> from]
           rings == [i \in 0..0 |-> first]
<1>1. 0 \in 0..0 /\ \A i \in 0..0 : i = 0
  OBVIOUS
<1>2. marks \in [0..0 -> Nat] /\ marks[0] = from
  BY <1>1
<1>3. rings = [i \in 0..0 |-> rings[i]] /\ rings[0] = first
  BY <1>1
<1>4. <<>> \in Seq(Parsed) /\ Len(<<>>) = 0 /\ 1..0 = {}
  OBVIOUS
<1> HIDE DEF marks, rings
<1>5. Chain(m, <<>>, marks, rings, from, first)
  BY <1>1, <1>2, <1>3, <1>4 DEF Chain
<1> QED
  BY <1>2, <1>3, <1>4, <1>5 DEF ParsedTo

\* The recent distances stay distances.
LEMMA AfterIsRing ==
  ASSUME NEW c \in Parsed, c.distance > 0, NEW r, IsRing(r)
  PROVE  IsRing(After(c, r))
<1>1. c.distance \in Nat \ {0}
  BY DEF Parsed
<1> QED
  BY <1>1, PushedIsRing DEF After

\* One more.
LEMMA ChainGrows ==
  ASSUME NEW m, NEW cs, NEW from, NEW first, NEW to, NEW r,
         ParsedTo(m, cs, from, first, to, r),
         NEW c \in Parsed, Fits(m, c, r, to)
  PROVE  ParsedTo(m, Append(cs, c), from, first, c.at + c.length, After(c, r))
<1>0. PICK marks, rings : /\ Chain(m, cs, marks, rings, from, first)
                          /\ marks[Len(cs)] = to /\ rings[Len(cs)] = r
  BY DEF ParsedTo
<1> DEFINE n == Len(cs)
           s == Append(cs, c)
           last == c.at + c.length
           ring2 == After(c, rings[n])
           marks2 == [i \in 0..(n + 1) |-> IF i = n + 1 THEN last ELSE marks[i]]
           rings2 == [i \in 0..(n + 1) |-> IF i = n + 1 THEN ring2 ELSE rings[i]]
<1>1. cs \in Seq(Parsed) /\ n \in Nat
  BY <1>0 DEF Chain
<1>2. /\ s \in Seq(Parsed) /\ Len(s) = n + 1 /\ s[n + 1] = c
      /\ \A i \in 1..n : s[i] = cs[i]
  BY <1>1, AppendProperties
<1>3. /\ marks \in [0..n -> Nat] /\ marks[0] = from /\ rings[0] = first
      /\ \A i \in 0..n : IsRing(rings[i]) /\ (i < n => marks[i] < marks[n])
      /\ \A i \in 1..n : /\ Fits(m, cs[i], rings[i - 1], marks[i - 1])
                         /\ marks[i] = cs[i].at + cs[i].length
                         /\ rings[i] = After(cs[i], rings[i - 1])
  BY <1>0, Zenon DEF Chain
<1>4. last \in Nat /\ marks[n] < last
  <2>1. c.at \in Nat /\ c.length \in Nat /\ c.insert \in Nat /\ c.length > 0
    BY DEF Parsed, Fits
  <2>2. c.at = marks[n] + c.insert /\ marks[n] \in Nat
    BY <1>0, <1>1, <1>3 DEF Fits
  <2> QED
    BY <2>1, <2>2
<1>5. IsRing(ring2)
  <2>1. IsRing(rings[n]) /\ c.distance > 0
    BY <1>1, <1>3 DEF Fits
  <2> QED
    BY <2>1, AfterIsRing
<1> HIDE DEF n, s, last, ring2
<1>6. marks2 \in [0..(n + 1) -> Nat] /\ marks2[n + 1] = last /\ \A i \in 0..n : marks2[i] = marks[i]
  <2>1. \A i \in 0..(n + 1) : i # n + 1 => i \in 0..n
    BY <1>1
  <2>2. \A i \in 0..n : i \in 0..(n + 1) /\ i # n + 1
    BY <1>1
  <2>3. n + 1 \in 0..(n + 1)
    BY <1>1
  <2> QED
    BY <1>3, <1>4, <2>1, <2>2, <2>3
<1>7. /\ rings2 = [i \in 0..(n + 1) |-> rings2[i]] /\ rings2[n + 1] = ring2
      /\ \A i \in 0..n : rings2[i] = rings[i]
  <2>1. \A i \in 0..n : i \in 0..(n + 1) /\ i # n + 1
    BY <1>1
  <2>2. n + 1 \in 0..(n + 1)
    BY <1>1
  <2> QED
    BY <2>1, <2>2
<1> HIDE DEF marks2, rings2
<1>8. \A i \in 0..(n + 1) : IsRing(rings2[i]) /\ (i < n + 1 => marks2[i] < marks2[n + 1])
  <2> TAKE i \in 0..(n + 1)
  <2>1. CASE i = n + 1
    BY <1>1, <1>5, <1>7, <2>1
  <2>2. CASE i # n + 1
    <3>1. i \in 0..n /\ n \in 0..n
      BY <1>1, <2>2
    <3>2. marks[i] <= marks[n] /\ marks[i] \in Nat /\ marks[n] \in Nat
      BY <1>1, <1>3, <3>1
    <3>3. marks2[i] < marks2[n + 1]
      BY <1>4, <1>6, <3>1, <3>2
    <3> QED
      BY <1>3, <1>7, <3>1, <3>3
  <2> QED
    BY <2>1, <2>2
<1>9. \A i \in 1..(n + 1) : /\ Fits(m, s[i], rings2[i - 1], marks2[i - 1])
                            /\ marks2[i] = s[i].at + s[i].length
                            /\ rings2[i] = After(s[i], rings2[i - 1])
  <2> TAKE i \in 1..(n + 1)
  <2>1. CASE i = n + 1
    <3>1. i - 1 = n /\ n \in 0..n
      BY <1>1, <2>1
    <3>2. s[i] = c /\ rings2[i - 1] = rings[n] /\ marks2[i - 1] = marks[n]
      BY <1>2, <1>6, <1>7, <2>1, <3>1
    <3>3. Fits(m, c, rings[n], marks[n])
      BY <1>0 DEF n
    <3> QED
      BY <1>6, <1>7, <2>1, <3>2, <3>3 DEF last, ring2
  <2>2. CASE i # n + 1
    <3>1. i \in 1..n /\ i \in 0..n /\ i - 1 \in 0..n
      BY <1>1, <2>2
    <3> QED
      BY <1>2, <1>3, <1>6, <1>7, <3>1
  <2> QED
    BY <2>1, <2>2
<1>10. marks2[0] = from /\ rings2[0] = first
  <2>1. 0 \in 0..n
    BY <1>1
  <2> QED
    BY <1>3, <1>6, <1>7, <2>1
<1>11. Chain(m, s, marks2, rings2, from, first)
  BY <1>2, <1>6, <1>7, <1>8, <1>9, <1>10 DEF Chain
<1> QED
  BY <1>0, <1>2, <1>6, <1>7, <1>11 DEF ParsedTo, s, last, ring2, n

-----------------------------------------------------------------------------
(* What is true of every step. *)

Copies == [distance : Nat, length : Nat, at : Nat]

WriterTypes ==
  /\ IsMode(mode) /\ IsRing(ring) /\ IsRing(snapshot) /\ IsRing(mirror)
  /\ start \in Nat /\ position \in Nat /\ decoded \in Nat
  /\ pc \in {"parse", "write", "finished"}

\* The copies made are the first of the chunk's.
CopiesInv ==
  /\ copied \in Seq(Copies) /\ Len(copied) <= Len(chunk)
  /\ \A i \in 1..Len(copied) : /\ copied[i].distance = chunk[i].distance
                               /\ copied[i].length = chunk[i].length
                               /\ copied[i].at = chunk[i].at

\* While a chunk is parsed the decoder has read all that went before, and has
\* the recent distances the chunk began with.
ParsingInv ==
  /\ wire = <<>> /\ phase = "header" /\ copied = <<>>
  /\ decoded = start /\ mirror = snapshot
  /\ ParsedTo(mode, chunk, start, snapshot, position, ring)

\* A chunk on its way, by where the decoder is in it.  Of its commands, as many
\* are done as there are copies.
Done == Len(copied)
Length == position - start

HeaderAhead(rings, rest) ==
  /\ phase = "header" /\ copied = <<>> /\ mirror = rings[0] /\ decoded = start
  /\ wire = <<Header(IF pc = "finished" THEN "last" ELSE "compressed", Length)>> \o rest[0]

StoredAhead(rings) ==
  /\ phase = "header" /\ copied = <<>> /\ chunk = <<>> /\ mirror = rings[0] /\ decoded = start
  /\ wire = <<Header("stored", Length)>> \o (IF pc = "finished" THEN <<EmptyLast>> ELSE <<>>)

EmptyAhead(rings) ==
  /\ phase = "header" /\ copied = <<>> /\ chunk = <<>> /\ mirror = rings[0] /\ decoded = position
  /\ pc = "finished" /\ wire = <<EmptyLast>>

AllRead(rings) ==
  /\ phase = (IF pc = "finished" THEN "ended" ELSE "header")
  /\ Done = Len(chunk) /\ mirror = rings[Len(chunk)] /\ decoded = position /\ wire = <<>>

Owed ==
  /\ remaining = position - decoded /\ remaining > 0
  /\ isLast = (pc = "finished")

AtCommand(marks, rings, rest) ==
  /\ phase = "command" /\ Owed
  /\ mirror = rings[Done] /\ decoded = marks[Done] /\ wire = rest[Done]

AtLastLiterals(marks, rings, tail) ==
  /\ phase = "literals" /\ Owed /\ Done = Len(chunk)
  /\ mirror = rings[Done] /\ decoded = marks[Done] /\ wire = Literals(tail)
  /\ pending.insert = tail

\* The command the decoder is at.
Current == chunk[Done + 1]

IsPending ==
  /\ pending.copy = Current.copy
  /\ pending.implicit <=> ~RequiresDistance(CommandFor(Current).symbol)

AtLiterals(marks, rings, rest) ==
  /\ phase = "literals" /\ Owed /\ Done < Len(chunk)
  /\ mirror = rings[Done] /\ decoded = marks[Done]
  /\ wire = Literals(Current.insert) \o (Named(mode, Current) \o rest[Done + 1])
  /\ pending.insert = Current.insert /\ IsPending

AtCopy(rings, rest) ==
  /\ phase = "copy" /\ Owed /\ Done < Len(chunk)
  /\ mirror = rings[Done] /\ decoded = Current.at /\ wire = rest[Done + 1]
  /\ ~RequiresDistance(CommandFor(Current).symbol) /\ IsPending

AtDistance(rings, rest) ==
  /\ phase = "distance" /\ Owed /\ Done < Len(chunk)
  /\ mirror = rings[Done] /\ decoded = Current.at
  /\ wire = <<DistanceItem(mode, Current)>> \o rest[Done + 1]
  /\ IsPending

Reading(marks, rings, rest, tail) ==
  \/ HeaderAhead(rings, rest)
  \/ StoredAhead(rings)
  \/ EmptyAhead(rings)
  \/ AllRead(rings)
  \/ AtCommand(marks, rings, rest)
  \/ AtLastLiterals(marks, rings, tail)
  \/ AtLiterals(marks, rings, rest)
  \/ AtCopy(rings, rest)
  \/ AtDistance(rings, rest)

\* What is written is the chunk's commands and its tail.
Written(marks, rings, rest, tail) ==
  /\ Chain(mode, chunk, marks, rings, start, rings[0])
  /\ Rests(mode, chunk, rest, tail) /\ tail \in 0..MaxMetaBlock
  /\ position = marks[Len(chunk)] + tail /\ Length \in 1..MaxMetaBlock
  /\ pc = "write" => ring = rings[Len(chunk)]

WritingInv == \E marks, rings, rest, tail : /\ Written(marks, rings, rest, tail)
                                            /\ Reading(marks, rings, rest, tail)

WriterInv == /\ WriterTypes /\ CopiesInv
             /\ pc = "parse" => ParsingInv
             /\ pc # "parse" => WritingInv

\* So it is at the start.
LEMMA WriterStarts == Init => WriterInv
<1> SUFFICES ASSUME Init PROVE WriterInv
  OBVIOUS
<1>1. IsMode(mode)
  <2>1. mode \in (0..3) \X Nat
    BY ModeAssumption DEF Init
  <2> QED
    BY <2>1 DEF IsMode
<1>2. WriterTypes
  BY <1>1, InitialIsRing DEF Init, WriterTypes
<1>3. CopiesInv
  BY DEF Init, CopiesInv
<1>4. ParsingInv
  <2>1. ParsedTo(mode, <<>>, 0, InitialRing, 0, InitialRing)
    BY ChainBegins, InitialIsRing, 0 \in Nat
  <2> QED
    BY <2>1 DEF Init, ParsingInv
<1> QED
  BY <1>2, <1>3, <1>4 DEF WriterInv, Init

\* A code is a number.
LEMMA CodeIsNumber ==
  ASSUME NEW r, IsRing(r), NEW d \in Nat \ {0}, NEW reach \in Nat
  PROVE  ComputeCode(r, d, reach) \in Nat
<1>1. CASE ComputeCode(r, d, reach) = d + 15
  BY <1>1
<1>2. CASE ComputeCode(r, d, reach) # d + 15
  BY <1>2, ShortCodeMeans
<1> QED
  BY <1>1, <1>2

\* How far a parse has come.
LEMMA ParsedBounds ==
  ASSUME NEW m, NEW cs, NEW from, NEW first, NEW to, NEW r, ParsedTo(m, cs, from, first, to, r)
  PROVE  /\ from \in Nat /\ to \in Nat /\ from <= to /\ IsRing(r) /\ IsRing(first)
         /\ cs = <<>> => from = to
<1>1. PICK marks, rings : /\ Chain(m, cs, marks, rings, from, first)
                          /\ marks[Len(cs)] = to /\ rings[Len(cs)] = r
  BY DEF ParsedTo
<1>2. Len(cs) \in Nat /\ (cs = <<>> => Len(cs) = 0)
  BY <1>1 DEF Chain
<1>3. 0 \in 0..Len(cs) /\ Len(cs) \in 0..Len(cs)
  BY <1>2
<1>4. marks[0] = from /\ rings[0] = first /\ from \in Nat /\ to \in Nat
  BY <1>1, <1>3 DEF Chain
<1>5. IsRing(r) /\ IsRing(first) /\ (0 < Len(cs) => marks[0] < marks[Len(cs)])
  BY <1>1, <1>3, <1>4 DEF Chain
<1>6. Len(cs) = 0 => from = to
  BY <1>1, <1>4
<1> QED
  BY <1>1, <1>2, <1>4, <1>5, <1>6

\* One more command is parsed.
LEMMA ParseKeeps ==
  ASSUME WriterInv, NEW size, size[1] \in Nat, size[2] \in Nat \ {0, 1},
         NEW distance \in 1..MaxDistance, Parse(size, distance)
  PROVE  WriterInv'
<1> DEFINE at     == position + size[1]
           reach  == Reach(at)
           code   == ComputeCode(ring, distance, reach)
           length == CopyLength(size[2], distance, reach)
           c      == [insert |-> size[1], copy |-> size[2], distance |-> distance,
                      code |-> code, at |-> at, length |-> length]
<1>1. /\ pc = "parse" /\ (distance > reach => size[2] \in 4..24)
      /\ chunk' = Append(chunk, c)
      /\ ring' = IF Remembers(distance, code, reach) THEN Pushed(ring, distance) ELSE ring
      /\ position' = at + length /\ position' - start <= MaxMetaBlock
      /\ mode' = mode /\ snapshot' = snapshot /\ start' = start /\ pc' = pc /\ wire' = wire
      /\ phase' = phase /\ mirror' = mirror /\ decoded' = decoded /\ copied' = copied
  BY DEF Parse, decoder
<1>2. WriterTypes /\ ParsingInv
  BY <1>1 DEF WriterInv
<1>3. at \in Nat /\ reach \in Nat /\ IsMode(mode) /\ IsRing(ring) /\ distance \in Nat /\ distance > 0
  <2>1. at \in Nat /\ IsMode(mode) /\ IsRing(ring)
    BY <1>2 DEF WriterTypes
  <2>2. distance \in Nat /\ distance > 0
    BY DEF MaxDistance
  <2> HIDE DEF at
  <2> QED
    BY <2>1, <2>2, ReachIs
<1>4. length \in Nat /\ length > 0 /\ (length = size[2] \/ size[2] \in 4..24)
  <2> HIDE DEF at, reach
  <2>1. CASE distance <= reach
    BY <2>1 DEF CopyLength
  <2>2. CASE ~(distance <= reach)
    <3>1. PICK a : a = distance - reach - 1
      OBVIOUS
    <3>2. a \in Nat /\ distance > reach
      BY <1>3, <2>2, <3>1
    <3>3. length = size[2] + (a % 3) - 1
      BY <2>2, <3>1 DEF CopyLength, WordLength
    <3>4. a % 3 \in 0..2 /\ size[2] \in 4..24
      BY <1>1, <3>2
    <3> HIDE DEF length
    <3> QED
      BY <3>3, <3>4
  <2> QED
    BY <2>1, <2>2
<1>5. start \in Nat /\ position \in Nat /\ start <= position
  BY <1>2, ParsedBounds DEF ParsingInv
<1>6. size[1] \in 0..MaxMetaBlock /\ size[2] \in 2..MaxMetaBlock
  <2>1. PICK M : M = MaxMetaBlock
    OBVIOUS
  <2>2. M \in Nat /\ M > 24
    BY <2>1 DEF MaxMetaBlock
  <2> HIDE DEF length
  <2>3. ((position + size[1]) + length) - start <= M
    BY <1>1, <2>1
  <2>4. size[1] \in 0..M /\ size[2] \in 2..M
    BY <1>4, <1>5, <2>2, <2>3
  <2> QED
    BY <2>1, <2>4
<1>7. NameMeans(mode, ring, code, distance) /\ code \in Nat
  BY <1>3, NameDecodes, CodeIsNumber
<1> HIDE DEF at, reach, code, length
<1>8. c \in Parsed
  BY <1>3, <1>4, <1>7 DEF Parsed
<1>9. /\ c.insert = size[1] /\ c.copy = size[2] /\ c.distance = distance /\ c.code = code
      /\ c.at = at /\ c.length = length
  OBVIOUS
<1> HIDE DEF c
<1>10. SymbolOf(code, mode).symbol \in Nat /\ SymbolOf(code, mode).extra \in Int
  BY <1>7 DEF NameMeans
<1>11. Fits(mode, c, ring, position)
  BY <1>3, <1>4, <1>6, <1>7, <1>9, <1>10 DEF Fits, Writable, at, reach, length
<1>12. After(c, ring) = ring'
  BY <1>1, <1>9 DEF After, reach
<1>13. ParsedTo(mode, chunk, start, snapshot, position, ring)
  BY <1>2 DEF ParsingInv
<1>14. ParsedTo(mode, Append(chunk, c), start, snapshot, c.at + c.length, After(c, ring))
  BY <1>8, <1>11, <1>13, ChainGrows
<1>15. ParsingInv'
  BY <1>1, <1>2, <1>9, <1>12, <1>14 DEF ParsingInv
<1>16. CopiesInv'
  <2>1. copied' = <<>> /\ Len(<<>>) = 0
    BY <1>1, <1>2 DEF ParsingInv
  <2>2. Len(chunk') \in Nat
    <3>1. \E marks, rings : Chain(mode, chunk', marks, rings, start, snapshot)
      BY <1>1, <1>14 DEF ParsedTo
    <3> QED
      BY <3>1 DEF Chain
  <2> QED
    BY <2>1, <2>2 DEF CopiesInv
<1>17. WriterTypes'
  <2>1. IsRing(ring')
    BY <1>12, <1>14, ParsedBounds
  <2>2. position' \in Nat
    BY <1>1, <1>3, <1>4
  <2> QED
    BY <1>1, <1>2, <2>1, <2>2 DEF WriterTypes
<1> QED
  BY <1>1, <1>15, <1>16, <1>17 DEF WriterInv

\* A chunk goes out without commands.
Wordless(m, from, first, tail, marks, rings, rest) ==
  /\ Chain(m, <<>>, marks, rings, from, first) /\ rings[0] = first /\ marks[0] = from
  /\ Rests(m, <<>>, rest, tail) /\ rest[0] = TailItems(tail)

LEMMA WordlessExists ==
  ASSUME NEW m, NEW from \in Nat, NEW first, IsRing(first), NEW tail \in 0..MaxMetaBlock
  PROVE  \E marks, rings, rest : Wordless(m, from, first, tail, marks, rings, rest)
<1>1. Len(<<>>) = 0
  OBVIOUS
<1>2. PICK marks, rings : /\ Chain(m, <<>>, marks, rings, from, first)
                          /\ marks[Len(<<>>)] = from /\ rings[Len(<<>>)] = first
  BY ChainBegins DEF ParsedTo
<1> DEFINE rest == [i \in 0..0 |-> TailItems(tail)]
<1>3. rest \in [0..0 -> Seq(Items)] /\ rest[0] = TailItems(tail)
  BY TailIsItems
<1> HIDE DEF rest
<1>4. Rests(m, <<>>, rest, tail)
  BY <1>1, <1>3 DEF Rests
<1>5. Wordless(m, from, first, tail, marks, rings, rest)
  BY <1>1, <1>2, <1>3, <1>4 DEF Wordless
<1> QED
  BY <1>5

\* The chunk goes out stored, and the ring is as it was.
LEMMA EmitStoredKeeps ==
  ASSUME WriterInv, NEW tail \in Nat, NEW last \in BOOLEAN, EmitStored(tail, last)
  PROVE  WriterInv'
<1>1. /\ pc = "parse" /\ position + tail - start \in 1..MaxMetaBlock
      /\ ring' = snapshot /\ position' = position + tail /\ chunk' = <<>>
      /\ wire' = <<Header("stored", position + tail - start)>>
                 \o (IF last THEN <<EmptyLast>> ELSE <<>>)
      /\ pc' = (IF last THEN "finished" ELSE "write")
      /\ mode' = mode /\ snapshot' = snapshot /\ start' = start
      /\ phase' = phase /\ mirror' = mirror /\ decoded' = decoded /\ copied' = copied
  BY DEF EmitStored, Ends, RestoreRing, decoder
<1>2. WriterTypes /\ ParsingInv
  BY <1>1 DEF WriterInv
<1>3. start \in Nat /\ position \in Nat /\ IsRing(snapshot)
  BY <1>2 DEF WriterTypes
<1>4. PICK t : t = position + tail - start
  OBVIOUS
<1>5. t \in 1..MaxMetaBlock /\ t \in 0..MaxMetaBlock /\ position' = start + t /\ position' - start = t
      /\ position' \in Nat
  <2>1. PICK M : M = MaxMetaBlock /\ M \in Nat
    BY DEF MaxMetaBlock
  <2>2. PICK q : q = position'
    OBVIOUS
  <2>3. t \in 1..M
    BY <1>1, <1>4, <2>1
  <2>4. t \in 0..M /\ q = start + t /\ q - start = t /\ q \in Nat
    BY <1>1, <1>3, <1>4, <2>1, <2>2, <2>3
  <2> QED
    BY <2>1, <2>2, <2>3, <2>4
<1>6. PICK marks, rings, rest : Wordless(mode, start, snapshot, t, marks, rings, rest)
  BY <1>3, <1>5, WordlessExists
<1>7. Len(<<>>) = 0
  OBVIOUS
<1>8. Written(marks, rings, rest, t)'
  BY <1>1, <1>5, <1>6, <1>7 DEF Written, Wordless, Length
<1>9. StoredAhead(rings)'
  <2>1. phase = "header" /\ copied = <<>> /\ mirror = snapshot /\ decoded = start
    BY <1>2 DEF ParsingInv
  <2>2. last <=> pc' = "finished"
    BY <1>1
  <2>3. wire' = <<Header("stored", position' - start')>>
                \o (IF pc' = "finished" THEN <<EmptyLast>> ELSE <<>>)
    BY <1>1, <1>4, <1>5, <2>2
  <2> QED
    BY <1>1, <1>6, <2>1, <2>3 DEF StoredAhead, Length, Wordless
<1>10. WritingInv'
  BY <1>8, <1>9 DEF WritingInv, Reading
<1>11. CopiesInv'
  <2>1. copied' = <<>>
    BY <1>1, <1>2 DEF ParsingInv
  <2> QED
    BY <1>1, <1>7, <2>1 DEF CopiesInv
<1>12. WriterTypes'
  BY <1>1, <1>2, <1>5 DEF WriterTypes
<1>13. pc' # "parse"
  BY <1>1
<1> QED
  BY <1>10, <1>11, <1>12, <1>13 DEF WriterInv

\* It goes out compressed.
LEMMA EmitCompressedKeeps ==
  ASSUME WriterInv, NEW tail \in Nat, NEW last \in BOOLEAN, EmitCompressed(tail, last)
  PROVE  WriterInv'
<1>1. /\ pc = "parse" /\ position + tail - start \in 1..MaxMetaBlock
      /\ position' = position + tail
      /\ wire' = <<Header(IF last THEN "last" ELSE "compressed", position + tail - start)>>
                 \o ChunkItems(chunk, tail)
      /\ pc' = (IF last THEN "finished" ELSE "write")
      /\ mode' = mode /\ ring' = ring /\ snapshot' = snapshot /\ start' = start /\ chunk' = chunk
      /\ phase' = phase /\ mirror' = mirror /\ decoded' = decoded /\ copied' = copied
  BY DEF EmitCompressed, Ends, decoder
<1>2. WriterTypes /\ ParsingInv
  BY <1>1 DEF WriterInv
<1>3. PICK marks, rings : /\ Chain(mode, chunk, marks, rings, start, snapshot)
                          /\ marks[Len(chunk)] = position /\ rings[Len(chunk)] = ring
  BY <1>2 DEF ParsingInv, ParsedTo
<1>4. chunk \in Seq(Parsed) /\ rings[0] = snapshot /\ \A i \in 1..Len(chunk) : Writable(mode, chunk[i])
  BY <1>3 DEF Chain, Fits
<1>5. start \in Nat /\ position \in Nat /\ start <= position
  BY <1>2, ParsedBounds DEF ParsingInv
<1>6. tail \in 0..MaxMetaBlock /\ position' \in Nat
  <2>1. PICK M : M = MaxMetaBlock /\ M \in Nat
    BY DEF MaxMetaBlock
  <2>2. position + tail - start <= M
    BY <1>1, <2>1
  <2>3. tail \in 0..M
    BY <1>5, <2>1, <2>2
  <2> QED
    BY <1>1, <1>5, <2>1, <2>3
<1>7. PICK rest : Rests(mode, chunk, rest, tail) /\ ChunkItems(chunk, tail) = rest[0]
  BY <1>4, <1>6, ChunkItemsAre
<1>7a. position' - start' = position + tail - start
  <2>1. PICK q : q = position'
    OBVIOUS
  <2>2. q - start = position + tail - start
    BY <1>1, <1>5, <2>1
  <2> QED
    BY <1>1, <2>1, <2>2, Zenon
<1>8. Written(marks, rings, rest, tail)'
  <2>1. Chain(mode', chunk', marks, rings, start', rings[0]) /\ Rests(mode', chunk', rest, tail)
    BY <1>1, <1>3, <1>4, <1>7
  <2>2. position' = marks[Len(chunk')] + tail /\ position' - start' \in 1..MaxMetaBlock
    BY <1>7a, <1>1, <1>3, Zenon
  <2>3. ring' = rings[Len(chunk')]
    BY <1>1, <1>3
  <2> QED
    BY <1>6, <2>1, <2>2, <2>3, Zenon DEF Written, Length
<1>9. HeaderAhead(rings, rest)'
  <2>1. phase = "header" /\ copied = <<>> /\ mirror = snapshot /\ decoded = start
    BY <1>2 DEF ParsingInv
  <2>2. last <=> pc' = "finished"
    BY <1>1
  <2>3. wire' = <<Header(IF pc' = "finished" THEN "last" ELSE "compressed", position' - start')>>
                \o rest[0]
    <3>1. (IF last THEN "last" ELSE "compressed") = (IF pc' = "finished" THEN "last" ELSE "compressed")
      BY <2>2
    <3> QED
      BY <1>7a, <1>1, <1>7, <3>1, Zenon
  <2> QED
    BY <1>1, <1>4, <2>1, <2>3 DEF HeaderAhead, Length
<1>10. WritingInv'
  BY <1>8, <1>9 DEF WritingInv, Reading
<1>11. CopiesInv'
  BY <1>1, <1>2 DEF CopiesInv, WriterInv
<1>12. WriterTypes'
  BY <1>1, <1>2, <1>6 DEF WriterTypes
<1>13. pc' # "parse"
  BY <1>1
<1> QED
  BY <1>10, <1>11, <1>12, <1>13 DEF WriterInv

\* A header is an item.
LEMMA HeaderIsItem ==
  ASSUME NEW kind \in {"stored", "compressed", "last"}, NEW length \in 1..MaxMetaBlock
  PROVE  Header(kind, length) \in Items
<1>1. Nibbles(length) \in Nat
  BY DEF Nibbles
<1>2. length - 1 \in Int
  BY DEF MaxMetaBlock
<1> QED
  BY <1>1, <1>2 DEF Header, Item, Items, Kinds

\* So is the empty last metablock.
LEMMA EmptyLastIsItem == EmptyLast \in Items
BY DEF EmptyLast, Item, Items, Kinds

\* What is left to read is a sequence of items.
LEMMA WrittenFacts ==
  ASSUME NEW marks, NEW rings, NEW rest, NEW tail, Written(marks, rings, rest, tail)
  PROVE  /\ chunk \in Seq(Parsed) /\ Len(chunk) \in Nat /\ tail \in Nat
         /\ \A i \in 0..Len(chunk) : rest[i] \in Seq(Items) /\ marks[i] \in Nat /\ IsRing(rings[i])
         /\ rest[0] \in Seq(Items)
<1>1. chunk \in Seq(Parsed) /\ Len(chunk) \in Nat
  BY DEF Written, Chain
<1>2. tail \in Nat
  BY DEF Written, MaxMetaBlock
<1>3. \A i \in 0..Len(chunk) : rest[i] \in Seq(Items) /\ marks[i] \in Nat /\ IsRing(rings[i])
  BY DEF Written, Chain, Rests
<1>4. 0 \in 0..Len(chunk)
  BY <1>1
<1> QED
  BY <1>1, <1>2, <1>3, <1>4

\* A header is ahead only if something is.
LEMMA AheadIsSomething ==
  ASSUME NEW marks, NEW rings, NEW rest, NEW tail, Written(marks, rings, rest, tail),
         HeaderAhead(rings, rest) \/ StoredAhead(rings) \/ EmptyAhead(rings)
  PROVE  wire # <<>>
<1>1. Length \in 1..MaxMetaBlock
  BY DEF Written
<1>2. CASE HeaderAhead(rings, rest)
  <2>1. Header(IF pc = "finished" THEN "last" ELSE "compressed", Length) \in Items
    BY <1>1, HeaderIsItem
  <2>2. rest[0] \in Seq(Items)
    BY WrittenFacts
  <2> QED
    BY <1>2, <2>1, <2>2, HeadFollows DEF HeaderAhead
<1>3. CASE StoredAhead(rings)
  <2>1. Header("stored", Length) \in Items
    BY <1>1, HeaderIsItem
  <2>2. (IF pc = "finished" THEN <<EmptyLast>> ELSE <<>>) \in Seq(Items)
    BY EmptyLastIsItem
  <2> QED
    BY <1>3, <2>1, <2>2, HeadFollows DEF StoredAhead
<1>4. CASE EmptyAhead(rings)
  BY <1>4 DEF EmptyAhead
<1> QED
  BY <1>2, <1>3, <1>4

\* The next chunk begins when all of the last one is read.
LEMMA NextChunkKeeps ==
  ASSUME WriterInv, NextChunk
  PROVE  WriterInv'
<1>1. /\ pc = "write" /\ wire = <<>> /\ phase = "header"
      /\ start' = position /\ snapshot' = ring /\ chunk' = <<>> /\ pc' = "parse" /\ copied' = <<>>
      /\ mode' = mode /\ ring' = ring /\ position' = position /\ wire' = wire /\ phase' = phase
      /\ mirror' = mirror /\ decoded' = decoded
  BY DEF NextChunk
<1>2. WriterTypes /\ WritingInv
  BY <1>1 DEF WriterInv
<1>3. PICK marks, rings, rest, tail : /\ Written(marks, rings, rest, tail)
                                      /\ Reading(marks, rings, rest, tail)
  BY <1>2 DEF WritingInv
<1>4. AllRead(rings)
  <2>1. ~(HeaderAhead(rings, rest) \/ StoredAhead(rings) \/ EmptyAhead(rings))
    BY <1>1, <1>3, AheadIsSomething
  <2>2. /\ ~AtCommand(marks, rings, rest) /\ ~AtLastLiterals(marks, rings, tail)
        /\ ~AtLiterals(marks, rings, rest) /\ ~AtCopy(rings, rest) /\ ~AtDistance(rings, rest)
    BY <1>1 DEF AtCommand, AtLastLiterals, AtLiterals, AtCopy, AtDistance
  <2> QED
    BY <1>3, <2>1, <2>2 DEF Reading
<1>5. decoded = position /\ mirror = ring
  BY <1>1, <1>3, <1>4 DEF AllRead, Written
<1>6. position \in Nat /\ IsRing(ring)
  BY <1>2 DEF WriterTypes
<1>7. ParsingInv'
  <2>1. ParsedTo(mode, <<>>, position, ring, position, ring)
    BY <1>6, ChainBegins
  <2> QED
    BY <1>1, <1>5, <2>1 DEF ParsingInv
<1>8. CopiesInv'
  <2>1. Len(<<>>) = 0
    OBVIOUS
  <2> QED
    BY <1>1, <2>1 DEF CopiesInv
<1>9. WriterTypes'
  BY <1>1, <1>2 DEF WriterTypes
<1> QED
  BY <1>1, <1>7, <1>8, <1>9 DEF WriterInv

\* An input goes out whole, as literals.
LEMMA WholeLiteralsKeeps ==
  ASSUME WriterInv, NEW length \in 1..MaxMetaBlock, WholeLiterals(length)
  PROVE  WriterInv'
<1>1. /\ pc = "parse" /\ chunk = <<>> /\ start = 0
      /\ wire' = <<Header("last", length)>> \o TailItems(length)
      /\ mode' = <<0, 0>> /\ chunk' = <<>> /\ position' = length /\ pc' = "finished"
      /\ ring' = ring /\ snapshot' = snapshot /\ start' = start
      /\ phase' = phase /\ mirror' = mirror /\ decoded' = decoded /\ copied' = copied
  BY DEF WholeLiterals, Whole, decoder
<1>2. WriterTypes /\ ParsingInv
  BY <1>1 DEF WriterInv
<1>3. length \in 0..MaxMetaBlock /\ length \in Nat /\ length - 0 = length /\ 0 + length = length
  BY DEF MaxMetaBlock
<1>4. IsRing(snapshot) /\ 0 \in Nat
  BY <1>2 DEF WriterTypes
<1>5. PICK marks, rings, rest : Wordless(<<0, 0>>, 0, snapshot, length, marks, rings, rest)
  BY <1>3, <1>4, WordlessExists
<1>6. Len(<<>>) = 0
  OBVIOUS
<1>7. Written(marks, rings, rest, length)'
  BY <1>1, <1>3, <1>5, <1>6 DEF Written, Wordless, Length
<1>8. HeaderAhead(rings, rest)'
  <2>1. phase = "header" /\ copied = <<>> /\ mirror = snapshot /\ decoded = start
    BY <1>2 DEF ParsingInv
  <2>2. wire' = <<Header(IF pc' = "finished" THEN "last" ELSE "compressed", position' - start')>>
                \o rest[0]
    BY <1>1, <1>3, <1>5 DEF Wordless
  <2> QED
    BY <1>1, <1>5, <2>1, <2>2 DEF HeaderAhead, Length, Wordless
<1>9. WritingInv'
  BY <1>7, <1>8 DEF WritingInv, Reading
<1>10. CopiesInv'
  BY <1>1, <1>2, <1>6 DEF CopiesInv, ParsingInv
<1>11. WriterTypes'
  <2>1. IsMode(<<0, 0>>)
    BY DEF IsMode
  <2> QED
    BY <1>1, <1>2, <1>3, <2>1 DEF WriterTypes
<1> QED
  BY <1>1, <1>9, <1>10, <1>11 DEF WriterInv

\* It goes out whole, as a period and a copy of it.
LEMMA WholePeriodicKeeps ==
  ASSUME WriterInv, NEW length \in 1..MaxMetaBlock, NEW period \in 1..4,
         WholePeriodic(period, length)
  PROVE  WriterInv'
<1> DEFINE copy == length - period
           m    == <<0, 4>>
           c    == [insert |-> period, copy |-> copy, distance |-> period, code |-> 15 + period,
                    at |-> period, length |-> copy]
           e    == ExplicitCommand(period, copy, FALSE)
           d    == Item("distance", 15 + period, 0, 0)
           items == <<CommandItem(e)>> \o Literals(period) \o <<d>>
<1>1. /\ pc = "parse" /\ start = 0 /\ length >= period + 2
      /\ wire' = <<Header("last", length)>> \o items
      /\ mode' = m /\ chunk' = <<c>> /\ position' = length /\ pc' = "finished"
      /\ ring' = ring /\ snapshot' = snapshot /\ start' = start
      /\ phase' = phase /\ mirror' = mirror /\ decoded' = decoded /\ copied' = copied
  BY DEF WholePeriodic, Whole, decoder
<1>2. WriterTypes /\ ParsingInv
  BY <1>1 DEF WriterInv
<1>3. /\ period \in Nat /\ period > 0 /\ period <= 4 /\ length \in Nat
      /\ copy \in Nat /\ copy >= 2 /\ period + copy = length
      /\ period \in 0..MaxMetaBlock /\ copy \in 2..MaxMetaBlock
  BY <1>1 DEF MaxMetaBlock
<1>4. IsRing(snapshot) /\ IsMode(m)
  BY <1>2 DEF WriterTypes, IsMode
<1>5. /\ c.insert = period /\ c.copy = copy /\ c.distance = period /\ c.code = 15 + period
      /\ c.at = period /\ c.length = copy
  OBVIOUS
<1>6. c \in Parsed
  BY <1>3 DEF Parsed
<1> HIDE DEF copy
<1>7. period + 15 = 15 + period /\ 15 + period # 0 /\ 15 + period \in Nat
  BY <1>3
<1>8. NameMeans(m, snapshot, 15 + period, period)
  <2>1. period + 15 < 16 + m[2] /\ period \in Nat \ {0}
    BY <1>3
  <2> HIDE DEF m
  <2>2. NameMeans(m, snapshot, period + 15, period)
    BY <1>4, <2>1, DirectCodeMeans
  <2> QED
    BY <1>7, <2>2
<1>9. SymbolOf(15 + period, m).symbol = 15 + period /\ SymbolOf(15 + period, m).extra = 0
  <2>1. SymbolOf(15 + period, m) = [symbol |-> 15 + period, extra |-> 0]
    <3>1. m[2] = 4 /\ 15 + period < 16 + 4
      BY <1>3
    <3> HIDE DEF m
    <3> QED
      BY <3>1 DEF SymbolOf
  <2> QED
    BY <2>1
<1>10. CopyLength(copy, period, Reach(period)) = copy
  <2>1. Reach(period) = IF period <= MaxBackward THEN period ELSE MaxBackward
    BY <1>3, MinOfTwo, DistancesAssumption DEF Reach
  <2>2. period <= Reach(period)
    BY <1>3, <2>1, DistancesAssumption
  <2> QED
    BY <2>2 DEF CopyLength
<1> HIDE DEF c, m
<1>11. Writable(m, c)
  BY <1>3, <1>5, <1>7, <1>9 DEF Writable
<1>12. Fits(m, c, snapshot, 0)
  <2>1. period = 0 + period /\ copy > 0
    BY <1>3
  <2> QED
    BY <1>3, <1>5, <1>8, <1>10, <1>11, <2>1 DEF Fits
<1>13. PICK marks, rings : /\ Chain(m, <<c>>, marks, rings, 0, snapshot)
                           /\ marks[Len(<<c>>)] = length
  <2>1. ParsedTo(m, <<>>, 0, snapshot, 0, snapshot)
    BY <1>4, ChainBegins, 0 \in Nat
  <2>2. ParsedTo(m, Append(<<>>, c), 0, snapshot, c.at + c.length, After(c, snapshot))
    BY <1>6, <1>12, <2>1, ChainGrows
  <2>3. Append(<<>>, c) = <<c>> /\ c.at + c.length = length
    BY <1>3, <1>5
  <2> QED
    BY <2>2, <2>3 DEF ParsedTo
<1>14. rings[0] = snapshot
  BY <1>13 DEF Chain
<1>15. CommandFor(c) = e /\ CommandReads(e, period, copy, FALSE)
  <2>1. (c.code = 0) = FALSE
    BY <1>5, <1>7
  <2>2. CommandFor(c) = e
    BY <1>5, <2>1 DEF CommandFor
  <2> HIDE DEF e
  <2>3. CommandReads(e, period, copy, FALSE)
    BY <1>3, CommandMeans, FALSE \in BOOLEAN DEF e
  <2> QED
    BY <2>2, <2>3
<1>16. Named(m, c) = <<d>>
  <2>1. RequiresDistance(CommandFor(c).symbol)
    BY <1>15 DEF CommandReads
  <2>2. DistanceItem(m, c) = d
    BY <1>5, <1>9 DEF DistanceItem
  <2> QED
    BY <2>1, <2>2 DEF Named
<1>17. CommandItem(e) \in Items /\ Literals(period) \in Seq(Items) /\ <<d>> \in Seq(Items)
  BY <1>3, <1>11, <1>15, <1>16, CommandIsItem, LiteralsAreItems, NamedIsItems
<1>18. items \in Seq(Items) /\ items = <<CommandItem(e)>> \o (Literals(period) \o (<<d>> \o <<>>))
  <2> HIDE DEF e, d
  <2>1. <<CommandItem(e)>> \in Seq(Items)
    BY <1>17
  <2>2. items = <<CommandItem(e)>> \o (Literals(period) \o <<d>>)
    BY <1>17, <2>1, ConcatAssociative
  <2>3. <<d>> \o <<>> = <<d>>
    BY <1>17, ConcatEmptySeq
  <2>4. Literals(period) \o <<d>> \in Seq(Items)
    BY <1>17, ConcatProperties
  <2>5. <<CommandItem(e)>> \o (Literals(period) \o <<d>>) \in Seq(Items)
    BY <2>1, <2>4, ConcatProperties
  <2> QED
    BY <2>2, <2>3, <2>5
<1> HIDE DEF e, d, items
<1> DEFINE rest == [i \in 0..1 |-> IF i = 1 THEN <<>> ELSE items]
<1>19. rest \in [0..1 -> Seq(Items)] /\ rest[0] = items /\ rest[1] = <<>>
  BY <1>18
<1> HIDE DEF rest
<1>20. Len(<<c>>) = 1 /\ <<c>>[1] = c /\ (\A i \in 1..1 : i = 1) /\ 1 - 1 = 0
  OBVIOUS
<1>21. Rests(m, <<c>>, rest, 0)
  <2>1. TailItems(0) = <<>>
    BY DEF TailItems
  <2>2. \A i \in 1..1 : rest[i - 1] = <<CommandItem(CommandFor(<<c>>[i]))>>
                         \o (Literals(<<c>>[i].insert) \o (Named(m, <<c>>[i]) \o rest[i]))
    BY <1>5, <1>15, <1>16, <1>18, <1>19, <1>20
  <2> QED
    BY <1>19, <1>20, <2>1, <2>2 DEF Rests
<1>22. 0 \in 0..MaxMetaBlock /\ length + 0 = length /\ length - 0 = length
  BY <1>3 DEF MaxMetaBlock
<1>23. Written(marks, rings, rest, 0)'
  BY <1>1, <1>13, <1>14, <1>21, <1>22 DEF Written, Length
<1>24. HeaderAhead(rings, rest)'
  <2>1. phase = "header" /\ copied = <<>> /\ mirror = snapshot /\ decoded = start
    BY <1>2 DEF ParsingInv
  <2>2. wire' = <<Header(IF pc' = "finished" THEN "last" ELSE "compressed", position' - start')>>
                \o rest[0]
    BY <1>1, <1>19, <1>22
  <2> QED
    BY <1>1, <1>14, <2>1, <2>2 DEF HeaderAhead, Length
<1>25. WritingInv'
  BY <1>23, <1>24 DEF WritingInv, Reading
<1>26. CopiesInv'
  <2>1. copied' = <<>> /\ Len(<<>>) = 0 /\ Len(chunk') = 1
    BY <1>1, <1>2, <1>20 DEF ParsingInv
  <2> QED
    BY <2>1 DEF CopiesInv
<1>27. WriterTypes'
  BY <1>1, <1>2, <1>3, <1>4 DEF WriterTypes
<1> QED
  BY <1>1, <1>25, <1>26, <1>27 DEF WriterInv

-----------------------------------------------------------------------------
(* The decoder. *)

\* The digits of a metablock's length hold it, and the last of them is needed.
LEMMA HeaderReads ==
  ASSUME NEW kind, NEW length \in 1..MaxMetaBlock
  PROVE  /\ Header(kind, length).kind = kind
         /\ Minimal(Header(kind, length)) /\ LengthRead(Header(kind, length)) = length
<1> DEFINE h == Header(kind, length)
<1>1. h.kind = kind /\ h.symbol = Nibbles(length) /\ h.x = length - 1
  BY DEF Header, Item
<1> HIDE DEF h
<1>3. length \in Nat /\ 1 <= length /\ length <= 16777216
  BY SMT DEF MaxMetaBlock
<1>4. PICK x, n : x = h.x /\ n = h.symbol
  OBVIOUS
<1>5. x \in Nat /\ length = x + 1 /\ n = Nibbles(length)
  BY <1>1, <1>3, <1>4, SMT
<1>6. \/ n = 4 /\ x < 65536
      \/ n = 5 /\ 65536 <= x /\ x < 1048576
      \/ n = 6 /\ 1048576 <= x /\ x < 16777216
  BY <1>3, <1>5, SMT DEF Nibbles
<1>7. (x % (16 ^ n)) + 1 = length
  <2>1. CASE n = 4 /\ x < 65536
    <3>1. PICK e : e = 16 ^ 4
      OBVIOUS
    <3>2. e = 65536 /\ x % e = x
      BY <1>5, <2>1, <3>1, SMT
    <3>3. 16 ^ n = e
      BY ONLY <2>1, <3>1
    <3> QED
      BY <1>5, <3>2, <3>3, SMT
  <2>2. CASE n = 5 /\ x < 1048576
    <3>1. PICK e : e = 16 ^ 5
      OBVIOUS
    <3>2. e = 1048576 /\ x % e = x
      BY <1>5, <2>2, <3>1, SMT
    <3>3. 16 ^ n = e
      BY ONLY <2>2, <3>1
    <3> QED
      BY <1>5, <3>2, <3>3, SMT
  <2>3. CASE n = 6 /\ x < 16777216
    <3>1. PICK e : e = 16 ^ 6
      OBVIOUS
    <3>2. e = 16777216 /\ x % e = x
      BY <1>5, <2>3, <3>1, SMT
    <3>3. 16 ^ n = e
      BY ONLY <2>3, <3>1
    <3> QED
      BY <1>5, <3>2, <3>3, SMT
  <2> QED
    BY <1>6, <2>1, <2>2, <2>3, SMT
<1>8. n > 4 => x \div (16 ^ (n - 1)) > 0
  <2>1. CASE n = 4
    BY <2>1, SMT
  <2>2. CASE n = 5 /\ 65536 <= x
    <3>1. n - 1 = 4
      BY <2>2, SMT
    <3>2. PICK e : e = 16 ^ 4
      OBVIOUS
    <3>3. e = 65536 /\ x \div e > 0
      BY <1>5, <2>2, <3>2, SMT
    <3>4. 16 ^ (n - 1) = e
      BY ONLY <3>1, <3>2
    <3> QED
      BY <3>3, <3>4, SMT
  <2>3. CASE n = 6 /\ 1048576 <= x
    <3>1. n - 1 = 5
      BY <2>3, SMT
    <3>2. PICK e : e = 16 ^ 5
      OBVIOUS
    <3>3. e = 1048576 /\ x \div e > 0
      BY <1>5, <2>3, <3>2, SMT
    <3>4. 16 ^ (n - 1) = e
      BY ONLY <3>1, <3>2
    <3> QED
      BY <3>3, <3>4, SMT
  <2> QED
    BY <1>6, <2>1, <2>2, <2>3, SMT
<1>9. Minimal(h) /\ LengthRead(h) = length
  BY <1>4, <1>7, <1>8, Zenon DEF Minimal, LengthRead
<1> QED
  BY <1>1, <1>9 DEF h

\* While the decoder reads, the encoder stays as it is.
Stays == UNCHANGED <<mode, ring, snapshot, start, position, chunk, pc>>

LEMMA StillWritten ==
  ASSUME Stays, NEW marks, NEW rings, NEW rest, NEW tail, Written(marks, rings, rest, tail)
  PROVE  Written(marks, rings, rest, tail)'
BY DEF Stays, Written, Length

\* A step of the decoder keeps all that is true if it leaves it somewhere in the
\* chunk.
LEMMA DecoderKeeps ==
  ASSUME WriterInv, pc # "parse", Stays, NEW marks, NEW rings, NEW rest, NEW tail,
         Written(marks, rings, rest, tail), Reading(marks, rings, rest, tail)',
         CopiesInv', IsRing(mirror'), decoded' \in Nat
  PROVE  WriterInv'
<1>1. WritingInv'
  BY StillWritten DEF WritingInv
<1>2. WriterTypes'
  BY DEF WriterInv, WriterTypes, Stays
<1>3. pc' # "parse"
  BY DEF Stays
<1> QED
  BY <1>1, <1>2, <1>3 DEF WriterInv

\* A header is read, of a metablock that is stored, of the last and empty one, or
\* of one whose commands follow.
LEMMA DecodeHeaderKeeps ==
  ASSUME WriterInv, DecodeHeader
  PROVE  WriterInv'
<1> DEFINE item == Head(wire)
<1>1. /\ phase = "header" /\ wire # <<>> /\ Stays
      /\ pending' = pending /\ mirror' = mirror /\ copied' = copied
  BY DEF DecodeHeader, encoder, Stays
<1>2. pc # "parse" /\ WriterTypes /\ CopiesInv /\ WritingInv
  BY <1>1 DEF WriterInv, ParsingInv
<1>3. PICK marks, rings, rest, tail : /\ Written(marks, rings, rest, tail)
                                      /\ Reading(marks, rings, rest, tail)
  BY <1>2 DEF WritingInv
<1>4. CopiesInv' /\ IsRing(mirror') /\ decoded \in Nat
  BY <1>1, <1>2 DEF CopiesInv, WriterTypes, Stays
<1>5. HeaderAhead(rings, rest) \/ StoredAhead(rings) \/ EmptyAhead(rings)
  <2>1. /\ ~AtCommand(marks, rings, rest) /\ ~AtLastLiterals(marks, rings, tail)
        /\ ~AtLiterals(marks, rings, rest) /\ ~AtCopy(rings, rest) /\ ~AtDistance(rings, rest)
    BY <1>1 DEF AtCommand, AtLastLiterals, AtLiterals, AtCopy, AtDistance
  <2>2. ~AllRead(rings)
    BY <1>1 DEF AllRead
  <2> QED
    BY <1>3, <2>1, <2>2 DEF Reading
<1>6. Length \in 1..MaxMetaBlock /\ start \in Nat /\ position \in Nat
  BY <1>2, <1>3 DEF Written, WriterTypes
<1>7. start + Length = position
  BY <1>6 DEF Length
<1>8. CASE HeaderAhead(rings, rest)
  <2> DEFINE kind == IF pc = "finished" THEN "last" ELSE "compressed"
             h == Header(kind, Length)
  <2>1. wire = <<h>> \o rest[0] /\ copied = <<>> /\ mirror = rings[0] /\ decoded = start
    BY <1>8 DEF HeaderAhead
  <2>2. h \in Items /\ h.kind = kind /\ Minimal(h) /\ LengthRead(h) = Length
    BY <1>6, HeaderIsItem, HeaderReads
  <2>3. rest[0] \in Seq(Items)
    BY <1>3, WrittenFacts
  <2> HIDE DEF h
  <2>4. item = h /\ Tail(wire) = rest[0]
    BY <2>1, <2>2, <2>3, HeadFollows
  <2>5. kind # "end" /\ kind # "stored" /\ kind \in {"stored", "compressed", "last"}
    OBVIOUS
  <2>6. (kind = "last") = (pc = "finished")
    OBVIOUS
  <2> HIDE DEF item, kind
  <2>7. /\ wire' = Tail(wire) /\ isLast' = (item.kind = "last")
        /\ remaining' = LengthRead(item) /\ phase' = "command" /\ decoded' = decoded
    BY <2>2, <2>4, <2>5 DEF DecodeHeader, item
  <2>8. Done' = 0
    <3>1. Len(<<>>) = 0
      OBVIOUS
    <3> QED
      BY <1>1, <2>1, <3>1 DEF Done
  <2>9. position' - decoded' = Length /\ Length > 0
    <3>1. position' = position /\ decoded' = start
      BY <1>1, <2>1, <2>7 DEF Stays
    <3> QED
      BY <1>6, <3>1 DEF Length
  <2>10. Owed'
    BY <1>1, <2>2, <2>4, <2>6, <2>7, <2>9 DEF Owed, Stays
  <2>11. marks[0] = start
    BY <1>3 DEF Written, Chain
  <2>12. AtCommand(marks, rings, rest)'
    BY <1>1, <2>1, <2>4, <2>7, <2>8, <2>10, <2>11 DEF AtCommand
  <2>13. Reading(marks, rings, rest, tail)'
    BY <2>12 DEF Reading
  <2>14. decoded' \in Nat
    BY <1>4, <2>7
  <2> QED
    BY <1>1, <1>2, <1>3, <1>4, <2>13, <2>14, DecoderKeeps
<1>9. CASE StoredAhead(rings)
  <2> DEFINE h == Header("stored", Length)
             ends == IF pc = "finished" THEN <<EmptyLast>> ELSE <<>>
  <2>1. /\ wire = <<h>> \o ends
        /\ copied = <<>> /\ chunk = <<>> /\ mirror = rings[0] /\ decoded = start
    BY <1>9 DEF StoredAhead
  <2>2. h \in Items /\ h.kind = "stored" /\ Minimal(h) /\ LengthRead(h) = Length
    BY <1>6, HeaderIsItem, HeaderReads
  <2>3. ends \in Seq(Items)
    BY EmptyLastIsItem
  <2> HIDE DEF h, ends
  <2>4. item = h /\ Tail(wire) = ends
    BY <2>1, <2>2, <2>3, HeadFollows
  <2> HIDE DEF item
  <2>5. wire' = Tail(wire) /\ decoded' = decoded + LengthRead(item) /\ phase' = phase
    BY <2>2, <2>4 DEF DecodeHeader, item
  <2>6. decoded' = position
    BY <1>7, <2>1, <2>2, <2>4, <2>5
  <2>7. Done' = 0 /\ Len(chunk') = 0
    <3>1. Len(<<>>) = 0
      OBVIOUS
    <3> QED
      BY <1>1, <2>1, <3>1 DEF Done, Stays
  <2>8. ASSUME pc = "finished" PROVE Reading(marks, rings, rest, tail)'
    <3>1. EmptyAhead(rings)'
      BY <1>1, <2>1, <2>4, <2>5, <2>6, <2>8 DEF EmptyAhead, Stays, ends
    <3> QED
      BY <3>1 DEF Reading
  <2>9. ASSUME pc # "finished" PROVE Reading(marks, rings, rest, tail)'
    <3>1. AllRead(rings)'
      BY <1>1, <2>1, <2>4, <2>5, <2>6, <2>7, <2>9 DEF AllRead, Stays, ends
    <3> QED
      BY <3>1 DEF Reading
  <2>10. Reading(marks, rings, rest, tail)'
    BY <2>8, <2>9
  <2>11. decoded' \in Nat
    BY <1>6, <2>6
  <2> QED
    BY <1>1, <1>2, <1>3, <1>4, <2>10, <2>11, DecoderKeeps
<1>10. CASE EmptyAhead(rings)
  <2>1. /\ wire = <<EmptyLast>> /\ copied = <<>> /\ chunk = <<>> /\ mirror = rings[0]
        /\ decoded = position /\ pc = "finished"
    BY <1>10 DEF EmptyAhead
  <2>2. EmptyLast.kind = "end"
    BY DEF EmptyLast, Item
  <2>3. item = EmptyLast /\ Tail(wire) = <<>>
    BY <2>1
  <2> HIDE DEF item
  <2>4. phase' = "ended" /\ wire' = Tail(wire) /\ decoded' = decoded
    BY <2>2, <2>3 DEF DecodeHeader, item
  <2>5. Done' = 0 /\ Len(chunk') = 0
    <3>1. Len(<<>>) = 0
      OBVIOUS
    <3> QED
      BY <1>1, <2>1, <3>1 DEF Done, Stays
  <2>6. AllRead(rings)'
    BY <1>1, <2>1, <2>3, <2>4, <2>5 DEF AllRead, Stays
  <2>7. Reading(marks, rings, rest, tail)' /\ decoded' \in Nat
    BY <1>4, <2>4, <2>6 DEF Reading
  <2> QED
    BY <1>1, <1>2, <1>3, <1>4, <2>7, DecoderKeeps
<1> QED
  BY <1>5, <1>8, <1>9, <1>10

\* The command the decoder is at, and what follows it.
CurrentFits(marks, rings, rest, tail) ==
  /\ Current \in Parsed /\ Fits(mode, Current, rings[Done], marks[Done])
  /\ marks[Done] \in Nat /\ marks[Done + 1] \in Nat
  /\ marks[Done + 1] = Current.at + Current.length
  /\ rings[Done + 1] = After(Current, rings[Done]) /\ IsRing(rings[Done + 1])
  /\ marks[Done + 1] <= position
  /\ marks[Done + 1] = position => Done + 1 = Len(chunk) /\ tail = 0
  /\ rest[Done + 1] \in Seq(Items)
  /\ rest[Done] = <<CommandItem(CommandFor(Current))>>
                  \o (Literals(Current.insert) \o (Named(mode, Current) \o rest[Done + 1]))

LEMMA CurrentFacts ==
  ASSUME NEW marks, NEW rings, NEW rest, NEW tail, Written(marks, rings, rest, tail),
         CopiesInv, Done < Len(chunk)
  PROVE  CurrentFits(marks, rings, rest, tail)
<1> DEFINE n == Len(chunk)
<1>1. chunk \in Seq(Parsed) /\ n \in Nat /\ tail \in Nat /\ Done \in Nat
  BY WrittenFacts DEF CopiesInv, Done
<1>2. PICK k : k = Done
  OBVIOUS
<1>3. k \in Nat /\ k < n /\ k \in 0..n /\ k + 1 \in 0..n /\ k + 1 \in 1..n /\ (k + 1) - 1 = k
  BY <1>1, <1>2
<1>4. n \in 0..n
  BY <1>1
<1>5. PICK c : c = chunk[k + 1]
  OBVIOUS
<1>6. c = Current
  BY <1>2, <1>5 DEF Current
<1>7. c \in Parsed
  BY <1>1, <1>3, <1>5
<1>8. Chain(mode, chunk, marks, rings, start, rings[0])
  BY DEF Written
<1>9. /\ Fits(mode, c, rings[k], marks[k])
      /\ marks[k + 1] = c.at + c.length /\ rings[k + 1] = After(c, rings[k])
  <2>1. \A i \in 1..n : /\ Fits(mode, chunk[i], rings[i - 1], marks[i - 1])
                        /\ marks[i] = chunk[i].at + chunk[i].length
                        /\ rings[i] = After(chunk[i], rings[i - 1])
    BY <1>8, Zenon DEF Chain
  <2> HIDE DEF n
  <2> QED
    BY <1>3, <1>5, <2>1
<1>10. /\ marks[k] \in Nat /\ marks[k + 1] \in Nat /\ marks[n] \in Nat /\ IsRing(rings[k + 1])
       /\ rest[k + 1] \in Seq(Items)
  BY <1>3, <1>4, WrittenFacts
<1>11. k + 1 < n => marks[k + 1] < marks[n]
  BY <1>3, <1>8 DEF Chain
<1>12. position = marks[n] + tail
  BY DEF Written
<1>13. marks[k + 1] <= position /\ (marks[k + 1] = position => k + 1 = n /\ tail = 0)
  <2>1. k + 1 = n \/ k + 1 < n
    BY <1>1, <1>3
  <2>2. CASE k + 1 = n
    <3>1. marks[k + 1] = marks[n]
      BY <2>2
    <3> HIDE DEF n
    <3> QED
      BY <1>1, <1>10, <1>12, <2>2, <3>1
  <2>3. CASE k + 1 < n
    <3> HIDE DEF n
    <3> QED
      BY <1>1, <1>10, <1>11, <1>12, <2>3
  <2> QED
    BY <2>1, <2>2, <2>3
<1>14. rest[k] = <<CommandItem(CommandFor(c))>>
                 \o (Literals(c.insert) \o (Named(mode, c) \o rest[k + 1]))
  <2>1. \A i \in 1..n :
          rest[i - 1] = <<CommandItem(CommandFor(chunk[i]))>>
                        \o (Literals(chunk[i].insert) \o (Named(mode, chunk[i]) \o rest[i]))
    BY DEF Written, Rests
  <2> HIDE DEF n
  <2> QED
    BY <1>3, <1>5, <2>1
<1> QED
  BY <1>2, <1>6, <1>7, <1>9, <1>10, <1>13, <1>14, Zenon DEF CurrentFits, n

\* A command is read back.
LEMMA CommandItemReads ==
  ASSUME NEW e, NEW i, NEW c, NEW u, CommandReads(e, i, c, u), NEW it, it = CommandItem(e)
  PROVE  /\ it \in Items /\ it.kind = "command"
         /\ CommandOf([symbol |-> it.symbol, insertExtra |-> it.x, copyExtra |-> it.y]) = CommandOf(e)
<1>1. it \in Items /\ it.kind = "command"
  BY CommandIsItem DEF CommandItem, Item
<1>2. it.symbol = e.symbol /\ it.x = e.insertExtra /\ it.y = e.copyExtra
  BY DEF CommandItem, Item
<1> DEFINE f == [symbol |-> it.symbol, insertExtra |-> it.x, copyExtra |-> it.y]
<1>3. f.symbol = e.symbol /\ f.insertExtra = e.insertExtra /\ f.copyExtra = e.copyExtra
  BY <1>2
<1> HIDE DEF f
<1>4. CommandOf(f) = CommandOf(e)
  BY <1>3, Zenon DEF CommandOf
<1> QED
  BY <1>1, <1>4 DEF f

\* A command is read: the next of the chunk, or the one of its tail.
LEMMA DecodeCommandKeeps ==
  ASSUME WriterInv, DecodeCommand
  PROVE  WriterInv'
<1> DEFINE item == Head(wire)
           read == CommandOf([symbol |-> item.symbol, insertExtra |-> item.x, copyExtra |-> item.y])
<1>1. phase = "command" /\ Stays
  BY DEF DecodeCommand, encoder, Stays
<1>2. pc # "parse" /\ WriterTypes /\ CopiesInv /\ WritingInv
  BY <1>1 DEF WriterInv, ParsingInv
<1>3. PICK marks, rings, rest, tail : /\ Written(marks, rings, rest, tail)
                                      /\ Reading(marks, rings, rest, tail)
  BY <1>2 DEF WritingInv
<1>4. AtCommand(marks, rings, rest)
  BY <1>1, <1>3 DEF Reading, HeaderAhead, StoredAhead, EmptyAhead, AllRead, AtLastLiterals,
                    AtLiterals, AtCopy, AtDistance
<1>5. /\ mirror = rings[Done] /\ decoded = marks[Done] /\ wire = rest[Done]
      /\ remaining = position - decoded /\ remaining > 0 /\ isLast = (pc = "finished")
  BY <1>4 DEF AtCommand, Owed
<1>6. decoded \in Nat /\ position \in Nat /\ IsRing(mirror)
  BY <1>2 DEF WriterTypes
<1>7. /\ Len(chunk) \in Nat /\ tail \in Nat /\ Done \in Nat /\ Done <= Len(chunk)
  BY <1>2, <1>3, WrittenFacts DEF CopiesInv, Done
<1>8. ASSUME item.kind = "command", read.insert <= remaining, read.insert \in Nat
      PROVE  /\ pending' = read /\ wire' = Tail(wire) /\ phase' = "literals"
             /\ isLast' = isLast /\ remaining' = remaining /\ mirror' = mirror
             /\ decoded' = decoded /\ copied' = copied
  <2>1. remaining \in Int
    BY <1>5, <1>6
  <2>2. ~(item.kind # "command" \/ read.insert > remaining)
    <3> HIDE DEF item, read
    <3> QED
      BY <1>8, <2>1
  <2> QED
    BY <2>2, Zenon DEF DecodeCommand
<1> HIDE DEF read
<1>9. ASSUME mirror' = mirror, decoded' = decoded, copied' = copied,
             Reading(marks, rings, rest, tail)'
      PROVE  WriterInv'
  <2>1. CopiesInv'
    BY <1>1, <1>2, <1>9 DEF CopiesInv, Stays
  <2>2. IsRing(mirror') /\ decoded' \in Nat
    BY <1>6, <1>9
  <2> QED
    BY <1>1, <1>2, <1>3, <1>9, <2>1, <2>2, DecoderKeeps
<1>10. CASE Done < Len(chunk)
  <2> DEFINE c == Current
             after == Literals(c.insert) \o (Named(mode, c) \o rest[Done + 1])
  <2>1. CurrentFits(marks, rings, rest, tail)
    BY <1>2, <1>3, <1>10, CurrentFacts
  <2>2. /\ c \in Parsed /\ Fits(mode, c, rings[Done], marks[Done])
        /\ marks[Done] \in Nat /\ marks[Done + 1] = c.at + c.length /\ marks[Done + 1] <= position
        /\ rest[Done + 1] \in Seq(Items) /\ rest[Done] = <<CommandItem(CommandFor(c))>> \o after
    BY <2>1 DEF CurrentFits
  <2>3. Writable(mode, c) /\ c.at = marks[Done] + c.insert
    BY <2>2 DEF Fits
  <2>4. c.insert \in Nat /\ c.at \in Nat /\ c.length \in Nat
    BY <2>2 DEF Parsed
  <2>5. CommandReads(CommandFor(c), c.insert, c.copy, c.code = 0)
    BY <2>3, CommandForMeans
  <2> HIDE DEF c
  <2>6. after \in Seq(Items)
    <3>1. Literals(c.insert) \in Seq(Items) /\ Named(mode, c) \in Seq(Items)
      BY <2>3, <2>4, LiteralsAreItems, NamedIsItems
    <3> QED
      BY <2>2, <3>1, ConcatProperties
  <2> HIDE DEF after
  <2>7. CommandItem(CommandFor(c)) \in Items
    BY <2>5, CommandIsItem
  <2>8. item = CommandItem(CommandFor(c)) /\ Tail(wire) = after
    BY <1>5, <2>2, <2>6, <2>7, HeadFollows
  <2> HIDE DEF item
  <2>9. item.kind = "command" /\ read = CommandOf(CommandFor(c))
    BY <2>5, <2>8, CommandItemReads DEF read
  <2>10. /\ read.insert = c.insert /\ read.copy = c.copy
         /\ read.implicit <=> ~RequiresDistance(CommandFor(c).symbol)
    BY <2>5, <2>9 DEF CommandReads
  <2>11. read.insert <= remaining
    BY <1>5, <1>6, <2>2, <2>3, <2>4, <2>10
  <2>12. /\ pending' = read /\ wire' = after /\ phase' = "literals"
         /\ isLast' = isLast /\ remaining' = remaining /\ mirror' = mirror
         /\ decoded' = decoded /\ copied' = copied
    BY <1>8, <2>4, <2>8, <2>9, <2>10, <2>11
  <2>13. Done' = Done /\ Current' = c /\ chunk' = chunk /\ mode' = mode
    BY <1>1, <2>12 DEF Done, Current, Stays, c
  <2>14. Owed'
    BY <1>1, <1>5, <2>12 DEF Owed, Stays
  <2>15. wire' = Literals(c.insert) \o (Named(mode, c) \o rest[Done + 1])
    BY <2>12 DEF after
  <2>16. AtLiterals(marks, rings, rest)'
    BY <1>5, <1>10, <2>10, <2>12, <2>13, <2>14, <2>15, Zenon DEF AtLiterals, IsPending
  <2> QED
    BY <1>9, <2>12, <2>16 DEF Reading
<1>11. CASE Done = Len(chunk)
  <2>1. /\ rest[Done] = TailItems(tail) /\ position = marks[Done] + tail
        /\ tail \in 0..MaxMetaBlock /\ marks[Done] \in Nat
    <3>1. Len(chunk) \in 0..Len(chunk)
      BY <1>7
    <3> QED
      BY <1>3, <1>11, <3>1, WrittenFacts DEF Written, Rests
  <2>2. tail > 0 /\ remaining = tail
    BY <1>5, <1>6, <1>7, <2>1
  <2> DEFINE e == InsertCommand(tail)
  <2>3. wire = <<CommandItem(e)>> \o Literals(tail)
    BY <1>5, <2>1, <2>2 DEF TailItems
  <2>4. CommandReads(e, tail, 4, FALSE)
    <3>1. 4 \in 2..MaxMetaBlock
      BY DEF MaxMetaBlock
    <3> QED
      BY <2>1, <3>1, CommandMeans DEF InsertCommand
  <2> HIDE DEF e
  <2>5. CommandItem(e) \in Items /\ Literals(tail) \in Seq(Items)
    BY <1>7, <2>4, CommandIsItem, LiteralsAreItems
  <2>6. item = CommandItem(e) /\ Tail(wire) = Literals(tail)
    BY <2>3, <2>5, HeadFollows
  <2> HIDE DEF item
  <2>7. item.kind = "command" /\ read = CommandOf(e)
    BY <2>4, <2>6, CommandItemReads DEF read
  <2>8. read.insert = tail
    BY <2>4, <2>7 DEF CommandReads
  <2>9. read.insert <= remaining
    BY <1>7, <2>2, <2>8
  <2>10. /\ pending' = read /\ wire' = Literals(tail) /\ phase' = "literals"
         /\ isLast' = isLast /\ remaining' = remaining /\ mirror' = mirror
         /\ decoded' = decoded /\ copied' = copied
    BY <1>7, <1>8, <2>6, <2>7, <2>8, <2>9
  <2>11. Done' = Done /\ chunk' = chunk
    BY <1>1, <2>10 DEF Done, Stays
  <2>12. Owed'
    BY <1>1, <1>5, <2>10 DEF Owed, Stays
  <2>13. AtLastLiterals(marks, rings, tail)'
    BY <1>5, <1>11, <2>8, <2>10, <2>11, <2>12, Zenon DEF AtLastLiterals
  <2> QED
    BY <1>9, <2>10, <2>13 DEF Reading
<1> QED
  BY <1>7, <1>10, <1>11

\* Literals are read, if there are any.
LEMMA LiteralsRead ==
  ASSUME NEW n \in Nat, NEW s \in Seq(Items), NEW w, w = Literals(n) \o s
  PROVE  /\ n > 0 => Head(w).kind = "literals" /\ Head(w).x = n
         /\ (IF n > 0 THEN Tail(w) ELSE w) = s
<1> DEFINE it == Item("literals", 0, n, 0)
<1>1. CASE n = 0
  <2>1. w = s
    BY <1>1, ConcatEmptySeq DEF Literals
  <2> QED
    BY <1>1, <2>1
<1>2. CASE n # 0
  <2>1. it \in Items /\ it.kind = "literals" /\ it.x = n
    BY DEF Item, Items, Kinds
  <2>2. w = <<it>> \o s
    BY <1>2 DEF Literals
  <2> HIDE DEF it
  <2>3. Head(w) = it /\ Tail(w) = s
    BY <2>1, <2>2, HeadFollows
  <2>4. n > 0
    BY <1>2
  <2> QED
    BY <2>1, <2>3, <2>4, Zenon
<1> QED
  BY <1>1, <1>2

\* Literals are read: those before a copy, or the last.
LEMMA DecodeLiteralsKeeps ==
  ASSUME WriterInv, DecodeLiterals
  PROVE  WriterInv'
<1>1. phase = "literals" /\ Stays
  BY DEF DecodeLiterals, encoder, Stays
<1>2. pc # "parse" /\ WriterTypes /\ CopiesInv /\ WritingInv
  BY <1>1 DEF WriterInv, ParsingInv
<1>3. PICK marks, rings, rest, tail : /\ Written(marks, rings, rest, tail)
                                      /\ Reading(marks, rings, rest, tail)
  BY <1>2 DEF WritingInv
<1>4. AtLastLiterals(marks, rings, tail) \/ AtLiterals(marks, rings, rest)
  BY <1>1, <1>3 DEF Reading, HeaderAhead, StoredAhead, EmptyAhead, AllRead, AtCommand,
                    AtCopy, AtDistance
<1>5. decoded \in Nat /\ position \in Nat /\ IsRing(mirror)
  BY <1>2 DEF WriterTypes
<1>6. /\ Len(chunk) \in Nat /\ tail \in Nat /\ Done \in Nat /\ Done <= Len(chunk)
  BY <1>2, <1>3, WrittenFacts DEF CopiesInv, Done
<1>7. ASSUME NEW n \in Nat, n = pending.insert, NEW s \in Seq(Items), wire = Literals(n) \o s
      PROVE  /\ wire' = s /\ decoded' = decoded + n /\ remaining' = remaining - n
             /\ phase' = IF remaining = n THEN AtEnd
                         ELSE IF pending.implicit THEN "copy" ELSE "distance"
             /\ isLast' = isLast /\ pending' = pending /\ mirror' = mirror /\ copied' = copied
  <2>1. /\ n > 0 => Head(wire).kind = "literals" /\ Head(wire).x = n
        /\ (IF n > 0 THEN Tail(wire) ELSE wire) = s
    BY <1>7, LiteralsRead
  <2>2. ~(n > 0 /\ (Head(wire).kind # "literals" \/ Head(wire).x # n))
    BY <2>1
  <2>3. /\ wire' = (IF n > 0 THEN Tail(wire) ELSE wire)
        /\ decoded' = decoded + n /\ remaining' = remaining - n
        /\ phase' = IF remaining = n THEN AtEnd
                    ELSE IF pending.implicit THEN "copy" ELSE "distance"
        /\ isLast' = isLast /\ pending' = pending /\ mirror' = mirror /\ copied' = copied
    BY <1>7, <2>2, Zenon DEF DecodeLiterals
  <2> QED
    BY <2>1, <2>3, Zenon
<1>8. ASSUME mirror' = mirror, copied' = copied, decoded' \in Nat,
             Reading(marks, rings, rest, tail)'
      PROVE  WriterInv'
  <2>1. CopiesInv'
    BY <1>1, <1>2, <1>8 DEF CopiesInv, Stays
  <2>2. IsRing(mirror')
    BY <1>5, <1>8
  <2> QED
    BY <1>1, <1>2, <1>3, <1>8, <2>1, <2>2, DecoderKeeps
<1>9. CASE AtLastLiterals(marks, rings, tail)
  <2>1. /\ Done = Len(chunk) /\ mirror = rings[Done] /\ decoded = marks[Done]
        /\ wire = Literals(tail) /\ pending.insert = tail
        /\ remaining = position - decoded /\ remaining > 0 /\ isLast = (pc = "finished")
    BY <1>9 DEF AtLastLiterals, Owed
  <2>2. position = marks[Done] + tail
    BY <1>3, <2>1 DEF Written
  <2>3. remaining = tail /\ decoded + tail = position
    BY <1>5, <1>6, <2>1, <2>2
  <2>4. wire = Literals(tail) \o <<>> /\ <<>> \in Seq(Items)
    <3>1. Literals(tail) \in Seq(Items)
      BY <1>6, LiteralsAreItems
    <3> QED
      BY <2>1, <3>1, ConcatEmptySeq
  <2>5. /\ wire' = <<>> /\ decoded' = position /\ phase' = AtEnd
        /\ mirror' = mirror /\ copied' = copied
    <3>1. /\ wire' = <<>> /\ decoded' = decoded + tail
          /\ phase' = IF remaining = tail THEN AtEnd
                      ELSE IF pending.implicit THEN "copy" ELSE "distance"
          /\ mirror' = mirror /\ copied' = copied
      BY <1>6, <1>7, <2>1, <2>4
    <3> QED
      BY <2>3, <3>1
  <2>6. phase' = (IF pc = "finished" THEN "ended" ELSE "header")
    BY <2>1, <2>5 DEF AtEnd
  <2>7. AllRead(rings)'
    BY <1>1, <2>1, <2>5, <2>6 DEF AllRead, Stays, Done
  <2> QED
    BY <1>5, <1>8, <2>5, <2>7 DEF Reading
<1>10. CASE AtLiterals(marks, rings, rest)
  <2> DEFINE c == Current
  <2>1. /\ Done < Len(chunk) /\ mirror = rings[Done] /\ decoded = marks[Done]
        /\ wire = Literals(c.insert) \o (Named(mode, c) \o rest[Done + 1])
        /\ pending.insert = c.insert /\ pending.copy = c.copy
        /\ (pending.implicit <=> ~RequiresDistance(CommandFor(c).symbol))
        /\ remaining = position - decoded /\ remaining > 0 /\ isLast = (pc = "finished")
    BY <1>10 DEF AtLiterals, Owed, IsPending
  <2>2. CurrentFits(marks, rings, rest, tail)
    BY <1>2, <1>3, <2>1, CurrentFacts
  <2>3. /\ c \in Parsed /\ Fits(mode, c, rings[Done], marks[Done])
        /\ marks[Done + 1] = c.at + c.length /\ marks[Done + 1] <= position
        /\ rest[Done + 1] \in Seq(Items)
    BY <2>2 DEF CurrentFits
  <2>4. Writable(mode, c) /\ c.at = decoded + c.insert /\ c.length > 0
    BY <2>1, <2>3 DEF Fits
  <2>5. c.insert \in Nat /\ c.at \in Nat /\ c.length \in Nat
    BY <2>3 DEF Parsed
  <2> HIDE DEF c
  <2>6. Named(mode, c) \o rest[Done + 1] \in Seq(Items)
    BY <2>3, <2>4, NamedIsItems, ConcatProperties
  <2>7. remaining # c.insert /\ remaining - c.insert = position - c.at /\ remaining - c.insert > 0
    <3>1. PICK i, a, l, q : i = c.insert /\ a = c.at /\ l = c.length /\ q = marks[Done + 1]
      OBVIOUS
    <3>2. /\ i \in Nat /\ a \in Nat /\ l \in Nat /\ a = decoded + i /\ l > 0 /\ q = a + l /\ q <= position
          /\ remaining = position - decoded
      BY <2>1, <2>3, <2>4, <2>5, <3>1
    <3>3. remaining # i /\ remaining - i = position - a /\ remaining - i > 0
      BY <1>5, <3>2
    <3> QED
      BY <3>1, <3>3
  <2>8. /\ wire' = Named(mode, c) \o rest[Done + 1] /\ decoded' = c.at
        /\ remaining' = position - c.at /\ remaining' > 0
        /\ phase' = IF pending.implicit THEN "copy" ELSE "distance"
        /\ isLast' = isLast /\ pending' = pending /\ mirror' = mirror /\ copied' = copied
    <3>1. /\ wire' = Named(mode, c) \o rest[Done + 1] /\ decoded' = decoded + c.insert
          /\ remaining' = remaining - c.insert
          /\ phase' = IF remaining = c.insert THEN AtEnd
                      ELSE IF pending.implicit THEN "copy" ELSE "distance"
          /\ isLast' = isLast /\ pending' = pending /\ mirror' = mirror /\ copied' = copied
      BY <1>7, <2>1, <2>5, <2>6
    <3> QED
      BY <2>4, <2>7, <3>1
  <2>9. Done' = Done /\ Current' = c /\ chunk' = chunk /\ mode' = mode
    BY <1>1, <2>8 DEF Done, Current, Stays, c
  <2>10. Owed'
    BY <1>1, <2>1, <2>8 DEF Owed, Stays
  <2>11. IsPending'
    BY <2>1, <2>8, <2>9 DEF IsPending
  <2>12. ASSUME pending.implicit PROVE AtCopy(rings, rest)'
    <3>1. Named(mode, c) = <<>>
      BY <2>1, <2>12 DEF Named
    <3>2. wire' = rest[Done + 1]
      BY <2>3, <2>8, <3>1, ConcatEmptySeq
    <3>3. phase' = "copy"
      BY <2>8, <2>12
    <3>4. ~RequiresDistance(CommandFor(c).symbol)
      BY <2>1, <2>12
    <3> QED
      BY <2>1, <2>8, <2>9, <2>10, <2>11, <3>2, <3>3, <3>4, Zenon DEF AtCopy
  <2>13. ASSUME ~pending.implicit PROVE AtDistance(rings, rest)'
    <3>1. Named(mode, c) = <<DistanceItem(mode, c)>>
      BY <2>1, <2>13 DEF Named
    <3>2. phase' = "distance"
      BY <2>8, <2>13
    <3> QED
      BY <2>1, <2>8, <2>9, <2>10, <2>11, <3>1, <3>2, Zenon DEF AtDistance
  <2>14. Reading(marks, rings, rest, tail)'
    BY <2>12, <2>13 DEF Reading
  <2>15. decoded' \in Nat
    BY <2>5, <2>8
  <2> QED
    BY <1>8, <2>8, <2>14, <2>15
<1> QED
  BY <1>4, <1>9, <1>10

\* A copy of the distance that was meant is the copy that was meant, and the
\* recent distances follow.
LEMMA CopyKeeps ==
  ASSUME WriterInv, pc # "parse", Stays,
         NEW marks, NEW rings, NEW rest, NEW tail, Written(marks, rings, rest, tail),
         Done < Len(chunk), mirror = rings[Done], decoded = Current.at, Owed,
         pending.copy = Current.copy,
         NEW d, d = Current.distance, NEW push, push <=> Current.code # 0,
         BeginCopy(d, push), wire' = rest[Done + 1]
  PROVE  WriterInv'
<1> DEFINE c == Current
           k == Done
<1>1. WriterTypes /\ CopiesInv
  BY DEF WriterInv
<1>2. CurrentFits(marks, rings, rest, tail)
  BY <1>1, CurrentFacts
<1>3. /\ c \in Parsed /\ Fits(mode, c, rings[k], marks[k])
      /\ marks[k + 1] = c.at + c.length /\ rings[k + 1] = After(c, rings[k])
      /\ IsRing(rings[k + 1]) /\ marks[k + 1] <= position /\ marks[k + 1] \in Nat
      /\ (marks[k + 1] = position => k + 1 = Len(chunk) /\ tail = 0)
  BY <1>2 DEF CurrentFits
<1>4. d > 0 /\ d \in Nat /\ decoded \in Nat /\ position \in Nat
  BY <1>1, <1>3 DEF Fits, Parsed, WriterTypes
<1>5. CopyLength(pending.copy, d, Reach(decoded)) = c.length /\ c.length > 0
  BY <1>3 DEF Fits
<1>6. c.at \in Nat /\ c.length \in Nat
  BY <1>3 DEF Parsed
<1>7. remaining = position - decoded /\ isLast = (pc = "finished")
  BY DEF Owed
<1>8. PICK l : l = c.length
  OBVIOUS
<1>9. l \in Nat /\ l <= remaining /\ decoded + l = marks[k + 1] /\ remaining \in Int
      /\ remaining - l = position - marks[k + 1] /\ (remaining = l <=> marks[k + 1] = position)
  <2>1. PICK q : q = marks[k + 1]
    OBVIOUS
  <2>2. q \in Nat /\ q = decoded + l /\ q <= position /\ l \in Nat
    BY <1>3, <1>6, <1>8, <2>1
  <2>3. l <= remaining /\ remaining \in Int /\ remaining - l = position - q /\ (remaining = l <=> q = position)
    BY <1>4, <1>7, <2>2
  <2> QED
    BY <2>1, <2>2, <2>3
<1> DEFINE made == [distance |-> d, length |-> l, at |-> decoded]
<1>10. /\ copied' = Append(copied, made)
       /\ decoded' = decoded + l /\ remaining' = remaining - l
       /\ phase' = IF remaining = l THEN AtEnd ELSE "command"
       /\ mirror' = IF push /\ d <= Reach(decoded) THEN Pushed(mirror, d) ELSE mirror
       /\ isLast' = isLast
  <2>1. ~(d < 1 \/ l > remaining)
    BY <1>4, <1>9
  <2>2. CopyLength(pending.copy, d, Reach(decoded)) = l
    BY <1>5, <1>8
  <2> QED
    BY <2>1, <2>2, Zenon DEF BeginCopy
<1>11. mirror' = rings[k + 1]
  <2>1. After(c, rings[k]) = IF d <= Reach(decoded) /\ c.code # 0 THEN Pushed(rings[k], d) ELSE rings[k]
    BY DEF After, Remembers
  <2> HIDE DEF c
  <2>2. push <=> c.code # 0
    BY DEF c
  <2> QED
    BY <1>3, <1>10, <2>1, <2>2
<1>12. k \in Nat /\ Len(chunk) \in Nat /\ k + 1 <= Len(chunk)
  BY <1>1, WrittenFacts DEF CopiesInv, Done
<1>13. made \in Copies
  BY <1>4, <1>9 DEF Copies
<1>14. /\ copied' \in Seq(Copies) /\ Len(copied') = k + 1 /\ copied'[k + 1] = made
       /\ \A i \in 1..k : copied'[i] = copied[i]
  <2>1. copied \in Seq(Copies) /\ Len(copied) = k
    BY <1>1 DEF CopiesInv, Done
  <2> HIDE DEF made, k
  <2> QED
    BY <1>10, <1>13, <2>1, AppendProperties
<1>15. made.distance = c.distance /\ made.length = c.length /\ made.at = c.at
  BY <1>8
<1>16. chunk' = chunk /\ pc' = pc /\ position' = position
  BY DEF Stays
<1>17. CopiesInv'
  <2>1. \A i \in 1..k : /\ copied[i].distance = chunk[i].distance
                        /\ copied[i].length = chunk[i].length
                        /\ copied[i].at = chunk[i].at
    BY <1>1 DEF CopiesInv, Done
  <2>2. chunk[k + 1] = c
    BY DEF Current
  <2>3. \A i \in 1..(k + 1) : i \in 1..k \/ i = k + 1
    BY <1>12
  <2> HIDE DEF made, c, k
  <2>4. \A i \in 1..(k + 1) : /\ copied'[i].distance = chunk[i].distance
                              /\ copied'[i].length = chunk[i].length
                              /\ copied'[i].at = chunk[i].at
    BY <1>14, <1>15, <2>1, <2>2, <2>3
  <2>5. Len(copied') = k + 1 /\ k + 1 <= Len(chunk')
    BY <1>12, <1>14, <1>16
  <2> QED
    BY <1>14, <1>16, <2>4, <2>5, Zenon DEF CopiesInv
<1>18. Done' = k + 1
  BY <1>14 DEF Done
<1> HIDE DEF made, c, k
<1>19. decoded' = marks[k + 1] /\ decoded' \in Nat
  BY <1>3, <1>9, <1>10
<1>20. wire' = rest[k + 1]
  BY DEF k
<1>21. Reading(marks, rings, rest, tail)'
  <2>1. ASSUME remaining = l PROVE AllRead(rings)'
    <3>1. marks[k + 1] = position /\ k + 1 = Len(chunk) /\ tail = 0
      BY <1>3, <1>9, <2>1
    <3>2. phase' = (IF pc = "finished" THEN "ended" ELSE "header")
      BY <1>7, <1>10, <2>1 DEF AtEnd
    <3>3. rest[Len(chunk)] = TailItems(tail)
      BY DEF Written, Rests
    <3>4. wire' = <<>>
      BY <1>20, <3>1, <3>3 DEF TailItems
    <3> QED
      BY <1>11, <1>16, <1>18, <1>19, <3>1, <3>2, <3>4 DEF AllRead
  <2>2. ASSUME remaining # l PROVE AtCommand(marks, rings, rest)'
    <3>1. phase' = "command"
      BY <1>10, <2>2
    <3>2. remaining' = position - marks[k + 1] /\ remaining' > 0
      <4>1. PICK q : q = remaining'
        OBVIOUS
      <4>2. q = remaining - l /\ q > 0
        BY <1>9, <1>10, <2>2, <4>1
      <4> QED
        BY <1>9, <4>1, <4>2
    <3>3. Owed'
      BY <1>7, <1>10, <1>16, <1>19, <3>2, Zenon DEF Owed
    <3> QED
      BY <1>11, <1>18, <1>19, <1>20, <3>1, <3>3 DEF AtCommand
  <2> QED
    BY <2>1, <2>2 DEF Reading
<1>22. IsRing(mirror')
  BY <1>3, <1>11
<1> QED
  BY <1>17, <1>19, <1>21, <1>22, DecoderKeeps

\* A distance is left out only when it is the last one.
LEMMA ImplicitCopyKeeps ==
  ASSUME WriterInv, ImplicitCopy
  PROVE  WriterInv'
<1>1. phase = "copy" /\ Stays /\ BeginCopy(mirror[1], FALSE) /\ wire' = wire
  BY DEF ImplicitCopy, encoder, Stays
<1>2. pc # "parse" /\ CopiesInv /\ WritingInv
  BY <1>1 DEF WriterInv, ParsingInv
<1>3. PICK marks, rings, rest, tail : /\ Written(marks, rings, rest, tail)
                                      /\ Reading(marks, rings, rest, tail)
  BY <1>2 DEF WritingInv
<1>4. AtCopy(rings, rest)
  BY <1>1, <1>3 DEF Reading, HeaderAhead, StoredAhead, EmptyAhead, AllRead, AtCommand,
                    AtLastLiterals, AtLiterals, AtDistance
<1>5. /\ Owed /\ Done < Len(chunk) /\ mirror = rings[Done] /\ decoded = Current.at
      /\ wire = rest[Done + 1] /\ ~RequiresDistance(CommandFor(Current).symbol)
      /\ pending.copy = Current.copy
  BY <1>4 DEF AtCopy, IsPending
<1>6. CurrentFits(marks, rings, rest, tail)
  BY <1>2, <1>3, <1>5, CurrentFacts
<1>7. Fits(mode, Current, rings[Done], marks[Done])
  BY <1>6 DEF CurrentFits
<1>8. Writable(mode, Current) /\ NameMeans(mode, rings[Done], Current.code, Current.distance)
  BY <1>7 DEF Fits
<1>9. Current.code = 0
  <2>1. CommandReads(CommandFor(Current), Current.insert, Current.copy, Current.code = 0)
    BY <1>8, CommandForMeans
  <2> QED
    BY <1>5, <2>1 DEF CommandReads
<1>10. mirror[1] = Current.distance
  BY <1>5, <1>8, <1>9 DEF NameMeans
<1>11. FALSE <=> Current.code # 0
  BY <1>9
<1>12. wire' = rest[Done + 1]
  BY <1>1, <1>5
<1> QED
  BY <1>1, <1>2, <1>3, <1>5, <1>10, <1>11, <1>12, CopyKeeps

\* A distance that is named is the one that was meant.
LEMMA DecodeDistanceKeeps ==
  ASSUME WriterInv, DecodeDistance
  PROVE  WriterInv'
<1> DEFINE item  == Head(wire)
           named == NewDistance(mirror, item.symbol, mode[1], mode[2])
<1>1. phase = "distance" /\ Stays
  BY DEF DecodeDistance, encoder, Stays
<1>2. pc # "parse" /\ CopiesInv /\ WritingInv
  BY <1>1 DEF WriterInv, ParsingInv
<1>3. PICK marks, rings, rest, tail : /\ Written(marks, rings, rest, tail)
                                      /\ Reading(marks, rings, rest, tail)
  BY <1>2 DEF WritingInv
<1>4. AtDistance(rings, rest)
  BY <1>1, <1>3 DEF Reading, HeaderAhead, StoredAhead, EmptyAhead, AllRead, AtCommand,
                    AtLastLiterals, AtLiterals, AtCopy
<1>5. /\ Owed /\ Done < Len(chunk) /\ mirror = rings[Done] /\ decoded = Current.at
      /\ wire = <<DistanceItem(mode, Current)>> \o rest[Done + 1]
      /\ pending.copy = Current.copy
  BY <1>4 DEF AtDistance, IsPending
<1>6. CurrentFits(marks, rings, rest, tail)
  BY <1>2, <1>3, <1>5, CurrentFacts
<1>7. Fits(mode, Current, rings[Done], marks[Done]) /\ rest[Done + 1] \in Seq(Items)
  BY <1>6 DEF CurrentFits
<1>8. Writable(mode, Current) /\ NameMeans(mode, rings[Done], Current.code, Current.distance)
  BY <1>7 DEF Fits
<1>9. item = DistanceItem(mode, Current) /\ Tail(wire) = rest[Done + 1]
  <2>1. DistanceItem(mode, Current) \in Items
    BY <1>8, NamedIsItems
  <2> QED
    BY <1>5, <1>7, <2>1, HeadFollows
<1> HIDE DEF item
<1>10. /\ item.kind = "distance" /\ item.symbol = SymbolOf(Current.code, mode).symbol
       /\ item.x = SymbolOf(Current.code, mode).extra
  BY <1>9 DEF DistanceItem, Item
<1>11. Resolve(named, item.x, mode[1]) = Current.distance /\ (named.push <=> Current.code # 0)
  BY <1>5, <1>8, <1>10 DEF NameMeans
<1>12. BeginCopy(Resolve(named, item.x, mode[1]), named.push) /\ wire' = Tail(wire)
  BY <1>10 DEF DecodeDistance, item
<1> HIDE DEF named
<1>13. wire' = rest[Done + 1]
  BY <1>9, <1>12
<1> QED
  BY <1>1, <1>2, <1>3, <1>5, <1>11, <1>12, <1>13, CopyKeeps

-----------------------------------------------------------------------------
(* The theorem. *)

\* Every step keeps it.
LEMMA WriterStep == WriterInv /\ [Next]_vars => WriterInv'
<1> SUFFICES ASSUME WriterInv, [Next]_vars PROVE WriterInv'
  OBVIOUS
<1>1. ASSUME NEW size \in Common, NEW d \in Distances, Parse(size, d) PROVE WriterInv'
  <2>1. size[1] \in Nat /\ size[2] \in Nat \ {0, 1} /\ d \in 1..MaxDistance
    BY LengthAssumption, DistancesAssumption
  <2> QED
    BY <1>1, <2>1, ParseKeeps
<1>2. ASSUME NEW b \in Boundary, Parse(<<b[1], b[2]>>, b[3]) PROVE WriterInv'
  <2>1. b[1] \in Nat /\ b[2] \in Nat \ {0, 1} /\ b[3] \in 1..MaxDistance
    BY LengthAssumption, DistancesAssumption
  <2>2. <<b[1], b[2]>>[1] = b[1] /\ <<b[1], b[2]>>[2] = b[2]
    OBVIOUS
  <2> QED
    BY <1>2, <2>1, <2>2, ParseKeeps
<1>3. ASSUME NEW tail \in Tails, NEW last \in BOOLEAN, EmitStored(tail, last) PROVE WriterInv'
  <2>1. tail \in Nat
    BY LengthAssumption
  <2> QED
    BY <1>3, <2>1, EmitStoredKeeps
<1>4. ASSUME NEW tail \in Tails, NEW last \in BOOLEAN, EmitCompressed(tail, last) PROVE WriterInv'
  <2>1. tail \in Nat
    BY LengthAssumption
  <2> QED
    BY <1>4, <2>1, EmitCompressedKeeps
<1>5. ASSUME NEW n \in Wholes, WholeLiterals(n) PROVE WriterInv'
  <2>1. n \in 1..MaxMetaBlock
    BY LengthAssumption
  <2> QED
    BY <1>5, <2>1, WholeLiteralsKeeps
<1>6. ASSUME NEW n \in Wholes, NEW period \in 1..4, WholePeriodic(period, n) PROVE WriterInv'
  <2>1. n \in 1..MaxMetaBlock
    BY LengthAssumption
  <2> QED
    BY <1>6, <2>1, WholePeriodicKeeps
<1>7. CASE UNCHANGED vars
  <2>1. /\ Stays /\ wire' = wire /\ phase' = phase /\ isLast' = isLast /\ remaining' = remaining
        /\ pending' = pending /\ mirror' = mirror /\ decoded' = decoded /\ copied' = copied
    BY <1>7 DEF vars, encoder, decoder, Stays
  <2>2. WriterTypes' /\ CopiesInv' /\ (pc' = "parse" => ParsingInv') /\ pc' = pc
    BY <2>1 DEF WriterInv, WriterTypes, CopiesInv, ParsingInv, Stays
  <2>3. ASSUME pc # "parse" PROVE WritingInv'
    <3>1. PICK marks, rings, rest, tail : /\ Written(marks, rings, rest, tail)
                                          /\ Reading(marks, rings, rest, tail)
      BY <2>3 DEF WriterInv, WritingInv
    <3>2. Written(marks, rings, rest, tail)'
      BY <2>1, <3>1, StillWritten
    <3>3. Done' = Done /\ Current' = Current /\ Length' = Length /\ Owed' = Owed
      BY <2>1 DEF Done, Current, Length, Owed, Stays
    <3>4. Reading(marks, rings, rest, tail)'
      <4>1. HeaderAhead(rings, rest) => HeaderAhead(rings, rest)'
        BY <2>1, <3>3 DEF HeaderAhead, Stays
      <4>2. StoredAhead(rings) => StoredAhead(rings)'
        BY <2>1, <3>3 DEF StoredAhead, Stays
      <4>3. EmptyAhead(rings) => EmptyAhead(rings)'
        BY <2>1 DEF EmptyAhead, Stays
      <4>4. AllRead(rings) => AllRead(rings)'
        BY <2>1, <3>3 DEF AllRead, Stays
      <4>5. AtCommand(marks, rings, rest) => AtCommand(marks, rings, rest)'
        BY <2>1, <3>3 DEF AtCommand
      <4>6. AtLastLiterals(marks, rings, tail) => AtLastLiterals(marks, rings, tail)'
        BY <2>1, <3>3 DEF AtLastLiterals, Stays
      <4>7. AtLiterals(marks, rings, rest) => AtLiterals(marks, rings, rest)'
        BY <2>1, <3>3 DEF AtLiterals, IsPending, Stays
      <4>8. AtCopy(rings, rest) => AtCopy(rings, rest)'
        BY <2>1, <3>3 DEF AtCopy, IsPending, Stays
      <4>9. AtDistance(rings, rest) => AtDistance(rings, rest)'
        BY <2>1, <3>3 DEF AtDistance, IsPending, Stays
      <4> QED
        BY <3>1, <4>1, <4>2, <4>3, <4>4, <4>5, <4>6, <4>7, <4>8, <4>9 DEF Reading
    <3> QED
      BY <3>2, <3>4 DEF WritingInv
  <2> QED
    BY <2>2, <2>3 DEF WriterInv
<1> QED
  BY <1>1, <1>2, <1>3, <1>4, <1>5, <1>6, <1>7, NextChunkKeeps, DecodeHeaderKeeps,
     DecodeCommandKeeps, DecodeLiteralsKeeps, ImplicitCopyKeeps, DecodeDistanceKeeps
  DEF Next

\* Every command of the chunk, parsed or on its way, has a symbol of the alphabet.
LEMMA ChainSymbols ==
  ASSUME NEW m, NEW cs, NEW marks, NEW rings, NEW from, NEW first,
         Chain(m, cs, marks, rings, from, first), NEW i \in DOMAIN cs
  PROVE  SymbolOf(cs[i].code, m).symbol < AlphabetSize(m[1], m[2])
<1>1. i \in 1..Len(cs)
  BY DEF Chain
<1>2. Fits(m, cs[i], rings[i - 1], marks[i - 1])
  BY <1>1 DEF Chain
<1> QED
  BY <1>2 DEF Fits, NameMeans

\* What is promised follows.
LEMMA WriterInvFollows == WriterInv => DecoderFollows
<1> SUFFICES ASSUME WriterInv PROVE DecoderFollows
  OBVIOUS
<1>1. WriterTypes /\ CopiesInv
  BY DEF WriterInv
<1>2. /\ Len(copied) <= Len(chunk)
      /\ \A i \in DOMAIN copied : \A f \in {"distance", "length", "at"} : copied[i][f] = chunk[i][f]
  <2>1. DOMAIN copied = 1..Len(copied)
    BY <1>1 DEF CopiesInv
  <2>2. \A i \in DOMAIN copied : /\ copied[i]["distance"] = chunk[i]["distance"]
                                 /\ copied[i]["length"] = chunk[i]["length"]
                                 /\ copied[i]["at"] = chunk[i]["at"]
    BY <1>1, <2>1 DEF CopiesInv
  <2> QED
    BY <1>1, <2>2 DEF CopiesInv
<1>3. CASE pc = "parse"
  <2>1. /\ wire = <<>> /\ phase = "header" /\ decoded = start /\ mirror = snapshot
        /\ ParsedTo(mode, chunk, start, snapshot, position, ring)
    BY <1>3 DEF WriterInv, ParsingInv
  <2>2. \A i \in DOMAIN chunk : SymbolOf(chunk[i].code, mode).symbol < AlphabetSize(mode[1], mode[2])
    BY <2>1, ChainSymbols DEF ParsedTo
  <2>3. chunk = <<>> => ring = mirror
    <3>1. ASSUME chunk = <<>> PROVE ring = mirror
      <4>1. PICK marks, rings : /\ Chain(mode, chunk, marks, rings, start, snapshot)
                                /\ rings[Len(chunk)] = ring
        BY <2>1 DEF ParsedTo
      <4>2. Len(chunk) = 0
        BY <3>1
      <4> QED
        BY <2>1, <4>1, <4>2 DEF Chain
    <3> QED
      BY <3>1
  <2> QED
    BY <1>2, <1>3, <2>1, <2>2, <2>3, Zenon DEF DecoderFollows
<1>4. CASE pc # "parse"
  <2>1. PICK marks, rings, rest, tail : /\ Written(marks, rings, rest, tail)
                                        /\ Reading(marks, rings, rest, tail)
    BY <1>4 DEF WriterInv, WritingInv
  <2>2. \A i \in DOMAIN chunk : SymbolOf(chunk[i].code, mode).symbol < AlphabetSize(mode[1], mode[2])
    BY <2>1, ChainSymbols DEF Written
  <2> DEFINE AsPromised ==
               /\ phase # "lost"
               /\ wire = <<>> => phase \in {"header", "ended", "copy"}
                                 \/ (phase = "literals" /\ pending.insert = 0)
               /\ wire = <<>> /\ phase \in {"header", "ended"} =>
                    /\ phase = "ended" <=> pc = "finished"
                    /\ decoded = position /\ Len(copied) = Len(chunk)
               /\ phase = "ended" => wire = <<>>
  <2>3. ASSUME HeaderAhead(rings, rest) \/ StoredAhead(rings) \/ EmptyAhead(rings) PROVE AsPromised
    <3>1. wire # <<>> /\ phase = "header"
      BY <2>1, <2>3, AheadIsSomething DEF HeaderAhead, StoredAhead, EmptyAhead
    <3> QED
      BY <3>1
  <2>4. ASSUME AllRead(rings) PROVE AsPromised
    BY <2>4 DEF AllRead, Done
  <2>5. ASSUME AtCommand(marks, rings, rest) PROVE AsPromised
    <3>1. phase = "command" /\ wire = rest[Done] /\ decoded = marks[Done] /\ remaining > 0
          /\ remaining = position - decoded
      BY <2>5 DEF AtCommand, Owed
    <3>2. Len(chunk) \in Nat /\ tail \in Nat /\ Done \in Nat /\ Done <= Len(chunk)
      BY <1>1, <2>1, WrittenFacts DEF CopiesInv, Done
    <3>3. wire # <<>>
      <4>1. CASE Done < Len(chunk)
        <5>1. CurrentFits(marks, rings, rest, tail)
          BY <1>1, <2>1, <4>1, CurrentFacts
        <5>2. /\ rest[Done] = <<CommandItem(CommandFor(Current))>>
                              \o (Literals(Current.insert) \o (Named(mode, Current) \o rest[Done + 1]))
              /\ Writable(mode, Current) /\ Current \in Parsed /\ rest[Done + 1] \in Seq(Items)
          BY <5>1 DEF CurrentFits, Fits
        <5>3. CommandItem(CommandFor(Current)) \in Items
          BY <5>2, CommandForMeans, CommandIsItem
        <5>4. Literals(Current.insert) \in Seq(Items) /\ Named(mode, Current) \in Seq(Items)
          BY <5>2, LiteralsAreItems, NamedIsItems DEF Parsed
        <5>5. Literals(Current.insert) \o (Named(mode, Current) \o rest[Done + 1]) \in Seq(Items)
          BY <5>2, <5>4, ConcatProperties
        <5> QED
          BY <3>1, <5>2, <5>3, <5>5, HeadFollows
      <4>2. CASE Done = Len(chunk)
        <5>1. rest[Done] = TailItems(tail) /\ position = marks[Done] + tail /\ tail \in 0..MaxMetaBlock
          BY <2>1, <4>2 DEF Written, Rests
        <5>2. position \in Nat /\ marks[Done] \in Nat
          BY <1>1, <3>1 DEF WriterTypes
        <5>3. tail # 0
          BY <3>1, <3>2, <5>1, <5>2
        <5>4. wire = <<CommandItem(InsertCommand(tail))>> \o Literals(tail)
          BY <3>1, <5>1, <5>3 DEF TailItems
        <5> QED
          BY <3>2, <5>1, <5>4, TailIsItems, LiteralsAreItems, HeadFollows
      <4> QED
        BY <3>2, <4>1, <4>2
    <3> QED
      BY <3>1, <3>3
  <2>6. ASSUME AtLastLiterals(marks, rings, tail) PROVE AsPromised
    <3>1. phase = "literals" /\ wire = Literals(tail) /\ pending.insert = tail
      BY <2>6 DEF AtLastLiterals
    <3>2. tail # 0 => wire # <<>>
      BY <3>1 DEF Literals
    <3> QED
      BY <3>1, <3>2
  <2>7. ASSUME AtLiterals(marks, rings, rest) PROVE AsPromised
    <3>1. /\ phase = "literals" /\ Done < Len(chunk) /\ pending.insert = Current.insert
          /\ wire = Literals(Current.insert) \o (Named(mode, Current) \o rest[Done + 1])
      BY <2>7 DEF AtLiterals
    <3>2. CurrentFits(marks, rings, rest, tail)
      BY <1>1, <2>1, <3>1, CurrentFacts
    <3>3. Writable(mode, Current) /\ Current \in Parsed /\ rest[Done + 1] \in Seq(Items)
      BY <3>2 DEF CurrentFits, Fits
    <3>4. Named(mode, Current) \o rest[Done + 1] \in Seq(Items) /\ Current.insert \in Nat
      BY <3>3, NamedIsItems, ConcatProperties DEF Parsed
    <3>5. ASSUME Current.insert # 0 PROVE wire # <<>>
      <4>1. Item("literals", 0, Current.insert, 0) \in Items
        BY <3>4 DEF Item, Items, Kinds
      <4>2. wire = <<Item("literals", 0, Current.insert, 0)>> \o (Named(mode, Current) \o rest[Done + 1])
        BY <3>1, <3>5 DEF Literals
      <4> QED
        BY <3>4, <4>1, <4>2, HeadFollows
    <3> QED
      BY <3>1, <3>5
  <2>8. ASSUME AtCopy(rings, rest) PROVE AsPromised
    BY <2>8 DEF AtCopy
  <2>9. ASSUME AtDistance(rings, rest) PROVE AsPromised
    <3>1. /\ phase = "distance" /\ Done < Len(chunk)
          /\ wire = <<DistanceItem(mode, Current)>> \o rest[Done + 1]
      BY <2>9 DEF AtDistance
    <3>2. CurrentFits(marks, rings, rest, tail)
      BY <1>1, <2>1, <3>1, CurrentFacts
    <3>3. Writable(mode, Current) /\ rest[Done + 1] \in Seq(Items)
      BY <3>2 DEF CurrentFits, Fits
    <3>4. wire # <<>>
      BY <3>1, <3>3, NamedIsItems, HeadFollows
    <3> QED
      BY <3>1, <3>4
  <2>10. AsPromised
    BY <2>1, <2>3, <2>4, <2>5, <2>6, <2>7, <2>8, <2>9 DEF Reading
  <2> QED
    BY <1>2, <1>4, <2>2, <2>10, Zenon DEF DecoderFollows
<1> QED
  BY <1>3, <1>4

\* The inductive invariant of the encoder and the decoder that reads after it:
\* what is written is the commands that were parsed, and wherever the decoder is
\* in it, it has done what they mean.
THEOREM WriterInvariance == Spec => []WriterInv
<1>1. Init => WriterInv
  BY WriterStarts
<1>2. WriterInv /\ [Next]_vars => WriterInv'
  BY WriterStep
<1> QED
  BY <1>1, <1>2, PTL DEF Spec

\* So for any parse of any input, in any window and under any parameters of
\* distances, however its chunks go out, the decoder follows the encoder to the
\* end of the stream (write_single, write_split, emit_chunk, compute_code,
\* for_code, combine_length_codes and what undoes them).
THEOREM CommandsAreRead == Spec => []DecoderFollows
BY WriterInvariance, WriterInvFollows, PTL

-----------------------------------------------------------------------------
(* The bit writer: what a number's bits are, and counting through them. *)

\* What holds of 0 and goes from each number to the next holds up to n.
LEMMA UpTo ==
  ASSUME NEW n \in Nat, NEW H, 0 \in H, \A i \in 1..n : i - 1 \in H => i \in H
  PROVE  \A i \in 0..n : i \in H
<1> DEFINE T == {i \in 0..n : i \notin H}
<1>1. SUFFICES ASSUME T # {} PROVE FALSE
  OBVIOUS
<1>2. PICK i \in T : \A k \in T : i <= k
  <2>1. T \in SUBSET Nat
    OBVIOUS
  <2> HIDE DEF T
  <2> QED
    BY <1>1, <2>1, LeastNumber
<1>3. i \in 0..n /\ i \notin H
  OBVIOUS
<1>4. PICK k : k = i - 1
  OBVIOUS
<1>5. i \in 1..n /\ k \in 0..n /\ ~(i <= k)
  BY <1>3, <1>4
<1>6. k \in H
  BY <1>2, <1>5
<1> QED
  BY <1>3, <1>4, <1>5, <1>6

\* A function on an interval that is defined from each value to the next exists.
Recursion(f, n, S, first, step) ==
  f \in [0..n -> S] /\ f[0] = first /\ \A i \in 1..n : f[i] = step[i][f[i - 1]]

\* It is that of the numbers up to which there is one.
LEMMA RecursionExists ==
  ASSUME NEW n \in Nat, NEW S, NEW first \in S, NEW step \in [1..n -> [S -> S]]
  PROVE  \E f : Recursion(f, n, S, first, step)
<1> DEFINE Is(f, j) == f \in [0..j -> S] /\ f[0] = first /\ \A i \in 1..j : f[i] = step[i][f[i - 1]]
           H == {j \in 0..n : \E f : Is(f, j)}
<1>1. 0 \in H
  <2>1. Is([i \in 0..0 |-> first], 0)
    OBVIOUS
  <2>2. 0 \in 0..n
    OBVIOUS
  <2> HIDE DEF Is
  <2> QED
    BY <2>1, <2>2
<1>2. ASSUME NEW j \in 1..n, j - 1 \in H PROVE j \in H
  <2>1. PICK k : k = j - 1
    OBVIOUS
  <2>2. k \in 0..n /\ j = k + 1 /\ j \in 0..n
    BY <2>1
  <2>3. PICK f : Is(f, k)
    <3> HIDE DEF Is
    <3> QED
      BY <1>2, <2>1
  <2> DEFINE g == [i \in 0..j |-> IF i = j THEN step[j][f[k]] ELSE f[i]]
  <2>4. f \in [0..k -> S] /\ f[0] = first
    BY <2>3
  <2>5. \A i \in 1..k : f[i] = step[i][f[i - 1]]
    BY <2>3
  <2>6. f[k] \in S /\ step[j][f[k]] \in S
    BY <2>2, <2>4
  <2>7. g \in [0..j -> S]
    <3>1. \A i \in 0..j : i # j => i \in 0..k
      BY <2>2
    <3> QED
      BY <2>4, <2>6, <3>1
  <2>8. g[0] = first
    BY <2>2, <2>4
  <2>9. \A i \in 1..j : g[i] = step[i][g[i - 1]]
    <3> TAKE i \in 1..j
    <3>1. i \in 0..j /\ i - 1 \in 0..j /\ i - 1 # j /\ (i = j => i - 1 = k) /\ (i # j => i \in 1..k)
      BY <2>2
    <3>2. g[i - 1] = f[i - 1] /\ g[i] = IF i = j THEN step[j][f[k]] ELSE f[i]
      BY <3>1
    <3> HIDE DEF g
    <3> QED
      BY <2>5, <3>1, <3>2
  <2> HIDE DEF g
  <2>10. Is(g, j)
    BY <2>7, <2>8, <2>9
  <2> HIDE DEF Is
  <2> QED
    BY <2>2, <2>10
<1>3. n \in H
  <2>1. n \in 0..n
    OBVIOUS
  <2> HIDE DEF H
  <2> QED
    BY <1>1, <1>2, <2>1, UpTo
<1>4. PICK f : Is(f, n)
  <2> HIDE DEF Is
  <2> QED
    BY <1>3
<1> QED
  BY <1>4 DEF Recursion

-----------------------------------------------------------------------------
(* Bits. *)

\* The word has bits, and whole bytes of them.
LEMMA WordIs ==
  /\ WordBits \in Nat \ {0} /\ ByteWidth \in 1..WordBits
  /\ \A n \in 0..WordBytes : ByteWidth * n \in 0..WordBits
  /\ \A n \in Nat : ByteWidth * n <= WordBits => n <= WordBytes
<1>1. PICK B, Y : B = ByteWidth /\ Y = WordBytes
  OBVIOUS
<1>2. B \in Nat /\ Y \in Nat /\ B >= 1 /\ Y >= 1
  BY <1>1, WidthAssumption
<1>3. B * Y \in Nat /\ B * Y >= B
  BY <1>2
<1>4. \A n \in 0..Y : B * n \in Nat /\ B * n <= B * Y
  BY <1>2
<1>5. \A n \in Nat : B * n <= B * Y => n <= Y
  BY <1>2
<1> QED
  BY <1>1, <1>2, <1>3, <1>4, <1>5 DEF WordBits

\* What TwoTo is.
LEMMA TwoToIs ==
  /\ \A k \in 0..WordBits : TwoTo[k] \in Nat \ {0}
  /\ TwoTo[0] = 1
  /\ \A k \in 1..WordBits : TwoTo[k] = 2 * TwoTo[k - 1]
<1> DEFINE P == Nat \ {0}
           step == [k \in 1..WordBits |-> [s \in P |-> 2 * s]]
<1>1. WordBits \in Nat /\ 1 \in P /\ step \in [1..WordBits -> [P -> P]]
  BY WordIs
<1>2. PICK f : f \in [0..WordBits -> P] /\ f[0] = 1 /\ \A i \in 1..WordBits : f[i] = step[i][f[i - 1]]
  <2> HIDE DEF P, step
  <2>1. \E f : Recursion(f, WordBits, P, 1, step)
    BY <1>1, RecursionExists, Zenon
  <2> QED
    BY <2>1 DEF Recursion
<1>3. \A i \in 1..WordBits : f[i] = 2 * f[i - 1]
  <2> TAKE i \in 1..WordBits
  <2>1. i - 1 \in 0..WordBits
    BY <1>1
  <2>2. f[i - 1] \in P
    BY <1>2, <2>1
  <2> QED
    BY <1>2, <2>2
<1> DEFINE Step(g) == [k \in 0..WordBits |-> IF k = 0 THEN 1 ELSE 2 * g[k - 1]]
<1>4. f = Step(f)
  <2>1. \A k \in 0..WordBits : k # 0 => k \in 1..WordBits
    BY <1>1
  <2> QED
    BY <1>2, <1>3, <2>1
<1>5. TwoTo = Step(TwoTo)
  <2>1. TwoTo = CHOOSE g : g = Step(g)
    BY DEF TwoTo
  <2> HIDE DEF Step
  <2> QED
    BY <1>4, <2>1
<1>6. TwoTo[0] = 1 /\ \A k \in 1..WordBits : TwoTo[k] = 2 * TwoTo[k - 1]
  <2>1. 0 \in 0..WordBits /\ \A k \in 1..WordBits : k \in 0..WordBits /\ k # 0
    BY <1>1
  <2> QED
    BY <1>5, <2>1
<1>7. \A k \in 0..WordBits : k \in {i \in Nat : TwoTo[i] \in P}
  <2> DEFINE H == {i \in Nat : TwoTo[i] \in P}
  <2>1. 0 \in H
    BY <1>6
  <2>2. \A i \in 1..WordBits : i - 1 \in H => i \in H
    BY <1>6
  <2> HIDE DEF H
  <2>3. \A k \in 0..WordBits : k \in H
    BY <1>1, <2>1, <2>2, UpTo
  <2> QED
    BY <2>3 DEF H
<1> QED
  BY <1>6, <1>7

\* Shifts add up.
LEMMA TwoToAdds ==
  ASSUME NEW a \in Nat, NEW b \in Nat, a + b <= WordBits
  PROVE  TwoTo[a + b] = TwoTo[a] * TwoTo[b]
<1> DEFINE H == {i \in Nat : TwoTo[a + i] = TwoTo[a] * TwoTo[i]}
<1>1. WordBits \in Nat /\ a \in 0..WordBits /\ b \in 0..WordBits
  BY WordIs
<1>2. 0 \in H
  <2>1. a + 0 = a /\ TwoTo[a] \in Nat /\ TwoTo[0] = 1
    BY <1>1, TwoToIs
  <2> QED
    BY <2>1
<1>3. ASSUME NEW i \in 1..b, i - 1 \in H PROVE i \in H
  <2>1. PICK k : k = i - 1
    OBVIOUS
  <2>2. k \in Nat /\ i = k + 1 /\ a + k \in 0..WordBits /\ a + i \in 1..WordBits /\ a + i - 1 = a + k
        /\ k \in 0..WordBits /\ i \in 1..WordBits
    BY <1>1, <2>1
  <2>3. TwoTo[a + i] = 2 * TwoTo[a + k] /\ TwoTo[i] = 2 * TwoTo[k]
    BY <2>1, <2>2, TwoToIs
  <2>4. TwoTo[a + k] = TwoTo[a] * TwoTo[k]
    BY <1>3, <2>1
  <2>5. TwoTo[a] \in Nat /\ TwoTo[k] \in Nat
    BY <1>1, <2>2, TwoToIs
  <2>6. PICK A, K : A = TwoTo[a] /\ K = TwoTo[k]
    OBVIOUS
  <2>7. 2 * (A * K) = A * (2 * K)
    BY <2>5, <2>6
  <2>8. TwoTo[a + i] = TwoTo[a] * TwoTo[i]
    BY <2>3, <2>4, <2>6, <2>7, Zenon
  <2> QED
    BY <2>2, <2>8
<1>4. b \in H
  <2>1. b \in 0..b
    OBVIOUS
  <2> HIDE DEF H
  <2> QED
    BY <1>2, <1>3, <2>1, UpTo
<1> QED
  BY <1>4

\* What a quotient and a remainder are.
LEMMA Quotient ==
  ASSUME NEW d \in Nat \ {0}, NEW q \in Int, NEW r \in 0..(d - 1), NEW x \in Int, x = q * d + r
  PROVE  x % d = r /\ x \div d = q
<1>1. PICK a, b : a = x \div d /\ b = x % d
  OBVIOUS
<1>2. a \in Int /\ b \in 0..(d - 1) /\ x = a * d + b
  BY <1>1
<1>3. a = q
  <2>1. (a - q) * d = r - b
    BY <1>2
  <2>2. a - q >= 1 => (a - q) * d >= d
    BY <1>2
  <2>3. a - q <= -1 => (a - q) * d <= 0 - d
    BY <1>2
  <2> QED
    BY <1>2, <2>1, <2>2, <2>3
<1>4. b = r
  BY <1>2, <1>3
<1> QED
  BY <1>1, <1>3, <1>4

\* A number below what it is divided by.
LEMMA Small ==
  ASSUME NEW d \in Nat \ {0}, NEW x \in 0..(d - 1)
  PROVE  x % d = x /\ x \div d = 0
<1>1. x = 0 * d + x /\ x \in Int /\ 0 \in Int
  OBVIOUS
<1> QED
  BY <1>1, Quotient

\* A number is its quotient and its remainder.
LEMMA DivMod ==
  ASSUME NEW d \in Nat \ {0}, NEW x \in Nat
  PROVE  /\ x \div d \in Nat /\ x % d \in 0..(d - 1)
         /\ x = (x \div d) * d + (x % d)
OBVIOUS

\* A number cut at one place and at another above it.
Cuts(v, P, Q) ==
  /\ (v \div P) \div Q = v \div (P * Q)
  /\ (v % (P * Q)) \div P = (v \div P) % Q
  /\ (v % (P * Q)) % P = v % P

\* The lower part of a number, cut again, is what it was cut to.
LEMMA TwoCuts ==
  ASSUME NEW v \in Nat, NEW P \in Nat \ {0}, NEW Q \in Nat \ {0}
  PROVE  Cuts(v, P, Q)
<1>1. PICK a, r : a = v \div P /\ r = v % P
  OBVIOUS
<1>2. a \in Nat /\ r \in 0..(P - 1) /\ v = a * P + r
  BY <1>1, DivMod
<1>3. PICK b, s : b = a \div Q /\ s = a % Q
  OBVIOUS
<1>4. b \in Nat /\ s \in 0..(Q - 1) /\ a = b * Q + s
  BY <1>2, <1>3, DivMod
<1>5. PICK D, z : D = P * Q /\ z = s * P + r
  OBVIOUS
<1>6. D \in Nat \ {0} /\ z \in Nat
  BY <1>2, <1>4, <1>5
<1>7. z < D
  <2>1. s + 1 <= Q /\ (s + 1) * P <= Q * P
    BY <1>4
  <2>2. PICK m : m = s * P
    OBVIOUS
  <2>3. m \in Nat /\ (s + 1) * P = m + P /\ Q * P = P * Q
    BY <1>4, <2>2
  <2> QED
    BY <1>2, <1>5, <1>6, <2>1, <2>2, <2>3
<1>8. v = b * D + z
  <2>1. v = (b * Q + s) * P + r
    BY <1>2, <1>4
  <2>2. (b * Q + s) * P = b * (P * Q) + s * P
    BY <1>4
  <2> QED
    BY <1>2, <1>4, <1>5, <2>1, <2>2
<1>9. z \in 0..(D - 1)
  BY <1>6, <1>7
<1>10. v % D = z /\ v \div D = b
  BY <1>4, <1>6, <1>8, <1>9, Quotient
<1>11. z % P = r /\ z \div P = s
  BY <1>2, <1>4, <1>5, <1>6, Quotient
<1> QED
  BY <1>1, <1>3, <1>5, <1>10, <1>11, Zenon DEF Cuts

\* The bit of a number at a place.
LEMMA BitOfIs ==
  ASSUME NEW v \in Nat, NEW i \in 0..WordBits
  PROVE  BitOf(v, i) = (v \div TwoTo[i]) % 2 /\ BitOf(v, i) \in Nat
<1>1. 1 \in 1..WordBits /\ 1 - 1 = 0
  BY WordIs
<1>2. TwoTo[1] = 2
  BY <1>1, TwoToIs
<1>3. TwoTo[i] \in Nat \ {0}
  BY TwoToIs
<1>4. v \div TwoTo[i] \in Nat
  BY <1>3, DivMod
<1> QED
  BY <1>2, <1>4 DEF BitOf, LowBits

\* It is the same counted from where the number was cut,
LEMMA BitOfShifted ==
  ASSUME NEW v \in Nat, NEW t \in Nat, NEW i \in Nat, t + i <= WordBits
  PROVE  v \div TwoTo[t] \in Nat /\ BitOf(v \div TwoTo[t], i) = BitOf(v, t + i)
<1>1. t \in 0..WordBits /\ i \in 0..WordBits /\ t + i \in 0..WordBits
  BY WordIs
<1>2. TwoTo[t] \in Nat \ {0} /\ TwoTo[i] \in Nat \ {0}
  BY <1>1, TwoToIs
<1>3. TwoTo[t + i] = TwoTo[t] * TwoTo[i]
  BY TwoToAdds
<1>4. (v \div TwoTo[t]) \div TwoTo[i] = v \div TwoTo[t + i]
  <2>1. PICK P, Q : P = TwoTo[t] /\ Q = TwoTo[i]
    OBVIOUS
  <2>2. (v \div P) \div Q = v \div (P * Q)
    BY <1>2, <2>1, TwoCuts DEF Cuts
  <2> QED
    BY <1>3, <2>1, <2>2, Zenon
<1>5. v \div TwoTo[t] \in Nat
  BY <1>2, DivMod
<1> QED
  BY <1>4, <1>5 DEF BitOf

\* and in the number without what is above.
LEMMA BitOfLow ==
  ASSUME NEW v \in Nat, NEW n \in 0..WordBits, NEW i \in 0..(n - 1)
  PROVE  LowBits(v, n) \in Nat /\ BitOf(LowBits(v, n), i) = BitOf(v, i)
<1>1. PICK k : k = n - i
  OBVIOUS
<1>2. k \in 1..WordBits /\ k - 1 \in 0..WordBits /\ k \in 0..WordBits /\ i + k = n /\ i \in 0..WordBits
      /\ i \in Nat /\ k \in Nat /\ i + k <= WordBits
  BY <1>1, WordIs
<1>3. PICK P, Q, R : P = TwoTo[i] /\ Q = TwoTo[k] /\ R = TwoTo[k - 1]
  OBVIOUS
<1>4. P \in Nat \ {0} /\ Q \in Nat \ {0} /\ R \in Nat \ {0} /\ Q = 2 * R
  BY <1>2, <1>3, TwoToIs
<1>5. TwoTo[n] = P * Q
  BY <1>2, <1>3, TwoToAdds
<1>6. PICK x : x = v \div P
  OBVIOUS
<1>7. x \in Nat
  BY <1>4, <1>6, DivMod
<1>8. (v % (P * Q)) \div P = x % Q
  <2>1. Cuts(v, P, Q)
    BY <1>4, TwoCuts
  <2> QED
    BY <1>6, <2>1 DEF Cuts
<1>9. (x % (2 * R)) % 2 = x % 2
  <2>1. 2 \in Nat \ {0}
    OBVIOUS
  <2>2. Cuts(x, 2, R)
    BY <1>4, <1>7, <2>1, TwoCuts
  <2> QED
    BY <2>2 DEF Cuts
<1>10. LowBits(v, n) = v % (P * Q)
  BY <1>5 DEF LowBits
<1>11. LowBits(v, n) \in Nat
  <2>1. TwoTo[n] \in Nat \ {0}
    BY TwoToIs
  <2>2. v % TwoTo[n] \in Nat
    BY <2>1
  <2> QED
    BY <2>2 DEF LowBits
<1>12. BitOf(LowBits(v, n), i) = (LowBits(v, n) \div P) % 2 /\ BitOf(v, i) = x % 2
  BY <1>2, <1>3, <1>6, <1>11, BitOfIs
<1> QED
  BY <1>4, <1>8, <1>9, <1>10, <1>11, <1>12, Zenon

\* Numbers as sequences of bits.
LEMMA LowFirstIs ==
  ASSUME NEW v \in Nat, NEW n \in 0..WordBits
  PROVE  /\ LowFirst(v, n) \in Seq(Nat) /\ Len(LowFirst(v, n)) = n
         /\ \A i \in 1..n : LowFirst(v, n)[i] = BitOf(v, i - 1)
<1>1. \A i \in 1..n : BitOf(v, i - 1) \in Nat
  <2> TAKE i \in 1..n
  <2>1. i - 1 \in 0..WordBits
    BY WordIs
  <2> QED
    BY <2>1, BitOfIs
<1>2. LowFirst(v, n) \in [1..n -> Nat]
  BY <1>1 DEF LowFirst
<1>3. n \in Nat
  BY WordIs
<1>4. \A i \in 1..n : LowFirst(v, n)[i] = BitOf(v, i - 1)
  BY DEF LowFirst
<1> HIDE DEF LowFirst
<1> QED
  BY <1>2, <1>3, <1>4

\* Two sequences of bits one after the other.
LEMMA Joined ==
  ASSUME NEW s \in Seq(Nat), NEW a \in Seq(Nat), NEW b \in Seq(Nat), Len(s) = Len(a) + Len(b),
         \A i \in 1..Len(a) : s[i] = a[i],
         \A i \in 1..Len(b) : s[Len(a) + i] = b[i]
  PROVE  s = a \o b
<1>1. a \o b \in Seq(Nat) /\ Len(a \o b) = Len(a) + Len(b) /\ Len(a) \in Nat /\ Len(b) \in Nat
  OBVIOUS
<1>2. \A i \in 1..Len(s) : s[i] = (a \o b)[i]
  <2> TAKE i \in 1..Len(s)
  <2>1. CASE i <= Len(a)
    BY <1>1, <2>1
  <2>2. CASE i > Len(a)
    <3>1. PICK j : j = i - Len(a)
      OBVIOUS
    <3>2. j \in 1..Len(b) /\ i = Len(a) + j
      BY <1>1, <2>2, <3>1
    <3>3. (a \o b)[i] = b[j]
      BY <1>1, <2>2, <3>1, <3>2
    <3> QED
      BY <3>2, <3>3
  <2> QED
    BY <1>1, <2>1, <2>2
<1> QED
  BY <1>1, <1>2, SeqEqual

\* A number's bits are the lower ones and those above,
Splits(v, a, b) ==
  /\ v \div TwoTo[a] \in Nat
  /\ LowFirst(v, a + b) = LowFirst(v, a) \o LowFirst(v \div TwoTo[a], b)

\* That holds of every number, wherever it is split.
LEMMA LowFirstSplits ==
  ASSUME NEW v \in Nat, NEW a \in Nat, NEW b \in Nat, a + b <= WordBits
  PROVE  Splits(v, a, b)
<1>1. a \in 0..WordBits /\ b \in 0..WordBits /\ a + b \in 0..WordBits
  BY WordIs
<1>2. PICK h : h = v \div TwoTo[a]
  OBVIOUS
<1>3. h \in Nat
  BY <1>1, <1>2, TwoToIs, DivMod
<1>4. PICK s, x, y : s = LowFirst(v, a + b) /\ x = LowFirst(v, a) /\ y = LowFirst(h, b)
  OBVIOUS
<1>5. /\ s \in Seq(Nat) /\ x \in Seq(Nat) /\ y \in Seq(Nat)
      /\ Len(s) = a + b /\ Len(x) = a /\ Len(y) = b
  <2>1. s \in Seq(Nat) /\ Len(s) = a + b
    BY <1>1, <1>4, LowFirstIs
  <2>2. x \in Seq(Nat) /\ Len(x) = a
    BY <1>1, <1>4, LowFirstIs
  <2>3. y \in Seq(Nat) /\ Len(y) = b
    BY <1>1, <1>3, <1>4, LowFirstIs
  <2> QED
    BY <2>1, <2>2, <2>3
<1>6. \A i \in 1..Len(x) : s[i] = x[i]
  <2> TAKE i \in 1..Len(x)
  <2>1. i \in 1..a /\ i \in 1..(a + b)
    BY <1>5
  <2> QED
    <3>1. s[i] = BitOf(v, i - 1)
      BY <1>1, <1>4, <2>1, LowFirstIs
    <3>2. x[i] = BitOf(v, i - 1)
      BY <1>1, <1>4, <2>1, LowFirstIs
    <3> QED
      BY <3>1, <3>2
<1>7. \A i \in 1..Len(y) : s[Len(x) + i] = y[i]
  <2> TAKE i \in 1..Len(y)
  <2>1. i \in 1..b /\ a + i \in 1..(a + b) /\ i - 1 \in Nat /\ a + (i - 1) <= WordBits
        /\ a + (i - 1) = (a + i) - 1
    BY <1>1, <1>5, WordIs
  <2>2. s[a + i] = BitOf(v, (a + i) - 1) /\ y[i] = BitOf(h, i - 1)
    BY <1>1, <1>3, <1>4, <2>1, LowFirstIs
  <2>3. BitOf(h, i - 1) = BitOf(v, a + (i - 1))
    BY <1>2, <2>1, BitOfShifted
  <2> QED
    BY <1>5, <2>1, <2>2, <2>3
<1>8. s = x \o y
  BY <1>5, <1>6, <1>7, Joined
<1> QED
  BY <1>2, <1>3, <1>4, <1>8 DEF Splits

\* and the lower ones do not depend on those.
LEMMA LowFirstOfLow ==
  ASSUME NEW v \in Nat, NEW n \in 0..WordBits, NEW m \in 0..n
  PROVE  LowBits(v, n) \in Nat /\ LowBits(v, n) < TwoTo[n] /\ LowFirst(LowBits(v, n), m) = LowFirst(v, m)
<1>1. TwoTo[n] \in Nat \ {0}
  BY TwoToIs
<1>2. LowBits(v, n) \in Nat /\ LowBits(v, n) < TwoTo[n]
  BY <1>1 DEF LowBits
<1>3. \A i \in 1..m : BitOf(LowBits(v, n), i - 1) = BitOf(v, i - 1)
  <2> TAKE i \in 1..m
  <2>1. i - 1 \in 0..(n - 1)
    BY WordIs
  <2> QED
    BY <2>1, BitOfLow
<1> QED
  BY <1>2, <1>3 DEF LowFirst

\* A bit of some bytes is one of one of them.
LEMMA PlaceIs ==
  ASSUME NEW n \in Nat, NEW i \in 1..(ByteWidth * n)
  PROVE  /\ ((i - 1) \div ByteWidth) + 1 \in 1..n /\ (i - 1) % ByteWidth \in 0..(ByteWidth - 1)
         /\ i - 1 = (((i - 1) \div ByteWidth) * ByteWidth) + ((i - 1) % ByteWidth)
<1>1. PICK B : B = ByteWidth
  OBVIOUS
<1>2. B \in Nat \ {0}
  BY <1>1, WidthAssumption
<1>3. PICK x : x = i - 1
  OBVIOUS
<1>4. B * n \in Nat /\ i \in 1..(B * n)
  BY <1>1, <1>2
<1>5. x \in Nat /\ x < B * n
  BY <1>3, <1>4
<1>6. PICK q, r : q = x \div B /\ r = x % B
  OBVIOUS
<1>7. q \in Nat /\ r \in 0..(B - 1) /\ x = q * B + r
  BY <1>2, <1>5, <1>6, DivMod
<1>8. q < n
  <2>1. q >= n => q * B >= n * B
    BY <1>2, <1>7
  <2>2. n * B = B * n /\ q * B \in Nat
    BY <1>2, <1>7
  <2> QED
    BY <1>2, <1>4, <1>5, <1>7, <2>1, <2>2
<1>9. q + 1 \in 1..n
  BY <1>7, <1>8
<1> QED
  BY <1>1, <1>3, <1>6, <1>7, <1>9

\* The bits of bytes are so many, and each is one of a byte.
LEMMA BitsOfBytesAre ==
  ASSUME NEW b \in Seq(Nat)
  PROVE  /\ BitsOfBytes(b) \in Seq(Nat) /\ Len(BitsOfBytes(b)) = ByteWidth * Len(b)
         /\ ByteWidth * Len(b) \in Nat
         /\ \A i \in 1..(ByteWidth * Len(b)) :
              BitsOfBytes(b)[i] = BitOf(b[((i - 1) \div ByteWidth) + 1], (i - 1) % ByteWidth)
<1>1. PICK n : n = ByteWidth * Len(b)
  OBVIOUS
<1>2. n \in Nat
  BY <1>1, WidthAssumption
<1>3. \A i \in 1..n : BitOf(b[((i - 1) \div ByteWidth) + 1], (i - 1) % ByteWidth) \in Nat
  <2> TAKE i \in 1..n
  <2>1. PICK j, k : j = ((i - 1) \div ByteWidth) + 1 /\ k = (i - 1) % ByteWidth
    OBVIOUS
  <2>2. j \in 1..Len(b) /\ k \in 0..(ByteWidth - 1)
    BY <1>1, <2>1, PlaceIs
  <2>3. b[j] \in Nat /\ k \in 0..WordBits
    BY <2>2, WordIs
  <2> QED
    BY <2>1, <2>3, BitOfIs
<1>4. BitsOfBytes(b) = [i \in 1..n |-> BitOf(b[((i - 1) \div ByteWidth) + 1], (i - 1) % ByteWidth)]
  BY <1>1 DEF BitsOfBytes
<1>5. BitsOfBytes(b) \in [1..n -> Nat]
  BY <1>3, <1>4
<1>6. \A i \in 1..n : BitsOfBytes(b)[i] = BitOf(b[((i - 1) \div ByteWidth) + 1], (i - 1) % ByteWidth)
  BY <1>4
<1>7. BitsOfBytes(b) \in Seq(Nat) /\ Len(BitsOfBytes(b)) = n
  BY <1>2, <1>5
<1> QED
  BY <1>1, <1>2, <1>6, <1>7

\* The bits of bytes after bytes.
LEMMA BytesJoined ==
  ASSUME NEW a \in Seq(Nat), NEW b \in Seq(Nat)
  PROVE  BitsOfBytes(a \o b) = BitsOfBytes(a) \o BitsOfBytes(b)
<1>1. PICK s, x, y : s = BitsOfBytes(a \o b) /\ x = BitsOfBytes(a) /\ y = BitsOfBytes(b)
  OBVIOUS
<1>2. PICK B, m, n : B = ByteWidth /\ m = Len(a) /\ n = Len(b)
  OBVIOUS
<1>3. B \in Nat \ {0} /\ m \in Nat /\ n \in Nat
  BY <1>2, WidthAssumption
<1>4. a \o b \in Seq(Nat) /\ Len(a \o b) = m + n
  BY <1>2
<1>5. /\ s \in Seq(Nat) /\ x \in Seq(Nat) /\ y \in Seq(Nat)
      /\ Len(s) = B * (m + n) /\ Len(x) = B * m /\ Len(y) = B * n
  BY <1>1, <1>2, <1>4, BitsOfBytesAre
<1>6. B * m \in Nat /\ B * n \in Nat /\ B * (m + n) = B * m + B * n
  BY <1>3
<1>7. \A i \in 1..Len(x) : s[i] = x[i]
  <2> TAKE i \in 1..Len(x)
  <2>1. i \in 1..(B * m) /\ i \in 1..(B * (m + n))
    BY <1>5, <1>6
  <2>2. PICK j, k : j = ((i - 1) \div B) + 1 /\ k = (i - 1) % B
    OBVIOUS
  <2>3. j \in 1..m
    BY <1>2, <1>3, <2>1, <2>2, PlaceIs
  <2>4. (a \o b)[j] = a[j]
    BY <1>2, <2>3
  <2>5. s[i] = BitOf((a \o b)[j], k)
    BY <1>1, <1>2, <1>4, <2>1, <2>2, BitsOfBytesAre
  <2>6. x[i] = BitOf(a[j], k)
    BY <1>1, <1>2, <2>1, <2>2, BitsOfBytesAre
  <2> QED
    BY <2>4, <2>5, <2>6
<1>8. \A i \in 1..Len(y) : s[Len(x) + i] = y[i]
  <2> TAKE i \in 1..Len(y)
  <2>1. i \in 1..(B * n) /\ B * m + i \in 1..(B * (m + n))
    BY <1>5, <1>6
  <2>2. PICK j, k : j = ((i - 1) \div B) + 1 /\ k = (i - 1) % B
    OBVIOUS
  <2>3. j \in 1..n /\ k \in 0..(B - 1) /\ i - 1 = (j - 1) * B + k
    <3>1. PICK q : q = (i - 1) \div B
      OBVIOUS
    <3>2. q + 1 \in 1..n /\ k \in 0..(B - 1) /\ i - 1 = q * B + k
      BY <1>2, <1>3, <2>1, <2>2, <3>1, PlaceIs
    <3>3. j = q + 1
      BY <2>2, <3>1
    <3>4. q \in Int => j - 1 = q
      BY <3>3
    <3>5. q \in Int
      BY <1>3, <2>1, <3>1
    <3> QED
      BY <3>2, <3>3, <3>4, <3>5
  <2>4. PICK z, p : z = (B * m + i) - 1 /\ p = m + (j - 1)
    OBVIOUS
  <2>5. z \in Int /\ p \in Int /\ z = p * B + k
    <3>1. z = B * m + ((j - 1) * B + k)
      BY <1>6, <2>1, <2>3, <2>4
    <3>2. p * B = B * m + (j - 1) * B
      BY <1>3, <2>3, <2>4
    <3> QED
      BY <1>3, <1>6, <2>1, <2>3, <2>4, <3>1, <3>2
  <2>6. z \div B = p /\ z % B = k
    BY <1>3, <2>3, <2>5, Quotient
  <2>7. p + 1 = m + j /\ (a \o b)[m + j] = b[j]
    <3>1. p + 1 = m + j /\ m + j \in 1..(m + n) /\ m + j > m /\ (m + j) - m = j
      BY <1>3, <2>3, <2>4
    <3>2. (a \o b)[m + j] = IF m + j <= m THEN a[m + j] ELSE b[(m + j) - m]
      BY <1>2, <3>1, ConcatProperties
    <3>3. ~(m + j <= m)
      BY <1>3, <2>3
    <3> QED
      BY <3>1, <3>2, <3>3, Zenon
  <2>8. s[B * m + i] = BitOf((a \o b)[p + 1], k)
    <3>1. PICK t, u : t = a \o b /\ u = B * m + i
      OBVIOUS
    <3>2. t \in Seq(Nat) /\ u \in 1..(ByteWidth * Len(t)) /\ u - 1 = z
      BY <1>2, <1>4, <2>1, <2>4, <3>1
    <3>3. BitsOfBytes(t)[u] = BitOf(t[((u - 1) \div ByteWidth) + 1], (u - 1) % ByteWidth)
      BY <3>2, BitsOfBytesAre
    <3> QED
      BY <1>1, <1>2, <2>6, <3>1, <3>2, <3>3, Zenon
  <2>9. y[i] = BitOf(b[j], k)
    BY <1>1, <1>2, <2>1, <2>2, BitsOfBytesAre
  <2> QED
    BY <1>5, <2>7, <2>8, <2>9
<1>9. s = x \o y
  <2>1. Len(s) = Len(x) + Len(y)
    BY <1>5, <1>6
  <2> QED
    BY <1>5, <1>7, <1>8, <2>1, Joined
<1> QED
  BY <1>1, <1>9

\* The bits of the bytes of a word.
LEMMA BytesOfWord ==
  ASSUME NEW word \in Nat, NEW n \in 0..WordBytes
  PROVE  /\ Bytes(word, n) \in Seq(Nat)
         /\ BitsOfBytes(Bytes(word, n)) = LowFirst(word, ByteWidth * n)
<1>1. PICK B : B = ByteWidth
  OBVIOUS
<1>2. B \in Nat \ {0} /\ B * n \in 0..WordBits /\ n \in Nat /\ B <= WordBits /\ WordBits \in Nat
  BY <1>1, WidthAssumption, WordIs
<1>3. \A j \in 1..n, k \in 0..(B - 1) :
        /\ B * (j - 1) \in 0..WordBits /\ B * (j - 1) + k <= WordBits
  <2> TAKE j \in 1..n, k \in 0..(B - 1)
  <2>1. B * (j - 1) \in Nat /\ B * (j - 1) + B = B * j
    BY <1>2
  <2>2. B * j <= B * n
    BY <1>2
  <2> QED
    BY <1>2, <2>1, <2>2
<1>4. \A j \in 1..n : /\ word \div TwoTo[B * (j - 1)] \in Nat
                      /\ LowBits(word \div TwoTo[B * (j - 1)], B) \in Nat
  <2> TAKE j \in 1..n
  <2>1. B * (j - 1) \in 0..WordBits
    BY <1>2, <1>3
  <2>2. TwoTo[B * (j - 1)] \in Nat \ {0}
    BY <2>1, TwoToIs
  <2>3. word \div TwoTo[B * (j - 1)] \in Nat
    BY <2>2, DivMod
  <2>4. B \in 0..WordBits /\ 0 \in 0..B
    BY <1>2
  <2> QED
    BY <2>3, <2>4, LowFirstOfLow
<1>5. Bytes(word, n) = [j \in 1..n |-> LowBits(word \div TwoTo[B * (j - 1)], B)]
  BY <1>1 DEF Bytes
<1>6. Bytes(word, n) \in Seq(Nat) /\ Len(Bytes(word, n)) = n
  <2>1. Bytes(word, n) \in [1..n -> Nat]
    BY <1>4, <1>5
  <2> QED
    BY <1>2, <2>1
<1>7. \A i \in 1..(B * n) : BitsOfBytes(Bytes(word, n))[i] = LowFirst(word, B * n)[i]
  <2> TAKE i \in 1..(B * n)
  <2>1. PICK q, k : q = (i - 1) \div B /\ k = (i - 1) % B
    OBVIOUS
  <2>2. q + 1 \in 1..n /\ k \in 0..(B - 1) /\ i - 1 = q * B + k
    BY <1>1, <1>2, <2>1, PlaceIs
  <2>3. q \in Int /\ (q + 1) - 1 = q
    BY <1>2, <2>1
  <2>4. B * q \in 0..WordBits /\ B * q + k <= WordBits
    BY <1>3, <2>2, <2>3
  <2>5. PICK h : h = word \div TwoTo[B * q]
    OBVIOUS
  <2>6. h \in Nat /\ Bytes(word, n)[q + 1] = LowBits(h, B)
    BY <1>4, <1>5, <2>2, <2>3, <2>5
  <2>7. BitsOfBytes(Bytes(word, n))[i] = BitOf(LowBits(h, B), k)
    BY <1>1, <1>6, <2>1, <2>6, BitsOfBytesAre
  <2>8. BitOf(LowBits(h, B), k) = BitOf(h, k)
    BY <1>2, <2>2, <2>6, BitOfLow
  <2>9. BitOf(h, k) = BitOf(word, B * q + k)
    <3>1. PICK e : e = B * q
      OBVIOUS
    <3>2. e \in Nat /\ k \in Nat /\ e + k <= WordBits
      BY <1>2, <2>2, <2>4, <3>1
    <3>3. BitOf(word \div TwoTo[e], k) = BitOf(word, e + k)
      BY <3>2, BitOfShifted
    <3> QED
      BY <2>5, <3>1, <3>3
  <2>10. B * q + k = i - 1
    BY <1>2, <2>2, <2>3
  <2>11. LowFirst(word, B * n)[i] = BitOf(word, i - 1)
    BY <1>2, LowFirstIs
  <2> QED
    BY <2>7, <2>8, <2>9, <2>10, <2>11
<1>8. /\ BitsOfBytes(Bytes(word, n)) \in Seq(Nat) /\ Len(BitsOfBytes(Bytes(word, n))) = B * n
      /\ LowFirst(word, B * n) \in Seq(Nat) /\ Len(LowFirst(word, B * n)) = B * n
  BY <1>1, <1>2, <1>6, BitsOfBytesAre, LowFirstIs
<1>9. BitsOfBytes(Bytes(word, n)) = LowFirst(word, B * n)
  BY <1>7, <1>8, SeqEqual
<1> QED
  BY <1>1, <1>6, <1>9

-----------------------------------------------------------------------------
(* Writers. *)

\* A writer's word is not full, and has nothing above its bits.
Writers == [bytes : Seq(Nat), pending : Nat, used : Nat]
IsWriter(w) == w \in Writers /\ w.used < WordBits /\ w.pending < TwoTo[w.used]

\* Nothing has no bits.
LEMMA NoBits == /\ NewWriter \in Writers /\ IsWriter(NewWriter) /\ BitsIn(NewWriter) = <<>>
                /\ \A v : LowFirst(v, 0) = <<>>
                /\ BitsOfBytes(<<>>) = <<>>
<1>1. 1..0 = {} /\ \A v : LowFirst(v, 0) = <<>>
  BY DEF LowFirst
<1>2. BitsOfBytes(<<>>) = <<>>
  <2>1. ByteWidth * Len(<<>>) = 0
    BY WidthAssumption
  <2> QED
    BY <1>1, <2>1 DEF BitsOfBytes
<1>3. NewWriter \in Writers /\ NewWriter.bytes = <<>> /\ NewWriter.pending = 0 /\ NewWriter.used = 0
  BY DEF NewWriter, Writers
<1>4. IsWriter(NewWriter)
  <2>1. 0 < WordBits /\ TwoTo[0] = 1
    BY WordIs, TwoToIs
  <2> QED
    BY <1>3, <2>1 DEF IsWriter
<1>5. BitsIn(NewWriter) = <<>>
  BY <1>1, <1>2, <1>3 DEF BitsIn
<1> QED
  BY <1>1, <1>2, <1>3, <1>4, <1>5

\* A writer's fields, and its bits.
LEMMA WriterIs ==
  ASSUME NEW w, IsWriter(w)
  PROVE  /\ w.bytes \in Seq(Nat) /\ w.pending \in Nat /\ w.used \in 0..WordBits
         /\ w.used < WordBits /\ w.pending < TwoTo[w.used]
         /\ w = [bytes |-> w.bytes, pending |-> w.pending, used |-> w.used]
         /\ BitsOfBytes(w.bytes) \in Seq(Nat) /\ LowFirst(w.pending, w.used) \in Seq(Nat)
         /\ BitsIn(w) \in Seq(Nat)
<1>1. /\ w.bytes \in Seq(Nat) /\ w.pending \in Nat /\ w.used \in 0..WordBits
      /\ w.used < WordBits /\ w.pending < TwoTo[w.used]
      /\ w = [bytes |-> w.bytes, pending |-> w.pending, used |-> w.used]
  BY WordIs DEF IsWriter, Writers
<1>2. BitsOfBytes(w.bytes) \in Seq(Nat) /\ LowFirst(w.pending, w.used) \in Seq(Nat)
  BY <1>1, BitsOfBytesAre, LowFirstIs
<1>3. BitsIn(w) \in Seq(Nat)
  BY <1>2, ConcatProperties DEF BitsIn
<1> QED
  BY <1>1, <1>2, <1>3

\* Three sequences in order, grouped either way.
Grouped(a, b, c) == a \o b \in Seq(Nat) /\ (a \o b) \o c = a \o (b \o c)

\* Joining sequences of bits is associative.
LEMMA Regrouped == \A a, b, c \in Seq(Nat) : Grouped(a, b, c)
<1> TAKE a, b, c \in Seq(Nat)
<1>1. a \o b \in Seq(Nat)
  BY ConcatProperties
<1>2. (a \o b) \o c = a \o (b \o c)
  BY ConcatAssociative
<1> QED
  BY <1>1, <1>2 DEF Grouped

\* A number put over the bits of a word.
Over(p, u, v, c) ==
  /\ p + LowBits(v, c) * TwoTo[u] \in Nat
  /\ p + LowBits(v, c) * TwoTo[u] < TwoTo[u + c]
  /\ LowFirst(p + LowBits(v, c) * TwoTo[u], u + c) = LowFirst(p, u) \o LowFirst(v, c)

\* It holds of a word that has room for them.
LEMMA PutOver ==
  ASSUME NEW p \in Nat, NEW u \in Nat, NEW v \in Nat, NEW c \in Nat, u + c <= WordBits,
         p < TwoTo[u]
  PROVE  Over(p, u, v, c)
<1> DEFINE p2 == p + LowBits(v, c) * TwoTo[u]
<1> SUFFICES /\ p2 \in Nat /\ p2 < TwoTo[u + c]
             /\ LowFirst(p2, u + c) = LowFirst(p, u) \o LowFirst(v, c)
  BY DEF Over
<1>0. p2 = p + LowBits(v, c) * TwoTo[u]
  OBVIOUS
<1> HIDE DEF p2
<1>1. u \in 0..WordBits /\ c \in 0..WordBits /\ c \in 0..c /\ u \in 0..u
  BY WordIs
<1>2. PICK U, C, x : U = TwoTo[u] /\ C = TwoTo[c] /\ x = LowBits(v, c)
  OBVIOUS
<1>3. U \in Nat \ {0} /\ C \in Nat \ {0} /\ TwoTo[u + c] = U * C
  BY <1>1, <1>2, TwoToIs, TwoToAdds
<1>4. x \in Nat /\ x < C /\ LowFirst(x, c) = LowFirst(v, c)
  BY <1>1, <1>2, LowFirstOfLow
<1>5. p2 = x * U + p /\ p2 \in Nat
  BY <1>0, <1>2, <1>3, <1>4
<1>6. p2 < U * C
  <2>1. PICK m : m = x * U
    OBVIOUS
  <2>2. m \in Nat /\ (x + 1) * U = m + U /\ (x + 1) * U <= C * U /\ C * U = U * C
    BY <1>3, <1>4, <2>1
  <2>3. p < U
    BY <1>2
  <2>4. PICK n : n = U * C
    OBVIOUS
  <2>5. m + U <= n /\ n \in Nat /\ p2 = m + p
    BY <1>3, <1>5, <2>1, <2>2, <2>4
  <2> QED
    BY <1>3, <2>2, <2>3, <2>4, <2>5
<1>7. p2 % U = p /\ p2 \div U = x
  <2>1. p \in 0..(U - 1)
    BY <1>2, <1>3
  <2>2. x \in Int /\ p2 \in Int
    BY <1>4, <1>5
  <2> QED
    BY <1>3, <1>5, <2>1, <2>2, Quotient, Zenon
<1>8. LowFirst(p2, u) = LowFirst(p, u)
  <2>1. LowFirst(LowBits(p2, u), u) = LowFirst(p2, u)
    BY <1>1, <1>5, LowFirstOfLow
  <2>2. LowBits(p2, u) = p
    BY <1>2, <1>7 DEF LowBits
  <2> QED
    BY <2>1, <2>2
<1>9. LowFirst(p2, u + c) = LowFirst(p2, u) \o LowFirst(p2 \div TwoTo[u], c)
  <2>1. Splits(p2, u, c)
    BY <1>5, LowFirstSplits
  <2> QED
    BY <2>1 DEF Splits
<1> QED
  BY <1>2, <1>3, <1>4, <1>5, <1>6, <1>7, <1>8, <1>9

\* A whole word flushed.
LEMMA FlushWordIs ==
  ASSUME NEW w \in Writers
  PROVE  /\ FlushWord(w) = [bytes |-> w.bytes \o Bytes(w.pending, WordBytes), pending |-> 0, used |-> 0]
         /\ FlushWord(w).bytes \in Seq(Nat) /\ IsWriter(FlushWord(w))
         /\ BitsOfBytes(FlushWord(w).bytes) = BitsOfBytes(w.bytes) \o LowFirst(w.pending, WordBits)
         /\ BitsIn(FlushWord(w)) = BitsOfBytes(w.bytes) \o LowFirst(w.pending, WordBits)
<1>1. w.bytes \in Seq(Nat) /\ w.pending \in Nat
  BY DEF Writers
<1>2. PICK b, f : b = Bytes(w.pending, WordBytes) /\ f = FlushWord(w)
  OBVIOUS
<1>3. b \in Seq(Nat) /\ BitsOfBytes(b) = LowFirst(w.pending, WordBits)
  <2>1. WordBytes \in 0..WordBytes /\ ByteWidth * WordBytes = WordBits
    BY WidthAssumption DEF WordBits
  <2> QED
    BY <1>1, <1>2, <2>1, BytesOfWord
<1>4. f = [bytes |-> w.bytes \o b, pending |-> 0, used |-> 0]
  BY <1>2 DEF FlushWord
<1>5. w.bytes \o b \in Seq(Nat) /\ BitsOfBytes(w.bytes \o b) = BitsOfBytes(w.bytes) \o LowFirst(w.pending, WordBits)
  BY <1>1, <1>3, BytesJoined, ConcatProperties
<1>6. f.bytes = w.bytes \o b /\ f.pending = 0 /\ f.used = 0 /\ f \in Writers
  BY <1>4, <1>5 DEF Writers
<1>7. IsWriter(f)
  <2>1. 0 < WordBits /\ TwoTo[0] = 1
    BY WordIs, TwoToIs
  <2> QED
    BY <1>6, <2>1 DEF IsWriter
<1>8. BitsIn(f) = BitsOfBytes(f.bytes) \o <<>>
  BY <1>6, NoBits DEF BitsIn
<1>9. BitsIn(f) = BitsOfBytes(f.bytes)
  <2>1. BitsOfBytes(f.bytes) \in Seq(Nat)
    BY <1>5, <1>6, BitsOfBytesAre
  <2> QED
    BY <1>8, <2>1, ConcatEmptySeq
<1> QED
  BY <1>2, <1>4, <1>5, <1>6, <1>7, <1>9

\* What is written comes after what was there.
LEMMA WriteBitsKeeps ==
  ASSUME NEW w, IsWriter(w), NEW v \in Nat, NEW n \in 0..WordBits
  PROVE  /\ IsWriter(WriteBits(w, v, n))
         /\ BitsIn(WriteBits(w, v, n)) = BitsIn(w) \o LowFirst(v, n)
<1>1. PICK b, p, u, e : b = w.bytes /\ p = w.pending /\ u = w.used /\ e = WriteBits(w, v, n)
  OBVIOUS
<1>2. /\ b \in Seq(Nat) /\ p \in Nat /\ u \in Nat /\ u < WordBits /\ p < TwoTo[u]
      /\ w = [bytes |-> b, pending |-> p, used |-> u] /\ WordBits \in Nat
  BY <1>1, WriterIs, WordIs
<1>0. \A c \in Nat : u + c <= WordBits => Over(p, u, v, c)
  BY <1>2, PutOver
<1>3. PICK B, L, N : B = BitsOfBytes(b) /\ L = LowFirst(p, u) /\ N = LowFirst(v, n)
  OBVIOUS
<1>4. B \in Seq(Nat) /\ L \in Seq(Nat) /\ N \in Seq(Nat) /\ BitsIn(w) = B \o L
  <2>1. N \in Seq(Nat)
    BY <1>3, LowFirstIs
  <2> QED
    BY <1>1, <1>3, <2>1, WriterIs DEF BitsIn
<1>5. (B \o L) \o N = B \o (L \o N)
  <2>1. Grouped(B, L, N)
    BY <1>4, Regrouped
  <2> QED
    BY <2>1 DEF Grouped
<1>6. SUFFICES IsWriter(e) /\ BitsIn(e) = B \o (L \o N)
  BY <1>1, <1>3, <1>4, <1>5
<1>7. PICK q : q = p + LowBits(v, n) * TwoTo[u]
  OBVIOUS
<1>8. CASE n = 0
  <2>1. e = w
    BY <1>1, <1>8 DEF WriteBits
  <2>2. N = <<>>
    BY <1>3, <1>8, NoBits
  <2>3. L \o N = L
    BY <1>4, <2>2, ConcatEmptySeq
  <2> QED
    BY <1>4, <2>1, <2>3
<1>9. CASE n # 0 /\ u + n < WordBits
  <2>1. e = [bytes |-> b, pending |-> q, used |-> u + n]
    BY <1>1, <1>2, <1>7, <1>9 DEF WriteBits
  <2>2. q \in Nat /\ q < TwoTo[u + n] /\ LowFirst(q, u + n) = L \o N
    <3>1. n \in Nat /\ u + n <= WordBits
      BY <1>2, <1>9
    <3>2. q \in Nat /\ q < TwoTo[u + n] /\ LowFirst(q, u + n) = LowFirst(p, u) \o LowFirst(v, n)
      BY <1>0, <1>7, <3>1 DEF Over
    <3> QED
      BY <1>3, <3>2
  <2>3. e.bytes = b /\ e.pending = q /\ e.used = u + n /\ u + n \in Nat
    BY <1>2, <2>1
  <2>4. IsWriter(e)
    BY <1>2, <1>9, <2>1, <2>2, <2>3 DEF IsWriter, Writers
  <2> QED
    BY <1>3, <2>2, <2>3, <2>4 DEF BitsIn
<1>10. CASE n # 0 /\ u + n = WordBits
  <2>1. PICK f : f = [w EXCEPT !.pending = @ + LowBits(v, n) * TwoTo[w.used], !.used = @ + n]
    OBVIOUS
  <2>2. e = FlushWord(f)
    <3>1. ~(u + n < WordBits)
      BY <1>2, <1>10
    <3> QED
      BY <1>1, <1>10, <2>1, <3>1 DEF WriteBits
  <2>3. q \in Nat /\ LowFirst(q, u + n) = L \o N
    <3>1. n \in Nat /\ u + n <= WordBits
      BY <1>2, <1>10
    <3>2. q \in Nat /\ q < TwoTo[u + n] /\ LowFirst(q, u + n) = LowFirst(p, u) \o LowFirst(v, n)
      BY <1>0, <1>7, <3>1 DEF Over
    <3> QED
      BY <1>3, <3>2
  <2>4. f \in Writers /\ f.bytes = b /\ f.pending = q
    <3>1. f.bytes = b /\ f.pending = q /\ f.used = u + n /\ f = [bytes |-> b, pending |-> q, used |-> u + n]
      BY <1>1, <1>2, <1>7, <2>1
    <3> QED
      BY <1>2, <1>10, <2>3, <3>1 DEF Writers
  <2> QED
    BY <1>3, <1>10, <2>2, <2>3, <2>4, FlushWordIs
<1>11. CASE u + n > WordBits
  <2>1. PICK t, h, r : t = WordBits - u /\ h = v \div TwoTo[t] /\ r = LowBits(h, n - t)
    OBVIOUS
  <2>2. /\ t \in Nat /\ t \in 0..WordBits /\ t >= 1 /\ u + t = WordBits
        /\ n - t \in Nat /\ n - t \in 0..WordBits /\ n - t < WordBits /\ t + (n - t) = n /\ n # 0
    BY <1>2, <1>11, <2>1
  <2>3. PICK g, f : g = p + LowBits(v, t) * TwoTo[u] /\ f = [bytes |-> b, pending |-> g, used |-> u]
    OBVIOUS
  <2>4. PICK k : k = FlushWord(f)
    OBVIOUS
  <2>5. e = [k EXCEPT !.pending = r, !.used = n - t]
    <3>1. ~(u + n < WordBits) /\ u + n # WordBits
      BY <1>2, <1>11
    <3>2. [w EXCEPT !.pending = @ + LowBits(v, t) * TwoTo[w.used]] = f
      BY <1>2, <2>3
    <3> QED
      BY <1>1, <2>1, <2>2, <2>4, <3>1, <3>2 DEF WriteBits, Rest
  <2>6. g \in Nat /\ LowFirst(g, WordBits) = L \o LowFirst(v, t)
    <3>1. g \in Nat /\ LowFirst(g, u + t) = L \o LowFirst(v, t)
      <4>1. u + t <= WordBits
        BY <1>2, <2>2
      <4>2. g \in Nat /\ LowFirst(g, u + t) = LowFirst(p, u) \o LowFirst(v, t)
        BY <1>0, <2>2, <2>3, <4>1 DEF Over
      <4> QED
        BY <1>3, <4>2
    <3> QED
      BY <2>2, <3>1
  <2>7. f \in Writers /\ f.bytes = b /\ f.pending = g
    BY <1>2, <2>3, <2>6 DEF Writers
  <2>8. /\ k = [bytes |-> k.bytes, pending |-> 0, used |-> 0] /\ k.bytes \in Seq(Nat)
        /\ BitsOfBytes(k.bytes) = B \o (L \o LowFirst(v, t))
    <3>1. /\ k = [bytes |-> b \o Bytes(g, WordBytes), pending |-> 0, used |-> 0]
          /\ k.bytes \in Seq(Nat)
          /\ BitsOfBytes(k.bytes) = B \o (L \o LowFirst(v, t))
      BY <1>3, <2>4, <2>6, <2>7, FlushWordIs, Zenon
    <3> QED
      BY <3>1
  <2>9. h \in Nat /\ N = LowFirst(v, t) \o LowFirst(h, n - t)
    <3>1. t + (n - t) <= WordBits
      BY <2>2
    <3>2. LowFirst(v, t + (n - t)) = LowFirst(v, t) \o LowFirst(v \div TwoTo[t], n - t)
          /\ v \div TwoTo[t] \in Nat
      <4>1. Splits(v, t, n - t)
        BY <2>2, <3>1, LowFirstSplits
      <4> QED
        BY <4>1 DEF Splits
    <3> QED
      BY <1>3, <2>1, <2>2, <3>2
  <2>10. r \in Nat /\ r < TwoTo[n - t] /\ LowFirst(r, n - t) = LowFirst(h, n - t)
    <3>1. n - t \in 0..(n - t)
      BY <2>2
    <3> QED
      BY <2>1, <2>2, <2>9, <3>1, LowFirstOfLow
  <2>11. e = [bytes |-> k.bytes, pending |-> r, used |-> n - t]
    BY <2>5, <2>8
  <2>12. e.bytes = k.bytes /\ e.pending = r /\ e.used = n - t
    BY <2>11
  <2>13. IsWriter(e)
    BY <2>2, <2>8, <2>10, <2>11, <2>12 DEF IsWriter, Writers
  <2>14. PICK X, Y : X = LowFirst(v, t) /\ Y = LowFirst(h, n - t)
    OBVIOUS
  <2>15. X \in Seq(Nat) /\ Y \in Seq(Nat)
    BY <2>2, <2>9, <2>14, LowFirstIs
  <2>16. BitsIn(e) = (B \o (L \o X)) \o Y
    BY <2>8, <2>10, <2>12, <2>14 DEF BitsIn
  <2>17. (B \o (L \o X)) \o Y = B \o (L \o (X \o Y))
    <3>1. L \o X \in Seq(Nat)
      BY <1>4, <2>15, ConcatProperties
    <3>2. (B \o (L \o X)) \o Y = B \o ((L \o X) \o Y)
      <4>1. PICK Z : Z = L \o X
        OBVIOUS
      <4>2. B \in Seq(Nat) /\ Z \in Seq(Nat) /\ Y \in Seq(Nat)
        BY <1>4, <2>15, <3>1, <4>1
      <4>3. (B \o Z) \o Y = B \o (Z \o Y)
        <5>1. Grouped(B, Z, Y)
          BY <4>2, Regrouped
        <5> QED
          BY <5>1 DEF Grouped
      <4> QED
        BY <4>1, <4>3, Zenon
    <3>3. (L \o X) \o Y = L \o (X \o Y)
      <4>1. Grouped(L, X, Y)
        BY <1>4, <2>15, Regrouped
      <4> QED
        BY <4>1 DEF Grouped
    <3> QED
      BY <3>2, <3>3
  <2> QED
    BY <2>9, <2>13, <2>14, <2>16, <2>17
<1> QED
  <2>1. n \in Nat
    BY <1>2
  <2>2. n = 0 \/ (n # 0 /\ u + n < WordBits) \/ (n # 0 /\ u + n = WordBits) \/ u + n > WordBits
    BY <1>2, <2>1
  <2> QED
    BY <1>8, <1>9, <1>10, <1>11, <2>2

\* A code turned round has its bits turned round.
LEMMA ReversedIs ==
  ASSUME NEW code \in Nat, NEW n \in 0..WordBits
  PROVE  Reversed(code, n) \in Nat /\ LowFirst(Reversed(code, n), n) = HighFirst(code, n)
<1>0. n \in Nat /\ WordBits \in Nat
  BY WordIs
<1> DEFINE step == [i \in 1..n |-> [s \in Nat |-> (2 * s) + BitOf(code, i - 1)]]
<1>1. \A i \in 1..n : i - 1 \in 0..WordBits /\ BitOf(code, i - 1) \in Nat /\ BitOf(code, i - 1) < 2
  <2> TAKE i \in 1..n
  <2>1. i - 1 \in 0..WordBits
    BY <1>0
  <2>2. TwoTo[i - 1] \in Nat \ {0}
    BY <2>1, TwoToIs
  <2>3. code \div TwoTo[i - 1] \in Nat
    BY <2>2, DivMod
  <2>4. BitOf(code, i - 1) = (code \div TwoTo[i - 1]) % 2
    BY <2>1, BitOfIs
  <2>5. \A x \in Nat : x % 2 \in Nat /\ x % 2 < 2
    OBVIOUS
  <2> QED
    BY <2>1, <2>3, <2>4, <2>5
<1>2. step \in [1..n -> [Nat -> Nat]]
  BY <1>1
<1>3. PICK f : f \in [0..n -> Nat] /\ f[0] = 0 /\ \A i \in 1..n : f[i] = step[i][f[i - 1]]
  <2> HIDE DEF step
  <2>1. \E f : Recursion(f, n, Nat, 0, step)
    BY <1>0, <1>2, 0 \in Nat, RecursionExists, Zenon
  <2> QED
    BY <2>1 DEF Recursion
<1>4. \A i \in 1..n : f[i] = (2 * f[i - 1]) + BitOf(code, i - 1)
  <2> TAKE i \in 1..n
  <2>1. f[i - 1] \in Nat
    BY <1>0, <1>3
  <2> QED
    BY <1>3, <2>1
<1> DEFINE Step(g) == [i \in 0..n |-> IF i = 0 THEN 0 ELSE (2 * g[i - 1]) + BitOf(code, i - 1)]
           Turned == CHOOSE g : g = Step(g)
<1>5. f = Step(f)
  <2>1. \A i \in 0..n : i # 0 => i \in 1..n
    OBVIOUS
  <2> QED
    BY <1>3, <1>4, <2>1
<1>6. Reversed(code, n) = Turned[n]
  BY DEF Reversed
<1>7. Turned = Step(Turned)
  <2> HIDE DEF Step
  <2> QED
    BY <1>5
<1>8. Turned[0] = 0 /\ \A i \in 1..n : Turned[i] = (2 * Turned[i - 1]) + BitOf(code, i - 1)
  <2>1. 0 \in 0..n /\ \A i \in 1..n : i \in 0..n /\ i # 0
    BY <1>0
  <2> HIDE DEF Turned
  <2> QED
    BY <1>7, <2>1
<1> HIDE DEF Turned, Step, step
\* The lower bits of the number after i steps are the i bits, the last first.
<1> DEFINE H == {i \in Nat : /\ Turned[i] \in Nat
                             /\ \A k \in Nat : k < i => BitOf(Turned[i], k) = BitOf(code, (i - 1) - k)}
<1>9. 0 \in H
  BY <1>8
<1>10. ASSUME NEW i \in 1..n, i - 1 \in H PROVE i \in H
  <2>1. PICK j, x, c : j = i - 1 /\ x = Turned[j] /\ c = BitOf(code, j)
    OBVIOUS
  <2>2. /\ i \in Nat /\ j \in Nat /\ i = j + 1 /\ x \in Nat /\ c \in Nat /\ c < 2 /\ j \in 0..WordBits
        /\ i <= WordBits
    BY <1>0, <1>1, <1>10, <2>1
  <2>3. Turned[i] = (2 * x) + c
    BY <1>8, <2>1
  <2>4. PICK y : y = (2 * x) + c
    OBVIOUS
  <2>5. y \in Nat /\ y % 2 = c /\ y \div 2 = x
    BY <2>2, <2>4
  <2>6. ASSUME NEW k \in Nat, k < i PROVE BitOf(y, k) = BitOf(code, (i - 1) - k)
    <3>1. CASE k = 0
      <4>1. y \div 1 = y
        BY <2>5
      <4>2. BitOf(y, 0) = (y \div TwoTo[0]) % 2 /\ TwoTo[0] = 1
        <5>1. 0 \in 0..WordBits
          BY <1>0
        <5> QED
          BY <2>5, <5>1, BitOfIs, TwoToIs
      <4>3. (i - 1) - k = j
        BY <2>2, <3>1
      <4> QED
        BY <2>1, <2>5, <3>1, <4>1, <4>2, <4>3
    <3>2. CASE k # 0
      <4>1. PICK l : l = k - 1
        OBVIOUS
      <4>2. l \in Nat /\ l < j /\ k = 1 + l /\ 1 + l <= WordBits /\ (j - 1) - l = (i - 1) - k
        BY <1>0, <2>2, <2>6, <3>2, <4>1
      <4>3. TwoTo[1] = 2
        <5>1. 1 \in 1..WordBits /\ 1 - 1 = 0
          BY <1>0, <2>2, <4>2
        <5> QED
          BY <5>1, TwoToIs
      <4>4. BitOf(y \div TwoTo[1], l) = BitOf(y, 1 + l)
        <5>1. PICK o : o = 1
          OBVIOUS
        <5>2. y \in Nat /\ o \in Nat /\ l \in Nat /\ o + l <= WordBits
          BY <2>5, <4>2, <5>1
        <5> QED
          BY <5>1, <5>2, BitOfShifted
      <4>5. BitOf(x, l) = BitOf(code, (j - 1) - l)
        BY <1>10, <2>1, <4>2
      <4> QED
        BY <2>5, <4>2, <4>3, <4>4, <4>5
    <3> QED
      BY <3>1, <3>2
  <2> QED
    BY <2>2, <2>3, <2>4, <2>5, <2>6
<1>11. n \in H
  <2>1. n \in 0..n
    BY <1>0
  <2> HIDE DEF H
  <2> QED
    BY <1>0, <1>9, <1>10, <2>1, UpTo
<1>12. \A i \in 1..n : BitOf(Turned[n], i - 1) = BitOf(code, n - i)
  <2> TAKE i \in 1..n
  <2>1. i - 1 \in Nat /\ i - 1 < n /\ (n - 1) - (i - 1) = n - i
    BY <1>0
  <2>2. BitOf(Turned[n], i - 1) = BitOf(code, (n - 1) - (i - 1))
    BY <1>11, <2>1
  <2> QED
    BY <2>1, <2>2
<1> QED
  BY <1>6, <1>11, <1>12 DEF LowFirst, HighFirst

\* The bits of a byte.
LEMMA OneByte ==
  ASSUME NEW y \in Nat
  PROVE  <<y>> \in Seq(Nat) /\ BitsOfBytes(<<y>>) = LowFirst(y, ByteWidth)
<1>1. PICK B : B = ByteWidth
  OBVIOUS
<1>2. B \in Nat \ {0} /\ B * 1 = B /\ Len(<<y>>) = 1 /\ <<y>>[1] = y
  BY <1>1, WidthAssumption
<1>3. \A i \in 1..B : (i - 1) \div B = 0 /\ (i - 1) % B = i - 1
  <2> TAKE i \in 1..B
  <2>1. i - 1 \in 0..(B - 1) /\ i - 1 \in Int /\ 0 \in Int /\ i - 1 = 0 * B + (i - 1)
    BY <1>2
  <2> QED
    BY <1>2, <2>1, Quotient
<1>4. BitsOfBytes(<<y>>) = [i \in 1..B |-> BitOf(<<y>>[((i - 1) \div B) + 1], (i - 1) % B)]
  BY <1>1, <1>2 DEF BitsOfBytes
<1>5. \A i \in 1..B : BitOf(<<y>>[((i - 1) \div B) + 1], (i - 1) % B) = BitOf(y, i - 1)
  <2> TAKE i \in 1..B
  <2>1. PICK d, m : d = (i - 1) \div B /\ m = (i - 1) % B
    OBVIOUS
  <2>2. d + 1 = 1 /\ m = i - 1
    BY <1>3, <2>1
  <2> QED
    BY <1>2, <2>1, <2>2
<1>6. BitsOfBytes(<<y>>) = [i \in 1..B |-> BitOf(y, i - 1)]
  BY <1>4, <1>5
<1>7. LowFirst(y, B) = [i \in 1..B |-> BitOf(y, i - 1)]
  BY DEF LowFirst
<1> QED
  BY <1>1, <1>6, <1>7

\* One writer appended to another: its bits come after.
LEMMA AppendedKeeps ==
  ASSUME NEW w, IsWriter(w), NEW o, IsWriter(o)
  PROVE  IsWriter(Appended(w, o)) /\ BitsIn(Appended(w, o)) = BitsIn(w) \o BitsIn(o)
<1>0. PICK b, n, S : b = o.bytes /\ n = Len(o.bytes) /\ S = {x \in Writers : IsWriter(x)}
  OBVIOUS
<1>1. b \in Seq(Nat) /\ n = Len(b) /\ n \in Nat /\ ByteWidth \in 0..WordBits /\ w \in S
      /\ \A i \in 1..n : b[i] \in Nat
  <2>1. b \in Seq(Nat)
    BY <1>0, WriterIs
  <2>2. ByteWidth \in 0..WordBits
    BY WordIs
  <2>3. n = Len(b) /\ w \in S
    BY <1>0 DEF IsWriter
  <2> QED
    BY <2>1, <2>2, <2>3
<1> DEFINE step == [i \in 1..n |-> [x \in S |-> WriteBits(x, b[i], ByteWidth)]]
<1>2. step \in [1..n -> [S -> S]]
  <2>1. \A i \in 1..n : \A x \in S : WriteBits(x, b[i], ByteWidth) \in S
    <3> TAKE i \in 1..n
    <3> TAKE x \in S
    <3>1. IsWriter(x) /\ b[i] \in Nat
      BY <1>0, <1>1
    <3>2. IsWriter(WriteBits(x, b[i], ByteWidth))
      BY <1>1, <3>1, WriteBitsKeeps
    <3> QED
      BY <1>0, <3>2 DEF IsWriter
  <2> QED
    BY <2>1
<1>3. PICK f : f \in [0..n -> S] /\ f[0] = w /\ \A i \in 1..n : f[i] = step[i][f[i - 1]]
  <2> HIDE DEF step
  <2>1. \E f : Recursion(f, n, S, w, step)
    BY <1>1, <1>2, RecursionExists, Zenon
  <2> QED
    BY <2>1 DEF Recursion
<1>4. \A i \in 1..n : f[i] = WriteBits(f[i - 1], b[i], ByteWidth)
  <2> TAKE i \in 1..n
  <2>1. i - 1 \in 0..n
    BY <1>1
  <2>2. f[i - 1] \in S
    BY <1>3, <2>1
  <2> QED
    BY <1>3, <2>2
<1> DEFINE Step(g) == [i \in 0..n |-> IF i = 0 THEN w ELSE WriteBits(g[i - 1], b[i], ByteWidth)]
           Joint == CHOOSE g : g = Step(g)
<1>5. f = Step(f)
  <2>1. \A i \in 0..n : i # 0 => i \in 1..n
    OBVIOUS
  <2> QED
    BY <1>3, <1>4, <2>1
<1>6. Appended(w, o) = WriteBits(Joint[n], o.pending, o.used)
  BY <1>0 DEF Appended
<1>7. Joint = Step(Joint)
  <2> HIDE DEF Step
  <2> QED
    BY <1>5
<1>8. Joint[0] = w /\ \A i \in 1..n : Joint[i] = WriteBits(Joint[i - 1], b[i], ByteWidth)
  <2>1. 0 \in 0..n /\ \A i \in 1..n : i \in 0..n /\ i # 0
    BY <1>1
  <2> HIDE DEF Joint
  <2> QED
    BY <1>7, <2>1
<1> HIDE DEF Joint, Step, step
<1> DEFINE Front(i) == SubSeq(b, 1, i)
           H == {i \in Nat : IsWriter(Joint[i]) /\ BitsIn(Joint[i]) = BitsIn(w) \o BitsOfBytes(Front(i))}
<1>9. 0 \in H
  <2>1. Front(0) = <<>>
    BY <1>1
  <2>2. BitsIn(w) \o <<>> = BitsIn(w)
    BY WriterIs, ConcatEmptySeq
  <2> QED
    BY <1>8, <2>1, <2>2, NoBits
<1>10. ASSUME NEW i \in 1..n, i - 1 \in H PROVE i \in H
  <2>1. PICK j, x, y : j = i - 1 /\ x = Joint[j] /\ y = b[i]
    OBVIOUS
  <2>2. i \in Nat /\ j \in 0..n /\ i = j + 1 /\ y \in Nat
    BY <1>1, <2>1
  <2>3. IsWriter(x) /\ BitsIn(x) = BitsIn(w) \o BitsOfBytes(Front(j))
    BY <1>10, <2>1
  <2>4. Joint[i] = WriteBits(x, y, ByteWidth)
    BY <1>8, <2>1
  <2>5. IsWriter(Joint[i]) /\ BitsIn(Joint[i]) = BitsIn(x) \o LowFirst(y, ByteWidth)
    <3>1. IsWriter(x) /\ y \in Nat /\ ByteWidth \in 0..WordBits
      BY <1>1, <2>2, <2>3
    <3> QED
      BY <2>4, <3>1, WriteBitsKeeps
  <2>6. Front(i) = Front(j) \o <<y>> /\ Front(j) \in Seq(Nat) /\ <<y>> \in Seq(Nat)
    <3>1. Front(i) \in Seq(Nat) /\ Front(j) \in Seq(Nat) /\ Len(Front(i)) = i /\ Len(Front(j)) = j
      BY <1>1, <2>2
    <3>2. <<y>> \in Seq(Nat) /\ Len(<<y>>) = 1 /\ <<y>>[1] = y
      BY <2>2
    <3>3. \A k \in 1..j : Front(i)[k] = Front(j)[k]
      BY <1>1, <2>2
    <3>4. \A k \in 1..1 : Front(i)[j + k] = <<y>>[k]
      BY <1>1, <2>1, <2>2
    <3> HIDE DEF Front
    <3>5. Len(Front(i)) = Len(Front(j)) + Len(<<y>>)
      BY <2>2, <3>1, <3>2
    <3>6. Front(i) = Front(j) \o <<y>>
      BY <3>1, <3>2, <3>3, <3>4, <3>5, Joined
    <3> QED
      BY <3>1, <3>2, <3>6
  <2>7. BitsOfBytes(<<y>>) = LowFirst(y, ByteWidth)
    BY <2>2, OneByte
  <2>8. BitsOfBytes(Front(i)) = BitsOfBytes(Front(j)) \o LowFirst(y, ByteWidth)
    <3> HIDE DEF Front
    <3> QED
      BY <2>6, <2>7, BytesJoined
  <2>9. PICK X, Y, Z : X = BitsIn(w) /\ Y = BitsOfBytes(Front(j)) /\ Z = LowFirst(y, ByteWidth)
    OBVIOUS
  <2>10. X \in Seq(Nat) /\ Y \in Seq(Nat) /\ Z \in Seq(Nat)
    BY <1>1, <2>2, <2>6, <2>9, WriterIs, BitsOfBytesAre, LowFirstIs
  <2>11. (X \o Y) \o Z = X \o (Y \o Z)
    <3>1. Grouped(X, Y, Z)
      BY <2>10, Regrouped
    <3> QED
      BY <3>1 DEF Grouped
  <2> QED
    BY <2>2, <2>3, <2>5, <2>8, <2>9, <2>11, Zenon
<1>11. n \in H
  <2>1. n \in 0..n
    BY <1>1
  <2> HIDE DEF H
  <2> QED
    BY <1>1, <1>9, <1>10, <2>1, UpTo
<1>12. Front(n) = b
  BY <1>1
<1>13. PICK a : a = Joint[n]
  OBVIOUS
<1>14. IsWriter(a) /\ BitsIn(a) = BitsIn(w) \o BitsOfBytes(b)
  BY <1>11, <1>12, <1>13
<1>15. /\ IsWriter(Appended(w, o))
       /\ BitsIn(Appended(w, o)) = BitsIn(a) \o LowFirst(o.pending, o.used)
  <2>1. o.pending \in Nat /\ o.used \in 0..WordBits
    BY WriterIs
  <2> QED
    BY <1>6, <1>13, <1>14, <2>1, WriteBitsKeeps
<1>16. (BitsIn(w) \o BitsOfBytes(b)) \o LowFirst(o.pending, o.used)
       = BitsIn(w) \o (BitsOfBytes(b) \o LowFirst(o.pending, o.used))
  <2>1. PICK X, Y, Z : X = BitsIn(w) /\ Y = BitsOfBytes(b) /\ Z = LowFirst(o.pending, o.used)
    OBVIOUS
  <2>2. X \in Seq(Nat) /\ Y \in Seq(Nat) /\ Z \in Seq(Nat)
    BY <1>0, <2>1, WriterIs
  <2>3. (X \o Y) \o Z = X \o (Y \o Z)
    <3>1. Grouped(X, Y, Z)
      BY <2>2, Regrouped
    <3> QED
      BY <3>1 DEF Grouped
  <2> QED
    BY <2>1, <2>3, Zenon
<1>17. BitsIn(o) = BitsOfBytes(b) \o LowFirst(o.pending, o.used)
  BY <1>0 DEF BitsIn
<1> QED
  BY <1>14, <1>15, <1>16, <1>17, Zenon

\* The whole bytes of the word leave it, and the bits stay.
LEMMA FlushCompleteKeeps ==
  ASSUME NEW w, IsWriter(w)
  PROVE  IsWriter(FlushComplete(w)) /\ BitsIn(FlushComplete(w)) = BitsIn(w)
<1>1. PICK B, b, p, u, e : B = ByteWidth /\ b = w.bytes /\ p = w.pending /\ u = w.used /\ e = FlushComplete(w)
  OBVIOUS
<1>2. /\ b \in Seq(Nat) /\ p \in Nat /\ u \in Nat /\ u < WordBits /\ p < TwoTo[u]
      /\ WordBits \in Nat /\ B \in Nat \ {0}
  BY <1>1, WriterIs, WordIs, WidthAssumption
<1>3. PICK n, r : n = u \div B /\ r = u % B
  OBVIOUS
<1>4. n \in Nat /\ r \in 0..(B - 1) /\ u = n * B + r
  BY <1>2, <1>3, DivMod
<1>5. PICK a : a = n * B
  OBVIOUS
<1>6. a \in Nat /\ B * n = a /\ a + r = u /\ u - n * B = r /\ r \in Nat /\ a + r <= WordBits
  BY <1>2, <1>4, <1>5
<1>7. n \in 0..WordBytes
  <2>1. B * n <= WordBits
    BY <1>2, <1>6
  <2>2. WordBytes \in Nat
    BY WidthAssumption
  <2> QED
    BY <1>1, <1>4, <2>1, <2>2, WordIs
<1>8. PICK y, h : y = Bytes(p, n) /\ h = p \div TwoTo[a]
  OBVIOUS
<1>9. e = [bytes |-> b \o y, pending |-> h, used |-> r]
  BY <1>1, <1>3, <1>5, <1>6, <1>8 DEF FlushComplete
<1>10. y \in Seq(Nat) /\ BitsOfBytes(y) = LowFirst(p, a)
  BY <1>1, <1>2, <1>6, <1>7, <1>8, BytesOfWord
<1>11. h \in Nat /\ LowFirst(p, u) = LowFirst(p, a) \o LowFirst(h, r)
  <2>1. p \div TwoTo[a] \in Nat /\ LowFirst(p, a + r) = LowFirst(p, a) \o LowFirst(p \div TwoTo[a], r)
    <3>1. p \in Nat /\ a \in Nat /\ r \in Nat /\ a + r <= WordBits
      BY <1>2, <1>6
    <3>2. Splits(p, a, r)
      BY <3>1, LowFirstSplits
    <3> QED
      BY <3>2 DEF Splits
  <2> QED
    BY <1>6, <1>8, <2>1
<1>12. h < TwoTo[r]
  <2>1. PICK P, Q : P = TwoTo[a] /\ Q = TwoTo[r]
    OBVIOUS
  <2>2. P \in Nat \ {0} /\ Q \in Nat \ {0} /\ TwoTo[u] = P * Q
    <3>1. a \in 0..WordBits /\ r \in 0..WordBits
      BY <1>2, <1>6
    <3>2. TwoTo[a + r] = TwoTo[a] * TwoTo[r]
      BY <1>6, TwoToAdds
    <3> QED
      BY <1>6, <2>1, <3>1, <3>2, TwoToIs
  <2>3. PICK s : s = p % P
    OBVIOUS
  <2>4. h = p \div P
    BY <1>8, <2>1
  <2>5. p = h * P + s /\ s >= 0 /\ s \in Nat
    <3>1. p = (p \div P) * P + (p % P) /\ p % P \in Nat
      BY <1>2, <2>2
    <3> QED
      BY <2>3, <2>4, <3>1
  <2>6. h >= Q => h * P >= Q * P
    BY <1>11, <2>2
  <2>7. h * P < P * Q
    <3>1. PICK m, z : m = h * P /\ z = P * Q
      OBVIOUS
    <3>2. m \in Nat /\ z \in Nat /\ p = m + s /\ p < z
      BY <1>2, <1>11, <2>2, <2>5, <3>1
    <3> QED
      BY <2>5, <3>1, <3>2
  <2> QED
    BY <1>11, <2>1, <2>2, <2>6, <2>7
<1>13. b \o y \in Seq(Nat) /\ BitsOfBytes(b \o y) = BitsOfBytes(b) \o LowFirst(p, a)
  BY <1>2, <1>10, BytesJoined, ConcatProperties
<1>14. e.bytes = b \o y /\ e.pending = h /\ e.used = r
  BY <1>9
<1>15. IsWriter(e)
  <2>1. r < WordBits
    BY <1>2, <1>6
  <2> QED
    BY <1>6, <1>9, <1>11, <1>12, <1>13, <1>14, <2>1 DEF IsWriter, Writers
<1>16. PICK X, Y, Z : X = BitsOfBytes(b) /\ Y = LowFirst(p, a) /\ Z = LowFirst(h, r)
  OBVIOUS
<1>17. X \in Seq(Nat) /\ Y \in Seq(Nat) /\ Z \in Seq(Nat)
  <2>1. a \in 0..WordBits /\ r \in 0..WordBits
    BY <1>2, <1>6
  <2> QED
    BY <1>2, <1>11, <1>16, <2>1, BitsOfBytesAre, LowFirstIs
<1>18. (X \o Y) \o Z = X \o (Y \o Z)
  <2>1. Grouped(X, Y, Z)
    BY <1>17, Regrouped
  <2> QED
    BY <2>1 DEF Grouped
<1>19. BitsIn(e) = (X \o Y) \o Z
  BY <1>13, <1>14, <1>16 DEF BitsIn
<1>20. BitsIn(w) = X \o (Y \o Z)
  BY <1>1, <1>11, <1>16 DEF BitsIn
<1> QED
  BY <1>1, <1>15, <1>18, <1>19, <1>20

\* Above the bits of a number there are zeros.
LEMMA LowFirstPadded ==
  ASSUME NEW p \in Nat, NEW u \in Nat, p < TwoTo[u], NEW n \in Nat, u + n <= WordBits
  PROVE  LowFirst(p, u + n) = LowFirst(p, u) \o Padding(n) /\ Padding(n) \in Seq(Nat)
<1>1. u \in 0..WordBits /\ n \in 0..WordBits /\ WordBits \in Nat
  BY WordIs
<1>2. p \div TwoTo[u] = 0
  <2>1. PICK P : P = TwoTo[u]
    OBVIOUS
  <2>2. P \in Nat \ {0} /\ p \in 0..(P - 1)
    BY <1>1, <2>1, TwoToIs
  <2> QED
    BY <2>1, <2>2, Small
<1>3. LowFirst(0, n) = Padding(n)
  <2>1. \A i \in 1..n : BitOf(0, i - 1) = 0
    <3> TAKE i \in 1..n
    <3>1. i - 1 \in 0..WordBits
      BY <1>1
    <3>2. PICK P : P = TwoTo[i - 1]
      OBVIOUS
    <3>3. P \in Nat \ {0} /\ 0 \in 0..(P - 1)
      BY <3>1, <3>2, TwoToIs
    <3>4. 0 \div P = 0 /\ 0 % 2 = 0
      BY <3>3, Small
    <3>5. BitOf(0, i - 1) = (0 \div TwoTo[i - 1]) % 2
      BY <3>1, 0 \in Nat, BitOfIs
    <3> QED
      BY <3>2, <3>4, <3>5
  <2> QED
    BY <2>1 DEF LowFirst, Padding
<1>4. LowFirst(p, u + n) = LowFirst(p, u) \o LowFirst(p \div TwoTo[u], n)
  <2>1. Splits(p, u, n)
    BY LowFirstSplits
  <2> QED
    BY <2>1 DEF Splits
<1>5. Padding(n) \in Seq(Nat)
  BY <1>1, <1>3, 0 \in Nat, LowFirstIs
<1> QED
  BY <1>2, <1>3, <1>4, <1>5

\* The bits up to the next byte are zeros.
LEMMA AlignKeeps ==
  ASSUME NEW w, IsWriter(w), NEW pad, pad = (ByteWidth - (w.used % ByteWidth)) % ByteWidth
  PROVE  /\ IsWriter(AlignToByte(w)) /\ AlignToByte(w).pending = 0 /\ AlignToByte(w).used = 0
         /\ BitsIn(AlignToByte(w)) = BitsIn(w) \o Padding(pad)
         /\ Padding(pad) \in Seq(Nat)
<1>1. PICK B, b, p, u, e, Y :
        B = ByteWidth /\ b = w.bytes /\ p = w.pending /\ u = w.used /\ e = AlignToByte(w) /\ Y = WordBytes
  OBVIOUS
<1>2. /\ b \in Seq(Nat) /\ p \in Nat /\ u \in Nat /\ u < WordBits /\ p < TwoTo[u]
      /\ WordBits \in Nat /\ B \in Nat \ {0} /\ Y \in Nat /\ WordBits = B * Y
  <2>1. WordBits = B * Y /\ B \in Nat \ {0} /\ Y \in Nat
    BY <1>1, WidthAssumption DEF WordBits
  <2> QED
    BY <1>1, <2>1, WriterIs, WordIs
<1>3. PICK q, r : q = u \div B /\ r = u % B
  OBVIOUS
<1>4. q \in Nat /\ r \in 0..(B - 1) /\ u = q * B + r
  BY <1>2, <1>3, DivMod
<1>5. q + 1 <= Y
  <2>1. q >= Y => q * B >= Y * B
    BY <1>2, <1>4
  <2>2. PICK m, z : m = q * B /\ z = Y * B
    OBVIOUS
  <2>3. m \in Nat /\ z = B * Y /\ u = m + r
    BY <1>2, <1>4, <2>2
  <2> QED
    BY <1>2, <1>4, <2>1, <2>2, <2>3
\* The bytes that the bits take.
<1>6. PICK n : n = (u + B - 1) \div B
  OBVIOUS
<1>7. n \in 0..Y /\ pad \in Nat /\ B * n = u + pad
  <2>1. CASE r = 0
    <3>1. u + B - 1 = q * B + (B - 1) /\ B - 1 \in 0..(B - 1) /\ u + B - 1 \in Int /\ q \in Int
      BY <1>2, <1>4, <2>1
    <3>2. n = q
      BY <1>2, <1>6, <3>1, Quotient
    <3>3. pad = 0
      <4>1. B = 1 * B + 0 /\ 0 \in 0..(B - 1) /\ 1 \in Int /\ B \in Int
        BY <1>2
      <4>2. B % B = 0
        BY <1>2, <4>1, Quotient
      <4>3. B - 0 = B
        BY <1>2
      <4> QED
        BY <1>1, <1>3, <2>1, <4>2, <4>3
    <3>4. B * n = u
      BY <1>2, <1>4, <2>1, <3>2
    <3> QED
      BY <1>2, <1>4, <1>5, <3>2, <3>3, <3>4
  <2>2. CASE r # 0
    <3>1. u + B - 1 = (q + 1) * B + (r - 1) /\ r - 1 \in 0..(B - 1) /\ u + B - 1 \in Int /\ q + 1 \in Int
      <4>1. (q + 1) * B = q * B + B
        BY <1>2, <1>4
      <4>2. PICK m : m = q * B
        OBVIOUS
      <4>3. m \in Nat /\ u = m + r /\ (q + 1) * B = m + B
        BY <1>2, <1>4, <4>1, <4>2
      <4> QED
        BY <1>2, <1>4, <2>2, <4>3
    <3>2. n = q + 1
      <4>1. PICK x, k, l : x = u + B - 1 /\ k = q + 1 /\ l = r - 1
        OBVIOUS
      <4>2. x = k * B + l /\ l \in 0..(B - 1) /\ x \in Int /\ k \in Int
        BY <3>1, <4>1
      <4>3. x \div B = k
        BY <1>2, <4>2, Quotient
      <4> QED
        BY <1>6, <4>1, <4>3
    <3>3. pad = B - r
      <4>1. B - r = 0 * B + (B - r) /\ B - r \in 0..(B - 1) /\ 0 \in Int /\ B - r \in Int
        BY <1>2, <1>4, <2>2
      <4>2. (B - r) % B = B - r
        <5>1. PICK x : x = B - r
          OBVIOUS
        <5>2. x \in 0..(B - 1)
          BY <4>1, <5>1
        <5>3. x % B = x
          BY <1>2, <5>2, Small
        <5> QED
          BY <5>1, <5>3
      <4> QED
        BY <1>1, <1>3, <4>2
    <3>4. B * n = q * B + B
      BY <1>2, <1>4, <3>2
    <3>5. PICK m : m = q * B
      OBVIOUS
    <3>6. m \in Nat /\ u = m + r /\ B * n = m + B
      BY <1>2, <1>4, <3>4, <3>5
    <3> QED
      BY <1>2, <1>4, <1>5, <3>2, <3>3, <3>6
  <2> QED
    BY <2>1, <2>2
<1>8. u + pad <= WordBits
  <2>1. n <= Y => B * n <= B * Y
    BY <1>2, <1>7
  <2> QED
    BY <1>2, <1>7, <2>1
<1>9. PICK y : y = Bytes(p, n)
  OBVIOUS
<1>10. e = [bytes |-> b \o y, pending |-> 0, used |-> 0]
  BY <1>1, <1>6, <1>9 DEF AlignToByte
<1>11. y \in Seq(Nat) /\ BitsOfBytes(y) = LowFirst(p, u + pad)
  <2>1. p \in Nat /\ n \in 0..WordBytes
    BY <1>1, <1>2, <1>7
  <2>2. y \in Seq(Nat) /\ BitsOfBytes(y) = LowFirst(p, ByteWidth * n)
    BY <1>9, <2>1, BytesOfWord
  <2> QED
    BY <1>1, <1>7, <2>2
<1>14. LowFirst(p, u + pad) = LowFirst(p, u) \o Padding(pad) /\ Padding(pad) \in Seq(Nat)
  <2>1. \A m \in Nat : u + m <= WordBits =>
          LowFirst(p, u + m) = LowFirst(p, u) \o Padding(m) /\ Padding(m) \in Seq(Nat)
    <3> TAKE m \in Nat
    <3> HAVE u + m <= WordBits
    <3>1. p \in Nat /\ u \in Nat /\ p < TwoTo[u]
      BY <1>2
    <3> QED
      BY <3>1, LowFirstPadded
  <2> QED
    BY <1>7, <1>8, <2>1, Zenon
<1>15. b \o y \in Seq(Nat) /\ BitsOfBytes(b \o y) = BitsOfBytes(b) \o (LowFirst(p, u) \o Padding(pad))
  BY <1>2, <1>11, <1>14, BytesJoined, ConcatProperties
<1>16. e.bytes = b \o y /\ e.pending = 0 /\ e.used = 0
  BY <1>10
<1>17. IsWriter(e)
  <2>1. 0 < WordBits /\ TwoTo[0] = 1
    BY <1>2, TwoToIs
  <2> QED
    BY <1>10, <1>15, <1>16, <2>1 DEF IsWriter, Writers
<1>18. PICK X, L, Z : X = BitsOfBytes(b) /\ L = LowFirst(p, u) /\ Z = Padding(pad)
  OBVIOUS
<1>19. X \in Seq(Nat) /\ L \in Seq(Nat) /\ Z \in Seq(Nat)
  <2>1. X \in Seq(Nat) /\ L \in Seq(Nat)
    BY <1>1, <1>18, WriterIs
  <2> QED
    BY <1>14, <1>18, <2>1
<1>20. (X \o L) \o Z = X \o (L \o Z)
  <2>1. Grouped(X, L, Z)
    BY <1>19, Regrouped
  <2> QED
    BY <2>1 DEF Grouped
<1>21. BitsIn(e) = X \o (L \o Z)
  <2>1. BitsOfBytes(e.bytes) \in Seq(Nat)
    BY <1>15, <1>16, BitsOfBytesAre
  <2>2. BitsIn(e) = BitsOfBytes(e.bytes) \o <<>>
    BY <1>16, NoBits DEF BitsIn
  <2> QED
    BY <1>15, <1>16, <1>18, <2>1, <2>2, ConcatEmptySeq
<1>22. BitsIn(w) = X \o L
  BY <1>1, <1>18 DEF BitsIn
<1> QED
  BY <1>1, <1>16, <1>17, <1>18, <1>19, <1>20, <1>21, <1>22

-----------------------------------------------------------------------------
(* The behaviours. *)

\* What is sent, and what waits in either writer, is what was written to it.
Sent == drained \in Seq(Nat) /\ BitsOfBytes(drained) \o BitsIn(main) = bitsOf.main
BitsInv ==
  /\ IsWriter(main) /\ IsWriter(scratch)
  /\ bitsOf = [main |-> bitsOf.main, scratch |-> bitsOf.scratch]
  /\ Sent /\ BitsIn(scratch) = bitsOf.scratch

\* The bytes drained stand before those that wait.
LEMMA Ahead ==
  ASSUME NEW w, IsWriter(w), NEW d \in Seq(Nat)
  PROVE  /\ BitsIn([w EXCEPT !.bytes = d \o @]) = BitsOfBytes(d) \o BitsIn(w)
         /\ BitsOfBytes(d) \in Seq(Nat)
<1>1. PICK b, L, k : b = w.bytes /\ L = LowFirst(w.pending, w.used) /\ k = [w EXCEPT !.bytes = d \o @]
  OBVIOUS
<1>2. b \in Seq(Nat) /\ BitsOfBytes(b) \in Seq(Nat) /\ L \in Seq(Nat) /\ BitsOfBytes(d) \in Seq(Nat)
  BY <1>1, WriterIs, BitsOfBytesAre
<1>3. k.bytes = d \o b /\ k.pending = w.pending /\ k.used = w.used
  <2>1. w = [bytes |-> w.bytes, pending |-> w.pending, used |-> w.used]
    BY WriterIs
  <2> QED
    BY <1>1, <2>1
<1>4. BitsOfBytes(d \o b) = BitsOfBytes(d) \o BitsOfBytes(b)
  BY <1>2, BytesJoined
<1>5. PICK X, Y : X = BitsOfBytes(d) /\ Y = BitsOfBytes(b)
  OBVIOUS
<1>6. (X \o Y) \o L = X \o (Y \o L)
  <2>1. Grouped(X, Y, L)
    BY <1>2, <1>5, Regrouped
  <2> QED
    BY <2>1 DEF Grouped
<1>7. BitsIn(k) = (X \o Y) \o L
  BY <1>1, <1>3, <1>4, <1>5 DEF BitsIn
<1>8. BitsIn(w) = Y \o L
  BY <1>1, <1>5 DEF BitsIn
<1> QED
  BY <1>1, <1>2, <1>5, <1>6, <1>7, <1>8

\* What goes on the end of the main writer goes on the end of what was sent.
LEMMA SentGrows ==
  ASSUME BitsInv, NEW w, IsWriter(w), NEW s \in Seq(Nat), BitsIn(w) = BitsIn(main) \o s
  PROVE  BitsOfBytes(drained) \o BitsIn(w) = bitsOf.main \o s
<1>1. PICK X, Y : X = BitsOfBytes(drained) /\ Y = BitsIn(main)
  OBVIOUS
<1>2. X \in Seq(Nat) /\ Y \in Seq(Nat) /\ X \o Y = bitsOf.main
  BY <1>1, Ahead, WriterIs DEF BitsInv, Sent
<1>3. (X \o Y) \o s = X \o (Y \o s)
  <2>1. Grouped(X, Y, s)
    BY <1>2, Regrouped
  <2> QED
    BY <2>1 DEF Grouped
<1> QED
  BY <1>1, <1>2, <1>3

\* At the start nothing is written.
LEMMA BitsStart == WriterInit => BitsInv
<1> SUFFICES ASSUME WriterInit PROVE BitsInv
  OBVIOUS
<1>1. drained = <<>> /\ main = NewWriter /\ scratch = NewWriter /\ bitsOf = [main |-> <<>>, scratch |-> <<>>]
  BY DEF WriterInit
<1>2. <<>> \in Seq(Nat) /\ <<>> \o <<>> = <<>>
  OBVIOUS
<1>3. bitsOf.main = <<>> /\ bitsOf.scratch = <<>>
  BY <1>1
<1> QED
  BY <1>1, <1>2, <1>3, NoBits DEF BitsInv, Sent

\* Bits written to either writer.
LEMMA WriteStep ==
  ASSUME BitsInv, NEW value \in Values, NEW count \in Widths, Write(value, count)
  PROVE  BitsInv'
<1>1. value \in Nat /\ count \in 0..WordBits
  BY WidthsFit
<1>2. PICK s : s = LowFirst(value, count)
  OBVIOUS
<1>3. s \in Seq(Nat) /\ drained' = drained
  BY <1>1, <1>2, LowFirstIs DEF Write
<1>4. CASE main' = WriteBits(main, value, count) /\ scratch' = scratch
           /\ bitsOf' = [bitsOf EXCEPT !.main = @ \o s]
  <2>1. IsWriter(main') /\ BitsIn(main') = BitsIn(main) \o s
    BY <1>1, <1>2, <1>4, WriteBitsKeeps DEF BitsInv
  <2>2. bitsOf'.main = bitsOf.main \o s /\ bitsOf'.scratch = bitsOf.scratch
        /\ bitsOf' = [main |-> bitsOf'.main, scratch |-> bitsOf'.scratch]
    BY <1>4 DEF BitsInv
  <2>3. BitsOfBytes(drained) \o BitsIn(main') = bitsOf'.main
    BY <1>3, <2>1, <2>2, SentGrows
  <2>4. IsWriter(scratch) /\ BitsIn(scratch) = bitsOf.scratch /\ drained \in Seq(Nat)
    BY DEF BitsInv, Sent
  <2> QED
    BY <1>3, <1>4, <2>1, <2>2, <2>3, <2>4 DEF BitsInv, Sent
<1>5. CASE scratch' = WriteBits(scratch, value, count) /\ main' = main
           /\ bitsOf' = [bitsOf EXCEPT !.scratch = @ \o s]
  <2>1. IsWriter(scratch') /\ BitsIn(scratch') = BitsIn(scratch) \o s
    BY <1>1, <1>2, <1>5, WriteBitsKeeps DEF BitsInv
  <2>2. bitsOf'.main = bitsOf.main /\ bitsOf'.scratch = bitsOf.scratch \o s
        /\ bitsOf' = [main |-> bitsOf'.main, scratch |-> bitsOf'.scratch]
    BY <1>5 DEF BitsInv
  <2> QED
    BY <1>3, <1>5, <2>1, <2>2 DEF BitsInv, Sent
<1> QED
  BY <1>2, <1>4, <1>5 DEF Write

\* A code written to the scratch writer.
LEMMA PrefixStep ==
  ASSUME BitsInv, NEW value \in Values, NEW count \in Widths, Prefix(value, count)
  PROVE  BitsInv'
<1>1. value \in Nat /\ count \in 0..WordBits
  BY WidthsFit
<1>2. PICK c, s : c = Reversed(value, count) /\ s = HighFirst(value, count)
  OBVIOUS
<1>3. c \in Nat /\ LowFirst(c, count) = s
  BY <1>1, <1>2, ReversedIs
<1>4. /\ scratch' = WriteBits(scratch, c, count) /\ main' = main /\ drained' = drained
      /\ bitsOf' = [bitsOf EXCEPT !.scratch = @ \o s]
  BY <1>2 DEF Prefix, WritePrefix
<1>5. IsWriter(scratch') /\ BitsIn(scratch') = BitsIn(scratch) \o s
  BY <1>1, <1>3, <1>4, WriteBitsKeeps DEF BitsInv
<1>6. bitsOf'.main = bitsOf.main /\ bitsOf'.scratch = bitsOf.scratch \o s
      /\ bitsOf' = [main |-> bitsOf'.main, scratch |-> bitsOf'.scratch]
  BY <1>4 DEF BitsInv
<1> QED
  BY <1>4, <1>5, <1>6 DEF BitsInv, Sent

\* The scratch writer appended to the main one.
LEMMA AppendStep ==
  ASSUME BitsInv, AppendWriter
  PROVE  BitsInv'
<1>1. /\ main' = Appended(main, scratch) /\ scratch' = NewWriter /\ drained' = drained
      /\ bitsOf' = [main |-> bitsOf.main \o bitsOf.scratch, scratch |-> <<>>]
  BY DEF AppendWriter
<1>2. IsWriter(main') /\ BitsIn(main') = BitsIn(main) \o BitsIn(scratch)
  BY <1>1, AppendedKeeps DEF BitsInv
<1>3. BitsIn(scratch) \in Seq(Nat) /\ BitsIn(scratch) = bitsOf.scratch /\ drained \in Seq(Nat)
  BY WriterIs DEF BitsInv, Sent
<1>4. bitsOf'.main = bitsOf.main \o bitsOf.scratch /\ bitsOf'.scratch = <<>>
      /\ bitsOf' = [main |-> bitsOf'.main, scratch |-> bitsOf'.scratch]
  BY <1>1
<1>5. BitsOfBytes(drained) \o BitsIn(main') = bitsOf'.main
  BY <1>2, <1>3, <1>4, SentGrows
<1> QED
  BY <1>1, <1>2, <1>3, <1>4, <1>5, NoBits DEF BitsInv, Sent

\* Bytes taken from the main writer.
LEMMA DrainStep ==
  ASSUME BitsInv, NEW room \in Rooms, Drain(room)
  PROVE  BitsInv'
<1>1. PICK f, count : f = FlushComplete(main) /\ count = IF room < Len(f.bytes) THEN room ELSE Len(f.bytes)
  OBVIOUS
<1>2. IsWriter(f) /\ BitsIn(f) = BitsIn(main)
  BY <1>1, FlushCompleteKeeps DEF BitsInv
<1>3. PICK b : b = f.bytes
  OBVIOUS
<1>4. /\ b \in Seq(Nat) /\ f = [bytes |-> b, pending |-> f.pending, used |-> f.used]
      /\ f.pending \in Nat /\ f.used \in 0..WordBits /\ f.used < WordBits /\ f.pending < TwoTo[f.used]
  BY <1>2, <1>3, WriterIs
<1>5. count \in 0..Len(b)
  BY <1>1, <1>3, <1>4, WidthsFit
<1>6. PICK x, y : x = SubSeq(b, 1, count) /\ y = SubSeq(b, count + 1, Len(b))
  OBVIOUS
<1>7. x \in Seq(Nat) /\ y \in Seq(Nat) /\ x \o y = b
  <2>1. PICK n : n = Len(b)
    OBVIOUS
  <2>2. n \in Nat /\ count \in 0..n /\ \A i \in 1..n : b[i] \in Nat
    BY <1>4, <1>5, <2>1
  <2>3. x \in Seq(Nat) /\ y \in Seq(Nat)
    <3>1. /\ 1 \in Int /\ count \in Int /\ count + 1 \in Int /\ n \in Int
          /\ \A i \in 1..count : b[i] \in Nat
          /\ \A i \in (count + 1)..n : b[i] \in Nat
      BY <2>2
    <3>2. x \in Seq(Nat)
      BY <1>6, <3>1, SubSeqProperties, Zenon
    <3>3. y \in Seq(Nat)
      BY <1>6, <2>1, <3>1, SubSeqProperties, Zenon
    <3> QED
      BY <3>2, <3>3
  <2>4. SubSeq(b, 1, count) \o SubSeq(b, count + 1, Len(b)) = SubSeq(b, 1, Len(b))
    <3>1. 1 \in 1..(Len(b) + 1) /\ count \in (1 - 1)..Len(b) /\ Len(b) \in count..Len(b)
      BY <2>1, <2>2
    <3> QED
      BY <1>4, <3>1, ConcatAdjacentSubSeq, Zenon
  <2> QED
    BY <1>4, <1>6, <2>3, <2>4, SubSeqFull
<1>8. drained' = drained \o x /\ main' = [f EXCEPT !.bytes = y] /\ UNCHANGED <<scratch, bitsOf>>
  BY <1>1, <1>3, <1>6 DEF Drain
<1>9. main' = [bytes |-> y, pending |-> f.pending, used |-> f.used]
  BY <1>4, <1>8
<1>10. main'.bytes = y /\ main'.pending = f.pending /\ main'.used = f.used
  BY <1>9
<1>11. IsWriter(main')
  <2>1. f.used \in Nat
    BY <1>4, WordIs
  <2> QED
    BY <1>4, <1>7, <1>9, <1>10, <2>1 DEF IsWriter, Writers
<1>12. PICK D, X, Y, L : D = BitsOfBytes(drained) /\ X = BitsOfBytes(x) /\ Y = BitsOfBytes(y)
                         /\ L = LowFirst(f.pending, f.used)
  OBVIOUS
<1>13. drained \in Seq(Nat) /\ D \o BitsIn(main) = bitsOf.main
  BY <1>12 DEF BitsInv, Sent
<1>14. D \in Seq(Nat) /\ X \in Seq(Nat) /\ Y \in Seq(Nat) /\ L \in Seq(Nat)
  BY <1>2, <1>7, <1>12, <1>13, BitsOfBytesAre, WriterIs
<1>15. BitsIn(main) = (X \o Y) \o L
  <2>1. BitsOfBytes(b) = X \o Y
    BY <1>7, <1>12, BytesJoined
  <2> QED
    BY <1>2, <1>3, <1>12, <2>1 DEF BitsIn
<1>16. BitsIn(main') = Y \o L
  BY <1>10, <1>12 DEF BitsIn
<1>17. drained' \in Seq(Nat) /\ BitsOfBytes(drained') = D \o X
  BY <1>7, <1>8, <1>12, <1>13, BytesJoined, ConcatProperties
<1>18. (D \o X) \o (Y \o L) = D \o ((X \o Y) \o L)
  <2>1. PICK Z : Z = Y \o L
    OBVIOUS
  <2>2. Z \in Seq(Nat)
    BY <1>14, <2>1, ConcatProperties
  <2>3. (D \o X) \o Z = D \o (X \o Z)
    <3>1. D \in Seq(Nat) /\ X \in Seq(Nat) /\ Z \in Seq(Nat)
      BY <1>14, <2>2
    <3>2. Grouped(D, X, Z)
      BY <3>1, Regrouped
    <3> QED
      BY <3>2 DEF Grouped
  <2>4. (X \o Y) \o L = X \o (Y \o L)
    <3>1. X \in Seq(Nat) /\ Y \in Seq(Nat) /\ L \in Seq(Nat)
      BY <1>14
    <3>2. Grouped(X, Y, L)
      BY <3>1, Regrouped
    <3> QED
      BY <3>2 DEF Grouped
  <2> QED
    BY <2>1, <2>3, <2>4, Zenon
<1>19. Sent'
  <2>1. BitsOfBytes(drained') \o BitsIn(main') = bitsOf'.main
    BY <1>8, <1>13, <1>15, <1>16, <1>17, <1>18
  <2> QED
    BY <1>17, <2>1 DEF Sent
<1> QED
  BY <1>8, <1>11, <1>19 DEF BitsInv

\* A byte written after the zeros that align it.
LEMMA WriteBytesStep ==
  ASSUME BitsInv, NEW byte \in Nat, WriteBytes(byte)
  PROVE  BitsInv'
<1>1. PICK pad, f : pad = (ByteWidth - (main.used % ByteWidth)) % ByteWidth /\ f = AlignToByte(main)
  OBVIOUS
<1>2. /\ IsWriter(f) /\ f.pending = 0 /\ f.used = 0
      /\ BitsIn(f) = BitsIn(main) \o Padding(pad) /\ Padding(pad) \in Seq(Nat)
  BY <1>1, AlignKeeps DEF BitsInv
<1>3. PICK b, P, L : b = f.bytes /\ P = Padding(pad) /\ L = LowFirst(byte, ByteWidth)
  OBVIOUS
<1>4. b \in Seq(Nat) /\ f = [bytes |-> b, pending |-> 0, used |-> 0] /\ P \in Seq(Nat) /\ L \in Seq(Nat)
  <2>1. ByteWidth \in 0..WordBits
    BY WordIs
  <2> QED
    BY <1>2, <1>3, <2>1, WriterIs, LowFirstIs
<1>5. /\ main' = [f EXCEPT !.bytes = Append(@, byte)] /\ UNCHANGED <<scratch, drained>>
      /\ bitsOf' = [bitsOf EXCEPT !.main = @ \o P \o L]
  BY <1>1, <1>3 DEF WriteBytes
<1>6. PICK g : g = b \o <<byte>>
  OBVIOUS
<1>7. main' = [bytes |-> g, pending |-> 0, used |-> 0]
  <2>1. Append(b, byte) = g
    BY <1>4, <1>6
  <2> QED
    <3>1. main' = [f EXCEPT !.bytes = Append(b, byte)]
      BY <1>3, <1>5
    <3>2. main' = [f EXCEPT !.bytes = g]
      BY <2>1, <3>1
    <3> QED
      BY <1>4, <3>2
<1>8. main'.bytes = g /\ main'.pending = 0 /\ main'.used = 0
  BY <1>7
<1>9. g \in Seq(Nat) /\ BitsOfBytes(g) = BitsOfBytes(b) \o L
  <2>1. <<byte>> \in Seq(Nat) /\ BitsOfBytes(<<byte>>) = L
    BY <1>3, OneByte
  <2>2. BitsOfBytes(g) = BitsOfBytes(b) \o BitsOfBytes(<<byte>>)
    BY <1>4, <1>6, <2>1, BytesJoined
  <2> QED
    BY <1>4, <1>6, <2>1, <2>2, ConcatProperties
<1>10. IsWriter(main')
  <2>1. 0 < WordBits /\ TwoTo[0] = 1
    BY WordIs, TwoToIs
  <2> QED
    BY <1>7, <1>8, <1>9, <2>1 DEF IsWriter, Writers
<1>11. BitsIn(f) = BitsOfBytes(b) /\ BitsIn(main') = BitsOfBytes(g)
  <2>1. BitsOfBytes(b) \in Seq(Nat) /\ BitsOfBytes(g) \in Seq(Nat)
    BY <1>4, <1>9, BitsOfBytesAre
  <2>2. BitsIn(f) = BitsOfBytes(b) \o <<>> /\ BitsIn(main') = BitsOfBytes(g) \o <<>>
    BY <1>2, <1>3, <1>8, NoBits DEF BitsIn
  <2> QED
    BY <2>1, <2>2, ConcatEmptySeq
<1>12. PICK M, s : M = BitsIn(main) /\ s = P \o L
  OBVIOUS
<1>13. M \in Seq(Nat) /\ s \in Seq(Nat) /\ (M \o P) \o L = M \o s
  <2>1. M \in Seq(Nat)
    BY <1>12, WriterIs DEF BitsInv
  <2> QED
    <3>1. Grouped(M, P, L) /\ s \in Seq(Nat)
      BY <1>4, <1>12, <2>1, Regrouped, ConcatProperties
    <3> QED
      BY <1>12, <2>1, <3>1 DEF Grouped
<1>14. BitsIn(main') = BitsIn(main) \o s
  BY <1>2, <1>3, <1>9, <1>11, <1>12, <1>13
<1>15. BitsOfBytes(drained) \o BitsIn(main') = bitsOf.main \o s
  BY <1>10, <1>13, <1>14, SentGrows
<1>16. bitsOf'.main = (bitsOf.main \o P) \o L /\ bitsOf'.scratch = bitsOf.scratch
       /\ bitsOf' = [main |-> bitsOf'.main, scratch |-> bitsOf'.scratch]
  BY <1>5 DEF BitsInv
<1>17. (bitsOf.main \o P) \o L = bitsOf.main \o s
  <2>1. PICK Z : Z = bitsOf.main
    OBVIOUS
  <2>2. Z \in Seq(Nat)
    <3>1. drained \in Seq(Nat) /\ Z = BitsOfBytes(drained) \o M
      BY <1>12, <2>1 DEF BitsInv, Sent
    <3>2. BitsOfBytes(drained) \in Seq(Nat)
      BY <3>1, BitsOfBytesAre
    <3> QED
      BY <1>13, <3>1, <3>2, ConcatProperties
  <2>3. (Z \o P) \o L = Z \o s
    <3>1. Grouped(Z, P, L)
      BY <1>4, <2>2, Regrouped
    <3> QED
      BY <1>12, <3>1 DEF Grouped
  <2> QED
    BY <2>1, <2>3
<1>18. Sent'
  <2>1. drained' = drained /\ drained \in Seq(Nat)
    BY <1>5 DEF BitsInv, Sent
  <2> QED
    BY <1>15, <1>16, <1>17, <2>1 DEF Sent
<1> QED
  BY <1>5, <1>10, <1>16, <1>18 DEF BitsInv

\* Every step keeps it.
LEMMA BitsStep ==
  ASSUME BitsInv, [WriterNext]_writerVars
  PROVE  BitsInv'
<1>1. ASSUME NEW value \in Values, NEW count \in Widths, Write(value, count) PROVE BitsInv'
  BY <1>1, WriteStep
<1>2. ASSUME NEW value \in Values, NEW count \in Widths, Prefix(value, count) PROVE BitsInv'
  BY <1>2, PrefixStep
<1>3. CASE AppendWriter
  BY <1>3, AppendStep
<1>4. ASSUME NEW room \in Rooms, Drain(room) PROVE BitsInv'
  BY <1>4, DrainStep
<1>5. ASSUME NEW value \in Values, WriteBytes(LowBits(value, ByteWidth)) PROVE BitsInv'
  <2>1. value \in Nat /\ ByteWidth \in 0..WordBits /\ 0 \in 0..ByteWidth
    BY WidthsFit, WordIs
  <2>2. LowBits(value, ByteWidth) \in Nat
    BY <2>1, LowFirstOfLow
  <2> QED
    BY <1>5, <2>2, WriteBytesStep
<1>6. CASE UNCHANGED writerVars
  BY <1>6 DEF writerVars, BitsInv, Sent
<1> QED
  BY <1>1, <1>2, <1>3, <1>4, <1>5, <1>6 DEF WriterNext

\* Nothing of what is written to a bit writer is lost, doubled or moved, whatever
\* the widths of the word, of the bytes and of what is written, wherever a write
\* falls in the word and however the bytes are taken (write_bits, write_prefix,
\* append_writer, drain_bytes, align_to_byte).
THEOREM NoBitIsLost == WriterSpec => []BitsKept
<1>1. BitsInv => BitsKept
  <2> SUFFICES ASSUME BitsInv PROVE BitsKept
    OBVIOUS
  <2>1. BitsIn([main EXCEPT !.bytes = drained \o @]) = bitsOf.main
    BY Ahead DEF BitsInv, Sent
  <2>2. \A w \in {main, scratch} : w.used < WordBits /\ w.pending < TwoTo[w.used]
    BY DEF BitsInv, IsWriter
  <2> QED
    BY <2>1, <2>2 DEF BitsInv, BitsKept
<1> QED
  BY <1>1, BitsStart, BitsStep, PTL DEF WriterSpec
=============================================================================
