---------------------- MODULE CompressedMetaBlockProofs ----------------------
(***************************************************************************)
(* A compressed metablock puts out exactly the bytes that it owes, and     *)
(* they are what its commands mean, for every window, every code, every    *)
(* dictionary and however its calls are cut; and it keeps the promise of   *)
(* MetaBlockBody, on which the decoder core relies.                        *)
(***************************************************************************)
EXTENDS CompressedMetaBlock, SequenceTheorems, TLAPS

-----------------------------------------------------------------------------
(* Arithmetic: the powers of 2 that occur, and the remainder.              *)

LEMMA PowerCases ==
  /\ 2 ^ 0 = 1 /\ 2 ^ 1 \in Nat \ {0, 1} /\ 2 ^ 2 \in Nat \ {0, 1}
  /\ 2 ^ 3 \in Nat \ {0, 1} /\ 2 ^ 4 \in Nat \ {0, 1} /\ 2 ^ 5 \in Nat \ {0, 1}
  /\ 2 ^ 6 \in Nat \ {0, 1} /\ 2 ^ 7 \in Nat \ {0, 1} /\ 2 ^ 8 \in Nat \ {0, 1}
  /\ 2 ^ 9 \in Nat \ {0, 1} /\ 2 ^ 10 \in Nat \ {0, 1} /\ 2 ^ 11 \in Nat \ {0, 1}
  /\ 2 ^ 12 \in Nat \ {0, 1} /\ 2 ^ 13 \in Nat \ {0, 1} /\ 2 ^ 14 \in Nat \ {0, 1}
  /\ 2 ^ 15 \in Nat \ {0, 1} /\ 2 ^ 16 \in Nat \ {0, 1} /\ 2 ^ 17 \in Nat \ {0, 1}
  /\ 2 ^ 18 \in Nat \ {0, 1} /\ 2 ^ 19 \in Nat \ {0, 1} /\ 2 ^ 20 \in Nat \ {0, 1}
  /\ 2 ^ 21 \in Nat \ {0, 1} /\ 2 ^ 22 \in Nat \ {0, 1} /\ 2 ^ 23 \in Nat \ {0, 1}
  /\ 2 ^ 24 \in Nat \ {0, 1}
OBVIOUS

LEMMA PowerMany ==
  ASSUME NEW n \in 1..24
  PROVE  2 ^ n \in Nat \ {0, 1}
<1>1. \/ n = 1 \/ n = 2 \/ n = 3 \/ n = 4 \/ n = 5 \/ n = 6
      \/ n = 7 \/ n = 8 \/ n = 9 \/ n = 10 \/ n = 11 \/ n = 12 \/ n = 13
      \/ n = 14 \/ n = 15 \/ n = 16 \/ n = 17 \/ n = 18 \/ n = 19 \/ n = 20
      \/ n = 21 \/ n = 22 \/ n = 23 \/ n = 24
  OBVIOUS
<1>2. QED
  BY <1>1, PowerCases, Zenon

LEMMA PowerPositive ==
  ASSUME NEW n \in 0..24
  PROVE  2 ^ n \in Nat \ {0}
<1>1. n = 0 \/ n \in 1..24
  OBVIOUS
<1>2. 2 ^ 0 \in Nat \ {0}
  OBVIOUS
<1>3. CASE n \in 1..24
  BY <1>3, PowerMany
<1>4. QED
  BY <1>1, <1>2, <1>3

LEMMA ModUnique ==
  ASSUME NEW d \in Nat \ {0}, NEW q \in Int, NEW r \in 0..(d - 1), NEW x \in Int, x = q * d + r
  PROVE  x % d = r
OBVIOUS

LEMMA DivMod ==
  ASSUME NEW d \in Nat \ {0}, NEW x \in Nat
  PROVE  /\ x \div d \in Nat /\ x % d \in 0..(d - 1)
         /\ x = (x \div d) * d + (x % d)
OBVIOUS

LEMMA ModSmall ==
  ASSUME NEW d \in Nat \ {0}, NEW r \in 0..(d - 1)
  PROVE  r % d = r
BY 0 * d + r = r, ModUnique

(* Whole divisors, and what is left of a summand, do not show.             *)
LEMMA ModAdd ==
  ASSUME NEW d \in Nat \ {0}, NEW n \in Nat, NEW x \in Nat
  PROVE  (n + (x % d)) % d = (n + x) % d
<1> DEFINE y == n + (x % d)
<1>1. x % d \in Nat /\ x = (x \div d) * d + (x % d) /\ x \div d \in Nat
  BY DivMod
<1>2. y \in Nat
  BY <1>1
<1>3. y = (y \div d) * d + (y % d) /\ y \div d \in Nat /\ y % d \in 0..(d - 1)
  BY <1>2, DivMod
<1> HIDE DEF y
<1>4. n + x = (x \div d) * d + y
  BY <1>1 DEF y
<1>5. n + x = ((x \div d) + (y \div d)) * d + (y % d)
  BY <1>1, <1>2, <1>3, <1>4
<1>6. (n + x) % d = y % d
  <2> DEFINE q == (x \div d) + (y \div d)
             z == n + x
             e == y % d
  <2>1. q \in Int /\ z \in Int /\ e \in 0..(d - 1) /\ z = q * d + e
    BY <1>1, <1>3, <1>5
  <2> HIDE DEF q, z, e
  <2>2. z % d = e
    BY <2>1, ModUnique
  <2>3. QED
    BY <2>2 DEF z, e
<1>7. QED
  BY <1>6 DEF y

-----------------------------------------------------------------------------
(* Sequences of letters.                                                   *)

LEMMA Slice ==
  ASSUME NEW S, NEW s \in Seq(S), NEW i \in Nat, NEW n \in Nat, i + n <= Len(s)
  PROVE  /\ SubSeq(s, i + 1, i + n) \in Seq(S)
         /\ Len(SubSeq(s, i + 1, i + n)) = n
         /\ \A j \in 1..n : SubSeq(s, i + 1, i + n)[j] = s[i + j]
BY SMTT(30)

LEMMA Same ==
  ASSUME NEW S, NEW s \in Seq(S), NEW t \in Seq(S), Len(s) = Len(t),
         \A i \in 1..Len(s) : s[i] = t[i]
  PROVE  s = t
BY SeqEqual

(* A function on 1..n with values in S is a sequence over S.               *)
LEMMA Listed ==
  ASSUME NEW S, NEW n \in Nat, NEW f, f \in [1..n -> S]
  PROVE  f \in Seq(S) /\ Len(f) = n /\ \A i \in 1..n : f[i] \in S
OBVIOUS

(* What a copy means, byte by byte.                                        *)
LEMMA OverlapIs ==
  ASSUME NEW S, NEW s \in Seq(S), NEW d \in 1..Len(s), NEW n \in Nat
  PROVE  /\ Overlap(s, d, n) \in Seq(S) /\ Len(Overlap(s, d, n)) = Len(s) + n
         /\ \A i \in 1..Len(s) : Overlap(s, d, n)[i] = s[i]
         /\ \A i \in 1..n : Overlap(s, d, n)[Len(s) + i] = s[Len(s) - d + 1 + ((i - 1) % d)]
<1> DEFINE f == [i \in 1..n |-> s[Len(s) - d + 1 + ((i - 1) % d)]]
<1>1. d \in Nat \ {0} /\ Len(s) \in Nat
  OBVIOUS
<1>2. \A i \in 1..n : Len(s) - d + 1 + ((i - 1) % d) \in 1..Len(s)
  BY <1>1
<1>3. f \in [1..n -> S]
  BY <1>2
<1>4. f \in Seq(S) /\ Len(f) = n
  BY <1>3, Listed
<1>5. \A i \in 1..n : f[i] = s[Len(s) - d + 1 + ((i - 1) % d)]
  OBVIOUS
<1>6. Overlap(s, d, n) = s \o f
  BY DEF Overlap
<1> HIDE DEF f
<1>7. QED
  <2>1. /\ s \o f \in Seq(S) /\ Len(s \o f) = Len(s) + Len(f)
        /\ \A i \in 1..Len(s) : (s \o f)[i] = s[i]
        /\ \A i \in 1..Len(f) : (s \o f)[Len(s) + i] = f[i]
    BY <1>4
  <2>2. QED
    BY <1>4, <1>5, <1>6, <2>1

(* From the first byte copied on, every byte is the one d before.          *)
LEMMA OverlapRepeats ==
  ASSUME NEW S, NEW s \in Seq(S), NEW d \in 1..Len(s), NEW n \in Nat, NEW k \in 0..(d + n - 1)
  PROVE  Overlap(s, d, n)[Len(s) - d + 1 + k] = s[Len(s) - d + 1 + (k % d)]
<1> DEFINE v == Overlap(s, d, n)
<1>1. d \in Nat \ {0} /\ Len(s) \in Nat
  OBVIOUS
<1>2. /\ \A i \in 1..Len(s) : v[i] = s[i]
      /\ \A i \in 1..n : v[Len(s) + i] = s[Len(s) - d + 1 + ((i - 1) % d)]
  BY ZenonT(60), OverlapIs
<1> HIDE DEF v
<1>3. CASE k < d
  <2>1. k % d = k
    BY <1>1, <1>3, ModSmall
  <2>2. Len(s) - d + 1 + k \in 1..Len(s)
    BY <1>1, <1>3
  <2>3. v[Len(s) - d + 1 + k] = s[Len(s) - d + 1 + k]
    BY <1>2, <2>2
  <2>4. QED
    BY <2>1, <2>3 DEF v
<1>4. CASE k >= d
  <2>1. (k - d + 1) \in 1..n /\ Len(s) - d + 1 + k = Len(s) + (k - d + 1)
    BY <1>1, <1>4
  <2>2. v[Len(s) + (k - d + 1)] = s[Len(s) - d + 1 + (((k - d + 1) - 1) % d)]
    BY <1>2, <2>1
  <2>3. (k - d + 1) - 1 = k - d /\ k - d \in Nat
    BY <1>1, <1>4
  <2>4. (k - d) % d = k % d
    <3> DEFINE x == k - d
    <3>1. x \in Nat /\ k = x + d
      BY <2>3
    <3>2. x = (x \div d) * d + (x % d) /\ x \div d \in Nat /\ x % d \in 0..(d - 1)
      BY <3>1, <1>1, DivMod
    <3> HIDE DEF x
    <3>3. k = ((x \div d) + 1) * d + (x % d)
      BY <3>1, <3>2, <1>1
    <3>4. k % d = x % d
      <4> DEFINE q == (x \div d) + 1
                 e == x % d
      <4>1. q \in Int /\ e \in 0..(d - 1) /\ k \in Int /\ k = q * d + e
        BY <3>2, <3>3
      <4> HIDE DEF q, e
      <4>2. k % d = e
        BY <4>1, <1>1, ModUnique
      <4>3. QED
        BY <4>2 DEF e
    <3>5. QED
      BY <3>4 DEF x
  <2>5. QED
    BY <2>1, <2>2, <2>3, <2>4 DEF v
<1>5. QED
  BY <1>1, <1>3, <1>4

(* A copy may be cut anywhere: its rest, begun anew with the same distance,*)
(* ends in the bytes that the whole would have put out.                    *)
LEMMA OverlapSplits ==
  ASSUME NEW S, NEW s \in Seq(S), NEW d \in 1..Len(s), NEW n \in Nat, NEW m \in Nat
  PROVE  Overlap(Overlap(s, d, n), d, m) = Overlap(s, d, n + m)
<1> DEFINE v == Overlap(s, d, n)
           w == Overlap(s, d, n + m)
           u == Overlap(v, d, m)
<1>1. d \in Nat \ {0} /\ Len(s) \in Nat /\ n + m \in Nat
  OBVIOUS
<1>2. v \in Seq(S) /\ Len(v) = Len(s) + n
  BY OverlapIs
<1>2a. d \in 1..Len(v)
  BY <1>1, <1>2
<1>3. w \in Seq(S) /\ Len(w) = Len(s) + (n + m)
  BY <1>1, OverlapIs
<1>4. /\ \A i \in 1..Len(s) : v[i] = s[i]
      /\ \A i \in 1..n : v[Len(s) + i] = s[Len(s) - d + 1 + ((i - 1) % d)]
  BY ZenonT(60), OverlapIs
<1>5. /\ \A i \in 1..Len(s) : w[i] = s[i]
      /\ \A i \in 1..(n + m) : w[Len(s) + i] = s[Len(s) - d + 1 + ((i - 1) % d)]
  <2> DEFINE l == n + m
  <2>1. l \in Nat
    BY <1>1
  <2> HIDE DEF l
  <2>2. /\ \A i \in 1..Len(s) : Overlap(s, d, l)[i] = s[i]
        /\ \A i \in 1..l : Overlap(s, d, l)[Len(s) + i] = s[Len(s) - d + 1 + ((i - 1) % d)]
    BY ZenonT(60), <2>1, OverlapIs
  <2>3. QED
    BY <2>2 DEF l
<1>6. \A k \in 0..(d + n - 1) : v[Len(s) - d + 1 + k] = s[Len(s) - d + 1 + (k % d)]
  BY OverlapRepeats
<1> HIDE DEF v, w
<1>7. /\ u \in Seq(S) /\ Len(u) = Len(v) + m
      /\ \A i \in 1..Len(v) : u[i] = v[i]
      /\ \A i \in 1..m : u[Len(v) + i] = v[Len(v) - d + 1 + ((i - 1) % d)]
  BY ZenonT(60), <1>2, <1>2a, OverlapIs
<1> HIDE DEF u
<1>8. \A i \in 1..m : u[Len(v) + i] = w[Len(v) + i]
  <2> SUFFICES ASSUME NEW i \in 1..m PROVE u[Len(v) + i] = w[Len(v) + i]
    OBVIOUS
  <2> DEFINE r == (i - 1) % d
  <2>1. i - 1 \in Nat /\ r \in 0..(d - 1) /\ r \in Nat
    BY <1>1
  <2>2. (n + r) % d = (n + (i - 1)) % d
    BY <1>1, <2>1, ModAdd
  <2> HIDE DEF r
  <2>3. n + r \in 0..(d + n - 1)
    BY <2>1, <1>1
  <2>4. v[Len(s) - d + 1 + (n + r)] = s[Len(s) - d + 1 + ((n + r) % d)]
    BY <1>6, <2>3
  <2>5. Len(v) - d + 1 + r = Len(s) - d + 1 + (n + r)
    BY <1>1, <1>2, <2>1
  <2>6. u[Len(v) + i] = v[Len(v) - d + 1 + r]
    BY <1>7 DEF r
  <2>7. /\ n + i \in 1..(n + m) /\ (n + i) - 1 = n + (i - 1)
        /\ Len(v) + i = Len(s) + (n + i)
    BY <1>1, <1>2
  <2>8. w[Len(s) + (n + i)] = s[Len(s) - d + 1 + ((n + (i - 1)) % d)]
    BY <1>5, <2>7
  <2>9. QED
    BY <2>2, <2>4, <2>5, <2>6, <2>7, <2>8
<1>9. \A i \in 1..Len(v) : u[i] = w[i]
  <2> SUFFICES ASSUME NEW i \in 1..Len(v) PROVE u[i] = w[i]
    OBVIOUS
  <2>1. CASE i <= Len(s)
    BY <1>1, <1>2, <1>4, <1>5, <1>7, <2>1
  <2>2. CASE i > Len(s)
    <3>1. (i - Len(s)) \in 1..n /\ (i - Len(s)) \in 1..(n + m) /\ Len(s) + (i - Len(s)) = i
      BY <1>1, <1>2, <2>2
    <3>2. v[Len(s) + (i - Len(s))] = w[Len(s) + (i - Len(s))]
      BY <1>4, <1>5, <3>1
    <3>3. QED
      BY <1>7, <3>1, <3>2
  <2>3. QED
    BY <1>1, <2>1, <2>2
<1>10. \A i \in 1..Len(u) : u[i] = w[i]
  <2> SUFFICES ASSUME NEW i \in 1..Len(u) PROVE u[i] = w[i]
    OBVIOUS
  <2>3. CASE i <= Len(v)
    BY <1>1, <1>2, <1>9, <2>3
  <2>4. CASE i > Len(v)
    <3>1. (i - Len(v)) \in 1..m /\ Len(v) + (i - Len(v)) = i
      BY <1>1, <1>2, <1>7, <2>4
    <3>2. QED
      BY <1>8, <3>1
  <2>5. QED
    BY <1>1, <1>2, <2>3, <2>4
<1>11. Len(u) = Len(w)
  BY <1>1, <1>2, <1>3, <1>7
<1>12. u = w
  BY <1>3, <1>7, <1>10, <1>11, Same
<1>13. QED
  BY <1>12 DEF u, v, w

(* The bytes that one turn of a copy puts out.                             *)
LEMMA OverlapTail ==
  ASSUME NEW S, NEW s \in Seq(S), NEW d \in 1..Len(s), NEW n \in Nat
  PROVE  LET t == SubSeq(Overlap(s, d, n), Len(s) + 1, Len(s) + n)
         IN t \in Seq(S) /\ Len(t) = n /\ s \o t = Overlap(s, d, n)
<1> DEFINE v == Overlap(s, d, n)
           t == SubSeq(v, Len(s) + 1, Len(s) + n)
<1>1. Len(s) \in Nat
  OBVIOUS
<1>2. v \in Seq(S) /\ Len(v) = Len(s) + n /\ \A i \in 1..Len(s) : v[i] = s[i]
  BY OverlapIs
<1> HIDE DEF v
<1>3. t \in Seq(S) /\ Len(t) = n /\ \A j \in 1..n : t[j] = v[Len(s) + j]
  BY <1>1, <1>2, Slice
<1> HIDE DEF t
<1>4. /\ s \o t \in Seq(S) /\ Len(s \o t) = Len(s) + Len(t)
      /\ \A i \in 1..Len(s) : (s \o t)[i] = s[i]
      /\ \A i \in 1..Len(t) : (s \o t)[Len(s) + i] = t[i]
  BY <1>3
<1>5. \A i \in 1..Len(s \o t) : (s \o t)[i] = v[i]
  <2> SUFFICES ASSUME NEW i \in 1..Len(s \o t) PROVE (s \o t)[i] = v[i]
    OBVIOUS
  <2>1. i \in 1..(Len(s) + n)
    BY <1>3, <1>4
  <2>2. CASE i \in 1..Len(s)
    BY <1>2, <1>4, <2>2
  <2>3. CASE i \notin 1..Len(s)
    <3>1. (i - Len(s)) \in 1..n /\ Len(s) + (i - Len(s)) = i
      BY <1>1, <2>1, <2>3
    <3>2. (s \o t)[Len(s) + (i - Len(s))] = t[i - Len(s)]
      BY <1>3, <1>4, <3>1
    <3>3. QED
      BY <1>3, <3>1, <3>2
  <2>4. QED
    BY <2>2, <2>3
<1>6. s \o t = v
  BY <1>2, <1>3, <1>4, <1>5, Same
<1>7. QED
  BY <1>3, <1>6 DEF t, v

(* A copy of no bytes means nothing.                                       *)
LEMMA OverlapNothing ==
  ASSUME NEW S, NEW s \in Seq(S), NEW d \in 1..Len(s)
  PROVE  Overlap(s, d, 0) = s
<1> DEFINE n == 0
<1>1. n \in Nat /\ n = 0
  OBVIOUS
<1> HIDE DEF n
<1>2. /\ Overlap(s, d, n) \in Seq(S) /\ Len(Overlap(s, d, n)) = Len(s) + n
      /\ \A i \in 1..Len(s) : Overlap(s, d, n)[i] = s[i]
  BY SMTT(30), <1>1, OverlapIs
<1>3. Len(Overlap(s, d, n)) = Len(s)
  BY <1>1, <1>2
<1>4. \A i \in 1..Len(Overlap(s, d, n)) : Overlap(s, d, n)[i] = s[i]
  BY <1>2, <1>3
<1>5. Overlap(s, d, n) = s
  BY <1>2, <1>3, <1>4, Same
<1>6. QED
  BY <1>1, <1>5

-----------------------------------------------------------------------------
(* What a distance symbol and its extra bits name, and what a word is.     *)

DistanceRecords == [state : {"none", "resolved", "extra"}, symbol : Nat, value : Nat,
                    push : BOOLEAN, bits : 0..24]

LEMMA ShortIs ==
  ASSUME NEW ring \in [1..4 -> Nat], NEW symbol \in 0..15
  PROVE  ShortDistance(ring, symbol) \in Int
<1>1. \A i \in 1..16 : ShortCodes[i][1] \in 1..4 /\ ShortCodes[i][2] \in Int
  BY DEF ShortCodes
<1>2. symbol + 1 \in 1..16
  OBVIOUS
<1>3. QED
  BY <1>1, <1>2 DEF ShortDistance

(* The number of extra bits, whose symbols the alphabet bounds.            *)
LEMMA ExtraBits ==
  ASSUME NEW code \in 0..(48 * 2 ^ Postfix - 1)
  PROVE  /\ 2 ^ Postfix \in Nat \ {0}
         /\ 1 + (code \div (2 ^ (Postfix + 1))) \in 1..24
         /\ (code \div (2 ^ Postfix)) % 2 \in 0..1
         /\ code % (2 ^ Postfix) \in Nat
<1>1. Postfix = 0 \/ Postfix = 1 \/ Postfix = 2 \/ Postfix = 3
  BY DistanceAssumption
<1>2. CASE Postfix = 0
  <2>1. 2 ^ Postfix = 1 /\ 2 ^ (Postfix + 1) = 2
    BY <1>2
  <2>2. code \in 0..47
    BY <2>1
  <2>3. code \div 2 \in 0..23 /\ (code \div 1) % 2 \in 0..1 /\ code % 1 \in Nat
    BY <2>2
  <2>4. QED
    BY <2>1, <2>3
<1>3. CASE Postfix = 1
  <2>1. 2 ^ Postfix = 2 /\ 2 ^ (Postfix + 1) = 4
    BY <1>3
  <2>2. code \in 0..95
    BY <2>1
  <2>3. code \div 4 \in 0..23 /\ (code \div 2) % 2 \in 0..1 /\ code % 2 \in Nat
    BY <2>2
  <2>4. QED
    BY <2>1, <2>3
<1>4. CASE Postfix = 2
  <2>1. 2 ^ Postfix = 4 /\ 2 ^ (Postfix + 1) = 8
    BY <1>4
  <2>2. QED
    BY <2>1
<1>5. CASE Postfix = 3
  <2>1. 2 ^ Postfix = 8 /\ 2 ^ (Postfix + 1) = 16
    BY <1>5
  <2>2. QED
    BY <2>1
<1>6. QED
  BY <1>1, <1>2, <1>3, <1>4, <1>5

LEMMA DistanceIs ==
  ASSUME NEW ring \in [1..4 -> Nat], NEW symbol \in 0..(AlphabetSize(Postfix, Direct) - 1),
         ~ InvalidShort(ring, symbol)
  PROVE  LET d == NewDistance(ring, symbol, Postfix, Direct)
         IN d \in DistanceRecords /\ d.state # "none" /\ d.value # 0
<1>1. symbol \in Nat /\ Direct \in Nat /\ Postfix \in 0..3
  BY DistanceAssumption
<1>2. CASE symbol < 16
  <2>1. ShortDistance(ring, symbol) \in Int /\ ~ (ShortDistance(ring, symbol) <= 0)
    BY <1>1, <1>2, ShortIs DEF InvalidShort
  <2>2. ShortDistance(ring, symbol) \in Nat \ {0}
    BY <2>1
  <2>3. NewDistance(ring, symbol, Postfix, Direct) =
          [state |-> "resolved", symbol |-> symbol, value |-> ShortDistance(ring, symbol),
           push |-> symbol # 0, bits |-> 0]
    BY <1>2 DEF NewDistance
  <2>4. QED
    BY <1>1, <2>2, <2>3 DEF DistanceRecords
<1>3. CASE ~ (symbol < 16) /\ symbol < 16 + Direct
  <2>1. NewDistance(ring, symbol, Postfix, Direct) =
          [state |-> "resolved", symbol |-> symbol, value |-> symbol - 16 + 1,
           push |-> symbol # 0, bits |-> 0]
    BY <1>3 DEF NewDistance
  <2>2. symbol - 16 + 1 \in Nat \ {0}
    BY <1>1, <1>3
  <2>3. QED
    BY <1>1, <2>1, <2>2 DEF DistanceRecords
<1>4. CASE ~ (symbol < 16) /\ ~ (symbol < 16 + Direct)
  <2> DEFINE code  == symbol - Direct - 16
             power == 2 ^ Postfix
             high  == (code \div power) % 2
             low   == code % power
             bits  == 1 + (code \div (2 ^ (Postfix + 1)))
             base  == ((2 + high) * (2 ^ bits)) - 4
             value == (base * power) + low + Direct + 1
  <2>1. code \in 0..(48 * power - 1)
    <3>1. power \in Nat
      BY <1>1, Postfix \in 0..24, PowerPositive
    <3> HIDE DEF power
    <3>2. symbol \in 0..((16 + Direct + 48 * power) - 1)
      BY DEF AlphabetSize, power
    <3>3. QED
      BY <1>1, <1>4, <3>1, <3>2
  <2>2. power \in Nat \ {0} /\ bits \in 1..24 /\ high \in 0..1 /\ low \in Nat
    BY <2>1, ExtraBits
  <2>3. NewDistance(ring, symbol, Postfix, Direct) =
          [state |-> "extra", symbol |-> symbol, push |-> TRUE, bits |-> bits, value |-> value]
    BY <1>4, Zenon DEF NewDistance
  <2> HIDE DEF code, power, high, low, bits
  <2>4. 2 ^ bits \in Nat \ {0, 1}
    BY <2>2, PowerMany
  <2>5. base \in Nat
    BY <2>2, <2>4
  <2> HIDE DEF base
  <2>6. base * power \in Nat
    BY <2>2, <2>5
  <2>7. value \in Nat \ {0}
    BY <1>1, <2>2, <2>6
  <2> HIDE DEF value
  <2>8. bits \in 0..24
    BY <2>2
  <2>9. QED
    BY <1>1, <2>3, <2>7, <2>8 DEF DistanceRecords
<1>5. QED
  BY <1>2, <1>3, <1>4

(* The extra bits only add to a distance.                                  *)
LEMMA ResolveIs ==
  ASSUME NEW d \in DistanceRecords, NEW extra \in ExtraEnds(d.bits), d.value # 0
  PROVE  Resolve(d, extra, Postfix) \in Nat \ {0}
<1>1. d.bits \in 0..24 /\ d.value \in Nat \ {0}
  BY DEF DistanceRecords
<1>2. 2 ^ d.bits \in Nat \ {0}
  BY <1>1, PowerPositive
<1>3. extra \in Nat
  BY <1>2 DEF ExtraEnds
<1>4. Postfix \in 0..24
  BY DistanceAssumption
<1>5. 2 ^ Postfix \in Nat \ {0}
  BY <1>4, PowerPositive
<1>6. extra * (2 ^ Postfix) \in Nat
  BY <1>3, <1>5
<1>7. QED
  BY <1>1, <1>6 DEF Resolve

(* A dictionary word is a run of letters.                                  *)
LEMMA WordIs ==
  ASSUME NEW value \in Nat, NEW length \in Nat, Reach \in Nat, value > Reach,
         HasWord(value, length)
  PROVE  Word(value, length) \in Seq(Letters) /\ Len(Word(value, length)) \in Nat
<1> DEFINE a == Address(value)
           p == 2 ^ SizeBits[length]
           x == TransformIndex(value, length)
           t == Transforms[x + 1]
           start  == Least(t.omitFirst, length)
           finish == length - Least(t.omitLast, length)
           kept   == IF start < finish THEN finish - start ELSE 0
           size   == t.prefix + kept + t.suffix
           f == [i \in 1..size |-> <<length, WordIndex(value, length), x, i>>]
<1>1. p \in Nat \ {0} /\ length \in DOMAIN SizeBits
  <2>1. length \in DOMAIN SizeBits
    BY DEF HasWord
  <2>2. SizeBits[length] \in 0..24
    BY <2>1, DictionaryAssumption
  <2>3. QED
    BY <2>1, <2>2, PowerPositive
<1>2. a \in Nat
  BY DEF Address
<1>3. x = a \div p /\ WordIndex(value, length) = a % p
  BY DEF TransformIndex, WordIndex
<1>4. x \in Nat /\ WordIndex(value, length) \in Nat
  <2> HIDE DEF a, p, x
  <2>1. a \div p \in Nat /\ a % p \in 0..(p - 1)
    BY <1>1, <1>2, DivMod
  <2>2. a % p \in Nat
    BY <2>1, <1>1
  <2>3. QED
    BY <1>3, <2>1, <2>2
<1>5. x + 1 \in 1..Len(Transforms)
  <2>1. x < Len(Transforms) /\ Len(Transforms) \in Nat
    BY DictionaryAssumption DEF HasWord
  <2> HIDE DEF x
  <2>2. QED
    BY <1>4, <2>1
<1> HIDE DEF x
<1>6. t \in [prefix : Nat, omitFirst : Nat, omitLast : Nat, suffix : Nat]
  BY <1>5, DictionaryAssumption, ElementOfSeq
<1>7. Word(value, length) = f
  BY Zenon DEF Word, x
<1> HIDE DEF t
<1>8. start \in Nat /\ finish \in Nat
  BY <1>6 DEF Least
<1> HIDE DEF start, finish
<1>9. kept \in Nat
  BY <1>8
<1> HIDE DEF kept
<1>10. size \in Nat
  BY <1>6, <1>9
<1> HIDE DEF size
<1>11. \A i \in 1..size : <<length, WordIndex(value, length), x, i>> \in Letters
  <2> SUFFICES ASSUME NEW i \in 1..size
               PROVE <<length, WordIndex(value, length), x, i>> \in Letters
    OBVIOUS
  <2>1. i \in Nat
    BY <1>10
  <2> DEFINE w == WordIndex(value, length)
  <2>2. w \in Nat
    BY <1>4
  <2> HIDE DEF w
  <2>3. <<length, w, x, i>> \in Nat \X Nat \X Nat \X Nat
    BY <1>4, <2>1, <2>2
  <2>4. QED
    BY <2>3, Zenon DEF Letters, w
<1>12. f \in [1..size -> Letters]
  BY <1>11
<1>13. QED
  BY <1>7, <1>10, <1>12, Listed

-----------------------------------------------------------------------------
(* The inductive invariant.                                                *)

(* What nearly every step needs of it.                                     *)
LEMMA Facts ==
  ASSUME IInv
  PROVE  /\ TypeOK /\ Records /\ DistancesReach /\ OwedSuffices /\ RestFollows
         /\ Len(out) \in Nat /\ Len(meaning) \in Nat /\ remaining \in Nat
         /\ Reach \in Nat /\ Reach <= Len(out)
<1>1. TypeOK /\ Records /\ DistancesReach /\ OwedSuffices /\ RestFollows
  BY DEF IInv
<1>2. out \in Seq(Letters) /\ meaning \in Seq(Letters) /\ remaining \in Nat
  BY <1>1 DEF Records, TypeOK
<1>3. Len(out) \in Nat /\ Len(meaning) \in Nat
  BY <1>2
<1>4. Reach \in Nat /\ Reach <= Len(out)
  BY <1>3, WindowAssumption DEF Reach, Least
<1>5. QED
  BY <1>1, <1>2, <1>3, <1>4

LEMMA InitIInv == MetaBlockInit => IInv
<1> SUFFICES ASSUME MetaBlockInit PROVE IInv
  OBVIOUS
<1> USE BoundAssumption
    DEF MetaBlockInit, Init, NoCommand, NoCopy, NoDistance, NoDictionary, InitialRing
<1>1. TypeOK
  BY DEF TypeOK, Phases, Statuses
<1>2. Records
  BY DEF Records
<1>3. DistancesReach
  BY DEF DistancesReach
<1>4. OwedSuffices /\ RestFollows
  BY DEF OwedSuffices, RestFollows
<1>5. QED
  BY <1>1, <1>2, <1>3, <1>4 DEF IInv

(* Reads that feed a block switch or a header, and returns: nothing but     *)
(* the call, the blocks and the stage of the metablock changes.            *)
LEMMA Quiet ==
  ASSUME IInv,
         UNCHANGED <<phase, command, copy, distance, dictionary, remaining, trees, recent, out,
                     end, meaning>>,
         space' \in 0..MaxSpace, fed' \in 0..MaxReads, status' \in Statuses,
         status' \in {"run", "NeedInput", "NeedOutput", "Done"}
           => status \in {"run", "NeedInput", "NeedOutput", "Done"},
         state' \in {"Header", "Trees", "Data", "Done"},
         state' \in {"Header", "Trees"} => announced' \in Lengths,
         state' # "Data" => phase = "Done"
  PROVE  IInv'
<1> USE DEF IInv
<1>1. TypeOK'
  BY DEF TypeOK
<1>2. Records'
  BY DEF Records
<1>3. DistancesReach'
  BY DEF DistancesReach, Reach
<1>4. OwedSuffices'
  BY DEF OwedSuffices
<1>5. RestFollows'
  BY DEF RestFollows
<1>6. QED
  BY <1>1, <1>2, <1>3, <1>4, <1>5

LEMMA PaysIs ==
  ASSUME IInv, NEW free, Pays(free)
  PROVE  fed' \in 0..MaxReads
BY BoundAssumption DEF IInv, TypeOK, Pays, Starves

LEMMA ReadsIs ==
  ASSUME IInv, NEW free, Reads(free)
  PROVE  fed' \in 0..MaxReads /\ space' = space /\ space' \in 0..MaxSpace
BY PaysIs DEF IInv, TypeOK, Reads

LEMMA ReadFieldStep ==
  ASSUME IInv, ReadField
  PROVE  IInv'
<1>1. fed' \in 0..MaxReads /\ space' \in 0..MaxSpace
  BY ReadsIs DEF ReadField
<1>2. QED
  BY <1>1, Quiet, Facts DEF ReadField, InFields, block, ghost, metaBlock, TypeOK, Records, OwedSuffices

LEMMA EndHeaderStep ==
  ASSUME IInv, EndHeader
  PROVE  IInv'
<1>1. fed' \in 0..MaxReads /\ space' \in 0..MaxSpace
  BY ReadsIs DEF EndHeader
<1>2. QED
  BY <1>1, Quiet, Facts DEF EndHeader, InFields, block, ghost, metaBlock, TypeOK, OwedSuffices

LEMMA FieldsStopStep ==
  ASSUME IInv, FieldStarves \/ FieldsWrong
  PROVE  IInv'
<1>1. /\ UNCHANGED <<block, recent, out, fed, space, ghost, metaBlock>>
      /\ status' \in {"NeedInput", "Header", "Trees"} /\ status = "run"
  BY DEF FieldStarves, FieldsWrong, InFields, Return
<1>2. QED
  BY <1>1, Quiet, Facts DEF block, ghost, metaBlock, TypeOK, Records, OwedSuffices, Statuses

LEMMA NextMetaBlockStep ==
  ASSUME IInv, NEW length \in Lengths, NextMetaBlock(length)
  PROVE  IInv'
BY Quiet, Facts DEF NextMetaBlock, block, ghost, TypeOK, OwedSuffices, Statuses

LEMMA ResumeStep ==
  ASSUME IInv, NEW i \in 0..MaxReads, NEW s \in 0..MaxSpace, Resume(i, s)
  PROVE  IInv'
<1>1. fed' \in 0..MaxReads
  <2>1. fed \in 0..MaxReads /\ MaxReads \in Nat
    BY Facts, BoundAssumption DEF TypeOK
  <2>2. fed' = fed + i /\ fed + i <= MaxReads
    BY DEF Resume, Call
  <2>3. fed + i \in 0..MaxReads
    BY <2>1, <2>2
  <2>4. QED
    BY <2>2, <2>3
<1>2. QED
  BY <1>1, Quiet, Facts DEF Resume, Call, block, ghost, metaBlock, TypeOK, Records, OwedSuffices, Statuses

(* CompressedBlock::new.                                                   *)
LEMMA EndTreesStep ==
  ASSUME IInv, EndTrees
  PROVE  IInv'
<1> USE DEF EndTrees, InFields, NewBlock, NoCommand, NoCopy, NoDistance, NoDictionary
<1>1. fed' \in 0..MaxReads /\ space' \in 0..MaxSpace
  BY ReadsIs
<1>2. announced \in Lengths /\ announced \in Nat \ {0} /\ phase = "Done"
  BY Facts, BoundAssumption DEF OwedSuffices
<1>3. TypeOK'
  BY <1>1, <1>2, Facts DEF TypeOK, Phases
<1>4. Records'
  BY Facts DEF Records
<1>5. DistancesReach'
  BY Facts DEF DistancesReach
<1>6. OwedSuffices'
  BY <1>2, Facts DEF OwedSuffices
<1>7. RestFollows'
  BY <1>2, Facts DEF RestFollows
<1>8. QED
  BY <1>3, <1>4, <1>5, <1>6, <1>7 DEF IInv

(* A call of CompressedBlock::process goes on within the data.             *)
InData == /\ state = "Data"
          /\ state' = IF status' = "Done" THEN "Done" ELSE "Data"
          /\ UNCHANGED announced

LEMMA StaysInData ==
  ASSUME InData, status' # "Done"
  PROVE  state' = "Data" /\ state' \in {"Header", "Trees", "Data", "Done"}
BY DEF InData

LEMMA SwitchStep ==
  ASSUME IInv, InData, NEW kind \in Kinds, SwitchType(kind) \/ SwitchLength(kind) \/ SwitchExtra(kind)
  PROVE  IInv'
<1>1. PICK free : Reads(free)
  BY DEF SwitchType, SwitchLength, SwitchExtra
<1>2. PICK b : Switch(kind, b)
  BY DEF SwitchType, SwitchLength, SwitchExtra
<1>3. fed' \in 0..MaxReads /\ space' \in 0..MaxSpace
  BY <1>1, ReadsIs
<1>4. kind \in NextKind => status = "run"
  BY DEF NextKind, At
<1>5. status = "run"
  BY <1>4 DEF SwitchType, SwitchLength, SwitchExtra
<1>6. QED
  BY <1>2, <1>3, <1>5, Quiet, Facts, StaysInData DEF Switch, ghost, TypeOK, Statuses

LEMMA ReturnStep ==
  ASSUME IInv, InData, NeedInput \/ NeedOutput \/ Done
  PROVE  IInv'
<1>1. /\ UNCHANGED <<block, recent, out, fed, space, ghost>>
      /\ \/ status' = "NeedInput" \/ status' = "NeedOutput"
         \/ status' = "Done" /\ phase = "Done"
  BY DEF NeedInput, NeedOutput, Done, Return, At
<1>2. status = "run"
  BY DEF NeedInput, NeedOutput, OutputFull, Done, At, NextKind
<1>3. state' = "Data" \/ (state' = "Done" /\ phase = "Done")
  <2>1. CASE status' = "Done"
    BY <1>1, <2>1 DEF InData
  <2>2. CASE status' # "Done"
    BY <2>2, StaysInData
  <2>3. QED
    BY <2>1, <2>2
<1>4. QED
  BY <1>1, <1>2, <1>3, Quiet, Facts DEF block, ghost, TypeOK, Statuses

(* Steps that change the phase and the decoders, and put out nothing.      *)
LEMMA EndStep ==
  ASSUME IInv, InData, EndAtCommand \/ EndAtLiterals
  PROVE  IInv'
<1>1. /\ phase' = "Done" /\ phase \in {"Command", "Literals"} /\ remaining = 0
      /\ status = "run" /\ status' = "run"
      /\ UNCHANGED <<command, copy, distance, dictionary, remaining, trees, recent, out,
                     fed, space, ghost>>
  BY DEF EndAtCommand, EndAtLiterals, At, call
<1>2. state' = "Data"
  BY <1>1, StaysInData
<1> USE Facts, <1>1 DEF ghost
<1>3. TypeOK'
  BY DEF TypeOK, Phases
<1>4. Records'
  BY <1>2 DEF Records
<1>5. DistancesReach'
  BY DEF DistancesReach, Reach
<1>6. OwedSuffices'
  BY <1>2 DEF OwedSuffices
<1>7. RestFollows'
  BY DEF RestFollows
<1>8. QED
  BY <1>3, <1>4, <1>5, <1>6, <1>7 DEF IInv

LEMMA PhaseStep ==
  ASSUME IInv, InData, ExplicitDistance \/ EndCopy
  PROVE  IInv'
<1>1. /\ \/ phase = "Literals" /\ phase' = "Distance" /\ remaining # 0
         \/ phase = "Copy" /\ phase' = "Command" /\ copy.left = 0
      /\ status = "run" /\ status' = "run"
      /\ UNCHANGED <<command, copy, distance, dictionary, remaining, trees, recent, out,
                     fed, space, ghost>>
  BY DEF ExplicitDistance, EndCopy, At, call
<1>2. state' = "Data" /\ state = "Data"
  BY <1>1, StaysInData DEF InData
<1>3. meaning = out
  <2>1. CASE phase = "Literals"
    BY <2>1, Facts DEF RestFollows
  <2>2. CASE phase = "Copy" /\ copy.left = 0
    <3>1. meaning = Overlap(out, copy.distance, 0) /\ copy.distance \in 1..Len(out)
      BY <2>2, Facts DEF RestFollows, DistancesReach
    <3>2. QED
      BY <3>1, Facts, OverlapNothing DEF Records
  <2>3. QED
    BY <1>1, <2>1, <2>2
<1> USE Facts, <1>1 DEF ghost
<1>4. TypeOK'
  BY DEF TypeOK, Phases
<1>5. Records'
  BY <1>2 DEF Records
<1>6. DistancesReach'
  BY DEF DistancesReach, Reach
<1>7. OwedSuffices'
  BY <1>2 DEF OwedSuffices
<1>8. RestFollows'
  BY <1>3 DEF RestFollows
<1>9. QED
  BY <1>4, <1>5, <1>6, <1>7, <1>8 DEF IInv

LEMMA ReadCommandStep ==
  ASSUME IInv, InData, ReadCommand
  PROVE  IInv'
<1>1. At("Command") /\ remaining # 0
  BY DEF ReadCommand, Settled, NextKind, At
<1>2. fed' \in 0..MaxReads /\ space' \in 0..MaxSpace
  BY ReadsIs DEF ReadCommand
<1>3. PICK symbol \in trees.command :
        command' = [state |-> "insert", insert |-> symbol.insert,
                    insertBits |-> symbol.insertBits, copy |-> symbol.copy,
                    copyBits |-> symbol.copyBits, implicit |-> symbol.implicit]
  BY DEF ReadCommand
<1>4. symbol \in [insert : Nat, insertBits : Nat, copy : Nat \ {0, 1}, copyBits : Nat,
                  implicit : BOOLEAN]
  BY CommandAssumption, Facts DEF Records
<1>5. state' = "Data" /\ state = "Data"
  BY <1>1, StaysInData DEF ReadCommand, InData, At
<1> USE Facts, <1>1 DEF ReadCommand, At, ghost
<1>6. TypeOK'
  BY <1>2, <1>3, <1>4 DEF TypeOK, Phases
<1>7. Records'
  BY <1>3, <1>4, <1>5 DEF Records
<1>8. DistancesReach'
  BY DEF DistancesReach, Reach
<1>9. OwedSuffices'
  BY <1>5 DEF OwedSuffices
<1>10. RestFollows'
  BY DEF RestFollows
<1>11. QED
  BY <1>6, <1>7, <1>8, <1>9, <1>10 DEF IInv

LEMMA InsertExtraStep ==
  ASSUME IInv, InData, InsertExtra
  PROVE  IInv'
<1>1. fed' \in 0..MaxReads /\ space' \in 0..MaxSpace
  BY ReadsIs DEF InsertExtra
<1>2. PICK extra \in 0..(2 ^ command.insertBits - 1) :
        command' = [command EXCEPT !.state = "copy", !.insert = command.insert + extra,
                                   !.insertBits = 0]
  BY DEF InsertExtra
<1>3. extra \in Nat /\ command.insert \in Nat /\ command.insert + extra \in Nat
  <2>1. extra \in Nat
    OBVIOUS
  <2>2. command.insert \in Nat
    BY Facts DEF TypeOK
  <2>3. QED
    BY <2>1, <2>2
<1>4. state' = "Data" /\ state = "Data"
  BY StaysInData DEF InsertExtra, InData, At
<1> USE Facts DEF InsertExtra, At, ghost
<1>5. Records'
  BY <1>2, <1>3, <1>4 DEF Records
<1>6. TypeOK'
  BY <1>1, <1>2, <1>3 DEF TypeOK, Phases, Records
<1>7. DistancesReach'
  BY DEF DistancesReach, Reach
<1>8. OwedSuffices'
  BY <1>4 DEF OwedSuffices
<1>9. RestFollows'
  BY DEF RestFollows
<1>10. QED
  BY <1>5, <1>6, <1>7, <1>8, <1>9 DEF IInv

LEMMA CopyExtraStep ==
  ASSUME IInv, InData, CopyExtra
  PROVE  IInv'
<1>1. fed' \in 0..MaxReads /\ space' \in 0..MaxSpace
  BY ReadsIs DEF CopyExtra
<1>2. PICK extra \in 0..(2 ^ command.copyBits - 1) :
        command' = [command EXCEPT !.state = "none", !.copy = command.copy + extra,
                                   !.copyBits = 0]
  BY DEF CopyExtra
<1>3. extra \in Nat /\ command.copy \in Nat /\ command.copy + extra \in Nat
  <2>1. extra \in Nat
    OBVIOUS
  <2>2. command.copy \in Nat
    BY Facts DEF TypeOK
  <2>3. QED
    BY <2>1, <2>2
<1>4. \/ phase' = "Literals" /\ command.insert <= remaining /\ status' = "run"
      \/ phase' = phase /\ status' = "MetaBlockOverflow"
  BY DEF CopyExtra, Fits, At
<1>5. state' = "Data" /\ state = "Data"
  BY <1>4, StaysInData DEF InData
<1> USE Facts DEF CopyExtra, At, ghost
<1>6. Records'
  BY <1>2, <1>3, <1>5 DEF Records
<1>7. TypeOK'
  BY <1>1, <1>2, <1>3, <1>4 DEF TypeOK, Phases, Records, Statuses
<1>8. DistancesReach'
  BY <1>4 DEF DistancesReach, Reach
<1>9. OwedSuffices'
  BY <1>2, <1>4, <1>5 DEF OwedSuffices, Records
<1>10. RestFollows'
  BY <1>4 DEF RestFollows
<1>11. QED
  BY <1>6, <1>7, <1>8, <1>9, <1>10 DEF IInv

LEMMA ReadDistanceStep ==
  ASSUME IInv, InData, ReadDistance
  PROVE  IInv'
<1>1. At("Distance")
  BY DEF ReadDistance, Settled, NextKind, At
<1>2. fed' \in 0..MaxReads /\ space' \in 0..MaxSpace
  BY ReadsIs DEF ReadDistance
<1>3. PICK symbol \in trees.distance :
        IF InvalidShort(recent, symbol)
          THEN status' = "DistanceError" /\ UNCHANGED <<phase, distance>>
          ELSE /\ distance' = NewDistance(recent, symbol, Postfix, Direct)
               /\ phase' = "DistanceExtra" /\ UNCHANGED status
  BY DEF ReadDistance
<1>4. symbol \in 0..(AlphabetSize(Postfix, Direct) - 1) /\ recent \in [1..4 -> Nat]
  BY DistanceAssumption, Facts DEF Records, TypeOK
<1>5. \/ status' = "DistanceError" /\ UNCHANGED <<phase, distance>>
      \/ /\ distance' \in DistanceRecords /\ distance'.state # "none" /\ distance'.value # 0
         /\ phase' = "DistanceExtra" /\ status' = "run"
  BY <1>1, <1>3, <1>4, DistanceIs DEF At
<1>6. state' = "Data" /\ state = "Data"
  BY <1>5, StaysInData DEF InData
<1> USE Facts, <1>1 DEF ReadDistance, At, ghost
<1>7. TypeOK'
  BY <1>2, <1>5 DEF TypeOK, Phases, Statuses
<1>8. Records'
  BY <1>5, <1>6 DEF Records, DistanceRecords
<1>9. DistancesReach'
  BY <1>5 DEF DistancesReach, Reach
<1>10. OwedSuffices'
  BY <1>5, <1>6 DEF OwedSuffices
<1>11. RestFollows'
  BY <1>5 DEF RestFollows
<1>12. QED
  BY <1>7, <1>8, <1>9, <1>10, <1>11 DEF IInv

-----------------------------------------------------------------------------
(* What a distance begins.                                                 *)

LEMMA PushedKeeps ==
  ASSUME NEW S, NEW ring \in [1..4 -> S], NEW value \in S
  PROVE  Pushed(ring, value) \in [1..4 -> S]
<1> DEFINE t == SubSeq(ring, 1, 3)
           p == <<value>> \o t
<1>1. ring \in Seq(S) /\ Len(ring) = 4
  <2> DEFINE n == 4
  <2>1. n \in Nat /\ ring \in [1..n -> S]
    OBVIOUS
  <2> HIDE DEF n
  <2>2. ring \in Seq(S) /\ Len(ring) = n
    BY <2>1, Listed
  <2>3. QED
    BY <2>2 DEF n
<1>2. t \in Seq(S) /\ Len(t) = 3
  BY <1>1
<1> HIDE DEF t
<1>3. p \in Seq(S) /\ Len(p) = 4
  <2> DEFINE u == <<value>>
  <2>1. u \in Seq(S) /\ Len(u) = 1
    OBVIOUS
  <2> HIDE DEF u
  <2>2. u \o t \in Seq(S) /\ Len(u \o t) = Len(u) + Len(t)
    BY <1>2, <2>1, ConcatProperties
  <2>3. QED
    BY <1>2, <2>1, <2>2 DEF u
<1> HIDE DEF p
<1>4. p \in [1..4 -> S]
  <2>1. p \in [1..Len(p) -> S]
    BY <1>3, LenProperties
  <2>2. QED
    BY <1>3, <2>1
<1>5. QED
  BY <1>4 DEF p, t, Pushed

LEMMA PushedIs ==
  ASSUME NEW ring \in [1..4 -> Nat], \A i \in 1..4 : ring[i] # 0, NEW value \in Nat \ {0}
  PROVE  Pushed(ring, value) \in [1..4 -> Nat] /\ \A i \in 1..4 : Pushed(ring, value)[i] # 0
<1>1. ring \in [1..4 -> Nat \ {0}]
  OBVIOUS
<1>2. Pushed(ring, value) \in [1..4 -> Nat \ {0}]
  BY <1>1, PushedKeeps
<1>3. QED
  BY <1>2

LEMMA WholeWord ==
  ASSUME NEW S, NEW s \in Seq(S)
  PROVE  SubSeq(s, 0 + 1, Len(s)) = s
OBVIOUS

(* begin_copy refuses, or begins a word or a copy that the metablock owes. *)
LEMMA BeginsOne ==
  ASSUME IInv, status = "run", phase \in {"Literals", "DistanceExtra"},
         NEW value \in Nat \ {0}, NEW length \in Nat, NEW fresh,
         BeginCopy(length, value, fresh)
  PROVE  \/ /\ status' \in {"MetaBlockOverflow", "DictionaryError"}
            /\ UNCHANGED <<phase, copy, dictionary, meaning>>
         \/ /\ status' = "run" /\ phase' = "Dictionary" /\ UNCHANGED copy
            /\ \E w \in Seq(Letters) :
                 /\ dictionary' = [held |-> TRUE, bytes |-> w, offset |-> 0]
                 /\ Len(w) <= remaining /\ meaning' = out \o w
         \/ /\ status' = "run" /\ phase' = "Copy" /\ UNCHANGED dictionary
            /\ copy' = [left |-> length, distance |-> value]
            /\ value \in 1..Reach /\ length <= remaining
            /\ meaning' = Overlap(out, value, length)
<1>1. meaning = out
  BY Facts DEF RestFollows
<1>2. CASE value > Reach /\ ~ HasWord(value, length) /\ Refuse("DictionaryError")
  BY <1>2 DEF Refuse
<1>3. CASE value > Reach /\ HasWord(value, length)
           /\ ~ Fits(Len(Word(value, length))) /\ Refuse("MetaBlockOverflow")
  BY <1>3 DEF Refuse
<1>4. CASE /\ value > Reach /\ HasWord(value, length) /\ Fits(Len(Word(value, length)))
           /\ dictionary' = [held |-> TRUE, bytes |-> Word(value, length), offset |-> 0]
           /\ phase' = "Dictionary" /\ meaning' = meaning \o Word(value, length)
           /\ UNCHANGED <<copy, named, status>>
  <2>1. Word(value, length) \in Seq(Letters)
    BY <1>4, Facts, WordIs
  <2>2. QED
    BY <1>1, <1>4, <2>1 DEF Fits
<1>5. CASE value <= Reach /\ ~ Fits(length) /\ Refuse("MetaBlockOverflow")
  BY <1>5 DEF Refuse
<1>6. CASE /\ value <= Reach /\ Fits(length)
           /\ copy' = [left |-> length, distance |-> value] /\ phase' = "Copy"
           /\ meaning' = Overlap(meaning, value, length)
           /\ UNCHANGED <<dictionary, status>>
  <2>1. value \in 1..Reach
    BY <1>6, Facts
  <2>2. QED
    BY <1>1, <1>6, <2>1 DEF Fits
<1>7. QED
  BY <1>2, <1>3, <1>4, <1>5, <1>6 DEF BeginCopy

LEMMA BeginStep ==
  ASSUME IInv, InData, status = "run", phase \in {"Literals", "DistanceExtra"}, remaining # 0,
         NEW value \in Nat \ {0}, NEW length \in Nat, NEW fresh,
         BeginCopy(length, value, fresh),
         UNCHANGED <<command, remaining, trees, out, end>>,
         fed' \in 0..MaxReads, space' \in 0..MaxSpace,
         \/ phase = "Literals" /\ distance' = distance
         \/ phase = "DistanceExtra" /\ distance' = NoDistance,
         recent' \in [1..4 -> Nat], \A i \in 1..4 : recent'[i] # 0
  PROVE  IInv'
<1>1. /\ distance'.state = "none" /\ command.state = "none" /\ ~ dictionary.held
      /\ distance' \in DistanceRecords
  <2>1. phase = "Literals" => distance.state = "none"
    BY Facts DEF TypeOK
  <2>2. distance \in DistanceRecords
    BY Facts DEF Records, DistanceRecords
  <2>3. NoDistance \in DistanceRecords /\ NoDistance.state = "none"
    BY DEF DistanceRecords, NoDistance
  <2>4. command.state = "none"
    BY Facts DEF TypeOK
  <2>5. ~ dictionary.held
    BY Facts DEF TypeOK
  <2>6. QED
    BY <2>1, <2>2, <2>3, <2>4, <2>5
<1>2. Len(out) \in Nat /\ out \in Seq(Letters) /\ meaning = out
  BY Facts DEF Records, RestFollows
<1>3. CASE /\ status' \in {"MetaBlockOverflow", "DictionaryError"}
           /\ UNCHANGED <<phase, copy, dictionary, meaning>>
  <2>1. state' = "Data" /\ state = "Data"
    BY <1>3, StaysInData DEF InData
  <2> USE Facts, <1>1, <1>3
  <2>2. TypeOK'
    BY DEF TypeOK, Statuses
  <2>3. Records'
    BY <2>1 DEF Records, DistanceRecords
  <2>4. DistancesReach' /\ OwedSuffices'
    BY <2>1 DEF DistancesReach, OwedSuffices
  <2>5. RestFollows'
    BY DEF RestFollows
  <2>6. QED
    BY <2>2, <2>3, <2>4, <2>5 DEF IInv
<1>4. CASE /\ status' = "run" /\ phase' = "Dictionary" /\ UNCHANGED copy
           /\ \E w \in Seq(Letters) :
                /\ dictionary' = [held |-> TRUE, bytes |-> w, offset |-> 0]
                /\ Len(w) <= remaining /\ meaning' = out \o w
  <2>1. state' = "Data" /\ state = "Data"
    BY <1>4, StaysInData DEF InData
  <2>2. PICK w \in Seq(Letters) :
          /\ dictionary' = [held |-> TRUE, bytes |-> w, offset |-> 0]
          /\ Len(w) <= remaining /\ meaning' = out \o w
    BY <1>4
  <2>3. Len(w) \in Nat /\ out \o w \in Seq(Letters)
    BY <1>2
  <2> USE Facts, <1>1, <1>4, <2>2, <2>3
  <2>4. TypeOK'
    BY DEF TypeOK, Statuses, Phases
  <2>5. Records'
    BY <2>1, <1>2 DEF Records, DistanceRecords
  <2>6. DistancesReach' /\ OwedSuffices'
    BY <2>1 DEF DistancesReach, OwedSuffices
  <2>7. meaning' = out \o SubSeq(w, 0 + 1, Len(w))
    BY WholeWord
  <2>8. RestFollows'
    BY <2>7 DEF RestFollows
  <2>9. QED
    BY <2>4, <2>5, <2>6, <2>8 DEF IInv
<1>5. CASE /\ status' = "run" /\ phase' = "Copy" /\ UNCHANGED dictionary
           /\ copy' = [left |-> length, distance |-> value]
           /\ value \in 1..Reach /\ length <= remaining
           /\ meaning' = Overlap(out, value, length)
  <2>1. state' = "Data" /\ state = "Data"
    BY <1>5, StaysInData DEF InData
  <2>2. value \in 1..Len(out)
    BY <1>5, Facts
  <2>3. meaning' \in Seq(Letters)
    BY <1>2, <1>5, <2>2, OverlapIs
  <2> USE Facts, <1>1, <1>5
  <2>4. TypeOK'
    BY DEF TypeOK, Statuses, Phases
  <2>5. Records'
    BY <2>1, <2>3, <1>2 DEF Records, DistanceRecords
  <2>6. DistancesReach'
    BY DEF DistancesReach, Reach
  <2>7. OwedSuffices'
    BY <2>1 DEF OwedSuffices
  <2>8. RestFollows'
    BY DEF RestFollows
  <2>9. QED
    BY <2>4, <2>5, <2>6, <2>7, <2>8 DEF IInv
<1>6. QED
  BY <1>3, <1>4, <1>5, BeginsOne

LEMMA ImplicitDistanceStep ==
  ASSUME IInv, InData, ImplicitDistance
  PROVE  IInv'
<1>1. recent \in [1..4 -> Nat] /\ \A i \in 1..4 : recent[i] # 0
  BY Facts DEF TypeOK, DistancesReach
<1>2. recent[1] \in Nat \ {0} /\ command.copy \in Nat
  BY <1>1, Facts DEF TypeOK
<1>3. /\ status = "run" /\ phase = "Literals" /\ remaining # 0
      /\ BeginCopy(command.copy, recent[1], FALSE)
      /\ UNCHANGED <<command, distance, remaining, trees, recent, out, fed, space, end>>
  BY DEF ImplicitDistance, At
<1>4. fed' \in 0..MaxReads /\ space' \in 0..MaxSpace
  BY <1>3, Facts DEF TypeOK
<1>5. QED
  BY <1>1, <1>2, <1>3, <1>4, BeginStep

LEMMA DistanceExtraStep ==
  ASSUME IInv, InData, DistanceExtra
  PROVE  IInv'
<1>1. recent \in [1..4 -> Nat] /\ \A i \in 1..4 : recent[i] # 0
  BY Facts DEF TypeOK, DistancesReach
<1>2. /\ status = "run" /\ phase = "DistanceExtra" /\ distance' = NoDistance
      /\ UNCHANGED <<command, remaining, trees, out, end>>
  BY DEF DistanceExtra, At
<1>3. fed' \in 0..MaxReads /\ space' \in 0..MaxSpace
  BY ReadsIs DEF DistanceExtra
<1>4. /\ distance \in DistanceRecords /\ distance.value # 0 /\ command.copy \in Nat
      /\ remaining # 0
  BY <1>2, Facts DEF TypeOK, Records, DistancesReach, OwedSuffices, DistanceRecords
<1>5. PICK extra \in ExtraEnds(distance.bits) :
        /\ BeginCopy(command.copy, Resolve(distance, extra, Postfix), distance.symbol # 0)
        /\ recent' = Remember(Resolve(distance, extra, Postfix), phase' = "Copy")
  BY DEF DistanceExtra
<1> DEFINE value == Resolve(distance, extra, Postfix)
<1>6. value \in Nat \ {0}
  BY <1>4, ResolveIs
<1>7. BeginCopy(command.copy, value, distance.symbol # 0)
  BY <1>5
<1>8. recent' = recent \/ recent' = Pushed(recent, value)
  BY <1>5 DEF Remember
<1> HIDE DEF value
<1>9. recent' \in [1..4 -> Nat] /\ \A i \in 1..4 : recent'[i] # 0
  <2>1. CASE recent' = recent
    BY <1>1, <2>1
  <2>2. CASE recent' = Pushed(recent, value)
    BY <1>1, <1>6, <2>2, PushedIs
  <2>3. QED
    BY <1>8, <2>1, <2>2
<1>10. QED
  BY <1>2, <1>3, <1>4, <1>6, <1>7, <1>9, BeginStep

-----------------------------------------------------------------------------
(* Bytes into the output.                                                  *)

(* What becomes of the totals and of the reach when n bytes are put out.   *)
LEMMA Produced ==
  ASSUME IInv, NEW n \in Nat, n <= remaining, n <= space,
         NEW t \in Seq(Letters), Len(t) = n,
         out' = out \o t, remaining' = remaining - n, space' = space - n, end' = end
  PROVE  /\ out' \in Seq(Letters) /\ Len(out') = Len(out) + n
         /\ remaining' \in Nat /\ space' \in 0..MaxSpace /\ Len(out') + remaining' = end'
         /\ \A d : d \in 1..Reach => d \in 1..Reach'
<1>1. out \in Seq(Letters) /\ Len(out) \in Nat /\ remaining \in Nat /\ space \in 0..MaxSpace
      /\ Len(out) + remaining = end
  BY Facts DEF Records, TypeOK, OwedSuffices
<1>2. out \o t \in Seq(Letters) /\ Len(out \o t) = Len(out) + Len(t)
  BY <1>1, ConcatProperties
<1>3. Len(out \o t) = Len(out) + n
  BY <1>2
<1>4. remaining - n \in Nat /\ space - n \in 0..MaxSpace
      /\ (Len(out) + n) + (remaining - n) = end
  BY <1>1, BoundAssumption
<1>5. Len(out') = Len(out) + n
  BY <1>3
<1>6. Least(Len(out), WindowSize) <= Least(Len(out) + n, WindowSize)
      /\ Least(Len(out) + n, WindowSize) \in Nat
  BY <1>1, WindowAssumption DEF Least
<1>7. Reach' = Least(Len(out) + n, WindowSize)
  BY <1>5 DEF Reach
<1>8. \A d : d \in 1..Reach => d \in 1..Least(Len(out) + n, WindowSize)
  BY <1>6, Facts DEF Reach
<1>9. QED
  BY <1>2, <1>4, <1>5, <1>7, <1>8

LEMMA ReadLiteralStep ==
  ASSUME IInv, InData, ReadLiteral
  PROVE  IInv'
<1>1. status = "run" /\ phase = "Literals" /\ command.insert # 0 /\ space # 0
  BY DEF ReadLiteral, Settled, NextKind, At
<1>2. PICK literal \in trees.literal : /\ out' = Append(out, literal)
                                       /\ meaning' = Append(meaning, literal)
  BY DEF ReadLiteral
<1>3. literal \in Letters
  BY Facts DEF Letters, Records
<1> DEFINE t == <<literal>>
<1>4. t \in Seq(Letters) /\ Len(t) = 1
  BY <1>3
<1>5. meaning = out /\ out \in Seq(Letters)
  BY <1>1, Facts DEF RestFollows, Records
<1>6. out' = out \o t /\ meaning' = out'
  <2>1. Append(out, literal) = out \o t
    BY <1>3, <1>5, AppendIsConcat
  <2>2. QED
    BY <1>2, <1>5, <2>1
<1> HIDE DEF t
<1>7. /\ command.insert \in Nat \ {0} /\ command.insert <= remaining /\ remaining \in Nat
      /\ space \in 0..MaxSpace
  BY <1>1, Facts DEF TypeOK, OwedSuffices
<1>8. 1 <= remaining /\ 1 <= space
  BY <1>1, <1>7, BoundAssumption
<1>9. /\ out' \in Seq(Letters) /\ remaining' \in Nat /\ space' \in 0..MaxSpace
      /\ Len(out') + remaining' = end' /\ \A d : d \in 1..Reach => d \in 1..Reach'
  BY <1>4, <1>6, <1>8, Produced DEF ReadLiteral
<1>10. fed' \in 0..MaxReads
  BY PaysIs DEF ReadLiteral
<1>11. /\ command' = [command EXCEPT !.insert = command.insert - 1]
       /\ remaining' = remaining - 1
       /\ UNCHANGED <<phase, copy, distance, dictionary, trees, recent, status>>
  BY DEF ReadLiteral
<1>12. command.insert - 1 \in Nat /\ command.insert - 1 <= remaining - 1
  BY <1>7
<1>13. state' = "Data" /\ state = "Data"
  BY <1>1, <1>11, StaysInData DEF InData
<1> USE Facts, <1>1, <1>9, <1>11
<1>14. Records'
  BY <1>6, <1>12, <1>13 DEF Records
<1>15. TypeOK'
  BY <1>10, <1>12 DEF TypeOK, Records
<1>16. DistancesReach'
  BY DEF DistancesReach
<1>17. OwedSuffices'
  <2>1. command'.insert = command.insert - 1
    BY DEF Records
  <2>2. command'.insert <= remaining'
    BY <1>12, <2>1
  <2>3. QED
    BY <1>13, <2>2 DEF OwedSuffices
<1>18. RestFollows'
  BY <1>6 DEF RestFollows
<1>19. QED
  BY <1>14, <1>15, <1>16, <1>17, <1>18 DEF IInv

(* How many bytes a turn puts out: what is left, or what there is room for.*)
LEMMA LeastIs ==
  ASSUME NEW a \in Nat, NEW b \in Nat
  PROVE  Least(a, b) \in Nat /\ Least(a, b) <= a /\ Least(a, b) <= b
         /\ (a # 0 /\ b # 0 => Least(a, b) # 0)
BY DEF Least

(* A turn of a copy. The window never refuses its distance.                *)
LEMMA CopyTurnIs ==
  ASSUME IInv, CopyTurn
  PROVE  LET n == Least(copy.left, space)
             t == SubSeq(Overlap(out, copy.distance, n), Len(out) + 1, Len(out) + n)
         IN /\ status = "run" /\ status' = "run" /\ phase = "Copy"
            /\ n \in 1..remaining /\ n <= space /\ n <= copy.left
            /\ t \in Seq(Letters) /\ Len(t) = n /\ out \o t = Overlap(out, copy.distance, n)
            /\ out' = out \o t /\ remaining' = remaining - n /\ space' = space - n
            /\ copy' = [copy EXCEPT !.left = copy.left - n]
            /\ UNCHANGED <<phase, command, distance, dictionary, blocks, trees, recent, fed, ghost>>
<1> DEFINE n == Least(copy.left, space)
           t == SubSeq(Overlap(out, copy.distance, n), Len(out) + 1, Len(out) + n)
<1>1. status = "run" /\ phase = "Copy" /\ copy.left # 0 /\ space # 0
  BY DEF CopyTurn, At
<1>2. copy.distance \in 1..Reach /\ copy.left \in Nat /\ space \in Nat /\ copy.left <= remaining
      /\ remaining \in Nat /\ out \in Seq(Letters)
  BY <1>1, Facts DEF DistancesReach, TypeOK, OwedSuffices, Records
<1>3. n \in Nat /\ n <= copy.left /\ n <= space /\ n # 0
  BY <1>1, <1>2, LeastIs
<1>4. copy.distance \in 1..Len(out)
  BY <1>2, Facts
<1>5. /\ Produce(t) /\ copy' = [copy EXCEPT !.left = copy.left - n] /\ UNCHANGED status
      /\ UNCHANGED <<phase, command, distance, dictionary, blocks, trees, recent, fed, ghost>>
  BY <1>2 DEF CopyTurn
<1> HIDE DEF n
<1>6. t \in Seq(Letters) /\ Len(t) = n /\ out \o t = Overlap(out, copy.distance, n)
  BY <1>2, <1>3, <1>4, OverlapTail
<1> HIDE DEF t
<1>7. out' = out \o t /\ remaining' = remaining - n /\ space' = space - n
  BY <1>5, <1>6 DEF Produce
<1>8. n \in 1..remaining
  BY <1>2, <1>3
<1>9. QED
  BY <1>1, <1>3, <1>5, <1>6, <1>7, <1>8 DEF n, t

LEMMA CopyTurnStep ==
  ASSUME IInv, InData, CopyTurn
  PROVE  IInv'
<1> DEFINE n == Least(copy.left, space)
           t == SubSeq(Overlap(out, copy.distance, n), Len(out) + 1, Len(out) + n)
<1>1. /\ status = "run" /\ status' = "run" /\ phase = "Copy"
      /\ n \in 1..remaining /\ n <= space /\ n <= copy.left
      /\ t \in Seq(Letters) /\ Len(t) = n /\ out \o t = Overlap(out, copy.distance, n)
      /\ out' = out \o t /\ remaining' = remaining - n /\ space' = space - n
      /\ copy' = [copy EXCEPT !.left = copy.left - n]
      /\ UNCHANGED <<phase, command, distance, dictionary, blocks, trees, recent, fed, ghost>>
  BY CopyTurnIs, Zenon
<1> HIDE DEF n, t
<1>2. /\ copy.distance \in 1..Reach /\ copy.left \in Nat /\ copy.left <= remaining
      /\ remaining \in Nat /\ out \in Seq(Letters) /\ meaning = Overlap(out, copy.distance, copy.left)
      /\ copy \in [left : Nat, distance : Nat]
  BY <1>1, Facts DEF DistancesReach, TypeOK, OwedSuffices, RestFollows, Records
<1>3. n \in Nat /\ n <= remaining /\ copy.left - n \in Nat /\ copy.left - n <= remaining - n
      /\ n + (copy.left - n) = copy.left
  BY <1>1, <1>2
<1>4. /\ out' \in Seq(Letters) /\ remaining' \in Nat /\ space' \in 0..MaxSpace
      /\ Len(out') + remaining' = end' /\ \A d : d \in 1..Reach => d \in 1..Reach'
  BY <1>1, <1>3, Produced DEF ghost
<1>5. copy.distance \in 1..Len(out)
  BY <1>2, Facts
<1>6. Overlap(Overlap(out, copy.distance, n), copy.distance, copy.left - n)
        = Overlap(out, copy.distance, copy.left)
  BY <1>2, <1>3, <1>5, OverlapSplits
<1>7. copy'.left = copy.left - n /\ copy'.distance = copy.distance
      /\ copy' \in [left : Nat, distance : Nat]
  BY <1>1, <1>2, <1>3
<1>8. meaning' = Overlap(out', copy'.distance, copy'.left)
  BY <1>1, <1>2, <1>6, <1>7 DEF ghost
<1>9. state' = "Data" /\ state = "Data"
  BY <1>1, StaysInData DEF InData
<1> USE Facts, <1>1, <1>4, <1>7 DEF ghost
<1>10. Records'
  BY <1>9 DEF Records
<1>11. TypeOK'
  BY <1>3 DEF TypeOK
<1>12. DistancesReach'
  BY <1>2 DEF DistancesReach
<1>13. OwedSuffices'
  BY <1>3, <1>9 DEF OwedSuffices
<1>14. RestFollows'
  BY <1>8 DEF RestFollows
<1>15. QED
  BY <1>10, <1>11, <1>12, <1>13, <1>14 DEF IInv

(* What is left of a word after its next n bytes.                          *)
LEMMA WordSplits ==
  ASSUME NEW S, NEW s \in Seq(S), NEW w \in Seq(S), NEW k \in Nat, NEW n \in Nat,
         k + n <= Len(w)
  PROVE  (s \o SubSeq(w, k + 1, k + n)) \o SubSeq(w, (k + n) + 1, Len(w))
           = s \o SubSeq(w, k + 1, Len(w))
<1> DEFINE u == SubSeq(w, k + 1, k + n)
           v == SubSeq(w, (k + n) + 1, Len(w))
<1>1. Len(w) \in Nat /\ \A i \in 1..Len(w) : w[i] \in S
  OBVIOUS
<1>2. u \in Seq(S)
  BY Slice
<1>3. v \in Seq(S)
  BY <1>1, (k + n) + (Len(w) - (k + n)) = Len(w), Slice
<1>4. u \o v = SubSeq(w, k + 1, Len(w))
  <2>1. /\ k + 1 \in 1..Len(w) + 1 /\ k + n \in ((k + 1) - 1)..Len(w)
        /\ Len(w) \in (k + n)..Len(w)
    BY <1>1
  <2>2. QED
    BY <2>1, ConcatAdjacentSubSeq
<1> HIDE DEF u, v
<1>5. (s \o u) \o v = s \o (u \o v)
  BY SMTT(30), <1>2, <1>3, ConcatAssociative
<1>6. QED
  BY <1>4, <1>5 DEF u, v

(* A turn of a dictionary word.                                            *)
LEMMA DictionaryTurnIs ==
  ASSUME IInv, DictionaryTurn
  PROVE  LET n == Least(Len(dictionary.bytes) - dictionary.offset, space)
             t == SubSeq(dictionary.bytes, dictionary.offset + 1, dictionary.offset + n)
         IN /\ status = "run" /\ status' = "run" /\ phase = "Dictionary"
            /\ n \in Nat /\ n <= remaining /\ n <= space
            /\ dictionary.offset + n <= Len(dictionary.bytes)
            /\ t \in Seq(Letters) /\ Len(t) = n
            /\ out' = out \o t /\ remaining' = remaining - n /\ space' = space - n
            /\ IF dictionary.offset + n = Len(dictionary.bytes)
                 THEN dictionary' = NoDictionary /\ phase' = "Command"
                 ELSE /\ dictionary' = [dictionary EXCEPT !.offset = dictionary.offset + n]
                      /\ phase' = "Dictionary"
            /\ UNCHANGED <<command, copy, distance, blocks, trees, recent, fed, ghost>>
<1> DEFINE n == Least(Len(dictionary.bytes) - dictionary.offset, space)
           t == SubSeq(dictionary.bytes, dictionary.offset + 1, dictionary.offset + n)
<1>1. status = "run" /\ phase = "Dictionary" /\ space # 0
  BY DEF DictionaryTurn, At
<1>2. /\ dictionary.bytes \in Seq(Letters) /\ dictionary.offset \in Nat
      /\ dictionary.offset <= Len(dictionary.bytes)
      /\ space \in Nat /\ remaining \in Nat
      /\ Len(dictionary.bytes) - dictionary.offset <= remaining
  BY <1>1, Facts DEF TypeOK, OwedSuffices, Records
<1>3. Len(dictionary.bytes) \in Nat /\ Len(dictionary.bytes) - dictionary.offset \in Nat
  BY <1>2
<1>4. n \in Nat /\ n <= Len(dictionary.bytes) - dictionary.offset /\ n <= space
  BY <1>2, <1>3, LeastIs
<1>5. /\ Produce(t) /\ UNCHANGED status
      /\ IF dictionary.offset + n = Len(dictionary.bytes)
           THEN dictionary' = NoDictionary /\ phase' = "Command"
           ELSE /\ dictionary' = [dictionary EXCEPT !.offset = dictionary.offset + n]
                /\ UNCHANGED phase
      /\ UNCHANGED <<command, copy, distance, blocks, trees, recent, fed, ghost>>
  BY DEF DictionaryTurn
<1> HIDE DEF n
<1>6. dictionary.offset + n <= Len(dictionary.bytes) /\ n <= remaining
  BY <1>2, <1>3, <1>4
<1>7. t \in Seq(Letters) /\ Len(t) = n
  BY SMTT(30), <1>2, <1>4, <1>6, Slice
<1> HIDE DEF t
<1>8. out' = out \o t /\ remaining' = remaining - n /\ space' = space - n
  BY <1>5, <1>7 DEF Produce
<1>9. QED
  BY <1>1, <1>4, <1>5, <1>6, <1>7, <1>8 DEF n, t

LEMMA DictionaryTurnStep ==
  ASSUME IInv, InData, DictionaryTurn
  PROVE  IInv'
<1> DEFINE n == Least(Len(dictionary.bytes) - dictionary.offset, space)
           t == SubSeq(dictionary.bytes, dictionary.offset + 1, dictionary.offset + n)
           w == dictionary.bytes
           k == dictionary.offset
<1>1. /\ status = "run" /\ status' = "run" /\ phase = "Dictionary"
      /\ n \in Nat /\ n <= remaining /\ n <= space /\ k + n <= Len(w)
      /\ t \in Seq(Letters) /\ Len(t) = n
      /\ out' = out \o t /\ remaining' = remaining - n /\ space' = space - n
      /\ IF k + n = Len(w)
           THEN dictionary' = NoDictionary /\ phase' = "Command"
           ELSE dictionary' = [dictionary EXCEPT !.offset = k + n] /\ phase' = "Dictionary"
      /\ UNCHANGED <<command, copy, distance, blocks, trees, recent, fed, ghost>>
  BY DictionaryTurnIs, Zenon
<1>2. t = SubSeq(w, k + 1, k + n)
  OBVIOUS
<1> HIDE DEF n, t
<1>3. /\ w \in Seq(Letters) /\ k \in Nat /\ Len(w) \in Nat /\ Len(w) - k <= remaining
      /\ remaining \in Nat /\ out \in Seq(Letters) /\ meaning = out \o SubSeq(w, k + 1, Len(w))
      /\ dictionary \in [held : BOOLEAN, bytes : Seq(Letters), offset : Nat]
      /\ dictionary.held
  <2>1. /\ dictionary \in [held : BOOLEAN, bytes : Seq(Letters), offset : Nat]
        /\ out \in Seq(Letters) /\ remaining \in Nat
    BY Facts DEF Records
  <2>2. w \in Seq(Letters) /\ k \in Nat
    BY <2>1
  <2>3. Len(w) \in Nat
    BY <2>2, LenProperties
  <2>4. Len(w) - k <= remaining
    BY <1>1, Facts DEF OwedSuffices
  <2>5. dictionary.held
    BY <1>1, Facts DEF TypeOK
  <2>6. meaning = out \o SubSeq(w, k + 1, Len(w))
    BY <1>1, Facts DEF RestFollows
  <2>7. QED
    BY <2>1, <2>2, <2>3, <2>4, <2>5, <2>6
<1>4. /\ out' \in Seq(Letters) /\ remaining' \in Nat /\ space' \in 0..MaxSpace
      /\ Len(out') + remaining' = end' /\ \A d : d \in 1..Reach => d \in 1..Reach'
  BY <1>1, Produced DEF ghost
<1>5. meaning = (out \o t) \o SubSeq(w, (k + n) + 1, Len(w))
  <2> HIDE DEF w, k
  <2>1. (out \o t) \o SubSeq(w, (k + n) + 1, Len(w)) = out \o SubSeq(w, k + 1, Len(w))
    <3>1. /\ out \in Seq(Letters) /\ w \in Seq(Letters) /\ k \in Nat /\ n \in Nat
          /\ k + n <= Len(w)
      BY <1>1, <1>3
    <3>2. QED
      BY <1>2, <3>1, WordSplits
  <2>2. QED
    BY <1>3, <2>1
<1>6. state' = "Data" /\ state = "Data"
  BY <1>1, StaysInData DEF InData
<1>7. CASE k + n = Len(w)
  <2>1. SubSeq(w, (k + n) + 1, Len(w)) = <<>>
    BY SMTT(30), <1>1, <1>3, <1>7, SubSeqEmpty
  <2>2. (out \o t) \o <<>> = out \o t
    <3>1. out \o t \in Seq(Letters)
      BY <1>1, <1>3, ConcatProperties
    <3>2. QED
      BY <3>1, ConcatEmptySeq
  <2>3. meaning' = out'
    BY <1>1, <1>5, <2>1, <2>2 DEF ghost
  <2>4. dictionary' = NoDictionary /\ phase' = "Command"
    BY <1>1, <1>7
  <2> HIDE DEF w, k
  <2> USE Facts, <1>1, <1>4, <2>4 DEF ghost
  <2>5. Records'
    BY <1>6, <2>3 DEF Records, NoDictionary
  <2>6. TypeOK'
    BY DEF TypeOK, Phases, NoDictionary
  <2>7. DistancesReach' /\ OwedSuffices'
    BY <1>6 DEF DistancesReach, OwedSuffices
  <2>8. RestFollows'
    BY <2>3 DEF RestFollows
  <2>9. QED
    BY <2>5, <2>6, <2>7, <2>8 DEF IInv
<1>8. CASE k + n # Len(w)
  <2>1. dictionary' = [dictionary EXCEPT !.offset = k + n] /\ phase' = "Dictionary"
    BY <1>1, <1>8
  <2>2. /\ dictionary'.held /\ dictionary'.bytes = w /\ dictionary'.offset = k + n
        /\ dictionary' \in [held : BOOLEAN, bytes : Seq(Letters), offset : Nat]
    <3>1. k + n \in Nat
      BY <1>1, <1>3
    <3> DEFINE m == k + n
    <3> HIDE DEF m
    <3>2. dictionary' = [dictionary EXCEPT !.offset = m] /\ m \in Nat
      BY <2>1, <3>1 DEF m
    <3>3. QED
      BY <1>3, <3>2 DEF m
  <2>3. /\ k + n <= Len(w) /\ Len(w) - (k + n) <= remaining - n
        /\ remaining - n # 0
    <3> HIDE DEF w, k
    <3>1. /\ Len(w) \in Nat /\ k \in Nat /\ n \in Nat /\ remaining \in Nat
          /\ Len(w) - k <= remaining /\ k + n <= Len(w)
      BY <1>1, <1>3
    <3>2. QED
      BY <1>8, <3>1
  <2>4. meaning' = out' \o SubSeq(dictionary'.bytes, dictionary'.offset + 1, Len(dictionary'.bytes))
    BY <1>1, <1>5, <2>2 DEF ghost
  <2>5. meaning' \in Seq(Letters)
    BY <1>1, Facts DEF Records, ghost
  <2> HIDE DEF w, k
  <2> USE Facts, <1>1, <1>4, <2>1, <2>2 DEF ghost
  <2>6. Records'
    BY <1>6, <2>3, <2>5 DEF Records
  <2>7. TypeOK'
    BY DEF TypeOK, Phases
  <2>8. DistancesReach' /\ OwedSuffices'
    BY <1>6, <2>3 DEF DistancesReach, OwedSuffices
  <2>9. RestFollows'
    BY <2>4 DEF RestFollows
  <2>10. QED
    BY <2>6, <2>7, <2>8, <2>9 DEF IInv
<1>9. QED
  BY <1>7, <1>8

-----------------------------------------------------------------------------
(* Every step.                                                             *)

LEMMA TurnStep ==
  ASSUME IInv, InData, Turn
  PROVE  IInv'
<1>1. CASE \E kind \in Kinds : SwitchType(kind) \/ SwitchLength(kind) \/ SwitchExtra(kind)
  BY <1>1, SwitchStep
<1>2. CASE EndAtCommand \/ EndAtLiterals
  BY <1>2, EndStep
<1>3. CASE ExplicitDistance \/ EndCopy
  BY <1>3, PhaseStep
<1>4. CASE ReadCommand
  BY <1>4, ReadCommandStep
<1>5. CASE InsertExtra
  BY <1>5, InsertExtraStep
<1>6. CASE CopyExtra
  BY <1>6, CopyExtraStep
<1>7. CASE ReadLiteral
  BY <1>7, ReadLiteralStep
<1>8. CASE ImplicitDistance
  BY <1>8, ImplicitDistanceStep
<1>9. CASE ReadDistance
  BY <1>9, ReadDistanceStep
<1>10. CASE DistanceExtra
  BY <1>10, DistanceExtraStep
<1>11. CASE CopyTurn
  BY <1>11, CopyTurnStep
<1>12. CASE DictionaryTurn
  BY <1>12, DictionaryTurnStep
<1>13. CASE NeedInput \/ NeedOutput \/ Done
  BY <1>13, ReturnStep
<1>14. QED
  BY <1>1, <1>2, <1>3, <1>4, <1>5, <1>6, <1>7, <1>8, <1>9, <1>10, <1>11, <1>12, <1>13 DEF Turn

LEMMA DataIs ==
  ASSUME Data
  PROVE  InData /\ Turn
BY DEF Data, InData

LEMMA StutterStep ==
  ASSUME IInv, UNCHANGED allVars
  PROVE  IInv'
<1>1. /\ UNCHANGED <<phase, command, copy, distance, dictionary, remaining, trees, recent, out,
                     end, meaning>>
      /\ UNCHANGED <<space, fed, status, state, announced>>
  BY DEF allVars, vars, block, call, ghost, metaBlock
<1>2. /\ space \in 0..MaxSpace /\ fed \in 0..MaxReads /\ status \in Statuses
      /\ state \in {"Header", "Trees", "Data", "Done"}
      /\ state \in {"Header", "Trees"} => announced \in Lengths
      /\ state # "Data" => phase = "Done"
  BY Facts DEF TypeOK, Records, OwedSuffices
<1>3. QED
  BY <1>1, <1>2, Quiet

LEMMA NextStep ==
  ASSUME IInv, MetaBlockNext
  PROVE  IInv'
<1>1. CASE ReadField
  BY <1>1, ReadFieldStep
<1>2. CASE FieldStarves \/ FieldsWrong
  BY <1>2, FieldsStopStep
<1>3. CASE EndHeader
  BY <1>3, EndHeaderStep
<1>4. CASE EndTrees
  BY <1>4, EndTreesStep
<1>5. CASE Data
  BY <1>5, DataIs, TurnStep
<1>6. CASE \E i \in 0..MaxReads, s \in 0..MaxSpace : Resume(i, s)
  BY <1>6, ResumeStep
<1>7. CASE \E length \in Lengths : NextMetaBlock(length)
  BY <1>7, NextMetaBlockStep
<1>8. QED
  BY <1>1, <1>2, <1>3, <1>4, <1>5, <1>6, <1>7 DEF MetaBlockNext, MetaBlockTurn

(* What is meant but not yet put out.                                      *)
Rest == CASE phase = "Copy" -> copy.left
          [] phase = "Dictionary" -> Len(dictionary.bytes) - dictionary.offset
          [] OTHER -> 0

LEMMA Prefix ==
  ASSUME NEW S, NEW s \in Seq(S), NEW m \in Seq(S), Len(s) <= Len(m),
         \A i \in 1..Len(s) : m[i] = s[i]
  PROVE  s = SubSeq(m, 1, Len(s))
<1> DEFINE t == SubSeq(m, 0 + 1, 0 + Len(s))
<1>1. Len(s) \in Nat /\ 0 + Len(s) <= Len(m)
  OBVIOUS
<1>2. t \in Seq(S) /\ Len(t) = Len(s) /\ \A j \in 1..Len(s) : t[j] = m[0 + j]
  BY <1>1, Slice
<1>3. t = SubSeq(m, 1, Len(s))
  BY <1>1
<1> HIDE DEF t
<1>4. \A j \in 1..Len(s) : s[j] = t[j]
  BY <1>2
<1>5. s = t
  BY <1>2, <1>4, Same
<1>6. QED
  BY <1>3, <1>5

LEMMA RestIs ==
  ASSUME IInv
  PROVE  /\ Len(meaning) = Len(out) + Rest /\ Rest \in Nat /\ Rest <= remaining
         /\ out = SubSeq(meaning, 1, Len(out))
<1>1. /\ out \in Seq(Letters) /\ meaning \in Seq(Letters) /\ Len(out) \in Nat
      /\ remaining \in Nat
  BY Facts DEF Records
<1>2. CASE phase = "Copy"
  <2> DEFINE d == copy.distance
             n == copy.left
  <2>1. d \in 1..Len(out) /\ n \in Nat /\ n <= remaining /\ meaning = Overlap(out, d, n)
    BY <1>2, Facts DEF DistancesReach, TypeOK, OwedSuffices, RestFollows
  <2>2. Rest = n
    BY <1>2 DEF Rest
  <2> HIDE DEF d, n
  <2>3. Len(meaning) = Len(out) + n /\ \A i \in 1..Len(out) : meaning[i] = out[i]
    <3>1. /\ Len(Overlap(out, d, n)) = Len(out) + n
          /\ \A i \in 1..Len(out) : Overlap(out, d, n)[i] = out[i]
      BY ZenonT(60), <1>1, <2>1, OverlapIs
    <3>2. QED
      BY <2>1, <3>1
  <2>4. Len(out) <= Len(meaning)
    BY <1>1, <2>1, <2>3
  <2>5. QED
    BY <1>1, <2>1, <2>2, <2>3, <2>4, Prefix
<1>3. CASE phase = "Dictionary"
  <2> DEFINE w == dictionary.bytes
             k == dictionary.offset
             t == SubSeq(w, k + 1, Len(w))
  <2>1. w \in Seq(Letters) /\ k \in Nat /\ k <= Len(w)
    BY Facts DEF Records
  <2>2. Len(w) - k <= remaining
    BY <1>3, Facts DEF OwedSuffices
  <2>3. meaning = out \o t
    BY <1>3, Facts DEF RestFollows
  <2>4. Rest = Len(w) - k
    BY <1>3 DEF Rest
  <2> HIDE DEF w, k
  <2>5. Len(w) \in Nat /\ Len(w) - k \in Nat /\ k + (Len(w) - k) = Len(w)
    BY <2>1
  <2>6. t \in Seq(Letters) /\ Len(t) = Len(w) - k
    BY <2>1, <2>5, Slice
  <2> HIDE DEF t
  <2>7. /\ Len(out \o t) = Len(out) + Len(t)
        /\ \A i \in 1..Len(out) : (out \o t)[i] = out[i]
    BY <1>1, <2>6
  <2>8. Len(out) <= Len(meaning)
    BY <1>1, <2>3, <2>5, <2>6, <2>7
  <2>9. out = SubSeq(meaning, 1, Len(out))
    BY <1>1, <2>3, <2>7, <2>8, Prefix
  <2>10. QED
    BY <2>2, <2>3, <2>4, <2>5, <2>6, <2>7, <2>9
<1>4. CASE phase \notin {"Copy", "Dictionary"}
  <2>1. meaning = out /\ Rest = 0
    BY <1>4, Facts DEF RestFollows, Rest
  <2>2. out = SubSeq(out, 1, Len(out))
    BY <1>1, Prefix
  <2>3. QED
    BY <1>1, <2>1, <2>2
<1>5. QED
  BY <1>2, <1>3, <1>4

(* The inductive invariant holds in every behaviour.                       *)
THEOREM Invariance == MetaBlockSpec => []IInv
<1>1. IInv /\ [MetaBlockNext]_allVars => IInv'
  BY NextStep, StutterStep
<1>2. QED
  BY InitIInv, <1>1, PTL DEF MetaBlockSpec

(* The metablock puts out exactly the bytes that its header announced,      *)
(* whatever its commands, copies and words (CompressedBlock::remaining).    *)
THEOREM FilledExactly == MetaBlockSpec => []MetaBlockFilled
<1>1. ASSUME IInv PROVE MetaBlockFilled
  <2>1. Len(out) + remaining = end /\ Len(out) \in Nat /\ remaining \in Nat
    BY <1>1, Facts DEF OwedSuffices
  <2>2. phase = "Literals" => command.insert <= remaining
    BY <1>1, Facts DEF OwedSuffices
  <2>3. phase = "Done" => Len(out) = end
    BY <1>1, <2>1, Facts DEF OwedSuffices
  <2>4. Len(meaning) = Len(out) + Rest /\ Rest \in Nat /\ Rest <= remaining
    BY <1>1, RestIs
  <2>5. Len(meaning) <= end
    BY <2>1, <2>4
  <2>6. QED
    BY <2>1, <2>2, <2>3, <2>5 DEF MetaBlockFilled
<1>2. QED
  BY <1>1, Invariance, PTL

(* The output is what the commands decoded so far mean, however the calls   *)
(* of process() were cut (Phase::Copy, Phase::Dictionary).                  *)
THEOREM MeansItsCommands == MetaBlockSpec => []OutputIsMeaning
<1>1. IInv => OutputIsMeaning
  BY RestIs DEF OutputIsMeaning, Rest
<1>2. QED
  BY <1>1, Invariance, PTL

-----------------------------------------------------------------------------
(* The recent distances.                                                   *)

RingFollows == PushIsNew /\ RecentIsLz77
Oldest == <<16, 15, 11, 4>>

LEMMA OldestIs == Oldest \in Seq(Nat) /\ Len(Oldest) = 4
BY DEF Oldest

LEMMA PushedShifts ==
  ASSUME NEW S, NEW ring \in [1..4 -> S], NEW value \in S
  PROVE  Pushed(ring, value)[1] = value
         /\ \A i \in 2..4 : Pushed(ring, value)[i] = ring[i - 1]
<1> DEFINE t == SubSeq(ring, 1, 3)
           u == <<value>>
<1>1. Len(ring) = 4 /\ ring \in Seq(S)
  <2> DEFINE n == 4
  <2>1. n \in Nat /\ ring \in [1..n -> S]
    OBVIOUS
  <2> HIDE DEF n
  <2>2. ring \in Seq(S) /\ Len(ring) = n
    BY <2>1, Listed
  <2>3. QED
    BY <2>2 DEF n
<1>2. t \in Seq(S) /\ Len(t) = 3 /\ \A i \in 1..3 : t[i] = ring[i]
  BY <1>1
<1>3. u \in Seq(S) /\ Len(u) = 1 /\ u[1] = value
  OBVIOUS
<1>4. Pushed(ring, value) = u \o t
  BY DEF Pushed
<1> HIDE DEF t, u
<1>5. \A i \in 1..(Len(u) + Len(t)) : (u \o t)[i] = IF i <= Len(u) THEN u[i] ELSE t[i - Len(u)]
  BY <1>2, <1>3, ConcatProperties
<1>6. (u \o t)[1] = value
  <2>1. 1 \in 1..(Len(u) + Len(t)) /\ 1 <= Len(u)
    BY <1>2, <1>3
  <2>2. (u \o t)[1] = u[1]
    BY <1>5, <2>1
  <2>3. QED
    BY <1>3, <2>2
<1>7. \A i \in 2..4 : (u \o t)[i] = ring[i - 1]
  <2> SUFFICES ASSUME NEW i \in 2..4 PROVE (u \o t)[i] = ring[i - 1]
    OBVIOUS
  <2>1. i \in 1..(Len(u) + Len(t)) /\ ~ (i <= Len(u)) /\ i - Len(u) = i - 1
    BY <1>2, <1>3
  <2>2. (u \o t)[i] = t[i - 1] /\ i - 1 \in 1..3
    BY <1>5, <2>1
  <2>3. QED
    BY <1>2, <2>2
<1>8. QED
  BY <1>4, <1>6, <1>7

LEMMA Appended ==
  ASSUME NEW S, NEW s \in Seq(S), NEW v \in S
  PROVE  /\ Append(s, v) \in Seq(S) /\ Len(Append(s, v)) = Len(s) + 1
         /\ Append(s, v)[Len(s) + 1] = v
         /\ \A i \in 1..Len(s) : Append(s, v)[i] = s[i]
BY AppendProperties

LEMMA AppendLast ==
  ASSUME NEW S, NEW s \in Seq(S), NEW n \in Seq(S), NEW v \in S
  PROVE  s \o Append(n, v) = Append(s \o n, v)
<1> DEFINE u == <<v>>
<1>1. u \in Seq(S)
  OBVIOUS
<1>2. Append(n, v) = n \o u
  BY AppendIsConcat
<1>3. s \o n \in Seq(S)
  BY ConcatProperties
<1>4. Append(s \o n, v) = (s \o n) \o u
  BY <1>3, AppendIsConcat
<1> HIDE DEF u
<1>5. s \o (n \o u) = (s \o n) \o u
  BY SMTT(30), <1>1, ConcatAssociative
<1>6. QED
  BY <1>2, <1>4, <1>5

(* A ring holds the last four of a sequence, newest first; pushing onto the *)
(* ring is appending to the sequence.                                      *)
LastFour(ring, s) == \A i \in 1..4 : ring[i] = s[Len(s) + 1 - i]

LEMMA PushFollows ==
  ASSUME NEW S, NEW s \in Seq(S), Len(s) >= 4, NEW ring \in [1..4 -> S], NEW value \in S,
         LastFour(ring, s)
  PROVE  LastFour(Pushed(ring, value), Append(s, value))
<1> DEFINE more == Append(s, value)
<1>1. Len(s) \in Nat
  OBVIOUS
<1>2. /\ Len(more) = Len(s) + 1 /\ more[Len(s) + 1] = value
      /\ \A i \in 1..Len(s) : more[i] = s[i]
  BY Appended
<1> HIDE DEF more
<1>3. Pushed(ring, value)[1] = value /\ \A i \in 2..4 : Pushed(ring, value)[i] = ring[i - 1]
  BY PushedShifts
<1>4. \A i \in 1..4 : Pushed(ring, value)[i] = more[Len(more) + 1 - i]
  <2> SUFFICES ASSUME NEW i \in 1..4 PROVE Pushed(ring, value)[i] = more[Len(more) + 1 - i]
    OBVIOUS
  <2>1. CASE i = 1
    <3>1. Len(more) + 1 - i = Len(s) + 1
      BY <1>1, <1>2, <2>1
    <3>2. QED
      BY <1>2, <1>3, <2>1, <3>1
  <2>2. CASE i # 1
    <3>1. i \in 2..4 /\ i - 1 \in 1..4
      BY <2>2
    <3>2. Len(more) + 1 - i = Len(s) + 1 - (i - 1) /\ Len(s) + 1 - (i - 1) \in 1..Len(s)
      BY <1>1, <1>2, <3>1
    <3>3. ring[i - 1] = s[Len(s) + 1 - (i - 1)]
      BY <3>1 DEF LastFour
    <3>4. QED
      BY <1>2, <1>3, <3>1, <3>2, <3>3
  <2>3. QED
    BY <2>1, <2>2
<1>5. QED
  BY <1>4 DEF LastFour, more

LEMMA OldestAppend ==
  ASSUME NEW n \in Seq(Nat), NEW v \in Nat
  PROVE  /\ Oldest \o n \in Seq(Nat) /\ Len(Oldest \o n) >= 4
         /\ Oldest \o Append(n, v) = Append(Oldest \o n, v)
<1>1. Oldest \o n \in Seq(Nat) /\ Len(Oldest \o n) = Len(Oldest) + Len(n)
  BY OldestIs, ConcatProperties
<1>2. Len(n) \in Nat
  OBVIOUS
<1>3. Oldest \o Append(n, v) = Append(Oldest \o n, v)
  BY OldestIs, AppendLast
<1>4. QED
  BY <1>1, <1>2, <1>3, OldestIs

LEMMA InitFollows == MetaBlockInit => RingFollows
<1> SUFFICES ASSUME MetaBlockInit PROVE RingFollows
  OBVIOUS
<1>1. named = <<>> /\ recent = <<4, 11, 15, 16>> /\ distance.state = "none"
  BY DEF MetaBlockInit, Init, InitialRing, NoDistance
<1>2. Oldest \o named = Oldest
  BY <1>1, OldestIs, ConcatEmptySeq
<1>3. \A i \in 1..4 : recent[i] = Oldest[4 + 1 - i]
  BY <1>1 DEF Oldest
<1>4. RecentIsLz77
  BY <1>2, <1>3, OldestIs DEF RecentIsLz77, Oldest
<1>5. QED
  BY <1>1, <1>4 DEF RingFollows, PushIsNew

(* Steps that leave the ring and the names alone.                          *)
LEMMA Follows ==
  ASSUME RingFollows, UNCHANGED <<recent, named>>,
         \/ distance' = distance
         \/ distance' = NoDistance
         \/ distance'.push = (distance'.symbol # 0)
  PROVE  RingFollows'
<1>1. RecentIsLz77'
  BY DEF RingFollows, RecentIsLz77
<1>2. PushIsNew'
  BY DEF RingFollows, PushIsNew, NoDistance
<1>3. QED
  BY <1>1, <1>2 DEF RingFollows

(* What a distance symbol names is pushed unless the symbol is 0.          *)
LEMMA NewDistancePush ==
  ASSUME NEW ring, NEW symbol \in 0..(AlphabetSize(Postfix, Direct) - 1)
  PROVE  LET d == NewDistance(ring, symbol, Postfix, Direct) IN d.push = (d.symbol # 0)
<1>1. Direct \in Nat
  BY DistanceAssumption
<1>2. CASE symbol < 16
  BY <1>2 DEF NewDistance
<1>3. CASE ~ (symbol < 16) /\ symbol < 16 + Direct
  BY <1>3 DEF NewDistance
<1>4. CASE ~ (symbol < 16) /\ ~ (symbol < 16 + Direct)
  <2> DEFINE d == NewDistance(ring, symbol, Postfix, Direct)
  <2>1. d.push = TRUE /\ d.symbol = symbol
    BY <1>4 DEF NewDistance
  <2>2. symbol # 0
    BY <1>4
  <2>3. QED
    BY <2>1, <2>2
<1>5. QED
  BY <1>2, <1>3, <1>4

LEMMA DistanceExtraFollows ==
  ASSUME IInv, RingFollows, DistanceExtra
  PROVE  RingFollows'
<1>1. /\ recent \in [1..4 -> Nat] /\ distance \in DistanceRecords /\ distance.value # 0
      /\ distance.state # "none" /\ phase = "DistanceExtra"
  BY Facts DEF DistanceExtra, At, TypeOK, Records, DistancesReach, DistanceRecords
<1>2. distance.push = (distance.symbol # 0) /\ named \in Seq(Nat)
  BY <1>1 DEF RingFollows, PushIsNew
<1>3. PICK extra \in ExtraEnds(distance.bits) :
        /\ BeginCopy(command.copy, Resolve(distance, extra, Postfix), distance.symbol # 0)
        /\ recent' = Remember(Resolve(distance, extra, Postfix), phase' = "Copy")
  BY DEF DistanceExtra
<1> DEFINE value == Resolve(distance, extra, Postfix)
<1>4. value \in Nat
  BY <1>1, ResolveIs
<1>5. \/ phase' \in {"DistanceExtra", "Dictionary"} /\ named' = named
      \/ /\ phase' = "Copy"
         /\ named' = IF distance.symbol # 0 THEN Append(named, value) ELSE named
  BY <1>1, <1>3 DEF BeginCopy, Refuse
<1>6. recent' = IF distance.push /\ phase' = "Copy" THEN Pushed(recent, value) ELSE recent
  BY <1>3 DEF Remember
<1>7. distance' = NoDistance
  BY DEF DistanceExtra
<1> HIDE DEF value
<1>8. CASE phase' = "Copy" /\ distance.symbol # 0
  <2>1. named' = Append(named, value) /\ recent' = Pushed(recent, value)
    BY <1>2, <1>5, <1>6, <1>8
  <2> DEFINE t == Oldest \o named
  <2>2. /\ t \in Seq(Nat) /\ Len(t) >= 4
        /\ Oldest \o Append(named, value) = Append(t, value)
    BY <1>2, <1>4, OldestAppend
  <2>3. LastFour(recent, t)
    BY DEF RingFollows, RecentIsLz77, Oldest, LastFour
  <2> HIDE DEF t
  <2>4. LastFour(Pushed(recent, value), Append(t, value))
    BY <1>1, <1>4, <2>2, <2>3, PushFollows
  <2>5. LastFour(recent', Oldest \o named')
    BY <2>1, <2>2, <2>4
  <2>6. RecentIsLz77'
    BY <2>5 DEF RecentIsLz77, Oldest, LastFour
  <2>7. named' \in Seq(Nat)
    BY <1>2, <1>4, <2>1, AppendProperties
  <2>8. QED
    BY <1>7, <2>6, <2>7 DEF RingFollows, PushIsNew, NoDistance
<1>9. CASE ~ (phase' = "Copy" /\ distance.symbol # 0)
  <2>1. UNCHANGED <<recent, named>>
    BY <1>2, <1>5, <1>6, <1>9
  <2>2. QED
    BY <1>7, <2>1, Follows
<1>10. QED
  BY <1>8, <1>9

LEMMA TurnFollows ==
  ASSUME IInv, RingFollows, Turn
  PROVE  RingFollows'
<1>1. CASE \E kind \in Kinds : SwitchType(kind) \/ SwitchLength(kind) \/ SwitchExtra(kind)
  BY <1>1, Follows DEF SwitchType, SwitchLength, SwitchExtra, Switch, ghost
<1>2. CASE EndAtCommand \/ EndAtLiterals \/ ExplicitDistance \/ EndCopy
  BY <1>2, Follows DEF EndAtCommand, EndAtLiterals, ExplicitDistance, EndCopy, ghost
<1>3. CASE ReadCommand \/ InsertExtra \/ CopyExtra \/ ReadLiteral
  BY <1>3, Follows DEF ReadCommand, InsertExtra, CopyExtra, ReadLiteral, ghost
<1>4. CASE ImplicitDistance
  <2>1. UNCHANGED <<recent, distance>> /\ BeginCopy(command.copy, recent[1], FALSE)
    BY <1>4 DEF ImplicitDistance
  <2>2. named' = named
    BY <2>1 DEF BeginCopy, Refuse
  <2>3. QED
    BY <2>1, <2>2, Follows
<1>5. CASE ReadDistance
  <2>1. UNCHANGED <<recent, named>>
    BY <1>5 DEF ReadDistance, ghost
  <2>2. PICK symbol \in trees.distance :
          IF InvalidShort(recent, symbol)
            THEN status' = "DistanceError" /\ UNCHANGED <<phase, distance>>
            ELSE /\ distance' = NewDistance(recent, symbol, Postfix, Direct)
                 /\ phase' = "DistanceExtra" /\ UNCHANGED status
    BY <1>5 DEF ReadDistance
  <2>3. symbol \in 0..(AlphabetSize(Postfix, Direct) - 1)
    BY DistanceAssumption, Facts DEF Records
  <2>4. distance' = distance \/ distance'.push = (distance'.symbol # 0)
    BY <2>2, <2>3, NewDistancePush
  <2>5. QED
    BY <2>1, <2>4, Follows
<1>6. CASE DistanceExtra
  BY <1>6, DistanceExtraFollows
<1>7. CASE CopyTurn \/ DictionaryTurn
  BY <1>7, Follows DEF CopyTurn, DictionaryTurn, ghost
<1>8. CASE NeedInput \/ NeedOutput \/ Done
  BY <1>8, Follows DEF NeedInput, NeedOutput, Done, Return, block, ghost
<1>9. QED
  BY <1>1, <1>2, <1>3, <1>4, <1>5, <1>6, <1>7, <1>8 DEF Turn

(* The four recent distances are those of the last LZ77 copies that were    *)
(* named other than as the last distance (RecentDistances::push), whatever  *)
(* words, implicit distances and metablocks came between.                   *)
THEOREM RingIsLz77 == MetaBlockSpec => []RecentIsLz77
<1>1. ASSUME IInv, RingFollows, [MetaBlockNext]_allVars
      PROVE  RingFollows'
  <2>1. CASE ReadField \/ FieldStarves \/ FieldsWrong \/ EndHeader
    BY <1>1, <2>1, Follows
    DEF ReadField, FieldStarves, FieldsWrong, EndHeader, Return, block, ghost
  <2>2. CASE EndTrees
    BY <1>1, <2>2, Follows DEF EndTrees, NewBlock
  <2>3. CASE Data
    BY <1>1, <2>3, TurnFollows DEF Data
  <2>4. CASE \E i \in 0..MaxReads, s \in 0..MaxSpace : Resume(i, s)
    BY <1>1, <2>4, Follows DEF Resume, Call, block, ghost
  <2>5. CASE \E length \in Lengths : NextMetaBlock(length)
    BY <1>1, <2>5, Follows DEF NextMetaBlock, block, ghost
  <2>6. CASE UNCHANGED allVars
    BY <1>1, <2>6, Follows DEF allVars, vars, block, ghost
  <2>7. QED
    BY <1>1, <2>1, <2>2, <2>3, <2>4, <2>5, <2>6 DEF MetaBlockNext, MetaBlockTurn
<1>2. RingFollows => RecentIsLz77
  BY DEF RingFollows
<1>3. QED
  BY InitFollows, <1>1, <1>2, Invariance, PTL DEF MetaBlockSpec

-----------------------------------------------------------------------------
(* The promise to the decoder core: the steps of MetaBlockBody.            *)

LEMMA BodyInit == MetaBlockInit => Body!Init
BY DEF MetaBlockInit, Init, Body!Init, Owed

(* A step that puts out nothing and goes on.                               *)
LEMMA Hidden ==
  ASSUME Owed' = Owed, space' = space, status' = status
  PROVE  UNCHANGED Body!vars
BY DEF Body!vars

(* A step that puts out n bytes.                                           *)
LEMMA Works ==
  ASSUME NEW n \in 1..Owed, n <= space, status = "run", status' = "run",
         Owed' = Owed - n, space' = space - n
  PROVE  Body!Next
<1>1. Body!Produce(n)
  BY DEF Body!Produce
<1>2. QED
  BY <1>1 DEF Body!Next, Body!Work

(* A return.                                                               *)
LEMMA Stops ==
  ASSUME status = "run", Owed' = Owed, space' = space, Owed \in Nat,
         \/ status' = "Done" /\ Owed = 0
         \/ status' = "NeedOutput" /\ Owed # 0 /\ space = 0
         \/ status' = "NeedInput" /\ Owed # 0
         \/ status' \in StreamErrors /\ Owed # 0
  PROVE  Body!Next
<1>1. Body!MayStop(status') /\ status' # "run"
  BY DEF Body!MayStop, StreamErrors
<1>2. QED
  BY <1>1 DEF Body!Next, Body!Stop

LEMMA OwedIs ==
  ASSUME IInv
  PROVE  /\ state \in {"Header", "Trees"} => Owed = announced /\ announced \in Nat \ {0}
         /\ state \in {"Data", "Done"} => Owed = remaining
         /\ Owed \in Nat
<1>1. state \in {"Header", "Trees"} => announced \in Nat \ {0}
  BY Facts, BoundAssumption DEF OwedSuffices
<1>2. state \in {"Header", "Trees", "Data", "Done"} /\ remaining \in Nat
  BY Facts DEF Records
<1>3. QED
  BY <1>1, <1>2 DEF Owed

LEMMA OwedInData ==
  ASSUME InData
  PROVE  Owed = remaining /\ Owed' = remaining'
BY DEF InData, Owed

LEMMA FieldsRefine ==
  ASSUME IInv, ReadField \/ EndHeader \/ EndTrees \/ FieldStarves \/ FieldsWrong
  PROVE  Body!Next \/ UNCHANGED Body!vars
<1>1. CASE ReadField \/ EndHeader
  <2>1. space' = space /\ status' = status
    BY <1>1, ReadsIs DEF ReadField, EndHeader
  <2>2. Owed' = Owed
    BY <1>1 DEF ReadField, EndHeader, InFields, block, metaBlock, Owed
  <2>3. QED
    BY <2>1, <2>2, Hidden
<1>2. CASE EndTrees
  <2>1. space' = space /\ status' = status
    BY <1>2, ReadsIs DEF EndTrees
  <2>2. Owed' = Owed
    BY <1>2 DEF EndTrees, NewBlock, Owed
  <2>3. QED
    BY <2>1, <2>2, Hidden
<1>3. CASE FieldStarves \/ FieldsWrong
  <2>1. /\ status = "run" /\ state \in {"Header", "Trees"}
        /\ UNCHANGED <<space, remaining, state, announced>>
        /\ status' \in {"NeedInput", state}
    BY <1>3 DEF FieldStarves, FieldsWrong, InFields, Return, block, metaBlock
  <2>2. Owed' = Owed
    BY <2>1 DEF Owed
  <2>3. Owed # 0 /\ Owed \in Nat
    BY <2>1, OwedIs
  <2>4. status' = "NeedInput" \/ status' \in StreamErrors
    BY <2>1 DEF StreamErrors
  <2>5. QED
    BY <2>1, <2>2, <2>3, <2>4, Stops
<1>4. QED
  BY <1>1, <1>2, <1>3

LEMMA CallsRefine ==
  ASSUME IInv,
         \/ \E i \in 0..MaxReads, s \in 0..MaxSpace : Resume(i, s)
         \/ \E length \in Lengths : NextMetaBlock(length)
  PROVE  Body!Next
<1>1. CASE \E i \in 0..MaxReads, s \in 0..MaxSpace : Resume(i, s)
  <2>1. PICK i \in 0..MaxReads, s \in 0..MaxSpace : Resume(i, s)
    BY <1>1
  <2>2. /\ status \in {"NeedInput", "NeedOutput"} /\ status' = "run" /\ space' = s
        /\ UNCHANGED <<remaining, state, announced>>
    BY <2>1 DEF Resume, Call, block, metaBlock
  <2>3. Owed' = Owed /\ space' \in Nat
    BY <2>2 DEF Owed
  <2>4. QED
    BY <2>2, <2>3 DEF Body!Next, Body!Resume
<1>2. CASE \E length \in Lengths : NextMetaBlock(length)
  <2>1. PICK length \in Lengths : NextMetaBlock(length)
    BY <1>2
  <2>2. Owed' = length /\ status = "Done" /\ status' = "run" /\ space' = space
    BY <2>1 DEF NextMetaBlock, Owed
  <2>3. QED
    BY <2>2 DEF Body!Next, Body!Begin
<1>3. QED
  BY <1>1, <1>2

LEMMA ReturnsRefine ==
  ASSUME IInv, InData, NeedInput \/ NeedOutput \/ Done
  PROVE  Body!Next
<1>1. Owed = remaining /\ Owed' = remaining' /\ Owed \in Nat
  BY OwedInData, OwedIs
<1>2. UNCHANGED <<remaining, space>>
  BY DEF NeedInput, NeedOutput, Done, Return, block
<1>3. CASE NeedInput
  <2>1. status' = "NeedInput" /\ status = "run"
    BY <1>3 DEF NeedInput, Return, At, NextKind
  <2>2. CASE \E kind \in NextKind : TRUE
    <3>1. \/ phase = "Command" /\ remaining # 0
          \/ phase = "Literals" /\ command.insert # 0
          \/ phase = "Distance"
      BY <2>2 DEF NextKind, At
    <3>2. remaining # 0
      BY SMTT(30), <3>1, Facts DEF OwedSuffices, TypeOK
    <3>3. QED
      BY <1>1, <1>2, <2>1, <3>2, Stops
  <2>3. CASE phase \in {"CommandExtra", "DistanceExtra"}
    <3>1. remaining # 0
      BY <2>3, Facts DEF OwedSuffices
    <3>2. QED
      BY <1>1, <1>2, <2>1, <3>1, Stops
  <2>4. QED
    BY <1>3, <2>2, <2>3 DEF NeedInput, At
<1>4. CASE NeedOutput
  <2>1. /\ status' = "NeedOutput" /\ status = "run" /\ space = 0
        /\ \/ phase = "Literals" /\ command.insert # 0
           \/ phase = "Copy" /\ copy.left # 0
           \/ phase = "Dictionary"
    BY <1>4 DEF NeedOutput, OutputFull, Return, At
  <2>2. remaining # 0
    BY SMTT(30), <2>1, Facts DEF OwedSuffices, TypeOK
  <2>3. QED
    BY <1>1, <1>2, <2>1, <2>2, Stops
<1>5. CASE Done
  <2>1. status' = "Done" /\ status = "run" /\ remaining = 0
    BY <1>5, Facts DEF Done, Return, At, OwedSuffices
  <2>2. QED
    BY <1>1, <1>2, <2>1, Stops
<1>6. QED
  BY <1>3, <1>4, <1>5

(* Steps within the data that put out nothing.                             *)
LEMMA QuietRefine ==
  ASSUME IInv, InData,
         \/ \E kind \in Kinds : SwitchType(kind) \/ SwitchLength(kind) \/ SwitchExtra(kind)
         \/ EndAtCommand \/ EndAtLiterals \/ ExplicitDistance \/ EndCopy
         \/ ReadCommand \/ InsertExtra
  PROVE  UNCHANGED Body!vars
<1>1. UNCHANGED <<remaining, space, status>>
  <2>1. CASE \E kind \in Kinds : SwitchType(kind) \/ SwitchLength(kind) \/ SwitchExtra(kind)
    BY <2>1, ReadsIs DEF SwitchType, SwitchLength, SwitchExtra, Switch
  <2>2. CASE EndAtCommand \/ EndAtLiterals \/ ExplicitDistance \/ EndCopy
    BY <2>2 DEF EndAtCommand, EndAtLiterals, ExplicitDistance, EndCopy, call
  <2>3. CASE ReadCommand \/ InsertExtra
    BY <2>3, ReadsIs DEF ReadCommand, InsertExtra
  <2>4. QED
    BY <2>1, <2>2, <2>3
<1>2. QED
  BY <1>1, OwedInData, Hidden

(* Steps that may find an error of the stream.                             *)
LEMMA ErrorsRefine ==
  ASSUME IInv, InData, CopyExtra \/ ImplicitDistance \/ ReadDistance \/ DistanceExtra
  PROVE  Body!Next \/ UNCHANGED Body!vars
<1>1. Owed = remaining /\ Owed' = remaining' /\ Owed \in Nat
  BY OwedInData, OwedIs
<1>2. status = "run" /\ remaining # 0 /\ UNCHANGED <<remaining, space>>
  <2>1. CASE CopyExtra
    BY <2>1, Facts, ReadsIs DEF CopyExtra, At, OwedSuffices
  <2>2. CASE ImplicitDistance
    BY <2>2 DEF ImplicitDistance, At
  <2>3. CASE ReadDistance
    BY <2>3, Facts, ReadsIs DEF ReadDistance, Settled, NextKind, At, OwedSuffices
  <2>4. CASE DistanceExtra
    BY <2>4, Facts, ReadsIs DEF DistanceExtra, At, OwedSuffices
  <2>5. QED
    BY <2>1, <2>2, <2>3, <2>4
<1>3. status' = "run" \/ status' \in StreamErrors
  <2>1. CASE CopyExtra
    BY <2>1, <1>2 DEF CopyExtra, StreamErrors
  <2>2. CASE ReadDistance
    BY <2>2, <1>2 DEF ReadDistance, StreamErrors
  <2>3. CASE ImplicitDistance
    BY <2>3, <1>2 DEF ImplicitDistance, BeginCopy, Refuse, StreamErrors
  <2>4. CASE DistanceExtra
    <3>1. PICK length, value, fresh : BeginCopy(length, value, fresh)
      BY <2>4 DEF DistanceExtra
    <3>2. QED
      BY <1>2, <3>1 DEF BeginCopy, Refuse, StreamErrors
  <2>5. QED
    BY <2>1, <2>2, <2>3, <2>4
<1>4. CASE status' = "run"
  BY <1>1, <1>2, <1>4, Hidden
<1>5. CASE status' \in StreamErrors
  BY <1>1, <1>2, <1>5, Stops
<1>6. QED
  BY <1>3, <1>4, <1>5

(* Steps that put out bytes.                                               *)
LEMMA BytesRefine ==
  ASSUME IInv, InData, ReadLiteral \/ CopyTurn \/ DictionaryTurn
  PROVE  Body!Next \/ UNCHANGED Body!vars
<1>1. Owed = remaining /\ Owed' = remaining' /\ Owed \in Nat /\ space \in Nat
  BY OwedInData, OwedIs, Facts DEF TypeOK
<1>2. CASE ReadLiteral
  <2>1. /\ status = "run" /\ phase = "Literals" /\ command.insert # 0 /\ space # 0
        /\ status' = status /\ remaining' = remaining - 1 /\ space' = space - 1
    BY <1>2 DEF ReadLiteral, Settled, NextKind, At
  <2>2. command.insert <= remaining /\ command.insert \in Nat
    BY <2>1, Facts DEF OwedSuffices, TypeOK
  <2>3. 1 \in 1..Owed /\ 1 <= space
    BY <1>1, <2>1, <2>2
  <2>4. QED
    BY <1>1, <2>1, <2>3, Works
<1>3. CASE CopyTurn
  <2> DEFINE n == Least(copy.left, space)
  <2>1. /\ status = "run" /\ status' = "run" /\ n \in 1..remaining /\ n <= space
        /\ remaining' = remaining - n /\ space' = space - n
    BY <1>3, CopyTurnIs, Zenon
  <2> HIDE DEF n
  <2>2. QED
    BY <1>1, <2>1, Works
<1>4. CASE DictionaryTurn
  <2> DEFINE n == Least(Len(dictionary.bytes) - dictionary.offset, space)
  <2>1. /\ status = "run" /\ status' = "run" /\ n \in Nat /\ n <= remaining /\ n <= space
        /\ remaining' = remaining - n /\ space' = space - n
    BY <1>4, DictionaryTurnIs, Zenon
  <2> HIDE DEF n
  <2>2. CASE n = 0
    <3>1. remaining - 0 = remaining /\ space - 0 = space
      BY <1>1
    <3>2. remaining' = remaining /\ space' = space
      BY <2>1, <2>2, <3>1
    <3>3. QED
      BY <1>1, <2>1, <3>2, Hidden
  <2>3. CASE n # 0
    <3>1. n \in 1..Owed
      BY <1>1, <2>1, <2>3
    <3>2. QED
      BY <1>1, <2>1, <3>1, Works
  <2>4. QED
    BY <2>2, <2>3
<1>5. QED
  BY <1>2, <1>3, <1>4

LEMMA NextRefines ==
  ASSUME IInv, MetaBlockNext
  PROVE  Body!Next \/ UNCHANGED Body!vars
<1>1. CASE ReadField \/ EndHeader \/ EndTrees \/ FieldStarves \/ FieldsWrong
  BY <1>1, FieldsRefine
<1>2. CASE \/ \E i \in 0..MaxReads, s \in 0..MaxSpace : Resume(i, s)
           \/ \E length \in Lengths : NextMetaBlock(length)
  BY <1>2, CallsRefine
<1>3. CASE Data
  <2>1. InData /\ Turn
    BY <1>3, DataIs
  <2>2. CASE NeedInput \/ NeedOutput \/ Done
    BY <2>1, <2>2, ReturnsRefine
  <2>3. CASE \/ \E kind \in Kinds : SwitchType(kind) \/ SwitchLength(kind) \/ SwitchExtra(kind)
             \/ EndAtCommand \/ EndAtLiterals \/ ExplicitDistance \/ EndCopy
             \/ ReadCommand \/ InsertExtra
    BY <2>1, <2>3, QuietRefine
  <2>4. CASE CopyExtra \/ ImplicitDistance \/ ReadDistance \/ DistanceExtra
    BY <2>1, <2>4, ErrorsRefine
  <2>5. CASE ReadLiteral \/ CopyTurn \/ DictionaryTurn
    BY <2>1, <2>5, BytesRefine
  <2>6. QED
    BY <2>1, <2>2, <2>3, <2>4, <2>5 DEF Turn
<1>4. QED
  BY <1>1, <1>2, <1>3 DEF MetaBlockNext, MetaBlockTurn

(* What the decoder core relies on (CompressedProgress as decoder.rs uses   *)
(* it): a body puts out no byte that is not owed or has no room, says truly *)
(* why it stops, and never fails for the window's sake.                    *)
THEOREM KeepsPromise == MetaBlockSpec => BodySpec
<1>1. MetaBlockInit => Body!Init
  BY BodyInit
<1>2. ASSUME IInv, [MetaBlockNext]_allVars
      PROVE  [Body!Next]_(Body!vars)
  <2>1. CASE MetaBlockNext
    BY <1>2, <2>1, NextRefines
  <2>2. CASE UNCHANGED allVars
    BY <2>2 DEF allVars, vars, block, call, metaBlock, Body!vars, Owed
  <2>3. QED
    BY <1>2, <2>1, <2>2
<1>3. QED
  BY <1>1, <1>2, Invariance, PTL DEF MetaBlockSpec, BodySpec, Body!Spec
=============================================================================
