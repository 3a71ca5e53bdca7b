------------------------ MODULE CompressedHeaderProofs ------------------------
(***************************************************************************)
(* Context maps and the header of a compressed metablock, for every set of *)
(* plans the encoder could have, with any number of contexts and length of *)
(* runs that MapAssumption and HeaderAssumption allow, and for any fields  *)
(* and symbols that no encoder wrote. A context map as written, by either  *)
(* writer, is read back entry by entry: move-to-front is undone by the     *)
(* decoder (WrittenWrote), and the symbols read stand for runs of it one   *)
(* after another (MapInv). A header as written is read to its last field:  *)
(* what is ahead of the decoder is the rest of what its plan wrote         *)
(* (PlanFollows), in HeaderInv, the inductive invariant.                   *)
(***************************************************************************)
EXTENDS CompressedHeader, FiniteSetTheorems, SequenceTheorems, TLAPS

-----------------------------------------------------------------------------
(* Numbers. *)

\* A set of numbers has a least one; what is proved of a number from all that
\* are less is proved with it.  Were there none, all that is above some member
\* could be moved down by one and still be above some member.
LEMMA LeastNumber ==
  ASSUME NEW T \in SUBSET Nat, T # {}
  PROVE  \E x \in T : \A y \in T : x <= y
<1> SUFFICES ASSUME \A x \in T : \E y \in T : y < x PROVE FALSE
  BY SMT
<1>0. PICK b \in T : TRUE
  OBVIOUS
<1> DEFINE U == {x \in 0..b : \E y \in T : y <= x}
           V == U \ {b}
           f == [x \in U |-> x - 1]
<1>1. b \in Nat /\ U \subseteq 0..b /\ b \in U
  BY <1>0, SMT
<1>2. \A x \in U : x - 1 \in V
  <2> TAKE x \in U
  <2>1. PICK y \in T : y <= x
    OBVIOUS
  <2>2. PICK z \in T : z < y
    OBVIOUS
  <2>3. y \in Nat /\ z \in Nat /\ x \in 0..b
    OBVIOUS
  <2>4. x - 1 \in 0..b /\ z <= x - 1 /\ x - 1 # b
    BY <2>1, <2>2, <2>3, <1>1, SMT
  <2> QED
    BY <2>2, <2>4
<1>3. IsFiniteSet(U)
  <2>1. IsFiniteSet(0..b)
    BY <1>1, FS_Interval, 0 \in Int, b \in Int
  <2> QED
    BY <2>1, <1>1, FS_Subset
<1>4. IsFiniteSet(V) /\ Cardinality(V) = Cardinality(U) - 1
  BY <1>1, <1>3, FS_RemoveElement
<1>5. Cardinality(V) < Cardinality(U)
  <2>1. Cardinality(U) \in Nat
    BY <1>3, FS_CardinalityType
  <2> HIDE DEF U, V
  <2> QED
    BY <2>1, <1>4
<1>6. f \in [U -> V]
  BY <1>2
<1>7. \A x, y \in U : x # y => f[x] # f[y]
  BY <1>1
<1>8. \E x, y \in U : x # y /\ f[x] = f[y]
  <2> HIDE DEF U, V, f
  <2> QED
    BY <1>3, <1>4, <1>5, <1>6, FS_PigeonHole
<1> QED
  BY <1>7, <1>8

\* What holds of 0 and goes from each number to the next holds up to n.
LEMMA UpTo ==
  ASSUME NEW n \in Nat, NEW H, 0 \in H, \A i \in 1..n : i - 1 \in H => i \in H
  PROVE  \A i \in 0..n : i \in H
<1> DEFINE T == {i \in 0..n : i \notin H}
<1>1. SUFFICES ASSUME T # {} PROVE FALSE
  OBVIOUS
<1>2. PICK i \in T : \A k \in T : i <= k
  <2>1. T \in SUBSET Nat
    OBVIOUS
  <2> HIDE DEF T
  <2> QED
    BY <1>1, <2>1, LeastNumber
<1>3. i \in 0..n /\ i \notin H
  OBVIOUS
<1>4. PICK k : k = i - 1
  OBVIOUS
<1>5. i \in 1..n /\ k \in 0..n /\ ~(i <= k)
  BY <1>3, <1>4
<1>6. k \in H
  BY <1>2, <1>5
<1> QED
  BY <1>3, <1>4, <1>5, <1>6

\* A power of two of a word is a number, and the next is twice as much.
Power(k) == 2 ^ k \in Nat /\ 2 ^ k > 0 /\ 2 ^ (k + 1) = 2 * 2 ^ k

LEMMA PowersAreNumbers == \A k \in 0..31 : Power(k)
<1>1. \A k \in 0..7 : Power(k)
  <2>1. /\ Power(0) /\ Power(1) /\ Power(2) /\ Power(3)
        /\ Power(4) /\ Power(5) /\ Power(6) /\ Power(7)
    BY DEF Power
  <2>2. \A k \in 0..7 :
          \/ k = 0 \/ k = 1 \/ k = 2 \/ k = 3
          \/ k = 4 \/ k = 5 \/ k = 6 \/ k = 7
    OBVIOUS
  <2> QED
    BY <2>1, <2>2, Zenon
<1>2. \A k \in 8..15 : Power(k)
  <2>1. /\ Power(8) /\ Power(9) /\ Power(10) /\ Power(11)
        /\ Power(12) /\ Power(13) /\ Power(14) /\ Power(15)
    BY DEF Power
  <2>2. \A k \in 8..15 :
          \/ k = 8 \/ k = 9 \/ k = 10 \/ k = 11
          \/ k = 12 \/ k = 13 \/ k = 14 \/ k = 15
    OBVIOUS
  <2> QED
    BY <2>1, <2>2, Zenon
<1>3. \A k \in 16..23 : Power(k)
  <2>1. /\ Power(16) /\ Power(17) /\ Power(18) /\ Power(19)
        /\ Power(20) /\ Power(21) /\ Power(22) /\ Power(23)
    BY DEF Power
  <2>2. \A k \in 16..23 :
          \/ k = 16 \/ k = 17 \/ k = 18 \/ k = 19
          \/ k = 20 \/ k = 21 \/ k = 22 \/ k = 23
    OBVIOUS
  <2> QED
    BY <2>1, <2>2, Zenon
<1>4. \A k \in 24..31 : Power(k)
  <2>1. /\ Power(24) /\ Power(25) /\ Power(26) /\ Power(27)
        /\ Power(28) /\ Power(29) /\ Power(30) /\ Power(31)
    BY DEF Power
  <2>2. \A k \in 24..31 :
          \/ k = 24 \/ k = 25 \/ k = 26 \/ k = 27
          \/ k = 28 \/ k = 29 \/ k = 30 \/ k = 31
    OBVIOUS
  <2> QED
    BY <2>1, <2>2, Zenon
<1>5. \A k \in 0..31 : k \in 0..7 \/ k \in 8..15 \/ k \in 16..23 \/ k \in 24..31
  OBVIOUS
<1> QED
  BY <1>1, <1>2, <1>3, <1>4, <1>5, Zenon

\* The powers grow: the least one below an earlier one would follow one that is.
LEMMA PowersGrow ==
  ASSUME NEW j \in 0..31, NEW k \in 0..31, j <= k
  PROVE  2 ^ j <= 2 ^ k
<1> DEFINE T == {n \in j..31 : ~(2 ^ j <= 2 ^ n)}
<1>1. SUFFICES ASSUME T # {} PROVE FALSE
  <2>1. k \in j..31 /\ (k \notin T => 2 ^ j <= 2 ^ k)
    OBVIOUS
  <2> QED
    BY <2>1
<1>2. PICK n \in T : \A i \in T : n <= i
  <2>1. T \in SUBSET Nat
    OBVIOUS
  <2> HIDE DEF T
  <2> QED
    BY <1>1, <2>1, LeastNumber
<1>3. n \in j..31 /\ ~(2 ^ j <= 2 ^ n)
  OBVIOUS
<1>4. Power(j) /\ Power(n)
  BY <1>3, PowersAreNumbers
<1>5. n # j
  BY <1>3, <1>4 DEF Power
<1>6. PICK m : m = n - 1
  OBVIOUS
<1>7. m \in j..31 /\ m \in 0..31 /\ m + 1 = n /\ ~(n <= m)
  BY <1>3, <1>5, <1>6
<1>8. 2 ^ j <= 2 ^ m
  BY <1>2, <1>7
<1>9. Power(m)
  BY <1>7, PowersAreNumbers
<1>10. 2 ^ n = 2 * 2 ^ m
  BY <1>7, <1>9 DEF Power
<1> QED
  BY <1>3, <1>4, <1>8, <1>9, <1>10 DEF Power

\* A number of a word has a highest bit.
LEMMA Log2Is ==
  ASSUME NEW n \in Nat, 1 <= n, n < 2 ^ 31
  PROVE  Log2(n) \in 0..30 /\ 2 ^ Log2(n) <= n /\ n < 2 ^ (Log2(n) + 1)
<1> DEFINE T == {k \in 0..30 : n < 2 ^ (k + 1)}
           P(k) == 2 ^ k <= n /\ n < 2 ^ (k + 1)
<1>1. T \in SUBSET Nat /\ 30 \in T
  OBVIOUS
<1>2. PICK k \in T : \A j \in T : k <= j
  <2> HIDE DEF T
  <2> QED
    BY <1>1, LeastNumber
<1>3. k \in 0..30 /\ n < 2 ^ (k + 1)
  OBVIOUS
<1>4. ~(n < 2 ^ k)
  <2>1. CASE k = 0
    <3>1. 2 ^ 0 = 1
      OBVIOUS
    <3> QED
      BY <2>1, <3>1
  <2>2. CASE k # 0
    <3>1. k - 1 \in 0..30 /\ (k - 1) + 1 = k /\ ~(k <= k - 1)
      BY <1>3, <2>2
    <3>2. k - 1 \notin T
      BY <1>2, <3>1
    <3> QED
      BY <3>1, <3>2
  <2> QED
    BY <2>1, <2>2
<1>5. P(k)
  <2>1. Power(k)
    BY <1>3, PowersAreNumbers
  <2> QED
    BY <1>3, <1>4, <2>1 DEF Power
<1> DEFINE l == Log2(n)
<1>6. l \in 0..31 /\ P(l)
  <2> HIDE DEF P
  <2>1. \E j \in 0..31 : P(j)
    BY <1>3, <1>5
  <2>2. l = CHOOSE j \in 0..31 : P(j)
    BY DEF Log2, P
  <2> HIDE DEF l
  <2> QED
    BY <2>1, <2>2
<1> HIDE DEF l
<1>7. l # 31
  <2> SUFFICES ASSUME l = 31 PROVE FALSE
    OBVIOUS
  <2>1. 2 ^ 31 <= n
    BY <1>6
  <2> QED
    BY <2>1
<1>8. l \in 0..30
  BY <1>6, <1>7
<1> QED
  BY <1>6, <1>8 DEF l

\* A function on an interval that is defined from each value to the next exists.
Recursion(f, n, S, first, step) ==
  f \in [0..n -> S] /\ f[0] = first /\ \A i \in 1..n : f[i] = step[i][f[i - 1]]

\* It is that of the numbers up to which there is one.
LEMMA RecursionExists ==
  ASSUME NEW n \in Nat, NEW S, NEW first \in S, NEW step \in [1..n -> [S -> S]]
  PROVE  \E f : Recursion(f, n, S, first, step)
<1> DEFINE Is(f, j) == f \in [0..j -> S] /\ f[0] = first /\ \A i \in 1..j : f[i] = step[i][f[i - 1]]
           H == {j \in 0..n : \E f : Is(f, j)}
<1>1. 0 \in H
  <2>1. Is([i \in 0..0 |-> first], 0)
    OBVIOUS
  <2>2. 0 \in 0..n
    OBVIOUS
  <2> HIDE DEF Is
  <2> QED
    BY <2>1, <2>2
<1>2. ASSUME NEW j \in 1..n, j - 1 \in H PROVE j \in H
  <2>1. PICK k : k = j - 1
    OBVIOUS
  <2>2. k \in 0..n /\ j = k + 1 /\ j \in 0..n
    BY <2>1
  <2>3. PICK f : Is(f, k)
    <3> HIDE DEF Is
    <3> QED
      BY <1>2, <2>1
  <2> DEFINE g == [i \in 0..j |-> IF i = j THEN step[j][f[k]] ELSE f[i]]
  <2>4. f \in [0..k -> S] /\ f[0] = first
    BY <2>3
  <2>5. \A i \in 1..k : f[i] = step[i][f[i - 1]]
    BY <2>3
  <2>6. f[k] \in S /\ step[j][f[k]] \in S
    BY <2>2, <2>4
  <2>7. g \in [0..j -> S]
    <3>1. \A i \in 0..j : i # j => i \in 0..k
      BY <2>2
    <3> QED
      BY <2>4, <2>6, <3>1
  <2>8. g[0] = first
    BY <2>2, <2>4
  <2>9. \A i \in 1..j : g[i] = step[i][g[i - 1]]
    <3> TAKE i \in 1..j
    <3>1. i \in 0..j /\ i - 1 \in 0..j /\ i - 1 # j /\ (i = j => i - 1 = k) /\ (i # j => i \in 1..k)
      BY <2>2
    <3>2. g[i - 1] = f[i - 1] /\ g[i] = IF i = j THEN step[j][f[k]] ELSE f[i]
      BY <3>1
    <3> HIDE DEF g
    <3> QED
      BY <2>5, <3>1, <3>2
  <2> HIDE DEF g
  <2>10. Is(g, j)
    BY <2>7, <2>8, <2>9
  <2> HIDE DEF Is
  <2> QED
    BY <2>2, <2>10
<1>3. n \in H
  <2>1. n \in 0..n
    OBVIOUS
  <2> HIDE DEF H
  <2> QED
    BY <1>1, <1>2, <2>1, UpTo
<1>4. PICK f : Is(f, n)
  <2> HIDE DEF Is
  <2> QED
    BY <1>3
<1> QED
  BY <1>4 DEF Recursion

-----------------------------------------------------------------------------
(* Move to front. *)

\* Where the elements of a list are when one of them is moved to the front.
Fronted(f, list, i, L, S) ==
  /\ f \in [1..L -> S]
  /\ \A j \in 1..L : f[j] = IF j = 1 THEN list[i] ELSE IF j <= i THEN list[j - 1] ELSE list[j]

LEMMA FrontIs ==
  ASSUME NEW S, NEW L \in Nat, NEW list \in [1..L -> S], NEW i \in 1..L
  PROVE  Fronted(ToFront(list, i), list, i, L, S)
<1>1. list \in Seq(S) /\ Len(list) = L
  BY SeqDef
<1>2. PICK a, b : a = SubSeq(list, 1, i - 1) /\ b = SubSeq(list, i + 1, L)
  OBVIOUS
<1>3. a \in Seq(S) /\ Len(a) = i - 1 /\ \A j \in 1..(i - 1) : a[j] = list[j]
  BY <1>1, <1>2
<1>4. b \in Seq(S) /\ Len(b) = L - i /\ \A j \in 1..(L - i) : b[j] = list[j + i]
  BY <1>1, <1>2
<1>5. PICK c : c = a \o b
  OBVIOUS
<1>6. /\ c \in Seq(S) /\ Len(c) = L - 1
      /\ \A j \in 1..(L - 1) : c[j] = IF j <= i - 1 THEN list[j] ELSE list[j + 1]
  <2>1. c \in Seq(S) /\ Len(c) = Len(a) + Len(b)
    BY <1>3, <1>4, <1>5, ConcatProperties
  <2>2. Len(c) = L - 1
    BY <1>3, <1>4, <2>1
  <2>3. \A j \in 1..(L - 1) : c[j] = IF j <= Len(a) THEN a[j] ELSE b[j - Len(a)]
    BY <1>3, <1>4, <1>5, <2>1, <2>2, ConcatProperties
  <2>4. ASSUME NEW j \in 1..(L - 1)
        PROVE  c[j] = IF j <= i - 1 THEN list[j] ELSE list[j + 1]
    <3>1. ~(j <= i - 1) => j - (i - 1) \in 1..(L - i) /\ (j - (i - 1)) + i = j + 1
      OBVIOUS
    <3>2. c[j] = IF j <= i - 1 THEN a[j] ELSE b[j - (i - 1)]
      BY <1>3, <2>3
    <3>3. CASE j <= i - 1
      BY <1>3, <3>2, <3>3
    <3>4. CASE ~(j <= i - 1)
      BY <1>4, <3>1, <3>2, <3>4
    <3> QED
      BY <3>3, <3>4
  <2> QED
    BY <2>1, <2>2, <2>4
<1>7. PICK f : f = <<list[i]>> \o c
  OBVIOUS
<1>8. /\ f \in Seq(S) /\ Len(f) = L
      /\ \A j \in 1..L : f[j] = IF j = 1 THEN list[i] ELSE c[j - 1]
  <2>1. list[i] \in S
    OBVIOUS
  <2> QED
    BY <1>6, <1>7, <2>1
<1>9. ToFront(list, i) = f
  BY <1>1, <1>2, <1>5, <1>7 DEF ToFront, RemoveAt
<1>10. f \in [1..L -> S]
  BY <1>8, SeqDef
<1>11. ASSUME NEW j \in 1..L
       PROVE  f[j] = IF j = 1 THEN list[i] ELSE IF j <= i THEN list[j - 1] ELSE list[j]
  <2>1. j # 1 => j - 1 \in 1..(L - 1) /\ (j - 1) + 1 = j /\ (j - 1 <= i - 1 <=> j <= i)
    OBVIOUS
  <2> QED
    BY <1>6, <1>8, <2>1
<1> QED
  BY <1>9, <1>10, <1>11 DEF Fronted

\* The lists of trees in which each of those up to one occurs.
Lists(L) == {list \in [1..L -> 0..(L - 1)] : \A t \in 0..(L - 1) : \E i \in 1..L : list[i] = t}

LEMMA FrontKeeps ==
  ASSUME NEW L \in Nat, NEW list \in Lists(L), NEW i \in 1..L
  PROVE  ToFront(list, i) \in Lists(L)
<1>1. list \in [1..L -> 0..(L - 1)] /\ \A t \in 0..(L - 1) : \E k \in 1..L : list[k] = t
  BY DEF Lists
<1>2. PICK f : f = ToFront(list, i)
  OBVIOUS
<1>3. /\ f \in [1..L -> 0..(L - 1)]
      /\ \A j \in 1..L : f[j] = IF j = 1 THEN list[i] ELSE IF j <= i THEN list[j - 1] ELSE list[j]
  <2>1. Fronted(ToFront(list, i), list, i, L, 0..(L - 1))
    BY <1>1, FrontIs, Zenon
  <2> QED
    BY <1>2, <2>1 DEF Fronted
<1>4. ASSUME NEW t \in 0..(L - 1) PROVE \E j \in 1..L : f[j] = t
  <2>1. PICK k \in 1..L : list[k] = t
    BY <1>1
  <2>2. CASE k = i
    <3>1. 1 \in 1..L /\ f[1] = t
      BY <1>3, <2>1, <2>2
    <3> QED
      BY <3>1
  <2>3. CASE k < i
    <3>1. k + 1 \in 1..L /\ (k + 1) - 1 = k /\ k + 1 # 1 /\ k + 1 <= i
      BY <2>3
    <3>2. f[k + 1] = t
      BY <1>3, <2>1, <3>1
    <3> QED
      BY <3>1, <3>2
  <2>4. CASE k > i
    <3>1. k # 1 /\ ~(k <= i)
      BY <2>4
    <3>2. f[k] = t
      BY <1>3, <2>1, <3>1
    <3> QED
      BY <3>2
  <2> QED
    BY <2>2, <2>3, <2>4
<1> QED
  BY <1>2, <1>3, <1>4 DEF Lists

LEMMA FirstList ==
  ASSUME NEW n \in Nat
  PROVE  /\ TreesTo(n) \in Lists(n + 1)
         /\ \A j \in 1..(n + 1) : TreesTo(n)[j] = j - 1
<1>1. TreesTo(n) \in [1..(n + 1) -> 0..n] /\ \A j \in 1..(n + 1) : TreesTo(n)[j] = j - 1
  BY DEF TreesTo
<1>2. ASSUME NEW t \in 0..n PROVE \E i \in 1..(n + 1) : TreesTo(n)[i] = t
  <2>1. t + 1 \in 1..(n + 1) /\ (t + 1) - 1 = t
    OBVIOUS
  <2> QED
    BY <1>1, <2>1
<1>3. (n + 1) - 1 = n
  OBVIOUS
<1> QED
  BY <1>1, <1>2, <1>3 DEF Lists

LEMMA IndexIs ==
  ASSUME NEW L \in Nat, NEW list \in Lists(L), NEW t \in 0..(L - 1)
  PROVE  IndexIn(list, t) \in 1..L /\ list[IndexIn(list, t)] = t
<1>1. DOMAIN list = 1..L /\ \E i \in 1..L : list[i] = t
  BY DEF Lists
<1> QED
  BY <1>1 DEF IndexIn

\* Lists of one tree more, which stays where it is.
Kept(n) == {list \in [1..(n + 1) -> 0..n] : \A j \in 1..n : list[j] \in 0..(n - 1)}

LEMMA KeptKeeps ==
  ASSUME NEW n \in Nat, NEW list \in Kept(n), NEW i \in 1..n
  PROVE  ToFront(list, i) \in Kept(n) /\ Fronted(ToFront(list, i), list, i, n + 1, 0..n)
<1>1. list \in [1..(n + 1) -> 0..n] /\ \A j \in 1..n : list[j] \in 0..(n - 1)
  BY DEF Kept
<1>2. Fronted(ToFront(list, i), list, i, n + 1, 0..n)
  <2>1. n + 1 \in Nat /\ i \in 1..(n + 1)
    OBVIOUS
  <2> QED
    BY <1>1, <2>1, FrontIs, Zenon
<1>3. PICK f : f = ToFront(list, i)
  OBVIOUS
<1>4. /\ f \in [1..(n + 1) -> 0..n]
      /\ \A j \in 1..(n + 1) :
           f[j] = IF j = 1 THEN list[i] ELSE IF j <= i THEN list[j - 1] ELSE list[j]
  BY <1>2, <1>3 DEF Fronted
<1>5. ASSUME NEW j \in 1..n PROVE f[j] \in 0..(n - 1)
  <2>1. j \in 1..(n + 1) /\ (j # 1 => j - 1 \in 1..n)
    OBVIOUS
  <2> QED
    BY <1>1, <1>4, <2>1
<1> QED
  BY <1>2, <1>3, <1>4, <1>5 DEF Kept

\* The lists that the decoder goes through, and what it makes of the entries.
InverseLists(dec, entries, n) ==
  /\ dec \in [0..Len(entries) -> Kept(n)] /\ dec[0] = TreesTo(n)
  /\ \A k \in 1..Len(entries) : dec[k] = ToFront(dec[k - 1], entries[k] + 1)
  /\ InverseMoveToFront(entries, n) = [k \in 1..Len(entries) |-> dec[k - 1][entries[k] + 1]]

LEMMA InverseExists ==
  ASSUME NEW n \in Nat \ {0}, NEW entries \in Seq(0..(n - 1))
  PROVE  \E dec : InverseLists(dec, entries, n)
<1> DEFINE N == Len(entries)
           Is(g) == g = [k \in 0..N |-> IF k = 0 THEN TreesTo(n)
                                                 ELSE ToFront(g[k - 1], entries[k] + 1)]
           step == [k \in 1..N |-> [list \in Kept(n) |-> ToFront(list, entries[k] + 1)]]
<1>1. N \in Nat /\ \A k \in 1..N : entries[k] \in 0..(n - 1)
  OBVIOUS
<1>2. TreesTo(n) \in Kept(n)
  <2>1. TreesTo(n) \in [1..(n + 1) -> 0..n] /\ \A j \in 1..n : TreesTo(n)[j] \in 0..(n - 1)
    BY DEF TreesTo
  <2> QED
    BY <2>1 DEF Kept
<1>3. ASSUME NEW list \in Kept(n), NEW k \in 1..N
      PROVE  ToFront(list, entries[k] + 1) \in Kept(n)
  <2>1. entries[k] + 1 \in 1..n
    BY <1>1
  <2> QED
    BY <2>1, KeptKeeps
<1>4. \E g : Is(g)
  <2> HIDE DEF N
  <2>1. step \in [1..N -> [Kept(n) -> Kept(n)]]
    BY <1>3
  <2>2. PICK g : Recursion(g, N, Kept(n), TreesTo(n), step)
    BY <1>1, <1>2, <2>1, RecursionExists, Zenon
  <2>3. /\ g \in [0..N -> Kept(n)] /\ g[0] = TreesTo(n)
        /\ \A k \in 1..N : g[k] = step[k][g[k - 1]]
    BY <2>2 DEF Recursion
  <2>4. \A k \in 1..N : g[k] = ToFront(g[k - 1], entries[k] + 1)
    <3> TAKE k \in 1..N
    <3>1. k - 1 \in 0..N
      BY <1>1
    <3>2. g[k - 1] \in Kept(n)
      BY <2>3, <3>1
    <3> QED
      BY <2>3, <3>2
  <2>5. \A k \in 0..N : g[k] = IF k = 0 THEN TreesTo(n) ELSE ToFront(g[k - 1], entries[k] + 1)
    BY <1>1, <2>3, <2>4
  <2> QED
    BY <2>3, <2>5
<1>5. PICK dec : dec = CHOOSE g : Is(g)
  OBVIOUS
<1>6. Is(dec)
  <2> HIDE DEF Is
  <2> QED
    BY <1>4, <1>5
<1>7. dec[0] = TreesTo(n) /\ \A k \in 1..N : dec[k] = ToFront(dec[k - 1], entries[k] + 1)
  <2> HIDE DEF N
  <2> QED
    BY <1>1, <1>6
<1>8. \A k \in 0..N : dec[k] \in Kept(n)
  <2> DEFINE H == {k \in 0..N : dec[k] \in Kept(n)}
  <2> HIDE DEF N
  <2>1. 0 \in H
    BY <1>1, <1>2, <1>7
  <2>2. \A k \in 1..N : k - 1 \in H => k \in H
    <3> TAKE k \in 1..N
    <3> HAVE k - 1 \in H
    <3>1. dec[k - 1] \in Kept(n) /\ k \in 0..N
      BY <1>1
    <3>2. dec[k] \in Kept(n)
      BY <1>3, <1>7, <3>1
    <3> QED
      BY <3>1, <3>2
  <2>3. \A k \in 0..N : k \in H
    <3> HIDE DEF H
    <3> QED
      BY <1>1, <2>1, <2>2, UpTo
  <2> QED
    BY <2>3
<1>9. InverseMoveToFront(entries, n) = [k \in 1..N |-> dec[k - 1][entries[k] + 1]]
  BY <1>5 DEF InverseMoveToFront
<1>10. dec \in [0..N -> Kept(n)]
  BY <1>6, <1>8
<1> QED
  BY <1>7, <1>9, <1>10 DEF InverseLists

\* Of any entries the decoder makes a map of as many trees as there are, of the
\* same length (inverse_move_to_front).
LEMMA InverseIsMap ==
  ASSUME NEW n \in Nat \ {0}, NEW entries \in Seq(0..(n - 1))
  PROVE  /\ InverseMoveToFront(entries, n) \in Seq(0..(n - 1))
         /\ Len(InverseMoveToFront(entries, n)) = Len(entries)
<1>1. PICK dec : InverseLists(dec, entries, n)
  BY InverseExists
<1>2. PICK N : N = Len(entries)
  OBVIOUS
<1>3. N \in Nat /\ \A k \in 1..N : entries[k] \in 0..(n - 1)
  BY <1>2
<1>4. PICK out : out = InverseMoveToFront(entries, n)
  OBVIOUS
<1>5. out = [k \in 1..N |-> dec[k - 1][entries[k] + 1]] /\ dec \in [0..N -> Kept(n)]
  BY <1>1, <1>2, <1>4 DEF InverseLists
<1>6. ASSUME NEW k \in 1..N PROVE dec[k - 1][entries[k] + 1] \in 0..(n - 1)
  <2>1. k - 1 \in 0..N /\ entries[k] + 1 \in 1..n
    BY <1>3
  <2>2. dec[k - 1] \in Kept(n)
    BY <1>5, <2>1
  <2> QED
    BY <2>1, <2>2 DEF Kept
<1>7. out \in [1..N -> 0..(n - 1)]
  BY <1>5, <1>6
<1>8. out \in Seq(0..(n - 1)) /\ Len(out) = N
  BY <1>3, <1>7, SeqDef
<1> QED
  BY <1>2, <1>4, <1>8

\* The greatest of numbers that are bounded.
LEMMA MaxIs ==
  ASSUME NEW n \in Nat, NEW S \in SUBSET (0..n), S # {}
  PROVE  Max(S) \in S /\ \A y \in S : y <= Max(S)
<1> DEFINE T == {n - x : x \in S}
<1>1. T \in SUBSET Nat /\ T # {}
  <2>1. \A x \in S : n - x \in Nat
    OBVIOUS
  <2> QED
    BY <2>1
<1>2. PICK z \in T : \A y \in T : z <= y
  <2> HIDE DEF T
  <2> QED
    BY <1>1, LeastNumber
<1>3. PICK x \in S : z = n - x
  OBVIOUS
<1>4. \A y \in S : x >= y
  <2> TAKE y \in S
  <2>1. n - y \in T
    OBVIOUS
  <2>2. z <= n - y /\ x \in 0..n /\ y \in 0..n
    BY <1>2, <2>1
  <2> QED
    BY <1>3, <2>2
<1>5. \E m \in S : \A y \in S : m >= y
  BY <1>4
<1>6. PICK m : m = Max(S)
  OBVIOUS
<1>7. m \in S /\ \A y \in S : m >= y
  BY <1>5, <1>6 DEF Max
<1> QED
  BY <1>6, <1>7

\* The lists that the encoder goes through, and what it writes for the values.
MovedLists(enc, map, L) ==
  /\ enc \in [0..Len(map) -> Lists(L)] /\ enc[0] = TreesTo(L - 1)
  /\ \A k \in 1..Len(map) : enc[k] = ToFront(enc[k - 1], IndexIn(enc[k - 1], map[k]))
  /\ MoveToFront(map) = [k \in 1..Len(map) |-> IndexIn(enc[k - 1], map[k]) - 1]

LEMMA MovedExists ==
  ASSUME NEW n \in Nat \ {0}, NEW map \in Seq(0..(n - 1)), map # <<>>
  PROVE  \E L \in 1..n : /\ \A k \in 1..Len(map) : map[k] \in 0..(L - 1)
                         /\ \E enc : MovedLists(enc, map, L)
<1> DEFINE N == Len(map)
           Is(g) == g = [k \in 0..N |-> IF k = 0 THEN TreesTo(Max(ToSet(map)))
                                        ELSE ToFront(g[k - 1], IndexIn(g[k - 1], map[k]))]
<1>1. N \in Nat \ {0} /\ \A k \in 1..N : map[k] \in 0..(n - 1)
  OBVIOUS
<1>2. PICK most : most = Max(ToSet(map))
  OBVIOUS
<1>3. most \in 0..(n - 1) /\ \A k \in 1..N : map[k] \in 0..most
  <2>1. PICK S : S = ToSet(map)
    OBVIOUS
  <2>2. S \in SUBSET (0..(n - 1)) /\ S # {} /\ \A k \in 1..N : map[k] \in S
    BY <1>1, <2>1 DEF ToSet
  <2>3. Max(S) \in S /\ \A y \in S : y <= Max(S)
    <3>1. n - 1 \in Nat
      OBVIOUS
    <3> QED
      BY <2>2, <3>1, MaxIs
  <2> QED
    BY <1>2, <2>1, <2>2, <2>3
<1>4. PICK L : L = most + 1
  OBVIOUS
<1>5. L \in 1..n /\ L \in Nat /\ most = L - 1 /\ \A k \in 1..N : map[k] \in 0..(L - 1)
  BY <1>3, <1>4
<1> DEFINE step == [k \in 1..N |-> [list \in Lists(L) |-> ToFront(list, IndexIn(list, map[k]))]]
<1>6. TreesTo(most) \in Lists(L)
  BY <1>3, <1>4, FirstList
<1>7. ASSUME NEW list \in Lists(L), NEW k \in 1..N
      PROVE  ToFront(list, IndexIn(list, map[k])) \in Lists(L)
  BY <1>5, IndexIs, FrontKeeps
<1>8. \E g : Is(g)
  <2> HIDE DEF N
  <2>1. step \in [1..N -> [Lists(L) -> Lists(L)]]
    BY <1>7
  <2>2. PICK g : Recursion(g, N, Lists(L), TreesTo(most), step)
    <3>1. N \in Nat
      BY <1>1
    <3> QED
      BY <1>6, <2>1, <3>1, RecursionExists, Zenon
  <2>3. /\ g \in [0..N -> Lists(L)] /\ g[0] = TreesTo(most)
        /\ \A k \in 1..N : g[k] = step[k][g[k - 1]]
    BY <2>2 DEF Recursion
  <2>4. \A k \in 1..N : g[k] = ToFront(g[k - 1], IndexIn(g[k - 1], map[k]))
    <3> TAKE k \in 1..N
    <3>1. k - 1 \in 0..N
      BY <1>1
    <3>2. g[k - 1] \in Lists(L)
      BY <2>3, <3>1
    <3> QED
      BY <2>3, <3>2
  <2>5. \A k \in 0..N : g[k] = IF k = 0 THEN TreesTo(most)
                               ELSE ToFront(g[k - 1], IndexIn(g[k - 1], map[k]))
    BY <1>1, <2>3, <2>4
  <2> QED
    BY <1>2, <2>3, <2>5
<1>9. PICK enc : enc = CHOOSE g : Is(g)
  OBVIOUS
<1>10. Is(enc)
  <2> HIDE DEF Is
  <2> QED
    BY <1>8, <1>9
<1>11. /\ enc[0] = TreesTo(most)
       /\ \A k \in 1..N : enc[k] = ToFront(enc[k - 1], IndexIn(enc[k - 1], map[k]))
  <2> HIDE DEF N
  <2> QED
    BY <1>1, <1>2, <1>10
<1>12. \A k \in 0..N : enc[k] \in Lists(L)
  <2> DEFINE H == {k \in 0..N : enc[k] \in Lists(L)}
  <2> HIDE DEF N
  <2>1. 0 \in H
    BY <1>1, <1>6, <1>11
  <2>2. \A k \in 1..N : k - 1 \in H => k \in H
    <3> TAKE k \in 1..N
    <3> HAVE k - 1 \in H
    <3>1. enc[k - 1] \in Lists(L) /\ k \in 0..N
      BY <1>1
    <3>2. enc[k] \in Lists(L)
      BY <1>7, <1>11, <3>1
    <3> QED
      BY <3>1, <3>2
  <2>3. \A k \in 0..N : k \in H
    <3> HIDE DEF H
    <3> QED
      BY <1>1, <2>1, <2>2, UpTo
  <2> QED
    BY <2>3
<1>13. MoveToFront(map) = [k \in 1..N |-> IndexIn(enc[k - 1], map[k]) - 1]
  BY <1>9 DEF MoveToFront
<1>14. enc \in [0..N -> Lists(L)]
  BY <1>10, <1>12
<1>15. MovedLists(enc, map, L)
  BY <1>5, <1>11, <1>13, <1>14 DEF MovedLists
<1> QED
  BY <1>5, <1>15

\* Two lists that begin alike do so when the same element is moved to the front.
LEMMA FrontsAgree ==
  ASSUME NEW L \in Nat, NEW n \in Nat, L <= n, NEW list \in Lists(L), NEW other \in Kept(n),
         \A j \in 1..L : other[j] = list[j], NEW i \in 1..L
  PROVE  \A j \in 1..L : ToFront(other, i)[j] = ToFront(list, i)[j]
<1>1. Fronted(ToFront(list, i), list, i, L, 0..(L - 1))
  <2>1. list \in [1..L -> 0..(L - 1)]
    BY DEF Lists
  <2> QED
    BY <2>1, FrontIs, Zenon
<1>2. Fronted(ToFront(other, i), other, i, n + 1, 0..n)
  <2>1. i \in 1..n
    OBVIOUS
  <2> QED
    BY <2>1, KeptKeeps
<1>3. PICK f, g : f = ToFront(list, i) /\ g = ToFront(other, i)
  OBVIOUS
<1>4. \A j \in 1..L : f[j] = IF j = 1 THEN list[i] ELSE IF j <= i THEN list[j - 1] ELSE list[j]
  BY <1>1, <1>3 DEF Fronted
<1>5. \A j \in 1..L : g[j] = IF j = 1 THEN other[i] ELSE IF j <= i THEN other[j - 1] ELSE other[j]
  BY <1>2, <1>3 DEF Fronted
<1>6. ASSUME NEW j \in 1..L PROVE g[j] = f[j]
  <2>1. j # 1 => j - 1 \in 1..L
    OBVIOUS
  <2>2. other[i] = list[i] /\ other[j] = list[j] /\ (j # 1 => other[j - 1] = list[j - 1])
    BY <2>1
  <2> QED
    BY <1>4, <1>5, <2>2
<1> QED
  BY <1>3, <1>6

\* A map is what the decoder makes of it when it has been moved to the front
\* (move_to_front_transform, inverse_move_to_front).
LEMMA MovedBack ==
  ASSUME NEW n \in Nat \ {0}, NEW map \in Seq(0..(n - 1)), map # <<>>
  PROVE  /\ MoveToFront(map) \in Seq(0..(n - 1)) /\ Len(MoveToFront(map)) = Len(map)
         /\ InverseMoveToFront(MoveToFront(map), n) = map
<1>1. PICK L \in 1..n : /\ \A k \in 1..Len(map) : map[k] \in 0..(L - 1)
                        /\ \E enc : MovedLists(enc, map, L)
  BY MovedExists
<1>2. PICK enc : MovedLists(enc, map, L)
  BY <1>1
<1>3. PICK N : N = Len(map)
  OBVIOUS
<1>4. N \in Nat /\ L \in Nat /\ L <= n /\ \A k \in 1..N : map[k] \in 0..(L - 1)
  BY <1>1, <1>3
<1>5. PICK m : m = MoveToFront(map)
  OBVIOUS
<1>6. /\ enc \in [0..N -> Lists(L)] /\ enc[0] = TreesTo(L - 1)
      /\ \A k \in 1..N : enc[k] = ToFront(enc[k - 1], IndexIn(enc[k - 1], map[k]))
      /\ m = [k \in 1..N |-> IndexIn(enc[k - 1], map[k]) - 1]
  BY <1>2, <1>3, <1>5 DEF MovedLists
<1>7. ASSUME NEW k \in 1..N
      PROVE  /\ k - 1 \in 0..N /\ k \in 0..N /\ enc[k - 1] \in Lists(L)
             /\ m[k] + 1 = IndexIn(enc[k - 1], map[k])
             /\ m[k] + 1 \in 1..L /\ m[k] \in 0..(n - 1)
             /\ enc[k - 1][m[k] + 1] = map[k]
  <2>1. k - 1 \in 0..N /\ k \in 0..N
    BY <1>4
  <2>2. enc[k - 1] \in Lists(L)
    BY <1>6, <2>1
  <2>3. PICK i : i = IndexIn(enc[k - 1], map[k])
    OBVIOUS
  <2>4. i \in 1..L /\ enc[k - 1][i] = map[k]
    <3>1. PICK list, v : list = enc[k - 1] /\ v = map[k]
      OBVIOUS
    <3>2. list \in Lists(L) /\ v \in 0..(L - 1) /\ L \in Nat
      BY <1>4, <2>2, <3>1
    <3>3. IndexIn(list, v) \in 1..L /\ list[IndexIn(list, v)] = v
      BY <3>2, IndexIs
    <3> QED
      BY <2>3, <3>1, <3>3
  <2>5. m[k] = i - 1
    BY <1>6, <2>3
  <2>6. m[k] + 1 = i /\ m[k] \in 0..(n - 1)
    BY <1>4, <2>4, <2>5
  <2> QED
    BY <2>1, <2>2, <2>3, <2>4, <2>6
<1>8. m \in Seq(0..(n - 1)) /\ Len(m) = N
  <2>1. m \in [1..N -> 0..(n - 1)]
    BY <1>6, <1>7
  <2> QED
    BY <1>4, <2>1, SeqDef
<1>9. PICK dec : InverseLists(dec, m, n)
  BY <1>8, InverseExists
<1>10. /\ dec \in [0..N -> Kept(n)] /\ dec[0] = TreesTo(n)
       /\ \A k \in 1..N : dec[k] = ToFront(dec[k - 1], m[k] + 1)
       /\ InverseMoveToFront(m, n) = [k \in 1..N |-> dec[k - 1][m[k] + 1]]
  BY <1>8, <1>9 DEF InverseLists
<1> DEFINE H == {k \in 0..N : \A j \in 1..L : dec[k][j] = enc[k][j]}
<1>11. \A k \in 0..N : k \in H
  <2>1. 0 \in H
    <3>1. \A j \in 1..L : dec[0][j] = j - 1 /\ enc[0][j] = j - 1
      <4>1. L - 1 \in Nat /\ (L - 1) + 1 = L /\ \A j \in 1..L : j \in 1..(n + 1)
        BY <1>4
      <4>2. \A j \in 1..(n + 1) : TreesTo(n)[j] = j - 1
        BY FirstList
      <4>3. \A j \in 1..L : TreesTo(L - 1)[j] = j - 1
        BY <4>1, FirstList
      <4> QED
        BY <1>6, <1>10, <4>1, <4>2, <4>3
    <3> QED
      BY <1>4, <3>1
  <2>2. \A k \in 1..N : k - 1 \in H => k \in H
    <3> TAKE k \in 1..N
    <3> HAVE k - 1 \in H
    <3>1. PICK i, list, other : i = m[k] + 1 /\ list = enc[k - 1] /\ other = dec[k - 1]
      OBVIOUS
    <3>2. list \in Lists(L) /\ other \in Kept(n) /\ i \in 1..L /\ \A j \in 1..L : other[j] = list[j]
      BY <1>7, <1>10, <3>1
    <3>3. \A j \in 1..L : ToFront(other, i)[j] = ToFront(list, i)[j]
      BY <1>4, <3>2, FrontsAgree
    <3>4. dec[k] = ToFront(other, i) /\ enc[k] = ToFront(list, i)
      BY <1>6, <1>7, <1>10, <3>1
    <3> QED
      BY <1>7, <3>3, <3>4
  <2> HIDE DEF H
  <2> QED
    BY <1>4, <2>1, <2>2, UpTo
<1>12. \A k \in 1..N : dec[k - 1][m[k] + 1] = map[k]
  <2> TAKE k \in 1..N
  <2>1. k - 1 \in H
    BY <1>7, <1>11
  <2> QED
    BY <1>7, <2>1
<1>13. [k \in 1..N |-> dec[k - 1][m[k] + 1]] = [k \in 1..N |-> map[k]]
  BY <1>12
<1>14. map = [k \in 1..N |-> map[k]]
  BY <1>3
<1> QED
  BY <1>3, <1>5, <1>8, <1>10, <1>13, <1>14

\* Of a map whose trees come one after another, each for a run of entries, the
\* encoder writes the index of each tree when it is new, and 0 when it is not
\* (write_trivial_context_map).
Rising(map) ==
  map[1] = 0 /\ \A k \in 2..Len(map) : map[k] = map[k - 1] \/ map[k] = map[k - 1] + 1
Rises(map) ==
  [k \in 1..Len(map) |-> IF k = 1 THEN 0 ELSE IF map[k] = map[k - 1] THEN 0 ELSE map[k]]

LEMMA RisingBack ==
  ASSUME NEW n \in Nat \ {0}, NEW map \in Seq(0..(n - 1)), map # <<>>, Rising(map)
  PROVE  /\ Rises(map) \in Seq(0..(n - 1)) /\ Len(Rises(map)) = Len(map)
         /\ InverseMoveToFront(Rises(map), n) = map
<1>1. PICK m, N : m = Rises(map) /\ N = Len(map)
  OBVIOUS
<1>2. N \in Nat \ {0} /\ \A k \in 1..N : map[k] \in 0..(n - 1)
  BY <1>1
<1>3. m = [k \in 1..N |-> IF k = 1 THEN 0 ELSE IF map[k] = map[k - 1] THEN 0 ELSE map[k]]
  BY <1>1 DEF Rises
<1>4. /\ map[1] = 0
      /\ \A k \in 2..N : map[k] = map[k - 1] \/ map[k] = map[k - 1] + 1
  BY <1>1 DEF Rising
<1>5. m \in Seq(0..(n - 1)) /\ Len(m) = N
  <2>1. m \in [1..N -> 0..(n - 1)]
    BY <1>2, <1>3
  <2> QED
    BY <1>2, <2>1, SeqDef
<1>6. PICK dec : InverseLists(dec, m, n)
  BY <1>5, InverseExists
<1>7. /\ dec \in [0..N -> Kept(n)] /\ dec[0] = TreesTo(n)
      /\ \A k \in 1..N : dec[k] = ToFront(dec[k - 1], m[k] + 1)
      /\ InverseMoveToFront(m, n) = [k \in 1..N |-> dec[k - 1][m[k] + 1]]
  BY <1>5, <1>6 DEF InverseLists
<1>8. \A j \in 1..(n + 1) : dec[0][j] = j - 1
  BY <1>7, FirstList
<1> DEFINE At(k, j) == IF j <= map[k] + 1 THEN map[k] + 1 - j ELSE j - 1
           H == {k \in 0..N : k # 0 => \A j \in 1..(n + 1) : dec[k][j] = At(k, j)}
<1>9. ASSUME NEW k \in 1..N
      PROVE  /\ m[k] + 1 \in 1..n
             /\ \A j \in 1..(n + 1) :
                  dec[k][j] = IF j = 1 THEN dec[k - 1][m[k] + 1]
                              ELSE IF j <= m[k] + 1 THEN dec[k - 1][j - 1] ELSE dec[k - 1][j]
  <2>1. k - 1 \in 0..N /\ m[k] \in 0..(n - 1)
    BY <1>2, <1>5
  <2>2. dec[k - 1] \in Kept(n) /\ m[k] + 1 \in 1..n
    <3>1. dec[k - 1] \in Kept(n)
      BY <1>7, <2>1
    <3>2. \A e \in 0..(n - 1) : e + 1 \in 1..n
      OBVIOUS
    <3> QED
      BY <2>1, <3>1, <3>2
  <2>3. Fronted(ToFront(dec[k - 1], m[k] + 1), dec[k - 1], m[k] + 1, n + 1, 0..n)
    BY <2>2, KeptKeeps
  <2>4. Fronted(dec[k], dec[k - 1], m[k] + 1, n + 1, 0..n)
    BY <1>7, <2>3
  <2> QED
    BY <2>2, <2>4 DEF Fronted
<1>10. \A k \in 0..N : k \in H
  <2>1. 0 \in H
    BY <1>2
  <2>2. \A k \in 1..N : k - 1 \in H => k \in H
    <3> TAKE k \in 1..N
    <3> HAVE k - 1 \in H
    <3>1. k \in 0..N /\ k # 0 /\ k - 1 \in 0..N
      BY <1>2
    <3>2. ASSUME NEW j \in 1..(n + 1) PROVE dec[k][j] = At(k, j)
      <4>1. j # 1 => j - 1 \in 1..(n + 1)
        OBVIOUS
      <4>2. CASE k = 1
        <5>1. m[1] = 0 /\ map[1] = 0 /\ 1 \in 1..(n + 1)
          BY <1>2, <1>3, <1>4
        <5>2. dec[0][1] = 0 /\ dec[0][j] = j - 1
          BY <1>8, <5>1
        <5>3. dec[1][j] = IF j = 1 THEN dec[0][1] ELSE IF j <= 1 THEN dec[0][j - 1] ELSE dec[0][j]
          BY <1>9, <4>2, <5>1
        <5> QED
          BY <4>2, <5>1, <5>2, <5>3
      <4>3. CASE k # 1
        <5>1. k \in 2..N /\ k - 1 # 0 /\ k - 1 \in 1..N
          BY <4>3
        <5>2. PICK T, l : T = map[k - 1] /\ l = dec[k - 1]
          OBVIOUS
        <5>3. T \in 0..(n - 1) /\ map[k] \in 0..(n - 1) /\ (map[k] = T \/ map[k] = T + 1)
          BY <1>2, <1>4, <5>1, <5>2
        <5>4. \A i \in 1..(n + 1) : l[i] = IF i <= T + 1 THEN T + 1 - i ELSE i - 1
          BY <5>1, <5>2
        <5>5. m[k] = IF map[k] = T THEN 0 ELSE map[k]
          BY <1>3, <4>3, <5>2
        <5>6. /\ m[k] + 1 \in 1..n
              /\ dec[k][j] = IF j = 1 THEN l[m[k] + 1] ELSE IF j <= m[k] + 1 THEN l[j - 1] ELSE l[j]
          BY <1>9, <5>2
        <5>7. m[k] + 1 \in 1..(n + 1)
          BY <5>6
        <5> HIDE DEF H
        <5>8. CASE map[k] = T
          <6>1. m[k] = 0
            BY <5>5, <5>8
          <6>2. dec[k][j] = l[j]
            BY <5>6, <6>1
          <6> QED
            BY <5>3, <5>4, <5>8, <6>2
        <5>9. CASE map[k] # T
          <6>1. m[k] = T + 1 /\ map[k] = T + 1
            BY <5>3, <5>5, <5>9
          <6>2. l[T + 2] = T + 1
            BY <5>3, <5>4, <5>7, <6>1
          <6>3. dec[k][j] = IF j = 1 THEN T + 1 ELSE IF j <= T + 2 THEN l[j - 1] ELSE l[j]
            BY <5>3, <5>6, <6>1, <6>2
          <6>4. j # 1 => l[j - 1] = IF j - 1 <= T + 1 THEN T + 1 - (j - 1) ELSE (j - 1) - 1
            BY <4>1, <5>4
          <6>5. l[j] = IF j <= T + 1 THEN T + 1 - j ELSE j - 1
            BY <5>4
          <6> QED
            BY <5>3, <6>1, <6>3, <6>4, <6>5
        <5> QED
          BY <5>8, <5>9
      <4> QED
        BY <4>2, <4>3
    <3> QED
      BY <3>1, <3>2
  <2> HIDE DEF H
  <2> QED
    BY <1>2, <2>1, <2>2, UpTo
<1>11. ASSUME NEW k \in 1..N PROVE dec[k - 1][m[k] + 1] = map[k]
  <2>1. 1 \in 1..(n + 1)
    OBVIOUS
  <2>2. CASE k = 1
    BY <1>2, <1>3, <1>4, <1>8, <2>1, <2>2
  <2>3. CASE k # 1
    <3>1. k \in 2..N /\ k - 1 # 0 /\ k - 1 \in 0..N /\ k - 1 \in 1..N
      BY <1>2, <2>3
    <3>2. PICK T, l : T = map[k - 1] /\ l = dec[k - 1]
      OBVIOUS
    <3>3. T \in 0..(n - 1) /\ map[k] \in 0..(n - 1) /\ (map[k] = T \/ map[k] = T + 1)
      BY <1>2, <1>4, <3>1, <3>2
    <3>4. \A i \in 1..(n + 1) : l[i] = IF i <= T + 1 THEN T + 1 - i ELSE i - 1
      BY <1>10, <3>1, <3>2
    <3>5. m[k] = IF map[k] = T THEN 0 ELSE map[k]
      BY <1>3, <2>3, <3>2
    <3>6. m[k] + 1 \in 1..(n + 1)
      BY <1>9
    <3> HIDE DEF H
    <3>7. l[m[k] + 1] = map[k]
      BY <2>1, <3>3, <3>4, <3>5, <3>6
    <3> QED
      BY <3>2, <3>7
  <2> QED
    BY <2>2, <2>3
<1>12. [k \in 1..N |-> dec[k - 1][m[k] + 1]] = [k \in 1..N |-> map[k]]
  BY <1>11
<1>13. map = [k \in 1..N |-> map[k]]
  BY <1>1
<1> QED
  BY <1>1, <1>5, <1>7, <1>12, <1>13

-----------------------------------------------------------------------------
(* Runs of zeros. *)

Symbols == [symbol : Nat, extra : Nat]

\* A symbol stands for the elements of s after the a-th up to the b-th, when no
\* symbol of a length is above p.
Stands(x, s, a, b, p) ==
  /\ b \in (a + 1)..Len(s)
  /\ \/ x.symbol = 0 /\ b = a + 1 /\ s[b] = 0
     \/ /\ x.symbol \in 1..p /\ x.extra < 2 ^ x.symbol /\ b = a + (2 ^ x.symbol + x.extra)
        /\ \A i \in (a + 1)..b : s[i] = 0
     \/ x.symbol > p /\ b = a + 1 /\ s[b] = x.symbol - p

Cuts(c, t, s, b, p) ==
  /\ c \in [0..Len(t) -> 0..Len(s)] /\ c[0] = 0 /\ c[Len(t)] = b
  /\ \A j \in 1..Len(t) : Stands(t[j], s, c[j - 1], c[j], p)

\* Symbols stand for the elements up to the b-th.
Covers(t, s, b, p) == t \in Seq(Symbols) /\ \E c : Cuts(c, t, s, b, p)

LEMMA CoversNone ==
  ASSUME NEW s \in Seq(Nat), NEW p \in Nat
  PROVE  Covers(<<>>, s, 0, p)
<1>1. Cuts([j \in 0..0 |-> 0], <<>>, s, 0, p)
  BY DEF Cuts
<1> QED
  BY <1>1 DEF Covers

LEMMA CoversMore ==
  ASSUME NEW s \in Seq(Nat), NEW p \in Nat, NEW t, NEW a, Covers(t, s, a, p),
         NEW x \in Symbols, NEW b, Stands(x, s, a, b, p)
  PROVE  Covers(Append(t, x), s, b, p)
<1>1. t \in Seq(Symbols)
  BY DEF Covers
<1>2. PICK c : Cuts(c, t, s, a, p)
  BY DEF Covers
<1>3. PICK n : n = Len(t)
  OBVIOUS
<1>4. n \in Nat /\ c \in [0..n -> 0..Len(s)] /\ c[0] = 0 /\ c[n] = a
  BY <1>1, <1>2, <1>3 DEF Cuts
<1>5. \A j \in 1..n : Stands(t[j], s, c[j - 1], c[j], p)
  BY <1>2, <1>3 DEF Cuts
<1>6. a \in 0..Len(s) /\ b \in 0..Len(s)
  BY <1>4 DEF Stands
<1>7. PICK u : u = Append(t, x)
  OBVIOUS
<1>8. u \in Seq(Symbols) /\ Len(u) = n + 1 /\ u[n + 1] = x /\ \A j \in 1..n : u[j] = t[j]
  BY <1>1, <1>3, <1>7, AppendProperties
<1> DEFINE d == [j \in 0..(n + 1) |-> IF j = n + 1 THEN b ELSE c[j]]
<1>9. d \in [0..(n + 1) -> 0..Len(s)] /\ d[0] = 0 /\ d[n + 1] = b /\ \A j \in 0..n : d[j] = c[j]
  BY <1>4, <1>6
<1> HIDE DEF d
<1>10. ASSUME NEW j \in 1..(n + 1) PROVE Stands(u[j], s, d[j - 1], d[j], p)
  <2>1. j - 1 \in 0..n /\ (j # n + 1 => j \in 0..n /\ j \in 1..n)
    BY <1>4
  <2>2. CASE j = n + 1
    <3>1. d[j - 1] = a /\ d[j] = b /\ u[j] = x
      BY <1>4, <1>8, <1>9, <2>1, <2>2
    <3> QED
      BY <3>1
  <2>3. CASE j # n + 1
    <3>1. d[j - 1] = c[j - 1] /\ d[j] = c[j] /\ u[j] = t[j]
      BY <1>8, <1>9, <2>1, <2>3
    <3> QED
      BY <1>5, <2>1, <2>3, <3>1
  <2> QED
    BY <2>2, <2>3
<1>11. Cuts(d, u, s, b, p)
  BY <1>8, <1>9, <1>10 DEF Cuts
<1> QED
  BY <1>7, <1>8, <1>11 DEF Covers

\* The symbols of a run of k zeros, from those of shorter runs.
RunOf(run, k, p) ==
  IF k = 0 THEN <<>>
  ELSE IF RunIsWhole(k, p) THEN <<Symbol(Log2(k), k - 2 ^ Log2(k))>>
  ELSE <<Symbol(p, 2 ^ p - 1)>> \o run[k - (2 ^ (p + 1) - 1)]
Runs(run, n, p) == run \in [0..n -> Seq(Symbols)] /\ \A k \in 0..n : run[k] = RunOf(run, k, p)

\* What the numbers of a run are: the length symbols, and what they count.
LEMMA RunNumbers ==
  ASSUME NEW p \in 0..16, NEW k \in Nat \ {0}
  PROVE  /\ 2 ^ p \in Nat \ {0} /\ 2 ^ (p + 1) = 2 * 2 ^ p
         /\ Symbol(p, 2 ^ p - 1) \in Symbols
         /\ RunIsWhole(k, p) =>
              /\ Log2(k) \in 0..p /\ 2 ^ Log2(k) \in Nat \ {0}
              /\ 2 ^ Log2(k) <= k /\ k - 2 ^ Log2(k) < 2 ^ Log2(k)
              /\ Symbol(Log2(k), k - 2 ^ Log2(k)) \in Symbols
         /\ ~ RunIsWhole(k, p) => k > 2 * 2 ^ p - 1
<1>1. Power(p) /\ Power(p + 1) /\ p + 1 \in 0..31
  BY PowersAreNumbers
<1>2. 2 ^ p \in Nat \ {0} /\ 2 ^ (p + 1) = 2 * 2 ^ p
  BY <1>1 DEF Power
<1>3. Symbol(p, 2 ^ p - 1) \in Symbols
  BY <1>2 DEF Symbol, Symbols
<1>4. ASSUME RunIsWhole(k, p)
      PROVE  /\ Log2(k) \in 0..p /\ 2 ^ Log2(k) \in Nat \ {0}
             /\ 2 ^ Log2(k) <= k /\ k - 2 ^ Log2(k) < 2 ^ Log2(k)
             /\ Symbol(Log2(k), k - 2 ^ Log2(k)) \in Symbols
  <2>1. k < 2 ^ (p + 1)
    BY <1>4 DEF RunIsWhole
  <2>2. 2 ^ (p + 1) <= 2 ^ 31
    <3>1. PICK q : q = p + 1
      OBVIOUS
    <3>2. q \in 0..31 /\ 31 \in 0..31 /\ q <= 31
      BY <1>1, <3>1
    <3>3. 2 ^ q <= 2 ^ 31
      BY <3>2, PowersGrow, Zenon
    <3> QED
      BY <3>1, <3>3, Zenon
  <2>3. k < 2 ^ 31
    BY <1>1, <2>1, <2>2 DEF Power
  <2>4. PICK e : e = Log2(k)
    OBVIOUS
  <2>5. e \in 0..30 /\ 2 ^ e <= k /\ k < 2 ^ (e + 1)
    BY <2>3, <2>4, Log2Is
  <2>6. Power(e)
    BY <2>5, PowersAreNumbers
  <2>7. e <= p
    <3>1. SUFFICES ASSUME p + 1 <= e PROVE FALSE
      BY <2>5
    <3>2. 2 ^ (p + 1) <= 2 ^ e
      <4>1. PICK q : q = p + 1
        OBVIOUS
      <4>2. q \in 0..31 /\ e \in 0..31 /\ q <= e
        BY <1>1, <2>5, <3>1, <4>1
      <4>3. 2 ^ q <= 2 ^ e
        BY <4>2, PowersGrow, Zenon
      <4> QED
        BY <4>1, <4>3, Zenon
    <3> QED
      BY <1>1, <2>1, <2>5, <2>6, <3>2 DEF Power
  <2>8. 2 ^ e \in Nat \ {0} /\ k - 2 ^ e < 2 ^ e /\ k - 2 ^ e \in Nat
    BY <2>5, <2>6 DEF Power
  <2>9. Symbol(e, k - 2 ^ e) \in Symbols
    BY <2>5, <2>8 DEF Symbol, Symbols
  <2> QED
    BY <2>4, <2>5, <2>7, <2>8, <2>9
<1>5. ~ RunIsWhole(k, p) => k > 2 * 2 ^ p - 1
  BY <1>2 DEF RunIsWhole
<1> QED
  BY <1>2, <1>3, <1>4, <1>5

LEMMA RunOfIs ==
  ASSUME NEW p \in 0..16, NEW n \in Nat, NEW k \in 0..n,
         NEW run, \A i \in 0..n : i < k => run[i] \in Seq(Symbols)
  PROVE  RunOf(run, k, p) \in Seq(Symbols)
<1>1. CASE k = 0
  BY <1>1 DEF RunOf
<1>2. CASE k # 0
  <2>1. k \in Nat \ {0}
    BY <1>2
  <2>2. CASE RunIsWhole(k, p)
    <3>1. PICK x : x = Symbol(Log2(k), k - 2 ^ Log2(k))
      OBVIOUS
    <3>2. x \in Symbols
      BY <2>1, <2>2, <3>1, RunNumbers
    <3>3. RunOf(run, k, p) = <<x>>
      BY <1>2, <2>2, <3>1 DEF RunOf
    <3> QED
      BY <3>2, <3>3
  <2>3. CASE ~ RunIsWhole(k, p)
    <3>1. PICK C : C = 2 ^ (p + 1) - 1
      OBVIOUS
    <3>2. C \in Nat \ {0} /\ k > C
      <4>1. PICK w : w = 2 ^ p
        OBVIOUS
      <4>2. 2 ^ (p + 1) = 2 * w /\ w \in Nat \ {0} /\ k > 2 * w - 1
        BY <2>1, <2>3, <4>1, RunNumbers
      <4> QED
        BY <2>1, <3>1, <4>2
    <3>3. k - C \in 0..n /\ k - C < k
      BY <3>2
    <3>4. run[k - C] \in Seq(Symbols) /\ Symbol(p, 2 ^ p - 1) \in Symbols
      BY <2>1, <3>3, RunNumbers
    <3>5. <<Symbol(p, 2 ^ p - 1)>> \o run[k - C] \in Seq(Symbols)
      BY <3>4
    <3> QED
      BY <1>2, <2>3, <3>1, <3>5 DEF RunOf
  <2> QED
    BY <2>2, <2>3
<1> QED
  BY <1>1, <1>2

\* It depends on shorter runs only.
SameRun(run, other, k, p) == RunOf(run, k, p) = RunOf(other, k, p)

LEMMA RunOfAgrees ==
  ASSUME NEW p \in 0..16, NEW n \in Nat, NEW k \in 0..n,
         NEW run, NEW other, \A i \in 0..n : i < k => run[i] = other[i]
  PROVE  SameRun(run, other, k, p)
<1> SUFFICES RunOf(run, k, p) = RunOf(other, k, p)
  BY DEF SameRun
<1>1. CASE k = 0 \/ RunIsWhole(k, p)
  BY <1>1 DEF RunOf
<1>2. CASE k # 0 /\ ~ RunIsWhole(k, p)
  <2>1. PICK C : C = 2 ^ (p + 1) - 1
    OBVIOUS
  <2>2. C \in Nat \ {0} /\ k > C
    <3>1. PICK w : w = 2 ^ p
      OBVIOUS
    <3>2. k \in Nat \ {0}
      BY <1>2
    <3>3. 2 ^ (p + 1) = 2 * w /\ w \in Nat \ {0} /\ k > 2 * w - 1
      BY <1>2, <3>1, <3>2, RunNumbers
    <3> QED
      BY <2>1, <3>3
  <2>3. k - C \in 0..n /\ k - C < k
    BY <2>2
  <2>4. run[k - C] = other[k - C]
    BY <2>3
  <2> QED
    BY <1>2, <2>1, <2>4 DEF RunOf
<1> QED
  BY <1>1, <1>2

LEMMA RunsExist ==
  ASSUME NEW p \in 0..16, NEW n \in Nat
  PROVE  \E run : Runs(run, n, p) /\ RunSymbols(n, p) = run[n]
<1> DEFINE H == {j \in 0..n : \E run : Runs(run, j, p)}
<1>1. 0 \in H
  <2>1. Runs([k \in 0..0 |-> <<>>], 0, p)
    BY DEF Runs, RunOf
  <2> QED
    BY <2>1
<1>2. ASSUME NEW j \in 1..n, j - 1 \in H PROVE j \in H
  <2>1. PICK i : i = j - 1
    OBVIOUS
  <2>2. i \in Nat /\ i \in 0..n /\ j = i + 1 /\ j \in 0..n /\ j \in Nat
    BY <2>1
  <2>3. PICK run : Runs(run, i, p)
    BY <1>2, <2>1
  <2> DEFINE new == [k \in 0..j |-> IF k = j THEN RunOf(run, j, p) ELSE run[k]]
  <2>4. run \in [0..i -> Seq(Symbols)] /\ \A k \in 0..i : run[k] = RunOf(run, k, p)
    BY <2>3 DEF Runs
  <2>5. \A k \in 0..j : k < j => k \in 0..i
    BY <2>2
  <2>6. RunOf(run, j, p) \in Seq(Symbols)
    <3>1. \A k \in 0..j : k < j => run[k] \in Seq(Symbols)
      BY <2>4, <2>5
    <3>2. j \in 0..j
      BY <2>2
    <3> QED
      BY <2>2, <3>1, <3>2, RunOfIs, Zenon
  <2>7. \A k \in 0..j : (k = j => new[k] = RunOf(run, j, p)) /\ (k # j => new[k] = run[k])
    OBVIOUS
  <2>8. new \in [0..j -> Seq(Symbols)]
    <3>1. \A k \in 0..j : k # j => k \in 0..i
      BY <2>2
    <3> QED
      BY <2>4, <2>6, <3>1
  <2> HIDE DEF new, H
  <2>9. ASSUME NEW k \in 0..j PROVE new[k] = RunOf(new, k, p)
    <3>1. \A l \in 0..j : l < k => run[l] = new[l]
      BY <2>2, <2>7
    <3>2. RunOf(run, k, p) = RunOf(new, k, p)
      <4>1. PICK N, old, other : N = j /\ old = run /\ other = new
        OBVIOUS
      <4>2. N \in Nat /\ k \in 0..N /\ \A l \in 0..N : l < k => old[l] = other[l]
        BY <2>2, <3>1, <4>1
      <4>3. SameRun(old, other, k, p)
        BY <4>2, RunOfAgrees, Zenon
      <4> QED
        BY <4>1, <4>3 DEF SameRun
    <3>3. k # j => run[k] = RunOf(run, k, p)
      BY <2>2, <2>4
    <3> QED
      BY <2>7, <3>2, <3>3
  <2>10. Runs(new, j, p)
    BY <2>8, <2>9 DEF Runs
  <2> QED
    BY <2>2, <2>10 DEF H
<1>3. PICK known : Runs(known, n, p)
  <2>1. n \in 0..n
    OBVIOUS
  <2>2. n \in H
    <3> HIDE DEF H
    <3> QED
      BY <1>1, <1>2, <2>1, UpTo
  <2> QED
    BY <2>2
<1> DEFINE Is(g) == g = [k \in 0..n |-> IF k = 0 THEN <<>>
                          ELSE IF RunIsWhole(k, p) THEN <<Symbol(Log2(k), k - 2 ^ Log2(k))>>
                          ELSE <<Symbol(p, 2 ^ p - 1)>> \o g[k - (2 ^ (p + 1) - 1)]]
<1>4. Is(known)
  BY <1>3 DEF Runs, RunOf
<1>5. PICK run : run = CHOOSE g : Is(g)
  OBVIOUS
<1>6. Is(run)
  <2> HIDE DEF Is
  <2> QED
    BY <1>4, <1>5
<1>7. DOMAIN run = 0..n /\ \A k \in 0..n : run[k] = RunOf(run, k, p)
  BY <1>6 DEF RunOf
<1>8. \A k \in 0..n : run[k] \in Seq(Symbols)
  <2> DEFINE T == {k \in 0..n : run[k] \notin Seq(Symbols)}
  <2>1. SUFFICES ASSUME T # {} PROVE FALSE
    OBVIOUS
  <2>2. PICK k \in T : \A i \in T : k <= i
    <3>1. T \in SUBSET Nat
      OBVIOUS
    <3> HIDE DEF T
    <3> QED
      BY <2>1, <3>1, LeastNumber
  <2>3. k \in 0..n /\ run[k] \notin Seq(Symbols)
    OBVIOUS
  <2>4. \A i \in 0..n : i < k => run[i] \in Seq(Symbols)
    BY <2>2, <2>3
  <2> HIDE DEF T
  <2> QED
    BY <1>7, <2>3, <2>4, RunOfIs
<1>9. RunSymbols(n, p) = run[n]
  BY <1>5 DEF RunSymbols
<1>10. run \in [0..n -> Seq(Symbols)]
  <2>1. run = [k \in 0..n |-> run[k]]
    BY <1>6
  <2> QED
    BY <1>8, <2>1
<1> QED
  BY <1>7, <1>9, <1>10 DEF Runs

LEMMA RunIsSymbols ==
  ASSUME NEW p \in 0..16, NEW n \in Nat
  PROVE  RunSymbols(n, p) \in Seq(Symbols)
<1>1. PICK run : Runs(run, n, p) /\ RunSymbols(n, p) = run[n]
  BY RunsExist
<1>2. n \in 0..n
  OBVIOUS
<1> QED
  BY <1>1, <1>2 DEF Runs

\* After symbols that stand for a elements, those of a run of k zeros stand for
\* the k zeros that follow.
Follow(t, r, s, a, k, p) ==
  Covers(t, s, a, p) /\ a + k <= Len(s) /\ (\A i \in (a + 1)..(a + k) : s[i] = 0)
    => Covers(t \o r, s, a + k, p)

LEMMA ConcatMore ==
  ASSUME NEW t \in Seq(Symbols), NEW x \in Symbols, NEW r \in Seq(Symbols)
  PROVE  t \o (<<x>> \o r) = Append(t, x) \o r /\ t \o <<x>> = Append(t, x)
<1>1. <<x>> \in Seq(Symbols)
  OBVIOUS
<1>2. t \o <<x>> = Append(t, x)
  BY AppendIsConcat
<1>3. t \o (<<x>> \o r) = (t \o <<x>>) \o r
  BY <1>1, ConcatAssociative
<1> QED
  BY <1>2, <1>3

\* A length symbol stands for as many zeros as it counts.
LEMMA LengthStands ==
  ASSUME NEW s \in Seq(Nat), NEW p \in 0..16, NEW e \in 0..p, NEW w, w = 2 ^ e, w \in Nat,
         NEW x \in Nat, x < w, NEW a \in Nat, a + (w + x) <= Len(s), w > 0,
         \A i \in (a + 1)..(a + (w + x)) : s[i] = 0
  PROVE  Stands(Symbol(e, x), s, a, a + (w + x), p)
<1>1. PICK b : b = a + (w + x)
  OBVIOUS
<1>2. b \in (a + 1)..Len(s) /\ b \in (a + 1)..b
  BY <1>1
<1>3. CASE e = 0
  <2>1. w = 1 /\ x = 0
    <3>1. 2 ^ 0 = 1
      OBVIOUS
    <3> QED
      BY <1>3, <3>1
  <2>2. b = a + 1 /\ s[b] = 0
    BY <1>1, <1>2, <2>1
  <2> QED
    BY <1>1, <1>2, <1>3, <2>2 DEF Stands, Symbol
<1>4. CASE e # 0
  <2>1. e \in 1..p
    BY <1>4
  <2> QED
    BY <1>1, <1>2, <2>1 DEF Stands, Symbol
<1> QED
  BY <1>3, <1>4

LEMMA RunCovers ==
  ASSUME NEW s \in Seq(Nat), NEW p \in 0..16, NEW n \in Nat, NEW t, NEW a,
         Covers(t, s, a, p), a + n <= Len(s), \A i \in (a + 1)..(a + n) : s[i] = 0
  PROVE  Covers(t \o RunSymbols(n, p), s, a + n, p)
<1>1. PICK run : Runs(run, n, p) /\ RunSymbols(n, p) = run[n]
  BY RunsExist
<1>2. run \in [0..n -> Seq(Symbols)] /\ \A k \in 0..n : run[k] = RunOf(run, k, p)
  BY <1>1 DEF Runs
<1> DEFINE Good(k) == \A u, b : Follow(u, run[k], s, b, k, p)
           T == {k \in 0..n : ~ Good(k)}
<1>3. T = {}
  <2>1. SUFFICES ASSUME T # {} PROVE FALSE
    OBVIOUS
  <2>2. PICK k \in T : \A i \in T : k <= i
    <3>1. T \in SUBSET Nat
      OBVIOUS
    <3> HIDE DEF T
    <3> QED
      BY <2>1, <3>1, LeastNumber
  <2>3. k \in 0..n /\ ~ Good(k) /\ \A i \in 0..n : i < k => Good(i)
    <3>1. k \in 0..n /\ ~ Good(k)
      OBVIOUS
    <3>2. ASSUME NEW i \in 0..n, i < k PROVE Good(i)
      <4>1. i \notin T
        <5> HIDE DEF T
        <5> QED
          BY <2>2, <3>1, <3>2
      <4> QED
        BY <4>1
    <3> QED
      BY <3>1, <3>2
  <2> HIDE DEF T
  <2>4. PICK u, b : ~ Follow(u, run[k], s, b, k, p)
    BY <2>3
  <2>5. /\ Covers(u, s, b, p) /\ b + k <= Len(s) /\ \A i \in (b + 1)..(b + k) : s[i] = 0
        /\ ~ Covers(u \o run[k], s, b + k, p)
    BY <2>4 DEF Follow
  <2>6. u \in Seq(Symbols) /\ b \in 0..Len(s) /\ k \in Nat
    <3>1. PICK c : Cuts(c, u, s, b, p)
      BY <2>5 DEF Covers
    <3>2. u \in Seq(Symbols)
      BY <2>5 DEF Covers
    <3>3. Len(u) \in 0..Len(u) /\ c \in [0..Len(u) -> 0..Len(s)] /\ c[Len(u)] = b
      BY <3>1, <3>2 DEF Cuts
    <3>4. b \in 0..Len(s)
      BY <3>3
    <3> QED
      BY <2>3, <3>2, <3>4
  <2>7. run[k] = RunOf(run, k, p)
    BY <1>2, <2>3
  <2>8. CASE k = 0
    <3>1. run[k] = <<>> /\ u \o <<>> = u /\ b + k = b
      BY <2>6, <2>7, <2>8 DEF RunOf
    <3> QED
      BY <2>5, <3>1
  <2>9. CASE k # 0 /\ RunIsWhole(k, p)
    <3>1. PICK e, w, x : e = Log2(k) /\ w = 2 ^ e /\ x = k - w
      OBVIOUS
    <3>2. k \in Nat \ {0}
      BY <2>6, <2>9
    <3>3. /\ e \in 0..p /\ w \in Nat /\ w > 0 /\ x \in Nat /\ x < w
          /\ w + x = k /\ Symbol(e, x) \in Symbols
      <4>1. /\ e \in 0..p /\ w \in Nat \ {0} /\ w <= k /\ k - w < w /\ Symbol(e, k - w) \in Symbols
        <5>1. /\ Log2(k) \in 0..p /\ 2 ^ Log2(k) \in Nat \ {0}
              /\ 2 ^ Log2(k) <= k /\ k - 2 ^ Log2(k) < 2 ^ Log2(k)
              /\ Symbol(Log2(k), k - 2 ^ Log2(k)) \in Symbols
          BY <2>9, <3>2, RunNumbers, Zenon
        <5> QED
          BY <3>1, <5>1
      <4>2. k \in Nat /\ x = k - w
        BY <3>1, <3>2
      <4>3. w \in Nat /\ w > 0 /\ x \in Nat /\ x < w /\ w + x = k
        BY <4>1, <4>2
      <4> QED
        BY <4>1, <4>2, <4>3
    <3>4. Stands(Symbol(e, x), s, b, b + (w + x), p)
      <4>1. b + (w + x) <= Len(s) /\ \A i \in (b + 1)..(b + (w + x)) : s[i] = 0
        BY <2>5, <3>3
      <4>2. b \in Nat
        BY <2>6
      <4> QED
        BY <2>6, <3>1, <3>3, <4>1, <4>2, LengthStands, Zenon
    <3>5. run[k] = <<Symbol(e, x)>>
      BY <2>7, <2>9, <3>1 DEF RunOf
    <3>6. Covers(Append(u, Symbol(e, x)), s, b + k, p)
      <4>1. Stands(Symbol(e, x), s, b, b + k, p) /\ p \in Nat
        BY <3>3, <3>4
      <4> QED
        BY <2>5, <3>3, <4>1, CoversMore
    <3>7. u \o run[k] = Append(u, Symbol(e, x))
      <4>1. PICK y : y = Symbol(e, x)
        OBVIOUS
      <4>2. <<>> \in Seq(Symbols) /\ y \in Symbols
        BY <3>3, <4>1
      <4> QED
        BY <2>6, <3>5, <4>1, <4>2, ConcatMore
    <3> QED
      BY <2>5, <3>6, <3>7
  <2>10. CASE k # 0 /\ ~ RunIsWhole(k, p)
    <3>1. PICK w, x, y, C : w = 2 ^ p /\ x = w - 1 /\ y = Symbol(p, x) /\ C = 2 ^ (p + 1) - 1
      OBVIOUS
    <3>2. k \in Nat \ {0}
      BY <2>6, <2>10
    <3>3. w \in Nat /\ w > 0 /\ x \in Nat /\ x < w /\ C = w + x /\ y \in Symbols /\ k > C
      <4>1. w \in Nat \ {0} /\ 2 ^ (p + 1) = 2 * w /\ Symbol(p, w - 1) \in Symbols /\ k > 2 * w - 1
        BY <2>10, <3>1, <3>2, RunNumbers
      <4> QED
        BY <3>1, <4>1
    <3>4. Stands(y, s, b, b + (w + x), p)
      <4>1. b + (w + x) <= Len(s) /\ \A i \in (b + 1)..(b + (w + x)) : s[i] = 0
        BY <2>5, <2>6, <3>3
      <4>2. p \in 0..p /\ b \in Nat
        BY <2>6
      <4> QED
        BY <2>6, <3>1, <3>3, <4>1, <4>2, LengthStands, Zenon
    <3>5. Covers(Append(u, y), s, b + C, p)
      <4>1. Stands(y, s, b, b + C, p) /\ p \in Nat
        BY <3>3, <3>4
      <4> QED
        BY <2>5, <3>3, <4>1, CoversMore
    <3>6. PICK d, l : d = b + C /\ l = k - C
      OBVIOUS
    <3>7. l \in 0..n /\ l < k /\ d + l = b + k /\ \A i \in (d + 1)..(d + l) : i \in (b + 1)..(b + k)
      BY <2>3, <2>6, <3>3, <3>6
    <3>8. Covers(Append(u, y) \o run[l], s, d + l, p)
      <4>1. Follow(Append(u, y), run[l], s, d, l, p)
        BY <2>3, <3>7
      <4>2. d + l <= Len(s) /\ \A i \in (d + 1)..(d + l) : s[i] = 0
        BY <2>5, <3>7
      <4> QED
        BY <3>5, <3>6, <4>1, <4>2 DEF Follow
    <3>9. run[k] = <<y>> \o run[l]
      BY <2>7, <2>10, <3>1, <3>6 DEF RunOf
    <3>10. u \o run[k] = Append(u, y) \o run[l]
      <4>1. PICK r : r = run[l]
        OBVIOUS
      <4>2. r \in Seq(Symbols)
        BY <1>2, <3>7, <4>1
      <4>3. u \o (<<y>> \o r) = Append(u, y) \o r
        BY <2>6, <3>3, <4>2, ConcatMore
      <4> QED
        BY <3>9, <4>1, <4>3
    <3> QED
      BY <2>5, <3>7, <3>8, <3>10
  <2> QED
    BY <2>8, <2>9, <2>10
<1>4. Good(n)
  <2>1. n \in 0..n
    OBVIOUS
  <2> QED
    BY <1>3, <2>1
<1>5. Follow(t, run[n], s, a, n, p)
  BY <1>4
<1> QED
  BY <1>1, <1>5 DEF Follow

\* What is written of elements stands for them all (run_length_code_zeros).
LEMMA LengthsCover ==
  ASSUME NEW s \in Seq(Nat), NEW p \in 0..16
  PROVE  Covers(RunLengths(s, p), s, Len(s), p)
<1> DEFINE N == Len(s)
           After(g, n) == IF s[n] = 0 THEN [run |-> g.run + 1, out |-> g.out]
                          ELSE [run |-> 0, out |-> Append(g.out \o RunSymbols(g.run, p),
                                                          Symbol(s[n] + p, 0))]
           first == [run |-> 0, out |-> <<>>]
           Is(g) == g = [n \in 0..N |-> IF n = 0 THEN first ELSE After(g[n - 1], n)]
           States == [run : Nat, out : Seq(Symbols)]
           step == [n \in 1..N |-> [g \in States |-> After(g, n)]]
<1>1. N \in Nat /\ \A n \in 1..N : s[n] \in Nat
  OBVIOUS
<1>2. ASSUME NEW g \in States, NEW n \in 1..N PROVE After(g, n) \in States
  <2>1. g.run \in Nat /\ g.out \in Seq(Symbols)
    OBVIOUS
  <2>2. RunSymbols(g.run, p) \in Seq(Symbols)
    BY <2>1, RunIsSymbols
  <2>3. Symbol(s[n] + p, 0) \in Symbols
    BY <1>1 DEF Symbol, Symbols
  <2>4. Append(g.out \o RunSymbols(g.run, p), Symbol(s[n] + p, 0)) \in Seq(Symbols)
    BY <2>1, <2>2, <2>3, ConcatProperties, AppendProperties
  <2> QED
    BY <2>1, <2>4
<1>3. \E g : Is(g)
  <2> HIDE DEF N, After, States
  <2>1. step \in [1..N -> [States -> States]] /\ first \in States
    <3>1. first \in States
      BY DEF States
    <3> QED
      BY <1>2, <3>1
  <2>2. PICK g : Recursion(g, N, States, first, step)
    <3> HIDE DEF step, first
    <3> QED
      BY <1>1, <2>1, RecursionExists, Zenon
  <2>3. g \in [0..N -> States] /\ g[0] = first /\ \A n \in 1..N : g[n] = step[n][g[n - 1]]
    BY <2>2 DEF Recursion
  <2>4. \A n \in 1..N : g[n] = After(g[n - 1], n)
    <3> TAKE n \in 1..N
    <3>1. n - 1 \in 0..N
      BY <1>1
    <3>2. g[n - 1] \in States
      BY <2>3, <3>1
    <3> QED
      BY <2>3, <3>2
  <2>5. \A n \in 0..N : g[n] = IF n = 0 THEN first ELSE After(g[n - 1], n)
    <3> HIDE DEF first
    <3> QED
      BY <1>1, <2>3, <2>4
  <2> QED
    BY <2>3, <2>5
<1>4. PICK after : after = CHOOSE g : Is(g)
  OBVIOUS
<1>5. Is(after)
  <2> HIDE DEF Is
  <2> QED
    BY <1>3, <1>4
<1>6. RunLengths(s, p) = after[N].out \o RunSymbols(after[N].run, p)
  BY <1>4 DEF RunLengths
<1>7. after[0] = first /\ \A n \in 1..N : after[n] = After(after[n - 1], n)
  <2> HIDE DEF N, first, After
  <2> QED
    BY <1>1, <1>5
<1> DEFINE Fits(g, n) == /\ g.run \in 0..n /\ Covers(g.out, s, n - g.run, p)
                         /\ \A i \in ((n - g.run) + 1)..n : s[i] = 0
           H == {n \in 0..N : Fits(after[n], n)}
<1>8. 0 \in H
  <2>1. Fits(first, 0)
    <3>1. p \in Nat /\ 0 - 0 = 0
      OBVIOUS
    <3> QED
      BY <3>1, CoversNone
  <2> QED
    BY <1>1, <1>7, <2>1
<1>9. ASSUME NEW n \in 1..N, n - 1 \in H PROVE n \in H
  <2>1. PICK g, h : g = after[n - 1] /\ h = after[n]
    OBVIOUS
  <2>2. h = After(g, n) /\ Fits(g, n - 1) /\ n \in 0..N /\ n \in Nat
    <3>1. Fits(after[n - 1], n - 1)
      <4> HIDE DEF Fits
      <4> QED
        BY <1>9
    <3>2. h = After(g, n)
      <4> HIDE DEF After
      <4> QED
        BY <1>7, <2>1
    <3>3. n \in 0..N /\ n \in Nat
      BY <1>1
    <3> HIDE DEF Fits, After
    <3> QED
      BY <2>1, <3>1, <3>2, <3>3
  <2>3. PICK a, r : a = (n - 1) - g.run /\ r = g.run
    OBVIOUS
  <2>4. /\ r \in 0..(n - 1) /\ Covers(g.out, s, a, p)
        /\ \A i \in (a + 1)..(n - 1) : s[i] = 0
    BY <2>2, <2>3
  <2>5. a + r = n - 1 /\ a \in Nat
    BY <2>3, <2>4
  <2>6. CASE s[n] = 0
    <3>1. h.run = r + 1 /\ h.out = g.out
      BY <2>2, <2>3, <2>6
    <3>2. n - (r + 1) = a /\ r + 1 \in 0..n
      BY <2>4, <2>5
    <3>3. \A i \in (a + 1)..n : s[i] = 0
      BY <2>4, <2>5, <2>6
    <3>4. Fits(h, n)
      BY <2>4, <3>1, <3>2, <3>3
    <3> QED
      BY <2>1, <2>2, <3>4
  <2>7. CASE s[n] # 0
    <3>1. PICK u, x : u = g.out \o RunSymbols(r, p) /\ x = Symbol(s[n] + p, 0)
      OBVIOUS
    <3>2. h.run = 0 /\ h.out = Append(u, x)
      BY <2>2, <2>3, <2>7, <3>1
    <3>3. Covers(u, s, n - 1, p)
      <4>1. PICK o : o = g.out
        OBVIOUS
      <4>2. r \in Nat /\ a + r <= Len(s) /\ \A i \in (a + 1)..(a + r) : s[i] = 0
        BY <1>1, <2>4, <2>5
      <4>3. Covers(o \o RunSymbols(r, p), s, a + r, p)
        BY <2>4, <4>1, <4>2, RunCovers
      <4> QED
        BY <2>5, <3>1, <4>1, <4>3
    <3>4. x \in Symbols /\ Stands(x, s, n - 1, n, p)
      BY <1>1, <2>7, <3>1 DEF Symbol, Symbols, Stands
    <3>5. Covers(Append(u, x), s, n, p)
      <4>1. p \in Nat
        OBVIOUS
      <4> QED
        BY <3>3, <3>4, <4>1, CoversMore
    <3>6. Fits(h, n)
      <4>1. n - 0 = n /\ 0 \in 0..n /\ \A i \in (n + 1)..n : FALSE
        BY <2>2
      <4> QED
        BY <3>2, <3>5, <4>1
    <3> QED
      BY <2>1, <2>2, <3>6
  <2> QED
    BY <2>6, <2>7
<1>10. N \in H
  <2>1. N \in 0..N
    OBVIOUS
  <2> HIDE DEF H
  <2> QED
    BY <1>1, <1>8, <1>9, <2>1, UpTo
<1>11. PICK g : g = after[N]
  OBVIOUS
<1>12. Fits(g, N)
  BY <1>10, <1>11
<1>13. PICK a, r, o : a = N - g.run /\ r = g.run /\ o = g.out
  OBVIOUS
<1>14. /\ Covers(o, s, a, p) /\ r \in Nat /\ a + r = N
       /\ \A i \in (a + 1)..(a + r) : s[i] = 0
  BY <1>1, <1>12, <1>13
<1>15. Covers(o \o RunSymbols(r, p), s, a + r, p)
  BY <1>14, RunCovers
<1> QED
  BY <1>6, <1>11, <1>13, <1>14, <1>15

\* The encoder never names a longer run than the decoder knows.
LEMMA PrefixIs ==
  ASSUME NEW s \in Seq(Nat), Len(s) < 2 ^ 31
  PROVE  RunPrefix(s) \in 0..16 /\ RunPrefix(s) <= 2 ^ RleBits
<1>1. MaxRunPrefix \in 0..(2 ^ RleBits) /\ 2 ^ RleBits \in 0..16
  <2>1. RleBits = 0 \/ RleBits = 1 \/ RleBits = 2 \/ RleBits = 3 \/ RleBits = 4
    BY MapAssumption
  <2>2. 2 ^ 0 = 1 /\ 2 ^ 1 = 2 /\ 2 ^ 2 = 4 /\ 2 ^ 3 = 8 /\ 2 ^ 4 = 16
    OBVIOUS
  <2>3. 2 ^ RleBits \in {1, 2, 4, 8, 16}
    BY <2>1, <2>2
  <2> QED
    BY <2>3, MapAssumption
<1>2. PICK l : l = LongestRun(s)
  OBVIOUS
<1>3. l \in 0..Len(s)
  <2>1. PICK S : S = {0} \cup {n \in 1..Len(s) : \E i \in 0..(Len(s) - n) : \A j \in 1..n : s[i + j] = 0}
    OBVIOUS
  <2>2. S \in SUBSET (0..Len(s)) /\ S # {} /\ Len(s) \in Nat
    BY <2>1
  <2>3. Max(S) \in S
    BY <2>2, MaxIs
  <2>4. l = Max(S)
    BY <1>2, <2>1 DEF LongestRun
  <2> QED
    BY <2>2, <2>3, <2>4
<1>4. CASE l = 0
  BY <1>1, <1>2, <1>4 DEF RunPrefix
<1>5. CASE l # 0
  <2>1. l \in Nat /\ 1 <= l /\ l < 2 ^ 31
    <3>1. Len(s) \in Nat /\ 2 ^ 31 \in Nat
      OBVIOUS
    <3> QED
      BY <1>3, <1>5, <3>1
  <2>2. PICK k : k = Log2(l)
    OBVIOUS
  <2>3. k \in 0..30
    BY <2>1, <2>2, Log2Is
  <2>4. RunPrefix(s) = IF k < MaxRunPrefix THEN k ELSE MaxRunPrefix
    BY <1>2, <1>5, <2>2 DEF RunPrefix
  <2> QED
    BY <1>1, <2>3, <2>4
<1> QED
  BY <1>4, <1>5

LEMMA DivIs ==
  ASSUME NEW M \in Nat \ {0}, NEW q \in Nat, NEW r \in 0..(M - 1)
  PROVE  (M * q + r) \div M = q
OBVIOUS

LEMMA DivOf ==
  ASSUME NEW M \in Nat \ {0}, NEW n \in Nat, NEW i \in 0..(n * M - 1)
  PROVE  \E q \in 0..(n - 1), r \in 0..(M - 1) : i = M * q + r
<1>1. PICK q, r : q = i \div M /\ r = i % M
  OBVIOUS
<1>2. q \in Nat /\ r \in 0..(M - 1) /\ i = M * q + r
  BY <1>1
<1>3. q <= n - 1
  <2>1. SUFFICES ASSUME q >= n PROVE FALSE
    BY <1>2
  <2>2. M * q >= M * n
    BY <1>2, <2>1
  <2> QED
    BY <1>2, <2>2
<1> QED
  BY <1>2, <1>3

\* A trivial map, entry by entry: M of them for each of n types.
Blocks(m, n, M) ==
  /\ M \in Nat \ {0} /\ n * M \in Nat \ {0} /\ n * M < 2 ^ 31
  /\ m \in Seq(0..(n - 1)) /\ Len(m) = n * M
  /\ \A q \in 0..(n - 1), r \in 0..(M - 1) :
       M * q + r + 1 \in 1..(n * M) /\ m[M * q + r + 1] = q

LEMMA TrivialEntries ==
  ASSUME NEW n \in 1..256, NEW k \in 2..8, NEW M, M = 2 ^ k
  PROVE  Blocks(TrivialMap(n, k), n, M)
<1>1. M \in 4..256
  <2>1. k = 2 \/ k = 3 \/ k = 4 \/ k = 5 \/ k = 6 \/ k = 7 \/ k = 8
    OBVIOUS
  <2>2. 2 ^ 2 = 4 /\ 2 ^ 3 = 8 /\ 2 ^ 4 = 16 /\ 2 ^ 5 = 32 /\ 2 ^ 6 = 64 /\ 2 ^ 7 = 128 /\ 2 ^ 8 = 256
    OBVIOUS
  <2>3. \/ M = 4 \/ M = 8 \/ M = 16 \/ M = 32 \/ M = 64 \/ M = 128 \/ M = 256
    <3>1. (k = 2 => M = 2 ^ 2) /\ (k = 3 => M = 2 ^ 3) /\ (k = 4 => M = 2 ^ 4) /\ (k = 5 => M = 2 ^ 5)
      OBVIOUS
    <3>2. (k = 6 => M = 2 ^ 6) /\ (k = 7 => M = 2 ^ 7) /\ (k = 8 => M = 2 ^ 8)
      OBVIOUS
    <3> QED
      BY <2>1, <2>2, <3>1, <3>2
  <2> QED
    BY <2>3
<1>2. n * M \in Nat \ {0} /\ n * M < 2 ^ 31
  <2>1. PICK l : l = n * M
    OBVIOUS
  <2>2. l >= 1 * M /\ l <= 256 * M /\ l \in Int
    BY <1>1, <2>1
  <2>3. l \in Nat \ {0} /\ l <= 256 * 256
    BY <1>1, <2>2, SMT
  <2>4. l < 2 ^ 31
    BY <2>3, SMT
  <2> QED
    BY <2>1, <2>3, <2>4
<1>3. PICK m : m = TrivialMap(n, k)
  OBVIOUS
<1>4. m = [i \in 1..(n * M) |-> (i - 1) \div M]
  BY <1>3 DEF TrivialMap
<1>5. ASSUME NEW q \in 0..(n - 1), NEW r \in 0..(M - 1)
      PROVE  M * q + r + 1 \in 1..(n * M) /\ m[M * q + r + 1] = q
  <2>1. M * q <= M * (n - 1) /\ M * q \in Nat
    BY <1>1
  <2>2. M * (n - 1) = n * M - M
    BY <1>1
  <2>3. M * q + r + 1 \in 1..(n * M) /\ (M * q + r + 1) - 1 = M * q + r
    BY <1>1, <1>2, <2>1, <2>2
  <2>4. (M * q + r) \div M = q
    BY <1>1, DivIs
  <2>5. m[M * q + r + 1] = (M * q + r) \div M
    BY <1>4, <2>3
  <2> QED
    BY <2>3, <2>4, <2>5
<1>6. ASSUME NEW i \in 1..(n * M) PROVE m[i] \in 0..(n - 1)
  <2>1. i - 1 \in 0..(n * M - 1) /\ n \in Nat /\ M \in Nat \ {0}
    BY <1>1, <1>2
  <2>2. PICK q \in 0..(n - 1), r \in 0..(M - 1) : i - 1 = M * q + r
    BY <2>1, DivOf
  <2>3. i = M * q + r + 1
    <3>1. M * q \in Int
      BY <1>1
    <3> QED
      BY <2>2, <3>1
  <2> QED
    BY <1>5, <2>3
<1>7. m \in [1..(n * M) -> 0..(n - 1)] /\ n * M \in Nat
  BY <1>2, <1>4, <1>6
<1>8. m \in Seq(0..(n - 1)) /\ Len(m) = n * M
  BY <1>7, SeqDef
<1>9. Blocks(m, n, M)
  BY <1>1, <1>2, <1>5, <1>8 DEF Blocks
<1> QED
  BY <1>3, <1>9

\* It has the trees in their order.
Starts(s, n, M) ==
  \A q \in 0..(n - 1), r \in 0..(M - 1) : s[M * q + r + 1] = IF r = 0 THEN q ELSE 0

LEMMA TrivialRises ==
  ASSUME NEW n \in 1..256, NEW k \in 2..8, NEW M, M = 2 ^ k
  PROVE  /\ Rising(TrivialMap(n, k)) /\ TrivialMap(n, k) # <<>>
         /\ Starts(Rises(TrivialMap(n, k)), n, M)
<1>1. PICK m, N : m = TrivialMap(n, k) /\ N = n * M
  OBVIOUS
<1>2. /\ M \in Nat \ {0} /\ N \in Nat \ {0} /\ m \in Seq(0..(n - 1)) /\ Len(m) = N
      /\ \A q \in 0..(n - 1), r \in 0..(M - 1) : M * q + r + 1 \in 1..N /\ m[M * q + r + 1] = q
  <2>1. Blocks(m, n, M)
    BY <1>1, TrivialEntries
  <2> QED
    BY <1>1, <2>1 DEF Blocks
<1>3. ASSUME NEW q \in 0..(n - 1), NEW r \in 0..(M - 1), M * q + r + 1 # 1
      PROVE  m[(M * q + r + 1) - 1] = IF r = 0 THEN q - 1 ELSE q
  <2>1. M * q \in Nat
    BY <1>2
  <2>2. CASE r = 0
    <3>1. q # 0
      BY <1>2, <1>3, <2>2
    <3>2. q - 1 \in 0..(n - 1) /\ M - 1 \in 0..(M - 1)
      BY <1>2, <3>1
    <3>3. M * (q - 1) + (M - 1) + 1 = (M * q + r + 1) - 1
      <4>1. M * (q - 1) = M * q - M
        BY <1>2
      <4> QED
        BY <1>2, <2>1, <2>2, <4>1
    <3>4. m[M * (q - 1) + (M - 1) + 1] = q - 1
      BY <1>2, <3>2
    <3> QED
      BY <2>2, <3>3, <3>4
  <2>3. CASE r # 0
    <3>1. r - 1 \in 0..(M - 1) /\ M * q + (r - 1) + 1 = (M * q + r + 1) - 1
      BY <1>2, <2>1, <2>3
    <3>2. m[M * q + (r - 1) + 1] = q
      BY <1>2, <3>1
    <3> QED
      BY <2>3, <3>1, <3>2
  <2> QED
    BY <2>2, <2>3
<1>4. ASSUME NEW i \in 1..N
      PROVE  \E q \in 0..(n - 1), r \in 0..(M - 1) : i = M * q + r + 1
  <2>1. PICK h : h = i - 1
    OBVIOUS
  <2>2. h \in 0..(n * M - 1) /\ n \in Nat /\ M \in Nat \ {0}
    BY <1>1, <1>2, <2>1
  <2>3. PICK q \in 0..(n - 1), r \in 0..(M - 1) : h = M * q + r
    BY <2>2, DivOf, Zenon
  <2>4. M * q \in Int
    BY <1>2
  <2>5. i = M * q + r + 1
    BY <2>1, <2>3, <2>4
  <2> QED
    BY <2>5
<1>5. m[1] = 0
  <2>1. 0 \in 0..(n - 1) /\ 0 \in 0..(M - 1) /\ M * 0 + 0 + 1 = 1
    BY <1>2
  <2>2. PICK z : z = 0
    OBVIOUS
  <2>3. z \in 0..(n - 1) /\ z \in 0..(M - 1) /\ M * z + z + 1 = 1
    BY <2>1, <2>2
  <2>4. m[M * z + z + 1] = z
    BY <1>2, <2>3
  <2> QED
    BY <2>2, <2>3, <2>4
<1>6. ASSUME NEW i \in 2..N PROVE m[i] = m[i - 1] \/ m[i] = m[i - 1] + 1
  <2>1. PICK q \in 0..(n - 1), r \in 0..(M - 1) : i = M * q + r + 1
    <3>1. i \in 1..N
      OBVIOUS
    <3> QED
      BY <1>4, <3>1
  <2>2. m[i] = q
    BY <1>2, <2>1
  <2>3. M * q + r + 1 # 1
    BY <2>1
  <2>4. m[i - 1] = IF r = 0 THEN q - 1 ELSE q
    BY <1>3, <2>1, <2>3
  <2> QED
    BY <2>2, <2>4
<1>7. Rising(m) /\ m # <<>>
  BY <1>2, <1>5, <1>6 DEF Rising
<1>8. ASSUME NEW q \in 0..(n - 1), NEW r \in 0..(M - 1)
      PROVE  Rises(m)[M * q + r + 1] = IF r = 0 THEN q ELSE 0
  <2>1. PICK i : i = M * q + r + 1
    OBVIOUS
  <2>2. i \in 1..N /\ m[i] = q
    BY <1>2, <2>1
  <2>3. Rises(m)[i] = IF i = 1 THEN 0 ELSE IF m[i] = m[i - 1] THEN 0 ELSE m[i]
    BY <1>2, <2>2 DEF Rises
  <2>4. CASE i = 1
    <3>1. q = 0
      BY <1>5, <2>2, <2>4
    <3> QED
      BY <2>1, <2>3, <2>4, <3>1
  <2>5. CASE i # 1
    <3>1. m[i - 1] = IF r = 0 THEN q - 1 ELSE q
      BY <1>3, <2>1, <2>5
    <3> QED
      BY <2>1, <2>2, <2>3, <2>5, <3>1
  <2> QED
    BY <2>4, <2>5
<1>9. Starts(Rises(m), n, M)
  BY <1>8 DEF Starts
<1> QED
  BY <1>1, <1>7, <1>9

\* What is written for a trivial map stands for it (write_trivial_context_map).
LEMMA TrivialCovers ==
  ASSUME NEW n \in 1..256, NEW k \in 2..8
  PROVE  Covers(WrittenTrivial(n, k).symbols, Rises(TrivialMap(n, k)), Len(TrivialMap(n, k)), k - 1)
<1>1. PICK M, m, s, N, p, w :
        M = 2 ^ k /\ m = TrivialMap(n, k) /\ s = Rises(m) /\ N = n * M /\ p = k - 1 /\ w = 2 ^ p
  OBVIOUS
<1>2. p \in 1..7 /\ w \in Nat \ {0} /\ M = 2 * w
  <2>1. p \in 1..7 /\ p \in 0..31 /\ p + 1 = k
    BY <1>1
  <2>2. Power(p)
    BY <2>1, PowersAreNumbers
  <2> QED
    BY <1>1, <2>1, <2>2 DEF Power
<1>3. M \in Nat \ {0} /\ N \in Nat \ {0} /\ m \in Seq(0..(n - 1)) /\ Len(m) = N
  <2>1. Blocks(m, n, M)
    BY <1>1, TrivialEntries
  <2> QED
    BY <1>1, <2>1 DEF Blocks
<1>4. s \in Seq(Nat) /\ Len(s) = N
  <2>1. Rising(m) /\ m # <<>> /\ n \in Nat \ {0}
    <3>1. Rising(m) /\ m # <<>> /\ Starts(Rises(m), n, M)
      BY <1>1, TrivialRises
    <3> QED
      BY <3>1
  <2>2. s \in Seq(0..(n - 1)) /\ Len(s) = N
    BY <1>1, <1>3, <2>1, RisingBack
  <2> QED
    BY <2>2
<1>5. \A q \in 0..(n - 1), r \in 0..(M - 1) :
        M * q + r + 1 \in 1..N /\ s[M * q + r + 1] = IF r = 0 THEN q ELSE 0
  <2>1. Blocks(m, n, M)
    BY <1>1, TrivialEntries
  <2>2. Starts(s, n, M)
    BY <1>1, TrivialRises
  <2>3. \A q \in 0..(n - 1), r \in 0..(M - 1) : M * q + r + 1 \in 1..N
    BY <1>1, <2>1 DEF Blocks
  <2> QED
    BY <2>2, <2>3 DEF Starts
<1>6. PICK t : t = WrittenTrivial(n, k).symbols
  OBVIOUS
<1>7. t = [i \in 1..(2 * n) |-> IF i % 2 = 0 THEN Symbol(p, w - 1)
                               ELSE Symbol(IF i = 1 THEN 0 ELSE i \div 2 + k - 1, 0)]
  BY <1>1, <1>6 DEF WrittenTrivial
<1>8. t \in Seq(Symbols) /\ Len(t) = 2 * n
  <2>1. ASSUME NEW i \in 1..(2 * n) PROVE t[i] \in Symbols
    BY <1>2, <1>7 DEF Symbol, Symbols
  <2>2. t \in [1..(2 * n) -> Symbols] /\ 2 * n \in Nat
    BY <1>7, <2>1
  <2> QED
    BY <2>2, SeqDef
<1> DEFINE c == [j \in 0..(2 * n) |-> M * (j \div 2) + (j % 2)]
<1>9. ASSUME NEW q \in 0..(n - 1)
      PROVE  /\ M * q \in 0..N /\ M * q + 1 \in 0..N /\ M * (q + 1) \in 0..N
             /\ M * (q + 1) = M * q + M
  <2>1. M * q \in Nat /\ M * (q + 1) = M * q + M
    BY <1>3
  <2>2. PICK r : r = M - 1
    OBVIOUS
  <2>3. r \in 0..(M - 1)
    BY <1>3, <2>2
  <2>4. M * q + r + 1 \in 1..N
    BY <1>5, <2>3
  <2> QED
    BY <1>3, <2>1, <2>2, <2>4
<1>10. c \in [0..(2 * n) -> 0..N] /\ c[0] = 0 /\ c[2 * n] = N
  <2>1. ASSUME NEW j \in 0..(2 * n) PROVE M * (j \div 2) + (j % 2) \in 0..N
    <3>1. CASE j = 2 * n
      <4>1. j \div 2 = n /\ j % 2 = 0
        BY <3>1
      <4>2. M * n = N
        BY <1>1, <1>3
      <4> QED
        BY <1>3, <4>1, <4>2
    <3>2. CASE j # 2 * n
      <4>1. PICK q, r : q = j \div 2 /\ r = j % 2
        OBVIOUS
      <4>2. q \in 0..(n - 1) /\ r \in 0..1
        BY <3>2, <4>1
      <4>3. M * q \in 0..N /\ M * q + 1 \in 0..N
        BY <1>9, <4>2
      <4> QED
        BY <4>1, <4>2, <4>3
    <3> QED
      BY <3>1, <3>2
  <2>2. M * (0 \div 2) + (0 % 2) = 0
    <3>1. 0 \div 2 = 0 /\ 0 % 2 = 0
      OBVIOUS
    <3> QED
      BY <1>3, <3>1
  <2>3. M * ((2 * n) \div 2) + ((2 * n) % 2) = N
    <3>1. (2 * n) \div 2 = n /\ (2 * n) % 2 = 0
      OBVIOUS
    <3>2. M * n = N
      BY <1>1, <1>3
    <3> QED
      BY <1>3, <3>1, <3>2
  <2>4. 0 \in 0..(2 * n) /\ 2 * n \in 0..(2 * n)
    OBVIOUS
  <2> QED
    BY <2>1, <2>2, <2>3, <2>4
<1>11. ASSUME NEW q \in 0..(n - 1)
       PROVE  /\ 2 * q + 1 \in 1..(2 * n) /\ 2 * q + 2 \in 1..(2 * n)
              /\ c[2 * q] = M * q /\ c[2 * q + 1] = M * q + 1 /\ c[2 * q + 2] = M * q + M
              /\ t[2 * q + 2] = Symbol(p, w - 1)
              /\ t[2 * q + 1] = Symbol(IF q = 0 THEN 0 ELSE q + p, 0)
  <2>1. /\ 2 * q + 1 \in 1..(2 * n) /\ 2 * q + 2 \in 1..(2 * n) /\ 2 * q \in 0..(2 * n)
        /\ 2 * q + 1 \in 0..(2 * n) /\ 2 * q + 2 \in 0..(2 * n)
    OBVIOUS
  <2>2. /\ (2 * q) \div 2 = q /\ (2 * q) % 2 = 0 /\ (2 * q + 1) \div 2 = q /\ (2 * q + 1) % 2 = 1
        /\ (2 * q + 2) \div 2 = q + 1 /\ (2 * q + 2) % 2 = 0
    OBVIOUS
  <2>3. c[2 * q] = M * q + 0 /\ c[2 * q + 1] = M * q + 1 /\ c[2 * q + 2] = M * (q + 1) + 0
    BY <2>1, <2>2
  <2> HIDE DEF c
  <2>4. c[2 * q] = M * q /\ c[2 * q + 2] = M * q + M
    BY <1>9, <2>3
  <2>5. t[2 * q + 2] = Symbol(p, w - 1)
    BY <1>7, <2>1, <2>2
  <2>6. t[2 * q + 1] = Symbol(IF q = 0 THEN 0 ELSE q + p, 0)
    <3>1. t[2 * q + 1] = Symbol(IF 2 * q + 1 = 1 THEN 0 ELSE q + k - 1, 0)
      BY <1>7, <2>1, <2>2
    <3>2. (2 * q + 1 = 1 <=> q = 0) /\ q + k - 1 = q + p
      BY <1>1
    <3> QED
      BY <3>1, <3>2
  <2> QED
    BY <2>1, <2>3, <2>4, <2>5, <2>6
<1> HIDE DEF c
<1>12. ASSUME NEW j \in 1..(2 * n) PROVE Stands(t[j], s, c[j - 1], c[j], p)
  <2>1. PICK q \in 0..(n - 1) : j = 2 * q + 1 \/ j = 2 * q + 2
    <3>1. (j - 1) \div 2 \in 0..(n - 1) /\ (j = 2 * ((j - 1) \div 2) + 1 \/ j = 2 * ((j - 1) \div 2) + 2)
      OBVIOUS
    <3> QED
      BY <3>1
  <2>2. PICK a : a = M * q
    OBVIOUS
  <2>3. a \in 0..N /\ a + 1 \in 0..N /\ a + M \in 0..N
    BY <1>9, <2>2
  <2>4. CASE j = 2 * q + 1
    <3>1. c[j - 1] = a /\ c[j] = a + 1 /\ t[j] = Symbol(IF q = 0 THEN 0 ELSE q + p, 0)
      <4>1. j - 1 = 2 * q
        BY <2>4
      <4> QED
        BY <1>11, <2>2, <2>4, <4>1
    <3>2. s[a + 1] = q
      <4>1. 0 \in 0..(M - 1) /\ a + 0 + 1 = a + 1
        BY <1>3, <2>3
      <4>2. s[a + 0 + 1] = q
        BY <1>5, <2>2, <4>1
      <4> QED
        BY <4>1, <4>2
    <3>3. a + 1 \in (a + 1)..Len(s)
      BY <1>4, <2>3
    <3>4. CASE q = 0
      BY <3>1, <3>2, <3>3, <3>4 DEF Stands, Symbol
    <3>5. CASE q # 0
      <4>1. q + p > p /\ q = (q + p) - p
        BY <1>2, <3>5
      <4> QED
        BY <3>1, <3>2, <3>3, <3>5, <4>1 DEF Stands, Symbol
    <3> QED
      BY <3>4, <3>5
  <2>5. CASE j = 2 * q + 2
    <3>1. c[j - 1] = a + 1 /\ c[j] = a + M /\ t[j] = Symbol(p, w - 1)
      <4>1. j - 1 = 2 * q + 1
        BY <2>5
      <4> QED
        BY <1>11, <2>2, <2>5, <4>1
    <3>2. PICK b, x : b = a + 1 /\ x = w - 1
      OBVIOUS
    <3>3. x \in Nat /\ x < w /\ b \in Nat /\ b + (w + x) = a + M /\ b + (w + x) <= Len(s)
      BY <1>2, <1>4, <2>3, <3>2
    <3>4. ASSUME NEW i \in (b + 1)..(b + (w + x)) PROVE s[i] = 0
      <4>1. PICK r : r = i - a - 1
        OBVIOUS
      <4>2. r \in 0..(M - 1) /\ r # 0 /\ a + r + 1 = i
        BY <1>3, <2>3, <3>2, <3>3, <4>1
      <4>3. s[a + r + 1] = 0
        BY <1>5, <2>2, <4>2
      <4> QED
        BY <4>2, <4>3
    <3>5. p \in 0..16 /\ p \in 0..p /\ w \in Nat /\ w > 0
      BY <1>2
    <3>6. Stands(Symbol(p, x), s, b, b + (w + x), p)
      BY <1>1, <1>4, <3>3, <3>4, <3>5, LengthStands, Zenon
    <3> QED
      BY <3>1, <3>2, <3>3, <3>6
  <2> QED
    BY <2>1, <2>4, <2>5
<1>13. Cuts(c, t, s, N, p)
  BY <1>4, <1>8, <1>10, <1>12 DEF Cuts
<1>14. Covers(t, s, N, p)
  BY <1>8, <1>13 DEF Covers
<1> QED
  BY <1>1, <1>3, <1>6, <1>14

-----------------------------------------------------------------------------
(* A map that is read. *)

\* Symbols are what an encoder wrote of a map of n trees: they stand for what
\* the decoder turns into the map.
Wrote(map, written, n) ==
  /\ map \in Seq(0..(n - 1)) /\ map # <<>>
  /\ written.rleMax \in 0..16 /\ written.rleMax <= 2 ^ RleBits
  /\ \E moved : /\ moved \in Seq(0..(n - 1)) /\ Len(moved) = Len(map)
                /\ InverseMoveToFront(moved, n) = map
                /\ Covers(written.symbols, moved, Len(moved), written.rleMax)

\* It does so with the trees moved to the front (write_context_map).
LEMMA WrittenWrote ==
  ASSUME NEW n \in Nat \ {0}, NEW map \in Seq(0..(n - 1)), map # <<>>, Len(map) < 2 ^ 31
  PROVE  Wrote(map, Written(map), n)
<1>1. PICK moved, p : moved = MoveToFront(map) /\ p = RunPrefix(moved)
  OBVIOUS
<1>2. moved \in Seq(0..(n - 1)) /\ Len(moved) = Len(map) /\ InverseMoveToFront(moved, n) = map
  BY <1>1, MovedBack
<1>3. moved \in Seq(Nat) /\ Len(moved) < 2 ^ 31
  BY <1>2
<1>4. p \in 0..16 /\ p <= 2 ^ RleBits
  BY <1>1, <1>3, PrefixIs
<1>5. Covers(RunLengths(moved, p), moved, Len(moved), p)
  BY <1>3, <1>4, LengthsCover
<1>6. Written(map) = [rleMax |-> p, symbols |-> RunLengths(moved, p)]
  BY <1>1 DEF Written
<1>7. Written(map).rleMax = p /\ Written(map).symbols = RunLengths(moved, p)
  BY <1>6
<1> QED
  BY <1>2, <1>4, <1>5, <1>7 DEF Wrote

\* And of a trivial map.
LEMMA TrivialWrote ==
  ASSUME NEW n \in 1..256, NEW k \in 2..8, k - 1 <= 2 ^ RleBits
  PROVE  Wrote(TrivialMap(n, k), WrittenTrivial(n, k), n)
<1>1. PICK M, map, moved : M = 2 ^ k /\ map = TrivialMap(n, k) /\ moved = Rises(map)
  OBVIOUS
<1>2. Rising(map) /\ map # <<>> /\ Starts(moved, n, M)
  BY <1>1, TrivialRises
<1>3. map \in Seq(0..(n - 1))
  <2>1. Blocks(map, n, M)
    BY <1>1, TrivialEntries
  <2> QED
    BY <2>1 DEF Blocks
<1>4. moved \in Seq(0..(n - 1)) /\ Len(moved) = Len(map) /\ InverseMoveToFront(moved, n) = map
  <2>1. n \in Nat \ {0}
    OBVIOUS
  <2> QED
    BY <1>1, <1>2, <1>3, <2>1, RisingBack
<1>5. Covers(WrittenTrivial(n, k).symbols, moved, Len(map), k - 1)
  BY <1>1, TrivialCovers
<1>6. WrittenTrivial(n, k).rleMax = k - 1 /\ k - 1 \in 0..16
  BY DEF WrittenTrivial
<1> QED
  BY <1>1, <1>2, <1>3, <1>4, <1>5, <1>6 DEF Wrote

Decoders ==
  [size : Nat \ {0}, trees : Nat \ {0}, state : {"RleFlag", "Entries", "Repeat", "Done", "error"},
   rleMax : 0..16, bits : 0..16, map : Seq(Nat)]

MapTypeOK ==
  /\ decoder \in Decoders /\ Len(decoder.map) <= decoder.size
  /\ \A i \in 1..Len(decoder.map) : decoder.map[i] \in 0..(decoder.trees - 1)
  /\ decoder.state = "RleFlag" => decoder.map = <<>>
  /\ decoder.state = "Done" => Len(decoder.map) = decoder.size

\* What has been read of written symbols t is what they stand for.
Follows(moved, c, t, p) ==
  /\ moved \in Seq(0..(decoder.trees - 1)) /\ Len(moved) = decoder.size
  /\ InverseMoveToFront(moved, decoder.trees) = symbols.source
  /\ t \in Seq(Symbols) /\ Cuts(c, t, moved, decoder.size, p) /\ p \in 0..16 /\ p <= 2 ^ RleBits
  /\ symbols.next \in 1..(Len(t) + 1) /\ decoder.state # "error"
  /\ decoder.state = "RleFlag" => symbols.next = 1
  /\ decoder.state \in {"Entries", "Repeat"} =>
       /\ decoder.rleMax = p /\ c[symbols.next - 1] = Len(decoder.map)
       /\ \A i \in 1..Len(decoder.map) : decoder.map[i] = moved[i]
  /\ decoder.state = "Repeat" =>
       symbols.next <= Len(t) /\ decoder.bits = t[symbols.next].symbol /\ decoder.bits \in 1..p
  /\ decoder.state = "Done" => decoder.map = symbols.source /\ symbols.next = Len(t) + 1

MapFollows == \E moved, c : Follows(moved, c, symbols.written.symbols, symbols.written.rleMax)
MapInv == MapTypeOK /\ (~ OfUnknown => MapFollows)

\* A decoder that begins to read what was written of a map.
LEMMA MapBegins ==
  ASSUME NEW n \in Nat \ {0}, NEW size \in Nat \ {0},
         decoder' = NewDecoder(size, n),
         \/ symbols' = NoSymbols
         \/ \E map, written : /\ symbols' = SymbolsOf(map, written) /\ Wrote(map, written, n)
                              /\ Len(map) = size
  PROVE  MapInv'
<1>1. decoder' = [size |-> size, trees |-> n, state |-> "RleFlag", rleMax |-> 0, bits |-> 0,
                  map |-> <<>>]
  BY DEF NewDecoder
<1>2. MapTypeOK'
  BY <1>1 DEF MapTypeOK, Decoders
<1>3. CASE symbols' = NoSymbols
  BY <1>2, <1>3 DEF MapInv, NoSymbols, SymbolsOf, OfUnknown
<1>4. ASSUME NEW map, NEW written,
             symbols' = SymbolsOf(map, written), Wrote(map, written, n), Len(map) = size
      PROVE  MapInv'
  <2>1. symbols' = [source |-> map, written |-> written, next |-> 1]
    BY <1>4 DEF SymbolsOf
  <2>2. PICK t, p : t = written.symbols /\ p = written.rleMax
    OBVIOUS
  <2>3. p \in 0..16 /\ p <= 2 ^ RleBits
    BY <1>4, <2>2 DEF Wrote
  <2>4. PICK moved : /\ moved \in Seq(0..(n - 1)) /\ Len(moved) = Len(map)
                     /\ InverseMoveToFront(moved, n) = map
                     /\ Covers(t, moved, Len(moved), p)
    BY <1>4, <2>2 DEF Wrote
  <2>5. PICK c : t \in Seq(Symbols) /\ Cuts(c, t, moved, size, p)
    BY <1>4, <2>4 DEF Covers
  <2>6. /\ decoder'.trees = n /\ decoder'.size = size /\ decoder'.state = "RleFlag"
        /\ symbols'.source = map /\ symbols'.next = 1
        /\ symbols'.written.symbols = t /\ symbols'.written.rleMax = p
    BY <1>1, <2>1, <2>2
  <2>7. 1 \in 1..(Len(t) + 1)
    BY <2>5
  <2>8. Follows(moved, c, t, p)'
    BY <1>4, <2>3, <2>4, <2>5, <2>6, <2>7 DEF Follows
  <2>9. MapFollows'
    BY <2>6, <2>8 DEF MapFollows
  <2> QED
    BY <1>2, <2>9 DEF MapInv
<1> QED
  BY <1>3, <1>4

\* What a symbol that is due stands for.
LEMMA DueStands ==
  ASSUME MapTypeOK, NEW moved, NEW c, NEW t, NEW p, Follows(moved, c, t, p),
         decoder.state \in {"Entries", "Repeat"}, Len(decoder.map) < decoder.size
  PROVE  /\ symbols.next \in 1..Len(t) /\ t[symbols.next] \in Symbols
         /\ c[symbols.next] \in 0..decoder.size
         /\ Stands(t[symbols.next], moved, Len(decoder.map), c[symbols.next], p)
<1>1. PICK n, l, a : n = symbols.next /\ l = Len(t) /\ a = Len(decoder.map)
  OBVIOUS
<1>2. /\ t \in Seq(Symbols) /\ l \in Nat /\ n \in 1..(l + 1) /\ c[n - 1] = a
      /\ Cuts(c, t, moved, decoder.size, p) /\ Len(moved) = decoder.size /\ a < decoder.size
  BY <1>1 DEF Follows
<1>3. /\ c \in [0..l -> 0..decoder.size] /\ c[l] = decoder.size
      /\ \A j \in 1..l : Stands(t[j], moved, c[j - 1], c[j], p)
  BY <1>1, <1>2 DEF Cuts
<1>4. n \in 1..l
  <2>1. SUFFICES ASSUME n = l + 1 PROVE FALSE
    BY <1>2
  <2>2. c[l] = a /\ decoder.size \in Nat /\ a \in Nat
    BY <1>1, <1>2, <2>1 DEF MapTypeOK, Decoders
  <2> QED
    BY <1>2, <1>3, <2>2
<1>5. t[n] \in Symbols /\ Stands(t[n], moved, a, c[n], p) /\ c[n] \in 0..decoder.size
  <2>1. n \in 0..l
    BY <1>4
  <2>2. t[n] \in Symbols
    BY <1>1, <1>2, <1>4
  <2> QED
    BY <1>2, <1>3, <1>4, <2>1, <2>2
<1> QED
  BY <1>1, <1>4, <1>5

\* When the map is whole, nothing is left of what was written.
LEMMA NothingDue ==
  ASSUME MapTypeOK, NEW moved, NEW c, NEW t, NEW p, Follows(moved, c, t, p),
         decoder.state = "Entries", Len(decoder.map) = decoder.size
  PROVE  symbols.next = Len(t) + 1
<1>1. PICK n, l : n = symbols.next /\ l = Len(t)
  OBVIOUS
<1>2. /\ l \in Nat /\ n \in 1..(l + 1) /\ c[n - 1] = decoder.size
      /\ Cuts(c, t, moved, decoder.size, p) /\ Len(moved) = decoder.size /\ decoder.size \in Nat
  BY <1>1 DEF Follows, MapTypeOK, Decoders
<1>3. SUFFICES ASSUME n \in 1..l PROVE FALSE
  BY <1>1, <1>2
<1>4. Stands(t[n], moved, decoder.size, c[n], p)
  BY <1>1, <1>2, <1>3 DEF Cuts
<1> QED
  BY <1>2, <1>4 DEF Stands

\* A step keeps what is to be read, and of how many trees.
Same == decoder'.size = decoder.size /\ decoder'.trees = decoder.trees
        /\ symbols'.source = symbols.source /\ symbols'.written = symbols.written

MapStep == MapInv' /\ Same

\* symbols as a record, which it is if anything was written.
IsSource == symbols = [source |-> symbols.source, written |-> symbols.written, next |-> symbols.next]

LEMMA AdvanceIs ==
  ASSUME IsSource, SymbolRead
  PROVE  /\ IsSource' /\ symbols'.source = symbols.source /\ symbols'.written = symbols.written
         /\ ~ OfUnknown => symbols'.next = symbols.next + 1
<1>1. CASE OfUnknown
  BY <1>1 DEF SymbolRead, IsSource
<1>2. CASE ~ OfUnknown
  <2>1. symbols' = [symbols EXCEPT !.next = @ + 1]
    BY <1>2 DEF SymbolRead
  <2>2. symbols' = [source |-> symbols.source, written |-> symbols.written,
                    next |-> symbols.next + 1]
    BY <2>1 DEF IsSource
  <2> QED
    BY <2>2 DEF IsSource
<1> QED
  BY <1>1, <1>2

LEMMA RleMaxStep ==
  ASSUME MapInv, IsSource, ReadRleMax
  PROVE  MapStep /\ IsSource'
<1>1. PICK max \in 0..(2 ^ RleBits) :
        /\ AsWritten(max = symbols.written.rleMax)
        /\ decoder' = [decoder EXCEPT !.state = "Entries", !.rleMax = max]
  BY DEF ReadRleMax
<1>2. max \in 0..16
  <2>1. RleBits = 0 \/ RleBits = 1 \/ RleBits = 2 \/ RleBits = 3 \/ RleBits = 4
    BY MapAssumption
  <2>2. 2 ^ 0 = 1 /\ 2 ^ 1 = 2 /\ 2 ^ 2 = 4 /\ 2 ^ 3 = 8 /\ 2 ^ 4 = 16
    OBVIOUS
  <2>3. 2 ^ RleBits \in {1, 2, 4, 8, 16}
    BY <2>1, <2>2
  <2> QED
    BY <2>3
<1>3. MapTypeOK /\ decoder.state = "RleFlag" /\ symbols' = symbols /\ decoder \in Decoders
  BY DEF MapInv, MapTypeOK, ReadRleMax
<1>4. /\ decoder' \in Decoders
      /\ decoder'.size = decoder.size /\ decoder'.trees = decoder.trees /\ decoder'.map = <<>>
      /\ decoder'.state = "Entries" /\ decoder'.rleMax = max /\ decoder.map = <<>>
  BY <1>1, <1>2, <1>3 DEF Decoders, MapTypeOK
<1>5. MapTypeOK'
  BY <1>3, <1>4 DEF MapTypeOK, Decoders
<1>6. ASSUME ~ OfUnknown PROVE MapFollows'
  <2>1. PICK t, p : t = symbols.written.symbols /\ p = symbols.written.rleMax
    OBVIOUS
  <2>2. PICK moved, c : Follows(moved, c, t, p)
    BY <1>6, <2>1 DEF MapInv, MapFollows
  <2>3. max = p
    BY <1>1, <1>6, <2>1 DEF AsWritten
  <2>4. c[0] = 0
    BY <2>2 DEF Follows, Cuts
  <2>5. c[symbols'.next - 1] = Len(decoder'.map)
    BY <1>3, <1>4, <2>2, <2>4 DEF Follows
  <2>6. Follows(moved, c, t, p)'
    BY <1>3, <1>4, <2>2, <2>3, <2>5 DEF Follows
  <2>7. t = symbols'.written.symbols /\ p = symbols'.written.rleMax
    BY <1>3, <2>1
  <2> QED
    BY <2>6, <2>7 DEF MapFollows
<1>7. OfUnknown' <=> OfUnknown
  BY <1>3 DEF OfUnknown
<1>8. Same /\ IsSource'
  BY <1>3, <1>4 DEF Same, IsSource
<1> QED
  BY <1>5, <1>6, <1>7, <1>8 DEF MapStep, MapInv

\* A symbol of a code is an entry of the map or the length of a run of zeros.
LEMMA SymbolCases ==
  ASSUME MapTypeOK, NEW symbol \in Alphabet
  PROVE  /\ IsRepeat(symbol) => symbol \in 1..decoder.rleMax
         /\ ~ IsRepeat(symbol) => Entry(symbol) \in 0..(decoder.trees - 1)
<1>1. decoder.trees \in Nat \ {0} /\ decoder.rleMax \in 0..16
  BY DEF MapTypeOK, Decoders
<1>2. symbol \in 0..(decoder.trees + decoder.rleMax - 1)
  BY DEF Alphabet
<1>3. IsRepeat(symbol) <=> symbol \in 1..decoder.rleMax
  BY <1>1, <1>2 DEF IsRepeat
<1>4. Entry(symbol) = IF symbol = 0 THEN 0 ELSE symbol - decoder.rleMax
  BY DEF Entry
<1>5. ~ IsRepeat(symbol) => Entry(symbol) \in 0..(decoder.trees - 1)
  BY <1>1, <1>2, <1>3, <1>4
<1> QED
  BY <1>3, <1>5

LEMMA EntryStep ==
  ASSUME MapInv, IsSource, ReadEntry
  PROVE  MapStep /\ IsSource'
<1>1. PICK symbol \in Alphabet :
        /\ AsWritten(/\ symbols.next <= Len(symbols.written.symbols)
                     /\ symbol = symbols.written.symbols[symbols.next].symbol)
        /\ IF IsRepeat(symbol)
             THEN decoder' = [decoder EXCEPT !.state = "Repeat", !.bits = symbol] /\ UNCHANGED symbols
             ELSE decoder' = [decoder EXCEPT !.map = Append(@, Entry(symbol))] /\ SymbolRead
  BY DEF ReadEntry
<1>2. MapTypeOK /\ decoder.state = "Entries" /\ Len(decoder.map) < decoder.size /\ decoder \in Decoders
  BY DEF MapInv, MapTypeOK, ReadEntry
<1>3. PICK t, p : t = symbols.written.symbols /\ p = symbols.written.rleMax
  OBVIOUS
<1>4. ~ OfUnknown => symbol = t[symbols.next].symbol
  BY <1>1, <1>3 DEF AsWritten
<1>5. CASE IsRepeat(symbol)
  <2>1. symbol \in 1..decoder.rleMax /\ symbol \in 0..16
    <3>1. symbol \in 1..decoder.rleMax
      BY <1>2, <1>5, SymbolCases
    <3> QED
      BY <1>2, <3>1 DEF Decoders
  <2>2. /\ decoder' \in Decoders /\ symbols' = symbols
        /\ decoder'.size = decoder.size /\ decoder'.trees = decoder.trees
        /\ decoder'.map = decoder.map /\ decoder'.rleMax = decoder.rleMax
        /\ decoder'.state = "Repeat" /\ decoder'.bits = symbol
    BY <1>1, <1>2, <1>5, <2>1 DEF Decoders
  <2>3. MapTypeOK'
    BY <1>2, <2>2 DEF MapTypeOK
  <2>4. ASSUME ~ OfUnknown PROVE MapFollows'
    <3>1. PICK moved, c : Follows(moved, c, t, p)
      BY <1>3, <2>4 DEF MapInv, MapFollows
    <3>2. symbols.next \in 1..Len(t)
      BY <1>2, <3>1, DueStands
    <3>3. decoder.rleMax = p
      BY <1>2, <3>1 DEF Follows
    <3>4. Follows(moved, c, t, p)'
      BY <1>2, <1>4, <2>1, <2>2, <2>4, <3>1, <3>2, <3>3 DEF Follows
    <3>5. t = symbols'.written.symbols /\ p = symbols'.written.rleMax
      BY <1>3, <2>2
    <3> QED
      BY <3>4, <3>5 DEF MapFollows
  <2>5. (OfUnknown' <=> OfUnknown) /\ Same /\ IsSource'
    BY <2>2 DEF OfUnknown, Same, IsSource
  <2> QED
    BY <2>3, <2>4, <2>5 DEF MapStep, MapInv
<1>6. CASE ~ IsRepeat(symbol)
  <2>1. PICK e, a : e = Entry(symbol) /\ a = Len(decoder.map)
    OBVIOUS
  <2>2. e \in 0..(decoder.trees - 1) /\ a \in Nat /\ a < decoder.size
    BY <1>2, <1>6, <2>1, SymbolCases DEF Decoders
  <2>3. decoder' = [decoder EXCEPT !.map = Append(@, e)]
    BY <1>1, <1>6, <2>1
  <2>4. PICK m : m = Append(decoder.map, e)
    OBVIOUS
  <2>5. /\ m \in Seq(Nat) /\ Len(m) = a + 1 /\ m[a + 1] = e
        /\ \A i \in 1..a : m[i] = decoder.map[i]
    BY <1>2, <2>1, <2>2, <2>4 DEF Decoders
  <2>6. /\ decoder' \in Decoders
        /\ decoder'.size = decoder.size /\ decoder'.trees = decoder.trees
        /\ decoder'.map = m /\ decoder'.rleMax = decoder.rleMax /\ decoder'.state = "Entries"
    BY <1>2, <2>3, <2>4, <2>5 DEF Decoders
  <2>7. MapTypeOK'
    <3>1. decoder.size \in Nat
      BY <1>2 DEF Decoders
    <3>2. \A i \in 1..(a + 1) : i = a + 1 \/ i \in 1..a
      BY <2>2
    <3>3. \A i \in 1..a : decoder.map[i] \in 0..(decoder.trees - 1)
      BY <1>2, <2>1 DEF MapTypeOK
    <3>4. \A i \in 1..(a + 1) : m[i] \in 0..(decoder.trees - 1)
      BY <2>2, <2>5, <3>2, <3>3
    <3> QED
      BY <2>2, <2>5, <2>6, <3>1, <3>4 DEF MapTypeOK
  <2>8. /\ IsSource' /\ symbols'.source = symbols.source /\ symbols'.written = symbols.written
        /\ ~ OfUnknown => symbols'.next = symbols.next + 1
    BY <1>1, <1>6, AdvanceIs
  <2>9. ASSUME ~ OfUnknown PROVE MapFollows'
    <3>1. PICK moved, c : Follows(moved, c, t, p)
      BY <1>3, <2>9 DEF MapInv, MapFollows
    <3>2. PICK n : n = symbols.next
      OBVIOUS
    <3>3. n \in 1..Len(t) /\ t[n] \in Symbols /\ Stands(t[n], moved, a, c[n], p)
      BY <1>2, <2>1, <3>1, <3>2, DueStands
    <3>4. decoder.rleMax = p /\ p \in 0..16 /\ symbol = t[n].symbol /\ t \in Seq(Symbols)
      BY <1>2, <1>4, <2>9, <3>1, <3>2 DEF Follows
    <3>5. c[n] = a + 1 /\ moved[a + 1] = e
      <4>1. symbol = 0 \/ symbol > p
        BY <1>6, <3>3, <3>4 DEF IsRepeat, Symbols
      <4>2. e = IF symbol = 0 THEN 0 ELSE symbol - p
        BY <2>1, <3>4 DEF Entry
      <4> QED
        BY <3>3, <3>4, <4>1, <4>2 DEF Stands
    <3>6. \A i \in 1..(a + 1) : m[i] = moved[i]
      <4>1. \A i \in 1..a : decoder.map[i] = moved[i]
        BY <1>2, <2>1, <3>1 DEF Follows
      <4>2. \A i \in 1..(a + 1) : i = a + 1 \/ i \in 1..a
        BY <2>2
      <4> QED
        BY <2>5, <3>5, <4>1, <4>2
    <3>7. symbols'.next = n + 1 /\ symbols'.next \in 1..(Len(t) + 1) /\ symbols'.next - 1 = n
      BY <2>8, <2>9, <3>2, <3>3, <3>4
    <3>8. c[symbols'.next - 1] = Len(m)
      BY <2>5, <3>5, <3>7
    <3>9. Follows(moved, c, t, p)'
      BY <2>5, <2>6, <2>8, <3>1, <3>4, <3>6, <3>7, <3>8 DEF Follows
    <3>10. t = symbols'.written.symbols /\ p = symbols'.written.rleMax
      BY <1>3, <2>8
    <3> QED
      BY <3>9, <3>10 DEF MapFollows
  <2>10. (OfUnknown' <=> OfUnknown) /\ Same
    BY <2>6, <2>8 DEF OfUnknown, Same
  <2> QED
    BY <2>7, <2>8, <2>9, <2>10 DEF MapStep, MapInv
<1> QED
  BY <1>5, <1>6

LEMMA RepeatStep ==
  ASSUME MapInv, IsSource, ReadRepeat
  PROVE  MapStep /\ IsSource'
<1>1. PICK extra \in 0..(2 ^ decoder.bits - 1) :
        LET count == 2 ^ decoder.bits + extra IN
        /\ AsWritten(extra = symbols.written.symbols[symbols.next].extra)
        /\ decoder' = IF RepeatOverflow(count) THEN [decoder EXCEPT !.state = "error"]
                      ELSE [decoder EXCEPT !.state = "Entries", !.bits = 0,
                                           !.map = @ \o [i \in 1..count |-> 0]]
  BY DEF ReadRepeat
<1>2. PICK count, a, z : /\ count = 2 ^ decoder.bits + extra /\ a = Len(decoder.map)
                         /\ z = [i \in 1..count |-> 0]
  OBVIOUS
<1>3. /\ MapTypeOK /\ decoder.state = "Repeat" /\ decoder \in Decoders /\ decoder.bits \in 0..16
      /\ a \in Nat /\ a <= decoder.size /\ decoder.size \in Nat \ {0} /\ decoder.trees \in Nat \ {0}
      /\ decoder.map \in Seq(Nat)
  BY <1>2 DEF MapInv, MapTypeOK, ReadRepeat, Decoders
<1>4. count \in Nat
  <2>1. PICK b, w : b = decoder.bits /\ w = 2 ^ b
    OBVIOUS
  <2>2. b \in 0..31
    BY <1>3, <2>1
  <2>3. Power(b)
    BY <2>2, PowersAreNumbers
  <2>4. w \in Nat /\ extra \in 0..(w - 1) /\ count = w + extra
    BY <1>2, <2>1, <2>3 DEF Power
  <2> QED
    BY <2>4
<1>5. /\ AsWritten(extra = symbols.written.symbols[symbols.next].extra)
      /\ RepeatOverflow(count) => decoder' = [decoder EXCEPT !.state = "error"]
      /\ ~ RepeatOverflow(count) => decoder' = [decoder EXCEPT !.state = "Entries", !.bits = 0,
                                                               !.map = @ \o z]
  BY <1>1, <1>2
<1>6. RepeatOverflow(count) <=> a + count > decoder.size
  BY <1>2 DEF RepeatOverflow
<1>7. /\ IsSource' /\ symbols'.source = symbols.source /\ symbols'.written = symbols.written
      /\ ~ OfUnknown => symbols'.next = symbols.next + 1
  <2>1. SymbolRead
    BY DEF ReadRepeat
  <2> QED
    BY <2>1, AdvanceIs
<1>8. OfUnknown' <=> OfUnknown
  BY <1>7 DEF OfUnknown
<1>9. PICK t, p : t = symbols.written.symbols /\ p = symbols.written.rleMax
  OBVIOUS
<1>10. ASSUME ~ OfUnknown, NEW moved, NEW c, Follows(moved, c, t, p)
       PROVE  /\ symbols.next \in 1..Len(t) /\ ~ RepeatOverflow(count)
              /\ c[symbols.next] = a + count
              /\ \A i \in (a + 1)..(a + count) : moved[i] = 0
  <2>1. PICK n, l : n = symbols.next /\ l = Len(t)
    OBVIOUS
  <2>2. /\ l \in Nat /\ n \in 1..l /\ c[n - 1] = a /\ t \in Seq(Symbols)
        /\ Cuts(c, t, moved, decoder.size, p) /\ Len(moved) = decoder.size
        /\ decoder.bits = t[n].symbol /\ decoder.bits \in 1..p /\ p \in 0..16
    BY <1>2, <1>3, <1>10, <2>1 DEF Follows
  <2>3. Stands(t[n], moved, a, c[n], p)
    BY <2>1, <2>2 DEF Cuts
  <2>4. extra = t[n].extra
    BY <1>5, <1>9, <1>10, <2>1 DEF AsWritten
  <2>5. /\ c[n] \in (a + 1)..decoder.size
        /\ c[n] = a + (2 ^ t[n].symbol + t[n].extra) /\ \A i \in (a + 1)..c[n] : moved[i] = 0
    BY <2>2, <2>3 DEF Stands
  <2>6. c[n] = a + count
    BY <1>2, <2>2, <2>4, <2>5
  <2>7. ~ RepeatOverflow(count)
    BY <1>3, <1>4, <1>6, <2>5, <2>6
  <2> QED
    BY <2>1, <2>2, <2>5, <2>6, <2>7
<1>11. CASE RepeatOverflow(count)
  <2>1. decoder' = [decoder EXCEPT !.state = "error"]
    BY <1>5, <1>11
  <2>2. /\ decoder' \in Decoders /\ decoder'.size = decoder.size /\ decoder'.trees = decoder.trees
        /\ decoder'.map = decoder.map /\ decoder'.state = "error"
    BY <1>3, <2>1 DEF Decoders
  <2>3. MapTypeOK'
    BY <1>3, <2>2 DEF MapTypeOK
  <2>4. OfUnknown
    BY <1>9, <1>10, <1>11 DEF MapInv, MapFollows
  <2> QED
    BY <1>7, <1>8, <2>2, <2>3, <2>4 DEF MapStep, MapInv, Same
<1>12. CASE ~ RepeatOverflow(count)
  <2>1. decoder' = [decoder EXCEPT !.state = "Entries", !.bits = 0, !.map = @ \o z]
    BY <1>5, <1>12
  <2>2. PICK m : m = decoder.map \o z
    OBVIOUS
  <2>3. /\ m \in Seq(Nat) /\ Len(m) = a + count
        /\ \A i \in 1..a : m[i] = decoder.map[i]
        /\ \A i \in (a + 1)..(a + count) : m[i] = 0
    <3>1. z \in Seq(Nat) /\ Len(z) = count /\ \A i \in 1..count : z[i] = 0
      BY <1>2, <1>4
    <3>2. /\ m \in Seq(Nat) /\ Len(m) = a + count
          /\ \A i \in 1..(a + count) : m[i] = IF i <= a THEN decoder.map[i] ELSE z[i - a]
      BY <1>2, <1>3, <1>4, <2>2, <3>1, ConcatProperties
    <3>3. \A i \in (a + 1)..(a + count) : i \in 1..(a + count) /\ ~(i <= a) /\ i - a \in 1..count
      BY <1>3, <1>4
    <3>4. \A i \in 1..a : i \in 1..(a + count) /\ i <= a
      BY <1>3, <1>4
    <3> QED
      BY <3>1, <3>2, <3>3, <3>4
  <2>4. /\ decoder' \in Decoders
        /\ decoder'.size = decoder.size /\ decoder'.trees = decoder.trees
        /\ decoder'.map = m /\ decoder'.rleMax = decoder.rleMax /\ decoder'.state = "Entries"
    <3>1. decoder' = [size |-> decoder.size, trees |-> decoder.trees, state |-> "Entries",
                      rleMax |-> decoder.rleMax, bits |-> 0, map |-> m]
      BY <1>3, <2>1, <2>2 DEF Decoders
    <3>2. 0 \in 0..16 /\ decoder.rleMax \in 0..16
      BY <1>3 DEF Decoders
    <3> QED
      BY <1>3, <2>3, <3>1, <3>2 DEF Decoders
  <2>5. \A i \in 1..(a + count) : i \in 1..a \/ i \in (a + 1)..(a + count)
    BY <1>3, <1>4
  <2>6. MapTypeOK'
    <3>1. \A i \in 1..a : decoder.map[i] \in 0..(decoder.trees - 1)
      BY <1>2, <1>3 DEF MapTypeOK
    <3>2. 0 \in 0..(decoder.trees - 1)
      BY <1>3
    <3>3. \A i \in 1..(a + count) : m[i] \in 0..(decoder.trees - 1)
      BY <2>3, <2>5, <3>1, <3>2
    <3>4. a + count <= decoder.size
      BY <1>3, <1>4, <1>6, <1>12
    <3> QED
      BY <2>3, <2>4, <3>3, <3>4 DEF MapTypeOK
  <2>7. ASSUME ~ OfUnknown PROVE MapFollows'
    <3>1. PICK moved, c : Follows(moved, c, t, p)
      BY <1>9, <2>7 DEF MapInv, MapFollows
    <3>2. PICK n : n = symbols.next
      OBVIOUS
    <3>3. /\ n \in 1..Len(t) /\ c[n] = a + count /\ t \in Seq(Symbols)
          /\ \A i \in (a + 1)..(a + count) : moved[i] = 0
      BY <1>10, <2>7, <3>1, <3>2 DEF Follows
    <3>4. \A i \in 1..(a + count) : m[i] = moved[i]
      <4>1. \A i \in 1..a : decoder.map[i] = moved[i]
        BY <1>2, <1>3, <3>1 DEF Follows
      <4> QED
        BY <2>3, <2>5, <3>3, <4>1
    <3>5. symbols'.next = n + 1 /\ symbols'.next \in 1..(Len(t) + 1) /\ symbols'.next - 1 = n
      BY <1>7, <2>7, <3>2, <3>3
    <3>6. c[symbols'.next - 1] = Len(m)
      BY <2>3, <3>3, <3>5
    <3>7. decoder.rleMax = p
      BY <1>3, <3>1 DEF Follows
    <3>8. Follows(moved, c, t, p)'
      BY <1>7, <2>3, <2>4, <3>1, <3>4, <3>5, <3>6, <3>7 DEF Follows
    <3>9. t = symbols'.written.symbols /\ p = symbols'.written.rleMax
      BY <1>7, <1>9
    <3> QED
      BY <3>8, <3>9 DEF MapFollows
  <2> QED
    BY <1>7, <1>8, <2>4, <2>6, <2>7 DEF MapStep, MapInv, Same
<1> QED
  BY <1>11, <1>12

\* A whole map is turned back, or was not moved; nothing is left of what was written.
LEMMA TransformStep ==
  ASSUME MapInv, IsSource, Transform
  PROVE  MapStep /\ IsSource'
<1>1. /\ MapTypeOK /\ decoder.state = "Entries" /\ Len(decoder.map) = decoder.size
      /\ decoder \in Decoders /\ decoder.size \in Nat \ {0} /\ decoder.trees \in Nat \ {0}
      /\ decoder.map \in Seq(Nat) /\ symbols' = symbols
  BY DEF MapInv, MapTypeOK, Decoders, Transform
<1>2. PICK n, s : n = decoder.trees /\ s = decoder.map
  OBVIOUS
<1>3. s \in Seq(0..(n - 1)) /\ n \in Nat \ {0}
  <2>1. \A i \in 1..Len(s) : s[i] \in 0..(n - 1)
    BY <1>1, <1>2 DEF MapTypeOK
  <2>2. PICK l : l = Len(s)
    OBVIOUS
  <2>3. l \in Nat /\ s \in [1..l -> Nat]
    BY <1>1, <1>2, <2>2
  <2>4. s \in [1..l -> 0..(n - 1)]
    BY <2>1, <2>2, <2>3
  <2>5. s \in Seq(0..(n - 1))
    <3>1. PICK T : T = 0..(n - 1)
      OBVIOUS
    <3> QED
      BY <2>3, <2>4, SeqDef
  <2> QED
    BY <1>1, <1>2, <2>5
<1>4. PICK m : m = InverseMoveToFront(s, n)
  OBVIOUS
<1>5. m \in Seq(0..(n - 1)) /\ Len(m) = Len(s)
  BY <1>3, <1>4, InverseIsMap
<1>6. \/ decoder' = [decoder EXCEPT !.state = "Done", !.map = m]
      \/ OfUnknown /\ decoder' = [decoder EXCEPT !.state = "Done"]
  BY <1>2, <1>4 DEF Transform
<1>7. PICK o : o \in {m, s} /\ decoder' = [decoder EXCEPT !.state = "Done", !.map = o]
               /\ (~ OfUnknown => o = m)
  <2>1. CASE decoder' = [decoder EXCEPT !.state = "Done", !.map = m]
    BY <2>1
  <2>2. CASE OfUnknown /\ decoder' = [decoder EXCEPT !.state = "Done"]
    <3>1. decoder' = [decoder EXCEPT !.state = "Done", !.map = s]
      BY <1>1, <1>2, <2>2 DEF Decoders
    <3> QED
      BY <2>2, <3>1
  <2> QED
    BY <1>6, <2>1, <2>2
<1>8. o \in Seq(0..(n - 1)) /\ o \in Seq(Nat) /\ Len(o) = decoder.size
  <2>1. o \in Seq(0..(n - 1)) /\ Len(o) = decoder.size
    BY <1>1, <1>2, <1>3, <1>5, <1>7
  <2> QED
    BY <1>3, <2>1
<1>9. /\ decoder' \in Decoders /\ decoder'.size = decoder.size /\ decoder'.trees = n
      /\ decoder'.map = o /\ decoder'.state = "Done"
  BY <1>1, <1>2, <1>7, <1>8 DEF Decoders
<1>10. MapTypeOK'
  <2>1. \A i \in 1..Len(o) : o[i] \in 0..(n - 1)
    <3>1. PICK T : T = 0..(n - 1)
      OBVIOUS
    <3>2. o \in Seq(T)
      BY <1>8, <3>1
    <3>3. \A i \in 1..Len(o) : o[i] \in T
      BY <3>2
    <3> QED
      BY <3>1, <3>3
  <2> QED
    BY <1>1, <1>8, <1>9, <2>1 DEF MapTypeOK
<1>11. ASSUME ~ OfUnknown PROVE MapFollows'
  <2>1. PICK t, p : t = symbols.written.symbols /\ p = symbols.written.rleMax
    OBVIOUS
  <2>2. PICK moved, c : Follows(moved, c, t, p)
    BY <1>11, <2>1 DEF MapInv, MapFollows
  <2>3. symbols.next = Len(t) + 1
    BY <1>1, <2>2, NothingDue
  <2>4. s = moved
    <3>1. moved \in Seq(0..(n - 1)) /\ Len(moved) = Len(s)
      BY <1>1, <1>2, <2>2 DEF Follows
    <3>2. \A i \in 1..Len(s) : s[i] = moved[i]
      BY <1>1, <1>2, <2>2 DEF Follows
    <3> QED
      BY <1>3, <3>1, <3>2, SeqEqual
  <2>5. o = symbols.source
    BY <1>2, <1>4, <1>7, <1>11, <2>2, <2>4 DEF Follows
  <2>6. Follows(moved, c, t, p)'
    BY <1>1, <1>2, <1>9, <2>2, <2>3, <2>5 DEF Follows
  <2>7. t = symbols'.written.symbols /\ p = symbols'.written.rleMax
    BY <1>1, <2>1
  <2> QED
    BY <2>6, <2>7 DEF MapFollows
<1>12. (OfUnknown' <=> OfUnknown) /\ Same /\ IsSource'
  BY <1>1, <1>2, <1>9 DEF OfUnknown, Same, IsSource
<1> QED
  BY <1>10, <1>11, <1>12 DEF MapStep, MapInv

LEMMA DecodeMapStep ==
  ASSUME MapInv, IsSource, DecodeMap
  PROVE  MapStep /\ IsSource'
BY RleMaxStep, EntryStep, RepeatStep, TransformStep DEF DecodeMap

\* So a map is whole at every step.
LEMMA InvIsWhole ==
  ASSUME MapInv
  PROVE  MapIsWhole
<1>1. MapTypeOK
  BY DEF MapInv
<1>2. Len(decoder.map) <= decoder.size
  BY <1>1 DEF MapTypeOK
<1>3. ASSUME decoder.state = "Done"
      PROVE  Len(decoder.map) = decoder.size /\ ToSet(decoder.map) \subseteq 0..(decoder.trees - 1)
  <2>1. decoder.map \in Seq(Nat)
    BY <1>1 DEF MapTypeOK, Decoders
  <2>2. \A x \in ToSet(decoder.map) : x \in 0..(decoder.trees - 1)
    BY <1>1, <2>1 DEF MapTypeOK, ToSet
  <2> QED
    BY <1>1, <1>3, <2>2 DEF MapTypeOK
<1>4. ASSUME ~ OfUnknown
      PROVE  /\ decoder.state # "error"
             /\ decoder.state = "RleFlag" => symbols.written.rleMax <= 2 ^ RleBits
             /\ decoder.state = "Entries" /\ Len(decoder.map) < decoder.size =>
                  /\ symbols.next <= Len(symbols.written.symbols)
                  /\ symbols.written.symbols[symbols.next].symbol \in Alphabet
             /\ decoder.state = "Repeat" =>
                  symbols.written.symbols[symbols.next].extra < 2 ^ decoder.bits
             /\ decoder.state = "Done" => /\ decoder.map = symbols.source
                                          /\ symbols.next = Len(symbols.written.symbols) + 1
  <2>1. PICK t, p : t = symbols.written.symbols /\ p = symbols.written.rleMax
    OBVIOUS
  <2>2. PICK moved, c : Follows(moved, c, t, p)
    BY <1>4, <2>1 DEF MapInv, MapFollows
  <2>3. /\ decoder.state # "error" /\ p <= 2 ^ RleBits
        /\ decoder.state = "Done" => decoder.map = symbols.source /\ symbols.next = Len(t) + 1
    BY <2>2 DEF Follows
  <2>4. ASSUME decoder.state = "Entries", Len(decoder.map) < decoder.size
        PROVE  symbols.next <= Len(t) /\ t[symbols.next].symbol \in Alphabet
    <3>1. PICK n, a, x : n = symbols.next /\ a = Len(decoder.map) /\ x = t[n]
      OBVIOUS
    <3>2. n \in 1..Len(t) /\ x \in Symbols /\ Stands(x, moved, a, c[n], p)
      BY <1>1, <2>2, <2>4, <3>1, DueStands
    <3>3. /\ decoder.rleMax = p /\ p \in 0..16 /\ decoder.trees \in Nat \ {0}
          /\ moved \in Seq(0..(decoder.trees - 1))
      BY <1>1, <2>2, <2>4 DEF Follows, MapTypeOK, Decoders
    <3>4. x.symbol > p => x.symbol - p \in 0..(decoder.trees - 1)
      <4>1. a \in Nat
        BY <1>1, <3>1 DEF MapTypeOK, Decoders
      <4>2. x.symbol > p => moved[a + 1] = x.symbol - p
        <5>1. p \in Nat /\ x.symbol \in Nat
          BY <3>2, <3>3 DEF Symbols
        <5> QED
          BY <3>2, <5>1 DEF Stands
      <4>3. a + 1 \in 1..Len(moved)
        <5>1. c[n] \in (a + 1)..Len(moved) /\ Len(moved) \in Nat
          BY <3>2, <3>3 DEF Stands
        <5> QED
          BY <4>1, <5>1
      <4>4. moved[a + 1] \in 0..(decoder.trees - 1)
        BY <3>3, <4>3
      <4> QED
        BY <4>2, <4>4
    <3>5. x.symbol \in Nat
      BY <3>2 DEF Symbols
    <3>6. x.symbol \in 0..(decoder.trees + decoder.rleMax - 1)
      BY <3>3, <3>4, <3>5
    <3> QED
      BY <3>1, <3>2, <3>6 DEF Alphabet
  <2>5. ASSUME decoder.state = "Repeat" PROVE t[symbols.next].extra < 2 ^ decoder.bits
    <3>1. PICK n, l, a : n = symbols.next /\ l = Len(t) /\ a = Len(decoder.map)
      OBVIOUS
    <3>2. /\ l \in Nat /\ n \in 1..l /\ c[n - 1] = a /\ Cuts(c, t, moved, decoder.size, p)
          /\ decoder.bits = t[n].symbol /\ decoder.bits \in 1..p /\ p \in 0..16
      BY <2>2, <2>5, <3>1 DEF Follows
    <3>3. Stands(t[n], moved, a, c[n], p)
      BY <3>1, <3>2 DEF Cuts
    <3> QED
      BY <3>1, <3>2, <3>3 DEF Stands
  <2> QED
    BY <2>1, <2>3, <2>4, <2>5
<1> QED
  BY <1>2, <1>3, <1>4 DEF MapIsWhole

-----------------------------------------------------------------------------
(* The fields of a header: what is ahead of the decoder. *)

IsList(s) == \E S : s \in Seq(S)

LEMMA ListOfBoth ==
  ASSUME NEW a, NEW b, IsList(a), IsList(b)
  PROVE  \E S : a \in Seq(S) /\ b \in Seq(S)
<1>1. PICK S : a \in Seq(S)
  BY DEF IsList
<1>2. PICK T : b \in Seq(T)
  BY DEF IsList
<1>3. PICK U : U = S \cup T
  OBVIOUS
<1>4. S \subseteq U /\ T \subseteq U
  BY <1>3
<1>5. a \in Seq(U)
  BY <1>1, <1>4
<1>6. b \in Seq(U)
  BY <1>2, <1>4
<1> QED
  BY <1>5, <1>6

LEMMA ListConcat ==
  ASSUME NEW a, NEW b, IsList(a), IsList(b)
  PROVE  IsList(a \o b) /\ <<>> \o a = a /\ a \o <<>> = a
<1>1. PICK S : a \in Seq(S) /\ b \in Seq(S)
  BY ListOfBoth
<1>2. a \o b \in Seq(S)
  BY <1>1, ConcatProperties
<1>3. <<>> \o a = a /\ a \o <<>> = a
  BY <1>1, ConcatEmptySeq
<1> QED
  BY <1>2, <1>3 DEF IsList

LEMMA ListAssoc ==
  ASSUME NEW a, NEW b, NEW c, IsList(a), IsList(b), IsList(c)
  PROVE  (a \o b) \o c = a \o (b \o c)
<1>1. PICK S : a \in Seq(S) /\ b \in Seq(S)
  BY ListOfBoth
<1>2. a \o b \in Seq(S)
  BY <1>1, ConcatProperties
<1>3. PICK T : c \in Seq(T)
  BY DEF IsList
<1>4. PICK U : U = S \cup T
  OBVIOUS
<1>5. S \subseteq U /\ T \subseteq U
  BY <1>4
<1>6. a \in Seq(U) /\ b \in Seq(U) /\ c \in Seq(U)
  BY <1>1, <1>3, <1>5
<1> QED
  BY <1>6, ConcatAssociative

Associate(a, b, c) == (a \o b) \o c = a \o (b \o c)

LEMMA ListsAssociate ==
  ASSUME NEW a, NEW b, NEW c, IsList(a), IsList(b), IsList(c)
  PROVE  Associate(a, b, c)
BY ListAssoc DEF Associate

LEMMA ListOf ==
  ASSUME NEW f
  PROVE  IsList(<<f>>) /\ IsList(<<>>) /\ \A n \in Nat : IsList(Times(n, f))
<1>1. <<f>> \in Seq({f}) /\ <<>> \in Seq({f})
  OBVIOUS
<1>2. ASSUME NEW n \in Nat PROVE Times(n, f) \in Seq({f})
  BY DEF Times
<1> QED
  BY <1>1, <1>2 DEF IsList

Joined(u, x, y) == u = x \o y

\* One field and the others like it.
LEMMA TimesMore ==
  ASSUME NEW n \in Nat \ {0}, NEW f, NEW r, IsList(r)
  PROVE  Joined(Times(n, f) \o r, <<f>>, Times(n - 1, f) \o r)
<1>1. PICK a, b : a = Times(n, f) /\ b = Times(n - 1, f)
  OBVIOUS
<1>2. a \in Seq({f}) /\ Len(a) = n /\ \A i \in 1..n : a[i] = f
  BY <1>1 DEF Times
<1>3. b \in Seq({f}) /\ Len(b) = n - 1 /\ \A i \in 1..(n - 1) : b[i] = f
  BY <1>1 DEF Times
<1>4. PICK d : d = <<f>> \o b
  OBVIOUS
<1>5. <<f>> \in Seq({f}) /\ Len(<<f>>) = 1 /\ <<f>>[1] = f
  OBVIOUS
<1>6. /\ d \in Seq({f}) /\ Len(d) = n
      /\ \A i \in 1..n : d[i] = IF i <= 1 THEN <<f>>[i] ELSE b[i - 1]
  BY <1>3, <1>4, <1>5, ConcatProperties
<1>7. \A i \in 1..n : d[i] = f
  <2>1. \A i \in 1..n : i = 1 \/ (~(i <= 1) /\ i - 1 \in 1..(n - 1))
    OBVIOUS
  <2> QED
    BY <1>3, <1>5, <1>6, <2>1
<1>8. a = d
  BY <1>2, <1>6, <1>7, SeqEqual
<1>9. IsList(<<f>>) /\ IsList(b)
  BY <1>3, <1>5 DEF IsList
<1>10. (<<f>> \o b) \o r = <<f>> \o (b \o r)
  BY <1>9, ListAssoc
<1> QED
  BY <1>1, <1>4, <1>8, <1>10 DEF Joined

\* The fields that are not read yet, and those after the next of them.
Ahead(r) ==
  /\ IsList(r) /\ next \in Nat \ {0} /\ Len(stream) = next - 1 + Len(r)
  /\ \A i \in 1..Len(r) : stream[next - 1 + i] = r[i]

Comes(v, r) ==
  /\ next \in Nat \ {0} /\ Len(stream) = next + Len(r) /\ IsList(r)
  /\ \A i \in 1..Len(r) : stream[next + i] = r[i]
  /\ next <= Len(stream) /\ stream[next].shape = Due /\ stream[next].value = v

LEMMA AheadComes ==
  ASSUME NEW v, NEW r, IsList(r), Ahead(<<Field(Due, v)>> \o r)
  PROVE  Comes(v, r)
<1>1. PICK f, a : f = Field(Due, v) /\ a = <<f>> \o r
  OBVIOUS
<1>2. PICK S : <<f>> \in Seq(S) /\ r \in Seq(S)
  BY ListOf, ListOfBoth
<1>3. PICK l : l = Len(r)
  OBVIOUS
<1>4. l \in Nat /\ Len(<<f>>) = 1 /\ <<f>>[1] = f
  BY <1>2, <1>3
<1>5. /\ Len(a) = 1 + l
      /\ \A i \in 1..(1 + l) : a[i] = IF i <= 1 THEN <<f>>[i] ELSE r[i - 1]
  BY <1>1, <1>2, <1>3, <1>4, ConcatProperties
<1>6. a[1] = f /\ \A i \in 1..l : a[i + 1] = r[i]
  <2>1. 1 \in 1..(1 + l) /\ \A i \in 1..l : i + 1 \in 1..(1 + l) /\ ~(i + 1 <= 1) /\ (i + 1) - 1 = i
    BY <1>4
  <2>2. a[1] = f
    BY <1>4, <1>5, <2>1
  <2>3. ASSUME NEW i \in 1..l PROVE a[i + 1] = r[i]
    BY <1>5, <2>1
  <2> QED
    BY <2>2, <2>3
<1>7. /\ next \in Nat \ {0} /\ Len(stream) = next - 1 + (1 + l)
      /\ \A i \in 1..(1 + l) : stream[next - 1 + i] = a[i]
  BY <1>1, <1>5 DEF Ahead
<1>8. stream[next] = f
  <2>1. 1 \in 1..(1 + l) /\ next - 1 + 1 = next
    BY <1>4, <1>7
  <2> QED
    BY <1>6, <1>7, <2>1
<1>9. ASSUME NEW i \in 1..l PROVE stream[next + i] = r[i]
  <2>1. i + 1 \in 1..(1 + l) /\ next - 1 + (i + 1) = next + i
    BY <1>4, <1>7
  <2> QED
    BY <1>6, <1>7, <2>1
<1>10. Len(stream) = next + l /\ next <= Len(stream)
  BY <1>4, <1>7
<1>11. f.shape = Due /\ f.value = v
  BY <1>1 DEF Field
<1> QED
  BY <1>3, <1>7, <1>8, <1>9, <1>10, <1>11 DEF Comes

\* What is read is the field that comes; the others are ahead then.
LEMMA ComesRead ==
  ASSUME NEW v, NEW r, Comes(v, r), source # Unknown, ReadOn
  PROVE  Ahead(r)'
<1>1. next' = next + 1 /\ stream' = stream
  BY DEF ReadOn
<1>2. PICK l : l = Len(r)
  OBVIOUS
<1>3. /\ next \in Nat \ {0} /\ Len(stream) = next + l /\ IsList(r)
      /\ \A i \in 1..l : stream[next + i] = r[i]
  BY <1>2 DEF Comes
<1>4. l \in Nat
  BY <1>2, <1>3 DEF IsList
<1>5. next' \in Nat \ {0} /\ next' - 1 = next
  BY <1>1, <1>3
<1> QED
  BY <1>1, <1>2, <1>3, <1>5 DEF Ahead

LEMMA ComesIs ==
  ASSUME NEW v, NEW r, Comes(v, r), source # Unknown, NEW value, Reading(value)
  PROVE  value = v /\ Ahead(r)'
<1>1. ReadOn /\ stream[next].value = value
  BY DEF Reading
<1>2. value = v
  BY <1>1 DEF Comes
<1> QED
  BY <1>1, <1>2, ComesRead

LEMMA ComesDue ==
  ASSUME NEW v, NEW r, Comes(v, r)
  PROVE  AtDue
BY DEF Comes, AtDue

LEMMA AllAhead ==
  ASSUME IsList(stream), next = 1
  PROVE  Ahead(stream)
<1>1. Len(stream) \in Nat
  BY DEF IsList
<1> QED
  BY <1>1 DEF Ahead

-----------------------------------------------------------------------------
(* What is ahead in the fields of a plan. *)

\* The fields of a count that are left.
VarRest(c, n) ==
  IF c.state = "FirstBit" THEN VarLen(n)
  ELSE IF c.state = "Width"
    THEN IF n = 1 THEN <<Field(Bits(3), 0)>>
         ELSE <<Field(Bits(3), Log2(n))>> \o <<Field(Bits(Log2(n)), n - 2 ^ Log2(n))>>
  ELSE <<Field(Bits(Log2(n)), n - 2 ^ Log2(n))>>

CounterFits(c, n) ==
  \/ c = FirstBit
  \/ c = [state |-> "Width", width |-> 3] /\ n >= 1
  \/ c = [state |-> "Value", width |-> Log2(n)] /\ n >= 2

LEMMA WidthIs ==
  ASSUME NEW n \in 2..255
  PROVE  Log2(n) \in 1..7 /\ n - 2 ^ Log2(n) \in 0..(2 ^ Log2(n) - 1) /\ 2 ^ Log2(n) \in Nat
<1>1. PICK l : l = Log2(n)
  OBVIOUS
<1>2. l \in 0..30 /\ 2 ^ l <= n /\ n < 2 ^ (l + 1)
  <2>1. n \in Nat /\ 1 <= n /\ n < 2 ^ 31
    OBVIOUS
  <2> QED
    BY <1>1, <2>1, Log2Is
<1>3. 2 ^ l \in Nat /\ 2 ^ (l + 1) = 2 * 2 ^ l
  <2>1. l \in 0..31
    BY <1>2
  <2>2. Power(l)
    BY <2>1, PowersAreNumbers
  <2> QED
    BY <2>2 DEF Power
<1>4. l <= 7
  <2>1. SUFFICES ASSUME l >= 8 PROVE FALSE
    BY <1>2
  <2>2. PICK e : e = 8
    OBVIOUS
  <2>3. e \in 0..31 /\ l \in 0..31 /\ e <= l
    BY <1>2, <2>1, <2>2
  <2>4. 2 ^ e <= 2 ^ l
    BY <2>3, PowersGrow
  <2>5. 2 ^ e = 256
    BY <2>2
  <2> QED
    BY <1>2, <1>3, <2>4, <2>5
<1>5. l # 0
  <2>1. SUFFICES ASSUME l = 0 PROVE FALSE
    OBVIOUS
  <2>2. 2 ^ l = 1
    BY <2>1
  <2> QED
    BY <1>2, <1>3, <2>2
<1>6. n - 2 ^ l \in 0..(2 ^ l - 1)
  BY <1>2, <1>3
<1> QED
  BY <1>1, <1>2, <1>3, <1>4, <1>5, <1>6

LEMMA ListsOfFew ==
  ASSUME NEW f, NEW g, NEW h
  PROVE  /\ <<f>> \o <<g>> = <<f, g>> /\ <<f>> \o (<<g>> \o <<h>>) = <<f, g, h>>
         /\ IsList(<<f>>) /\ IsList(<<f, g>>) /\ IsList(<<f, g, h>>)
<1>1. PICK S : S = {f, g, h}
  OBVIOUS
<1>2. PICK a, b, c, ab, abc : /\ a = <<f>> /\ b = <<g>> /\ c = <<h>>
                              /\ ab = <<f, g>> /\ abc = <<f, g, h>>
  OBVIOUS
<1>3. f \in S /\ g \in S /\ h \in S
  BY <1>1
<1>4. /\ a \in Seq(S) /\ b \in Seq(S) /\ c \in Seq(S)
      /\ Len(a) = 1 /\ a[1] = f /\ Len(b) = 1 /\ b[1] = g /\ Len(c) = 1 /\ c[1] = h
  BY <1>2, <1>3
<1>5. ab \in Seq(S) /\ Len(ab) = 2 /\ ab[1] = f /\ ab[2] = g
  BY <1>2, <1>3
<1>6. abc \in Seq(S) /\ Len(abc) = 3 /\ abc[1] = f /\ abc[2] = g /\ abc[3] = h
  BY <1>2, <1>3
<1>7. a \o b = ab
  <2>1. PICK u : u = a \o b
    OBVIOUS
  <2>2. u \in Seq(S) /\ Len(u) = 2 /\ \A i \in 1..2 : u[i] = IF i <= 1 THEN a[i] ELSE b[i - 1]
    BY <1>4, <2>1, ConcatProperties
  <2>3. \A i \in 1..2 : i = 1 \/ i = 2
    OBVIOUS
  <2>4. u[1] = f /\ u[2] = g
    BY <1>4, <2>2
  <2>5. \A i \in 1..2 : u[i] = ab[i]
    BY <1>5, <2>3, <2>4
  <2> QED
    BY <1>5, <2>1, <2>2, <2>5, SeqEqual
<1>8. a \o (b \o c) = abc
  <2>1. PICK v, u : v = b \o c /\ u = a \o v
    OBVIOUS
  <2>2. v \in Seq(S) /\ Len(v) = 2 /\ \A i \in 1..2 : v[i] = IF i <= 1 THEN b[i] ELSE c[i - 1]
    <3>1. /\ v \in Seq(S) /\ Len(v) = Len(b) + Len(c)
          /\ \A i \in 1..(Len(b) + Len(c)) : v[i] = IF i <= Len(b) THEN b[i] ELSE c[i - Len(b)]
      BY <1>4, <2>1, ConcatProperties, Zenon
    <3> QED
      BY <1>4, <3>1
  <2>3. v[1] = g /\ v[2] = h
    BY <1>4, <2>2
  <2>4. u \in Seq(S) /\ Len(u) = 3 /\ \A i \in 1..3 : u[i] = IF i <= 1 THEN a[i] ELSE v[i - 1]
    BY <1>4, <2>1, <2>2, ConcatProperties
  <2>5. \A i \in 1..3 : i = 1 \/ i = 2 \/ i = 3
    OBVIOUS
  <2>6. u[1] = f /\ u[2] = g /\ u[3] = h
    BY <1>4, <2>3, <2>4
  <2>7. \A i \in 1..3 : u[i] = abc[i]
    BY <1>6, <2>5, <2>6
  <2> QED
    BY <1>6, <2>1, <2>4, <2>7, SeqEqual
<1>9. IsList(a) /\ IsList(ab) /\ IsList(abc)
  BY <1>4, <1>5, <1>6 DEF IsList
<1> QED
  BY <1>2, <1>7, <1>8, <1>9

LEMMA VarLenIs ==
  ASSUME NEW n \in 0..255
  PROVE  /\ IsList(VarLen(n))
         /\ n = 0 => VarLen(n) = <<Field(Bits(1), 0)>>
         /\ n >= 1 => VarLen(n) = <<Field(Bits(1), 1)>> \o VarRest([state |-> "Width", width |-> 3], n)
<1>1. PICK f1, f2, f3, f4, f5 :
        /\ f1 = Field(Bits(1), 0) /\ f2 = Field(Bits(1), 1) /\ f3 = Field(Bits(3), 0)
        /\ f4 = Field(Bits(3), Log2(n)) /\ f5 = Field(Bits(Log2(n)), n - 2 ^ Log2(n))
  OBVIOUS
<1>2. CASE n = 0
  <2>1. VarLen(n) = <<f1>>
    BY <1>1, <1>2 DEF VarLen
  <2> QED
    BY <1>1, <1>2, <2>1, ListOf
<1>3. CASE n = 1
  <2>1. VarRest([state |-> "Width", width |-> 3], n) = <<f3>>
    BY <1>1, <1>3 DEF VarRest
  <2>2. VarLen(n) = <<f2, f3>>
    BY <1>1, <1>3 DEF VarLen
  <2>3. <<f2>> \o <<f3>> = <<f2, f3>> /\ IsList(<<f2, f3>>)
    BY ListsOfFew
  <2>4. VarLen(n) = <<f2>> \o VarRest([state |-> "Width", width |-> 3], n) /\ IsList(VarLen(n))
    BY <2>1, <2>2, <2>3, Zenon
  <2> QED
    BY <1>1, <1>3, <2>4
<1>4. CASE n >= 2
  <2>1. VarRest([state |-> "Width", width |-> 3], n) = <<f4>> \o <<f5>>
    BY <1>1, <1>4 DEF VarRest
  <2>2. VarLen(n) = <<f2, f4, f5>>
    BY <1>1, <1>4 DEF VarLen
  <2>3. <<f2>> \o (<<f4>> \o <<f5>>) = <<f2, f4, f5>> /\ IsList(<<f2, f4, f5>>)
    BY ListsOfFew
  <2>4. VarLen(n) = <<f2>> \o VarRest([state |-> "Width", width |-> 3], n) /\ IsList(VarLen(n))
    BY <2>1, <2>2, <2>3, Zenon
  <2> QED
    BY <1>1, <1>4, <2>4
<1> QED
  BY <1>2, <1>3, <1>4

\* The next field of a count; after it the count is known, or the others are left.
Counts(n, v, r, rest) ==
  /\ Comes(v, r) /\ v \in 0..(2 ^ counter.width - 1)
  /\ Counted(v) => Count(v) = n /\ r = rest
  /\ ~ Counted(v) => CounterFits(CountOn(v), n) /\ r = VarRest(CountOn(v), n) \o rest

LEMMA CountComes ==
  ASSUME NEW n \in 0..255, CounterFits(counter, n), Due = Bits(counter.width),
         NEW rest, IsList(rest), Ahead(VarRest(counter, n) \o rest)
  PROVE  \E v, r : Counts(n, v, r, rest)
<1>1. 2 ^ 1 = 2 /\ 2 ^ 3 = 8
  OBVIOUS
<1>2. PICK Wide : Wide = [state |-> "Width", width |-> 3]
  OBVIOUS
<1>3. PICK l, x : l = Log2(n) /\ x = n - 2 ^ l
  OBVIOUS
<1>4. n >= 2 => l \in 1..7 /\ x \in 0..(2 ^ l - 1) /\ 2 ^ l \in Nat
  <2>1. n >= 2 => n \in 2..255
    OBVIOUS
  <2> QED
    BY <1>3, <2>1, WidthIs
<1>5. CASE counter = FirstBit
  <2>1. counter.state = "FirstBit" /\ counter.width = 1
    BY <1>5 DEF FirstBit
  <2>2. VarRest(counter, n) = VarLen(n)
    BY <2>1 DEF VarRest
  <2>3. CASE n = 0
    <3>1. Ahead(<<Field(Due, 0)>> \o rest)
      BY <2>1, <2>2, <2>3, VarLenIs
    <3>2. Comes(0, rest)
      BY <3>1, AheadComes
    <3>3. Counted(0) /\ Count(0) = 0
      BY <2>1 DEF Counted, Count
    <3> QED
      BY <1>1, <2>1, <2>3, <3>2, <3>3 DEF Counts
  <2>4. CASE n >= 1
    <3>1. PICK w : w = VarRest(Wide, n)
      OBVIOUS
    <3>2. VarLen(n) = <<Field(Due, 1)>> \o w
      BY <1>2, <2>1, <2>4, <3>1, VarLenIs
    <3>3. IsList(w)
      <4>1. n = 1 => w = <<Field(Bits(3), 0)>>
        BY <1>2, <3>1 DEF VarRest
      <4>2. PICK a, b : a = <<Field(Bits(3), l)>> /\ b = <<Field(Bits(l), x)>>
        OBVIOUS
      <4>3. n # 1 => w = a \o b
        BY <1>2, <1>3, <3>1, <4>2 DEF VarRest
      <4>4. IsList(a \o b)
        <5>1. IsList(a) /\ IsList(b)
          BY <4>2, ListOf
        <5> QED
          BY <5>1, ListConcat
      <4>5. n = 1 => IsList(w)
        BY <4>1, ListOf
      <4> QED
        BY <4>3, <4>4, <4>5
    <3>4. Ahead(<<Field(Due, 1)>> \o (w \o rest))
      <4>1. PICK one : one = <<Field(Due, 1)>>
        OBVIOUS
      <4>2. IsList(one)
        BY <4>1, ListOf
      <4>3. (one \o w) \o rest = one \o (w \o rest)
        BY <3>3, <4>2, ListAssoc
      <4>4. VarRest(counter, n) = one \o w
        BY <2>2, <3>2, <4>1
      <4> QED
        BY <4>1, <4>3, <4>4
    <3>5. Comes(1, w \o rest)
      BY <3>3, <3>4, AheadComes, ListConcat
    <3>6. ~ Counted(1) /\ CountOn(1) = Wide
      BY <1>2, <2>1 DEF Counted, CountOn
    <3>7. CounterFits(Wide, n)
      BY <1>2, <2>4 DEF CounterFits
    <3>8. 1 \in 0..(2 ^ counter.width - 1)
      BY <1>1, <2>1
    <3>9. Counts(n, 1, w \o rest, rest)
      BY <1>2, <3>1, <3>5, <3>6, <3>7, <3>8 DEF Counts
    <3> QED
      BY <3>9
  <2> QED
    BY <2>3, <2>4
<1>6. CASE counter = Wide /\ n >= 1
  <2>1. counter.state = "Width" /\ counter.width = 3
    BY <1>2, <1>6
  <2>2. CASE n = 1
    <3>1. Ahead(<<Field(Due, 0)>> \o rest)
      BY <2>1, <2>2 DEF VarRest
    <3>2. Comes(0, rest)
      BY <3>1, AheadComes
    <3>3. Counted(0) /\ Count(0) = 1
      BY <2>1 DEF Counted, Count
    <3> QED
      BY <1>1, <2>1, <2>2, <3>2, <3>3 DEF Counts
  <2>3. CASE n >= 2
    <3>1. PICK c, w : c = [state |-> "Value", width |-> l] /\ w = VarRest(c, n)
      OBVIOUS
    <3>2. w = <<Field(Bits(l), x)>>
      BY <1>3, <3>1 DEF VarRest
    <3>3. VarRest(counter, n) = <<Field(Due, l)>> \o w
      BY <1>3, <2>1, <2>3, <3>2 DEF VarRest
    <3>4. Ahead(<<Field(Due, l)>> \o (w \o rest))
      <4>1. PICK one : one = <<Field(Due, l)>>
        OBVIOUS
      <4>2. IsList(one) /\ IsList(w)
        BY <3>2, <4>1, ListOf
      <4>3. (one \o w) \o rest = one \o (w \o rest)
        BY <4>2, ListAssoc
      <4>4. VarRest(counter, n) = one \o w
        BY <3>3, <4>1
      <4> QED
        BY <4>1, <4>3, <4>4
    <3>5. Comes(l, w \o rest)
      BY <3>2, <3>4, AheadComes, ListConcat, ListOf
    <3>6. ~ Counted(l) /\ CountOn(l) = c
      BY <1>4, <2>1, <2>3, <3>1 DEF Counted, CountOn
    <3>7. CounterFits(c, n)
      BY <1>3, <2>3, <3>1 DEF CounterFits
    <3>8. l \in 0..(2 ^ counter.width - 1)
      BY <1>1, <1>4, <2>1, <2>3
    <3> QED
      BY <3>1, <3>5, <3>6, <3>7, <3>8 DEF Counts
  <2> QED
    BY <1>6, <2>2, <2>3
<1>7. CASE counter = [state |-> "Value", width |-> l] /\ n >= 2
  <2>1. counter.state = "Value" /\ counter.width = l
    BY <1>7
  <2>2. Ahead(<<Field(Due, x)>> \o rest)
    BY <1>3, <2>1 DEF VarRest
  <2>3. Comes(x, rest)
    BY <2>2, AheadComes
  <2>4. Counted(x) /\ Count(x) = 2 ^ l + x
    BY <2>1 DEF Counted, Count
  <2>5. 2 ^ l + x = n
    BY <1>3, <1>4, <1>7
  <2> QED
    BY <1>4, <1>7, <2>1, <2>3, <2>4, <2>5 DEF Counts
<1> QED
  BY <1>2, <1>3, <1>5, <1>6, <1>7 DEF CounterFits

\* What is known of a plan.
LEMMA PlanIs ==
  ASSUME NEW plan \in Plans
  PROVE  /\ plan # Unknown /\ \A k \in Kinds : plan.types[k] \in 1..256
         /\ \A k \in Kinds : PlannedTrees(plan)[k] \in 1..256
         /\ PlannedTrees(plan) = <<plan.types[1] * plan.contexts, plan.types[2], plan.types[3]>>
         /\ plan.contexts \in Nat \ {0} /\ plan.postfix \in 0..3 /\ plan.direct \in Nat
         /\ plan.direct \div 2 ^ plan.postfix \in 0..15
         /\ (plan.direct \div 2 ^ plan.postfix) * 2 ^ plan.postfix = plan.direct
         /\ plan.types \in [Kinds -> 1..256] /\ PlannedTrees(plan) \in [Kinds -> 1..256]
<1>1. /\ plan # Unknown /\ plan.types \in [Kinds -> 1..256] /\ plan.contexts \in Nat \ {0}
      /\ plan.types[1] * plan.contexts <= 256 /\ plan.postfix \in 0..3
      /\ plan.direct \in {m * 2 ^ plan.postfix : m \in 0..15}
  BY HeaderAssumption
<1>2. \A k \in Kinds : plan.types[k] \in 1..256
  BY <1>1
<1>3. 1 \in Kinds /\ 2 \in Kinds /\ 3 \in Kinds /\ Kinds = {1, 2, 3}
  BY DEF Kinds
<1>4. PICK t1, t2, t3, c : t1 = plan.types[1] /\ t2 = plan.types[2] /\ t3 = plan.types[3] /\ c = plan.contexts
  OBVIOUS
<1>5. t1 \in 1..256 /\ t2 \in 1..256 /\ t3 \in 1..256 /\ c \in Nat \ {0} /\ t1 * c <= 256
  BY <1>1, <1>2, <1>3, <1>4
<1>6. t1 * c \in 1..256
  <2>1. t1 * c >= 1
    BY <1>5
  <2>2. t1 * c \in Nat
    BY <1>5
  <2> QED
    BY <1>5, <2>1, <2>2
<1>7. PlannedTrees(plan) = <<t1 * c, t2, t3>>
  BY <1>4 DEF PlannedTrees
<1>8. \A k \in Kinds : PlannedTrees(plan)[k] \in 1..256
  <2>1. PICK x : x = t1 * c
    OBVIOUS
  <2>2. PlannedTrees(plan) = <<x, t2, t3>> /\ x \in 1..256
    BY <1>6, <1>7, <2>1
  <2> QED
    BY <1>3, <1>5, <2>2
<1>9. PlannedTrees(plan) \in [Kinds -> 1..256]
  <2>1. PICK x : x = t1 * c
    OBVIOUS
  <2>2. PlannedTrees(plan) = <<x, t2, t3>> /\ x \in 1..256
    BY <1>6, <1>7, <2>1
  <2>3. <<x, t2, t3>> \in [1..3 -> 1..256]
    BY <1>5, <2>2
  <2> QED
    BY <2>2, <2>3 DEF Kinds
<1>10. PICK q, m : m = 2 ^ plan.postfix /\ q \in 0..15 /\ plan.direct = q * m
  BY <1>1
<1>11. m \in {1, 2, 4, 8}
  <2>1. 2 ^ 0 = 1 /\ 2 ^ 1 = 2 /\ 2 ^ 2 = 4 /\ 2 ^ 3 = 8
    OBVIOUS
  <2>2. plan.postfix = 0 \/ plan.postfix = 1 \/ plan.postfix = 2 \/ plan.postfix = 3
    BY <1>1
  <2> QED
    BY <1>10, <2>1, <2>2
<1>12. (q * m) \div m = q /\ q * m \in Nat
  BY <1>10, <1>11
<1> QED
  BY <1>1, <1>2, <1>4, <1>7, <1>8, <1>9, <1>10, <1>12

LEMMA PlanNumbers ==
  ASSUME NEW plan \in Plans, NEW k \in Kinds
  PROVE  plan.types[k] \in 1..256 /\ PlannedTrees(plan)[k] \in 1..256
<1>1. /\ \A j \in Kinds : plan.types[j] \in 1..256
      /\ \A j \in Kinds : PlannedTrees(plan)[j] \in 1..256
  BY PlanIs
<1> QED
  BY <1>1

\* The context map of a plan, of literals or of distances, and how it is written.
PlannedMap(plan, k) ==
  IF k = 1 /\ plan.contexts # 1 THEN LiteralMap(plan)
  ELSE TrivialMap(PlannedTrees(plan)[k], ContextBits[k])
MapWritten(plan, k) ==
  IF k = 1 /\ plan.contexts # 1 THEN Written(LiteralMap(plan))
  ELSE WrittenTrivial(PlannedTrees(plan)[k], ContextBits[k])

LEMMA ContextsAre ==
  ASSUME NEW k \in {1, 3}
  PROVE  Contexts(k) \in 1..256 /\ ContextBits[k] \in 2..8 /\ ContextBits[k] - 1 <= 2 ^ RleBits
<1>1. ContextBits[k] \in 2..8 /\ ContextBits[k] - 1 <= 2 ^ RleBits
  BY HeaderAssumption
<1>2. PICK b : b = ContextBits[k]
  OBVIOUS
<1>3. b = 2 \/ b = 3 \/ b = 4 \/ b = 5 \/ b = 6 \/ b = 7 \/ b = 8
  BY <1>1, <1>2
<1>4. PICK c : c = 2 ^ b
  OBVIOUS
<1>5. c \in 1..256
  <2>1. CASE b = 2
    <3>1. c = 4
      BY <1>4, <2>1
    <3> QED
      BY <3>1
  <2>2. CASE b = 3
    <3>1. c = 8
      BY <1>4, <2>2
    <3> QED
      BY <3>1
  <2>3. CASE b = 4
    <3>1. c = 16
      BY <1>4, <2>3
    <3> QED
      BY <3>1
  <2>4. CASE b = 5
    <3>1. c = 32
      BY <1>4, <2>4
    <3> QED
      BY <3>1
  <2>5. CASE b = 6
    <3>1. c = 64
      BY <1>4, <2>5
    <3> QED
      BY <3>1
  <2>6. CASE b = 7
    <3>1. c = 128
      BY <1>4, <2>6
    <3> QED
      BY <3>1
  <2>7. CASE b = 8
    <3>1. c = 256
      BY <1>4, <2>7
    <3> QED
      BY <3>1
  <2> QED
    BY <1>3, <2>1, <2>2, <2>3, <2>4, <2>5, <2>6, <2>7
<1> QED
  BY <1>1, <1>2, <1>4, <1>5 DEF Contexts

LEMMA MapSizeIs ==
  ASSUME types \in [Kinds -> 1..256], NEW k \in {1, 3}
  PROVE  MapSize(k) \in Nat \ {0} /\ MapSize(k) = Contexts(k) * types[k]
<1>1. PICK a, b : a = types[k] /\ b = Contexts(k)
  OBVIOUS
<1>2. b \in 1..256
  BY <1>1, ContextsAre
<1>3. a \in 1..256
  BY <1>1 DEF Kinds
<1>4. a * b \in Nat \ {0} /\ a * b = b * a
  BY <1>2, <1>3
<1> QED
  BY <1>1, <1>4 DEF MapSize

LEMMA MapIsPlanned ==
  ASSUME NEW plan \in Plans, NEW k \in {1, 3}
  PROVE  /\ Wrote(PlannedMap(plan, k), MapWritten(plan, k), PlannedTrees(plan)[k])
         /\ Len(PlannedMap(plan, k)) = plan.types[k] * Contexts(k)
<1>1. PICK n, M, b : n = PlannedTrees(plan)[k] /\ M = Contexts(k) /\ b = ContextBits[k]
  OBVIOUS
<1>2. M = 2 ^ b /\ M \in 1..256 /\ b \in 2..8 /\ b - 1 <= 2 ^ RleBits /\ n \in 1..256
  BY <1>1, PlanIs, ContextsAre DEF Contexts, Kinds
<1>3. CASE k = 1 /\ plan.contexts # 1
  <2>1. PICK t, c, map : t = plan.types[1] /\ c = plan.contexts /\ map = LiteralMap(plan)
    OBVIOUS
  <2>2. t \in 1..256 /\ c \in Nat \ {0} /\ n = t * c
    BY <1>1, <1>3, <2>1, PlanIs DEF Kinds
  <2>3. PICK m : m = plan.map
    OBVIOUS
  <2>4. m \in [1..M -> 0..(c - 1)]
    BY <1>1, <1>2, <1>3, <2>1, <2>3, HeaderAssumption
  <2>5. map = [i \in 1..(t * M) |-> ((i - 1) \div M) * c + m[((i - 1) % M) + 1]]
    BY <1>1, <1>3, <2>1, <2>3 DEF LiteralMap
  <2>6. PICK l : l = t * M
    OBVIOUS
  <2>7. l \in Nat \ {0} /\ l <= 256 * 256
    BY <1>2, <2>2, <2>6
  <2>8. ASSUME NEW i \in 1..l PROVE ((i - 1) \div M) * c + m[((i - 1) % M) + 1] \in 0..(n - 1)
    <3>1. PICK q, r : q = (i - 1) \div M /\ r = (i - 1) % M
      OBVIOUS
    <3>2. i - 1 \in 0..(t * M - 1) /\ i - 1 \in Nat
      BY <2>6, <2>7
    <3>3. q \in Nat /\ r \in 0..(M - 1) /\ i - 1 = M * q + r
      BY <1>2, <3>1, <3>2
    <3>4. q <= t - 1
      <4>1. SUFFICES ASSUME q >= t PROVE FALSE
        BY <2>2, <3>3
      <4>2. M * q >= M * t
        BY <1>2, <2>2, <3>3, <4>1
      <4> QED
        BY <1>2, <2>2, <3>2, <3>3, <4>2
    <3>5. m[r + 1] \in 0..(c - 1)
      BY <1>2, <2>4, <3>3
    <3>6. q * c <= (t - 1) * c /\ (t - 1) * c + c = t * c /\ q * c \in Nat
      BY <2>2, <3>3, <3>4
    <3>7. q * c + m[r + 1] \in 0..(n - 1)
      <4>1. PICK y, z, w : y = q * c /\ z = (t - 1) * c /\ w = m[r + 1]
        OBVIOUS
      <4>2. y <= z /\ z + c = n /\ y \in Nat /\ w \in 0..(c - 1) /\ z \in Int
        BY <2>2, <3>5, <3>6, <4>1
      <4>3. y + w \in 0..(n - 1)
        BY <1>2, <2>2, <4>2
      <4> QED
        BY <4>1, <4>3
    <3> QED
      BY <3>1, <3>7
  <2>9. map \in [1..l -> 0..(n - 1)]
    BY <2>5, <2>6, <2>8
  <2>10. map \in Seq(0..(n - 1)) /\ Len(map) = l
    <3>1. l \in Nat
      BY <2>7
    <3>2. PICK T : T = 0..(n - 1)
      OBVIOUS
    <3>3. map \in [1..l -> T]
      BY <2>9, <3>2
    <3>4. map \in Seq(T) /\ Len(map) = l
      BY <3>1, <3>3, SeqDef
    <3> QED
      BY <3>2, <3>4
  <2>11. map # <<>> /\ Len(map) < 2 ^ 31
    <3>1. 2 ^ 31 > 256 * 256
      BY SMT
    <3>2. l < 2 ^ 31
      BY <2>7, <3>1, SMT
    <3>3. Len(map) # 0
      BY <2>7, <2>10
    <3> QED
      BY <2>10, <3>2, <3>3
  <2>12. n \in Nat \ {0}
    BY <1>2
  <2>13. Wrote(map, Written(map), n)
    BY <2>10, <2>11, <2>12, WrittenWrote
  <2>14. PlannedMap(plan, k) = map /\ MapWritten(plan, k) = Written(map)
    BY <1>3, <2>1 DEF PlannedMap, MapWritten
  <2> QED
    BY <1>1, <1>3, <2>1, <2>6, <2>10, <2>13, <2>14
<1>4. CASE ~(k = 1 /\ plan.contexts # 1)
  <2>1. PlannedMap(plan, k) = TrivialMap(n, b) /\ MapWritten(plan, k) = WrittenTrivial(n, b)
    BY <1>1, <1>4 DEF PlannedMap, MapWritten
  <2>2. n = plan.types[k]
    <3>1. k = 3 => n = plan.types[k]
      BY <1>1, PlanIs
    <3>2. k = 1 => n = plan.types[k] * 1
      BY <1>1, <1>4, PlanIs
    <3>3. plan.types[k] \in Nat
      <4>1. k \in Kinds
        BY DEF Kinds
      <4>2. plan.types[k] \in 1..256
        BY <4>1, PlanIs
      <4> QED
        BY <4>2
    <3> QED
      BY <3>1, <3>2, <3>3
  <2>3. Wrote(TrivialMap(n, b), WrittenTrivial(n, b), n)
    BY <1>2, TrivialWrote
  <2>4. Blocks(TrivialMap(n, b), n, M)
    BY <1>2, TrivialEntries
  <2>5. Len(TrivialMap(n, b)) = n * M
    BY <2>4 DEF Blocks
  <2> QED
    BY <1>1, <2>1, <2>2, <2>3, <2>5
<1> QED
  BY <1>3, <1>4

MapField(plan, k) ==
  Field(Map(plan.types[k] * Contexts(k), PlannedTrees(plan)[k]),
        SymbolsOf(PlannedMap(plan, k), MapWritten(plan, k)))
MapPart(plan, k) == IF PlannedTrees(plan)[k] = 1 THEN <<>> ELSE <<MapField(plan, k)>>

LEMMA MapPartsAre ==
  ASSUME NEW plan \in Plans
  PROVE  /\ WrittenLiteralMap(plan) = VarLen(PlannedTrees(plan)[1] - 1) \o MapPart(plan, 1)
         /\ WrittenTrivialMap(PlannedTrees(plan)[3], 3) =
              VarLen(PlannedTrees(plan)[3] - 1) \o MapPart(plan, 3)
<1>1. ASSUME NEW k \in {1, 3}, NEW map, NEW written, NEW n,
             map = PlannedMap(plan, k), written = MapWritten(plan, k), n = PlannedTrees(plan)[k]
      PROVE  WrittenMap(map, n, written) = VarLen(n - 1) \o MapPart(plan, k)
  <2>1. Len(map) = plan.types[k] * Contexts(k)
    BY <1>1, MapIsPlanned
  <2>2. n # 1 => MapPart(plan, k) = <<Field(Map(Len(map), n), SymbolsOf(map, written))>>
    BY <1>1, <2>1 DEF MapPart, MapField
  <2>3. n = 1 => MapPart(plan, k) = <<>>
    BY <1>1 DEF MapPart
  <2> QED
    BY <2>2, <2>3 DEF WrittenMap
<1>2. WrittenTrivialMap(PlannedTrees(plan)[3], 3) =
        WrittenMap(PlannedMap(plan, 3), PlannedTrees(plan)[3], MapWritten(plan, 3))
  BY DEF WrittenTrivialMap, PlannedMap, MapWritten
<1>3. WrittenLiteralMap(plan) =
        WrittenMap(PlannedMap(plan, 1), PlannedTrees(plan)[1], MapWritten(plan, 1))
  BY DEF WrittenLiteralMap, WrittenTrivialMap, PlannedMap, MapWritten
<1> QED
  BY <1>1, <1>2, <1>3

SplitOf(n) ==
  IF n = 1 THEN <<>> ELSE <<Field(Code(n + 2), 0), Field(Code(26), 0), Field(Length, 0)>>

LEMMA SplitIs ==
  ASSUME NEW n \in Nat, NEW rest, IsList(rest)
  PROVE  /\ IsList(SplitOf(n)) /\ (n = 1 => SplitOf(n) \o rest = rest)
         /\ n # 1 => SplitOf(n) \o rest =
              <<Field(Code(n + 2), 0)>> \o (<<Field(Code(26), 0)>> \o (<<Field(Length, 0)>> \o rest))
<1>1. PICK f, g, h : f = Field(Code(n + 2), 0) /\ g = Field(Code(26), 0) /\ h = Field(Length, 0)
  OBVIOUS
<1>2. CASE n = 1
  <2>1. SplitOf(n) = <<>>
    BY <1>2 DEF SplitOf
  <2> QED
    BY <1>2, <2>1, ListOf, ListConcat
<1>3. CASE n # 1
  <2>1. SplitOf(n) = <<f, g, h>>
    BY <1>1, <1>3 DEF SplitOf
  <2>2. PICK a, b, c : a = <<f>> /\ b = <<g>> /\ c = <<h>>
    OBVIOUS
  <2>3. SplitOf(n) = a \o (b \o c) /\ IsList(SplitOf(n)) /\ IsList(a) /\ IsList(b) /\ IsList(c)
    BY <2>1, <2>2, ListsOfFew, ListOf
  <2>4. IsList(b \o c)
    BY <2>3, ListConcat
  <2>5. (a \o (b \o c)) \o rest = a \o ((b \o c) \o rest)
    <3>1. PICK d : d = b \o c
      OBVIOUS
    <3>2. IsList(a) /\ IsList(d)
      BY <2>3, <2>4, <3>1
    <3>3. (a \o d) \o rest = a \o (d \o rest)
      BY <3>2, ListAssoc
    <3> QED
      BY <3>1, <3>3
  <2>6. (b \o c) \o rest = b \o (c \o rest)
    <3>1. IsList(b) /\ IsList(c)
      BY <2>3
    <3> QED
      BY <3>1, ListAssoc
  <2> QED
    BY <1>1, <1>3, <2>2, <2>3, <2>5, <2>6
<1> QED
  BY <1>2, <1>3

\* What is ahead after each part; mode is that of every literal type.
PlanAlphabet(plan, k) ==
  IF k = 1 THEN 256 ELSE IF k = 2 THEN 704 ELSE AlphabetSize(plan.postfix, plan.direct)
CodesLeft(plan, k, n) == Times(n, Field(Code(PlanAlphabet(plan, k)), 0))
AllCodes(plan, k) == CodesLeft(plan, k, PlannedTrees(plan)[k])
AfterCodes(plan, k) ==
  IF k = 3 THEN <<>>
  ELSE IF k = 2 THEN AllCodes(plan, 3) \o <<>>
  ELSE AllCodes(plan, 2) \o (AllCodes(plan, 3) \o <<>>)
CodesAhead(plan) == AllCodes(plan, 1) \o AfterCodes(plan, 1)
MapAhead(plan, k) ==
  MapPart(plan, k) \o
    (IF k = 3 THEN CodesAhead(plan)
     ELSE VarLen(PlannedTrees(plan)[3] - 1) \o (MapPart(plan, 3) \o CodesAhead(plan)))
AfterMap(plan, k) ==
  IF k = 3 THEN CodesAhead(plan) ELSE VarLen(PlannedTrees(plan)[3] - 1) \o MapAhead(plan, 3)
MapsAhead(plan) == VarLen(PlannedTrees(plan)[1] - 1) \o MapAhead(plan, 1)
ModesLeft(plan, mode, n) == Times(n, Field(Bits(2), mode)) \o MapsAhead(plan)
DirectAhead(plan, mode) ==
  <<Field(Bits(4), plan.direct \div 2 ^ plan.postfix)>> \o ModesLeft(plan, mode, plan.types[1])
ParametersAhead(plan, mode) == <<Field(Bits(2), plan.postfix)>> \o DirectAhead(plan, mode)
PartitionAhead(plan, mode) ==
  VarLen(plan.types[3] - 1) \o (SplitOf(plan.types[3]) \o ParametersAhead(plan, mode))
AfterPartition(plan, mode, k) ==
  IF k = 3 THEN ParametersAhead(plan, mode)
  ELSE IF k = 2 THEN PartitionAhead(plan, mode)
  ELSE VarLen(plan.types[2] - 1) \o (SplitOf(plan.types[2]) \o PartitionAhead(plan, mode))

LEMMA PartsAreLists ==
  ASSUME NEW plan \in Plans, NEW mode
  PROVE  /\ \A k \in Kinds : /\ IsList(VarLen(plan.types[k] - 1)) /\ IsList(SplitOf(plan.types[k]))
                             /\ IsList(VarLen(PlannedTrees(plan)[k] - 1)) /\ IsList(AllCodes(plan, k))
         /\ \A k \in Kinds, n \in Nat : IsList(CodesLeft(plan, k, n))
         /\ \A k \in {1, 3} : IsList(MapPart(plan, k))
         /\ \A n \in Nat : IsList(Times(n, Field(Bits(2), mode)))
         /\ \A f : IsList(<<f>>)
<1>1. ASSUME NEW k \in Kinds
      PROVE  /\ IsList(VarLen(plan.types[k] - 1)) /\ IsList(SplitOf(plan.types[k]))
             /\ IsList(VarLen(PlannedTrees(plan)[k] - 1)) /\ IsList(AllCodes(plan, k))
             /\ \A n \in Nat : IsList(CodesLeft(plan, k, n))
  <2>1. PICK t, p : t = plan.types[k] /\ p = PlannedTrees(plan)[k]
    OBVIOUS
  <2>2. t \in 1..256 /\ p \in 1..256
    BY <2>1, PlanIs
  <2>3. t - 1 \in 0..255 /\ p - 1 \in 0..255 /\ t \in Nat /\ p \in Nat
    BY <2>2
  <2>4. IsList(VarLen(t - 1)) /\ IsList(VarLen(p - 1))
    BY <2>3, VarLenIs
  <2>5. IsList(<<>>)
    BY ListOf
  <2>6. IsList(SplitOf(t))
    BY <2>3, <2>5, SplitIs
  <2>7. \A n \in Nat : IsList(CodesLeft(plan, k, n))
    BY ListOf DEF CodesLeft
  <2>8. IsList(AllCodes(plan, k))
    BY <2>1, <2>3, <2>7 DEF AllCodes
  <2> QED
    BY <2>1, <2>4, <2>6, <2>7, <2>8
<1>2. \A k \in {1, 3} : IsList(MapPart(plan, k))
  BY ListOf DEF MapPart
<1> QED
  BY <1>1, <1>2, ListOf

LEMMA RestsAreLists ==
  ASSUME NEW plan \in Plans, NEW mode
  PROVE  /\ \A k \in Kinds : IsList(AfterCodes(plan, k)) /\ IsList(AfterPartition(plan, mode, k))
         /\ IsList(CodesAhead(plan)) /\ IsList(MapsAhead(plan))
         /\ \A k \in {1, 3} : IsList(MapAhead(plan, k)) /\ IsList(AfterMap(plan, k))
         /\ \A n \in Nat : IsList(ModesLeft(plan, mode, n))
         /\ IsList(DirectAhead(plan, mode)) /\ IsList(ParametersAhead(plan, mode))
         /\ IsList(PartitionAhead(plan, mode))
<1>1. 1 \in Kinds /\ 2 \in Kinds /\ 3 \in Kinds /\ Kinds = {1, 2, 3}
  BY DEF Kinds
<1>2. IsList(<<>>)
  BY ListOf
<1>3. IsList(AllCodes(plan, 3) \o <<>>) /\ IsList(AllCodes(plan, 2) \o (AllCodes(plan, 3) \o <<>>))
  BY <1>1, <1>2, PartsAreLists, ListConcat
<1>4. \A k \in Kinds : IsList(AfterCodes(plan, k))
  BY <1>1, <1>2, <1>3 DEF AfterCodes
<1>5. IsList(CodesAhead(plan))
  BY <1>1, <1>4, PartsAreLists, ListConcat DEF CodesAhead
<1>6. IsList(MapAhead(plan, 3))
  <2>1. MapAhead(plan, 3) = MapPart(plan, 3) \o CodesAhead(plan)
    BY DEF MapAhead
  <2>2. IsList(MapPart(plan, 3))
    BY PartsAreLists
  <2>3. IsList(MapPart(plan, 3) \o CodesAhead(plan))
    BY <1>5, <2>2, ListConcat
  <2> QED
    BY <2>1, <2>3
<1>7. AfterMap(plan, 3) = CodesAhead(plan) /\ AfterMap(plan, 1) = VarLen(PlannedTrees(plan)[3] - 1) \o MapAhead(plan, 3)
  BY DEF AfterMap
<1>8. IsList(AfterMap(plan, 1)) /\ IsList(AfterMap(plan, 3))
  <2>1. IsList(VarLen(PlannedTrees(plan)[3] - 1))
    BY <1>1, PartsAreLists
  <2>2. IsList(VarLen(PlannedTrees(plan)[3] - 1) \o MapAhead(plan, 3))
    BY <1>6, <2>1, ListConcat
  <2> QED
    BY <1>5, <1>7, <2>2
<1>9. IsList(MapAhead(plan, 1))
  <2>1. MapAhead(plan, 1) = MapPart(plan, 1) \o AfterMap(plan, 1)
    <3>1. MapAhead(plan, 3) = MapPart(plan, 3) \o CodesAhead(plan)
      BY DEF MapAhead
    <3> QED
      BY <1>7, <3>1 DEF MapAhead
  <2>2. IsList(MapPart(plan, 1))
    BY PartsAreLists
  <2>3. IsList(MapPart(plan, 1) \o AfterMap(plan, 1))
    BY <1>8, <2>2, ListConcat
  <2> QED
    BY <2>1, <2>3
<1>10. IsList(MapsAhead(plan))
  BY <1>1, <1>9, PartsAreLists, ListConcat DEF MapsAhead
<1>11. \A n \in Nat : IsList(ModesLeft(plan, mode, n))
  BY <1>10, PartsAreLists, ListConcat DEF ModesLeft
<1>12. plan.types[1] \in Nat
  <2>1. plan.types[1] \in 1..256
    BY <1>1, PlanIs
  <2> QED
    BY <2>1
<1>13. IsList(DirectAhead(plan, mode))
  BY <1>11, <1>12, ListOf, ListConcat DEF DirectAhead
<1>14. IsList(ParametersAhead(plan, mode))
  BY <1>13, ListOf, ListConcat DEF ParametersAhead
<1>15. IsList(PartitionAhead(plan, mode))
  BY <1>1, <1>14, PartsAreLists, ListConcat DEF PartitionAhead
<1>16. IsList(VarLen(plan.types[2] - 1) \o (SplitOf(plan.types[2]) \o PartitionAhead(plan, mode)))
  BY <1>1, <1>15, PartsAreLists, ListConcat
<1>17. \A k \in Kinds : IsList(AfterPartition(plan, mode, k))
  BY <1>1, <1>14, <1>15, <1>16 DEF AfterPartition
<1> QED
  BY <1>4, <1>5, <1>6, <1>8, <1>9, <1>10, <1>11, <1>13, <1>14, <1>15, <1>17

AreLists(a, b, c, d, e, f, g, h) ==
  /\ IsList(a) /\ IsList(b) /\ IsList(c) /\ IsList(d)
  /\ IsList(e) /\ IsList(f) /\ IsList(g) /\ IsList(h)

FromLeft(a, b, c, d, e, f, g, h) == ((((((a \o b) \o c) \o d) \o e) \o f) \o g) \o h
FromRight(a, b, c, d, e, f, g, h) == a \o (b \o (c \o (d \o (e \o (f \o (g \o h))))))

LEMMA AssocOfEight ==
  ASSUME NEW a, NEW b, NEW c, NEW d, NEW e, NEW f, NEW g, NEW h, AreLists(a, b, c, d, e, f, g, h)
  PROVE  FromLeft(a, b, c, d, e, f, g, h) = FromRight(a, b, c, d, e, f, g, h)
<1>1. PICK x2, x3, x4, x5, x6 : /\ x2 = a \o b /\ x3 = x2 \o c /\ x4 = x3 \o d
                                /\ x5 = x4 \o e /\ x6 = x5 \o f
  OBVIOUS
<1>2. PICK y2, y3, y4, y5, y6 : /\ y2 = g \o h /\ y3 = f \o y2 /\ y4 = e \o y3
                                /\ y5 = d \o y4 /\ y6 = c \o y5
  OBVIOUS
<1>3. IsList(x2) /\ IsList(x3) /\ IsList(x4) /\ IsList(x5) /\ IsList(x6)
  BY <1>1, ListConcat DEF AreLists
<1>4. IsList(y2) /\ IsList(y3) /\ IsList(y4) /\ IsList(y5) /\ IsList(y6)
  BY <1>2, ListConcat DEF AreLists
<1>5. (x6 \o g) \o h = x6 \o (g \o h)
  <2>1. IsList(x6) /\ IsList(g) /\ IsList(h)
    BY <1>3, <1>4 DEF AreLists
  <2> QED
    BY <2>1, ListAssoc
<1>6. (x5 \o f) \o y2 = x5 \o (f \o y2)
  <2>1. IsList(x5) /\ IsList(f) /\ IsList(y2)
    BY <1>3, <1>4 DEF AreLists
  <2> QED
    BY <2>1, ListAssoc
<1>7. (x4 \o e) \o y3 = x4 \o (e \o y3)
  <2>1. IsList(x4) /\ IsList(e) /\ IsList(y3)
    BY <1>3, <1>4 DEF AreLists
  <2> QED
    BY <2>1, ListAssoc
<1>8. (x3 \o d) \o y4 = x3 \o (d \o y4)
  <2>1. IsList(x3) /\ IsList(d) /\ IsList(y4)
    BY <1>3, <1>4 DEF AreLists
  <2> QED
    BY <2>1, ListAssoc
<1>9. (x2 \o c) \o y5 = x2 \o (c \o y5)
  <2>1. IsList(x2) /\ IsList(c) /\ IsList(y5)
    BY <1>3, <1>4 DEF AreLists
  <2> QED
    BY <2>1, ListAssoc
<1>10. (a \o b) \o y6 = a \o (b \o y6)
  <2>1. IsList(a) /\ IsList(b) /\ IsList(y6)
    BY <1>3, <1>4 DEF AreLists
  <2> QED
    BY <2>1, ListAssoc
<1>11. FromLeft(a, b, c, d, e, f, g, h) = (x6 \o g) \o h
  BY <1>1 DEF FromLeft
<1>12. FromRight(a, b, c, d, e, f, g, h) = a \o (b \o y6)
  BY <1>2 DEF FromRight
<1>13. (x6 \o g) \o h = x5 \o y3 /\ x5 \o y3 = x4 \o y4
  BY <1>1, <1>2, <1>5, <1>6, <1>7
<1>14. x4 \o y4 = x3 \o y5 /\ x3 \o y5 = x2 \o y6
  BY <1>1, <1>2, <1>8, <1>9
<1>15. x2 \o y6 = a \o (b \o y6)
  BY <1>1, <1>10
<1> QED
  BY <1>11, <1>12, <1>13, <1>14, <1>15

\* What is written of a plan, part after part, and the fields that this puts ahead.
Assembled(plan, mode) ==
  ((((((VarLen(plan.types[1] - 1) \o SplitOf(plan.types[1]))
       \o (VarLen(plan.types[2] - 1) \o SplitOf(plan.types[2])))
      \o (VarLen(plan.types[3] - 1) \o SplitOf(plan.types[3])))
     \o <<Field(Bits(2), plan.postfix), Field(Bits(4), plan.direct \div 2 ^ plan.postfix)>>)
    \o Times(plan.types[1], Field(Bits(2), mode)))
   \o (VarLen(PlannedTrees(plan)[1] - 1) \o MapPart(plan, 1))
   \o (VarLen(PlannedTrees(plan)[3] - 1) \o MapPart(plan, 3)))
  \o WrittenTrees(plan)

LEMMA WrittenTreesAre ==
  ASSUME NEW plan \in Plans
  PROVE  WrittenTrees(plan) = CodesAhead(plan)
<1>1. PICK c1, c2, c3 : c1 = AllCodes(plan, 1) /\ c2 = AllCodes(plan, 2) /\ c3 = AllCodes(plan, 3)
  OBVIOUS
<1>2. IsList(c1) /\ IsList(c2) /\ IsList(c3)
  BY <1>1, PartsAreLists DEF Kinds
<1>3. CodesAhead(plan) = c1 \o (c2 \o (c3 \o <<>>))
  BY <1>1 DEF CodesAhead, AfterCodes
<1>4. c3 \o <<>> = c3
  BY <1>2, ListConcat
<1>5. (c1 \o c2) \o c3 = c1 \o (c2 \o c3)
  <2>1. Associate(c1, c2, c3)
    BY <1>2, ListsAssociate, Zenon
  <2> QED
    BY <2>1 DEF Associate
<1>6. PICK x : x = AlphabetSize(plan.postfix, plan.direct)
  OBVIOUS
<1>7. PICK n, m : n = 256 /\ m = 704
  OBVIOUS
<1>8. <<n, m, x>>[1] = n /\ <<n, m, x>>[2] = m /\ <<n, m, x>>[3] = x
  OBVIOUS
<1>9. PlanAlphabet(plan, 1) = n /\ PlanAlphabet(plan, 2) = m /\ PlanAlphabet(plan, 3) = x
  BY <1>6, <1>7, SMT DEF PlanAlphabet
<1>10. WrittenTrees(plan) = (c1 \o c2) \o c3
  <2>1. /\ c1 = Times(PlannedTrees(plan)[1], Field(Code(n), 0))
        /\ c2 = Times(PlannedTrees(plan)[2], Field(Code(m), 0))
        /\ c3 = Times(PlannedTrees(plan)[3], Field(Code(x), 0))
    BY <1>1, <1>9 DEF AllCodes, CodesLeft
  <2> DEFINE alphabets == <<n, m, x>>
             codes(k) == Times(PlannedTrees(plan)[k], Field(Code(alphabets[k]), 0))
  <2>2. codes(1) = c1 /\ codes(2) = c2 /\ codes(3) = c3
    BY <1>8, <2>1
  <2>3. WrittenTrees(plan) = codes(1) \o codes(2) \o codes(3)
    BY <1>6, <1>7 DEF WrittenTrees
  <2> QED
    BY <2>2, <2>3
<1> QED
  BY <1>3, <1>4, <1>5, <1>10

LEMMA AssocOf ==
  ASSUME NEW x, NEW y, NEW z, NEW u, NEW r, NEW w,
         IsList(x), IsList(y), IsList(z), Joined(u, x, y), Joined(r, y, z), Joined(w, x, r)
  PROVE  Joined(w, u, z)
BY ListAssoc DEF Joined

LEMMA AssembledIs ==
  ASSUME NEW plan \in Plans, NEW mode
  PROVE  Assembled(plan, mode) =
           VarLen(plan.types[1] - 1) \o (SplitOf(plan.types[1]) \o AfterPartition(plan, mode, 1))
<1>1. 1 \in Kinds /\ 2 \in Kinds /\ 3 \in Kinds
  BY DEF Kinds
<1>2. PICK v1, v2, v3, s1, s2, s3 :
        /\ v1 = VarLen(plan.types[1] - 1) /\ s1 = SplitOf(plan.types[1])
        /\ v2 = VarLen(plan.types[2] - 1) /\ s2 = SplitOf(plan.types[2])
        /\ v3 = VarLen(plan.types[3] - 1) /\ s3 = SplitOf(plan.types[3])
  OBVIOUS
<1>3. PICK w1, w3, m1, m3 :
        /\ w1 = VarLen(PlannedTrees(plan)[1] - 1) /\ m1 = MapPart(plan, 1)
        /\ w3 = VarLen(PlannedTrees(plan)[3] - 1) /\ m3 = MapPart(plan, 3)
  OBVIOUS
<1>4. PICK p, q, e, h : /\ p = Field(Bits(2), plan.postfix)
                        /\ q = Field(Bits(4), plan.direct \div 2 ^ plan.postfix)
                        /\ e = Times(plan.types[1], Field(Bits(2), mode))
                        /\ h = CodesAhead(plan)
  OBVIOUS
<1>5. IsList(v1) /\ IsList(v2) /\ IsList(v3) /\ IsList(s1) /\ IsList(s2) /\ IsList(s3)
  BY <1>1, <1>2, PartsAreLists
<1>6. IsList(w1) /\ IsList(w3) /\ IsList(m1) /\ IsList(m3)
  BY <1>1, <1>3, PartsAreLists
<1>7. IsList(e) /\ IsList(h) /\ IsList(<<p>>) /\ IsList(<<q>>)
  <2>1. plan.types[1] \in 1..256
    BY <1>1, PlanIs
  <2>2. plan.types[1] \in Nat
    BY <2>1
  <2> QED
    BY <1>4, <2>2, ListOf, RestsAreLists
<1>8. PICK a, b, c, d, f, g : /\ a = v1 \o s1 /\ b = v2 \o s2 /\ c = v3 \o s3
                              /\ d = <<p>> \o <<q>> /\ f = w1 \o m1 /\ g = w3 \o m3
  OBVIOUS
<1>9. AreLists(a, b, c, d, e, f, g, h)
  BY <1>5, <1>6, <1>7, <1>8, ListConcat DEF AreLists
<1>10. Assembled(plan, mode) = ((((((a \o b) \o c) \o d) \o e) \o f) \o g) \o h
  <2>1. d = <<p, q>>
    BY <1>8, ListsOfFew
  <2>2. WrittenTrees(plan) = h
    BY <1>4, WrittenTreesAre
  <2> QED
    BY <1>2, <1>3, <1>4, <1>8, <2>1, <2>2 DEF Assembled
<1>11. Assembled(plan, mode) = a \o (b \o (c \o (d \o (e \o (f \o (g \o h))))))
  <2>1. FromLeft(a, b, c, d, e, f, g, h) = FromRight(a, b, c, d, e, f, g, h)
    BY <1>9, AssocOfEight, Zenon
  <2> QED
    BY <1>10, <2>1 DEF FromLeft, FromRight
<1>12. PICK y1, y2, y3, y4, y5, y6, y7 :
         /\ y1 = m3 \o h /\ y2 = w3 \o y1 /\ y3 = m1 \o y2 /\ y4 = w1 \o y3 /\ y5 = e \o y4
         /\ y6 = <<q>> \o y5 /\ y7 = <<p>> \o y6
  OBVIOUS
<1>13. PICK z1, z2, z3, z4, z5 :
         /\ z1 = s3 \o y7 /\ z2 = v3 \o z1 /\ z3 = s2 \o z2 /\ z4 = v2 \o z3 /\ z5 = s1 \o z4
  OBVIOUS
<1>14. IsList(y1) /\ IsList(y2) /\ IsList(y3) /\ IsList(y4) /\ IsList(y5) /\ IsList(y6) /\ IsList(y7)
  BY <1>6, <1>7, <1>12, ListConcat
<1>15. IsList(z1) /\ IsList(z2) /\ IsList(z3) /\ IsList(z4) /\ IsList(z5)
  BY <1>5, <1>13, <1>14, ListConcat
<1>16. PICK z6 : z6 = v1 \o z5
  OBVIOUS
<1>17. y2 = g \o h
  <2>1. IsList(w3) /\ IsList(m3) /\ IsList(h)
    BY <1>5, <1>6, <1>7, <1>14, <1>15
  <2>2. Joined(g, w3, m3) /\ Joined(y1, m3, h) /\ Joined(y2, w3, y1)
    BY <1>8, <1>12, <1>13, <1>16 DEF Joined
  <2>3. Joined(y2, g, h)
    BY <2>1, <2>2, AssocOf, Zenon
  <2> QED
    BY <2>3 DEF Joined
<1>18. y4 = f \o y2
  <2>1. IsList(w1) /\ IsList(m1) /\ IsList(y2)
    BY <1>5, <1>6, <1>7, <1>14, <1>15
  <2>2. Joined(f, w1, m1) /\ Joined(y3, m1, y2) /\ Joined(y4, w1, y3)
    BY <1>8, <1>12, <1>13, <1>16 DEF Joined
  <2>3. Joined(y4, f, y2)
    BY <2>1, <2>2, AssocOf, Zenon
  <2> QED
    BY <2>3 DEF Joined
<1>19. y7 = d \o y5
  <2>1. IsList(<<p>>) /\ IsList(<<q>>) /\ IsList(y5)
    BY <1>5, <1>6, <1>7, <1>14, <1>15
  <2>2. Joined(d, <<p>>, <<q>>) /\ Joined(y6, <<q>>, y5) /\ Joined(y7, <<p>>, y6)
    BY <1>8, <1>12, <1>13, <1>16 DEF Joined
  <2>3. Joined(y7, d, y5)
    BY <2>1, <2>2, AssocOf, Zenon
  <2> QED
    BY <2>3 DEF Joined
<1>20. z2 = c \o y7
  <2>1. IsList(v3) /\ IsList(s3) /\ IsList(y7)
    BY <1>5, <1>6, <1>7, <1>14, <1>15
  <2>2. Joined(c, v3, s3) /\ Joined(z1, s3, y7) /\ Joined(z2, v3, z1)
    BY <1>8, <1>12, <1>13, <1>16 DEF Joined
  <2>3. Joined(z2, c, y7)
    BY <2>1, <2>2, AssocOf, Zenon
  <2> QED
    BY <2>3 DEF Joined
<1>21. z4 = b \o z2
  <2>1. IsList(v2) /\ IsList(s2) /\ IsList(z2)
    BY <1>5, <1>6, <1>7, <1>14, <1>15
  <2>2. Joined(b, v2, s2) /\ Joined(z3, s2, z2) /\ Joined(z4, v2, z3)
    BY <1>8, <1>12, <1>13, <1>16 DEF Joined
  <2>3. Joined(z4, b, z2)
    BY <2>1, <2>2, AssocOf, Zenon
  <2> QED
    BY <2>3 DEF Joined
<1>22. z6 = a \o z4
  <2>1. IsList(v1) /\ IsList(s1) /\ IsList(z4)
    BY <1>5, <1>6, <1>7, <1>14, <1>15
  <2>2. Joined(a, v1, s1) /\ Joined(z5, s1, z4) /\ Joined(z6, v1, z5)
    BY <1>8, <1>12, <1>13, <1>16 DEF Joined
  <2>3. Joined(z6, a, z4)
    BY <2>1, <2>2, AssocOf, Zenon
  <2> QED
    BY <2>3 DEF Joined
<1>23. Assembled(plan, mode) = v1 \o z5
  BY <1>11, <1>12, <1>16, <1>17, <1>18, <1>19, <1>20, <1>21, <1>22, Zenon
<1>24. AfterMap(plan, 1) = y2 /\ MapAhead(plan, 3) = y1
  <2>1. MapAhead(plan, 3) = MapPart(plan, 3) \o CodesAhead(plan)
    BY DEF MapAhead
  <2>2. AfterMap(plan, 1) = VarLen(PlannedTrees(plan)[3] - 1) \o MapAhead(plan, 3)
    BY DEF AfterMap
  <2> QED
    BY <1>3, <1>4, <1>12, <2>1, <2>2, Zenon
<1>25. MapsAhead(plan) = y4
  <2>1. MapAhead(plan, 1) = m1 \o (w3 \o (m3 \o h))
    BY <1>3, <1>4 DEF MapAhead
  <2> QED
    BY <1>3, <1>12, <2>1, Zenon DEF MapsAhead
<1>26. ModesLeft(plan, mode, plan.types[1]) = y5
  BY <1>4, <1>12, <1>25, Zenon DEF ModesLeft
<1>27. ParametersAhead(plan, mode) = y7
  BY <1>4, <1>12, <1>26, Zenon DEF ParametersAhead, DirectAhead
<1>28. PartitionAhead(plan, mode) = z2
  BY <1>2, <1>13, <1>27, Zenon DEF PartitionAhead
<1>29. AfterPartition(plan, mode, 1) = z4
  <2>1. AfterPartition(plan, mode, 1) =
          VarLen(plan.types[2] - 1) \o (SplitOf(plan.types[2]) \o PartitionAhead(plan, mode))
    BY DEF AfterPartition
  <2> QED
    BY <1>2, <1>13, <1>28, <2>1, Zenon
<1> QED
  BY <1>2, <1>13, <1>23, <1>29, Zenon

\* The fields with which a metablock's header begins.
LEMMA WrittenIs ==
  ASSUME NEW plan \in Plans
  PROVE  /\ WrittenSplit(plan) = Assembled(plan, 2)
         /\ IsSingle(plan) => WrittenSingle(plan) = Assembled(plan, 0)
<1>1. PICK p, q, t : /\ p = Field(Bits(2), plan.postfix)
                     /\ q = Field(Bits(4), plan.direct \div 2 ^ plan.postfix)
                     /\ t = WrittenTrees(plan)
  OBVIOUS
<1>2. PICK f, g : /\ f = VarLen(PlannedTrees(plan)[1] - 1) \o MapPart(plan, 1)
                  /\ g = VarLen(PlannedTrees(plan)[3] - 1) \o MapPart(plan, 3)
  OBVIOUS
<1>3. \A n : WrittenPartition(n) = VarLen(n - 1) \o SplitOf(n)
  BY DEF WrittenPartition, SplitOf
<1>4. WrittenSplit(plan) = Assembled(plan, 2)
  <2>1. WrittenLiteralMap(plan) = f /\ WrittenTrivialMap(PlannedTrees(plan)[3], 3) = g
    BY <1>2, MapPartsAre
  <2>2. PICK a, b, c : /\ a = WrittenPartition(plan.types[1]) /\ b = WrittenPartition(plan.types[2])
                       /\ c = WrittenPartition(plan.types[3])
    OBVIOUS
  <2>3. /\ a = VarLen(plan.types[1] - 1) \o SplitOf(plan.types[1])
        /\ b = VarLen(plan.types[2] - 1) \o SplitOf(plan.types[2])
        /\ c = VarLen(plan.types[3] - 1) \o SplitOf(plan.types[3])
    BY <1>3, <2>2
  <2>4. PICK m : m = Times(plan.types[1], Field(Bits(2), 2))
    OBVIOUS
  <2>5. WrittenSplit(plan) = ((((((a \o b) \o c) \o <<p, q>>) \o m) \o f) \o g) \o t
    BY <1>1, <2>1, <2>2, <2>4 DEF WrittenSplit
  <2>6. Assembled(plan, 2) = ((((((a \o b) \o c) \o <<p, q>>) \o m) \o f) \o g) \o t
    BY <1>1, <1>2, <2>3, <2>4 DEF Assembled
  <2> QED
    BY <2>5, <2>6
<1>5. ASSUME IsSingle(plan) PROVE WrittenSingle(plan) = Assembled(plan, 0)
  <2>1. plan.types = <<1, 1, 1>> /\ plan.contexts = 1
    BY <1>5 DEF IsSingle
  <2>2. plan.types[1] = 1 /\ plan.types[2] = 1 /\ plan.types[3] = 1
    BY <2>1
  <2>3. PlannedTrees(plan)[1] = 1 /\ PlannedTrees(plan)[3] = 1
    <3>1. PlannedTrees(plan) = <<plan.types[1] * plan.contexts, plan.types[2], plan.types[3]>>
      BY PlanIs
    <3>2. PlannedTrees(plan) = <<1 * 1, 1, 1>>
      BY <2>1, <2>2, <3>1
    <3> QED
      BY <3>2
  <2>4. PICK v : v = VarLen(0)
    OBVIOUS
  <2>5. v \o <<>> = v
    <3>1. 0 \in 0..255
      OBVIOUS
    <3>2. IsList(v)
      BY <2>4, <3>1, VarLenIs
    <3> QED
      BY <3>2, ListConcat
  <2>6. 1 - 1 = 0
    OBVIOUS
  <2>7. VarLen(1 - 1) \o SplitOf(1) = v
    <3>1. SplitOf(1) = <<>>
      BY DEF SplitOf
    <3> QED
      BY <2>4, <2>5, <2>6, <3>1
  <2>8. f = v /\ g = v
    <3>1. MapPart(plan, 1) = <<>> /\ MapPart(plan, 3) = <<>>
      BY <2>3 DEF MapPart
    <3> QED
      BY <1>2, <2>3, <2>4, <2>5, <2>6, <3>1
  <2>9. Times(1, Field(Bits(2), 0)) = <<Field(Bits(2), 0)>>
    <3>1. PICK x : x = Field(Bits(2), 0)
      OBVIOUS
    <3>2. Times(1, x) = <<x>>
      BY DEF Times
    <3> QED
      BY <3>1, <3>2
  <2>10. PICK m : m = <<Field(Bits(2), 0)>>
    OBVIOUS
  <2>11. WrittenSingle(plan) = ((((((v \o v) \o v) \o <<p, q>>) \o m) \o v) \o v) \o t
    BY <1>1, <2>4, <2>10 DEF WrittenSingle
  <2>12. Assembled(plan, 0) = ((((((v \o v) \o v) \o <<p, q>>) \o m) \o f) \o g) \o t
    BY <1>1, <1>2, <2>2, <2>7, <2>9, <2>10 DEF Assembled
  <2> QED
    BY <2>8, <2>11, <2>12
<1> QED
  BY <1>4, <1>5

-----------------------------------------------------------------------------
(* The header that is read. *)

Early == {"TypeCount", "TypeCode", "LengthCode", "FirstLength", "Postfix", "Direct"}
Late == {"TreeCount", "Map", "Trees", "Data"}

CounterTypeOK ==
  \/ counter = FirstBit \/ counter = [state |-> "Width", width |-> 3]
  \/ \E w \in 1..7 : counter = [state |-> "Value", width |-> w]

HeaderTypeOK ==
  /\ state \in Early \cup Late \cup {"Mode", "error"} /\ kind \in Kinds /\ CounterTypeOK
  /\ types \in [Kinds -> 1..256] /\ numTrees \in [Kinds -> 1..256]
  /\ postfix \in 0..3 /\ direct \in Nat /\ modes \in Nat
  /\ maps \in [{1, 3} -> [size : Nat, trees : Nat]] /\ trees \in [Kinds -> Nat]
  /\ state \in {"TreeCount", "Map"} => kind \in {1, 3}
  /\ state \notin {"TypeCount", "TreeCount"} => counter = FirstBit

\* What is known of the literal modes, the maps and the trees that have been read.
MapFits(k) == maps[k].size = Contexts(k) * types[k] /\ maps[k].trees <= numTrees[k]
LastMap == state \in {"TreeCount", "Map"} /\ kind = 3
Progress ==
  /\ state \in Early => modes = 0
  /\ state = "Mode" => modes < types[1]
  /\ state \in Late => modes = types[1]
  /\ LastMap \/ state \in {"Trees", "Data"} => MapFits(1)
  /\ state \in {"Trees", "Data"} => MapFits(3)
  /\ state \notin {"Trees", "Data", "error"} => \A j \in Kinds : trees[j] = 0
  /\ state = "Trees" => \A j \in Kinds : /\ j < kind => trees[j] = TreesDue(j)
                                         /\ j = kind => trees[j] < TreesDue(j)
                                         /\ j > kind => trees[j] = 0
  /\ state = "Data" => \A j \in Kinds : trees[j] = TreesDue(j)

\* There is a decoder while a map is read, of the map that is due.
DecoderInv ==
  /\ state # "Map" => decoder = NoDecoder /\ symbols = NoSymbols
  /\ state = "Map" => /\ MapInv /\ IsSource /\ decoder.size = MapSize(kind)
                      /\ decoder.trees = numTrees[kind] /\ (OfUnknown <=> source = Unknown)

\* What has been read of a plan is the plan's.
Known(plan) ==
  /\ \A j \in Kinds : /\ state = "TypeCount" => j < kind
                      /\ state \in {"TypeCode", "LengthCode", "FirstLength"} => j <= kind
                      => types[j] = plan.types[j]
  /\ state \in {"Direct", "Mode"} \cup Late => postfix = plan.postfix
  /\ state \in {"Mode"} \cup Late => direct = plan.direct
  /\ state = "Map" => numTrees[kind] = PlannedTrees(plan)[kind]
  /\ LastMap \/ state \in {"Trees", "Data"} => numTrees[1] = PlannedTrees(plan)[1]
  /\ state \in {"Trees", "Data"} => numTrees[3] = PlannedTrees(plan)[3]

\* And what is ahead is what is left of it.
LengthAhead(plan, mode, k) == <<Field(Length, 0)>> \o AfterPartition(plan, mode, k)
LengthCodeAhead(plan, mode, k) == <<Field(Code(26), 0)>> \o LengthAhead(plan, mode, k)
TypeCodeAhead(plan, mode, k) ==
  <<Field(Code(plan.types[k] + 2), 0)>> \o LengthCodeAhead(plan, mode, k)
AheadIs(plan, mode) ==
  /\ state = "TypeCount" =>
       /\ CounterFits(counter, plan.types[kind] - 1)
       /\ Ahead(VarRest(counter, plan.types[kind] - 1)
                  \o (SplitOf(plan.types[kind]) \o AfterPartition(plan, mode, kind)))
  /\ state = "TypeCode" => Ahead(TypeCodeAhead(plan, mode, kind))
  /\ state = "LengthCode" => Ahead(LengthCodeAhead(plan, mode, kind))
  /\ state = "FirstLength" => Ahead(LengthAhead(plan, mode, kind))
  /\ state = "Postfix" => Ahead(ParametersAhead(plan, mode))
  /\ state = "Direct" => Ahead(DirectAhead(plan, mode))
  /\ state = "Mode" => Ahead(ModesLeft(plan, mode, plan.types[1] - modes))
  /\ state = "TreeCount" =>
       /\ CounterFits(counter, PlannedTrees(plan)[kind] - 1)
       /\ Ahead(VarRest(counter, PlannedTrees(plan)[kind] - 1) \o MapAhead(plan, kind))
  /\ state = "Map" => PlannedTrees(plan)[kind] # 1 /\ Ahead(MapAhead(plan, kind))
  /\ state = "Trees" =>
       Ahead(CodesLeft(plan, kind, PlannedTrees(plan)[kind] - trees[kind]) \o AfterCodes(plan, kind))
  /\ state = "Data" => Ahead(<<>>)

PlanFollows(plan, mode) == Known(plan) /\ AheadIs(plan, mode)
StreamInv ==
  source # Unknown => source \in Plans /\ state # "error" /\ \E mode : PlanFollows(source, mode)

HeaderInv == HeaderTypeOK /\ Progress /\ DecoderInv /\ StreamInv

LEMMA DueIs ==
  /\ state \in {"TypeCount", "TreeCount"} => Due = Bits(counter.width)
  /\ state = "TypeCode" => Due = Code(types[kind] + 2)
  /\ state = "LengthCode" => Due = Code(26)
  /\ state = "FirstLength" => Due = Length
  /\ state \in {"Postfix", "Mode"} => Due = Bits(2)
  /\ state = "Direct" => Due = Bits(4)
  /\ state = "Map" => Due = Map(MapSize(kind), numTrees[kind])
  /\ state = "Trees" => Due = Code(TreeAlphabet(kind))
BY DEF Due

\* In every state, the field that comes.
LEMMA TypeCountComes ==
  ASSUME HeaderTypeOK, NEW plan \in Plans, NEW mode, PlanFollows(plan, mode), state = "TypeCount"
  PROVE  \E v, r : Counts(plan.types[kind] - 1, v, r,
                          SplitOf(plan.types[kind]) \o AfterPartition(plan, mode, kind))
<1>1. PICK n, rest : /\ n = plan.types[kind] - 1
                     /\ rest = SplitOf(plan.types[kind]) \o AfterPartition(plan, mode, kind)
  OBVIOUS
<1>2. kind \in Kinds
  BY DEF HeaderTypeOK
<1>3. n \in 0..255
  <2>1. plan.types[kind] \in 1..256
    BY <1>2, PlanIs
  <2> QED
    BY <1>1, <2>1
<1>4. IsList(rest)
  <2>1. IsList(SplitOf(plan.types[kind])) /\ IsList(AfterPartition(plan, mode, kind))
    BY <1>2, PartsAreLists, RestsAreLists
  <2> QED
    BY <1>1, <2>1, ListConcat
<1>5. CounterFits(counter, n) /\ Ahead(VarRest(counter, n) \o rest) /\ Due = Bits(counter.width)
  BY <1>1, DueIs DEF PlanFollows, AheadIs
<1>6. \E v, r : Counts(n, v, r, rest)
  BY <1>3, <1>4, <1>5, CountComes
<1> QED
  BY <1>1, <1>6

LEMMA PartitionComes ==
  ASSUME HeaderTypeOK, NEW plan \in Plans, NEW mode, PlanFollows(plan, mode)
  PROVE  /\ state = "TypeCode" => Comes(0, LengthCodeAhead(plan, mode, kind))
         /\ state = "LengthCode" => Comes(0, LengthAhead(plan, mode, kind))
         /\ state = "FirstLength" => Comes(0, AfterPartition(plan, mode, kind))
<1>1. kind \in Kinds
  BY DEF HeaderTypeOK
<1>2. PICK r1, r2, r3 : /\ r3 = AfterPartition(plan, mode, kind)
                        /\ r2 = LengthAhead(plan, mode, kind) /\ r1 = LengthCodeAhead(plan, mode, kind)
  OBVIOUS
<1>3. r2 = <<Field(Length, 0)>> \o r3 /\ r1 = <<Field(Code(26), 0)>> \o r2
  BY <1>2 DEF LengthAhead, LengthCodeAhead
<1>4. IsList(r1) /\ IsList(r2) /\ IsList(r3)
  <2>1. IsList(r3)
    BY <1>1, <1>2, RestsAreLists
  <2>2. IsList(r2)
    BY <1>3, <2>1, ListOf, ListConcat
  <2> QED
    BY <1>3, <2>1, <2>2, ListOf, ListConcat
<1>5. ASSUME state = "TypeCode" PROVE Comes(0, r1)
  <2>1. Due = Code(plan.types[kind] + 2)
    <3>1. Due = Code(types[kind] + 2)
      BY <1>5, DueIs
    <3>2. types[kind] = plan.types[kind]
      <4>1. kind <= kind
        BY <1>1 DEF Kinds
      <4> QED
        BY <1>1, <1>5, <4>1 DEF PlanFollows, Known
    <3> QED
      BY <3>1, <3>2
  <2>2. Ahead(<<Field(Due, 0)>> \o r1)
    BY <1>2, <1>5, <2>1 DEF PlanFollows, AheadIs, TypeCodeAhead
  <2> QED
    BY <1>4, <2>2, AheadComes
<1>6. ASSUME state = "LengthCode" PROVE Comes(0, r2)
  <2>1. Due = Code(26)
    BY <1>6, DueIs
  <2>2. Ahead(<<Field(Due, 0)>> \o r2)
    BY <1>2, <1>3, <1>6, <2>1 DEF PlanFollows, AheadIs
  <2> QED
    BY <1>4, <2>2, AheadComes
<1>7. ASSUME state = "FirstLength" PROVE Comes(0, r3)
  <2>1. Due = Length
    BY <1>7, DueIs
  <2>2. Ahead(<<Field(Due, 0)>> \o r3)
    BY <1>2, <1>3, <1>7, <2>1 DEF PlanFollows, AheadIs
  <2> QED
    BY <1>4, <2>2, AheadComes
<1> QED
  BY <1>2, <1>5, <1>6, <1>7

LEMMA ParameterComes ==
  ASSUME NEW plan \in Plans, NEW mode, PlanFollows(plan, mode)
  PROVE  /\ state = "Postfix" => Comes(plan.postfix, DirectAhead(plan, mode))
         /\ state = "Direct" => Comes(plan.direct \div 2 ^ plan.postfix,
                                      ModesLeft(plan, mode, plan.types[1]))
<1>1. PICK r1, r2, x : /\ r2 = ModesLeft(plan, mode, plan.types[1]) /\ r1 = DirectAhead(plan, mode)
                       /\ x = plan.direct \div 2 ^ plan.postfix
  OBVIOUS
<1>2. r1 = <<Field(Bits(4), x)>> \o r2 /\ ParametersAhead(plan, mode) = <<Field(Bits(2), plan.postfix)>> \o r1
  BY <1>1 DEF DirectAhead, ParametersAhead
<1>3. IsList(r1) /\ IsList(r2)
  <2>1. plan.types[1] \in 1..256
    BY PlanNumbers DEF Kinds
  <2>2. plan.types[1] \in Nat
    BY <2>1
  <2> QED
    BY <1>1, <2>2, RestsAreLists
<1>4. ASSUME state = "Postfix" PROVE Comes(plan.postfix, r1)
  <2>1. Due = Bits(2)
    BY <1>4, DueIs
  <2>2. Ahead(<<Field(Due, plan.postfix)>> \o r1)
    BY <1>2, <1>4, <2>1 DEF PlanFollows, AheadIs
  <2> QED
    BY <1>3, <2>2, AheadComes
<1>5. ASSUME state = "Direct" PROVE Comes(x, r2)
  <2>1. Due = Bits(4)
    BY <1>5, DueIs
  <2>2. Ahead(<<Field(Due, x)>> \o r2)
    BY <1>1, <1>2, <1>5, <2>1 DEF PlanFollows, AheadIs
  <2> QED
    BY <1>3, <2>2, AheadComes
<1> QED
  BY <1>1, <1>4, <1>5

LEMMA ModeComes ==
  ASSUME HeaderTypeOK, Progress, NEW plan \in Plans, NEW mode, PlanFollows(plan, mode), state = "Mode"
  PROVE  Comes(mode, ModesLeft(plan, mode, plan.types[1] - (modes + 1)))
<1>1. PICK n, rest, f : /\ n = plan.types[1] - modes /\ rest = MapsAhead(plan)
                        /\ f = Field(Bits(2), mode)
  OBVIOUS
<1>2. n \in Nat \ {0} /\ plan.types[1] - (modes + 1) = n - 1
  <2>1. types[1] = plan.types[1]
    BY DEF PlanFollows, Known, Kinds
  <2>2. modes < types[1] /\ modes \in Nat
    BY DEF Progress, HeaderTypeOK
  <2>3. plan.types[1] \in 1..256
    BY PlanNumbers DEF Kinds
  <2>4. PICK t : t = plan.types[1]
    OBVIOUS
  <2>5. modes < t /\ t \in 1..256 /\ n = t - modes
    BY <1>1, <2>1, <2>2, <2>3, <2>4
  <2>6. n \in Nat \ {0} /\ t - (modes + 1) = n - 1
    BY <2>2, <2>5
  <2> QED
    BY <2>4, <2>6
<1>3. IsList(rest)
  BY <1>1, RestsAreLists
<1>4. PICK r : r = Times(n - 1, f) \o rest
  OBVIOUS
<1>5. IsList(r)
  <2>1. n - 1 \in Nat
    BY <1>2
  <2>2. IsList(Times(n - 1, f))
    BY <2>1, ListOf
  <2> QED
    BY <1>3, <1>4, <2>2, ListConcat
<1>6. Times(n, f) \o rest = <<f>> \o r
  <2>1. Joined(Times(n, f) \o rest, <<f>>, Times(n - 1, f) \o rest)
    BY <1>2, <1>3, TimesMore
  <2> QED
    BY <1>4, <2>1 DEF Joined
<1>7. Due = Bits(2)
  BY DueIs
<1>8. Ahead(<<Field(Due, mode)>> \o r)
  BY <1>1, <1>6, <1>7 DEF PlanFollows, AheadIs, ModesLeft
<1>9. Comes(mode, r)
  BY <1>5, <1>8, AheadComes
<1> QED
  BY <1>1, <1>2, <1>4, <1>9 DEF ModesLeft

LEMMA TreeCountComes ==
  ASSUME HeaderTypeOK, NEW plan \in Plans, NEW mode, PlanFollows(plan, mode), state = "TreeCount"
  PROVE  \E v, r : Counts(PlannedTrees(plan)[kind] - 1, v, r, MapAhead(plan, kind))
<1>1. PICK n, rest : n = PlannedTrees(plan)[kind] - 1 /\ rest = MapAhead(plan, kind)
  OBVIOUS
<1>2. kind \in Kinds /\ kind \in {1, 3}
  BY DEF HeaderTypeOK
<1>3. n \in 0..255
  <2>1. PlannedTrees(plan)[kind] \in 1..256
    BY <1>2, PlanIs
  <2> QED
    BY <1>1, <2>1
<1>4. IsList(rest)
  BY <1>1, <1>2, RestsAreLists
<1>5. CounterFits(counter, n) /\ Ahead(VarRest(counter, n) \o rest) /\ Due = Bits(counter.width)
  BY <1>1, DueIs DEF PlanFollows, AheadIs
<1>6. \E v, r : Counts(n, v, r, rest)
  BY <1>3, <1>4, <1>5, CountComes
<1> QED
  BY <1>1, <1>6

LEMMA MapComes ==
  ASSUME HeaderTypeOK, NEW plan \in Plans, NEW mode, PlanFollows(plan, mode), state = "Map"
  PROVE  Comes(SymbolsOf(PlannedMap(plan, kind), MapWritten(plan, kind)), AfterMap(plan, kind))
<1>1. PICK v, r, f : /\ v = SymbolsOf(PlannedMap(plan, kind), MapWritten(plan, kind))
                     /\ r = AfterMap(plan, kind) /\ f = Field(Due, v)
  OBVIOUS
<1>2. kind \in Kinds /\ kind \in {1, 3}
  BY DEF HeaderTypeOK
<1>3. IsList(r)
  BY <1>1, <1>2, RestsAreLists
<1>4. Due = Map(plan.types[kind] * Contexts(kind), PlannedTrees(plan)[kind])
  <2>1. Due = Map(types[kind] * Contexts(kind), numTrees[kind])
    BY DueIs DEF MapSize
  <2>2. types[kind] = plan.types[kind] /\ numTrees[kind] = PlannedTrees(plan)[kind]
    BY <1>2 DEF PlanFollows, Known
  <2> QED
    BY <2>1, <2>2
<1>5. MapPart(plan, kind) = <<f>>
  BY <1>1, <1>4 DEF PlanFollows, AheadIs, MapPart, MapField
<1>6. MapAhead(plan, kind) = MapPart(plan, kind) \o r
  <2>1. MapAhead(plan, 3) = MapPart(plan, 3) \o CodesAhead(plan)
    BY DEF MapAhead
  <2>2. MapAhead(plan, 1) = MapPart(plan, 1) \o AfterMap(plan, 1)
    BY <2>1 DEF MapAhead, AfterMap
  <2>3. AfterMap(plan, 3) = CodesAhead(plan)
    BY DEF AfterMap
  <2> QED
    BY <1>1, <1>2, <2>1, <2>2, <2>3
<1>7. Ahead(<<Field(Due, v)>> \o r)
  BY <1>1, <1>5, <1>6 DEF PlanFollows, AheadIs
<1> QED
  BY <1>1, <1>3, <1>7, AheadComes

LEMMA TreeComes ==
  ASSUME HeaderTypeOK, Progress, NEW plan \in Plans, NEW mode, PlanFollows(plan, mode), state = "Trees"
  PROVE  /\ TreesDue(kind) = PlannedTrees(plan)[kind] /\ trees[kind] < PlannedTrees(plan)[kind]
         /\ Comes(0, CodesLeft(plan, kind, PlannedTrees(plan)[kind] - (trees[kind] + 1))
                       \o AfterCodes(plan, kind))
<1>1. kind \in Kinds /\ Kinds = {1, 2, 3} /\ trees[kind] \in Nat
  BY DEF HeaderTypeOK, Kinds
<1>2. TreesDue(kind) = PlannedTrees(plan)[kind]
  <2>1. numTrees[1] = PlannedTrees(plan)[1] /\ numTrees[3] = PlannedTrees(plan)[3]
    BY DEF PlanFollows, Known
  <2>2. types[2] = plan.types[2]
    BY <1>1 DEF PlanFollows, Known
  <2>3. PlannedTrees(plan)[2] = plan.types[2]
    <3>1. PICK x, y, z : x = plan.types[1] * plan.contexts /\ y = plan.types[2] /\ z = plan.types[3]
      OBVIOUS
    <3>2. PlannedTrees(plan) = <<x, y, z>>
      BY <3>1, PlanIs
    <3> QED
      BY <3>1, <3>2
  <2>4. TreesDue(1) = numTrees[1] /\ TreesDue(2) = types[2] /\ TreesDue(3) = numTrees[3]
    BY DEF TreesDue
  <2> QED
    BY <1>1, <2>1, <2>2, <2>3, <2>4
<1>3. trees[kind] < PlannedTrees(plan)[kind] /\ PlannedTrees(plan)[kind] \in 1..256
  BY <1>1, <1>2, PlanIs DEF Progress
<1>4. PICK n, f, rest : /\ n = PlannedTrees(plan)[kind] - trees[kind] /\ rest = AfterCodes(plan, kind)
                        /\ f = Field(Code(PlanAlphabet(plan, kind)), 0)
  OBVIOUS
<1>5. n \in Nat \ {0} /\ PlannedTrees(plan)[kind] - (trees[kind] + 1) = n - 1
  <2>1. PICK t, p : t = trees[kind] /\ p = PlannedTrees(plan)[kind]
    OBVIOUS
  <2>2. t \in Nat /\ p \in 1..256 /\ t < p /\ n = p - t
    BY <1>1, <1>3, <1>4, <2>1
  <2>3. n \in Nat \ {0} /\ p - (t + 1) = n - 1
    BY <2>2
  <2> QED
    BY <2>1, <2>3
<1>6. IsList(rest)
  BY <1>1, <1>4, RestsAreLists
<1>7. PICK r : r = Times(n - 1, f) \o rest
  OBVIOUS
<1>8. IsList(r)
  <2>1. n - 1 \in Nat
    BY <1>5
  <2>2. IsList(Times(n - 1, f))
    BY <2>1, ListOf
  <2> QED
    BY <1>6, <1>7, <2>2, ListConcat
<1>9. Times(n, f) \o rest = <<f>> \o r
  <2>1. Joined(Times(n, f) \o rest, <<f>>, Times(n - 1, f) \o rest)
    BY <1>5, <1>6, TimesMore
  <2> QED
    BY <1>7, <2>1 DEF Joined
<1>10. f = Field(Due, 0)
  <2>1. Due = Code(TreeAlphabet(kind))
    BY DueIs
  <2>2. TreeAlphabet(kind) = PlanAlphabet(plan, kind)
    <3>1. postfix = plan.postfix /\ direct = plan.direct
      BY DEF PlanFollows, Known, Late
    <3> QED
      BY <3>1, SMT DEF TreeAlphabet, PlanAlphabet
  <2> QED
    BY <1>4, <2>1, <2>2
<1>11. Ahead(<<Field(Due, 0)>> \o r)
  BY <1>4, <1>9, <1>10 DEF PlanFollows, AheadIs, CodesLeft
<1>12. Comes(0, r)
  BY <1>8, <1>11, AheadComes
<1>13. CodesLeft(plan, kind, PlannedTrees(plan)[kind] - (trees[kind] + 1)) = Times(n - 1, f)
  BY <1>4, <1>5 DEF CodesLeft
<1> QED
  BY <1>2, <1>3, <1>4, <1>7, <1>12, <1>13

\* A count is at most 255, and a counter goes on with a width that a byte has.
LEMMA CountIs ==
  ASSUME CounterTypeOK, NEW value \in 0..(2 ^ counter.width - 1)
  PROVE  /\ value \in Nat /\ (Counted(value) => Count(value) \in 0..255)
         /\ ~ Counted(value) /\ counter' = CountOn(value) => CounterTypeOK'
<1>1. CASE counter = FirstBit
  <2>1. counter.state = "FirstBit" /\ counter.width = 1 /\ 2 ^ 1 = 2
    BY <1>1 DEF FirstBit
  <2>2. value \in 0..1
    BY <2>1
  <2>3. Count(value) = 0
    BY <2>1 DEF Count
  <2>4. CountOn(value) = [state |-> "Width", width |-> 3]
    BY <2>1 DEF CountOn
  <2> QED
    BY <2>2, <2>3, <2>4 DEF CounterTypeOK
<1>2. CASE counter = [state |-> "Width", width |-> 3]
  <2>1. counter.state = "Width" /\ counter.width = 3 /\ 2 ^ 3 = 8
    BY <1>2
  <2>2. value \in 0..7
    BY <2>1
  <2>3. Count(value) = 1
    BY <2>1 DEF Count
  <2>4. CountOn(value) = [state |-> "Value", width |-> value]
    BY <2>1 DEF CountOn
  <2>5. Counted(value) <=> value = 0
    BY <2>1 DEF Counted
  <2> QED
    BY <2>2, <2>3, <2>4, <2>5 DEF CounterTypeOK
<1>3. CASE \E w \in 1..7 : counter = [state |-> "Value", width |-> w]
  <2>1. PICK w \in 1..7 : counter = [state |-> "Value", width |-> w]
    BY <1>3
  <2>2. PICK c : c = 2 ^ w
    OBVIOUS
  <2>3. c \in 1..128
    <3>1. w = 1 \/ w = 2 \/ w = 3 \/ w = 4 \/ w = 5 \/ w = 6 \/ w = 7
      OBVIOUS
    <3>2. CASE w = 1
      <4>1. c = 2
        BY <2>2, <3>2
      <4> QED
        BY <4>1
    <3>3. CASE w = 2
      <4>1. c = 4
        BY <2>2, <3>3
      <4> QED
        BY <4>1
    <3>4. CASE w = 3
      <4>1. c = 8
        BY <2>2, <3>4
      <4> QED
        BY <4>1
    <3>5. CASE w = 4
      <4>1. c = 16
        BY <2>2, <3>5
      <4> QED
        BY <4>1
    <3>6. CASE w = 5
      <4>1. c = 32
        BY <2>2, <3>6
      <4> QED
        BY <4>1
    <3>7. CASE w = 6
      <4>1. c = 64
        BY <2>2, <3>7
      <4> QED
        BY <4>1
    <3>8. CASE w = 7
      <4>1. c = 128
        BY <2>2, <3>8
      <4> QED
        BY <4>1
    <3> QED
      BY <3>1, <3>2, <3>3, <3>4, <3>5, <3>6, <3>7, <3>8
  <2>4. counter.state = "Value" /\ counter.width = w /\ value \in 0..(c - 1)
    BY <2>1, <2>2
  <2>5. Counted(value) /\ Count(value) = c + value
    BY <2>2, <2>4 DEF Counted, Count
  <2> QED
    BY <2>3, <2>4, <2>5
<1> QED
  BY <1>1, <1>2, <1>3 DEF CounterTypeOK

LEMMA StreamKept ==
  ASSUME NEW plan \in Plans, NEW mode, source' = plan, state' # "error", PlanFollows(plan, mode)'
  PROVE  StreamInv'
BY DEF StreamInv

LEMMA UnknownKept ==
  ASSUME source = Unknown, ReadOn
  PROVE  StreamInv'
BY DEF StreamInv, ReadOn

\* Before the modes there is nothing to know of them, of maps or of trees.
LEMMA EarlyKept ==
  ASSUME Progress, DecoderInv, state \in Early, state' \in Early,
         modes' = modes, trees' = trees, decoder' = decoder, symbols' = symbols
  PROVE  Progress' /\ DecoderInv'
<1>1. state # "Map" /\ state' # "Map"
  BY DEF Early
<1>2. DecoderInv'
  BY <1>1 DEF DecoderInv, NoDecoder, NewDecoder, NoSymbols, SymbolsOf, NothingWritten
<1>3. state' \notin Late /\ state' # "Mode" /\ state \notin {"Trees", "Data", "error"}
  BY DEF Early, Late
<1>4. modes' = 0 /\ \A j \in Kinds : trees'[j] = 0
  BY <1>3 DEF Progress
<1> QED
  BY <1>2, <1>3, <1>4 DEF Progress, LastMap, Late

LEMMA AfterPartitionIs ==
  ASSUME NEW plan, NEW mode, NEW k \in Kinds, k < 3
  PROVE  AfterPartition(plan, mode, k) =
           VarLen(plan.types[k + 1] - 1)
             \o (SplitOf(plan.types[k + 1]) \o AfterPartition(plan, mode, k + 1))
<1>1. k = 1 \/ k = 2
  BY DEF Kinds
<1>2. 1 + 1 = 2 /\ 2 + 1 = 3
  OBVIOUS
<1>3. AfterPartition(plan, mode, 3) = ParametersAhead(plan, mode)
  BY DEF AfterPartition
<1>4. AfterPartition(plan, mode, 2) =
        VarLen(plan.types[3] - 1) \o (SplitOf(plan.types[3]) \o AfterPartition(plan, mode, 3))
  BY <1>3 DEF AfterPartition, PartitionAhead
<1>5. AfterPartition(plan, mode, 1) =
        VarLen(plan.types[2] - 1) \o (SplitOf(plan.types[2]) \o AfterPartition(plan, mode, 2))
  BY DEF AfterPartition
<1>6. CASE k = 1
  BY <1>2, <1>5, <1>6
<1>7. CASE k = 2
  BY <1>2, <1>4, <1>7
<1> QED
  BY <1>1, <1>6, <1>7

\* After a partition, the next or the parameters are ahead.
LEMMA PartitionNext ==
  ASSUME kind \in Kinds, NEW plan \in Plans, NEW mode, NextPartition,
         NEW r, r = AfterPartition(plan, mode, kind), Ahead(r)',
         counter' = FirstBit, \A j \in Kinds : j <= kind => types'[j] = plan.types[j]
  PROVE  PlanFollows(plan, mode)'
<1>1. Kinds = {1, 2, 3}
  BY DEF Kinds
<1>2. CASE kind < 3
  <2>1. PICK k : k = kind + 1
    OBVIOUS
  <2>2. state' = "TypeCount" /\ kind' = k /\ k \in Kinds
    BY <1>1, <1>2, <2>1 DEF NextPartition
  <2>3. \A j \in Kinds : j < kind' => types'[j] = plan.types[j]
    <3>1. \A j \in Kinds : j < k => j <= kind
      BY <1>1, <2>1
    <3> QED
      BY <2>2, <3>1
  <2>4. Known(plan)'
    BY <2>2, <2>3 DEF Known, LastMap, Late
  <2>5. VarRest(counter', plan.types[k] - 1) = VarLen(plan.types[k] - 1)
    BY DEF VarRest, FirstBit
  <2>6. r = VarRest(counter', plan.types[k] - 1)
              \o (SplitOf(plan.types[k]) \o AfterPartition(plan, mode, k))
    BY <1>2, <2>1, <2>5, AfterPartitionIs
  <2>7. CounterFits(counter', plan.types[k] - 1)
    BY DEF CounterFits
  <2>8. AheadIs(plan, mode)'
    BY <2>2, <2>6, <2>7 DEF AheadIs
  <2> QED
    BY <2>4, <2>8 DEF PlanFollows
<1>3. CASE ~(kind < 3)
  <2>1. state' = "Postfix" /\ kind = 3
    BY <1>1, <1>3 DEF NextPartition
  <2>2. \A j \in Kinds : types'[j] = plan.types[j]
    BY <1>1, <2>1
  <2>3. Known(plan)'
    BY <2>1, <2>2 DEF Known, LastMap, Late
  <2>4. r = ParametersAhead(plan, mode)
    BY <2>1 DEF AfterPartition
  <2>5. AheadIs(plan, mode)'
    BY <2>1, <2>4 DEF AheadIs
  <2> QED
    BY <2>3, <2>5 DEF PlanFollows
<1> QED
  BY <1>2, <1>3

LEMMA TypeCountStep ==
  ASSUME HeaderInv, NEW value \in 0..(2 ^ counter.width - 1), ReadTypeCount(value)
  PROVE  HeaderInv'
<1>1. HeaderTypeOK /\ Progress /\ DecoderInv /\ StreamInv
  BY DEF HeaderInv
<1>2. /\ state = "TypeCount" /\ Reading(value)
      /\ postfix' = postfix /\ direct' = direct /\ modes' = modes /\ numTrees' = numTrees
      /\ maps' = maps /\ trees' = trees /\ decoder' = decoder /\ symbols' = symbols
  BY DEF ReadTypeCount, mapVars
<1>3. PICK n : n = Count(value)
  OBVIOUS
<1>4. /\ Counted(value) => /\ types' = [types EXCEPT ![kind] = n + 1] /\ counter' = FirstBit
                           /\ IF n = 0 THEN NextPartition ELSE state' = "TypeCode" /\ kind' = kind
      /\ ~ Counted(value) => /\ counter' = CountOn(value) /\ state' = state /\ kind' = kind
                             /\ types' = types
  BY <1>3 DEF ReadTypeCount
<1>5. kind \in Kinds /\ Kinds = {1, 2, 3} /\ types \in [Kinds -> 1..256] /\ CounterTypeOK
  BY <1>1 DEF HeaderTypeOK, Kinds
<1>6. (Counted(value) => n \in 0..255) /\ (~ Counted(value) => CounterTypeOK')
  BY <1>3, <1>4, <1>5, CountIs
<1>7. /\ kind' \in Kinds /\ state' \in {"TypeCount", "TypeCode", "Postfix"}
      /\ state' # "TypeCount" => counter' = FirstBit
  BY <1>2, <1>4, <1>5 DEF NextPartition
<1>8. HeaderTypeOK'
  <2>1. types' \in [Kinds -> 1..256]
    <3>1. CASE Counted(value)
      <4>1. n + 1 \in 1..256
        BY <1>6, <3>1
      <4> QED
        BY <1>4, <1>5, <3>1, <4>1
    <3> QED
      BY <1>4, <1>5, <3>1
  <2>2. CounterTypeOK'
    BY <1>4, <1>6 DEF CounterTypeOK
  <2> QED
    BY <1>1, <1>2, <1>7, <2>1, <2>2 DEF HeaderTypeOK, Early
<1>9. Progress' /\ DecoderInv'
  <2>1. state \in Early /\ state' \in Early
    BY <1>2, <1>7 DEF Early
  <2> QED
    BY <1>1, <1>2, <2>1, EarlyKept
<1>10. StreamInv'
  <2>1. ReadOn
    BY <1>2 DEF Reading
  <2>2. CASE source = Unknown
    BY <2>1, <2>2, UnknownKept
  <2>3. CASE source # Unknown
    <3>1. PICK plan, mode : plan \in Plans /\ plan = source /\ PlanFollows(plan, mode)
      BY <1>1, <2>3 DEF StreamInv
    <3>2. PICK rest, after : /\ after = AfterPartition(plan, mode, kind)
                             /\ rest = SplitOf(plan.types[kind]) \o after
      OBVIOUS
    <3>3. PICK v, r : Counts(plan.types[kind] - 1, v, r, rest)
      BY <1>1, <1>2, <3>1, <3>2, TypeCountComes
    <3>4. value = v /\ Ahead(r)'
      BY <1>2, <2>3, <3>3, ComesIs DEF Counts
    <3>5. \A j \in Kinds : j < kind => types[j] = plan.types[j]
      BY <1>2, <3>1 DEF PlanFollows, Known
    <3>6. CASE Counted(value)
      <4>1. n = plan.types[kind] - 1 /\ r = rest
        BY <1>3, <3>3, <3>4, <3>6 DEF Counts
      <4>2. plan.types[kind] \in 1..256
        BY <1>5, <3>1, PlanNumbers
      <4>3. \A j \in Kinds : j <= kind => types'[j] = plan.types[j]
        <5>1. types'[kind] = plan.types[kind]
          BY <1>4, <1>5, <3>6, <4>1, <4>2
        <5>2. \A j \in Kinds : j # kind => types'[j] = types[j]
          BY <1>4, <1>5, <3>6
        <5>3. \A j \in Kinds : j <= kind => j < kind \/ j = kind
          BY <1>5
        <5> QED
          BY <3>5, <5>1, <5>2, <5>3
      <4>4. IsList(after)
        BY <1>5, <3>1, <3>2, RestsAreLists
      <4>5. CASE n = 0
        <5>1. NextPartition /\ counter' = FirstBit
          BY <1>4, <3>6, <4>5
        <5>2. r = after
          <6>1. plan.types[kind] = 1 /\ plan.types[kind] \in Nat
            BY <4>1, <4>2, <4>5
          <6> QED
            BY <3>2, <4>1, <4>4, <6>1, SplitIs
        <5>3. PlanFollows(plan, mode)'
          BY <1>5, <3>1, <3>2, <3>4, <4>3, <5>1, <5>2, PartitionNext
        <5> QED
          BY <1>7, <2>1, <3>1, <5>3, StreamKept DEF ReadOn
      <4>6. CASE n # 0
        <5>1. state' = "TypeCode" /\ kind' = kind
          BY <1>4, <3>6, <4>6
        <5>2. r = TypeCodeAhead(plan, mode, kind)
          <6>1. plan.types[kind] # 1 /\ plan.types[kind] \in Nat
            BY <4>1, <4>2, <4>6
          <6>2. r = <<Field(Code(plan.types[kind] + 2), 0)>>
                      \o (<<Field(Code(26), 0)>> \o (<<Field(Length, 0)>> \o after))
            <7>1. PICK t, s : t = plan.types[kind] /\ s = SplitOf(t) \o after
              OBVIOUS
            <7>2. s = <<Field(Code(t + 2), 0)>>
                        \o (<<Field(Code(26), 0)>> \o (<<Field(Length, 0)>> \o after))
              BY <4>4, <6>1, <7>1, SplitIs
            <7> QED
              BY <3>2, <4>1, <7>1, <7>2
          <6> QED
            BY <3>2, <6>2 DEF TypeCodeAhead, LengthCodeAhead, LengthAhead
        <5>3. PICK k : k = kind
          OBVIOUS
        <5>4. AheadIs(plan, mode)'
          BY <3>4, <5>1, <5>2, <5>3 DEF AheadIs
        <5>5. Known(plan)'
          BY <4>3, <5>1 DEF Known, LastMap, Late
        <5> QED
          BY <1>7, <2>1, <3>1, <5>4, <5>5, StreamKept DEF ReadOn, PlanFollows
      <4> QED
        BY <4>5, <4>6
    <3>7. CASE ~ Counted(value)
      <4>1. PICK c, k : c = CountOn(v) /\ k = kind
        OBVIOUS
      <4>2. CounterFits(c, plan.types[k] - 1) /\ r = VarRest(c, plan.types[k] - 1) \o rest
        BY <3>3, <3>4, <3>7, <4>1 DEF Counts
      <4>3. counter' = c /\ state' = "TypeCount" /\ kind' = k /\ types' = types
        BY <1>2, <1>4, <3>4, <3>7, <4>1
      <4>4. AheadIs(plan, mode)'
        BY <3>2, <3>4, <4>1, <4>2, <4>3 DEF AheadIs
      <4>5. Known(plan)'
        BY <3>5, <4>1, <4>3 DEF Known, LastMap, Late
      <4> QED
        BY <1>7, <2>1, <3>1, <4>4, <4>5, StreamKept DEF ReadOn, PlanFollows
    <3> QED
      BY <3>6, <3>7
  <2> QED
    BY <2>2, <2>3
<1> QED
  BY <1>8, <1>9, <1>10 DEF HeaderInv

LEMMA PartitionStep ==
  ASSUME HeaderInv, ReadPartition
  PROVE  HeaderInv'
<1>1. HeaderTypeOK /\ Progress /\ DecoderInv /\ StreamInv
  BY DEF HeaderInv
<1>2. /\ state \in {"TypeCode", "LengthCode", "FirstLength"} /\ Reading(0)
      /\ counter' = counter /\ types' = types
      /\ postfix' = postfix /\ direct' = direct /\ modes' = modes /\ numTrees' = numTrees
      /\ maps' = maps /\ trees' = trees /\ decoder' = decoder /\ symbols' = symbols
  BY DEF ReadPartition, mapVars, header
<1>3. /\ state = "TypeCode" => state' = "LengthCode" /\ kind' = kind
      /\ state = "LengthCode" => state' = "FirstLength" /\ kind' = kind
      /\ state = "FirstLength" => NextPartition
  BY DEF ReadPartition
<1>4. kind \in Kinds /\ Kinds = {1, 2, 3} /\ counter = FirstBit
  BY <1>1, <1>2 DEF HeaderTypeOK, Kinds
<1>5. kind' \in Kinds /\ state' \in {"TypeCount", "LengthCode", "FirstLength", "Postfix"}
  BY <1>2, <1>3, <1>4 DEF NextPartition
<1>6. HeaderTypeOK'
  BY <1>1, <1>2, <1>4, <1>5 DEF HeaderTypeOK, Early, CounterTypeOK
<1>7. Progress' /\ DecoderInv'
  <2>1. state \in Early /\ state' \in Early
    BY <1>2, <1>5 DEF Early
  <2> QED
    BY <1>1, <1>2, <2>1, EarlyKept
<1>8. StreamInv'
  <2>1. ReadOn
    BY <1>2 DEF Reading
  <2>2. CASE source = Unknown
    BY <2>1, <2>2, UnknownKept
  <2>3. CASE source # Unknown
    <3>1. PICK plan, mode : plan \in Plans /\ plan = source /\ PlanFollows(plan, mode)
      BY <1>1, <2>3 DEF StreamInv
    <3>2. \A j \in Kinds : j <= kind => types[j] = plan.types[j]
      BY <1>2, <3>1 DEF PlanFollows, Known
    <3>3. PICK k, r1, r2, r3 : /\ k = kind /\ r3 = AfterPartition(plan, mode, k)
                               /\ r2 = LengthAhead(plan, mode, k) /\ r1 = LengthCodeAhead(plan, mode, k)
      OBVIOUS
    <3>4. /\ state = "TypeCode" => Comes(0, r1)
          /\ state = "LengthCode" => Comes(0, r2)
          /\ state = "FirstLength" => Comes(0, r3)
      BY <1>1, <3>1, <3>3, PartitionComes
    <3>5. source' = plan /\ state' # "error"
      BY <1>5, <2>1, <3>1 DEF ReadOn
    <3>6. CASE state = "TypeCode"
      <4>1. state' = "LengthCode" /\ kind' = k /\ types' = types
        BY <1>2, <1>3, <3>3, <3>6
      <4>2. Ahead(r1)'
        BY <1>2, <2>3, <3>4, <3>6, ComesIs
      <4>3. AheadIs(plan, mode)'
        BY <3>3, <4>1, <4>2 DEF AheadIs
      <4>4. Known(plan)'
        BY <3>2, <3>3, <4>1 DEF Known, LastMap, Late
      <4> QED
        BY <3>1, <3>5, <4>3, <4>4, StreamKept DEF PlanFollows
    <3>7. CASE state = "LengthCode"
      <4>1. state' = "FirstLength" /\ kind' = k /\ types' = types
        BY <1>2, <1>3, <3>3, <3>7
      <4>2. Ahead(r2)'
        BY <1>2, <2>3, <3>4, <3>7, ComesIs
      <4>3. AheadIs(plan, mode)'
        BY <3>3, <4>1, <4>2 DEF AheadIs
      <4>4. Known(plan)'
        BY <3>2, <3>3, <4>1 DEF Known, LastMap, Late
      <4> QED
        BY <3>1, <3>5, <4>3, <4>4, StreamKept DEF PlanFollows
    <3>8. CASE state = "FirstLength"
      <4>1. NextPartition /\ counter' = FirstBit /\ types' = types
        BY <1>2, <1>3, <1>4, <3>8
      <4>2. Ahead(r3)'
        BY <1>2, <2>3, <3>4, <3>8, ComesIs
      <4>3. \A j \in Kinds : j <= kind => types'[j] = plan.types[j]
        BY <3>2, <4>1
      <4>4. PlanFollows(plan, mode)'
        BY <1>4, <3>1, <3>3, <4>1, <4>2, <4>3, PartitionNext
      <4> QED
        BY <3>1, <3>5, <4>4, StreamKept
    <3> QED
      BY <1>2, <3>6, <3>7, <3>8
  <2> QED
    BY <2>2, <2>3
<1> QED
  BY <1>6, <1>7, <1>8 DEF HeaderInv

LEMMA PostfixStep ==
  ASSUME HeaderInv, NEW value \in 0..3, ReadPostfix(value)
  PROVE  HeaderInv'
<1>1. HeaderTypeOK /\ Progress /\ DecoderInv /\ StreamInv
  BY DEF HeaderInv
<1>2. /\ state = "Postfix" /\ Reading(value) /\ postfix' = value /\ state' = "Direct"
      /\ kind' = kind /\ counter' = counter /\ types' = types
      /\ direct' = direct /\ modes' = modes /\ numTrees' = numTrees
      /\ maps' = maps /\ trees' = trees /\ decoder' = decoder /\ symbols' = symbols
  BY DEF ReadPostfix, mapVars
<1>3. HeaderTypeOK'
  BY <1>1, <1>2 DEF HeaderTypeOK, Early, CounterTypeOK
<1>4. Progress' /\ DecoderInv'
  <2>1. state \in Early /\ state' \in Early
    BY <1>2 DEF Early
  <2> QED
    BY <1>1, <1>2, <2>1, EarlyKept
<1>5. StreamInv'
  <2>1. ReadOn
    BY <1>2 DEF Reading
  <2>2. CASE source = Unknown
    BY <2>1, <2>2, UnknownKept
  <2>3. CASE source # Unknown
    <3>1. PICK plan, mode : plan \in Plans /\ plan = source /\ PlanFollows(plan, mode)
      BY <1>1, <2>3 DEF StreamInv
    <3>2. PICK r : r = DirectAhead(plan, mode)
      OBVIOUS
    <3>3. Comes(plan.postfix, r)
      BY <1>2, <3>1, <3>2, ParameterComes
    <3>4. value = plan.postfix /\ Ahead(r)'
      BY <1>2, <2>3, <3>3, ComesIs
    <3>5. AheadIs(plan, mode)'
      BY <1>2, <3>2, <3>4 DEF AheadIs
    <3>6. \A j \in Kinds : types[j] = plan.types[j]
      BY <1>2, <3>1 DEF PlanFollows, Known
    <3>7. Known(plan)'
      BY <1>2, <3>4, <3>6 DEF Known, LastMap, Late
    <3> QED
      BY <1>2, <2>1, <3>1, <3>5, <3>7, StreamKept DEF PlanFollows, ReadOn
  <2> QED
    BY <2>2, <2>3
<1> QED
  BY <1>3, <1>4, <1>5 DEF HeaderInv

LEMMA DirectStep ==
  ASSUME HeaderInv, NEW value \in 0..15, ReadDirect(value)
  PROVE  HeaderInv'
<1>1. HeaderTypeOK /\ Progress /\ DecoderInv /\ StreamInv
  BY DEF HeaderInv
<1>2. /\ state = "Direct" /\ Reading(value) /\ direct' = value * 2 ^ postfix /\ state' = "Mode"
      /\ kind' = kind /\ counter' = counter /\ types' = types
      /\ postfix' = postfix /\ modes' = modes /\ numTrees' = numTrees
      /\ maps' = maps /\ trees' = trees /\ decoder' = decoder /\ symbols' = symbols
  BY DEF ReadDirect, mapVars
<1>3. HeaderTypeOK'
  <2>1. direct' \in Nat
    <3>1. Power(postfix)
      <4>1. postfix \in 0..31
        BY <1>1 DEF HeaderTypeOK
      <4> QED
        BY <4>1, PowersAreNumbers
    <3>2. PICK m : m = 2 ^ postfix
      OBVIOUS
    <3>3. m \in Nat
      BY <3>1, <3>2 DEF Power
    <3>4. value * m \in Nat
      BY <3>3
    <3> QED
      BY <1>2, <3>2, <3>4
  <2> QED
    BY <1>1, <1>2, <2>1 DEF HeaderTypeOK, CounterTypeOK
<1>4. Progress' /\ DecoderInv'
  <2>1. modes = 0 /\ (\A j \in Kinds : trees[j] = 0) /\ state \notin Late
    BY <1>1, <1>2 DEF Progress, Early, Late
  <2>2. types'[1] \in 1..256
    BY <1>3 DEF HeaderTypeOK, Kinds
  <2>3. modes' < types'[1]
    BY <1>2, <2>1, <2>2
  <2>4. Progress'
    BY <1>2, <2>1, <2>3 DEF Progress, LastMap, Early, Late
  <2>5. DecoderInv'
    BY <1>1, <1>2 DEF DecoderInv, NoDecoder, NewDecoder, NoSymbols, SymbolsOf, NothingWritten
  <2> QED
    BY <2>4, <2>5
<1>5. StreamInv'
  <2>1. ReadOn
    BY <1>2 DEF Reading
  <2>2. CASE source = Unknown
    BY <2>1, <2>2, UnknownKept
  <2>3. CASE source # Unknown
    <3>1. PICK plan, mode : plan \in Plans /\ plan = source /\ PlanFollows(plan, mode)
      BY <1>1, <2>3 DEF StreamInv
    <3>2. PICK r, q : /\ q = plan.direct \div 2 ^ plan.postfix
                      /\ r = ModesLeft(plan, mode, plan.types[1])
      OBVIOUS
    <3>3. Comes(q, r)
      BY <1>2, <3>1, <3>2, ParameterComes
    <3>4. value = q /\ Ahead(r)'
      BY <1>2, <2>3, <3>3, ComesIs
    <3>5. postfix = plan.postfix /\ \A j \in Kinds : types[j] = plan.types[j]
      BY <1>2, <3>1 DEF PlanFollows, Known
    <3>6. direct' = plan.direct
      BY <1>2, <3>1, <3>2, <3>4, <3>5, PlanIs
    <3>7. plan.types[1] - modes' = plan.types[1]
      <4>1. modes' = 0
        BY <1>1, <1>2 DEF Progress, Early
      <4>2. plan.types[1] \in 1..256
        <5>1. 1 \in Kinds
          BY DEF Kinds
        <5> QED
          BY <3>1, <5>1, PlanNumbers
      <4> QED
        BY <4>1, <4>2
    <3>8. AheadIs(plan, mode)'
      BY <1>2, <3>2, <3>4, <3>7 DEF AheadIs
    <3>9. Known(plan)'
      BY <1>2, <3>5, <3>6 DEF Known, LastMap, Late
    <3> QED
      BY <1>2, <2>1, <3>1, <3>8, <3>9, StreamKept DEF PlanFollows, ReadOn
  <2> QED
    BY <2>2, <2>3
<1> QED
  BY <1>3, <1>4, <1>5 DEF HeaderInv

LEMMA ModeStep ==
  ASSUME HeaderInv, NEW value \in 0..3, ReadMode(value)
  PROVE  HeaderInv'
<1>1. HeaderTypeOK /\ Progress /\ DecoderInv /\ StreamInv
  BY DEF HeaderInv
<1>2. /\ state = "Mode" /\ Reading(value) /\ modes' = modes + 1
      /\ counter' = counter /\ types' = types /\ postfix' = postfix /\ direct' = direct
      /\ numTrees' = numTrees /\ maps' = maps /\ trees' = trees /\ decoder' = decoder
      /\ symbols' = symbols
      /\ modes + 1 < types[1] => state' = "Mode" /\ kind' = kind
      /\ ~(modes + 1 < types[1]) => state' = "TreeCount" /\ kind' = 1
  BY DEF ReadMode, mapVars
<1>3. modes \in Nat /\ types[1] \in 1..256 /\ modes < types[1] /\ counter = FirstBit
  BY <1>1, <1>2 DEF HeaderTypeOK, Progress, Kinds
<1>4. HeaderTypeOK'
  <2>1. modes' \in Nat /\ kind' \in Kinds /\ state' \in {"Mode", "TreeCount"}
        /\ (state' = "TreeCount" => kind' = 1)
    BY <1>1, <1>2, <1>3 DEF HeaderTypeOK, Kinds
  <2> QED
    BY <1>1, <1>2, <1>3, <2>1 DEF HeaderTypeOK, CounterTypeOK, Late
<1>5. Progress' /\ DecoderInv'
  <2>1. (\A j \in Kinds : trees[j] = 0) /\ state \notin Late
    BY <1>1, <1>2 DEF Progress, Late
  <2>2. ~(modes + 1 < types[1]) => modes' = types'[1]
    BY <1>2, <1>3
  <2>3. Progress'
    BY <1>2, <2>1, <2>2 DEF Progress, LastMap, Early, Late
  <2>4. state # "Map" /\ state' # "Map"
    BY <1>2
  <2>5. DecoderInv'
    BY <1>1, <1>2, <2>4 DEF DecoderInv, NoDecoder, NewDecoder, NoSymbols, SymbolsOf, NothingWritten
  <2> QED
    BY <2>3, <2>5
<1>6. StreamInv'
  <2>1. ReadOn
    BY <1>2 DEF Reading
  <2>2. CASE source = Unknown
    BY <2>1, <2>2, UnknownKept
  <2>3. CASE source # Unknown
    <3>1. PICK plan, mode : plan \in Plans /\ plan = source /\ PlanFollows(plan, mode)
      BY <1>1, <2>3 DEF StreamInv
    <3>2. PICK n, r : n = plan.types[1] - (modes + 1) /\ r = ModesLeft(plan, mode, n)
      OBVIOUS
    <3>3. Comes(mode, r)
      BY <1>1, <1>2, <3>1, <3>2, ModeComes
    <3>4. Ahead(r)'
      BY <1>2, <2>3, <3>3, ComesIs
    <3>5. /\ postfix = plan.postfix /\ direct = plan.direct
          /\ \A j \in Kinds : types[j] = plan.types[j]
      BY <1>2, <3>1 DEF PlanFollows, Known
    <3>6. Known(plan)'
      <4>1. ~LastMap' /\ state' \notin {"Map", "Trees", "Data"}
        BY <1>2 DEF LastMap
      <4> QED
        BY <1>2, <3>5, <4>1 DEF Known, LastMap, Late
    <3>7. source' = plan /\ state' # "error"
      BY <1>2, <2>1, <3>1 DEF ReadOn
    <3>8. CASE modes + 1 < types[1]
      <4>1. AheadIs(plan, mode)'
        BY <1>2, <3>2, <3>4, <3>8 DEF AheadIs
      <4> QED
        BY <3>1, <3>6, <3>7, <4>1, StreamKept DEF PlanFollows
    <3>9. CASE ~(modes + 1 < types[1])
      <4>1. n = 0
        BY <1>3, <3>2, <3>5, <3>9 DEF Kinds
      <4>2. r = MapsAhead(plan)
        <5>1. PICK f, rest : f = Field(Bits(2), mode) /\ rest = MapsAhead(plan)
          OBVIOUS
        <5>2. Times(0, f) = <<>>
          BY DEF Times
        <5>3. IsList(rest)
          BY <3>1, <5>1, RestsAreLists
        <5>4. <<>> \o rest = rest
          BY <5>3, ListConcat
        <5> QED
          BY <3>2, <4>1, <5>1, <5>2, <5>4 DEF ModesLeft
      <4>3. PICK p : p = PlannedTrees(plan)[1] - 1
        OBVIOUS
      <4>4. VarRest(counter', p) = VarLen(p) /\ CounterFits(counter', p)
        BY <1>2, <1>3 DEF VarRest, FirstBit, CounterFits
      <4>5. r = VarRest(counter', p) \o MapAhead(plan, 1)
        BY <4>2, <4>3, <4>4 DEF MapsAhead
      <4>6. state' = "TreeCount" /\ kind' = 1
        BY <1>2, <3>9
      <4>7. AheadIs(plan, mode)'
        BY <3>4, <4>3, <4>4, <4>5, <4>6 DEF AheadIs
      <4> QED
        BY <3>1, <3>6, <3>7, <4>7, StreamKept DEF PlanFollows
    <3> QED
      BY <3>8, <3>9
  <2> QED
    BY <2>2, <2>3
<1> QED
  BY <1>4, <1>5, <1>6 DEF HeaderInv

\* After the literals' map comes that of the distances, and then the trees.
LEMMA MapNext ==
  ASSUME kind \in {1, 3}, NEW plan \in Plans, NEW mode, NextMap,
         NEW r, r = AfterMap(plan, kind), Ahead(r)', counter' = FirstBit,
         \A j \in Kinds : types'[j] = plan.types[j],
         postfix' = plan.postfix, direct' = plan.direct,
         numTrees'[kind] = PlannedTrees(plan)[kind], numTrees'[1] = PlannedTrees(plan)[1],
         \A j \in Kinds : trees'[j] = 0
  PROVE  PlanFollows(plan, mode)'
<1>1. CASE kind = 1
  <2>1. state' = "TreeCount" /\ kind' = 3
    BY <1>1 DEF NextMap
  <2>2. Known(plan)'
    BY <2>1 DEF Known
  <2>3. PICK p : p = PlannedTrees(plan)[3] - 1
    OBVIOUS
  <2>4. VarRest(counter', p) = VarLen(p) /\ CounterFits(counter', p)
    BY DEF VarRest, FirstBit, CounterFits
  <2>5. r = VarRest(counter', p) \o MapAhead(plan, 3)
    BY <1>1, <2>3, <2>4 DEF AfterMap
  <2>6. AheadIs(plan, mode)'
    BY <2>1, <2>3, <2>4, <2>5 DEF AheadIs
  <2> QED
    BY <2>2, <2>6 DEF PlanFollows
<1>2. CASE kind = 3
  <2>1. state' = "Trees" /\ kind' = 1
    BY <1>2 DEF NextMap
  <2>2. Known(plan)'
    BY <1>2, <2>1 DEF Known
  <2>3. PICK p : p = PlannedTrees(plan)[1]
    OBVIOUS
  <2>4. p - trees'[1] = p
    <3>1. p \in 1..256 /\ trees'[1] = 0
      BY <2>3, PlanNumbers DEF Kinds
    <3> QED
      BY <3>1
  <2>5. r = CodesLeft(plan, 1, p - trees'[1]) \o AfterCodes(plan, 1)
    BY <1>2, <2>3, <2>4 DEF AfterMap, CodesAhead, AllCodes
  <2>6. AheadIs(plan, mode)'
    BY <2>1, <2>3, <2>5 DEF AheadIs
  <2> QED
    BY <2>2, <2>6 DEF PlanFollows
<1> QED
  BY <1>1, <1>2

\* With a map that fits, the header goes on.
LEMMA NextMapKept ==
  ASSUME HeaderTypeOK, Progress, state \in {"TreeCount", "Map"}, NextMap,
         modes' = modes, types' = types, trees' = trees,
         numTrees' \in [Kinds -> 1..256], NEW k, k = kind, MapFits(k)',
         \A j \in {1, 3} : j # k => numTrees'[j] = numTrees[j] /\ maps'[j] = maps[j]
  PROVE  Progress'
<1>1. /\ k \in {1, 3} /\ modes = types[1] /\ Kinds = {1, 2, 3}
      /\ \A j \in Kinds : trees[j] = 0
  BY DEF HeaderTypeOK, Progress, Late, Kinds
<1>2. CASE k = 1
  <2>1. state' = "TreeCount" /\ kind' = 3
    BY <1>2 DEF NextMap
  <2>2. MapFits(1)'
    BY <1>2
  <2> QED
    BY <1>1, <2>1, <2>2 DEF Progress, Early, Late, LastMap
<1>3. CASE k = 3
  <2>1. state' = "Trees" /\ kind' = 1
    BY <1>3 DEF NextMap
  <2>2. MapFits(1)
    BY <1>3 DEF Progress, LastMap
  <2>3. MapFits(1)'
    BY <1>1, <1>3, <2>2 DEF MapFits
  <2>4. MapFits(3)'
    BY <1>3
  <2>5. 0 < TreesDue(1)'
    <3>1. numTrees'[1] \in 1..256
      BY <1>1
    <3> QED
      BY <3>1 DEF TreesDue
  <2>6. \A j \in Kinds : ~(j < 1) /\ (j = 1 => trees'[j] < TreesDue(j)') /\ trees'[j] = 0
    BY <1>1, <2>1, <2>5
  <2> QED
    BY <1>1, <2>1, <2>3, <2>4, <2>6 DEF Progress, Early, Late, LastMap
<1> QED
  BY <1>1, <1>2, <1>3

\* A map of which there is a decoder begins to be read as it was written.
LEMMA MapBegun ==
  ASSUME HeaderTypeOK, NEW k, k = kind, k \in {1, 3}, NEW count \in 1..256,
         state' = "Map", kind' = k, types' = types, numTrees'[k] = count, source' = source,
         decoder' = NewDecoder(MapSize(k), count),
         \/ source = Unknown /\ symbols' = NoSymbols
         \/ \E map, written : /\ source # Unknown /\ symbols' = SymbolsOf(map, written)
                              /\ Wrote(map, written, count) /\ Len(map) = MapSize(k)
  PROVE  DecoderInv'
<1>1. PICK size : size = MapSize(k)
  OBVIOUS
<1>2. size \in Nat \ {0}
  <2>1. types \in [Kinds -> 1..256]
    BY DEF HeaderTypeOK
  <2> QED
    BY <1>1, <2>1, MapSizeIs
<1>3. MapInv'
  BY <1>1, <1>2, MapBegins
<1>4. MapSize(kind)' = size
  BY <1>1 DEF MapSize
<1>5. decoder'.size = size /\ decoder'.trees = count
  BY <1>1 DEF NewDecoder
<1>6. IsSource'
  BY DEF IsSource, NoSymbols, SymbolsOf
<1>7. OfUnknown' <=> source = Unknown
  <2>1. CASE source = Unknown /\ symbols' = NoSymbols
    BY <2>1 DEF OfUnknown, NoSymbols, SymbolsOf
  <2>2. ASSUME NEW map, NEW written, source # Unknown, symbols' = SymbolsOf(map, written),
               Wrote(map, written, count)
        PROVE  symbols'.source # Unknown
    <3>1. symbols'.source = map
      BY <2>2 DEF SymbolsOf
    <3>2. map \in Seq(0..(count - 1)) /\ map # <<>>
      BY <2>2 DEF Wrote
    <3>3. map \in Seq(Nat)
      <4>1. PICK T : T = 0..(count - 1)
        OBVIOUS
      <4>2. T \subseteq Nat /\ map \in Seq(T)
        BY <3>2, <4>1
      <4>3. map \in [1..Len(map) -> T] /\ Len(map) \in Nat
        BY <4>2
      <4>4. map \in [1..Len(map) -> Nat]
        BY <4>2, <4>3
      <4> QED
        BY <4>3, <4>4, SeqDef
    <3> QED
      BY <3>1, <3>2, <3>3, HeaderAssumption
  <2> QED
    BY <2>1, <2>2 DEF OfUnknown
<1> QED
  BY <1>3, <1>4, <1>5, <1>6, <1>7 DEF DecoderInv


LEMMA TreeCountStep ==
  ASSUME HeaderInv, NEW value \in 0..(2 ^ counter.width - 1), ReadTreeCount(value)
  PROVE  HeaderInv'
<1>1. HeaderTypeOK /\ Progress /\ DecoderInv /\ StreamInv
  BY DEF HeaderInv
<1>2. /\ state = "TreeCount" /\ Reading(value)
      /\ types' = types /\ postfix' = postfix /\ direct' = direct /\ modes' = modes
      /\ trees' = trees
  BY DEF ReadTreeCount
<1>3. PICK k, count : k = kind /\ count = Count(value) + 1
  OBVIOUS
<1>4. /\ Counted(value) =>
           /\ numTrees' = [numTrees EXCEPT ![k] = count] /\ counter' = FirstBit
           /\ count = 1 => /\ maps' = [maps EXCEPT ![k] = [size |-> MapSize(k), trees |-> 1]]
                           /\ NextMap /\ decoder' = decoder /\ symbols' = symbols
           /\ count # 1 => /\ state' = "Map" /\ decoder' = NewDecoder(MapSize(k), count)
                           /\ symbols' = (IF source = Unknown THEN NoSymbols ELSE stream[next'].value)
                           /\ kind' = k /\ maps' = maps
      /\ ~ Counted(value) =>
           /\ counter' = CountOn(value) /\ state' = state /\ kind' = k /\ numTrees' = numTrees
           /\ maps' = maps /\ decoder' = decoder /\ symbols' = symbols
  BY <1>3 DEF ReadTreeCount, mapVars
<1>5. /\ k \in {1, 3} /\ k \in Kinds /\ Kinds = {1, 2, 3} /\ numTrees \in [Kinds -> 1..256]
      /\ maps \in [{1, 3} -> [size : Nat, trees : Nat]] /\ CounterTypeOK
  BY <1>1, <1>2, <1>3 DEF HeaderTypeOK, Kinds
<1>6. (Counted(value) => count \in 1..256) /\ (~ Counted(value) => CounterTypeOK')
  <2>1. Counted(value) => Count(value) \in 0..255
    BY <1>5, CountIs
  <2>2. ~ Counted(value) => CounterTypeOK'
    BY <1>4, <1>5, CountIs
  <2>3. PICK n : n = Count(value)
    OBVIOUS
  <2>4. n \in 0..255 => n + 1 \in 1..256
    OBVIOUS
  <2> QED
    BY <1>3, <2>1, <2>2, <2>3, <2>4
<1>7. /\ kind' \in Kinds /\ state' \in {"TreeCount", "Map", "Trees"}
      /\ state' # "TreeCount" => counter' = FirstBit
      /\ state' \in {"TreeCount", "Map"} => kind' \in {1, 3}
  BY <1>2, <1>4, <1>5 DEF NextMap
<1>8. MapSize(k) \in Nat \ {0} /\ MapSize(k) = Contexts(k) * types[k]
  <2>1. types \in [Kinds -> 1..256]
    BY <1>1 DEF HeaderTypeOK
  <2> QED
    BY <1>5, <2>1, MapSizeIs
<1>9. numTrees' \in [Kinds -> 1..256] /\ maps' \in [{1, 3} -> [size : Nat, trees : Nat]]
  BY <1>4, <1>5, <1>6, <1>8
<1>10. HeaderTypeOK'
  <2>1. CounterTypeOK'
    BY <1>4, <1>6 DEF CounterTypeOK
  <2> QED
    BY <1>1, <1>2, <1>7, <1>9, <2>1 DEF HeaderTypeOK, Late
<1>11. ReadOn
  BY <1>2 DEF Reading
<1>12. /\ modes = types[1] /\ (\A j \in Kinds : trees[j] = 0)
       /\ decoder = NoDecoder /\ symbols = NoSymbols
  BY <1>1, <1>2 DEF Progress, DecoderInv, Late
<1>13. source' = source
  BY <1>11 DEF ReadOn
<1>14. ASSUME source # Unknown PROVE StreamInv'
  <2>1. PICK plan, mode : plan \in Plans /\ plan = source /\ PlanFollows(plan, mode)
    BY <1>1, <1>14 DEF StreamInv
  <2>2. PICK rest, p : rest = MapAhead(plan, k) /\ p = PlannedTrees(plan)[k]
    OBVIOUS
  <2>3. PICK v, r : Counts(p - 1, v, r, rest)
    BY <1>1, <1>2, <1>3, <2>1, <2>2, TreeCountComes
  <2>4. value = v /\ Ahead(r)'
    BY <1>2, <1>14, <2>3, ComesIs DEF Counts
  <2>5. /\ postfix = plan.postfix /\ direct = plan.direct
        /\ \A j \in Kinds : types[j] = plan.types[j]
    BY <1>2, <2>1 DEF PlanFollows, Known, Late
  <2>6. k = 3 => numTrees[1] = PlannedTrees(plan)[1]
    BY <1>2, <1>3, <2>1 DEF PlanFollows, Known, LastMap
  <2>7. p \in 1..256
    BY <1>5, <2>1, <2>2, PlanNumbers
  <2>8. Counted(value) => count = p /\ r = rest
    BY <1>3, <2>3, <2>4, <2>7 DEF Counts
  <2>9. source' = plan /\ state' # "error"
    BY <1>7, <1>13, <2>1
  <2>10. Counted(value) => numTrees'[k] = p /\ numTrees'[1] = PlannedTrees(plan)[1]
    BY <1>4, <1>5, <2>2, <2>6, <2>8
  <2>11. CASE ~ Counted(value)
    <3>1. PICK c : c = CountOn(v)
      OBVIOUS
    <3>2. CounterFits(c, p - 1) /\ r = VarRest(c, p - 1) \o rest
      BY <2>3, <2>4, <2>11, <3>1 DEF Counts
    <3>3. counter' = c /\ state' = "TreeCount" /\ kind' = k /\ numTrees' = numTrees
      BY <1>2, <1>4, <2>4, <2>11, <3>1
    <3>4. AheadIs(plan, mode)'
      BY <2>2, <2>4, <3>2, <3>3 DEF AheadIs
    <3>5. Known(plan)'
      BY <1>2, <2>5, <2>6, <3>3 DEF Known, LastMap
    <3> QED
      BY <2>1, <2>9, <3>4, <3>5, StreamKept DEF PlanFollows
  <2>12. CASE Counted(value) /\ count = 1
    <3>1. MapPart(plan, k) = <<>> /\ r = AfterMap(plan, k)
      <4>1. MapPart(plan, k) = <<>>
        BY <2>2, <2>8, <2>12 DEF MapPart
      <4>2. PICK after : after = AfterMap(plan, k)
        OBVIOUS
      <4>3. IsList(after)
        BY <1>5, <2>1, <4>2, RestsAreLists
      <4>4. <<>> \o after = after
        BY <4>3, ListConcat
      <4>5. MapAhead(plan, 3) = MapPart(plan, 3) \o AfterMap(plan, 3)
        BY DEF MapAhead, AfterMap
      <4>6. MapAhead(plan, 1) = MapPart(plan, 1) \o AfterMap(plan, 1)
        BY DEF MapAhead, AfterMap
      <4> QED
        BY <1>5, <2>2, <2>8, <2>12, <4>1, <4>2, <4>4, <4>5, <4>6
    <3>2. PlanFollows(plan, mode)'
      BY <1>2, <1>3, <1>4, <1>5, <1>12, <2>1, <2>2, <2>4, <2>5, <2>10, <2>12, <3>1, MapNext
    <3> QED
      BY <2>1, <2>9, <3>2, StreamKept
  <2>13. CASE Counted(value) /\ count # 1
    <3>1. Ahead(MapAhead(plan, k))' /\ p # 1 /\ count = p
      BY <2>2, <2>4, <2>8, <2>13
    <3>2. AheadIs(plan, mode)'
      BY <1>4, <2>2, <2>13, <3>1 DEF AheadIs
    <3>3. Known(plan)'
      BY <1>2, <1>4, <2>2, <2>5, <2>10, <2>13 DEF Known, LastMap
    <3> QED
      BY <2>1, <2>9, <3>2, <3>3, StreamKept DEF PlanFollows
  <2> QED
    BY <2>11, <2>12, <2>13
<1>15. StreamInv'
  BY <1>11, <1>14, UnknownKept
<1>16. CASE ~ Counted(value)
  <2>1. state' = "TreeCount" /\ kind' = k /\ numTrees' = numTrees /\ maps' = maps
    BY <1>2, <1>4, <1>16
  <2>2. DecoderInv'
    BY <1>4, <1>12, <1>16, <2>1
       DEF DecoderInv, NoDecoder, NewDecoder, NoSymbols, SymbolsOf, NothingWritten
  <2>3. LastMap' => LastMap /\ MapFits(1)
    BY <1>1, <1>2, <1>3, <2>1 DEF LastMap, Progress
  <2>4. MapFits(1) => MapFits(1)'
    BY <1>2, <2>1 DEF MapFits
  <2>5. Progress'
    BY <1>2, <1>12, <2>1, <2>3, <2>4 DEF Progress, Early, Late
  <2> QED
    BY <1>10, <1>15, <2>2, <2>5 DEF HeaderInv
<1>17. CASE Counted(value) /\ count = 1
  <2>1. /\ NextMap /\ decoder' = NoDecoder /\ symbols' = NoSymbols
        /\ numTrees' = [numTrees EXCEPT ![k] = 1]
        /\ maps' = [maps EXCEPT ![k] = [size |-> MapSize(k), trees |-> 1]]
    BY <1>4, <1>12, <1>17
  <2>2. DecoderInv'
    <3>1. state' # "Map"
      BY <2>1 DEF NextMap
    <3> QED
      BY <2>1, <3>1 DEF DecoderInv, NoDecoder, NewDecoder, NoSymbols, SymbolsOf, NothingWritten
  <2>3. MapFits(k)'
    <3>1. maps'[k] = [size |-> MapSize(k), trees |-> 1] /\ numTrees'[k] = 1
      BY <1>5, <2>1
    <3>2. MapSize(k) = Contexts(k) * types'[k]
      BY <1>2, <1>8
    <3> QED
      BY <3>1, <3>2 DEF MapFits
  <2>4. \A j \in {1, 3} : j # k => numTrees'[j] = numTrees[j] /\ maps'[j] = maps[j]
    BY <1>5, <2>1
  <2>5. Progress'
    BY <1>1, <1>2, <1>3, <1>9, <2>1, <2>3, <2>4, NextMapKept
  <2> QED
    BY <1>10, <1>15, <2>2, <2>5 DEF HeaderInv
<1>18. CASE Counted(value) /\ count # 1
  <2>1. /\ state' = "Map" /\ decoder' = NewDecoder(MapSize(k), count) /\ kind' = k /\ maps' = maps
        /\ numTrees' = [numTrees EXCEPT ![k] = count] /\ count \in 1..256
        /\ symbols' = (IF source = Unknown THEN NoSymbols ELSE stream[next'].value)
    BY <1>4, <1>6, <1>18
  <2>2. numTrees'[k] = count
    BY <1>5, <2>1
  <2>3. ASSUME source # Unknown
        PROVE  \E map, written : /\ symbols' = SymbolsOf(map, written)
                                /\ Wrote(map, written, count) /\ Len(map) = MapSize(k)
    <3>1. PICK plan, mode : plan \in Plans /\ plan = source' /\ PlanFollows(plan, mode)'
      BY <1>13, <1>14, <2>3 DEF StreamInv
    <3>2. PICK map, written, p : /\ map = PlannedMap(plan, k) /\ written = MapWritten(plan, k)
                                 /\ p = PlannedTrees(plan)[k]
      OBVIOUS
    <3>3. p = count /\ types[k] = plan.types[k]
      BY <1>2, <1>5, <2>1, <2>2, <3>1, <3>2 DEF PlanFollows, Known
    <3>4. Wrote(map, written, p) /\ Len(map) = plan.types[k] * Contexts(k)
      BY <1>5, <3>1, <3>2, MapIsPlanned
    <3>5. PICK f, r : f = MapField(plan, k) /\ r = AfterMap(plan, k)
      OBVIOUS
    <3>6. Ahead(MapAhead(plan, k))' /\ MapAhead(plan, k) = <<f>> \o r
      <4>1. MapPart(plan, k) = <<f>>
        BY <1>18, <3>2, <3>3, <3>5 DEF MapPart
      <4>2. Ahead(MapAhead(plan, k))'
        BY <2>1, <3>1 DEF PlanFollows, AheadIs
      <4>3. MapAhead(plan, 3) = MapPart(plan, 3) \o AfterMap(plan, 3)
        BY DEF MapAhead, AfterMap
      <4>4. MapAhead(plan, 1) = MapPart(plan, 1) \o AfterMap(plan, 1)
        BY DEF MapAhead, AfterMap
      <4> QED
        BY <1>5, <3>5, <4>1, <4>2, <4>3, <4>4
    <3>7. f.value = SymbolsOf(map, written)
      BY <3>2, <3>5 DEF MapField, Field
    <3>8. stream'[next'] = f
      <4>1. IsList(r)
        BY <1>5, <3>1, <3>5, RestsAreLists
      <4>2. PICK all : all = <<f>> \o r
        OBVIOUS
      <4>3. Len(all) \in Nat /\ 1 <= Len(all) /\ all[1] = f
        <5>1. PICK S : r \in Seq(S)
          BY <4>1 DEF IsList
        <5>2. PICK T, one : T = S \cup {f} /\ one = <<f>>
          OBVIOUS
        <5>3. r \in Seq(T) /\ one \in Seq(T) /\ Len(one) = 1 /\ one[1] = f
          BY <5>1, <5>2
        <5>4. Len(all) = 1 + Len(r) /\ all[1] = one[1]
          BY <4>2, <5>2, <5>3, ConcatProperties
        <5> QED
          BY <5>3, <5>4
      <4>4. next' \in Nat /\ \A i \in 1..Len(all) : stream'[next' - 1 + i] = all[i]
        BY <3>6, <4>2 DEF Ahead
      <4>5. stream'[next' - 1 + 1] = all[1]
        BY <4>3, <4>4
      <4>6. next' - 1 + 1 = next'
        BY <4>4
      <4> QED
        BY <4>3, <4>5, <4>6
    <3>9. symbols' = SymbolsOf(map, written)
      BY <1>11, <2>1, <2>3, <3>7, <3>8 DEF ReadOn
    <3>10. Len(map) = MapSize(k)
      BY <3>3, <3>4 DEF MapSize
    <3> QED
      BY <3>3, <3>4, <3>9, <3>10
  <2>4. DecoderInv'
    BY <1>1, <1>2, <1>3, <1>5, <1>13, <2>1, <2>2, <2>3, MapBegun
  <2>5. LastMap' => LastMap /\ MapFits(1) /\ k # 1
    BY <1>1, <1>2, <1>3, <2>1 DEF LastMap, Progress
  <2>6. k # 1 /\ MapFits(1) => MapFits(1)'
    BY <1>2, <1>5, <2>1 DEF MapFits
  <2>7. Progress'
    BY <1>2, <1>12, <2>1, <2>5, <2>6 DEF Progress, Early, Late
  <2> QED
    BY <1>10, <1>15, <2>4, <2>7 DEF HeaderInv
<1> QED
  BY <1>16, <1>17, <1>18

LEMMA MapReadStep ==
  ASSUME HeaderInv, ReadMap
  PROVE  HeaderInv'
<1>1. HeaderTypeOK /\ Progress /\ DecoderInv /\ StreamInv
  BY DEF HeaderInv
<1>2. /\ state = "Map" /\ DecodeMap /\ state' = state /\ kind' = kind /\ counter' = counter
      /\ types' = types /\ postfix' = postfix /\ direct' = direct /\ modes' = modes
      /\ numTrees' = numTrees /\ maps' = maps /\ trees' = trees
      /\ source' = source /\ stream' = stream /\ next' = next
  BY DEF ReadMap, part, header, fields
<1>3. HeaderTypeOK'
  BY <1>1, <1>2 DEF HeaderTypeOK, CounterTypeOK
<1>4. Progress'
  BY <1>1, <1>2 DEF Progress, LastMap, MapFits, TreesDue
<1>5. DecoderInv'
  <2>1. /\ MapInv /\ IsSource /\ decoder.size = MapSize(kind)
        /\ decoder.trees = numTrees[kind] /\ (OfUnknown <=> source = Unknown)
    BY <1>1, <1>2 DEF DecoderInv
  <2>2. MapInv' /\ Same /\ IsSource'
    BY <1>2, <2>1, DecodeMapStep DEF MapStep
  <2>3. OfUnknown' <=> OfUnknown
    BY <2>2 DEF Same, OfUnknown
  <2>4. MapSize(kind)' = MapSize(kind)
    BY <1>2 DEF MapSize
  <2> QED
    BY <1>2, <2>1, <2>2, <2>3, <2>4 DEF DecoderInv, Same
<1>6. StreamInv'
  <2>1. ASSUME source # Unknown PROVE StreamInv'
    <3>1. PICK plan, mode : plan \in Plans /\ plan = source /\ PlanFollows(plan, mode)
      BY <1>1, <2>1 DEF StreamInv
    <3>2. PICK rest, k : k = kind /\ rest = MapAhead(plan, k)
      OBVIOUS
    <3>3. PlannedTrees(plan)[k] # 1 /\ Ahead(rest)
      BY <1>2, <3>1, <3>2 DEF PlanFollows, AheadIs
    <3>4. Ahead(rest)'
      BY <1>2, <3>3 DEF Ahead
    <3>5. AheadIs(plan, mode)'
      BY <1>2, <3>2, <3>3, <3>4 DEF AheadIs
    <3>6. Known(plan)'
      BY <1>2, <3>1 DEF PlanFollows, Known, LastMap
    <3> QED
      BY <1>2, <3>1, <3>5, <3>6, StreamKept DEF PlanFollows
  <2> QED
    BY <1>2, <2>1 DEF StreamInv
<1> QED
  BY <1>3, <1>4, <1>5, <1>6 DEF HeaderInv

LEMMA TakeMapStep ==
  ASSUME HeaderInv, TakeMap
  PROVE  HeaderInv'
<1>1. HeaderTypeOK /\ Progress /\ DecoderInv /\ StreamInv
  BY DEF HeaderInv
<1>2. PICK k, map : k = kind /\ map = decoder.map
  OBVIOUS
<1>3. /\ state = "Map" /\ decoder.state = "Done" /\ decoder' = NoDecoder /\ symbols' = NoSymbols
      /\ maps' = [maps EXCEPT ![k] = [size |-> Len(map), trees |-> Max(ToSet(map)) + 1]]
      /\ NextMap /\ ReadOn /\ counter' = counter /\ types' = types /\ postfix' = postfix
      /\ direct' = direct /\ modes' = modes /\ numTrees' = numTrees /\ trees' = trees
  BY <1>2 DEF TakeMap
<1>4. /\ k \in {1, 3} /\ k \in Kinds /\ Kinds = {1, 2, 3} /\ numTrees \in [Kinds -> 1..256]
      /\ maps \in [{1, 3} -> [size : Nat, trees : Nat]] /\ counter = FirstBit
  BY <1>1, <1>2, <1>3 DEF HeaderTypeOK, Kinds
<1>5. /\ Len(map) = MapSize(k) /\ Len(map) \in Nat \ {0} /\ map \in Seq(Nat)
      /\ ToSet(map) \subseteq 0..(numTrees[k] - 1)
  <2>1. MapInv /\ decoder.size = MapSize(k) /\ decoder.trees = numTrees[k]
    BY <1>1, <1>2, <1>3 DEF DecoderInv
  <2>2. MapIsWhole
    BY <2>1, InvIsWhole
  <2>3. Len(map) = decoder.size /\ ToSet(map) \subseteq 0..(decoder.trees - 1)
    BY <1>2, <1>3, <2>2 DEF MapIsWhole
  <2>4. decoder.size \in Nat \ {0} /\ map \in Seq(Nat)
    BY <1>2, <2>1 DEF MapInv, MapTypeOK, Decoders
  <2> QED
    BY <2>1, <2>3, <2>4
<1>6. PICK last : last = Max(ToSet(map))
  OBVIOUS
<1>7. last \in 0..(numTrees[k] - 1)
  <2>1. PICK n, S : n = numTrees[k] - 1 /\ S = ToSet(map)
    OBVIOUS
  <2>2. n \in Nat
    <3>1. PICK m : m = numTrees[k]
      OBVIOUS
    <3>2. m \in 1..256
      BY <1>4, <3>1
    <3> QED
      BY <2>1, <3>1, <3>2
  <2>3. S \in SUBSET (0..n) /\ S # {}
    <3>1. map[1] \in ToSet(map)
      BY <1>5 DEF ToSet
    <3> QED
      BY <1>5, <2>1, <3>1
  <2>4. last \in S
    BY <1>6, <2>1, <2>2, <2>3, MaxIs
  <2> QED
    BY <2>1, <2>3, <2>4
<1>8. last + 1 \in Nat /\ last + 1 <= numTrees[k]
  <2>1. PICK m : m = numTrees[k]
    OBVIOUS
  <2>2. m \in 1..256 /\ last \in 0..(m - 1)
    BY <1>4, <1>7, <2>1
  <2> QED
    BY <2>1, <2>2
<1>9. maps' \in [{1, 3} -> [size : Nat, trees : Nat]]
  <2>1. [size |-> Len(map), trees |-> last + 1] \in [size : Nat, trees : Nat]
    BY <1>5, <1>8
  <2> QED
    BY <1>3, <1>4, <1>6, <2>1
<1>10. kind' \in {1, 3} /\ state' \in {"TreeCount", "Trees"}
  BY <1>3 DEF NextMap
<1>11. HeaderTypeOK'
  BY <1>1, <1>3, <1>4, <1>9, <1>10 DEF HeaderTypeOK, CounterTypeOK, Late
<1>12. DecoderInv'
  BY <1>3, <1>10 DEF DecoderInv, NoDecoder, NewDecoder, NoSymbols, SymbolsOf, NothingWritten
<1>13. Progress'
  <2>1. MapFits(k)'
    <3>1. maps'[k] = [size |-> Len(map), trees |-> last + 1]
      BY <1>3, <1>4, <1>6
    <3>2. MapSize(k) = Contexts(k) * types[k]
      <4>1. types \in [Kinds -> 1..256]
        BY <1>1 DEF HeaderTypeOK
      <4> QED
        BY <1>4, <4>1, MapSizeIs
    <3>3. Len(map) = Contexts(k) * types'[k]
      BY <1>3, <1>5, <3>2
    <3> QED
      BY <1>3, <1>8, <3>1, <3>3 DEF MapFits
  <2>2. \A j \in {1, 3} : j # k => numTrees'[j] = numTrees[j] /\ maps'[j] = maps[j]
    BY <1>3, <1>4
  <2>3. numTrees' \in [Kinds -> 1..256]
    BY <1>3, <1>4
  <2> QED
    BY <1>1, <1>2, <1>3, <2>1, <2>2, <2>3, NextMapKept
<1>14. StreamInv'
  <2>1. ASSUME source # Unknown PROVE StreamInv'
    <3>1. PICK plan, mode : plan \in Plans /\ plan = source /\ PlanFollows(plan, mode)
      BY <1>1, <2>1 DEF StreamInv
    <3>2. PICK r, v : /\ r = AfterMap(plan, k)
                      /\ v = SymbolsOf(PlannedMap(plan, k), MapWritten(plan, k))
      OBVIOUS
    <3>3. Comes(v, r)
      BY <1>1, <1>2, <1>3, <3>1, <3>2, MapComes
    <3>4. Ahead(r)'
      BY <1>3, <2>1, <3>3, ComesRead
    <3>5. /\ postfix = plan.postfix /\ direct = plan.direct
          /\ \A j \in Kinds : types[j] = plan.types[j]
          /\ numTrees[k] = PlannedTrees(plan)[k]
          /\ k = 3 => numTrees[1] = PlannedTrees(plan)[1]
      BY <1>2, <1>3, <3>1 DEF PlanFollows, Known, Late, LastMap
    <3>6. \A j \in Kinds : trees[j] = 0
      BY <1>1, <1>3 DEF Progress
    <3>7. numTrees'[kind] = PlannedTrees(plan)[kind] /\ numTrees'[1] = PlannedTrees(plan)[1]
      BY <1>2, <1>3, <1>4, <3>5
    <3>8. PlanFollows(plan, mode)'
      BY <1>2, <1>3, <1>4, <3>1, <3>2, <3>4, <3>5, <3>6, <3>7, MapNext
    <3>9. source' = plan /\ state' # "error"
      BY <1>3, <1>10, <3>1 DEF ReadOn
    <3> QED
      BY <3>1, <3>8, <3>9, StreamKept
  <2> QED
    BY <1>3, <2>1, UnknownKept
<1> QED
  BY <1>11, <1>12, <1>13, <1>14 DEF HeaderInv

LEMMA TreeStep ==
  ASSUME HeaderInv, ReadTree
  PROVE  HeaderInv'
<1>1. HeaderTypeOK /\ Progress /\ DecoderInv /\ StreamInv
  BY DEF HeaderInv
<1>2. PICK k, n, due : k = kind /\ n = trees[kind] + 1 /\ due = TreesDue(kind)
  OBVIOUS
<1>3. /\ state = "Trees" /\ Reading(0) /\ trees' = [trees EXCEPT ![k] = n]
      /\ counter' = counter /\ types' = types /\ postfix' = postfix /\ direct' = direct
      /\ modes' = modes /\ numTrees' = numTrees /\ maps' = maps
      /\ decoder' = decoder /\ symbols' = symbols
  BY <1>2 DEF ReadTree, header, mapVars
<1>4. /\ k \in Kinds /\ Kinds = {1, 2, 3} /\ trees \in [Kinds -> Nat] /\ counter = FirstBit
      /\ numTrees \in [Kinds -> 1..256] /\ types \in [Kinds -> 1..256]
  BY <1>1, <1>2, <1>3 DEF HeaderTypeOK, Kinds
<1>5. n \in Nat /\ trees'[k] = n /\ \A j \in Kinds : j # k => trees'[j] = trees[j]
  BY <1>2, <1>3, <1>4
<1>6. /\ n < due => state' = "Trees" /\ kind' = k
      /\ ~(n < due) /\ k < 3 => state' = "Trees" /\ kind' = k + 1
      /\ ~(n < due) /\ ~(k < 3) => state' = "Data" /\ kind' = k
  BY <1>2, <1>3, <1>5 DEF ReadTree
<1>7. \A j \in Kinds : TreesDue(j)' = TreesDue(j) /\ TreesDue(j) \in 1..256
  BY <1>3, <1>4 DEF TreesDue
<1>8. kind' \in Kinds /\ state' \in {"Trees", "Data"}
  BY <1>4, <1>6
<1>9. HeaderTypeOK'
  <2>1. trees' \in [Kinds -> Nat]
    BY <1>3, <1>4, <1>5
  <2> QED
    BY <1>1, <1>3, <1>4, <1>8, <2>1 DEF HeaderTypeOK, CounterTypeOK, Late
<1>10. DecoderInv'
  BY <1>1, <1>3, <1>8 DEF DecoderInv, NoDecoder, NewDecoder, NoSymbols, SymbolsOf, NothingWritten
<1>11. /\ modes = types[1] /\ MapFits(1) /\ MapFits(3) /\ due \in 1..256 /\ n <= due
       /\ \A j \in Kinds : j < k => trees[j] = TreesDue(j)
       /\ \A j \in Kinds : j > k => trees[j] = 0
  <2>1. /\ modes = types[1] /\ MapFits(1) /\ MapFits(3) /\ trees[k] < TreesDue(k)
        /\ \A j \in Kinds : j < k => trees[j] = TreesDue(j)
        /\ \A j \in Kinds : j > k => trees[j] = 0
    BY <1>1, <1>2, <1>3, <1>4 DEF Progress, Late
  <2>2. due \in 1..256
    BY <1>2, <1>4, <1>7
  <2>3. PICK t : t = trees[k]
    OBVIOUS
  <2>4. t \in Nat /\ n = t + 1 /\ t < due
    BY <1>2, <1>4, <2>1, <2>3
  <2>5. n <= due
    BY <2>2, <2>4
  <2> QED
    BY <2>1, <2>2, <2>5
<1>12. Progress'
  <2>1. MapFits(1)' /\ MapFits(3)'
    BY <1>3, <1>11 DEF MapFits
  <2>2. ASSUME state' = "Trees"
        PROVE  \A j \in Kinds : /\ j < kind' => trees'[j] = TreesDue(j)'
                                /\ j = kind' => trees'[j] < TreesDue(j)'
                                /\ j > kind' => trees'[j] = 0
    <3>1. CASE n < due
      BY <1>2, <1>4, <1>5, <1>6, <1>7, <1>11, <3>1
    <3>2. CASE ~(n < due)
      <4>1. k < 3 /\ kind' = k + 1 /\ n = due
        BY <1>4, <1>5, <1>6, <1>11, <2>2, <3>2
      <4> QED
        BY <1>2, <1>4, <1>5, <1>7, <1>11, <4>1
    <3> QED
      BY <3>1, <3>2
  <2>3. ASSUME state' = "Data" PROVE \A j \in Kinds : trees'[j] = TreesDue(j)'
    <3>1. k = 3 /\ n = due
      BY <1>4, <1>5, <1>6, <1>11, <2>3
    <3> QED
      BY <1>2, <1>4, <1>5, <1>7, <1>11, <3>1
  <2> QED
    BY <1>3, <1>8, <1>11, <2>1, <2>2, <2>3 DEF Progress, Early, Late, LastMap
<1>13. StreamInv'
  <2>1. ReadOn
    BY <1>3 DEF Reading
  <2>2. ASSUME source # Unknown PROVE StreamInv'
    <3>1. PICK plan, mode : plan \in Plans /\ plan = source /\ PlanFollows(plan, mode)
      BY <1>1, <2>2 DEF StreamInv
    <3>2. PICK p, left, rest, r : /\ p = PlannedTrees(plan)[k] /\ left = p - n
                                  /\ rest = AfterCodes(plan, k)
                                  /\ r = CodesLeft(plan, k, left) \o rest
      OBVIOUS
    <3>3. due = p /\ Comes(0, r)
      BY <1>1, <1>2, <1>3, <3>1, <3>2, TreeComes
    <3>4. Ahead(r)'
      BY <1>3, <2>2, <3>3, ComesIs
    <3>5. Known(plan)'
      BY <1>3, <1>8, <3>1 DEF PlanFollows, Known, LastMap, Late
    <3>6. AheadIs(plan, mode)'
      <4>1. CASE n < due
        BY <1>5, <1>6, <3>2, <3>4, <4>1 DEF AheadIs
      <4>2. CASE ~(n < due)
        <5>1. left = 0
          BY <1>5, <1>11, <3>2, <3>3, <4>2
        <5>2. r = rest
          <6>1. CodesLeft(plan, k, 0) = <<>>
            BY DEF CodesLeft, Times
          <6>2. IsList(rest)
            BY <1>4, <3>1, <3>2, RestsAreLists
          <6>3. <<>> \o rest = rest
            BY <6>2, ListConcat
          <6> QED
            BY <3>2, <5>1, <6>1, <6>3
        <5>3. CASE k = 3
          <6>1. state' = "Data" /\ rest = <<>>
            BY <1>6, <3>2, <4>2, <5>3 DEF AfterCodes
          <6> QED
            BY <3>4, <5>2, <6>1 DEF AheadIs
        <5>4. CASE k < 3
          <6>1. PICK h : h = k + 1
            OBVIOUS
          <6>2. state' = "Trees" /\ kind' = h /\ h \in Kinds /\ h # k
            BY <1>4, <1>6, <4>2, <5>4, <6>1
          <6>3. trees'[h] = 0
            <7>1. h > k
              BY <1>4, <6>1
            <7> QED
              BY <1>5, <1>11, <6>2, <7>1
          <6>4. PICK q : q = PlannedTrees(plan)[h]
            OBVIOUS
          <6>5. q - trees'[h] = q
            <7>1. q \in 1..256
              BY <3>1, <6>2, <6>4, PlanIs
            <7> QED
              BY <6>3, <7>1
          <6>6. rest = AllCodes(plan, h) \o AfterCodes(plan, h)
            <7>1. AfterCodes(plan, 1) = AllCodes(plan, 2) \o AfterCodes(plan, 2)
              BY DEF AfterCodes
            <7>2. AfterCodes(plan, 2) = AllCodes(plan, 3) \o AfterCodes(plan, 3)
              BY DEF AfterCodes
            <7>3. (k = 1 /\ h = 2) \/ (k = 2 /\ h = 3)
              BY <1>4, <5>4, <6>1
            <7> QED
              BY <3>2, <7>1, <7>2, <7>3
          <6>7. r = CodesLeft(plan, h, q - trees'[h]) \o AfterCodes(plan, h)
            BY <5>2, <6>4, <6>5, <6>6 DEF AllCodes
          <6> QED
            BY <3>4, <6>2, <6>4, <6>7 DEF AheadIs
        <5> QED
          BY <1>4, <5>3, <5>4
      <4> QED
        BY <4>1, <4>2
    <3>7. source' = plan /\ state' # "error"
      BY <1>8, <2>1, <3>1 DEF ReadOn
    <3> QED
      BY <3>1, <3>5, <3>6, <3>7, StreamKept DEF PlanFollows
  <2> QED
    BY <2>1, <2>2, UnknownKept
<1> QED
  BY <1>9, <1>10, <1>12, <1>13 DEF HeaderInv

LEMMA RefuseStep ==
  ASSUME HeaderInv, Refuse
  PROVE  HeaderInv'
<1>1. HeaderTypeOK /\ Progress /\ DecoderInv /\ StreamInv
  BY DEF HeaderInv
<1>2. /\ state' = "error" /\ decoder' = NoDecoder /\ symbols' = NoSymbols /\ kind' = kind
      /\ counter' = counter /\ types' = types /\ postfix' = postfix /\ direct' = direct
      /\ modes' = modes /\ numTrees' = numTrees /\ maps' = maps /\ trees' = trees
      /\ source' = source
      /\ \/ source = Unknown /\ state \in {"TypeCode", "LengthCode", "Map", "Trees"}
         \/ decoder.state = "error" /\ state = "Map"
  BY DEF Refuse, header, fields
<1>3. source = Unknown
  <2>1. ASSUME source # Unknown PROVE FALSE
    <3>1. decoder.state = "error" /\ state = "Map"
      BY <1>2, <2>1
    <3>2. MapInv /\ ~ OfUnknown
      BY <1>1, <2>1, <3>1 DEF DecoderInv
    <3> QED
      BY <3>1, <3>2 DEF MapInv, MapFollows, Follows
  <2> QED
    BY <2>1
<1>4. HeaderTypeOK'
  <2>1. counter = FirstBit
    BY <1>1, <1>2 DEF HeaderTypeOK
  <2> QED
    BY <1>1, <1>2, <2>1 DEF HeaderTypeOK, CounterTypeOK
<1>5. Progress' /\ DecoderInv'
  BY <1>2 DEF Progress, Early, Late, LastMap, DecoderInv,
              NoDecoder, NewDecoder, NoSymbols, SymbolsOf, NothingWritten
<1>6. StreamInv'
  BY <1>2, <1>3 DEF StreamInv
<1> QED
  BY <1>4, <1>5, <1>6 DEF HeaderInv

-----------------------------------------------------------------------------
(* Every header. *)

LEMMA HeaderStart == Init => HeaderInv
<1> SUFFICES ASSUME Init PROVE HeaderInv
  OBVIOUS
<1>1. /\ state = "TypeCount" /\ kind = 1 /\ counter = FirstBit
      /\ types = <<1, 1, 1>> /\ postfix = 0 /\ direct = 0 /\ modes = 0
      /\ numTrees = <<1, 1, 1>> /\ maps = [k \in {1, 3} |-> [size |-> 0, trees |-> 0]]
      /\ trees = <<0, 0, 0>> /\ next = 1 /\ decoder = NoDecoder /\ symbols = NoSymbols
  BY DEF Init
<1>2. Kinds = {1, 2, 3} /\ Kinds = 1..3
  BY DEF Kinds
<1>3. HeaderTypeOK
  <2>1. /\ <<1, 1, 1>> \in [Kinds -> 1..256] /\ <<0, 0, 0>> \in [Kinds -> Nat]
    BY <1>2
  <2>2. maps \in [{1, 3} -> [size : Nat, trees : Nat]]
    BY <1>1
  <2> QED
    BY <1>1, <1>2, <2>1, <2>2 DEF HeaderTypeOK, CounterTypeOK, Early, Late
<1>4. Progress
  <2>1. \A j \in Kinds : trees[j] = 0
    BY <1>1, <1>2
  <2> QED
    BY <1>1, <2>1 DEF Progress, Early, Late, LastMap
<1>5. DecoderInv
  BY <1>1 DEF DecoderInv
<1>6. StreamInv
  <2>1. ASSUME source # Unknown PROVE StreamInv
    <3>1. PICK plan : /\ plan \in Plans /\ source = plan
                      /\ \/ stream = WrittenSplit(plan)
                         \/ IsSingle(plan) /\ stream = WrittenSingle(plan)
      BY <2>1 DEF Init
    <3>2. PICK mode : stream = Assembled(plan, mode)
      BY <3>1, WrittenIs
    <3>3. PICK n, s, after, v : /\ n = plan.types[1] /\ s = SplitOf(n) /\ v = VarLen(n - 1)
                                /\ after = AfterPartition(plan, mode, 1)
      OBVIOUS
    <3>4. stream = v \o (s \o after)
      BY <3>1, <3>2, <3>3, AssembledIs
    <3>5. IsList(v) /\ IsList(s) /\ IsList(after)
      BY <1>2, <3>1, <3>3, PartsAreLists, RestsAreLists
    <3>6. IsList(stream)
      <4>1. IsList(s \o after)
        BY <3>5, ListConcat
      <4> QED
        BY <3>4, <3>5, <4>1, ListConcat
    <3>7. Ahead(v \o (s \o after))
      BY <1>1, <3>4, <3>6, AllAhead
    <3>8. VarRest(counter, n - 1) = v /\ CounterFits(counter, n - 1)
      BY <1>1, <3>3 DEF VarRest, FirstBit, CounterFits
    <3>9. AheadIs(plan, mode)
      BY <1>1, <3>3, <3>7, <3>8 DEF AheadIs
    <3>10. Known(plan)
      BY <1>1, <1>2 DEF Known, LastMap, Late
    <3> QED
      BY <1>1, <3>1, <3>9, <3>10 DEF StreamInv, PlanFollows
  <2> QED
    BY <2>1 DEF StreamInv
<1> QED
  BY <1>3, <1>4, <1>5, <1>6 DEF HeaderInv

LEMMA HeaderStutters ==
  ASSUME HeaderInv, UNCHANGED vars
  PROVE  HeaderInv'
<1>1. HeaderTypeOK /\ Progress /\ DecoderInv /\ StreamInv
  BY DEF HeaderInv
<1>2. /\ state' = state /\ kind' = kind /\ counter' = counter
      /\ types' = types /\ postfix' = postfix /\ direct' = direct /\ modes' = modes
      /\ numTrees' = numTrees /\ maps' = maps /\ trees' = trees
      /\ source' = source /\ stream' = stream /\ next' = next
      /\ decoder' = decoder /\ symbols' = symbols
  BY DEF vars, part, header, fields, mapVars
<1>3. HeaderTypeOK'
  BY <1>1, <1>2 DEF HeaderTypeOK, CounterTypeOK
<1>4. Progress'
  BY <1>1, <1>2 DEF Progress, LastMap, MapFits, TreesDue
<1>5. DecoderInv'
  <2>1. MapInv => MapInv'
    BY <1>2 DEF MapInv, MapTypeOK, MapFollows, Follows, OfUnknown
  <2> QED
    BY <1>1, <1>2, <2>1 DEF DecoderInv, IsSource, MapSize, OfUnknown
<1>6. StreamInv'
  <2>1. ASSUME source # Unknown PROVE StreamInv'
    <3>1. PICK plan, mode : plan \in Plans /\ plan = source /\ PlanFollows(plan, mode)
      BY <1>1, <2>1 DEF StreamInv
    <3>2. Known(plan)'
      BY <1>2, <3>1 DEF PlanFollows, Known, LastMap
    <3>3. \A r : Ahead(r) => Ahead(r)'
      BY <1>2 DEF Ahead
    <3>4. AheadIs(plan, mode)'
      BY <1>2, <3>1, <3>3 DEF PlanFollows, AheadIs
    <3>5. state' # "error" /\ source' = plan
      BY <1>1, <1>2, <2>1, <3>1 DEF StreamInv
    <3> QED
      BY <3>1, <3>2, <3>4, <3>5, StreamKept DEF PlanFollows
  <2> QED
    BY <1>2, <2>1 DEF StreamInv
<1> QED
  BY <1>3, <1>4, <1>5, <1>6 DEF HeaderInv

\* Every step keeps it.
LEMMA HeaderStep ==
  ASSUME HeaderInv, [Next]_vars
  PROVE  HeaderInv'
<1>1. ASSUME NEW value \in 0..(2 ^ counter.width - 1), ReadTypeCount(value) PROVE HeaderInv'
  BY <1>1, TypeCountStep
<1>2. ASSUME NEW value \in 0..(2 ^ counter.width - 1), ReadTreeCount(value) PROVE HeaderInv'
  BY <1>2, TreeCountStep
<1>3. CASE ReadPartition
  BY <1>3, PartitionStep
<1>4. CASE ReadMap
  BY <1>4, MapReadStep
<1>5. CASE TakeMap
  BY <1>5, TakeMapStep
<1>6. CASE ReadTree
  BY <1>6, TreeStep
<1>7. CASE Refuse
  BY <1>7, RefuseStep
<1>8. ASSUME NEW value \in 0..3, ReadPostfix(value) PROVE HeaderInv'
  BY <1>8, PostfixStep
<1>9. ASSUME NEW value \in 0..3, ReadMode(value) PROVE HeaderInv'
  BY <1>9, ModeStep
<1>10. ASSUME NEW value \in 0..15, ReadDirect(value) PROVE HeaderInv'
  BY <1>10, DirectStep
<1>11. CASE UNCHANGED vars
  BY <1>11, HeaderStutters
<1> QED
  BY <1>1, <1>2, <1>3, <1>4, <1>5, <1>6, <1>7, <1>8, <1>9, <1>10, <1>11 DEF Next

\* A context map that an encoder wrote is read back as it was, and of any
\* symbols a map is made that is whole and names only trees there are, whatever
\* its size and its trees, the longest run a symbol may stand for, and the header
\* around it (write_context_map, write_trivial_context_map, ContextMapDecoder).
THEOREM MapsAreWhole == Spec => []MapIsWhole
<1>1. HeaderInv => MapIsWhole
  <2> SUFFICES ASSUME HeaderInv PROVE MapIsWhole
    OBVIOUS
  <2>1. CASE state = "Map"
    BY <2>1, InvIsWhole DEF HeaderInv, DecoderInv
  <2>2. CASE state # "Map"
    <3>1. decoder = NoDecoder /\ symbols = NoSymbols
      BY <2>2 DEF HeaderInv, DecoderInv
    <3>2. OfUnknown /\ decoder.size = 0 /\ decoder.map = <<>> /\ decoder.state = "None"
      BY <3>1 DEF OfUnknown, NoDecoder, NewDecoder, NoSymbols, SymbolsOf
    <3> QED
      BY <3>2 DEF MapIsWhole
  <2> QED
    BY <2>1, <2>2
<1> QED
  BY <1>1, HeaderStart, HeaderStep, PTL DEF Spec

\* What the decoder reads before the data of a metablock is, field by field and
\* to the last, what the encoder wrote of any plan; and whatever it reads, the
\* data is begun with a mode for each literal type, a map entry for each type and
\* context and a tree for all that these name, for any number of contexts and any
\* plans (CompressedHeaderDecoder, CompressedTreesDecoder, write_split,
\* write_single).
THEOREM PartsAreFit == Spec => []PartsFit
<1>1. HeaderInv => PartsFit
  <2> SUFFICES ASSUME HeaderInv PROVE PartsFit
    OBVIOUS
  <2>1. HeaderTypeOK /\ Progress /\ StreamInv
    BY DEF HeaderInv
  <2>2. ASSUME source # Unknown, state # "Data" PROVE AtDue
    <3>1. PICK plan, mode : plan \in Plans /\ plan = source /\ PlanFollows(plan, mode)
      BY <2>1, <2>2 DEF StreamInv
    <3>2. \E v, r : Comes(v, r)
      <4>1. CASE state = "TypeCount"
        BY <2>1, <3>1, <4>1, TypeCountComes DEF Counts
      <4>2. CASE state \in {"TypeCode", "LengthCode", "FirstLength"}
        BY <2>1, <3>1, <4>2, PartitionComes
      <4>3. CASE state \in {"Postfix", "Direct"}
        BY <3>1, <4>3, ParameterComes
      <4>4. CASE state = "Mode"
        BY <2>1, <3>1, <4>4, ModeComes
      <4>5. CASE state = "TreeCount"
        BY <2>1, <3>1, <4>5, TreeCountComes DEF Counts
      <4>6. CASE state = "Map"
        BY <2>1, <3>1, <4>6, MapComes
      <4>7. CASE state = "Trees"
        BY <2>1, <3>1, <4>7, TreeComes
      <4>8. state # "error"
        BY <2>1, <2>2 DEF StreamInv
      <4> QED
        BY <2>1, <2>2, <4>1, <4>2, <4>3, <4>4, <4>5, <4>6, <4>7, <4>8
           DEF HeaderTypeOK, Early, Late
    <3> QED
      BY <3>2, ComesDue
  <2>3. ASSUME state = "Data"
        PROVE  /\ modes = types[1] /\ types[2] <= trees[2]
               /\ maps[1].size = Contexts(1) * types[1] /\ maps[1].trees <= trees[1]
               /\ maps[3].size = Contexts(3) * types[3] /\ maps[3].trees <= trees[3]
    <3>1. /\ modes = types[1] /\ MapFits(1) /\ MapFits(3)
          /\ \A j \in Kinds : trees[j] = TreesDue(j)
      BY <2>1, <2>3 DEF Progress, Late
    <3>2. trees[1] = numTrees[1] /\ trees[2] = types[2] /\ trees[3] = numTrees[3]
      BY <3>1 DEF TreesDue, Kinds
    <3>3. types[2] \in 1..256
      BY <2>1 DEF HeaderTypeOK, Kinds
    <3> QED
      BY <3>1, <3>2, <3>3 DEF MapFits
  <2>4. ASSUME source # Unknown, state = "Data"
        PROVE  /\ next = Len(stream) + 1 /\ trees = PlannedTrees(source)
               /\ <<types, postfix, direct>> = <<source.types, source.postfix, source.direct>>
    <3>1. PICK plan, mode : plan \in Plans /\ plan = source /\ PlanFollows(plan, mode)
      BY <2>1, <2>4 DEF StreamInv
    <3>2. Ahead(<<>>)
      BY <2>4, <3>1 DEF PlanFollows, AheadIs
    <3>3. next = Len(stream) + 1
      BY <3>2 DEF Ahead
    <3>4. /\ postfix = plan.postfix /\ direct = plan.direct
          /\ \A j \in Kinds : types[j] = plan.types[j]
          /\ numTrees[1] = PlannedTrees(plan)[1] /\ numTrees[3] = PlannedTrees(plan)[3]
      BY <2>4, <3>1 DEF PlanFollows, Known, Late
    <3>5. types = plan.types
      <4>1. types \in [Kinds -> 1..256] /\ plan.types \in [Kinds -> 1..256]
        BY <2>1, <3>1, PlanIs DEF HeaderTypeOK
      <4> QED
        BY <3>4, <4>1
    <3>6. trees = PlannedTrees(plan)
      <4>1. PICK p : p = PlannedTrees(plan)
        OBVIOUS
      <4>2. trees \in [Kinds -> Nat] /\ p \in [Kinds -> 1..256] /\ Kinds = {1, 2, 3}
        <5>1. trees \in [Kinds -> Nat]
          BY <2>1 DEF HeaderTypeOK
        <5>2. p \in [Kinds -> 1..256]
          BY <3>1, <4>1, PlanIs
        <5>3. Kinds = {1, 2, 3}
          BY DEF Kinds
        <5> QED
          BY <5>1, <5>2, <5>3
      <4>3. p[2] = plan.types[2]
        <5>1. PICK x, y, z : x = plan.types[1] * plan.contexts /\ y = plan.types[2] /\ z = plan.types[3]
          OBVIOUS
        <5>2. p = <<x, y, z>>
          BY <3>1, <4>1, <5>1, PlanIs
        <5> QED
          BY <5>1, <5>2
      <4>4. \A j \in Kinds : trees[j] = TreesDue(j)
        BY <2>1, <2>4 DEF Progress
      <4>5. TreesDue(1) = p[1] /\ TreesDue(2) = p[2] /\ TreesDue(3) = p[3]
        BY <3>4, <4>1, <4>2, <4>3 DEF TreesDue
      <4>6. \A j \in Kinds : trees[j] = p[j]
        BY <4>2, <4>4, <4>5
      <4> QED
        BY <4>1, <4>2, <4>6
    <3> QED
      BY <3>1, <3>3, <3>4, <3>5, <3>6
  <2>5. source # Unknown => state # "error"
    BY <2>1 DEF StreamInv
  <2> QED
    BY <2>2, <2>3, <2>4, <2>5 DEF PartsFit
<1> QED
  BY <1>1, HeaderStart, HeaderStep, PTL DEF Spec

=============================================================================
