--------------------------- MODULE FragmentProofs ---------------------------
(***************************************************************************)
(* The fragment encoder's margins hold and its stream is decoded as it was   *)
(* given, for every stream, window, hash, cap and size of block.             *)
(***************************************************************************)
EXTENDS FragmentEncoder, FiniteSetTheorems, SequenceTheorems, TLAPS

-----------------------------------------------------------------------------
(* Numbers. *)

\* A set of numbers has a least one; what is proved of a number from all that
\* are less is proved with it.  Were there none, all that is above some member
\* could be moved down by one and still be above some member.
LEMMA LeastNumber ==
  ASSUME NEW T \in SUBSET Nat, T # {}
  PROVE  \E x \in T : \A y \in T : x <= y
<1> SUFFICES ASSUME \A x \in T : \E y \in T : y < x PROVE FALSE
  BY SMT
<1>0. PICK b \in T : TRUE
  OBVIOUS
<1> DEFINE U == {x \in 0..b : \E y \in T : y <= x}
           V == U \ {b}
           f == [x \in U |-> x - 1]
<1>1. b \in Nat /\ U \subseteq 0..b /\ b \in U
  BY <1>0, SMT
<1>2. \A x \in U : x - 1 \in V
  <2> TAKE x \in U
  <2>1. PICK y \in T : y <= x
    OBVIOUS
  <2>2. PICK z \in T : z < y
    OBVIOUS
  <2>3. y \in Nat /\ z \in Nat /\ x \in 0..b
    OBVIOUS
  <2>4. x - 1 \in 0..b /\ z <= x - 1 /\ x - 1 # b
    BY <2>1, <2>2, <2>3, <1>1, SMT
  <2> QED
    BY <2>2, <2>4
<1>3. IsFiniteSet(U)
  <2>1. IsFiniteSet(0..b)
    BY <1>1, FS_Interval, 0 \in Int, b \in Int
  <2> QED
    BY <2>1, <1>1, FS_Subset
<1>4. IsFiniteSet(V) /\ Cardinality(V) = Cardinality(U) - 1
  BY <1>1, <1>3, FS_RemoveElement
<1>5. Cardinality(V) < Cardinality(U)
  <2>1. Cardinality(U) \in Nat
    BY <1>3, FS_CardinalityType
  <2> HIDE DEF U, V
  <2> QED
    BY <2>1, <1>4
<1>6. f \in [U -> V]
  BY <1>2
<1>7. \A x, y \in U : x # y => f[x] # f[y]
  BY <1>1
<1>8. \E x, y \in U : x # y /\ f[x] = f[y]
  <2> HIDE DEF U, V, f
  <2> QED
    BY <1>3, <1>4, <1>5, <1>6, FS_PigeonHole
<1> QED
  BY <1>7, <1>8

\* The lesser of two.
LEMMA MinOfTwo ==
  ASSUME NEW a \in Int, NEW b \in Int
  PROVE  Min({a, b}) = IF a <= b THEN a ELSE b
<1> DEFINE m == IF a <= b THEN a ELSE b
<1>1. m \in {a, b} /\ \A y \in {a, b} : m <= y
  OBVIOUS
<1>2. \A x \in {a, b} : (\A y \in {a, b} : x <= y) => x = m
  OBVIOUS
<1> QED
  BY <1>1, <1>2 DEF Min

\* match_length finds as many bytes alike as are known to be, and no more than
\* it may look at: it is the least number of bytes after which two differ.
LEMMA MatchLengthIs ==
  ASSUME NEW a \in Nat, NEW b \in Nat, NEW limit \in Nat,
         NEW n \in 0..limit, SameBytes(a, b, n)
  PROVE  /\ MatchLength(a, b, limit) \in n..limit
         /\ SameBytes(a, b, MatchLength(a, b, limit))
<1> DEFINE T == {i \in 0..limit : i = limit \/ Byte(a + i) # Byte(b + i)}
           P(m) == SameBytes(a, b, m) /\ (m < limit => Byte(a + m) # Byte(b + m))
<1>1. limit \in T /\ T \in SUBSET Nat
  OBVIOUS
<1>2. PICK m \in T : \A y \in T : m <= y
  <2> HIDE DEF T
  <2> QED
    BY <1>1, LeastNumber
<1>3. m \in 0..limit /\ (m < limit => Byte(a + m) # Byte(b + m))
  OBVIOUS
<1>4. \A i \in 0..(m - 1) : Byte(a + i) = Byte(b + i)
  <2> TAKE i \in 0..(m - 1)
  <2>1. i \in 0..limit /\ i # limit /\ ~(m <= i)
    BY <1>3
  <2> QED
    BY <2>1, <1>2
<1>5. P(m)
  BY <1>3, <1>4 DEF SameBytes
<1>6. \E k \in 0..limit : P(k)
  BY <1>3, <1>5
<1> DEFINE l == MatchLength(a, b, limit)
<1>7. l \in 0..limit /\ P(l)
  <2> HIDE DEF P
  <2>1. l = CHOOSE k \in 0..limit : P(k)
    BY DEF MatchLength, P
  <2> HIDE DEF l
  <2> QED
    BY <1>6, <2>1
<1>8. ~(l < n)
  <2> SUFFICES ASSUME l < n PROVE FALSE
    OBVIOUS
  <2> HIDE DEF l
  <2>1. l \in 0..(n - 1) /\ l < limit
    BY <1>7
  <2> QED
    BY <1>7, <2>1 DEF SameBytes
<1> HIDE DEF l
<1>9. l \in n..limit /\ SameBytes(a, b, l)
  BY <1>7, <1>8
<1> QED
  BY <1>9 DEF l

-----------------------------------------------------------------------------
(* The inductive invariant of the parse. *)

FragmentTypes ==
  /\ input \in Seq(0..255) /\ config \in Configs
  /\ base \in Nat /\ base <= Len(input)
  /\ start \in Nat /\ start <= FragmentLength /\ end \in Nat
  /\ position \in Nat /\ nextPosition \in Nat /\ nextEmit \in Nat
  /\ lastDistance \in Nat /\ candidate \in Nat
  /\ skip \in Nat /\ skip >= SkipStart
  /\ pc \in {"metablock", "trawl", "copy", "chain", "tail", "encode", "decode", "lost"}

\* All that is stored lies before a position.
Bounded(tab, n) == \A w \in DOMAIN tab : tab[w] \in 0..n

\* Where the search stands in its metablock, and how far the table has come: a
\* slot that says more than the position would be a candidate ahead of it.
Searching ==
  /\ pc = "metablock" => Bounded(table, start)
  /\ pc # "metablock" => start < end /\ end <= FragmentLength
  /\ pc = "trawl" =>
       /\ nextEmit \in start..(nextPosition - 1) /\ nextPosition <= end
       /\ nextPosition + Load <= FragmentLength
       /\ Bounded(table, nextPosition)
  /\ pc \in {"copy", "chain"} =>
       /\ nextEmit \in start..position /\ candidate < position
       /\ position < IpLimit(end)
       /\ Bounded(table, position + 1)
  /\ pc = "copy" => IsMatchAt(position, candidate)
  /\ pc = "chain" => position >= config.min
  /\ pc \in {"tail", "encode", "decode"} => Bounded(table, end)
  /\ pc = "tail" => nextEmit \in start..end

SearchInv == FragmentTypes /\ Searching

\* The constants, one by one.
LEMMA ConstantFacts ==
  /\ FragmentSize \in Nat /\ Gap \in Nat /\ Load \in Nat
  /\ 0 < Load /\ Load < Gap /\ Gap < FragmentSize /\ FragmentSize <= 2^24
  /\ MaxBackward = FragmentSize - Gap /\ MaxBackward \in Nat
  /\ \A c \in Configs : c.min \in 4..6 /\ c.min <= Load
  /\ SkipStart \in Nat \ {0} /\ MaxMerged \in Nat /\ FirstBlock \in Nat \ {0}
  /\ MergeBlock \in Nat \ {0} /\ TwoPassBlock \in Nat \ {0}
BY FragmentAssumption DEF MaxBackward

\* A fragment lies within the input and the window.
LEMMA FragmentLengthIs ==
  ASSUME input \in Seq(0..255), base \in Nat, base <= Len(input)
  PROVE  /\ FragmentLength \in Nat /\ FragmentLength <= FragmentSize
         /\ base + FragmentLength <= Len(input)
<1>1. Len(input) - base \in Nat /\ FragmentSize \in Nat
  BY ConstantFacts
<1>2. FragmentLength = IF FragmentSize <= Len(input) - base THEN FragmentSize
                       ELSE Len(input) - base
  BY <1>1, MinOfTwo DEF FragmentLength
<1> QED
  BY <1>1, <1>2

\* No position at or past the limit leaves less than a match to the
\* metablock's end, or less than the gap to the fragment's.
LEMMA IpLimitIs ==
  ASSUME FragmentTypes, NEW e \in Nat
  PROVE  /\ IpLimit(e) \in Int /\ IpLimit(e) <= e - config.min
         /\ IpLimit(e) <= FragmentLength - Gap
<1>1. FragmentLength \in Nat /\ start \in Nat
  BY FragmentLengthIs DEF FragmentTypes
<1>2. config.min \in Nat /\ Gap \in Nat
  BY ConstantFacts DEF FragmentTypes
<1> DEFINE a == e - start - config.min  b == FragmentLength - Gap - start
<1>3. a \in Int /\ b \in Int
  BY <1>1, <1>2
<1>4. Min({a, b}) = IF a <= b THEN a ELSE b
  <2> HIDE DEF a, b
  <2> QED
    BY <1>3, MinOfTwo
<1>5. IpLimit(e) = start + Min({a, b})
  BY DEF IpLimit
<1>6. Min({a, b}) \in Int /\ Min({a, b}) <= a /\ Min({a, b}) <= b
  <2> HIDE DEF a, b
  <2> QED
    BY <1>3, <1>4
<1> QED
  <2>1. PICK m : m = Min({a, b})
    OBVIOUS
  <2>2. IpLimit(e) = start + m /\ m \in Int /\ m <= a /\ m <= b
    BY <1>5, <1>6, <2>1
  <2> QED
    BY <1>1, <1>2, <2>2

\* A metablock has a byte and ends in the fragment.
LEMMA EndsFit ==
  ASSUME FragmentTypes, start < FragmentLength, NEW e \in Ends
  PROVE  e \in Nat /\ start < e /\ e <= FragmentLength
<1>1. FragmentLength \in Nat /\ start \in Nat
  BY FragmentLengthIs DEF FragmentTypes
<1> DEFINE fl == FragmentLength
<1>2. ASSUME NEW n \in Nat, start < n
      PROVE  LET m == Min({n, fl}) IN m \in Nat /\ start < m /\ m <= fl
  <2> HIDE DEF fl
  <2> QED
    BY <1>1, <1>2, MinOfTwo DEF fl
<1>3. CASE config.min = 5
  <2> DEFINE first == Min({start + FirstBlock, fl})
  <2>1. start + FirstBlock \in Nat /\ start < start + FirstBlock
    BY <1>1, ConstantFacts
  <2>2. first \in Nat /\ start < first
    <3> HIDE DEF fl
    <3> QED
      BY <1>2, <2>1
  <2>3. PICK k \in 0..MaxMerged : e = Min({first + k * MergeBlock, fl})
    BY <1>3 DEF Ends
  <2>4. k * MergeBlock \in Nat
    BY ConstantFacts
  <2> HIDE DEF first, fl
  <2>5. first + k * MergeBlock \in Nat /\ start < first + k * MergeBlock
    BY <1>1, <2>2, <2>4
  <2>6. e \in Nat /\ start < e /\ e <= fl
    BY <1>2, <2>3, <2>5
  <2> QED
    BY <2>6 DEF fl
<1>4. CASE config.min # 5
  <2>1. e = Min({start + TwoPassBlock, fl})
    BY <1>4 DEF Ends
  <2>2. start + TwoPassBlock \in Nat /\ start < start + TwoPassBlock
    BY <1>1, ConstantFacts
  <2> HIDE DEF fl
  <2>3. e \in Nat /\ start < e /\ e <= fl
    BY <1>2, <2>1, <2>2
  <2> QED
    BY <2>3 DEF fl
<1> QED
  BY <1>3, <1>4

-----------------------------------------------------------------------------
(* The table. *)

\* A table that holds less holds no more.
LEMMA BoundedMore ==
  ASSUME NEW tab, NEW m \in Nat, NEW n \in Nat, m <= n, Bounded(tab, m)
  PROVE  Bounded(tab, n)
BY DEF Bounded

\* Storing a position is storing no more than it.
LEMMA StoredBounded ==
  ASSUME NEW tab, NEW n \in Nat, Bounded(tab, n), NEW p, NEW q \in 0..(n - 1)
  PROVE  Bounded(StoredAt(tab, p, q), n)
<1> DEFINE stored == StoredAt(tab, p, q)
<1>1. DOMAIN stored = DOMAIN tab \cup {Hash(p)}
  BY DEF StoredAt
<1>2. \A w \in DOMAIN stored : stored[w] = IF w = Hash(p) THEN q + 1 ELSE tab[w]
  BY DEF StoredAt
<1>3. q + 1 \in 0..n
  OBVIOUS
<1> HIDE DEF stored
<1>4. \A w \in DOMAIN stored : stored[w] \in 0..n
  <2> TAKE w \in DOMAIN stored
  <2>1. CASE w = Hash(p)
    BY <1>2, <1>3, <2>1
  <2>2. CASE w # Hash(p)
    BY <1>1, <1>2, <2>2 DEF Bounded
  <2> QED
    BY <2>1, <2>2
<1> QED
  BY <1>4 DEF Bounded, stored

\* What is stored behind a copy lies before its end.
LEMMA InteriorBounded ==
  ASSUME NEW p \in Nat, config.min \in 4..6, config.min <= p, Bounded(table, p),
         NEW afterLiterals
  PROVE  Bounded(InteriorStored(p, afterLiterals), p)
<1>1. ASSUME NEW tab, Bounded(tab, p), NEW back \in 1..config.min
      PROVE  Bounded(StoredBehind(tab, p, back), p)
  <2>1. p - back \in 0..(p - 1)
    OBVIOUS
  <2> QED
    BY <1>1, <2>1, StoredBounded DEF StoredBehind
<1>2. 1 \in 1..config.min /\ 2 \in 1..config.min /\ 3 \in 1..config.min /\ p - 1 \in 0..(p - 1)
  OBVIOUS
<1>3. ASSUME NEW tab, Bounded(tab, p), NEW hashed
      PROVE  Bounded(ThreeStored(tab, p, hashed), p)
  <2>1. Bounded(StoredBehind(tab, p, 3), p)
    BY <1>1, <1>2, <1>3
  <2>2. Bounded(StoredBehind(StoredBehind(tab, p, 3), p, 2), p)
    BY <1>1, <1>2, <2>1
  <2> QED
    BY <1>2, <2>2, StoredBounded DEF ThreeStored
<1>4. CASE config.min = 4
  BY <1>3, <1>4 DEF InteriorStored
<1>5. CASE config.min = 5
  BY <1>3, <1>5 DEF InteriorStored
<1>6. CASE config.min = 6
  <2>1. 5 \in 1..config.min /\ 4 \in 1..config.min
    BY <1>6
  <2>2. Bounded(StoredBehind(table, p, 5), p)
    BY <1>1, <2>1
  <2>3. Bounded(StoredBehind(StoredBehind(table, p, 5), p, 4), p)
    BY <1>1, <2>1, <2>2
  <2>4. InteriorStored(p, afterLiterals)
          = ThreeStored(StoredBehind(StoredBehind(table, p, 5), p, 4), p, p - 1)
    BY <1>6 DEF InteriorStored
  <2> QED
    BY <1>3, <2>3, <2>4
<1> QED
  BY <1>4, <1>5, <1>6

\* A candidate lies before the position that the table has come to.
LEMMA CandidateBefore ==
  ASSUME NEW tab, NEW n \in Nat, Bounded(tab, n), NEW p
  PROVE  /\ Candidate(tab, p) \in Nat
         /\ n > 0 => Candidate(tab, p) < n
<1>1. Entry(tab, p) \in 0..n
  BY DEF Entry, Bounded
<1> QED
  BY <1>1 DEF Candidate

-----------------------------------------------------------------------------
(* The parse, step by step. *)

\* The stream begins with nothing searched.
LEMMA InitSearches ==
  ASSUME FragmentInit PROVE SearchInv
<1>1. input \in Seq(0..255) /\ Len(input) \in Nat
  BY FragmentAssumption DEF FragmentInit
<1>2. base = 0 /\ start = 0 /\ end = 0 /\ pc = "metablock"
  BY DEF FragmentInit
<1>3. FragmentLength \in Nat
  BY <1>1, <1>2, FragmentLengthIs
<1>4. FragmentTypes
  BY <1>1, <1>2, <1>3, ConstantFacts DEF FragmentInit, FragmentTypes
<1>5. Searching
  BY <1>2 DEF FragmentInit, Searching, Bounded
<1> QED
  BY <1>4, <1>5 DEF SearchInv

\* What no step but the start of a fragment changes.
Fixed == UNCHANGED <<input, config, base>>

\* The length of a fragment and the limit of the search are the fragment's.
LEMMA FixedLength ==
  ASSUME Fixed
  PROVE  /\ FragmentLength' = FragmentLength
         /\ \A p, c : IsMatchAt(p, c)' = IsMatchAt(p, c)
BY DEF Fixed, FragmentLength, IsMatchAt, SameBytes, Byte

\* A metablock begins at its first byte, or is too short to be searched.
LEMMA BeginSearches ==
  ASSUME SearchInv, BeginMetaBlock PROVE SearchInv'
<1>1. FragmentTypes /\ Searching /\ Fixed /\ FragmentLength' = FragmentLength
  BY FixedLength DEF SearchInv, BeginMetaBlock, Fixed
<1>2. FragmentLength \in Nat /\ start \in Nat /\ Gap \in Nat /\ Load \in Nat /\ Load < Gap
  BY <1>1, FragmentLengthIs, ConstantFacts DEF FragmentTypes
<1>3. PICK e \in Ends : e = end'
  BY DEF BeginMetaBlock
<1>4. e \in Nat /\ start < e /\ e <= FragmentLength
  BY <1>1, EndsFit DEF BeginMetaBlock
<1>5. start' = start /\ table' = table /\ Bounded(table, start)
  BY <1>1 DEF BeginMetaBlock, Searching
<1>6. IF e - start < Gap
      THEN pc' = "encode" /\ UNCHANGED search
      ELSE /\ pc' = "trawl" /\ nextPosition' = start + 1 /\ skip' = SkipStart
           /\ nextEmit' = start /\ lastDistance' = 0 /\ UNCHANGED <<position, candidate>>
  BY <1>3 DEF BeginMetaBlock
<1>7. CASE e - start < Gap
  <2>1. pc' = "encode" /\ UNCHANGED search
    BY <1>6, <1>7
  <2>2. FragmentTypes'
    BY <1>1, <1>3, <1>4, <1>5, <2>1 DEF FragmentTypes, Fixed, search
  <2>3. Bounded(table, e)
    BY <1>2, <1>4, <1>5, BoundedMore
  <2>4. Searching'
    BY <1>1, <1>3, <1>4, <1>5, <2>1, <2>3 DEF Searching, Bounded
  <2> QED
    BY <2>2, <2>4 DEF SearchInv
<1>8. CASE ~(e - start < Gap)
  <2>1. /\ pc' = "trawl" /\ nextPosition' = start + 1 /\ skip' = SkipStart
        /\ nextEmit' = start /\ lastDistance' = 0 /\ UNCHANGED <<position, candidate>>
    BY <1>6, <1>8
  <2>2. FragmentTypes'
    BY <1>1, <1>3, <1>4, <1>5, <2>1, ConstantFacts DEF FragmentTypes, Fixed
  <2>3. Bounded(table, start + 1)
    BY <1>2, <1>5, BoundedMore
  <2>4. start + 1 <= e /\ start + 1 + Load <= FragmentLength /\ start \in start..(start + 1 - 1)
    BY <1>2, <1>4, <1>8
  <2>5. Searching'
    BY <1>1, <1>3, <1>4, <1>5, <2>1, <2>3, <2>4 DEF Searching, Bounded
  <2> QED
    BY <2>2, <2>5 DEF SearchInv
<1> QED
  BY <1>7, <1>8

\* A new fragment begins with an empty table.
LEMMA FragmentSearches ==
  ASSUME SearchInv, NextFragment PROVE SearchInv'
<1>1. FragmentTypes /\ pc = "metablock"
  BY DEF SearchInv, NextFragment
<1>2. /\ base' = base + start /\ start' = 0 /\ table' = <<>> /\ pc' = pc
      /\ base + start < Len(input) /\ input' = input
  BY DEF NextFragment
<1>3. base' \in Nat /\ base' <= Len(input') /\ input' \in Seq(0..255)
  BY <1>1, <1>2 DEF FragmentTypes
<1>4. FragmentLength' \in Nat
  <2> DEFINE rest == Len(input') - base'
  <2>1. rest \in Nat /\ FragmentSize \in Nat
    BY <1>3, ConstantFacts
  <2>2. FragmentLength' = Min({FragmentSize, rest})
    BY DEF FragmentLength
  <2> HIDE DEF rest
  <2> QED
    BY <2>1, <2>2, MinOfTwo
<1>5. FragmentTypes'
  BY <1>1, <1>2, <1>3, <1>4 DEF NextFragment, FragmentTypes, search
<1>6. Searching'
  BY <1>1, <1>2 DEF Searching, Bounded
<1> QED
  BY <1>5, <1>6 DEF SearchInv

\* A probe looks one stride on, and not past the limit; what it chooses lies
\* before it.
LEMMA ProbeSearches ==
  ASSUME SearchInv, Probe PROVE SearchInv'
<1> DEFINE p == nextPosition
           next == p + (skip \div SkipStart)
           byDistance == lastDistance \in 1..p /\ IsMatchAt(p, p - lastDistance)
           slot == Candidate(table, p)
           found == byDistance \/ (slot < p /\ IsMatchAt(p, slot))
           chosen == IF byDistance THEN p - lastDistance ELSE slot
<1>1. /\ FragmentTypes /\ Searching /\ Fixed /\ pc = "trawl"
      /\ FragmentLength' = FragmentLength
      /\ UNCHANGED <<start, end, nextEmit, lastDistance>>
      /\ position' = p /\ nextPosition' = next /\ skip' = skip + 1
  BY FixedLength DEF SearchInv, Probe, Fixed
<1>2. /\ nextEmit \in start..(p - 1) /\ p <= end /\ p \in Nat
      /\ Bounded(table, p) /\ start < end /\ end <= FragmentLength
      /\ start \in Nat /\ end \in Nat
  BY <1>1 DEF Searching, FragmentTypes
<1>3. next \in Nat /\ next > p
  <2>1. skip \in Nat /\ SkipStart \in Nat \ {0} /\ skip >= SkipStart
    BY <1>1, ConstantFacts DEF FragmentTypes
  <2>2. skip \div SkipStart \in Nat /\ skip \div SkipStart >= 1
    BY <2>1
  <2> QED
    BY <1>2, <2>2
<1>4. slot \in Nat /\ skip + 1 \in Nat /\ skip + 1 >= SkipStart
  <2>1. slot \in Nat
    BY <1>2, CandidateBefore
  <2>2. skip \in Nat /\ SkipStart \in Nat /\ skip >= SkipStart
    BY <1>1, ConstantFacts DEF FragmentTypes
  <2> QED
    BY <2>1, <2>2
<1>5. CASE next > IpLimit(end)
  <2>1. pc' = "tail" /\ UNCHANGED <<table, candidate>>
    BY <1>5 DEF Probe
  <2> HIDE DEF next, p
  <2>2. FragmentTypes'
    BY <1>1, <1>2, <1>3, <1>4, <2>1 DEF FragmentTypes, Fixed
  <2>3. Bounded(table, end)
    BY <1>2, BoundedMore
  <2>4. nextEmit \in start..end
    BY <1>2
  <2>5. Searching'
    BY <1>1, <1>2, <2>1, <2>3, <2>4 DEF Searching, Bounded
  <2> QED
    BY <2>2, <2>5 DEF SearchInv
<1>6. CASE ~(next > IpLimit(end))
  <2>1. /\ table' = StoredAt(table, p, p) /\ candidate' = chosen
        /\ pc' = IF found /\ InCap(p, chosen) THEN "copy" ELSE "trawl"
    BY <1>6 DEF Probe
  <2>2. chosen \in Nat
    BY <1>1, <1>2, <1>4 DEF FragmentTypes
  <2>3. found => chosen < p /\ IsMatchAt(p, chosen)
    BY <1>1, <1>2, <1>4 DEF FragmentTypes
  <2>4. /\ IpLimit(end) \in Int /\ IpLimit(end) <= end - config.min
        /\ IpLimit(end) <= FragmentLength - Gap
    BY <1>1, <1>2, IpLimitIs
  <2>5. config.min \in 4..6 /\ Gap \in Nat /\ Load \in Nat /\ Load < Gap /\ FragmentLength \in Nat
    BY <1>1, ConstantFacts, FragmentLengthIs DEF FragmentTypes
  <2> HIDE DEF next, chosen, found, p
  <2>6. Bounded(table', p + 1)
    BY <1>2, <2>1, BoundedMore, StoredBounded
  <2>7. Bounded(table', next)
    BY <1>2, <1>3, <2>6, BoundedMore
  <2>8. p < IpLimit(end) /\ next + Load <= FragmentLength /\ next <= end
    BY <1>2, <1>3, <1>6, <2>4, <2>5
  <2>9. FragmentTypes'
    BY <1>1, <1>2, <1>3, <1>4, <2>1, <2>2 DEF FragmentTypes, Fixed
  <2>10. IpLimit(end)' = IpLimit(end)
    BY <1>1 DEF IpLimit, Fixed
  <2>11. CASE pc' = "copy"
    <3>1. found
      BY <2>1, <2>11
    <3>2. nextEmit \in start..p
      BY <1>2
    <3>3. IsMatchAt(position, candidate)'
      BY <1>1, <2>1, <2>3, <3>1 DEF IsMatchAt, SameBytes, Byte, Fixed
    <3>4. Searching'
      BY <1>1, <1>2, <2>1, <2>3, <2>6, <2>8, <2>10, <2>11, <3>1, <3>2, <3>3
      DEF Searching, Bounded
    <3> QED
      BY <2>9, <3>4 DEF SearchInv
  <2>12. CASE pc' = "trawl"
    <3>1. nextEmit \in start..(next - 1)
      BY <1>2, <1>3
    <3>2. Searching'
      BY <1>1, <1>2, <2>1, <2>7, <2>8, <2>12, <3>1 DEF Searching, Bounded
    <3> QED
      BY <2>9, <3>2 DEF SearchInv
  <2> QED
    BY <2>1, <2>11, <2>12
<1> QED
  BY <1>5, <1>6

\* match_length is asked for no less than a match and for no more than the
\* metablock has, and finds as much.
Matched == MatchLength(base + candidate, base + position, end - position)
LEMMA MatchedIs ==
  ASSUME SearchInv, pc \in {"copy", "chain"}, IsMatchAt(position, candidate)
  PROVE  /\ Matched \in config.min..(end - position)
         /\ SameBytes(base + candidate, base + position, Matched)
<1>1. /\ base \in Nat /\ position \in Nat /\ candidate \in Nat /\ end \in Nat
      /\ position < IpLimit(end) /\ FragmentTypes
  BY DEF SearchInv, FragmentTypes, Searching
<1>2. config.min \in 4..6
  BY <1>1, ConstantFacts DEF FragmentTypes
<1>3. IpLimit(end) \in Int /\ IpLimit(end) <= end - config.min
  BY <1>1, IpLimitIs
<1>4. end - position \in Nat /\ config.min \in 0..(end - position)
  BY <1>1, <1>2, <1>3
<1>5. SameBytes(base + candidate, base + position, config.min)
  BY DEF IsMatchAt, SameBytes
<1>6. base + candidate \in Nat /\ base + position \in Nat
  BY <1>1
<1> QED
  BY <1>4, <1>5, <1>6, MatchLengthIs DEF Matched

\* After a copy the search is over, or goes on from its end with all that is
\* stored behind it.
LEMMA CopySearches ==
  ASSUME SearchInv, pc \in {"copy", "chain"}, IsMatchAt(position, candidate),
         NEW afterLiterals, TakeCopy(afterLiterals)
  PROVE  SearchInv'
<1>1. PICK after : after = position + Matched
  OBVIOUS
<1>2. PICK stored : stored = InteriorStored(after, afterLiterals)
  OBVIOUS
<1>3. /\ position' = after /\ nextEmit' = after /\ lastDistance' = position - candidate
      /\ UNCHANGED <<input, config, base, start, end, nextPosition, skip>>
      /\ IF after >= IpLimit(end)
         THEN pc' = "tail" /\ UNCHANGED <<table, candidate>>
         ELSE /\ candidate' = Candidate(stored, after)
              /\ table' = StoredAt(stored, after, after)
              /\ pc' = "chain"
  BY <1>1, <1>2 DEF TakeCopy, Matched
<1>4. /\ FragmentTypes /\ Searching /\ Fixed /\ FragmentLength' = FragmentLength
      /\ start < end /\ end <= FragmentLength
      /\ position \in Nat /\ candidate \in Nat /\ candidate < position
      /\ start \in Nat /\ end \in Nat /\ nextEmit \in start..position
      /\ Bounded(table, position + 1)
  BY <1>3, FixedLength DEF SearchInv, Searching, FragmentTypes, Fixed
<1>5. Matched \in config.min..(end - position) /\ config.min \in 4..6
  BY <1>4, MatchedIs, ConstantFacts DEF FragmentTypes
<1>6. after \in Nat /\ config.min <= after /\ position + 1 <= after /\ after \in start..end
  BY <1>1, <1>4, <1>5
<1>7. position - candidate \in Nat
  BY <1>4
<1>8. Bounded(table, after)
  BY <1>4, <1>6, BoundedMore
<1>9. CASE after >= IpLimit(end)
  <2>1. pc' = "tail" /\ UNCHANGED <<table, candidate>>
    BY <1>3, <1>9
  <2>2. FragmentTypes'
    BY <1>3, <1>4, <1>6, <1>7, <2>1 DEF FragmentTypes, Fixed
  <2>3. Bounded(table, end)
    BY <1>4, <1>6, <1>8, BoundedMore
  <2>4. Searching'
    BY <1>3, <1>4, <1>6, <2>1, <2>3 DEF Searching, Bounded
  <2> QED
    BY <2>2, <2>4 DEF SearchInv
<1>10. CASE ~(after >= IpLimit(end))
  <2>1. /\ candidate' = Candidate(stored, after) /\ table' = StoredAt(stored, after, after)
        /\ pc' = "chain"
    BY <1>3, <1>10
  <2>2. Bounded(stored, after)
    BY <1>2, <1>5, <1>6, <1>8, InteriorBounded
  <2>3. Candidate(stored, after) \in Nat /\ Candidate(stored, after) < after
    BY <1>4, <1>6, <2>2, CandidateBefore
  <2>4. Bounded(StoredAt(stored, after, after), after + 1)
    BY <1>6, <2>2, BoundedMore, StoredBounded
  <2>5. IpLimit(end)' = IpLimit(end) /\ IpLimit(end) \in Int
    BY <1>3, <1>4, IpLimitIs DEF IpLimit, Fixed
  <2>6. after < IpLimit(end)
    BY <1>6, <1>10, <2>5
  <2>7. FragmentTypes'
    BY <1>3, <1>4, <1>6, <1>7, <2>1, <2>3 DEF FragmentTypes, Fixed
  <2>8. after \in start..after
    BY <1>4, <1>6
  <2>9. Searching'
    BY <1>3, <1>4, <1>6, <2>1, <2>3, <2>4, <2>5, <2>6, <2>8 DEF Searching, Bounded
  <2> QED
    BY <2>7, <2>9 DEF SearchInv
<1> QED
  BY <1>9, <1>10

\* When no copy follows at once, the search goes on a byte further.
LEMMA ChainEnds ==
  ASSUME SearchInv, EndChain PROVE SearchInv'
<1>1. /\ FragmentTypes /\ Searching /\ Fixed /\ FragmentLength' = FragmentLength
      /\ pc = "chain" /\ pc' = "trawl"
      /\ position' = position + 1 /\ nextPosition' = position + 1 /\ skip' = SkipStart
      /\ UNCHANGED <<table, start, end, nextEmit, lastDistance, candidate>>
  BY FixedLength DEF SearchInv, EndChain, Fixed
<1>2. /\ nextEmit \in start..position /\ position < IpLimit(end)
      /\ Bounded(table, position + 1) /\ start < end /\ end <= FragmentLength
      /\ position \in Nat /\ start \in Nat /\ end \in Nat
  BY <1>1 DEF Searching, FragmentTypes
<1>3. /\ IpLimit(end) \in Int /\ IpLimit(end) <= end - config.min
      /\ IpLimit(end) <= FragmentLength - Gap
  BY <1>1, <1>2, IpLimitIs
<1>4. /\ config.min \in 4..6 /\ Gap \in Nat /\ Load \in Nat /\ Load < Gap
      /\ FragmentLength \in Nat
  BY <1>1, ConstantFacts, FragmentLengthIs DEF FragmentTypes
<1>5. /\ position + 1 <= end /\ position + 1 + Load <= FragmentLength
      /\ nextEmit \in start..(position + 1 - 1)
  BY <1>2, <1>3, <1>4
<1>6. FragmentTypes'
  BY <1>1, <1>2, ConstantFacts DEF FragmentTypes, Fixed
<1>7. Searching'
  BY <1>1, <1>2, <1>5 DEF Searching, Bounded
<1> QED
  BY <1>6, <1>7 DEF SearchInv

\* Every other step leaves the search as it is, or ends the metablock.
LEMMA OthersSearch ==
  ASSUME SearchInv,
         \/ LiteralTail \/ EncodeCommand \/ WriteCompressed \/ WriteStored
         \/ DecodeCommand \/ NextMetaBlock
         \/ UNCHANGED fragmentVars
  PROVE  SearchInv'
<1>1. FragmentTypes /\ Searching
  BY DEF SearchInv
<1>2. CASE LiteralTail \/ WriteCompressed
  <2>1. /\ pc \in {"tail", "encode"} /\ pc' \in {"encode", "decode"}
        /\ UNCHANGED <<input, config, base, table, start, end, search>>
    BY <1>2 DEF LiteralTail, WriteCompressed, EncodedWhole
  <2>2. FragmentLength' = FragmentLength
    BY <2>1, FixedLength DEF Fixed
  <2>3. FragmentTypes'
    BY <1>1, <2>1, <2>2 DEF FragmentTypes, search
  <2>4. Searching'
    BY <1>1, <2>1, <2>2 DEF Searching, Bounded, search
  <2> QED
    BY <2>3, <2>4 DEF SearchInv
<1>3. CASE WriteStored \/ NextMetaBlock
  <2>1. /\ pc \in {"encode", "decode"} /\ pc' = "metablock" /\ start' = end
        /\ UNCHANGED <<input, config, base, table, end, search>>
    BY <1>3 DEF WriteStored, NextMetaBlock, EncodedWhole, encoder
  <2>2. FragmentLength' = FragmentLength /\ end <= FragmentLength /\ Bounded(table, end)
    BY <1>1, <2>1, FixedLength DEF Fixed, Searching
  <2>3. FragmentTypes'
    BY <1>1, <2>1, <2>2 DEF FragmentTypes, search
  <2>4. Searching'
    BY <1>1, <2>1, <2>2 DEF Searching, Bounded
  <2> QED
    BY <2>3, <2>4 DEF SearchInv
<1>4. CASE EncodeCommand \/ DecodeCommand \/ UNCHANGED fragmentVars
  <2>1. /\ UNCHANGED <<input, config, base, table, start, end, search>>
        /\ pc' = pc \/ (pc = "decode" /\ pc' = "lost")
    BY <1>4 DEF EncodeCommand, DecodeCommand, fragmentVars
  <2>2. FragmentLength' = FragmentLength /\ IpLimit(end)' = IpLimit(end)
    BY <2>1, FixedLength DEF Fixed, IpLimit
  <2>3. FragmentTypes'
    BY <1>1, <2>1, <2>2 DEF FragmentTypes, search
  <2>4. IsMatchAt(position, candidate)' = IsMatchAt(position, candidate)
    BY <2>1 DEF IsMatchAt, SameBytes, Byte, search
  <2>5. Searching'
    BY <1>1, <2>1, <2>2, <2>4 DEF Searching, Bounded, search
  <2> QED
    BY <2>3, <2>5 DEF SearchInv
<1> QED
  BY <1>2, <1>3, <1>4

LEMMA StepSearches ==
  ASSUME SearchInv, [FragmentNext]_fragmentVars PROVE SearchInv'
<1>1. ASSUME Copy PROVE SearchInv'
  <2>1. pc = "copy" /\ TakeCopy(TRUE) /\ IsMatchAt(position, candidate)
    BY <1>1 DEF Copy, SearchInv, Searching
  <2> QED
    BY <2>1, CopySearches
<1>2. ASSUME ChainCopy PROVE SearchInv'
  <2>1. pc = "chain" /\ TakeCopy(FALSE) /\ IsMatchAt(position, candidate)
    BY <1>2 DEF ChainCopy, Chains
  <2> QED
    BY <2>1, CopySearches
<1> QED
  BY <1>1, <1>2, BeginSearches, FragmentSearches, ProbeSearches, ChainEnds, OthersSearch
  DEF FragmentNext

\* The table, the candidates and the limits of the search stay within the
\* metablock and the fragment (parse_fragment, store_interior_positions).
THEOREM SearchInvariance == FragmentSpec => []SearchInv
<1>1. FragmentInit => SearchInv
  BY InitSearches
<1>2. SearchInv /\ [FragmentNext]_fragmentVars => SearchInv'
  BY StepSearches
<1> QED
  BY <1>1, <1>2, PTL DEF FragmentSpec

\* What is read is there: FragmentReadsFit holds of the invariant.
LEMMA SearchReadsFit ==
  ASSUME SearchInv PROVE FragmentReadsFit
<1>1. FragmentTypes /\ Searching
  BY DEF SearchInv
<1>2. ASSUME pc = "trawl" PROVE nextPosition + Load <= FragmentLength
  BY <1>1, <1>2 DEF Searching
<1>3. ASSUME pc \in {"copy", "chain"}
      PROVE  /\ candidate < position /\ position + config.min <= end
             /\ pc = "chain" => position + Load <= FragmentLength /\ position >= config.min
  <2>1. candidate < position /\ position < IpLimit(end) /\ position \in Nat /\ end \in Nat
    BY <1>1, <1>3 DEF Searching, FragmentTypes
  <2>2. /\ IpLimit(end) \in Int /\ IpLimit(end) <= end - config.min
        /\ IpLimit(end) <= FragmentLength - Gap
    BY <1>1, <2>1, IpLimitIs
  <2>3. /\ config.min \in 4..6 /\ Gap \in Nat /\ Load \in Nat /\ Load < Gap
        /\ FragmentLength \in Nat
    BY <1>1, ConstantFacts, FragmentLengthIs DEF FragmentTypes
  <2>4. position + config.min <= end /\ position + Load <= FragmentLength
    BY <2>1, <2>2, <2>3
  <2> QED
    BY <1>1, <2>1, <2>4 DEF Searching
<1> QED
  BY <1>2, <1>3 DEF FragmentReadsFit

\* Every hash reads inside the fragment, every copy may be min_match long
\* without passing the metablock's end, and a candidate lies before the position
\* it is compared with (hash_fragment, is_match_at, store_interior_positions).
THEOREM MarginsHold == FragmentSpec => []FragmentReadsFit
BY SearchInvariance, SearchReadsFit, PTL

-----------------------------------------------------------------------------
(* The names of distances. *)

\* Recent distances, each a byte back or more.
IsRing(r) == r \in Seq(Nat) /\ Len(r) = 4 /\ \A i \in 1..4 : r[i] > 0

\* Each of the four is a distance.
LEMMA RingFacts ==
  ASSUME NEW r, IsRing(r)
  PROVE  /\ r[1] \in Nat /\ r[2] \in Nat /\ r[3] \in Nat /\ r[4] \in Nat
         /\ r[1] > 0 /\ r[2] > 0 /\ r[3] > 0 /\ r[4] > 0
<1>1. \A i \in 1..4 : r[i] \in Nat /\ r[i] > 0
  BY ElementOfSeq DEF IsRing
<1> QED
  BY <1>1

\* So it is at the start of a stream.
LEMMA InitialIsRing == IsRing(InitialRing)
<1>1. InitialRing \in Seq(Nat) /\ Len(InitialRing) = 4
  BY DEF InitialRing
<1>2. \A i \in 1..4 : InitialRing[i] > 0
  BY DEF InitialRing
<1> QED
  BY <1>1, <1>2 DEF IsRing

\* And when a distance is remembered.
LEMMA PushedIsRing ==
  ASSUME NEW r, IsRing(r), NEW d \in Nat \ {0}
  PROVE  IsRing(Pushed(r, d))
<1> DEFINE rest == SubSeq(r, 1, 3)
           s == <<d>> \o rest
<1>1. rest \in Seq(Nat) /\ Len(rest) = 3 /\ \A i \in 1..3 : rest[i] = r[i]
  <2>1. \A i \in 1..3 : r[i] \in Nat
    BY RingFacts
  <2> QED
    BY <2>1, SubSeqProperties
<1>2. <<d>> \in Seq(Nat) /\ Len(<<d>>) = 1 /\ <<d>>[1] = d
  OBVIOUS
<1> HIDE DEF rest
<1>3. /\ s \in Seq(Nat) /\ Len(s) = 1 + 3
      /\ \A i \in 1..(1 + 3) : s[i] = IF i <= 1 THEN <<d>>[i] ELSE rest[i - 1]
  <2>1. /\ s \in Seq(Nat) /\ Len(s) = Len(<<d>>) + Len(rest)
        /\ \A i \in 1..(Len(<<d>>) + Len(rest)) :
             s[i] = IF i <= Len(<<d>>) THEN <<d>>[i] ELSE rest[i - Len(<<d>>)]
    BY <1>1, <1>2, ConcatProperties, Zenon
  <2> QED
    BY <1>1, <1>2, <2>1
<1>4. \A i \in 1..3 : rest[i] > 0
  BY <1>1 DEF IsRing
<1> HIDE DEF s
<1>5. \A i \in 1..4 : s[i] > 0
  <2> TAKE i \in 1..4
  <2>1. CASE i = 1
    BY <1>2, <1>3, <2>1
  <2>2. CASE i # 1
    <3>1. i - 1 \in 1..3 /\ ~(i <= 1) /\ i \in 1..(1 + 3)
      BY <2>2
    <3>2. s[i] = rest[i - 1]
      BY <1>3, <3>1
    <3> QED
      BY <1>4, <3>1, <3>2
  <2> QED
    BY <2>1, <2>2
<1> QED
  BY <1>3, <1>5 DEF IsRing, Pushed, rest, s

\* A code that refers to the recent distances means the distance it was chosen
\* for.
LEMMA ShortCodeMeans ==
  ASSUME NEW r, IsRing(r), NEW d \in Nat \ {0}, NEW reach \in Nat,
         ComputeCode(r, d, reach) # d + 15
  PROVE  /\ ComputeCode(r, d, reach) \in 0..15
         /\ ShortDistance(r, ComputeCode(r, d, reach)) = d
         /\ ComputeCode(r, d, reach) = 0 => d = r[1]
<1> DEFINE code == ComputeCode(r, d, reach)
<1>1. r[1] \in Nat /\ r[2] \in Nat /\ r[3] \in Nat /\ r[4] \in Nat
  BY RingFacts
<1>2. /\ LastCodes[1] = 8 /\ LastCodes[2] = 6 /\ LastCodes[3] = 4 /\ LastCodes[4] = 0
      /\ LastCodes[5] = 5 /\ LastCodes[6] = 7 /\ LastCodes[7] = 9
  BY DEF LastCodes
<1>3. /\ SecondLastCodes[1] = 14 /\ SecondLastCodes[2] = 12 /\ SecondLastCodes[3] = 10
      /\ SecondLastCodes[4] = 1 /\ SecondLastCodes[5] = 11 /\ SecondLastCodes[6] = 13
      /\ SecondLastCodes[7] = 15
  BY DEF SecondLastCodes
<1>4. /\ ShortDistance(r, 0) = r[1] /\ ShortDistance(r, 1) = r[2]
      /\ ShortDistance(r, 2) = r[3] /\ ShortDistance(r, 3) = r[4]
  BY <1>1 DEF ShortDistance, ShortCodes
<1>5. /\ ShortDistance(r, 4) = r[1] - 1 /\ ShortDistance(r, 5) = r[1] + 1
      /\ ShortDistance(r, 6) = r[1] - 2 /\ ShortDistance(r, 7) = r[1] + 2
      /\ ShortDistance(r, 8) = r[1] - 3 /\ ShortDistance(r, 9) = r[1] + 3
  BY <1>1 DEF ShortDistance, ShortCodes
<1>6. /\ ShortDistance(r, 10) = r[2] - 1 /\ ShortDistance(r, 11) = r[2] + 1
      /\ ShortDistance(r, 12) = r[2] - 2 /\ ShortDistance(r, 13) = r[2] + 2
      /\ ShortDistance(r, 14) = r[2] - 3 /\ ShortDistance(r, 15) = r[2] + 3
  BY <1>1 DEF ShortDistance, ShortCodes
<1>7. \/ d = r[1] /\ code = 0
      \/ d = r[2] /\ code = 1
      \/ d # r[1] /\ Near(d, r[1]) /\ code = LastCodes[Offset(d, r[1])]
      \/ d # r[2] /\ Near(d, r[2]) /\ code = SecondLastCodes[Offset(d, r[2])]
      \/ d = r[3] /\ code = 2
      \/ d = r[4] /\ code = 3
  BY DEF ComputeCode
<1> HIDE DEF code
<1>8. CASE d # r[1] /\ Near(d, r[1]) /\ code = LastCodes[Offset(d, r[1])]
  <2>1. \/ Offset(d, r[1]) = 1 /\ d = r[1] - 3
        \/ Offset(d, r[1]) = 2 /\ d = r[1] - 2
        \/ Offset(d, r[1]) = 3 /\ d = r[1] - 1
        \/ Offset(d, r[1]) = 5 /\ d = r[1] + 1
        \/ Offset(d, r[1]) = 6 /\ d = r[1] + 2
        \/ Offset(d, r[1]) = 7 /\ d = r[1] + 3
    BY <1>1, <1>8 DEF Near, Offset
  <2>2. \/ code = 8 /\ d = r[1] - 3
        \/ code = 6 /\ d = r[1] - 2
        \/ code = 4 /\ d = r[1] - 1
        \/ code = 5 /\ d = r[1] + 1
        \/ code = 7 /\ d = r[1] + 2
        \/ code = 9 /\ d = r[1] + 3
    BY <1>2, <1>8, <2>1
  <2>3. code \in 4..9 /\ ShortDistance(r, code) = d
    BY <1>5, <2>2
  <2> QED
    BY <2>3 DEF code
<1>9. CASE d # r[2] /\ Near(d, r[2]) /\ code = SecondLastCodes[Offset(d, r[2])]
  <2>1. \/ Offset(d, r[2]) = 1 /\ d = r[2] - 3
        \/ Offset(d, r[2]) = 2 /\ d = r[2] - 2
        \/ Offset(d, r[2]) = 3 /\ d = r[2] - 1
        \/ Offset(d, r[2]) = 5 /\ d = r[2] + 1
        \/ Offset(d, r[2]) = 6 /\ d = r[2] + 2
        \/ Offset(d, r[2]) = 7 /\ d = r[2] + 3
    BY <1>1, <1>9 DEF Near, Offset
  <2>2. \/ code = 14 /\ d = r[2] - 3
        \/ code = 12 /\ d = r[2] - 2
        \/ code = 10 /\ d = r[2] - 1
        \/ code = 11 /\ d = r[2] + 1
        \/ code = 13 /\ d = r[2] + 2
        \/ code = 15 /\ d = r[2] + 3
    BY <1>3, <1>9, <2>1
  <2>3. code \in 10..15 /\ ShortDistance(r, code) = d
    BY <1>6, <2>2
  <2> QED
    BY <2>3 DEF code
<1> QED
  BY <1>4, <1>7, <1>8, <1>9 DEF code

Positive(n) == n \in Nat /\ n > 0

\* The powers of two of a word are numbers.
LEMMA PowersAreNumbers == \A k \in 0..31 : Positive(2 ^ k)
<1>1. \A k \in 0..7 : Positive(2 ^ k)
  <2>1. /\ Positive(2 ^ 0) /\ Positive(2 ^ 1) /\ Positive(2 ^ 2) /\ Positive(2 ^ 3)
        /\ Positive(2 ^ 4) /\ Positive(2 ^ 5) /\ Positive(2 ^ 6) /\ Positive(2 ^ 7)
    BY DEF Positive
  <2>2. \A k \in 0..7 :
          \/ k = 0 \/ k = 1 \/ k = 2 \/ k = 3
          \/ k = 4 \/ k = 5 \/ k = 6 \/ k = 7
    OBVIOUS
  <2> QED
    BY <2>1, <2>2, Zenon
<1>2. \A k \in 8..15 : Positive(2 ^ k)
  <2>1. /\ Positive(2 ^ 8) /\ Positive(2 ^ 9) /\ Positive(2 ^ 10) /\ Positive(2 ^ 11)
        /\ Positive(2 ^ 12) /\ Positive(2 ^ 13) /\ Positive(2 ^ 14) /\ Positive(2 ^ 15)
    BY DEF Positive
  <2>2. \A k \in 8..15 :
          \/ k = 8 \/ k = 9 \/ k = 10 \/ k = 11
          \/ k = 12 \/ k = 13 \/ k = 14 \/ k = 15
    OBVIOUS
  <2> QED
    BY <2>1, <2>2, Zenon
<1>3. \A k \in 16..23 : Positive(2 ^ k)
  <2>1. /\ Positive(2 ^ 16) /\ Positive(2 ^ 17) /\ Positive(2 ^ 18) /\ Positive(2 ^ 19)
        /\ Positive(2 ^ 20) /\ Positive(2 ^ 21) /\ Positive(2 ^ 22) /\ Positive(2 ^ 23)
    BY DEF Positive
  <2>2. \A k \in 16..23 :
          \/ k = 16 \/ k = 17 \/ k = 18 \/ k = 19
          \/ k = 20 \/ k = 21 \/ k = 22 \/ k = 23
    OBVIOUS
  <2> QED
    BY <2>1, <2>2, Zenon
<1>4. \A k \in 24..31 : Positive(2 ^ k)
  <2>1. /\ Positive(2 ^ 24) /\ Positive(2 ^ 25) /\ Positive(2 ^ 26) /\ Positive(2 ^ 27)
        /\ Positive(2 ^ 28) /\ Positive(2 ^ 29) /\ Positive(2 ^ 30) /\ Positive(2 ^ 31)
    BY DEF Positive
  <2>2. \A k \in 24..31 :
          \/ k = 24 \/ k = 25 \/ k = 26 \/ k = 27
          \/ k = 28 \/ k = 29 \/ k = 30 \/ k = 31
    OBVIOUS
  <2> QED
    BY <2>1, <2>2, Zenon
<1>5. \A k \in 0..31 : k \in 0..7 \/ k \in 8..15 \/ k \in 16..23 \/ k \in 24..31
  OBVIOUS
<1> QED
  BY <1>1, <1>2, <1>3, <1>4, <1>5, Zenon

\* A number of two bits or more has a highest one: the least power that is more
\* than it is twice one that is not.
LEMMA Log2Is ==
  ASSUME NEW n \in Nat, 4 <= n, n < 2 ^ 25
  PROVE  Log2(n) \in 2..31
<1> DEFINE T == {k \in 0..31 : n < 2 ^ (k + 1)}
           P(k) == 2 ^ k <= n /\ n < 2 ^ (k + 1)
<1>1. T \in SUBSET Nat /\ 24 \in T
  OBVIOUS
<1>2. PICK k \in T : \A j \in T : k <= j
  <2> HIDE DEF T
  <2> QED
    BY <1>1, LeastNumber
<1>3. k \in 0..31 /\ n < 2 ^ (k + 1)
  OBVIOUS
<1>4. k # 0
  <2> SUFFICES ASSUME k = 0 PROVE FALSE
    OBVIOUS
  <2>1. n < 2 ^ (0 + 1)
    BY <1>3
  <2> QED
    BY <2>1
<1>5. ~(n < 2 ^ k)
  <2>1. k - 1 \in 0..31 /\ (k - 1) + 1 = k /\ ~(k <= k - 1)
    BY <1>3, <1>4
  <2>2. k - 1 \notin T
    BY <1>2, <2>1
  <2> QED
    BY <2>1, <2>2
<1>6. P(k)
  BY <1>3, <1>5, PowersAreNumbers DEF Positive
<1> DEFINE l == Log2(n)
<1>7. l \in 0..31 /\ P(l)
  <2> HIDE DEF P
  <2>1. \E j \in 0..31 : P(j)
    BY <1>3, <1>6
  <2>2. l = CHOOSE j \in 0..31 : P(j)
    BY DEF Log2, P
  <2> HIDE DEF l
  <2> QED
    BY <2>1, <2>2
<1> HIDE DEF l
<1>8. l # 0 /\ l # 1
  <2>1. ~(n < 2 ^ (0 + 1)) /\ ~(n < 2 ^ (1 + 1))
    OBVIOUS
  <2> QED
    BY <1>7, <2>1
<1>9. l \in 2..31
  BY <1>7, <1>8
<1> QED
  BY <1>9 DEF l

\* A distance by its number: the symbol holds how many bits its highest one is
\* followed by and the first of them, the extra bits the rest, and the decoder
\* puts them together again.
LEMMA LongCodeMeans ==
  ASSUME NEW r, NEW d \in Nat \ {0}, d < 2 ^ 24
  PROVE  LET coded    == SymbolOf(d + 15, <<0, 0>>)
             distance == NewDistance(r, coded.symbol, 0, 0)
         IN  Resolve(distance, coded.extra, 0) = d /\ distance.push
<1>1. 2 ^ 0 = 1 /\ 2 ^ (0 + 1) = 2 /\ 2 ^ (0 + 2) = 4
  OBVIOUS
<1>2. d + 3 \in Nat /\ 4 <= d + 3 /\ d + 3 < 2 ^ 25
  OBVIOUS
<1>3. Log2(d + 3) \in 2..31
  BY <1>2, Log2Is
<1> DEFINE bucket == Log2(d + 3) - 1
           power  == 2 ^ bucket
           prefix == ((d + 3) \div power) % 2
           symbol == 16 + 2 * (bucket - 1) + prefix
           extra  == (d + 3) - (2 + prefix) * power
<1>4. bucket \in 1..30 /\ power \in Nat \ {0}
  <2>1. bucket \in 1..30
    BY <1>3
  <2> HIDE DEF bucket
  <2>2. bucket \in 0..31
    BY <2>1
  <2>3. Positive(2 ^ bucket)
    BY <2>2, PowersAreNumbers
  <2>4. power \in Nat \ {0}
    BY <2>3 DEF Positive
  <2> QED
    BY <2>1, <2>4
<1>5. prefix \in 0..1
  <2> HIDE DEF power
  <2>1. (d + 3) \div power \in Nat
    BY <1>4
  <2> QED
    BY <2>1
<1> HIDE DEF prefix, power, bucket
<1>6. ~(d + 15 < 16 + 0) /\ 4 + (d + 15) - 16 - 0 = d + 3
  OBVIOUS
<1>7. SymbolOf(d + 15, <<0, 0>>) = [symbol |-> symbol, extra |-> extra]
  <2>1. <<0, 0>>[1] = 0 /\ <<0, 0>>[2] = 0
    OBVIOUS
  <2>2. SymbolOf(d + 15, <<0, 0>>)
          = [symbol |-> 16 + 0 + (2 * (bucket - 0 - 1) + prefix) * 1 + ((d + 3) % 1),
             extra |-> extra \div 1]
    BY <1>1, <1>6, <2>1 DEF SymbolOf, prefix, power, bucket
  <2>3. (d + 3) % 1 = 0
    OBVIOUS
  <2>4. (2 + prefix) * power \in Int /\ extra \in Int
    BY <1>4, <1>5
  <2>5. extra \div 1 = extra
    <3> HIDE DEF extra
    <3> QED
      BY <2>4
  <2>6. 16 + 0 + (2 * (bucket - 0 - 1) + prefix) * 1 + ((d + 3) % 1) = symbol
    BY <1>4, <1>5, <2>3
  <2> HIDE DEF extra, symbol
  <2> QED
    BY <2>2, <2>5, <2>6, Zenon
<1>8. /\ ~(symbol < 16) /\ ~(symbol < 16 + 0) /\ symbol \in Nat
      /\ symbol - 0 - 16 = 2 * (bucket - 1) + prefix
  BY <1>4, <1>5
<1> DEFINE code == 2 * (bucket - 1) + prefix
<1>9. /\ code \div 1 = code /\ code % 1 = 0 /\ code % 2 = prefix
      /\ 1 + (code \div 2) = bucket
  BY <1>4, <1>5
<1>10. NewDistance(r, symbol, 0, 0)
         = [state |-> "extra", symbol |-> symbol, push |-> TRUE, bits |-> bucket,
            value |-> ((((2 + prefix) * power) - 4) * 1) + 0 + 0 + 1]
  <2> HIDE DEF code, symbol
  <2>1. symbol - 0 - 16 = code
    BY <1>8 DEF code
  <2> QED
    BY <1>1, <1>8, <1>9, <2>1 DEF NewDistance, power
<1>11. (2 + prefix) * power \in Int
  BY <1>4, <1>5
<1> DEFINE whole == (2 + prefix) * power
<1>12. ((((whole - 4) * 1) + 0 + 0 + 1) + ((d + 3) - whole) * 1) = d
  <2> HIDE DEF whole
  <2> QED
    BY <1>11 DEF whole
<1>13. /\ NewDistance(r, symbol, 0, 0).value = ((whole - 4) * 1) + 0 + 0 + 1
       /\ NewDistance(r, symbol, 0, 0).push
  BY <1>10
<1>14. Resolve(NewDistance(r, symbol, 0, 0), extra, 0) = d
  <2> HIDE DEF symbol
  <2> QED
    BY <1>1, <1>12, <1>13 DEF Resolve
<1> HIDE DEF symbol, extra, whole
<1> QED
  BY <1>7, <1>13, <1>14

\* Whatever name the encoder finds for a distance, the decoder finds the
\* distance, and remembers it when the encoder does.
LEMMA NameDecodes ==
  ASSUME NEW r, IsRing(r), NEW d \in Nat \ {0}, d < 2 ^ 24, NEW reach \in Nat
  PROVE  LET code     == ComputeCode(r, d, reach)
             coded    == SymbolOf(code, <<0, 0>>)
             distance == NewDistance(r, coded.symbol, 0, 0)
         IN  /\ Resolve(distance, coded.extra, 0) = d
             /\ distance.push <=> code # 0
<1> DEFINE code == ComputeCode(r, d, reach)
<1>1. CASE code = d + 15
  <2>1. code # 0
    BY <1>1
  <2> QED
    BY <1>1, <2>1, LongCodeMeans
<1>2. CASE code # d + 15
  <2>1. code \in 0..15 /\ ShortDistance(r, code) = d
    BY <1>2, ShortCodeMeans
  <2> HIDE DEF code
  <2>2. 2 ^ 0 = 1 /\ code < 16 /\ code < 16 + 0
    BY <2>1
  <2>3. SymbolOf(code, <<0, 0>>) = [symbol |-> code, extra |-> 0]
    BY <2>2 DEF SymbolOf
  <2>4. /\ NewDistance(r, code, 0, 0).value = d
        /\ NewDistance(r, code, 0, 0).push = (code # 0)
    BY <2>1, <2>2 DEF NewDistance
  <2>5. Resolve(NewDistance(r, code, 0, 0), 0, 0) = d
    BY <2>2, <2>4 DEF Resolve
  <2>6. /\ Resolve(NewDistance(r, SymbolOf(code, <<0, 0>>).symbol, 0, 0),
                   SymbolOf(code, <<0, 0>>).extra, 0) = d
        /\ NewDistance(r, SymbolOf(code, <<0, 0>>).symbol, 0, 0).push <=> code # 0
    <3>1. /\ SymbolOf(code, <<0, 0>>).symbol = code
          /\ SymbolOf(code, <<0, 0>>).extra = 0
      BY <2>3
    <3> QED
      BY <2>4, <2>5, <3>1, Zenon
  <2> QED
    BY <2>6 DEF code
<1> QED
  BY <1>1, <1>2

-----------------------------------------------------------------------------
(* The stream so far. *)

\* The first n bytes.
Prefix(n) == SubSeq(input, 1, n)

LEMMA PrefixIs ==
  ASSUME input \in Seq(0..255), NEW n \in 0..Len(input)
  PROVE  /\ Prefix(n) \in Seq(0..255) /\ Len(Prefix(n)) = n
         /\ \A i \in 1..n : Prefix(n)[i] = input[i]
<1>1. \A i \in 1..n : input[i] \in 0..255
  <2> TAKE i \in 1..n
  <2>1. i \in 1..Len(input)
    OBVIOUS
  <2> QED
    BY <2>1, ElementOfSeq
<1>2. n \in Nat /\ 1 \in Int /\ n \in Int
  OBVIOUS
<1>3. /\ Prefix(n) \in Seq(0..255) /\ Len(Prefix(n)) = IF 1 <= n THEN n - 1 + 1 ELSE 0
      /\ \A i \in 1..(n - 1 + 1) : Prefix(n)[i] = input[1 + i - 1]
  BY <1>1, <1>2, SubSeqProperties DEF Prefix
<1> QED
  BY <1>2, <1>3

\* Bytes follow on from those before them.
LEMMA PrefixGrows ==
  ASSUME input \in Seq(0..255), NEW p \in Nat, NEW n \in Nat, p + n <= Len(input)
  PROVE  Prefix(p) \o Bytes(p, n) = Prefix(p + n)
<1>1. 1 \in 1..(Len(input) + 1) /\ p \in (1 - 1)..Len(input) /\ p + n \in p..Len(input)
  OBVIOUS
<1>2. SubSeq(input, 1, p) \o SubSeq(input, p + 1, p + n) = SubSeq(input, 1, p + n)
  BY <1>1, ConcatAdjacentSubSeq
<1> QED
  BY <1>2 DEF Prefix, Bytes

\* A function on 1..n is a sequence of n.
LEMMA TableIsSeq ==
  ASSUME NEW S, NEW n \in Nat, NEW f \in [1..n -> S]
  PROVE  f \in Seq(S) /\ Len(f) = n
<1>1. f \in Seq(S)
  BY SeqDef
<1>2. Len(f) \in Nat /\ DOMAIN f = 1..Len(f)
  BY <1>1, LenProperties
<1>3. 1..Len(f) = 1..n
  BY <1>2
<1> QED
  BY <1>1, <1>2, <1>3

\* Less than a distance is its own remainder, and a distance less has the same.
LEMMA RemainderBack ==
  ASSUME NEW d \in Nat \ {0}, NEW j \in Nat
  PROVE  /\ j % d \in 0..(d - 1)
         /\ j < d => j % d = j
         /\ j >= d => j % d = (j - d) % d
<1>1. j % d \in 0..(d - 1) /\ (j < d => j % d = j)
  OBVIOUS
<1>2. ASSUME j >= d PROVE j % d = (j - d) % d
  <2> DEFINE q == (j - d) \div d
             rest == (j - d) % d
  <2>1. j - d \in Nat
    BY <1>2
  <2>2. q \in Nat /\ rest \in 0..(d - 1) /\ j - d = d * q + rest
    BY <2>1
  <2> HIDE DEF q, rest
  <2>3. j = d * (q + 1) + rest /\ q + 1 \in Int
    BY <2>2
  <2>4. (d * (q + 1) + rest) % d = rest
    BY <2>2, <2>3
  <2> QED
    BY <2>3, <2>4 DEF rest
<1> QED
  BY <1>1, <1>2

\* A copy of bytes that are alike is the bytes that follow, also where it reaches
\* into what it writes: the first byte to differ would be a distance after one
\* that does.
LEMMA CopyFollows ==
  ASSUME input \in Seq(0..255), NEW n \in Nat, NEW p \in Nat, p + n <= Len(input),
         NEW d \in 1..p, SameBytes(p, p - d, n)
  PROVE  Copied(Prefix(p), n, d) = Prefix(p + n)
<1> DEFINE text == Prefix(p)
           more == [i \in 1..n |-> text[Len(text) - d + 1 + ((i - 1) % d)]]
           T == {i \in 1..n : input[p + i] # input[p - d + 1 + ((i - 1) % d)]}
<1>0. d \in Nat \ {0}
  OBVIOUS
<1>1. text \in Seq(0..255) /\ Len(text) = p /\ \A i \in 1..p : text[i] = input[i]
  BY PrefixIs
<1>2. \A i \in 1..n : input[p + i] = input[p - d + i]
  <2> TAKE i \in 1..n
  <2>1. i - 1 \in 0..(n - 1)
    OBVIOUS
  <2>2. Byte(p + (i - 1)) = Byte(p - d + (i - 1))
    BY <2>1 DEF SameBytes
  <2>3. p + (i - 1) + 1 = p + i /\ p - d + (i - 1) + 1 = p - d + i
    OBVIOUS
  <2> QED
    BY <2>2, <2>3 DEF Byte
<1>3. T = {}
  <2> SUFFICES ASSUME T # {} PROVE FALSE
    OBVIOUS
  <2>1. T \in SUBSET Nat
    OBVIOUS
  <2>2. PICK x \in T : \A y \in T : x <= y
    <3> HIDE DEF T
    <3> QED
      BY <2>1, LeastNumber
  <2>3. x \in 1..n /\ input[p + x] # input[p - d + 1 + ((x - 1) % d)] /\ x - 1 \in Nat
    OBVIOUS
  <2>4. CASE x <= d
    <3>1. (x - 1) % d = x - 1
      <4>1. PICK m \in Nat : m = x - 1 /\ m < d
        BY <2>3, <2>4
      <4>2. m % d = m
        BY <1>0, <4>1, RemainderBack
      <4> QED
        BY <4>1, <4>2
    <3>2. p - d + 1 + (x - 1) = p - d + x
      BY <2>3
    <3> QED
      BY <1>2, <2>3, <3>1, <3>2
  <2>5. CASE x > d
    <3>1. x - d \in 1..n /\ ~(x <= x - d) /\ x - d - 1 = x - 1 - d /\ x - 1 >= d
      BY <2>3, <2>5
    <3>2. x - d \notin T
      BY <2>2, <3>1
    <3>3. input[p + (x - d)] = input[p - d + 1 + ((x - d - 1) % d)]
      BY <3>1, <3>2
    <3>4. (x - 1) % d = (x - d - 1) % d
      <4>1. PICK m \in Nat : m = x - 1 /\ m >= d /\ m - d = x - d - 1
        BY <2>3, <3>1
      <4>2. m % d = (m - d) % d
        BY <1>0, <4>1, RemainderBack
      <4> QED
        BY <4>1, <4>2, Zenon
    <3>5. p + (x - d) = p - d + x
      BY <2>3
    <3> QED
      BY <1>2, <2>3, <3>3, <3>4, <3>5
  <2> QED
    BY <2>3, <2>4, <2>5
<1>4. \A i \in 1..n : more[i] = input[p + i] /\ input[p + i] \in 0..255
  <2> TAKE i \in 1..n
  <2>1. input[p + i] = input[p - d + 1 + ((i - 1) % d)]
    BY <1>3
  <2>2. i - 1 \in Nat /\ (i - 1) % d \in 0..(d - 1)
    <3>1. i - 1 \in Nat
      OBVIOUS
    <3> QED
      BY <1>0, <3>1, RemainderBack
  <2> DEFINE at == p - d + 1 + ((i - 1) % d)
  <2>3. at \in 1..p
    BY <2>2
  <2>4. more[i] = text[at]
    BY <1>1
  <2>5. p + i \in 1..Len(input)
    OBVIOUS
  <2> HIDE DEF at, more, text
  <2>6. text[at] = input[at]
    BY <1>1, <2>3
  <2> QED
    BY <2>1, <2>4, <2>5, <2>6, ElementOfSeq DEF at
<1>5. more \in [1..n -> 0..255]
  BY <1>4
<1>6. more \in Seq(0..255) /\ Len(more) = n
  <2> HIDE DEF more
  <2> QED
    BY <1>5, TableIsSeq
<1>7. /\ Bytes(p, n) \in Seq(0..255) /\ Len(Bytes(p, n)) = n
      /\ \A i \in 1..n : Bytes(p, n)[i] = input[p + i]
  <2>1. \A i \in (p + 1)..(p + n) : input[i] \in 0..255
    <3> TAKE i \in (p + 1)..(p + n)
    <3>1. i \in 1..Len(input)
      OBVIOUS
    <3> QED
      BY <3>1, ElementOfSeq
  <2>2. /\ SubSeq(input, p + 1, p + n) \in Seq(0..255)
        /\ Len(SubSeq(input, p + 1, p + n))
             = IF p + 1 <= p + n THEN p + n - (p + 1) + 1 ELSE 0
        /\ \A i \in 1..(p + n - (p + 1) + 1) :
             SubSeq(input, p + 1, p + n)[i] = input[p + 1 + i - 1]
    BY <2>1, SubSeqProperties
  <2> QED
    BY <2>2 DEF Bytes
<1>8. more = Bytes(p, n)
  <2> HIDE DEF more
  <2> QED
    BY <1>4, <1>6, <1>7, SeqEqual
<1>9. Copied(text, n, d) = text \o more
  BY DEF Copied
<1> QED
  BY <1>8, <1>9, PrefixGrows

-----------------------------------------------------------------------------
(* The inductive invariant of what is written and read. *)

CommandType == [insert : Nat, copy : Nat, distance : Nat]
ItemType == [literals : Seq(0..255), copy : Nat, code : Nat]

\* The copy of a command, if it has one, made at a position.
CopyHolds(c, at) ==
  c.copy # 0 =>
    /\ c.distance \in 1..at /\ c.distance <= MaxBackward
    /\ SameBytes(base + at, base + at - c.distance, c.copy)

\* The marks are where commands begin and end; between them is what the copies
\* say is there.
Marks(cs, marks, from, last) ==
  /\ marks \in [0..Len(cs) -> 0..last] /\ marks[0] = from /\ marks[Len(cs)] = last
  /\ \A i \in 1..Len(cs) :
       /\ marks[i] = marks[i - 1] + cs[i].insert + cs[i].copy
       /\ CopyHolds(cs[i], marks[i - 1] + cs[i].insert)

\* The name of a command's distance among recent ones, what it leaves as recent,
\* and what is written of it.
CodeOf(r, c) == ComputeCode(r, c.distance, MaxBackward)
Remembered(r, c) == IF c.copy # 0 /\ CodeOf(r, c) # 0 THEN Pushed(r, c.distance) ELSE r
ItemOf(r, c, at) ==
  [literals |-> Bytes(base + at, c.insert), copy |-> c.copy,
   code |-> IF c.copy = 0 THEN 0 ELSE CodeOf(r, c)]

\* The recent distances after each of the first n commands.
Rings(cs, rings, first, n) ==
  /\ rings \in [0..n -> Seq(Nat)] /\ rings[0] = first
  /\ \A i \in 0..n : IsRing(rings[i])
  /\ \A i \in 1..n : rings[i] = Remembered(rings[i - 1], cs[i])

Parsed(last) == \E marks : Marks(commands, marks, start, last)

\* What is encoded stands for the commands it was encoded from.
Encoded(cs, items, marks, rings, from) ==
  \A i \in 1..Len(items) :
    items[i] = ItemOf(rings[from + i - 1], cs[from + i], marks[from + i - 1])

Encoding ==
  \E marks, rings :
    /\ Marks(commands, marks, start, end) /\ Rings(commands, rings, snapshot, Len(wire))
    /\ Len(wire) <= Len(commands) /\ Encoded(commands, wire, marks, rings, 0)
    /\ cursor = marks[Len(wire)] /\ ring = rings[Len(wire)]

\* The decoder has taken the first k commands, and is where the encoder was.
Decoding ==
  \E marks, rings :
    /\ Marks(commands, marks, start, end)
    /\ Rings(commands, rings, snapshot, Len(commands)) /\ ring = rings[Len(commands)]
    /\ \E k \in 0..Len(commands) :
         /\ Len(wire) = Len(commands) - k /\ Encoded(commands, wire, marks, rings, k)
         /\ mirror = rings[k] /\ out = Prefix(base + marks[k])

CodeTypes ==
  /\ commands \in Seq(CommandType) /\ wire \in Seq(ItemType)
  /\ IsRing(ring) /\ IsRing(snapshot) /\ IsRing(mirror)

Following ==
  /\ pc # "lost"
  /\ pc = "metablock" => mirror = ring
  /\ pc \in {"trawl", "copy", "chain", "tail"} =>
       /\ Parsed(nextEmit) /\ wire = <<>> /\ cursor = start /\ ring = snapshot
  /\ pc \in {"trawl", "copy", "chain", "tail", "encode"} => mirror = snapshot
  /\ pc = "encode" => Encoding
  /\ pc = "decode" => Decoding /\ cursor = end
  /\ pc # "decode" => out = Prefix(base + start)

FragmentInv == SearchInv /\ CodeTypes /\ Following

-----------------------------------------------------------------------------
(* Commands and what is written of them. *)

\* What a parse says of the bytes is the same while they are.
LEMMA MarksStay ==
  ASSUME UNCHANGED <<input, base>>,
         NEW marks, NEW cs, NEW from, NEW last, Marks(cs, marks, from, last)
  PROVE  Marks(cs, marks, from, last)'
BY DEF Marks, CopyHolds, SameBytes, Byte

\* No command begins the parse at its start.
LEMMA NoMarks ==
  ASSUME NEW from \in Nat
  PROVE  \E marks : Marks(<<>>, marks, from, from)
<1> DEFINE m == [i \in 0..0 |-> from]
<1>1. m \in [0..0 -> 0..from] /\ m[0] = from
  OBVIOUS
<1> HIDE DEF m
<1>2. Marks(<<>>, m, from, from)
  BY <1>1 DEF Marks
<1> QED
  BY <1>2

\* A command more goes on from the last mark.
LEMMA MarksAppend ==
  ASSUME NEW cs \in Seq(CommandType), NEW marks, NEW from \in Nat, NEW last \in Nat,
         Marks(cs, marks, from, last), NEW c \in CommandType,
         CopyHolds(c, last + c.insert)
  PROVE  \E m : Marks(Append(cs, c), m, from, last + c.insert + c.copy)
<1> DEFINE n    == Len(cs)
           more == Append(cs, c)
           past == last + c.insert + c.copy
           m    == [i \in 0..(n + 1) |-> IF i <= n THEN marks[i] ELSE past]
<1>1. n \in Nat /\ c.insert \in Nat /\ c.copy \in Nat /\ past \in Nat /\ last <= past
  BY DEF CommandType
<1>2. Len(more) = n + 1 /\ more[n + 1] = c /\ \A i \in 1..n : more[i] = cs[i]
  BY AppendProperties
<1>3. /\ marks \in [0..n -> 0..last] /\ marks[0] = from /\ marks[n] = last
      /\ \A i \in 1..n : /\ marks[i] = marks[i - 1] + cs[i].insert + cs[i].copy
                         /\ CopyHolds(cs[i], marks[i - 1] + cs[i].insert)
  BY DEF Marks
<1> HIDE DEF n, past, more
<1>4. \A i \in 0..n : m[i] = marks[i]
  BY <1>1
<1>5. m[n + 1] = past
  BY <1>1
<1>6. m \in [0..(n + 1) -> 0..past]
  <2>1. \A i \in 0..n : marks[i] \in 0..past
    <3> TAKE i \in 0..n
    <3>1. marks[i] \in 0..last
      BY <1>3
    <3> QED
      BY <1>1, <3>1
  <2> QED
    BY <1>1, <2>1
<1> HIDE DEF m
<1>7. m[0] = from
  BY <1>1, <1>3, <1>4
<1>8. \A i \in 1..(n + 1) :
        /\ m[i] = m[i - 1] + more[i].insert + more[i].copy
        /\ CopyHolds(more[i], m[i - 1] + more[i].insert)
  <2> TAKE i \in 1..(n + 1)
  <2>1. CASE i \in 1..n
    <3>1. i - 1 \in 0..n /\ i \in 0..n
      BY <1>1, <2>1
    <3>2. m[i] = marks[i] /\ m[i - 1] = marks[i - 1] /\ more[i] = cs[i]
      BY <1>2, <1>4, <2>1, <3>1
    <3> QED
      BY <1>3, <2>1, <3>2
  <2>2. CASE i = n + 1
    <3>1. i - 1 = n /\ n \in 0..n
      BY <1>1, <2>2
    <3>2. m[i] = past /\ m[i - 1] = last /\ more[i] = c
      BY <1>2, <1>3, <1>4, <1>5, <2>2, <3>1
    <3> QED
      BY <3>2 DEF past
  <2> QED
    BY <1>1, <2>1, <2>2
<1>9. Marks(more, m, from, past)
  BY <1>2, <1>5, <1>6, <1>7, <1>8 DEF Marks
<1> QED
  BY <1>9 DEF more, past

\* What is remembered of a command are distances again.
LEMMA RememberedIsRing ==
  ASSUME NEW r, IsRing(r), NEW c \in CommandType, NEW at, CopyHolds(c, at), at \in Nat
  PROVE  IsRing(Remembered(r, c))
<1>1. c.copy # 0 => c.distance \in Nat \ {0}
  BY DEF CopyHolds
<1> QED
  BY <1>1, PushedIsRing DEF Remembered

\* What is written of a command is an item.
LEMMA ItemIs ==
  ASSUME NEW r, IsRing(r), NEW c \in CommandType, NEW at \in Nat, NEW last \in Nat,
         CopyHolds(c, at + c.insert), at + c.insert <= last, base + last <= Len(input),
         input \in Seq(0..255), base \in Nat
  PROVE  ItemOf(r, c, at) \in ItemType
<1>1. c.insert \in Nat /\ c.copy \in Nat /\ c.distance \in Nat
  BY DEF CommandType
<1>2. Bytes(base + at, c.insert) \in Seq(0..255)
  <2>1. \A i \in (base + at + 1)..(base + at + c.insert) : input[i] \in 0..255
    <3> TAKE i \in (base + at + 1)..(base + at + c.insert)
    <3>1. i \in 1..Len(input)
      BY <1>1
    <3> QED
      BY <3>1, ElementOfSeq
  <2>2. base + at + 1 \in Int /\ base + at + c.insert \in Int
    BY <1>1
  <2> QED
    BY <2>1, <2>2, SubSeqProperties DEF Bytes
<1>3. c.copy # 0 => CodeOf(r, c) \in Nat
  <2> SUFFICES ASSUME c.copy # 0 PROVE CodeOf(r, c) \in Nat
    OBVIOUS
  <2>1. c.distance \in Nat \ {0} /\ MaxBackward \in Nat /\ c.distance + 15 \in Nat
    BY <1>1, ConstantFacts DEF CopyHolds
  <2>2. CASE CodeOf(r, c) = c.distance + 15
    BY <2>1, <2>2
  <2>3. CASE CodeOf(r, c) # c.distance + 15
    <3>1. CodeOf(r, c) \in 0..15
      BY <2>1, <2>3, ShortCodeMeans DEF CodeOf
    <3> QED
      BY <3>1
  <2> QED
    BY <2>2, <2>3
<1>4. (IF c.copy = 0 THEN 0 ELSE CodeOf(r, c)) \in Nat
  BY <1>3
<1> QED
  BY <1>1, <1>2, <1>4 DEF ItemOf, ItemType

\* What items stand for is the same while the bytes are.
LEMMA EncodedStay ==
  ASSUME UNCHANGED <<input, base>>,
         NEW cs, NEW items, NEW marks, NEW rings, NEW from,
         Encoded(cs, items, marks, rings, from)
  PROVE  Encoded(cs, items, marks, rings, from)'
BY DEF Encoded, ItemOf, Bytes, CodeOf

\* The recent distances go on by one command.
LEMMA RingsAppend ==
  ASSUME NEW cs, NEW rings, NEW first, NEW n \in Nat, Rings(cs, rings, first, n),
         NEW r, r = Remembered(rings[n], cs[n + 1]), IsRing(r)
  PROVE  \E more : /\ Rings(cs, more, first, n + 1) /\ more[n + 1] = r
                   /\ \A i \in 0..n : more[i] = rings[i]
<1> DEFINE more == [i \in 0..(n + 1) |-> IF i <= n THEN rings[i] ELSE r]
<1>1. /\ rings \in [0..n -> Seq(Nat)] /\ rings[0] = first
      /\ \A i \in 0..n : IsRing(rings[i])
      /\ \A i \in 1..n : rings[i] = Remembered(rings[i - 1], cs[i])
  BY DEF Rings
<1>2. \A i \in 0..n : more[i] = rings[i]
  OBVIOUS
<1>3. more[n + 1] = r
  OBVIOUS
<1>4. more \in [0..(n + 1) -> Seq(Nat)]
  BY <1>1 DEF IsRing
<1> HIDE DEF more
<1>5. \A i \in 0..(n + 1) : IsRing(more[i])
  <2> TAKE i \in 0..(n + 1)
  <2>1. i \in 0..n \/ i = n + 1
    OBVIOUS
  <2> QED
    BY <1>1, <1>2, <1>3, <2>1
<1>6. \A i \in 1..(n + 1) : more[i] = Remembered(more[i - 1], cs[i])
  <2> TAKE i \in 1..(n + 1)
  <2>1. CASE i \in 1..n
    <3>1. i \in 0..n /\ i - 1 \in 0..n
      BY <2>1
    <3>2. more[i] = rings[i] /\ more[i - 1] = rings[i - 1]
      BY <1>2, <3>1
    <3> QED
      BY <1>1, <2>1, <3>2
  <2>2. CASE i = n + 1
    <3>1. i - 1 = n /\ n \in 0..n
      BY <2>2
    <3>2. more[n] = rings[n]
      BY <1>2, <3>1
    <3> QED
      BY <1>3, <2>2, <3>1, <3>2
  <2> QED
    BY <2>1, <2>2
<1>7. more[0] = first
  BY <1>1, <1>2
<1>8. Rings(cs, more, first, n + 1)
  BY <1>4, <1>5, <1>6, <1>7 DEF Rings
<1> QED
  BY <1>2, <1>3, <1>8

\* One recent ring begins the history.
LEMMA FirstRing ==
  ASSUME NEW cs, NEW first, IsRing(first)
  PROVE  \E rings : Rings(cs, rings, first, 0) /\ rings[0] = first
<1> DEFINE rings == [i \in 0..0 |-> first]
<1>1. rings \in [0..0 -> Seq(Nat)] /\ rings[0] = first
  BY DEF IsRing
<1> HIDE DEF rings
<1>2. Rings(cs, rings, first, 0)
  BY <1>1 DEF Rings
<1> QED
  BY <1>1, <1>2

\* An item more stands for the next command.
LEMMA EncodedAppend ==
  ASSUME NEW cs, NEW items \in Seq(ItemType), NEW marks, NEW rings, NEW more,
         Encoded(cs, items, marks, rings, 0),
         \A i \in 0..Len(items) : more[i] = rings[i],
         NEW item \in ItemType,
         item = ItemOf(rings[Len(items)], cs[Len(items) + 1], marks[Len(items)])
  PROVE  Encoded(cs, Append(items, item), marks, more, 0)
<1> DEFINE n == Len(items)
           longer == Append(items, item)
<1>1. n \in Nat
  OBVIOUS
<1>2. Len(longer) = n + 1 /\ longer[n + 1] = item /\ \A i \in 1..n : longer[i] = items[i]
  BY AppendProperties
<1>3. \A i \in 1..n : items[i] = ItemOf(rings[0 + i - 1], cs[0 + i], marks[0 + i - 1])
  BY DEF Encoded
<1> HIDE DEF n, longer
<1>4. \A i \in 1..(n + 1) :
        longer[i] = ItemOf(more[0 + i - 1], cs[0 + i], marks[0 + i - 1])
  <2> TAKE i \in 1..(n + 1)
  <2>1. 0 + i - 1 = i - 1 /\ 0 + i = i /\ i - 1 \in 0..n
    BY <1>1
  <2>2. more[i - 1] = rings[i - 1]
    BY <2>1 DEF n
  <2>3. CASE i \in 1..n
    BY <1>2, <1>3, <2>1, <2>2, <2>3
  <2>4. CASE i = n + 1
    <3>1. i - 1 = n
      BY <1>1, <2>4
    <3> QED
      BY <1>2, <2>1, <2>2, <2>4, <3>1 DEF n
  <2> QED
    BY <1>1, <2>3, <2>4
<1> QED
  BY <1>2, <1>4 DEF Encoded, longer

\* What is left when an item is taken stands for what is left of the commands.
LEMMA EncodedTail ==
  ASSUME NEW cs, NEW items \in Seq(ItemType), items # <<>>, NEW marks, NEW rings,
         NEW k \in Nat, Encoded(cs, items, marks, rings, k)
  PROVE  /\ items[1] = ItemOf(rings[k], cs[k + 1], marks[k])
         /\ Encoded(cs, Tail(items), marks, rings, k + 1)
         /\ Tail(items) \in Seq(ItemType) /\ Len(Tail(items)) = Len(items) - 1
<1>1. Len(items) \in Nat /\ Len(items) >= 1
  BY EmptySeq
<1>2. Tail(items) \in Seq(ItemType) /\ Len(Tail(items)) = Len(items) - 1
  BY HeadTailProperties
<1>3. \A i \in 1..(Len(items) - 1) : Tail(items)[i] = items[i + 1]
  BY <1>1
<1>4. \A i \in 1..Len(items) : items[i] = ItemOf(rings[k + i - 1], cs[k + i], marks[k + i - 1])
  BY DEF Encoded
<1>5. items[1] = ItemOf(rings[k], cs[k + 1], marks[k])
  <2>1. 1 \in 1..Len(items) /\ k + 1 - 1 = k
    BY <1>1
  <2> QED
    BY <1>4, <2>1
<1>6. \A i \in 1..(Len(items) - 1) :
        Tail(items)[i] = ItemOf(rings[(k + 1) + i - 1], cs[(k + 1) + i], marks[(k + 1) + i - 1])
  <2> TAKE i \in 1..(Len(items) - 1)
  <2>1. i + 1 \in 1..Len(items) /\ k + (i + 1) - 1 = (k + 1) + i - 1 /\ k + (i + 1) = (k + 1) + i
    BY <1>1
  <2>2. items[i + 1] = ItemOf(rings[k + (i + 1) - 1], cs[k + (i + 1)], marks[k + (i + 1) - 1])
    BY <1>4, <2>1
  <2> QED
    BY <1>3, <2>1, <2>2
<1> QED
  BY <1>2, <1>5, <1>6 DEF Encoded

-----------------------------------------------------------------------------
(* The stream, step by step. *)

\* The parse after a step, from what it is said to be.
LEMMA ParsedNext ==
  ASSUME UNCHANGED <<input, base>>, NEW cs, NEW marks, NEW from, NEW last,
         Marks(cs, marks, from, last), commands' = cs, start' = from
  PROVE  Marks(commands, marks, start, last)'
<1>1. Marks(cs, marks, from, last)'
  BY MarksStay
<1> QED
  BY <1>1 DEF Marks, CopyHolds, SameBytes, Byte

\* A parse that stays as it is.
LEMMA ParsedStays ==
  ASSUME UNCHANGED <<input, base, commands, start>>, NEW last, Parsed(last)
  PROVE  Parsed(last)'
<1>1. PICK marks : Marks(commands, marks, start, last)
  BY DEF Parsed
<1>2. PICK cs : cs = commands
  OBVIOUS
<1>3. PICK from : from = start
  OBVIOUS
<1>4. Marks(cs, marks, from, last)
  BY <1>1, <1>2, <1>3
<1>5. Marks(commands, marks, start, last)'
  BY <1>2, <1>3, <1>4, ParsedNext
<1> QED
  BY <1>5 DEF Parsed

\* A stream begins with nothing written and the ring of the format.
LEMMA InitFollows ==
  ASSUME FragmentInit PROVE CodeTypes /\ Following
<1>1. CodeTypes
  BY InitialIsRing DEF FragmentInit, CodeTypes
<1>2. Prefix(0 + 0) = <<>>
  BY SubSeqEmpty DEF Prefix
<1>3. Following
  BY <1>2 DEF FragmentInit, Following
<1> QED
  BY <1>1, <1>3

\* A metablock begins with no commands, or with one that has no copy.
LEMMA BeginFollows ==
  ASSUME FragmentInv, BeginMetaBlock PROVE CodeTypes' /\ Following'
<1>1. /\ SearchInv /\ FragmentTypes /\ CodeTypes /\ Following /\ pc = "metablock"
      /\ start < FragmentLength
  BY DEF FragmentInv, SearchInv, BeginMetaBlock
<1>2. PICK e \in Ends : e = end'
  BY DEF BeginMetaBlock
<1>3. e \in Nat /\ start < e /\ start \in Nat /\ e - start \in Nat
  BY <1>1, EndsFit DEF FragmentTypes
<1>4. /\ UNCHANGED <<input, base, start, ring, mirror, out>>
      /\ cursor' = start /\ wire' = <<>> /\ snapshot' = ring
      /\ IF e - start < Gap
         THEN commands' = <<Command(e - start, 0, 0)>> /\ pc' = "encode"
         ELSE commands' = <<>> /\ pc' = "trawl" /\ nextEmit' = start
  BY <1>2 DEF BeginMetaBlock, decoder
<1>5. mirror = ring /\ out = Prefix(base + start) /\ IsRing(ring)
  BY <1>1 DEF Following, CodeTypes
<1>6. out' = Prefix(base + start)' /\ mirror' = snapshot'
  BY <1>4, <1>5 DEF Prefix
<1>7. PICK from : from = start
  OBVIOUS
<1>8. CASE e - start < Gap
  <2> DEFINE c == Command(e - start, 0, 0)
  <2>1. c \in CommandType /\ c.copy = 0 /\ c.insert = e - start
    BY <1>3 DEF Command, CommandType
  <2>2. commands' = <<c>> /\ pc' = "encode"
    BY <1>4, <1>8
  <2>3. PICK m0 : Marks(<<>>, m0, from, from)
    BY <1>3, <1>7, NoMarks
  <2>4. CopyHolds(c, from + c.insert)
    BY <2>1 DEF CopyHolds
  <2> HIDE DEF c
  <2>5. <<>> \in Seq(CommandType) /\ Append(<<>>, c) = <<c>> /\ from \in Nat
    BY <1>3, <1>7
  <2>6. PICK m : Marks(Append(<<>>, c), m, from, from + c.insert + c.copy)
    BY <2>1, <2>3, <2>4, <2>5, MarksAppend
  <2>7. from + c.insert + c.copy = e
    BY <1>3, <1>7, <2>1
  <2>8. Marks(<<c>>, m, from, e)
    BY <2>5, <2>6, <2>7
  <2>9. Marks(commands, m, start, e)'
    BY <1>4, <1>7, <2>2, <2>8, ParsedNext
  <2>10. PICK rings : Rings(<<c>>, rings, ring, 0) /\ rings[0] = ring
    BY <1>5, FirstRing
  <2>11. Len(wire') = 0 /\ Len(commands') = 1
    BY <1>4, <2>2
  <2>12. m[0] = from
    BY <2>8 DEF Marks
  <2>13. Encoding'
    <3>1. Marks(commands, m, start, end)'
      BY <1>2, <2>9 DEF Marks
    <3>2. Rings(commands, rings, snapshot, Len(wire))'
      BY <1>4, <2>2, <2>10, <2>11 DEF Rings, Remembered, CodeOf
    <3>3. Encoded(commands, wire, m, rings, 0)'
      BY <2>11 DEF Encoded
    <3>4. cursor' = m[Len(wire')] /\ ring' = rings[Len(wire')] /\ Len(wire') <= Len(commands')
      BY <1>4, <1>7, <2>10, <2>11, <2>12
    <3> QED
      BY <3>1, <3>2, <3>3, <3>4 DEF Encoding
  <2>14. CodeTypes'
    BY <1>1, <1>4, <2>1, <2>2 DEF CodeTypes
  <2>15. Following'
    BY <1>6, <2>2, <2>13 DEF Following
  <2> QED
    BY <2>14, <2>15
<1>9. CASE ~(e - start < Gap)
  <2>1. commands' = <<>> /\ pc' = "trawl" /\ nextEmit' = start
    BY <1>4, <1>9
  <2>2. PICK m : Marks(<<>>, m, from, from)
    BY <1>3, <1>7, NoMarks
  <2>3. Marks(commands, m, start, from)'
    BY <1>4, <1>7, <2>1, <2>2, ParsedNext
  <2>4. Parsed(nextEmit)'
    <3>1. nextEmit' = from
      BY <1>7, <2>1
    <3> QED
      BY <2>3, <3>1 DEF Parsed, Marks
  <2>5. CodeTypes'
    BY <1>1, <1>4, <2>1 DEF CodeTypes
  <2>6. Following'
    BY <1>4, <1>6, <2>1, <2>4 DEF Following
  <2> QED
    BY <2>5, <2>6
<1> QED
  BY <1>8, <1>9

\* A fragment begins where the last ended.
LEMMA NextFragmentFollows ==
  ASSUME FragmentInv, NextFragment PROVE CodeTypes' /\ Following'
<1>1. /\ CodeTypes /\ Following /\ pc = "metablock" /\ base \in Nat /\ start \in Nat
  BY DEF FragmentInv, SearchInv, FragmentTypes, NextFragment
<1>2. /\ base' = base + start /\ start' = 0
      /\ UNCHANGED <<input, commands, wire, ring, snapshot, mirror, out, pc>>
  BY DEF NextFragment, encoder, decoder
<1>3. base' + start' = base + start
  BY <1>1, <1>2
<1>4. out' = Prefix(base + start)'
  BY <1>1, <1>2, <1>3 DEF Following, Prefix
<1>5. CodeTypes'
  BY <1>1, <1>2 DEF CodeTypes
<1>6. Following'
  BY <1>1, <1>2, <1>4 DEF Following
<1> QED
  BY <1>5, <1>6

\* A search finds no commands of its own.
LEMMA SearchFollows ==
  ASSUME FragmentInv, Probe \/ EndChain PROVE CodeTypes' /\ Following'
<1>1. /\ CodeTypes /\ Following /\ pc \in {"trawl", "chain"}
      /\ pc' \in {"trawl", "copy", "tail"}
      /\ UNCHANGED <<input, base, start, nextEmit, commands, encoder, decoder>>
  BY DEF FragmentInv, Probe, EndChain
<1>2. PICK last : last = nextEmit
  OBVIOUS
<1>3. Parsed(last)
  BY <1>1, <1>2 DEF Following
<1>4. Parsed(last)'
  BY <1>1, <1>3, ParsedStays
<1>5. Parsed(nextEmit)'
  BY <1>1, <1>2, <1>4 DEF Parsed, Marks
<1>6. out' = Prefix(base + start)'
  BY <1>1 DEF Following, Prefix, decoder
<1>7. CodeTypes'
  BY <1>1 DEF CodeTypes, encoder, decoder
<1>8. Following'
  BY <1>1, <1>5, <1>6 DEF Following, encoder, decoder
<1> QED
  BY <1>7, <1>8

\* A copy that the search takes is of bytes that are alike, no further back than
\* the format's reach.
LEMMA CopyFound ==
  ASSUME SearchInv, pc \in {"copy", "chain"}, IsMatchAt(position, candidate)
  PROVE  LET c == Command(position - nextEmit, Matched, position - candidate) IN
         /\ c \in CommandType /\ nextEmit + c.insert = position
         /\ nextEmit + c.insert + c.copy = position + Matched
         /\ CopyHolds(c, nextEmit + c.insert)
<1> DEFINE c == Command(position - nextEmit, Matched, position - candidate)
<1>1. /\ FragmentTypes /\ start \in Nat /\ end \in Nat /\ position \in Nat
      /\ candidate \in Nat /\ base \in Nat /\ nextEmit \in start..position
      /\ candidate < position /\ position < IpLimit(end)
  BY DEF SearchInv, FragmentTypes, Searching
<1>2. /\ Matched \in config.min..(end - position) /\ config.min \in 4..6
      /\ SameBytes(base + candidate, base + position, Matched)
  BY <1>1, MatchedIs, ConstantFacts DEF FragmentTypes
<1>3. /\ IpLimit(end) \in Int /\ IpLimit(end) <= FragmentLength - Gap
      /\ FragmentLength \in Nat /\ FragmentLength <= FragmentSize
  BY <1>1, IpLimitIs, FragmentLengthIs DEF FragmentTypes
<1>4. FragmentSize \in Nat /\ Gap \in Nat /\ MaxBackward = FragmentSize - Gap
  BY ConstantFacts
<1>5. position - candidate \in 1..position /\ position - candidate <= MaxBackward
  BY <1>1, <1>3, <1>4
<1>6. c.insert = position - nextEmit /\ c.copy = Matched /\ c.distance = position - candidate
  BY DEF Command
<1>7. position - nextEmit \in Nat /\ Matched \in Nat /\ position - candidate \in Nat
  BY <1>1, <1>2
<1>8. c \in CommandType
  BY <1>7 DEF Command, CommandType
<1> HIDE DEF c
<1>9. nextEmit + c.insert = position
  BY <1>1, <1>6
<1>10. nextEmit + c.insert + c.copy = position + Matched
  BY <1>6, <1>9
<1>11. base + position - (position - candidate) = base + candidate
  BY <1>1
<1>12. SameBytes(base + position, base + candidate, Matched)
  BY <1>2 DEF SameBytes
<1>13. CopyHolds(c, position)
  BY <1>5, <1>6, <1>11, <1>12 DEF CopyHolds
<1> QED
  BY <1>8, <1>9, <1>10, <1>13 DEF c

\* The command of a copy goes on from the last.
LEMMA CopyCommandFollows ==
  ASSUME FragmentInv, pc \in {"copy", "chain"}, IsMatchAt(position, candidate),
         NEW afterLiterals, TakeCopy(afterLiterals)
  PROVE  CodeTypes' /\ Following'
<1>1. SearchInv /\ CodeTypes /\ Following /\ start \in Nat /\ nextEmit \in Nat
  BY DEF FragmentInv, SearchInv, FragmentTypes
<1>2. PICK c : c = Command(position - nextEmit, Matched, position - candidate)
  OBVIOUS
<1>3. /\ c \in CommandType /\ CopyHolds(c, nextEmit + c.insert)
      /\ nextEmit + c.insert + c.copy = position + Matched
  BY <1>1, <1>2, CopyFound
<1>4. /\ commands' = Append(commands, c) /\ nextEmit' = position + Matched
      /\ pc' \in {"tail", "chain"}
      /\ UNCHANGED <<input, base, start, encoder, decoder>>
  BY <1>2 DEF TakeCopy, Matched
<1>5. PICK cs \in Seq(CommandType) : cs = commands
  BY <1>1 DEF CodeTypes
<1>6. PICK last \in Nat : last = nextEmit
  BY <1>1
<1>7. PICK from \in Nat : from = start
  BY <1>1
<1>8. PICK m : Marks(cs, m, from, last)
  BY <1>1, <1>5, <1>6, <1>7 DEF Following, Parsed
<1>9. CopyHolds(c, last + c.insert)
  BY <1>3, <1>6
<1>10. PICK marks : Marks(Append(cs, c), marks, from, last + c.insert + c.copy)
  BY <1>3, <1>8, <1>9, MarksAppend
<1>11. PICK past : past = last + c.insert + c.copy
  OBVIOUS
<1>12. PICK more : more = Append(cs, c)
  OBVIOUS
<1>13. Marks(more, marks, from, past) /\ commands' = more /\ nextEmit' = past /\ start' = from
  BY <1>3, <1>4, <1>5, <1>6, <1>7, <1>10, <1>11, <1>12
<1>14. Marks(commands, marks, start, past)'
  BY <1>4, <1>13, ParsedNext
<1>15. Parsed(nextEmit)'
  BY <1>13, <1>14 DEF Parsed, Marks
<1>16. commands' \in Seq(CommandType)
  BY <1>3, <1>5, <1>12, <1>13, AppendProperties
<1>17. out' = Prefix(base + start)'
  BY <1>1, <1>4 DEF Following, Prefix, decoder
<1>18. CodeTypes'
  BY <1>1, <1>4, <1>16 DEF CodeTypes, encoder, decoder
<1>19. Following'
  BY <1>1, <1>4, <1>15, <1>17 DEF Following, encoder, decoder
<1> QED
  BY <1>18, <1>19

\* What is left over becomes a command without a copy, and nothing is encoded.
LEMMA TailFollows ==
  ASSUME FragmentInv, LiteralTail PROVE CodeTypes' /\ Following'
<1>1. /\ SearchInv /\ CodeTypes /\ Following /\ pc = "tail" /\ pc' = "encode"
      /\ start \in Nat /\ end \in Nat /\ nextEmit \in start..end
      /\ UNCHANGED <<input, base, start, end, encoder, decoder>>
  BY DEF FragmentInv, SearchInv, FragmentTypes, Searching, LiteralTail
<1>2. /\ wire = <<>> /\ cursor = start /\ ring = snapshot /\ mirror = snapshot
      /\ Parsed(nextEmit) /\ IsRing(snapshot) /\ out = Prefix(base + start)
  BY <1>1 DEF Following, CodeTypes
<1>3. PICK cs \in Seq(CommandType) : cs = commands
  BY <1>1 DEF CodeTypes
<1>4. PICK from \in Nat : from = start
  BY <1>1
<1>5. PICK e \in Nat : e = end
  BY <1>1
<1>6. PICK m : Marks(cs, m, from, nextEmit)
  BY <1>2, <1>3, <1>4 DEF Parsed
<1>7. \E more, marks :
       more \in Seq(CommandType) /\ commands' = more /\ Marks(more, marks, from, e)
  <2>1. CASE nextEmit < end
    <3> DEFINE c == Command(end - nextEmit, 0, 0)
    <3>1. end - nextEmit \in Nat
      BY <1>1, <2>1
    <3>2. c \in CommandType /\ c.copy = 0 /\ c.insert = end - nextEmit
      BY <3>1 DEF Command, CommandType
    <3>3. commands' = Append(cs, c)
      BY <1>3, <2>1 DEF LiteralTail
    <3> HIDE DEF c
    <3>4. CopyHolds(c, nextEmit + c.insert)
      BY <3>2 DEF CopyHolds
    <3>5. PICK marks : Marks(Append(cs, c), marks, from, nextEmit + c.insert + c.copy)
      <4>1. nextEmit \in Nat
        BY <1>1
      <4> QED
        BY <1>6, <3>2, <3>4, <4>1, MarksAppend
    <3>6. nextEmit + c.insert + c.copy = e
      BY <1>1, <1>5, <3>2
    <3>7. Append(cs, c) \in Seq(CommandType)
      BY <3>2, AppendProperties
    <3> QED
      BY <3>3, <3>5, <3>6, <3>7
  <2>2. CASE ~(nextEmit < end)
    <3>1. nextEmit = e
      BY <1>1, <1>5, <2>2
    <3>2. commands' = cs
      BY <1>3, <2>2 DEF LiteralTail
    <3> QED
      BY <1>6, <3>1, <3>2
  <2> QED
    BY <2>1, <2>2
<1>8. PICK more, marks :
        more \in Seq(CommandType) /\ commands' = more /\ Marks(more, marks, from, e)
  BY <1>7
<1>9. Marks(commands, marks, start, e)'
  BY <1>1, <1>4, <1>8, ParsedNext
<1>10. PICK rings : Rings(more, rings, snapshot, 0) /\ rings[0] = snapshot
  BY <1>2, FirstRing
<1>11. /\ wire' = <<>> /\ Len(wire') = 0 /\ Len(more) \in Nat /\ marks[0] = from
       /\ UNCHANGED <<cursor, ring, snapshot, mirror, out>>
  BY <1>1, <1>2, <1>8 DEF Marks, encoder, decoder
<1>12. Encoding'
  <2>1. Marks(commands, marks, start, end)'
    BY <1>1, <1>5, <1>9 DEF Marks
  <2>2. Rings(commands, rings, snapshot, Len(wire))'
    BY <1>8, <1>10, <1>11 DEF Rings, Remembered, CodeOf
  <2>3. Encoded(commands, wire, marks, rings, 0)'
    BY <1>11 DEF Encoded
  <2>4. cursor' = marks[Len(wire')] /\ ring' = rings[Len(wire')] /\ Len(wire') <= Len(commands')
    BY <1>2, <1>4, <1>8, <1>10, <1>11
  <2> QED
    BY <2>1, <2>2, <2>3, <2>4 DEF Encoding
<1>13. out' = Prefix(base + start)'
  BY <1>1, <1>2, <1>11 DEF Prefix
<1>14. CodeTypes'
  BY <1>1, <1>8 DEF CodeTypes, encoder, decoder
<1>15. Following'
  BY <1>1, <1>2, <1>11, <1>12, <1>13 DEF Following
<1> QED
  BY <1>14, <1>15

\* What a parse says of one of its commands.
LEMMA MarkedCommand ==
  ASSUME NEW cs \in Seq(CommandType), NEW marks, NEW from \in Nat, NEW last \in Nat,
         Marks(cs, marks, from, last), NEW k \in Nat, k < Len(cs)
  PROVE  /\ cs[k + 1] \in CommandType /\ marks[k] \in 0..last /\ marks[k + 1] \in 0..last
         /\ marks[k] + cs[k + 1].insert \in Nat
         /\ marks[k + 1] = marks[k] + cs[k + 1].insert + cs[k + 1].copy
         /\ marks[k] + cs[k + 1].insert <= last
         /\ CopyHolds(cs[k + 1], marks[k] + cs[k + 1].insert)
<1>1. k \in 0..Len(cs) /\ k + 1 \in 0..Len(cs) /\ k + 1 \in 1..Len(cs) /\ (k + 1) - 1 = k
  OBVIOUS
<1>2. cs[k + 1] \in CommandType
  BY <1>1, ElementOfSeq
<1>3. cs[k + 1].insert \in Nat /\ cs[k + 1].copy \in Nat
  BY <1>2 DEF CommandType
<1>4. marks[k] \in 0..last /\ marks[k + 1] \in 0..last
  BY <1>1 DEF Marks
<1>5. /\ marks[k + 1] = marks[k] + cs[k + 1].insert + cs[k + 1].copy
      /\ CopyHolds(cs[k + 1], marks[k] + cs[k + 1].insert)
  <2>1. /\ marks[k + 1] = marks[(k + 1) - 1] + cs[k + 1].insert + cs[k + 1].copy
        /\ CopyHolds(cs[k + 1], marks[(k + 1) - 1] + cs[k + 1].insert)
    BY <1>1 DEF Marks
  <2> QED
    BY <1>1, <2>1
<1>6. marks[k] + cs[k + 1].insert <= last /\ marks[k] + cs[k + 1].insert \in Nat
  BY <1>3, <1>4, <1>5
<1> QED
  BY <1>2, <1>4, <1>5, <1>6

\* The next command is named among the distances that are recent by then.
LEMMA EncodeFollows ==
  ASSUME FragmentInv, EncodeCommand PROVE CodeTypes' /\ Following'
<1>1. /\ SearchInv /\ FragmentTypes /\ CodeTypes /\ Following /\ pc = "encode" /\ pc' = "encode"
      /\ start \in Nat /\ end \in Nat /\ end <= FragmentLength
      /\ Len(wire) < Len(commands)
      /\ UNCHANGED <<input, base, start, end, commands, snapshot, mirror, out>>
  BY DEF FragmentInv, SearchInv, FragmentTypes, Searching, EncodeCommand, decoder
<1>2. PICK marks, rings :
        /\ Marks(commands, marks, start, end) /\ Rings(commands, rings, snapshot, Len(wire))
        /\ Encoded(commands, wire, marks, rings, 0)
        /\ cursor = marks[Len(wire)] /\ ring = rings[Len(wire)]
  BY <1>1 DEF Following, Encoding
<1>3. /\ commands \in Seq(CommandType) /\ wire \in Seq(ItemType) /\ Len(wire) \in Nat
      /\ IsRing(ring) /\ IsRing(snapshot) /\ IsRing(mirror)
  BY <1>1 DEF CodeTypes
<1>4. PICK n \in Nat : n = Len(wire)
  BY <1>3
<1>5. PICK c : c = commands[n + 1]
  OBVIOUS
<1>6. /\ c \in CommandType /\ cursor \in 0..end /\ cursor + c.insert \in Nat
      /\ marks[n + 1] = cursor + c.insert + c.copy
      /\ cursor + c.insert <= end /\ CopyHolds(c, cursor + c.insert)
  BY <1>1, <1>2, <1>3, <1>4, <1>5, MarkedCommand
<1>7. PICK item : item = ItemOf(ring, c, cursor)
  OBVIOUS
<1>8. /\ wire' = Append(wire, item) /\ ring' = Remembered(ring, c)
      /\ cursor' = cursor + c.insert + c.copy
  BY <1>4, <1>5, <1>7 DEF EncodeCommand, ItemOf, Remembered, CodeOf
<1>9. IsRing(Remembered(ring, c))
  BY <1>3, <1>6, RememberedIsRing
<1>10. item \in ItemType
  <2>1. base + end <= Len(input) /\ base \in Nat /\ input \in Seq(0..255)
    BY <1>1, FragmentLengthIs DEF FragmentTypes
  <2>2. cursor \in Nat
    BY <1>1, <1>6
  <2> QED
    BY <1>1, <1>3, <1>6, <1>7, <2>1, <2>2, ItemIs
<1>11. PICK r : r = Remembered(ring, c)
  OBVIOUS
<1>12. PICK more : /\ Rings(commands, more, snapshot, n + 1) /\ more[n + 1] = r
                   /\ \A i \in 0..n : more[i] = rings[i]
  BY <1>2, <1>4, <1>5, <1>9, <1>11, RingsAppend
<1>13. PICK longer : longer = Append(wire, item)
  OBVIOUS
<1>14. /\ Encoded(commands, longer, marks, more, 0)
       /\ longer \in Seq(ItemType) /\ Len(longer) = n + 1
  <2>1. item = ItemOf(rings[Len(wire)], commands[Len(wire) + 1], marks[Len(wire)])
    BY <1>2, <1>4, <1>5, <1>7
  <2>2. \A i \in 0..Len(wire) : more[i] = rings[i]
    BY <1>4, <1>12
  <2>3. Encoded(commands, Append(wire, item), marks, more, 0)
    BY <1>2, <1>3, <1>10, <2>1, <2>2, EncodedAppend
  <2>4. Append(wire, item) \in Seq(ItemType) /\ Len(Append(wire, item)) = Len(wire) + 1
    BY <1>3, <1>10, AppendProperties
  <2> QED
    BY <1>4, <1>13, <2>3, <2>4
<1>15. PICK cs : cs = commands
  OBVIOUS
<1>16. PICK from : from = start
  OBVIOUS
<1>17. PICK e : e = end
  OBVIOUS
<1>18. Encoding'
  <2>1. Marks(commands, marks, start, e)'
    <3>1. Marks(cs, marks, from, e)
      BY <1>2, <1>15, <1>16, <1>17
    <3> QED
      BY <1>1, <1>15, <1>16, <3>1, ParsedNext
  <2>2. Marks(commands, marks, start, end)'
    BY <1>1, <1>17, <2>1 DEF Marks
  <2>3. Rings(commands, more, snapshot, Len(wire))'
    BY <1>1, <1>8, <1>12, <1>13, <1>14 DEF Rings, Remembered, CodeOf
  <2>4. Encoded(commands, wire, marks, more, 0)'
    <3>1. Encoded(cs, longer, marks, more, 0)
      BY <1>14, <1>15
    <3>2. Encoded(cs, longer, marks, more, 0)'
      BY <1>1, <3>1, EncodedStay
    <3> QED
      BY <1>1, <1>8, <1>13, <1>15, <3>2 DEF Encoded, ItemOf, Bytes, CodeOf
  <2>5. /\ cursor' = marks[Len(wire')] /\ ring' = more[Len(wire')]
        /\ Len(wire') <= Len(commands')
    <3>1. Len(wire') = n + 1 /\ n + 1 <= Len(commands')
      BY <1>1, <1>3, <1>4, <1>8, <1>13, <1>14
    <3> QED
      BY <1>6, <1>8, <1>11, <1>12, <3>1
  <2> QED
    BY <2>2, <2>3, <2>4, <2>5 DEF Encoding
<1>19. out' = Prefix(base + start)' /\ mirror' = snapshot'
  BY <1>1 DEF Following, Prefix
<1>20. CodeTypes'
  BY <1>1, <1>3, <1>8, <1>9, <1>13, <1>14 DEF CodeTypes
<1>21. Following'
  BY <1>1, <1>18, <1>19 DEF Following
<1> QED
  BY <1>20, <1>21

\* When all is encoded and the compressed form is written, the decoder begins
\* with the first command.
LEMMA CompressedFollows ==
  ASSUME FragmentInv, WriteCompressed PROVE CodeTypes' /\ Following'
<1>1. /\ SearchInv /\ CodeTypes /\ Following /\ pc = "encode" /\ pc' = "decode"
      /\ Len(wire) = Len(commands) /\ Len(commands) \in Nat
      /\ UNCHANGED <<input, base, start, end, commands, encoder, decoder>>
  BY DEF FragmentInv, WriteCompressed, EncodedWhole, CodeTypes
<1>2. PICK marks, rings :
        /\ Marks(commands, marks, start, end) /\ Rings(commands, rings, snapshot, Len(wire))
        /\ Encoded(commands, wire, marks, rings, 0)
        /\ cursor = marks[Len(wire)] /\ ring = rings[Len(wire)]
  BY <1>1 DEF Following, Encoding
<1>3. cursor = end /\ marks[0] = start /\ rings[0] = snapshot
  BY <1>1, <1>2 DEF Marks, Rings
<1>4. mirror = rings[0] /\ out = Prefix(base + marks[0])
  BY <1>1, <1>3 DEF Following
<1>5. Decoding
  <2>1. 0 \in 0..Len(commands) /\ Len(wire) = Len(commands) - 0
    BY <1>1
  <2>2. Rings(commands, rings, snapshot, Len(commands)) /\ ring = rings[Len(commands)]
    BY <1>1, <1>2
  <2> QED
    BY <1>2, <1>4, <2>1, <2>2 DEF Decoding
<1>6. Decoding' <=> Decoding
  <2>1. /\ UNCHANGED <<input, base, start, end, commands, wire, ring, snapshot>>
        /\ UNCHANGED <<mirror, out>>
    BY <1>1 DEF encoder, decoder
  <2> QED
    BY <2>1 DEF Decoding, Marks, CopyHolds, SameBytes, Byte, Rings, Remembered, CodeOf,
                Encoded, ItemOf, Bytes, Prefix
<1>7. CodeTypes'
  BY <1>1 DEF CodeTypes, encoder, decoder
<1>8. Following'
  BY <1>1, <1>3, <1>5, <1>6 DEF Following, encoder
<1> QED
  BY <1>7, <1>8

\* When the bytes are stored instead, the ring is what the decoder's still is.
LEMMA StoredFollows ==
  ASSUME FragmentInv, WriteStored PROVE CodeTypes' /\ Following'
<1>1. /\ SearchInv /\ FragmentTypes /\ CodeTypes /\ Following
      /\ pc = "encode" /\ pc' = "metablock"
      /\ start \in Nat /\ end \in Nat /\ base \in Nat /\ start < end /\ end <= FragmentLength
      /\ ring' = snapshot /\ out' = out \o Bytes(base + start, end - start) /\ start' = end
      /\ UNCHANGED <<input, base, commands, wire, snapshot, mirror>>
  BY DEF FragmentInv, SearchInv, FragmentTypes, Searching, WriteStored, EncodedWhole, RestoredRing
<1>2. input \in Seq(0..255) /\ base + FragmentLength <= Len(input) /\ FragmentLength \in Nat
  BY <1>1, FragmentLengthIs DEF FragmentTypes
<1>3. /\ base + start \in Nat /\ end - start \in Nat /\ base + start + (end - start) = base + end
      /\ base + end <= Len(input)
  BY <1>1, <1>2
<1>4. Prefix(base + start) \o Bytes(base + start, end - start)
        = Prefix(base + start + (end - start))
  <2>1. base + start + (end - start) <= Len(input)
    BY <1>3
  <2> QED
    BY <1>2, <1>3, <2>1, PrefixGrows
<1>5. mirror = snapshot /\ out = Prefix(base + start)
  BY <1>1 DEF Following
<1>6. out' = Prefix(base + end)
  BY <1>1, <1>3, <1>4, <1>5
<1>7. out' = Prefix(base + start)'
  BY <1>1, <1>6 DEF Prefix
<1>8. CodeTypes'
  BY <1>1 DEF CodeTypes
<1>9. Following'
  BY <1>1, <1>5, <1>7 DEF Following
<1> QED
  BY <1>8, <1>9

\* A command that the decoder takes goes on from what it has, and leaves it with
\* the recent distances that the encoder had then.
LEMMA DecodeFollows ==
  ASSUME FragmentInv, DecodeCommand PROVE CodeTypes' /\ Following'
<1> DEFINE item     == wire[1]
           text     == out \o item.literals
           coded    == SymbolOf(item.code, <<0, 0>>)
           distance == NewDistance(mirror, coded.symbol, 0, 0)
           value    == Resolve(distance, coded.extra, 0)
<1>1. /\ SearchInv /\ FragmentTypes /\ CodeTypes /\ Following /\ pc = "decode" /\ wire # <<>>
      /\ start \in Nat /\ end \in Nat /\ base \in Nat /\ end <= FragmentLength
      /\ wire' = Tail(wire)
      /\ UNCHANGED <<input, base, start, end, commands, cursor, ring, snapshot>>
      /\ IF item.copy = 0 THEN out' = text /\ UNCHANGED <<mirror, pc>>
         ELSE IF value \notin 1..Min({Len(text), MaxBackward})
         THEN pc' = "lost" /\ UNCHANGED decoder
         ELSE /\ out' = Copied(text, item.copy, value)
              /\ mirror' = IF distance.push THEN Pushed(mirror, value) ELSE mirror
              /\ UNCHANGED pc
  BY DEF FragmentInv, SearchInv, FragmentTypes, Searching, DecodeCommand
<1>2. PICK marks, rings :
        /\ Marks(commands, marks, start, end)
        /\ Rings(commands, rings, snapshot, Len(commands)) /\ ring = rings[Len(commands)]
        /\ \E k \in 0..Len(commands) :
             /\ Len(wire) = Len(commands) - k /\ Encoded(commands, wire, marks, rings, k)
             /\ mirror = rings[k] /\ out = Prefix(base + marks[k])
  BY <1>1 DEF Following, Decoding
<1>3. PICK k \in 0..Len(commands) :
        /\ Len(wire) = Len(commands) - k /\ Encoded(commands, wire, marks, rings, k)
        /\ mirror = rings[k] /\ out = Prefix(base + marks[k])
  BY <1>2
<1>4. /\ commands \in Seq(CommandType) /\ wire \in Seq(ItemType) /\ Len(commands) \in Nat
      /\ Len(wire) \in Nat /\ Len(wire) >= 1 /\ IsRing(mirror) /\ IsRing(ring) /\ IsRing(snapshot)
  BY <1>1, EmptySeq DEF CodeTypes
<1>5. k \in Nat /\ k < Len(commands)
  BY <1>3, <1>4
<1>6. PICK c : c = commands[k + 1]
  OBVIOUS
<1>7. PICK p : p = marks[k]
  OBVIOUS
<1>8. /\ c \in CommandType /\ p \in 0..end /\ p + c.insert \in Nat
      /\ marks[k + 1] = p + c.insert + c.copy /\ marks[k + 1] \in 0..end
      /\ p + c.insert <= end /\ CopyHolds(c, p + c.insert)
  BY <1>1, <1>2, <1>4, <1>5, <1>6, <1>7, MarkedCommand
<1>9. /\ item = ItemOf(mirror, c, p)
      /\ Encoded(commands, Tail(wire), marks, rings, k + 1)
      /\ Tail(wire) \in Seq(ItemType) /\ Len(Tail(wire)) = Len(wire) - 1
  BY <1>1, <1>3, <1>4, <1>5, <1>6, <1>7, EncodedTail
<1>10. /\ item.literals = Bytes(base + p, c.insert) /\ item.copy = c.copy
       /\ item.code = IF c.copy = 0 THEN 0 ELSE CodeOf(mirror, c)
  BY <1>9 DEF ItemOf
<1>11. /\ input \in Seq(0..255) /\ base + end <= Len(input)
       /\ c.insert \in Nat /\ c.copy \in Nat /\ p \in Nat
  <2>1. input \in Seq(0..255) /\ base + FragmentLength <= Len(input) /\ FragmentLength \in Nat
    BY <1>1, FragmentLengthIs DEF FragmentTypes
  <2>2. base + end <= Len(input)
    BY <1>1, <2>1
  <2>3. c.insert \in Nat /\ c.copy \in Nat
    BY <1>8 DEF CommandType
  <2>4. p \in Nat
    BY <1>1, <1>8
  <2> QED
    BY <2>1, <2>2, <2>3, <2>4
<1>12. PICK at : at = base + p + c.insert
  OBVIOUS
<1>13. /\ at \in Nat /\ at <= Len(input) /\ at + c.copy <= Len(input)
       /\ at = base + (p + c.insert) /\ at + c.copy = base + marks[k + 1]
  <2>1. PICK i, n, m : i = c.insert /\ n = c.copy /\ m = marks[k + 1]
    OBVIOUS
  <2>2. /\ i \in Nat /\ n \in Nat /\ p \in Nat /\ base \in Nat /\ end \in Nat
        /\ base + end <= Len(input) /\ Len(input) \in Nat
    BY <1>1, <1>11, <2>1
  <2>3. m = p + i + n /\ m \in 0..end /\ at = base + p + i
    BY <1>8, <1>12, <2>1
  <2>4. /\ at \in Nat /\ at <= Len(input) /\ at + n <= Len(input)
        /\ at = base + (p + i) /\ at + n = base + m
    BY <2>2, <2>3
  <2> QED
    BY <2>1, <2>4
<1>14. text = Prefix(at)
  <2>1. Prefix(base + p) \o Bytes(base + p, c.insert) = Prefix(base + p + c.insert)
    <3>1. base + p \in Nat /\ base + p + c.insert <= Len(input)
      BY <1>1, <1>11, <1>12, <1>13
    <3> QED
      BY <1>11, <3>1, PrefixGrows
  <2> QED
    BY <1>3, <1>7, <1>10, <1>12, <2>1
<1>15. /\ pc' = "decode" /\ out' = Prefix(base + marks[k + 1])
       /\ mirror' = Remembered(mirror, c)
  <2>1. at + c.copy = base + marks[k + 1]
    BY <1>13
  <2>2. CASE c.copy = 0
    <3>1. at + c.copy = at
      BY <1>13, <2>2
    <3>2. out' = text /\ mirror' = mirror /\ pc' = pc
      BY <1>1, <1>10, <2>2
    <3> HIDE DEF text
    <3> QED
      BY <1>1, <1>14, <2>1, <2>2, <3>1, <3>2 DEF Remembered
  <2>3. CASE c.copy # 0
    <3>1. PICK d : d = c.distance
      OBVIOUS
    <3>2. /\ d \in 1..(p + c.insert) /\ d <= MaxBackward
          /\ SameBytes(at, at - d, c.copy) /\ d \in 1..at
      <4>1. PICK q : q = p + c.insert
        OBVIOUS
      <4>2. CopyHolds(c, q) /\ q \in Nat /\ at = base + q
        BY <1>8, <1>13, <4>1
      <4>3. /\ d \in 1..q /\ d <= MaxBackward
            /\ SameBytes(base + q, base + q - d, c.copy)
        BY <2>3, <3>1, <4>2 DEF CopyHolds
      <4>4. base + q = at /\ base + q - d = at - d /\ d \in 1..at
        <5>1. base \in Nat
          BY <1>1
        <5> QED
          BY <4>2, <4>3, <5>1
      <4>5. SameBytes(at, at - d, c.copy)
        BY <4>3, <4>4
      <4> QED
        BY <4>1, <4>3, <4>4, <4>5
    <3>3. MaxBackward \in Nat /\ FragmentSize \in Nat /\ FragmentSize <= 2 ^ 24
          /\ Gap \in Nat /\ Gap > 0 /\ MaxBackward = FragmentSize - Gap
      BY ConstantFacts
    <3>4. d \in Nat \ {0} /\ d < 2 ^ 24
      <4>1. 2 ^ 24 = 16777216
        OBVIOUS
      <4> QED
        BY <1>8, <3>2, <3>3, <4>1
    <3>5. item.code = ComputeCode(mirror, d, MaxBackward)
      BY <1>10, <2>3, <3>1 DEF CodeOf
    <3>6. value = d /\ (distance.push <=> item.code # 0)
      <4>1. LET code  == ComputeCode(mirror, d, MaxBackward)
                name  == SymbolOf(code, <<0, 0>>)
                named == NewDistance(mirror, name.symbol, 0, 0)
            IN  Resolve(named, name.extra, 0) = d /\ (named.push <=> code # 0)
        BY <1>4, <3>3, <3>4, NameDecodes
      <4> QED
        BY <3>5, <4>1
    <3> HIDE DEF value, distance, text, item
    <3>7. d \in 1..Min({Len(text), MaxBackward})
      <4>1. Len(text) = at
        BY <1>11, <1>13, <1>14, PrefixIs
      <4>2. d <= at
        BY <1>13, <3>2
      <4>3. Min({at, MaxBackward}) = IF at <= MaxBackward THEN at ELSE MaxBackward
        BY <1>13, <3>3, MinOfTwo
      <4> QED
        BY <1>13, <3>2, <3>3, <3>4, <4>1, <4>2, <4>3
    <3>8. /\ out' = Copied(text, c.copy, d) /\ pc' = pc
          /\ mirror' = IF distance.push THEN Pushed(mirror, d) ELSE mirror
      BY <1>1, <1>10, <2>3, <3>6, <3>7
    <3>9. Copied(Prefix(at), c.copy, d) = Prefix(at + c.copy)
      BY <1>11, <1>13, <3>2, CopyFollows
    <3>10. mirror' = Remembered(mirror, c)
      BY <2>3, <3>1, <3>5, <3>6, <3>8 DEF Remembered, CodeOf
    <3> QED
      BY <1>1, <1>14, <2>1, <3>8, <3>9, <3>10
  <2> QED
    BY <2>2, <2>3
<1> HIDE DEF item, text, coded, distance, value
<1>16. /\ k + 1 \in 0..Len(commands) /\ Len(wire') = Len(commands) - (k + 1)
       /\ mirror' = rings[k + 1] /\ IsRing(mirror')
  <2>1. k + 1 \in 0..Len(commands) /\ k + 1 \in 1..Len(commands) /\ (k + 1) - 1 = k
    BY <1>4, <1>5
  <2>2. rings[k + 1] = Remembered(rings[k], c) /\ IsRing(rings[k + 1])
    BY <1>2, <1>6, <2>1 DEF Rings
  <2>3. Len(wire') = Len(commands) - (k + 1)
    BY <1>1, <1>3, <1>4, <1>5, <1>9
  <2> QED
    BY <1>3, <1>15, <2>1, <2>2, <2>3
<1>17. PICK rest : rest = Tail(wire)
  OBVIOUS
<1>18. PICK next : next = k + 1
  OBVIOUS
<1>19. Decoding'
  <2>1. /\ Marks(commands, marks, start, end)'
        /\ Rings(commands, rings, snapshot, Len(commands))' /\ ring' = rings[Len(commands')]
    BY <1>1, <1>2 DEF Marks, CopyHolds, SameBytes, Byte, Rings, Remembered, CodeOf
  <2>2. Encoded(commands, rest, marks, rings, next)
    BY <1>9, <1>17, <1>18
  <2>3. Encoded(commands, wire, marks, rings, next)'
    BY <1>1, <1>17, <2>2 DEF Encoded, ItemOf, Bytes, CodeOf
  <2>4. mirror' = rings[next] /\ out' = Prefix(base + marks[next])'
    BY <1>1, <1>15, <1>16, <1>18 DEF Prefix
  <2>5. next \in 0..Len(commands') /\ Len(wire') = Len(commands') - next
    BY <1>1, <1>16, <1>18
  <2> QED
    BY <2>1, <2>3, <2>4, <2>5 DEF Decoding
<1>20. CodeTypes'
  BY <1>1, <1>4, <1>9, <1>16 DEF CodeTypes
<1>21. Following'
  BY <1>1, <1>15, <1>19 DEF Following
<1> QED
  BY <1>20, <1>21

\* A metablock decoded whole leaves the two sides alike.
LEMMA NextFollows ==
  ASSUME FragmentInv, NextMetaBlock PROVE CodeTypes' /\ Following'
<1>1. /\ CodeTypes /\ Following /\ pc = "decode" /\ pc' = "metablock" /\ wire = <<>>
      /\ start' = end /\ UNCHANGED <<input, base, commands, encoder, decoder>>
  BY DEF FragmentInv, NextMetaBlock
<1>2. PICK marks, rings :
        /\ Marks(commands, marks, start, end) /\ ring = rings[Len(commands)]
        /\ \E k \in 0..Len(commands) :
             Len(wire) = Len(commands) - k /\ mirror = rings[k] /\ out = Prefix(base + marks[k])
  BY <1>1 DEF Following, Decoding
<1>3. PICK k \in 0..Len(commands) :
        Len(wire) = Len(commands) - k /\ mirror = rings[k] /\ out = Prefix(base + marks[k])
  BY <1>2
<1>4. Len(wire) = 0 /\ Len(commands) \in Nat
  BY <1>1 DEF CodeTypes
<1>5. k = Len(commands)
  BY <1>3, <1>4
<1>6. mirror = ring /\ out = Prefix(base + end)
  BY <1>2, <1>3, <1>5 DEF Marks
<1>7. out' = Prefix(base + start)' /\ mirror' = ring'
  BY <1>1, <1>6 DEF Prefix, encoder, decoder
<1>8. CodeTypes'
  BY <1>1 DEF CodeTypes, encoder, decoder
<1>9. Following'
  BY <1>1, <1>7 DEF Following
<1> QED
  BY <1>8, <1>9

\* Nothing changes when nothing does.
LEMMA StutterFollows ==
  ASSUME FragmentInv, UNCHANGED fragmentVars PROVE CodeTypes' /\ Following'
<1>1. CodeTypes /\ Following
  BY DEF FragmentInv
<1>2. UNCHANGED <<input, base, start, end, search, commands, encoder, decoder, pc>>
  BY DEF fragmentVars
<1>3. CodeTypes'
  BY <1>1, <1>2 DEF CodeTypes, encoder, decoder
<1>4. /\ Encoding' <=> Encoding
      /\ Decoding' <=> Decoding
  BY <1>2 DEF Encoding, Decoding, Marks, CopyHolds, SameBytes, Byte, Rings, Remembered, CodeOf,
              Encoded, ItemOf, Bytes, Prefix, encoder, decoder
<1>5. Parsed(nextEmit)' <=> Parsed(nextEmit)
  BY <1>2 DEF Parsed, Marks, CopyHolds, SameBytes, Byte, search
<1>6. Prefix(base + start)' = Prefix(base + start)
  BY <1>2 DEF Prefix
<1>7. Following'
  BY <1>1, <1>2, <1>4, <1>5, <1>6 DEF Following, encoder, decoder
<1> QED
  BY <1>3, <1>7

LEMMA StepFollows ==
  ASSUME FragmentInv, [FragmentNext]_fragmentVars PROVE FragmentInv'
<1>1. SearchInv'
  BY StepSearches DEF FragmentInv
<1>2. ASSUME Copy PROVE CodeTypes' /\ Following'
  <2>1. pc = "copy" /\ TakeCopy(TRUE) /\ IsMatchAt(position, candidate)
    BY <1>2 DEF Copy, FragmentInv, SearchInv, Searching
  <2> QED
    BY <2>1, CopyCommandFollows
<1>3. ASSUME ChainCopy PROVE CodeTypes' /\ Following'
  <2>1. pc = "chain" /\ TakeCopy(FALSE) /\ IsMatchAt(position, candidate)
    BY <1>3 DEF ChainCopy, Chains
  <2> QED
    BY <2>1, CopyCommandFollows
<1>4. CodeTypes' /\ Following'
  BY <1>2, <1>3, BeginFollows, NextFragmentFollows, SearchFollows, TailFollows, EncodeFollows,
     CompressedFollows, StoredFollows, DecodeFollows, NextFollows, StutterFollows
  DEF FragmentNext
<1> QED
  BY <1>1, <1>4 DEF FragmentInv

\* Metablock by metablock, whichever are compressed and whichever stored, the
\* decoder is where the encoder is, by bytes and by recent distances.
THEOREM FragmentInvariance == FragmentSpec => []FragmentInv
<1>1. FragmentInit => FragmentInv
  BY InitSearches, InitFollows DEF FragmentInv
<1>2. FragmentInv /\ [FragmentNext]_fragmentVars => FragmentInv'
  BY StepFollows
<1> QED
  BY <1>1, <1>2, PTL DEF FragmentSpec

\* FragmentDecodes holds of the invariant.
LEMMA FollowingDecodes ==
  ASSUME FragmentInv PROVE FragmentDecodes
<1>1. /\ FragmentTypes /\ Searching /\ CodeTypes /\ Following /\ pc # "lost"
      /\ base \in Nat /\ start \in Nat /\ end \in Nat
  BY DEF FragmentInv, SearchInv, FragmentTypes, Following
<1>2. /\ input \in Seq(0..255) /\ FragmentLength \in Nat /\ base + FragmentLength <= Len(input)
      /\ start <= FragmentLength
  BY <1>1, FragmentLengthIs DEF FragmentTypes
<1>3. PICK n \in 0..Len(input) : out = Prefix(n) /\ (pc # "decode" => n = base + start)
  <2>1. CASE pc # "decode"
    <3>1. out = Prefix(base + start) /\ base + start \in 0..Len(input)
      BY <1>1, <1>2, <2>1 DEF Following
    <3> QED
      BY <2>1, <3>1
  <2>2. CASE pc = "decode"
    <3>1. PICK marks, k : /\ Marks(commands, marks, start, end) /\ k \in 0..Len(commands)
                          /\ out = Prefix(base + marks[k])
      BY <1>1, <2>2 DEF Following, Decoding
    <3>2. marks[k] \in 0..end /\ end <= FragmentLength
      BY <1>1, <2>2, <3>1 DEF Marks, Searching
    <3>3. base + marks[k] \in 0..Len(input)
      BY <1>1, <1>2, <3>2
    <3> QED
      BY <2>2, <3>1, <3>3
  <2> QED
    BY <2>1, <2>2
<1>4. Len(out) = n /\ IsPrefix(out, input)
  <2>1. out \in Seq(0..255) /\ Len(out) = n
    BY <1>2, <1>3, PrefixIs
  <2>2. SubSeq(out, 1, Len(out)) = out
    BY <2>1, SubSeqFull
  <2>3. SubSeq(input, 1, Len(out)) = out
    BY <1>3, <2>1 DEF Prefix
  <2>4. Len(out) <= Len(input)
    BY <1>2, <2>1
  <2> QED
    BY <2>1, <2>2, <2>3, <2>4 DEF IsPrefix
<1> QED
  BY <1>1, <1>3, <1>4 DEF FragmentDecodes, Following

\* The stream is decoded as it was given: at every metablock the decoder has all
\* the bytes so far and the encoder's recent distances, and no distance is one it
\* refuses (parse_fragment, emit_fragment_metablock).
THEOREM FragmentsDecode == FragmentSpec => []FragmentDecodes
BY FragmentInvariance, FollowingDecodes, PTL
=============================================================================
