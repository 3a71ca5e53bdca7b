---------------------------- MODULE GreedyProofs ----------------------------
(***************************************************************************)
(* Two parts of the greedy encoder. Of its match finder: what its unsafe   *)
(* reads rely on, and that its commands are decoded as they were parsed,   *)
(* for every bucket size, wrap of the counts, hash length, stride and      *)
(* reach; the bounds on copies, chunks and input play no part.             *)
(* And of its block splitter, with the decoder's block states: a symbol is *)
(* decoded under the type and within the length of its block, and type     *)
(* codes mean what the format says, for every number of types, every table *)
(* of block lengths and any stream of switch commands (BlockSwitch); of    *)
(* the blocks that the splitter makes, every symbol is written under a     *)
(* tree that counted it and read under the same tree, however it decides,  *)
(* for every number of symbols, of types and of symbols in a block.        *)
(***************************************************************************)
EXTENDS BlockSplitter, MatchFinder, Integers, SequenceTheorems, TLAPS

-----------------------------------------------------------------------------
(* MatchFinder: facts about numbers. *)

\* Two indices less than a bucket apart are different slots of it.
LEMMA SlotsDiffer ==
  ASSUME NEW c \in Nat, NEW d \in Nat, NEW b \in Nat \ {0}, d < c, c < d + b
  PROVE  c % b # d % b
<1> DEFINE qc == c \div b  rc == c % b  qd == d \div b  rd == d % b
<1>1. /\ qc \in Int /\ rc \in Int /\ qd \in Int /\ rd \in Int
      /\ c = b * qc + rc /\ d = b * qd + rd
      /\ 0 <= rc /\ rc < b /\ 0 <= rd /\ rd < b
  OBVIOUS
<1>2. SUFFICES ASSUME rc = rd PROVE FALSE
  OBVIOUS
<1>3. b * (qc - qd) = c - d
  BY <1>1, <1>2
<1>4. CASE qc - qd <= 0
  <2>1. b * (qc - qd) <= 0
    BY <1>1, <1>4
  <2> QED
    BY <2>1, <1>3
<1>5. CASE qc - qd >= 1
  <2>1. b * (qc - qd) >= b
    BY <1>1, <1>5
  <2> QED
    BY <2>1, <1>3
<1> QED
  BY <1>1, <1>4, <1>5

\* An index is a slot of its bucket.
LEMMA SlotInBucket ==
  ASSUME NEW c \in Nat, NEW b \in Nat \ {0}
  PROVE  c % b \in 0..(b - 1) /\ (c < b => c % b = c)
OBVIOUS

\* What a multiple adds makes no difference.
LEMMA MultipleAndRest ==
  ASSUME NEW b \in Nat \ {0}, NEW q \in Int, NEW i \in 0..(b - 1)
  PROVE  (b * q + i) % b = i
OBVIOUS

\* A count goes on by one, or wraps to nothing.
LEMMA CountNext ==
  ASSUME NEW c \in Nat, NEW w \in Nat \ {0}, c < w
  PROVE  /\ (c + 1) % w = (IF c + 1 = w THEN 0 ELSE c + 1)
         /\ (c + 1) % w \in 0..(w - 1) /\ (c + 1) % w <= c + 1
<1>1. (c + 1) % w = (IF c + 1 = w THEN 0 ELSE c + 1)
  OBVIOUS
<1> QED
  BY <1>1

\* A slot behind the count is one within it, and within the bucket.
LEMMA SlotWithin ==
  ASSUME NEW c \in Nat, NEW b \in Nat \ {0}, NEW j \in 1..Least(c, b)
  PROVE  (c - j) % b \in 0..(b - 1) /\ (c - j) % b < Least(c, b)
<1>1. j \in Nat /\ 1 <= j /\ j <= c /\ j <= b /\ c - j \in Nat
  BY DEF Least
<1>2. (c - j) % b \in 0..(b - 1)
  BY <1>1, SlotInBucket
<1>3. CASE c < b
  <2>1. c - j < b
    BY <1>1, <1>3
  <2>2. (c - j) % b = c - j
    BY <1>1, <2>1, SlotInBucket
  <2> QED
    BY <1>1, <1>2, <1>3, <2>2 DEF Least
<1>4. CASE ~ (c < b)
  BY <1>2, <1>4 DEF Least
<1> QED
  BY <1>3, <1>4

\* And every slot within the count is some store behind it.
LEMMA SlotReached ==
  ASSUME NEW c \in Nat, NEW b \in Nat \ {0}, NEW i \in Nat, i < Least(c, b)
  PROVE  \E j \in 1..Least(c, b) : (c - j) % b = i
<1>1. i < c /\ i < b
  BY DEF Least
<1>2. CASE c < b
  <2>1. c - i \in 1..Least(c, b) /\ c - (c - i) = i
    BY <1>1, <1>2 DEF Least
  <2>2. i % b = i
    BY <1>1, SlotInBucket
  <2> QED
    BY <2>1, <2>2
<1>3. CASE ~ (c < b)
  <2> DEFINE m == c - 1 - i  q == m \div b  r == m % b  j == r + 1
  <2>1. m \in Nat
    BY <1>1
  <2>2. q \in Int /\ r \in Nat /\ r < b /\ m = b * q + r
    BY <2>1
  <2>3. j \in 1..Least(c, b)
    BY <1>3, <2>2 DEF Least
  <2> HIDE DEF q, r
  <2>4. c - j = b * q + i
    BY <2>2
  <2>5. (b * q + i) % b = i
    BY <1>1, <2>2, MultipleAndRest
  <2> QED
    BY <2>3, <2>4, <2>5
<1> QED
  BY <1>2, <1>3

-----------------------------------------------------------------------------
(* The hasher. *)

\* What an appended sequence holds.
LEMMA Appended ==
  ASSUME NEW s \in Seq(Nat), NEW e \in Nat
  PROVE  /\ Append(s, e) \in Seq(Nat) /\ Len(Append(s, e)) = Len(s) + 1
         /\ Append(s, e) # <<>> /\ Append(s, e)[Len(s) + 1] = e
         /\ \A i \in 1..Len(s) : Append(s, e)[i] = s[i]
         /\ Len(s) \in Nat /\ (s # <<>> => Len(s) > 0)
         /\ \A i \in 1..Len(s) : s[i] \in Nat
<1>1. Len(s) \in Nat /\ \A i \in 1..Len(s) : s[i] \in Nat
  BY LenProperties, ElementOfSeq
<1>2. /\ Append(s, e) \in Seq(Nat) /\ Len(Append(s, e)) = Len(s) + 1
      /\ Append(s, e)[Len(s) + 1] = e
      /\ \A i \in 1..Len(s) : Append(s, e)[i] = s[i]
  BY AppendProperties
<1>3. Append(s, e) # <<>> /\ (s # <<>> => Len(s) > 0)
  BY <1>2, EmptySeq, LenProperties
<1> QED
  BY <1>1, <1>2, <1>3

\* The slots f of a bucket within its count c hold the last positions of s, as
\* SlotsHold says of the bucket of a key.
Holds(f, b, c, s, bs, none, j) ==
  f[(c - j) % b] = IF s[Len(s) - j + 1] < bs THEN none ELSE s[Len(s) - j + 1] - bs
BucketHolds(f, b, c, s, bs, none) ==
  \A j \in 1..Least(c, b) : Holds(f, b, c, s, bs, none, j)

LEMMA BucketOfKey ==
  ASSUME NEW key
  PROVE  SlotsHold(key)
           <=> BucketHolds(slots[key], BlockSize, counts[key], stored[key], base, NoPosition)
BY DEF SlotsHold, BucketHolds, Holds, Slot, Renumbered

\* The bucket after a store: the slot written is none of those that hold the
\* positions stored before.
LEMMA BucketStored ==
  ASSUME NEW c \in Nat, NEW w \in Nat \ {0}, c < w, NEW b \in Nat \ {0},
         NEW s \in Seq(Nat), c <= Len(s), NEW V, NEW f \in [0..(b - 1) -> V],
         NEW none, NEW bs \in Nat, NEW p \in Nat,
         BucketHolds(f, b, c, s, bs, none)
  PROVE  BucketHolds([f EXCEPT ![c % b] = p], b, (c + 1) % w, Append(s, bs + p), bs, none)
<1> DEFINE f2 == [f EXCEPT ![c % b] = p]
           s2 == Append(s, bs + p)
           n  == Len(s)
<1>1. /\ n \in Nat /\ bs + p \in Nat /\ Len(s2) = n + 1
      /\ s2[n + 1] = bs + p
      /\ \A i \in 1..n : s2[i] = s[i]
  BY Appended
<1>2. c % b \in 0..(b - 1)
  BY SlotInBucket
<1>3. /\ f2[c % b] = p
      /\ \A i \in 0..(b - 1) : i # c % b => f2[i] = f[i]
  BY <1>2
<1>4. c <= n
  OBVIOUS
<1> HIDE DEF f2, s2, n
<1>5. CASE c + 1 = w
  <2>1. (c + 1) % w = 0
    BY <1>5, CountNext
  <2> QED
    BY <2>1 DEF BucketHolds, Least
<1>6. CASE c + 1 # w
  <2>1. (c + 1) % w = c + 1
    BY <1>6, CountNext
  <2>2. SUFFICES ASSUME NEW j \in 1..Least(c + 1, b)
                 PROVE  Holds(f2, b, c + 1, s2, bs, none, j)
    BY <2>1 DEF BucketHolds, f2, s2
  <2>3. /\ j \in Nat /\ 1 <= j /\ j <= c + 1 /\ j <= b
        /\ j # 1 => /\ j - 1 \in 1..Least(c, b) /\ c + 1 - j = c - (j - 1)
                    /\ n + 1 - j + 1 \in 1..n
                    /\ n - (j - 1) + 1 = n + 1 - j + 1
    <3>1. j \in Nat /\ 1 <= j /\ j <= c + 1 /\ j <= b
      BY DEF Least
    <3>2. j # 1 => j - 1 \in 1..Least(c, b)
      BY <3>1 DEF Least
    <3>3. c + 1 - j = c - (j - 1) /\ n - (j - 1) + 1 = n + 1 - j + 1
      BY <1>1, <3>1
    <3>4. j # 1 => n + 1 - j + 1 \in 1..n
      BY <1>1, <1>4, <3>1
    <3> QED
      BY <3>1, <3>2, <3>3, <3>4
  <2>4. c + 1 - j \in Nat /\ c < (c + 1 - j) + b
    BY <2>3
  <2>5. (c + 1 - j) % b \in 0..(b - 1)
    BY <2>4, SlotInBucket
  <2>6. CASE j = 1
    <3>1. f2[(c + 1 - j) % b] = p
      <4>1. c + 1 - j = c
        BY <2>6
      <4> QED
        BY <1>3, <4>1
    <3>2. s2[Len(s2) - j + 1] = bs + p
      BY <1>1, <2>6
    <3>3. ~ (bs + p < bs) /\ (bs + p) - bs = p
      OBVIOUS
    <3> QED
      BY <3>1, <3>2, <3>3 DEF Holds
  <2>7. CASE j # 1
    <3>1. (c + 1 - j) % b # c % b
      <4>1. c + 1 - j < c
        BY <2>3, <2>7
      <4> QED
        BY <2>4, <4>1, SlotsDiffer
    <3>2. f2[(c + 1 - j) % b] = f[(c - (j - 1)) % b]
      BY <1>3, <2>3, <2>5, <2>7, <3>1
    <3>3. Holds(f, b, c, s, bs, none, j - 1)
      BY <2>3, <2>7 DEF BucketHolds
    <3>4. s2[Len(s2) - j + 1] = s[n - (j - 1) + 1]
      BY <1>1, <2>3, <2>7
    <3> DEFINE x == s[n - (j - 1) + 1]
    <3>5. f[(c - (j - 1)) % b] = IF x < bs THEN none ELSE x - bs
      BY <3>3 DEF Holds, n
    <3>6. s2[Len(s2) - j + 1] = x
      BY <3>4
    <3> HIDE DEF x
    <3> QED
      BY <3>2, <3>5, <3>6 DEF Holds
  <2> QED
    BY <2>6, <2>7
<1> QED
  BY <1>5, <1>6

\* Of what ascends, the last is the most.
LEMMA LastIsMost ==
  ASSUME NEW s \in Seq(Nat), \A i, j \in 1..Len(s) : i < j => s[i] < s[j],
         NEW i \in 1..Len(s)
  PROVE  s[i] \in Nat /\ s[i] <= s[Len(s)]
<1>1. Len(s) \in Nat /\ Len(s) \in 1..Len(s) /\ \A k \in 1..Len(s) : s[k] \in Nat
  BY LenProperties, ElementOfSeq
<1>2. i = Len(s) \/ i < Len(s)
  BY <1>1
<1> QED
  BY <1>1, <1>2

\* The positions stored ascend as long as none is before the last.
LEMMA AppendAscends ==
  ASSUME NEW s \in Seq(Nat), NEW e \in Nat, s # <<>> => s[Len(s)] < e,
         \A i, j \in 1..Len(s) : i < j => s[i] < s[j],
         NEW s2, s2 = Append(s, e),
         NEW i \in 1..Len(s2), NEW j \in 1..Len(s2), i < j
  PROVE  s2[i] < s2[j]
<1>1. /\ Len(s) \in Nat /\ Len(s2) = Len(s) + 1
      /\ s2[Len(s) + 1] = e
      /\ \A k \in 1..Len(s) : s2[k] = s[k]
  BY Appended
<1>2. i \in 1..Len(s)
  BY <1>1
<1>3. CASE j = Len(s) + 1
  <2>1. s # <<>>
    BY <1>1, <1>2, EmptySeq
  <2>2. s[i] \in Nat /\ s[i] <= s[Len(s)] /\ s[Len(s)] \in Nat
    BY <1>1, <1>2, LastIsMost
  <2> QED
    BY <1>1, <1>2, <1>3, <2>1, <2>2
<1>4. CASE j # Len(s) + 1
  <2>1. j \in 1..Len(s)
    BY <1>1, <1>4
  <2> QED
    BY <1>1, <1>2, <2>1
<1> QED
  BY <1>3, <1>4

\* Nothing stored at or past x, as StoredBefore says of a key.
Before(s, x) == s # <<>> => s[Len(s)] < x

LEMMA BeforeLater ==
  ASSUME NEW s \in Seq(Nat), NEW x \in Nat, NEW y \in Nat, x <= y, Before(s, x)
  PROVE  Before(s, y)
<1>1. SUFFICES ASSUME s # <<>> PROVE s[Len(s)] < y
  BY DEF Before
<1>2. Len(s) \in 1..Len(s)
  BY <1>1, EmptySeq
<1>3. s[Len(s)] \in Nat
  BY <1>2, ElementOfSeq
<1> QED
  BY <1>1, <1>3 DEF Before

\* The hasher's part of the invariant.
HasherOK ==
  /\ counts \in [Keys -> 0..(CountWrap - 1)]
  /\ slots \in [Keys -> [0..(BlockSize - 1) -> Nat \cup {Unset, NoPosition}]]
  /\ stored \in [Keys -> Seq(Nat)]
  /\ CountsFollow
  /\ \A key \in Keys : SlotsHold(key) /\ Ascending(key)

\* A store keeps the hasher true, and the next may follow it anywhere after.
LEMMA StoreKeeps ==
  ASSUME HasherOK, base \in Nat, base' = base, NEW key \in Keys, NEW p \in Nat,
         NEW q \in Nat, p < q,
         \A k \in Keys : StoredBefore(k, p),
         Store(key, p)
  PROVE  HasherOK' /\ \A k \in Keys : Before(stored'[k], base + q)
<1> DEFINE c == counts[key]
           s == stored[key]
<1>1. /\ c \in Nat /\ c < CountWrap /\ c <= Len(s)
      /\ CountWrap \in Nat \ {0} /\ BlockSize \in Nat \ {0}
      /\ s \in Seq(Nat)
      /\ slots[key] \in [0..(BlockSize - 1) -> Nat \cup {Unset, NoPosition}]
  BY FinderAssumption DEF HasherOK, CountsFollow
<1>2. /\ counts' = [counts EXCEPT ![key] = (c + 1) % CountWrap]
      /\ stored' = [stored EXCEPT ![key] = Append(s, base + p)]
      /\ slots' = [slots EXCEPT ![key] = [slots[key] EXCEPT ![c % BlockSize] = p]]
  BY DEF Store, HasherOK
<1>3. /\ counts'[key] = (c + 1) % CountWrap
      /\ stored'[key] = Append(s, base + p)
      /\ slots'[key] = [slots[key] EXCEPT ![c % BlockSize] = p]
      /\ \A k \in Keys : k # key => /\ counts'[k] = counts[k]
                                    /\ stored'[k] = stored[k]
                                    /\ slots'[k] = slots[k]
  BY <1>2 DEF HasherOK
<1>4. SlotsHold(key) /\ Ascending(key) /\ StoredBefore(key, p)
  BY DEF HasherOK
<1>5. base + p \in Nat
  OBVIOUS
<1>6. /\ (c + 1) % CountWrap \in 0..(CountWrap - 1)
      /\ (c + 1) % CountWrap <= c + 1
  <2> HIDE DEF c
  <2> QED
    BY <1>1, CountNext
<1>7. c % BlockSize \in 0..(BlockSize - 1)
  <2> HIDE DEF c
  <2> QED
    BY <1>1, SlotInBucket
<1>8. /\ Append(s, base + p) \in Seq(Nat) /\ Append(s, base + p) # <<>>
      /\ Len(Append(s, base + p)) = Len(s) + 1 /\ Len(s) \in Nat
      /\ Append(s, base + p)[Len(s) + 1] = base + p
  <2> HIDE DEF s
  <2> QED
    BY <1>1, <1>5, Appended
<1>9. /\ counts' \in [Keys -> 0..(CountWrap - 1)]
      /\ stored' \in [Keys -> Seq(Nat)]
      /\ slots' \in [Keys -> [0..(BlockSize - 1) -> Nat \cup {Unset, NoPosition}]]
  BY <1>1, <1>2, <1>6, <1>7, <1>8 DEF HasherOK
<1>10. CountsFollow'
  <2>1. counts'[key] <= Len(stored'[key])
    <3>1. (c + 1) % CountWrap <= Len(s) + 1
      <4> DEFINE m == (c + 1) % CountWrap
      <4>1. m \in Nat /\ m <= c + 1
        BY <1>1, <1>6
      <4>2. c \in Nat /\ c <= Len(s) /\ Len(s) \in Nat
        BY <1>1, <1>8
      <4>3. m <= Len(s) + 1
        <5> HIDE DEF m, c, s
        <5> QED
          BY <4>1, <4>2
      <4> QED
        BY <4>3
    <3> QED
      BY <1>3, <1>8, <3>1
  <2> QED
    BY <1>3, <2>1 DEF HasherOK, CountsFollow
<1>11. SlotsHold(key)'
  <2>1. BucketHolds(slots[key], BlockSize, c, s, base, NoPosition)
    BY <1>4, BucketOfKey
  <2>2. BucketHolds([slots[key] EXCEPT ![c % BlockSize] = p], BlockSize,
                    (c + 1) % CountWrap, Append(s, base + p), base, NoPosition)
    <3> HIDE DEF c, s
    <3> QED
      BY <1>1, <2>1, BucketStored
  <2>3. BucketHolds(slots[key]', BlockSize, counts[key]', stored[key]', base', NoPosition)
    BY <1>3, <2>2
  <2> QED
    BY <2>3 DEF SlotsHold, BucketHolds, Holds, Slot, Renumbered
<1>12. Ascending(key)'
  <2>1. s # <<>> => s[Len(s)] < base + p
    BY <1>4 DEF StoredBefore
  <2>2. \A i, j \in 1..Len(s) : i < j => s[i] < s[j]
    BY <1>4 DEF Ascending
  <2>3. \A i, j \in 1..Len(Append(s, base + p)) :
          i < j => Append(s, base + p)[i] < Append(s, base + p)[j]
    <3> HIDE DEF s
    <3> QED
      BY <1>1, <1>5, <2>1, <2>2, AppendAscends
  <2> QED
    BY <1>3, <2>3 DEF Ascending
<1>13. ASSUME NEW k \in Keys, k # key PROVE SlotsHold(k)' /\ Ascending(k)'
  <2>1. SlotsHold(k) /\ Ascending(k)
    BY DEF HasherOK
  <2> QED
    BY <1>3, <1>13, <2>1 DEF SlotsHold, Ascending, Slot, Renumbered
<1>14. ASSUME NEW k \in Keys PROVE Before(stored'[k], base + q)
  <2>1. CASE k = key
    <3>1. stored'[k] = Append(s, base + p) /\ s \in Seq(Nat)
      BY <1>3, <1>8, <2>1
    <3> HIDE DEF s
    <3>2. Append(s, base + p)[Len(Append(s, base + p))] = base + p
      BY <1>1, <3>1
    <3> QED
      BY <1>1, <3>1, <3>2 DEF Before
  <2>2. CASE k # key
    <3>1. stored[k] \in Seq(Nat) /\ stored'[k] = stored[k] /\ Before(stored[k], base + p)
      BY <1>3, <2>2 DEF HasherOK, StoredBefore, Before
    <3> QED
      BY <1>5, <3>1, BeforeLater
  <2> QED
    BY <2>1, <2>2
<1> QED
  BY <1>9, <1>10, <1>11, <1>12, <1>13, <1>14 DEF HasherOK

\* Compaction renumbers what is within the count, and only there may a scan read.
LEMMA CompactKeeps ==
  ASSUME HasherOK, base \in Nat, NEW d \in Nat,
         slots' = [k \in Keys |-> Remap(k, d)], counts' = counts, stored' = stored,
         base' = base + d
  PROVE  HasherOK'
<1>1. slots' \in [Keys -> [0..(BlockSize - 1) -> Nat \cup {Unset, NoPosition}]]
  <2>1. SUFFICES ASSUME NEW k \in Keys, NEW i \in 0..(BlockSize - 1)
                 PROVE  Remap(k, d)[i] \in Nat \cup {Unset, NoPosition}
    BY DEF Remap
  <2> DEFINE c == counts[k]
  <2>2. slots[k][i] \in Nat \cup {Unset, NoPosition}
    BY DEF HasherOK
  <2>3. CASE i >= Least(c, BlockSize)
    BY <2>2, <2>3 DEF Remap
  <2>4. CASE i < Least(c, BlockSize)
    <3>1. c \in Nat /\ BlockSize \in Nat \ {0} /\ i \in Nat
          /\ stored[k] \in Seq(Nat) /\ c <= Len(stored[k])
      BY FinderAssumption DEF HasherOK, CountsFollow
    <3>2. PICK j \in 1..Least(c, BlockSize) : (c - j) % BlockSize = i
      <4> HIDE DEF c
      <4> QED
        BY <2>4, <3>1, SlotReached
    <3> DEFINE p == stored[k][Len(stored[k]) - j + 1]
    <3>3. slots[k][i] = IF p < base THEN NoPosition ELSE p - base
      BY <3>2 DEF HasherOK, SlotsHold, Slot, Renumbered
    <3>4. p \in Nat
      <4>1. Len(stored[k]) - j + 1 \in 1..Len(stored[k])
        BY <3>1, LenProperties DEF Least
      <4> QED
        BY <3>1, <4>1, ElementOfSeq
    <3>5. slots[k][i] \in Nat \cup {NoPosition}
      <4> HIDE DEF p
      <4> QED
        BY <3>3, <3>4
    <3> QED
      BY <3>5 DEF Remap
  <2>5. Least(c, BlockSize) \in Int
    BY FinderAssumption DEF HasherOK, Least
  <2> QED
    BY <2>3, <2>4, <2>5
<1>2. ASSUME NEW key \in Keys PROVE SlotsHold(key)'
  <2> DEFINE c == counts[key]
  <2>1. c \in Nat /\ BlockSize \in Nat \ {0} /\ NoPosition \notin Nat
        /\ stored[key] \in Seq(Nat) /\ c <= Len(stored[key])
    BY FinderAssumption DEF HasherOK, CountsFollow
  <2>2. SUFFICES ASSUME NEW j \in 1..Least(c, BlockSize)
                 PROVE  slots'[key][(c - j) % BlockSize]
                          = LET p == stored[key][Len(stored[key]) - j + 1]
                            IN IF p < base + d THEN NoPosition ELSE p - (base + d)
    BY DEF SlotsHold, Slot, Renumbered
  <2> DEFINE i == (c - j) % BlockSize
             p == stored[key][Len(stored[key]) - j + 1]
  <2>3. slots[key][i] = IF p < base THEN NoPosition ELSE p - base
    BY DEF HasherOK, SlotsHold, Slot, Renumbered
  <2>4. i \in 0..(BlockSize - 1) /\ i < Least(c, BlockSize)
    <3> HIDE DEF c
    <3> QED
      BY <2>1, SlotWithin
  <2>5. p \in Nat
    <3>1. Len(stored[key]) - j + 1 \in 1..Len(stored[key])
      BY <2>1, LenProperties DEF Least
    <3> QED
      BY <2>1, <3>1, ElementOfSeq
  <2>6. slots'[key][i] = IF slots[key][i] = NoPosition \/ slots[key][i] < d
                           THEN NoPosition ELSE slots[key][i] - d
    <3>1. slots'[key] = Remap(key, d)
      OBVIOUS
    <3>2. Least(c, BlockSize) \in Nat
      BY <2>1 DEF Least
    <3> HIDE DEF i
    <3> QED
      BY <2>4, <3>1, <3>2 DEF Remap
  <2> HIDE DEF c, i, p
  <2>7. CASE p < base
    <3>1. p < base + d
      BY <2>5, <2>7
    <3> QED
      BY <2>3, <2>6, <2>7, <3>1 DEF i, p
  <2>8. CASE ~ (p < base)
    <3>1. slots[key][i] = p - base /\ p - base \in Nat /\ slots[key][i] # NoPosition
      BY <2>1, <2>3, <2>5, <2>8
    <3>2. p - base < d <=> p < base + d
      BY <2>5
    <3>3. (p - base) - d = p - (base + d)
      BY <2>5
    <3> QED
      BY <2>6, <3>1, <3>2, <3>3 DEF i, p
  <2> QED
    BY <2>7, <2>8
<1>3. ASSUME NEW key \in Keys PROVE Ascending(key)'
  BY DEF HasherOK, Ascending
<1> QED
  BY <1>1, <1>2, <1>3 DEF HasherOK, CountsFollow

-----------------------------------------------------------------------------
(* The parse.  What a step must keep: the hasher, the numbers and where they  *)
(* stand to each other, and that no store goes back.  The properties follow.  *)

NumbersOK ==
  /\ end \in Nat /\ position \in Nat /\ insertStart \in Nat /\ insertLength \in Nat
  /\ heuristics \in Nat /\ delays \in Nat /\ base \in Nat /\ decoded \in Nat
  /\ match \in [length : Nat, distance : Nat]
  /\ range \in [first : Nat, stop : Nat, stride : Nat \ {0}]
  /\ pc \in {"idle", "search", "lazy", "take", "store", "skip"}

IdleAtEnd == pc = "idle" => decoded = base + end

Core == HasherOK /\ NumbersOK /\ InChunk /\ RangeFits /\ IdleAtEnd /\ Onwards

LEMMA InvIsCore == IInv <=> Core
<1>1. IInv => Core
  BY DEF IInv, TypeOK, Core, HasherOK, NumbersOK, IdleAtEnd, UnsafeReadsHold, SlotsAreTrue,
         CommandsDecode
<1>2. ASSUME Core PROVE IInv
  <2>1. TypeOK
    BY <1>2 DEF Core, TypeOK, HasherOK, NumbersOK
  <2>2. SlotsAreTrue
    <3>1. pc \in {"search", "lazy"} => Frontier = Start
      BY DEF Frontier, Start
    <3> QED
      BY <1>2, <3>1 DEF Core, HasherOK, SlotsAreTrue, Onwards
  <2>3. HashesFit
    <3>1. HashLength \in Nat \ {0}
      BY FinderAssumption
    <3> QED
      BY <1>2, <3>1 DEF Core, NumbersOK, InChunk, RangeFits, HashesFit, Searchable
  <2>4. CommandsDecode
    <3>1. MaxBackward \in Nat \ {0}
      BY FinderAssumption
    <3> QED
      BY <1>2, <3>1 DEF Core, NumbersOK, InChunk, IdleAtEnd, CommandsDecode, Reach, Least
  <2> QED
    BY <1>2, <2>1, <2>2, <2>3, <2>4 DEF IInv, UnsafeReadsHold, Core, HasherOK
<1> QED
  BY <1>1, <1>2

\* What an action without a store leaves true.
LEMMA NoStore ==
  ASSUME Core, UNCHANGED <<hasher, base>>
  PROVE  /\ HasherOK'
         /\ Frontier' \in Nat /\ Frontier <= Frontier' => Onwards'
<1>1. HasherOK'
  BY DEF Core, hasher, HasherOK, CountsFollow, SlotsHold, Ascending, Slot, Renumbered
<1>2. ASSUME Frontier' \in Nat, Frontier <= Frontier' PROVE Onwards'
  <2>1. Frontier \in Nat /\ base \in Nat
    BY DEF Core, NumbersOK, Frontier
  <2>2. base + Frontier \in Nat /\ base + Frontier' \in Nat
        /\ base + Frontier <= base + Frontier'
    <3> DEFINE f == Frontier  g == Frontier'
    <3>1. f \in Nat /\ g \in Nat /\ f <= g /\ base \in Nat
      BY <1>2, <2>1
    <3> HIDE DEF f, g
    <3>2. base + f \in Nat /\ base + g \in Nat /\ base + f <= base + g
      BY <3>1
    <3> QED
      BY <3>2 DEF f, g
  <2>3. ASSUME NEW k \in Keys PROVE Before(stored[k], base + Frontier')
    <3>1. stored[k] \in Seq(Nat) /\ Before(stored[k], base + Frontier)
      BY DEF Core, HasherOK, Onwards, StoredBefore, Before
    <3> QED
      BY <2>2, <3>1, BeforeLater
  <2>4. stored' = stored /\ base' = base
    BY DEF hasher
  <2> QED
    BY <2>3, <2>4 DEF Onwards, StoredBefore, Before
<1> QED
  BY <1>1, <1>2

\* What a store at or past the frontier leaves true.
LEMMA OneStore ==
  ASSUME Core, base' = base, NEW key \in Keys, NEW p \in Nat, Frontier <= p,
         NEW q \in Nat, p < q, Frontier' = q, Store(key, p)
  PROVE  HasherOK' /\ Onwards'
<1>1. HasherOK /\ base \in Nat /\ Frontier \in Nat
  BY DEF Core, NumbersOK, Frontier
<1>2. \A k \in Keys : StoredBefore(k, p)
  <2>1. SUFFICES ASSUME NEW k \in Keys PROVE Before(stored[k], base + p)
    BY DEF StoredBefore, Before
  <2>2. stored[k] \in Seq(Nat) /\ Before(stored[k], base + Frontier)
    BY DEF Core, HasherOK, Onwards, StoredBefore, Before
  <2>3. base + Frontier \in Nat /\ base + p \in Nat /\ base + Frontier <= base + p
    BY <1>1
  <2> QED
    BY <2>2, <2>3, BeforeLater
<1>3. HasherOK' /\ \A k \in Keys : Before(stored'[k], base + q)
  BY <1>1, <1>2, StoreKeeps
<1> QED
  BY <1>3 DEF Onwards, StoredBefore, Before

LEMMA Constants ==
  /\ BlockSize \in Nat \ {0} /\ HashLength \in Nat \ {0} /\ MaxBackward \in Nat \ {0}
  /\ SearchDepth \in Nat /\ MaxLazy \in Nat /\ Window \in Nat /\ Skips \in Nat
  /\ Strides[1] \in Nat \ {0} /\ Strides[2] \in Nat \ {0}
  /\ Sparse \in Nat \ {0} /\ Recents \subseteq Nat \ {0}
  /\ Lengths \subseteq Nat \ {0, 1} /\ NoPosition \notin Nat
<1>1. Strides[1] \in Nat \ {0} /\ Strides[2] \in Nat \ {0}
  <2>1. 1 \in 1..Len(Strides) /\ 2 \in 1..Len(Strides)
    BY FinderAssumption
  <2> QED
    BY <2>1, FinderAssumption, ElementOfSeq
<1> QED
  BY <1>1, FinderAssumption

\* A match found is within the chunk, its distance a number: what a scan reads
\* lies before the position searched from.
LEMMA MatchFits ==
  ASSUME Core, NEW key \in Keys, NEW p \in Nat, Frontier <= p, NEW m \in Found(key, p)
  PROVE  /\ m \in [length : Nat, distance : Nat] /\ m.length >= 2 /\ p + m.length <= end
         /\ m.distance > 0
<1>1. /\ m.length \in Lengths
      /\ m.distance \in {d \in Recents : d <= Reach(p)} \cup Candidates(key, p) \cup {Reach(p) + 1}
      /\ m.length <= end - p
      /\ m = [length |-> m.length, distance |-> m.distance]
  BY DEF Found
<1>2. m.length \in Nat /\ m.length >= 2 /\ p + m.length <= end
  BY <1>1, Constants DEF Core, NumbersOK
<1>3. m.distance \in Nat /\ m.distance > 0
  <2>1. Reach(p) + 1 \in Nat /\ Reach(p) + 1 > 0
    BY Constants DEF Reach, Least
  <2>2. ASSUME NEW d \in Candidates(key, p) PROVE d \in Nat /\ d > 0
    <3> DEFINE c == counts[key]
               n == Len(stored[key])
    <3>1. PICK i \in Scanned(key) : d = p - Slot(key, i) /\ Slot(key, i) # NoPosition
      BY DEF Candidates
    <3>2. /\ c \in Nat /\ n \in Nat /\ c <= n /\ base \in Nat /\ stored[key] \in Seq(Nat)
          /\ BlockSize \in Nat \ {0} /\ SearchDepth \in Nat
      BY Constants, LenProperties DEF Core, HasherOK, CountsFollow, NumbersOK
    <3>3. i \in Int /\ c - i \in 1..Least(c, BlockSize) /\ c - (c - i) = i
      <4>1. i \in Minus(c, Least(SearchDepth, BlockSize))..(c - 1)
        BY <3>1 DEF Scanned
      <4> HIDE DEF c
      <4> QED
        BY <3>2, <4>1 DEF Minus, Least
    <3> DEFINE x == stored[key][n - (c - i) + 1]
    <3>4. Slot(key, i) = IF x < base THEN NoPosition ELSE x - base
      <4>1. Slot(key, c - (c - i)) = Renumbered(x)
        BY <3>3 DEF Core, HasherOK, SlotsHold
      <4> QED
        BY <3>3, <4>1 DEF Renumbered
    <3>5. n - (c - i) + 1 \in 1..n /\ n > 0
      <4> HIDE DEF c, n
      <4> QED
        BY <3>2, <3>3 DEF Least
    <3>6. x \in Nat /\ x <= stored[key][n]
      BY <3>2, <3>5, LastIsMost DEF Core, HasherOK, Ascending
    <3>7. stored[key] # <<>>
      BY <3>2, <3>5, EmptySeq
    <3>8. stored[key][n] < base + Frontier /\ stored[key][n] \in Nat
      BY <3>2, <3>5, <3>7, ElementOfSeq DEF Core, Onwards, StoredBefore
    <3>9. Frontier \in Nat
      BY DEF Core, NumbersOK, Frontier
    <3> HIDE DEF x
    <3> DEFINE y == stored[key][n]
    <3>10. x < base + p
      <4> HIDE DEF y
      <4>1. y < base + Frontier /\ x <= y /\ x \in Nat /\ y \in Nat
        BY <3>6, <3>8 DEF y
      <4> QED
        BY <3>2, <3>9, <4>1
    <3>11. ~ (x < base) /\ Slot(key, i) = x - base
      BY <3>1, <3>4
    <3> QED
      BY <3>1, <3>2, <3>6, <3>10, <3>11
  <2> QED
    BY <1>1, <2>1, <2>2, Constants
<1> QED
  BY <1>1, <1>2, <1>3

-----------------------------------------------------------------------------
(* One lemma for each action. *)

LEMMA ParseChunkKeeps ==
  ASSUME Core, NEW n \in 1..MaxChunk, ParseChunk(n), n \in Nat
  PROVE  Core'
<1>1. /\ pc = "idle" /\ end' = end + n /\ position' = end /\ insertStart' = end
      /\ insertLength' = 0 /\ UNCHANGED <<heuristics, match, delays, range, base>>
      /\ pc' = IF end + n <= HashLength THEN "idle" ELSE "search"
      /\ decoded' = IF end + n <= HashLength THEN decoded + n ELSE decoded
      /\ UNCHANGED <<hasher, base>>
  BY DEF ParseChunk
<1>2. end \in Nat /\ decoded \in Nat /\ base \in Nat /\ decoded = base + end
      /\ (base > 0 => MaxBackward <= end)
  BY <1>1 DEF Core, NumbersOK, IdleAtEnd, InChunk
<1>3. NumbersOK'
  BY <1>1, <1>2 DEF Core, NumbersOK
<1>4. InChunk' /\ RangeFits' /\ IdleAtEnd'
  BY <1>1, <1>2, Constants DEF InChunk, RangeFits, IdleAtEnd
<1>5. Frontier' \in Nat /\ Frontier <= Frontier'
  BY <1>1, <1>2 DEF Frontier
<1> QED
  BY <1>1, <1>3, <1>4, <1>5, NoStore DEF Core

LEMMA CompactKeepsCore ==
  ASSUME Core, Compact
  PROVE  Core'
<1> DEFINE d == end - MaxBackward
<1>1. /\ pc = "idle" /\ end > MaxBackward /\ end' = end - d /\ base' = base + d
      /\ heuristics' = Minus(heuristics, d)
      /\ UNCHANGED <<counts, stored, position, insertStart, insertLength, match, delays,
                     range, pc, decoded>>
      /\ slots' = [k \in Keys |-> Remap(k, d)]
  BY DEF Compact, Dropped
<1>2. /\ end \in Nat /\ decoded \in Nat /\ base \in Nat /\ heuristics \in Nat
      /\ decoded = base + end /\ MaxBackward \in Nat
  BY <1>1, Constants DEF Core, NumbersOK, IdleAtEnd
<1>3. d \in Nat /\ end - d = MaxBackward /\ (base + d) + MaxBackward = base + end
  BY <1>1, <1>2
<1>4. HasherOK'
  <2> HIDE DEF d
  <2> QED
    BY <1>1, <1>2, <1>3, CompactKeeps DEF Core
<1>5. end' = MaxBackward /\ base' + end' = base + end /\ base' \in Nat
  <2> HIDE DEF d
  <2> QED
    BY <1>1, <1>2, <1>3
<1>6. NumbersOK'
  <2>1. heuristics' \in Nat
    BY <1>1, <1>2, <1>3 DEF Minus
  <2> QED
    BY <1>1, <1>2, <1>5, <2>1 DEF Core, NumbersOK
<1>7. InChunk' /\ RangeFits' /\ IdleAtEnd'
  BY <1>1, <1>2, <1>5 DEF InChunk, RangeFits, IdleAtEnd
<1>8. Onwards'
  BY <1>1, <1>5 DEF Core, Onwards, StoredBefore, Frontier
<1> QED
  BY <1>4, <1>6, <1>7, <1>8 DEF Core

LEMMA LiteralKeeps ==
  ASSUME Core, NEW key \in Keys, Literal(key)
  PROVE  Core'
<1> DEFINE p == position + 1
           stride == IF p > heuristics + 4 * Window THEN Strides[2] ELSE Strides[1]
           margin == Most(HashLength - 1, stride)
           stop == Least(p + Skips * stride, Minus(end, margin))
<1>1. /\ pc = "search" /\ Searchable(position) /\ Store(key, position)
      /\ position' = p /\ insertLength' = insertLength + 1
      /\ IF p > heuristics
           THEN pc' = "skip" /\ range' = [first |-> p, stride |-> stride, stop |-> stop]
           ELSE pc' = "search" /\ UNCHANGED range
      /\ UNCHANGED <<end, insertStart, heuristics, match, delays, base, decoded>>
  BY DEF Literal
<1>2. /\ end \in Nat /\ decoded \in Nat /\ base \in Nat /\ position \in Nat
      /\ insertLength \in Nat /\ insertStart \in Nat
      /\ position + HashLength < end
      /\ decoded = base + insertStart /\ insertStart + insertLength = position
      /\ (base > 0 => MaxBackward <= position) /\ HashLength \in Nat \ {0}
      /\ MaxBackward \in Nat
  BY <1>1, Constants DEF Core, NumbersOK, InChunk, Searchable
<1>3. p \in Nat /\ position < p /\ p <= end
  BY <1>2
<1>4. stride \in Nat \ {0} /\ Skips * stride \in Nat
  <2>1. stride \in Nat \ {0}
    BY Constants
  <2> HIDE DEF stride
  <2>2. \A a, b \in Nat : a * b \in Nat
    OBVIOUS
  <2> QED
    BY <2>1, <2>2, Constants
<1>5. stop \in Nat /\ (p < stop => stop + HashLength <= end + 1 /\ stop + stride <= end)
  <2> DEFINE far == Skips * stride
  <2>1. far \in Nat
    BY <1>4
  <2> HIDE DEF stride, p, far
  <2> QED
    BY <1>2, <1>3, <1>4, <2>1 DEF Least, Minus, Most, far
<1>6. position \in Nat /\ Frontier = position /\ Frontier' = p
  BY <1>1, <1>2 DEF Frontier
<1>7. HasherOK' /\ Onwards'
  <2> HIDE DEF p
  <2> QED
    BY <1>1, <1>2, <1>3, <1>6, OneStore
<1> HIDE DEF p, stride, stop
<1>8. NumbersOK'
  BY <1>1, <1>2, <1>3, <1>4, <1>5 DEF Core, NumbersOK
<1>9. InChunk'
  <2>1. insertStart + (insertLength + 1) = p
    BY <1>2 DEF p
  <2> QED
    BY <1>1, <1>2, <1>3, <2>1 DEF InChunk
<1>10. RangeFits' /\ IdleAtEnd'
  BY <1>1, <1>5 DEF RangeFits, IdleAtEnd
<1> QED
  BY <1>7, <1>8, <1>9, <1>10 DEF Core

LEMMA MatchKeeps ==
  ASSUME Core, NEW key \in Keys, Match(key)
  PROVE  Core'
<1>1. /\ pc = "search" /\ Searchable(position) /\ match' \in Found(key, position)
      /\ Store(key, position) /\ delays' = 0 /\ pc' = "lazy"
      /\ UNCHANGED <<end, position, insertStart, insertLength, heuristics, range, base, decoded>>
  BY DEF Match, parse
<1>2. position \in Nat /\ Frontier = position /\ Frontier' = position + 1
  BY <1>1 DEF Core, NumbersOK, Frontier
<1>3. /\ match' \in [length : Nat, distance : Nat] /\ match'.length >= 2
      /\ position + match'.length <= end
  BY <1>1, <1>2, MatchFits
<1>4. HasherOK' /\ Onwards'
  BY <1>1, <1>2, OneStore
<1>5. NumbersOK'
  BY <1>1, <1>3 DEF Core, NumbersOK
<1>6. InChunk' /\ RangeFits' /\ IdleAtEnd'
  BY <1>1, <1>3 DEF Core, InChunk, RangeFits, IdleAtEnd, Searchable
<1> QED
  BY <1>4, <1>5, <1>6 DEF Core

LEMMA BetterKeeps ==
  ASSUME Core, NEW key \in Keys, Better(key)
  PROVE  Core'
<1> DEFINE p == position + 1
<1>1. /\ pc = "lazy" /\ match' \in Found(key, p)
      /\ Store(key, p) /\ position' = p /\ insertLength' = insertLength + 1
      /\ delays' = delays + 1 /\ pc' = IF Searchable(p) THEN "lazy" ELSE "take"
      /\ UNCHANGED <<end, insertStart, heuristics, range, base, decoded>>
  BY DEF Better
<1>2. /\ position \in Nat /\ p \in Nat /\ Frontier = p
      /\ insertStart + (insertLength + 1) = p /\ p <= end
      /\ decoded = base + insertStart /\ HashLength < end
      /\ (base > 0 => MaxBackward <= p)
  BY <1>1, Constants DEF Core, NumbersOK, InChunk, Frontier, Searchable
<1>3. /\ match' \in [length : Nat, distance : Nat] /\ match'.length >= 2
      /\ p + match'.length <= end
  <2> HIDE DEF p
  <2> QED
    BY <1>1, <1>2, MatchFits
<1>4. Frontier' = IF Searchable(p) THEN p + 1 ELSE p + 2
  BY <1>1 DEF Frontier
<1>5. HasherOK' /\ Onwards'
  <2> HIDE DEF p
  <2> DEFINE q == IF Searchable(p) THEN p + 1 ELSE p + 2
  <2>1. q \in Nat /\ p < q /\ Frontier' = q
    BY <1>2, <1>4
  <2> HIDE DEF q
  <2> QED
    BY <1>1, <1>2, <2>1, OneStore
<1>6. NumbersOK'
  BY <1>1, <1>2, <1>3 DEF Core, NumbersOK
<1>7. InChunk' /\ RangeFits' /\ IdleAtEnd'
  BY <1>1, <1>2, <1>3 DEF InChunk, RangeFits, IdleAtEnd, Searchable
<1> QED
  BY <1>5, <1>6, <1>7 DEF Core

LEMMA NotBetterKeeps ==
  ASSUME Core, NEW key \in Keys, NotBetter(key)
  PROVE  Core'
<1> DEFINE p == position + 1
<1>1. /\ pc = "lazy" /\ Store(key, p) /\ pc' = "take"
      /\ UNCHANGED <<end, position, insertStart, insertLength, heuristics, match, delays,
                     range, base, decoded>>
  BY DEF NotBetter, parse
<1>2. p \in Nat /\ Frontier = p /\ Frontier' = position + 2 /\ position + 2 \in Nat
      /\ p < position + 2
  BY <1>1 DEF Core, NumbersOK, Frontier
<1>3. HasherOK' /\ Onwards'
  <2> HIDE DEF p
  <2> QED
    BY <1>1, <1>2, OneStore
<1>4. NumbersOK'
  BY <1>1 DEF Core, NumbersOK
<1>5. InChunk' /\ RangeFits' /\ IdleAtEnd'
  BY <1>1 DEF Core, InChunk, RangeFits, IdleAtEnd
<1> QED
  BY <1>3, <1>4, <1>5 DEF Core

\* The run of stores that follows a copy.
LEMMA CopyRangeFits ==
  ASSUME NumbersOK, position + match.length <= end, match.length >= 2, HashLength < end
  PROVE  /\ CopyRange \in [first : Nat, stop : Nat, stride : Nat \ {0}]
         /\ CopyRange.stop + HashLength <= end + 1
         /\ CopyRange.stop <= position + match.length
         /\ CopyRange.first < CopyRange.stop => position + 2 <= CopyRange.first
<1> DEFINE l == match.length
           repeat == match.distance < l \div Sparse
           far == position + l - match.distance * Sparse
           stop == Least(position + l, StoreEnd)
           first == IF repeat THEN Least(Most(position + 2, far), stop) ELSE position + 2
<1>1. CopyRange = [first |-> first, stop |-> stop, stride |-> 1]
  BY DEF CopyRange
<1>2. /\ position \in Nat /\ l \in Nat /\ end \in Nat /\ match.distance \in Nat
      /\ HashLength \in Nat \ {0} /\ Sparse \in Nat
  BY Constants DEF NumbersOK
<1>3. stop \in Nat /\ stop + HashLength <= end + 1 /\ stop <= position + l
  BY <1>2 DEF Least, StoreEnd
<1>4. far \in Int
  <2>1. \A a, b \in Nat : a * b \in Nat
    OBVIOUS
  <2>2. match.distance * Sparse \in Nat
    BY <1>2, <2>1
  <2> DEFINE x == match.distance * Sparse
  <2> HIDE DEF x
  <2>3. position + l - x \in Int
    BY <1>2, <2>2 DEF x
  <2> QED
    BY <2>3 DEF x
<1> HIDE DEF l, repeat, far, stop
<1>5. first \in Nat /\ (first < stop => position + 2 <= first)
  BY <1>2, <1>3, <1>4 DEF Least, Most
<1> HIDE DEF first
<1> QED
  BY <1>1, <1>3, <1>5 DEF l

LEMMA TakeKeeps ==
  ASSUME Core, Take
  PROVE  Core'
<1> DEFINE q == position + match.length
<1>1. /\ pc = "take" \/ (pc = "lazy" /\ delays = MaxLazy)
      /\ heuristics' = position + 2 * match.length + Window
      /\ decoded' = decoded + insertLength + match.length
      /\ range' = CopyRange /\ position' = q /\ insertStart' = q /\ insertLength' = 0
      /\ pc' = "store" /\ match' = NoMatch /\ delays' = 0
      /\ UNCHANGED <<hasher, end, base>>
  BY DEF Take
<1>2. /\ position \in Nat /\ match.length \in Nat /\ end \in Nat /\ insertLength \in Nat
      /\ decoded \in Nat /\ insertStart \in Nat /\ base \in Nat
      /\ match.length >= 2 /\ q <= end /\ HashLength < end
      /\ insertStart + insertLength = position /\ decoded = base + insertStart
      /\ (base > 0 => MaxBackward <= position)
  BY <1>1 DEF Core, NumbersOK, InChunk
<1>3. /\ CopyRange \in [first : Nat, stop : Nat, stride : Nat \ {0}]
      /\ CopyRange.stop + HashLength <= end + 1 /\ CopyRange.stop <= q
      /\ CopyRange.first < CopyRange.stop => position + 2 <= CopyRange.first
  BY <1>2, CopyRangeFits DEF Core
<1>4. q \in Nat /\ position + 2 <= q /\ q = insertStart + (insertLength + match.length)
  BY <1>2
<1>5. NumbersOK'
  <2>1. heuristics' \in Nat /\ decoded' \in Nat
    BY <1>1, <1>2, Constants
  <2> QED
    BY <1>1, <1>2, <1>3, <1>4, <2>1 DEF Core, NumbersOK, NoMatch
<1>6. InChunk'
  <2>1. decoded + insertLength + match.length = base + q
    BY <1>2
  <2>2. base > 0 => MaxBackward <= q
    BY <1>2, <1>4, Constants
  <2>3. q + 0 = q
    BY <1>4
  <2> QED
    BY <1>1, <1>2, <2>1, <2>2, <2>3 DEF InChunk
<1>7. RangeFits' /\ IdleAtEnd'
  BY <1>1, <1>3 DEF RangeFits, IdleAtEnd
<1>8. Frontier' \in Nat /\ Frontier <= Frontier'
  <2>1. Frontier' = IF CopyRange.first < CopyRange.stop THEN CopyRange.first ELSE q
    BY <1>1 DEF Frontier
  <2>2. Frontier \in Nat /\ Frontier <= position + 2
    BY <1>1, <1>2 DEF Frontier
  <2> DEFINE f == Frontier  g == Frontier'
  <2>3. g \in Nat /\ position + 2 <= g
    BY <1>3, <1>4, <2>1
  <2>4. f \in Nat /\ f <= position + 2
    BY <2>2
  <2> HIDE DEF f, g
  <2>5. f <= g
    BY <1>2, <2>3, <2>4
  <2> QED
    BY <2>3, <2>5 DEF f, g
<1> QED
  BY <1>1, <1>5, <1>6, <1>7, <1>8, NoStore DEF Core

LEMMA StoreNextKeeps ==
  ASSUME Core, NEW key \in Keys, StoreNext(key)
  PROVE  Core'
<1> DEFINE p == range.first
           q == p + range.stride
<1>1. /\ pc \in {"store", "skip"} /\ p < range.stop
      /\ Store(key, p)
      /\ range' = [range EXCEPT !.first = p + range.stride]
      /\ IF pc = "skip" THEN /\ position' = position + range.stride
                             /\ insertLength' = insertLength + range.stride
                        ELSE UNCHANGED <<position, insertLength>>
      /\ UNCHANGED <<end, insertStart, heuristics, match, delays, pc, base, decoded>>
  BY DEF StoreNext
<1>2. /\ position \in Nat /\ insertLength \in Nat /\ insertStart \in Nat /\ end \in Nat
      /\ base \in Nat /\ decoded \in Nat
      /\ p \in Nat /\ range.stride \in Nat \ {0} /\ range.stop \in Nat
      /\ range \in [first : Nat, stop : Nat, stride : Nat \ {0}]
      /\ range.stop + HashLength <= end + 1
      /\ pc = "store" => range.stop <= position
      /\ pc = "skip" => p = position /\ range.stop + range.stride <= end
      /\ insertStart + insertLength = position /\ position <= end
      /\ decoded = base + insertStart /\ HashLength < end
      /\ (base > 0 => MaxBackward <= position) /\ MaxBackward \in Nat
  BY <1>1, Constants DEF Core, NumbersOK, InChunk, RangeFits
<1>3. q \in Nat /\ p < q
  BY <1>2
<1>4. /\ range'.first = q /\ range'.stop = range.stop /\ range'.stride = range.stride
      /\ range' \in [first : Nat, stop : Nat, stride : Nat \ {0}]
  BY <1>1, <1>2, <1>3
<1>5. Frontier = p
  BY <1>1, <1>2 DEF Frontier
<1>6. NumbersOK'
  <2>1. position' \in Nat /\ insertLength' \in Nat
    BY <1>1, <1>2
  <2> QED
    BY <1>1, <1>4, <2>1 DEF Core, NumbersOK
<1>7. CASE pc = "store"
  <2>1. p + 1 <= position /\ p + 1 \in Nat /\ p < p + 1
    BY <1>1, <1>2, <1>7
  <2>2. Frontier' = IF q < range.stop THEN q ELSE position
    BY <1>1, <1>4, <1>7 DEF Frontier
  <2> DEFINE f == IF q < range.stop THEN q ELSE position
  <2>3. f \in Nat /\ p < f
    BY <1>2, <1>3, <2>1
  <2>4. HasherOK' /\ Onwards'
    <3> HIDE DEF p, q, f
    <3>1. Frontier <= p
      BY <1>2, <1>5
    <3>2. Frontier' = f
      BY <2>2 DEF f
    <3> QED
      BY <1>1, <1>2, <2>3, <3>1, <3>2, OneStore
  <2>5. InChunk' /\ RangeFits' /\ IdleAtEnd'
    BY <1>1, <1>2, <1>4, <1>7 DEF InChunk, RangeFits, IdleAtEnd
  <2> QED
    BY <1>6, <2>4, <2>5 DEF Core
<1>8. CASE pc = "skip"
  <2>1. position' = q /\ q <= end /\ insertStart + (insertLength + range.stride) = q
    BY <1>1, <1>2, <1>8
  <2>2. Frontier' = q
    BY <1>1, <1>8, <2>1 DEF Frontier
  <2>3. HasherOK' /\ Onwards'
    <3> HIDE DEF p, q
    <3>1. Frontier <= p
      BY <1>2, <1>5
    <3> QED
      BY <1>1, <1>2, <1>3, <2>2, <3>1, OneStore
  <2>4. InChunk'
    <3>1. base > 0 => MaxBackward <= q
      BY <1>2, <1>8
    <3> HIDE DEF q
    <3> QED
      BY <1>1, <1>2, <1>8, <2>1, <3>1 DEF InChunk
  <2>5. RangeFits' /\ IdleAtEnd'
    <3> HIDE DEF q
    <3> QED
      BY <1>1, <1>2, <1>4, <1>8, <2>1 DEF RangeFits, IdleAtEnd
  <2> QED
    BY <1>6, <2>3, <2>4, <2>5 DEF Core
<1> QED
  BY <1>1, <1>7, <1>8

LEMMA StoredKeeps ==
  ASSUME Core, Stored
  PROVE  Core'
<1>1. /\ pc \in {"store", "skip"} /\ ~ (range.first < range.stop)
      /\ pc' = "search" /\ range' = NoRange
      /\ UNCHANGED <<hasher, end, position, insertStart, insertLength, heuristics, match,
                     delays, base, decoded>>
  BY DEF Stored, parse, Core, NumbersOK
<1>2. NumbersOK'
  BY <1>1 DEF Core, NumbersOK, NoRange
<1>3. InChunk' /\ RangeFits' /\ IdleAtEnd'
  BY <1>1 DEF Core, InChunk, RangeFits, IdleAtEnd
<1>4. Frontier' \in Nat /\ Frontier <= Frontier'
  BY <1>1 DEF Core, NumbersOK, Frontier
<1> QED
  BY <1>1, <1>2, <1>3, <1>4, NoStore DEF Core

LEMMA EndChunkKeeps ==
  ASSUME Core, EndChunk
  PROVE  Core'
<1>1. /\ pc = "search" /\ decoded' = decoded + (end - insertStart) /\ pc' = "idle"
      /\ UNCHANGED <<hasher, end, position, insertStart, insertLength, heuristics, match,
                     delays, range, base>>
  BY DEF EndChunk, parse
<1>2. /\ end \in Nat /\ insertStart \in Nat /\ insertLength \in Nat /\ position \in Nat
      /\ base \in Nat /\ decoded \in Nat /\ MaxBackward \in Nat
      /\ insertStart + insertLength = position /\ position <= end
      /\ decoded = base + insertStart /\ (base > 0 => MaxBackward <= position)
  BY <1>1, Constants DEF Core, NumbersOK, InChunk
<1>3. decoded + (end - insertStart) = base + end
  BY <1>2
<1>4. NumbersOK'
  BY <1>1, <1>2, <1>3 DEF Core, NumbersOK
<1>5. InChunk' /\ RangeFits' /\ IdleAtEnd'
  <2>1. base > 0 => MaxBackward <= end
    BY <1>2
  <2> QED
    BY <1>1, <1>3, <2>1 DEF InChunk, RangeFits, IdleAtEnd
<1>6. Frontier' \in Nat /\ Frontier <= Frontier'
  BY <1>1, <1>2 DEF Frontier
<1> QED
  BY <1>1, <1>4, <1>5, <1>6, NoStore DEF Core

-----------------------------------------------------------------------------
(* The theorems. *)

LEMMA InitHolds == FinderInit => Core
<1> SUFFICES ASSUME FinderInit PROVE Core
  OBVIOUS
<1>1. /\ BlockSize \in Nat \ {0} /\ CountWrap \in Nat \ {0} /\ Window \in Nat
  BY FinderAssumption
<1>2. HasherOK
  <2>1. /\ counts = [k \in Keys |-> 0] /\ stored = [k \in Keys |-> <<>>]
        /\ slots = [k \in Keys |-> [s \in 0..(BlockSize - 1) |-> Unset]]
    BY DEF FinderInit
  <2>2. <<>> \in Seq(Nat) /\ Len(<<>>) = 0
    BY EmptySeq
  <2>3. \A k \in Keys : SlotsHold(k) /\ Ascending(k)
    <3>1. SUFFICES ASSUME NEW k \in Keys PROVE SlotsHold(k) /\ Ascending(k)
      OBVIOUS
    <3>2. counts[k] = 0 /\ stored[k] = <<>>
      BY <2>1
    <3>3. 1..Least(counts[k], BlockSize) = {}
      BY <1>1, <3>2 DEF Least
    <3>4. 1..Len(stored[k]) = {}
      BY <2>2, <3>2
    <3> QED
      BY <3>3, <3>4, Zenon DEF SlotsHold, Ascending
  <2>4. CountsFollow
    BY <2>1, <2>2 DEF CountsFollow
  <2> QED
    BY <1>1, <2>1, <2>2, <2>3, <2>4 DEF HasherOK
<1>3. NumbersOK /\ InChunk /\ RangeFits /\ IdleAtEnd
  BY <1>1 DEF FinderInit, NumbersOK, InChunk, RangeFits, IdleAtEnd, NoMatch, NoRange
<1>4. Onwards
  BY DEF FinderInit, Onwards, StoredBefore
<1> QED
  BY <1>2, <1>3, <1>4 DEF Core

(* The inductive invariant, from which the properties follow: a scan reads  *)
(* what was stored, stores go forward only and within the chunk, and the    *)
(* commands make up what was parsed (parse_chunk, store, remap_positions).  *)
THEOREM FinderInvariance == FinderSpec => []IInv
<1>1. FinderInit => IInv
  BY InitHolds, InvIsCore
<1>2. IInv /\ [FinderNext]_finderVars => IInv'
  <2>1. (IInv => Core) /\ (Core' => IInv')
    BY InvIsCore, PTL
  <2> SUFFICES ASSUME Core, [FinderNext]_finderVars PROVE Core'
    BY <2>1
  <2>2. ASSUME NEW n \in 1..MaxChunk, ParseChunk(n) PROVE Core'
    BY <2>2, ParseChunkKeeps
  <2>3. CASE Compact
    BY <2>3, CompactKeepsCore
  <2>4. CASE Take
    BY <2>4, TakeKeeps
  <2>5. CASE Stored
    BY <2>5, StoredKeeps
  <2>6. CASE EndChunk
    BY <2>6, EndChunkKeeps
  <2>7. ASSUME NEW key \in Keys,
               Literal(key) \/ Match(key) \/ Better(key) \/ NotBetter(key) \/ StoreNext(key)
        PROVE  Core'
    BY <2>7, LiteralKeeps, MatchKeeps, BetterKeeps, NotBetterKeeps, StoreNextKeeps
  <2>8. CASE UNCHANGED finderVars
    <3>1. /\ UNCHANGED <<hasher, base>>
          /\ UNCHANGED <<end, position, insertStart, insertLength, heuristics, match, delays,
                         range, pc, decoded>>
      BY <2>8 DEF finderVars, parse
    <3>2. NumbersOK' /\ InChunk' /\ RangeFits' /\ IdleAtEnd'
      BY <3>1 DEF Core, NumbersOK, InChunk, RangeFits, IdleAtEnd, Searchable
    <3>3. Frontier' \in Nat /\ Frontier <= Frontier'
      BY <3>1 DEF Core, NumbersOK, Frontier
    <3> QED
      BY <3>1, <3>2, <3>3, NoStore DEF Core
  <2> QED
    BY <2>2, <2>3, <2>4, <2>5, <2>6, <2>7, <2>8 DEF FinderNext
<1> QED
  BY <1>1, <1>2, PTL DEF FinderSpec

(* The two unsafe reads: a slot within the count was written and is true,   *)
(* however often the count wrapped and the positions were renumbered, and   *)
(* every hash has its bytes (bucket_position, remap_positions, read_u32).   *)
THEOREM ReadsAreSafe == FinderSpec => []UnsafeReadsHold
<1>1. IInv => UnsafeReadsHold
  BY DEF IInv
<1> QED
  BY <1>1, FinderInvariance, PTL

(* The commands are decoded where they were parsed, with the same reach,    *)
(* through every compaction (parse_chunk, compact).                         *)
THEOREM CommandsAreDecoded == FinderSpec => []CommandsDecode
<1>1. IInv => CommandsDecode
  BY DEF IInv
<1> QED
  BY <1>1, FinderInvariance, PTL

-----------------------------------------------------------------------------
(* BlockSwitch.                                                            *)


(* The remainder that the format's circle of types takes is the comparison *)
(* and subtraction that the code makes.                                    *)
LEMMA NextInCircle ==
  ASSUME NEW n \in Nat \ {0}, NEW t \in 0..(n - 1)
  PROVE  (t + 1) % n = IF t + 1 >= n THEN t + 1 - n ELSE t + 1
<1>1. CASE t + 1 < n
  BY <1>1
<1>2. CASE t + 1 = n
  BY <1>2
<1>3. QED
  BY <1>1, <1>2

LEMMA LatestBlock ==
  ASSUME SwitchTypeOK
  PROVE  /\ Len(switches) \in Nat \ {0} /\ Latest = switches[Len(switches)]
         /\ \A i \in 1..Len(switches) : switches[i] \in BlocksOf(block.types)
         /\ Latest \in BlocksOf(block.types)
         /\ \A i \in 1..Len(switches) : switches[i].type \in 0..(block.types - 1)
<1>1. /\ Len(switches) \in Nat \ {0} /\ Latest = switches[Len(switches)]
      /\ \A i \in 1..Len(switches) : switches[i] \in BlocksOf(block.types)
  BY DEF SwitchTypeOK, Latest
<1>2. \A b \in BlocksOf(block.types) : b.type \in 0..(block.types - 1)
  BY DEF BlocksOf
<1>3. QED
  BY <1>1, <1>2

(* A new partition satisfies the invariant.                                *)
LEMMA SwitchInitIInv == SwitchInit => SwitchIInv
<1> SUFFICES ASSUME NEW n \in TypeCounts, NEW first \in FirstLengths,
                    block = NewBlocks(n, IF n = 1 THEN 0 ELSE first),
                    switches = <<Block(0, first)>>,
                    codes = <<>>
             PROVE  SwitchIInv
  BY DEF SwitchInit
<1>1. n \in Nat \ {0} /\ first \in Nat \ {0}
  BY TypesAssumption
<1> USE DEF NewBlocks, Block, NoSymbol
<1>2. SwitchTypeOK
  BY <1>1 DEF SwitchTypeOK, BlocksOf
<1>3. SymbolsFollowSwitches
  BY <1>1 DEF SymbolsFollowSwitches, Latest, SwitchDue
<1>4. MemoryHolds /\ TypesMeanCodes
  BY DEF MemoryHolds, TypesMeanCodes, Latest
<1>5. QED
  BY <1>2, <1>3, <1>4 DEF SwitchIInv

(* A block-type symbol: the type it stands for becomes the current one and *)
(* the newer of the memory; which block it is of is still open.            *)
LEMMA SwitchTypeIInv ==
  ASSUME SwitchIInv, NEW symbol \in TypeSymbols(block.types), SwitchType(symbol)
  PROVE  SwitchIInv'
<1> DEFINE n == Len(switches)
           type == ResolveType(symbol, block.types, block.previous)
<1> USE DEF SwitchIInv
<1>1. /\ block.types \in Nat /\ block.types > 1 /\ block.left = 0 /\ ~ block.pending
      /\ block.symbol = NoSymbol /\ block.previous \in Nat \X Nat
      /\ block.previous[1] \in 0..(block.types - 1)
      /\ block.previous[2] \in 0..(block.types - 1)
  BY DEF SwitchType, TypeDue, SwitchDue, SwitchTypeOK, SymbolsFollowSwitches, MemoryHolds
<1>2. /\ n \in Nat \ {0} /\ Len(codes) = n - 1 /\ symbol \in 0..(block.types + 1)
      /\ Latest.type \in 0..(block.types - 1)
  BY <1>1, LatestBlock DEF SwitchTypeOK, SymbolsFollowSwitches, TypeSymbols
<1>3. /\ block.previous[2] = Latest.type
      /\ block.previous[1] = IF n = 1 THEN 1 ELSE switches[n - 1].type
  BY <1>1 DEF MemoryHolds
<1>4. /\ symbol = 0 => type = block.previous[1]
      /\ symbol = 1 => type = IF Latest.type + 1 >= block.types
                             THEN Latest.type + 1 - block.types ELSE Latest.type + 1
      /\ symbol \notin {0, 1} => type = symbol - 2
      /\ type \in 0..(block.types - 1)
  <2>1. CASE symbol = 0
    BY <2>1, <1>1 DEF ResolveType
  <2>2. CASE symbol = 1
    BY SMTT(30), <2>2, <1>1, <1>2, <1>3 DEF ResolveType
  <2>3. CASE symbol \notin {0, 1}
    BY <2>3, <1>1, <1>2 DEF ResolveType
  <2>4. QED
    BY <2>1, <2>2, <2>3
<1> HIDE DEF type
<1>5. /\ block' = [types |-> block.types, current |-> type,
                  previous |-> <<Latest.type, type>>,
                  left |-> 0, pending |-> TRUE, symbol |-> NoSymbol]
      /\ codes' = Append(codes, symbol) /\ switches' = switches
  BY <1>1, <1>3 DEF SwitchType, ReadType, SwitchTypeOK, type
<1>6. codes' \in Seq(TypeSymbols(block.types)) /\ Len(codes') = n /\ codes'[n] = symbol
      /\ \A i \in 1..(n - 1) : codes'[i] = codes[i]
  <2>1. codes \in Seq(TypeSymbols(block.types))
    BY DEF SwitchTypeOK
  <2>2. QED
    BY <2>1, <1>2, <1>5
<1>7. Latest' = Latest
  BY <1>5 DEF Latest
<1>8. type = Meaning(n)'
  <2>1. CASE symbol = 0
    BY <2>1, <1>3, <1>4, <1>5, <1>6 DEF Meaning
  <2>2. CASE symbol = 1
    <3>1. Meaning(n)' = (Latest.type + 1) % block.types
      BY <2>2, <1>5, <1>6 DEF Meaning, Latest
    <3>2. block.types \in Nat \ {0}
      BY <1>1
    <3>3. QED
      BY <2>2, <3>1, <3>2, <1>2, <1>4, NextInCircle
  <2>3. CASE symbol \notin {0, 1}
    BY <2>3, <1>4, <1>5, <1>6 DEF Meaning
  <2>4. QED
    BY <2>1, <2>2, <2>3
<1>9. SwitchTypeOK'
  BY <1>1, <1>2, <1>4, <1>5, <1>6 DEF SwitchTypeOK, NoSymbol
<1>10. SymbolsFollowSwitches'
  BY <1>1, <1>2, <1>5, <1>6, <1>7 DEF SymbolsFollowSwitches, SwitchDue, NoSymbol
<1>11. MemoryHolds'
  BY <1>5, <1>7, <1>8 DEF MemoryHolds
<1>12. TypesMeanCodes'
  BY <1>2, <1>5, <1>6 DEF TypesMeanCodes, Meaning
<1>13. QED
  BY <1>9, <1>10, <1>11, <1>12

(* A block-length symbol, kept until its extra bits are there.             *)
LEMMA SwitchLengthIInv ==
  ASSUME SwitchIInv, NEW symbol \in DOMAIN LengthCodes, SwitchLength(symbol)
  PROVE  SwitchIInv'
<1> USE DEF SwitchIInv
<1>1. /\ block' = [block EXCEPT !.symbol = symbol] /\ block.pending
      /\ codes' = codes /\ switches' = switches
  BY DEF SwitchLength, SymbolDue, SwitchDue, ReadSymbol
<1>2. Latest' = Latest /\ \A i : Meaning(i)' = Meaning(i)
  BY <1>1 DEF Latest, Meaning, SwitchTypeOK
<1>3. SwitchTypeOK'
  BY <1>1 DEF SwitchTypeOK
<1>4. SymbolsFollowSwitches'
  BY <1>1, <1>2 DEF SymbolsFollowSwitches, SwitchTypeOK, SwitchDue
<1>5. MemoryHolds' /\ TypesMeanCodes'
  BY <1>1, <1>2 DEF MemoryHolds, TypesMeanCodes, SwitchTypeOK
<1>6. QED
  BY <1>3, <1>4, <1>5

(* The extra bits: the block begins, and with it its count of symbols.     *)
LEMMA SwitchExtraIInv ==
  ASSUME SwitchIInv, NEW extra \in Extras, SwitchExtra(extra)
  PROVE  SwitchIInv'
<1> DEFINE n == Len(switches)
           length == LengthCodes[block.symbol].offset + extra
<1> USE DEF SwitchIInv
<1>1. /\ block.types > 1 /\ block.left = 0 /\ block.pending
      /\ block.symbol \in DOMAIN LengthCodes
  BY DEF SwitchExtra, ExtraDue, SwitchDue, SwitchTypeOK
<1>2. length \in Nat
  BY <1>1, LengthAssumption DEF Extras
<1> HIDE DEF length
<1>3. /\ block' = [block EXCEPT !.left = length, !.pending = FALSE, !.symbol = NoSymbol]
      /\ codes' = codes
      /\ switches' = Append(switches, Block(block.current, length))
  BY DEF SwitchExtra, ReadExtra, length
<1>4. /\ n \in Nat \ {0} /\ Len(switches') = n + 1 /\ Len(codes) = n
      /\ switches'[n + 1] = Block(block.current, length)
      /\ \A i \in 1..n : switches'[i] = switches[i]
  BY <1>1, <1>3 DEF SwitchTypeOK, SymbolsFollowSwitches
<1>5. Latest = switches[n] /\ Latest' = Block(block.current, length)
  BY <1>4 DEF Latest
<1>6. \A i \in 1..n : Meaning(i)' = Meaning(i)
  <2>1. block'.types = block.types /\ codes' = codes
    BY <1>3 DEF SwitchTypeOK
  <2> SUFFICES ASSUME NEW i \in 1..n PROVE Meaning(i)' = Meaning(i)
    OBVIOUS
  <2>2. switches'[i] = switches[i] /\ (i # 1 => switches'[i - 1] = switches[i - 1])
    BY <1>4
  <2>3. QED
    BY <2>1, <2>2 DEF Meaning
<1>7. SwitchTypeOK'
  <2>1. Block(block.current, length) \in BlocksOf(block.types)
    BY <1>2 DEF Block, BlocksOf, SwitchTypeOK
  <2>2. switches' \in Seq(BlocksOf(block.types))
    BY <2>1, <1>3 DEF SwitchTypeOK
  <2>3. block' \in [types : Nat \ {0}, current : Nat, previous : Nat \X Nat, left : Nat,
                   pending : BOOLEAN, symbol : {NoSymbol} \cup DOMAIN LengthCodes]
    BY <1>2, <1>3 DEF SwitchTypeOK
  <2>4. /\ block'.types = block.types /\ block'.current = block.current
        /\ block'.previous = block.previous /\ block'.pending = FALSE
    BY <1>3 DEF SwitchTypeOK
  <2>5. QED
    BY <2>2, <2>3, <2>4, <1>3, <1>4 DEF SwitchTypeOK
<1>8. SymbolsFollowSwitches'
  <2>1. /\ block'.left = length /\ block'.current = block.current
        /\ block'.pending = FALSE /\ block'.symbol = NoSymbol
    BY <1>3 DEF SwitchTypeOK
  <2>2. Latest.symbols = Latest.length /\ Latest.seen \subseteq {Latest.type}
    <3>1. Latest.symbols \in Nat /\ Latest.length \in Nat
      BY LatestBlock DEF BlocksOf
    <3>2. QED
      BY <3>1, <1>1, <1>4, <1>5 DEF SymbolsFollowSwitches
  <2>3. \A i \in 1..(n + 1) : /\ switches'[i].seen \subseteq {switches'[i].type}
                              /\ i < n + 1 => switches'[i].symbols = switches'[i].length
    <3> SUFFICES ASSUME NEW i \in 1..(n + 1)
                 PROVE  /\ switches'[i].seen \subseteq {switches'[i].type}
                        /\ i < n + 1 => switches'[i].symbols = switches'[i].length
      OBVIOUS
    <3>1. CASE i < n
      BY <3>1, <1>4 DEF SymbolsFollowSwitches
    <3>2. CASE i = n
      BY <3>2, <2>2, <1>4, <1>5
    <3>3. CASE i = n + 1
      BY <3>3, <1>4 DEF Block
    <3>4. QED
      BY <3>1, <3>2, <3>3, <1>4
  <2>4. Latest'.symbols + block'.left = Latest'.length /\ block'.current = Latest'.type
    BY <2>1, <1>2, <1>5 DEF Block
  <2>5. QED
    BY <2>1, <2>3, <2>4, <1>3, <1>4 DEF SymbolsFollowSwitches
<1>9. MemoryHolds'
  BY <1>1, <1>3, <1>4, <1>5 DEF MemoryHolds, SwitchTypeOK, Block
<1>10. TypesMeanCodes'
  BY <1>1, <1>4, <1>6 DEF TypesMeanCodes, MemoryHolds, Block
<1>11. QED
  BY <1>7, <1>8, <1>9, <1>10

(* A symbol: decoded under the current type, and counted.                  *)
LEMMA SymbolIInv ==
  ASSUME SwitchIInv, Symbol
  PROVE  SwitchIInv'
<1> DEFINE n == Len(switches)
           latest == [type |-> Latest.type, length |-> Latest.length,
                      symbols |-> Latest.symbols + 1, seen |-> Latest.seen \cup {block.current}]
<1> USE DEF SwitchIInv
<1>0. n \in Nat \ {0} /\ Latest = switches[n] /\ Latest \in BlocksOf(block.types)
  BY LatestBlock
<1>1. /\ ~ SwitchDue(block) /\ ~ block.pending /\ block.current = Latest.type
  <2>1. ~ SwitchDue(block)
    BY DEF Symbol
  <2>2. ~ block.pending
    BY <2>1 DEF SwitchDue, SwitchTypeOK, MemoryHolds
  <2>3. QED
    BY <2>1, <2>2 DEF SymbolsFollowSwitches
<1>2. /\ block' = [block EXCEPT !.left = IF block.types = 1 THEN @ ELSE @ - 1]
      /\ codes' = codes
      /\ switches' = [switches EXCEPT ![n] = latest]
  <2>1. block' = Consume(block) /\ codes' = codes
        /\ switches' = [switches EXCEPT ![n] = latest]
    BY DEF Symbol, Latest
  <2>2. Consume(block) = [block EXCEPT !.left = IF block.types = 1 THEN @ ELSE @ - 1]
    BY DEF Consume, SwitchTypeOK
  <2>3. QED
    BY <2>1, <2>2
<1>4. latest \in BlocksOf(block.types) /\ latest.type = Latest.type /\ latest.length = Latest.length
      /\ latest.symbols = Latest.symbols + 1 /\ latest.seen = Latest.seen \cup {Latest.type}
  <2>1. block.current \in 0..(block.types - 1)
    BY DEF SwitchTypeOK
  <2>2. Latest.seen \cup {block.current} \in SUBSET (0..(block.types - 1))
    BY <2>1, <1>0 DEF BlocksOf
  <2>3. QED
    BY <2>2, <1>0, <1>1 DEF BlocksOf
<1> HIDE DEF latest
<1>5. /\ Len(switches') = n /\ switches'[n] = latest /\ Latest' = latest
      /\ \A i \in 1..(n - 1) : switches'[i] = switches[i]
      /\ \A i \in 1..n : switches'[i].type = switches[i].type
  BY <1>2, <1>0, <1>4 DEF SwitchTypeOK, Latest
<1>6. \A i \in 1..n : Meaning(i)' = Meaning(i)
  BY <1>2, <1>5 DEF Meaning, SwitchTypeOK
<1>7. SwitchTypeOK'
  <2>1. block.types # 1 => block.left - 1 \in Nat
    BY <1>1 DEF SwitchDue, SwitchTypeOK
  <2>2. switches' \in Seq(BlocksOf(block.types))
    BY <1>2, <1>4 DEF SwitchTypeOK
  <2>3. QED
    BY <2>1, <2>2, <1>2, <1>0, <1>5 DEF SwitchTypeOK
<1>8. SymbolsFollowSwitches'
  <2>1. \A i \in 1..n : /\ switches'[i].seen \subseteq {switches'[i].type}
                        /\ i < n => switches'[i].symbols = switches'[i].length
    BY <1>0, <1>4, <1>5 DEF SymbolsFollowSwitches
  <2>2. block'.types > 1 => latest.symbols + block'.left = latest.length
    <3>1. Latest.symbols \in Nat /\ Latest.length \in Nat /\ block.left \in Nat
      BY <1>0 DEF BlocksOf, SwitchTypeOK
    <3>2. block'.types = block.types /\ (block.types > 1 => block'.left = block.left - 1)
      BY <1>2 DEF SwitchTypeOK
    <3>3. QED
      BY <3>1, <3>2, <1>4 DEF SymbolsFollowSwitches
  <2>3. QED
    BY <2>1, <2>2, <1>1, <1>2, <1>4, <1>5 DEF SymbolsFollowSwitches, SwitchTypeOK
<1>9. MemoryHolds' /\ TypesMeanCodes'
  <2>1. /\ block'.previous = block.previous /\ block'.current = block.current
        /\ block'.pending = FALSE
    BY <1>1, <1>2 DEF SwitchTypeOK
  <2>2. MemoryHolds'
    BY <2>1, <1>0, <1>1, <1>4, <1>5 DEF MemoryHolds
  <2>3. TypesMeanCodes'
    BY <1>0, <1>5, <1>6 DEF TypesMeanCodes
  <2>4. QED
    BY <2>2, <2>3
<1>10. QED
  BY <1>7, <1>8, <1>9

(* The inductive invariant: SymbolsFollowSwitches and TypesMeanCodes with   *)
(* what the two-entry memory holds, of a switch in progress too.           *)
THEOREM SwitchInvariance == SwitchSpec => []SwitchIInv
<1>1. SwitchIInv /\ [SwitchNext]_switchVars => SwitchIInv'
  <2> SUFFICES ASSUME SwitchIInv, [SwitchNext]_switchVars PROVE SwitchIInv'
    OBVIOUS
  <2>1. CASE SwitchNext
    BY <2>1, SwitchTypeIInv, SwitchLengthIInv, SwitchExtraIInv, SymbolIInv DEF SwitchNext
  <2>2. CASE UNCHANGED switchVars
    BY <2>2 DEF switchVars, SwitchIInv, SwitchTypeOK, SymbolsFollowSwitches, MemoryHolds,
                TypesMeanCodes, Meaning, Latest, SwitchDue
  <2>3. QED
    BY <2>1, <2>2
<1>2. QED
  BY SwitchInitIInv, <1>1, PTL DEF SwitchSpec

(* Every symbol of BlockState::consume is decoded under its block's type,  *)
(* and every block has as many as its length says, wherever input runs out. *)
THEOREM SwitchesFollowed == SwitchSpec => []SymbolsFollowSwitches
<1>1. SwitchIInv => SymbolsFollowSwitches
  BY DEF SwitchIInv
<1>2. QED
  BY <1>1, SwitchInvariance, PTL

(* resolve_type gives the types that the format gives.                     *)
THEOREM CodesMeanTypes == SwitchSpec => []TypesMeanCodes
<1>1. SwitchIInv => TypesMeanCodes
  BY DEF SwitchIInv
<1>2. QED
  BY <1>1, SwitchInvariance, PTL

-----------------------------------------------------------------------------
(* BlockSplitter: the inductive invariant.  Where the blocks end is what    *)
(* the cursor, the counts and the decoder have in common: ends[b] symbols   *)
(* are in the first b blocks of the lengths ls.                            *)

Ends(ends, ls) ==
  /\ ends \in [0..Len(ls) -> Nat] /\ ends[0] = 0
  /\ \A b \in 1..Len(ls) : ends[b] = ends[b - 1] + ls[b] /\ ends[b] <= ends[Len(ls)]

\* Of the symbols a, each in a block is counted for the type of that block.
Counts(ends, ts, hs, a) ==
  \A b \in 1..Len(ts) : \A i \in (ends[b - 1] + 1)..ends[b] :
    i <= Len(a) => hs[ts[b]][a[i]] > 0

Histograms == [0..(Capacity(total) - 1) -> [Symbols -> Nat]]
TypesFit ==
  /\ numTypes \in 0..MaxTypes /\ size \in Nat /\ target \in Nat /\ target >= MinBlock
  /\ types \in Seq(Nat) /\ lengths \in Seq(Nat \ {0}) /\ Len(types) = Len(lengths)
  /\ histograms \in Histograms
  /\ \A b \in 1..Len(types) : types[b] < numTypes /\ types[b] \in 0..(Capacity(total) - 1)
  /\ types # <<>> => types[1] = 0

SplitTypeOK ==
  /\ total \in Nat /\ added \in Seq(Symbols) /\ Len(added) <= total
  /\ phase \in {"split", "header", "write", "any"}
  /\ phase # "any" => total \in Totals
  /\ TypesFit

\* The types that a block joins, or may.
SecondType == IF Len(types) = 1 THEN 1 ELSE Len(types) - 1
LastTwo ==
  /\ types = <<>> => numTypes = 0 /\ (phase = "any" \/ phase = "split")
  /\ types # <<>> =>
       /\ numTypes > 0
       /\ last = <<Recent(types[Len(types)], histograms[types[Len(types)]]),
                   Recent(types[SecondType], histograms[types[SecondType]])>>
       /\ numTypes = 1 <=> Len(types) = 1
       /\ Len(types) > 1 => types[Len(types)] # types[Len(types) - 1]

\* While splitting: what is not in a block yet is counted for the next, and
\* enough has passed for the histograms there are.
Splitting(ends) ==
  phase = "split" =>
    /\ current = numTypes /\ size <= Len(added)
    /\ ends[Len(types)] = Len(added) - size
    /\ numTypes * MinBlock <= ends[Len(types)]
    /\ \A i \in (ends[Len(types)] + 1)..Len(added) : histograms[current][added[i]] > 0

\* Then the blocks cover what there is, and hardly more.
Split(ends) ==
  /\ phase \in {"header", "write"} => Len(added) = total /\ total <= ends[Len(types)]
  /\ ends[Len(types)] <= total + MinBlock

\* What is written is in the block of the cursor, whose count is what the
\* block still owes.
CursorPlaced(ends) ==
  /\ phase = "write" =>
       /\ cursor.index \in 1..Len(types)
       /\ cursor = [index |-> cursor.index, left |-> cursor.left,
                    calculator |-> CalculatorAt(cursor.index + 1)]
       /\ written \in 0..total /\ ends[cursor.index - 1] <= written
       /\ written > 0 => ends[cursor.index - 1] < written
       /\ numTypes > 1 => cursor.left \in Nat /\ cursor.left = ends[cursor.index] - written
  /\ phase # "write" => pending = <<>> /\ written = 0

\* The decoder's memory where the calculator comes to block i.
MemoryAt(i) == block.previous = <<CalculatorAt(i).second, CalculatorAt(i).last>>
TypedAt(k) == block.current = types[k] /\ MemoryAt(k + 1)

Bare        == <<Item("symbol", 0)>>
OfExtra(k)  == <<Item("extra", LengthExtra(lengths[k])), Item("symbol", 0)>>
OfLength(k) == <<Item("length", LengthSymbol(lengths[k])),
                 Item("extra", LengthExtra(lengths[k])), Item("symbol", 0)>>
OfType(k)   == <<Item("type", TypeSymbol(CalculatorAt(k), types[k])),
                 Item("length", LengthSymbol(lengths[k])),
                 Item("extra", LengthExtra(lengths[k])), Item("symbol", 0)>>

\* The decoder is behind the cursor by what is still to be read.
Behind(k) ==
  \/ pending = <<>> /\ ~ block.pending /\ TypedAt(k) /\ block.left = cursor.left
  \/ pending = Bare /\ ~ block.pending /\ TypedAt(k) /\ block.left = cursor.left + 1
  \/ /\ cursor.left + 1 = lengths[k] /\ block.left = 0
     /\ \/ /\ pending = OfExtra(k) /\ block.pending /\ TypedAt(k)
           /\ block.symbol = LengthSymbol(lengths[k]) /\ block.symbol # NoSymbol
        \/ pending = OfLength(k) /\ block.pending /\ TypedAt(k) /\ block.symbol = NoSymbol
        \/ pending = OfType(k) /\ k > 1 /\ ~ block.pending /\ MemoryAt(k)
Reading ==
  phase = "write" =>
    /\ block.types = numTypes
    /\ numTypes = 1 => pending \in {<<>>, Bare}
    /\ numTypes > 1 => Behind(cursor.index)

Placed(ends) ==
  /\ Ends(ends, lengths) /\ Counts(ends, types, histograms, added)
  /\ Splitting(ends) /\ Split(ends) /\ CursorPlaced(ends)

SplitIInv == SplitTypeOK /\ SwitchIInv /\ LastTwo /\ Reading /\ \E ends : Placed(ends)

-----------------------------------------------------------------------------
(* Blocks: one more, or the last one longer.                               *)

Extended(ends, m, n) == [b \in 0..(m + 1) |-> IF b = m + 1 THEN ends[m] + n ELSE ends[b]]

LEMMA BlockAdded ==
  ASSUME NEW ls \in Seq(Nat \ {0}), NEW ends, Ends(ends, ls), NEW n \in Nat \ {0}
  PROVE  /\ Ends(Extended(ends, Len(ls), n), Append(ls, n))
         /\ Append(ls, n) \in Seq(Nat \ {0}) /\ Len(Append(ls, n)) = Len(ls) + 1
         /\ Extended(ends, Len(ls), n)[Len(ls) + 1] = ends[Len(ls)] + n
         /\ \A b \in 0..Len(ls) : Extended(ends, Len(ls), n)[b] = ends[b]
<1> DEFINE m == Len(ls)
           f == Extended(ends, m, n)
           ms == Append(ls, n)
<1>1. /\ m \in Nat /\ ends \in [0..m -> Nat] /\ ends[m] \in Nat
      /\ \A b \in 1..m : ls[b] \in Nat \ {0}
  BY DEF Ends
<1>2. ms \in Seq(Nat \ {0}) /\ Len(ms) = m + 1 /\ ms[m + 1] = n /\ \A b \in 1..m : ms[b] = ls[b]
  OBVIOUS
<1>3. /\ f \in [0..(m + 1) -> Nat] /\ f[m + 1] = ends[m] + n
      /\ \A b \in 0..m : f[b] = ends[b]
  BY <1>1 DEF Extended
<1> HIDE DEF m, f, ms
<1>4. f[0] = 0
  BY <1>1, <1>3 DEF Ends, m
<1>5. ASSUME NEW b \in 1..(m + 1) PROVE f[b] = f[b - 1] + ms[b] /\ f[b] <= f[m + 1]
  <2>1. CASE b = m + 1
    BY <1>1, <1>2, <1>3, <2>1
  <2>2. CASE b \in 1..m
    <3>1. ends[b] = ends[b - 1] + ls[b] /\ ends[b] <= ends[m] /\ ends[b] \in Nat
      BY <1>1, <2>2, SMTT(30) DEF Ends, m
    <3>2. f[b] = ends[b] /\ f[b - 1] = ends[b - 1] /\ ms[b] = ls[b]
      BY <1>1, <1>2, <1>3, <2>2, SMTT(30)
    <3>3. QED
      BY <1>1, <1>3, <3>1, <3>2
  <2>3. QED
    BY <1>1, <2>1, <2>2
<1>6. QED
  BY <1>2, <1>3, <1>4, <1>5 DEF Ends, m, f, ms

LEMMA BlockGrown ==
  ASSUME NEW ls \in Seq(Nat \ {0}), ls # <<>>, NEW ends, Ends(ends, ls), NEW n \in Nat
  PROVE  /\ Ends([ends EXCEPT ![Len(ls)] = @ + n], [ls EXCEPT ![Len(ls)] = @ + n])
         /\ [ls EXCEPT ![Len(ls)] = @ + n] \in Seq(Nat \ {0})
         /\ Len([ls EXCEPT ![Len(ls)] = @ + n]) = Len(ls)
         /\ [ends EXCEPT ![Len(ls)] = @ + n][Len(ls)] = ends[Len(ls)] + n
         /\ \A b \in 0..(Len(ls) - 1) : [ends EXCEPT ![Len(ls)] = @ + n][b] = ends[b]
<1> DEFINE m == Len(ls)
           f == [ends EXCEPT ![m] = @ + n]
           ms == [ls EXCEPT ![m] = @ + n]
<1>1. /\ m \in Nat \ {0} /\ ends \in [0..m -> Nat] /\ ends[m] \in Nat
      /\ \A b \in 1..m : ls[b] \in Nat \ {0}
  BY DEF Ends
<1>2. /\ ms \in Seq(Nat \ {0}) /\ Len(ms) = m /\ ms[m] = ls[m] + n
      /\ \A b \in 1..(m - 1) : ms[b] = ls[b]
  BY <1>1
<1>3. /\ f \in [0..m -> Nat] /\ f[m] = ends[m] + n
      /\ \A b \in 0..(m - 1) : f[b] = ends[b]
  BY <1>1
<1> HIDE DEF m, f, ms
<1>4. f[0] = 0
  BY <1>1, <1>3 DEF Ends, m
<1>5. ASSUME NEW b \in 1..m PROVE f[b] = f[b - 1] + ms[b] /\ f[b] <= f[m]
  <2>1. /\ ends[b] = ends[b - 1] + ls[b] /\ ends[b] <= ends[m] /\ ends[b] \in Nat
        /\ ends[b - 1] \in Nat /\ ls[b] \in Nat /\ f[b - 1] = ends[b - 1]
    BY <1>1, <1>3, SMTT(30) DEF Ends, m
  <2>2. CASE b = m
    <3>1. f[b] = ends[b] + n /\ ms[b] = ls[b] + n /\ f[m] = f[b]
      BY <1>2, <1>3, <2>2
    <3>2. QED
      BY <2>1, <3>1, SMTT(30)
  <2>3. CASE b \in 1..(m - 1)
    <3>1. f[b] = ends[b] /\ ms[b] = ls[b] /\ f[m] = ends[m] + n
      BY <1>1, <1>2, <1>3, <2>3, SMTT(30)
    <3>2. QED
      BY <1>1, <2>1, <3>1
  <2>4. QED
    BY <1>1, <2>2, <2>3
<1>6. QED
  BY <1>2, <1>3, <1>4, <1>5 DEF Ends, m, f, ms

(* Symbols are as many as before or more; counts never fall for a type     *)
(* that a block has.                                                       *)
LEMMA CountsKept ==
  ASSUME NEW S, NEW ends, NEW ts, NEW hs, NEW gs, NEW a \in Seq(S), NEW c \in Seq(S),
         Len(ts) \in Nat, ends \in [0..Len(ts) -> Nat], Counts(ends, ts, hs, a),
         \A b \in 1..Len(ts) : ends[b] <= Len(a),
         Len(a) <= Len(c), \A i \in 1..Len(a) : c[i] = a[i],
         \A b \in 1..Len(ts) : \A s \in S : hs[ts[b]][s] > 0 => gs[ts[b]][s] > 0
  PROVE  Counts(ends, ts, gs, c)
<1> SUFFICES ASSUME NEW b \in 1..Len(ts), NEW i \in (ends[b - 1] + 1)..ends[b]
             PROVE  gs[ts[b]][c[i]] > 0
  BY DEF Counts
<1>1. ends[b - 1] \in Nat /\ ends[b] \in Nat /\ i \in 1..Len(a)
  <2>1. b - 1 \in 0..Len(ts) /\ b \in 0..Len(ts)
    OBVIOUS
  <2>2. ends[b - 1] \in Nat /\ ends[b] \in Nat /\ ends[b] <= Len(a)
    BY <2>1
  <2>3. QED
    BY <2>2
<1>2. hs[ts[b]][a[i]] > 0
  BY <1>1 DEF Counts
<1>3. QED
  BY <1>1, <1>2, SMTT(30)

(* The histograms last: there is one for as many types as whole blocks.    *)
LEMMA HistogramLeft ==
  ASSUME NEW k \in Nat, NEW n \in Nat, k * MinBlock <= n, k <= MaxTypes
  PROVE  k \in 0..(Capacity(n) - 1)
<1>1. MinBlock \in Nat \ {0} /\ MaxTypes \in Nat
  BY SplitAssumption
<1>2. k <= n \div MinBlock /\ n \div MinBlock \in Nat
  <2> DEFINE q == n \div MinBlock
             r == n % MinBlock
  <2>1. q \in Nat /\ r \in 0..(MinBlock - 1) /\ n = q * MinBlock + r
    BY <1>1
  <2> HIDE DEF q, r
  <2>2. CASE k <= q
    BY <2>1, <2>2 DEF q
  <2>3. CASE k >= q + 1
    <3>1. k * MinBlock >= (q + 1) * MinBlock
      BY <1>1, <2>1, <2>3
    <3>2. (q + 1) * MinBlock = q * MinBlock + MinBlock
      BY <1>1, <2>1
    <3>3. QED
      BY <1>1, <2>1, <3>1, <3>2
  <2>4. QED
    BY <2>1, <2>2, <2>3
<1>3. QED
  BY <1>1, <1>2 DEF Capacity

-----------------------------------------------------------------------------
(* The end of a block of n symbols, with which the symbols are a and the   *)
(* histograms hs, that of the block in progress among them.                *)

Finishing(ends, a, hs, n) ==
  /\ SplitTypeOK /\ LastTwo /\ phase = "split" /\ Ends(ends, lengths)
  /\ current = numTypes /\ current \in 0..(Capacity(total) - 1)
  /\ a \in Seq(Symbols) /\ n \in Nat /\ hs \in Histograms
  /\ Counts(ends, types, histograms, a) /\ ends[Len(types)] + n = Len(a)
  /\ \A i \in (ends[Len(types)] + 1)..Len(a) : hs[current][a[i]] > 0
  /\ \A g \in 0..(Capacity(total) - 1) : g # current => hs[g] = histograms[g]
  /\ total' = total

\* What then holds: the blocks end as f says, f[Len(types')] = ends + Padded(n).
Finished(ends, f, a, n) ==
  /\ Ends(f, lengths') /\ Counts(f, types', histograms', a) /\ TypesFit' /\ LastTwo'
  /\ f[Len(types')] = ends[Len(types)] + Padded(n)
  /\ types' # <<>> /\ current' = numTypes' /\ size' = 0 /\ numTypes' <= numTypes + 1

LEMMA FinishingFacts ==
  ASSUME NEW ends, NEW a, NEW hs, NEW n, Finishing(ends, a, hs, n)
  PROVE  /\ MinBlock \in Nat \ {0} /\ n \in Nat /\ Padded(n) \in Nat \ {0} /\ n <= Padded(n)
         /\ Len(types) \in Nat /\ Len(lengths) = Len(types) /\ ends \in [0..Len(types) -> Nat]
         /\ numTypes \in Nat /\ numTypes <= MaxTypes /\ current = numTypes
         /\ Len(a) \in Nat /\ a \in Seq(Symbols) /\ ends[Len(types)] \in Nat
         /\ \A b \in 1..Len(types) : /\ types[b] \in Nat /\ types[b] < current
                                     /\ types[b] \in 0..(Capacity(total) - 1)
                                     /\ hs[types[b]] = histograms[types[b]]
                                     /\ ends[b] <= Len(a)
<1> USE DEF Finishing
<1>1. MinBlock \in Nat \ {0} /\ n \in Nat /\ Padded(n) \in Nat \ {0} /\ n <= Padded(n)
  BY SplitAssumption DEF Padded
<1>2. /\ Len(types) \in Nat /\ Len(lengths) = Len(types) /\ ends \in [0..Len(types) -> Nat]
      /\ numTypes \in Nat /\ numTypes <= MaxTypes /\ current = numTypes
      /\ Len(a) \in Nat /\ a \in Seq(Symbols)
  BY SplitAssumption DEF SplitTypeOK, TypesFit, Ends
<1>3. ends[Len(types)] \in Nat
  BY <1>2
<1>4. ASSUME NEW b \in 1..Len(types)
      PROVE  /\ types[b] \in Nat /\ types[b] < current
             /\ types[b] \in 0..(Capacity(total) - 1)
             /\ hs[types[b]] = histograms[types[b]]
             /\ ends[b] <= Len(a)
  <2>1. types[b] \in Nat /\ types[b] < current /\ types[b] \in 0..(Capacity(total) - 1)
    <3>1. TypesFit
      BY DEF SplitTypeOK
    <3>2. types \in Seq(Nat) /\ types[b] < numTypes /\ types[b] \in 0..(Capacity(total) - 1)
      BY <3>1 DEF TypesFit
    <3>3. types[b] \in Nat
      BY <3>2
    <3>4. QED
      BY <1>2, <3>2, <3>3
  <2>2. ends[b] \in Nat /\ ends[b] <= ends[Len(types)]
    BY <1>2 DEF Ends
  <2>3. QED
    BY <1>1, <1>2, <1>3, <2>1, <2>2
<1>5. QED
  BY <1>1, <1>2, <1>3, <1>4

\* Nothing that was counted is lost from hs to gs, where the block goes to t.
KeepsCounts(hs, gs, t) ==
  /\ \A b \in 1..Len(types) : \A s \in Symbols :
       histograms[types[b]][s] > 0 => gs[types[b]][s] > 0
  /\ \A s \in Symbols : hs[current][s] > 0 => gs[t][s] > 0

(* With a block that a type was given, whatever it joined.                 *)
LEMMA CountsOfMore ==
  ASSUME NEW ends, NEW a, NEW hs, NEW n, Finishing(ends, a, hs, n),
         NEW gs, NEW t, KeepsCounts(hs, gs, t)
  PROVE  Counts(Extended(ends, Len(types), Padded(n)), Append(types, t), gs, a)
<1> DEFINE m == Len(types)
           f == Extended(ends, m, Padded(n))
           ts == Append(types, t)
<1>1. /\ m \in Nat /\ Len(ts) = m + 1 /\ ts[m + 1] = t /\ \A b \in 1..m : ts[b] = types[b]
  BY DEF Finishing, SplitTypeOK, TypesFit
<1>2. /\ \A b \in 0..m : f[b] = ends[b] /\ ends[b] \in Nat
      /\ f[m + 1] = ends[m] + Padded(n)
  <2>1. ends \in [0..m -> Nat] /\ m \in Nat
    BY FinishingFacts
  <2>2. QED
    BY <2>1 DEF Extended
<1>3. Counts(ends, types, gs, a)
  <2>1. /\ Len(types) \in Nat /\ ends \in [0..Len(types) -> Nat] /\ a \in Seq(Symbols)
        /\ \A b \in 1..Len(types) : ends[b] <= Len(a)
    BY FinishingFacts
  <2>2. Counts(ends, types, histograms, a)
    BY DEF Finishing
  <2>3. Len(a) <= Len(a)
    BY <2>1
  <2>4. QED
    BY <2>1, <2>2, <2>3, CountsKept DEF KeepsCounts
<1> SUFFICES ASSUME NEW b \in 1..(m + 1), NEW i \in (f[b - 1] + 1)..f[b], i <= Len(a)
             PROVE  gs[ts[b]][a[i]] > 0
  BY <1>1 DEF Counts
<1> HIDE DEF m, f, ts
<1>4. CASE b \in 1..m
  <2>1. f[b] = ends[b] /\ f[b - 1] = ends[b - 1] /\ ts[b] = types[b]
    BY <1>1, <1>2, <1>4
  <2>2. QED
    BY <1>3, <1>4, <2>1 DEF Counts, m
<1>5. CASE b = m + 1
  <2>1. ends[m] \in Nat /\ i \in (ends[m] + 1)..Len(a) /\ Len(a) \in Nat
    <3>1. f[b - 1] = ends[m] /\ ends[m] \in Nat /\ Len(a) \in Nat
      BY <1>1, <1>2, <1>5, FinishingFacts
    <3>2. QED
      BY <3>1
  <2>2. i \in 1..Len(a) /\ a[i] \in Symbols
    BY <2>1, FinishingFacts
  <2>3. hs[current][a[i]] > 0
    BY <2>1 DEF Finishing, m
  <2>4. QED
    BY <1>1, <1>5, <2>2, <2>3 DEF KeepsCounts
<1>6. QED
  BY <1>1, <1>4, <1>5

LEMMA ClearedIs ==
  ASSUME NEW hs \in Histograms, NEW h
  PROVE  /\ Cleared(hs, h) \in Histograms
         /\ \A g \in 0..(Capacity(total) - 1) : g # h => Cleared(hs, h)[g] = hs[g]
  BY DEF Cleared, Histograms, NoSymbols

LEMMA MergedIs ==
  ASSUME NEW h \in [Symbols -> Nat], NEW g \in [Symbols -> Nat]
  PROVE  /\ Merged(h, g) \in [Symbols -> Nat]
         /\ \A s \in Symbols : h[s] > 0 \/ g[s] > 0 => Merged(h, g)[s] > 0
  BY DEF Merged

(* What is known of a block put at the end: its types and its counts.      *)
LEMMA BlockPut ==
  ASSUME NEW ends, NEW a, NEW hs, NEW n, Finishing(ends, a, hs, n),
         NEW t \in Nat, NEW gs \in Histograms,
         types' = Append(types, t), lengths' = Append(lengths, Padded(n)),
         histograms' = gs, numTypes' \in 0..MaxTypes, numTypes' >= numTypes, t < numTypes',
         t \in 0..(Capacity(total) - 1),
         KeepsCounts(hs, gs, t), size' = 0, target' \in Nat, target' >= MinBlock, LastTwo',
         current' = numTypes', numTypes' <= numTypes + 1
  PROVE  \E f : Finished(ends, f, a, n)
<1> DEFINE m == Len(types)
           f == Extended(ends, m, Padded(n))
<1>1. /\ m \in Nat /\ Len(lengths) = m /\ Padded(n) \in Nat \ {0} /\ Ends(ends, lengths)
      /\ lengths \in Seq(Nat \ {0}) /\ types \in Seq(Nat) /\ numTypes \in Nat
  BY FinishingFacts, ZenonT(60) DEF Finishing, SplitTypeOK, TypesFit
<1>1a. \A b \in 1..m : types[b] \in Nat /\ types[b] < numTypes
                        /\ types[b] \in 0..(Capacity(total) - 1)
  BY FinishingFacts
<1>2. /\ Ends(f, lengths') /\ lengths' \in Seq(Nat \ {0}) /\ Len(lengths') = m + 1
      /\ f[m + 1] = ends[m] + Padded(n)
  BY <1>1, BlockAdded
<1>3. /\ types' \in Seq(Nat) /\ Len(types') = m + 1 /\ types'[m + 1] = t /\ types' # <<>>
      /\ \A b \in 1..m : types'[b] = types[b]
  BY <1>1
<1>4. Counts(f, types', histograms', a)
  BY CountsOfMore
<1> HIDE DEF f, m
<1>5. TypesFit'
  <2>1. ASSUME NEW b \in 1..(m + 1)
        PROVE  types'[b] < numTypes' /\ types'[b] \in 0..(Capacity(total) - 1)
    <3>1. CASE b = m + 1
      BY <1>3, <3>1
    <3>2. CASE b \in 1..m
      <4>1. /\ types'[b] = types[b] /\ types[b] < numTypes /\ types[b] \in Nat
            /\ types[b] \in 0..(Capacity(total) - 1)
        BY <1>1a, <1>3, <3>2
      <4>2. numTypes \in Nat /\ numTypes' \in Nat
        BY <1>1
      <4>3. types[b] < numTypes'
        BY <4>1, <4>2
      <4>4. QED
        BY <4>1, <4>3
    <3>3. m \in Nat
      BY <1>1
    <3>4. b = m + 1 \/ b \in 1..m
      BY <3>3
    <3>5. QED
      BY <3>1, <3>2, <3>4
  <2>2. total' = total /\ Histograms' = Histograms
    BY DEF Finishing, Histograms
  <2>3. types'[1] = 0
    <3>1. CASE m = 0
      <4>1. types = <<>>
        BY <1>1, <3>1 DEF m
      <4>2. numTypes = 0
        BY <4>1 DEF Finishing, LastTwo
      <4>3. QED
        BY <1>3, <3>1, <4>2
    <3>2. CASE m > 0
      <4>1. types # <<>> /\ 1 \in 1..m
        BY <1>1, <3>2 DEF m
      <4>2. types[1] = 0
        BY <4>1 DEF Finishing, SplitTypeOK, TypesFit
      <4>3. QED
        BY <1>3, <4>1, <4>2
    <3>3. QED
      BY <1>1, <3>1, <3>2
  <2>4. QED
    BY <1>2, <1>3, <2>1, <2>2, <2>3 DEF TypesFit
<1>6. QED
  BY <1>2, <1>3, <1>4, <1>5 DEF Finished, m

LEMMA FirstBlockFinished ==
  ASSUME NEW ends, NEW a, NEW hs, NEW n, Finishing(ends, a, hs, n), FirstBlock(hs, n)
  PROVE  \E f : Finished(ends, f, a, n)
<1> DEFINE gs == Cleared(hs, current + 1)
<1>1. /\ types = <<>> /\ numTypes = 0 /\ current = 0 /\ 0 \in 0..(Capacity(total) - 1)
      /\ hs \in Histograms /\ lengths = <<>>
  BY FinishingFacts DEF Finishing, FirstBlock, LastTwo, SplitTypeOK, TypesFit
<1>2. gs \in Histograms /\ gs[0] = hs[0]
  BY <1>1, ClearedIs
<1>3. /\ types' = <<0>> /\ lengths' = <<Padded(n)>> /\ numTypes' = 1 /\ current' = 1
      /\ last' = <<Recent(0, hs[0]), Recent(0, hs[0])>> /\ histograms' = gs
      /\ size' = 0 /\ target' = target
  BY <1>1 DEF FirstBlock
<1> HIDE DEF gs
<1>4. types' = Append(types, 0) /\ lengths' = Append(lengths, Padded(n))
  BY <1>1, <1>3
<1>5. LastTwo'
  BY <1>2, <1>3 DEF LastTwo, SecondType
<1>6. MaxTypes \in Nat \ {0} /\ target \in Nat /\ target >= MinBlock
  BY SplitAssumption DEF Finishing, SplitTypeOK, TypesFit
<1>7. QED
  <2>1. KeepsCounts(hs, gs, 0)
    BY <1>1, <1>2 DEF KeepsCounts
  <2>2. QED
    BY <1>1, <1>2, <1>3, <1>4, <1>5, <1>6, <2>1, BlockPut

LEMMA NewTypeFinished ==
  ASSUME NEW ends, NEW a, NEW hs, NEW n, Finishing(ends, a, hs, n), NewType(hs, n)
  PROVE  \E f : Finished(ends, f, a, n)
<1> DEFINE gs == Cleared(hs, current + 1)
           m == Len(types)
<1>1. /\ types # <<>> /\ m \in Nat \ {0} /\ types \in Seq(Nat) /\ hs \in Histograms
      /\ numTypes \in Nat \ {0} /\ current = numTypes /\ numTypes < MaxTypes
      /\ current \in 0..(Capacity(total) - 1) /\ MaxTypes \in Nat
  BY FinishingFacts, SplitAssumption DEF Finishing, NewType, LastTwo, SplitTypeOK, TypesFit
<1>1a. \A b \in 1..m : /\ types[b] \in Nat /\ types[b] < current
                        /\ types[b] \in 0..(Capacity(total) - 1)
                        /\ hs[types[b]] = histograms[types[b]]
  BY FinishingFacts
<1>2. /\ gs \in Histograms /\ gs[current] = hs[current]
      /\ \A b \in 1..m : gs[types[b]] = histograms[types[b]]
  <2>1. /\ gs \in Histograms
        /\ \A g \in 0..(Capacity(total) - 1) : g # current + 1 => gs[g] = hs[g]
    BY <1>1, ClearedIs
  <2> HIDE DEF gs
  <2>2. ASSUME NEW b \in 1..m PROVE gs[types[b]] = histograms[types[b]]
    <3>1. types[b] \in 0..(Capacity(total) - 1) /\ types[b] # current + 1
      BY <1>1, <1>1a
    <3>2. QED
      BY <1>1a, <2>1, <3>1
  <2>3. QED
    BY <1>1, <2>1, <2>2
<1>3. /\ types' = Append(types, current) /\ lengths' = Append(lengths, Padded(n))
      /\ numTypes' = numTypes + 1 /\ current' = current + 1
      /\ last' = <<Recent(current, hs[current]), last[1]>> /\ histograms' = gs
      /\ size' = 0 /\ target' = MinBlock
  BY <1>1 DEF NewType, ResetAfterSplit
<1> HIDE DEF gs
<1>4. /\ Len(types') = m + 1 /\ types'[m + 1] = current /\ types'[m] = types[m]
      /\ types' # <<>>
  BY <1>1, <1>3
<1>5. LastTwo'
  <2>1. last[1] = Recent(types[m], histograms[types[m]])
    BY <1>1 DEF Finishing, LastTwo
  <2>2. SecondType' = m
    BY <1>1, <1>4 DEF SecondType
  <2>3. gs[types[m]] = histograms[types[m]] /\ types[m] < current /\ types[m] \in Nat
    BY <1>1, <1>1a, <1>2
  <2>4. last' = <<Recent(types'[Len(types')], histograms'[types'[Len(types')]]),
                  Recent(types'[SecondType'], histograms'[types'[SecondType']])>>
    BY <1>2, <1>3, <1>4, <2>1, <2>2, <2>3
  <2> HIDE DEF m
  <2>5. numTypes' > 0 /\ (numTypes' = 1 <=> Len(types') = 1)
    BY <1>1, <1>3, <1>4
  <2>6. types'[Len(types')] # types'[Len(types') - 1]
    BY <1>1, <1>4, <2>3
  <2>7. QED
    BY <1>4, <2>4, <2>5, <2>6 DEF LastTwo
<1>6. /\ MinBlock \in Nat /\ MinBlock >= MinBlock /\ numTypes' \in 0..MaxTypes
      /\ numTypes' >= numTypes /\ current < numTypes' /\ numTypes' <= numTypes + 1
      /\ current' = numTypes' /\ current \in Nat
  BY <1>1, <1>3, SplitAssumption
<1>7. KeepsCounts(hs, gs, current)
  BY <1>2 DEF KeepsCounts
<1>8. QED
  BY <1>1, <1>2, <1>3, <1>5, <1>6, <1>7, BlockPut

(* A block that joins the type t that a block has: nothing is lost.        *)
JoinedHistograms(hs, t) == Cleared([hs EXCEPT ![t] = Merged(hs[current], hs[t])], current)

LEMMA JoinedIs ==
  ASSUME NEW ends, NEW a, NEW hs, NEW n, Finishing(ends, a, hs, n),
         NEW k \in 1..Len(types), NEW t, t = types[k]
  PROVE  /\ JoinedHistograms(hs, t) \in Histograms /\ KeepsCounts(hs, JoinedHistograms(hs, t), t)
         /\ JoinedHistograms(hs, t)[t] = Merged(hs[current], hs[t])
         /\ \A b \in 1..Len(types) :
              types[b] # t => JoinedHistograms(hs, t)[types[b]] = histograms[types[b]]
<1> DEFINE new == Merged(hs[current], hs[t])
           both == [hs EXCEPT ![t] = new]
           gs == Cleared(both, current)
<1>1. /\ hs \in Histograms /\ current \in 0..(Capacity(total) - 1)
      /\ t \in 0..(Capacity(total) - 1) /\ t < current /\ t \in Nat /\ current \in Nat
      /\ hs[t] = histograms[t]
  <2>1. /\ types[k] \in Nat /\ types[k] < current /\ types[k] \in 0..(Capacity(total) - 1)
        /\ hs[types[k]] = histograms[types[k]]
    BY FinishingFacts
  <2>2. /\ hs \in Histograms /\ current \in 0..(Capacity(total) - 1)
    BY DEF Finishing
  <2>3. QED
    BY <2>1, <2>2
<1>2. /\ hs[current] \in [Symbols -> Nat] /\ hs[t] \in [Symbols -> Nat]
  BY <1>1 DEF Histograms
<1>3. /\ new \in [Symbols -> Nat]
      /\ \A s \in Symbols : hs[current][s] > 0 \/ hs[t][s] > 0 => new[s] > 0
  BY <1>2, MergedIs
<1> HIDE DEF new
<1>4. both \in Histograms /\ both[t] = new /\ \A g \in 0..(Capacity(total) - 1) : g # t => both[g] = hs[g]
  BY <1>1, <1>3 DEF Histograms
<1> HIDE DEF both
<1>5. gs \in Histograms /\ \A g \in 0..(Capacity(total) - 1) : g # current => gs[g] = both[g]
  BY <1>4, ClearedIs
<1> HIDE DEF gs
<1>6. gs[t] = new
  BY <1>1, <1>4, <1>5
<1>7. ASSUME NEW b \in 1..Len(types), types[b] # t PROVE gs[types[b]] = histograms[types[b]]
  <2>1. /\ types[b] \in 0..(Capacity(total) - 1) /\ types[b] < current /\ types[b] \in Nat
        /\ hs[types[b]] = histograms[types[b]]
    BY FinishingFacts
  <2>2. types[b] # current
    BY <1>1, <2>1
  <2>3. QED
    BY <1>4, <1>5, <1>7, <2>1, <2>2
<1>8. KeepsCounts(hs, gs, t)
  <2>1. ASSUME NEW b \in 1..Len(types), NEW s \in Symbols, histograms[types[b]][s] > 0
        PROVE  gs[types[b]][s] > 0
    <3>1. CASE types[b] = t
      BY <1>1, <1>3, <1>6, <2>1, <3>1
    <3>2. CASE types[b] # t
      BY <1>7, <2>1, <3>2
    <3>3. QED
      BY <3>1, <3>2
  <2>2. QED
    BY <1>3, <1>6, <2>1 DEF KeepsCounts
<1>9. gs = JoinedHistograms(hs, t)
  BY DEF gs, both, new, JoinedHistograms
<1>10. QED
  BY <1>5, <1>6, <1>7, <1>8, <1>9 DEF new

(* The two types that a block may join are not the same, unless there is   *)
(* just one.                                                               *)
LEMMA TwoTypes ==
  ASSUME NEW ends, NEW a, NEW hs, NEW n, Finishing(ends, a, hs, n), types # <<>>
  PROVE  /\ Len(types) \in Nat \ {0} /\ SecondType \in 1..Len(types)
         /\ last = <<Recent(types[Len(types)], histograms[types[Len(types)]]),
                     Recent(types[SecondType], histograms[types[SecondType]])>>
         /\ numTypes \in Nat \ {0} /\ (numTypes = 1 <=> Len(types) = 1)
         /\ Len(types) = 1 => SecondType = Len(types) /\ last[1] = last[2]
         /\ Len(types) > 1 => /\ SecondType = Len(types) - 1
                              /\ types[SecondType] # types[Len(types)]
<1>1. Len(types) \in Nat \ {0} /\ numTypes \in Nat
  BY FinishingFacts DEF Finishing, SplitTypeOK, TypesFit
<1>2. LastTwo
  BY DEF Finishing
<1>3. /\ last = <<Recent(types[Len(types)], histograms[types[Len(types)]]),
                  Recent(types[SecondType], histograms[types[SecondType]])>>
      /\ numTypes > 0 /\ (numTypes = 1 <=> Len(types) = 1)
      /\ Len(types) > 1 => types[Len(types)] # types[Len(types) - 1]
  BY <1>2 DEF LastTwo
<1>4. /\ SecondType \in 1..Len(types) /\ (Len(types) = 1 => SecondType = Len(types))
      /\ Len(types) > 1 => SecondType = Len(types) - 1
  <2>1. CASE Len(types) = 1
    BY <2>1 DEF SecondType
  <2>2. CASE Len(types) # 1
    <3>1. SecondType = Len(types) - 1
      BY <2>2 DEF SecondType
    <3>2. QED
      BY <1>1, <2>2, <3>1
  <2>3. QED
    BY <2>1, <2>2
<1>5. Len(types) = 1 => last[1] = last[2]
  BY <1>3, <1>4
<1>6. QED
  BY <1>1, <1>3, <1>4, <1>5

LEMMA ReturnFinished ==
  ASSUME NEW ends, NEW a, NEW hs, NEW n, Finishing(ends, a, hs, n), ReturnToSecondLast(hs, n)
  PROVE  \E f : Finished(ends, f, a, n)
<1> DEFINE m == Len(types)
           t == types[m - 1]
           gs == JoinedHistograms(hs, t)
<1>1. /\ types # <<>> /\ m \in Nat \ {0} /\ m > 1 /\ SecondType = m - 1
      /\ last = <<Recent(types[m], histograms[types[m]]), Recent(t, histograms[t])>>
      /\ t # types[m] /\ numTypes \in Nat \ {0} /\ numTypes # 1
  BY TwoTypes DEF ReturnToSecondLast
<1>2. m - 1 \in 1..m /\ m \in 1..m
  BY <1>1
<1>3. /\ gs \in Histograms /\ KeepsCounts(hs, gs, t) /\ gs[t] = Merged(hs[current], hs[t])
      /\ gs[types[m]] = histograms[types[m]]
  BY <1>1, <1>2, JoinedIs
<1>4. last[1] = Recent(types[m], histograms[types[m]]) /\ last[2].histogram = t
  BY <1>1 DEF Recent
<1>5. /\ types' = Append(types, t) /\ lengths' = Append(lengths, Padded(n))
      /\ histograms' = gs /\ last' = <<Recent(t, gs[t]), last[1]>>
      /\ numTypes' = numTypes /\ current' = current /\ size' = 0 /\ target' = MinBlock
  BY <1>3, <1>4 DEF ReturnToSecondLast, Returned, ResetAfterSplit, Combined, JoinedHistograms
<1>6. /\ t \in Nat /\ t < numTypes /\ t \in 0..(Capacity(total) - 1) /\ current = numTypes
      /\ MinBlock \in Nat /\ numTypes \in 0..MaxTypes /\ types \in Seq(Nat)
  BY <1>2, FinishingFacts, SplitAssumption, ZenonT(60) DEF Finishing, SplitTypeOK, TypesFit
<1> HIDE DEF gs, t
<1>7. /\ Len(types') = m + 1 /\ types'[m + 1] = t /\ types'[m] = types[m] /\ types' # <<>>
  <2>1. types' = Append(types, t) /\ types \in Seq(Nat) /\ t \in Nat /\ m \in 1..Len(types)
    BY <1>2, <1>5, <1>6
  <2>2. QED
    BY <2>1
<1>8. LastTwo'
  <2>1. SecondType' = m
    BY <1>1, <1>7 DEF SecondType
  <2>2. last' = <<Recent(types'[Len(types')], histograms'[types'[Len(types')]]),
                  Recent(types'[SecondType'], histograms'[types'[SecondType']])>>
    BY <1>3, <1>4, <1>5, <1>7, <2>1
  <2> HIDE DEF m
  <2>3. numTypes' > 0 /\ (numTypes' = 1 <=> Len(types') = 1)
    BY <1>1, <1>5, <1>7
  <2>4. types'[Len(types')] # types'[Len(types') - 1]
    BY <1>1, <1>7
  <2>5. QED
    BY <1>7, <2>2, <2>3, <2>4 DEF LastTwo
<1>9. MinBlock >= MinBlock /\ numTypes' >= numTypes /\ numTypes' <= numTypes + 1
  BY <1>1, <1>5, <1>6
<1>10. QED
  BY <1>3, <1>5, <1>6, <1>8, <1>9, BlockPut

(* A block that joins the last: none is put at the end, and the last ends  *)
(* where it does.                                                          *)
LEMMA GrowFinished ==
  ASSUME NEW ends, NEW a, NEW hs, NEW n, Finishing(ends, a, hs, n), GrowLast(hs, n)
  PROVE  \E f : Finished(ends, f, a, n)
<1> DEFINE m == Len(types)
           t == types[m]
           gs == JoinedHistograms(hs, t)
           f == [ends EXCEPT ![Len(lengths)] = @ + Padded(n)]
<1>1. /\ types # <<>> /\ m \in Nat \ {0} /\ SecondType \in 1..m
      /\ last = <<Recent(t, histograms[t]), Recent(types[SecondType], histograms[types[SecondType]])>>
      /\ numTypes \in Nat \ {0} /\ (numTypes = 1 <=> m = 1)
      /\ m = 1 => SecondType = m /\ last[1] = last[2]
      /\ m > 1 => SecondType = m - 1 /\ types[SecondType] # t
  BY TwoTypes DEF GrowLast
<1>2. /\ Ends(ends, lengths) /\ lengths \in Seq(Nat \ {0}) /\ Len(lengths) = m
      /\ Padded(n) \in Nat \ {0} /\ types \in Seq(Nat) /\ numTypes \in 0..MaxTypes
      /\ MinBlock \in Nat \ {0} /\ target \in Nat /\ target >= MinBlock /\ current = numTypes
      /\ total' = total
  BY FinishingFacts, SplitAssumption, ZenonT(60) DEF Finishing, SplitTypeOK, TypesFit
<1>3. /\ gs \in Histograms /\ KeepsCounts(hs, gs, t) /\ gs[t] = Merged(hs[current], hs[t])
      /\ \A b \in 1..m : types[b] # t => gs[types[b]] = histograms[types[b]]
  <2>1. m \in 1..Len(types)
    BY <1>1
  <2>2. QED
    BY <2>1, JoinedIs
<1>4. /\ last[1] = Recent(t, histograms[t]) /\ last[1].histogram = t
      /\ last[2] = Recent(types[SecondType], histograms[types[SecondType]])
      /\ last[2].histogram = types[SecondType]
  BY <1>1 DEF Recent
<1>5. /\ types' = types /\ lengths' = [lengths EXCEPT ![Len(lengths)] = @ + Padded(n)]
      /\ histograms' = gs /\ numTypes' = numTypes /\ current' = current /\ size' = 0
      /\ last' = <<Recent(t, gs[t]), IF numTypes = 1 THEN Recent(types[SecondType], gs[t]) ELSE last[2]>>
      /\ target' \in Nat /\ target' >= MinBlock
  <2>1. Combined(hs, 1) = gs[t] /\ histograms' = gs
    BY <1>3, <1>4 DEF GrowLast, Combined, JoinedHistograms
  <2>2. target' = target + MinBlock \/ target' = target
    BY DEF GrowLast
  <2>3. target' \in Nat /\ target' >= MinBlock
    BY <1>2, <2>2
  <2>4. QED
    BY <2>1, <2>3, <1>4 DEF GrowLast
<1>6. /\ Ends(f, lengths') /\ lengths' \in Seq(Nat \ {0}) /\ Len(lengths') = m
      /\ f[m] = ends[m] + Padded(n) /\ \A b \in 0..(m - 1) : f[b] = ends[b]
  <2>1. lengths # <<>>
    BY <1>1, <1>2
  <2>2. /\ Ends(f, [lengths EXCEPT ![Len(lengths)] = @ + Padded(n)])
        /\ [lengths EXCEPT ![Len(lengths)] = @ + Padded(n)] \in Seq(Nat \ {0})
        /\ Len([lengths EXCEPT ![Len(lengths)] = @ + Padded(n)]) = Len(lengths)
        /\ f[Len(lengths)] = ends[Len(lengths)] + Padded(n)
        /\ \A b \in 0..(Len(lengths) - 1) : f[b] = ends[b]
    <3>1. lengths \in Seq(Nat \ {0}) /\ Ends(ends, lengths) /\ Padded(n) \in Nat
      BY <1>2
    <3>2. QED
      BY <2>1, <3>1, BlockGrown, Zenon
  <2> HIDE DEF f, m
  <2>3. QED
    BY <1>2, <1>5, <2>2
<1>7. Counts(f, types, gs, a)
  <2>1. Counts(ends, types, gs, a)
    <3>1. /\ Len(types) \in Nat /\ ends \in [0..Len(types) -> Nat] /\ a \in Seq(Symbols)
          /\ \A b \in 1..Len(types) : ends[b] <= Len(a)
      BY FinishingFacts
    <3>2. Counts(ends, types, histograms, a)
      BY DEF Finishing
    <3>3. Len(a) <= Len(a)
      BY <3>1
    <3>4. QED
      BY <3>1, <3>2, <3>3, <1>3, CountsKept DEF KeepsCounts
  <2> HIDE DEF f, gs
  <2> SUFFICES ASSUME NEW b \in 1..m, NEW i \in (f[b - 1] + 1)..f[b], i <= Len(a)
               PROVE  gs[types[b]][a[i]] > 0
    BY DEF Counts
  <2>2. f[b - 1] = ends[b - 1]
    BY <1>1, <1>6
  <2>3. /\ Len(a) \in Nat /\ ends \in [0..m -> Nat] /\ ends[m] \in Nat /\ a \in Seq(Symbols)
    BY FinishingFacts
  <2>4. ends[b - 1] \in Nat /\ ends[b] \in Nat
    <3>1. b - 1 \in 0..m /\ b \in 0..m
      BY <1>1
    <3>2. QED
      BY <2>3, <3>1
  <2>5. CASE i <= ends[b]
    <3>1. i \in (ends[b - 1] + 1)..ends[b]
      BY <2>2, <2>4, <2>5
    <3>2. QED
      BY <2>1, <3>1 DEF Counts
  <2>6. CASE i > ends[b]
    <3>1. b = m
      <4>1. ASSUME b \in 1..(m - 1) PROVE FALSE
        <5>1. f[b] = ends[b]
          BY <1>1, <1>6, <4>1
        <5>2. i <= ends[b]
          BY <2>2, <2>4, <5>1
        <5>3. QED
          BY <2>2, <2>4, <2>6, <5>1, <5>2
      <4>2. QED
        BY <1>1, <4>1
    <3>2. i \in (ends[m] + 1)..Len(a)
      BY <2>2, <2>3, <2>4, <2>6, <3>1
    <3>3. i \in 1..Len(a) /\ a[i] \in Symbols
      BY <2>3, <3>2
    <3>4. hs[current][a[i]] > 0
      BY <3>2 DEF Finishing
    <3>5. QED
      BY <1>3, <3>1, <3>3, <3>4 DEF KeepsCounts
  <2>7. QED
    BY <2>2, <2>4, <2>5, <2>6
<1>8. LastTwo'
  <2>1. SecondType' = SecondType
    BY <1>5 DEF SecondType
  <2>2. numTypes # 1 => gs[types[SecondType]] = histograms[types[SecondType]]
    <3>1. numTypes # 1 => SecondType \in 1..m /\ types[SecondType] # t
      BY <1>1, SMTT(30)
    <3> HIDE DEF gs, t
    <3>2. QED
      BY <1>3, <3>1
  <2>3. numTypes = 1 => types[SecondType] = t
    BY <1>1
  <2> HIDE DEF gs, t
  <2>4. last' = <<Recent(t, gs[t]), Recent(types[SecondType], gs[types[SecondType]])>>
    BY <1>4, <1>5, <2>2, <2>3
  <2>5. m > 1 => types[m] # types[m - 1]
    BY <1>1 DEF t
  <2>6. QED
    BY <1>1, <1>5, <2>1, <2>4, <2>5 DEF LastTwo, t
<1>9. TypesFit'
  <2>1. \A b \in 1..m : types[b] < numTypes /\ types[b] \in 0..(Capacity(total) - 1)
    BY DEF Finishing, SplitTypeOK, TypesFit
  <2>2. Histograms' = Histograms
    BY <1>2 DEF Histograms
  <2>3. types[1] = 0
    BY <1>1 DEF Finishing, SplitTypeOK, TypesFit
  <2> HIDE DEF gs, t, f
  <2>4. QED
    BY <1>2, <1>3, <1>5, <1>6, <2>1, <2>2, <2>3 DEF TypesFit
<1>10. numTypes' <= numTypes + 1
  BY <1>1, <1>5
<1>11. QED
  BY <1>1, <1>2, <1>5, <1>6, <1>7, <1>8, <1>9, <1>10 DEF Finished

LEMMA BlockFinished ==
  ASSUME NEW ends, NEW a, NEW hs, NEW n, Finishing(ends, a, hs, n), FinishBlock(hs, n)
  PROVE  \E f : Finished(ends, f, a, n)
  BY FirstBlockFinished, NewTypeFinished, ReturnFinished, GrowFinished DEF FinishBlock

-----------------------------------------------------------------------------
(* The splitter's steps.                                                   *)

LEMMA SwitchSame ==
  ASSUME SwitchIInv, UNCHANGED switchVars
  PROVE  SwitchIInv'
  BY DEF switchVars, SwitchIInv, SwitchTypeOK, SymbolsFollowSwitches, MemoryHolds,
         TypesMeanCodes, Meaning, Latest, SwitchDue

(* While it splits, the block in progress has a histogram.                 *)
LEMMA SplitFacts ==
  ASSUME SplitIInv, NEW ends, Placed(ends), phase = "split"
  PROVE  /\ MinBlock \in Nat \ {0} /\ total \in Nat /\ numTypes \in Nat /\ size \in Nat
         /\ Len(added) \in Nat /\ Len(added) <= total /\ added \in Seq(Symbols)
         /\ current = numTypes /\ current \in 0..(Capacity(total) - 1)
         /\ Len(types) \in Nat /\ ends \in [0..Len(types) -> Nat] /\ ends[Len(types)] \in Nat
         /\ ends[Len(types)] = Len(added) - size /\ numTypes * MinBlock <= ends[Len(types)]
         /\ histograms \in Histograms
<1>1. /\ MinBlock \in Nat \ {0} /\ total \in Nat /\ numTypes \in Nat /\ size \in Nat
      /\ Len(added) \in Nat /\ Len(added) <= total /\ added \in Seq(Symbols)
      /\ Len(types) \in Nat /\ Len(types) = Len(lengths) /\ numTypes <= MaxTypes
      /\ histograms \in Histograms
  BY SplitAssumption DEF SplitIInv, SplitTypeOK, TypesFit
<1>2. ends \in [0..Len(types) -> Nat]
  BY <1>1 DEF Placed, Ends
<1>3. ends[Len(types)] \in Nat
  BY <1>1, <1>2
<1>4. /\ current = numTypes /\ ends[Len(types)] = Len(added) - size
      /\ numTypes * MinBlock <= ends[Len(types)]
  BY DEF Placed, Splitting
<1>5. numTypes * MinBlock \in Nat
  BY <1>1
<1>6. numTypes * MinBlock <= total
  BY <1>1, <1>3, <1>4, <1>5
<1>7. current \in 0..(Capacity(total) - 1)
  BY <1>1, <1>4, <1>6, HistogramLeft
<1>8. QED
  BY <1>1, <1>2, <1>3, <1>4, <1>7

(* A symbol more is counted for the block in progress.                     *)
LEMMA SymbolCounted ==
  ASSUME SplitIInv, NEW ends, Placed(ends), NEW symbol \in Symbols, phase = "split",
         Len(added) < total, total' = total,
         NEW a, a = Append(added, symbol),
         NEW hs, hs = [histograms EXCEPT ![current][symbol] = @ + 1]
  PROVE  /\ Finishing(ends, a, hs, size + 1)
         /\ Len(a) = Len(added) + 1
         /\ Counts(ends, types, hs, a)
<1>0. /\ total \in Nat /\ numTypes \in Nat /\ size \in Nat
      /\ Len(added) \in Nat /\ Len(added) <= total /\ added \in Seq(Symbols)
      /\ current = numTypes /\ current \in 0..(Capacity(total) - 1)
      /\ Len(types) \in Nat /\ ends \in [0..Len(types) -> Nat] /\ ends[Len(types)] \in Nat
      /\ ends[Len(types)] = Len(added) - size
      /\ histograms \in Histograms
  BY SplitFacts
<1>1. /\ a \in Seq(Symbols) /\ Len(a) = Len(added) + 1 /\ a[Len(added) + 1] = symbol
      /\ \A i \in 1..Len(added) : a[i] = added[i]
  BY <1>0
<1>2. /\ hs \in Histograms /\ \A g \in 0..(Capacity(total) - 1) : g # current => hs[g] = histograms[g]
      /\ \A s \in Symbols : histograms[current][s] > 0 => hs[current][s] > 0
      /\ hs[current][symbol] > 0
  <2>1. histograms[current] \in [Symbols -> Nat]
    BY <1>0 DEF Histograms
  <2>2. hs[current] = [histograms[current] EXCEPT ![symbol] = @ + 1]
    BY <1>0 DEF Histograms
  <2>3. hs[current] \in [Symbols -> Nat] /\ hs[current][symbol] = histograms[current][symbol] + 1
        /\ \A s \in Symbols : s # symbol => hs[current][s] = histograms[current][s]
    BY <2>1, <2>2
  <2>4. \A g \in 0..(Capacity(total) - 1) : g # current => hs[g] = histograms[g]
    BY <1>0 DEF Histograms
  <2>5. hs \in Histograms
    BY <1>0, <2>3 DEF Histograms
  <2>6. histograms[current][symbol] \in Nat
    BY <2>1
  <2>7. QED
    BY <2>3, <2>4, <2>5, <2>6
<1>3. /\ \A b \in 1..Len(types) : ends[b] <= Len(added)
      /\ \A b \in 1..Len(types) : types[b] # current /\ types[b] \in 0..(Capacity(total) - 1)
  <2> SUFFICES ASSUME NEW b \in 1..Len(types)
               PROVE  /\ ends[b] <= Len(added) /\ types[b] # current
                      /\ types[b] \in 0..(Capacity(total) - 1)
    OBVIOUS
  <2>1. types[b] < numTypes /\ types[b] \in Nat /\ types[b] \in 0..(Capacity(total) - 1)
    BY DEF SplitIInv, SplitTypeOK, TypesFit
  <2>2. ends[b] \in Nat
    BY <1>0
  <2>3. ends[b] <= ends[Len(types)]
    BY DEF Placed, Ends, SplitIInv, SplitTypeOK, TypesFit
  <2>4. QED
    BY <1>0, <2>1, <2>2, <2>3
<1>4. Counts(ends, types, histograms, added)
  BY DEF Placed
<1>5. Len(added) <= Len(a)
  BY <1>0, <1>1
<1>6. Counts(ends, types, histograms, a)
  BY <1>0, <1>1, <1>3, <1>4, <1>5, CountsKept
<1>7. Counts(ends, types, hs, a)
  <2>1. \A b \in 1..Len(types) : \A s \in Symbols :
          histograms[types[b]][s] > 0 => hs[types[b]][s] > 0
    BY <1>2, <1>3
  <2>2. ASSUME NEW b \in 1..Len(types), NEW i \in (ends[b - 1] + 1)..ends[b], i <= Len(a)
        PROVE  hs[types[b]][a[i]] > 0
    <3>1. ends[b - 1] \in Nat /\ ends[b] \in Nat
      <4>1. b - 1 \in 0..Len(types) /\ b \in 0..Len(types)
        BY <1>0
      <4>2. QED
        BY <1>0, <4>1
    <3>2. i \in 1..Len(a)
      BY <1>1, <2>2, <3>1
    <3>3. a[i] \in Symbols
      BY <1>1, <3>2
    <3>4. histograms[types[b]][a[i]] > 0
      BY <1>6, <2>2 DEF Counts
    <3>5. QED
      BY <2>1, <3>3, <3>4
  <2>3. QED
    BY <2>2 DEF Counts
<1>8. ASSUME NEW i \in (ends[Len(types)] + 1)..Len(a) PROVE hs[current][a[i]] > 0
  <2>1. CASE i = Len(added) + 1
    BY <1>1, <1>2, <2>1
  <2>2. CASE i <= Len(added)
    <3>1. i \in (ends[Len(types)] + 1)..Len(added) /\ i \in 1..Len(added)
      BY <1>0, <2>2
    <3>2. histograms[current][added[i]] > 0
      BY <3>1 DEF Placed, Splitting
    <3>3. added[i] \in Symbols /\ a[i] = added[i]
      BY <1>0, <1>1, <3>1
    <3>4. QED
      BY <1>2, <3>2, <3>3
  <2>3. QED
    BY <1>0, <1>1, <2>1, <2>2
<1>9. Finishing(ends, a, hs, size + 1)
  <2>1. SplitTypeOK /\ LastTwo /\ Ends(ends, lengths)
    BY DEF SplitIInv, Placed
  <2>2. size + 1 \in Nat /\ ends[Len(types)] + (size + 1) = Len(a)
    BY <1>0, <1>1
  <2>3. QED
    BY <1>0, <1>1, <1>2, <1>6, <1>8, <2>1, <2>2 DEF Finishing
<1>10. QED
  BY <1>1, <1>7, <1>9

LEMMA MoreTypes ==
  ASSUME NEW i \in Nat, NEW j \in Nat, NEW k \in Nat, NEW e \in Nat, j <= i + 1, i * k <= e
  PROVE  j * k <= e + k /\ j * k \in Nat
<1>1. i * k \in Nat /\ j * k \in Nat /\ (i + 1) * k = i * k + k
  OBVIOUS
<1>2. j * k <= (i + 1) * k
  <2>1. CASE j = i + 1
    BY <1>1, <2>1
  <2>2. CASE j <= i
    <3>1. PICK d \in Nat : i = j + d
      <4>1. i - j \in Nat /\ i = j + (i - j)
        BY <2>2
      <4>2. QED
        BY <4>1
    <3>2. (i + 1) * k = j * k + (d + 1) * k /\ (d + 1) * k \in Nat
      BY <3>1
    <3>3. QED
      BY <1>1, <3>2
  <2>3. QED
    BY <2>1, <2>2
<1>3. QED
  BY <1>1, <1>2

LEMMA AddSymbolIInv ==
  ASSUME SplitIInv, NEW symbol \in Symbols, AddSymbol(symbol)
  PROVE  SplitIInv'
<1> DEFINE hs == [histograms EXCEPT ![current][symbol] = @ + 1]
           a == Append(added, symbol)
<1>1. /\ phase = "split" /\ phase' = "split" /\ Len(added) < total /\ added' = a /\ total' = total
      /\ UNCHANGED writing /\ UNCHANGED switchVars
  BY DEF AddSymbol
<1>2. PICK ends : Placed(ends)
  BY DEF SplitIInv
<1>3. /\ MinBlock \in Nat \ {0} /\ total \in Nat /\ numTypes \in Nat /\ size \in Nat
      /\ Len(added) \in Nat /\ current = numTypes /\ added \in Seq(Symbols)
      /\ Len(types) \in Nat /\ ends \in [0..Len(types) -> Nat] /\ ends[Len(types)] \in Nat
      /\ ends[Len(types)] = Len(added) - size /\ numTypes * MinBlock <= ends[Len(types)]
  BY <1>1, <1>2, SplitFacts
<1>4. Finishing(ends, a, hs, size + 1) /\ Len(a) = Len(added) + 1 /\ Counts(ends, types, hs, a)
  BY <1>1, <1>2, SymbolCounted
<1> HIDE DEF hs, a
<1>5. /\ a \in Seq(Symbols) /\ Len(a) <= total /\ hs \in Histograms
      /\ phase' # "any" => total' \in Totals
  BY <1>1, <1>3, <1>4 DEF SplitIInv, SplitTypeOK, Finishing
<1>6. SwitchIInv' /\ Reading'
  BY <1>1, SwitchSame DEF SplitIInv, Reading
<1>7. \A f : CursorPlaced(f)'
  BY <1>1 DEF SplitIInv, Placed, CursorPlaced, writing
<1>8. CASE size + 1 = target
  <2>1. FinishBlock(hs, size + 1)
    BY <1>8 DEF AddSymbol, hs
  <2>2. PICK f : Finished(ends, f, a, size + 1)
    BY <1>4, <2>1, BlockFinished
  <2>3. Padded(size + 1) = size + 1
    <3>1. size + 1 >= MinBlock
      BY <1>8 DEF SplitIInv, SplitTypeOK, TypesFit
    <3>2. QED
      BY <1>3, <3>1 DEF Padded
  <2>4. /\ f[Len(types')] = Len(a) /\ current' = numTypes' /\ size' = 0
        /\ numTypes' <= numTypes + 1 /\ TypesFit' /\ LastTwo'
        /\ Ends(f, lengths') /\ Counts(f, types', histograms', a)
    BY <1>3, <1>4, <2>2, <2>3 DEF Finished
  <2>5. numTypes' * MinBlock <= Len(a)
    <3>1. numTypes' \in Nat /\ MinBlock \in Nat /\ size + 1 >= MinBlock
      BY <1>3, <1>8, <2>4 DEF SplitIInv, SplitTypeOK, TypesFit
    <3>2. /\ numTypes' * MinBlock <= ends[Len(types)] + MinBlock
          /\ numTypes' * MinBlock \in Nat
      BY <1>3, <2>4, <3>1, MoreTypes
    <3>3. QED
      BY <1>3, <1>4, <3>1, <3>2
  <2>6. Splitting(f)'
    BY <1>1, <1>3, <1>4, <2>4, <2>5 DEF Splitting
  <2>7. Split(f)'
    BY <1>1, <1>3, <1>4, <1>5, <2>4 DEF Split
  <2>8. Placed(f)'
    BY <1>1, <1>7, <2>4, <2>6, <2>7 DEF Placed
  <2>9. SplitTypeOK'
    BY <1>1, <1>3, <1>5, <2>4 DEF SplitTypeOK
  <2>10. QED
    BY <1>6, <2>4, <2>8, <2>9 DEF SplitIInv
<1>9. CASE size + 1 # target
  <2>1. /\ histograms' = hs /\ size' = size + 1
        /\ UNCHANGED <<types, lengths, numTypes, current, target, last>>
    BY <1>9 DEF AddSymbol, hs
  <2>2. TypesFit'
    <3>1. TypesFit /\ Histograms' = Histograms
      BY <1>1 DEF SplitIInv, SplitTypeOK, Histograms
    <3>2. QED
      BY <1>1, <1>3, <1>5, <2>1, <3>1 DEF TypesFit
  <2>3. LastTwo'
    <3>1. types # <<>> => /\ histograms'[types[Len(types)]] = histograms[types[Len(types)]]
                          /\ histograms'[types[SecondType]] = histograms[types[SecondType]]
      <4> SUFFICES ASSUME types # <<>>
                   PROVE  /\ hs[types[Len(types)]] = histograms[types[Len(types)]]
                          /\ hs[types[SecondType]] = histograms[types[SecondType]]
        BY <2>1
      <4>1. \A b \in 1..Len(types) : hs[types[b]] = histograms[types[b]]
        BY <1>4, FinishingFacts
      <4>2. Len(types) \in 1..Len(types) /\ SecondType \in 1..Len(types)
        BY <1>4, TwoTypes
      <4>3. QED
        BY <4>1, <4>2
    <3>2. SecondType' = SecondType
      BY <2>1 DEF SecondType
    <3>3. LastTwo
      BY DEF SplitIInv
    <3>4. QED
      BY <1>1, <2>1, <3>1, <3>2, <3>3 DEF LastTwo
  <2>4. Splitting(ends)'
    <3>1. \A i \in (ends[Len(types)] + 1)..Len(a) : hs[current][a[i]] > 0
      BY <1>4 DEF Finishing
    <3>2. size + 1 <= Len(a) /\ ends[Len(types)] = Len(a) - (size + 1)
      BY <1>3, <1>4
    <3>3. QED
      BY <1>1, <1>3, <2>1, <3>1, <3>2 DEF Splitting
  <2>5. Split(ends)'
    BY <1>1, <1>2, <2>1 DEF Placed, Split
  <2>6. Ends(ends, lengths') /\ Counts(ends, types', histograms', added')
    BY <1>1, <1>2, <1>4, <2>1 DEF Placed
  <2>7. Placed(ends)'
    BY <1>7, <2>4, <2>5, <2>6 DEF Placed
  <2>8. SplitTypeOK'
    BY <1>1, <1>3, <1>5, <2>2 DEF SplitTypeOK
  <2>9. QED
    BY <1>6, <2>3, <2>7, <2>8 DEF SplitIInv
<1>10. QED
  BY <1>8, <1>9

LEMMA FinishIInv ==
  ASSUME SplitIInv, Finish
  PROVE  SplitIInv'
<1>1. /\ phase = "split" /\ phase' = "header" /\ Len(added) = total /\ added' = added
      /\ total' = total /\ UNCHANGED writing /\ UNCHANGED switchVars
      /\ FinishBlock(histograms, size)
  BY DEF Finish
<1>2. PICK ends : Placed(ends)
  BY DEF SplitIInv
<1>3. /\ MinBlock \in Nat \ {0} /\ total \in Nat /\ numTypes \in Nat /\ size \in Nat
      /\ Len(added) \in Nat /\ Len(added) <= total /\ added \in Seq(Symbols)
      /\ current = numTypes /\ current \in 0..(Capacity(total) - 1)
      /\ ends[Len(types)] \in Nat /\ ends[Len(types)] = Len(added) - size
      /\ histograms \in Histograms
  BY <1>1, <1>2, SplitFacts
<1>4. Finishing(ends, added, histograms, size)
  <2>1. /\ SplitTypeOK /\ LastTwo /\ Ends(ends, lengths) /\ Counts(ends, types, histograms, added)
        /\ \A i \in (ends[Len(types)] + 1)..Len(added) : histograms[current][added[i]] > 0
    BY <1>1, <1>2 DEF SplitIInv, Placed, Splitting
  <2>2. QED
    BY <1>1, <1>3, <2>1 DEF Finishing
<1>5. PICK f : Finished(ends, f, added, size)
  BY <1>1, <1>4, BlockFinished
<1>6. size <= Padded(size) /\ Padded(size) <= size + MinBlock /\ Padded(size) \in Nat
  BY <1>3 DEF Padded
<1>7. /\ f[Len(types')] = ends[Len(types)] + Padded(size) /\ TypesFit' /\ LastTwo'
      /\ Ends(f, lengths') /\ Counts(f, types', histograms', added)
  BY <1>5 DEF Finished
<1>8. Splitting(f)' /\ Split(f)'
  BY <1>1, <1>3, <1>6, <1>7 DEF Splitting, Split
<1>9. CursorPlaced(f)'
  BY <1>1, <1>2 DEF Placed, CursorPlaced, writing
<1>10. Placed(f)'
  BY <1>1, <1>7, <1>8, <1>9 DEF Placed
<1>11. SplitTypeOK'
  BY <1>1, <1>3, <1>7 DEF SplitIInv, SplitTypeOK
<1>12. SwitchIInv' /\ Reading'
  BY <1>1, SwitchSame DEF SplitIInv, Reading
<1>13. QED
  BY <1>7, <1>10, <1>11, <1>12 DEF SplitIInv

(* A partition of any number of types begins as it should.                 *)
LEMMA PartitionIInv ==
  ASSUME NEW k \in Nat \ {0}, NEW first \in Nat,
         block' = NewBlocks(k, IF k = 1 THEN 0 ELSE first),
         switches' = <<Block(0, first)>>, codes' = <<>>
  PROVE  SwitchIInv'
<1> USE DEF NewBlocks, Block, NoSymbol
<1>1. SwitchTypeOK'
  BY DEF SwitchTypeOK, BlocksOf
<1>2. SymbolsFollowSwitches'
  BY DEF SymbolsFollowSwitches, Latest, SwitchDue
<1>3. MemoryHolds' /\ TypesMeanCodes'
  BY DEF MemoryHolds, TypesMeanCodes, Latest
<1>4. QED
  BY <1>1, <1>2, <1>3 DEF SwitchIInv

LEMMA InitSplitIInv == Init => SplitIInv
<1> SUFFICES ASSUME Init PROVE SplitIInv
  OBVIOUS
<1>1. /\ total \in Nat /\ phase \in {"split", "any"} /\ (phase = "split" => total \in Totals)
      /\ MinBlock \in Nat \ {0} /\ MaxTypes \in Nat \ {0}
  <2>1. (phase = "split" /\ total \in Totals) \/ (phase = "any" /\ total = 0)
    BY DEF Init
  <2>2. MinBlock \in Nat \ {0} /\ MaxTypes \in Nat \ {0} /\ \A n \in Totals : n \in Nat
    BY SplitAssumption
  <2>3. QED
    BY <2>1, <2>2
<1>2. SwitchIInv
  <2>1. CASE phase = "any"
    BY <2>1, SwitchInitIInv DEF Init
  <2>2. CASE phase = "split"
    <3> USE DEF NewBlocks, Block, NoSymbol
    <3>1. block = NewBlocks(1, 0) /\ switches = <<Block(0, 0)>> /\ codes = <<>>
      BY <2>2 DEF Init
    <3>2. SwitchTypeOK
      BY <3>1 DEF SwitchTypeOK, BlocksOf
    <3>3. SymbolsFollowSwitches
      BY <3>1 DEF SymbolsFollowSwitches, Latest, SwitchDue
    <3>4. MemoryHolds /\ TypesMeanCodes
      BY <3>1 DEF MemoryHolds, TypesMeanCodes, Latest
    <3>5. QED
      BY <3>2, <3>3, <3>4 DEF SwitchIInv
  <2>3. QED
    BY <1>1, <2>1, <2>2
<1>3. /\ added = <<>> /\ types = <<>> /\ lengths = <<>> /\ numTypes = 0 /\ current = 0
      /\ size = 0 /\ target = MinBlock /\ pending = <<>> /\ written = 0
      /\ histograms = [h \in 0..(Capacity(total) - 1) |-> NoSymbols]
  BY DEF Init
<1>4. SplitTypeOK
  BY <1>1, <1>3 DEF SplitTypeOK, TypesFit, Histograms, NoSymbols
<1>5. LastTwo /\ Reading
  BY <1>1, <1>3 DEF LastTwo, Reading
<1>6. Placed([b \in 0..0 |-> 0])
  BY <1>1, <1>3 DEF Placed, Ends, Counts, Splitting, Split, CursorPlaced
<1>7. QED
  BY <1>2, <1>4, <1>5, <1>6 DEF SplitIInv

(* No block is too long for a length code.                                 *)
LEMMA LengthsCoded ==
  ASSUME SplitIInv, phase \in {"header", "write"}, NEW k \in 1..Len(lengths)
  PROVE  /\ LengthSymbol(lengths[k]) \in DOMAIN LengthCodes
         /\ LengthSymbol(lengths[k]) \in Nat \ {0}
         /\ LengthCodes[LengthSymbol(lengths[k])].offset + LengthExtra(lengths[k]) = lengths[k]
<1>1. PICK ends : Placed(ends)
  BY DEF SplitIInv
<1>2. /\ total \in Totals /\ total \in Nat /\ MinBlock \in Nat /\ Len(lengths) \in Nat
      /\ lengths[k] \in Nat \ {0} /\ Len(types) = Len(lengths)
  BY SplitAssumption DEF SplitIInv, SplitTypeOK, TypesFit
<1>3. lengths[k] <= total + MinBlock
  <2>1. /\ ends \in [0..Len(lengths) -> Nat] /\ ends[k] = ends[k - 1] + lengths[k]
        /\ ends[k] <= ends[Len(lengths)]
    BY <1>1 DEF Placed, Ends
  <2>2. ends[Len(lengths)] <= total + MinBlock
    BY <1>1, <1>2 DEF Placed, Split
  <2>3. k - 1 \in 0..Len(lengths) /\ k \in 0..Len(lengths) /\ Len(lengths) \in 0..Len(lengths)
    BY <1>2
  <2>4. ends[k - 1] \in Nat /\ ends[k] \in Nat /\ ends[Len(lengths)] \in Nat
    BY <2>1, <2>3
  <2>5. QED
    BY <1>2, <2>1, <2>2, <2>4
<1>4. \E i \in DOMAIN LengthCodes : Covers(i, lengths[k])
  <2>1. lengths[k] \in 1..(total + MinBlock)
    BY <1>2, <1>3
  <2>2. QED
    BY <1>2, <2>1, CodesAssumption
<1>5. LengthSymbol(lengths[k]) \in DOMAIN LengthCodes
  BY <1>4 DEF LengthSymbol
<1>6. /\ LengthSymbol(lengths[k]) \in Nat \ {0}
      /\ LengthCodes[LengthSymbol(lengths[k])].offset \in Nat
  BY <1>5, LengthAssumption
<1>7. LengthCodes[LengthSymbol(lengths[k])].offset + LengthExtra(lengths[k]) = lengths[k]
  BY <1>2, <1>6 DEF LengthExtra
<1>8. QED
  BY <1>5, <1>6, <1>7

LEMMA WriteHeaderIInv ==
  ASSUME SplitIInv, WriteHeader
  PROVE  SplitIInv'
<1>1. /\ phase = "header" /\ phase' = "write" /\ UNCHANGED <<total, added, splitter>>
      /\ written' = written /\ pending' = pending
      /\ cursor' = [index |-> 1, left |-> lengths[1],
                    calculator |-> Calculated(NewCalculator, types[1])]
  BY DEF WriteHeader
<1>2. PICK ends : Placed(ends)
  BY DEF SplitIInv
<1>3. /\ types # <<>> /\ Len(types) \in Nat \ {0} /\ Len(lengths) = Len(types)
      /\ numTypes \in Nat \ {0} /\ types[1] = 0 /\ lengths \in Seq(Nat \ {0})
      /\ total \in Nat /\ pending = <<>> /\ written = 0
  BY <1>1, <1>2 DEF SplitIInv, SplitTypeOK, TypesFit, LastTwo, Placed, CursorPlaced
<1>4. lengths[1] \in Nat \ {0} /\ 1 \in 1..Len(lengths)
  BY <1>3
<1>5. Partition(numTypes, lengths[1])
  BY <1>1, <1>4, LengthsCoded DEF WriteHeader
<1>6. SwitchIInv'
  BY <1>3, <1>4, <1>5, PartitionIInv DEF Partition
<1>7. /\ types' = types /\ lengths' = lengths /\ numTypes' = numTypes /\ total' = total
      /\ histograms' = histograms /\ last' = last /\ added' = added /\ size' = size
      /\ target' = target /\ current' = current
  BY <1>1 DEF splitter
<1>8. ends[0] = 0 /\ ends[1] = lengths[1]
  BY <1>2, <1>4 DEF Placed, Ends
<1>9. cursor'.calculator = CalculatorAt(2)' /\ cursor'.index = 1 /\ cursor'.left = lengths[1]
  BY <1>1, <1>7 DEF CalculatorAt, Calculated, NewCalculator
<1>10. CursorPlaced(ends)'
  BY <1>1, <1>3, <1>4, <1>7, <1>8, <1>9 DEF CursorPlaced
<1>11. Placed(ends)'
  BY <1>1, <1>2, <1>7, <1>10 DEF Placed, Splitting, Split
<1>12. Reading'
  <2>1. block' = NewBlocks(numTypes, IF numTypes = 1 THEN 0 ELSE lengths[1])
    BY <1>5 DEF Partition
  <2>2. /\ block'.types = numTypes /\ block'.current = 0 /\ block'.previous = <<1, 0>>
        /\ block'.pending = FALSE /\ (numTypes # 1 => block'.left = lengths[1])
    BY <2>1 DEF NewBlocks
  <2>3. TypedAt(1)'
    BY <1>3, <1>7, <2>2 DEF TypedAt, MemoryAt, CalculatorAt
  <2>4. QED
    BY <1>1, <1>3, <1>7, <1>9, <2>2, <2>3 DEF Reading, Behind
<1>13. SplitTypeOK' /\ LastTwo'
  BY <1>1, <1>7 DEF SplitIInv, SplitTypeOK, TypesFit, Histograms, LastTwo, SecondType, Capacity
<1>14. QED
  BY <1>6, <1>11, <1>12, <1>13 DEF SplitIInv

-----------------------------------------------------------------------------
(* Writing and reading.                                                    *)

LEMMA CalculatedNext ==
  ASSUME NEW k \in Nat \ {0}
  PROVE  /\ Calculated(CalculatorAt(k + 1), types[k + 1]) = CalculatorAt(k + 2)
         /\ CalculatorAt(k + 1) = [last |-> types[k], second |-> IF k = 1 THEN 1 ELSE types[k - 1]]
<1>1. k + 1 # 1 /\ k + 2 # 1 /\ k + 2 # 2 /\ (k + 1) - 1 = k /\ (k + 1) - 2 = k - 1
      /\ (k + 2) - 1 = k + 1 /\ (k + 2) - 2 = k /\ (k + 1 = 2 <=> k = 1)
  OBVIOUS
<1>2. QED
  BY <1>1 DEF Calculated, CalculatorAt

(* The cursor in the blocks.                                               *)
LEMMA WriteFacts ==
  ASSUME SplitIInv, phase = "write", NEW ends, Placed(ends)
  PROVE  /\ Len(types) \in Nat \ {0} /\ Len(lengths) = Len(types) /\ cursor.index \in 1..Len(types)
         /\ numTypes \in Nat \ {0} /\ (numTypes = 1 <=> Len(types) = 1)
         /\ total \in Nat /\ written \in 0..total /\ total <= ends[Len(types)]
         /\ ends \in [0..Len(types) -> Nat] /\ ends[0] = 0
         /\ cursor = [index |-> cursor.index, left |-> cursor.left,
                      calculator |-> CalculatorAt(cursor.index + 1)]
         /\ ends[cursor.index - 1] <= written
         /\ written > 0 => ends[cursor.index - 1] < written
         /\ numTypes > 1 => cursor.left \in Nat /\ cursor.left = ends[cursor.index] - written
         /\ block.types = numTypes
<1>1. /\ Len(types) \in Nat \ {0} /\ Len(lengths) = Len(types) /\ numTypes \in Nat \ {0}
      /\ (numTypes = 1 <=> Len(types) = 1) /\ total \in Nat
  BY SMTT(30) DEF SplitIInv, SplitTypeOK, TypesFit, LastTwo
<1>2. /\ cursor.index \in 1..Len(types) /\ written \in 0..total
      /\ cursor = [index |-> cursor.index, left |-> cursor.left,
                   calculator |-> CalculatorAt(cursor.index + 1)]
      /\ ends[cursor.index - 1] <= written
      /\ written > 0 => ends[cursor.index - 1] < written
      /\ numTypes > 1 => cursor.left \in Nat /\ cursor.left = ends[cursor.index] - written
  BY DEF Placed, CursorPlaced
<1>3. ends \in [0..Len(types) -> Nat] /\ ends[0] = 0 /\ total <= ends[Len(types)]
  BY <1>1 DEF Placed, Ends, Split
<1>4. block.types = numTypes
  BY DEF SplitIInv, Reading
<1>5. QED
  BY <1>1, <1>2, <1>3, <1>4

(* A switch is only written where there is a block left.                   *)
LEMMA BlockLeft ==
  ASSUME SplitIInv, phase = "write", NEW ends, Placed(ends), SwitchWritten, written < total
  PROVE  /\ cursor.index < Len(types) /\ ends[cursor.index] = written /\ numTypes > 1
         /\ lengths[cursor.index + 1] \in Nat \ {0}
         /\ ends[cursor.index + 1] = written + lengths[cursor.index + 1]
<1>1. /\ Len(types) \in Nat \ {0} /\ Len(lengths) = Len(types) /\ cursor.index \in 1..Len(types)
      /\ total \in Nat /\ written \in 0..total /\ total <= ends[Len(types)]
      /\ ends \in [0..Len(types) -> Nat] /\ numTypes \in Nat
      /\ numTypes > 1 => cursor.left \in Nat /\ cursor.left = ends[cursor.index] - written
  BY WriteFacts
<1>2. numTypes > 1 /\ cursor.left = 0
  BY DEF SwitchWritten
<1>3. ends[cursor.index] \in Nat
  BY <1>1
<1>4. ends[cursor.index] = written
  BY <1>1, <1>2, <1>3
<1>5. cursor.index # Len(types)
  BY <1>1, <1>4
<1>6. cursor.index + 1 \in 1..Len(lengths) /\ (cursor.index + 1) - 1 = cursor.index
  BY <1>1, <1>5
<1>7. ends[cursor.index + 1] = written + lengths[cursor.index + 1]
  BY <1>4, <1>6 DEF Placed, Ends
<1>8. lengths[cursor.index + 1] \in Nat \ {0}
  BY <1>6, SMTT(30) DEF SplitIInv, SplitTypeOK, TypesFit
<1>9. QED
  BY <1>1, <1>2, <1>4, <1>5, <1>7, <1>8

LEMMA WriteSymbolIInv ==
  ASSUME SplitIInv, WriteSymbol
  PROVE  SplitIInv'
<1>0. PICK k : k = cursor.index
  OBVIOUS
<1>1. /\ phase = "write" /\ phase' = "write" /\ written < total /\ pending = <<>>
      /\ written' = written + 1 /\ UNCHANGED <<total, added, splitter>> /\ UNCHANGED switchVars
  BY DEF WriteSymbol
<1>2. PICK ends : Placed(ends)
  BY DEF SplitIInv
<1>3. /\ Len(types) \in Nat \ {0} /\ Len(lengths) = Len(types) /\ k \in 1..Len(types)
      /\ numTypes \in Nat \ {0} /\ (numTypes = 1 <=> Len(types) = 1)
      /\ total \in Nat /\ written \in 0..total /\ total <= ends[Len(types)]
      /\ ends \in [0..Len(types) -> Nat] /\ ends[0] = 0
      /\ cursor = [index |-> k, left |-> cursor.left, calculator |-> CalculatorAt(k + 1)]
      /\ ends[k - 1] <= written
      /\ numTypes > 1 => cursor.left \in Nat /\ cursor.left = ends[k] - written
      /\ block.types = numTypes
  BY <1>0, <1>1, <1>2, WriteFacts
<1>4. /\ types' = types /\ lengths' = lengths /\ numTypes' = numTypes /\ total' = total
      /\ histograms' = histograms /\ last' = last /\ added' = added /\ size' = size
      /\ target' = target /\ current' = current /\ block' = block
  BY <1>1 DEF splitter, switchVars
<1>5. SplitTypeOK' /\ LastTwo'
  BY <1>1, <1>4 DEF SplitIInv, SplitTypeOK, TypesFit, Histograms, LastTwo, SecondType, Capacity
<1>6. SwitchIInv'
  BY <1>1, SwitchSame DEF SplitIInv
<1>7. /\ CalculatorAt(k + 1)' = CalculatorAt(k + 1) /\ CalculatorAt(k + 2)' = CalculatorAt(k + 2)
      /\ TypedAt(k)' = TypedAt(k) /\ MemoryAt(k + 1)' = MemoryAt(k + 1)
      /\ OfType(k + 1)' = OfType(k + 1)
  <2>1. ASSUME NEW i PROVE CalculatorAt(i)' = CalculatorAt(i)
    BY <1>4 DEF CalculatorAt
  <2>2. ASSUME NEW i PROVE MemoryAt(i)' = MemoryAt(i)
    BY <1>4, <2>1 DEF MemoryAt
  <2>3. TypedAt(k)' = TypedAt(k)
    BY <1>4, <2>2 DEF TypedAt
  <2>4. OfType(k + 1)' = OfType(k + 1)
    BY <1>4, <2>1 DEF OfType
  <2>5. QED
    BY <2>1, <2>2, <2>3, <2>4
<1>8. Ends(ends, lengths') /\ Counts(ends, types', histograms', added') /\ Splitting(ends)'
      /\ Split(ends)'
  BY <1>1, <1>2, <1>4 DEF Placed, Splitting, Split
<1>9. numTypes > 1 => /\ ~ block.pending /\ TypedAt(k) /\ block.left = cursor.left
  BY <1>0, <1>1, <1>3 DEF SplitIInv, Reading, Behind, Bare, OfExtra, OfLength, OfType
<1>10. CASE SwitchWritten
  <2>1. /\ k < Len(types) /\ ends[k] = written /\ numTypes > 1
        /\ lengths[k + 1] \in Nat \ {0} /\ ends[k + 1] = written + lengths[k + 1]
    BY <1>0, <1>1, <1>2, <1>10, BlockLeft
  <2>2. /\ cursor' = [index |-> k + 1, left |-> lengths[k + 1] - 1,
                      calculator |-> Calculated(cursor.calculator, types[k + 1])]
        /\ pending' = <<Item("type", TypeSymbol(cursor.calculator, types[k + 1])),
                        Item("length", LengthSymbol(lengths[k + 1])),
                        Item("extra", LengthExtra(lengths[k + 1])), Item("symbol", 0)>>
    BY <1>0, <1>10 DEF WriteSymbol
  <2>3. cursor.calculator = CalculatorAt(k + 1)
    BY <1>3
  <2>4. cursor' = [index |-> k + 1, left |-> lengths[k + 1] - 1, calculator |-> CalculatorAt(k + 2)]
    <3>1. k \in Nat \ {0}
      BY <1>3
    <3>2. Calculated(CalculatorAt(k + 1), types[k + 1]) = CalculatorAt(k + 2)
      BY <3>1, CalculatedNext
    <3>3. QED
      BY <2>2, <2>3, <3>2
  <2>5. /\ cursor'.index = k + 1 /\ cursor'.left = lengths[k + 1] - 1
        /\ cursor'.calculator = CalculatorAt(k + 2)
    BY <2>4
  <2>6. pending' = OfType(k + 1)'
    BY <1>7, <2>2, <2>3 DEF OfType
  <2>7. CursorPlaced(ends)'
    <3>1. /\ k + 1 \in 1..Len(types) /\ (k + 1) - 1 = k /\ (k + 1) + 1 = k + 2
          /\ written + 1 \in 0..total /\ lengths[k + 1] - 1 \in Nat
          /\ lengths[k + 1] - 1 = ends[k + 1] - (written + 1)
      <4>1. k \in Nat \ {0} /\ Len(types) \in Nat /\ written \in Nat /\ total \in Nat
        BY <1>3
      <4>2. QED
        BY <1>1, <2>1, <4>1
    <3>2. ends[k] <= written + 1 /\ ends[k] < written + 1
      BY <1>3, <2>1
    <3>3. QED
      BY <1>1, <1>4, <1>7, <2>4, <2>5, <3>1, <3>2 DEF CursorPlaced
  <2>8. Reading'
    <3>1. block.left = 0 /\ MemoryAt(k + 1)'
      BY <1>7, <1>9, <1>10, <2>1 DEF SwitchWritten, TypedAt
    <3>2. k + 1 > 1 /\ cursor'.left + 1 = lengths'[k + 1]
      BY <1>3, <1>4, <2>1, <2>5, SMTT(30)
    <3>3. block'.left = 0 /\ ~ block'.pending
      BY <1>4, <1>9, <2>1, <3>1
    <3>4. Behind(k + 1)'
      BY <2>6, <3>1, <3>2, <3>3 DEF Behind
    <3>5. block'.types = numTypes' /\ numTypes' > 1 /\ numTypes' # 1
      BY <1>3, <1>4, <2>1
    <3>6. QED
      BY <2>5, <3>4, <3>5 DEF Reading
  <2>9. QED
    BY <1>5, <1>6, <1>8, <2>7, <2>8 DEF SplitIInv, Placed
<1>11. CASE ~ SwitchWritten
  <2>1. /\ cursor' = IF numTypes = 1 THEN cursor ELSE [cursor EXCEPT !.left = @ - 1]
        /\ pending' = Bare
    BY <1>11 DEF WriteSymbol, Bare
  <2>2. numTypes # 1 => /\ numTypes > 1 /\ cursor.left - 1 \in Nat
                        /\ cursor' = [index |-> k, left |-> cursor.left - 1,
                                      calculator |-> CalculatorAt(k + 1)]
    <3> SUFFICES ASSUME numTypes # 1
                 PROVE  /\ numTypes > 1 /\ cursor.left - 1 \in Nat
                        /\ cursor' = [index |-> k, left |-> cursor.left - 1,
                                      calculator |-> CalculatorAt(k + 1)]
      OBVIOUS
    <3>1. numTypes > 1 /\ cursor.left \in Nat /\ cursor.left # 0
      BY <1>3, <1>11 DEF SwitchWritten
    <3>2. cursor' = [cursor EXCEPT !.left = @ - 1]
      BY <2>1
    <3>3. cursor = [index |-> k, left |-> cursor.left, calculator |-> CalculatorAt(k + 1)]
      BY <1>3
    <3>4. QED
      BY <3>1, <3>2, <3>3
  <2>3. /\ cursor'.index = k /\ (numTypes # 1 => cursor'.left = cursor.left - 1)
        /\ cursor' = [index |-> k, left |-> cursor'.left, calculator |-> CalculatorAt(k + 1)]
    BY <1>3, <2>1, <2>2
  <2>4. CursorPlaced(ends)'
    <3>1. written + 1 \in 0..total /\ ends[k - 1] <= written + 1 /\ ends[k - 1] < written + 1
      <4>1. k - 1 \in 0..Len(types)
        BY <1>3
      <4>2. ends[k - 1] \in Nat
        BY <1>3, <4>1
      <4>3. QED
        BY <1>1, <1>3, <4>2
    <3>2. numTypes > 1 => cursor'.left \in Nat /\ cursor'.left = ends[k] - (written + 1)
      <4>1. ends[k] \in Nat
        BY <1>3
      <4>2. QED
        BY <1>3, <2>2, <2>3, <4>1
    <3>3. QED
      BY <1>1, <1>3, <1>4, <1>7, <2>3, <3>1, <3>2 DEF CursorPlaced
  <2>5. Reading'
    <3>1. numTypes > 1 => Behind(k)'
      <4> SUFFICES ASSUME numTypes > 1 PROVE Behind(k)'
        OBVIOUS
      <4>1. TypedAt(k)'
        BY <1>7, <1>9
      <4>2. block'.left = cursor'.left + 1 /\ ~ block'.pending
        BY <1>3, <1>4, <1>9, <2>2, <2>3
      <4>3. pending' = Bare'
        BY <2>1 DEF Bare, Item
      <4>4. QED
        BY <4>1, <4>2, <4>3 DEF Behind
    <3>2. block'.types = numTypes' /\ numTypes' = numTypes /\ cursor'.index = k
      BY <1>3, <1>4, <2>3
    <3>3. pending' \in {<<>>, Bare}'
      BY <2>1 DEF Bare, Item
    <3>4. QED
      BY <3>1, <3>2, <3>3 DEF Reading
  <2>6. QED
    BY <1>5, <1>6, <1>8, <2>4, <2>5 DEF SplitIInv, Placed
<1>12. QED
  BY <1>10, <1>11

(* What is left to read of a symbol, with or without a switch.             *)
LEMMA Items ==
  ASSUME NEW k
  PROVE  /\ Len(Bare) = 1 /\ Head(Bare) = Item("symbol", 0) /\ Tail(Bare) = <<>>
         /\ Len(OfExtra(k)) = 2 /\ Head(OfExtra(k)) = Item("extra", LengthExtra(lengths[k]))
         /\ Tail(OfExtra(k)) = Bare
         /\ Len(OfLength(k)) = 3 /\ Head(OfLength(k)) = Item("length", LengthSymbol(lengths[k]))
         /\ Tail(OfLength(k)) = OfExtra(k)
         /\ Len(OfType(k)) = 4
         /\ Head(OfType(k)) = Item("type", TypeSymbol(CalculatorAt(k), types[k]))
         /\ Tail(OfType(k)) = OfLength(k)
  BY DEF Bare, OfExtra, OfLength, OfType

LEMMA ItemIs ==
  ASSUME NEW kind, NEW value, NEW k2, NEW v2, Item(kind, value) = Item(k2, v2)
  PROVE  kind = k2 /\ value = v2
  BY DEF Item

LEMMA PendingForms ==
  ASSUME SplitIInv, phase = "write", NEW k, k = cursor.index
  PROVE  /\ pending \in {<<>>, Bare, OfExtra(k), OfLength(k), OfType(k)}
         /\ Len(pending) > 1 => numTypes > 1
         /\ block.types = numTypes /\ numTypes \in Nat \ {0}
         /\ numTypes > 1 => Behind(k)
<1>1. /\ block.types = numTypes /\ (numTypes = 1 => pending \in {<<>>, Bare})
      /\ numTypes > 1 => Behind(k)
  BY DEF SplitIInv, Reading
<1>2. numTypes \in Nat \ {0}
  BY DEF SplitIInv, SplitTypeOK, TypesFit, LastTwo
<1>3. CASE numTypes = 1
  <2>1. Len(pending) = 0 \/ Len(pending) = 1
    BY <1>1, <1>3, Items
  <2>2. QED
    BY <1>1, <1>2, <1>3, <2>1
<1>4. CASE numTypes > 1
  BY <1>1, <1>2, <1>4 DEF Behind
<1>5. QED
  BY <1>2, <1>3, <1>4

(* What is read tells how far the decoder is.                              *)
LEMMA ReadIs ==
  ASSUME SplitIInv, phase = "write", NEW k, k = cursor.index, NEW kind, NEW value,
         Read(kind, value)
  PROVE  /\ kind = "symbol" => pending = Bare /\ pending' = <<>>
         /\ kind = "extra" => /\ pending = OfExtra(k) /\ pending' = Bare
                              /\ value = LengthExtra(lengths[k])
         /\ kind = "length" => /\ pending = OfLength(k) /\ pending' = OfExtra(k)
                               /\ value = LengthSymbol(lengths[k])
         /\ kind = "type" => /\ pending = OfType(k) /\ pending' = OfLength(k)
                             /\ value = TypeSymbol(CalculatorAt(k), types[k])
<1>1. pending # <<>> /\ Head(pending) = Item(kind, value) /\ pending' = Tail(pending)
  BY DEF Read
<1>2. pending \in {Bare, OfExtra(k), OfLength(k), OfType(k)}
  BY <1>1, PendingForms
<1>3. CASE pending = Bare
  BY <1>1, <1>3, Items, ItemIs
<1>4. CASE pending = OfExtra(k)
  BY <1>1, <1>4, Items, ItemIs
<1>5. CASE pending = OfLength(k)
  BY <1>1, <1>5, Items, ItemIs
<1>6. CASE pending = OfType(k)
  BY <1>1, <1>6, Items, ItemIs
<1>7. QED
  BY <1>2, <1>3, <1>4, <1>5, <1>6

(* How far the decoder is tells what it has.                               *)
LEMMA BehindIs ==
  ASSUME SplitIInv, phase = "write", NEW k, k = cursor.index
  PROVE  /\ pending = OfType(k) => /\ numTypes > 1 /\ k > 1 /\ ~ block.pending /\ MemoryAt(k)
                                   /\ cursor.left + 1 = lengths[k] /\ block.left = 0
         /\ pending = OfLength(k) => /\ numTypes > 1 /\ block.pending /\ TypedAt(k)
                                     /\ block.symbol = NoSymbol
                                     /\ cursor.left + 1 = lengths[k] /\ block.left = 0
         /\ pending = OfExtra(k) => /\ numTypes > 1 /\ block.pending /\ TypedAt(k)
                                    /\ block.symbol = LengthSymbol(lengths[k])
                                    /\ block.symbol # NoSymbol
                                    /\ cursor.left + 1 = lengths[k] /\ block.left = 0
         /\ pending = Bare /\ numTypes > 1 => /\ ~ block.pending /\ TypedAt(k)
                                              /\ block.left = cursor.left + 1
<1>1. /\ Len(pending) > 1 => numTypes > 1
      /\ numTypes > 1 => Behind(k)
  BY PendingForms
<1>2. /\ Len(Bare) = 1 /\ Len(OfExtra(k)) = 2 /\ Len(OfLength(k)) = 3 /\ Len(OfType(k)) = 4
      /\ Len(<<>>) = 0
  BY Items
<1> DEFINE e == OfExtra(k)
           l == OfLength(k)
           t == OfType(k)
<1> HIDE DEF e, l, t
<1>2a. /\ Len(Bare) = 1 /\ Len(e) = 2 /\ Len(l) = 3 /\ Len(t) = 4
  BY <1>2 DEF e, l, t
<1>2b. /\ Bare # e /\ Bare # l /\ Bare # t /\ e # l /\ e # t /\ l # t
  BY <1>2a
<1>2c. /\ Bare # <<>> /\ e # <<>> /\ l # <<>> /\ t # <<>>
  BY <1>2a, <1>2
<1>2d. numTypes > 1 =>
         \/ pending = <<>> \/ (pending = Bare /\ ~ block.pending /\ TypedAt(k)
                             /\ block.left = cursor.left + 1)
         \/ /\ cursor.left + 1 = lengths[k] /\ block.left = 0
            /\ \/ /\ pending = e /\ block.pending /\ TypedAt(k)
                  /\ block.symbol = LengthSymbol(lengths[k]) /\ block.symbol # NoSymbol
               \/ pending = l /\ block.pending /\ TypedAt(k) /\ block.symbol = NoSymbol
               \/ pending = t /\ k > 1 /\ ~ block.pending /\ MemoryAt(k)
  BY <1>1 DEF Behind, e, l, t
<1>2e. pending \in {e, l, t} => numTypes > 1
  <2>1. pending = e => Len(pending) > 1
    BY <1>2a
  <2>2. pending = l => Len(pending) > 1
    BY <1>2a, SMTT(30)
  <2>3. pending = t => Len(pending) > 1
    BY <1>2a, SMTT(30)
  <2>4. QED
    BY <1>1, <2>1, <2>2, <2>3
<1>3. CASE pending = t
  BY <1>2b, <1>2c, <1>2d, <1>2e, <1>3 DEF e, l, t
<1>4. CASE pending = l
  BY <1>2b, <1>2c, <1>2d, <1>2e, <1>4 DEF e, l, t
<1>5. CASE pending = e
  BY <1>2b, <1>2c, <1>2d, <1>2e, <1>5 DEF e, l, t
<1>6. CASE pending = Bare
  BY <1>2b, <1>2c, <1>2d, <1>6 DEF e, l, t
<1>6a. CASE pending \notin {t, l, e, Bare}
  BY <1>6a DEF e, l, t
<1>7. QED
  BY <1>3, <1>4, <1>5, <1>6, <1>6a

LEMMA DecodeSwitches ==
  ASSUME SwitchIInv, Decode
  PROVE  SwitchIInv'
<1>1. CASE \E s \in TypeSymbols(block.types) : SwitchType(s)
  BY <1>1, SwitchTypeIInv
<1>2. CASE \E s \in DOMAIN LengthCodes : SwitchLength(s)
  BY <1>2, SwitchLengthIInv
<1>3. CASE \E extra \in Extras : SwitchExtra(extra)
  BY <1>3, SwitchExtraIInv
<1>4. CASE Symbol
  BY <1>4, SymbolIInv
<1>5. QED
  BY <1>1, <1>2, <1>3, <1>4 DEF Decode

(* The decoder's types are the encoder's: a type symbol resolves to the    *)
(* type that it was computed from, with the same memory.                   *)
LEMMA TypeResolved ==
  ASSUME SplitIInv, NEW k \in Nat, k > 1, k \in 1..Len(types), MemoryAt(k),
         numTypes > 1, block.types = numTypes
  PROVE  /\ ResolveType(TypeSymbol(CalculatorAt(k), types[k]), block.types, block.previous) = types[k]
         /\ block.previous[2] = types[k - 1]
<1>1. /\ types[k] \in Nat /\ types[k] < numTypes /\ types[k - 1] \in Nat /\ numTypes \in Nat
  <2>1. /\ types \in Seq(Nat) /\ numTypes \in 0..MaxTypes /\ MaxTypes \in Nat
        /\ \A b \in 1..Len(types) : types[b] < numTypes
    BY SplitAssumption DEF SplitIInv, SplitTypeOK, TypesFit
  <2>2. k - 1 \in 1..Len(types)
    BY <2>1
  <2>3. QED
    BY <2>1, <2>2
<1>2. /\ CalculatorAt(k).last = types[k - 1] /\ CalculatorAt(k).second \in Nat
  <2>1. CalculatorAt(k).last = types[k - 1]
        /\ CalculatorAt(k).second = IF k = 2 THEN 1 ELSE types[k - 2]
    BY DEF CalculatorAt
  <2>2. k # 2 => types[k - 2] \in Nat
    <3>1. k # 2 => k - 2 \in 1..Len(types)
      BY DEF SplitIInv, SplitTypeOK, TypesFit
    <3>2. QED
      BY <3>1, SMTT(30) DEF SplitIInv, SplitTypeOK, TypesFit
  <2>3. QED
    BY <2>1, <2>2
<1>3. block.previous[1] = CalculatorAt(k).second /\ block.previous[2] = types[k - 1]
  BY <1>2 DEF MemoryAt
<1> DEFINE t == types[k]
           last1 == types[k - 1]
           second == CalculatorAt(k).second
<1>4. TypeSymbol(CalculatorAt(k), t) = IF t = last1 + 1 THEN 1 ELSE IF t = second THEN 0 ELSE t + 2
  BY <1>2 DEF TypeSymbol
<1>5. \A symbol : ResolveType(symbol, block.types, block.previous)
                  = LET type == IF symbol = 0 THEN second
                                ELSE IF symbol = 1 THEN last1 + 1 ELSE symbol - 2
                    IN IF type >= numTypes THEN type - numTypes ELSE type
  BY <1>3 DEF ResolveType
<1> HIDE DEF t, last1, second
<1>6. CASE t = last1 + 1
  BY <1>1, <1>3, <1>4, <1>5, <1>6 DEF t
<1>7. CASE t # last1 + 1 /\ t = second
  BY <1>1, <1>3, <1>4, <1>5, <1>7 DEF t
<1>8. CASE t # last1 + 1 /\ t # second
  BY <1>1, <1>3, <1>4, <1>5, <1>8 DEF t
<1>9. QED
  BY <1>6, <1>7, <1>8

LEMMA DecodeReading ==
  ASSUME SplitIInv, Decode, phase = "write"
  PROVE  Reading'
<1>0. PICK k : k = cursor.index
  OBVIOUS
<1>1. /\ phase' = "write" /\ cursor' = cursor /\ types' = types /\ lengths' = lengths
      /\ numTypes' = numTypes
  BY DEF Decode, splitter
<1>2. /\ k \in 1..Len(types) /\ Len(types) \in Nat
  BY <1>0 DEF SplitIInv, Placed, CursorPlaced, SplitTypeOK, TypesFit
<1>3. /\ block.types = numTypes /\ numTypes \in Nat \ {0}
  BY <1>0, PendingForms
<1>4. /\ block.previous \in Nat \X Nat
      /\ block = [types |-> block.types, current |-> block.current, previous |-> block.previous,
                  left |-> block.left, pending |-> block.pending, symbol |-> block.symbol]
      /\ ~ block.pending => block.symbol = NoSymbol
      /\ block.pending \in BOOLEAN
      /\ block.left \in Nat
  BY DEF SplitIInv, SwitchIInv, SwitchTypeOK, SymbolsFollowSwitches
<1>5. /\ Bare' = Bare /\ OfExtra(k)' = OfExtra(k) /\ OfLength(k)' = OfLength(k)
      /\ OfType(k)' = OfType(k)
  BY <1>1 DEF Bare, OfExtra, OfLength, OfType, CalculatorAt
<1>6. ASSUME NEW s, Read("type", s), SwitchType(s)
      PROVE  Reading'
  <2>1. /\ pending = OfType(k) /\ pending' = OfLength(k)
        /\ s = TypeSymbol(CalculatorAt(k), types[k])
    BY <1>0, <1>6, ReadIs
  <2>2. /\ numTypes > 1 /\ k > 1 /\ ~ block.pending /\ MemoryAt(k)
        /\ cursor.left + 1 = lengths[k] /\ block.left = 0
    BY <1>0, <2>1, BehindIs
  <2>3. /\ ResolveType(s, block.types, block.previous) = types[k]
        /\ block.previous[2] = types[k - 1]
    BY <1>2, <1>3, <2>1, <2>2, TypeResolved
  <2>4. /\ block'.types = numTypes /\ block'.current = types[k] /\ block'.left = 0
        /\ block'.previous = <<types[k - 1], types[k]>> /\ block'.pending = TRUE
        /\ block'.symbol = NoSymbol
    BY <1>3, <1>4, <1>6, <2>2, <2>3 DEF SwitchType, ReadType
  <2>5. CalculatorAt(k + 1)' = [last |-> types[k], second |-> types[k - 1]]
    BY <1>1, <1>2, <2>2 DEF CalculatorAt
  <2>6. TypedAt(k)'
    BY <1>1, <2>4, <2>5 DEF TypedAt, MemoryAt
  <2>7. Behind(k)'
    BY <1>1, <1>5, <2>1, <2>2, <2>4, <2>6 DEF Behind
  <2>8. QED
    BY <1>0, <1>1, <2>2, <2>4, <2>7 DEF Reading
<1>7. ASSUME NEW s \in DOMAIN LengthCodes, Read("length", s), SwitchLength(s)
      PROVE  Reading'
  <2>1. pending = OfLength(k) /\ pending' = OfExtra(k) /\ s = LengthSymbol(lengths[k])
    BY <1>0, <1>7, ReadIs
  <2>2. /\ numTypes > 1 /\ block.pending /\ TypedAt(k)
        /\ cursor.left + 1 = lengths[k] /\ block.left = 0
    BY <1>0, <2>1, BehindIs
  <2>3. s # NoSymbol
    BY LengthAssumption DEF NoSymbol
  <2>4. /\ block'.types = numTypes /\ block'.current = block.current /\ block'.left = 0
        /\ block'.previous = block.previous /\ block'.pending /\ block'.symbol = s
    BY <1>3, <1>4, <1>7, <2>2 DEF SwitchLength, ReadSymbol
  <2>5. TypedAt(k)'
    BY <1>1, <2>2, <2>4 DEF TypedAt, MemoryAt, CalculatorAt
  <2>6. Behind(k)'
    BY <1>1, <1>5, <2>1, <2>2, <2>3, <2>4, <2>5 DEF Behind
  <2>7. QED
    BY <1>0, <1>1, <2>2, <2>4, <2>6 DEF Reading
<1>8. ASSUME NEW extra, Read("extra", extra), SwitchExtra(extra)
      PROVE  Reading'
  <2>1. pending = OfExtra(k) /\ pending' = Bare /\ extra = LengthExtra(lengths[k])
    BY <1>0, <1>8, ReadIs
  <2>2. /\ numTypes > 1 /\ block.pending /\ TypedAt(k)
        /\ block.symbol = LengthSymbol(lengths[k])
        /\ cursor.left + 1 = lengths[k] /\ block.left = 0
    BY <1>0, <2>1, BehindIs
  <2>3. LengthCodes[block.symbol].offset + extra = cursor.left + 1
    <3>1. k \in 1..Len(lengths)
      BY <1>2 DEF SplitIInv, SplitTypeOK, TypesFit
    <3>2. QED
      BY <2>1, <2>2, <3>1, LengthsCoded
  <2>4. /\ block'.types = numTypes /\ block'.current = block.current
        /\ block'.left = cursor.left + 1
        /\ block'.previous = block.previous /\ block'.pending = FALSE
    BY <1>3, <1>4, <1>8, <2>3 DEF SwitchExtra, ReadExtra
  <2>5. TypedAt(k)'
    BY <1>1, <2>2, <2>4 DEF TypedAt, MemoryAt, CalculatorAt
  <2>6. Behind(k)'
    BY <1>1, <1>5, <2>1, <2>4, <2>5 DEF Behind
  <2>7. QED
    BY <1>0, <1>1, <2>2, <2>4, <2>6 DEF Reading
<1>9. ASSUME Read("symbol", 0), Symbol
      PROVE  Reading'
  <2>1. pending = Bare /\ pending' = <<>>
    BY <1>0, <1>9, ReadIs
  <2>2. block' = IF block.types = 1 THEN block ELSE [block EXCEPT !.left = block.left - 1]
    BY <1>9 DEF Symbol, Consume
  <2>3. CASE numTypes = 1
    BY <1>1, <1>3, <2>1, <2>2, <2>3 DEF Reading
  <2>4. CASE numTypes > 1
    <3>1. ~ block.pending /\ TypedAt(k) /\ block.left = cursor.left + 1
      BY <1>0, <2>1, <2>4, BehindIs
    <3>2. cursor.left \in Nat
      BY <1>0, <2>4 DEF SplitIInv, Placed, CursorPlaced
    <3>3. /\ block'.types = numTypes /\ block'.current = block.current
          /\ block'.left = cursor.left
          /\ block'.previous = block.previous /\ block'.pending = block.pending
      BY <1>3, <1>4, <2>2, <2>4, <3>1, <3>2
    <3>4. TypedAt(k)'
      BY <1>1, <3>1, <3>3 DEF TypedAt, MemoryAt, CalculatorAt
    <3>5. Behind(k)'
      BY <1>1, <2>1, <3>1, <3>3, <3>4 DEF Behind
    <3>6. QED
      BY <1>0, <1>1, <2>4, <3>3, <3>5 DEF Reading
  <2>5. QED
    BY <1>3, <2>3, <2>4
<1>10. QED
  BY <1>6, <1>7, <1>8, <1>9 DEF Decode

LEMMA DecodeIInv ==
  ASSUME SplitIInv, Decode
  PROVE  SplitIInv'
<1>1. /\ UNCHANGED <<total, added, splitter, phase, cursor, written>>
      /\ total' = total /\ added' = added /\ phase' = phase /\ cursor' = cursor
      /\ written' = written /\ types' = types /\ lengths' = lengths /\ numTypes' = numTypes
      /\ histograms' = histograms /\ last' = last /\ size' = size /\ target' = target
      /\ current' = current
  BY DEF Decode, splitter
<1>2. PICK ends : Placed(ends)
  BY DEF SplitIInv
<1>3. SwitchIInv'
  BY DecodeSwitches DEF SplitIInv
<1>4. SplitTypeOK' /\ LastTwo'
  BY <1>1 DEF SplitIInv, SplitTypeOK, TypesFit, Histograms, LastTwo, SecondType, Capacity
<1>5. phase # "write" => pending' = <<>>
  <2>1. phase # "write" => pending = <<>>
    BY <1>2 DEF Placed, CursorPlaced
  <2>2. ASSUME NEW kind, NEW value, Read(kind, value), phase # "write"
        PROVE  pending' = <<>>
    BY <2>1, <2>2 DEF Read
  <2>3. \E kind, value : Read(kind, value)
    BY DEF Decode
  <2>4. QED
    BY <2>2, <2>3
<1>6. Reading'
  <2>1. CASE phase = "write"
    BY <2>1, DecodeReading
  <2>2. CASE phase # "write"
    BY <1>1, <2>2 DEF Reading
  <2>3. QED
    BY <2>1, <2>2
<1>7. CalculatorAt(cursor.index + 1)' = CalculatorAt(cursor.index + 1)
  BY <1>1 DEF CalculatorAt
<1>8. CursorPlaced(ends)'
  BY <1>1, <1>2, <1>5, <1>7 DEF Placed, CursorPlaced
<1>9. Placed(ends)'
  BY <1>1, <1>2, <1>8 DEF Placed, Splitting, Split
<1>10. QED
  BY <1>3, <1>4, <1>6, <1>9 DEF SplitIInv

(* The inductive invariant: there are ends of blocks for which every symbol *)
(* passed is counted, and the cursor and the decoder have their places.    *)
THEOREM SplitInvariance == Spec => []SplitIInv
<1>1. SplitIInv /\ [Next]_vars => SplitIInv'
  <2> SUFFICES ASSUME SplitIInv, [Next]_vars PROVE SplitIInv'
    OBVIOUS
  <2>1. CASE Next
    BY <2>1, AddSymbolIInv, FinishIInv, WriteHeaderIInv, WriteSymbolIInv, DecodeIInv DEF Next
  <2>2. CASE UNCHANGED vars
    <3>1. /\ UNCHANGED <<total, added, splitter, phase>> /\ UNCHANGED writing
          /\ UNCHANGED switchVars
      BY <2>2 DEF vars
    <3>2. /\ total' = total /\ added' = added /\ phase' = phase /\ cursor' = cursor
          /\ written' = written /\ types' = types /\ lengths' = lengths
          /\ numTypes' = numTypes /\ histograms' = histograms /\ last' = last
          /\ size' = size /\ target' = target /\ current' = current
          /\ pending' = pending /\ block' = block
      BY <3>1 DEF splitter, writing, switchVars
    <3>3. SplitTypeOK' /\ LastTwo'
      BY <3>2 DEF SplitIInv, SplitTypeOK, TypesFit, Histograms, LastTwo, SecondType, Capacity
    <3>4. SwitchIInv'
      BY <3>1, SwitchSame DEF SplitIInv
    <3>5. Reading'
      BY <3>2 DEF SplitIInv, Reading, Behind, TypedAt, MemoryAt, CalculatorAt, Bare, OfExtra,
                  OfLength, OfType
    <3>6. PICK ends : Placed(ends)
      BY DEF SplitIInv
    <3>7. Placed(ends)'
      BY <3>2, <3>6 DEF Placed, Splitting, Split, CursorPlaced, CalculatorAt
    <3>8. QED
      BY <3>3, <3>4, <3>5, <3>7 DEF SplitIInv
  <2>3. QED
    BY <2>1, <2>2
<1>2. QED
  BY InitSplitIInv, <1>1, PTL DEF Spec

-----------------------------------------------------------------------------
(* What it says.                                                           *)

LEMMA LatestIs ==
  ASSUME SplitIInv
  PROVE  RecentAreLatest
<1>1. PICK ends : Placed(ends)
  BY DEF SplitIInv
<1>2. phase = "split" => current \in DOMAIN histograms /\ current = numTypes
  <2>1. phase = "split" => current = numTypes /\ current \in 0..(Capacity(total) - 1)
    BY <1>1, SplitFacts
  <2>2. DOMAIN histograms = 0..(Capacity(total) - 1)
    BY DEF SplitIInv, SplitTypeOK, TypesFit, Histograms
  <2>3. QED
    BY <2>1, <2>2
<1>3. ASSUME types # <<>>
      PROVE  /\ last[1].histogram = types[Len(types)]
             /\ Len(types) > 1 => last[2].histogram = types[Len(types) - 1]
             /\ Len(types) = 1 => last[1] = last[2]
             /\ \A i \in 1..2 : last[i].counts = histograms[last[i].histogram]
  <2>1. /\ last[1] = Recent(types[Len(types)], histograms[types[Len(types)]])
        /\ last[2] = Recent(types[SecondType], histograms[types[SecondType]])
    BY <1>3 DEF SplitIInv, LastTwo
  <2>2. \A i \in 1..2 : i = 1 \/ i = 2
    OBVIOUS
  <2>3. /\ last[1].histogram = types[Len(types)]
        /\ last[1].counts = histograms[types[Len(types)]]
        /\ last[2].histogram = types[SecondType]
        /\ last[2].counts = histograms[types[SecondType]]
    BY <2>1 DEF Recent
  <2>4. /\ Len(types) = 1 => SecondType = 1
        /\ Len(types) > 1 => SecondType = Len(types) - 1
    <3>1. Len(types) \in Nat
      BY DEF SplitIInv, SplitTypeOK, TypesFit
    <3>2. QED
      BY <3>1 DEF SecondType
  <2>5. Len(types) = 1 => last[1] = last[2]
    BY <2>1, <2>4
  <2>6. QED
    BY <2>2, <2>3, <2>4, <2>5
<1>4. QED
  BY <1>2, <1>3 DEF RecentAreLatest

(* The symbol that is written is in the block of the cursor.               *)
LEMMA WrittenCounted ==
  ASSUME SplitIInv, phase = "write", written > 0
  PROVE  histograms[Tree][added[written]] > 0
<1>1. PICK ends : Placed(ends)
  BY DEF SplitIInv
<1>2. PICK k : k = cursor.index
  OBVIOUS
<1>3. /\ Len(types) \in Nat \ {0} /\ k \in 1..Len(types) /\ numTypes \in Nat \ {0}
      /\ (numTypes = 1 <=> Len(types) = 1)
      /\ total \in Nat /\ written \in 0..total /\ total <= ends[Len(types)]
      /\ ends \in [0..Len(types) -> Nat] /\ ends[k - 1] < written
      /\ numTypes > 1 => cursor.left \in Nat /\ cursor.left = ends[k] - written
  BY <1>1, <1>2, WriteFacts
<1>4. ends[k] \in Nat /\ ends[k - 1] \in Nat
  <2>1. k \in 0..Len(types) /\ k - 1 \in 0..Len(types)
    BY <1>3
  <2>2. QED
    BY <1>3, <2>1
<1>5. written <= ends[k]
  <2>1. CASE numTypes = 1
    <3>1. Len(types) = 1 /\ k \in 1..Len(types)
      BY <1>3, <2>1
    <3>2. k = Len(types)
      BY <3>1
    <3>3. QED
      BY <1>3, <1>4, <3>2
  <2>2. CASE numTypes > 1
    BY <1>3, <1>4, <2>2
  <2>3. QED
    BY <1>3, <2>1, <2>2
<1>6. written \in (ends[k - 1] + 1)..ends[k]
  BY <1>3, <1>4, <1>5
<1>7. written <= Len(added)
  BY <1>1, <1>3 DEF Placed, Split
<1>8. Counts(ends, types, histograms, added)
  BY <1>1 DEF Placed
<1>9. histograms[types[k]][added[written]] > 0
  BY <1>3, <1>6, <1>7, <1>8 DEF Counts
<1>10. QED
  BY <1>2, <1>9 DEF Tree

(* What comes next is what the decoder looks for, and has a code.          *)
LEMMA ItemsDue ==
  ASSUME SplitIInv, pending # <<>>
  PROVE  /\ Head(pending).kind = Due
         /\ Head(pending).kind = "type" => Head(pending).value \in TypeCode
         /\ Head(pending).kind = "length" => Head(pending).value \in LengthCode
         /\ Due = "symbol" => block.current = Tree
<1>1. PICK ends : Placed(ends)
  BY DEF SplitIInv
<1>2. PICK k : k = cursor.index
  OBVIOUS
<1>3. phase = "write"
  BY <1>1 DEF Placed, CursorPlaced
<1>4. /\ Len(types) \in Nat \ {0} /\ Len(lengths) = Len(types) /\ k \in 1..Len(types)
      /\ (numTypes = 1 <=> Len(types) = 1)
  BY <1>1, <1>2, <1>3, WriteFacts
<1>5. /\ pending \in {Bare, OfExtra(k), OfLength(k), OfType(k)}
      /\ block.types = numTypes /\ numTypes \in Nat \ {0}
  BY <1>2, <1>3, PendingForms
<1>6. \A kind, value : Item(kind, value).kind = kind /\ Item(kind, value).value = value
  BY DEF Item
<1> USE DEF Due, TypeDue, SymbolDue, ExtraDue, SwitchDue
<1>7. CASE pending = OfType(k)
  <2>1. /\ numTypes > 1 /\ k > 1 /\ ~ block.pending /\ block.left = 0
    BY <1>2, <1>3, <1>7, BehindIs
  <2>2. Head(pending).kind = "type"
        /\ Head(pending).value = TypeSymbol(CalculatorAt(k), types[k])
    BY <1>6, <1>7, Items
  <2>3. k \in 2..Len(types)
    BY <1>4, <2>1
  <2>4. TypeSymbol(CalculatorAt(k), types[k]) \in TypeCode
    BY <2>3 DEF TypeCode
  <2>5. Due = "type"
    BY <1>5, <2>1
  <2>6. QED
    BY <2>2, <2>4, <2>5
<1>8. CASE pending = OfLength(k)
  <2>1. numTypes > 1 /\ block.pending /\ block.symbol = NoSymbol /\ block.left = 0
    BY <1>2, <1>3, <1>8, BehindIs
  <2>2. Head(pending).kind = "length" /\ Head(pending).value = LengthSymbol(lengths[k])
    BY <1>6, <1>8, Items
  <2>3. LengthSymbol(lengths[k]) \in LengthCode
    BY <1>4 DEF LengthCode
  <2>4. Due = "length"
    BY <1>5, <2>1
  <2>5. QED
    BY <2>2, <2>3, <2>4
<1>9. CASE pending = OfExtra(k)
  <2>1. numTypes > 1 /\ block.pending /\ block.symbol # NoSymbol /\ block.left = 0
    BY <1>2, <1>3, <1>9, BehindIs
  <2>2. Head(pending).kind = "extra"
    BY <1>6, <1>9, Items
  <2>3. Due = "extra"
    BY <1>5, <2>1
  <2>4. QED
    BY <2>2, <2>3
<1>10. CASE pending = Bare
  <2>1. Head(pending).kind = "symbol"
    BY <1>6, <1>10, Items
  <2>2. CASE numTypes = 1
    <3>1. Due = "symbol"
      BY <1>5, <2>2
    <3>2. block.current = 0
      BY <1>5, <2>2 DEF SplitIInv, SwitchIInv, SwitchTypeOK
    <3>3. k = 1 /\ types # <<>> /\ types[1] = 0
      BY <1>4, <2>2 DEF SplitIInv, SplitTypeOK, TypesFit
    <3>4. QED
      BY <1>2, <2>1, <3>1, <3>2, <3>3 DEF Tree
  <2>3. CASE numTypes > 1
    <3>1. ~ block.pending /\ TypedAt(k) /\ block.left = cursor.left + 1
      BY <1>2, <1>3, <1>10, <2>3, BehindIs
    <3>2. cursor.left \in Nat
      BY <1>1, <1>3, <2>3, WriteFacts
    <3>3. block.left # 0
      BY <3>1, <3>2
    <3>4. Due = "symbol"
      BY <3>1, <3>3
    <3>5. QED
      BY <1>2, <2>1, <3>1, <3>4 DEF TypedAt, Tree
  <2>4. QED
    BY <1>5, <2>2, <2>3
<1>11. QED
  BY <1>5, <1>7, <1>8, <1>9, <1>10

(* Whatever the splitter decides of its blocks, every symbol that is written *)
(* was counted for the tree it is written under, every switch command has a *)
(* code, and the decoder's BlockState, from the commands alone, looks for    *)
(* each where it comes and reads each symbol under the encoder's tree.      *)
THEOREM SymbolsWritten == Spec => []SymbolsHaveCodes
<1>1. SplitIInv => SymbolsHaveCodes
  <2> SUFFICES ASSUME SplitIInv PROVE SymbolsHaveCodes
    OBVIOUS
  <2>1. RecentAreLatest
    BY LatestIs
  <2>2. phase = "write" /\ SwitchWritten /\ written < total => cursor.index < Len(types)
    <3>1. PICK ends : Placed(ends)
      BY DEF SplitIInv
    <3>2. QED
      BY <3>1, BlockLeft
  <2>3. phase = "write" /\ written > 0 => histograms[Tree][added[written]] > 0
    BY WrittenCounted
  <2>4. pending # <<>> =>
          /\ Head(pending).kind = Due
          /\ Head(pending).kind = "type" => Head(pending).value \in TypeCode
          /\ Head(pending).kind = "length" => Head(pending).value \in LengthCode
          /\ Due = "symbol" => block.current = Tree
    BY ItemsDue
  <2>5. QED
    BY <2>1, <2>2, <2>3, <2>4 DEF SymbolsHaveCodes
<1>2. QED
  BY <1>1, SplitInvariance, PTL

(* Of the splitter's switches too, as of any: a block's symbols are decoded *)
(* under its type and are as many as its length says (BlockState::consume), *)
(* and a type code means what the format says (resolve_type).              *)
THEOREM SwitchesWritten == Spec => [](SymbolsFollowSwitches /\ TypesMeanCodes)
<1>1. SplitIInv => SymbolsFollowSwitches /\ TypesMeanCodes
  BY DEF SplitIInv, SwitchIInv
<1>2. QED
  BY <1>1, SplitInvariance, PTL
=============================================================================
