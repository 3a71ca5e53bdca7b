----------------------------- MODULE MatchFinder -----------------------------
(***************************************************************************)
(* The greedy match finder (encode/match_finder.rs): parse_chunk over the   *)
(* chunks of a stream, with the bucket hasher it scans and feeds, and the   *)
(* renumbering of compact().  Positions are relative to the window, as in   *)
(* the code; base is what compaction has dropped.  Bytes are not modelled:  *)
(* the hash key of a position, what a scan finds to match and the score     *)
(* that prefers the next position are choices.                              *)
(***************************************************************************)
EXTENDS Naturals, Sequences

CONSTANTS
  Keys,           \* hash keys (the code: 2^15)
  BlockSize,      \* slots of a bucket (16)
  CountWrap,      \* the count of a bucket is kept modulo this (2^16)
  SearchDepth,    \* slots a scan looks at, at most
  HashLength,     \* bytes hashed, and looked ahead of a store (4)
  MaxBackward,    \* largest distance of a copy
  MaxLazy,        \* positions a match may be put off
  Window,         \* literals after which positions are skipped (64)
  Strides,        \* <<near, far>>: how far a skip goes at a time (<<2, 4>>)
  Skips,          \* skips in a row (4)
  Sparse,         \* a copy this many distances long is not stored whole (4)
  Recents,        \* the distances the ring of recent ones offers
  Unset,          \* the content of a slot that was never written
  NoPosition,     \* NO_POSITION
  Lengths,        \* bound: lengths of copies
  MaxChunk,       \* bound: length of a chunk
  MaxInput        \* bound: length of the stream

ASSUME FinderAssumption ==
  /\ BlockSize \in Nat \ {0} /\ CountWrap % BlockSize = 0 /\ CountWrap \in Nat \ {0}
  /\ HashLength \in Nat \ {0} /\ MaxBackward \in Nat \ {0}
  /\ SearchDepth \in Nat /\ MaxLazy \in Nat /\ Window \in Nat /\ Skips \in Nat
  /\ Strides \in Seq(Nat \ {0}) /\ Len(Strides) = 2
  /\ Sparse \in Nat \ {0} /\ Recents \subseteq Nat \ {0}
  /\ Lengths \subseteq Nat \ {0, 1}
  /\ NoPosition \notin Nat      \* no position is u32::MAX, by parse_chunk's assert

VARIABLES
  counts, slots,              \* the hasher's counts and buckets
  end,                        \* the length of the input: the chunk's end
  position, insertStart, insertLength, heuristics,   \* locals of parse_chunk
  match, delays,              \* the match at hand, how often it was put off
  range,                      \* the stores still to do: first, stop, stride
  pc,
  base,                       \* the number of bytes compaction has dropped
  stored,                     \* history: for each key, the positions stored,
                              \* counted from the start of the stream
  decoded                     \* history: where a decoder of the commands is

hasher == <<counts, slots, stored>>
parse  == <<position, insertStart, insertLength, heuristics>>
finderVars == <<hasher, end, parse, match, delays, range, pc, base, decoded>>

Least(a, b) == IF a < b THEN a ELSE b
Most(a, b)  == IF a > b THEN a ELSE b
Minus(a, b) == IF a > b THEN a - b ELSE 0     \* saturating_sub

NoMatch == [length |-> 0, distance |-> 0]
NoRange == [first |-> 0, stop |-> 0, stride |-> 1]

-----------------------------------------------------------------------------
(* The hasher. *)

Store(key, p) ==
  /\ slots' = [slots EXCEPT ![key][counts[key] % BlockSize] = p]
  /\ counts' = [counts EXCEPT ![key] = (@ + 1) % CountWrap]
  /\ stored' = [stored EXCEPT ![key] = Append(@, base + p)]

\* The slots a scan of a bucket reads, by index, newest last.
Scanned(key) == Minus(counts[key], Least(SearchDepth, BlockSize))..(counts[key] - 1)
Slot(key, index) == slots[key][index % BlockSize]

\* How far back a copy from p may reach.
Reach(p) == Least(p, MaxBackward)

\* The distances a scan from p accepts: it stops at the first out of reach.
Candidates(key, p) ==
  {p - Slot(key, i) : i \in {i \in Scanned(key) :
      /\ Slot(key, i) # NoPosition
      /\ \A j \in i..(counts[key] - 1) :
           Slot(key, j) # NoPosition => p - Slot(key, j) <= Reach(p)}}

\* What a search from p may come back with: a recent distance, a position of
\* the bucket, or a word of the dictionary, whose addresses begin past the reach.
Found(key, p) ==
  {m \in [length : Lengths,
          distance : {d \in Recents : d <= Reach(p)} \cup Candidates(key, p) \cup {Reach(p) + 1}] :
     /\ m.length <= end - p
     /\ m.distance \notin Recents => m.length >= HashLength}

RemapStale(key, dropped) ==   \* mutant: takes the ring's next slot for its fill
  [s \in 0..(BlockSize - 1) |->
     IF s >= counts[key] % BlockSize THEN slots[key][s]
     ELSE IF slots[key][s] = NoPosition \/ slots[key][s] < dropped THEN NoPosition
     ELSE slots[key][s] - dropped]

\* remap_positions on the bucket of a key: only slots that were written.
Remap(key, dropped) ==
  [s \in 0..(BlockSize - 1) |->
     IF s >= Least(counts[key], BlockSize) THEN slots[key][s]
     ELSE IF slots[key][s] = NoPosition \/ slots[key][s] < dropped THEN NoPosition
     ELSE slots[key][s] - dropped]

-----------------------------------------------------------------------------
(* The stream: a chunk is parsed, then history may be dropped. *)

FinderInit ==
  /\ counts = [k \in Keys |-> 0]
  /\ slots = [k \in Keys |-> [s \in 0..(BlockSize - 1) |-> Unset]]
  /\ stored = [k \in Keys |-> <<>>]
  /\ end = 0 /\ position = 0 /\ insertStart = 0 /\ insertLength = 0
  /\ heuristics = Window
  /\ match = NoMatch /\ delays = 0 /\ range = NoRange
  /\ pc = "idle" /\ base = 0 /\ decoded = 0

\* parse_chunk on n more bytes. An input too short to hash is one literal run.
ParseChunk(n) ==
  /\ pc = "idle" /\ base + end + n <= MaxInput
  /\ end' = end + n
  /\ position' = end /\ insertStart' = end /\ insertLength' = 0
  /\ pc' = IF end + n <= HashLength THEN "idle" ELSE "search"
  /\ decoded' = IF end + n <= HashLength THEN decoded + n ELSE decoded
  /\ UNCHANGED <<hasher, heuristics, match, delays, range, base>>

DroppedOneMore == end - MaxBackward + 1   \* mutant
Dropped == end - MaxBackward

\* StreamEncoder::compact between two chunks (the one-shot path never does).
Compact ==
  /\ pc = "idle" /\ end > MaxBackward
  /\ slots' = [k \in Keys |-> Remap(k, Dropped)]
  /\ end' = end - Dropped /\ base' = base + Dropped
  /\ heuristics' = Minus(heuristics, Dropped)
  /\ UNCHANGED <<counts, stored, position, insertStart, insertLength, match, delays,
                 range, pc, decoded>>

-----------------------------------------------------------------------------
(* The parse: search, put off, take, store, skip. *)

Searchable(p) == p + HashLength < end

\* No match: a literal, and after a long run of them positions are skipped.
Literal(key) ==
  LET p == position + 1
      stride == IF p > heuristics + 4 * Window THEN Strides[2] ELSE Strides[1]
      margin == Most(HashLength - 1, stride)
  IN /\ pc = "search" /\ Searchable(position)
     /\ Store(key, position)
     /\ position' = p /\ insertLength' = insertLength + 1
     /\ IF p > heuristics
          THEN /\ pc' = "skip"
               /\ range' = [first |-> p, stride |-> stride,
                            stop |-> Least(p + Skips * stride, Minus(end, margin))]
          ELSE pc' = "search" /\ UNCHANGED range
     /\ UNCHANGED <<end, insertStart, heuristics, match, delays, base, decoded>>

Match(key) ==
  /\ pc = "search" /\ Searchable(position)
  /\ match' \in Found(key, position)
  /\ Store(key, position)
  /\ delays' = 0 /\ pc' = "lazy"
  /\ UNCHANGED <<end, parse, range, base, decoded>>

\* A lazy match: the next position has a better one, which then is the match.
Better(key) ==
  /\ pc = "lazy" /\ delays < MaxLazy
  /\ match' \in Found(key, position + 1)
  /\ Store(key, position + 1)
  /\ position' = position + 1 /\ insertLength' = insertLength + 1
  /\ delays' = delays + 1
  /\ pc' = IF Searchable(position + 1) THEN "lazy" ELSE "take"
  /\ UNCHANGED <<end, insertStart, heuristics, range, base, decoded>>

NotBetter(key) ==
  /\ pc = "lazy" /\ delays < MaxLazy
  /\ Store(key, position + 1)
  /\ pc' = "take"
  /\ UNCHANGED <<end, parse, match, delays, range, base, decoded>>

StoreEndLate == end   \* mutant: the bytes hashed at the last positions are forgotten
StoreEnd == end - HashLength + 1

\* The positions of the copy that are stored: not all of them when it repeats
\* a short distance many times.
CopyRange ==
  LET stop  == Least(position + match.length, StoreEnd)
      first == IF match.distance < match.length \div Sparse
                 THEN Least(Most(position + 2,
                                 position + match.length - match.distance * Sparse), stop)
                 ELSE position + 2
  IN [first |-> first, stop |-> stop, stride |-> 1]

\* The command is emitted.
Take ==
  /\ pc = "take" \/ (pc = "lazy" /\ delays = MaxLazy)
  /\ heuristics' = position + 2 * match.length + Window
  /\ decoded' = decoded + insertLength + match.length
  /\ range' = CopyRange
  /\ position' = position + match.length
  /\ insertStart' = position' /\ insertLength' = 0
  /\ pc' = "store"
  /\ match' = NoMatch /\ delays' = 0
  /\ UNCHANGED <<hasher, end, base>>

\* One position of store_range, or of a run of skips.
StoreNext(key) ==
  /\ pc \in {"store", "skip"} /\ range.first < range.stop
  /\ Store(key, range.first)
  /\ range' = [range EXCEPT !.first = @ + range.stride]
  /\ IF pc = "skip" THEN /\ position' = position + range.stride
                         /\ insertLength' = insertLength + range.stride
                    ELSE UNCHANGED <<position, insertLength>>
  /\ UNCHANGED <<end, insertStart, heuristics, match, delays, pc, base, decoded>>

Stored ==
  /\ pc \in {"store", "skip"} /\ range.first >= range.stop
  /\ pc' = "search" /\ range' = NoRange
  /\ UNCHANGED <<hasher, end, parse, match, delays, base, decoded>>

\* The literals at the end of the chunk go out with it (tail_start).
EndChunk ==
  /\ pc = "search" /\ ~ Searchable(position)
  /\ decoded' = decoded + (end - insertStart)
  /\ pc' = "idle"
  /\ UNCHANGED <<hasher, end, parse, match, delays, range, base>>

FinderNext ==
  \/ \E n \in 1..MaxChunk : ParseChunk(n)
  \/ Compact \/ Take \/ Stored \/ EndChunk
  \/ \E key \in Keys :
       Literal(key) \/ Match(key) \/ Better(key) \/ NotBetter(key) \/ StoreNext(key)

FinderSpec == FinderInit /\ [][FinderNext]_finderVars

-----------------------------------------------------------------------------
(* Correctness. *)

TypeOK ==
  /\ counts \in [Keys -> 0..(CountWrap - 1)]
  /\ slots \in [Keys -> [0..(BlockSize - 1) -> Nat \cup {Unset, NoPosition}]]
  /\ stored \in [Keys -> Seq(Nat)]
  /\ end \in Nat /\ position \in Nat /\ insertStart \in Nat /\ insertLength \in Nat
  /\ heuristics \in Nat /\ delays \in Nat /\ base \in Nat /\ decoded \in Nat
  /\ match \in [length : Nat, distance : Nat]
  /\ range \in [first : Nat, stop : Nat, stride : Nat \ {0}]
  /\ pc \in {"idle", "search", "lazy", "take", "store", "skip"}

\* The position the next search starts from.
Start == IF pc = "lazy" THEN position + 1 ELSE position

\* A slot within the count holds the position that was stored there last,
\* renumbered by every compaction since, or the mark that it was dropped.
Renumbered(p) == IF p < base THEN NoPosition ELSE p - base
SlotsHold(key) ==
  \A j \in 1..Least(counts[key], BlockSize) :
    Slot(key, counts[key] - j) = Renumbered(stored[key][Len(stored[key]) - j + 1])

Ascending(key) ==
  \A i, j \in 1..Len(stored[key]) : i < j => stored[key][i] < stored[key][j]

StoredBefore(key, p) ==
  stored[key] # <<>> => stored[key][Len(stored[key])] < base + p

\* A slot that a scan may read was written (the unsafe assume_init), is true,
\* and lies before the position searched from (the debug_assert): also after
\* the count has wrapped, when only the slots written since are renumbered
\* (store, bucket_position, remap_positions).
SlotsAreTrue ==
  \A key \in Keys :
    /\ SlotsHold(key) /\ Ascending(key)
    /\ pc \in {"search", "lazy"} => StoredBefore(key, Start)

\* Every position hashed has all its bytes before the end of the chunk (the
\* unsafe unaligned read), whether searched, put off, stored or skipped to.
HashesFit ==
  /\ pc = "lazy" => position + 1 + HashLength <= end
  /\ pc \in {"store", "skip"} =>
       \A p \in range.first..(range.stop - 1) : p + HashLength <= end

\* What the two unsafe reads of the finder rely on: the slot was written, the
\* bytes are there (bucket_position, hash4).
UnsafeReadsHold == SlotsAreTrue /\ HashesFit

\* A decoder of the commands is always where the parse is, and finds the same
\* reach there although the window was renumbered: so a distance is a copy to
\* both or an address of the dictionary to both, and the chunk's commands and
\* its tail make up the chunk (parse_chunk, compact).
CommandsDecode ==
  /\ pc \in {"search", "lazy", "take", "skip"} =>
       /\ decoded + insertLength = base + position
       /\ position <= end
       /\ Reach(position) = Least(decoded + insertLength, MaxBackward)
  /\ pc = "idle" => decoded = base + end

-----------------------------------------------------------------------------
(* What the parse remembers from one step to the next: with it the above is  *)
(* inductive.                                                                *)

\* There are no more slots to read than stores made, counts wrapped or not.
CountsFollow == \A key \in Keys : counts[key] <= Len(stored[key])

\* The parse is within the chunk, the literals pending lie between the last
\* command and the position, and what compaction keeps is all of the reach.
InChunk ==
  /\ base > 0 => MaxBackward <= (IF pc = "idle" THEN end ELSE position)
  /\ pc # "idle" => /\ decoded = base + insertStart
                    /\ insertStart + insertLength = position
                    /\ position <= end /\ HashLength < end
  /\ pc = "lazy" => Searchable(position)
  /\ pc \in {"lazy", "take"} => match.length >= 2 /\ position + match.length <= end

\* A run of stores: each has its bytes, and those of a copy lie within it,
\* while skips move the position along.
RangeFits ==
  pc \in {"store", "skip"} /\ range.first < range.stop =>
    /\ range.stop + HashLength <= end + 1
    /\ pc = "store" => range.stop <= position
    /\ pc = "skip" => range.first = position /\ range.stop + range.stride <= end

\* The first position that may be stored next: stores never go back.
Frontier ==
  IF pc = "idle" THEN end
  ELSE IF pc = "lazy" THEN position + 1
  ELSE IF pc = "take" THEN position + 2
  ELSE IF pc = "store" /\ range.first < range.stop THEN range.first ELSE position

Onwards == \A key \in Keys : StoredBefore(key, Frontier)

\* The inductive invariant.
IInv ==
  /\ TypeOK /\ UnsafeReadsHold /\ CommandsDecode
  /\ CountsFollow /\ InChunk /\ RangeFits /\ Onwards
=============================================================================
