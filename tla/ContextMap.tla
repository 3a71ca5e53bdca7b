----------------------------- MODULE ContextMap -----------------------------
(***************************************************************************)
(* Context maps on both sides.  First what the encoder writes               *)
(* (write_context_map and write_trivial_context_map of                      *)
(* encode/greedy/block_split.rs): the trees move to the front, runs of      *)
(* zeros become a symbol for the length of their count and its other bits.  *)
(* Symbols are values, not bits.  Then the decoder (decode/context_map.rs), *)
(* on the symbols an encoder wrote or on any others.  A read may find no    *)
(* input and be tried again by the next call: nothing changes then, so the  *)
(* step is not here.  The header makes a decoder when it comes to a map and *)
(* drops it when it has the map (CompressedHeader).                         *)
(***************************************************************************)
EXTENDS Naturals, Sequences, SequencesExt

CONSTANTS
  MaxRunPrefix,  \* MAX_CONTEXT_MAP_RUN_LENGTH_PREFIX (the code: 6)
  RleBits,       \* bits of the largest length symbol, less one (the code: 4)
  Unknown        \* the source of symbols that no encoder wrote

ASSUME MapAssumption == RleBits \in 0..4 /\ MaxRunPrefix \in 0..(2 ^ RleBits)

VARIABLES decoder,   \* ContextMapDecoder, or NoDecoder
          symbols    \* what it reads: the map written, its symbols, the next

mapVars == <<decoder, symbols>>

-----------------------------------------------------------------------------
(* The encoder. *)

Symbol(value, extra) == [symbol |-> value, extra |-> extra]

\* u32::ilog2
Log2(n) == CHOOSE k \in 0..31 : 2 ^ k <= n /\ n < 2 ^ (k + 1)

\* A list with its i-th element moved to the front.
ToFront(list, i) == <<list[i]>> \o RemoveAt(list, i)

\* move_to_front_transform, over the trees up to the largest: the list after
\* each of the values.
TreesTo(largest) == [i \in 1..(largest + 1) |-> i - 1]
IndexIn(list, tree) == CHOOSE i \in DOMAIN list : list[i] = tree
MoveToFront(map) ==
  LET list[n \in 0..Len(map)] ==
        IF n = 0 THEN TreesTo(Max(ToSet(map)))
        ELSE LET last == list[n - 1] IN ToFront(last, IndexIn(last, map[n]))
  IN [n \in 1..Len(map) |-> IndexIn(list[n - 1], map[n]) - 1]

\* The longest run of zeros, and the largest length symbol it is worth.
LongestRun(s) ==
  Max({0} \cup {n \in 1..Len(s) : \E i \in 0..(Len(s) - n) : \A j \in 1..n : s[i + j] = 0})
RunPrefix(s) ==
  IF LongestRun(s) = 0 THEN 0
  ELSE LET k == Log2(LongestRun(s)) IN IF k < MaxRunPrefix THEN k ELSE MaxRunPrefix

RunIsWhole(n, prefix) == n < 2 ^ (prefix + 1)

\* The symbols of a run of n zeros: as long as can be, then what is left.
RunSymbols(n, prefix) ==
  LET run[k \in 0..n] ==
        IF k = 0 THEN <<>>
        ELSE IF RunIsWhole(k, prefix)
          THEN <<Symbol(Log2(k), k - 2 ^ Log2(k))>>
          ELSE <<Symbol(prefix, 2 ^ prefix - 1)>> \o run[k - (2 ^ (prefix + 1) - 1)]
  IN run[n]

\* run_length_code_zeros: other values are put past the length symbols.
RunLengths(s, prefix) ==
  LET after[n \in 0..Len(s)] ==
        IF n = 0 THEN [run |-> 0, out |-> <<>>]
        ELSE LET last == after[n - 1] IN
             IF s[n] = 0 THEN [run |-> last.run + 1, out |-> last.out]
             ELSE [run |-> 0, out |-> Append(last.out \o RunSymbols(last.run, prefix),
                                             Symbol(s[n] + prefix, 0))]
  IN after[Len(s)].out \o RunSymbols(after[Len(s)].run, prefix)

\* write_context_map: the largest length symbol and the symbols that follow.
Written(map) ==
  LET moved == MoveToFront(map) IN
  [rleMax |-> RunPrefix(moved), symbols |-> RunLengths(moved, RunPrefix(moved))]

\* write_trivial_context_map: a tree for each type, whatever the context.
WrittenTrivial(types, contextBits) ==
  LET repeat == contextBits - 1
      entry(i) == i \div 2 + contextBits - 1
  IN [rleMax |-> repeat,
      symbols |-> [i \in 1..(2 * types) |->
        IF i % 2 = 0 THEN Symbol(repeat, 2 ^ repeat - 1)
        ELSE Symbol(IF i = 1 THEN 0 ELSE entry(i), 0)]]
TrivialMap(types, contextBits) ==
  [i \in 1..(types * 2 ^ contextBits) |-> (i - 1) \div 2 ^ contextBits]

-----------------------------------------------------------------------------
(* The decoder. *)

\* ContextMapDecoder::new
NewDecoder(size, trees) ==
  [size |-> size, trees |-> trees, state |-> "RleFlag", rleMax |-> 0, bits |-> 0, map |-> <<>>]
NoDecoder == [NewDecoder(0, 0) EXCEPT !.state = "None"]

NothingWritten == [rleMax |-> 0, symbols |-> <<>>]
SymbolsOf(source, written) == [source |-> source, written |-> written, next |-> 1]
NoSymbols == SymbolsOf(Unknown, NothingWritten)

\* What is read is what was written, if anything was.
OfUnknown == symbols.source = Unknown
AsWritten(read) == ~ OfUnknown => read
SymbolRead == symbols' = IF OfUnknown THEN symbols ELSE [symbols EXCEPT !.next = @ + 1]

\* RleFlag and RleValue: whether zeros run, and how long at most.
ReadRleMax ==
  /\ decoder.state = "RleFlag"
  /\ \E max \in 0..(2 ^ RleBits) :
       /\ AsWritten(max = symbols.written.rleMax)
       /\ decoder' = [decoder EXCEPT !.state = "Entries", !.rleMax = max]
  /\ UNCHANGED symbols

\* A symbol of the prefix code over the trees and the length symbols.
Alphabet == 0..(decoder.trees + decoder.rleMax - 1)

RepeatFromOne(symbol) == symbol >= 1 /\ symbol < decoder.rleMax   \* mutant: the largest is an entry
IsRepeat(symbol) == symbol >= 1 /\ symbol <= decoder.rleMax

Entry(symbol) == IF symbol = 0 THEN 0 ELSE symbol - decoder.rleMax

ReadEntry ==
  /\ decoder.state = "Entries" /\ Len(decoder.map) < decoder.size
  /\ \E symbol \in Alphabet :
       /\ AsWritten(/\ symbols.next <= Len(symbols.written.symbols)
                    /\ symbol = symbols.written.symbols[symbols.next].symbol)
       /\ IF IsRepeat(symbol)
            THEN decoder' = [decoder EXCEPT !.state = "Repeat", !.bits = symbol] /\ UNCHANGED symbols
            ELSE decoder' = [decoder EXCEPT !.map = Append(@, Entry(symbol))] /\ SymbolRead

RepeatOverflow(count) == Len(decoder.map) + count > decoder.size

ReadRepeat ==
  /\ decoder.state = "Repeat"
  /\ \E extra \in 0..(2 ^ decoder.bits - 1) :
       LET count == 2 ^ decoder.bits + extra IN
       /\ AsWritten(extra = symbols.written.symbols[symbols.next].extra)
       /\ decoder' = IF RepeatOverflow(count) THEN [decoder EXCEPT !.state = "error"]
                     ELSE [decoder EXCEPT !.state = "Entries", !.bits = 0,
                                          !.map = @ \o [i \in 1..count |-> 0]]
  /\ SymbolRead

\* inverse_move_to_front, in place: an entry is an index into the list of
\* all the trees there could be.
InverseMoveToFront(entries, trees) ==
  LET list[n \in 0..Len(entries)] ==
        IF n = 0 THEN TreesTo(trees) ELSE ToFront(list[n - 1], entries[n] + 1)
  IN [n \in 1..Len(entries) |-> list[n - 1][entries[n] + 1]]

Transform ==
  /\ decoder.state = "Entries" /\ Len(decoder.map) = decoder.size
  /\ \/ decoder' = [decoder EXCEPT !.state = "Done", !.map = InverseMoveToFront(@, decoder.trees)]
     \/ OfUnknown /\ decoder' = [decoder EXCEPT !.state = "Done"]
  /\ UNCHANGED symbols

DecodeMap == ReadRleMax \/ ReadEntry \/ ReadRepeat \/ Transform

-----------------------------------------------------------------------------
(* Correctness. *)

\* A map that an encoder wrote is read back as it was, with nothing refused,
\* missing or left over, whatever its runs of zeros and however they were cut; and
\* of any symbols a map is made that is whole and names only trees there are,
\* by which the metablock then indexes its prefix codes (ContextMapDecoder).
MapIsWhole ==
  /\ Len(decoder.map) <= decoder.size
  /\ decoder.state = "Done" =>
       Len(decoder.map) = decoder.size /\ ToSet(decoder.map) \subseteq 0..(decoder.trees - 1)
  /\ ~ OfUnknown =>
       /\ decoder.state # "error"
       /\ decoder.state = "RleFlag" => symbols.written.rleMax <= 2 ^ RleBits
       /\ decoder.state = "Entries" /\ Len(decoder.map) < decoder.size =>
            /\ symbols.next <= Len(symbols.written.symbols)
            /\ symbols.written.symbols[symbols.next].symbol \in Alphabet
       /\ decoder.state = "Repeat" =>
            symbols.written.symbols[symbols.next].extra < 2 ^ decoder.bits
       /\ decoder.state = "Done" => /\ decoder.map = symbols.source
                                    /\ symbols.next = Len(symbols.written.symbols) + 1
=============================================================================
