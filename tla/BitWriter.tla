------------------------------ MODULE BitWriter ------------------------------
(***************************************************************************)
(* The encoder's bit writer (encode/bit_writer.rs): bits are gathered in a  *)
(* word, the first the lowest, and go to the bytes a word at a time, or     *)
(* when they are asked for.  A metablock is written to a scratch writer and *)
(* then appended, at whatever bit the stream has reached.                   *)
(***************************************************************************)
EXTENDS Integers, Sequences

CONSTANTS
  ByteWidth,   \* 8
  WordBytes,   \* 8: the bytes of the pending word
  Values,      \* bound: values written, also of more bits than are asked for
  Widths,      \* bound: numbers of bits written
  Rooms,       \* bound: bytes drained at once
  MaxBits      \* bound: bits written in all

WordBits == ByteWidth * WordBytes
ASSUME WidthAssumption == ByteWidth \in Nat \ {0} /\ WordBytes \in Nat \ {0}
ASSUME WidthsFit == Widths \subseteq 0..WordBits /\ Values \subseteq Nat /\ Rooms \subseteq Nat

VARIABLES
  main, scratch,   \* writers: [bytes, pending, used]
  drained,         \* history: the bytes taken from the main one
  bitsOf           \* history: the bits written to each

writerVars == <<main, scratch, drained, bitsOf>>

\* A one shifted so far: a function, so that it can be reasoned about.
TwoTo[k \in 0..WordBits] == IF k = 0 THEN 1 ELSE 2 * TwoTo[k - 1]

NewWriter == [bytes |-> <<>>, pending |-> 0, used |-> 0]

LowBits(value, n) == value % TwoTo[n]
\* The first bytes of a word: to_le_bytes.
Bytes(word, n) == [i \in 1..n |-> LowBits(word \div TwoTo[ByteWidth * (i - 1)], ByteWidth)]

FlushWord(w) == [bytes |-> w.bytes \o Bytes(w.pending, WordBytes), pending |-> 0, used |-> 0]

RestUnshifted(value, taken) == value   \* mutant: the bits taken are written again
Rest(value, taken) == value \div TwoTo[taken]

\* write_bits: within the word, or across its end.
WriteBits(w, value, count) ==
  LET take   == WordBits - w.used
      within == [w EXCEPT !.pending = @ + LowBits(value, count) * TwoTo[w.used],
                          !.used = @ + count]
      filled == [w EXCEPT !.pending = @ + LowBits(value, take) * TwoTo[w.used]]
  IN IF count = 0 THEN w
     ELSE IF w.used + count < WordBits THEN within
     ELSE IF w.used + count = WordBits THEN FlushWord(within)
     ELSE [FlushWord(filled) EXCEPT !.pending = LowBits(Rest(value, take), count - take),
                                    !.used = count - take]

\* write_prefix: a code goes out with its highest bit first.
BitOf(value, i) == LowBits(value \div TwoTo[i], 1)
Reversed(code, count) ==
  LET reversed[i \in 0..count] ==
        IF i = 0 THEN 0 ELSE (2 * reversed[i - 1]) + BitOf(code, i - 1)
  IN reversed[count]
WritePrefix(w, code, count) == WriteBits(w, Reversed(code, count), count)

\* append_writer.
Appended(w, other) ==
  LET after[i \in 0..Len(other.bytes)] ==
        IF i = 0 THEN w ELSE WriteBits(after[i - 1], other.bytes[i], ByteWidth)
  IN WriteBits(after[Len(other.bytes)], other.pending, other.used)

\* flush_complete_pending, and align_to_byte with zeros.
FlushComplete(w) ==
  LET whole == w.used \div ByteWidth
  IN [bytes   |-> w.bytes \o Bytes(w.pending, whole),
      pending |-> w.pending \div TwoTo[whole * ByteWidth],
      used    |-> w.used - whole * ByteWidth]
AlignToByte(w) ==
  LET count == (w.used + ByteWidth - 1) \div ByteWidth
  IN [bytes |-> w.bytes \o Bytes(w.pending, count), pending |-> 0, used |-> 0]

-----------------------------------------------------------------------------
(* The bits a writer stands for, the first one first. *)

LowFirst(value, n)  == [i \in 1..n |-> BitOf(value, i - 1)]
HighFirst(value, n) == [i \in 1..n |-> BitOf(value, n - i)]
BitsOfBytes(bytes) ==
  [i \in 1..(ByteWidth * Len(bytes)) |->
     BitOf(bytes[((i - 1) \div ByteWidth) + 1], (i - 1) % ByteWidth)]
BitsIn(w) == BitsOfBytes(w.bytes) \o LowFirst(w.pending, w.used)
Padding(n) == [i \in 1..n |-> 0]

WriterInit ==
  /\ main = NewWriter /\ scratch = NewWriter /\ drained = <<>>
  /\ bitsOf = [main |-> <<>>, scratch |-> <<>>]

Room(n) == Len(bitsOf.main) + Len(bitsOf.scratch) + n <= MaxBits

Write(value, count) ==
  /\ Room(count)
  /\ \/ /\ main' = WriteBits(main, value, count)
        /\ bitsOf' = [bitsOf EXCEPT !.main = @ \o LowFirst(value, count)]
        /\ UNCHANGED scratch
     \/ /\ scratch' = WriteBits(scratch, value, count)
        /\ bitsOf' = [bitsOf EXCEPT !.scratch = @ \o LowFirst(value, count)]
        /\ UNCHANGED main
  /\ UNCHANGED drained

\* The symbols of a metablock.
Prefix(code, count) ==
  /\ Room(count)
  /\ scratch' = WritePrefix(scratch, code, count)
  /\ bitsOf' = [bitsOf EXCEPT !.scratch = @ \o HighFirst(code, count)]
  /\ UNCHANGED <<main, drained>>

AppendWriter ==
  /\ scratch # NewWriter
  /\ main' = Appended(main, scratch) /\ scratch' = NewWriter
  /\ bitsOf' = [main |-> bitsOf.main \o bitsOf.scratch, scratch |-> <<>>]
  /\ UNCHANGED drained

\* drain_bytes into a slice of that many bytes.
Drain(room) ==
  LET flushed == FlushComplete(main)
      count   == IF room < Len(flushed.bytes) THEN room ELSE Len(flushed.bytes)
  IN /\ drained' = drained \o SubSeq(flushed.bytes, 1, count)
     /\ main' = [flushed EXCEPT !.bytes = SubSeq(@, count + 1, Len(@))]
     /\ UNCHANGED <<scratch, bitsOf>>

\* A stored metablock's bytes follow from a byte boundary: write_bytes.
WriteBytes(byte) ==
  LET pad == (ByteWidth - (main.used % ByteWidth)) % ByteWidth IN
  /\ Room(pad + ByteWidth)
  /\ main' = [AlignToByte(main) EXCEPT !.bytes = Append(@, byte)]
  /\ bitsOf' = [bitsOf EXCEPT !.main = @ \o Padding(pad) \o LowFirst(byte, ByteWidth)]
  /\ UNCHANGED <<scratch, drained>>

WriterNext ==
  \/ \E value \in Values, count \in Widths : Write(value, count) \/ Prefix(value, count)
  \/ AppendWriter
  \/ \E room \in Rooms : Drain(room)
  \/ \E value \in Values : WriteBytes(LowBits(value, ByteWidth))

WriterSpec == WriterInit /\ [][WriterNext]_writerVars

\* Nothing of what is written is lost, doubled or moved, at whatever bit of the
\* word it falls, when it crosses the word's end or fills it, when one writer is
\* appended to another and while bytes are taken away: the bytes drained and
\* those that wait are the bits written, in order; and the word holds nothing
\* beyond its bits, which the next write would be added to (write_bits,
\* append_writer, drain_bytes, align_to_byte).
BitsKept ==
  /\ BitsIn([main EXCEPT !.bytes = drained \o @]) = bitsOf.main
  /\ BitsIn(scratch) = bitsOf.scratch
  /\ \A w \in {main, scratch} : w.used < WordBits /\ w.pending < TwoTo[w.used]
=============================================================================
