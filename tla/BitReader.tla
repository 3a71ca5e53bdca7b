----------------------------- MODULE BitReader -----------------------------
(***************************************************************************)
(* The bit reader (decode/bit_reader.rs) and the input of the current call.*)
(* A bit's value is chosen when it is read, so only counts are kept: bits  *)
(* staged in the reader, bytes of the call's input left and taken.         *)
(***************************************************************************)
EXTENDS Naturals

CONSTANT ByteBits   \* 8
ASSUME ByteBitsAssumption == ByteBits \in Nat \ {0}

VARIABLES buffered,  \* BitReader::buffered
          given,     \* bytes of the input slice beyond the cursor
          consumed   \* the cursor: bytes of the slice taken so far

reader == <<buffered, given, consumed>>

\* Whole bytes read_bits(count) still has to stage.
Missing(count) == IF count <= buffered THEN 0
                  ELSE (count - buffered + ByteBits - 1) \div ByteBits

\* The cursor moves over n bytes, which are staged as bits.
Stage(n) == given' = given - n /\ consumed' = consumed + n

\* read_bits returns Some.
ReadBits(count) ==
  /\ Missing(count) <= given
  /\ Stage(Missing(count))
  /\ buffered' = buffered + (ByteBits * Missing(count)) - count

\* read_bits returns None: what there was of the input stays staged.
Starves(count) == Missing(count) > given
StageAll == Stage(given) /\ buffered' = buffered + (ByteBits * given)

AlignDown ==   \* mutant: drops whole bytes, keeps the bits of the last
  buffered' = buffered % ByteBits /\ UNCHANGED <<given, consumed>>
\* align_to_byte_with_zero_fill; whether the fill bits are zero is the stream's.
Align == buffered' = buffered - (buffered % ByteBits) /\ UNCHANGED <<given, consumed>>

\* Bytes taken from the slice past the bit reader.
TakeBytes(n) == Stage(n) /\ UNCHANGED buffered
=============================================================================
