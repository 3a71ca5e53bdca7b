-------------------------- MODULE MetaBlockHeader --------------------------
(***************************************************************************)
(* The resumable decoders of the stream header (decode/stream_header.rs)   *)
(* and of metablock headers (decode/metablock_header.rs). An operator      *)
(* HeaderXxx is one turn of the decode loop, with the values the bits may  *)
(* have; where a turn ends in a header or an error, its caller says what   *)
(* becomes of it. Lengths are scaled by the bits of a nibble and of a      *)
(* length byte; what is read is not.                                       *)
(***************************************************************************)
EXTENDS BitReader, Sequences

CONSTANTS NibbleBits,     \* 4
          LengthByteBits, \* 8
          Widths          \* nibbles of a data length, by code: 4, 5, 6

\* A header is read in pieces of a byte at most.
ASSUME WidthAssumption ==
  /\ NibbleBits \in 1..4 /\ NibbleBits <= ByteBits
  /\ LengthByteBits \in 1..8 /\ LengthByteBits <= ByteBits
  /\ 3 <= ByteBits
  /\ Widths \in Seq(1..6) /\ Len(Widths) = 3

VARIABLES header,      \* MetaBlockHeaderDecoder
          streamState  \* StreamHeaderDecoder::state

\* The decoder between two headers: finish() resets it to this.
Clean == [state |-> "IsLast", last |-> FALSE, width |-> 0, index |-> 0, value |-> 0]

End              == [kind |-> "End", last |-> TRUE, length |-> 0]
Kind(k, length)  == [kind |-> k, last |-> header.last, length |-> length]

Goto(state)      == header' = [header EXCEPT !.state = state]

\* The bits of the next read; 0 for the states that only align.
HeaderWant == CASE header.state \in {"IsLast", "IsLastEmpty", "IsUncompressed",
                                     "MetadataReserved"} -> 1
                [] header.state \in {"Nibbles", "MetadataLengthWidth"} -> 2
                [] header.state = "DataLength" -> NibbleBits
                [] header.state = "MetadataLength" -> LengthByteBits
                [] OTHER -> 0

IsLast == /\ header.state = "IsLast"
          /\ \/ header' = [header EXCEPT !.last = TRUE, !.state = "IsLastEmpty"]
             \/ header' = [header EXCEPT !.last = FALSE, !.state = "Nibbles"]

IsLastEmpty == /\ header.state = "IsLastEmpty"
               /\ Goto("EndAlignment") \/ Goto("Nibbles")

Nibbles ==
  /\ header.state = "Nibbles"
  /\ \/ \E code \in 1..3 :
          header' = [header EXCEPT !.index = 0, !.value = 0, !.width = Widths[code],
                                   !.state = "DataLength"]
     \/ header' = [header EXCEPT !.index = 0, !.value = 0, !.state = "MetadataReserved"]

\* A digit of a length, least significant first; the last may not be 0 unless
\* the length has the fewest digits anyway.
NonMinimalBefore(digit, least) ==   \* mutant: looks at the digit before the last
  header.index + 2 = header.width /\ header.width > least /\ digit = 0
NonMinimal(digit, least) ==
  header.index + 1 = header.width /\ header.width > least /\ digit = 0

Digit(digit, bits, state) ==
  header' = [header EXCEPT !.value = @ + (digit * (2 ^ (bits * header.index))),
                           !.index = @ + 1,
                           !.state = state]

DataLength(digit) ==
  /\ header.state = "DataLength" /\ header.index < header.width
  /\ ~ NonMinimal(digit, Widths[1])
  /\ Digit(digit, NibbleBits,
           IF header.index + 1 = header.width /\ ~ header.last THEN "IsUncompressed"
                                                               ELSE "DataLength")

MetadataReserved == header.state = "MetadataReserved" /\ Goto("MetadataLengthWidth")

MetadataLengthWidth ==
  /\ header.state = "MetadataLengthWidth"
  /\ \E width \in 0..3 :
       header' = [header EXCEPT !.width = width, !.index = 0, !.value = 0,
                                !.state = IF width = 0 THEN "MetadataAlignment"
                                                       ELSE "MetadataLength"]

MetadataLength(byte) ==
  /\ header.state = "MetadataLength"
  /\ ~ NonMinimal(byte, 1)
  /\ LET last == header.index + 1 = header.width IN
     header' = [header EXCEPT
       !.value = @ + (byte * (2 ^ (LengthByteBits * header.index))) + (IF last THEN 1 ELSE 0),
       !.index = @ + 1,
       !.state = IF last THEN "MetadataAlignment" ELSE "MetadataLength"]

\* The turns that read bits and stay within the header.
HeaderRead ==
  \/ IsLast \/ IsLastEmpty \/ Nibbles \/ MetadataReserved \/ MetadataLengthWidth
  \/ \E digit \in 0..(2 ^ NibbleBits - 1) : DataLength(digit)
  \/ \E byte \in 0..(2 ^ LengthByteBits - 1) : MetadataLength(byte)

\* The digit, or reserved bit, that such a turn may not read.
HeaderInvalid ==
  \/ header.state = "MetadataReserved"
  \/ header.state = "DataLength" /\ header.index < header.width /\ NonMinimal(0, Widths[1])
  \/ header.state = "MetadataLength" /\ NonMinimal(0, 1)

\* The last nibble of a last metablock ends its header without a further read;
\* the bit of "IsUncompressed" ends it with one.
LengthComplete == header.state = "DataLength" /\ header.index = header.width
Aligning == header.state \in {"UncompressedAlignment", "MetadataAlignment", "EndAlignment"}

Aligned == CASE header.state = "UncompressedAlignment" -> Kind("Uncompressed", header.value + 1)
             [] header.state = "MetadataAlignment" -> Kind("Metadata", header.value)
             [] OTHER -> End
=============================================================================
