------------------------- MODULE MCCompressedMetaBlock -------------------------
(* A small dictionary and small codes. Every word has 32 variants by index,  *)
(* more than any distance that is named without extra bits can address past  *)
(* the first transform, as in the real one (1024 against 19 and 120). The    *)
(* second transform omits the whole word: an empty dictionary reference.     *)
EXTENDS CompressedMetaBlock

CONSTANTS a, b   \* two literal bytes

MCLengthCodes == <<[offset |-> 1, bits |-> 1]>>
MCNumTypes == [literal |-> 2, command |-> 1, distance |-> 1]

MCSizeBits == [n \in {4} |-> 5]
MCTransforms == <<[prefix |-> 0, omitFirst |-> 0, omitLast |-> 0, suffix |-> 0],
                  [prefix |-> 0, omitFirst |-> 0, omitLast |-> 9, suffix |-> 0],
                  [prefix |-> 1, omitFirst |-> 3, omitLast |-> 0, suffix |-> 1]>>

Symbol(insert, insertBits, copyLength, copyExtra, implicit) ==
  [insert |-> insert, insertBits |-> insertBits, copy |-> copyLength, copyBits |-> copyExtra,
   implicit |-> implicit]

\* Commands: implicit and explicit distances, with and without literals.
InsertCopy == Symbol(1, 1, 2, 0, FALSE)
LastCopy   == Symbol(0, 0, 2, 1, TRUE)
WordCopy   == Symbol(0, 0, 4, 0, FALSE)
LastWord   == Symbol(0, 0, 4, 0, TRUE)

\* Distance symbols: the last one, the last less one, less three, the second
\* last, one by name, two with extra bits (46 to 61 and 62 to 93 here).
Short == {0, 1, 4, 8}
Named == {16, 17, 24, 25}

MCTrees ==
  [literal : {{a, b}}, type : {{1}}, command : {{LastCopy, InsertCopy}}, distance : {{16}}]
  \cup [literal : {{a}}, type : {{0, 1}}, command : {{InsertCopy, WordCopy}},
        distance : {{0, 16, 24}}]
  \cup [literal : {{a}}, type : {{1}}, command : {{WordCopy}, {InsertCopy, WordCopy}},
        distance : {{s} : s \in Short \cup Named}]
  \cup [literal : {{a}}, type : {{1}}, command : {{LastWord}}, distance : {{0}}]
=============================================================================
