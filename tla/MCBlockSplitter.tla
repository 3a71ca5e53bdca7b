--------------------------- MODULE MCBlockSplitter ---------------------------
\* Three types at most, blocks of two symbols and more: types that come back,
\* a cap that is met, and blocks that grow, in nine symbols. With three types
\* "previous", "next" and a type by name all differ.
EXTENDS BlockSplitter, TLC
CONSTANTS a, b   \* symbols
SplitLengthCodes == <<[offset |-> 1, bits |-> 1], [offset |-> 3, bits |-> 2],
                      [offset |-> 7, bits |-> 3]>>
SymbolSymmetry == Permutations(Symbols)
=============================================================================
