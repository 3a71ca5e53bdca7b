----------------------------- MODULE BlockState -----------------------------
(***************************************************************************)
(* The block-switch state of one symbol kind (decode/block_state.rs, with  *)
(* the block lengths of decode/block_partition.rs): which block type the   *)
(* next symbol belongs to and how many symbols are left of it. The         *)
(* operators work on the state as a record, so that BlockSwitch can check  *)
(* one alone and CompressedBlock can use three.                            *)
(***************************************************************************)
EXTENDS Naturals, Sequences

CONSTANT LengthCodes   \* block-length symbols: offset and number of extra bits

ASSUME LengthAssumption ==
  /\ DOMAIN LengthCodes \subseteq Nat \ {0}
  /\ \A i \in DOMAIN LengthCodes :
       LengthCodes[i].offset \in Nat \ {0} /\ LengthCodes[i].bits \in Nat \ {0}

NoSymbol == 0   \* BlockLengthDecoder::pending_symbol is None

\* A partition of n types with a first block of the given length.
NewBlocks(n, first) ==
  [types |-> n, current |-> 0, previous |-> <<1, 0>>, left |-> first,
   pending |-> FALSE, symbol |-> NoSymbol]

\* current() has to read a switch command before it can name a type: a type,
\* then a length symbol, then the length's extra bits. Each read may run out
\* of input; the next call to current() goes on with the read that is due.
SwitchEarly(b) == b.types > 1 /\ b.left <= 1   \* mutant: one symbol early
SwitchDue(b) == b.types > 1 /\ b.left = 0
TypeDue(b)   == SwitchDue(b) /\ ~ b.pending
SymbolDue(b) == SwitchDue(b) /\ b.pending /\ b.symbol = NoSymbol
ExtraDue(b)  == SwitchDue(b) /\ b.pending /\ b.symbol # NoSymbol

\* The alphabet of a block-type code.
TypeSymbols(n) == 0..(n + 1)

ResolveSwapped(symbol, n, previous) ==   \* mutant: the two previous types swapped
  LET type == IF symbol = 0 THEN previous[2]
              ELSE IF symbol = 1 THEN previous[1] + 1 ELSE symbol - 2
  IN IF type >= n THEN type - n ELSE type

ResolveType(symbol, n, previous) ==
  LET type == IF symbol = 0 THEN previous[1]
              ELSE IF symbol = 1 THEN previous[2] + 1 ELSE symbol - 2
  IN IF type >= n THEN type - n ELSE type

ReadType(b, symbol) ==
  LET type == ResolveType(symbol, b.types, b.previous)
  IN [b EXCEPT !.current = type, !.previous = <<b.previous[2], type>>, !.pending = TRUE]

ReadSymbol(b, symbol) == [b EXCEPT !.symbol = symbol]

ReadExtra(b, extra) ==
  [b EXCEPT !.left = LengthCodes[b.symbol].offset + extra,
            !.pending = FALSE, !.symbol = NoSymbol]

\* consume(1), after each symbol.
Consume(b) == IF b.types = 1 THEN b ELSE [b EXCEPT !.left = b.left - 1]
=============================================================================
