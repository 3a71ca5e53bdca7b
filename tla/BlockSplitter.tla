---------------------------- MODULE BlockSplitter ----------------------------
(***************************************************************************)
(* The greedy block splitter of the encoder and the block switches it writes *)
(* (encode/greedy/block_split.rs), read back by the decoder's block state.   *)
(* One symbol kind of one metablock: the symbols go through the splitter,    *)
(* which gives each block a type and each type a histogram, from which its   *)
(* prefix code is built; then they are written under the types and read with  *)
(* the block switches (BlockSwitch), cut anywhere. A stream of unknown origin *)
(* has any switches.                                                         *)
(* Entropies are estimates: which way a block goes is a choice, except where *)
(* equal histograms make it the same.  Contexts are part of a symbol.        *)
(***************************************************************************)
EXTENDS BlockSwitch

CONSTANTS Symbols,    \* of the kind, with their literal contexts
          MinBlock,   \* min_block_size (the code: 512 or 1024)
          MaxTypes,   \* max_block_types (the code: 256 divided by the contexts)
          Totals,     \* bound: how many symbols there are (num_symbols)
          MaxSwitches, AnyLengths   \* bounds of a stream of unknown origin

ASSUME SplitAssumption == MinBlock \in Nat \ {0} /\ MaxTypes \in Nat \ {0} /\ Totals \subseteq Nat

\* The length code i and its extra bits make a length.
Covers(i, length) ==
  /\ LengthCodes[i].offset <= length
  /\ length < LengthCodes[i].offset + 2 ^ LengthCodes[i].bits

\* block_length_code finds just one code for every length that a block may
\* have: its table has no overlap and covers the longest metablock and a block.
ASSUME CodesAssumption ==
  \A n \in Totals : \A length \in 1..(n + MinBlock) : \E i \in DOMAIN LengthCodes :
    \A j \in DOMAIN LengthCodes : Covers(j, length) <=> j = i

VARIABLES
  total, added,              \* the symbols: how many, and those passed so far
  types, lengths, numTypes,  \* BlockSplit
  histograms, current,       \* one for each type, then the block's
  size, target, merges,      \* block_size, target_block_size, merge_last_count
  last,                      \* last_histograms, with the totals and entropies
  phase,                     \* split, header, write; or any: of unknown origin
  cursor,                    \* BlockCursor
  written,                   \* how many symbols are written
  pending                    \* of what is written, what is still to be read

splitter == <<types, lengths, numTypes, histograms, current, size, target, merges, last>>
writing  == <<cursor, written, pending>>
vars     == <<total, added, splitter, phase, writing, switchVars>>

NoSymbols == [s \in Symbols |-> 0]
Merged(h, g) == [s \in Symbols |-> h[s] + g[s]]

\* How many histograms are allocated (max_num_types).
Capacity(n) == LET blocks == n \div MinBlock + 1
               IN IF blocks < MaxTypes + 1 THEN blocks ELSE MaxTypes + 1

\* One of the last two histograms, and the counts that its entropy was of.
Recent(histogram, counts) == [histogram |-> histogram, counts |-> counts]

\* BlockTypeCodeCalculator.
NewCalculator == [last |-> 1, second |-> 0]
Calculated(c, type) == [last |-> type, second |-> c.last]
TypeSymbol(c, type) ==
  IF type = c.last + 1 THEN 1 ELSE IF type = c.second THEN 0 ELSE type + 2

NoCursor == [index |-> 0, left |-> 0, calculator |-> NewCalculator]

Init ==
  /\ \/ /\ phase = "split" /\ total \in Totals
        /\ block = NewBlocks(1, 0) /\ switches = <<Block(0, 0)>> /\ codes = <<>>
     \/ phase = "any" /\ total = 0 /\ SwitchInit
  /\ added = <<>>
  /\ types = <<>> /\ lengths = <<>> /\ numTypes = 0
  /\ histograms = [h \in 0..(Capacity(total) - 1) |-> NoSymbols] /\ current = 0
  /\ size = 0 /\ target = MinBlock /\ merges = 0
  /\ last = <<Recent(0, NoSymbols), Recent(0, NoSymbols)>>
  /\ cursor = NoCursor /\ written = 0 /\ pending = <<>>

-----------------------------------------------------------------------------
(* finish_block, on a block of n symbols with the histograms hs.            *)

\* A block that ends early, the last, is given the least size all the same.
Padded(n) == IF n < MinBlock THEN MinBlock ELSE n

\* clear_current_histogram: there may be none left to clear.
Cleared(hs, h) == [g \in DOMAIN hs |-> IF g = h THEN NoSymbols ELSE hs[g]]

Combined(hs, i) == Merged(hs[current], hs[last[i].histogram])

\* reset_after_split
ResetAfterSplit == size' = 0 /\ merges' = 0 /\ target' = MinBlock

FirstBlock(hs, n) ==
  /\ types = <<>>
  /\ types' = <<0>> /\ lengths' = <<Padded(n)>> /\ numTypes' = 1
  /\ last' = <<Recent(0, hs[0]), Recent(0, hs[0])>>
  /\ current' = current + 1 /\ histograms' = Cleared(hs, current + 1)
  /\ size' = 0 /\ UNCHANGED <<target, merges>>

\* Both merges would cost more than the threshold.
NewType(hs, n) ==
  /\ types # <<>> /\ n > 0 /\ numTypes < MaxTypes
  /\ types' = Append(types, numTypes) /\ lengths' = Append(lengths, Padded(n))
  /\ last' = <<Recent(numTypes, hs[current]), last[1]>>
  /\ numTypes' = numTypes + 1
  /\ current' = current + 1 /\ histograms' = Cleared(hs, current + 1)
  /\ ResetAfterSplit

\* The last two histograms once the block has joined the second.
ReturnedUnswapped(slots, counts) ==   \* mutant: they keep their places
  <<slots[1], Recent(slots[2].histogram, counts)>>
Returned(slots, counts) == <<Recent(slots[2].histogram, counts), slots[1]>>

\* The second last type is nearer than the last, by more than a margin: when
\* the two are the same histogram with the same entropy it cannot be.
ReturnToSecondLast(hs, n) ==
  /\ types # <<>> /\ n > 0 /\ last[1] # last[2]
  /\ types' = Append(types, types[Len(types) - 1]) /\ lengths' = Append(lengths, Padded(n))
  /\ histograms' = Cleared([hs EXCEPT ![last[2].histogram] = Combined(hs, 2)], current)
  /\ last' = Returned(last, Combined(hs, 2))
  /\ ResetAfterSplit /\ UNCHANGED <<numTypes, current>>

\* Otherwise the last block grows; after a second time blocks grow longer.
GrowLast(hs, n) ==
  /\ types # <<>>
  /\ lengths' = [lengths EXCEPT ![Len(lengths)] = @ + Padded(n)]
  /\ histograms' = Cleared([hs EXCEPT ![last[1].histogram] = Combined(hs, 1)], current)
  /\ last' = <<Recent(last[1].histogram, Combined(hs, 1)),
               IF numTypes = 1 THEN Recent(last[2].histogram, Combined(hs, 1)) ELSE last[2]>>
  /\ merges' = merges + 1
  /\ target' = IF merges' > 1 THEN target + MinBlock ELSE target
  /\ size' = 0 /\ UNCHANGED <<types, numTypes, current>>

FinishBlock(hs, n) ==
  FirstBlock(hs, n) \/ NewType(hs, n) \/ ReturnToSecondLast(hs, n) \/ GrowLast(hs, n)

-----------------------------------------------------------------------------
(* The symbols, once through the splitter, then once to be written.         *)

AddSymbol(symbol) ==
  LET hs == [histograms EXCEPT ![current][symbol] = @ + 1] IN
  /\ phase = "split" /\ Len(added) < total
  /\ added' = Append(added, symbol)
  /\ IF size + 1 = target
       THEN FinishBlock(hs, size + 1)
       ELSE /\ histograms' = hs /\ size' = size + 1
            /\ UNCHANGED <<types, lengths, numTypes, current, target, merges, last>>
  /\ UNCHANGED <<total, phase, writing, switchVars>>

Finish ==
  /\ phase = "split" /\ Len(added) = total
  /\ FinishBlock(histograms, size)
  /\ phase' = "header"
  /\ UNCHANGED <<total, added, writing, switchVars>>

\* block_length_code, and what BlockLengthDecoder makes of it.
LengthSymbol(length) == CHOOSE i \in DOMAIN LengthCodes : Covers(i, length)
LengthExtra(length) == length - LengthCodes[LengthSymbol(length)].offset

\* write_header and cursor(); the decoder's BlockState::new.
WriteHeader ==
  /\ phase = "header"
  /\ cursor' = [index |-> 1, left |-> lengths[1],
                calculator |-> Calculated(NewCalculator, types[1])]
  /\ Partition(numTypes, LengthCodes[LengthSymbol(lengths[1])].offset + LengthExtra(lengths[1]))
  /\ phase' = "write"
  /\ UNCHANGED <<total, added, splitter, written, pending>>

SwitchWritten == numTypes > 1 /\ cursor.left = 0

Item(kind, value) == [kind |-> kind, value |-> value]

\* before_symbol, then the symbol. What is written is read before the next is
\* written: the decoder comes later, but neither takes anything of the other.
WriteSymbol ==
  /\ phase = "write" /\ written < total /\ pending = <<>>
  /\ LET i == cursor.index + 1 IN
     IF SwitchWritten
       THEN /\ cursor' = [index |-> i, left |-> lengths[i] - 1,
                          calculator |-> Calculated(cursor.calculator, types[i])]
            /\ pending' = <<Item("type", TypeSymbol(cursor.calculator, types[i])),
                            Item("length", LengthSymbol(lengths[i])),
                            Item("extra", LengthExtra(lengths[i])), Item("symbol", 0)>>
       ELSE /\ cursor' = IF numTypes = 1 THEN cursor ELSE [cursor EXCEPT !.left = @ - 1]
            /\ pending' = <<Item("symbol", 0)>>
  /\ written' = written + 1
  /\ UNCHANGED <<total, added, splitter, phase, switchVars>>

\* The decoder reads what comes next of what is written, or anything.
Read(kind, value) ==
  IF phase = "any" THEN UNCHANGED pending
  ELSE pending # <<>> /\ Head(pending) = Item(kind, value) /\ pending' = Tail(pending)

Decode ==
  /\ \/ \E s \in TypeSymbols(block.types) :
          Read("type", s) /\ (phase = "any" => Len(codes) < MaxSwitches) /\ SwitchType(s)
     \/ \E s \in DOMAIN LengthCodes :
          Read("length", s) /\ (phase = "any" => s \in AnyLengths) /\ SwitchLength(s)
     \/ ExtraDue(block) /\ \E extra \in Extras : Read("extra", extra) /\ SwitchExtra(extra)
     \/ Read("symbol", 0) /\ Symbol
  /\ UNCHANGED <<total, added, splitter, phase, cursor, written>>

Next == \/ \E symbol \in Symbols : AddSymbol(symbol)
        \/ Finish \/ WriteHeader \/ WriteSymbol \/ Decode

Spec == Init /\ [][Next]_vars

-----------------------------------------------------------------------------
(* Correctness. *)

Tree == types[cursor.index]

\* While splitting, there is a histogram for the block in progress, no type's
\* yet, and the last two are those of the last two blocks, with the entropies of what they
\* now count (finish_block): so that a block returned to the second last type
\* has one to return to and is counted under the type it is given.
RecentAreLatest ==
  /\ phase = "split" => current \in DOMAIN histograms /\ current = numTypes
  /\ types # <<>> => /\ last[1].histogram = types[Len(types)]
                     /\ Len(types) > 1 => last[2].histogram = types[Len(types) - 1]
                     /\ Len(types) = 1 => last[1] = last[2]
                     /\ \A i \in 1..2 : last[i].counts = histograms[last[i].histogram]

\* The symbols for which BlockSplitEncoding::new counts, to make the codes of
\* the switches: the calculator as block after block has left it.
CalculatorAt(i) == [last   |-> IF i = 1 THEN 1 ELSE types[i - 1],
                    second |-> IF i = 1 THEN 0 ELSE IF i = 2 THEN 1 ELSE types[i - 2]]
TypeCode == {TypeSymbol(CalculatorAt(i), types[i]) : i \in 2..Len(types)}
LengthCode == {LengthSymbol(lengths[i]) : i \in 1..Len(lengths)}

Due == IF TypeDue(block) THEN "type" ELSE IF SymbolDue(block) THEN "length"
       ELSE IF ExtraDue(block) THEN "extra" ELSE "symbol"

\* Every symbol is written under a tree whose code has it, for it was counted
\* there, and the decoder, from the switch commands alone, reads it under the
\* same tree, each command where it looks for it: the blocks cover the
\* symbols, the last by its padding, the commands have codes, and the type
\* symbols, relative to types that each side keeps for itself, agree
\* (GreedyBlockSplitter, BlockSplitEncoding::new, BlockCursor::before_symbol,
\* BlockState::current).
SymbolsHaveCodes ==
  /\ RecentAreLatest
  /\ phase = "write" /\ SwitchWritten /\ written < total => cursor.index < Len(types)
  /\ pending # <<>> =>
       LET item == Head(pending) IN
       /\ item.kind = Due
       /\ item.kind = "type"   => item.value \in TypeCode
       /\ item.kind = "length" => item.value \in LengthCode
  /\ phase = "write" /\ written > 0 => histograms[Tree][added[written]] > 0
  /\ pending # <<>> /\ Due = "symbol" => block.current = Tree
=============================================================================
