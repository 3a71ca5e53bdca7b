---------------------------- MODULE BlockSwitch ----------------------------
(***************************************************************************)
(* One symbol kind of a compressed metablock with several block types:     *)
(* the switch commands that current() reads, interleaved with the symbols  *)
(* decoded under them. Where input runs out between two reads the state    *)
(* stays as it is and the next call goes on: a stuttering step here.       *)
(***************************************************************************)
EXTENDS BlockState

CONSTANTS TypeCounts,   \* how many types a partition may have
          FirstLengths  \* lengths a partition header may give the first block

ASSUME TypesAssumption == TypeCounts \subseteq Nat \ {0} /\ FirstLengths \subseteq Nat \ {0}

VARIABLES block,     \* the BlockState
          codes,     \* history variable: every block-type symbol read
          switches   \* history variable: every block, with what was decoded in it

switchVars == <<block, codes, switches>>

\* seen: the types current() named for the symbols of this block.
Block(type, length) == [type |-> type, length |-> length, symbols |-> 0, seen |-> {}]
Latest == switches[Len(switches)]

\* A partition of one type has no block length, and its block no end.
Partition(n, first) ==
  /\ block' = NewBlocks(n, IF n = 1 THEN 0 ELSE first)
  /\ switches' = <<Block(0, first)>>
  /\ codes' = <<>>

SwitchInit == \E n \in TypeCounts, first \in FirstLengths :
                /\ block = NewBlocks(n, IF n = 1 THEN 0 ELSE first)
                /\ switches = <<Block(0, first)>>
                /\ codes = <<>>

SwitchType(symbol) ==
  /\ TypeDue(block)
  /\ block' = ReadType(block, symbol)
  /\ codes' = Append(codes, symbol)
  /\ UNCHANGED switches

SwitchLength(symbol) ==
  /\ SymbolDue(block)
  /\ block' = ReadSymbol(block, symbol)
  /\ UNCHANGED <<codes, switches>>

SwitchExtra(extra) ==
  /\ ExtraDue(block)
  /\ block' = ReadExtra(block, extra)
  /\ switches' = Append(switches, Block(block.current, LengthCodes[block.symbol].offset + extra))
  /\ UNCHANGED codes

\* A symbol of the kind: current() names its type, consume() counts it.
Symbol ==
  /\ ~ SwitchDue(block)
  /\ block' = Consume(block)
  /\ switches' = [switches EXCEPT ![Len(switches)] =
                    [type |-> Latest.type, length |-> Latest.length,
                     symbols |-> Latest.symbols + 1, seen |-> Latest.seen \cup {block.current}]]
  /\ UNCHANGED codes

Extras == 0..(2 ^ LengthCodes[block.symbol].bits - 1)

SwitchNext == \/ \E symbol \in TypeSymbols(block.types) : SwitchType(symbol)
              \/ \E symbol \in DOMAIN LengthCodes : SwitchLength(symbol)
              \/ ExtraDue(block) /\ \E extra \in Extras : SwitchExtra(extra)
              \/ Symbol

SwitchSpec == SwitchInit /\ [][SwitchNext]_switchVars

-----------------------------------------------------------------------------
(* Correctness. *)

\* Every block covers exactly as many symbols as its length says, all of them
\* decoded under its own type, and the count in progress is what the latest
\* block still owes: no symbol is decoded between a switch's type and its
\* length, and consume() never runs past the block; a switch that was begun is
\* finished with one length before another type is read, wherever input ran out
\* in between (current, consume, switch_pending, pending_symbol).
SymbolsFollowSwitches ==
  /\ \A i \in 1..Len(switches) :
       /\ switches[i].seen \subseteq {switches[i].type}
       /\ i < Len(switches) => switches[i].symbols = switches[i].length
  /\ block.types > 1 => Latest.symbols + block.left = Latest.length
  /\ ~ SwitchDue(block) => block.current = Latest.type
  /\ Len(codes) = Len(switches) - (IF block.pending THEN 0 ELSE 1)
  /\ block.symbol # NoSymbol => block.pending

\* The type that the i-th type symbol read stands for, by the blocks before.
Meaning(i) ==
  CASE codes[i] = 0 -> IF i = 1 THEN 1 ELSE switches[i - 1].type
    [] codes[i] = 1 -> (switches[i].type + 1) % block.types
    [] OTHER -> codes[i] - 2

\* A type symbol means what the format says of it, in terms of the blocks
\* before: 0 the type of the block before the latest, 1 the type after the
\* latest, in a circle (resolve_type and its two-entry memory).
TypesMeanCodes == \A i \in 1..(Len(switches) - 1) : switches[i + 1].type = Meaning(i)

\* What is known of a block of a partition of n types.
BlocksOf(n) == [type : 0..(n - 1), length : Nat, symbols : Nat, seen : SUBSET (0..(n - 1))]

\* Types are within the partition. With one type, current() returns before it
\* looks at the memory.
SwitchTypeOK ==
  /\ block \in [types : Nat \ {0}, current : Nat, previous : Nat \X Nat, left : Nat,
                pending : BOOLEAN, symbol : {NoSymbol} \cup DOMAIN LengthCodes]
  /\ block.current < block.types
  /\ block.types > 1 => block.previous[1] < block.types /\ block.previous[2] < block.types
  /\ block.types = 1 => ~ block.pending
  /\ codes \in Seq(TypeSymbols(block.types))
  /\ switches \in Seq(BlocksOf(block.types)) /\ Len(switches) > 0

\* The two-entry memory holds the types of the latest two blocks, of which the
\* newer one, between its type and its length, is still to begin.
MemoryHolds ==
  LET Before(i) == IF i = 1 THEN 1 ELSE switches[i - 1].type IN
  IF block.pending
    THEN /\ block.left = 0
         /\ block.previous = <<Latest.type, block.current>>
         /\ block.current = Meaning(Len(switches))
    ELSE /\ block.previous = <<Before(Len(switches)), Latest.type>>
         /\ block.current = Latest.type

\* The inductive invariant.
SwitchIInv == SwitchTypeOK /\ SymbolsFollowSwitches /\ MemoryHolds /\ TypesMeanCodes
=============================================================================
