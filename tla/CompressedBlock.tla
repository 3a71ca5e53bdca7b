-------------------------- MODULE CompressedBlock --------------------------
(***************************************************************************)
(* The body of compressed metablocks (decode/compressed_block.rs with      *)
(* command.rs, distance.rs, block_state.rs and the dictionary references   *)
(* of dictionary.rs): a resumable state machine that turns commands into   *)
(* literals, LZ77 copies and dictionary words.                             *)
(*                                                                         *)
(* An action is one turn of the loop in process(), or one read within it.  *)
(* Input is a supply of reads: a read that costs bits uses one up, a read  *)
(* through a code of a single symbol, or of zero extra bits, uses none.    *)
(* The window is the sequence of all bytes decoded, of which a copy may    *)
(* reach WindowSize back: what History implements (HistoryWindow).         *)
(***************************************************************************)
EXTENDS FiniteSets, BlockState, DistanceCodes

CONSTANTS
  WindowSize,   \* (1 << WBITS) - 16
  Trees,        \* what the codes of one metablock may hold: for each kind the
                \* symbols of its trees; "type" for the block-type codes
  NumTypes,     \* block types of each kind
  FirstLengths, \* lengths a partition header may give its first block
  Postfix,      \* distance_postfix_bits
  Direct,       \* num_direct_distance_codes
  SizeBits,     \* size_bits, as a function on the lengths that have words
  Transforms,   \* the dictionary's transforms: how many letters each adds and omits
  Lengths,      \* lengths a metablock header may announce
  MaxBlocks,    \* bound: metablocks decoded
  MaxReads,     \* bound: reads that the input of one call can pay for
  MaxSpace      \* bound: output bytes of one call

Kinds == {"literal", "command", "distance"}

ASSUME WindowAssumption == WindowSize \in Nat
ASSUME DistanceAssumption ==
  /\ Postfix \in 0..3 /\ Direct \in Nat
  /\ \A t \in Trees : t.distance \subseteq 0..(AlphabetSize(Postfix, Direct) - 1)
ASSUME CommandAssumption ==   \* COPY_BASE starts at 2
  \A t \in Trees :
    t.command \subseteq [insert : Nat, insertBits : Nat, copy : Nat \ {0, 1}, copyBits : Nat,
                         implicit : BOOLEAN]
ASSUME DictionaryAssumption ==   \* SIZE_BITS_BY_LENGTH ends at 11
  /\ DOMAIN SizeBits \subseteq Nat /\ \A n \in DOMAIN SizeBits : SizeBits[n] \in 0..11
  /\ Transforms \in Seq([prefix : Nat, omitFirst : Nat, omitLast : Nat, suffix : Nat])
ASSUME BoundAssumption ==
  /\ Lengths \subseteq Nat \ {0}
  /\ MaxBlocks \in Nat /\ MaxReads \in Nat /\ MaxSpace \in Nat

VARIABLES
  phase,       \* CompressedBlock::phase; its payload is in the next three
  command,     \* command_decoder, then the payload of Literals and Distance
  copy,        \* the payload of Copy: bytes remaining, and the distance
  distance,    \* distance_decoder: its State
  dictionary,  \* dictionary_output: the bytes and the offset into them
  blocks,      \* literal_blocks, command_blocks, distance_blocks
  remaining,   \* CompressedBlock::remaining
  trees,       \* CompressedBlock::trees: the symbols of each kind's codes
  recent,      \* RecentDistances::values
  out,         \* the window: every byte decoded so far
  status,      \* "run" within a call; else what the last call returned
  fed, space,  \* reads and output bytes left to the current call
  end,         \* history variable: where out ends once this metablock is decoded
  meaning,     \* history variable: the bytes the commands decoded so far mean
  named,       \* history variable: distances of the LZ77 copies begun, but for
               \* those named as the last distance
  count        \* metablocks begun

block == <<phase, command, copy, distance, dictionary, blocks, remaining, trees>>
call  == <<status, fed, space>>
ghost == <<end, meaning, named, count>>
vars  == <<block, recent, out, call, ghost>>

Least(a, b) == IF a <= b THEN a ELSE b
Reach == Least(Len(out), WindowSize)

NoCommand    == [state |-> "none", insert |-> 0, insertBits |-> 0,
                 copy |-> 0, copyBits |-> 0, implicit |-> FALSE]
NoCopy       == [left |-> 0, distance |-> 0]
NoDistance   == [state |-> "none", symbol |-> 0, value |-> 0, push |-> FALSE, bits |-> 0]
NoDictionary == [held |-> FALSE, bytes |-> <<>>, offset |-> 0]

FitsOneMore(n) == n <= remaining + 1   \* mutant: off by one
\* The metablock still owes n bytes; otherwise MetaBlockOverflow.
Fits(n) == n <= remaining

\* CompressedBlock::new, for a metablock of the given length.
NewBlock(length) ==
  /\ phase' = "Command"
  /\ command' = NoCommand /\ copy' = NoCopy
  /\ distance' = NoDistance /\ dictionary' = NoDictionary
  /\ \E first \in FirstLengths :
       blocks' = [k \in Kinds |-> NewBlocks(NumTypes[k], IF NumTypes[k] = 1 THEN 0 ELSE first)]
  /\ remaining' = length
  /\ trees' \in Trees
  /\ end' = Len(out) + length
  /\ count' = count + 1

\* The decoder before its first metablock (CompressedMetaBlock has the rest).
Init ==
  /\ phase = "Done"
  /\ command = NoCommand /\ copy = NoCopy
  /\ distance = NoDistance /\ dictionary = NoDictionary
  /\ blocks = [k \in Kinds |-> NewBlocks(1, 0)]
  /\ remaining = 0
  /\ trees \in Trees
  /\ recent = InitialRing
  /\ out = <<>>
  /\ status = "Done" /\ fed = 0 /\ space = 0
  /\ end = 0 /\ meaning = <<>> /\ named = <<>> /\ count = 0

-----------------------------------------------------------------------------
(* Calls, and reads of the input.                                          *)

At(p) == status = "run" /\ phase = p

Return(result) == /\ status' = result
                  /\ UNCHANGED <<block, recent, out, fed, space, ghost>>

\* process() is called with room for s bytes, and input for i more reads.
Call(i, s) ==
  /\ status \in {"NeedInput", "NeedOutput"}
  /\ fed + i <= MaxReads
  /\ status' = "run"
  /\ fed' = fed + i
  /\ space' = s
  /\ UNCHANGED <<block, recent, out, ghost>>

IsFree(symbols) == Cardinality(symbols) = 1
Starves(free) == ~ free /\ fed = 0
Pays(free)  == /\ ~ Starves(free)
               /\ fed' = IF free THEN fed ELSE fed - 1
Reads(free) == Pays(free) /\ UNCHANGED space

-----------------------------------------------------------------------------
(* Block switches: current() of the kind whose symbol comes next.          *)

NextKind == CASE At("Command") /\ remaining # 0 -> {"command"}
              [] At("Literals") /\ command.insert # 0 /\ space # 0 -> {"literal"}
              [] At("Distance") -> {"distance"}
              [] OTHER -> {}

\* current() names a block type without reading.
Settled(kind) == kind \in NextKind /\ ~ SwitchDue(blocks[kind])

Switch(kind, b) == /\ blocks' = [blocks EXCEPT ![kind] = b]
                   /\ UNCHANGED <<phase, command, copy, distance, dictionary, remaining,
                                  trees, recent, out, status, ghost>>

SwitchType(kind) ==
  /\ kind \in NextKind /\ TypeDue(blocks[kind])
  /\ Reads(IsFree(trees.type))
  /\ \E symbol \in trees.type : Switch(kind, ReadType(blocks[kind], symbol))

SwitchLength(kind) ==
  /\ kind \in NextKind /\ SymbolDue(blocks[kind])
  /\ Reads(IsFree(DOMAIN LengthCodes))
  /\ \E symbol \in DOMAIN LengthCodes : Switch(kind, ReadSymbol(blocks[kind], symbol))

SwitchExtra(kind) ==
  /\ kind \in NextKind /\ ExtraDue(blocks[kind])
  /\ Reads(FALSE)
  /\ \E extra \in 0..(2 ^ LengthCodes[blocks[kind].symbol].bits - 1) :
       Switch(kind, ReadExtra(blocks[kind], extra))

Consumed(kind) == [blocks EXCEPT ![kind] = Consume(blocks[kind])]

-----------------------------------------------------------------------------
(* Commands and literals.                                                  *)

\* Phase::Command: the metablock ends here, or a command symbol is read.
EndAtCommand ==
  /\ At("Command") /\ remaining = 0
  /\ phase' = "Done"
  /\ UNCHANGED <<command, copy, distance, dictionary, blocks, remaining, trees,
                 recent, out, call, ghost>>

ReadCommand ==
  /\ Settled("command")
  /\ Reads(IsFree(trees.command))
  /\ \E symbol \in trees.command :
       command' = [state |-> "insert", insert |-> symbol.insert, insertBits |-> symbol.insertBits,
                   copy |-> symbol.copy, copyBits |-> symbol.copyBits,
                   implicit |-> symbol.implicit]
  /\ blocks' = Consumed("command")
  /\ phase' = "CommandExtra"
  /\ UNCHANGED <<copy, distance, dictionary, remaining, trees, recent, out, status, ghost>>

\* Phase::CommandExtra: the extra bits of the insert length, then the copy's.
InsertExtra ==
  /\ At("CommandExtra") /\ command.state = "insert"
  /\ Reads(command.insertBits = 0)
  /\ \E extra \in 0..(2 ^ command.insertBits - 1) :
       command' = [command EXCEPT !.state = "copy", !.insert = @ + extra, !.insertBits = 0]
  /\ UNCHANGED <<phase, copy, distance, dictionary, blocks, remaining, trees,
                 recent, out, status, ghost>>

CopyExtra ==
  /\ At("CommandExtra") /\ command.state = "copy"
  /\ Reads(command.copyBits = 0)
  /\ \E extra \in 0..(2 ^ command.copyBits - 1) :
       command' = [command EXCEPT !.state = "none", !.copy = @ + extra, !.copyBits = 0]
  /\ IF Fits(command.insert)
       THEN phase' = "Literals" /\ UNCHANGED status
       ELSE status' = "MetaBlockOverflow" /\ UNCHANGED phase
  /\ UNCHANGED <<copy, distance, dictionary, blocks, remaining, trees, recent, out, ghost>>

\* Phase::Literals: one literal into the output and the window.
ReadLiteral ==
  /\ Settled("literal")
  /\ Pays(IsFree(trees.literal))
  /\ \E literal \in trees.literal : /\ out' = Append(out, literal)
                                    /\ meaning' = Append(meaning, literal)
  /\ space' = space - 1
  /\ remaining' = remaining - 1
  /\ blocks' = Consumed("literal")
  /\ command' = [command EXCEPT !.insert = @ - 1]
  /\ UNCHANGED <<phase, copy, distance, dictionary, trees, recent, status, end, named, count>>

\* The insert is done: the metablock ends without the copy, or the distance is
\* the last one, or it has to be read. begin_copy is below.
EndAtLiterals ==
  /\ At("Literals") /\ command.insert = 0 /\ remaining = 0
  /\ phase' = "Done"
  /\ UNCHANGED <<command, copy, distance, dictionary, blocks, remaining, trees,
                 recent, out, call, ghost>>

ExplicitDistance ==
  /\ At("Literals") /\ command.insert = 0 /\ remaining # 0
  /\ ~ command.implicit
  /\ phase' = "Distance"
  /\ UNCHANGED <<command, copy, distance, dictionary, blocks, remaining, trees,
                 recent, out, call, ghost>>

-----------------------------------------------------------------------------
(* Dictionary references.                                                  *)

Address(value) == value - Reach - 1
WordIndex(value, length) == Address(value) % (2 ^ SizeBits[length])
TransformIndex(value, length) == Address(value) \div (2 ^ SizeBits[length])

HasWord(value, length) == /\ length \in DOMAIN SizeBits
                          /\ TransformIndex(value, length) < Len(Transforms)

\* transform_word. A letter is named by where it comes from: the word, the
\* transform applied to it, and its position in the result.
Word(value, length) ==
  LET t      == Transforms[TransformIndex(value, length) + 1]
      start  == Least(t.omitFirst, length)
      finish == length - Least(t.omitLast, length)
      kept   == IF start < finish THEN finish - start ELSE 0
  IN [i \in 1..(t.prefix + kept + t.suffix) |->
        <<length, WordIndex(value, length), TransformIndex(value, length), i>>]

-----------------------------------------------------------------------------
(* Distances, and what a distance begins.                                  *)

\* s followed by n bytes, each repeating the one d before it.
Overlap(s, d, n) ==
  IF d \in 1..Len(s)
    THEN s \o [i \in 1..n |-> s[Len(s) - d + 1 + ((i - 1) % d)]]
    ELSE s

Refuse(error) == status' = error /\ UNCHANGED <<phase, copy, dictionary, meaning, named>>

\* begin_copy: a dictionary word beyond the reach, an LZ77 copy within it.
BeginCopy(length, value, fresh) ==
  \/ /\ value > Reach /\ ~ HasWord(value, length)
     /\ Refuse("DictionaryError")
  \/ /\ value > Reach /\ HasWord(value, length)
     /\ IF ~ Fits(Len(Word(value, length)))
          THEN Refuse("MetaBlockOverflow")
          ELSE /\ dictionary' = [held |-> TRUE, bytes |-> Word(value, length), offset |-> 0]
               /\ phase' = "Dictionary"
               /\ meaning' = meaning \o Word(value, length)
               /\ UNCHANGED <<copy, named, status>>
  \/ /\ value <= Reach
     /\ IF ~ Fits(length)
          THEN Refuse("MetaBlockOverflow")
          ELSE /\ copy' = [left |-> length, distance |-> value]
               /\ phase' = "Copy"
               /\ meaning' = Overlap(meaning, value, length)
               /\ named' = IF fresh THEN Append(named, value) ELSE named
               /\ UNCHANGED <<dictionary, status>>

ImplicitDistance ==
  /\ At("Literals") /\ command.insert = 0 /\ remaining # 0
  /\ command.implicit
  /\ BeginCopy(command.copy, recent[1], FALSE)
  /\ UNCHANGED <<command, distance, blocks, remaining, trees, recent, out, fed, space, end, count>>

ReadDistance ==
  /\ Settled("distance")
  /\ Reads(IsFree(trees.distance))
  /\ blocks' = Consumed("distance")
  /\ \E symbol \in trees.distance :
       IF InvalidShort(recent, symbol)
         THEN status' = "DistanceError" /\ UNCHANGED <<phase, distance>>
         ELSE /\ distance' = NewDistance(recent, symbol, Postfix, Direct)
              /\ phase' = "DistanceExtra" /\ UNCHANGED status
  /\ UNCHANGED <<command, copy, dictionary, remaining, trees, recent, out, ghost>>

\* Bound: of the extra bits only the two ends of their range.
ExtraEnds(bits) == {0, 2 ^ bits - 1}

RememberWords(value, isLz77) ==   \* mutant: dictionary references count
  IF distance.push THEN Pushed(recent, value) ELSE recent

\* should_push && is_lz77
Remember(value, isLz77) ==
  IF distance.push /\ isLz77 THEN Pushed(recent, value) ELSE recent

\* Phase::DistanceExtra: the extra bits, begin_copy, and the push.
DistanceExtra ==
  /\ At("DistanceExtra")
  /\ Reads(distance.state = "resolved")
  /\ \E extra \in ExtraEnds(distance.bits) :
       LET value == Resolve(distance, extra, Postfix) IN
       /\ BeginCopy(command.copy, value, distance.symbol # 0)
       /\ recent' = Remember(value, phase' = "Copy")
  /\ distance' = NoDistance
  /\ UNCHANGED <<command, blocks, remaining, trees, out, end, count>>

-----------------------------------------------------------------------------
(* Copies and dictionary words into the output, as far as there is room.   *)

Produce(bytes) == /\ out' = out \o bytes
                  /\ space' = space - Len(bytes)
                  /\ remaining' = remaining - Len(bytes)

EndCopy ==
  /\ At("Copy") /\ copy.left = 0
  /\ phase' = "Command"
  /\ UNCHANGED <<command, copy, distance, dictionary, blocks, remaining, trees,
                 recent, out, call, ghost>>

\* History::copy_into refuses a distance of 0 or beyond the reach.
CopyTurn ==
  LET n == Least(copy.left, space) IN
  /\ At("Copy") /\ copy.left # 0 /\ space # 0
  /\ IF copy.distance \in 1..Reach
       THEN /\ Produce(SubSeq(Overlap(out, copy.distance, n), Len(out) + 1, Len(out) + n))
            /\ copy' = [copy EXCEPT !.left = @ - n]
            /\ UNCHANGED status
       ELSE /\ status' = "HistoryError"
            /\ UNCHANGED <<out, space, remaining, copy>>
  /\ UNCHANGED <<phase, command, distance, dictionary, blocks, trees, recent, fed, ghost>>

DictionaryRestarts ==   \* mutant: the offset is set, not advanced
  LET n == Least(Len(dictionary.bytes) - dictionary.offset, space) IN
  /\ At("Dictionary") /\ space # 0
  /\ Produce(SubSeq(dictionary.bytes, dictionary.offset + 1, dictionary.offset + n))
  /\ IF dictionary.offset + n = Len(dictionary.bytes)
       THEN dictionary' = NoDictionary /\ phase' = "Command"
       ELSE dictionary' = [dictionary EXCEPT !.offset = n] /\ UNCHANGED phase
  /\ UNCHANGED <<command, copy, distance, blocks, trees, recent, status, fed, ghost>>

DictionaryIdles ==   \* mutant: an empty word is never drained
  LET n == Least(Len(dictionary.bytes) - dictionary.offset, space) IN
  /\ At("Dictionary") /\ space # 0
  /\ Produce(SubSeq(dictionary.bytes, dictionary.offset + 1, dictionary.offset + n))
  /\ IF n > 0 /\ dictionary.offset + n = Len(dictionary.bytes)
       THEN dictionary' = NoDictionary /\ phase' = "Command"
       ELSE dictionary' = [dictionary EXCEPT !.offset = @ + n] /\ UNCHANGED phase
  /\ UNCHANGED <<command, copy, distance, blocks, trees, recent, status, fed, ghost>>

DictionaryTurn ==
  LET n == Least(Len(dictionary.bytes) - dictionary.offset, space) IN
  /\ At("Dictionary") /\ space # 0
  /\ Produce(SubSeq(dictionary.bytes, dictionary.offset + 1, dictionary.offset + n))
  /\ IF dictionary.offset + n = Len(dictionary.bytes)
       THEN dictionary' = NoDictionary /\ phase' = "Command"
       ELSE dictionary' = [dictionary EXCEPT !.offset = @ + n] /\ UNCHANGED phase
  /\ UNCHANGED <<command, copy, distance, blocks, trees, recent, status, fed, ghost>>

-----------------------------------------------------------------------------
(* Returns.                                                                *)

NeedInput ==
  /\ \/ \E kind \in NextKind :
          \/ TypeDue(blocks[kind]) /\ Starves(IsFree(trees.type))
          \/ SymbolDue(blocks[kind]) /\ Starves(IsFree(DOMAIN LengthCodes))
          \/ ExtraDue(blocks[kind]) /\ Starves(FALSE)
          \/ Settled(kind) /\ Starves(IsFree(trees[kind]))
     \/ At("CommandExtra") /\ command.state = "insert" /\ Starves(command.insertBits = 0)
     \/ At("CommandExtra") /\ command.state = "copy" /\ Starves(command.copyBits = 0)
     \/ At("DistanceExtra") /\ Starves(distance.state = "resolved")
  /\ Return("NeedInput")

OutputFullAtEnd == /\ space = 0   \* mutant: asked for before it is known to be owed
                   /\ \/ At("Literals")
                      \/ At("Copy")
                      \/ At("Dictionary")

OutputFull == /\ space = 0
              /\ \/ At("Literals") /\ command.insert # 0
                 \/ At("Copy") /\ copy.left # 0
                 \/ At("Dictionary")

NeedOutput == OutputFull /\ Return("NeedOutput")

Done == At("Done") /\ Return("Done")

-----------------------------------------------------------------------------

Turn == \/ \E kind \in Kinds : SwitchType(kind) \/ SwitchLength(kind) \/ SwitchExtra(kind)
        \/ EndAtCommand \/ ReadCommand \/ InsertExtra \/ CopyExtra
        \/ ReadLiteral \/ EndAtLiterals \/ ImplicitDistance \/ ExplicitDistance
        \/ ReadDistance \/ DistanceExtra
        \/ EndCopy \/ CopyTurn \/ DictionaryTurn
        \/ NeedInput \/ NeedOutput \/ Done

-----------------------------------------------------------------------------
(* Correctness. *)

Statuses == {"run", "NeedInput", "NeedOutput", "Done", "MetaBlockOverflow",
             "DistanceError", "DictionaryError", "HistoryError", "Header", "Trees"}
Phases == {"Command", "CommandExtra", "Literals", "Distance", "DistanceExtra", "Copy",
           "Dictionary", "Done"}

\* The decoders and the word that process() expects to find in a phase are
\* there, and nowhere else.
TypeOK ==
  /\ phase \in Phases /\ status \in Statuses
  /\ fed \in 0..MaxReads /\ space \in 0..MaxSpace
  /\ remaining \in Nat /\ command.insert \in Nat /\ command.copy \in Nat
  /\ copy.left \in Nat
  /\ recent \in [1..4 -> Nat]
  /\ status \in {"run", "NeedInput", "NeedOutput", "Done"} =>
       /\ phase = "CommandExtra" <=> command.state # "none"
       /\ phase = "DistanceExtra" <=> distance.state # "none"
       /\ phase = "Dictionary" <=> dictionary.held

\* The metablock is filled exactly: what it still owes is what its header
\* announced less what was produced, no command ever promises more than that,
\* and Done comes when nothing is owed (remaining, the three overflow checks).
MetaBlockFilled ==
  /\ Len(out) + remaining = end
  /\ phase = "Literals" => command.insert <= remaining
  /\ Len(meaning) <= end
  /\ phase = "Done" => Len(out) = end

\* What is in the output is what the commands decoded so far mean, up to the
\* copy or the word that is still being put out: however the calls were cut,
\* nothing is lost, repeated or out of order (Phase::Copy, Phase::Dictionary).
OutputIsMeaning ==
  LET rest == CASE phase = "Copy" -> copy.left
                [] phase = "Dictionary" -> Len(dictionary.bytes) - dictionary.offset
                [] OTHER -> 0
  IN /\ Len(meaning) = Len(out) + rest
     /\ out = SubSeq(meaning, 1, Len(out))

\* The four recent distances are those of the last LZ77 copies that were named
\* other than as the last distance, whatever dictionary words, implicit
\* distances and metablock ends came between (RecentDistances::push).
RecentIsLz77 ==
  LET all == <<16, 15, 11, 4>> \o named
  IN \A i \in 1..4 : recent[i] = all[Len(all) + 1 - i]

\* Every call returns: no sequence of codes without bits, of commands that
\* produce nothing and of empty dictionary words keeps process() in its loop.
CallsReturn == status = "run" ~> status # "run"
=============================================================================
