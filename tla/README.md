# A TLA+ model of brutli

brutli is a Brotli (RFC 7932) decoder and encoder in safe-by-default Rust. It
is sequential and keeps nothing on disk: what makes it hard is that every part
of it is a *resumable* state machine. A caller hands over slices of any size;
the decoder may run out of input in the middle of a bit field, or out of output
in the middle of a copy, at every one of its states, and has to go on in the
next call as if nothing had happened (`DESIGN.md`: "The state machine must be
resumable at any point where input or output is exhausted."). The model is
about that, about the window copies read from, and about the promises that the
layers make to one another (what `NeedInput`, `NeedOutput` and `Done` mean).

`PROJECT.json` holds the map from definitions to source lines, the runs, the
mutants that show each property can be broken, the hazards and the theorems.

## Inventory

| Component | Source | State | Operations | Module |
|---|---|---|---|---|
| Sliding window | `decode/history.rs` | ring buffer, write index, bytes available, last two bytes | `push`, `push_slice`, `copy_into` | `History`, `HistoryWindow` |
| Block switches | `decode/block_state.rs`, `block_partition.rs` | type, previous types, remaining length, switch pending, length symbol | `current`, `consume` | `BlockState`, `BlockSwitch` |
| Compressed block | `decode/compressed_block.rs`, `command.rs`, `distance.rs`, `dictionary.rs` | phase and payload, command, recent distances, dictionary output, bytes owed | `process`, `begin_copy` | `CompressedBlock` |
| Bit reader | `decode/bit_reader.rs` | staged bits | `read_bits`, `align_to_byte_with_zero_fill` | `BitReader` |
| Headers | `decode/stream_header.rs`, `metablock_header.rs` | state, digit index, value | `decode`, `finish` | `MetaBlockHeader` |
| Compressed metablock | `decode/compressed_metablock.rs` | state, announced length | `process` | `CompressedMetaBlock`, `MetaBlockBody` |
| Decoder | `decode/decoder.rs`, `decode/mod.rs`, `lib.rs` | phase, window checked, limit, total, error | `process`, `finish` | `StreamDecoder` |
| One-shot decoder | `lib.rs` `decompress` | input offset, finishing | one call | `Decompress` |
| Reader adapter | `reader.rs` | `done`, the source | `read` | `DecoderReader` |
| Streaming encoder | `encode/stream.rs`, `greedy.rs` | window, frontier, started, finished, queued bits | `process`, `finish` | `StreamEncoder` |
| Header and trees of a metablock | `decode/compressed_header.rs`, `compressed_trees.rs`, `tree_group.rs`, `var_len_uint8.rs` | partitions, parameters, modes, maps, trees | `decode` | `CompressedHeader` |
| Context maps | `decode/context_map.rs`, writers in `encode/greedy/block_split.rs` | partial map, run length | `decode`, `write_context_map`, ... | `ContextMap` |
| Prefix codes | `decode/prefix_code*.rs`, `simple_*`, `complex_*`, `encode/prefix_code.rs` | code lengths, space, repeat; bits of a symbol | `decode`, `from_frequencies`, `write_tree`, `write_symbol` | `PrefixSymbol`, `CodeLengths`, `EncoderCodes`, `PrefixCode` |
| Bit writer | `encode/bit_writer.rs` | bytes, pending word, bits used | `write_bits`, `append_writer`, `drain_bytes`, ... | `BitWriter` |
| Match finder | `encode/match_finder.rs` | buckets and counts, the parse's position | `parse_chunk`, `compact` | `MatchFinder` |
| Greedy encoder | `encode/greedy.rs`, `command.rs`, `distance.rs`, `mod.rs`, and the decoder's `command.rs`, `distance.rs` | parse, ring and snapshot, the metablock written; the decoder's command and ring | `parse_chunk`, `emit_chunk`, one-shot forms | `GreedyWriter`, `CommandCodes`, `DistanceNames`, `DistanceCodes` |
| Block splitter | `encode/greedy/block_split.rs` | split, histograms, the last two; cursor | `add_symbol`, `finish`, `before_symbol` | `BlockSplitter` |
| Fragment encoder | `encode/fragment.rs` | hash table, parse, ring and snapshot | `compress_fragment` and below | `FragmentEncoder`, `InputBytes` |
| Binary-tree matcher | `encode/hash_tree.rs` | buckets, forest | `store`, `store_range`, `find_all_matches` | `HashTree`, `InputBytes` |

How they interact: `lib.rs` cuts the output slice to the limit and calls the
core; the core checks the window on the first byte and runs the phases; a phase
hands the same reader, input cursor and history to the header decoders, to the
compressed metablock, or copies stored bytes past the bit reader; the compressed
metablock owns a block whose three `BlockState`s share the reader and which
reads from and writes to the history. `DecoderReader` and `decompress` are
loops over the public calls. The encoder has no part in common with the
decoder, except the format: its distance ring, block types, code lengths,
context maps and header must be what the decoder will keep or read. So each of
these modules holds both sides, the encoder's and the decoder's, and says that
they agree, and next to it what the decoder makes of a stream that no encoder
wrote.

What makes each component correct: the window holds the bytes its distances
name; a block's symbols are decoded under its type; a metablock is filled
exactly and its copies are the commands'; a call returns with a status that is
true of what is left; a reader loses nothing of a source that fails; the encoder
cuts its input the same way however it is fed, ends the stream once and keeps
the reachable window; and what it writes is read back as it was meant. The
hazards in `PROJECT.json` name the lines where each of these could go wrong.

## Modules

### History, HistoryWindow, HistoryProofs

`HistoryWindow` is the promise: a stream of all the bytes ever stored, a copy
appends the bytes `distance` back, repeated if need be, and distance is refused
outside `1..min(stored, window)`. `History` is the code: a `Vec` that grows to
the ring size and then wraps, a write index kept with a mask, `push_slice`'s
loop turn by turn (`Grow`, `Wrap`), `copy_into`'s prefix from the ring in one or
two pieces (`HistoryPrefix`) and its doubling loop (`Double`). A slot not yet
written is `Unset`. `out` is a history variable, the bytes stored.
The run uses a ring of four slots of which one is reserved (the code: 2^16 to
2^24, and 16), slices up to five bytes so that one wraps past itself, and eight
bytes in all, so that the ring is overwritten whole.

### BlockState, BlockSwitch, BlockSplitter, GreedyProofs

`BlockState` has the operators of one block state as functions on a record, for
use by `CompressedBlock`; `BlockSwitch` the little system around one: symbols and
switch commands, cut at any read. `codes` and `switches` are history variables.
`BlockSplitter` extends it with the encoder's side: the splitter as symbols pass
through it, block by block, where `FirstBlock`, `NewType`, `ReturnToSecondLast`
and `GrowLast` are the branches of `finish_block`; then the symbols are written
under the cursor, and the decoder's block state reads them back from the switch
commands alone. Entropies are estimates, so which branch is taken is a choice,
except where the code's choice is forced because two entropies are of the same
counts. A stream of unknown origin has any switch commands.

Blocks have two symbols and more instead of 512, types are capped at three
instead of 256, and there are up to nine symbols, so that types come back, the
cap is met, blocks grow and the last is padded. Three types are the least number
for which the relative codes (0: the type before the last, 1: the next type,
modulo) differ from each other. The length code has three symbols of one to three
extra bits. A stream of unknown origin has up to three switches.

### CompressedBlock

One action per phase of `CompressedBlock::process` and outcome. Bytes of
literals are `a` and `b`; a distance beyond the reach is a dictionary address,
decoded with the real arithmetic over a scaled dictionary whose words include an
empty result. Prefix codes are the bits they take: a code of one symbol takes
none, so that loops without input exist. A read either has its bits or starves,
whatever the call was fed; room is counted byte by byte. `meaning` is a history
variable: what the commands decoded so far mean by the format's definition, to
compare with what went out, and `named` another: the distances of the LZ77 copies
begun, those named as the last left out. Metablocks follow one another, keeping
history and recent distances.

### MetaBlockBody, CompressedMetaBlock, CompressedMetaBlockProofs

`CompressedMetaBlock` is the decoder of one metablock after another: header,
trees, data, with the hand-overs between them (`EndHeader`, `EndTrees`), cut at
any read. It extends `CompressedBlock`, whose phases are its data; the fields of
header and trees are reads here, any number of them, and `CompressedHeader` has
what they mean. `MetaBlockBody` is the promise made to the decoder core: puts out
only what is owed and has room, says `NeedOutput` only without room and with bytes
owed, `NeedInput` only with bytes owed, `Done` only when nothing is owed, and
fails with errors of the stream only. `BodySpec` is the refinement. The run
decodes two metablocks with windows, dictionary words and recent distances
carried over.

### BitReader, MetaBlockHeader, StreamDecoder, DecoderProofs

`BitReader` counts staged bits and bytes of the call's input (a bit's value is
chosen when it is read, and reads of up to 12 bits need two bytes).
`MetaBlockHeader` has a turn for every state of the header decoder; digits of
lengths have one bit and widths 1, 2, 3 instead of 4, 5, 6, which keeps the rule
on leading zeros. `StreamDecoder` is `Decoder::process` with the checks around
it: `Begin` is the entry of a call (sticky error, limit, window check on the
first byte of the stream), each turn of its loop an action, `Return` is what
`advance` makes of the core's result. The body of a compressed metablock is
abstract here: its steps are those of `MetaBlockBody`, taken with
`Body == INSTANCE MetaBlockBody`, the same module that `CompressedMetaBlock` is
shown to implement, so that nothing is assumed of the body that is not checked.

### DecoderReader, Decompress, DecoderProofs

Both extend `StreamDecoder` and call its `Process` and `Finish`: `read()`'s loop
of `fill_buf`, decode and `consume` over a source that gives any part of its
bytes, fails between, and ends; `decompress`'s loop with its offset and fresh
buffers, where a trailing byte is an error. `MCDecoderCallers` runs them over one
decoder, a behaviour being of one caller or the other; `CallersTold` is
`ReadMeans /\ VerdictMeans`, the two promises.

### StreamEncoder, StreamEncoderProofs

`process` fills the window to one byte past the cap and emits; `finish` ends the
stream in one of four ways; `drain` hands out whole bytes. Input bytes are
positions, what a chunk encodes to is any of two numbers of bits, and `chunks` is
a history variable: what range of the input each metablock stands for and
whether it is the last. The greedy path stores a chunk or compresses it, and a
stored last chunk is followed by an empty metablock. Cap four instead of 2^24;
windows of two and four bytes with one reserved instead of 16, up to ten bytes
of input, so that streams end below, at and past the cap and twice past it, and
compaction happens at several frontiers.

### BitWriter

The writer's bytes and its pending word: writes within the word, that fill it and
that cross its end (with values of more bits than are asked for, which the code
masks), prefix codes reversed, a scratch writer appended at any bit, bytes drained
while bits wait, and bytes written after alignment. `bitsOf` is a history
variable, the bits written, which `BitsKept` compares with what was drained and
what waits. A power of two is a function (`TwoTo`), so that the proofs of
`WriterProofs` may count through its exponents. The word is of three bytes of two bits instead of eight of eight;
writes of one, four and six bits, up to fourteen bits, so that the word is filled
exactly, crossed, and crossed twice.

### PrefixCode, EncoderCodes, CodeLengths, PrefixSymbol

`PrefixCode` has the operators of canonical codes on both sides. `EncoderCodes`
has the encoder's construction: leaves in order of their counts, the two queues it
takes the smallest from, the depths, and the count limit that doubles until no
depth passes the maximum; next to it the reference, the least any complete code
could cost, which `BuiltIsBest` compares it with. It also has what the encoder
writes for a sequence of code lengths (repeats in digits, the two counts it writes differently, which lengths of the
code of lengths it stores). `CodeLengths` is the decoder of simple and complex
codes with its repeats and its code space. `PrefixSymbol` extends it: once the
code is read its decoder is dropped and symbols are decoded with it, bit by bit,
their bits kept from one call to the next. So the run compares, end to end, the
code the encoder built, the symbols it wrote with it, and the code the decoder
reads them with.

Codes come from counts: of five symbols in every order, of five and six with
ties, and so far apart that limits have to be raised once or more; all codes of
up to four symbols in alphabets of one, three, five and eight; and codes of five
to eight symbols among up to some forty, in runs. Of streams that no encoder
wrote every value is possible over alphabets of one, three and seven. Codes have
at most three bits instead of fifteen, alphabets of more than eight symbols are
written with repeats instead of more than fifty, and two symbols are decoded.

### ContextMap, CompressedHeader, CompressedHeaderProofs

`ContextMap` has both of the encoder's writers of a context map and the decoder's
states with the inverse move-to-front.
`CompressedHeader` extends it: what is read before the commands of a metablock, a
field at a time; a field is a run of bits, a prefix code, a block length or a
context map, which is read by a decoder made for it and dropped when it is whole,
as in the code. The encoder's side is the sequence of fields that `write_split`
and `write_single` write. `Due` is the field the decoder reads next, by its
state; counts are read as `VarLenUint8Decoder` does.

Alphabets are the real ones, as are the four contexts of distances; there are
eight contexts of literals instead of 64, and the length symbols of runs are
scaled with them, so that runs are cut. The plans cover one to five literal, 256
command and nine distance types, every map of eight entries to two contexts and
many to three, under one literal type and two, and the encoder's three pairs of
distance parameters. For fields of unknown origin counts stay below five, maps
have four entries over any trees or eight over two, and every postfix is tried.

### MatchFinder, GreedyProofs

`parse_chunk` over the chunks of a stream: searches, matches put off, stores of
the positions a copy covers, the skips after a run of literals, and `compact`
between chunks. The hash key of a position, what a scan finds and which match
scores best are choices; what it stores, reads and emits is not. `stored` and
`decoded` are history variables. The count of a bucket wraps at four instead of
2^16 over two slots instead of sixteen, hashes take two bytes instead of four,
strides are two and three, and ten bytes in chunks of up to seven with a reach of
four make compactions before and after a wrap.

### CommandCodes, DistanceCodes, DistanceNames, GreedyWriter, WriterProofs

`CommandCodes` has the real tables of insert and copy lengths with the encoder's
`LengthCode` and `Combined` and the decoder's reading of a symbol;
`DistanceNames` is the encoder's choice of a distance's name, `DistanceCodes` the
decoder's resolution, shared with `CompressedBlock`. `GreedyWriter` parses a
chunk ahead with the encoder's ring, then writes it as a metablock of commands,
literals and distances with extra bits, or stores it and takes the ring back to
the snapshot; or the whole input goes out without a parse (`WholeLiterals`,
`WholePeriodic`). The decoder reads the items: lengths by nibbles, commands whose
distance is implied by the symbol, the tail without a copy, dictionary words,
the ring.

Lengths of bytes are real numbers: every pair of insert and copy codes at the
least lengths, each code at its greatest, and lengths about the most that four
and five nibbles write. Distances cover each of the sixteen names by the ring,
copies and dictionary addresses, direct codes and postfix bits. There are up to
three commands in chunks of two; one with a boundary length, or about one of the
sixteen names, is the only one.

### InputBytes, FragmentEncoder, FragmentProofs, HashTree

`InputBytes` is what both matchers do with bytes, which are real here: words of
small alphabets. `FragmentEncoder` is qualities 0 and 1: the table filled by
probes and by the interior of copies, strides that grow with failures, the chain
of copies without literals, the last distance kept or not, metablocks that merge
or do not, the distances named by a ring, stored metablocks that restore it, and a
decoder that writes the output again. `HashTree` walks a tree node by node while
it re-roots it; its callers look up or store any range in order.
`MCMatchers` runs each over inputs of its own.

Fragments have 24 bytes instead of 2^16 and more with a gap of seven, metablocks
of 12 to 20, hashes of four, five and six bytes that tell all words or none apart;
streams are of a fragment of six words in every order and one that repeats
itself. Trees compare three bytes instead of 128, over every input of ten binary
bytes after a first one, with a reach of six, so that nodes are replaced,
forgotten by the window, and cut by a depth of four.

## Runs, and what they show

| Run | States | Shows |
|---|---|---|
| `history` | 80,049 | `IInv`: every slot holds the byte its position implies, a copy reaches exactly what the window has, the context bytes are the last two, a copy's filled part repeats the window, in the middle of a call too; `WindowSpec`: the ring implements the window; `CallsReturn` |
| `compressed_metablock` | 376,089 | `OutputIsMeaning`: the output is what the commands mean; the metablock is filled exactly (`MetaBlockFilled`); the recent distances are those of LZ77 copies (`RecentIsLz77`); `BodySpec`: header, trees and data together keep the promise the decoder core relies on, and a copy accepted is never refused later; every call returns |
| `stream_decoder` | 619,933 | `BytesOwned`: no byte is staged when raw bytes begin or the stream ends; `LimitHonoured`; `StatusMeans`; `LengthIsMinimal`; `DoneIsFinal`; every call returns |
| `decoder_callers` | 660,558 | `CallersTold`: the two "no progress" errors of a read are unreachable and an empty read is the end, `decompress` succeeds with the whole stream and no more, says `TrailingData` of trailing bytes only, and its checks of the decoder never fire; `NothingLost` when the source fails; `SourceLeftAlone`; `CallersReturn` |
| `stream_encoder` | 13,611 | `WindowFits`: no underflow, the tail after the greedy loop is never needed, memory is bounded and reachable history kept; `ChunksAsOneShot`: the cuts are the one-shot encoder's however input is fed; `TerminatedOnce`; `StatusMeans`; calls return |
| `prefix_codes` | 245,142 | `BuiltIsBest`: the Huffman code is complete, within the maximum, and as short as any unless counts were raised; `WrittenIsRead`: a code as written is read back, all of the stream; `BuiltIsComplete`: the space kept is what the lengths leave, and no code built can be refused later; `SymbolsDecode`: a symbol decoded is the one whose bits the encoder would write, and no bits lead past the longest code; `BitsKept`: the bit writer loses, doubles and moves nothing |
| `compressed_header` | 965,835 | `PartsFit`: each part as written is the part the decoder reads, to the last; modes, maps and trees of any block begun fit one another; `MapIsWhole`: a map as written is read back; any map made is whole and names trees there are |
| `match_finder` | 461,636 | `UnsafeReadsHold`: a slot a scan may read was written and names the position stored there, through wraps and compactions, and no hash reads past the chunk; `CommandsDecode`: the decoder of the commands is where the parse is, with the same reach |
| `greedy_writer` | 564,428 | `DecoderFollows`: the decoder reads every command's lengths and distance as they were meant, at the same place, ends metablocks and stream where the encoder does, and has the same ring when a chunk begins |
| `block_splitter` | 642,935 | `SymbolsHaveCodes`: every symbol is written under a tree that counted it, every switch has a code, and the decoder names the same tree; `SymbolsFollowSwitches`: a symbol is decoded under the type and within the length of its block, wherever input ran out, in any stream; `TypesMeanCodes`: a type code means what the previous types make it mean |
| `matchers` | 977,167 | `FragmentDecodes`: whichever metablocks merge and are stored, the decoder writes the stream again, with the encoder's ring; `FragmentReadsFit`: the margins keep every hash and copy inside; `TreesSorted`: the trees stay sorted through replacing, pruning and forgetting; `MatchesAreBest`: matches are true, maximal, and the best the trees hold |
| `encoder_done` | violation | `process()` says `Done` with bytes still queued (below) |

**Fairness.** Weak fairness of the loop of a call only (`Turn`, `ReaderLoop`,
or the whole of `decompress`, which is one loop): the code is a sequential
function that runs until it returns. Nothing obliges a caller to call again, so
no property says that a stream ends; `CallersReturn` does not assume that the
source fails or succeeds, only that it answers. Deadlock is not checked where a
caller may stop, where the bound on produced bytes is reached, or where
`decompress` has returned.

**Bounds.** Each is a constant marked "bound" where it is declared and appears
in a guard of the caller, never in the code's own steps: a call once made runs
as in the code. They are small because the hard cases are boundaries: a ring
overwritten, a slice that wraps, a read over a byte, room for less than a copy,
a limit met exactly, a chunk that ends at the cap and one byte past it. All are
reached, which the mutants witness: each property has a mutation of the code
under which the same run finds it violated.

## The disagreement found

`Encoder::process`, after a `finish` that returned `NeedOutput`, overwrites the
status with `Done` (`encode/stream.rs:81-85`): with a short slice it drains what
fits and reports `Done` while encoded bytes are still queued. The README says
`Encoder` has "the same bounded-output model as `Decoder`", whose `Done` comes
after the last byte; the public comment of `NeedOutput` promises it while
encoded bytes are left, and that of `process` says to "call again" to drain. The
comment of the inner function does name the `Done` for a terminated stream, and
`finish()`, which the public documentation says to call again, drains the rest;
the run `encoder_done` shows the four steps. `StatusMeans` shows that the same
statement holds of `finish()`.

## Proofs

Each proof module has an inductive invariant for each specification, checked by
TLC on the run's instance before it was proved (where it is not one that only
says that a function exists, as `FragmentInv` and `WriterInv` do of their marks), a lemma for each
action, and the properties as corollaries. The bounds of the runs (`MaxOut`, `MaxGiven`, `MaxInput` and the
like) are arbitrary numbers in the proofs and only restrict the calls. The
assumptions are the named `ASSUME`s of the modules: what the code's tables and
constants satisfy, and no more.

| Module | Theorem | Property |
|---|---|---|
| `HistoryProofs` | `Invariance`, and its parts `TypeCorrect`, `RingCorrect`, `ReachCorrect`, `ContextCorrect`, `CopyCorrect` | `IInv` |
| | `HistoryImplementsWindow` | `WindowSpec` (refinement) |
| `CompressedMetaBlockProofs` | `FilledExactly`, `MeansItsCommands`, `RingIsLz77` | `MetaBlockFilled`, `OutputIsMeaning`, `RecentIsLz77` |
| | `KeepsPromise` | `BodySpec` (refinement) |
| `GreedyProofs` | `SwitchesFollowed`, `CodesMeanTypes` (of any stream) | `SymbolsFollowSwitches`, `TypesMeanCodes` |
| | `SymbolsWritten`, `SwitchesWritten` (of the splitter's) | `SymbolsHaveCodes`, `SymbolsFollowSwitches`, `TypesMeanCodes` |
| | `ReadsAreSafe`, `CommandsAreDecoded` (of the match finder) | `UnsafeReadsHold`, `CommandsDecode` |
| `DecoderProofs` | `ReaderOwnsItsBytes`, `LimitIsHonoured`, `StatusIsTrue`, `LengthsAreMinimal`, `StaysDone` | `BytesOwned`, `LimitHonoured`, `StatusMeans`, `LengthIsMinimal`, `DoneIsFinal` (action) |
| | `ReadsLoseNothing`, `SourceIsLeftAlone`, `ReadsMeanWhatTheyReturn`, `VerdictIsTrue`, `CallersAreTold` | `NothingLost`, `SourceLeftAlone` (action), `CallersTold` and its two halves |
| `StreamEncoderProofs` | `WindowIsKept`, `CutAsOneShot`, `EndsOnce`, `StatusIsTrue` | `WindowFits`, `ChunksAsOneShot`, `TerminatedOnce`, `StatusMeans` |
| `FragmentProofs` | `MarginsHold`, `FragmentsDecode` | `FragmentReadsFit`, `FragmentDecodes` |
| `WriterProofs` | `CommandsAreRead` (of the greedy writer), `NoBitIsLost` (of the bit writer) | `DecoderFollows`, `BitsKept` |
| `CompressedHeaderProofs` | `MapsAreWhole`, `PartsAreFit` | `MapIsWhole`, `PartsFit` |

**History.** For every ring size that is a power of two (stated by what masking
does: `SizeAssumption` and the lemmas on `Mask`), every reserve below it and every
alphabet. `RingHoldsWindow` alone is not inductive, because within `push_slice`
the write index and the reach already count bytes not yet stored. `IInv` joins to
it the type invariant, what a call in progress has stored and has yet to store
(`CallInProgress`), and for a copy that the filled part of the output is the
repeated window (`FilledRepeats`); the rest are a few facts on `%` (`ModPlus`,
`ModMinus`, `DivMod`) and on runs of stores (`StoreRun`).

**Compressed metablock.** For any trees, window, dictionary, transforms and
distance parameters the format allows. That the output is the commands' meaning
says nothing of a copy half done: `RestFollows` says that what is meant and not
out is the rest of that copy or word, and is kept because a copy may be cut
anywhere, the rest of it being a copy by the same distance from where it stopped
(`OverlapSplits`). It needs a copy's distance to stay within the reach while the
window moves (`DistancesReach`), and what has begun to fit in the bytes owed
(`OwedSuffices`), which is what refuses an overlong command before a byte goes
out; `Records` are the types, dictionary addresses included, by which a word is
never longer than its bytes. The ring of recent distances is a matter of its own:
its four slots are the last four of the default ring and `named` (`LastFour`), and
a push keeps that (`PushFollows`), given that a distance is pushed unless it was
named as the last (`PushIsNew`). `KeepsPromise` maps each step of header, trees and
data to a step of `MetaBlockBody` or to none: a copy accepted is never refused
later, which is where `DistancesReach` comes in again. What is proved of
`StreamDecoder`, built on `MetaBlockBody`'s actions, so holds of a body that the code
is proved to keep to.

**Block switches.** For any number of types and any length code. Between a
switch's type and its length the memory of the last two types is one switch
ahead of the current block: `MemoryHolds` says which of the two it is, so that a
call that resumes there cannot read the type again.

**Block splitter.** For any symbols, least block, cap on the types, number of
symbols and length code, of which `CodesAssumption` asks that just one symbol
covers each length a block may have. Three things go by the same blocks: the
counts, the cursor and the decoder. `SplitIInv` says that there are ends of
blocks (`Ends`, the sums of the lengths) by which each is where it should be: a
symbol passed is counted for its block's type (`Counts`) or, if its block is in
progress, for the next (`Splitting`); the blocks cover the symbols and one least
block more at most (`Split`), which is why a cursor at the end of a block with
symbols to write finds another (`BlockLeft`), and why every length has a code; and
the cursor owes what is left of its block (`CursorPlaced`). The last two histograms
are those of the last two types (`LastTwo`), so that a block which joins one is
counted under the type it is given; no more types are made than there are whole
blocks, so there is always a histogram to clear (`HistogramLeft`). `Reading` says
how far the decoder is behind the cursor, by what is still to be read of a switch,
with the calculator's two types for its memory.

**Decoder.** For digits of any width up to the nibbles and bytes of the code, in
a byte of at least three bits (the widest read of a window size, so that every
read of a header fits in a byte), any reads of a body, and any limit. Of a
call: what it was given and has taken, its room and what it has put out make up
what the caller offered (`CallBalance`), by which the limit of one call becomes
the limit of all; an error sticks and none follows completion (`ErrorSticks`);
until the window was checked nothing was read (`NothingUnchecked`), which the
first call's early returns rest on; and a read's staged bytes are its own
(`ReadsInPlace`).

**Callers.** Each invariant is joined to the decoder's. `InCall` says what the
reader knows of the decoder between its own steps and `DeliveredSoFar` that bytes
put out by a call in progress are not delivered yet, without which a failing
source could hide them; `CallsAddUp` is the same of `decompress`'s offset and
output. `CallersAreTold` is for a behaviour that is one caller's or the other's,
as in the run.

**Encoder.** For every cap, window below it, reserve and sizes of what is written.
What waits is bounded by a chunk also while `finish` goes on (`PendingBounded`),
the input is in the window, dropped or to come (`InputKept`), chunks end at the
frontier and are whole until the last (`CutSoFar`), and of the history as much is
kept as a distance reaches (`HistoryKept`).

**Match finder.** For every number of slots, every wrap of the counts that is a
multiple of it, any hash length, strides, depth and reach. A slot is true only
behind its count, so that after a wrap there is less to show and what compaction
skips is never read: `SlotsHold` is kept by a store because two indices less than
a bucket apart are different slots (`SlotsDiffer`), and by compaction because its
loop covers exactly the slots behind the count (`SlotReached`, `SlotWithin`), all
of which were written, as the code's own `assume_init` there needs. Stores never
go back (`Onwards`), and are in the chunk with their bytes (`RangeFits`); the
literals pending lie between the last command and the position, and what
compaction keeps is all of the reach (`InChunk`).

**Fragment encoder.** For every stream of bytes, window of up to 2^24, gap, hash
of four to six bytes, cap on distances, stride and size of metablocks.
`FragmentReadsFit` needs to know how far the table has come: no slot says more than
the position hashed last (`Searching`), so a candidate found after a copy lies
before it, although the table outlives the metablock and is also written behind
the position; the margins then follow from the last position that may be probed
(`IpLimitIs`). `FragmentDecodes` joins to it that the commands, from one mark to
the next, cover the metablock as far as it is parsed and that their copies repeat
the bytes before them (`Marks`); that each was written under the recent distances
that the commands before it left (`Rings`, `Encoded`); and that the decoder, after
so many commands, is at their mark with their distances (`Decoding`). What a stored
metablock leaves is the ring of its beginning, which is the decoder's. It rests on
three lemmas about operators: a name given to a distance means that distance to
whoever has the same ring (`NameDecodes`, over all sixteen names of the ring and
every distance below 2^24); `MatchLength` counts bytes that are alike
(`MatchLengthIs`); and a copy that reaches into what it writes, taken by the
decoder as a repeated window, is the copy byte by byte (`CopyFollows`). The last
two are by induction, on the least number at which they would fail
(`LeastNumber`, from the pigeonhole principle of finite sets).

**Greedy writer.** For every parse, with commands of any lengths up to those of a
whole metablock of 2^24 bytes and any distances up to the greatest the format
has, any window (a reach of four or more, the least period written being as long),
any postfix bits and direct codes the format allows, and any cut into chunks,
each stored or compressed. `DecoderFollows` says nothing of a command on the wire
and not yet read, nor of what the rings are in between. `WriterInv` does: the
commands of a chunk are a `Chain` of places and of rings, each command named under
the ring that the ones before it left; what is still to be written of them is a
function from their number (`Rests`); and while a chunk goes out, the decoder is in
one of nine places (`Reading`), in each of which the wire is the rest from there,
its ring the chain's, and what it owes what is left of the chunk. A stored chunk's
chain is empty, so that the ring must go back to where it began. While the parse
runs, the same chain ends at the parse's position with the finder's ring
(`ParsingInv`). It rests on what the two sides' arithmetic means to one another:
a distance's name, one of the sixteen of the ring, direct or with postfix and
extra bits, means that distance to whoever has the same ring (`NameDecodes`,
which needs that `Log2` is the exponent, `Log2Is`); the tables of insert and copy
lengths are gapless and in order (`InsertTable`, `CopyTable`), so that a length has
just one code and its extra bits give it back (`LengthCodeIs`); the symbol of two
codes is in the group that means them, with the distance implied in the groups that
say so (`CombinedMeans`); together, every pair of lengths is read back
(`CommandMeans`); and a metablock's length is written with the fewest digits
(`HeaderReads`).

**Bit writer.** For every number of bits in a byte and of bytes in a word, values
of any size, and any writes, appends and drains. `BitsKept` is inductive but for
what it compares: what waits and what was sent apart (`Sent`), in whole bytes and
numbers (`IsWriter`). What it rests on is that the bits of a number may be split
anywhere (`LowFirstSplits`), that bits put above a number's are those of the sum
(`PutOver`, the word's `|=` and shift), that bytes cut from a word have its bits
(`BytesOfWord`), and that a code turned round, as `write_prefix` does a bit at a
time, has the bits in the other order (`ReversedIs`). What the code says of one
number from the last, a power of two, that loop and the bytes of the writer that
is appended, is a function that exists on an interval (`RecursionExists`, by
induction on the least number at which there would be none).

**Context maps.** For every map, number of trees, and number of contexts and
greatest run prefix that `MapAssumption` and `HeaderAssumption` allow, and for both
writers. A map goes through three forms, and so does the proof. The entries moved
to front name the trees again to a decoder whose list has them all (`MovedBack`),
because its list begins as the encoder's does, which is shorter, and goes on so
(`FrontsAgree`); a map whose trees come in order of their first use, as the
trivial writer's do, moves a new one each time (`RisingBack`). The symbols that
stand for the entries, one tree or one run of zeros each, cut them into pieces
without a gap (`Cuts`, `Stands`): the encoder's do, however a run was split by its
greatest prefix (`LengthsCover`, `TrivialCovers`). And the decoder, after so many
symbols, has the entries up to that cut (`MapFollows` in `MapInv`), so a run never
exceeds the map and its last symbol ends it. Of symbols no encoder wrote, the size
and the trees are kept (`MapTypeOK`).

**Header.** For any plans with up to 256 types and trees. `PartsFit` compares
the end of two sequences; `HeaderInv` says what is left of one at each state of the
other: `AheadIs` is, state by state, the fields the plan's encoder has yet to
write, which is what is ahead in the stream (`Ahead`). That they are all there at
the beginning is a fact on concatenation alone (`AssembledIs`, `WrittenIs`); each
read takes one off, among them the counters of a bit, a width and a value
(`CountComes`), so that the field due is always the next (`StreamKept`). `Known` is
what has been read so far of the plan. Of any fields, `Progress` says what of the
modes, maps and trees is ready in which state and that it fits the counts;
`MapInv` is joined while a map is read.

**Only model-checked.** Liveness (`CallsReturn`, `CallersReturn`: fairness is out of
the prover's reach). What recursion over data computes: the code lengths and the Huffman code
(`WrittenIsRead`, `BuiltIsBest`, `BuiltIsComplete`, `SymbolsDecode`) and the trees
of `HashTree` (`TreesSorted`, `MatchesAreBest`). Induction on numbers is at hand
(`LeastNumber`), but not the library's theorems about recursive definitions, which
take operators.

## Refinements

- `History` implements `HistoryWindow` (`WindowSpec`, checked and proved).
- `CompressedMetaBlock` implements `MetaBlockBody` (`BodySpec`, checked and proved),
  and `StreamDecoder` is built on `MetaBlockBody`'s actions.
- `DecoderReader` and `Decompress` extend `StreamDecoder` and take its steps: what
  they promise holds of the real decoder and not of an ideal of it.

## Plan

1. Composition of `MatchFinder` with `StreamEncoder`'s frontier; today both have
   the compaction, the one of positions, the other of bytes.
2. Proofs of what the code lengths compute, by induction on numbers as in
   `CompressedHeaderProofs`.

## Not modelled, and why

What formatting and `Display` say; the contents of the dictionary and of the 121
transforms, and the hash tables the encoder searches it with (tables, tested
entry by entry: a word found is a choice); the estimates of costs and entropies
(floating point; they choose between encodings that are all correct); the
lookups of literal contexts (pure functions of two bytes, one and the same for
encoder and decoder; `History` has the bytes they are asked for); performance.
Values of bits are chosen nondeterministically, so malformed streams are part of
every run of the decoder, but which stream has which bits is not.
