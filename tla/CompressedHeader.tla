-------------------------- MODULE CompressedHeader --------------------------
(***************************************************************************)
(* What comes before the commands of a compressed metablock: the parts that  *)
(* CompressedMetaBlockDecoder reads in its Header and Trees states           *)
(* (compressed_header.rs, var_len_uint8.rs, BlockPartitionDecoder,           *)
(* compressed_trees.rs, tree_group.rs), one field at a time, on what the     *)
(* encoder writes (write_split, write_single) or on any fields.  A field is  *)
(* a run of bits, a prefix code, a block length or a context map, which is   *)
(* decoded by a decoder of its own (ContextMap); it may be cut anywhere, and *)
(* the next call goes on with it: no step here.                              *)
(***************************************************************************)
EXTENDS ContextMap, DistanceCodes

CONSTANTS
  ContextBits,  \* of literals and distances (the code: six and two)
  Plans,        \* bound: the metablocks that an encoder writes
  AnyBits,      \* bound: width of the counts in fields that no encoder wrote
  AnyDirect,    \* bound: their fields for direct distances
  AnyMaps       \* bound: their maps: <<size, trees>>

Kinds == 1..3   \* literals, commands, distances

ASSUME HeaderAssumption ==
  /\ ContextBits \in [{1, 3} -> 2..8]
  /\ \A k \in {1, 3} : ContextBits[k] - 1 <= 2 ^ RleBits
  /\ \A plan \in Plans :
       /\ plan.types \in [Kinds -> 1..256] /\ plan.contexts \in Nat \ {0}
       /\ plan.types[1] * plan.contexts <= 256
       /\ plan.map \in [1..(2 ^ ContextBits[1]) -> 0..(plan.contexts - 1)]
       /\ plan.postfix \in 0..3
       /\ plan.direct \in {m * 2 ^ plan.postfix : m \in 0..15}
  /\ Unknown \notin Plans \cup (Seq(Nat) \ {<<>>})

\* A field: what is to be read, of what size, and what it is.
Shape(kind, of) == [kind |-> kind, of |-> of]
Bits(width)     == Shape("bits", <<width>>)
Code(alphabet)  == Shape("code", <<alphabet>>)
Length          == Shape("length", <<>>)
Map(size, n)    == Shape("map", <<size, n>>)
Field(shape, value) == [shape |-> shape, value |-> value]

-----------------------------------------------------------------------------
(* What an encoder writes. *)

\* write_var_len_u8
VarLen(n) ==
  IF n = 0 THEN <<Field(Bits(1), 0)>>
  ELSE IF n = 1 THEN <<Field(Bits(1), 1), Field(Bits(3), 0)>>
  ELSE <<Field(Bits(1), 1), Field(Bits(3), Log2(n)), Field(Bits(Log2(n)), n - 2 ^ Log2(n))>>

Times(n, field) == [i \in 1..n |-> field]

\* BlockSplitEncoding::write_header
WrittenPartition(types) ==
  VarLen(types - 1) \o
    (IF types = 1 THEN <<>> ELSE <<Field(Code(types + 2), 0), Field(Code(26), 0), Field(Length, 0)>>)

Contexts(k) == 2 ^ ContextBits[k]

\* write_context_map and write_trivial_context_map, of as many trees.
WrittenMap(entries, n, written) ==
  VarLen(n - 1) \o
    (IF n = 1 THEN <<>> ELSE <<Field(Map(Len(entries), n), SymbolsOf(entries, written))>>)

WrittenTrivialMap(n, k) ==
  WrittenMap(TrivialMap(n, ContextBits[k]), n, WrittenTrivial(n, ContextBits[k]))

\* A plan is a metablock's block types, its literal contexts (how many, and the
\* map to them) and its distance parameters.  There is a tree for each type, and for each context of a
\* literal type (the histograms of finish(), prefix_codes).
PlannedTrees(plan) == <<plan.types[1] * plan.contexts, plan.types[2], plan.types[3]>>

WrittenTrees(plan) ==
  LET alphabets == <<256, 704, AlphabetSize(plan.postfix, plan.direct)>>
      codes(k)  == Times(PlannedTrees(plan)[k], Field(Code(alphabets[k]), 0))
  IN codes(1) \o codes(2) \o codes(3)

\* write_literal_context_map
LiteralMap(plan) ==
  [i \in 1..(plan.types[1] * Contexts(1)) |->
     ((i - 1) \div Contexts(1)) * plan.contexts + plan.map[((i - 1) % Contexts(1)) + 1]]
WrittenLiteralMap(plan) ==
  IF plan.contexts = 1 THEN WrittenTrivialMap(PlannedTrees(plan)[1], 1)
  ELSE WrittenMap(LiteralMap(plan), PlannedTrees(plan)[1], Written(LiteralMap(plan)))

\* write_split
WrittenSplit(plan) ==
  WrittenPartition(plan.types[1]) \o WrittenPartition(plan.types[2])
  \o WrittenPartition(plan.types[3])
  \o <<Field(Bits(2), plan.postfix), Field(Bits(4), plan.direct \div 2 ^ plan.postfix)>>
  \o Times(plan.types[1], Field(Bits(2), 2))
  \o WrittenLiteralMap(plan) \o WrittenTrivialMap(PlannedTrees(plan)[3], 3)
  \o WrittenTrees(plan)

\* write_simple_compressed_header and the three trees of write_single.
WrittenSingle(plan) ==
  VarLen(0) \o VarLen(0) \o VarLen(0)
  \o <<Field(Bits(2), plan.postfix), Field(Bits(4), plan.direct \div 2 ^ plan.postfix)>>
  \o <<Field(Bits(2), 0)>> \o VarLen(0) \o VarLen(0)
  \o WrittenTrees(plan)

IsSingle(plan) == plan.types = <<1, 1, 1>> /\ plan.contexts = 1

-----------------------------------------------------------------------------
(* What the decoder reads. *)

VARIABLES
  state, kind,         \* the part in progress, and of which symbols
  counter,             \* VarLenUint8Decoder
  types,               \* num_types of the partitions
  postfix, direct,     \* distance_postfix_bits, num_direct_distance_codes
  modes,               \* literal_context_modes: how many
  numTrees,            \* num_literal_trees, command types, num_distance_trees
  maps,                \* the context maps: their size, and the trees they name
  trees,               \* the prefix codes read of each kind
  source, stream, next \* the plan or Unknown, its fields, the next of them

part    == <<state, kind, counter>>
header  == <<types, postfix, direct, modes, numTrees, maps>>
fields  == <<source, stream, next>>
vars    == <<part, header, trees, fields, mapVars>>

FirstBit == [state |-> "FirstBit", width |-> 1]

Init ==
  /\ \/ \E plan \in Plans : /\ source = plan
                            /\ \/ stream = WrittenSplit(plan)
                               \/ IsSingle(plan) /\ stream = WrittenSingle(plan)
     \/ source = Unknown /\ stream = <<>>
  /\ state = "TypeCount" /\ kind = 1 /\ counter = FirstBit
  /\ types = <<1, 1, 1>> /\ postfix = 0 /\ direct = 0 /\ modes = 0
  /\ numTrees = <<1, 1, 1>> /\ maps = [k \in {1, 3} |-> [size |-> 0, trees |-> 0]]
  /\ trees = <<0, 0, 0>> /\ next = 1 /\ decoder = NoDecoder /\ symbols = NoSymbols

MapSizeByType(k) == types[k] * Contexts(1)   \* mutant: as if distances had as many contexts
MapSize(k) == types[k] * Contexts(k)

TreeAlphabet(k) ==
  IF k = 1 THEN 256 ELSE IF k = 2 THEN 704 ELSE AlphabetSize(postfix, direct)

\* The field that the decoder reads next.
Due ==
  IF state \in {"TypeCount", "TreeCount"} THEN Bits(counter.width)
  ELSE IF state = "TypeCode" THEN Code(types[kind] + 2)
  ELSE IF state = "LengthCode" THEN Code(26)
  ELSE IF state = "FirstLength" THEN Length
  ELSE IF state \in {"Postfix", "Mode"} THEN Bits(2)
  ELSE IF state = "Direct" THEN Bits(4)
  ELSE IF state = "Map" THEN Map(MapSize(kind), numTrees[kind])
  ELSE Code(TreeAlphabet(kind))

AtDue == next <= Len(stream) /\ stream[next].shape = Due
ReadOn == next' = (IF source = Unknown THEN next ELSE next + 1) /\ UNCHANGED <<source, stream>>

Reading(value) ==
  /\ IF source = Unknown
       THEN counter.state = "Width" => value <= AnyBits
       ELSE AtDue /\ stream[next].value = value
  /\ ReadOn

\* VarLenUint8Decoder::decode: the count less one is known, or another field
\* is to be read for it.
Counted(value) == counter.state = "Value" \/ value = 0
Count(value) ==
  IF counter.state = "FirstBit" THEN 0
  ELSE IF counter.state = "Width" THEN 1 ELSE 2 ^ counter.width + value
CountOn(value) ==
  IF counter.state = "FirstBit" THEN [state |-> "Width", width |-> 3]
  ELSE [state |-> "Value", width |-> value]

\* After a partition comes the next, and after the last the distances'.
NextPartition == IF kind < 3 THEN state' = "TypeCount" /\ kind' = kind + 1
                             ELSE state' = "Postfix" /\ UNCHANGED kind

\* The tree counts and maps of literals and of distances, then the trees.
NextMap == IF kind = 1 THEN state' = "TreeCount" /\ kind' = 3
                       ELSE state' = "Trees" /\ kind' = 1

ReadTypeCount(value) ==
  /\ state = "TypeCount" /\ value < 2 ^ counter.width /\ Reading(value)
  /\ IF Counted(value)
       THEN /\ types' = [types EXCEPT ![kind] = Count(value) + 1]
            /\ counter' = FirstBit
            /\ IF Count(value) = 0 THEN NextPartition
                                   ELSE state' = "TypeCode" /\ UNCHANGED kind
       ELSE counter' = CountOn(value) /\ UNCHANGED <<state, kind, types>>
  /\ UNCHANGED <<postfix, direct, modes, numTrees, maps, trees, mapVars>>

\* BlockPartitionDecoder::decode
ReadPartition ==
  /\ state \in {"TypeCode", "LengthCode", "FirstLength"} /\ Reading(0)
  /\ CASE state = "TypeCode"    -> state' = "LengthCode" /\ UNCHANGED kind
       [] state = "LengthCode"  -> state' = "FirstLength" /\ UNCHANGED kind
       [] state = "FirstLength" -> NextPartition
  /\ UNCHANGED <<counter, header, trees, mapVars>>

ReadPostfix(value) ==
  /\ state = "Postfix" /\ Reading(value)
  /\ postfix' = value /\ state' = "Direct"
  /\ UNCHANGED <<kind, counter, types, direct, modes, numTrees, maps, trees, mapVars>>

ReadDirect(value) ==
  /\ state = "Direct" /\ Reading(value)
  /\ source = Unknown => value \in AnyDirect
  /\ direct' = value * 2 ^ postfix /\ state' = "Mode"
  /\ UNCHANGED <<kind, counter, types, postfix, modes, numTrees, maps, trees, mapVars>>

ReadMode(value) ==
  /\ state = "Mode" /\ Reading(value)
  /\ modes' = modes + 1
  /\ IF modes + 1 < types[1] THEN UNCHANGED <<state, kind>>
                             ELSE state' = "TreeCount" /\ kind' = 1
  /\ UNCHANGED <<counter, types, postfix, direct, numTrees, maps, trees, mapVars>>

ReadTreeCount(value) ==
  /\ state = "TreeCount" /\ value < 2 ^ counter.width /\ Reading(value)
  /\ IF Counted(value)
       THEN LET count == Count(value) + 1 IN
            /\ source = Unknown /\ count > 1 => <<MapSize(kind), count>> \in AnyMaps
            /\ numTrees' = [numTrees EXCEPT ![kind] = count]
            /\ counter' = FirstBit
            /\ IF count = 1
                 THEN /\ maps' = [maps EXCEPT ![kind] = [size |-> MapSize(kind), trees |-> 1]]
                      /\ NextMap /\ UNCHANGED mapVars
                 ELSE /\ state' = "Map" /\ decoder' = NewDecoder(MapSize(kind), count)
                      /\ symbols' = IF source = Unknown THEN NoSymbols ELSE stream[next'].value
                      /\ UNCHANGED <<kind, maps>>
       ELSE counter' = CountOn(value) /\ UNCHANGED <<state, kind, numTrees, maps, mapVars>>
  /\ UNCHANGED <<types, postfix, direct, modes, trees>>

\* A map has an entry for each type and context, and names some trees.
ReadMap ==
  /\ state = "Map" /\ DecodeMap
  /\ UNCHANGED <<part, header, trees, fields>>

TakeMap ==
  /\ state = "Map" /\ decoder.state = "Done"
  /\ source # Unknown => AtDue
  /\ maps' = [maps EXCEPT ![kind] =
                [size |-> Len(decoder.map), trees |-> Max(ToSet(decoder.map)) + 1]]
  /\ decoder' = NoDecoder /\ symbols' = NoSymbols /\ NextMap /\ ReadOn
  /\ UNCHANGED <<counter, types, postfix, direct, modes, numTrees, trees>>

\* TreeGroupDecoder of each kind in turn: as many trees as the header says.
TreesDue(k) == IF k = 2 THEN types[2] ELSE numTrees[k]

ReadTree ==
  /\ state = "Trees" /\ Reading(0)
  /\ trees' = [trees EXCEPT ![kind] = @ + 1]
  /\ IF trees'[kind] < TreesDue(kind) THEN UNCHANGED <<state, kind>>
     ELSE IF kind < 3 THEN kind' = kind + 1 /\ UNCHANGED state
     ELSE state' = "Data" /\ UNCHANGED kind
  /\ UNCHANGED <<counter, header, mapVars>>

\* A prefix code or a context map that is none; its decoder is left behind.
Refuse ==
  /\ \/ source = Unknown /\ state \in {"TypeCode", "LengthCode", "Map", "Trees"}
     \/ decoder.state = "error" /\ state = "Map"
  /\ state' = "error" /\ decoder' = NoDecoder /\ symbols' = NoSymbols
  /\ UNCHANGED <<kind, counter, header, trees, fields>>

Next ==
  \/ \E value \in 0..(2 ^ counter.width - 1) : ReadTypeCount(value) \/ ReadTreeCount(value)
  \/ ReadPartition \/ ReadMap \/ TakeMap \/ ReadTree \/ Refuse
  \/ \E value \in 0..3 : ReadPostfix(value) \/ ReadMode(value)
  \/ \E value \in 0..15 : ReadDirect(value)

Spec == Init /\ [][Next]_vars

-----------------------------------------------------------------------------
(* Correctness. *)

\* The parts of a metablock as an encoder writes them are those the decoder
\* reads, each of the same size, to the last: neither reads past the other,
\* whatever the types, contexts and distance parameters.  And whatever the
\* fields, a block is begun only with a mode for each literal type, a map
\* entry for each type and context, and for each entry, as for each command
\* type, a tree (CompressedHeaderDecoder, CompressedTreesDecoder, which index
\* by these without a check in CompressedBlock).
PartsFit ==
  /\ source # Unknown =>
       /\ state # "error"
       /\ state # "Data" => AtDue
       /\ state = "Data" =>
            /\ next = Len(stream) + 1
            /\ <<types, postfix, direct>> = <<source.types, source.postfix, source.direct>>
            /\ trees = PlannedTrees(source)
  /\ state = "Data" =>
       /\ modes = types[1] /\ types[2] <= trees[2]
       /\ maps[1].size = Contexts(1) * types[1] /\ maps[1].trees <= trees[1]
       /\ maps[3].size = Contexts(3) * types[3] /\ maps[3].trees <= trees[3]
=============================================================================
