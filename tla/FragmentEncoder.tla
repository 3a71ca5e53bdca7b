--------------------------- MODULE FragmentEncoder ---------------------------
(***************************************************************************)
(* Qualities 0 and 1 (encode/fragment.rs): a stream is cut into fragments,  *)
(* a fragment into metablocks, and a metablock is parsed with a hash table  *)
(* of the fragment, its distances named by a ring that lives as long as the *)
(* stream, and written compressed or stored.  A decoder with a ring of its  *)
(* own reads what is written.  Positions are relative to the fragment.      *)
(***************************************************************************)
EXTENDS InputBytes, DistanceNames, SequencesExt

CONSTANTS
  Inputs,        \* bound: the streams compressed
  Configs,       \* [min, hash, cap]: bytes hashed (4, 5 or 6), whether the hash
                 \* tells all words or none apart, FRAGMENT_MAX_DISTANCE
  FragmentSize,  \* 1 << window_bits
  Load,          \* bytes a hash reads (8)
  Gap,           \* WINDOW_GAP (16)
  SkipStart,     \* SKIP_START (32): as many probes make the stride longer by 1
  FirstBlock, MergeBlock, MaxMerged,   \* metablock sizes of quality 0
  TwoPassBlock                         \* metablock size of quality 1

ASSUME FragmentAssumption ==
  /\ Inputs \subseteq Seq(0..255)
  /\ FragmentSize \in 1..2^24 /\ Gap \in 1..(FragmentSize - 1) /\ Load \in 1..(Gap - 1)
  /\ \A c \in Configs : c.min \in 4..6 /\ c.min <= Load
  /\ SkipStart \in Nat \ {0} /\ MaxMerged \in Nat /\ FirstBlock \in 1..MaxMerged
  /\ MergeBlock \in Nat \ {0} /\ TwoPassBlock \in Nat \ {0}

VARIABLES
  config,
  base, table,                 \* the fragment: where it starts, its hash table
  start, end,                  \* the metablock
  position, nextPosition, skip, nextEmit, lastDistance, candidate,
                               \* the parse; a lastDistance of 0 is None
  commands,                    \* the commands it found
  cursor, wire,                \* the bytes encoded, the commands encoded
  ring, snapshot,              \* the encoder's recent distances
  pc,
  mirror, out                  \* the decoder's, and its output

search  == <<position, nextPosition, skip, nextEmit, lastDistance, candidate>>
encoder == <<cursor, wire, ring, snapshot>>
decoder == <<mirror, out>>
fragmentVars ==
  <<input, config, base, table, start, end, search, commands, encoder, pc, decoder>>

FragmentLength == Min({FragmentSize, Len(input) - base})
MaxBackward == FragmentSize - Gap

-----------------------------------------------------------------------------
(* The table.  An entry holds a position + 1; an empty slot reads as the     *)
(* start of the fragment.                                                    *)

Hash(p) == IF config.hash = "word" THEN Bytes(base + p, config.min) ELSE <<>>
Entry(tab, p) == IF Hash(p) \in DOMAIN tab THEN tab[Hash(p)] ELSE 0
Candidate(tab, p) == IF Entry(tab, p) = 0 THEN 0 ELSE Entry(tab, p) - 1

\* The word at p is said to be at q.
StoredAt(tab, p, q) ==
  [w \in DOMAIN tab \cup {Hash(p)} |-> IF w = Hash(p) THEN q + 1 ELSE tab[w]]

IsMatchAt(p, c) == SameBytes(base + p, base + c, config.min)

\* store_interior_positions, after a copy that ends at p.  After literals the
\* four-byte form says of the word at position - 3 that it is at position - 1.
StoredBehind(tab, p, back) == StoredAt(tab, p - back, p - back)
ThreeStored(tab, p, hashed) ==
  StoredAt(StoredBehind(StoredBehind(tab, p, 3), p, 2), hashed, p - 1)
InteriorStored(p, afterLiterals) ==
  CASE config.min = 4 -> ThreeStored(table, p, IF afterLiterals THEN p - 3 ELSE p - 1)
    [] config.min = 5 -> ThreeStored(table, p, p - 1)
    [] OTHER -> ThreeStored(StoredBehind(StoredBehind(table, p, 5), p, 4), p, p - 1)

-----------------------------------------------------------------------------
(* Fragments and metablocks. *)

FragmentInit ==
  /\ input \in Inputs /\ config \in Configs
  /\ base = 0 /\ table = <<>> /\ start = 0 /\ end = 0
  /\ position = 0 /\ nextPosition = 0 /\ skip = SkipStart /\ nextEmit = 0
  /\ lastDistance = 0 /\ candidate = 0
  /\ commands = <<>> /\ cursor = 0 /\ wire = <<>>
  /\ ring = InitialRing /\ snapshot = InitialRing /\ mirror = InitialRing
  /\ out = <<>> /\ pc = "metablock"

\* Quality 0 merges blocks while their entropy is alike; quality 1 does not.
Ends ==
  LET first == Min({start + FirstBlock, FragmentLength}) IN
  IF config.min = 5
  THEN {e \in {Min({first + k * MergeBlock, FragmentLength}) : k \in 0..MaxMerged} :
          e = first \/ e - start <= MaxMerged}
  ELSE {Min({start + TwoPassBlock, FragmentLength})}

BlockLimit(e) == e - config.min      \* mutant: the fragment's margin is forgotten

\* The last position to probe, for a metablock up to e.
IpLimit(e) == start + Min({e - start - config.min, FragmentLength - Gap - start})

Command(insert, copy, distance) == [insert |-> insert, copy |-> copy, distance |-> distance]

BeginMetaBlock ==
  /\ pc = "metablock" /\ start < FragmentLength
  /\ end' \in Ends
  /\ IF end' - start < Gap
     THEN /\ commands' = <<Command(end' - start, 0, 0)>> /\ pc' = "encode"
          /\ UNCHANGED search
     ELSE /\ commands' = <<>> /\ pc' = "trawl"
          /\ nextPosition' = start + 1 /\ skip' = SkipStart /\ nextEmit' = start
          /\ lastDistance' = 0
          /\ UNCHANGED <<position, candidate>>
  /\ cursor' = start /\ wire' = <<>> /\ snapshot' = ring
  /\ UNCHANGED <<input, config, base, table, start, ring, decoder>>

NextFragment ==
  /\ pc = "metablock" /\ start = FragmentLength /\ base + start < Len(input)
  /\ base' = base + start /\ start' = 0 /\ table' = <<>>
  /\ UNCHANGED <<input, config, end, search, commands, encoder, pc, decoder>>

-----------------------------------------------------------------------------
(* The parse of a metablock. *)

\* A distance no more than the cap.
InCap(p, c) == p - c <= config.cap

Probe ==
  LET p          == nextPosition
      next       == p + (skip \div SkipStart)
      byDistance == /\ lastDistance \in 1..p
                    /\ IsMatchAt(p, p - lastDistance)
      slot       == Candidate(table, p)
      found      == byDistance \/ (slot < p /\ IsMatchAt(p, slot))
      chosen     == IF byDistance THEN p - lastDistance ELSE slot
  IN /\ pc = "trawl"
     /\ position' = p /\ nextPosition' = next /\ skip' = skip + 1
     /\ IF next > IpLimit(end)
        THEN pc' = "tail" /\ UNCHANGED <<table, candidate>>
        ELSE /\ table' = StoredAt(table, p, p)
             /\ candidate' = chosen
             /\ pc' = IF found /\ InCap(p, chosen) THEN "copy" ELSE "trawl"
     /\ UNCHANGED <<input, config, base, start, end, nextEmit, lastDistance, commands,
                    encoder, decoder>>

\* The copy at hand, with the literals before it; after it, positions inside it
\* are stored and the table is asked for a copy that follows at once.
TakeCopy(afterLiterals) ==
  LET matched == MatchLength(base + candidate, base + position, end - position)
      after   == position + matched
      stored  == InteriorStored(after, afterLiterals)
  IN /\ commands' = Append(commands, Command(position - nextEmit, matched, position - candidate))
     /\ position' = after /\ nextEmit' = after /\ lastDistance' = position - candidate
     /\ IF after >= IpLimit(end)
        THEN pc' = "tail" /\ UNCHANGED <<table, candidate>>
        ELSE /\ candidate' = Candidate(stored, after)
             /\ table' = StoredAt(stored, after, after)
             /\ pc' = "chain"
     /\ UNCHANGED <<input, config, base, start, end, nextPosition, skip, encoder, decoder>>

Copy == pc = "copy" /\ TakeCopy(TRUE)

Chains == IsMatchAt(position, candidate) /\ InCap(position, candidate)
ChainCopy == pc = "chain" /\ Chains /\ TakeCopy(FALSE)
EndChain ==
  /\ pc = "chain" /\ ~Chains
  /\ position' = position + 1 /\ nextPosition' = position + 1 /\ skip' = SkipStart
  /\ pc' = "trawl"
  /\ UNCHANGED <<input, config, base, table, start, end, nextEmit, lastDistance, candidate,
                 commands, encoder, decoder>>

\* What is left is literals.
LiteralTail ==
  /\ pc = "tail"
  /\ commands' = IF nextEmit < end THEN Append(commands, Command(end - nextEmit, 0, 0))
                                   ELSE commands
  /\ pc' = "encode"
  /\ UNCHANGED <<input, config, base, table, start, end, search, encoder, decoder>>

-----------------------------------------------------------------------------
(* emit_fragment_metablock. *)

\* The next command: its literals, and its distance by name. Code 0 may be left
\* implicit in the command symbol, with the same outcome.
EncodeCommand ==
  LET command == commands[Len(wire) + 1]
      code    == ComputeCode(ring, command.distance, MaxBackward)
  IN /\ pc = "encode" /\ Len(wire) < Len(commands)
     /\ wire' = Append(wire, [literals |-> Bytes(base + cursor, command.insert),
                              copy |-> command.copy,
                              code |-> IF command.copy = 0 THEN 0 ELSE code])
     /\ ring' = IF command.copy # 0 /\ code # 0 THEN Pushed(ring, command.distance) ELSE ring
     /\ cursor' = cursor + command.insert + command.copy
     /\ UNCHANGED <<input, config, base, table, start, end, search, commands, snapshot, pc,
                    decoder>>

EncodedWhole == pc = "encode" /\ Len(wire) = Len(commands)

\* The compressed form is smaller.
WriteCompressed ==
  /\ EncodedWhole
  /\ pc' = "decode"
  /\ UNCHANGED <<input, config, base, table, start, end, search, commands, encoder, decoder>>

\* It is not, and the decoder gets the bytes instead.
KeptRing == ring      \* mutant: the ring remembers copies that were not written
RestoredRing == snapshot
WriteStored ==
  /\ EncodedWhole
  /\ ring' = RestoredRing
  /\ out' = out \o Bytes(base + start, end - start)
  /\ start' = end /\ pc' = "metablock"
  /\ UNCHANGED <<input, config, base, table, end, search, commands, cursor, wire, snapshot, mirror>>

-----------------------------------------------------------------------------
(* The decoder. *)

\* A copy may reach into what it writes.
Copied(text, n, distance) ==
  text \o [i \in 1..n |-> text[Len(text) - distance + 1 + ((i - 1) % distance)]]

DecodeCommand ==
  LET item     == wire[1]
      text     == out \o item.literals
      coded    == SymbolOf(item.code, <<0, 0>>)
      distance == NewDistance(mirror, coded.symbol, 0, 0)
      value    == Resolve(distance, coded.extra, 0)
  IN /\ pc = "decode" /\ wire # <<>>
     /\ wire' = Tail(wire)
     /\ IF item.copy = 0 THEN out' = text /\ UNCHANGED <<mirror, pc>>
        ELSE IF value \notin 1..Min({Len(text), MaxBackward})
        THEN pc' = "lost" /\ UNCHANGED decoder
        ELSE /\ out' = Copied(text, item.copy, value)
             /\ mirror' = IF distance.push THEN Pushed(mirror, value) ELSE mirror
             /\ UNCHANGED pc
     /\ UNCHANGED <<input, config, base, table, start, end, search, commands, cursor, ring,
                    snapshot>>

NextMetaBlock ==
  /\ pc = "decode" /\ wire = <<>>
  /\ start' = end /\ pc' = "metablock"
  /\ UNCHANGED <<input, config, base, table, end, search, commands, encoder, decoder>>

FragmentNext ==
  \/ BeginMetaBlock \/ NextFragment
  \/ Probe \/ Copy \/ ChainCopy \/ EndChain \/ LiteralTail
  \/ EncodeCommand \/ WriteCompressed \/ WriteStored
  \/ DecodeCommand \/ NextMetaBlock

FragmentSpec == FragmentInit /\ [][FragmentNext]_fragmentVars

-----------------------------------------------------------------------------
(* Correctness. *)

\* Whichever metablocks are compressed and whichever are stored, and however
\* the hash table leads the parse across metablocks, the decoder writes the
\* stream: at every metablock it is exactly where the encoder is, with the same
\* recent distances (parse_fragment, emit_fragment_metablock).
FragmentDecodes ==
  /\ pc # "lost" /\ IsPrefix(out, input)
  /\ pc = "metablock" => Len(out) = base + start /\ mirror = ring
  /\ pc = "decode" => cursor = end

\* The margins hold: every hash reads inside the fragment, every copy may be
\* min_match long without passing the metablock's end, and a candidate always
\* lies before the position it is compared with (the assertions of
\* hash_fragment, is_match_at and store_interior_positions, and the subtraction
\* end - position - min_match).
FragmentReadsFit ==
  /\ pc = "trawl" => nextPosition + Load <= FragmentLength
  /\ pc \in {"copy", "chain"} =>
       /\ candidate < position
       /\ position + config.min <= end
       /\ pc = "chain" => position + Load <= FragmentLength /\ position >= config.min
=============================================================================
