---------------------------- MODULE GreedyWriter ----------------------------
(***************************************************************************)
(* From a parse to a decoder: how the greedy encoder turns the commands of  *)
(* a chunk into a metablock (the end of parse_chunk, build_bundle,          *)
(* write_single, write_split and emit_chunk of encode/greedy.rs), and how   *)
(* the decoder reads it back (decode/compressed_block.rs).  A chunk is      *)
(* parsed ahead, distances named by the encoder's ring; then it goes out    *)
(* compressed, or stored, and the decoder never sees its commands.  A short *)
(* input may go out whole, without a parse (encode/mod.rs).  Bytes are      *)
(* counted; what is written is a sequence of symbols with extra bits.       *)
(***************************************************************************)
EXTENDS CommandCodes, DistanceNames, FiniteSetsExt

CONSTANTS
  Modes,        \* the encoder's distance parameters: <<postfix bits, direct codes>>
  MaxBackward,  \* how far back a copy may reach: in the least window, 1008
  Distances,    \* bound: distances a parse comes back with
  Common,       \* bound: <<insert, copy>> lengths of commands
  Boundary,     \* bound: <<insert, copy, distance>> that a parse has only one of
  Tails,        \* bound: literals left at the end of a chunk
  Wholes,       \* bound: lengths of inputs that go out whole
  MaxChunk,     \* bound: commands in a chunk
  MaxCommands   \* bound: commands and empty chunks in all

MaxMetaBlock == 2 ^ 24       \* MAX_META_BLOCK_SIZE
MaxDistance  == 2 ^ 26 - 4   \* MAX_DISTANCE, of copies and words

ASSUME ModeAssumption ==
  Modes \subseteq (0..3) \X Nat /\ \A m \in Modes : m[2] % (2 ^ m[1]) = 0
ASSUME LengthAssumption ==
  /\ \A s \in Common \cup Boundary : s[1] \in Nat /\ s[2] \in Nat \ {0, 1}
  /\ Tails \subseteq Nat /\ Wholes \subseteq 1..MaxMetaBlock
ASSUME DistancesAssumption ==
  /\ MaxBackward \in Nat \ (0..3) /\ Distances \subseteq 1..MaxDistance
  /\ \A b \in Boundary : b[3] \in 1..MaxDistance /\ <<b[1], b[2]>> \notin Common

VARIABLES
  mode,       \* distance_postfix_bits and direct_distance_codes
  ring,       \* the finder's recent_distances
  snapshot,   \* emit_chunk's snapshot of it
  start,      \* chunk_start
  position,   \* where the parse is in the stream
  chunk,      \* the commands parsed: parse.commands
  pc,         \* "parse", "write" while a chunk goes out, "finished"
  commands,   \* commands parsed in all
  wire,       \* what is written and not yet read
  phase,      \* the decoder: "header", "command", "literals", "copy", "distance",
              \* "ended"; "lost" when it cannot follow
  isLast, remaining, pending,   \* its metablock, and the command it is at
  mirror,     \* its recent distances
  decoded,    \* the bytes it has decoded
  copied      \* the copies it has made of this chunk

encoder == <<mode, ring, snapshot, start, position, chunk, commands>>
decoder == <<phase, isLast, remaining, pending, mirror, decoded, copied>>
vars    == <<encoder, pc, wire, decoder>>

Reach(p) == Min({p, MaxBackward})

\* A word of the dictionary: not all are as long as the copy that names them.
WordLength(copy, address) == copy + (address % 3) - 1
CopyLength(copy, distance, reach) ==
  IF distance <= reach THEN copy ELSE WordLength(copy, distance - reach - 1)

-----------------------------------------------------------------------------
(* The parse. *)

Init ==
  /\ mode \in Modes
  /\ ring = InitialRing /\ snapshot = InitialRing /\ mirror = InitialRing
  /\ start = 0 /\ position = 0 /\ chunk = <<>> /\ pc = "parse" /\ commands = 0
  /\ wire = <<>> /\ phase = "header" /\ isLast = FALSE /\ remaining = 0
  /\ pending = CommandOf(InsertCommand(0)) /\ decoded = 0 /\ copied = <<>>

Remembers(distance, code, reach) == distance <= reach /\ code # 0

\* The next match, in the chunk: a copy from what is behind it, or a word.
Parse(size, distance) ==
  LET at    == position + size[1]
      reach == Reach(at)
      code  == ComputeCode(ring, distance, reach)
  IN /\ pc = "parse" /\ Len(chunk) < MaxChunk /\ commands < MaxCommands
     /\ distance > reach => size[2] \in 4..24
     /\ chunk' = Append(chunk, [insert |-> size[1], copy |-> size[2], distance |-> distance,
                                code |-> code, at |-> at,
                                length |-> CopyLength(size[2], distance, reach)])
     /\ ring' = IF Remembers(distance, code, reach) THEN Pushed(ring, distance) ELSE ring
     /\ position' = at + CopyLength(size[2], distance, reach)
     /\ position' - start <= MaxMetaBlock
     /\ commands' = IF size \in Common THEN commands + 1 ELSE MaxCommands
     /\ UNCHANGED <<mode, snapshot, start, pc, wire, decoder>>

-----------------------------------------------------------------------------
(* The metablocks of a chunk, as the items that are written. *)

Item(kind, symbol, x, y) == [kind |-> kind, symbol |-> symbol, x |-> x, y |-> y]

\* nibbles_for_length.
Nibbles(length) ==
  IF length <= 65536 THEN 4 ELSE IF length <= 1048576 THEN 5 ELSE 6
Header(kind, length) == Item(kind, Nibbles(length), length - 1, 0)
EmptyLast == Item("end", 0, 0, 0)

Literals(n) == IF n = 0 THEN <<>> ELSE <<Item("literals", 0, n, 0)>>
CommandItem(c) == Item("command", c.symbol, c.insertExtra, c.copyExtra)

\* mutant: code 0 is left implicit in every command
CommandItemsImplicit(parsed) ==
  LET command == ExplicitCommand(parsed.insert, parsed.copy, parsed.code = 0)
      distance == SymbolOf(parsed.code, mode)
  IN <<CommandItem(command)>> \o Literals(parsed.insert)
     \o (IF parsed.code # 0 THEN <<Item("distance", distance.symbol, distance.extra, 0)>>
                            ELSE <<>>)

\* A command, its literals, and its distance unless the symbol implies it.
CommandItems(parsed) ==
  LET command == ExplicitCommand(parsed.insert, parsed.copy, parsed.code = 0)
      distance == SymbolOf(parsed.code, mode)
  IN <<CommandItem(command)>> \o Literals(parsed.insert)
     \o (IF RequiresDistance(command.symbol)
         THEN <<Item("distance", distance.symbol, distance.extra, 0)>> ELSE <<>>)

TailItems(n) == IF n = 0 THEN <<>> ELSE <<CommandItem(InsertCommand(n))>> \o Literals(n)

KeepRing == ring
RestoreRing == snapshot

\* What is written of the commands of a chunk, one after the other, and its tail.
ChunkItems(parsed, tail) ==
  LET rest[i \in 0..Len(parsed)] ==
        IF i = Len(parsed) THEN TailItems(tail) ELSE CommandItems(parsed[i + 1]) \o rest[i + 1]
  IN rest[0]

\* A chunk is never empty. A bound: one with no command counts as a command.
Ends(length) ==
  /\ pc = "parse" /\ length \in 1..MaxMetaBlock
  /\ chunk = <<>> => commands < MaxCommands
  /\ commands' = IF chunk = <<>> THEN commands + 1 ELSE commands

\* The chunk ends with the tail: emit_chunk, stored or compressed.
EmitStored(tail, last) ==
  LET length == position + tail - start IN
  /\ Ends(length)
  /\ ring' = RestoreRing
  /\ wire' = <<Header("stored", length)>> \o (IF last THEN <<EmptyLast>> ELSE <<>>)
  /\ position' = position + tail /\ chunk' = <<>>
  /\ pc' = IF last THEN "finished" ELSE "write"
  /\ UNCHANGED <<mode, snapshot, start, decoder>>

EmitCompressed(tail, last) ==
  /\ chunk # <<>> /\ Ends(position + tail - start)
  /\ wire' = <<Header(IF last THEN "last" ELSE "compressed", position + tail - start)>>
             \o ChunkItems(chunk, tail)
  /\ position' = position + tail
  /\ pc' = IF last THEN "finished" ELSE "write"
  /\ UNCHANGED <<mode, ring, snapshot, start, chunk, decoder>>

NextChunk ==
  /\ pc = "write" /\ wire = <<>> /\ phase = "header"
  /\ start' = position /\ snapshot' = ring /\ chunk' = <<>> /\ pc' = "parse"
  /\ copied' = <<>>
  /\ UNCHANGED <<mode, ring, position, commands, wire, phase, isLast, remaining, pending,
                 mirror, decoded>>

\* An input of one metablock may go out whole without a parse: as literals, or
\* as a period of literals and a copy that repeats it.
Whole(length, items, params, parsed) ==
  /\ pc = "parse" /\ commands = 0 /\ chunk = <<>> /\ start = 0
  /\ wire' = <<Header("last", length)>> \o items
  /\ mode' = params /\ chunk' = parsed
  /\ position' = length /\ pc' = "finished"
  /\ UNCHANGED <<ring, snapshot, start, commands, decoder>>

WholeLiterals(length) == Whole(length, TailItems(length), <<0, 0>>, <<>>)

WholePeriodic(period, length) ==
  LET copy    == length - period
      command == ExplicitCommand(period, copy, FALSE)
  IN /\ length >= period + 2
     /\ Whole(length,
              <<CommandItem(command)>> \o Literals(period)
                \o <<Item("distance", 15 + period, 0, 0)>>,
              <<0, 4>>,
              <<[insert |-> period, copy |-> copy, distance |-> period, code |-> 15 + period,
                 at |-> period, length |-> copy]>>)

-----------------------------------------------------------------------------
(* The decoder. *)

Lost == phase' = "lost" /\ UNCHANGED <<wire, isLast, remaining, pending, mirror, decoded, copied>>

\* The last digit of a length may not be 0 unless it has the fewest digits.
LengthRead(item) == (item.x % (16 ^ item.symbol)) + 1
Minimal(item) == item.symbol > 4 => item.x \div (16 ^ (item.symbol - 1)) > 0

DecodeHeader ==
  LET item == Head(wire) IN
  /\ phase = "header" /\ wire # <<>>
  /\ IF item.kind = "end"
     THEN phase' = "ended" /\ wire' = Tail(wire) /\ UNCHANGED <<isLast, remaining, decoded>>
     ELSE IF item.kind \notin {"stored", "compressed", "last"} \/ ~Minimal(item) THEN Lost
     ELSE /\ wire' = Tail(wire)
          /\ isLast' = (item.kind = "last")
          /\ IF item.kind = "stored"
             THEN decoded' = decoded + LengthRead(item) /\ UNCHANGED <<remaining, phase>>
             ELSE remaining' = LengthRead(item) /\ phase' = "command" /\ UNCHANGED decoded
  /\ UNCHANGED <<encoder, pc, pending, mirror, copied>>

\* What comes once the metablock owes nothing more.
AtEnd == IF isLast THEN "ended" ELSE "header"

DecodeCommand ==
  LET item == Head(wire)
      read == CommandOf([symbol |-> item.symbol, insertExtra |-> item.x, copyExtra |-> item.y])
  IN /\ phase = "command"
     /\ IF item.kind # "command" \/ read.insert > remaining THEN Lost
        ELSE /\ pending' = read /\ wire' = Tail(wire) /\ phase' = "literals"
             /\ UNCHANGED <<isLast, remaining, mirror, decoded, copied>>
     /\ UNCHANGED <<encoder, pc>>

\* The literals; a copy that would follow the last byte is never looked at.
DecodeLiterals ==
  LET n == pending.insert IN
  /\ phase = "literals"
  /\ IF n > 0 /\ (Head(wire).kind # "literals" \/ Head(wire).x # n) THEN Lost
     ELSE /\ wire' = (IF n > 0 THEN Tail(wire) ELSE wire)
          /\ decoded' = decoded + n /\ remaining' = remaining - n
          /\ phase' = IF remaining = n THEN AtEnd
                      ELSE IF pending.implicit THEN "copy" ELSE "distance"
          /\ UNCHANGED <<isLast, pending, mirror, copied>>
  /\ UNCHANGED <<encoder, pc>>

\* begin_copy and the copy: bytes already decoded, or a word.
BeginCopy(distance, push) ==
  LET length == CopyLength(pending.copy, distance, Reach(decoded)) IN
  IF distance < 1 \/ length > remaining THEN Lost
  ELSE /\ copied' = Append(copied, [distance |-> distance, length |-> length, at |-> decoded])
       /\ decoded' = decoded + length /\ remaining' = remaining - length
       /\ phase' = IF remaining = length THEN AtEnd ELSE "command"
       /\ mirror' = IF push /\ distance <= Reach(decoded) THEN Pushed(mirror, distance)
                                                         ELSE mirror
       /\ UNCHANGED <<isLast, pending>>

ImplicitCopy ==
  /\ phase = "copy"
  /\ BeginCopy(mirror[1], FALSE)
  /\ UNCHANGED <<encoder, pc, wire>>

DecodeDistance ==
  LET item     == Head(wire)
      distance == NewDistance(mirror, item.symbol, mode[1], mode[2])
  IN /\ phase = "distance"
     /\ IF item.kind # "distance" THEN Lost
        ELSE /\ BeginCopy(Resolve(distance, item.x, mode[1]), distance.push)
             /\ wire' = Tail(wire)
     /\ UNCHANGED <<encoder, pc>>

Next ==
  \/ \E size \in Common, d \in Distances : Parse(size, d)
  \/ \E b \in Boundary : commands = 0 /\ Parse(<<b[1], b[2]>>, b[3])
  \/ \E tail \in Tails, last \in BOOLEAN : EmitStored(tail, last) \/ EmitCompressed(tail, last)
  \/ NextChunk
  \/ \E n \in Wholes : WholeLiterals(n) \/ \E period \in 1..4 : WholePeriodic(period, n)
  \/ DecodeHeader \/ DecodeCommand \/ DecodeLiterals \/ ImplicitCopy \/ DecodeDistance

Spec == Init /\ [][Next]_vars

-----------------------------------------------------------------------------
(* Correctness. *)

\* Whatever was parsed, compressed or stored before, the decoder reads every
\* command's lengths back, makes of every copy the distance the encoder meant,
\* at the same place of the stream, with all symbols in their alphabets; it ends
\* each metablock with the last symbol of it, and the stream with the last chunk;
\* and when a chunk begins the two rings are the same (write_single, write_split,
\* emit_chunk, RecentDistances of both sides).
DecoderFollows ==
  /\ phase # "lost"
  /\ Len(copied) <= Len(chunk)
  /\ \A i \in DOMAIN copied : \A f \in {"distance", "length", "at"} : copied[i][f] = chunk[i][f]
  /\ \A i \in DOMAIN chunk :
       SymbolOf(chunk[i].code, mode).symbol < AlphabetSize(mode[1], mode[2])
  /\ wire = <<>> => phase \in {"header", "ended", "copy"} \/ (phase = "literals" /\ pending.insert = 0)
  /\ wire = <<>> /\ phase \in {"header", "ended"} =>
       /\ phase = "ended" <=> pc = "finished"
       /\ pc # "parse" => decoded = position /\ Len(copied) = Len(chunk)
  /\ pc = "parse" => decoded = start
  /\ pc = "parse" /\ chunk = <<>> => ring = mirror /\ snapshot = mirror
  /\ phase = "ended" => wire = <<>>
=============================================================================
