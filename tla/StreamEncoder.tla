--------------------------- MODULE StreamEncoder ---------------------------
(***************************************************************************)
(* The incremental encoder: encode/stream.rs over the bit writer. Input is *)
(* kept by position only. What a chunk is encoded to is any of a few       *)
(* numbers of bits; what is kept of it is the range of the input it stands *)
(* for and whether it says it is the stream's last metablock. A turn of    *)
(* the loops of process() and finish() is a step.                          *)
(***************************************************************************)
EXTENDS Naturals, Sequences

CONSTANTS
  ByteBits,     \* 8
  MetaBlockCap, \* MAX_META_BLOCK_SIZE, 2^24
  Windows,      \* 2^window_bits
  Reserve,      \* 16
  HeaderBits,   \* bits of the stream header
  ChunkBits,    \* numbers of bits a chunk may be encoded to
  TailBits,     \* bits of the empty last metablock, 2
  MaxInput,     \* bound: bytes of the whole input
  MaxGiven,     \* bound: input bytes of one call
  MaxRoom       \* bound: output bytes of one call

ASSUME SizeAssumption ==
  /\ ByteBits \in Nat \ {0} /\ MetaBlockCap \in Nat \ {0}
  /\ Reserve \in Nat \ {0}
  /\ \A w \in Windows : w \in Nat /\ Reserve < w /\ w <= MetaBlockCap
ASSUME BitsAssumption ==
  HeaderBits \in Nat \ {0} /\ TailBits \in Nat \ {0} /\ ChunkBits \subseteq Nat \ {0}
ASSUME BoundAssumption == MaxInput \in Nat /\ MaxGiven \in Nat /\ MaxRoom \in Nat

VARIABLES
  fast,      \* quality <= 1: the fragment paths
  size,      \* 1 << window_bits
  length,    \* window.len()
  flushed,   \* StreamEncoder::flushed
  started, finished,
  bits,      \* BitWriter: bits written and not drained
  pc,        \* "idle"; "process" or "finish" within a call
  ending,    \* the call is finish()
  given,     \* input of the call not yet in the window
  asked,     \* the length of the call's output slice
  terminated, \* finish(): its loop has written a last metablock
  produced, status,
  base,      \* history variable: the input before the window
  accepted,  \* history variable: all the input so far
  chunks     \* history variable: the metablocks (or fragments) written

window   == <<length, flushed, base>>
flags    == <<started, finished>>
progress == <<produced, status>>
vars == <<fast, size, window, flags, bits, pc, ending, given, asked, terminated, progress, accepted,
          chunks>>

Least(a, b) == IF a <= b THEN a ELSE b
BytesFor(n) == (n + ByteBits - 1) \div ByteBits

MaxBackward == size - Reserve

CapByDistance ==   \* mutant: a fragment is what distances reach, not a window
  IF fast THEN MaxBackward ELSE MetaBlockCap
ChunkCap == IF fast THEN size ELSE MetaBlockCap

Pending == length - flushed

Chunk(from, to, last) == [from |-> base + from, to |-> base + to, last |-> last]

Init ==
  /\ fast \in BOOLEAN /\ size \in Windows
  /\ length = 0 /\ flushed = 0 /\ base = 0
  /\ started = FALSE /\ finished = FALSE
  /\ bits = 0
  /\ pc = "idle" /\ ending = FALSE /\ given = 0 /\ asked = 0 /\ terminated = FALSE
  /\ produced = 0 /\ status = "NeedInput"
  /\ accepted = 0 /\ chunks = <<>>

-----------------------------------------------------------------------------
(* emit and compact.                                                       *)

DroppedAll(to) ==   \* mutant: the history goes too
  to
Dropped(to) == IF fast THEN to ELSE IF to > MaxBackward THEN to - MaxBackward ELSE 0

\* Drops what no later match can reach, "to" being the new frontier.
Compact(filled, to) ==
  /\ length' = filled - Dropped(to)
  /\ flushed' = to - Dropped(to)
  /\ base' = base + Dropped(to)

StoredNoTail(to, last) ==   \* mutant: stored, with no room for the "last" bit
  <<Chunk(flushed, to, FALSE)>>
\* A stored metablock cannot be the last: an empty one follows it.
Stored(to, last) == IF last THEN <<Chunk(flushed, to, FALSE), Chunk(to, to, TRUE)>>
                            ELSE <<Chunk(flushed, to, FALSE)>>

Forms(to, last) == IF fast THEN {<<Chunk(flushed, to, FALSE)>>}
                   ELSE {<<Chunk(flushed, to, last)>>, Stored(to, last)}

\* The chunk at the frontier of a window of so many bytes, into the writer.
Emit(filled, last) ==
  LET to == Least(flushed + ChunkCap, filled) IN
  /\ started' = TRUE
  /\ \E n \in ChunkBits, form \in Forms(to, last) :
       /\ chunks' = chunks \o form
       /\ bits' = bits + n + (IF started THEN 0 ELSE HeaderBits)
                       + (IF Len(form) > 1 THEN TailBits ELSE 0)
  /\ Compact(filled, to)

-----------------------------------------------------------------------------
(* Drain and return.                                                       *)

Drain(o) == LET whole == bits \div ByteBits IN
            /\ produced' = Least(o, whole)
            /\ bits' = bits - (ByteBits * produced')

Queued == bits' \div ByteBits

DoneEarly ==   \* mutant: the stream is over as soon as it is terminated
  IF finished' THEN "Done" ELSE IF Queued > 0 THEN "NeedOutput" ELSE "NeedInput"
DrainStatus == IF finished' /\ Queued = 0 THEN "Done"
               ELSE IF Queued > 0 THEN "NeedOutput" ELSE "NeedInput"

Return(s) == status' = s /\ pc' = "idle"

-----------------------------------------------------------------------------
(* process().                                                              *)

Process(i, o) ==
  /\ pc = "idle" /\ accepted + i <= MaxInput
  /\ asked' = o /\ ending' = FALSE
  /\ IF finished
       THEN /\ Drain(o) /\ UNCHANGED flags /\ Return("Done")
            /\ UNCHANGED <<given, accepted>>
       ELSE /\ given' = i /\ accepted' = accepted + i /\ pc' = "process"
            /\ UNCHANGED <<flags, bits, progress>>
  /\ UNCHANGED <<fast, size, window, terminated, chunks>>

FillToCap == Least(ChunkCap - Pending, given)   \* mutant: not the byte past it
FillSize == Least(ChunkCap + 1 - Pending, given)

EmitsAtCap(filled) == filled - flushed >= ChunkCap   \* mutant: at it, not past it
Emits(filled) == filled - flushed > ChunkCap

Fill ==
  LET filled == length + FillSize IN
  /\ pc = "process" /\ given > 0
  /\ given' = given - FillSize
  /\ IF Emits(filled)
       THEN Emit(filled, FALSE)
       ELSE length' = filled /\ UNCHANGED <<flushed, base, started, bits, chunks>>
  /\ UNCHANGED <<fast, size, finished, pc, ending, asked, terminated, progress, accepted>>

Processed ==
  /\ pc = "process" /\ given = 0
  /\ UNCHANGED flags
  /\ Drain(asked) /\ Return(DrainStatus)
  /\ UNCHANGED <<fast, size, window, ending, given, asked, terminated, accepted, chunks>>

-----------------------------------------------------------------------------
(* finish().                                                               *)

Finish(o) ==
  /\ pc = "idle"
  /\ asked' = o /\ ending' = TRUE /\ terminated' = FALSE
  /\ IF finished
       THEN UNCHANGED flags /\ Drain(o) /\ Return(DrainStatus)
       ELSE pc' = "finish" /\ UNCHANGED <<flags, bits, progress>>
  /\ UNCHANGED <<fast, size, window, given, accepted, chunks>>

\* finished is set, and what is written goes out with the same call.
Finished(written) ==
  LET aligned == ByteBits * BytesFor(written) IN
  /\ finished' = TRUE
  /\ produced' = Least(asked, aligned \div ByteBits)
  /\ bits' = aligned - (ByteBits * produced')
  /\ Return(DrainStatus)

\* Nothing was emitted: the one-shot encoder has the whole input.
FinishSmall ==
  /\ pc = "finish" /\ ~ started
  /\ chunks' = <<Chunk(0, length, TRUE)>>
  /\ \E n \in ChunkBits : Finished(bits + HeaderBits + n)
  /\ base' = base + length /\ length' = 0 /\ flushed' = 0
  /\ UNCHANGED <<fast, size, started, ending, given, asked, terminated, accepted>>

LastChunk(remaining) == remaining <= ChunkCap

\* A turn of the loop over what the window still holds. A fragment is emitted
\* once, outside of any loop; it is all there is (PendingFits).
FinishEmit ==
  LET last == ~ fast /\ LastChunk(Pending) IN
  /\ pc = "finish" /\ started /\ Pending > 0
  /\ Emit(length, last)
  /\ terminated' = (terminated \/ last)
  /\ UNCHANGED <<fast, size, finished, pc, ending, given, asked, progress, accepted>>

\* The empty last metablock, unless the loop has written a last one.
FinishTail ==
  /\ pc = "finish" /\ started /\ Pending = 0
  /\ IF terminated
       THEN UNCHANGED chunks /\ Finished(bits)
       ELSE /\ chunks' = Append(chunks, Chunk(flushed, flushed, TRUE))
            /\ Finished(bits + TailBits)
  /\ UNCHANGED <<fast, size, window, started, ending, given, asked, terminated, accepted>>

-----------------------------------------------------------------------------

Turn == Fill \/ Processed \/ FinishSmall \/ FinishEmit \/ FinishTail
Caller == \/ \E i \in 0..MaxGiven, o \in 0..MaxRoom : Process(i, o)
          \/ \E o \in 0..MaxRoom : Finish(o)
Next == Turn \/ Caller

Spec == Init /\ [][Next]_vars

\* The loops of process() and finish() run; nothing obliges a caller to call.
FairSpec == Spec /\ WF_vars(Turn)

-----------------------------------------------------------------------------
(* Correctness. *)

TypeOK ==
  /\ fast \in BOOLEAN /\ size \in Windows
  /\ length \in Nat /\ flushed \in Nat /\ base \in Nat
  /\ started \in BOOLEAN /\ finished \in BOOLEAN
  /\ bits \in Nat
  /\ pc \in {"idle", "process", "finish"} /\ given \in Nat /\ asked \in 0..MaxRoom
  /\ produced \in 0..MaxRoom /\ status \in {"NeedInput", "NeedOutput", "Done"}
  /\ accepted \in 0..MaxInput
  /\ chunks \in Seq([from : Nat, to : Nat, last : BOOLEAN])
  /\ terminated \in BOOLEAN /\ ending \in BOOLEAN

\* Until finish() at most a chunk waits in the window, and once the stream has
\* begun at least a byte does: so the fill of a chunk never underflows, finish()
\* emits once, and that chunk is the last (a greedy stream never needs the tail
\* written for input that ends at a chunk's boundary).
PendingFits ==
  pc # "finish" /\ ~ finished => Pending <= ChunkCap /\ (started => Pending > 0)

\* The window holds no more than the history and a chunk and a byte, however
\* long the stream is; what it dropped, no distance from the frontier reaches.
WindowBounded ==
  /\ length <= (IF fast THEN 0 ELSE MaxBackward) + ChunkCap + 1
  /\ ~ fast /\ ~ finished => flushed >= Least(base + flushed, MaxBackward)

\* What waits, at both ends of the window (process, finish and compact).
WindowFits == PendingFits /\ WindowBounded

\* The chunks of the one-shot encoders (try_compress_stream of greedy.rs, and
\* compress of fragment.rs): the input cut at every multiple of the cap.
OneShotCap == IF fast THEN size ELSE MetaBlockCap
OneShotChunk(k) == [from |-> (k - 1) * OneShotCap, to |-> Least(k * OneShotCap, accepted)]

\* However the input is cut into calls, the stream is cut into chunks as the
\* one-shot encoder cuts it, and only finish() ends it: no chunk written before
\* reaches the end of the input so far.
ChunksAsOneShot ==
  \A k \in 1..Len(chunks) :
    /\ chunks[k].from < chunks[k].to =>
         [from |-> chunks[k].from, to |-> chunks[k].to] = OneShotChunk(k)
    /\ pc = "process" \/ (pc = "idle" /\ ~ finished) => chunks[k].to < accepted

\* A finished stream has one last metablock, which ends it, and stands for all
\* of the input; before finish() there is none.
TerminatedOnce ==
  /\ pc # "finish" => \A k \in 1..Len(chunks) :
       chunks[k].last <=> finished /\ k = Len(chunks)
  /\ finished => chunks # <<>> /\ chunks[Len(chunks)].to = accepted

\* finish() reports Done only when no byte or bit is left in the encoder,
\* NeedOutput only when the output slice is full, and never asks for input;
\* process() leaves no byte behind when it asks for input.
StatusMeans ==
  /\ pc = "idle" /\ status = "NeedOutput" => produced = asked /\ bits >= ByteBits
  /\ pc = "idle" /\ status = "NeedInput" => ~ finished /\ bits < ByteBits
  /\ pc = "idle" /\ status = "Done" => finished /\ (ending => bits = 0)
  /\ finished => bits % ByteBits = 0

\* Every byte given is in the window, was dropped from it, or is still to come.
InputKept ==
  /\ flushed <= length
  /\ base + length + given = accepted
  /\ pc # "process" => given = 0
  /\ finished => pc = "idle"

\* What waits, also while finish() goes on.
PendingBounded ==
  /\ Pending <= ChunkCap
  /\ started /\ ~ finished /\ pc # "finish" => Pending > 0
  /\ finished => Pending = 0

\* Until the last of the input is written, chunks are whole ones and end at the
\* frontier; after that they end with the input, the last one as a last one
\* unless it is still to come.
Open == ~ finished /\ (started => Pending > 0)
WholeChunk(k) == [from |-> (k - 1) * ChunkCap, to |-> k * ChunkCap, last |-> FALSE]
CutSoFar ==
  IF Open
    THEN /\ base + flushed = Len(chunks) * ChunkCap
         /\ \A k \in 1..Len(chunks) : chunks[k] = WholeChunk(k)
         /\ ~ started => chunks = <<>>
         /\ pc = "finish" => ~ terminated
    ELSE /\ base + flushed = accepted
         /\ chunks # <<>> /\ chunks[Len(chunks)].to = accepted
         /\ \A k \in 1..Len(chunks) :
              /\ chunks[k].from < chunks[k].to =>
                   [from |-> chunks[k].from, to |-> chunks[k].to] = OneShotChunk(k)
              /\ chunks[k].last <=> (finished \/ terminated) /\ k = Len(chunks)

\* The history is dropped to what a distance reaches, and never further.
HistoryKept ==
  /\ IF fast THEN flushed = 0 ELSE flushed <= MaxBackward
  /\ ~ fast /\ ~ finished => base = 0 \/ flushed = MaxBackward

\* The inductive invariant.
IInv == /\ TypeOK /\ InputKept /\ PendingBounded /\ CutSoFar /\ HistoryKept /\ StatusMeans

\* Every call returns.
CallsReturn == pc # "idle" ~> pc = "idle"

\* What README.md and lib.rs say of Done: the stream is complete, and all of it
\* has been given to the caller, as with the decoder's Done. It does not hold:
\* process(), called after a finish() that ran out of output, returns Done.
DoneMeansDrained == pc = "idle" /\ status = "Done" => bits = 0
=============================================================================
