------------------------------ MODULE History ------------------------------
(***************************************************************************)
(* The decoder's sliding window (src/decode/history.rs): a ring buffer     *)
(* that is allocated lazily while the stream is shorter than the ring and  *)
(* overwritten in place afterwards, and the bulk operations on it.         *)
(*                                                                         *)
(* One call is one or more steps: the loops of push_slice and copy_into    *)
(* are steps of their own, and pc says which loop a call is in. The window *)
(* is owned by one decoder, so calls never overlap.                        *)
(***************************************************************************)
EXTENDS Integers, Sequences

CONSTANTS RingSize,  \* 1 << WBITS
          Reserved,  \* 16: the ring slots a copy may never reach
          Byte,      \* the byte values; 0 is the initial context byte
          Unset,     \* a ring slot the vector has not grown to yet
          MaxOut,    \* bound: bytes decoded in all
          MaxSlice   \* bound: bytes of one push_slice or of one copy

ASSUME SizeAssumption == /\ RingSize \in Nat
                         /\ Reserved \in Nat
                         /\ Reserved < RingSize
ASSUME ByteAssumption == 0 \in Byte /\ Unset \notin Byte
ASSUME BoundAssumption == MaxOut \in Nat /\ MaxSlice \in Nat

VARIABLES
  buffer,      \* History::buffer, as slots 0..RingSize-1
  len,         \* buffer.len(): slots the vector has grown to
  write,       \* History::write
  available,   \* History::available
  previous,    \* History::previous
  second,      \* History::second_previous
  pc,          \* the loop the current call is in; "idle" between calls
  rest,        \* push_slice: the bytes not yet stored (remaining)
  output,      \* copy_into: the bytes of the caller's slice filled so far
  request,     \* copy_into: distance, and bytes to produce
  out,         \* history variable: every byte pushed, oldest first
  last         \* history variable: the last completed call

fields == <<buffer, len, write, available, previous, second>>
locals == <<pc, rest, output, request>>
vars   == <<fields, locals, out, last>>

Least(a, b) == IF a <= b THEN a ELSE b
Call(op, distance, count) == [op |-> op, distance |-> distance, count |-> count]
Slots == 0..(RingSize - 1)
WindowSize == RingSize - Reserved
NoRequest == [distance |-> 0, count |-> 0]

Mask(n) == n % RingSize   \* n & ring_mask, the ring size being a power of two

Init == /\ buffer = [s \in Slots |-> Unset]
        /\ len = 0 /\ write = 0 /\ available = 0
        /\ previous = 0 /\ second = 0
        /\ pc = "idle" /\ rest = <<>> /\ output = <<>> /\ request = NoRequest
        /\ out = <<>> /\ last = Call("none", 0, 0)

MaxBackwardDistance == Least(available, WindowSize)

\* What the next push leaves reachable, after n more bytes.
Reachable(n) == Least(available + n, WindowSize)

-----------------------------------------------------------------------------
(* push: one byte. *)

Push(b) ==
  /\ pc = "idle"
  /\ Len(out) < MaxOut
  /\ IF len < RingSize
       THEN /\ buffer' = [buffer EXCEPT ![len] = b]
            /\ len' = len + 1
            /\ write' = Mask(len + 1)
       ELSE /\ buffer' = [buffer EXCEPT ![write] = b]
            /\ len' = len
            /\ write' = Mask(write + 1)
  /\ available' = Reachable(1)
  /\ second' = previous
  /\ previous' = b
  /\ out' = Append(out, b)
  /\ last' = Call("push", 0, 1)
  /\ UNCHANGED locals

-----------------------------------------------------------------------------
(* push_slice: the context bytes and the reach first, then the bytes.      *)

UpdatePrevious(bytes) ==
  /\ second' = IF Len(bytes) = 1 THEN previous ELSE bytes[Len(bytes) - 1]
  /\ previous' = bytes[Len(bytes)]

BeginPush(bytes) ==
  /\ UpdatePrevious(bytes)
  /\ available' = Reachable(Len(bytes))
  /\ rest' = bytes
  /\ pc' = "grow"
  /\ out' = out \o bytes
  /\ UNCHANGED <<buffer, len, write>>

PushSlice(bytes) ==
  /\ pc = "idle"
  /\ bytes # <<>>
  /\ Len(out) + Len(bytes) <= MaxOut
  /\ BeginPush(bytes)
  /\ last' = Call("push", 0, Len(bytes))
  /\ UNCHANGED <<output, request>>

\* n bytes of the rest go to the slots from slot on.
StoreFrom(slot, n) ==
  /\ buffer' = [s \in Slots |-> IF s \in slot..(slot + n - 1)
                                   THEN rest[s - slot + 1] ELSE buffer[s]]
  /\ rest' = SubSeq(rest, n + 1, Len(rest))

Growth          == Least(Len(rest), RingSize - len)
ContiguousShort == Least(Len(rest), RingSize - 1 - write)   \* mutant
Contiguous      == Least(Len(rest), RingSize - write)

\* The vector grows up to the ring size before any slot is overwritten.
Grow ==
  /\ pc = "grow"
  /\ IF len < RingSize
       THEN StoreFrom(len, Growth) /\ len' = len + Growth /\ write' = Mask(len + Growth)
       ELSE UNCHANGED <<buffer, len, write, rest>>
  /\ pc' = "wrap"
  /\ UNCHANGED <<available, previous, second, output, request, out, last>>

\* One turn of the loop: a contiguous run, up to the end of the ring.
Wrap ==
  /\ pc = "wrap"
  /\ rest # <<>>
  /\ StoreFrom(write, Contiguous)
  /\ write' = Mask(write + Contiguous)
  /\ UNCHANGED <<len, available, previous, second, pc, output, request, out, last>>

EndPush ==
  /\ pc = "wrap"
  /\ rest = <<>>
  /\ pc' = "idle"
  /\ output' = <<>>
  /\ request' = NoRequest
  /\ UNCHANGED <<fields, rest, out, last>>

-----------------------------------------------------------------------------
(* copy_into: a seed from the ring, doubled in the caller's slice, pushed. *)

\* copy_history_prefix: n bytes starting distance bytes back, n <= distance.
HistoryPrefix(distance, n) ==
  IF len < RingSize
    THEN [i \in 1..n |-> buffer[len - distance + i - 1]]
    ELSE LET start == Mask(write + RingSize - distance)
             first == Least(n, RingSize - start)
         IN [i \in 1..n |-> IF i <= first THEN buffer[start + i - 1]
                                          ELSE buffer[i - first - 1]]

InvalidAtReach(distance) == distance = 0 \/ distance >= MaxBackwardDistance  \* mutant
InvalidDistance(distance) == distance = 0 \/ distance > MaxBackwardDistance

RejectCopy(distance, count) ==
  /\ pc = "idle"
  /\ InvalidDistance(distance)
  /\ last' = Call("error", distance, count)
  /\ UNCHANGED <<fields, locals, out>>

\* count bytes wanted, space bytes left in the caller's slice.
CopyInto(distance, count, space) ==
  LET produced == Least(count, space) IN
  /\ pc = "idle"
  /\ ~ InvalidDistance(distance)
  /\ Len(out) + produced <= MaxOut
  /\ IF produced = 0
       THEN /\ last' = Call("copy", distance, 0)
            /\ UNCHANGED locals
       ELSE /\ output' = HistoryPrefix(distance, Least(produced, distance))
            /\ request' = [distance |-> distance, count |-> produced]
            /\ pc' = "double"
            /\ UNCHANGED <<rest, last>>
  /\ UNCHANGED <<fields, out>>

DoubleTail ==   \* mutant: the last turn takes the newest bytes, not the oldest
  /\ pc = "double"
  /\ Len(output) < request.count
  /\ LET chunk == Least(request.count - Len(output), Len(output))
     IN output' = output \o SubSeq(output, Len(output) - chunk + 1, Len(output))
  /\ UNCHANGED <<fields, pc, rest, request, out, last>>

\* One turn of the loop: copy_within doubles the filled part.
Double ==
  /\ pc = "double"
  /\ Len(output) < request.count
  /\ LET chunk == Least(request.count - Len(output), Len(output))
     IN output' = output \o SubSeq(output, 1, chunk)
  /\ UNCHANGED <<fields, pc, rest, request, out, last>>

CopyPush ==
  /\ pc = "double"
  /\ Len(output) = request.count
  /\ BeginPush(output)
  /\ last' = Call("copy", request.distance, request.count)
  /\ UNCHANGED <<output, request>>

-----------------------------------------------------------------------------

Slices == UNION {[1..n -> Byte] : n \in 1..MaxSlice}

Caller == \/ \E b \in Byte : Push(b)
          \/ \E bytes \in Slices : PushSlice(bytes)
          \/ \E distance \in 0..(RingSize + 1), count, space \in 0..MaxSlice :
               \/ CopyInto(distance, count, space)
               \/ RejectCopy(distance, count)

Loops == Grow \/ Wrap \/ EndPush \/ Double \/ CopyPush

Next == Caller \/ Loops

Spec == Init /\ [][Next]_vars

\* A call runs to its end; nothing obliges a caller to call again.
FairSpec == Spec /\ WF_vars(Loops)

-----------------------------------------------------------------------------
(* Correctness. *)

TypeOK ==
  /\ buffer \in [Slots -> Byte \cup {Unset}]
  /\ len \in 0..RingSize /\ write \in Slots /\ available \in 0..WindowSize
  /\ previous \in Byte /\ second \in Byte
  /\ pc \in {"idle", "grow", "wrap", "double"}
  /\ rest \in Seq(Byte) /\ output \in Seq(Byte) /\ out \in Seq(Byte)
  /\ request \in [distance : Nat, count : Nat]
  /\ last \in [op : {"none", "push", "copy", "error"}, distance : Nat, count : Nat]

\* The number of bytes of out that have reached the ring.
Stored == Len(out) - Len(rest)

\* The slot of the j-th of n bytes, for the last RingSize of them, when the
\* next one goes to slot w.
SlotOf(j, n, w) == IF j + w > n THEN j + w - n - 1 ELSE j + w - n - 1 + RingSize

\* The slots of buf hold the last RingSize of the first n bytes of s.
Holds(buf, n, w, s) ==
  \A j \in 1..n : j + RingSize > n => buf[SlotOf(j, n, w)] = s[j]

\* The ring holds the last RingSize bytes stored, each in the slot that the
\* write position implies, through growth, wrap-around and slices longer than
\* the ring (push, push_slice).
RingHoldsWindow ==
  /\ len = Least(Stored, RingSize)
  /\ len < RingSize => write = len
  /\ Holds(buffer, Stored, write, out)

\* Between calls the reach of a copy is exactly the bytes decoded, capped by
\* the window, and never covers a slot that was not allocated (available).
ReachIsExact ==
  /\ available = Least(Len(out), WindowSize)
  /\ pc = "idle" => available <= len

\* The literal-context bytes are the last two bytes of the stream whichever
\* operation pushed them (push, update_previous).
ContextBytes ==
  /\ previous = IF Len(out) = 0 THEN 0 ELSE out[Len(out)]
  /\ second = IF Len(out) <= 1 THEN 0 ELSE out[Len(out) - 1]

\* While copy_into doubles the caller's slice, what is filled already repeats
\* the bytes of the stream from distance back, as a byte-by-byte copy would, and
\* only the last turn may stop within a repetition (copy_into,
\* copy_history_prefix).
FilledRepeats ==
  pc = "double" =>
    /\ Len(output) \in 1..request.count
    /\ request.distance \in 1..MaxBackwardDistance
    /\ Len(output) < request.count => Len(output) % request.distance = 0
    /\ \A i \in 1..Len(output) :
         output[i] = out[Len(out) - request.distance + 1 + ((i - 1) % request.distance)]

\* What a call in progress still owes: the bytes not yet in the ring are the
\* tail of the stream, and slots are overwritten only once the ring is full
\* (the two loops of push_slice).
CallInProgress ==
  /\ pc \in {"idle", "double"} => rest = <<>>
  /\ Len(rest) <= Len(out)
  /\ \A i \in 1..Len(rest) : rest[i] = out[Stored + i]
  /\ pc = "wrap" /\ rest # <<>> => len = RingSize

\* Everything that holds between two turns, together: the ring, the reach, the
\* context bytes, the half-filled output of a copy and the bytes a call still
\* owes. No part is kept without the others; this is what the proofs induct on.
IInv == /\ TypeOK
        /\ RingHoldsWindow
        /\ ReachIsExact
        /\ ContextBytes
        /\ FilledRepeats
        /\ CallInProgress

\* The ring implements the unbounded window: every accepted copy repeats the
\* bytes of the stream, every other distance is rejected (History as a whole).
Window == INSTANCE HistoryWindow
            WITH Byte <- Byte, WindowSize <- WindowSize, out <- out, last <- last
WindowSpec == Window!Spec

\* Every call returns: the loops of push_slice and copy_into end.
CallsReturn == pc # "idle" ~> pc = "idle"
=============================================================================
