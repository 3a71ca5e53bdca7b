------------------------ MODULE StreamEncoderProofs ------------------------
(***************************************************************************)
(* The incremental encoder cuts its input as the one-shot encoder does,    *)
(* ends the stream once and with all of the input, keeps a bounded window  *)
(* that still holds what a distance reaches, and says truly why a call     *)
(* stops: for any sizes of windows, chunks and codes, and calls with any   *)
(* slices.                                                                 *)
(***************************************************************************)
EXTENDS StreamEncoder, TLAPS

-----------------------------------------------------------------------------
(* Arithmetic. *)

(* Whole bytes of some bits, and what is left beyond them.                 *)
LEMMA WholeBytes ==
  ASSUME NEW b \in Nat \ {0}, NEW x \in Nat
  PROVE  /\ x \div b \in Nat /\ b * (x \div b) <= x /\ x < b * (x \div b) + b
         /\ x \div b > 0 <=> x >= b
         /\ x % b = 0 => x = b * (x \div b)
<1>1. x \div b \in Nat /\ b * (x \div b) <= x /\ x < b * (x \div b) + b
  OBVIOUS
<1>2. x \div b > 0 <=> x >= b
  OBVIOUS
<1>3. x % b = 0 => x = b * (x \div b)
  OBVIOUS
<1>4. QED
  BY <1>1, <1>2, <1>3

LEMMA Multiples ==
  ASSUME NEW b \in Nat \ {0}, NEW m \in Nat
  PROVE  b * m \in Nat /\ (b * m) % b = 0 /\ (b * m) \div b = m
<1>1. b * m \in Nat
  OBVIOUS
<1>2. (b * m) % b = 0
  OBVIOUS
<1>3. (b * m) \div b = m
  OBVIOUS
<1>4. QED
  BY <1>1, <1>2, <1>3

LEMMA MultiplesLess ==
  ASSUME NEW b \in Nat \ {0}, NEW m \in Nat, NEW n \in Nat, n <= m
  PROVE  /\ m - n \in Nat /\ b * m - b * n = b * (m - n) /\ b * n <= b * m
         /\ n < m => b * (m - n) >= b
<1>1. m - n \in Nat /\ b * m - b * n = b * (m - n)
  OBVIOUS
<1>2. b * n <= b * m
  OBVIOUS
<1>3. n < m => b * (m - n) >= b
  OBVIOUS
<1>4. QED
  BY <1>1, <1>2, <1>3

(* Chunks of a length one after the other.                                 *)
LEMMA NextMultiple ==
  ASSUME NEW c \in Nat, NEW n \in Nat
  PROVE  n * c \in Nat /\ (n + 1) * c = n * c + c /\ ((n + 1) - 1) * c = n * c
<1>1. n * c \in Nat /\ (n + 1) * c = n * c + c
  OBVIOUS
<1>2. (n + 1) - 1 = n
  OBVIOUS
<1>3. QED
  BY <1>1, <1>2

LEMMA MultiplesGrow ==
  ASSUME NEW c \in Nat, NEW m \in Nat, NEW n \in Nat, m <= n
  PROVE  m * c <= n * c
OBVIOUS

-----------------------------------------------------------------------------
(* The parts of a turn. *)

(* The sizes a stream works with.                                          *)
LEMMA Sizes ==
  ASSUME TypeOK
  PROVE  /\ size \in Nat /\ ChunkCap \in Nat \ {0} /\ MaxBackward \in Nat
         /\ OneShotCap = ChunkCap /\ ByteBits \in Nat \ {0}
<1>1. size \in Nat /\ Reserve \in Nat /\ Reserve < size /\ MetaBlockCap \in Nat \ {0}
  BY SizeAssumption DEF TypeOK
<1>2. QED
  BY <1>1, SizeAssumption DEF ChunkCap, OneShotCap, MaxBackward

(* compact() moves the window, and drops no more than it may.              *)
LEMMA CompactKeeps ==
  ASSUME IInv, ~ finished, NEW filled \in Nat, NEW to \in flushed..filled, Compact(filled, to),
         UNCHANGED <<fast, size, finished>>
  PROVE  /\ length' \in Nat /\ flushed' \in Nat /\ base' \in Nat /\ flushed' <= length'
         /\ length' - flushed' = filled - to
         /\ base' + flushed' = base + to /\ base' + length' = base + filled
         /\ HistoryKept'
<1>1. /\ MaxBackward \in Nat /\ flushed \in Nat /\ base \in Nat /\ to \in Nat /\ to <= filled
      /\ flushed <= to
  BY Sizes DEF IInv, TypeOK
<1>2. MaxBackward' = MaxBackward
  BY DEF MaxBackward
<1> DEFINE dropped == Dropped(to)
<1>3. /\ dropped \in 0..to
      /\ fast => to - dropped = 0
      /\ ~ fast => \/ dropped = 0 /\ to <= MaxBackward
                   \/ to - dropped = MaxBackward
  BY <1>1 DEF Dropped
<1>4. length' = filled - dropped /\ flushed' = to - dropped /\ base' = base + dropped
  BY DEF Compact
<1> HIDE DEF dropped
<1>5. /\ filled - dropped \in Nat /\ to - dropped \in Nat /\ base + dropped \in Nat
      /\ to - dropped <= filled - dropped
      /\ (filled - dropped) - (to - dropped) = filled - to
      /\ (base + dropped) + (to - dropped) = base + to
      /\ (base + dropped) + (filled - dropped) = base + filled
  BY <1>1, <1>3
<1>6. fast => flushed' = 0
  BY <1>3, <1>4
<1>7. ~ fast => flushed' <= MaxBackward /\ (base' = 0 \/ flushed' = MaxBackward)
  <2> SUFFICES ASSUME ~ fast PROVE flushed' <= MaxBackward /\ (base' = 0 \/ flushed' = MaxBackward)
    OBVIOUS
  <2>1. base = 0 \/ flushed = MaxBackward
    BY DEF IInv, HistoryKept
  <2>2. CASE to - dropped = MaxBackward
    BY <1>1, <1>4, <2>2
  <2>3. CASE dropped = 0 /\ to <= MaxBackward
    <3>1. base + 0 = base /\ to - 0 = to
      BY <1>1
    <3>2. flushed' = to /\ base' = base
      BY <1>4, <2>3, <3>1
    <3>3. QED
      BY <1>1, <2>1, <2>3, <3>2
  <2>4. QED
    BY <1>3, <2>2, <2>3
<1>8. HistoryKept'
  BY <1>2, <1>6, <1>7 DEF HistoryKept
<1>9. QED
  BY <1>4, <1>5, <1>8

Chunks == [from : Nat, to : Nat, last : BOOLEAN]

LEMMA AppendOne ==
  ASSUME NEW S, NEW s \in Seq(S), NEW e
  PROVE  s \o <<e>> = Append(s, e)
OBVIOUS

LEMMA Appending ==
  ASSUME NEW S, NEW s \in Seq(S), NEW e \in S
  PROVE  /\ Append(s, e) \in Seq(S) /\ Len(s) \in Nat /\ Len(Append(s, e)) = Len(s) + 1
         /\ \A k \in 1..Len(s) : Append(s, e)[k] = s[k]
         /\ Append(s, e)[Len(s) + 1] = e
OBVIOUS

LEMMA AppendTwo ==
  ASSUME NEW S, NEW s \in Seq(S), NEW e \in S, NEW f \in S
  PROVE  s \o <<e, f>> = Append(Append(s, e), f)
OBVIOUS

(* What a chunk adds: itself, or, as a stored last one, itself and an empty *)
(* metablock.                                                              *)
LEMMA FormsWritten ==
  ASSUME TypeOK, NEW to \in Nat, NEW last \in BOOLEAN, last => ~ fast,
         NEW form \in Forms(to, last)
  PROVE  /\ Chunk(flushed, to, last) \in Chunks /\ Chunk(flushed, to, FALSE) \in Chunks
         /\ Chunk(to, to, TRUE) \in Chunks
         /\ \/ chunks \o form = Append(chunks, Chunk(flushed, to, last))
            \/ /\ last
               /\ chunks \o form =
                    Append(Append(chunks, Chunk(flushed, to, FALSE)), Chunk(to, to, TRUE))
         /\ Len(form) \in Nat
<1>1. /\ Chunk(flushed, to, last) \in Chunks /\ Chunk(flushed, to, FALSE) \in Chunks
      /\ Chunk(to, to, TRUE) \in Chunks /\ chunks \in Seq(Chunks)
  BY DEF TypeOK, Chunk, Chunks
<1>2. \/ form = <<Chunk(flushed, to, last)>>
      \/ last /\ form = <<Chunk(flushed, to, FALSE), Chunk(to, to, TRUE)>>
  BY DEF Forms, Stored
<1> HIDE DEF Chunk
<1>3. CASE form = <<Chunk(flushed, to, last)>>
  BY <1>1, <1>3, AppendOne
<1>4. CASE last /\ form = <<Chunk(flushed, to, FALSE), Chunk(to, to, TRUE)>>
  <2> DEFINE stored == Chunk(flushed, to, FALSE)
             tail == Chunk(to, to, TRUE)
  <2>1. stored \in Chunks /\ tail \in Chunks /\ form = <<stored, tail>>
    BY <1>1, <1>4
  <2> HIDE DEF stored, tail, Chunks
  <2>2. chunks \o form = Append(Append(chunks, stored), tail) /\ Len(form) = 2
    BY <1>1, <2>1, AppendTwo
  <2>3. QED
    BY <1>1, <1>4, <2>2 DEF stored, tail
<1>5. QED
  BY <1>1, <1>2, <1>3, <1>4

(* What a call drains, and what stays.                                     *)
LEMMA DrainKeeps ==
  ASSUME NEW written \in Nat, NEW o \in 0..MaxRoom,
         produced' = Least(o, written \div ByteBits),
         bits' = written - (ByteBits * produced')
  PROVE  /\ bits' \in Nat /\ produced' \in 0..MaxRoom
         /\ Queued > 0 <=> bits' >= ByteBits
         /\ bits' >= ByteBits => produced' = o
         /\ written % ByteBits = 0 => bits' % ByteBits = 0
         /\ bits' % ByteBits = 0 /\ bits' < ByteBits => bits' = 0
<1>1. ByteBits \in Nat \ {0} /\ MaxRoom \in Nat
  BY SizeAssumption, BoundAssumption
<1> DEFINE whole == written \div ByteBits
           p == Least(o, whole)
<1>2. /\ whole \in Nat /\ ByteBits * whole <= written /\ written < ByteBits * whole + ByteBits
      /\ written % ByteBits = 0 => written = ByteBits * whole
  BY <1>1, WholeBytes
<1>3. p \in Nat /\ p <= whole /\ p \in 0..MaxRoom /\ (p = o \/ p = whole)
  BY <1>1, <1>2 DEF Least
<1>4. produced' = p /\ bits' = written - (ByteBits * p)
  OBVIOUS
<1> HIDE DEF whole, p
<1>5. /\ whole - p \in Nat /\ (ByteBits * whole) - (ByteBits * p) = ByteBits * (whole - p)
      /\ ByteBits * p <= ByteBits * whole
      /\ ByteBits * p \in Nat /\ ByteBits * whole \in Nat
  BY <1>1, <1>2, <1>3, MultiplesLess, Multiples
<1> DEFINE left == written - (ByteBits * p)
<1>6. left \in Nat /\ (p = whole => left < ByteBits)
  BY <1>1, <1>2, <1>3, <1>5
<1>7. written % ByteBits = 0 => left % ByteBits = 0
  <2>1. written % ByteBits = 0 => left = ByteBits * (whole - p)
    BY <1>2, <1>5
  <2>2. QED
    BY <1>1, <1>5, <2>1, Multiples
<1>8. /\ left \div ByteBits > 0 <=> left >= ByteBits
      /\ left % ByteBits = 0 /\ left < ByteBits => left = 0
  <2>1. /\ left \div ByteBits > 0 <=> left >= ByteBits
        /\ left \div ByteBits \in Nat
        /\ left % ByteBits = 0 => left = ByteBits * (left \div ByteBits)
    BY <1>1, <1>6, WholeBytes
  <2>2. left < ByteBits => left \div ByteBits = 0
    BY <1>1, <1>6, <2>1
  <2>3. ByteBits * 0 = 0
    BY <1>1
  <2>4. QED
    BY <2>1, <2>2, <2>3
<1>9. bits' = left /\ Queued = left \div ByteBits
  BY <1>4 DEF Queued
<1> HIDE DEF left
<1>10. left >= ByteBits => p = o
  BY <1>1, <1>3, <1>6
<1>11. QED
  BY <1>3, <1>4, <1>6, <1>7, <1>8, <1>9, <1>10

-----------------------------------------------------------------------------
(* How a call begins. *)

(* What of the invariant the window and the chunks decide.                 *)
LEMMA SameStream ==
  ASSUME IInv, UNCHANGED <<fast, size, length, flushed, base, started, chunks>>
  PROVE  /\ Pending' = Pending /\ ChunkCap' = ChunkCap /\ MaxBackward' = MaxBackward
         /\ OneShotCap' = OneShotCap
         /\ \A k \in Nat : WholeChunk(k)' = WholeChunk(k)
  BY DEF Pending, ChunkCap, MaxBackward, OneShotCap, WholeChunk

LEMMA ProcessIInv ==
  ASSUME IInv, NEW i \in 0..MaxGiven, NEW o \in 0..MaxRoom, Process(i, o)
  PROVE  IInv'
<1>1. /\ pc = "idle" /\ accepted + i <= MaxInput /\ asked' = o /\ ending' = FALSE
      /\ UNCHANGED <<fast, size, length, flushed, base, started, finished, terminated, chunks>>
  BY DEF Process, window, flags
<1>2. i \in Nat /\ accepted \in 0..MaxInput /\ MaxInput \in Nat /\ given = 0
  BY <1>1, BoundAssumption DEF IInv, TypeOK, InputKept
<1>3. CASE finished
  <2>1. /\ Drain(o) /\ status' = "Done" /\ pc' = "idle" /\ UNCHANGED <<given, accepted>>
    BY <1>3 DEF Process, Return
  <2>2. /\ bits' \in Nat /\ produced' \in 0..MaxRoom
        /\ bits % ByteBits = 0 => bits' % ByteBits = 0
    BY <2>1, DrainKeeps DEF Drain, IInv, TypeOK
  <2>3. TypeOK'
    BY <1>1, <2>1, <2>2 DEF IInv, TypeOK
  <2>4. InputKept' /\ PendingBounded' /\ HistoryKept'
    BY <1>1, <1>3, <2>1, SameStream DEF IInv, InputKept, PendingBounded, HistoryKept
  <2>5. CutSoFar'
    BY <1>1, <1>3, <2>1, SameStream DEF IInv, CutSoFar, Open, OneShotChunk
  <2>6. StatusMeans'
    BY <1>1, <1>3, <2>1, <2>2 DEF IInv, StatusMeans
  <2>7. QED
    BY <2>3, <2>4, <2>5, <2>6 DEF IInv
<1>4. CASE ~ finished
  <2>1. /\ given' = i /\ accepted' = accepted + i /\ pc' = "process"
        /\ UNCHANGED <<bits, produced, status>>
    BY <1>4 DEF Process, progress
  <2>2. accepted + i \in 0..MaxInput /\ base + length + 0 = accepted
    BY <1>1, <1>2 DEF IInv, InputKept
  <2>3. TypeOK'
    BY <1>1, <1>2, <2>1, <2>2 DEF IInv, TypeOK
  <2>4. InputKept'
    <3>1. base + length = accepted
      BY <2>2 DEF IInv, TypeOK
    <3>2. QED
      BY <1>1, <1>4, <2>1, <3>1 DEF IInv, InputKept
  <2>5. PendingBounded' /\ HistoryKept'
    BY <1>1, <1>4, <2>1, SameStream DEF IInv, PendingBounded, HistoryKept
  <2>6. CutSoFar'
    <3>1. Open /\ Open'
      BY <1>1, <1>4, <2>1, SameStream DEF IInv, PendingBounded, Open
    <3>2. QED
      BY <1>1, <2>1, <3>1, SameStream DEF IInv, CutSoFar
  <2>7. StatusMeans'
    BY <1>1, <1>4, <2>1 DEF StatusMeans
  <2>8. QED
    BY <2>3, <2>4, <2>5, <2>6, <2>7 DEF IInv
<1>5. QED
  BY <1>3, <1>4

(* What a drained call returns is so.                                      *)
LEMMA DrainStatusMeans ==
  ASSUME NEW written \in Nat, NEW o \in 0..MaxRoom, written % ByteBits = 0 \/ ~ finished',
         produced' = Least(o, written \div ByteBits),
         bits' = written - (ByteBits * produced'),
         Return(DrainStatus), asked' = o
  PROVE  /\ StatusMeans' /\ bits' \in Nat /\ produced' \in 0..MaxRoom /\ pc' = "idle"
         /\ status' \in {"NeedInput", "NeedOutput", "Done"}
<1>1. /\ bits' \in Nat /\ produced' \in 0..MaxRoom
      /\ Queued > 0 <=> bits' >= ByteBits
      /\ bits' >= ByteBits => produced' = o
      /\ written % ByteBits = 0 => bits' % ByteBits = 0
      /\ bits' % ByteBits = 0 /\ bits' < ByteBits => bits' = 0
  BY DrainKeeps
<1>2. ByteBits \in Nat \ {0} /\ Queued \in Nat
  BY <1>1, SizeAssumption, WholeBytes DEF Queued
<1>3. /\ pc' = "idle"
      /\ status' = IF finished' /\ Queued = 0 THEN "Done"
                   ELSE IF Queued > 0 THEN "NeedOutput" ELSE "NeedInput"
  BY DEF Return, DrainStatus
<1>4. Queued = 0 => bits' < ByteBits
  BY <1>1, <1>2
<1>5. finished' => bits' % ByteBits = 0
  BY <1>1
<1>6. status' = "NeedOutput" => Queued > 0
  BY <1>3
<1>7. status' = "NeedInput" => Queued = 0 /\ ~ finished'
  BY <1>2, <1>3
<1>8. status' = "Done" => Queued = 0 /\ finished'
  BY <1>3
<1>9. QED
  BY <1>1, <1>3, <1>4, <1>5, <1>6, <1>7, <1>8 DEF StatusMeans

LEMMA FinishIInv ==
  ASSUME IInv, NEW o \in 0..MaxRoom, Finish(o)
  PROVE  IInv'
<1>1. /\ pc = "idle" /\ asked' = o /\ ending' = TRUE /\ terminated' = FALSE
      /\ UNCHANGED <<fast, size, length, flushed, base, started, finished, given, accepted, chunks>>
  BY DEF Finish, window, flags
<1>2. CASE finished
  <2>1. Drain(o) /\ Return(DrainStatus)
    BY <1>2 DEF Finish
  <2>2. bits \in Nat /\ bits % ByteBits = 0
    BY <1>2 DEF IInv, TypeOK, StatusMeans
  <2>3. /\ StatusMeans' /\ bits' \in Nat /\ produced' \in 0..MaxRoom /\ pc' = "idle"
        /\ status' \in {"NeedInput", "NeedOutput", "Done"}
    BY <1>1, <2>1, <2>2, DrainStatusMeans DEF Drain
  <2>4. TypeOK'
    BY <1>1, <2>3 DEF IInv, TypeOK
  <2>5. InputKept' /\ PendingBounded' /\ HistoryKept'
    BY <1>1, <1>2, <2>3, SameStream DEF IInv, InputKept, PendingBounded, HistoryKept
  <2>6. CutSoFar'
    BY <1>1, <1>2, SameStream DEF IInv, CutSoFar, Open, OneShotChunk
  <2>7. QED
    BY <2>3, <2>4, <2>5, <2>6 DEF IInv
<1>3. CASE ~ finished
  <2>1. pc' = "finish" /\ UNCHANGED <<bits, produced, status>>
    BY <1>3 DEF Finish, progress
  <2>2. TypeOK'
    BY <1>1, <2>1 DEF IInv, TypeOK
  <2>3. InputKept' /\ PendingBounded' /\ HistoryKept'
    BY <1>1, <1>3, <2>1, SameStream DEF IInv, InputKept, PendingBounded, HistoryKept
  <2>4. CutSoFar'
    <3>1. Open /\ Open'
      BY <1>1, <1>3, <2>1, SameStream DEF IInv, PendingBounded, Open
    <3>2. QED
      BY <1>1, <2>1, <3>1, SameStream DEF IInv, CutSoFar
  <2>5. StatusMeans'
    BY <1>1, <1>3, <2>1 DEF StatusMeans
  <2>6. QED
    BY <2>2, <2>3, <2>4, <2>5 DEF IInv
<1>4. QED
  BY <1>2, <1>3

-----------------------------------------------------------------------------
(* process(). *)

LEMMA ProcessedIInv ==
  ASSUME IInv, Processed
  PROVE  IInv'
<1>1. /\ pc = "process" /\ given = 0 /\ Drain(asked) /\ Return(DrainStatus)
      /\ UNCHANGED <<fast, size, length, flushed, base, started, finished, ending, given, asked,
                     terminated, accepted, chunks>>
  BY DEF Processed, window, flags
<1>2. ~ finished /\ ~ finished'
  BY <1>1 DEF IInv, InputKept
<1>3. /\ StatusMeans' /\ bits' \in Nat /\ produced' \in 0..MaxRoom /\ pc' = "idle"
      /\ status' \in {"NeedInput", "NeedOutput", "Done"}
  BY <1>1, <1>2, DrainStatusMeans DEF Drain, IInv, TypeOK
<1>4. TypeOK'
  BY <1>1, <1>3 DEF IInv, TypeOK
<1>5. InputKept' /\ PendingBounded' /\ HistoryKept'
  BY <1>1, <1>2, <1>3, SameStream DEF IInv, InputKept, PendingBounded, HistoryKept
<1>6. CutSoFar'
  <2>1. Open /\ Open'
    BY <1>1, <1>2, SameStream DEF IInv, PendingBounded, Open
  <2>2. QED
    BY <1>1, <1>3, <2>1, SameStream DEF IInv, CutSoFar
<1>7. QED
  BY <1>3, <1>4, <1>5, <1>6 DEF IInv

(* The window takes input, and a chunk is written once there is a byte     *)
(* past it: the frontier moves by a whole chunk and leaves that byte.      *)
LEMMA FillIInv ==
  ASSUME IInv, Fill
  PROVE  IInv'
<1> DEFINE filled == length + FillSize
<1>1. /\ pc = "process" /\ given > 0 /\ given' = given - FillSize
      /\ UNCHANGED <<fast, size, finished, pc, ending, asked, terminated, produced, status, accepted>>
      /\ IF Emits(filled) THEN Emit(filled, FALSE)
         ELSE length' = filled /\ UNCHANGED <<flushed, base, started, bits, chunks>>
  BY DEF Fill, progress
<1>2. /\ length \in Nat /\ flushed \in Nat /\ base \in Nat /\ given \in Nat /\ accepted \in Nat
      /\ ChunkCap \in Nat \ {0} /\ flushed <= length /\ length - flushed <= ChunkCap
      /\ base + length + given = accepted /\ bits \in Nat
  BY Sizes, BoundAssumption DEF IInv, TypeOK, InputKept, PendingBounded, Pending
<1>3. /\ ~ finished /\ ~ finished' /\ Open /\ MaxInput \in Nat
  BY <1>1, BoundAssumption DEF IInv, InputKept, PendingBounded, Open
<1>4. /\ FillSize \in Nat /\ FillSize <= given
      /\ filled - flushed <= ChunkCap + 1 /\ length <= filled /\ filled \in Nat
      /\ given - FillSize \in Nat /\ base + filled + (given - FillSize) = accepted
      /\ (length - flushed > 0 => filled - flushed > 0)
  BY <1>2 DEF FillSize, Least, Pending
<1> HIDE DEF filled
<1>5. StatusMeans'
  BY <1>1, <1>3 DEF StatusMeans
<1>6. ChunkCap' = ChunkCap
  BY <1>1 DEF ChunkCap
<1>7. CASE Emits(filled)
  <2> DEFINE to == flushed + ChunkCap
  <2>1. /\ to \in Nat /\ filled - to = 1 /\ to <= filled /\ flushed <= to
        /\ Least(flushed + ChunkCap, filled) = to
    BY <1>2, <1>4, <1>7 DEF Emits, Least
  <2> HIDE DEF to
  <2>2. PICK n \in ChunkBits, form \in Forms(to, FALSE) :
          /\ started' = TRUE /\ Compact(filled, to)
          /\ chunks' = chunks \o form
          /\ bits' = bits + n + (IF started THEN 0 ELSE HeaderBits)
                       + (IF Len(form) > 1 THEN TailBits ELSE 0)
    BY <1>1, <1>7, <2>1 DEF Emit
  <2>3. /\ length' \in Nat /\ flushed' \in Nat /\ base' \in Nat /\ flushed' <= length'
        /\ length' - flushed' = filled - to
        /\ base' + flushed' = base + to /\ base' + length' = base + filled
        /\ HistoryKept'
    BY <1>1, <1>2, <1>3, <1>4, <2>1, <2>2, CompactKeeps
  <2>4. /\ Chunk(flushed, to, FALSE) \in Chunks
        /\ chunks' = Append(chunks, Chunk(flushed, to, FALSE))
    BY <2>1, <2>2, FormsWritten DEF IInv
  <2>5. bits' \in Nat
    BY <1>2, <2>2, BitsAssumption
  <2>6. /\ chunks \in Seq(Chunks) /\ chunks' \in Seq(Chunks) /\ Len(chunks) \in Nat
        /\ Len(chunks') = Len(chunks) + 1
        /\ \A k \in 1..Len(chunks) : chunks'[k] = chunks[k]
        /\ chunks'[Len(chunks) + 1] = Chunk(flushed, to, FALSE)
    <3>1. chunks \in Seq(Chunks)
      BY DEF IInv, TypeOK, Chunks
    <3> DEFINE chunk == Chunk(flushed, to, FALSE)
    <3>2. chunk \in Chunks /\ chunks' = Append(chunks, chunk)
      BY <2>4
    <3> HIDE DEF chunk, Chunks
    <3>3. /\ chunks' \in Seq(Chunks) /\ Len(chunks) \in Nat
          /\ Len(chunks') = Len(chunks) + 1
          /\ \A k \in 1..Len(chunks) : chunks'[k] = chunks[k]
          /\ chunks'[Len(chunks) + 1] = chunk
      BY <3>1, <3>2, Appending
    <3>4. QED
      BY <3>1, <3>3 DEF chunk
  <2>7. TypeOK'
    <3>1. given' \in Nat
      BY <1>1, <1>4
    <3>2. chunks' \in Seq([from : Nat, to : Nat, last : BOOLEAN])
      BY <2>6 DEF Chunks
    <3>3. QED
      BY <1>1, <2>2, <2>3, <2>5, <3>1, <3>2 DEF IInv, TypeOK
  <2>8. InputKept'
    <3>1. given' = given - FillSize
      BY <1>1
    <3>2. (base + filled) + (given - FillSize) = accepted
      BY <1>4
    <3>3. base' + length' + given' = accepted'
      BY <1>1, <2>3, <3>1, <3>2
    <3>4. QED
      BY <1>1, <1>3, <2>3, <3>3 DEF InputKept
  <2>9. Pending' = 1
    BY <2>1, <2>3 DEF Pending
  <2>10. PendingBounded' /\ Open'
    BY <1>2, <1>3, <1>6, <2>9 DEF PendingBounded, Open
  <2>11. CutSoFar'
    <3>1. /\ base + flushed = Len(chunks) * ChunkCap
          /\ \A k \in 1..Len(chunks) : chunks[k] = WholeChunk(k)
      BY <1>3 DEF IInv, CutSoFar
    <3>2. /\ (Len(chunks) + 1) * ChunkCap = Len(chunks) * ChunkCap + ChunkCap
          /\ ((Len(chunks) + 1) - 1) * ChunkCap = Len(chunks) * ChunkCap
          /\ Len(chunks) * ChunkCap \in Nat
      BY <1>2, <2>6, NextMultiple
    <3>3. base + to = (Len(chunks) + 1) * ChunkCap
      BY <1>2, <3>1, <3>2 DEF to
    <3>4. Chunk(flushed, to, FALSE) = WholeChunk(Len(chunks) + 1)
      BY <3>1, <3>2, <3>3 DEF Chunk, WholeChunk
    <3>5. \A k \in Nat : WholeChunk(k)' = WholeChunk(k)
      BY <1>6 DEF WholeChunk
    <3>6. \A k \in 1..Len(chunks') : chunks'[k] = WholeChunk(k)'
      <4> SUFFICES ASSUME NEW k \in 1..Len(chunks') PROVE chunks'[k] = WholeChunk(k)
        BY <3>5, <2>6
      <4>1. CASE k \in 1..Len(chunks)
        BY <2>6, <3>1, <4>1
      <4>2. CASE k = Len(chunks) + 1
        <5>1. chunks'[k] = Chunk(flushed, to, FALSE)
          BY <2>6, <4>2
        <5>2. WholeChunk(k) = WholeChunk(Len(chunks) + 1)
          BY <4>2
        <5>3. QED
          BY <3>4, <5>1, <5>2
      <4>3. QED
        BY <2>6, <4>1, <4>2
    <3>7. base' + flushed' = Len(chunks') * ChunkCap'
      BY <1>6, <2>3, <2>6, <3>3
    <3>8. QED
      BY <1>1, <2>2, <2>10, <3>6, <3>7 DEF CutSoFar
  <2>12. QED
    BY <1>5, <2>3, <2>7, <2>8, <2>10, <2>11 DEF IInv
<1>8. CASE ~ Emits(filled)
  <2>1. length' = filled /\ UNCHANGED <<flushed, base, started, bits, chunks>>
    BY <1>1, <1>8
  <2>2. filled - flushed <= ChunkCap
    BY <1>2, <1>4, <1>8 DEF Emits
  <2>3. TypeOK'
    <3>1. given' \in Nat /\ length' \in Nat
      BY <1>1, <1>4, <2>1
    <3>2. QED
      BY <1>1, <2>1, <3>1 DEF IInv, TypeOK
  <2>4. InputKept'
    BY <1>1, <1>2, <1>3, <1>4, <2>1 DEF InputKept
  <2>5. Pending' = filled - flushed /\ (Pending > 0 => Pending' > 0)
    BY <1>4, <2>1 DEF Pending
  <2>6. PendingBounded' /\ Open'
    BY <1>1, <1>3, <1>6, <2>1, <2>2, <2>5 DEF IInv, PendingBounded, Open
  <2>7. CutSoFar'
    <3>1. \A k \in Nat : WholeChunk(k)' = WholeChunk(k)
      BY <1>6 DEF WholeChunk
    <3>2. QED
      BY <1>1, <1>3, <1>6, <2>1, <2>6, <3>1 DEF IInv, CutSoFar
  <2>8. HistoryKept'
    BY <1>1, <2>1 DEF IInv, HistoryKept, MaxBackward
  <2>9. QED
    BY <1>5, <2>3, <2>4, <2>6, <2>7, <2>8 DEF IInv
<1>9. QED
  BY <1>7, <1>8

-----------------------------------------------------------------------------
(* finish(). *)

(* The last bits are filled up to a byte, and drained.                     *)
LEMMA FinishedMeans ==
  ASSUME IInv, NEW written \in Nat, Finished(written), asked' = asked
  PROVE  /\ StatusMeans' /\ bits' \in Nat /\ produced' \in 0..MaxRoom /\ pc' = "idle"
         /\ status' \in {"NeedInput", "NeedOutput", "Done"} /\ finished' = TRUE
<1> DEFINE bytes == BytesFor(written)
           aligned == ByteBits * bytes
<1>1. /\ finished' = TRUE /\ produced' = Least(asked, aligned \div ByteBits)
      /\ bits' = aligned - (ByteBits * produced') /\ Return(DrainStatus)
  BY DEF Finished
<1>2. bytes \in Nat /\ ByteBits \in Nat \ {0}
  BY SizeAssumption DEF BytesFor
<1> HIDE DEF bytes
<1>3. aligned \in Nat /\ aligned % ByteBits = 0
  BY <1>2, Multiples
<1>4. asked \in 0..MaxRoom
  BY DEF IInv, TypeOK
<1> HIDE DEF aligned
<1>5. QED
  BY <1>1, <1>3, <1>4, DrainStatusMeans

LEMMA FinishSmallIInv ==
  ASSUME IInv, FinishSmall
  PROVE  IInv'
<1>1. /\ pc = "finish" /\ ~ started /\ chunks' = <<Chunk(0, length, TRUE)>>
      /\ base' = base + length /\ length' = 0 /\ flushed' = 0
      /\ UNCHANGED <<fast, size, started, ending, given, asked, terminated, accepted>>
  BY DEF FinishSmall
<1>2. PICK n \in ChunkBits : Finished(bits + HeaderBits + n)
  BY DEF FinishSmall
<1>3. bits + HeaderBits + n \in Nat
  BY <1>2, BitsAssumption DEF IInv, TypeOK
<1>4. /\ StatusMeans' /\ bits' \in Nat /\ produced' \in 0..MaxRoom /\ pc' = "idle"
      /\ status' \in {"NeedInput", "NeedOutput", "Done"} /\ finished' = TRUE
  BY <1>1, <1>2, <1>3, FinishedMeans
<1>5. ~ finished /\ Open
  BY <1>1 DEF IInv, InputKept, Open
<1>6. /\ length \in Nat /\ flushed \in Nat /\ base \in Nat /\ accepted \in Nat /\ given = 0
      /\ ChunkCap \in Nat \ {0} /\ length - flushed <= ChunkCap
      /\ base + length + given = accepted /\ chunks = <<>>
  BY <1>1, <1>5, Sizes, BoundAssumption DEF IInv, TypeOK, InputKept, PendingBounded, Pending, CutSoFar
<1>7. base = 0 /\ flushed = 0
  <2>1. Len(chunks) = 0
    BY <1>6
  <2>2. base + flushed = 0 * ChunkCap
    BY <1>5, <2>1 DEF IInv, CutSoFar
  <2>3. QED
    BY <1>6, <2>2
<1>8. base + length = accepted /\ accepted <= ChunkCap /\ base + 0 = 0 /\ base + length \in Nat
  BY <1>6, <1>7
<1>9. /\ chunks' = <<[from |-> 0, to |-> accepted, last |-> TRUE]>>
  BY <1>1, <1>8 DEF Chunk
<1>10. TypeOK'
  <2>1. chunks' \in Seq([from : Nat, to : Nat, last : BOOLEAN])
    BY <1>6, <1>9
  <2>2. QED
    BY <1>1, <1>4, <1>8, <2>1 DEF IInv, TypeOK
<1>11. InputKept' /\ PendingBounded'
  <2>1. base' + length' + given' = accepted'
    BY <1>1, <1>6, <1>8
  <2>2. Pending' = 0 /\ ChunkCap' = ChunkCap
    BY <1>1 DEF Pending, ChunkCap
  <2>3. QED
    BY <1>1, <1>4, <1>6, <2>1, <2>2 DEF InputKept, PendingBounded
<1>12. HistoryKept'
  <2>1. MaxBackward \in Nat /\ MaxBackward' = MaxBackward
    BY <1>1, Sizes DEF IInv, MaxBackward
  <2>2. QED
    BY <1>1, <1>4, <2>1 DEF HistoryKept
<1>13. CutSoFar'
  <2>1. OneShotChunk(1)' = [from |-> 0, to |-> accepted]
    <3>1. (1 - 1) * ChunkCap = 0 /\ 1 * ChunkCap = ChunkCap
      BY <1>6
    <3>2. Least(ChunkCap, accepted) = accepted
      BY <1>6, <1>8 DEF Least
    <3>3. OneShotCap' = ChunkCap
      BY <1>1 DEF OneShotCap, ChunkCap
    <3>4. QED
      BY <1>1, <3>1, <3>2, <3>3 DEF OneShotChunk
  <2>2. /\ Len(chunks') = 1 /\ chunks'[1].from = 0 /\ chunks'[1].to = accepted
        /\ chunks'[1].last = TRUE /\ chunks' # <<>>
    BY <1>9
  <2>3. base' + flushed' = accepted'
    BY <1>1, <1>8
  <2>4. ~ Open'
    BY <1>4 DEF Open
  <2>5. \A k \in 1..1 : k = 1
    OBVIOUS
  <2>6. QED
    BY <1>1, <1>4, <2>1, <2>2, <2>3, <2>4, <2>5 DEF CutSoFar
<1>14. QED
  BY <1>4, <1>10, <1>11, <1>12, <1>13 DEF IInv

LEMMA FinishTailIInv ==
  ASSUME IInv, FinishTail
  PROVE  IInv'
<1>1. /\ pc = "finish" /\ started /\ Pending = 0
      /\ UNCHANGED <<fast, size, length, flushed, base, started, ending, given, asked, terminated,
                     accepted>>
  BY DEF FinishTail, window
<1>2. ~ finished /\ ~ Open
  BY <1>1 DEF IInv, InputKept, Open
<1>3. \E written \in Nat : Finished(written)
  <2>1. bits \in Nat /\ bits + TailBits \in Nat
    BY BitsAssumption DEF IInv, TypeOK
  <2>2. QED
    BY <2>1 DEF FinishTail
<1>4. /\ StatusMeans' /\ bits' \in Nat /\ produced' \in 0..MaxRoom /\ pc' = "idle"
      /\ status' \in {"NeedInput", "NeedOutput", "Done"} /\ finished' = TRUE
  BY <1>1, <1>3, FinishedMeans
<1>5. InputKept' /\ PendingBounded' /\ HistoryKept'
  BY <1>1, <1>2, <1>4 DEF IInv, InputKept, PendingBounded, Pending, HistoryKept, MaxBackward, ChunkCap
<1>6. /\ base + flushed = accepted /\ chunks # <<>> /\ chunks[Len(chunks)].to = accepted
      /\ \A k \in 1..Len(chunks) :
           /\ chunks[k].from < chunks[k].to =>
                [from |-> chunks[k].from, to |-> chunks[k].to] = OneShotChunk(k)
           /\ chunks[k].last <=> terminated /\ k = Len(chunks)
  BY <1>2 DEF IInv, CutSoFar
<1>7. ~ Open' /\ base' + flushed' = accepted'
  BY <1>1, <1>4, <1>6 DEF Open
<1>8. \A k : OneShotChunk(k)' = OneShotChunk(k)
  BY <1>1 DEF OneShotChunk, OneShotCap
<1>9. CASE terminated
  <2>1. chunks' = chunks
    BY <1>9 DEF FinishTail
  <2>2. TypeOK'
    BY <1>1, <1>4, <2>1 DEF IInv, TypeOK
  <2>3. CutSoFar'
    BY <1>1, <1>4, <1>6, <1>7, <1>8, <1>9, <2>1 DEF CutSoFar
  <2>4. QED
    BY <1>4, <1>5, <2>2, <2>3 DEF IInv
<1>10. CASE ~ terminated
  <2> DEFINE tail == Chunk(flushed, flushed, TRUE)
  <2>1. chunks' = Append(chunks, tail)
    BY <1>10 DEF FinishTail
  <2>2. accepted \in Nat /\ chunks \in Seq(Chunks)
    BY BoundAssumption DEF IInv, TypeOK, Chunks
  <2>3. tail \in Chunks /\ tail.from = accepted /\ tail.to = accepted /\ tail.last = TRUE
    <3>1. tail = [from |-> accepted, to |-> accepted, last |-> TRUE]
      BY <1>6 DEF Chunk
    <3> HIDE DEF tail
    <3>2. QED
      BY <2>2, <3>1 DEF Chunks
  <2> HIDE DEF tail, Chunks
  <2>4. /\ chunks' \in Seq(Chunks) /\ Len(chunks) \in Nat /\ Len(chunks') = Len(chunks) + 1
        /\ \A k \in 1..Len(chunks) : chunks'[k] = chunks[k]
        /\ chunks'[Len(chunks) + 1] = tail
    BY <2>1, <2>2, <2>3, Appending
  <2>5. TypeOK'
    BY <1>1, <1>4, <2>4 DEF IInv, TypeOK, Chunks
  <2>6. \A k \in 1..Len(chunks') :
          /\ chunks'[k].from < chunks'[k].to =>
               [from |-> chunks'[k].from, to |-> chunks'[k].to] = OneShotChunk(k)'
          /\ chunks'[k].last <=> k = Len(chunks')
    <3> SUFFICES ASSUME NEW k \in 1..Len(chunks')
                 PROVE  /\ chunks'[k].from < chunks'[k].to =>
                             [from |-> chunks'[k].from, to |-> chunks'[k].to] = OneShotChunk(k)
                        /\ chunks'[k].last <=> k = Len(chunks')
      BY <1>8
    <3>1. CASE k \in 1..Len(chunks)
      BY <1>6, <1>10, <2>4, <3>1
    <3>2. CASE k = Len(chunks) + 1
      BY <2>2, <2>3, <2>4, <3>2
    <3>3. QED
      BY <2>4, <3>1, <3>2
  <2>7. chunks' # <<>> /\ chunks'[Len(chunks')].to = accepted'
    <3>1. Len(chunks') # 0
      BY <2>4
    <3>2. QED
      BY <1>1, <2>3, <2>4, <3>1
  <2>8. CutSoFar'
    BY <1>4, <1>7, <2>6, <2>7 DEF CutSoFar
  <2>9. QED
    BY <1>4, <1>5, <2>5, <2>8 DEF IInv
<1>11. QED
  BY <1>9, <1>10

(* The last chunk is what is left of the input, and the last metablock, or  *)
(* a stored one with an empty last one, or a fragment, which is neither.   *)
LEMMA FinishEmitIInv ==
  ASSUME IInv, FinishEmit
  PROVE  IInv'
<1> DEFINE last == ~ fast /\ LastChunk(Pending)
<1>1. /\ pc = "finish" /\ started /\ Pending > 0 /\ Emit(length, last)
      /\ terminated' = (terminated \/ last)
      /\ UNCHANGED <<fast, size, finished, pc, ending, given, asked, produced, status, accepted>>
  BY DEF FinishEmit, progress
<1>2. ~ finished /\ ~ finished' /\ Open /\ ~ terminated
  BY <1>1 DEF IInv, InputKept, Open, CutSoFar
<1>3. /\ length \in Nat /\ flushed \in Nat /\ base \in Nat /\ accepted \in Nat /\ given = 0
      /\ ChunkCap \in Nat \ {0} /\ flushed <= length /\ length - flushed <= ChunkCap
      /\ base + length = accepted /\ bits \in Nat /\ OneShotCap = ChunkCap
      /\ length - flushed > 0
  <2>1. base + length + given = accepted /\ given = 0
    BY <1>1 DEF IInv, InputKept
  <2>2. /\ length \in Nat /\ flushed \in Nat /\ base \in Nat /\ accepted \in Nat
        /\ ChunkCap \in Nat \ {0} /\ flushed <= length /\ length - flushed <= ChunkCap
        /\ bits \in Nat /\ OneShotCap = ChunkCap
    BY Sizes, BoundAssumption DEF IInv, TypeOK, InputKept, PendingBounded, Pending
  <2>3. QED
    BY <1>1, <2>1, <2>2 DEF Pending
<1>4. last = ~ fast /\ fast \in BOOLEAN /\ last \in BOOLEAN /\ (last => ~ fast)
  BY <1>3 DEF LastChunk, Pending, IInv, TypeOK
<1> HIDE DEF last
<1>5. Least(flushed + ChunkCap, length) = length /\ length \in flushed..length
  BY <1>3 DEF Least
<1>6. PICK n \in ChunkBits, form \in Forms(length, last) :
        /\ started' = TRUE /\ Compact(length, length)
        /\ chunks' = chunks \o form
        /\ bits' = bits + n + (IF started THEN 0 ELSE HeaderBits)
                     + (IF Len(form) > 1 THEN TailBits ELSE 0)
  BY <1>1, <1>5 DEF Emit
<1>7. /\ length' \in Nat /\ flushed' \in Nat /\ base' \in Nat /\ flushed' <= length'
      /\ length' - flushed' = 0
      /\ base' + flushed' = accepted /\ base' + length' = accepted
      /\ HistoryKept'
  <2>1. length - length = 0
    BY <1>3
  <2>2. QED
    BY <1>1, <1>2, <1>3, <1>5, <1>6, <2>1, CompactKeeps
<1>8. bits' \in Nat
  BY <1>3, <1>6, BitsAssumption
<1>9. InputKept' /\ PendingBounded' /\ StatusMeans' /\ ~ Open'
  <2>1. Pending' = 0 /\ ChunkCap' = ChunkCap
    BY <1>1, <1>7 DEF Pending, ChunkCap
  <2>2. base' + length' + given' = accepted'
    <3>1. accepted + 0 = accepted /\ given' = 0 /\ accepted' = accepted
      BY <1>1, <1>3
    <3>2. QED
      BY <1>7, <3>1
  <2>3. InputKept'
    BY <1>1, <1>2, <1>3, <1>7, <2>2 DEF InputKept
  <2>4. ~ Open'
    BY <1>6, <2>1 DEF Open
  <2>5. PendingBounded' /\ StatusMeans'
    BY <1>1, <1>2, <1>3, <2>1 DEF PendingBounded, StatusMeans
  <2>6. QED
    BY <2>3, <2>4, <2>5
<1> DEFINE L == Len(chunks)
           chunk(b) == Chunk(flushed, length, b)
           tail == Chunk(length, length, TRUE)
           body == [from |-> base + flushed, to |-> accepted]
<1>10. /\ L \in Nat /\ chunks \in Seq(Chunks) /\ base + flushed = L * ChunkCap
       /\ \A k \in 1..L : chunks[k] = WholeChunk(k)
  BY <1>2 DEF IInv, TypeOK, Chunks, CutSoFar
<1>11. /\ \A b \in BOOLEAN : /\ chunk(b) \in Chunks /\ chunk(b).last = b
                             /\ chunk(b).from = base + flushed /\ chunk(b).to = accepted
       /\ tail \in Chunks /\ tail.from = accepted /\ tail.to = accepted /\ tail.last = TRUE
  <2>1. base + flushed \in Nat
    BY <1>3
  <2>2. tail = [from |-> accepted, to |-> accepted, last |-> TRUE]
    BY <1>3 DEF Chunk
  <2>3. \A b \in BOOLEAN : chunk(b) = [from |-> base + flushed, to |-> accepted, last |-> b]
    BY <1>3 DEF Chunk
  <2> HIDE DEF tail, chunk
  <2>4. QED
    BY <1>3, <2>1, <2>2, <2>3 DEF Chunks
(* Every chunk is the one-shot encoder's, the last one too.                *)
<1>12. \A k \in 1..L : /\ chunks[k].last = FALSE
                       /\ [from |-> chunks[k].from, to |-> chunks[k].to] = OneShotChunk(k)
  <2> SUFFICES ASSUME NEW k \in 1..L
               PROVE  /\ chunks[k].last = FALSE
                      /\ [from |-> chunks[k].from, to |-> chunks[k].to] = OneShotChunk(k)
    OBVIOUS
  <2>1. chunks[k] = [from |-> (k - 1) * ChunkCap, to |-> k * ChunkCap, last |-> FALSE]
    BY <1>10 DEF WholeChunk
  <2>2. k * ChunkCap <= L * ChunkCap
    BY <1>3, <1>10, MultiplesGrow
  <2>3. k * ChunkCap \in Nat /\ L * ChunkCap \in Nat
    BY <1>3, <1>10, NextMultiple
  <2>4. L * ChunkCap <= accepted
    BY <1>3, <1>10
  <2>5. Least(k * ChunkCap, accepted) = k * ChunkCap
    BY <1>3, <2>2, <2>3, <2>4 DEF Least
  <2>6. QED
    BY <1>3, <2>1, <2>5 DEF OneShotChunk
<1>13. body = OneShotChunk(L + 1)
  <2>1. /\ (L + 1) * ChunkCap = L * ChunkCap + ChunkCap /\ L * ChunkCap \in Nat
        /\ ((L + 1) - 1) * ChunkCap = L * ChunkCap
    BY <1>3, <1>10, NextMultiple
  <2>2. Least((L + 1) * ChunkCap, accepted) = accepted
    BY <1>3, <1>10, <2>1 DEF Least
  <2>3. QED
    BY <1>3, <1>10, <2>1, <2>2 DEF OneShotChunk
<1> HIDE DEF L, chunk, tail, body, Chunks
<1>14. /\ chunks' \in Seq(Chunks) /\ chunks' # <<>> /\ chunks'[Len(chunks')].to = accepted
       /\ \A k \in 1..Len(chunks') :
            /\ chunks'[k].from < chunks'[k].to =>
                 [from |-> chunks'[k].from, to |-> chunks'[k].to] = OneShotChunk(k)
            /\ chunks'[k].last <=> last /\ k = Len(chunks')
  <2>1. \/ chunks' = Append(chunks, chunk(last))
        \/ last /\ chunks' = Append(Append(chunks, chunk(FALSE)), tail)
    BY <1>3, <1>4, <1>6, FormsWritten DEF IInv, chunk, tail
  <2>2. CASE chunks' = Append(chunks, chunk(last))
    <3> DEFINE c == chunk(last)
    <3>1. /\ c \in Chunks /\ c.last = last /\ c.to = accepted
          /\ [from |-> c.from, to |-> c.to] = OneShotChunk(L + 1)
      BY <1>4, <1>11, <1>13 DEF body
    <3> HIDE DEF c
    <3>2. /\ chunks' \in Seq(Chunks) /\ Len(chunks') = L + 1
          /\ \A k \in 1..L : chunks'[k] = chunks[k]
          /\ chunks'[L + 1] = c
      BY <1>10, <2>2, <3>1, Appending DEF L, c
    <3>3. chunks' # <<>>
      BY <1>10, <3>2
    <3>4. ASSUME NEW k \in 1..Len(chunks')
          PROVE  /\ [from |-> chunks'[k].from, to |-> chunks'[k].to] = OneShotChunk(k)
                 /\ chunks'[k].last <=> last /\ k = Len(chunks')
      <4>1. CASE k \in 1..L
        BY <1>10, <1>12, <3>2, <4>1
      <4>2. CASE k = L + 1
        BY <3>1, <3>2, <4>2
      <4>3. QED
        BY <1>10, <3>2, <4>1, <4>2
    <3>5. QED
      BY <3>1, <3>2, <3>3, <3>4
  <2>3. CASE last /\ chunks' = Append(Append(chunks, chunk(FALSE)), tail)
    <3> DEFINE c == chunk(FALSE)
               d == Append(chunks, c)
    <3>1. /\ c \in Chunks /\ c.last = FALSE
          /\ [from |-> c.from, to |-> c.to] = OneShotChunk(L + 1)
      BY <1>11, <1>13 DEF body
    <3> HIDE DEF c
    <3>2. /\ d \in Seq(Chunks) /\ Len(d) = L + 1
          /\ \A k \in 1..L : d[k] = chunks[k]
          /\ d[L + 1] = c
      BY <1>10, <3>1, Appending DEF L
    <3>3. chunks' = Append(d, tail)
      BY <2>3 DEF c
    <3> HIDE DEF d
    <3>4. /\ chunks' \in Seq(Chunks) /\ Len(chunks') = L + 1 + 1
          /\ \A k \in 1..(L + 1) : chunks'[k] = d[k]
          /\ chunks'[L + 1 + 1] = tail
      BY <1>11, <3>2, <3>3, Appending
    <3>5. chunks' # <<>>
      BY <1>10, <3>4
    <3>6. ASSUME NEW k \in 1..Len(chunks')
          PROVE  /\ chunks'[k].from < chunks'[k].to =>
                      [from |-> chunks'[k].from, to |-> chunks'[k].to] = OneShotChunk(k)
                 /\ chunks'[k].last <=> k = Len(chunks')
      <4>1. CASE k \in 1..L
        <5>1. chunks'[k] = chunks[k] /\ k # Len(chunks')
          BY <1>10, <3>2, <3>4, <4>1
        <5>2. QED
          BY <1>12, <4>1, <5>1
      <4>2. CASE k = L + 1
        <5>1. chunks'[k] = c /\ k # Len(chunks')
          BY <1>10, <3>2, <3>4, <4>2
        <5>2. QED
          BY <3>1, <4>2, <5>1
      <4>3. CASE k = L + 1 + 1
        <5>1. ~ (accepted < accepted)
          BY <1>3
        <5>2. QED
          BY <1>11, <3>4, <4>3, <5>1
      <4>4. QED
        BY <1>10, <3>4, <4>1, <4>2, <4>3
    <3>7. QED
      BY <1>11, <2>3, <3>4, <3>5, <3>6
  <2>4. QED
    BY <2>1, <2>2, <2>3
<1>15. terminated' = last
  BY <1>1, <1>2, <1>4
<1>16. CutSoFar'
  <2>1. \A k : OneShotChunk(k)' = OneShotChunk(k)
    BY <1>1 DEF OneShotChunk, OneShotCap
  <2>2. QED
    BY <1>1, <1>2, <1>7, <1>9, <1>14, <1>15, <2>1 DEF CutSoFar
<1>17. TypeOK'
  <2>1. terminated' \in BOOLEAN
    BY <1>4, <1>15
  <2>2. QED
    BY <1>1, <1>6, <1>7, <1>8, <1>14, <2>1 DEF IInv, TypeOK, Chunks
<1>18. QED
  BY <1>7, <1>9, <1>16, <1>17 DEF IInv

-----------------------------------------------------------------------------
(* Theorems. *)

LEMMA InitIInv == Init => IInv
<1> SUFFICES ASSUME Init PROVE IInv
  OBVIOUS
<1>1. /\ fast \in BOOLEAN /\ size \in Windows /\ length = 0 /\ flushed = 0 /\ base = 0
      /\ started = FALSE /\ finished = FALSE /\ bits = 0 /\ pc = "idle" /\ ending = FALSE
      /\ given = 0 /\ asked = 0 /\ terminated = FALSE /\ produced = 0 /\ status = "NeedInput"
      /\ accepted = 0 /\ chunks = <<>>
  BY DEF Init
<1>2. TypeOK
  <2>1. 0 \in 0..MaxRoom /\ 0 \in 0..MaxInput
    BY BoundAssumption
  <2>2. chunks \in Seq([from : Nat, to : Nat, last : BOOLEAN])
    BY <1>1
  <2>3. QED
    BY <1>1, <2>1, <2>2 DEF TypeOK
<1>3. MaxBackward \in Nat /\ ChunkCap \in Nat \ {0} /\ ByteBits \in Nat \ {0}
  BY <1>2, Sizes
<1>4. InputKept /\ PendingBounded /\ HistoryKept
  BY <1>1, <1>3 DEF InputKept, PendingBounded, Pending, HistoryKept
<1>5. CutSoFar
  <2>1. Open /\ Len(chunks) = 0
    BY <1>1 DEF Open
  <2>2. 0 * ChunkCap = 0
    BY <1>3
  <2>3. QED
    BY <1>1, <2>1, <2>2 DEF CutSoFar
<1>6. StatusMeans
  BY <1>1, <1>3 DEF StatusMeans
<1>7. QED
  BY <1>2, <1>4, <1>5, <1>6 DEF IInv

(* The inductive invariant of the encoder: where the input is, and how what  *)
(* is written of it was cut, before and after the last of it is written.   *)
THEOREM Invariance == Spec => []IInv
<1>1. IInv /\ [Next]_vars => IInv'
  <2> SUFFICES ASSUME IInv, [Next]_vars PROVE IInv'
    OBVIOUS
  <2>1. CASE Turn
    BY <2>1, FillIInv, ProcessedIInv, FinishSmallIInv, FinishEmitIInv, FinishTailIInv DEF Turn
  <2>2. CASE Caller
    BY <2>2, ProcessIInv, FinishIInv DEF Caller
  <2>3. CASE UNCHANGED vars
    <3>1. UNCHANGED <<fast, size, length, flushed, base, started, finished, bits, pc, ending, given,
                     asked, terminated, produced, status, accepted, chunks>>
      BY <2>3 DEF vars, window, flags, progress
    <3>2. TypeOK' /\ InputKept' /\ PendingBounded' /\ HistoryKept' /\ StatusMeans'
      BY <3>1 DEF IInv, TypeOK, InputKept, PendingBounded, Pending, ChunkCap, HistoryKept,
                  MaxBackward, StatusMeans
    <3>3. CutSoFar'
      BY <3>1 DEF IInv, CutSoFar, Open, Pending, ChunkCap, WholeChunk, OneShotChunk, OneShotCap
    <3>4. QED
      BY <3>2, <3>3 DEF IInv
  <2>4. QED
    BY <2>1, <2>2, <2>3 DEF Next
<1>2. QED
  BY InitIInv, <1>1, PTL DEF Spec

(* The window is bounded however long the stream is, the fill of a chunk     *)
(* does not underflow, and the history a distance may name is kept.        *)
THEOREM WindowIsKept == Spec => []WindowFits
<1>1. IInv => WindowFits
  <2> SUFFICES ASSUME IInv PROVE WindowFits
    OBVIOUS
  <2>1. /\ length \in Nat /\ flushed \in Nat /\ base \in Nat /\ MaxBackward \in Nat
        /\ ChunkCap \in Nat \ {0} /\ length - flushed <= ChunkCap /\ flushed <= length
    BY Sizes DEF IInv, TypeOK, PendingBounded, InputKept, Pending
  <2>2. PendingFits
    BY DEF IInv, PendingBounded, PendingFits
  <2>3. WindowBounded
    BY <2>1 DEF IInv, HistoryKept, WindowBounded, Least
  <2>4. QED
    BY <2>2, <2>3 DEF WindowFits
<1>2. QED
  BY Invariance, <1>1, PTL

(* The stream is cut into the chunks of the one-shot encoder, however the    *)
(* input is cut into calls.                                                *)
THEOREM CutAsOneShot == Spec => []ChunksAsOneShot
<1>1. IInv => ChunksAsOneShot
  <2> SUFFICES ASSUME IInv, NEW k \in 1..Len(chunks)
               PROVE  /\ chunks[k].from < chunks[k].to =>
                           [from |-> chunks[k].from, to |-> chunks[k].to] = OneShotChunk(k)
                      /\ pc = "process" \/ (pc = "idle" /\ ~ finished) => chunks[k].to < accepted
    BY DEF ChunksAsOneShot
  <2>1. CASE Open
    <3>1. /\ length \in Nat /\ flushed \in Nat /\ base \in Nat /\ accepted \in Nat
          /\ given \in Nat /\ base + length + given = accepted /\ flushed <= length
          /\ ChunkCap \in Nat /\ OneShotCap = ChunkCap /\ Len(chunks) \in Nat
      BY Sizes, BoundAssumption DEF IInv, TypeOK, InputKept
    <3>2. /\ base + flushed = Len(chunks) * ChunkCap
          /\ chunks[k] = [from |-> (k - 1) * ChunkCap, to |-> k * ChunkCap, last |-> FALSE]
      BY <2>1 DEF IInv, CutSoFar, WholeChunk
    <3>3. /\ k * ChunkCap <= Len(chunks) * ChunkCap
          /\ k * ChunkCap \in Nat /\ Len(chunks) * ChunkCap \in Nat
      BY <3>1, MultiplesGrow, NextMultiple
    <3>4. k * ChunkCap <= accepted
      <4>1. base + flushed <= accepted
        BY <3>1
      <4>2. QED
        BY SMTT(30), <3>1, <3>2, <3>3, <4>1
    <3>5. [from |-> chunks[k].from, to |-> chunks[k].to] = OneShotChunk(k)
      BY <3>1, <3>2, <3>3, <3>4 DEF OneShotChunk, Least
    <3>6. flushed < length
      <4>1. started
        BY <2>1 DEF IInv, CutSoFar
      <4>2. QED
        BY <2>1, <3>1, <4>1 DEF Open, Pending
    <3>7. chunks[k].to < accepted
      BY <3>1, <3>2, <3>3, <3>6
    <3>8. QED
      BY <3>5, <3>7
  <2>2. CASE ~ Open
    <3>1. finished \/ pc = "finish"
      BY <2>2, Sizes DEF IInv, TypeOK, PendingBounded, Pending, Open
    <3>2. finished => pc = "idle"
      BY DEF IInv, InputKept
    <3>3. QED
      BY <2>2, <3>1, <3>2 DEF IInv, CutSoFar
  <2>3. QED
    BY <2>1, <2>2
<1>2. QED
  BY Invariance, <1>1, PTL

(* A finished stream has one last metablock, at its end, and stands for all  *)
(* of the input; an unfinished one has none.                               *)
THEOREM EndsOnce == Spec => []TerminatedOnce
<1>1. IInv => TerminatedOnce
  <2> SUFFICES ASSUME IInv PROVE TerminatedOnce
    OBVIOUS
  <2>1. CASE Open
    <3>1. ~ finished
      BY <2>1 DEF Open
    <3>2. ASSUME NEW k \in 1..Len(chunks) PROVE chunks[k].last = FALSE
      <4>1. chunks[k] = [from |-> (k - 1) * ChunkCap, to |-> k * ChunkCap, last |-> FALSE]
        BY <2>1 DEF IInv, CutSoFar, WholeChunk
      <4>2. QED
        BY <4>1
    <3>3. QED
      BY <3>1, <3>2 DEF TerminatedOnce
  <2>2. CASE ~ Open
    <3>1. finished \/ pc = "finish"
      BY <2>2, Sizes DEF IInv, TypeOK, PendingBounded, Pending, Open
    <3>2. QED
      BY <2>2, <3>1 DEF IInv, CutSoFar, TerminatedOnce
  <2>3. QED
    BY <2>1, <2>2
<1>2. QED
  BY Invariance, <1>1, PTL

(* What a call returns is so: nothing is left, the slice is full, or the     *)
(* encoder takes more.                                                     *)
THEOREM StatusIsTrue == Spec => []StatusMeans
<1>1. IInv => StatusMeans
  BY DEF IInv
<1>2. QED
  BY Invariance, <1>1, PTL
=============================================================================
