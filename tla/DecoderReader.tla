--------------------------- MODULE DecoderReader ---------------------------
(***************************************************************************)
(* The Read adapter (reader.rs) over the incremental decoder and a buffered*)
(* source. A read is a loop of fill_buf, one call of the decoder, and      *)
(* consume; the source may fail, may deliver any part of its bytes at a    *)
(* time, and has nothing after the last of them.                           *)
(***************************************************************************)
EXTENDS StreamDecoder

CONSTANT MaxSupply   \* bound: bytes the source holds

ASSUME SupplyAssumption == MaxSupply \in Nat

VARIABLES
  supply,    \* bytes of the source not yet in its buffer
  unread,    \* bytes in the source's buffer
  done,      \* DecoderReader::done
  pc,        \* "idle"; "fill" before fill_buf; "decode" in a call of the decoder
  wanted,    \* the length of the slice to read into
  result,    \* what the last read returned: a count, or an error
  delivered  \* history variable: bytes returned by reads

readerVars == <<supply, unread, done, pc, wanted, result, delivered>>

Ok(n)  == [kind |-> "ok", count |-> n]
Err(e) == [kind |-> e, count |-> 0]

ReaderInit == /\ Init
              /\ supply \in 0..MaxSupply /\ unread = 0
              /\ done = FALSE /\ pc = "idle" /\ wanted = 0
              /\ result = Ok(0) /\ delivered = 0

ReturnRead(r) == result' = r /\ pc' = "idle"

AtEmptySlice(o) == o = 0   \* mutant: done is not looked at
AtEnd(o) == o = 0 \/ done

\* read() is called; it may return before it touches the source.
Read(o) ==
  /\ pc = "idle" /\ total < MaxTotal
  /\ wanted' = o
  /\ IF AtEnd(o) THEN ReturnRead(Ok(0))
     ELSE IF error # "none" THEN ReturnRead(Err(error))
     ELSE pc' = "fill" /\ UNCHANGED result
  /\ UNCHANGED <<vars, supply, unread, done, delivered>>

\* fill_buf()? fails: the read ends, the decoder has not been called.
SourceFails ==
  /\ pc = "fill" /\ unread = 0
  /\ ReturnRead(Err("source"))
  /\ UNCHANGED <<vars, supply, unread, done, wanted, delivered>>

\* fill_buf: what is buffered, or some of the supply, or nothing at its end.
FillBuf ==
  /\ pc = "fill"
  /\ \E n \in 0..Least(supply, MaxGiven) :
       /\ IF unread > 0 \/ supply = 0 THEN n = 0 ELSE n > 0
       /\ unread' = unread + n
       /\ supply' = supply - n
  /\ IF unread' = 0 THEN Finish(wanted) ELSE Process(unread', wanted)
  /\ pc' = "decode"
  /\ UNCHANGED <<done, wanted, result, delivered>>

ReadDecodes == pc = "decode" /\ Turn /\ UNCHANGED readerVars

NoProgress == Err("noProgress")

Consume == unread' = IF ending THEN unread ELSE unread - consumed

DeliversFull == produced > 0 /\ status # "NeedInput"   \* mutant: first fills the slice
Delivers == produced > 0

EmptyOnNeedInput ==   \* mutant: an empty result is returned, not retried
  CASE status \in {"Done", "NeedInput"} -> ReturnRead(Ok(0))
    [] OTHER -> ReturnRead(NoProgress)

\* Nothing was produced: the end, another turn, or one of the two errors that
\* say the decoder broke its promise.
AfterNothing ==
  CASE status = "Done" -> ReturnRead(Ok(0))
    [] status = "NeedInput" /\ consumed > 0 -> pc' = "fill" /\ UNCHANGED result
    [] OTHER -> ReturnRead(NoProgress)

\* The decoder's call returned.
Decoded ==
  /\ pc = "decode" /\ status # "run"
  /\ IF status = "error"
       THEN ReturnRead(Err(error)) /\ UNCHANGED <<unread, done, delivered>>
       ELSE /\ Consume
            /\ done' = (done \/ status = "Done")
            /\ IF Delivers
                 THEN ReturnRead(Ok(produced)) /\ delivered' = delivered + produced
                 ELSE AfterNothing /\ UNCHANGED delivered
  /\ UNCHANGED <<vars, supply, wanted>>

ReaderLoop == FillBuf \/ ReadDecodes \/ Decoded
ReaderNext == (\E o \in 0..MaxRoom : Read(o)) \/ SourceFails \/ ReaderLoop

\* The loops of read() and of process() run; nothing obliges a caller to read
\* again, or the source to fail.
ReaderSpec == ReaderInit /\ [][ReaderNext]_<<vars, readerVars>> /\ WF_<<vars, readerVars>>(ReaderLoop)

-----------------------------------------------------------------------------
(* Correctness. *)

\* What a read returns is so. The decoder always takes input or gives output
\* when it has either: the two errors a read has for the contrary are never
\* returned; and no bytes for a non-empty slice means the end of the stream,
\* never a source that has just not delivered enough.
ReadMeans ==
  /\ result # NoProgress
  /\ pc = "idle" /\ result = Ok(0) /\ wanted > 0 => phase = "Done" /\ done

\* Between reads, every byte the decoder produced has been returned by some
\* read, in whatever pieces the source delivered its bytes and however often
\* it failed in between; only a read that fails with a decode error drops bytes.
NothingLost ==
  pc \in {"idle", "fill"} /\ error = "none" => delivered = total

\* Bytes are taken from the source only for the stream: once it is complete, or
\* has failed, no read takes any more (done, and the check of decoder.error).
SourceLeftAlone ==
  [][done \/ (error # "none" /\ pc = "idle") => UNCHANGED <<supply, unread>>]_readerVars

ReaderTypeOK ==
  /\ supply \in Nat /\ unread \in 0..MaxGiven /\ done \in BOOLEAN
  /\ pc \in {"idle", "fill", "decode"} /\ wanted \in 0..MaxRoom /\ delivered \in Nat

\* The decoder runs within a read only, on the slices of that read; a read goes
\* to the source only for a stream that goes on.
InCall ==
  /\ pc # "decode" => status \notin {"run"}
  /\ pc # "idle" => wanted > 0 /\ ~ done
  /\ pc = "fill" => error = "none"
  /\ pc = "decode" =>
       /\ status # "idle" /\ asked = wanted
       /\ given + consumed = IF ending THEN 0 ELSE unread
       /\ ~ ending => unread > 0
  /\ done => phase = "Done"

\* Bytes the running call has put out are not delivered yet.
DeliveredSoFar ==
  pc = "decode" /\ error = "none" =>
    total = delivered + (IF status = "run" THEN 0 ELSE produced)

\* The inductive invariant of a reader, with that of its decoder.
ReaderIInv == /\ IInv /\ ReaderTypeOK /\ InCall /\ DeliveredSoFar
              /\ NothingLost /\ ReadMeans
=============================================================================
