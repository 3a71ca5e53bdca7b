--------------------------- MODULE StreamDecoder ---------------------------
(***************************************************************************)
(* A whole stream through the incremental decoder: the phases of           *)
(* decode/decoder.rs over the header decoders and the bit reader, the      *)
(* window check of decode/mod.rs, and process() and finish() of lib.rs     *)
(* with the output limit and the error that sticks.                        *)
(*                                                                         *)
(* The body of a compressed metablock is what MetaBlockBody promises, and  *)
(* CompressedMetaBlock implements: it reads bits, and puts out what it     *)
(* owes.                                                                   *)
(***************************************************************************)
EXTENDS MetaBlockHeader

CONSTANTS
  WindowForms,   \* stream headers: the bits of their reads, and the window
  Invalid,       \* the window of a stream header that has none
  MaxWindow,     \* CoreDecoder::max_window_bits
  Limits,        \* output limits a decoder may be created with; NoLimit
  NoLimit,
  BodyReads,     \* bits a read in a compressed body may take
  MaxGiven,      \* bound: input bytes of one call
  MaxRoom,       \* bound: output bytes of one call
  MaxTotal       \* bound: no call is made once this much was produced

ASSUME LimitAssumption == NoLimit \notin Nat /\ Limits \subseteq Nat \cup {NoLimit}
ASSUME FormAssumption ==   \* the stream header fits within one byte
  \A f \in WindowForms : f.reads \in {<<1>>, <<1, 3>>, <<1, 3, 3>>}
ASSUME ReadsAssumption == BodyReads \subseteq Nat \ {0}
ASSUME CallAssumption == MaxGiven \in Nat /\ MaxRoom \in Nat /\ MaxTotal \in Nat

VARIABLES
  phase,     \* Decoder::phase
  remaining, \* payload of Uncompressed and Metadata; bytes a compressed body owes
  isLast,    \* payload of Compressed and Metadata
  due,       \* bits of the compressed body's next read; 0 when it chose none
  form,      \* the stream's header
  checked,   \* CoreDecoder::window_checked
  limit,     \* Decoder::output_limit
  total,     \* Decoder::total_output
  error,     \* Decoder::error; "none"
  status,    \* "run" within a call; else what the last one returned
  ending,    \* the call is finish()
  asked,     \* the length of the caller's output slice
  room,      \* of the allowed part of it, the bytes left
  produced   \* output_cursor

streamVars == <<header, streamState, phase, remaining, isLast, due, form, checked, limit>>
callVars   == <<total, error, status, ending, asked>>
vars == <<reader, streamVars, callVars, room, produced>>

Least(a, b) == IF a <= b THEN a ELSE b

Init ==
  /\ buffered = 0 /\ given = 0 /\ consumed = 0
  /\ header = Clean /\ streamState = 1
  /\ phase = "StreamHeader" /\ remaining = 0 /\ isLast = FALSE /\ due = 0
  /\ form \in WindowForms /\ checked = FALSE
  /\ limit \in Limits
  /\ total = 0 /\ error = "none" /\ status = "idle" /\ ending = FALSE
  /\ asked = 0 /\ room = 0 /\ produced = 0

-----------------------------------------------------------------------------
(* process() and finish(): how a call begins and returns.                  *)

AllowedEachCall(o) ==   \* mutant: what was produced before is forgotten
  IF limit = NoLimit \/ limit >= o THEN o ELSE limit

\* advance(): the output slice is cut to what the limit still allows.
Allowed(o) == IF limit = NoLimit \/ limit >= total + o THEN o
              ELSE IF limit >= total THEN limit - total ELSE 0

\* check_window_limit, on the first byte of the stream.
WindowError == IF form.window = Invalid THEN "InvalidStreamHeader"
               ELSE IF form.window > MaxWindow THEN "WindowLimitExceeded" ELSE "none"

Begin(i, o, finish) ==
  /\ status # "run" /\ error = "none"
  /\ total < MaxTotal
  /\ given' = i /\ consumed' = 0 /\ UNCHANGED buffered
  /\ asked' = o /\ room' = Allowed(o) /\ produced' = 0 /\ ending' = finish
  /\ IF checked \/ i = 0
       THEN status' = "run" /\ UNCHANGED <<checked, error>>
       ELSE /\ error' = WindowError
            /\ checked' = (WindowError = "none")
            /\ status' = IF WindowError = "none" THEN "run" ELSE "error"
  /\ UNCHANGED <<header, streamState, phase, remaining, isLast, due, form, limit, total>>

Process(i, o) == Begin(i, o, FALSE)
Finish(o)     == Begin(0, o, TRUE)

\* The core's error: the call fails, its output is discarded.
Fail(e) == error' = e /\ status' = "error" /\ UNCHANGED <<total, ending, asked, room, produced>>

LimitReachedLate == limit # NoLimit /\ total + produced > limit   \* mutant
LimitReached == limit # NoLimit /\ total + produced >= limit

ReturnEof(result) ==   \* mutant: finish() fails whatever the core's result
  /\ total' = total + produced
  /\ error' = IF ending THEN "UnexpectedEof"
              ELSE IF result = "NeedOutput" /\ LimitReached THEN "OutputLimitExceeded"
              ELSE "none"
  /\ status' = IF error' = "none" THEN result ELSE "error"
  /\ UNCHANGED <<ending, asked, room, produced>>

\* What advance() makes of the core's result.
Return(result) ==
  /\ total' = total + produced
  /\ error' = CASE result = "NeedInput" /\ ending -> "UnexpectedEof"
                [] result = "NeedOutput" /\ LimitReached -> "OutputLimitExceeded"
                [] OTHER -> "none"
  /\ status' = IF error' = "none" THEN result ELSE "error"
  /\ UNCHANGED <<ending, asked, room, produced>>

Go == UNCHANGED <<callVars, room, produced>>

At(p) == status = "run" /\ phase = p

-----------------------------------------------------------------------------
(* The stream header.                                                      *)

ReadStreamHeader ==
  /\ At("StreamHeader")
  /\ ReadBits(form.reads[streamState])
  /\ Go
  /\ IF streamState < Len(form.reads)
       THEN streamState' = streamState + 1 /\ UNCHANGED phase
       ELSE phase' = "MetaBlockHeader" /\ UNCHANGED streamState
  /\ UNCHANGED <<header, remaining, isLast, due, form, checked, limit>>

-----------------------------------------------------------------------------
(* Metablock headers, and the phase each begins.                           *)

PhaseOf(kind) == IF kind = "End" THEN "Done" ELSE kind

\* finish(): the header is handed on, its decoder reset (but for the last).
BeginMetaBlock(h) ==
  /\ phase' = PhaseOf(h.kind)
  /\ remaining' = h.length
  /\ isLast' = h.last
  /\ header' = IF h.kind = "End" THEN [header EXCEPT !.state = "Done"] ELSE Clean
  /\ Go
  /\ UNCHANGED <<streamState, due, form, checked, limit>>

ReadHeader ==
  /\ At("MetaBlockHeader") /\ HeaderWant > 0 /\ ~ LengthComplete
  /\ ReadBits(HeaderWant)
  /\ \/ HeaderRead /\ Go
     \/ header.state = "IsUncompressed" /\ Goto("UncompressedAlignment") /\ Go
     \/ HeaderInvalid /\ Fail("InvalidMetaBlock") /\ UNCHANGED header
  /\ UNCHANGED <<streamState, phase, remaining, isLast, due, form, checked, limit>>

\* The bit that says "compressed" ends the header of a metablock not the last.
EndHeader ==
  /\ At("MetaBlockHeader") /\ header.state = "IsUncompressed"
  /\ ReadBits(1)
  /\ BeginMetaBlock(Kind("Compressed", header.value + 1))

EndLastHeader ==
  /\ At("MetaBlockHeader") /\ LengthComplete
  /\ UNCHANGED reader
  /\ BeginMetaBlock(Kind("Compressed", header.value + 1))

AlignHeader ==
  /\ At("MetaBlockHeader") /\ Aligning
  /\ Align
  /\ \/ BeginMetaBlock(Aligned)
     \/ /\ buffered % ByteBits # 0   \* a fill bit that is not 0
        /\ Fail("InvalidMetaBlock")
        /\ UNCHANGED streamVars

-----------------------------------------------------------------------------
(* Metablock contents.                                                     *)

BodyErrors == {"InvalidCompressedData"}
Body == INSTANCE MetaBlockBody
          WITH Lengths <- Nat, Errors <- BodyErrors, owed <- remaining

\* A compressed body: a read of some bits, bytes produced, an error, the end.
BodyChoose ==
  /\ At("Compressed") /\ due = 0 /\ remaining > 0
  /\ due' \in BodyReads
  /\ Go
  /\ UNCHANGED <<reader, header, streamState, phase, remaining, isLast, form, checked, limit>>

BodyRead ==
  /\ At("Compressed") /\ due > 0
  /\ ReadBits(due)
  /\ due' = 0
  /\ Go
  /\ UNCHANGED <<header, streamState, phase, remaining, isLast, form, checked, limit>>

Produce(n) == Body!Produce(n) /\ produced' = produced + n /\ UNCHANGED callVars

BodyProduce ==
  /\ At("Compressed") /\ due = 0
  /\ \E n \in 1..room : Produce(n)
  /\ UNCHANGED <<reader, header, streamState, phase, isLast, due, form, checked, limit>>

BodyError ==
  /\ At("Compressed") /\ due = 0
  /\ \E e \in BodyErrors : Body!MayStop(e) /\ Fail(e)
  /\ UNCHANGED <<reader, streamVars>>

\* CompressedStatus::Done: after the last body the rest of its byte must be 0.
EndBody ==
  /\ At("Compressed") /\ due = 0 /\ Body!MayStop("Done")
  /\ \/ /\ ~ isLast /\ UNCHANGED reader
        /\ phase' = "MetaBlockHeader" /\ Go
     \/ /\ isLast /\ Align
        /\ \/ phase' = "Done" /\ Go
           \/ buffered % ByteBits # 0 /\ Fail("NonZeroPadding") /\ UNCHANGED phase
  /\ UNCHANGED <<header, streamState, remaining, isLast, due, form, checked, limit>>

\* Stored bytes go from the input slice to the output slice past the bit reader.
CopyStored ==
  LET n == Least(remaining, Least(given, room)) IN
  /\ At("Uncompressed") /\ n > 0
  /\ TakeBytes(n)
  /\ Produce(n)
  /\ UNCHANGED <<header, streamState, phase, isLast, due, form, checked, limit>>

EndStored ==
  /\ At("Uncompressed") /\ remaining = 0
  /\ phase' = "MetaBlockHeader" /\ Go
  /\ UNCHANGED <<reader, header, streamState, remaining, isLast, due, form, checked, limit>>

SkipMetadata ==
  LET n == Least(remaining, given) IN
  /\ At("Metadata") /\ n > 0
  /\ TakeBytes(n)
  /\ remaining' = remaining - n /\ Go
  /\ UNCHANGED <<header, streamState, phase, isLast, due, form, checked, limit>>

EndMetadata ==
  /\ At("Metadata") /\ remaining = 0
  /\ phase' = IF isLast THEN "Done" ELSE "MetaBlockHeader"
  /\ Go
  /\ UNCHANGED <<reader, header, streamState, remaining, isLast, due, form, checked, limit>>

-----------------------------------------------------------------------------
(* Returns.                                                                *)

\* A read starves: the whole of the call's input is staged.
ReadStarves ==
  /\ \/ At("StreamHeader") /\ Starves(form.reads[streamState])
     \/ At("MetaBlockHeader") /\ ~ LengthComplete /\ ~ Aligning /\ Starves(HeaderWant)
     \/ At("Compressed") /\ due > 0 /\ Starves(due) /\ Body!MayStop("NeedInput")
  /\ StageAll
  /\ Return("NeedInput")
  /\ UNCHANGED streamVars

BytesStarve ==
  /\ \/ At("Uncompressed") /\ room > 0
     \/ At("Metadata")
  /\ remaining > 0 /\ given = 0
  /\ Return("NeedInput")
  /\ UNCHANGED <<reader, streamVars>>

OutputFullBody ==   \* mutant: stored bytes never ask for room
  /\ At("Compressed") /\ due = 0
  /\ remaining > 0 /\ room = 0
  /\ Return("NeedOutput")
  /\ UNCHANGED <<reader, streamVars>>

OutputFull ==
  /\ \/ At("Uncompressed")
     \/ At("Compressed") /\ due = 0
  /\ Body!MayStop("NeedOutput")
  /\ Return("NeedOutput")
  /\ UNCHANGED <<reader, streamVars>>

Done == At("Done") /\ Return("Done") /\ UNCHANGED <<reader, streamVars>>

-----------------------------------------------------------------------------

Turn == \/ ReadStreamHeader \/ ReadHeader \/ EndHeader \/ EndLastHeader \/ AlignHeader
        \/ BodyChoose \/ BodyRead \/ BodyProduce \/ BodyError \/ EndBody
        \/ CopyStored \/ EndStored \/ SkipMetadata \/ EndMetadata
        \/ ReadStarves \/ BytesStarve \/ OutputFull \/ Done

Caller == \/ \E i \in 0..MaxGiven, o \in 0..MaxRoom : Process(i, o)
          \/ \E o \in 0..MaxRoom : Finish(o)

Next == Turn \/ Caller

Spec == Init /\ [][Next]_vars

\* The loop of process() runs; nothing obliges a caller to call it again.
FairSpec == Spec /\ WF_vars(Turn)

-----------------------------------------------------------------------------
(* Correctness. *)

Phases == {"StreamHeader", "MetaBlockHeader", "Compressed", "Uncompressed", "Metadata", "Done"}
Errors == {"none", "InvalidStreamHeader", "WindowLimitExceeded", "InvalidMetaBlock",
           "InvalidCompressedData", "NonZeroPadding", "UnexpectedEof", "OutputLimitExceeded"}
HeaderStates == {"IsLast", "IsLastEmpty", "Nibbles", "DataLength", "IsUncompressed",
                 "UncompressedAlignment", "MetadataReserved", "MetadataLengthWidth",
                 "MetadataLength", "MetadataAlignment", "EndAlignment", "Done"}

TypeOK ==
  /\ buffered \in Nat /\ given \in 0..MaxGiven /\ consumed \in 0..MaxGiven
  /\ header \in [state : HeaderStates, last : BOOLEAN, width : 0..6, index : 0..6, value : Nat]
  /\ form \in WindowForms /\ streamState \in 1..Len(form.reads)
  /\ phase \in Phases /\ remaining \in Nat /\ isLast \in BOOLEAN
  /\ due \in BodyReads \cup {0}
  /\ checked \in BOOLEAN /\ limit \in Limits /\ total \in Nat /\ error \in Errors
  /\ status \in {"idle", "run", "NeedInput", "NeedOutput", "Done", "error"}
  /\ ending \in BOOLEAN
  /\ asked \in 0..MaxRoom /\ room \in 0..MaxRoom /\ produced \in 0..MaxRoom

\* The reader never holds a byte that is not the current read's: stored bytes,
\* metadata and the end of the stream begin at the input cursor, with no bits
\* staged before it. So the raw copies, which go past the bit reader, miss no
\* byte, and nothing after the stream is consumed.
BytesOwned ==
  /\ phase \in {"Uncompressed", "Metadata", "Done"} => buffered = 0
  /\ buffered >= ByteBits => phase = "Compressed" /\ buffered < due

\* A decoder with a limit never produces a byte past it, over all its calls,
\* and calls it exceeded only when it is used up and the stream owes more.
LimitHonoured ==
  /\ limit # NoLimit => total + (IF status = "run" THEN produced ELSE 0) <= limit
  /\ error = "OutputLimitExceeded" => total = limit /\ remaining > 0

\* NeedInput means the input slice is exhausted, and finish() never says it;
\* NeedOutput means the caller's own output slice is full, not just the part of
\* it that the limit allows; Done means the stream is complete.
StatusMeans ==
  /\ status = "NeedInput" => given = 0 /\ ~ ending
  /\ status = "NeedOutput" => produced = asked /\ remaining > 0
  /\ status = "Done" => phase = "Done"

\* Every accepted length has its only encoding: the top digit of a header with
\* more digits than the fewest is not 0, wherever input ran out between digits.
LengthIsMinimal ==
  /\ /\ LengthComplete \/ header.state \in {"IsUncompressed", "UncompressedAlignment"}
     /\ header.width > Widths[1]
     => header.value >= 2 ^ (NibbleBits * (header.width - 1))
  /\ header.state = "MetadataAlignment" /\ header.width > 1
     => header.value - 1 >= 2 ^ (LengthByteBits * (header.width - 1))

\* Once the stream is complete no call fails, consumes or produces anything,
\* whether it is process() or finish() and whatever follows in the input.
DoneIsFinal ==
  [][phase = "Done" => /\ phase' = "Done" /\ error' = "none"
                       /\ IF status = "run" THEN UNCHANGED <<reader, produced>>
                                            ELSE consumed' = 0 /\ produced' = 0]_vars

\* What a call has taken and put out was given to it, and within the limit.
CallBalance ==
  /\ given + consumed <= MaxGiven
  /\ room + produced <= MaxRoom
  /\ status = "run" => room + produced = Allowed(asked)

\* A call runs without an error, and none is made after one; once the stream is
\* complete there is none.
ErrorSticks == /\ error # "none" <=> status = "error"
               /\ error # "none" => phase # "Done"

\* Until the window was checked, nothing was read: no byte was given.
NothingUnchecked ==
  ~ checked /\ error = "none" => phase = "StreamHeader" /\ buffered = 0 /\ given = 0

\* Only a compressed body has a read of its own choice, and the digits of a
\* length in progress are fewer than the length has.
ReadsInPlace ==
  /\ phase # "Compressed" => due = 0
  /\ header.state = "MetadataLength" => header.index < header.width /\ header.width <= 3

\* The inductive invariant.
IInv == /\ TypeOK /\ CallBalance /\ ErrorSticks /\ NothingUnchecked /\ ReadsInPlace
        /\ BytesOwned /\ LimitHonoured /\ StatusMeans /\ LengthIsMinimal

\* Every call returns: no phase keeps process() in its loop without input or
\* room to use up.
CallsReturn == status = "run" ~> status # "run"
=============================================================================
