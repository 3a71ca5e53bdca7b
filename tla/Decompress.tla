----------------------------- MODULE Decompress -----------------------------
(***************************************************************************)
(* The one-shot decompress() of lib.rs over the incremental decoder: it    *)
(* hands over what is left of the input until the decoder needs more, then *)
(* finishes, with a fresh buffer for each call, and refuses trailing bytes.*)
(***************************************************************************)
EXTENDS StreamDecoder

CONSTANTS MaxInput,   \* bound: bytes of the input
          BufferSize  \* 8192

ASSUME OneShotAssumption ==
  /\ MaxInput \in 0..MaxGiven
  /\ BufferSize \in 1..MaxRoom
  /\ \A l \in Limits \ {NoLimit} : l < MaxTotal   \* that bound cuts no call off

VARIABLES
  input,     \* input.len()
  offset,    \* input_offset
  finishing,
  output,    \* output.len()
  verdict    \* "none" until decompress() returns

oneShotVars == <<input, offset, finishing, output, verdict>>

OneShotInit == /\ Init
               /\ limit # NoLimit   \* with_output_limit(max_output_size)
               /\ input \in 0..MaxInput
               /\ offset = 0 /\ finishing = FALSE /\ output = 0 /\ verdict = "none"

\* The top of the loop: the next call of the decoder.
Call == /\ verdict = "none" /\ status = "idle"
        /\ IF finishing THEN Finish(BufferSize) ELSE Process(input - offset, BufferSize)
        /\ UNCHANGED oneShotVars

OneShotDecodes == Turn /\ UNCHANGED oneShotVars

NewOffset == IF finishing THEN offset ELSE offset + consumed

KeepOnNeedOutput ==   \* mutant: the buffer is kept only when it is full
  IF status = "NeedOutput" THEN output + produced ELSE output
NewOutput == output + produced

\* The call returned an error: it is decompress()'s own.
Fails == /\ verdict = "none" /\ status = "error"
         /\ verdict' = error
         /\ UNCHANGED <<vars, input, offset, finishing, output>>

Completed == IF NewOffset = input THEN "Ok" ELSE "TrailingData"

NeverEnds == finishing   \* mutant: finish() is never called
EndsInput == TRUE

\* The call returned progress, which is added up before the next one.
Returned ==
  /\ verdict = "none" /\ status \in {"NeedInput", "NeedOutput", "Done"}
  /\ status' = "idle"
  /\ offset' = NewOffset
  /\ output' = NewOutput
  /\ CASE NewOffset > input -> verdict' = "OffsetPastInput" /\ UNCHANGED finishing
       [] OTHER ->
            \/ status = "NeedOutput" /\ UNCHANGED <<finishing, verdict>>
            \/ /\ status = "NeedInput"
               /\ IF NewOffset # input THEN verdict' = "InputLeft" /\ UNCHANGED finishing
                  ELSE finishing' = EndsInput /\ UNCHANGED verdict
            \/ status = "Done" /\ verdict' = Completed /\ UNCHANGED finishing
  /\ UNCHANGED <<reader, streamVars, total, error, ending, asked, room, produced, input>>

OneShotNext == Call \/ OneShotDecodes \/ Returned \/ Fails

\* A function that runs to its end.
OneShotSpec == OneShotInit /\ [][OneShotNext]_<<vars, oneShotVars>>
               /\ WF_<<vars, oneShotVars>>(OneShotNext)

-----------------------------------------------------------------------------
(* Correctness. *)

\* What decompress() says is so. It succeeds with all the input used, up to the
\* last byte of a complete stream, and all the stream's bytes in the output, at
\* most the limit; TrailingData is said only of a complete stream that ended
\* before the input did; and the two checks of the decoder's promise
\* (InvalidCompressedData for an offset past the input, or before its end when
\* more is needed) never fire, so that that error always speaks of the stream.
VerdictMeans ==
  /\ verdict = "Ok" => /\ phase = "Done" /\ offset = input /\ buffered = 0
                       /\ output = total /\ output <= limit
  /\ verdict = "TrailingData" => phase = "Done" /\ offset < input
  /\ verdict \notin {"OffsetPastInput", "InputLeft"}

OneShotTypeOK ==
  /\ limit # NoLimit /\ input \in 0..MaxInput /\ offset \in 0..input
  /\ finishing \in BOOLEAN /\ output \in Nat

\* The call in progress has what was left of the input, and the bytes it has put
\* out are not in the output yet.
CallsAddUp ==
  /\ finishing => offset = input
  /\ verdict # "none" => status # "run"
  /\ verdict = "none" /\ status # "idle" =>
       ending = finishing /\ given + consumed = input - offset
  /\ verdict = "none" /\ error = "none" =>
       total = output + (IF status \in {"idle", "run"} THEN 0 ELSE produced)

\* The inductive invariant of decompress(), with that of its decoder.
OneShotIInv == IInv /\ OneShotTypeOK /\ CallsAddUp /\ VerdictMeans
=============================================================================
