-------------------------- MODULE MCDecoderCallers --------------------------
(* The two callers of the decoder that the library has itself, one of them   *)
(* in a behaviour: decompress() meets every stream header, a reader one that *)
(* is accepted.                                                              *)
EXTENDS DecoderReader, Decompress

VARIABLE caller

Accepted == [reads |-> <<1, 3>>, window |-> 22]
MCForms == {Accepted, [reads |-> <<1>>, window |-> 16], [reads |-> <<1, 3>>, window |-> 24],
            [reads |-> <<1, 3, 3>>, window |-> Invalid]}
MCWidths == <<1, 2, 3>>

MCInit ==
  \/ /\ caller = "reader" /\ ReaderInit
     /\ form = Accepted /\ limit # 0
     /\ input = 0 /\ offset = 0 /\ finishing = FALSE /\ output = 0 /\ verdict = "none"
  \/ /\ caller = "oneShot" /\ OneShotInit
     /\ supply = 0 /\ unread = 0 /\ done = FALSE /\ pc = "none" /\ wanted = 0
     /\ result = Ok(0) /\ delivered = 0

Reads    == caller = "reader" /\ ReaderNext /\ UNCHANGED <<oneShotVars, caller>>
ReadLoops == caller = "reader" /\ ReaderLoop /\ UNCHANGED <<oneShotVars, caller>>
OneShots == caller = "oneShot" /\ OneShotNext /\ UNCHANGED <<readerVars, caller>>

MCVars == <<vars, readerVars, oneShotVars, caller>>

\* The fairness of the two specifications.
MCSpec == MCInit /\ [][Reads \/ OneShots]_MCVars /\ WF_MCVars(ReadLoops) /\ WF_MCVars(OneShots)

\* What a caller is told holds of the stream: a read that returns nothing, or an
\* error, and the verdict of decompress() (DecoderReader::read, decompress).
CallersTold == ReadMeans /\ VerdictMeans

\* Every read returns while the source keeps answering, and decompress() always
\* does (the loops of read(), decompress() and process() end).
CallersReturn ==
  /\ caller = "reader" => (pc # "idle" ~> pc = "idle")
  /\ caller = "oneShot" => <>(verdict # "none")
=============================================================================
