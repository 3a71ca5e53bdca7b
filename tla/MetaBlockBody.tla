--------------------------- MODULE MetaBlockBody ---------------------------
(***************************************************************************)
(* What the body of a compressed metablock promises the decoder core that  *)
(* calls it (CompressedProgress in decode/compressed_block.rs, as          *)
(* decoder.rs uses it), without commands, windows or codes: it owes the    *)
(* bytes that the metablock's header announced, puts them out as far as    *)
(* there is room, and says truly why it stops.                             *)
(***************************************************************************)
EXTENDS Naturals

CONSTANTS Lengths,   \* lengths a metablock header may announce
          Errors     \* what a body may fail with

VARIABLES owed,    \* bytes of the metablock not yet put out
          room,    \* bytes of the output slice left to the call
          status   \* "run" within a call; else what the last one returned

vars == <<owed, room, status>>

\* Bytes are put out only into the slice, and only those that are owed.
Produce(n) == /\ n <= owed /\ n <= room
              /\ owed' = owed - n
              /\ room' = room - n

\* When the body may stop, and what it says then.
MayStop(result) ==
  CASE result = "Done"       -> owed = 0
    [] result = "NeedOutput" -> owed > 0 /\ room = 0
    [] result = "NeedInput"  -> owed > 0
    [] OTHER                 -> owed > 0 /\ result \in Errors

Init == owed = 0 /\ room = 0 /\ status = "Done"

Begin == /\ status = "Done"
         /\ owed' \in Lengths /\ status' = "run" /\ UNCHANGED room

Resume == /\ status \in {"NeedInput", "NeedOutput"}
          /\ room' \in Nat /\ status' = "run" /\ UNCHANGED owed

Work == /\ status = "run" /\ UNCHANGED status
        /\ \E n \in 1..owed : Produce(n)

Stop == /\ status = "run" /\ status' # "run"
        /\ MayStop(status') /\ UNCHANGED <<owed, room>>

Next == Begin \/ Resume \/ Work \/ Stop

Spec == Init /\ [][Next]_vars
=============================================================================
