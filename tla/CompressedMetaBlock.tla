------------------------ MODULE CompressedMetaBlock ------------------------
(***************************************************************************)
(* A compressed metablock as decoder.rs calls it (compressed_metablock.rs):*)
(* its header, then its trees, then its data, each of which may stop for   *)
(* input anywhere and goes on with the next call, and metablocks one after *)
(* the other over the same window and recent distances.                    *)
(*                                                                         *)
(* The data is CompressedBlock. What the header's and the trees' fields    *)
(* are is CompressedHeader's; here they are reads, of any number.          *)
(***************************************************************************)
EXTENDS CompressedBlock

VARIABLES
  state,     \* CompressedMetaBlockDecoder::state
  announced  \* CompressedMetaBlockDecoder::length

metaBlock == <<state, announced>>
allVars == <<vars, metaBlock>>

MetaBlockInit == Init /\ state = "Done" /\ announced = 0

-----------------------------------------------------------------------------

\* decoder.rs makes a decoder for the next metablock, and calls it at once.
NextMetaBlock(length) ==
  /\ state = "Done" /\ status = "Done"
  /\ count < MaxBlocks
  /\ state' = "Header" /\ announced' = length
  /\ status' = "run"
  /\ UNCHANGED <<block, recent, out, fed, space, ghost>>

Resume(i, s) == Call(i, s) /\ UNCHANGED metaBlock

InFields == status = "run" /\ state \in {"Header", "Trees"}

\* A field of the header or of the trees that is not the last.
ReadField ==
  /\ InFields
  /\ Reads(FALSE)
  /\ UNCHANGED <<metaBlock, block, recent, out, status, ghost>>

FieldStarves ==
  /\ InFields /\ Starves(FALSE)
  /\ Return("NeedInput")
  /\ UNCHANGED metaBlock

FieldsWrong ==
  /\ InFields
  /\ Return(state)   \* CompressedMetaBlockError::Header, or Trees
  /\ UNCHANGED metaBlock

\* The header's last field.
EndHeader ==
  /\ InFields /\ state = "Header"
  /\ Reads(FALSE)
  /\ state' = "Trees"
  /\ UNCHANGED <<announced, block, recent, out, status, ghost>>

\* The last tree. CompressedBlock::new: the announced length is all it puts out.
EndTrees ==
  /\ InFields /\ state = "Trees"
  /\ Reads(FALSE)
  /\ state' = "Data" /\ NewBlock(announced)
  /\ UNCHANGED <<announced, recent, out, status, meaning, named>>

Data ==
  /\ state = "Data" /\ Turn
  /\ state' = IF status' = "Done" THEN "Done" ELSE "Data"
  /\ UNCHANGED announced

-----------------------------------------------------------------------------

MetaBlockTurn == ReadField \/ FieldStarves \/ FieldsWrong \/ EndHeader \/ EndTrees \/ Data

MetaBlockNext ==
  \/ MetaBlockTurn
  \/ \E i \in 0..MaxReads, s \in 0..MaxSpace : Resume(i, s)
  \/ \E length \in Lengths : NextMetaBlock(length)

\* The loops of process() run; nothing obliges a caller to call it again.
MetaBlockSpec == MetaBlockInit /\ [][MetaBlockNext]_allVars /\ WF_allVars(MetaBlockTurn)

-----------------------------------------------------------------------------
(* Correctness. *)

\* The metablock keeps the promise that the decoder core relies on. Through
\* header, trees, commands and copies it puts out no byte that is not owed or
\* has no room; it asks for output only when it has used all it was given and
\* owes more, for input only when it owes bytes, and is done when it owes none;
\* it fails only with an error of the stream, never of the window
\* (HistoryError), whose check begin_copy has made before.
Owed == IF state \in {"Header", "Trees"} THEN announced ELSE remaining
StreamErrors == {"Header", "Trees", "MetaBlockOverflow", "DistanceError", "DictionaryError"}
Body == INSTANCE MetaBlockBody
          WITH Errors <- StreamErrors, owed <- Owed, room <- space
BodySpec == Body!Spec

\* What the three properties rest on between any two steps. The bytes of the
\* window: literals of some tree, and letters of dictionary words.
Letters == (UNION {t.literal : t \in Trees}) \cup (Nat \X Nat \X Nat \X Nat)

Records ==
  /\ state \in {"Header", "Trees", "Data", "Done"} /\ trees \in Trees
  /\ command \in [state : {"none", "insert", "copy"}, insert : Nat, insertBits : Nat,
                  copy : Nat, copyBits : Nat, implicit : BOOLEAN]
  /\ copy \in [left : Nat, distance : Nat]
  /\ distance \in [state : {"none", "resolved", "extra"}, symbol : Nat, value : Nat,
                   push : BOOLEAN, bits : 0..24]
  /\ dictionary \in [held : BOOLEAN, bytes : Seq(Letters), offset : Nat]
  /\ dictionary.offset <= Len(dictionary.bytes)
  /\ out \in Seq(Letters) /\ meaning \in Seq(Letters)

\* A distance is never 0, and one that a copy goes by never beyond the reach.
DistancesReach ==
  /\ \A i \in 1..4 : recent[i] # 0
  /\ distance.state # "none" => distance.value # 0
  /\ phase = "Copy" => copy.distance \in 1..Reach

\* What the metablock owes suffices for what it has begun.
OwedSuffices ==
  /\ Len(out) + remaining = end
  /\ phase \in {"CommandExtra", "Distance", "DistanceExtra", "Dictionary"} => remaining # 0
  /\ phase = "Literals" => command.insert <= remaining
  /\ phase = "Copy" => copy.left <= remaining
  /\ phase = "Dictionary" => Len(dictionary.bytes) - dictionary.offset <= remaining
  /\ phase = "Done" => remaining = 0
  /\ state \in {"Header", "Trees"} => announced \in Lengths
  /\ state # "Data" => phase = "Done"

\* What is meant and not yet put out is the rest of the copy or of the word.
RestFollows ==
  CASE phase = "Copy" -> meaning = Overlap(out, copy.distance, copy.left)
    [] phase = "Dictionary" ->
         meaning = out \o SubSeq(dictionary.bytes, dictionary.offset + 1, Len(dictionary.bytes))
    [] OTHER -> meaning = out

\* A distance is pushed unless it was named as the last.
PushIsNew == /\ named \in Seq(Nat)
             /\ distance.state # "none" => distance.push = (distance.symbol # 0)

IInv == TypeOK /\ Records /\ DistancesReach /\ OwedSuffices /\ RestFollows
=============================================================================
