---------------------------- MODULE DecoderProofs ----------------------------
(***************************************************************************)
(* The decoder of a whole stream owns every byte it takes, honours its     *)
(* output limit over all calls, says truly why a call stops, accepts only  *)
(* minimal lengths and stays done: for bytes, digits and reads of any      *)
(* widths, any limits, and calls with any slices.  On its invariant rest   *)
(* those of its two callers: a Read adapter loses no byte, says truly what *)
(* a read means and leaves its source alone once the stream is over;       *)
(* decompress() says truly how the stream ended.  For sources of any size  *)
(* that deliver their bytes in any pieces, and slices of any size.         *)
(***************************************************************************)
EXTENDS MCDecoderCallers, SequenceTheorems, TLAPS

-----------------------------------------------------------------------------
(* The bit reader. *)

(* read_bits stages the fewest whole bytes that hold the bits asked for.   *)
LEMMA MissingBytes ==
  ASSUME buffered \in Nat, NEW count \in Nat
  PROVE  /\ Missing(count) \in Nat
         /\ count <= buffered => Missing(count) = 0
         /\ count > buffered => /\ Missing(count) >= 1
                                /\ count <= buffered + (ByteBits * Missing(count))
                                /\ buffered + (ByteBits * Missing(count)) - count < ByteBits
<1>1. CASE count <= buffered
  BY <1>1 DEF Missing
<1>2. CASE count > buffered
  BY <1>2, ByteBitsAssumption DEF Missing
<1>3. QED
  BY <1>1, <1>2

(* After a read that staged a byte less than a byte is left.               *)
LEMMA ReadKeeps ==
  ASSUME buffered \in Nat, given \in Nat, consumed \in Nat, NEW count \in Nat, ReadBits(count)
  PROVE  /\ buffered' \in Nat /\ given' \in Nat /\ given' <= given /\ consumed' \in Nat
         /\ given' + consumed' = given + consumed
         /\ buffered' < ByteBits \/ (count <= buffered /\ buffered' = buffered - count)
         /\ count <= buffered \/ given > 0
<1>1. Missing(count) <= given /\ given' = given - Missing(count)
      /\ consumed' = consumed + Missing(count)
      /\ buffered' = buffered + (ByteBits * Missing(count)) - count
  BY DEF ReadBits, Stage
<1>2. CASE count <= buffered
  <2>1. Missing(count) = 0 /\ ByteBits * 0 = 0
    BY <1>2, MissingBytes, ByteBitsAssumption
  <2>2. QED
    BY <1>1, <1>2, <2>1
<1>3. CASE count > buffered
  <2>1. ByteBits * Missing(count) \in Nat
    BY MissingBytes, ByteBitsAssumption
  <2>2. QED
    BY <1>1, <1>3, <2>1, MissingBytes
<1>4. QED
  BY <1>2, <1>3

(* A read that starves leaves fewer bits staged than it wants.             *)
LEMMA StarveKeeps ==
  ASSUME buffered \in Nat, given \in Nat, consumed \in Nat, NEW count \in Nat,
         Starves(count), StageAll
  PROVE  /\ buffered' \in Nat /\ buffered' < count
         /\ given' = 0 /\ consumed' = consumed + given
<1>1. Missing(count) \in Nat /\ given < Missing(count) /\ count > buffered
  BY MissingBytes DEF Starves
<1>2. buffered + (ByteBits * Missing(count)) - count < ByteBits
  BY <1>1, MissingBytes
<1>3. buffered + (ByteBits * given) < count
  <2>1. ByteBits * (given + 1) <= ByteBits * Missing(count)
    BY <1>1, ByteBitsAssumption
  <2>2. ByteBits * (given + 1) = (ByteBits * given) + ByteBits
    BY ByteBitsAssumption
  <2>3. ByteBits * given \in Nat /\ ByteBits * Missing(count) \in Nat
    BY <1>1, ByteBitsAssumption
  <2>4. QED
    BY <1>2, <2>1, <2>2, <2>3, ByteBitsAssumption
<1>4. ByteBits * given \in Nat
  BY ByteBitsAssumption
<1>5. QED
  BY <1>3, <1>4 DEF StageAll, Stage

LEMMA AlignKeeps ==
  ASSUME buffered \in Nat, Align
  PROVE  /\ buffered' \in Nat /\ given' = given /\ consumed' = consumed
         /\ buffered < ByteBits => buffered' = 0
<1>1. buffered % ByteBits \in 0..buffered
  <2>1. CASE buffered < ByteBits
    BY <2>1, ByteBitsAssumption
  <2>2. CASE buffered >= ByteBits
    BY <2>2, ByteBitsAssumption
  <2>3. QED
    BY <2>1, <2>2, ByteBitsAssumption
<1>2. buffered < ByteBits => buffered % ByteBits = buffered
  BY ByteBitsAssumption
<1>3. QED
  BY <1>1, <1>2 DEF Align

-----------------------------------------------------------------------------
(* What the steps of a call have in common. *)

LEMMA Running ==
  ASSUME IInv, status = "run"
  PROVE  error = "none" /\ (phase # "StreamHeader" => checked)
  BY DEF IInv, ErrorSticks, NothingUnchecked, TypeOK

(* A limit that is honoured leaves a share for the call.                   *)
LEMMA AllowedShare ==
  ASSUME TypeOK, NEW o \in 0..MaxRoom
  PROVE  /\ Allowed(o) \in 0..o
         /\ limit # NoLimit /\ total <= limit => total + Allowed(o) <= limit
         /\ limit # NoLimit /\ total <= limit /\ Allowed(o) # o => total + Allowed(o) = limit
<1>1. CASE limit = NoLimit
  BY <1>1, CallAssumption DEF Allowed
<1>2. CASE limit # NoLimit
  <2>1. limit \in Nat /\ total \in Nat /\ o \in Nat
    BY <1>2, LimitAssumption, CallAssumption DEF TypeOK
  <2>2. QED
    BY <1>2, <2>1 DEF Allowed
<1>3. QED
  BY <1>1, <1>2

LEMMA SumBounds ==
  ASSUME NEW m \in Nat, NEW a \in Nat, NEW b \in Nat, NEW c \in Nat, NEW d \in Nat,
         a + b <= m, c + d = a + b
  PROVE  c \in 0..m /\ d \in 0..m
OBVIOUS

(* What is left of the input slice and what is taken make up the slice.    *)
LEMMA SliceSplit ==
  ASSUME IInv, given' \in Nat, consumed' \in Nat, given' + consumed' = given + consumed
  PROVE  given' \in 0..MaxGiven /\ consumed' \in 0..MaxGiven
<1>1. MaxGiven \in Nat /\ given \in Nat /\ consumed \in Nat /\ given + consumed <= MaxGiven
  BY CallAssumption DEF IInv, TypeOK, CallBalance
<1>2. QED
  BY <1>1, SumBounds

(* A turn that goes on: the call's account stays as it is.                 *)
LEMMA GoKeeps ==
  ASSUME IInv, status = "run", Go, UNCHANGED <<checked, limit>>,
         given' + consumed' = given + consumed
  PROVE  CallBalance' /\ ErrorSticks' /\ LimitHonoured' /\ StatusMeans'
<1>1. error = "none" /\ UNCHANGED <<total, error, status, ending, asked, room, produced, limit>>
  BY Running DEF Go, callVars
<1>2. CallBalance'
  BY <1>1 DEF IInv, CallBalance, Allowed
<1>3. ErrorSticks' /\ LimitHonoured' /\ StatusMeans'
  BY <1>1 DEF IInv, ErrorSticks, LimitHonoured, StatusMeans
<1>4. QED
  BY <1>2, <1>3

(* A turn that puts bytes out.                                             *)
LEMMA ProduceKeeps ==
  ASSUME IInv, status = "run", NEW n \in Nat, Produce(n), UNCHANGED <<checked, limit>>,
         given' + consumed' = given + consumed
  PROVE  /\ CallBalance' /\ ErrorSticks' /\ LimitHonoured' /\ StatusMeans'
         /\ remaining' \in Nat /\ room' \in 0..MaxRoom /\ produced' \in 0..MaxRoom
<1>1. /\ error = "none" /\ UNCHANGED <<total, error, status, ending, asked, limit>>
      /\ n <= remaining /\ n <= room /\ remaining' = remaining - n /\ room' = room - n
      /\ produced' = produced + n
  BY Running DEF Produce, Body!Produce, callVars
<1>2. /\ total \in Nat /\ asked \in 0..MaxRoom /\ remaining \in Nat
      /\ room \in Nat /\ produced \in Nat /\ given + consumed <= MaxGiven
      /\ room + produced <= MaxRoom /\ room + produced = Allowed(asked)
  BY CallAssumption DEF IInv, TypeOK, CallBalance
<1>3. room' \in Nat /\ produced' \in Nat /\ room' + produced' = room + produced
  BY <1>1, <1>2
<1>4. CallBalance'
  BY <1>1, <1>2, <1>3 DEF CallBalance, Allowed
<1>5. LimitHonoured'
  <2>1. limit # NoLimit => limit \in Nat /\ total <= limit
    BY <1>2, LimitAssumption DEF IInv, TypeOK, LimitHonoured
  <2>2. limit # NoLimit => total + (room + produced) <= limit
    BY <1>2, <2>1, AllowedShare DEF IInv
  <2>3. limit # NoLimit => total + produced' <= limit
    BY <1>1, <1>2, <1>3, <2>1, <2>2
  <2>4. QED
    BY <1>1, <2>3 DEF LimitHonoured
<1>6. ErrorSticks' /\ StatusMeans'
  BY <1>1 DEF IInv, ErrorSticks, StatusMeans
<1>7. QED
  BY <1>1, <1>2, <1>3, <1>4, <1>5, <1>6, CallAssumption

(* A turn that fails.                                                      *)
LEMMA FailKeeps ==
  ASSUME IInv, status = "run", NEW e \in Errors \ {"none", "OutputLimitExceeded"}, Fail(e),
         phase # "Done", phase' = phase, limit' = limit,
         given' + consumed' = given + consumed
  PROVE  /\ CallBalance' /\ ErrorSticks' /\ LimitHonoured' /\ StatusMeans'
         /\ NothingUnchecked'
<1>1. /\ error' = e /\ status' = "error"
      /\ UNCHANGED <<total, ending, asked, room, produced, limit>>
  BY DEF Fail
<1>2. limit # NoLimit => limit \in Nat /\ total <= limit
  BY LimitAssumption DEF IInv, TypeOK, LimitHonoured
<1>3. CallBalance' /\ ErrorSticks' /\ NothingUnchecked' /\ StatusMeans'
  BY <1>1 DEF IInv, CallBalance, ErrorSticks, NothingUnchecked, StatusMeans
<1>4. LimitHonoured'
  BY <1>1, <1>2 DEF IInv, TypeOK, LimitHonoured
<1>5. QED
  BY <1>3, <1>4

(* A turn that returns: by then the slice of input is used up if more is   *)
(* wanted, and the slice of output, as far as the limit goes, if it is full. *)
LEMMA ReturnKeeps ==
  ASSUME IInv, status = "run", NEW r \in {"NeedInput", "NeedOutput", "Done"}, Return(r),
         UNCHANGED <<phase, remaining, checked, limit>>,
         given' + consumed' = given + consumed,
         r = "NeedInput" => given' = 0 /\ phase # "Done",
         r = "NeedOutput" => room = 0 /\ remaining > 0 /\ phase # "Done",
         r = "Done" => phase = "Done"
  PROVE  /\ CallBalance' /\ ErrorSticks' /\ LimitHonoured' /\ StatusMeans'
         /\ total' \in Nat /\ error' \in Errors
         /\ status' \in {"NeedInput", "NeedOutput", "Done", "error"}
         /\ UNCHANGED <<ending, asked, room, produced>>
         /\ r = "Done" => error' = "none"
<1>1. /\ total' = total + produced
      /\ error' \in {"none", "UnexpectedEof", "OutputLimitExceeded"}
      /\ error' = "UnexpectedEof" <=> r = "NeedInput" /\ ending
      /\ error' = "OutputLimitExceeded" <=> r = "NeedOutput" /\ LimitReached
      /\ status' = IF error' = "none" THEN r ELSE "error"
      /\ UNCHANGED <<ending, asked, room, produced>>
  BY DEF Return
<1>2. /\ total \in Nat /\ produced \in Nat /\ asked \in 0..MaxRoom /\ room \in Nat
      /\ given + consumed <= MaxGiven
      /\ room + produced <= MaxRoom /\ room + produced = Allowed(asked)
  BY CallAssumption DEF IInv, TypeOK, CallBalance
<1>3. CallBalance'
  BY <1>1, <1>2 DEF CallBalance
<1>4. ErrorSticks'
  BY <1>1 DEF ErrorSticks
<1>5. limit # NoLimit => limit \in Nat /\ total <= limit /\ total + produced <= limit
  BY <1>2, LimitAssumption DEF IInv, TypeOK, LimitHonoured
<1>6. LimitHonoured'
  <2>1. limit # NoLimit => total' <= limit
    BY <1>1, <1>5
  <2>2. error' = "OutputLimitExceeded" => limit # NoLimit /\ total' >= limit /\ remaining' > 0
    BY <1>1 DEF LimitReached
  <2>3. QED
    BY <1>1, <1>2, <1>5, <2>1, <2>2 DEF LimitHonoured
<1>7. StatusMeans'
  <2>1. ASSUME status' = "NeedOutput" PROVE produced' = asked' /\ remaining' > 0
    <3>1. r = "NeedOutput" /\ room = 0 /\ remaining > 0 /\ ~ LimitReached
      BY <2>1, <1>1
    <3>2. produced = Allowed(asked)
      BY <3>1, <1>2
    <3>3. Allowed(asked) = asked
      <4>1. limit # NoLimit => total + Allowed(asked) < limit
        BY <3>1, <3>2, <1>2, <1>5 DEF LimitReached
      <4>2. limit = NoLimit => Allowed(asked) = asked
        BY DEF Allowed
      <4>3. QED
        BY <4>1, <4>2, <1>2, <1>5, AllowedShare DEF IInv
    <3>4. QED
      BY <3>1, <3>2, <3>3, <1>1
  <2>2. /\ status' = "NeedInput" => given' = 0 /\ ~ ending'
        /\ status' = "Done" => phase' = "Done"
    BY <1>1
  <2>3. QED
    BY <2>1, <2>2 DEF StatusMeans
<1>8. QED
  BY <1>1, <1>2, <1>3, <1>4, <1>6, <1>7 DEF Errors

(* As long as the header stays, so does what is known of its length.       *)
LEMMA SameHeader ==
  ASSUME header' = header
  PROVE  LengthIsMinimal' <=> LengthIsMinimal
  BY DEF LengthIsMinimal, LengthComplete

LEMMA CleanHeader ==
  /\ Clean \in [state : HeaderStates, last : BOOLEAN, width : 0..6, index : 0..6, value : Nat]
  /\ header' = Clean => LengthIsMinimal' /\ (header.state # "MetadataLength")'
<1>1. 6 >= 0 /\ Widths[1] \in 1..6
  BY SMTT(30), WidthAssumption
<1>2. QED
  BY <1>1 DEF Clean, LengthIsMinimal, LengthComplete, HeaderStates

-----------------------------------------------------------------------------
(* The invariant holds at first, and each turn keeps it. *)

LEMMA InitIInv == Init => IInv
<1> SUFFICES ASSUME Init PROVE IInv
  OBVIOUS
<1> USE DEF Init
<1>1. form \in WindowForms /\ 1 \in 1..Len(form.reads)
  BY FormAssumption
<1>2. TypeOK
  <2>1. 0 \in 0..MaxGiven /\ 0 \in 0..MaxRoom
    BY CallAssumption
  <2>2. header \in [state : HeaderStates, last : BOOLEAN, width : 0..6, index : 0..6, value : Nat]
    BY CleanHeader
  <2>3. QED
    BY <1>1, <2>1, <2>2 DEF TypeOK, Phases, Errors
<1>3. CallBalance /\ ErrorSticks /\ NothingUnchecked /\ StatusMeans
  BY CallAssumption DEF CallBalance, ErrorSticks, NothingUnchecked, StatusMeans
<1>4. ReadsInPlace /\ BytesOwned
  BY ByteBitsAssumption DEF ReadsInPlace, BytesOwned, Clean
<1>5. LimitHonoured
  BY LimitAssumption DEF LimitHonoured
<1>6. LengthIsMinimal
  BY DEF LengthIsMinimal, LengthComplete, Clean
<1>7. QED
  BY <1>2, <1>3, <1>4, <1>5, <1>6 DEF IInv

(* A call begins.                                                          *)
LEMMA BeginIInv ==
  ASSUME IInv, NEW i \in 0..MaxGiven, NEW o \in 0..MaxRoom, NEW finish \in BOOLEAN,
         Begin(i, o, finish)
  PROVE  IInv'
<1>1. /\ status # "run" /\ error = "none" /\ given' = i /\ consumed' = 0
      /\ UNCHANGED <<buffered, header, streamState, phase, remaining, isLast, due, form, limit, total>>
      /\ asked' = o /\ room' = Allowed(o) /\ produced' = 0 /\ ending' = finish
  BY DEF Begin
<1>2. /\ error' \in {"none", "InvalidStreamHeader", "WindowLimitExceeded"}
      /\ status' = IF error' = "none" THEN "run" ELSE "error"
      /\ error' = "none" => checked' = (checked \/ i # 0)
      /\ error' # "none" => ~ checked /\ checked' = FALSE /\ i # 0
  BY DEF Begin, WindowError, IInv, TypeOK
<1>3. Allowed(o) \in 0..o /\ Allowed(o)' = Allowed(o)
  BY <1>1, AllowedShare DEF IInv, Allowed
<1>4. TypeOK'
  <2>1. 0 \in 0..MaxGiven /\ 0 \in 0..MaxRoom /\ Allowed(o) \in 0..MaxRoom
    BY <1>3, CallAssumption
  <2>2. /\ error' \in Errors /\ checked' \in BOOLEAN
        /\ status' \in {"idle", "run", "NeedInput", "NeedOutput", "Done", "error"}
    BY <1>2 DEF Errors, IInv, TypeOK
  <2>3. QED
    BY <1>1, <2>1, <2>2 DEF IInv, TypeOK
<1>5. CallBalance'
  BY <1>1, <1>3, CallAssumption DEF CallBalance
<1>6. ErrorSticks' /\ NothingUnchecked'
  BY <1>1, <1>2 DEF IInv, TypeOK, ErrorSticks, NothingUnchecked
<1>7. ReadsInPlace' /\ BytesOwned' /\ LengthIsMinimal'
  BY <1>1, SameHeader DEF IInv, ReadsInPlace, BytesOwned
<1>8. LimitHonoured'
  BY <1>1, <1>2, LimitAssumption DEF IInv, TypeOK, LimitHonoured
<1>9. StatusMeans'
  BY <1>2 DEF StatusMeans
<1>10. QED
  BY <1>4, <1>5, <1>6, <1>7, <1>8, <1>9 DEF IInv

LEMMA ReadStreamHeaderIInv ==
  ASSUME IInv, ReadStreamHeader
  PROVE  IInv'
<1> DEFINE count == form.reads[streamState]
<1>1. /\ status = "run" /\ phase = "StreamHeader" /\ ReadBits(count) /\ Go
      /\ UNCHANGED <<header, remaining, isLast, due, form, checked, limit>>
      /\ \/ streamState < Len(form.reads) /\ streamState' = streamState + 1 /\ phase' = phase
         \/ phase' = "MetaBlockHeader" /\ streamState' = streamState
  BY DEF ReadStreamHeader, At
<1>2. Len(form.reads) \in 1..3 /\ streamState \in 1..Len(form.reads) /\ count \in 1..3
  BY SMTT(30), FormAssumption DEF IInv, TypeOK
<1> HIDE DEF count
<1>3. /\ buffered' \in Nat /\ given' \in Nat /\ given' <= given /\ consumed' \in Nat
      /\ given' + consumed' = given + consumed
      /\ buffered' < ByteBits
      /\ count <= buffered \/ given > 0
  <2>1. buffered \in Nat /\ given \in Nat /\ consumed \in Nat /\ buffered < ByteBits
    BY <1>1, CallAssumption, ByteBitsAssumption DEF IInv, TypeOK, BytesOwned
  <2>2. QED
    BY <1>1, <1>2, <2>1, ReadKeeps, ByteBitsAssumption
<1>4. CallBalance' /\ ErrorSticks' /\ LimitHonoured' /\ StatusMeans'
  BY <1>1, <1>3, GoKeeps
<1>5. checked
  BY <1>1, <1>2, <1>3, Running DEF IInv, NothingUnchecked, TypeOK
<1>6. TypeOK'
  <2>1. given' \in 0..MaxGiven /\ consumed' \in 0..MaxGiven
    BY <1>3, SliceSplit
  <2>2. QED
    BY SMTT(30), <1>1, <1>2, <1>3, <2>1 DEF IInv, TypeOK, Phases, Go, callVars
<1>7. NothingUnchecked' /\ ReadsInPlace' /\ BytesOwned' /\ LengthIsMinimal'
  BY <1>1, <1>3, <1>5, SameHeader, ByteBitsAssumption
  DEF IInv, NothingUnchecked, ReadsInPlace, BytesOwned
<1>8. QED
  BY <1>4, <1>6, <1>7 DEF IInv

(* The turns of MetaBlockHeaderDecoder::decode that stay within a header.  *)
Headers == [state : HeaderStates, last : BOOLEAN, width : 0..6, index : 0..6, value : Nat]
DigitsLeft == header.state = "MetadataLength" => header.index < header.width /\ header.width <= 3

(* The weights of the digits of a length: no power that occurs is 0.       *)
LEMMA PowerCases ==
  /\ 2 ^ 0 \in Nat \ {0} /\ 2 ^ 1 \in Nat \ {0} /\ 2 ^ 2 \in Nat \ {0}
  /\ 2 ^ 3 \in Nat \ {0} /\ 2 ^ 4 \in Nat \ {0} /\ 2 ^ 5 \in Nat \ {0}
  /\ 2 ^ 6 \in Nat \ {0} /\ 2 ^ 7 \in Nat \ {0} /\ 2 ^ 8 \in Nat \ {0}
  /\ 2 ^ 9 \in Nat \ {0} /\ 2 ^ 10 \in Nat \ {0} /\ 2 ^ 11 \in Nat \ {0}
  /\ 2 ^ 12 \in Nat \ {0} /\ 2 ^ 13 \in Nat \ {0} /\ 2 ^ 14 \in Nat \ {0}
  /\ 2 ^ 15 \in Nat \ {0} /\ 2 ^ 16 \in Nat \ {0} /\ 2 ^ 17 \in Nat \ {0}
  /\ 2 ^ 18 \in Nat \ {0} /\ 2 ^ 19 \in Nat \ {0} /\ 2 ^ 20 \in Nat \ {0}
OBVIOUS

LEMMA PowerPositive ==
  ASSUME NEW n \in 0..20
  PROVE  2 ^ n \in Nat \ {0}
<1>1. \/ n = 0 \/ n = 1 \/ n = 2 \/ n = 3 \/ n = 4 \/ n = 5 \/ n = 6
      \/ n = 7 \/ n = 8 \/ n = 9 \/ n = 10 \/ n = 11 \/ n = 12 \/ n = 13
      \/ n = 14 \/ n = 15 \/ n = 16 \/ n = 17 \/ n = 18 \/ n = 19 \/ n = 20
  OBVIOUS
<1>2. QED
  BY <1>1, PowerCases, Zenon

LEMMA Exponents ==
  /\ \A i \in 0..5 : NibbleBits * i \in 0..20
  /\ \A i \in 0..2 : LengthByteBits * i \in 0..20
<1>1. NibbleBits \in 1..4 /\ LengthByteBits \in 1..8
  BY WidthAssumption
<1>2. \A i \in 0..5 : i = 0 \/ i = 1 \/ i = 2 \/ i = 3 \/ i = 4 \/ i = 5
  OBVIOUS
<1>3. \A i \in 0..2 : i = 0 \/ i = 1 \/ i = 2
  OBVIOUS
<1>4. \A i \in 0..5 : NibbleBits * i \in 0..20
  BY <1>1, <1>2
<1>5. \A i \in 0..2 : LengthByteBits * i \in 0..20
  BY <1>1, <1>3
<1>6. QED
  BY <1>4, <1>5

LEMMA DigitWeight ==
  ASSUME NEW v \in Nat, NEW d \in Nat, NEW w \in Nat
  PROVE  v + (d * w) \in Nat /\ (d # 0 => v + (d * w) >= w)
OBVIOUS

LEMMA FirstTurns ==
  ASSUME header \in Headers, IsLast \/ IsLastEmpty \/ MetadataReserved
  PROVE  header' \in Headers /\ LengthIsMinimal' /\ DigitsLeft'
<1>1. \/ header' = [header EXCEPT !.last = TRUE, !.state = "IsLastEmpty"]
      \/ header' = [header EXCEPT !.last = FALSE, !.state = "Nibbles"]
      \/ header' = [header EXCEPT !.state = "EndAlignment"]
      \/ header' = [header EXCEPT !.state = "Nibbles"]
      \/ header' = [header EXCEPT !.state = "MetadataLengthWidth"]
  BY DEF IsLast, IsLastEmpty, MetadataReserved, Goto
<1>2. header' \in Headers
      /\ header'.state \in {"IsLastEmpty", "Nibbles", "EndAlignment", "MetadataLengthWidth"}
  BY <1>1 DEF Headers, HeaderStates
<1>3. QED
  BY <1>2 DEF LengthIsMinimal, LengthComplete, DigitsLeft

LEMMA WidthTurns ==
  ASSUME header \in Headers, Nibbles \/ MetadataLengthWidth
  PROVE  header' \in Headers /\ LengthIsMinimal' /\ DigitsLeft'
<1>1. CASE Nibbles
  <2>1. \/ /\ header'.state = "DataLength" /\ header'.index = 0 /\ header'.width # 0
           /\ header' \in Headers
        \/ header'.state = "MetadataReserved" /\ header' \in Headers
    <3>1. CASE header' = [header EXCEPT !.index = 0, !.value = 0, !.state = "MetadataReserved"]
      <4>1. 0 \in 0..6 /\ 0 \in Nat /\ "MetadataReserved" \in HeaderStates
        BY DEF HeaderStates
      <4>2. QED
        BY <3>1, <4>1 DEF Headers
    <3>2. ASSUME NEW code \in 1..3,
                 header' = [header EXCEPT !.index = 0, !.value = 0, !.width = Widths[code],
                                          !.state = "DataLength"]
          PROVE  /\ header'.state = "DataLength" /\ header'.index = 0 /\ header'.width # 0
                 /\ header' \in Headers
      <4>1. Widths[code] \in 1..6
        <5>1. Widths \in Seq(1..6) /\ Len(Widths) = 3
          BY WidthAssumption
        <5>2. code \in 1..Len(Widths)
          BY <5>1
        <5>3. QED
          BY <5>1, <5>2, ElementOfSeq
      <4>2. Widths[code] \in 0..6 /\ Widths[code] # 0 /\ 0 \in 0..6 /\ 0 \in Nat
            /\ "DataLength" \in HeaderStates
        BY <4>1 DEF HeaderStates
      <4>3. QED
        BY <3>2, <4>2 DEF Headers
    <3>3. QED
      BY <1>1, <3>1, <3>2 DEF Nibbles
  <2>2. QED
    BY <2>1 DEF LengthIsMinimal, LengthComplete, DigitsLeft
<1>2. CASE MetadataLengthWidth
  <2>1. PICK width \in 0..3 :
          header' = [header EXCEPT !.width = width, !.index = 0, !.value = 0,
                                   !.state = IF width = 0 THEN "MetadataAlignment"
                                                          ELSE "MetadataLength"]
    BY <1>2 DEF MetadataLengthWidth
  <2>2. /\ header' \in Headers /\ header'.width = width /\ header'.index = 0
        /\ header'.state = IF width = 0 THEN "MetadataAlignment" ELSE "MetadataLength"
    <3>1. /\ width \in 0..6 /\ 0 \in 0..6 /\ 0 \in Nat
          /\ (IF width = 0 THEN "MetadataAlignment" ELSE "MetadataLength") \in HeaderStates
      BY DEF HeaderStates
    <3>2. QED
      BY <2>1, <3>1 DEF Headers
  <2>3. QED
    BY <2>2 DEF LengthIsMinimal, LengthComplete, DigitsLeft
<1>3. QED
  BY <1>1, <1>2

(* The last digit of a length is not 0 when fewer would do, so that the     *)
(* length is at least the weight of that digit.                            *)
LEMMA DataLengthTurn ==
  ASSUME header \in Headers, NEW digit \in Nat, DataLength(digit)
  PROVE  header' \in Headers /\ LengthIsMinimal' /\ DigitsLeft'
<1> DEFINE weight == 2 ^ (NibbleBits * header.index)
           last   == header.index + 1 = header.width
           state  == IF last /\ ~ header.last THEN "IsUncompressed" ELSE "DataLength"
<1>1. /\ header.index \in 0..5 /\ header.width \in 0..6 /\ header.value \in Nat
      /\ header.index < header.width
  BY DEF DataLength, Headers
<1>2. weight \in Nat \ {0}
  <2>1. NibbleBits * header.index \in 0..20
    BY <1>1, Exponents
  <2>2. QED
    BY <2>1, PowerPositive
<1>3. /\ header' = [header EXCEPT !.value = header.value + (digit * weight),
                                 !.index = header.index + 1, !.state = state]
      /\ ~ (last /\ header.width > Widths[1] /\ digit = 0)
  BY DEF DataLength, Digit, NonMinimal
<1> HIDE DEF weight
<1>4. header.value + (digit * weight) \in Nat
      /\ (digit # 0 => header.value + (digit * weight) >= weight)
  BY <1>1, <1>2, DigitWeight
<1>5. header.index + 1 \in 0..6 /\ state \in {"IsUncompressed", "DataLength"}
  BY <1>1
<1>6. /\ header' \in Headers
      /\ header'.value = header.value + (digit * weight)
      /\ header'.index = header.index + 1 /\ header'.width = header.width
      /\ header'.state = state /\ header'.last = header.last
  BY <1>3, <1>4, <1>5 DEF Headers, HeaderStates
<1>7. ASSUME last, header.width > Widths[1]
      PROVE  header'.value >= 2 ^ (NibbleBits * (header'.width - 1))
  <2>1. header.width - 1 = header.index
    BY <1>1, <1>7
  <2>2. header'.value >= weight
    BY <1>3, <1>4, <1>6, <1>7
  <2>3. QED
    BY <1>6, <2>1, <2>2 DEF weight
<1>8. LengthComplete' \/ header'.state \in {"IsUncompressed", "UncompressedAlignment"} => last
  BY <1>5, <1>6 DEF LengthComplete
<1>9. QED
  BY <1>5, <1>6, <1>7, <1>8 DEF LengthIsMinimal, DigitsLeft

LEMMA MetadataLengthTurn ==
  ASSUME header \in Headers, DigitsLeft, NEW byte \in Nat, MetadataLength(byte)
  PROVE  header' \in Headers /\ LengthIsMinimal' /\ DigitsLeft'
<1> DEFINE weight == 2 ^ (LengthByteBits * header.index)
           last   == header.index + 1 = header.width
           sum    == header.value + (byte * weight)
           state  == IF last THEN "MetadataAlignment" ELSE "MetadataLength"
<1>1. /\ header.index \in 0..2 /\ header.width \in 0..3 /\ header.value \in Nat
      /\ header.index < header.width
  BY DEF MetadataLength, Headers, DigitsLeft
<1>2. weight \in Nat \ {0}
  <2>1. LengthByteBits * header.index \in 0..20
    BY <1>1, Exponents
  <2>2. QED
    BY <2>1, PowerPositive
<1>3. /\ header' = [header EXCEPT !.value = sum + (IF last THEN 1 ELSE 0),
                                 !.index = header.index + 1, !.state = state]
      /\ ~ (last /\ header.width > 1 /\ byte = 0)
  BY DEF MetadataLength, NonMinimal
<1>4. sum \in Nat /\ (byte # 0 => sum >= weight)
  <2> HIDE DEF weight
  <2>1. QED
    BY <1>1, <1>2, DigitWeight
<1> HIDE DEF weight, sum
<1>5. /\ header.index + 1 \in 0..6 /\ state \in {"MetadataAlignment", "MetadataLength"}
      /\ sum + (IF last THEN 1 ELSE 0) \in Nat
  BY <1>1, <1>4
<1>6. /\ header' \in Headers
      /\ header'.value = sum + (IF last THEN 1 ELSE 0)
      /\ header'.index = header.index + 1 /\ header'.width = header.width
      /\ header'.state = state
  BY <1>3, <1>5 DEF Headers, HeaderStates
<1>7. ASSUME last, header.width > 1
      PROVE  header'.value - 1 >= 2 ^ (LengthByteBits * (header'.width - 1))
  <2>1. header.width - 1 = header.index
    BY <1>1, <1>7
  <2>2. sum >= weight /\ header'.value - 1 = sum
    BY <1>3, <1>4, <1>6, <1>7
  <2>3. QED
    BY <1>6, <2>1, <2>2 DEF weight
<1>8. header'.state = "MetadataAlignment" => last
  BY <1>6
<1>9. header'.state = "MetadataLength" => header'.index < header'.width /\ header'.width <= 3
  BY <1>1, <1>6
<1>10. QED
  BY <1>5, <1>6, <1>7, <1>8, <1>9 DEF LengthIsMinimal, LengthComplete, DigitsLeft

LEMMA HeaderTurns ==
  ASSUME header \in Headers, DigitsLeft, LengthIsMinimal,
         HeaderRead \/ (header.state = "IsUncompressed" /\ Goto("UncompressedAlignment"))
  PROVE  header' \in Headers /\ LengthIsMinimal' /\ DigitsLeft'
<1>1. CASE HeaderRead
  <2>1. \A digit \in 0..(2 ^ NibbleBits - 1) : digit \in Nat
    OBVIOUS
  <2>2. \A byte \in 0..(2 ^ LengthByteBits - 1) : byte \in Nat
    OBVIOUS
  <2>3. QED
    BY <1>1, <2>1, <2>2, FirstTurns, WidthTurns, DataLengthTurn, MetadataLengthTurn
    DEF HeaderRead
<1>2. CASE header.state = "IsUncompressed" /\ Goto("UncompressedAlignment")
  <2>1. /\ header' \in Headers /\ header'.state = "UncompressedAlignment"
        /\ header'.width = header.width /\ header'.value = header.value
    BY <1>2 DEF Goto, Headers, HeaderStates
  <2>2. QED
    BY <2>1, <1>2 DEF LengthIsMinimal, LengthComplete, DigitsLeft
<1>3. QED
  BY <1>1, <1>2

-----------------------------------------------------------------------------
(* The turns of a call that go on. *)

LEMMA Unstaged ==
  ASSUME IInv, phase # "Compressed" \/ due = 0
  PROVE  buffered \in Nat /\ buffered < ByteBits
<1>1. buffered \in Nat /\ ~ (buffered < 0)
  BY DEF IInv, TypeOK
<1>2. QED
  BY <1>1, ByteBitsAssumption DEF IInv, BytesOwned

LEMMA BitsRead ==
  ASSUME IInv, NEW count \in Nat, ReadBits(count), buffered < ByteBits \/ count > buffered
  PROVE  /\ buffered' \in Nat /\ buffered' < ByteBits
         /\ given' \in 0..MaxGiven /\ consumed' \in 0..MaxGiven
         /\ given' + consumed' = given + consumed
<1>1. buffered \in Nat /\ given \in Nat /\ consumed \in Nat
  BY CallAssumption DEF IInv, TypeOK
<1>2. /\ buffered' \in Nat /\ given' \in Nat /\ consumed' \in Nat
      /\ given' + consumed' = given + consumed
      /\ buffered' < ByteBits \/ (count <= buffered /\ buffered' = buffered - count)
  BY <1>1, ReadKeeps
<1>3. buffered' < ByteBits
  BY <1>1, <1>2, ByteBitsAssumption
<1>4. QED
  BY <1>2, <1>3, SliceSplit

(* What TypeOK says of the header, in the words of the header's lemmas.    *)
LEMMA HeaderIsTyped ==
  ASSUME IInv
  PROVE  header \in Headers /\ DigitsLeft /\ LengthIsMinimal
  BY DEF IInv, TypeOK, Headers, ReadsInPlace, DigitsLeft

LEMMA HeaderReads ==
  ASSUME HeaderWant > 0
  PROVE  HeaderWant \in 1..ByteBits
<1>1. 1 \in 1..ByteBits /\ 2 \in 1..ByteBits
      /\ NibbleBits \in 1..ByteBits /\ LengthByteBits \in 1..ByteBits
  BY WidthAssumption, ByteBitsAssumption
<1>2. QED
  BY <1>1 DEF HeaderWant

LEMMA ReadHeaderIInv ==
  ASSUME IInv, ReadHeader
  PROVE  IInv'
<1>1. /\ status = "run" /\ phase = "MetaBlockHeader" /\ HeaderWant > 0 /\ ReadBits(HeaderWant)
      /\ UNCHANGED <<streamState, phase, remaining, isLast, due, form, checked, limit>>
  BY DEF ReadHeader, At
<1>2. /\ buffered' \in Nat /\ buffered' < ByteBits
      /\ given' \in 0..MaxGiven /\ consumed' \in 0..MaxGiven
      /\ given' + consumed' = given + consumed
  <2>1. HeaderWant \in Nat
    BY <1>1, HeaderReads, ByteBitsAssumption
  <2>2. QED
    BY <1>1, <2>1, BitsRead, Unstaged
<1>3. checked
  BY <1>1, Running
<1>4. BytesOwned'
  BY <1>1, <1>2, ByteBitsAssumption DEF BytesOwned
<1>5. CASE Go /\ (HeaderRead \/ (header.state = "IsUncompressed" /\ Goto("UncompressedAlignment")))
  <2>1. header' \in Headers /\ LengthIsMinimal' /\ DigitsLeft'
    BY <1>5, HeaderTurns, HeaderIsTyped
  <2>2. CallBalance' /\ ErrorSticks' /\ LimitHonoured' /\ StatusMeans'
    BY <1>1, <1>2, <1>5, GoKeeps
  <2>3. TypeOK'
    BY <1>1, <1>2, <1>5, <2>1 DEF IInv, TypeOK, Headers, Go, callVars
  <2>4. NothingUnchecked' /\ ReadsInPlace'
    BY <1>1, <1>3, <2>1 DEF IInv, NothingUnchecked, ReadsInPlace, DigitsLeft
  <2>5. QED
    BY <1>4, <2>1, <2>2, <2>3, <2>4 DEF IInv
<1>6. CASE Fail("InvalidMetaBlock") /\ header' = header
  <2>1. CallBalance' /\ ErrorSticks' /\ LimitHonoured' /\ StatusMeans' /\ NothingUnchecked'
    <3>1. "InvalidMetaBlock" \in Errors \ {"none", "OutputLimitExceeded"}
      BY DEF Errors
    <3>2. QED
      BY <1>1, <1>2, <1>6, <3>1, FailKeeps
  <2>2. TypeOK'
    BY <1>1, <1>2, <1>6 DEF IInv, TypeOK, Fail, Errors
  <2>3. ReadsInPlace' /\ LengthIsMinimal'
    BY <1>1, <1>6, SameHeader DEF IInv, ReadsInPlace
  <2>4. QED
    BY <1>4, <2>1, <2>2, <2>3 DEF IInv
<1>7. QED
  BY <1>5, <1>6 DEF ReadHeader

(* A header ends: its metablock begins, at a byte unless it is compressed. *)
LEMMA BeginMetaBlockIInv ==
  ASSUME IInv, status = "run", phase = "MetaBlockHeader", NEW h, BeginMetaBlock(h),
         h.kind \in {"End", "Compressed", "Uncompressed", "Metadata"},
         h.length \in Nat, h.last \in BOOLEAN,
         buffered' \in Nat, buffered' < ByteBits,
         h.kind # "Compressed" => buffered' = 0,
         given' \in 0..MaxGiven, consumed' \in 0..MaxGiven,
         given' + consumed' = given + consumed
  PROVE  IInv'
<1>1. /\ phase' \in {"Done", "Compressed", "Uncompressed", "Metadata"}
      /\ phase' = "Compressed" <=> h.kind = "Compressed"
      /\ remaining' = h.length /\ isLast' = h.last /\ Go
      /\ header' = Clean \/ header' = [header EXCEPT !.state = "Done"]
      /\ UNCHANGED <<streamState, due, form, checked, limit>>
  BY DEF BeginMetaBlock, PhaseOf
<1>2. CallBalance' /\ ErrorSticks' /\ LimitHonoured' /\ StatusMeans'
  BY <1>1, GoKeeps
<1>3. header' \in Headers /\ LengthIsMinimal' /\ DigitsLeft'
  <2>1. CASE header' = Clean
    BY <2>1, CleanHeader DEF Headers, DigitsLeft, Clean
  <2>2. CASE header' = [header EXCEPT !.state = "Done"]
    <3>1. header' \in Headers /\ header'.state = "Done"
      BY <2>2, HeaderIsTyped DEF Headers, HeaderStates
    <3>2. QED
      BY <3>1 DEF LengthIsMinimal, LengthComplete, DigitsLeft
  <2>3. QED
    BY <1>1, <2>1, <2>2
<1>4. TypeOK'
  BY <1>1, <1>3 DEF IInv, TypeOK, Headers, Phases, Go, callVars
<1>5. due = 0 /\ checked
  BY Running DEF IInv, ReadsInPlace
<1>6. NothingUnchecked' /\ ReadsInPlace' /\ BytesOwned'
  BY <1>1, <1>3, <1>5, ByteBitsAssumption
  DEF NothingUnchecked, ReadsInPlace, DigitsLeft, BytesOwned
<1>7. QED
  BY <1>2, <1>3, <1>4, <1>6 DEF IInv

LEMMA EndHeaderIInv ==
  ASSUME IInv, EndHeader \/ EndLastHeader \/ AlignHeader
  PROVE  IInv'
<1>1. /\ status = "run" /\ phase = "MetaBlockHeader"
      /\ buffered \in Nat /\ buffered < ByteBits
      /\ header.last \in BOOLEAN /\ header.value \in Nat /\ header.value + 1 \in Nat
      /\ given \in 0..MaxGiven /\ consumed \in 0..MaxGiven
  <2>1. status = "run" /\ phase = "MetaBlockHeader"
    BY DEF EndHeader, EndLastHeader, AlignHeader, At
  <2>2. header.last \in BOOLEAN /\ header.value \in Nat
    BY HeaderIsTyped DEF Headers
  <2>3. QED
    BY <2>1, <2>2, Unstaged DEF IInv, TypeOK
<1>2. CASE EndHeader
  <2>1. ReadBits(1) /\ BeginMetaBlock(Kind("Compressed", header.value + 1))
    BY <1>2 DEF EndHeader
  <2>2. /\ buffered' \in Nat /\ buffered' < ByteBits
        /\ given' \in 0..MaxGiven /\ consumed' \in 0..MaxGiven
        /\ given' + consumed' = given + consumed
    BY <1>1, <2>1, BitsRead
  <2>3. QED
    BY <1>1, <2>1, <2>2, BeginMetaBlockIInv DEF Kind
<1>3. CASE EndLastHeader
  <2>1. UNCHANGED reader /\ BeginMetaBlock(Kind("Compressed", header.value + 1))
    BY <1>3 DEF EndLastHeader
  <2>2. QED
    BY <1>1, <2>1, BeginMetaBlockIInv DEF Kind, reader
<1>4. CASE AlignHeader
  <2>1. buffered' = 0 /\ given' = given /\ consumed' = consumed
    BY <1>1, <1>4, AlignKeeps DEF AlignHeader
  <2>2. CASE BeginMetaBlock(Aligned)
    <3>1. /\ Aligned.kind \in {"End", "Uncompressed", "Metadata"}
          /\ Aligned.length \in Nat /\ Aligned.last \in BOOLEAN
      BY <1>1 DEF Aligned, Kind, End
    <3>2. QED
      BY <1>1, <2>1, <2>2, <3>1, BeginMetaBlockIInv, ByteBitsAssumption
  <2>3. CASE Fail("InvalidMetaBlock") /\ UNCHANGED streamVars
    <3>1. CallBalance' /\ ErrorSticks' /\ LimitHonoured' /\ StatusMeans' /\ NothingUnchecked'
      <4>1. "InvalidMetaBlock" \in Errors \ {"none", "OutputLimitExceeded"}
        BY DEF Errors
      <4>2. QED
        BY <1>1, <2>1, <2>3, <4>1, FailKeeps DEF streamVars
    <3>2. TypeOK'
      BY <1>1, <2>1, <2>3 DEF IInv, TypeOK, Fail, Errors, streamVars
    <3>3. ReadsInPlace' /\ LengthIsMinimal' /\ BytesOwned'
      BY <1>1, <2>1, <2>3, SameHeader, ByteBitsAssumption
      DEF IInv, ReadsInPlace, BytesOwned, streamVars
    <3>4. QED
      BY <3>1, <3>2, <3>3 DEF IInv
  <2>4. QED
    BY <1>4, <2>2, <2>3 DEF AlignHeader
<1>5. QED
  BY <1>2, <1>3, <1>4

LEMMA BodyReadIInv ==
  ASSUME IInv, BodyChoose \/ BodyRead
  PROVE  IInv'
<1>1. /\ status = "run" /\ phase = "Compressed" /\ Go
      /\ UNCHANGED <<header, streamState, phase, remaining, isLast, form, checked, limit>>
  BY DEF BodyChoose, BodyRead, At
<1>2. checked /\ due \in Nat
  BY <1>1, Running, ReadsAssumption DEF IInv, TypeOK
<1>3. /\ buffered' \in Nat /\ due' \in BodyReads \cup {0}
      /\ given' \in 0..MaxGiven /\ consumed' \in 0..MaxGiven
      /\ given' + consumed' = given + consumed
      /\ buffered' < ByteBits
  <2>1. CASE BodyChoose
    BY <2>1, Unstaged DEF BodyChoose, reader, IInv, TypeOK
  <2>2. CASE BodyRead
    <3>1. ReadBits(due) /\ due' = 0
      BY <2>2 DEF BodyRead
    <3>2. buffered < ByteBits \/ due > buffered
      BY <1>2, ByteBitsAssumption DEF IInv, BytesOwned, TypeOK
    <3>3. QED
      BY <3>1, <3>2, <1>2, BitsRead
  <2>3. QED
    BY <2>1, <2>2
<1>4. CallBalance' /\ ErrorSticks' /\ LimitHonoured' /\ StatusMeans'
  BY <1>1, <1>3, GoKeeps
<1>5. TypeOK'
  BY <1>1, <1>3 DEF IInv, TypeOK, Go, callVars
<1>6. NothingUnchecked' /\ ReadsInPlace' /\ BytesOwned' /\ LengthIsMinimal'
  BY <1>1, <1>2, <1>3, SameHeader, ByteBitsAssumption
  DEF IInv, NothingUnchecked, ReadsInPlace, BytesOwned
<1>7. QED
  BY <1>4, <1>5, <1>6 DEF IInv

(* Bytes are put out, by a compressed body or from the input slice.        *)
LEMMA ProduceIInv ==
  ASSUME IInv, BodyProduce \/ CopyStored
  PROVE  IInv'
<1>1. /\ status = "run" /\ phase \in {"Compressed", "Uncompressed"}
      /\ UNCHANGED <<header, streamState, phase, isLast, due, form, checked, limit>>
      /\ phase = "Compressed" => due = 0
  BY DEF BodyProduce, CopyStored, At
<1>2. /\ checked /\ given \in Nat /\ consumed \in Nat /\ room \in Nat /\ remaining \in Nat
      /\ given \in 0..MaxGiven /\ consumed \in 0..MaxGiven
  BY <1>1, Running, CallAssumption DEF IInv, TypeOK
<1>3. \E n \in Nat : Produce(n) /\ buffered' = buffered
                    /\ given' \in 0..MaxGiven /\ consumed' \in 0..MaxGiven
                    /\ given' + consumed' = given + consumed
  <2>1. CASE BodyProduce
    BY <2>1, <1>2 DEF BodyProduce, reader
  <2>2. CASE CopyStored
    <3> DEFINE n == Least(remaining, Least(given, room))
    <3>1. n \in Nat /\ n <= given
      BY <1>2 DEF Least
    <3>2. /\ Produce(n) /\ buffered' = buffered
          /\ given' = given - n /\ consumed' = consumed + n
      BY <2>2 DEF CopyStored, TakeBytes, Stage
    <3> HIDE DEF n
    <3>3. given - n \in Nat /\ consumed + n \in Nat /\ (given - n) + (consumed + n) = given + consumed
      BY <1>2, <3>1
    <3>4. QED
      BY <3>1, <3>2, <3>3, SliceSplit
  <2>3. QED
    BY <2>1, <2>2
<1>4. PICK n \in Nat : Produce(n) /\ buffered' = buffered
                     /\ given' \in 0..MaxGiven /\ consumed' \in 0..MaxGiven
                     /\ given' + consumed' = given + consumed
  BY <1>3
<1>5. /\ CallBalance' /\ ErrorSticks' /\ LimitHonoured' /\ StatusMeans'
      /\ remaining' \in Nat /\ room' \in 0..MaxRoom /\ produced' \in 0..MaxRoom
  BY <1>1, <1>4, ProduceKeeps
<1>6. TypeOK'
  BY <1>1, <1>4, <1>5 DEF IInv, TypeOK, Produce, callVars
<1>7. NothingUnchecked' /\ ReadsInPlace' /\ BytesOwned' /\ LengthIsMinimal'
  BY <1>1, <1>2, <1>4, SameHeader
  DEF IInv, NothingUnchecked, ReadsInPlace, BytesOwned
<1>8. QED
  BY <1>5, <1>6, <1>7 DEF IInv

LEMMA BodyErrorIInv ==
  ASSUME IInv, BodyError
  PROVE  IInv'
<1>1. /\ status = "run" /\ phase = "Compressed" /\ Fail("InvalidCompressedData")
      /\ UNCHANGED <<reader, streamVars>>
  BY DEF BodyError, BodyErrors, At
<1>2. CallBalance' /\ ErrorSticks' /\ LimitHonoured' /\ StatusMeans' /\ NothingUnchecked'
  <2>1. "InvalidCompressedData" \in Errors \ {"none", "OutputLimitExceeded"}
    BY DEF Errors
  <2>2. QED
    BY <1>1, <2>1, FailKeeps DEF streamVars, reader
<1>3. TypeOK'
  BY <1>1 DEF IInv, TypeOK, Fail, Errors, streamVars, reader
<1>4. ReadsInPlace' /\ LengthIsMinimal' /\ BytesOwned'
  BY <1>1, SameHeader DEF IInv, ReadsInPlace, BytesOwned, streamVars, reader
<1>5. QED
  BY <1>2, <1>3, <1>4 DEF IInv

(* A body, stored bytes or metadata end.                                   *)
LEMMA EndContentIInv ==
  ASSUME IInv, EndBody \/ EndStored \/ EndMetadata
  PROVE  IInv'
<1>1. /\ status = "run" /\ phase \in {"Compressed", "Uncompressed", "Metadata"}
      /\ due = 0 /\ checked /\ buffered \in Nat /\ buffered < ByteBits
      /\ UNCHANGED <<header, streamState, remaining, isLast, due, form, checked, limit>>
  <2>1. /\ status = "run" /\ phase \in {"Compressed", "Uncompressed", "Metadata"}
        /\ phase = "Compressed" => due = 0
        /\ UNCHANGED <<header, streamState, remaining, isLast, due, form, checked, limit>>
    BY DEF EndBody, EndStored, EndMetadata, At
  <2>2. due = 0
    BY <2>1 DEF IInv, ReadsInPlace
  <2>3. QED
    BY <2>1, <2>2, Running, Unstaged
<1>2. CASE /\ phase' \in {"MetaBlockHeader", "Done"} /\ Go
           /\ buffered' \in Nat /\ buffered' < ByteBits
           /\ given' = given /\ consumed' = consumed
           /\ phase' = "Done" => buffered' = 0
  <2>1. CallBalance' /\ ErrorSticks' /\ LimitHonoured' /\ StatusMeans'
    BY <1>1, <1>2, GoKeeps
  <2>2. TypeOK'
    BY <1>1, <1>2 DEF IInv, TypeOK, Phases, Go, callVars
  <2>3. NothingUnchecked' /\ ReadsInPlace' /\ BytesOwned' /\ LengthIsMinimal'
    BY <1>1, <1>2, SameHeader, ByteBitsAssumption
    DEF IInv, NothingUnchecked, ReadsInPlace, BytesOwned
  <2>4. QED
    BY <2>1, <2>2, <2>3 DEF IInv
<1>3. CASE /\ Fail("NonZeroPadding") /\ phase' = phase /\ phase = "Compressed"
           /\ buffered' = 0 /\ given' = given /\ consumed' = consumed
  <2>1. CallBalance' /\ ErrorSticks' /\ LimitHonoured' /\ StatusMeans' /\ NothingUnchecked'
    <3>1. "NonZeroPadding" \in Errors \ {"none", "OutputLimitExceeded"}
      BY DEF Errors
    <3>2. QED
      BY <1>1, <1>3, <3>1, FailKeeps
  <2>2. TypeOK'
    BY <1>1, <1>3 DEF IInv, TypeOK, Fail, Errors
  <2>3. ReadsInPlace' /\ BytesOwned' /\ LengthIsMinimal'
    BY <1>1, <1>3, SameHeader, ByteBitsAssumption DEF IInv, ReadsInPlace, BytesOwned
  <2>4. QED
    BY <2>1, <2>2, <2>3 DEF IInv
<1>4. CASE EndBody
  <2>1. CASE ~ isLast /\ UNCHANGED reader /\ phase' = "MetaBlockHeader" /\ Go
    BY <1>1, <1>2, <2>1 DEF reader
  <2>2. CASE isLast
    <3>1. /\ Align /\ phase = "Compressed"
          /\ (phase' = "Done" /\ Go) \/ (Fail("NonZeroPadding") /\ phase' = phase)
      BY <1>4, <2>2 DEF EndBody, At
    <3>2. buffered' = 0 /\ given' = given /\ consumed' = consumed
      BY <1>1, <3>1, AlignKeeps
    <3>3. QED
      BY <1>1, <1>2, <1>3, <3>1, <3>2, ByteBitsAssumption
  <2>3. QED
    BY <1>4, <2>1, <2>2 DEF EndBody
<1>5. CASE EndStored \/ EndMetadata
  <2>1. /\ phase' \in {"MetaBlockHeader", "Done"} /\ Go
        /\ UNCHANGED reader /\ phase \in {"Uncompressed", "Metadata"}
    BY <1>5 DEF EndStored, EndMetadata, At
  <2>2. buffered = 0
    BY <2>1 DEF IInv, BytesOwned
  <2>3. QED
    BY <1>1, <1>2, <2>1, <2>2 DEF reader
<1>6. QED
  BY <1>4, <1>5

LEMMA SkipMetadataIInv ==
  ASSUME IInv, SkipMetadata
  PROVE  IInv'
<1> DEFINE n == Least(remaining, given)
<1>1. /\ status = "run" /\ phase = "Metadata" /\ buffered' = buffered /\ Go
      /\ given' = given - n /\ consumed' = consumed + n /\ remaining' = remaining - n
      /\ UNCHANGED <<header, streamState, phase, isLast, due, form, checked, limit>>
  BY DEF SkipMetadata, TakeBytes, Stage, At
<1>2. /\ checked /\ given \in Nat /\ consumed \in Nat /\ remaining \in Nat
      /\ n \in Nat /\ n <= given /\ n <= remaining
  BY <1>1, Running, CallAssumption DEF IInv, TypeOK, Least
<1> HIDE DEF n
<1>3. /\ given - n \in Nat /\ consumed + n \in Nat /\ remaining - n \in Nat
      /\ (given - n) + (consumed + n) = given + consumed
  BY <1>2
<1>4. given' \in 0..MaxGiven /\ consumed' \in 0..MaxGiven /\ given' + consumed' = given + consumed
  BY <1>1, <1>3, SliceSplit
<1>5. CallBalance' /\ ErrorSticks' /\ LimitHonoured' /\ StatusMeans'
  BY <1>1, <1>4, GoKeeps
<1>6. TypeOK'
  BY <1>1, <1>3, <1>4 DEF IInv, TypeOK, Go, callVars
<1>7. NothingUnchecked' /\ ReadsInPlace' /\ BytesOwned' /\ LengthIsMinimal'
  BY <1>1, <1>2, SameHeader DEF IInv, NothingUnchecked, ReadsInPlace, BytesOwned
<1>8. QED
  BY <1>5, <1>6, <1>7 DEF IInv

-----------------------------------------------------------------------------
(* The turns that return. *)

(* What they leave alone, and why they return what they do.                *)
LEMMA ReturnIInv ==
  ASSUME IInv, status = "run", NEW r \in {"NeedInput", "NeedOutput", "Done"}, Return(r),
         UNCHANGED streamVars,
         buffered' \in Nat, given' \in Nat, consumed' \in Nat,
         given' + consumed' = given + consumed,
         r = "NeedInput" => given' = 0 /\ phase # "Done",
         r = "NeedOutput" => room = 0 /\ remaining > 0 /\ phase # "Done",
         r = "Done" => phase = "Done",
         BytesOwned', phase # "StreamHeader" \/ checked \/ (buffered' = 0 /\ given' = 0)
  PROVE  IInv'
<1>1. UNCHANGED <<header, streamState, phase, remaining, isLast, due, form, checked, limit>>
  BY DEF streamVars
<1>2. /\ CallBalance' /\ ErrorSticks' /\ LimitHonoured' /\ StatusMeans'
      /\ total' \in Nat /\ error' \in Errors
      /\ status' \in {"NeedInput", "NeedOutput", "Done", "error"}
      /\ UNCHANGED <<ending, asked, room, produced>>
  BY <1>1, ReturnKeeps
<1>3. TypeOK'
  <2>1. given' \in 0..MaxGiven /\ consumed' \in 0..MaxGiven
    BY SliceSplit
  <2>2. QED
    BY <1>1, <1>2, <2>1 DEF IInv, TypeOK
<1>4. NothingUnchecked'
  BY <1>1, Running DEF NothingUnchecked, IInv
<1>5. ReadsInPlace' /\ LengthIsMinimal'
  BY <1>1, SameHeader DEF IInv, ReadsInPlace
<1>6. QED
  BY <1>2, <1>3, <1>4, <1>5 DEF IInv

LEMMA ReadStarvesIInv ==
  ASSUME IInv, ReadStarves
  PROVE  IInv'
<1>1. /\ status = "run" /\ StageAll /\ Return("NeedInput") /\ UNCHANGED streamVars
      /\ UNCHANGED <<phase, due>> /\ phase \in {"StreamHeader", "MetaBlockHeader", "Compressed"}
  BY DEF ReadStarves, At, streamVars
<1>2. buffered \in Nat /\ given \in Nat /\ consumed \in Nat /\ due \in Nat
  BY CallAssumption, ReadsAssumption DEF IInv, TypeOK
<1>3. \E count \in Nat : Starves(count) /\ (count <= ByteBits \/ (phase = "Compressed" /\ count = due))
  <2>1. CASE At("StreamHeader") /\ Starves(form.reads[streamState])
    <3>1. form.reads[streamState] \in 1..3
      BY FormAssumption DEF IInv, TypeOK
    <3>2. form.reads[streamState] \in Nat /\ form.reads[streamState] <= ByteBits
      BY <3>1, WidthAssumption, ByteBitsAssumption
    <3>3. QED
      BY <2>1, <3>2
  <2>2. CASE At("MetaBlockHeader") /\ Starves(HeaderWant)
    <3>1. 0 <= ByteBits /\ HeaderWant \in Nat
      BY ByteBitsAssumption, WidthAssumption DEF HeaderWant
    <3>2. HeaderWant <= ByteBits
      BY <3>1, HeaderReads, ByteBitsAssumption
    <3>3. QED
      BY <2>2, <3>1, <3>2
  <2>3. CASE At("Compressed") /\ Starves(due)
    BY <2>3, <1>2 DEF At
  <2>4. QED
    BY <2>1, <2>2, <2>3 DEF ReadStarves
<1>4. PICK count \in Nat :
        Starves(count) /\ (count <= ByteBits \/ (phase = "Compressed" /\ count = due))
  BY <1>3
<1>5. /\ buffered' \in Nat /\ buffered' < count /\ given' = 0 /\ consumed' = consumed + given
      /\ consumed' \in Nat /\ given' \in Nat
  <2>1. buffered' \in Nat /\ buffered' < count /\ given' = 0 /\ consumed' = consumed + given
    BY <1>1, <1>2, <1>4, StarveKeeps
  <2>2. consumed + given \in Nat
    BY <1>2
  <2>3. QED
    BY <2>1, <2>2
<1>6. given' + consumed' = given + consumed
  BY <1>2, <1>5
<1>7. BytesOwned'
  BY <1>1, <1>4, <1>5, ByteBitsAssumption DEF BytesOwned
<1>8. phase # "StreamHeader" \/ checked \/ (buffered' = 0 /\ given' = 0)
  <2>1. CASE ~ checked
    <3>1. buffered = 0 /\ given = 0 /\ ByteBits * 0 = 0
      BY <1>1, <2>1, Running, ByteBitsAssumption DEF IInv, NothingUnchecked
    <3>2. QED
      BY <1>1, <1>5, <3>1 DEF StageAll
  <2>2. QED
    BY <2>1
<1>9. QED
  BY <1>1, <1>5, <1>6, <1>7, <1>8, ReturnIInv

LEMMA OtherReturnsIInv ==
  ASSUME IInv, BytesStarve \/ OutputFull \/ Done
  PROVE  IInv'
<1>1. status = "run" /\ UNCHANGED <<buffered, given, consumed>> /\ UNCHANGED streamVars
  BY DEF BytesStarve, OutputFull, Done, At, reader
<1>2. buffered \in Nat /\ given \in Nat /\ consumed \in Nat
  BY CallAssumption DEF IInv, TypeOK
<1>3. BytesOwned'
  BY <1>1 DEF IInv, BytesOwned, streamVars
<1>4. PICK r \in {"NeedInput", "NeedOutput", "Done"} :
        /\ Return(r) /\ phase # "StreamHeader"
        /\ r = "NeedInput" => given' = 0 /\ phase # "Done"
        /\ r = "NeedOutput" => room = 0 /\ remaining > 0 /\ phase # "Done"
        /\ r = "Done" => phase = "Done"
  <2>1. CASE BytesStarve
    BY <2>1, <1>1 DEF BytesStarve, At
  <2>2. CASE OutputFull
    BY <2>2 DEF OutputFull, At, Body!MayStop
  <2>3. CASE Done
    BY <2>3 DEF Done, At
  <2>4. QED
    BY <2>1, <2>2, <2>3
<1>5. QED
  BY <1>1, <1>2, <1>3, <1>4, ReturnIInv

-----------------------------------------------------------------------------
(* Theorems. *)

LEMMA TurnIInv ==
  ASSUME IInv, Turn
  PROVE  IInv'
  BY ReadStreamHeaderIInv, ReadHeaderIInv, EndHeaderIInv, BodyReadIInv, ProduceIInv,
     BodyErrorIInv, EndContentIInv, SkipMetadataIInv, ReadStarvesIInv, OtherReturnsIInv
  DEF Turn

(* A turn moves bytes of the input slice only from what is left of it to     *)
(* what is taken.                                                          *)
LEMMA TurnTakes ==
  ASSUME IInv, Turn
  PROVE  given' + consumed' = given + consumed
<1>1. given \in Nat /\ consumed \in Nat /\ buffered \in Nat
  BY CallAssumption DEF IInv, TypeOK
<1>2. ASSUME NEW n \in Nat, Stage(n)
      PROVE  given' + consumed' = given + consumed
  <2>1. given' = given - n /\ consumed' = consumed + n
    BY <1>2 DEF Stage
  <2>2. (given - n) + (consumed + n) = given + consumed
    BY <1>1
  <2>3. QED
    BY <2>1, <2>2
<1>3. ASSUME NEW count \in Nat, ReadBits(count)
      PROVE  given' + consumed' = given + consumed
  BY <1>1, <1>3, ReadKeeps
<1>4. CASE ReadStreamHeader
  <2>1. form.reads[streamState] \in 1..3
    BY FormAssumption DEF IInv, TypeOK
  <2>2. form.reads[streamState] \in Nat
    BY <2>1
  <2>3. QED
    BY <1>3, <1>4, <2>2 DEF ReadStreamHeader
<1>5. CASE ReadHeader
  <2>1. HeaderWant \in Nat
    BY <1>5, HeaderReads, ByteBitsAssumption DEF ReadHeader
  <2>2. QED
    BY <1>3, <1>5, <2>1 DEF ReadHeader
<1>6. CASE EndHeader
  BY <1>3, <1>6 DEF EndHeader
<1>7. CASE BodyRead
  <2>1. due \in Nat
    BY ReadsAssumption DEF IInv, TypeOK
  <2>2. QED
    BY <1>3, <1>7, <2>1 DEF BodyRead
<1>8. CASE CopyStored
  <2>1. Least(remaining, Least(given, room)) \in Nat
    BY <1>1, CallAssumption DEF IInv, TypeOK, Least
  <2>2. QED
    BY <1>2, <1>8, <2>1 DEF CopyStored, TakeBytes
<1>9. CASE SkipMetadata
  <2>1. Least(remaining, given) \in Nat
    BY <1>1 DEF IInv, TypeOK, Least
  <2>2. QED
    BY <1>2, <1>9, <2>1 DEF SkipMetadata, TakeBytes
<1>10. CASE ReadStarves
  BY <1>1, <1>2, <1>10 DEF ReadStarves, StageAll
<1>11. CASE \/ EndLastHeader \/ AlignHeader \/ BodyChoose \/ BodyProduce \/ BodyError \/ EndBody
            \/ EndStored \/ EndMetadata \/ BytesStarve \/ OutputFull \/ Done
  <2>1. UNCHANGED <<given, consumed>>
    BY <1>11 DEF EndLastHeader, AlignHeader, BodyChoose, BodyProduce, BodyError, EndBody,
                 EndStored, EndMetadata, BytesStarve, OutputFull, Done, Align, reader
  <2>2. QED
    BY <2>1
<1>12. QED
  BY <1>4, <1>5, <1>6, <1>7, <1>8, <1>9, <1>10, <1>11 DEF Turn

(* What a turn does to the account of the call: it goes on, fails, or       *)
(* returns and adds up what was put out.                                   *)
LEMMA TurnAccount ==
  ASSUME IInv, Turn
  PROVE  /\ status = "run" /\ error = "none" /\ UNCHANGED <<ending, asked>>
         /\ status' \in {"run", "NeedInput", "NeedOutput", "Done", "error"}
         /\ status' = "error" <=> error' # "none"
         /\ status' = "run" => total' = total
         /\ status' \notin {"run", "error"} => total' = total + produced /\ produced' = produced
<1>1. status = "run"
  BY DEF Turn, ReadStreamHeader, ReadHeader, EndHeader, EndLastHeader, AlignHeader, BodyChoose,
         BodyRead, BodyProduce, BodyError, EndBody, CopyStored, EndStored, SkipMetadata,
         EndMetadata, ReadStarves, BytesStarve, OutputFull, Done, At
<1>2. error = "none"
  BY <1>1, Running
<1>3. \/ UNCHANGED callVars
      \/ \E e \in Errors \ {"none"} : Fail(e)
      \/ \E r \in {"NeedInput", "NeedOutput", "Done"} : Return(r)
  <2>1. CASE \/ ReadStreamHeader \/ EndHeader \/ EndLastHeader \/ BodyChoose \/ BodyRead
            \/ EndStored \/ SkipMetadata \/ EndMetadata
    BY <2>1 DEF ReadStreamHeader, EndHeader, EndLastHeader, BodyChoose, BodyRead, EndStored,
                SkipMetadata, EndMetadata, BeginMetaBlock, Go
  <2>2. CASE ReadHeader \/ AlignHeader \/ BodyError \/ EndBody
    <3>1. /\ "InvalidMetaBlock" \in Errors \ {"none"} /\ "NonZeroPadding" \in Errors \ {"none"}
          /\ BodyErrors \subseteq Errors \ {"none"}
      BY DEF Errors, BodyErrors
    <3>2. QED
      BY <2>2, <3>1 DEF ReadHeader, AlignHeader, BodyError, EndBody, BeginMetaBlock, Go
  <2>3. CASE BodyProduce \/ CopyStored
    BY <2>3 DEF BodyProduce, CopyStored, Produce
  <2>4. CASE ReadStarves \/ BytesStarve \/ OutputFull \/ Done
    BY <2>4 DEF ReadStarves, BytesStarve, OutputFull, Done
  <2>5. QED
    BY <2>1, <2>2, <2>3, <2>4 DEF Turn
<1>4. CASE UNCHANGED callVars
  BY <1>1, <1>2, <1>4 DEF callVars
<1>5. ASSUME NEW e \in Errors \ {"none"}, Fail(e)
      PROVE  /\ status' = "error" /\ error' # "none" /\ UNCHANGED <<ending, asked>>
  BY <1>5 DEF Fail
<1>6. ASSUME NEW r \in {"NeedInput", "NeedOutput", "Done"}, Return(r)
      PROVE  /\ status' = IF error' = "none" THEN r ELSE "error"
             /\ total' = total + produced /\ UNCHANGED <<ending, asked, produced>>
  BY <1>6 DEF Return
<1>7. QED
  BY <1>1, <1>2, <1>3, <1>4, <1>5, <1>6

LEMMA CallerIInv ==
  ASSUME IInv, NEW i \in 0..MaxGiven, NEW o \in 0..MaxRoom, Process(i, o) \/ Finish(o)
  PROVE  IInv'
<1>1. 0 \in 0..MaxGiven
  BY CallAssumption
<1>2. QED
  BY <1>1, BeginIInv DEF Process, Finish

LEMMA StutterIInv ==
  ASSUME IInv, UNCHANGED vars
  PROVE  IInv'
<1>1. UNCHANGED <<buffered, given, consumed, header, streamState, phase, remaining, isLast, due, form,
                 checked, limit, total, error, status, ending, asked, room, produced>>
  BY DEF vars, reader, streamVars, callVars
<1>2. TypeOK' /\ CallBalance' /\ ErrorSticks' /\ NothingUnchecked' /\ ReadsInPlace'
  BY <1>1 DEF IInv, TypeOK, CallBalance, Allowed, ErrorSticks, NothingUnchecked, ReadsInPlace
<1>3. BytesOwned' /\ LimitHonoured' /\ StatusMeans' /\ LengthIsMinimal'
  BY <1>1, SameHeader DEF IInv, BytesOwned, LimitHonoured, StatusMeans
<1>4. QED
  BY <1>2, <1>3 DEF IInv

(* The inductive invariant of the decoder: the four promises below, and what *)
(* a call in progress has taken, put out and checked.                      *)
THEOREM Invariance == Spec => []IInv
<1>1. IInv /\ [Next]_vars => IInv'
  <2> SUFFICES ASSUME IInv, [Next]_vars PROVE IInv'
    OBVIOUS
  <2>1. CASE Turn
    BY <2>1, TurnIInv
  <2>2. CASE Caller
    <3>1. 0 \in 0..MaxGiven
      BY CallAssumption
    <3>2. QED
      BY <2>2, <3>1, CallerIInv DEF Caller
  <2>3. CASE UNCHANGED vars
    BY <2>3, StutterIInv
  <2>4. QED
    BY <2>1, <2>2, <2>3 DEF Next
<1>2. QED
  BY InitIInv, <1>1, PTL DEF Spec

(* Stored bytes, metadata and the end of the stream begin at the input     *)
(* cursor: BitReader never holds a byte that is not the current read's.    *)
THEOREM ReaderOwnsItsBytes == Spec => []BytesOwned
<1>1. IInv => BytesOwned
  BY DEF IInv
<1>2. QED
  BY <1>1, Invariance, PTL

(* Over all calls of process() and finish() the output is within the limit. *)
THEOREM LimitIsHonoured == Spec => []LimitHonoured
<1>1. IInv => LimitHonoured
  BY DEF IInv
<1>2. QED
  BY <1>1, Invariance, PTL

(* What process() and finish() return is so.                               *)
THEOREM StatusIsTrue == Spec => []StatusMeans
<1>1. IInv => StatusMeans
  BY DEF IInv
<1>2. QED
  BY <1>1, Invariance, PTL

(* MetaBlockHeaderDecoder accepts the only encoding of a length.           *)
THEOREM LengthsAreMinimal == Spec => []LengthIsMinimal
<1>1. IInv => LengthIsMinimal
  BY DEF IInv
<1>2. QED
  BY <1>1, Invariance, PTL

(* No call after the end of the stream fails, takes or puts out anything.  *)
THEOREM StaysDone == Spec => DoneIsFinal
<1> DEFINE Final == phase = "Done" =>
                      /\ phase' = "Done" /\ error' = "none"
                      /\ IF status = "run" THEN UNCHANGED <<reader, produced>>
                                           ELSE consumed' = 0 /\ produced' = 0
<1>1. ASSUME IInv, Next, phase = "Done" PROVE Final
  <2>1. error = "none" /\ checked
    BY <1>1 DEF IInv, ErrorSticks, NothingUnchecked
  <2>2. CASE Turn
    <3>1. status = "run" /\ Return("Done") /\ UNCHANGED <<reader, streamVars>>
      BY <1>1, <2>2
      DEF Turn, ReadStreamHeader, ReadHeader, EndHeader, EndLastHeader, AlignHeader, BodyChoose,
          BodyRead, BodyProduce, BodyError, EndBody, CopyStored, EndStored, SkipMetadata,
          EndMetadata, ReadStarves, BytesStarve, OutputFull, Done, At
    <3>2. error' = "none" /\ phase' = "Done" /\ UNCHANGED <<reader, produced>>
      BY <1>1, <3>1 DEF Return, streamVars
    <3>3. QED
      BY <3>1, <3>2
  <2>3. CASE Caller
    BY <1>1, <2>1, <2>3 DEF Caller, Process, Finish, Begin
  <2>4. QED
    BY <1>1, <2>2, <2>3 DEF Next
<1>2. IInv /\ [Next]_vars => [Final]_vars
  BY <1>1
<1>3. QED
  BY <1>2, Invariance, PTL DEF Spec, DoneIsFinal

-----------------------------------------------------------------------------
(* What a call of the decoder means for its caller. *)

(* What the decoder's variables are when none of them changes.             *)
LEMMA DecoderStill ==
  ASSUME UNCHANGED vars
  PROVE  UNCHANGED <<buffered, given, consumed, phase, remaining, limit, total, error, status,
                     ending, asked, room, produced>>
  BY DEF vars, reader, streamVars, callVars

(* A call that begins has its slices to itself, and runs or fails at once. *)
LEMMA CallBegins ==
  ASSUME IInv, NEW i \in 0..MaxGiven, NEW o \in 0..MaxRoom,
         \/ i = 0 /\ Finish(o)
         \/ Process(i, o)
  PROVE  /\ IInv' /\ status # "run" /\ error = "none"
         /\ given' + consumed' = i /\ asked' = o
         /\ status' = IF error' = "none" THEN "run" ELSE "error"
         /\ UNCHANGED <<phase, limit, total>>
<1>1. IInv'
  BY CallerIInv
<1>2. PICK finish \in BOOLEAN : Begin(i, o, finish)
  BY DEF Finish, Process
<1>3. given' = i /\ consumed' = 0 /\ i + 0 = i
  BY <1>2 DEF Begin
<1>4. /\ status # "run" /\ error = "none" /\ asked' = o
      /\ status' = IF error' = "none" THEN "run" ELSE "error"
      /\ UNCHANGED <<phase, limit, total>>
  BY <1>2 DEF Begin
<1>5. QED
  BY <1>1, <1>3, <1>4

LEMMA CallIsFinish ==
  ASSUME NEW i, NEW o
  PROVE  /\ Process(i, o) => ending' = FALSE
         /\ Finish(o) => ending' = TRUE
  BY DEF Process, Finish, Begin

LEMMA TurnLimit ==
  ASSUME Turn
  PROVE  limit' = limit
  BY DEF Turn, ReadStreamHeader, ReadHeader, EndHeader, EndLastHeader, AlignHeader, BodyChoose,
         BodyRead, BodyProduce, BodyError, EndBody, CopyStored, EndStored, SkipMetadata,
         EndMetadata, ReadStarves, BytesStarve, OutputFull, Done, BeginMetaBlock, streamVars

(* When a call has returned without an error, nothing is wrong, and what   *)
(* it said of the slices and the stream is so.                             *)
LEMMA CallReturned ==
  ASSUME IInv, status \notin {"run", "idle", "error"}
  PROVE  /\ status \in {"NeedInput", "NeedOutput", "Done"} /\ error = "none"
         /\ status = "NeedInput" => given = 0 /\ ~ ending
         /\ status = "NeedOutput" => produced = asked
         /\ status = "Done" => phase = "Done" /\ buffered = 0
         /\ given \in Nat /\ consumed \in Nat /\ produced \in Nat /\ total \in Nat
  BY CallAssumption DEF IInv, TypeOK, ErrorSticks, StatusMeans, BytesOwned

(* An error of the decoder is none of the verdicts its callers have of     *)
(* their own.                                                              *)
LEMMA OwnErrors ==
  ASSUME IInv
  PROVE  error \notin {"ok", "Ok", "noProgress", "source", "TrailingData", "OffsetPastInput",
                       "InputLeft"}
  BY DEF IInv, TypeOK, Errors

-----------------------------------------------------------------------------
(* The Read adapter. *)

LEMMA ReadIInv ==
  ASSUME ReaderIInv, NEW o \in 0..MaxRoom, Read(o)
  PROVE  ReaderIInv'
<1>1. /\ pc = "idle" /\ wanted' = o /\ UNCHANGED vars /\ UNCHANGED <<supply, unread, done, delivered>>
      /\ \/ pc' = "idle" /\ result' = Ok(0) /\ AtEnd(o)
         \/ pc' = "idle" /\ result' = Err(error) /\ error # "none"
         \/ pc' = "fill" /\ result' = result /\ ~ AtEnd(o) /\ error = "none"
  BY DEF Read, ReturnRead
<1>2. IInv' /\ UNCHANGED <<phase, total, error, status>>
  BY <1>1, DecoderStill, StutterIInv DEF ReaderIInv
<1>3. ReaderTypeOK'
  BY <1>1 DEF ReaderIInv, ReaderTypeOK
<1>4. InCall'
  BY <1>1, <1>2, CallAssumption DEF ReaderIInv, InCall, AtEnd
<1>5. DeliveredSoFar' /\ NothingLost'
  BY <1>1, <1>2 DEF ReaderIInv, DeliveredSoFar, NothingLost
<1>6. ReadMeans'
  BY <1>1, <1>2, OwnErrors, CallAssumption
  DEF ReaderIInv, ReadMeans, InCall, AtEnd, Ok, Err, NoProgress
<1>7. QED
  BY <1>2, <1>3, <1>4, <1>5, <1>6 DEF ReaderIInv

LEMMA SourceFailsIInv ==
  ASSUME ReaderIInv, SourceFails
  PROVE  ReaderIInv'
<1>1. /\ pc = "fill" /\ pc' = "idle" /\ result' = Err("source")
      /\ UNCHANGED vars /\ UNCHANGED <<supply, unread, done, wanted, delivered>>
  BY DEF SourceFails, ReturnRead
<1>2. IInv' /\ UNCHANGED <<phase, total, error, status>>
  BY <1>1, DecoderStill, StutterIInv DEF ReaderIInv
<1>3. ReaderTypeOK' /\ InCall' /\ DeliveredSoFar' /\ NothingLost'
  BY <1>1, <1>2 DEF ReaderIInv, ReaderTypeOK, InCall, DeliveredSoFar, NothingLost
<1>4. ReadMeans'
  BY <1>1 DEF ReadMeans, Ok, Err, NoProgress
<1>5. QED
  BY <1>2, <1>3, <1>4 DEF ReaderIInv

LEMMA FillBufIInv ==
  ASSUME ReaderIInv, FillBuf
  PROVE  ReaderIInv'
<1>1. /\ pc = "fill" /\ pc' = "decode" /\ UNCHANGED <<done, wanted, result, delivered>>
      /\ wanted > 0 /\ ~ done /\ error = "none" /\ wanted \in 0..MaxRoom
      /\ supply \in Nat /\ unread \in 0..MaxGiven /\ total = delivered
  BY DEF FillBuf, ReaderIInv, InCall, ReaderTypeOK, NothingLost
<1>2. PICK n \in 0..Least(supply, MaxGiven) :
        /\ IF unread > 0 \/ supply = 0 THEN n = 0 ELSE n > 0
        /\ unread' = unread + n
        /\ supply' = supply - n
  BY DEF FillBuf
<1>3. unread + n \in 0..MaxGiven /\ supply - n \in Nat
  BY <1>1, <1>2, CallAssumption DEF Least
<1>4. PICK u \in 0..MaxGiven : unread' = u
  BY <1>2, <1>3
<1>5. IF u = 0 THEN Finish(wanted) ELSE Process(u, wanted)
  BY <1>4 DEF FillBuf
<1>6. /\ IInv' /\ given' + consumed' = u /\ asked' = wanted
      /\ status' = IF error' = "none" THEN "run" ELSE "error"
      /\ UNCHANGED <<phase, total>>
  BY <1>1, <1>5, CallBegins DEF ReaderIInv
<1>7. IF u = 0 THEN ending' = TRUE ELSE ending' = FALSE
  BY <1>5, CallIsFinish
<1>8. ReaderTypeOK'
  BY <1>1, <1>2, <1>3, <1>4 DEF ReaderIInv, ReaderTypeOK
<1>9. InCall'
  <2>1. given' + consumed' = IF ending' THEN 0 ELSE unread'
    BY <1>4, <1>6, <1>7
  <2>2. ~ ending' => unread' > 0
    BY <1>4, <1>7, CallAssumption
  <2>3. status' # "idle" /\ asked' = wanted' /\ wanted' > 0 /\ ~ done'
    BY <1>1, <1>6
  <2>4. QED
    BY <1>1, <2>1, <2>2, <2>3 DEF InCall
<1>10. DeliveredSoFar' /\ NothingLost' /\ ReadMeans'
  <2>1. delivered + 0 = delivered
    BY DEF ReaderIInv, ReaderTypeOK
  <2>2. DeliveredSoFar'
    BY <1>1, <1>6, <2>1 DEF DeliveredSoFar
  <2>3. QED
    BY <1>1, <2>2 DEF ReaderIInv, NothingLost, ReadMeans
<1>11. QED
  BY <1>6, <1>8, <1>9, <1>10 DEF ReaderIInv

LEMMA ReadDecodesIInv ==
  ASSUME ReaderIInv, ReadDecodes
  PROVE  ReaderIInv'
<1>1. pc = "decode" /\ Turn /\ UNCHANGED <<supply, unread, done, pc, wanted, result, delivered>>
  BY DEF ReadDecodes, readerVars
<1>2. /\ IInv' /\ given' + consumed' = given + consumed
      /\ status = "run" /\ error = "none" /\ UNCHANGED <<ending, asked>>
      /\ status' \in {"run", "NeedInput", "NeedOutput", "Done", "error"}
      /\ status' = "error" <=> error' # "none"
      /\ status' = "run" => total' = total
      /\ status' \notin {"run", "error"} => total' = total + produced /\ produced' = produced
  BY <1>1, TurnIInv, TurnTakes, TurnAccount DEF ReaderIInv
<1>3. ~ done /\ ~ done'
  BY <1>1 DEF ReaderIInv, InCall
<1>4. ReaderTypeOK' /\ NothingLost' /\ ReadMeans'
  BY <1>1 DEF ReaderIInv, ReaderTypeOK, NothingLost, ReadMeans
<1>5. InCall'
  BY <1>1, <1>2, <1>3 DEF ReaderIInv, InCall
<1>6. DeliveredSoFar'
  <2>1. total = delivered /\ delivered' = delivered
    BY <1>1, <1>2 DEF ReaderIInv, DeliveredSoFar, ReaderTypeOK
  <2>2. QED
    BY <1>2, <2>1 DEF DeliveredSoFar, ReaderIInv, ReaderTypeOK
<1>7. QED
  BY <1>2, <1>4, <1>5, <1>6 DEF ReaderIInv

(* The call of the decoder fails: so does the read.                        *)
LEMMA DecodeErrorIInv ==
  ASSUME ReaderIInv, Decoded, status = "error"
  PROVE  ReaderIInv'
<1>1. /\ pc = "decode" /\ pc' = "idle" /\ result' = Err(error)
      /\ UNCHANGED vars /\ UNCHANGED <<supply, unread, done, wanted, delivered>>
  BY DEF Decoded, ReturnRead
<1>2. IInv' /\ UNCHANGED <<phase, total, error, status>>
  BY <1>1, DecoderStill, StutterIInv DEF ReaderIInv
<1>3. error # "none"
  BY DEF ReaderIInv, IInv, ErrorSticks
<1>4. ReaderTypeOK' /\ InCall' /\ DeliveredSoFar' /\ NothingLost'
  BY <1>1, <1>2, <1>3 DEF ReaderIInv, ReaderTypeOK, InCall, DeliveredSoFar, NothingLost
<1>5. ReadMeans'
  BY <1>1, OwnErrors DEF ReaderIInv, ReadMeans, Ok, Err, NoProgress
<1>6. QED
  BY <1>2, <1>4, <1>5 DEF ReaderIInv

(* It returns: its bytes are delivered, or there is a next turn, or it was *)
(* the end.  That it neither took nor gave anything cannot be.             *)
LEMMA DecodedIInv ==
  ASSUME ReaderIInv, Decoded, status # "error"
  PROVE  ReaderIInv'
<1>1. /\ pc = "decode" /\ UNCHANGED vars /\ supply' = supply /\ wanted' = wanted
      /\ unread' = IF ending THEN unread ELSE unread - consumed
      /\ done' = (done \/ status = "Done")
      /\ IF produced > 0
           THEN pc' = "idle" /\ result' = Ok(produced) /\ delivered' = delivered + produced
           ELSE AfterNothing /\ delivered' = delivered
      /\ status # "run"
  BY DEF Decoded, ReturnRead, Consume, Delivers
<1>2. IInv' /\ UNCHANGED <<phase, total, error, status>>
  BY <1>1, DecoderStill, StutterIInv DEF ReaderIInv
<1>3. /\ wanted > 0 /\ ~ done /\ asked = wanted /\ status # "idle"
      /\ given + consumed = IF ending THEN 0 ELSE unread
      /\ ~ ending => unread > 0
  BY <1>1 DEF ReaderIInv, InCall
<1>4. /\ status \in {"NeedInput", "NeedOutput", "Done"} /\ error = "none"
      /\ status = "NeedInput" => given = 0 /\ ~ ending
      /\ status = "NeedOutput" => produced = asked
      /\ status = "Done" => phase = "Done"
      /\ given \in Nat /\ consumed \in Nat /\ produced \in Nat /\ total \in Nat
  BY <1>1, <1>3, CallReturned DEF ReaderIInv
<1>5. total = delivered + produced
  BY <1>1, <1>3, <1>4 DEF ReaderIInv, DeliveredSoFar
<1> DEFINE Accounted == /\ NothingLost' /\ DeliveredSoFar' /\ ReadMeans' /\ delivered' \in Nat
                        /\ pc' \in {"idle", "fill"}
                        /\ pc' = "fill" => status = "NeedInput"
<1>6. ASSUME produced > 0 PROVE Accounted
  <2>1. /\ pc' = "idle" /\ result' = Ok(produced) /\ delivered' = delivered + produced
    BY <1>1, <1>6
  <2>2. NothingLost' /\ DeliveredSoFar'
    BY <1>2, <1>5, <2>1 DEF NothingLost, DeliveredSoFar
  <2>3. ReadMeans'
    BY <1>6, <2>1 DEF ReadMeans, Ok, NoProgress, Err
  <2>4. delivered' \in Nat
    BY <1>2, <1>4, <1>5, <2>1
  <2>5. QED
    BY <1>1, <2>1, <2>2, <2>3, <2>4
<1>7. ASSUME ~ (produced > 0) PROVE Accounted
  <2>1. produced = 0 /\ delivered' = delivered /\ AfterNothing
    BY <1>1, <1>4, <1>7
  <2>2. delivered \in Nat /\ delivered + 0 = delivered
    BY DEF ReaderIInv, ReaderTypeOK
  <2>3. NothingLost' /\ DeliveredSoFar' /\ delivered' \in Nat
    <3>1. total' = delivered' /\ delivered' \in Nat /\ delivered' = delivered' + produced
      BY <1>2, <1>5, <2>1, <2>2
    <3>2. pc' # "decode"
      BY <1>1, <2>1, <1>4 DEF AfterNothing, ReturnRead
    <3>3. QED
      BY <3>1, <3>2 DEF NothingLost, DeliveredSoFar
  <2>4. status # "NeedOutput"
    BY <1>3, <1>4, <2>1
  <2>5. status = "NeedInput" => consumed > 0
    BY <1>3, <1>4
  <2>6. \/ status = "Done" /\ pc' = "idle" /\ result' = Ok(0)
        \/ status = "NeedInput" /\ pc' = "fill" /\ result' = result
    BY <1>4, <2>1, <2>4, <2>5 DEF AfterNothing, ReturnRead
  <2>7. ReadMeans'
    <3>1. result # NoProgress
      BY DEF ReaderIInv, ReadMeans
    <3>2. status = "Done" => phase' = "Done" /\ done'
      BY <1>1, <1>2, <1>4
    <3>3. QED
      BY <2>6, <3>1, <3>2 DEF ReadMeans, Ok, NoProgress, Err
  <2>8. QED
    BY <2>3, <2>6, <2>7
<1>8. Accounted
  BY <1>6, <1>7
<1>9. ReaderTypeOK'
  <2>1. ~ ending => unread - consumed = given
    BY <1>3, <1>4, CallAssumption DEF ReaderIInv, ReaderTypeOK
  <2>2. unread' \in 0..MaxGiven
    BY <1>1, <2>1 DEF ReaderIInv, ReaderTypeOK, IInv, TypeOK
  <2>3. done' \in BOOLEAN
    BY <1>1, Zenon
  <2>4. QED
    BY <1>1, <1>8, <2>2, <2>3 DEF ReaderIInv, ReaderTypeOK
<1>10. InCall'
  <2>1. done' => status = "Done"
    BY <1>1, <1>3
  <2>2. QED
    BY <1>1, <1>2, <1>3, <1>4, <1>8, <2>1 DEF InCall
<1>11. QED
  BY <1>2, <1>8, <1>9, <1>10 DEF ReaderIInv

LEMMA ReaderStutter ==
  ASSUME ReaderIInv, UNCHANGED <<vars, readerVars>>
  PROVE  ReaderIInv'
<1>1. UNCHANGED vars /\ UNCHANGED <<supply, unread, done, pc, wanted, result, delivered>>
  BY DEF readerVars
<1>2. IInv' /\ UNCHANGED <<given, consumed, phase, total, error, status, ending, asked, produced>>
  BY <1>1, DecoderStill, StutterIInv DEF ReaderIInv
<1>3. ReaderTypeOK' /\ InCall' /\ DeliveredSoFar' /\ NothingLost' /\ ReadMeans'
  BY <1>1, <1>2 DEF ReaderIInv, ReaderTypeOK, InCall, DeliveredSoFar, NothingLost, ReadMeans
<1>4. QED
  BY <1>2, <1>3 DEF ReaderIInv

LEMMA ReaderStep ==
  ASSUME ReaderIInv, ReaderNext
  PROVE  ReaderIInv'
  BY ReadIInv, SourceFailsIInv, FillBufIInv, ReadDecodesIInv, DecodeErrorIInv, DecodedIInv
  DEF ReaderNext, ReaderLoop

LEMMA ReaderStarts ==
  ASSUME ReaderInit
  PROVE  ReaderIInv
<1>1. /\ IInv /\ status = "idle" /\ total = 0 /\ error = "none"
      /\ supply \in 0..MaxSupply /\ unread = 0 /\ done = FALSE /\ pc = "idle" /\ wanted = 0
      /\ result = Ok(0) /\ delivered = 0
  BY InitIInv DEF ReaderInit, Init
<1>2. ReaderTypeOK
  <2>1. supply \in Nat /\ 0 \in 0..MaxGiven /\ 0 \in 0..MaxRoom
    BY <1>1, CallAssumption, SupplyAssumption
  <2>2. QED
    BY <1>1, <2>1 DEF ReaderTypeOK
<1>3. InCall /\ DeliveredSoFar /\ NothingLost
  BY <1>1 DEF InCall, DeliveredSoFar, NothingLost
<1>4. ReadMeans
  BY <1>1 DEF ReadMeans, Ok, Err, NoProgress
<1>5. QED
  BY <1>1, <1>2, <1>3, <1>4 DEF ReaderIInv

(* The inductive invariant of the adapter: between the steps of a read, the *)
(* slices of the decoder's call and the bytes it put out are accounted for. *)
THEOREM ReaderInvariance == ReaderSpec => []ReaderIInv
<1>1. ReaderIInv /\ [ReaderNext]_<<vars, readerVars>> => ReaderIInv'
  BY ReaderStep, ReaderStutter
<1>2. QED
  BY ReaderStarts, <1>1, PTL DEF ReaderSpec

(* Every byte the decoder put out is returned by some read, however the     *)
(* source delivers its bytes, and however often it fails.                  *)
THEOREM ReadsLoseNothing == ReaderSpec => []NothingLost
<1>1. ReaderIInv => NothingLost
  BY DEF ReaderIInv
<1>2. QED
  BY ReaderInvariance, <1>1, PTL

(* A read that returns no byte is at the end of the stream, and the error   *)
(* of a decoder that makes no progress is never returned.                  *)
THEOREM ReadsMeanWhatTheyReturn == ReaderSpec => []ReadMeans
<1>1. ReaderIInv => ReadMeans
  BY DEF ReaderIInv
<1>2. QED
  BY ReaderInvariance, <1>1, PTL

(* Once the stream is over, or has failed, a read leaves the source alone. *)
THEOREM SourceIsLeftAlone == ReaderSpec => SourceLeftAlone
<1> DEFINE Left == done \/ (error # "none" /\ pc = "idle") => UNCHANGED <<supply, unread>>
<1>1. ReaderIInv /\ [ReaderNext]_<<vars, readerVars>> => [Left]_readerVars
  <2> SUFFICES ASSUME ReaderIInv, [ReaderNext]_<<vars, readerVars>>, ~ UNCHANGED readerVars
               PROVE  Left
    OBVIOUS
  <2>1. ReaderNext
    OBVIOUS
  <2>2. /\ pc = "fill" => ~ done
        /\ pc = "decode" => ~ done
    BY DEF ReaderIInv, InCall
  <2>3. QED
    BY <2>1, <2>2 DEF ReaderNext, ReaderLoop, Read, SourceFails, FillBuf, ReadDecodes, Decoded,
                      readerVars
<1>2. QED
  BY ReaderInvariance, <1>1, PTL DEF ReaderSpec, SourceLeftAlone

-----------------------------------------------------------------------------
(* decompress(). *)

LEMMA CallOIInv ==
  ASSUME OneShotIInv, Call
  PROVE  OneShotIInv'
<1>1. /\ verdict = "none" /\ status = "idle"
      /\ IF finishing THEN Finish(BufferSize) ELSE Process(input - offset, BufferSize)
      /\ UNCHANGED <<input, offset, finishing, output, verdict>>
  BY DEF Call, oneShotVars
<1>2. /\ input - offset \in 0..MaxGiven /\ BufferSize \in 0..MaxRoom
      /\ finishing => input - offset = 0
  <2>1. input \in 0..MaxInput /\ offset \in 0..input /\ (finishing => offset = input)
    BY DEF OneShotIInv, OneShotTypeOK, CallsAddUp
  <2>2. QED
    BY <2>1, OneShotAssumption, CallAssumption
<1>3. PICK left \in 0..MaxGiven : left = input - offset
  BY <1>2
<1>4. /\ IInv' /\ given' + consumed' = left
      /\ status' = IF error' = "none" THEN "run" ELSE "error"
      /\ UNCHANGED <<phase, limit, total>>
  BY <1>1, <1>2, <1>3, CallBegins DEF OneShotIInv
<1>5. ending' = finishing'
  <2>1. finishing = TRUE \/ finishing = FALSE
    BY DEF OneShotIInv, OneShotTypeOK
  <2>2. CASE finishing = TRUE
    BY <1>1, <2>2, CallIsFinish
  <2>3. CASE finishing = FALSE
    <3>1. Process(input - offset, BufferSize)
      BY <1>1, <2>3
    <3>2. ending' = FALSE
      BY <3>1, CallIsFinish
    <3>3. QED
      BY <1>1, <2>3, <3>2
  <2>4. QED
    BY <2>1, <2>2, <2>3
<1>6. OneShotTypeOK' /\ VerdictMeans'
  BY <1>1, <1>4 DEF OneShotIInv, OneShotTypeOK, VerdictMeans
<1>7. CallsAddUp'
  <2>1. total = output + 0 /\ (finishing => offset = input)
    BY <1>1, <1>4, CallBegins DEF OneShotIInv, CallsAddUp, IInv, ErrorSticks
  <2>2. error' = "none" => total' = output' + (IF status' \in {"idle", "run"} THEN 0 ELSE produced')
    BY <1>1, <1>4, <2>1
  <2>3. given' + consumed' = input' - offset'
    BY <1>1, <1>3, <1>4
  <2>4. finishing' => offset' = input'
    BY <1>1, <2>1
  <2>5. QED
    BY <1>1, <1>5, <2>2, <2>3, <2>4 DEF CallsAddUp
<1>8. QED
  BY <1>4, <1>6, <1>7 DEF OneShotIInv

LEMMA OneShotDecodesIInv ==
  ASSUME OneShotIInv, OneShotDecodes
  PROVE  OneShotIInv'
<1>1. Turn /\ UNCHANGED <<input, offset, finishing, output, verdict>> /\ limit' = limit
  BY TurnLimit DEF OneShotDecodes, oneShotVars
<1>2. /\ IInv' /\ given' + consumed' = given + consumed
      /\ status = "run" /\ error = "none" /\ UNCHANGED <<ending, asked>>
      /\ status' \in {"run", "NeedInput", "NeedOutput", "Done", "error"}
      /\ status' = "error" <=> error' # "none"
      /\ status' = "run" => total' = total
      /\ status' \notin {"run", "error"} => total' = total + produced /\ produced' = produced
  BY <1>1, TurnIInv, TurnTakes, TurnAccount DEF OneShotIInv
<1>3. verdict = "none" /\ total = output
  BY <1>2 DEF OneShotIInv, CallsAddUp, OneShotTypeOK
<1>4. OneShotTypeOK' /\ VerdictMeans'
  BY <1>1, <1>3 DEF OneShotIInv, OneShotTypeOK, VerdictMeans
<1>5. error' = "none" => total' = output' + (IF status' \in {"idle", "run"} THEN 0 ELSE produced')
  BY <1>1, <1>2, <1>3 DEF OneShotIInv, OneShotTypeOK
<1>6. CallsAddUp'
  BY <1>1, <1>2, <1>3, <1>5 DEF OneShotIInv, CallsAddUp
<1>7. QED
  BY <1>2, <1>4, <1>6 DEF OneShotIInv

(* The call returned: what it says cannot be at odds with the offset.      *)
LEMMA ReturnedIInv ==
  ASSUME OneShotIInv, Returned
  PROVE  OneShotIInv'
<1>1. /\ verdict = "none" /\ status \in {"NeedInput", "NeedOutput", "Done"} /\ status' = "idle"
      /\ offset' = NewOffset /\ output' = output + produced
      /\ UNCHANGED <<buffered, given, consumed, header, streamState, phase, remaining, isLast, due,
                     form, checked, limit, total, error, ending, asked, room, produced, input>>
  BY DEF Returned, NewOutput, reader, streamVars
<1>2. /\ error = "none"
      /\ status = "NeedInput" => given = 0 /\ ~ ending
      /\ status = "Done" => phase = "Done" /\ buffered = 0
      /\ given \in Nat /\ consumed \in Nat /\ produced \in Nat /\ total \in Nat
  BY <1>1, CallReturned DEF OneShotIInv
<1>3. IInv'
  <2>1. TypeOK' /\ CallBalance' /\ ErrorSticks' /\ NothingUnchecked' /\ ReadsInPlace'
    BY <1>1, <1>2 DEF OneShotIInv, IInv, TypeOK, CallBalance, ErrorSticks, NothingUnchecked,
                      ReadsInPlace
  <2>2. BytesOwned' /\ LimitHonoured' /\ StatusMeans' /\ LengthIsMinimal'
    BY <1>1, <1>2, SameHeader DEF OneShotIInv, IInv, BytesOwned, LimitHonoured, StatusMeans
  <2>3. QED
    BY <2>1, <2>2 DEF IInv
<1>4. /\ ending = finishing /\ given + consumed = input - offset /\ (finishing => offset = input)
      /\ input \in Nat /\ offset \in 0..input /\ output \in Nat /\ finishing \in BOOLEAN
      /\ total = output + produced /\ limit # NoLimit /\ limit \in Nat /\ total <= limit
  <2>1. input \in Nat
    BY OneShotAssumption, CallAssumption DEF OneShotIInv, OneShotTypeOK
  <2>2. limit # NoLimit /\ limit \in Nat
    BY LimitAssumption DEF OneShotIInv, OneShotTypeOK, IInv, TypeOK
  <2>3. total <= limit
    BY <1>1, <1>2, <2>2 DEF OneShotIInv, IInv, LimitHonoured
  <2>4. ending = finishing /\ given + consumed = input - offset /\ (finishing => offset = input)
    BY <1>1 DEF OneShotIInv, CallsAddUp
  <2>5. total = output + produced
    BY <1>1, <1>2 DEF OneShotIInv, CallsAddUp
  <2>6. offset \in 0..input /\ output \in Nat /\ finishing \in BOOLEAN
    BY DEF OneShotIInv, OneShotTypeOK
  <2>7. QED
    BY <2>1, <2>2, <2>3, <2>4, <2>5, <2>6
<1>5. /\ NewOffset \in offset..input /\ (finishing => NewOffset = input)
      /\ status = "NeedInput" => NewOffset = input
  <2>1. CASE finishing
    BY <1>2, <1>4, <2>1 DEF NewOffset
  <2>2. CASE ~ finishing
    <3>1. NewOffset = offset + consumed
      BY <2>2 DEF NewOffset
    <3>2. offset + consumed \in offset..input /\ (given = 0 => offset + consumed = input)
      BY <1>2, <1>4
    <3>3. QED
      BY <1>2, <2>2, <3>1, <3>2
  <2>3. QED
    BY <2>1, <2>2
<1>6. /\ \/ status \in {"NeedInput", "NeedOutput"} /\ verdict' = "none"
         \/ status = "Done" /\ verdict' = Completed
      /\ finishing' = finishing \/ (finishing' = TRUE /\ NewOffset = input)
  <2>1. ~ (NewOffset > input)
    BY <1>4, <1>5
  <2>2. QED
    BY <1>1, <1>5, <2>1 DEF Returned, EndsInput
<1>7. OneShotTypeOK'
  <2>1. output + produced \in Nat /\ NewOffset \in 0..input
    BY <1>2, <1>4, <1>5
  <2>2. QED
    BY <1>1, <1>4, <1>6, <2>1 DEF OneShotIInv, OneShotTypeOK
<1>8. CallsAddUp'
  <2>1. total' = output' + 0
    BY <1>1, <1>2, <1>4
  <2>2. finishing' => offset' = input'
    BY <1>1, <1>5, <1>6
  <2>3. QED
    BY <1>1, <1>2, <2>1, <2>2 DEF CallsAddUp
<1>9. VerdictMeans'
  <2>1. status = "Done" => phase' = "Done" /\ buffered' = 0 /\ output' = total' /\ output' <= limit'
    BY <1>1, <1>2, <1>4
  <2>2. Completed = "Ok" => offset' = input'
    BY <1>1 DEF Completed
  <2>3. Completed = "TrailingData" => offset' < input'
    BY <1>1, <1>4, <1>5 DEF Completed
  <2>4. Completed \in {"Ok", "TrailingData"}
    BY DEF Completed
  <2>5. QED
    BY <1>6, <2>1, <2>2, <2>3, <2>4 DEF VerdictMeans
<1>10. QED
  BY <1>3, <1>7, <1>8, <1>9 DEF OneShotIInv

LEMMA FailsIInv ==
  ASSUME OneShotIInv, Fails
  PROVE  OneShotIInv'
<1>1. /\ verdict = "none" /\ status = "error" /\ verdict' = error /\ UNCHANGED vars
      /\ UNCHANGED <<input, offset, finishing, output>>
  BY DEF Fails
<1>2. /\ IInv' /\ UNCHANGED <<given, consumed, limit, total, error, status, ending, produced>>
      /\ error # "none"
  BY <1>1, DecoderStill, StutterIInv DEF OneShotIInv, IInv, ErrorSticks
<1>3. OneShotTypeOK' /\ CallsAddUp'
  BY <1>1, <1>2 DEF OneShotIInv, OneShotTypeOK, CallsAddUp
<1>4. VerdictMeans'
  BY <1>1, OwnErrors DEF OneShotIInv, VerdictMeans
<1>5. QED
  BY <1>2, <1>3, <1>4 DEF OneShotIInv

LEMMA OneShotStutter ==
  ASSUME OneShotIInv, UNCHANGED <<vars, oneShotVars>>
  PROVE  OneShotIInv'
<1>1. UNCHANGED vars /\ UNCHANGED <<input, offset, finishing, output, verdict>>
  BY DEF oneShotVars
<1>2. IInv' /\ UNCHANGED <<buffered, given, consumed, phase, limit, total, error, status, ending,
                          produced>>
  BY <1>1, DecoderStill, StutterIInv DEF OneShotIInv
<1>3. OneShotTypeOK' /\ CallsAddUp' /\ VerdictMeans'
  BY <1>1, <1>2 DEF OneShotIInv, OneShotTypeOK, CallsAddUp, VerdictMeans
<1>4. QED
  BY <1>2, <1>3 DEF OneShotIInv

LEMMA OneShotStep ==
  ASSUME OneShotIInv, OneShotNext
  PROVE  OneShotIInv'
  BY CallOIInv, OneShotDecodesIInv, ReturnedIInv, FailsIInv DEF OneShotNext

LEMMA OneShotStarts ==
  ASSUME OneShotInit
  PROVE  OneShotIInv
<1>1. /\ IInv /\ status = "idle" /\ total = 0 /\ error = "none" /\ limit # NoLimit
      /\ input \in 0..MaxInput /\ offset = 0 /\ finishing = FALSE /\ output = 0
      /\ verdict = "none"
  BY InitIInv DEF OneShotInit, Init
<1>2. OneShotTypeOK
  <2>1. MaxInput \in Nat
    BY OneShotAssumption, CallAssumption
  <2>2. 0 \in 0..input
    BY <1>1, <2>1
  <2>3. QED
    BY <1>1, <2>2 DEF OneShotTypeOK
<1>3. CallsAddUp /\ VerdictMeans
  BY <1>1 DEF CallsAddUp, VerdictMeans
<1>4. QED
  BY <1>1, <1>2, <1>3 DEF OneShotIInv

(* The inductive invariant of decompress(): what the call in progress has   *)
(* of the input and the output is accounted for.                           *)
THEOREM OneShotInvariance == OneShotSpec => []OneShotIInv
<1>1. OneShotIInv /\ [OneShotNext]_<<vars, oneShotVars>> => OneShotIInv'
  BY OneShotStep, OneShotStutter
<1>2. QED
  BY OneShotStarts, <1>1, PTL DEF OneShotSpec

(* decompress() succeeds with a whole stream only, all the input used and    *)
(* all its bytes in the output, and tells trailing data from an end too     *)
(* early; what it checks of the decoder always holds.                      *)
THEOREM VerdictIsTrue == OneShotSpec => []VerdictMeans
<1>1. OneShotIInv => VerdictMeans
  BY DEF OneShotIInv
<1>2. QED
  BY OneShotInvariance, <1>1, PTL

-----------------------------------------------------------------------------
(* Either caller. *)

OfCaller == \/ caller = "reader" /\ ReaderIInv /\ verdict = "none"
            \/ caller = "oneShot" /\ OneShotIInv /\ pc = "none" /\ result = Ok(0)

(* What a caller is told of the stream holds of it, whichever calls.       *)
THEOREM CallersAreTold == MCSpec => []CallersTold
<1>1. MCInit => OfCaller
  BY ReaderStarts, OneShotStarts DEF MCInit, OfCaller
<1>2. OfCaller /\ [Reads \/ OneShots]_MCVars => OfCaller'
  <2> SUFFICES ASSUME OfCaller, [Reads \/ OneShots]_MCVars PROVE OfCaller'
    OBVIOUS
  <2>1. CASE Reads
    BY <2>1, ReaderStep DEF Reads, OfCaller, oneShotVars
  <2>2. CASE OneShots
    BY <2>2, OneShotStep DEF OneShots, OfCaller, readerVars
  <2>3. CASE UNCHANGED MCVars
    <3>1. UNCHANGED <<vars, readerVars>> /\ UNCHANGED <<vars, oneShotVars>>
          /\ UNCHANGED <<caller, verdict, pc, result>>
      BY <2>3 DEF MCVars, readerVars, oneShotVars
    <3>2. QED
      BY <3>1, ReaderStutter, OneShotStutter DEF OfCaller
  <2>4. QED
    BY <2>1, <2>2, <2>3
<1>3. OfCaller => CallersTold
  BY DEF OfCaller, CallersTold, ReaderIInv, OneShotIInv, ReadMeans, VerdictMeans, Ok, NoProgress, Err
<1>4. QED
  BY <1>1, <1>2, <1>3, PTL DEF MCSpec
=============================================================================
