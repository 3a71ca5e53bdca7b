---------------------------- MODULE DistanceCodes ----------------------------
(***************************************************************************)
(* Distances and the ring of the last four (distance.rs): what the decoder  *)
(* makes of a symbol.                                                       *)
(***************************************************************************)
EXTENDS Integers, Sequences

InitialRing == <<4, 11, 15, 16>>
Pushed(ring, value) == <<value>> \o SubSeq(ring, 1, 3)

\* RecentDistances::resolve_short: which of the four, and what to add to it.
ShortCodes == <<<<1, 0>>, <<2, 0>>, <<3, 0>>, <<4, 0>>,
                <<1, -1>>, <<1, 1>>, <<1, -2>>, <<1, 2>>, <<1, -3>>, <<1, 3>>,
                <<2, -1>>, <<2, 1>>, <<2, -2>>, <<2, 2>>, <<2, -3>>, <<2, 3>>>>
ShortDistance(ring, symbol) == ring[ShortCodes[symbol + 1][1]] + ShortCodes[symbol + 1][2]

InvalidShort(ring, symbol) == symbol < 16 /\ ShortDistance(ring, symbol) <= 0

AlphabetSize(postfix, direct) == 16 + direct + 48 * (2 ^ postfix)

\* DistanceDecoder::new: a distance at once, or the least distance its extra
\* bits add to.
NewDistance(ring, symbol, postfix, direct) ==
  LET code  == symbol - direct - 16
      hcode == code \div (2 ^ postfix)
      lcode == code % (2 ^ postfix)
      bits  == 1 + (code \div (2 ^ (postfix + 1)))
      base  == ((2 + (hcode % 2)) * (2 ^ bits)) - 4
      Resolved(value) == [state |-> "resolved", symbol |-> symbol, value |-> value,
                          push |-> symbol # 0, bits |-> 0]
  IN IF symbol < 16 THEN Resolved(ShortDistance(ring, symbol))
     ELSE IF symbol < 16 + direct THEN Resolved(symbol - 16 + 1)
     ELSE [state |-> "extra", symbol |-> symbol, push |-> TRUE, bits |-> bits,
           value |-> (base * (2 ^ postfix)) + lcode + direct + 1]

\* DistanceDecoder::decode, the extra bits read.
Resolve(distance, extra, postfix) == distance.value + extra * (2 ^ postfix)
=============================================================================
