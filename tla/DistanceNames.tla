---------------------------- MODULE DistanceNames ----------------------------
(***************************************************************************)
(* How the encoder names a distance (encode/distance.rs): by one of the     *)
(* codes that refer to the recent distances, or by its number.              *)
(***************************************************************************)
EXTENDS DistanceCodes

\* log2_floor_nonzero, of a number below 2^32.
Log2(n) == CHOOSE k \in 0..31 : 2 ^ k <= n /\ n < 2 ^ (k + 1)

\* short_offset: within three of a recent distance, as an index from 1.
Near(distance, recent) == distance + 3 >= recent /\ distance + 3 - recent < 7
Offset(distance, recent) == distance + 3 - recent + 1

LastCodes       == <<8, 6, 4, 0, 5, 7, 9>>
SecondLastCodes == <<14, 12, 10, 1, 11, 13, 15>>

\* compute_code: the cheapest name of a distance that is a copy; an address of
\* the dictionary has no other name than its number.
ComputeCode(recents, distance, reach) ==
  IF distance > reach THEN distance + 15
  ELSE IF distance = recents[1] THEN 0
  ELSE IF distance = recents[2] THEN 1
  ELSE IF Near(distance, recents[1]) THEN LastCodes[Offset(distance, recents[1])]
  ELSE IF Near(distance, recents[2]) THEN SecondLastCodes[Offset(distance, recents[2])]
  ELSE IF distance = recents[3] THEN 2
  ELSE IF distance = recents[4] THEN 3
  ELSE distance + 15

\* DistanceCode::for_code: the symbol, and the value of its extra bits. The
\* parameters are distance_postfix_bits and direct_distance_codes.
SymbolOf(code, params) ==
  LET postfix == params[1]
      direct  == params[2]
      dist    == 2 ^ (postfix + 2) + code - 16 - direct
      bucket  == Log2(dist) - 1
      prefix  == (dist \div 2 ^ bucket) % 2
      extra   == bucket - postfix
  IN IF code < 16 + direct THEN [symbol |-> code, extra |-> 0]
     ELSE [symbol |-> 16 + direct + (2 * (extra - 1) + prefix) * 2 ^ postfix
                       + (dist % 2 ^ postfix),
           extra  |-> (dist - (2 + prefix) * 2 ^ bucket) \div 2 ^ postfix]
=============================================================================
