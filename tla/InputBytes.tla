----------------------------- MODULE InputBytes -----------------------------
(***************************************************************************)
(* The bytes a matcher of the encoder searches, and how it compares them.   *)
(* Positions count from 0, as in the code.                                  *)
(***************************************************************************)
EXTENDS Naturals, Sequences

VARIABLE input

Byte(p) == input[p + 1]
Bytes(p, n) == SubSeq(input, p + 1, p + n)

SameBytes(a, b, n) == \A i \in 0..(n - 1) : Byte(a + i) = Byte(b + i)

\* match_length, find_match_length: the bytes two positions share, up to limit.
MatchLength(a, b, limit) ==
  CHOOSE n \in 0..limit : SameBytes(a, b, n) /\ (n < limit => Byte(a + n) # Byte(b + n))
=============================================================================
