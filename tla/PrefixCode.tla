----------------------------- MODULE PrefixCode -----------------------------
(***************************************************************************)
(* Prefix codes: the tables the decoder builds from code lengths           *)
(* (decode/prefix_code.rs) and the codes the encoder gives to its symbols  *)
(* (encode/prefix_code.rs). A code is the number its bits spell, the first *)
(* bit read the highest; lengths is a function from symbols 0..n-1.        *)
(***************************************************************************)
EXTENDS Integers, FiniteSets, FiniteSetsExt

CONSTANT MaxCodeBits   \* 15, one less than the width of u16
ASSUME MaxCodeBitsAssumption == MaxCodeBits \in Nat \ {0}

Wrap16(n) == n % 2 ^ (MaxCodeBits + 1)

Coded(lengths) == {s \in DOMAIN lengths : lengths[s] # 0}
Counts(lengths) == [l \in 0..MaxCodeBits |->
                      Cardinality({s \in Coded(lengths) : lengths[s] = l})]

\* How much of the code space the lengths take, of Full.
Full == 2 ^ MaxCodeBits
Used(lengths) == MapThenSumSet(LAMBDA s : 2 ^ (MaxCodeBits - lengths[s]), Coded(lengths))

Space(used) == IF used < Full THEN "Incomplete"
               ELSE IF used > Full THEN "Oversubscribed" ELSE "Ok"

\* PrefixCode::from_code_lengths: what kind of code, or which error.
FromCodeLengths(lengths) ==
  CASE Coded(lengths) = {} -> "Empty"
    [] Cardinality(Coded(lengths)) = 1 -> "Single"
    [] OTHER -> Space(Used(lengths))

\* The first code of every length, for the decoder and (up to the longest
\* length) for the encoder: the recurrence is the same.
FirstCode(lengths) ==
  LET first[l \in 0..MaxCodeBits] ==
        IF l = 0 THEN 0 ELSE Wrap16((first[l - 1] + Counts(lengths)[l - 1]) * 2)
  IN first

\* The decoder's symbols in the order of their lengths, those of a length in
\* their own order, and where each length begins in it.
FirstSymbol(lengths) ==
  [l \in 1..MaxCodeBits |-> Cardinality({s \in Coded(lengths) : lengths[s] < l})]

RankBackwards(lengths, s) == Cardinality({t \in DOMAIN lengths : lengths[t] = lengths[s] /\ t > s})   \* mutant
Rank(lengths, s) == Cardinality({t \in DOMAIN lengths : lengths[t] = lengths[s] /\ t < s})

SymbolAt(lengths, index) ==
  CHOOSE s \in Coded(lengths) :
    index = FirstSymbol(lengths)[lengths[s]] + Rank(lengths, s)

LongestCode(lengths) == Max({lengths[s] : s \in DOMAIN lengths})

\* The canonical code the encoder writes for a symbol, and its number of bits.
CanonicalCode(lengths, s) ==
  [code |-> FirstCode(lengths)[lengths[s]]
              + Cardinality({t \in DOMAIN lengths : lengths[t] = lengths[s] /\ t < s}),
   bits |-> lengths[s]]

\* The codes of up to four symbols, by their place among them.
SimpleCode(index, count) ==
  CASE count = 1 -> [code |-> 0, bits |-> 0]
    [] count = 2 -> [code |-> index, bits |-> 1]
    [] count = 3 -> IF index = 0 THEN [code |-> 0, bits |-> 1]
                                 ELSE [code |-> index + 1, bits |-> 2]
    [] count = 4 -> [code |-> index, bits |-> 2]

\* The lengths the decoder gives them, in the order they were read, for the
\* tree-select bit after four of them.
SimpleLengths(count, select) ==
  CASE count = 2 -> <<1, 1>>
    [] count = 3 -> <<1, 2, 2>>
    [] count = 4 -> IF select THEN <<1, 2, 3, 3>> ELSE <<2, 2, 2, 2>>
=============================================================================
