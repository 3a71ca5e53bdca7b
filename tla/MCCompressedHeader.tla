------------------------- MODULE MCCompressedHeader -------------------------
\* Eight literal contexts instead of 64; the ends of each other range.
EXTENDS CompressedHeader
MCContextBits == [k \in {1, 3} |-> IF k = 1 THEN 3 ELSE 2]
Plan(t1, t2, t3, c, m, p, d) ==
  [types |-> <<t1, t2, t3>>, contexts |-> c, map |-> m, postfix |-> p, direct |-> d]
\* DirectDistances: those of the encoder's options, and of its static codes.
DirectDistances == {<<0, 0>>, <<0, 4>>, <<1, 12>>}
NoContexts == [i \in 1..8 |-> 0]
TwoContexts == [1..8 -> 0..1]
ThreeContexts == {[i \in 1..8 |-> m[(i + 1) \div 2]] : m \in [1..4 -> 0..2]}
MCPlans ==
  {Plan(t1, t2, t3, c[1], c[2], d[1], d[2]) :
     t1 \in {1, 2, 4}, t2 \in {1, 2, 5}, t3 \in {1, 3}, d \in DirectDistances,
     c \in {<<1, NoContexts>>, <<3, <<0, 0, 0, 0, 0, 2, 1, 1>>>>}}
  \cup {Plan(t1, 1, 1, 2, m, 0, 0) : t1 \in 1..2, m \in TwoContexts}
  \cup {Plan(t1, 1, 1, 3, m, 0, 0) : t1 \in 1..2, m \in ThreeContexts}
  \cup {Plan(5, 1, 1, 1, NoContexts, 0, 0), Plan(1, 256, 9, 1, NoContexts, 1, 12)}
MCAnyMaps == {<<4, 2>>, <<4, 3>>, <<4, 4>>, <<8, 2>>}
MCUnknown == <<>>
=============================================================================
