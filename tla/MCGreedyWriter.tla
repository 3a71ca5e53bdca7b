--------------------------- MODULE MCGreedyWriter ---------------------------
EXTENDS GreedyWriter

\* Generic and text mode; font mode.
MCModes == {<<0, 0>>, <<1, 12>>}
\* Two commands that may leave their distance implicit, and one that may not.
MCCommon == {<<0, 4>>, <<3, 10>>, <<6, 70>>}

\* Every pair of length codes at its first lengths, every code at its last, and
\* lengths about the most nibbles four and five can write.
Codes == 1..23
InsertTop(c) == InsertBase[c] + (2 ^ InsertExtraBits[c]) - 1
CopyTop(c)   == CopyBase[c] + (2 ^ CopyExtraBits[c]) - 1
MCWholes == {InsertBase[c] : c \in 2..23} \cup {InsertTop(c) : c \in 2..23}
            \cup {CopyTop(c) + 1 : c \in 1..23} \cup {65536, 65537, 1048576, 1048577}
Sizes ==
  {<<InsertBase[c], CopyBase[d]>> : c \in Codes, d \in Codes}
  \cup {<<InsertTop(c), CopyTop(c)>> : c \in Codes}
  \cup {<<n - 2, d>> : n \in {65536, 1048576}, d \in 2..3}
\* With the first two distances of the ring; and every name of a distance.
MCBoundary ==
  {<<s[1], s[2], d>> : s \in Sizes \ MCCommon, d \in {4, 11}}
  \cup {<<20, 4, d>> : d \in 1..18}
=============================================================================
