--------------------------- MODULE MCPrefixSymbol ---------------------------
(* The codes, and the writer that their bits go through.                      *)
EXTENDS PrefixSymbol, BitWriter

VARIABLE part   \* which of the two

Repeat(value, n) == [i \in 1..n |-> value]

\* Codes with a run of ones, twos and threes in either order, and runs of
\* zeros before, between and after: repeats of one and of two digits, and the
\* counts (seven and eleven) that are written differently.
Shapes == {<<<<3, 8>>>>, <<<<2, 1>>, <<3, 6>>>>, <<<<3, 6>>, <<2, 1>>>>,
           <<<<1, 1>>, <<3, 4>>>>, <<<<3, 4>>, <<1, 1>>>>, <<<<3, 4>>, <<2, 2>>>>}
Zeros == {0, 1, 3, 11, 14}

RunCodes ==
  {LET s == Repeat(0, before)
              \o FlattenSeq([i \in 1..Len(shape) |->
                   Repeat(shape[i][1], shape[i][2])
                     \o (IF i < Len(shape) THEN Repeat(0, between) ELSE <<>>)])
              \o Repeat(0, after)
   IN [i \in 0..(Len(s) - 1) |-> s[i + 1]]
   : before \in Zeros, between \in {0, 3, 12}, after \in {0, 2}, shape \in Shapes}

\* Codes of up to four symbols in alphabets of one, three, five and eight, with the
\* lengths a simple code's symbols take by their order.
SimpleCodes ==
  {LET place(s) == Cardinality({t \in used : t <= s})
   IN [s \in 0..(n - 1) |->
         IF s \notin used THEN 0 ELSE IF Cardinality(used) = 1 THEN 1
         ELSE SimpleLengths(Cardinality(used), FALSE)[place(s)]]
   : <<n, used>> \in UNION {{m} \X {T \in SUBSET (0..(m - 1)) : Cardinality(T) \in 1..4}
                           : m \in {1, 3, 5, 8}}}

\* Counts of five symbols in every order; of five and six, with ties; and counts
\* so far apart that they have to be raised, once or more, for five to eight.
Sequence(s) == [i \in 0..(Len(s) - 1) |-> s[i + 1]]
MCCounted ==
  [0..4 -> {1, 2, 3, 6}]
  \cup {f \in [0..5 -> {0, 1, 3}] : Cardinality({i \in 0..5 : f[i] # 0}) > 4}
  \cup {Sequence(s) : s \in {<<1, 1, 2, 3, 5>>, <<16, 8, 4, 2, 1>>, <<1, 3, 0, 9, 27, 81>>,
                             <<9, 1, 5, 1, 3, 2>>, <<30, 1, 2, 4, 8, 16, 1>>,
                             <<1, 1, 2, 4, 8, 16, 32, 64>>, <<7, 7, 7, 7, 7, 7, 7, 7>>}}

MCWritten == RunCodes \cup SimpleCodes

MCInit ==
  /\ part \in {"codes", "writer"} /\ Init /\ WriterInit
  /\ part = "writer" => written = NoCode /\ alphabetSize = 1
MCNext == \/ part = "codes" /\ Next /\ UNCHANGED <<writerVars, part>>
          \/ part = "writer" /\ WriterNext /\ UNCHANGED <<vars, part>>
MCSpec == MCInit /\ [][MCNext]_<<vars, writerVars, part>>
=============================================================================
