---------------------------- MODULE EncoderCodes ----------------------------
(***************************************************************************)
(* The prefix codes of the encoder (encode/prefix_code.rs).  First the code *)
(* it builds for symbols counted in frequencies                             *)
(* (PrefixEncoding::from_frequencies and huffman_code_lengths_with_limit):  *)
(* a tree whose depths are the lengths, built again with small counts       *)
(* raised to a limit, twice as high each time, until no depth is over the   *)
(* maximum.  A frequency vector is a function from symbols 0..n-1; a node   *)
(* is a leaf with its symbol, or has two children.  Then how the lengths    *)
(* are written as tokens (write_complex_prefix_code): a token is a length,  *)
(* or a repeat (16 of the previous length, 17 of zeros) with its extra      *)
(* value, a digit of a count.                                               *)
(***************************************************************************)
EXTENDS PrefixCode, Sequences, SequencesExt

CONSTANTS InitialLength,  \* 8: the previous length before the first
          RleThreshold    \* 50: shorter alphabets are written without repeats

Leaf(count, symbol)        == [count |-> count, symbol |-> symbol, children |-> {}]
Parent(count, left, right) == [count |-> count, symbol |-> -1, children |-> {left, right}]

Largest(m, n) == IF m > n THEN m ELSE n

\* The leaves, the least frequent first and the higher symbol before the lower.
Before(m, n) == m.count < n.count \/ (m.count = n.count /\ m.symbol > n.symbol)
Leaves(frequencies, countLimit) ==
  LET leaves == {Leaf(Largest(frequencies[s], countLimit), s) : s \in Coded(frequencies)}
  IN [i \in 1..Cardinality(leaves) |->
        CHOOSE leaf \in leaves : Cardinality({other \in leaves : Before(other, leaf)}) = i - 1]

\* take_smallest_node: parents are made in the order of their counts, so the
\* smallest is the next leaf or the next parent; a leaf where they are equal.
TakeLeafFirst(tree, n) == tree.leaf <= n   \* mutant: leaves while there are any
TakeLeaf(tree, n) ==
  /\ tree.leaf <= n
  /\ \/ tree.parent > Len(tree.nodes)
     \/ tree.nodes[tree.leaf].count <= tree.nodes[tree.parent].count

Take(tree, n) ==
  IF TakeLeaf(tree, n) THEN [tree EXCEPT !.leaf = @ + 1, !.taken = Append(@, tree.leaf)]
                       ELSE [tree EXCEPT !.parent = @ + 1, !.taken = Append(@, tree.parent)]

\* Two nodes become the children of one.
Merge(tree, n) ==
  LET both  == Take(Take([tree EXCEPT !.taken = <<>>], n), n)
      left  == both.taken[1]
      right == both.taken[2]
      count == tree.nodes[left].count + tree.nodes[right].count
  IN [both EXCEPT !.nodes = Append(@, Parent(count, left, right))]

Tree(leaves) ==
  LET n == Len(leaves)
      start == [nodes |-> leaves, leaf |-> 1, parent |-> n + 1, taken |-> <<>>]
  IN FoldLeft(LAMBDA tree, i : Merge(tree, n), start, [i \in 1..(n - 1) |-> i]).nodes

\* set_huffman_depths: the last node is the root.
Depth(nodes) ==
  LET root == Len(nodes)
      depth[i \in 1..root] ==
        IF i = root THEN 0
        ELSE 1 + depth[CHOOSE p \in (i + 1)..root : i \in nodes[p].children]
  IN depth

Attempt(frequencies, countLimit) ==
  LET nodes == Tree(Leaves(frequencies, countLimit))
      depth == Depth(nodes)
      leafOf(s) == CHOOSE i \in 1..Len(nodes) : nodes[i].symbol = s
  IN [s \in DOMAIN frequencies |-> IF s \in Coded(frequencies) THEN depth[leafOf(s)] ELSE 0]

Fits(lengths) == \A s \in DOMAIN lengths : lengths[s] <= MaxCodeBits

\* The limit is a u32 that doubles: it has 32 values.
Limits == 0..31
HuffmanLengths(frequencies) ==
  IF Cardinality(Coded(frequencies)) = 1
  THEN [s \in DOMAIN frequencies |-> IF s \in Coded(frequencies) THEN 1 ELSE 0]
  ELSE LET k == CHOOSE i \in Limits :
                  /\ Fits(Attempt(frequencies, 2 ^ i))
                  /\ \A j \in 0..(i - 1) : ~ Fits(Attempt(frequencies, 2 ^ j))
       IN Attempt(frequencies, 2 ^ k)

\* from_frequencies: up to four symbols take the lengths of a simple code.
CodeFor(frequencies) ==
  LET used == Coded(frequencies)
      place(s) == Cardinality({t \in used : t <= s})
  IN IF Cardinality(used) = 1 \/ Cardinality(used) > 4 THEN HuffmanLengths(frequencies)
     ELSE [s \in DOMAIN frequencies |->
             IF s \in used THEN SimpleLengths(Cardinality(used), FALSE)[place(s)] ELSE 0]

-----------------------------------------------------------------------------
(* The reference: what a code costs, and what it could cost at least. *)

Cost(frequencies, lengths) ==
  MapThenSumSet(LAMBDA s : frequencies[s] * lengths[s], Coded(frequencies))

CompleteCodes(used) ==
  {f \in [used -> 1..MaxCodeBits] :
     MapThenSumSet(LAMBDA s : 2 ^ (MaxCodeBits - f[s]), used) = Full}
Cheapest(frequencies) ==
  Min({Cost(frequencies, f) : f \in CompleteCodes(Coded(frequencies))})

\* A code for just the symbols that occur, complete and within the maximum; and
\* unless counts had to be raised for that, no code of such lengths is shorter.
IsBestCode(frequencies, lengths) ==
  /\ Coded(lengths) = Coded(frequencies)
  /\ LongestCode(lengths) <= MaxCodeBits
  /\ Used(lengths) = Full
  /\ Fits(Attempt(frequencies, 1)) => Cost(frequencies, lengths) = Cheapest(frequencies)

-----------------------------------------------------------------------------
(* The tokens of the lengths. *)

PreviousRepeat == 16
ZeroRepeat == 17
DigitBits(symbol) == symbol - 14   \* two and three extra bits

Token(symbol, extra) == [symbol |-> symbol, extra |-> extra]
Plain(value, n) == [i \in 1..n |-> Token(value, 0)]

\* The runs of equal values in a sequence: [value, n] in order.
Runs(s) ==
  LET starts == {i \in 1..Len(s) : i = 1 \/ s[i] # s[i - 1]}
      end(i) == Min({j \in (i + 1)..(Len(s) + 1) : j \in starts \/ j = Len(s) + 1})
      order  == SetToSortSeq(starts, <)
  IN [k \in 1..Len(order) |-> [value |-> s[order[k]], n |-> end(order[k]) - order[k]]]

\* decide_over_rle_use: for lengths that are not zero, and for zeros.
LongRuns(runs, least, zero) ==
  SelectSeq(runs, LAMBDA r : r.n >= least /\ (r.value = 0) = zero)
UseRle(runs, least, zero) ==
  LET counted == LongRuns(runs, least, zero)
  IN FoldLeft(LAMBDA n, r : n + r.n, 0, counted) > (Len(counted) + 1) * 2

\* The digits of a count, the last one written first and then reversed: each
\* digit more takes one off what is left, since no count has two spellings.
Digits(symbol, n) ==
  LET base == 2 ^ DigitBits(symbol)
      digits[m \in 0..n] ==
        IF m < base THEN <<Token(symbol, m)>>
        ELSE Append(digits[(m \div base) - 1], Token(symbol, m % base))
  IN digits[n]

Repeated(symbol, value, n) ==
  IF n < 3 THEN Plain(value, n) ELSE Digits(symbol, n - 3)

\* write_zero_repetitions: eleven are better written as one and ten.
ZeroRun(n) == IF n = 11 THEN Plain(0, 1) \o Repeated(ZeroRepeat, 0, 10)
                        ELSE Repeated(ZeroRepeat, 0, n)

\* write_repetitions: the value itself first, unless it is the previous one;
\* seven more are better written as one and six.
ValueRun(previous, value, n) ==
  LET first == IF previous # value THEN 1 ELSE 0
      more  == IF n - first = 7 THEN 1 ELSE 0
  IN Plain(value, first + more) \o Repeated(PreviousRepeat, value, n - first - more)

\* tokenize_code_lengths: up to the last length that is not zero, run by run,
\* or length by length where repeats are not used.
Tokens(lengths) ==
  LET s      == [i \in 1..(Max(Coded(lengths)) + 1) |-> lengths[i - 1]]
      runs   == Runs(s)
      long   == Cardinality(DOMAIN lengths) > RleThreshold
      values == long /\ UseRle(runs, 4, FALSE)
      zeros  == long /\ UseRle(runs, 3, TRUE)
      pieces == FlattenSeq([k \in 1..Len(runs) |->
                  IF IF runs[k].value = 0 THEN zeros ELSE values
                    THEN <<runs[k]>>
                    ELSE [i \in 1..runs[k].n |-> [value |-> runs[k].value, n |-> 1]]])
      write(written, piece) ==
        IF piece.value = 0
          THEN [written EXCEPT !.tokens = @ \o ZeroRun(piece.n)]
          ELSE [tokens   |-> written.tokens \o ValueRun(written.previous, piece.value, piece.n),
                previous |-> piece.value]
  IN FoldLeft(write, [tokens |-> <<>>, previous |-> InitialLength], pieces).tokens

-----------------------------------------------------------------------------
(* The code of the tokens themselves.                                      *)

CodeLengthBits == 5
CodeLengthOrder ==
  SelectSeq(<<1, 2, 3, 4, 0, 5, 17, 6, 16, 7, 8, 9, 10, 11, 12, 13, 14, 15>>,
            LAMBDA s : s <= MaxCodeBits \/ s >= 16)

\* The lengths code_length_code may give the tokens used: any complete code of
\* at most five bits, or one bit for a single one (Huffman's choice among them
\* does not matter).
CodeLengthCodes(used) ==
  IF Cardinality(used) = 1 THEN [used -> {1}]
  ELSE {f \in [used -> 1..CodeLengthBits] :
          MapThenSumSet(LAMBDA s : 2 ^ (CodeLengthBits - f[s]), used) = 2 ^ CodeLengthBits}

\* write_code_length_code: how many are skipped, and the values then written,
\* up to the last that is not zero unless there is just one.
LengthOf(f, i) == LET s == CodeLengthOrder[i] IN IF s \in DOMAIN f THEN f[s] ELSE 0
Skip(f) == CASE LengthOf(f, 1) # 0 \/ LengthOf(f, 2) # 0 -> 0
             [] LengthOf(f, 3) # 0 -> 2
             [] OTHER -> 3
Stored(f) ==
  LET last == IF Cardinality(DOMAIN f) = 1 THEN Len(CodeLengthOrder)
              ELSE Max({i \in 1..Len(CodeLengthOrder) : LengthOf(f, i) # 0})
  IN [k \in 1..(last - Skip(f)) |-> LengthOf(f, Skip(f) + k)]
=============================================================================
