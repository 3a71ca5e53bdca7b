---------------------------- MODULE PrefixSymbol ----------------------------
(***************************************************************************)
(* A prefix code from its representation to its symbols: the code is read  *)
(* (CodeLengths), kept as a tree of its group (decode/tree_group.rs), and  *)
(* symbols are decoded with it bit by bit (CanonicalCode::decode and       *)
(* PrefixSymbolDecoder of decode/prefix_code.rs). A call may end before    *)
(* any bit.                                                                *)
(***************************************************************************)
EXTENDS CodeLengths

CONSTANT MaxSymbols   \* bound: symbols decoded

VARIABLES code, length,  \* PrefixSymbolDecoder
          bits,          \* history: the bits read for the symbol in progress
          symbol,        \* the last symbol returned, or None
          count          \* symbols decoded

symbolVars == <<code, length, bits, symbol, count>>
vars == <<decoderVars, symbolVars>>

None == -1

Init == NewDecoder /\ code = 0 /\ length = 0 /\ bits = <<>> /\ symbol = None /\ count = 0

ReadCode == Decode /\ UNCHANGED symbolVars

\* The tree is pushed; of its decoder nothing is kept.
TakeTree ==
  /\ state = "Done"
  /\ state' = "Taken" /\ stream' = <<>>
  /\ symbols' = <<>> /\ symbolCount' = 0
  /\ index' = 0 /\ clSpace' = CodeSpace /\ clSymbols' = {} /\ clState' = "FirstTwo"
  /\ symbolIndex' = 0 /\ previousNonzero' = InitialLength
  /\ repeat' = 0 /\ repeatLength' = 0 /\ space' = Full /\ repeatSymbol' = 0
  /\ UNCHANGED <<alphabetSize, lengths, result, written, frequencies, symbolVars>>

FoundAfterFirst(c, l) ==   \* mutant: the first code of a length is passed over
  /\ Counts(lengths)[l] # 0
  /\ c > FirstCode(lengths)[l]
  /\ c - FirstCode(lengths)[l] < Counts(lengths)[l]
Found(c, l) ==
  /\ Counts(lengths)[l] # 0
  /\ c >= FirstCode(lengths)[l]
  /\ c - FirstCode(lengths)[l] < Counts(lengths)[l]

\* A bit, and perhaps the symbol it completes. The bits of the symbol before
\* are forgotten by the history with the first bit of the next.
Bit(b) ==
  LET c == Wrap16(code * 2 + b)
      l == length + 1
  IN /\ state = "Taken" /\ result = "Ok" /\ count < MaxSymbols
     /\ bits' = IF length = 0 THEN <<b>> ELSE Append(bits, b)
     /\ IF Found(c, l)
          THEN /\ symbol' = SymbolAt(lengths,
                              FirstSymbol(lengths)[l] + (c - FirstCode(lengths)[l]))
               /\ code' = 0 /\ length' = 0 /\ count' = count + 1
          ELSE code' = c /\ length' = l /\ symbol' = None /\ UNCHANGED count
     /\ UNCHANGED decoderVars

\* The only symbol of a single-symbol code takes no bits.
SingleSymbol ==
  /\ state = "Taken" /\ result = "Single" /\ count < MaxSymbols
  /\ symbol' = CHOOSE s \in Coded(lengths) : TRUE
  /\ count' = count + 1
  /\ UNCHANGED <<decoderVars, code, length, bits>>

Next == ReadCode \/ TakeTree \/ SingleSymbol \/ \E b \in 0..1 : Bit(b)

Spec == Init /\ [][Next]_vars

-----------------------------------------------------------------------------
(* Correctness. *)

\* The code the encoder has for s: by place in a simple code, canonical else.
\* For a stream of unknown origin, the canonical code of its lengths.
Encoded(s) ==
  IF written # NoCode /\ IsSimple(written)
    THEN SimpleCode(Cardinality({t \in Coded(written) : t < s}), Cardinality(Coded(written)))
  ELSE IF Cardinality(Coded(lengths)) = 1 THEN [code |-> 0, bits |-> 0]
  ELSE CanonicalCode(IF written # NoCode THEN written ELSE lengths, s)

Value(bs) == MapThenSumSet(LAMBDA i : bs[i] * 2 ^ (Len(bs) - i), DOMAIN bs)

\* Every symbol the decoder returns is the one the encoder would have written
\* with just these bits, in a simple code as in a complex one: what was read
\* of the representation and the order of the codes give the two sides the
\* same code, whatever was decoded before.
DecodesWhatIsEncoded ==
  symbol # None => /\ symbol \in Coded(IF written # NoCode THEN written ELSE lengths)
                   /\ Encoded(symbol) = [code |-> Value(bits), bits |-> Len(bits)]

\* A symbol is found within the longest code, whatever the bits and whatever
\* the representation was: a code that was accepted has no bits that lead
\* nowhere (the debug_assert of decode, and its index into the counts).
EndsInTime ==
  state = "Taken" /\ result = "Ok" /\ symbol = None => length < LongestCode(lengths)

\* Both: symbols are decoded, and decoded to what was written (CanonicalCode::decode).
SymbolsDecode == DecodesWhatIsEncoded /\ EndsInTime
=============================================================================
