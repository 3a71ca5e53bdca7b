----------------------------- MODULE CodeLengths -----------------------------
(***************************************************************************)
(* The decoder of a prefix code's representation                           *)
(* (decode/prefix_code_decoder.rs with simple_prefix_code.rs and           *)
(* complex_prefix_code.rs). Every read may find its input short, which     *)
(* leaves the state as it is and is a stutter here. What is read is what   *)
(* the encoder wrote for some code, or, for a stream of unknown origin,    *)
(* anything.                                                               *)
(***************************************************************************)
EXTENDS EncoderCodes

CONSTANTS Written,     \* codes written, as lengths
          Counted,     \* frequencies that codes are built for, and then written
          AnySizes     \* the alphabets of streams of unknown origin

VARIABLES
  alphabetSize, state,
  symbols, symbolCount,                    \* SimplePrefixCodeDecoder
  index, clSpace, clSymbols, clState,      \* the code of the lengths
  lengths, symbolIndex, previousNonzero,   \* ComplexPrefixCodeDecoder
  repeat, repeatLength, space, repeatSymbol,
  result,                                  \* none, an error, or the code built
  stream,                                  \* what is still to be read, or Unknown
  written,                                 \* history: the code the stream stands for
  frequencies                              \* history: what the code was built for, until
                                           \* it is read

simpleVars == <<symbols, symbolCount>>
codeVars   == <<index, clSpace, clSymbols, clState>>
runVars    == <<lengths, symbolIndex, previousNonzero, repeat, repeatLength, space>>
origin     == <<written, frequencies>>
decoderVars == <<alphabetSize, state, simpleVars, codeVars, runVars, repeatSymbol, result,
                 stream, origin>>

Unknown == <<-1>>
NoCode == [n \in {} |-> 0]
CodeSpace == 32
NoError == "none"

\* CodeLengthValueDecoder: two bits, then perhaps one and one more.
ValueBits(value) == CASE value = 0 -> <<0>> [] value = 4 -> <<1>> [] value = 3 -> <<2>>
                      [] value = 2 -> <<3, 0>> [] value = 1 -> <<3, 1, 0>>
                      [] value = 5 -> <<3, 1, 1>>

\* The whole stream of a complex code, value by value as the decoder reads it.
StreamOf(tokens, f) ==
  LET stored   == Stored(f)
      token(t) == IF t.symbol < 16 THEN <<t.symbol>> ELSE <<t.symbol, t.extra>>
  IN <<Skip(f)>> \o FlattenSeq([i \in 1..Len(stored) |-> ValueBits(stored[i])])
                 \o FlattenSeq([i \in 1..Len(tokens) |-> token(tokens[i])])

\* The code of up to four symbols is written as their list, in order.
IsSimple(code) == Cardinality(Coded(code)) <= 4
SimpleStream(code) ==
  LET list == SetToSortSeq(Coded(code), <)
  IN <<1, Len(list) - 1>> \o list \o (IF Len(list) = 4 THEN <<0>> ELSE <<>>)

ComplexStreams(code) ==
  LET tokens == Tokens(code)
  IN {StreamOf(tokens, f) : f \in CodeLengthCodes({tokens[i].symbol : i \in 1..Len(tokens)})}

\* PrefixCodeDecoder::new; the other decoders' fields are as new() will set
\* them when the representation is known.
NewDecoder ==
  /\ \/ /\ \/ written \in Written /\ frequencies = NoCode
           \/ \E counts \in Counted : frequencies = counts /\ written = CodeFor(counts)
        /\ stream \in IF IsSimple(written) THEN {SimpleStream(written)} ELSE ComplexStreams(written)
     \/ written = NoCode /\ frequencies = NoCode /\ stream = Unknown
  /\ IF stream = Unknown THEN alphabetSize \in AnySizes
                     ELSE alphabetSize = Cardinality(DOMAIN written)
  /\ state = "Representation" /\ symbols = <<>> /\ symbolCount = 0
  /\ index = 0 /\ clSpace = CodeSpace /\ clSymbols = {} /\ clState = "FirstTwo"
  /\ lengths = [s \in 0..(alphabetSize - 1) |-> 0]
  /\ symbolIndex = 0 /\ previousNonzero = InitialLength
  /\ repeat = 0 /\ repeatLength = 0 /\ space = Full /\ repeatSymbol = 0
  /\ result = NoError

At(s) == state = s /\ result = NoError

\* A value is read: any of so many, or the next one written.
Read(value, limit) ==
  IF stream = Unknown THEN value \in 0..(limit - 1) /\ UNCHANGED stream
  ELSE stream # <<>> /\ value = Head(stream) /\ stream' = Tail(stream)

Build(code) == result' = code /\ state' = "Done"
Fail(error) == result' = error /\ UNCHANGED state

Representation ==
  /\ At("Representation")
  /\ \E selector \in 0..3 :
       /\ Read(selector, 4)
       /\ IF selector = 1 THEN state' = "SymbolCount" /\ UNCHANGED index
                          ELSE state' = "CodeLengthAlphabet" /\ index' = selector
  /\ frequencies' = NoCode
  /\ UNCHANGED <<alphabetSize, simpleVars, clSpace, clSymbols, clState, runVars,
                 repeatSymbol, result, written>>

-----------------------------------------------------------------------------
(* SimplePrefixCodeDecoder.                                                *)

SymbolCount ==
  /\ At("SymbolCount")
  /\ \E bits \in 0..3 : Read(bits, 4) /\ symbolCount' = bits + 1
  /\ state' = "Symbols"
  /\ UNCHANGED <<alphabetSize, symbols, codeVars, runVars, repeatSymbol, result, origin>>

\* finish(): the lengths by the order in which the symbols were read.
SimpleCodeOf(select) ==
  [s \in 0..(alphabetSize - 1) |->
     IF symbols = <<>> \/ s \notin Range(symbols) THEN 0
     ELSE IF symbolCount = 1 THEN 1
     ELSE SimpleLengths(symbolCount, select)[CHOOSE i \in 1..Len(symbols) : symbols[i] = s]]
Finish(select) ==
  Build(IF symbolCount = 1 THEN "Single" ELSE FromCodeLengths(SimpleCodeOf(select)))

SymbolBits == Min({b \in 0..alphabetSize : alphabetSize <= 2 ^ b})

ReadSymbol ==
  /\ At("Symbols") /\ Len(symbols) < symbolCount
  /\ \E symbol \in 0..(2 ^ SymbolBits - 1) :
       /\ Read(symbol, 2 ^ SymbolBits)
       /\ CASE symbol >= alphabetSize -> Fail("InvalidSymbol") /\ UNCHANGED symbols
            [] symbol < alphabetSize /\ symbol \in Range(symbols) ->
                 Fail("DuplicateSymbol") /\ UNCHANGED symbols
            [] OTHER -> symbols' = Append(symbols, symbol) /\ UNCHANGED <<result, state>>
  /\ UNCHANGED <<alphabetSize, symbolCount, codeVars, runVars, repeatSymbol, origin>>

SymbolsRead ==
  /\ At("Symbols") /\ Len(symbols) = symbolCount
  /\ IF symbolCount = 4
       THEN state' = "TreeSelect" /\ UNCHANGED <<lengths, result>>
       ELSE lengths' = SimpleCodeOf(FALSE) /\ Finish(FALSE)
  /\ UNCHANGED <<alphabetSize, simpleVars, codeVars, symbolIndex, previousNonzero, repeat,
                 repeatLength, space, repeatSymbol, stream, origin>>

TreeSelect ==
  /\ At("TreeSelect")
  /\ \E bit \in 0..1 : Read(bit, 2) /\ lengths' = SimpleCodeOf(bit # 0) /\ Finish(bit # 0)
  /\ UNCHANGED <<alphabetSize, simpleVars, codeVars, symbolIndex, previousNonzero, repeat,
                 repeatLength, space, repeatSymbol, origin>>

-----------------------------------------------------------------------------
(* ComplexPrefixCodeDecoder: the code of the lengths.                      *)

CodeLengthsToRead == index < Len(CodeLengthOrder) /\ clSpace > 0

\* A length of the code of lengths, whole: the space it takes, and its symbol.
CodeLengthValue(value) ==
  /\ clState' = "FirstTwo"
  /\ index' = index + 1
  /\ IF value = 0 THEN UNCHANGED <<clSpace, clSymbols, result, state>>
     ELSE /\ clSpace' = clSpace - 2 ^ (CodeLengthBits - value)
          /\ clSymbols' = clSymbols \cup {CodeLengthOrder[index + 1]}
          /\ IF clSpace' < 0 THEN Fail("InvalidCodeLengthAlphabet")
                             ELSE UNCHANGED <<result, state>>

MoreBits(next) == clState' = next /\ UNCHANGED <<index, clSpace, clSymbols, result, state>>

ReadCodeLength ==
  /\ At("CodeLengthAlphabet") /\ CodeLengthsToRead
  /\ \/ /\ clState = "FirstTwo"
        /\ \E bits \in 0..3 :
             /\ Read(bits, 4)
             /\ CASE bits = 0 -> CodeLengthValue(0) [] bits = 1 -> CodeLengthValue(4)
                  [] bits = 2 -> CodeLengthValue(3) [] bits = 3 -> MoreBits("Third")
     \/ /\ clState = "Third"
        /\ \E bit \in 0..1 :
             Read(bit, 2) /\ IF bit = 0 THEN CodeLengthValue(2) ELSE MoreBits("Fourth")
     \/ /\ clState = "Fourth"
        /\ \E bit \in 0..1 : Read(bit, 2) /\ CodeLengthValue(IF bit = 0 THEN 1 ELSE 5)
  /\ UNCHANGED <<alphabetSize, simpleVars, runVars, repeatSymbol, origin>>

EmptyAlphabet == clSpace # 0 /\ clSymbols = {}   \* mutant: only an empty code is refused
IncompleteAlphabet == clSpace # 0 /\ Cardinality(clSymbols) # 1

CodeLengthsRead ==
  /\ At("CodeLengthAlphabet") /\ ~ CodeLengthsToRead
  /\ IF IncompleteAlphabet THEN Fail("InvalidCodeLengthAlphabet")
                           ELSE state' = "CodeLengths" /\ UNCHANGED result
  /\ UNCHANGED <<alphabetSize, simpleVars, codeVars, runVars, repeatSymbol, stream, origin>>

-----------------------------------------------------------------------------
(* ComplexPrefixCodeDecoder: the lengths.                                  *)

\* consume_space: so many more symbols of a length.
Consume(n, length) ==
  /\ space' = IF length = 0 THEN space ELSE space - n * 2 ^ (MaxCodeBits - length)
  /\ IF space' < 0 THEN Fail("Oversubscribed") ELSE UNCHANGED result /\ state' = "CodeLengths"

PushLength(length) ==
  /\ repeat' = 0
  /\ lengths' = [lengths EXCEPT ![symbolIndex] = length]
  /\ symbolIndex' = symbolIndex + 1
  /\ previousNonzero' = IF length # 0 THEN length ELSE previousNonzero
  /\ UNCHANGED repeatLength
  /\ Consume(1, length)

\* A length or the symbol of a repeat. A code of one symbol reads no bits.
ReadLength ==
  /\ At("CodeLengths") /\ space # 0 /\ symbolIndex # alphabetSize
  /\ \E symbol \in clSymbols :
       /\ Read(symbol, 18)
       /\ IF symbol < 16
            THEN PushLength(symbol) /\ UNCHANGED repeatSymbol
            ELSE /\ state' = "RepeatExtra" /\ repeatSymbol' = symbol
                 /\ UNCHANGED <<runVars, result>>
  /\ UNCHANGED <<alphabetSize, simpleVars, codeVars, origin>>

RepeatedLength == IF repeatSymbol = PreviousRepeat THEN previousNonzero ELSE 0

OldRepeatStale == repeat   \* mutant: repeats of another length go on counting
OldRepeat == IF repeatLength # RepeatedLength THEN 0 ELSE repeat

\* push_repeat: another digit of the count makes the repeat that much longer.
RepeatExtra ==
  /\ At("RepeatExtra")
  /\ \E extra \in 0..(2 ^ DigitBits(repeatSymbol) - 1) :
       LET base == IF OldRepeat = 0 THEN 0
                   ELSE (OldRepeat - 2) * 2 ^ DigitBits(repeatSymbol)
           all  == base + extra + 3
           end  == symbolIndex + (all - OldRepeat)
       IN /\ Read(extra, 2 ^ DigitBits(repeatSymbol))
          /\ repeatLength' = RepeatedLength
          /\ IF end > alphabetSize
               THEN /\ repeat' = OldRepeat
                    /\ Fail("RepeatPastAlphabet")
                    /\ UNCHANGED <<lengths, symbolIndex, space>>
               ELSE /\ lengths' = [s \in DOMAIN lengths |->
                          IF s \in symbolIndex..(end - 1) THEN RepeatedLength ELSE lengths[s]]
                    /\ symbolIndex' = end
                    /\ repeat' = all
                    /\ Consume(all - OldRepeat, RepeatedLength)
  /\ UNCHANGED <<alphabetSize, simpleVars, codeVars, previousNonzero, repeatSymbol, origin>>

Nonzero == Cardinality(Coded(lengths))

\* The space is used up: finish(). Or the alphabet is, with space left.
LengthsRead ==
  /\ At("CodeLengths") /\ (space = 0 \/ symbolIndex = alphabetSize)
  /\ CASE space # 0 -> Fail("UnusedCodeSpace")
       [] space = 0 /\ Nonzero < 2 -> Fail("TooFewSymbols")
       [] OTHER -> Build(FromCodeLengths(lengths))
  /\ UNCHANGED <<alphabetSize, simpleVars, codeVars, runVars, repeatSymbol, stream, origin>>

Decode == \/ Representation \/ SymbolCount \/ ReadSymbol \/ SymbolsRead \/ TreeSelect
          \/ ReadCodeLength \/ CodeLengthsRead \/ ReadLength \/ RepeatExtra \/ LengthsRead

-----------------------------------------------------------------------------
(* Correctness. *)

\* Every code the encoder writes is read back, length by length: the digits of
\* its repeats, the repeats it leaves out and the order and the end of the code
\* of lengths mean to the decoder what they meant to the encoder, nothing of the
\* stream is left, and the decoder never stops short of the end
\* (tokenize_code_lengths and push_repeat, write_code_length_code and its
\* decoder, write_simple_prefix_code and SimplePrefixCodeDecoder).
WrittenIsRead ==
  stream # Unknown =>
    /\ result \in {NoError, "Single", "Ok"}
    /\ state = "Done" => lengths = written /\ stream = <<>>
    /\ state \in {"Done", "Taken"} \/ ENABLED Decode

\* What is written for frequencies is a code of just the symbols that occur,
\* complete and no longer than the maximum (the loop that raises the counts ends
\* with one), and the cheapest of them where the counts were not raised
\* (huffman_code_lengths_with_limit).
BuiltIsBest ==
  /\ frequencies # NoCode /\ Cardinality(Coded(frequencies)) > 4 =>
       IsBestCode(frequencies, written)
  /\ \A s \in DOMAIN frequencies : (written[s] = 0) = (frequencies[s] = 0)

\* Whatever the stream, the space kept is what the lengths read leave of the
\* code space, and never negative but for the error; so the code that is built
\* is complete, and neither from_code_lengths nor the count of symbols can
\* refuse it (the checks of finish() and of the code-length alphabet).
BuiltIsComplete ==
  /\ state \in {"CodeLengths", "RepeatExtra"} => space = Full - Used(lengths)
  /\ state = "Done" => result \in {"Single", "Ok"}
  /\ result # "TooFewSymbols"
  /\ state = "CodeLengths" =>
       \/ Cardinality(clSymbols) = 1
       \/ clSpace = 0 /\ Cardinality(clSymbols) >= 2
=============================================================================
