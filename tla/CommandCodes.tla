---------------------------- MODULE CommandCodes ----------------------------
(***************************************************************************)
(* Insert and copy lengths as command symbols with extra bits: how the      *)
(* encoder names them (encode/command.rs) and what the decoder makes of     *)
(* the names (decode/command.rs).                                           *)
(***************************************************************************)
EXTENDS Integers, Sequences

InsertBase == <<0, 1, 2, 3, 4, 5, 6, 8, 10, 14, 18, 26, 34, 50, 66, 98, 130, 194, 322, 578, 1090,
                2114, 6210, 22594>>
InsertExtraBits == <<0, 0, 0, 0, 0, 0, 1, 1, 2, 2, 3, 3, 4, 4, 5, 5, 6, 7, 8, 9, 10, 12, 14, 24>>
CopyBase == <<2, 3, 4, 5, 6, 7, 8, 9, 10, 12, 14, 18, 22, 30, 38, 54, 70, 102, 134, 198, 326, 582,
              1094, 2118>>
CopyExtraBits == <<0, 0, 0, 0, 0, 0, 0, 0, 1, 1, 2, 2, 3, 3, 4, 4, 5, 5, 6, 7, 8, 9, 10, 24>>

\* length_code: the first code whose range holds the length, counted from 0.
LengthCode(length, base, bits) ==
  LET code == CHOOSE c \in 1..24 :
                /\ length \in base[c]..(base[c] + 2 ^ bits[c] - 1)
                /\ \A d \in 1..(c - 1) : length \notin base[d]..(base[d] + 2 ^ bits[d] - 1)
  IN [code |-> code - 1, extra |-> length - base[code]]

\* combine_length_codes.
Combined(insertCode, copyCode, useLast) ==
  LET low    == (copyCode % 8) + (8 * (insertCode % 8))
      offset == 2 * ((copyCode \div 8) + (3 * (insertCode \div 8)))
      cell   == (5377344 \div (2 ^ (offset + 6))) % 4      \* 0x520d40 >> offset, & 0xc0
  IN IF useLast /\ insertCode < 8 /\ copyCode < 16
     THEN IF copyCode < 8 THEN low ELSE low + 64
     ELSE (32 * offset) + 64 + (64 * cell) + low

\* for_insert_and_copy_code.
ExplicitCommand(insertLength, copyLength, useLast) ==
  LET insert == LengthCode(insertLength, InsertBase, InsertExtraBits)
      copy   == LengthCode(copyLength, CopyBase, CopyExtraBits)
  IN [symbol |-> Combined(insert.code, copy.code, useLast),
      insertExtra |-> insert.extra, copyExtra |-> copy.extra]

\* An insert without a copy: its copy would be of four bytes.
InsertCommand(length) == ExplicitCommand(length, 4, FALSE)

RequiresDistance(symbol) == symbol >= 128

\* CommandSpec::from_symbol: the first insert and copy code of each range of 64.
Groups == <<<<0, 0>>, <<0, 8>>, <<0, 0>>, <<0, 8>>, <<8, 0>>, <<8, 8>>, <<0, 16>>, <<16, 0>>,
            <<8, 16>>, <<16, 8>>, <<16, 16>>>>

\* CommandDecoder::decode, the extra bits read.
CommandOf(command) ==
  LET range  == command.symbol \div 64
      insert == Groups[range + 1][1] + ((command.symbol \div 8) % 8)
      copy   == Groups[range + 1][2] + (command.symbol % 8)
  IN [insert |-> InsertBase[insert + 1] + (command.insertExtra % (2 ^ InsertExtraBits[insert + 1])),
      copy   |-> CopyBase[copy + 1] + (command.copyExtra % (2 ^ CopyExtraBits[copy + 1])),
      implicit |-> range < 2]
=============================================================================
