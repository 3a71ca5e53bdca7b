--------------------------- MODULE HistoryWindow ---------------------------
(***************************************************************************)
(* What the sliding window of decode/history.rs promises, without a ring:  *)
(* the window is the unbounded sequence of all bytes decoded so far, of    *)
(* which a copy may reach back at most WindowSize bytes.                   *)
(***************************************************************************)
EXTENDS Naturals, Sequences

CONSTANTS Byte,       \* the byte values
          WindowSize  \* (1 << WBITS) - 16 in the code

VARIABLES out,   \* every byte decoded so far, oldest first
          last   \* the last completed call and what it reported

vars == <<out, last>>

Least(a, b) == IF a <= b THEN a ELSE b

\* max_backward_distance(): how far back a copy may reach.
Reach == Least(Len(out), WindowSize)

Extends(s, t) == /\ Len(s) <= Len(t)
                 /\ \A i \in 1..Len(s) : t[i] = s[i]

\* t continues s with bytes that each repeat the byte d before them, the bytes
\* the continuation itself produced included: an overlapping LZ77 copy.
Repeats(s, t, d) == \A i \in (Len(s) + 1)..Len(t) : t[i] = t[i - d]

Call(op, distance, count) == [op |-> op, distance |-> distance, count |-> count]

Init == out = <<>> /\ last = Call("none", 0, 0)

Append_ == /\ out' \in Seq(Byte)
           /\ Extends(out, out')
           /\ last' = Call("push", 0, Len(out') - Len(out))

CopyBack == /\ last'.op = "copy"
            /\ last'.distance \in 1..Reach
            /\ out' \in Seq(Byte)
            /\ Len(out') = Len(out) + last'.count
            /\ Extends(out, out')
            /\ Repeats(out, out', last'.distance)

RejectCopy == /\ last'.op = "error"
              /\ ~ (last'.distance \in 1..Reach)
              /\ out' = out

Next == Append_ \/ CopyBack \/ RejectCopy

Spec == Init /\ [][Next]_vars
=============================================================================
