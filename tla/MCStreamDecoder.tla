-------------------------- MODULE MCStreamDecoder --------------------------
(* Three stream headers of each length: accepted, too large a window, invalid. *)
(* A body may read more than a byte at once, so that a read spans two calls.   *)
EXTENDS StreamDecoder

MCForms == {[reads |-> <<1>>, window |-> 16], [reads |-> <<1, 3>>, window |-> 24],
            [reads |-> <<1, 3, 3>>, window |-> 17],
            [reads |-> <<1, 3, 3>>, window |-> Invalid]}
MCWidths == <<1, 2, 3>>
=============================================================================
