----------------------------- MODULE MCForkServer -----------------------------
(* An instance of EchoSession for TLC: p1 sends three bytes, p2 two. *)
EXTENDS EchoSession

CONSTANTS p1, p2

MCMaxBytes == [p \in Peers |-> IF p = p1 THEN 3 ELSE 2]

\* A line of one and a line of two, two of one and an unfinished one, a line
\* that fills recvline and goes on, and no line at all.
MCTexts == {[len |-> 3, newlines |-> {1, 3}], [len |-> 3, newlines |-> {1, 2}],
            [len |-> 3, newlines |-> {3}], [len |-> 0, newlines |-> {}]}
=============================================================================
