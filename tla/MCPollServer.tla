----------------------------- MODULE MCPollServer -----------------------------
(* An instance of PollServer for TLC: p3 sends three bytes, the others one. *)
EXTENDS PollServer

CONSTANTS p1, p2, p3

MCMaxBytes == [p \in Peers |-> IF p = p3 THEN 3 ELSE 1]
=============================================================================
