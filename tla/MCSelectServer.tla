----------------------------- MODULE MCSelectServer -----------------------------
(* An instance of SelectServer for TLC: p3 sends three bytes, the others one. *)
EXTENDS SelectServer

CONSTANTS p1, p2, p3

MCMaxBytes == [p \in Peers |-> IF p = p3 THEN 3 ELSE 1]
=============================================================================
