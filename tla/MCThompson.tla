------------------------------ MODULE MCThompson ------------------------------
(* The programs of main.cpp, for TLC. *)
EXTENDS Thompson

OptionalPrograms == {Optional(n) : n \in 1 .. 2}
SmallInputs == UNION {[1 .. k -> Chars] : k \in 0 .. 2}
=============================================================================
