----------------------------- MODULE MCRegexMain -----------------------------
(* An instance of RegexMain for TLC: every program of three instructions,  *)
(* every loop-free one of four, and the programs of main.cpp.              *)
EXTENDS RegexMain

AllPrograms(n) == {Append(p, Match) : p \in [1 .. n - 1 -> Instructions(n)]}

SmallPrograms == AllPrograms(3) \union {p \in AllPrograms(4) : Forward(p)}
                 \union {Optional(n) : n \in 1 .. 3}
SmallInputs == UNION {[1 .. k -> Chars] : k \in 0 .. 3}
=============================================================================
