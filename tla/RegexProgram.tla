----------------------------- MODULE RegexProgram -----------------------------
(***************************************************************************)
(* The programs of regex-vm (common.h): sequences of the instructions      *)
(* Char, Match, Jmp and Split, run on an input.  A configuration is a pair *)
(* of a program counter and a string pointer, both from 1; at sp = Len + 1 *)
(* the string has its terminating zero.                                    *)
(***************************************************************************)
EXTENDS Integers, Sequences

CONSTANTS
    Programs, Inputs,   \* what an engine is called with
    Chars               \* the characters they are made of

Char(c) == [opcode |-> "Char", c |-> c]
Match == [opcode |-> "Match"]
Jmp(x) == [opcode |-> "Jmp", x |-> x]
Split(x, y) == [opcode |-> "Split", x |-> x, y |-> y]

\* The instructions with targets in 1 .. n.
Instructions(n) ==
    {Match} \union {Char(c) : c \in Chars} \union {Jmp(x) : x \in 1 .. n}
            \union {Split(x, y) : x, y \in 1 .. n}

\* Every target is inside, and control does not run off the end.
WellFormed(prog) ==
    /\ prog \in Seq(Instructions(Len(prog)))
    /\ Len(prog) > 0 /\ prog[Len(prog)] = Match

\* Jumps go forward only, so no engine runs in circles.
Forward(p) ==
    \A k \in DOMAIN p : /\ p[k].opcode \in {"Jmp", "Split"} => p[k].x > k
                        /\ p[k].opcode = "Split" => p[k].y > k

ASSUME ProgramsAssumption ==
    /\ \A p \in Programs : WellFormed(p)
    /\ Inputs \subseteq Seq(Chars)

\* The instructions of a?^n a^n, as main builds them.
Optional(n) ==
    [k \in 1 .. 3 * n + 1 |->
        IF k = 3 * n + 1 THEN Match
        ELSE IF k <= 2 * n /\ k % 2 = 1 THEN Split(k + 1, k + 2)
        ELSE Char("a")]

Configs(prog, input) == (DOMAIN prog) \X (1 .. Len(input) + 1)

CharMatches(prog, input, c) ==
    prog[c[1]].opcode = "Char" /\ c[2] <= Len(input) /\ input[c[2]] = prog[c[1]].c

\* Where a thread may go from configuration c.
Successors(prog, input, c) ==
    CASE prog[c[1]].opcode = "Char" ->
            IF CharMatches(prog, input, c) THEN {<<c[1] + 1, c[2] + 1>>} ELSE {}
      [] prog[c[1]].opcode = "Match" -> {}
      [] prog[c[1]].opcode = "Jmp" -> {<<prog[c[1]].x, c[2]>>}
      [] prog[c[1]].opcode = "Split" -> {<<prog[c[1]].x, c[2]>>, <<prog[c[1]].y, c[2]>>}

\* Configurations that k steps or fewer lead to, and all that can be reached.
Reached(prog, input) ==
    LET R[k \in Nat] == IF k = 0 THEN {<<1, 1>>}
                        ELSE LET S == R[k - 1]
                             IN  S \union UNION {Successors(prog, input, c) : c \in S}
    IN  R[Len(prog) * (Len(input) + 1)]

\* The meaning of a program: some thread comes to a Match.
Accepts(prog, input) ==
    \E c \in Reached(prog, input) : prog[c[1]].opcode = "Match"
=============================================================================
