------------------------------ MODULE Backtrack ------------------------------
(***************************************************************************)
(* Matching by backtracking (backtracking.cpp).  backtrackingvm keeps the  *)
(* threads to try on an array of MAXTHREAD; recursiveloop keeps them on    *)
(* the call stack, whose frames hold the second branch of a Split.  A step *)
(* runs one instruction.                                                   *)
(***************************************************************************)
EXTENDS RegexProgram, FiniteSets

CONSTANT MaxThread   \* MAXTHREAD, or the frames the call stack holds

VARIABLES
    prog, input,
    ready,      \* threads to try later, the next one last
    at,         \* configuration <<pc, sp>> of the thread that runs
    result      \* "run", or the value returned: 1, 0, or -1 for no room

vars == <<prog, input, ready, at, result>>

Opcode == prog[at[1]].opcode

\* What a call begins with.
Start ==
    /\ ready = <<>> /\ at = <<1, 1>> /\ result = "run"

CharStep ==
    /\ result = "run" /\ CharMatches(prog, input, at)
    /\ at' = <<at[1] + 1, at[2] + 1>>
    /\ UNCHANGED <<prog, input, ready, result>>

\* Mutant: a thread that dies ends the search.
GiveUp ==
    /\ result = "run" /\ Opcode = "Char" /\ ~CharMatches(prog, input, at)
    /\ result' = "0"
    /\ UNCHANGED <<prog, input, ready, at>>

\* Mutant: the thread to run is read and not popped.
DeadKeepingTop ==
    /\ result = "run" /\ Opcode = "Char" /\ ~CharMatches(prog, input, at)
    /\ IF ready = <<>>
       THEN result' = "0" /\ UNCHANGED at
       ELSE at' = ready[Len(ready)] /\ UNCHANGED result
    /\ UNCHANGED <<prog, input, ready>>

\* The thread dies: take the next one, or there is no match.
Dead ==
    /\ result = "run" /\ Opcode = "Char" /\ ~CharMatches(prog, input, at)
    /\ IF ready = <<>>
       THEN result' = "0" /\ UNCHANGED <<ready, at>>
       ELSE /\ at' = ready[Len(ready)]
            /\ ready' = SubSeq(ready, 1, Len(ready) - 1)
            /\ UNCHANGED result
    /\ UNCHANGED <<prog, input>>

MatchStep ==
    /\ result = "run" /\ Opcode = "Match"
    /\ result' = "1"
    /\ UNCHANGED <<prog, input, ready, at>>

JmpStep ==
    /\ result = "run" /\ Opcode = "Jmp"
    /\ at' = <<prog[at[1]].x, at[2]>>
    /\ UNCHANGED <<prog, input, ready, result>>

\* Go on with x and keep y for later, when there is room.
SplitStep ==
    /\ result = "run" /\ Opcode = "Split"
    /\ IF Len(ready) >= MaxThread
       THEN result' = "-1" /\ UNCHANGED <<ready, at>>
       ELSE /\ ready' = Append(ready, <<prog[at[1]].y, at[2]>>)
            /\ at' = <<prog[at[1]].x, at[2]>>
            /\ UNCHANGED result
    /\ UNCHANGED <<prog, input>>

Next == CharStep \/ Dead \/ MatchStep \/ JmpStep \/ SplitStep

-----------------------------------------------------------------------------
\* recursive(): its value for a program without loops.
Recursive(p, s) ==
    LET M[c \in Configs(p, s)] ==
          CASE p[c[1]].opcode = "Char" -> CharMatches(p, s, c) /\ M[<<c[1] + 1, c[2] + 1>>]
            [] p[c[1]].opcode = "Match" -> TRUE
            [] p[c[1]].opcode = "Jmp" -> M[<<p[c[1]].x, c[2]>>]
            [] p[c[1]].opcode = "Split" -> M[<<p[c[1]].x, c[2]>>] \/ M[<<p[c[1]].y, c[2]>>]
    IN  M[<<1, 1>>]

-----------------------------------------------------------------------------
(* Properties.                                                             *)

\* The array ready[] is never overrun, and neither is the input: a thread is
\* at most at the terminating zero.
TypeOK ==
    /\ WellFormed(prog)
    /\ at \in Configs(prog, input)
    /\ ready \in Seq(Configs(prog, input)) /\ Len(ready) <= MaxThread
    /\ result \in {"run", "1", "0", "-1"}

\* No thread is forgotten: what the program accepts can still be found from
\* the running thread or from one that waits, until the answer is given.
\* recursive, recursiveloop and backtrackingvm give the same answer on programs
\* without loops, for which the array is full ("-1") only when they have more
\* than MAXTHREAD Splits: of each one at most one branch waits at a time.
VerdictCorrect ==
    /\ result = "1" => Accepts(prog, input)
    /\ result = "0" => ~Accepts(prog, input)
    /\ Forward(prog) =>
        /\ result \in {"0", "1"} => (result = "1" <=> Recursive(prog, input))
        /\ result = "-1" =>
               Cardinality({k \in DOMAIN prog : prog[k].opcode = "Split"}) > MaxThread
=============================================================================
