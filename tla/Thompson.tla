------------------------------- MODULE Thompson -------------------------------
(***************************************************************************)
(* Matching by Thompson's algorithm (thompsonvm in thompson.cpp): all      *)
(* threads advance together, one character at a time.  A step runs one     *)
(* thread, or goes to the next character.                                  *)
(***************************************************************************)
EXTENDS RegexProgram, SequencesExt

VARIABLES
    prog, input,
    clist, nlist,   \* threads (program counters) at this and the next character
    i,              \* index of the loop over clist
    sp,             \* string pointer
    result          \* "run", or the value returned

vars == <<prog, input, clist, nlist, i, sp, result>>

AddThread(list, t) == IF t \in ToSet(list) THEN list ELSE Append(list, t)

\* What a call begins with.
Start ==
    /\ clist = <<1>> /\ nlist = <<>>
    /\ i = 1 /\ sp = 1 /\ result = "run"

Init == prog \in Programs /\ input \in Inputs /\ Start

Thread == prog[clist[i]]
Running == result = "run" /\ sp <= Len(input) /\ i <= Len(clist)

\* Mutant: the thread stays at the character it has read.
CharToSameList ==
    /\ Running /\ Thread.opcode = "Char"
    /\ clist' = IF CharMatches(prog, input, <<clist[i], sp>>)
                THEN AddThread(clist, clist[i] + 1) ELSE clist
    /\ i' = i + 1
    /\ UNCHANGED <<prog, input, nlist, sp, result>>

CharThread ==
    /\ Running /\ Thread.opcode = "Char"
    /\ nlist' = IF CharMatches(prog, input, <<clist[i], sp>>)
                THEN AddThread(nlist, clist[i] + 1) ELSE nlist
    /\ i' = i + 1
    /\ UNCHANGED <<prog, input, clist, sp, result>>

MatchThread ==
    /\ Running /\ Thread.opcode = "Match"
    /\ result' = "1"
    /\ UNCHANGED <<prog, input, clist, nlist, i, sp>>

JmpThread ==
    /\ Running /\ Thread.opcode = "Jmp"
    /\ clist' = AddThread(clist, Thread.x)
    /\ i' = i + 1
    /\ UNCHANGED <<prog, input, nlist, sp, result>>

SplitThread ==
    /\ Running /\ Thread.opcode = "Split"
    /\ clist' = AddThread(AddThread(clist, Thread.x), Thread.y)
    /\ i' = i + 1
    /\ UNCHANGED <<prog, input, nlist, sp, result>>

\* All threads have run: swap the lists and go to the next character.
NextChar ==
    /\ result = "run" /\ sp <= Len(input) /\ i > Len(clist)
    /\ clist' = nlist /\ nlist' = <<>>
    /\ i' = 1 /\ sp' = sp + 1
    /\ UNCHANGED <<prog, input, result>>

\* The string is at its end.
NoMatch ==
    /\ result = "run" /\ sp > Len(input)
    /\ result' = "0"
    /\ UNCHANGED <<prog, input, clist, nlist, i, sp>>

Next == CharThread \/ MatchThread \/ JmpThread \/ SplitThread \/ NextChar \/ NoMatch

Spec == Init /\ [][Next]_vars

-----------------------------------------------------------------------------
(* Properties.                                                             *)

\* The lists hold program counters, each at most once: they are no longer
\* than the program.
TypeOK ==
    /\ WellFormed(prog)
    /\ clist \in Seq(DOMAIN prog) /\ nlist \in Seq(DOMAIN prog)
    /\ IsInjective(clist) /\ IsInjective(nlist)
    /\ i \in 1 .. Len(clist) + 1 /\ sp \in 1 .. Len(input) + 1
    /\ result \in {"run", "1", "0"}

\* When the threads of a character have all run, they are the configurations
\* the program can be in at that character, no more and no fewer.
ThreadsAreConfigurations ==
    result = "run" /\ sp <= Len(input) /\ i > Len(clist) =>
        ToSet(clist) = {pc \in DOMAIN prog : <<pc, sp>> \in Reached(prog, input)}

\* What thompsonvm answers: a Match is seen while a character is left to
\* read, and never at the end of the input (the loop of line 51 stops there).
VerdictBeforeEnd ==
    result # "run" =>
        (result = "1" <=> \E c \in Reached(prog, input) :
                            prog[c[1]].opcode = "Match" /\ c[2] <= Len(input))

\* main prints the answers of both engines for "regex pattern a?^n a^n"
\* (main.cpp:23): the pattern is matched by a^n.
AnswerIsMeaning == result # "run" => (result = "1" <=> Accepts(prog, input))
=============================================================================
