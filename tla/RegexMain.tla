------------------------------ MODULE RegexMain ------------------------------
(***************************************************************************)
(* main of regex-vm: one program and one string, matched by Thompson's     *)
(* algorithm first and by backtracking then (main.cpp:44-56).              *)
(***************************************************************************)
EXTENDS RegexProgram

CONSTANT MaxThread
ASSUME MaxThreadAssumption == MaxThread \in Nat \ {0}

VARIABLES
    prog, input,
    clist, nlist, i, sp, thompson,   \* thompsonvm, and its answer
    ready, at, backtracking          \* recursiveloop or backtrackingvm, and its answer

thompsonvm == <<clist, nlist, i, sp, thompson>>
backtrackingvm == <<ready, at, backtracking>>
vars == <<prog, input, thompsonvm, backtrackingvm>>

T == INSTANCE Thompson WITH result <- thompson
B == INSTANCE Backtrack WITH result <- backtracking

Init == prog \in Programs /\ input \in Inputs /\ T!Start /\ B!Start
Next == \/ T!Next /\ UNCHANGED backtrackingvm
        \/ thompson # "run" /\ B!Next /\ UNCHANGED thompsonvm

Spec == Init /\ [][Next]_vars

\* The one thread of the program runs.
FairSpec == Spec /\ WF_vars(Next)

-----------------------------------------------------------------------------
(* Properties, stated in the modules of the engines.                       *)

\* Thompson's threads are what the program can be at, and its lists hold each
\* program counter once (thompson.cpp:54-72).
ThreadsAreConfigurations == T!TypeOK /\ T!ThreadsAreConfigurations

\* Backtracking answers what the program means, without overrunning ready[]
\* (backtracking.cpp:90-133); Thompson sees the matches that end before the
\* string does (thompson.cpp:51).
VerdictsCorrect == B!TypeOK /\ B!VerdictCorrect /\ T!VerdictBeforeEnd

\* Thompson always comes to an answer, for programs with loops too as it never
\* adds a thread twice (thompson.cpp:51-83); backtracking does for a program
\* without loops.
Decides == <>(thompson # "run") /\ (Forward(prog) => <>(backtracking # "run"))
=============================================================================
