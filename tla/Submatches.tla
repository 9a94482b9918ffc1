------------------------------ MODULE Submatches ------------------------------
(***************************************************************************)
(* pcredemo and re2demo print the submatches of a match out of an array of *)
(* offsets, which re2demo fills as pcre_exec does: msc_regexec_ex.  The    *)
(* offsets of submatch i are represented by i.                             *)
(***************************************************************************)
EXTENDS Integers, FiniteSetsExt

CONSTANTS
    Groups,   \* capturing groups of the pattern, at most
    Room      \* submatches that ovector holds: a third of its size

None == -1    \* what ovector holds for a submatch that is empty
Unset == -2   \* and where nothing has been written

VARIABLES
    lib,        \* "pcre" or "re2"
    captured,   \* submatches that took part in the match; 0 is all of it
    ovector, rc,
    printed,    \* what the last loop shows
    warned,     \* "ovector only has room for ..."
    at          \* "match", "print" or "done"

vars == <<lib, captured, ovector, rc, printed, warned, at>>

Slots == 0 .. Room - 1

Init ==
    /\ lib \in {"pcre", "re2"}
    /\ captured = {} /\ rc = 0
    /\ ovector = [i \in Slots |-> Unset]
    /\ printed = [i \in {} |-> 0]
    /\ warned = FALSE /\ at = "match"

NoMatch ==
    /\ at = "match"
    /\ at' = "done" /\ rc' = -1
    /\ UNCHANGED <<lib, captured, ovector, printed, warned>>

\* pcre_exec: 0 if there are more submatches than room.
PcreExec(C) ==
    /\ lib = "pcre"
    /\ ovector' = [i \in Slots |-> IF i > Max(C) THEN Unset ELSE IF i \in C THEN i ELSE None]
    /\ rc' = IF Max(C) < Room THEN Max(C) + 1 ELSE 0

\* Mutant: empty submatches are not written.
RegexecSkipping(C) ==
    /\ lib = "re2"
    /\ ovector' = [i \in Slots |-> IF i \in C THEN i ELSE Unset]
    /\ rc' = IF Max(C) < Room THEN Max(C) + 1
             ELSE IF Room - 1 \notin C THEN Max(C \intersect Slots) + 1 ELSE 0

\* The last submatch that is not empty decides how many are written; when they
\* do not all fit, empty ones at the end of ovector are not counted.
msc_regexec_ex(C) ==
    /\ lib = "re2"
    /\ ovector' = [i \in Slots |-> IF i > Max(C) THEN Unset ELSE IF i \in C THEN i ELSE None]
    /\ rc' = IF Max(C) < Room THEN Max(C) + 1
             ELSE IF Room - 1 \notin C THEN Max(C \intersect Slots) + 1 ELSE 0

Match ==
    /\ at = "match"
    /\ \E C \in SUBSET (0 .. Groups) :
        /\ 0 \in C
        /\ PcreExec(C) \/ msc_regexec_ex(C)
        /\ captured' = C
    /\ at' = "print"
    /\ UNCHANGED <<lib, printed, warned>>

PrintAll ==
    /\ at = "print"
    /\ warned' = (rc = 0)
    /\ printed' = [i \in 0 .. (IF rc = 0 THEN Room ELSE rc) - 1 |-> ovector[i]]
    /\ at' = "done"
    /\ UNCHANGED <<lib, captured, ovector, rc>>

Next == NoMatch \/ Match \/ PrintAll

-----------------------------------------------------------------------------
(* Properties.                                                             *)

TypeOK ==
    /\ lib \in {"pcre", "re2"} /\ captured \subseteq 0 .. Groups
    /\ ovector \in [Slots -> Slots \union {None, Unset}]
    /\ rc \in -1 .. Room /\ warned \in BOOLEAN
    /\ at \in {"match", "print", "done"}

\* What is printed was written, each submatch at its own number, and none that
\* ovector holds is left out, with either library (re2demo/main.cpp:52-69,
\* pcredemo.c:117-141).  Submatches are lost without a word only by re2demo,
\* and only if the last place of ovector is an empty one.
PrintedIsCaptured ==
    /\ TypeOK
    /\ \A i \in DOMAIN printed : printed[i] = IF i \in captured THEN i ELSE None
    /\ at = "done" => captured \intersect Slots \subseteq DOMAIN printed
    /\ at = "done" /\ ~warned /\ ~(captured \subseteq DOMAIN printed) =>
           lib = "re2" /\ Room - 1 \notin captured
    /\ warned => ~(captured \subseteq DOMAIN printed)
=============================================================================
