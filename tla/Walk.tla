-------------------------------- MODULE Walk --------------------------------
(***************************************************************************)
(* test_cache of mem-read-lat/main.c: an array in which each element holds *)
(* the address of an element is shuffled, and then the addresses are       *)
(* followed for iters reads.  The address of array[k] is k.                *)
(***************************************************************************)
EXTENDS Integers

CONSTANTS
    MaxSize,   \* bound on array_size; 0 when mem_size is below the size of a pointer
    MaxIters,  \* bound on iters
    Unroll,    \* reads of HUNDRED
    RandMax    \* RAND_MAX

WalkAssumption ==
    MaxSize \in Nat /\ MaxIters \in Nat /\ Unroll \in Nat \ {0} /\ RandMax \in Nat

VARIABLES
    size, array,
    i,          \* of the loop of shuffle
    iters,
    p,          \* the element p points to
    reads,      \* history: reads made through p
    at          \* "shuffle", "rounds", "rest", "last", "done" or "wild"

vars == <<size, array, i, iters, p, reads, at>>

Elements == 0 .. size - 1

Init ==
    /\ size \in 0 .. MaxSize /\ iters \in 0 .. MaxIters
    /\ array = [k \in Elements |-> k]
    /\ i = 0 /\ p = 0 /\ reads = 0
    /\ at = "shuffle"

\* Mutant: array[i] is overwritten before it has been saved.
SwapWithoutTmp(j) == array' = [array EXCEPT ![i] = array[j], ![j] = array[j]]

Swap(j) == array' = [array EXCEPT ![i] = array[j], ![j] = array[i]]

\* j = i + rand() % (n - i)
Shuffle ==
    /\ at = "shuffle" /\ i < size - 1
    /\ \E r \in 0 .. RandMax : Swap(i + (r % (size - i)))
    /\ i' = i + 1
    /\ UNCHANGED <<size, iters, p, reads, at>>

Shuffled ==
    /\ at = "shuffle" /\ i >= size - 1
    /\ at' = "rounds"
    /\ UNCHANGED <<size, array, i, iters, p, reads>>

\* ONE, in a round of HUNDRED, in what they leave of iters, and in the last use
\* of p; an array without elements is read outside.
Follow(next) ==
    /\ IF p \in Elements THEN p' = array[p] /\ at' = next ELSE p' = p /\ at' = "wild"
    /\ reads' = reads + 1
    /\ UNCHANGED <<size, array, i, iters>>

Rounds == iters \div Unroll

InRounds == at = "rounds" /\ reads < Rounds * Unroll /\ Follow("rounds")
InRest == at = "rest" /\ reads < Rounds * Unroll + (iters - Rounds * Unroll) /\ Follow("rest")
Last == at = "last" /\ Follow("done")

Advance ==
    /\ \/ at = "rounds" /\ reads >= Rounds * Unroll /\ at' = "rest"
       \/ at = "rest" /\ reads >= Rounds * Unroll + (iters - Rounds * Unroll) /\ at' = "last"
    /\ UNCHANGED <<size, array, i, iters, p, reads>>

Next == Shuffle \/ Shuffled \/ InRounds \/ InRest \/ Last \/ Advance
Spec == Init /\ [][Next]_vars

-----------------------------------------------------------------------------
(* Properties.                                                             *)

TypeOK ==
    /\ size \in Nat /\ iters \in Nat /\ i \in Nat /\ reads \in Nat
    /\ array \in [Elements -> Elements]
    /\ p \in Elements \union {0}
    /\ at \in {"shuffle", "rounds", "rest", "last", "done", "wild"}

\* Each element is the successor of one: the shuffle loses none, so that the
\* walk never comes to a dead end.
Permutation ==
    \A j, k \in Elements : array[j] = array[k] => j = k

\* "array[i] stores a random valid address" (main.c:63): following them stays
\* inside the array, if it has an element at all, and iters reads are made and
\* one more, whatever part of them the unrolled loop makes.
WalkIsInside ==
    /\ TypeOK /\ Permutation
    /\ at \in {"rounds", "rest"} => reads <= iters
    /\ at = "wild" => size = 0
    /\ at = "done" => reads = iters + 1
=============================================================================
