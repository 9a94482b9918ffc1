------------------------------- MODULE Search -------------------------------
(***************************************************************************)
(* binary_search of binary-search-prefetch/main.c, on any sorted array,    *)
(* with the prefetches that DO_PREFETCH turns on.  A step is one iteration *)
(* of the loop.                                                            *)
(***************************************************************************)
EXTENDS Integers

CONSTANTS
    Values,   \* what an element may be
    MaxLen    \* bound on len, which an int holds

SearchAssumption == Values \subseteq Int /\ MaxLen \in Nat

VARIABLES
    len, array, target,   \* the arguments
    start, end,
    result,               \* what is returned, once pc is "done"
    prefetched,           \* elements the last iteration asked the cache for
    pc                    \* "first" iteration, "loop" or "done"

vars == <<len, array, target, start, end, result, prefetched, pc>>

Sorted(a, n) == \A i, j \in 0 .. n - 1 : i <= j => a[i] <= a[j]

Init ==
    /\ len \in 0 .. MaxLen
    /\ array \in [0 .. len - 1 -> Values] /\ Sorted(array, len)
    /\ target \in Values
    /\ start = 0 /\ end = len - 1
    /\ result = 0 /\ prefetched = {} /\ pc = "first"

\* Half of n as C divides: toward zero.
Half(n) == IF n >= 0 THEN n \div 2 ELSE -((-n) \div 2)

mid == start + Half(end - start)

\* Mutant: the upper half begins at mid.
SearchFromMid ==
    /\ array[mid] < target
    /\ start' = mid
    /\ UNCHANGED <<end, result>>
    /\ pc' = "loop"

Found ==
    /\ array[mid] = target
    /\ result' = mid
    /\ UNCHANGED <<start, end>>
    /\ pc' = "done"

SearchAbove ==
    /\ array[mid] < target
    /\ start' = mid + 1
    /\ UNCHANGED <<end, result>>
    /\ pc' = "loop"

\* Mutant: end is taken for the first element that is left out.
SearchBelowOpen ==
    /\ array[mid] > target
    /\ end' = mid - 2
    /\ UNCHANGED <<start, result>>
    /\ pc' = "loop"

SearchBelow ==
    /\ array[mid] > target
    /\ end' = mid - 1
    /\ UNCHANGED <<start, result>>
    /\ pc' = "loop"

Iterate ==
    /\ pc \in {"first", "loop"} /\ start <= end
    /\ prefetched' = {mid + 1 + Half(end - mid - 1), start + Half(mid - start - 1)}
    /\ Found \/ SearchAbove \/ SearchBelow
    /\ UNCHANGED <<len, array, target>>

Absent ==
    /\ pc \in {"first", "loop"} /\ start > end
    /\ result' = -1
    /\ pc' = "done"
    /\ UNCHANGED <<len, array, target, start, end, prefetched>>

Next == Iterate \/ Absent
Spec == Init /\ [][Next]_vars

-----------------------------------------------------------------------------
(* Properties.                                                             *)

TypeOK ==
    /\ len \in Nat /\ array \in [0 .. len - 1 -> Int] /\ target \in Int
    /\ start \in 0 .. len /\ end \in -1 .. len - 1
    /\ result \in -1 .. len
    /\ prefetched \in SUBSET (0 .. len)   \* one past the end may be named
    /\ pc \in {"first", "loop", "done"}

\* What the loop has left out does not hold the target.
NotLeftOut ==
    \A i \in 0 .. len - 1 : array[i] = target => start <= i /\ i <= end

\* binary_search returns a place of the target, or -1 only if it has none
\* (main.c:5-31), and no index leaves the array on the way.
SearchCorrect ==
    pc = "done" =>
        \/ result \in 0 .. len - 1 /\ array[result] = target
        \/ result = -1 /\ \A i \in 0 .. len - 1 : array[i] # target

\* The element an iteration looks at was asked for in the one before: the two
\* prefetches (main.c:14-16) foretell both values mid may have next.
NextIsPrefetched == pc = "loop" /\ start <= end => mid \in prefetched

\* An iteration leaves at most half of the range, so that 32 are enough for
\* any len that an int holds.
Halves == [][pc' = "loop" => 2 * (end' - start' + 1) <= end - start + 1]_vars
=============================================================================
