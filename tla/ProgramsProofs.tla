---------------------------- MODULE ProgramsProofs ----------------------------
(***************************************************************************)
(* What the small programs guarantee, for inputs of any size: one          *)
(* inductive invariant per program, and Programs runs one of them.         *)
(***************************************************************************)
EXTENDS Programs, Sequences, TLAPS, SequenceTheorems, FiniteSetTheorems, WellFoundedInduction

-----------------------------------------------------------------------------
(* binary-search-prefetch.                                                 *)

\* The inductive invariant: types, the sorted argument, and the loop invariant.
SearchInv ==
    /\ search!TypeOK /\ search!Sorted(array, len)
    /\ search!NotLeftOut /\ search!SearchCorrect /\ search!NextIsPrefetched

\* C's division by two of the two numbers the loop divides.
LEMMA HalfBounds ==
    ASSUME NEW n \in Int
    PROVE  /\ search!Half(n) \in Int
           /\ n >= 0 => 2 * search!Half(n) <= n /\ n <= 2 * search!Half(n) + 1
           /\ n = -1 => search!Half(n) = 0
  BY SMT DEF search!Half

\* search!mid stays between start and end.
LEMMA MidInside ==
    ASSUME search!TypeOK, start <= end
    PROVE  /\ search!mid \in start .. end /\ search!mid \in 0 .. len - 1
           /\ 2 * (search!mid - start) \in end - start - 1 .. end - start
<1>1. start \in Int /\ end \in Int /\ len \in Nat /\ end - start \in Int /\ end - start >= 0
  BY DEF search!TypeOK
<1>2. /\ search!Half(end - start) \in Int
      /\ 2 * search!Half(end - start) <= end - start
      /\ end - start <= 2 * search!Half(end - start) + 1
  BY <1>1, HalfBounds
<1> DEFINE half == search!Half(end - start)
<1>3. /\ start + half \in start .. end
      /\ 2 * half \in end - start - 1 .. end - start
  <2> HIDE DEF half
  <2>1. half \in Int /\ 2 * half <= end - start /\ end - start <= 2 * half + 1
    BY <1>2 DEF half
  <2> QED
    BY <1>1, <2>1
<1>4. start >= 0 /\ end <= len - 1
  BY DEF search!TypeOK
<1>5. search!mid = start + half
  BY DEF search!mid
<1> HIDE DEF half
<1>6. half \in Int
  BY <1>2 DEF half
<1>7. search!mid \in 0 .. len - 1
  BY <1>1, <1>3, <1>4, <1>5, <1>6
<1>8. search!mid - start = half
  BY <1>1, <1>5, <1>6
<1> QED
  BY <1>3, <1>5, <1>7, <1>8

LEMMA SearchInit == ASSUME search!SearchAssumption, search!Init PROVE SearchInv
<1>1. len \in Nat /\ array \in [0 .. len - 1 -> Int] /\ target \in Int
  <2>1. len \in Nat /\ target \in Int
    BY DEF search!SearchAssumption, search!Init
  <2>2. \A i \in 0 .. len - 1 : array[i] \in Int
    BY DEF search!SearchAssumption, search!Init
  <2> QED
    BY <2>1, <2>2 DEF search!Init
<1>2. search!TypeOK
  BY <1>1 DEF search!Init, search!TypeOK
<1>3. search!NotLeftOut
  BY <1>1 DEF search!Init, search!NotLeftOut
<1> QED
  BY <1>2, <1>3 DEF search!Init, SearchInv, search!SearchCorrect, search!NextIsPrefetched

\* The two prefetches are the two places that search!mid may have next.
LEMMA PrefetchHolds ==
    ASSUME SearchInv, search!Iterate
    PROVE  prefetched' \in SUBSET (0 .. len) /\ search!NextIsPrefetched'
<1> DEFINE above == search!mid + 1 + search!Half(end - search!mid - 1)
           below == start + search!Half(search!mid - start - 1)
<1>1. /\ search!TypeOK /\ start <= end /\ prefetched' = {above, below}
      /\ search!mid \in start .. end /\ search!mid \in 0 .. len - 1
      /\ len \in Nat /\ start \in Int /\ end \in Int /\ search!mid \in Int
      /\ end <= len - 1 /\ 0 <= start
  BY MidInside DEF SearchInv, search!Iterate, search!TypeOK
<1>2. ASSUME NEW n \in Int, n >= -1
      PROVE  /\ search!Half(n) \in Int
             /\ n >= 0 => 0 <= search!Half(n) /\ search!Half(n) <= n
             /\ n = -1 => search!Half(n) = 0
  BY <1>2, HalfBounds
<1>3. /\ end - search!mid - 1 \in Int /\ end - search!mid - 1 >= -1
      /\ search!mid - start - 1 \in Int /\ search!mid - start - 1 >= -1
  BY <1>1
<1>4. above \in 0 .. len /\ below \in 0 .. len
  BY <1>1, <1>2, <1>3
<1>5. ASSUME pc' = "loop" PROVE search!mid' \in prefetched'
  <2>1. CASE search!SearchAbove
    <3>1. start' = search!mid + 1 /\ end' = end
      BY <2>1 DEF search!SearchAbove
    <3>2. end - (search!mid + 1) = end - search!mid - 1
      BY <1>1
    <3> QED
      BY <1>1, <3>1, <3>2 DEF search!mid
  <2>2. CASE search!SearchBelow
    <3>1. end' = search!mid - 1 /\ start' = start
      BY <2>2 DEF search!SearchBelow
    <3>2. (search!mid - 1) - start = search!mid - start - 1
      BY <1>1
    <3> QED
      BY <1>1, <3>1, <3>2 DEF search!mid
  <2> QED
    BY <1>5, <2>1, <2>2 DEF search!Iterate, search!Found
<1> QED
  BY <1>1, <1>4, <1>5 DEF search!NextIsPrefetched

LEMMA SearchStep ==
    ASSUME SearchInv, [search!Next]_search_vars
    PROVE  SearchInv'
<1>1. CASE search!Iterate
  <2>1. /\ search!TypeOK /\ search!Sorted(array, len) /\ search!NotLeftOut
        /\ start <= end /\ pc \in {"first", "loop"}
        /\ len' = len /\ array' = array /\ target' = target
        /\ search!mid \in start .. end /\ search!mid \in 0 .. len - 1
    BY <1>1, MidInside DEF SearchInv, search!Iterate
  <2>2. prefetched' \in SUBSET (0 .. len) /\ search!NextIsPrefetched'
    BY <1>1, PrefetchHolds
  <2>3. /\ len \in Nat /\ start \in 0 .. len /\ end \in -1 .. len - 1 /\ target \in Int
        /\ array \in [0 .. len - 1 -> Int] /\ result \in -1 .. len
    BY <2>1 DEF search!TypeOK
  <2>4. CASE search!Found
    BY <2>1, <2>2, <2>3, <2>4 DEF search!Found, SearchInv, search!TypeOK, search!Sorted,
                                  search!NotLeftOut, search!SearchCorrect
  <2>5. CASE search!SearchAbove
    <3>1. /\ start' = search!mid + 1 /\ end' = end /\ result' = result /\ pc' = "loop"
          /\ array[search!mid] < target
      BY <2>5 DEF search!SearchAbove
    <3>2. ASSUME NEW i \in 0 .. len - 1, array[i] = target PROVE search!mid + 1 <= i /\ i <= end
      <4>1. i <= search!mid => array[i] <= array[search!mid]
        BY <2>1, <3>2 DEF search!Sorted
      <4>2. array[search!mid] \in Int /\ array[i] \in Int /\ search!mid \in Int /\ i \in Int
        BY <2>1, <2>3, <3>2
      <4>3. ~(i <= search!mid)
        BY <3>1, <3>2, <4>1, <4>2, <2>3
      <4> QED
        BY <2>1, <3>2, <4>2, <4>3 DEF search!NotLeftOut
    <3>3. search!NotLeftOut'
      BY <2>1, <3>1, <3>2 DEF search!NotLeftOut
    <3>4. search!TypeOK'
      BY <2>1, <2>2, <2>3, <3>1 DEF search!TypeOK
    <3> QED
      BY <2>1, <2>2, <3>1, <3>3, <3>4 DEF SearchInv, search!Sorted, search!SearchCorrect
  <2>6. CASE search!SearchBelow
    <3>1. /\ end' = search!mid - 1 /\ start' = start /\ result' = result /\ pc' = "loop"
          /\ array[search!mid] > target
      BY <2>6 DEF search!SearchBelow
    <3>2. ASSUME NEW i \in 0 .. len - 1, array[i] = target PROVE start <= i /\ i <= search!mid - 1
      <4>1. search!mid <= i => array[search!mid] <= array[i]
        BY <2>1, <3>2 DEF search!Sorted
      <4>2. array[search!mid] \in Int /\ array[i] \in Int /\ search!mid \in Int /\ i \in Int
        BY <2>1, <2>3, <3>2
      <4>3. ~(search!mid <= i)
        BY <3>1, <3>2, <4>1, <4>2, <2>3
      <4> QED
        BY <2>1, <3>2, <4>2, <4>3 DEF search!NotLeftOut
    <3>3. search!NotLeftOut'
      BY <2>1, <3>1, <3>2 DEF search!NotLeftOut
    <3>4. search!TypeOK'
      BY <2>1, <2>2, <2>3, <3>1 DEF search!TypeOK
    <3> QED
      BY <2>1, <2>2, <3>1, <3>3, <3>4 DEF SearchInv, search!Sorted, search!SearchCorrect
  <2> QED
    BY <1>1, <2>4, <2>5, <2>6 DEF search!Iterate
<1>2. CASE search!Absent
  <2>1. \A i \in 0 .. len - 1 : array[i] # target
    BY <1>2 DEF search!Absent, SearchInv, search!NotLeftOut, search!TypeOK
  <2> QED
    BY <1>2, <2>1 DEF search!Absent, SearchInv, search!TypeOK, search!Sorted, search!NotLeftOut,
                      search!SearchCorrect, search!NextIsPrefetched
<1>3. CASE UNCHANGED search_vars
  BY <1>3 DEF search_vars, SearchInv, search!TypeOK, search!Sorted, search!NotLeftOut,
              search!SearchCorrect, search!NextIsPrefetched, search!mid
<1> QED
  BY <1>1, <1>2, <1>3 DEF search!Next


-----------------------------------------------------------------------------
(* mem-read-lat.                                                           *)

\* What of iters has been read, by the part of the program.
ReadsCounted ==
    /\ walking = "shuffle" => reads = 0
    /\ walking = "rounds" => reads <= walk!Rounds * Unroll
    /\ walking = "rest" => reads <= iters
    /\ walking = "last" => reads = iters
    /\ walking = "done" => reads = iters + 1

WalkInv ==
    /\ walk!TypeOK /\ walk!Permutation /\ ReadsCounted
    /\ walking = "wild" => size = 0

LEMMA RoundsFit ==
    ASSUME walk!WalkAssumption, iters \in Nat
    PROVE  walk!Rounds * Unroll \in Nat /\ walk!Rounds * Unroll <= iters
<1>1. /\ walk!Rounds \in Nat /\ iters % Unroll \in Nat
      /\ iters = Unroll * walk!Rounds + (iters % Unroll)
  BY SMT DEF walk!WalkAssumption, walk!Rounds
<1> QED
  BY <1>1, SMT DEF walk!WalkAssumption

LEMMA WalkInit == ASSUME walk!WalkAssumption, walk!Init PROVE WalkInv
  BY DEF walk!WalkAssumption, walk!Init, WalkInv, walk!TypeOK, walk!Permutation, ReadsCounted,
         walk!Elements

\* An exchange of two elements keeps the cells a permutation.
LEMMA SwapPermutes ==
    ASSUME walk!TypeOK, walk!Permutation, swapped \in walk!Elements, size' = size,
           NEW j \in walk!Elements, walk!Swap(j)
    PROVE  cells' \in [walk!Elements' -> walk!Elements'] /\ walk!Permutation'
<1>1. /\ walk!Elements' = walk!Elements /\ cells \in [walk!Elements -> walk!Elements]
      /\ cells' = [cells EXCEPT ![swapped] = cells[j], ![j] = cells[swapped]]
  BY DEF walk!Elements, walk!TypeOK, walk!Swap
<1>2. cells' \in [walk!Elements -> walk!Elements]
  BY <1>1
<1>3. \A k \in walk!Elements :
          cells'[k] = IF k = j THEN cells[swapped] ELSE IF k = swapped THEN cells[j] ELSE cells[k]
  BY <1>1
<1>4. \A k, m \in walk!Elements : cells'[k] = cells'[m] => k = m
  BY <1>3 DEF walk!Permutation
<1> QED
  BY <1>1, <1>2, <1>4 DEF walk!Permutation

\* A read through cursor.
LEMMA FollowHolds ==
    ASSUME WalkInv, NEW goal, walk!Follow(goal), goal \in {"rounds", "rest", "last", "done"}
    PROVE  /\ walk!TypeOK' /\ walk!Permutation' /\ (walking' = "wild" => size' = 0)
           /\ reads' = reads + 1 /\ iters' = iters /\ walking' \in {goal, "wild"}
<1>1. /\ size' = size /\ cells' = cells /\ iters' = iters /\ swapped' = swapped
      /\ reads' = reads + 1 /\ walk!Elements' = walk!Elements
  BY DEF walk!Follow, walk!Elements
<1>2. walk!Permutation'
  BY <1>1 DEF WalkInv, walk!Permutation
<1>3. CASE cursor \in walk!Elements
  BY <1>1, <1>2, <1>3 DEF WalkInv, walk!TypeOK, walk!Follow
<1>4. CASE cursor \notin walk!Elements
  <2>1. cursor = 0 /\ size = 0
    BY <1>4 DEF WalkInv, walk!TypeOK, walk!Elements
  <2> QED
    BY <1>1, <1>2, <1>4, <2>1 DEF WalkInv, walk!TypeOK, walk!Follow
<1> QED
  BY <1>3, <1>4

LEMMA WalkStep ==
    ASSUME walk!WalkAssumption, WalkInv, [walk!Next]_walk_vars
    PROVE  WalkInv'
<1>0. /\ walk!Rounds * Unroll \in Nat /\ walk!Rounds * Unroll <= iters
      /\ iters \in Nat /\ reads \in Nat
  BY RoundsFit DEF WalkInv, walk!TypeOK
<1>1. CASE walk!Shuffle
  <2>1. /\ walking = "shuffle" /\ swapped < size - 1 /\ size \in Nat /\ swapped \in Nat
        /\ size' = size /\ iters' = iters /\ cursor' = cursor /\ reads' = reads
        /\ walking' = walking /\ swapped' = swapped + 1
    BY <1>1 DEF walk!Shuffle, WalkInv, walk!TypeOK
  <2>2. PICK r \in 0 .. RandMax : walk!Swap(swapped + (r % (size - swapped)))
    BY <1>1 DEF walk!Shuffle
  <2>3. swapped \in walk!Elements /\ swapped + (r % (size - swapped)) \in walk!Elements
    <3>1. size - swapped \in Nat \ {0} /\ r \in Nat
      BY <2>1 DEF walk!WalkAssumption
    <3>2. r % (size - swapped) \in 0 .. size - swapped - 1
      BY <3>1, SMT
    <3> QED
      BY <2>1, <3>2 DEF walk!Elements
  <2>4. cells' \in [walk!Elements' -> walk!Elements'] /\ walk!Permutation'
    BY <2>1, <2>2, <2>3, SwapPermutes DEF WalkInv
  <2>5. walk!Elements' = walk!Elements
    BY <2>1 DEF walk!Elements
  <2> QED
    BY <2>1, <2>4, <2>5 DEF WalkInv, walk!TypeOK, ReadsCounted
<1>2. CASE walk!Shuffled
  <2>1. walk!Elements' = walk!Elements
    BY <1>2 DEF walk!Shuffled, walk!Elements
  <2>2. (walk!Rounds * Unroll)' = walk!Rounds * Unroll
    BY <1>2 DEF walk!Shuffled, walk!Rounds
  <2> QED
    BY <1>0, <1>2, <2>1, <2>2 DEF walk!Shuffled, WalkInv, walk!TypeOK, walk!Permutation,
                                  ReadsCounted
<1>3. CASE walk!InRounds
  <2>1. /\ walk!TypeOK' /\ walk!Permutation' /\ (walking' = "wild" => size' = 0)
        /\ reads' = reads + 1 /\ iters' = iters
        /\ walking' \in {"rounds", "wild"}
    BY <1>3, FollowHolds DEF walk!InRounds
  <2>2. (walk!Rounds * Unroll)' = walk!Rounds * Unroll
    BY <2>1 DEF walk!Rounds
  <2> QED
    BY <1>0, <1>3, <2>1, <2>2 DEF walk!InRounds, WalkInv, ReadsCounted
<1>4. CASE walk!InRest
  <2>1. /\ walk!TypeOK' /\ walk!Permutation' /\ (walking' = "wild" => size' = 0)
        /\ reads' = reads + 1 /\ iters' = iters
        /\ walking' \in {"rest", "wild"}
    BY <1>4, FollowHolds DEF walk!InRest
  <2> QED
    BY <1>0, <1>4, <2>1 DEF walk!InRest, WalkInv, ReadsCounted
<1>5. CASE walk!Last
  <2>1. /\ walk!TypeOK' /\ walk!Permutation' /\ (walking' = "wild" => size' = 0)
        /\ reads' = reads + 1 /\ iters' = iters
        /\ walking' \in {"done", "wild"}
    BY <1>5, FollowHolds DEF walk!Last
  <2> QED
    BY <1>0, <1>5, <2>1 DEF walk!Last, WalkInv, ReadsCounted
<1>6. CASE walk!Advance
  <2>1. walk!Elements' = walk!Elements
    BY <1>6 DEF walk!Advance, walk!Elements
  <2> QED
    BY <1>0, <1>6, <2>1 DEF walk!Advance, WalkInv, walk!TypeOK, walk!Permutation, ReadsCounted
<1>7. CASE UNCHANGED walk_vars
  <2>1. walk!Elements' = walk!Elements /\ walk!Rounds' = walk!Rounds
    BY <1>7 DEF walk_vars, walk!Elements, walk!Rounds
  <2> QED
    BY <1>7, <2>1 DEF walk_vars, WalkInv, walk!TypeOK, walk!Permutation, ReadsCounted
<1> QED
  BY <1>1, <1>2, <1>3, <1>4, <1>5, <1>6, <1>7 DEF walk!Next

LEMMA WalkInvImplies ==
    ASSUME walk!WalkAssumption, WalkInv
    PROVE  walk!WalkIsInside
<1>1. /\ walk!Rounds * Unroll \in Nat /\ walk!Rounds * Unroll <= iters
      /\ iters \in Nat /\ reads \in Nat
  BY RoundsFit DEF WalkInv, walk!TypeOK
<1> QED
  BY <1>1 DEF WalkInv, walk!WalkIsInside, ReadsCounted

-----------------------------------------------------------------------------
(* The programs of Cleanup.                                                *)

Listed(s, r) == \E i \in 1 .. Len(s) : s[i] = r
Unique(s) == \A i, j \in 1 .. Len(s) : s[i] = s[j] => i = j

\* Whether a resource was got, was needed, and may be NULL before call n.
GotBefore(p, n, r) == \E k \in 1 .. n - 1 : p.calls[k].get = r
NeededBefore(p, n, r) == \E k \in 1 .. n - 1 : r \in p.calls[k].needs
NullBefore(p, n, r) == \E k \in 1 .. n - 1 : p.calls[k].get = r /\ p.calls[k].null = TRUE

\* Of call n: it needs what is there, a NULL only if it checks for it or another
\* has, and its way out releases what is there, and the error if it is one.
CallCleans(p, n) ==
    LET c == p.calls[n] IN
    /\ c.get \in cleanup!Resources \union {"none"} /\ (c.get # "none" => ~GotBefore(p, n, c.get))
    /\ \A r \in c.needs : r \in cleanup!Resources /\ GotBefore(p, n, r)
    /\ c.fails # "null" => \A r \in c.needs : NullBefore(p, n, r) => NeededBefore(p, n, r)
    /\ c.fails # "never" =>
          /\ c.err \in cleanup!Resources \union {"none"}
          /\ (c.err # "none" => ~GotBefore(p, n, c.err))
          /\ c.undo \in Seq(cleanup!Resources) /\ Unique(c.undo)
          /\ \A r \in cleanup!Resources : Listed(c.undo, r) <=> GotBefore(p, n, r) \/ r = c.err

Cleans(p) ==
    /\ Len(p.calls) \in Nat \ {0} /\ DOMAIN p.calls = 1 .. Len(p.calls)
    /\ \A n \in 1 .. Len(p.calls) : CallCleans(p, n)
    /\ p.last \in Seq(cleanup!Resources) /\ Unique(p.last)
    /\ \A r \in cleanup!Resources : Listed(p.last, r) <=> GotBefore(p, Len(p.calls) + 1, r)

LEMMA PcreCleans == Cleans(cleanup!pcredemo)
<1> DEFINE p == cleanup!pcredemo
<1>1. /\ p.calls[1].get = "re" /\ p.calls[1].null = FALSE /\ p.calls[1].needs = {}
      /\ p.calls[1].fails = "may" /\ p.calls[1].err = "none" /\ p.calls[1].undo = <<>>
  BY DEF cleanup!pcredemo, cleanup!Call
<1>2. /\ p.calls[2].get = "sd" /\ p.calls[2].null = TRUE /\ p.calls[2].needs = {"re"}
      /\ p.calls[2].fails = "may" /\ p.calls[2].err = "none" /\ p.calls[2].undo = <<"re">>
  BY DEF cleanup!pcredemo, cleanup!Call
<1>3. /\ p.calls[3].get = "none" /\ p.calls[3].null = FALSE /\ p.calls[3].needs = {"re"}
      /\ p.calls[3].fails = "may" /\ p.calls[3].err = "none" /\ p.calls[3].undo = <<"re", "sd">>
  BY DEF cleanup!pcredemo, cleanup!Call
<1>4. Len(p.calls) = 3 /\ DOMAIN p.calls = 1 .. 3 /\ p.last = <<"re", "sd">>
  BY DEF cleanup!pcredemo, cleanup!Call
<1> HIDE DEF p
<1>5. CallCleans(p, 1)
  BY <1>1
     DEF CallCleans, GotBefore, NeededBefore, NullBefore, Listed, Unique, cleanup!Resources
<1>6. CallCleans(p, 2)
  BY <1>1, <1>2
     DEF CallCleans, GotBefore, NeededBefore, NullBefore, Listed, Unique, cleanup!Resources
<1>7. CallCleans(p, 3)
  BY <1>1, <1>2, <1>3
     DEF CallCleans, GotBefore, NeededBefore, NullBefore, Listed, Unique, cleanup!Resources
<1>8. \A n \in 1 .. 3 : CallCleans(p, n)
  BY <1>5, <1>6, <1>7
<1>9. Cleans(p)
  BY <1>1, <1>2, <1>3, <1>4, <1>8 DEF Cleans, GotBefore, Listed, Unique, cleanup!Resources
<1> QED
  BY <1>9 DEF p

LEMMA HyperscanCleans == Cleans(cleanup!hyperscan)
<1> DEFINE p == cleanup!hyperscan
<1>1. /\ p.calls[1].get = "database" /\ p.calls[1].null = FALSE /\ p.calls[1].needs = {}
      /\ p.calls[1].fails = "may" /\ p.calls[1].err = "compile_err"
      /\ p.calls[1].undo = <<"compile_err">>
  BY DEF cleanup!hyperscan, cleanup!Call
<1>2. /\ p.calls[2].get = "scratch" /\ p.calls[2].null = FALSE /\ p.calls[2].needs = {"database"}
      /\ p.calls[2].fails = "may" /\ p.calls[2].err = "none" /\ p.calls[2].undo = <<"database">>
  BY DEF cleanup!hyperscan, cleanup!Call
<1>3. /\ p.calls[3].get = "none" /\ p.calls[3].null = FALSE
      /\ p.calls[3].needs = {"database", "scratch"}
      /\ p.calls[3].fails = "may" /\ p.calls[3].err = "none"
      /\ p.calls[3].undo = <<"scratch", "database">>
  BY DEF cleanup!hyperscan, cleanup!Call
<1>4. Len(p.calls) = 3 /\ DOMAIN p.calls = 1 .. 3 /\ p.last = <<"scratch", "database">>
  BY DEF cleanup!hyperscan, cleanup!Call
<1> HIDE DEF p
<1>5. CallCleans(p, 1)
  BY <1>1
     DEF CallCleans, GotBefore, NeededBefore, NullBefore, Listed, Unique, cleanup!Resources
<1>6. CallCleans(p, 2)
  BY <1>1, <1>2
     DEF CallCleans, GotBefore, NeededBefore, NullBefore, Listed, Unique, cleanup!Resources
<1>7. CallCleans(p, 3)
  BY <1>1, <1>2, <1>3
     DEF CallCleans, GotBefore, NeededBefore, NullBefore, Listed, Unique, cleanup!Resources
<1>8. \A n \in 1 .. 3 : CallCleans(p, n)
  BY <1>5, <1>6, <1>7
<1>9. Cleans(p)
  BY <1>1, <1>2, <1>3, <1>4, <1>8 DEF Cleans, GotBefore, Listed, Unique, cleanup!Resources
<1> QED
  BY <1>9 DEF p

LEMMA JitCleans == Cleans(cleanup!jit)
<1> DEFINE p == cleanup!jit
<1>1. /\ p.calls[1].get = "m" /\ p.calls[1].null = FALSE /\ p.calls[1].needs = {}
      /\ p.calls[1].fails = "may" /\ p.calls[1].err = "none" /\ p.calls[1].undo = <<>>
  BY DEF cleanup!jit, cleanup!Call, cleanup!Use
<1>2. /\ p.calls[2].get = "none" /\ p.calls[2].null = FALSE /\ p.calls[2].needs = {"m"}
      /\ p.calls[2].fails = "never" /\ p.calls[2].err = "none" /\ p.calls[2].undo = <<>>
  BY DEF cleanup!jit, cleanup!Call, cleanup!Use
<1>3. /\ p.calls[3].get = "none" /\ p.calls[3].null = FALSE /\ p.calls[3].needs = {"m"}
      /\ p.calls[3].fails = "may" /\ p.calls[3].err = "none" /\ p.calls[3].undo = <<"m">>
  BY DEF cleanup!jit, cleanup!Call, cleanup!Use
<1>4. /\ p.calls[4].get = "none" /\ p.calls[4].null = FALSE /\ p.calls[4].needs = {"m"}
      /\ p.calls[4].fails = "never" /\ p.calls[4].err = "none" /\ p.calls[4].undo = <<>>
  BY DEF cleanup!jit, cleanup!Call, cleanup!Use
<1>5. Len(p.calls) = 4 /\ DOMAIN p.calls = 1 .. 4 /\ p.last = <<"m">>
  BY DEF cleanup!jit, cleanup!Call, cleanup!Use
<1> HIDE DEF p
<1>6. CallCleans(p, 1)
  BY <1>1
     DEF CallCleans, GotBefore, NeededBefore, NullBefore, Listed, Unique, cleanup!Resources
<1>7. CallCleans(p, 2)
  BY <1>1, <1>2
     DEF CallCleans, GotBefore, NeededBefore, NullBefore, Listed, Unique, cleanup!Resources
<1>8. CallCleans(p, 3)
  BY <1>1, <1>2, <1>3
     DEF CallCleans, GotBefore, NeededBefore, NullBefore, Listed, Unique, cleanup!Resources
<1>9. CallCleans(p, 4)
  BY <1>1, <1>2, <1>3, <1>4
     DEF CallCleans, GotBefore, NeededBefore, NullBefore, Listed, Unique, cleanup!Resources
<1>10. \A n \in 1 .. 4 : CallCleans(p, n)
  BY <1>6, <1>7, <1>8, <1>9
<1>11. Cleans(p)
  BY <1>1, <1>2, <1>3, <1>4, <1>5, <1>10 DEF Cleans, GotBefore, Listed, Unique, cleanup!Resources
<1> QED
  BY <1>11 DEF p

LEMMA KernelMemCleans == Cleans(cleanup!kernel_mem)
<1> DEFINE p == cleanup!kernel_mem
<1>1. /\ p.calls[1].get = "pages" /\ p.calls[1].null = TRUE /\ p.calls[1].needs = {}
      /\ p.calls[1].fails = "never" /\ p.calls[1].err = "none" /\ p.calls[1].undo = <<>>
  BY DEF cleanup!kernel_mem, cleanup!Call, cleanup!Nullable
<1>2. Len(p.calls) = 1 /\ DOMAIN p.calls = 1 .. 1 /\ p.last = <<"pages">>
  BY DEF cleanup!kernel_mem, cleanup!Call, cleanup!Nullable
<1> HIDE DEF p
<1>3. CallCleans(p, 1)
  BY <1>1
     DEF CallCleans, GotBefore, NeededBefore, NullBefore, Listed, Unique, cleanup!Resources
<1>4. \A n \in 1 .. 1 : CallCleans(p, n)
  BY <1>3
<1>5. Cleans(p)
  BY <1>1, <1>2, <1>4 DEF Cleans, GotBefore, Listed, Unique, cleanup!Resources
<1> QED
  BY <1>5 DEF p

LEMMA SearchMainCleans == Cleans(cleanup!search_main)
<1> DEFINE p == cleanup!search_main
<1>1. /\ p.calls[1].get = "array" /\ p.calls[1].null = TRUE /\ p.calls[1].needs = {}
      /\ p.calls[1].fails = "never" /\ p.calls[1].err = "none" /\ p.calls[1].undo = <<>>
  BY DEF cleanup!search_main, cleanup!Call, cleanup!Nullable, cleanup!Use
<1>2. /\ p.calls[2].get = "lookups" /\ p.calls[2].null = TRUE /\ p.calls[2].needs = {}
      /\ p.calls[2].fails = "never" /\ p.calls[2].err = "none" /\ p.calls[2].undo = <<>>
  BY DEF cleanup!search_main, cleanup!Call, cleanup!Nullable, cleanup!Use
<1>3. /\ p.calls[3].get = "none" /\ p.calls[3].null = FALSE
      /\ p.calls[3].needs = {"array", "lookups"}
      /\ p.calls[3].fails = "null" /\ p.calls[3].err = "none"
      /\ p.calls[3].undo = <<"array", "lookups">>
  BY DEF cleanup!search_main, cleanup!Call, cleanup!Nullable, cleanup!Use
<1>4. /\ p.calls[4].get = "none" /\ p.calls[4].null = FALSE
      /\ p.calls[4].needs = {"array", "lookups"}
      /\ p.calls[4].fails = "never" /\ p.calls[4].err = "none" /\ p.calls[4].undo = <<>>
  BY DEF cleanup!search_main, cleanup!Call, cleanup!Nullable, cleanup!Use
<1>5. Len(p.calls) = 4 /\ DOMAIN p.calls = 1 .. 4 /\ p.last = <<"array", "lookups">>
  BY DEF cleanup!search_main, cleanup!Call, cleanup!Nullable, cleanup!Use
<1> HIDE DEF p
<1>6. CallCleans(p, 1)
  BY <1>1
     DEF CallCleans, GotBefore, NeededBefore, NullBefore, Listed, Unique, cleanup!Resources
<1>7. CallCleans(p, 2)
  BY <1>1, <1>2
     DEF CallCleans, GotBefore, NeededBefore, NullBefore, Listed, Unique, cleanup!Resources
<1>8. CallCleans(p, 3)
  BY <1>1, <1>2, <1>3
     DEF CallCleans, GotBefore, NeededBefore, NullBefore, Listed, Unique, cleanup!Resources
<1>9. CallCleans(p, 4)
  BY <1>1, <1>2, <1>3, <1>4
     DEF CallCleans, GotBefore, NeededBefore, NullBefore, Listed, Unique, cleanup!Resources
<1>10. \A n \in 1 .. 4 : CallCleans(p, n)
  BY <1>6, <1>7, <1>8, <1>9
<1>11. Cleans(p)
  BY <1>1, <1>2, <1>3, <1>4, <1>5, <1>10 DEF Cleans, GotBefore, Listed, Unique, cleanup!Resources
<1> QED
  BY <1>11 DEF p

LEMMA TestCacheCleans == Cleans(cleanup!test_cache)
<1> DEFINE p == cleanup!test_cache
<1>1. /\ p.calls[1].get = "array" /\ p.calls[1].null = FALSE /\ p.calls[1].needs = {}
      /\ p.calls[1].fails = "may" /\ p.calls[1].err = "none" /\ p.calls[1].undo = <<>>
  BY DEF cleanup!test_cache, cleanup!Call, cleanup!Use
<1>2. /\ p.calls[2].get = "none" /\ p.calls[2].null = FALSE /\ p.calls[2].needs = {"array"}
      /\ p.calls[2].fails = "never" /\ p.calls[2].err = "none" /\ p.calls[2].undo = <<>>
  BY DEF cleanup!test_cache, cleanup!Call, cleanup!Use
<1>3. Len(p.calls) = 2 /\ DOMAIN p.calls = 1 .. 2 /\ p.last = <<"array">>
  BY DEF cleanup!test_cache, cleanup!Call, cleanup!Use
<1> HIDE DEF p
<1>4. CallCleans(p, 1)
  BY <1>1
     DEF CallCleans, GotBefore, NeededBefore, NullBefore, Listed, Unique, cleanup!Resources
<1>5. CallCleans(p, 2)
  BY <1>1, <1>2
     DEF CallCleans, GotBefore, NeededBefore, NullBefore, Listed, Unique, cleanup!Resources
<1>6. \A n \in 1 .. 2 : CallCleans(p, n)
  BY <1>4, <1>5
<1>7. Cleans(p)
  BY <1>1, <1>2, <1>3, <1>6 DEF Cleans, GotBefore, Listed, Unique, cleanup!Resources
<1> QED
  BY <1>7 DEF p

LEMMA CpuCacheCleans == Cleans(cleanup!cpu_cache)
<1> DEFINE p == cleanup!cpu_cache
<1>1. /\ p.calls[1].get = "array" /\ p.calls[1].null = FALSE /\ p.calls[1].needs = {}
      /\ p.calls[1].fails = "may" /\ p.calls[1].err = "none" /\ p.calls[1].undo = <<>>
  BY DEF cleanup!cpu_cache, cleanup!test_cache, cleanup!Call, cleanup!Use
<1>2. /\ p.calls[2].get = "none" /\ p.calls[2].null = FALSE /\ p.calls[2].needs = {"array"}
      /\ p.calls[2].fails = "never" /\ p.calls[2].err = "none" /\ p.calls[2].undo = <<>>
  BY DEF cleanup!cpu_cache, cleanup!test_cache, cleanup!Call, cleanup!Use
<1>3. Len(p.calls) = 2 /\ DOMAIN p.calls = 1 .. 2 /\ p.last = <<"array">>
  BY DEF cleanup!cpu_cache, cleanup!test_cache, cleanup!Call, cleanup!Use
<1> HIDE DEF p
<1>4. CallCleans(p, 1)
  BY <1>1
     DEF CallCleans, GotBefore, NeededBefore, NullBefore, Listed, Unique, cleanup!Resources
<1>5. CallCleans(p, 2)
  BY <1>1, <1>2
     DEF CallCleans, GotBefore, NeededBefore, NullBefore, Listed, Unique, cleanup!Resources
<1>6. \A n \in 1 .. 2 : CallCleans(p, n)
  BY <1>4, <1>5
<1>7. Cleans(p)
  BY <1>1, <1>2, <1>3, <1>6 DEF Cleans, GotBefore, Listed, Unique, cleanup!Resources
<1> QED
  BY <1>7 DEF p

LEMMA AllClean == \A p \in cleanup!Programs : Cleans(p)
  BY PcreCleans, HyperscanCleans, JitCleans, KernelMemCleans, SearchMainCleans, TestCacheCleans,
     CpuCacheCleans
     DEF cleanup!Programs

\* While calls are made, what has been got is held, or NULL and not needed yet;
\* on the way out, what is left to release is what is held.
CleanupInv ==
    /\ cleanup!TypeOK /\ fault = FALSE
    /\ step = "call" => \A r \in cleanup!Resources :
          /\ GotBefore(prog, next, r) =>
                \/ ptr[r] = "held"
                \/ ptr[r] = "null" /\ NullBefore(prog, next, r) /\ ~NeededBefore(prog, next, r)
          /\ ~GotBefore(prog, next, r) => ptr[r] = "unset"
    /\ step = "release" =>
          /\ Unique(todo)
          /\ \A r \in cleanup!Resources :
                /\ Listed(todo, r) => ptr[r] \in {"held", "null"}
                /\ ptr[r] = "held" => Listed(todo, r)
    /\ step = "exit" => \A r \in cleanup!Resources : ptr[r] # "held"

LEMMA CleanupInit == ASSUME cleanup!Init PROVE CleanupInv
<1>1. prog \in cleanup!Programs /\ next = 1 /\ todo = <<>> /\ step = "call" /\ fault = FALSE
      /\ ptr = [r \in cleanup!Resources |-> "unset"]
  BY DEF cleanup!Init
<1>2. next \in DOMAIN prog.calls
  BY <1>1, AllClean DEF Cleans
<1>3. \A r : ~GotBefore(prog, next, r)
  BY <1>1 DEF GotBefore
<1>4. cleanup!TypeOK
  <2>1. ptr \in [cleanup!Resources -> {"unset", "null", "held", "freed"}]
    BY <1>1
  <2>2. todo \in Seq(cleanup!Resources)
    <3>1. \A S : <<>> \in Seq(S)
      OBVIOUS
    <3> QED
      BY <1>1, <3>1
  <2> QED
    BY <1>1, <1>2, <2>1, <2>2 DEF cleanup!TypeOK
<1> QED
  BY <1>1, <1>3, <1>4 DEF CleanupInv

\* What one more call adds.
LEMMA OneMoreCall ==
    ASSUME NEW n \in Nat \ {0}, NEW r
    PROVE  /\ GotBefore(prog, n + 1, r) <=> GotBefore(prog, n, r) \/ r = prog.calls[n].get
           /\ NeededBefore(prog, n + 1, r) <=> NeededBefore(prog, n, r) \/ r \in prog.calls[n].needs
           /\ NullBefore(prog, n + 1, r) <=>
                  \/ NullBefore(prog, n, r)
                  \/ r = prog.calls[n].get /\ prog.calls[n].null = TRUE
<1>1. \A k : k \in 1 .. (n + 1) - 1 <=> k \in 1 .. n - 1 \/ k = n
  OBVIOUS
<1> QED
  BY <1>1 DEF GotBefore, NeededBefore, NullBefore

\* A call finds what it needs.
LEMMA NeedsAreHeld ==
    ASSUME CleanupInv, step = "call", cleanup!call.fails = "null" => cleanup!Ready
    PROVE  cleanup!Ready
<1>1. CallCleans(prog, next) /\ cleanup!call = prog.calls[next]
  BY AllClean DEF CleanupInv, cleanup!TypeOK, Cleans, cleanup!call
<1> QED
  BY <1>1 DEF CleanupInv, CallCleans, cleanup!Ready

LEMMA SucceedHolds == ASSUME CleanupInv, cleanup!Succeed PROVE CleanupInv'
<1> DEFINE c == prog.calls[next]
<1>1. /\ prog \in cleanup!Programs /\ prog' = prog /\ next \in Nat \ {0} /\ step = "call"
      /\ next \in 1 .. Len(prog.calls) /\ DOMAIN prog.calls = 1 .. Len(prog.calls)
      /\ Cleans(prog) /\ CallCleans(prog, next) /\ cleanup!call = c
      /\ ptr \in [cleanup!Resources -> {"unset", "null", "held", "freed"}]
      /\ todo \in Seq(cleanup!Resources)
  BY AllClean DEF CleanupInv, cleanup!TypeOK, Cleans, cleanup!call, cleanup!Succeed
<1>2. cleanup!Ready /\ fault' = FALSE
  BY NeedsAreHeld DEF cleanup!Succeed, CleanupInv
<1>3. PICK how \in {"held", "null"} :
          /\ ptr' = IF c.get = "none" THEN ptr ELSE [ptr EXCEPT ![c.get] = how]
          /\ how = "null" => c.null
  BY <1>1 DEF cleanup!Succeed, cleanup!Got
<1>4. /\ ptr' \in [cleanup!Resources -> {"unset", "null", "held", "freed"}]
      /\ \A r \in cleanup!Resources : ptr'[r] = IF r = c.get /\ c.get # "none" THEN how ELSE ptr[r]
  BY <1>1, <1>3 DEF CallCleans
<1>5. \A r \in cleanup!Resources :
          /\ GotBefore(prog, next + 1, r) =>
                \/ ptr'[r] = "held"
                \/ /\ ptr'[r] = "null"
                   /\ NullBefore(prog, next + 1, r) /\ ~NeededBefore(prog, next + 1, r)
          /\ ~GotBefore(prog, next + 1, r) => ptr'[r] = "unset"
  <2> SUFFICES ASSUME NEW r \in cleanup!Resources
               PROVE  /\ GotBefore(prog, next + 1, r) =>
                            \/ ptr'[r] = "held"
                            \/ /\ ptr'[r] = "null"
                               /\ NullBefore(prog, next + 1, r) /\ ~NeededBefore(prog, next + 1, r)
                      /\ ~GotBefore(prog, next + 1, r) => ptr'[r] = "unset"
    OBVIOUS
  <2>1. /\ GotBefore(prog, next, r) =>
             \/ ptr[r] = "held"
             \/ ptr[r] = "null" /\ NullBefore(prog, next, r) /\ ~NeededBefore(prog, next, r)
        /\ ~GotBefore(prog, next, r) => ptr[r] = "unset"
        /\ r # "none"
    BY <1>1 DEF CleanupInv, cleanup!Resources
  <2>2. r \in c.needs => ptr[r] = "held" /\ GotBefore(prog, next, r)
    BY <1>1, <1>2 DEF cleanup!Ready, CallCleans
  <2>3. CASE r = c.get
    <3>1. ~GotBefore(prog, next, r) /\ r \notin c.needs
      BY <1>1, <2>1, <2>2, <2>3 DEF CallCleans
    <3>2. ~NeededBefore(prog, next, r)
      <4>1. ASSUME NEW k \in 1 .. next - 1, r \in prog.calls[k].needs PROVE FALSE
        <5>1. CallCleans(prog, k) /\ k \in 1 .. next
          BY <1>1 DEF Cleans
        <5>2. GotBefore(prog, k, r)
          BY <4>1, <5>1 DEF CallCleans
        <5> QED
          BY <1>1, <3>1, <5>1, <5>2 DEF GotBefore
      <4> QED
        BY <4>1 DEF NeededBefore
    <3> QED
      BY <1>1, <1>3, <1>4, <2>1, <2>3, <3>1, <3>2, OneMoreCall
  <2>4. CASE r # c.get
    BY <1>1, <1>4, <2>1, <2>2, <2>4, OneMoreCall
  <2> QED
    BY <2>3, <2>4
<1>6. CASE next < Len(prog.calls)
  <2>1. next' = next + 1 /\ step' = step /\ todo' = todo /\ next' \in DOMAIN prog.calls
    BY <1>1, <1>6 DEF cleanup!Succeed
  <2> QED
    BY <1>1, <1>2, <1>4, <1>5, <2>1 DEF CleanupInv, cleanup!TypeOK
<1>7. CASE ~(next < Len(prog.calls))
  <2>1. /\ step' = "release" /\ todo' = prog.last /\ next' = next
        /\ next + 1 = Len(prog.calls) + 1
    BY <1>1, <1>7 DEF cleanup!Succeed
  <2>2. /\ todo' \in Seq(cleanup!Resources) /\ Unique(todo')
        /\ \A r \in cleanup!Resources : Listed(todo', r) <=> GotBefore(prog, next + 1, r)
    BY <1>1, <2>1 DEF Cleans
  <2>3. \A r \in cleanup!Resources :
           /\ Listed(todo', r) => ptr'[r] \in {"held", "null"}
           /\ ptr'[r] = "held" => Listed(todo', r)
    BY <1>5, <2>2
  <2> QED
    BY <1>1, <1>2, <1>4, <2>1, <2>2, <2>3 DEF CleanupInv, cleanup!TypeOK
<1> QED
  BY <1>6, <1>7

LEMMA FailHolds == ASSUME CleanupInv, cleanup!Fail PROVE CleanupInv'
<1> DEFINE c == prog.calls[next]
<1>1. /\ prog \in cleanup!Programs /\ prog' = prog /\ next' = next /\ fault' = fault
      /\ next \in DOMAIN prog.calls /\ CallCleans(prog, next) /\ c.fails # "never"
      /\ step = "call" /\ step' = "release" /\ todo' = c.undo
      /\ ptr \in [cleanup!Resources -> {"unset", "null", "held", "freed"}]
      /\ ptr' = IF c.err = "none" THEN ptr ELSE [ptr EXCEPT ![c.err] = "held"]
  BY AllClean
     DEF CleanupInv, cleanup!TypeOK, Cleans, cleanup!call, cleanup!Fail, cleanup!Got
<1>2. /\ todo' \in Seq(cleanup!Resources) /\ Unique(todo')
      /\ \A r \in cleanup!Resources : Listed(todo', r) <=> GotBefore(prog, next, r) \/ r = c.err
      /\ c.err \in cleanup!Resources \union {"none"}
      /\ "none" \notin cleanup!Resources
  BY <1>1 DEF CallCleans, cleanup!Resources
<1>3. \A r \in cleanup!Resources : ptr'[r] = IF r = c.err THEN "held" ELSE ptr[r]
  BY <1>1, <1>2
<1>4. \A r \in cleanup!Resources :
         /\ Listed(todo', r) => ptr'[r] \in {"held", "null"}
         /\ ptr'[r] = "held" => Listed(todo', r)
  BY <1>1, <1>2, <1>3 DEF CleanupInv
<1> QED
  BY <1>1, <1>2, <1>4 DEF CleanupInv, cleanup!TypeOK

LEMMA ReleaseHolds == ASSUME CleanupInv, cleanup!Release PROVE CleanupInv'
<1> DEFINE h == Head(todo)
<1>1. /\ todo \in Seq(cleanup!Resources) /\ todo # <<>> /\ todo' = Tail(todo)
      /\ prog' = prog /\ next' = next /\ step = "release" /\ step' = "release"
      /\ ptr \in [cleanup!Resources -> {"unset", "null", "held", "freed"}]
      /\ ptr' = [ptr EXCEPT ![h] = IF ptr[h] = "held" THEN "freed" ELSE ptr[h]]
      /\ Unique(todo)
  BY DEF cleanup!Release, CleanupInv, cleanup!TypeOK
<1>2. /\ h \in cleanup!Resources /\ todo' \in Seq(cleanup!Resources)
      /\ Len(todo) \in Nat \ {0} /\ Len(todo') = Len(todo) - 1 /\ h = todo[1]
      /\ \A i \in 1 .. Len(todo') : todo'[i] = todo[i + 1]
  BY <1>1
<1>3. Unique(todo') /\ ~Listed(todo', h)
  BY <1>1, <1>2 DEF Unique, Listed
<1>4. \A r : Listed(todo, r) <=> r = h \/ Listed(todo', r)
  <2>1. ASSUME NEW r, Listed(todo, r), r # h PROVE Listed(todo', r)
    <3>1. PICK i \in 1 .. Len(todo) : todo[i] = r
      BY <2>1 DEF Listed
    <3>2. i - 1 \in 1 .. Len(todo') /\ (i - 1) + 1 = i
      BY <1>2, <2>1, <3>1
    <3> QED
      BY <1>2, <3>1, <3>2 DEF Listed
  <2>2. ASSUME NEW r, Listed(todo', r) PROVE Listed(todo, r)
    BY <1>2, <2>2 DEF Listed
  <2>3. Listed(todo, h)
    BY <1>2 DEF Listed
  <2> QED
    BY <2>1, <2>2, <2>3
<1>5. ptr[h] \in {"held", "null"} /\ fault' = FALSE
  BY <1>1, <1>2, <1>4 DEF CleanupInv, cleanup!Release
<1>6. \A r \in cleanup!Resources :
         /\ Listed(todo', r) => ptr'[r] \in {"held", "null"}
         /\ ptr'[r] = "held" => Listed(todo', r)
  BY <1>1, <1>2, <1>3, <1>4, <1>5 DEF CleanupInv
<1> QED
  BY <1>1, <1>2, <1>3, <1>5, <1>6 DEF CleanupInv, cleanup!TypeOK

LEMMA CleanupStep == ASSUME CleanupInv, [cleanup!Next]_cleanup_vars PROVE CleanupInv'
<1>1. CASE cleanup!Exit
  <2>1. \A r \in cleanup!Resources : ptr[r] # "held"
    BY <1>1 DEF cleanup!Exit, CleanupInv, Listed
  <2> QED
    BY <1>1, <2>1 DEF cleanup!Exit, CleanupInv, cleanup!TypeOK
<1>2. CASE UNCHANGED cleanup_vars
  BY <1>2 DEF cleanup_vars, CleanupInv, cleanup!TypeOK
<1> QED
  BY <1>1, <1>2, SucceedHolds, FailHolds, ReleaseHolds DEF cleanup!Next

-----------------------------------------------------------------------------
(* re2demo and pcredemo.                                                   *)

\* What the printing loop is given: the submatches up to the last that took
\* part, and how many of them, which is 0 or less than all if they do not fit.
MatchInv ==
    /\ match!TypeOK
    /\ matching = "match" => DOMAIN printed = {} /\ ~warned /\ captured = {}
    /\ matching = "print" =>
          /\ DOMAIN printed = {} /\ ~warned
          /\ 0 \in captured
          /\ ovector = [i \in match!Slots |->
                 IF i > match!Max(captured) THEN match!Unset
                 ELSE IF i \in captured THEN i ELSE match!None]
          /\ rc = IF match!Max(captured) < Room THEN match!Max(captured) + 1
                  ELSE IF lib = "re2" /\ Room - 1 \notin captured
                       THEN match!Max(captured \intersect match!Slots) + 1 ELSE 0
    /\ matching = "done" => match!PrintedIsCaptured

LEMMA LeastNumber ==
    ASSUME NEW T \in SUBSET Nat, T # {}
    PROVE  \E k \in T : \A m \in T : k <= m
<1>1. PICK k \in T : \A m \in T : ~(<<m, k>> \in OpToRel(<, Nat))
  BY NatLessThanWellFounded, WFMin
<1>2. ASSUME NEW m \in T, m < k PROVE FALSE
  <2>1. <<m, k>> \in {ss \in Nat \X Nat : ss[1] < ss[2]}
    BY <1>2
  <2> QED
    BY <1>1, <2>1 DEF OpToRel
<1> QED
  BY <1>2

\* A set of numbers up to n has a greatest.
LEMMA MaxIsGreatest ==
    ASSUME NEW n \in Nat, NEW S \in SUBSET (0 .. n), S # {}
    PROVE  match!Max(S) \in S /\ \A y \in S : y <= match!Max(S)
<1> DEFINE T == {k \in Nat : \E y \in S : k = n - y}
<1>1. T \in SUBSET Nat /\ \A y \in S : n - y \in T
  OBVIOUS
<1>2. PICK k \in T : \A m \in T : k <= m
  <2> HIDE DEF T
  <2> QED
    BY <1>1, LeastNumber
<1>3. n - k \in S /\ \A y \in S : y <= n - k
  BY <1>1, <1>2
<1>4. \E x \in S : \A y \in S : x >= y
  BY <1>3
<1>5. match!Max(S) \in S /\ \A y \in S : match!Max(S) >= y
  BY <1>4, Zenon DEF match!Max
<1> QED
  BY <1>5

LEMMA MatchInit == ASSUME ProgramsAssumption, match!Init PROVE MatchInv
<1>1. Groups \in Nat /\ Room \in Nat \ {0}
  BY DEF ProgramsAssumption
<1>2. match!TypeOK
  <2>1. captured \subseteq 0 .. Groups /\ rc \in -1 .. Room
    BY <1>1 DEF match!Init
  <2>2. ovector \in [match!Slots -> match!Slots \union {match!None, match!Unset}]
    BY DEF match!Init
  <2>3. lib \in {"pcre", "re2"} /\ warned \in BOOLEAN /\ matching \in {"match", "print", "done"}
    BY DEF match!Init
  <2> QED
    BY <2>1, <2>2, <2>3 DEF match!TypeOK
<1>3. DOMAIN printed = {}
  BY DEF match!Init
<1> QED
  BY <1>2, <1>3 DEF match!Init, MatchInv

LEMMA MatchHolds == ASSUME ProgramsAssumption, MatchInv, match!Match PROVE MatchInv'
<1>1. PICK C \in SUBSET (0 .. Groups) :
          0 \in C /\ (match!PcreExec(C) \/ match!msc_regexec_ex(C)) /\ captured' = C
  BY DEF match!Match
<1> DEFINE top == match!Max(C)
           fit == match!Max(C \intersect match!Slots)
<1>2. Groups \in Nat /\ Room \in Nat \ {0} /\ match!Slots = 0 .. Room - 1
  BY DEF ProgramsAssumption, match!Slots
<1>3. top \in C /\ top \in 0 .. Groups /\ \A y \in C : y <= top
  BY <1>1, <1>2, MaxIsGreatest
<1>4. fit \in C /\ fit \in match!Slots
  <2>1. C \intersect match!Slots \in SUBSET (0 .. Groups) /\ C \intersect match!Slots # {}
    BY <1>1, <1>2
  <2> QED
    BY <1>2, <2>1, MaxIsGreatest
<1>5. /\ lib' = lib /\ lib \in {"pcre", "re2"} /\ printed' = printed /\ warned' = warned
      /\ matching' = "print" /\ DOMAIN printed = {} /\ ~warned /\ warned \in BOOLEAN
  BY DEF match!Match, MatchInv, match!TypeOK
<1>6. /\ ovector' = [i \in match!Slots |->
             IF i > top THEN match!Unset ELSE IF i \in C THEN i ELSE match!None]
      /\ rc' = IF top < Room THEN top + 1
               ELSE IF lib = "re2" /\ Room - 1 \notin C THEN fit + 1 ELSE 0
  BY <1>1 DEF match!PcreExec, match!msc_regexec_ex
<1>7. rc' \in -1 .. Room
  BY <1>2, <1>3, <1>4, <1>6
<1>8. ovector' \in [match!Slots -> match!Slots \union {match!None, match!Unset}]
  BY <1>6
<1>9. match!TypeOK'
  BY <1>1, <1>5, <1>7, <1>8 DEF match!TypeOK, match!Slots, match!None, match!Unset
<1> QED
  BY <1>1, <1>5, <1>6, <1>9 DEF MatchInv, match!Slots, match!None, match!Unset, match!Max

LEMMA PrintHolds == ASSUME ProgramsAssumption, MatchInv, match!PrintAll PROVE MatchInv'
<1> DEFINE top == match!Max(captured)
           fit == match!Max(captured \intersect match!Slots)
           n == IF rc = 0 THEN Room ELSE rc
<1>1. Groups \in Nat /\ Room \in Nat \ {0} /\ match!Slots = 0 .. Room - 1
  BY DEF ProgramsAssumption, match!Slots
<1>2. /\ match!TypeOK /\ 0 \in captured /\ captured \in SUBSET (0 .. Groups)
      /\ \A i \in match!Slots : ovector[i] =
             IF i > top THEN match!Unset ELSE IF i \in captured THEN i ELSE match!None
      /\ rc = IF top < Room THEN top + 1
              ELSE IF lib = "re2" /\ Room - 1 \notin captured THEN fit + 1 ELSE 0
      /\ lib \in {"pcre", "re2"}
  BY DEF match!PrintAll, MatchInv, match!TypeOK
<1>3. top \in captured /\ top \in 0 .. Groups /\ \A y \in captured : y <= top
  BY <1>1, <1>2, MaxIsGreatest
<1>4. /\ fit \in captured /\ fit \in match!Slots
      /\ \A y \in captured \intersect match!Slots : y <= fit
  <2>1. /\ captured \intersect match!Slots \in SUBSET (0 .. Groups)
        /\ captured \intersect match!Slots # {}
    BY <1>1, <1>2
  <2> QED
    BY <1>1, <2>1, MaxIsGreatest
<1>5. /\ lib' = lib /\ captured' = captured /\ ovector' = ovector /\ rc' = rc
      /\ matching' = "done" /\ warned' = (rc = 0)
      /\ printed' = [i \in 0 .. n - 1 |-> ovector[i]]
  BY DEF match!PrintAll
<1>6. n \in 1 .. Room /\ n - 1 <= top
  BY <1>1, <1>2, <1>3, <1>4
<1>7. \A i \in 0 .. n - 1 :
          i \in match!Slots /\ ovector[i] = IF i \in captured THEN i ELSE match!None
  BY <1>1, <1>2, <1>3, <1>6
<1>8. captured \intersect match!Slots \subseteq 0 .. n - 1
  <2>1. CASE top < Room
    BY <1>1, <1>2, <1>3, <2>1
  <2>2. CASE rc = fit + 1
    <3>1. n = fit + 1
      BY <1>1, <1>4, <2>2
    <3> HIDE DEF n, fit
    <3> QED
      BY <1>1, <1>4, <3>1
  <2>3. CASE rc = 0
    BY <1>1, <2>3
  <2> QED
    BY <1>2, <2>1, <2>2, <2>3
<1>9. rc # 0 /\ ~(captured \subseteq 0 .. n - 1) => lib = "re2" /\ Room - 1 \notin captured
  BY <1>1, <1>2, <1>3
<1>10. rc = 0 => top \notin 0 .. n - 1
  BY <1>1, <1>2, <1>3, <1>4
<1>11. match!TypeOK'
  BY <1>2, <1>5 DEF match!TypeOK, match!Slots, match!None, match!Unset
<1>12. match!PrintedIsCaptured'
  <2>1. /\ DOMAIN printed' = 0 .. n - 1 /\ match!Slots' = match!Slots
        /\ \A i \in 0 .. n - 1 : printed'[i] = ovector[i]
    BY <1>5 DEF match!Slots
  <2>2. warned' => ~(captured \subseteq 0 .. n - 1)
    BY <1>3, <1>5, <1>10
  <2>3. ~warned' => rc # 0
    BY <1>5
  <2> HIDE DEF n
  <2> QED
    BY <1>5, <1>7, <1>8, <1>9, <1>11, <2>1, <2>2, <2>3 DEF match!PrintedIsCaptured, match!None
<1> QED
  BY <1>5, <1>11, <1>12 DEF MatchInv

LEMMA MatchStep ==
    ASSUME ProgramsAssumption, MatchInv, [match!Next]_match_vars
    PROVE  MatchInv'
<1>1. CASE match!NoMatch
  <2>1. match!TypeOK'
    BY <1>1 DEF ProgramsAssumption, match!NoMatch, MatchInv, match!TypeOK, match!Slots,
                match!None, match!Unset
  <2> QED
    BY <1>1, <2>1 DEF match!NoMatch, MatchInv, match!PrintedIsCaptured, match!Slots, match!None
<1>2. CASE UNCHANGED match_vars
  BY <1>2 DEF match_vars, MatchInv, match!TypeOK, match!PrintedIsCaptured, match!Slots, match!None,
              match!Unset, match!Max
<1> QED
  BY <1>1, <1>2, MatchHolds, PrintHolds DEF match!Next

LEMMA MatchInvImplies == MatchInv => match!PrintedIsCaptured
<1> SUFFICES ASSUME MatchInv PROVE match!PrintedIsCaptured
  OBVIOUS
<1>1. match!TypeOK /\ matching \in {"match", "print", "done"}
  BY DEF MatchInv, match!TypeOK
<1> QED
  BY <1>1 DEF MatchInv, match!PrintedIsCaptured

-----------------------------------------------------------------------------
(* run-interpose and rdma-monitor.                                         *)

Steps == {"idle", "handle", "open", "opened", "reread", "bound", "bind", "bound_to", "check",
          "call", "stuck"}

\* Where a verb is only looked up or called with the handle of the library.
Opened == {"bound", "bind", "bound_to", "check", "call"}

\* malloc and free are bound to what the libraries have of them, also by a
\* thread that lost the handle.
WrapperTypeOK ==
    /\ provided \subseteq wrapper!Functions
    /\ ibv_handle \in {Null, "lib"}
    /\ real \in [wrapper!Functions -> {Null, "real", "self"}]
    /\ at \in [Threads -> Steps] /\ fn \in [Threads -> wrapper!Functions]
    /\ got \in [Threads -> {Null, "lib", "real", "self"}]
    /\ reached \in [Threads -> {"none", "real", "error", "null", "self"}]
    /\ exited => {"malloc", "free"} \ provided # {}
    /\ \A t \in Threads :
          /\ at[t] = "handle" => fn[t] \in wrapper!Verbs
          /\ at[t] = "opened" => got[t] \in {Null, "lib"}
          /\ at[t] = "bound_to" => got[t] \in {Null, "real", "self"}
          /\ at[t] = "bound_to" /\ fn[t] \notin wrapper!Verbs /\ got[t] = Null =>
                fn[t] \notin provided

\* While no handle has been overwritten: the pointers hold what dlsym finds
\* with a handle, and a thread that has come past a check has what it checked.
Binds ==
    /\ \A f \in wrapper!Functions : real[f] # Null => real[f] = "real" /\ f \in provided
    /\ \A t \in Threads :
          /\ at[t] \in Opened /\ fn[t] \in wrapper!Verbs => ibv_handle # Null
          /\ at[t] = "reread" /\ ibv_handle = Null => got[t] = Null
          /\ at[t] \in {"open", "opened", "reread"} => fn[t] \in wrapper!Verbs
          /\ at[t] = "bound_to" => got[t] = IF fn[t] \in provided THEN "real" ELSE Null
          /\ at[t] = "check" =>
                fn[t] \in wrapper!Verbs /\ (fn[t] \in provided => real[fn[t]] # Null)
          /\ at[t] = "call" => real[fn[t]] # Null
          /\ at[t] # "idle" => reached[t] = "none"

WrapperInv == WrapperTypeOK /\ (~clobbered => Binds /\ wrapper!ReachesLibrary)

\* No address is the one the variables of the other programs hold.
LibraryAssumption == Null \notin {"lib", "real", "self"}

LEMMA WrapperInit == ASSUME LibraryAssumption, wrapper!Init PROVE WrapperInv
<1>1. provided \subseteq wrapper!Functions
  BY DEF wrapper!Init, wrapper!Functions, wrapper!Verbs
<1>2. "malloc" \in wrapper!Functions
  BY DEF wrapper!Functions
<1> QED
  BY <1>1, <1>2
     DEF LibraryAssumption, wrapper!Init, WrapperInv, WrapperTypeOK, Binds, wrapper!ReachesLibrary,
         Steps, Opened

\* A thread in a step that changes only what it has itself.
LEMMA EnterHolds ==
    ASSUME LibraryAssumption, WrapperInv, NEW t \in Threads, wrapper!Enter(t)
    PROVE  WrapperInv'
  BY DEF LibraryAssumption, WrapperInv, WrapperTypeOK, Binds, Steps, Opened,
         wrapper!ReachesLibrary, wrapper!Enter, wrapper!Goto, wrapper!pointers, wrapper!Verbs, wrapper!Functions

LEMMA CheckHandleHolds ==
    ASSUME LibraryAssumption, WrapperInv, NEW t \in Threads, wrapper!CheckHandle(t)
    PROVE  WrapperInv'
  BY DEF LibraryAssumption, WrapperInv, WrapperTypeOK, Binds, Steps, Opened,
         wrapper!ReachesLibrary, wrapper!CheckHandle, wrapper!Goto, wrapper!pointers, wrapper!private,
         wrapper!Verbs, wrapper!Functions

LEMMA OpenHolds ==
    ASSUME LibraryAssumption, WrapperInv, NEW t \in Threads, wrapper!Open(t)
    PROVE  WrapperInv'
  BY DEF LibraryAssumption, WrapperInv, WrapperTypeOK, Binds, Steps, Opened,
         wrapper!ReachesLibrary, wrapper!Open, wrapper!Goto,
         wrapper!Verbs, wrapper!Functions

LEMMA StoreHandleHolds ==
    ASSUME LibraryAssumption, WrapperInv, NEW t \in Threads, wrapper!StoreHandle(t)
    PROVE  WrapperInv'
<1>1. /\ at[t] = "opened" /\ ibv_handle' = got[t] /\ at' = [at EXCEPT ![t] = "reread"]
      /\ clobbered' = (clobbered \/ (ibv_handle # Null /\ got[t] = Null))
      /\ provided' = provided /\ real' = real /\ exited' = exited
      /\ fn' = fn /\ got' = got /\ calls' = calls /\ reached' = reached
      /\ WrapperTypeOK /\ got[t] \in {Null, "lib"}
  BY DEF wrapper!StoreHandle, wrapper!private, wrapper!Goto, WrapperInv, WrapperTypeOK
<1>2. \A u \in Threads : at'[u] = IF u = t THEN "reread" ELSE at[u]
  BY <1>1 DEF WrapperTypeOK
<1>3. WrapperTypeOK'
  BY <1>1, <1>2 DEF WrapperTypeOK, Steps, wrapper!Functions, wrapper!Verbs
<1>4. ASSUME ~clobbered' PROVE Binds' /\ wrapper!ReachesLibrary'
  <2>1. ~clobbered /\ (ibv_handle # Null => got[t] # Null) /\ Binds /\ wrapper!ReachesLibrary
    BY <1>1, <1>4 DEF WrapperInv
  <2>2. ibv_handle' = Null => ibv_handle = Null
    BY <1>1, <2>1
  <2>3. Binds'
    BY <1>1, <1>2, <2>1, <2>2 DEF Binds, Opened, wrapper!Functions, wrapper!Verbs
  <2> QED
    BY <1>1, <2>1, <2>3 DEF wrapper!ReachesLibrary, wrapper!Verbs
<1> QED
  BY <1>3, <1>4 DEF WrapperInv

LEMMA CheckOpenedHolds ==
    ASSUME LibraryAssumption, WrapperInv, NEW t \in Threads, wrapper!CheckOpened(t)
    PROVE  WrapperInv'
  BY DEF LibraryAssumption, WrapperInv, WrapperTypeOK, Binds, Steps, Opened,
         wrapper!ReachesLibrary, wrapper!CheckOpened, wrapper!Goto, wrapper!Return, wrapper!pointers,
         wrapper!Verbs, wrapper!Functions

LEMMA CheckBoundHolds ==
    ASSUME LibraryAssumption, WrapperInv, NEW t \in Threads, wrapper!CheckBound(t)
    PROVE  WrapperInv'
  BY DEF LibraryAssumption, WrapperInv, WrapperTypeOK, Binds, Steps, Opened,
         wrapper!ReachesLibrary, wrapper!CheckBound, wrapper!Goto, wrapper!pointers, wrapper!private,
         wrapper!Verbs, wrapper!Functions

LEMMA BindHolds ==
    ASSUME LibraryAssumption, WrapperInv, NEW t \in Threads, wrapper!Bind(t)
    PROVE  WrapperInv'
  BY DEF LibraryAssumption, WrapperInv, WrapperTypeOK, Binds, Steps, Opened,
         wrapper!ReachesLibrary, wrapper!Bind, wrapper!Goto, wrapper!pointers, wrapper!dlsym,
         wrapper!Verbs, wrapper!Functions

LEMMA StoreRealHolds ==
    ASSUME LibraryAssumption, WrapperInv, NEW t \in Threads, wrapper!StoreReal(t)
    PROVE  WrapperInv'
<1>1. /\ at[t] = "bound_to" /\ provided' = provided /\ loaded' = loaded /\ ibv_handle' = ibv_handle
      /\ clobbered' = clobbered /\ fn' = fn /\ got' = got /\ calls' = calls /\ reached' = reached
      /\ real' = [real EXCEPT ![fn[t]] = got[t]]
      /\ \/ fn[t] \in wrapper!Verbs /\ at' = [at EXCEPT ![t] = "check"] /\ exited' = exited
         \/ /\ fn[t] \notin wrapper!Verbs /\ got[t] # Null
            /\ at' = [at EXCEPT ![t] = "call"] /\ exited' = exited
         \/ /\ fn[t] \notin wrapper!Verbs /\ got[t] = Null
            /\ at' = [at EXCEPT ![t] = "idle"] /\ exited' = TRUE
  BY DEF wrapper!StoreReal, wrapper!private, wrapper!Goto
<1>2. WrapperTypeOK /\ fn[t] \in wrapper!Functions /\ got[t] \in {Null, "lib", "real", "self"}
  BY DEF WrapperInv, WrapperTypeOK
<1>3. exited' => {"malloc", "free"} \ provided # {}
  <2>1. CASE fn[t] \notin wrapper!Verbs /\ got[t] = Null
    <3>1. fn[t] \notin provided /\ fn[t] \in {"malloc", "free"}
      BY <1>1, <1>2, <2>1 DEF WrapperTypeOK, wrapper!Functions
    <3> QED
      BY <3>1
  <2> QED
    BY <1>1, <1>2, <2>1 DEF WrapperTypeOK
<1>4. real' \in [wrapper!Functions -> {Null, "real", "self"}]
  <2>1. got[t] \in {Null, "real", "self"}
    BY <1>1, <1>2 DEF WrapperTypeOK
  <2> QED
    BY <1>1, <1>2, <2>1 DEF WrapperTypeOK
<1>5. WrapperTypeOK'
  BY <1>1, <1>2, <1>3, <1>4 DEF WrapperTypeOK, Steps, wrapper!Functions, wrapper!Verbs
<1>6. ASSUME ~clobbered PROVE Binds' /\ wrapper!ReachesLibrary'
  <2>1. Binds /\ wrapper!ReachesLibrary /\ got[t] = IF fn[t] \in provided THEN "real" ELSE Null
    BY <1>1, <1>6 DEF WrapperInv, Binds
  <2>2. \A f \in wrapper!Functions : real'[f] = IF f = fn[t] THEN got[t] ELSE real[f]
    BY <1>1, <1>2 DEF WrapperTypeOK
  <2>3. \A u \in Threads : u # t => at'[u] = at[u]
    BY <1>1, <1>2 DEF WrapperTypeOK
  <2>4. \A u \in Threads : fn[u] \in wrapper!Functions
    BY <1>2 DEF WrapperTypeOK
  <2>5. Binds'
    BY <1>1, <1>2, <2>1, <2>2, <2>3, <2>4
       DEF LibraryAssumption, Binds, WrapperTypeOK, Opened, wrapper!Functions, wrapper!Verbs
  <2> QED
    BY <1>1, <1>3, <2>1, <2>5 DEF wrapper!ReachesLibrary, wrapper!Verbs
<1> QED
  BY <1>1, <1>5, <1>6 DEF WrapperInv

LEMMA CheckRealHolds ==
    ASSUME LibraryAssumption, WrapperInv, NEW t \in Threads, wrapper!CheckReal(t)
    PROVE  WrapperInv'
  BY DEF LibraryAssumption, WrapperInv, WrapperTypeOK, Binds, Steps, Opened,
         wrapper!ReachesLibrary, wrapper!CheckReal, wrapper!Goto, wrapper!Return, wrapper!pointers,
         wrapper!Verbs, wrapper!Functions

LEMMA CallHolds ==
    ASSUME LibraryAssumption, WrapperInv, NEW t \in Threads, wrapper!Call(t)
    PROVE  WrapperInv'
  BY DEF LibraryAssumption, WrapperInv, WrapperTypeOK, Binds, Steps, Opened,
         wrapper!ReachesLibrary, wrapper!Call, wrapper!Return, wrapper!pointers,
         wrapper!Verbs, wrapper!Functions

LEMMA WrapperStep ==
    ASSUME LibraryAssumption, WrapperInv, [wrapper!Next]_wrapper_vars
    PROVE  WrapperInv'
<1>1. CASE wrapper!Next
  BY <1>1, EnterHolds, CheckHandleHolds, OpenHolds, StoreHandleHolds, CheckOpenedHolds,
     CheckBoundHolds, BindHolds, StoreRealHolds, CheckRealHolds, CallHolds
     DEF wrapper!Next, wrapper!Bound
<1>2. CASE UNCHANGED wrapper_vars
  BY <1>2 DEF wrapper_vars, WrapperInv, WrapperTypeOK, Binds, wrapper!ReachesLibrary,
              wrapper!Functions, wrapper!Verbs
<1> QED
  BY <1>1, <1>2

LEMMA WrapperInvImplies == WrapperInv => wrapper!ReachesLibrary
  BY DEF WrapperInv, WrapperTypeOK, wrapper!ReachesLibrary

-----------------------------------------------------------------------------
(* netlink-latency.                                                        *)

\* The handler is there while the module is, with its socket once it is in; a
\* user whose message got no answer waits.
NetlinkInv ==
    /\ module \in {"out", "creating", "in"} /\ inbox \in [Users -> Nat] /\ lost \subseteq Users
    /\ user_at \in [Users -> {"start", "send", "recv", "done", "failed"}]
    /\ registered => module # "out"
    /\ module = "in" => nl_sk
    /\ \A u \in lost : user_at[u] = "recv"
    /\ netlink!AnsweredOnce

LEMMA NetlinkInit == ASSUME netlink!Init PROVE NetlinkInv
  BY DEF netlink!Init, NetlinkInv, netlink!AnsweredOnce

LEMMA SendHolds ==
    ASSUME NetlinkInv, ~oops, NEW u \in Users, netlink!sendmsg(u)
    PROVE  NetlinkInv'
  BY DEF netlink!sendmsg, netlink!on_receiving_data, NetlinkInv, netlink!AnsweredOnce

LEMMA NetlinkStep == ASSUME NetlinkInv, [netlink!Next]_netlink_vars PROVE NetlinkInv'
<1>1. ASSUME ~oops, netlink!netlink_latency_init PROVE NetlinkInv'
  BY <1>1 DEF netlink!netlink_latency_init, NetlinkInv, netlink!AnsweredOnce
<1>2. ASSUME ~oops, netlink!netlink_latency_exit PROVE NetlinkInv'
  BY <1>2 DEF netlink!netlink_latency_exit, netlink!Pinned, NetlinkInv, netlink!AnsweredOnce
<1>3. ASSUME ~oops, NEW u \in Users, netlink!Socket(u) PROVE NetlinkInv'
  BY <1>3 DEF netlink!Socket, NetlinkInv, netlink!AnsweredOnce
<1>4. ASSUME ~oops, NEW u \in Users, netlink!recvmsg(u) PROVE NetlinkInv'
  BY <1>4 DEF netlink!recvmsg, NetlinkInv, netlink!AnsweredOnce
<1>5. CASE UNCHANGED netlink_vars
  BY <1>5 DEF netlink_vars, NetlinkInv, netlink!AnsweredOnce
<1> QED
  BY <1>1, <1>2, <1>3, <1>4, <1>5, SendHolds DEF netlink!Next, netlink!Measure

-----------------------------------------------------------------------------
(* ipip.                                                                   *)

\* Up to k, if no first number is missing.
LEMMA NoneMissing ==
    ASSUME NEW k \in Nat, NEW S, 0 \in S, \A j \in 0 .. k - 1 : j \in S => j + 1 \in S
    PROVE  \A j \in 0 .. k : j \in S
<1> DEFINE T == {n \in Nat : n <= k /\ n \notin S}
<1>1. SUFFICES ASSUME T # {} PROVE FALSE
  OBVIOUS
<1>2. PICK n \in T : \A m \in T : n <= m
  BY <1>1, LeastNumber
<1>3. n # 0 /\ n - 1 \in 0 .. k - 1 /\ n - 1 \notin T
  BY <1>2
<1>4. n - 1 \in S
  BY <1>3
<1> QED
  BY <1>2, <1>3, <1>4

\* A SYN with options o announces an MSS.
Announces(o) == \E p \in o.starts : o.bytes[p] = 2

\* A packet under way: a SYN carries its sender's options, lowered once unless it
\* is raw; the length of a segment is what the sender's MSS makes it, and one
\* header in the tunnel.
PacketHolds(p) ==
    LET h == ipip!Peer(p.to) IN
    /\ p.to \in ipip!Hosts /\ p.tunnel \in BOOLEAN /\ p.len \in Nat
    /\ p.syn => /\ p.len <= MTU
                /\ p.opts = IF p.raw THEN opts[h].bytes ELSE ipip!ReduceTcpMss(opts[h].bytes)
    /\ ~p.syn => /\ mss[h] # ipip!NoMss
                 /\ p.len = ipip!Low(MTU, mss[h] + IpHdr + TcpHdr) + IF p.tunnel THEN IpHdr ELSE 0

\* The inductive invariant: whatever copies of a SYN a host gets, it keeps what
\* it learnt from the first.
IpIpInv ==
    /\ outgoing \subseteq ipip!Hosts /\ incoming \subseteq ipip!Hosts /\ raw \subseteq ipip!Hosts
    /\ opts \in [ipip!Hosts -> SynOptions]
    /\ mss \in [ipip!Hosts -> 0 .. ipip!Wrap]
    /\ \A h \in ipip!Hosts : IF mss[h] = ipip!NoMss THEN h \notin raw ELSE mss[h] = ipip!Bound(h)
    /\ \A p \in net : PacketHolds(p)

\* Each host has the other one as its peer.
LEMMA PeerOfPeer ==
    ASSUME ipip!IpIpAssumption, NEW h \in ipip!Hosts
    PROVE  /\ ipip!Peer(h) \in ipip!Hosts /\ ipip!Peer(h) # h
           /\ ipip!Peer(ipip!Peer(h)) = h
<1>1. \A g \in ipip!Hosts : ipip!Peer(g) \in ipip!Hosts /\ ipip!Peer(g) # g
  <2> TAKE g \in ipip!Hosts
  <2>1. \E f \in ipip!Hosts : f # g
    BY DEF ipip!Hosts, ipip!IpIpAssumption
  <2> QED
    BY <2>1 DEF ipip!Peer
<1> QED
  BY <1>1 DEF ipip!Hosts

\* The turns of the loop, as the equations say.
LEMMA TurnsAre ==
    ASSUME NEW b, Len(b) \in Nat
    PROVE  /\ ipip!Turns(b)[0] = 1
           /\ \A n \in 0 .. Len(b) - 1 : ipip!Turns(b)[n + 1] = ipip!Turn(b, ipip!Turns(b)[n])
<1> DEFINE N == Len(b)
           G(f, m) == [n \in 0 .. m |-> IF n = 0 THEN 1 ELSE ipip!Turn(b, f[n - 1])]
           M == {m \in Nat : \E f : f = G(f, m)}
           R == CHOOSE f : f = G(f, N)
<1>1. ipip!Turns(b) = R
  BY DEF ipip!Turns
<1>2. 0 \in M
  <2>1. [n \in 0 .. 0 |-> 1] = G([n \in 0 .. 0 |-> 1], 0)
    OBVIOUS
  <2> QED
    BY <2>1
<1>3. ASSUME NEW m \in 0 .. N - 1, m \in M PROVE m + 1 \in M
  <2>1. PICK f : f = G(f, m)
    BY <1>3
  <2> DEFINE g == G(f, m + 1)
  <2>2. ASSUME NEW n \in 0 .. m + 1 PROVE g[n] = G(g, m + 1)[n]
    <3>1. CASE n = 0
      BY <3>1
    <3>2. CASE n # 0
      <4>1. n - 1 \in 0 .. m /\ n - 1 \in 0 .. m + 1 /\ m \in Nat
        BY <3>2
      <4>2. f[n - 1] = IF n - 1 = 0 THEN 1 ELSE ipip!Turn(b, f[(n - 1) - 1])
        BY <2>1, <4>1
      <4>3. g[n - 1] = IF n - 1 = 0 THEN 1 ELSE ipip!Turn(b, f[(n - 1) - 1])
        BY <4>1
      <4> QED
        BY <3>2, <4>2, <4>3
    <3> QED
      BY <3>1, <3>2
  <2>3. g = G(g, m + 1)
    BY <2>2
  <2>4. m + 1 \in Nat
    OBVIOUS
  <2> HIDE DEF g, G
  <2> QED
    BY <2>3, <2>4
<1>4. N \in M
  <2> HIDE DEF M
  <2>1. \A j \in 0 .. N : j \in M
    BY <1>2, <1>3, NoneMissing
  <2> QED
    BY <2>1
<1>5. R = G(R, N)
  <2> HIDE DEF G
  <2> QED
    BY <1>4
<1> HIDE DEF R
<1>6. R[0] = 1
  BY <1>5
<1>7. ASSUME NEW n \in 0 .. N - 1 PROVE R[n + 1] = ipip!Turn(b, R[n])
  <2>1. n + 1 \in 0 .. N /\ n + 1 # 0 /\ (n + 1) - 1 = n
    OBVIOUS
  <2> QED
    BY <1>5, <2>1
<1> QED
  BY <1>1, <1>6, <1>7

\* The bytes of options.
LEMMA OptionBytes ==
    ASSUME ipip!IpIpAssumption, NEW o \in SynOptions
    PROVE  /\ Len(o.bytes) \in Nat /\ DOMAIN o.bytes = 1 .. Len(o.bytes)
           /\ \A i \in 1 .. Len(o.bytes) : o.bytes[i] \in 0 .. Radix - 1
           /\ o.starts \subseteq 1 .. Len(o.bytes) /\ 1 \in o.starts
           /\ Radix \in Nat /\ ipip!Wrap \in Nat
<1>1. o.bytes \in Seq(0 .. Radix - 1) /\ o.starts \subseteq 1 .. Len(o.bytes) /\ 1 \in o.starts
      /\ Radix \in Nat
  BY DEF ipip!IpIpAssumption, ipip!WellFormed
<1>2. ipip!Wrap \in Nat
  BY <1>1 DEF ipip!Wrap
<1>3. ASSUME NEW S, NEW s \in Seq(S)
      PROVE  Len(s) \in Nat /\ DOMAIN s = 1 .. Len(s) /\ \A i \in 1 .. Len(s) : s[i] \in S
  OBVIOUS
<1> QED
  BY <1>1, <1>2, <1>3

\* From an option to the next one, or to the end of the header.
LEMMA OffsetOf ==
    ASSUME ipip!IpIpAssumption, NEW o \in SynOptions, NEW p \in o.starts
    PROVE  LET n == ipip!offset(o.bytes, p) IN
           /\ n \in Nat /\ n > 0
           /\ p + n \in o.starts \/ p + n = Len(o.bytes) + 1
           /\ \A q \in o.starts : q > p => q >= p + n
           /\ o.bytes[p] = 2 => n = 4
<1> DEFINE b == o.bytes
<1>1. ipip!WellFormed(o)
  BY DEF ipip!IpIpAssumption
<1>2. /\ b[p] # 1 => p < Len(b) /\ b[p + 1] > 1
      /\ b[p] = 2 => b[p + 1] = 4
      /\ p + ipip!OptionSize(b, p) \in o.starts \union {Len(b) + 1}
      /\ \A q \in o.starts : q > p => q >= p + ipip!OptionSize(b, p)
  BY <1>1 DEF ipip!WellFormed
<1>3. /\ p \in 1 .. Len(b) /\ Len(b) \in Nat /\ Radix \in Nat
      /\ \A i \in 1 .. Len(b) : b[i] \in 0 .. Radix - 1
  BY OptionBytes
<1>4. ipip!OptionSize(b, p) \in Nat /\ ipip!OptionSize(b, p) > 0
  <2>1. CASE b[p] = 1
    BY <2>1 DEF ipip!OptionSize
  <2>2. CASE b[p] # 1
    <3>1. p + 1 \in 1 .. Len(b) /\ b[p + 1] > 1
      BY <1>2, <1>3, <2>2
    <3>2. b[p + 1] \in Nat /\ b[p + 1] > 0
      BY <1>3, <3>1
    <3> QED
      BY <2>2, <3>2 DEF ipip!OptionSize
  <2> QED
    BY <2>1, <2>2
<1>5. b[p] = 2 => ipip!OptionSize(b, p) = 4
  BY <1>2 DEF ipip!OptionSize
<1> QED
  BY <1>2, <1>4, <1>5 DEF ipip!offset

\* The walk over the options stops at one, and at the MSS if there is one: no
\* turn leaves the options or steps over an MSS.
LEMMA WalkFindsMss ==
    ASSUME ipip!IpIpAssumption, NEW o \in SynOptions
    PROVE  LET stop == ipip!Turns(o.bytes)[Len(o.bytes)] IN
           stop \in o.starts /\ (Announces(o) => o.bytes[stop] = 2)
<1> DEFINE b == o.bytes
           N == Len(b)
           T == ipip!Turns(b)
           J(n) == /\ T[n] \in o.starts
                   /\ T[n] >= n + 1 \/ ipip!Breaks(b, T[n])
                   /\ \A q \in o.starts : q < T[n] => b[q] # 2
           S == {n \in Nat : J(n)}
<1>1. N \in Nat /\ 1 \in o.starts /\ o.starts \subseteq 1 .. N
  BY OptionBytes
<1>2. T[0] = 1 /\ \A n \in 0 .. N - 1 : T[n + 1] = ipip!Turn(b, T[n])
  BY <1>1, TurnsAre
<1> HIDE DEF T
<1>3. 0 \in S
  <2>1. \A q \in o.starts : ~(q < 1)
    BY <1>1
  <2> QED
    BY <1>1, <1>2, <2>1
<1>4. ASSUME NEW n \in 0 .. N - 1, n \in S PROVE n + 1 \in S
  <2>1. J(n) /\ T[n + 1] = ipip!Turn(b, T[n])
    BY <1>2, <1>4
  <2> DEFINE p == T[n]
             k == ipip!offset(b, p)
  <2>2. /\ p \in o.starts /\ p \in 1 .. N
        /\ p >= n + 1 \/ ipip!Breaks(b, p)
        /\ \A q \in o.starts : q < p => b[q] # 2
    BY <1>1, <2>1
  <2>3. CASE ipip!Breaks(b, p)
    <3>1. T[n + 1] = p
      BY <2>1, <2>3 DEF ipip!Turn
    <3> QED
      BY <2>2, <2>3, <3>1
  <2>4. CASE ~ipip!Breaks(b, p)
    <3>1. T[n + 1] = p + k /\ b[p] # 2 /\ ~(p + k > N)
      BY <2>1, <2>4 DEF ipip!Turn, ipip!Breaks
    <3>2. /\ k \in Nat /\ k > 0 /\ (p + k \in o.starts \/ p + k = N + 1)
          /\ \A q \in o.starts : q > p => q >= p + k
      BY <2>2, OffsetOf
    <3>3. p + k \in o.starts /\ p + k >= (n + 1) + 1
      <4> HIDE DEF p, k, N
      <4> QED
        BY <1>1, <2>2, <2>4, <3>1, <3>2
    <3>4. ASSUME NEW q \in o.starts, q < p + k PROVE b[q] # 2
      <4>1. q \in Nat /\ p \in Nat
        BY <1>1, <2>2
      <4>2. ~(q > p)
        <5> HIDE DEF p, k
        <5> QED
          BY <3>2, <3>4, <4>1
      <4>3. q < p \/ q = p
        <5> HIDE DEF p
        <5> QED
          BY <4>1, <4>2
      <4> QED
        BY <2>2, <3>1, <4>3
    <3> HIDE DEF p, k
    <3> QED
      BY <3>1, <3>3, <3>4
  <2> QED
    BY <2>3, <2>4
<1>5. J(N)
  <2> HIDE DEF S
  <2>1. \A j \in 0 .. N : j \in S
    BY <1>1, <1>3, <1>4, NoneMissing
  <2>2. N \in S
    BY <1>1, <2>1
  <2> QED
    BY <2>2 DEF S
<1> DEFINE stop == T[N]
<1>6. stop \in o.starts /\ stop \in 1 .. N /\ \A q \in o.starts : q < stop => b[q] # 2
  BY <1>1, <1>5
<1>7. ipip!Breaks(b, stop)
  BY <1>1, <1>5, <1>6
<1>8. ASSUME NEW q \in o.starts, b[q] = 2 PROVE b[stop] = 2
  <2> DEFINE k == ipip!offset(b, stop)
  <2>1. k \in Nat /\ \A r \in o.starts : r > stop => r >= stop + k
    BY <1>6, OffsetOf
  <2>2. b[stop] = 2 \/ stop + k > N
    BY <1>7 DEF ipip!Breaks
  <2>3. ~(q < stop) /\ q \in 1 .. N
    BY <1>1, <1>6, <1>8
  <2> HIDE DEF stop, k, N
  <2>4. q > stop => ~(stop + k > N)
    BY <1>1, <1>6, <2>1, <2>3
  <2>5. q = stop \/ q > stop
    BY <1>1, <1>6, <2>3
  <2> QED
    BY <1>8, <2>2, <2>4, <2>5
<1> QED
  BY <1>6, <1>8 DEF T, Announces

\* Sixteen bits are enough for the subtraction.
LEMMA SubtractsInRange ==
    ASSUME NEW w \in Nat, NEW m \in Nat, NEW d \in Nat, d <= m, m < w
    PROVE  (m + w - d) % w = m - d
<1> DEFINE r == m - d
<1>1. r \in Nat /\ r < w /\ m + w - d = r + w
  OBVIOUS
<1>2. (r + w) % w = r
  <2> HIDE DEF r
  <2> QED
    BY <1>1
<1> QED
  BY <1>1, <1>2

\* A number of two bytes, taken apart and put together.
LEMMA TwoBytes ==
    ASSUME NEW r \in Nat \ {0}, NEW x \in Nat
    PROVE  x \div r \in Int /\ x % r \in 0 .. r - 1 /\ x = r * (x \div r) + (x % r)
  OBVIOUS

LEMMA LowBounds ==
    ASSUME NEW a \in Nat, NEW b \in Nat
    PROVE  ipip!Low(a, b) \in Nat /\ ipip!Low(a, b) <= a /\ (b <= a => ipip!Low(a, b) = b)
  BY DEF ipip!Low

\* Wherever in the options the MSS stands, the lowered list announces it lower
\* by one header, which leaves room for two, and is the same in all other bytes.
LEMMA LowersMss ==
    ASSUME ipip!IpIpAssumption, NEW o \in SynOptions
    PROVE  LET b == o.bytes
               c == ipip!ReduceTcpMss(b)
               m == ipip!Announcement(o, b) IN
           /\ m \in Nat /\ m < ipip!Wrap
           /\ Announces(o) => /\ ipip!Announcement(o, c) = m - IpHdr
                              /\ m >= IpHdr /\ m + IpHdr + TcpHdr <= MTU
           /\ ~Announces(o) => ipip!Announcement(o, c) = m /\ m + TcpHdr + 2 * IpHdr <= MTU
           /\ Len(c) = Len(b)
           /\ \A i \in DOMAIN b : c[i] # b[i] =>
                  \E s \in o.starts : b[s] = 2 /\ i \in s + 2 .. s + 3
<1> DEFINE b == o.bytes
           c == ipip!ReduceTcpMss(b)
           stop == ipip!Turns(b)[Len(b)]
           v == ipip!Short(b, stop + 2)
           r == (v + ipip!Wrap - IpHdr) % ipip!Wrap
<1>1. c = IF b[stop] = 2 THEN [b EXCEPT ![stop + 2] = r \div Radix, ![stop + 3] = r % Radix] ELSE b
  BY DEF ipip!ReduceTcpMss
<1>2. /\ Len(b) \in Nat /\ DOMAIN b = 1 .. Len(b) /\ Radix \in Nat /\ ipip!Wrap \in Nat
      /\ b \in Seq(0 .. Radix - 1) /\ o.starts \subseteq 1 .. Len(b)
  BY OptionBytes DEF ipip!IpIpAssumption, ipip!WellFormed
<1>3. stop \in o.starts /\ (Announces(o) => b[stop] = 2)
  BY WalkFindsMss
<1>4. /\ MTU \in Nat /\ IpHdr \in Nat /\ TcpHdr \in Nat /\ DefaultMss \in Nat /\ MTU < ipip!Wrap
      /\ DefaultMss + TcpHdr + 2 * IpHdr <= MTU /\ Radix \in Nat \ {0}
  BY DEF ipip!IpIpAssumption
<1>5. ipip!WellFormed(o)
  BY DEF ipip!IpIpAssumption
<1> HIDE DEF stop
<1>6. CASE b[stop] = 2
  <2>1. /\ Announces(o) /\ \A p \in o.starts : b[p] = 2 => p = stop
        /\ v \in IpHdr .. MTU - IpHdr - TcpHdr
    BY <1>3, <1>5, <1>6 DEF Announces, ipip!WellFormed
  <2>2. (CHOOSE p \in o.starts : b[p] = 2) = stop
    BY <1>3, <1>6, <2>1
  <2>3. \A x : ipip!Announcement(o, x) = ipip!Short(x, 2 + stop)
    BY <2>1, <2>2 DEF ipip!Announcement, Announces
  <2>4. /\ stop \in 1 .. Len(b) /\ stop + 3 \in 1 .. Len(b) /\ stop + 2 \in 1 .. Len(b)
        /\ 2 + stop = stop + 2 /\ (stop + 2) + 1 = stop + 3
    <3>1. ipip!offset(b, stop) = 4 /\ (stop + 4 \in o.starts \/ stop + 4 = Len(b) + 1)
      BY <1>3, <1>6, OffsetOf
    <3>2. stop \in 1 .. Len(b) /\ (stop + 4 \in 1 .. Len(b) \/ stop + 4 = Len(b) + 1)
      BY <1>2, <1>3, <3>1
    <3>3. ASSUME NEW n \in Nat, NEW p \in 1 .. n, p + 4 \in 1 .. n \/ p + 4 = n + 1
          PROVE  p + 3 \in 1 .. n /\ p + 2 \in 1 .. n /\ 2 + p = p + 2 /\ (p + 2) + 1 = p + 3
      BY <3>3
    <3> HIDE DEF b
    <3> QED
      BY ONLY <1>2, <3>2, <3>3
  <2>5. v \in Nat /\ v >= IpHdr /\ v + IpHdr + TcpHdr <= MTU /\ v < ipip!Wrap
    <3> HIDE DEF v
    <3> QED
      BY <1>4, <2>1, <1>2
  <2>6. r = v - IpHdr /\ r \in Nat
    <3> HIDE DEF v
    <3> QED
      BY <1>2, <1>4, <2>5, SubtractsInRange
  <2>7. /\ c = [b EXCEPT ![stop + 2] = r \div Radix, ![stop + 3] = r % Radix]
        /\ stop + 2 # stop + 3
    BY <1>1, <1>6, <2>4
  <2>8. c[stop + 2] = r \div Radix /\ c[stop + 3] = r % Radix
    <3> HIDE DEF c, r, b
    <3> QED
      BY <1>2, <2>4, <2>7
  <2>9. ipip!Short(c, stop + 2) = r
    <3>1. r = Radix * (r \div Radix) + (r % Radix)
      <4> HIDE DEF r
      <4> QED
        BY <1>4, <2>6, TwoBytes
    <3>2. ipip!Short(c, stop + 2) = Radix * c[stop + 2] + c[stop + 3]
      BY <2>4 DEF ipip!Short
    <3> HIDE DEF c, r
    <3> QED
      BY <2>8, <3>1, <3>2
  <2>10. Len(c) = Len(b) /\ \A i \in DOMAIN b : c[i] # b[i] => i \in {stop + 2, stop + 3}
    <3> DEFINE x == r \div Radix
               y == r % Radix
    <3>0. c = [b EXCEPT ![stop + 2] = x, ![stop + 3] = y]
      BY <2>7
    <3> HIDE DEF c, x, y
    <3>1. DOMAIN c = 1 .. Len(b) /\ \A i \in DOMAIN b : i \notin {stop + 2, stop + 3} => c[i] = b[i]
      BY <1>2, <3>0
    <3>2. c = [i \in 1 .. Len(b) |-> c[i]]
      BY <1>2, <3>0, <3>1
    <3>3. Len(c) = Len(b)
      BY <1>2, <3>2
    <3> QED
      BY <3>1, <3>3
  <2>11. \A i \in DOMAIN b : c[i] # b[i] => b[stop] = 2 /\ i \in stop + 2 .. stop + 3
    <3>1. stop + 2 \in stop + 2 .. stop + 3 /\ stop + 3 \in stop + 2 .. stop + 3
      BY <2>4
    <3> HIDE DEF c, b
    <3> QED
      BY <1>6, <2>10, <3>1
  <2>12. ipip!Announcement(o, b) = v /\ ipip!Announcement(o, c) = v - IpHdr
    BY <2>3, <2>4, <2>6, <2>9
  <2>13. \A i \in DOMAIN b : c[i] # b[i] =>
             \E s \in o.starts : b[s] = 2 /\ i \in s + 2 .. s + 3
    BY <1>3, <2>11
  <2>14. v - IpHdr = ipip!Announcement(o, c) /\ v = ipip!Announcement(o, b)
    BY <2>12
  <2> HIDE DEF v, r
  <2> QED
    BY ONLY <2>1, <2>5, <2>10, <2>13, <2>14
<1>7. CASE b[stop] # 2
  <2>1. ~Announces(o) /\ c = b
    BY <1>1, <1>3, <1>7
  <2>2. \A x : ipip!Announcement(o, x) = DefaultMss
    BY <2>1 DEF ipip!Announcement, Announces
  <2>3. Len(c) = Len(b) /\ \A i \in DOMAIN b : c[i] = b[i]
    BY <2>1
  <2>4. ipip!Announcement(o, c) = DefaultMss /\ ipip!Announcement(o, b) = DefaultMss
    BY <2>2
  <2>5. DefaultMss < ipip!Wrap
    BY <1>2, <1>4
  <2> QED
    BY ONLY <1>4, <2>1, <2>3, <2>4, <2>5
<1> QED
  BY <1>6, <1>7

LEMMA IpIpInit == ASSUME ipip!IpIpAssumption, ipip!Init PROVE IpIpInv
<1>1. ipip!Wrap \in Nat
  BY DEF ipip!IpIpAssumption, ipip!Wrap
<1> QED
  BY <1>1 DEF ipip!Init, IpIpInv, ipip!NoMss

\* The hooks come and go; packets and bounds stay.
LEMMA RegisterHolds ==
    ASSUME ipip!IpIpAssumption, IpIpInv, NEW h \in ipip!Hosts,
           \/ ipip!RegisterOut(h) \/ ipip!RegisterIn(h)
           \/ ipip!UnregisterOut(h) \/ ipip!UnregisterIn(h)
    PROVE  IpIpInv'
<1>1. /\ mss' = mss /\ opts' = opts /\ net' = net /\ raw' = raw
      /\ outgoing' \subseteq ipip!Hosts /\ incoming' \subseteq ipip!Hosts
  BY DEF ipip!RegisterOut, ipip!RegisterIn, ipip!UnregisterOut, ipip!UnregisterIn, IpIpInv
<1> QED
  BY <1>1 DEF IpIpInv, PacketHolds, ipip!Bound

\* A packet through the hook on its way out, or past it.
LEMMA TunnelHolds ==
    ASSUME ipip!IpIpAssumption, IpIpInv, NEW h \in ipip!Hosts,
           ipip!SendSyn(h) \/ ipip!SendData(h)
    PROVE  IpIpInv'
<1>1. /\ outgoing' = outgoing /\ incoming' = incoming /\ mss' = mss /\ opts' = opts
      /\ raw' = raw
  BY DEF ipip!SendSyn, ipip!SendData
<1>2. /\ ipip!Peer(h) \in ipip!Hosts /\ ipip!Peer(ipip!Peer(h)) = h
      /\ MTU \in Nat /\ IpHdr \in Nat /\ TcpHdr \in Nat /\ ipip!Wrap \in Nat
      /\ opts[h] \in SynOptions /\ mss[h] \in 0 .. ipip!Wrap
  BY PeerOfPeer, OptionBytes DEF ipip!IpIpAssumption, IpIpInv
<1> DEFINE syn == [to |-> ipip!Peer(h), syn |-> TRUE, opts |-> opts[h].bytes, raw |-> TRUE,
                   len |-> IpHdr + TcpHdr + Len(opts[h].bytes), tunnel |-> FALSE]
           data == [to |-> ipip!Peer(h), syn |-> FALSE, opts |-> <<>>, raw |-> FALSE,
                    len |-> ipip!Low(MTU, mss[h] + IpHdr + TcpHdr), tunnel |-> FALSE]
<1>3. ASSUME NEW p \in net' PROVE PacketHolds(p)
  <2>1. CASE p \in net
    BY <2>1 DEF IpIpInv
  <2>2. CASE p \notin net /\ ipip!SendSyn(h)
    <3>1. \/ p = ipip!Encapsulate(ipip!Reduce(syn))
          \/ p = ipip!Encapsulate(syn)
          \/ p = syn
      BY <1>3, <2>2 DEF ipip!SendSyn, ipip!HookOut
    <3>2. /\ p.to = ipip!Peer(h) /\ p.syn = TRUE /\ p.tunnel \in BOOLEAN
          /\ p.opts = IF p.raw THEN opts[h].bytes ELSE ipip!ReduceTcpMss(opts[h].bytes)
          /\ p.len \in {syn.len, syn.len + IpHdr}
      <4>1. CASE p = ipip!Encapsulate(ipip!Reduce(syn))
        <5>1. ipip!Reduce(syn) = [syn EXCEPT !.opts = ipip!ReduceTcpMss(@), !.raw = FALSE]
          BY DEF ipip!Reduce
        <5> QED
          BY <4>1, <5>1 DEF ipip!Encapsulate
      <4>2. CASE p = ipip!Encapsulate(syn)
        BY <4>2 DEF ipip!Encapsulate
      <4>3. CASE p = syn
        BY <4>3
      <4> HIDE DEF syn
      <4> QED
        BY <3>1, <4>1, <4>2, <4>3, Zenon
    <3>3. /\ Len(opts[h].bytes) \in Nat
          /\ 2 * IpHdr + TcpHdr + Len(opts[h].bytes) <= MTU
      BY <1>2, OptionBytes DEF ipip!IpIpAssumption, ipip!WellFormed
    <3>4. p.len \in Nat /\ p.len <= MTU
      <4>1. p.len \in {IpHdr + TcpHdr + Len(opts[h].bytes), IpHdr + TcpHdr + Len(opts[h].bytes) + IpHdr}
        BY <3>2
      <4>2. ASSUME NEW x, NEW l \in Nat, NEW a \in Nat, NEW t \in Nat, NEW m \in Nat,
                   2 * a + t + l <= m, x \in {a + t + l, a + t + l + a}
            PROVE  x \in Nat /\ x <= m
        BY <4>2
      <4> HIDE DEF syn
      <4> QED
        BY ONLY <1>2, <3>3, <4>1, <4>2
    <3> QED
      BY <1>2, <3>2, <3>4 DEF PacketHolds
  <2>3. CASE p \notin net /\ ipip!SendData(h)
    <3>1. mss[h] # ipip!NoMss /\ (p = ipip!Encapsulate(data) \/ p = data)
      <4>1. ipip!Reduce(data) = data /\ data.syn = FALSE
        BY DEF ipip!Reduce
      <4>2. mss[h] # ipip!NoMss /\ ipip!HookOut(h, data)
        BY <2>3 DEF ipip!SendData
      <4>3. ~data.syn
        BY <4>1
      <4> HIDE DEF data
      <4>4. \/ net' = net \union {ipip!Encapsulate(data)}
            \/ net' = net
            \/ net' = net \union {data}
        BY <4>1, <4>2, <4>3, Zenon DEF ipip!HookOut
      <4> QED
        BY <1>3, <2>3, <4>2, <4>4
    <3>2. mss[h] + IpHdr + TcpHdr \in Nat
      BY <1>2
    <3>3. data.len \in Nat
      BY <1>2, <3>2, LowBounds
    <3>4. /\ p.to = ipip!Peer(h) /\ p.syn = FALSE /\ p.tunnel \in BOOLEAN
          /\ p.len = data.len + IF p.tunnel THEN IpHdr ELSE 0
      <4>1. CASE p = data
        BY <3>3, <4>1
      <4>2. CASE p = ipip!Encapsulate(data)
        BY <3>3, <4>2 DEF ipip!Encapsulate
      <4> QED
        BY <3>1, <4>1, <4>2
    <3>5. p.len \in Nat
      BY <1>2, <3>3, <3>4
    <3> QED
      BY <1>2, <3>1, <3>4, <3>5 DEF PacketHolds
  <2> QED
    BY <2>1, <2>2, <2>3
<1>4. \A p \in net' : PacketHolds(p)'
  BY <1>1, <1>3 DEF PacketHolds
<1> QED
  BY <1>1, <1>4 DEF IpIpInv, ipip!Bound

\* The first copy of a SYN tells a host its bound, and later ones nothing.
LEMMA ReceiveHolds ==
    ASSUME ipip!IpIpAssumption, IpIpInv, NEW p \in net, ipip!Receive(p)
    PROVE  IpIpInv'
<1> DEFINE h == p.to
           o == opts[ipip!Peer(h)]
           q == IF p.to \in incoming THEN ipip!HookIn(p) ELSE p
           value == ipip!Announcement(o, q.opts)
<1>1. /\ PacketHolds(p) /\ h \in ipip!Hosts /\ ipip!Peer(h) \in ipip!Hosts /\ o \in SynOptions
      /\ outgoing' = outgoing /\ incoming' = incoming /\ opts' = opts /\ net' = net
  BY PeerOfPeer DEF ipip!Receive, IpIpInv, PacketHolds
<1>2. q.syn = p.syn /\ q.opts = p.opts /\ q.raw = p.raw
  BY DEF ipip!HookIn
<1>3. CASE ~(q.syn /\ mss[h] = ipip!NoMss)
  <2>1. mss' = mss /\ raw' = raw
    BY <1>3 DEF ipip!Receive
  <2> QED
    BY <1>1, <2>1 DEF IpIpInv, PacketHolds, ipip!Bound
<1>4. CASE q.syn /\ mss[h] = ipip!NoMss
  <2>1. /\ mss' = [mss EXCEPT ![h] = value]
        /\ raw' = IF q.raw THEN raw \union {h} ELSE raw
    BY <1>4 DEF ipip!Receive
  <2>2. h \notin raw
    BY <1>1, <1>4 DEF IpIpInv
  <2>3. value = IF q.raw \/ ~Announces(o) THEN ipip!Announcement(o, o.bytes)
                ELSE ipip!Announcement(o, o.bytes) - IpHdr
    <3>1. q.opts = IF q.raw THEN o.bytes ELSE ipip!ReduceTcpMss(o.bytes)
      BY <1>1, <1>2, <1>4 DEF PacketHolds
    <3> HIDE DEF q, o
    <3> QED
      BY <1>1, <3>1, LowersMss
  <2>4. value \in 0 .. ipip!Wrap /\ value # ipip!NoMss
    <3>1. /\ ipip!Announcement(o, o.bytes) \in Nat /\ ipip!Announcement(o, o.bytes) < ipip!Wrap
          /\ Announces(o) => ipip!Announcement(o, o.bytes) >= IpHdr
          /\ IpHdr \in Nat /\ ipip!Wrap \in Nat
      BY <1>1, LowersMss, OptionBytes DEF ipip!IpIpAssumption
    <3>2. PICK m \in Nat : m = ipip!Announcement(o, o.bytes)
      BY <3>1
    <3>3. value \in {m, m - IpHdr} /\ m < ipip!Wrap /\ (value = m \/ m >= IpHdr)
      BY <2>3, <3>1, <3>2
    <3> HIDE DEF value
    <3> QED
      BY <3>1, <3>3 DEF ipip!NoMss
  <2>5. mss \in [ipip!Hosts -> 0 .. ipip!Wrap] /\ raw \subseteq ipip!Hosts
    BY DEF IpIpInv
  <2>6. /\ mss' \in [ipip!Hosts -> 0 .. ipip!Wrap] /\ raw' \subseteq ipip!Hosts
        /\ mss'[h] = value /\ (h \in raw' <=> q.raw)
        /\ \A g \in ipip!Hosts : g # h => mss'[g] = mss[g] /\ (g \in raw' <=> g \in raw)
    <3> HIDE DEF value, q, h
    <3> QED
      BY <1>1, <2>1, <2>2, <2>4, <2>5
  <2>7. ASSUME NEW g \in ipip!Hosts
        PROVE  IF mss'[g] = ipip!NoMss THEN g \notin raw' ELSE mss'[g] = ipip!Bound(g)'
    <3>1. CASE g = h
      <4>1. mss'[g] = IF g \in raw' \/ ~Announces(o) THEN ipip!Announcement(o, o.bytes)
                      ELSE ipip!Announcement(o, o.bytes) - IpHdr
        BY <2>3, <2>6, <3>1
      <4>2. mss'[g] # ipip!NoMss
        BY <2>4, <2>6, <3>1
      <4> QED
        BY <1>1, <3>1, <4>1, <4>2 DEF ipip!Bound, Announces
    <3>2. CASE g # h
      <4>1. IF mss[g] = ipip!NoMss THEN g \notin raw ELSE mss[g] = ipip!Bound(g)
        BY DEF IpIpInv
      <4>2. mss'[g] = mss[g] /\ (g \in raw' <=> g \in raw)
        BY <2>6, <3>2
      <4> QED
        BY <1>1, <4>1, <4>2 DEF ipip!Bound
    <3> QED
      BY <3>1, <3>2
  <2>8. ASSUME NEW r \in net PROVE PacketHolds(r)'
    <3>1. PacketHolds(r) /\ ipip!Peer(r.to) \in ipip!Hosts
      BY PeerOfPeer DEF IpIpInv, PacketHolds
    <3>2. ASSUME mss[ipip!Peer(r.to)] # ipip!NoMss
          PROVE  mss'[ipip!Peer(r.to)] = mss[ipip!Peer(r.to)]
      BY <1>4, <2>6, <3>1, <3>2
    <3> QED
      BY <1>1, <3>1, <3>2 DEF PacketHolds
  <2>9. ipip!NoMss' = ipip!NoMss
    OBVIOUS
  <2> QED
    BY <1>1, <2>6, <2>7, <2>8 DEF IpIpInv
<1> QED
  BY <1>3, <1>4

LEMMA ResetHolds ==
    ASSUME ipip!IpIpAssumption, IpIpInv, ipip!Reset
    PROVE  IpIpInv'
<1>1. ipip!Wrap \in Nat
  BY DEF ipip!IpIpAssumption, ipip!Wrap
<1> QED
  BY <1>1 DEF ipip!Reset, IpIpInv, ipip!NoMss

LEMMA IpIpStep ==
    ASSUME ipip!IpIpAssumption, IpIpInv, [ipip!Next]_ipip_vars
    PROVE  IpIpInv'
<1>1. CASE UNCHANGED ipip_vars
  BY <1>1 DEF ipip_vars, IpIpInv, PacketHolds, ipip!Bound
<1> QED
  BY <1>1, RegisterHolds, TunnelHolds, ReceiveHolds, ResetHolds DEF ipip!Next

LEMMA IpIpInvImplies ==
    ASSUME ipip!IpIpAssumption, IpIpInv
    PROVE  ipip!FitsMtu /\ ipip!SegmentsIntact
<1>1. /\ MTU \in Nat /\ IpHdr \in Nat /\ TcpHdr \in Nat /\ ipip!Wrap \in Nat
  BY DEF ipip!IpIpAssumption, ipip!Wrap
<1>2. ASSUME NEW p \in net, p.len > MTU
      PROVE  p.tunnel /\ ~p.syn /\ ipip!Peer(p.to) \in raw
  <2> DEFINE h == ipip!Peer(p.to)
             o == opts[ipip!Peer(h)]
             m == mss[h]
  <2>1. /\ PacketHolds(p) /\ h \in ipip!Hosts /\ ipip!Peer(h) = p.to /\ o \in SynOptions
        /\ m \in 0 .. ipip!Wrap /\ p.len \in Nat /\ p.tunnel \in BOOLEAN
    BY PeerOfPeer DEF IpIpInv, PacketHolds
  <2>2. ~p.syn
    BY <1>1, <1>2, <2>1 DEF PacketHolds
  <2>3. m # ipip!NoMss /\ p.len = ipip!Low(MTU, m + IpHdr + TcpHdr) + IF p.tunnel THEN IpHdr ELSE 0
    BY <2>1, <2>2 DEF PacketHolds
  <2>4. m \in Nat /\ m + IpHdr + TcpHdr \in Nat
    BY <1>1, <2>1
  <2> DEFINE low == ipip!Low(MTU, m + IpHdr + TcpHdr)
  <2>5. low \in Nat /\ low <= MTU /\ (m + IpHdr + TcpHdr <= MTU => low = m + IpHdr + TcpHdr)
    BY <1>1, <2>4, LowBounds
  <2>6. p.tunnel
    <3> HIDE DEF low
    <3> QED
      BY <1>1, <1>2, <2>1, <2>3, <2>5 DEF low
  <2>7. ASSUME h \notin raw PROVE FALSE
    <3>1. m = ipip!Bound(h)
      BY <2>1, <2>3 DEF IpIpInv
    <3>2. m = IF Announces(o) THEN ipip!Announcement(o, o.bytes) - IpHdr
              ELSE ipip!Announcement(o, o.bytes)
      BY <2>7, <3>1 DEF ipip!Bound, Announces
    <3>3. m + IpHdr + TcpHdr + IpHdr <= MTU
      <4>1. PICK a \in Nat : a = ipip!Announcement(o, o.bytes)
        BY <2>1, LowersMss
      <4>2. /\ Announces(o) => m = a - IpHdr /\ a + IpHdr + TcpHdr <= MTU
            /\ ~Announces(o) => m = a /\ a + TcpHdr + 2 * IpHdr <= MTU
        BY <2>1, <3>2, <4>1, LowersMss
      <4> HIDE DEF m, o
      <4> QED
        BY <1>1, <2>4, <4>1, <4>2
    <3>4. p.len = low + IpHdr
      BY <2>3, <2>6
    <3> HIDE DEF low, m
    <3> QED
      BY <1>1, <1>2, <2>4, <2>5, <3>3, <3>4
  <2> QED
    BY <2>2, <2>6, <2>7
<1>3. ipip!FitsMtu
  BY <1>2 DEF ipip!FitsMtu, ipip!TypeOK, IpIpInv, PacketHolds
<1>4. ipip!SegmentsIntact
  <2> SUFFICES ASSUME NEW p \in net
               PROVE  LET q == IF p.to \in incoming THEN ipip!HookIn(p) ELSE p
                          o == opts[ipip!Peer(p.to)]
                      IN  /\ p.to \in incoming => ~q.tunnel
                          /\ ~q.tunnel /\ ~q.syn =>
                                 q.len = ipip!Low(MTU, mss[ipip!Peer(p.to)] + IpHdr + TcpHdr)
                          /\ q.syn => /\ Len(q.opts) = Len(o.bytes)
                                      /\ \A i \in DOMAIN o.bytes : q.opts[i] # o.bytes[i] =>
                                             \E s \in o.starts : o.bytes[s] = 2 /\ i \in s + 2 .. s + 3
    BY DEF ipip!SegmentsIntact
  <2> DEFINE q == IF p.to \in incoming THEN ipip!HookIn(p) ELSE p
             o == opts[ipip!Peer(p.to)]
             whole == ipip!Low(MTU, mss[ipip!Peer(p.to)] + IpHdr + TcpHdr)
  <2>1. PacketHolds(p) /\ ipip!Peer(p.to) \in ipip!Hosts /\ o \in SynOptions
        /\ mss[ipip!Peer(p.to)] \in Nat /\ p.tunnel \in BOOLEAN
    BY <1>1, PeerOfPeer DEF IpIpInv, PacketHolds
  <2>2. /\ q.syn = p.syn /\ q.opts = p.opts
        /\ p.to \in incoming => q.tunnel = FALSE
        /\ q.len = IF p.tunnel /\ ~q.tunnel THEN p.len - IpHdr ELSE p.len
        /\ ~p.tunnel => ~q.tunnel
    BY <2>1 DEF ipip!HookIn
  <2>3. whole \in Nat
    <3>1. mss[ipip!Peer(p.to)] + IpHdr + TcpHdr \in Nat
      BY <1>1, <2>1
    <3> QED
      BY <1>1, <3>1, LowBounds
  <2>4. ASSUME ~q.tunnel, ~q.syn PROVE q.len = whole
    <3>1. p.len = whole + IF p.tunnel THEN IpHdr ELSE 0
      BY <2>1, <2>2, <2>4 DEF PacketHolds
    <3>2. q.len = IF p.tunnel THEN p.len - IpHdr ELSE p.len
      BY <2>2, <2>4
    <3> HIDE DEF whole, q
    <3> QED
      BY <1>1, <2>3, <3>1, <3>2
  <2>5. ASSUME q.syn
        PROVE  /\ Len(q.opts) = Len(o.bytes)
               /\ \A i \in DOMAIN o.bytes : q.opts[i] # o.bytes[i] =>
                      \E s \in o.starts : o.bytes[s] = 2 /\ i \in s + 2 .. s + 3
    <3>1. q.opts = o.bytes \/ q.opts = ipip!ReduceTcpMss(o.bytes)
      BY <2>1, <2>2, <2>5 DEF PacketHolds
    <3> HIDE DEF q, o
    <3> QED
      BY <2>1, <3>1, LowersMss
  <2> HIDE DEF q
  <2> QED
    BY <2>2, <2>4, <2>5 DEF q
<1> QED
  BY <1>3, <1>4

-----------------------------------------------------------------------------
(* py-http-server.                                                         *)

Piece ==
    [kind : {"header"}, status : Nat, length : Nat, chunked : BOOLEAN]
        \union [kind : {"chunk", "body"}, from : Nat, size : Nat]

\* Bytes of the body in the pieces of w up to the k-th.
End(w, k) == IF k = 1 THEN 0 ELSE w[k].from + w[k].size

\* The header of a chunked answer and n bytes in chunks that follow it.
Chunks(w, n) ==
    /\ w \in Seq(Piece) /\ Len(w) >= 1 /\ w[1] = http!Header(200, 0, TRUE)
    /\ \A k \in 2 .. Len(w) :
          /\ w[k] \in [kind : {"chunk"}, from : Nat, size : Nat]
          /\ w[k].size > 0 /\ w[k].from = End(w, k - 1)
    /\ End(w, Len(w)) = n

\* A chunked answer with the empty chunk behind it, and one in one piece.
Closed(w, n) == w \o <<http!Chunk(n, 0)>>
Whole(status, length, n) == <<http!Header(status, length, FALSE), http!Bytes(n)>>
One(n) == <<http!Bytes(n)>>
IsWhole(w, status, length, n) ==
    /\ w \in Seq(Piece) /\ Head(w).status = status /\ Head(w).length = length
    /\ Tail(w) = One(n)
    /\ n = length => http!Decoded(w) = {n}
    /\ \A k \in 2 .. Len(w) : w[k].kind # "header"

\* What AnswerIsFile says of a finished answer.
Answered ==
    IF want.file = http!None
    THEN Head(wire).status = 404 /\ http!Decoded(wire) = {http!Compressed(PageSize)}
    ELSE /\ Head(wire).status = 200
         /\ IF http!EnableChunked \/ http!BodySize = want.file
            THEN http!Decoded(wire) = {http!BodySize}
            ELSE Head(wire).length = want.file /\ Tail(wire) = One(http!BodySize)

\* The inductive invariant: nothing is sent before the request is parsed; while
\* there are chunks to send, those sent reach as far as the counter says; the
\* page comes instead of an answer, never after one.
HttpInv ==
    /\ http!TypeOK /\ http!WaitsOnlyForSplitEnd
    /\ want \in [path : BOOLEAN, http11 : BOOLEAN, gzip : BOOLEAN, file : 0 .. http!None]
    /\ sent \in Nat /\ wire \in Seq(Piece)
    /\ \A k \in 2 .. Len(wire) : wire[k].kind # "header"
    /\ serving \in {"recv", "parse"} => wire = <<>> /\ sent = 0
    /\ serving = "chunk" =>
          Chunks(wire, IF sent < http!BodySize THEN sent ELSE http!BodySize)
    /\ serving = "end" => Chunks(wire, http!BodySize)
    /\ serving \in {"chunk", "end"} => http!EnableChunked /\ want.file # http!None
    /\ serving = "notfound" => client = "gone" \/ (want.file = http!None /\ wire = <<>>)
    /\ serving = "died" => client = "gone"
    /\ serving = "closed" /\ want.path /\ http!Got("path") /\ client # "gone" => Answered

LEMMA OneMorePiece ==
    ASSUME NEW S, NEW s \in Seq(S), NEW e \in S
    PROVE  /\ s \o <<e>> \in Seq(S) /\ Len(s \o <<e>>) = Len(s) + 1
           /\ (s \o <<e>>)[Len(s) + 1] = e
           /\ \A k \in 1 .. Len(s) : (s \o <<e>>)[k] = s[k]
  OBVIOUS

LEMMA FirstPieces ==
    ASSUME NEW S, NEW e \in S, NEW f
    PROVE  /\ <<>> \o <<e>> = <<e>> /\ <<e>> \in Seq(S) /\ Len(<<e>>) = 1 /\ <<e>>[1] = e
           /\ <<>> \o <<e, f>> = <<e, f>>
  OBVIOUS

LEMMA TwoPieces ==
    ASSUME NEW S, NEW e \in S, NEW f \in S
    PROVE  /\ <<e, f>> \in Seq(S) /\ <<e, f>> # <<>> /\ Len(<<e, f>>) = 2 /\ <<e, f>>[2] = f
           /\ Head(<<e, f>>) = e /\ Tail(<<e, f>>) = <<f>>
  OBVIOUS

LEMMA HeadAndTail ==
    ASSUME NEW S, NEW s \in Seq(S), Len(s) >= 1
    PROVE  /\ s # <<>> /\ Head(s) = s[1] /\ Len(Tail(s)) = Len(s) - 1
           /\ \A k \in 1 .. Len(s) - 1 : Tail(s)[k] = s[k + 1]
  OBVIOUS

LEMMA HeaderTyped ==
    ASSUME NEW m \in Nat, NEW n \in Nat, NEW b \in BOOLEAN
    PROVE  LET h == http!Header(m, n, b) IN
           h \in Piece /\ h.kind = "header" /\ h.status = m /\ h.length = n /\ h.chunked = b
  BY DEF http!Header, Piece

LEMMA ChunkTyped ==
    ASSUME NEW m \in Nat, NEW n \in Nat
    PROVE  LET c == http!Chunk(m, n) IN
           /\ c \in [kind : {"chunk"}, from : Nat, size : Nat] /\ c \in Piece
           /\ c.kind = "chunk" /\ c.from = m /\ c.size = n
  BY DEF http!Chunk, Piece

LEMMA BytesTyped ==
    ASSUME NEW n \in Nat
    PROVE  LET b == http!Bytes(n) IN b \in Piece /\ b.kind = "body" /\ b.size = n
  BY DEF http!Bytes, Piece

\* Sizes are numbers: a file that there is has one, compressed or not.
LEMMA SizesTyped ==
    ASSUME http!HttpAssumption,
           want \in [path : BOOLEAN, http11 : BOOLEAN, gzip : BOOLEAN, file : 0 .. http!None]
    PROVE  /\ want.file # http!None => http!BodySize \in Nat /\ want.file \in Nat
           /\ http!Compressed(PageSize) \in Nat
           /\ ChunkSize \in Nat /\ ChunkSize > 0
<1>1. /\ MaxBody \in Nat /\ PageSize \in Nat /\ ChunkSize \in Nat /\ ChunkSize > 0
      /\ ZipSize \in [0 .. MaxBody + PageSize -> Nat] /\ want.file \in 0 .. MaxBody + 1
  BY DEF http!HttpAssumption, http!None
<1>2. PageSize \in 0 .. MaxBody + PageSize
  BY <1>1
<1>3. want.file # MaxBody + 1 => want.file \in 0 .. MaxBody + PageSize /\ want.file \in Nat
  BY <1>1
<1> QED
  BY <1>1, <1>2, <1>3 DEF http!BodySize, http!Compressed, http!None

\* One more chunk where the last one ended.
LEMMA ChunksGrow ==
    ASSUME NEW w, NEW n \in Nat, NEW m \in Nat, m > 0, Chunks(w, n)
    PROVE  Chunks(w \o <<http!Chunk(n, m)>>, n + m)
<1> DEFINE c == http!Chunk(n, m)
           v == w \o <<c>>
           l == Len(w)
<1>1. /\ c \in Piece /\ c \in [kind : {"chunk"}, from : Nat, size : Nat]
      /\ c.from = n /\ c.size = m
  BY ChunkTyped
<1>2. /\ w \in Seq(Piece) /\ l \in Nat /\ l >= 1 /\ w[1] = http!Header(200, 0, TRUE)
      /\ End(w, l) = n
      /\ \A k \in 2 .. l : /\ w[k] \in [kind : {"chunk"}, from : Nat, size : Nat]
                           /\ w[k].size > 0 /\ w[k].from = End(w, k - 1)
  BY DEF Chunks
<1>3. /\ v \in Seq(Piece) /\ Len(v) = l + 1 /\ v[l + 1] = c
      /\ \A k \in 1 .. l : v[k] = w[k]
  BY <1>1, <1>2, OneMorePiece
<1> HIDE DEF c, v, l
<1>4. \A k \in 1 .. l : End(v, k) = End(w, k)
  BY <1>3 DEF End
<1>5. ASSUME NEW k \in 2 .. l + 1
      PROVE  /\ v[k] \in [kind : {"chunk"}, from : Nat, size : Nat]
             /\ v[k].size > 0 /\ v[k].from = End(v, k - 1)
  <2>1. k - 1 \in 1 .. l
    BY <1>2
  <2>2. CASE k = l + 1
    <3>1. k - 1 = l /\ l \in 1 .. l
      BY <1>2, <2>2
    <3> QED
      BY <1>1, <1>2, <1>3, <1>4, <2>2, <3>1
  <2>3. CASE k # l + 1
    <3>1. k \in 2 .. l /\ k \in 1 .. l
      BY <1>2, <2>3
    <3> QED
      BY <1>2, <1>3, <1>4, <2>1, <3>1
  <2> QED
    BY <2>2, <2>3
<1>6. End(v, l + 1) = n + m
  <2>1. l + 1 # 1
    BY <1>2
  <2> QED
    BY <1>1, <1>3, <2>1 DEF End
<1>7. v[1] = http!Header(200, 0, TRUE) /\ Len(v) >= 1
  <2>1. 1 \in 1 .. l
    BY <1>2
  <2> QED
    BY <1>2, <1>3, <2>1, l + 1 >= 1
<1>8. Chunks(v, n + m)
  BY <1>3, <1>5, <1>6, <1>7 DEF Chunks
<1> QED
  BY <1>8 DEF v, c

\* With the empty chunk behind them a client takes all the bytes.
LEMMA ChunksDecode ==
    ASSUME NEW w, NEW n \in Nat, Chunks(w, n), NEW v, v = Closed(w, n)
    PROVE  /\ v \in Seq(Piece) /\ Head(v).status = 200 /\ http!Decoded(v) = {n}
           /\ \A k \in 2 .. Len(v) : v[k].kind # "header"
<1> DEFINE c == http!Chunk(n, 0)
           l == Len(w)
           body == Tail(v)
<1>1. /\ c \in Piece /\ c.kind = "chunk" /\ c.from = n /\ c.size = 0
  <2>1. 0 \in Nat
    OBVIOUS
  <2> QED
    BY <2>1, ChunkTyped
<1>2. /\ w \in Seq(Piece) /\ l \in Nat /\ l >= 1 /\ w[1] = http!Header(200, 0, TRUE)
      /\ End(w, l) = n
      /\ \A k \in 2 .. l : /\ w[k].kind = "chunk" /\ w[k].size > 0
                           /\ w[k].from = End(w, k - 1)
  BY DEF Chunks
<1>3. /\ v \in Seq(Piece) /\ Len(v) = l + 1 /\ v[l + 1] = c
      /\ \A k \in 1 .. l : v[k] = w[k]
  <2>1. v = w \o <<c>>
    BY DEF Closed
  <2> HIDE DEF c
  <2> QED
    BY <1>1, <1>2, <2>1, OneMorePiece
<1> HIDE DEF c, l
<1>4. /\ v # <<>> /\ Head(v) = v[1] /\ Len(body) = l
      /\ \A k \in 1 .. l : body[k] = v[k + 1]
  <2>1. Len(v) >= 1 /\ Len(v) - 1 = l
    BY <1>2, <1>3
  <2> QED
    BY <1>3, <2>1, HeadAndTail
<1> HIDE DEF body
<1>5. Head(v) = http!Header(200, 0, TRUE)
  <2>1. 1 \in 1 .. l
    BY <1>2
  <2> QED
    BY <1>2, <1>3, <1>4, <2>1
<1>6. /\ Head(v).kind = "header" /\ Head(v).status = 200 /\ Head(v).chunked = TRUE
  BY <1>5 DEF http!Header
<1>7. body[l] = c /\ l > 0
  BY <1>2, <1>3, <1>4
<1>8. \A k \in 1 .. l - 1 : body[k] = w[k + 1] /\ k + 1 \in 2 .. l
  BY <1>2, <1>3, <1>4
<1>9. \A k \in 1 .. l - 1 : body[k].size > 0
  BY <1>2, <1>8
<1>10. http!Contiguous(body)
  <2> SUFFICES ASSUME NEW k \in 1 .. l
               PROVE  body[k].from = IF k = 1 THEN 0 ELSE body[k - 1].from + body[k - 1].size
    BY <1>4 DEF http!Contiguous
  <2>1. body[k].from = End(w, k)
    <3>1. CASE k = l
      BY <1>1, <1>2, <1>7, <3>1
    <3>2. CASE k # l
      <4>1. k \in 1 .. l - 1 /\ (k + 1) - 1 = k
        BY <1>2, <3>2
      <4> QED
        BY <1>2, <1>8, <4>1
    <3> QED
      BY <3>1, <3>2
  <2>2. k # 1 => body[k - 1] = w[k]
    <3>1. k # 1 => k - 1 \in 1 .. l - 1 /\ (k - 1) + 1 = k
      BY <1>2
    <3> QED
      BY <1>8, <3>1
  <2> QED
    BY <2>1, <2>2 DEF End
<1>11. http!Decoded(v) = {n}
  BY <1>1, <1>4, <1>6, <1>7, <1>9, <1>10 DEF http!Decoded, body
<1>12. ASSUME NEW k \in 2 .. Len(v) PROVE v[k].kind # "header"
  <2>1. k = l + 1 \/ (k \in 2 .. l /\ k \in 1 .. l)
    BY <1>2, <1>3
  <2> QED
    BY <1>1, <1>2, <1>3, <2>1
<1> QED
  BY <1>3, <1>6, <1>11, <1>12

LEMMA HttpInit == ASSUME http!Init PROVE HttpInv
<1>1. http!TypeOK
  <2>1. SubSeq(http!Request, 1, 0) = <<>> /\ 0 \in 0 .. Len(http!Request) /\ Len(<<>>) = 0
    BY DEF http!Request
  <2> QED
    BY <2>1 DEF http!Init, http!TypeOK
<1>2. http!Request # <<>> /\ <<>> \in Seq(Piece) /\ Len(<<>>) = 0
  BY DEF http!Request
<1> QED
  BY <1>1, <1>2 DEF http!Init, HttpInv, http!WaitsOnlyForSplitEnd

\* More of the request: nothing of the answer changes.
LEMMA RecvHolds == ASSUME HttpInv, http!Recv \/ http!RecvEnd PROVE HttpInv'
<1>1. /\ serving = "recv" /\ wire = <<>> /\ sent = 0
      /\ want' = want /\ sent' = sent /\ wire' = wire /\ client' = client
      /\ serving' \in {"recv", "parse"}
  BY DEF HttpInv, http!Recv, http!RecvEnd
<1>2. /\ request' \in {SubSeq(http!Request, 1, k) : k \in 0 .. Len(http!Request)}
      /\ last' \in 0 .. Len(request') /\ http!WaitsOnlyForSplitEnd'
  <2>1. CASE http!Recv
    <3>1. PICK n \in 1 .. Len(http!Request) - Len(request) :
             /\ last' = n /\ request' = SubSeq(http!Request, 1, Len(request) + n)
             /\ serving' = IF request' = http!Request /\ n >= 2 THEN "parse" ELSE "recv"
      BY <2>1 DEF http!Recv
    <3>2. PICK k \in 0 .. 5 : request = SubSeq(http!Request, 1, k)
      BY DEF HttpInv, http!TypeOK, http!Request
    <3>3. Len(http!Request) = 5
      BY DEF http!Request
    <3>4. \A j \in 0 .. 5 : Len(SubSeq(http!Request, 1, j)) = j
      <4>1. ASSUME NEW s, NEW j \in 0 .. 5 PROVE Len(SubSeq(s, 1, j)) = j
        OBVIOUS
      <4> QED
        BY <4>1
    <3>5. Len(request) = k
      BY <3>2, <3>4
    <3>6. n \in Nat /\ k + n \in 0 .. 5 /\ n \in 0 .. k + n
      BY <3>1, <3>3, <3>5
    <3>7. Len(request') = k + n
      BY <3>1, <3>4, <3>5, <3>6
    <3>8. n >= 2 \/ n = 1
      BY <3>1, <3>3, <3>5
    <3> QED
      BY <3>1, <3>3, <3>5, <3>6, <3>7, <3>8 DEF http!WaitsOnlyForSplitEnd
  <2>2. CASE http!RecvEnd
    BY <2>2 DEF http!RecvEnd, http!WaitsOnlyForSplitEnd, HttpInv, http!TypeOK
  <2> QED
    BY <2>1, <2>2
<1>3. http!TypeOK'
  BY <1>1, <1>2 DEF HttpInv, http!TypeOK
<1> QED
  BY <1>1, <1>2, <1>3 DEF HttpInv

\* The answer depends on the request, which changes no more.
LEMMA RequestStays ==
    ASSUME want' = want, request' = request
    PROVE  /\ http!EnableChunked' = http!EnableChunked /\ http!BodySize' = http!BodySize
           /\ http!Got("path")' = http!Got("path")
           /\ http!Compressed(PageSize)' = http!Compressed(PageSize)
           /\ (wire' = wire => (Answered' <=> Answered))
  BY DEF http!EnableChunked, http!BodySize, http!Got, http!Compressed, http!EnableGzip, Answered

LEMMA TypeStays ==
    ASSUME HttpInv, want' = want, request' = request, last' = last, client' = client,
           sent' = sent \/ sent' < http!BodySize + ChunkSize,
           serving' \in {"recv", "parse", "chunk", "end", "notfound", "closed", "died"},
           serving' # "recv"
    PROVE  http!TypeOK' /\ http!WaitsOnlyForSplitEnd'
  BY RequestStays DEF HttpInv, http!TypeOK, http!WaitsOnlyForSplitEnd

\* A header, and a body of which the client knows the end.
LEMMA WholeAnswer ==
    ASSUME NEW status \in Nat, NEW length \in Nat, NEW n \in Nat
    PROVE  IsWhole(Whole(status, length, n), status, length, n)
<1> DEFINE w == Whole(status, length, n)
           h == http!Header(status, length, FALSE)
           b == http!Bytes(n)
<1>1. /\ h \in Piece /\ h.kind = "header" /\ h.status = status /\ h.length = length
      /\ h.chunked = FALSE
  BY HeaderTyped
<1>2. b \in Piece /\ b.kind = "body" /\ b.size = n
  BY BytesTyped
<1>0. w = <<h, b>>
  BY DEF w, Whole
<1> HIDE DEF w, h, b
<1>3. /\ w \in Seq(Piece) /\ w # <<>> /\ Head(w) = h /\ Tail(w) = <<b>> /\ Len(w) = 2
      /\ w[2] = b
  <2>1. LET u == <<h, b>> IN
        /\ u \in Seq(Piece) /\ u # <<>> /\ Head(u) = h /\ Tail(u) = <<b>> /\ Len(u) = 2 /\ u[2] = b
    BY <1>1, <1>2, TwoPieces
  <2> QED
    BY <1>0, <2>1, Zenon
<1>4. Len(<<b>>) = 1 /\ <<b>>[1] = b
  OBVIOUS
<1>5. n = length => http!Decoded(w) = {n}
  BY <1>1, <1>2, <1>3, <1>4 DEF http!Decoded
<1>6. \A k \in 2 .. Len(w) : w[k].kind # "header"
  BY <1>2, <1>3
<1>7. IsWhole(w, status, length, n)
  <2>1. Tail(w) = One(n)
    BY <1>3 DEF b, One
  <2> QED
    BY <1>1, <1>3, <1>5, <1>6, <2>1 DEF IsWhole
<1> QED
  BY <1>7 DEF w

\* What the file needs is written at once, or a header and then the chunks.
LEMMA ParseHolds == ASSUME http!HttpAssumption, HttpInv, http!Parse PROVE HttpInv'
<1>1. /\ serving = "parse" /\ wire = <<>> /\ sent = 0 /\ sent' = sent
      /\ want' = want /\ request' = request /\ last' = last /\ client' = client
      /\ want \in [path : BOOLEAN, http11 : BOOLEAN, gzip : BOOLEAN, file : 0 .. http!None]
  BY DEF HttpInv, http!Parse
<1>2. CASE ~(want.path /\ http!Got("path")) /\ serving' = "closed" /\ wire' = wire
  BY <1>1, <1>2, TypeStays, RequestStays DEF HttpInv
<1>3. CASE want.file = http!None /\ serving' = "notfound" /\ wire' = wire
  BY <1>1, <1>3, TypeStays, RequestStays DEF HttpInv
<1>4. CASE serving' = "notfound" /\ client = "gone" /\ wire' = wire
  BY <1>1, <1>4, TypeStays, RequestStays DEF HttpInv
<1>5. CASE /\ want.file # http!None /\ http!EnableChunked /\ client # "gone" /\ serving' = "chunk"
           /\ wire' = wire \o <<http!Header(200, 0, TRUE)>>
  <2> DEFINE h == http!Header(200, 0, TRUE)
  <2>1. h \in Piece
    BY DEF http!Header, Piece
  <2>2. wire' = <<h>> /\ wire' \in Seq(Piece) /\ Len(wire') = 1 /\ wire'[1] = h
    <3> HIDE DEF h
    <3>1. wire' = <<>> \o <<h>>
      BY <1>1, <1>5 DEF h
    <3> QED
      BY <2>1, <3>1, FirstPieces
  <2>3. http!BodySize \in Nat
    BY <1>1, <1>5, SizesTyped
  <2>4. (IF 0 < http!BodySize THEN 0 ELSE http!BodySize) = 0
    BY <2>3
  <2>5. \A k \in 2 .. Len(wire') : FALSE
    BY <2>2
  <2>6. Chunks(wire', 0)
    <3>1. End(wire', 1) = 0
      BY DEF End
    <3>2. End(wire', Len(wire')) = 0 /\ Len(wire') >= 1
      BY <2>2, <3>1
    <3> QED
      BY <2>2, <2>5, <3>2 DEF Chunks
  <2>7. http!TypeOK' /\ http!WaitsOnlyForSplitEnd'
    BY <1>1, <1>5, TypeStays
  <2> QED
    BY <1>1, <1>5, <2>2, <2>4, <2>5, <2>6, <2>7, RequestStays DEF HttpInv
<1>6. CASE /\ want.file # http!None /\ ~http!EnableChunked /\ client # "gone" /\ serving' = "closed"
           /\ wire' = wire \o <<http!Header(200, want.file, FALSE), http!Bytes(http!BodySize)>>
  <2>1. http!BodySize \in Nat /\ want.file \in Nat
    BY <1>1, <1>6, SizesTyped
  <2>2. wire' = Whole(200, want.file, http!BodySize)
    <3> DEFINE h == http!Header(200, want.file, FALSE)
               b == http!Bytes(http!BodySize)
    <3>1. wire' = <<>> \o <<h, b>>
      BY <1>1, <1>6
    <3> HIDE DEF h, b
    <3>2. wire' = <<h, b>>
      BY <3>1, FirstPieces
    <3> QED
      BY <3>2 DEF h, b, Whole
  <2>3. /\ wire' \in Seq(Piece) /\ Head(wire').status = 200 /\ Head(wire').length = want.file
        /\ Tail(wire') = One(http!BodySize)
        /\ http!BodySize = want.file => http!Decoded(wire') = {http!BodySize}
        /\ \A k \in 2 .. Len(wire') : wire'[k].kind # "header"
    <3>1. IsWhole(wire', 200, want.file, http!BodySize)
      BY <2>1, <2>2, WholeAnswer, 200 \in Nat
    <3> QED
      BY <3>1 DEF IsWhole
  <2>4. Answered'
    <3>1. /\ want'.file # http!None /\ Head(wire').status = 200
          /\ http!BodySize' = http!BodySize /\ http!EnableChunked' = http!EnableChunked
      BY <1>1, <1>6, <2>3, RequestStays
    <3>2. CASE http!BodySize = want.file
      <4>1. http!Decoded(wire') = {http!BodySize'}
        BY <2>3, <3>1, <3>2
      <4> QED
        BY <1>1, <3>1, <3>2, <4>1 DEF Answered
    <3>3. CASE http!BodySize # want.file
      <4>1. Head(wire').length = want'.file /\ Tail(wire') = One(http!BodySize')
        BY <1>1, <2>3, <3>1
      <4> QED
        BY <1>1, <1>6, <3>1, <3>3, <4>1 DEF Answered
    <3> QED
      BY <3>2, <3>3
  <2>5. http!TypeOK' /\ http!WaitsOnlyForSplitEnd'
    BY <1>1, <1>6, TypeStays
  <2> QED
    BY <1>1, <1>6, <2>3, <2>4, <2>5, RequestStays DEF HttpInv
<1> QED
  BY <1>2, <1>3, <1>4, <1>5, <1>6 DEF http!Parse, http!SendAll

LEMMA SendChunkHolds == ASSUME http!HttpAssumption, HttpInv, http!SendChunk PROVE HttpInv'
<1>1. /\ serving = "chunk" /\ want.file # http!None /\ http!EnableChunked
      /\ want' = want /\ request' = request /\ last' = last /\ client' = client
      /\ Chunks(wire, IF sent < http!BodySize THEN sent ELSE http!BodySize)
      /\ sent \in Nat /\ wire \in Seq(Piece)
      /\ want \in [path : BOOLEAN, http11 : BOOLEAN, gzip : BOOLEAN, file : 0 .. http!None]
  BY DEF HttpInv, http!SendChunk
<1>2. http!BodySize \in Nat /\ ChunkSize \in Nat /\ ChunkSize > 0
  BY <1>1, SizesTyped
<1>3. CASE sent >= http!BodySize
  <2>1. serving' = "end" /\ wire' = wire /\ sent' = sent /\ Chunks(wire, http!BodySize)
    BY <1>1, <1>2, <1>3 DEF http!SendChunk
  <2>2. http!TypeOK' /\ http!WaitsOnlyForSplitEnd'
    BY <1>1, <2>1, TypeStays
  <2> QED
    BY <1>1, <2>1, <2>2, RequestStays DEF HttpInv
<1>4. CASE sent < http!BodySize
  <2> DEFINE n == IF sent + ChunkSize <= http!BodySize THEN ChunkSize ELSE http!BodySize - sent
  <2>1. n \in Nat /\ n > 0
    BY <1>1, <1>2, <1>4
  <2>2. /\ sent' = sent + ChunkSize /\ sent' \in Nat /\ sent' < http!BodySize + ChunkSize
        /\ \/ client # "gone" /\ wire' = wire \o <<http!Chunk(sent, n)>> /\ serving' = "chunk"
           \/ client = "gone" /\ wire' = wire /\ serving' = "notfound"
    <3>1. /\ sent' = sent + ChunkSize
          /\ \/ client # "gone" /\ wire' = wire \o <<http!Chunk(sent, n)>> /\ serving' = "chunk"
             \/ client = "gone" /\ wire' = wire /\ serving' = "notfound"
      BY <1>4 DEF http!SendChunk, http!SendAll
    <3>2. sent + ChunkSize \in Nat /\ sent + ChunkSize < http!BodySize + ChunkSize
      BY <1>1, <1>2, <1>4
    <3> QED
      BY <3>1, <3>2
  <2>3. http!TypeOK' /\ http!WaitsOnlyForSplitEnd'
    BY <1>1, <2>2, TypeStays
  <2>4. sent + n = IF sent' < http!BodySize THEN sent' ELSE http!BodySize
    BY <1>1, <1>2, <1>4, <2>2
  <2>5. Chunks(wire, sent)
    BY <1>1, <1>4
  <2> HIDE DEF n
  <2>6. CASE client # "gone" /\ wire' = wire \o <<http!Chunk(sent, n)>> /\ serving' = "chunk"
    <3>1. Chunks(wire', sent + n)
      BY <1>1, <2>1, <2>5, <2>6, ChunksGrow
    <3>2. Chunks(wire', IF sent' < http!BodySize THEN sent' ELSE http!BodySize)
      BY <2>4, <3>1
    <3>3. wire' \in Seq(Piece) /\ \A k \in 2 .. Len(wire') : wire'[k].kind # "header"
      BY <3>1 DEF Chunks
    <3> QED
      BY <1>1, <2>2, <2>3, <2>6, <3>2, <3>3, RequestStays DEF HttpInv
  <2>7. CASE client = "gone" /\ wire' = wire /\ serving' = "notfound"
    BY <1>1, <2>2, <2>3, <2>7, RequestStays DEF HttpInv
  <2> QED
    BY <2>2, <2>6, <2>7
<1> QED
  BY <1>1, <1>2, <1>3, <1>4

LEMMA SendLastChunkHolds == ASSUME http!HttpAssumption, HttpInv, http!SendLastChunk PROVE HttpInv'
<1>1. /\ serving = "end" /\ want.file # http!None /\ http!EnableChunked /\ sent' = sent
      /\ want' = want /\ request' = request /\ last' = last /\ client' = client
      /\ Chunks(wire, http!BodySize)
      /\ want \in [path : BOOLEAN, http11 : BOOLEAN, gzip : BOOLEAN, file : 0 .. http!None]
  BY DEF HttpInv, http!SendLastChunk
<1>2. http!BodySize \in Nat
  BY <1>1, SizesTyped
<1>3. CASE client = "gone" /\ wire' = wire /\ serving' = "notfound"
  BY <1>1, <1>3, TypeStays, RequestStays DEF HttpInv
<1>4. CASE client # "gone" /\ wire' = wire \o <<http!Chunk(http!BodySize, 0)>> /\ serving' = "closed"
  <2>1. /\ wire' \in Seq(Piece) /\ Head(wire').status = 200
        /\ http!Decoded(wire') = {http!BodySize}
        /\ \A k \in 2 .. Len(wire') : wire'[k].kind # "header"
    <3>1. wire' = Closed(wire, http!BodySize)
      BY <1>4 DEF Closed
    <3> QED
      BY <1>1, <1>2, <3>1, ChunksDecode
  <2>2. Answered'
    BY <1>1, <2>1, RequestStays DEF Answered
  <2>3. http!TypeOK' /\ http!WaitsOnlyForSplitEnd'
    BY <1>1, <1>4, TypeStays
  <2> QED
    BY <1>1, <1>4, <2>1, <2>2, <2>3, RequestStays DEF HttpInv
<1> QED
  BY <1>3, <1>4 DEF http!SendLastChunk, http!SendAll

\* The page goes to a client that is there, which has had nothing yet.
LEMMA NotFoundHolds == ASSUME http!HttpAssumption, HttpInv, http!NotFound PROVE HttpInv'
<1>1. /\ serving = "notfound" /\ sent' = sent /\ (client = "gone" \/ (want.file = http!None /\ wire = <<>>))
      /\ want' = want /\ request' = request /\ last' = last /\ client' = client
      /\ want \in [path : BOOLEAN, http11 : BOOLEAN, gzip : BOOLEAN, file : 0 .. http!None]
  BY DEF HttpInv, http!NotFound
<1>2. CASE client = "gone" /\ serving' = "died" /\ wire' = wire
  BY <1>1, <1>2, TypeStays, RequestStays DEF HttpInv
<1>3. CASE client # "gone"
  <2> DEFINE n == http!Compressed(PageSize)
  <2>1. n \in Nat
    BY <1>1, SizesTyped
  <2>2. serving' = "closed" /\ wire' = Whole(404, n, n)
    <3> DEFINE h == http!Header(404, n, FALSE)
               b == http!Bytes(n)
    <3>1. serving' = "closed" /\ wire' = <<>> \o <<h, b>>
      BY <1>1, <1>3 DEF http!NotFound
    <3> HIDE DEF h, b
    <3>2. wire' = <<h, b>>
      BY <3>1, FirstPieces
    <3> QED
      BY <3>1, <3>2 DEF h, b, Whole
  <2> HIDE DEF n
  <2>3. /\ wire' \in Seq(Piece) /\ Head(wire').status = 404 /\ http!Decoded(wire') = {n}
        /\ \A k \in 2 .. Len(wire') : wire'[k].kind # "header"
    <3>1. IsWhole(wire', 404, n, n)
      BY <2>1, <2>2, WholeAnswer, 404 \in Nat
    <3> QED
      BY <3>1 DEF IsWhole
  <2>4. Answered'
    BY <1>1, <1>3, <2>3, RequestStays DEF Answered, n
  <2>5. http!TypeOK' /\ http!WaitsOnlyForSplitEnd'
    BY <1>1, <2>2, TypeStays
  <2> QED
    BY <1>1, <1>3, <2>2, <2>3, <2>4, <2>5, RequestStays DEF HttpInv
<1> QED
  BY <1>2, <1>3 DEF http!NotFound

LEMMA HttpStep ==
    ASSUME http!HttpAssumption, HttpInv, [http!Next]_http_vars
    PROVE  HttpInv'
<1>1. CASE http!ClientStops
  <2>1. /\ want' = want /\ request' = request /\ last' = last /\ serving' = serving
        /\ sent' = sent /\ wire' = wire /\ client' \in {"done", "gone"} /\ client' # client
        /\ client # "gone"
    BY <1>1 DEF http!ClientStops
  <2>2. http!TypeOK' /\ http!WaitsOnlyForSplitEnd'
    BY <2>1, RequestStays DEF HttpInv, http!TypeOK, http!WaitsOnlyForSplitEnd
  <2> QED
    BY <2>1, <2>2, RequestStays DEF HttpInv
<1>2. CASE UNCHANGED http_vars
  <2>1. /\ want' = want /\ request' = request /\ last' = last /\ serving' = serving
        /\ sent' = sent /\ wire' = wire /\ client' = client
    BY <1>2 DEF http_vars
  <2>2. http!TypeOK' /\ http!WaitsOnlyForSplitEnd'
    BY <2>1, RequestStays DEF HttpInv, http!TypeOK, http!WaitsOnlyForSplitEnd
  <2> QED
    BY <2>1, <2>2, RequestStays DEF HttpInv
<1> QED
  BY <1>1, <1>2, RecvHolds, ParseHolds, SendChunkHolds, SendLastChunkHolds, NotFoundHolds
     DEF http!Next, http!Thread

LEMMA HttpInvImplies == ASSUME HttpInv PROVE http!AnswerIsFile
  BY DEF HttpInv, http!AnswerIsFile, Answered, One

-----------------------------------------------------------------------------
(* simple-traffic-gen.                                                     *)

LEMMA TrafficAssumed ==
    /\ Iters \in Nat \ {0} /\ MsgSize \in Nat \ {0}
    /\ SizeBytes \in Nat \ {0} /\ BufSize \in Nat \ {0} /\ Window \in Nat \ {0}
  BY ProgramsAssumption DEF ProgramsAssumption, traffic!TrafficGenAssumption

\* The bytes of sizes; those that the server has not acted upon; and the first
\* n bytes of the size v.
SizeBits == {0, MsgSize} \X (1 .. SizeBytes)
Asked == asked \o toServer
Frame(v, n) == [k \in 1 .. n |-> <<v, k>>]

\* What each call has moved and has left make up what it was called for.
CallsInv ==
    /\ traffic!Writing("client") => /\ left["client"] \in 1 .. SizeBytes
                                    /\ left["client"] + moved["client"] = SizeBytes
    /\ traffic!Reading("client") => /\ left["client"] \in 1 .. MsgSize
                                    /\ left["client"] + moved["client"] = MsgSize
    /\ traffic!Writing("server") => /\ left["server"] \in 1 .. MsgSize
                                    /\ left["server"] + moved["server"] = MsgSize
    /\ traffic!Reading("server") => /\ left["server"] \in 1 .. SizeBytes
                                    /\ left["server"] + moved["server"] = SizeBytes
                                    /\ Len(asked) = moved["server"]
    /\ calling["server"] \in {"accept", "writeData"} => asked = <<>>

\* Each side is in its own calls, and the loops of the two keep step.
CountsInv ==
    /\ calling["client"] \in {"connect", "writeSize", "readData", "writeEnd", "done", "failed"}
    /\ calling["server"] \in {"accept", "readSize", "writeData", "done", "failed"}
    /\ round <= messages /\ messages <= round + 1
    /\ calling["client"] = "connect" => connected = FALSE /\ round = 0
    /\ connected = FALSE => calling["server"] = "accept"
    /\ calling["client"] \in {"writeSize", "readData"} => round < Iters
    /\ calling["client"] \in {"writeEnd", "done"} => round = Iters
    /\ calling["client"] \in {"connect", "writeSize", "writeEnd", "done"} => messages = round
    /\ calling["server"] = "writeData" => messages = round /\ round < Iters
    /\ calling["server"] = "done" => messages = Iters

\* A server that is not about to write a message has been asked for the next
\* one, or a part of that, or for nothing.
RequestInv ==
    /\ calling["server"] \in {"accept", "readSize"} =>
        \/ calling["client"] \in {"connect", "failed"} /\ Asked = <<>>
        \/ calling["client"] = "writeSize" /\ Asked = Frame(MsgSize, moved["client"])
        \/ calling["client"] = "readData" /\ messages = round /\ Asked = Frame(MsgSize, SizeBytes)
        \/ calling["client"] = "readData" /\ messages = round + 1 /\ Asked = <<>>
        \/ calling["client"] = "writeEnd" /\ Asked = Frame(0, moved["client"])
        \/ calling["client"] = "done" /\ Asked = Frame(0, SizeBytes)
        \/ /\ calling["client"] = "failed" /\ messages = round /\ round < Iters
           /\ \E n \in 0 .. SizeBytes : Asked = Frame(MsgSize, n)
        \/ /\ calling["client"] = "failed" /\ messages = Iters
           /\ \E n \in 0 .. SizeBytes : Asked = Frame(0, n)
    /\ calling["server"] = "writeData" => calling["client"] \in {"readData", "failed"} /\ toServer = <<>>
    /\ calling["server"] = "done" => calling["client"] \in {"done", "failed"}

\* What is under way to a client that reads is what the server has written and
\* it has not read; it completes the message exactly when the server is done
\* with it.
AnswerInv ==
    /\ calling["client"] \in {"connect", "writeSize", "writeEnd", "done"} => toClient = 0
    /\ calling["client"] = "readData" => \/ messages = round /\ toClient < left["client"]
                                         \/ messages = round + 1 /\ toClient = left["client"]
    /\ calling["client"] = "readData" /\ calling["server"] = "writeData" =>
           moved["server"] = moved["client"] + toClient
    /\ (/\ calling["client"] = "readData" /\ messages = round
        /\ calling["server"] \in {"accept", "readSize"}) =>
           toClient = 0 /\ moved["client"] = 0

TrafficInv == traffic!TypeOK /\ CallsInv /\ CountsInv /\ RequestInv /\ AnswerInv

-----------------------------------------------------------------------------
(* Sequences of bytes.                                                     *)

\* The first n elements, and the others.
Taken(b, n) == SubSeq(b, 1, n)
Rest(b, n) == SubSeq(b, n + 1, Len(b))

LEMMA TakenAndRest ==
    ASSUME NEW S, NEW b \in Seq(S), NEW n \in 1 .. Len(b)
    PROVE  /\ Taken(b, n) \in Seq(S) /\ Len(Taken(b, n)) = n
           /\ Rest(b, n) \in Seq(S) /\ Taken(b, n) \o Rest(b, n) = b
<1>1. Len(b) \in Nat /\ \A k \in 1 .. Len(b) : b[k] \in S
    BY LenProperties, ElementOfSeq
<1>2. Taken(b, n) \in Seq(S) /\ Len(Taken(b, n)) = n
    BY <1>1, SubSeqProperties DEF Taken
<1>3. Rest(b, n) \in Seq(S)
    BY <1>1, SubSeqProperties DEF Rest
<1>4. Taken(b, n) \o Rest(b, n) = SubSeq(b, 1, Len(b))
    BY <1>1, ConcatAdjacentSubSeq DEF Taken, Rest
<1>5. SubSeq(b, 1, Len(b)) = b
    BY SubSeqFull
<1> QED BY <1>2, <1>3, <1>4, <1>5

\* Taking the first n elements of b to the end of a leaves a \o b as it is.
LEMMA CutAndJoin ==
    ASSUME NEW S, NEW a \in Seq(S), NEW b \in Seq(S), NEW n \in 1 .. Len(b)
    PROVE  (a \o Taken(b, n)) \o Rest(b, n) = a \o b
<1> DEFINE x == Taken(b, n)
           y == Rest(b, n)
<1>1. x \in Seq(S) /\ y \in Seq(S)
    BY TakenAndRest
<1>2. x \o y = b
    BY TakenAndRest
<1> HIDE DEF x, y
<1>3. (a \o x) \o y = a \o (x \o y)
    BY <1>1, ConcatAssociative, SMTT(30)
<1>4. (a \o x) \o y = a \o b
    BY <1>2, <1>3
<1> QED BY <1>4 DEF x, y

\* A frame is a sequence of bytes.
LEMMA FrameIsSeq ==
    ASSUME NEW v \in {0, MsgSize}, NEW n \in 0 .. SizeBytes
    PROVE  /\ Frame(v, n) \in Seq(SizeBits) /\ Len(Frame(v, n)) = n
           /\ \A k \in 1 .. n : Frame(v, n)[k] = <<v, k>>
BY TrafficAssumed DEF Frame, SizeBits

\* The n bytes behind the first m make the frame longer.
LEMMA FrameGrows ==
    ASSUME NEW v \in {0, MsgSize}, NEW m \in 0 .. SizeBytes, NEW n \in 1 .. SizeBytes - m
    PROVE  /\ [k \in 1 .. n |-> <<v, m + k>>] \in Seq(SizeBits)
           /\ Frame(v, m) \o [k \in 1 .. n |-> <<v, m + k>>] = Frame(v, m + n)
<1> DEFINE more == [k \in 1 .. n |-> <<v, m + k>>]
<1>1. more \in Seq(SizeBits) /\ Len(more) = n /\ \A k \in 1 .. n : more[k] = <<v, m + k>>
    BY TrafficAssumed DEF SizeBits
<1>2. /\ Frame(v, m) \in Seq(SizeBits) /\ Len(Frame(v, m)) = m
      /\ \A k \in 1 .. m : Frame(v, m)[k] = <<v, k>>
    BY FrameIsSeq
<1>0. m + n \in 0 .. SizeBytes /\ m \in Nat /\ n \in Nat
    BY TrafficAssumed
<1>3. /\ Frame(v, m + n) \in Seq(SizeBits) /\ Len(Frame(v, m + n)) = m + n
      /\ \A k \in 1 .. m + n : Frame(v, m + n)[k] = <<v, k>>
    BY <1>0, FrameIsSeq
<1> DEFINE old == Frame(v, m)
<1> HIDE DEF more, old
<1>a. /\ old \in Seq(SizeBits) /\ Len(old) = m
      /\ \A k \in 1 .. m : old[k] = <<v, k>>
    BY <1>2 DEF old
<1>b. /\ old \o more \in Seq(SizeBits) /\ Len(old \o more) = m + n
      /\ \A k \in 1 .. m + n : (old \o more)[k] = IF k <= m THEN old[k] ELSE more[k - m]
    BY <1>0, <1>1, <1>a, ConcatProperties
<1>4. ASSUME NEW k \in 1 .. m + n PROVE (old \o more)[k] = <<v, k>>
    <2>1. CASE k <= m
        <3>1. k \in 1 .. m
            BY <1>0, <2>1
        <3> QED BY <1>a, <1>b, <2>1, <3>1
    <2>2. CASE k > m
        <3>1. k - m \in 1 .. n /\ m + (k - m) = k
            BY <1>0, <2>2
        <3>2. more[k - m] = <<v, k>>
            BY <1>1, <3>1
        <3>3. (old \o more)[k] = more[k - m]
            BY <1>0, <1>b, <2>2
        <3> QED BY <3>2, <3>3
    <2>3. k <= m \/ k > m
        BY <1>0
    <2> QED BY <2>1, <2>2, <2>3, Zenon
<1> DEFINE new == Frame(v, m + n)
<1> HIDE DEF new
<1>5. new \in Seq(SizeBits) /\ Len(new) = m + n /\ \A k \in 1 .. m + n : new[k] = <<v, k>>
    BY <1>3 DEF new
<1>6. old \o more = new
    BY <1>b, <1>4, <1>5, SeqEqual
<1> QED BY <1>1, <1>6 DEF more, old, new

\* SizeBytes bytes out of a frame are all of it: the size that was sent.
LEMMA WholeFrame ==
    ASSUME NEW v \in {0, MsgSize}, NEW n \in 0 .. SizeBytes,
           NEW a \in Seq(SizeBits), NEW b \in Seq(SizeBits),
           a \o b = Frame(v, n), Len(a) = SizeBytes
    PROVE  traffic!ValueOf(a) = v /\ b = <<>> /\ n = SizeBytes
<1>1. Len(a \o b) = n /\ \A k \in 1 .. n : (a \o b)[k] = <<v, k>>
    BY FrameIsSeq
<1>a. Len(b) \in Nat
    BY LenProperties
<1>b. /\ Len(a \o b) = SizeBytes + Len(b)
      /\ \A k \in 1 .. SizeBytes + Len(b) :
            (a \o b)[k] = IF k <= SizeBytes THEN a[k] ELSE b[k - SizeBytes]
    BY ConcatProperties
<1>2. \A k \in 1 .. SizeBytes : (a \o b)[k] = a[k]
    BY <1>a, <1>b, TrafficAssumed
<1>3. n = SizeBytes /\ Len(b) = 0
    BY <1>1, <1>a, <1>b, TrafficAssumed
<1>4. b = <<>>
    BY <1>3, EmptySeq
<1>5. \A k \in 1 .. SizeBytes : a[k] = <<v, k>>
    BY <1>1, <1>2, <1>3
<1>6. a[1][1] = v
    BY <1>5, TrafficAssumed
<1> QED BY <1>3, <1>4, <1>5, <1>6 DEF traffic!ValueOf

-----------------------------------------------------------------------------
(* The steps.                                                              *)

LEMMA TrafficInit == traffic!Init => TrafficInv
<1> SUFFICES ASSUME traffic!Init PROVE TrafficInv
    OBVIOUS
<1> USE TrafficAssumed DEF traffic!Init, traffic!Sides
<1>1. traffic!TypeOK
    <2>1. <<>> \in Seq(SizeBits)
        OBVIOUS
    <2>2. calling \in [traffic!Sides -> {"connect", "accept"}]
        OBVIOUS
    <2>3. 0 \in 0 .. MsgSize + SizeBytes /\ 0 \in 0 .. Iters /\ 0 \in 0 .. Window
        OBVIOUS
    <2> QED BY <2>1, <2>2, <2>3 DEF traffic!TypeOK, SizeBits
<1>2. CallsInv
    BY DEF CallsInv, traffic!Writing, traffic!Reading
<1>3. CountsInv
    BY DEF CountsInv
<1>4. RequestInv
    <2>1. Asked = <<>>
        BY DEF Asked
    <2> QED BY <2>1 DEF RequestInv
<1>5. AnswerInv
    BY DEF AnswerInv
<1> QED BY <1>1, <1>2, <1>3, <1>4, <1>5 DEF TrafficInv

\* A side that fails, for whatever reason, asks for and answers nothing more.
LEMMA SideFailHolds ==
    ASSUME TrafficInv, NEW s \in traffic!Sides,
           calling[s] \notin traffic!Ended \union {"connect", "accept"},
           traffic!Enter(s, "failed", 0),
           UNCHANGED <<round, messages, asked, toServer, toClient, broken, connected>>,
           faulted' \in BOOLEAN
    PROVE  TrafficInv'
<1> USE TrafficAssumed DEF TrafficInv, traffic!Enter, traffic!Sides, traffic!Ended
<1>1. traffic!TypeOK'
    BY DEF traffic!TypeOK
<1>2. CallsInv'
    BY DEF CallsInv, traffic!TypeOK, traffic!Writing, traffic!Reading
<1>3. CountsInv'
    BY DEF CountsInv, traffic!TypeOK
<1>4. RequestInv'
    <2>1. CASE s = "server"
        BY <2>1 DEF RequestInv, traffic!TypeOK
    <2>2. CASE s = "client"
        <3> USE <2>2
        <3>1. calling'["server"] = calling["server"] /\ calling'["client"] = "failed" /\ Asked' = Asked
            BY DEF traffic!TypeOK, Asked
        <3>2. CASE calling["server"] \in {"accept", "readSize"}
            <4>1. CASE calling["client"] = "writeSize"
                <5>1. Asked = Frame(MsgSize, moved["client"]) /\ messages = round /\ round < Iters
                    BY <3>2, <4>1 DEF RequestInv, CountsInv
                <5>2. moved["client"] \in 0 .. SizeBytes
                    BY <4>1 DEF CallsInv, traffic!Writing, traffic!TypeOK
                <5> QED BY <3>1, <3>2, <5>1, <5>2 DEF RequestInv
            <4>2. CASE calling["client"] = "readData"
                <5>1. \/ Asked = <<>>
                      \/ messages = round /\ round < Iters /\ Asked = Frame(MsgSize, SizeBytes)
                    BY <3>2, <4>2 DEF RequestInv, CountsInv
                <5>2. SizeBytes \in 0 .. SizeBytes
                    OBVIOUS
                <5> QED BY <3>1, <3>2, <5>1, <5>2 DEF RequestInv
            <4>3. CASE calling["client"] = "writeEnd"
                <5>1. Asked = Frame(0, moved["client"]) /\ messages = Iters
                    BY <3>2, <4>3 DEF RequestInv, CountsInv
                <5>2. moved["client"] \in 0 .. SizeBytes
                    BY <4>3 DEF CallsInv, traffic!Writing, traffic!TypeOK
                <5> QED BY <3>1, <3>2, <5>1, <5>2 DEF RequestInv
            <4> QED BY <4>1, <4>2, <4>3 DEF CountsInv
        <3>3. CASE calling["server"] \notin {"accept", "readSize"}
            BY <3>1, <3>3 DEF RequestInv
        <3> QED BY <3>2, <3>3
    <2> QED BY <2>1, <2>2
<1>5. AnswerInv'
    BY DEF AnswerInv, traffic!TypeOK
<1> QED BY <1>1, <1>2, <1>3, <1>4, <1>5

LEMMA ConnectHolds == TrafficInv /\ traffic!Connect => TrafficInv'
<1> SUFFICES ASSUME TrafficInv, traffic!Connect PROVE TrafficInv'
    OBVIOUS
<1> USE TrafficAssumed DEF TrafficInv, traffic!Connect, traffic!Enter, traffic!Sides
<1>1. traffic!TypeOK'
    BY DEF traffic!TypeOK
<1>2. CallsInv'
    BY DEF CallsInv, CountsInv, traffic!TypeOK, traffic!Writing, traffic!Reading
<1>3. CountsInv'
    BY DEF CountsInv, traffic!TypeOK
<1>4. RequestInv'
    <2>1. Asked = <<>> /\ calling'["client"] = "writeSize" /\ calling'["server"] = "accept"
        BY DEF RequestInv, CountsInv, traffic!TypeOK
    <2>2. Frame(MsgSize, moved'["client"]) = <<>>
        BY DEF Frame, traffic!TypeOK
    <2> QED BY <2>1, <2>2 DEF RequestInv, Asked
<1>5. AnswerInv'
    BY DEF AnswerInv, traffic!TypeOK
<1> QED BY <1>1, <1>2, <1>3, <1>4, <1>5

LEMMA ConnectFailsHolds == TrafficInv /\ traffic!ConnectFails => TrafficInv'
<1> SUFFICES ASSUME TrafficInv, traffic!ConnectFails PROVE TrafficInv'
    OBVIOUS
<1> USE TrafficAssumed DEF TrafficInv, traffic!ConnectFails, traffic!Enter, traffic!Sides
<1>1. traffic!TypeOK'
    BY DEF traffic!TypeOK
<1>2. CallsInv'
    BY DEF CallsInv, CountsInv, traffic!TypeOK, traffic!Writing, traffic!Reading
<1>3. CountsInv'
    BY DEF CountsInv, traffic!TypeOK
<1>4. RequestInv'
    <2>1. Asked = <<>> /\ calling'["client"] = "failed" /\ calling'["server"] = "accept"
        BY DEF RequestInv, CountsInv, traffic!TypeOK
    <2> QED BY <2>1 DEF RequestInv, Asked
<1>5. AnswerInv'
    BY DEF AnswerInv, traffic!TypeOK
<1> QED BY <1>1, <1>2, <1>3, <1>4, <1>5

LEMMA AcceptHolds == TrafficInv /\ traffic!Accept => TrafficInv'
<1> SUFFICES ASSUME TrafficInv, traffic!Accept PROVE TrafficInv'
    OBVIOUS
<1> USE TrafficAssumed DEF TrafficInv, traffic!Accept, traffic!Enter, traffic!Sides
<1>1. traffic!TypeOK'
    BY DEF traffic!TypeOK
<1>2. CallsInv'
    <2>1. Len(<<>>) = 0
        OBVIOUS
    <2> QED BY <2>1 DEF CallsInv, traffic!TypeOK, traffic!Writing, traffic!Reading
<1>3. CountsInv'
    BY DEF CountsInv, traffic!TypeOK
<1>4. RequestInv'
    <2>1. /\ calling'["client"] = calling["client"] /\ moved'["client"] = moved["client"]
          /\ Asked' = Asked /\ calling'["server"] \in {"readSize", "failed"}
        BY DEF traffic!TypeOK, Asked
    <2> QED BY <2>1 DEF RequestInv
<1>5. AnswerInv'
    BY DEF AnswerInv, traffic!TypeOK
<1> QED BY <1>1, <1>2, <1>3, <1>4, <1>5

LEMMA BreakHolds == TrafficInv /\ traffic!Break => TrafficInv'
<1> SUFFICES ASSUME TrafficInv, traffic!Break PROVE TrafficInv'
    OBVIOUS
<1>1. UNCHANGED <<calling, left, moved, round, messages, asked, toServer, toClient, connected>>
      /\ broken' = TRUE /\ faulted' = TRUE
    BY DEF traffic!Break
<1>2. traffic!TypeOK'
    BY <1>1 DEF TrafficInv, traffic!TypeOK
<1>3. CallsInv' /\ CountsInv'
    BY <1>1 DEF TrafficInv, CallsInv, CountsInv, traffic!Writing, traffic!Reading
<1>4. RequestInv' /\ AnswerInv'
    BY <1>1 DEF TrafficInv, RequestInv, AnswerInv, Asked
<1> QED BY <1>2, <1>3, <1>4 DEF TrafficInv

\* The bytes written are the next ones of the size.
LEMMA ClientWriteHolds == TrafficInv /\ traffic!ClientWrite => TrafficInv'
<1> SUFFICES ASSUME TrafficInv, traffic!ClientWrite PROVE TrafficInv'
    OBVIOUS
<1> USE TrafficAssumed DEF TrafficInv, traffic!Sides
<1> DEFINE v == IF calling["client"] = "writeSize" THEN MsgSize ELSE 0
           m == moved["client"]
<1>1. calling["client"] \in {"writeSize", "writeEnd"} /\ v \in {0, MsgSize}
    BY DEF traffic!ClientWrite
<1>2. /\ m \in 0 .. SizeBytes - 1 /\ left["client"] = SizeBytes - m
      /\ traffic!Offset("client") = m /\ traffic!ToMove("client") = left["client"]
    BY <1>1 DEF CallsInv, traffic!TypeOK, traffic!Writing, traffic!Offset,
                traffic!ToMove, traffic!MaxPer, traffic!Bulk, traffic!Low
<1>3. PICK n \in 1 .. traffic!Low(traffic!ToMove("client"), Window - Len(toServer)) :
        /\ toServer' = toServer \o [k \in 1 .. n |-> <<v, traffic!Offset("client") + k>>]
        /\ IF n = left["client"] THEN traffic!AfterWrite ELSE traffic!Advance("client", n)
    BY DEF traffic!ClientWrite
<1>n. n \in 1 .. SizeBytes - m
    BY <1>2 DEF traffic!TypeOK, traffic!Low
<1>4. UNCHANGED <<round, messages, asked, toClient, broken, connected, faulted>>
    BY DEF traffic!ClientWrite
<1> DEFINE more == [k \in 1 .. n |-> <<v, m + k>>]
<1>5. more \in Seq(SizeBits) /\ Frame(v, m) \o more = Frame(v, m + n)
    <2>1. m \in 0 .. SizeBytes
        BY <1>2
    <2> QED BY <1>1, <1>n, <2>1, FrameGrows
<1>6. toServer' = toServer \o more
    <2>1. [k \in 1 .. n |-> <<v, traffic!Offset("client") + k>>] = more
        BY <1>2
    <2> QED BY <1>3, <2>1
<1>7. asked \in Seq(SizeBits) /\ toServer \in Seq(SizeBits)
    BY DEF traffic!TypeOK, SizeBits
<1> HIDE DEF v, m, more
<1>8. toServer' \in Seq(SizeBits) /\ Asked' = Asked \o more
    <2>1. toServer' \in Seq(SizeBits)
        BY <1>5, <1>6, <1>7, ConcatProperties
    <2>2. more \in Seq(SizeBits)
        BY <1>5
    <2>3. (asked \o toServer) \o more = asked \o (toServer \o more)
        BY <1>7, <2>2, ConcatAssociative, SMTT(30)
    <2> QED BY <1>4, <1>6, <2>1, <2>3 DEF Asked
<1>9. calling["server"] \in {"accept", "readSize"} => Asked' = Frame(v, m + n)
    BY <1>1, <1>5, <1>8 DEF RequestInv, v, m
<1>10. \/ /\ n < left["client"] /\ calling' = calling
          /\ left' = [left EXCEPT !["client"] = left["client"] - n]
          /\ moved' = [moved EXCEPT !["client"] = m + n]
       \/ /\ n = SizeBytes - m /\ calling["client"] = "writeSize"
          /\ calling' = [calling EXCEPT !["client"] = "readData"]
          /\ left' = [left EXCEPT !["client"] = MsgSize]
          /\ moved' = [moved EXCEPT !["client"] = 0]
       \/ /\ n = SizeBytes - m /\ calling["client"] = "writeEnd"
          /\ calling' = [calling EXCEPT !["client"] = "done"]
          /\ left' = [left EXCEPT !["client"] = 0]
          /\ moved' = [moved EXCEPT !["client"] = 0]
    <2>1. CASE n = left["client"]
        <3>1. n = SizeBytes - m /\ traffic!AfterWrite
            BY <1>2, <1>3, <2>1
        <3> QED BY <1>1, <3>1 DEF traffic!AfterWrite, traffic!Enter
    <2>2. CASE n # left["client"]
        <3>1. n < left["client"] /\ traffic!Advance("client", n)
            BY <1>2, <1>3, <1>n, <2>2
        <3> QED BY <3>1 DEF traffic!Advance, m
    <2> QED BY <2>1, <2>2
<1>11. /\ calling'["server"] = calling["server"] /\ left'["server"] = left["server"]
       /\ moved'["server"] = moved["server"]
       /\ calling["server"] \notin {"writeData", "done"}
    BY <1>1, <1>10 DEF traffic!TypeOK, RequestInv
<1>12. \/ /\ calling'["client"] = calling["client"] /\ left'["client"] = left["client"] - n
          /\ moved'["client"] = m + n /\ n < left["client"]
       \/ /\ n = SizeBytes - m /\ calling["client"] = "writeSize" /\ calling'["client"] = "readData"
          /\ left'["client"] = MsgSize /\ moved'["client"] = 0
       \/ /\ n = SizeBytes - m /\ calling["client"] = "writeEnd" /\ calling'["client"] = "done"
          /\ left'["client"] = 0 /\ moved'["client"] = 0
    BY <1>10 DEF traffic!TypeOK
<1>13. traffic!TypeOK'
    <2>1. /\ left' \in [traffic!Sides -> 0 .. MsgSize + SizeBytes]
          /\ moved' \in [traffic!Sides -> 0 .. MsgSize + SizeBytes]
        <3>1. \A k \in {m + n, left["client"] - n, MsgSize, 0} : k \in 0 .. MsgSize + SizeBytes
            BY <1>2, <1>n
        <3>2. /\ left \in [traffic!Sides -> 0 .. MsgSize + SizeBytes]
              /\ moved \in [traffic!Sides -> 0 .. MsgSize + SizeBytes]
            BY DEF traffic!TypeOK
        <3> QED BY <1>10, <3>1, <3>2
    <2>2. calling' \in [traffic!Sides -> {"connect", "accept", "writeSize", "readData", "writeEnd",
                                      "readSize", "writeData", "done", "failed"}]
        BY <1>10 DEF traffic!TypeOK
    <2> QED BY <1>4, <1>8, <2>1, <2>2 DEF traffic!TypeOK, SizeBits
<1>14. CallsInv'
    <2>1. traffic!Writing("client")' => /\ left'["client"] \in 1 .. SizeBytes
                                        /\ left'["client"] + moved'["client"] = SizeBytes
        BY <1>1, <1>2, <1>n, <1>12 DEF traffic!Writing
    <2>2. traffic!Reading("client")' => /\ left'["client"] \in 1 .. MsgSize
                                        /\ left'["client"] + moved'["client"] = MsgSize
        BY <1>1, <1>12 DEF traffic!Reading
    <2> QED BY <1>4, <1>11, <2>1, <2>2 DEF CallsInv, traffic!Writing, traffic!Reading
<1>15. CountsInv'
    BY <1>1, <1>4, <1>11, <1>12 DEF CountsInv
<1>16. RequestInv'
    BY <1>1, <1>2, <1>n, <1>4, <1>9, <1>11, <1>12 DEF RequestInv, CountsInv, v, m
<1>17. AnswerInv'
    BY <1>1, <1>2, <1>n, <1>4, <1>11, <1>12 DEF AnswerInv, CountsInv, v, m
<1> QED BY <1>13, <1>14, <1>15, <1>16, <1>17

\* A message is complete when all of it has arrived: then the server has sent
\* it, and waits for the next size.
LEMMA ClientReadHolds == TrafficInv /\ traffic!ClientRead => TrafficInv'
<1> SUFFICES ASSUME TrafficInv, traffic!ClientRead PROVE TrafficInv'
    OBVIOUS
<1> USE TrafficAssumed DEF TrafficInv, traffic!Sides
<1>1. /\ calling["client"] = "readData" /\ round < Iters
      /\ left["client"] \in 1 .. MsgSize /\ moved["client"] = MsgSize - left["client"]
      /\ moved["client"] \in Nat /\ round \in Nat
    BY DEF traffic!ClientRead, CountsInv, CallsInv, traffic!Reading, traffic!TypeOK
<1>2. PICK n \in 1 .. traffic!Low(traffic!ToMove("client"), toClient) :
        /\ toClient' = toClient - n
        /\ IF n = left["client"] THEN traffic!AfterMessage /\ round' = round + 1
                                 ELSE traffic!Advance("client", n) /\ UNCHANGED round
    BY DEF traffic!ClientRead
<1>3. n \in 1 .. left["client"] /\ n <= toClient
    BY <1>1 DEF traffic!Low, traffic!ToMove, traffic!MaxPer, traffic!Bulk, traffic!TypeOK
<1>4. UNCHANGED <<messages, asked, toServer, broken, connected, faulted>>
    BY DEF traffic!ClientRead
<1>5. CASE n = left["client"]
    <2>1. traffic!AfterMessage /\ round' = round + 1
        BY <1>2, <1>5
    <2>2. messages = round + 1 /\ toClient' = 0
        BY <1>1, <1>2, <1>3, <1>5 DEF AnswerInv, traffic!TypeOK
    <2>3. PICK l \in {"writeSize", "writeEnd"} :
            /\ traffic!Enter("client", l, SizeBytes)
            /\ l = "writeSize" => round + 1 < Iters
            /\ l = "writeEnd" => round + 1 = Iters
        BY <1>1, <2>1, <2>2 DEF traffic!AfterMessage, traffic!TypeOK
    <2>4. /\ calling' = [calling EXCEPT !["client"] = l] /\ left' = [left EXCEPT !["client"] = SizeBytes]
          /\ moved' = [moved EXCEPT !["client"] = 0]
        BY <2>3 DEF traffic!Enter
    <2>5. /\ calling'["client"] = l /\ left'["client"] = SizeBytes /\ moved'["client"] = 0
          /\ calling'["server"] = calling["server"] /\ left'["server"] = left["server"]
          /\ moved'["server"] = moved["server"]
          /\ calling["server"] \notin {"writeData", "done"}
        BY <1>1, <2>2, <2>4 DEF traffic!TypeOK, CountsInv, RequestInv
    <2>6. traffic!TypeOK'
        BY <1>1, <1>4, <2>1, <2>2, <2>3, <2>4 DEF traffic!TypeOK
    <2>7. CallsInv'
        BY <1>4, <2>5 DEF CallsInv, traffic!Writing, traffic!Reading
    <2>8. CountsInv'
        BY <1>1, <1>4, <2>1, <2>2, <2>3, <2>5 DEF CountsInv
    <2>9. RequestInv'
        <3>1. calling["server"] \in {"accept", "readSize"} => Asked' = <<>>
            BY <1>1, <1>4, <2>2 DEF RequestInv, Asked
        <3>2. Frame(MsgSize, 0) = <<>> /\ Frame(0, 0) = <<>>
            BY DEF Frame
        <3> QED BY <2>3, <2>5, <3>1, <3>2 DEF RequestInv
    <2>10. AnswerInv'
        BY <2>2, <2>3, <2>5 DEF AnswerInv
    <2> QED BY <2>6, <2>7, <2>8, <2>9, <2>10
<1>6. CASE n # left["client"]
    <2>1. n < left["client"] /\ traffic!Advance("client", n) /\ round' = round
        BY <1>1, <1>2, <1>3, <1>6
    <2>2. /\ calling' = calling /\ left' = [left EXCEPT !["client"] = left["client"] - n]
          /\ moved' = [moved EXCEPT !["client"] = moved["client"] + n]
        BY <2>1 DEF traffic!Advance
    <2>3. /\ left'["client"] = left["client"] - n /\ moved'["client"] = moved["client"] + n
          /\ left'["server"] = left["server"] /\ moved'["server"] = moved["server"]
        BY <2>2 DEF traffic!TypeOK
    <2>4. traffic!TypeOK'
        <3>1. /\ left["client"] - n \in 0 .. MsgSize + SizeBytes
              /\ moved["client"] + n \in 0 .. MsgSize + SizeBytes
              /\ toClient' \in 0 .. Window
            BY <1>1, <1>2, <1>3, <2>1 DEF traffic!TypeOK
        <3> QED BY <1>4, <2>1, <2>2, <3>1 DEF traffic!TypeOK
    <2>5. CallsInv'
        <3>1. /\ left'["client"] \in 1 .. MsgSize
              /\ left'["client"] + moved'["client"] = MsgSize
            <4>1. left["client"] \in 1 .. MsgSize /\ left["client"] + moved["client"] = MsgSize
                BY <1>1 DEF CallsInv, traffic!Reading
            <4>2. left["client"] \in Int /\ moved["client"] \in Int /\ n \in Int /\ n > 0
                BY <1>3, <4>1 DEF traffic!TypeOK
            <4> QED BY <2>1, <2>3, <4>1, <4>2
        <3> QED BY <1>1, <1>4, <2>1, <2>2, <2>3, <3>1 DEF CallsInv, traffic!Writing, traffic!Reading
    <2>6. CountsInv'
        BY <1>4, <2>1, <2>2 DEF CountsInv
    <2>7. RequestInv'
        BY <1>1, <1>4, <2>1, <2>2 DEF RequestInv, Asked
    <2>8. AnswerInv'
        <3>1. toClient \in Nat /\ left["client"] \in Int /\ n \in Int /\ n > 0
            BY <1>1, <1>3 DEF traffic!TypeOK
        <3>2. /\ calling["server"] = "writeData" => moved["server"] = moved["client"] + toClient
              /\ \/ messages = round /\ toClient < left["client"]
                 \/ messages = round + 1 /\ toClient = left["client"]
              /\ calling["server"] \in {"accept", "readSize"} /\ messages = round => toClient = 0
            BY <1>1 DEF AnswerInv
        <3>4. calling["server"] \in {"accept", "readSize"} => messages # round
            BY <1>3, <3>1, <3>2
        <3>3. (toClient - n < left["client"] - n <=> toClient < left["client"])
              /\ (moved["client"] + n) + (toClient - n) = moved["client"] + toClient
            BY <1>1, <3>1
        <3> QED BY <1>1, <1>2, <1>4, <2>1, <2>2, <2>3, <3>1, <3>2, <3>3, <3>4 DEF AnswerInv
    <2> QED BY <2>4, <2>5, <2>6, <2>7, <2>8
<1> QED BY <1>5, <1>6

\* The client that reads misses as much of the message as the server has left
\* to write and is under way.
LEMMA ServerWriteHolds == TrafficInv /\ traffic!ServerWrite => TrafficInv'
<1> SUFFICES ASSUME TrafficInv, traffic!ServerWrite PROVE TrafficInv'
    OBVIOUS
<1> USE TrafficAssumed DEF TrafficInv, traffic!Sides
<1>1. /\ calling["server"] = "writeData" /\ messages = round /\ round < Iters
      /\ calling["client"] \in {"readData", "failed"}
      /\ left["server"] \in 1 .. MsgSize /\ moved["server"] = MsgSize - left["server"]
      /\ toServer = <<>> /\ asked = <<>> /\ round \in Nat
    BY DEF traffic!ServerWrite, CountsInv, CallsInv, RequestInv, traffic!Writing, traffic!TypeOK
<1>2. PICK n \in 1 .. traffic!Low(traffic!ToMove("server"), Window - toClient) :
        /\ toClient' = toClient + n
        /\ IF n = left["server"]
           THEN traffic!Enter("server", "readSize", SizeBytes) /\ messages' = messages + 1
           ELSE traffic!Advance("server", n) /\ UNCHANGED messages
    BY DEF traffic!ServerWrite
<1>3. n \in 1 .. left["server"] /\ toClient + n \in 0 .. Window
    BY <1>1 DEF traffic!Low, traffic!ToMove, traffic!MaxPer, traffic!Bulk, traffic!TypeOK
<1>4. UNCHANGED <<round, asked, toServer, broken, connected, faulted>>
    BY DEF traffic!ServerWrite
<1>5. Asked' = <<>> /\ Len(<<>>) = 0
    BY <1>1, <1>4 DEF Asked
<1>6. calling["client"] = "readData" => /\ left["client"] = left["server"] + toClient
                                        /\ moved["client"] + toClient = moved["server"]
    <2>1. calling["client"] = "readData" => /\ left["client"] + moved["client"] = MsgSize
                                            /\ moved["server"] = moved["client"] + toClient
        BY <1>1 DEF AnswerInv, CallsInv, traffic!Reading
    <2>2. /\ left["client"] \in Int /\ moved["client"] \in Int /\ left["server"] \in Int
          /\ moved["server"] \in Int /\ toClient \in Int
        BY DEF traffic!TypeOK
    <2>3. moved["server"] = MsgSize - left["server"]
        BY <1>1
    <2> QED BY <2>1, <2>2, <2>3
<1>7. CASE n = left["server"]
    <2>1. traffic!Enter("server", "readSize", SizeBytes) /\ messages' = round + 1
        BY <1>1, <1>2, <1>7
    <2>2. /\ calling' = [calling EXCEPT !["server"] = "readSize"]
          /\ left' = [left EXCEPT !["server"] = SizeBytes]
          /\ moved' = [moved EXCEPT !["server"] = 0]
        BY <2>1 DEF traffic!Enter
    <2>3. /\ calling'["server"] = "readSize" /\ left'["server"] = SizeBytes /\ moved'["server"] = 0
          /\ calling'["client"] = calling["client"] /\ left'["client"] = left["client"]
          /\ moved'["client"] = moved["client"]
        BY <2>2 DEF traffic!TypeOK
    <2>4. traffic!TypeOK'
        BY <1>1, <1>2, <1>3, <1>4, <2>1, <2>2 DEF traffic!TypeOK
    <2>5. CallsInv'
        BY <1>1, <1>4, <1>5, <2>3 DEF CallsInv, traffic!Writing, traffic!Reading
    <2>6. CountsInv'
        BY <1>1, <1>4, <2>1, <2>3 DEF CountsInv
    <2>7. RequestInv'
        BY <1>1, <1>4, <1>5, <2>1, <2>3 DEF RequestInv
    <2>8. AnswerInv'
        <3>1. calling["client"] = "readData" => toClient' = left["client"]
            BY <1>1, <1>2, <1>6, <1>7 DEF traffic!TypeOK
        <3> QED BY <1>1, <1>4, <2>1, <2>3, <3>1 DEF AnswerInv
    <2> QED BY <2>4, <2>5, <2>6, <2>7, <2>8
<1>8. CASE n # left["server"]
    <2>1. n < left["server"] /\ traffic!Advance("server", n) /\ messages' = messages
        BY <1>1, <1>2, <1>3, <1>8
    <2>2. /\ calling' = calling /\ left' = [left EXCEPT !["server"] = left["server"] - n]
          /\ moved' = [moved EXCEPT !["server"] = moved["server"] + n]
        BY <2>1 DEF traffic!Advance
    <2>3. /\ left'["server"] = left["server"] - n /\ moved'["server"] = moved["server"] + n
          /\ left'["client"] = left["client"] /\ moved'["client"] = moved["client"]
        BY <2>2 DEF traffic!TypeOK
    <2>4. traffic!TypeOK'
        <3>1. /\ left["server"] - n \in 0 .. MsgSize + SizeBytes
              /\ moved["server"] + n \in 0 .. MsgSize + SizeBytes
              /\ toClient' \in 0 .. Window
            BY <1>1, <1>2, <1>3, <2>1 DEF traffic!TypeOK
        <3> QED BY <1>4, <2>1, <2>2, <3>1 DEF traffic!TypeOK
    <2>5. CallsInv'
        BY <1>1, <1>3, <1>4, <2>1, <2>2, <2>3 DEF CallsInv, traffic!Writing, traffic!Reading
    <2>6. CountsInv'
        BY <1>4, <2>1, <2>2 DEF CountsInv
    <2>7. RequestInv'
        BY <1>1, <1>4, <2>2 DEF RequestInv
    <2>8. AnswerInv'
        <3>1. calling["client"] = "readData" =>
                /\ toClient' < left["client"]
                /\ moved["server"] + n = moved["client"] + toClient'
            BY <1>1, <1>2, <1>3, <1>6, <2>1 DEF traffic!TypeOK
        <3> QED BY <1>1, <1>4, <2>1, <2>2, <2>3, <3>1 DEF AnswerInv
    <2> QED BY <2>4, <2>5, <2>6, <2>7, <2>8
<1> QED BY <1>7, <1>8

\* The bytes that make up a size are those of one that was sent, for what has
\* been read and what has not is a part of it.
LEMMA ServerReadHolds == TrafficInv /\ traffic!ServerRead => TrafficInv'
<1> SUFFICES ASSUME TrafficInv, traffic!ServerRead PROVE TrafficInv'
    OBVIOUS
<1> USE TrafficAssumed DEF TrafficInv, traffic!Sides
<1>1. /\ calling["server"] = "readSize" /\ left["server"] \in 1 .. SizeBytes
      /\ moved["server"] = SizeBytes - left["server"] /\ Len(asked) = moved["server"]
      /\ asked \in Seq(SizeBits) /\ toServer \in Seq(SizeBits) /\ round \in Nat /\ messages \in Nat
    BY DEF traffic!ServerRead, CallsInv, traffic!Reading, traffic!TypeOK, SizeBits
<1>2. PICK n \in 1 .. traffic!Low(traffic!ToMove("server"), Len(toServer)) :
        /\ toServer' = Rest(toServer, n)
        /\ IF n < left["server"] THEN asked' = asked \o Taken(toServer, n) /\ traffic!Advance("server", n)
           ELSE /\ asked' = <<>>
                /\ IF traffic!ValueOf(asked \o Taken(toServer, n)) = 0 THEN traffic!Enter("server", "done", 0)
                   ELSE traffic!Enter("server", "writeData", traffic!ValueOf(asked \o Taken(toServer, n)))
    BY DEF traffic!ServerRead, Taken, Rest
<1>3. n \in 1 .. left["server"] /\ n \in 1 .. Len(toServer)
    BY <1>1, LenProperties DEF traffic!Low, traffic!ToMove, traffic!MaxPer, traffic!Bulk
<1>4. UNCHANGED <<round, messages, toClient, broken, connected, faulted>>
    BY DEF traffic!ServerRead
<1> DEFINE a == Taken(toServer, n)
           b == Rest(toServer, n)
           bytes == asked \o a
<1>5. a \in Seq(SizeBits) /\ Len(a) = n /\ b \in Seq(SizeBits) /\ bytes \o b = Asked
    <2>1. a \in Seq(SizeBits) /\ Len(a) = n /\ b \in Seq(SizeBits)
        BY <1>1, <1>3, TakenAndRest
    <2>2. (asked \o Taken(toServer, n)) \o Rest(toServer, n) = asked \o toServer
        BY <1>1, <1>3, CutAndJoin
    <2> QED BY <2>1, <2>2 DEF Asked
<1>6. /\ toServer' = b
      /\ IF n < left["server"] THEN asked' = bytes /\ traffic!Advance("server", n)
         ELSE /\ asked' = <<>>
              /\ IF traffic!ValueOf(bytes) = 0 THEN traffic!Enter("server", "done", 0)
                 ELSE traffic!Enter("server", "writeData", traffic!ValueOf(bytes))
    BY <1>2
<1> HIDE DEF a, b
<1>7. bytes \in Seq(SizeBits) /\ Len(bytes) = moved["server"] + n
    BY <1>1, <1>5, ConcatProperties
<1> HIDE DEF bytes
<1>8. CASE n < left["server"]
    <2>1. /\ asked' = bytes /\ calling' = calling
          /\ left' = [left EXCEPT !["server"] = left["server"] - n]
          /\ moved' = [moved EXCEPT !["server"] = moved["server"] + n]
        BY <1>6, <1>8 DEF traffic!Advance
    <2>2. /\ left'["server"] = left["server"] - n /\ moved'["server"] = moved["server"] + n
          /\ left'["client"] = left["client"] /\ moved'["client"] = moved["client"]
        BY <2>1 DEF traffic!TypeOK
    <2>3. Asked' = Asked
        BY <1>5, <1>6, <2>1 DEF Asked
    <2>4. traffic!TypeOK'
        <3>1. /\ left["server"] - n \in 0 .. MsgSize + SizeBytes
              /\ moved["server"] + n \in 0 .. MsgSize + SizeBytes
            BY <1>1, <1>3, <1>8
        <3>2. asked' \in Seq(SizeBits) /\ toServer' \in Seq(SizeBits)
            BY <1>5, <1>6, <1>7, <2>1
        <3> QED BY <1>4, <2>1, <3>1, <3>2 DEF traffic!TypeOK, SizeBits
    <2>5. CallsInv'
        <3>1. /\ left'["server"] \in 1 .. SizeBytes /\ Len(asked') = moved'["server"]
              /\ left'["server"] + moved'["server"] = SizeBytes
            <4>1. left["server"] \in Int /\ n \in Int /\ n >= 1
                BY <1>1, <1>3
            <4>2. Len(asked') = moved'["server"]
                BY <1>7, <2>1, <2>2
            <4>3. left["server"] - n \in 1 .. SizeBytes
                BY <1>1, <1>8, <4>1
            <4>4. (left["server"] - n) + (moved["server"] + n) = SizeBytes
                BY <1>1, <4>1
            <4> QED BY <2>2, <4>2, <4>3, <4>4
        <3> QED BY <1>1, <2>1, <2>2, <3>1 DEF CallsInv, traffic!Writing, traffic!Reading
    <2>6. CountsInv'
        BY <1>4, <2>1 DEF CountsInv
    <2>7. RequestInv'
        BY <1>1, <1>4, <2>1, <2>2, <2>3 DEF RequestInv
    <2>8. AnswerInv'
        BY <1>1, <1>4, <2>1, <2>2 DEF AnswerInv
    <2> QED BY <2>4, <2>5, <2>6, <2>7, <2>8
<1>9. CASE n = left["server"]
    <2>1. Len(bytes) = SizeBytes /\ Asked # <<>>
        <3>1. Len(bytes) = SizeBytes
            BY <1>1, <1>7, <1>9
        <3>2. Len(bytes \o b) = SizeBytes + Len(b) /\ Len(b) \in Nat
            BY <1>5, <1>7, <3>1, ConcatProperties, LenProperties
        <3>3. Len(<<>>) = 0
            OBVIOUS
        <3> QED BY <1>5, <3>1, <3>2, <3>3
    <2>2. ASSUME NEW v \in {0, MsgSize}, NEW k \in 0 .. SizeBytes, Asked = Frame(v, k)
          PROVE  traffic!ValueOf(bytes) = v /\ b = <<>> /\ k = SizeBytes
        BY <1>5, <1>7, <2>1, <2>2, WholeFrame
    <2>3. /\ b = <<>>
          /\ \/ /\ traffic!ValueOf(bytes) = MsgSize /\ calling["client"] \in {"readData", "failed"}
                /\ messages = round /\ round < Iters
             \/ /\ traffic!ValueOf(bytes) = 0 /\ calling["client"] \in {"done", "failed"}
                /\ messages = Iters
        <3>1. CASE calling["client"] = "writeSize"
            <4>1. Asked = Frame(MsgSize, moved["client"]) /\ moved["client"] \in 0 .. SizeBytes - 1
                BY <1>1, <3>1 DEF RequestInv, CallsInv, traffic!Writing, traffic!TypeOK
            <4> QED BY <2>2, <4>1
        <3>2. CASE calling["client"] = "writeEnd"
            <4>1. Asked = Frame(0, moved["client"]) /\ moved["client"] \in 0 .. SizeBytes - 1
                BY <1>1, <3>2 DEF RequestInv, CallsInv, traffic!Writing, traffic!TypeOK
            <4> QED BY <2>2, <4>1
        <3>3. CASE calling["client"] = "readData"
            <4>1. Asked = Frame(MsgSize, SizeBytes) /\ messages = round /\ round < Iters
                BY <1>1, <2>1, <3>3 DEF RequestInv, CountsInv
            <4> QED BY <2>2, <3>3, <4>1
        <3>4. CASE calling["client"] = "done"
            <4>1. Asked = Frame(0, SizeBytes) /\ messages = Iters
                BY <1>1, <3>4 DEF RequestInv, CountsInv
            <4> QED BY <2>2, <3>4, <4>1
        <3>5. CASE calling["client"] = "failed"
            <4>1. CASE /\ messages = round /\ round < Iters
                       /\ \E k \in 0 .. SizeBytes : Asked = Frame(MsgSize, k)
                BY <2>2, <3>5, <4>1
            <4>2. CASE messages = Iters /\ \E k \in 0 .. SizeBytes : Asked = Frame(0, k)
                BY <2>2, <3>5, <4>2
            <4> QED BY <1>1, <2>1, <3>5, <4>1, <4>2 DEF RequestInv
        <3> QED BY <1>1, <2>1, <3>1, <3>2, <3>3, <3>4, <3>5 DEF RequestInv, CountsInv
    <2>4. /\ asked' = <<>> /\ toServer' = <<>>
          /\ IF traffic!ValueOf(bytes) = 0 THEN traffic!Enter("server", "done", 0)
             ELSE traffic!Enter("server", "writeData", traffic!ValueOf(bytes))
        BY <1>1, <1>6, <1>9, <2>3
    <2>5. <<>> \in Seq(SizeBits) /\ MsgSize # 0
        OBVIOUS
    <2>6. PICK l \in {"done", "writeData"}, m \in {0, MsgSize} :
            /\ calling' = [calling EXCEPT !["server"] = l] /\ left' = [left EXCEPT !["server"] = m]
            /\ moved' = [moved EXCEPT !["server"] = 0]
            /\ l = "done" => calling["client"] \in {"done", "failed"} /\ messages = Iters
            /\ l = "writeData" => /\ calling["client"] \in {"readData", "failed"} /\ m = MsgSize
                                  /\ messages = round /\ round < Iters
        BY <2>3, <2>4, <2>5 DEF traffic!Enter
    <2>7. /\ calling'["server"] = l /\ left'["server"] = m /\ moved'["server"] = 0
          /\ calling'["client"] = calling["client"] /\ left'["client"] = left["client"]
          /\ moved'["client"] = moved["client"]
        BY <2>6 DEF traffic!TypeOK
    <2>8. traffic!TypeOK'
        BY <1>4, <2>4, <2>5, <2>6 DEF traffic!TypeOK, SizeBits
    <2>9. CallsInv'
        BY <2>4, <2>6, <2>7 DEF CallsInv, traffic!Writing, traffic!Reading
    <2>10. CountsInv'
        BY <1>1, <1>4, <2>6, <2>7 DEF CountsInv
    <2>11. RequestInv'
        BY <2>4, <2>6, <2>7 DEF RequestInv
    <2>12. AnswerInv'
        BY <1>1, <1>4, <2>6, <2>7 DEF AnswerInv
    <2> QED BY <2>8, <2>9, <2>10, <2>11, <2>12
<1> QED BY <1>1, <1>3, <1>8, <1>9

LEMMA TrafficStep ==
    ASSUME TrafficInv, [traffic!Next]_traffic_vars PROVE TrafficInv'
<1>1. ASSUME NEW s \in traffic!Sides, traffic!Killed(s) PROVE TrafficInv'
    BY <1>1, SideFailHolds DEF traffic!Killed
<1>2. ASSUME NEW s \in traffic!Sides, traffic!Fail(s) PROVE TrafficInv'
    BY <1>2, SideFailHolds DEF traffic!Fail, TrafficInv, traffic!TypeOK
<1>3. CASE UNCHANGED traffic_vars
    <2> USE <1>3 DEF traffic_vars
    <2>1. traffic!TypeOK'
        BY DEF TrafficInv, traffic!TypeOK
    <2>2. CallsInv' /\ CountsInv' /\ AnswerInv'
        BY DEF TrafficInv, CallsInv, CountsInv, AnswerInv, traffic!Writing, traffic!Reading
    <2>3. RequestInv'
        BY DEF TrafficInv, RequestInv, Asked
    <2> QED BY <2>1, <2>2, <2>3 DEF TrafficInv
<1>4. "client" \in traffic!Sides /\ "server" \in traffic!Sides
    BY DEF traffic!Sides
<1> QED BY <1>1, <1>2, <1>3, <1>4, ConnectHolds, ConnectFailsHolds, AcceptHolds, BreakHolds,
           ClientWriteHolds, ClientReadHolds, ServerReadHolds, ServerWriteHolds
        DEF traffic!Next, traffic!ClientMoves, traffic!ServerMoves

LEMMA TrafficInvImpliesFramed == ASSUME TrafficInv PROVE traffic!Framed
<1> USE TrafficAssumed DEF TrafficInv
<1> DEFINE v == IF calling["client"] \in {"writeEnd", "done"} THEN 0 ELSE MsgSize
<1>1. ASSUME calling["server"] = "readSize", calling["client"] # "failed",
             NEW k \in 1 .. Len(Asked)
      PROVE  Asked[k] = <<v, k>>
    <2>1. \/ Asked = <<>>
          \/ \E n \in 0 .. SizeBytes : Asked = Frame(v, n)
        <3>1. calling["client"] \in {"writeSize", "writeEnd"} => moved["client"] \in 0 .. SizeBytes
            BY DEF CallsInv, traffic!Writing, traffic!TypeOK, traffic!Sides
        <3>2. SizeBytes \in 0 .. SizeBytes
            OBVIOUS
        <3> QED BY <1>1, <3>1, <3>2 DEF RequestInv
    <2>2. Len(<<>>) = 0
        OBVIOUS
    <2>3. PICK n \in 0 .. SizeBytes : Asked = Frame(v, n)
        BY <1>1, <2>1, <2>2
    <2>4. Len(Frame(v, n)) = n /\ \A j \in 1 .. n : Frame(v, n)[j] = <<v, j>>
        BY FrameIsSeq
    <2> QED BY <1>1, <2>3, <2>4
<1>2. ASSUME NEW s \in traffic!Sides, traffic!Writing(s) \/ traffic!Reading(s)
      PROVE  traffic!Offset(s) + traffic!ToMove(s) <= IF traffic!Bulk(s) THEN BufSize ELSE SizeBytes
    <2>1. CASE traffic!Bulk(s)
        BY <2>1, <1>2 DEF traffic!Offset, traffic!ToMove, traffic!MaxPer, traffic!Low, traffic!TypeOK
    <2>2. CASE ~traffic!Bulk(s)
        <3>1. left[s] \in Nat /\ left[s] + moved[s] = SizeBytes /\ moved[s] \in Nat
            BY <1>2, <2>2 DEF traffic!Bulk, traffic!Writing, traffic!Reading, CallsInv, CountsInv,
                              traffic!Sides, traffic!TypeOK
        <3> QED BY <2>2, <3>1 DEF traffic!Offset, traffic!ToMove, traffic!MaxPer, traffic!Low
    <2> QED BY <2>1, <2>2
<1> QED BY <1>1, <1>2 DEF traffic!Framed, Asked

LEMMA TrafficInvImpliesConserved == ASSUME TrafficInv PROVE traffic!MessageConserved
    BY TrafficAssumed
       DEF TrafficInv, traffic!TypeOK, CallsInv, CountsInv, AnswerInv, traffic!MessageConserved,
           traffic!SuccessIsComplete

-----------------------------------------------------------------------------
(* Sums over finite sets, in the order in which the library adds them up.  *)

Pick(s) == CHOOSE e \in s : TRUE
\* One unfolding of the library's recursion, up to sets of n elements.
AddsUp(g, S, r, n) ==
    \A s \in SUBSET S : Cardinality(s) <= n =>
        r[s] = IF s = {} THEN 0 ELSE g[Pick(s)] + r[s \ {Pick(s)}]
Unfolded(g, S, r) == [s \in SUBSET S |-> IF s = {} THEN 0 ELSE g[Pick(s)] + r[s \ {Pick(s)}]]
Sums(g, S) == CHOOSE r : r = Unfolded(g, S, r)
Sum(g, S) == Sums(g, S)[S]

LEMMA PickIn == \A s : s # {} => Pick(s) \in s
BY DEF Pick

\* What is so for a set of k elements when it is for the smaller ones.
LEMMA SizeBySize ==
    ASSUME NEW S, IsFiniteSet(S), NEW P \in SUBSET (SUBSET S),
           \A s \in SUBSET S : (\A t \in SUBSET s : t # s => t \in P) => s \in P
    PROVE  P = SUBSET S
<1>1. \A s \in SUBSET S : IsFiniteSet(s) /\ Cardinality(s) \in Nat
  BY FS_Subset, FS_CardinalityType
<1> DEFINE N == {n \in Nat : \E s \in SUBSET S : s \notin P /\ Cardinality(s) = n}
<1>2. SUFFICES ASSUME P # SUBSET S PROVE FALSE
  OBVIOUS
<1>3. N # {}
  BY <1>1, <1>2
<1>4. PICK n \in N : \A m \in N : n <= m
  BY <1>3, LeastNumber
<1>5. PICK s \in SUBSET S : s \notin P /\ Cardinality(s) = n
  BY <1>4
<1>6. ASSUME NEW t \in SUBSET s, t # s PROVE t \in P
  <2>1. IsFiniteSet(s) /\ Cardinality(t) < Cardinality(s)
    BY <1>1, <1>5, <1>6, FS_Subset, FS_CardinalityType
  <2>2. t \in SUBSET S /\ Cardinality(t) \in Nat
    BY <1>1
  <2>3. Cardinality(t) \notin N
    BY <1>1, <1>4, <1>5, <2>1, <2>2
  <2> QED
    BY <2>2, <2>3
<1> QED
  BY <1>5, <1>6

\* What is left of a set when an element is taken out.
LEMMA SmallerPart ==
    ASSUME NEW S, IsFiniteSet(S), NEW s \in SUBSET S, NEW e \in s
    PROVE  /\ s \ {e} \in SUBSET s /\ s \ {e} \in SUBSET S /\ s \ {e} # s
           /\ IsFiniteSet(s) /\ Cardinality(s) \in Nat /\ Cardinality(s) # 0
           /\ Cardinality(s \ {e}) = Cardinality(s) - 1
<1>1. IsFiniteSet(s)
  BY FS_Subset
<1>2. Cardinality(s) \in Nat /\ Cardinality(s) # 0
  BY <1>1, FS_CardinalityType, FS_EmptySet
<1> QED
  BY <1>1, <1>2, FS_RemoveElement

LEMMA SumsExist ==
    ASSUME NEW S, IsFiniteSet(S), NEW g \in [S -> Int]
    PROVE  \E r \in [SUBSET S -> Int] : r = Unfolded(g, S, r)
<1>1. Cardinality(S) \in Nat /\ \A s \in SUBSET S : Cardinality(s) \in Nat /\ Cardinality(s) <= Cardinality(S)
  BY FS_CardinalityType, FS_Subset
<1>2. \A s \in SUBSET S : s # {} => /\ Pick(s) \in S
                                    /\ s \ {Pick(s)} \in SUBSET S
                                    /\ Cardinality(s \ {Pick(s)}) = Cardinality(s) - 1
  BY PickIn, SmallerPart
<1> DEFINE N == {n \in 0 .. Cardinality(S) : \E r \in [SUBSET S -> Int] : AddsUp(g, S, r, n)}
<1>3. 0 \in N
  <2>1. \A s \in SUBSET S : Cardinality(s) <= 0 => s = {}
    <3>1. ASSUME NEW s \in SUBSET S, s # {} PROVE Cardinality(s) # 0
      BY <3>1, PickIn, SmallerPart
    <3> QED
      BY <1>1, <3>1
  <2>2. AddsUp(g, S, [s \in SUBSET S |-> 0], 0)
    BY <2>1 DEF AddsUp
  <2>3. [s \in SUBSET S |-> 0] \in [SUBSET S -> Int]
    OBVIOUS
  <2>5. \E r \in [SUBSET S -> Int] : AddsUp(g, S, r, 0)
    BY <2>2, <2>3, Zenon
  <2>4. 0 \in 0 .. Cardinality(S)
    BY <1>1
  <2> QED
    BY <2>4, <2>5
<1>4. ASSUME NEW n \in 0 .. Cardinality(S) - 1, n \in N PROVE n + 1 \in N
  <2>1. PICK r \in [SUBSET S -> Int] : AddsUp(g, S, r, n)
    BY <1>4
  <2> DEFINE q == [s \in SUBSET S |-> IF Cardinality(s) <= n THEN r[s] ELSE
                                        IF s = {} THEN 0 ELSE g[Pick(s)] + r[s \ {Pick(s)}]]
  <2>2. ASSUME NEW s \in SUBSET S, s # {} PROVE g[Pick(s)] + r[s \ {Pick(s)}] \in Int
    <3>1. g[Pick(s)] \in Int /\ r[s \ {Pick(s)}] \in Int
      BY <1>2, <2>2
    <3> QED
      BY <3>1
  <2>3. q \in [SUBSET S -> Int]
    BY <2>2
  <2>4. ASSUME NEW s \in SUBSET S, Cardinality(s) <= n + 1
        PROVE  q[s] = IF s = {} THEN 0 ELSE g[Pick(s)] + q[s \ {Pick(s)}]
    <3>1. CASE s = {}
      BY <2>1, <3>1 DEF AddsUp
    <3>2. CASE s # {}
      <4>1. /\ s \ {Pick(s)} \in SUBSET S
            /\ Cardinality(s \ {Pick(s)}) = Cardinality(s) - 1 /\ Cardinality(s) \in Nat
        BY <1>1, <1>2, <3>2
      <4>2. Cardinality(s \ {Pick(s)}) <= n
        BY <2>4, <4>1
      <4>3. q[s \ {Pick(s)}] = r[s \ {Pick(s)}]
        BY <4>1, <4>2
      <4>4. CASE Cardinality(s) <= n
        BY <2>1, <3>2, <4>3, <4>4 DEF AddsUp
      <4>5. CASE ~(Cardinality(s) <= n)
        BY <3>2, <4>3, <4>5
      <4> QED
        BY <4>4, <4>5
    <3> QED
      BY <3>1, <3>2
  <2>5. AddsUp(g, S, q, n + 1)
    <3> HIDE DEF q
    <3> QED
      BY <2>4 DEF AddsUp
  <2>6. n + 1 \in 0 .. Cardinality(S)
    BY <1>1
  <2> HIDE DEF q
  <2> QED
    BY <2>3, <2>5, <2>6
<1>5. Cardinality(S) \in N
  <2> HIDE DEF N
  <2>1. \A j \in 0 .. Cardinality(S) : j \in N
    BY <1>1, <1>3, <1>4, NoneMissing
  <2> QED
    BY <1>1, <2>1
<1>6. PICK r \in [SUBSET S -> Int] : AddsUp(g, S, r, Cardinality(S))
  BY <1>5
<1>7. r = Unfolded(g, S, r)
  <2>1. \A s \in SUBSET S : r[s] = IF s = {} THEN 0 ELSE g[Pick(s)] + r[s \ {Pick(s)}]
    BY <1>1, <1>6 DEF AddsUp
  <2> QED
    BY <2>1 DEF Unfolded
<1> QED
  BY <1>7

\* Sums(g, S) adds up.
LEMMA SumsAre ==
    ASSUME NEW S, IsFiniteSet(S), NEW g \in [S -> Int]
    PROVE  /\ Sums(g, S) \in [SUBSET S -> Int]
           /\ Sums(g, S)[{}] = 0
           /\ \A s \in SUBSET S : s # {} => Sums(g, S)[s] = g[Pick(s)] + Sums(g, S)[s \ {Pick(s)}]
<1>1. \E r : r = Unfolded(g, S, r)
  BY SumsExist
<1> DEFINE r == Sums(g, S)
<1>2. r = Unfolded(g, S, r)
  BY <1>1, Zenon DEF Sums
<1> HIDE DEF r
<1>3. r[{}] = 0 /\ \A s \in SUBSET S : s # {} => r[s] = g[Pick(s)] + r[s \ {Pick(s)}]
  <2>1. \A s \in SUBSET S : Unfolded(g, S, r)[s] = IF s = {} THEN 0 ELSE g[Pick(s)] + r[s \ {Pick(s)}]
    BY DEF Unfolded
  <2> QED
    BY <1>2, <2>1
<1>4. \A s \in SUBSET S : r[s] \in Int
  <2> DEFINE P == {s \in SUBSET S : r[s] \in Int}
  <2>1. ASSUME NEW s \in SUBSET S, \A t \in SUBSET s : t # s => t \in P PROVE s \in P
    <3>1. CASE s = {}
      <4>1. r[s] = 0
        BY <1>3, <3>1
      <4> QED
        BY <4>1
    <3>2. CASE s # {}
      <4>1. Pick(s) \in s /\ s \ {Pick(s)} \in SUBSET s /\ s \ {Pick(s)} # s
        BY <3>2, PickIn
      <4>2. r[s \ {Pick(s)}] \in Int /\ g[Pick(s)] \in Int
        BY <2>1, <4>1
      <4>3. g[Pick(s)] + r[s \ {Pick(s)}] \in Int
        BY <4>2
      <4> QED
        BY <1>3, <3>2, <4>3
    <3> QED
      BY <3>1, <3>2
  <2>2. P = SUBSET S
    <3> HIDE DEF P
    <3>1. P \in SUBSET (SUBSET S)
      BY DEF P
    <3> QED
      BY <2>1, <3>1, SizeBySize
  <2> QED
    BY <2>2
<1>5. r \in [SUBSET S -> Int]
  <2>1. Unfolded(g, S, r) = [s \in SUBSET S |-> Unfolded(g, S, r)[s]]
    BY DEF Unfolded
  <2>2. r = [s \in SUBSET S |-> r[s]]
    BY <1>2, <2>1
  <2> QED
    BY <1>4, <2>2
<1> QED
  BY <1>3, <1>5 DEF r

\* A part of a set has the same sum, whatever the set it is a part of.
LEMMA SumOfPart ==
    ASSUME NEW S, IsFiniteSet(S), NEW g \in [S -> Int], NEW T \in SUBSET S, NEW h \in [T -> Int],
           \A e \in T : h[e] = g[e]
    PROVE  \A s \in SUBSET T : Sums(h, T)[s] = Sums(g, S)[s]
<1>1. IsFiniteSet(T)
  BY FS_Subset
<1> DEFINE a == Sums(g, S)
           b == Sums(h, T)
           P == {s \in SUBSET T : a[s] = b[s]}
<1>2. a[{}] = 0 /\ b[{}] = 0
  BY <1>1, SumsAre
<1>3. \A s \in SUBSET T : s # {} => /\ a[s] = g[Pick(s)] + a[s \ {Pick(s)}]
                                    /\ b[s] = h[Pick(s)] + b[s \ {Pick(s)}]
  <2>1. \A s \in SUBSET S : s # {} => a[s] = g[Pick(s)] + a[s \ {Pick(s)}]
    BY SumsAre
  <2>2. \A s \in SUBSET T : s # {} => b[s] = h[Pick(s)] + b[s \ {Pick(s)}]
    BY <1>1, SumsAre
  <2> QED
    BY <2>1, <2>2
<1> HIDE DEF a, b
<1>4. ASSUME NEW s \in SUBSET T, \A t \in SUBSET s : t # s => t \in P PROVE s \in P
  <2>1. CASE s = {}
    BY <1>2, <2>1
  <2>2. CASE s # {}
    <3>1. Pick(s) \in s /\ s \ {Pick(s)} \in SUBSET s /\ s \ {Pick(s)} # s
      BY <2>2, PickIn
    <3>2. a[s \ {Pick(s)}] = b[s \ {Pick(s)}] /\ g[Pick(s)] = h[Pick(s)]
      BY <1>4, <3>1
    <3> QED
      BY <1>3, <2>2, <3>2
  <2> QED
    BY <2>1, <2>2
<1>5. P = SUBSET T
  <2> HIDE DEF P
  <2>1. P \in SUBSET (SUBSET T)
    BY DEF P
  <2> QED
    BY <1>1, <1>4, <2>1, SizeBySize
<1> QED
  BY <1>5 DEF a, b

\* Any element may come first.
LEMMA AnyFirst ==
    ASSUME NEW S, IsFiniteSet(S), NEW g \in [S -> Int], NEW e \in S
    PROVE  Sums(g, S)[S] = g[e] + Sums(g, S)[S \ {e}]
<1> DEFINE r == Sums(g, S)
           P == {s \in SUBSET S : \A x \in s : r[s] = g[x] + r[s \ {x}]}
<1>1. /\ r \in [SUBSET S -> Int]
      /\ \A s \in SUBSET S : s # {} => r[s] = g[Pick(s)] + r[s \ {Pick(s)}]
  BY SumsAre
<1> HIDE DEF r
<1>2. ASSUME NEW s \in SUBSET S, \A t \in SUBSET s : t # s => t \in P, NEW x \in s
      PROVE  r[s] = g[x] + r[s \ {x}]
  <2> DEFINE y == Pick(s)
  <2>1. y \in s /\ r[s] = g[y] + r[s \ {y}]
    BY <1>1, PickIn
  <2> HIDE DEF y
  <2>2. CASE x = y
    BY <2>1, <2>2
  <2>3. CASE x # y
    <3>1. s \ {x} \in P /\ s \ {y} \in P
      BY <1>2, <2>1
    <3>2. x \in s \ {y} /\ y \in s \ {x} /\ (s \ {x}) \ {y} = (s \ {y}) \ {x}
      BY <2>1, <2>3
    <3>3. r[s \ {y}] = g[x] + r[(s \ {y}) \ {x}] /\ r[s \ {x}] = g[y] + r[(s \ {x}) \ {y}]
      BY <3>1, <3>2
    <3>4. g[x] \in Int /\ g[y] \in Int /\ r[(s \ {y}) \ {x}] \in Int
      BY <1>1, <2>1
    <3>5. \A a, b, c \in Int : a + (b + c) = b + (a + c)
      OBVIOUS
    <3>6. g[y] + (g[x] + r[(s \ {y}) \ {x}]) = g[x] + (g[y] + r[(s \ {y}) \ {x}])
      BY <3>4, <3>5
    <3> QED
      BY <2>1, <3>2, <3>3, <3>6
  <2> QED
    BY <2>2, <2>3
<1>3. P = SUBSET S
  <2>1. ASSUME NEW s \in SUBSET S, \A t \in SUBSET s : t # s => t \in P PROVE s \in P
    BY <1>2, <2>1
  <2> HIDE DEF P
  <2>2. P \in SUBSET (SUBSET S)
    BY DEF P
  <2> QED
    BY <2>1, <2>2, SizeBySize
<1>4. S \in P
  BY <1>3
<1> QED
  BY <1>4 DEF r

\* The sums of functions over intervals, and one summand more.
LEMMA SumType ==
    ASSUME NEW S, IsFiniteSet(S), NEW g \in [S -> Int]
    PROVE  Sum(g, S) \in Int
<1>1. S \in SUBSET S
  OBVIOUS
<1>2. Sums(g, S) \in [SUBSET S -> Int]
  BY SumsAre
<1> QED
  BY <1>1, <1>2 DEF Sum

LEMMA OneMore ==
    ASSUME NEW S, IsFiniteSet(S), NEW g \in [S -> Int], NEW e \in S, NEW h \in [S \ {e} -> Int],
           \A x \in S \ {e} : h[x] = g[x]
    PROVE  Sum(g, S) = g[e] + Sum(h, S \ {e})
<1>1. S \ {e} \in SUBSET S
  OBVIOUS
<1>2. Sums(h, S \ {e})[S \ {e}] = Sums(g, S)[S \ {e}]
  BY <1>1, SumOfPart
<1> QED
  BY <1>2, AnyFirst DEF Sum

\* The sum of f over lo, ..., hi.
Upto(f, lo, hi) == Sum([i \in lo .. hi |-> f[i]], lo .. hi)

LEMMA UptoType ==
    ASSUME NEW lo \in Int, NEW hi \in Int, NEW f, \A i \in lo .. hi : f[i] \in Int
    PROVE  Upto(f, lo, hi) \in Int
<1>1. IsFiniteSet(lo .. hi)
  BY FS_Interval
<1>2. [i \in lo .. hi |-> f[i]] \in [lo .. hi -> Int]
  OBVIOUS
<1> QED
  BY <1>1, <1>2, SumType DEF Upto

LEMMA UptoNone ==
    ASSUME NEW lo \in Int, NEW hi \in Int, hi < lo, NEW f
    PROVE  Upto(f, lo, hi) = 0
<1>1. lo .. hi = {}
  OBVIOUS
<1>2. IsFiniteSet({}) /\ [i \in {} |-> f[i]] \in [{} -> Int] /\ {} \in SUBSET {}
  BY FS_EmptySet
<1>3. Sums([i \in {} |-> f[i]], {})[{}] = 0
  BY <1>2, SumsAre
<1> QED
  BY <1>1, <1>3 DEF Upto, Sum

LEMMA UptoNext ==
    ASSUME NEW lo \in Int, NEW hi \in Int, lo - 1 <= hi, NEW f, \A i \in lo .. hi + 1 : f[i] \in Int
    PROVE  Upto(f, lo, hi + 1) = Upto(f, lo, hi) + f[hi + 1]
<1> DEFINE S == lo .. hi + 1
           g == [i \in S |-> f[i]]
           h == [i \in lo .. hi |-> f[i]]
<1>1. IsFiniteSet(S) /\ hi + 1 \in S /\ S \ {hi + 1} = lo .. hi
  BY FS_Interval
<1>2. g \in [S -> Int] /\ h \in [S \ {hi + 1} -> Int] /\ g[hi + 1] = f[hi + 1]
  BY <1>1
<1>3. \A x \in S \ {hi + 1} : h[x] = g[x]
  BY <1>1
<1>4. Sum(g, S) = g[hi + 1] + Sum(h, S \ {hi + 1})
  <2> HIDE DEF S, g, h
  <2> QED
    BY <1>1, <1>2, <1>3, OneMore
<1>5. IsFiniteSet(S \ {hi + 1})
  BY <1>1, FS_Subset
<1>6. Sum(h, S \ {hi + 1}) \in Int /\ f[hi + 1] \in Int
  <2>1. Sum(h, S \ {hi + 1}) \in Int
    <3> HIDE DEF S, h
    <3> QED
      BY <1>2, <1>5, SumType
  <2> QED
    BY <1>1, <2>1
<1>7. Upto(f, lo, hi + 1) = Sum(g, S) /\ Upto(f, lo, hi) = Sum(h, S \ {hi + 1})
  BY <1>1 DEF Upto
<1> HIDE DEF S, g, h
<1> QED
  BY <1>2, <1>4, <1>6, <1>7

\* The two sums of the model.
LEMMA AverageIsSum ==
    ASSUME NEW d, NEW f, Len(d) \in Nat,
           f = [i \in 2 .. Len(d) |-> (d[i].cdf - d[i - 1].cdf) * (d[i].size + d[i - 1].size)]
    PROVE  trace!TwiceAverage(d) = Upto(f, 2, Len(d))
<1> DEFINE G(i) == (d[i].cdf - d[i - 1].cdf) * (d[i].size + d[i - 1].size)
<1>1. trace!TwiceAverage(d) = Sum([i \in 2 .. Len(d) |-> G(i)], 2 .. Len(d))
  BY Zenon DEF trace!TwiceAverage, trace!MapThenSumSet, trace!MapThenFoldSet, Sum, Sums, Unfolded, Pick
<1>2. [i \in 2 .. Len(d) |-> f[i]] = [i \in 2 .. Len(d) |-> G(i)]
  OBVIOUS
<1> QED
  BY <1>1, <1>2 DEF Upto

LEMMA TotalAsSum ==
    ASSUME NEW d, NEW n
    PROVE  trace!MapThenSumSet(LAMBDA u : trace!gen_size(d, u), 0 .. n)
             = Sum([u \in 0 .. n |-> trace!gen_size(d, u)], 0 .. n)
BY Zenon DEF trace!MapThenSumSet, trace!MapThenFoldSet, Sum, Sums, Unfolded, Pick

LEMMA TotalIsSum ==
    ASSUME NEW d, NEW f, NEW n, \A u \in 0 .. n : f[u] = trace!gen_size(d, u)
    PROVE  trace!MapThenSumSet(LAMBDA u : trace!gen_size(d, u), 0 .. n) = Upto(f, 0, n)
<1>1. [u \in 0 .. n |-> f[u]] = [u \in 0 .. n |-> trace!gen_size(d, u)]
  OBVIOUS
<1> QED
  BY <1>1, TotalAsSum DEF Upto

-----------------------------------------------------------------------------
(* traffic-trace-gen: gen_size, row by row.                                *)

\* A distribution file as load_dist_file returns it.
Distribution(d) == d \in Seq(trace!Rows) /\ trace!Ordered(d)

LEMMA RowTyped ==
    ASSUME NEW d, Distribution(d), trace!TraceGenAssumption
    PROVE  /\ Len(d) \in Nat /\ DOMAIN d = 1 .. Len(d)
           /\ \A i \in 1 .. Len(d) : /\ d[i] \in trace!Rows
                                     /\ d[i].cdf \in 0 .. Den /\ d[i].size \in 0 .. MaxFlow
                                     /\ d[i].cdf \in Int /\ d[i].size \in Int
<1>1. Len(d) \in Nat /\ DOMAIN d = 1 .. Len(d) /\ \A i \in 1 .. Len(d) : d[i] \in trace!Rows
  BY DEF Distribution
<1> QED
  BY <1>1 DEF trace!Rows, trace!TraceGenAssumption

\* Rows are in order, not only neighbours.
LEMMA RowsInOrder ==
    ASSUME NEW d, Distribution(d), trace!TraceGenAssumption,
           NEW i \in 1 .. Len(d), NEW j \in 1 .. Len(d), i <= j
    PROVE  d[i].cdf <= d[j].cdf /\ d[i].size <= d[j].size
<1> DEFINE M == {m \in Nat : i + m <= Len(d) => d[i].cdf <= d[i + m].cdf /\ d[i].size <= d[i + m].size}
<1>1. /\ Len(d) \in Nat /\ i \in Int /\ j \in Int
      /\ \A r \in 1 .. Len(d) : d[r].cdf \in Int /\ d[r].size \in Int
  BY RowTyped
<1>2. 0 \in M
  <2>1. i + 0 = i /\ d[i].cdf <= d[i].cdf /\ d[i].size <= d[i].size
    BY <1>1
  <2> QED
    BY <2>1
<1>3. ASSUME NEW m \in 0 .. j - i - 1, m \in M PROVE m + 1 \in M
  <2>1. i + m \in 1 .. Len(d) - 1 /\ i + m + 1 \in 1 .. Len(d) /\ i + (m + 1) = i + m + 1 /\ m + 1 \in Nat
    BY <1>1
  <2>2. d[i + m].cdf <= d[i + m + 1].cdf /\ d[i + m].size <= d[i + m + 1].size
    BY <2>1 DEF Distribution, trace!Ordered
  <2>3. d[i].cdf <= d[i + m].cdf /\ d[i].size <= d[i + m].size
    BY <1>3, <2>1
  <2>4. d[i].cdf <= d[i + m + 1].cdf /\ d[i].size <= d[i + m + 1].size
    <3>1. /\ d[i].cdf \in Int /\ d[i + m].cdf \in Int /\ d[i + m + 1].cdf \in Int
          /\ d[i].size \in Int /\ d[i + m].size \in Int /\ d[i + m + 1].size \in Int
      <4>1. i + m \in 1 .. Len(d)
        BY <1>1, <2>1
      <4> QED
        BY <1>1, <2>1, <4>1
    <3>2. \A p, q, r \in Int : p <= q /\ q <= r => p <= r
      OBVIOUS
    <3> QED
      BY ONLY <2>2, <2>3, <3>1, <3>2
  <2> QED
    BY <2>1, <2>4
<1>4. j - i \in Nat /\ i + (j - i) = j
  BY <1>1
<1>5. \A m \in 0 .. j - i : m \in M
  <2> DEFINE k == j - i
  <2>1. k \in Nat /\ \A m \in 0 .. k - 1 : m \in M => m + 1 \in M
    BY <1>3, <1>4
  <2> HIDE DEF M, k
  <2>2. \A m \in 0 .. k : m \in M
    BY ONLY <1>2, <2>1, NoneMissing
  <2> QED
    BY <2>2 DEF k
<1>6. j - i \in M
  <2>1. j - i \in 0 .. j - i
    BY ONLY <1>4
  <2> HIDE DEF M
  <2> QED
    BY ONLY <1>5, <2>1
<1> QED
  BY <1>4, <1>6

\* The row at which gen_size stops.
LEMMA RowIsFirst ==
    ASSUME NEW d, Distribution(d), trace!TraceGenAssumption, NEW u \in Int, trace!Reached(d, u) # {}
    PROVE  /\ trace!RowOf(d, u) \in 1 .. Len(d)
           /\ d[trace!RowOf(d, u)].cdf >= u
           /\ \A j \in 1 .. Len(d) : j < trace!RowOf(d, u) => d[j].cdf < u
<1>1. /\ Len(d) \in Nat /\ DOMAIN d = 1 .. Len(d)
      /\ \A r \in 1 .. Len(d) : d[r].cdf \in Int
  BY RowTyped
<1> DEFINE R == trace!Reached(d, u)
<1>2. R \in SUBSET Nat /\ R # {} /\ R = {j \in 1 .. Len(d) : d[j].cdf >= u}
  BY <1>1 DEF trace!Reached
<1> HIDE DEF R
<1>3. \E k \in R : \A m \in R : k <= m
  BY <1>2, LeastNumber
<1>4. trace!Min(R) \in R /\ \A m \in R : trace!Min(R) <= m
  BY <1>3 DEF trace!Min
<1>5. trace!RowOf(d, u) = trace!Min(R)
  BY DEF trace!RowOf, R
<1>6. trace!Min(R) \in 1 .. Len(d) /\ d[trace!Min(R)].cdf >= u
  BY <1>2, <1>4
<1>7. ASSUME NEW j \in 1 .. Len(d), j < trace!Min(R) PROVE d[j].cdf < u
  <2>1. j \notin R
    BY <1>4, <1>6, <1>7
  <2>2. ~(d[j].cdf >= u) /\ d[j].cdf \in Int
    BY <1>1, <1>2, <2>1
  <2> QED
    BY <2>2
<1> QED
  BY <1>5, <1>6, <1>7

\* int() of a quotient.
LEMMA IntTyped ==
    ASSUME NEW num \in Int, NEW den \in Int, den # 0
    PROVE  trace!Int_(num, den) \in Int
<1>1. \A n \in Int, e \in Int : e > 0 => n \div e \in Int
  OBVIOUS
<1> DEFINE n == IF den < 0 THEN -num ELSE num
           e == IF den < 0 THEN -den ELSE den
<1>2. n \in Int /\ -n \in Int /\ e \in Int /\ e > 0
  OBVIOUS
<1>3. trace!Int_(num, den) = IF n >= 0 THEN n \div e ELSE -((-n) \div e)
  BY DEF trace!Int_
<1> HIDE DEF n, e
<1>4. n \div e \in Int /\ (-n) \div e \in Int
  BY <1>1, <1>2
<1> QED
  BY <1>3, <1>4

LEMMA IntIsFloor ==
    ASSUME NEW num \in Nat, NEW den \in Nat \ {0}
    PROVE  /\ trace!Int_(num, den) \in Int
           /\ den * trace!Int_(num, den) <= num
           /\ num < den * trace!Int_(num, den) + den
<1>1. trace!Int_(num, den) = num \div den
  BY DEF trace!Int_
<1>2. num \div den \in Int /\ num % den \in 0 .. den - 1 /\ num = den * (num \div den) + (num % den)
  OBVIOUS
<1> QED
  BY <1>1, <1>2

\* Where row i and the one before are, and how far apart.
RowBetween(d, i, a, b, y, h) ==
    /\ a = d[i - 1].cdf /\ b = d[i].cdf - d[i - 1].cdf
    /\ y = d[i - 1].size /\ h = d[i].size - d[i - 1].size

\* Between two rows of different CDF values, cut off to an integer.
LEMMA OnTheLine ==
    ASSUME NEW d, Distribution(d), trace!TraceGenAssumption, NEW u \in Int,
           NEW i \in 2 .. Len(d), d[i - 1].cdf < u, u < d[i].cdf,
           NEW a, NEW b, NEW y, NEW h, RowBetween(d, i, a, b, y, h)
    PROVE  /\ trace!RowOf(d, u) = i /\ trace!gen_size(d, u) \in Int
           /\ a \in Int /\ b \in Nat \ {0} /\ y \in Nat /\ h \in Nat /\ u - a \in 1 .. b - 1
           /\ b * trace!gen_size(d, u) <= b * y + h * (u - a)
           /\ b * y + h * (u - a) < b * trace!gen_size(d, u) + b
<1>1. /\ Len(d) \in Nat /\ DOMAIN d = 1 .. Len(d) /\ i \in 1 .. Len(d) /\ i - 1 \in 1 .. Len(d) /\ i \in Int
      /\ \A r \in 1 .. Len(d) : /\ d[r].cdf \in Int /\ d[r].size \in Int
                                /\ d[r].cdf \in 0 .. Den /\ d[r].size \in 0 .. MaxFlow
  <2>1. /\ Len(d) \in Nat /\ DOMAIN d = 1 .. Len(d)
        /\ \A r \in 1 .. Len(d) : /\ d[r].cdf \in Int /\ d[r].size \in Int
                                  /\ d[r].cdf \in 0 .. Den /\ d[r].size \in 0 .. MaxFlow
    BY ONLY Distribution(d), trace!TraceGenAssumption, RowTyped
  <2>2. i \in 1 .. Len(d) /\ i - 1 \in 1 .. Len(d) /\ i \in Int
    BY ONLY <2>1, i \in 2 .. Len(d)
  <2> QED
    BY ONLY <2>1, <2>2
<1>2. d[i - 1].size <= d[i].size
  <2>1. i - 1 <= i
    BY ONLY <1>1
  <2> QED
    BY ONLY <1>1, <2>1, Distribution(d), trace!TraceGenAssumption, RowsInOrder
<1>3. /\ a \in Int /\ b \in Nat \ {0} /\ y \in Nat /\ h \in Nat /\ u - a \in 1 .. b - 1
      /\ d[i].size = y + h /\ d[i].cdf = a + b
  <2>1. /\ a \in Int /\ d[i].cdf \in Int /\ y \in Nat /\ d[i].size \in Int
        /\ a < u /\ y <= d[i].size
    <3>1. d[i - 1].size \in Nat
      BY <1>1 DEF trace!TraceGenAssumption
    <3> QED
      BY <1>1, <1>2, <3>1 DEF RowBetween
  <2>2. \A p, q \in Int : q = p + (q - p) /\ q - p \in Int
    OBVIOUS
  <2>3. d[i].size = y + h /\ d[i].cdf = a + b /\ h \in Int /\ b \in Int
    <3>1. b = d[i].cdf - a /\ h = d[i].size - y /\ y \in Int
      BY <2>1 DEF RowBetween
    <3> QED
      BY ONLY <2>1, <2>2, <3>1
  <2>4. \A p, q, v \in Int : p < v /\ v < p + q => q \in Nat \ {0} /\ v - p \in 1 .. q - 1
    OBVIOUS
  <2>5. \A p \in Nat, q \in Int : p <= p + q => q \in Nat
    OBVIOUS
  <2>6. a < u /\ u < a + b /\ y <= y + h
    BY <2>1, <2>3
  <2>7. b \in Nat \ {0} /\ u - a \in 1 .. b - 1
    BY <2>1, <2>3, <2>4, <2>6
  <2>8. h \in Nat
    BY <2>1, <2>3, <2>5, <2>6
  <2> QED
    BY <2>1, <2>3, <2>7, <2>8
<1>4. i \in trace!Reached(d, u)
  BY <1>1 DEF trace!Reached
<1>5. trace!RowOf(d, u) = i
  <2>1. trace!RowOf(d, u) \in 1 .. Len(d) /\ d[trace!RowOf(d, u)].cdf >= u
    BY <1>4, RowIsFirst
  <2>2. ~(i < trace!RowOf(d, u))
    <3>1. \A j \in 1 .. Len(d) : j < trace!RowOf(d, u) => d[j].cdf < u
      BY <1>4, RowIsFirst
    <3> QED
      BY <1>1, <3>1
  <2>3. ASSUME trace!RowOf(d, u) < i PROVE FALSE
    <3>1. trace!RowOf(d, u) <= i - 1
      BY <1>1, <2>1, <2>3
    <3>2. d[trace!RowOf(d, u)].cdf <= d[i - 1].cdf
      BY <1>1, <2>1, <3>1, RowsInOrder
    <3>3. d[trace!RowOf(d, u)].cdf \in Int /\ d[i - 1].cdf \in Int
      BY <1>1, <2>1
    <3> QED
      BY <2>1, <3>2, <3>3
  <2> QED
    BY <1>1, <2>1, <2>2, <2>3
<1> DEFINE num == (d[i].size - d[i - 1].size) * u + d[i].cdf * d[i - 1].size - d[i - 1].cdf * d[i].size
<1>6. trace!gen_size(d, u) = trace!Int_(num, b)
  <2>1. trace!Before(d, i) = d[i - 1]
    BY <1>1 DEF trace!Before
  <2> QED
    BY <1>1, <1>4, <1>5, <2>1 DEF trace!gen_size, RowBetween
<1>7. num = b * y + h * (u - a)
  <2>1. num = h * u + (a + b) * y - a * (y + h)
    BY ONLY <1>3, RowBetween(d, i, a, b, y, h), Zenon DEF num, RowBetween
  <2> HIDE DEF num
  <2>3. a \in Int /\ b \in Int /\ y \in Int /\ h \in Int /\ u \in Int
    BY <1>3
  <2>4. h * u + (a + b) * y - a * (y + h) = b * y + h * (u - a)
    BY ONLY <2>3, SMT
  <2> QED
    BY <2>1, <2>4, Zenon
<1>8. num \in Nat
  <2>1. \A m, n \in Nat : m * n \in Nat
    BY SMT
  <2>2. b \in Nat /\ y \in Nat /\ h \in Nat /\ u - a \in Nat
    BY <1>3
  <2>3. b * y \in Nat /\ h * (u - a) \in Nat
    BY <2>1, <2>2, Zenon
  <2>4. \A m, n \in Nat : m + n \in Nat
    OBVIOUS
  <2> HIDE DEF num
  <2> QED
    BY <1>7, <2>3, <2>4, Zenon
<1> HIDE DEF num
<1>9. /\ trace!gen_size(d, u) \in Int
      /\ b * trace!gen_size(d, u) <= num /\ num < b * trace!gen_size(d, u) + b
  BY <1>3, <1>6, <1>8, IntIsFloor
<1> QED
  BY <1>3, <1>5, <1>7, <1>9

\* On a row.
LEMMA OnTheRow ==
    ASSUME NEW d, Distribution(d), trace!TraceGenAssumption, NEW u \in Int,
           NEW i \in 1 .. Len(d), d[i].cdf = u, \A j \in 1 .. Len(d) : j < i => d[j].cdf < u
    PROVE  trace!RowOf(d, u) = i /\ trace!gen_size(d, u) = d[i].size
<1>1. Len(d) \in Nat /\ DOMAIN d = 1 .. Len(d) /\ i \in Int
  BY RowTyped
<1>2. i \in trace!Reached(d, u)
  BY <1>1 DEF trace!Reached
<1>3. trace!RowOf(d, u) = i
  <2>1. /\ trace!RowOf(d, u) \in 1 .. Len(d) /\ d[trace!RowOf(d, u)].cdf >= u
        /\ \A j \in 1 .. Len(d) : j < trace!RowOf(d, u) => d[j].cdf < u
    BY <1>2, RowIsFirst
  <2>2. ~(i < trace!RowOf(d, u))
    BY <2>1
  <2>3. ASSUME trace!RowOf(d, u) < i PROVE FALSE
    <3>1. d[trace!RowOf(d, u)].cdf < u /\ d[trace!RowOf(d, u)].cdf \in Int
      BY <2>1, <2>3, RowTyped
    <3> QED
      BY <2>1, <3>1
  <2> QED
    BY <1>1, <2>1, <2>2, <2>3
<1> QED
  BY <1>2, <1>3 DEF trace!gen_size

\* A number from the first CDF value to the last is on a row or between two.
LEMMA RowOrLine ==
    ASSUME NEW d, Distribution(d), trace!TraceGenAssumption, Len(d) > 0,
           NEW u \in d[1].cdf .. d[Len(d)].cdf
    PROVE  \E i \in 1 .. Len(d) :
             /\ trace!RowOf(d, u) = i
             /\ \A j \in 1 .. Len(d) : j < i => d[j].cdf < u
             /\ \/ d[i].cdf = u
                \/ i \in 2 .. Len(d) /\ d[i - 1].cdf < u /\ u < d[i].cdf
<1>1. /\ Len(d) \in Nat /\ DOMAIN d = 1 .. Len(d) /\ Len(d) \in 1 .. Len(d) /\ 1 \in 1 .. Len(d)
      /\ \A r \in 1 .. Len(d) : d[r].cdf \in Int
  BY RowTyped
<1>2. u \in Int
  BY <1>1
<1>3. Len(d) \in trace!Reached(d, u)
  BY <1>1 DEF trace!Reached
<1> DEFINE i == trace!RowOf(d, u)
<1>4. i \in 1 .. Len(d) /\ d[i].cdf >= u /\ \A j \in 1 .. Len(d) : j < i => d[j].cdf < u
  BY <1>2, <1>3, RowIsFirst
<1> HIDE DEF i
<1>5. ASSUME d[i].cdf # u PROVE i \in 2 .. Len(d) /\ d[i - 1].cdf < u /\ u < d[i].cdf
  <2>1. d[i].cdf > u
    BY <1>1, <1>2, <1>4, <1>5
  <2>2. i # 1
    BY <1>1, <1>2, <2>1
  <2>3. i - 1 \in 1 .. Len(d) /\ i - 1 < i /\ i \in 2 .. Len(d)
    BY <1>1, <1>4, <2>2
  <2> QED
    BY <1>4, <2>1, <2>3
<1> QED
  BY <1>4, <1>5 DEF i

LEMMA ProductGrows ==
    ASSUME NEW k \in Nat, NEW m \in Int, NEW n \in Int, m <= n
    PROVE  k * m <= k * n /\ k * m \in Int /\ k * n \in Int
<1>1. PICK p \in Nat : n = m + p
  BY ONLY m \in Int, n \in Int, m <= n, SMT
<1>2. k * (m + p) = k * m + k * p /\ k * p >= 0 /\ k * m \in Int /\ k * p \in Int
  BY ONLY k \in Nat, m \in Int, p \in Nat, SMT
<1> QED
  BY <1>1, <1>2

\* The greater of two products has the greater factor.
LEMMA FactorGrows ==
    ASSUME NEW k \in Nat \ {0}, NEW m \in Int, NEW n \in Int, k * m < k * n + k
    PROVE  m <= n
<1>1. SUFFICES ASSUME n + 1 <= m PROVE FALSE
  OBVIOUS
<1>2. k * (n + 1) <= k * m /\ k * m \in Int
  BY <1>1, ProductGrows
<1>3. k * (n + 1) = k * n + k
  BY SMT
<1> QED
  BY <1>2, <1>3

\* What is cut off stays between the rows, and grows with the random number.
LEMMA CutOff ==
    ASSUME NEW b \in Nat \ {0}, NEW y \in Nat, NEW h \in Nat,
           NEW m \in 0 .. b, NEW g \in Int,
           b * g <= b * y + h * m, b * y + h * m < b * g + b
    PROVE  y <= g /\ g <= y + h
<1>1. h * m <= h * b /\ h * 0 <= h * m /\ h * m \in Int /\ b * y \in Int /\ b * g \in Int
  BY ProductGrows
<1>2. h * 0 = 0 /\ b * (y + h) = b * y + h * b /\ h * b \in Int
  BY ONLY b \in Nat, y \in Nat, h \in Nat, SMT
<1>3. b * y < b * g + b
  BY <1>1, <1>2
<1>4. b * g < b * (y + h) + b
  BY <1>1, <1>2
<1> QED
  BY <1>3, <1>4, FactorGrows

LEMMA CutOffGrows ==
    ASSUME NEW b \in Nat \ {0}, NEW y \in Nat, NEW h \in Nat,
           NEW m \in Int, NEW n \in Int, m <= n, NEW f \in Int, NEW g \in Int,
           b * f <= b * y + h * m, b * y + h * n < b * g + b
    PROVE  f <= g
<1>1. h * m <= h * n /\ h * m \in Int /\ h * n \in Int /\ b * y \in Int /\ b * g \in Int /\ b * f \in Int
  BY ProductGrows
<1>2. b * f < b * g + b
  BY <1>1
<1> QED
  BY <1>2, FactorGrows

\* gen_size stays between the row where it stops and the one before.
LEMMA SizeBetweenRows ==
    ASSUME NEW d, Distribution(d), trace!TraceGenAssumption, Len(d) > 0,
           NEW u \in d[1].cdf .. d[Len(d)].cdf
    PROVE  /\ trace!RowOf(d, u) \in 1 .. Len(d)
           /\ trace!gen_size(d, u) \in Int
           /\ trace!gen_size(d, u) <= d[trace!RowOf(d, u)].size
           /\ d[1].size <= trace!gen_size(d, u)
           /\ \A j \in 1 .. Len(d) : j < trace!RowOf(d, u) => d[j].size <= trace!gen_size(d, u)
<1>1. /\ Len(d) \in Nat /\ Len(d) \in 1 .. Len(d) /\ 1 \in 1 .. Len(d)
      /\ \A r \in 1 .. Len(d) : d[r].cdf \in Int /\ d[r].size \in Int
  BY RowTyped
<1>2. PICK i \in 1 .. Len(d) :
             /\ trace!RowOf(d, u) = i
             /\ \A j \in 1 .. Len(d) : j < i => d[j].cdf < u
             /\ \/ d[i].cdf = u
                \/ i \in 2 .. Len(d) /\ d[i - 1].cdf < u /\ u < d[i].cdf
  BY RowOrLine
<1>3. u \in Int
  BY <1>1
<1>4. CASE d[i].cdf = u
  <2>1. trace!gen_size(d, u) = d[i].size
    BY <1>2, <1>3, <1>4, OnTheRow
  <2>2. \A j \in 1 .. Len(d) : j <= i => d[j].size <= d[i].size
    BY RowsInOrder
  <2>3. 1 <= i /\ d[i].size \in Int /\ d[i].size <= d[i].size /\ \A j \in 1 .. Len(d) : j < i => j <= i
    BY <1>1
  <2> QED
    BY <1>1, <1>2, <2>1, <2>2, <2>3
<1>5. CASE i \in 2 .. Len(d) /\ d[i - 1].cdf < u /\ u < d[i].cdf
  <2> DEFINE a == d[i - 1].cdf
             b == d[i].cdf - d[i - 1].cdf
             y == d[i - 1].size
             h == d[i].size - d[i - 1].size
  <2>1. /\ trace!gen_size(d, u) \in Int
        /\ a \in Int /\ b \in Nat \ {0} /\ y \in Nat /\ h \in Nat /\ u - a \in 1 .. b - 1
        /\ b * trace!gen_size(d, u) <= b * y + h * (u - a)
        /\ b * y + h * (u - a) < b * trace!gen_size(d, u) + b
    <3>1. RowBetween(d, i, a, b, y, h)
      BY DEF RowBetween
    <3> HIDE DEF a, b, y, h
    <3> QED
      BY <1>3, <1>5, <3>1, OnTheLine
  <2>2. y + h = d[i].size /\ i - 1 \in 1 .. Len(d)
    BY <1>1, <1>5
  <2>3. y <= trace!gen_size(d, u) /\ trace!gen_size(d, u) <= y + h
    <3> HIDE DEF a, b, y, h
    <3>1. u - a \in 0 .. b
      BY <2>1
    <3> QED
      BY <2>1, <3>1, CutOff
  <2>4. \A j \in 1 .. Len(d) : j < i => d[j].size <= y
    <3>1. ASSUME NEW j \in 1 .. Len(d), j < i PROVE d[j].size <= d[i - 1].size
      <4>1. j <= i - 1
        BY <1>1, <3>1
      <4> QED
        BY <2>2, <4>1, RowsInOrder
    <3> QED
      BY <3>1
  <2> HIDE DEF y, h
  <2>5. \A j \in 1 .. Len(d) : j < i => d[j].size <= trace!gen_size(d, u)
    <3>1. ASSUME NEW j \in 1 .. Len(d), j < i PROVE d[j].size <= trace!gen_size(d, u)
      <4>1. d[j].size <= y /\ d[j].size \in Int
        BY <1>1, <2>4, <3>1
      <4> QED
        BY ONLY <2>1, <2>3, <4>1
    <3> QED
      BY <3>1
  <2>6. 1 < i
    BY <1>5
  <2> QED
    BY <1>1, <1>2, <2>1, <2>2, <2>3, <2>5, <2>6
<1> QED
  BY <1>2, <1>4, <1>5

LEMMA SizesGrow ==
    ASSUME NEW d, Distribution(d), trace!TraceGenAssumption, Len(d) > 0,
           NEW u \in d[1].cdf .. d[Len(d)].cdf, NEW v \in d[1].cdf .. d[Len(d)].cdf, u <= v
    PROVE  trace!gen_size(d, u) <= trace!gen_size(d, v)
<1>1. /\ Len(d) \in Nat /\ Len(d) \in 1 .. Len(d) /\ 1 \in 1 .. Len(d)
      /\ \A r \in 1 .. Len(d) : d[r].cdf \in Int /\ d[r].size \in Int
  BY RowTyped
<1>2. u \in Int /\ v \in Int
  BY <1>1
<1> DEFINE i == trace!RowOf(d, u)
           j == trace!RowOf(d, v)
<1>3. /\ i \in 1 .. Len(d) /\ trace!gen_size(d, u) \in Int /\ trace!gen_size(d, u) <= d[i].size
      /\ \A r \in 1 .. Len(d) : r < i => d[r].cdf < u
      /\ \/ d[i].cdf = u
         \/ i \in 2 .. Len(d) /\ d[i - 1].cdf < u /\ u < d[i].cdf
  BY RowOrLine, SizeBetweenRows
<1>4. /\ j \in 1 .. Len(d) /\ trace!gen_size(d, v) \in Int
      /\ \A r \in 1 .. Len(d) : r < j => d[r].size <= trace!gen_size(d, v)
      /\ \A r \in 1 .. Len(d) : r < j => d[r].cdf < v
      /\ \/ d[j].cdf = v
         \/ j \in 2 .. Len(d) /\ d[j - 1].cdf < v /\ v < d[j].cdf
  BY RowOrLine, SizeBetweenRows
<1> HIDE DEF i, j
<1>5. i <= j
  <2>1. SUFFICES ASSUME j < i PROVE FALSE
    BY <1>1, <1>3, <1>4
  <2>2. d[j].cdf < u /\ d[j].cdf >= v /\ d[j].cdf \in Int
    BY <1>1, <1>2, <1>3, <1>4, <2>1
  <2> QED
    BY <1>2, <2>2
<1>6. CASE i < j
  <2>1. d[i].size <= trace!gen_size(d, v) /\ d[i].size \in Int
    BY <1>1, <1>3, <1>4, <1>6
  <2> QED
    BY <1>3, <1>4, <2>1
<1>7. CASE i = j /\ d[j].cdf = v
  <2>1. trace!gen_size(d, v) = d[i].size
    BY <1>2, <1>4, <1>7, OnTheRow
  <2> QED
    BY <1>3, <2>1
<1>8. CASE i = j /\ d[j].cdf # v
  <2>1. i \in 2 .. Len(d) /\ d[i - 1].cdf < v /\ v < d[i].cdf
    BY <1>4, <1>8
  <2>2. d[i - 1].cdf < u /\ u < d[i].cdf
    <3>1. d[i].cdf # u
      BY <1>1, <1>2, <1>3, <2>1
    <3> QED
      BY <1>3, <3>1
  <2> DEFINE a == d[i - 1].cdf
             b == d[i].cdf - d[i - 1].cdf
             y == d[i - 1].size
             h == d[i].size - d[i - 1].size
  <2>3. /\ a \in Int /\ b \in Nat \ {0} /\ y \in Nat /\ h \in Nat
        /\ b * trace!gen_size(d, u) <= b * y + h * (u - a)
    <3>1. RowBetween(d, i, a, b, y, h)
      BY DEF RowBetween
    <3> HIDE DEF a, b, y, h
    <3> QED
      BY <1>2, <2>1, <2>2, <3>1, OnTheLine
  <2>4. b * y + h * (v - a) < b * trace!gen_size(d, v) + b
    <3>1. RowBetween(d, i, a, b, y, h)
      BY DEF RowBetween
    <3> HIDE DEF a, b, y, h
    <3> QED
      BY <1>2, <2>1, <3>1, OnTheLine
  <2> HIDE DEF a, b, y, h
  <2>5. u - a \in Int /\ v - a \in Int /\ u - a <= v - a
    <3>1. a \in Int
      BY <2>3
    <3> QED
      BY ONLY <1>2, <3>1, u <= v
  <2> QED
    BY <1>3, <1>4, <2>3, <2>4, <2>5, CutOffGrows
<1> QED
  BY <1>3, <1>4, <1>5, <1>6, <1>7, <1>8

-----------------------------------------------------------------------------
(* traffic-trace-gen: the mean of what gen_size returns.                   *)

\* What the sums over one row come to when each size is cut off, over the
\* first t numbers of the row and over the last t.
RowBelow(g, a, b, y, h, t) ==
    2 * b * (Upto(g, 0, a + t - 1) - Upto(g, 0, a - 1)) <= 2 * b * y * t + h * (t * (t - 1))
RowAbove(g, a, b, y, h, t) ==
    2 * b * (Upto(g, 0, a + t) - Upto(g, 0, a) + t) >= 2 * b * y * t + h * (t * (t + 1)) + 2 * t

\* The two steps of the arithmetic.
LEMMA BelowArithmetic ==
    ASSUME NEW b \in Int, NEW y \in Int, NEW h \in Int, NEW t \in Int, NEW s \in Int, NEW g \in Int,
           2 * b * s <= 2 * b * y * t + h * (t * (t - 1)), b * g <= b * y + h * t
    PROVE  2 * b * (s + g) <= 2 * b * y * (t + 1) + h * ((t + 1) * t)
<1> DEFINE B == b * s
           C == b * g
           Y == b * y
           Z == b * y * t
           K == h * t
           L == h * (t * (t - 1))
<1>1. B \in Int /\ C \in Int /\ Y \in Int /\ Z \in Int /\ K \in Int /\ L \in Int
  BY SMT
<1>2. 2 * b * s = 2 * B /\ 2 * b * y * t = 2 * Z
  BY SMT
<1>3. 2 * b * (s + g) = 2 * B + 2 * C
  BY SMT
<1>4. 2 * b * y * (t + 1) = 2 * Z + 2 * Y
  BY SMT
<1>5. h * ((t + 1) * t) = L + 2 * K
  BY SMT
<1> HIDE DEF B, C, Y, Z, K, L
<1>6. 2 * B <= 2 * Z + L /\ C <= Y + K
  BY <1>2 DEF B, C, Y, Z, K, L
<1>7. 2 * B + 2 * C <= (2 * Z + 2 * Y) + (L + 2 * K)
  BY ONLY <1>1, <1>6
<1> QED
  BY <1>3, <1>4, <1>5, <1>7

LEMMA AboveArithmetic ==
    ASSUME NEW b \in Int, NEW y \in Int, NEW h \in Int, NEW t \in Int, NEW s \in Int, NEW g \in Int,
           2 * b * (s + t) >= 2 * b * y * t + h * (t * (t + 1)) + 2 * t,
           b * y + h * (t + 1) < b * g + b
    PROVE  2 * b * (s + g + (t + 1)) >= 2 * b * y * (t + 1) + h * ((t + 1) * (t + 2)) + 2 * (t + 1)
<1> DEFINE B == b * (s + t)
           C == b * g
           Y == b * y
           Z == b * y * t
           K == h * (t + 1)
           L == h * (t * (t + 1))
<1>1. B \in Int /\ C \in Int /\ Y \in Int /\ Z \in Int /\ K \in Int /\ L \in Int
  BY SMT
<1>2. 2 * b * (s + t) = 2 * B /\ 2 * b * y * t = 2 * Z
  BY SMT
<1>3. 2 * b * (s + g + (t + 1)) = 2 * B + 2 * C + 2 * b
  BY SMT
<1>4. 2 * b * y * (t + 1) = 2 * Z + 2 * Y
  BY SMT
<1>5. h * ((t + 1) * (t + 2)) = L + 2 * K
  BY SMT
<1> HIDE DEF B, C, Y, Z, K, L
<1>6. 2 * B >= 2 * Z + L + 2 * t /\ Y + K < C + b
  BY <1>2 DEF B, C, Y, Z, K, L
<1>7. 2 * B + 2 * C + 2 * b >= (2 * Z + 2 * Y) + (L + 2 * K) + 2 * (t + 1)
  BY ONLY <1>1, <1>6, b \in Int, t \in Int
<1> QED
  BY <1>3, <1>4, <1>5, <1>7

\* The sizes of a whole distribution.
Sizes(d) == [u \in 0 .. Den |-> trace!gen_size(d, u)]
WholeCdf(d) == Distribution(d) /\ Len(d) > 0 /\ d[1].cdf = 0 /\ d[Len(d)].cdf = Den

LEMMA RowInside ==
    ASSUME NEW d, WholeCdf(d), trace!TraceGenAssumption, NEW i \in 2 .. Len(d),
           NEW a, NEW b, NEW y, NEW h, RowBetween(d, i, a, b, y, h)
    PROVE  /\ i \in 1 .. Len(d) /\ i - 1 \in 1 .. Len(d) /\ Distribution(d)
           /\ a \in Nat /\ b \in Nat /\ y \in Nat /\ h \in Nat /\ a + b <= Den
           /\ d[i].cdf = a + b /\ d[i].size = y + h
<1>1. /\ Len(d) \in Nat /\ i \in 1 .. Len(d) /\ i - 1 \in 1 .. Len(d) /\ i - 1 <= i
      /\ \A r \in 1 .. Len(d) : /\ d[r].cdf \in Int /\ d[r].size \in Int
                                /\ d[r].cdf \in 0 .. Den /\ d[r].size \in 0 .. MaxFlow
  BY RowTyped DEF WholeCdf
<1>2. d[i - 1].cdf <= d[i].cdf /\ d[i - 1].size <= d[i].size
  BY <1>1, RowsInOrder DEF WholeCdf
<1>3. Den \in Int
  BY DEF trace!TraceGenAssumption
<1>4. \A p, q \in Int : 0 <= p /\ p <= q => p \in Nat /\ q - p \in Nat /\ q = p + (q - p)
  OBVIOUS
<1>5. /\ d[i - 1].cdf \in Int /\ d[i].cdf \in Int /\ d[i - 1].size \in Int /\ d[i].size \in Int
      /\ 0 <= d[i - 1].cdf /\ 0 <= d[i - 1].size /\ d[i].cdf <= Den
  BY <1>1, <1>3
<1>6. a \in Nat /\ b \in Nat /\ d[i].cdf = a + b
  BY <1>2, <1>4, <1>5 DEF RowBetween
<1>7. y \in Nat /\ h \in Nat /\ d[i].size = y + h
  BY <1>2, <1>4, <1>5 DEF RowBetween
<1> QED
  BY <1>1, <1>5, <1>6, <1>7 DEF WholeCdf

LEMMA SizesTypedIn ==
    ASSUME NEW d, WholeCdf(d), trace!TraceGenAssumption
    PROVE  \A u \in 0 .. Den : Sizes(d)[u] = trace!gen_size(d, u) /\ Sizes(d)[u] \in Int
<1>1. \A u \in 0 .. Den : trace!gen_size(d, u) \in Int
  BY SizeBetweenRows DEF WholeCdf
<1> QED
  BY <1>1 DEF Sizes

\* One number more of the row.
LEMMA RowNext ==
    ASSUME NEW d, WholeCdf(d), trace!TraceGenAssumption, NEW u \in 0 .. Den
    PROVE  /\ Upto(Sizes(d), 0, u) = Upto(Sizes(d), 0, u - 1) + Sizes(d)[u]
           /\ Upto(Sizes(d), 0, u) \in Int /\ Upto(Sizes(d), 0, u - 1) \in Int
<1>1. Den \in Int /\ u \in Int /\ u - 1 \in Int /\ 0 - 1 <= u - 1 /\ (u - 1) + 1 = u
  BY DEF trace!TraceGenAssumption
<1>2. /\ \A v \in 0 .. u : Sizes(d)[v] \in Int
      /\ \A v \in 0 .. u - 1 : Sizes(d)[v] \in Int
  BY <1>1, SizesTypedIn
<1>3. Upto(Sizes(d), 0, (u - 1) + 1) = Upto(Sizes(d), 0, u - 1) + Sizes(d)[(u - 1) + 1]
  BY <1>1, <1>2, UptoNext
<1> QED
  BY <1>1, <1>2, <1>3, UptoType

LEMMA RowSizeBelow ==
    ASSUME NEW d, WholeCdf(d), trace!TraceGenAssumption, NEW i \in 2 .. Len(d),
           NEW a, NEW b, NEW y, NEW h, RowBetween(d, i, a, b, y, h), NEW t \in 0 .. b - 1
    PROVE  a + t \in 0 .. Den /\ b * Sizes(d)[a + t] <= b * y + h * t
<1>1. /\ i \in 1 .. Len(d) /\ i - 1 \in 1 .. Len(d) /\ Distribution(d)
      /\ a \in Nat /\ b \in Nat /\ y \in Nat /\ h \in Nat /\ a + b <= Den
      /\ d[i].cdf = a + b /\ d[i].size = y + h
  BY RowInside
<1>2. a + t \in 0 .. Den /\ a + t \in Int /\ t \in Int
  BY <1>1 DEF trace!TraceGenAssumption
<1>3. Sizes(d)[a + t] = trace!gen_size(d, a + t) /\ Sizes(d)[a + t] \in Int
  BY <1>2, SizesTypedIn
<1>4. CASE t = 0
  <2>1. /\ trace!RowOf(d, a) \in 1 .. Len(d) /\ trace!gen_size(d, a) <= d[trace!RowOf(d, a)].size
        /\ trace!gen_size(d, a) \in Int
    BY <1>1, <1>2, <1>4, SizeBetweenRows DEF WholeCdf
  <2>2. d[i - 1].cdf = a /\ d[i - 1].size = y
    BY DEF RowBetween
  <2>3. trace!RowOf(d, a) <= i - 1
    <3>1. Len(d) \in Nat /\ DOMAIN d = 1 .. Len(d)
      BY <1>1, RowTyped
    <3>2. i - 1 \in trace!Reached(d, a)
      BY <1>1, <2>2, <3>1 DEF trace!Reached
    <3>3. \A j \in 1 .. Len(d) : j < trace!RowOf(d, a) => d[j].cdf < a
      BY <1>1, <3>2, RowIsFirst
    <3>4. ~(i - 1 < trace!RowOf(d, a))
      BY <1>1, <2>2, <3>3
    <3> QED
      BY <1>1, <2>1, <3>1, <3>4
  <2>4. d[trace!RowOf(d, a)].size <= y /\ d[trace!RowOf(d, a)].size \in Int
    BY <1>1, <2>1, <2>2, <2>3, RowsInOrder, RowTyped
  <2>5. Sizes(d)[a + t] <= y
    <3>1. a + t = a
      BY ONLY <1>1, <1>4
    <3>2. Sizes(d)[a + t] = trace!gen_size(d, a)
      BY ONLY <1>3, <3>1, Zenon
    <3>3. \A p, q, r \in Int : p <= q /\ q <= r => p <= r
      OBVIOUS
    <3>4. y \in Int
      BY ONLY <1>1
    <3> QED
      BY ONLY <2>1, <2>4, <3>2, <3>3, <3>4
  <2>6. b * Sizes(d)[a + t] <= b * y /\ b * y \in Int
    BY <1>1, <1>3, <2>5, ProductGrows
  <2>7. h * t = 0
    BY ONLY <1>1, <1>4
  <2>8. b * y + 0 = b * y
    BY ONLY <2>6
  <2> QED
    BY ONLY <1>2, <2>6, <2>7, <2>8
<1>5. CASE t # 0
  <2>1. d[i - 1].cdf < a + t /\ a + t < d[i].cdf /\ d[i - 1].cdf = a
    <3>1. d[i - 1].cdf = a
      BY DEF RowBetween
    <3>2. a < a + t /\ a + t < a + b
      BY ONLY <1>1, <1>2, <1>5, t \in 0 .. b - 1
    <3> QED
      BY ONLY <1>1, <3>1, <3>2
  <2>2. b * trace!gen_size(d, a + t) <= b * y + h * ((a + t) - a)
    BY <1>1, <1>2, <2>1, OnTheLine
  <2>3. (a + t) - a = t
    BY <1>1
  <2> QED
    BY <1>2, <1>3, <2>2, <2>3
<1> QED
  BY <1>4, <1>5

LEMMA RowSizeAbove ==
    ASSUME NEW d, WholeCdf(d), trace!TraceGenAssumption, NEW i \in 2 .. Len(d),
           NEW a, NEW b, NEW y, NEW h, RowBetween(d, i, a, b, y, h), NEW t \in 0 .. b - 1
    PROVE  a + t + 1 \in 0 .. Den /\ b * y + h * (t + 1) < b * Sizes(d)[a + t + 1] + b
<1>1. /\ i \in 1 .. Len(d) /\ i - 1 \in 1 .. Len(d) /\ Distribution(d)
      /\ a \in Nat /\ b \in Nat /\ y \in Nat /\ h \in Nat /\ a + b <= Den
      /\ d[i].cdf = a + b /\ d[i].size = y + h
  BY RowInside
<1>2. a + t + 1 \in 0 .. Den /\ a + t + 1 \in Int /\ t \in Int /\ b > 0
  <2>1. Den \in Int
    BY DEF trace!TraceGenAssumption
  <2> QED
    BY ONLY <1>1, <2>1, t \in 0 .. b - 1
<1>3. Sizes(d)[a + t + 1] = trace!gen_size(d, a + t + 1) /\ Sizes(d)[a + t + 1] \in Int
  BY <1>2, SizesTypedIn
<1>4. CASE t + 1 = b
  <2>1. d[i].cdf = a + t + 1
    BY <1>1, <1>4
  <2>2. ASSUME NEW j \in 1 .. Len(d), j < i PROVE d[j].cdf < a + t + 1
    <3>1. j <= i - 1
      BY <1>1, <2>2
    <3>2. d[j].cdf <= d[i - 1].cdf /\ d[j].cdf \in Int
      BY <1>1, <3>1, RowsInOrder, RowTyped
    <3>3. d[i - 1].cdf = a
      BY DEF RowBetween
    <3>4. a < a + t + 1 /\ a \in Int /\ a + t + 1 \in Int
      BY <1>1
    <3> QED
      BY ONLY <3>2, <3>3, <3>4
  <2>3. Sizes(d)[a + t + 1] = y + h
    BY <1>1, <1>2, <1>3, <2>1, <2>2, OnTheRow
  <2>4. b * (y + h) = b * y + h * b /\ b * y + h * b \in Int
    BY ONLY <1>1, SMT
  <2>5. \A p \in Int, q \in Int : p > 0 => q < q + p
    OBVIOUS
  <2>6. b * y + h * b < b * (y + h) + b
    <3>1. b \in Int /\ b > 0
      BY ONLY <1>1, <1>2
    <3> QED
      BY ONLY <2>4, <2>5, <3>1
  <2> QED
    BY ONLY <1>2, <1>4, <2>3, <2>6
<1>5. CASE t + 1 # b
  <2>1. d[i - 1].cdf < a + t + 1 /\ a + t + 1 < d[i].cdf /\ d[i - 1].cdf = a
    <3>1. d[i - 1].cdf = a
      BY DEF RowBetween
    <3>2. a < a + t + 1 /\ a + t + 1 < a + b
      BY ONLY <1>1, <1>2, <1>5, t \in 0 .. b - 1
    <3> QED
      BY ONLY <1>1, <3>1, <3>2
  <2>2. b * y + h * ((a + t + 1) - a) < b * trace!gen_size(d, a + t + 1) + b
    BY <1>1, <1>2, <2>1, OnTheLine
  <2>3. (a + t + 1) - a = t + 1
    BY <1>1
  <2> QED
    BY <1>2, <1>3, <2>2, <2>3
<1> QED
  BY <1>4, <1>5

\* Half of what a product of two sums says.
LEMMA Halved ==
    ASSUME NEW b \in Nat \ {0}, NEW y \in Nat, NEW h \in Nat, NEW s \in Int
    PROVE  /\ 2 * b * s <= 2 * b * y * b + h * (b * (b - 1)) => 2 * s <= b * ((y + h) + y)
           /\ 2 * b * (s + b) >= 2 * b * y * b + h * (b * (b + 1)) + 2 * b
                => b * ((y + h) + y) + 2 <= 2 * (s + b)
<1> DEFINE p == 2 * (b * y) + h * (b - 1)
           q == 2 * (b * y) + h * (b + 1) + 2
<1>1. p \in Int /\ q \in Int /\ b * ((y + h) + y) \in Int
  BY SMT
<1>2. 2 * b * y * b + h * (b * (b - 1)) = b * p /\ 2 * b * s = b * (2 * s)
  BY SMT
<1>3. 2 * b * y * b + h * (b * (b + 1)) + 2 * b = b * q /\ 2 * b * (s + b) = b * (2 * (s + b))
  BY SMT
<1>4. b * ((y + h) + y) = p + h /\ b * ((y + h) + y) + h + 2 = q
  BY SMT
<1> HIDE DEF p, q
<1>5. 2 * s \in Int /\ 2 * (s + b) \in Int
  OBVIOUS
<1>6. \A m \in Int, n \in Int : b * m <= b * n => m <= n
  <2>1. SUFFICES ASSUME NEW m \in Int, NEW n \in Int, b * m <= b * n PROVE m <= n
    OBVIOUS
  <2>2. b * m \in Int /\ b * n \in Int
    BY SMT
  <2>3. b * m < b * n + b
    BY <2>1, <2>2
  <2> QED
    BY <2>3, FactorGrows
<1>7. ASSUME 2 * b * s <= 2 * b * y * b + h * (b * (b - 1)) PROVE 2 * s <= b * ((y + h) + y)
  <2>1. b * (2 * s) <= b * p
    BY <1>2, <1>7
  <2>2. 2 * s <= p
    BY <1>1, <1>5, <1>6, <2>1
  <2> QED
    BY ONLY <1>1, <1>4, <1>5, <2>2, h \in Nat
<1>8. ASSUME 2 * b * (s + b) >= 2 * b * y * b + h * (b * (b + 1)) + 2 * b
      PROVE  b * ((y + h) + y) + 2 <= 2 * (s + b)
  <2>1. b * q <= b * (2 * (s + b))
    <3>1. b * (2 * (s + b)) >= b * q /\ b * q \in Int /\ b * (2 * (s + b)) \in Int
      BY <1>1, <1>3, <1>5, <1>8, ProductGrows
    <3> QED
      BY ONLY <3>1
  <2>2. q <= 2 * (s + b)
    BY <1>1, <1>5, <1>6, <2>1
  <2> QED
    BY ONLY <1>1, <1>4, <1>5, <2>2, h \in Nat
<1> QED
  BY <1>7, <1>8

LEMMA RowSumBelow ==
    ASSUME NEW d, WholeCdf(d), trace!TraceGenAssumption, NEW i \in 2 .. Len(d),
           NEW a, NEW b, NEW y, NEW h, RowBetween(d, i, a, b, y, h), b > 0
    PROVE  RowBelow(Sizes(d), a, b, y, h, b)
<1>1. a \in Nat /\ b \in Nat /\ y \in Nat /\ h \in Nat /\ a + b <= Den
  BY RowInside
<1> DEFINE T == {t \in Nat : RowBelow(Sizes(d), a, b, y, h, t)}
           U(n) == Upto(Sizes(d), 0, n)
<1>2. U(a - 1) \in Int
  <2>1. a \in 0 .. Den
    BY <1>1 DEF trace!TraceGenAssumption
  <2> QED
    BY <2>1, RowNext
<1>3. 0 \in T
  <2>1. U(a + 0 - 1) - U(a - 1) = 0
    <3>1. a + 0 - 1 = a - 1
      BY <1>1
    <3> HIDE DEF U
    <3> QED
      BY <1>2, <3>1
  <2>2. 2 * b * 0 = 0 /\ 2 * b * y * 0 + h * (0 * (0 - 1)) = 0
    BY ONLY <1>1, SMT
  <2>3. 2 * b * (U(a + 0 - 1) - U(a - 1)) <= 2 * b * y * 0 + h * (0 * (0 - 1))
    <3> HIDE DEF U
    <3> QED
      BY <2>1, <2>2
  <2> QED
    BY <2>3 DEF RowBelow
<1>4. ASSUME NEW t \in 0 .. b - 1, t \in T PROVE t + 1 \in T
  <2>1. a + t \in 0 .. Den /\ b * Sizes(d)[a + t] <= b * y + h * t
    BY <1>1, RowSizeBelow
  <2>2. U(a + t) = U(a + t - 1) + Sizes(d)[a + t] /\ U(a + t - 1) \in Int /\ Sizes(d)[a + t] \in Int
    <3>1. Sizes(d)[a + t] \in Int
      BY <2>1, SizesTypedIn
    <3>2. U(a + t) = U(a + t - 1) + Sizes(d)[a + t]
      BY <1>1, <2>1, RowNext
    <3>3. U(a + t - 1) \in Int
      BY <1>1, <2>1, RowNext
    <3> QED
      BY <3>1, <3>2, <3>3
  <2>3. a + (t + 1) - 1 = a + t /\ (t + 1) - 1 = t /\ t \in Int /\ t + 1 \in Nat
    BY <1>1
  <2>4. 2 * b * (U(a + t - 1) - U(a - 1)) <= 2 * b * y * t + h * (t * (t - 1))
    BY <1>4 DEF RowBelow
  <2> DEFINE s == U(a + t - 1) - U(a - 1)
             g == Sizes(d)[a + t]
  <2>5. s \in Int /\ g \in Int /\ U(a + t) - U(a - 1) = s + g
    <3> HIDE DEF U
    <3> QED
      BY <1>2, <2>2
  <2>6. 2 * b * (s + g) <= 2 * b * y * (t + 1) + h * ((t + 1) * t)
    <3>1. 2 * b * s <= 2 * b * y * t + h * (t * (t - 1)) /\ b * g <= b * y + h * t
      BY <2>1, <2>4
    <3> HIDE DEF s, g
    <3>2. b \in Int /\ y \in Int /\ h \in Int
      BY <1>1
    <3> QED
      BY <2>3, <2>5, <3>1, <3>2, BelowArithmetic
  <2> HIDE DEF s, g
  <2>7. 2 * b * (U(a + (t + 1) - 1) - U(a - 1)) <= 2 * b * y * (t + 1) + h * ((t + 1) * ((t + 1) - 1))
    <3> HIDE DEF U
    <3> QED
      BY <2>3, <2>5, <2>6
  <2> QED
    BY <2>3, <2>7 DEF RowBelow
<1> HIDE DEF T
<1>5. b \in T
  <2>1. \A t \in 0 .. b : t \in T
    BY <1>1, <1>3, <1>4, NoneMissing
  <2> QED
    BY <1>1, <2>1
<1> QED
  BY <1>5 DEF T

LEMMA RowSumAbove ==
    ASSUME NEW d, WholeCdf(d), trace!TraceGenAssumption, NEW i \in 2 .. Len(d),
           NEW a, NEW b, NEW y, NEW h, RowBetween(d, i, a, b, y, h), b > 0
    PROVE  RowAbove(Sizes(d), a, b, y, h, b)
<1>1. a \in Nat /\ b \in Nat /\ y \in Nat /\ h \in Nat /\ a + b <= Den
  BY RowInside
<1> DEFINE T == {t \in Nat : RowAbove(Sizes(d), a, b, y, h, t)}
           U(n) == Upto(Sizes(d), 0, n)
<1>2. U(a) \in Int
  <2>1. a \in 0 .. Den
    BY <1>1 DEF trace!TraceGenAssumption
  <2> QED
    BY <2>1, RowNext
<1>3. 0 \in T
  <2>1. U(a + 0) - U(a) + 0 = 0
    <3>1. a + 0 = a
      BY <1>1
    <3> HIDE DEF U
    <3> QED
      BY <1>2, <3>1
  <2>2. 2 * b * 0 = 0 /\ 2 * b * y * 0 + h * (0 * (0 + 1)) + 2 * 0 = 0
    BY ONLY <1>1, SMT
  <2>3. 2 * b * (U(a + 0) - U(a) + 0) >= 2 * b * y * 0 + h * (0 * (0 + 1)) + 2 * 0
    <3> HIDE DEF U
    <3> QED
      BY <2>1, <2>2
  <2> QED
    BY <2>3 DEF RowAbove
<1>4. ASSUME NEW t \in 0 .. b - 1, t \in T PROVE t + 1 \in T
  <2>1. a + t + 1 \in 0 .. Den /\ b * y + h * (t + 1) < b * Sizes(d)[a + t + 1] + b
    BY <1>1, RowSizeAbove
  <2>2. /\ U(a + t + 1) = U(a + t + 1 - 1) + Sizes(d)[a + t + 1]
        /\ U(a + t + 1 - 1) \in Int /\ Sizes(d)[a + t + 1] \in Int
    <3>1. Sizes(d)[a + t + 1] \in Int
      BY <2>1, SizesTypedIn
    <3>2. U(a + t + 1) = U(a + t + 1 - 1) + Sizes(d)[a + t + 1]
      BY <1>1, <2>1, RowNext
    <3>3. U(a + t + 1 - 1) \in Int
      BY <1>1, <2>1, RowNext
    <3> QED
      BY <3>1, <3>2, <3>3
  <2>3. a + t + 1 - 1 = a + t /\ a + (t + 1) = a + t + 1 /\ (t + 1) + 1 = t + 2 /\ t \in Int /\ t + 1 \in Nat
    BY <1>1
  <2>4. 2 * b * (U(a + t) - U(a) + t) >= 2 * b * y * t + h * (t * (t + 1)) + 2 * t
    BY <1>4 DEF RowAbove
  <2> DEFINE s == U(a + t) - U(a)
             g == Sizes(d)[a + t + 1]
  <2>5. s \in Int /\ g \in Int /\ U(a + t + 1) - U(a) = s + g
    <3> HIDE DEF U
    <3> QED
      BY <1>2, <2>2, <2>3
  <2>6. 2 * b * (s + g + (t + 1)) >= 2 * b * y * (t + 1) + h * ((t + 1) * (t + 2)) + 2 * (t + 1)
    <3>1. /\ 2 * b * (s + t) >= 2 * b * y * t + h * (t * (t + 1)) + 2 * t
          /\ b * y + h * (t + 1) < b * g + b
      BY <2>1, <2>4
    <3> HIDE DEF s, g
    <3>2. b \in Int /\ y \in Int /\ h \in Int
      BY <1>1
    <3> QED
      BY <2>3, <2>5, <3>1, <3>2, AboveArithmetic
  <2> HIDE DEF s, g
  <2>7. 2 * b * (U(a + (t + 1)) - U(a) + (t + 1)) >=
          2 * b * y * (t + 1) + h * ((t + 1) * ((t + 1) + 1)) + 2 * (t + 1)
    <3> HIDE DEF U
    <3> QED
      BY <2>3, <2>5, <2>6
  <2> QED
    BY <2>3, <2>7 DEF RowAbove
<1> HIDE DEF T
<1>5. b \in T
  <2>1. \A t \in 0 .. b : t \in T
    BY <1>1, <1>3, <1>4, NoneMissing
  <2> QED
    BY <1>1, <2>1
<1> QED
  BY <1>5 DEF T

\* A row of the sum that dist_avg_size makes.
Area(d) == [i \in 2 .. Len(d) |-> (d[i].cdf - d[i - 1].cdf) * (d[i].size + d[i - 1].size)]

LEMMA RowMean ==
    ASSUME NEW d, WholeCdf(d), trace!TraceGenAssumption, NEW i \in 2 .. Len(d),
           NEW a, NEW c, a = d[i - 1].cdf, c = d[i].cdf
    PROVE  /\ Area(d)[i] \in Int
           /\ 2 * (Upto(Sizes(d), 0, c - 1) - Upto(Sizes(d), 0, a - 1)) <= Area(d)[i]
           /\ Area(d)[i] + (IF c > a THEN 2 ELSE 0)
                <= 2 * (Upto(Sizes(d), 0, c) - Upto(Sizes(d), 0, a) + (c - a))
<1> DEFINE b == c - a
           y == d[i - 1].size
           h == d[i].size - d[i - 1].size
           U(n) == Upto(Sizes(d), 0, n)
<1>1. RowBetween(d, i, a, b, y, h)
  BY DEF RowBetween
<1>2. a \in Nat /\ b \in Nat /\ y \in Nat /\ h \in Nat /\ a + b <= Den /\ c = a + b /\ d[i].size = y + h
  BY <1>1, RowInside
<1>3. Area(d)[i] = b * ((y + h) + y)
  <2>1. Area(d)[i] = (d[i].cdf - d[i - 1].cdf) * (d[i].size + d[i - 1].size)
    BY ONLY i \in 2 .. Len(d) DEF Area
  <2> QED
    BY ONLY <1>2, <2>1, a = d[i - 1].cdf, c = d[i].cdf, Zenon
<1>4. a \in 0 .. Den /\ c \in 0 .. Den
  <2>1. Den \in Int
    BY DEF trace!TraceGenAssumption
  <2> QED
    BY ONLY <1>2, <2>1
<1>5. U(a) \in Int /\ U(a - 1) \in Int /\ U(c) \in Int /\ U(c - 1) \in Int
  BY <1>4, RowNext
<1>6. Area(d)[i] \in Int
  <2>1. b * ((y + h) + y) \in Int
    BY ONLY <1>2, SMT
  <2> QED
    BY <1>3, <2>1
<1>7. CASE b = 0
  <2>1. c = a /\ b * ((y + h) + y) = 0
    BY ONLY <1>2, <1>7, SMT
  <2> HIDE DEF U
  <2>2. U(c) - U(a) = 0 /\ U(c - 1) - U(a - 1) = 0
    BY <1>5, <2>1
  <2>3. Area(d)[i] = 0 /\ c - a = 0 /\ ~(c > a)
    BY <1>2, <1>3, <2>1
  <2> QED
    BY <2>2, <2>3 DEF U
<1>8. CASE b # 0
  <2>1. b > 0 /\ b \in Nat \ {0}
    BY <1>2, <1>8
  <2>2. RowBelow(Sizes(d), a, b, y, h, b) /\ RowAbove(Sizes(d), a, b, y, h, b)
    BY <1>1, <2>1, RowSumBelow, RowSumAbove
  <2>3. /\ 2 * b * (U(a + b - 1) - U(a - 1)) <= 2 * b * y * b + h * (b * (b - 1))
        /\ 2 * b * (U(a + b) - U(a) + b) >= 2 * b * y * b + h * (b * (b + 1)) + 2 * b
    BY <2>2 DEF RowBelow, RowAbove
  <2> HIDE DEF U, b, y, h
  <2>4. U(a + b - 1) - U(a - 1) \in Int /\ U(a + b) - U(a) \in Int
    <3>1. a + b - 1 = c - 1 /\ a + b = c
      BY ONLY <1>2
    <3>2. \A p, q \in Int : p - q \in Int
      OBVIOUS
    <3> QED
      BY ONLY <1>5, <3>1, <3>2
  <2>5. /\ 2 * (U(a + b - 1) - U(a - 1)) <= b * ((y + h) + y)
        /\ b * ((y + h) + y) + 2 <= 2 * (U(a + b) - U(a) + b)
    BY <1>2, <2>1, <2>3, <2>4, Halved
  <2>6. c > a /\ c - a = b
    BY <1>2, <2>1
  <2>7. a + b - 1 = c - 1 /\ a + b = c
    BY ONLY <1>2
  <2>8. /\ 2 * (U(c - 1) - U(a - 1)) <= Area(d)[i]
        /\ Area(d)[i] + 2 <= 2 * (U(c) - U(a) + (c - a))
    BY ONLY <1>3, <2>5, <2>6, <2>7
  <2> QED
    BY <1>6, <2>6, <2>8 DEF U
<1> QED
  BY <1>6, <1>7, <1>8

\* What the rows up to the k-th come to.
MeanUpTo(d, k) ==
    /\ Upto(Area(d), 2, k) \in Int
    /\ 2 * Upto(Sizes(d), 0, d[k].cdf - 1) <= Upto(Area(d), 2, k)
    /\ Upto(Area(d), 2, k) + (IF d[k].cdf > 0 THEN 2 ELSE 0)
         <= 2 * (Upto(Sizes(d), 0, d[k].cdf) - Upto(Sizes(d), 0, 0) + d[k].cdf)

\* One row more.
LEMMA RowAdded ==
    ASSUME NEW f \in Int, NEW v \in Int, NEW w, w = v + f,
           NEW a \in Int, NEW c \in Int, 0 <= a, a <= c,
           NEW o \in Int, NEW p \in Int, NEW q \in Int, NEW r \in Int, NEW s \in Int,
           2 * (s - q) <= f, f + (IF c > a THEN 2 ELSE 0) <= 2 * (r - p + (c - a)),
           2 * q <= v, v + (IF a > 0 THEN 2 ELSE 0) <= 2 * (p - o + a)
    PROVE  w \in Int /\ 2 * s <= w /\ w + (IF c > 0 THEN 2 ELSE 0) <= 2 * (r - o + c)
<1>1. CASE c > a
  BY <1>1
<1>2. CASE c = a
  BY <1>2
<1> QED
  BY <1>1, <1>2

LEMMA MeanOfRows ==
    ASSUME NEW d, WholeCdf(d), trace!TraceGenAssumption
    PROVE  MeanUpTo(d, Len(d))
<1>1. /\ Len(d) \in Nat \ {0} /\ Distribution(d)
      /\ \A r \in 1 .. Len(d) : d[r].cdf \in Nat /\ d[r].cdf \in 0 .. Den
  <2>1. Len(d) \in Nat \ {0} /\ Distribution(d) /\ \A r \in 1 .. Len(d) : d[r].cdf \in 0 .. Den
    BY RowTyped DEF WholeCdf
  <2> QED
    BY <2>1 DEF trace!TraceGenAssumption
<1> DEFINE K == {k \in Nat : MeanUpTo(d, k + 1)}
<1>2. 0 \in K
  <2>1. d[1].cdf = 0 /\ 0 \in 0 .. Den
    BY <1>1 DEF WholeCdf
  <2>2. Upto(Area(d), 2, 1) = 0
    BY UptoNone
  <2>3. Upto(Sizes(d), 0, 0 - 1) = 0 /\ Upto(Sizes(d), 0, 0) \in Int
    BY <2>1, RowNext, UptoNone
  <2>4. MeanUpTo(d, 1)
    BY <2>1, <2>2, <2>3 DEF MeanUpTo
  <2> QED
    BY <2>4
<1>3. ASSUME NEW k \in 0 .. (Len(d) - 1) - 1, k \in K PROVE k + 1 \in K
  <2> DEFINE i == k + 2
             a == d[k + 1].cdf
             c == d[k + 2].cdf
             U(n) == Upto(Sizes(d), 0, n)
             V(n) == Upto(Area(d), 2, n)
  <2>1. /\ i \in 2 .. Len(d) /\ k + 1 \in 1 .. Len(d) /\ k + 2 \in 1 .. Len(d) /\ k + 1 <= k + 2
        /\ i - 1 = k + 1 /\ (k + 1) + 1 = k + 2 /\ k \in Int /\ k + 1 \in Nat
    BY <1>1
  <2>2. /\ Area(d)[i] \in Int
        /\ 2 * (U(c - 1) - U(a - 1)) <= Area(d)[i]
        /\ Area(d)[i] + (IF c > a THEN 2 ELSE 0) <= 2 * (U(c) - U(a) + (c - a))
    BY <2>1, RowMean
  <2>3. /\ V(k + 1) \in Int /\ 2 * U(a - 1) <= V(k + 1)
        /\ V(k + 1) + (IF a > 0 THEN 2 ELSE 0) <= 2 * (U(a) - U(0) + a)
    BY <1>3 DEF MeanUpTo
  <2>4. V(k + 2) = V(k + 1) + Area(d)[i]
    <3>1. \A j \in 2 .. (k + 1) + 1 : Area(d)[j] \in Int
      <4>1. ASSUME NEW j \in 2 .. (k + 1) + 1 PROVE Area(d)[j] \in Int
        <5>1. j \in 2 .. Len(d)
          BY <1>1, <2>1
        <5> QED
          BY <5>1, RowMean
      <4> QED
        BY <4>1
    <3>2. 2 - 1 <= k + 1 /\ k + 1 \in Int
      BY <2>1
    <3>3. Upto(Area(d), 2, (k + 1) + 1) = Upto(Area(d), 2, k + 1) + Area(d)[(k + 1) + 1]
      BY <3>1, <3>2, UptoNext
    <3> QED
      BY <2>1, <3>3
  <2>5. U(a) \in Int /\ U(a - 1) \in Int /\ U(c) \in Int /\ U(c - 1) \in Int /\ U(0) \in Int
    <3>1. a \in 0 .. Den /\ c \in 0 .. Den /\ 0 \in 0 .. Den
      BY <1>1, <2>1 DEF trace!TraceGenAssumption
    <3> QED
      BY <3>1, RowNext
  <2>6. a \in Int /\ c \in Int /\ 0 <= a /\ a <= c
    BY <1>1, <2>1, RowsInOrder
  <2> HIDE DEF U, V, a, c, i
  <2>7. PICK f \in Int, v \in Int, o \in Int, p \in Int, q \in Int, r \in Int, s \in Int :
          /\ f = Area(d)[i] /\ v = V(k + 1)
          /\ o = U(0) /\ p = U(a) /\ q = U(a - 1) /\ r = U(c) /\ s = U(c - 1)
    BY <2>2, <2>3, <2>5, Zenon
  <2>8. /\ 2 * (s - q) <= f /\ f + (IF c > a THEN 2 ELSE 0) <= 2 * (r - p + (c - a))
        /\ 2 * q <= v /\ v + (IF a > 0 THEN 2 ELSE 0) <= 2 * (p - o + a)
    BY <2>2, <2>3, <2>7
  <2>9. PICK w : w = v + f
    OBVIOUS
  <2>10. w \in Int /\ 2 * s <= w /\ w + (IF c > 0 THEN 2 ELSE 0) <= 2 * (r - o + c)
    BY <2>6, <2>8, <2>9, RowAdded
  <2>11. /\ V(k + 2) \in Int /\ 2 * U(c - 1) <= V(k + 2)
         /\ V(k + 2) + (IF c > 0 THEN 2 ELSE 0) <= 2 * (U(c) - U(0) + c)
    BY <2>4, <2>7, <2>9, <2>10
  <2>12. MeanUpTo(d, k + 2)
    BY <2>11 DEF MeanUpTo, U, V, c
  <2> QED
    BY <2>1, <2>12
<1> HIDE DEF K
<1>4. Len(d) - 1 \in Nat /\ (Len(d) - 1) + 1 = Len(d)
  BY <1>1
<1>5. \A k \in 0 .. Len(d) - 1 : k \in K
  BY <1>2, <1>3, <1>4, NoneMissing
<1>6. Len(d) - 1 \in K
  BY <1>4, <1>5
<1> QED
  BY <1>4, <1>6 DEF K

\* The two bounds on the mean.
LEMMA MeanBounds ==
    ASSUME NEW d, WholeCdf(d), trace!TraceGenAssumption, NEW sum,
           sum = trace!MapThenSumSet(LAMBDA u : trace!gen_size(d, u), 0 .. Den - 1)
    PROVE  /\ 2 * sum <= trace!TwiceAverage(d)
           /\ trace!TwiceAverage(d) < 2 * (sum + Den + d[Len(d)].size - d[1].size)
<1>1. /\ Len(d) \in Nat \ {0} /\ Distribution(d) /\ 1 \in 1 .. Len(d) /\ Len(d) \in 1 .. Len(d)
      /\ d[1].cdf = 0 /\ d[Len(d)].cdf = Den /\ Den \in Nat \ {0} /\ 0 \in 0 .. Den /\ Den \in 0 .. Den
      /\ \A r \in 1 .. Len(d) : d[r].size \in Int
  BY RowTyped DEF WholeCdf, trace!TraceGenAssumption
<1>2. trace!TwiceAverage(d) = Upto(Area(d), 2, Len(d))
  BY <1>1, AverageIsSum DEF Area
<1>3. sum = Upto(Sizes(d), 0, Den - 1)
  <2>1. \A u \in 0 .. Den - 1 : u \in 0 .. Den
    BY <1>1
  <2>2. \A u \in 0 .. Den - 1 : Sizes(d)[u] = trace!gen_size(d, u)
    BY <2>1, SizesTypedIn
  <2> QED
    BY <2>2, TotalIsSum
<1>4. /\ Upto(Area(d), 2, Len(d)) \in Int
      /\ 2 * Upto(Sizes(d), 0, Den - 1) <= Upto(Area(d), 2, Len(d))
      /\ Upto(Area(d), 2, Len(d)) + 2 <= 2 * (Upto(Sizes(d), 0, Den) - Upto(Sizes(d), 0, 0) + Den)
  <2>1. MeanUpTo(d, Len(d)) /\ Den > 0
    BY <1>1, MeanOfRows
  <2> QED
    BY <1>1, <2>1 DEF MeanUpTo
<1>5. /\ Upto(Sizes(d), 0, Den) = Upto(Sizes(d), 0, Den - 1) + Sizes(d)[Den]
      /\ Upto(Sizes(d), 0, Den - 1) \in Int
  BY <1>1, RowNext
<1>6. Upto(Sizes(d), 0, 0) = Sizes(d)[0]
  <2>1. Upto(Sizes(d), 0, 0) = Upto(Sizes(d), 0, 0 - 1) + Sizes(d)[0]
    BY <1>1, RowNext
  <2>2. Upto(Sizes(d), 0, 0 - 1) = 0
    <3>1. 0 - 1 \in Int /\ 0 - 1 < 0 /\ 0 \in Int
      OBVIOUS
    <3> QED
      BY <3>1, UptoNone, Zenon
  <2>3. Sizes(d)[0] \in Int
    BY <1>1, SizesTypedIn
  <2> QED
    BY <2>1, <2>2, <2>3
<1>7. /\ Sizes(d)[Den] = trace!gen_size(d, Den) /\ Sizes(d)[Den] \in Int
      /\ Sizes(d)[0] = trace!gen_size(d, 0) /\ Sizes(d)[0] \in Int
  BY <1>1, SizesTypedIn
<1>8. d[1].size <= Sizes(d)[0] /\ Sizes(d)[Den] <= d[Len(d)].size
  <2>1. d[1].size <= trace!gen_size(d, 0)
    BY <1>1, SizeBetweenRows
  <2>2. trace!RowOf(d, Den) \in 1 .. Len(d) /\ trace!gen_size(d, Den) <= d[trace!RowOf(d, Den)].size
    BY <1>1, SizeBetweenRows
  <2>3. d[trace!RowOf(d, Den)].size <= d[Len(d)].size
    BY <1>1, <2>2, RowsInOrder
  <2>4. d[trace!RowOf(d, Den)].size \in Int /\ d[Len(d)].size \in Int
    BY <1>1, <2>2
  <2> QED
    BY <1>7, <2>1, <2>2, <2>3, <2>4
<1>9. PICK A \in Int, S \in Int, l \in Int, f \in Int, y \in Int, z \in Int, n \in Int :
        /\ A = trace!TwiceAverage(d) /\ S = sum /\ l = Sizes(d)[Den] /\ f = Sizes(d)[0]
        /\ y = d[1].size /\ z = d[Len(d)].size /\ n = Den
  <2>1. trace!TwiceAverage(d) \in Int /\ sum \in Int
    BY <1>2, <1>3, <1>4, <1>5
  <2>2. d[1].size \in Int /\ d[Len(d)].size \in Int /\ Den \in Int
    BY <1>1
  <2> QED
    BY <1>7, <2>1, <2>2, Zenon
<1>10. 2 * S <= A /\ A + 2 <= 2 * ((S + l) - f + n) /\ y <= f /\ l <= z
  BY <1>2, <1>3, <1>4, <1>5, <1>6, <1>8, <1>9
<1>11. 2 * S <= A /\ A < 2 * (S + n + z - y)
  BY ONLY <1>10, A \in Int, S \in Int, l \in Int, f \in Int, y \in Int, z \in Int, n \in Int
<1> QED
  BY <1>9, <1>11

\* gen_size is an integer whenever it does not divide by zero.
LEMMA GenSizeTyped ==
    ASSUME NEW d, Distribution(d), trace!TraceGenAssumption, NEW u \in Int, ~trace!DividesByZero(d, u)
    PROVE  trace!gen_size(d, u) \in Int
<1>1. /\ Len(d) \in Nat
      /\ \A r \in 1 .. Len(d) : d[r].cdf \in Int /\ d[r].size \in Int
  BY RowTyped
<1>2. CASE trace!Reached(d, u) = {}
  BY <1>2 DEF trace!gen_size
<1>3. CASE trace!Reached(d, u) # {}
  <2> DEFINE i == trace!RowOf(d, u)
             r1 == trace!Before(d, i)
             num == (d[i].size - r1.size) * u + d[i].cdf * r1.size - r1.cdf * d[i].size
             den == d[i].cdf - r1.cdf
  <2>1. i \in 1 .. Len(d) /\ d[i].cdf >= u
    BY <1>3, RowIsFirst
  <2>2. r1.cdf \in Int /\ r1.size \in Int /\ d[i].cdf \in Int /\ d[i].size \in Int
    <3>1. Len(d) \in 1 .. Len(d) /\ (i # 1 => i - 1 \in 1 .. Len(d))
      BY <1>1, <2>1
    <3>2. r1 = d[Len(d)] \/ (i # 1 /\ r1 = d[i - 1])
      BY DEF trace!Before
    <3> HIDE DEF i, r1
    <3> QED
      BY <1>1, <2>1, <3>1, <3>2
  <2>3. trace!gen_size(d, u) = IF d[i].cdf = u THEN d[i].size ELSE trace!Int_(num, den)
    BY <1>3 DEF trace!gen_size
  <2>4. CASE d[i].cdf = u
    BY <2>2, <2>3, <2>4
  <2>5. CASE d[i].cdf # u
    <3>1. d[i].cdf > u
      <4> HIDE DEF i
      <4> QED
        BY <2>1, <2>2, <2>5
    <3>2. r1.cdf # d[i].cdf
      BY <1>3, <3>1 DEF trace!DividesByZero
    <3> HIDE DEF i, r1
    <3>3. num \in Int /\ den \in Int /\ den # 0
      BY <2>2, <3>2
    <3> HIDE DEF num, den
    <3>4. trace!Int_(num, den) \in Int
      BY <3>3, IntTyped
    <3> QED
      BY <2>3, <2>5, <3>4
  <2> QED
    BY <2>4, <2>5
<1> QED
  BY <1>2, <1>3

LEMMA AverageMeansRows ==
    ASSUME NEW d, Distribution(d), trace!TraceGenAssumption, trace!TwiceAverage(d) # 0
    PROVE  Len(d) > 0
<1>1. Len(d) \in Nat
  BY RowTyped
<1>2. SUFFICES ASSUME Len(d) = 0 PROVE FALSE
  BY <1>1
<1>3. trace!TwiceAverage(d) = Upto(Area(d), 2, Len(d))
  BY <1>1, AverageIsSum DEF Area
<1>4. Upto(Area(d), 2, 0) = 0
  BY UptoNone
<1> QED
  BY <1>2, <1>3, <1>4

\* A file whose rows all have the same CDF value has no average.
LEMMA FlatMeansNoAverage ==
    ASSUME NEW d, Distribution(d), trace!TraceGenAssumption, Len(d) > 0,
           d[Len(d)].cdf = d[1].cdf
    PROVE  trace!TwiceAverage(d) = 0
<1>1. /\ Len(d) \in Nat /\ Len(d) \in 1 .. Len(d) /\ 1 \in 1 .. Len(d)
      /\ \A r \in 1 .. Len(d) : d[r].cdf \in Int /\ d[r].size \in Int
  BY RowTyped
<1>2. ASSUME NEW i \in 1 .. Len(d) PROVE d[i].cdf = d[1].cdf
  <2>1. d[1].cdf <= d[i].cdf /\ d[i].cdf <= d[Len(d)].cdf
    <3>1. 1 <= i /\ i <= Len(d)
      BY <1>1
    <3> QED
      BY <1>1, <3>1, RowsInOrder
  <2> QED
    BY <1>1, <2>1
<1>3. ASSUME NEW i \in 2 .. Len(d) PROVE Area(d)[i] = 0
  <2>1. i \in 1 .. Len(d) /\ i - 1 \in 1 .. Len(d)
    BY <1>1
  <2>2. d[i].cdf - d[i - 1].cdf = 0 /\ d[i].size + d[i - 1].size \in Int
    BY <1>1, <1>2, <2>1
  <2>3. \A n \in Int : 0 * n = 0
    BY SMT
  <2> QED
    BY <2>2, <2>3 DEF Area
<1> DEFINE K == {k \in Nat : k + 1 <= Len(d) => Upto(Area(d), 2, k + 1) = 0}
<1>4. 0 \in K
  <2>1. Upto(Area(d), 2, 0 + 1) = 0
    BY UptoNone
  <2> QED
    BY <2>1
<1>5. ASSUME NEW k \in 0 .. (Len(d) - 1) - 1, k \in K PROVE k + 1 \in K
  <2>1. /\ k + 1 \in Int /\ k + 1 <= Len(d) /\ (k + 1) + 1 \in 2 .. Len(d) /\ 2 - 1 <= k + 1
        /\ k + 1 \in Nat
    BY <1>1
  <2>2. \A i \in 2 .. (k + 1) + 1 : Area(d)[i] \in Int
    <3> TAKE i \in 2 .. (k + 1) + 1
    <3>1. i \in 2 .. Len(d)
      BY <1>1, <2>1
    <3> QED
      BY <1>3, <3>1
  <2>3. Upto(Area(d), 2, (k + 1) + 1) = Upto(Area(d), 2, k + 1) + Area(d)[(k + 1) + 1]
    BY <2>1, <2>2, UptoNext
  <2>4. Upto(Area(d), 2, (k + 1) + 1) = 0
    BY <1>3, <1>5, <2>1, <2>3
  <2> QED
    BY <2>1, <2>4
<1>6. Len(d) - 1 \in K
  <2> DEFINE n == Len(d) - 1
  <2>1. n \in Nat /\ n \in 0 .. n
    BY <1>1
  <2>2. \A k \in 0 .. n - 1 : k \in K => k + 1 \in K
    BY <1>5
  <2> HIDE DEF K, n
  <2>3. \A k \in 0 .. n : k \in K
    BY ONLY <1>4, <2>1, <2>2, NoneMissing
  <2>4. n \in K
    BY <2>1, <2>3
  <2> QED
    BY <2>4 DEF n
<1>7. Upto(Area(d), 2, Len(d)) = 0
  BY <1>1, <1>6
<1> QED
  BY <1>1, <1>7, AverageIsSum DEF Area

\* Where there is an average, gen_size does not divide by zero.
LEMMA NoDivisionByZero ==
    ASSUME NEW d, Distribution(d), trace!TraceGenAssumption, NEW u \in Int,
           trace!TwiceAverage(d) # 0
    PROVE  ~trace!DividesByZero(d, u)
<1> SUFFICES ASSUME trace!DividesByZero(d, u) PROVE FALSE
  OBVIOUS
<1> DEFINE i == trace!RowOf(d, u)
<1>1. /\ Len(d) \in Nat /\ Len(d) \in 1 .. Len(d) /\ \A r \in 1 .. Len(d) : d[r].cdf \in Int
  BY RowTyped, AverageMeansRows
<1>2. trace!Reached(d, u) # {} /\ d[i].cdf > u /\ trace!Before(d, i).cdf = d[i].cdf
  BY DEF trace!DividesByZero
<1>3. i \in 1 .. Len(d) /\ \A j \in 1 .. Len(d) : j < i => d[j].cdf < u
  BY <1>2, RowIsFirst
<1> HIDE DEF i
<1>4. CASE i = 1
  <2>1. d[Len(d)].cdf = d[1].cdf
    BY <1>2, <1>4 DEF trace!Before
  <2> QED
    BY <2>1, FlatMeansNoAverage, AverageMeansRows
<1>5. CASE i # 1
  <2>1. i - 1 \in 1 .. Len(d) /\ i - 1 < i
    BY <1>1, <1>3, <1>5
  <2>2. d[i - 1].cdf < u /\ d[i - 1].cdf = d[i].cdf /\ d[i - 1].cdf \in Int
    BY <1>1, <1>2, <1>3, <1>5, <2>1 DEF trace!Before
  <2> QED
    BY <1>2, <2>2
<1> QED
  BY <1>4, <1>5

\* Above the last CDF value there is no row to stop at.
LEMMA SizeAbove ==
    ASSUME NEW d, Distribution(d), trace!TraceGenAssumption, NEW u \in Int,
           Len(d) > 0, u > d[Len(d)].cdf
    PROVE  trace!gen_size(d, u) = 0
<1>1. /\ Len(d) \in Nat /\ Len(d) \in 1 .. Len(d) /\ DOMAIN d = 1 .. Len(d)
      /\ \A r \in 1 .. Len(d) : d[r].cdf \in Int
  BY RowTyped
<1>2. ASSUME NEW r \in 1 .. Len(d) PROVE ~(d[r].cdf >= u)
  <2>1. d[r].cdf <= d[Len(d)].cdf
    BY <1>1, RowsInOrder
  <2> QED
    BY <1>1, <2>1
<1>3. trace!Reached(d, u) = {}
  BY <1>1, <1>2 DEF trace!Reached
<1> QED
  BY <1>3 DEF trace!gen_size

\* What int() leaves of a quotient that is not above y is not above y.
LEMMA QuotientBelow ==
    ASSUME NEW b \in Nat \ {0}, NEW y \in Nat, NEW n \in Int, n <= b * y
    PROVE  (IF n >= 0 THEN n \div b ELSE -((-n) \div b)) <= y
<1>0. ASSUME NEW m \in Nat
      PROVE  m \div b \in Int /\ m % b \in 0 .. b - 1 /\ m = b * (m \div b) + (m % b)
  OBVIOUS
<1>1. CASE n >= 0
  <2>1. PICK q \in Int, r \in 0 .. b - 1 : q = n \div b /\ n = b * q + r
    BY <1>0, <1>1
  <2>2. b * q < b * y + b /\ b * q \in Int /\ b * y \in Int
    BY <2>1
  <2>3. q <= y
    BY <2>1, <2>2, FactorGrows
  <2> QED
    BY <1>1, <2>1, <2>3
<1>2. CASE ~(n >= 0)
  <2>1. PICK m \in Nat : m = -n
    BY <1>2
  <2>2. PICK q \in Int, r \in 0 .. b - 1 : q = m \div b /\ m = b * q + r
    BY <1>0
  <2>3. b * 0 < b * q + b /\ b * q \in Int
    BY <2>2
  <2>4. 0 <= q
    BY <2>2, <2>3, FactorGrows
  <2> QED
    BY <1>2, <2>1, <2>2, <2>4
<1> QED
  BY <1>1, <1>2

\* Below the first CDF value the size is on the line through the last row and
\* the first, on the far side of the first.
LEMMA SizeBelow ==
    ASSUME NEW d, Distribution(d), trace!TraceGenAssumption, NEW u \in Int,
           Len(d) > 0, u < d[1].cdf, ~trace!DividesByZero(d, u)
    PROVE  trace!gen_size(d, u) <= d[1].size
<1>1. /\ Len(d) \in Nat /\ Len(d) \in 1 .. Len(d) /\ 1 \in 1 .. Len(d) /\ DOMAIN d = 1 .. Len(d)
      /\ \A r \in 1 .. Len(d) : d[r].cdf \in Int /\ d[r].size \in Nat
  BY RowTyped
<1>2. 1 \in trace!Reached(d, u)
  BY <1>1 DEF trace!Reached
<1>3. trace!RowOf(d, u) = 1
  <2>1. /\ trace!RowOf(d, u) \in 1 .. Len(d)
        /\ \A j \in 1 .. Len(d) : j < trace!RowOf(d, u) => d[j].cdf < u
    BY <1>2, RowIsFirst
  <2>2. ~(1 < trace!RowOf(d, u))
    BY <1>1, <2>1
  <2> QED
    BY <1>1, <2>1, <2>2
<1>4. PICK c \in Int, b \in Nat \ {0}, y \in Nat, h \in Nat :
        /\ c = d[1].cdf /\ y = d[1].size
        /\ d[Len(d)].cdf = c + b /\ d[Len(d)].size = y + h
  <2>1. d[1].cdf <= d[Len(d)].cdf /\ d[1].size <= d[Len(d)].size
    <3>1. 1 <= Len(d)
      BY <1>1
    <3> QED
      BY <1>1, <3>1, RowsInOrder
  <2>2. d[Len(d)].cdf # d[1].cdf
    BY <1>2, <1>3 DEF trace!DividesByZero, trace!Before
  <2>3. PICK c \in Int, y \in Nat, e \in Int, z \in Nat :
          c = d[1].cdf /\ y = d[1].size /\ e = d[Len(d)].cdf /\ z = d[Len(d)].size
    BY <1>1, Zenon
  <2>4. c <= e /\ c # e /\ y <= z
    BY <2>1, <2>2, <2>3, Zenon
  <2>5. e - c \in Nat \ {0} /\ z - y \in Nat /\ e = c + (e - c) /\ z = y + (z - y)
    BY ONLY <2>4, c \in Int, y \in Nat, e \in Int, z \in Nat
  <2> QED
    BY <2>3, <2>5, Zenon
<1> DEFINE num == (y - (y + h)) * u + c * (y + h) - (c + b) * y
<1>5. trace!gen_size(d, u) = trace!Int_(num, c - (c + b))
  <2>1. trace!Reached(d, u) # {} /\ d[1].cdf # u /\ trace!Before(d, 1) = d[Len(d)]
    BY <1>1, <1>2 DEF trace!Before
  <2>2. trace!gen_size(d, u) =
          trace!Int_((d[1].size - d[Len(d)].size) * u + d[1].cdf * d[Len(d)].size - d[Len(d)].cdf * d[1].size,
                     d[1].cdf - d[Len(d)].cdf)
    BY <1>3, <2>1, Zenon DEF trace!gen_size
  <2> QED
    BY <1>4, <2>2, Zenon
<1>6. PICK n \in Int : n = b * y - h * (c - u) /\ num = -n
  <2>1. /\ c * (y + h) = c * y + h * c /\ (c + b) * y = c * y + b * y
        /\ h * (c - u) = h * c - h * u
    BY ONLY c \in Int, b \in Nat \ {0}, y \in Nat, h \in Nat, u \in Int, SMT
  <2>2. y - (y + h) = -h /\ (-h) * u = -(h * u)
    BY ONLY y \in Nat, h \in Nat, u \in Int, SMT
  <2>3. PICK cy \in Int, hc \in Int, hu \in Int, by \in Int :
            cy = c * y /\ hc = h * c /\ hu = h * u /\ by = b * y
    BY ONLY c \in Int, b \in Nat \ {0}, y \in Nat, h \in Nat, u \in Int, SMT
  <2>4. (y - (y + h)) * u = -hu /\ c * (y + h) = cy + hc /\ (c + b) * y = cy + by
    BY <2>1, <2>2, <2>3, Zenon
  <2>a. num = -hu + (cy + hc) - (cy + by)
    BY <2>4, Zenon
  <2>b. h * (c - u) = hc - hu /\ b * y = by
    BY <2>1, <2>3, Zenon
  <2> HIDE DEF num
  <2>5. by - (hc - hu) \in Int /\ num = -(by - (hc - hu))
    BY ONLY cy \in Int, hc \in Int, hu \in Int, by \in Int, <2>a
  <2> QED
    BY <2>b, <2>5, Zenon
<1>7. n <= b * y
  <2>1. c - u \in Nat
    BY <1>4
  <2>2. h * 0 <= h * (c - u) /\ h * (c - u) \in Int /\ h * 0 = 0
    BY <2>1, ProductGrows
  <2>3. b * y \in Int
    OBVIOUS
  <2> QED
    BY <1>6, <2>2, <2>3
<1> HIDE DEF num
<1>8. trace!Int_(num, c - (c + b)) = IF n >= 0 THEN n \div b ELSE -((-n) \div b)
  <2>1. c - (c + b) = -b /\ -b < 0 /\ -(-b) = b /\ -num = n
    BY <1>6
  <2> QED
    BY <2>1 DEF trace!Int_
<1> QED
  BY <1>4, <1>5, <1>7, <1>8, QuotientBelow

\* The inductive invariant: what gen_size made of the last random number, and
\* why the program stopped.
TraceInv ==
    /\ trace!TypeOK /\ trace!Ordered(dist)
    /\ generating \in {"run", "done"} => trace!TwiceAverage(dist) # 0
    /\ generating \in {"start", "error"} => written = 0
    /\ written > 0 => flow_size = trace!gen_size(dist, draw) /\ ~trace!DividesByZero(dist, draw)
    /\ generating = "error" => trace!TwiceAverage(dist) = 0

LEMMA TraceInit == ASSUME trace!TraceGenAssumption, trace!Init PROVE TraceInv
<1>1. dist \in Seq(trace!Rows)
  <2>1. PICK n \in 0 .. MaxRows : dist \in [1 .. n -> trace!Rows]
    BY DEF trace!Init
  <2>2. n \in Nat
    BY DEF trace!TraceGenAssumption
  <2> QED
    BY <2>1, <2>2
<1>2. NumFlows \in Nat /\ Den \in Nat \ {0}
  BY DEF trace!TraceGenAssumption
<1> QED
  BY <1>1, <1>2 DEF trace!Init, TraceInv, trace!TypeOK

LEMMA WriteHolds ==
    ASSUME trace!TraceGenAssumption, TraceInv, trace!Write
    PROVE  TraceInv'
<1>1. /\ dist \in Seq(trace!Rows) /\ trace!Ordered(dist) /\ Distribution(dist)
      /\ written \in 0 .. NumFlows /\ flow_size \in Int
      /\ trace!TwiceAverage(dist) # 0 /\ generating = "run" /\ written < NumFlows
      /\ draw' \in 0 .. Den - 1 /\ dist' = dist
  BY DEF TraceInv, trace!TypeOK, trace!Write, Distribution
<1>2. draw' \in Int /\ NumFlows \in Nat
  BY <1>1 DEF trace!TraceGenAssumption
<1>3. trace!TwiceAverage(dist)' = trace!TwiceAverage(dist)
  BY <1>1
<1>4. trace!Ordered(dist)'
  BY <1>1 DEF trace!Ordered
<1>5. ~trace!DividesByZero(dist, draw')
  BY <1>1, <1>2, NoDivisionByZero
<1>6. ~trace!DividesByZero(dist, draw)'
  BY <1>1, <1>5 DEF trace!DividesByZero, trace!Reached, trace!RowOf, trace!Before
<1>7. TraceInv'
  <2>1. flow_size' = trace!gen_size(dist, draw') /\ written' = written + 1 /\ generating' = generating
    BY <1>5 DEF trace!Write
  <2>2. flow_size' \in Int
    BY <1>1, <1>2, <1>5, <2>1, GenSizeTyped
  <2>3. trace!gen_size(dist, draw)' = trace!gen_size(dist, draw')
    BY <1>1 DEF trace!gen_size, trace!Reached, trace!RowOf, trace!Before
  <2>4. written' \in 0 .. NumFlows
    BY <1>1, <1>2, <2>1
  <2> QED
    BY <1>1, <1>3, <1>4, <1>6, <2>1, <2>2, <2>3, <2>4 DEF TraceInv, trace!TypeOK
<1> QED
  BY <1>7

LEMMA TraceStep ==
    ASSUME trace!TraceGenAssumption, TraceInv, [trace!Next]_trace_vars
    PROVE  TraceInv'
<1>1. ASSUME dist' = dist /\ written' = written /\ draw' = draw /\ flow_size' = flow_size
      PROVE  /\ trace!TwiceAverage(dist)' = trace!TwiceAverage(dist)
             /\ trace!Ordered(dist)' = trace!Ordered(dist)
             /\ trace!gen_size(dist, draw)' = trace!gen_size(dist, draw)
             /\ trace!DividesByZero(dist, draw)' = trace!DividesByZero(dist, draw)
  BY <1>1
<1>2. CASE trace!Rate
  BY <1>1, <1>2 DEF trace!Rate, TraceInv, trace!TypeOK
<1>3. CASE trace!Write
  BY <1>3, WriteHolds
<1>4. CASE trace!Close
  BY <1>1, <1>4 DEF trace!Close, TraceInv, trace!TypeOK
<1>5. CASE UNCHANGED <<dist, written, draw, flow_size, generating>>
  BY <1>1, <1>5 DEF TraceInv, trace!TypeOK
<1> QED
  BY <1>2, <1>3, <1>4, <1>5 DEF trace!Next, trace_vars

LEMMA TraceInvImplies ==
    ASSUME trace!TraceGenAssumption, TraceInv
    PROVE  trace!SizesFollowFile
<1>1. Distribution(dist) /\ draw \in Int
  BY DEF TraceInv, trace!TypeOK, Distribution, trace!TraceGenAssumption
<1>2. /\ Len(dist) \in Nat
      /\ \A r \in 1 .. Len(dist) : dist[r].cdf \in Int /\ dist[r].size \in Int
  BY <1>1, RowTyped
<1>3. ASSUME written > 0, draw \in trace!First.cdf .. trace!Last.cdf
      PROVE  /\ flow_size \in trace!First.size .. trace!Last.size
             /\ \A u \in trace!First.cdf .. draw : trace!gen_size(dist, u) <= flow_size
  <2>1. flow_size = trace!gen_size(dist, draw) /\ generating \in {"run", "done"} /\ trace!TwiceAverage(dist) # 0
    BY <1>3 DEF TraceInv, trace!TypeOK
  <2>2. Len(dist) > 0
    BY <1>1, <2>1, AverageMeansRows
  <2>3. /\ draw \in dist[1].cdf .. dist[Len(dist)].cdf /\ 1 \in 1 .. Len(dist) /\ Len(dist) \in 1 .. Len(dist)
        /\ dist[1].cdf \in Int /\ dist[Len(dist)].cdf \in Int
        /\ dist[1].size \in Int /\ dist[Len(dist)].size \in Int
    BY <1>2, <1>3, <2>2 DEF trace!First, trace!Last
  <2>4. /\ trace!RowOf(dist, draw) \in 1 .. Len(dist) /\ trace!gen_size(dist, draw) \in Int
        /\ trace!gen_size(dist, draw) <= dist[trace!RowOf(dist, draw)].size
        /\ dist[1].size <= trace!gen_size(dist, draw)
    BY <1>1, <2>2, <2>3, SizeBetweenRows
  <2>5. /\ dist[trace!RowOf(dist, draw)].size <= dist[Len(dist)].size
        /\ dist[trace!RowOf(dist, draw)].size \in Int
    <3>1. trace!RowOf(dist, draw) <= Len(dist)
      BY <1>2, <2>4
    <3> QED
      BY <1>1, <1>2, <2>3, <2>4, <3>1, RowsInOrder
  <2>6. flow_size \in dist[1].size .. dist[Len(dist)].size
    BY <2>1, <2>3, <2>4, <2>5
  <2>7. ASSUME NEW u \in dist[1].cdf .. draw PROVE trace!gen_size(dist, u) <= flow_size
    <3>1. u \in dist[1].cdf .. dist[Len(dist)].cdf /\ u <= draw
      BY <1>1, <2>3
    <3> QED
      BY <1>1, <2>1, <2>2, <2>3, <3>1, SizesGrow
  <2> QED
    BY <2>6, <2>7 DEF trace!First, trace!Last
<1>4. ASSUME written > 0
      PROVE  /\ draw < trace!First.cdf => flow_size <= trace!First.size
             /\ draw > trace!Last.cdf => flow_size = 0
  <2>1. /\ flow_size = trace!gen_size(dist, draw) /\ ~trace!DividesByZero(dist, draw)
        /\ trace!TwiceAverage(dist) # 0
    BY <1>4 DEF TraceInv, trace!TypeOK
  <2>2. Len(dist) > 0
    BY <1>1, <2>1, AverageMeansRows
  <2> QED
    BY <1>1, <2>1, <2>2, SizeBelow, SizeAbove DEF trace!First, trace!Last
<1>5. ASSUME generating = "run", trace!First.cdf = 0, trace!Last.cdf = Den
      PROVE  WholeCdf(dist)
  <2>1. Len(dist) > 0
    BY <1>1, <1>5, AverageMeansRows DEF TraceInv
  <2> QED
    BY <1>1, <1>5, <2>1 DEF WholeCdf, trace!First, trace!Last
<1>6. trace!MeanIsAverage
  <2>1. SUFFICES ASSUME generating = "run", trace!First.cdf = 0, trace!Last.cdf = Den,
                        NEW sum, sum = trace!MapThenSumSet(LAMBDA u : trace!gen_size(dist, u), 0 .. Den - 1)
                 PROVE  /\ 2 * sum <= trace!TwiceAverage(dist)
                        /\ trace!TwiceAverage(dist) < 2 * (sum + Den + trace!Last.size - trace!First.size)
    BY DEF trace!MeanIsAverage
  <2> QED
    BY <1>5, <2>1, MeanBounds DEF trace!First, trace!Last
<1>7. trace!SizesInside
  BY <1>3, <1>4 DEF trace!SizesInside, TraceInv
<1> QED
  BY <1>6, <1>7 DEF trace!SizesFollowFile, TraceInv

-----------------------------------------------------------------------------
(* The composition: the program that runs keeps its invariant.             *)

PInv ==
    /\ program = "binary_search" => SearchInv
    /\ program = "mem_read_lat" => WalkInv
    /\ program = "cleanup" => CleanupInv
    /\ program = "submatches" => MatchInv
    /\ program = "trace_gen" => TraceInv
    /\ program = "interpose" => WrapperInv
    /\ program = "netlink" => NetlinkInv
    /\ program = "ipip" => IpIpInv
    /\ program = "http_server" => HttpInv
    /\ program = "simple_traffic_gen" => TrafficInv

LEMMA InitPInv == Init => PInv
  BY ProgramsAssumption, SearchInit, WalkInit, CleanupInit, MatchInit, WrapperInit, NetlinkInit,
     IpIpInit, HttpInit, TrafficInit, TraceInit
     DEF LibraryAssumption, ProgramsAssumption, Init, PInv

LEMMA PInvStep == PInv /\ [Next]_vars => PInv'
<1> SUFFICES ASSUME PInv, [Next]_vars PROVE PInv'
  OBVIOUS
<1>0. program' = program
  BY DEF Next, vars
<1>1. CASE program = "binary_search"
  <2>1. [search!Next]_search_vars
    BY <1>1 DEF Next, Sequential, Trafficking, vars
  <2> QED
    BY <1>0, <1>1, <2>1, ProgramsAssumption, SearchStep DEF ProgramsAssumption, PInv
<1>2. CASE program = "mem_read_lat"
  <2>1. [walk!Next]_walk_vars
    BY <1>2 DEF Next, Sequential, Trafficking, vars
  <2> QED
    BY <1>0, <1>2, <2>1, ProgramsAssumption, WalkStep DEF ProgramsAssumption, PInv
<1>3. CASE program = "cleanup"
  <2>1. [cleanup!Next]_cleanup_vars
    BY <1>3 DEF Next, Sequential, Trafficking, vars
  <2> QED
    BY <1>0, <1>3, <2>1, ProgramsAssumption, CleanupStep DEF ProgramsAssumption, PInv
<1>4. CASE program = "submatches"
  <2>1. [match!Next]_match_vars
    BY <1>4 DEF Next, Sequential, Trafficking, vars
  <2> QED
    BY <1>0, <1>4, <2>1, ProgramsAssumption, MatchStep DEF ProgramsAssumption, PInv
<1>5. CASE program = "interpose"
  <2>1. [wrapper!Next]_wrapper_vars
    BY <1>5 DEF Next, Sequential, Trafficking, vars
  <2> QED
    BY <1>0, <1>5, <2>1, ProgramsAssumption, WrapperStep DEF ProgramsAssumption, LibraryAssumption, PInv
<1>6. CASE program = "netlink"
  <2>1. [netlink!Next]_netlink_vars
    BY <1>6 DEF Next, Sequential, Trafficking, vars
  <2> QED
    BY <1>0, <1>6, <2>1, ProgramsAssumption, NetlinkStep DEF ProgramsAssumption, PInv
<1>7. CASE program = "ipip"
  <2>1. [ipip!Next]_ipip_vars
    BY <1>7 DEF Next, Sequential, Trafficking, vars
  <2> QED
    BY <1>0, <1>7, <2>1, ProgramsAssumption, IpIpStep DEF ProgramsAssumption, PInv
<1>8. CASE program = "http_server"
  <2>1. [http!Next]_http_vars
    BY <1>8 DEF Next, Sequential, Trafficking, vars
  <2> QED
    BY <1>0, <1>8, <2>1, ProgramsAssumption, HttpStep DEF ProgramsAssumption, PInv
<1>9. CASE program = "simple_traffic_gen"
  <2>1. [traffic!Next]_traffic_vars
    BY <1>9 DEF Next, Sequential, Trafficking, vars
  <2> QED
    BY <1>0, <1>9, <2>1, TrafficStep DEF PInv
<1>10. CASE program = "trace_gen"
  <2>1. [trace!Next]_trace_vars
    BY <1>10 DEF Next, Sequential, Trafficking, vars
  <2> QED
    BY <1>0, <1>10, <2>1, ProgramsAssumption, TraceStep DEF ProgramsAssumption, PInv
<1> QED
  BY <1>0, <1>1, <1>2, <1>3, <1>4, <1>5, <1>6, <1>7, <1>8, <1>9, <1>10 DEF PInv

\* binary_search returns a place of the target if there is one, for sorted
\* arrays of any length, and each iteration looks at an element that the one
\* before has prefetched (binary-search-prefetch/main.c:5-31).
THEOREM SearchesCorrectly == Spec => []SearchCorrect
<1>1. PInv => SearchCorrect
  BY DEF PInv, SearchInv, SearchCorrect
<1> QED
  BY <1>1, InitPInv, PInvStep, PTL DEF Spec

\* Each iteration leaves at most half of the range (main.c:10-27).
THEOREM SearchHalves == Spec => search!Halves
<1>1. PInv /\ [Next]_vars =>
          [pc' = "loop" => 2 * (end' - start' + 1) <= end - start + 1]_search_vars
  <2> SUFFICES ASSUME PInv, Next, ~UNCHANGED search_vars, pc' = "loop"
               PROVE  2 * (end' - start' + 1) <= end - start + 1
    BY DEF vars
  <2>1. SearchInv /\ search!Iterate
    BY DEF Next, Sequential, Trafficking, PInv, search!Next, search!Absent
  <2>2. /\ search!mid \in Int /\ start \in Int /\ end \in Int
        /\ 2 * (search!mid - start) \in end - start - 1 .. end - start
    BY <2>1, MidInside DEF SearchInv, search!Iterate, search!TypeOK
  <2>3. CASE search!SearchAbove
    BY <2>2, <2>3 DEF search!SearchAbove
  <2>4. CASE search!SearchBelow
    BY <2>2, <2>4 DEF search!SearchBelow
  <2> QED
    BY <2>1, <2>3, <2>4 DEF search!Iterate, search!Found
<1> QED
  BY <1>1, InitPInv, PInvStep, PTL DEF Spec, search!Halves, search!vars, search_vars

\* The walk over the shuffled addresses stays in an array of any size that has
\* an element, and makes the reads asked for (mem-read-lat/main.c:44-105).
THEOREM WalksInside == Spec => []WalkIsInside
<1>1. PInv => WalkIsInside
  BY ProgramsAssumption, WalkInvImplies DEF ProgramsAssumption, PInv, WalkIsInside
<1> QED
  BY <1>1, InitPInv, PInvStep, PTL DEF Spec

\* Whichever calls fail, each of the programs of Cleanup releases once what it
\* has got and uses nothing that is NULL or gone (pcredemo.c:60-145,
\* hyperscan-test/main.c:40-80 and the others).
THEOREM ReleasesOnce == Spec => []ReleasedOnce
<1>1. PInv => ReleasedOnce
  BY DEF PInv, CleanupInv, ReleasedOnce, cleanup!ReleasedOnce
<1> QED
  BY <1>1, InitPInv, PInvStep, PTL DEF Spec

\* For any number of groups and any room the submatches printed are those
\* captured, at their numbers, and none is lost without a word but where
\* re2demo finds the last place of ovector empty (re2demo/main.cpp:52-69,
\* pcredemo.c:117-141).
THEOREM PrintsCaptured == Spec => []PrintedIsCaptured
<1>1. PInv => PrintedIsCaptured
  BY MatchInvImplies DEF PInv, PrintedIsCaptured
<1> QED
  BY <1>1, InitPInv, PInvStep, PTL DEF Spec

\* However many threads bind a function at once, a call reaches the library or
\* reports that it has no such function, unless a failed dlopen has
\* overwritten a handle (rdma-monitor.c:10-50, run-interpose/mymalloc.c).
THEOREM CallsReachLibrary == Spec => []ReachesLibrary
<1>1. PInv => ReachesLibrary
  BY WrapperInvImplies DEF PInv, ReachesLibrary
<1> QED
  BY <1>1, InitPInv, PInvStep, PTL DEF Spec

\* For any number of users and loads a user that ends has its one answer, one
\* that waits has it coming or lost to the want of memory, and the handler
\* misses its socket only between creation and assignment
\* (netlink-latency-kernel.c:15-60).
THEOREM AnswersOnce == Spec => []AnsweredOnce
<1>1. PInv => AnsweredOnce
  BY DEF PInv, NetlinkInv, AnsweredOnce
<1> QED
  BY <1>1, InitPInv, PInvStep, PTL DEF Spec

\* For any MTU and headers and any well-formed options, with the modules coming
\* and going at any time: the walk by the lengths of the options finds the MSS
\* wherever it stands, so each host learns what its peer has announced, lower by
\* one header, and no packet outgrows the MTU by its new header; but for data of
\* a host whose peer's SYN went by the reduction, for want of the module or in a
\* failure of skb_linearize (ipip_tcp.c:58-88 and 99-174).
THEOREM TunnelFits == Spec => []FitsMtu
<1>1. PInv => FitsMtu
  BY ProgramsAssumption, IpIpInvImplies DEF ProgramsAssumption, PInv, FitsMtu
<1> QED
  BY <1>1, InitPInv, PInvStep, PTL DEF Spec

\* Under the same conditions a segment comes out of the tunnel in the length that
\* TCP has sent, and a SYN with the bytes of its options, but for the two of the
\* MSS (ipip_tcp.c:64-88, 143-160 and 184-189).
THEOREM TunnelCarries == Spec => []SegmentsIntact
<1>1. PInv => SegmentsIntact
  BY ProgramsAssumption, IpIpInvImplies DEF ProgramsAssumption, PInv, SegmentsIntact
<1> QED
  BY <1>1, InitPInv, PInvStep, PTL DEF Spec

\* For files, chunks and pages of any size, however the request comes in parts
\* and wherever the client leaves: the one answer that a client has when its
\* connection is closed is the file, or the page if there is none
\* (http-server.py:58-152).
THEOREM AnswersWithFile == Spec => []AnswerIsFile
<1>1. PInv => AnswerIsFile
  BY HttpInvImplies DEF PInv, AnswerIsFile
<1> QED
  BY <1>1, InitPInv, PInvStep, PTL DEF Spec

\* For every size of the buffers and the window, however reads and writes are
\* cut: the server never takes a part of one size for a part of another, and
\* no call leaves the buffer it was given (simple-traffic-gen/common.c).
THEOREM StaysFramed == Spec => []Framed
<1>1. PInv => Framed
  BY TrafficInvImpliesFramed DEF PInv, Framed
<1> QED
  BY <1>1, InitPInv, PInvStep, PTL DEF Spec

\* For every number and size of messages: the server never sends one that was
\* not asked for, the client never takes a byte of one for a byte of another,
\* and a run that ends in success has transferred all of them
\* (client.c:75-170, server.c:40-141).
THEOREM ConservesMessages == Spec => []MessageConserved
<1>1. PInv => MessageConserved
  BY TrafficInvImpliesConserved DEF PInv, MessageConserved
<1> QED
  BY <1>1, InitPInv, PInvStep, PTL DEF Spec

\* Within the CDF of the file the sizes that gen_size makes lie between those of
\* its rows and grow with the random number; below its first value they are not
\* above the first row's and above its last they are 0; nothing but a file
\* without an average, at the rate, ends in a division by zero; and the average
\* of dist_avg_size is the mean of the sizes of a file from 0 to 1, but for what
\* int() cuts off (traffic-trace-gen.py:29-58, 82).
THEOREM SizesFollow == Spec => []SizesFollowFile
<1>1. PInv => SizesFollowFile
  BY ProgramsAssumption, TraceInvImplies DEF PInv, SizesFollowFile, ProgramsAssumption
<1> QED
  BY <1>1, InitPInv, PInvStep, PTL DEF Spec
=============================================================================
