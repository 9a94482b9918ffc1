------------------------------- MODULE TraceGen -------------------------------
(***************************************************************************)
(* traffic-trace-gen.py: flow sizes drawn from a distribution that a file  *)
(* gives as points of its CDF, at a rate that dist_avg_size of the file    *)
(* determines.  Probabilities are in units of 1/Den and the random numbers *)
(* in [0, 1) are the multiples of 1/Den; arithmetic is exact.              *)
(***************************************************************************)
EXTENDS Integers, Sequences, FiniteSetsExt

CONSTANTS
    Den,       \* bound: random numbers and probabilities are multiples of 1/Den
    MaxRows,   \* bound on the lines of the file
    MaxSize,   \* bound on a flow size
    NumFlows   \* num_flows

TraceGenAssumption ==
    Den \in Nat \ {0} /\ MaxRows \in Nat /\ MaxSize \in Nat /\ NumFlows \in Nat

VARIABLES
    dist,      \* the rows of the file: CDF and flow size
    written,   \* flows in the output file
    x, size,   \* the last random number, and what gen_size made of it
    at         \* "start", "run", "done" or "error" (ZeroDivisionError)

vars == <<dist, written, x, size, at>>

Rows == [cdf : 0 .. Den, size : 0 .. MaxSize]
Ordered(d) == \A i \in 1 .. Len(d) - 1 : d[i].cdf <= d[i + 1].cdf /\ d[i].size <= d[i + 1].size

Init ==
    /\ dist \in UNION {[1 .. n -> Rows] : n \in 0 .. MaxRows} /\ Ordered(dist)
    /\ written = 0 /\ x = 0 /\ size = 0 /\ at = "start"

\* int(): toward zero.
Int_(num, den) ==
    LET n == IF den < 0 THEN -num ELSE num
        d == IF den < 0 THEN -den ELSE den
    IN  IF n >= 0 THEN n \div d ELSE -((-n) \div d)

\* dist[i - 1], where Python takes -1 for the last.
Before(d, i) == IF i = 1 THEN d[Len(d)] ELSE d[i - 1]

\* The row that gen_size stops at: the first that is not below u.
Reached(d, u) == {i \in DOMAIN d : d[i].cdf >= u}
RowOf(d, u) == Min(Reached(d, u))
DividesByZero(d, u) ==
    LET i == RowOf(d, u) IN Reached(d, u) # {} /\ d[i].cdf > u /\ Before(d, i).cdf = d[i].cdf

\* Mutant: the sizes of the two rows are exchanged.
gen_size_swapped(d, u) ==
    IF Reached(d, u) = {} THEN 0
    ELSE LET r2 == d[RowOf(d, u)]
             r1 == Before(d, RowOf(d, u))
         IN  IF r2.cdf = u THEN r2.size
             ELSE Int_((r1.size - r2.size) * u + r2.cdf * r2.size - r1.cdf * r1.size, r2.cdf - r1.cdf)

\* On the line through the row and the one before.
gen_size(d, u) ==
    IF Reached(d, u) = {} THEN 0
    ELSE LET r2 == d[RowOf(d, u)]
             r1 == Before(d, RowOf(d, u))
         IN  IF r2.cdf = u THEN r2.size
             ELSE Int_((r2.size - r1.size) * u + r2.cdf * r1.size - r1.cdf * r2.size, r2.cdf - r1.cdf)

\* dist_avg_size, times 2 * Den
TwiceAverage(d) ==
    MapThenSumSet(LAMBDA i : (d[i].cdf - d[i - 1].cdf) * (d[i].size + d[i - 1].size), 2 .. Len(d))

\* The rate is throughput over the average.
Rate ==
    /\ at = "start"
    /\ at' = IF TwiceAverage(dist) = 0 THEN "error" ELSE "run"
    /\ UNCHANGED <<dist, written, x, size>>

Write ==
    /\ at = "run" /\ written < NumFlows
    /\ x' \in 0 .. Den - 1
    /\ IF DividesByZero(dist, x')
       THEN at' = "error" /\ UNCHANGED <<written, size>>
       ELSE size' = gen_size(dist, x') /\ written' = written + 1 /\ UNCHANGED at
    /\ UNCHANGED dist

Close ==
    /\ at = "run" /\ written = NumFlows
    /\ at' = "done"
    /\ UNCHANGED <<dist, written, x, size>>

Next == Rate \/ Write \/ Close

-----------------------------------------------------------------------------
(* Properties.                                                             *)

TypeOK ==
    /\ dist \in Seq(Rows) /\ written \in 0 .. NumFlows /\ x \in 0 .. Den - 1
    /\ size \in Int /\ at \in {"start", "run", "done", "error"}

First == dist[1]
Last == dist[Len(dist)]

\* A flow has a size of the distribution while the random number is within the
\* CDF of the file: it lies between the rows and grows with x.  A file that
\* begins above 0 and one that ends below 1 are the ways outside: below the
\* first value gen_size takes the last row for the one before (python's -1),
\* and the size is that of the first row or less, even negative; above the last
\* value it is 0.  The only division by zero is that of the rate: once there is
\* one, no file makes gen_size divide by zero (traffic-trace-gen.py:44-58, 82).
SizesInside ==
    /\ written > 0 =>
           /\ x \in First.cdf .. Last.cdf =>
                  /\ size \in First.size .. Last.size
                  /\ \A u \in First.cdf .. x : gen_size(dist, u) <= size
           /\ x < First.cdf => size <= First.size
           /\ x > Last.cdf => size = 0
    /\ at = "error" => written = 0 /\ TwiceAverage(dist) = 0

\* The rate is computed from dist_avg_size, so "desired throughput" needs it to
\* be the mean of what gen_size returns: it is, but for what int() cuts off and
\* the step of the random numbers.
MeanIsAverage ==
    at = "run" /\ First.cdf = 0 /\ Last.cdf = Den =>
        LET sum == MapThenSumSet(LAMBDA u : gen_size(dist, u), 0 .. Den - 1)
        IN  /\ 2 * sum <= TwiceAverage(dist)
            /\ TwiceAverage(dist) < 2 * (sum + Den + Last.size - First.size)

SizesFollowFile == TypeOK /\ SizesInside /\ MeanIsAverage
=============================================================================
