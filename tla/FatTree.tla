------------------------------- MODULE FatTree -------------------------------
(***************************************************************************)
(* The topology of fattree-ns2/fattree.tcl, which traffic-gen-ns2/fattree_ *)
(* empirical.tcl builds with the same lines: servers, edge, aggregation    *)
(* and core switches, and links placed by index arithmetic.  A step is one *)
(* iteration of an outer loop.  topology_x is any ratio, as the pair of    *)
(* its numerator and denominator; its products are exact here, where Tcl   *)
(* computes with doubles.  int truncates, and Tcl divides integers, as     *)
(* \div does.                                                              *)
(***************************************************************************)
EXTENDS Integers, FiniteSets

CONSTANTS Shapes    \* the pairs <<fattree_k, topology_x>> of the command line

ShapesAssumption == Shapes \subseteq Nat \X (Nat \X (Nat \ {0}))

VARIABLES
    fattree_k, topology_x,
    stage,    \* the loop: "servers", "edges", "aggrs"; "done" or "error" (Tcl)
    i,        \* its index
    links

vars == <<fattree_k, topology_x, stage, i, links>>

num == topology_x[1]
den == topology_x[2]

topology_servers == (fattree_k * fattree_k * fattree_k * num) \div (4 * den)
topology_spt == (fattree_k * num) \div (2 * den)
topology_edges == (fattree_k * fattree_k) \div 2
topology_aggrs == (fattree_k * fattree_k) \div 2
topology_cores == (fattree_k * fattree_k) \div 4
half == fattree_k \div 2

s(n) == <<"s", n>>
edge(n) == <<"edge", n>>
aggr(n) == <<"aggr", n>>
core(n) == <<"core", n>>

Init ==
    /\ \E shape \in Shapes : fattree_k = shape[1] /\ topology_x = shape[2]
    /\ stage = "servers" /\ i = 0 /\ links = {}

Loop(name, n, next) ==
    /\ stage = name /\ i >= n
    /\ stage' = next /\ i' = 0
    /\ UNCHANGED <<fattree_k, topology_x, links>>

\* duplex-link between a and each node of a layer numbered in J, of the n there
\* are: naming another is an error.
Connect(a, layer, J, n) ==
    /\ IF J \subseteq 0 .. n - 1
       THEN links' = links \union {<<a, <<layer, j>>>> : j \in J} /\ i' = i + 1 /\ UNCHANGED stage
       ELSE stage' = "error" /\ UNCHANGED <<links, i>>
    /\ UNCHANGED <<fattree_k, topology_x>>

\* No servers per ToR: division by zero.
LinkServer ==
    /\ stage = "servers" /\ i < topology_servers
    /\ \/ topology_spt > 0 /\ Connect(s(i), "edge", {i \div topology_spt}, topology_edges)
       \/ topology_spt = 0 /\ stage' = "error" /\ UNCHANGED <<fattree_k, topology_x, i, links>>

\* $pod * $fattree_k / 2, from the left
From(n) == (n * fattree_k) \div 2
LinkEdge ==
    /\ stage = "edges" /\ i < topology_edges
    /\ LET start == From(i \div half)
       IN  Connect(edge(i), "aggr", start .. start + half - 1, topology_aggrs)

\* Mutant: the aggregation switches of a pod are told apart by their pod.
LinkAggrByPod ==
    /\ stage = "aggrs" /\ i < topology_aggrs
    /\ LET start == From((i \div half) % half)
       IN  Connect(aggr(i), "core", start .. start + half - 1, topology_cores)

LinkAggr ==
    /\ stage = "aggrs" /\ i < topology_aggrs
    /\ LET start == From(i % half)
       IN  Connect(aggr(i), "core", start .. start + half - 1, topology_cores)

Next ==
    \/ LinkServer \/ Loop("servers", topology_servers, "edges")
    \/ LinkEdge \/ Loop("edges", topology_edges, "aggrs")
    \/ LinkAggr \/ Loop("aggrs", topology_aggrs, "done")

Spec == Init /\ [][Next]_vars

-----------------------------------------------------------------------------
(* Properties.                                                             *)

TypeOK ==
    /\ fattree_k \in Nat /\ topology_x \in Nat \X (Nat \ {0}) /\ i \in Nat
    /\ stage \in {"servers", "edges", "aggrs", "done", "error"}

\* The parameters of a fat-tree: k is even, and what topology_spt leaves of the
\* ratio, the remainder of k * x / 2, is less than one server over all the edge
\* switches: 1.2 will do for k = 2, but not for k = 4.  (k = 1 with less than a
\* server is a tree without nodes.)
Proper ==
    /\ fattree_k % 2 = 0
    /\ fattree_k * fattree_k * ((fattree_k * num) % (2 * den)) < 4 * den
Empty == fattree_k <= 1 /\ topology_servers = 0

\* For parameters that are proper the loops name only nodes there are.
NoMissingNode == Proper => stage # "error"

Up(a) == {l[2] : l \in {m \in links : m[1] = a}}
Down(b) == {l[1] : l \in {m \in links : m[2] = b}}
Edges == {edge(n) : n \in 0 .. topology_edges - 1}
Cores == {core(n) : n \in 0 .. topology_cores - 1}

\* The ways from edge switch a up to core c.
Climbs(a, c) == Up(a) \intersect Down(c)

\* The finished topology is a fat-tree: every edge switch has its share of
\* the servers; there is one way from each edge switch to each core, so that
\* between two pods there are as many equal paths, each over another core, as
\* there are cores, which multipath routing (fattree_empirical.tcl:65-68)
\* spreads the flows over; and a pod shares its aggregation switches with no
\* other.  A ratio may be rounded down to whole servers per ToR, but for the same
\* number of servers as without: all other parameters end in an error, never in
\* another topology.
IsFatTree ==
    /\ TypeOK /\ NoMissingNode
    /\ stage = "done" =>
        /\ Proper \/ Empty
        /\ \A a \in Edges :
            /\ Cardinality(Down(a)) = topology_spt /\ Cardinality(Up(a)) = half
            /\ \A c \in Cores : Cardinality(Climbs(a, c)) = 1
            /\ \A b \in Edges : Up(a) = Up(b) \/ Up(a) \intersect Up(b) = {}
        /\ UNION {Down(a) : a \in Edges} = {s(n) : n \in 0 .. topology_servers - 1}
=============================================================================
