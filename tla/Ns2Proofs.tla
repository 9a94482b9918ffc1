------------------------------- MODULE Ns2Proofs -------------------------------
(***************************************************************************)
(* Proofs about the ns-2 scripts, for every topology, number of groups, of *)
(* connections, flows, senders and iterations: what each module does in    *)
(* the scripts that run it, and that the others leave it alone.            *)
(***************************************************************************)
EXTENDS Ns2, Sequences, FiniteSetTheorems, TLAPS

\* The modules count with the same Cardinality.
LEMMA SameFinite ==
    /\ \A S : Generator!Cardinality(S) = Cardinality(S)
    /\ Generator!FlowGenAssumption => IsFiniteSet(Groups)
    /\ Incast!num_pairs = Cardinality(Pairs)
    /\ Incast!IncastAssumption => IsFiniteSet(Pairs)
BY DEF Generator!Cardinality, Incast!Cardinality, Cardinality, Incast!num_pairs,
       Generator!IsFiniteSet, Incast!IsFiniteSet, IsFiniteSet,
       Generator!FlowGenAssumption, Incast!IncastAssumption

-----------------------------------------------------------------------------
(* The topology.  LinksPlaced says which links the iterations so far have  *)
(* made, LastFits that a loop is past an iteration only if its links have  *)
(* both ends; the links of a finished topology are then read off.          *)

-----------------------------------------------------------------------------
(* Products and quotients, one step of arithmetic at a time.               *)

LEMMA ProductMonotone ==
    ASSUME NEW a \in Nat, NEW b \in Nat, NEW c \in Nat, a <= b
    PROVE  a * c <= b * c
<1>1. PICK d \in Nat : b = a + d
  BY b - a \in Nat
<1>2. b * c = a * c + d * c
  BY <1>1
<1>3. d * c \in Nat /\ a * c \in Nat
  BY <1>1
<1> QED
  BY <1>2, <1>3

\* The numbers of block q are those whose quotient is q.
LEMMA QuotientOfBlock ==
    ASSUME NEW h \in Nat, h > 0, NEW q \in Nat, NEW n \in Nat
    PROVE  n \in q * h .. q * h + h - 1 <=> n \div h = q
<1> DEFINE d == n \div h
<1>1. d \in Nat /\ d * h <= n /\ n < d * h + h
  BY SMT
<1> HIDE DEF d
<1>2. q * h \in Nat /\ d * h \in Nat
  BY <1>1
<1>3. (q + 1) * h = q * h + h /\ (d + 1) * h = d * h + h
  BY <1>1
<1>4. CASE d < q
  <2>1. (d + 1) * h <= q * h
    BY <1>1, <1>4, ProductMonotone
  <2> QED
    BY <1>1, <1>2, <1>3, <1>4, <2>1 DEF d
<1>5. CASE q < d
  <2>1. (q + 1) * h <= d * h
    BY <1>1, <1>5, ProductMonotone
  <2> QED
    BY <1>1, <1>2, <1>3, <1>5, <2>1 DEF d
<1>6. CASE d = q
  BY <1>1, <1>2, <1>6 DEF d
<1> QED
  BY <1>1, <1>4, <1>5, <1>6

\* Quotient and remainder.
LEMMA Divided ==
    ASSUME NEW b \in Nat \ {0}, NEW a \in Nat
    PROVE  /\ a \div b \in Nat /\ a % b \in Nat /\ a % b < b
           /\ a = b * (a \div b) + (a % b)
  OBVIOUS

LEMMA QuotientInside ==
    ASSUME NEW a \in Nat, NEW q \in Nat, NEW b \in Nat, a < q * b
    PROVE  b > 0 /\ a \div b \in 0 .. q - 1
<1>1. b > 0
  <2>1. CASE b = 0
    BY <2>1
  <2> QED
    BY <2>1
<1>2. a \div b \in Nat /\ (a \div b) * b <= a
  BY <1>1
<1>3. ~(q <= a \div b)
  <2>1. SUFFICES ASSUME q <= a \div b PROVE FALSE
    OBVIOUS
  <2>2. q * b <= (a \div b) * b
    BY <1>2, <2>1, ProductMonotone
  <2>3. q * b \in Nat /\ (a \div b) * b \in Nat
    BY <1>2
  <2> QED
    BY <1>2, <2>2, <2>3
<1> QED
  BY <1>1, <1>2, <1>3

LEMMA HalfOfDouble ==
    ASSUME NEW n \in Nat
    PROVE  (2 * n) \div 2 = n /\ (4 * n) \div 2 = 2 * n /\ (4 * n) \div 4 = n /\ (8 * n) \div 8 = n
  OBVIOUS

\* Consecutive blocks of h numbers, of which there are q, stay below q * h.
LEMMA BlockInside ==
    ASSUME NEW q \in Nat, NEW h \in Nat, NEW n \in 0 .. q - 1
    PROVE  n * h \in Nat /\ n * h .. n * h + h - 1 \subseteq 0 .. q * h - 1
<1>1. n \in Nat /\ n + 1 <= q
  OBVIOUS
<1>2. (n + 1) * h <= q * h
  BY <1>1, ProductMonotone
<1>3. (n + 1) * h = n * h + h
  BY <1>1
<1>4. n * h \in Nat /\ q * h \in Nat
  BY <1>1
<1> QED
  BY <1>2, <1>3, <1>4

-----------------------------------------------------------------------------
(* The sizes of the tree, by half of k.                                    *)

\* The numerators of the sizes: t servers per ToR, and r left of the ratio.
LEMMA Ratio ==
    ASSUME Tree!TypeOK, NEW h \in Nat, fattree_k = 2 * h
    PROVE  LET t == Tree!topology_spt
               r == (fattree_k * Tree!num) % (2 * Tree!den)
           IN  /\ Tree!num \in Nat /\ Tree!den \in Nat \ {0}
               /\ t \in Nat /\ r \in Nat /\ h * h \in Nat /\ (2 * (h * h)) * t \in Nat
               /\ (4 * (h * h)) * r \in Nat /\ fattree_k * fattree_k = 4 * (h * h)
               /\ fattree_k * fattree_k * fattree_k * Tree!num
                     = ((2 * (h * h)) * t) * (4 * Tree!den) + (4 * (h * h)) * r
<1>1. fattree_k \in Nat /\ Tree!num \in Nat /\ Tree!den \in Nat /\ Tree!den # 0
  BY DEF Tree!TypeOK, Tree!num, Tree!den
<1>2. PICK m \in Nat, d \in Nat : m = Tree!num /\ d = Tree!den /\ d # 0
  BY <1>1
<1>3. fattree_k * m \in Nat /\ 2 * d \in Nat \ {0} /\ h * h \in Nat
  BY <1>1, <1>2
<1>4. PICK t \in Nat, r \in Nat :
         /\ t = (fattree_k * m) \div (2 * d) /\ r = (fattree_k * m) % (2 * d)
         /\ fattree_k * m = (2 * d) * t + r
  BY <1>3, Divided
<1>5. fattree_k * fattree_k = 4 * (h * h)
  OBVIOUS
<1>6. PICK q \in Nat : q = h * h
  BY <1>3
<1>7. fattree_k * fattree_k * fattree_k * m = (4 * q) * ((2 * d) * t + r)
  <2>1. fattree_k * fattree_k * fattree_k * m = (fattree_k * fattree_k) * (fattree_k * m)
    BY <1>1
  <2> QED
    BY <1>4, <1>5, <1>6, <2>1
<1>8. (4 * q) * ((2 * d) * t + r) = ((2 * q) * t) * (4 * d) + (4 * q) * r
  BY ONLY <1>2, <1>4, <1>6
<1>9. (2 * q) * t \in Nat /\ (4 * q) * r \in Nat
  BY <1>4, <1>6
<1> QED
  BY <1>1, <1>2, <1>4, <1>5, <1>6, <1>7, <1>8, <1>9 DEF Tree!topology_spt

LEMMA Sizes ==
    ASSUME Tree!TypeOK, Tree!Proper
    PROVE  /\ Tree!half \in Nat /\ Tree!topology_spt \in Nat
           /\ fattree_k = 2 * Tree!half
           /\ Tree!topology_edges = (2 * Tree!half) * Tree!half
           /\ Tree!topology_aggrs = (2 * Tree!half) * Tree!half
           /\ Tree!topology_cores = Tree!half * Tree!half
           /\ Tree!topology_servers = ((2 * Tree!half) * Tree!half) * Tree!topology_spt
<1> DEFINE h == Tree!half
           t == Tree!topology_spt
           r == (fattree_k * Tree!num) % (2 * Tree!den)
           D == 4 * Tree!den
<1>1. h \in Nat /\ fattree_k = 2 * h
  BY DEF Tree!TypeOK, Tree!Proper, Tree!half
<1> HIDE DEF h
<1>2. /\ Tree!den \in Nat \ {0} /\ t \in Nat /\ r \in Nat /\ h * h \in Nat
      /\ (2 * (h * h)) * t \in Nat /\ (4 * (h * h)) * r \in Nat
      /\ fattree_k * fattree_k = 4 * (h * h)
      /\ fattree_k * fattree_k * fattree_k * Tree!num = ((2 * (h * h)) * t) * D + (4 * (h * h)) * r
  BY <1>1, Ratio
<1>3. (4 * (h * h)) * r < D
  BY <1>2 DEF Tree!Proper
<1>4. Tree!topology_edges = 2 * (h * h) /\ Tree!topology_aggrs = 2 * (h * h)
          /\ Tree!topology_cores = h * h
  BY <1>2, HalfOfDouble DEF Tree!topology_edges, Tree!topology_aggrs, Tree!topology_cores
<1>5. Tree!topology_servers = (2 * (h * h)) * t
  <2>1. Tree!topology_servers = (((2 * (h * h)) * t) * D + (4 * (h * h)) * r) \div D
    BY <1>2 DEF Tree!topology_servers
  <2>2. PICK s \in Nat, e \in Nat : s = (2 * (h * h)) * t /\ e = (4 * (h * h)) * r
    BY <1>2
  <2>3. D \in Nat /\ D > 0 /\ e < D
    BY <1>2, <1>3, <2>2
  <2> HIDE DEF D
  <2>4. s * D \in Nat /\ s * D + e \in Nat /\ s * D + e \in s * D .. s * D + D - 1
    BY <2>2, <2>3
  <2>5. (s * D + e) \div D = s
    BY <2>3, <2>4, QuotientOfBlock
  <2> QED
    BY <2>1, <2>2, <2>5
<1>6. 2 * (h * h) = (2 * h) * h
  BY <1>1
<1> QED
  BY <1>1, <1>2, <1>4, <1>5, <1>6 DEF h

\* $n * $fattree_k / 2 is n halves of k.
LEMMA FromIsBlock ==
    ASSUME Tree!TypeOK, Tree!Proper, NEW n \in Nat
    PROVE  Tree!From(n) = n * Tree!half
<1>1. Tree!half \in Nat /\ fattree_k = 2 * Tree!half
  BY Sizes
<1>2. n * Tree!half \in Nat /\ n * (2 * Tree!half) = 2 * (n * Tree!half)
  BY <1>1
<1> QED
  BY <1>1, <1>2, HalfOfDouble DEF Tree!From

-----------------------------------------------------------------------------
(* Each loop connects nodes there are.                                     *)

LEMMA ServerConnects ==
    ASSUME Tree!TypeOK, Tree!Proper, Tree!LinkServer
    PROVE  stage' = "servers"
<1>1. i \in Nat /\ Tree!topology_edges \in Nat /\ Tree!topology_spt \in Nat
          /\ i < Tree!topology_edges * Tree!topology_spt
  BY Sizes DEF Tree!TypeOK, Tree!LinkServer
<1>2. Tree!topology_spt > 0 /\ i \div Tree!topology_spt \in 0 .. Tree!topology_edges - 1
  BY <1>1, QuotientInside
<1> QED
  BY <1>2 DEF Tree!LinkServer, Tree!Connect

LEMMA EdgeConnects ==
    ASSUME Tree!TypeOK, Tree!Proper, Tree!LinkEdge
    PROVE  stage' = "edges"
<1>1. /\ Tree!half \in Nat /\ 2 * Tree!half \in Nat /\ i \in Nat /\ i < (2 * Tree!half) * Tree!half
      /\ Tree!topology_aggrs = (2 * Tree!half) * Tree!half
  BY Sizes DEF Tree!TypeOK, Tree!LinkEdge
<1> DEFINE pod == i \div Tree!half
<1>2. Tree!half > 0 /\ pod \in 0 .. (2 * Tree!half) - 1
  BY <1>1, QuotientInside
<1> HIDE DEF pod
<1>3. Tree!From(pod) = pod * Tree!half
  BY <1>2, <1>1, FromIsBlock
<1>4. Tree!From(pod) .. Tree!From(pod) + Tree!half - 1 \subseteq 0 .. Tree!topology_aggrs - 1
  BY <1>1, <1>2, <1>3, BlockInside
<1> QED
  BY <1>4 DEF Tree!LinkEdge, Tree!Connect, pod

LEMMA AggrConnects ==
    ASSUME Tree!TypeOK, Tree!Proper, Tree!LinkAggr
    PROVE  stage' = "aggrs"
<1>1. Tree!half \in Nat /\ i \in Nat /\ i < (2 * Tree!half) * Tree!half
          /\ Tree!topology_cores = Tree!half * Tree!half
  BY Sizes DEF Tree!TypeOK, Tree!LinkAggr
<1> DEFINE index == i % Tree!half
<1>2. Tree!half > 0
  BY <1>1, QuotientInside
<1>3. index \in 0 .. Tree!half - 1
  BY <1>1, <1>2
<1> HIDE DEF index
<1>4. Tree!From(index) = index * Tree!half
  BY <1>3, <1>1, FromIsBlock
<1>5. Tree!From(index) .. Tree!From(index) + Tree!half - 1 \subseteq 0 .. Tree!topology_cores - 1
  BY <1>1, <1>3, <1>4, BlockInside
<1> QED
  BY <1>5 DEF Tree!LinkAggr, Tree!Connect, index

\* The links that the first n iterations of each loop make.
ServerLinks(n) == {<<Tree!s(j), Tree!edge(j \div Tree!topology_spt)>> : j \in 0 .. n - 1}
Block(n) == Tree!From(n) .. Tree!From(n) + Tree!half - 1
EdgeRow(j) == {<<Tree!edge(j), Tree!aggr(m)>> : m \in Block(j \div Tree!half)}
AggrRow(j) == {<<Tree!aggr(j), Tree!core(m)>> : m \in Block(j % Tree!half)}
EdgeLinks(n) == UNION {EdgeRow(j) : j \in 0 .. n - 1}
AggrLinks(n) == UNION {AggrRow(j) : j \in 0 .. n - 1}

LinksPlaced ==
    /\ stage = "servers" => i <= Tree!topology_servers /\ links = ServerLinks(i)
    /\ stage = "edges" => /\ i <= Tree!topology_edges
                          /\ links = ServerLinks(Tree!topology_servers) \union EdgeLinks(i)
    /\ stage = "aggrs" => /\ i <= Tree!topology_aggrs
                          /\ links = ServerLinks(Tree!topology_servers)
                                     \union EdgeLinks(Tree!topology_edges) \union AggrLinks(i)
    /\ stage = "done" => links = ServerLinks(Tree!topology_servers)
                                 \union EdgeLinks(Tree!topology_edges)
                                 \union AggrLinks(Tree!topology_aggrs)

\* The loops have come by their iteration n only if its links have both ends.
ServerFits(n) == Tree!topology_spt > 0 /\ n \div Tree!topology_spt \in 0 .. Tree!topology_edges - 1
EdgeFits(n) == Block(n \div Tree!half) \subseteq 0 .. Tree!topology_aggrs - 1

LastFits ==
    /\ stage = "servers" /\ i > 0 => ServerFits(i - 1)
    /\ stage \in {"edges", "aggrs", "done"} /\ Tree!topology_servers > 0
           => ServerFits(Tree!topology_servers - 1)
    /\ stage = "edges" /\ i > 0 => EdgeFits(i - 1)
    /\ stage \in {"aggrs", "done"} /\ Tree!topology_edges > 0
           => EdgeFits(Tree!topology_edges - 1)

TInv == Tree!TypeOK /\ Tree!NoMissingNode /\ LinksPlaced /\ LastFits

LEMMA SizesAreNumbers ==
    ASSUME Tree!TypeOK
    PROVE  /\ Tree!topology_servers \in Nat /\ Tree!topology_spt \in Nat
           /\ Tree!topology_edges \in Nat /\ Tree!topology_aggrs \in Nat
           /\ Tree!topology_cores \in Nat /\ Tree!half \in Nat
<1>1. fattree_k \in Nat /\ Tree!num \in Nat /\ Tree!den \in Nat \ {0}
  BY DEF Tree!TypeOK, Tree!num, Tree!den
<1>2. fattree_k * fattree_k \in Nat /\ fattree_k * Tree!num \in Nat
      /\ fattree_k * fattree_k * fattree_k * Tree!num \in Nat
      /\ 2 * Tree!den \in Nat \ {0} /\ 4 * Tree!den \in Nat \ {0}
  BY <1>1
<1>3. \A n \in Nat : n \div 2 \in Nat /\ n \div 4 \in Nat
  OBVIOUS
<1>4. Tree!topology_servers \in Nat /\ Tree!topology_spt \in Nat
  BY <1>2, Divided DEF Tree!topology_servers, Tree!topology_spt
<1> QED
  BY <1>1, <1>2, <1>3, <1>4 DEF Tree!topology_edges, Tree!topology_aggrs, Tree!topology_cores,
     Tree!half

\* An iteration adds its links.
LEMMA OneMore ==
    ASSUME NEW n \in Nat
    PROVE  /\ ServerLinks(n + 1) = ServerLinks(n)
                  \union {<<Tree!s(n), <<"edge", j>>>> : j \in {n \div Tree!topology_spt}}
           /\ EdgeLinks(n + 1) = EdgeLinks(n)
                  \union {<<Tree!edge(n), <<"aggr", m>>>> : m \in Block(n \div Tree!half)}
           /\ AggrLinks(n + 1) = AggrLinks(n)
                  \union {<<Tree!aggr(n), <<"core", m>>>> : m \in Block(n % Tree!half)}
           /\ ServerLinks(0) = {} /\ EdgeLinks(0) = {} /\ AggrLinks(0) = {}
<1>1. 0 .. (n + 1) - 1 = (0 .. n - 1) \union {n}
  OBVIOUS
<1>2. 0 .. 0 - 1 = {}
  OBVIOUS
<1>3. ServerLinks(n + 1) = ServerLinks(n)
                  \union {<<Tree!s(n), <<"edge", j>>>> : j \in {n \div Tree!topology_spt}}
  BY <1>1, Zenon DEF ServerLinks, Tree!edge
<1>4. /\ EdgeLinks(n + 1) = EdgeLinks(n) \union EdgeRow(n)
      /\ AggrLinks(n + 1) = AggrLinks(n) \union AggrRow(n)
  BY <1>1, Zenon DEF EdgeLinks, AggrLinks
<1>5. /\ EdgeRow(n) = {<<Tree!edge(n), <<"aggr", m>>>> : m \in Block(n \div Tree!half)}
      /\ AggrRow(n) = {<<Tree!aggr(n), <<"core", m>>>> : m \in Block(n % Tree!half)}
  BY DEF EdgeRow, AggrRow, Tree!aggr, Tree!core
<1>6. ServerLinks(0) = {} /\ EdgeLinks(0) = {} /\ AggrLinks(0) = {}
  BY <1>2 DEF ServerLinks, EdgeLinks, AggrLinks
<1> QED
  BY <1>3, <1>4, <1>5, <1>6

LEMMA InitTInv == ASSUME Tree!ShapesAssumption, Tree!Init PROVE TInv
<1>1. fattree_k \in Nat /\ topology_x \in Nat \X (Nat \ {0})
  BY DEF Tree!ShapesAssumption, Tree!Init
<1>2. Tree!TypeOK /\ Tree!NoMissingNode
  BY <1>1 DEF Tree!Init, Tree!TypeOK, Tree!NoMissingNode
<1>3. LinksPlaced
  BY <1>2, SizesAreNumbers, OneMore DEF Tree!Init, LinksPlaced
<1> QED
  BY <1>2, <1>3 DEF Tree!Init, TInv, LastFits

\* Nothing about the shape changes.
LEMMA ShapeStays ==
    ASSUME fattree_k' = fattree_k, topology_x' = topology_x
    PROVE  /\ (Tree!Proper' <=> Tree!Proper)
           /\ Tree!topology_servers' = Tree!topology_servers /\ Tree!topology_spt' = Tree!topology_spt
           /\ Tree!topology_edges' = Tree!topology_edges /\ Tree!topology_aggrs' = Tree!topology_aggrs
           /\ Tree!half' = Tree!half
           /\ \A n : /\ ServerLinks(n)' = ServerLinks(n) /\ EdgeLinks(n)' = EdgeLinks(n)
                     /\ AggrLinks(n)' = AggrLinks(n)
                     /\ ServerFits(n)' = ServerFits(n) /\ EdgeFits(n)' = EdgeFits(n)
<1>1. /\ (Tree!Proper' <=> Tree!Proper)
      /\ Tree!topology_servers' = Tree!topology_servers /\ Tree!topology_spt' = Tree!topology_spt
      /\ Tree!topology_edges' = Tree!topology_edges /\ Tree!topology_aggrs' = Tree!topology_aggrs
      /\ Tree!half' = Tree!half /\ \A n : Tree!From(n)' = Tree!From(n)
  BY DEF Tree!Proper, Tree!topology_servers, Tree!topology_spt, Tree!topology_edges,
         Tree!topology_aggrs, Tree!half, Tree!From, Tree!num, Tree!den
<1>2. \A n : Block(n)' = Block(n)
  BY <1>1 DEF Block
<1>3. \A n : ServerLinks(n)' = ServerLinks(n)
  BY <1>1, Zenon DEF ServerLinks, Tree!s, Tree!edge
<1>4. \A j : EdgeRow(j)' = EdgeRow(j) /\ AggrRow(j)' = AggrRow(j)
  BY <1>1, <1>2, Zenon DEF EdgeRow, AggrRow, Tree!edge, Tree!aggr, Tree!core
<1>5. \A n : EdgeLinks(n)' = EdgeLinks(n) /\ AggrLinks(n)' = AggrLinks(n)
  BY <1>4, Zenon DEF EdgeLinks, AggrLinks
<1>6. \A n : ServerFits(n)' = ServerFits(n) /\ EdgeFits(n)' = EdgeFits(n)
  BY <1>1, <1>2, Zenon DEF ServerFits, EdgeFits
<1> QED
  BY <1>1, <1>3, <1>5, <1>6

LEMMA TInvStep ==
    ASSUME TInv, [Tree!Next]_(Tree!vars)
    PROVE  TInv'
<1>1. /\ Tree!TypeOK /\ fattree_k' = fattree_k /\ topology_x' = topology_x
  BY DEF TInv, Tree!Next, Tree!vars, Tree!LinkServer, Tree!LinkEdge, Tree!LinkAggr, Tree!Loop,
     Tree!Connect
<1> USE ShapeStays, SizesAreNumbers
<1>2. i' \in Nat /\ i \in Nat
  BY <1>1 DEF Tree!TypeOK, Tree!Next, Tree!vars, Tree!LinkServer, Tree!LinkEdge, Tree!LinkAggr,
     Tree!Loop, Tree!Connect
<1>3. CASE Tree!LinkServer
  <2>1. Tree!Proper => stage' = "servers"
    BY <1>1, <1>3, ServerConnects
  <2>2. \/ stage' = "error"
        \/ /\ stage' = "servers" /\ stage = "servers" /\ i' = i + 1 /\ i < Tree!topology_servers
           /\ links' = links \union
                  {<<Tree!s(i), <<"edge", j>>>> : j \in {i \div Tree!topology_spt}}
           /\ ServerFits(i)
    BY <1>3 DEF Tree!LinkServer, Tree!Connect, ServerFits
  <2>3. Tree!TypeOK' /\ Tree!NoMissingNode'
    BY <1>1, <1>2, <2>1, <2>2 DEF Tree!TypeOK, Tree!NoMissingNode
  <2>4. LinksPlaced'
    <3>1. CASE stage' = "error"
      BY <3>1 DEF LinksPlaced
    <3>2. CASE stage' # "error"
      <4>1. links = ServerLinks(i) /\ i + 1 <= Tree!topology_servers
        BY <1>1, <1>2, <2>2, <3>2 DEF TInv, LinksPlaced
      <4>2. links' = ServerLinks(i + 1)
        BY <1>2, <2>2, <3>2, <4>1, OneMore
      <4> QED
        BY <1>1, <2>2, <3>2, <4>1, <4>2 DEF LinksPlaced
    <3> QED
      BY <3>1, <3>2
  <2>5. LastFits'
    BY <1>1, <1>2, <2>2 DEF LastFits
  <2> QED
    BY <2>3, <2>4, <2>5 DEF TInv
<1>4. CASE Tree!LinkEdge
  <2>1. Tree!Proper => stage' = "edges"
    BY <1>1, <1>4, EdgeConnects
  <2>2. \/ stage' = "error"
        \/ /\ stage' = "edges" /\ stage = "edges" /\ i' = i + 1 /\ i < Tree!topology_edges
           /\ links' = links \union
                  {<<Tree!edge(i), <<"aggr", m>>>> : m \in Block(i \div Tree!half)}
           /\ EdgeFits(i)
    BY <1>4 DEF Tree!LinkEdge, Tree!Connect, EdgeFits, Block
  <2>3. Tree!TypeOK' /\ Tree!NoMissingNode'
    BY <1>1, <1>2, <2>1, <2>2 DEF Tree!TypeOK, Tree!NoMissingNode
  <2>4. LinksPlaced'
    BY <1>1, <1>2, <2>2, OneMore DEF TInv, LinksPlaced
  <2>5. LastFits'
    BY <1>1, <1>2, <2>2 DEF TInv, LastFits
  <2> QED
    BY <2>3, <2>4, <2>5 DEF TInv
<1>5. CASE Tree!LinkAggr
  <2>1. Tree!Proper => stage' = "aggrs"
    BY <1>1, <1>5, AggrConnects
  <2>2. \/ stage' = "error"
        \/ /\ stage' = "aggrs" /\ stage = "aggrs" /\ i' = i + 1 /\ i < Tree!topology_aggrs
           /\ links' = links \union
                  {<<Tree!aggr(i), <<"core", m>>>> : m \in Block(i % Tree!half)}
    BY <1>5 DEF Tree!LinkAggr, Tree!Connect, Block
  <2>3. Tree!TypeOK' /\ Tree!NoMissingNode'
    BY <1>1, <1>2, <2>1, <2>2 DEF Tree!TypeOK, Tree!NoMissingNode
  <2>4. LinksPlaced'
    BY <1>1, <1>2, <2>2, OneMore DEF TInv, LinksPlaced
  <2>5. LastFits'
    BY <1>1, <1>2, <2>2 DEF TInv, LastFits
  <2> QED
    BY <2>3, <2>4, <2>5 DEF TInv
<1>6. CASE Tree!Loop("servers", Tree!topology_servers, "edges")
  <2>1. /\ stage = "servers" /\ stage' = "edges" /\ i' = 0 /\ links' = links
        /\ i = Tree!topology_servers
    BY <1>1, <1>2, <1>6 DEF Tree!Loop, TInv, LinksPlaced
  <2>2. Tree!TypeOK' /\ Tree!NoMissingNode'
    BY <1>1, <1>2, <2>1 DEF Tree!TypeOK, Tree!NoMissingNode
  <2>3. LinksPlaced' /\ LastFits'
    BY <1>1, <1>2, <2>1, OneMore DEF TInv, LinksPlaced, LastFits
  <2> QED
    BY <2>2, <2>3 DEF TInv
<1>7. CASE Tree!Loop("edges", Tree!topology_edges, "aggrs")
  <2>1. /\ stage = "edges" /\ stage' = "aggrs" /\ i' = 0 /\ links' = links
        /\ i = Tree!topology_edges
    BY <1>1, <1>2, <1>7 DEF Tree!Loop, TInv, LinksPlaced
  <2>2. Tree!TypeOK' /\ Tree!NoMissingNode'
    BY <1>1, <1>2, <2>1 DEF Tree!TypeOK, Tree!NoMissingNode
  <2>3. LinksPlaced' /\ LastFits'
    BY <1>1, <1>2, <2>1, OneMore DEF TInv, LinksPlaced, LastFits
  <2> QED
    BY <2>2, <2>3 DEF TInv
<1>8. CASE Tree!Loop("aggrs", Tree!topology_aggrs, "done")
  <2>1. /\ stage = "aggrs" /\ stage' = "done" /\ links' = links /\ i = Tree!topology_aggrs
    BY <1>1, <1>2, <1>8 DEF Tree!Loop, TInv, LinksPlaced
  <2>2. Tree!TypeOK' /\ Tree!NoMissingNode'
    BY <1>1, <1>2, <2>1 DEF Tree!TypeOK, Tree!NoMissingNode
  <2>3. LinksPlaced' /\ LastFits'
    BY <1>1, <1>2, <2>1 DEF TInv, LinksPlaced, LastFits
  <2> QED
    BY <2>2, <2>3 DEF TInv
<1>9. CASE UNCHANGED Tree!vars
  <2>1. /\ stage' = stage /\ i' = i /\ links' = links
    BY <1>9 DEF Tree!vars
  <2> QED
    BY <1>1, <2>1 DEF TInv, Tree!TypeOK, Tree!NoMissingNode, LinksPlaced, LastFits
<1> QED
  BY <1>3, <1>4, <1>5, <1>6, <1>7, <1>8, <1>9 DEF Tree!Next

-----------------------------------------------------------------------------
(* The finished topology.                                                  *)

LEMMA SameTreeCardinality == \A S : Tree!Cardinality(S) = Cardinality(S)
BY DEF Tree!Cardinality, Cardinality

LEMMA RemainderOfBlock ==
    ASSUME NEW h \in Nat, h > 0, NEW q \in Nat, NEW r \in 0 .. h - 1
    PROVE  (q * h + r) \div h = q /\ (q * h + r) % h = r
<1>1. q * h \in Nat /\ q * h + r \in Nat /\ q * h + r \in q * h .. q * h + h - 1
  BY SMT
<1>2. (q * h + r) \div h = q
  BY <1>1, QuotientOfBlock
<1> DEFINE n == q * h + r
<1>3. n \in Nat
  BY <1>1
<1> HIDE DEF n
<1>4. n = h * (n \div h) + (n % h)
  BY <1>3
<1>5. n % h = n - h * q
  BY <1>2, <1>3, <1>4 DEF n
<1> QED
  BY <1>1, <1>2, <1>5 DEF n

\* As many nodes as numbers: n nodes of a layer, from its node a.
Nodes(layer, a, n) == {<<layer, j>> : j \in a .. a + n - 1}

LEMMA NodesOfBlock ==
    ASSUME NEW layer, NEW a \in Nat, NEW n \in Nat
    PROVE  Cardinality(Nodes(layer, a, n)) = n
<1> DEFINE S == a .. a + n - 1
           T == {<<layer, j>> : j \in S}
           f == [j \in S |-> <<layer, j>>]
<1>1. IsFiniteSet(S) /\ Cardinality(S) = n
  BY FS_Interval
<1>2. f \in Bijection(S, T)
  <2>1. f \in [S -> T] /\ \A j, k \in S : f[j] = f[k] => j = k
    OBVIOUS
  <2>2. \A x \in T : \E j \in S : f[j] = x
    OBVIOUS
  <2> QED
    BY <2>1, <2>2 DEF Bijection, Injection, Surjection, IsInjective
<1>3. ExistsBijection(S, T)
  BY <1>2 DEF ExistsBijection
<1> QED
  BY <1>1, <1>3, FS_Bijection DEF Nodes

\* What the links are when all loops have ended.
TreeComplete == Tree!TypeOK /\ Tree!Proper /\ LinksPlaced /\ stage = "done"

LEMMA LinkIs ==
    ASSUME TreeComplete, NEW a, NEW b
    PROVE  <<a, b>> \in links <=>
             \/ \E j \in 0 .. Tree!topology_servers - 1 :
                   a = Tree!s(j) /\ b = Tree!edge(j \div Tree!topology_spt)
             \/ \E j \in 0 .. Tree!topology_edges - 1 : \E m \in Block(j \div Tree!half) :
                   a = Tree!edge(j) /\ b = Tree!aggr(m)
             \/ \E j \in 0 .. Tree!topology_aggrs - 1 : \E m \in Block(j % Tree!half) :
                   a = Tree!aggr(j) /\ b = Tree!core(m)
<1>1. links = ServerLinks(Tree!topology_servers) \union EdgeLinks(Tree!topology_edges)
              \union AggrLinks(Tree!topology_aggrs)
  BY DEF TreeComplete, LinksPlaced
<1>2. <<a, b>> \in ServerLinks(Tree!topology_servers) <=>
             \E j \in 0 .. Tree!topology_servers - 1 :
                a = Tree!s(j) /\ b = Tree!edge(j \div Tree!topology_spt)
  BY DEF ServerLinks
<1>3. \A j : <<a, b>> \in EdgeRow(j) <=>
                \E m \in Block(j \div Tree!half) : a = Tree!edge(j) /\ b = Tree!aggr(m)
  BY DEF EdgeRow
<1>4. \A j : <<a, b>> \in AggrRow(j) <=>
                \E m \in Block(j % Tree!half) : a = Tree!aggr(j) /\ b = Tree!core(m)
  BY DEF AggrRow
<1>5. <<a, b>> \in EdgeLinks(Tree!topology_edges) <=>
             \E j \in 0 .. Tree!topology_edges - 1 : <<a, b>> \in EdgeRow(j)
  BY Zenon DEF EdgeLinks
<1>6. <<a, b>> \in AggrLinks(Tree!topology_aggrs) <=>
             \E j \in 0 .. Tree!topology_aggrs - 1 : <<a, b>> \in AggrRow(j)
  BY Zenon DEF AggrLinks
<1>7. \A S, T, U : <<a, b>> \in S \union T \union U <=>
                      <<a, b>> \in S \/ <<a, b>> \in T \/ <<a, b>> \in U
  OBVIOUS
<1> QED
  BY <1>1, <1>2, <1>3, <1>4, <1>5, <1>6, <1>7, Zenon

\* Each link is a pair.
LEMMA LinksArePairs ==
    ASSUME TreeComplete, NEW l \in links
    PROVE  l = <<l[1], l[2]>>
<1>1. \A j : \A x \in EdgeRow(j) : x = <<x[1], x[2]>>
  BY DEF EdgeRow
<1>2. \A j : \A x \in AggrRow(j) : x = <<x[1], x[2]>>
  BY DEF AggrRow
<1>3. \A n : \A x \in ServerLinks(n) : x = <<x[1], x[2]>>
  BY DEF ServerLinks
<1>4. \A n : \A x \in EdgeLinks(n) : \E j : x \in EdgeRow(j)
  BY Zenon DEF EdgeLinks
<1>5. \A n : \A x \in AggrLinks(n) : \E j : x \in AggrRow(j)
  BY Zenon DEF AggrLinks
<1>6. l \in ServerLinks(Tree!topology_servers) \/ l \in EdgeLinks(Tree!topology_edges)
      \/ l \in AggrLinks(Tree!topology_aggrs)
  BY DEF TreeComplete, LinksPlaced
<1> QED
  BY <1>1, <1>2, <1>3, <1>4, <1>5, <1>6, Zenon

LEMMA UpAndDown ==
    ASSUME TreeComplete, NEW a, NEW b
    PROVE  /\ a \in Tree!Down(b) <=> <<a, b>> \in links
           /\ b \in Tree!Up(a) <=> <<a, b>> \in links
<1>1. <<a, b>>[1] = a /\ <<a, b>>[2] = b
  OBVIOUS
<1>2. \A l \in links : l = <<l[1], l[2]>>
  BY LinksArePairs
<1> QED
  BY <1>1, <1>2 DEF Tree!Down, Tree!Up

\* The sizes again, with the products written as the blocks want them.
LEMMA NodeNumbers ==
    ASSUME TreeComplete, NEW e \in 0 .. Tree!topology_edges - 1
    PROVE  /\ Tree!half \in Nat /\ Tree!half > 0 /\ Tree!topology_spt \in Nat
           /\ e \div Tree!half \in 0 .. 2 * Tree!half - 1
           /\ Block(e \div Tree!half) = (e \div Tree!half) * Tree!half
                                        .. (e \div Tree!half) * Tree!half + Tree!half - 1
           /\ Block(e \div Tree!half) \subseteq 0 .. Tree!topology_aggrs - 1
<1>1. /\ Tree!half \in Nat /\ Tree!topology_spt \in Nat
      /\ Tree!topology_edges = (2 * Tree!half) * Tree!half
      /\ Tree!topology_aggrs = (2 * Tree!half) * Tree!half
  BY Sizes DEF TreeComplete
<1>2. e \in Nat /\ e < (2 * Tree!half) * Tree!half /\ 2 * Tree!half \in Nat
  BY <1>1
<1>3. Tree!half > 0 /\ e \div Tree!half \in 0 .. (2 * Tree!half) - 1
  BY <1>1, <1>2, QuotientInside
<1> DEFINE p == e \div Tree!half
<1> HIDE DEF p
<1>4. p \in 0 .. (2 * Tree!half) - 1 /\ p \in Nat
  BY <1>3, <1>1 DEF p
<1>5. Block(p) = p * Tree!half .. p * Tree!half + Tree!half - 1
  BY <1>4, FromIsBlock DEF Block, TreeComplete
<1>6. Block(p) \subseteq 0 .. Tree!topology_aggrs - 1
  BY <1>1, <1>2, <1>4, <1>5, BlockInside
<1> QED
  BY <1>1, <1>3, <1>5, <1>6 DEF p

\* The servers below an edge switch are a block.
LEMMA ServersBelow ==
    ASSUME TreeComplete, NEW e \in 0 .. Tree!topology_edges - 1
    PROVE  LET t == Tree!topology_spt
           IN  /\ Tree!Down(Tree!edge(e)) = {<<"s", j>> : j \in e * t .. e * t + t - 1}
               /\ e * t \in Nat
<1> DEFINE t == Tree!topology_spt
<1>1. /\ t \in Nat /\ Tree!topology_servers = Tree!topology_edges * t /\ Tree!topology_edges \in Nat
      /\ e \in Nat
  BY Sizes, SizesAreNumbers DEF TreeComplete
<1>2. e * t \in Nat /\ e * t .. e * t + t - 1 \subseteq 0 .. Tree!topology_servers - 1
  BY <1>1, BlockInside
<1>3. ASSUME NEW x PROVE x \in Tree!Down(Tree!edge(e)) <=>
                           \E j \in 0 .. Tree!topology_servers - 1 : x = <<"s", j>> /\ j \div t = e
  <2>1. x \in Tree!Down(Tree!edge(e)) <=> <<x, Tree!edge(e)>> \in links
    BY UpAndDown
  <2>2. \A k : /\ Tree!edge(e) # Tree!aggr(k) /\ Tree!edge(e) # Tree!core(k)
               /\ Tree!edge(e) = Tree!edge(k) <=> e = k
    BY DEF Tree!edge, Tree!aggr, Tree!core
  <2>3. <<x, Tree!edge(e)>> \in links <=>
            \E j \in 0 .. Tree!topology_servers - 1 :
               x = Tree!s(j) /\ e = j \div t
    <3>1. <<x, Tree!edge(e)>> \in links <=>
              \/ \E j \in 0 .. Tree!topology_servers - 1 :
                    x = Tree!s(j) /\ Tree!edge(e) = Tree!edge(j \div Tree!topology_spt)
              \/ \E j \in 0 .. Tree!topology_edges - 1 : \E m \in Block(j \div Tree!half) :
                    x = Tree!edge(j) /\ Tree!edge(e) = Tree!aggr(m)
              \/ \E j \in 0 .. Tree!topology_aggrs - 1 : \E m \in Block(j % Tree!half) :
                    x = Tree!aggr(j) /\ Tree!edge(e) = Tree!core(m)
      BY LinkIs
    <3>2. \A j, m : Tree!edge(e) # Tree!aggr(m) /\ Tree!edge(e) # Tree!core(m)
      BY <2>2
    <3>3. \A j : (x = Tree!s(j) /\ Tree!edge(e) = Tree!edge(j \div Tree!topology_spt))
                     <=> (x = Tree!s(j) /\ e = j \div Tree!topology_spt)
      BY <2>2, Zenon
    <3>4. (\E j \in 0 .. Tree!topology_servers - 1 :
              x = Tree!s(j) /\ Tree!edge(e) = Tree!edge(j \div Tree!topology_spt))
            <=> (\E j \in 0 .. Tree!topology_servers - 1 :
                    x = Tree!s(j) /\ e = j \div Tree!topology_spt)
      BY <3>3, Zenon
    <3> QED
      BY <3>1, <3>2, <3>4, Zenon
  <2> QED
    BY <2>1, <2>3 DEF Tree!s
<1>4. ASSUME NEW j \in 0 .. Tree!topology_servers - 1
      PROVE  j \div t = e <=> j \in e * t .. e * t + t - 1
  <2>1. j \in Nat /\ j < Tree!topology_edges * t
    BY <1>1
  <2>2. t > 0
    BY <1>1, <2>1, QuotientInside
  <2> QED
    BY <1>1, <2>1, <2>2, QuotientOfBlock
<1>5. Tree!Down(Tree!edge(e)) = {<<"s", j>> : j \in e * t .. e * t + t - 1}
  <2> HIDE DEF t
  <2>1. ASSUME NEW x
        PROVE  x \in Tree!Down(Tree!edge(e)) <=> \E j \in e * t .. e * t + t - 1 : x = <<"s", j>>
    BY <1>2, <1>3, <1>4, Zenon
  <2> QED
    BY <2>1
<1> QED
  BY <1>2, <1>5

\* The aggregation switches above an edge switch are the block of its pod.
LEMMA SwitchesAbove ==
    ASSUME TreeComplete, NEW e \in 0 .. Tree!topology_edges - 1
    PROVE  Tree!Up(Tree!edge(e)) = {<<"aggr", m>> : m \in Block(e \div Tree!half)}
<1>1. ASSUME NEW x PROVE x \in Tree!Up(Tree!edge(e)) <=>
                           \E m \in Block(e \div Tree!half) : x = <<"aggr", m>>
  <2>1. x \in Tree!Up(Tree!edge(e)) <=> <<Tree!edge(e), x>> \in links
    BY UpAndDown
  <2>2. \A k : /\ Tree!edge(e) # Tree!aggr(k) /\ Tree!edge(e) # Tree!s(k)
               /\ Tree!edge(e) = Tree!edge(k) <=> e = k
    BY DEF Tree!edge, Tree!aggr, Tree!s
  <2>3. <<Tree!edge(e), x>> \in links <=>
            \E j \in 0 .. Tree!topology_edges - 1 : \E m \in Block(j \div Tree!half) :
               e = j /\ x = Tree!aggr(m)
    <3>1. <<Tree!edge(e), x>> \in links <=>
              \/ \E j \in 0 .. Tree!topology_servers - 1 :
                    Tree!edge(e) = Tree!s(j) /\ x = Tree!edge(j \div Tree!topology_spt)
              \/ \E j \in 0 .. Tree!topology_edges - 1 : \E m \in Block(j \div Tree!half) :
                    Tree!edge(e) = Tree!edge(j) /\ x = Tree!aggr(m)
              \/ \E j \in 0 .. Tree!topology_aggrs - 1 : \E m \in Block(j % Tree!half) :
                    Tree!edge(e) = Tree!aggr(j) /\ x = Tree!core(m)
      BY LinkIs
    <3>2. \A j : Tree!edge(e) # Tree!s(j) /\ Tree!edge(e) # Tree!aggr(j)
      BY <2>2
    <3>3. \A j, m : (Tree!edge(e) = Tree!edge(j) /\ x = Tree!aggr(m))
                       <=> (e = j /\ x = Tree!aggr(m))
      BY <2>2, Zenon
    <3>4. (\E j \in 0 .. Tree!topology_edges - 1 : \E m \in Block(j \div Tree!half) :
              Tree!edge(e) = Tree!edge(j) /\ x = Tree!aggr(m))
            <=> (\E j \in 0 .. Tree!topology_edges - 1 : \E m \in Block(j \div Tree!half) :
                    e = j /\ x = Tree!aggr(m))
      BY <3>3, Zenon
    <3> QED
      BY <3>1, <3>2, <3>4, Zenon
  <2> QED
    BY <2>1, <2>2, <2>3, Zenon DEF Tree!aggr
<1> QED
  BY <1>1

\* A core switch is above one aggregation switch of each pod.
LEMMA OneWay ==
    ASSUME TreeComplete, NEW e \in 0 .. Tree!topology_edges - 1, NEW c \in 0 .. Tree!topology_cores - 1
    PROVE  Tree!Climbs(Tree!edge(e), Tree!core(c))
             = {<<"aggr", (e \div Tree!half) * Tree!half + (c \div Tree!half)>>}
<1> DEFINE h == Tree!half
           p == e \div h
           r == c \div h
<1>1. /\ h \in Nat /\ h > 0 /\ p \in 0 .. 2 * h - 1
      /\ Block(p) = p * h .. p * h + h - 1 /\ Block(p) \subseteq 0 .. Tree!topology_aggrs - 1
  BY NodeNumbers
<1>2. r \in 0 .. h - 1 /\ c \in Nat
  <2>1. Tree!topology_cores = h * h /\ h * h \in Nat
    BY Sizes DEF TreeComplete
  <2>2. c \in Nat /\ c < h * h
    BY <2>1
  <2> QED
    BY <1>1, <2>2, QuotientInside
<1>3. ASSUME NEW n \in 0 .. h - 1 PROVE c \in Block(n) <=> n = r
  <2>1. Block(n) = n * h .. n * h + h - 1
    BY <1>1, FromIsBlock DEF Block, TreeComplete
  <2> QED
    BY <1>1, <1>2, <2>1, QuotientOfBlock
<1>4. ASSUME NEW x
      PROVE  x \in Tree!Climbs(Tree!edge(e), Tree!core(c)) <=>
               \E m \in Block(p) : x = <<"aggr", m>> /\ c \in Block(m % h)
  <2>1. x \in Tree!Up(Tree!edge(e)) <=> \E m \in Block(p) : x = <<"aggr", m>>
    BY SwitchesAbove
  <2>2. x \in Tree!Down(Tree!core(c)) <=> <<x, Tree!core(c)>> \in links
    BY UpAndDown
  <2>3. \A k : /\ Tree!core(c) # Tree!aggr(k) /\ Tree!core(c) # Tree!edge(k)
               /\ Tree!core(c) = Tree!core(k) <=> c = k
    BY DEF Tree!edge, Tree!aggr, Tree!core
  <2>4. <<x, Tree!core(c)>> \in links <=>
            \E j \in 0 .. Tree!topology_aggrs - 1 : \E m \in Block(j % Tree!half) :
               x = Tree!aggr(j) /\ c = m
    <3>1. <<x, Tree!core(c)>> \in links <=>
              \/ \E j \in 0 .. Tree!topology_servers - 1 :
                    x = Tree!s(j) /\ Tree!core(c) = Tree!edge(j \div Tree!topology_spt)
              \/ \E j \in 0 .. Tree!topology_edges - 1 : \E m \in Block(j \div Tree!half) :
                    x = Tree!edge(j) /\ Tree!core(c) = Tree!aggr(m)
              \/ \E j \in 0 .. Tree!topology_aggrs - 1 : \E m \in Block(j % Tree!half) :
                    x = Tree!aggr(j) /\ Tree!core(c) = Tree!core(m)
      BY LinkIs
    <3> QED
      BY <2>3, <3>1, Zenon
  <2>5. x \in Tree!Down(Tree!core(c)) <=>
            \E j \in 0 .. Tree!topology_aggrs - 1 : x = <<"aggr", j>> /\ c \in Block(j % h)
    BY <2>2, <2>4, Zenon DEF Tree!aggr
  <2>6. \A j, m : <<"aggr", j>> = <<"aggr", m>> => j = m
    OBVIOUS
  <2>7. x \in Tree!Climbs(Tree!edge(e), Tree!core(c)) <=>
            x \in Tree!Up(Tree!edge(e)) /\ x \in Tree!Down(Tree!core(c))
    BY DEF Tree!Climbs
  <2> HIDE DEF p, h
  <2> QED
    BY <1>1, <2>1, <2>5, <2>6, <2>7
<1> HIDE DEF h, p, r
<1>5. ASSUME NEW m \in Block(p) PROVE c \in Block(m % h) <=> m = p * h + r
  <2>1. PICK n \in 0 .. h - 1 : m = p * h + n
    <3>1. p * h \in Nat
      BY <1>1
    <3>2. m - p * h \in 0 .. h - 1 /\ m = p * h + (m - p * h)
      BY <1>1, <3>1
    <3> QED
      BY <3>2
  <2>2. m % h = n
    BY <1>1, <2>1, RemainderOfBlock
  <2>3. c \in Block(m % h) <=> n = r
    BY <1>3, <2>2
  <2>4. p * h \in Nat
    BY <1>1
  <2> QED
    BY <1>2, <2>1, <2>3, <2>4
<1>6. p * h + r \in Block(p)
  <2>1. p * h \in Nat
    BY <1>1
  <2> QED
    BY <1>1, <1>2, <2>1
<1>7. Tree!Climbs(Tree!edge(e), Tree!core(c)) = {<<"aggr", p * h + r>>}
  BY <1>4, <1>5, <1>6
<1> QED
  BY <1>7 DEF p, r, h

\* The parts of IsFatTree, for a tree that is proper.
LEMMA EdgeSwitches ==
    ASSUME TreeComplete, NEW a \in Tree!Edges
    PROVE  /\ Tree!Cardinality(Tree!Down(a)) = Tree!topology_spt
           /\ Tree!Cardinality(Tree!Up(a)) = Tree!half
           /\ \A c \in Tree!Cores : Tree!Cardinality(Tree!Climbs(a, c)) = 1
           /\ \A b \in Tree!Edges : Tree!Up(a) = Tree!Up(b) \/ Tree!Up(a) \intersect Tree!Up(b) = {}
<1> DEFINE h == Tree!half
           t == Tree!topology_spt
<1>1. PICK e \in 0 .. Tree!topology_edges - 1 : a = Tree!edge(e)
  BY DEF Tree!Edges
<1>2. /\ h \in Nat /\ h > 0 /\ t \in Nat
      /\ e \div h \in 0 .. 2 * h - 1
      /\ Block(e \div h) = (e \div h) * h .. (e \div h) * h + h - 1
  BY NodeNumbers
<1>3. Tree!Cardinality(Tree!Down(a)) = t
  <2>1. e * t \in Nat /\ Tree!Down(a) = {<<"s", j>> : j \in e * t .. e * t + t - 1}
    BY <1>1, ServersBelow
  <2>2. Tree!Down(a) = Nodes("s", e * t, t)
    BY <2>1, Zenon DEF Nodes
  <2>3. Cardinality(Nodes("s", e * t, t)) = t
    BY <1>2, <2>1, NodesOfBlock
  <2> QED
    BY <2>2, <2>3, SameTreeCardinality
<1>4. Tree!Up(a) = {<<"aggr", m>> : m \in Block(e \div h)}
  BY <1>1, SwitchesAbove
<1>5. Tree!Cardinality(Tree!Up(a)) = h
  <2> DEFINE p == e \div h
  <2>1. p \in Nat
    BY <1>2
  <2>2. p * h \in Nat
    BY <1>2, <2>1
  <2>3. Tree!Up(a) = {<<"aggr", m>> : m \in p * h .. p * h + h - 1}
    BY <1>2, <1>4
  <2>4. Tree!Up(a) = Nodes("aggr", p * h, h)
    BY <2>3, Zenon DEF Nodes
  <2>5. Cardinality(Nodes("aggr", p * h, h)) = h
    BY <1>2, <2>2, NodesOfBlock
  <2> QED
    BY <2>4, <2>5, SameTreeCardinality
<1>6. ASSUME NEW c \in Tree!Cores PROVE Tree!Cardinality(Tree!Climbs(a, c)) = 1
  <2>1. PICK n \in 0 .. Tree!topology_cores - 1 : c = Tree!core(n)
    BY DEF Tree!Cores
  <2>2. \E x : Tree!Climbs(a, c) = {x}
    BY <1>1, <2>1, OneWay
  <2> QED
    BY <2>2, FS_Singleton, SameTreeCardinality
<1>7. ASSUME NEW b \in Tree!Edges
      PROVE  Tree!Up(a) = Tree!Up(b) \/ Tree!Up(a) \intersect Tree!Up(b) = {}
  <2>1. PICK f \in 0 .. Tree!topology_edges - 1 : b = Tree!edge(f)
    BY DEF Tree!Edges
  <2>2. Tree!Up(b) = {<<"aggr", m>> : m \in Block(f \div h)}
    BY <2>1, SwitchesAbove
  <2>3. /\ f \div h \in 0 .. 2 * h - 1
        /\ Block(f \div h) = (f \div h) * h .. (f \div h) * h + h - 1
    BY NodeNumbers
  <2> DEFINE p == e \div h
             q == f \div h
  <2>4. p \in Nat /\ q \in Nat
    BY <1>2, <2>3
  <2>5. CASE p = q
    BY <1>4, <2>2, <2>5
  <2>6. CASE p # q
    <3>1. Block(p) = p * h .. p * h + h - 1 /\ Block(q) = q * h .. q * h + h - 1
      BY <1>2, <2>3
    <3>2. \A m : <<"aggr", m>> \in Tree!Up(a) => m \in Block(p)
      BY <1>4
    <3>3. \A m : <<"aggr", m>> \in Tree!Up(b) => m \in Block(q)
      BY <2>2
    <3>4. \A x \in Tree!Up(a) : \E m : x = <<"aggr", m>>
      BY <1>4
    <3> HIDE DEF p, q, h
    <3>5. p * h \in Nat /\ q * h \in Nat
      BY <1>2, <2>4
    <3>6. h \in Nat /\ h > 0
      BY <1>2 DEF h
    <3>7. (\A m \in Block(p) : m \in Nat) /\ (\A m \in Block(q) : m \in Nat)
      BY <3>1, <3>5, <3>6
    <3>8. \A m \in Block(p) : m \div h = p
      BY <2>4, <3>1, <3>6, <3>7, QuotientOfBlock
    <3>9. \A m \in Block(q) : m \div h = q
      BY <2>4, <3>1, <3>6, <3>7, QuotientOfBlock
    <3> QED
      BY <2>6, <3>2, <3>3, <3>4, <3>8, <3>9
  <2> QED
    BY <2>5, <2>6
<1> QED
  BY <1>3, <1>5, <1>6, <1>7

LEMMA EveryServerHasItsSwitch ==
    ASSUME TreeComplete
    PROVE  UNION {Tree!Down(a) : a \in Tree!Edges} = {Tree!s(n) : n \in 0 .. Tree!topology_servers - 1}
<1> DEFINE t == Tree!topology_spt
<1>1. /\ t \in Nat /\ Tree!topology_servers = Tree!topology_edges * t /\ Tree!topology_edges \in Nat
  BY Sizes, SizesAreNumbers DEF TreeComplete
<1>2. ASSUME NEW e \in 0 .. Tree!topology_edges - 1
      PROVE  \A x \in Tree!Down(Tree!edge(e)) : \E n \in 0 .. Tree!topology_servers - 1 : x = Tree!s(n)
  <2>1. Tree!Down(Tree!edge(e)) = {<<"s", j>> : j \in e * t .. e * t + t - 1}
    BY ServersBelow
  <2>2. e * t .. e * t + t - 1 \subseteq 0 .. Tree!topology_servers - 1
    BY <1>1, BlockInside
  <2> QED
    BY <2>1, <2>2 DEF Tree!s
<1>3. ASSUME NEW n \in 0 .. Tree!topology_servers - 1
      PROVE  \E e \in 0 .. Tree!topology_edges - 1 : Tree!s(n) \in Tree!Down(Tree!edge(e))
  <2>1. n \in Nat /\ n < Tree!topology_edges * t
    BY <1>1
  <2>2. t > 0 /\ n \div t \in 0 .. Tree!topology_edges - 1
    BY <1>1, <2>1, QuotientInside
  <2>3. <<Tree!s(n), Tree!edge(n \div t)>> \in links
    BY LinkIs
  <2>4. Tree!s(n) \in Tree!Down(Tree!edge(n \div t))
    BY <2>3, UpAndDown
  <2> QED
    BY <2>2, <2>4
<1>4. \A x : x \in UNION {Tree!Down(a) : a \in Tree!Edges}
              <=> \E e \in 0 .. Tree!topology_edges - 1 : x \in Tree!Down(Tree!edge(e))
  BY Zenon DEF Tree!Edges
<1>5. \A x : x \in UNION {Tree!Down(a) : a \in Tree!Edges}
              <=> \E n \in 0 .. Tree!topology_servers - 1 : x = Tree!s(n)
  BY <1>2, <1>3, <1>4, Zenon
<1>6. \A x : x \in {Tree!s(n) : n \in 0 .. Tree!topology_servers - 1}
              <=> \E n \in 0 .. Tree!topology_servers - 1 : x = Tree!s(n)
  BY Zenon
<1> QED
  BY <1>5, <1>6, Zenon

\* Parameters that are not those of a fat-tree do not come by their last edge
\* switch (k odd) or their last server (too much of the ratio left).
LEMMA OddEnds ==
    ASSUME Tree!TypeOK, LastFits, stage = "done", fattree_k % 2 = 1
    PROVE  Tree!Empty
<1> DEFINE h == Tree!half
           q == h * h + h
<1>1. fattree_k \in Nat
  BY DEF Tree!TypeOK
<1>2. h \in Nat /\ fattree_k = 2 * h + 1
  BY <1>1 DEF Tree!half
<1> HIDE DEF h
<1>3. h * h \in Nat /\ q \in Nat
  BY <1>2
<1>4. fattree_k * fattree_k = 4 * q + 1
  BY <1>2
<1> HIDE DEF q
<1>5. Tree!topology_edges = 2 * q /\ Tree!topology_aggrs = 2 * q
  BY <1>3, <1>4 DEF Tree!topology_edges, Tree!topology_aggrs
<1>6. CASE h = 0
  <2>1. Tree!topology_edges = 0 /\ fattree_k = 1
    BY <1>2, <1>5, <1>6 DEF q
  <2>2. ~ServerFits(Tree!topology_servers - 1)
    BY <2>1 DEF ServerFits
  <2>3. Tree!topology_servers = 0
    BY <2>2, SizesAreNumbers DEF LastFits
  <2> QED
    BY <2>1, <2>3 DEF Tree!Empty
<1>7. CASE h > 0
  <2>1. 2 * q - 1 = (2 * h + 1) * h + (h - 1)
    <3>1. (2 * h + 1) * h = 2 * (h * h) + h
      BY <1>2
    <3> QED
      BY <1>2, <1>3, <3>1 DEF q
  <2>2. (2 * q - 1) \div h = 2 * h + 1
    BY <1>2, <1>7, <2>1, RemainderOfBlock
  <2>3. Tree!From(2 * h + 1) = 2 * q
    BY <1>2, <1>3, <1>4 DEF Tree!From
  <2>4. q > 0
    BY <1>2, <1>3, <1>7 DEF q
  <2>5. EdgeFits(2 * q - 1)
    BY <1>3, <1>5, <2>4 DEF LastFits
  <2>6. 2 * q .. 2 * q + h - 1 \subseteq 0 .. 2 * q - 1
    BY <1>5, <2>2, <2>3, <2>5 DEF EdgeFits, Block, h
  <2>7. 2 * q \in 2 * q .. 2 * q + h - 1 /\ 2 * q \notin 0 .. 2 * q - 1
    BY <1>2, <1>3, <1>7
  <2> QED
    BY <2>6, <2>7
<1> QED
  BY <1>2, <1>6, <1>7

LEMMA EvenEnds ==
    ASSUME Tree!TypeOK, LastFits, stage = "done", fattree_k % 2 = 0
    PROVE  Tree!Proper
<1> DEFINE h == fattree_k \div 2
           r == (fattree_k * Tree!num) % (2 * Tree!den)
           D == 4 * Tree!den
<1>1. h \in Nat /\ fattree_k = 2 * h
  BY DEF Tree!TypeOK
<1> HIDE DEF h
<1>2. /\ Tree!den \in Nat \ {0} /\ Tree!topology_spt \in Nat /\ r \in Nat /\ h * h \in Nat
      /\ (2 * (h * h)) * Tree!topology_spt \in Nat /\ (4 * (h * h)) * r \in Nat
      /\ fattree_k * fattree_k = 4 * (h * h)
      /\ fattree_k * fattree_k * fattree_k * Tree!num
            = ((2 * (h * h)) * Tree!topology_spt) * D + (4 * (h * h)) * r
  BY <1>1, Ratio
<1>3. SUFFICES ASSUME (4 * (h * h)) * r >= D PROVE FALSE
  <2>1. D \in Nat
    BY <1>2
  <2>2. ~((4 * (h * h)) * r < D) => (4 * (h * h)) * r >= D
    <3> HIDE DEF D, r
    <3> QED
      BY <1>2, <2>1
  <2> QED
    BY <1>2, <1>3, <2>2 DEF Tree!Proper
<1>4. PICK t \in Nat, m \in Nat, s \in Nat, e \in Nat, q \in Nat :
         /\ t = Tree!topology_spt /\ m = Tree!topology_edges /\ s = (2 * (h * h)) * t
         /\ e = (4 * (h * h)) * r /\ q = h * h
  BY <1>2, SizesAreNumbers
<1>5. m = 2 * q /\ s = m * t
  BY <1>2, <1>4, HalfOfDouble DEF Tree!topology_edges
<1>6. PICK n \in Nat : n = Tree!topology_servers
  BY SizesAreNumbers
<1>7. D \in Nat \ {0} /\ e >= D
  BY <1>2, <1>3, <1>4
<1>8. n = (s * D + e) \div D
  BY <1>2, <1>4, <1>6 DEF Tree!topology_servers
<1> HIDE DEF D
<1>9. n >= s + 1
  <2>1. s * D \in Nat /\ s * D + e \in Nat /\ (s + 1) * D = s * D + D
    BY <1>4, <1>7
  <2>2. PICK z \in Nat : s * D + e = D * n + z /\ z < D
    BY <1>7, <1>8, <2>1, Divided
  <2>3. SUFFICES ASSUME n <= s PROVE FALSE
    BY <1>4, <1>6
  <2>4. n * D <= s * D /\ n * D = D * n /\ n * D \in Nat
    BY <1>4, <1>6, <1>7, <2>3, ProductMonotone
  <2> QED
    BY <1>7, <2>1, <2>2, <2>4
<1>10. t > 0 /\ (n - 1) \div t \in 0 .. m - 1
  <2>1. Tree!topology_servers > 0
    BY <1>4, <1>6, <1>9
  <2>2. ServerFits(n - 1)
    BY <1>6, <2>1 DEF LastFits
  <2> QED
    BY <1>4, <2>2 DEF ServerFits
<1>11. n - 1 \in Nat /\ t \in Nat \ {0}
  BY <1>4, <1>6, <1>9, <1>10
<1>12. PICK d \in 0 .. m - 1, z \in Nat : n - 1 = t * d + z /\ z < t
  BY <1>10, <1>11, Divided
<1>13. (d + 1) * t <= m * t
  BY <1>4, <1>12, ProductMonotone
<1>14. (d + 1) * t = t * d + t /\ t * d \in Nat
  BY <1>11, <1>12
<1> QED
  BY <1>4, <1>5, <1>6, <1>9, <1>12, <1>13, <1>14

LEMMA TreeIsFat ==
    ASSUME TInv
    PROVE  Tree!IsFatTree
<1>1. Tree!TypeOK /\ Tree!NoMissingNode /\ LinksPlaced /\ LastFits
  BY DEF TInv
<1>2. SUFFICES ASSUME stage = "done"
               PROVE  /\ Tree!Proper \/ Tree!Empty
                      /\ \A a \in Tree!Edges :
                          /\ Tree!Cardinality(Tree!Down(a)) = Tree!topology_spt
                          /\ Tree!Cardinality(Tree!Up(a)) = Tree!half
                          /\ \A c \in Tree!Cores : Tree!Cardinality(Tree!Climbs(a, c)) = 1
                          /\ \A b \in Tree!Edges :
                                Tree!Up(a) = Tree!Up(b) \/ Tree!Up(a) \intersect Tree!Up(b) = {}
                      /\ UNION {Tree!Down(a) : a \in Tree!Edges}
                           = {Tree!s(n) : n \in 0 .. Tree!topology_servers - 1}
  BY <1>1, Zenon DEF Tree!IsFatTree
<1>3. CASE Tree!Proper
  <2>1. TreeComplete
    BY <1>1, <1>2, <1>3 DEF TreeComplete
  <2> QED
    BY <1>3, <2>1, EdgeSwitches, EveryServerHasItsSwitch, Zenon
<1>4. CASE ~Tree!Proper
  <2>1. fattree_k \in Nat /\ fattree_k % 2 \in {0, 1}
    BY <1>1 DEF Tree!TypeOK
  <2>2. fattree_k % 2 = 1
    BY <1>1, <1>2, <1>4, <2>1, EvenEnds
  <2>3. Tree!Empty
    BY <1>1, <1>2, <2>2, OddEnds
  <2>4. Tree!Edges = {}
    <3>1. fattree_k = 1
      BY <2>1, <2>2, <2>3 DEF Tree!Empty
    <3>2. Tree!topology_edges = 0
      BY <3>1 DEF Tree!topology_edges
    <3> QED
      BY <3>2 DEF Tree!Edges
  <2>5. {Tree!s(n) : n \in 0 .. Tree!topology_servers - 1} = {}
    BY <2>3 DEF Tree!Empty
  <2>6. UNION {Tree!Down(a) : a \in Tree!Edges} = {}
    BY <2>4
  <2> QED
    BY <2>3, <2>4, <2>5, <2>6
<1> QED
  BY <1>3, <1>4

-----------------------------------------------------------------------------
(* The generator.  A group counts a pair as busy one event before the pair *)
(* is marked; GInv says what lies between, and that no group has more      *)
(* pairs than flows make it create.                                        *)

\* The connections that carry a flow, or are about to: Workload's active.
Active == pending \union busy

Counts == \A g \in Groups : nrBusy[g] = Cardinality(Generator!InUse(g))

\* A flow is queued or sent, and a sent one is under way with its signal.
Marks == pending \intersect busy = {} /\ busy = signal /\ signal \subseteq unsent

\* Every pair in use exists, and a group grows only by a flow.
Sized ==
    /\ \A g \in Groups : Generator!NrOf(g) <= NrPairs + flowGen
    /\ \A c \in Active : c[2] < Generator!NrOf(c[1])

\* A flow is generated, on the way or finished.
FlowsConserved ==
    /\ flowGen <= FlowTot
    /\ flowGen = flowFin + Cardinality(Active)

\* Flow identifiers differ, and initFid is beyond them all.
FidsDiffer ==
    /\ \A g, h \in Groups : \A m \in DOMAIN fid[g], j \in DOMAIN fid[h] :
           fid[g][m] = fid[h][j] => g = h /\ m = j
    /\ \A g \in Groups : \A m \in DOMAIN fid[g] : fid[g][m] < initFid

\* The simulation goes on until the last flow has finished.
Stages ==
    /\ status # "error"
    /\ status \in {"warmup", "run"} => flowFin < FlowTot

GInv == Generator!TypeOK /\ Counts /\ Marks /\ Sized /\ FlowsConserved /\ FidsDiffer /\ Stages

-----------------------------------------------------------------------------
(* Pairs.                                                                  *)

LEMMA ConnsFinite ==
    ASSUME Generator!FlowGenAssumption
    PROVE  IsFiniteSet(Generator!Conns)
<1>1. IsFiniteSet(0 .. NrPairs + FlowTot - 1)
  BY FS_Interval DEF Generator!FlowGenAssumption
<1> QED
  BY <1>1, FS_Product, SameFinite DEF Generator!Conns

\* What is in use is finite, so that it can be counted.
LEMMA UseFinite ==
    ASSUME Generator!FlowGenAssumption, Generator!TypeOK
    PROVE  /\ IsFiniteSet(Active) /\ Cardinality(Active) \in Nat
           /\ \A g \in Groups : IsFiniteSet(Generator!InUse(g))
               /\ Cardinality(Generator!InUse(g)) \in Nat
<1>1. Active \subseteq Generator!Conns
  BY DEF Generator!TypeOK, Active
<1>2. \A g \in Groups : Generator!InUse(g) \subseteq Generator!Conns
  BY DEF Generator!TypeOK, Generator!InUse
<1> QED
  BY <1>1, <1>2, ConnsFinite, FS_Subset, FS_CardinalityType

\* A group none of whose pairs is idle or about to send counts all of them.
LEMMA AllBusy ==
    ASSUME Generator!FlowGenAssumption, GInv, NEW g \in Groups, Generator!Idle(g) = {},
           \A m \in 0 .. Generator!NrOf(g) - 1 : <<g, m>> \notin pending
    PROVE  nrBusy[g] = Generator!NrOf(g)
<1> DEFINE I == 0 .. Generator!NrOf(g) - 1
<1>1. Generator!NrOf(g) \in Nat
  BY DEF GInv, Generator!TypeOK, Generator!NrOf
<1>2. Generator!InUse(g) = {g} \X I
  <2>1. ASSUME NEW c \in Generator!InUse(g)
        PROVE  c \in {g} \X I
    <3>1. c \in Active /\ c \in Generator!Conns /\ c[1] = g
      BY DEF Generator!InUse, Active, GInv, Generator!TypeOK
    <3>2. c = <<c[1], c[2]>> /\ c[2] \in Nat
      BY <3>1 DEF Generator!Conns
    <3>3. c[2] < Generator!NrOf(g)
      BY <3>1 DEF GInv, Sized
    <3> QED
      BY <1>1, <3>1, <3>2, <3>3
  <2>2. ASSUME NEW m \in I
        PROVE  <<g, m>> \in Generator!InUse(g)
    BY DEF Generator!Idle, Generator!InUse
  <2> QED
    BY <2>1, <2>2
<1>3. IsFiniteSet(I) /\ Cardinality(I) = Generator!NrOf(g)
  BY <1>1, FS_Interval
<1>4. IsFiniteSet({g}) /\ Cardinality({g}) = 1
  BY FS_Singleton
<1>5. Cardinality({g} \X I) = 1 * Generator!NrOf(g)
  <2> HIDE DEF I
  <2> QED
    BY <1>3, <1>4, FS_Product
<1>6. Cardinality(Generator!InUse(g)) = Generator!NrOf(g)
  BY <1>1, <1>2, <1>5
<1> QED
  BY <1>6 DEF GInv, Counts

\* A step that leaves the flows as they are leaves what is counted.
LEMMA UseFrame ==
    ASSUME Active' = Active
    PROVE  \A g : Generator!InUse(g)' = Generator!InUse(g)
<1>1. \A g : Generator!InUse(g) = {c \in Active : c[1] = g}
          /\ Generator!InUse(g)' = {c \in Active' : c[1] = g}
  BY DEF Generator!InUse, Active
<1> QED
  BY <1>1

\* One flow more, on a connection that carries none.
LEMMA UseAdds ==
    ASSUME Generator!FlowGenAssumption, Generator!TypeOK, NEW g \in Groups, NEW m, <<g,
           m>> \notin Active,
           Active' = Active \union {<<g, m>>}
    PROVE  /\ Cardinality(Active') = Cardinality(Active) + 1
           /\ Cardinality(Generator!InUse(g)') = Cardinality(Generator!InUse(g)) + 1
           /\ \A h \in Groups \ {g} : Generator!InUse(h)' = Generator!InUse(h)
<1>1. \A h : Generator!InUse(h) = {c \in Active : c[1] = h}
          /\ Generator!InUse(h)' = {c \in Active' : c[1] = h}
  BY DEF Generator!InUse, Active
<1>2. Generator!InUse(g)' = Generator!InUse(g) \union {<<g, m>>} /\ <<g, m>> \notin Generator!InUse(g)
  BY <1>1
<1>3. ASSUME NEW h \in Groups \ {g}
      PROVE  Generator!InUse(h)' = Generator!InUse(h)
  <2>1. <<g, m>>[1] # h
    OBVIOUS
  <2> QED
    BY <1>1, <2>1
<1>4. Cardinality(Active') = Cardinality(Active) + 1
  BY UseFinite, FS_AddElement
<1>5. Cardinality(Generator!InUse(g)') = Cardinality(Generator!InUse(g)) + 1
  BY <1>2, UseFinite, FS_AddElement
<1> QED
  BY <1>3, <1>4, <1>5

\* One flow less.
LEMMA UseRemoves ==
    ASSUME Generator!FlowGenAssumption, Generator!TypeOK, NEW c \in Active, Active' = Active \ {c}
    PROVE  /\ c[1] \in Groups
           /\ Cardinality(Active') = Cardinality(Active) - 1
           /\ Cardinality(Generator!InUse(c[1])') = Cardinality(Generator!InUse(c[1])) - 1
           /\ \A h \in Groups \ {c[1]} : Generator!InUse(h)' = Generator!InUse(h)
<1>1. \A h : Generator!InUse(h) = {d \in Active : d[1] = h}
          /\ Generator!InUse(h)' = {d \in Active' : d[1] = h}
  BY DEF Generator!InUse, Active
<1>2. c[1] \in Groups
  BY DEF Active, Generator!TypeOK, Generator!Conns
<1>3. PICK g \in Groups : g = c[1]
  BY <1>2
<1>4. Generator!InUse(g)' = Generator!InUse(g) \ {c} /\ c \in Generator!InUse(g)
  BY <1>1, <1>3
<1>5. \A h \in Groups \ {g} : Generator!InUse(h)' = Generator!InUse(h)
  BY <1>1, <1>3
<1>6. Cardinality(Generator!InUse(g)') = Cardinality(Generator!InUse(g)) - 1
          /\ Cardinality(Active') = Cardinality(Active) - 1
  BY <1>4, UseFinite, FS_RemoveElement
<1> QED
  BY <1>2, <1>3, <1>5, <1>6

-----------------------------------------------------------------------------
(* The driver's set-up.                                                    *)

\* Identifiers of consecutive ranges differ: a is before b.
LEMMA RangesApart ==
    ASSUME NEW n \in Nat, NEW a \in Nat, NEW b \in Nat, a < b,
           NEW m \in 1 .. n, NEW j \in 1 .. n
    PROVE  a * n + m - 1 < b * n + j - 1
<1>1. PICK d \in Nat : b = a + 1 + d
  <2>1. b - a - 1 \in Nat /\ b = a + 1 + (b - a - 1)
    OBVIOUS
  <2> QED
    BY <2>1
<1>2. d * n \in Nat /\ a * n \in Nat
  BY SMT
<1>3. b * n = a * n + n + d * n
  BY <1>1, SMT
<1> QED
  BY <1>2, <1>3

LEMMA InitGInv ==
    ASSUME Generator!FlowGenAssumption, Generator!Init
    PROVE  GInv
<1> USE Generator!FlowGenAssumption
<1>0. NrPairs \in Nat /\ FlowTot \in Nat \ {0} /\ Cardinality(Groups) \in Nat
  BY FS_CardinalityType, SameFinite DEF Generator!FlowGenAssumption
<1>1. PICK ord \in [Groups -> 0 .. Cardinality(Groups) - 1] :
        /\ \A g, h \in Groups : ord[g] = ord[h] => g = h
        /\ fid = [g \in Groups |-> [k \in 1 .. NrPairs |-> ord[g] * NrPairs + k - 1]]
  <2>1. Generator!Cardinality(Groups) = Cardinality(Groups)
    BY SameFinite
  <2> QED
    BY <2>1 DEF Generator!Init
<1>2. \A g \in Groups : ord[g] \in Nat /\ ord[g] < Cardinality(Groups)
  BY <1>0, <1>1
<1>3. ASSUME NEW g \in Groups
      PROVE  /\ fid[g] \in Seq(Nat) /\ Len(fid[g]) = NrPairs
             /\ DOMAIN fid[g] = 1 .. NrPairs
             /\ \A k \in 1 .. NrPairs : fid[g][k] = ord[g] * NrPairs + k - 1
  <2>1. fid[g] = [k \in 1 .. NrPairs |-> ord[g] * NrPairs + k - 1]
    BY <1>1
  <2>2. ord[g] * NrPairs \in Nat
    BY <1>0, <1>2, SMT
  <2>3. \A k \in 1 .. NrPairs : ord[g] * NrPairs + k - 1 \in Nat
    BY <1>0, <2>2
  <2>4. fid[g] \in [1 .. NrPairs -> Nat]
    BY <2>1, <2>3
  <2> QED
    BY <1>0, <2>1, <2>4
<1>4. initFid = Cardinality(Groups) * NrPairs /\ initFid \in Nat
  <2>1. initFid = NrPairs * Cardinality(Groups)
    BY SameFinite DEF Generator!Init
  <2> QED
    BY <1>0, <2>1, SMT
<1>5. Active = {}
  BY DEF Generator!Init, Active
<1>6. Generator!TypeOK
  <2>1. fid \in [Groups -> Seq(Nat)]
    BY <1>1, <1>3
  <2>2. towarm \subseteq Generator!Conns
    BY <1>0 DEF Generator!Init, Generator!Conns
  <2> QED
    BY <1>4, <2>1, <2>2 DEF Generator!Init, Generator!TypeOK
<1>7. Counts
  <2>1. \A g : Generator!InUse(g) = {}
    BY <1>5 DEF Generator!InUse, Active
  <2> QED
    BY <2>1, FS_EmptySet DEF Generator!Init, Counts
<1>8. Marks /\ Stages
  BY <1>0 DEF Generator!Init, Marks, Stages
<1>9. Sized /\ FlowsConserved
  BY <1>0, <1>3, <1>5, FS_EmptySet DEF Generator!Init, Sized, FlowsConserved, Generator!NrOf
<1>10. FidsDiffer
  <2>1. ASSUME NEW g \in Groups, NEW h \in Groups, ord[g] < ord[h],
               NEW m \in 1 .. NrPairs, NEW j \in 1 .. NrPairs
        PROVE  fid[g][m] < fid[h][j]
    <3>1. ord[g] * NrPairs + m - 1 < ord[h] * NrPairs + j - 1
      BY <1>0, <1>2, <2>1, RangesApart
    <3> QED
      BY <1>3, <3>1
  <2>2. ASSUME NEW g \in Groups, NEW h \in Groups,
               NEW m \in DOMAIN fid[g], NEW j \in DOMAIN fid[h], fid[g][m] = fid[h][j]
        PROVE  g = h /\ m = j
    <3>1. m \in 1 .. NrPairs /\ j \in 1 .. NrPairs
      BY <1>3
    <3>2. fid[g][m] = ord[g] * NrPairs + m - 1 /\ fid[h][j] = ord[h] * NrPairs + j - 1
      BY <1>3, <3>1
    <3>3. ord[g] * NrPairs \in Nat /\ ord[h] * NrPairs \in Nat
      BY <1>0, <1>2, SMT
    <3>4. ~(ord[g] < ord[h]) /\ ~(ord[h] < ord[g])
      <4>1. fid[g][m] \in Int /\ fid[h][j] \in Int
        BY <1>0, <3>1, <3>2, <3>3
      <4> QED
        BY <2>1, <2>2, <3>1, <4>1
    <3>5. ord[g] = ord[h]
      BY <1>2, <3>4
    <3>6. g = h
      BY <1>1, <3>5
    <3>7. PICK o \in Nat : o = ord[g] * NrPairs /\ o = ord[h] * NrPairs
      BY <3>3, <3>6
    <3>8. o + m - 1 = o + j - 1
      BY <2>2, <3>2, <3>7
    <3> QED
      BY <3>1, <3>6, <3>7, <3>8
  <2>3. ASSUME NEW g \in Groups, NEW m \in DOMAIN fid[g]
        PROVE  fid[g][m] < initFid
    <3>1. m \in 1 .. NrPairs
      BY <1>3
    <3>2. ord[g] * NrPairs + m - 1 < Cardinality(Groups) * NrPairs + m - 1
      BY <1>0, <1>2, <3>1, RangesApart
    <3>3. ord[g] * NrPairs + m - 1 < Cardinality(Groups) * NrPairs + 1 - 1
      BY <1>0, <1>2, <3>1, RangesApart
    <3> QED
      BY <1>0, <1>3, <1>4, <3>1, <3>3
  <2> QED
    BY <2>2, <2>3 DEF FidsDiffer
<1> QED
  BY <1>6, <1>7, <1>8, <1>9, <1>10 DEF GInv

-----------------------------------------------------------------------------
(* The steps.                                                              *)

\* A step that neither adds a flow nor takes one away, nor a pair.
LEMMA GInvFrame ==
    ASSUME GInv, Generator!TypeOK', Marks', Active' = Active, status' # "error",
           status' \in {"warmup", "run"} => status \in {"warmup", "run"},
           UNCHANGED <<fid, nrBusy, flowGen, flowFin, initFid>>
    PROVE  GInv'
<1>1. Counts'
  BY UseFrame DEF GInv, Counts
<1>2. Sized'
  BY DEF GInv, Sized, Generator!NrOf
<1>3. FlowsConserved' /\ FidsDiffer' /\ Stages'
  BY DEF GInv, FlowsConserved, FidsDiffer, Stages
<1> QED
  BY <1>1, <1>2, <1>3 DEF GInv

\* A flow is generated on pair i, new or idle.
LEMMA GenerateGInv ==
    ASSUME Generator!FlowGenAssumption, GInv, NEW g \in Groups, NEW m \in Nat, m < Generator!NrOf(g)',
           <<g, m>> \notin Active, <<g, m>> \in Generator!Conns, flowGen < FlowTot, status = "run",
           Generator!Generate(g, m), FidsDiffer', fid' \in [Groups -> Seq(Nat)], initFid' \in Nat,
           armed' \subseteq Groups,
           \A h \in Groups : Generator!NrOf(h)' \in {Generator!NrOf(h), Generator!NrOf(h) + 1},
           UNCHANGED <<status, towarm, busy, unsent, signal, flowFin>>
    PROVE  GInv'
<1>1. /\ flowGen' = flowGen + 1 /\ flowGen \in Nat /\ flowFin \in Nat
      /\ nrBusy' = [nrBusy EXCEPT ![g] = @ + 1]
      /\ pending' = pending \union {<<g, m>>}
  BY DEF Generator!Generate, GInv, Generator!TypeOK
<1>2. Active' = Active \union {<<g, m>>}
  BY <1>1 DEF Active
<1>3. Generator!TypeOK
  BY DEF GInv
<1>4. /\ Cardinality(Active') = Cardinality(Active) + 1
      /\ Cardinality(Generator!InUse(g)') = Cardinality(Generator!InUse(g)) + 1
      /\ \A h \in Groups \ {g} : Generator!InUse(h)' = Generator!InUse(h)
  BY <1>2, <1>3, UseAdds
<1>5. Generator!TypeOK'
  <2>1. nrBusy' \in [Groups -> Nat]
    BY <1>1, <1>3 DEF Generator!TypeOK
  <2>2. pending' \subseteq Generator!Conns
    BY <1>1, <1>3 DEF Generator!TypeOK
  <2>3. /\ status' = status /\ towarm' = towarm /\ busy' = busy
        /\ unsent' = unsent /\ signal' = signal /\ flowFin' = flowFin
    OBVIOUS
  <2>4. flowGen' \in Nat
    BY <1>1
  <2> HIDE DEF Generator!Conns
  <2> QED
    BY <1>3, <2>1, <2>2, <2>3, <2>4 DEF Generator!TypeOK
<1>6. Counts'
  BY <1>1, <1>3, <1>4 DEF GInv, Counts, Generator!TypeOK
<1>7. Marks'
  BY <1>1 DEF GInv, Marks, Active
<1>8. Sized'
  <2>1. \A h \in Groups : Generator!NrOf(h) \in Nat /\ Generator!NrOf(h) <= NrPairs + flowGen
    BY <1>3 DEF GInv, Sized, Generator!TypeOK, Generator!NrOf
  <2>2. \A h \in Groups : Generator!NrOf(h)' <= NrPairs + flowGen'
    <3> TAKE h \in Groups
    <3>1. Generator!NrOf(h)' = Generator!NrOf(h) \/ Generator!NrOf(h)' = Generator!NrOf(h) + 1
      OBVIOUS
    <3>2. NrPairs \in Nat
      BY DEF Generator!FlowGenAssumption
    <3> QED
      BY <1>1, <2>1, <3>1, <3>2
  <2>3. ASSUME NEW c \in Active
        PROVE  c[2] < Generator!NrOf(c[1])'
    <3>1. c[1] \in Groups /\ c[2] \in Nat /\ c[2] < Generator!NrOf(c[1])
      BY <1>3 DEF GInv, Sized, Generator!TypeOK, Active, Generator!Conns
    <3>2. PICK h \in Groups : h = c[1]
      BY <3>1
    <3>3. Generator!NrOf(h)' \in {Generator!NrOf(h), Generator!NrOf(h) + 1} /\ Generator!NrOf(h) \in Nat
      BY <2>1
    <3> QED
      BY <3>1, <3>2, <3>3
  <2>4. ASSUME NEW c \in Active'
        PROVE  (c[2] < Generator!NrOf(c[1]))'
    <3>1. CASE c \in Active
      BY <2>3, <3>1
    <3>2. CASE c = <<g, m>>
      BY <3>2
    <3> QED
      BY <1>2, <2>4, <3>1, <3>2
  <2> QED
    BY <2>2, <2>4 DEF Sized
<1>9. FlowsConserved'
  <2>1. Cardinality(Active) \in Nat
    BY <1>3, UseFinite
  <2>2. flowGen' <= FlowTot
    BY <1>1 DEF Generator!FlowGenAssumption
  <2>3. flowGen = flowFin + Cardinality(Active)
    BY DEF GInv, FlowsConserved
  <2>4. flowFin' = flowFin
    OBVIOUS
  <2>5. flowGen' = flowFin' + Cardinality(Active')
    BY <1>1, <1>4, <2>1, <2>3, <2>4
  <2> QED
    BY <2>2, <2>5 DEF FlowsConserved
<1>10. Stages'
  BY DEF GInv, Stages
<1> QED
  BY <1>5, <1>6, <1>7, <1>8, <1>9, <1>10 DEF GInv

\* The last of a flow's bytes: its connection is idle again.
LEMMA FinNotifyGInv ==
    ASSUME Generator!FlowGenAssumption, GInv, NEW c \in Generator!AllPairs, Generator!FinNotify(c)
    PROVE  GInv'
<1>1. Generator!TypeOK /\ c \in signal /\ c \in busy /\ c \in Active /\ c \in Generator!Conns
  BY DEF GInv, Marks, Generator!FinNotify, Active, Generator!TypeOK
<1>2. Active' = Active \ {c}
  BY <1>1 DEF GInv, Marks, Generator!FinNotify, Active
<1>3. PICK g \in Groups : g = c[1]
  BY <1>1 DEF Generator!Conns
<1>4. /\ Cardinality(Active') = Cardinality(Active) - 1
      /\ Cardinality(Generator!InUse(g)') = Cardinality(Generator!InUse(g)) - 1
      /\ \A h \in Groups \ {g} : Generator!InUse(h)' = Generator!InUse(h)
  <2>1. Cardinality(Generator!InUse(c[1])') = Cardinality(Generator!InUse(c[1])) - 1
    BY <1>1, <1>2, UseRemoves
  <2> QED
    BY <1>1, <1>2, <1>3, <2>1, UseRemoves
<1>5. nrBusy' = [nrBusy EXCEPT ![g] = @ - 1] /\ flowFin' = flowFin + 1
  BY <1>3 DEF Generator!FinNotify
<1>6. Cardinality(Active) \in Nat /\ Cardinality(Active') \in Nat
  <2>1. Cardinality(Active) # 0
    BY <1>1, UseFinite, FS_EmptySet
  <2> QED
    BY <1>1, <1>4, <2>1, UseFinite
<1>7. Counts'
  BY <1>1, <1>4, <1>5 DEF GInv, Counts, Generator!TypeOK
<1>8. Generator!TypeOK'
  <2>1. Cardinality(Generator!InUse(g)) \in Nat \ {0}
    <3>1. c \in Generator!InUse(g)
      BY <1>1, <1>3 DEF Generator!InUse, Active
    <3> QED
      BY <1>1, <3>1, UseFinite, FS_EmptySet
  <2>2. nrBusy' \in [Groups -> Nat]
    BY <1>1, <1>5, <2>1 DEF GInv, Counts, Generator!TypeOK
  <2>3. flowFin' \in Nat /\ status' \in {"run", "exit"}
    BY <1>1 DEF Generator!FinNotify, Generator!TypeOK
  <2> HIDE DEF Generator!Conns
  <2> QED
    BY <1>1, <2>2, <2>3 DEF Generator!TypeOK, Generator!FinNotify
<1>9. Marks'
  BY <1>1 DEF GInv, Marks, Generator!FinNotify
<1>10. Sized'
  <2>1. fid' = fid /\ flowGen' = flowGen /\ Active' \subseteq Active
    BY <1>2 DEF Generator!FinNotify
  <2> QED
    BY <2>1 DEF GInv, Sized, Generator!NrOf
<1>11. FlowsConserved'
  <2>1. flowGen' = flowGen /\ flowGen \in Nat /\ flowFin \in Nat
    BY <1>1 DEF Generator!FinNotify, Generator!TypeOK
  <2> QED
    BY <1>4, <1>5, <1>6, <2>1 DEF GInv, FlowsConserved
<1>12. FidsDiffer'
  BY DEF GInv, FidsDiffer, Generator!FinNotify
<1>13. Stages'
  BY <1>1, <1>5 DEF Stages, Generator!FinNotify, Generator!TypeOK, Generator!FlowGenAssumption
<1> QED
  BY <1>7, <1>8, <1>9, <1>10, <1>11, <1>12, <1>13 DEF GInv

LEMMA ScheduleGInv ==
    ASSUME Generator!FlowGenAssumption, GInv, NEW g \in Groups, Generator!Schedule(g)
    PROVE  GInv'
<1>1. /\ Generator!TypeOK /\ flowGen \in Nat /\ FlowTot \in Nat /\ NrPairs \in Nat
      /\ \A h \in Groups : fid[h] \in Seq(Nat) /\ Generator!NrOf(h) \in Nat
          /\ Generator!NrOf(h) <= NrPairs + flowGen
  BY DEF GInv, Sized, Generator!TypeOK, Generator!NrOf, Generator!FlowGenAssumption
<1>2. CASE Generator!ScheduleNothing(g)
  <2>1. Generator!TypeOK'
    BY <1>1, <1>2 DEF Generator!TypeOK, Generator!ScheduleNothing
  <2>2. Marks' /\ Active' = Active
    BY <1>2 DEF GInv, Marks, Generator!ScheduleNothing, Active
  <2> QED
    BY <1>2, <2>1, <2>2, GInvFrame DEF Generator!ScheduleNothing, GInv, Stages
<1>3. CASE Generator!ScheduleNew(g)
  <2> DEFINE n == Generator!NrOf(g)
  <2>1. /\ status = "run" /\ flowGen < FlowTot /\ Generator!Generate(g, n)
        /\ fid' = [fid EXCEPT ![g] = Append(@, initFid)] /\ initFid' = initFid + 1
        /\ UNCHANGED <<status, towarm, busy, unsent, signal, flowFin>>
    BY <1>3 DEF Generator!ScheduleNew, Generator!Due
  <2>2. armed' \subseteq Groups
    BY <1>1, <1>3 DEF Generator!ScheduleNew, Generator!Rearm, Generator!TypeOK
  <2>3. n \in Nat /\ <<g, n>> \in Generator!Conns
    BY <1>1, <2>1 DEF Generator!Conns
  <2>4. <<g, n>> \notin Active
    <3>1. ASSUME <<g, n>> \in Active
          PROVE  FALSE
      <4>1. <<g, n>>[2] < Generator!NrOf(<<g, n>>[1])
        BY <3>1 DEF GInv, Sized
      <4> QED
        BY <2>3, <4>1
    <3> QED
      BY <3>1
  <2>5. initFid \in Nat /\ fid \in [Groups -> Seq(Nat)]
    BY <1>1 DEF Generator!TypeOK
  <2>6. /\ fid'[g] = Append(fid[g], initFid) /\ fid'[g] \in Seq(Nat)
        /\ \A h \in Groups \ {g} : fid'[h] = fid[h]
    BY <2>1, <2>5
  <2>7. fid' \in [Groups -> Seq(Nat)]
    BY <2>1, <2>5, <2>6
  <2>8. Generator!NrOf(g)' = n + 1 /\ \A h \in Groups : Generator!NrOf(h)' \in {Generator!NrOf(h),
        Generator!NrOf(h) + 1}
    <3>1. Len(fid'[g]) = Len(fid[g]) + 1
      BY <2>5, <2>6
    <3>2. \A h \in Groups \ {g} : Len(fid'[h]) = Len(fid[h])
      BY <2>6
    <3> QED
      BY <3>1, <3>2 DEF Generator!NrOf
  <2>9. ASSUME NEW h \in Groups, NEW k \in DOMAIN fid'[h]
        PROVE  \/ k \in DOMAIN fid[h] /\ fid'[h][k] = fid[h][k] /\ fid[h][k] \in Nat
               \/ h = g /\ k = n + 1 /\ fid'[h][k] = initFid
    <3>1. CASE h = g
      <4>1. PICK q \in Seq(Nat) : q = fid[g]
        BY <2>5
      <4>2. PICK f \in Nat : f = initFid
        BY <2>5
      <4>3. k \in DOMAIN Append(q, f) /\ fid'[h] = Append(q, f) /\ n = Len(q)
        BY <2>6, <2>9, <3>1, <4>1, <4>2 DEF Generator!NrOf
      <4>4. k \in 1 .. Len(q) + 1
        BY <4>3
      <4>5. CASE k = Len(q) + 1
        <5>1. Append(q, f)[k] = f
          BY <4>5
        <5> QED
          BY <3>1, <4>2, <4>3, <4>5, <5>1
      <4>6. CASE k \in 1 .. Len(q)
        <5>1. Append(q, f)[k] = q[k] /\ k \in DOMAIN q /\ q[k] \in Nat
          BY <4>6
        <5> QED
          BY <3>1, <4>1, <4>3, <5>1
      <4> QED
        BY <4>4, <4>5, <4>6
    <3>2. CASE h # g
      BY <2>5, <2>6, <2>9, <3>2
    <3> QED
      BY <3>1, <3>2
  <2>10. \A h \in Groups : \A k \in DOMAIN fid[h] : fid[h][k] < initFid
    BY DEF GInv, FidsDiffer
  <2>11. FidsDiffer'
    <3>1. ASSUME NEW h \in Groups, NEW k \in DOMAIN fid'[h]
          PROVE  fid'[h][k] < initFid'
      BY <2>1, <2>5, <2>9, <2>10, <3>1
    <3>2. ASSUME NEW a \in Groups, NEW b \in Groups,
                 NEW m \in DOMAIN fid'[a], NEW j \in DOMAIN fid'[b], fid'[a][m] = fid'[b][j]
          PROVE  a = b /\ m = j
      <4>1. CASE m \in DOMAIN fid[a] /\ fid'[a][m] = fid[a][m] /\ j \in DOMAIN fid[b]
                     /\ fid'[b][j] = fid[b][j]
        <5>1. fid[a][m] = fid[b][j]
          BY <3>2, <4>1
        <5>2. FidsDiffer
          BY DEF GInv
        <5> QED
          BY <4>1, <5>1, <5>2 DEF FidsDiffer
      <4>2. CASE a = g /\ m = n + 1 /\ b = g /\ j = n + 1
        BY <4>2
      <4>3. ~(fid[a][m] = initFid /\ m \in DOMAIN fid[a]) /\ ~(fid[b][j] = initFid
                /\ j \in DOMAIN fid[b])
        BY <2>5, <2>10
      <4> QED
        BY <2>9, <3>2, <4>1, <4>2, <4>3
    <3> QED
      BY <3>1, <3>2 DEF FidsDiffer
  <2> HIDE DEF n
  <2>12. n < Generator!NrOf(g)' /\ initFid' \in Nat
    BY <2>1, <2>3, <2>5, <2>8
  <2> QED
    BY <2>1, <2>2, <2>3, <2>4, <2>7, <2>8, <2>11, <2>12, GenerateGInv
<1>4. CASE Generator!ScheduleIdle(g)
  <2>1. Generator!Idle(g) # {}
    <3>1. \A m \in 0 .. Generator!NrOf(g) - 1 : <<g, m>> \notin pending
      BY <1>4 DEF Generator!ScheduleIdle, Generator!Due
    <3> QED
      BY <1>4, <3>1, AllBusy DEF Generator!ScheduleIdle
  <2>2. PICK m \in Generator!Idle(g) : Generator!Generate(g, m)
    BY <1>4, <2>1 DEF Generator!ScheduleIdle
  <2>3. /\ status = "run" /\ flowGen < FlowTot
        /\ UNCHANGED <<status, towarm, busy, unsent, signal, flowFin, fid, initFid>>
    BY <1>4, <2>1 DEF Generator!ScheduleIdle, Generator!Due
  <2>4. armed' \subseteq Groups
    BY <1>1, <1>4, <2>1 DEF Generator!ScheduleIdle, Generator!Rearm, Generator!TypeOK
  <2>5. m \in Nat /\ m < Generator!NrOf(g) /\ <<g, m>> \notin Active /\ <<g, m>> \in Generator!Conns
    BY <1>1, <1>4, <2>3 DEF Generator!Idle, Active, Generator!ScheduleIdle, Generator!Due,
       Generator!Conns
  <2>6. fid' = fid /\ initFid' = initFid
    BY <2>3
  <2>7. FidsDiffer' /\ fid' \in [Groups -> Seq(Nat)] /\ initFid' \in Nat
    BY <1>1, <2>6 DEF GInv, FidsDiffer, Generator!TypeOK
  <2>8. m < Generator!NrOf(g)' /\ \A h \in Groups : Generator!NrOf(h)' \in {Generator!NrOf(h),
        Generator!NrOf(h) + 1}
    BY <2>5, <2>6 DEF Generator!NrOf
  <2> QED
    BY <2>2, <2>3, <2>4, <2>5, <2>7, <2>8, GenerateGInv
<1> QED
  BY <1>2, <1>3, <1>4 DEF Generator!Schedule

LEMMA WarmupGInv ==
    ASSUME GInv, NEW c \in Generator!AllPairs, Generator!Warmup(c)
    PROVE  GInv'
<1>1. Generator!TypeOK'
  <2> HIDE DEF Generator!Conns
  <2> QED
    BY DEF GInv, Generator!TypeOK, Generator!Warmup
<1>2. Marks' /\ Active' = Active
  BY DEF GInv, Marks, Generator!Warmup, Active
<1> QED
  BY <1>1, <1>2, GInvFrame DEF Generator!Warmup

LEMMA InitScheduleGInv ==
    ASSUME GInv, Generator!InitSchedule
    PROVE  GInv'
<1>1. Generator!TypeOK'
  BY DEF GInv, Generator!TypeOK, Generator!InitSchedule
<1>2. Marks' /\ Active' = Active
  BY DEF GInv, Marks, Generator!InitSchedule, Active
<1> QED
  BY <1>1, <1>2, GInvFrame DEF Generator!InitSchedule

\* The queued send marks the pair that nr_busy_pairs has counted.
LEMMA SendGInv ==
    ASSUME GInv, NEW c \in Generator!AllPairs, Generator!Send(c)
    PROVE  GInv' /\ Active' = Active
<1>1. c \in Generator!Conns
  BY DEF GInv, Generator!TypeOK, Generator!Send
<1>2. Generator!TypeOK'
  BY <1>1 DEF GInv, Generator!TypeOK, Generator!Send
<1>3. Marks' /\ Active' = Active
  BY DEF GInv, Marks, Generator!Send, Active
<1> QED
  BY <1>2, <1>3, GInvFrame DEF Generator!Send

LEMMA DrainQuietGInv ==
    ASSUME GInv, NEW c \in Generator!AllPairs, Generator!DrainQuiet(c)
    PROVE  GInv'
<1>1. Generator!TypeOK'
  BY DEF GInv, Generator!TypeOK, Generator!DrainQuiet
<1>2. Marks' /\ Active' = Active
  BY DEF GInv, Marks, Generator!DrainQuiet, Active
<1> QED
  BY <1>1, <1>2, GInvFrame DEF Generator!DrainQuiet

LEMMA StutterGInv ==
    ASSUME GInv, UNCHANGED Generator!vars
    PROVE  GInv'
<1>1. Generator!TypeOK'
  BY DEF GInv, Generator!TypeOK, Generator!vars
<1>2. Marks' /\ Active' = Active
  BY DEF GInv, Marks, Generator!vars, Active
<1>3. UNCHANGED <<fid, nrBusy, flowGen, flowFin, initFid>> /\ status' = status
  BY DEF Generator!vars
<1> QED
  BY <1>1, <1>2, <1>3, GInvFrame DEF GInv, Stages

LEMMA NextGInv ==
    ASSUME Generator!FlowGenAssumption, GInv, [Generator!Next]_(Generator!vars)
    PROVE  GInv'
<1>1. CASE Generator!InitSchedule
  BY <1>1, InitScheduleGInv
<1>2. ASSUME NEW g \in Groups, Generator!Schedule(g)
      PROVE  GInv'
  BY <1>2, ScheduleGInv
<1>3. ASSUME NEW c \in Generator!AllPairs, Generator!Event(c)
      PROVE  GInv'
  BY <1>3, WarmupGInv, SendGInv, DrainQuietGInv, FinNotifyGInv DEF Generator!Event
<1>4. CASE UNCHANGED Generator!vars
  BY <1>4, StutterGInv
<1> QED
  BY <1>1, <1>2, <1>3, <1>4 DEF Generator!Next

LEMMA GInvImpliesBusyAccounted ==
    ASSUME GInv
    PROVE  Generator!BusyAccounted
BY SameFinite DEF GInv, Generator!BusyAccounted, Counts, Marks, Stages, FidsDiffer

-----------------------------------------------------------------------------
(* The refinement.                                                         *)

\* A schedule event starts one flow, or none.
LEMMA ScheduleMaps ==
    ASSUME Generator!FlowGenAssumption, GInv, NEW g \in Groups, Generator!Schedule(g)
    PROVE  [Generator!Abstract!Next]_(Generator!Abstract!vars)
<1>1. CASE Generator!ScheduleNothing(g)
  BY <1>1 DEF Generator!ScheduleNothing, Generator!Abstract!vars
<1>2. ASSUME NEW m \in Nat, <<g, m>> \in Generator!Conns, <<g, m>> \notin Active,
             Generator!Generate(g, m),
             flowGen < FlowTot, status = "run", UNCHANGED <<status, busy, flowFin>>
      PROVE  Generator!Abstract!Next
  <2>1. Generator!Abstract!Start(<<g, m>>)
    BY <1>2 DEF Generator!Abstract!Start, Generator!Generate, Active
  <2> QED
    BY <1>2, <2>1 DEF Generator!Abstract!Next
<1>3. /\ FlowTot \in Nat /\ NrPairs \in Nat /\ flowGen \in Nat
      /\ Generator!NrOf(g) \in Nat /\ Generator!NrOf(g) <= NrPairs + flowGen
  BY DEF GInv, Sized, Generator!TypeOK, Generator!NrOf, Generator!FlowGenAssumption
<1>4. CASE Generator!ScheduleNew(g)
  <2> DEFINE n == Generator!NrOf(g)
  <2>1. /\ status = "run" /\ flowGen < FlowTot /\ Generator!Generate(g, n)
        /\ UNCHANGED <<status, busy, flowFin>>
    BY <1>4 DEF Generator!ScheduleNew, Generator!Due
  <2>2. n \in Nat /\ <<g, n>> \in Generator!Conns
    BY <1>3, <2>1 DEF Generator!Conns
  <2>3. ASSUME <<g, n>> \in Active
        PROVE  FALSE
    <3>1. <<g, n>>[2] < Generator!NrOf(<<g, n>>[1])
      BY <2>3 DEF GInv, Sized
    <3> QED
      BY <2>2, <3>1
  <2> HIDE DEF n
  <2> QED
    BY <1>2, <2>1, <2>2, <2>3
<1>5. CASE Generator!ScheduleIdle(g)
  <2>1. Generator!Idle(g) # {}
    <3>1. \A m \in 0 .. Generator!NrOf(g) - 1 : <<g, m>> \notin pending
      BY <1>5 DEF Generator!ScheduleIdle, Generator!Due
    <3> QED
      BY <1>5, <3>1, AllBusy DEF Generator!ScheduleIdle
  <2>2. PICK m \in Generator!Idle(g) : Generator!Generate(g, m)
    BY <1>5, <2>1 DEF Generator!ScheduleIdle
  <2>3. status = "run" /\ flowGen < FlowTot /\ UNCHANGED <<status, busy, flowFin>>
    BY <1>5, <2>1 DEF Generator!ScheduleIdle, Generator!Due
  <2>4. m \in Nat /\ <<g, m>> \notin Active /\ <<g, m>> \in Generator!Conns
    BY <1>3, <1>5, <2>3 DEF Generator!Idle, Active, Generator!ScheduleIdle, Generator!Due,
       Generator!Conns
  <2> QED
    BY <1>2, <2>2, <2>3, <2>4
<1> QED
  BY <1>1, <1>4, <1>5 DEF Generator!Schedule

\* The other events leave the flows alone, but for the end of one.
LEMMA EventMaps ==
    ASSUME Generator!FlowGenAssumption, GInv, NEW c \in Generator!AllPairs, Generator!Event(c)
    PROVE  [Generator!Abstract!Next]_(Generator!Abstract!vars)
<1>1. CASE Generator!Warmup(c)
  BY <1>1 DEF Generator!Warmup, Generator!Abstract!vars
<1>2. CASE Generator!Send(c)
  <2>1. UNCHANGED <<flowGen, flowFin, status>>
    BY <1>2 DEF Generator!Send
  <2>2. (pending \union busy)' = pending \union busy
    BY <1>2, SendGInv DEF Active
  <2> QED
    BY <2>1, <2>2 DEF Generator!Abstract!vars
<1>3. CASE Generator!DrainQuiet(c)
  BY <1>3 DEF Generator!DrainQuiet, Generator!Abstract!vars
<1>4. CASE Generator!FinNotify(c)
  <2>1. GInv'
    BY <1>4, FinNotifyGInv
  <2>2. c \in Active /\ c \in Generator!Conns
    BY <1>4 DEF GInv, Marks, Generator!TypeOK, Generator!FinNotify, Active
  <2>3. (pending \union busy)' = (pending \union busy) \ {c}
    BY <1>4 DEF GInv, Marks, Generator!FinNotify
  <2>4. flowFin' <= FlowTot /\ flowFin' \in Nat /\ FlowTot \in Nat
    <3>1. Generator!TypeOK' /\ Cardinality(Active') \in Nat
      <4>1. IsFiniteSet(Active')
        <5>1. Active' \subseteq Generator!Conns
          BY <2>1 DEF GInv, Generator!TypeOK, Active
        <5> QED
          BY <5>1, ConnsFinite, FS_Subset
      <4> QED
        BY <2>1, <4>1, FS_CardinalityType DEF GInv
    <3>2. flowGen' <= FlowTot /\ flowGen' = flowFin' + Cardinality(Active')
      BY <2>1 DEF GInv, FlowsConserved
    <3>3. flowGen' \in Nat /\ flowFin' \in Nat /\ FlowTot \in Nat
      BY <3>1 DEF Generator!TypeOK, Generator!FlowGenAssumption
    <3> QED
      BY <3>1, <3>2, <3>3
  <2>5. (status = "exit")' = (flowFin' = FlowTot)
    BY <1>4, <2>4 DEF Generator!FinNotify
  <2>6. status = "run" /\ flowFin' = flowFin + 1 /\ flowGen' = flowGen
    BY <1>4 DEF Generator!FinNotify
  <2>7. Generator!Abstract!Finish(c)
    BY <2>2, <2>3, <2>5, <2>6 DEF Generator!Abstract!Finish, Active
  <2> QED
    BY <2>2, <2>7 DEF Generator!Abstract!Next
<1> QED
  BY <1>1, <1>2, <1>3, <1>4 DEF Generator!Event

\* Every event of the script is a step of Workload, or none to it.
LEMMA NextMaps ==
    ASSUME Generator!FlowGenAssumption, GInv, [Generator!Next]_(Generator!vars)
    PROVE  [Generator!Abstract!Next]_(Generator!Abstract!vars)
<1>1. CASE Generator!InitSchedule
  BY <1>1 DEF Generator!InitSchedule, Generator!Abstract!vars
<1>2. CASE \E g \in Groups : Generator!Schedule(g)
  BY <1>2, ScheduleMaps
<1>3. CASE \E c \in Generator!AllPairs : Generator!Event(c)
  BY <1>3, EventMaps
<1>4. CASE UNCHANGED Generator!vars
  BY <1>4 DEF Generator!vars, Generator!Abstract!vars
<1> QED
  BY <1>1, <1>2, <1>3, <1>4 DEF Generator!Next

LEMMA InitMaps == Generator!Init => Generator!Abstract!Init
BY DEF Generator!Init, Generator!Abstract!Init

-----------------------------------------------------------------------------
(* The incast experiment.  A round is told by the sends each sender has    *)
(* made and has still to make; that fin_pairs is the number of senders     *)
(* that are idle makes it a barrier, so long as the warm-up has finished   *)
(* in time.                                                                *)

\* The rounds begun, the warm-up included.
Round == CASE phase = "start"  -> 0
           [] phase = "warmup" -> 1
           [] phase = "run"    -> Iter - num_iter + 2
           [] OTHER            -> Iter + 1

\* The senders that have nothing to send or to have acknowledged.
Finished == {p \in Pairs : Incast!Idle(p)}

\* The script: one measured iteration at least is left while it runs.
Phases ==
    /\ phase = "start" => num_iter = 0 /\ fin_pairs = 0 /\ \A p \in Pairs : outstanding[p] = 0
    /\ phase = "warmup" => num_iter = 0
    /\ phase = "run" => num_iter >= 1 /\ fin_pairs < Incast!num_pairs
    /\ warmup_mode = 1 <=> phase = "warmup"
    /\ late => phase \in {"run", "exit"}

\* Each round gives each sender one send.
SendsCounted == \A p \in Pairs : sent[p] + queued[p] = Round

\* While the warm-up is in time nobody has more to do than the send of the
\* round, and the callbacks counted are of those who have done it.
Barrier ==
    ~late =>
        /\ \A p \in Pairs : queued[p] + outstanding[p] <= 1
        /\ phase # "start" => fin_pairs = Cardinality(Finished)
        /\ phase = "exit" => Finished = Pairs

BInv == Incast!TypeOK /\ Phases /\ SendsCounted /\ Barrier

-----------------------------------------------------------------------------
LEMMA FinishedFinite ==
    ASSUME Incast!IncastAssumption
    PROVE  /\ IsFiniteSet(Finished) /\ Cardinality(Finished) \in Nat
           /\ Incast!num_pairs \in Nat \ {0} /\ Cardinality(Finished) <= Incast!num_pairs
           /\ Cardinality(Finished) = Incast!num_pairs => Finished = Pairs
<1>1. Finished \subseteq Pairs /\ IsFiniteSet(Pairs)
  BY SameFinite DEF Finished
<1>2. Pairs # {}
  BY DEF Incast!IncastAssumption
<1>3. Incast!num_pairs \in Nat /\ Incast!num_pairs # 0
  BY <1>1, <1>2, FS_CardinalityType, FS_EmptySet, SameFinite
<1> QED
  BY <1>1, <1>3, FS_Subset, FS_CardinalityType, SameFinite

LEMMA InitBarrier ==
    ASSUME Incast!IncastAssumption
    PROVE  Incast!Init => BInv
<1> SUFFICES ASSUME Incast!Init PROVE BInv
  OBVIOUS
<1>1. Incast!TypeOK
  <2>1. num_iter \in 0 .. Iter /\ fin_pairs \in 0 .. Incast!num_pairs
    BY FinishedFinite DEF Incast!Init, Incast!IncastAssumption
  <2>2. queued \in [Pairs -> Nat] /\ outstanding \in [Pairs -> Nat] /\ sent \in [Pairs -> Nat]
    BY DEF Incast!Init
  <2> QED
    BY <2>1, <2>2 DEF Incast!Init, Incast!TypeOK
<1> QED
  BY <1>1 DEF Incast!Init, BInv, Phases, SendsCounted, Round, Barrier

\* A new round begins when everybody is idle, or late.
LEMMA RoundBegins ==
    ASSUME Incast!IncastAssumption, Incast!TypeOK, Incast!SendPerPair,
           outstanding' = [p \in Pairs |-> 0] \/ late',
           \A p \in Pairs : queued[p] = 0 \/ late'
    PROVE  /\ fin_pairs' = 0 /\ queued' \in [Pairs -> Nat]
           /\ \A p \in Pairs : queued'[p] = queued[p] + 1
           /\ ~late' => /\ \A p \in Pairs : queued'[p] + outstanding'[p] <= 1
                        /\ Cardinality(Finished') = 0
<1>1. fin_pairs' = 0 /\ queued' = [p \in Pairs |-> queued[p] + 1]
  BY DEF Incast!SendPerPair
<1>2. queued' \in [Pairs -> Nat] /\ \A p \in Pairs : queued'[p] = queued[p] + 1
  BY <1>1 DEF Incast!TypeOK
<1>3. Finished' = {}
  BY <1>2 DEF Finished, Incast!Idle, Incast!TypeOK
<1> QED
  BY <1>1, <1>2, <1>3, FS_EmptySet

LEMMA BarrierStep ==
    ASSUME Incast!IncastAssumption, BInv, [Incast!Next]_(Incast!vars)
    PROVE  BInv'
<1> USE DEF BInv
<1>i. Iter \in Nat \ {0}
  BY DEF Incast!IncastAssumption
<1>1. CASE Incast!Warmup
  <2>1. outstanding' = outstanding /\ \A p \in Pairs : outstanding[p] = 0 /\ queued[p] = 0
            /\ sent[p] = 0
    BY <1>1 DEF Incast!Warmup, Phases, SendsCounted, Round, Incast!TypeOK
  <2>2. outstanding' = [p \in Pairs |-> 0]
    BY <2>1 DEF Incast!TypeOK
  <2>3. /\ fin_pairs' = 0 /\ queued' \in [Pairs -> Nat]
        /\ \A p \in Pairs : queued'[p] = queued[p] + 1
        /\ ~late' => /\ \A p \in Pairs : queued'[p] + outstanding'[p] <= 1
                     /\ Cardinality(Finished') = 0
    BY <1>1, <2>1, <2>2, RoundBegins DEF Incast!Warmup
  <2>4. phase' = "warmup" /\ warmup_mode' = 1 /\ num_iter' = 0 /\ sent' = sent /\ late' = late /\ ~late
    BY <1>1 DEF Incast!Warmup, Phases
  <2>5. Incast!TypeOK'
    BY <1>i, <2>1, <2>3, <2>4, FinishedFinite DEF Incast!TypeOK
  <2>6. Phases'
    BY <2>4 DEF Phases
  <2>7. SendsCounted'
    BY <2>1, <2>3, <2>4 DEF SendsCounted, Round
  <2>8. Barrier'
    BY <2>3, <2>4 DEF Barrier
  <2> QED
    BY <2>5, <2>6, <2>7, <2>8
<1>2. CASE Incast!Schedule
  <2>1. late' \/ \A p \in Pairs : queued[p] = 0 /\ outstanding[p] = 0
    BY <1>2 DEF Incast!Schedule, Incast!Idle
  <2>2. outstanding' = [p \in Pairs |-> 0] \/ late'
    BY <1>2, <2>1 DEF Incast!Schedule, Incast!TypeOK
  <2>3. /\ fin_pairs' = 0 /\ queued' \in [Pairs -> Nat]
        /\ \A p \in Pairs : queued'[p] = queued[p] + 1
        /\ ~late' => /\ \A p \in Pairs : queued'[p] + outstanding'[p] <= 1
                     /\ Cardinality(Finished') = 0
    BY <1>2, <2>1, <2>2, RoundBegins DEF Incast!Schedule
  <2>4. /\ phase = "warmup" /\ phase' = "run" /\ warmup_mode' = 0 /\ num_iter' = Iter
        /\ sent' = sent /\ outstanding' = outstanding /\ late' \in BOOLEAN
    BY <1>2 DEF Incast!Schedule
  <2>5. Incast!TypeOK'
    BY <1>i, <2>3, <2>4, FinishedFinite DEF Incast!TypeOK
  <2>6. Phases'
    BY <1>i, <2>3, <2>4, FinishedFinite DEF Phases
  <2>7. SendsCounted'
    BY <1>i, <2>3, <2>4 DEF SendsCounted, Round, Incast!TypeOK
  <2>8. Barrier'
    BY <2>3, <2>4 DEF Barrier
  <2> QED
    BY <2>5, <2>6, <2>7, <2>8
<1>3. ASSUME NEW p \in Pairs, Incast!Send(p)
      PROVE  BInv'
  <2>1. /\ queued[p] > 0 /\ queued' = [queued EXCEPT ![p] = @ - 1]
        /\ outstanding' = [outstanding EXCEPT ![p] = @ + 1] /\ sent' = [sent EXCEPT ![p] = @ + 1]
        /\ UNCHANGED <<phase, warmup_mode, num_iter, fin_pairs, late>>
    BY <1>3 DEF Incast!Send
  <2>2. /\ queued'[p] = queued[p] - 1 /\ outstanding'[p] = outstanding[p] + 1 /\ sent'[p] = sent[p] + 1
        /\ \A q \in Pairs \ {p} : queued'[q] = queued[q] /\ outstanding'[q] = outstanding[q]
            /\ sent'[q] = sent[q]
    BY <2>1 DEF Incast!TypeOK
  <2>3. Finished' = Finished
    BY <2>1, <2>2 DEF Finished, Incast!Idle, Incast!TypeOK
  <2>4. Incast!TypeOK'
    BY <2>1, <2>2 DEF Incast!TypeOK
  <2>5. Phases'
    <3>1. phase # "start"
      BY <2>1 DEF SendsCounted, Round, Incast!TypeOK
    <3> QED
      BY <2>1, <3>1 DEF Phases
  <2>6. SendsCounted'
    BY <2>1, <2>2 DEF SendsCounted, Round, Incast!TypeOK
  <2>7. Barrier'
    BY <2>1, <2>2, <2>3 DEF Barrier, Incast!TypeOK
  <2> QED
    BY <2>4, <2>5, <2>6, <2>7
<1>4. ASSUME NEW p \in Pairs, Incast!DoneData(p)
      PROVE  BInv'
  <2>1. /\ phase # "exit" /\ outstanding[p] > 0 /\ outstanding' = [outstanding EXCEPT ![p] = 0]
        /\ UNCHANGED <<warmup_mode, sent, late>>
    BY <1>4 DEF Incast!DoneData
  <2>2. /\ outstanding'[p] = 0
        /\ \A q \in Pairs \ {p} : outstanding'[q] = outstanding[q]
        /\ outstanding' \in [Pairs -> Nat]
    BY <2>1 DEF Incast!TypeOK
  <2>3. phase \in {"warmup", "run"}
    BY <2>1 DEF Phases, Incast!TypeOK
  <2>4. ~late => /\ queued[p] = 0 /\ p \notin Finished /\ fin_pairs = Cardinality(Finished)
                 /\ Cardinality(Finished \union {p}) = Cardinality(Finished) + 1
    <3>1. p \notin Finished
      BY <2>1 DEF Finished, Incast!Idle
    <3>2. Cardinality(Finished \union {p}) = Cardinality(Finished) + 1
      BY <3>1, FinishedFinite, FS_AddElement
    <3>3. ~late => queued[p] + outstanding[p] <= 1 /\ fin_pairs = Cardinality(Finished)
      BY <2>3 DEF Barrier
    <3>4. queued[p] \in Nat /\ outstanding[p] \in Nat
      BY DEF Incast!TypeOK
    <3> QED
      BY <2>1, <3>1, <3>2, <3>3, <3>4
  <2>5. CASE UNCHANGED <<phase, num_iter, queued>> /\ fin_pairs' = fin_pairs + 1
             /\ (fin_pairs + 1 = Incast!num_pairs => phase = "warmup")
    <3>1. ~late => Finished' = Finished \union {p}
      BY <2>2, <2>4, <2>5 DEF Finished, Incast!Idle
    <3>2. Finished' \subseteq Pairs
      BY DEF Finished
    <3>3. Cardinality(Finished') <= Incast!num_pairs
      BY <3>2, FS_Subset, SameFinite
    <3>4. fin_pairs' <= Incast!num_pairs
      <4>1. CASE phase = "run"
        BY <4>1, <2>5, FinishedFinite DEF Phases, Incast!TypeOK
      <4>2. CASE phase = "warmup"
        BY <4>2, <2>4, <2>5, <3>1, <3>3 DEF Phases
      <4> QED
        BY <2>3, <4>1, <4>2
    <3>5. Incast!TypeOK'
      BY <2>1, <2>2, <2>5, <3>4, FinishedFinite DEF Incast!TypeOK
    <3>6. Phases'
      BY <2>1, <2>3, <2>5, <3>4, FinishedFinite DEF Phases, Incast!TypeOK
    <3>7. SendsCounted'
      BY <2>1, <2>5 DEF SendsCounted, Round
    <3>8. Barrier'
      <4>1. ~late => \A q \in Pairs : queued'[q] + outstanding'[q] <= 1
        BY <2>2, <2>4, <2>5 DEF Barrier
      <4>2. ~late => fin_pairs' = Cardinality(Finished')
        BY <2>4, <2>5, <3>1
      <4> QED
        BY <2>1, <2>3, <2>5, <4>1, <4>2 DEF Barrier
    <3> QED
      BY <3>5, <3>6, <3>7, <3>8
  <2>6. ASSUME fin_pairs + 1 = Incast!num_pairs, phase = "run", num_iter' = num_iter - 1
        PROVE  ~late => /\ \A q \in Pairs : queued[q] = 0 /\ outstanding'[q] = 0
    <3>1. ~late => Cardinality(Finished \union {p}) = Incast!num_pairs
      BY <2>4, <2>6
    <3>2. Finished \union {p} \subseteq Pairs
      BY DEF Finished
    <3>3. ~late => Finished \union {p} = Pairs
      BY <3>1, <3>2, FS_Subset, SameFinite
    <3> QED
      BY <2>2, <2>4, <3>3 DEF Finished, Incast!Idle
  <2>7. CASE fin_pairs + 1 = Incast!num_pairs /\ phase = "run" /\ num_iter' = num_iter - 1
             /\ num_iter - 1 > 0 /\ Incast!SendPerPair /\ phase' = phase
    <3>1. outstanding' = [q \in Pairs |-> 0] \/ late'
      BY <2>1, <2>2, <2>6, <2>7
    <3>2. /\ fin_pairs' = 0 /\ queued' \in [Pairs -> Nat]
          /\ \A q \in Pairs : queued'[q] = queued[q] + 1
          /\ ~late' => /\ \A q \in Pairs : queued'[q] + outstanding'[q] <= 1
                       /\ Cardinality(Finished') = 0
      BY <2>1, <2>6, <2>7, <3>1, RoundBegins
    <3>3. Incast!TypeOK'
      <4>1. num_iter' \in 0 .. Iter /\ fin_pairs' \in 0 .. Incast!num_pairs
        BY <1>i, <2>7, <3>2, FinishedFinite DEF Incast!TypeOK
      <4> QED
        BY <2>1, <2>2, <2>7, <3>2, <4>1 DEF Incast!TypeOK
    <3>4. Phases'
      BY <2>1, <2>7, <3>2, FinishedFinite DEF Phases, Incast!TypeOK
    <3>5. SendsCounted'
      BY <1>i, <2>1, <2>7, <3>2 DEF SendsCounted, Round, Incast!TypeOK
    <3>6. Barrier'
      BY <2>7, <3>2 DEF Barrier
    <3> QED
      BY <3>3, <3>4, <3>5, <3>6
  <2>8. CASE fin_pairs + 1 = Incast!num_pairs /\ phase = "run" /\ num_iter' = num_iter - 1
             /\ ~(num_iter - 1 > 0) /\ phase' = "exit" /\ fin_pairs' = fin_pairs + 1 /\ queued' = queued
    <3>1. num_iter = 1
      BY <2>8 DEF Phases, Incast!TypeOK
    <3>2. ~late => Finished' = Pairs
      BY <2>6, <2>8 DEF Finished, Incast!Idle
    <3>3. Incast!TypeOK'
      <4>1. num_iter' \in 0 .. Iter /\ fin_pairs' \in 0 .. Incast!num_pairs
        BY <1>i, <2>8, <3>1, FinishedFinite
      <4> QED
        BY <2>1, <2>2, <2>8, <4>1 DEF Incast!TypeOK
    <3>4. Phases'
      BY <2>1, <2>8 DEF Phases, Incast!TypeOK
    <3>5. SendsCounted'
      BY <1>i, <2>1, <2>8, <3>1 DEF SendsCounted, Round, Incast!TypeOK
    <3>6. Barrier'
      BY <2>1, <2>2, <2>6, <2>8, <3>2, SameFinite DEF Barrier
    <3> QED
      BY <3>3, <3>4, <3>5, <3>6
  <2> QED
    BY <1>4, <2>3, <2>5, <2>7, <2>8 DEF Incast!DoneData, Incast!FinNotify, Phases, Incast!TypeOK
<1>5. CASE UNCHANGED Incast!vars
  BY <1>5 DEF Incast!vars, Incast!TypeOK, Phases, SendsCounted, Round, Barrier, Finished,
     Incast!Idle
<1> QED
  BY <1>1, <1>2, <1>3, <1>4, <1>5 DEF Incast!Next

-----------------------------------------------------------------------------
\* The invariant says who may have sent what.
LEMMA BInvImpliesRoundsApart ==
    ASSUME Incast!IncastAssumption, BInv
    PROVE  Incast!RoundsApart
<1> USE DEF BInv
<1>1. Round <= Iter + 1
  BY DEF Round, Phases, Incast!TypeOK, Incast!IncastAssumption
<1>2. \A p \in Pairs : sent[p] + queued[p] <= Iter + 1
  BY <1>1 DEF SendsCounted
<1>3. phase = "exit" /\ ~late => \A p \in Pairs : sent[p] = Iter + 1 /\ outstanding[p] = 0
  BY DEF Barrier, Finished, Incast!Idle, SendsCounted, Round, Incast!TypeOK,
     Incast!IncastAssumption
<1>4. ~late => \A p, q \in Pairs : sent[p] <= sent[q] - outstanding[q] + 1
  <2> SUFFICES ASSUME ~late, NEW p \in Pairs, NEW q \in Pairs
               PROVE  sent[p] <= sent[q] - outstanding[q] + 1
    OBVIOUS
  <2>1. sent[p] + queued[p] = sent[q] + queued[q] /\ queued[q] + outstanding[q] <= 1
    BY DEF SendsCounted, Barrier
  <2> QED
    BY <2>1 DEF Incast!TypeOK
<1> QED
  BY <1>2, <1>3, <1>4 DEF Incast!RoundsApart, Incast!AllIterationsDone

-----------------------------------------------------------------------------
(* The scripts.                                                            *)

\* The invariants of the three, which the other scripts leave alone.
NInv == TInv /\ GInv /\ BInv

LEMMA Assumptions ==
    Tree!ShapesAssumption /\ Generator!FlowGenAssumption /\ Incast!IncastAssumption
BY Ns2Assumption DEF Ns2Assumption

LEMMA InitNInv == Init => NInv
<1> SUFFICES ASSUME Init PROVE NInv
  OBVIOUS
<1>1. TInv
  BY Assumptions, InitTInv DEF Init
<1>2. GInv
  BY Assumptions, InitGInv DEF Init
<1>3. BInv
  BY Assumptions, InitBarrier DEF Init
<1> QED
  BY <1>1, <1>2, <1>3 DEF NInv

\* A step of a script is a step of each module, or leaves it alone.
LEMMA StepsMap ==
    ASSUME [Next]_vars
    PROVE  /\ [Tree!Next]_(Tree!vars) /\ [Generator!Next]_(Generator!vars)
           /\ [Incast!Next]_(Incast!vars)
<1>0. UNCHANGED tree => UNCHANGED Tree!vars
  BY DEF tree, Tree!vars
<1>1. UNCHANGED generator => UNCHANGED Generator!vars
  BY DEF generator, Generator!vars
<1>2. UNCHANGED group => UNCHANGED Incast!vars
  BY DEF group, Incast!vars
<1>3. CASE Build
  BY <1>1, <1>2, <1>3 DEF Build
<1>4. CASE Generate
  BY <1>0, <1>2, <1>4 DEF Generate
<1>5. CASE Iterate
  BY <1>0, <1>1, <1>5 DEF Iterate
<1>6. CASE UNCHANGED vars
  BY <1>0, <1>1, <1>2, <1>6 DEF vars
<1> QED
  BY <1>3, <1>4, <1>5, <1>6 DEF Next

LEMMA NInvStep == NInv /\ [Next]_vars => NInv'
<1> SUFFICES ASSUME NInv, [Next]_vars PROVE NInv'
  OBVIOUS
<1>1. TInv'
  BY StepsMap, TInvStep DEF NInv
<1>2. GInv'
  BY StepsMap, Assumptions, NextGInv DEF NInv
<1>3. BInv'
  BY StepsMap, Assumptions, BarrierStep, SMTT(20) DEF NInv
<1> QED
  BY <1>1, <1>2, <1>3 DEF NInv

\* fattree.tcl:61-88 for every k and every ratio: the loops name only switches
\* there are, and build a fat-tree, when k is even and what topology_spt cuts off
\* the servers per ToR makes less than one server over all of them; otherwise they
\* come to a switch there is none of, or to a division by zero, and never to the
\* end with another topology.
THEOREM BuildsFatTree == Spec => []IsFatTree
<1>1. NInv => IsFatTree
  BY TreeIsFat DEF NInv, IsFatTree
<1> QED
  BY <1>1, InitNInv, NInvStep, PTL DEF Spec

\* Agent_Aggr_pair's book-keeping for every number of groups and flows, between
\* the servers of any fat-tree too (tcp-traffic-gen.tcl:246-335): nr_busy_pairs
\* is right although is_busy is set an event later, an idle pair is always
\* found where one is expected, and no two flows share a connection or an
\* identifier.
THEOREM ScriptsAccountBusy == Spec => []BusyAccounted
<1>1. NInv => BusyAccounted
  BY GInvImpliesBusyAccounted DEF NInv, BusyAccounted
<1> QED
  BY <1>1, InitNInv, NInvStep, PTL DEF Spec

\* The generator starts flow_tot flows, each on a connection that carries no
\* other, and finish is called exactly when the last of them has ended,
\* whatever the topology takes to be built.
THEOREM ScriptsImplementWorkload == Spec => ImplementsWorkload
<1>1. Init => Generator!Abstract!Init
  BY InitMaps DEF Init
<1>2. NInv /\ [Next]_vars => [Generator!Abstract!Next]_(Generator!Abstract!vars)
  BY StepsMap, Assumptions, NextMaps DEF NInv
<1> QED
  BY <1>1, <1>2, InitNInv, NInvStep, PTL
     DEF Spec, ImplementsWorkload, Generator!ImplementsWorkload, Generator!Abstract!Spec

\* Whatever the number of senders and of iterations: no sender begins a round
\* before all others have had the data of the one before acknowledged, and
\* the script exits after exactly the iterations asked for - if the warm-up
\* has ended when the first of them begins; no sender ever sends more
\* (incast.tcl:71-124).
THEOREM ScriptsKeepRoundsApart == Spec => []RoundsApart
<1>1. NInv => RoundsApart
  BY BInvImpliesRoundsApart, Assumptions DEF NInv, RoundsApart
<1> QED
  BY <1>1, InitNInv, NInvStep, PTL DEF Spec
=============================================================================
