--------------------------- MODULE PollServerProofs ---------------------------
(***************************************************************************)
(* Proofs about PollServer: its table and the open sockets agree, read     *)
(* never blocks it, and what a client gets back is what it has sent.       *)
(***************************************************************************)
EXTENDS PollServer, EchoNetProofs, FiniteSetTheorems

\* The slots from k on that the loop would read from.
Marked(k) == {j \in k .. maxi : client[j] # Free /\ revents[j]}

\* n of them were reported by poll and are readable as yet; and they come
\* first, for what is marked by chance accept has put behind them.
Awaited(k, n) ==
    \E F \in SUBSET Marked(k) :
        /\ Cardinality(F) = n
        /\ \A j \in F : Readable(client[j])
        /\ \A f \in F, j \in Marked(k) \ F : f < j

TableInv ==
    /\ {client[j] : j \in Used} = Open
    /\ \A j, k \in Used : client[j] = client[k] => j = k
    /\ \A j \in Used : j <= maxi
    /\ maxi < OpenMax

\* Until accept is done with it, a free slot below maxi is not marked.
RoundInv ==
    /\ pc = "accept" =>
        /\ nready >= 1 /\ i = 1 /\ backlog # <<>>
        /\ \A j \in Slots : j <= maxi /\ client[j] = Free => revents[j] = FALSE
        /\ \A j \in Marked(1) : Readable(client[j])
        /\ Cardinality(Marked(1)) = nready - 1
    /\ pc = "scan" => nready >= 1 /\ i >= 1 /\ Awaited(i, nready)
    /\ pc = "write" => nready >= 1 /\ i \in Used /\ Awaited(i + 1, nready - 1)

\* What the server has read from p and not written.
Kept == [p \in Peers |-> IF pc = "write" /\ client[i] = p THEN buf ELSE <<>>]

IInv == TypeOK /\ NetInv /\ TableInv /\ RoundInv /\ Carried(Kept)

-----------------------------------------------------------------------------
(* The loop over the table.                                                *)

LEMMA LeastIsLeast ==
    ASSUME NEW S \in SUBSET Nat, S # {}
    PROVE  Least(S) \in S /\ \A k \in S : Least(S) <= k
BY HasLeast, Zenon DEF Least

LEMMA SlotsAreNumbers ==
    ASSUME TypeOK, TableInv
    PROVE  /\ OpenMax \in Nat \ {0} /\ maxi \in Nat /\ i \in Nat
           /\ Slots \subseteq Nat \ {0} /\ Used \subseteq Slots
           /\ \A k \in Nat \ {0} : Marked(k) \subseteq Used /\ IsFiniteSet(Marked(k))
           /\ \A j \in Used : client[j] \in Open /\ client[j] \in Peers
<1>1. OpenMax \in Nat \ {0} /\ maxi \in Nat /\ i \in Nat /\ maxi < OpenMax
    BY PollServerAssumption DEF TypeOK, TableInv
<1>2. Slots \subseteq Nat \ {0} /\ Used \subseteq Slots
    BY <1>1 DEF Slots, Used
<1>3. ASSUME NEW k \in Nat \ {0} PROVE Marked(k) \subseteq Used /\ IsFiniteSet(Marked(k))
    <2>1. Marked(k) \subseteq Used
        BY <1>1, <1>3 DEF Marked, Used, Slots
    <2>2. IsFiniteSet(k .. maxi)
        BY <1>1, FS_Interval
    <2>3. Marked(k) \in SUBSET (k .. maxi)
        BY DEF Marked
    <2> QED BY <2>1, <2>2, <2>3, FS_Subset
<1>4. \A j \in Used : client[j] \in Open /\ client[j] \in Peers
    BY DEF TableInv, Open
<1> QED BY <1>1, <1>2, <1>3, <1>4

\* The slot the loop comes to was reported, and so are those still to come.
LEMMA FirstAwaited ==
    ASSUME TypeOK, TableInv, nready >= 1, i >= 1, Awaited(i, nready)
    PROVE  LET j == Least(ToRead) IN
           /\ ToRead # {} /\ j \in Used /\ j \in i .. maxi
           /\ Readable(client[j]) /\ Awaited(j + 1, nready - 1)
<1> DEFINE j == Least(ToRead)
<1>1. PICK F \in SUBSET Marked(i) :
          /\ Cardinality(F) = nready
          /\ \A f \in F : Readable(client[f])
          /\ \A f \in F, x \in Marked(i) \ F : f < x
    BY DEF Awaited
<1>2. i \in Nat \ {0} /\ nready \in Int /\ Marked(i) \subseteq Used /\ IsFiniteSet(Marked(i))
      /\ Used \subseteq Nat
    BY SlotsAreNumbers DEF TypeOK
<1>3. IsFiniteSet(F) /\ F # {}
    BY <1>1, <1>2, FS_Subset, FS_EmptySet
<1>4. ToRead = Marked(i)
    BY DEF ToRead, Marked
<1>5. j \in Marked(i) /\ \A k \in Marked(i) : j <= k
    BY <1>1, <1>2, <1>3, <1>4, LeastIsLeast
<1> HIDE DEF j
<1>6. j \in F
    <2>1. PICK f \in F : TRUE
        BY <1>3
    <2>2. f \in Nat /\ j \in Nat /\ j <= f
        BY <1>1, <1>2, <1>5, <2>1
    <2> QED BY <1>1, <1>5, <2>1, <2>2
<1>7. Cardinality(F \ {j}) = nready - 1
    BY <1>1, <1>3, <1>6, FS_RemoveElement
<1>8. F \ {j} \subseteq Marked(j + 1) /\ Marked(j + 1) \subseteq Marked(i) \ {j}
    <2>1. j \in Nat /\ i \in Nat /\ i <= j
        BY <1>2, <1>5 DEF Marked
    <2>2. ASSUME NEW f \in F \ {j} PROVE f \in Marked(j + 1)
        <3>1. f \in Marked(i) /\ f \in Nat /\ j <= f /\ f # j
            BY <1>1, <1>2, <1>5
        <3> QED BY <2>1, <3>1 DEF Marked
    <2>3. ASSUME NEW f \in Marked(j + 1) PROVE f \in Marked(i) \ {j}
        BY <2>1 DEF Marked
    <2> QED BY <2>2, <2>3
<1>9. \A f \in F \ {j}, x \in Marked(j + 1) \ (F \ {j}) : f < x
    BY <1>1, <1>8
<1>10. Awaited(j + 1, nready - 1)
    <2>1. F \ {j} \in SUBSET Marked(j + 1) /\ \A f \in F \ {j} : Readable(client[f])
        BY <1>1, <1>8
    <2> QED BY <1>7, <1>9, <2>1 DEF Awaited
<1>11. j \in i .. maxi
    BY <1>5 DEF Marked
<1> QED BY <1>1, <1>2, <1>3, <1>4, <1>5, <1>6, <1>10, <1>11 DEF j

LEMMA AwaitedStays ==
    ASSUME NEW k, NEW n, Awaited(k, n), maxi' = maxi, revents' = revents,
           \A x \in k .. maxi : client'[x] = client[x],
           \A x \in Marked(k) : Readable(client[x]) => Readable(client[x])'
    PROVE  Awaited(k, n)'
<1>1. Marked(k)' = Marked(k)
    BY DEF Marked
<1>2. PICK F \in SUBSET Marked(k) :
          /\ Cardinality(F) = n
          /\ \A f \in F : Readable(client[f])
          /\ \A f \in F, x \in Marked(k) \ F : f < x
    BY DEF Awaited
<1>3. \A f \in F : Readable(client[f])'
    BY <1>2
<1> QED BY <1>1, <1>2, <1>3 DEF Awaited

-----------------------------------------------------------------------------
(* The steps.                                                              *)

LEMMA KeptIsBytes ==
    ASSUME TypeOK
    PROVE  /\ Kept \in [Peers -> Seq(Nat)]
           /\ pc # "write" => Kept = [p \in Peers |-> <<>>]
<1>1. <<>> \in Seq(Nat) /\ buf \in Seq(Nat)
    BY EmptySeq DEF TypeOK
<1> QED BY <1>1 DEF Kept

LEMMA Initially ==
    ASSUME Init
    PROVE  IInv
<1>1. NetInv /\ Carried([p \in Peers |-> <<>>]) /\ Open = {}
    BY NetInitially DEF Init
<1>2. OpenMax \in Nat \ {0} /\ BufSize \in Nat \ {0}
    BY PollServerAssumption
<1>3. TypeOK
    <2>1. <<>> \in Seq(Nat) /\ Len(<<>>) = 0
        BY EmptySeq
    <2>2. buf \in Seq(Nat) /\ Len(buf) <= BufSize
        BY <1>2, <2>1 DEF Init
    <2>3. maxi \in 0 .. OpenMax /\ i \in 0 .. OpenMax
        BY <1>2 DEF Init
    <2> QED BY <1>1, <2>2, <2>3 DEF Init, TypeOK, NetInv
<1>4. Used = {}
    BY DEF Init, Used
<1>5. TableInv
    BY <1>1, <1>2, <1>4 DEF Init, TableInv
<1>6. Kept = [p \in Peers |-> <<>>]
    BY DEF Kept, Init
<1>7. RoundInv
    BY DEF RoundInv, Init
<1> QED BY <1>1, <1>3, <1>5, <1>6, <1>7 DEF IInv

LEMMA PeersHold ==
    ASSUME IInv, NEW p \in Peers, PeerStep(p), UNCHANGED server
    PROVE  IInv'
<1> USE DEF IInv
<1>1. PICK h : h = Kept
    OBVIOUS
<1>2. h \in [Peers -> Seq(Nat)] /\ Carried(h)
    BY <1>1, KeptIsBytes
<1>3. st[p] = "closed" => h[p] = <<>>
    <2>1. pc = "write" => i \in Used /\ client[i] \in Open
        BY SlotsAreNumbers DEF RoundInv
    <2> QED BY <1>1, <2>1 DEF Kept, Open
<1>4. NetInv' /\ Carried(h)' /\ Undisturbed
    BY <1>2, <1>3, PeerStepKeeps
<1>5. Kept' = h
    BY <1>1 DEF Kept, server
<1>6. TypeOK'
    BY <1>4 DEF TypeOK, NetInv, server
<1>7. TableInv'
    BY <1>4 DEF TableInv, Undisturbed, server, Used
<1>8. \A x \in Used : Readable(client[x]) => Readable(client[x])'
    BY <1>4, SlotsAreNumbers DEF Undisturbed, server
<1>9. \A k \in Nat \ {0} : Marked(k) \subseteq Used /\ Marked(k)' = Marked(k)
    BY SlotsAreNumbers DEF Marked, server
<1>10. ASSUME NEW k \in Nat \ {0}, NEW n, Awaited(k, n) PROVE Awaited(k, n)'
    BY <1>8, <1>9, <1>10, AwaitedStays DEF server
<1>11. RoundInv'
    <2>1. ASSUME pc' = "accept"
          PROVE  /\ nready' >= 1 /\ i' = 1 /\ backlog' # <<>>
                 /\ \A j \in Slots : j <= maxi' /\ client'[j] = Free => revents'[j] = FALSE
                 /\ \A j \in Marked(1)' : Readable(client[j])'
                 /\ Cardinality(Marked(1)') = nready' - 1
        BY <1>4, <1>8, <1>9, <2>1 DEF RoundInv, Undisturbed, server
    <2>2. ASSUME pc' = "scan"
          PROVE  nready' >= 1 /\ i' >= 1 /\ Awaited(i, nready)'
        <3>1. PICK k, n : k = i /\ n = nready
            OBVIOUS
        <3>2. k \in Nat \ {0} /\ Awaited(k, n)
            BY <2>2, <3>1, SlotsAreNumbers DEF RoundInv, server
        <3>3. Awaited(k, n)' /\ i' = k /\ nready' = n
            BY <1>10, <3>1, <3>2 DEF server
        <3>4. Awaited(i, nready)'
            BY <3>3 DEF Awaited, Marked
        <3> QED BY <2>2, <3>4 DEF RoundInv, server
    <2>3. ASSUME pc' = "write"
          PROVE  nready' >= 1 /\ i' \in Used' /\ Awaited(i + 1, nready - 1)'
        <3>1. PICK k, n : k = i + 1 /\ n = nready - 1
            OBVIOUS
        <3>2. k \in Nat \ {0} /\ Awaited(k, n)
            BY <2>3, <3>1, SlotsAreNumbers DEF RoundInv, server
        <3>3. Awaited(k, n)' /\ i' + 1 = k /\ nready' - 1 = n
            BY <1>10, <3>1, <3>2 DEF server
        <3>4. Awaited(i + 1, nready - 1)'
            BY <3>3 DEF Awaited, Marked
        <3> QED BY <2>3, <3>4 DEF RoundInv, server, Used
    <2> QED BY <2>1, <2>2, <2>3 DEF RoundInv
<1> QED BY <1>4, <1>5, <1>6, <1>7, <1>11

LEMMA PollHolds == ASSUME IInv, Poll PROVE IInv'
<1> USE DEF IInv
<1> DEFINE R == {j \in 0 .. maxi : Reported(j)}
<1>1. /\ OpenMax \in Nat \ {0} /\ maxi \in Nat /\ maxi < OpenMax /\ maxi \in 0 .. OpenMax
      /\ Slots \subseteq Nat \ {0} /\ Used \subseteq Slots
    BY SlotsAreNumbers DEF TableInv, TypeOK
<1>2. /\ pc = "poll" /\ R # {} /\ nready' = Cardinality(R) /\ i' = 1
      /\ revents' = [j \in 0 .. OpenMax - 1 |-> IF j <= maxi THEN j \in R ELSE revents[j]]
      /\ pc' = IF 0 \in R THEN "accept" ELSE "scan"
      /\ UNCHANGED <<net, client, maxi, buf>>
    BY DEF Poll
<1> HIDE DEF R
<1>3. R \subseteq 0 .. maxi /\ IsFiniteSet(R) /\ nready' \in Nat /\ nready' >= 1
    <2>1. R \in SUBSET (0 .. maxi) /\ IsFiniteSet(0 .. maxi)
        BY <1>1, FS_Interval DEF R
    <2>2. IsFiniteSet(R)
        BY <2>1, FS_Subset
    <2>3. Cardinality(R) \in Nat /\ Cardinality(R) # 0
        BY <1>2, <2>2, FS_CardinalityType, FS_EmptySet
    <2> QED BY <1>2, <2>1, <2>2, <2>3
<1>4. PICK h : h = Kept
    OBVIOUS
<1>5. NetInv' /\ Carried(h)' /\ Open' = Open /\ backlog' = backlog
      /\ \A q \in Peers : Readable(q)' = Readable(q)
    BY <1>2, <1>4, NetStays
<1>6. Kept' = h
    BY <1>2, <1>4 DEF Kept
<1>7. revents' \in [0 .. OpenMax - 1 -> BOOLEAN]
    <2>1. revents \in [0 .. OpenMax - 1 -> BOOLEAN]
        BY DEF TypeOK
    <2>2. \A j \in 0 .. OpenMax - 1 :
              (IF j <= maxi THEN j \in R ELSE revents[j]) \in BOOLEAN
        <3> TAKE j \in 0 .. OpenMax - 1
        <3> DEFINE b == j \in R
        <3>1. b \in BOOLEAN /\ revents[j] \in BOOLEAN
            BY <2>1
        <3> HIDE DEF b
        <3>2. (IF j <= maxi THEN b ELSE revents[j]) \in BOOLEAN
            BY <3>1
        <3> QED BY <3>2 DEF b
    <2> QED BY <1>2, <2>2, Zenon
<1>8. TypeOK'
    <2>1. i' \in 0 .. OpenMax
        BY <1>1, <1>2
    <2>2. pc' \in {"poll", "accept", "scan", "write", "exited", "killed"}
        BY <1>2
    <2> QED BY <1>2, <1>3, <1>5, <1>7, <2>1, <2>2 DEF TypeOK, NetInv
<1>9. TableInv'
    BY <1>2, <1>5 DEF TableInv, Used
<1>10. Marked(1)' = R \ {0}
    <2>1. ASSUME NEW j \in 1 .. maxi
          PROVE  (j \in R) <=> client'[j] # Free /\ revents'[j]
        <3>1. j \in 0 .. maxi /\ j # 0 /\ j \in 0 .. OpenMax - 1 /\ j <= maxi
            BY <1>1, <2>1
        <3>2. revents'[j] = (j \in R)
            BY <1>2, <3>1
        <3>3. j \in R => client[j] # Free
            BY <3>1 DEF R, Reported
        <3> QED BY <1>2, <3>2, <3>3
    <2>2. \A j \in R \ {0} : j \in 1 .. maxi
        BY <1>1, <1>3
    <2>3. maxi' = maxi
        BY <1>2
    <2> QED BY <2>1, <2>2, <2>3 DEF Marked
<1>11. \A j \in R \ {0} : Readable(client[j])'
    <2> TAKE j \in R \ {0}
    <2>1. client[j] # Free /\ Readable(client[j]) /\ j \in Slots
        BY <1>1, <1>3 DEF R, Reported, Slots
    <2>2. client[j] \in Peers
        BY <2>1, SlotsAreNumbers DEF Used
    <2> QED BY <1>2, <1>5, <2>1, <2>2
<1>12. ASSUME pc' = "accept"
       PROVE  /\ i' = 1 /\ backlog' # <<>>
              /\ \A j \in Slots : j <= maxi' /\ client'[j] = Free => revents'[j] = FALSE
              /\ Cardinality(Marked(1)') = nready' - 1
    <2>1. 0 \in R
        BY <1>2, <1>12
    <2>2. backlog # <<>>
        BY <2>1 DEF R, Reported
    <2>3. Cardinality(R \ {0}) = nready' - 1
        BY <1>2, <1>3, <2>1, FS_RemoveElement
    <2>4. ASSUME NEW j \in Slots, j <= maxi', client'[j] = Free PROVE revents'[j] = FALSE
        <3>1. j \in 0 .. OpenMax - 1 /\ j <= maxi /\ j # 0
            BY <1>1, <1>2, <2>4 DEF Slots
        <3>2. revents'[j] = (j \in R)
            BY <1>2, <3>1
        <3>3. ~(j \in R)
            BY <1>2, <2>4, <3>1 DEF R, Reported
        <3>4. (j \in R) = FALSE
            BY <3>3
        <3> QED BY <3>2, <3>4, Zenon
    <2> QED BY <1>2, <1>5, <1>10, <2>2, <2>3, <2>4
<1>13. ASSUME pc' = "scan" PROVE Awaited(i, nready)'
    <2>1. ~(0 \in R)
        BY <1>2, <1>13
    <2>2. Marked(1)' = R
        BY <1>10, <2>1
    <2>3. \A j \in R : Readable(client[j])'
        BY <1>11, <2>1
    <2>4. Marked(i)' = R
        BY <1>2, <2>2 DEF Marked
    <2> QED BY <1>2, <2>3, <2>4 DEF Awaited
<1>14. RoundInv'
    <2>1. pc' \in {"accept", "scan"}
        BY <1>2
    <2>2. \A j \in Marked(1)' : Readable(client[j])'
        BY <1>10, <1>11
    <2>3. CASE pc' = "accept"
        BY <1>3, <1>12, <2>2, <2>3 DEF RoundInv
    <2>4. CASE pc' = "scan"
        BY <1>2, <1>3, <1>13, <2>4 DEF RoundInv
    <2> QED BY <2>1, <2>3, <2>4
<1> QED BY <1>5, <1>6, <1>8, <1>9, <1>14

\* There is a slot for whoever accept lets in, since a slot is a descriptor.
LEMMA SlotIsFree ==
    ASSUME TypeOK, TableInv, Cardinality(Open) + BaseFds < OpenMax
    PROVE  FreeSlot \in Slots \ Used
<1>1. /\ OpenMax \in Nat \ {0} /\ BaseFds \in Nat /\ BaseFds >= 1
      /\ Slots \subseteq Nat \ {0} /\ Used \subseteq Slots
    BY SlotsAreNumbers, PollServerAssumption
<1>2. Used # Slots
    <2> SUFFICES ASSUME Used = Slots PROVE FALSE
        OBVIOUS
    <2>1. client \in Injection(Slots, Open)
        <3>1. \A j \in Slots : client[j] \in Open
            BY SlotsAreNumbers
        <3>2. client \in [Slots -> Open]
            BY <3>1 DEF TypeOK
        <3> QED BY <3>2 DEF TableInv, Injection, IsInjective
    <2>2. IsFiniteSet(Open) /\ Cardinality(Open) \in Nat
        <3>1. IsFiniteSet(Peers) /\ Open \in SUBSET Peers
            BY EchoNetAssumption DEF Open
        <3> QED BY <3>1, FS_Subset, FS_CardinalityType
    <2>3. Cardinality(Slots) <= Cardinality(Open)
        BY <2>1, <2>2, FS_Injection
    <2>4. Cardinality(Slots) = OpenMax - 1
        BY <1>1, FS_Interval DEF Slots
    <2> QED BY <1>1, <2>2, <2>3, <2>4
<1>3. Slots \ Used \in SUBSET Nat /\ Slots \ Used # {}
    BY <1>1, <1>2
<1> QED BY <1>2, <1>3, LeastIsLeast DEF FreeSlot

LEMMA AcceptHolds == ASSUME IInv, AcceptClient PROVE IInv'
<1> USE DEF IInv
<1> DEFINE p == Head(backlog)
           s == FreeSlot
<1>1. s \in Slots \ Used
    BY SlotIsFree DEF AcceptClient
<1> HIDE DEF s
<1>2. /\ OpenMax \in Nat \ {0} /\ maxi \in Nat /\ maxi < OpenMax /\ nready \in Int
      /\ Slots \subseteq Nat \ {0} /\ Used \subseteq Slots /\ i \in 0 .. OpenMax
    BY SlotsAreNumbers DEF TableInv, TypeOK
<1>3. s \in Nat \ {0} /\ s < OpenMax /\ client[s] = Free
    BY <1>1, <1>2 DEF Slots, Used
<1>4. /\ pc = "accept" /\ Accept(p) /\ client' = [client EXCEPT ![s] = p]
      /\ maxi' = (IF s > maxi THEN s ELSE maxi)
      /\ nready' = nready - 1 /\ pc' = (IF nready = 1 THEN "poll" ELSE "scan")
      /\ UNCHANGED <<revents, i, buf>>
    BY <1>3 DEF AcceptClient, s
<1>5. PICK h, q : h = Kept /\ q = p
    OBVIOUS
<1>6. h = [x \in Peers |-> <<>>] /\ h \in [Peers -> Seq(Nat)] /\ Carried(h)
    BY <1>4, <1>5, KeptIsBytes
<1>7. /\ NetInv' /\ Carried(h)' /\ q \in Peers /\ q \notin Open /\ Open' = Open \union {q}
      /\ \A x \in Peers : Readable(x)' = Readable(x)
    BY <1>4, <1>5, <1>6, AcceptKeeps
<1> HIDE DEF p
<1>8. /\ client'[s] = q /\ \A j \in Slots \ {s} : client'[j] = client[j]
      /\ client' \in [Slots -> Peers \union {Free}]
    BY <1>1, <1>4, <1>5, <1>7 DEF TypeOK
<1>9. maxi' \in 0 .. OpenMax /\ maxi' < OpenMax /\ maxi <= maxi' /\ s <= maxi'
    BY <1>2, <1>3, <1>4
<1>10. TypeOK'
    <2>1. pc' \in {"poll", "accept", "scan", "write", "exited", "killed"}
        BY <1>4
    <2>2. nready' \in Int
        BY <1>2, <1>4
    <2>3. NetTypeOK'
        BY <1>7 DEF NetInv
    <2> QED BY <1>4, <1>8, <1>9, <2>1, <2>2, <2>3 DEF TypeOK
<1>11. Used' = Used \union {s}
    <2>1. q # Free
        BY <1>7, PollServerAssumption
    <2> QED BY <1>1, <1>8, <2>1 DEF Used
<1>12. TableInv'
    <2>1. {client'[j] : j \in Used'} = Open'
        <3>1. {client'[j] : j \in Used'} = {client[j] : j \in Used} \union {q}
            BY <1>1, <1>2, <1>8, <1>11
        <3> QED BY <1>7, <3>1 DEF TableInv
    <2>2. \A j, k \in Used' : client'[j] = client'[k] => j = k
        <3>1. \A j \in Used : client'[j] = client[j] /\ client[j] # q
            BY <1>1, <1>2, <1>7, <1>8, SlotsAreNumbers
        <3> QED BY <1>8, <1>11, <3>1 DEF TableInv
    <2>3. \A j \in Used' : j <= maxi'
        <3> TAKE j \in Used'
        <3>1. CASE j = s
            BY <1>9, <3>1
        <3>2. CASE j \in Used
            <4>1. j \in Nat /\ j <= maxi
                BY <1>2, <3>2 DEF TableInv
            <4> QED BY <1>2, <1>9, <4>1
        <3> QED BY <1>11, <3>1, <3>2
    <2> QED BY <1>9, <2>1, <2>2, <2>3 DEF TableInv
<1>13. Kept' = h
    <2>1. pc' # "write"
        BY <1>4
    <2> QED BY <1>6, <2>1 DEF Kept
<1>14. ASSUME pc' = "scan" PROVE nready' >= 1 /\ i' >= 1 /\ Awaited(i, nready)'
    <2>1. /\ nready >= 1 /\ i = 1
          /\ \A j \in Slots : j <= maxi /\ client[j] = Free => revents[j] = FALSE
          /\ \A j \in Marked(1) : Readable(client[j])
          /\ Cardinality(Marked(1)) = nready - 1
        BY <1>4 DEF RoundInv
    <2>2. nready # 1 /\ nready' >= 1
        BY <1>2, <1>4, <1>14, <2>1
    <2>3. PICK F : F = Marked(1)
        OBVIOUS
    <2>4. F \subseteq Used /\ \A j \in F : client[j] \in Peers /\ client'[j] = client[j]
        <3>1. F \subseteq Used
            BY <2>3, SlotsAreNumbers
        <3>2. \A j \in F : client[j] \in Peers /\ j \in Slots \ {s}
            BY <1>1, <1>2, <3>1, SlotsAreNumbers
        <3> QED BY <1>8, <3>1, <3>2
    <2>5. F \subseteq Marked(1)'
        <3>1. \A j \in F : j \in 1 .. maxi' /\ client'[j] # Free /\ revents'[j]
            BY <1>2, <1>4, <1>9, <2>3, <2>4 DEF Marked
        <3> QED BY <3>1 DEF Marked
    <2>6. ASSUME NEW j \in Marked(1)' \ F PROVE j = s /\ s > maxi
        <3>1. j \in 1 .. maxi' /\ client'[j] # Free /\ revents[j] /\ j \in Slots
            BY <1>2, <1>4, <1>9 DEF Marked, Slots
        <3>2. j = s
            <4> SUFFICES ASSUME j # s PROVE FALSE
                OBVIOUS
            <4>1. client[j] # Free /\ j \in Used
                BY <1>8, <3>1 DEF Used
            <4>2. j <= maxi
                BY <4>1 DEF TableInv
            <4>3. j \in 1 .. maxi
                BY <1>2, <3>1, <4>2
            <4> QED BY <2>3, <3>1, <4>1, <4>3 DEF Marked
        <3>3. ~(s <= maxi)
            BY <1>1, <1>3, <2>1, <3>1, <3>2
        <3> QED BY <1>2, <1>3, <3>2, <3>3
    <2>7. \A f \in F, j \in Marked(1)' \ F : f < j
        <3> TAKE f \in F, j \in Marked(1)' \ F
        <3>1. f \in Nat /\ f <= maxi
            BY <1>2, <2>4 DEF TableInv
        <3> QED BY <1>2, <1>3, <2>6, <3>1
    <2>8. \A j \in F : Readable(client[j])'
        BY <1>7, <2>1, <2>3, <2>4
    <2>9. i' = 1 /\ Cardinality(F) = nready'
        BY <1>4, <2>1, <2>3
    <2>10. Marked(i)' = Marked(1)'
        BY <2>9 DEF Marked
    <2>11. Awaited(i, nready)'
        BY <2>5, <2>7, <2>8, <2>9, <2>10 DEF Awaited
    <2> QED BY <2>2, <2>9, <2>11
<1>15. RoundInv'
    <2>1. pc' = "poll" \/ pc' = "scan"
        BY <1>4
    <2> QED BY <1>14, <2>1 DEF RoundInv
<1> QED BY <1>7, <1>10, <1>12, <1>13, <1>15

\* The loop goes on behind slot k - 1, or starts over.
LEMMA RoundGoesOn ==
    ASSUME NEW k \in Nat \ {0}, NEW n \in Int, i' = k, nready' = n,
           pc' \in {"poll", "scan"}, pc' = "scan" => n >= 1, Awaited(k, n)'
    PROVE  RoundInv'
<1>1. Awaited(i, nready)'
    BY DEF Awaited, Marked
<1> QED BY <1>1 DEF RoundInv

LEMMA ReadDataHolds == ASSUME IInv, ReadData PROVE IInv'
<1> USE DEF IInv
<1>1. PICK j, q, n, h, t :
          /\ j = Least(ToRead) /\ q = client[j] /\ n = nready - 1 /\ h = Kept
          /\ t = Taken(inq[q], Low(BufSize, Len(inq[q])))
    OBVIOUS
<1>2. nready >= 1 /\ i >= 1 /\ Awaited(i, nready) /\ nready \in Int
    BY DEF ReadData, RoundInv, TypeOK
<1>3. j \in Used /\ j \in i .. maxi /\ Readable(q) /\ Awaited(j + 1, n)
    BY <1>1, <1>2, FirstAwaited
<1>4. /\ OpenMax \in Nat \ {0} /\ maxi \in Nat /\ maxi < OpenMax /\ i \in Nat
      /\ Slots \subseteq Nat \ {0} /\ Used \subseteq Slots
      /\ q \in Open /\ q \in Peers /\ BufSize \in Nat \ {0}
    BY <1>1, <1>3, SlotsAreNumbers, PollServerAssumption DEF TableInv
<1>5. /\ pc = "scan" /\ Read(q, BufSize) /\ buf' = t /\ i' = j /\ pc' = "write"
      /\ UNCHANGED <<client, revents, maxi, nready>>
    BY <1>1 DEF ReadData, Taken
<1>6. h = [x \in Peers |-> <<>>] /\ h \in [Peers -> Seq(Nat)] /\ Carried(h)
    BY <1>1, <1>5, KeptIsBytes
<1>7. /\ NetInv' /\ t \in Seq(Nat) /\ Len(t) \in 1 .. BufSize
      /\ Carried([h EXCEPT ![q] = t])' /\ Open' = Open
      /\ \A x \in Peers \ {q} : Readable(x)' = Readable(x)
    <2>1. h[q] = <<>>
        BY <1>4, <1>6
    <2> QED BY <1>1, <1>4, <1>5, <1>6, <2>1, ReadKeeps
<1>8. TypeOK'
    <2>1. i' \in 0 .. OpenMax
        BY <1>3, <1>4, <1>5
    <2>2. buf' \in Seq(Nat) /\ Len(buf') <= BufSize
        BY <1>4, <1>5, <1>7
    <2> QED BY <1>5, <1>7, <2>1, <2>2 DEF TypeOK, NetInv
<1>9. TableInv'
    BY <1>5, <1>7 DEF TableInv, Used
<1>10. Kept' = [h EXCEPT ![q] = t]
    BY <1>1, <1>5, <1>6 DEF Kept
<1>11. RoundInv'
    <2>1. \A x \in Marked(j + 1) : client[x] \in Peers \ {q}
        <3> TAKE x \in Marked(j + 1)
        <3>1. x \in Used /\ x # j
            <4>1. j \in Nat /\ j + 1 \in Nat \ {0}
                BY <1>3, <1>4
            <4>2. x \in Used
                BY <4>1, SlotsAreNumbers
            <4>3. x \in j + 1 .. maxi
                BY DEF Marked
            <4> QED BY <1>4, <4>1, <4>2, <4>3
        <3> QED BY <1>1, <1>3, <3>1, SlotsAreNumbers DEF TableInv
    <2>2. \A x \in Marked(j + 1) : Readable(client[x]) => Readable(client[x])'
        BY <1>5, <1>7, <2>1
    <2>3. PICK k : k = j + 1
        OBVIOUS
    <2>4. Awaited(k, n)'
        BY <1>3, <1>5, <2>2, <2>3, AwaitedStays
    <2>5. i' + 1 = k /\ nready' - 1 = n
        BY <1>1, <1>5, <2>3
    <2>6. Awaited(i + 1, nready - 1)'
        BY <2>4, <2>5 DEF Awaited, Marked
    <2>7. i' \in Used'
        BY <1>3, <1>5 DEF Used
    <2> QED BY <1>2, <1>5, <2>6, <2>7 DEF RoundInv
<1> QED BY <1>7, <1>8, <1>9, <1>10, <1>11

LEMMA ReadEndHolds == ASSUME IInv, ReadEnd PROVE IInv'
<1> USE DEF IInv
<1>1. PICK j, q, n, h :
          j = Least(ToRead) /\ q = client[j] /\ n = nready - 1 /\ h = Kept
    OBVIOUS
<1>2. nready >= 1 /\ i >= 1 /\ Awaited(i, nready) /\ nready \in Int
    BY DEF ReadEnd, RoundInv, TypeOK
<1>3. j \in Used /\ j \in i .. maxi /\ Awaited(j + 1, n)
    BY <1>1, <1>2, FirstAwaited
<1>4. /\ OpenMax \in Nat \ {0} /\ maxi \in Nat /\ maxi < OpenMax /\ i \in Nat
      /\ Slots \subseteq Nat \ {0} /\ Used \subseteq Slots /\ q \in Open /\ q \in Peers
    BY <1>1, <1>3, SlotsAreNumbers DEF TableInv
<1>5. /\ pc = "scan" /\ Close(q) /\ client' = [client EXCEPT ![j] = Free] /\ i' = j + 1
      /\ nready' = n /\ pc' = (IF nready <= 1 THEN "poll" ELSE "scan")
      /\ UNCHANGED <<revents, maxi, buf>>
    BY <1>1 DEF ReadEnd, Done
<1>6. h = [x \in Peers |-> <<>>] /\ h \in [Peers -> Seq(Nat)] /\ Carried(h)
    BY <1>1, <1>5, KeptIsBytes
<1>7. /\ NetInv' /\ Carried(h)' /\ Open' = Open \ {q}
      /\ \A x \in Peers : Readable(x)' = Readable(x)
    BY <1>4, <1>5, <1>6, CloseKeeps
<1>8. /\ client'[j] = Free /\ \A x \in Slots \ {j} : client'[x] = client[x]
      /\ client' \in [Slots -> Peers \union {Free}]
    BY <1>3, <1>4, <1>5 DEF TypeOK
<1>9. j + 1 \in Nat \ {0} /\ j + 1 \in 0 .. OpenMax /\ n \in Int /\ j \in Nat
    BY <1>1, <1>2, <1>3, <1>4
<1>10. pc' \in {"poll", "scan"} /\ (pc' = "scan" => n >= 1)
    BY <1>1, <1>2, <1>5
<1>11. TypeOK'
    BY <1>5, <1>7, <1>8, <1>9, <1>10 DEF TypeOK, NetInv
<1>12. Used' = Used \ {j}
    BY <1>8 DEF Used
<1>13. TableInv'
    <2>1. \A x \in Used' : client'[x] = client[x] /\ client[x] # q
        BY <1>1, <1>3, <1>4, <1>8, <1>12 DEF TableInv
    <2>2. {client'[x] : x \in Used'} = {client[x] : x \in Used} \ {q}
        BY <1>1, <1>3, <1>12, <2>1
    <2> QED BY <1>5, <1>7, <1>12, <2>1, <2>2 DEF TableInv
<1>14. Kept' = h
    BY <1>6, <1>10 DEF Kept
<1>15. RoundInv'
    <2>1. PICK k : k = j + 1
        OBVIOUS
    <2>2. \A x \in k .. maxi : client'[x] = client[x]
        <3> TAKE x \in k .. maxi
        <3>1. x \in Slots \ {j}
            BY <1>4, <1>9, <2>1 DEF Slots
        <3> QED BY <1>8, <3>1
    <2>3. \A x \in Marked(k) : client'[x] = client[x] /\ client[x] \in Peers
        BY <1>9, <2>1, <2>2, SlotsAreNumbers DEF Marked
    <2>4. \A x \in Marked(k) : Readable(client[x]) => Readable(client[x])'
        BY <1>7, <2>3
    <2>5. Awaited(k, n)'
        BY <1>3, <1>5, <2>1, <2>2, <2>4, AwaitedStays
    <2> QED BY <1>5, <1>9, <1>10, <2>1, <2>5, RoundGoesOn
<1> QED BY <1>7, <1>11, <1>13, <1>14, <1>15

\* What the last write of a round of writen does to the loop.
LEMMA WrittenHolds ==
    ASSUME IInv, pc = "write", NEW h2,
           h2 = [Kept EXCEPT ![client[i]] = <<>>], NetInv', Carried(h2)', Open' = Open,
           \A x \in Peers : Readable(x)' = Readable(x),
           buf' = <<>>, i' = i + 1, Done, UNCHANGED <<client, revents, maxi>>
    PROVE  IInv'
<1> USE DEF IInv
<1>1. PICK k, n : k = i + 1 /\ n = nready - 1
    OBVIOUS
<1>2. nready >= 1 /\ i \in Used /\ Awaited(k, n) /\ nready \in Int
    BY <1>1 DEF RoundInv, TypeOK
<1>3. /\ OpenMax \in Nat \ {0} /\ maxi \in Nat /\ maxi < OpenMax /\ i \in Nat
      /\ Slots \subseteq Nat \ {0} /\ Used \subseteq Slots
      /\ \A j \in Used : client[j] \in Peers
    BY SlotsAreNumbers DEF TableInv
<1>4. /\ k \in Nat \ {0} /\ n \in Int /\ i' = k /\ nready' = n
      /\ k \in 0 .. OpenMax
      /\ pc' \in {"poll", "scan"} /\ (pc' = "scan" => n >= 1)
    BY <1>1, <1>2, <1>3 DEF Done, Slots
<1>5. TypeOK'
    <2>1. <<>> \in Seq(Nat) /\ Len(<<>>) <= BufSize
        BY EmptySeq, PollServerAssumption
    <2> QED BY <1>4, <2>1 DEF TypeOK, NetInv
<1>6. TableInv'
    BY DEF TableInv, Used
<1>7. Kept' = h2
    <2>1. client[i] \in Peers
        BY <1>2, <1>3
    <2> QED BY <1>4, <2>1 DEF Kept
<1>8. \A x \in Marked(k) : Readable(client[x]) => Readable(client[x])'
    <2>1. \A x \in Marked(k) : client[x] \in Peers
        BY <1>4, SlotsAreNumbers
    <2> QED BY <2>1
<1>9. Awaited(k, n)'
    BY <1>2, <1>8, AwaitedStays
<1>10. RoundInv'
    BY <1>4, <1>9, RoundGoesOn
<1> QED BY <1>5, <1>6, <1>7, <1>10

LEMMA WriteSomeHolds == ASSUME IInv, WriteSome PROVE IInv'
<1> USE DEF IInv
<1>1. PICK h, q : h = Kept /\ q = client[i]
    OBVIOUS
<1>2. nready >= 1 /\ i \in Used /\ Awaited(i + 1, nready - 1) /\ pc = "write"
    BY DEF WriteSome, RoundInv
<1>3. q \in Open /\ q \in Peers /\ i \in Nat
    BY <1>1, <1>2, SlotsAreNumbers
<1>4. h \in [Peers -> Seq(Nat)] /\ h[q] = buf /\ Carried(h) /\ buf \in Seq(Nat)
      /\ Len(buf) <= BufSize /\ Len(buf) \in Nat
    BY <1>1, <1>2, <1>3, KeptIsBytes, LenProperties DEF Kept, TypeOK
<1>5. PICK m \in 1 .. Len(buf) :
          Write(client[i], SubSeq(buf, 1, m)) /\ buf' = SubSeq(buf, m + 1, Len(buf))
    BY DEF WriteSome
<1>6. PICK t, s : t = Taken(buf, m) /\ s = Rest(buf, m)
    OBVIOUS
<1>7. t \in Seq(Nat) /\ s \in Seq(Nat) /\ Len(s) = Len(buf) - m /\ t \o s = buf
    BY <1>4, <1>6, TakenAndRest
<1>8. Write(q, t) /\ buf' = s
    BY <1>1, <1>5, <1>6 DEF Taken, Rest
<1>9. /\ NetInv' /\ Carried([h EXCEPT ![q] = s])' /\ Open' = Open
      /\ \A x \in Peers : Readable(x)' = Readable(x)
    <2>1. h[q] = t \o s
        BY <1>4, <1>7
    <2>2. t \in Seq(Nat) /\ s \in Seq(Nat)
        BY <1>7
    <2> QED BY <1>3, <1>4, <1>8, <2>1, <2>2, WriteKeeps
<1>10. UNCHANGED <<client, revents, maxi>>
    BY DEF WriteSome
<1>11. CASE s = <<>>
    <2>1. buf' = <<>> /\ i' = i + 1 /\ Done
        BY <1>8, <1>11 DEF WriteSome
    <2>2. PICK h2 : h2 = [Kept EXCEPT ![client[i]] = <<>>]
        OBVIOUS
    <2>3. Carried(h2)'
        BY <1>1, <1>9, <1>11, <2>2
    <2> QED BY <1>2, <1>9, <1>10, <2>1, <2>2, <2>3, WrittenHolds
<1>12. CASE s # <<>>
    <2>1. UNCHANGED <<pc, nready, i>>
        BY <1>8, <1>12 DEF WriteSome
    <2>2. TypeOK'
        <3>1. buf' \in Seq(Nat) /\ Len(buf') <= BufSize
            BY <1>4, <1>7, <1>8, PollServerAssumption
        <3> QED BY <1>9, <1>10, <2>1, <3>1 DEF TypeOK, NetInv
    <2>3. TableInv'
        BY <1>9, <1>10 DEF TableInv, Used
    <2>4. Kept' = [h EXCEPT ![q] = s]
        BY <1>1, <1>2, <1>3, <1>8, <1>10, <2>1 DEF Kept
    <2>5. RoundInv'
        <3>1. PICK k, n : k = i + 1 /\ n = nready - 1
            OBVIOUS
        <3>2. k \in Nat \ {0} /\ Awaited(k, n)
            BY <1>2, <1>3, <3>1
        <3>3. \A x \in Marked(k) : Readable(client[x]) => Readable(client[x])'
            <4>1. \A x \in Marked(k) : client[x] \in Peers
                BY <3>2, SlotsAreNumbers
            <4> QED BY <1>9, <1>10, <4>1
        <3>4. Awaited(k, n)'
            BY <1>10, <3>2, <3>3, AwaitedStays
        <3>5. i' + 1 = k /\ nready' - 1 = n
            BY <2>1, <3>1
        <3>6. Awaited(i + 1, nready - 1)'
            BY <3>4, <3>5 DEF Awaited, Marked
        <3>7. i' \in Used'
            BY <1>2, <1>10, <2>1 DEF Used
        <3> QED BY <1>2, <2>1, <3>6, <3>7 DEF RoundInv
    <2> QED BY <1>9, <2>2, <2>3, <2>4, <2>5
<1> QED BY <1>11, <1>12

LEMMA WriteFailsHolds == ASSUME IInv, WriteFails PROVE IInv'
<1> USE DEF IInv
<1>1. PICK h, q, h2 : h = Kept /\ q = client[i] /\ h2 = [h EXCEPT ![q] = <<>>]
    OBVIOUS
<1>2. pc = "write" /\ rst[q] /\ i \in Used /\ UNCHANGED <<net, client, revents, maxi>>
    BY <1>1 DEF WriteFails, RoundInv
<1>3. q \in Peers
    BY <1>1, <1>2, SlotsAreNumbers
<1>4. h \in [Peers -> Seq(Nat)] /\ Carried(h)
    BY <1>1, KeptIsBytes
<1>5. Carried(h2)
    BY <1>1, <1>2, <1>3, <1>4, DropKeeps
<1>6. /\ NetInv' /\ Carried(h2)' /\ Open' = Open
      /\ \A x \in Peers : Readable(x)' = Readable(x)
    BY <1>2, <1>5, NetStays
<1>7. CASE buf' = <<>> /\ i' = i + 1 /\ Done
    <2>1. h2 = [Kept EXCEPT ![client[i]] = <<>>]
        BY <1>1
    <2> QED BY <1>2, <1>6, <1>7, <2>1, WrittenHolds
<1>8. CASE pc' = "killed" /\ UNCHANGED <<nready, i, buf>>
    <2>1. TypeOK'
        BY <1>2, <1>6, <1>8 DEF TypeOK, NetInv
    <2>2. TableInv'
        BY <1>2, <1>6 DEF TableInv, Used
    <2>3. RoundInv'
        BY <1>8 DEF RoundInv
    <2>4. Kept' = h2
        BY <1>1, <1>2, <1>8 DEF Kept
    <2> QED BY <1>6, <2>1, <2>2, <2>3, <2>4
<1> QED BY <1>7, <1>8 DEF WriteFails

LEMMA AcceptFailsHolds == ASSUME IInv, AcceptFails PROVE IInv'
<1> USE DEF IInv
<1>1. PICK h : h = Kept
    OBVIOUS
<1>2. pc = "accept" /\ pc' = "exited" /\ UNCHANGED <<net, client, revents, maxi, nready, i, buf>>
    BY DEF AcceptFails
<1>3. NetInv' /\ Carried(h)' /\ Open' = Open
    BY <1>1, <1>2, NetStays
<1>4. TypeOK'
    BY <1>2, <1>3 DEF TypeOK, NetInv
<1>5. TableInv'
    BY <1>2, <1>3 DEF TableInv, Used
<1>6. RoundInv'
    BY <1>2 DEF RoundInv
<1>7. Kept' = h
    BY <1>1, <1>2 DEF Kept
<1> QED BY <1>3, <1>4, <1>5, <1>6, <1>7

-----------------------------------------------------------------------------
(* The theorems.                                                           *)

LEMMA Invariance == Spec => []IInv
<1>1. ASSUME IInv, [Next]_vars PROVE IInv'
    <2>1. ASSUME NEW p \in Peers, PeerStep(p), UNCHANGED server PROVE IInv'
        BY <1>1, <2>1, PeersHold
    <2>2. CASE Poll
        BY <1>1, <2>2, PollHolds
    <2>3. CASE AcceptClient
        BY <1>1, <2>3, AcceptHolds
    <2>4. CASE AcceptFails
        BY <1>1, <2>4, AcceptFailsHolds
    <2>5. CASE ReadData
        BY <1>1, <2>5, ReadDataHolds
    <2>6. CASE ReadEnd
        BY <1>1, <2>6, ReadEndHolds
    <2>7. CASE WriteSome
        BY <1>1, <2>7, WriteSomeHolds
    <2>8. CASE WriteFails
        BY <1>1, <2>8, WriteFailsHolds
    <2>9. CASE UNCHANGED vars
        <3>1. PICK h : h = Kept
            OBVIOUS
        <3>2. /\ UNCHANGED <<net, backlog, server>>
              /\ UNCHANGED <<pc, client, revents, maxi, nready, i, buf>>
            BY <2>9 DEF vars, net, server
        <3>3. /\ NetInv' /\ Carried(h)' /\ Open' = Open
              /\ \A x \in Peers : Readable(x)' = Readable(x)
            BY <1>1, <3>1, <3>2, NetStays DEF IInv
        <3>4. TypeOK' /\ TableInv'
            BY <1>1, <3>2, <3>3 DEF IInv, TypeOK, NetInv, TableInv, Used
        <3>5. Kept' = h
            BY <3>1, <3>2 DEF Kept
        <3>6. RoundInv'
            BY <1>1, <3>2, <2>9
               DEF IInv, RoundInv, Awaited, Marked, Used, Readable, vars, net
        <3> QED BY <3>3, <3>4, <3>5, <3>6 DEF IInv
    <2> QED BY <1>1, <2>1, <2>2, <2>3, <2>4, <2>5, <2>6, <2>7, <2>8, <2>9 DEF Next, Server
<1> QED BY <1>1, Initially, PTL DEF Spec

\* The one process that serves everybody never blocks in read, never writes
\* behind its table, and loses no descriptor (the loop of main).
THEOREM TableHolds == Spec => []TableMatchesSockets
<1>1. ASSUME IInv PROVE TableMatchesSockets
    <2>1. ASSUME pc = "scan" PROVE ToRead # {} /\ Readable(client[Least(ToRead)])
        BY <1>1, <2>1, FirstAwaited DEF IInv, RoundInv
    <2> QED BY <1>1, <2>1 DEF TableMatchesSockets, ReadNeverBlocks, IInv, TableInv
<1> QED BY <1>1, Invariance, PTL

\* Whatever part of the bytes read and write take at a time, a client gets back
\* what it has sent, in order and without a gap (read and writen in the loop).
THEOREM EchoesInOrder == Spec => []EchoIntact
<1>1. ASSUME IInv PROVE EchoIntact
    <2> SUFFICES ASSUME NEW p \in Peers, st[p] \in {"queued", "open"}, ~rst[p]
                 PROVE  outq[p] \o (IF pc = "write" /\ client[i] = p THEN buf ELSE <<>>) \o inq[p]
                            = [k \in 1 .. sent[p] - got[p] |-> got[p] + k]
        BY DEF EchoIntact
    <2>1. rst[p] = FALSE
        BY <1>1 DEF IInv, NetInv, NetTypeOK
    <2>2. outq[p] \o Kept[p] \o inq[p] = Run(got[p], sent[p])
        BY <1>1, <2>1 DEF IInv, Carried, InOrder
    <2> QED BY <2>2 DEF Kept, Run
<1> QED BY <1>1, Invariance, PTL
=============================================================================
