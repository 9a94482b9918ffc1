-------------------------- MODULE SelectServerProofs --------------------------
(***************************************************************************)
(* Proofs about SelectServer: its sets, its table, the descriptors and the *)
(* open sockets agree, read never blocks it, and what a client gets back   *)
(* is what it has sent.  All of it as long as a descriptor fits an fd_set. *)
(***************************************************************************)
EXTENDS SelectServer, EchoNetProofs, FiniteSetTheorems

\* The slots from k on that the loop would read from: n, all of them readable.
Marked(k) == {j \in k .. maxi : client[j] # -1 /\ client[j] \in rset}
Awaited(k, n) ==
    Cardinality(Marked(k)) = n /\ \A j \in Marked(k) : Readable(peer[client[j]])

SetsInv ==
    /\ pc # "wild"
    /\ {peer[fd] : fd \in UsedFds} = Open
    /\ \A fd, gd \in UsedFds : peer[fd] = peer[gd] => fd = gd
    /\ {client[j] : j \in UsedSlots} = UsedFds
    /\ \A j, k \in UsedSlots : client[j] = client[k] => j = k
    /\ allset = UsedFds \union {ListenFd}
    /\ \A fd \in allset : fd <= maxfd
    /\ \A j \in UsedSlots : j <= maxi
    /\ maxi < FdSetSize

\* A descriptor that accept returns has no bit in rset yet.
RoundInv ==
    /\ pc = "accept" =>
        /\ nready >= 1 /\ i = 0 /\ backlog # <<>>
        /\ rset \subseteq allset
        /\ Awaited(0, nready - 1)
    /\ pc = "scan" => nready >= 1 /\ Awaited(i, nready)
    /\ pc = "write" => nready >= 1 /\ i \in UsedSlots /\ Awaited(i + 1, nready - 1)

\* What the server has read from p and not written.
Kept == [p \in Peers |-> IF pc = "write" /\ peer[client[i]] = p THEN buf ELSE <<>>]

IInv == TypeOK /\ NetInv /\ SetsInv /\ RoundInv /\ Carried(Kept)

-----------------------------------------------------------------------------
(* The loop over the table.                                                *)

LEMMA LeastIsLeast ==
    ASSUME NEW S \in SUBSET Nat, S # {}
    PROVE  Least(S) \in S /\ \A k \in S : Least(S) <= k
BY HasLeast, Zenon DEF Least

LEMMA Numbers ==
    /\ FdSetSize \in Nat \ {0} /\ FdLimit \in Nat \ {0} /\ BufSize \in Nat \ {0}
    /\ ListenFd \in Nat /\ ListenFd < FdLimit /\ ListenFd < FdSetSize
    /\ Fds \subseteq Nat /\ -1 \notin Fds /\ ListenFd \notin Fds /\ Slots \subseteq Nat
BY SelectServerAssumption DEF Low, Fds, Slots

LEMMA SlotsHoldSockets ==
    ASSUME TypeOK, SetsInv
    PROVE  /\ maxi \in Int /\ i \in Nat /\ UsedSlots \subseteq Slots /\ UsedFds \subseteq Fds
           /\ \A k \in Nat : Marked(k) \subseteq UsedSlots /\ IsFiniteSet(Marked(k))
           /\ \A j \in UsedSlots : /\ client[j] \in UsedFds
                                   /\ peer[client[j]] \in Open /\ peer[client[j]] \in Peers
           /\ \A j, k \in UsedSlots : peer[client[j]] = peer[client[k]] => j = k
<1>1. maxi \in Int /\ i \in Nat /\ maxi < FdSetSize
    BY Numbers DEF TypeOK, SetsInv
<1>2. UsedSlots \subseteq Slots /\ UsedFds \subseteq Fds
    BY DEF UsedSlots, UsedFds
<1>3. ASSUME NEW k \in Nat PROVE Marked(k) \subseteq UsedSlots /\ IsFiniteSet(Marked(k))
    <2>1. Marked(k) \subseteq UsedSlots
        BY <1>1, <1>3, Numbers DEF Marked, UsedSlots, Slots
    <2>2. IsFiniteSet(k .. maxi)
        BY <1>1, FS_Interval
    <2>3. Marked(k) \in SUBSET (k .. maxi)
        BY DEF Marked
    <2> QED BY <2>1, <2>2, <2>3, FS_Subset
<1>4. \A j \in UsedSlots : client[j] \in UsedFds
    BY DEF SetsInv
<1>5. \A fd \in UsedFds : peer[fd] \in Open /\ peer[fd] \in Peers
    BY DEF SetsInv, Open
<1>6. \A j, k \in UsedSlots : peer[client[j]] = peer[client[k]] => j = k
    BY <1>4 DEF SetsInv
<1> QED BY <1>1, <1>2, <1>3, <1>4, <1>5, <1>6

LEMMA FirstAwaited ==
    ASSUME TypeOK, SetsInv, nready >= 1, Awaited(i, nready)
    PROVE  LET j == Least(ToRead) IN
           /\ ToRead # {} /\ j \in UsedSlots /\ j \in i .. maxi
           /\ Readable(peer[client[j]]) /\ Awaited(j + 1, nready - 1)
<1> DEFINE j == Least(ToRead)
<1>1. i \in Nat /\ nready \in Int /\ Marked(i) \subseteq UsedSlots /\ IsFiniteSet(Marked(i))
      /\ UsedSlots \subseteq Nat
    BY SlotsHoldSockets, Numbers DEF TypeOK
<1>2. Marked(i) # {}
    BY <1>1, FS_EmptySet DEF Awaited
<1>3. ToRead = Marked(i)
    BY DEF ToRead, Marked
<1>4. j \in Marked(i) /\ \A k \in Marked(i) : j <= k
    BY <1>1, <1>2, <1>3, LeastIsLeast
<1> HIDE DEF j
<1>5. j \in Nat /\ j \in i .. maxi
    BY <1>1, <1>4 DEF Marked
<1>6. Marked(j + 1) = Marked(i) \ {j}
    <2>1. ASSUME NEW f \in Marked(i) \ {j} PROVE f \in Marked(j + 1)
        <3>1. f \in Nat /\ j <= f /\ f # j
            BY <1>1, <1>4
        <3> QED BY <1>5, <3>1 DEF Marked
    <2>2. ASSUME NEW f \in Marked(j + 1) PROVE f \in Marked(i) \ {j}
        BY <1>1, <1>5 DEF Marked
    <2> QED BY <2>1, <2>2
<1>7. Cardinality(Marked(j + 1)) = nready - 1
    BY <1>1, <1>4, <1>6, FS_RemoveElement DEF Awaited
<1> QED BY <1>1, <1>2, <1>3, <1>4, <1>5, <1>6, <1>7 DEF j, Awaited

\* Slots the loop will read from stay what they are while their peers do.
LEMMA AwaitedStays ==
    ASSUME NEW k, NEW n, Awaited(k, n), Marked(k)' = Marked(k),
           \A x \in Marked(k) : /\ peer'[client'[x]] = peer[client[x]]
                                /\ Readable(peer[client[x]]) => Readable(peer[client[x]])'
    PROVE  Awaited(k, n)'
<1>1. \A x \in Marked(k) : Readable(peer[client[x]])'
    BY DEF Awaited
<1> QED BY <1>1 DEF Awaited

\* The loop goes on behind slot k - 1, or starts over.
LEMMA RoundGoesOn ==
    ASSUME NEW k, NEW n \in Int, i' = k, nready' = n,
           pc' \in {"select", "scan"}, pc' = "scan" => n >= 1, Awaited(k, n)'
    PROVE  RoundInv'
<1>1. Awaited(i, nready)'
    BY DEF Awaited, Marked
<1> QED BY <1>1 DEF RoundInv

-----------------------------------------------------------------------------
(* The steps.                                                              *)

LEMMA KeptIsBytes ==
    ASSUME TypeOK
    PROVE  /\ Kept \in [Peers -> Seq(Nat)]
           /\ pc # "write" => Kept = [p \in Peers |-> <<>>]
<1>1. <<>> \in Seq(Nat) /\ buf \in Seq(Nat)
    BY EmptySeq DEF TypeOK
<1> QED BY <1>1 DEF Kept

LEMMA Initially == ASSUME Init PROVE IInv
<1>1. NetInv /\ Carried([p \in Peers |-> <<>>]) /\ Open = {}
    BY NetInitially DEF Init
<1>2. TypeOK
    <2>1. <<>> \in Seq(Nat) /\ Len(<<>>) = 0
        BY EmptySeq
    <2>2. buf \in Seq(Nat) /\ Len(buf) <= BufSize
        BY <2>1, Numbers DEF Init
    <2>3. maxi \in -1 .. FdSetSize /\ i \in 0 .. FdSetSize /\ maxfd \in 0 .. FdLimit - 1
        BY Numbers DEF Init
    <2>4. allset \subseteq 0 .. FdLimit - 1 /\ rset \subseteq 0 .. FdLimit - 1
        BY Numbers DEF Init
    <2> QED BY <1>1, <2>2, <2>3, <2>4 DEF Init, TypeOK, NetInv
<1>3. UsedFds = {} /\ UsedSlots = {}
    BY DEF Init, UsedFds, UsedSlots
<1>4. SetsInv
    BY <1>1, <1>3, Numbers DEF Init, SetsInv
<1>5. Kept = [p \in Peers |-> <<>>]
    BY DEF Kept, Init
<1>6. RoundInv
    BY DEF RoundInv, Init
<1> QED BY <1>1, <1>2, <1>4, <1>5, <1>6 DEF IInv

LEMMA PeersHold ==
    ASSUME IInv, NEW p \in Peers, PeerStep(p), UNCHANGED server
    PROVE  IInv'
<1> USE DEF IInv
<1>1. PICK h : h = Kept
    OBVIOUS
<1>2. h \in [Peers -> Seq(Nat)] /\ Carried(h)
    BY <1>1, KeptIsBytes
<1>3. st[p] = "closed" => h[p] = <<>>
    <2>1. pc = "write" => i \in UsedSlots /\ peer[client[i]] \in Open
        BY SlotsHoldSockets DEF RoundInv
    <2> QED BY <1>1, <2>1 DEF Kept, Open
<1>4. NetInv' /\ Carried(h)' /\ Undisturbed
    BY <1>2, <1>3, PeerStepKeeps
<1>5. Kept' = h
    BY <1>1 DEF Kept, server
<1>6. TypeOK'
    BY <1>4 DEF TypeOK, NetInv, server
<1>7. SetsInv'
    BY <1>4 DEF SetsInv, Undisturbed, server, UsedFds, UsedSlots
<1>8. \A x \in UsedSlots : Readable(peer[client[x]]) => Readable(peer[client[x]])'
    BY <1>4, SlotsHoldSockets DEF Undisturbed, server
<1>9. \A k \in Nat : Marked(k) \subseteq UsedSlots /\ Marked(k)' = Marked(k)
    BY SlotsHoldSockets DEF Marked, server
<1>10. ASSUME NEW k \in Nat, NEW n, Awaited(k, n) PROVE Awaited(k, n)'
    <2>1. \A x \in Marked(k) : peer'[client'[x]] = peer[client[x]]
        BY DEF server
    <2> QED BY <1>8, <1>9, <1>10, <2>1, AwaitedStays
<1>11. i \in Nat
    BY SlotsHoldSockets
<1>12. RoundInv'
    <2>1. ASSUME pc' = "accept"
          PROVE  /\ nready' >= 1 /\ i' = 0 /\ backlog' # <<>> /\ rset' \subseteq allset'
                 /\ Awaited(0, nready - 1)'
        <3>1. PICK n : n = nready - 1
            OBVIOUS
        <3>2. Awaited(0, n) /\ nready' - 1 = n
            BY <2>1, <3>1 DEF RoundInv, server
        <3>3. Awaited(0, n)'
            BY <1>10, <3>2
        <3>4. Awaited(0, nready - 1)'
            BY <3>2, <3>3 DEF Awaited, Marked
        <3> QED BY <1>4, <2>1, <3>4 DEF RoundInv, Undisturbed, server
    <2>2. ASSUME pc' = "scan"
          PROVE  nready' >= 1 /\ Awaited(i, nready)'
        <3>1. PICK k, n : k = i /\ n = nready
            OBVIOUS
        <3>2. k \in Nat /\ Awaited(k, n)
            BY <1>11, <2>2, <3>1 DEF RoundInv, server
        <3>3. Awaited(k, n)' /\ i' = k /\ nready' = n
            BY <1>10, <3>1, <3>2 DEF server
        <3>4. Awaited(i, nready)'
            BY <3>3 DEF Awaited, Marked
        <3> QED BY <2>2, <3>4 DEF RoundInv, server
    <2>3. ASSUME pc' = "write"
          PROVE  nready' >= 1 /\ i' \in UsedSlots' /\ Awaited(i + 1, nready - 1)'
        <3>1. PICK k, n : k = i + 1 /\ n = nready - 1
            OBVIOUS
        <3>2. k \in Nat /\ Awaited(k, n)
            BY <1>11, <2>3, <3>1 DEF RoundInv, server
        <3>3. Awaited(k, n)' /\ i' + 1 = k /\ nready' - 1 = n
            BY <1>10, <3>1, <3>2 DEF server
        <3>4. Awaited(i + 1, nready - 1)'
            BY <3>3 DEF Awaited, Marked
        <3> QED BY <2>3, <3>4 DEF RoundInv, server, UsedSlots
    <2> QED BY <2>1, <2>2, <2>3 DEF RoundInv
<1> QED BY <1>4, <1>5, <1>6, <1>7, <1>12

LEMMA SelectHolds == ASSUME IInv, Select PROVE IInv'
<1> USE DEF IInv
<1>1. PICK R, h : R = Ready /\ h = Kept
    OBVIOUS
<1>2. /\ pc = "select" /\ R # {} /\ rset' = R /\ nready' = Cardinality(R) /\ i' = 0
      /\ pc' = (IF ListenFd \in R THEN "accept" ELSE "scan")
      /\ UNCHANGED <<net, peer, client, allset, maxfd, maxi, buf>>
    BY <1>1 DEF Select
<1>3. R \subseteq allset /\ R \subseteq 0 .. FdLimit - 1
    BY <1>1 DEF Ready, TypeOK
<1>4. IsFiniteSet(R) /\ nready' \in Nat /\ nready' >= 1
    <2>1. IsFiniteSet(0 .. FdLimit - 1)
        BY Numbers, FS_Interval
    <2>2. IsFiniteSet(R)
        BY <1>3, <2>1, FS_Subset
    <2>3. Cardinality(R) \in Nat /\ Cardinality(R) # 0
        BY <1>2, <2>2, FS_CardinalityType, FS_EmptySet
    <2> QED BY <1>2, <2>2, <2>3
<1>5. NetInv' /\ Carried(h)' /\ Open' = Open /\ backlog' = backlog
      /\ \A q \in Peers : Readable(q)' = Readable(q)
    BY <1>1, <1>2, NetStays
<1>6. Kept' = h
    BY <1>1, <1>2 DEF Kept
<1>7. TypeOK'
    <2>1. i' \in 0 .. FdSetSize
        BY <1>2, Numbers
    <2>2. pc' \in {"select", "accept", "scan", "write", "exited", "killed", "wild"}
        BY <1>2
    <2> QED BY <1>2, <1>3, <1>4, <1>5, <2>1, <2>2 DEF TypeOK, NetInv
<1>8. SetsInv'
    <2>1. pc' # "wild"
        BY <1>2
    <2> QED BY <1>2, <1>5, <2>1 DEF SetsInv, UsedFds, UsedSlots
<1>9. PICK M : M = {j \in 0 .. maxi : client[j] # -1 /\ client[j] \in R}
    OBVIOUS
<1>10. Marked(0)' = M
    BY <1>2, <1>9 DEF Marked
<1>11. \A j \in M : j \in UsedSlots /\ client[j] \in R
    BY <1>9, Numbers DEF SetsInv, TypeOK, UsedSlots, Slots
<1>12. \A j \in M : client[j] # ListenFd /\ Readable(peer[client[j]])
    <2> TAKE j \in M
    <2>1. client[j] \in UsedFds /\ client[j] \in Ready
        BY <1>1, <1>11, SlotsHoldSockets
    <2>2. client[j] # ListenFd
        BY <2>1, Numbers DEF UsedFds
    <2> QED BY <2>1, <2>2 DEF Ready
<1>13. \A fd \in R \ {ListenFd} : \E j \in M : client[j] = fd
    <2> TAKE fd \in R \ {ListenFd}
    <2>1. fd \in UsedFds
        BY <1>3 DEF SetsInv
    <2>2. PICK j \in UsedSlots : client[j] = fd
        BY <2>1 DEF SetsInv
    <2>3. j \in 0 .. maxi /\ client[j] # -1
        BY SlotsHoldSockets DEF SetsInv, UsedSlots, Slots
    <2> QED BY <1>9, <2>2, <2>3
<1>14. Cardinality(M) = Cardinality(R \ {ListenFd})
    <2> DEFINE T == R \ {ListenFd}
               f == [j \in M |-> client[j]]
    <2>1. \A j \in M : f[j] \in T
        BY <1>11, <1>12
    <2>2. \A j, k \in M : f[j] = f[k] => j = k
        BY <1>11 DEF SetsInv
    <2>3. \A fd \in T : \E j \in M : f[j] = fd
        BY <1>13
    <2>4. IsFiniteSet(T)
        BY <1>4, FS_RemoveElement
    <2>5. f \in [M -> T]
        BY <2>1
    <2> HIDE DEF f, T
    <2>6. f \in Injection(M, T) /\ f \in Surjection(M, T)
        BY <2>2, <2>3, <2>5 DEF Injection, IsInjective, Surjection
    <2>7. Cardinality(M) = Cardinality(T)
        BY <2>4, <2>6, FS_Injection
    <2> QED BY <2>7 DEF T
<1>15. \A j \in M : Readable(peer[client[j]])'
    <2>1. \A j \in M : peer[client[j]] \in Peers
        BY <1>11, SlotsHoldSockets
    <2> QED BY <1>2, <1>5, <1>12, <2>1
<1>16. CASE ListenFd \in R
    <2>1. Cardinality(M) = nready' - 1
        BY <1>2, <1>4, <1>14, <1>16, FS_RemoveElement
    <2>2. Awaited(0, nready - 1)'
        BY <1>10, <1>15, <2>1 DEF Awaited
    <2>3. backlog # <<>>
        BY <1>1, <1>16 DEF Ready
    <2> QED BY <1>2, <1>3, <1>4, <1>5, <1>6, <1>7, <1>8, <1>16, <2>2, <2>3 DEF RoundInv
<1>17. CASE ListenFd \notin R
    <2>1. Cardinality(M) = nready'
        <3>1. R \ {ListenFd} = R
            BY <1>17
        <3> QED BY <1>2, <1>14, <3>1
    <2>2. Marked(i)' = M
        BY <1>2, <1>10 DEF Marked
    <2>3. Awaited(i, nready)'
        BY <1>15, <2>1, <2>2 DEF Awaited
    <2> QED BY <1>2, <1>4, <1>5, <1>6, <1>7, <1>8, <1>17, <2>3 DEF RoundInv
<1> QED BY <1>16, <1>17

\* There is a slot for whoever accept lets in, since a descriptor fits the sets.
LEMMA SlotIsFree ==
    ASSUME FdLimit <= FdSetSize, TypeOK, SetsInv
    PROVE  FreeSlot \in Slots \ UsedSlots /\ FreeSlot # FdSetSize
<1>1. UsedSlots # Slots
    <2> SUFFICES ASSUME UsedSlots = Slots PROVE FALSE
        OBVIOUS
    <2>1. client \in Injection(Slots, Fds)
        <3>1. \A j \in Slots : client[j] \in Fds
            BY SlotsHoldSockets
        <3>2. client \in [Slots -> Fds]
            BY <3>1 DEF TypeOK
        <3> QED BY <3>2 DEF SetsInv, Injection, IsInjective
    <2>2. IsFiniteSet(Fds) /\ Cardinality(Fds) = FdLimit - 1 - ListenFd
        <3>1. ListenFd + 1 \in Int /\ FdLimit - 1 \in Int
            BY Numbers
        <3>2. /\ IsFiniteSet(ListenFd + 1 .. FdLimit - 1)
              /\ Cardinality(ListenFd + 1 .. FdLimit - 1)
                     = IF ListenFd + 1 > FdLimit - 1 THEN 0
                       ELSE (FdLimit - 1) - (ListenFd + 1) + 1
            BY <3>1, FS_Interval
        <3> QED BY <3>2, Numbers DEF Fds
    <2>3. Cardinality(Slots) <= Cardinality(Fds)
        BY <2>1, <2>2, FS_Injection
    <2>4. Cardinality(Slots) = FdSetSize
        BY Numbers, FS_Interval DEF Slots
    <2> QED BY <2>2, <2>3, <2>4, Numbers
<1>2. Slots \ UsedSlots \in SUBSET Nat /\ Slots \ UsedSlots # {}
    BY <1>1, Numbers DEF UsedSlots
<1>3. FreeSlot \in Slots \ UsedSlots
    BY <1>1, <1>2, LeastIsLeast DEF FreeSlot
<1>4. FdSetSize \notin Slots
    BY Numbers DEF Slots
<1> QED BY <1>3, <1>4

LEMMA AcceptHolds == ASSUME FdLimit <= FdSetSize, IInv, AcceptClient PROVE IInv'
<1> USE DEF IInv
<1> DEFINE p == Head(backlog)
<1>1. PICK q, fd, s, h :
          q = p /\ fd = Least(Fds \ UsedFds) /\ s = FreeSlot /\ h = Kept
    OBVIOUS
<1>2. s \in Slots \ UsedSlots /\ s # FdSetSize /\ s \in Nat /\ s < FdSetSize
    BY <1>1, SlotIsFree, Numbers DEF Slots
<1>3. fd \in Fds \ UsedFds
    <2>1. Fds \ UsedFds \in SUBSET Nat /\ Fds \ UsedFds # {}
        BY SlotsHoldSockets, Numbers DEF AcceptClient
    <2> QED BY <1>1, <2>1, LeastIsLeast
<1>4. /\ fd \in Nat /\ fd < FdLimit /\ fd < FdSetSize /\ fd \in Slots /\ fd # -1
      /\ fd # ListenFd
    BY <1>3, Numbers DEF Fds, Slots
<1>5. /\ pc = "accept" /\ Accept(p) /\ peer' = [peer EXCEPT ![fd] = p]
      /\ client' = [client EXCEPT ![s] = fd]
      /\ allset' = allset \union {fd}
      /\ maxfd' = (IF fd > maxfd THEN fd ELSE maxfd)
      /\ maxi' = (IF s > maxi THEN s ELSE maxi)
      /\ nready' = nready - 1 /\ pc' = (IF nready = 1 THEN "select" ELSE "scan")
      /\ UNCHANGED <<rset, i, buf>>
    <2>1. {fd} \intersect Slots = {fd} /\ ~(fd >= FdSetSize \/ s = FdSetSize)
        BY <1>2, <1>4, Numbers
    <2> QED BY <1>1, <1>2, <2>1 DEF AcceptClient
<1>6. h = [x \in Peers |-> <<>>] /\ h \in [Peers -> Seq(Nat)] /\ Carried(h)
    BY <1>1, <1>5, KeptIsBytes
<1>7. /\ NetInv' /\ Carried(h)' /\ q \in Peers /\ q \notin Open /\ Open' = Open \union {q}
      /\ \A x \in Peers : Readable(x)' = Readable(x)
    BY <1>1, <1>5, <1>6, AcceptKeeps
<1> HIDE DEF p
<1>8. /\ client'[s] = fd /\ \A j \in Slots \ {s} : client'[j] = client[j]
      /\ client' \in [Slots -> Fds \union {-1}]
    BY <1>2, <1>3, <1>5 DEF TypeOK
<1>9. /\ peer'[fd] = q /\ \A x \in Fds \ {fd} : peer'[x] = peer[x]
      /\ peer' \in [Fds -> Peers \union {Free}] /\ q # Free
    BY <1>1, <1>3, <1>5, <1>7, SelectServerAssumption DEF TypeOK
<1>10. /\ maxi \in Int /\ maxi < FdSetSize /\ maxfd \in Nat
       /\ maxi' \in -1 .. FdSetSize /\ maxi' < FdSetSize /\ maxi <= maxi' /\ s <= maxi'
       /\ maxfd' \in 0 .. FdLimit - 1 /\ maxfd <= maxfd' /\ fd <= maxfd'
    BY <1>2, <1>4, <1>5, Numbers DEF TypeOK, SetsInv
<1>11. TypeOK'
    <2>1. pc' \in {"select", "accept", "scan", "write", "exited", "killed", "wild"}
        BY <1>5
    <2>2. allset' \subseteq 0 .. FdLimit - 1
        BY <1>4, <1>5, Numbers DEF TypeOK
    <2>3. nready' \in Int
        BY <1>5 DEF TypeOK
    <2> QED BY <1>5, <1>7, <1>8, <1>9, <1>10, <2>1, <2>2, <2>3 DEF TypeOK, NetInv
<1>12. UsedFds' = UsedFds \union {fd}
    BY <1>3, <1>9 DEF UsedFds
<1>13. UsedSlots' = UsedSlots \union {s}
    BY <1>2, <1>4, <1>8 DEF UsedSlots
<1>14. \A x \in UsedFds : peer'[x] = peer[x] /\ peer[x] # q /\ x # fd /\ peer[x] \in Peers
    <2> TAKE x \in UsedFds
    <2>1. x \in Fds \ {fd} /\ peer[x] \in Open
        BY <1>3 DEF SetsInv, UsedFds
    <2> QED BY <1>7, <1>9, <2>1 DEF Open
<1>15. \A j \in UsedSlots : client'[j] = client[j] /\ j # s /\ client[j] \in UsedFds
    BY <1>2, <1>8, SlotsHoldSockets
<1>16. SetsInv'
    <2>1. pc' # "wild"
        BY <1>5
    <2>2. {peer'[x] : x \in UsedFds'} = Open'
        <3>1. {peer'[x] : x \in UsedFds'} = {peer[x] : x \in UsedFds} \union {q}
            BY <1>9, <1>12, <1>14
        <3> QED BY <1>7, <3>1 DEF SetsInv
    <2>3. \A x, y \in UsedFds' : peer'[x] = peer'[y] => x = y
        BY <1>9, <1>12, <1>14 DEF SetsInv
    <2>4. {client'[j] : j \in UsedSlots'} = UsedFds'
        <3>1. {client'[j] : j \in UsedSlots'} = {client[j] : j \in UsedSlots} \union {fd}
            BY <1>8, <1>13, <1>15
        <3> QED BY <1>12, <3>1 DEF SetsInv
    <2>5. \A j, k \in UsedSlots' : client'[j] = client'[k] => j = k
        BY <1>8, <1>13, <1>14, <1>15 DEF SetsInv
    <2>6. allset' = UsedFds' \union {ListenFd}
        BY <1>5, <1>12 DEF SetsInv
    <2>7. \A x \in allset' : x <= maxfd'
        <3> TAKE x \in allset'
        <3>1. CASE x = fd
            BY <1>10, <3>1
        <3>2. CASE x \in allset
            <4>1. x \in Nat /\ x <= maxfd
                BY <3>2, Numbers DEF SetsInv, TypeOK
            <4> QED BY <1>5, <1>4, <1>10, <4>1
        <3> QED BY <1>5, <3>1, <3>2
    <2>8. \A j \in UsedSlots' : j <= maxi'
        <3> TAKE j \in UsedSlots'
        <3>1. CASE j = s
            BY <1>10, <3>1
        <3>2. CASE j \in UsedSlots
            <4>1. j \in Nat /\ j <= maxi
                BY <3>2, SlotsHoldSockets, Numbers DEF SetsInv
            <4> QED BY <1>2, <1>5, <1>10, <4>1
        <3> QED BY <1>13, <3>1, <3>2
    <2> QED BY <1>10, <2>1, <2>2, <2>3, <2>4, <2>5, <2>6, <2>7, <2>8 DEF SetsInv
<1>17. Kept' = h
    <2>1. pc' # "write"
        BY <1>5
    <2> QED BY <1>6, <2>1 DEF Kept
<1>18. RoundInv'
    <2>1. nready >= 1 /\ i = 0 /\ rset \subseteq allset /\ nready \in Int
        BY <1>5 DEF RoundInv, TypeOK
    <2>2. PICK n : n = nready - 1
        OBVIOUS
    <2>3. Awaited(0, n)
        BY <1>5, <2>2 DEF RoundInv
    <2>4. fd \notin rset
        BY <1>3, <1>4, <2>1 DEF SetsInv
    <2>5. Marked(0)' = Marked(0)
        <3>1. ASSUME NEW j \in Marked(0) PROVE j \in Marked(0)'
            <4>1. j \in UsedSlots /\ j \in 0 .. maxi
                BY <3>1, SlotsHoldSockets DEF Marked
            <4>2. j \in 0 .. maxi'
                BY <1>10, <4>1
            <4> QED BY <1>5, <1>15, <3>1, <4>1, <4>2 DEF Marked
        <3>2. ASSUME NEW j \in Marked(0)' PROVE j \in Marked(0)
            <4>1. j \in 0 .. maxi' /\ client'[j] # -1 /\ client'[j] \in rset
                BY <1>5, <3>2 DEF Marked
            <4>2. j \in Slots \ {s}
                BY <1>8, <1>10, <2>4, <4>1, Numbers DEF Slots
            <4>3. j \in UsedSlots /\ client[j] \in rset /\ client[j] # -1
                BY <1>8, <4>1, <4>2 DEF UsedSlots
            <4>4. j \in 0 .. maxi
                BY <1>10, <4>1, <4>3, Numbers DEF SetsInv, UsedSlots, Slots
            <4> QED BY <4>3, <4>4 DEF Marked
        <3> QED BY <3>1, <3>2
    <2>6. \A x \in Marked(0) :
              /\ peer'[client'[x]] = peer[client[x]]
              /\ Readable(peer[client[x]]) => Readable(peer[client[x]])'
        <3> TAKE x \in Marked(0)
        <3>1. x \in UsedSlots
            BY SlotsHoldSockets
        <3>2. peer'[client'[x]] = peer[client[x]] /\ peer[client[x]] \in Peers
            BY <1>14, <1>15, <3>1
        <3> QED BY <1>7, <3>2
    <2>7. Awaited(0, n)'
        BY <2>3, <2>5, <2>6, AwaitedStays
    <2>8. /\ n \in Int /\ i' = 0 /\ nready' = n /\ pc' \in {"select", "scan"}
          /\ pc' = "scan" => n >= 1
        BY <1>5, <2>1, <2>2
    <2> QED BY <2>7, <2>8, RoundGoesOn
<1> QED BY <1>7, <1>11, <1>16, <1>17, <1>18

LEMMA ReadDataHolds == ASSUME IInv, ReadData PROVE IInv'
<1> USE DEF IInv
<1>1. PICK j, q, n, h, t :
          /\ j = Least(ToRead) /\ q = peer[client[j]] /\ n = nready - 1 /\ h = Kept
          /\ t = Taken(inq[q], Low(BufSize, Len(inq[q])))
    OBVIOUS
<1>2. nready >= 1 /\ Awaited(i, nready) /\ nready \in Int
    BY DEF ReadData, RoundInv, TypeOK
<1>3. j \in UsedSlots /\ j \in i .. maxi /\ Awaited(j + 1, n)
    BY <1>1, <1>2, FirstAwaited
<1>4. /\ maxi \in Int /\ maxi < FdSetSize /\ i \in Nat /\ j \in Nat
      /\ q \in Open /\ q \in Peers /\ BufSize \in Nat \ {0}
    BY <1>1, <1>3, SlotsHoldSockets, Numbers DEF SetsInv
<1>5. /\ pc = "scan" /\ Read(q, BufSize) /\ buf' = t /\ i' = j /\ pc' = "write"
      /\ UNCHANGED <<peer, client, allset, rset, maxfd, maxi, nready>>
    BY <1>1 DEF ReadData, Taken
<1>6. h = [x \in Peers |-> <<>>] /\ h \in [Peers -> Seq(Nat)] /\ Carried(h)
    BY <1>1, <1>5, KeptIsBytes
<1>7. /\ NetInv' /\ t \in Seq(Nat) /\ Len(t) \in 1 .. BufSize
      /\ Carried([h EXCEPT ![q] = t])' /\ Open' = Open
      /\ \A x \in Peers \ {q} : Readable(x)' = Readable(x)
    <2>1. h[q] = <<>>
        BY <1>4, <1>6
    <2> QED BY <1>1, <1>4, <1>5, <1>6, <2>1, ReadKeeps
<1>8. TypeOK'
    <2>1. i' \in 0 .. FdSetSize
        BY <1>3, <1>4, <1>5, Numbers
    <2>2. buf' \in Seq(Nat) /\ Len(buf') <= BufSize
        BY <1>4, <1>5, <1>7
    <2> QED BY <1>5, <1>7, <2>1, <2>2 DEF TypeOK, NetInv
<1>9. SetsInv'
    <2>1. pc' # "wild"
        BY <1>5
    <2> QED BY <1>5, <1>7, <2>1 DEF SetsInv, UsedFds, UsedSlots
<1>10. Kept' = [h EXCEPT ![q] = t]
    BY <1>1, <1>5, <1>6 DEF Kept
<1>11. RoundInv'
    <2>1. PICK k : k = j + 1
        OBVIOUS
    <2>2. \A x \in Marked(k) : peer[client[x]] \in Peers \ {q}
        <3> TAKE x \in Marked(k)
        <3>1. x \in UsedSlots /\ x # j
            <4>1. x \in UsedSlots
                BY <1>4, <2>1, SlotsHoldSockets
            <4>2. x \in j + 1 .. maxi
                BY <2>1 DEF Marked
            <4> QED BY <1>4, <4>1, <4>2
        <3> QED BY <1>1, <1>3, <3>1, SlotsHoldSockets
    <2>3. \A x \in Marked(k) :
              /\ peer'[client'[x]] = peer[client[x]]
              /\ Readable(peer[client[x]]) => Readable(peer[client[x]])'
        BY <1>5, <1>7, <2>2
    <2>4. Awaited(k, n) /\ Marked(k)' = Marked(k)
        BY <1>3, <1>5, <2>1 DEF Marked
    <2>5. Awaited(k, n)'
        BY <2>3, <2>4, AwaitedStays
    <2>6. i' + 1 = k /\ nready' - 1 = n
        BY <1>1, <1>5, <2>1
    <2>7. Awaited(i + 1, nready - 1)'
        BY <2>5, <2>6 DEF Awaited, Marked
    <2>8. i' \in UsedSlots'
        BY <1>3, <1>5 DEF UsedSlots
    <2> QED BY <1>2, <1>5, <2>7, <2>8 DEF RoundInv
<1> QED BY <1>7, <1>8, <1>9, <1>10, <1>11

LEMMA ReadEndHolds == ASSUME IInv, ReadEnd PROVE IInv'
<1> USE DEF IInv
<1>1. PICK j, q, fd, n, h :
          /\ j = Least(ToRead) /\ fd = client[j] /\ q = peer[fd] /\ n = nready - 1
          /\ h = Kept
    OBVIOUS
<1>2. nready >= 1 /\ Awaited(i, nready) /\ nready \in Int
    BY DEF ReadEnd, RoundInv, TypeOK
<1>3. j \in UsedSlots /\ j \in i .. maxi /\ Awaited(j + 1, n)
    BY <1>1, <1>2, FirstAwaited
<1>4. /\ maxi \in Int /\ maxi < FdSetSize /\ i \in Nat /\ j \in Nat /\ j \in Slots
      /\ fd \in UsedFds /\ fd \in Fds /\ q \in Open /\ q \in Peers
    BY <1>1, <1>3, SlotsHoldSockets DEF SetsInv
<1>5. /\ pc = "scan" /\ Close(q) /\ peer' = [peer EXCEPT ![fd] = Free]
      /\ allset' = allset \ {fd} /\ client' = [client EXCEPT ![j] = -1] /\ i' = j + 1
      /\ nready' = n /\ pc' = (IF nready <= 1 THEN "select" ELSE "scan")
      /\ UNCHANGED <<rset, maxfd, maxi, buf>>
    BY <1>1 DEF ReadEnd, Done
<1>6. h = [x \in Peers |-> <<>>] /\ h \in [Peers -> Seq(Nat)] /\ Carried(h)
    BY <1>1, <1>5, KeptIsBytes
<1>7. /\ NetInv' /\ Carried(h)' /\ Open' = Open \ {q}
      /\ \A x \in Peers : Readable(x)' = Readable(x)
    BY <1>4, <1>5, <1>6, CloseKeeps
<1>8. /\ client'[j] = -1 /\ \A x \in Slots \ {j} : client'[x] = client[x]
      /\ client' \in [Slots -> Fds \union {-1}]
    BY <1>4, <1>5 DEF TypeOK
<1>9. /\ peer'[fd] = Free /\ \A x \in Fds \ {fd} : peer'[x] = peer[x]
      /\ peer' \in [Fds -> Peers \union {Free}]
    BY <1>4, <1>5 DEF TypeOK
<1>10. j + 1 \in Nat /\ j + 1 \in 0 .. FdSetSize /\ n \in Int
    BY <1>1, <1>2, <1>3, <1>4, Numbers
<1>11. pc' \in {"select", "scan"} /\ (pc' = "scan" => n >= 1)
    BY <1>1, <1>2, <1>5
<1>12. TypeOK'
    BY <1>5, <1>7, <1>8, <1>9, <1>10, <1>11 DEF TypeOK, NetInv
<1>13. UsedFds' = UsedFds \ {fd} /\ UsedSlots' = UsedSlots \ {j}
    BY <1>8, <1>9 DEF UsedFds, UsedSlots
<1>14. \A x \in UsedFds' : peer'[x] = peer[x] /\ peer[x] # q
    BY <1>1, <1>4, <1>9, <1>13, SlotsHoldSockets DEF SetsInv
<1>15. \A x \in UsedSlots' : client'[x] = client[x] /\ client[x] # fd
    BY <1>1, <1>3, <1>8, <1>13, SlotsHoldSockets DEF SetsInv
<1>16. SetsInv'
    <2>1. pc' # "wild"
        BY <1>11
    <2>2. {peer'[x] : x \in UsedFds'} = Open'
        <3>1. {peer'[x] : x \in UsedFds'} = {peer[x] : x \in UsedFds} \ {q}
            BY <1>1, <1>4, <1>13, <1>14
        <3> QED BY <1>7, <3>1 DEF SetsInv
    <2>3. {client'[x] : x \in UsedSlots'} = UsedFds'
        <3>1. {client'[x] : x \in UsedSlots'} = {client[x] : x \in UsedSlots} \ {fd}
            BY <1>1, <1>3, <1>13, <1>15
        <3> QED BY <1>13, <3>1 DEF SetsInv
    <2>4. allset' = UsedFds' \union {ListenFd}
        BY <1>4, <1>5, <1>13, Numbers DEF SetsInv
    <2>5. \A x \in allset' : x <= maxfd'
        BY <1>5 DEF SetsInv
    <2>6. \A x, y \in UsedFds' : peer'[x] = peer'[y] => x = y
        BY <1>13, <1>14 DEF SetsInv
    <2>7. \A x, y \in UsedSlots' : client'[x] = client'[y] => x = y
        BY <1>13, <1>15 DEF SetsInv
    <2>8. \A x \in UsedSlots' : x <= maxi'
        BY <1>5, <1>13 DEF SetsInv
    <2> QED BY <1>5, <2>1, <2>2, <2>3, <2>4, <2>5, <2>6, <2>7, <2>8 DEF SetsInv
<1>17. Kept' = h
    <2>1. pc' # "write"
        BY <1>11
    <2> QED BY <1>6, <2>1 DEF Kept
<1>18. RoundInv'
    <2>1. PICK k : k = j + 1
        OBVIOUS
    <2>2. \A x \in k .. maxi : x # j /\ x \in Slots /\ client'[x] = client[x]
        BY <1>4, <1>8, <2>1, Numbers DEF Slots
    <2>3. Marked(k)' = Marked(k)
        BY <1>5, <2>2 DEF Marked
    <2>4. \A x \in Marked(k) :
              /\ peer'[client'[x]] = peer[client[x]]
              /\ Readable(peer[client[x]]) => Readable(peer[client[x]])'
        <3> TAKE x \in Marked(k)
        <3>1. x \in k .. maxi /\ x \in UsedSlots
            BY <1>10, <2>1, SlotsHoldSockets DEF Marked
        <3>2. x \in UsedSlots'
            BY <1>13, <2>2, <3>1
        <3>3. client'[x] = client[x] /\ client[x] \in UsedFds /\ client[x] # fd
            BY <1>15, <3>1, <3>2, SlotsHoldSockets
        <3>4. client[x] \in UsedFds'
            BY <1>13, <3>3
        <3>5. peer'[client[x]] = peer[client[x]] /\ peer[client[x]] \in Peers
            BY <1>14, <3>1, <3>4, SlotsHoldSockets
        <3> QED BY <1>7, <3>3, <3>5
    <2>5. Awaited(k, n)'
        BY <1>3, <2>1, <2>3, <2>4, AwaitedStays
    <2> QED BY <1>5, <1>10, <1>11, <2>1, <2>5, RoundGoesOn
<1> QED BY <1>7, <1>12, <1>16, <1>17, <1>18

\* What the loop awaits when it goes on from a step that only writes.
LEMMA WritingStays ==
    ASSUME TypeOK, SetsInv, NEW k \in Nat, NEW n, Awaited(k, n),
           \A x \in Peers : Readable(x)' = Readable(x), UNCHANGED <<peer, client, rset, maxi>>
    PROVE  Awaited(k, n)'
<1>1. Marked(k)' = Marked(k)
    BY DEF Marked
<1>2. \A x \in Marked(k) : /\ peer'[client'[x]] = peer[client[x]]
                           /\ Readable(peer[client[x]]) => Readable(peer[client[x]])'
    <2>1. \A x \in Marked(k) : peer[client[x]] \in Peers
        BY SlotsHoldSockets
    <2> QED BY <2>1
<1> QED BY <1>1, <1>2, AwaitedStays

\* What the last write of a round of writen does to the loop.
LEMMA WrittenHolds ==
    ASSUME IInv, pc = "write", NEW h2,
           h2 = [Kept EXCEPT ![peer[client[i]]] = <<>>], NetInv', Carried(h2)', Open' = Open,
           \A x \in Peers : Readable(x)' = Readable(x),
           buf' = <<>>, i' = i + 1, Done, UNCHANGED <<peer, client, allset, rset, maxfd, maxi>>
    PROVE  IInv'
<1> USE DEF IInv
<1>1. PICK k, n : k = i + 1 /\ n = nready - 1
    OBVIOUS
<1>2. nready >= 1 /\ i \in UsedSlots /\ Awaited(k, n) /\ nready \in Int
    BY <1>1 DEF RoundInv, TypeOK
<1>3. i \in Nat /\ i \in Slots /\ peer[client[i]] \in Peers
    BY <1>2, SlotsHoldSockets
<1>4. /\ k \in Nat /\ n \in Int /\ i' = k /\ nready' = n /\ k \in 0 .. FdSetSize
      /\ pc' \in {"select", "scan"} /\ (pc' = "scan" => n >= 1)
    BY <1>1, <1>2, <1>3, Numbers DEF Done, Slots
<1>5. TypeOK'
    <2>1. <<>> \in Seq(Nat) /\ Len(<<>>) <= BufSize
        BY EmptySeq, Numbers
    <2> QED BY <1>4, <2>1 DEF TypeOK, NetInv
<1>6. SetsInv'
    <2>1. pc' # "wild"
        BY <1>4
    <2> QED BY <2>1 DEF SetsInv, UsedFds, UsedSlots
<1>7. Kept' = h2
    BY <1>3, <1>4 DEF Kept
<1>8. Awaited(k, n)'
    BY <1>2, <1>4, WritingStays
<1>9. RoundInv'
    BY <1>4, <1>8, RoundGoesOn
<1> QED BY <1>5, <1>6, <1>7, <1>9

LEMMA WriteSomeHolds == ASSUME IInv, WriteSome PROVE IInv'
<1> USE DEF IInv
<1>1. PICK h, q : h = Kept /\ q = peer[client[i]]
    OBVIOUS
<1>2. nready >= 1 /\ i \in UsedSlots /\ Awaited(i + 1, nready - 1) /\ pc = "write"
    BY DEF WriteSome, RoundInv
<1>3. q \in Open /\ q \in Peers /\ i \in Nat
    BY <1>1, <1>2, SlotsHoldSockets
<1>4. h \in [Peers -> Seq(Nat)] /\ h[q] = buf /\ Carried(h) /\ buf \in Seq(Nat)
      /\ Len(buf) <= BufSize /\ Len(buf) \in Nat
    BY <1>1, <1>2, <1>3, KeptIsBytes, LenProperties DEF Kept, TypeOK
<1>5. PICK m \in 1 .. Len(buf) :
          Write(peer[client[i]], SubSeq(buf, 1, m)) /\ buf' = SubSeq(buf, m + 1, Len(buf))
    BY DEF WriteSome
<1>6. PICK t, s : t = Taken(buf, m) /\ s = Rest(buf, m)
    OBVIOUS
<1>7. t \in Seq(Nat) /\ s \in Seq(Nat) /\ Len(s) = Len(buf) - m /\ t \o s = buf
    BY <1>4, <1>6, TakenAndRest
<1>8. Write(q, t) /\ buf' = s
    BY <1>1, <1>5, <1>6 DEF Taken, Rest
<1>9. /\ NetInv' /\ Carried([h EXCEPT ![q] = s])' /\ Open' = Open
      /\ \A x \in Peers : Readable(x)' = Readable(x)
    <2>1. h[q] = t \o s
        BY <1>4, <1>7
    <2>2. t \in Seq(Nat) /\ s \in Seq(Nat)
        BY <1>7
    <2> QED BY <1>3, <1>4, <1>8, <2>1, <2>2, WriteKeeps
<1>10. UNCHANGED <<peer, client, allset, rset, maxfd, maxi>>
    BY DEF WriteSome
<1>11. CASE s = <<>>
    <2>1. buf' = <<>> /\ i' = i + 1 /\ Done
        BY <1>8, <1>11 DEF WriteSome
    <2>2. PICK h2 : h2 = [Kept EXCEPT ![peer[client[i]]] = <<>>]
        OBVIOUS
    <2>3. Carried(h2)'
        BY <1>1, <1>9, <1>11, <2>2
    <2> QED BY <1>2, <1>9, <1>10, <2>1, <2>2, <2>3, WrittenHolds
<1>12. CASE s # <<>>
    <2>1. UNCHANGED <<pc, nready, i>>
        BY <1>8, <1>12 DEF WriteSome
    <2>2. TypeOK'
        <3>1. buf' \in Seq(Nat) /\ Len(buf') <= BufSize
            BY <1>4, <1>7, <1>8, Numbers
        <3> QED BY <1>9, <1>10, <2>1, <3>1 DEF TypeOK, NetInv
    <2>3. SetsInv'
        BY <1>9, <1>10, <2>1 DEF SetsInv, UsedFds, UsedSlots
    <2>4. Kept' = [h EXCEPT ![q] = s]
        BY <1>1, <1>2, <1>3, <1>8, <1>10, <2>1 DEF Kept
    <2>5. RoundInv'
        <3>1. PICK k, n : k = i + 1 /\ n = nready - 1
            OBVIOUS
        <3>2. k \in Nat /\ Awaited(k, n)
            BY <1>2, <1>3, <3>1
        <3>3. Awaited(k, n)'
            BY <1>9, <1>10, <3>2, WritingStays
        <3>4. i' + 1 = k /\ nready' - 1 = n
            BY <2>1, <3>1
        <3>5. Awaited(i + 1, nready - 1)'
            BY <3>3, <3>4 DEF Awaited, Marked
        <3>6. i' \in UsedSlots'
            BY <1>2, <1>10, <2>1 DEF UsedSlots
        <3> QED BY <1>2, <2>1, <3>5, <3>6 DEF RoundInv
    <2> QED BY <1>9, <2>2, <2>3, <2>4, <2>5
<1> QED BY <1>11, <1>12

LEMMA WriteFailsHolds == ASSUME IInv, WriteFails PROVE IInv'
<1> USE DEF IInv
<1>1. PICK h, q, h2 : h = Kept /\ q = peer[client[i]] /\ h2 = [h EXCEPT ![q] = <<>>]
    OBVIOUS
<1>2. /\ pc = "write" /\ rst[q] /\ i \in UsedSlots
      /\ UNCHANGED <<net, peer, client, allset, rset, maxfd, maxi>>
    BY <1>1 DEF WriteFails, RoundInv
<1>3. q \in Peers
    BY <1>1, <1>2, SlotsHoldSockets
<1>4. h \in [Peers -> Seq(Nat)] /\ Carried(h)
    BY <1>1, KeptIsBytes
<1>5. Carried(h2)
    BY <1>1, <1>2, <1>3, <1>4, DropKeeps
<1>6. /\ NetInv' /\ Carried(h2)' /\ Open' = Open
      /\ \A x \in Peers : Readable(x)' = Readable(x)
    BY <1>2, <1>5, NetStays
<1>7. CASE buf' = <<>> /\ i' = i + 1 /\ Done
    <2>1. h2 = [Kept EXCEPT ![peer[client[i]]] = <<>>]
        BY <1>1
    <2> QED BY <1>2, <1>6, <1>7, <2>1, WrittenHolds
<1>8. CASE pc' = "killed" /\ UNCHANGED <<nready, i, buf>>
    <2>1. TypeOK'
        BY <1>2, <1>6, <1>8 DEF TypeOK, NetInv
    <2>2. SetsInv'
        BY <1>2, <1>6, <1>8 DEF SetsInv, UsedFds, UsedSlots
    <2>3. RoundInv'
        BY <1>8 DEF RoundInv
    <2>4. Kept' = h2
        BY <1>1, <1>2, <1>8 DEF Kept
    <2> QED BY <1>6, <2>1, <2>2, <2>3, <2>4
<1> QED BY <1>7, <1>8 DEF WriteFails

LEMMA AcceptFailsHolds == ASSUME IInv, AcceptFails PROVE IInv'
<1> USE DEF IInv
<1>1. PICK h : h = Kept
    OBVIOUS
<1>2. /\ pc = "accept" /\ pc' = "exited"
      /\ UNCHANGED <<net, peer, client, allset, rset, maxfd, maxi, nready, i, buf>>
    BY DEF AcceptFails
<1>3. NetInv' /\ Carried(h)' /\ Open' = Open
    BY <1>1, <1>2, NetStays
<1>4. TypeOK'
    BY <1>2, <1>3 DEF TypeOK, NetInv
<1>5. SetsInv'
    BY <1>2, <1>3 DEF SetsInv, UsedFds, UsedSlots
<1>6. RoundInv'
    BY <1>2 DEF RoundInv
<1>7. Kept' = h
    BY <1>1, <1>2 DEF Kept
<1> QED BY <1>3, <1>4, <1>5, <1>6, <1>7

-----------------------------------------------------------------------------
(* The theorems.                                                           *)

LEMMA Invariance == ASSUME FdLimit <= FdSetSize PROVE Spec => []IInv
<1>1. ASSUME IInv, [Next]_vars PROVE IInv'
    <2>1. ASSUME NEW p \in Peers, PeerStep(p), UNCHANGED server PROVE IInv'
        BY <1>1, <2>1, PeersHold
    <2>2. CASE Select
        BY <1>1, <2>2, SelectHolds
    <2>3. CASE AcceptClient
        BY <1>1, <2>3, AcceptHolds
    <2>4. CASE AcceptFails
        BY <1>1, <2>4, AcceptFailsHolds
    <2>5. CASE ReadData
        BY <1>1, <2>5, ReadDataHolds
    <2>6. CASE ReadEnd
        BY <1>1, <2>6, ReadEndHolds
    <2>7. CASE WriteSome
        BY <1>1, <2>7, WriteSomeHolds
    <2>8. CASE WriteFails
        BY <1>1, <2>8, WriteFailsHolds
    <2>9. CASE UNCHANGED vars
        <3>1. PICK h : h = Kept
            OBVIOUS
        <3>2. /\ UNCHANGED <<net, backlog, server>>
              /\ UNCHANGED <<pc, peer, client, allset, rset, maxfd, maxi, nready, i, buf>>
            BY <2>9 DEF vars, net, server
        <3>3. /\ NetInv' /\ Carried(h)' /\ Open' = Open
              /\ \A x \in Peers : Readable(x)' = Readable(x)
            BY <1>1, <3>1, <3>2, NetStays DEF IInv
        <3>4. TypeOK' /\ SetsInv'
            BY <1>1, <3>2, <3>3 DEF IInv, TypeOK, NetInv, SetsInv, UsedFds, UsedSlots
        <3>5. Kept' = h
            BY <3>1, <3>2 DEF Kept
        <3>6. RoundInv'
            BY <1>1, <3>2, <2>9
               DEF IInv, RoundInv, Awaited, Marked, UsedSlots, Readable, vars, net
        <3> QED BY <3>3, <3>4, <3>5, <3>6 DEF IInv
    <2> QED BY <1>1, <2>1, <2>2, <2>3, <2>4, <2>5, <2>6, <2>7, <2>8, <2>9 DEF Next, Server
<1> QED BY <1>1, Initially, PTL DEF Spec

\* As long as the process may not have more descriptors than an fd_set has
\* bits, the sets, the table and the open sockets agree, nothing is written
\* outside of them, and read does not block (the loop of main).
THEOREM SetsHold == ASSUME FdLimit <= FdSetSize PROVE Spec => []SetsMatchSockets
<1>1. ASSUME IInv PROVE SetsMatchSockets
    <2>1. ASSUME pc = "scan" PROVE ToRead # {} /\ Readable(peer[client[Least(ToRead)]])
        BY <1>1, <2>1, FirstAwaited DEF IInv, RoundInv
    <2> QED BY <1>1, <2>1 DEF SetsMatchSockets, ReadNeverBlocks, IInv, SetsInv
<1> QED BY <1>1, Invariance, PTL

\* Whatever part of the bytes read and write take at a time, a client gets back
\* what it has sent, in order and without a gap (read and writen in the loop).
THEOREM SelectEchoesInOrder == ASSUME FdLimit <= FdSetSize PROVE Spec => []EchoIntact
<1>1. ASSUME IInv PROVE EchoIntact
    <2> SUFFICES ASSUME NEW p \in Peers, st[p] \in {"queued", "open"}, ~rst[p]
                 PROVE  outq[p] \o (IF pc = "write" /\ peer[client[i]] = p THEN buf ELSE <<>>)
                            \o inq[p] = [k \in 1 .. sent[p] - got[p] |-> got[p] + k]
        BY DEF EchoIntact
    <2>1. rst[p] = FALSE
        BY <1>1 DEF IInv, NetInv, NetTypeOK
    <2>2. outq[p] \o Kept[p] \o inq[p] = Run(got[p], sent[p])
        BY <1>1, <2>1 DEF IInv, Carried, InOrder
    <2> QED BY <2>2 DEF Kept, Run
<1> QED BY <1>1, Invariance, PTL
=============================================================================
