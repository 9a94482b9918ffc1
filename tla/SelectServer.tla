----------------------------- MODULE SelectServer -----------------------------
(***************************************************************************)
(* select-echo-server.c: one process that serves every client with         *)
(* select().  Its sets are indexed by descriptor number, so the kernel's   *)
(* table of descriptors is modelled: accept returns the lowest free one.   *)
(* A step is one system call with the bookkeeping up to the next one.      *)
(***************************************************************************)
EXTENDS EchoNet

CONSTANTS
    FdSetSize,  \* FD_SETSIZE: bits of an fd_set, and length of clients[]
    FdLimit,    \* descriptors the process may have (RLIMIT_NOFILE)
    ListenFd,   \* listenfd; the numbers below it are stdio
    BufSize,    \* BUF_SIZE
    Free        \* a descriptor that is not in use

ASSUME SelectServerAssumption ==
    /\ FdSetSize \in Nat /\ FdLimit \in Nat /\ BufSize \in Nat \ {0}
    /\ ListenFd \in 0 .. Low(FdLimit, FdSetSize) - 1
    /\ Free \notin Peers

VARIABLES
    pc,         \* "select", "accept", "scan", "write", "exited", "killed"
                \* or, once memory outside clients[] or the sets is written, "wild"
    peer,       \* peer[fd]: the connection descriptor fd stands for
    client,     \* clients[]
    allset, rset, maxfd, maxi, nready,
    i,          \* index of the loop over clients[]
    buf         \* what is left to write of the bytes read from clients[i]

server == <<pc, peer, client, allset, rset, maxfd, maxi, nready, i, buf>>
vars == <<net, server>>

Fds == ListenFd + 1 .. FdLimit - 1
Slots == 0 .. FdSetSize - 1
UsedFds == {fd \in Fds : peer[fd] # Free}
UsedSlots == {j \in Slots : client[j] # -1}
Least(S) == CHOOSE j \in S : \A k \in S : j <= k

Init ==
    /\ NetInit
    /\ pc = "select"
    /\ peer = [fd \in Fds |-> Free]
    /\ client = [j \in Slots |-> -1]
    /\ allset = {ListenFd} /\ rset = {}
    /\ maxfd = ListenFd /\ maxi = -1 /\ nready = 0 /\ i = 0 /\ buf = <<>>

Ready ==
    {fd \in allset : fd <= maxfd /\ IF fd = ListenFd THEN backlog # <<>> ELSE Readable(peer[fd])}

\* With a closed descriptor in allset select fails (EBADF) and is called
\* again, for ever.
Select ==
    /\ pc = "select"
    /\ allset \ {ListenFd} \subseteq UsedFds
    /\ Ready # {}
    /\ rset' = Ready
    /\ nready' = Cardinality(Ready)
    /\ i' = 0
    /\ pc' = IF ListenFd \in Ready THEN "accept" ELSE "scan"
    /\ UNCHANGED <<net, peer, client, allset, maxfd, maxi, buf>>

\* First free slot, FD_SETSIZE when there is none.
FreeSlot == IF UsedSlots = Slots THEN FdSetSize ELSE Least(Slots \ UsedSlots)

\* Mutant: maxfd is set to the new descriptor even when it is lower.
AcceptSettingMaxfd ==
    LET fd == Least(Fds \ UsedFds)
        s == FreeSlot IN
    /\ pc = "accept" /\ UsedFds # Fds /\ fd < FdSetSize /\ s < FdSetSize
    /\ Accept(Head(backlog))
    /\ peer' = [peer EXCEPT ![fd] = Head(backlog)]
    /\ client' = [client EXCEPT ![s] = fd]
    /\ allset' = allset \union {fd}
    /\ maxfd' = fd
    /\ maxi' = IF s > maxi THEN s ELSE maxi
    /\ nready' = nready - 1
    /\ pc' = IF nready = 1 THEN "select" ELSE "scan"
    /\ UNCHANGED <<rset, i, buf>>

\* accept succeeds.  Without a free slot the connection is closed, but its
\* descriptor enters allset and maxi leaves the array; FD_SET of a descriptor
\* from FD_SETSIZE on writes outside of allset.
AcceptClient ==
    LET p == Head(backlog)
        fd == Least(Fds \ UsedFds)
        s == FreeSlot IN
    /\ pc = "accept" /\ UsedFds # Fds
    /\ IF s = FdSetSize
       THEN /\ backlog' = Tail(backlog) /\ st' = [st EXCEPT ![p] = "closed"]
            /\ UNCHANGED <<peer, client, end, rst, inq, outq, sent, got>>
       ELSE /\ Accept(p)
            /\ peer' = [peer EXCEPT ![fd] = p]
            /\ client' = [client EXCEPT ![s] = fd]
    /\ allset' = allset \union ({fd} \intersect Slots)
    /\ maxfd' = IF fd > maxfd THEN fd ELSE maxfd
    /\ maxi' = IF s > maxi THEN s ELSE maxi
    /\ nready' = nready - 1
    /\ pc' = IF fd >= FdSetSize \/ s = FdSetSize THEN "wild"
             ELSE IF nready = 1 THEN "select" ELSE "scan"
    /\ UNCHANGED <<rset, i, buf>>

\* accept finds no descriptor left (EMFILE): main returns.
AcceptFails ==
    /\ pc = "accept" /\ UsedFds = Fds
    /\ pc' = "exited"
    /\ UNCHANGED <<net, peer, client, allset, rset, maxfd, maxi, nready, i, buf>>

\* Entries of clients[] the loop still has to read from.  It never runs out of
\* them before nready does (ReadNeverBlocks), so that its end at i > maxi is no
\* action.
ToRead == {j \in i .. maxi : client[j] # -1 /\ client[j] \in rset}

\* --nready <= 0 ends the round.
Done == /\ nready' = nready - 1
        /\ pc' = IF nready <= 1 THEN "select" ELSE "scan"

ReadData ==
    LET j == Least(ToRead)  p == peer[client[j]] IN
    /\ pc = "scan" /\ ToRead # {}
    /\ Read(p, BufSize)
    /\ buf' = SubSeq(inq[p], 1, Low(BufSize, Len(inq[p])))
    /\ i' = j /\ pc' = "write"
    /\ UNCHANGED <<peer, client, allset, rset, maxfd, maxi, nready>>

\* Mutant: FD_CLR is forgotten.
CloseKeepingBit ==
    LET j == Least(ToRead)  p == peer[client[j]] IN
    /\ pc = "scan" /\ ToRead # {} /\ AtEnd(p)
    /\ Close(p)
    /\ peer' = [peer EXCEPT ![client[j]] = Free]
    /\ client' = [client EXCEPT ![j] = -1]
    /\ i' = j + 1 /\ Done
    /\ UNCHANGED <<allset, rset, maxfd, maxi, buf>>

\* read returned 0 or -1.
ReadEnd ==
    LET j == Least(ToRead)  p == peer[client[j]] IN
    /\ pc = "scan" /\ ToRead # {} /\ AtEnd(p)
    /\ Close(p)
    /\ peer' = [peer EXCEPT ![client[j]] = Free]
    /\ allset' = allset \ {client[j]}
    /\ client' = [client EXCEPT ![j] = -1]
    /\ i' = j + 1 /\ Done
    /\ UNCHANGED <<rset, maxfd, maxi, buf>>

\* Mutant: what a partial write has left over is not written.
WriteOnce ==
    /\ pc = "write"
    /\ \E k \in 1 .. Len(buf) : Write(peer[client[i]], SubSeq(buf, 1, k))
    /\ buf' = <<>>
    /\ i' = i + 1 /\ Done
    /\ UNCHANGED <<peer, client, allset, rset, maxfd, maxi>>

\* One write of writen: it goes on until everything is written.
WriteSome ==
    /\ pc = "write"
    /\ \E k \in 1 .. Len(buf) :
        /\ Write(peer[client[i]], SubSeq(buf, 1, k))
        /\ buf' = SubSeq(buf, k + 1, Len(buf))
    /\ IF buf' = <<>> THEN i' = i + 1 /\ Done ELSE UNCHANGED <<pc, nready, i>>
    /\ UNCHANGED <<peer, client, allset, rset, maxfd, maxi>>

\* The peer has reset the connection: writen returns -1, which nobody reads,
\* or SIGPIPE ends the process.
WriteFails ==
    /\ pc = "write" /\ rst[peer[client[i]]]
    /\ \/ buf' = <<>> /\ i' = i + 1 /\ Done
       \/ pc' = "killed" /\ UNCHANGED <<nready, i, buf>>
    /\ UNCHANGED <<net, peer, client, allset, rset, maxfd, maxi>>

Server == Select \/ AcceptClient \/ AcceptFails \/ ReadData \/ ReadEnd
          \/ WriteSome \/ WriteFails

Next == Server \/ \E p \in Peers : PeerStep(p) /\ UNCHANGED server

Spec == Init /\ [][Next]_vars

\* The process is scheduled, and what is sent to a peer is read or reset.
FairSpec == Spec /\ WF_vars(Server)
                 /\ \A p \in Peers : WF_vars((Receive(p) \/ ResetArrives(p)) /\ UNCHANGED server)

-----------------------------------------------------------------------------
(* Properties.                                                             *)

TypeOK ==
    /\ NetTypeOK
    /\ pc \in {"select", "accept", "scan", "write", "exited", "killed", "wild"}
    /\ peer \in [Fds -> Peers \union {Free}]
    /\ client \in [Slots -> Fds \union {-1}]
    /\ allset \subseteq 0 .. FdLimit - 1 /\ rset \subseteq 0 .. FdLimit - 1
    /\ maxfd \in 0 .. FdLimit - 1 /\ maxi \in -1 .. FdSetSize
    /\ nready \in Int /\ i \in 0 .. FdSetSize
    /\ buf \in Seq(Nat) /\ Len(buf) <= BufSize

\* read is called on a socket that is readable (line 160), hence never blocks:
\* no bit of rset outlives the connection it was set for, though descriptor
\* numbers are used again; and the round ends no sooner than the last socket
\* reported has been read.
ReadNeverBlocks ==
    pc = "scan" => ToRead # {} /\ Readable(peer[client[Least(ToRead)]])

\* The four places that know the connections agree: the kernel's descriptors,
\* clients[] (each in one slot, at or below maxi), allset, and the open
\* sockets; and select is asked about all of them.  Neither clients[] nor an
\* fd_set is written out of its bounds ("wild"): true while the process may
\* not have more than FD_SETSIZE descriptors, for then the branch for "No
\* enough space in clients array" (line 131), which closes the new connection
\* and goes on, is not reached; false beyond.  And what select() has reported is
\* still true of the socket that is read.
SetsMatchSockets ==
    /\ TypeOK
    /\ pc # "wild"
    /\ {peer[fd] : fd \in UsedFds} = Open
    /\ {client[j] : j \in UsedSlots} = UsedFds
    /\ \A j, k \in UsedSlots : client[j] = client[k] => j = k
    /\ allset = UsedFds \union {ListenFd}
    /\ \A fd \in allset : fd <= maxfd
    /\ \A j \in UsedSlots : j <= maxi
    /\ ReadNeverBlocks

\* What a client gets back is what it has sent, in order and without a gap.
EchoIntact ==
    \A p \in Peers : st[p] \in {"queued", "open"} /\ ~rst[p] /\ pc # "killed" =>
        outq[p] \o (IF pc = "write" /\ peer[client[i]] = p THEN buf ELSE <<>>) \o inq[p]
            = [k \in 1 .. sent[p] - got[p] |-> got[p] + k]

\* Every byte comes back, unless the server has ended or the client left.
EchoedEventually ==
    \A p \in Peers : sent[p] > got[p] ~>
        sent[p] = got[p] \/ end[p] = "gone" \/ pc \in {"exited", "killed"}
=============================================================================
