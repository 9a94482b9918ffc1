------------------------------ MODULE PollServer ------------------------------
(***************************************************************************)
(* poll-echo-server.c: one process that serves every client with poll().   *)
(* A step is one system call with the bookkeeping up to the next one.      *)
(***************************************************************************)
EXTENDS EchoNet

CONSTANTS
    OpenMax,   \* sysconf(_SC_OPEN_MAX): slots of clients[], and descriptors
    BaseFds,   \* descriptors that are not connections: stdio and listenfd
    BufSize,   \* BUF_SIZE
    Free       \* -1 in clients[i].fd

ASSUME PollServerAssumption ==
    /\ OpenMax \in Nat /\ BaseFds \in 1 .. OpenMax /\ BufSize \in Nat \ {0}
    /\ Free \notin Peers

VARIABLES
    pc,        \* "poll", "accept", "scan", "write", "exited" or "killed"
    client,    \* client[i]: clients[i].fd for i >= 1 (clients[0] is listenfd)
    revents,   \* revents[i]: clients[i].revents holds POLLRDNORM or POLLERR
    maxi, nready,
    i,         \* index of the loop over clients[]
    buf        \* what is left to write of the bytes read from client[i]

server == <<pc, client, revents, maxi, nready, i, buf>>
vars == <<net, server>>

Slots == 1 .. OpenMax - 1
Used == {j \in Slots : client[j] # Free}
Least(S) == CHOOSE j \in S : \A k \in S : j <= k

\* Before the first poll the array is what the stack held.
Init ==
    /\ NetInit
    /\ pc = "poll"
    /\ client = [j \in Slots |-> Free]
    /\ revents \in [0 .. OpenMax - 1 -> BOOLEAN]
    /\ maxi = 0 /\ nready = 0 /\ i = 0 /\ buf = <<>>

\* Mutant: listenfd is not among the polled descriptors.
ReportedClient(j) == j # 0 /\ client[j] # Free /\ Readable(client[j])

\* The entries the kernel reports among clients[0 .. maxi]; an entry with a
\* negative descriptor is skipped and its revents cleared.
Reported(j) == IF j = 0 THEN backlog # <<>>
               ELSE client[j] # Free /\ Readable(client[j])

Poll ==
    LET R == {j \in 0 .. maxi : Reported(j)} IN
    /\ pc = "poll" /\ R # {}
    /\ revents' = [j \in 0 .. OpenMax - 1 |-> IF j <= maxi THEN j \in R ELSE revents[j]]
    /\ nready' = Cardinality(R)
    /\ i' = 1
    /\ pc' = IF 0 \in R THEN "accept" ELSE "scan"
    /\ UNCHANGED <<net, client, maxi, buf>>

\* First free slot, OPEN_MAX when there is none.
FreeSlot == IF Used = Slots THEN OpenMax ELSE Least(Slots \ Used)

\* accept succeeds.  The new slot's revents is left as it is.  When there is
\* no slot the connection is closed, yet maxi becomes OPEN_MAX.
AcceptClient ==
    LET p == Head(backlog)  s == FreeSlot IN
    /\ pc = "accept" /\ Cardinality(Open) + BaseFds < OpenMax
    /\ IF s = OpenMax
       THEN /\ backlog' = Tail(backlog) /\ st' = [st EXCEPT ![p] = "closed"]
            /\ UNCHANGED <<client, end, rst, inq, outq, sent, got>>
       ELSE Accept(p) /\ client' = [client EXCEPT ![s] = p]
    /\ maxi' = IF s > maxi THEN s ELSE maxi
    /\ nready' = nready - 1
    /\ pc' = IF nready = 1 THEN "poll" ELSE "scan"
    /\ UNCHANGED <<revents, i, buf>>

\* accept finds no descriptor left (EMFILE): main returns.
AcceptFails ==
    /\ pc = "accept" /\ Cardinality(Open) + BaseFds >= OpenMax
    /\ pc' = "exited"
    /\ UNCHANGED <<net, client, revents, maxi, nready, i, buf>>

\* Entries the loop still has to read from.  It never runs out of them before
\* nready does (ReadNeverBlocks), so that its end at i > maxi is no action.
ToRead == {j \in i .. maxi : client[j] # Free /\ revents[j]}

\* Mutant: the loop always runs up to maxi.
DoneToTheEnd == /\ nready' = nready - 1
                /\ pc' = "scan"

\* --nready <= 0 ends the round.
Done == /\ nready' = nready - 1
        /\ pc' = IF nready <= 1 THEN "poll" ELSE "scan"

ReadData ==
    LET j == Least(ToRead)  p == client[j] IN
    /\ pc = "scan" /\ ToRead # {}
    /\ Read(p, BufSize)
    /\ buf' = SubSeq(inq[p], 1, Low(BufSize, Len(inq[p])))
    /\ i' = j
    /\ pc' = "write"
    /\ UNCHANGED <<client, revents, maxi, nready>>

\* read returned 0 or -1.
ReadEnd ==
    LET j == Least(ToRead)  p == client[j] IN
    /\ pc = "scan" /\ ToRead # {} /\ AtEnd(p)
    /\ Close(p)
    /\ client' = [client EXCEPT ![j] = Free]
    /\ i' = j + 1
    /\ Done
    /\ UNCHANGED <<revents, maxi, buf>>

\* Mutant: what a partial write has left over is not written.
WriteOnce ==
    /\ pc = "write"
    /\ \E k \in 1 .. Len(buf) : Write(client[i], SubSeq(buf, 1, k))
    /\ buf' = <<>>
    /\ i' = i + 1
    /\ Done
    /\ UNCHANGED <<client, revents, maxi>>

\* One write of writen: it goes on until everything is written.
WriteSome ==
    /\ pc = "write"
    /\ \E k \in 1 .. Len(buf) :
        /\ Write(client[i], SubSeq(buf, 1, k))
        /\ buf' = SubSeq(buf, k + 1, Len(buf))
    /\ IF buf' = <<>> THEN i' = i + 1 /\ Done ELSE UNCHANGED <<pc, nready, i>>
    /\ UNCHANGED <<client, revents, maxi>>

\* The peer has reset the connection: writen returns -1, which nobody reads,
\* or SIGPIPE ends the process.
WriteFails ==
    /\ pc = "write" /\ rst[client[i]]
    /\ \/ buf' = <<>> /\ i' = i + 1 /\ Done
       \/ pc' = "killed" /\ UNCHANGED <<nready, i, buf>>
    /\ UNCHANGED <<net, client, revents, maxi>>

Server == Poll \/ AcceptClient \/ AcceptFails \/ ReadData \/ ReadEnd
          \/ WriteSome \/ WriteFails

Next == Server \/ \E p \in Peers : PeerStep(p) /\ UNCHANGED server

Spec == Init /\ [][Next]_vars

\* The process is scheduled, and what is sent to a peer is read or reset.
FairSpec == Spec /\ WF_vars(Server)
                 /\ \A p \in Peers : WF_vars((Receive(p) \/ ResetArrives(p)) /\ UNCHANGED server)

-----------------------------------------------------------------------------
(* Properties.                                                             *)

TypeOK ==
    /\ NetTypeOK
    /\ pc \in {"poll", "accept", "scan", "write", "exited", "killed"}
    /\ client \in [Slots -> Peers \union {Free}]
    /\ revents \in [0 .. OpenMax - 1 -> BOOLEAN]
    /\ maxi \in 0 .. OpenMax /\ nready \in Int /\ i \in 0 .. OpenMax
    /\ buf \in Seq(Nat) /\ Len(buf) <= BufSize

\* read is called on a socket that is "readable or errors occur" (line 153)
\* and so never blocks the one process that serves everybody.  The slot that
\* accept has just filled may hold an arbitrary revents: counting nready down
\* is what ends the round before the loop reaches it, and no sooner than the
\* last socket reported has been read.
ReadNeverBlocks ==
    pc = "scan" => ToRead # {} /\ Readable(client[Least(ToRead)])

\* The table and the open connections are the same thing: every descriptor
\* accept returned is in one slot, at or below maxi, until it is closed; and
\* the "too many clients" branch (lines 130-133), which goes on to write behind
\* the array, is never taken, for descriptors run out before slots do.
\* What poll() has reported is still true of the socket that is read.
TableMatchesSockets ==
    /\ TypeOK
    /\ {client[j] : j \in Used} = Open
    /\ \A j, k \in Used : client[j] = client[k] => j = k
    /\ \A j \in Used : j <= maxi
    /\ maxi < OpenMax
    /\ ReadNeverBlocks

\* What a client gets back is what it has sent, in order and without a gap.
EchoIntact ==
    \A p \in Peers : st[p] \in {"queued", "open"} /\ ~rst[p] /\ pc # "killed" =>
        outq[p] \o (IF pc = "write" /\ client[i] = p THEN buf ELSE <<>>) \o inq[p]
            = [k \in 1 .. sent[p] - got[p] |-> got[p] + k]

\* Every byte comes back, unless the server has ended or the client left.
EchoedEventually ==
    \A p \in Peers : sent[p] > got[p] ~>
        sent[p] = got[p] \/ end[p] = "gone" \/ pc \in {"exited", "killed"}
=============================================================================
