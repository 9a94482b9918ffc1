------------------------------ MODULE ForkServer ------------------------------
(***************************************************************************)
(* tcpserv.c: a parent that accepts connections and forks a child for each *)
(* of them, and a SIGCHLD handler that collects the children that ended.   *)
(* A step is one system call.  SIGCHLD does not count: several children    *)
(* may end before the handler runs once.                                   *)
(***************************************************************************)
EXTENDS EchoNet

CONSTANTS
    Pids,         \* processes the server may have besides the parent
    BufSize,      \* MAXLINE
    Nobody,       \* no connection
    AcceptFaults  \* TRUE: accept may fail with an error that is not EINTR

ASSUME ForkServerAssumption ==
    BufSize \in Nat \ {0} /\ Nobody \notin Peers /\ AcceptFaults \in BOOLEAN

VARIABLES
    parent,    \* "accept", "fork", "close" or "exited"
    connfd,    \* connection behind the parent's connfd, while it is open there
    sigchld,   \* SIGCHLD is pending for the parent
    handler,   \* sig_chld runs
    child,     \* child[i]: "none", "read", "write", "close" or "zombie"
    peer, buf  \* child i: its connection, and bytes read and not yet written

server == <<parent, connfd, sigchld, handler, child, peer, buf>>
vars == <<net, server>>

Live(i) == child[i] \in {"read", "write", "close"}

Init ==
    /\ NetInit
    /\ parent = "accept" /\ connfd = Nobody
    /\ sigchld = FALSE /\ handler = FALSE
    /\ child = [i \in Pids |-> "none"]
    /\ peer = [i \in Pids |-> Nobody]
    /\ buf = [i \in Pids |-> <<>>]

-----------------------------------------------------------------------------
(* The parent's loop; it does not run while the handler does.              *)

ParentAccept ==
    /\ parent = "accept" /\ ~handler
    /\ backlog # <<>>
    /\ Accept(Head(backlog))
    /\ connfd' = Head(backlog)
    /\ parent' = "fork"
    /\ UNCHANGED <<sigchld, handler, child, peer, buf>>

\* An error that is not EINTR ends the program.
AcceptFails ==
    /\ AcceptFaults /\ parent = "accept" /\ ~handler
    /\ parent' = "exited"
    /\ UNCHANGED <<net, connfd, sigchld, handler, child, peer, buf>>

\* The child has its own copy of connfd.
Fork ==
    /\ parent = "fork" /\ ~handler
    /\ \E i \in Pids :
        /\ child[i] = "none"
        /\ child' = [child EXCEPT ![i] = "read"]
        /\ peer' = [peer EXCEPT ![i] = connfd]
    /\ parent' = "close"
    /\ UNCHANGED <<net, connfd, sigchld, handler, buf>>

\* fork returns -1, which the parent takes for the pid of a child.
ForkFails ==
    /\ parent = "fork" /\ ~handler
    /\ parent' = "close"
    /\ UNCHANGED <<net, connfd, sigchld, handler, child, peer, buf>>

\* A connection ends when nobody has a descriptor for it any more.
CloseUnlessHeld(p, holders) == IF holders = {} THEN Close(p) ELSE UNCHANGED net

\* Mutant: the parent keeps its copy of connfd.
ParentForgets ==
    /\ parent = "close" /\ ~handler
    /\ parent' = "accept"
    /\ UNCHANGED <<net, connfd, sigchld, handler, child, peer, buf>>

ParentClose ==
    /\ parent = "close" /\ ~handler
    /\ CloseUnlessHeld(connfd, {i \in Pids : Live(i) /\ peer[i] = connfd})
    /\ connfd' = Nobody
    /\ parent' = "accept"
    /\ UNCHANGED <<sigchld, handler, child, peer, buf>>

-----------------------------------------------------------------------------
(* sig_chld                                                                *)

Deliver ==
    /\ sigchld /\ ~handler /\ parent # "exited"
    /\ sigchld' = FALSE /\ handler' = TRUE
    /\ UNCHANGED <<net, parent, connfd, child, peer, buf>>

\* waitpid collects a child.
Reap ==
    /\ handler
    /\ \E i \in Pids :
        /\ child[i] = "zombie"
        /\ child' = [child EXCEPT ![i] = "none"]
        /\ peer' = [peer EXCEPT ![i] = Nobody]
    /\ UNCHANGED <<net, parent, connfd, sigchld, handler, buf>>

\* waitpid returns 0 or -1.
HandlerReturns ==
    /\ handler /\ \A i \in Pids : child[i] # "zombie"
    /\ handler' = FALSE
    /\ UNCHANGED <<net, parent, connfd, sigchld, child, peer, buf>>

-----------------------------------------------------------------------------
(* A child: str_echo, close, exit.                                         *)

ChildRead(i) ==
    /\ child[i] = "read"
    /\ Read(peer[i], BufSize)
    /\ buf' = [buf EXCEPT ![i] = SubSeq(inq[peer[i]], 1, Low(BufSize, Len(inq[peer[i]])))]
    /\ child' = [child EXCEPT ![i] = "write"]
    /\ UNCHANGED <<parent, connfd, sigchld, handler, peer>>

\* Mutant: the end of the stream is acted upon before the bytes are read.
ChildEndEarly(i) ==
    /\ child[i] = "read" /\ end[peer[i]] # "up"
    /\ child' = [child EXCEPT ![i] = "close"]
    /\ UNCHANGED <<net, parent, connfd, sigchld, handler, peer, buf>>

ChildReadEnd(i) ==
    /\ child[i] = "read" /\ AtEnd(peer[i])
    /\ child' = [child EXCEPT ![i] = "close"]
    /\ UNCHANGED <<net, parent, connfd, sigchld, handler, peer, buf>>

\* Mutant: what a partial write has left over is not written.
ChildWriteOnce(i) ==
    /\ child[i] = "write"
    /\ \E k \in 1 .. Len(buf[i]) : Write(peer[i], SubSeq(buf[i], 1, k))
    /\ buf' = [buf EXCEPT ![i] = <<>>]
    /\ child' = [child EXCEPT ![i] = "read"]
    /\ UNCHANGED <<parent, connfd, sigchld, handler, peer>>

ChildWrite(i) ==
    /\ child[i] = "write"
    /\ \E k \in 1 .. Len(buf[i]) :
        /\ Write(peer[i], SubSeq(buf[i], 1, k))
        /\ buf' = [buf EXCEPT ![i] = SubSeq(@, k + 1, Len(@))]
    /\ child' = [child EXCEPT ![i] = IF buf'[i] = <<>> THEN "read" ELSE "write"]
    /\ UNCHANGED <<parent, connfd, sigchld, handler, peer>>

\* The process ends, its descriptor with it, and the parent is told.
Exit(i) ==
    /\ CloseUnlessHeld(peer[i], {connfd} \intersect {peer[i]})
    /\ child' = [child EXCEPT ![i] = "zombie"]
    /\ sigchld' = TRUE
    /\ buf' = [buf EXCEPT ![i] = <<>>]
    /\ UNCHANGED <<parent, connfd, handler, peer>>

\* writen returns -1, which str_echo does not look at, or SIGPIPE kills.
ChildWriteFails(i) ==
    /\ child[i] = "write" /\ rst[peer[i]]
    /\ \/ /\ child' = [child EXCEPT ![i] = "read"]
          /\ buf' = [buf EXCEPT ![i] = <<>>]
          /\ UNCHANGED <<net, parent, connfd, sigchld, handler, peer>>
       \/ Exit(i)

ChildExit(i) == child[i] = "close" /\ Exit(i)

Parent == ParentAccept \/ AcceptFails \/ Fork \/ ForkFails \/ ParentClose
Handler == Deliver \/ Reap \/ HandlerReturns
Child(i) == ChildRead(i) \/ ChildReadEnd(i) \/ ChildWrite(i) \/ ChildWriteFails(i) \/ ChildExit(i)

Server == Parent \/ Handler \/ \E i \in Pids : Child(i)

Next == Server \/ \E p \in Peers : PeerStep(p) /\ UNCHANGED server
Spec == Init /\ [][Next]_vars

-----------------------------------------------------------------------------
(* Properties.                                                             *)

TypeOK ==
    /\ NetTypeOK
    /\ parent \in {"accept", "fork", "close", "exited"}
    /\ connfd \in Peers \union {Nobody}
    /\ sigchld \in BOOLEAN /\ handler \in BOOLEAN
    /\ child \in [Pids -> {"none", "read", "write", "close", "zombie"}]
    /\ peer \in [Pids -> Peers \union {Nobody}]
    /\ buf \in [Pids -> Seq(Nat)]
    /\ \A i \in Pids : Len(buf[i]) <= BufSize

\* No child that ended is overlooked, though signals merge: there is a signal
\* on its way or the handler has not made its last call of waitpid.
NoLostChild ==
    (\E i \in Pids : child[i] = "zombie") => sigchld \/ handler

\* A connection is open exactly while the parent or its one child has a
\* descriptor for it: none leaks, and no client waits for a FIN that the
\* parent's copy of connfd holds back.  And the process of a connection that is
\* over is collected.
SocketsHeld ==
    /\ TypeOK /\ NoLostChild
    /\ Open = ({connfd} \ {Nobody}) \union {peer[i] : i \in {j \in Pids : Live(j)}}
    /\ \A i, j \in Pids : Live(i) /\ Live(j) /\ peer[i] = peer[j] => i = j
    /\ connfd # Nobody <=> parent \in {"fork", "close"}

\* What a client gets back is what it has sent, in order and without a gap.
EchoIntact ==
    \A p \in Open : ~rst[p] =>
        LET B == {i \in Pids : child[i] = "write" /\ peer[i] = p}
            held == IF B = {} THEN <<>> ELSE buf[CHOOSE i \in B : TRUE]
        IN  outq[p] \o held \o inq[p] = [k \in 1 .. sent[p] - got[p] |-> got[p] + k]
=============================================================================
