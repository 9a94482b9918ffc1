------------------------------- MODULE EchoNet -------------------------------
(***************************************************************************)
(* What the echo servers of the repository stand on, and none of its code: *)
(* the kernel's TCP sockets and the peers at their other end, as far as    *)
(* the servers use them (listen, accept, read, write, close).  A byte is   *)
(* its number in the stream its peer sends; the server's descriptor for a  *)
(* connection is represented by the peer.                                  *)
(***************************************************************************)
EXTENDS Integers, Sequences, FiniteSets

CONSTANTS
    Peers,     \* the clients, each with at most one connection at a time
    Rude,      \* the clients that may close before they have read their echo
    Backlog,   \* connections the listening socket holds (LISTENQ)
    MaxBytes,  \* bound: bytes each client sends on one connection
    SndBuf     \* bytes the kernel keeps for a client that does not read

ASSUME EchoNetAssumption ==
    /\ IsFiniteSet(Peers) /\ Rude \subseteq Peers
    /\ Backlog \in Nat \ {0} /\ MaxBytes \in [Peers -> Nat] /\ SndBuf \in Nat \ {0}

VARIABLES
    backlog,   \* connections established and not accepted, in order
    st,        \* st[p]: "none", "queued", "open" or "closed", on the server
    end,       \* end[p]: "up", "shut" (sent FIN, still reads) or "gone"
    rst,       \* rst[p]: the server's socket has received a reset
    inq, outq, \* bytes on the way to the server, and back
    sent, got  \* number of bytes p has sent, and has read back

net == <<backlog, st, end, rst, inq, outq, sent, got>>

Low(a, b) == IF a < b THEN a ELSE b

NetTypeOK ==
    /\ backlog \in Seq(Peers)
    /\ st \in [Peers -> {"none", "queued", "open", "closed"}]
    /\ end \in [Peers -> {"up", "shut", "gone"}]
    /\ rst \in [Peers -> BOOLEAN]
    /\ inq \in [Peers -> Seq(Nat)]
    /\ outq \in [Peers -> Seq(Nat)]
    /\ sent \in [Peers -> Nat] /\ got \in [Peers -> Nat]
    /\ \A p \in Peers : got[p] <= sent[p] /\ sent[p] <= MaxBytes[p]

NetInit ==
    /\ backlog = <<>>
    /\ st = [p \in Peers |-> "none"]
    /\ end = [p \in Peers |-> "up"]
    /\ rst = [p \in Peers |-> FALSE]
    /\ inq = [p \in Peers |-> <<>>]
    /\ outq = [p \in Peers |-> <<>>]
    /\ sent = [p \in Peers |-> 0]
    /\ got = [p \in Peers |-> 0]

-----------------------------------------------------------------------------
(* The peers.                                                              *)

Connect(p) ==
    /\ st[p] = "none" /\ Len(backlog) < Backlog
    /\ backlog' = Append(backlog, p)
    /\ st' = [st EXCEPT ![p] = "queued"]
    /\ UNCHANGED <<end, rst, inq, outq, sent, got>>

Send(p) ==
    /\ st[p] \in {"queued", "open"} /\ end[p] = "up" /\ sent[p] < MaxBytes[p]
    /\ sent' = [sent EXCEPT ![p] = @ + 1]
    /\ inq' = [inq EXCEPT ![p] = Append(@, sent[p] + 1)]
    /\ UNCHANGED <<backlog, st, end, rst, outq, got>>

Receive(p) ==
    /\ end[p] # "gone" /\ outq[p] # <<>>
    /\ outq' = [outq EXCEPT ![p] = Tail(@)]
    /\ got' = [got EXCEPT ![p] = @ + 1]
    /\ UNCHANGED <<backlog, st, end, rst, inq, sent>>

Shutdown(p) ==
    /\ st[p] \in {"queued", "open"} /\ end[p] = "up"
    /\ end' = [end EXCEPT ![p] = "shut"]
    /\ UNCHANGED <<backlog, st, rst, inq, outq, sent, got>>

Leave(p) ==
    /\ p \in Rude /\ st[p] \in {"queued", "open"} /\ end[p] # "gone"
    /\ end' = [end EXCEPT ![p] = "gone"]
    /\ UNCHANGED <<backlog, st, rst, inq, outq, sent, got>>

\* Bytes that reach a peer that has left are answered by a reset.
ResetArrives(p) ==
    /\ st[p] = "open" /\ end[p] = "gone" /\ outq[p] # <<>> /\ ~rst[p]
    /\ rst' = [rst EXCEPT ![p] = TRUE]
    /\ UNCHANGED <<backlog, st, end, inq, outq, sent, got>>

\* The connection is over on both sides; the client may come back.
Forget(p) ==
    /\ st[p] = "closed" /\ (outq[p] = <<>> \/ end[p] = "gone")
    /\ st' = [st EXCEPT ![p] = "none"]
    /\ end' = [end EXCEPT ![p] = "up"]
    /\ rst' = [rst EXCEPT ![p] = FALSE]
    /\ inq' = [inq EXCEPT ![p] = <<>>]
    /\ outq' = [outq EXCEPT ![p] = <<>>]
    /\ sent' = [sent EXCEPT ![p] = 0]
    /\ got' = [got EXCEPT ![p] = 0]
    /\ UNCHANGED backlog

PeerStep(p) == Connect(p) \/ Send(p) \/ Receive(p) \/ Shutdown(p) \/ Leave(p)
               \/ ResetArrives(p) \/ Forget(p)

-----------------------------------------------------------------------------
(* System calls of a server.                                               *)

Open == {p \in Peers : st[p] = "open"}

\* poll and select report the socket, and read on it does not block.
Readable(p) == inq[p] # <<>> \/ end[p] # "up" \/ rst[p]

Accept(p) ==
    /\ backlog # <<>> /\ p = Head(backlog)
    /\ backlog' = Tail(backlog)
    /\ st' = [st EXCEPT ![p] = "open"]
    /\ UNCHANGED <<end, rst, inq, outq, sent, got>>

\* read returns at most n bytes of what has arrived.
Read(p, n) ==
    /\ inq[p] # <<>>
    /\ inq' = [inq EXCEPT ![p] = SubSeq(@, Low(n, Len(@)) + 1, Len(@))]
    /\ UNCHANGED <<backlog, st, end, rst, outq, sent, got>>

\* End of file (n = 0) or a reset connection (n < 0).
AtEnd(p) == inq[p] = <<>> /\ Readable(p)

Close(p) ==
    /\ st' = [st EXCEPT ![p] = "closed"]
    /\ UNCHANGED <<backlog, end, rst, inq, outq, sent, got>>

\* write blocks while the buffer is full and may take a part of the bytes.
Write(p, bytes) ==
    /\ ~rst[p] /\ bytes # <<>> /\ Len(outq[p]) + Len(bytes) <= SndBuf
    /\ outq' = [outq EXCEPT ![p] = @ \o bytes]
    /\ UNCHANGED <<backlog, st, end, rst, inq, sent, got>>
=============================================================================
