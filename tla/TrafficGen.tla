------------------------------ MODULE TrafficGen ------------------------------
(***************************************************************************)
(* simple-traffic-gen: a client asks the server iters times for a message  *)
(* of msg_size bytes, by sending the size, and ends with the size 0.  Both *)
(* use read_exact and write_exact (common.c) on a stream that delivers any *)
(* part of what is asked for.  A step is one read or write with the code   *)
(* up to the next one.                                                     *)
(***************************************************************************)
EXTENDS Integers, Sequences

CONSTANTS
    Iters, MsgSize,     \* options -n and -s; parse_args rejects 0
    SizeBytes,          \* sizeof(msg_size)
    BufSize,            \* DEFAULT_BUF_SIZE, length of read_buf and write_buf
    Window              \* bytes a direction of the stream holds

TrafficGenAssumption ==
    /\ Iters \in Nat \ {0} /\ MsgSize \in Nat \ {0}
    /\ SizeBytes \in Nat \ {0} /\ BufSize \in Nat \ {0} /\ Window \in Nat \ {0}

VARIABLES
    pc,         \* pc["client"], pc["server"]: the call each is in
    left,       \* count in its read_exact or write_exact
    moved,      \* bytes_read or bytes_written there
    i,          \* client: index of the loop
    iters,      \* server: messages sent
    size,       \* server: the bytes of msg_size read so far
    toServer,   \* stream: bytes <<value, index>> of the sizes sent
    toClient,   \* stream: number of message bytes under way
    broken,     \* the connection has been reset
    connected,  \* connect has succeeded
    faulted     \* history: a fault has happened

vars == <<pc, left, moved, i, iters, size, toServer, toClient, broken, connected, faulted>>

Sides == {"client", "server"}
Other(s) == IF s = "client" THEN "server" ELSE "client"
Ended == {"done", "failed"}
Low(a, b) == IF a < b THEN a ELSE b

\* The call of side s transfers message bytes: max_per_read or max_per_write
\* is the size of the buffer and dummy_buf is true; else both are about the
\* four bytes of a size.
Bulk(s) == pc[s] \in {"readData", "writeData"}
MaxPer(s) == IF Bulk(s) THEN BufSize ELSE SizeBytes

\* Mutant: cur_buf is not advanced.
OffsetZero(s) == 0

Offset(s) == IF Bulk(s) THEN 0 ELSE moved[s]          \* cur_buf - buf
ToMove(s) == Low(left[s], MaxPer(s))                  \* bytes_to_read

\* Side s begins a call for n bytes at l, or ends there.
Enter(s, l, n) ==
    /\ pc' = [pc EXCEPT ![s] = l]
    /\ left' = [left EXCEPT ![s] = n]
    /\ moved' = [moved EXCEPT ![s] = 0]

\* n bytes are transferred, and the call is not over.
Advance(s, n) ==
    /\ left' = [left EXCEPT ![s] = @ - n]
    /\ moved' = [moved EXCEPT ![s] = @ + n]
    /\ UNCHANGED pc

Init ==
    /\ pc = [s \in Sides |-> IF s = "client" THEN "connect" ELSE "accept"]
    /\ left = [s \in Sides |-> 0] /\ moved = [s \in Sides |-> 0]
    /\ i = 0 /\ iters = 0 /\ size = <<>>
    /\ toServer = <<>> /\ toClient = 0
    /\ broken = FALSE /\ connected = FALSE /\ faulted = FALSE

-----------------------------------------------------------------------------
(* The connection.                                                         *)

Connect ==
    /\ pc["client"] = "connect"
    /\ Enter("client", "writeSize", SizeBytes)
    /\ connected' = TRUE
    /\ UNCHANGED <<i, iters, size, toServer, toClient, broken, faulted>>

\* connect fails: the server goes on waiting in accept.
ConnectFails ==
    /\ pc["client"] = "connect"
    /\ Enter("client", "failed", 0)
    /\ faulted' = TRUE
    /\ UNCHANGED <<i, iters, size, toServer, toClient, broken, connected>>

\* The connection may have carried data since it was set up, or be broken.
Accept ==
    /\ pc["server"] = "accept" /\ connected
    /\ \/ Enter("server", "readSize", SizeBytes)
       \/ broken /\ Enter("server", "failed", 0)
    /\ UNCHANGED <<i, iters, size, toServer, toClient, broken, connected, faulted>>

Break ==
    /\ ~broken /\ connected
    /\ broken' = TRUE
    /\ faulted' = TRUE
    /\ UNCHANGED <<pc, left, moved, i, iters, size, toServer, toClient, connected>>

\* A process is killed; the kernel closes its socket.
Killed(s) ==
    /\ pc[s] \notin Ended \union {"connect", "accept"}
    /\ Enter(s, "failed", 0)
    /\ faulted' = TRUE
    /\ UNCHANGED <<i, iters, size, toServer, toClient, broken, connected>>

-----------------------------------------------------------------------------
(* client.c                                                                *)

AfterMessage ==
    IF i + 1 < Iters THEN Enter("client", "writeSize", SizeBytes)
    ELSE Enter("client", "writeEnd", SizeBytes)

AfterWrite ==
    IF pc["client"] = "writeSize" THEN Enter("client", "readData", MsgSize)
    ELSE Enter("client", "done", 0)

\* write_exact of msg_size or of complete_msg.
ClientWrite ==
    LET v == IF pc["client"] = "writeSize" THEN MsgSize ELSE 0 IN
    /\ pc["client"] \in {"writeSize", "writeEnd"}
    /\ \E n \in 1 .. Low(ToMove("client"), Window - Len(toServer)) :
        /\ toServer' = toServer \o [k \in 1 .. n |-> <<v, Offset("client") + k>>]
        /\ IF n = left["client"] THEN AfterWrite ELSE Advance("client", n)
    /\ UNCHANGED <<i, iters, size, toClient, broken, connected, faulted>>

\* Mutant: a short read ends the message.
ClientReadOnce ==
    /\ pc["client"] = "readData"
    /\ \E n \in 1 .. Low(ToMove("client"), toClient) :
        /\ toClient' = toClient - n
        /\ AfterMessage /\ i' = i + 1
    /\ UNCHANGED <<iters, size, toServer, broken, connected, faulted>>

\* read_exact of the message.
ClientRead ==
    /\ pc["client"] = "readData"
    /\ \E n \in 1 .. Low(ToMove("client"), toClient) :
        /\ toClient' = toClient - n
        /\ IF n = left["client"] THEN AfterMessage /\ i' = i + 1
                                 ELSE Advance("client", n) /\ UNCHANGED i
    /\ UNCHANGED <<iters, size, toServer, broken, connected, faulted>>

-----------------------------------------------------------------------------
(* server.c                                                                *)

\* The integer that the bytes at msg_size make up: a size that was sent, if
\* they are all of its bytes in order.
ValueOf(bytes) ==
    IF \A k \in 1 .. SizeBytes : bytes[k] = <<bytes[1][1], k>> THEN bytes[1][1] ELSE -1

\* read_exact of msg_size; 0 leaves the loop.
ServerRead ==
    /\ pc["server"] = "readSize"
    /\ \E n \in 1 .. Low(ToMove("server"), Len(toServer)) :
        LET bytes == size \o SubSeq(toServer, 1, n) IN
        /\ toServer' = SubSeq(toServer, n + 1, Len(toServer))
        /\ IF n < left["server"] THEN size' = bytes /\ Advance("server", n)
           ELSE /\ size' = <<>>
                /\ IF ValueOf(bytes) = 0 THEN Enter("server", "done", 0)
                   ELSE Enter("server", "writeData", ValueOf(bytes))
    /\ UNCHANGED <<i, iters, toClient, broken, connected, faulted>>

\* write_exact of a message.
ServerWrite ==
    /\ pc["server"] = "writeData"
    /\ \E n \in 1 .. Low(ToMove("server"), Window - toClient) :
        /\ toClient' = toClient + n
        /\ IF n = left["server"]
           THEN Enter("server", "readSize", SizeBytes) /\ iters' = iters + 1
           ELSE Advance("server", n) /\ UNCHANGED iters
    /\ UNCHANGED <<i, size, toServer, broken, connected, faulted>>

-----------------------------------------------------------------------------
(* read or write returns 0 or an error: the process closes and fails.      *)

Writing(s) == pc[s] \in {"writeSize", "writeEnd", "writeData"}
Reading(s) == pc[s] \in {"readSize", "readData"}
Arrived(s) == IF s = "client" THEN toClient > 0 ELSE toServer # <<>>

\* Mutant: end of file is taken for no data yet.
FailOnErrorOnly(s) ==
    /\ pc[s] \notin Ended \union {"connect", "accept"}
    /\ broken
    /\ Enter(s, "failed", 0)
    /\ UNCHANGED <<i, iters, size, toServer, toClient, broken, connected, faulted>>

\* The connection is broken; or the other side has closed it, and s writes,
\* or reads and has taken everything that had arrived.
Fail(s) ==
    /\ pc[s] \notin Ended \union {"connect", "accept"}
    /\ \/ broken
       \/ pc[Other(s)] \in Ended /\ (Reading(s) => ~Arrived(s))
    /\ Enter(s, "failed", 0)
    /\ UNCHANGED <<i, iters, size, toServer, toClient, broken, connected, faulted>>

ClientMoves == ClientWrite \/ ClientRead \/ Fail("client")
ServerMoves == Accept \/ ServerRead \/ ServerWrite \/ Fail("server")
Next == Connect \/ ConnectFails \/ Break \/ ClientMoves \/ ServerMoves \/ \E s \in Sides : Killed(s)

Spec == Init /\ [][Next]_vars

-----------------------------------------------------------------------------
(* Properties.                                                             *)

TypeOK ==
    /\ pc \in [Sides -> {"connect", "accept", "writeSize", "readData", "writeEnd",
                         "readSize", "writeData", "done", "failed"}]
    /\ left \in [Sides -> 0 .. MsgSize + SizeBytes]
    /\ moved \in [Sides -> 0 .. MsgSize + SizeBytes]
    /\ i \in 0 .. Iters /\ iters \in 0 .. Iters
    /\ size \in Seq({0, MsgSize} \X (1 .. SizeBytes))
    /\ toServer \in Seq({0, MsgSize} \X (1 .. SizeBytes))
    /\ toClient \in 0 .. Window
    /\ broken \in BOOLEAN /\ connected \in BOOLEAN /\ faulted \in BOOLEAN

\* The sizes stay in frame: however reads and writes are cut, the server
\* holds a prefix of the size that the client's write is about, or all of it.
\* And every call stays inside the buffer of its caller (common.h: "To avoid
\* buffer overflow, the length of buf should be at least count when dummy_buf
\* = false, and at least min{count, max_per_read} otherwise").
Framed ==
    LET v == IF pc["client"] \in {"writeEnd", "done"} THEN 0 ELSE MsgSize IN
    /\ TypeOK
    /\ pc["server"] = "readSize" =>
           \A k \in 1 .. Len(size \o toServer) :
               (size \o toServer)[k] = <<v, k>> \/ pc["client"] = "failed"
    /\ \A s \in Sides : Writing(s) \/ Reading(s) =>
           Offset(s) + ToMove(s) <= IF Bulk(s) THEN BufSize ELSE SizeBytes

\* A run that succeeds has transferred every message: server.c prints the
\* number that client.c was asked for.
SuccessIsComplete ==
    /\ pc["client"] = "done" => i = Iters
    /\ pc["server"] = "done" => iters = Iters

\* Request and answer alternate: the server has sent exactly the messages
\* that the client has read, but for the one under way, and the bytes of that
\* one are those the client has read of it, those under way and those left; so
\* that in the end nothing is missing.
MessageConserved ==
    /\ SuccessIsComplete
    /\ i <= iters /\ iters <= i + 1
    /\ pc["client"] = "readData" /\ pc["server"] = "writeData" =>
           moved["server"] = moved["client"] + toClient
    /\ pc["client"] = "readData" /\ pc["server"] = "readSize" /\ iters = i + 1 =>
           left["client"] = toClient
    /\ pc["client"] \in {"writeSize", "writeEnd", "done"} => toClient = 0 /\ iters = i
=============================================================================
