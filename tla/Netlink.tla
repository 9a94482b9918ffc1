------------------------------- MODULE Netlink -------------------------------
(***************************************************************************)
(* netlink-latency: the kernel module answers each message with "ACK"; a   *)
(* user sends "Hello" and waits.  A user's sendmsg runs the module's       *)
(* input handler before it returns.                                        *)
(***************************************************************************)
EXTENDS Integers

CONSTANTS
    Users,
    MaxLoads     \* bound on the times the module is loaded

VARIABLES
    module,      \* "out", "creating", "in"
    registered,  \* NETLINK_USER is registered, with the handler
    nl_sk,       \* the static pointer is set
    loads,
    at,          \* of a user: "start", "send", "recv", "done" or "failed"
    inbox,       \* ACKs in the user's socket
    fault,       \* nl_sk was used while it was NULL
    lost         \* history: users whose message got no answer

vars == <<module, registered, nl_sk, loads, at, inbox, fault, lost>>

Init ==
    /\ module = "out" /\ registered = FALSE /\ nl_sk = FALSE
    /\ loads = 0
    /\ at = [u \in Users |-> "start"]
    /\ inbox = [u \in Users |-> 0]
    /\ fault = FALSE /\ lost = {}

\* An open socket of the protocol holds the module.
Pinned == \E u \in Users : at[u] \in {"send", "recv"}

\* netlink_kernel_create makes the handler reachable before its result is
\* assigned to nl_sk, or fails.
netlink_latency_init ==
    \/ /\ module = "out" /\ loads < MaxLoads
       /\ loads' = loads + 1
       /\ \/ module' = "creating" /\ registered' = TRUE /\ nl_sk' = FALSE
          \/ module' = "out" /\ nl_sk' = FALSE /\ UNCHANGED registered
       /\ UNCHANGED <<at, inbox, fault, lost>>
    \/ /\ module = "creating"
       /\ module' = "in" /\ nl_sk' = TRUE
       /\ UNCHANGED <<registered, loads, at, inbox, fault, lost>>

\* The variables of a module go with it.
netlink_latency_exit ==
    /\ module = "in" /\ ~Pinned
    /\ module' = "out" /\ registered' = FALSE /\ nl_sk' = FALSE
    /\ UNCHANGED <<loads, at, inbox, fault, lost>>

\* Mutant: the answer goes to everyone who listens.
on_receiving_data_mcast(pid) ==
    /\ nl_sk
    /\ inbox' = [u \in Users |-> inbox[u] + (IF at[u] \in {"send", "recv"} THEN 1 ELSE 0)]
    /\ UNCHANGED <<fault, lost>>

\* nlmsg_new may fail; the answer goes to the sender's port.
on_receiving_data(pid) ==
    \/ /\ lost' = lost \union {pid}
       /\ UNCHANGED <<inbox, fault>>
    \/ /\ nl_sk
       /\ inbox' = [inbox EXCEPT ![pid] = @ + 1]
       /\ UNCHANGED <<fault, lost>>
    \/ /\ ~nl_sk
       /\ fault' = TRUE
       /\ UNCHANGED <<inbox, lost>>

\* socket and bind: there is no such protocol without the module.
Socket(u) ==
    /\ at[u] = "start"
    /\ at' = [at EXCEPT ![u] = IF registered THEN "send" ELSE "failed"]
    /\ UNCHANGED <<module, registered, nl_sk, loads, inbox, fault, lost>>

sendmsg(u) ==
    /\ at[u] = "send"
    /\ on_receiving_data(u)
    /\ at' = [at EXCEPT ![u] = "recv"]
    /\ UNCHANGED <<module, registered, nl_sk, loads>>

\* recvmsg, the duration, close.
recvmsg(u) ==
    /\ at[u] = "recv" /\ inbox[u] > 0
    /\ inbox' = [inbox EXCEPT ![u] = @ - 1]
    /\ at' = [at EXCEPT ![u] = "done"]
    /\ UNCHANGED <<module, registered, nl_sk, loads, fault, lost>>

Measure(u) == Socket(u) \/ sendmsg(u) \/ recvmsg(u)

Next ==
    /\ ~fault
    /\ \/ netlink_latency_init \/ netlink_latency_exit
       \/ \E u \in Users : Measure(u)

Spec == Init /\ [][Next]_vars

-----------------------------------------------------------------------------
(* Properties.                                                             *)

\* A user that ends has read the one answer to its own message, and one that
\* waits has it coming unless there was no memory for it - for which nobody
\* tells the user, who waits for ever.  The handler uses nl_sk without a
\* socket only while the module is being loaded, between the creation of the
\* socket and the assignment; not after a failed load, and not when the module
\* goes and comes between the messages of several users.
AnsweredOnce ==
    /\ \A u \in Users :
        /\ at[u] = "done" => inbox[u] = 0 /\ u \notin lost
        /\ at[u] = "recv" /\ ~fault => inbox[u] = (IF u \in lost THEN 0 ELSE 1)
        /\ at[u] \in {"start", "send", "failed"} => inbox[u] = 0
        /\ at[u] \in {"send", "recv"} => module # "out"
    /\ fault => module = "creating"
=============================================================================
