--------------------------------- MODULE IpIp ---------------------------------
(***************************************************************************)
(* The kernel module of src/ipip/ipip_tcp.c on two hosts with a TCP        *)
(* connection between them: the POST_ROUTING hook puts every packet into   *)
(* another IP packet and lowers the MSS that a SYN announces by the header *)
(* this takes; the PRE_ROUTING hook takes the outer header off.  The       *)
(* module comes and goes at any time.  TCP and the network, which may      *)
(* lose, repeat and reorder, are external.  A hook call changes one packet *)
(* that nobody else sees: one step.                                        *)
(***************************************************************************)
EXTENDS Naturals, Sequences, FiniteSets

CONSTANTS
    Client, Server,   \* the hosts
    MTU,
    IpHdr, TcpHdr,    \* sizes of the headers
    Radix,            \* 2^8, the values of a byte
    SynOptions,       \* the options of SYN packets: their bytes, and where each starts
    DefaultMss        \* what TCP assumes when no MSS is announced

Wrap == Radix * Radix   \* 2^16, the values of mss
Hosts == {Client, Server}
Peer(h) == CHOOSE g \in Hosts : g # h
NoMss == Wrap
Low(a, b) == IF a <= b THEN a ELSE b

\* The number that two bytes from position p make, the high one first (ntohs).
Short(b, p) == Radix * b[p] + b[p + 1]

\* Bytes that the option at ptr takes; kind 1 is No-Operation.
OptionSize(b, ptr) == IF b[ptr] = 1 THEN 1 ELSE b[ptr + 1]

\* What TCP writes: options one after the other up to the end of the header,
\* none of kind 0 (end of list), no two of kind 2 (MSS).
WellFormed(o) ==
    LET b == o.bytes IN
    /\ b \in Seq(0 .. Radix - 1)
    /\ 1 \in o.starts /\ o.starts \subseteq 1 .. Len(b)
    /\ \A p \in o.starts :
          /\ b[p] # 0
          /\ b[p] # 1 => p < Len(b) /\ b[p + 1] > 1
          /\ b[p] = 2 => b[p + 1] = 4
          /\ p + OptionSize(b, p) \in o.starts \union {Len(b) + 1}
          /\ \A q \in o.starts : q > p => q >= p + OptionSize(b, p)
          /\ b[p] = 2 => Short(b, p + 2) \in IpHdr .. MTU - IpHdr - TcpHdr
    /\ \A p, q \in o.starts : b[p] = 2 /\ b[q] = 2 => p = q
    /\ 2 * IpHdr + TcpHdr + Len(b) <= MTU

IpIpAssumption ==
    /\ Client # Server
    /\ MTU \in Nat /\ IpHdr \in Nat \ {0} /\ TcpHdr \in Nat /\ DefaultMss \in Nat
    /\ DefaultMss + TcpHdr + 2 * IpHdr <= MTU
    /\ Radix \in Nat /\ Radix > 4 /\ MTU < Wrap
    /\ SynOptions \subseteq [bytes : Seq(0 .. Radix - 1), starts : SUBSET Nat]
    /\ \A o \in SynOptions : WellFormed(o)

VARIABLES
    outgoing,   \* hosts with nfho_outgoing registered
    incoming,   \* hosts with nfho_incoming registered
    mss,        \* mss[h]: bound that h has from its peer's SYN, NoMss before it
    opts,       \* opts[h]: the options of h's SYN in this connection
    net,        \* packets under way; they stay, and may arrive again
    raw         \* history: hosts whose bound is from a SYN that was not lowered

vars == <<outgoing, incoming, mss, opts, net, raw>>

Init ==
    /\ outgoing = {} /\ incoming = {}
    /\ mss = [h \in Hosts |-> NoMss]
    /\ opts \in [Hosts -> SynOptions]
    /\ net = {} /\ raw = {}

-----------------------------------------------------------------------------
(* ipip_init registers one hook after the other, ipip_exit takes them off  *)
(* in the same order, whatever is under way.                               *)

RegisterOut(h) ==
    /\ h \notin outgoing /\ h \notin incoming
    /\ outgoing' = outgoing \union {h}
    /\ UNCHANGED <<incoming, mss, opts, net, raw>>

RegisterIn(h) ==
    /\ h \in outgoing /\ h \notin incoming
    /\ incoming' = incoming \union {h}
    /\ UNCHANGED <<outgoing, mss, opts, net, raw>>

UnregisterOut(h) ==
    /\ h \in outgoing /\ h \in incoming
    /\ outgoing' = outgoing \ {h}
    /\ UNCHANGED <<incoming, mss, opts, net, raw>>

UnregisterIn(h) ==
    /\ h \notin outgoing /\ h \in incoming
    /\ incoming' = incoming \ {h}
    /\ UNCHANGED <<outgoing, mss, opts, net, raw>>

-----------------------------------------------------------------------------
(* hook_func_out.                                                          *)

\* Mutant: every option is skipped as if it were a No-Operation.
OneByte(b, ptr) == 1

\* offset, how far the loop in reduce_tcp_mss steps.
offset(b, ptr) == OptionSize(b, ptr)

\* The loop breaks at the MSS, and where the next option would not be in the
\* header any more.
Breaks(b, ptr) == b[ptr] = 2 \/ ptr + offset(b, ptr) > Len(b)

Turn(b, ptr) == IF Breaks(b, ptr) THEN ptr ELSE ptr + offset(b, ptr)

\* ptr after each turn of the loop, counted from 1 for the first option.
Turns(b) == LET ptr[n \in 0 .. Len(b)] == IF n = 0 THEN 1 ELSE Turn(b, ptr[n - 1]) IN ptr

ReduceTcpMss(b) ==
    LET ptr == Turns(b)[Len(b)]
        reduced == (Short(b, ptr + 2) + Wrap - IpHdr) % Wrap
    IN  IF b[ptr] = 2
        THEN [b EXCEPT ![ptr + 2] = reduced \div Radix, ![ptr + 3] = reduced % Radix]
        ELSE b

\* Mutant: a tunnelled packet is counted without its new header.
EncapsulateInPlace(p) == [p EXCEPT !.tunnel = TRUE]

Encapsulate(p) == [p EXCEPT !.tunnel = TRUE, !.len = @ + IpHdr]

Reduce(p) == IF p.syn THEN [p EXCEPT !.opts = ReduceTcpMss(@), !.raw = FALSE] ELSE p

\* When skb_linearize fails, a SYN goes into the tunnel as it is.  Without memory
\* for the header the packet is dropped; so it is for the peer when the head has
\* moved and the new header is filled from where the old one was (old_iph).
HookOut(h, p) ==
    \/ h \in outgoing /\ net' = net \union {Encapsulate(Reduce(p))}
    \/ h \in outgoing /\ net' = net \union {Encapsulate(p)} /\ p.syn
    \/ h \in outgoing /\ net' = net
    \/ h \notin outgoing /\ net' = net \union {p}

-----------------------------------------------------------------------------
(* TCP, external.                                                          *)

\* SYN and SYN/ACK, and their retransmissions.
SendSyn(h) ==
    /\ h = Server => mss[h] # NoMss
    /\ HookOut(h, [to |-> Peer(h), syn |-> TRUE, opts |-> opts[h].bytes, raw |-> TRUE,
                   len |-> IpHdr + TcpHdr + Len(opts[h].bytes), tunnel |-> FALSE])
    /\ UNCHANGED <<outgoing, incoming, mss, opts, raw>>

\* A segment as long as the MSS and the MTU of the interface allow.
SendData(h) ==
    /\ mss[h] # NoMss
    /\ HookOut(h, [to |-> Peer(h), syn |-> FALSE, opts |-> <<>>, raw |-> FALSE,
                   len |-> Low(MTU, mss[h] + IpHdr + TcpHdr), tunnel |-> FALSE])
    /\ UNCHANGED <<outgoing, incoming, mss, opts, raw>>

\* What TCP reads from a SYN that was sent with options o and arrives with bytes b.
Announcement(o, b) ==
    IF \E p \in o.starts : o.bytes[p] = 2
    THEN Short(b, 2 + CHOOSE p \in o.starts : o.bytes[p] = 2)
    ELSE DefaultMss

\* hook_func_in: skb_pull of the outer header.
HookIn(p) == IF p.tunnel THEN [p EXCEPT !.tunnel = FALSE, !.len = @ - IpHdr] ELSE p

\* A host without the hook has no use for a tunnelled packet, and a connection
\* none for another copy of the SYN.
Receive(p) ==
    LET q == IF p.to \in incoming THEN HookIn(p) ELSE p
        first == q.syn /\ mss[p.to] = NoMss
    IN
    /\ p \in net /\ ~q.tunnel
    /\ mss' = IF first THEN [mss EXCEPT ![p.to] = Announcement(opts[Peer(p.to)], q.opts)] ELSE mss
    /\ raw' = IF first /\ q.raw THEN raw \union {p.to} ELSE raw
    /\ UNCHANGED <<outgoing, incoming, opts, net>>

\* The connection ends, and the next one may have other options.
Reset ==
    /\ net # {}
    /\ net' = {} /\ raw' = {}
    /\ mss' = [h \in Hosts |-> NoMss]
    /\ opts' \in [Hosts -> SynOptions]
    /\ UNCHANGED <<outgoing, incoming>>

Next ==
    \/ \E h \in Hosts : \/ RegisterOut(h) \/ RegisterIn(h) \/ UnregisterOut(h) \/ UnregisterIn(h)
                        \/ SendSyn(h) \/ SendData(h)
    \/ \E p \in net : Receive(p)
    \/ Reset

Spec == Init /\ [][Next]_vars

-----------------------------------------------------------------------------
(* Properties.                                                             *)

TypeOK ==
    /\ outgoing \subseteq Hosts /\ incoming \subseteq Hosts /\ raw \subseteq Hosts
    /\ mss \in [Hosts -> 0 .. Wrap]
    /\ opts \in [Hosts -> SynOptions]
    /\ \A p \in net : p.to \in Hosts /\ p.len \in Nat

\* What the bound of h is to be: what its peer has announced, and one header
\* less unless the SYN went by the reduction.
Bound(h) ==
    LET o == opts[Peer(h)] IN
    IF h \in raw \/ ~\E p \in o.starts : o.bytes[p] = 2
    THEN Announcement(o, o.bytes)
    ELSE Announcement(o, o.bytes) - IpHdr

\* What the reduction is for: no packet outgrows the MTU by its new header,
\* however the SYNs and the data cross and are repeated, the modules come and
\* go, and wherever in the options the MSS stands.  The exception is data of a
\* host whose bound is from a SYN that nobody has lowered: its peer did not have
\* the module yet, or skb_linearize failed.  A peer that announced nothing is
\* not misread.
FitsMtu ==
    /\ TypeOK
    /\ \A p \in net : p.len > MTU => p.tunnel /\ ~p.syn /\ Peer(p.to) \in raw
    /\ \A h \in Hosts : mss[h] # NoMss => mss[h] = Bound(h)

\* The receiving TCP gets what the sending one has made: each segment in its
\* length, through the tunnel or not, and each SYN with the bytes of its options,
\* but for the two of the MSS.
SegmentsIntact ==
    \A p \in net :
        LET q == IF p.to \in incoming THEN HookIn(p) ELSE p
            o == opts[Peer(p.to)]
        IN  /\ p.to \in incoming => ~q.tunnel
            /\ ~q.tunnel /\ ~q.syn => q.len = Low(MTU, mss[Peer(p.to)] + IpHdr + TcpHdr)
            /\ q.syn => /\ Len(q.opts) = Len(o.bytes)
                        /\ \A i \in DOMAIN o.bytes : q.opts[i] # o.bytes[i] =>
                               \E s \in o.starts : o.bytes[s] = 2 /\ i \in s + 2 .. s + 3
=============================================================================
