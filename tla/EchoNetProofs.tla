----------------------------- MODULE EchoNetProofs -----------------------------
(***************************************************************************)
(* What the proofs about the echo servers share: sequences of bytes, what  *)
(* the kernel keeps, and what the steps of a peer and the system calls of  *)
(* a server do to it.  A server is represented by the function h of the    *)
(* bytes it has read from each peer and not yet written back.              *)
(***************************************************************************)
EXTENDS EchoNet, SequenceTheorems, WellFoundedInduction, TLAPS

\* The bytes behind number g up to number n.
Run(g, n) == [k \in 1 .. n - g |-> g + k]

\* Without connection nothing is left of an earlier one; and the backlog holds
\* the connections that are queued, each of them once.
NetInv ==
    /\ NetTypeOK
    /\ \A p \in Peers : st[p] = "none" =>
           /\ end[p] = "up" /\ rst[p] = FALSE /\ inq[p] = <<>> /\ outq[p] = <<>>
           /\ sent[p] = 0 /\ got[p] = 0
    /\ \A k \in 1 .. Len(backlog) : st[backlog[k]] = "queued"
    /\ \A k, l \in 1 .. Len(backlog) : backlog[k] = backlog[l] => k = l

\* The server and the network hold no more bytes of p than it has sent and not
\* got back; and exactly those, in order, unless the connection was reset.
Counted(p, b) == Len(outq[p]) + Len(b) + Len(inq[p]) <= sent[p] - got[p]
InOrder(p, b) == rst[p] = FALSE => outq[p] \o b \o inq[p] = Run(got[p], sent[p])
Carried(h) == \A p \in Peers : Counted(p, h[p]) /\ InOrder(p, h[p])

\* The loops of the servers go on with the least index of a set.
LEMMA HasLeast ==
    ASSUME NEW S \in SUBSET Nat, S # {}
    PROVE  \E j \in S : \A k \in S : j <= k
<1>1. PICK j \in S : \A k \in S : ~(<<k, j>> \in OpToRel(<, Nat))
    BY NatLessThanWellFounded, WFMin
<1>2. ASSUME NEW k \in S, k < j PROVE FALSE
    <2>1. <<k, j>> \in {x \in Nat \X Nat : x[1] < x[2]}
        BY <1>2
    <2> QED BY <1>1, <2>1 DEF OpToRel
<1> QED BY <1>2

-----------------------------------------------------------------------------
(* Sequences.                                                              *)

LEMMA RunIsSeq ==
    ASSUME NEW g \in Nat, NEW n \in Nat, g <= n
    PROVE  /\ Run(g, n) \in Seq(Nat) /\ Len(Run(g, n)) = n - g
           /\ \A k \in 1 .. n - g : Run(g, n)[k] = g + k
BY DEF Run

LEMMA RunIsEmpty ==
    ASSUME NEW g \in Nat
    PROVE  Run(g, g) = <<>>
<1> DEFINE r == Run(g, g)
<1>1. r \in Seq(Nat) /\ Len(r) = g - g
    BY RunIsSeq
<1> HIDE DEF r
<1>2. r = <<>>
    BY <1>1, EmptySeq
<1> QED BY <1>2 DEF r

LEMMA RunGrows ==
    ASSUME NEW g \in Nat, NEW n \in Nat, g <= n
    PROVE  Append(Run(g, n), n + 1) = Run(g, n + 1)
<1> DEFINE c == Run(g, n)
           a == Append(c, n + 1)
           b == Run(g, n + 1)
<1>0. /\ c \in Seq(Nat) /\ Len(c) = n - g
      /\ \A k \in 1 .. n - g : c[k] = g + k
    BY RunIsSeq
<1> HIDE DEF c
<1>1. /\ a \in Seq(Nat) /\ Len(a) = n - g + 1
      /\ \A k \in 1 .. n - g : a[k] = g + k
      /\ a[n - g + 1] = n + 1
    BY <1>0, AppendProperties
<1>2. b \in Seq(Nat) /\ Len(b) = n - g + 1 /\ \A k \in 1 .. n - g + 1 : b[k] = g + k
    BY RunIsSeq
<1> HIDE DEF a, b
<1>3. \A k \in 1 .. n - g + 1 : a[k] = b[k]
    BY <1>1, <1>2
<1>4. a = b
    BY <1>1, <1>2, <1>3, SeqEqual
<1> QED BY <1>4 DEF a, b, c

\* The first n elements, and the others.
Taken(b, n) == SubSeq(b, 1, n)
Rest(b, n) == SubSeq(b, n + 1, Len(b))

LEMMA RestIsShifted ==
    ASSUME NEW S, NEW b \in Seq(S), NEW n \in 0 .. Len(b)
    PROVE  /\ Rest(b, n) \in Seq(S) /\ Len(Rest(b, n)) = Len(b) - n
           /\ \A k \in 1 .. Len(b) - n : Rest(b, n)[k] = b[n + k]
<1>1. Len(b) \in Nat /\ \A k \in 1 .. Len(b) : b[k] \in S
    BY LenProperties, ElementOfSeq
<1>2. \A k \in n + 1 .. Len(b) : b[k] \in S
    BY <1>1
<1> QED BY <1>1, <1>2, SubSeqProperties DEF Rest

LEMMA RunShrinks ==
    ASSUME NEW g \in Nat, NEW n \in Nat, NEW m \in Nat, g + m <= n
    PROVE  Rest(Run(g, n), m) = Run(g + m, n)
<1> DEFINE c == Run(g, n)
           a == Rest(c, m)
           b == Run(g + m, n)
<1>1. /\ c \in Seq(Nat) /\ Len(c) = n - g
      /\ \A k \in 1 .. n - g : c[k] = g + k
    BY RunIsSeq
<1>2. /\ b \in Seq(Nat) /\ Len(b) = n - (g + m)
      /\ \A k \in 1 .. n - (g + m) : b[k] = (g + m) + k
    <2> DEFINE e == g + m
    <2>1. e \in Nat /\ e <= n
        OBVIOUS
    <2> HIDE DEF e
    <2>2. /\ Run(e, n) \in Seq(Nat) /\ Len(Run(e, n)) = n - e
          /\ \A k \in 1 .. n - e : Run(e, n)[k] = e + k
        BY <2>1, RunIsSeq
    <2> QED BY <2>2 DEF e
<1> HIDE DEF b, c
<1>3. a \in Seq(Nat) /\ Len(a) = n - g - m /\ \A k \in 1 .. n - g - m : a[k] = c[m + k]
    <2>1. m \in 0 .. Len(c)
        BY <1>1
    <2> QED BY <1>1, <2>1, RestIsShifted
<1> HIDE DEF a
<1>4. \A k \in 1 .. n - g - m : a[k] = b[k]
    BY <1>1, <1>2, <1>3
<1>5. a = b
    BY <1>2, <1>3, <1>4, SeqEqual
<1> QED BY <1>5 DEF a, b, c

\* Appending to the last of three parts, and taking from the first.
LEMMA AppendToLast ==
    ASSUME NEW a \in Seq(Nat), NEW b \in Seq(Nat), NEW c \in Seq(Nat), NEW e \in Nat
    PROVE  a \o b \o Append(c, e) = Append(a \o b \o c, e)
<1> DEFINE d == a \o b
           x == d \o c
<1>1. d \in Seq(Nat)
    OBVIOUS
<1> HIDE DEF d
<1>2. x \in Seq(Nat) /\ <<e>> \in Seq(Nat)
    BY <1>1, ConcatProperties
<1>3. (d \o c) \o <<e>> = d \o (c \o <<e>>)
    BY <1>1, <1>2, ConcatAssociative
<1> HIDE DEF x
<1>4. Append(c, e) = c \o <<e>> /\ Append(x, e) = x \o <<e>>
    BY <1>2, AppendIsConcat
<1>5. d \o Append(c, e) = Append(x, e)
    BY <1>3, <1>4 DEF x
<1> QED BY <1>5 DEF d, x

LEMMA RestOfFirst ==
    ASSUME NEW S, NEW a \in Seq(S), NEW b \in Seq(S), NEW m \in 0 .. Len(a)
    PROVE  Rest(a, m) \o b = Rest(a \o b, m)
<1> DEFINE t == Rest(a, m)
           ab == a \o b
           u == Rest(ab, m)
           v == t \o b
<1>1. Len(a) \in Nat /\ Len(b) \in Nat
    BY LenProperties
<1>2. t \in Seq(S) /\ Len(t) = Len(a) - m /\ \A k \in 1 .. Len(a) - m : t[k] = a[m + k]
    BY RestIsShifted
<1>3. /\ ab \in Seq(S) /\ Len(ab) = Len(a) + Len(b)
      /\ \A k \in 1 .. Len(a) + Len(b) : ab[k] = IF k <= Len(a) THEN a[k] ELSE b[k - Len(a)]
    BY ConcatProperties
<1> HIDE DEF t, ab
<1>5. u \in Seq(S) /\ Len(u) = Len(ab) - m /\ \A k \in 1 .. Len(ab) - m : u[k] = ab[m + k]
    <2>1. m \in 0 .. Len(ab)
        BY <1>1, <1>3
    <2> QED BY <1>3, <2>1, RestIsShifted
<1>6. /\ v \in Seq(S) /\ Len(v) = Len(t) + Len(b)
      /\ \A k \in 1 .. Len(t) + Len(b) : v[k] = IF k <= Len(t) THEN t[k] ELSE b[k - Len(t)]
    BY <1>2, ConcatProperties
<1> HIDE DEF u, v
<1>7. ASSUME NEW k \in 1 .. Len(v) PROVE v[k] = u[k]
    <2>1. k \in 1 .. Len(a) + Len(b) - m /\ u[k] = ab[m + k]
        BY <1>1, <1>2, <1>3, <1>5, <1>6
    <2>2. CASE k <= Len(a) - m
        <3>1. m + k \in 1 .. Len(a) /\ k \in 1 .. Len(t)
            BY <1>1, <1>2, <2>1, <2>2
        <3>2. v[k] = t[k] /\ ab[m + k] = a[m + k]
            BY <1>1, <1>2, <1>3, <1>6, <2>1, <2>2, <3>1
        <3>3. t[k] = a[m + k]
            BY <1>2, <2>1, <2>2, <3>1
        <3> QED BY <2>1, <3>2, <3>3
    <2>3. CASE k > Len(a) - m
        <3>1. v[k] = b[k - (Len(a) - m)]
            BY <1>1, <1>2, <1>6, <2>1, <2>3
        <3>3. ab[m + k] = b[m + k - Len(a)]
            BY <1>1, <1>3, <2>1, <2>3
        <3>2. k - (Len(a) - m) = m + k - Len(a)
            BY <1>1, <2>1
        <3> QED BY <2>1, <3>1, <3>2, <3>3
    <2> QED BY <1>1, <2>1, <2>2, <2>3
<1>8. Len(v) = Len(u)
    BY <1>1, <1>2, <1>3, <1>5, <1>6
<1>9. v = u
    BY <1>5, <1>6, <1>7, <1>8, SeqEqual
<1> QED BY <1>9 DEF t, u, v, ab

\* What is taken from the last part becomes the one in the middle.
LEMMA TakenFromLast ==
    \A o, t, s \in Seq(Nat) : o \o t \o s = o \o <<>> \o (t \o s)
<1> TAKE o, t, s \in Seq(Nat)
<1>1. (o \o t) \o s = o \o (t \o s)
    BY ConcatAssociative
<1>2. o \o <<>> = o
    BY ConcatEmptySeq
<1> QED BY <1>1, <1>2

\* Moving a part from one side of a border to the other.
LEMMA MoveBorder ==
    \A a, b, c \in Seq(Nat) : a \o (b \o c) = (a \o b) \o c
<1> TAKE a, b, c \in Seq(Nat)
<1>1. (a \o b) \o c = a \o (b \o c)
    BY ConcatAssociative
<1> QED BY <1>1

LEMMA TakenAndRest ==
    ASSUME NEW S, NEW b \in Seq(S), NEW n \in 1 .. Len(b)
    PROVE  /\ Taken(b, n) \in Seq(S) /\ Len(Taken(b, n)) = n
           /\ Rest(b, n) \in Seq(S) /\ Len(Rest(b, n)) = Len(b) - n
           /\ Taken(b, n) \o Rest(b, n) = b
<1>1. Len(b) \in Nat /\ \A k \in 1 .. Len(b) : b[k] \in S
    BY LenProperties, ElementOfSeq
<1>2. Taken(b, n) \in Seq(S) /\ Len(Taken(b, n)) = n
    BY <1>1, SubSeqProperties DEF Taken
<1>3. Rest(b, n) \in Seq(S) /\ Len(Rest(b, n)) = Len(b) - n
    BY <1>1, SubSeqProperties DEF Rest
<1>4. Taken(b, n) \o Rest(b, n) = SubSeq(b, 1, Len(b))
    BY <1>1, ConcatAdjacentSubSeq DEF Taken, Rest
<1>5. SubSeq(b, 1, Len(b)) = b
    BY SubSeqFull
<1> QED BY <1>2, <1>3, <1>4, <1>5

-----------------------------------------------------------------------------
(* The peers.                                                              *)

\* What a step of a peer leaves to the server: its open sockets, what poll or
\* select said of them, and that there is a connection to accept.
Undisturbed ==
    /\ Open' = Open
    /\ \A q \in Open : Readable(q) => Readable(q)'
    /\ backlog # <<>> => backlog' # <<>>

LEMMA NetInitially ==
    ASSUME NetInit
    PROVE  NetInv /\ Carried([p \in Peers |-> <<>>]) /\ Open = {}
<1>1. <<>> \in Seq(Nat) /\ <<>> \in Seq(Peers) /\ Len(<<>>) = 0
    BY EmptySeq
<1>2. NetTypeOK
    <2>1. \A p \in Peers : got[p] <= sent[p] /\ sent[p] <= MaxBytes[p]
        BY EchoNetAssumption DEF NetInit
    <2> QED BY <1>1, <2>1 DEF NetInit, NetTypeOK
<1>3. NetInv
    BY <1>1, <1>2 DEF NetInit, NetInv
<1>4. Run(0, 0) = <<>>
    BY RunIsEmpty
<1>5. <<>> \o <<>> \o <<>> = <<>>
    BY <1>1
<1>6. Carried([p \in Peers |-> <<>>])
    BY <1>1, <1>4, <1>5 DEF NetInit, Carried, Counted, InOrder
<1> QED BY <1>3, <1>6 DEF NetInit, Open

\* For a peer of which nothing changes that Counted and InOrder speak about.
LEMMA CarriedElsewhere ==
    ASSUME NEW q \in Peers, NEW b, Counted(q, b), InOrder(q, b),
           outq'[q] = outq[q], inq'[q] = inq[q], sent'[q] = sent[q], got'[q] = got[q],
           rst'[q] = FALSE => rst[q] = FALSE
    PROVE  Counted(q, b)' /\ InOrder(q, b)'
BY DEF Counted, InOrder

LEMMA ConnectKeeps ==
    ASSUME NetInv, NEW h \in [Peers -> Seq(Nat)], Carried(h), NEW p \in Peers, Connect(p)
    PROVE  NetInv' /\ Carried(h)' /\ Undisturbed
<1>1. /\ backlog \in Seq(Peers) /\ Len(backlog) \in Nat
      /\ \A k \in 1 .. Len(backlog) : backlog[k] \in Peers /\ st[backlog[k]] = "queued"
    BY ElementOfSeq, LenProperties DEF NetInv, NetTypeOK
<1>2. /\ backlog' \in Seq(Peers) /\ Len(backlog') = Len(backlog) + 1
      /\ \A k \in 1 .. Len(backlog) : backlog'[k] = backlog[k]
      /\ backlog'[Len(backlog) + 1] = p
    BY <1>1, AppendProperties DEF Connect
<1>3. /\ st' \in [Peers -> {"none", "queued", "open", "closed"}]
      /\ st'[p] = "queued" /\ \A q \in Peers \ {p} : st'[q] = st[q]
      /\ st[p] = "none"
    BY DEF Connect, NetInv, NetTypeOK
<1>4. NetTypeOK'
    BY <1>2, <1>3 DEF NetInv, NetTypeOK, Connect
<1>5. \A k \in 1 .. Len(backlog) : backlog[k] # p
    BY <1>1, <1>3
<1>6. \A k \in 1 .. Len(backlog') : st'[backlog'[k]] = "queued"
    <2> TAKE k \in 1 .. Len(backlog')
    <2>1. CASE k \in 1 .. Len(backlog)
        <3>1. backlog[k] \in Peers \ {p} /\ st[backlog[k]] = "queued"
            BY <1>1, <1>5, <2>1
        <3>2. st'[backlog[k]] = "queued"
            BY <1>3, <3>1
        <3> QED BY <1>2, <2>1, <3>2
    <2>2. CASE k = Len(backlog) + 1
        BY <1>2, <1>3, <2>2
    <2> QED BY <1>1, <1>2, <2>1, <2>2
<1>7. \A k, l \in 1 .. Len(backlog') : backlog'[k] = backlog'[l] => k = l
    <2> TAKE k, l \in 1 .. Len(backlog')
    <2>1. CASE k \in 1 .. Len(backlog) /\ l \in 1 .. Len(backlog)
        <3>1. backlog'[k] = backlog[k] /\ backlog'[l] = backlog[l]
            BY <1>2, <2>1
        <3>2. backlog[k] = backlog[l] => k = l
            BY <2>1 DEF NetInv
        <3> QED BY <3>1, <3>2
    <2>2. \A m \in 1 .. Len(backlog') :
              (m \in 1 .. Len(backlog) /\ backlog'[m] # p) \/ m = Len(backlog) + 1
        <3> TAKE m \in 1 .. Len(backlog')
        <3>1. CASE m \in 1 .. Len(backlog)
            <4>1. backlog'[m] = backlog[m] /\ backlog[m] # p
                BY <1>2, <1>5, <3>1
            <4> QED BY <3>1, <4>1
        <3>2. CASE m = Len(backlog) + 1
            BY <3>2
        <3> QED BY <1>1, <1>2, <3>1, <3>2
    <2> QED BY <1>2, <2>1, <2>2
<1>8. NetInv'
    BY <1>3, <1>4, <1>6, <1>7 DEF NetInv, Connect
<1>9. ASSUME NEW q \in Peers PROVE Counted(q, h[q])' /\ InOrder(q, h[q])'
    <2>1. CASE q = p
        <3>1. outq[p] = <<>> /\ inq[p] = <<>> /\ sent[p] = 0 /\ got[p] = 0
            BY <1>3 DEF NetInv
        <3>2. h[p] = <<>>
            <4>1. Len(<<>>) + Len(h[p]) + Len(<<>>) <= 0 - 0
                BY <3>1 DEF Carried, Counted
            <4>2. Len(h[p]) = 0
                BY <4>1, EmptySeq, LenProperties
            <4> QED BY <4>2, EmptySeq
        <3>3. Run(0, 0) = <<>>
            BY RunIsEmpty
        <3>4. <<>> \o <<>> \o <<>> = <<>>
            BY EmptySeq
        <3>5. InOrder(p, h[p])'
            BY <3>1, <3>2, <3>3, <3>4 DEF InOrder, Connect
        <3>6. Counted(p, h[p])'
            BY DEF Carried, Counted, Connect
        <3> QED BY <2>1, <3>5, <3>6
    <2>2. CASE q # p
        <3>1. outq'[q] = outq[q] /\ inq'[q] = inq[q] /\ sent'[q] = sent[q]
              /\ got'[q] = got[q] /\ rst'[q] = rst[q]
            BY <1>3, <2>2 DEF Connect
        <3> QED BY <3>1, CarriedElsewhere DEF Carried
    <2> QED BY <2>1, <2>2
<1>10. Open' = Open
    BY <1>3 DEF Open
<1>11. backlog' # <<>>
    BY <1>1, <1>2, EmptySeq
<1>12. Undisturbed
    BY <1>10, <1>11 DEF Undisturbed, Readable, Connect
<1> QED BY <1>8, <1>9, <1>12 DEF Carried

LEMMA RoomLeft ==
    ASSUME NEW a \in Nat, NEW b \in Nat, NEW c \in Nat, NEW s \in Nat, NEW g \in Nat,
           a + b + c <= s - g
    PROVE  a + b + (c + 1) <= (s + 1) - g
OBVIOUS

LEMMA SendKeeps ==
    ASSUME NetInv, NEW h \in [Peers -> Seq(Nat)], Carried(h), NEW p \in Peers, Send(p)
    PROVE  NetInv' /\ Carried(h)' /\ Undisturbed
<1>0. sent[p] < MaxBytes[p] /\ MaxBytes[p] \in Nat
    BY EchoNetAssumption DEF Send
<1>1. /\ outq[p] \in Seq(Nat) /\ h[p] \in Seq(Nat) /\ inq[p] \in Seq(Nat)
      /\ sent[p] \in Nat /\ got[p] \in Nat /\ got[p] <= sent[p] /\ sent[p] + 1 \in Nat
    BY DEF NetInv, NetTypeOK
<1>2. /\ sent' \in [Peers -> Nat] /\ sent'[p] = sent[p] + 1
      /\ inq' \in [Peers -> Seq(Nat)] /\ inq'[p] = Append(inq[p], sent[p] + 1)
      /\ \A q \in Peers \ {p} : sent'[q] = sent[q] /\ inq'[q] = inq[q]
    <2>1. Append(inq[p], sent[p] + 1) \in Seq(Nat)
        BY <1>1
    <2> QED BY <1>1, <2>1 DEF NetInv, NetTypeOK, Send
<1>3. inq'[p] \in Seq(Nat) /\ Len(inq'[p]) = Len(inq[p]) + 1 /\ inq'[p] # <<>>
    BY <1>1, <1>2, AppendProperties
<1>4. NetInv'
    <2>1. \A q \in Peers : got[q] <= sent'[q] /\ sent'[q] <= MaxBytes[q]
        <3> TAKE q \in Peers
        <3>1. CASE q = p
            <4>1. got[p] <= sent[p] + 1 /\ sent[p] + 1 <= MaxBytes[p]
                BY <1>0, <1>1
            <4> QED BY <1>2, <3>1, <4>1
        <3>2. CASE q # p
            BY <1>2, <3>2 DEF NetInv, NetTypeOK
        <3> QED BY <3>1, <3>2
    <2>2. NetTypeOK'
        BY <1>2, <2>1 DEF NetInv, NetTypeOK, Send
    <2> QED BY <1>2, <2>2 DEF NetInv, Send
<1>5. ASSUME NEW q \in Peers PROVE Counted(q, h[q])' /\ InOrder(q, h[q])'
    <2>1. CASE q = p
        <3>1. Counted(p, h[p])'
            <4>1. Len(outq[p]) \in Nat /\ Len(h[p]) \in Nat /\ Len(inq[p]) \in Nat
                BY <1>1, LenProperties
            <4>2. Len(outq[p]) + Len(h[p]) + Len(inq[p]) <= sent[p] - got[p]
                BY DEF Carried, Counted
            <4>3. Len(outq[p]) + Len(h[p]) + (Len(inq[p]) + 1) <= (sent[p] + 1) - got[p]
                BY <1>1, <4>1, <4>2, RoomLeft
            <4> QED BY <1>2, <1>3, <4>3 DEF Counted, Send
        <3>2. ASSUME rst[p] = FALSE
              PROVE  outq[p] \o h[p] \o inq'[p] = Run(got[p], sent[p] + 1)
            <4>1. outq[p] \o h[p] \o inq[p] = Run(got[p], sent[p])
                BY <3>2 DEF Carried, InOrder, Send
            <4>2. outq[p] \o h[p] \o Append(inq[p], sent[p] + 1)
                      = Append(outq[p] \o h[p] \o inq[p], sent[p] + 1)
                <5> DEFINE o == outq[p]
                           b == h[p]
                           i == inq[p]
                           e == sent[p] + 1
                <5>1. o \in Seq(Nat) /\ b \in Seq(Nat) /\ i \in Seq(Nat) /\ e \in Nat
                    BY <1>1
                <5> HIDE DEF o, b, i, e
                <5>2. o \o b \o Append(i, e) = Append(o \o b \o i, e)
                    BY <5>1, AppendToLast
                <5> QED BY <5>2 DEF o, b, i, e
            <4>3. Append(Run(got[p], sent[p]), sent[p] + 1) = Run(got[p], sent[p] + 1)
                BY <1>1, RunGrows
            <4> QED BY <1>2, <4>1, <4>2, <4>3
        <3>3. InOrder(p, h[p])'
            BY <1>2, <3>2 DEF InOrder, Send
        <3> QED BY <2>1, <3>1, <3>3
    <2>2. CASE q # p
        <3>1. outq'[q] = outq[q] /\ inq'[q] = inq[q] /\ sent'[q] = sent[q]
              /\ got'[q] = got[q] /\ rst'[q] = rst[q]
            BY <1>2, <2>2 DEF Send
        <3> QED BY <3>1, CarriedElsewhere DEF Carried
    <2> QED BY <2>1, <2>2
<1>6. Open' = Open
    BY DEF Open, Send
<1>7. \A q \in Peers : Readable(q) => Readable(q)'
    BY <1>2, <1>3 DEF Readable, Send
<1> QED BY <1>4, <1>5, <1>6, <1>7 DEF Carried, Undisturbed, Send, Open

\* A peer reads k bytes.
LEMMA TakingKeeps ==
    ASSUME NetInv, NEW h \in [Peers -> Seq(Nat)], Carried(h), NEW p \in Peers,
           NEW k \in 1 .. Len(outq[p]), outq' = [outq EXCEPT ![p] = Rest(@, k)],
           got' = [got EXCEPT ![p] = @ + k],
           UNCHANGED <<backlog, st, end, rst, inq, sent>>
    PROVE  NetInv' /\ Carried(h)' /\ Undisturbed
<1>1. /\ outq[p] \in Seq(Nat) /\ h[p] \in Seq(Nat) /\ inq[p] \in Seq(Nat)
      /\ sent[p] \in Nat /\ got[p] \in Nat /\ got[p] <= sent[p]
      /\ Len(outq[p]) \in Nat /\ Len(h[p]) \in Nat /\ Len(inq[p]) \in Nat
    BY LenProperties DEF NetInv, NetTypeOK
<1>2. Len(outq[p]) + Len(h[p]) + Len(inq[p]) <= sent[p] - got[p]
    BY DEF Carried, Counted
<1>3. /\ k \in Nat /\ k \in 0 .. Len(outq[p])
      /\ got[p] + k \in Nat /\ got[p] + k <= sent[p]
      /\ (Len(outq[p]) - k) + Len(h[p]) + Len(inq[p]) <= sent[p] - (got[p] + k)
    <2> DEFINE o == Len(outq[p])
               b == Len(h[p])
               i == Len(inq[p])
               s == sent[p]
               g == got[p]
    <2>1. /\ o \in Nat /\ b \in Nat /\ i \in Nat /\ s \in Nat /\ g \in Nat
          /\ o + b + i <= s - g /\ k \in 1 .. o
        BY <1>1, <1>2
    <2> HIDE DEF o, b, i, s, g
    <2>2. k \in Nat /\ g + k \in Nat /\ g + k <= s /\ k \in 0 .. o /\ (o - k) + b + i <= s - (g + k)
        BY <2>1
    <2> QED BY <2>2 DEF o, b, i, s, g
<1>4. Rest(outq[p], k) \in Seq(Nat) /\ Len(Rest(outq[p], k)) = Len(outq[p]) - k
    BY <1>1, <1>3, RestIsShifted
<1>5. /\ got' \in [Peers -> Nat] /\ got'[p] = got[p] + k
      /\ outq' \in [Peers -> Seq(Nat)] /\ outq'[p] = Rest(outq[p], k)
      /\ \A q \in Peers \ {p} : got'[q] = got[q] /\ outq'[q] = outq[q]
    BY <1>3, <1>4 DEF NetInv, NetTypeOK
<1>6. NetInv'
    <2>1. \A q \in Peers : got'[q] <= sent[q] /\ sent[q] <= MaxBytes[q]
        BY <1>3, <1>5 DEF NetInv, NetTypeOK
    <2>2. NetTypeOK'
        BY <1>5, <2>1 DEF NetInv, NetTypeOK
    <2>3. st[p] # "none"
        <3>1. Len(<<>>) = 0 /\ Len(outq[p]) # 0
            BY <1>3
        <3> QED BY <3>1 DEF NetInv
    <2> QED BY <1>5, <2>2, <2>3 DEF NetInv
<1>7. ASSUME NEW q \in Peers PROVE Counted(q, h[q])' /\ InOrder(q, h[q])'
    <2>1. CASE q = p
        <3>1. Counted(p, h[p])'
            BY <1>3, <1>4, <1>5 DEF Counted
        <3>2. ASSUME rst[p] = FALSE
              PROVE  Rest(outq[p], k) \o h[p] \o inq[p] = Run(got[p] + k, sent[p])
            <4> DEFINE o == outq[p]
                       ob == o \o h[p]
            <4>1. o \in Seq(Nat) /\ k \in 0 .. Len(o)
                BY <1>1, <1>3
            <4>2. ob \in Seq(Nat) /\ k \in 0 .. Len(ob)
                <5>1. ob \in Seq(Nat) /\ Len(ob) = Len(o) + Len(h[p])
                    BY <1>1, ConcatProperties
                <5> QED BY <1>1, <4>1, <5>1
            <4>3. ob \o inq[p] = Run(got[p], sent[p])
                BY <3>2 DEF Carried, InOrder
            <4> HIDE DEF o
            <4>4. Rest(o, k) \o h[p] = Rest(ob, k)
                BY <1>1, <4>1, RestOfFirst
            <4> HIDE DEF ob
            <4>5. Rest(ob, k) \o inq[p] = Rest(ob \o inq[p], k)
                BY <1>1, <4>2, RestOfFirst
            <4>6. Rest(Run(got[p], sent[p]), k) = Run(got[p] + k, sent[p])
                BY <1>1, <1>3, RunShrinks
            <4> QED BY <4>3, <4>4, <4>5, <4>6 DEF o
        <3>3. InOrder(p, h[p])'
            BY <1>5, <3>2 DEF InOrder
        <3> QED BY <2>1, <3>1, <3>3
    <2>2. CASE q # p
        <3>1. outq'[q] = outq[q] /\ inq'[q] = inq[q] /\ sent'[q] = sent[q]
              /\ got'[q] = got[q] /\ rst'[q] = rst[q]
            BY <1>5, <2>2
        <3> QED BY <3>1, CarriedElsewhere DEF Carried
    <2> QED BY <2>1, <2>2
<1> QED BY <1>6, <1>7 DEF Carried, Undisturbed, Open, Readable

LEMMA ReceiveKeeps ==
    ASSUME NetInv, NEW h \in [Peers -> Seq(Nat)], Carried(h), NEW p \in Peers, Receive(p)
    PROVE  NetInv' /\ Carried(h)' /\ Undisturbed
<1>1. outq[p] \in Seq(Nat) /\ outq[p] # <<>> /\ Len(outq[p]) \in Nat
    BY LenProperties DEF NetInv, NetTypeOK, Receive
<1>2. 1 \in 1 .. Len(outq[p])
    BY <1>1, EmptySeq
<1>3. Tail(outq[p]) = Rest(outq[p], 1)
    <2> DEFINE t == Tail(outq[p])
               r == Rest(outq[p], 1)
    <2>1. /\ t \in Seq(Nat) /\ Len(t) = Len(outq[p]) - 1
          /\ \A k \in 1 .. Len(outq[p]) - 1 : t[k] = outq[p][k + 1]
        BY <1>1, HeadTailProperties
    <2>2. /\ r \in Seq(Nat) /\ Len(r) = Len(outq[p]) - 1
          /\ \A k \in 1 .. Len(outq[p]) - 1 : r[k] = outq[p][1 + k]
        <3>1. 1 \in 0 .. Len(outq[p])
            BY <1>1, <1>2
        <3> QED BY <1>1, <3>1, RestIsShifted
    <2> HIDE DEF t, r
    <2>3. \A k \in 1 .. Len(outq[p]) - 1 : t[k] = r[k]
        BY <1>1, <2>1, <2>2
    <2>4. t = r
        BY <2>1, <2>2, <2>3, SeqEqual
    <2> QED BY <2>4 DEF t, r
<1>4. outq' = [outq EXCEPT ![p] = Rest(@, 1)]
    BY <1>3 DEF Receive
<1> QED BY <1>2, <1>4, TakingKeeps DEF Receive

\* Shutdown and Leave, and the client that exits: end[p] goes on.
LEMMA EndingKeeps ==
    ASSUME NetInv, NEW h \in [Peers -> Seq(Nat)], Carried(h), NEW p \in Peers, st[p] # "none",
           NEW e \in {"shut", "gone"}, end' = [end EXCEPT ![p] = e],
           UNCHANGED <<backlog, st, rst, inq, outq, sent, got>>
    PROVE  NetInv' /\ Carried(h)' /\ Undisturbed
<1>1. /\ end' \in [Peers -> {"up", "shut", "gone"}] /\ end'[p] = e
      /\ \A q \in Peers \ {p} : end'[q] = end[q]
    BY DEF NetInv, NetTypeOK
<1>2. NetTypeOK'
    BY <1>1 DEF NetInv, NetTypeOK
<1>3. NetInv'
    BY <1>1, <1>2 DEF NetInv
<1>4. Carried(h)'
    BY DEF Carried, Counted, InOrder
<1> QED BY <1>1, <1>3, <1>4 DEF Undisturbed, Open, Readable

LEMMA ResetArrivesKeeps ==
    ASSUME NetInv, NEW h \in [Peers -> Seq(Nat)], Carried(h), NEW p \in Peers, ResetArrives(p)
    PROVE  NetInv' /\ Carried(h)' /\ Undisturbed
<1>1. /\ rst' \in [Peers -> BOOLEAN] /\ rst'[p] = TRUE
      /\ \A q \in Peers \ {p} : rst'[q] = rst[q]
    BY DEF NetInv, NetTypeOK, ResetArrives
<1>2. NetTypeOK'
    BY <1>1 DEF NetInv, NetTypeOK, ResetArrives
<1>3. NetInv'
    BY <1>1, <1>2 DEF NetInv, ResetArrives
<1>4. Carried(h)'
    BY <1>1 DEF Carried, Counted, InOrder, ResetArrives
<1> QED BY <1>1, <1>3, <1>4 DEF Undisturbed, Open, Readable, ResetArrives

LEMMA ForgetKeeps ==
    ASSUME NetInv, NEW h \in [Peers -> Seq(Nat)], Carried(h), NEW p \in Peers,
           h[p] = <<>>, Forget(p)
    PROVE  NetInv' /\ Carried(h)' /\ Undisturbed
<1>1. <<>> \in Seq(Nat) /\ Len(<<>>) = 0
    BY EmptySeq
<1>2. /\ st' \in [Peers -> {"none", "queued", "open", "closed"}]
      /\ end' \in [Peers -> {"up", "shut", "gone"}] /\ rst' \in [Peers -> BOOLEAN]
      /\ inq' \in [Peers -> Seq(Nat)] /\ outq' \in [Peers -> Seq(Nat)]
      /\ sent' \in [Peers -> Nat] /\ got' \in [Peers -> Nat]
    BY <1>1 DEF NetInv, NetTypeOK, Forget
<1>3. /\ st'[p] = "none" /\ end'[p] = "up" /\ rst'[p] = FALSE /\ inq'[p] = <<>>
      /\ outq'[p] = <<>> /\ sent'[p] = 0 /\ got'[p] = 0
    BY DEF NetInv, NetTypeOK, Forget
<1>4. \A q \in Peers \ {p} :
          /\ st'[q] = st[q] /\ end'[q] = end[q] /\ rst'[q] = rst[q] /\ inq'[q] = inq[q]
          /\ outq'[q] = outq[q] /\ sent'[q] = sent[q] /\ got'[q] = got[q]
    BY DEF NetInv, NetTypeOK, Forget
<1>5. st[p] = "closed" /\ backlog' = backlog
    BY DEF Forget
<1>6. NetTypeOK'
    <2>1. \A q \in Peers : got'[q] <= sent'[q] /\ sent'[q] <= MaxBytes[q]
        <3> TAKE q \in Peers
        <3>1. CASE q = p
            BY <1>3, <3>1, EchoNetAssumption
        <3>2. CASE q # p
            BY <1>4, <3>2 DEF NetInv, NetTypeOK
        <3> QED BY <3>1, <3>2
    <2> QED BY <1>2, <1>5, <2>1 DEF NetInv, NetTypeOK
<1>7. NetInv'
    <2>1. \A k \in 1 .. Len(backlog) : backlog[k] \in Peers /\ backlog[k] # p
        BY <1>5, ElementOfSeq DEF NetInv, NetTypeOK
    <2>2. \A k \in 1 .. Len(backlog) : st'[backlog[k]] = "queued"
        BY <1>4, <2>1 DEF NetInv
    <2>3. \A q \in Peers : st'[q] = "none" =>
              /\ end'[q] = "up" /\ rst'[q] = FALSE /\ inq'[q] = <<>> /\ outq'[q] = <<>>
              /\ sent'[q] = 0 /\ got'[q] = 0
        BY <1>3, <1>4 DEF NetInv
    <2> QED BY <1>5, <1>6, <2>2, <2>3 DEF NetInv
<1>8. ASSUME NEW q \in Peers PROVE Counted(q, h[q])' /\ InOrder(q, h[q])'
    <2>1. CASE q = p
        <3>1. InOrder(p, h[p])'
            <4>1. Run(0, 0) = <<>>
                BY RunIsEmpty
            <4>2. <<>> \o <<>> \o <<>> = <<>>
                BY <1>1
            <4> QED BY <1>3, <4>1, <4>2 DEF InOrder
        <3>2. Len(outq'[p]) = 0 /\ Len(h[p]) = 0 /\ Len(inq'[p]) = 0
            BY <1>1, <1>3
        <3>3. Counted(p, h[p])'
            BY <1>3, <3>2 DEF Counted
        <3> QED BY <2>1, <3>1, <3>3
    <2>2. CASE q # p
        <3>1. /\ outq'[q] = outq[q] /\ inq'[q] = inq[q] /\ sent'[q] = sent[q]
              /\ got'[q] = got[q] /\ rst'[q] = rst[q]
            BY <1>4, <2>2
        <3> QED BY <3>1, CarriedElsewhere DEF Carried
    <2> QED BY <2>1, <2>2
<1>9. Open' = Open /\ \A q \in Open : q # p
    BY <1>3, <1>4, <1>5 DEF Open
<1>10. \A q \in Open : Readable(q) => Readable(q)'
    BY <1>4, <1>9 DEF Readable, Open
<1> QED BY <1>5, <1>7, <1>8, <1>9, <1>10 DEF Carried, Undisturbed

LEMMA PeerStepKeeps ==
    ASSUME NetInv, NEW h \in [Peers -> Seq(Nat)], Carried(h), NEW p \in Peers,
           st[p] = "closed" => h[p] = <<>>, PeerStep(p)
    PROVE  NetInv' /\ Carried(h)' /\ Undisturbed
<1>1. CASE Connect(p)
    BY <1>1, ConnectKeeps
<1>2. CASE Send(p)
    BY <1>2, SendKeeps
<1>3. CASE Receive(p)
    BY <1>3, ReceiveKeeps
<1>4. CASE Shutdown(p)
    BY <1>4, EndingKeeps DEF Shutdown
<1>5. CASE Leave(p)
    BY <1>5, EndingKeeps DEF Leave
<1>6. CASE ResetArrives(p)
    BY <1>6, ResetArrivesKeeps
<1>7. CASE Forget(p)
    BY <1>7, ForgetKeeps DEF Forget
<1> QED BY <1>1, <1>2, <1>3, <1>4, <1>5, <1>6, <1>7 DEF PeerStep

-----------------------------------------------------------------------------
(* The system calls of a server.                                           *)

LEMMA AcceptKeeps ==
    ASSUME NetInv, NEW h \in [Peers -> Seq(Nat)], Carried(h), NEW p, Accept(p)
    PROVE  /\ NetInv' /\ Carried(h)'
           /\ p \in Peers /\ p \notin Open /\ st[p] = "queued" /\ Open' = Open \union {p}
           /\ \A q \in Peers : Readable(q)' = Readable(q)
<1>1. /\ backlog \in Seq(Peers) /\ Len(backlog) \in Nat /\ backlog # <<>>
      /\ \A k \in 1 .. Len(backlog) : backlog[k] \in Peers
    BY ElementOfSeq, LenProperties DEF NetInv, NetTypeOK, Accept
<1>2. Len(backlog) > 0
    BY <1>1, EmptySeq
<1>3. p = backlog[1] /\ p \in Peers /\ 1 \in 1 .. Len(backlog)
    BY <1>1, <1>2, HeadTailProperties DEF Accept
<1>4. st[p] = "queued"
    BY <1>3 DEF NetInv
<1>5. /\ st' \in [Peers -> {"none", "queued", "open", "closed"}] /\ st'[p] = "open"
      /\ \A q \in Peers \ {p} : st'[q] = st[q]
    BY <1>3 DEF Accept, NetInv, NetTypeOK
<1>6. /\ backlog' \in Seq(Peers) /\ Len(backlog') = Len(backlog) - 1
      /\ \A k \in 1 .. Len(backlog) - 1 : backlog'[k] = backlog[k + 1]
    BY <1>1, HeadTailProperties DEF Accept
<1>7. NetTypeOK'
    BY <1>5, <1>6 DEF NetInv, NetTypeOK, Accept
<1>8. \A k \in 1 .. Len(backlog') :
          /\ k + 1 \in 1 .. Len(backlog) /\ backlog'[k] = backlog[k + 1]
          /\ k + 1 # 1 /\ k \in Nat
    BY <1>1, <1>6
<1>9. \A k \in 1 .. Len(backlog') : st'[backlog'[k]] = "queued"
    <2> TAKE k \in 1 .. Len(backlog')
    <2>1. backlog[k + 1] \in Peers /\ backlog[k + 1] # p /\ st[backlog[k + 1]] = "queued"
        BY <1>1, <1>3, <1>8 DEF NetInv
    <2> QED BY <1>5, <1>8, <2>1
<1>10. \A k, l \in 1 .. Len(backlog') : backlog'[k] = backlog'[l] => k = l
    <2> TAKE k, l \in 1 .. Len(backlog')
    <2>1. backlog[k + 1] = backlog[l + 1] => k + 1 = l + 1
        BY <1>8 DEF NetInv
    <2>2. k \in Nat /\ l \in Nat
        BY <1>8
    <2> QED BY <1>8, <2>1, <2>2
<1>11. NetInv'
    BY <1>5, <1>7, <1>9, <1>10 DEF NetInv, Accept
<1>12. ASSUME NEW q \in Peers PROVE Counted(q, h[q])' /\ InOrder(q, h[q])'
    <2>1. /\ outq'[q] = outq[q] /\ inq'[q] = inq[q] /\ sent'[q] = sent[q]
          /\ got'[q] = got[q] /\ rst'[q] = rst[q]
        BY DEF Accept
    <2> QED BY <2>1, CarriedElsewhere DEF Carried
<1>13. p \notin Open /\ Open' = Open \union {p}
    BY <1>3, <1>4, <1>5 DEF Open
<1> QED BY <1>3, <1>4, <1>11, <1>12, <1>13 DEF Carried, Readable, Accept

\* What read returns goes from inq[p] to what the server carries.
LEMMA ReadKeeps ==
    ASSUME NetInv, NEW h \in [Peers -> Seq(Nat)], Carried(h), NEW p \in Open,
           h[p] = <<>>, NEW n \in Nat \ {0}, Read(p, n), NEW t
    PROVE  t = Taken(inq[p], Low(n, Len(inq[p]))) =>
           /\ NetInv'
           /\ t \in Seq(Nat) /\ Len(t) \in 1 .. n
           /\ Carried([h EXCEPT ![p] = t])'
           /\ Open' = Open
           /\ \A q \in Peers \ {p} : Readable(q)' = Readable(q)
<1> DEFINE i == inq[p]
           m == Low(n, Len(i))
           s == Rest(i, m)
           h2 == [h EXCEPT ![p] = t]
<1>1. p \in Peers
    BY DEF Open
<1>2. i \in Seq(Nat) /\ Len(i) \in Nat /\ outq[p] \in Seq(Nat) /\ Len(outq[p]) \in Nat
    BY <1>1, LenProperties DEF NetInv, NetTypeOK
<1>3. i # <<>> /\ Len(i) > 0
    BY <1>2, EmptySeq DEF Read
<1>4. m \in 1 .. Len(i) /\ m \in 1 .. n
    BY <1>2, <1>3 DEF Low
<1> HIDE DEF m
<1>0. SUFFICES ASSUME t = Taken(i, m)
               PROVE  /\ NetInv'
                      /\ t \in Seq(Nat) /\ Len(t) \in 1 .. n
                      /\ Carried(h2)'
                      /\ Open' = Open
                      /\ \A q \in Peers \ {p} : Readable(q)' = Readable(q)
    BY DEF m
<1>5. /\ t \in Seq(Nat) /\ Len(t) = m /\ s \in Seq(Nat) /\ Len(s) = Len(i) - m
      /\ t \o s = i
    <2> HIDE DEF i
    <2> QED BY <1>0, <1>2, <1>4, TakenAndRest
<1>6. /\ inq' \in [Peers -> Seq(Nat)] /\ inq'[p] = s
      /\ \A q \in Peers \ {p} : inq'[q] = inq[q]
    <2>1. inq' = [inq EXCEPT ![p] = s]
        BY DEF Read, Rest, m
    <2> QED BY <1>1, <1>5, <2>1 DEF NetInv, NetTypeOK
<1>7. NetInv'
    <2>1. NetTypeOK'
        BY <1>6 DEF NetInv, NetTypeOK, Read
    <2>2. st[p] = "open"
        BY DEF Open
    <2> QED BY <1>6, <2>1, <2>2 DEF NetInv, Read
<1>8. h2 \in [Peers -> Seq(Nat)] /\ h2[p] = t /\ \A q \in Peers \ {p} : h2[q] = h[q]
    BY <1>1, <1>5
<1>9. ASSUME NEW q \in Peers PROVE Counted(q, h2[q])' /\ InOrder(q, h2[q])'
    <2>1. CASE q = p
        <3>1. Len(h[p]) = 0
            BY EmptySeq
        <3>2. Len(outq[p]) + 0 + Len(i) <= sent[p] - got[p]
            BY <1>1, <3>1 DEF Carried, Counted
        <3>3. Len(outq[p]) + m + (Len(i) - m) = Len(outq[p]) + 0 + Len(i)
            <4> DEFINE a == Len(outq[p])
                       b == Len(i)
            <4>1. a \in Nat /\ b \in Nat /\ m \in 1 .. b
                BY <1>2, <1>4
            <4> HIDE DEF a, b
            <4>2. a + m + (b - m) = a + 0 + b
                BY <4>1
            <4> QED BY <4>2 DEF a, b
        <3>4. Counted(p, t)'
            BY <1>5, <1>6, <3>2, <3>3 DEF Counted, Read
        <3>5. outq[p] \o t \o s = outq[p] \o <<>> \o i
            <4> DEFINE o == outq[p]
            <4>1. o \in Seq(Nat) /\ t \in Seq(Nat) /\ s \in Seq(Nat)
                BY <1>2, <1>5
            <4> HIDE DEF o, i, s
            <4>2. o \o t \o s = o \o <<>> \o (t \o s)
                BY <4>1, TakenFromLast, Zenon
            <4>4. (o \o t) \o s = (o \o <<>>) \o i
                BY <1>5, <4>2
            <4> QED BY <4>4 DEF o
        <3>6. ASSUME rst[p] = FALSE
              PROVE  outq[p] \o t \o s = Run(got[p], sent[p])
            <4>1. outq[p] \o <<>> \o i = Run(got[p], sent[p])
                BY <1>1, <3>6 DEF Carried, InOrder
            <4> QED BY <3>5, <4>1
        <3>7. InOrder(p, t)'
            BY <1>6, <3>6 DEF InOrder, Read
        <3> QED BY <1>8, <2>1, <3>4, <3>7
    <2>2. CASE q # p
        <3>1. /\ outq'[q] = outq[q] /\ inq'[q] = inq[q] /\ sent'[q] = sent[q]
              /\ got'[q] = got[q] /\ rst'[q] = rst[q]
            BY <1>6, <2>2 DEF Read
        <3>2. Counted(q, h[q])' /\ InOrder(q, h[q])'
            BY <3>1, CarriedElsewhere DEF Carried
        <3> QED BY <1>8, <2>2, <3>2
    <2> QED BY <2>1, <2>2
<1>10. Open' = Open /\ \A q \in Peers \ {p} : Readable(q)' = Readable(q)
    BY <1>6 DEF Open, Readable, Read
<1>11. Carried(h2)'
    BY <1>9 DEF Carried
<1> QED BY <1>4, <1>5, <1>7, <1>10, <1>11

LEMMA CloseKeeps ==
    ASSUME NetInv, NEW h \in [Peers -> Seq(Nat)], Carried(h), NEW p \in Open, Close(p)
    PROVE  /\ NetInv' /\ Carried(h)' /\ Open' = Open \ {p}
           /\ \A q \in Peers : Readable(q)' = Readable(q)
<1>1. p \in Peers /\ st[p] = "open"
    BY DEF Open
<1>2. /\ st' \in [Peers -> {"none", "queued", "open", "closed"}] /\ st'[p] = "closed"
      /\ \A q \in Peers \ {p} : st'[q] = st[q]
    BY <1>1 DEF Close, NetInv, NetTypeOK
<1>3. NetTypeOK'
    BY <1>2 DEF NetInv, NetTypeOK, Close
<1>4. \A k \in 1 .. Len(backlog) : st'[backlog[k]] = "queued"
    <2> TAKE k \in 1 .. Len(backlog)
    <2>1. backlog[k] \in Peers /\ st[backlog[k]] = "queued"
        BY ElementOfSeq DEF NetInv, NetTypeOK
    <2> QED BY <1>1, <1>2, <2>1
<1>5. NetInv'
    BY <1>2, <1>3, <1>4 DEF NetInv, Close
<1>6. ASSUME NEW q \in Peers PROVE Counted(q, h[q])' /\ InOrder(q, h[q])'
    <2>1. /\ outq'[q] = outq[q] /\ inq'[q] = inq[q] /\ sent'[q] = sent[q]
          /\ got'[q] = got[q] /\ rst'[q] = rst[q]
        BY DEF Close
    <2> QED BY <2>1, CarriedElsewhere DEF Carried
<1>7. Open' = Open \ {p}
    BY <1>2 DEF Open
<1> QED BY <1>5, <1>6, <1>7 DEF Carried, Readable, Close

\* What write takes goes from what the server carries to outq[p].
LEMMA WriteKeeps ==
    ASSUME NetInv, NEW h \in [Peers -> Seq(Nat)], Carried(h), NEW p \in Open,
           NEW t \in Seq(Nat), NEW s \in Seq(Nat), Write(p, t)
    PROVE  h[p] = t \o s =>
           /\ NetInv' /\ Carried([h EXCEPT ![p] = s])' /\ Open' = Open
           /\ \A q \in Peers : Readable(q)' = Readable(q)
<1> DEFINE h2 == [h EXCEPT ![p] = s]
<1>0. SUFFICES ASSUME h[p] = t \o s
               PROVE  /\ NetInv' /\ Carried(h2)' /\ Open' = Open
                      /\ \A q \in Peers : Readable(q)' = Readable(q)
    OBVIOUS
<1>1. p \in Peers /\ st[p] = "open"
    BY DEF Open
<1>2. outq[p] \in Seq(Nat) /\ inq[p] \in Seq(Nat) /\ outq[p] \o t \in Seq(Nat)
    BY <1>1 DEF NetInv, NetTypeOK
<1>3. /\ outq' \in [Peers -> Seq(Nat)] /\ outq'[p] = outq[p] \o t
      /\ \A q \in Peers \ {p} : outq'[q] = outq[q]
    BY <1>1, <1>2 DEF NetInv, NetTypeOK, Write
<1>4. NetInv'
    <2>1. NetTypeOK'
        BY <1>3 DEF NetInv, NetTypeOK, Write
    <2> QED BY <1>1, <1>3, <2>1 DEF NetInv, Write
<1>5. ASSUME NEW q \in Peers PROVE Counted(q, h2[q])' /\ InOrder(q, h2[q])'
    <2>1. CASE q = p
        <3>1. Counted(p, s)'
            <4>1. Len(t \o s) = Len(t) + Len(s) /\ Len(outq[p] \o t) = Len(outq[p]) + Len(t)
                BY <1>2, ConcatProperties
            <4>2. Len(outq[p]) + Len(t \o s) + Len(inq[p]) <= sent[p] - got[p]
                BY <1>0, <1>1 DEF Carried, Counted
            <4>3. (Len(outq[p]) + Len(t)) + Len(s) + Len(inq[p])
                      = Len(outq[p]) + (Len(t) + Len(s)) + Len(inq[p])
                <5> DEFINE a == Len(outq[p])
                           b == Len(t)
                           c == Len(s)
                           d == Len(inq[p])
                <5>1. a \in Nat /\ b \in Nat /\ c \in Nat /\ d \in Nat
                    BY <1>2, LenProperties
                <5> HIDE DEF a, b, c, d
                <5>2. (a + b) + c + d = a + (b + c) + d
                    BY <5>1
                <5> QED BY <5>2 DEF a, b, c, d
            <4>4. (Len(outq[p]) + Len(t)) + Len(s) + Len(inq[p]) <= sent[p] - got[p]
                BY <4>1, <4>2, <4>3
            <4> QED BY <1>3, <4>1, <4>4 DEF Counted, Write
        <3>2. (outq[p] \o t) \o s \o inq[p] = outq[p] \o (t \o s) \o inq[p]
            <4> DEFINE o == outq[p]
                       i == inq[p]
            <4>1. o \in Seq(Nat) /\ i \in Seq(Nat) /\ t \in Seq(Nat) /\ s \in Seq(Nat)
                BY <1>2
            <4> HIDE DEF o, i
            <4>2. o \o (t \o s) = (o \o t) \o s
                BY <4>1, MoveBorder, Zenon
            <4> QED BY <4>2 DEF o, i
        <3>3. ASSUME rst[p] = FALSE
              PROVE  (outq[p] \o t) \o s \o inq[p] = Run(got[p], sent[p])
            BY <1>0, <1>1, <3>2, <3>3 DEF Carried, InOrder
        <3>4. InOrder(p, s)'
            BY <1>3, <3>3 DEF InOrder, Write
        <3> QED BY <1>1, <2>1, <3>1, <3>4
    <2>2. CASE q # p
        <3>1. /\ outq'[q] = outq[q] /\ inq'[q] = inq[q] /\ sent'[q] = sent[q]
              /\ got'[q] = got[q] /\ rst'[q] = rst[q]
            BY <1>3, <2>2 DEF Write
        <3>2. Counted(q, h[q])' /\ InOrder(q, h[q])'
            BY <3>1, CarriedElsewhere DEF Carried
        <3> QED BY <2>2, <3>2
    <2> QED BY <2>1, <2>2
<1>6. Carried(h2)'
    BY <1>5 DEF Carried
<1> QED BY <1>4, <1>6 DEF Open, Readable, Write

\* What is carried for a connection that was reset may be thrown away.
LEMMA DropKeeps ==
    ASSUME NetInv, NEW h \in [Peers -> Seq(Nat)], Carried(h), NEW p \in Peers, rst[p]
    PROVE  Carried([h EXCEPT ![p] = <<>>])
<1> DEFINE h2 == [h EXCEPT ![p] = <<>>]
<1>1. h2[p] = <<>> /\ \A q \in Peers \ {p} : h2[q] = h[q]
    OBVIOUS
<1>2. Counted(p, h[p])
    BY DEF Carried
<1>3. Len(<<>>) = 0 /\ h[p] \in Seq(Nat)
    BY EmptySeq
<1>4. Counted(p, <<>>)
    <2>1. /\ Len(outq[p]) \in Nat /\ Len(h[p]) \in Nat /\ Len(inq[p]) \in Nat
          /\ sent[p] \in Nat /\ got[p] \in Nat
        BY <1>3, LenProperties DEF NetInv, NetTypeOK
    <2>2. Len(outq[p]) + 0 + Len(inq[p]) <= sent[p] - got[p]
        <3> DEFINE a == Len(outq[p])
                   b == Len(h[p])
                   c == Len(inq[p])
                   d == sent[p] - got[p]
        <3>1. a \in Nat /\ b \in Nat /\ c \in Nat /\ d \in Int
            BY <2>1
        <3>1a. a + b + c <= d
            BY <1>2 DEF Counted
        <3> HIDE DEF a, b, c, d
        <3>2. a + 0 + c <= d
            BY <3>1, <3>1a
        <3> QED BY <3>2 DEF a, b, c, d
    <2> QED BY <1>3, <2>2 DEF Counted
<1>5. InOrder(p, <<>>)
    BY DEF InOrder
<1> QED BY <1>1, <1>4, <1>5 DEF Carried

LEMMA NetStays ==
    ASSUME NEW h, UNCHANGED net
    PROVE  /\ (NetInv => NetInv') /\ (Carried(h) => Carried(h)')
           /\ Open' = Open /\ \A q \in Peers : Readable(q)' = Readable(q)
           /\ backlog' = backlog
BY DEF net, NetTypeOK, NetInv, Carried, Counted, InOrder, Open, Readable
=============================================================================
