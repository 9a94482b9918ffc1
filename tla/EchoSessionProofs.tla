--------------------------- MODULE EchoSessionProofs ---------------------------
(***************************************************************************)
(* Proofs about ForkServer and EchoSession: no connection is leaked by the *)
(* parent or its children, what a client gets back is what it has sent,    *)
(* and tcpcli prints the whole of a line before it takes the next.         *)
(***************************************************************************)
EXTENDS EchoSession, EchoNetProofs

\* Who has a descriptor for a connection; while the parent is to fork, it is
\* the only one.
HeldInv ==
    /\ \A i \in Pids : Live(i) => peer[i] \in Peers
    /\ \A p \in Peers : p \in Open <=> connfd = p \/ \E i \in Pids : Live(i) /\ peer[i] = p
    /\ \A i, j \in Pids : Live(i) /\ Live(j) /\ peer[i] = peer[j] => i = j
    /\ connfd # Nobody <=> parent \in {"fork", "close"}
    /\ parent = "fork" => \A i \in Pids : Live(i) => peer[i] # connfd
    /\ NoLostChild

\* h is what the children have read and not written.
Holds(h) ==
    /\ \A i \in Pids : child[i] = "write" => h[peer[i]] = buf[i]
    /\ \A p \in Peers : h[p] = <<>> \/ \E i \in Pids : child[i] = "write" /\ peer[i] = p

KeptInv == \E h \in [Peers -> Seq(Nat)] : Holds(h) /\ Carried(h)

ForkInv == TypeOK /\ NetInv /\ HeldInv /\ KeptInv

-----------------------------------------------------------------------------
(* The steps of the parent.                                                *)

LEMMA HeldStays ==
    ASSUME HeldInv, Open' = Open, peer' = peer, connfd' = connfd, parent' = parent,
           \A i \in Pids : Live(i)' = Live(i), NoLostChild'
    PROVE  HeldInv'
BY DEF HeldInv

LEMMA HoldsStays ==
    ASSUME NEW h, Holds(h), buf' = buf,
           \A i \in Pids : child'[i] = "write" <=> child[i] = "write",
           \A i \in Pids : child[i] = "write" => peer'[i] = peer[i]
    PROVE  Holds(h)'
BY DEF Holds

\* A step outside the server, and one of the server that leaves the net alone.
LEMMA OutsideHolds ==
    ASSUME ForkInv, NEW h \in [Peers -> Seq(Nat)], Holds(h), Carried(h)', NetInv',
           Open' = Open, UNCHANGED server
    PROVE  ForkInv'
<1>1. TypeOK'
    BY DEF ForkInv, TypeOK, NetInv, server
<1>2. HeldInv'
    BY DEF ForkInv, HeldInv, NoLostChild, Live, server
<1>3. Holds(h)'
    BY DEF Holds, server
<1> QED BY <1>1, <1>2, <1>3 DEF ForkInv, KeptInv

LEMMA ParentAcceptHolds == ASSUME ForkInv, ParentAccept PROVE ForkInv'
<1> USE DEF ForkInv
<1>0. PICK p : p = Head(backlog)
    OBVIOUS
<1>a. PICK h \in [Peers -> Seq(Nat)] : Holds(h) /\ Carried(h)
    BY DEF KeptInv
<1>1. p = Head(backlog) /\ Holds(h) /\ Carried(h)
    BY <1>0, <1>a
<1>2. /\ parent = "accept" /\ Accept(p) /\ connfd' = p /\ parent' = "fork"
      /\ UNCHANGED <<sigchld, handler, child, peer, buf>>
    BY <1>1 DEF ParentAccept
<1>3. NetInv' /\ Carried(h)' /\ p \in Peers /\ p \notin Open /\ Open' = Open \union {p}
    BY <1>1, <1>2, AcceptKeeps
<1>4. TypeOK'
    BY <1>2, <1>3 DEF TypeOK, NetInv
<1>5. connfd = Nobody /\ Nobody \notin Peers
    BY <1>2, ForkServerAssumption DEF HeldInv
<1>6. HeldInv'
    <2>1. \A i \in Pids : Live(i)' = Live(i) /\ (Live(i) => peer[i] \in Open)
        BY <1>2 DEF HeldInv, Live
    <2>2. \A q \in Peers : q \in Open' <=> connfd' = q \/ \E i \in Pids : Live(i)' /\ peer'[i] = q
        <3> TAKE q \in Peers
        <3>1. q \in Open <=> \E i \in Pids : Live(i) /\ peer[i] = q
            BY <1>5 DEF HeldInv
        <3> QED BY <1>2, <1>3, <2>1, <3>1
    <2>3. NoLostChild'
        BY <1>2 DEF HeldInv, NoLostChild
    <2>4. \A i \in Pids : Live(i) => peer[i] # p
        BY <1>3, <2>1
    <2>5. connfd' # Nobody /\ parent' = "fork"
        BY <1>2, <1>3, <1>5
    <2>6. \A i, j \in Pids : Live(i)' /\ Live(j)' /\ peer'[i] = peer'[j] => i = j
        BY <1>2, <2>1 DEF HeldInv
    <2>7. \A i \in Pids : Live(i)' => peer'[i] \in Peers /\ peer'[i] # connfd'
        BY <1>2, <2>1, <2>4 DEF HeldInv
    <2> QED BY <2>2, <2>3, <2>5, <2>6, <2>7 DEF HeldInv
<1>7. Holds(h)'
    BY <1>1, <1>2, HoldsStays
<1> QED BY <1>3, <1>4, <1>6, <1>7 DEF KeptInv

LEMMA AcceptFailsHolds == ASSUME ForkInv, AcceptFails PROVE ForkInv'
<1> USE DEF ForkInv
<1>1. PICK h \in [Peers -> Seq(Nat)] : Holds(h) /\ Carried(h)
    BY DEF KeptInv
<1>2. /\ parent = "accept" /\ parent' = "exited"
      /\ UNCHANGED <<net, connfd, sigchld, handler, child, peer, buf>>
    BY DEF AcceptFails
<1>3. NetInv' /\ Carried(h)' /\ Open' = Open
    BY <1>1, <1>2, NetStays
<1>4. TypeOK'
    BY <1>2, <1>3 DEF TypeOK, NetInv
<1>5. HeldInv'
    BY <1>2, <1>3 DEF HeldInv, NoLostChild, Live
<1>6. Holds(h)'
    BY <1>1, <1>2, HoldsStays
<1> QED BY <1>3, <1>4, <1>5, <1>6 DEF KeptInv

LEMMA ForkHolds == ASSUME ForkInv, Fork PROVE ForkInv'
<1> USE DEF ForkInv
<1>1. PICK h \in [Peers -> Seq(Nat)] : Holds(h) /\ Carried(h)
    BY DEF KeptInv
<1>2. PICK i \in Pids :
          /\ child[i] = "none" /\ child' = [child EXCEPT ![i] = "read"]
          /\ peer' = [peer EXCEPT ![i] = connfd]
    BY DEF Fork
<1>3. parent = "fork" /\ parent' = "close" /\ UNCHANGED <<net, connfd, sigchld, handler, buf>>
    BY DEF Fork
<1>4. NetInv' /\ Carried(h)' /\ Open' = Open
    BY <1>1, <1>3, NetStays
<1>5. connfd \in Peers
    BY <1>3 DEF HeldInv, TypeOK
<1>6. /\ child' \in [Pids -> {"none", "read", "write", "close", "zombie"}]
      /\ peer' \in [Pids -> Peers \union {Nobody}]
      /\ child'[i] = "read" /\ peer'[i] = connfd
      /\ \A j \in Pids \ {i} : child'[j] = child[j] /\ peer'[j] = peer[j]
    BY <1>2, <1>5 DEF TypeOK
<1>7. TypeOK'
    BY <1>3, <1>4, <1>6 DEF TypeOK, NetInv
<1>8. ~Live(i) /\ Live(i)' /\ \A j \in Pids \ {i} : Live(j)' = Live(j)
    BY <1>2, <1>6 DEF Live
<1>9. HeldInv'
    <2>1. \A j \in Pids : Live(j)' => peer'[j] \in Peers
        BY <1>5, <1>6, <1>8 DEF HeldInv
    <2>2. \A q \in Peers : q \in Open' <=> connfd' = q \/ \E j \in Pids : Live(j)' /\ peer'[j] = q
        <3> TAKE q \in Peers
        <3>1. ASSUME NEW j \in Pids, Live(j), peer[j] = q PROVE Live(j)' /\ peer'[j] = q
            BY <1>6, <1>8, <3>1
        <3>2. ASSUME NEW j \in Pids, Live(j)', peer'[j] = q
              PROVE  connfd = q \/ (Live(j) /\ peer[j] = q)
            BY <1>6, <1>8, <3>2
        <3> QED BY <1>3, <1>4, <3>1, <3>2 DEF HeldInv
    <2>3. ASSUME NEW j \in Pids, NEW k \in Pids, Live(j)', Live(k)', peer'[j] = peer'[k]
          PROVE  j = k
        <3>1. \A l \in Pids \ {i} : Live(l)' => Live(l) /\ peer'[l] = peer[l] /\ peer[l] # connfd
            BY <1>3, <1>6, <1>8 DEF HeldInv
        <3>2. CASE j = i
            BY <1>6, <2>3, <3>1, <3>2
        <3>3. CASE k = i
            BY <1>6, <2>3, <3>1, <3>3
        <3>4. CASE j # i /\ k # i
            BY <2>3, <3>1, <3>4 DEF HeldInv
        <3> QED BY <3>2, <3>3, <3>4
    <2>4. NoLostChild'
        BY <1>3, <1>6 DEF HeldInv, NoLostChild
    <2>5. connfd' # Nobody <=> parent' \in {"fork", "close"}
        BY <1>3 DEF HeldInv
    <2> QED BY <1>3, <2>1, <2>2, <2>3, <2>4, <2>5 DEF HeldInv
<1>10. Holds(h)'
    BY <1>1, <1>2, <1>3, <1>6, HoldsStays
<1> QED BY <1>4, <1>7, <1>9, <1>10 DEF KeptInv

LEMMA ForkFailsHolds == ASSUME ForkInv, ForkFails PROVE ForkInv'
<1> USE DEF ForkInv
<1>1. PICK h \in [Peers -> Seq(Nat)] : Holds(h) /\ Carried(h)
    BY DEF KeptInv
<1>2. /\ parent = "fork" /\ parent' = "close"
      /\ UNCHANGED <<net, connfd, sigchld, handler, child, peer, buf>>
    BY DEF ForkFails
<1>3. NetInv' /\ Carried(h)' /\ Open' = Open
    BY <1>1, <1>2, NetStays
<1>4. TypeOK'
    BY <1>2, <1>3 DEF TypeOK, NetInv
<1>5. HeldInv'
    BY <1>2, <1>3 DEF HeldInv, NoLostChild, Live
<1>6. Holds(h)'
    BY <1>1, <1>2, HoldsStays
<1> QED BY <1>3, <1>4, <1>5, <1>6 DEF KeptInv

LEMMA ParentCloseHolds == ASSUME ForkInv, ParentClose PROVE ForkInv'
<1> USE DEF ForkInv
<1>0. PICK p : p = connfd
    OBVIOUS
<1>a. PICK h \in [Peers -> Seq(Nat)] : Holds(h) /\ Carried(h)
    BY DEF KeptInv
<1>1. p = connfd /\ Holds(h) /\ Carried(h)
    BY <1>0, <1>a
<1> DEFINE holders == {i \in Pids : Live(i) /\ peer[i] = p}
<1>2. /\ parent = "close" /\ parent' = "accept" /\ connfd' = Nobody
      /\ CloseUnlessHeld(p, holders)
      /\ UNCHANGED <<sigchld, handler, child, peer, buf>>
    BY <1>1 DEF ParentClose
<1>3. p \in Peers /\ p \in Open /\ Nobody \notin Peers
    BY <1>1, <1>2, ForkServerAssumption DEF HeldInv, TypeOK
<1>4. NetInv' /\ Carried(h)' /\ Open' = Open \ (IF holders = {} THEN {p} ELSE {})
    <2>1. CASE holders = {}
        <3>1. Close(p)
            BY <1>2, <2>1 DEF CloseUnlessHeld
        <3> QED BY <1>1, <1>3, <2>1, <3>1, CloseKeeps
    <2>2. CASE holders # {}
        <3>1. UNCHANGED net
            BY <1>2, <2>2 DEF CloseUnlessHeld
        <3> QED BY <1>1, <2>2, <3>1, NetStays
    <2> QED BY <2>1, <2>2
<1>5. TypeOK'
    BY <1>2, <1>4 DEF TypeOK, NetInv
<1>6. HeldInv'
    <2>1. \A i \in Pids : Live(i)' = Live(i) /\ peer'[i] = peer[i]
        BY <1>2 DEF Live
    <2>2. \A q \in Peers : q \in Open' <=> connfd' = q \/ \E i \in Pids : Live(i)' /\ peer'[i] = q
        <3> TAKE q \in Peers
        <3>1. q \in Open' <=> \E i \in Pids : Live(i) /\ peer[i] = q
            <4>1. CASE q = p
                BY <1>3, <1>4, <4>1
            <4>2. CASE q # p
                BY <1>1, <1>4, <4>2 DEF HeldInv
            <4> QED BY <4>1, <4>2
        <3> QED BY <1>2, <1>3, <2>1, <3>1
    <2>3. NoLostChild'
        BY <1>2 DEF HeldInv, NoLostChild
    <2>4. \A i \in Pids : Live(i)' => peer'[i] \in Peers
        BY <2>1 DEF HeldInv
    <2>5. \A i, j \in Pids : Live(i)' /\ Live(j)' /\ peer'[i] = peer'[j] => i = j
        BY <2>1 DEF HeldInv
    <2> QED BY <1>2, <2>2, <2>3, <2>4, <2>5 DEF HeldInv
<1>7. Holds(h)'
    BY <1>1, <1>2, HoldsStays
<1> QED BY <1>4, <1>5, <1>6, <1>7 DEF KeptInv

-----------------------------------------------------------------------------
(* sig_chld                                                                *)

LEMMA DeliverHolds == ASSUME ForkInv, Deliver PROVE ForkInv'
<1> USE DEF ForkInv
<1>1. PICK h \in [Peers -> Seq(Nat)] : Holds(h) /\ Carried(h)
    BY DEF KeptInv
<1>2. sigchld' = FALSE /\ handler' = TRUE /\ UNCHANGED <<net, parent, connfd, child, peer, buf>>
    BY DEF Deliver
<1>3. NetInv' /\ Carried(h)' /\ Open' = Open
    BY <1>1, <1>2, NetStays
<1>4. TypeOK'
    BY <1>2, <1>3 DEF TypeOK, NetInv
<1>5. HeldInv'
    BY <1>2, <1>3 DEF HeldInv, NoLostChild, Live
<1>6. Holds(h)'
    BY <1>1, <1>2, HoldsStays
<1> QED BY <1>3, <1>4, <1>5, <1>6 DEF KeptInv

LEMMA ReapHolds == ASSUME ForkInv, Reap PROVE ForkInv'
<1> USE DEF ForkInv
<1>1. PICK h \in [Peers -> Seq(Nat)] : Holds(h) /\ Carried(h)
    BY DEF KeptInv
<1>2. PICK i \in Pids :
          /\ child[i] = "zombie" /\ child' = [child EXCEPT ![i] = "none"]
          /\ peer' = [peer EXCEPT ![i] = Nobody]
    BY DEF Reap
<1>3. handler /\ UNCHANGED <<net, parent, connfd, sigchld, handler, buf>>
    BY DEF Reap
<1>4. NetInv' /\ Carried(h)' /\ Open' = Open
    BY <1>1, <1>3, NetStays
<1>5. /\ child' \in [Pids -> {"none", "read", "write", "close", "zombie"}]
      /\ peer' \in [Pids -> Peers \union {Nobody}]
      /\ child'[i] = "none"
      /\ \A j \in Pids \ {i} : child'[j] = child[j] /\ peer'[j] = peer[j]
    BY <1>2 DEF TypeOK
<1>6. TypeOK'
    BY <1>3, <1>4, <1>5 DEF TypeOK, NetInv
<1>7. \A j \in Pids : Live(j)' = Live(j) /\ (Live(j) => peer'[j] = peer[j])
    <2>1. ~Live(i) /\ ~Live(i)'
        BY <1>2, <1>5 DEF Live
    <2>2. \A j \in Pids \ {i} : Live(j)' = Live(j)
        BY <1>5 DEF Live
    <2>3. Live(i)' = Live(i)
        BY <2>1 DEF Live
    <2> QED BY <1>5, <2>1, <2>2, <2>3
<1>8. HeldInv'
    <2>1. NoLostChild'
        BY <1>3 DEF NoLostChild
    <2>2. \A q \in Peers : q \in Open' <=> connfd' = q \/ \E j \in Pids : Live(j)' /\ peer'[j] = q
        BY <1>3, <1>4, <1>7 DEF HeldInv
    <2> QED BY <1>3, <1>7, <2>1, <2>2 DEF HeldInv
<1>9. Holds(h)'
    BY <1>1, <1>2, <1>3, <1>5, HoldsStays
<1> QED BY <1>4, <1>6, <1>8, <1>9 DEF KeptInv

LEMMA HandlerReturnsHolds == ASSUME ForkInv, HandlerReturns PROVE ForkInv'
<1> USE DEF ForkInv
<1>1. PICK h \in [Peers -> Seq(Nat)] : Holds(h) /\ Carried(h)
    BY DEF KeptInv
<1>2. /\ \A i \in Pids : child[i] # "zombie"
      /\ handler' = FALSE /\ UNCHANGED <<net, parent, connfd, sigchld, child, peer, buf>>
    BY DEF HandlerReturns
<1>3. NetInv' /\ Carried(h)' /\ Open' = Open
    BY <1>1, <1>2, NetStays
<1>4. TypeOK'
    BY <1>2, <1>3 DEF TypeOK, NetInv
<1>5. HeldInv'
    BY <1>2, <1>3 DEF HeldInv, NoLostChild, Live
<1>6. Holds(h)'
    BY <1>1, <1>2, HoldsStays
<1> QED BY <1>3, <1>4, <1>5, <1>6 DEF KeptInv

-----------------------------------------------------------------------------
(* A child.                                                                *)

\* Child i goes on, with t instead of what it had read and not written.
LEMMA ChildGoesOn ==
    ASSUME HeldInv, NEW i \in Pids, Live(i), NEW p, p = peer[i], TypeOK,
           NEW h \in [Peers -> Seq(Nat)], Holds(h), NEW t, NEW c,
           child' = [child EXCEPT ![i] = c], buf' = [buf EXCEPT ![i] = t], peer' = peer,
           c # "write" => t = <<>>, t \in Seq(Nat)
    PROVE  Holds([h EXCEPT ![p] = t])'
<1> DEFINE g == [h EXCEPT ![p] = t]
<1>1. p \in Peers /\ g[p] = t /\ \A q \in Peers \ {p} : g[q] = h[q]
    BY DEF HeldInv
<1>2. /\ child'[i] = c /\ buf'[i] = t
      /\ \A j \in Pids \ {i} : child'[j] = child[j] /\ buf'[j] = buf[j]
    BY DEF TypeOK
<1> HIDE DEF g
<1>3. ASSUME NEW j \in Pids \ {i}, child[j] = "write" PROVE peer[j] \in Peers \ {p}
    BY <1>3 DEF HeldInv, Live
<1>4. ASSUME NEW j \in Pids, child'[j] = "write" PROVE g[peer'[j]] = buf'[j]
    <2>1. CASE j = i
        BY <1>1, <1>2, <2>1
    <2>2. CASE j # i
        <3>1. child[j] = "write" /\ peer[j] \in Peers \ {p}
            BY <1>2, <1>3, <1>4, <2>2
        <3> QED BY <1>1, <1>2, <2>2, <3>1 DEF Holds
    <2> QED BY <2>1, <2>2
<1>5. ASSUME NEW q \in Peers
      PROVE  g[q] = <<>> \/ \E j \in Pids : child'[j] = "write" /\ peer'[j] = q
    <2>1. CASE q = p
        BY <1>1, <1>2, <2>1
    <2>2. CASE q # p
        <3>1. ASSUME NEW j \in Pids, child[j] = "write", peer[j] = q
              PROVE  child'[j] = "write" /\ peer'[j] = q
            BY <1>2, <2>2, <3>1
        <3> QED BY <1>1, <2>2, <3>1 DEF Holds
    <2> QED BY <2>1, <2>2
<1>6. Holds(g)'
    BY <1>4, <1>5 DEF Holds
<1> QED BY <1>6 DEF g

\* A child that does not write has written all that it has read.
LEMMA NothingKept ==
    ASSUME HeldInv, NEW i \in Pids, Live(i), child[i] # "write",
           NEW h \in [Peers -> Seq(Nat)], Holds(h)
    PROVE  h[peer[i]] = <<>>
<1>1. peer[i] \in Peers
    BY DEF HeldInv
<1>2. ASSUME NEW j \in Pids, child[j] = "write", peer[j] = peer[i] PROVE FALSE
    BY <1>2 DEF HeldInv, Live
<1> QED BY <1>1, <1>2 DEF Holds

LEMMA ChildReadHolds == ASSUME ForkInv, NEW i \in Pids, ChildRead(i) PROVE ForkInv'
<1> USE DEF ForkInv
<1>1. PICK h \in [Peers -> Seq(Nat)] : Holds(h) /\ Carried(h)
    BY DEF KeptInv
<1>2. PICK p : p = peer[i]
    OBVIOUS
<1>3. PICK t : t = Taken(inq[p], Low(BufSize, Len(inq[p])))
    OBVIOUS
<1>4. PICK g : g = [h EXCEPT ![p] = t]
    OBVIOUS
<1>5. /\ child[i] = "read" /\ Read(p, BufSize)
      /\ child' = [child EXCEPT ![i] = "write"] /\ buf' = [buf EXCEPT ![i] = t]
      /\ UNCHANGED <<parent, connfd, sigchld, handler, peer>>
    BY <1>2, <1>3 DEF ChildRead, Taken
<1>6. Live(i) /\ p \in Open /\ p \in Peers
    BY <1>2, <1>5 DEF HeldInv, Live
<1>7. h[p] = <<>>
    BY <1>1, <1>2, <1>5, <1>6, NothingKept
<1>8. BufSize \in Nat \ {0}
    BY ForkServerAssumption
<1>9. NetInv' /\ t \in Seq(Nat) /\ Len(t) \in 1 .. BufSize /\ Carried(g)' /\ Open' = Open
    BY <1>1, <1>3, <1>4, <1>5, <1>6, <1>7, <1>8, ReadKeeps
<1>10. g \in [Peers -> Seq(Nat)]
    BY <1>4, <1>9
<1>11. Holds(g)'
    BY <1>1, <1>2, <1>4, <1>5, <1>6, <1>9, ChildGoesOn
<1>12. TypeOK'
    <2>1. Len(t) <= BufSize
        BY <1>8, <1>9
    <2> QED BY <1>5, <1>9, <2>1 DEF TypeOK, NetInv
<1>13. HeldInv'
    <2>1. child'[i] = "write" /\ \A j \in Pids \ {i} : child'[j] = child[j]
        BY <1>5 DEF TypeOK
    <2>2. Live(i)' = Live(i) /\ \A j \in Pids \ {i} : Live(j)' = Live(j)
        BY <1>5, <2>1 DEF Live
    <2>3. NoLostChild'
        BY <1>5, <2>1 DEF HeldInv, NoLostChild
    <2> QED BY <1>5, <1>9, <2>2, <2>3, HeldStays
<1> QED BY <1>9, <1>10, <1>11, <1>12, <1>13 DEF KeptInv

LEMMA ChildReadEndHolds == ASSUME ForkInv, NEW i \in Pids, ChildReadEnd(i) PROVE ForkInv'
<1> USE DEF ForkInv
<1>1. PICK h \in [Peers -> Seq(Nat)] : Holds(h) /\ Carried(h)
    BY DEF KeptInv
<1>2. /\ child[i] = "read" /\ child' = [child EXCEPT ![i] = "close"]
      /\ UNCHANGED <<net, parent, connfd, sigchld, handler, peer, buf>>
    BY DEF ChildReadEnd
<1>3. NetInv' /\ Carried(h)' /\ Open' = Open
    BY <1>1, <1>2, NetStays
<1>4. TypeOK'
    BY <1>2, <1>3 DEF TypeOK, NetInv
<1>5. child'[i] = "close" /\ \A j \in Pids \ {i} : child'[j] = child[j]
    BY <1>2 DEF TypeOK
<1>6. HeldInv'
    <2>1. Live(i)' = Live(i) /\ \A j \in Pids \ {i} : Live(j)' = Live(j)
        BY <1>2, <1>5 DEF Live
    <2>2. NoLostChild'
        BY <1>2, <1>5 DEF HeldInv, NoLostChild
    <2> QED BY <1>2, <1>3, <2>1, <2>2, HeldStays
<1>7. Holds(h)'
    BY <1>1, <1>2, <1>5, HoldsStays
<1> QED BY <1>3, <1>4, <1>6, <1>7 DEF KeptInv

LEMMA ChildWriteHolds == ASSUME ForkInv, NEW i \in Pids, ChildWrite(i) PROVE ForkInv'
<1> USE DEF ForkInv
<1>1. PICK h \in [Peers -> Seq(Nat)] : Holds(h) /\ Carried(h)
    BY DEF KeptInv
<1>2. PICK p : p = peer[i]
    OBVIOUS
<1>3. PICK k \in 1 .. Len(buf[i]) :
          /\ Write(p, Taken(buf[i], k))
          /\ buf' = [buf EXCEPT ![i] = SubSeq(@, k + 1, Len(@))]
    BY <1>2 DEF ChildWrite, Taken
<1>4. PICK t : t = Taken(buf[i], k)
    OBVIOUS
<1>5. PICK s : s = Rest(buf[i], k)
    OBVIOUS
<1>6. PICK g : g = [h EXCEPT ![p] = s]
    OBVIOUS
<1>7. /\ child[i] = "write" /\ UNCHANGED <<parent, connfd, sigchld, handler, peer>>
      /\ Write(p, t) /\ buf' = [buf EXCEPT ![i] = s]
    BY <1>3, <1>4, <1>5 DEF ChildWrite, Rest
<1>8. buf[i] \in Seq(Nat) /\ Len(buf[i]) \in Nat /\ Len(buf[i]) <= BufSize
    BY LenProperties DEF TypeOK
<1>9. /\ t \in Seq(Nat) /\ s \in Seq(Nat) /\ Len(s) = Len(buf[i]) - k /\ t \o s = buf[i]
      /\ Len(s) <= BufSize
    <2>1. /\ t \in Seq(Nat) /\ s \in Seq(Nat) /\ Len(s) = Len(buf[i]) - k /\ t \o s = buf[i]
        BY <1>3, <1>4, <1>5, <1>8, TakenAndRest
    <2>2. Len(buf[i]) - k <= BufSize
        BY <1>8, ForkServerAssumption
    <2> QED BY <2>1, <2>2
<1>10. PICK c : c = IF s = <<>> THEN "read" ELSE "write"
    OBVIOUS
<1>11. child' = [child EXCEPT ![i] = c] /\ c \in {"read", "write"} /\ (c # "write" => s = <<>>)
    <2>1. buf'[i] = s
        BY <1>7 DEF TypeOK
    <2> QED BY <1>10, <2>1 DEF ChildWrite
<1>12. Live(i) /\ p \in Open /\ p \in Peers
    BY <1>2, <1>7 DEF HeldInv, Live
<1>13. h[p] = t \o s
    BY <1>1, <1>2, <1>7, <1>9 DEF Holds
<1>14. NetInv' /\ Carried(g)' /\ Open' = Open
    BY <1>1, <1>6, <1>7, <1>9, <1>12, <1>13, WriteKeeps
<1>15. g \in [Peers -> Seq(Nat)]
    BY <1>6, <1>9
<1>16. Holds(g)'
    BY <1>1, <1>2, <1>6, <1>7, <1>9, <1>11, <1>12, ChildGoesOn
<1>17. TypeOK'
    BY <1>7, <1>9, <1>11, <1>14 DEF TypeOK, NetInv
<1>18. HeldInv'
    <2>1. child'[i] = c /\ \A j \in Pids \ {i} : child'[j] = child[j]
        BY <1>11 DEF TypeOK
    <2>2. Live(i)' = Live(i) /\ \A j \in Pids \ {i} : Live(j)' = Live(j)
        BY <1>7, <1>11, <2>1 DEF Live
    <2>3. NoLostChild'
        BY <1>7, <1>11, <2>1 DEF HeldInv, NoLostChild
    <2> QED BY <1>7, <1>14, <2>2, <2>3, HeldStays
<1> QED BY <1>14, <1>15, <1>16, <1>17, <1>18 DEF KeptInv

LEMMA ExitHolds ==
    ASSUME ForkInv, NEW i \in Pids, Exit(i), Live(i), child[i] # "write" \/ rst[peer[i]]
    PROVE  ForkInv'
<1> USE DEF ForkInv
<1>1. PICK h \in [Peers -> Seq(Nat)] : Holds(h) /\ Carried(h)
    BY DEF KeptInv
<1>2. PICK p : p = peer[i]
    OBVIOUS
<1>3. PICK g : g = [h EXCEPT ![p] = <<>>]
    OBVIOUS
<1>4. /\ CloseUnlessHeld(p, {connfd} \intersect {p})
      /\ child' = [child EXCEPT ![i] = "zombie"] /\ sigchld' = TRUE
      /\ buf' = [buf EXCEPT ![i] = <<>>] /\ UNCHANGED <<parent, connfd, handler, peer>>
    BY <1>2 DEF Exit
<1>5. p \in Open /\ p \in Peers
    BY <1>2 DEF HeldInv
<1>6. <<>> \in Seq(Nat) /\ Len(<<>>) = 0
    BY EmptySeq
<1>7. g \in [Peers -> Seq(Nat)]
    BY <1>3, <1>6
<1>8. Carried(g)
    <2>1. CASE rst[p]
        BY <1>1, <1>3, <1>5, <2>1, DropKeeps
    <2>2. CASE child[i] # "write"
        <3>1. h[p] = <<>>
            BY <1>1, <1>2, <2>2, NothingKept
        <3>2. g = h
            BY <1>3, <3>1
        <3> QED BY <1>1, <3>2
    <2> QED BY <1>2, <2>1, <2>2
<1>9. NetInv' /\ Carried(g)' /\ Open' = Open \ (IF connfd = p THEN {} ELSE {p})
    <2>1. CASE connfd = p
        <3>1. UNCHANGED net
            BY <1>4, <2>1 DEF CloseUnlessHeld
        <3> QED BY <1>8, <2>1, <3>1, NetStays
    <2>2. CASE connfd # p
        <3>1. Close(p)
            BY <1>4, <2>2 DEF CloseUnlessHeld
        <3> QED BY <1>5, <1>7, <1>8, <2>2, <3>1, CloseKeeps
    <2> QED BY <2>1, <2>2
<1>10. TypeOK'
    BY <1>4, <1>6, <1>9, ForkServerAssumption DEF TypeOK, NetInv
<1>11. Holds(g)'
    BY <1>1, <1>2, <1>3, <1>4, <1>6, ChildGoesOn
<1>12. HeldInv'
    <2>1. child'[i] = "zombie" /\ \A j \in Pids \ {i} : child'[j] = child[j]
        BY <1>4 DEF TypeOK
    <2>2. Live(i)' = FALSE /\ \A j \in Pids \ {i} : Live(j)' = Live(j)
        BY <2>1 DEF Live
    <2>3. ASSUME NEW j \in Pids, Live(j)' PROVE j # i /\ Live(j) /\ peer'[j] = peer[j]
        BY <1>4, <2>2, <2>3
    <2>4. \A q \in Peers : q \in Open' <=> connfd' = q \/ \E j \in Pids : Live(j)' /\ peer'[j] = q
        <3> TAKE q \in Peers
        <3>1. CASE q = p
            <4>1. \A j \in Pids : Live(j)' => peer'[j] # p
                BY <1>2, <2>3 DEF HeldInv
            <4> QED BY <1>4, <1>5, <1>9, <3>1, <4>1
        <3>2. CASE q # p
            <4>1. ASSUME NEW j \in Pids, Live(j), peer[j] = q PROVE Live(j)' /\ peer'[j] = q
                BY <1>2, <1>4, <2>2, <3>2, <4>1
            <4>2. q \in Open' <=> q \in Open
                BY <1>9, <3>2
            <4> QED BY <1>4, <2>3, <4>1, <4>2 DEF HeldInv
        <3> QED BY <3>1, <3>2
    <2>5. NoLostChild'
        BY <1>4 DEF NoLostChild
    <2>6. \A j \in Pids : Live(j)' => peer'[j] \in Peers /\ (parent' = "fork" => peer'[j] # connfd')
        BY <1>4, <2>3 DEF HeldInv
    <2>7. \A j, k \in Pids : Live(j)' /\ Live(k)' /\ peer'[j] = peer'[k] => j = k
        BY <2>3 DEF HeldInv
    <2>8. connfd' # Nobody <=> parent' \in {"fork", "close"}
        BY <1>4 DEF HeldInv
    <2> QED BY <2>4, <2>5, <2>6, <2>7, <2>8 DEF HeldInv
<1> QED BY <1>7, <1>9, <1>10, <1>11, <1>12 DEF KeptInv

LEMMA ChildWriteFailsHolds == ASSUME ForkInv, NEW i \in Pids, ChildWriteFails(i) PROVE ForkInv'
<1> USE DEF ForkInv
<1>1. PICK h \in [Peers -> Seq(Nat)] : Holds(h) /\ Carried(h)
    BY DEF KeptInv
<1>2. PICK p : p = peer[i]
    OBVIOUS
<1>3. PICK g : g = [h EXCEPT ![p] = <<>>]
    OBVIOUS
<1>4. child[i] = "write" /\ rst[p] /\ Live(i)
    BY <1>2 DEF ChildWriteFails, Live
<1>5. p \in Open /\ p \in Peers
    BY <1>2, <1>4 DEF HeldInv
<1>6. CASE /\ child' = [child EXCEPT ![i] = "read"] /\ buf' = [buf EXCEPT ![i] = <<>>]
           /\ UNCHANGED <<net, parent, connfd, sigchld, handler, peer>>
    <2>1. <<>> \in Seq(Nat) /\ Len(<<>>) = 0
        BY EmptySeq
    <2>2. g \in [Peers -> Seq(Nat)] /\ Carried(g)
        BY <1>1, <1>3, <1>4, <1>5, <2>1, DropKeeps
    <2>3. NetInv' /\ Carried(g)' /\ Open' = Open
        BY <1>6, <2>2, NetStays
    <2>4. TypeOK'
        BY <1>6, <2>1, <2>3, ForkServerAssumption DEF TypeOK, NetInv
    <2>5. Holds(g)'
        BY <1>1, <1>2, <1>3, <1>4, <1>6, <2>1, ChildGoesOn
    <2>6. child'[i] = "read" /\ \A j \in Pids \ {i} : child'[j] = child[j]
        BY <1>6 DEF TypeOK
    <2>7. HeldInv'
        <3>1. Live(i)' = Live(i) /\ \A j \in Pids \ {i} : Live(j)' = Live(j)
            BY <1>4, <2>6 DEF Live
        <3>2. NoLostChild'
            BY <1>6, <2>6 DEF HeldInv, NoLostChild
        <3> QED BY <1>6, <2>3, <3>1, <3>2, HeldStays
    <2> QED BY <2>2, <2>3, <2>4, <2>5, <2>7 DEF KeptInv
<1>7. CASE Exit(i)
    BY <1>2, <1>4, <1>7, ExitHolds
<1> QED BY <1>6, <1>7 DEF ChildWriteFails

LEMMA ServerHolds == ASSUME ForkInv, Server PROVE ForkInv'
<1>1. CASE Parent
    BY <1>1, ParentAcceptHolds, AcceptFailsHolds, ForkHolds, ForkFailsHolds, ParentCloseHolds
       DEF Parent
<1>2. CASE Handler
    BY <1>2, DeliverHolds, ReapHolds, HandlerReturnsHolds DEF Handler
<1>3. ASSUME NEW i \in Pids, Child(i) PROVE ForkInv'
    <2>1. CASE ChildExit(i)
        <3>1. Exit(i) /\ Live(i) /\ child[i] # "write"
            BY <2>1 DEF ChildExit, Live
        <3> QED BY <3>1, ExitHolds
    <2>2. CASE ChildWriteFails(i)
        BY <2>2, ChildWriteFailsHolds
    <2> QED BY <1>3, <2>1, <2>2, ChildReadHolds, ChildReadEndHolds, ChildWriteHolds DEF Child
<1> QED BY <1>1, <1>2, <1>3 DEF Server

-----------------------------------------------------------------------------
(* The peers, and ForkServer as a whole.                                   *)

\* Nothing is kept for a connection that is over.
LEMMA ClosedIsWritten ==
    ASSUME HeldInv, NEW h \in [Peers -> Seq(Nat)], Holds(h), NEW p \in Peers, st[p] = "closed"
    PROVE  h[p] = <<>>
<1>1. ASSUME NEW i \in Pids, child[i] = "write", peer[i] = p PROVE FALSE
    <2>1. p \in Open
        BY <1>1 DEF HeldInv, Live
    <2> QED BY <2>1 DEF Open
<1> QED BY <1>1 DEF Holds

LEMMA PeersHold ==
    ASSUME ForkInv, NEW p \in Peers, PeerStep(p), UNCHANGED server
    PROVE  ForkInv'
<1>1. PICK h \in [Peers -> Seq(Nat)] : Holds(h) /\ Carried(h)
    BY DEF ForkInv, KeptInv
<1>2. NetInv' /\ Carried(h)' /\ Open' = Open
    BY <1>1, PeerStepKeeps, ClosedIsWritten DEF ForkInv, Undisturbed
<1> QED BY <1>1, <1>2, OutsideHolds

LEMMA NothingHappens == ASSUME ForkInv, UNCHANGED <<net, server>> PROVE ForkInv'
<1>1. PICK h \in [Peers -> Seq(Nat)] : Holds(h) /\ Carried(h)
    BY DEF ForkInv, KeptInv
<1>2. NetInv' /\ Carried(h)' /\ Open' = Open
    BY <1>1, NetStays DEF ForkInv
<1> QED BY <1>1, <1>2, OutsideHolds

LEMMA ForkInitially == ASSUME Init PROVE ForkInv
<1> DEFINE h == [p \in Peers |-> <<>>]
<1>1. NetInv /\ Carried(h) /\ Open = {}
    BY NetInitially DEF Init
<1>2. <<>> \in Seq(Nat) /\ Len(<<>>) = 0
    BY EmptySeq
<1>3. h \in [Peers -> Seq(Nat)]
    BY <1>2
<1>4. \A i \in Pids : child[i] = "none"
    BY DEF Init
<1>5. TypeOK
    <2>1. buf \in [Pids -> Seq(Nat)] /\ \A i \in Pids : Len(buf[i]) <= BufSize
        BY <1>2, ForkServerAssumption DEF Init
    <2> QED BY <1>1, <2>1 DEF Init, TypeOK, NetInv
<1>6. HeldInv
    <2>1. Nobody \notin Peers
        BY ForkServerAssumption
    <2>2. \A i \in Pids : ~Live(i)
        BY <1>4 DEF Live
    <2> QED BY <1>1, <1>4, <2>1, <2>2 DEF HeldInv, NoLostChild, Init
<1>7. Holds(h)
    BY <1>4 DEF Holds
<1> QED BY <1>1, <1>3, <1>5, <1>6, <1>7 DEF ForkInv, KeptInv

LEMMA ForkInvariance == Spec => []ForkInv
<1>1. ASSUME ForkInv, [Next]_vars PROVE ForkInv'
    BY <1>1, ServerHolds, PeersHold, NothingHappens DEF Next, vars
<1> QED BY <1>1, ForkInitially, PTL DEF Spec

LEMMA HeldIsSocketsHeld == ASSUME ForkInv PROVE SocketsHeld
<1> DEFINE holders == {j \in Pids : Live(j)}
           held == ({connfd} \ {Nobody}) \union {peer[i] : i \in holders}
<1>1. Nobody \notin Peers /\ connfd \in Peers \union {Nobody} /\ Open \subseteq Peers
    BY ForkServerAssumption DEF ForkInv, TypeOK, Open
<1>2. ASSUME NEW p \in Open PROVE p \in held
    <2>1. connfd = p \/ \E i \in holders : peer[i] = p
        BY <1>1 DEF ForkInv, HeldInv
    <2> QED BY <1>1, <2>1
<1>3. ASSUME NEW p \in held PROVE p \in Open
    <2>1. CASE p \in {connfd} \ {Nobody}
        BY <1>1, <2>1 DEF ForkInv, HeldInv
    <2>2. CASE p \in {peer[i] : i \in holders}
        <3>1. PICK i \in Pids : Live(i) /\ p = peer[i]
            BY <2>2
        <3> QED BY <3>1 DEF ForkInv, HeldInv
    <2> QED BY <1>3, <2>1, <2>2
<1>4. Open = held
    BY <1>2, <1>3
<1> QED BY <1>4 DEF SocketsHeld, ForkInv, HeldInv

LEMMA KeptIsEchoed == ASSUME ForkInv PROVE EchoIntact
<1> SUFFICES ASSUME NEW p \in Open, ~rst[p]
             PROVE  LET B == {i \in Pids : child[i] = "write" /\ peer[i] = p}
                        held == IF B = {} THEN <<>> ELSE buf[CHOOSE i \in B : TRUE]
                    IN  outq[p] \o held \o inq[p] = [k \in 1 .. sent[p] - got[p] |-> got[p] + k]
    BY DEF EchoIntact
<1> DEFINE B == {i \in Pids : child[i] = "write" /\ peer[i] = p}
           held == IF B = {} THEN <<>> ELSE buf[CHOOSE i \in B : TRUE]
<1>1. PICK h \in [Peers -> Seq(Nat)] : Holds(h) /\ Carried(h)
    BY DEF ForkInv, KeptInv
<1>2. p \in Peers /\ rst[p] = FALSE
    BY DEF Open, ForkInv, NetInv, NetTypeOK
<1>3. held = h[p]
    <2>1. CASE B = {}
        BY <1>1, <1>2, <2>1 DEF Holds
    <2>2. CASE B # {}
        <3>1. PICK i : i = CHOOSE j \in B : TRUE
            OBVIOUS
        <3>2. i \in B
            BY <2>2, <3>1
        <3> QED BY <1>1, <2>2, <3>1, <3>2 DEF Holds
    <2> QED BY <2>1, <2>2
<1> HIDE DEF held
<1>4. outq[p] \o h[p] \o inq[p] = Run(got[p], sent[p])
    BY <1>1, <1>2 DEF Carried, InOrder
<1>5. outq[p] \o held \o inq[p] = [k \in 1 .. sent[p] - got[p] |-> got[p] + k]
    BY <1>3, <1>4 DEF Run
<1> QED BY <1>5 DEF held

-----------------------------------------------------------------------------
(* tcpcli.                                                                 *)

\* What fgets took last is a line, or as much of one as sendline holds.
IsLine(p) ==
    /\ pos[p] \in text.newlines \/ pos[p] = Low(text.len, printed[p] + MAXLINE - 1)
    /\ pos[p] <= printed[p] + MAXLINE - 1
    /\ \A k \in printed[p] + 1 .. pos[p] - 1 : k \notin text.newlines

\* Every byte sent before the present line has come back and is printed; and
\* the client reads on until all of that line has, or the server has closed.
ClientInv(p) ==
    /\ rst[p] = FALSE
    /\ printed[p] <= got[p] /\ sent[p] <= pos[p] /\ pos[p] <= text.len
    /\ Filled(p) < MAXLINE
    /\ st[p] = "none" => step[p] = "fgets" /\ pos[p] = 0 /\ printed[p] = 0
    /\ step[p] = "fgets" =>
           printed[p] = got[p] /\ (st[p] # "closed" => got[p] = sent[p] /\ sent[p] = pos[p])
    /\ step[p] = "write" =>
           printed[p] = got[p] /\ sent[p] < pos[p] /\ (st[p] # "closed" => IsLine(p))
    /\ step[p] = "read" =>
           /\ st[p] # "closed" => sent[p] = pos[p]
           /\ sent[p] = pos[p] => IsLine(p)
           /\ got[p] = pos[p] => pos[p] = text.len /\ text.len \notin text.newlines

ClientTypeOK ==
    /\ cli \subseteq Peers /\ text \in Texts \union {Nothing}
    /\ step \in [Peers -> {"fgets", "write", "read"}]
    /\ pos \in [Peers -> Nat] /\ printed \in [Peers -> Nat]

ClientsInv == ClientTypeOK /\ \A p \in cli : ClientInv(p)

SessionInv == ForkInv /\ ClientsInv

LEMMA SessionNumbers ==
    ASSUME SessionInv
    PROVE  /\ MAXLINE \in Nat \ {0} /\ text.len \in Nat
           /\ \A p \in Peers : /\ sent[p] \in Nat /\ got[p] \in Nat /\ pos[p] \in Nat
                               /\ printed[p] \in Nat /\ got[p] <= sent[p]
<1>1. text.len \in Nat
    <2>1. CASE text \in Texts
        BY <2>1, EchoSessionAssumption
    <2>2. CASE text = Nothing
        BY <2>2 DEF Nothing
    <2> QED BY <2>1, <2>2 DEF SessionInv, ClientsInv, ClientTypeOK
<1> QED BY <1>1, ForkServerAssumption
        DEF SessionInv, ForkInv, NetInv, NetTypeOK, ClientsInv, ClientTypeOK, MAXLINE

\* For a client of which nothing changes that ClientInv speaks about, except
\* that its connection may be accepted or closed.
LEMMA ClientStays ==
    ASSUME NEW p, ClientInv(p), text' = text,
           rst'[p] = rst[p], sent'[p] = sent[p], got'[p] = got[p],
           step'[p] = step[p], pos'[p] = pos[p], printed'[p] = printed[p],
           st'[p] = "none" => st[p] = "none", st'[p] # "closed" => st[p] # "closed"
    PROVE  ClientInv(p)'
BY DEF ClientInv, IsLine, Filled, MAXLINE

\* The server neither sends nor reads for a client.
LEMMA ServerAndClients ==
    ASSUME ForkInv, Server
    PROVE  /\ UNCHANGED <<end, rst, sent, got>>
           /\ \A p \in Peers : /\ st'[p] = "none" => st[p] = "none"
                               /\ st'[p] # "closed" => st[p] # "closed"
<1> DEFINE Goal == /\ UNCHANGED <<end, rst, sent, got>>
                   /\ \A p \in Peers : /\ st'[p] = "none" => st[p] = "none"
                                       /\ st'[p] # "closed" => st[p] # "closed"
<1>1. CASE UNCHANGED net
    BY <1>1 DEF net
<1>2. ASSUME NEW p, Accept(p) PROVE Goal
    <2>1. PICK h \in [Peers -> Seq(Nat)] : Carried(h)
        BY DEF ForkInv, KeptInv
    <2>2. p \in Peers /\ st[p] = "queued"
        BY <1>2, <2>1, AcceptKeeps DEF ForkInv
    <2> QED BY <1>2, <2>2 DEF Accept, ForkInv, NetInv, NetTypeOK
<1>3. ASSUME NEW p, Close(p) PROVE Goal
    BY <1>3 DEF Close, ForkInv, NetInv, NetTypeOK
<1>4. ASSUME NEW p, NEW n, Read(p, n) PROVE Goal
    BY <1>4 DEF Read
<1>5. ASSUME NEW p, NEW b, Write(p, b) PROVE Goal
    BY <1>5 DEF Write
<1>6. ASSUME NEW i \in Pids, Exit(i) PROVE Goal
    BY <1>1, <1>3, <1>6 DEF Exit, CloseUnlessHeld
<1>7. CASE Parent
    <2>1. CASE ParentAccept
        BY <1>2, <2>1 DEF ParentAccept
    <2>2. CASE ParentClose
        BY <1>1, <1>3, <2>2 DEF ParentClose, CloseUnlessHeld
    <2>3. CASE AcceptFails \/ Fork \/ ForkFails
        BY <1>1, <2>3 DEF AcceptFails, Fork, ForkFails
    <2> QED BY <1>7, <2>1, <2>2, <2>3 DEF Parent
<1>8. CASE Handler
    BY <1>1, <1>8 DEF Handler, Deliver, Reap, HandlerReturns
<1>9. ASSUME NEW i \in Pids, Child(i) PROVE Goal
    <2>1. CASE ChildRead(i)
        BY <1>4, <2>1 DEF ChildRead
    <2>2. CASE ChildReadEnd(i)
        BY <1>1, <2>2 DEF ChildReadEnd
    <2>3. CASE ChildWrite(i)
        BY <1>5, <2>3 DEF ChildWrite
    <2>4. CASE ChildWriteFails(i)
        BY <1>1, <1>6, <2>4 DEF ChildWriteFails
    <2>5. CASE ChildExit(i)
        BY <1>6, <2>5 DEF ChildExit
    <2> QED BY <1>9, <2>1, <2>2, <2>3, <2>4, <2>5 DEF Child
<1> QED BY <1>7, <1>8, <1>9 DEF Server

LEMMA ServerKeepsClients ==
    ASSUME SessionInv, Server, UNCHANGED <<session, choice>>
    PROVE  SessionInv'
<1>1. ForkInv'
    BY ServerHolds DEF SessionInv
<1>2. ClientTypeOK'
    BY DEF SessionInv, ClientsInv, ClientTypeOK, session, choice
<1>3. ASSUME NEW p \in cli PROVE ClientInv(p)'
    <2>1. p \in Peers /\ ClientInv(p)
        BY DEF SessionInv, ClientsInv, ClientTypeOK
    <2> QED BY <2>1, ServerAndClients, ClientStays DEF SessionInv, session, choice
<1> QED BY <1>1, <1>2, <1>3 DEF SessionInv, ClientsInv, choice

\* A step of one peer is none of the others'.
LEMMA PeerElsewhere ==
    ASSUME NetTypeOK, NEW p \in Peers, NEW q \in Peers, q # p, PeerStep(p)
    PROVE  st'[q] = st[q] /\ rst'[q] = rst[q] /\ sent'[q] = sent[q] /\ got'[q] = got[q]
BY DEF NetTypeOK, PeerStep, Connect, Send, Receive, Shutdown, Leave, ResetArrives, Forget

LEMMA OthersKeepClients ==
    ASSUME SessionInv, NEW p \in Peers \ cli, PeerStep(p), UNCHANGED <<server, session, choice>>
    PROVE  SessionInv'
<1>1. ForkInv'
    BY PeersHold DEF SessionInv
<1>2. ClientTypeOK'
    BY DEF SessionInv, ClientsInv, ClientTypeOK, session, choice
<1>3. ASSUME NEW q \in cli PROVE ClientInv(q)'
    <2>1. q \in Peers /\ q # p /\ ClientInv(q) /\ NetTypeOK
        BY DEF SessionInv, ClientsInv, ClientTypeOK, ForkInv, NetInv
    <2>2. st'[q] = st[q] /\ rst'[q] = rst[q] /\ sent'[q] = sent[q] /\ got'[q] = got[q]
        BY <2>1, PeerElsewhere
    <2> QED BY <2>1, <2>2, ClientStays DEF session, choice
<1> QED BY <1>1, <1>2, <1>3 DEF SessionInv, ClientsInv, choice

\* A step of client p is none of the others'.
LEMMA OneClient ==
    ASSUME SessionInv, NEW p \in cli, ForkInv', ClientInv(p)', UNCHANGED choice,
           step' \in [Peers -> {"fgets", "write", "read"}],
           pos' \in [Peers -> Nat], printed' \in [Peers -> Nat],
           \A q \in Peers \ {p} :
               /\ st'[q] = st[q] /\ rst'[q] = rst[q] /\ sent'[q] = sent[q] /\ got'[q] = got[q]
               /\ step'[q] = step[q] /\ pos'[q] = pos[q] /\ printed'[q] = printed[q]
    PROVE  SessionInv'
<1>1. ClientTypeOK'
    BY DEF SessionInv, ClientsInv, ClientTypeOK, choice
<1>2. ASSUME NEW q \in cli, q # p PROVE ClientInv(q)'
    <2>1. q \in Peers \ {p} /\ ClientInv(q)
        BY <1>2 DEF SessionInv, ClientsInv, ClientTypeOK
    <2> QED BY <2>1, ClientStays DEF choice
<1> QED BY <1>1, <1>2 DEF SessionInv, ClientsInv, choice

LEMMA QuitHolds ==
    ASSUME SessionInv, NEW p \in cli, Running(p), Quit(p), UNCHANGED <<server, choice>>
    PROVE  ForkInv'
<1>1. PICK h \in [Peers -> Seq(Nat)] : Holds(h) /\ Carried(h)
    BY DEF SessionInv, ForkInv, KeptInv
<1>2. p \in Peers /\ st[p] # "none"
    BY DEF SessionInv, ClientsInv, ClientTypeOK, Running
<1>3. NetInv' /\ Carried(h)' /\ Open' = Open
    BY <1>1, <1>2, EndingKeeps DEF SessionInv, ForkInv, Quit, Undisturbed
<1> QED BY <1>1, <1>3, OutsideHolds DEF SessionInv

LEMMA FgetsHolds ==
    ASSUME SessionInv, NEW p \in cli, Fgets(p), UNCHANGED <<server, choice>>
    PROVE  SessionInv'
<1>1. p \in Peers /\ ClientInv(p) /\ st[p] # "none" /\ step[p] = "fgets" /\ ClientTypeOK
    BY DEF SessionInv, ClientsInv, ClientTypeOK, Running, Fgets
<1>2. CASE Quit(p) /\ UNCHANGED <<step, pos, printed>>
    <2>1. ForkInv'
        BY <1>2, QuitHolds DEF Fgets
    <2>2. ClientInv(p)'
        BY <1>1, <1>2, ClientStays DEF Quit, choice
    <2>3. /\ step' \in [Peers -> {"fgets", "write", "read"}]
          /\ pos' \in [Peers -> Nat] /\ printed' \in [Peers -> Nat]
        BY <1>1, <1>2 DEF ClientTypeOK
    <2> QED BY <1>2, <2>1, <2>2, <2>3, OneClient DEF Quit
<1>3. ASSUME NEW e \in LineEnds(p), pos' = [pos EXCEPT ![p] = e],
             step' = [step EXCEPT ![p] = "write"], UNCHANGED <<net, printed>>
      PROVE  SessionInv'
    <2>1. ForkInv'
        BY <1>3, NothingHappens DEF SessionInv
    <2>2. /\ e \in Nat /\ pos[p] < e /\ e <= text.len /\ e <= pos[p] + MAXLINE - 1
          /\ e \in text.newlines \/ e = Low(text.len, pos[p] + MAXLINE - 1)
          /\ \A k \in pos[p] + 1 .. e - 1 : k \notin text.newlines
        BY <1>1, SessionNumbers DEF LineEnds, Low
    <2>3. pos'[p] = e /\ step'[p] = "write" /\ UNCHANGED <<text, MAXLINE>>
        BY <1>1, <1>3 DEF ClientTypeOK, choice, MAXLINE
    <2>4. ClientInv(p)'
        <3>1. printed[p] = got[p] /\ sent[p] < e
            BY <1>1, <2>2, SessionNumbers DEF ClientInv
        <3>2. ASSUME st[p] # "closed" PROVE IsLine(p)'
            <4>1. printed[p] = pos[p]
                BY <1>1, <3>2 DEF ClientInv
            <4> QED BY <1>3, <2>2, <2>3, <4>1 DEF IsLine, Low
        <3>3. sent[p] <= e
            BY <1>1, <2>2, <3>1, SessionNumbers
        <3> QED BY <1>1, <1>3, <2>2, <2>3, <3>1, <3>2, <3>3 DEF ClientInv, Filled, net
    <2>5. /\ step' \in [Peers -> {"fgets", "write", "read"}]
          /\ pos' \in [Peers -> Nat] /\ printed' \in [Peers -> Nat]
          /\ \A q \in Peers \ {p} : step'[q] = step[q] /\ pos'[q] = pos[q]
        BY <1>1, <1>3, <2>2 DEF ClientTypeOK
    <2> QED BY <1>3, <2>1, <2>4, <2>5, OneClient DEF net
<1> QED BY <1>2, <1>3 DEF Fgets

LEMMA WriteLineHolds ==
    ASSUME SessionInv, NEW p \in cli, WriteLine(p), UNCHANGED <<server, choice>>
    PROVE  SessionInv'
<1>1. /\ p \in Peers /\ ClientInv(p) /\ st[p] # "none" /\ step[p] = "write" /\ ClientTypeOK
      /\ Send(p) /\ UNCHANGED <<pos, printed>> /\ st[p] # "closed"
    BY DEF SessionInv, ClientsInv, ClientTypeOK, Running, WriteLine, Send
<1>2. ForkInv'
    BY <1>1, PeersHold DEF SessionInv, PeerStep
<1>3. /\ sent'[p] = sent[p] + 1 /\ \A q \in Peers \ {p} : sent'[q] = sent[q]
      /\ UNCHANGED <<st, rst, got>>
    BY <1>1 DEF Send, SessionInv, ForkInv, NetInv, NetTypeOK
<1>4. PICK c : c = IF sent[p] + 1 = pos[p] THEN "read" ELSE "write"
    OBVIOUS
<1>5. step' = [step EXCEPT ![p] = c]
    BY <1>3, <1>4 DEF WriteLine
<1>6. /\ step' \in [Peers -> {"fgets", "write", "read"}] /\ step'[p] = c
      /\ \A q \in Peers \ {p} : step'[q] = step[q]
    BY <1>1, <1>4, <1>5 DEF ClientTypeOK
<1>7. UNCHANGED <<text, MAXLINE, Filled(p)>>
    BY <1>1, <1>3 DEF choice, MAXLINE, Filled
<1>8. IsLine(p)' /\ sent[p] + 1 <= pos[p] /\ got[p] < pos[p]
    <2>1. IsLine(p) /\ sent[p] < pos[p]
        BY <1>1 DEF ClientInv
    <2>2. sent[p] + 1 <= pos[p] /\ got[p] < pos[p]
        BY <1>1, <2>1, SessionNumbers
    <2> QED BY <1>1, <1>7, <2>1, <2>2 DEF IsLine
<1>9. ClientInv(p)'
    <2>1. c = "write" => sent[p] + 1 < pos[p]
        BY <1>1, <1>4, <1>8, SessionNumbers
    <2>2. c = "read" => sent[p] + 1 = pos[p]
        BY <1>4
    <2>3. got[p] # pos[p]
        BY <1>1, <1>8, SessionNumbers
    <2>4. c \in {"read", "write"}
        BY <1>4
    <2> QED BY <1>1, <1>3, <1>6, <1>7, <1>8, <2>1, <2>2, <2>3, <2>4 DEF ClientInv
<1> QED BY <1>1, <1>2, <1>3, <1>6, <1>9, OneClient DEF ClientTypeOK

LEMMA WriteLostHolds ==
    ASSUME SessionInv, NEW p \in cli, WriteLost(p), UNCHANGED <<server, choice>>
    PROVE  SessionInv'
<1>1. /\ p \in Peers /\ ClientInv(p) /\ st[p] = "closed" /\ step[p] = "write" /\ ClientTypeOK
      /\ UNCHANGED <<pos, printed>>
    BY DEF SessionInv, ClientsInv, ClientTypeOK, WriteLost
<1>2. CASE Quit(p) /\ UNCHANGED step
    <2>1. ForkInv'
        BY <1>2, QuitHolds DEF WriteLost
    <2>2. ClientInv(p)'
        BY <1>1, <1>2, ClientStays DEF Quit, choice
    <2>3. /\ step' \in [Peers -> {"fgets", "write", "read"}]
          /\ pos' \in [Peers -> Nat] /\ printed' \in [Peers -> Nat]
        BY <1>1, <1>2 DEF ClientTypeOK
    <2> QED BY <1>1, <1>2, <2>1, <2>2, <2>3, OneClient DEF Quit
<1>3. CASE step' = [step EXCEPT ![p] = "read"] /\ UNCHANGED net
    <2>1. ForkInv'
        BY <1>3, NothingHappens DEF SessionInv
    <2>2. /\ step' \in [Peers -> {"fgets", "write", "read"}] /\ step'[p] = "read"
          /\ \A q \in Peers \ {p} : step'[q] = step[q]
        BY <1>1, <1>3 DEF ClientTypeOK
    <2>3. got[p] # pos[p] /\ sent[p] # pos[p]
        BY <1>1, SessionNumbers DEF ClientInv
    <2>4. UNCHANGED <<text, MAXLINE, Filled(p)>>
        BY <1>1, <1>3 DEF choice, MAXLINE, Filled, net
    <2>5. ClientInv(p)'
        BY <1>1, <1>3, <2>2, <2>3, <2>4 DEF ClientInv, net
    <2> QED BY <1>1, <1>3, <2>1, <2>2, <2>5, OneClient DEF ClientTypeOK, net
<1> QED BY <1>2, <1>3 DEF WriteLost

\* The k-th byte on the way to a client is the k-th it is still to get.
LEMMA ByteIsItsNumber ==
    ASSUME ForkInv, NEW p \in Peers, rst[p] = FALSE, NEW k \in 1 .. Len(outq[p])
    PROVE  outq[p][k] = got[p] + k /\ got[p] + k <= sent[p]
<1>1. PICK h \in [Peers -> Seq(Nat)] : Holds(h) /\ Carried(h)
    BY DEF ForkInv, KeptInv
<1> DEFINE o == outq[p]
           b == h[p] \o inq[p]
           g == got[p]
           s == sent[p]
           r == Run(g, s)
<1>2. /\ o \in Seq(Nat) /\ h[p] \in Seq(Nat) /\ inq[p] \in Seq(Nat) /\ b \in Seq(Nat)
      /\ g \in Nat /\ s \in Nat /\ g <= s
    BY DEF ForkInv, NetInv, NetTypeOK
<1>3. (o \o h[p]) \o inq[p] = r
    BY <1>1 DEF Carried, InOrder
<1>4. o \o b = r
    <2> DEFINE c == h[p]
               d == inq[p]
    <2>1. o \in Seq(Nat) /\ c \in Seq(Nat) /\ d \in Seq(Nat)
        BY <1>2
    <2> HIDE DEF o, c, d
    <2>2. o \o (c \o d) = (o \o c) \o d
        BY <2>1, MoveBorder, Zenon
    <2> QED BY <1>3, <2>2 DEF c, d
<1>5. Len(r) = s - g /\ \A j \in 1 .. s - g : r[j] = g + j
    BY <1>2, RunIsSeq
<1>6. k \in 1 .. Len(o) /\ Len(o) \in Nat /\ Len(b) \in Nat
    BY <1>2, LenProperties
<1> HIDE DEF o, b, g, s, r
<1>7. Len(o \o b) = Len(o) + Len(b) /\ (o \o b)[k] = o[k]
    BY <1>2, <1>6, ConcatProperties
<1>8. k \in 1 .. s - g /\ g + k <= s
    BY <1>2, <1>4, <1>5, <1>6, <1>7
<1> QED BY <1>4, <1>5, <1>7, <1>8 DEF o, g, s

LEMMA TakeHolds ==
    ASSUME SessionInv, NEW p \in cli, NEW k \in 1 .. Len(outq[p]), Take(p, k),
           UNCHANGED server
    PROVE  ForkInv'
<1>1. PICK h \in [Peers -> Seq(Nat)] : Holds(h) /\ Carried(h)
    BY DEF SessionInv, ForkInv, KeptInv
<1>2. p \in Peers
    BY DEF SessionInv, ClientsInv, ClientTypeOK
<1>3. /\ outq' = [outq EXCEPT ![p] = Rest(@, k)] /\ got' = [got EXCEPT ![p] = @ + k]
      /\ UNCHANGED <<backlog, st, end, rst, inq, sent>>
    BY DEF Take, Rest
<1>4. NetInv' /\ Carried(h)' /\ Open' = Open
    BY <1>1, <1>2, <1>3, TakingKeeps DEF SessionInv, ForkInv, Undisturbed
<1> QED BY <1>1, <1>4, OutsideHolds DEF SessionInv

LEMMA ReadLineHolds ==
    ASSUME SessionInv, NEW p \in cli, ReadLine(p), UNCHANGED <<server, choice>>
    PROVE  SessionInv'
<1>1. /\ p \in Peers /\ ClientInv(p) /\ st[p] # "none" /\ step[p] = "read" /\ ClientTypeOK
      /\ UNCHANGED pos
    BY DEF SessionInv, ClientsInv, ClientTypeOK, Running, ReadLine
<1> DEFINE AtLineEnd(k) == outq[p][k] \in text.newlines \/ Filled(p) + k = MAXLINE - 1
<1>2. PICK k \in 1 .. Low(Len(outq[p]), MAXLINE - 1 - Filled(p)) :
          /\ Take(p, k)
          /\ IF AtLineEnd(k)
             THEN /\ printed' = [printed EXCEPT ![p] = got'[p]]
                  /\ step' = [step EXCEPT ![p] = "fgets"]
             ELSE UNCHANGED <<printed, step>>
    BY DEF ReadLine
<1>3. /\ MAXLINE \in Nat \ {0} /\ text.len \in Nat
      /\ sent[p] \in Nat /\ got[p] \in Nat /\ pos[p] \in Nat /\ printed[p] \in Nat
      /\ printed[p] <= got[p] /\ sent[p] <= pos[p] /\ pos[p] <= text.len
      /\ Len(outq[p]) \in Nat
    BY <1>1, SessionNumbers, LenProperties
       DEF ClientInv, SessionInv, ForkInv, NetInv, NetTypeOK
<1>4. k \in 1 .. Len(outq[p]) /\ got[p] + k <= printed[p] + MAXLINE - 1
    BY <1>3 DEF Low, Filled
<1>5. ForkInv'
    BY <1>2, <1>4, TakeHolds
<1>6. outq[p][k] = got[p] + k /\ got[p] + k <= sent[p]
    BY <1>1, <1>4, ByteIsItsNumber DEF SessionInv, ClientInv
<1>7. /\ got'[p] = got[p] + k /\ \A q \in Peers \ {p} : got'[q] = got[q]
      /\ UNCHANGED <<st, rst, sent>>
    BY <1>1, <1>2 DEF Take, SessionInv, ForkInv, NetInv, NetTypeOK
<1>8. UNCHANGED <<text, MAXLINE>>
    BY DEF choice, MAXLINE
<1>9. CASE AtLineEnd(k)
    <2>1. /\ printed' = [printed EXCEPT ![p] = got[p] + k]
          /\ step' = [step EXCEPT ![p] = "fgets"]
        BY <1>2, <1>7, <1>9
    <2>2. /\ printed'[p] = got[p] + k /\ step'[p] = "fgets"
          /\ printed' \in [Peers -> Nat] /\ step' \in [Peers -> {"fgets", "write", "read"}]
          /\ \A q \in Peers \ {p} : printed'[q] = printed[q] /\ step'[q] = step[q]
        BY <1>1, <1>3, <2>1 DEF ClientTypeOK
    <2>3. ASSUME st[p] # "closed" PROVE got[p] + k = sent[p] /\ sent[p] = pos[p]
        <3>1. sent[p] = pos[p] /\ IsLine(p)
            BY <1>1, <2>3 DEF ClientInv
        <3>2. pos[p] <= got[p] + k
            <4>1. CASE outq[p][k] \in text.newlines
                <5>1. got[p] + k \notin printed[p] + 1 .. pos[p] - 1
                    BY <1>6, <3>1, <4>1 DEF IsLine
                <5> QED BY <1>3, <5>1
            <4>2. CASE Filled(p) + k = MAXLINE - 1
                <5>1. pos[p] <= printed[p] + MAXLINE - 1
                    BY <3>1 DEF IsLine
                <5> QED BY <1>3, <4>2, <5>1 DEF Filled
            <4> QED BY <1>9, <4>1, <4>2
        <3> QED BY <1>3, <1>6, <3>1, <3>2
    <2>4. Filled(p)' = 0
        BY <1>3, <1>7, <2>2 DEF Filled
    <2>5. ClientInv(p)'
        <3>1. 0 < MAXLINE /\ got[p] + k <= got[p] + k
            BY <1>3
        <3> QED BY <1>1, <1>3, <1>7, <1>8, <2>2, <2>3, <2>4, <3>1 DEF ClientInv
    <2> QED BY <1>1, <1>5, <1>7, <2>2, <2>5, OneClient DEF ClientTypeOK
<1>10. CASE ~AtLineEnd(k)
    <2>1. UNCHANGED <<printed, step>>
        BY <1>2, <1>10
    <2>2. IsLine(p)' = IsLine(p)
        BY <1>1, <1>8, <2>1 DEF IsLine, Low
    <2>3. ASSUME got[p] + k = pos[p] PROVE pos[p] = text.len /\ text.len \notin text.newlines
        <3>1. sent[p] = pos[p]
            BY <1>3, <1>6, <2>3
        <3>2. IsLine(p)
            BY <1>1, <3>1 DEF ClientInv
        <3>3. pos[p] \notin text.newlines
            BY <1>6, <1>10, <2>3
        <3>4. pos[p] = Low(text.len, printed[p] + MAXLINE - 1)
            BY <3>2, <3>3 DEF IsLine
        <3>5. pos[p] # printed[p] + MAXLINE - 1
            <4>1. (got[p] - printed[p]) + k # MAXLINE - 1
                BY <1>10 DEF Filled
            <4> DEFINE g == got[p]
                       b == printed[p]
                       m == MAXLINE
            <4>2. k \in Nat /\ g \in Nat /\ b \in Nat /\ m \in Nat
                BY <1>3, <1>4
            <4>3. (g - b) + k # m - 1
                BY <4>1
            <4> HIDE DEF g, b, m
            <4>4. g + k # b + m - 1
                BY <4>2, <4>3
            <4> QED BY <2>3, <4>4 DEF g, b, m
        <3>6. pos[p] = text.len
            BY <3>4, <3>5 DEF Low
        <3> QED BY <3>3, <3>6
    <2>4. Filled(p)' < MAXLINE /\ printed[p] <= got[p] + k
        BY <1>3, <1>4, <1>7, <2>1 DEF Filled
    <2>5. ClientInv(p)'
        BY <1>1, <1>3, <1>7, <1>8, <2>1, <2>2, <2>3, <2>4 DEF ClientInv
    <2> QED BY <1>1, <1>5, <1>7, <2>1, <2>5, OneClient DEF ClientTypeOK
<1> QED BY <1>9, <1>10

LEMMA ReadEndHolds ==
    ASSUME SessionInv, NEW p \in cli, ReadEnd(p), UNCHANGED <<server, choice>>
    PROVE  SessionInv'
<1>1. /\ p \in Peers /\ ClientInv(p) /\ st[p] = "closed" /\ ClientTypeOK
      /\ Running(p) /\ UNCHANGED pos
    BY DEF SessionInv, ClientsInv, ClientTypeOK, ReadEnd
<1>2. CASE Quit(p) /\ UNCHANGED <<step, printed>>
    <2>1. ForkInv'
        BY <1>1, <1>2, QuitHolds
    <2>2. ClientInv(p)'
        BY <1>1, <1>2, ClientStays DEF Quit, choice
    <2> QED BY <1>1, <1>2, <2>1, <2>2, OneClient DEF Quit, ClientTypeOK
<1>3. CASE /\ printed' = [printed EXCEPT ![p] = got[p]]
           /\ step' = [step EXCEPT ![p] = "fgets"] /\ UNCHANGED net
    <2>1. ForkInv'
        BY <1>3, NothingHappens DEF SessionInv
    <2>2. got[p] \in Nat /\ MAXLINE \in Nat \ {0} /\ got[p] - got[p] = 0
        BY <1>1, SessionNumbers
    <2>3. /\ printed'[p] = got[p] /\ step'[p] = "fgets"
          /\ printed' \in [Peers -> Nat] /\ step' \in [Peers -> {"fgets", "write", "read"}]
          /\ \A q \in Peers \ {p} : printed'[q] = printed[q] /\ step'[q] = step[q]
        BY <1>1, <1>3, <2>2 DEF ClientTypeOK
    <2>4. UNCHANGED <<text, MAXLINE, st, rst, sent, got>>
        BY <1>3 DEF choice, MAXLINE, net
    <2>5. Filled(p)' = 0
        BY <2>2, <2>3, <2>4 DEF Filled
    <2>6. ClientInv(p)'
        <3>1. 0 < MAXLINE /\ got[p] <= got[p]
            BY <2>2
        <3> QED BY <1>1, <2>3, <2>4, <2>5, <3>1 DEF ClientInv
    <2> QED BY <1>1, <2>1, <2>3, <2>4, <2>6, OneClient DEF ClientTypeOK
<1> QED BY <1>2, <1>3 DEF ReadEnd

LEMMA MainHolds ==
    ASSUME SessionInv, NEW p \in cli, Main(p), UNCHANGED <<server, choice>>
    PROVE  SessionInv'
<1>1. p \in Peers /\ ClientInv(p) /\ ClientTypeOK /\ NetInv
    BY DEF SessionInv, ClientsInv, ClientTypeOK, ForkInv
<1>2. PeerStep(p)
    BY DEF Main, PeerStep
<1>3. /\ ForkInv'
      /\ \A q \in Peers \ {p} :
            st'[q] = st[q] /\ rst'[q] = rst[q] /\ sent'[q] = sent[q] /\ got'[q] = got[q]
    BY <1>1, <1>2, PeersHold, PeerElsewhere DEF SessionInv, NetInv
<1>4. UNCHANGED <<text, MAXLINE>> /\ MAXLINE \in Nat \ {0} /\ text.len \in Nat
    BY SessionNumbers DEF choice, MAXLINE
<1>5. CASE Connect(p) /\ UNCHANGED session
    <2>1. st'[p] = "queued" /\ st[p] = "none" /\ UNCHANGED <<rst, sent, got, step, pos, printed>>
        BY <1>1, <1>5 DEF Connect, NetInv, NetTypeOK, session
    <2>2. sent[p] = 0 /\ got[p] = 0 /\ step[p] = "fgets" /\ pos[p] = 0 /\ printed[p] = 0
        BY <1>1, <2>1 DEF NetInv, ClientInv
    <2>3. ClientInv(p)'
        BY <1>1, <1>4, <2>1, <2>2 DEF ClientInv, Filled
    <2> QED BY <1>1, <1>3, <2>1, <2>3, OneClient DEF ClientTypeOK
<1>6. CASE /\ Forget(p) /\ step' = [step EXCEPT ![p] = "fgets"]
           /\ pos' = [pos EXCEPT ![p] = 0] /\ printed' = [printed EXCEPT ![p] = 0]
    <2>1. st'[p] = "none" /\ rst'[p] = FALSE /\ sent'[p] = 0 /\ got'[p] = 0
        BY <1>1, <1>6 DEF Forget, NetInv, NetTypeOK
    <2>2. /\ step' \in [Peers -> {"fgets", "write", "read"}]
          /\ pos' \in [Peers -> Nat] /\ printed' \in [Peers -> Nat]
          /\ step'[p] = "fgets" /\ pos'[p] = 0 /\ printed'[p] = 0
          /\ \A q \in Peers \ {p} :
                step'[q] = step[q] /\ pos'[q] = pos[q] /\ printed'[q] = printed[q]
        BY <1>1, <1>6 DEF ClientTypeOK
    <2>3. ClientInv(p)'
        BY <1>4, <2>1, <2>2 DEF ClientInv, Filled
    <2> QED BY <1>3, <2>2, <2>3, OneClient
<1> QED BY <1>5, <1>6 DEF Main

LEMMA SessionInitially == ASSUME SessionInit PROVE SessionInv
<1>1. ForkInv
    BY ForkInitially DEF SessionInit
<1>2. ClientTypeOK
    BY DEF SessionInit, ClientTypeOK
<1>3. MAXLINE \in Nat \ {0} /\ text.len \in Nat
    <2>1. CASE text \in Texts
        BY <2>1, ForkServerAssumption, EchoSessionAssumption DEF MAXLINE
    <2>2. CASE text = Nothing
        BY <2>2, ForkServerAssumption DEF MAXLINE, Nothing
    <2> QED BY <1>2, <2>1, <2>2 DEF ClientTypeOK
<1>4. ASSUME NEW p \in cli PROVE ClientInv(p)
    <2>1. /\ st[p] = "none" /\ rst[p] = FALSE /\ sent[p] = 0 /\ got[p] = 0
          /\ step[p] = "fgets" /\ pos[p] = 0 /\ printed[p] = 0
        BY <1>2 DEF SessionInit, Init, NetInit, ClientTypeOK
    <2> QED BY <1>3, <2>1 DEF ClientInv, Filled
<1> QED BY <1>1, <1>2, <1>4 DEF SessionInv, ClientsInv

LEMMA SessionInvariance == SessionSpec => []SessionInv
<1>1. ASSUME SessionInv, [SessionNext]_allVars PROVE SessionInv'
    <2>1. CASE Server /\ UNCHANGED session /\ UNCHANGED choice
        BY <1>1, <2>1, ServerKeepsClients DEF choice, session
    <2>2. ASSUME NEW p \in Peers \ cli, PeerStep(p), UNCHANGED <<server, session>>, UNCHANGED choice
          PROVE  SessionInv'
        BY <1>1, <2>2, OthersKeepClients
    <2>3. ASSUME NEW p \in cli, Main(p) \/ StrCli(p), UNCHANGED server, UNCHANGED choice
          PROVE  SessionInv'
        BY <1>1, <2>3, MainHolds, FgetsHolds, WriteLineHolds, WriteLostHolds, ReadLineHolds,
           ReadEndHolds DEF StrCli
    <2>4. CASE UNCHANGED allVars
        <3>1. UNCHANGED <<net, server, session, choice>>
            BY <2>4 DEF allVars, vars
        <3>2. ForkInv'
            BY <1>1, <3>1, NothingHappens DEF SessionInv
        <3>3. ClientTypeOK'
            BY <1>1, <3>1 DEF SessionInv, ClientsInv, ClientTypeOK, session, choice
        <3>4. \A p \in cli : ClientInv(p)'
            BY <1>1, <3>1, ClientStays DEF SessionInv, ClientsInv, net, session, choice
        <3> QED BY <3>1, <3>2, <3>3, <3>4 DEF SessionInv, ClientsInv, choice
    <2> QED BY <1>1, <2>1, <2>2, <2>3, <2>4 DEF SessionNext
<1> QED BY <1>1, SessionInitially, PTL DEF SessionSpec

-----------------------------------------------------------------------------
(* The theorems.                                                           *)

\* Whatever its clients do, the concurrent server has a descriptor for exactly
\* the connections that are open, and overlooks no child that has ended (the
\* loop of main, sig_chld and the end of a child).
THEOREM ServerHoldsSockets == Spec => []SocketsHeld
BY ForkInvariance, HeldIsSocketsHeld, PTL

\* What a client gets back is what it has sent, in order and without a gap,
\* however the children are scheduled (str_echo and writen).
THEOREM ServerEchoes == Spec => []EchoIntact
BY ForkInvariance, KeptIsEchoed, PTL

\* No descriptor is leaked and no child overlooked when clients run tcpcli.
THEOREM SessionHoldsSockets == SessionSpec => []SocketsHeld
<1>1. ASSUME SessionInv PROVE SocketsHeld
    BY <1>1, HeldIsSocketsHeld DEF SessionInv
<1> QED BY <1>1, SessionInvariance, PTL

\* tcpcli too is answered with what it has sent, whole and in order.
THEOREM SessionEchoes == SessionSpec => []EchoIntact
<1>1. ASSUME SessionInv PROVE EchoIntact
    BY <1>1, KeptIsEchoed DEF SessionInv
<1> QED BY <1>1, SessionInvariance, PTL

\* tcpcli is never ahead of its echo: when it takes a line from stdin, every
\* byte of the lines before has come back and is printed; and it waits for an
\* answer that cannot come only behind a text without newline at its end
\* (str_cli and readline).
THEOREM SessionReturnsLines == SessionSpec => []LinesReturn
<1>1. ASSUME SessionInv PROVE LinesReturn
    <2>1. SessionTypeOK
        BY <1>1 DEF SessionInv, ClientsInv, ClientTypeOK, ClientInv, SessionTypeOK
    <2>2. ASSUME NEW p \in cli, Running(p), st[p] # "closed", step[p] = "fgets"
          PROVE  /\ printed[p] = pos[p] /\ sent[p] = pos[p]
                 /\ inq[p] = <<>> /\ outq[p] = <<>>
        <3>1. p \in Peers /\ ClientInv(p)
            BY <1>1 DEF SessionInv, ClientsInv, ClientTypeOK
        <3>2. printed[p] = pos[p] /\ sent[p] = pos[p] /\ got[p] = sent[p]
            BY <2>2, <3>1 DEF ClientInv
        <3>3. PICK h \in [Peers -> Seq(Nat)] : Carried(h)
            BY <1>1 DEF SessionInv, ForkInv, KeptInv
        <3>4. outq[p] \in Seq(Nat) /\ inq[p] \in Seq(Nat) /\ h[p] \in Seq(Nat) /\ sent[p] \in Nat
            BY <1>1, <3>1 DEF SessionInv, ForkInv, NetInv, NetTypeOK
        <3>5. Len(outq[p]) = 0 /\ Len(inq[p]) = 0
            <4> DEFINE a == Len(outq[p])
                       b == Len(h[p])
                       c == Len(inq[p])
                       d == sent[p] - got[p]
            <4>a. a \in Nat /\ b \in Nat /\ c \in Nat
                BY <3>4, LenProperties
            <4>b. d = 0
                BY <3>2, <3>4
            <4>c. Counted(p, h[p])
                BY <3>1, <3>3 DEF Carried
            <4>1. a \in Nat /\ b \in Nat /\ c \in Nat /\ d = 0 /\ a + b + c <= d
                BY <4>a, <4>b, <4>c DEF Counted
            <4> HIDE DEF a, b, c, d
            <4>2. a = 0 /\ c = 0
                BY <4>1
            <4> QED BY <4>2 DEF a, c
        <3>6. outq[p] = <<>> /\ inq[p] = <<>>
            BY <3>4, <3>5, EmptySeq
        <3> QED BY <3>2, <3>6
    <2>3. \A p \in cli : Filled(p) < MAXLINE
        BY <1>1 DEF SessionInv, ClientsInv, ClientInv
    <2>4. ASSUME NEW p \in cli, step[p] = "read", got[p] = pos[p]
          PROVE  pos[p] = text.len /\ text.len \notin text.newlines
        BY <1>1, <2>4 DEF SessionInv, ClientsInv, ClientInv
    <2> QED BY <2>1, <2>2, <2>3, <2>4 DEF LinesReturn
<1> QED BY <1>1, SessionInvariance, PTL
=============================================================================
