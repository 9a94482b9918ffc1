--------------------------- MODULE FlowTableProofs ---------------------------
(***************************************************************************)
(* Proofs about FlowTable, for any number of CPUs, lists, flows and        *)
(* entries, whichever CPUs the packets are processed on: the accounts of   *)
(* the table, what a search that no other call overtakes answers, and that *)
(* it implements FlowSet; and about Crc, for data of any length, and the   *)
(* lists that it chooses.                                                  *)
(*                                                                         *)
(* None of TypeOK, HeapAccounted, SingleOwner and NumFlowsAccounted is     *)
(* inductive.  NextOf yields a node only because no node is in two places  *)
(* of the lists; freeing the table gives back every node only because no   *)
(* call is in progress then; the count starts at 0 only because the lists  *)
(* are empty before the hook is registered.  IInv adds these facts, AtHome *)
(* that entries are in the lists of their flows, and SearchesOK where a    *)
(* search stands and what is still ahead of it.                            *)
(***************************************************************************)
EXTENDS HashedTable, FiniteSetTheorems, WellFoundedInduction, TLAPS

\* The entries that a call of the hook holds outside of the lists.
Holding(c) == pc[c] \in {"link", "free"}

\* A call that is in progress has a packet.
HasPacket == \A c \in Cpus : pc[c] # "idle" => pkt[c] \in Packets

\* No call is in progress while no hook is registered, the lists are empty
\* before one is, and the counter is 0 when init_table has returned.
Quiet ==
    /\ mod \in {"unloaded", "table", "unhooked"} => \A c \in Cpus : pc[c] = "idle"
    /\ mod \in {"unloaded", "table"} => \A b \in Buckets : chain[b] = <<>>
    /\ mod = "table" => numFlows = 0

LinkedOnce ==
    \A b1, b2 \in Buckets : \A i \in DOMAIN chain[b1], j \in DOMAIN chain[b2] :
        chain[b1][i] = chain[b2][j] => b1 = b2 /\ i = j

HeldApart ==
    \A c \in Cpus : Holding(c) =>
        /\ obj[c] \in Nodes /\ obj[c] \notin AllLinked
        /\ \A d \in Cpus \ {c} : Holding(d) => obj[d] # obj[c]

InMemory ==
    \A n \in Nodes :
        heap[n] # NULL <=> n \in AllLinked \/ \E c \in Cpus : Holding(c) /\ obj[c] = n

Ownership == LinkedOnce /\ HeldApart /\ InMemory

\* The right-hand side of NumFlowsAccounted.
Uncounted == {c \in Cpus : pc[c] = "inc"}
Undiscounted == {c \in Cpus : pc[c] \in {"free", "dec"}}

IInv == TypeOK /\ HasPacket /\ Quiet /\ Ownership /\ NumFlowsAccounted

-----------------------------------------------------------------------------
(* The lists.                                                              *)

\* A node is linked when it is at some place of some list.
LEMMA LinkedMeaning ==
    \A n : n \in AllLinked <=> \E b \in Buckets : \E i \in DOMAIN chain[b] : chain[b][i] = n
BY DEF AllLinked, Linked

\* What hlist_del leaves of a list.
LEMMA DropAtProperties ==
    ASSUME NEW S, NEW s \in Seq(S), NEW i \in DOMAIN s
    PROVE  /\ DropAt(s, i) \in Seq(S)
           /\ DOMAIN DropAt(s, i) = 1 .. Len(s) - 1
           /\ \A j \in 1 .. Len(s) - 1 : DropAt(s, i)[j] = IF j < i THEN s[j] ELSE s[j + 1]
<1>1. Len(s) - 1 \in Nat /\ DOMAIN s = 1 .. Len(s)
  OBVIOUS
<1>2. \A j \in 1 .. Len(s) - 1 : (IF j < i THEN s[j] ELSE s[j + 1]) \in S
  BY <1>1
<1>3. DropAt(s, i) \in [1 .. Len(s) - 1 -> S]
  BY <1>2 DEF DropAt
<1> QED
  BY <1>1, <1>3 DEF DropAt

\* What hlist_add_head makes of a list.
LEMMA ConsProperties ==
    ASSUME NEW S, NEW s \in Seq(S), NEW n \in S
    PROVE  /\ <<n>> \o s \in Seq(S)
           /\ DOMAIN (<<n>> \o s) = 1 .. Len(s) + 1
           /\ (<<n>> \o s)[1] = n
           /\ \A j \in 1 .. Len(s) : (<<n>> \o s)[j + 1] = s[j]
OBVIOUS

-----------------------------------------------------------------------------
(* Type correctness.                                                       *)

\* The successor of a linked entry is an entry: no entry is in two places, so
\* the place CHOOSE takes is not the last of its list.
LEMMA NextOfType ==
    ASSUME TypeOK, LinkedOnce, NEW n \in Nodes
    PROVE  NextOf(n) \in Nodes \union {NULL, Poison}
<1>1. CASE ~ \E b \in Buckets : \E i \in 1 .. Len(chain[b]) - 1 : chain[b][i] = n
  BY <1>1 DEF NextOf
<1>2. ASSUME NEW b0 \in Buckets, NEW i0 \in 1 .. Len(chain[b0]) - 1, chain[b0][i0] = n
      PROVE  NextOf(n) \in Nodes \union {NULL, Poison}
  <2> DEFINE b == CHOOSE b \in Buckets : n \in Linked(b)
             i == CHOOSE i \in DOMAIN chain[b] : chain[b][i] = n
  <2>1. chain[b0] \in Seq(Nodes) /\ i0 \in DOMAIN chain[b0]
    BY DEF TypeOK
  <2>2. n \in Linked(b0)
    BY <2>1, <1>2 DEF Linked
  <2>3. b \in Buckets /\ n \in Linked(b)
    BY <2>2
  <2>4. i \in DOMAIN chain[b] /\ chain[b][i] = n
    BY <2>3 DEF Linked
  <2>5. b = b0 /\ i = i0
    BY <2>1, <2>3, <2>4, <1>2 DEF LinkedOnce
  <2>6. chain[b0][i0 + 1] \in Nodes
    BY <2>1
  <2>7. NextOf(n) \in {Poison, NULL, chain[b][i + 1]}
    BY DEF NextOf
  <2> QED
    BY <2>5, <2>6, <2>7
<1> QED
  BY <1>1, <1>2

LEMMA FirstType ==
    ASSUME TypeOK, NEW b \in Buckets
    PROVE  First(b) \in Nodes \union {NULL}
<1>1. chain[b] \in Seq(Nodes)
  BY DEF TypeOK
<1> QED
  BY <1>1 DEF First

LEMMA ViewType ==
    ASSUME TypeOK, [Next]_vars
    PROVE  view' \in [Cpus -> Views]
<1>1. \A D : Overtaking(D) \in [Cpus -> Views]
  BY DEF Overtaking, TypeOK, Views
<1>2. ASSUME NEW c \in Cpus, Search(c)
      PROVE  view' \in [Cpus -> Views]
  <2>1. CASE UpdateStore(c) /\ ~Dangling(obj[c])
    <3>1. PICK w \in [Cpus -> Views] : view' = [w EXCEPT ![c] = "none"]
      BY <1>1, <2>1 DEF UpdateStore
    <3> QED
      BY <3>1 DEF Views
  <2>2. CASE SearchStart(c)
    BY <2>2 DEF SearchStart, TypeOK, Views
  <2>3. CASE SearchCompare(c)
    BY <2>3 DEF SearchCompare, Fault, TypeOK, Views
  <2> QED
    BY <1>2, <2>1, <2>2, <2>3 DEF Search, SearchNext, UpdateLoad, UpdateStore, Fault, TypeOK
<1>3. ASSUME NEW c \in Cpus, DeleteUnlink(c)
      PROVE  view' \in [Cpus -> Views]
  <2> DEFINE D == {d \in Cpus : pc[d] \in Searching /\ Home(d) = BucketOf[pkt[c].flow]}
  <2>1. view' = view \/ view' = Overtaking(D)
    BY <1>3 DEF DeleteUnlink
  <2> HIDE DEF D
  <2> QED
    BY <1>1, <2>1 DEF TypeOK
<1>4. CASE view' = view
  BY <1>4 DEF TypeOK
<1>5. ASSUME NEW c \in Cpus, Insert(c) \/ DeleteFree(c) \/ DeleteDec(c) \/ \E p \in Packets : HookOut(c, p)
      PROVE  view' = view
  BY <1>5 DEF Insert, InsertCheck, InsertAlloc, InsertNoMemory, InsertLink, InsertInc,
              DeleteFree, DeleteDec, HookOut
<1>6. CASE InitTable \/ RegisterOut \/ RegisterIn \/ StaleHook \/ UnregisterHooks \/ FreeTable
            \/ UNCHANGED vars
  BY <1>4, <1>6 DEF InitTable, RegisterOut, RegisterIn, StaleHook, Fault, UnregisterHooks,
                    FreeTable, vars
<1> QED
  BY <1>2, <1>3, <1>4, <1>5, <1>6 DEF Next, Call, Delete

LEMMA TypeStep ==
    ASSUME TypeOK, HasPacket, LinkedOnce, HeldApart, [Next]_vars
    PROVE  TypeOK' /\ HasPacket'
<1> USE FlowTableAssumption
<1>0. view' \in [Cpus -> Views]
  BY ViewType
<1>1. ASSUME NEW c \in Cpus, NEW p \in Packets, HookOut(c, p)
      PROVE  TypeOK' /\ HasPacket'
  BY <1>0, <1>1 DEF HookOut, TypeOK, HasPacket, table, Goto, Labels, AfterDispatch, AfterInsert, Running
<1>2. ASSUME NEW c \in Cpus, Insert(c)
      PROVE  TypeOK' /\ HasPacket'
  <2>1. CASE InsertCheck(c)
    BY <1>0, <2>1 DEF InsertCheck, TypeOK, HasPacket, table, locals, Goto, Labels, AfterInsert, Running
  <2>2. CASE InsertAlloc(c)
    BY <1>0, <2>2 DEF InsertAlloc, TypeOK, HasPacket, table, Goto, Labels, Running, Entries
  <2>3. CASE InsertNoMemory(c)
    BY <1>0, <2>3 DEF InsertNoMemory, TypeOK, HasPacket, table, locals, Goto, Labels, AfterInsert, Running
  <2>4. CASE InsertLink(c)
    <3> DEFINE b == BucketOf[pkt[c].flow]
    <3>1. pkt[c] \in Packets /\ b \in Buckets /\ obj[c] \in Nodes /\ chain[b] \in Seq(Nodes)
      BY <1>0, <2>4 DEF InsertLink, Running, HasPacket, HeldApart, Holding, TypeOK
    <3>2. <<obj[c]>> \o chain[b] \in Seq(Nodes)
      BY <3>1, ConsProperties
    <3>3. chain' = [chain EXCEPT ![b] = <<obj[c]>> \o chain[b]]
      BY <1>0, <2>4 DEF InsertLink
    <3>4. chain' \in [Buckets -> Seq(Nodes)]
      BY <1>0, <3>1, <3>2, <3>3 DEF TypeOK
    <3> HIDE DEF b
    <3> QED
      BY <1>0, <2>4, <3>4 DEF InsertLink, TypeOK, HasPacket, table, locals, Goto, Labels, Running
  <2>5. CASE InsertInc(c)
    BY <1>0, <2>5 DEF InsertInc, TypeOK, HasPacket, Return, Goto, Labels, Running
  <2> QED
    BY <1>0, <1>2, <2>1, <2>2, <2>3, <2>4, <2>5 DEF Insert
<1>3. ASSUME NEW c \in Cpus, Delete(c)
      PROVE  TypeOK' /\ HasPacket'
  <2>1. CASE DeleteUnlink(c)
    <3> DEFINE f == pkt[c].flow
               b == BucketOf[f]
    <3>1. pkt[c] \in Packets /\ f \in Flows /\ b \in Buckets /\ chain[b] \in Seq(Nodes)
      BY <1>0, <2>1 DEF DeleteUnlink, Running, HasPacket, TypeOK
    <3>2. CASE Matches(f) = {}
      BY <1>0, <2>1, <3>1, <3>2 DEF DeleteUnlink, TypeOK, HasPacket, Goto, Labels, Running
    <3>3. ASSUME NEW i \in Matches(f), chain' = [chain EXCEPT ![b] = DropAt(@, i)],
                 obj' = [obj EXCEPT ![c] = chain[b][i]],
                 lock' = c, Goto(c, "free")
          PROVE  TypeOK' /\ HasPacket'
      <4>1. i \in DOMAIN chain[b]
        BY DEF Matches
      <4>2. DropAt(chain[b], i) \in Seq(Nodes) /\ chain[b][i] \in Nodes
        BY <3>1, <4>1, DropAtProperties
      <4>3. chain' \in [Buckets -> Seq(Nodes)] /\ obj' \in [Cpus -> Nodes \union {NULL, Poison}]
        BY <1>0, <3>1, <3>3, <4>2 DEF TypeOK
      <4>4. /\ pkt' = pkt /\ nxt' = nxt /\ reg' = reg /\ heap' = heap
            /\ mod' = mod /\ numFlows' = numFlows /\ fault' = fault
        BY <1>0, <2>1 DEF DeleteUnlink
      <4> QED
        BY <1>0, <3>1, <3>3, <4>3, <4>4 DEF TypeOK, HasPacket, Goto, Labels
    <3> QED
      BY <1>0, <2>1, <3>2, <3>3 DEF DeleteUnlink
  <2>2. CASE DeleteFree(c)
    BY <1>0, <2>2 DEF DeleteFree, TypeOK, HasPacket, locals, Goto, Labels, Running
  <2>3. CASE DeleteDec(c)
    BY <1>0, <2>3 DEF DeleteDec, TypeOK, HasPacket, Return, Goto, Labels, Running
  <2> QED
    BY <1>0, <1>3, <2>1, <2>2, <2>3 DEF Delete
<1>4. ASSUME NEW c \in Cpus, Search(c)
      PROVE  TypeOK' /\ HasPacket'
  <2>1. CASE SearchStart(c)
    <3>1. pkt[c] \in Packets /\ First(BucketOf[pkt[c].flow]) \in Nodes \union {NULL}
      BY <1>0, <2>1, FirstType DEF SearchStart, Running, HasPacket
    <3>2. CASE Return(c)
      BY <1>0, <2>1, <3>2 DEF SearchStart, TypeOK, HasPacket, table, Return, Goto, Labels
    <3>3. CASE ~Return(c)
      <4>1. /\ obj' = [obj EXCEPT ![c] = First(BucketOf[pkt[c].flow])] /\ Goto(c, "next")
            /\ UNCHANGED <<pkt, nxt, reg, mod, table, fault>>
        BY <1>0, <2>1, <3>3 DEF SearchStart
      <4> QED
        BY <1>0, <3>1, <4>1 DEF TypeOK, HasPacket, table, Goto, Labels
    <3> QED
      BY <3>2, <3>3
  <2>2. CASE SearchNext(c)
    <3>1. CASE Dangling(obj[c])
      BY <1>0, <2>2, <3>1 DEF SearchNext, Fault, TypeOK, HasPacket, table, locals
    <3>2. CASE ~Dangling(obj[c])
      <4>1. NextOf(obj[c]) \in Nodes \union {NULL, Poison}
        BY <1>0, <3>2, NextOfType DEF Dangling
      <4>2. /\ nxt' = [nxt EXCEPT ![c] = NextOf(obj[c])] /\ Goto(c, "compare")
            /\ UNCHANGED <<mod, table, fault, view, pkt, obj, reg>>
        BY <1>0, <2>2, <3>2 DEF SearchNext
      <4>3. pkt[c] \in Packets
        BY <1>0, <2>2 DEF SearchNext, Running, HasPacket
      <4> QED
        BY <1>0, <4>1, <4>2, <4>3 DEF TypeOK, HasPacket, table, Goto, Labels
    <3> QED
      BY <3>1, <3>2
  <2>3. CASE SearchCompare(c)
    <3>1. CASE Fault
      BY <1>0, <3>1 DEF Fault, TypeOK, HasPacket, table, locals
    <3>2. CASE Goto(c, "load") /\ UNCHANGED <<mod, table, fault, view, locals>>
      BY <1>0, <2>3, <3>2 DEF SearchCompare, TypeOK, HasPacket, table, locals, Goto, Labels, Running
    <3>3. CASE Return(c) /\ UNCHANGED <<mod, table, fault>>
      BY <1>0, <3>3 DEF TypeOK, HasPacket, table, Return, Goto, Labels
    <3>4. CASE /\ obj' = [obj EXCEPT ![c] = nxt[c]] /\ Goto(c, "next")
               /\ UNCHANGED <<pkt, nxt, reg, mod, table, fault>>
      BY <1>0, <2>3, <3>4 DEF SearchCompare, TypeOK, HasPacket, table, Goto, Labels, Running
    <3>5. \/ Fault
          \/ Goto(c, "load") /\ UNCHANGED <<mod, table, fault, view, locals>>
          \/ Return(c) /\ UNCHANGED <<mod, table, fault>>
          \/ /\ obj' = [obj EXCEPT ![c] = nxt[c]] /\ Goto(c, "next")
             /\ UNCHANGED <<pkt, nxt, reg, mod, table, fault>>
      BY <1>0, <2>3 DEF SearchCompare
    <3> QED
      BY <3>1, <3>2, <3>3, <3>4, <3>5
  <2>4. CASE UpdateLoad(c)
    <3>1. CASE Dangling(obj[c])
      BY <1>0, <2>4, <3>1 DEF UpdateLoad, Fault, TypeOK, HasPacket, table, locals
    <3>2. CASE ~Dangling(obj[c])
      <4>1. pkt[c] \in Packets /\ heap[obj[c]].bytes \in 0 .. Wrap - 1
        BY <1>0, <2>4, <3>2 DEF UpdateLoad, Running, HasPacket, TypeOK, Dangling, Entries
      <4>2. /\ reg' = [reg EXCEPT ![c] = heap[obj[c]].bytes] /\ Goto(c, "store")
            /\ UNCHANGED <<mod, table, fault, view, pkt, obj, nxt>>
        BY <1>0, <2>4, <3>2 DEF UpdateLoad
      <4> QED
        BY <1>0, <4>1, <4>2 DEF TypeOK, HasPacket, table, Goto, Labels
    <3> QED
      BY <3>1, <3>2
  <2>5. CASE UpdateStore(c)
    <3>1. CASE Dangling(obj[c])
      BY <1>0, <2>5, <3>1 DEF UpdateStore, Fault, TypeOK, HasPacket, table, locals
    <3>2. CASE ~Dangling(obj[c])
      <4>1. \A x \in Nat, y \in Nat : (x + y) % Wrap \in 0 .. Wrap - 1
        OBVIOUS
      <4>2. /\ pkt[c] \in Packets /\ pkt[c].flow \in Flows /\ pkt[c].len \in Nat
            /\ reg[c] \in Nat /\ obj[c] \in Nodes /\ heap[obj[c]] \in Entries
        BY <1>0, <2>5, <3>2 DEF UpdateStore, Running, HasPacket, TypeOK, Dangling
      <4>3. heap' = [heap EXCEPT ![obj[c]] = [heap[obj[c]] EXCEPT !.bytes = (reg[c] + pkt[c].len) % Wrap]]
        BY <1>0, <2>5, <3>2 DEF UpdateStore
      <4>4. [heap[obj[c]] EXCEPT !.bytes = (reg[c] + pkt[c].len) % Wrap] \in Entries
        BY <1>0, <4>1, <4>2 DEF Entries
      <4>5. heap' \in [Nodes -> Entries \union {NULL}]
        BY <1>0, <4>2, <4>3, <4>4 DEF TypeOK
      <4>8. Return(c) /\ UNCHANGED <<mod, chain, numFlows, lock, fault>>
        BY <1>0, <2>5, <3>2 DEF UpdateStore
      <4> QED
        BY <1>0, <4>5, <4>8 DEF TypeOK, HasPacket, Return, Goto, Labels
    <3> QED
      BY <3>1, <3>2
  <2> QED
    BY <1>0, <1>4, <2>1, <2>2, <2>3, <2>4, <2>5 DEF Search
<1>5. CASE InitTable \/ FreeTable
  <2>1. [b \in Buckets |-> <<>>] \in [Buckets -> Seq(Nodes)]
    OBVIOUS
  <2>2. CASE InitTable
    BY <1>0, <2>1, <2>2 DEF InitTable, TypeOK, HasPacket, table, locals
  <2>3. CASE FreeTable
    BY <1>0, <2>1, <2>3 DEF FreeTable, TypeOK, HasPacket, table, locals
  <2> QED
    BY <1>5, <2>2, <2>3
<1>6. CASE RegisterOut \/ RegisterIn \/ StaleHook \/ UnregisterHooks
  BY <1>0, <1>6 DEF RegisterOut, RegisterIn, StaleHook, Fault, UnregisterHooks,
              TypeOK, HasPacket, table, locals
<1>7. CASE UNCHANGED vars
  BY <1>0, <1>7 DEF vars, table, locals, TypeOK, HasPacket
<1> QED
  BY <1>0, <1>1, <1>2, <1>3, <1>4, <1>5, <1>6, <1>7 DEF Next, Call

-----------------------------------------------------------------------------
(* The life of the module.                                                 *)

LEMMA QuietStep ==
    ASSUME TypeOK, Quiet, [Next]_vars
    PROVE  Quiet'
<1>1. ASSUME NEW c \in Cpus, Call(c) \/ \E p \in Packets : HookOut(c, p)
      PROVE  mod \in {"out", "loaded"} /\ (mod' = mod \/ Fault)
  <2>1. pc[c] # "idle" \/ mod \in {"out", "loaded"}
    BY <1>1 DEF Call, Insert, InsertCheck, InsertAlloc, InsertNoMemory, InsertLink, InsertInc,
                Delete, DeleteUnlink, DeleteFree, DeleteDec, Search, SearchStart, SearchNext,
                SearchCompare, UpdateLoad, UpdateStore, HookOut, Running
  <2>2. mod \notin {"unloaded", "table", "unhooked"} /\ mod # "gone"
    BY <1>1, <2>1 DEF Quiet, Call, Insert, InsertCheck, InsertAlloc, InsertNoMemory, InsertLink, InsertInc,
                Delete, DeleteUnlink, DeleteFree, DeleteDec, Search, SearchStart, SearchNext,
                SearchCompare, UpdateLoad, UpdateStore, HookOut, Running
  <2>3. mod' = mod \/ Fault
    BY <1>1 DEF Call, Insert, InsertCheck, InsertAlloc, InsertNoMemory, InsertLink, InsertInc,
                Delete, DeleteUnlink, DeleteFree, DeleteDec, Search, SearchStart, SearchNext,
                SearchCompare, UpdateLoad, UpdateStore, HookOut
  <2> QED
    BY <2>2, <2>3 DEF TypeOK
<1>2. ASSUME mod \in {"out", "loaded"}, mod' = mod
      PROVE  Quiet'
  BY <1>2 DEF Quiet
<1>3. CASE Fault \/ UNCHANGED vars
  BY <1>3 DEF Fault, vars, table, locals, Quiet
<1>4. CASE InitTable \/ RegisterOut \/ RegisterIn \/ StaleHook \/ UnregisterHooks \/ FreeTable
  BY <1>4 DEF InitTable, RegisterOut, RegisterIn, StaleHook, Fault, UnregisterHooks, FreeTable,
              Quiet, table, locals
<1> QED
  BY <1>1, <1>2, <1>3, <1>4 DEF Next

-----------------------------------------------------------------------------
(* Who owns an entry.                                                      *)

\* A step that leaves the lists, the calls that hold an entry and the
\* memory in use as they are leaves Ownership as it is.
LEMMA OwnershipFrame ==
    ASSUME Ownership, chain' = chain,
           \A c \in Cpus : Holding(c)' <=> Holding(c),
           \A c \in Cpus : Holding(c) => obj'[c] = obj[c],
           \A n \in Nodes : heap'[n] = NULL <=> heap[n] = NULL
    PROVE  Ownership'
<1>1. AllLinked' = AllLinked
  BY DEF AllLinked, Linked
<1>2. LinkedOnce'
  BY DEF Ownership, LinkedOnce
<1>3. HeldApart'
  BY <1>1 DEF Ownership, HeldApart
<1>4. InMemory'
  BY <1>1 DEF Ownership, InMemory
<1> QED
  BY <1>2, <1>3, <1>4 DEF Ownership

\* hlist_add_head of an entry that is in no list.
LEMMA LinkKeepsOnce ==
    ASSUME TypeOK, LinkedOnce, NEW b \in Buckets, NEW n \in Nodes, n \notin AllLinked,
           chain' = [chain EXCEPT ![b] = <<n>> \o @]
    PROVE  LinkedOnce' /\ AllLinked' = AllLinked \union {n}
<1>1. \A b1 \in Buckets : chain[b1] \in Seq(Nodes) /\ DOMAIN chain[b1] = 1 .. Len(chain[b1])
  BY DEF TypeOK
<1>2. /\ chain'[b] = <<n>> \o chain[b]
      /\ \A b1 \in Buckets \ {b} : chain'[b1] = chain[b1]
  BY DEF TypeOK
<1>3. /\ DOMAIN chain'[b] = 1 .. Len(chain[b]) + 1
      /\ chain'[b][1] = n
      /\ \A j \in 1 .. Len(chain[b]) : chain'[b][j + 1] = chain[b][j]
  BY <1>1, <1>2, ConsProperties
<1>4. \A b1 \in Buckets : \A i \in DOMAIN chain[b1] : chain[b1][i] # n
  BY LinkedMeaning
<1>5. \A i \in DOMAIN chain'[b] : i = 1 \/ (i - 1 \in DOMAIN chain[b] /\ chain'[b][i] = chain[b][i - 1])
  BY <1>1, <1>3
<1>6. LinkedOnce'
  <2> SUFFICES ASSUME NEW b1 \in Buckets, NEW b2 \in Buckets,
                      NEW i \in DOMAIN chain'[b1], NEW j \in DOMAIN chain'[b2],
                      chain'[b1][i] = chain'[b2][j]
               PROVE  b1 = b2 /\ i = j
    BY DEF LinkedOnce
  <2>1. CASE b1 # b /\ b2 # b
    BY <1>2, <2>1 DEF LinkedOnce
  <2>2. CASE b1 = b /\ b2 # b
    BY <1>2, <1>3, <1>4, <1>5, <2>2 DEF LinkedOnce
  <2>3. CASE b1 # b /\ b2 = b
    BY <1>2, <1>3, <1>4, <1>5, <2>3 DEF LinkedOnce
  <2>4. CASE b1 = b /\ b2 = b
    <3>1. i \in Int /\ j \in Int
      BY <1>3, <2>4
    <3>2. CASE i = 1 \/ j = 1
      BY <1>3, <1>4, <1>5, <2>4, <3>2
    <3>3. CASE i # 1 /\ j # 1
      <4>1. i - 1 = j - 1
        BY <1>5, <2>4, <3>3 DEF LinkedOnce
      <4> QED
        BY <2>4, <3>1, <4>1
    <3> QED
      BY <3>2, <3>3
  <2> QED
    BY <2>1, <2>2, <2>3, <2>4
<1>7. \A m : m \in AllLinked' <=> \E b1 \in Buckets : \E i \in DOMAIN chain'[b1] : chain'[b1][i] = m
  BY DEF AllLinked, Linked
<1>8. ASSUME NEW m \in AllLinked'
      PROVE  m \in AllLinked \union {n}
  <2>0. PICK b1 \in Buckets : \E i \in DOMAIN chain'[b1] : chain'[b1][i] = m
    BY <1>7
  <2>1. PICK i \in DOMAIN chain'[b1] : chain'[b1][i] = m
    BY <2>0
  <2> QED
    BY <1>2, <1>3, <1>5, <2>1, LinkedMeaning
<1>9. ASSUME NEW m \in AllLinked
      PROVE  m \in AllLinked'
  <2>0. PICK b1 \in Buckets : \E i \in DOMAIN chain[b1] : chain[b1][i] = m
    BY LinkedMeaning
  <2>1. PICK i \in DOMAIN chain[b1] : chain[b1][i] = m
    BY <2>0
  <2>2. CASE b1 = b
    <3>1. i \in 1 .. Len(chain[b]) /\ i + 1 \in DOMAIN chain'[b] /\ chain'[b][i + 1] = m
      BY <1>1, <1>3, <2>1, <2>2
    <3> QED
      BY <1>7, <3>1
  <2>3. CASE b1 # b
    BY <1>2, <1>7, <2>1, <2>3
  <2> QED
    BY <2>2, <2>3
<1>10. n \in AllLinked'
  <2>1. 1 \in DOMAIN chain'[b]
    BY <1>1, <1>3
  <2> QED
    BY <1>3, <1>7, <2>1
<1> QED
  BY <1>6, <1>8, <1>9, <1>10

\* hlist_del of the entry at place k of list b.
LEMMA UnlinkKeepsOnce ==
    ASSUME TypeOK, LinkedOnce, NEW b \in Buckets, NEW k \in DOMAIN chain[b],
           chain' = [chain EXCEPT ![b] = DropAt(@, k)]
    PROVE  LinkedOnce' /\ AllLinked' = AllLinked \ {chain[b][k]}
<1>1. \A b1 \in Buckets : chain[b1] \in Seq(Nodes) /\ DOMAIN chain[b1] = 1 .. Len(chain[b1])
  BY DEF TypeOK
<1>2. /\ chain'[b] = DropAt(chain[b], k)
      /\ \A b1 \in Buckets \ {b} : chain'[b1] = chain[b1]
  BY DEF TypeOK
<1>3. /\ DOMAIN chain'[b] = 1 .. Len(chain[b]) - 1
      /\ \A j \in 1 .. Len(chain[b]) - 1 : chain'[b][j] = IF j < k THEN chain[b][j] ELSE chain[b][j + 1]
  BY <1>1, <1>2, DropAtProperties
<1> DEFINE Was(i) == IF i < k THEN i ELSE i + 1
<1>4. \A i \in DOMAIN chain'[b] : /\ Was(i) \in DOMAIN chain[b] /\ Was(i) # k
                                 /\ chain'[b][i] = chain[b][Was(i)]
  <2>1. k \in 1 .. Len(chain[b]) /\ Len(chain[b]) \in Nat /\ DOMAIN chain[b] = 1 .. Len(chain[b])
    BY <1>1
  <2> TAKE i \in DOMAIN chain'[b]
  <2>2. i \in 1 .. Len(chain[b]) - 1
    BY <1>3
  <2>3. Was(i) \in DOMAIN chain[b] /\ Was(i) # k
    BY <2>1, <2>2
  <2> QED
    BY <1>3, <2>2, <2>3
<1>5. \A i, j \in DOMAIN chain'[b] : Was(i) = Was(j) => i = j
  BY <1>3
<1>6. \A i \in DOMAIN chain[b] \ {k} : \E j \in DOMAIN chain'[b] : Was(j) = i
  <2> TAKE i \in DOMAIN chain[b] \ {k}
  <2>0. i \in 1 .. Len(chain[b]) /\ k \in 1 .. Len(chain[b]) /\ Len(chain[b]) \in Nat
    BY <1>1
  <2>1. CASE i < k
    <3>1. i \in DOMAIN chain'[b] /\ Was(i) = i
      BY <1>3, <2>0, <2>1
    <3> QED
      BY <3>1
  <2>2. CASE i > k
    <3>1. i - 1 \in DOMAIN chain'[b] /\ Was(i - 1) = i
      BY <1>3, <2>0, <2>2
    <3> QED
      BY <3>1
  <2> QED
    BY <2>0, <2>1, <2>2
<1> HIDE DEF Was
<1>7. LinkedOnce'
  <2> SUFFICES ASSUME NEW b1 \in Buckets, NEW b2 \in Buckets,
                      NEW i \in DOMAIN chain'[b1], NEW j \in DOMAIN chain'[b2],
                      chain'[b1][i] = chain'[b2][j]
               PROVE  b1 = b2 /\ i = j
    BY DEF LinkedOnce
  <2>1. CASE b1 # b /\ b2 # b
    BY <1>2, <2>1 DEF LinkedOnce
  <2>2. CASE b1 = b /\ b2 # b
    BY <1>2, <1>4, <2>2 DEF LinkedOnce
  <2>3. CASE b1 # b /\ b2 = b
    BY <1>2, <1>4, <2>3 DEF LinkedOnce
  <2>4. CASE b1 = b /\ b2 = b
    <3>1. Was(i) = Was(j)
      BY <1>4, <2>4 DEF LinkedOnce
    <3> QED
      BY <1>5, <2>4, <3>1
  <2> QED
    BY <2>1, <2>2, <2>3, <2>4
<1>8. \A m : m \in AllLinked' <=> \E b1 \in Buckets : \E i \in DOMAIN chain'[b1] : chain'[b1][i] = m
  BY DEF AllLinked, Linked
<1>9. ASSUME NEW m \in AllLinked'
      PROVE  m \in AllLinked \ {chain[b][k]}
  <2>0. PICK b1 \in Buckets : \E i \in DOMAIN chain'[b1] : chain'[b1][i] = m
    BY <1>8
  <2>1. PICK i \in DOMAIN chain'[b1] : chain'[b1][i] = m
    BY <2>0
  <2>2. CASE b1 = b
    <3>1. Was(i) \in DOMAIN chain[b] /\ chain[b][Was(i)] = m /\ Was(i) # k
      BY <1>4, <2>1, <2>2
    <3>2. m # chain[b][k]
      BY <3>1 DEF LinkedOnce
    <3> QED
      BY <3>1, <3>2, LinkedMeaning
  <2>3. CASE b1 # b
    <3>1. i \in DOMAIN chain[b1] /\ chain[b1][i] = m
      BY <1>2, <2>1, <2>3
    <3>2. m # chain[b][k]
      BY <2>3, <3>1 DEF LinkedOnce
    <3> QED
      BY <3>1, <3>2, LinkedMeaning
  <2> QED
    BY <2>2, <2>3
<1>10. ASSUME NEW m \in AllLinked \ {chain[b][k]}
       PROVE  m \in AllLinked'
  <2>0. PICK b1 \in Buckets : \E i \in DOMAIN chain[b1] : chain[b1][i] = m
    BY LinkedMeaning
  <2>1. PICK i \in DOMAIN chain[b1] : chain[b1][i] = m
    BY <2>0
  <2>2. CASE b1 = b
    <3>1. i \in DOMAIN chain[b] \ {k}
      BY <2>1, <2>2
    <3>2. PICK j \in DOMAIN chain'[b] : Was(j) = i
      BY <1>6, <3>1
    <3>3. chain'[b][j] = m
      BY <1>4, <2>1, <2>2, <3>2
    <3> QED
      BY <1>8, <3>2, <3>3
  <2>3. CASE b1 # b
    BY <1>2, <1>8, <2>1, <2>3
  <2> QED
    BY <2>2, <2>3
<1> QED
  BY <1>7, <1>9, <1>10

LEMMA OwnershipStep ==
    ASSUME TypeOK, HasPacket, Quiet, Ownership, [Next]_vars
    PROVE  Ownership'
<1> USE FlowTableAssumption
<1>1. ASSUME NEW c \in Cpus, InsertAlloc(c)
      PROVE  Ownership'
  <2>1. PICK n \in Nodes :
            /\ heap[n] = NULL
            /\ heap' = [heap EXCEPT ![n] = [flow |-> pkt[c].flow, bytes |-> pkt[c].len]]
            /\ obj' = [obj EXCEPT ![c] = n]
    BY <1>1 DEF InsertAlloc
  <2>2. /\ ~Holding(c) /\ Holding(c)'
        /\ \A d \in Cpus \ {c} : Holding(d)' <=> Holding(d)
    BY <1>1 DEF InsertAlloc, Running, Goto, Holding, TypeOK
  <2>3. obj'[c] = n /\ \A d \in Cpus \ {c} : obj'[d] = obj[d]
    BY <2>1 DEF TypeOK
  <2>4. n \notin AllLinked /\ \A d \in Cpus : Holding(d) => obj[d] # n
    BY <2>1 DEF Ownership, InMemory
  <2>5. chain' = chain /\ AllLinked' = AllLinked
    BY <1>1 DEF InsertAlloc, AllLinked, Linked
  <2>6. heap'[n] # NULL /\ \A m \in Nodes \ {n} : heap'[m] = heap[m]
    <3>1. [flow |-> pkt[c].flow, bytes |-> pkt[c].len] \in [flow : Flows, bytes : 0 .. Wrap - 1]
      BY <1>1 DEF InsertAlloc, Running, HasPacket
    <3>2. [flow |-> pkt[c].flow, bytes |-> pkt[c].len] # NULL
      BY <3>1
    <3> QED
      BY <2>1, <3>2 DEF TypeOK
  <2>7. LinkedOnce'
    BY <2>5 DEF Ownership, LinkedOnce
  <2>8. HeldApart'
    BY <2>2, <2>3, <2>4, <2>5 DEF Ownership, HeldApart
  <2>9. InMemory'
    BY <2>2, <2>3, <2>4, <2>5, <2>6 DEF Ownership, InMemory
  <2> QED
    BY <2>7, <2>8, <2>9 DEF Ownership
<1>2. ASSUME NEW c \in Cpus, InsertLink(c)
      PROVE  Ownership'
  <2> DEFINE b == BucketOf[pkt[c].flow]
  <2>1. b \in Buckets /\ Holding(c) /\ obj[c] \in Nodes /\ obj[c] \notin AllLinked
    BY <1>2 DEF InsertLink, Running, HasPacket, Ownership, HeldApart, Holding
  <2>2. LinkedOnce' /\ AllLinked' = AllLinked \union {obj[c]}
    <3>1. chain' = [chain EXCEPT ![b] = <<obj[c]>> \o @]
      BY <1>2 DEF InsertLink
    <3> HIDE DEF b
    <3> QED
      BY <2>1, <3>1, LinkKeepsOnce DEF Ownership
  <2>3. /\ ~Holding(c)'
        /\ \A d \in Cpus \ {c} : Holding(d)' <=> Holding(d)
    BY <1>2 DEF InsertLink, Goto, Holding, TypeOK
  <2>4. obj' = obj /\ heap' = heap
    BY <1>2 DEF InsertLink, locals
  <2>5. HeldApart'
    BY <2>1, <2>2, <2>3, <2>4 DEF Ownership, HeldApart
  <2>6. InMemory'
    BY <2>1, <2>2, <2>3, <2>4 DEF Ownership, InMemory
  <2> QED
    BY <2>2, <2>5, <2>6 DEF Ownership
<1>3. ASSUME NEW c \in Cpus, DeleteUnlink(c)
      PROVE  Ownership'
  <2> DEFINE b == BucketOf[pkt[c].flow]
  <2>1. b \in Buckets /\ chain[b] \in Seq(Nodes) /\ ~Holding(c)
    BY <1>3 DEF DeleteUnlink, Running, HasPacket, TypeOK, Holding
  <2>2. CASE Goto(c, "search") /\ UNCHANGED <<chain, heap, obj>>
    <3>1. \A d \in Cpus : Holding(d)' <=> Holding(d)
      BY <2>1, <2>2 DEF Goto, Holding, TypeOK
    <3> QED
      BY <2>2, <3>1, OwnershipFrame
  <2>3. ASSUME NEW k \in DOMAIN chain[b], chain' = [chain EXCEPT ![b] = DropAt(@, k)],
               obj' = [obj EXCEPT ![c] = chain[b][k]], Goto(c, "free"), heap' = heap
        PROVE  Ownership'
    <3> DEFINE n == chain[b][k]
    <3>1. n \in Nodes /\ n \in AllLinked
      BY <2>1, LinkedMeaning
    <3>2. LinkedOnce' /\ AllLinked' = AllLinked \ {n}
      <4> HIDE DEF b
      <4> QED
        BY <2>1, <2>3, UnlinkKeepsOnce DEF Ownership
    <3>3. /\ Holding(c)' /\ obj'[c] = n
          /\ \A d \in Cpus \ {c} : (Holding(d)' <=> Holding(d)) /\ obj'[d] = obj[d]
      BY <2>3 DEF Goto, Holding, TypeOK
    <3> HIDE DEF n, b
    <3>4. HeldApart'
      BY <3>1, <3>2, <3>3 DEF Ownership, HeldApart
    <3>5. InMemory'
      BY <2>1, <2>3, <3>1, <3>2, <3>3 DEF Ownership, InMemory
    <3> QED
      BY <3>2, <3>4, <3>5 DEF Ownership
  <2>4. Matches(pkt[c].flow) \subseteq DOMAIN chain[b]
    BY DEF Matches
  <2>5. UNCHANGED heap
    BY <1>3 DEF DeleteUnlink
  <2> QED
    BY <1>3, <2>2, <2>3, <2>4, <2>5 DEF DeleteUnlink
<1>4. ASSUME NEW c \in Cpus, DeleteFree(c)
      PROVE  Ownership'
  <2>1. /\ Holding(c) /\ ~Holding(c)'
        /\ \A d \in Cpus \ {c} : Holding(d)' <=> Holding(d)
    BY <1>4 DEF DeleteFree, Running, Goto, Holding, TypeOK
  <2>2. chain' = chain /\ obj' = obj /\ AllLinked' = AllLinked
    BY <1>4 DEF DeleteFree, locals, AllLinked, Linked
  <2>3. /\ obj[c] \in Nodes /\ obj[c] \notin AllLinked
        /\ \A d \in Cpus \ {c} : Holding(d) => obj[d] # obj[c]
    BY <2>1 DEF Ownership, HeldApart
  <2>4. heap'[obj[c]] = NULL /\ \A m \in Nodes \ {obj[c]} : heap'[m] = heap[m]
    BY <1>4, <2>3 DEF DeleteFree, TypeOK
  <2>5. LinkedOnce'
    BY <2>2 DEF Ownership, LinkedOnce
  <2>6. HeldApart'
    BY <2>1, <2>2 DEF Ownership, HeldApart
  <2>7. InMemory'
    BY <2>1, <2>2, <2>3, <2>4 DEF Ownership, InMemory
  <2> QED
    BY <2>5, <2>6, <2>7 DEF Ownership
<1>5. ASSUME NEW c \in Cpus, Search(c)
      PROVE  Ownership'
  <2>1. chain' = chain
    BY <1>5 DEF Search, SearchStart, SearchNext, SearchCompare, UpdateLoad, UpdateStore, Fault, table
  <2>2. \A d \in Cpus : Holding(d)' <=> Holding(d)
    BY <1>5 DEF Search, SearchStart, SearchNext, SearchCompare, UpdateLoad, UpdateStore,
                Fault, Return, Goto, Running, Holding, TypeOK
  <2>3. \A d \in Cpus : Holding(d) => obj'[d] = obj[d]
    BY <1>5 DEF Search, SearchStart, SearchNext, SearchCompare, UpdateLoad, UpdateStore,
                Fault, Return, Running, Holding, TypeOK, locals
  <2>4. \A n \in Nodes : heap'[n] = NULL <=> heap[n] = NULL
    <3>1. CASE UpdateStore(c) /\ ~Dangling(obj[c])
      <4>1. /\ obj[c] \in Nodes /\ heap[obj[c]] \in Entries /\ heap[obj[c]] # NULL
            /\ pkt[c].len \in Nat /\ reg[c] \in Nat
        BY <3>1 DEF UpdateStore, Running, HasPacket, TypeOK, Dangling
      <4>2. (reg[c] + pkt[c].len) % Wrap \in 0 .. Wrap - 1
        BY <4>1
      <4>3. heap' = [heap EXCEPT ![obj[c]] = [heap[obj[c]] EXCEPT !.bytes = (reg[c] + pkt[c].len) % Wrap]]
        BY <3>1 DEF UpdateStore
      <4>4. [heap[obj[c]] EXCEPT !.bytes = (reg[c] + pkt[c].len) % Wrap] \in Entries
        BY <4>1, <4>2 DEF Entries
      <4>5. NULL \notin Entries
        BY DEF Entries
      <4> QED
        BY <4>1, <4>3, <4>4, <4>5 DEF TypeOK
    <3>2. CASE heap' = heap
      BY <3>2
    <3> QED
      BY <1>5, <3>1, <3>2 DEF Search, SearchStart, SearchNext, SearchCompare, UpdateLoad,
                              UpdateStore, Fault, table
  <2> QED
    BY <2>1, <2>2, <2>3, <2>4, OwnershipFrame
<1>6. ASSUME NEW c \in Cpus,
             \/ InsertCheck(c) \/ InsertNoMemory(c) \/ InsertInc(c) \/ DeleteDec(c)
             \/ \E p \in Packets : HookOut(c, p)
      PROVE  Ownership'
  <2>1. chain' = chain /\ heap' = heap
    BY <1>6 DEF InsertCheck, InsertNoMemory, InsertInc, DeleteDec, HookOut, table
  <2>2. \A d \in Cpus : Holding(d)' <=> Holding(d)
    BY <1>6 DEF InsertCheck, InsertNoMemory, InsertInc, DeleteDec, HookOut, Return, Goto,
                Running, AfterInsert, AfterDispatch, Holding, TypeOK
  <2>3. \A d \in Cpus : Holding(d) => obj'[d] = obj[d]
    BY <1>6 DEF InsertCheck, InsertNoMemory, InsertInc, DeleteDec, HookOut, Return,
                Running, Holding, TypeOK, locals
  <2> QED
    BY <2>1, <2>2, <2>3, OwnershipFrame
<1>7. CASE InitTable
  <2>1. chain' = chain
    BY <1>7 DEF InitTable, Quiet, TypeOK
  <2> QED
    BY <1>7, <2>1, OwnershipFrame DEF InitTable, locals, Holding
<1>8. CASE FreeTable
  <2>1. \A c \in Cpus : ~Holding(c) /\ ~Holding(c)'
    BY <1>8 DEF FreeTable, Quiet, Holding
  <2>2. \A b \in Buckets : chain'[b] = <<>>
    BY <1>8 DEF FreeTable
  <2>3. AllLinked' = {}
    BY <2>2 DEF AllLinked, Linked
  <2>4. \A n \in Nodes : heap'[n] = NULL
    BY <1>8, <2>1 DEF FreeTable, Ownership, InMemory
  <2> QED
    BY <2>1, <2>2, <2>3, <2>4 DEF Ownership, LinkedOnce, HeldApart, InMemory
<1>9. CASE RegisterOut \/ RegisterIn \/ StaleHook \/ UnregisterHooks \/ UNCHANGED vars
  <2>1. UNCHANGED <<chain, heap, pc, obj>>
    BY <1>9 DEF RegisterOut, RegisterIn, StaleHook, Fault, UnregisterHooks, vars, table, locals
  <2> QED
    BY <2>1, OwnershipFrame DEF Holding
<1> QED
  BY <1>1, <1>2, <1>3, <1>4, <1>5, <1>6, <1>7, <1>8, <1>9 DEF Next, Call, Insert, Delete

-----------------------------------------------------------------------------
(* The counter.                                                            *)

LEMMA CountFrame ==
    ASSUME NumFlowsAccounted,
           mod' \in {"out", "loaded", "unhooked"} => mod \in {"out", "loaded", "unhooked"},
           numFlows' = numFlows, AllLinked' = AllLinked,
           Uncounted' = Uncounted, Undiscounted' = Undiscounted
    PROVE  NumFlowsAccounted'
BY DEF NumFlowsAccounted, Uncounted, Undiscounted

\* The sets that the counter is compared with are finite.
LEMMA CountFinite ==
    ASSUME TypeOK
    PROVE  /\ IsFiniteSet(AllLinked) /\ Cardinality(AllLinked) \in Nat
           /\ IsFiniteSet(Uncounted) /\ Cardinality(Uncounted) \in Nat
           /\ IsFiniteSet(Undiscounted) /\ Cardinality(Undiscounted) \in Nat
<1>1. AllLinked \subseteq Nodes
  BY LinkedMeaning DEF TypeOK
<1>2. Uncounted \subseteq Cpus /\ Undiscounted \subseteq Cpus
  BY DEF Uncounted, Undiscounted
<1>3. IsFiniteSet(AllLinked) /\ IsFiniteSet(Uncounted) /\ IsFiniteSet(Undiscounted)
  BY <1>1, <1>2, FlowTableAssumption, FS_Subset
<1> QED
  BY <1>3, FS_CardinalityType

LEMMA CountStep ==
    ASSUME TypeOK, HasPacket, Quiet, Ownership, NumFlowsAccounted, [Next]_vars
    PROVE  NumFlowsAccounted'
<1>a. NumFlowsAccounted <=>
          (mod \in {"out", "loaded", "unhooked"} =>
              numFlows = Cardinality(AllLinked) + Cardinality(Undiscounted) - Cardinality(Uncounted))
  BY DEF NumFlowsAccounted, Uncounted, Undiscounted
<1>b. NumFlowsAccounted' <=>
          (mod' \in {"out", "loaded", "unhooked"} =>
              numFlows' = Cardinality(AllLinked') + Cardinality(Undiscounted') - Cardinality(Uncounted'))
  BY DEF NumFlowsAccounted, Uncounted, Undiscounted
<1>1. ASSUME NEW c \in Cpus, InsertLink(c)
      PROVE  NumFlowsAccounted'
  <2> DEFINE b == BucketOf[pkt[c].flow]
  <2>1. b \in Buckets /\ obj[c] \in Nodes /\ obj[c] \notin AllLinked
    BY <1>1, FlowTableAssumption
       DEF InsertLink, Running, HasPacket, Ownership, HeldApart, Holding
  <2>2. AllLinked' = AllLinked \union {obj[c]}
    <3>1. chain' = [chain EXCEPT ![b] = <<obj[c]>> \o @]
      BY <1>1 DEF InsertLink
    <3> HIDE DEF b
    <3> QED
      BY <2>1, <3>1, LinkKeepsOnce DEF Ownership
  <2>3. c \notin Uncounted /\ Uncounted' = Uncounted \union {c} /\ Undiscounted' = Undiscounted
    BY <1>1 DEF InsertLink, Running, Goto, Uncounted, Undiscounted, TypeOK
  <2>4. Cardinality(AllLinked') = Cardinality(AllLinked) + 1
    BY <2>1, <2>2, CountFinite, FS_AddElement
  <2>5. Cardinality(Uncounted') = Cardinality(Uncounted) + 1
    BY <2>3, CountFinite, FS_AddElement
  <2>6. mod' = mod /\ numFlows' = numFlows
    BY <1>1 DEF InsertLink
  <2> QED
    BY <2>3, <2>4, <2>5, <2>6, <1>a, <1>b, CountFinite DEF TypeOK
<1>2. ASSUME NEW c \in Cpus, InsertInc(c)
      PROVE  NumFlowsAccounted'
  <2>1. c \in Uncounted /\ Uncounted' = Uncounted \ {c} /\ Undiscounted' = Undiscounted
    BY <1>2 DEF InsertInc, Running, Return, Goto, Uncounted, Undiscounted, TypeOK
  <2>2. Cardinality(Uncounted') = Cardinality(Uncounted) - 1
    BY <2>1, CountFinite, FS_RemoveElement
  <2>3. mod' = mod /\ numFlows' = numFlows + 1 /\ AllLinked' = AllLinked
    BY <1>2 DEF InsertInc, AllLinked, Linked
  <2> QED
    BY <2>1, <2>2, <2>3, <1>a, <1>b, CountFinite DEF TypeOK
<1>3. ASSUME NEW c \in Cpus, DeleteUnlink(c)
      PROVE  NumFlowsAccounted'
  <2> DEFINE b == BucketOf[pkt[c].flow]
  <2>1. b \in Buckets /\ chain[b] \in Seq(Nodes) /\ pc[c] = "unlink"
    BY <1>3, FlowTableAssumption DEF DeleteUnlink, Running, HasPacket, TypeOK
  <2>2. mod' = mod /\ numFlows' = numFlows
    BY <1>3 DEF DeleteUnlink
  <2>3. CASE Goto(c, "search") /\ UNCHANGED chain
    <3>1. Uncounted' = Uncounted /\ Undiscounted' = Undiscounted
      BY <2>1, <2>3 DEF Goto, Uncounted, Undiscounted, TypeOK
    <3>2. AllLinked' = AllLinked
      BY <2>3 DEF AllLinked, Linked
    <3> QED
      BY <2>2, <3>1, <3>2, CountFrame
  <2>4. ASSUME NEW k \in DOMAIN chain[b], chain' = [chain EXCEPT ![b] = DropAt(@, k)],
               Goto(c, "free")
        PROVE  NumFlowsAccounted'
    <3> DEFINE n == chain[b][k]
    <3>1. n \in AllLinked
      BY <2>1, LinkedMeaning
    <3>2. AllLinked' = AllLinked \ {n}
      <4> HIDE DEF b
      <4> QED
        BY <2>1, <2>4, UnlinkKeepsOnce DEF Ownership
    <3> HIDE DEF n, b
    <3>3. c \notin Undiscounted /\ Undiscounted' = Undiscounted \union {c} /\ Uncounted' = Uncounted
      BY <2>1, <2>4 DEF Goto, Uncounted, Undiscounted, TypeOK
    <3>4. Cardinality(AllLinked') = Cardinality(AllLinked) - 1
      BY <3>1, <3>2, CountFinite, FS_RemoveElement
    <3>5. Cardinality(Undiscounted') = Cardinality(Undiscounted) + 1
      BY <3>3, CountFinite, FS_AddElement
    <3> QED
      BY <2>2, <3>3, <3>4, <3>5, <1>a, <1>b, CountFinite DEF TypeOK
  <2>5. Matches(pkt[c].flow) \subseteq DOMAIN chain[b]
    BY DEF Matches
  <2> QED
    BY <1>3, <2>3, <2>4, <2>5 DEF DeleteUnlink
<1>4. ASSUME NEW c \in Cpus, DeleteDec(c)
      PROVE  NumFlowsAccounted'
  <2>1. c \in Undiscounted /\ Undiscounted' = Undiscounted \ {c} /\ Uncounted' = Uncounted
    BY <1>4 DEF DeleteDec, Running, Return, Goto, Uncounted, Undiscounted, TypeOK
  <2>2. Cardinality(Undiscounted') = Cardinality(Undiscounted) - 1
    BY <2>1, CountFinite, FS_RemoveElement
  <2>3. mod' = mod /\ numFlows' = numFlows - 1 /\ AllLinked' = AllLinked
    BY <1>4 DEF DeleteDec, AllLinked, Linked
  <2> QED
    BY <2>1, <2>2, <2>3, <1>a, <1>b, CountFinite DEF TypeOK
<1>5. ASSUME NEW c \in Cpus,
             \/ InsertCheck(c) \/ InsertAlloc(c) \/ InsertNoMemory(c) \/ DeleteFree(c)
             \/ Search(c) \/ \E p \in Packets : HookOut(c, p)
      PROVE  NumFlowsAccounted'
  <2>1. mod' = mod /\ numFlows' = numFlows /\ chain' = chain
    BY <1>5 DEF InsertCheck, InsertAlloc, InsertNoMemory, DeleteFree, HookOut, Search, SearchStart,
                SearchNext, SearchCompare, UpdateLoad, UpdateStore, Fault, table
  <2>2. Uncounted' = Uncounted /\ Undiscounted' = Undiscounted
    <3>1. CASE Search(c)
      BY <3>1 DEF Search, SearchStart, SearchNext, SearchCompare, UpdateLoad, UpdateStore,
                  Fault, Return, Goto, Running, Uncounted, Undiscounted, TypeOK
    <3>2. CASE ~Search(c)
      BY <1>5, <3>2 DEF InsertCheck, InsertAlloc, InsertNoMemory, DeleteFree, HookOut, Goto,
                  Running, AfterInsert, AfterDispatch, Uncounted, Undiscounted, TypeOK
    <3> QED
      BY <3>1, <3>2
  <2>3. AllLinked' = AllLinked
    BY <2>1 DEF AllLinked, Linked
  <2> QED
    BY <2>1, <2>2, <2>3, CountFrame
<1>6. CASE RegisterOut
  <2>1. CASE mod' = "out"
    <3>1. AllLinked' = {} /\ Uncounted' = {} /\ Undiscounted' = {} /\ numFlows' = 0
      BY <1>6 DEF RegisterOut, table, Quiet, AllLinked, Linked, Uncounted, Undiscounted
    <3>2. Cardinality({}) = 0
      BY FS_EmptySet
    <3>3. numFlows' = Cardinality(AllLinked') + Cardinality(Undiscounted') - Cardinality(Uncounted')
      BY <3>1, <3>2
    <3> QED
      BY <3>3, <1>b
  <2>2. CASE mod' # "out"
    BY <1>6, <2>2 DEF RegisterOut, NumFlowsAccounted
  <2> QED
    BY <2>1, <2>2
<1>7. CASE InitTable \/ FreeTable
  BY <1>7 DEF InitTable, FreeTable, NumFlowsAccounted
<1>8. CASE RegisterIn \/ StaleHook \/ UnregisterHooks \/ UNCHANGED vars
  <2>1. UNCHANGED <<chain, pc, numFlows>>
    BY <1>8 DEF RegisterIn, StaleHook, Fault, UnregisterHooks, vars, table
  <2>2. mod' \in {"out", "loaded", "unhooked"} => mod \in {"out", "loaded", "unhooked"}
    BY <1>8 DEF RegisterIn, StaleHook, Fault, UnregisterHooks, vars
  <2> QED
    BY <2>1, <2>2, CountFrame DEF AllLinked, Linked, Uncounted, Undiscounted
<1> QED
  BY <1>1, <1>2, <1>3, <1>4, <1>5, <1>6, <1>7, <1>8 DEF Next, Call, Insert, Delete

-----------------------------------------------------------------------------
(* The invariant and what follows from it.                                 *)

LEMMA InitIInv == Init => IInv
<1> SUFFICES ASSUME Init PROVE IInv
  OBVIOUS
<1> USE FlowTableAssumption
<1>1. [b \in Buckets |-> <<>>] \in [Buckets -> Seq(Nodes)]
  OBVIOUS
<1>2. 0 \in 0 .. Wrap - 1
  OBVIOUS
<1>3. TypeOK
  <2>1. chain \in [Buckets -> Seq(Nodes)]
    BY <1>1 DEF Init
  <2>2. view \in [Cpus -> Views] /\ reg \in [Cpus -> 0 .. Wrap - 1]
    BY <1>2 DEF Init, Views
  <2>3. numFlows \in Int
    BY DEF Init
  <2>4. fault \in BOOLEAN
    BY DEF Init
  <2>5. heap \in [Nodes -> Entries \union {NULL}]
    BY DEF Init
  <2>6. pc \in [Cpus -> Labels]
    BY DEF Init, Labels
  <2>7. /\ mod \in {"unloaded", "table", "out", "loaded", "unhooked", "gone"}
        /\ lock \in Cpus \union {NoCpu}
        /\ pkt \in [Cpus -> Packets \union {NULL}]
        /\ obj \in [Cpus -> Nodes \union {NULL, Poison}]
        /\ nxt \in [Cpus -> Nodes \union {NULL, Poison}]
    BY DEF Init
  <2> QED
    BY <2>1, <2>2, <2>3, <2>4, <2>5, <2>6, <2>7 DEF TypeOK
<1>4. HasPacket /\ Quiet
  BY DEF Init, HasPacket, Quiet
<1>5. AllLinked = {}
  BY DEF Init, AllLinked, Linked
<1>6. Ownership
  BY <1>5 DEF Init, Ownership, LinkedOnce, HeldApart, InMemory, Holding
<1>7. NumFlowsAccounted
  BY DEF Init, NumFlowsAccounted
<1> QED
  BY <1>3, <1>4, <1>6, <1>7 DEF IInv

LEMMA IInvStep == IInv /\ [Next]_vars => IInv'
<1> SUFFICES ASSUME IInv, [Next]_vars PROVE IInv'
  OBVIOUS
<1>1. TypeOK' /\ HasPacket'
  BY TypeStep DEF IInv, Ownership
<1>2. Quiet' /\ Ownership' /\ NumFlowsAccounted'
  BY QuietStep, OwnershipStep, CountStep DEF IInv
<1> QED
  BY <1>1, <1>2 DEF IInv

LEMMA Invariance == Spec => []IInv
BY InitIInv, IInvStep, PTL DEF Spec

\* The flow tracker keeps every variable within its type: no pointer but to
\* an entry, NULL or the list poison, no counter of bytes beyond its width.
THEOREM TypeCorrect == Spec => []TypeOK
<1>1. IInv => TypeOK
  BY DEF IInv
<1> QED
  BY <1>1, Invariance, PTL

\* Whatever the interleaving of insert_table and delete_table, no entry is in
\* two places of the lists and no two calls own the same one.
THEOREM EntriesOwnedOnce == Spec => []SingleOwner
<1>1. IInv => SingleOwner
  BY DEF IInv, Ownership, LinkedOnce, HeldApart, Holding, SingleOwner
<1> QED
  BY <1>1, Invariance, PTL

\* kmalloc and kfree are paired: the memory in use is that of the entries in
\* the lists and of those a call is about to link or to free.
THEOREM NoEntryLeaks == Spec => []HeapAccounted
<1>1. IInv => HeapAccounted
  <2> SUFFICES ASSUME IInv PROVE HeapAccounted
    OBVIOUS
  <2>1. AllLinked \subseteq Nodes
    BY LinkedMeaning DEF IInv, TypeOK
  <2>2. \A c \in Cpus : Holding(c) => obj[c] \in Nodes
    BY DEF IInv, Ownership, HeldApart
  <2> QED
    BY <2>1, <2>2 DEF IInv, Ownership, InMemory, HeapAccounted, Holding
<1> QED
  BY <1>1, Invariance, PTL

\* num_flows differs from the number of linked entries by exactly the calls
\* that are between their critical section and their atomic_inc or atomic_dec.
THEOREM FlowsCounted == Spec => []NumFlowsAccounted
<1>1. IInv => NumFlowsAccounted
  BY DEF IInv
<1> QED
  BY <1>1, Invariance, PTL

-----------------------------------------------------------------------------
(* What a list holds.                                                     *)

\* A linked entry is a node whose memory is in use.
LEMMA LinkedInUse ==
    ASSUME IInv, NEW b \in Buckets, NEW n \in Linked(b)
    PROVE  n \in Nodes /\ heap[n] \in Entries /\ ~Dangling(n)
<1>1. chain[b] \in Seq(Nodes)
  BY DEF IInv, TypeOK
<1>2. n \in Nodes /\ n \in AllLinked
  BY <1>1 DEF Linked, AllLinked
<1>3. heap[n] # NULL
  BY <1>2 DEF IInv, Ownership, InMemory
<1> QED
  BY <1>2, <1>3 DEF IInv, TypeOK, Dangling

\* Two lists share no entry.
LEMMA ListsApart ==
    ASSUME IInv, NEW b1 \in Buckets, NEW b2 \in Buckets, b1 # b2, NEW n \in Linked(b1)
    PROVE  n \notin Linked(b2)
BY DEF IInv, Ownership, LinkedOnce, Linked

\* hlist_add_head adds to its list, and to no other.
LEMMA LinkAdds ==
    ASSUME IInv, NEW b \in Buckets, NEW n \in Nodes,
           chain' = [chain EXCEPT ![b] = <<n>> \o @]
    PROVE  /\ \A b1 \in Buckets \ {b} : Linked(b1)' = Linked(b1)
           /\ Linked(b)' = Linked(b) \union {n}
<1>1. chain[b] \in Seq(Nodes) /\ DOMAIN chain[b] = 1 .. Len(chain[b]) /\ Len(chain[b]) \in Nat
  BY DEF IInv, TypeOK
<1>2. /\ chain'[b] = <<n>> \o chain[b]
      /\ \A b1 \in Buckets \ {b} : chain'[b1] = chain[b1]
  BY DEF IInv, TypeOK
<1>3. /\ DOMAIN chain'[b] = 1 .. Len(chain[b]) + 1
      /\ chain'[b][1] = n
      /\ \A j \in 1 .. Len(chain[b]) : chain'[b][j + 1] = chain[b][j]
  BY <1>1, <1>2, ConsProperties
<1>4. \A m \in Linked(b)' : m \in Linked(b) \union {n}
  <2> TAKE m \in Linked(b)'
  <2>1. PICK i \in DOMAIN chain'[b] : chain'[b][i] = m
    BY DEF Linked
  <2>2. i = 1 \/ (i - 1 \in DOMAIN chain[b] /\ chain'[b][i] = chain[b][i - 1])
    BY <1>1, <1>3
  <2> QED
    BY <1>3, <2>1, <2>2 DEF Linked
<1>5. \A m \in Linked(b) : m \in Linked(b)'
  <2> TAKE m \in Linked(b)
  <2>1. PICK i \in DOMAIN chain[b] : chain[b][i] = m
    BY DEF Linked
  <2>2. i + 1 \in DOMAIN chain'[b] /\ chain'[b][i + 1] = m
    BY <1>1, <1>3, <2>1
  <2> QED
    BY <2>2 DEF Linked
<1>6. n \in Linked(b)'
  <2>1. 1 \in DOMAIN chain'[b]
    BY <1>1, <1>3
  <2> QED
    BY <1>3, <2>1 DEF Linked
<1>7. \A b1 \in Buckets \ {b} : Linked(b1)' = Linked(b1)
  BY <1>2 DEF Linked
<1>8. Linked(b)' = Linked(b) \union {n}
  BY <1>4, <1>5, <1>6
<1> QED
  BY <1>7, <1>8

\* hlist_del takes its entry out of its list, and touches no other.
LEMMA UnlinkRemoves ==
    ASSUME IInv, NEW b \in Buckets, NEW k \in DOMAIN chain[b],
           chain' = [chain EXCEPT ![b] = DropAt(@, k)]
    PROVE  /\ \A b1 \in Buckets \ {b} : Linked(b1)' = Linked(b1)
           /\ Linked(b)' = Linked(b) \ {chain[b][k]}
<1>1. chain[b] \in Seq(Nodes) /\ DOMAIN chain[b] = 1 .. Len(chain[b]) /\ Len(chain[b]) \in Nat
  BY DEF IInv, TypeOK
<1>2. /\ chain'[b] = DropAt(chain[b], k)
      /\ \A b1 \in Buckets \ {b} : chain'[b1] = chain[b1]
  BY DEF IInv, TypeOK
<1>3. /\ DOMAIN chain'[b] = 1 .. Len(chain[b]) - 1
      /\ \A j \in 1 .. Len(chain[b]) - 1 : chain'[b][j] = IF j < k THEN chain[b][j] ELSE chain[b][j + 1]
  BY <1>1, <1>2, DropAtProperties
<1>4. \A m \in Linked(b)' : m \in Linked(b) \ {chain[b][k]}
  <2> TAKE m \in Linked(b)'
  <2>1. PICK j \in DOMAIN chain'[b] : chain'[b][j] = m
    BY DEF Linked
  <2>2. ASSUME NEW i \in DOMAIN chain[b], i # k, chain[b][i] = m
        PROVE  m \in Linked(b) \ {chain[b][k]}
    <3>1. chain[b][i] # chain[b][k]
      BY <2>2 DEF IInv, Ownership, LinkedOnce
    <3> QED
      BY <2>2, <3>1 DEF Linked
  <2>3. CASE j < k
    <3>1. j \in DOMAIN chain[b] /\ j # k /\ chain[b][j] = m
      BY <1>1, <1>3, <2>1, <2>3
    <3> QED
      BY <2>2, <3>1
  <2>4. CASE ~(j < k)
    <3>1. j + 1 \in DOMAIN chain[b] /\ j + 1 # k /\ chain[b][j + 1] = m
      BY <1>1, <1>3, <2>1, <2>4
    <3> QED
      BY <2>2, <3>1
  <2> QED
    BY <2>3, <2>4
<1>5. \A m \in Linked(b) \ {chain[b][k]} : m \in Linked(b)'
  <2> TAKE m \in Linked(b) \ {chain[b][k]}
  <2>1. PICK i \in DOMAIN chain[b] : chain[b][i] = m /\ i # k
    BY DEF Linked
  <2>2. CASE i < k
    <3>1. i \in DOMAIN chain'[b] /\ chain'[b][i] = m
      BY <1>1, <1>3, <2>1, <2>2
    <3> QED
      BY <3>1 DEF Linked
  <2>3. CASE ~(i < k)
    <3>1. i - 1 \in DOMAIN chain'[b] /\ chain'[b][i - 1] = m
      BY <1>1, <1>3, <2>1, <2>3
    <3> QED
      BY <3>1 DEF Linked
  <2> QED
    BY <2>2, <2>3
<1>6. \A b1 \in Buckets \ {b} : Linked(b1)' = Linked(b1)
  BY <1>2 DEF Linked
<1>7. Linked(b)' = Linked(b) \ {chain[b][k]}
  BY <1>4, <1>5
<1> QED
  BY <1>6, <1>7

\* The list of an entry does not end where the search does not find it: the
\* head, and what follows an entry, are entries of the same list or NULL.
LEMMA FirstInList ==
    ASSUME IInv, NEW b \in Buckets
    PROVE  First(b) \in Linked(b) \union {NULL}
<1>1. chain[b] \in Seq(Nodes)
  BY DEF IInv, TypeOK
<1>2. chain[b] # <<>> => 1 \in DOMAIN chain[b]
  BY <1>1
<1> QED
  BY <1>2 DEF First, Linked

-----------------------------------------------------------------------------
(* The list of an entry.                                                   *)

\* An entry is linked in the list of its flow, and the one that insert_table
\* is about to link has the flow of the packet that selects the list.
AtHome ==
    /\ \A b \in Buckets : \A n \in Linked(b) : BucketOf[heap[n].flow] = b
    /\ \A c \in Cpus : pc[c] = "link" => heap[obj[c]].flow = pkt[c].flow

HInv == IInv /\ AtHome

\* A step that adds no entry and changes the flow of none.
LEMMA AtHomeFrame ==
    ASSUME AtHome,
           \A b \in Buckets : Linked(b)' \subseteq Linked(b),
           \A n \in AllLinked : heap'[n].flow = heap[n].flow,
           \A c \in Cpus : pc'[c] = "link" =>
               /\ pc[c] = "link" /\ obj'[c] = obj[c] /\ pkt'[c] = pkt[c]
               /\ heap'[obj[c]].flow = heap[obj[c]].flow
    PROVE  AtHome'
<1>1. ASSUME NEW b \in Buckets, NEW n \in Linked(b)'
      PROVE  BucketOf[heap'[n].flow] = b
  <2>1. n \in Linked(b) /\ n \in AllLinked
    BY <1>1 DEF AllLinked
  <2> QED
    BY <2>1 DEF AtHome
<1>2. ASSUME NEW c \in Cpus, pc'[c] = "link" PROVE heap'[obj'[c]].flow = pkt'[c].flow
  BY <1>2 DEF AtHome
<1> QED
  BY <1>1, <1>2 DEF AtHome

LEMMA AtHomeStep ==
    ASSUME HInv, [Next]_vars
    PROVE  AtHome'
<1>0. IInv /\ AtHome /\ TypeOK /\ HasPacket /\ Quiet /\ Ownership
  BY DEF HInv, IInv
<1> USE FlowTableAssumption
<1>1. ASSUME NEW c \in Cpus, InsertAlloc(c)
      PROVE  AtHome'
  <2>1. PICK n \in Nodes :
            /\ heap[n] = NULL
            /\ heap' = [heap EXCEPT ![n] = [flow |-> pkt[c].flow, bytes |-> pkt[c].len]]
            /\ obj' = [obj EXCEPT ![c] = n]
    BY <1>1 DEF InsertAlloc
  <2>2. /\ chain' = chain /\ pkt' = pkt /\ obj'[c] = n
        /\ \A d \in Cpus \ {c} : pc'[d] = pc[d] /\ obj'[d] = obj[d]
    BY <1>0, <1>1, <2>1 DEF InsertAlloc, Goto, TypeOK
  <2>3. heap'[n].flow = pkt[c].flow /\ \A m \in Nodes \ {n} : heap'[m] = heap[m]
    BY <1>0, <2>1 DEF TypeOK
  <2>4. ASSUME NEW b \in Buckets, NEW m \in Linked(b)' PROVE BucketOf[heap'[m].flow] = b
    <3>1. m \in Linked(b)
      BY <2>2 DEF Linked
    <3>2. m \in Nodes /\ m # n
      BY <1>0, <2>1, <3>1, LinkedInUse DEF Dangling
    <3> QED
      BY <1>0, <2>3, <3>1, <3>2 DEF AtHome
  <2>5. ASSUME NEW d \in Cpus, pc'[d] = "link" PROVE heap'[obj'[d]].flow = pkt'[d].flow
    <3>1. CASE d = c
      BY <2>2, <2>3, <3>1
    <3>2. CASE d # c
      <4>1. obj[d] \in Nodes /\ heap[obj[d]] # NULL /\ pc[d] = "link"
        BY <1>0, <2>2, <2>5, <3>2 DEF Ownership, HeldApart, InMemory, Holding
      <4> QED
        BY <1>0, <2>1, <2>2, <2>3, <3>2, <4>1 DEF AtHome
    <3> QED
      BY <3>1, <3>2
  <2> QED
    BY <2>4, <2>5 DEF AtHome
<1>2. ASSUME NEW c \in Cpus, InsertLink(c)
      PROVE  AtHome'
  <2>0. PICK b \in Buckets : b = BucketOf[pkt[c].flow]
    BY <1>0, <1>2 DEF InsertLink, Running, HasPacket
  <2>1. obj[c] \in Nodes /\ pc[c] = "link"
    BY <1>0, <1>2 DEF InsertLink, Running, Ownership, HeldApart, Holding
  <2>2. /\ chain' = [chain EXCEPT ![b] = <<obj[c]>> \o @]
        /\ heap' = heap /\ obj' = obj /\ pkt' = pkt
        /\ \A d \in Cpus : pc'[d] = "link" => pc[d] = "link"
    BY <1>0, <1>2, <2>0 DEF InsertLink, Goto, locals, TypeOK
  <2>3. BucketOf[heap[obj[c]].flow] = b
    BY <1>0, <2>0, <2>1 DEF AtHome
  <2>4. /\ \A b1 \in Buckets \ {b} : Linked(b1)' = Linked(b1)
        /\ Linked(b)' = Linked(b) \union {obj[c]}
    <3>1. chain' = [chain EXCEPT ![b] = <<obj[c]>> \o @]
      BY <2>2
    <3> QED
      BY <1>0, <2>1, <3>1, LinkAdds
  <2>5. ASSUME NEW b1 \in Buckets, NEW n \in Linked(b1)' PROVE BucketOf[heap'[n].flow] = b1
    <3>1. n \in Linked(b1) \/ (b1 = b /\ n = obj[c])
      BY <2>4
    <3> QED
      BY <1>0, <2>2, <2>3, <3>1 DEF AtHome
  <2>6. \A d \in Cpus : pc'[d] = "link" => heap'[obj'[d]].flow = pkt'[d].flow
    BY <1>0, <2>2 DEF AtHome
  <2> QED
    BY <2>5, <2>6 DEF AtHome
<1>3. ASSUME NEW c \in Cpus, DeleteUnlink(c)
      PROVE  AtHome'
  <2>1. PICK b \in Buckets : b = BucketOf[pkt[c].flow]
    BY <1>0, <1>3 DEF DeleteUnlink, Running, HasPacket
  <2>2. /\ heap' = heap /\ pkt' = pkt /\ pc'[c] # "link"
        /\ \A d \in Cpus \ {c} : pc'[d] = pc[d] /\ obj'[d] = obj[d]
    BY <1>0, <1>3 DEF DeleteUnlink, Goto, TypeOK
  <2>3. CASE chain' = chain
    <3>1. \A b1 \in Buckets : Linked(b1)' = Linked(b1)
      BY <2>3 DEF Linked
    <3> QED
      BY <1>0, <2>2, <3>1, AtHomeFrame
  <2>4. ASSUME NEW k \in DOMAIN chain[b], chain' = [chain EXCEPT ![b] = DropAt(@, k)]
        PROVE  AtHome'
    <3>1. \A b1 \in Buckets : Linked(b1)' \subseteq Linked(b1)
      BY <1>0, <2>1, <2>4, UnlinkRemoves
    <3> QED
      BY <1>0, <2>2, <3>1, AtHomeFrame
  <2>5. Matches(pkt[c].flow) \subseteq DOMAIN chain[b]
    BY <2>1 DEF Matches
  <2> QED
    BY <1>3, <2>1, <2>3, <2>4, <2>5 DEF DeleteUnlink
<1>4. ASSUME NEW c \in Cpus, DeleteFree(c)
      PROVE  AtHome'
  <2>1. Holding(c) /\ \A d \in Cpus : pc'[d] = "link" => d # c /\ pc[d] = "link" /\ Holding(d)
    BY <1>0, <1>4 DEF DeleteFree, Running, Goto, Holding, TypeOK
  <2>2. /\ obj[c] \in Nodes /\ obj[c] \notin AllLinked
        /\ \A d \in Cpus \ {c} : Holding(d) => obj[d] \in Nodes /\ obj[d] # obj[c]
    BY <1>0, <2>1 DEF Ownership, HeldApart
  <2>3. /\ chain' = chain /\ obj' = obj /\ pkt' = pkt
        /\ \A m \in Nodes \ {obj[c]} : heap'[m] = heap[m]
    BY <1>0, <1>4, <2>2 DEF DeleteFree, locals, TypeOK
  <2>4. \A b \in Buckets : Linked(b)' = Linked(b)
    BY <2>3 DEF Linked
  <2>5. \A n \in AllLinked : n \in Nodes
    BY <1>0, LinkedInUse DEF AllLinked
  <2> QED
    BY <1>0, <2>1, <2>2, <2>3, <2>4, <2>5, AtHomeFrame
<1>5. ASSUME NEW c \in Cpus,
             \/ Search(c)
             \/ InsertCheck(c) \/ InsertNoMemory(c) \/ InsertInc(c) \/ DeleteDec(c)
             \/ \E p \in Packets : HookOut(c, p)
      PROVE  AtHome'
  <2>1. chain' = chain
    BY <1>5 DEF Search, SearchStart, SearchNext, SearchCompare, UpdateLoad, UpdateStore, Fault,
                InsertCheck, InsertNoMemory, InsertInc, DeleteDec, HookOut, table
  <2>2. \A b \in Buckets : Linked(b)' = Linked(b)
    BY <2>1 DEF Linked
  <2>3. \A d \in Cpus : pc'[d] = "link" => pc[d] = "link"
    BY <1>0, <1>5 DEF Search, SearchStart, SearchNext, SearchCompare, UpdateLoad, UpdateStore,
                Fault, InsertCheck, InsertNoMemory, InsertInc, DeleteDec, HookOut, Return, Goto,
                AfterInsert, AfterDispatch, TypeOK
  <2>4. \A d \in Cpus : pc'[d] = "link" => obj'[d] = obj[d] /\ pkt'[d] = pkt[d]
    <3>1. ASSUME NEW d \in Cpus, d # c PROVE obj'[d] = obj[d] /\ pkt'[d] = pkt[d]
      BY <1>0, <1>5, <3>1 DEF Search, SearchStart, SearchNext, SearchCompare, UpdateLoad, UpdateStore,
                Fault, InsertCheck, InsertNoMemory, InsertInc, DeleteDec, HookOut, Return,
                locals, TypeOK
    <3>2. ASSUME pc'[c] = "link" PROVE obj'[c] = obj[c] /\ pkt'[c] = pkt[c]
      BY <1>0, <1>5, <2>3, <3>2 DEF Search, SearchStart, SearchNext, SearchCompare, UpdateLoad,
                UpdateStore, Fault, InsertCheck, InsertNoMemory, InsertInc, DeleteDec, HookOut,
                Running, locals
    <3> QED
      BY <3>1, <3>2
  <2>5. \A n \in Nodes : heap'[n].flow = heap[n].flow
    <3>1. CASE UpdateStore(c) /\ ~Dangling(obj[c])
      <4>1. obj[c] \in Nodes /\ heap[obj[c]] \in Entries
        BY <1>0, <3>1 DEF TypeOK, Dangling
      <4>2. heap' = [heap EXCEPT ![obj[c]] = [heap[obj[c]] EXCEPT !.bytes = (reg[c] + pkt[c].len) % Wrap]]
        BY <3>1 DEF UpdateStore
      <4>3. heap'[obj[c]].flow = heap[obj[c]].flow
        BY <1>0, <4>1, <4>2 DEF TypeOK, Entries
      <4>4. \A n \in Nodes \ {obj[c]} : heap'[n] = heap[n]
        BY <1>0, <4>2 DEF TypeOK
      <4> QED
        BY <4>3, <4>4
    <3>2. CASE heap' = heap
      BY <3>2
    <3> QED
      BY <1>5, <3>1, <3>2 DEF Search, SearchStart, SearchNext, SearchCompare, UpdateLoad,
                UpdateStore, Fault, InsertCheck, InsertNoMemory, InsertInc, DeleteDec, HookOut, table
  <2>6. \A n \in AllLinked : n \in Nodes
    BY <1>0, LinkedInUse DEF AllLinked
  <2>7. \A d \in Cpus : pc[d] = "link" => obj[d] \in Nodes
    BY <1>0 DEF Ownership, HeldApart, Holding
  <2> QED
    BY <1>0, <2>2, <2>3, <2>4, <2>5, <2>6, <2>7, AtHomeFrame
<1>6. CASE InitTable \/ FreeTable
  <2>1. \A b \in Buckets : Linked(b)' = {}
    BY <1>6 DEF InitTable, FreeTable, Linked
  <2>2. \A c \in Cpus : pc'[c] = "idle"
    BY <1>0, <1>6 DEF InitTable, FreeTable, Quiet
  <2> QED
    BY <2>1, <2>2 DEF AtHome
<1>7. CASE RegisterOut \/ RegisterIn \/ StaleHook \/ UnregisterHooks \/ UNCHANGED vars
  <2>1. UNCHANGED <<chain, heap, pc, obj, pkt>>
    BY <1>7 DEF RegisterOut, RegisterIn, StaleHook, Fault, UnregisterHooks, vars, table, locals
  <2>2. \A b \in Buckets : Linked(b)' = Linked(b)
    BY <2>1 DEF Linked
  <2> QED
    BY <1>0, <2>1, <2>2, AtHomeFrame
<1> QED
  BY <1>1, <1>2, <1>3, <1>4, <1>5, <1>6, <1>7 DEF Next, Call, Insert, Delete

LEMMA HomeInvariance == Spec => []HInv
<1>1. Init => HInv
  <2> SUFFICES ASSUME Init PROVE HInv
    OBVIOUS
  <2>1. \A b \in Buckets : Linked(b) = {}
    BY DEF Init, Linked
  <2> QED
    BY <2>1, InitIInv DEF Init, HInv, AtHome
<1>2. HInv /\ [Next]_vars => HInv'
  BY AtHomeStep, IInvStep DEF HInv
<1> QED
  BY <1>1, <1>2, PTL DEF Spec

-----------------------------------------------------------------------------
(***************************************************************************)
(* Searches.  One that is not overtaken stands at an entry of its own list *)
(* and will find an entry of its flow further on exactly if there was one  *)
(* when it started: entries are inserted at the head, behind it, and what  *)
(* it has loaded is what the entry holds.                                  *)
(***************************************************************************)

\* There is an entry of the flow from place i on, if and only if it is owed.
Ahead(c, i) ==
    IF view[c] = "tracked"
    THEN \E j \in DOMAIN chain[Home(c)] : j >= i /\ heap[chain[Home(c)][j]].flow = pkt[c].flow
    ELSE \A j \in DOMAIN chain[Home(c)] : j >= i => heap[chain[Home(c)][j]].flow # pkt[c].flow

Successor(b, i) == IF i < Len(chain[b]) THEN chain[b][i + 1] ELSE NULL

StandsAt(c, i) ==
    /\ chain[Home(c)][i] = obj[c]
    /\ view[c] \in {"tracked", "untracked"}
    /\ pc[c] \in {"next", "compare"} => Ahead(c, i)
    /\ pc[c] = "compare" => nxt[c] = Successor(Home(c), i)
    /\ pc[c] \in {"load", "store"} => view[c] = "tracked" /\ heap[obj[c]].flow = pkt[c].flow
    /\ pc[c] = "store" => reg[c] = heap[obj[c]].bytes

SearchOK(c) ==
    pc[c] \in Searching => view[c] = "overtaken" \/ \E i \in DOMAIN chain[Home(c)] : StandsAt(c, i)

SearchesOK == \A c \in Cpus : SearchOK(c)

OInv == HInv /\ SearchesOK

\* The list of a call in progress.
LEMMA HomeIsList ==
    ASSUME IInv, NEW c \in Cpus, pc[c] # "idle"
    PROVE  /\ pkt[c] \in Packets /\ pkt[c].flow \in Flows /\ Home(c) \in Buckets
           /\ chain[Home(c)] \in Seq(Nodes)
BY FlowTableAssumption DEF IInv, HasPacket, TypeOK, Home

\* A search that is not overtaken is at an entry that is linked and in memory.
LEMMA AtLinked ==
    ASSUME IInv, NEW c \in Cpus, pc[c] \in Searching, NEW i \in DOMAIN chain[Home(c)], StandsAt(c, i)
    PROVE  /\ obj[c] \in Linked(Home(c)) /\ obj[c] \in Nodes
           /\ heap[obj[c]] \in Entries /\ ~Dangling(obj[c])
<1>1. Home(c) \in Buckets
  BY HomeIsList DEF Searching
<1>2. obj[c] \in Linked(Home(c))
  BY DEF StandsAt, Linked
<1> QED
  BY <1>1, <1>2, LinkedInUse

\* What follows an entry.
LEMMA NextAt ==
    ASSUME IInv, NEW b \in Buckets, NEW i \in DOMAIN chain[b]
    PROVE  NextOf(chain[b][i]) = Successor(b, i)
<1> DEFINE n == chain[b][i]
<1>0. chain[b] \in Seq(Nodes) /\ DOMAIN chain[b] = 1 .. Len(chain[b]) /\ Len(chain[b]) \in Nat
  BY DEF IInv, TypeOK
<1>1. n \in Linked(b) /\ n \in AllLinked
  BY DEF AllLinked, Linked
<1>2. ~ \E c \in Cpus : pc[c] = "free" /\ obj[c] = n
  BY <1>1 DEF IInv, Ownership, HeldApart, Holding
<1>3. ASSUME NEW b0 \in Buckets, NEW i0 \in DOMAIN chain[b0], chain[b0][i0] = n
      PROVE  b0 = b /\ i0 = i
  BY <1>3 DEF IInv, Ownership, LinkedOnce
<1>4. CASE i < Len(chain[b])
  <2> DEFINE bb == CHOOSE b1 \in Buckets : n \in Linked(b1)
             ii == CHOOSE i1 \in DOMAIN chain[bb] : chain[bb][i1] = n
  <2>1. bb \in Buckets /\ n \in Linked(bb)
    BY <1>1
  <2>2. ii \in DOMAIN chain[bb] /\ chain[bb][ii] = n
    BY <2>1 DEF Linked
  <2>3. bb = b /\ ii = i
    BY <1>3, <2>1, <2>2
  <2>4. \E b1 \in Buckets : \E i1 \in 1 .. Len(chain[b1]) - 1 : chain[b1][i1] = n
    <3>1. i \in 1 .. Len(chain[b]) - 1
      BY <1>0, <1>4
    <3> QED
      BY <3>1
  <2>5. NextOf(n) = chain[bb][ii + 1]
    BY <1>2, <2>4 DEF NextOf
  <2> HIDE DEF bb, ii, n
  <2>6. NextOf(n) = chain[b][i + 1]
    BY <2>3, <2>5
  <2> QED
    BY <1>4, <2>6 DEF Successor, n
<1>5. CASE ~(i < Len(chain[b]))
  <2>1. ~ \E b1 \in Buckets : \E i1 \in 1 .. Len(chain[b1]) - 1 : chain[b1][i1] = n
    <3> SUFFICES ASSUME NEW b1 \in Buckets, NEW i1 \in 1 .. Len(chain[b1]) - 1, chain[b1][i1] = n
                 PROVE  FALSE
      OBVIOUS
    <3>1. chain[b1] \in Seq(Nodes) /\ DOMAIN chain[b1] = 1 .. Len(chain[b1]) /\ Len(chain[b1]) \in Nat
      BY DEF IInv, TypeOK
    <3>2. i1 \in DOMAIN chain[b1]
      BY <3>1
    <3>3. b1 = b /\ i1 = i
      BY <1>3, <3>2
    <3> QED
      BY <1>0, <1>5, <3>3
  <2> QED
    BY <1>2, <1>5, <2>1 DEF NextOf, Successor
<1> QED
  BY <1>4, <1>5

-----------------------------------------------------------------------------
(* The steps of the other calls.                                           *)

\* The call on d stays where it is: its locals are those it had, and its
\* search is overtaken if what it owes changes.
Waits(d) ==
    /\ pc'[d] = pc[d] /\ pkt'[d] = pkt[d] /\ obj'[d] = obj[d]
    /\ nxt'[d] = nxt[d] /\ reg'[d] = reg[d]

\* Its list, the flows of the entries there and the bytes it has read stay.
LEMMA SearchFrame ==
    ASSUME IInv, NEW d \in Cpus, SearchOK(d), Waits(d),
           pc[d] \in Searching => view'[d] \in {view[d], "overtaken"},
           pc[d] \in Searching /\ view'[d] # "overtaken" =>
               /\ chain'[Home(d)] = chain[Home(d)]
               /\ \A n \in Linked(Home(d)) : heap'[n].flow = heap[n].flow
               /\ pc[d] = "store" => heap'[obj[d]] = heap[obj[d]]
    PROVE  SearchOK(d)'
<1> SUFFICES ASSUME pc[d] \in Searching, view'[d] # "overtaken"
             PROVE  \E i \in DOMAIN chain'[Home(d)'] : StandsAt(d, i)'
  BY DEF SearchOK, Waits
<1>1. view'[d] = view[d] /\ Home(d)' = Home(d)
  BY DEF Waits, Home
<1>2. PICK i \in DOMAIN chain[Home(d)] : StandsAt(d, i)
  BY <1>1 DEF SearchOK
<1>3. PICK b \in Buckets : b = Home(d)
  BY HomeIsList DEF Searching
<1>4. /\ chain'[b] = chain[b]
      /\ \A j \in DOMAIN chain[b] : heap'[chain[b][j]].flow = heap[chain[b][j]].flow
      /\ pc[d] = "store" => heap'[obj[d]] = heap[obj[d]]
      /\ heap'[obj[d]].flow = heap[obj[d]].flow
  <2>1. \A j \in DOMAIN chain[b] : chain[b][j] \in Linked(b)
    BY DEF Linked
  <2>2. obj[d] \in Linked(b)
    BY <1>2, <1>3, AtLinked
  <2> QED
    BY <1>3, <2>1, <2>2
<1>5. Ahead(d, i) => Ahead(d, i)'
  BY <1>1, <1>3, <1>4 DEF Ahead, Waits
<1>6. StandsAt(d, i)'
  BY <1>1, <1>2, <1>3, <1>4, <1>5 DEF StandsAt, Successor, Waits
<1> QED
  BY <1>1, <1>2, <1>3, <1>4, <1>6

\* An entry is inserted at the head of its list.
LEMMA SearchBehindHead ==
    ASSUME IInv, NEW d \in Cpus, SearchOK(d), Waits(d), view' = view, heap' = heap,
           NEW n \in Nodes, chain' = [chain EXCEPT ![Home(d)] = <<n>> \o @]
    PROVE  SearchOK(d)'
<1> SUFFICES ASSUME pc[d] \in Searching, view'[d] # "overtaken"
             PROVE  \E i \in DOMAIN chain'[Home(d)'] : StandsAt(d, i)'
  BY DEF SearchOK, Waits
<1>1. view[d] # "overtaken" /\ Home(d)' = Home(d)
  BY DEF Waits, Home
<1>2. PICK i \in DOMAIN chain[Home(d)] : StandsAt(d, i)
  BY <1>1 DEF SearchOK
<1>3. PICK b \in Buckets : b = Home(d)
  BY HomeIsList DEF Searching
<1>4. chain[b] \in Seq(Nodes) /\ DOMAIN chain[b] = 1 .. Len(chain[b]) /\ Len(chain[b]) \in Nat
  BY DEF IInv, TypeOK
<1>5. chain'[b] = <<n>> \o chain[b]
  BY <1>3 DEF IInv, TypeOK
<1>6. /\ DOMAIN chain'[b] = 1 .. Len(chain[b]) + 1 /\ Len(chain'[b]) = Len(chain[b]) + 1
      /\ \A j \in 1 .. Len(chain[b]) : chain'[b][j + 1] = chain[b][j]
  BY <1>4, <1>5, ConsProperties
<1>7. i + 1 \in DOMAIN chain'[b] /\ chain'[b][i + 1] = chain[b][i] /\ i \in 1 .. Len(chain[b])
  BY <1>2, <1>3, <1>4, <1>6
<1>8. Ahead(d, i) => Ahead(d, i + 1)'
  <2>1. CASE view[d] = "tracked"
    <3> SUFFICES ASSUME Ahead(d, i)
                 PROVE  \E j \in DOMAIN chain'[b] : j >= i + 1 /\ heap[chain'[b][j]].flow = pkt[d].flow
      BY <1>1, <1>3, <2>1 DEF Ahead, Waits
    <3>1. PICK j \in DOMAIN chain[b] : j >= i /\ heap[chain[b][j]].flow = pkt[d].flow
      BY <1>3, <2>1 DEF Ahead
    <3>2. j + 1 \in DOMAIN chain'[b] /\ j + 1 >= i + 1 /\ chain'[b][j + 1] = chain[b][j]
      BY <1>4, <1>6, <1>7, <3>1
    <3> QED
      BY <3>1, <3>2
  <2>2. CASE view[d] # "tracked"
    <3> SUFFICES ASSUME Ahead(d, i), NEW j \in DOMAIN chain'[b], j >= i + 1
                 PROVE  heap[chain'[b][j]].flow # pkt[d].flow
      BY <1>1, <1>3, <2>2 DEF Ahead, Waits
    <3>1. j - 1 \in 1 .. Len(chain[b]) /\ j - 1 >= i /\ (j - 1) + 1 = j
      BY <1>4, <1>6, <1>7
    <3>2. chain'[b][j] = chain[b][j - 1]
      BY <1>6, <3>1
    <3> QED
      BY <1>3, <1>4, <2>2, <3>1, <3>2 DEF Ahead
  <2> QED
    BY <2>1, <2>2
<1>9. Successor(Home(d), i) = Successor(Home(d), i + 1)'
  <2>1. i < Len(chain[b]) <=> i + 1 < Len(chain'[b])
    BY <1>4, <1>6, <1>7
  <2>2. i < Len(chain[b]) => chain'[b][(i + 1) + 1] = chain[b][i + 1]
    BY <1>4, <1>6, <1>7
  <2> QED
    BY <1>1, <1>3, <2>1, <2>2 DEF Successor
<1>10. StandsAt(d, i + 1)'
  BY <1>1, <1>2, <1>3, <1>7, <1>8, <1>9 DEF StandsAt, Waits
<1> QED
  BY <1>1, <1>3, <1>7, <1>10

OthersWait(c) == \A d \in Cpus \ {c} : Waits(d)

LEMMA OthersDoWait ==
    ASSUME TypeOK, NEW c \in Cpus, Call(c) \/ \E p \in Packets : HookOut(c, p)
    PROVE  OthersWait(c)
<1>1. CASE Insert(c)
  BY <1>1 DEF Insert, InsertCheck, InsertAlloc, InsertNoMemory, InsertLink, InsertInc,
              Return, Goto, locals, TypeOK, OthersWait, Waits
<1>2. CASE Delete(c)
  BY <1>2 DEF Delete, DeleteUnlink, DeleteFree, DeleteDec, Return, Goto, locals, TypeOK,
              OthersWait, Waits
<1>3. CASE Search(c)
  BY <1>3 DEF Search, SearchStart, SearchNext, SearchCompare, UpdateLoad, UpdateStore,
              Fault, Return, Goto, locals, TypeOK, OthersWait, Waits
<1>4. CASE \E p \in Packets : HookOut(c, p)
  BY <1>4 DEF HookOut, Goto, TypeOK, OthersWait, Waits
<1> QED
  BY <1>1, <1>2, <1>3, <1>4 DEF Call

\* A step of c that neither links nor unlinks, and stores in no linked entry.
LEMMA NothingStored ==
    ASSUME IInv, SearchesOK, NEW c \in Cpus, OthersWait(c), pc'[c] \notin Searching,
           chain' = chain, view' = view,
           \A n \in AllLinked : heap'[n] = heap[n]
    PROVE  SearchesOK'
<1>1. ASSUME NEW d \in Cpus, d # c PROVE SearchOK(d)'
  <2>1. ASSUME pc[d] \in Searching, view[d] # "overtaken"
        PROVE  /\ \A n \in Linked(Home(d)) : heap'[n].flow = heap[n].flow
               /\ heap'[obj[d]] = heap[obj[d]]
    <3>1. Home(d) \in Buckets
      BY <2>1, HomeIsList DEF Searching
    <3>2. \A n \in Linked(Home(d)) : n \in AllLinked
      BY <3>1 DEF AllLinked
    <3>3. PICK i \in DOMAIN chain[Home(d)] : StandsAt(d, i)
      BY <2>1 DEF SearchesOK, SearchOK
    <3>4. obj[d] \in AllLinked
      BY <2>1, <3>2, <3>3, AtLinked
    <3> QED
      BY <3>2, <3>4
  <2> QED
    BY <1>1, <2>1, SearchFrame DEF OthersWait, SearchesOK
<1>2. SearchOK(c)'
  BY DEF SearchOK
<1> QED
  BY <1>1, <1>2 DEF SearchesOK

LEMMA InsertKeepsSearches ==
    ASSUME OInv, NEW c \in Cpus, Insert(c) \/ \E p \in Packets : HookOut(c, p)
    PROVE  SearchesOK'
<1>0. IInv /\ SearchesOK /\ TypeOK /\ OthersWait(c)
  BY OthersDoWait DEF OInv, HInv, IInv, Call
<1>1. CASE InsertCheck(c) \/ InsertNoMemory(c) \/ InsertInc(c) \/ \E p \in Packets : HookOut(c, p)
  <2>1. chain' = chain /\ view' = view /\ heap' = heap
    BY <1>1 DEF InsertCheck, InsertNoMemory, InsertInc, HookOut, table
  <2>2. pc'[c] \notin Searching
    BY <1>0, <1>1 DEF InsertCheck, InsertNoMemory, InsertInc, HookOut, Return, Goto,
                      AfterInsert, AfterDispatch, Searching, TypeOK
  <2> QED
    BY <1>0, <2>1, <2>2, NothingStored
<1>2. CASE InsertAlloc(c)
  <2>1. PICK n \in Nodes :
            heap[n] = NULL /\ heap' = [heap EXCEPT ![n] = [flow |-> pkt[c].flow, bytes |-> pkt[c].len]]
    BY <1>2 DEF InsertAlloc
  <2>2. chain' = chain /\ view' = view /\ pc'[c] = "link"
    BY <1>0, <1>2 DEF InsertAlloc, Goto, TypeOK
  <2>3. \A m \in AllLinked : m # n
    BY <1>0, <2>1, LinkedInUse DEF AllLinked, Dangling
  <2>4. \A m \in AllLinked : heap'[m] = heap[m]
    <3>1. \A m \in AllLinked : m \in Nodes
      BY <1>0, LinkedInUse DEF AllLinked
    <3> QED
      BY <1>0, <2>1, <2>3, <3>1 DEF TypeOK
  <2> QED
    BY <1>0, <2>2, <2>4, NothingStored DEF Searching
<1>3. CASE InsertLink(c)
  <2>0. PICK b \in Buckets, n \in Nodes : b = Home(c) /\ n = obj[c]
    BY <1>0, <1>3, HomeIsList DEF InsertLink, Running, IInv, Ownership, HeldApart, Holding
  <2>1. chain' = [chain EXCEPT ![b] = <<n>> \o @] /\ view' = view /\ heap' = heap /\ pc'[c] = "inc"
    BY <1>0, <1>3, <2>0 DEF InsertLink, Goto, Home, TypeOK
  <2>2. SearchOK(c)'
    BY <2>1 DEF SearchOK, Searching
  <2>3. ASSUME NEW d \in Cpus, d # c PROVE SearchOK(d)'
    <3>0. SearchOK(d) /\ Waits(d)
      BY <1>0, <2>3 DEF SearchesOK, OthersWait
    <3>1. CASE Home(d) = b
      BY <1>0, <2>1, <3>0, <3>1, SearchBehindHead
    <3>2. CASE Home(d) # b
      <4>1. pc[d] \in Searching => chain'[Home(d)] = chain[Home(d)]
        BY <1>0, <2>1, <3>2, HomeIsList DEF TypeOK, Searching
      <4> QED
        BY <1>0, <2>1, <3>0, <4>1, SearchFrame
    <3> QED
      BY <3>1, <3>2
  <2> QED
    BY <2>2, <2>3 DEF SearchesOK
<1> QED
  BY <1>1, <1>2, <1>3 DEF Insert

LEMMA DeleteKeepsSearches ==
    ASSUME OInv, NEW c \in Cpus, Delete(c)
    PROVE  SearchesOK'
<1>0. IInv /\ SearchesOK /\ TypeOK /\ OthersWait(c)
  BY OthersDoWait DEF OInv, HInv, IInv, Call
<1>1. CASE DeleteUnlink(c)
  <2>0. PICK b \in Buckets : b = Home(c)
    BY <1>0, <1>1, HomeIsList DEF DeleteUnlink, Running
  <2>1. heap' = heap /\ pc'[c] \notin Searching
    BY <1>0, <1>1 DEF DeleteUnlink, Goto, Searching, TypeOK
  <2>2. CASE UNCHANGED <<chain, view>>
    BY <1>0, <2>1, <2>2, NothingStored
  <2>3. ASSUME NEW i \in Nat, chain' = [chain EXCEPT ![b] = DropAt(@, i)],
               view' = Overtaking({d \in Cpus : pc[d] \in Searching /\ Home(d) = b})
        PROVE  SearchesOK'
    <3>1. ASSUME NEW d \in Cpus, d # c PROVE SearchOK(d)'
      <4>0. SearchOK(d) /\ Waits(d)
        BY <1>0, <3>1 DEF SearchesOK, OthersWait
      <4>1. pc[d] \in Searching =>
              view'[d] = IF Home(d) = b THEN "overtaken" ELSE view[d]
        BY <2>3 DEF Overtaking
      <4>2. pc[d] \in Searching /\ Home(d) # b => chain'[Home(d)] = chain[Home(d)]
        BY <1>0, <2>3, HomeIsList DEF TypeOK, Searching
      <4> QED
        BY <1>0, <2>1, <4>0, <4>1, <4>2, SearchFrame
    <3>2. SearchOK(c)'
      BY <2>1 DEF SearchOK
    <3> QED
      BY <3>1, <3>2 DEF SearchesOK
  <2>4. Matches(pkt[c].flow) \subseteq Nat
    <3>1. DOMAIN chain[b] = 1 .. Len(chain[b]) /\ Len(chain[b]) \in Nat
      BY <1>0 DEF TypeOK
    <3> QED
      BY <2>0, <3>1 DEF Matches, Home
  <2>5. \/ UNCHANGED <<chain, view>>
        \/ \E i \in Matches(pkt[c].flow) :
              /\ chain' = [chain EXCEPT ![b] = DropAt(@, i)]
              /\ view' = Overtaking({d \in Cpus : pc[d] \in Searching /\ Home(d) = b})
    BY <1>1, <2>0 DEF DeleteUnlink, Home
  <2> QED
    BY <2>2, <2>3, <2>4, <2>5
<1>2. CASE DeleteFree(c)
  <2>1. chain' = chain /\ view' = view /\ pc'[c] = "dec" /\ heap' = [heap EXCEPT ![obj[c]] = NULL]
    BY <1>0, <1>2 DEF DeleteFree, Goto, TypeOK
  <2>2. obj[c] \notin AllLinked
    BY <1>0, <1>2 DEF DeleteFree, Running, IInv, Ownership, HeldApart, Holding
  <2>3. \A m \in AllLinked : m \in Nodes
    BY <1>0, LinkedInUse DEF AllLinked
  <2>4. \A m \in AllLinked : heap'[m] = heap[m]
    BY <1>0, <2>1, <2>2, <2>3 DEF TypeOK
  <2> QED
    BY <1>0, <2>1, <2>4, NothingStored DEF Searching
<1>3. CASE DeleteDec(c)
  <2>1. chain' = chain /\ view' = view /\ pc'[c] = "idle" /\ heap' = heap
    BY <1>0, <1>3 DEF DeleteDec, Return, Goto, TypeOK
  <2> QED
    BY <1>0, <2>1, NothingStored DEF Searching
<1> QED
  BY <1>1, <1>2, <1>3 DEF Delete

\* The search of c itself and its update.
LEMMA SearchKeepsSearches ==
    ASSUME OInv, NEW c \in Cpus, Search(c)
    PROVE  SearchesOK'
<1>0. /\ IInv /\ SearchesOK /\ TypeOK /\ OthersWait(c)
      /\ chain' = chain
  BY OthersDoWait DEF OInv, HInv, IInv, Call, Search, SearchStart, SearchNext, SearchCompare,
                      UpdateLoad, UpdateStore, Fault, table
<1>a. pc[c] # "idle"
  BY DEF Search, SearchStart, SearchNext, SearchCompare, UpdateLoad, UpdateStore, Running
<1>b. PICK b \in Buckets : b = Home(c)
  BY <1>0, <1>a, HomeIsList
<1>c. chain[b] \in Seq(Nodes) /\ DOMAIN chain[b] = 1 .. Len(chain[b]) /\ Len(chain[b]) \in Nat
  BY <1>0 DEF TypeOK
<1>d. ASSUME pc[c] \in Searching, view[c] # "overtaken"
      PROVE  \E i \in DOMAIN chain[b] : StandsAt(c, i)
  BY <1>0, <1>b, <1>d DEF SearchesOK, SearchOK
<1>1. ASSUME heap' = heap, \A d \in Cpus \ {c} : view'[d] = view[d], SearchOK(c)'
      PROVE  SearchesOK'
  <2>1. ASSUME NEW d \in Cpus, d # c PROVE SearchOK(d)'
    <3>1. SearchOK(d) /\ Waits(d) /\ view'[d] = view[d]
      BY <1>0, <1>1, <2>1 DEF SearchesOK, OthersWait
    <3> QED
      BY <1>0, <1>1, <3>1, SearchFrame
  <2> QED
    BY <1>1, <2>1 DEF SearchesOK
<1>2. CASE Fault
  <2>1. heap' = heap /\ view' = view /\ Waits(c)
    BY <1>2 DEF Fault, table, locals, Waits
  <2>2. SearchOK(c)'
    BY <1>0, <2>1, SearchFrame DEF SearchesOK
  <2> QED
    BY <1>1, <2>1, <2>2
<1>3. CASE SearchStart(c)
  <2>1. heap' = heap /\ pkt[c] \in Packets
    BY <1>0, <1>3, HomeIsList, <1>a DEF SearchStart, table
  <2>2. CASE Return(c) /\ view' = view
    <3>1. pc'[c] = "idle"
      BY <1>0, <2>2 DEF Return, Goto, TypeOK
    <3>2. SearchOK(c)'
      BY <3>1 DEF SearchOK, Searching
    <3> QED
      BY <1>1, <2>1, <2>2, <3>2
  <2>3. CASE /\ First(b) # NULL /\ obj' = [obj EXCEPT ![c] = First(b)]
             /\ view' = [view EXCEPT ![c] = IF Matches(pkt[c].flow) = {} THEN "untracked" ELSE "tracked"]
             /\ Goto(c, "next") /\ pkt' = pkt
    <3>1. /\ pc'[c] = "next" /\ obj'[c] = First(b)
          /\ view'[c] = (IF Matches(pkt[c].flow) = {} THEN "untracked" ELSE "tracked")
          /\ Home(c)' = b
          /\ \A d \in Cpus \ {c} : view'[d] = view[d]
      BY <1>0, <1>b, <2>3 DEF Goto, Home, TypeOK
    <3>2. 1 \in DOMAIN chain[b] /\ chain[b][1] = First(b)
      BY <1>c, <2>3 DEF First
    <3>3. Ahead(c, 1)'
      <4>1. \A j \in DOMAIN chain[b] : j >= 1
        BY <1>c
      <4>2. Matches(pkt[c].flow) = {j \in DOMAIN chain[b] : heap[chain[b][j]].flow = pkt[c].flow}
        BY <1>b DEF Matches, Home
      <4> QED
        BY <1>0, <2>1, <2>3, <3>1, <4>1, <4>2 DEF Ahead
    <3>4. StandsAt(c, 1)'
      BY <1>0, <3>1, <3>2, <3>3 DEF StandsAt
    <3>5. SearchOK(c)'
      BY <1>0, <3>1, <3>2, <3>4 DEF SearchOK
    <3> QED
      BY <1>1, <2>1, <3>1, <3>5
  <2> QED
    BY <1>3, <1>b, <2>2, <2>3 DEF SearchStart, Home
<1>4. CASE SearchNext(c) /\ ~Dangling(obj[c])
  <2>1. /\ nxt' = [nxt EXCEPT ![c] = NextOf(obj[c])] /\ pc[c] = "next"
        /\ Goto(c, "compare")
        /\ UNCHANGED <<mod, table, fault, view, pkt, obj, reg>>
    BY <1>4 DEF SearchNext, Running
  <2>2. pc'[c] = "compare" /\ nxt'[c] = NextOf(obj[c]) /\ Home(c)' = b /\ heap' = heap
    BY <1>0, <1>b, <2>1 DEF Goto, Home, TypeOK, table
  <2>3. SearchOK(c)'
    <3>1. CASE view[c] = "overtaken"
      BY <2>1, <3>1 DEF SearchOK
    <3>2. CASE view[c] # "overtaken"
      <4>1. PICK i \in DOMAIN chain[b] : StandsAt(c, i)
        BY <1>d, <2>1, <3>2 DEF Searching
      <4>2. nxt'[c] = Successor(b, i)
        BY <1>0, <1>b, <2>2, <4>1, NextAt DEF StandsAt
      <4>3. Successor(b, i)' = Successor(b, i)
        BY <1>0 DEF Successor
      <4>4. Ahead(c, i) => Ahead(c, i)'
        BY <1>0, <1>b, <2>1, <2>2 DEF Ahead
      <4>5. StandsAt(c, i)'
        BY <1>0, <1>b, <2>1, <2>2, <4>1, <4>2, <4>3, <4>4 DEF StandsAt
      <4> QED
        BY <1>0, <2>2, <4>1, <4>5 DEF SearchOK
    <3> QED
      BY <3>1, <3>2
  <2> QED
    BY <1>1, <2>1, <2>2, <2>3
<1>5. CASE SearchCompare(c) /\ ~Dangling(obj[c])
  <2>0. pc[c] = "compare" /\ heap' = heap
    BY <1>5 DEF SearchCompare, Running, table, Fault
  <2>1. CASE /\ heap[obj[c]].flow = pkt[c].flow
             /\ Goto(c, "load") /\ UNCHANGED <<mod, table, fault, view, locals>>
    <3>1. pc'[c] = "load" /\ view' = view /\ obj' = obj /\ pkt' = pkt /\ Home(c)' = b
      BY <1>0, <1>b, <2>1 DEF Goto, Home, TypeOK, locals
    <3>2. SearchOK(c)'
      <4>1. CASE view[c] = "overtaken"
        BY <3>1, <4>1 DEF SearchOK
      <4>2. CASE view[c] # "overtaken"
        <5>1. PICK i \in DOMAIN chain[b] : StandsAt(c, i)
          BY <1>d, <2>0, <4>2 DEF Searching
        <5>2. view[c] = "tracked"
          <6>1. Ahead(c, i) /\ chain[b][i] = obj[c] /\ i >= i
            BY <1>b, <1>c, <2>0, <5>1 DEF StandsAt
          <6> QED
            BY <1>b, <2>1, <5>1, <6>1 DEF StandsAt, Ahead
        <5>3. StandsAt(c, i)'
          BY <1>0, <1>b, <2>0, <2>1, <3>1, <5>1, <5>2 DEF StandsAt
        <5> QED
          BY <1>0, <3>1, <5>1, <5>3 DEF SearchOK
      <4> QED
        BY <4>1, <4>2
    <3> QED
      BY <1>1, <2>0, <3>1, <3>2
  <2>2. CASE Return(c) /\ view' = [view EXCEPT ![c] = "none"]
    <3>1. pc'[c] = "idle" /\ \A d \in Cpus \ {c} : view'[d] = view[d]
      BY <1>0, <2>2 DEF Return, Goto, TypeOK
    <3>2. SearchOK(c)'
      BY <3>1 DEF SearchOK, Searching
    <3> QED
      BY <1>1, <2>0, <3>1, <3>2
  <2>3. CASE /\ heap[obj[c]].flow # pkt[c].flow /\ nxt[c] # NULL
             /\ obj' = [obj EXCEPT ![c] = nxt[c]] /\ Goto(c, "next") /\ UNCHANGED <<view, pkt>>
    <3>1. pc'[c] = "next" /\ view' = view /\ obj'[c] = nxt[c] /\ pkt' = pkt /\ Home(c)' = b
      BY <1>0, <1>b, <2>3 DEF Goto, Home, TypeOK
    <3>2. SearchOK(c)'
      <4>1. CASE view[c] = "overtaken"
        BY <3>1, <4>1 DEF SearchOK
      <4>2. CASE view[c] # "overtaken"
        <5>1. PICK i \in DOMAIN chain[b] : StandsAt(c, i)
          BY <1>d, <2>0, <4>2 DEF Searching
        <5>2. nxt[c] = Successor(b, i) /\ Ahead(c, i) /\ chain[b][i] = obj[c]
          BY <1>b, <2>0, <5>1 DEF StandsAt
        <5>3. i + 1 \in DOMAIN chain[b] /\ chain[b][i + 1] = nxt[c]
          BY <1>c, <2>3, <5>2 DEF Successor
        <5>4. \A j \in DOMAIN chain[b] : j >= i <=> (j = i \/ j >= i + 1)
          BY <1>c, <5>1
        <5>5. Ahead(c, i + 1)
          BY <1>b, <2>3, <5>2, <5>4 DEF Ahead
        <5>6. Ahead(c, i + 1)'
          BY <1>0, <1>b, <2>0, <3>1, <5>5 DEF Ahead
        <5>7. StandsAt(c, i + 1)'
          BY <1>0, <1>b, <3>1, <5>1, <5>3, <5>6 DEF StandsAt
        <5> QED
          BY <1>0, <3>1, <5>3, <5>7 DEF SearchOK
      <4> QED
        BY <4>1, <4>2
    <3> QED
      BY <1>1, <2>0, <3>1, <3>2
  <2> QED
    BY <1>5, <2>1, <2>2, <2>3 DEF SearchCompare
<1>6. CASE UpdateLoad(c) /\ ~Dangling(obj[c])
  <2>1. /\ reg' = [reg EXCEPT ![c] = heap[obj[c]].bytes] /\ Goto(c, "store") /\ pc[c] = "load"
        /\ UNCHANGED <<mod, table, fault, view, pkt, obj, nxt>>
    BY <1>6 DEF UpdateLoad, Running
  <2>2. pc'[c] = "store" /\ reg'[c] = heap[obj[c]].bytes /\ Home(c)' = b /\ heap' = heap
    BY <1>0, <1>b, <2>1 DEF Goto, Home, TypeOK, table
  <2>3. SearchOK(c)'
    <3>1. CASE view[c] = "overtaken"
      BY <2>1, <3>1 DEF SearchOK
    <3>2. CASE view[c] # "overtaken"
      <4>1. PICK i \in DOMAIN chain[b] : StandsAt(c, i)
        BY <1>d, <2>1, <3>2 DEF Searching
      <4>2. StandsAt(c, i)'
        BY <1>0, <1>b, <2>1, <2>2, <4>1 DEF StandsAt
      <4> QED
        BY <1>0, <2>2, <4>1, <4>2 DEF SearchOK
    <3> QED
      BY <3>1, <3>2
  <2> QED
    BY <1>1, <2>1, <2>2, <2>3
<1>7. CASE UpdateStore(c) /\ ~Dangling(obj[c])
  <2> DEFINE v == (reg[c] + pkt[c].len) % Wrap
             n == obj[c]
             D == {d \in Cpus : pc[d] = "store" /\ obj[d] = n}
  <2>1. /\ heap' = [heap EXCEPT ![n] = [heap[n] EXCEPT !.bytes = v]]
        /\ view' = [Overtaking(D) EXCEPT ![c] = "none"]
        /\ Return(c)
    BY <1>7 DEF UpdateStore
  <2>2. n \in Nodes /\ heap[n] \in Entries
    BY <1>0, <1>7 DEF Dangling, TypeOK
  <2>3. pc'[c] = "idle" /\ \A d \in Cpus \ {c} : view'[d] = IF d \in D THEN "overtaken" ELSE view[d]
    BY <1>0, <2>1 DEF Return, Goto, TypeOK, Overtaking
  <2> HIDE DEF v
  <2>4. heap'[n].flow = heap[n].flow /\ \A m \in Nodes \ {n} : heap'[m] = heap[m]
    BY <1>0, <2>1, <2>2 DEF TypeOK, Entries
  <2>5. SearchOK(c)'
    BY <2>3 DEF SearchOK, Searching
  <2>6. ASSUME NEW d \in Cpus, d # c PROVE SearchOK(d)'
    <3>1. SearchOK(d) /\ Waits(d)
      BY <1>0, <2>6 DEF SearchesOK, OthersWait
    <3>2. view'[d] \in {view[d], "overtaken"}
      BY <2>3, <2>6
    <3>3. pc[d] \in Searching => \A m \in Linked(Home(d)) : heap'[m].flow = heap[m].flow
      <4>1. pc[d] \in Searching => \A m \in Linked(Home(d)) : m \in Nodes
        BY <1>0, HomeIsList, LinkedInUse DEF Searching
      <4> QED
        BY <2>4, <4>1
    <3>4. pc[d] = "store" /\ view'[d] # "overtaken" => heap'[obj[d]] = heap[obj[d]]
      <4> SUFFICES ASSUME pc[d] = "store", view'[d] # "overtaken"
                   PROVE  heap'[obj[d]] = heap[obj[d]]
        OBVIOUS
      <4>1. obj[d] # n /\ view[d] # "overtaken"
        BY <2>3, <2>6
      <4>2. \E i \in DOMAIN chain[Home(d)] : StandsAt(d, i)
        BY <3>1, <4>1 DEF SearchOK, Searching
      <4>3. obj[d] \in Nodes
        BY <1>0, <4>2, AtLinked DEF Searching
      <4> QED
        BY <2>4, <4>1, <4>3
    <3> QED
      BY <1>0, <3>1, <3>2, <3>3, <3>4, SearchFrame
  <2> QED
    BY <2>5, <2>6 DEF SearchesOK
<1> QED
  BY <1>2, <1>3, <1>4, <1>5, <1>6, <1>7
     DEF Search, SearchNext, SearchCompare, UpdateLoad, UpdateStore

LEMMA ModuleKeepsSearches ==
    ASSUME OInv,
           \/ InitTable \/ RegisterOut \/ RegisterIn \/ StaleHook
           \/ UnregisterHooks \/ FreeTable \/ UNCHANGED vars
    PROVE  SearchesOK'
<1>0. IInv /\ SearchesOK /\ Quiet /\ TypeOK
  BY DEF OInv, HInv, IInv
<1>1. CASE InitTable \/ FreeTable
  <2>1. \A c \in Cpus : pc'[c] = "idle"
    BY <1>0, <1>1 DEF InitTable, FreeTable, Quiet
  <2> QED
    BY <2>1 DEF SearchesOK, SearchOK, Searching
<1>2. CASE ~(InitTable \/ FreeTable)
  <2>1. UNCHANGED <<chain, heap, view, pc, pkt, obj, nxt, reg>>
    BY <1>2 DEF RegisterOut, RegisterIn, StaleHook, Fault, UnregisterHooks, vars, table, locals
  <2>2. ASSUME NEW d \in Cpus PROVE SearchOK(d)'
    <3>1. SearchOK(d) /\ Waits(d)
      BY <1>0, <2>1 DEF SearchesOK, Waits
    <3> QED
      BY <1>0, <2>1, <3>1, SearchFrame
  <2> QED
    BY <2>2 DEF SearchesOK
<1> QED
  BY <1>1, <1>2

LEMMA SearchInvariance == Spec => []OInv
<1>1. Init => OInv
  <2> SUFFICES ASSUME Init PROVE OInv
    OBVIOUS
  <2>1. HInv
    <3>1. \A b \in Buckets : Linked(b) = {}
      BY DEF Init, Linked
    <3> QED
      BY <3>1, InitIInv DEF Init, HInv, AtHome
  <2> QED
    BY <2>1 DEF Init, OInv, SearchesOK, SearchOK, Searching
<1>2. OInv /\ [Next]_vars => OInv'
  <2> SUFFICES ASSUME OInv, [Next]_vars PROVE OInv'
    OBVIOUS
  <2>1. HInv'
    BY AtHomeStep, IInvStep DEF OInv, HInv
  <2>2. SearchesOK'
    BY InsertKeepsSearches, DeleteKeepsSearches, SearchKeepsSearches, ModuleKeepsSearches
       DEF Next, Call
  <2> QED
    BY <2>1, <2>2 DEF OInv
<1> QED
  BY <1>1, <1>2, PTL DEF Spec

-----------------------------------------------------------------------------
(* What a search answers.                                                  *)

\* The step in which the call on c moves is its own.
LEMMA OwnStep ==
    ASSUME TypeOK, Quiet, [Next]_vars, NEW c \in Cpus, pc[c] # "idle", pc'[c] # pc[c]
    PROVE  Call(c)
<1>1. CASE \E d \in Cpus : Call(d) \/ \E p \in Packets : HookOut(d, p)
  <2>1. PICK d \in Cpus : Call(d) \/ \E p \in Packets : HookOut(d, p)
    BY <1>1
  <2>2. d = c
    BY <2>1, OthersDoWait DEF OthersWait, Waits
  <2> QED
    BY <2>1, <2>2 DEF HookOut, Running
<1>2. CASE ~ \E d \in Cpus : Call(d) \/ \E p \in Packets : HookOut(d, p)
  <2>1. pc' = pc
    BY <1>2 DEF Next, InitTable, RegisterOut, RegisterIn, StaleHook, Fault, UnregisterHooks,
                FreeTable, vars
  <2> QED
    BY <2>1
<1> QED
  BY <1>1, <1>2

LEMMA AtomicAnswer ==
    ASSUME OInv, [Next]_vars, NEW c \in Cpus, view[c] # "overtaken"
    PROVE  AnswersAtomically(c)
<1>0. IInv /\ SearchesOK /\ TypeOK /\ Quiet
  BY DEF OInv, HInv, IInv
<1>1. CASE pc[c] \notin Searching
  BY <1>1 DEF AnswersAtomically, Searching
<1>2. CASE pc[c] \in Searching
  <2>0. PICK b \in Buckets : b = Home(c)
    BY <1>0, <1>2, HomeIsList DEF Searching
  <2>1. PICK i \in DOMAIN chain[b] : StandsAt(c, i)
    BY <1>0, <1>2, <2>0 DEF SearchesOK, SearchOK
  <2>2. obj[c] \in Linked(b) /\ ~Dangling(obj[c]) /\ chain[b][i] = obj[c]
    BY <1>0, <1>2, <2>0, <2>1, AtLinked DEF StandsAt
  <2>3. DOMAIN chain[b] = 1 .. Len(chain[b]) /\ Len(chain[b]) \in Nat /\ chain[b] \in Seq(Nodes)
    BY <1>0 DEF TypeOK
  <2>4. pc'[c] # pc[c] => Call(c)
    BY <1>0, <1>2, OwnStep DEF Searching
  <2>5. ASSUME pc[c] = "compare", pc'[c] = "load" PROVE view[c] = "tracked"
    <3>1. heap[obj[c]].flow = pkt[c].flow
      <4>1. SearchCompare(c)
        BY <2>4, <2>5 DEF Call, Insert, Delete, Search, InsertCheck, InsertAlloc, InsertNoMemory,
              InsertLink, InsertInc, DeleteUnlink, DeleteFree, DeleteDec, SearchStart, SearchNext,
              UpdateLoad, UpdateStore, Running
      <4> QED
        BY <1>0, <2>2, <2>5, <4>1 DEF SearchCompare, Return, Goto, TypeOK
    <3>2. Ahead(c, i) /\ i >= i
      BY <2>1, <2>3, <2>5 DEF StandsAt
    <3> QED
      BY <2>0, <2>1, <2>2, <3>1, <3>2 DEF Ahead, StandsAt
  <2>6. ASSUME pc[c] = "compare", pc'[c] = "idle" PROVE view[c] = "untracked"
    <3>1. heap[obj[c]].flow # pkt[c].flow /\ nxt[c] = NULL
      <4>1. SearchCompare(c)
        BY <2>4, <2>6 DEF Call, Insert, Delete, Search, InsertCheck, InsertAlloc, InsertNoMemory,
              InsertLink, InsertInc, DeleteUnlink, DeleteFree, DeleteDec, SearchStart, SearchNext,
              UpdateLoad, UpdateStore, Running
      <4> QED
        BY <1>0, <2>2, <2>6, <4>1 DEF SearchCompare, Goto, TypeOK
    <3>2. Ahead(c, i) /\ Successor(b, i) = NULL
      BY <2>0, <2>1, <2>6, <3>1 DEF StandsAt
    <3>3. ~(i < Len(chain[b]))
      BY <2>3, <3>2, FlowTableAssumption DEF Successor
    <3>4. \A j \in DOMAIN chain[b] : j >= i => j = i
      BY <2>3, <3>3
    <3>5. view[c] # "tracked"
      BY <2>0, <2>2, <3>1, <3>2, <3>4 DEF Ahead
    <3> QED
      BY <2>1, <3>5 DEF StandsAt
  <2>7. ASSUME pc[c] = "store", pc'[c] = "idle"
        PROVE  /\ obj[c] \in EntriesOf(pkt[c].flow)
               /\ heap'[obj[c]].bytes = (heap[obj[c]].bytes + pkt[c].len) % Wrap
    <3>1. heap[obj[c]].flow = pkt[c].flow /\ reg[c] = heap[obj[c]].bytes
      BY <2>1, <2>7 DEF StandsAt
    <3>2. obj[c] \in EntriesOf(pkt[c].flow)
      BY <2>0, <2>2, <3>1 DEF EntriesOf, Home
    <3>3. UpdateStore(c)
      BY <2>4, <2>7 DEF Call, Insert, Delete, Search, InsertCheck, InsertAlloc, InsertNoMemory,
            InsertLink, InsertInc, DeleteUnlink, DeleteFree, DeleteDec, SearchStart, SearchNext,
            SearchCompare, UpdateLoad, Running
    <3>4. PICK v : v = (reg[c] + pkt[c].len) % Wrap
      OBVIOUS
    <3>5. heap' = [heap EXCEPT ![obj[c]] = [heap[obj[c]] EXCEPT !.bytes = v]]
      BY <2>2, <3>3, <3>4 DEF UpdateStore
    <3>6. obj[c] \in Nodes /\ heap[obj[c]] \in Entries
      BY <1>0, <2>2 DEF TypeOK, Dangling
    <3>7. heap'[obj[c]].bytes = v
      BY <1>0, <3>5, <3>6 DEF TypeOK, Entries
    <3> QED
      BY <3>1, <3>2, <3>4, <3>7
  <2> QED
    BY <2>2, <2>5, <2>6, <2>7 DEF AnswersAtomically
<1> QED
  BY <1>1, <1>2

\* Memory that was given back is touched by an overtaken search only, or by
\* the hook of a module that is gone.
LEMMA FaultOvertakes ==
    ASSUME OInv, [Next]_vars, fault' # fault
    PROVE  mod = "gone" \/ \E c \in Cpus : view[c] = "overtaken"
<1>0. IInv /\ SearchesOK
  BY DEF OInv, HInv
<1>1. CASE StaleHook
  BY <1>1 DEF StaleHook
<1>2. CASE ~StaleHook
  <2>1. PICK c \in Cpus : Search(c)
    BY <1>2 DEF Next, Call, Insert, Delete, InsertCheck, InsertAlloc, InsertNoMemory,
          InsertLink, InsertInc, DeleteUnlink, DeleteFree, DeleteDec, HookOut, InitTable,
          RegisterOut, RegisterIn, UnregisterHooks, FreeTable, vars
  <2>2. pc[c] \in Searching /\ Dangling(obj[c])
    BY <2>1 DEF Search, SearchStart, SearchNext, SearchCompare, UpdateLoad, UpdateStore,
          Running, Searching
  <2>3. view[c] = "overtaken"
    BY <1>0, <2>2, AtLinked DEF SearchesOK, SearchOK
  <2> QED
    BY <2>3
<1> QED
  BY <1>1, <1>2

\* However the hook calls interleave, a search that nothing overtakes answers
\* as if it had been atomic, touches live memory only and loses no bytes
\* (search_table and the += of hook_func_out).
THEOREM SearchesAreAtomic == Spec => SearchIsAtomic
<1>1. OInv /\ [Next]_vars =>
        [/\ \A c \in Cpus : view[c] # "overtaken" => AnswersAtomically(c)
         /\ fault' # fault => mod = "gone" \/ \E c \in Cpus : view[c] = "overtaken"]_vars
  BY AtomicAnswer, FaultOvertakes
<1> QED
  BY <1>1, SearchInvariance, PTL DEF Spec, SearchIsAtomic

-----------------------------------------------------------------------------
(***************************************************************************)
(* The table implements FlowSet: the entries of a flow are those of its    *)
(* list, its claims the calls that are about to insert one.                *)
(***************************************************************************)

NEntries(f) == Cardinality(EntriesOf(f))
NClaims(f) == Cardinality(Inserting(f))

LEMMA MappedFinite ==
    ASSUME IInv, NEW f \in Flows
    PROVE  /\ IsFiniteSet(EntriesOf(f)) /\ NEntries(f) \in Nat
           /\ IsFiniteSet(Inserting(f)) /\ NClaims(f) \in Nat
<1>1. BucketOf[f] \in Buckets
  BY FlowTableAssumption
<1>2. EntriesOf(f) \subseteq Nodes /\ Inserting(f) \subseteq Cpus
  BY <1>1, LinkedInUse DEF EntriesOf, Inserting
<1>3. IsFiniteSet(EntriesOf(f)) /\ IsFiniteSet(Inserting(f))
  BY <1>2, FlowTableAssumption, FS_Subset
<1> QED
  BY <1>3, FS_CardinalityType DEF NEntries, NClaims

\* The lists and the flows of their entries stay.
LEMMA EntriesStay ==
    ASSUME IInv, chain' = chain, \A n \in AllLinked : heap'[n].flow = heap[n].flow
    PROVE  \A f \in Flows : EntriesOf(f)' = EntriesOf(f)
<1> TAKE f \in Flows
<1>1. BucketOf[f] \in Buckets
  BY FlowTableAssumption
<1>2. Linked(BucketOf[f])' = Linked(BucketOf[f]) /\ Linked(BucketOf[f]) \subseteq AllLinked
  BY <1>1 DEF Linked, AllLinked
<1> QED
  BY <1>2 DEF EntriesOf

\* The insertions in progress are the same when every call stays on its side
\* of the claim.
LEMMA ClaimsStay ==
    ASSUME \A c \in Cpus : /\ pc'[c] \in {"alloc", "link"} <=> pc[c] \in {"alloc", "link"}
                           /\ pc[c] \in {"alloc", "link"} => pkt'[c] = pkt[c]
    PROVE  \A f \in Flows : Inserting(f)' = Inserting(f)
BY DEF Inserting

LEMMA MapsToStutter ==
    ASSUME \A f \in Flows : EntriesOf(f)' = EntriesOf(f),
           \A f \in Flows : Inserting(f)' = Inserting(f)
    PROVE  UNCHANGED Abstract!vars
BY DEF Abstract!vars

\* One more insertion of flow f is in progress, or one less.
LEMMA ClaimsChange ==
    ASSUME IInv, NEW c \in Cpus, NEW f \in Flows, NEW P \in SUBSET Cpus, c \notin P,
           \/ Inserting(f) = P /\ Inserting(f)' = P \union {c}
           \/ Inserting(f) = P \union {c} /\ Inserting(f)' = P
    PROVE  /\ Inserting(f)' = P \union {c} => NClaims(f)' = NClaims(f) + 1 /\ NClaims(f) < Cardinality(Cpus)
           /\ Inserting(f)' = P => NClaims(f)' = NClaims(f) - 1 /\ NClaims(f) > 0
<1>1. IsFiniteSet(P) /\ IsFiniteSet(P \union {c}) /\ Cardinality(P) \in Nat
  BY FlowTableAssumption, FS_Subset, FS_AddElement, FS_CardinalityType
<1>2. Cardinality(P \union {c}) = Cardinality(P) + 1
  BY <1>1, FS_AddElement
<1>3. Cardinality(P \union {c}) <= Cardinality(Cpus)
  BY FlowTableAssumption, FS_Subset
<1>4. Cardinality(Cpus) \in Nat
  BY FlowTableAssumption, FS_CardinalityType
<1>5. P # P \union {c}
  OBVIOUS
<1>6. CASE Inserting(f) = P /\ Inserting(f)' = P \union {c}
  <2>1. NClaims(f) = Cardinality(P) /\ NClaims(f)' = Cardinality(P \union {c})
    BY <1>6 DEF NClaims
  <2> QED
    BY <1>1, <1>2, <1>3, <1>4, <1>5, <1>6, <2>1
<1>7. CASE Inserting(f) = P \union {c} /\ Inserting(f)' = P
  <2>1. NClaims(f)' = Cardinality(P) /\ NClaims(f) = Cardinality(P \union {c})
    BY <1>7 DEF NClaims
  <2> QED
    BY <1>1, <1>2, <1>3, <1>4, <1>5, <1>7, <2>1
<1> QED
  BY <1>6, <1>7

LEMMA FlowsKept ==
    ASSUME TypeOK, NEW c \in Cpus, Search(c)
    PROVE  \A n \in Nodes : heap'[n].flow = heap[n].flow
<1>1. CASE UpdateStore(c) /\ ~Dangling(obj[c])
  <2>1. obj[c] \in Nodes /\ heap[obj[c]] \in Entries
    BY <1>1 DEF TypeOK, Dangling
  <2>2. heap' = [heap EXCEPT ![obj[c]] = [heap[obj[c]] EXCEPT !.bytes = (reg[c] + pkt[c].len) % Wrap]]
    BY <1>1 DEF UpdateStore
  <2>3. heap'[obj[c]].flow = heap[obj[c]].flow
    BY <2>1, <2>2 DEF TypeOK, Entries
  <2>4. \A n \in Nodes \ {obj[c]} : heap'[n] = heap[n]
    BY <2>2 DEF TypeOK
  <2> QED
    BY <2>3, <2>4
<1>2. CASE heap' = heap
  BY <1>2
<1> QED
  BY <1>1, <1>2 DEF Search, SearchStart, SearchNext, SearchCompare, UpdateLoad, UpdateStore,
                    Fault, table

\* insert_table maps to Claim when it finds nothing, GiveUp when there is no
\* memory, Insert when it links.
LEMMA InsertMaps ==
    ASSUME OInv, NEW c \in Cpus, Insert(c)
    PROVE  [Abstract!Next]_(Abstract!vars)
<1>0. IInv /\ AtHome /\ TypeOK /\ pc[c] # "idle" /\ OthersWait(c)
  BY OthersDoWait DEF OInv, HInv, IInv, Insert, InsertCheck, InsertAlloc, InsertNoMemory,
                      InsertLink, InsertInc, Running, Call
<1>a. PICK f \in Flows, b \in Buckets : f = pkt[c].flow /\ b = BucketOf[f] /\ b = Home(c)
  BY <1>0, HomeIsList DEF Home
<1>b. \A d \in Cpus \ {c} : pc'[d] = pc[d] /\ pkt'[d] = pkt[d]
  BY <1>0 DEF OthersWait, Waits
<1>c. \A g \in Flows : NEntries(g) \in Nat /\ NClaims(g) \in Nat
  BY <1>0, MappedFinite
<1> DEFINE P == Inserting(f) \ {c}
<1>1. CASE InsertCheck(c) /\ Matches(f) = {}
  <2>1. pc[c] = "check" /\ pc'[c] = "alloc" /\ pkt' = pkt /\ chain' = chain /\ heap' = heap
    BY <1>0, <1>1, <1>a DEF InsertCheck, Running, Goto, TypeOK, table, locals
  <2>2. \A g \in Flows : EntriesOf(g)' = EntriesOf(g)
    BY <1>0, <2>1, EntriesStay
  <2>3. Inserting(f) = P /\ Inserting(f)' = P \union {c}
    BY <1>a, <1>b, <2>1 DEF Inserting
  <2>4. \A g \in Flows \ {f} : Inserting(g)' = Inserting(g)
    BY <1>a, <1>b, <2>1 DEF Inserting
  <2>5. NClaims(f)' = NClaims(f) + 1 /\ NClaims(f) < Cardinality(Cpus)
    <3>1. P \in SUBSET Cpus /\ c \notin P
      BY DEF Inserting
    <3> QED
      BY <1>0, <2>3, <3>1, ClaimsChange
  <2>6. EntriesOf(f) = {}
    BY <1>1, <1>a DEF Matches, EntriesOf, Linked
  <2>7. NEntries(f) = 0
    BY <2>6, FS_EmptySet DEF NEntries
  <2>8. Abstract!Claim(f)
    BY <2>2, <2>4, <2>5, <2>7 DEF Abstract!Claim, NEntries, NClaims
  <2> QED
    BY <2>8 DEF Abstract!Next
<1>2. CASE InsertCheck(c) /\ Matches(f) # {}
  <2>1. /\ pc[c] = "check" /\ pc'[c] \notin {"alloc", "link"}
        /\ pkt' = pkt /\ chain' = chain /\ heap' = heap
    BY <1>0, <1>2, <1>a DEF InsertCheck, Running, Goto, AfterInsert, TypeOK, table, locals
  <2>2. \A g \in Flows : EntriesOf(g)' = EntriesOf(g)
    BY <1>0, <2>1, EntriesStay
  <2>3. \A g \in Flows : Inserting(g)' = Inserting(g)
    BY <1>b, <2>1, ClaimsStay
  <2> QED
    BY <2>2, <2>3, MapsToStutter
<1>3. CASE InsertAlloc(c)
  <2>1. PICK n \in Nodes :
            heap[n] = NULL /\ heap' = [heap EXCEPT ![n] = [flow |-> pkt[c].flow, bytes |-> pkt[c].len]]
    BY <1>3 DEF InsertAlloc
  <2>2. chain' = chain /\ pkt' = pkt /\ pc[c] = "alloc" /\ pc'[c] = "link"
    BY <1>0, <1>3 DEF InsertAlloc, Running, Goto, TypeOK
  <2>3. \A m \in AllLinked : m # n /\ m \in Nodes
    BY <1>0, <2>1, LinkedInUse DEF AllLinked, Dangling
  <2>4. \A m \in AllLinked : heap'[m] = heap[m]
    BY <1>0, <2>1, <2>3 DEF TypeOK
  <2>5. \A g \in Flows : EntriesOf(g)' = EntriesOf(g)
    BY <1>0, <2>2, <2>4, EntriesStay
  <2>6. \A g \in Flows : Inserting(g)' = Inserting(g)
    BY <1>b, <2>2, ClaimsStay
  <2> QED
    BY <2>5, <2>6, MapsToStutter
<1>4. CASE InsertNoMemory(c)
  <2>1. /\ pc[c] = "alloc" /\ pc'[c] \notin {"alloc", "link"}
        /\ pkt' = pkt /\ chain' = chain /\ heap' = heap
    BY <1>0, <1>4 DEF InsertNoMemory, Running, Goto, AfterInsert, TypeOK, table, locals
  <2>2. \A g \in Flows : EntriesOf(g)' = EntriesOf(g)
    BY <1>0, <2>1, EntriesStay
  <2>3. Inserting(f) = P \union {c} /\ Inserting(f)' = P
    BY <1>a, <1>b, <2>1 DEF Inserting
  <2>4. \A g \in Flows \ {f} : Inserting(g)' = Inserting(g)
    BY <1>a, <1>b, <2>1 DEF Inserting
  <2>5. NClaims(f)' = NClaims(f) - 1 /\ NClaims(f) > 0
    <3>1. P \in SUBSET Cpus /\ c \notin P
      BY DEF Inserting
    <3> QED
      BY <1>0, <2>3, <3>1, ClaimsChange
  <2>6. Abstract!GiveUp(f)
    BY <2>2, <2>4, <2>5 DEF Abstract!GiveUp, NEntries, NClaims
  <2> QED
    BY <2>6 DEF Abstract!Next
<1>5. CASE InsertLink(c)
  <2>0. PICK n \in Nodes : n = obj[c] /\ n \notin AllLinked /\ heap[n].flow = f
    BY <1>0, <1>5, <1>a
       DEF InsertLink, Running, IInv, Ownership, HeldApart, Holding, AtHome
  <2>1. /\ pc[c] = "link" /\ pc'[c] = "inc" /\ pkt' = pkt /\ heap' = heap
        /\ chain' = [chain EXCEPT ![b] = <<n>> \o @]
    BY <1>0, <1>5, <1>a, <2>0 DEF InsertLink, Running, Goto, TypeOK, locals
  <2>2. /\ \A b1 \in Buckets \ {b} : Linked(b1)' = Linked(b1)
        /\ Linked(b)' = Linked(b) \union {n}
    BY <1>0, <2>1, LinkAdds
  <2>3. EntriesOf(f)' = EntriesOf(f) \union {n} /\ n \notin EntriesOf(f)
    BY <1>a, <2>0, <2>1, <2>2 DEF EntriesOf, AllLinked
  <2>4. \A g \in Flows \ {f} : EntriesOf(g)' = EntriesOf(g)
    <3> TAKE g \in Flows \ {f}
    <3>1. BucketOf[g] \in Buckets
      BY FlowTableAssumption
    <3> QED
      BY <1>a, <2>0, <2>1, <2>2, <3>1 DEF EntriesOf
  <2>5. NEntries(f)' = NEntries(f) + 1
    BY <1>0, <2>3, MappedFinite, FS_AddElement DEF NEntries
  <2>6. Inserting(f) = P \union {c} /\ Inserting(f)' = P
    BY <1>a, <1>b, <2>1 DEF Inserting
  <2>7. \A g \in Flows \ {f} : Inserting(g)' = Inserting(g)
    BY <1>a, <1>b, <2>1 DEF Inserting
  <2>8. NClaims(f)' = NClaims(f) - 1 /\ NClaims(f) > 0
    <3>1. P \in SUBSET Cpus /\ c \notin P
      BY DEF Inserting
    <3> QED
      BY <1>0, <2>6, <3>1, ClaimsChange
  <2>9. Abstract!Insert(f)
    BY <2>4, <2>5, <2>7, <2>8 DEF Abstract!Insert, NEntries, NClaims
  <2> QED
    BY <2>9 DEF Abstract!Next
<1>6. CASE InsertInc(c)
  <2>1. chain' = chain /\ heap' = heap /\ pc[c] = "inc" /\ pc'[c] = "idle"
    BY <1>0, <1>6 DEF InsertInc, Running, Return, Goto, TypeOK
  <2>2. \A g \in Flows : EntriesOf(g)' = EntriesOf(g)
    BY <1>0, <2>1, EntriesStay
  <2>3. \A g \in Flows : Inserting(g)' = Inserting(g)
    BY <1>b, <2>1, ClaimsStay
  <2> QED
    BY <2>2, <2>3, MapsToStutter
<1> QED
  BY <1>1, <1>2, <1>3, <1>4, <1>5, <1>6 DEF Insert

\* delete_table maps to Delete when it unlinks; a search, its update and the
\* arrival of a packet change neither the entries nor the claims.
LEMMA OthersMap ==
    ASSUME OInv, NEW c \in Cpus, Delete(c) \/ Search(c) \/ \E p \in Packets : HookOut(c, p)
    PROVE  [Abstract!Next]_(Abstract!vars)
<1>0. IInv /\ AtHome /\ TypeOK /\ OthersWait(c)
  BY OthersDoWait DEF OInv, HInv, IInv, Call
<1>b. \A d \in Cpus \ {c} : pc'[d] = pc[d] /\ pkt'[d] = pkt[d]
  BY <1>0 DEF OthersWait, Waits
<1>c. pc[c] \notin {"alloc", "link"} /\ pc'[c] \notin {"alloc", "link"}
  BY <1>0 DEF Delete, DeleteUnlink, DeleteFree, DeleteDec, Search, SearchStart, SearchNext,
              SearchCompare, UpdateLoad, UpdateStore, HookOut, Fault, Return, Goto, Running,
              AfterInsert, AfterDispatch, TypeOK
<1>d. \A g \in Flows : Inserting(g)' = Inserting(g)
  BY <1>b, <1>c, ClaimsStay
<1>e. \A m \in AllLinked : m \in Nodes
  BY <1>0, LinkedInUse DEF AllLinked
<1>1. ASSUME chain' = chain, \A n \in AllLinked : heap'[n].flow = heap[n].flow
      PROVE  UNCHANGED Abstract!vars
  BY <1>0, <1>1, <1>d, EntriesStay, MapsToStutter
<1>2. CASE DeleteFree(c)
  <2>1. chain' = chain /\ heap' = [heap EXCEPT ![obj[c]] = NULL]
    BY <1>2 DEF DeleteFree
  <2>2. obj[c] \notin AllLinked
    BY <1>0, <1>2 DEF DeleteFree, Running, IInv, Ownership, HeldApart, Holding
  <2>3. \A n \in AllLinked : heap'[n] = heap[n]
    BY <1>0, <1>e, <2>1, <2>2 DEF TypeOK
  <2> QED
    BY <1>1, <2>1, <2>3
<1>3. CASE Search(c)
  <2>1. chain' = chain
    BY <1>3 DEF Search, SearchStart, SearchNext, SearchCompare, UpdateLoad, UpdateStore, Fault, table
  <2> QED
    BY <1>0, <1>1, <1>3, <1>e, <2>1, FlowsKept
<1>4. CASE DeleteDec(c) \/ \E p \in Packets : HookOut(c, p)
  BY <1>1, <1>4 DEF DeleteDec, HookOut, table
<1>5. CASE DeleteUnlink(c)
  <2>0. PICK f \in Flows, b \in Buckets : f = pkt[c].flow /\ b = BucketOf[f] /\ b = Home(c)
    BY <1>0, <1>5, HomeIsList DEF DeleteUnlink, Running, Home
  <2>1. heap' = heap
    BY <1>5 DEF DeleteUnlink
  <2>2. CASE chain' = chain
    BY <1>1, <2>1, <2>2
  <2>3. ASSUME NEW i \in Matches(f), chain' = [chain EXCEPT ![b] = DropAt(@, i)]
        PROVE  Abstract!Delete(f)
    <3>1. PICK n : n = chain[b][i]
      OBVIOUS
    <3>2. i \in DOMAIN chain[b] /\ heap[n].flow = f
      BY <2>0, <2>3, <3>1 DEF Matches
    <3>3. n \in EntriesOf(f)
      BY <2>0, <3>1, <3>2 DEF EntriesOf, Linked
    <3>4. /\ \A b1 \in Buckets \ {b} : Linked(b1)' = Linked(b1)
          /\ Linked(b)' = Linked(b) \ {n}
      BY <1>0, <2>3, <3>1, <3>2, UnlinkRemoves
    <3>5. EntriesOf(f)' = EntriesOf(f) \ {n}
      BY <2>0, <2>1, <3>4 DEF EntriesOf
    <3>6. \A g \in Flows \ {f} : EntriesOf(g)' = EntriesOf(g)
      <4> TAKE g \in Flows \ {f}
      <4>1. BucketOf[g] \in Buckets
        BY FlowTableAssumption
      <4> QED
        BY <2>0, <2>1, <3>2, <3>4, <4>1 DEF EntriesOf
    <3>7. NEntries(f)' = NEntries(f) - 1
      BY <1>0, <3>3, <3>5, MappedFinite, FS_RemoveElement DEF NEntries
    <3>8. NEntries(f) # 0
      BY <1>0, <3>3, MappedFinite, FS_EmptySet DEF NEntries
    <3>9. NEntries(f) > 0
      BY <1>0, <3>8, MappedFinite
    <3> QED
      BY <1>d, <3>6, <3>7, <3>9 DEF Abstract!Delete, NEntries, NClaims
  <2> QED
    BY <1>5, <2>0, <2>2, <2>3 DEF DeleteUnlink, Abstract!Next
<1> QED
  BY <1>2, <1>3, <1>4, <1>5 DEF Delete

\* free_table maps to Clear; the rest of init and exit changes nothing.
LEMMA ModuleMaps ==
    ASSUME OInv,
           \/ InitTable \/ RegisterOut \/ RegisterIn \/ StaleHook
           \/ UnregisterHooks \/ FreeTable \/ UNCHANGED vars
    PROVE  [Abstract!Next]_(Abstract!vars)
<1>0. IInv /\ Quiet /\ TypeOK
  BY DEF OInv, HInv, IInv
<1>1. CASE FreeTable
  <2>1. \A f \in Flows : Inserting(f) = {} /\ Inserting(f)' = {}
    BY <1>0, <1>1 DEF FreeTable, Quiet, Inserting
  <2>2. \A f \in Flows : EntriesOf(f)' = {}
    <3> TAKE f \in Flows
    <3>1. BucketOf[f] \in Buckets
      BY FlowTableAssumption
    <3> QED
      BY <1>1, <3>1 DEF FreeTable, EntriesOf, Linked
  <2>3. Cardinality({}) = 0
    BY FS_EmptySet
  <2>4. Abstract!Clear
    BY <2>1, <2>2, <2>3 DEF Abstract!Clear
  <2> QED
    BY <2>4 DEF Abstract!Next
<1>2. CASE InitTable
  <2>1. chain' = chain /\ heap' = heap /\ pc' = pc /\ pkt' = pkt
    BY <1>0, <1>2 DEF InitTable, Quiet, TypeOK, locals
  <2> QED
    BY <1>0, <2>1, EntriesStay, ClaimsStay, MapsToStutter
<1>3. CASE ~(InitTable \/ FreeTable)
  <2>1. chain' = chain /\ heap' = heap /\ pc' = pc /\ pkt' = pkt
    BY <1>3 DEF RegisterOut, RegisterIn, StaleHook, Fault, UnregisterHooks, vars, table, locals
  <2> QED
    BY <1>0, <2>1, EntriesStay, ClaimsStay, MapsToStutter
<1> QED
  BY <1>1, <1>2, <1>3

LEMMA InitMaps == Init => Abstract!Init
<1> SUFFICES ASSUME Init PROVE Abstract!Init
  OBVIOUS
<1>1. \A f \in Flows : BucketOf[f] \in Buckets
  BY FlowTableAssumption
<1>2. \A f \in Flows : EntriesOf(f) = {} /\ Inserting(f) = {}
  BY <1>1 DEF Init, EntriesOf, Linked, Inserting
<1>3. Cardinality({}) = 0
  BY FS_EmptySet
<1> QED
  BY <1>2, <1>3 DEF Abstract!Init

\* Whichever CPUs process the packets, the table is a set of flows with as many
\* entries each as insert_table calls found none, less those that were given
\* up or deleted.
THEOREM TableImplementsFlowSet == Spec => ImplementsFlowSet
<1>1. OInv /\ [Next]_vars => [Abstract!Next]_(Abstract!vars)
  BY InsertMaps, OthersMap, ModuleMaps DEF Next, Call
<1> QED
  BY <1>1, InitMaps, SearchInvariance, PTL DEF Spec, ImplementsFlowSet, Abstract!Spec

LEMMA BoundedStep ==
    ASSUME IInv, IInv', Abstract!Bounded, [Abstract!Next]_(Abstract!vars)
    PROVE  Abstract!Bounded'
<1> DEFINE N == Cardinality(Cpus)
<1>1. N \in Nat
  BY FlowTableAssumption, FS_CardinalityType
<1>2. /\ \A f \in Flows : NEntries(f) \in Nat /\ NClaims(f) \in Nat
      /\ \A f \in Flows : NEntries(f)' \in Nat /\ NClaims(f)' \in Nat
  <2>1. \A f \in Flows : NEntries(f) \in Nat /\ NClaims(f) \in Nat
    BY MappedFinite
  <2>2. ASSUME NEW f \in Flows PROVE NEntries(f)' \in Nat /\ NClaims(f)' \in Nat
    <3>1. IsFiniteSet(EntriesOf(f)') /\ IsFiniteSet(Inserting(f)')
      <4>1. EntriesOf(f)' \subseteq Nodes /\ Inserting(f)' \subseteq Cpus
        <5>1. Linked(BucketOf[f])' \subseteq Nodes
          BY FlowTableAssumption DEF IInv, TypeOK, Linked
        <5> QED
          BY <5>1 DEF EntriesOf, Inserting
      <4> QED
        BY <4>1, FlowTableAssumption, FS_Subset
    <3> QED
      BY <3>1, FS_CardinalityType DEF NEntries, NClaims
  <2> QED
    BY <2>1, <2>2
<1>3. \A f \in Flows : NEntries(f) + NClaims(f) <= N
  BY DEF Abstract!Bounded, NEntries, NClaims
<1>a. Abstract!Bounded' <=> \A f \in Flows : NEntries(f)' + NClaims(f)' <= N
  BY DEF Abstract!Bounded, NEntries, NClaims
<1> DEFINE E == [f \in Flows |-> NEntries(f)]
           C == [f \in Flows |-> NClaims(f)]
<1>b. /\ Abstract!Next <=>
             \/ C = [f \in Flows |-> 0] /\ E' = [f \in Flows |-> 0] /\ C' = C
             \/ \E f \in Flows :
                   \/ E[f] = 0 /\ C[f] < N /\ C' = [C EXCEPT ![f] = @ + 1] /\ E' = E
                   \/ C[f] > 0 /\ E' = [E EXCEPT ![f] = @ + 1] /\ C' = [C EXCEPT ![f] = @ - 1]
                   \/ C[f] > 0 /\ C' = [C EXCEPT ![f] = @ - 1] /\ E' = E
                   \/ E[f] > 0 /\ E' = [E EXCEPT ![f] = @ - 1] /\ C' = C
      /\ Abstract!vars' = Abstract!vars <=> E' = E /\ C' = C
  BY DEF Abstract!Next, Abstract!Clear, Abstract!Claim, Abstract!Insert, Abstract!GiveUp,
         Abstract!Delete, Abstract!vars, NEntries, NClaims
<1>4. \A f \in Flows : E[f] = NEntries(f) /\ C[f] = NClaims(f)
                        /\ E'[f] = NEntries(f)' /\ C'[f] = NClaims(f)'
  OBVIOUS
<1>5. /\ DOMAIN E = Flows /\ DOMAIN C = Flows
      /\ E = [f \in Flows |-> E[f]] /\ C = [f \in Flows |-> C[f]]
  OBVIOUS
<1> HIDE DEF N, E, C
<1>6. ASSUME NEW f \in Flows PROVE NEntries(f)' + NClaims(f)' <= N
  BY <1>1, <1>2, <1>3, <1>b, <1>4, <1>5
<1> QED
  BY <1>a, <1>6

\* A four-tuple never has more entries, those included that are about to be
\* linked, than there are CPUs: each of them was inserted by a call that had
\* found none, and no call starts again while there is one (insert_table).
THEOREM EntriesBounded == Spec => []Abstract!Bounded
<1>1. Init => Abstract!Bounded
  <2>1. Cardinality(Cpus) \in Nat
    BY FlowTableAssumption, FS_CardinalityType
  <2> QED
    BY <2>1, InitMaps DEF Abstract!Init, Abstract!Bounded
<1>2. OInv /\ OInv' /\ Abstract!Bounded /\ [Next]_vars => Abstract!Bounded'
  <2>1. OInv /\ [Next]_vars => [Abstract!Next]_(Abstract!vars)
    BY InsertMaps, OthersMap, ModuleMaps DEF Next, Call
  <2> QED
    BY <2>1, BoundedStep DEF OInv, HInv
<1> QED
  BY <1>1, <1>2, SearchInvariance, PTL DEF Spec

-----------------------------------------------------------------------------
(* The checks of Crc: a register is a set of bits, and so is a byte.       *)

Registers(w) == SUBSET (0 .. w - 1)
Octet == SUBSET (0 .. 7)

\* A set of numbers has a least one, and holds all up to k if no first is missing.
LEMMA LeastNumber ==
    ASSUME NEW S \in SUBSET Nat, S # {}
    PROVE  \E k \in S : \A m \in S : k <= m
<1>1. PICK k \in S : \A m \in S : ~(<<m, k>> \in OpToRel(<, Nat))
  BY NatLessThanWellFounded, WFMin
<1>2. ASSUME NEW m \in S, m < k PROVE FALSE
  <2>1. <<m, k>> \in {ss \in Nat \X Nat : ss[1] < ss[2]}
    BY <1>2
  <2> QED
    BY <1>1, <2>1 DEF OpToRel
<1> QED
  BY <1>2

LEMMA UpTo ==
    ASSUME NEW k \in Nat, NEW S, 0 \in S, \A j \in 0 .. k - 1 : j \in S => j + 1 \in S
    PROVE  \A j \in 0 .. k : j \in S
<1> DEFINE T == {n \in Nat : n <= k /\ n \notin S}
<1>1. SUFFICES ASSUME T # {} PROVE FALSE
  OBVIOUS
<1>2. PICK n \in T : \A m \in T : n <= m
  BY <1>1, LeastNumber
<1>3. n # 0 /\ n - 1 \in 0 .. k - 1 /\ n - 1 \notin T
  BY <1>2
<1>4. n - 1 \in S
  BY <1>3
<1> QED
  BY <1>2, <1>3, <1>4

\* What is computed from x0 in k steps, the j-th by F[j].
Steps(X, x0, k, F) == {f \in [0 .. k -> X] : f[0] = x0 /\ \A j \in 1 .. k : f[j] = F[j][f[j - 1]]}

LEMMA StepsExist ==
    ASSUME NEW X, NEW x0 \in X, NEW k \in Nat, NEW F \in [1 .. k -> [X -> X]]
    PROVE  Steps(X, x0, k, F) # {}
<1> DEFINE S == {n \in 0 .. k : \E f \in [0 .. k -> X] :
                      f[0] = x0 /\ \A j \in 1 .. n : f[j] = F[j][f[j - 1]]}
<1>1. 0 \in S
  <2>1. [j \in 0 .. k |-> x0] \in [0 .. k -> X] /\ [j \in 0 .. k |-> x0][0] = x0
    OBVIOUS
  <2>2. \A j \in 1 .. 0 : FALSE
    OBVIOUS
  <2>3. \E f \in [0 .. k -> X] : f[0] = x0 /\ \A j \in 1 .. 0 : f[j] = F[j][f[j - 1]]
    BY <2>1, <2>2, Zenon
  <2> QED
    BY <2>3
<1>2. ASSUME NEW n \in 0 .. k - 1, n \in S PROVE n + 1 \in S
  <2>1. PICK f \in [0 .. k -> X] : f[0] = x0 /\ \A j \in 1 .. n : f[j] = F[j][f[j - 1]]
    BY <1>2
  <2> DEFINE g == [f EXCEPT ![n + 1] = F[n + 1][f[n]]]
  <2>2. n + 1 \in 1 .. k /\ n \in 0 .. k
    OBVIOUS
  <2>3. F[n + 1][f[n]] \in X
    BY <2>1, <2>2
  <2>4. g \in [0 .. k -> X] /\ g[0] = x0
    BY <2>1, <2>2, <2>3
  <2>5. ASSUME NEW j \in 1 .. n + 1 PROVE g[j] = F[j][g[j - 1]]
    <3>1. CASE j = n + 1
      BY <2>1, <2>2, <3>1
    <3>2. CASE j # n + 1
      BY <2>1, <2>2, <3>2
    <3> QED
      BY <3>1, <3>2
  <2> HIDE DEF g
  <2> QED
    BY <2>2, <2>4, <2>5
<1>3. k \in S
  <2> HIDE DEF S
  <2>1. \A j \in 0 .. k : j \in S
    BY <1>1, <1>2, UpTo
  <2> QED
    BY <2>1
<1>4. \E f \in [0 .. k -> X] : f[0] = x0 /\ \A j \in 1 .. k : f[j] = F[j][f[j - 1]]
  BY <1>3
<1> QED
  BY <1>4 DEF Steps

-----------------------------------------------------------------------------
(* Words, bit by bit.                                                      *)

LEMMA XorBits == \A p, q, e : e \in Xor(p, q) <=> ~(e \in p <=> e \in q)
BY DEF Xor

\* A word moved up by n.
Up(p, n) == {e + n : e \in p}

LEMMA UpBits ==
    ASSUME NEW p \in SUBSET Int, NEW n \in Int, NEW e \in Int
    PROVE  e \in Up(p, n) <=> e - n \in p
<1>1. \A x \in p : x + n = e <=> x = e - n
  OBVIOUS
<1> QED
  BY <1>1 DEF Up

LEMMA UpIntegers ==
    ASSUME NEW p \in SUBSET Int, NEW n \in Int
    PROVE  Up(p, n) \in SUBSET Int
BY DEF Up

LEMMA UpByNone == ASSUME NEW p \in SUBSET Int PROVE Up(p, 0) = p
<1>1. Up(p, 0) \in SUBSET Int
  BY UpIntegers
<1>2. ASSUME NEW e \in Int PROVE e \in Up(p, 0) <=> e \in p
  <2>1. e - 0 = e
    OBVIOUS
  <2> QED
    BY <2>1, UpBits
<1> QED
  BY <1>1, <1>2

LEMMA LeftBits ==
    ASSUME NEW w \in Widths, NEW p \in SUBSET Int, NEW n \in Int, NEW e \in Int
    PROVE  e \in Left(w, p, n) <=> e \in 0 .. w - 1 /\ e - n \in p
<1>1. Left(w, p, n) = Up(p, n) \intersect (0 .. w - 1)
  BY DEF Left, Up
<1> QED
  BY <1>1, UpBits

LEMMA RightBits ==
    ASSUME NEW p \in SUBSET Int, NEW n \in Int, NEW e \in Int
    PROVE  e \in Right(p, n) <=> e >= 0 /\ e + n \in p
<1>1. \A x \in p : x - n = e <=> x = e + n
  OBVIOUS
<1> QED
  BY <1>1 DEF Right

LEMMA SameBits ==
    ASSUME NEW p \in SUBSET Int, NEW q \in SUBSET Int, \A e \in Int : e \in p <=> e \in q
    PROVE  p = q
OBVIOUS

LEMMA RegisterTypes ==
    ASSUME NEW w \in Widths
    PROVE  /\ w \in Nat /\ w >= 8
           /\ generator[w] \in Registers(w)
           /\ \A p : Left(w, p, 1) \in Registers(w)
           /\ \A p, n : Left(w, p, n) \in Registers(w)
           /\ \A p, q \in Registers(w) : Xor(p, q) \in Registers(w)
           /\ \A p \in Registers(w) : p \in SUBSET Int
BY DEF Widths, generator, Registers, Left, Xor

LEMMA ShiftBits ==
    ASSUME NEW w \in Widths, NEW c \in Registers(w)
    PROVE  /\ Shift(w, c) \in Registers(w)
           /\ \A e \in Int : e \in Shift(w, c) <=>
                 /\ e \in 0 .. w - 1
                 /\ ~(e - 1 \in c <=> (w - 1 \in c /\ e \in generator[w]))
<1>1. w \in Nat /\ c \in SUBSET Int /\ generator[w] \in Registers(w) /\ Left(w, c, 1) \in Registers(w)
  BY RegisterTypes
<1>2. Shift(w, c) \in Registers(w)
  BY <1>1, RegisterTypes DEF Shift
<1>3. ASSUME NEW e \in Int
      PROVE  e \in Shift(w, c) <=>
                 /\ e \in 0 .. w - 1
                 /\ ~(e - 1 \in c <=> (w - 1 \in c /\ e \in generator[w]))
  <2>1. e \in Left(w, c, 1) <=> e \in 0 .. w - 1 /\ e - 1 \in c
    BY <1>1, LeftBits
  <2>2. e \in generator[w] => e \in 0 .. w - 1
    BY <1>1 DEF Registers
  <2>3. CASE w - 1 \in c
    <3>1. e \in Shift(w, c) <=> ~(e \in Left(w, c, 1) <=> e \in generator[w])
      BY <2>3, XorBits DEF Shift
    <3> QED
      BY <2>1, <2>2, <2>3, <3>1
  <2>4. CASE w - 1 \notin c
    BY <2>1, <2>4 DEF Shift
  <2> QED
    BY <2>3, <2>4
<1> QED
  BY <1>2, <1>3

LEMMA ShiftLinear ==
    ASSUME NEW w \in Widths, NEW p \in Registers(w), NEW q \in Registers(w)
    PROVE  Shift(w, Xor(p, q)) = Xor(Shift(w, p), Shift(w, q))
<1>1. Xor(p, q) \in Registers(w)
  BY RegisterTypes
<1>2. ASSUME NEW e \in Int
      PROVE  e \in Shift(w, Xor(p, q)) <=> e \in Xor(Shift(w, p), Shift(w, q))
  <2>1. e \in Xor(Shift(w, p), Shift(w, q)) <=> ~(e \in Shift(w, p) <=> e \in Shift(w, q))
    BY XorBits
  <2>2. e \in Shift(w, Xor(p, q)) <=>
             /\ e \in 0 .. w - 1
             /\ ~(e - 1 \in Xor(p, q) <=> (w - 1 \in Xor(p, q) /\ e \in generator[w]))
    BY <1>1, ShiftBits
  <2>3. /\ e - 1 \in Xor(p, q) <=> ~(e - 1 \in p <=> e - 1 \in q)
        /\ w - 1 \in Xor(p, q) <=> ~(w - 1 \in p <=> w - 1 \in q)
    BY XorBits
  <2>4. e \in Shift(w, p) <=>
             /\ e \in 0 .. w - 1
             /\ ~(e - 1 \in p <=> (w - 1 \in p /\ e \in generator[w]))
    BY ShiftBits
  <2>5. e \in Shift(w, q) <=>
             /\ e \in 0 .. w - 1
             /\ ~(e - 1 \in q <=> (w - 1 \in q /\ e \in generator[w]))
    BY ShiftBits
  <2> QED
    BY <2>1, <2>2, <2>3, <2>4, <2>5
<1>3. /\ Shift(w, Xor(p, q)) \in SUBSET Int
      /\ Xor(Shift(w, p), Shift(w, q)) \in SUBSET Int
  BY <1>1, ShiftBits, RegisterTypes
<1> QED
  BY <1>2, <1>3, SameBits

\* The eight rounds of the inner loop.
Rounds(w, c) ==
    {r \in [0 .. 8 -> Registers(w)] : r[0] = c /\ \A j \in 0 .. 7 : r[j + 1] = Shift(w, r[j])}

LEMMA EightRounds ==
    ASSUME NEW w \in Widths, NEW c \in Registers(w)
    PROVE  \E r \in Rounds(w, c) : Shift8(w, c) = r[8]
<1> DEFINE X == Registers(w)
           F == [j \in 1 .. 8 |-> [x \in X |-> Shift(w, x)]]
           G(g) == [j \in 0 .. 8 |-> IF j = 0 THEN c ELSE Shift(w, g[j - 1])]
           R == CHOOSE g : g = G(g)
<1>1. Shift8(w, c) = R[8]
  BY DEF Shift8
<1>2. \A x \in X : Shift(w, x) \in X
  BY ShiftBits
<1>3. PICK f \in [0 .. 8 -> X] : f[0] = c /\ \A j \in 1 .. 8 : f[j] = F[j][f[j - 1]]
  <2>1. F \in [1 .. 8 -> [X -> X]]
    BY <1>2
  <2>2. c \in X /\ 8 \in Nat
    OBVIOUS
  <2> HIDE DEF F, X
  <2>3. Steps(X, c, 8, F) # {}
    BY <2>1, <2>2, StepsExist
  <2>4. PICK f \in Steps(X, c, 8, F) : TRUE
    BY <2>3
  <2> QED
    BY <2>4 DEF Steps
<1> HIDE DEF X
<1>4. f = G(f)
  <2>1. ASSUME NEW j \in 0 .. 8 PROVE f[j] = G(f)[j]
    <3>1. CASE j = 0
      BY <1>3, <3>1
    <3>2. CASE j # 0
      <4>1. j \in 1 .. 8 /\ j - 1 \in 0 .. 8
        BY <3>2
      <4> QED
        BY <1>3, <3>2, <4>1
    <3> QED
      BY <3>1, <3>2
  <2> QED
    BY <1>3, <2>1
<1>5. R = G(R)
  <2> HIDE DEF G
  <2> QED
    BY <1>4
<1> HIDE DEF R
<1>6. R[0] = c
  BY <1>5
<1>7. \A j \in 0 .. 7 : R[j + 1] = Shift(w, R[j])
  <2>1. \A j \in 0 .. 7 : j + 1 \in 0 .. 8 /\ j + 1 # 0 /\ (j + 1) - 1 = j
    OBVIOUS
  <2> QED
    BY <1>5, <2>1
<1>8. \A j \in 0 .. 8 : R[j] \in X
  <2> DEFINE S == {j \in 0 .. 8 : R[j] \in X}
  <2>1. 0 \in S
    BY <1>6 DEF X
  <2>2. \A j \in 0 .. 8 - 1 : j \in S => j + 1 \in S
    BY <1>2, <1>7
  <2> HIDE DEF S
  <2>3. \A j \in 0 .. 8 : j \in S
    BY <2>1, <2>2, UpTo
  <2> QED
    BY <2>3 DEF S
<1>9. R \in Rounds(w, c)
  BY <1>5, <1>6, <1>7, <1>8 DEF Rounds, X
<1> QED
  BY <1>1, <1>9

LEMMA Shift8Type ==
    ASSUME NEW w \in Widths, NEW c \in Registers(w)
    PROVE  Shift8(w, c) \in Registers(w)
BY EightRounds DEF Rounds

LEMMA Shift8Linear ==
    ASSUME NEW w \in Widths, NEW p \in Registers(w), NEW q \in Registers(w)
    PROVE  Shift8(w, Xor(p, q)) = Xor(Shift8(w, p), Shift8(w, q))
<1>1. Xor(p, q) \in Registers(w)
  BY RegisterTypes
<1>2. PICK rp \in Rounds(w, p) : Shift8(w, p) = rp[8]
  BY EightRounds
<1>3. PICK rq \in Rounds(w, q) : Shift8(w, q) = rq[8]
  BY EightRounds
<1>4. PICK rx \in Rounds(w, Xor(p, q)) : Shift8(w, Xor(p, q)) = rx[8]
  BY <1>1, EightRounds
<1> DEFINE S == {j \in 0 .. 8 : rx[j] = Xor(rp[j], rq[j])}
<1>5. 0 \in S
  BY DEF Rounds
<1>6. ASSUME NEW j \in 0 .. 8 - 1, j \in S PROVE j + 1 \in S
  <2>1. rx[j] = Xor(rp[j], rq[j]) /\ rp[j] \in Registers(w) /\ rq[j] \in Registers(w)
    BY <1>6 DEF Rounds
  <2>2. /\ rx[j + 1] = Shift(w, rx[j]) /\ rp[j + 1] = Shift(w, rp[j]) /\ rq[j + 1] = Shift(w, rq[j])
    BY DEF Rounds
  <2> QED
    BY <2>1, <2>2, ShiftLinear
<1> HIDE DEF S
<1>7. 8 \in S
  <2>1. \A j \in 0 .. 8 : j \in S
    BY <1>5, <1>6, UpTo
  <2> QED
    BY <2>1
<1>8. rx[8] = Xor(rp[8], rq[8])
  BY <1>7 DEF S
<1> QED
  BY <1>2, <1>3, <1>4, <1>8

\* A lower byte comes to be the upper one undivided.
LEMMA Shift8Low ==
    ASSUME NEW p \in Octet
    PROVE  Shift8(16, p) = Left(16, p, 8)
<1>1. 16 \in Widths /\ p \in SUBSET Int /\ p \in Registers(16)
  BY DEF Widths, Octet, Registers
<1>2. PICK r \in Rounds(16, p) : Shift8(16, p) = r[8]
  BY <1>1, EightRounds
<1> DEFINE S == {j \in 0 .. 8 : r[j] = Left(16, p, j)}
<1>3. \A j \in Int : Left(16, p, j) \in Registers(16) /\ Left(16, p, j) \in SUBSET Int
  BY DEF Left, Registers
<1>4. 0 \in S
  <2>1. r[0] = p
    BY DEF Rounds
  <2>2. \A e \in Int : e \in p <=> e \in Left(16, p, 0)
    BY <1>1, LeftBits DEF Registers
  <2>3. p = Left(16, p, 0)
    BY <1>1, <1>3, <2>2, SameBits
  <2> QED
    BY <2>1, <2>3
<1>5. ASSUME NEW j \in 0 .. 8 - 1, j \in S PROVE j + 1 \in S
  <2> DEFINE c == Left(16, p, j)
  <2>1. c \in Registers(16) /\ Left(16, p, j + 1) \in SUBSET Int
    BY <1>3
  <2>2. r[j + 1] = Shift(16, c)
    BY <1>5 DEF Rounds
  <2>3. 15 \notin c
    <3>1. 15 \in c <=> 15 \in 0 .. 15 /\ 15 - j \in p
      BY <1>1, LeftBits
    <3> QED
      BY <3>1 DEF Octet
  <2>4. ASSUME NEW e \in Int PROVE e \in Shift(16, c) <=> e \in Left(16, p, j + 1)
    <3>1. e \in Shift(16, c) <=> e \in 0 .. 15 /\ e - 1 \in c
      BY <1>1, <2>1, <2>3, ShiftBits
    <3>2. e - 1 \in c <=> e - 1 \in 0 .. 15 /\ (e - 1) - j \in p
      BY <1>1, LeftBits
    <3>3. e \in Left(16, p, j + 1) <=> e \in 0 .. 15 /\ e - (j + 1) \in p
      BY <1>1, LeftBits
    <3>4. (e - 1) - j = e - (j + 1) /\ (e - (j + 1) \in p => e - 1 >= 0)
      BY DEF Octet
    <3> HIDE DEF c
    <3> QED
      BY <3>1, <3>2, <3>3, <3>4
  <2>5. Shift(16, c) \in SUBSET Int
    BY <1>1, <2>1, ShiftBits DEF Registers
  <2>6. Shift(16, c) = Left(16, p, j + 1)
    BY <2>1, <2>4, <2>5, SameBits
  <2> QED
    BY <2>2, <2>6
<1> HIDE DEF S
<1>6. 8 \in S
  <2>1. \A j \in 0 .. 8 : j \in S
    BY <1>4, <1>5, UpTo
  <2> QED
    BY <2>1
<1> QED
  BY <1>2, <1>6 DEF S

\* One byte: the table does at once what the eight rounds do.
LEMMA SimpleByteType ==
    ASSUME NEW w \in Widths, NEW crc \in Registers(w), NEW b
    PROVE  SimpleByte(w, crc, b) \in Registers(w)
BY RegisterTypes, Shift8Type DEF SimpleByte

LEMMA TableIsSimple ==
    ASSUME NEW w \in Widths, NEW crc \in Registers(w), NEW b \in Octet
    PROVE  LookupByte(w, crc, b) = SimpleByte(w, crc, b)
<1>1. \A i \in Octet : crc_table[w][i] = Shift8(w, Left(w, i, w - 8))
  BY DEF crc_table, Octet
<1>2. CASE w = 8
  <2>1. Xor(crc, b) \in Octet
    BY <1>2 DEF Xor, Registers, Octet
  <2>2. Left(8, Xor(crc, b), 0) = Xor(crc, b) /\ Left(8, b, 0) = b
    <3>1. ASSUME NEW p \in Octet PROVE Left(8, p, 0) = p
      <4>1. \A e \in p : e \in 0 .. 7 /\ e + 0 = e
        BY <3>1 DEF Octet
      <4>2. {e + 0 : e \in p} = p
        BY <4>1
      <4>3. p \intersect (0 .. 8 - 1) = p
        BY <4>1
      <4> QED
        BY <4>2, <4>3 DEF Left
    <3> QED
      BY <2>1, <3>1
  <2> QED
    BY <1>1, <1>2, <2>1, <2>2 DEF LookupByte, Lookup8, SimpleByte
<1>3. CASE w = 16
  <2> DEFINE low == LowByte(crc)
             x == Xor(Right(crc, 8), b)
  <2>1. /\ crc \in SUBSET Int /\ b \in SUBSET Int /\ \A e \in crc : e \in 0 .. 15
        /\ \A e \in b : e \in 0 .. 7
    BY <1>3 DEF Registers, Octet
  <2>2. low \in Octet /\ low \in Registers(16) /\ low \in SUBSET Int
    BY DEF LowByte, Octet, Registers
  <2>3. Right(crc, 8) \in Octet
    BY <2>1 DEF Right, Octet
  <2>4. x \in Octet /\ x \in SUBSET Int
    <3>1. \A e \in x : e \in Right(crc, 8) \/ e \in b
      BY XorBits
    <3>2. \A e \in x : e \in 0 .. 7
      BY <2>1, <2>3, <3>1 DEF Octet
    <3> QED
      BY <3>2 DEF Octet
  <2>5. Left(16, x, 8) \in Registers(16) /\ Left(16, b, 8) \in Registers(16)
    BY <1>3, RegisterTypes
  <2>6. Xor(crc, Left(16, b, 8)) = Xor(low, Left(16, x, 8))
    <3>1. ASSUME NEW e \in Int
          PROVE  e \in Xor(crc, Left(16, b, 8)) <=> e \in Xor(low, Left(16, x, 8))
      <4>1. e \in Xor(crc, Left(16, b, 8)) <=> ~(e \in crc <=> e \in Left(16, b, 8))
        BY XorBits
      <4>2. e \in Xor(low, Left(16, x, 8)) <=> ~(e \in low <=> e \in Left(16, x, 8))
        BY XorBits
      <4>3. e \in Left(16, b, 8) <=> e \in 0 .. 15 /\ e - 8 \in b
        BY <1>3, <2>1, LeftBits
      <4>4. e \in Left(16, x, 8) <=> e \in 0 .. 15 /\ e - 8 \in x
        BY <1>3, <2>4, LeftBits
      <4>5. e - 8 \in x <=> ~(e - 8 \in Right(crc, 8) <=> e - 8 \in b)
        BY XorBits
      <4>6. e - 8 \in Right(crc, 8) <=> e - 8 >= 0 /\ e \in crc
        <5>1. (e - 8) + 8 = e /\ e - 8 \in Int
          OBVIOUS
        <5> QED
          BY <2>1, <5>1, RightBits
      <4>7. e \in low <=> e \in crc /\ e \in 0 .. 7
        BY DEF LowByte
      <4>8. (e - 8 \in b => e >= 8) /\ (e \in crc => e \in 0 .. 15)
        BY <2>1
      <4> HIDE DEF low, x
      <4> QED
        BY <4>1, <4>2, <4>3, <4>4, <4>5, <4>6, <4>7, <4>8
    <3>2. Xor(crc, Left(16, b, 8)) \in SUBSET Int /\ Xor(low, Left(16, x, 8)) \in SUBSET Int
      BY <1>3, <2>2, <2>5, RegisterTypes
    <3> HIDE DEF low, x
    <3> QED
      BY <3>1, <3>2, SameBits
  <2>7. Left(16, crc, 8) = Left(16, low, 8)
    <3>1. ASSUME NEW e \in Int PROVE e \in Left(16, crc, 8) <=> e \in Left(16, low, 8)
      <4>1. e \in Left(16, crc, 8) <=> e \in 0 .. 15 /\ e - 8 \in crc
        BY <1>3, <2>1, LeftBits
      <4>2. e \in Left(16, low, 8) <=> e \in 0 .. 15 /\ e - 8 \in low
        BY <1>3, <2>2, LeftBits
      <4>3. e - 8 \in low <=> e - 8 \in crc /\ e - 8 \in 0 .. 7
        BY DEF LowByte
      <4> QED
        BY <2>1, <4>1, <4>2, <4>3
    <3>2. Left(16, crc, 8) \in SUBSET Int /\ Left(16, low, 8) \in SUBSET Int
      BY DEF Left
    <3> QED
      BY <3>1, <3>2, SameBits
  <2> HIDE DEF low, x
  <2>8. SimpleByte(16, crc, b) = Xor(Shift8(16, low), Shift8(16, Left(16, x, 8)))
    BY <1>3, <2>2, <2>5, <2>6, Shift8Linear DEF SimpleByte
  <2>9. Shift8(16, low) = Left(16, crc, 8)
    BY <2>2, <2>7, Shift8Low
  <2>10. Shift8(16, Left(16, x, 8)) = crc_table[16][x]
    BY <1>1, <1>3, <2>4
  <2>11. LookupByte(16, crc, b) = Xor(Left(16, crc, 8), crc_table[16][x])
    BY DEF LookupByte, Lookup16, x
  <2> QED
    BY <1>3, <2>8, <2>9, <2>10, <2>11
<1> QED
  BY <1>2, <1>3 DEF Widths

-----------------------------------------------------------------------------
(* The division.                                                           *)

LEMMA PolynomialType ==
    ASSUME NEW d \in Seq(Octet)
    PROVE  Polynomial(d) \in SUBSET Nat /\ Polynomial(d) \in SUBSET Int
<1>1. ASSUME NEW i \in DOMAIN d
      PROVE  {8 * (Len(d) - i) + e : e \in d[i]} \in SUBSET Nat
  <2>1. Len(d) - i \in Nat /\ d[i] \in SUBSET Nat
    BY DEF Octet
  <2> QED
    BY <2>1
<1>2. Polynomial(d) \in SUBSET Nat
  BY <1>1 DEF Polynomial
<1> QED
  BY <1>2

LEMMA EliminateBits ==
    ASSUME NEW w \in Widths, NEW p \in SUBSET Int, NEW top \in Int
    PROVE  /\ Eliminate(w, p, top) \in SUBSET Int
           /\ \A e \in Int : e \in Eliminate(w, p, top) <=>
                 ~(e \in p <=> (top \in p /\ e - (top - w) \in {w} \union generator[w]))
<1> DEFINE g == {w} \union generator[w]
           q == {top - w + x : x \in g}
<1>1. w \in Int /\ g \in SUBSET Int
  BY RegisterTypes DEF Registers
<1> HIDE DEF g
<1>2. q \in SUBSET Int
  BY <1>1
<1>3. ASSUME NEW e \in Int PROVE e \in q <=> e - (top - w) \in g
  <2>1. \A x \in g : e = top - w + x <=> x = e - (top - w)
    BY <1>1
  <2> QED
    BY <2>1
<1>4. Eliminate(w, p, top) = IF top \in p THEN Xor(p, q) ELSE p
  BY DEF Eliminate, g
<1> HIDE DEF q
<1>5. Eliminate(w, p, top) \in SUBSET Int
  BY <1>2, <1>4 DEF Xor
<1>6. ASSUME NEW e \in Int
      PROVE  e \in Eliminate(w, p, top) <=> ~(e \in p <=> (top \in p /\ e - (top - w) \in g))
  BY <1>3, <1>4, XorBits
<1> QED
  BY <1>5, <1>6 DEF g

\* The terms of the dividend, eliminated from the top.
Divisions(w, d) ==
    {r \in [0 .. 8 * Len(d) -> SUBSET Int] :
        /\ r[0] = Up(Polynomial(d), w)
        /\ \A k \in 0 .. 8 * Len(d) - 1 : r[k + 1] = Eliminate(w, r[k], 8 * Len(d) + w - (k + 1))}

LEMMA DivisionEnds ==
    ASSUME NEW w \in Widths, NEW d \in Seq(Octet)
    PROVE  \E r \in Divisions(w, d) : Remainder(w, d) = r[8 * Len(d)]
<1> DEFINE X == SUBSET Int
           N == 8 * Len(d)
           c == Up(Polynomial(d), w)
           F == [j \in 1 .. N |-> [x \in X |-> Eliminate(w, x, N + w - j)]]
           G(g) == [k \in 0 .. N |-> IF k = 0 THEN {e + w : e \in Polynomial(d)}
                                     ELSE Eliminate(w, g[k - 1], N + w - k)]
           R == CHOOSE g : g = G(g)
<1>1. Remainder(w, d) = R[N]
  BY DEF Remainder
<1>2. N \in Nat /\ w \in Int /\ c \in X
  BY RegisterTypes, PolynomialType, UpIntegers
<1>3. \A x \in X : \A j \in Int : Eliminate(w, x, N + w - j) \in X
  BY <1>2, EliminateBits
<1> HIDE DEF N, X, c
<1>4. PICK f \in [0 .. N -> X] : f[0] = c /\ \A j \in 1 .. N : f[j] = F[j][f[j - 1]]
  <2>1. F \in [1 .. N -> [X -> X]]
    <3>1. \A j \in 1 .. N : j \in Int
      BY <1>2
    <3>2. \A j \in 1 .. N : [x \in X |-> Eliminate(w, x, N + w - j)] \in [X -> X]
      BY <1>3, <3>1
    <3> QED
      BY <3>2
  <2> HIDE DEF F, G, R
  <2>3. c \in X
    BY <1>2
  <2>2. Steps(X, c, N, F) # {}
    BY <1>2, <2>1, StepsExist
  <2>4. PICK f \in Steps(X, c, N, F) : TRUE
    BY <2>2
  <2> QED
    BY <2>4 DEF Steps
<1>5. f = G(f)
  <2>1. ASSUME NEW j \in 0 .. N PROVE f[j] = G(f)[j]
    <3>1. CASE j = 0
      BY <1>4, <3>1 DEF Up, c
    <3>2. CASE j # 0
      <4>1. j \in 1 .. N /\ j - 1 \in 0 .. N
        BY <1>2, <3>2
      <4> QED
        BY <1>4, <3>2, <4>1
    <3> QED
      BY <3>1, <3>2
  <2> QED
    BY <1>4, <2>1
<1>6. R = G(R)
  <2> HIDE DEF G
  <2> QED
    BY <1>5
<1> HIDE DEF R
<1>7. R[0] = c
  BY <1>2, <1>6 DEF Up, c
<1>8. \A j \in 0 .. N - 1 : R[j + 1] = Eliminate(w, R[j], N + w - (j + 1))
  <2>1. \A j \in 0 .. N - 1 : j + 1 \in 0 .. N /\ j + 1 # 0 /\ (j + 1) - 1 = j
    BY <1>2
  <2> QED
    BY <1>6, <2>1
<1>9. \A j \in 0 .. N : R[j] \in X
  <2> DEFINE S == {j \in 0 .. N : R[j] \in X}
  <2>1. 0 \in S
    BY <1>2, <1>7
  <2>2. ASSUME NEW j \in 0 .. N - 1, j \in S PROVE j + 1 \in S
    <3>1. R[j] \in X /\ j + 1 \in Int /\ j + 1 \in 0 .. N
      BY <1>2, <2>2
    <3>2. R[j + 1] = Eliminate(w, R[j], N + w - (j + 1))
      BY <1>8
    <3> QED
      BY <1>3, <3>1, <3>2
  <2> HIDE DEF S
  <2>3. \A j \in 0 .. N : j \in S
    BY <1>2, <2>1, <2>2, UpTo
  <2> QED
    BY <2>3 DEF S
<1>10. R \in Divisions(w, d)
  BY <1>6, <1>7, <1>8, <1>9 DEF Divisions, X, N, c
<1> QED
  BY <1>1, <1>10 DEF N

\* Data with a byte more: its polynomial is that of the data moved up, and the byte.
LEMMA PolynomialGrows ==
    ASSUME NEW d \in Seq(Octet), NEW b \in Octet
    PROVE  \A e \in Int : e \in Polynomial(Append(d, b)) <=> e - 8 \in Polynomial(d) \/ e \in b
<1> DEFINE n == Len(d)
           x == Append(d, b)
<1>1. /\ n \in Nat /\ Len(x) = n + 1 /\ DOMAIN d = 1 .. n /\ DOMAIN x = 1 .. n + 1
      /\ \A i \in 1 .. n : x[i] = d[i]
      /\ x[n + 1] = b /\ b \in SUBSET Int
  BY DEF Octet
<1>2. \A i \in 1 .. n : d[i] \in SUBSET Int
  BY DEF Octet
<1> HIDE DEF n, x
<1>3. ASSUME NEW e \in Int
      PROVE  e \in Polynomial(x) <=> \E i \in 1 .. n + 1 : e - 8 * (n + 1 - i) \in x[i]
  <2>1. e \in Polynomial(x) <=> \E i \in 1 .. n + 1 : e \in {8 * (n + 1 - i) + y : y \in x[i]}
    <3>1. Polynomial(x) = UNION {{8 * (n + 1 - i) + y : y \in x[i]} : i \in 1 .. n + 1}
      BY <1>1 DEF Polynomial
    <3> QED
      BY <3>1, Zenon
  <2>2. ASSUME NEW i \in 1 .. n + 1
        PROVE  e \in {8 * (n + 1 - i) + y : y \in x[i]} <=> e - 8 * (n + 1 - i) \in x[i]
    <3>1. x[i] \in SUBSET Int
      <4>1. i \in 1 .. n \/ i = n + 1
        BY <1>1
      <4> QED
        BY <1>1, <1>2, <4>1, Zenon
    <3>2. \A y \in x[i] : e = 8 * (n + 1 - i) + y <=> y = e - 8 * (n + 1 - i)
      BY <1>1, <3>1
    <3> QED
      BY <3>2
  <2> QED
    BY <2>1, <2>2
<1>4. ASSUME NEW e \in Int
      PROVE  e - 8 \in Polynomial(d) <=> \E i \in 1 .. n : (e - 8) - 8 * (n - i) \in d[i]
  <2>1. e - 8 \in Polynomial(d) <=> \E i \in 1 .. n : e - 8 \in {8 * (n - i) + y : y \in d[i]}
    BY <1>1 DEF Polynomial, n
  <2>2. ASSUME NEW i \in 1 .. n
        PROVE  e - 8 \in {8 * (n - i) + y : y \in d[i]} <=> (e - 8) - 8 * (n - i) \in d[i]
    <3>1. d[i] \in SUBSET Int
      BY <1>2
    <3>2. \A y \in d[i] : e - 8 = 8 * (n - i) + y <=> y = (e - 8) - 8 * (n - i)
      BY <1>1, <3>1
    <3> QED
      BY <3>2
  <2> QED
    BY <2>1, <2>2
<1>5. ASSUME NEW e \in Int
      PROVE  e \in Polynomial(x) <=> e - 8 \in Polynomial(d) \/ e \in b
  <2>1. \A i \in 1 .. n : (e - 8) - 8 * (n - i) = e - 8 * (n + 1 - i) /\ x[i] = d[i]
    BY <1>1
  <2>2. e - 8 * (n + 1 - (n + 1)) = e
    BY <1>1
  <2>3. 1 .. n + 1 = 1 .. n \union {n + 1}
    BY <1>1
  <2>4. (\E i \in 1 .. n + 1 : e - 8 * (n + 1 - i) \in x[i])
           <=> (\E i \in 1 .. n : e - 8 * (n + 1 - i) \in x[i]) \/ e \in b
    BY <1>1, <2>2, <2>3
  <2>5. (\E i \in 1 .. n : e - 8 * (n + 1 - i) \in x[i])
           <=> (\E i \in 1 .. n : (e - 8) - 8 * (n - i) \in d[i])
    BY <2>1
  <2> QED
    BY <1>3, <1>4, <2>4, <2>5
<1> QED
  BY <1>5 DEF x

\* What has been moved up, with a byte below.
LEMMA WithByteBits ==
    ASSUME NEW w \in Widths, NEW p \in SUBSET Int, NEW b \in Octet
    PROVE  /\ Xor(Up(p, 8), Up(b, w)) \in SUBSET Int
           /\ \A e \in Int : e \in Xor(Up(p, 8), Up(b, w)) <=> ~(e - 8 \in p <=> e - w \in b)
<1>1. w \in Int /\ b \in SUBSET Int
  BY RegisterTypes DEF Octet
<1>2. Up(p, 8) \in SUBSET Int /\ Up(b, w) \in SUBSET Int
  BY <1>1, UpIntegers
<1>3. \A S, T \in SUBSET Int : Xor(S, T) \in SUBSET Int
  BY DEF Xor
<1>4. ASSUME NEW e \in Int
      PROVE  e \in Xor(Up(p, 8), Up(b, w)) <=> ~(e - 8 \in p <=> e - w \in b)
  <2>1. e \in Up(p, 8) <=> e - 8 \in p
    BY UpBits
  <2>2. e \in Up(b, w) <=> e - w \in b
    BY <1>1, UpBits
  <2> QED
    BY <2>1, <2>2, XorBits
<1> QED
  BY <1>2, <1>3, <1>4

\* A term above the byte is eliminated as if the byte were not there.
LEMMA EliminateAbove ==
    ASSUME NEW w \in Widths, NEW p \in SUBSET Int, NEW b \in Octet, NEW t \in Int, t >= w
    PROVE  Eliminate(w, Xor(Up(p, 8), Up(b, w)), t + 8) = Xor(Up(Eliminate(w, p, t), 8), Up(b, w))
<1> DEFINE q == Xor(Up(p, 8), Up(b, w))
           p2 == Eliminate(w, p, t)
           g == {w} \union generator[w]
<1>1. /\ w \in Int /\ w >= 8 /\ \A x \in Int : x \in b => x < 8
  BY RegisterTypes DEF Octet
<1>2. q \in SUBSET Int /\ \A e \in Int : e \in q <=> ~(e - 8 \in p <=> e - w \in b)
  BY WithByteBits
<1>3. p2 \in SUBSET Int /\ \A e \in Int : e \in p2 <=> ~(e \in p <=> (t \in p /\ e - (t - w) \in g))
  BY EliminateBits
<1> HIDE DEF q, p2, g
<1>4. /\ Xor(Up(p2, 8), Up(b, w)) \in SUBSET Int
      /\ \A e \in Int : e \in Xor(Up(p2, 8), Up(b, w)) <=> ~(e - 8 \in p2 <=> e - w \in b)
  BY <1>3, WithByteBits
<1>5. /\ Eliminate(w, q, t + 8) \in SUBSET Int
      /\ \A e \in Int : e \in Eliminate(w, q, t + 8) <=>
            ~(e \in q <=> (t + 8 \in q /\ e - ((t + 8) - w) \in g))
  BY <1>2, EliminateBits DEF g
<1>6. t + 8 \in q <=> t \in p
  <2>1. (t + 8) - 8 = t /\ (t + 8) - w \notin b /\ t + 8 \in Int
    BY <1>1
  <2> QED
    BY <1>2, <2>1
<1>7. ASSUME NEW e \in Int
      PROVE  e \in Eliminate(w, q, t + 8) <=> e \in Xor(Up(p2, 8), Up(b, w))
  <2>1. (e - 8) - (t - w) = e - ((t + 8) - w) /\ e - 8 \in Int
    BY <1>1
  <2>2. e - 8 \in p2 <=> ~(e - 8 \in p <=> (t \in p /\ e - ((t + 8) - w) \in g))
    BY <1>3, <2>1
  <2>3. e \in q <=> ~(e - 8 \in p <=> e - w \in b)
    BY <1>2
  <2>4. e \in Eliminate(w, q, t + 8) <=> ~(e \in q <=> (t + 8 \in q /\ e - ((t + 8) - w) \in g))
    BY <1>5
  <2>5. e \in Xor(Up(p2, 8), Up(b, w)) <=> ~(e - 8 \in p2 <=> e - w \in b)
    BY <1>4
  <2> QED
    BY <1>6, <2>2, <2>3, <2>4, <2>5
<1>8. Eliminate(w, q, t + 8) = Xor(Up(p2, 8), Up(b, w))
  BY <1>4, <1>5, <1>7, SameBits
<1> QED
  BY <1>8 DEF q, p2

\* A term in the byte is eliminated by a round, which moves the register up.
LEMMA EliminateInByte ==
    ASSUME NEW w \in Widths, NEW s \in Registers(w), NEW n \in Int
    PROVE  Eliminate(w, Up(s, n + 1), w + n) = Up(Shift(w, s), n)
<1> DEFINE q == Up(s, n + 1)
           g == {w} \union generator[w]
<1>1. w \in Int /\ w >= 8 /\ s \in SUBSET Int /\ w + n \in Int
  BY RegisterTypes
<1>2. q \in SUBSET Int /\ \A e \in Int : e \in q <=> e - (n + 1) \in s
  BY <1>1, UpIntegers, UpBits
<1> HIDE DEF q, g
<1>3. /\ Eliminate(w, q, w + n) \in SUBSET Int
      /\ \A e \in Int : e \in Eliminate(w, q, w + n) <=>
            ~(e \in q <=> (w + n \in q /\ e - ((w + n) - w) \in g))
  BY <1>1, <1>2, EliminateBits DEF g
<1>4. /\ Shift(w, s) \in SUBSET Int
      /\ \A e \in Int : e \in Shift(w, s) <=>
             /\ e \in 0 .. w - 1
             /\ ~(e - 1 \in s <=> (w - 1 \in s /\ e \in generator[w]))
  BY ShiftBits, RegisterTypes
<1>5. Up(Shift(w, s), n) \in SUBSET Int /\ \A e \in Int : e \in Up(Shift(w, s), n) <=> e - n \in Shift(w, s)
  BY <1>4, UpIntegers, UpBits
<1>6. w + n \in q <=> w - 1 \in s
  <2>1. (w + n) - (n + 1) = w - 1
    BY <1>1
  <2> QED
    BY <1>1, <1>2, <2>1
<1>7. ASSUME NEW e \in Int PROVE e \in Eliminate(w, q, w + n) <=> e \in Up(Shift(w, s), n)
  <2> DEFINE y == e - n
  <2>1. y \in Int /\ e - ((w + n) - w) = y /\ e - (n + 1) = y - 1
    BY <1>1
  <2>2. e \in Eliminate(w, q, w + n) <=> ~(y - 1 \in s <=> (w - 1 \in s /\ y \in g))
    <3>1. e \in q <=> y - 1 \in s
      BY <1>2, <2>1
    <3>2. e \in Eliminate(w, q, w + n) <=> ~(e \in q <=> (w + n \in q /\ y \in g))
      BY <1>3, <2>1
    <3> QED
      BY <1>6, <3>1, <3>2
  <2>3. e \in Up(Shift(w, s), n) <=> y \in Shift(w, s)
    BY <1>5
  <2> HIDE DEF y
  <2>4. y \in Shift(w, s) <=> /\ y \in 0 .. w - 1
                              /\ ~(y - 1 \in s <=> (w - 1 \in s /\ y \in generator[w]))
    BY <1>4, <2>1
  <2>5. (y \in generator[w] => y \in 0 .. w - 1) /\ (y - 1 \in s => y - 1 \in 0 .. w - 1)
    BY RegisterTypes DEF Registers
  <2>6. y \in g <=> y = w \/ y \in generator[w]
    BY DEF g
  <2>7. CASE y = w
    <3>1. y \notin 0 .. w - 1
      BY <1>1, <2>7
    <3> QED
      BY <2>2, <2>3, <2>4, <2>6, <2>7, <3>1
  <2>8. CASE y \in 0 .. w - 1
    <3>1. y # w
      BY <1>1, <2>8
    <3> QED
      BY <2>2, <2>3, <2>4, <2>6, <2>8, <3>1
  <2>9. CASE y # w /\ y \notin 0 .. w - 1
    <3>1. y - 1 \notin 0 .. w - 1
      BY <1>1, <2>1, <2>9
    <3> QED
      BY <2>2, <2>3, <2>4, <2>5, <2>6, <2>9, <3>1
  <2> QED
    BY <2>7, <2>8, <2>9
<1>8. Eliminate(w, q, w + n) = Up(Shift(w, s), n)
  BY <1>3, <1>5, <1>7, SameBits
<1> QED
  BY <1>8 DEF q

\* Until the division comes to the byte that is more, it is that of the data
\* without it, moved up; then it does what the eight rounds do.
LEMMA OneByteMore ==
    ASSUME NEW w \in Widths, NEW d \in Seq(Octet), NEW b \in Octet,
           Remainder(w, d) \in Registers(w)
    PROVE  Remainder(w, Append(d, b)) = SimpleByte(w, Remainder(w, d), b)
<1> DEFINE n == 8 * Len(d)
           x == Append(d, b)
<1>1. /\ n \in Nat /\ x \in Seq(Octet) /\ 8 * Len(x) = n + 8 /\ w \in Int /\ w >= 8
      /\ b \in SUBSET Int /\ \A e \in b : e >= 0 /\ e < 8
  BY RegisterTypes DEF Octet
<1>2. PICK rd \in Divisions(w, d) : Remainder(w, d) = rd[n]
  BY DivisionEnds
<1>3. PICK rx \in Divisions(w, x) : Remainder(w, x) = rx[n + 8]
  BY <1>1, DivisionEnds
<1>4. /\ \A k \in 0 .. n : rd[k] \in SUBSET Int
      /\ rd[0] = Up(Polynomial(d), w)
      /\ \A k \in 0 .. n - 1 : rd[k + 1] = Eliminate(w, rd[k], n + w - (k + 1))
  BY DEF Divisions
<1>5. /\ rx[0] = Up(Polynomial(x), w)
      /\ \A k \in 0 .. n + 7 : rx[k + 1] = Eliminate(w, rx[k], n + 8 + w - (k + 1))
  <2>1. (n + 8) - 1 = n + 7
    BY <1>1
  <2> HIDE DEF n, x
  <2> QED
    BY <1>1, <2>1 DEF Divisions
<1>6. Polynomial(d) \in SUBSET Nat /\ Polynomial(d) \in SUBSET Int /\ Polynomial(x) \in SUBSET Int
  BY <1>1, PolynomialType
<1>7. \A e \in Int : e \in Polynomial(x) <=> e - 8 \in Polynomial(d) \/ e \in b
  BY PolynomialGrows
<1> HIDE DEF n, x
<1> DEFINE S == {k \in 0 .. n : rx[k] = Xor(Up(rd[k], 8), Up(b, w))}
<1>8. 0 \in S
  <2> DEFINE p == Up(Polynomial(d), w)
             q == Up(Polynomial(x), w)
  <2>1. /\ p \in SUBSET Int /\ \A e \in Int : e \in p <=> e - w \in Polynomial(d)
        /\ q \in SUBSET Int /\ \A e \in Int : e \in q <=> e - w \in Polynomial(x)
    BY <1>1, <1>6, UpIntegers, UpBits
  <2>2. rd[0] = p /\ rx[0] = q
    BY <1>4, <1>5
  <2> HIDE DEF p, q
  <2>3. /\ Xor(Up(p, 8), Up(b, w)) \in SUBSET Int
        /\ \A e \in Int : e \in Xor(Up(p, 8), Up(b, w)) <=> ~(e - 8 \in p <=> e - w \in b)
    BY <2>1, WithByteBits
  <2>4. ASSUME NEW e \in Int PROVE e \in q <=> e \in Xor(Up(p, 8), Up(b, w))
    <3>1. e - w \in Int /\ e - 8 \in Int /\ (e - 8) - w = (e - w) - 8
      BY <1>1
    <3>2. e \in q <=> (e - w) - 8 \in Polynomial(d) \/ e - w \in b
      BY <1>7, <2>1, <3>1
    <3>3. e - 8 \in p <=> (e - w) - 8 \in Polynomial(d)
      BY <2>1, <3>1
    <3>4. (e - w) - 8 \in Polynomial(d) => e - w \notin b
      BY <1>1, <1>6, <3>1
    <3> QED
      BY <2>3, <3>2, <3>3, <3>4
  <2>5. q = Xor(Up(p, 8), Up(b, w))
    BY <2>1, <2>3, <2>4, SameBits
  <2> QED
    BY <1>1, <2>2, <2>5
<1>9. ASSUME NEW k \in 0 .. n - 1, k \in S PROVE k + 1 \in S
  <2> DEFINE t == n + w - (k + 1)
  <2>1. /\ t \in Int /\ t >= w /\ n + 8 + w - (k + 1) = t + 8 /\ k \in 0 .. n + 7
        /\ k \in 0 .. n /\ k + 1 \in 0 .. n
    BY <1>1
  <2>2. rd[k] \in SUBSET Int /\ rd[k + 1] = Eliminate(w, rd[k], t)
    BY <1>4, <2>1
  <2>3. rx[k + 1] = Eliminate(w, rx[k], t + 8) /\ rx[k] = Xor(Up(rd[k], 8), Up(b, w))
    BY <1>5, <1>9, <2>1
  <2> HIDE DEF t
  <2>4. rx[k + 1] = Xor(Up(rd[k + 1], 8), Up(b, w))
    BY <2>1, <2>2, <2>3, EliminateAbove
  <2> QED
    BY <2>1, <2>4
<1>10. rx[n] = Xor(Up(Remainder(w, d), 8), Up(b, w))
  <2> HIDE DEF S
  <2>1. \A k \in 0 .. n : k \in S
    BY <1>1, <1>8, <1>9, UpTo
  <2>2. n \in S
    BY <1>1, <2>1
  <2> QED
    BY <1>2, <2>2 DEF S
<1> DEFINE c == Xor(Remainder(w, d), Left(w, b, w - 8))
<1>11. c \in Registers(w) /\ c \in SUBSET Int
  BY RegisterTypes
<1>12. PICK s \in Rounds(w, c) : Shift8(w, c) = s[8]
  BY <1>11, EightRounds
<1>13. /\ s[0] = c /\ \A j \in 0 .. 7 : s[j + 1] = Shift(w, s[j])
       /\ \A j \in 0 .. 8 : s[j] \in Registers(w)
  BY DEF Rounds
<1> DEFINE T == {j \in 0 .. 8 : rx[n + j] = Up(s[j], 8 - j)}
<1>14. 0 \in T
  <2> DEFINE q == Xor(Up(Remainder(w, d), 8), Up(b, w))
  <2>1. Remainder(w, d) \in SUBSET Int
    BY RegisterTypes
  <2>2. q \in SUBSET Int /\ \A e \in Int : e \in q <=> ~(e - 8 \in Remainder(w, d) <=> e - w \in b)
    BY <2>1, WithByteBits
  <2>3. Up(c, 8) \in SUBSET Int /\ \A e \in Int : e \in Up(c, 8) <=> e - 8 \in c
    BY <1>11, UpIntegers, UpBits
  <2> HIDE DEF q
  <2>4. ASSUME NEW e \in Int PROVE e \in q <=> e \in Up(c, 8)
    <3>1. e - 8 \in c <=> ~(e - 8 \in Remainder(w, d) <=> e - 8 \in Left(w, b, w - 8))
      BY XorBits
    <3>2. e - 8 \in Left(w, b, w - 8) <=> e - 8 \in 0 .. w - 1 /\ (e - 8) - (w - 8) \in b
      BY <1>1, LeftBits
    <3>3. (e - 8) - (w - 8) = e - w /\ (e - w \in b => e - 8 \in 0 .. w - 1)
      BY <1>1
    <3>4. e - 8 \in Left(w, b, w - 8) <=> e - w \in b
      BY <3>2, <3>3
    <3> HIDE DEF c
    <3> QED
      BY <2>2, <2>3, <3>1, <3>4
  <2>5. q = Up(c, 8)
    BY <2>2, <2>3, <2>4, SameBits
  <2>6. rx[n] = Up(c, 8)
    BY <1>10, <2>5 DEF q
  <2> HIDE DEF c
  <2>7. n + 0 = n /\ 8 - 0 = 8
    BY <1>1
  <2> QED
    BY <1>13, <2>6, <2>7
<1> HIDE DEF c
<1>15. ASSUME NEW j \in 0 .. 8 - 1, j \in T PROVE j + 1 \in T
  <2>1. /\ n + j \in 0 .. n + 7 /\ n + (j + 1) = (n + j) + 1 /\ n + 8 + w - ((n + j) + 1) = w + (7 - j)
        /\ j \in 0 .. 7 /\ j \in 0 .. 8 /\ j + 1 \in 0 .. 8 /\ 7 - j \in Int
        /\ 8 - j = (7 - j) + 1 /\ 8 - (j + 1) = 7 - j
    BY <1>1
  <2>2. rx[n + (j + 1)] = Eliminate(w, rx[n + j], w + (7 - j))
    BY <1>5, <2>1
  <2>3. rx[n + j] = Up(s[j], (7 - j) + 1)
    BY <1>15, <2>1
  <2>4. s[j] \in Registers(w) /\ s[j + 1] = Shift(w, s[j])
    BY <1>13, <2>1
  <2>5. rx[n + (j + 1)] = Up(s[j + 1], 7 - j)
    BY <2>1, <2>2, <2>3, <2>4, EliminateInByte
  <2> QED
    BY <2>1, <2>5
<1>16. rx[n + 8] = Up(s[8], 0)
  <2> HIDE DEF T
  <2>1. \A j \in 0 .. 8 : j \in T
    BY <1>14, <1>15, UpTo
  <2>2. 8 \in T
    BY <2>1
  <2> QED
    BY <2>2 DEF T
<1>17. Up(s[8], 0) = s[8]
  <2>1. s[8] \in SUBSET Int
    BY <1>13, RegisterTypes
  <2> QED
    BY <2>1, UpByNone
<1> QED
  BY <1>3, <1>12, <1>16, <1>17 DEF SimpleByte, c, x

-----------------------------------------------------------------------------
(* All data.                                                               *)

\* The register after each byte.
ByteByByte(w, d) ==
    {r \in [0 .. Len(d) -> Registers(w)] :
        r[0] = {} /\ \A i \in 0 .. Len(d) - 1 : r[i + 1] = SimpleByte(w, r[i], d[i + 1])}

LEMMA SimpleEnds ==
    ASSUME NEW w \in Widths, NEW d \in Seq(Octet)
    PROVE  \E r \in ByteByByte(w, d) : simple(w, d) = r[Len(d)]
<1> DEFINE X == Registers(w)
           N == Len(d)
           c == {}
           F == [i \in 1 .. N |-> [x \in X |-> SimpleByte(w, x, d[i])]]
           G(g) == [i \in 0 .. N |-> IF i = 0 THEN {} ELSE SimpleByte(w, g[i - 1], d[i])]
           R == CHOOSE g : g = G(g)
<1>1. simple(w, d) = R[N]
  BY DEF simple
<1>2. N \in Nat /\ c \in X /\ \A i \in 1 .. N : d[i] \in Octet
  BY DEF Registers
<1>3. \A x \in X : \A i \in 1 .. N : SimpleByte(w, x, d[i]) = SimpleByte(w, x, d[i])
  OBVIOUS
<1>4. \A x \in X : \A i \in 1 .. N : SimpleByte(w, x, d[i]) \in X
  BY SimpleByteType
<1> HIDE DEF N, X, c
<1>5. PICK f \in [0 .. N -> X] : f[0] = c /\ \A j \in 1 .. N : f[j] = F[j][f[j - 1]]
  <2>1. F \in [1 .. N -> [X -> X]]
    BY <1>4
  <2> HIDE DEF F, G, R
  <2>2. c \in X
    BY <1>2
  <2>3. Steps(X, c, N, F) # {}
    BY <1>2, <2>1, StepsExist
  <2>4. PICK f \in Steps(X, c, N, F) : TRUE
    BY <2>3
  <2> QED
    BY <2>4 DEF Steps
<1>6. f = G(f)
  <2>1. ASSUME NEW j \in 0 .. N PROVE f[j] = G(f)[j]
    <3>1. CASE j = 0
      BY <1>5, <3>1 DEF c
    <3>2. CASE j # 0
      <4>1. j \in 1 .. N /\ j - 1 \in 0 .. N /\ f[j - 1] \in X
        BY <1>2, <3>2
      <4>2. F[j][f[j - 1]] = SimpleByte(w, f[j - 1], d[j])
        BY <1>3, <4>1
      <4> QED
        BY <1>5, <3>2, <4>1, <4>2
    <3> QED
      BY <3>1, <3>2
  <2> QED
    BY <1>5, <2>1
<1>7. R = G(R)
  <2> HIDE DEF G
  <2> QED
    BY <1>6
<1> HIDE DEF R
<1>8. R[0] = {}
  BY <1>2, <1>7
<1>9. \A j \in 0 .. N - 1 : R[j + 1] = SimpleByte(w, R[j], d[j + 1]) /\ j + 1 \in 1 .. N /\ j \in 0 .. N
  <2>1. \A j \in 0 .. N - 1 : j + 1 \in 0 .. N /\ j + 1 # 0 /\ (j + 1) - 1 = j /\ j + 1 \in 1 .. N /\ j \in 0 .. N
    BY <1>2
  <2> QED
    BY <1>7, <2>1
<1>10. \A j \in 0 .. N : R[j] \in X
  <2> DEFINE S == {j \in 0 .. N : R[j] \in X}
  <2>1. 0 \in S
    BY <1>2, <1>8 DEF c
  <2>2. ASSUME NEW j \in 0 .. N - 1, j \in S PROVE j + 1 \in S
    <3>1. R[j] \in X /\ j + 1 \in 1 .. N
      BY <1>9, <2>2
    <3>2. R[j + 1] \in X
      BY <1>3, <1>4, <1>9, <3>1
    <3> QED
      BY <3>1, <3>2
  <2> HIDE DEF S
  <2>3. \A j \in 0 .. N : j \in S
    BY <1>2, <2>1, <2>2, UpTo
  <2> QED
    BY <2>3 DEF S
<1>11. \A j \in 0 .. N - 1 : R[j + 1] = SimpleByte(w, R[j], d[j + 1])
  BY <1>3, <1>9, <1>10
<1>12. R \in ByteByByte(w, d)
  <2>1. R \in [0 .. N -> X]
    BY <1>7, <1>10
  <2> QED
    BY <1>8, <1>11, <2>1 DEF ByteByByte, X, N
<1> QED
  BY <1>1, <1>12 DEF N

LEMMA LookupEnds ==
    ASSUME NEW w \in Widths, NEW d \in Seq(Octet)
    PROVE  \E r \in ByteByByte(w, d) : lookuptable(w, d) = r[Len(d)]
<1> DEFINE X == Registers(w)
           N == Len(d)
           c == {}
           F == [i \in 1 .. N |-> [x \in X |-> SimpleByte(w, x, d[i])]]
           G(g) == [i \in 0 .. N |-> IF i = 0 THEN {} ELSE LookupByte(w, g[i - 1], d[i])]
           R == CHOOSE g : g = G(g)
<1>1. lookuptable(w, d) = R[N]
  BY DEF lookuptable
<1>2. N \in Nat /\ c \in X /\ \A i \in 1 .. N : d[i] \in Octet
  BY DEF Registers
<1>3. \A x \in X : \A i \in 1 .. N : LookupByte(w, x, d[i]) = SimpleByte(w, x, d[i])
  BY <1>2, TableIsSimple
<1>4. \A x \in X : \A i \in 1 .. N : SimpleByte(w, x, d[i]) \in X
  BY SimpleByteType
<1> HIDE DEF N, X, c
<1>5. PICK f \in [0 .. N -> X] : f[0] = c /\ \A j \in 1 .. N : f[j] = F[j][f[j - 1]]
  <2>1. F \in [1 .. N -> [X -> X]]
    BY <1>4
  <2> HIDE DEF F, G, R
  <2>2. c \in X
    BY <1>2
  <2>3. Steps(X, c, N, F) # {}
    BY <1>2, <2>1, StepsExist
  <2>4. PICK f \in Steps(X, c, N, F) : TRUE
    BY <2>3
  <2> QED
    BY <2>4 DEF Steps
<1>6. f = G(f)
  <2>1. ASSUME NEW j \in 0 .. N PROVE f[j] = G(f)[j]
    <3>1. CASE j = 0
      BY <1>5, <3>1 DEF c
    <3>2. CASE j # 0
      <4>1. j \in 1 .. N /\ j - 1 \in 0 .. N /\ f[j - 1] \in X
        BY <1>2, <3>2
      <4>2. F[j][f[j - 1]] = LookupByte(w, f[j - 1], d[j])
        BY <1>3, <4>1
      <4> QED
        BY <1>5, <3>2, <4>1, <4>2
    <3> QED
      BY <3>1, <3>2
  <2> QED
    BY <1>5, <2>1
<1>7. R = G(R)
  <2> HIDE DEF G
  <2> QED
    BY <1>6
<1> HIDE DEF R
<1>8. R[0] = {}
  BY <1>2, <1>7
<1>9. \A j \in 0 .. N - 1 : R[j + 1] = LookupByte(w, R[j], d[j + 1]) /\ j + 1 \in 1 .. N /\ j \in 0 .. N
  <2>1. \A j \in 0 .. N - 1 : j + 1 \in 0 .. N /\ j + 1 # 0 /\ (j + 1) - 1 = j /\ j + 1 \in 1 .. N /\ j \in 0 .. N
    BY <1>2
  <2> QED
    BY <1>7, <2>1
<1>10. \A j \in 0 .. N : R[j] \in X
  <2> DEFINE S == {j \in 0 .. N : R[j] \in X}
  <2>1. 0 \in S
    BY <1>2, <1>8 DEF c
  <2>2. ASSUME NEW j \in 0 .. N - 1, j \in S PROVE j + 1 \in S
    <3>1. R[j] \in X /\ j + 1 \in 1 .. N
      BY <1>9, <2>2
    <3>2. R[j + 1] \in X
      BY <1>3, <1>4, <1>9, <3>1
    <3> QED
      BY <3>1, <3>2
  <2> HIDE DEF S
  <2>3. \A j \in 0 .. N : j \in S
    BY <1>2, <2>1, <2>2, UpTo
  <2> QED
    BY <2>3 DEF S
<1>11. \A j \in 0 .. N - 1 : R[j + 1] = SimpleByte(w, R[j], d[j + 1])
  BY <1>3, <1>9, <1>10
<1>12. R \in ByteByByte(w, d)
  <2>1. R \in [0 .. N -> X]
    BY <1>7, <1>10
  <2> QED
    BY <1>8, <1>11, <2>1 DEF ByteByByte, X, N
<1> QED
  BY <1>1, <1>12 DEF N

LEMMA PrefixGrows ==
    ASSUME NEW d \in Seq(Octet), NEW i \in 0 .. Len(d) - 1
    PROVE  /\ SubSeq(d, 1, i) \in Seq(Octet) /\ d[i + 1] \in Octet
           /\ SubSeq(d, 1, i + 1) = Append(SubSeq(d, 1, i), d[i + 1])
OBVIOUS

LEMMA NoDataNoRemainder == ASSUME NEW w \in Widths PROVE Remainder(w, <<>>) = {}
<1>1. <<>> \in Seq(Octet) /\ 8 * Len(<<>>) = 0
  OBVIOUS
<1>2. PICK r \in Divisions(w, <<>>) : Remainder(w, <<>>) = r[0]
  BY <1>1, DivisionEnds
<1>3. r[0] = Up(Polynomial(<<>>), w)
  BY DEF Divisions
<1>4. Polynomial(<<>>) = {}
  BY DEF Polynomial
<1> QED
  BY <1>2, <1>3, <1>4 DEF Up

LEMMA RegisterIsRemainder ==
    ASSUME NEW w \in Widths, NEW d \in Seq(Octet), NEW r \in ByteByByte(w, d)
    PROVE  r[Len(d)] = Remainder(w, d) /\ Remainder(w, d) \in Registers(w)
<1> DEFINE N == Len(d)
           S == {i \in 0 .. N : r[i] = Remainder(w, SubSeq(d, 1, i))}
<1>1. N \in Nat /\ SubSeq(d, 1, 0) = <<>> /\ SubSeq(d, 1, N) = d
  OBVIOUS
<1>2. /\ r[0] = {} /\ \A i \in 0 .. N : r[i] \in Registers(w)
      /\ \A i \in 0 .. N - 1 : r[i + 1] = SimpleByte(w, r[i], d[i + 1])
  BY DEF ByteByByte
<1>3. \A i \in 0 .. N - 1 : /\ SubSeq(d, 1, i) \in Seq(Octet) /\ d[i + 1] \in Octet
                            /\ SubSeq(d, 1, i + 1) = Append(SubSeq(d, 1, i), d[i + 1])
  BY PrefixGrows
<1> HIDE DEF N
<1>4. 0 \in S
  <2>1. 0 \in 0 .. N
    BY <1>1
  <2>2. r[0] = Remainder(w, SubSeq(d, 1, 0))
    BY <1>1, <1>2, NoDataNoRemainder
  <2> QED
    BY <2>1, <2>2
<1>5. ASSUME NEW i \in 0 .. N - 1, i \in S PROVE i + 1 \in S
  <2>1. i \in 0 .. N /\ i + 1 \in 0 .. N /\ r[i] = Remainder(w, SubSeq(d, 1, i))
    BY <1>1, <1>5
  <2>2. Remainder(w, SubSeq(d, 1, i)) \in Registers(w)
    BY <1>2, <2>1
  <2>3. Remainder(w, SubSeq(d, 1, i + 1)) = SimpleByte(w, r[i], d[i + 1])
    BY <1>3, <2>1, <2>2, OneByteMore
  <2> QED
    BY <1>2, <2>1, <2>3
<1>6. N \in S
  <2> HIDE DEF S
  <2>1. \A i \in 0 .. N : i \in S
    BY <1>1, <1>4, <1>5, UpTo
  <2> QED
    BY <1>1, <2>1
<1>7. r[N] = Remainder(w, d)
  BY <1>1, <1>6
<1>8. r[N] \in Registers(w)
  BY <1>1, <1>2
<1> QED
  BY <1>7, <1>8 DEF N

\* crc16.c:26 and 43, and crc8.c: for all data of any length, the bitwise
\* implementation and the table give the remainder of the data, moved up by the
\* width of the check, divided by the generator polynomial.
THEOREM SolutionsAreRemainders ==
    \A w \in Widths : \A d \in Seq(SUBSET (0 .. 7)) :
        /\ simple(w, d) = Remainder(w, d)
        /\ lookuptable(w, d) = Remainder(w, d)
        /\ Remainder(w, d) \subseteq 0 .. w - 1
<1>1. ASSUME NEW w \in Widths, NEW d \in Seq(Octet)
      PROVE  /\ simple(w, d) = Remainder(w, d)
             /\ lookuptable(w, d) = Remainder(w, d)
             /\ Remainder(w, d) \in Registers(w)
  BY SimpleEnds, LookupEnds, RegisterIsRemainder
<1> QED
  BY <1>1 DEF Octet, Registers

\* None of the cases that the run tries is an exception.
LEMMA NoExceptions == NotRemainders = {}
<1>1. ASSUME NEW n \in Nat, NEW d \in [1 .. n -> CrcBytes] PROVE d \in Seq(SUBSET (0 .. 7))
  <2>1. CrcBytes \subseteq SUBSET (0 .. 7)
    BY CrcAssumption DEF CrcAssumption
  <2>2. \A i \in 1 .. n : d[i] \in SUBSET (0 .. 7)
    BY <2>1
  <2>3. d \in [1 .. n -> SUBSET (0 .. 7)]
    BY <2>2
  <2> QED
    BY <2>3
<1>2. ASSUME NEW c \in Cases PROVE c[1] \in Widths /\ c[2] \in Seq(SUBSET (0 .. 7))
  <2>1. PICK n \in 0 .. MaxLen : c[2] \in [1 .. n -> CrcBytes]
    BY DEF Cases
  <2>2. n \in Nat
    BY CrcAssumption DEF CrcAssumption
  <2> QED
    BY <1>1, <2>1, <2>2 DEF Cases
<1>3. ASSUME NEW c \in Cases
      PROVE  {simple(c[1], c[2]), lookuptable(c[1], c[2])} = {Remainder(c[1], c[2])}
  BY <1>2, SolutionsAreRemainders
<1> QED
  BY <1>3 DEF NotRemainders
-----------------------------------------------------------------------------
(* The list of an entry is the one that the remainder of its tuple numbers. *)

\* The twelve bytes that flow_hash hands to crc16.
LEMMA OctetsType ==
    ASSUME NEW t \in [1 .. 6 -> SUBSET (0 .. 15)]
    PROVE  Octets(t) \in Seq(SUBSET (0 .. 7))
<1>1. ASSUME NEW k \in 1 .. 12
      PROVE  Octets(t)[k] \in SUBSET (0 .. 7)
  <2>1. CASE k % 2 = 1
    <3>1. Octets(t)[k] = LowByte(t[(k + 1) \div 2])
      BY <2>1 DEF Octets
    <3> QED
      BY <3>1 DEF LowByte
  <2>2. CASE k % 2 # 1
    <3>1. Octets(t)[k] = Right(t[k \div 2], 8)
      BY <2>2 DEF Octets
    <3>2. k \div 2 \in 1 .. 6
      BY <2>2
    <3>3. t[k \div 2] \in SUBSET (0 .. 15)
      BY <3>2
    <3>4. \A e \in 0 .. 15 : e >= 8 => e - 8 \in 0 .. 7
      OBVIOUS
    <3> QED
      BY <3>1, <3>3, <3>4 DEF Right
  <2> QED
    BY <2>1, <2>2
<1>2. Octets(t) \in [1 .. 12 -> SUBSET (0 .. 7)]
  BY <1>1 DEF Octets
<1>3. \A n \in Nat : \A d \in [1 .. n -> SUBSET (0 .. 7)] : d \in Seq(SUBSET (0 .. 7))
  OBVIOUS
<1> QED
  BY <1>2, <1>3

LEMMA ListIsRemainder == \A f \in Flows : BucketOf[f] = ListOf[f]
<1> SUFFICES ASSUME NEW f \in Flows PROVE BucketOf[f] = ListOf[f]
  OBVIOUS
<1>1. Tuples[f] \in [1 .. 6 -> SUBSET (0 .. 15)]
  BY HashedTableAssumption DEF HashedTableAssumption
<1>2. flow_hash(Tuples[f]) = Remainder(16, Octets(Tuples[f]))
  <2>1. Octets(Tuples[f]) \in Seq(SUBSET (0 .. 7)) /\ 16 \in Widths
    BY <1>1, OctetsType DEF Widths
  <2> QED
    BY <2>1, SolutionsAreRemainders DEF flow_hash
<1>3. BucketOf[f] = index(Tuples[f], Bits)
  BY HashedTableAssumption DEF HashedTableAssumption, HashedLists
<1> QED
  BY <1>2, <1>3 DEF ListOf, index

\* flow_table.c:82 and 109: an entry is always linked in the list that the
\* remainder of its addresses and ports numbers, where each packet of its flow
\* looks for it, however the calls of insert_table and delete_table interleave.
THEOREM LinksWhereHashed == Spec => []LinkedWhereHashed
<1>1. HInv => LinkedWhereHashed
  <2> SUFFICES ASSUME HInv PROVE LinkedWhereHashed
    OBVIOUS
  <2>1. ASSUME NEW b \in Buckets, NEW i \in DOMAIN chain[b]
        PROVE  ListOf[heap[chain[b][i]].flow] = b
    <3>1. chain[b][i] \in Linked(b)
      BY DEF Linked
    <3>2. heap[chain[b][i]].flow \in Flows
      BY <3>1, LinkedInUse DEF HInv, Entries
    <3>3. BucketOf[heap[chain[b][i]].flow] = b
      BY <3>1 DEF HInv, AtHome
    <3> QED
      BY <3>2, <3>3, ListIsRemainder
  <2> QED
    BY <2>1, NoExceptions DEF LinkedWhereHashed
<1> QED
  BY <1>1, HomeInvariance, PTL
=============================================================================
