------------------------------ MODULE FlowTable ------------------------------
(***************************************************************************)
(* The flow-tracker kernel module (src/flow-tracker): a hash table of TCP  *)
(* flows that the POST_ROUTING hook searches and changes for every packet, *)
(* on every CPU at once, and the loading and unloading of the module.      *)
(*                                                                         *)
(* A critical section of table->lock that only reads, or that ends in its  *)
(* only write, is one step; delete_table's section is two (unlink, kfree)  *)
(* because search_table, which takes no lock, sees what lies between.      *)
(***************************************************************************)
EXTENDS Integers, Sequences, FiniteSets

CONSTANTS
    Cpus,           \* contexts in which a hook call runs
    Flows,          \* TCP four-tuples
    Buckets,        \* the lists of the table, 2^bits of them
    Nodes,          \* memory for struct flow_entry
    NULL, Poison,   \* the null pointer, LIST_POISON1
    NoCpu,          \* nobody holds the lock
    Packets,        \* [flow, syn, fin, len, dev, tcp]; fin is FIN or RST
    BucketOf,       \* flow_hash(f) >> (16 - bits)
    PortsOf,        \* the two TCP ports of a flow
    ParamDev,       \* module parameter param_dev, NULL for all
    ParamPort,      \* module parameter param_port, 0 for all
    Wrap,           \* bytes_sent is unsigned: 2^32 in the code
    RegisterFails   \* TRUE: nf_register_hook may return an error

ASSUME FlowTableAssumption ==
    /\ IsFiniteSet(Cpus) /\ IsFiniteSet(Nodes)
    /\ BucketOf \in [Flows -> Buckets]
    /\ Wrap \in Nat \ {0}
    /\ NULL \notin Nodes /\ Poison \notin Nodes /\ NULL # Poison
    /\ NULL \notin [flow : Flows, bytes : 0 .. Wrap - 1]
    /\ NoCpu \notin Cpus
    /\ RegisterFails \in BOOLEAN
    /\ \A p \in Packets : p.flow \in Flows /\ p.len \in 0 .. Wrap - 1

VARIABLES
    mod,       \* how far flow_tracker_init or flow_tracker_exit has come
    chain,     \* chain[b]: the entries of list b, the head first
    heap,      \* heap[n]: the entry stored in n, NULL while n is free
    numFlows,  \* table->num_flows
    lock,      \* holder of table->lock
    fault,     \* freed or unmapped memory was accessed: the kernel stops
    view,      \* history: what the search on c has to find, see SearchIsAtomic
    pc,        \* pc[c]: where the hook call on c is, "idle" when there is none
    pkt,       \* pkt[c]: its packet
    obj,       \* obj[c]: its entry pointer
    nxt,       \* nxt[c]: tmp of hlist_for_each_entry_safe
    reg        \* reg[c]: bytes_sent as loaded by +=

table == <<chain, heap, numFlows, lock>>
locals == <<pkt, obj, nxt, reg>>
vars == <<mod, table, fault, view, pc, locals>>

Entries == [flow : Flows, bytes : 0 .. Wrap - 1]
Labels == {"idle", "check", "alloc", "link", "inc", "unlink", "free", "dec",
           "search", "next", "compare", "load", "store"}
Views == {"none", "tracked", "untracked", "overtaken"}

-----------------------------------------------------------------------------
(* The lists.                                                              *)

Linked(b) == {chain[b][i] : i \in DOMAIN chain[b]}
AllLinked == UNION {Linked(b) : b \in Buckets}

First(b) == IF chain[b] = <<>> THEN NULL ELSE chain[b][1]

\* n->hlist.next: the successor, poison once n is unlinked, NULL while n is
\* not linked yet or is the last one.
NextOf(n) ==
    IF \E c \in Cpus : pc[c] = "free" /\ obj[c] = n THEN Poison
    ELSE IF \E b \in Buckets : \E i \in 1 .. Len(chain[b]) - 1 : chain[b][i] = n
    THEN LET b == CHOOSE b \in Buckets : n \in Linked(b)
             i == CHOOSE i \in DOMAIN chain[b] : chain[b][i] = n
         IN  chain[b][i + 1]
    ELSE NULL

\* Positions in its list of the entries of flow f.
Matches(f) == LET s == chain[BucketOf[f]]
              IN  {i \in DOMAIN s : heap[s[i]].flow = f}

\* The entries of flow f in its list.
EntriesOf(f) == {n \in Linked(BucketOf[f]) : heap[n].flow = f}

\* s without its i-th element (hlist_del).
DropAt(s, i) == [j \in 1 .. Len(s) - 1 |-> IF j < i THEN s[j] ELSE s[j + 1]]

Dangling(n) == n \notin Nodes \/ heap[n] = NULL

-----------------------------------------------------------------------------
(* hook_func_out: which packets it looks at, and where it goes.            *)

Tracked(p) ==
    /\ ParamDev = NULL \/ p.dev = NULL \/ p.dev = ParamDev
    /\ p.tcp
    /\ ParamPort = 0 \/ ParamPort \in PortsOf[p.flow]

AfterInsert(p) == IF p.fin THEN "unlink" ELSE "search"
AfterDispatch(p) == IF p.syn THEN "check" ELSE AfterInsert(p)

Running(c, l) == ~fault /\ mod # "gone" /\ pc[c] = l
Goto(c, l) == pc' = [pc EXCEPT ![c] = l]

\* The call returns NF_ACCEPT; its locals die.
Return(c) ==
    /\ Goto(c, "idle")
    /\ pkt' = [pkt EXCEPT ![c] = NULL]
    /\ obj' = [obj EXCEPT ![c] = NULL]
    /\ nxt' = [nxt EXCEPT ![c] = NULL]
    /\ reg' = [reg EXCEPT ![c] = 0]

Fault == fault' = TRUE /\ UNCHANGED <<mod, table, view, pc, locals>>

\* A packet the filter does not select leaves everything as it is.
HookOut(c, p) ==
    /\ Running(c, "idle")
    /\ mod \in {"out", "loaded"}
    /\ Tracked(p)
    /\ pkt' = [pkt EXCEPT ![c] = p]
    /\ Goto(c, AfterDispatch(p))
    /\ UNCHANGED <<mod, table, fault, view, obj, nxt, reg>>

\* The list of the flow that the call on c is about.
Home(c) == BucketOf[pkt[c].flow]

\* The searches on D are overtaken by what another call does.
Searching == {"next", "compare", "load", "store"}
Overtaking(D) == [c \in Cpus |-> IF c \in D THEN "overtaken" ELSE view[c]]

-----------------------------------------------------------------------------
(* insert_table                                                            *)

\* Mutant: the scan for an existing entry is left out.
InsertWithoutScan(c) ==
    /\ Running(c, "check") /\ lock = NoCpu
    /\ Goto(c, "alloc")
    /\ UNCHANGED <<mod, table, fault, view, locals>>

\* First critical section: look for an entry of the flow.
InsertCheck(c) ==
    /\ Running(c, "check") /\ lock = NoCpu
    /\ Goto(c, IF Matches(pkt[c].flow) = {} THEN "alloc" ELSE AfterInsert(pkt[c]))
    /\ UNCHANGED <<mod, table, fault, view, locals>>

\* kmalloc returns any free memory, and *obj = *flow fills it.
InsertAlloc(c) ==
    /\ Running(c, "alloc")
    /\ \E n \in Nodes :
        /\ heap[n] = NULL
        /\ heap' = [heap EXCEPT ![n] = [flow |-> pkt[c].flow, bytes |-> pkt[c].len]]
        /\ obj' = [obj EXCEPT ![c] = n]
    /\ Goto(c, "link")
    /\ UNCHANGED <<mod, chain, numFlows, lock, fault, view, pkt, nxt, reg>>

\* Mutant: what was not inserted is counted.
CountUninserted(c) ==
    /\ Running(c, "alloc")
    /\ Goto(c, "inc")
    /\ UNCHANGED <<mod, table, fault, view, locals>>

\* GFP_ATOMIC allocations fail at any time: insert_table returns false.
InsertNoMemory(c) ==
    /\ Running(c, "alloc")
    /\ Goto(c, AfterInsert(pkt[c]))
    /\ UNCHANGED <<mod, table, fault, view, locals>>

\* Mutant: the new entry does not point to the one that was first.
LinkAsOnly(c) ==
    LET f == pkt[c].flow IN
    /\ Running(c, "link") /\ lock = NoCpu
    /\ chain' = [chain EXCEPT ![BucketOf[f]] = <<obj[c]>>]
    /\ Goto(c, "inc")
    /\ UNCHANGED <<mod, heap, numFlows, lock, fault, view, locals>>

\* Second critical section: hlist_add_head.
InsertLink(c) ==
    LET f == pkt[c].flow IN
    /\ Running(c, "link") /\ lock = NoCpu
    /\ chain' = [chain EXCEPT ![BucketOf[f]] = <<obj[c]>> \o @]
    /\ Goto(c, "inc")
    /\ UNCHANGED <<mod, heap, numFlows, lock, fault, view, locals>>

InsertInc(c) ==
    /\ Running(c, "inc")
    /\ numFlows' = numFlows + 1
    /\ Return(c)
    /\ UNCHANGED <<mod, chain, heap, lock, fault, view>>

-----------------------------------------------------------------------------
(* delete_table                                                            *)

\* Mutant: the entry found is freed but stays in its list.
FreeWithoutUnlink(c) ==
    LET f == pkt[c].flow  b == BucketOf[f] IN
    /\ Running(c, "unlink") /\ lock = NoCpu
    /\ \/ Matches(f) = {} /\ Goto(c, "search") /\ UNCHANGED <<lock, obj>>
       \/ \E i \in Matches(f) :
          /\ \A j \in Matches(f) : i <= j
          /\ obj' = [obj EXCEPT ![c] = chain[b][i]]
          /\ lock' = c
          /\ Goto(c, "free")
    /\ UNCHANGED <<mod, chain, heap, numFlows, fault, view, pkt, nxt, reg>>

\* Lock, scan, and unlink the first entry of the flow.
DeleteUnlink(c) ==
    LET f == pkt[c].flow  b == BucketOf[f] IN
    /\ Running(c, "unlink") /\ lock = NoCpu
    /\ \/ /\ Matches(f) = {}
          /\ Goto(c, "search")
          /\ UNCHANGED <<chain, lock, view, obj>>
       \/ \E i \in Matches(f) :
          /\ \A j \in Matches(f) : i <= j
          /\ chain' = [chain EXCEPT ![b] = DropAt(@, i)]
          /\ view' = Overtaking({d \in Cpus : pc[d] \in Searching /\ Home(d) = b})
          /\ obj' = [obj EXCEPT ![c] = chain[b][i]]
          /\ lock' = c
          /\ Goto(c, "free")
    /\ UNCHANGED <<mod, heap, numFlows, fault, pkt, nxt, reg>>

\* Mutant: kfree is forgotten.
UnlockWithoutFree(c) ==
    /\ Running(c, "free")
    /\ lock' = NoCpu
    /\ Goto(c, "dec")
    /\ UNCHANGED <<mod, chain, heap, numFlows, fault, view, locals>>

\* kfree and unlock.
DeleteFree(c) ==
    /\ Running(c, "free")
    /\ heap' = [heap EXCEPT ![obj[c]] = NULL]
    /\ lock' = NoCpu
    /\ Goto(c, "dec")
    /\ UNCHANGED <<mod, chain, numFlows, fault, view, locals>>

DeleteDec(c) ==
    /\ Running(c, "dec")
    /\ numFlows' = numFlows - 1
    /\ Return(c)
    /\ UNCHANGED <<mod, chain, heap, lock, fault, view>>

-----------------------------------------------------------------------------
(* search_table, which takes no lock, and the update of the entry found.   *)

SearchStart(c) ==
    LET n == First(BucketOf[pkt[c].flow]) IN
    /\ Running(c, "search")
    /\ IF n = NULL
       THEN Return(c) /\ UNCHANGED view
       ELSE /\ obj' = [obj EXCEPT ![c] = n]
            /\ view' = [view EXCEPT ![c] =
                   IF Matches(pkt[c].flow) = {} THEN "untracked" ELSE "tracked"]
            /\ Goto(c, "next")
            /\ UNCHANGED <<pkt, nxt, reg>>
    /\ UNCHANGED <<mod, table, fault>>

\* Mutant: the loop goes on with the entry it is at.
SearchSame(c) ==
    /\ Running(c, "next") /\ ~Dangling(obj[c])
    /\ nxt' = [nxt EXCEPT ![c] = obj[c]]
    /\ Goto(c, "compare")
    /\ UNCHANGED <<mod, table, fault, view, pkt, obj, reg>>

\* tmp = obj->next
SearchNext(c) ==
    /\ Running(c, "next")
    /\ IF Dangling(obj[c]) THEN Fault
       ELSE /\ nxt' = [nxt EXCEPT ![c] = NextOf(obj[c])]
            /\ Goto(c, "compare")
            /\ UNCHANGED <<mod, table, fault, view, pkt, obj, reg>>

\* Compare the four-tuple; return obj or go on with tmp.
SearchCompare(c) ==
    /\ Running(c, "compare")
    /\ \/ /\ Dangling(obj[c])
          /\ Fault
       \/ /\ ~Dangling(obj[c]) /\ heap[obj[c]].flow = pkt[c].flow
          /\ Goto(c, "load")
          /\ UNCHANGED <<mod, table, fault, view, locals>>
       \/ /\ ~Dangling(obj[c]) /\ heap[obj[c]].flow # pkt[c].flow
          /\ IF nxt[c] = NULL
             THEN Return(c) /\ view' = [view EXCEPT ![c] = "none"]
             ELSE /\ obj' = [obj EXCEPT ![c] = nxt[c]]
                  /\ Goto(c, "next")
                  /\ UNCHANGED <<view, pkt, nxt, reg>>
          /\ UNCHANGED <<mod, table, fault>>

UpdateLoad(c) ==
    /\ Running(c, "load")
    /\ IF Dangling(obj[c]) THEN Fault
       ELSE /\ reg' = [reg EXCEPT ![c] = heap[obj[c]].bytes]
            /\ Goto(c, "store")
            /\ UNCHANGED <<mod, table, fault, view, pkt, obj, nxt>>

UpdateStore(c) ==
    /\ Running(c, "store")
    /\ IF Dangling(obj[c]) THEN Fault
       ELSE /\ heap' = [heap EXCEPT ![obj[c]].bytes = (reg[c] + pkt[c].len) % Wrap]
            /\ view' = [Overtaking({d \in Cpus : pc[d] = "store" /\ obj[d] = obj[c]})
                            EXCEPT ![c] = "none"]
            /\ Return(c)
            /\ UNCHANGED <<mod, chain, numFlows, lock, fault>>

-----------------------------------------------------------------------------
(* flow_tracker_init and flow_tracker_exit.                                *)

\* init_table succeeds; when vmalloc fails nothing is loaded.
InitTable ==
    /\ ~fault /\ mod = "unloaded"
    /\ mod' = "table"
    /\ chain' = [b \in Buckets |-> <<>>]
    /\ numFlows' = 0
    /\ lock' = NoCpu
    /\ UNCHANGED <<heap, fault, view, pc, locals>>

\* The table is not freed when the hook cannot be registered.
RegisterOut ==
    /\ ~fault /\ mod = "table"
    /\ \/ mod' = "out"
       \/ RegisterFails /\ mod' = "unloaded"
    /\ UNCHANGED <<table, fault, view, pc, locals>>

\* Returning -1 here unloads the code while nf_hook_out stays registered.
RegisterIn ==
    /\ ~fault /\ mod = "out"
    /\ \/ mod' = "loaded"
       \/ RegisterFails /\ mod' = "gone"
    /\ UNCHANGED <<table, fault, view, pc, locals>>

\* A packet reaches the hook of a module that is not there any more.
StaleHook ==
    /\ ~fault /\ mod = "gone"
    /\ Fault

\* nf_unregister_hook returns when no call of the hook is in progress.
UnregisterHooks ==
    /\ ~fault /\ mod = "loaded"
    /\ \A c \in Cpus : pc[c] = "idle"
    /\ mod' = "unhooked"
    /\ UNCHANGED <<table, fault, view, pc, locals>>

\* free_table takes no lock.
FreeTable ==
    /\ ~fault /\ mod = "unhooked"
    /\ mod' = "unloaded"
    /\ heap' = [n \in Nodes |-> IF n \in AllLinked THEN NULL ELSE heap[n]]
    /\ chain' = [b \in Buckets |-> <<>>]
    /\ UNCHANGED <<numFlows, lock, fault, view, pc, locals>>

-----------------------------------------------------------------------------
Init ==
    /\ mod = "unloaded"
    /\ chain = [b \in Buckets |-> <<>>]
    /\ heap = [n \in Nodes |-> NULL]
    /\ numFlows = 0
    /\ lock = NoCpu
    /\ fault = FALSE
    /\ view = [c \in Cpus |-> "none"]
    /\ pc = [c \in Cpus |-> "idle"]
    /\ pkt = [c \in Cpus |-> NULL]
    /\ obj = [c \in Cpus |-> NULL]
    /\ nxt = [c \in Cpus |-> NULL]
    /\ reg = [c \in Cpus |-> 0]

Insert(c) == InsertCheck(c) \/ InsertAlloc(c) \/ InsertNoMemory(c) \/ InsertLink(c) \/ InsertInc(c)
Delete(c) == DeleteUnlink(c) \/ DeleteFree(c) \/ DeleteDec(c)
Search(c) == SearchStart(c) \/ SearchNext(c) \/ SearchCompare(c) \/ UpdateLoad(c) \/ UpdateStore(c)
Call(c) == Insert(c) \/ Delete(c) \/ Search(c)

Next ==
    \/ \E c \in Cpus : Call(c) \/ \E p \in Packets : HookOut(c, p)
    \/ InitTable \/ RegisterOut \/ RegisterIn \/ StaleHook
    \/ UnregisterHooks \/ FreeTable

Spec == Init /\ [][Next]_vars

\* A hook call runs to its end: a CPU does not stop inside it, and the queued
\* spinlock of the kernel serves the CPUs that wait for it in turn.
TakeLock(c) == InsertCheck(c) \/ InsertLink(c) \/ DeleteUnlink(c)
Fairness == \A c \in Cpus : WF_vars(Call(c)) /\ SF_vars(TakeLock(c))
FairSpec == Spec /\ Fairness

-----------------------------------------------------------------------------
(* Properties.                                                             *)

TypeOK ==
    /\ mod \in {"unloaded", "table", "out", "loaded", "unhooked", "gone"}
    /\ chain \in [Buckets -> Seq(Nodes)]
    /\ heap \in [Nodes -> Entries \union {NULL}]
    /\ numFlows \in Int
    /\ lock \in Cpus \union {NoCpu}
    /\ fault \in BOOLEAN
    /\ view \in [Cpus -> Views]
    /\ pc \in [Cpus -> Labels]
    /\ pkt \in [Cpus -> Packets \union {NULL}]
    /\ obj \in [Cpus -> Nodes \union {NULL, Poison}]
    /\ nxt \in [Cpus -> Nodes \union {NULL, Poison}]
    /\ reg \in [Cpus -> 0 .. Wrap - 1]

\* num_flows lags behind the lists by exactly the calls that have linked an
\* entry and not counted it, or have freed one and not discounted it (the
\* atomic operations at flow_table.c:112 and 159 come after the unlock).
NumFlowsAccounted ==
    mod \in {"out", "loaded", "unhooked"} =>
        numFlows = Cardinality(AllLinked)
                   + Cardinality({c \in Cpus : pc[c] \in {"free", "dec"}})
                   - Cardinality({c \in Cpus : pc[c] = "inc"})

\* Every entry in memory is in a list, or is about to be linked by the call
\* that allocated it, or about to be freed by the one that unlinked it; and
\* the lists hold nothing else (insert_table, delete_table, free_table).
HeapAccounted ==
    /\ TypeOK
    /\ mod # "gone" =>
           {n \in Nodes : heap[n] # NULL} =
               AllLinked \union {obj[c] : c \in {d \in Cpus : pc[d] \in {"link", "free"}}}

\* No entry is in two places of the lists, and no two calls are about to link
\* or free the same one: no double free, no list that runs into another.
SingleOwner ==
    /\ \A b1, b2 \in Buckets : \A i \in DOMAIN chain[b1], j \in DOMAIN chain[b2] :
           chain[b1][i] = chain[b2][j] => b1 = b2 /\ i = j
    /\ \A c \in Cpus : pc[c] \in {"link", "free"} =>
           /\ obj[c] \notin AllLinked
           /\ \A d \in Cpus \ {c} : pc[d] \in {"link", "free"} => obj[d] # obj[c]

\* What the search on c does in a step: it compares, answers or stores.
AnswersAtomically(c) ==
    /\ pc[c] \in Searching => ~Dangling(obj[c])
    /\ pc[c] = "compare" /\ pc'[c] = "load" => view[c] = "tracked"
    /\ pc[c] = "compare" /\ pc'[c] = "idle" => view[c] = "untracked"
    /\ pc[c] = "store" /\ pc'[c] = "idle" =>
           /\ obj[c] \in EntriesOf(pkt[c].flow)
           /\ heap'[obj[c]].bytes = (heap[obj[c]].bytes + pkt[c].len) % Wrap

\* A search, which takes no lock, and the += after it go wrong only where they
\* are overtaken: by a delete_table that unlinks an entry of the same list, or
\* by another += on the same entry between the load and the store.  Any other
\* search answers as if it had been atomic at its start, however many entries
\* are inserted meanwhile; it never touches memory that was given back, and
\* what it adds goes to an entry of its flow that is in the table, and is added
\* to all that was stored there before (flow_table.c:126, main.c:70-80).
SearchIsAtomic ==
    [][/\ \A c \in Cpus : view[c] # "overtaken" => AnswersAtomically(c)
       /\ fault' # fault => mod = "gone" \/ \E c \in Cpus : view[c] = "overtaken"]_vars

\* Every packet gets its verdict, unless its search is overtaken (a list that
\* changes all the time can be walked for ever) or the kernel has stopped.
HookReturns ==
    \A c \in Cpus :
        pc[c] # "idle" ~> pc[c] = "idle" \/ view[c] = "overtaken" \/ fault \/ mod = "gone"

\* "delete a flow entry from the table and return true if it succeeds"
\* (flow_table.h:34): when the deleted entry is freed its flow has none left.
DeletedFlowIsGone ==
    [][\A c \in Cpus : pc[c] = "free" /\ pc'[c] = "dec" => Matches(pkt[c].flow) = {}]_vars

\* Whichever CPUs the calls run on, the table is a set of flows with several
\* entries each: an entry enters for a flow that had none when insert_table
\* looked, leaves through one delete_table, and a flow never has more entries
\* than there are CPUs, those included that are about to be linked.
Inserting(f) == {c \in Cpus : pc[c] \in {"alloc", "link"} /\ pkt[c].flow = f}
Abstract == INSTANCE FlowSet WITH
    Limit <- Cardinality(Cpus),
    entries <- [f \in Flows |-> Cardinality(EntriesOf(f))],
    claims <- [f \in Flows |-> Cardinality(Inserting(f))]
ImplementsFlowSet == Abstract!Spec
=============================================================================
