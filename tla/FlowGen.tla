------------------------------- MODULE FlowGen -------------------------------
(***************************************************************************)
(* The ns-2 traffic generator (tcp-traffic-gen.tcl): groups of TCP         *)
(* connections between two nodes.  Flows arrive by a random process, each  *)
(* takes an idle connection of its group or a new one, and the simulation  *)
(* ends with the last of flow_tot flows.  A step is one ns-2 event; events *)
(* are taken in any order that their times allow.                          *)
(***************************************************************************)
EXTENDS Integers, Sequences, FiniteSets

CONSTANTS
    Groups,     \* the Agent_Aggr_pair objects of a driver script
    NrPairs,    \* connections_per_pair: connections of a group at the start
    FlowTot     \* flow_tot

FlowGenAssumption ==
    /\ IsFiniteSet(Groups)
    /\ NrPairs \in Nat /\ FlowTot \in Nat \ {0}

VARIABLES
    status,     \* "warmup", "run", "exit" (finish was called) or "error" (Tcl)
    towarm,     \* connections whose warmup event has not fired
    armed,      \* groups with a schedule event in the future
    fid,        \* fid[g]: flow_id of its pairs, in order; pair i is at i + 1
    nrBusy,     \* nr_busy_pairs
    pending,    \* pairs with a send event queued by at-now
    busy,       \* pairs with is_busy = 1
    unsent,     \* pairs whose TCP agent has bytes to deliver
    signal,     \* pairs whose agent has signal_on_empty_
    flowGen, flowFin, initFid

vars == <<status, towarm, armed, fid, nrBusy, pending, busy, unsent, signal,
          flowGen, flowFin, initFid>>

\* Every pair there can ever be: a group creates one for a flow at most.
Conns == Groups \X (0 .. NrPairs + FlowTot - 1)

NrOf(g) == Len(fid[g])
PairsOf(g) == {g} \X (0 .. NrOf(g) - 1)
AllPairs == UNION {PairsOf(g) : g \in Groups}

\* The driver sets the groups up in some order, each with consecutive flow
\* identifiers, and puts their warmup and init_schedule events in the queue.
Init ==
    /\ status = "warmup"
    /\ \E ord \in [Groups -> 0 .. Cardinality(Groups) - 1] :
        /\ \A g, h \in Groups : ord[g] = ord[h] => g = h
        /\ fid = [g \in Groups |-> [k \in 1 .. NrPairs |-> ord[g] * NrPairs + k - 1]]
    /\ initFid = NrPairs * Cardinality(Groups)
    /\ towarm = Groups \X (0 .. NrPairs - 1)
    /\ armed = {}
    /\ nrBusy = [g \in Groups |-> 0]
    /\ pending = {} /\ busy = {} /\ unsent = {} /\ signal = {}
    /\ flowGen = 0 /\ flowFin = 0

-----------------------------------------------------------------------------
\* Warmup bytes are sent without asking for a signal.
Warmup(c) ==
    /\ status = "warmup" /\ c \in towarm
    /\ towarm' = towarm \ {c}
    /\ unsent' = unsent \union {c}
    /\ UNCHANGED <<status, armed, fid, nrBusy, pending, busy, signal, flowGen, flowFin, initFid>>

\* The init_schedule events of all groups come at one time, after the warmup
\* events and before the first interval is over.
InitSchedule ==
    /\ status = "warmup" /\ towarm = {}
    /\ status' = "run"
    /\ armed' = Groups
    /\ UNCHANGED <<towarm, fid, nrBusy, pending, busy, unsent, signal, flowGen, flowFin, initFid>>

\* Mutant: at-now is at: a later schedule may come before the send.
DueAnyTime(g) == status = "run" /\ g \in armed

\* The schedule event is queued after the at-now send of the event that has
\* queued it, so that send comes first even when the interval is zero.
Due(g) == status = "run" /\ g \in armed /\ \A i \in 0 .. NrOf(g) - 1 : <<g, i>> \notin pending

\* The flow on pair i of group g is counted and its send queued.
Generate(g, i) ==
    /\ flowGen' = flowGen + 1
    /\ nrBusy' = [nrBusy EXCEPT ![g] = @ + 1]
    /\ pending' = pending \union {<<g, i>>}

Rearm(g) == armed' = IF flowGen' < FlowTot THEN armed ELSE armed \ {g}

\* Enough flows have been generated: the group stops.
ScheduleNothing(g) ==
    /\ Due(g) /\ flowGen >= FlowTot
    /\ armed' = armed \ {g}
    /\ UNCHANGED <<status, towarm, fid, nrBusy, pending, busy, unsent, signal, flowGen, flowFin, initFid>>

\* nr_busy_pairs says that no connection is available: create one.
ScheduleNew(g) ==
    /\ Due(g) /\ flowGen < FlowTot /\ nrBusy[g] = NrOf(g)
    /\ fid' = [fid EXCEPT ![g] = Append(@, initFid)]
    /\ initFid' = initFid + 1
    /\ Generate(g, NrOf(g))
    /\ Rearm(g)
    /\ UNCHANGED <<status, towarm, busy, unsent, signal, flowFin>>

Idle(g) == {i \in 0 .. NrOf(g) - 1 : <<g, i>> \notin busy}

\* Take the first pair whose is_busy is 0; $pairs(-1) is an error.
ScheduleIdle(g) ==
    /\ Due(g) /\ flowGen < FlowTot /\ nrBusy[g] # NrOf(g)
    /\ IF Idle(g) = {}
       THEN /\ status' = "error"
            /\ flowGen' = flowGen + 1
            /\ nrBusy' = [nrBusy EXCEPT ![g] = @ + 1]
            /\ UNCHANGED <<pending, armed>>
       ELSE /\ \E i \in Idle(g) : (\A j \in Idle(g) : i <= j) /\ Generate(g, i)
            /\ Rearm(g)
            /\ UNCHANGED status
    /\ UNCHANGED <<towarm, fid, busy, unsent, signal, flowFin, initFid>>

Send(c) ==
    /\ status = "run" /\ c \in pending
    /\ pending' = pending \ {c}
    /\ busy' = busy \union {c}
    /\ unsent' = unsent \union {c}
    /\ signal' = signal \union {c}
    /\ UNCHANGED <<status, towarm, armed, fid, nrBusy, flowGen, flowFin, initFid>>

\* The agent has delivered its bytes, and nobody has asked for a signal.
DrainQuiet(c) ==
    /\ status \in {"warmup", "run"} /\ c \in unsent /\ c \notin signal
    /\ unsent' = unsent \ {c}
    /\ UNCHANGED <<status, towarm, armed, fid, nrBusy, pending, busy, signal, flowGen, flowFin, initFid>>

\* Mutant: the flow that has just been generated last ends the simulation.
FinishWhenGenerated(c) ==
    /\ status = "run" /\ c \in unsent /\ c \in signal
    /\ unsent' = unsent \ {c}
    /\ signal' = signal \ {c}
    /\ busy' = busy \ {c}
    /\ nrBusy' = [nrBusy EXCEPT ![c[1]] = @ - 1]
    /\ flowFin' = flowFin + 1
    /\ status' = IF flowGen >= FlowTot THEN "exit" ELSE "run"
    /\ UNCHANGED <<towarm, armed, fid, pending, flowGen, initFid>>

\* done_data, once: TCP_pair fin_notify, then Agent_Aggr_pair fin_notify,
\* then finish when this was the last flow.
FinNotify(c) ==
    /\ status = "run" /\ c \in unsent /\ c \in signal
    /\ unsent' = unsent \ {c}
    /\ signal' = signal \ {c}
    /\ busy' = busy \ {c}
    /\ nrBusy' = [nrBusy EXCEPT ![c[1]] = @ - 1]
    /\ flowFin' = flowFin + 1
    /\ status' = IF flowFin' >= FlowTot THEN "exit" ELSE "run"
    /\ UNCHANGED <<towarm, armed, fid, pending, flowGen, initFid>>

Schedule(g) == ScheduleNothing(g) \/ ScheduleNew(g) \/ ScheduleIdle(g)
Event(c) == Warmup(c) \/ Send(c) \/ DrainQuiet(c) \/ FinNotify(c)

Next ==
    \/ InitSchedule
    \/ \E g \in Groups : Schedule(g)
    \/ \E c \in AllPairs : Event(c)

Spec == Init /\ [][Next]_vars

-----------------------------------------------------------------------------
(* Properties.                                                             *)

TypeOK ==
    /\ status \in {"warmup", "run", "exit", "error"}
    /\ towarm \subseteq Conns /\ armed \subseteq Groups
    /\ fid \in [Groups -> Seq(Nat)]
    /\ nrBusy \in [Groups -> Nat]
    /\ pending \subseteq Conns /\ busy \subseteq Conns
    /\ unsent \subseteq Conns /\ signal \subseteq Conns
    /\ flowGen \in Nat /\ flowFin \in Nat /\ initFid \in Nat

\* The pairs of a group that carry a flow, or are about to.
InUse(g) == {c \in pending \union busy : c[1] = g}

\* nr_busy_pairs counts the pairs in use although is_busy is set later, by
\* the at-now send, and never those of another group.  No connection gets a
\* second flow before its first is finished, one that is expected to be idle
\* is found ($pairs(-1) is never used), and no two pairs of any groups have
\* the same flow identifier.
BusyAccounted ==
    /\ TypeOK
    /\ \A g \in Groups : nrBusy[g] = Cardinality(InUse(g))
    /\ pending \intersect busy = {}
    /\ status # "error"
    /\ busy = signal /\ signal \subseteq unsent
    /\ \A g, h \in Groups : \A i \in DOMAIN fid[g], j \in DOMAIN fid[h] :
           fid[g][i] = fid[h][j] => g = h /\ i = j

\* The generator implements the abstract workload.
Abstract == INSTANCE Workload WITH
    active <- pending \union busy, gen <- flowGen, fin <- flowFin, ended <- status = "exit"
ImplementsWorkload == Abstract!Spec
=============================================================================
