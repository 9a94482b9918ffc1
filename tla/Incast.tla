------------------------------- MODULE Incast -------------------------------
(***************************************************************************)
(* The incast experiment of src/incast-ns2/incast.tcl: a group of senders  *)
(* transmits in rounds, and fin_notify, called back by each sender's TCP   *)
(* agent when all its data are acknowledged, is the barrier between them.  *)
(* The simulator runs one event at a time.  A round is a warm-up (at 0.1s) *)
(* or one of the measured iterations, which start at 1s whether the        *)
(* warm-up has finished or not.                                            *)
(***************************************************************************)
EXTENDS Naturals, FiniteSets

CONSTANTS
    Pairs,        \* the TCP_pairs of the Incast_group
    Iter          \* iterations asked of schedule

IncastAssumption ==
    /\ IsFiniteSet(Pairs) /\ Pairs # {}
    /\ Iter \in Nat \ {0}

VARIABLES
    phase,         \* the last of the events at 0.1s and 1s that has run, or exit
    warmup_mode,
    num_iter,      \* iterations left
    fin_pairs,     \* callbacks since the round began
    pending,       \* pending[p]: "send" events of p in the event queue
    outstanding,   \* outstanding[p]: sends of p not yet acknowledged in full
    sent,          \* history: sent[p], the sends of p
    late           \* history: the warm-up had not finished at 1s

vars == <<phase, warmup_mode, num_iter, fin_pairs, pending, outstanding, sent, late>>

num_pairs == Cardinality(Pairs)

-----------------------------------------------------------------------------
Init ==
    /\ phase = "start" /\ warmup_mode = 0
    /\ num_iter = 0 /\ fin_pairs = 0
    /\ pending = [p \in Pairs |-> 0]
    /\ outstanding = [p \in Pairs |-> 0]
    /\ sent = [p \in Pairs |-> 0]
    /\ late = FALSE

\* Mutant: the count goes on from one round to the next.
SendWithoutReset ==
    /\ fin_pairs' = fin_pairs
    /\ pending' = [p \in Pairs |-> pending[p] + 1]

\* send_per_pair: a new round; the jitter puts its sends in any order.
SendPerPair ==
    /\ fin_pairs' = 0
    /\ pending' = [p \in Pairs |-> pending[p] + 1]

Warmup ==
    /\ phase = "start"
    /\ phase' = "warmup"
    /\ warmup_mode' = 1
    /\ SendPerPair
    /\ UNCHANGED <<num_iter, outstanding, sent, late>>

Idle(p) == pending[p] = 0 /\ outstanding[p] = 0

Schedule ==
    /\ phase = "warmup"
    /\ late' = (\E p \in Pairs : ~Idle(p))
    /\ phase' = "run"
    /\ warmup_mode' = 0
    /\ num_iter' = Iter
    /\ SendPerPair
    /\ UNCHANGED <<outstanding, sent>>

\* TCP_pair send: the bytes join what the agent still has to transmit.
Send(p) ==
    /\ phase # "exit" /\ pending[p] > 0
    /\ pending' = [pending EXCEPT ![p] = @ - 1]
    /\ outstanding' = [outstanding EXCEPT ![p] = @ + 1]
    /\ sent' = [sent EXCEPT ![p] = @ + 1]
    /\ UNCHANGED <<phase, warmup_mode, num_iter, fin_pairs, late>>

\* Mutant: a round ends with the callback before the last.
FinNotifyEarly ==
    IF fin_pairs + 2 >= num_pairs /\ warmup_mode # 1
    THEN /\ num_iter' = num_iter - 1
         /\ IF num_iter - 1 > 0
            THEN SendPerPair /\ UNCHANGED phase
            ELSE phase' = "exit" /\ fin_pairs' = fin_pairs + 1 /\ UNCHANGED pending
    ELSE fin_pairs' = fin_pairs + 1 /\ UNCHANGED <<phase, num_iter, pending>>

FinNotify ==
    IF fin_pairs + 1 = num_pairs /\ warmup_mode # 1
    THEN /\ num_iter' = num_iter - 1
         /\ IF num_iter - 1 > 0
            THEN SendPerPair /\ UNCHANGED phase
            ELSE phase' = "exit" /\ fin_pairs' = fin_pairs + 1 /\ UNCHANGED pending
    ELSE fin_pairs' = fin_pairs + 1 /\ UNCHANGED <<phase, num_iter, pending>>

\* done_data: the agent has nothing left to have acknowledged.  It calls back
\* once, however many sends made up what it had.
DoneData(p) ==
    /\ phase # "exit" /\ outstanding[p] > 0
    /\ outstanding' = [outstanding EXCEPT ![p] = 0]
    /\ FinNotify
    /\ UNCHANGED <<warmup_mode, sent, late>>

Next == Warmup \/ Schedule \/ \E p \in Pairs : Send(p) \/ DoneData(p)
Spec == Init /\ [][Next]_vars

-----------------------------------------------------------------------------
(* Properties.                                                             *)

TypeOK ==
    /\ phase \in {"start", "warmup", "run", "exit"}
    /\ warmup_mode \in {0, 1}
    /\ num_iter \in 0 .. Iter
    /\ fin_pairs \in 0 .. num_pairs
    /\ pending \in [Pairs -> Nat] /\ outstanding \in [Pairs -> Nat]
    /\ sent \in [Pairs -> Nat]
    /\ late \in BOOLEAN

\* "exit 0" comes when every sender has done the warm-up and exactly the
\* iterations asked for, if the warm-up was in time; a late one never makes a
\* sender send more than that.
AllIterationsDone ==
    /\ phase = "exit" /\ ~late => \A p \in Pairs : sent[p] = Iter + 1 /\ outstanding[p] = 0
    /\ \A p \in Pairs : sent[p] + pending[p] <= Iter + 1

\* The barrier: nobody sends in a round while another sender still has data
\* of an earlier one, so what a round measures is its own traffic, and no
\* iteration is left out or added.  It stands as long as the warm-up has
\* finished in time.
RoundsApart ==
    /\ TypeOK /\ AllIterationsDone
    /\ ~late => \A p, q \in Pairs : sent[p] <= sent[q] - outstanding[q] + 1
=============================================================================
