------------------------------- MODULE FlowSet -------------------------------
(***************************************************************************)
(* What the table of the flow tracker promises whatever the CPUs do: how   *)
(* many entries each flow has.  A flow without an entry can be claimed, by *)
(* several insertions at once; each claim becomes an entry or is given up, *)
(* and entries leave one at a time, or all of them with the table.         *)
(***************************************************************************)
EXTENDS Integers

CONSTANTS Flows,    \* TCP connections, each one a four-tuple
          Limit     \* insertions that can be in progress at once

VARIABLES entries,  \* [Flows -> Nat], the entries of a flow
          claims    \* [Flows -> Nat], those that are about to be inserted

vars == <<entries, claims>>

Init ==
    /\ entries = [f \in Flows |-> 0]
    /\ claims = [f \in Flows |-> 0]

Claim(f) ==
    /\ entries[f] = 0 /\ claims[f] < Limit
    /\ claims' = [claims EXCEPT ![f] = @ + 1]
    /\ UNCHANGED entries

Insert(f) ==
    /\ claims[f] > 0
    /\ entries' = [entries EXCEPT ![f] = @ + 1]
    /\ claims' = [claims EXCEPT ![f] = @ - 1]

GiveUp(f) ==
    /\ claims[f] > 0
    /\ claims' = [claims EXCEPT ![f] = @ - 1]
    /\ UNCHANGED entries

Delete(f) ==
    /\ entries[f] > 0
    /\ entries' = [entries EXCEPT ![f] = @ - 1]
    /\ UNCHANGED claims

\* The table is freed as a whole, when no insertion is in progress.
Clear ==
    /\ claims = [f \in Flows |-> 0]
    /\ entries' = [f \in Flows |-> 0]
    /\ UNCHANGED claims

Next == Clear \/ \E f \in Flows : Claim(f) \/ Insert(f) \/ GiveUp(f) \/ Delete(f)

Spec == Init /\ [][Next]_vars

\* The flow has as many entries as there can be insertions, and no more.
Bounded == \A f \in Flows : entries[f] + claims[f] <= Limit
=============================================================================
