------------------------------- MODULE Workload -------------------------------
(***************************************************************************)
(* What a traffic generator promises: FlowTot flows are generated, each on *)
(* a connection that carries no other flow at the time, and the simulation *)
(* ends exactly when the last of them has finished.                        *)
(***************************************************************************)
EXTENDS Naturals

CONSTANTS Conns, FlowTot

VARIABLES active,  \* connections that carry a flow
          gen,     \* flows generated
          fin,     \* flows finished
          ended    \* the simulation is over

vars == <<active, gen, fin, ended>>

Init == active = {} /\ gen = 0 /\ fin = 0 /\ ended = FALSE

Start(c) ==
    /\ ~ended /\ gen < FlowTot /\ c \notin active
    /\ active' = active \union {c}
    /\ gen' = gen + 1
    /\ UNCHANGED <<fin, ended>>

Finish(c) ==
    /\ ~ended /\ c \in active
    /\ active' = active \ {c}
    /\ fin' = fin + 1
    /\ ended' = (fin' = FlowTot)
    /\ UNCHANGED gen

Next == \E c \in Conns : Start(c) \/ Finish(c)

Spec == Init /\ [][Next]_vars
=============================================================================
