--------------------------------- MODULE Ns2 ---------------------------------
(***************************************************************************)
(* The ns-2 scripts: fattree.tcl builds a topology, fattree_empirical.tcl  *)
(* builds one and runs the generator between its servers, many-to-one.tcl  *)
(* runs the generator, and incast.tcl the incast experiment.               *)
(***************************************************************************)
EXTENDS Integers, FiniteSets

CONSTANTS
    Shapes,                        \* of FatTree: for fattree.tcl
    Experiment,                    \* and the shape for fattree_empirical.tcl
    Groups, NrPairs, FlowTot,      \* of FlowGen
    Pairs, Iter                    \* of Incast

VARIABLES
    script,
    fattree_k, topology_x, stage, i, links,
    status, towarm, armed, fid, nrBusy, pending, busy, unsent, signal, flowGen, flowFin, initFid,
    phase, warmup_mode, num_iter, fin_pairs, queued, outstanding, sent, late

tree == <<fattree_k, topology_x, stage, i, links>>
generator == <<status, towarm, armed, fid, nrBusy, pending, busy, unsent, signal,
               flowGen, flowFin, initFid>>
group == <<phase, warmup_mode, num_iter, fin_pairs, queued, outstanding, sent, late>>
vars == <<script, tree, generator, group>>

Tree == INSTANCE FatTree WITH Shapes <- Shapes \union {Experiment}
Generator == INSTANCE FlowGen
Incast == INSTANCE Incast WITH pending <- queued

ASSUME Ns2Assumption ==
    /\ Tree!ShapesAssumption /\ Generator!FlowGenAssumption /\ Incast!IncastAssumption

Init ==
    /\ script \in {"fattree", "fattree_empirical", "many-to-one", "incast"}
    /\ Tree!Init /\ Generator!Init /\ Incast!Init
    /\ script = "fattree" => <<fattree_k, topology_x>> \in Shapes
    /\ script # "fattree" => <<fattree_k, topology_x>> = Experiment

\* A group for each ordered pair of servers is set up when the links are done.
Ready == script = "many-to-one" \/ (script = "fattree_empirical" /\ stage = "done")

Build ==
    /\ script \in {"fattree", "fattree_empirical"}
    /\ Tree!Next
    /\ UNCHANGED <<script, generator, group>>
Generate == Ready /\ Generator!Next /\ UNCHANGED <<script, tree, group>>
Iterate == script = "incast" /\ Incast!Next /\ UNCHANGED <<script, tree, generator>>

Next == Build \/ Generate \/ Iterate
Spec == Init /\ [][Next]_vars

\* The interpreter runs the script; simulated time passes, and TCP delivers
\* what it is given.
FairSpec == Spec /\ WF_vars(Build) /\ WF_vars(Generate) /\ WF_vars(Iterate)

-----------------------------------------------------------------------------
(* Properties.                                                             *)

\* Of the topology, see FatTree.
IsFatTree == Tree!IsFatTree

\* Of the generator, see FlowGen, which here also runs between the servers of a
\* fat-tree, once its topology is built.
BusyAccounted == Generator!BusyAccounted
ImplementsWorkload == Generator!ImplementsWorkload

\* Of the barrier, see Incast.
RoundsApart == Incast!RoundsApart

\* Every script comes to its end: the links are made or refused, and the
\* simulation exits; neither the generator nor a late warm-up of the incast
\* experiment waits for a callback too many.
ScriptEnds ==
    <>(CASE script = "fattree" -> stage \in {"done", "error"}
         [] script = "incast" -> phase = "exit"
         [] OTHER -> status = "exit")
=============================================================================
