SPECIFICATION FairSpec
CONSTANTS
  Shapes <- MCShapes
  Experiment <- MCExperiment
  Groups <- MCGroups
  NrPairs = 1
  FlowTot = 6
  Pairs = {p1, p2, p3, p4}
  Iter = 3
INVARIANTS IsFatTree BusyAccounted RoundsApart
PROPERTIES ImplementsWorkload ScriptEnds
CHECK_DEADLOCK FALSE
