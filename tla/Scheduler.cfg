CONSTANTS
  num_cores = 2
  JobNumbers = {j1, j2, j3, j4}
  Schemes = {"FCFS", "SJF", "PSJF", "PRI", "PPRI", "RR"}
  Kinds <- TwoKinds
  MaxTime = 2
SYMMETRY Symmetry
SPECIFICATION SchedSpec
CHECK_DEADLOCK FALSE
INVARIANT Conservation
INVARIANT WorkConserving
INVARIANT QueueOrdered
INVARIANT NoBetterJobWaits
PROPERTY RoundRobinCycle
PROPERTY ImplementsAbstract
