SPECIFICATION MCSpec
CONSTANTS
  f1 = f1  a2 = a2  f3 = f3  a4 = a4  a5 = a5
  NoNode = NoNode  Absent = Absent  Taken = Taken
  Node <- MCNode
  Accumulator <- MCAccumulator
  MaxInputs = 2
  Graphs <- MCGraphs
  MaxFaults = 1
INVARIANTS
  TypeOK
  DependenciesAreUndeliveredEdges
  AppliedOnceAndComplete
  ReadyQueueHasNoRepeats
  DoneMeansAllApplied
PROPERTIES
  GradWritesAreWhole
  EveryPassEnds
  KeepsPromise
