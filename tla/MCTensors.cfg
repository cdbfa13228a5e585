SPECIFICATION TensorsSpec
CONSTANTS
  Fills <- MCFills
  Ranges <- MCRanges
  Reshapes <- MCReshapes
  MaxTensors = 4
  MaxWrites = 1
  Garbage = Garbage
  Thread = {Loader, Worker}
  Loader = Loader
  Worker = Worker
  Null = Null
  Jobs <- MCJobs
  BlockDim = 2
  MaxGrid = 2
  kBlock = 4
INVARIANTS
  TypeOK
  ElementsInStorage
  LinearReadsInStorage
  DeviceTypeOK
  ForwardIsConvolution
  BackwardIsDerivative
PROPERTY ImplementsArrays
