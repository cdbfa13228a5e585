SPECIFICATION MCSpec
CONSTANTS
  Garbage = Garbage
  Thread = {Loader, Worker}
  Loader = Loader
  Worker = Worker
  Null = Null
  Jobs <- MCJobs
  BlockDim = 2
  MaxGrid = 2
  kBlock = 4
INVARIANT ElementwiseIsSum
