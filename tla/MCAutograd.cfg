SPECIFICATION MCSpec
CHECK_DEADLOCK FALSE
CONSTANTS
  NoNode = NoNode  Absent = Absent  Taken = Taken
  Ops = {"add", "mul", "matmul", "relu", "sum", "transpose", "softmax", "sigmoid", "layernorm"}
  LeafValues <- MCLeafValues
  MaxTensors = 5
  MaxToggles = 1
  MaxWrites = 2
  MaxPasses = 2
CONSTRAINT Budget
INVARIANTS
  TypeOK
  GraphFitsEngine
  LeafGradIsDerivative
