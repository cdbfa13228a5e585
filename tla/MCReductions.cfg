SPECIFICATION MCSpec
CONSTANTS
  LogWarp = 2
  NumWarps = 2
  Kernels = {"softmax", "layernorm"}
  Rows <- MCRows
  Scale = 3
  kBlock = 4
  Sizes <- MCSizes
  Absent = Absent
INVARIANTS
  NoDataRace
  OutUsesWholeRow
  SumHasNoRace
  SumIsChannelSum
PROPERTIES
  BlockFinishes
  SumFinishes
