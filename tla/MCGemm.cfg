SPECIFICATION MCSpec
CONSTANTS
  kTile = 2
  Shapes <- MCShapes
  Zero = Zero
  Absent = Absent
INVARIANTS
  TypeOK
  ResultIsDotProduct
  NoDataRace
  OptimizedIsDotProduct
PROPERTIES
  BlockFinishes
