SPECIFICATION Spec
CONSTANTS
  kTile = 2
  Shapes <- ThreeTiles
  Zero = Zero
  Absent = Absent
INVARIANT ResultIsDotProduct
