SPECIFICATION Spec
CONSTANTS
  kBlock = 2
  Sizes <- LargeImages
  Absent = Absent
INVARIANT OutIsChannelSum
