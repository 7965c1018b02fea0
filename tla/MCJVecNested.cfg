SPECIFICATION Spec
CONSTANTS
  Item = {x}
  x = x
  Null = Null
  Junk = Junk
  Byte = 3
  CreateSizes <- OneByteOrTwo
  MallocMayFail = FALSE
  MaxBlocks = 4
  MaxIndex = 2
PROPERTY NestedKeepsItsData
CHECK_DEADLOCK FALSE
