SPECIFICATION Spec
CONSTANTS
  Item = {x}
  x = x
  Null = Null
  Junk = Junk
  Byte = 3
  CreateSizes <- OneByteOrTwo
  MallocMayFail = TRUE
  MaxBlocks = 4
  MaxIndex = 8
INVARIANTS
  TypeOK
  MembersHaveCells
  BreaksOnlyWhenFull
  PointersFollow
PROPERTY KeepsLists
CHECK_DEADLOCK FALSE
