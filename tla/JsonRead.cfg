SPECIFICATION FairSpec
CONSTANTS
  MaxLength = 4
  MallocMayFail = TRUE
  Junk = Junk
INVARIANTS
  TypeOK
  TerminatorInside
  TextIsLastPiece
PROPERTY Returns
CHECK_DEADLOCK FALSE
