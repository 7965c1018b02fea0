SPECIFICATION MCSpec
CONSTANTS
  Member <- FewNumbers
  Zero = 0
  Junk = 99999
  DTypes = {4, 8}
  Sizes = {1}
  MaxCells = 2
  Formats <- Rests
  Pp_size = 24
  MaxCalls = 1
  Null = Null
  Eov = Eov
  Anything = Anything
  Item = {a, b}
  a = a
  b = b
  Byte = 6
  Indexes = {0, 1, 2, 5, 6}
  CreateSizes = {1, 2}
  AllocSz = 7
  WordBytes = 4
  Others = {0, 1, 6, 7}
  MaxSize = 9
  Address = {0, 31, 34, 65, 73}
  Size = {1, 40}
INVARIANT MapCallsEachMember
CHECK_DEADLOCK FALSE
