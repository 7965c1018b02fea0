SPECIFICATION MCSpec
CONSTANTS
  Node = {r, a, b, c, e, f, g}
  Dir = {r, a, b, c, e, g}
  Root = r
  a = a
  b = b
  c = c
  e = e
  f = f
  g = g
  Outside = Outside
  Dotted = {g}
  Trees <- MCTrees
  Namings <- MCNamings
  Limits = {3, 5}
  MVPROG_BKSZ = 3
  MaxChanges = 6
  BufSz = 2
  PwdSizes = {0, 1, 3}
INVARIANTS
  WalkTypeOK
  StackIsPath
  CwdFollowsStream
  OldWalkAccounts
PROPERTIES
  WalkTraverses
  NewWalkEnds
CHECK_DEADLOCK FALSE
