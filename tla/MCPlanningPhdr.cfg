SPECIFICATION Spec
CONSTANTS
  PageSize = 4
  WordMax = 31
  Pow2 = {1, 2, 4, 8, 16}
  MaxSegAlign = 8
  EhdrSize = 2
  PhdrSize = 1
  PnXnum = 9
  PhnumMax = 3
  InterpMax = 3
  NoPath = nopath
  Files <- MCFiles
  Bases = {4, 8, 12, 16, 20, 24, 28}
  Pairs = {1, 21}
  Types = {"DYN"}
  SizeKnown = {TRUE}
  Triples = {1, 3, 7, 21, 22}
  TableAt = {2}
INVARIANTS
  PhdrInsideLoad
CHECK_DEADLOCK FALSE
