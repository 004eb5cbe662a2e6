SPECIFICATION Spec
CONSTANTS
  PageSize = 4
  WordMax = 31
  Pow2 = {1, 2, 4, 8, 16}
  MaxSegAlign = 8
  EhdrSize = 2
  PhdrSize = 1
  PnXnum = 9
  PhnumMax = 3
  InterpMax = 3
  NoPath = nopath
  Files <- MCFiles
  Bases = {4, 8, 12, 16, 20, 24, 28}
  Pairs = {1, 2, 3, 4, 5, 6, 7, 8, 9, 10, 11, 12, 13, 14, 15, 16, 17, 18, 19, 20, 21, 22, 23, 24, 25}
  Types = {"DYN", "EXEC"}
  SizeKnown = {TRUE, FALSE}
  Triples = {1, 2, 3, 4, 5, 6, 7, 8, 16, 21, 22}
  TableAt = {2}
INVARIANTS
  ParseEstablishesImage
  SegmentsApart
  FileMapsAlign
  PlanNeverPanics
  FoundTableIsMapped
CHECK_DEADLOCK FALSE
