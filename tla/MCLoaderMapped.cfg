SPECIFICATION Spec
CONSTANTS
  PageSize = 4
  WordMax = 127
  Pow2 = {1, 2, 4, 8, 16, 32, 64}
  MaxSegAlign = 8
  Nobody = nobody
  Sources <- MCSources
  CopyChunk = 2
  OtherLens = {4}
  Jobs = {j1, j2}
  Others = {o1}
  Names = {"pie", "exec"}
  HaveMmap = TRUE
  Fds = {TRUE}
  MmapLo = 4
  MmapTop = 40
  HeapLo = 80
  HeapTop = 80
  Faults = {}
  MaxLoads = 1
INVARIANTS
  TypeOK
  ReservationHeld
  ImageMatchesElf
PROPERTIES
  NeverEvicts
  ImplementsImageSpace
CHECK_DEADLOCK FALSE
