SPECIFICATION TSpec
CONSTANTS
  PageSize = 4
  WordMax = 127
  Pow2 = {1, 2, 4, 8, 16, 32, 64}
  MaxSegAlign = 8
  Nobody = nobody
  Sources <- MCSources
  CopyChunk = 2
  OtherLens = {4}
  Jobs = {j1, j2}
  Others = {o1}
  Names = {"pie", "bss", "exec"}
  HaveMmap = TRUE
  Fds = {TRUE, FALSE}
  MmapLo = 4
  MmapTop = 44
  HeapLo = 48
  HeapTop = 84
  Faults = {}
  MaxLoads = 1
INVARIANTS
  RegionsApart
  FakeAgrees
  FirstFitIsLowest
CHECK_DEADLOCK FALSE
