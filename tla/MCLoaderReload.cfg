SPECIFICATION FairSpec
CONSTANTS
  PageSize = 4
  WordMax = 127
  Pow2 = {1, 2, 4, 8, 16, 32, 64}
  MaxSegAlign = 8
  Nobody = nobody
  Sources <- MCSources
  CopyChunk = 2
  OtherLens = {4}
  Jobs = {j1}
  Others = {o1}
  Names = {"pie", "bss", "exec", "entry", "high", "big"}
  HaveMmap = TRUE
  Fds = {TRUE, FALSE}
  MmapLo = 4
  MmapTop = 28
  HeapLo = 80
  HeapTop = 100
  Faults = {"unmap", "protect"}
  MaxLoads = 2
INVARIANTS
  RightsMatchFlags
  CodeVisible
  FailedFillLeavesNothing
  ImageMatchesElf
PROPERTIES
  LoadEnds
CHECK_DEADLOCK FALSE
