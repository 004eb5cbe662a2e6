SPECIFICATION Spec
CONSTANTS
  PageSize = 4
  WordMax = 127
  Pow2 = {1, 2, 4, 8, 16, 32, 64}
  MaxSegAlign = 8
  Nobody = nobody
  Sources <- MCSources
  CopyChunk = 2
  OtherLens = {4}
  Jobs = {j1}
  Others = {}
  Names = {"pie"}
  HaveMmap = FALSE
  Fds = {FALSE}
  MmapLo = 4
  MmapTop = 4
  HeapLo = 8
  HeapTop = 40
  Faults = {}
  MaxLoads = 2
INVARIANTS
  StoresAreWritable
CHECK_DEADLOCK FALSE
