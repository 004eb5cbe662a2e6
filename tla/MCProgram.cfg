SPECIFICATION FairProgSpec
CONSTANTS
  PageSize = 4
  WordMax = 127
  Pow2 = {1, 2, 4, 8, 16, 32, 64}
  MaxSegAlign = 8
  EhdrSize = 1
  PhdrSize = 1
  PnXnum = 9
  PhnumMax = 4
  InterpMax = 3
  NoPath = nopath
  Nobody = nobody
  Jobs <- MCJobs
  Sources <- MCSources
  Disk <- MCDisk
  CopyChunk = 2
  OtherLens = {4}
  Procs = {p1}
  Others = {o1}
  OnDisk = {"static", "dyn", "two", "fixed", "ld", "orphan", "strange", "nested", "unnamed", "stack", "broken", "alien", "script"}
  Boot = {"static", "two", "fixed", "orphan", "strange", "nested", "unnamed", "stack", "broken", "alien", "script", "nowhere"}
  Openers = {"vfs", "initrd"}
  HaveMmap = TRUE
  Fds = {TRUE, FALSE}
  MmapLo = 4
  MmapTop = 28
  HeapLo = 40
  HeapTop = 52
  Faults = {"read"}
  MaxLoads = 1
INVARIANTS
  
  SourcesClosed
  
  AuxvDescribesMemory
PROPERTIES
  UsesLoader
  ProgramStarts
CHECK_DEADLOCK FALSE
