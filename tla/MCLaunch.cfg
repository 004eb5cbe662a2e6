SPECIFICATION FairLaunchSpec
CONSTANTS
  PageSize = 4
  WordMax = 127
  Pow2 = {1, 2, 4, 8, 16, 32, 64}
  MaxSegAlign = 8
  EhdrSize = 1
  PhdrSize = 1
  PnXnum = 9
  PhnumMax = 4
  InterpMax = 3
  NoPath = nopath
  Nobody = nobody
  Jobs <- MCJobs
  Sources <- MCSources
  Disk <- MCDisk
  CopyChunk = 2
  OtherLens = {4}
  Procs = {p1, c1, c2}
  First = p1
  Others = {}
  OnDisk = {"dyn", "ld", "strange", "fixed"}
  Boot = {"dyn", "fixed", "strange"}
  Openers = {"vfs", "initrd"}
  HaveMmap = TRUE
  Fds = {TRUE, FALSE}
  MmapLo = 4
  MmapTop = 20
  HeapLo = 40
  HeapTop = 40
  Faults = {}
  MaxLoads = 1

  
  
PROPERTIES
  RunningProgramUntouched
  RunEnds
CHECK_DEADLOCK FALSE
