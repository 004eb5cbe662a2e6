SPECIFICATION AppSpec
CONSTANTS
  WordBytes = 2
  SpAlign = 4
  ArgMax = 14
  Oom = {TRUE, FALSE}
  Boots <- MCBoots
  Stacks <- MCStacks
  Systems <- MCSystems
  Reads <- MCReads
  FileLen = 4
  Sizes = {0, 20, 45, 56, 66, 80, 92}
INVARIANTS
  ProgramReadsItsArguments
  WriterNeverRefuses
  QuarterFits
  ProgramSeesCommandLine
  LookupIsExecvp
  FoundIsOpened
  ReadsWhatItAsked
CHECK_DEADLOCK FALSE
