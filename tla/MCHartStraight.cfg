CONSTANTS
  Width = 64
  MemSize = 48
  Reg = {0, 1, 2}
  NoVal = NoVal
  NoPC = NoPC
  GarbageRD = {0}
  HaltAddrs = {NoPC, 12}
  DataAddress = {28, 32, 36, 40}
  FetchFirst = TRUE
  FlushedPrograms <- FlushPrograms
  Programs <- StraightPrograms
SPECIFICATION StraightSpec
INVARIANTS TypeOK OperandsUpToDate
PROPERTIES ImplementsISA RedirectTaken
CHECK_DEADLOCK FALSE
