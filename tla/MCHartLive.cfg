CONSTANTS
  Width = 64
  MemSize = 48
  Reg = {0, 1, 2}
  NoVal = NoVal
  NoPC = NoPC
  GarbageRD = {0, 1}
  HaltAddrs = {NoPC, 24}
  DataAddress = {0, 4, 8, 12, 16, 20, 24, 28, 32, 36, 40}
  FetchFirst = FALSE
  FlushedPrograms = {}
  Programs <- AnyPrograms
SPECIFICATION FairSpec
PROPERTY KeepsExecuting
CHECK_DEADLOCK FALSE
