CONSTANTS
  Width = 64
  MemSize = 48
  Reg = {0, 1, 2}
  NoVal = NoVal
  NoPC = NoPC
  GarbageRD = {0}
  HaltAddrs = {NoPC}
  DataAddress = {28, 32, 36, 40}
  FetchFirst = TRUE
  FlushedPrograms = {}
  Programs <- ControlPrograms
SPECIFICATION Spec
INVARIANT OperandsUpToDate
PROPERTIES ImplementsISA PredictionCheckExact RedirectTaken
CHECK_DEADLOCK FALSE
