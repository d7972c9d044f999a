CONSTANTS
  Width = 64
  MemSize = 20
  NoPC = NoPC
  Programs <- SomePrograms
SPECIFICATION FairSpec
INVARIANTS TypeOK NextPCPredicted QueueIsChain
PROPERTIES ImplementsPredictor CallsReturn
CHECK_DEADLOCK FALSE
