CONSTANTS
  ULong = 1048576
  UInt = 262144
  MaxInstructions = 3
  Runs <- AllRuns
  Numbers <- SomeNumbers
SPECIFICATION Spec
INVARIANTS TypeOK DecodesWord ConstructorsAgree StartsAsAsked HaltAddressRead
PROPERTIES ImplementsManual ErrataReal RegionShown
CHECK_DEADLOCK FALSE
