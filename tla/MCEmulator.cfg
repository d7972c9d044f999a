CONSTANT
  NHarts = 2
SPECIFICATION FairSpec
INVARIANTS TypeOK ThreadsJoined ReachableByUser
PROPERTIES PauseHonoured FaultStops PauseTakesHold GetsOut
CHECK_DEADLOCK FALSE
