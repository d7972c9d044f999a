CONSTANT
  NHarts = 1
SPECIFICATION FairSpec
PROPERTY ResumeStarts
CHECK_DEADLOCK FALSE
