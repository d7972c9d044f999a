CONSTANT
  NHarts = 2
SPECIFICATION Spec
INVARIANT FlushesAlone
CHECK_DEADLOCK FALSE
