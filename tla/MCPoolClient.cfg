SPECIFICATION ClientSpec
CONSTANTS
  Threads = {t1, t2, t3}
  MAX_STARTS = 3
INVARIANTS
  ClientTypeOK
  StatusIsTrue
PROPERTIES
  StopIsFinal
CHECK_DEADLOCK FALSE
