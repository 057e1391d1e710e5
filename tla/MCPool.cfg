SPECIFICATION PoolSpec
CONSTANTS
  Conn = {k}
  Others = {o}
  Variants = {0, 1}
  PPLNS_WINDOW = 2
  Totals = {0, 7}
  MAX_TIPS = 1
  MAX_CONNECTS = 1
INVARIANTS
  PoolTypeOK
  PayoutsFollowWindow
  RefusalsAreCrossings
CHECK_DEADLOCK FALSE
PROPERTIES
  MinersReachTheTip
