SPECIFICATION SyncSpec
CONSTANTS
  A = A
  B = B
  C = C
  g = g
  a1 = a1
  a2 = a2
  b2 = b2
  c1 = c1
  Nodes = {A, B, C}
  Dials <- Line
  Blocks = {g, a1, a2, b2, c1}
  Genesis = g
  Parent <- Tree
  Weight <- HeavyC
  Author <- Authors
  Before <- AAhead
  MAX_SYNC_BATCH = 1
INVARIANTS
  SyncTypeOK
  BansAreOvertakings
PROPERTIES
  NeighboursAgree
  TrafficEnds
CHECK_DEADLOCK FALSE
