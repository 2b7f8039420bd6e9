SPECIFICATION FairSpec
CONSTANTS
  p1 = p1
  p2 = p2
  p3 = p3
  NoOwner = free
  Producers <- Three
  NRings = 1
  Capacity = 2
  TouchInterval = 4
  MaxEvents = 4
  Setups <- Restarted
INVARIANTS Accounted LosesOnlyLapped
PROPERTY CatchesUp
CHECK_DEADLOCK FALSE
