SPECIFICATION Spec
CONSTANTS
  p1 = p1
  p2 = p2
  p3 = p3
  NoOwner = free
  Producers <- Three
  NRings = 2
  Capacity = 1
  TouchInterval = 2
  MaxEvents = 3
  Setups <- HandedOver
INVARIANTS WriterOwnsRing NoTornInGeneration DeliveredOnce OneRingPerThread
SYMMETRY Symm
CHECK_DEADLOCK FALSE
