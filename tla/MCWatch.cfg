SPECIFICATION Spec
CONSTANTS
  t1 = t1
  t2 = t2
  b1 = b1
  b2 = b2
  NoAddr = NoAddr
  Main = t1
  Threads <- TwoThreads
  Blocks <- TwoBlocks
  NSlots = 2
  MaxThreads = 2
  Capacity = 1
  MaxScan = 1
  ArmAfterReports = 0
  MayShutDown = FALSE
  MaxAllocs = 2
  MaxTraps = 1
  MaxFaults = 0
INVARIANTS OwnTrapConsumed OwnTrapAttributed RetiredIsNotCurrent RetiredIsOwed
SYMMETRY Symmetric
