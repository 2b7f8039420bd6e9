SPECIFICATION Spec
CONSTANTS
  t1 = t1
  t2 = t2
  b1 = b1
  b2 = b2
  NoAddr = NoAddr
  Main = t1
  Threads <- OneThread
  Blocks <- TwoBlocks
  NSlots = 3
  MaxThreads = 2
  Capacity = 1
  MaxScan = 1
  ArmAfterReports = 0
  MayShutDown = FALSE
  MaxAllocs = 3
  MaxTraps = 0
  MaxFaults = 0
INVARIANT OneSlotPerBlock
