SPECIFICATION FairSpec
CONSTANTS
  t1 = t1
  t2 = t2
  b1 = b1
  b2 = b2
  NoAddr = NoAddr
  Main = t1
  Threads <- OneThread
  Blocks <- TwoBlocks
  NSlots = 1
  MaxThreads = 2
  Capacity = 1
  MaxScan = 1
  ArmAfterReports = 1
  MayShutDown = TRUE
  MaxAllocs = 1
  MaxTraps = 1
  MaxFaults = 1
 
PROPERTIES RetiredLeaves
