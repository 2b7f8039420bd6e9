SPECIFICATION Spec
CONSTANTS
  t1 = t1
  t2 = t2
  b1 = b1
  b2 = b2
  b3 = b3
  NoBlock = NoBlock
  Threads <- TwoThreads
  Blocks <- ThreeBlocks
  Size <- Sizes
  Capacity = 2
  WordSize = 16
  ReserveAttempts = 2
  MaxDrains = 3
  Setups <- TwoLaps
INVARIANT DrainsHeld
