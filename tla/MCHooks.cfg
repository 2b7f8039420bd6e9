SPECIFICATION FaultSpec
CONSTANTS
  t1 = t1
  t2 = t2
  a = a
  b = b
  NoBlock = NoBlock
  Threads <- TwoThreads
  Blocks <- TwoBlocks
  Setups <- EverySetup
  MaxOdd = 1
  MaxDepth = 2
  MaxCalls = 4
  MaxBlindCalls = 2
  MaxWrong = 1
  MaxRegs = 2
  MaxFaults = 1
INVARIANT StartupIsHonest
 
INVARIANT FreedIsRecorded
INVARIANT FreeRecordIsOld
INVARIANT VerdictIsRight
SYMMETRY Symmetric
