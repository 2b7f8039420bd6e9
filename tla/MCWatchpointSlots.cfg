CONSTANTS
  t1 = t1
  t2 = t2
  a1 = a1
  a2 = a2
  Threads <- MCThreads
  Sweeper = sweeper
  Addrs <- MCAddrs
  NoAddr = none
  NSlots = 2
  ClaimAttempts = 2
  MaxOps = 4
SYMMETRY Symm
SPECIFICATION Spec
INVARIANTS OneWriter NoTornRead ClaimTakesFreeSlot TripMarksReported ShutdownFreesAll
CHECK_DEADLOCK FALSE
