SPECIFICATION HistorySpec
CONSTANTS
  t1 = t1
  t2 = t2
  a = a
  b = b
  c = c
  Empty = Empty
  Tombstone = Tombstone
  Threads <- TwoThreads
  Keys <- ThreeKeys
  Mix <- FirstCell
  Uses <- Mixes
  Capacity = 2
  MaxProbe = 2
  ClaimAttempts = 2
  MaxCalls = 4
INVARIANT OneWriter
INVARIANT EntryWhole
INVARIANT NoHole
PROPERTY EvictsOnlyFreed
PROPERTY Implements
SYMMETRY Symmetric
