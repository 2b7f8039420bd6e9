SPECIFICATION Spec
CONSTANTS
  w1 = w1
  w2 = w2
  r1 = r1
  a = a
  b = b
  Writers <- TwoWriters
  Offerers <- TwoWriters
  Searchers <- OneSearcher
  Keys <- TwoKeys
  Addresses <- TwoKeys
  Capacity = 2
  QueueCapacity = 2
  MaxRecords = 4
  MaxEvents = 2
  MaxFinds = 1
  MaxBatch = 2
  MaxScan = 2
  MaxAttempts = 2
  MaxOffers = 5
INVARIANT FoundInOrder
INVARIANT FindsNewest
INVARIANT DrainedInOrder
INVARIANT DropsCounted
INVARIANT LossCounted
SYMMETRY Symmetric
