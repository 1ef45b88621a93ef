\* Two threads, a home slot for each of two keys.
SPECIFICATION FairSpec
CONSTANTS
  t1 = t1
  t2 = t2
  t3 = t3
  k1 = k1
  k2 = k2
  k3 = k3
  NoKey = NoKey
  Free = Free
  Readers = Readers
  Threads <- TwoThreads
  Keys <- MCKeys
  Capacity = 2
  Hash <- OwnSlots
  MaxPuts = 3
INVARIANTS
  FindsLatest
PROPERTIES
  ImplementsKVStore
  OperationsReturn
