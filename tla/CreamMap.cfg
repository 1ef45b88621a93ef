\* Three threads, two keys that collide, two slots.
SPECIFICATION Spec
CONSTANTS
  t1 = t1
  t2 = t2
  t3 = t3
  k1 = k1
  k2 = k2
  k3 = k3
  NoKey = NoKey
  Free = Free
  Readers = Readers
  Threads <- MCThreads
  Keys <- MCKeys
  Capacity = 2
  Hash <- Colliding
  MaxPuts = 3
SYMMETRY Symmetry
INVARIANTS
  TypeOK
  WriterExcludesReaders
  NoDoubleFree
  AnswerAliveInside
  AnswersAreOwn
  PresentIsFound
  SizeCountsEntries
PROPERTIES
  StableWhileRead
  EvictsOnlyWhenFullUncleared
