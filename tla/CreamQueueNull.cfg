\* Two producers, two consumers, nobody invalidates the queue.
SPECIFICATION Spec
CONSTANTS
  p1 = p1
  p2 = p2
  c1 = c1
  c2 = c2
  d1 = d1
  d2 = d2
  NoThread = NoThread
  Producers <- MCProducers
  Consumers <- MCConsumers
  Destroyers <- NoDestroyer
  MaxCalls = 4
  AllocMayFail = FALSE
INVARIANT
  DequeueFindsItem
\* Calls to enqueue are bounded, and an idle consumer waits for one for ever.
CHECK_DEADLOCK FALSE
