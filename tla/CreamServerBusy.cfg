\* Two clients at any time, two workers.
SPECIFICATION FairSpec
CONSTANTS
  u1 = u1
  u2 = u2
  u3 = u3
  w1 = w1
  w2 = w2
  k1 = k1
  Main = Main
  NoThread = NoThread
  Junk = Junk
  NoClient = NoClient
  Clients <- TwoClients
  Workers <- TwoWorkers
  Keys <- OneKey
  Codes <- PutGetOther
PROPERTY
  EveryRequestServed
\* The process may exit, and it waits for ever when no client comes.
CHECK_DEADLOCK FALSE
