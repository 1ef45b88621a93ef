\* Three clients, one after the other, two workers, one key.
SPECIFICATION Spec
CONSTANTS
  u1 = u1
  u2 = u2
  u3 = u3
  w1 = w1
  w2 = w2
  k1 = k1
  Main = Main
  NoThread = NoThread
  Junk = Junk
  NoClient = NoClient
  Clients <- ThreeClients
  Workers <- TwoWorkers
  Keys <- OneKey
  Codes <- AllCodes
SYMMETRY Symmetry
CONSTRAINT
  InTurn
INVARIANTS
  AnswersAreRight
  DoneIsDone
\* The process may exit, and it waits for ever when no client comes.
CHECK_DEADLOCK FALSE
