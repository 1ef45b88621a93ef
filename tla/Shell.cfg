\* Two process ids, given again when they are free.
SPECIFICATION FairSpec
CONSTANTS
  p1 = p1
  p2 = p2
  Zero = Zero
  NoPid = NoPid
  Junk = Junk
  Pids <- TwoPids
  MaxForks = 3
  MaxPresses = 3
INVARIANTS
  TypeOK
  SuspendIsDue
  StoppedIsListed
  EntryIsItsCommand
PROPERTIES
  ListQuietAtPrompt
  PromptReturns
\* The shell may end.
CHECK_DEADLOCK FALSE
