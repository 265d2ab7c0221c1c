CONSTANTS
  MaxNames = 4
  IndexBase = 2
  Positions = 3
  NameSpan = 16
  NameBound = 4
  MaxFences = 4
  MaxRef = 3
  FifoBound = 3
SPECIFICATION FairSpec
INVARIANTS SemaphoresOwned SignaledIsComplete
PROPERTIES StaysSignaled FinishDrains FlushedGetsSignaled
