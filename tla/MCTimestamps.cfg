CONSTANTS
  Objects = {a, b}
  Reset = {a, b}
  MaxTimestamp = 5
  MaxCount = 2
  FifoBound = 4
SPECIFICATION FairSpec
INVARIANTS ExclusiveAtFirst EpochInvAtFirst 
PROPERTIES TakesTurns WaitEnds CreateEnds
CHECK_DEADLOCK FALSE
