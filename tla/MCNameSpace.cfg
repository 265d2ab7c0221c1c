CONSTANTS
  MaxNames = 5
  Finite = TRUE
  UserBit = TRUE
  Positions = 3
  NameSpan = 16
  NameBound = 9
SPECIFICATION Spec
INVARIANTS QueueIsFreeList NoNameLost FiniteNamesInRange
PROPERTIES FreshNames GrowOnlyWhenFull
