CONSTANTS
  Size = 6
  Align = 2
  PiecesBound = 3
SPECIFICATION RingFairSpec
INVARIANTS InBounds NoOverlapAtFirst
PROPERTIES StallEnds
CHECK_DEADLOCK FALSE
