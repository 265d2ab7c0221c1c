CONSTANTS
  FifoBound = 3
  Renderbuffers = {1, 2}
  Framebuffers = {1}
  None = none
  Modes = {"back", "front"}
  CountBound = 1
SPECIFICATION Spec
INVARIANTS TargetsFollow ShownNotDrawn
PROPERTIES FramesShown
CHECK_DEADLOCK FALSE
