CONSTANTS
  Positions = 2
  NameSpan = 16
  NameBound = 3
  Targets = {array, uniform, uniform0}
  ArrayTarget = array
  RangeTarget = uniform
  IndexedTarget = uniform0
  VertexArrays = {0, 1}
  MaxAttribs = 2
SPECIFICATION Spec
INVARIANTS BindingsAgree RefsCounted HeldAreConstructed
PROPERTIES DeletedOnlyFade
