CONSTANTS
  Buffers = {b, c}
  NoBuffer = none
  VertexArrays = {0}
  Attribs = {0}
  Programs = {p}
  NoProgram = noprogram
  attribs_enabled <- MCEnabled
  attrib_assignments <- MCAssignments
  Freed = freed
  MaxTimestamp = 4
  MaxCount = 2
  FifoBound = 2
SYMMETRY Symmetry
SPECIFICATION SharingSpec
INVARIANTS FetchedExclusive
CHECK_DEADLOCK FALSE
