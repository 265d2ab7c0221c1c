CONSTANTS
  Shaders = {v, w}
  FifoBound = 2
SPECIFICATION Spec
INVARIANTS ShadersHeld ProgramFollows UniformsFollow NothingFreed
