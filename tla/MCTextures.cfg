CONSTANTS
  small = small
  mipmapped = mipmapped
  Textures = {small, mipmapped}
  NoTexture = notexture
  LevelsOf <- MCLevelsOf
  Formats = {f, g}
  Units = {0, 1}
  Indices = {0}
  Torn = torn
  FifoBound = 1
SPECIFICATION Spec
INVARIANTS  NothingTorn SamplesLatest
SYMMETRY Symmetry
