SPECIFICATION ISpec
CONSTANTS
  Limit = 2
  Layouts <- TheLayouts
INVARIANTS
  FlagsAreUnambiguous
  InputArrives
CHECK_DEADLOCK FALSE
