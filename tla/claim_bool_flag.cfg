SPECIFICATION ISpec
CONSTANTS
  Limit = 2
  Layouts <- JustTheKey
INVARIANT BoolFlagAsGiven
CHECK_DEADLOCK FALSE
