SPECIFICATION ISpec
CONSTANTS
  Limit = 2
  Layouts <- JustTheKey
INVARIANT OnlyFlagsBeatStdin
CHECK_DEADLOCK FALSE
