SPECIFICATION ISpec
CONSTANTS
  Limit = 2
  Layouts <- JustTheKey
INVARIANT ValidatedBeforeRun
CHECK_DEADLOCK FALSE
