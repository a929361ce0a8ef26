SPECIFICATION CFairSpec
CONSTANTS
  Cases <- AllCases
  Input = 2
  PipeSize = 1
  Cap = 2
INVARIANTS
  OutputIsComplete
  CollectionIsCapped
PROPERTY CallEnds
CHECK_DEADLOCK FALSE
