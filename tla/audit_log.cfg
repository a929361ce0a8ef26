SPECIFICATION ASpec
CONSTANTS
  Processes = {p1, p2}
  Plans <- MCPlans
  MaxFaults = 3
INVARIANT LossIsContained
PROPERTY WholeIsForever
SYMMETRY Symmetry
CHECK_DEADLOCK FALSE
