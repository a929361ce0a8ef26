SPECIFICATION ASpec
CONSTANTS
  Processes = {p1, p2}
  Plans <- MCPlans
  MaxFaults = 3
INVARIANT PartialLastLineTolerated
SYMMETRY Symmetry
CHECK_DEADLOCK FALSE
