SPECIFICATION PSpec
CONSTANTS
  NPrompts = 2
  MaxLines = 1
INVARIANT
  ZeroWaits
CHECK_DEADLOCK FALSE
