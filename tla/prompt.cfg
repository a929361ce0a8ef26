SPECIFICATION PSpec
CONSTANTS
  NPrompts = 3
  MaxLines = 3
INVARIANTS
  ConsentIsItsOwn
  NoStaleReader
PROPERTY
  OutcomeIsFinal
CHECK_DEADLOCK FALSE
