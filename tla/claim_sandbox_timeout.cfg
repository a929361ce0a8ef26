SPECIFICATION CFairSpec
CONSTANTS
  Cases <- StuckRunners
  Input = 2
  PipeSize = 1
  Cap = 2
PROPERTY SandboxIsTimed
CHECK_DEADLOCK FALSE
