SPECIFICATION GSpec
CONSTANT Sessions <- MCSessions
INVARIANTS
  VerdictsAgree
  ControlNeedsConsent
CHECK_DEADLOCK FALSE
