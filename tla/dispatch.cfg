SPECIFICATION FairSpec
CONSTANT Invocations <- MCInvocations
INVARIANTS
  TypeOK
  AuthorizedEffect
  RefusalIsInert
  SuccessMeansDone
  AuditFaithful
PROPERTIES
  NothingAfterExit
  GatesComeFirst
  ImplementsGatedExecution
  CallsEnd
CHECK_DEADLOCK FALSE
