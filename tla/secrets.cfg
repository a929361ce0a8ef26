SPECIFICATION MCSpec
CONSTANTS
  Files = {"ours", "theirs"}
  Environments <- MCEnvironments
  Secret <- MCSecret
  MaxChanges = 2
INVARIANTS
  OwnSecret
  LostForCause
  HeaderIsClean
