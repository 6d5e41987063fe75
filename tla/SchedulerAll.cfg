SPECIFICATION FairSpec
CONSTANTS
  N = 3
  Plans <- AllPlans
  MaxParallel = 2
  MaxRetries = 1
  MaxPatches = 0
  Cancellable = TRUE
INVARIANTS
  TypeOK
  JoinsHonoured
  DestructiveRunsAlone
  StallHasCause
PROPERTIES
  RunReturns
  ReadyIsServed
CHECK_DEADLOCK FALSE
