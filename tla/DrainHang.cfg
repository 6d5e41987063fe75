SPECIFICATION FairSpec
CONSTANTS
  N = 2
  Plans <- AllPlans
  MaxParallel = 2
  MaxRetries = 0
  MaxPatches = 0
  Cancellable = TRUE
PROPERTIES
  CancelledRunReturns
CHECK_DEADLOCK FALSE
