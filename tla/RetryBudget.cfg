SPECIFICATION Spec
CONSTANTS
  N = 2
  Plans <- AllPlans
  MaxParallel = 2
  MaxRetries = 2
  MaxPatches = 1
  Cancellable = FALSE
INVARIANTS
  RetryBudgetHonoured
