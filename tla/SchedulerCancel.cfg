SPECIFICATION FairTraceSpec
CONSTANTS
  N = 4
  Plans <- RacePlans
  MaxParallel = 2
  MaxRetries = 0
  MaxPatches = 1
  Cancellable = TRUE
INVARIANTS
  WorkersCounted
  NoOrphanWork
  SkipJustified
  TurnsAreTheLoops
  SuccessReachesExits
  IInv
  LogRebuildsRun
  EveryCutIsCoherent
  WorkIsBounded
  FailedOnlyAfterExhaustion
PROPERTIES
  TerminalAbsorbing
  DrainEndsUnlessDropped
  ImplementsGraphRun
CHECK_DEADLOCK FALSE
