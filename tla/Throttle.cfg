SPECIFICATION FairSpec
CONSTANTS
  w1 = w1
  w2 = w2
  w3 = w3
  Worker <- ThreeWorkers
  Backend <- OneOfEach
  Burst = 2
  Timed <- OneTimed
  Contracted <- OneContracted
  MaxTicks = 1
INVARIANTS
  TypeOK
  CallsAreThrottled
  FirstBurstDoesNotWait
PROPERTIES
  EscalationIsEarned
  TimedWorkersReport
  StrayWorkersLeave
