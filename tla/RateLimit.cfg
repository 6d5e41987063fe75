SPECIFICATION Spec
CONSTANTS
  w1 = w1
  w2 = w2
  w3 = w3
  Worker <- ThreeWorkers
  Backend <- GeminiOnly
  Burst = 2
  Timed <- OneTimed
  Contracted <- OneContracted
  MaxTicks = 1
INVARIANTS
  RateLimitIsTransient
