SPECIFICATION AdmissionSpec
CONSTANTS
  N = 3
  Documents <- Files
INVARIANTS
  RunsOnlyWellFormed
