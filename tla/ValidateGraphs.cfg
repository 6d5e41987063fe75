SPECIFICATION AdmissionFairSpec
CONSTANTS
  N = 4
  Documents <- Files
INVARIANTS
  TypeOK
  OrderIsLeast
  KahnDecides
  WalksAreClosures
  AcceptsExactly
  RunsExactlyAdmissible
PROPERTIES
  CheckEnds
