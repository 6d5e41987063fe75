SPECIFICATION Spec
CONSTANTS
  Call <- Dispatches
  NodeOf <- OnTwoNodes
  HasFn = TRUE
  Owed <- OneFailure
  Scripted = {"a"}
  Width = 2
INVARIANTS
  CallsRecordsEvery
CHECK_DEADLOCK FALSE
