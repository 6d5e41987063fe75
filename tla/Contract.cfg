SPECIFICATION Spec
CONSTANTS
  K = 2
  MaxRequired = 3
  Schemas <- AllSchemas
  Outputs <- AllOutputs
INVARIANTS
  TypeOK
  VerdictIsTheRules
  ReportIsStable
