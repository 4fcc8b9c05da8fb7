CONSTANTS
  Inputs <- MCInputs
SPECIFICATION Spec
CHECK_DEADLOCK FALSE
INVARIANTS
  TypeOK
  Equivalent
  SupportCovered
  SupportNeverGrows
