SPECIFICATION Spec
CONSTANTS
  Sizes <- ThreeSizes
  Repeats = 1
  Limit = 2
  MaxForeign = 1
INVARIANTS
  TimeoutMeansSilence
  ReportIsRecorded
  RowsAccount
PROPERTY
  EndsAfterReady
