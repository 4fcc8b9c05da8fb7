SPECIFICATION Spec
CONSTANTS
  Cases <- TwoPoints
  NoSweep = "none"
  MaxLaunches = 3
INVARIANTS
  CommitOrder
  CutoffRespected
  RowsBelongToRecord
  ErrorsAreTold
PROPERTY
  LaunchEnds
CONSTRAINT Bounded
