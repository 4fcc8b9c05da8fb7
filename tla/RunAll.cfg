SPECIFICATION Spec
CONSTANTS
  Families <- AllFamilies
  Baselines <- AllBaselines
  Ablations <- AllAblations
  MaxLaunches = 2
INVARIANT EverySuiteRuns
CHECK_DEADLOCK FALSE
