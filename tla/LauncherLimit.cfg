SPECIFICATION Spec
CONSTANTS
  Cases <- OnePoint
  NoSweep = "none"
  MaxLaunches = 1
INVARIANT
  LimitIsReported
