CONSTANTS
  N = 4
  LogProcs = 0
  MinI = 2
  MaxI = 2
  MinJ = 1
  TargetI = 1
  MaxGates = 6
  PreludeKind = "mixed"
  MaxShort = 2
  MaxRerun = 1
  LaneBits = 1
  Modes <- PlainAndExplicitX
  Pi = 4
  Calls <- MCCalls
SPECIFICATION Spec
INVARIANT TypeOK
INVARIANT CapacityExact
INVARIANT StateIsProgramState
PROPERTY NothingWaitsAcrossExpand
CONSTRAINT Bounded
