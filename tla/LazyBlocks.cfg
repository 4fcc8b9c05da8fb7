CONSTANTS
  N = 3
  LogProcs = 1
  MinI = 1
  MaxI = 2
  MinJ = 1
  TargetI = 1
  MaxGates = 3
  PreludeKind = "none"
  MaxShort = 3
  MaxRerun = 1
  LaneBits = 1
  Modes <- PlainOnly
  Pi = 4
  Calls <- MCCalls
SPECIFICATION Spec
INVARIANT StateIsProgramState
CONSTRAINT Bounded
