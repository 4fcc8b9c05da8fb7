CONSTANTS
  N = 4
  LogProcs = 2
  MinI = 2
  MaxI = 2
  MinJ = 1
  TargetI = 1
  MaxGates = 6
  PreludeKind = "spread"
  MaxShort = 2
  MaxRerun = 1
  LaneBits = 1
  Modes <- PlainAndEager
  Pi = 4
  Calls <- MCWorkerCalls
SPECIFICATION Spec
INVARIANT UnusedIsZero
INVARIANT PhasesAgree
PROPERTY RefinesCircuit
CONSTRAINT Bounded
