CONSTANTS
  LogProcs = 1
  Segments = 4
  Gates = 3
SPECIFICATION Spec
INVARIANT KernelReadsPreviousGate
INVARIANT EverySegmentOncePerGate
INVARIANT NoWriteUnderSend
INVARIANT TwoSlotsSuffice
INVARIANT NothingLeftBehind
PROPERTY EveryWorkerFinishes
