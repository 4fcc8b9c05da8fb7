CONSTANTS
  N = 3
  MaxRerun = 1
  Qubits <- MCQubits
  Instruction <- MCInstruction
  MaxCircuit = 4
  Gate <- MCGate
  MaxGates = 8
  Calls <- MCCalls
  Pi = 4
  Amp <- Amps
  Zero = 0
  One = 1
  Rot <- RotateBy
  HalfBack <- HalfBackBy
  Even <- GateEven
  Odd <- GateOdd
SPECIFICATION LoaderSpec
INVARIANT TypeOK
INVARIANT NoAliasing
INVARIANT NeighboursDifferInOneQubit
INVARIANT SolveCorrect
INVARIANT SelectorReadsRow
INVARIANT AnalyzerAgrees
PROPERTY RefinesCircuit
PROPERTY MatrixFollows
CONSTRAINT Bounded
