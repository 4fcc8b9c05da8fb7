CONSTANTS
  SegLen = 2
  Precision = 8
  MaxSum = 16
  Length = 4
  Ranks <- TwoRanks
  Buffers <- LittleAndMore
  Scripts <- MCScripts
SPECIFICATION Spec
INVARIANT TypeOK
INVARIANT RanksAgree
INVARIANT ResultsArePresent
INVARIANT RowsMatchThresholds
INVARIANT EveryShotCollected
PROPERTY EveryCallReturns
