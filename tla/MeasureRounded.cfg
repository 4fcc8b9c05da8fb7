\* Four segments of one address, sums of two bits.
CONSTANTS
  SegLen = 1
  Precision = 2
  MaxSum = 16
  Length = 3
  Ranks <- OneRank
  Buffers <- LittleAndMore
  Scripts <- OneShot
SPECIFICATION Spec
INVARIANT AllResolved
