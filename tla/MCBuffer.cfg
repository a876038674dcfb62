CONSTANTS
  N = 3
  U32 = 8
  MaxChunk = 2
  MaxBytes = 11
  MaxLen = 3
  Positions <- MCPositions
SPECIFICATION Spec
INVARIANTS TypeOK RingHoldsRecentLines PendingIntact StartCharDrift SearchStaysInArray
  FindEntryExactFromOldest
CHECK_DEADLOCK FALSE
