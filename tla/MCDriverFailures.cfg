CONSTANTS
  N = 2
  U32 = 1000
  MaxChunk = 2
  MaxBytes = 6
  MaxLen = 2
  MaxOops = 2
  Positions <- MCPositions
  MaxLines = 2
  Major = {m1, m2, m3}
  None = None
  Script = {s1, s2}
  MaxFaults = 2
  MaxOpen = 1
  MaxWrites = 4
  MaxUnloads = 2
SPECIFICATION FailuresSpec
SYMMETRY FailuresSymmetry
INVARIANTS OnlyOldestLost LaterBytesInPlace LostLineHidesTheRest
  OpenFileHasDevice NodeMatchesDevice LeakBounds
PROPERTIES FailedLoadIsFinal
CHECK_DEADLOCK FALSE
