CONSTANTS
  N = 2
  U32 = 1000
  MaxChunk = 2
  MaxBytes = 6
  MaxLen = 2
  Positions <- MCPositions
  Handle = {h1, h2}
  SeekOffs <- MCSeekOffs
SPECIFICATION ReadsSpec
SYMMETRY DriverSymmetry
INVARIANTS ReadExactWhenAligned WholeReadExact SeektoErrorsCancel FreshReadFailsOnceEvicted ReadsContinue
PROPERTIES ImplementsHistory
CHECK_DEADLOCK FALSE
