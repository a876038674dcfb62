CONSTANTS
  N = 2
  Writer = {w1, w2}
  Reader = {}
  MaxChunk = 2
  MaxBytes = 4
  MaxLen = 3
SPECIFICATION RaceSpec
INVARIANTS WritersKeepApart
CHECK_DEADLOCK FALSE
