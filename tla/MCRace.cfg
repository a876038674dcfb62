CONSTANTS
  N = 2
  Writer = {w1}
  Reader = {r1}
  MaxChunk = 2
  MaxBytes = 5
  MaxLen = 3
SPECIFICATION RaceSpec
INVARIANTS RingQuiet ReadsBesideWriter EarlyFaultsAtEnd LateFaultsFromEviction
CHECK_DEADLOCK FALSE
