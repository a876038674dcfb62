CONSTANTS
  Conn = {c1, c2, c3}
  Nobody = Nobody
  Backlog = 1
  MaxFd = 4
  MaxSend = 2
  MaxRounds = 4
  MaxFaults = 1
  N = 2
  U32 = 1000
  MaxBytes = 6
  BufSize = 2
  Positions <- MCPositions
  Seeks <- MCSeeks
  MaxPacket = 6
  MaxTail = 1
SPECIFICATION ServerSpec
SYMMETRY SystemSymmetry
INVARIANTS SystemTypeOK OnlyFailuresLeak
  UnaskedStop TextIsAnsweredUntilForgotten SeekIsAnsweredFromTarget
  CutPacketsJoinTheNextLine SeekKeepsItsOperands
CHECK_DEADLOCK FALSE
