CONSTANTS
  Conn = {c1, c2}
  Nobody = Nobody
  Backlog = 2
  MaxFd = 5
  MaxSend = 1
  MaxRounds = 1
  MaxFaults = 1
SPECIFICATION FairSockSpec
INVARIANTS DeviceInAcceptOrder AnswerFollowsPacket
PROPERTIES ConnectionEnds TerminatesOnceAwake LeakedLockStopsDevice
CHECK_DEADLOCK FALSE
