CONSTANTS
  Conn = {c1, c2}
  Nobody = Nobody
  Backlog = 1
  MaxFd = 6
  MaxSend = 1
  MaxRounds = 1
  MaxFaults = 0
SPECIFICATION FairSockSpec
PROPERTIES TerminatesAfterSignal
CHECK_DEADLOCK FALSE
