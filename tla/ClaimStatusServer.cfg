SPECIFICATION FairSpec
CONSTANTS
  Faults = {}
  MaxCalls = 2
  Requests = 2
  Waits = 2
  POLL_TICKS = 2
  Backlog = 2
  MaxLogRequests = 2
PROPERTY HeartbeatsGoOn
CHECK_DEADLOCK FALSE
