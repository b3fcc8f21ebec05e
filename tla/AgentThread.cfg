SPECIFICATION FairSpec
CONSTANTS
  Faults = {"start", "wifi", "listen", "accept", "net"}
  MaxCalls = 2
  Requests = 2
  Waits = 2
  POLL_TICKS = 2
  Backlog = 2
  MaxLogRequests = 2
INVARIANTS StartedOnce NoLostJoin ShipsWhatIsWanted
PROPERTIES BeatsUnlessHeld LogsShipped OffboardStops
CHECK_DEADLOCK FALSE
