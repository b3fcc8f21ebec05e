SPECIFICATION Spec
CONSTANTS
  MaxCounter = 1
  MaxLosses = 1
  Partial = Partial
  NoNet = {}
  Refused = {}
  Vetoed = {}
  Env = {"power"}
INVARIANT HealthyNotFailed
CHECK_DEADLOCK FALSE
