SPECIFICATION Spec
CONSTANTS
  MaxCounter = 2
  MaxLosses = 2
  Partial = Partial
  NoNet = {}
  Refused = {}
  Vetoed = {1}
  Env = {"power", "wifi", "net", "start", "identity", "nvs_write", "upgrade", "retarget", "offboard"}
INVARIANTS TypeOK NoDowngrade FallbackIntact OnlineIsKept RequestedIsPending RollbackInv
PROPERTIES PromotedIsKept ImplementsDevice
CHECK_DEADLOCK FALSE
