SPECIFICATION Spec
CONSTANTS
  Faults = {"power", "net", "crypto", "creds", "nvs_write", "reboot"}
  MaxLosses = 3
  MaxEpoch = 2
  Attempts = 3
  MaxCreds = 8
  OneTime = FALSE
INVARIANTS TypeOK StoredIsWhole OnlineIsStored OnlyOperational
PROPERTIES NeverReenrolls
CHECK_DEADLOCK FALSE
