SPECIFICATION FairSpec
CONSTANTS
  Faults = {"power", "route"}
  MaxLosses = 3
  MaxEpoch = 2
  Attempts = 3
  MaxCreds = 8
  OneTime = TRUE
PROPERTIES EnrollsEventually
CHECK_DEADLOCK FALSE
