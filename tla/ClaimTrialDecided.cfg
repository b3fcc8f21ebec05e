SPECIFICATION FairSpec
CONSTANTS
  MaxCounter = 1
  MaxLosses = 0
  Partial = Partial
  NoNet = {}
  Refused = {}
  Vetoed = {}
  Env = {"identity"}
PROPERTY TrialDecided
CHECK_DEADLOCK FALSE
