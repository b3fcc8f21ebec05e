SPECIFICATION LossySpec
CONSTANTS
  MaxCounter = 3
  MaxLosses = 2
  Partial = Partial
  NoNet = {1}
  Refused = {2}
  Vetoed = {}
  Env = {"power", "net"}
INVARIANTS FailedWasRejected ReportedWasRejected
PROPERTIES NoReattempt BadTargetIdles GoodTargetIsApplied
