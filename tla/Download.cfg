SPECIFICATION FairSpec
CONSTANTS
  BUF = 4
  RB = 2
  BLOCK = 2
  SLOT = 5
  Sizes = {0, 1, 3, 4, 5, 6}
  HeadLens = {2, 4, 5}
  BodyLens = {0, 3, 4, 5, 7}
  Faults = {"net", "flash"}
INVARIANTS StagedIsExact SinkIsPrefix GoodImageIsStaged
PROPERTIES StagingReturns
CHECK_DEADLOCK FALSE
