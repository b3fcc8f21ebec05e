SPECIFICATION Spec
CONSTANTS
  UINT64 = 16
  DetailCap = 8
  VersionCap = 4
  ClaimCaps = {23, 28, 64}
  KeyIdCap = 3
  PemCap = 100
  BeatCaps = {50, 55, 80}
INVARIANTS ClaimRoundTrip KeyDelivered RangeParsed HeartbeatReadsBack
CHECK_DEADLOCK FALSE
