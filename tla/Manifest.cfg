SPECIFICATION FairSpec
CONSTANTS
  PAYLOAD = 128
  VARINT = 32768
  WORD = 1024
  Messages <- MCMessages
  Bytes = {0, 1, 2, 3, 8, 10, 24, 42, 58, 127, 128, 129, 255}
  MaxDamage = 2
  Lens = {0, 18, 29, 30, 38, 39, 44, 45}
  ALG = 1
  SIG = 1
  SHA = 1
  KEY_ID = 1
  MD_MAX_MANIFEST = 25
  FIXED32 = 4
  FIXED64 = 8
INVARIANTS InBounds OnlySigned ReadExactly
PROPERTIES VerifyReturns
CHECK_DEADLOCK FALSE
