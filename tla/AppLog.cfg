SPECIFICATION Spec
CONSTANTS
  RING_SIZE = 3
  Threads = {"app", "net"}
  MaxChunk = 2
  MaxCap = 5
  MaxLogged = 6
INVARIANTS TypeOK SnapshotIsNewest ChunksWhole
