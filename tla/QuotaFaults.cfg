SPECIFICATION StorageSpec
CONSTANTS
  Pipelines = {p1, p2}
  Writers = {w1, w2}
  Compactors = {c1}
  None = None
  Quota = 2
  Capacity = 4
  Sizes <- UnitChunks
  Examined = 2
  MaxBlocks = 4
  MayFail = TRUE
  Nodes = {n1, n2}
  NodeKeys = {nk1, nk2, nk3}
  OpKeys = {op1, op2}
  Unreadable = {op2}
  NoKey = NoKey
  MaxSigned = 2
  MaxTime = 1
  Order <- Ordered
  Flags = {"LIVE_FAILOVER", "LIVE"}
  Window = 2
  MaxKeys = 3
  MaxSent = 2
  MaxRingTime = 4
  Locks = 2
  Layers = 2
  MaxTubes = 5
  Seeds = {s1, s2}
  Messages <- SomeMessages
  BodyLimit = 100
  TubeSize = 10
  LayerSize = 2
  MaxBuilds = 2
  Missing = Missing
  Paths = {"a", "b"}
  Contents <- SomeContents
  MaxFiles = 3
  Keys = {k1, k2}
  MaxVaultSize = 9
  HeaderSize = 1
  EntrySize = 1
  Nothing = Nothing
INVARIANTS StorageTypeOK   PackedComesBack
PROPERTIES LocalBlocksStay CompactionFrees
\* The bound on blocks stops the writers, the other bounds everyone else.
CHECK_DEADLOCK FALSE
