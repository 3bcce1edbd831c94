SPECIFICATION DbSpec
CONSTANTS
  Path = {"a"}
  Handle = {"h1", "h2"}
  DbThread = {"t1", "t2"}
  HandleOf <- MCHandles
  Batches <- OnePath
  CacheCapacity = 2
  DbStarts <- EmptyStore
  MaxOps = 1
INVARIANTS SnapshotIsConsistent
CHECK_DEADLOCK FALSE
