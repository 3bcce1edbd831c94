SPECIFICATION Spec
CONSTANTS
  File = {"f1", "f2", "f3", "f4"}
  NewFile = {"f4"}
  DirOf <- MCDirOf
  Optimiser = {"t1", "t2"}
  Process = {"p1", "p2"}
  Jobs <- MCJobs
  Content = {"a", "e", "junk"}
  Size <- MCSize
  FInode = {1, 2, 3, 4}
  MaxLinks = 3
  FarmStarts <- MCFarmStarts
  Path = {"a", "b", "c"}
  Handle = {"h1", "h2"}
  DbThread = {"t1", "t2", "t3"}
  HandleOf <- MCHandleOf
  Batches <- MCBatches
  CacheCapacity = 2
  DbStarts <- MCDbStarts
  MaxOps = 1
  Accessor = {1, 2}
  Caller = {"c1", "c2"}
  NoCaller = "nobody"
  DirFdCacheSize = 2
  GlobalFdLimit = 2
  EntryName = {"a", "b", "c"}
  DiskTree = {"one", "two", "file", "link"}
  Tree <- MCTree
  Lookup <- MCLookups
  NarMaxDepth = 3
  CaseFold <- MCFold
  BadText <- MCBad
  BadTarget <- MCBadTarget
  EmptyText = 0
  LinksAllowed = 3
  ByteBase = 3
  WordLen = 2
  IntMax = 6
  BufSize = 3
  ChunkLen = 2
  HashAlgorithm = {"sha1", "sha256"}
  HashSize <- MCHashSize
  StorePathHashLen = 1
  MaxPathLen = 3
  MaxFollow = 4
INVARIANTS
  FarmIsSound RefsClosed CacheErrorsExplained AccessorsAgree
  ArchivesSurvive MetadataIsCanonical StreamsDeliver PathsStayWithin
  AddressesAreFaithful ExportsArrive
PROPERTIES
  VerifyLosesOnlyNewcomers
CHECK_DEADLOCK FALSE
