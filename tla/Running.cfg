SPECIFICATION Spec
CONSTANTS
  Archive <- MCArchive
  InFarm = {"/d/f"}
  MaxQueued = 2
  NoDigest = NoDigest
  WorkerThread = {"w1", "w2"}
  maxThreads = 3
  NoItem = "none"
  Node = {"a", "b", "c"}
  Graphs <- MCGraphs
  Opener = {"o1", "o2", "o3"}
  ReadOnly = {"o3"}
  OldSchemas = {0, 5, 7, 10, 11}
  MaxKills = 1
  Output = 3
  PipeSize = 1
  Trigger = {1, 2}
  Owner = {1, 2}
  MaxToken = 2
  PoolUser = {1, 2, 3}
  PoolMax = 2
  MaxGets = 2
  Elt = {1, 2, 3, 4, 5}
  EltGraphs <- MCEltGraphs
  StartSets <- MCStartSets
  MaxConcurrent = 2
  Gen = {"g1", "g2"}
  Iso = "iso"
  NoGen = "none"
  NoMenu = NoMenu
  Matched <- MCMatched
INVARIANTS
  RootsAreValid MenuIsWhole EntryKeepsRoot
  ImportIsExact ImportWakesEnough DependenciesFirst ReturnsClean GraphWakesEnough
  UpgradeAlone OpenFailsOnlyAfterKill NoChildLeft InterruptReachesAll
  ClosureExact
PROPERTIES
  LiveIsKept OneEntryAtATime
  EveryoneGetsThere
CHECK_DEADLOCK FALSE
