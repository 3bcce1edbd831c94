SPECIFICATION WaitingSpec
CONSTANTS
  a = a
  b = b
  c1 = c1
  c2 = c2
  Object = {a}
  NoObject = NoObject
  Client = {c1}
  Refs <- OneObjectRefs
  Options <- WholeStoreOnly
  MaxRuns = 2
  Proc = {p1, p2}
  NoProc = NoProc
  Path = {1, 2}
  Inode = {1, 2, 3, 4}
  NoInode = 0
  CrashPoints <- AllButUnlinked
  UnlinkMayFail = FALSE
INVARIANTS MutualExclusion
PROPERTIES ImplementsLockTable SomebodyGetsLocks RootRequestReturns
CHECK_DEADLOCK FALSE
