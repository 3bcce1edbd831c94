SPECIFICATION Spec
CONSTANTS
  a = a
  b = b
  c1 = c1
  c2 = c2
  Object = {a}
  NoObject = NoObject
  Client = {c1, c2}
  Refs <- OneObjectRefs
  Options <- WholeStoreOnly
  MaxRuns = 2
SYMMETRY ClientSymmetry
INVARIANTS TypeOK DeletionIsExclusive UsedStaysValid RootedStaysValid ValidIsOnDisk LockFileIsKept
CHECK_DEADLOCK FALSE
