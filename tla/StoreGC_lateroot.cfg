SPECIFICATION Spec
CONSTANTS
  a = a
  b = b
  c1 = c1
  c2 = c2
  Object = {a}
  NoObject = NoObject
  Client = {c1}
  Refs <- OneObjectRefs
  Options <- WholeStoreOnly
  MaxRuns = 2
INVARIANTS RootsReachTheCollector
CHECK_DEADLOCK FALSE
