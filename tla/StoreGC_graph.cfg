SPECIFICATION Spec
CONSTANTS
  a = a
  b = b
  c1 = c1
  c2 = c2
  Object = {a, b}
  NoObject = NoObject
  Client = {c1}
  Refs <- ChainRefs
  Options <- AllOptions
  MaxRuns = 1
INVARIANTS ReferencesAreValid InUseOnlyByNewReferrer CollectionIsComplete
CHECK_DEADLOCK FALSE
