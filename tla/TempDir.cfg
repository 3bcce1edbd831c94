SPECIFICATION TempSpec
CONSTANTS
  Importer = {p1, p2}
  MaxTempDirs = 3
INVARIANT HeldTempDirIsKept
CHECK_DEADLOCK FALSE
