SPECIFICATION FairLocks
CONSTANTS
  Proc = {p1, p2}
  NoProc = NoProc
  Path = {1}
  Inode = {i1, i2, i3}
  NoInode = NoInode
  CrashPoints = {}
  UnlinkMayFail = TRUE
PROPERTIES UnlinkIsNotNeeded
