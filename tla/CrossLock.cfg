SPECIFICATION FsSpec
CONSTANTS
  FsCalls = {e1, e2}
  NoFsCall = NoFsCall
PROPERTIES CrossLockKept
CHECK_DEADLOCK FALSE
