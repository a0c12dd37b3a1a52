CONSTANTS
  Conns = {1, 2}
  Commands <- WriteOnly
  MaxCmds = 2
  Addrs = {0, 1, 2}
  Poll = 3
  PollVals = {0, 5}
  OffMod = 64
  Faults = {"coalesce"}
  None = None
  Dirs <- MCDirs
  Backup <- MCBackup
  OldMlc <- MCOldMlc
  BlockSize = 2
  MaxTries = 2
  Builds = {"server"}
SPECIFICATION Spec
INVARIANT CommandsDone
CHECK_DEADLOCK FALSE
