CONSTANTS
  Conns = {1, 2}
  Commands <- MCCommands
  MaxCmds = 2
  Addrs = {0, 1, 2}
  Poll = 3
  PollVals = {0, 5}
  OffMod = 64
  Faults = {"leave"}
  None = None
  Dirs <- MCDirs
  Backup <- MCBackup
  OldMlc <- MCOldMlc
  BlockSize = 2
  MaxTries = 2
  Builds = {"server", "restore", "install", "plugin"}
SPECIFICATION Spec
INVARIANTS
  CommandsDone
  CallsArrive
  HandlesClosed
  CopyRight
PROPERTY
  Answered
\* a killed server only sleeps, and so does a finished restore
CHECK_DEADLOCK FALSE
