CONSTANTS
  Threads = {t1, t2}
  Devices <- MCDevices
  Configs <- MCConfigs
  Blocks = {0, 1}
  Sectors <- MCSectors
  Values = {0, 1}
  Requests <- MCRequests
  FatIo <- MCFatIo
  MlcIo <- MCMlcIo
  MaxRegs = 1
SPECIFICATION FairSpec
INVARIANTS TypeOK MutualExclusion ReadyWhileBusy CallbackFindsFrame
PROPERTIES ImplementsBlockStore Answered
