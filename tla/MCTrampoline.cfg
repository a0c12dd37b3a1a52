CONSTANTS
  Sites <- MCSites
  Thumb <- MCThumb
  Orig <- MCOrig
  Hooks = {h1, h2}
  OverB = FALSE
  Base <- MCBase
  BufStart <- MCBufStart
  BufSize = 112
SPECIFICATION ESpec
CHECK_DEADLOCK FALSE
INVARIANTS TypeOK BufferSafe PrototypesClean ChainIntact NoWildBranch RunsHooksNewestFirst LrPreserved
PROPERTIES ImplementsHookChain CallReturns
