CONSTANTS
  Sites <- MCSites
  Thumb <- MCThumb
  Orig <- MCOrig
  Hooks = {h1, h2}
  OverB = TRUE
  Base <- MCBase
  BufStart <- MCBufStart
  BufSize = 112
SPECIFICATION ESpec
CHECK_DEADLOCK FALSE
INVARIANT ChainIntact
