CONSTANTS
  Sites <- MCSites
  Thumb <- MCThumb
  Orig <- MCOrig
  Hooks = {h1, h2}
  OverB = FALSE
  Base <- MCBase
  BufStart <- MCBufStart
  BufSize = 100
SPECIFICATION ESpec
CHECK_DEADLOCK FALSE
INVARIANT ThumbRegsReturns
