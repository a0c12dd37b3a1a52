CONSTANTS
  Sites <- MCSites
  Thumb <- MCSites
  Orig <- MCOrig
  Hooks = {h1, h2}
  OverB = FALSE
  Base <- MCBase
  BufStart <- MCBufStart
  BufSize = 100
SPECIFICATION Spec
CHECK_DEADLOCK FALSE
INVARIANT ThumbHookReached
