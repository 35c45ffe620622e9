SPECIFICATION Spec
CONSTANTS
  m1 = m1
  NoRoot = NoRoot
  Roots <- OneMessage
  MaxMessages = 3
  MaxChannels = 2
  Prefetch = 2
INVARIANTS
  NeverLost
  NoDuplicateUnlessCut
  FramesSettleUnacked
CHECK_DEADLOCK FALSE
