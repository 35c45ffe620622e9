SPECIFICATION Spec
CONSTANTS
  m1 = m1
  NoRoot = NoRoot
  Roots <- OneMessage
  MaxMessages = 2
  MaxChannels = 2
  Prefetch = 1
PROPERTIES
  RefusedLeavesNoCopy
CHECK_DEADLOCK FALSE
