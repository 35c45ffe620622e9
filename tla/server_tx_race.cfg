SPECIFICATION Spec
CONSTANTS
  t1 = t1
  t2 = t2
  m1 = m1
  m2 = m2
  m3 = m3
  NoTask = NoTask
  Tasks <- TwoTasks
  Messages <- OneMessage
  Oversized <- None
  MaxChannels = 2
  MaxFrames = 3
PROPERTIES
  OpenKeepsChannel
CHECK_DEADLOCK FALSE
