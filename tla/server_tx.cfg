SPECIFICATION Spec
CONSTANTS
  t1 = t1
  t2 = t2
  m1 = m1
  m2 = m2
  m3 = m3
  NoTask = NoTask
  Tasks <- OneTask
  Messages <- ThreeMessages
  Oversized <- OneTooLarge
  MaxChannels = 2
  MaxFrames = 3
SYMMETRY Symmetry
INVARIANTS
  OkIsTrue
  BeginsEmpty
PROPERTIES
  WholeUnlessClosed
CHECK_DEADLOCK FALSE
