SPECIFICATION Spec
CONSTANTS
  t1 = t1
  t2 = t2
  Tasks <- TwoTasks
  MaxMessage = 3
  MaxChannels = 2
SYMMETRY Symmetry
INVARIANTS
  ClaimedIsAcked
  TakesPrefix
  NothingEarly
  TakenOnce
CHECK_DEADLOCK FALSE
