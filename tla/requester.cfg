SPECIFICATION FairSpec
CONSTANTS
  r1 = r1
  r2 = r2
  ch1 = ch1
  ch2 = ch2
  NoChannel = NoChannel
  NoAnswer = NoAnswer
  Stray = Stray
  Requests <- TwoRequests
  Channels <- TwoChannels
  MaxReplies = 2
INVARIANTS
  AnswerIsOwn
  PendingIsExact
  
PROPERTIES
  ReplyReachesWaiter
  EveryRequestEnds
CHECK_DEADLOCK FALSE
