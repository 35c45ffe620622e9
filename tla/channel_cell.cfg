SPECIFICATION FairSpec
CONSTANTS
  c1 = c1
  c2 = c2
  c3 = c3
  ch1 = ch1
  ch2 = ch2
  NoChannel = NoChannel
  NoCaller = NoCaller
  Callers <- ThreeCallers
  Channels <- TwoChannels
INVARIANTS
  OneChannelAlive
  AnswersAreFresh
PROPERTIES
  ImplementsOnDemand
  EveryCallEnds
  KeepsUsableChannel
