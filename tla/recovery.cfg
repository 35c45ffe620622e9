SPECIFICATION FairSpec
CONSTANTS
  c1 = c1
  Cleaner = Cleaner
  Consumers <- OneConsumer
  Retries = 1
  MaxOutages = 2
  MaxItems = 1
INVARIANTS
  EndsOnceForCause
  NothingAfterClose
  BudgetIsExact
PROPERTIES
  WaitersReturn
  ShutdownCloses
CHECK_DEADLOCK FALSE
