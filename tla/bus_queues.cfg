SPECIFICATION Spec
CONSTANTS
  orders = orders
  dead = dead
  p1 = p1
  NoQueue = NoQueue
  Queues <- BothQueues
  Messages <- TwoMessages
  Publishers <- OnePublisher
  MaxConsumers = 2
  Period = 2
  MaxTag = 2
  MaxHandled = 2
  Subscribed <- BothQueues
  Routes <- FanoutFirst
  AutoDelete <- OnlyDead
  Counting <- OnlyOrders
  Delaying <- OnlyDead
  DeliveryLimit <- OneReturn
  DeadLetterTo <- OrdersToDead
INVARIANTS
  FreshInOrder
  LimitBounds
  OnePlacePerCopy
  InFlightExact
PROPERTIES
  DurableQueueKeeps
  NothingArrivesAfterClose
CHECK_DEADLOCK FALSE
