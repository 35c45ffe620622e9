SPECIFICATION Spec
CONSTANTS
  orders = orders
  dead = dead
  p1 = p1
  NoQueue = NoQueue
  Queues <- BothQueues
  Messages <- OneMessage
  Publishers <- OnePublisher
  MaxConsumers = 2
  Period = 2
  MaxTag = 2
  MaxHandled = 4
  Subscribed <- OnlyOrders
  Routes <- ToOrders
  AutoDelete <- OnlyOrders
  Counting <- None
  Delaying <- None
  DeliveryLimit <- NoLimits
  DeadLetterTo <- Nowhere
PROPERTIES
  DeletedStaysDeleted
CHECK_DEADLOCK FALSE
