SPECIFICATION RequestFairSpec
CONSTANTS
  orders = orders
  box = box
  service = service
  NoQueue = NoQueue
  Queues <- BothQueues
  Messages <- ThreeMessages
  Publishers <- Callers
  MaxConsumers = 2
  Period = 2
  MaxTag = 1
  MaxHandled = 1
  Subscribed <- OnlyOrders
  Routes <- NoRoutes
  AutoDelete <- None
  Counting <- OnlyOrders
  Delaying <- None
  DeliveryLimit <- NoReturn
  DeadLetterTo <- Nowhere
  Requests <- OneRequest
  Replies <- TwoReplies
  Uncorrelated <- Stray
  Service <- service
  Asked <- orders
  Inbox <- Boxes
INVARIANTS
  WaiterHearsClose
PROPERTIES
  StreamsEnd
  GoesQuiet
  RequestEnds
CHECK_DEADLOCK FALSE
