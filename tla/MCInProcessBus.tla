---------------------------- MODULE MCInProcessBus ---------------------------
(* The in-process transport on a work queue and its dead-letter queue.     *)
EXTENDS InProcessBus, TLC

CONSTANTS orders, dead, p1

BothQueues == {orders, dead}
OneMessage == {1}
TwoMessages == {1, 2}
OnePublisher == {p1}
None == {}
OnlyOrders == {orders}
OnlyDead == {dead}

\* Publishing to the queue by name, and first through a fanout that reaches both.
ToOrders == (1 :> {<<orders>>})
FanoutFirst == (1 :> {<<orders, dead>>}) @@ (2 :> {<<orders>>})

\* A rejected or spent order goes to the dead-letter queue, or nowhere.
OrdersToDead == (orders :> dead) @@ (dead :> NoQueue)
Nowhere == (orders :> NoQueue) @@ (dead :> NoQueue)

OneReturn == (orders :> 1)
NoLimits == <<>>
=============================================================================
