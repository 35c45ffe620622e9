-------------------------- MODULE MCInProcessRequest -------------------------
(* A request to a service that may reply, reply again, and stray.          *)
EXTENDS InProcessRequest, TLC

CONSTANTS orders, box, service

BothQueues == {orders, box}
OneRequest == {1}
Callers == {1, service}
TwoReplies == {2, 3}
Stray == {3}
ThreeMessages == {1, 2, 3}
Boxes == (1 :> box)

None == {}
OnlyOrders == {orders}
NoRoutes == [m \in ThreeMessages |-> {}]
NoReturn == (orders :> 0)
Nowhere == [q \in BothQueues |-> NoQueue]
=============================================================================
