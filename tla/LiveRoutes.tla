------------------------------ MODULE LiveRoutes ------------------------------
(***************************************************************************)
(* What the test harness is told of a live connection: it records a        *)
(* publish by its routing key alone, so the connection notes the exchanges *)
(* each key was published to, the bindings its queues declared, and the    *)
(* queue each key was delivered to, and answers which subscriptions owe a  *)
(* publish a delivery.                                                     *)
(***************************************************************************)
EXTENDS Topology

NothingSeen == [bindings |-> {}, published |-> {}, delivered |-> {}]

NoteBound(seen, queue) ==
    [seen EXCEPT !.bindings =
        @ \cup {Bound(queue.name, queue.bindings[i]) : i \in DOMAIN queue.bindings}]

NotePublished(seen, exchange, key) ==
    IF exchange = DefaultExchange THEN seen
    ELSE [seen EXCEPT !.published = @ \cup {<<exchange, key>>}]

NoteDelivered(seen, exchange, key, queue) ==
    IF exchange = DefaultExchange THEN seen
    ELSE [seen EXCEPT !.delivered = @ \cup {<<exchange, key, queue>>}]

(* A mistake: where the server hashes, only a queue that took the key owes.*)
ThroughPicked(seen, exchange, key) ==
    LET bound == {b \in seen.bindings : b.exchange = exchange}
    IN  IF \E b \in bound : b.kind = "x-consistent-hash"
        THEN {d[3] : d \in {d \in seen.delivered : d[1] = exchange /\ d[2] = key}}
        ELSE {b.queue : b \in {b \in bound : \/ b.kind = "direct" /\ b.key = key
                                             \/ b.kind = "topic" /\ TopicMatches(b.key, key)
                                             \/ b.kind = "fanout"}}

(* The queues a key reaches through one exchange it was published to: by   *)
(* the declared bindings, or, where the server hashes, the queue that took *)
(* the key before, and every bound one until that is known.                *)
Through(seen, exchange, key) ==
    LET bound  == {b \in seen.bindings : b.exchange = exchange}
        picked == {d[3] : d \in {d \in seen.delivered : d[1] = exchange /\ d[2] = key}}
    IN  IF \E b \in bound : b.kind = "x-consistent-hash"
        THEN IF picked = {} THEN {b.queue : b \in bound} ELSE picked
        ELSE {b.queue : b \in {b \in bound : \/ b.kind = "direct" /\ b.key = key
                                             \/ b.kind = "topic" /\ TopicMatches(b.key, key)
                                             \/ b.kind = "fanout"}}

ThroughExchanges(seen, key) ==
    UNION {Through(seen, p[1], key) : p \in {p \in seen.published : p[2] = key}}

(* The subscriptions, named by their queues, that owe a publish under key. *)
Owed(seen, key, subscriptions) ==
    {i \in DOMAIN subscriptions :
        subscriptions[i].name \in {key} \cup ThroughExchanges(seen, key)}
===============================================================================
