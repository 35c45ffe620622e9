------------------------------- MODULE Topology -------------------------------
(***************************************************************************)
(* Opening a subscription: the requests a live one sends to the server, in *)
(* their order, what the server answers to each, and the whole of it on    *)
(* the in-process transport, which means to refuse what a server refuses.  *)
(*                                                                         *)
(* The server and the in-process routes are kept alike: exchanges and      *)
(* queues are functions from their names to what declared them, bindings a *)
(* set.                                                                    *)
(***************************************************************************)
EXTENDS Descriptors

BuiltIn(name) == name = DefaultExchange \/ (Len(name) > 1 /\ Head(name) = "amq")

Declared(queue, arguments) ==
    [kind |-> queue.kind, durable |-> queue.durable, exclusive |-> queue.exclusive,
     auto_delete |-> queue.auto_delete, arguments |-> arguments]
Bound(queue, binding) ==
    [queue |-> queue, exchange |-> binding.exchange.name, kind |-> binding.exchange.kind,
     key |-> binding.key, arguments |-> binding.arguments]

(* ------------------------------ requests ------------------------------- *)
DeclareExchange(x)          == [op |-> "exchange", exchange |-> x]
PassOver                    == [op |-> "none"]
DeclareQueue(name, as)      == [op |-> "queue", name |-> name, as |-> as]
BindQueue(bound)            == [op |-> "bind", bound |-> bound]
EnsureExists(target)        == [op |-> "passive", target |-> target]
Consume(name)               == [op |-> "consume", name |-> name]

(* The waiting queue, whose dead letters return to the origin through the  *)
(* default exchange, or the plugin's exchange bound back to the origin.    *)
DelayQueue(name, origin) ==
    DeclareQueue(name, Declared(RabbitQueue(name),
                                Entry(DeadExchange, Name(DefaultExchange)) ++ Entry(DeadKey, Name(origin))))
DelayedExchange(name) == Custom(name, "x-delayed-message")

DeclareDelayBackend(delay, origin) ==
    LET target == TargetFor(delay, origin)
    IN  IF target.through = "queue" THEN <<DelayQueue(target.name, origin)>>
        ELSE <<DeclareExchange(DelayedExchange(target.name)),
               BindQueue(Bound(origin, [exchange |-> DelayedExchange(target.name),
                                        key |-> origin, arguments |-> NoTable]))>>

Map(Op(_), seq) == [i \in DOMAIN seq |-> Op(seq[i])]

(* The exchanges that are built in are not declared.                       *)
DeclareUnlessBuiltIn(binding) ==
    IF BuiltIn(binding.exchange.name) THEN PassOver ELSE DeclareExchange(binding.exchange)

Declarations(queue) ==
    Map(DeclareUnlessBuiltIn, queue.bindings)
      \o <<DeclareQueue(queue.name, Declared(queue, DeclaredArguments(queue)))>>
      \o Map(LAMBDA b : BindQueue(Bound(queue.name, b)), queue.bindings)
      \o (IF queue.delay = {} THEN <<>> ELSE DeclareDelayBackend(The(queue.delay), queue.name))

(* Every request a live subscribe sends, up to its consumer.               *)
Requests(queue, declares) ==
    (IF declares THEN Declarations(queue) ELSE <<>>)
      \o (IF declares \/ queue.delay = {} THEN <<>>
          ELSE <<EnsureExists(TargetFor(The(queue.delay), queue.name))>>)
      \o <<Consume(queue.name)>>

(* What the client library refuses to frame.                               *)
Unframable(request) ==
    CASE request.op = "exchange" -> ~Short(request.exchange.name)
      [] request.op = "bind"     -> ~Short(request.bound.exchange) \/ ~Short(request.bound.key)
      [] request.op = "passive"  -> ~Short(request.target.name)
      [] request.op \in {"queue", "consume"} -> ~Short(request.name)
      [] OTHER                   -> FALSE

(* ------------------------------ the server ----------------------------- *)
Bare == [exchanges |-> <<>>, queues |-> <<>>, bindings |-> {}]

Inequivalent(known, name, as) == name \in DOMAIN known /\ known[name] # as

Refuses(server, request) ==
    CASE request.op = "exchange" ->
           Inequivalent(server.exchanges, request.exchange.name, request.exchange)
      [] request.op = "queue" ->
           \/ Inequivalent(server.queues, request.name, request.as)
           \/ ~request.as.durable /\ ~request.as.exclusive
           \/ request.as.kind = "quorum" /\ MaxPriority \in DOMAIN request.as.arguments
      [] request.op = "bind" ->
           \/ request.bound.exchange = DefaultExchange
           \/ ~BuiltIn(request.bound.exchange) /\ request.bound.exchange \notin DOMAIN server.exchanges
      [] request.op = "passive" ->
           request.target.name \notin
               DOMAIN (IF request.target.through = "queue" THEN server.queues ELSE server.exchanges)
      [] request.op = "consume" -> request.name \notin DOMAIN server.queues
      [] OTHER -> FALSE

Served(server, request) ==
    CASE request.op = "exchange" ->
           [server EXCEPT !.exchanges = @ ++ Entry(request.exchange.name, request.exchange)]
      [] request.op = "queue" -> [server EXCEPT !.queues = @ ++ Entry(request.name, request.as)]
      [] request.op = "bind"  -> [server EXCEPT !.bindings = @ \cup {request.bound}]
      [] OTHER -> server

(* ------------------------- the in-process transport -------------------- *)
(* A mistake: an exchange declared before is taken whatever its settings.  *)
RefusesBindingOnce(routes, binding) ==
    \/ binding.exchange.name = DefaultExchange
    \/ ~Short(binding.exchange.name) \/ ~Short(binding.key)

(* The exchanges it declares first stay declared when a later one, or the  *)
(* queue, is refused; the bindings are noted only when nothing was.        *)
RefusesBinding(routes, binding) ==
    LET x == binding.exchange
    IN  \/ x.name = DefaultExchange
        \/ ~Short(x.name) \/ ~Short(binding.key)
        \/ ~BuiltIn(x.name) /\ Inequivalent(routes.exchanges, x.name, x)

(* The exchanges of the bindings before the nth, none of them refused: two *)
(* of one name are the same.                                               *)
WithExchanges(routes, bindings, n) ==
    LET named == {x \in {bindings[k].exchange : k \in DOMAIN bindings \cap (1..(n - 1))} :
                     ~BuiltIn(x.name)}
    IN  [routes EXCEPT !.exchanges =
            @ ++ [name \in {x.name : x \in named} |-> CHOOSE x \in named : x.name = name]]

DeclareExchanges(start, bindings) ==
    LET Stops(n) == n > Len(bindings) \/ RefusesBinding(WithExchanges(start, bindings, n), bindings[n])
        stop == CHOOSE n \in 1..(Len(bindings) + 1) : Stops(n) /\ \A k \in 1..(n - 1) : ~Stops(k)
    IN  [refused |-> stop <= Len(bindings), routes |-> WithExchanges(start, bindings, stop)]

Declare(routes, queue, arguments) ==
    LET after == DeclareExchanges(routes, queue.bindings)
        as    == Declared(queue, arguments)
    IN  IF \/ after.refused
           \/ ~queue.durable /\ ~queue.exclusive
           \/ queue.kind = "quorum" /\ MaxPriority \in DOMAIN arguments
           \/ Inequivalent(routes.queues, queue.name, as)
        THEN [after EXCEPT !.refused = TRUE]
        ELSE [after EXCEPT !.routes.queues = @ ++ Entry(queue.name, as)]

Describe(routes, queue, arguments, declares) ==
    LET after == IF declares THEN Declare(routes, queue, arguments)
                 ELSE [refused |-> FALSE, routes |-> routes]
    IN  IF after.refused THEN after
        ELSE [after EXCEPT !.routes.bindings =
                 @ \cup {Bound(queue.name, queue.bindings[i]) : i \in DOMAIN queue.bindings}]

Subscribe(routes, queue, declares) ==
    IF \/ ~CheckRetry(queue, declares)
       \/ queue.name = DefaultExchange \/ ~Short(queue.name)
       \/ \E delay \in queue.delay : ~Short(TargetFor(delay, queue.name).name)
    THEN [refused |-> TRUE, routes |-> routes]
    ELSE Describe(routes, queue, DeclaredArguments(queue), declares)
===============================================================================
