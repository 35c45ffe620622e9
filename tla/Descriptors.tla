----------------------------- MODULE Descriptors -----------------------------
(***************************************************************************)
(* What a service states about its infrastructure: exchanges, the queue of *)
(* each subscription, how its retries are delayed, and what the mount site *)
(* declares about them; and the arguments all that becomes.                *)
(***************************************************************************)
EXTENDS Conversion

(* RabbitExchange.                                                         *)
Exchange(name, kind) == [name |-> name, kind |-> kind, durable |-> TRUE, auto_delete |-> FALSE]
Direct(name)         == Exchange(name, "direct")
Topic(name)          == Exchange(name, "topic")
Fanout(name)         == Exchange(name, "fanout")
Headers(name)        == Exchange(name, "headers")
Custom(name, kind)   == Exchange(name, kind)
ConsistentHash(name) == Custom(name, "x-consistent-hash")
Durable(x, b)        == [x EXCEPT !.durable = b]
AutoDelete(x, b)     == [x EXCEPT !.auto_delete = b]
PluginKinds          == {"x-consistent-hash", "x-delayed-message"}

(* The arguments the crate writes by name, and the one the server refuses  *)
(* on a quorum queue.                                                      *)
QueueType     == "x-queue-type"
DeadExchange  == "x-dead-letter-exchange"
DeadKey       == "x-dead-letter-routing-key"
DeliveryLimit == "x-delivery-limit"
MaxPriority   == "x-max-priority"
NoTable       == [name \in {} |-> Void]
Name(words)   == LongString([name |-> words])
Integer(n)    == Value("LongLongInt", [number |-> n])

(* RabbitQueue and RabbitQuorumQueue: a QueueSpec, and with it what the    *)
(* mount site declared about its retries.                                  *)
QueueSpec(kind, name) ==
    [kind |-> kind, name |-> name, durable |-> TRUE, exclusive |-> FALSE, auto_delete |-> FALSE,
     bindings |-> <<>>, arguments |-> NoTable, prefetch |-> {}, delay |-> {},
     max_attempts |-> {}, dead_letter |-> {}]
RabbitQueue(name)       == QueueSpec("classic", name)
RabbitQuorumQueue(name) == QueueSpec("quorum", name)

BindWith(queue, exchange, key, arguments) ==
    [queue EXCEPT !.bindings =
        Append(@, [exchange |-> exchange, key |-> key, arguments |-> arguments])]
Bind(queue, exchange, key)       == BindWith(queue, exchange, key, NoTable)
Argument(queue, name, value)     == [queue EXCEPT !.arguments = Entry(name, value) ++ @]
Arguments(queue, table)          == [queue EXCEPT !.arguments = table]
DeadLetterExchange(queue, name)  == Argument(queue, DeadExchange, Name(name))
DeadLetterRoutingKey(queue, key) == Argument(queue, DeadKey, Name(key))
ReturnLimit(queue, returns)      == Argument(queue, DeliveryLimit, Integer(returns))
Prefetch(queue, n)               == [queue EXCEPT !.prefetch = Some(n)]
Delayed(queue, delay)            == [queue EXCEPT !.delay = Some(delay)]

(* The mount site: max_attempts(n) and dead_letter(key).                   *)
MaxAttempts(queue, n)  == [queue EXCEPT !.max_attempts = Some(n)]
DeadLetter(queue, key) == [queue EXCEPT !.dead_letter = Some(key)]

(* Delay: through a waiting queue or through the plugin's exchange, whose  *)
(* name is derived from the origin queue unless one was given.             *)
DlxTtl           == [through |-> "queue", name |-> {}]
DlxTtlNamed(n)   == [through |-> "queue", name |-> Some(n)]
PluginDme        == [through |-> "exchange", name |-> {}]
PluginDmeNamed(n) == [through |-> "exchange", name |-> Some(n)]

TargetFor(delay, origin) ==
    [through |-> delay.through,
     name    |-> The(Or(delay.name, Some(origin \o (IF delay.through = "queue"
                                                    THEN <<"retry">> ELSE <<"delay">>))))]

(* A mistake: the cap of deliveries written as the limit of returns.       *)
WriteRetryUncounted(arguments, queue) ==
    LET capped == [n \in {DeliveryLimit : m \in queue.max_attempts} |->
                      Integer(The(queue.max_attempts))] ++ arguments
    IN  IF queue.dead_letter = {} THEN capped
        ELSE Entry(DeadKey, Name(The(queue.dead_letter)))
               ++ capped ++ Entry(DeadExchange, Name(DefaultExchange))

(* The mount site is written over the descriptor: a cap of n deliveries is *)
(* a limit of n - 1 returns, and a destination leaves through the default  *)
(* exchange unless the descriptor named one.                               *)
WriteRetry(arguments, queue) ==
    LET capped == [n \in {DeliveryLimit : m \in queue.max_attempts} |->
                      Integer(The(queue.max_attempts) - 1)] ++ arguments
    IN  IF queue.dead_letter = {} THEN capped
        ELSE Entry(DeadKey, Name(The(queue.dead_letter)))
               ++ capped ++ Entry(DeadExchange, Name(DefaultExchange))

DeclaredArguments(queue) ==
    WriteRetry(Entry(QueueType, LongString(Text(queue.kind))) ++ queue.arguments, queue)

(* A retry declaration the queue cannot carry is refused before anything   *)
(* opens: any cap on a classic queue, half of the pair on a quorum queue,  *)
(* and the pair on a quorum queue this service does not declare.           *)
CheckRetry(queue, declares) ==
    IF queue.kind = "classic" THEN queue.max_attempts = {}
    ELSE \/ queue.max_attempts = {} /\ queue.dead_letter = {}
         \/ queue.max_attempts # {} /\ queue.dead_letter # {} /\ declares

(* What a queue does with its deliveries, read off those arguments.        *)
QuorumDefaultLimit == 20
Counter(value) ==
    IF value.type = "LongLongInt" /\ value.held.number >= 0 THEN Some(value.held.number) ELSE {}
NameArgument(arguments, name) ==
    {arguments[n].held.name : n \in {name} \cap DOMAIN arguments}

QueueBehaviour(queue, arguments) ==
    [counts |-> queue.kind = "quorum",
     limit  |-> IF queue.kind = "classic" THEN {}
                ELSE IF DeliveryLimit \in DOMAIN arguments THEN Counter(arguments[DeliveryLimit])
                ELSE Some(QuorumDefaultLimit),
     dead_exchange |-> NameArgument(arguments, DeadExchange),
     dead_key      |-> NameArgument(arguments, DeadKey)]

(* One more return of a message that was returned so often already: spent  *)
(* once it was returned more often than the limit.                         *)
Spent(behaviour, returns) ==
    behaviour.counts /\ \E limit \in behaviour.limit : returns + 1 > limit
===============================================================================
