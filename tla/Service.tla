------------------------------- MODULE Service -------------------------------
(***************************************************************************)
(* A whole service: an app opens its subscriptions one after another, its  *)
(* messages are framed, routed and handed to handlers, and what a handler  *)
(* answers moves each message on.  Which app it is, and what is sent to    *)
(* it, is a program: see Programs.                                         *)
(*                                                                         *)
(* The link is a server or the in-process transport of the test harness.   *)
(* Channels, connections and settlement frames have modules of their own;  *)
(* here a publish is routed, and a delivery settled, in one step, and a    *)
(* handler takes a step for each.                                          *)
(***************************************************************************)
EXTENDS LiveRoutes, SequencesExt

CONSTANTS Apps,    \* the programs
          Links    \* a subset of {"live", "in_process"}

(* What programs are made of.  A number of attempts is not zero, a         *)
(* priority is a byte, and nobody but the crate writes the headers the     *)
(* crate keeps its priority and its count of delays in.  Every queue has a *)
(* name: one that the server would have to name is not modelled.           *)
Listed(s) == s \in Seq(Range(s))

SettingsFit(options) ==
    /\ DOMAIN options = {"priority", "expiration", "persistent"}
    /\ options.priority = {} \/ \E n \in 0..255 : options.priority = {n}
    /\ options.persistent \in {{}, {TRUE}, {FALSE}}

OutFits(out) ==
    /\ {"policy", "call", "key", "headers"} \subseteq DOMAIN out
    /\ DOMAIN out.headers \cap {PriorityHeader, RetryCountHeader} = {}
    /\ SettingsFit(out.policy.defaults)
    /\ out.call = {} \/ \E options \in out.call : out.call = {options} /\ SettingsFit(options)

SendsFit(sends) == Listed(sends) /\ \A out \in Range(sends) : OutFits(out)

SubFits(sub) ==
    /\ sub.queue.kind \in {"classic", "quorum"} /\ Listed(sub.queue.bindings)
    /\ sub.queue.name # DefaultExchange
    /\ sub.queue.delay = {} \/ \E delay \in sub.queue.delay :
          sub.queue.delay = {delay} /\ delay.through \in {"queue", "exchange"}
    /\ sub.queue.max_attempts = {} \/ \E n \in sub.queue.max_attempts :
          n \in Nat \ {0} /\ sub.queue.max_attempts = {n}
    /\ "any" \in DOMAIN sub.handler
    /\ \A kind \in DOMAIN sub.handler :
          SendsFit(sub.handler[kind].first.sends) /\ SendsFit(sub.handler[kind].again.sends)

(* Exchanges are of the kinds the routing below knows, a built-in one is   *)
(* of one kind, and nobody declares one under a reserved name.             *)
BoundBy(queue)     == {Bound(queue.name, queue.bindings[n]) : n \in DOMAIN queue.bindings}
Described(program) == UNION {BoundBy(sub.queue) : sub \in Range(program.subs)}

KindKnown(exchanges, bound) ==
    \/ BuiltIn(bound.exchange)
    \/ /\ bound.exchange \in DOMAIN exchanges
       /\ exchanges[bound.exchange].kind = bound.kind

KindsFit(program) ==
    LET all == Described(program) \cup program.provisioned.bindings
    IN  /\ \A b \in all : b.kind \in {"direct", "topic", "fanout", "headers"} \cup PluginKinds
        /\ \A b, c \in all : BuiltIn(b.exchange) /\ b.exchange = c.exchange => b.kind = c.kind
        /\ \A sub \in Range(program.subs) :
              sub.queue.delay # {} =>
                  LET target == TargetFor(The(sub.queue.delay), sub.queue.name)
                  IN  target.through # "queue" => ~BuiltIn(target.name)

(* What an operator provisioned is what the app describes: every binding   *)
(* of an app that declares nothing, and for the queue of a subscription    *)
(* none that it does not describe, but where no description is looked at.  *)
ProvisionFits(program) ==
    LET there == program.provisioned
    IN  /\ {"exchanges", "queues", "bindings"} \subseteq DOMAIN there
        /\ \A b \in there.bindings : KindKnown(there.exchanges, b)
        /\ ~program.declares => Described(program) \subseteq there.bindings
        /\ \A b \in there.bindings \ Described(program) :
              \/ b.kind \in {"headers", "x-delayed-message"}
              \/ \A sub \in Range(program.subs) : sub.queue.name # b.queue

AppFits(program) ==
    /\ Listed(program.subs) /\ program.subs # <<>>
    /\ \A sub \in Range(program.subs) : SubFits(sub)
    /\ KindsFit(program) /\ ProvisionFits(program)
    /\ SendsFit(program.sends)

ASSUME ServiceAssumption == \A program \in Apps : AppFits(program)

VARIABLES
    app,       \* the program that runs, with one of its tests
    link,
    status,    \* "starting", "running" or "refused"
    opened,    \* how many subscriptions are open
    requests,  \* live: what the subscription being opened has still to ask
    routes,    \* what was declared: the server's, or the transport's own
    seen,      \* live: what the connection notes for the harness
    queues,    \* the messages ready in each queue
    running,   \* the messages in the handler of each subscription, and what
               \* each handler has still to publish
    waiting,   \* the copies that wait for their delay, with their queues
    sent,      \* how many of the test's messages are out
    hash,      \* the queue a consistent-hash exchange gives each key
    calls,     \* which handler took which message, how often
    log,       \* how often each key was published to, with which settings
    last       \* the last publish: its exchange and key, and who got it

vars == <<app, link, status, opened, requests, routes, seen, queues, running, waiting, sent,
          hash, calls, log, last>>
wire == <<queues, running, waiting, sent, hash, calls, log, last>>

Subs      == app.subs
Queue(i)  == Subs[i].queue
Live      == link = "live"
Declares  == app.declares

(* --------------------------- opening the app --------------------------- *)
Start(i) == IF i <= Len(Subs) THEN Requests(Queue(i), Declares) ELSE <<>>

Hashing(i) ==
    \E n \in DOMAIN Queue(i).bindings :
        Queue(i).bindings[n].exchange.kind = "x-consistent-hash"

Init ==
    /\ app \in Apps /\ link \in Links \cap app.links
    /\ status = "starting" /\ opened = 0
    /\ routes = IF Live THEN app.provisioned ELSE Bare
    /\ requests = IF Live THEN Start(1) ELSE <<>>
    /\ seen = NothingSeen
    /\ queues = <<>> /\ running = [i \in DOMAIN Subs |-> <<>>] /\ waiting = <<>>
    /\ hash \in [app.hashed -> {Queue(i).name : i \in {i \in DOMAIN Subs : Hashing(i)}}]
    /\ sent = 0 /\ calls = <<>> /\ log = <<>> /\ last = {}

Refuse == status' = "refused" /\ UNCHANGED <<opened, requests>>
Open(i) ==
    /\ opened' = i
    /\ status' = IF i = Len(Subs) THEN "running" ELSE "starting"

(* A live subscribe is refused by the client, before it sent anything, or  *)
(* by the server at any of its requests, with the earlier ones served.     *)
(* Its bindings are noted once its declarations, if any, are through.      *)
Request ==
    LET next == opened + 1
        request == Head(requests)
        checked == CheckRetry(Queue(next), Declares)
    IN  /\ Live /\ status = "starting"
        /\ seen' = IF checked /\ request.op \in {"passive", "consume"}
                   THEN NoteBound(seen, Queue(next)) ELSE seen
        /\ IF ~checked \/ Unframable(request) \/ Refuses(routes, request)
           THEN Refuse /\ UNCHANGED routes
           ELSE /\ routes' = Served(routes, request)
                /\ IF request.op = "consume"
                   THEN Open(next) /\ requests' = Start(next + 1)
                   ELSE requests' = Tail(requests) /\ UNCHANGED <<status, opened>>
        /\ UNCHANGED <<app, link, wire>>

SubscribeHere ==
    LET next == opened + 1
        after == Subscribe(routes, Queue(next), Declares)
    IN  /\ ~Live /\ status = "starting"
        /\ routes' = after.routes
        /\ IF after.refused THEN Refuse ELSE Open(next) /\ UNCHANGED requests
        /\ UNCHANGED <<app, link, seen, wire>>

(* ------------------------------- routing ------------------------------- *)
(* The queues that exist: declared on the server, or in process opened by  *)
(* a subscription.                                                         *)
Exists(name) ==
    IF Live THEN name \in DOMAIN routes.queues ELSE \E i \in 1..opened : Queue(i).name = name

Matched(bound, key, table) ==
    CASE bound.kind = "direct"  -> bound.key = key
      [] bound.kind = "topic"   -> TopicMatches(bound.key, key)
      [] bound.kind = "fanout"  -> TRUE
      [] bound.kind = "headers" -> HeadersMatch(bound.arguments, table)
      [] bound.kind = "x-delayed-message" -> Live /\ bound.key = key
      [] OTHER -> Live /\ hash[<<bound.exchange, key>>] = bound.queue

Targets(exchange, key, table) ==
    {q \in IF exchange = DefaultExchange THEN {key}
           ELSE {b.queue : b \in {b \in routes.bindings :
                                     b.exchange = exchange /\ Matched(b, key, table)}} :
        Exists(q)}

Ready(name) == IF name \in DOMAIN queues THEN queues[name] ELSE <<>>

(* A message joins the queues it is routed to.                             *)
Joined(ready, message, names) ==
    [q \in DOMAIN ready \cup names |->
        LET before == IF q \in DOMAIN ready THEN ready[q] ELSE <<>>
        IN  IF q \in names THEN Append(before, message) ELSE before]

(* What is routed remembers the way it took.                               *)
Along(exchange, key, message) == [message EXCEPT !.exchange = exchange, !.key = key]

(* How often something happened.                                           *)
Times(x, counts)   == IF x \in DOMAIN counts THEN counts[x] ELSE 0
Counted(x, counts) == Entry(x, Times(x, counts) + 1) ++ counts

(* A publish frames its headers under the settings of its call over its    *)
(* policy's.  The message remembers, for the properties, what it left as.  *)
Framed(out) ==
    LET options == Resolve(out.policy, out.call)
    IN  [kind |-> out.kind, exchange |-> out.policy.exchange, key |-> out.key,
         frame |-> PropertiesForPublish(out.headers, options),
         redelivered |-> FALSE, returns |-> 0,
         left |-> [options |-> options, headers |-> out.headers], rounds |-> 0]

Sendable(out) == Framable(out.policy.exchange, out.key, out.headers)

PublishedTo(out) == Targets(out.policy.exchange, out.key, Framed(out).frame.table)

Carried(frame) == [delivery_mode |-> frame.delivery_mode, priority |-> frame.priority,
                   expiration |-> frame.expiration]

(* A publish the client library cannot frame fails and leaves nothing.     *)
GoesOut(out) ==
    IF Sendable(out)
    THEN /\ queues' = Joined(queues, Framed(out), PublishedTo(out))
         /\ log' = Counted(<<out.key, Carried(Framed(out).frame)>>, log)
         /\ seen' = IF Live THEN NotePublished(seen, out.policy.exchange, out.key) ELSE seen
         /\ last' = {[exchange |-> out.policy.exchange, key |-> out.key,
                      got |-> {i \in DOMAIN Subs : Queue(i).name \in PublishedTo(out)}]}
    ELSE UNCHANGED <<queues, log, seen, last>>

TestSends ==
    /\ status = "running" /\ sent < Len(app.sends)
    /\ sent' = sent + 1
    /\ GoesOut(app.sends[sent + 1])
    /\ UNCHANGED <<app, link, status, opened, requests, routes, running, waiting, hash, calls>>

(* ------------------------------- handlers ------------------------------ *)
Reaction(i, message) ==
    LET rules == Subs[i].handler
        rule  == rules[IF message.kind \in DOMAIN rules THEN message.kind ELSE "any"]
    IN  IF message.redelivered \/ message.rounds >= rule.delays THEN rule.again ELSE rule.first

Take(i) ==
    LET name == Queue(i).name
        message == Head(Ready(name))
    IN  /\ status = "running" /\ Ready(name) # <<>>
        /\ Len(running[i]) < Subs[i].workers
        /\ Live => \A n \in Queue(i).prefetch : Len(running[i]) < n
        /\ running' = [running EXCEPT ![i] =
                          Append(@, [message |-> message, sends |-> Reaction(i, message).sends])]
        /\ queues' = [queues EXCEPT ![name] = Tail(@)]
        /\ calls' = Counted(<<i, message.kind>>, calls)
        /\ seen' = IF Live THEN NoteDelivered(seen, message.exchange, message.key, name) ELSE seen
        /\ UNCHANGED <<app, link, status, opened, requests, routes, waiting, sent, hash, log, last>>

(* What the queue of a subscription does with its deliveries: on a server  *)
(* as it was declared there, in process as its descriptor says.            *)
Behaviour(i) ==
    IF Live THEN LET as == routes.queues[Queue(i).name] IN QueueBehaviour(as, as.arguments)
    ELSE QueueBehaviour(Queue(i), DeclaredArguments(Queue(i)))

(* The table a dead letter is matched by: on a server its own, in process  *)
(* the one its reported headers make without the two native properties.    *)
DeadTable(message) ==
    IF Live THEN message.frame.table
    ELSE PropertiesForPublish(Without(HeadersFromProperties(message.frame),
                                      {PriorityHeader, ExpirationHeader}), Unset).table

(* Nothing, a rejected message or a spent one leaves through the dead-     *)
(* letter exchange of its queue, if it has one.                            *)
DeadLettered(i, message) ==
    LET key == The(Or(Behaviour(i).dead_key, Some(message.key)))
    IN  {[message |-> Along(x, key, [message EXCEPT !.redelivered = FALSE, !.returns = 0]),
          to |-> Targets(x, key, DeadTable(message))] : x \in Behaviour(i).dead_exchange}

Returned(i, message) ==
    [message EXCEPT !.redelivered = TRUE, !.returns = IF Behaviour(i).counts THEN @ + 1 ELSE @]

Copy(message) ==
    [message EXCEPT !.frame = DelayedCopy(HeadersFromProperties(@)),
                    !.redelivered = FALSE, !.returns = 0, !.rounds = @ + 1]

(* How a delivery leaves: it is gone, joins other queues, is put back in   *)
(* its own, or a copy of it waits.                                         *)
Gone == [join |-> {}, back |-> <<>>, wait |-> <<>>]

Settled(i, message, outcome) ==
    LET delayed == outcome = "retry_after" /\ Queue(i).delay # {}
    IN  CASE outcome = "ack"  -> Gone
          [] outcome = "drop" -> [Gone EXCEPT !.join = DeadLettered(i, message)]
          [] delayed          -> [Gone EXCEPT !.wait = <<[origin |-> i, message |-> Copy(message)]>>]
          [] OTHER -> IF Spent(Behaviour(i), message.returns)
                      THEN [Gone EXCEPT !.join = DeadLettered(i, message)]
                      ELSE [Gone EXCEPT !.back = <<Returned(i, message)>>]

(* A reply goes where its request asked, with the request's correlation.   *)
Addressed(out, message) ==
    LET to == DirectReplyTo(HeadersFromProperties(message.frame), out.key)
    IN  IF out.reply THEN [out EXCEPT !.key = to.key, !.headers = to.headers] ELSE out

HandlerSends(i, n) ==
    LET work == running[i][n]
    IN  /\ work.sends # <<>>
        /\ running' = [running EXCEPT ![i][n].sends = Tail(@)]
        /\ GoesOut(Addressed(Head(work.sends), work.message))
        /\ UNCHANGED <<app, link, status, opened, requests, routes, waiting, sent, hash, calls>>

(* A server returns a message to its place, the bus behind all others.     *)
PutBack(back, kept) == IF Live THEN back \o kept ELSE kept \o back

(* The end of a handler settles its message.                               *)
Finish(i, n) ==
    LET work   == running[i][n]
        leaves == Settled(i, work.message, Reaction(i, work.message).outcome)
        name   == Queue(i).name
        ready  == Entry(name, PutBack(leaves.back, Ready(name))) ++ queues
    IN  /\ work.sends = <<>>
        /\ running' = [running EXCEPT ![i] = RemoveAt(@, n)]
        /\ \/ leaves.join = {} /\ queues' = ready
           \/ \E dead \in leaves.join : queues' = Joined(ready, dead.message, dead.to)
        /\ waiting' = waiting \o leaves.wait
        /\ UNCHANGED <<app, link, status, opened, requests, routes, seen, sent, hash, calls, log, last>>

(* A delayed copy comes back.  A waiting queue releases only its head, to  *)
(* the queue it was declared to dead-letter to; the plugin's exchange, and *)
(* the timer in process, release any.                                      *)
Target(n) == LET queue == Queue(waiting[n].origin) IN TargetFor(The(queue.delay), queue.name)
InQueue(n) == Live /\ Target(n).through = "queue"

(* Where it is released to.                                                *)
Released(n) ==
    IF InQueue(n)
    THEN [exchange |-> DefaultExchange,
          key |-> The(NameArgument(routes.queues[Target(n).name].arguments, DeadKey))]
    ELSE [exchange |-> IF Live THEN Target(n).name ELSE DefaultExchange,
          key |-> Queue(waiting[n].origin).name]

Elapse(n) ==
    LET message == waiting[n].message
        way     == Released(n)
    IN  /\ InQueue(n) => \A m \in 1..(n - 1) : Target(m) # Target(n)
        /\ queues' = Joined(queues, Along(way.exchange, way.key, message),
                            Targets(way.exchange, way.key, message.frame.table))
        /\ waiting' = RemoveAt(waiting, n)
        /\ UNCHANGED <<app, link, status, opened, requests, routes, seen, running, sent, hash,
                       calls, log, last>>

Next ==
    \/ Request \/ SubscribeHere \/ TestSends
    \/ \E i \in DOMAIN Subs :
          Take(i) \/ \E n \in DOMAIN running[i] : HandlerSends(i, n) \/ Finish(i, n)
    \/ \E n \in DOMAIN waiting : Elapse(n)

(* Whatever can go on goes on: an app opens its subscriptions without a    *)
(* pause, senders, delays and the runtime of the handlers do not stop.     *)
(* Nothing is assumed of which of them goes first.                         *)
Fairness == WF_vars(Next)

Spec == Init /\ [][Next]_vars /\ Fairness

(* ------------------------------ properties ----------------------------- *)
Quiet ==
    /\ status = "running" /\ sent = Len(app.sends) /\ waiting = <<>>
    /\ \A i \in DOMAIN Subs : running[i] = <<>> /\ Ready(Queue(i).name) = <<>>

AsExpected ==
    /\ \A c \in app.expect.calls :
          MapThenSumSet(LAMBDA i : Times(<<i, c.kind>>, calls), c.subs) = c.times
    /\ \A l \in app.expect.log :
          MapThenSumSet(LAMBDA p : Times(p, log),
                        {p \in DOMAIN log : p[1] = l.key /\ l.carried \subseteq {p[2]}}) = l.times

(* An app comes to rest, and every example's own assertions hold then: the *)
(* handlers took what its tests say they take, whatever the order its      *)
(* subscriptions, handlers and delays went in, on a server as in process;  *)
(* an app its tests expect to be refused never runs.                       *)
TestsPass ==
    <>[](IF app.refused THEN status = "refused" ELSE Quiet /\ AsExpected)

Messages ==
    {d : d \in UNION {Range(queues[q]) : q \in DOMAIN queues}}
      \cup {w.message : w \in UNION {Range(running[i]) : i \in DOMAIN Subs}}
      \cup {waiting[n].message : n \in DOMAIN waiting}

(* What a message left with stays with it through requeues, dead letters   *)
(* and delays: its priority, its own headers, its persistence unless a     *)
(* delayed copy made it persistent; and the retry count its handler reads  *)
(* is the number of delays it has been through.                            *)
SettingsSurvive ==
    \A m \in Messages :
        LET read == HeadersFromProperties(m.frame)
        IN  /\ m.frame.priority = m.left.options.priority
            /\ m.frame.delivery_mode =
                  IF m.rounds = 0 /\ m.left.options.persistent = {FALSE} THEN 1 ELSE 2
            /\ \A name \in DOMAIN m.left.headers \ {RetryCountHeader} :
                  read[name] = m.left.headers[name]
            /\ m.rounds > 0 => read[RetryCountHeader] = Decimal(m.rounds)

(* A quorum queue mounted with max_attempts(n) hands no message to its     *)
(* handler more than n times: the limit it declares counts returns.        *)
CapHolds ==
    \A i \in DOMAIN Subs : \A n \in DOMAIN running[i] :
        \A cap \in Queue(i).max_attempts : running[i][n].message.returns + 1 <= cap

(* The in-process transport takes an app exactly when a server would: its  *)
(* verdict on the subscriptions opened so far is the server's.  It builds  *)
(* no waiting queues and no plugin exchanges, so it cannot refuse one      *)
(* whose name is used for something else.                                  *)
Verdicts(subs) ==
    LET after[count \in 0..Len(subs)] ==
            IF count = 0 THEN [refused |-> FALSE, routes |-> Bare]
            ELSE IF after[count - 1].refused THEN after[count - 1]
            ELSE Subscribe(after[count - 1].routes, subs[count].queue, TRUE)
    IN  after

Uses(i) == {[through |-> "queue", name |-> Queue(i).name]}
               \cup {[through |-> "exchange", name |-> Queue(i).bindings[n].exchange.name] :
                     n \in DOMAIN Queue(i).bindings}
Waits(i)  == {TargetFor(d, Queue(i).name) : d \in Queue(i).delay}
SharedDelay ==
    \E i, j \in DOMAIN Subs :
        \/ Waits(i) \cap Uses(j) # {}
        \/ /\ \E w \in Waits(i) \cap Waits(j) : w.through = "queue"
           /\ Queue(i).name # Queue(j).name
RefusedAlike ==
    Live /\ Declares /\ app.provisioned = Bare /\ ~SharedDelay =>
        /\ ~Verdicts(Subs)[opened].refused
        /\ status = "refused" => Verdicts(Subs)[opened + 1].refused

(* The harness waits for every delivery of a publish: against a server the *)
(* subscriptions that owe one are at least those the server gave one to,   *)
(* whichever exchange it went through and whatever went before it, but for *)
(* exchanges that route on headers or inside a plugin.                     *)
Unseen == {b.exchange : b \in {b \in routes.bindings : b.kind \in {"headers", "x-delayed-message"}}}
HarnessWaits ==
    Live => \A p \in last : p.exchange \in Unseen
                \/ p.got \subseteq Owed(seen, p.key, [i \in DOMAIN Subs |-> Queue(i)])
===============================================================================
