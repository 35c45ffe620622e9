---------------------------- MODULE InProcessBus ----------------------------
(***************************************************************************)
(* The transport behind an in-process connection                           *)
(* (crates/ruststream-lapin/src/in_process/{bus,deliveries}.rs): queues    *)
(* shared by competing consumers, the settlement of what they hand out,    *)
(* and the in-flight count the test harness waits on.                      *)
(*                                                                         *)
(* The routes are one mutex, and each action below is one holding of it or *)
(* of a consumer's `Unsettled` mutex: a publish to several queues, a       *)
(* settlement, and the drop of a consumer are each several actions, open   *)
(* to interleaving.                                                        *)
(***************************************************************************)
EXTENDS Integers, Sequences, FiniteSets, SequencesExt

CONSTANTS
  Queues,        \* queue names
  Messages,      \* the messages the service publishes, numbered in the order it does
  Publishers,    \* the tasks publishing
  MaxConsumers,  \* how many consumers are opened in all (bound)
  MaxTag,        \* how many deliveries one consumer takes (bound)
  MaxHandled,    \* how many all of them take (bound)
  Subscribed,    \* the queues the service subscribes to
  Routes,        \* the queues each message's publish can reach: sequences of distinct queues
  AutoDelete,    \* the queues declared auto-delete
  Counting,      \* the quorum queues, which count deliveries
  Delaying,      \* the queues with a waiting queue for delayed redelivery
  DeliveryLimit, \* x-delivery-limit of each counting queue
  DeadLetterTo,  \* the queue a dead-lettered message reaches, or NoQueue
  Period,        \* a multiple of every number of consumers there can be
  NoQueue

Consumers == 1..MaxConsumers

\* One publish makes one copy for each queue it reaches.
Copies == Messages \X Queues

ASSUME BusAssumption ==
  /\ NoQueue \notin Queues
  /\ Messages \subseteq Nat
  /\ MaxConsumers \in Nat /\ MaxTag \in Nat /\ MaxHandled \in Nat
  /\ Period \in Nat \ {0} /\ \A n \in 1..MaxConsumers : Period % n = 0
  /\ Subscribed \subseteq Queues /\ Routes \in [Messages -> SUBSET (Seq(Queues) \ {<<>>})]
  /\ \A m \in Messages : \A route \in Routes[m] : IsInjective(route)
  /\ AutoDelete \subseteq Queues /\ Delaying \subseteq Queues
  /\ Counting \subseteq Queues
  /\ DeliveryLimit \in [Counting -> Nat]
  /\ DeadLetterTo \in [Queues -> Queues \cup {NoQueue}]

VARIABLES
  phase,      \* the connection: "open", "closing" once `closed` is set, "closed"
  existing,   \* the queues `stored` has an entry for
  waiting,    \* what each queue keeps while it has no consumer
  registered, \* the consumers the routes list
  opened,     \* how many consumers were opened; ids are handed out in order
  queueOf,    \* the queue of each consumer
  turn,       \* `dispatched`, modulo Period
  life,       \* how far each consumer is in its life
  unread,     \* the channel of each consumer
  nextTag,    \* the next delivery tag of each consumer
  unsettled,  \* what each consumer handed out and nobody settled
  returning,  \* what a closing consumer took back and still has to requeue
  releasing,  \* consumers that requeued an unread delivery and not yet counted it
  handlers,   \* the settlements alive, one per delivery handed out
  pub,        \* what each publisher still has to deliver
  delayed,    \* the copies a timer holds
  fate,       \* how a copy left the transport
  inflight,   \* the coordinator's count
  birth,      \* how often each queue was created
  born        \* which creation of its queue a consumer was opened on

vars == <<phase, existing, waiting, registered, opened, queueOf, turn, life,
          unread, nextTag, unsettled, returning, releasing, handlers, pub,
          delayed, fate, inflight, birth, born>>

queueVars == <<existing, waiting, registered, opened, queueOf, birth, born>>
consumerVars == <<life, nextTag, unsettled, returning, releasing>>

Limit(q) == IF q \in Counting THEN DeliveryLimit[q] ELSE 0

\* A message as a queue holds it.  `returns` counts the deliveries spent
\* (None is 0), `tries` how often this queue handed it out.
Delivery == [copy : Copies, returns : Nat, redelivered : BOOLEAN, tries : Nat]

Unsettled == [tag : 1..MaxTag, d : Delivery]

\* What a handler can ask of its delivery.
Verdicts == {"ack", "drop", "requeue", "retry"}

Handler == [c : Consumers, tag : 1..MaxTag, d : Delivery, verdict : Verdicts,
            step : {"held", "checked", "deliver", "done"},
            dest : Queues \cup {NoQueue}]

TypeOK ==
  /\ phase \in {"open", "closing", "closed"}
  /\ existing \subseteq Queues
  /\ waiting \in [Queues -> Seq(Delivery)]
  /\ opened \in 0..MaxConsumers
  /\ registered \subseteq 1..opened
  /\ queueOf \in [Consumers -> Queues \cup {NoQueue}]
  /\ turn \in [Queues -> Nat]
  /\ life \in [Consumers -> {"unopened", "open", "cancelled", "returning",
                             "draining", "dropped"}]
  /\ unread \in [Consumers -> Seq(Delivery)]
  /\ nextTag \in [Consumers -> 1..(MaxTag + 1)]
  /\ unsettled \in [Consumers -> SUBSET Unsettled]
  /\ returning \in [Consumers -> Seq(Delivery)]
  /\ releasing \subseteq Consumers
  /\ handlers \subseteq Handler
  /\ pub \in [Publishers -> Seq(Copies)]
  /\ delayed \subseteq [to : Queues, d : Delivery]
  /\ fate \in [Copies -> {"unsent", "held", "acked", "rejected", "lost"}]
  /\ inflight \in Nat
  /\ birth \in [Queues -> Nat]
  /\ born \in [Consumers -> Nat]

Init ==
  /\ phase = "open"
  /\ existing = {}
  /\ waiting = [q \in Queues |-> <<>>]
  /\ registered = {}
  /\ opened = 0
  /\ queueOf = [c \in Consumers |-> NoQueue]
  /\ turn = [q \in Queues |-> 0]
  /\ life = [c \in Consumers |-> "unopened"]
  /\ unread = [c \in Consumers |-> <<>>]
  /\ nextTag = [c \in Consumers |-> 1]
  /\ unsettled = [c \in Consumers |-> {}]
  /\ returning = [c \in Consumers |-> <<>>]
  /\ releasing = {}
  /\ handlers = {}
  /\ pub = [p \in Publishers |-> <<>>]
  /\ delayed = {}
  /\ fate = [k \in Copies |-> "unsent"]
  /\ inflight = 0
  /\ birth = [q \in Queues |-> 0]
  /\ born = [c \in Consumers |-> 0]
-----------------------------------------------------------------------------
(* Faulty variants of definitions below.  No specification uses them: each  *)
(* one stands in for its definition to show that a property notices.        *)

\* An off-by-one in the delivery limit.
SpentOneLater(q, d) == q \in Counting /\ d.returns > Limit(q)

\* A return that forgets to count.
ReturnedUncounted(q, d) == [d EXCEPT !.redelivered = TRUE]

\* A queue that exists keeps the message without looking for a consumer.
DeliverToQueueFirst(u, q, d) ==
  /\ unread' = u
  /\ \/ /\ q \in existing
        /\ waiting' = [waiting EXCEPT ![q] = Append(@, d)]
        /\ UNCHANGED fate
     \/ /\ q \notin existing
        /\ fate' = [fate EXCEPT ![d.copy] = "lost"]
        /\ UNCHANGED waiting
  /\ UNCHANGED <<turn, inflight>>

\* A settlement that leaves its tag with the consumer.
IsUnsettledForever(h) == nextTag[h.c] > h.tag

\* The last consumer takes any queue with it.
DeletesAnyQueue(c) == c \in registered /\ {x \in registered : queueOf[x] = queueOf[c]} = {c}

\* A handler still holding its settlement has it released a second time.
StartDrainingCounted(c) ==
  /\ life[c] = "returning"
  /\ returning[c] = <<>>
  /\ life' = [life EXCEPT ![c] = "draining"]
  /\ releasing' = IF nextTag[c] > 1 THEN releasing \cup {c} ELSE releasing
  /\ UNCHANGED <<phase, queueVars, turn, unread, nextTag, unsettled, returning,
                 handlers, pub, delayed, fate, inflight>>

\* A close that spares the consumers that have handed something out.
CloseSparingBusy ==
  /\ phase = "closing"
  /\ phase' = "closed"
  /\ registered' = {c \in registered : nextTag[c] > 1}
  /\ UNCHANGED <<existing, waiting, opened, queueOf, birth, born, consumerVars,
                 turn, unread, handlers, pub, delayed, fate, inflight>>

\* A close that leaves the consumers listed.
CloseKeepingConsumers ==
  /\ phase = "closing"
  /\ phase' = "closed"
  /\ UNCHANGED <<queueVars, consumerVars, turn, unread, handlers, pub, delayed,
                 fate, inflight>>
-----------------------------------------------------------------------------
\* The consumers of q in the order they opened (a BTreeMap by id).
ConsumersOf(q) == {c \in registered : queueOf[c] = q}

\* A set of numbers from the least to the greatest.
InOrder(ids) ==
  CHOOSE s \in [1..Cardinality(ids) -> ids] : \A i, j \in DOMAIN s : i < j => s[i] < s[j]

\* The rotation counter only matters modulo the number of consumers, so it is
\* kept modulo Period.
Advance(q, n) == turn' = [turn EXCEPT ![q] = (@ + n) % Period]

\* The i-th of a run of deliveries goes to this one of the consumers ids.
Served(ids, q, i) == InOrder(ids)[((turn[q] + i - 1) % Cardinality(ids)) + 1]

\* A queue that keeps its messages as a stack (a faulty variant of Deliver
\* that no specification uses).
DeliverOnTop(u, q, d) ==
  \/ /\ ConsumersOf(q) # {}
     /\ LET c == Served(ConsumersOf(q), q, 1) IN
          unread' = [u EXCEPT ![c] = Append(@, d)]
     /\ Advance(q, 1)
     /\ inflight' = inflight + 1
     /\ UNCHANGED <<waiting, fate>>
  \/ /\ ConsumersOf(q) = {} /\ q \in existing
     /\ waiting' = [waiting EXCEPT ![q] = <<d>> \o @]
     /\ unread' = u
     /\ UNCHANGED <<turn, inflight, fate>>
  \/ /\ ConsumersOf(q) = {} /\ q \notin existing
     /\ fate' = [fate EXCEPT ![d.copy] = "lost"]
     /\ unread' = u
     /\ UNCHANGED <<turn, inflight, waiting>>

\* `hand_over` of d to q on top of the channels u: the next consumer by
\* rotation, counted before it is sent; else the queue keeps it; else a name
\* nobody opened, where it is dropped.
Deliver(u, q, d) ==
  \/ /\ ConsumersOf(q) # {}
     /\ LET c == Served(ConsumersOf(q), q, 1) IN
          unread' = [u EXCEPT ![c] = Append(@, d)]
     /\ Advance(q, 1)
     /\ inflight' = inflight + 1
     /\ UNCHANGED <<waiting, fate>>
  \/ /\ ConsumersOf(q) = {} /\ q \in existing
     /\ waiting' = [waiting EXCEPT ![q] = Append(@, d)]
     /\ unread' = u
     /\ UNCHANGED <<turn, inflight, fate>>
  \/ /\ ConsumersOf(q) = {} /\ q \notin existing
     /\ fate' = [fate EXCEPT ![d.copy] = "lost"]
     /\ unread' = u
     /\ UNCHANGED <<turn, inflight, waiting>>

\* `dead_letter` and `reroute`: a new message on the dead-letter queue.
Afresh(d) == [d EXCEPT !.returns = 0, !.redelivered = FALSE, !.tries = 0]

\* `spend`: whether coming back once more is past the delivery limit of q.
Spent(q, d) == q \in Counting /\ d.returns + 1 > Limit(q)

\* What comes back to q once the return is counted.
Returned(q, d) ==
  [d EXCEPT !.returns = IF q \in Counting THEN @ + 1 ELSE @,
            !.redelivered = TRUE]

\* `requeue` of d on q: back to q, or past the limit to the dead-letter queue,
\* or away when q names none.
Requeue(u, q, d) ==
  \/ ~Spent(q, d) /\ Deliver(u, q, Returned(q, d))
  \/ /\ Spent(q, d) /\ DeadLetterTo[q] # NoQueue
     /\ Deliver(u, DeadLetterTo[q], Afresh(d))
  \/ /\ Spent(q, d) /\ DeadLetterTo[q] = NoQueue
     /\ fate' = [fate EXCEPT ![d.copy] = "rejected"]
     /\ unread' = u
     /\ UNCHANGED <<turn, inflight, waiting>>
-----------------------------------------------------------------------------
\* `consume_queue`: the consumer is listed, the queue exists from now on, and
\* what it kept is handed over, all under one guard.  The owner of the
\* connection subscribes, so never after it gave the connection up to close.
Subscribe(q) ==
  /\ phase = "open"
  /\ opened < MaxConsumers
  /\ LET c   == opened + 1
         ids == ConsumersOf(q) \cup {c}
         mine(x) == LET at == InOrder({i \in DOMAIN waiting[q] : Served(ids, q, i) = x})
                    IN  [j \in DOMAIN at |-> waiting[q][at[j]]]
     IN  /\ opened' = c
         /\ registered' = registered \cup {c}
         /\ queueOf' = [queueOf EXCEPT ![c] = q]
         /\ life' = [life EXCEPT ![c] = "open"]
         /\ unread' = [x \in Consumers |->
                         IF x \in ids THEN unread[x] \o mine(x) ELSE unread[x]]
         /\ birth' = [birth EXCEPT ![q] = IF q \in existing THEN @ ELSE @ + 1]
         /\ born' = [born EXCEPT ![c] = birth'[q]]
  /\ existing' = existing \cup {q}
  /\ inflight' = inflight + Len(waiting[q])
  /\ Advance(q, Len(waiting[q]))
  /\ waiting' = [waiting EXCEPT ![q] = <<>>]
  /\ UNCHANGED <<phase, nextTag, unsettled, returning, releasing, handlers,
                 pub, delayed, fate>>

Unpublished(m) == \A q \in Queues : fate[<<m, q>>] = "unsent"

\* `publish`, up to the targets: one copy for each queue the route reaches.
Publish(p, m, route) ==
  /\ phase = "open"
  /\ pub[p] = <<>>
  /\ Unpublished(m) /\ \A n \in Messages : Unpublished(n) => m <= n
  /\ pub' = [pub EXCEPT ![p] = [i \in DOMAIN route |-> <<m, route[i]>>]]
  /\ fate' = [k \in Copies |->
                IF k[1] = m /\ k[2] \in ToSet(route) THEN "held" ELSE fate[k]]
  /\ UNCHANGED <<phase, queueVars, consumerVars, turn, unread, handlers,
                 delayed, inflight>>

\* `publish`, the delivery to the next of the targets: each takes the lock anew.
PublishDeliver(p) ==
  /\ pub[p] # <<>>
  /\ LET k == Head(pub[p]) IN
       Deliver(unread, k[2], [copy |-> k, returns |-> 0,
                              redelivered |-> FALSE, tries |-> 0])
  /\ pub' = [pub EXCEPT ![p] = Tail(@)]
  /\ UNCHANGED <<phase, existing, registered, opened, queueOf, birth, born,
                 consumerVars, handlers, delayed>>

\* The stream of a consumer yields its next delivery, with a settlement.
Receive(c) ==
  /\ life[c] = "open"
  /\ unread[c] # <<>>
  /\ nextTag[c] <= MaxTag
  /\ Cardinality({o \in Consumers \X (1..MaxTag) : o[2] < nextTag[o[1]]}) < MaxHandled
  /\ LET d == [Head(unread[c]) EXCEPT !.tries = @ + 1] IN
       /\ unsettled' = [unsettled EXCEPT ![c] = @ \cup {[tag |-> nextTag[c], d |-> d]}]
       /\ handlers' = handlers \cup
            {[c |-> c, tag |-> nextTag[c], d |-> d, verdict |-> "ack",
              step |-> "held", dest |-> NoQueue]}
  /\ unread' = [unread EXCEPT ![c] = Tail(@)]
  /\ nextTag' = [nextTag EXCEPT ![c] = @ + 1]
  /\ UNCHANGED <<phase, queueVars, turn, life, returning, releasing, pub,
                 delayed, fate, inflight>>
-----------------------------------------------------------------------------
Becomes(h, new) == handlers' = (handlers \ {h}) \cup {new}

\* A settlement that is over and still to be dropped.
Over(h) == [h EXCEPT !.step = "done", !.verdict = "ack", !.dest = NoQueue]

\* `Settlement::open`, first half: the connection is closed and the settlement
\* is refused, or it is not and the verdict goes on.  A delayed retry needs the
\* queue's waiting queue.
Check(h) ==
  /\ h.step = "held"
  /\ \/ /\ phase = "open"
        /\ \E v \in Verdicts :
             /\ v = "retry" => queueOf[h.c] \in Delaying
             /\ Becomes(h, [h EXCEPT !.verdict = v, !.step = "checked"])
     \/ /\ phase # "open" \/ queueOf[h.c] \notin Delaying
        /\ Becomes(h, Over(h))
  /\ UNCHANGED <<phase, queueVars, consumerVars, turn, unread, pub, delayed,
                 fate, inflight>>

\* The message is dropped unsettled: its delivery stays with the consumer.
Abandon(h) ==
  /\ h.step = "held"
  /\ Becomes(h, Over(h))
  /\ UNCHANGED <<phase, queueVars, consumerVars, turn, unread, pub, delayed,
                 fate, inflight>>

IsUnsettled(h) == \E u \in unsettled[h.c] : u.tag = h.tag

\* `Unsettled::settle` finds the tag gone: the consumer closed first.
SettleTooLate(h) ==
  /\ h.step = "checked"
  /\ ~IsUnsettled(h)
  /\ Becomes(h, Over(h))
  /\ UNCHANGED <<phase, queueVars, consumerVars, turn, unread, pub, delayed,
                 fate, inflight>>

\* Where a taken delivery goes next, and as what: nowhere for an ack or a
\* rejection with no dead-letter route.
Destination(h) ==
  LET q == queueOf[h.c] IN
  CASE h.verdict = "requeue" /\ ~Spent(q, h.d) -> q
    [] h.verdict = "requeue" /\ Spent(q, h.d)  -> DeadLetterTo[q]
    [] h.verdict = "drop"                      -> DeadLetterTo[q]
    [] OTHER                                   -> NoQueue

Onwards(h) ==
  LET q == queueOf[h.c] IN
  IF h.verdict = "requeue" /\ ~Spent(q, h.d) THEN Returned(q, h.d) ELSE Afresh(h.d)

\* `Unsettled::settle` takes the tag off the consumer, and the verdict decides.
Settle(h) ==
  /\ h.step = "checked"
  /\ IsUnsettled(h)
  /\ unsettled' = [unsettled EXCEPT ![h.c] = {u \in @ : u.tag # h.tag}]
  /\ Becomes(h, IF Destination(h) = NoQueue THEN Over(h)
                ELSE [h EXCEPT !.d = Onwards(h), !.dest = Destination(h),
                               !.step = "deliver"])
  /\ delayed' = IF h.verdict = "retry"
                THEN delayed \cup {[to |-> queueOf[h.c], d |-> Afresh(h.d)]}
                ELSE delayed
  /\ fate' = [fate EXCEPT ![h.d.copy] =
                CASE h.verdict = "ack" -> "acked"
                  [] h.verdict \in {"drop", "requeue"} /\ Destination(h) = NoQueue
                     -> "rejected"
                  [] OTHER -> @]
  /\ UNCHANGED <<phase, queueVars, life, nextTag, returning, releasing, turn,
                 unread, pub, inflight>>

\* The settlement's own delivery, under the routes lock.
SettleDeliver(h) ==
  /\ h.step = "deliver"
  /\ Deliver(unread, h.dest, h.d)
  /\ Becomes(h, Over(h))
  /\ UNCHANGED <<phase, existing, registered, opened, queueOf, birth, born,
                 consumerVars, pub, delayed>>

\* `Drop` of the settlement: the harness's count is released, once.
Release(h) ==
  /\ h.step = "done"
  /\ handlers' = handlers \ {h}
  /\ inflight' = inflight - 1
  /\ UNCHANGED <<phase, queueVars, consumerVars, turn, unread, pub, delayed, fate>>

\* The delay of a `nack_after` is out: the copy arrives as a new message.
DelayOver(e) ==
  /\ e \in delayed
  /\ Deliver(unread, e.to, e.d)
  /\ delayed' = delayed \ {e}
  /\ UNCHANGED <<phase, existing, registered, opened, queueOf, birth, born,
                 consumerVars, handlers, pub>>
-----------------------------------------------------------------------------
\* Whether the queue of c goes with it: c is the last consumer listed, of an
\* auto-delete queue.
Deletes(c) ==
  /\ c \in registered
  /\ ConsumersOf(queueOf[c]) = {c}
  /\ queueOf[c] \in AutoDelete

\* `Drop` of a consumer, `Bus::cancel`: a deleted queue takes what it keeps
\* with it.  A connection that closed has unlisted the consumer already.
Cancel(c) ==
  /\ life[c] = "open"
  /\ life' = [life EXCEPT ![c] = "cancelled"]
  /\ registered' = registered \ {c}
  /\ \/ /\ Deletes(c)
        /\ existing' = existing \ {queueOf[c]}
        /\ waiting' = [waiting EXCEPT ![queueOf[c]] = <<>>]
        /\ LET gone == {d.copy : d \in ToSet(waiting[queueOf[c]])} IN
             fate' = [k \in Copies |-> IF k \in gone THEN "lost" ELSE fate[k]]
     \/ ~Deletes(c) /\ UNCHANGED <<existing, waiting, fate>>
  /\ UNCHANGED <<phase, opened, queueOf, turn, unread, nextTag, unsettled,
                 returning, releasing, handlers, pub, delayed, inflight,
                 birth, born>>

\* `Unsettled::close`: what was handed out and not settled, in tag order.
TakeUnsettled(c) ==
  /\ life[c] = "cancelled"
  /\ life' = [life EXCEPT ![c] = "returning"]
  /\ LET tags == InOrder({u.tag : u \in unsettled[c]})
         held(tag) == CHOOSE u \in unsettled[c] : u.tag = tag
     IN  returning' = [returning EXCEPT ![c] = [i \in DOMAIN tags |-> held(tags[i]).d]]
  /\ unsettled' = [unsettled EXCEPT ![c] = {}]
  /\ UNCHANGED <<phase, queueVars, turn, unread, nextTag, releasing, handlers,
                 pub, delayed, fate, inflight>>

\* `requeue_unsettled`, one delivery at a time.
RequeueUnsettled(c) ==
  /\ life[c] = "returning"
  /\ returning[c] # <<>>
  /\ Requeue(unread, queueOf[c], Head(returning[c]))
  /\ returning' = [returning EXCEPT ![c] = Tail(@)]
  /\ UNCHANGED <<phase, existing, registered, opened, queueOf, birth, born, life,
                 nextTag, unsettled, releasing, handlers, pub, delayed>>

StartDraining(c) ==
  /\ life[c] = "returning"
  /\ returning[c] = <<>>
  /\ life' = [life EXCEPT ![c] = "draining"]
  /\ UNCHANGED <<phase, queueVars, turn, unread, nextTag, unsettled, returning,
                 releasing, handlers, pub, delayed, fate, inflight>>

\* `requeue_unread`, up to the requeue.
RequeueUnread(c) ==
  /\ life[c] = "draining" /\ c \notin releasing
  /\ unread[c] # <<>>
  /\ Requeue([unread EXCEPT ![c] = Tail(@)], queueOf[c], Head(unread[c]))
  /\ releasing' = releasing \cup {c}
  /\ UNCHANGED <<phase, existing, registered, opened, queueOf, birth, born, life,
                 nextTag, unsettled, returning, handlers, pub, delayed>>

\* `requeue_unread`, the count that moves with the delivery.
ReleaseUnread(c) ==
  /\ c \in releasing
  /\ releasing' = releasing \ {c}
  /\ inflight' = inflight - 1
  /\ UNCHANGED <<phase, queueVars, turn, life, unread, nextTag, unsettled,
                 returning, handlers, pub, delayed, fate>>

Dropped(c) ==
  /\ life[c] = "draining" /\ c \notin releasing
  /\ unread[c] = <<>>
  /\ life' = [life EXCEPT ![c] = "dropped"]
  /\ UNCHANGED <<phase, queueVars, turn, unread, nextTag, unsettled, returning,
                 releasing, handlers, pub, delayed, fate, inflight>>

\* `Bus::close`: first the flag, then the list of consumers.
MarkClosed ==
  /\ phase = "open"
  /\ phase' = "closing"
  /\ UNCHANGED <<queueVars, consumerVars, turn, unread, handlers, pub, delayed,
                 fate, inflight>>

ClearConsumers ==
  /\ phase = "closing"
  /\ phase' = "closed"
  /\ registered' = {}
  /\ UNCHANGED <<existing, waiting, opened, queueOf, birth, born, consumerVars,
                 turn, unread, handlers, pub, delayed, fate, inflight>>
-----------------------------------------------------------------------------
Close == MarkClosed \/ ClearConsumers

DropConsumer(c) ==
  \/ TakeUnsettled(c) \/ RequeueUnsettled(c) \/ StartDraining(c)
  \/ RequeueUnread(c) \/ ReleaseUnread(c) \/ Dropped(c)

Handle(h) ==
  \/ Check(h) \/ Abandon(h) \/ Settle(h) \/ SettleTooLate(h)
  \/ SettleDeliver(h) \/ Release(h)

Next ==
  \/ \E q \in Subscribed : Subscribe(q)
  \/ \E p \in Publishers, m \in Messages : \E route \in Routes[m] : Publish(p, m, route)
  \/ \E p \in Publishers : PublishDeliver(p)
  \/ \E c \in Consumers : Receive(c) \/ Cancel(c) \/ DropConsumer(c)
  \/ \E h \in handlers : Handle(h)
  \/ \E e \in delayed : DelayOver(e)
  \/ Close

Spec == Init /\ [][Next]_vars

\* Every task that can run is run: publishers and settlements are never stuck
\* behind a lock, the harness polls each open stream, every handler comes to
\* an end, a consumer being dropped is dropped, a timer fires and `close`
\* returns.
Fairness ==
  /\ \A p \in Publishers : WF_vars(PublishDeliver(p))
  /\ \A c \in Consumers : WF_vars(Receive(c)) /\ WF_vars(DropConsumer(c))
  /\ WF_vars(\E h \in handlers : Handle(h))
  /\ WF_vars(\E e \in delayed : DelayOver(e))
  /\ WF_vars(ClearConsumers)

FairSpec == Spec /\ Fairness
-----------------------------------------------------------------------------
\* Every copy with each place it is at.
Located ==
  UNION {
    UNION {{<<pub[p][i], "publisher", p, i>> : i \in DOMAIN pub[p]} : p \in Publishers},
    UNION {{<<waiting[q][i].copy, "waiting", q, i>> : i \in DOMAIN waiting[q]} : q \in Queues},
    UNION {{<<unread[c][i].copy, "unread", c, i>> : i \in DOMAIN unread[c]} : c \in Consumers},
    UNION {{<<u.d.copy, "unsettled", c, u.tag>> : u \in unsettled[c]} : c \in Consumers},
    UNION {{<<returning[c][i].copy, "returning", c, i>> : i \in DOMAIN returning[c]} : c \in Consumers},
    {<<h.d.copy, "settling", h.c, h.tag>> : h \in {x \in handlers : x.step = "deliver"}},
    {<<e.d.copy, "delayed", e.to, 0>> : e \in delayed},
    {<<k, fate[k], k[2], 0>> : k \in {x \in Copies : fate[x] \in {"acked", "rejected", "lost"}}}}

\* No message is lost and none is duplicated: whatever the handlers, the
\* closing consumers and the connection do in between, a published copy is in
\* one place only until it is acknowledged, rejected, or has nowhere to go.
OnePlacePerCopy ==
  /\ {l[1] : l \in Located} = {k \in Copies : fate[k] # "unsent"}
  /\ Cardinality(Located) = Cardinality({k \in Copies : fate[k] # "unsent"})

\* The harness's count is never ahead of nor behind what is in flight: every
\* unread delivery, every settlement alive, and the delivery a closing consumer
\* has just moved.
InFlightExact ==
  inflight = Cardinality(UNION {{c} \X DOMAIN unread[c] : c \in Consumers})
             + Cardinality(handlers) + Cardinality(releasing)

\* Nothing lies in a queue that could be handed out: a queue keeps a message
\* only while it has no consumer, whether the message is published, comes back,
\* or was kept before a subscription.
KeptOnlyWithoutConsumer ==
  \A q \in Queues : waiting[q] # <<>> => ConsumersOf(q) = {} /\ q \in existing

\* bus.rs: what a queue kept "is delivered first, in the order it arrived": a
\* consumer is sent the messages of one publisher in the order it published
\* them, those the queue kept before those that came after the subscription.
\* What comes back, or comes as a new message from a delay or a dead-letter
\* queue, takes its place behind.
FreshInOrder ==
  \A c \in Consumers :
    (/\ \A p, r \in Publishers : p = r
     /\ queueOf[c] \notin Delaying \cup {DeadLetterTo[q] : q \in Queues})
    => LET fresh == {i \in DOMAIN unread[c] : ~unread[c][i].redelivered}
       IN  \A i, j \in fresh : i < j => unread[c][i].copy[1] < unread[c][j].copy[1]

\* All deliveries that can still be handed out, by the queue they belong to.
Pending(q) ==
  ToSet(waiting[q])
  \cup UNION {ToSet(unread[c]) : c \in {x \in Consumers : queueOf[x] = q}}

\* A counting queue hands a message out at most limit + 1 times before it
\* carries it away, however its deliveries are returned: by a rejection, by a
\* consumer that closes with it unsettled, or unread; and what it hands out again
\* is marked redelivered.
LimitBounds ==
  \A q \in Counting :
    \A d \in Pending(q) :
      /\ d.tries <= d.returns /\ d.returns <= Limit(q)
      /\ d.tries > 0 => d.redelivered

\* The deliveries of q: still to be handed out, handed out and not settled, or
\* on their way back to it.
Holding(q) ==
  LET mine == {c \in Consumers : queueOf[c] = q} IN
  Pending(q)
  \cup (UNION {{u.d : u \in unsettled[c]} \cup ToSet(returning[c]) : c \in mine})
  \cup {h.d : h \in {x \in handlers : x.step = "deliver" /\ x.c \in mine /\ x.dest = q}}
  \cup {e.d : e \in {x \in delayed : x.to = q}}

\* A queue that is not auto-delete never loses what it holds: neither the end of
\* its last consumer nor the closing of the connection drops a message, except
\* one past its limit whose dead-letter queue nobody opened.
DurableQueueKeeps ==
  [][\A k \in Copies :
       fate[k] # "lost" /\ fate'[k] = "lost" =>
         \A q \in Queues \ AutoDelete :
           \A d \in Holding(q) : d.copy = k =>
             Spent(q, d) /\ DeadLetterTo[q] \notin existing]_vars

\* A closed connection hands nothing more to anybody: once the consumers are
\* cleared, no publish, settlement or delay still under way reaches a channel.
NothingArrivesAfterClose ==
  [][phase = "closed" => \A c \in Consumers : Len(unread'[c]) <= Len(unread[c])]_vars

\* `Bus::close`: "every consumer's stream ends": nobody can send to a stream
\* still open and it has yielded all it was sent.
StreamsEnd ==
  phase = "closing" ~>
    \A c \in Consumers : life[c] = "open" => c \notin registered /\ unread[c] = <<>>

\* With a delivery limit no message goes round for ever, however often it is
\* returned: the transport falls quiet, which is what the harness waits for.
GoesQuiet == <>[](inflight = 0)

\* components/testing: "A queue keeps what reaches it from its first
\* subscription on, until an auto-delete queue loses its last consumer."  What
\* a consumer of a deleted queue returns does not reach the consumers of a
\* queue created later under that name.
DeletedStaysDeleted ==
  [][\A c \in Consumers :
       (/\ returning[c] # <<>> /\ returning'[c] # returning[c]
        /\ born[c] # birth[queueOf[c]])
       => \A d \in Pending(queueOf[c])' : d.copy # Head(returning[c]).copy]_vars
=============================================================================
