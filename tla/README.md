# Formal models of ruststream-lapin

This directory holds TLA+ models of `crates/ruststream-lapin`, the RabbitMQ
broker of the RustStream framework built on the `lapin` client: the parts of it
in which the order of steps decides whether messages are lost, doubled, mixed up
or waited for in vain, and those in which one message, descriptor or setting is
turned into another. The crate's examples and integration tests run in the models
as programs. Paths below are relative to `crates/ruststream-lapin/src/` unless they
begin with `examples/` or `tests/`, which stand beside it.

- [The system](#the-system)
- [Modules and the code](#modules-and-the-code)
- [What each run checks](#what-each-run-checks)
- [Bounds](#bounds)
- [Fairness](#fairness)
- [What is proved](#what-is-proved)
- [Where code and documentation disagree](#where-code-and-documentation-disagree)
- [Not modelled](#not-modelled)
- [Plan](#plan)
- [Running](#running)

## The system

A service declares queues and publishers, the broker connects, and the
framework's runtime polls subscriptions, runs handlers and settles what they were
given. There are two transports behind the same types (`Link`): the live AMQP
connection, and an in-process one for tests.

| component | code | state | operations | made correct by |
| --- | --- | --- | --- | --- |
| channel cell | `channel.rs` | the channel held (lock-free cell), the opening lock | `get`, `live`, `held` | one live channel at a time; the lock never left behind; no stale channel handed out |
| connection, shutdown, recovery | `broker.rs`, `recovery.rs` | lapin's status, `closed`, the recovery watch, the dial count; `ended` of each consumer | connect, subscribe, shutdown, the events task, the cleanup task; `next`, `recover` | no lost wakeup; a consumer ends for a cause and reports one error; the connection is closed in the end |
| live settlement | `message.rs`, `delay.rs`, `subscriber.rs` | each delivery's acker and delay context | `ack`, `nack`, `nack_after` | duplicate-not-loss; at most one settling frame per delivery |
| publishers | `publisher.rs`, `publish_policy.rs`, `publish_step.rs` | the shared publish channel, a confirm channel per confirms publisher; the settings of a policy and of a call | `publish`; `Resolve` of one over the other | an Ok of the confirms publisher means acknowledged; the call's settings win |
| confirms transactions | `publisher.rs`, `transaction.rs` | the handle's buffer, the buffer of each owned transaction | begin, publish, commit, abort, drop | a buffer is flushed once, in order; a failed flush leaves a prefix, but for what a restored channel lost |
| server transactions | `publisher.rs` | the flag `open`, the transactional channel; in process the staged messages | begin, publish, commit, abort | an Ok of commit or abort is the truth |
| requester | `requester.rs` | the reply channel, the pending map, the dispatcher task | `request`, the dispatcher | the reply is the request's own; no slot leaks; every request ends |
| in-process transport | `in_process/bus.rs`, `deliveries.rs` | queues, consumers, what each handed out, the harness's in-flight count | declare, publish, consume, settle, drop, close | each copy in one place; the count exact; order; the delivery limit |
| in-process request | `in_process/request.rs` | a private reply inbox | `request` | the reply is the request's own; the close is heard |
| exchange matching | `in_process/matching.rs` | none | `topic_matches`, `headers_match` | agrees with AMQP's definition |
| descriptors, topology | `queue/`, `exchange.rs`, `topology.rs`, `subscriber.rs` | what the server, or the transport, has declared | builders, `subscribe`, `declare_queue` | arguments merged as documented; both links refuse alike |
| routes seen live | `live_routes.rs` | sets of routes published and bound, and who got what | record, look up | the harness waits for every delivery a server makes |
| conversion | `convert.rs`, `header_text.rs`, `reply.rs` | none | headers and properties to AMQP and back, a delayed copy, a reply's address | what a message left with stays with it |
| applications | `examples/`, `tests/` | an app, its subscriptions and handlers, the messages of its tests | start, publish, handle, retry | the assertions of their own tests, in every order and on both links |
| the rest | `bindings.rs`, `context.rs`, `error.rs`, the exports | none | accessors, documents | covered by unit tests |

How they interact. Publishers, requesters and subscriptions share the connection
and look at its `closed` flag before they act; `shutdown` sets the flag, wakes the
recovery watch, and then closes. Whatever needs a channel of its own asks a
channel cell: the fire-and-forget publisher, the confirms publisher, the server
transaction and the requester each have one. lapin calls back through streams
(deliveries, replies, connection events) and through futures that may fail or,
on a dead channel, never end. In-process, publishers, consumers and settlements
meet under one mutex, one holding at a time, and a consumer's own deliveries under
another.

Hard behaviours: several tasks in one cell; futures dropped at any await;
channels the server closed and the client does not know about yet; the shutdown
between any two steps; a drop of a consumer racing its handlers; replies that come
late, twice or never; retries that are two frames; flags read before an await and
used after it.

## Modules and the code

Every module keeps the names of the code. Definitions whose body is a deliberate
mistake stand in a section of their own ("Faulty variants") or say so in their
comment ("a variant for the mutants", "a mistake"): no specification uses them; each replaces one
definition to show that a property notices.

| module | models | correspondence |
| --- | --- | --- |
| `OnDemandChannel` | what a channel cell promises | `live`: the usable channel, at most one; `spent`: those that closed. `Open`, `Close` |
| `ChannelCell` | `channel.rs` | `held`, `opening` are the fields; each caller's `pc` goes through `live()` (one load, one status), the lock, the second look, the opening and the store. `Cancel` drops the future under the lock |
| `ChannelCellProofs`, `RequesterProofs`, `ConfirmsTxProofs`, `RecoveryProofs`, `LiveSettlementProofs`, `ServerTxProofs`, `InProcessProofs`, `ServiceProofs` | the theorems on the module each is named for; `InProcessProofs` on `InProcessBus` and then on `InProcessRequest` | see [What is proved](#what-is-proved) |
| `InProcessBus` | `in_process/bus.rs`, `deliveries.rs`, `in_process/mod.rs` | each action is one holding of the routes' mutex or of a consumer's: a publish is `Publish` and one `PublishDeliver` per queue; a settlement `Check`, `Settle`, `SettleDeliver`, `Release`; a drop `Cancel`, `TakeUnsettled`, `RequeueUnsettled`, `StartDraining`, `RequeueUnread`, `ReleaseUnread`, `Dropped`; a close `MarkClosed`, `ClearConsumers` |
| `InProcessRequest` | `in_process/request.rs`, on the bus | EXTENDS `InProcessBus`: the inbox is a queue and a consumer of its own, so a request is `LookLive`, `OpenInbox`, `SendRequest`, then what comes first of `TakeReply`, `SkipReply` (a reply with another correlation), `TimeOut`, `HearClose`; its inbox is dropped by the bus' own steps, with `DrainInbox` before and `InboxGone` after. A handler `Reply`s |
| `LiveSettlement` | `message.rs`, `delay.rs` | each `handlers` record is a `LapinMessage` on its way through `settle`: `Decide`, `Pass` or `Refuse` (the look at the shutdown), `SendCopy`, `SendFrame`. `wire`, `place` and `root` are the channel and the server |
| `Requester` | `requester.rs` | `pending` is the map, `pc` the request's place in `request`, `dispatching` the tasks spawned with each channel. The channel cell is `OnDemandChannel` by INSTANCE, which the cell is proved to implement |
| `Recovery` | `broker.rs`, `recovery.rs` | `terminal` and `news` are the watch channel: its value, and which receivers have not seen its last send. `Check`, `Wake`, `Take`, `RecoverCheck`, `Recovered` are the steps of `next` and `recover`; `Watch` the events task; `MarkClosed` to `CloseFailed` the shutdown; `Clean` the cleanup task |
| `ServerTx` | `ServerTxPublisher` on both links | `link` says which. In process `kept` is what the handle staged, `batch` what a commit took of it and publishes one by one (`TakeStaged`, `CloseHere`, `FlushHere`, `FlushedHere` or `FlushRefused`), and a message over the largest body is `Oversized`; live, `open` and `held` are its fields; an operation reads the flag (`Call...`), reads it again in `TxChannel`, has its channel from there or from `Get`, and ends in `SetOpen`, `SendPublish`, `SettleReturns` or `SettleFails` |
| `ConfirmsTx` | `ConfirmsPublisher`, `ConfirmsTransaction` | `txn` and `owned` are the buffers (a set of none or one); a commit is `StartFlush` and the steps of the flush. A direct publish is a flush of one message, which is what its code is. `recovers` is `auto_recover`: a channel the client lost is then "reconnecting" until lapin restores it (`Restore`) under the flush that is on it, and the verdict "lost" marks a message whose confirm cannot come any more |
| `Matching` | `in_process/matching.rs` | `TopicMatches` (words as sequences), `HeadersMatch`; `MCService` compares the first with the definition of its two wildcards by every way to cut the key, for all words of length up to 3 |
| `Conversion` | `convert.rs`, `header_text.rs`, `publish_step.rs`, `publish_policy.rs`, `reply.rs` | `Resolve`, `PropertiesForPublish`, `HeadersFromProperties`, `DelayedCopy`, `DirectReplyTo`: functions on records of headers |
| `Descriptors` | `queue/`, `exchange.rs`, `delay.rs` | a queue's descriptor is a record; `DeclaredArguments` is what is sent for it, `TargetFor` where its delayed copies wait, `QueueBehaviour` what the declared arguments make a queue do |
| `Topology` | `topology.rs`, `subscriber.rs`, `in_process/mod.rs`, `bus.rs` | `Requests`: what a live subscribe asks, in order; `Refuses` and `Served`: the server's answer (external); `Subscribe`: the same on the in-process transport |
| `LiveRoutes` | `live_routes.rs`, `broker.rs` | `NotePublished`, `NoteBound`, `NoteDelivered` record, `Owed` answers |
| `Service` | the above put together | `Request` or `SubscribeHere` opens the next subscription, `TestSends` publishes the next message of the test, `Take` gives a handler a message, `HandlerSends` publishes the next of what it publishes, `Finish` ends it and settles its message; `Elapse` brings a delayed copy back |
| `Programs` | `examples/`, `tests/` | what a program is made of: `App`, `Subscription`, handler rules, what is sent and expected |
| `ExchangeExamples`, `SettlementExamples`, `PublishingExamples`, `SubscriptionExamples` | `examples/` | one definition per example: its queues, handlers, and the tests at its end |
| `TransportTests` | `tests/` | the same for integration tests: refused starts, and routes the examples do not take |
| `MC...` | | the instances TLC runs; `MCService` adds the apps that none of the repository's tests run |

Modelling decisions that matter to a reader:

- A message, a channel or a task is a model value or a number; payloads, headers
  and names are left out. Exchanges are the set `Routes`: the sequences of queues
  one publish can reach.
- In `ServerTx` and `ConfirmsTx`, `ChannelCell::get` is one step: that a call of
  it has an effect at one point only is what `ChannelCellProofs` establishes. With
  recovery off a dead channel stays dead; `ServerTx` needs it off (`broker.rs`), in
  `ConfirmsTx` it is on or off. The server closes a channel before the
  client knows: in between the client sends into nothing.
- In `ConfirmsTx` the two flushes of the code (`commit` and `flush_owned`), which
  differ only in where the buffer comes from, are one.
- In `InProcessBus` a subscription opens only while the connection is open:
  `shutdown` consumes the one `ConnectedLapinBroker`, which subscribing needs.
  Queue descriptors are fixed per queue. The publish log and the harness's
  recording are left out. The rotation among a queue's consumers is kept modulo
  `Period`, a multiple of every number of consumers there can be: its turns are the
  same, and the counter stays small.
- In `LiveSettlement` the message a copy was made of is `root`; the code keeps no
  such number, the properties need it. `Prefetch` is the subscription's
  `basic.qos`.
- In `Requester` identical replies in flight are one: a second copy of a reply is
  sent again by the responder instead.
- In `Recovery` lapin sets its status before it emits the event, as the events
  task relies on, and its own retry budget counts failed dials in a row as `dial`
  does. A handshake that fails has a budget of its own. The connector's case of a
  runtime that is shutting down is left out.
- In `ServerTx` a call refused at its first look changes nothing and is no step.
  Automatic recovery is off: with it, every operation returns an error.
- In `Service` a name and a routing key are sequences of words, a header table is a
  function, a duration a number of tenths of a millisecond. A publish is routed in one
  step and a delivery settled in one: their interleavings are the other modules'
  subject. A handler publishes one message in a step. A built-in exchange, which is
  not declared, takes the step of a request that does nothing. Which queue a consistent-hash exchange gives a key is
  chosen once per key in `Init`. What an example asserts about the calls of its
  handlers and about what was published is its `expect`. Left out: the size limit of
  bodies, batches of deliveries and their wait, the plugin's own header of a delay,
  nested header tables.
- In `Service` a test's messages are sent without waiting for each other, which is
  more than the tests do: the assertions hold in the end whichever goes first.

## What each run checks

| run | instance | shows |
| --- | --- | --- |
| `channel_cell` | 3 callers, 2 channels | `OneChannelAlive`, `AnswersAreFresh`; `KeepsUsableChannel`: no caller's opening replaces a channel that can be used, which rests on the lock being held across it; `EveryCallEnds`, with openings that fail and futures that are dropped; and `ImplementsOnDemand`: the cell refines `OnDemandChannel` |
| `bus_queues` | a counting queue with limit 1 and its dead-letter queue, auto-delete with delayed redelivery; 2 messages, the first of them to both queues; 2 consumers | `FreshInOrder`, `LimitBounds`, `OnePlacePerCopy`, `InFlightExact`, `DurableQueueKeeps`, `NothingArrivesAfterClose`, where queues disappear and copies wait on timers |
| `bus_request` | one request to a service on the bus, with two replies, one of them not its own | `WaiterHearsClose`; and of the bus with it, `StreamsEnd`, `GoesQuiet`, `RequestEnds` |
| `bus_deleted` | an auto-delete queue | a disagreement: `DeletedStaysDeleted` is violated |
| `settlement` | 1 message and 2 copies, 2 channels, prefetch 2 | `NeverLost`, `NoDuplicateUnlessCut`, `FramesSettleUnacked` |
| `settlement_refused` | 1 message and its copy | a disagreement: `RefusedLeavesNoCopy` is violated |
| `requester` | 2 requests, 2 channels, 2 replies to each | `AnswerIsOwn`, `PendingIsExact`, `LiveChannelIsRead`, `ReplyReachesWaiter`, `EveryRequestEnds` |
| `recovery` | 1 consumer, the cleanup task, 1 retry, 2 outages, 1 item waiting | `EndsOnceForCause`, `NothingAfterClose`, `BudgetIsExact`, `WaitersReturn`, `ShutdownCloses` |
| `server_tx` | both links, 1 task, 3 messages, one of them over the largest body, 2 channels | `OkIsTrue`: an Ok of commit or abort is the truth, unless an earlier settlement of the transaction was dropped half-way, which then has decided; `BeginsEmpty`; `WholeUnlessClosed`: a transaction becomes visible whole or not at all, but for a close in the middle of an in-process commit |
| `server_tx_race` | 2 tasks | a disagreement: `OpenKeepsChannel` is violated |
| `confirms_tx` | 2 tasks, 3 messages, 2 channels, with and without `auto_recover` | `ClaimedIsAcked`; `TakesPrefix`: the server takes a flush in order, without holes but for what was on a channel when it was lost and restored, which is never taken and fails the flush; `NothingEarly`, `TakenOnce` |
| `service` | 127 programs, on a server and in process | `TestsPass`: every app comes to rest with its tests' own assertions true, in any order of subscriptions, handlers and delays; `SettingsSurvive`, `CapHolds`; `RefusedAlike`: the test transport takes an app exactly when a server does; `HarnessWaits` |

What each property says and which code it is about stands above its definition.
`InProcessRequest` has a run with the request among the bus' own consumers, so the
bus' liveness is checked with something on it that is no subscription. Deadlock is
checked in the channel cell's run; in the others the system may stop for good, after
a shutdown or when the messages are used up.

Every property has a faulty variant of one mapped definition that violates it in
the same run, so none of them holds for want of the case it speaks of.

## Bounds

- Callers, tasks, consumers. Two suffice for every race of two steps; the channel
  cell has three, for a bystander waiting for the lock. `recovery` has one consumer
  beside the cleanup task: consumers share the watch and nothing else, and never
  write it.
- Channels. Two: one that dies and the one that replaces it. Once both are spent the
  next opening cannot succeed, which is an opening that fails. The theorems about
  the cell hold for any number.
- Messages. Two on one queue, to see order; three in `bus_request`, the request and
  its two replies; three in the transactions, to have a
  buffer of two beside another task's message, or two transactions and a rest.
- `MaxTag` 2, `MaxConsumers` 2: a delivery is redelivered to the same and to
  another consumer. The limit 1 makes a message pass its limit within that.
- `Period` 2 is what two consumers need.
- `MaxHandled` 2 in `bus_queues`: two deliveries reach handlers, of one consumer or
  of two.
- `MaxMessages` 3 in `LiveSettlement`: the message, its copy and the copy's copy.
- `MaxReplies` 2: a late reply beside a right one.
- `Retries` 1, `MaxOutages` 2, `MaxItems` 1: a budget that is reset and then spent
  in the next outage; a delivery before the error of an outage. The error itself is
  never held back by `MaxItems`, so a delivery may lie before it.
- In `Service` `XNames` are the header names with the prefix `x-`,
  `TooLong` the words no short string can hold. Its other bounds are the programs:
  an app has up to four subscriptions and a test a handful of messages, which is
  what the repository's own tests send.
- `MaxFrames` 3 in `ServerTx`: a publish, a dropped commit and the next one on the
  way at once.

A bound is a guard of an action and named in CONSTANTS with "(bound)".

## Fairness

Weak fairness, per task, of the steps a task takes without waiting for anyone,
which a runtime that polls woken tasks gives; and of these answers from outside:

- the server answers `channel.open`, a dial or handshake ends one way or the other,
  a close handshake is answered;
- timers fire: the request's deadline, the waiting queue's delay in-process;
- in-process, the harness polls each open stream and handlers end; nobody has to
  open a consumer or publish; a request that was started is polled and its caller
  drops the reply some day;
- in `Service`, of the next step as a whole (`WF_vars(Next)`): an app that can go on
  goes on. Nothing says which of its subscriptions, handlers or delays goes first.

Strong fairness is assumed once, of taking the channel cell's lock: `tokio`'s mutex
is a fair queue, so a caller that waits is not passed over for ever. A channel need
not die, a reply need not come, the connection need not recover within its budget.

## What is proved

Every safety and action property of every passing run is proved, for any number of tasks,
messages, channels, queues, consumers and apps. The theorems
of a module assume what its named ASSUME says of the constants (that sentinels are no
members, that bounds are numbers, what a queue's settings range over) and no more;
those of `ServerTx` also that one task uses the handle.

| module | theorem | property |
| --- | --- | --- |
| `ChannelCellProofs` | `TypeCorrect` | `TypeOK`, which no run lists |
| | `OneChannel` | `OneChannelAlive` |
| | `LockDiscipline` | `LockCoversOpening`, part of the invariant |
| | `FreshAnswers` | `AnswersAreFresh` |
| | `UsableChannelKept` | `KeepsUsableChannel`, an action property |
| | `Implementation` | `ImplementsOnDemand`: the cell implements `OnDemandChannel` |
| `RequesterProofs` | `TypeCorrect` | `TypeOK` |
| | `OwnAnswer` | `AnswerIsOwn` |
| | `ExactTable` | `PendingIsExact` |
| | `ReadChannel` | `LiveChannelIsRead` |
| | `ReplyIsDelivered` | `ReplyReachesWaiter`, an action property |
| `ConfirmsTxProofs` | `TypeCorrect` | `TypeOK` |
| | `OkIsAcked` | `ClaimedIsAcked` |
| | `PrefixOfBuffer` | `TakesPrefix` |
| | `NothingBeforeCommit` | `NothingEarly` |
| | `SettledOnce` | `TakenOnce` |
| `RecoveryProofs` | `TypeCorrect` | `TypeOK` |
| | `EndsForCause` | `EndsOnceForCause` |
| | `SilentAfterClose` | `NothingAfterClose` |
| | `ExactBudget` | `BudgetIsExact` |
| `LiveSettlementProofs` | `TypeCorrect` | `TypeOK` |
| | `NothingLost` | `NeverLost` |
| | `SettlesUnacked` | `FramesSettleUnacked` |
| | `NoDuplicate` | `NoDuplicateUnlessCut` |
| `ServerTxProofs` | `TypeCorrect` | `TypeOK`, which says an open transaction has a channel in the cell |
| | `NoFalseOk` | `OkIsTrue`, with the messages of a settlement that was cut |
| | `EmptyAtBegin` | `BeginsEmpty` |
| | `SameChannel` | `OpenKeepsChannel`, which two tasks break |
| | `AllOrNothing` | `WholeUnlessClosed`, an action property |
| `InProcessProofs` | `TypeCorrect` | `TypeOK` |
| | `ExactCount` | `InFlightExact` |
| | `KeepsWithoutConsumer` | `KeptOnlyWithoutConsumer`, part of the invariant |
| | `ClosedHandsNothing` | `NothingArrivesAfterClose`, an action property |
| | `HandedOutToTheLimit` | `LimitBounds` |
| | `NeitherLostNorDoubled` | `OnePlacePerCopy` |
| | `DurableKeeps` | `DurableQueueKeeps`, an action property |
| | `SentInOrder` | `FreshInOrder` |
| | `RequestTypeCorrect` | `RequestTypeOK` |
| | `CloseIsHeard` | `WaiterHearsClose` |
| `ServiceProofs` | `SettingsKept` | `SettingsSurvive` |
| | `CapIsKept` | `CapHolds` |
| | `HarnessIsRight` | `HarnessWaits` |
| | `RefusalIsAlike` | `RefusedAlike` |

Seldom is a property inductive as it stands. Each module has an inductive invariant
`IInv`, a conjunction of named parts, with the lemmas that show that `Init` gives it
and that every action keeps it (of the bus one layer of it after the
other, each resting on those before). What each had to add, and why:

- Channel cell. `OneChannelAlive` says nothing of a caller about to store a second
  channel. Whoever is opening or storing holds the lock (`LockCoversOpening`, by
  `OneUnderGuard` at most one), saw the held channel dead and it stays so
  (`OpenerSawDeath`), after a second look that loaded what is still held, since only
  the lock's holder stores (`SecondLookIsCurrent`); so a live channel is the held one
  or the one in that caller's hands (`AliveIsHeldOrStoring`). `FreshInHand` and
  `StaleIsClosed` carry `AnswersAreFresh` through the steps of a call, and
  `HeldWasOpened` keeps a channel from being handed out twice. The refinement maps
  `live` to the live channels and `spent` to the closed ones: the store is the abstract
  `Open`, every other step of a caller a stutter.
- Requester. A slot in the table belongs to a request on its way or to a dropped
  future and has no answer yet (`SlotHasOwner`); an open slot without its answer is
  listed (`ListedWhileOpen`); a reply still on the way is on a live channel
  (`RepliesAreLive`), so the dispatcher that reads it is there.
- Confirms publisher. A message is in the handle's transaction, or in one task's, or
  in one flush, or dropped (`OnePlace`): the swap of the buffer under the lock is what
  keeps two tasks from having it. `LeftWasSent` and `WireOnce` follow it onto the
  channel, where it is once. That the server has a prefix needs the same of what is
  on the way: each message has those before it in its buffer ahead of it, or they are
  lost (`Behind`). A send keeps that, because all sent earlier on the channel is there,
  was taken or is lost while the channel is up or being restored (`SentIsCarried`). What
  is lost is on no channel and never taken (`LostForGood`): a flush's messages are on
  its own channel alone (`OnOwnChannel`), which was emptied before they were lost.
- Recovery. The watch says recovery is over only for a cause (`TerminalForCause`), and
  a shutdown marks the connection before it does anything else (`ClosedFirst`); a
  consumer that ended, or a call that began after the mark, never polls lapin again
  (`EndedRests`, `LateRests`).
- Live settlement. What is acknowledged without a decision has a copy, on the way
  ahead of the acknowledgement or with the server (`Covered`): a channel that dies
  takes both or only the second. At most one frame settles a delivery, and it is the
  last of it (`FramesLast`), which needs that its handler is the only one that can
  still send (`LiveHandlers`).
- Server transactions. `ServerTxPublisher` documents that "interleaving `publish` and
  `begin_transaction`/`commit` from concurrent tasks is not supported"
  (`publisher.rs:486`). `UsedAlone` is that use, one task, and the hypothesis of the
  theorems; the run `server_tx_race` shows what becomes of `OpenKeepsChannel` without it.
  Everything else stays free: futures dropped at any await leave frames on the way
  that nobody waits for, channels die, the connection is closed. The invariant's
  core is that only the held channel carries anything (`OneChannel`), that a settlement
  nobody waits for is ahead of all that is accepted after it (`CarriedBehindCuts`), that
  it is the next one the server takes of what was accepted before it, or was taken, or
  lost with its channel (`CutsDecide`; the frame it waits for is the last, `LastAwaited`),
  and that nothing of a transaction that returned Ok is on its way (`ToldIsOver`).
  `OkIsTrue` is a part of it.
- Bus. `OnePlacePerCopy` counts places; inductive is that a copy is at one of
  the named places and there once (`OnePlace`, `OnceThere`), proved from one lemma
  about a single copy that moves and one about all copies of a consumer that
  closes. The count is the cardinality of the unread slots, the settlements and the
  releases (`InFlightExact`, with the lemmas on cardinalities it needs). The limit
  follows each delivery through every place it can be in (`WithinLimits`). The order
  is that of the messages never handed out, in the queue and in each channel, all
  published before what the publisher still has in hand (`PublishedInOrder`); it is
  claimed of one publisher, as the property says, and of queues nothing is delayed
  or dead-lettered to.
- In-process request. Consumers are numbered as they open, so each request has an
  inbox of its own (`InboxesApart`), and a close either finds it listed or comes
  before it opened.
- Service. Of a message `SettingsSurvive` says what its headers read; inductive is also
  which headers are not there (`Carries`): the copy of a delay finds the priority and
  the count of delays again under the headers a delivery reports them by, so neither
  may be there unless the crate wrote it. The lemmas on `Conversion` are that a header
  reads back as it was published (`ReadsBack`) and that a copy carries what its
  original did (`CopyCarries`). A cap is kept because a message in a queue has returned
  to it less often than any subscription of the queue allows (`Capped`), and that
  because the queue is declared as each of its subscriptions declares it, on either
  link, by the time one of them is open (`Opening`): a live subscribe still has the
  queue's declaration among its requests or has got it through (`Asks`), and the
  consumer is its last request.
  The harness is told of keys and bindings, the server routes by the kinds of its
  exchanges; they agree because every binding is of the kind its exchange was declared
  as (`Wired`). On a server that holds while a subscription opens only because each of its
  exchanges is asked for before the bindings to it (`Ordered`), and because a binding
  nobody described, an operator's, is on none of the app's queues. A message remembers
  the way it took, and that way leads where the message is (`Came`, a part of `Fits`), so
  what a delivery notes of a key is true (`Noted`).
  That a server refuses what the transport refuses is an invariant of both at once
  (`Alike`, `Tracks`): between two requests of a subscription the server has whatever the
  transport has after the subscriptions before it, and besides only what this one
  declares and the backends of delays, whose names nothing else uses (`SharedDelay`). A
  request refused then names something the transport refuses the subscription for
  (`RefusedToo`), and one that comes to its consumer had every request granted, so the
  transport finds nothing to refuse (`TakenToo`). What the transport makes of the
  subscriptions so far is `Verdicts`, a recursive function; its defining equation is
  proved where it is needed (`VerdictStep`).
  `ServiceAssumption` says what an app is: a cap is not zero (a `NonZeroU32` in the
  code), a priority is a byte, and no program publishes the two headers the crate keeps
  the priority and the count in. A program that did would see its header taken for
  them by `redelivery_options`. Exchanges are of the kinds the routing knows, a built-in
  one is of one kind, and no delay's exchange has a reserved name; every queue has a
  name. What was provisioned before an app is what the app describes: each binding of its
  queues but for those of exchanges the harness cannot follow, and all of them if the app
  declares nothing, for `live_routes.rs` knows a binding from a descriptor only.

Model-checked only:

- liveness (`EveryCallEnds`, `StreamsEnd`, `GoesQuiet`, `RequestEnds`,
  `EveryRequestEnds`, `WaitersReturn`, `ShutdownCloses`, `TestsPass`): the prover has
  no ENABLED;
- what a recursive definition computes for every input: the only one is `WordsMatch`,
  of the words of a topic, which TLC compares with its definition for short words.

## Where code and documentation disagree

- `bus_deleted`: dropping the last consumer of an auto-delete queue deletes the
  queue and then requeues what the consumer held. A queue opened under the name in
  between receives it; the testing page says a queue keeps what reaches it until it
  loses its last consumer.
- `settlement_refused`: a retry looks at the shutdown before the copy, "so a
  refused settlement leaves no copy behind either", and `settle` looks again after
  it: a shutdown in between refuses with the copy out. The message is doubled, not
  lost, as `NeverLost` shows.
- `server_tx_race`: `begin_transaction` reads the flag, awaits a channel and sets
  the flag. A second begin that passed the look may find the first transaction's
  channel dead and replace it, which `tx_channel` says never happens. The confirms
  publisher, which checks and sets under one lock, has no such run.

Others met on the way have no run of their own: each is one line that says one
thing and another that says otherwise, with no step in between.

- A publish under the header name `amqp-priority` "sets no property"
  (`publish_step.rs:31`) and travels in the header table; but the copy made for a
  delayed retry takes its priority from that header (`convert.rs:63`), whoever put it
  there.
- `commit` and `abort` clear the flag after they awaited the server
  (`publisher.rs:697`, `731`). Dropped in between, say by a timeout around them, they
  leave the handle with a transaction the server has settled or will: an `abort` that
  follows a dropped `commit` returns Ok with the messages published, and a `commit` that
  follows a dropped `abort` returns Ok with the messages gone. Their docs speak of an
  error only, and `tx_channel` calls it out to "report success for the publishes it
  never carried". `OkIsTrue` says how far it goes: messages accepted before the drop
  share one fate, which the first dropped settlement names; all others are as told.
- With `auto_recover` lapin restores a channel under the handle it had, and a flush in
  progress goes on with it (`channel.rs:63`). What it had sent before is lost: "Failed
  publishes are not replayed" (`broker.rs:369`). So the server can take the second
  message of a buffer without the first, where `ConfirmsTransaction::commit` says that a
  failure half-way "leaves an unknown prefix of the buffer published"
  (`transaction.rs:150`). The commit fails either way, as `ClaimedIsAcked` shows;
  `TakesPrefix` is stated with this hole.
- `confirmation_ok` (`publisher.rs:319`) fails on a nack only: a confirmation of a
  channel that is not in confirm mode would pass for an Ok. That a restored channel is in
  confirm mode again is lapin's part (`connection.md:31`), and so is that it refuses or
  loses what is published meanwhile; `Restore` and `Leaves` take both from there.
- The in-process transport builds no waiting queue and no plugin exchange
  (`in_process/mod.rs`), so it takes subscriptions a server refuses because one of
  them has the name of a queue or an exchange of the app, or is the waiting queue of two
  different queues; `RefusedAlike` leaves those apps out.
- In-process, an auto-delete queue that is gone keeps its declaration and bindings
  (`bus.rs`): declared again with other arguments it is refused, where a server has
  forgotten it.
- A dead letter in process still reports the expiration it left with; a server
  takes it off. An empty queue name is refused in process only; a server makes a
  name up.
- A subscribe that is refused leaves the exchanges, and on a server the queue, that
  it declared before the refusal (`topology.rs`, `bus.rs`). `Request` and
  `SubscribeHere` model it.
- The harness waits for more than the server delivers: a publish through a named
  exchange also owes a subscription whose queue is named like its key, and a key
  once published to an exchange keeps owing that exchange's queues (`broker.rs`). It
  may wait in vain, and never too little, as `HarnessWaits` shows.

## Not modelled

- Batches of a subscriber (`subscriber.rs`) and their wait; the timed test of lanes;
  the payment a test holds back in `examples/guide/testing.rs`.
- `examples/lapin_request_request.rs`, `examples/guide/rpc.rs` and
  `examples/broker/shutdown.rs`: a request is `Requester` and `InProcessRequest`, a
  shutdown `Recovery`; their handlers call what `Service` has no step for. The
  examples under `examples/manual/` are the same apps without the macros.
- The AsyncAPI documents of `bindings.rs`, the accessors of `context.rs`, the errors
  and exports: data that no step reads back.
- Connection addresses that cannot be parsed, the connector's case of a runtime that
  is shutting down, the benchmarks, templates and the website.
- In `Service`, the turns of a queue's consumers at a hand-over (`bus.rs:117`): any
  consumer of the queue may take its next message, which is more than the code does.
  `InProcessBus` has the turns.
- A server's refusals in `Topology` are those the transport's own list names: any
  `amq.*` exchange may be bound, a classic queue takes `x-delivery-limit`, and of its
  arguments a quorum queue refuses `x-max-priority` alone. `RefusedAlike` is relative to
  that. The argument `x-delayed-type` of the plugin's exchange (`topology.rs:161`) is left
  out; apps that declare that exchange themselves are not among the programs.
- What lapin and RabbitMQ do is modelled from how the code here uses them, and marked
  external in `PROJECT.json`: lapin's own queues of frames, its topology recovery and
  its timers stay outside, and with them whether a settlement's future on a dead
  channel ever ends.

## Plan

1. Done: channel cell with its abstract specification and proofs; bus, settlement
   and requester; recovery and shutdown; server transactions on both links, confirms
   transactions; a request in process; matching, conversion, descriptors, topology
   and the harness' routes, and whole services that run the examples and tests.
2. Done: proofs of all safety and action properties.
3. Abstract specifications: a transaction that becomes visible whole, which
   `ServerTx` should implement live, and the in-process stand only while nothing
   closes it (`WholeUnlessClosed` is that property now); a queue that hands each
   message out until it is settled, for the bus.
4. Batches of a subscriber, with a batch's one settlement for many deliveries.

## Running

    tlc -workers 2 -config settlement.cfg MCLiveSettlement.tla
    tlc -workers 2 -config service.cfg MCService.tla
    tlapm ChannelCellProofs.tla
    tlapm --threads 4 InProcessProofs.tla

`PROJECT.json` lists the runs with their modules, the faulty variants, and the
lines of the source each definition stands for.
