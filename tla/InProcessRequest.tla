-------------------------- MODULE InProcessRequest --------------------------
(***************************************************************************)
(* Request/reply on the in-process transport                               *)
(* (crates/ruststream-lapin/src/in_process/request.rs), composed with the  *)
(* bus: each request opens a private inbox, publishes to the service's     *)
(* queue, and waits there for the reply that carries its correlation id    *)
(* back; the service is a subscription of the bus whose handler replies.   *)
(*                                                                         *)
(* The bus is the one of InProcessBus.  A request is one of its publishers *)
(* and its inbox one of its consumers, on a queue nobody opened: what      *)
(* arrives there without the inbox is dropped.                             *)
(***************************************************************************)
EXTENDS InProcessBus

CONSTANTS
  Requests,     \* the messages that are requests; each is its own publisher
  Replies,      \* the messages a handler replies with
  Uncorrelated, \* those of them that do not carry the request's correlation id
  Service,      \* the publisher that is the service's handlers
  Asked,        \* the queue the requests are published to
  Inbox         \* the private address of each request

ASSUME RequestAssumption ==
  /\ Requests \subseteq Messages /\ Replies \subseteq Messages \ Requests
  /\ Uncorrelated \subseteq Replies
  /\ Publishers = Requests \cup {Service} /\ Service \notin Requests
  /\ Inbox \in [Requests -> Queues \ {Asked}] /\ Asked \in Subscribed
  /\ \A r, s \in Requests : Inbox[r] = Inbox[s] => r = s

VARIABLES
  call,    \* how far each request is
  inbox,   \* the consumer of its inbox, 0 before there is one
  outcome, \* how it ended
  kept     \* the requests whose caller still holds the reply

requestVars == <<call, inbox, outcome, kept>>
allVars == <<vars, requestVars>>

RequestTypeOK ==
  /\ call \in [Requests -> {"idle", "live", "open", "waiting", "dropping",
                            "draining", "ended"}]
  /\ inbox \in [Requests -> 0..MaxConsumers]
  /\ outcome \in [Requests -> {"none", "answered", "timeout", "closed", "dropped"}]
  /\ kept \subseteq Requests

RequestInit ==
  /\ Init
  /\ call = [r \in Requests |-> "idle"]
  /\ inbox = [r \in Requests |-> 0]
  /\ outcome = [r \in Requests |-> "none"]
  /\ kept = {}

\* What the bus does on its own leaves the requests alone.
Quietly == UNCHANGED requestVars

Moves(r, from, to) == call[r] = from /\ call' = [call EXCEPT ![r] = to]

\* The unread replies of request r.
Arrived(r) == unread[inbox[r]]

EndsWith(r, result) == outcome' = [outcome EXCEPT ![r] = result]
-----------------------------------------------------------------------------
\* A variant for the mutants: a publish that trusts the first look.
PublishesUnlooked(r) == TRUE

\* A variant for the mutants: a discarded reply stays in the harness's count.
DiscardUncounted(r) ==
  /\ unread' = [unread EXCEPT ![inbox[r]] = Tail(@)]
  /\ fate' = [fate EXCEPT ![Head(unread[inbox[r]]).copy] = "rejected"]
  /\ UNCHANGED <<phase, queueVars, consumerVars, turn, handlers, pub, delayed, inflight>>

\* A variant for the mutants: each uncorrelated reply buys a new deadline, and with
\* none to come the request waits for ever.
TimeOutNever(r) == FALSE /\ UNCHANGED allVars
-----------------------------------------------------------------------------
\* `ensure_live`, the first look at the close.
LookLive(r) ==
  /\ call[r] = "idle"
  /\ \/ phase = "open" /\ call' = [call EXCEPT ![r] = "live"] /\ UNCHANGED outcome
     \/ phase # "open" /\ call' = [call EXCEPT ![r] = "ended"] /\ EndsWith(r, "closed")
  /\ UNCHANGED <<vars, inbox, kept>>

\* `Inbox::open`: a consumer of a fresh address, listed whatever happened to the
\* connection since the look.  It opens no queue.
OpenInbox(r) ==
  /\ opened < MaxConsumers
  /\ Moves(r, "live", "open")
  /\ LET c == opened + 1 IN
       /\ opened' = c
       /\ inbox' = [inbox EXCEPT ![r] = c]
       /\ registered' = registered \cup {c}
       /\ queueOf' = [queueOf EXCEPT ![c] = Inbox[r]]
       /\ life' = [life EXCEPT ![c] = "inbox"]
  /\ UNCHANGED <<phase, existing, waiting, birth, born, turn, unread, nextTag,
                 unsettled, returning, releasing, handlers, pub, delayed, fate,
                 inflight, outcome, kept>>

\* `Bus::publish` looks at the close itself.
PublishLooks(r) == phase = "open"

\* `Bus::publish` of the request, up to its target.
SendRequest(r) ==
  /\ PublishLooks(r)
  /\ Moves(r, "open", "waiting")
  /\ pub' = [pub EXCEPT ![r] = <<<<r, Asked>>>>]
  /\ fate' = [fate EXCEPT ![<<r, Asked>>] = "held"]
  /\ UNCHANGED <<phase, queueVars, consumerVars, turn, unread, handlers,
                 delayed, inflight, inbox, outcome, kept>>

\* `Bus::publish` refuses, and the inbox is dropped with the request.
SendRefused(r) ==
  /\ ~PublishLooks(r)
  /\ Moves(r, "open", "dropping")
  /\ EndsWith(r, "closed")
  /\ UNCHANGED <<vars, inbox, kept>>

Waits(r) == call[r] = "waiting" /\ pub[r] = <<>>

\* The reply: its caller holds it, in flight, until it is dropped.
TakeReply(r) ==
  /\ Waits(r) /\ Arrived(r) # <<>>
  /\ Head(Arrived(r)).copy[1] \notin Uncorrelated
  /\ Moves(r, "waiting", "dropping")
  /\ EndsWith(r, "answered")
  /\ kept' = kept \cup {r}
  /\ unread' = [unread EXCEPT ![inbox[r]] = Tail(@)]
  /\ fate' = [fate EXCEPT ![Head(Arrived(r)).copy] = "acked"]
  /\ UNCHANGED <<phase, queueVars, consumerVars, turn, handlers, pub, delayed,
                 inflight, inbox>>

\* `discard` of the next delivery of the inbox.
Discard(r) ==
  /\ unread' = [unread EXCEPT ![inbox[r]] = Tail(@)]
  /\ fate' = [fate EXCEPT ![Head(Arrived(r)).copy] = "rejected"]
  /\ inflight' = inflight - 1
  /\ UNCHANGED <<phase, queueVars, consumerVars, turn, handlers, pub, delayed>>

\* A reply that does not correlate buys the request no second timeout.
SkipReply(r) ==
  /\ Waits(r) /\ Arrived(r) # <<>>
  /\ Head(Arrived(r)).copy[1] \in Uncorrelated
  /\ Discard(r)
  /\ Quietly

\* The deadline, looked at when there is nothing to read.
TimeOut(r) ==
  /\ Waits(r) /\ Arrived(r) = <<>>
  /\ Moves(r, "waiting", "dropping")
  /\ EndsWith(r, "timeout")
  /\ UNCHANGED <<vars, inbox, kept>>

\* `recv` yields None: the close dropped the sender, and what it sent is read.
HearClose(r) ==
  /\ Waits(r) /\ Arrived(r) = <<>> /\ inbox[r] \notin registered
  /\ Moves(r, "waiting", "dropping")
  /\ EndsWith(r, "closed")
  /\ UNCHANGED <<vars, inbox, kept>>

\* The future is dropped where it waits.
GiveUp(r) ==
  /\ Waits(r)
  /\ Moves(r, "waiting", "dropping")
  /\ EndsWith(r, "dropped")
  /\ UNCHANGED <<vars, inbox, kept>>

\* `Drop` of the inbox: off the list first, so that nothing more arrives.
CancelInbox(r) ==
  /\ Moves(r, "dropping", "draining")
  /\ registered' = registered \ {inbox[r]}
  /\ UNCHANGED <<phase, existing, waiting, opened, queueOf, birth, born,
                 consumerVars, turn, unread, handlers, pub, delayed, fate,
                 inflight, inbox, outcome, kept>>

\* `Drop` of the inbox, the drain.
DrainInbox(r) ==
  /\ call[r] = "draining" /\ Arrived(r) # <<>>
  /\ Discard(r)
  /\ Quietly

InboxGone(r) ==
  /\ Moves(r, "draining", "ended")
  /\ Arrived(r) = <<>>
  /\ UNCHANGED <<vars, inbox, outcome, kept>>

\* The caller drops the reply: a settlement of a no-ack consumer, which settles
\* nothing and releases the count.
DropReply(r) ==
  /\ r \in kept
  /\ kept' = kept \ {r}
  /\ inflight' = inflight - 1
  /\ UNCHANGED <<phase, queueVars, consumerVars, turn, unread, handlers, pub,
                 delayed, fate, call, inbox, outcome>>

\* The service's handler of the request replies to the address it names, on the
\* default exchange, once, several times or not at all, and settles it some day.
Reply(h, x) ==
  /\ h.step = "held" /\ h.d.copy[1] \in Requests
  /\ phase = "open" /\ pub[Service] = <<>>
  /\ \A q \in Queues : fate[<<x, q>>] = "unsent"
  /\ LET k == <<x, Inbox[h.d.copy[1]]>> IN
       /\ pub' = [pub EXCEPT ![Service] = <<k>>]
       /\ fate' = [fate EXCEPT ![k] = "held"]
  /\ UNCHANGED <<phase, queueVars, consumerVars, turn, unread, handlers,
                 delayed, inflight>>
  /\ Quietly
-----------------------------------------------------------------------------
\* The bound on consumers leaves each request its inbox.
RoomForInboxes == opened + Cardinality({r \in Requests : inbox[r] = 0}) < MaxConsumers

BusStep ==
  \/ RoomForInboxes /\ \E q \in Subscribed : Subscribe(q)
  \/ \E p \in Publishers : PublishDeliver(p)
  \/ \E c \in Consumers : Receive(c) \/ Cancel(c) \/ DropConsumer(c)
  \/ \E h \in handlers : Handle(h)
  \/ Close

Call(r) ==
  \/ OpenInbox(r) \/ SendRequest(r) \/ SendRefused(r) \/ TakeReply(r) \/ SkipReply(r)
  \/ TimeOut(r) \/ HearClose(r) \/ CancelInbox(r) \/ DrainInbox(r) \/ InboxGone(r)
  \/ DropReply(r)

RequestNext ==
  \/ BusStep /\ Quietly
  \/ \E r \in Requests : LookLive(r) \/ Call(r) \/ GiveUp(r)
  \/ \E h \in handlers, x \in Replies : Reply(h, x)

RequestSpec == RequestInit /\ [][RequestNext]_allVars

\* Every task that can run is run, as in InProcessBus; a request that was started
\* is polled, its deadline passes, and its caller drops the reply some day.
\* Nobody has to start a request, open a consumer or reply.
RequestFairness ==
  /\ \A p \in Publishers : WF_allVars(PublishDeliver(p) /\ Quietly)
  /\ \A c \in Consumers : WF_allVars(Receive(c) /\ Quietly) /\ WF_allVars(DropConsumer(c) /\ Quietly)
  /\ WF_allVars((\E h \in handlers : Handle(h)) /\ Quietly)
  /\ WF_allVars(ClearConsumers /\ Quietly)
  /\ \A r \in Requests : WF_allVars(Call(r))

RequestFairSpec == RequestSpec /\ RequestFairness
-----------------------------------------------------------------------------
\* A request waiting on a connection that closed has lost its inbox to the close
\* and hears it: none waits out its timeout on an inbox registered behind the
\* close, although `request` looks at the close before it registers the inbox.
WaiterHearsClose ==
  \A r \in Requests :
    call[r] = "waiting" /\ phase = "closed" => inbox[r] \notin registered

\* Every request that was started ends, whatever becomes of the service, the
\* reply and the connection.
RequestEnds == \A r \in Requests : call[r] = "live" ~> call[r] = "ended"
=============================================================================
