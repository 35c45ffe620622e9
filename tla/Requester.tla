------------------------------ MODULE Requester ------------------------------
(***************************************************************************)
(* The request/reply client over direct reply-to                           *)
(* (crates/ruststream-lapin/src/requester.rs): clones of one handle share  *)
(* a channel, the reply dispatcher running on it, and the table of pending *)
(* requests.  The channel comes from the handle's cell, taken here as the  *)
(* abstract OnDemandChannel that ChannelCell implements.                   *)
(***************************************************************************)
EXTENDS Naturals, FiniteSets

CONSTANTS
  Requests,   \* the calls of `request`; each draws a correlation id of its own
  Channels,   \* the channels the connection may hand out (bound)
  MaxReplies, \* how often a responder answers one request (bound)
  NoChannel, NoAnswer,
  Stray       \* a reply correlated with no request of this handle

ASSUME RequesterAssumption ==
  /\ MaxReplies \in Nat
  /\ NoChannel \notin Channels
  /\ NoAnswer \notin Requests \cup {Stray} /\ Stray \notin Requests

VARIABLES
  live, spent,  \* the handle's cell
  dispatching,  \* the channels whose dispatcher is running
  pending,      \* the requests with a slot in the table
  pc,           \* how far each request is
  on,           \* the channel each request was given
  answer,       \* what came through each request's oneshot
  replies,      \* the replies on their way, by channel
  replied,      \* how often each request was answered
  closed        \* the broker shut down

vars == <<live, spent, dispatching, pending, pc, on, answer, replies, replied,
          closed>>

Cell == INSTANCE OnDemandChannel

Reply == [ch : Channels, id : Requests \cup {Stray}]

TypeOK ==
  /\ live \subseteq Channels /\ spent \subseteq Channels
  /\ dispatching \subseteq Channels
  /\ pending \subseteq Requests
  /\ pc \in [Requests -> {"idle", "ready", "listed", "waiting", "expired",
                          "broken", "answered", "timeout", "failed", "dropped"}]
  /\ on \in [Requests -> Channels \cup {NoChannel}]
  /\ answer \in [Requests -> Requests \cup {Stray, NoAnswer}]
  /\ replies \subseteq Reply
  /\ replied \in [Requests -> 0..MaxReplies]
  /\ closed \in BOOLEAN

\* `bind`: an empty cell, an empty table.
Init ==
  /\ live = {} /\ spent = {}
  /\ dispatching = {}
  /\ pending = {}
  /\ pc = [r \in Requests |-> "idle"]
  /\ on = [r \in Requests |-> NoChannel]
  /\ answer = [r \in Requests |-> NoAnswer]
  /\ replies = {}
  /\ replied = [r \in Requests |-> 0]
  /\ closed = FALSE

Goto(r, step) == pc' = [pc EXCEPT ![r] = step]
-----------------------------------------------------------------------------
(* Faulty variants of actions below.  No specification uses them: each one  *)
(* stands in for its action to show that a property notices the bug.        *)

\* The slot is left in the table on the error paths.
CleanupForgotten(r) ==
  /\ pc[r] \in {"expired", "broken"}
  /\ Goto(r, IF pc[r] = "expired" THEN "timeout" ELSE "failed")
  /\ UNCHANGED <<live, spent, dispatching, pending, on, answer, replies,
                 replied, closed>>

\* The reply goes to whoever waits.
DispatchToAnyone(m) ==
  /\ m.ch \in dispatching
  /\ replies' = replies \ {m}
  /\ \/ \E r \in pending :
          /\ pending' = pending \ {r}
          /\ answer' = [answer EXCEPT ![r] = m.id]
     \/ pending = {} /\ UNCHANGED <<pending, answer>>
  /\ UNCHANGED <<live, spent, dispatching, pc, on, replied, closed>>

\* The dispatcher gives up at a reply it has no waiter for.
DispatchOrGiveUp(m) ==
  /\ m.ch \in dispatching
  /\ replies' = replies \ {m}
  /\ \/ /\ m.id \in pending
        /\ pending' = pending \ {m.id}
        /\ answer' = [answer EXCEPT ![m.id] = m.id]
        /\ UNCHANGED dispatching
     \/ /\ m.id \notin pending
        /\ dispatching' = dispatching \ {m.ch}
        /\ UNCHANGED <<pending, answer>>
  /\ UNCHANGED <<live, spent, pc, on, replied, closed>>

\* The slot is filled in only after the request is out.
ListLate(r) ==
  /\ pc[r] = "ready"
  /\ Goto(r, "listed")
  /\ UNCHANGED <<live, spent, dispatching, pending, on, answer, replies,
                 replied, closed>>

\* The wait has no end of its own.
NeverExpire(r) == FALSE /\ UNCHANGED vars /\ pc[r] = "waiting"

-----------------------------------------------------------------------------
\* `ensure_live`, then `state` finds the channel alive.
UseChannel(r) ==
  /\ pc[r] = "idle"
  /\ ~closed
  /\ \E ch \in live : on' = [on EXCEPT ![r] = ch]
  /\ Goto(r, "ready")
  /\ UNCHANGED <<live, spent, dispatching, pending, answer, replies, replied,
                 closed>>

\* `state` opens a channel: the reply consumer is up and its dispatcher running
\* before anybody sees the channel.
OpenChannel(r) ==
  /\ pc[r] = "idle"
  /\ ~closed
  /\ Cell!Open
  /\ dispatching' = dispatching \cup live'
  /\ on' = [on EXCEPT ![r] = CHOOSE ch \in live' : TRUE]
  /\ Goto(r, "ready")
  /\ UNCHANGED <<pending, answer, replies, replied, closed>>

\* The broker has shut down, or no channel can be opened or consumed on.
Refused(r) ==
  /\ pc[r] = "idle"
  /\ closed \/ live = {}
  /\ Goto(r, "failed")
  /\ UNCHANGED <<live, spent, dispatching, pending, on, answer, replies,
                 replied, closed>>

\* A correlation id is drawn and its slot filled in, before the publish.
List(r) ==
  /\ pc[r] = "ready"
  /\ pending' = pending \cup {r}
  /\ Goto(r, "listed")
  /\ UNCHANGED <<live, spent, dispatching, on, answer, replies, replied, closed>>

\* `basic_publish` on the channel the request was given.
Publish(r) ==
  /\ pc[r] = "listed"
  /\ on[r] \in live
  /\ Goto(r, "waiting")
  /\ UNCHANGED <<live, spent, dispatching, pending, on, answer, replies,
                 replied, closed>>

\* A name or header the protocol cannot carry, or the publish fails: the
\* channel is gone, or goes while it is written.
PublishFails(r) ==
  /\ pc[r] = "listed"
  /\ Goto(r, "broken")
  /\ UNCHANGED <<live, spent, dispatching, pending, on, answer, replies,
                 replied, closed>>

\* The reply came in time.
Receive(r) ==
  /\ pc[r] = "waiting"
  /\ answer[r] # NoAnswer
  /\ Goto(r, "answered")
  /\ UNCHANGED <<live, spent, dispatching, pending, on, answer, replies,
                 replied, closed>>

\* `timeout_future` ends the wait; the receiver is gone, the slot not yet.
Expire(r) ==
  /\ pc[r] = "waiting"
  /\ answer[r] = NoAnswer
  /\ Goto(r, "expired")
  /\ UNCHANGED <<live, spent, dispatching, pending, on, answer, replies,
                 replied, closed>>

\* `cleanup`, then the error.
Cleanup(r) ==
  /\ pc[r] \in {"expired", "broken"}
  /\ pending' = pending \ {r}
  /\ Goto(r, IF pc[r] = "expired" THEN "timeout" ELSE "failed")
  /\ UNCHANGED <<live, spent, dispatching, on, answer, replies, replied, closed>>

\* The caller drops the future at the publish or in the wait, which abandons
\* the slot.
DropFuture(r) ==
  /\ pc[r] \in {"listed", "waiting"}
  /\ Goto(r, "dropped")
  /\ UNCHANGED <<live, spent, dispatching, pending, on, answer, replies,
                 replied, closed>>
-----------------------------------------------------------------------------
\* One turn of `dispatch_replies`: the slot's waiter gets the reply, a reply
\* with no slot is dropped.
Dispatch(m) ==
  /\ m.ch \in dispatching
  /\ replies' = replies \ {m}
  /\ \/ /\ m.id \in pending
        /\ pending' = pending \ {m.id}
        /\ answer' = [answer EXCEPT ![m.id] = m.id]
     \/ m.id \notin pending /\ UNCHANGED <<pending, answer>>
  /\ UNCHANGED <<live, spent, dispatching, pc, on, replied, closed>>

\* The consumer of a closed channel errs or ends, and the dispatcher returns.
DispatcherEnds(ch) ==
  /\ ch \in dispatching \cap spent
  /\ dispatching' = dispatching \ {ch}
  /\ UNCHANGED <<live, spent, pending, pc, on, answer, replies, replied, closed>>

\* The responder answers a request that was published, perhaps late and perhaps
\* again, while the channel the reply address stands for is alive.
Respond(r) ==
  /\ pc[r] \notin {"idle", "ready", "listed", "broken", "failed"}
  /\ on[r] \in live
  /\ replied[r] < MaxReplies
  /\ replied' = [replied EXCEPT ![r] = @ + 1]
  /\ replies' = replies \cup {[ch |-> on[r], id |-> r]}
  /\ UNCHANGED <<live, spent, dispatching, pending, pc, on, answer, closed>>

\* A reply with no correlation id, or somebody else's.
RespondAstray ==
  /\ replies' = replies \cup {[ch |-> ch, id |-> Stray] : ch \in live}
  /\ replies' # replies
  /\ UNCHANGED <<live, spent, dispatching, pending, pc, on, answer, replied,
                 closed>>

\* The channel closes, and the replies routed to it go with it.
ChannelCloses ==
  /\ Cell!Close
  /\ replies' = {m \in replies : m.ch \notin live}
  /\ UNCHANGED <<dispatching, pending, pc, on, answer, replied, closed>>

Shutdown ==
  /\ ~closed
  /\ closed' = TRUE
  /\ UNCHANGED <<live, spent, dispatching, pending, pc, on, answer, replies,
                 replied>>
-----------------------------------------------------------------------------
Request(r) ==
  \/ UseChannel(r) \/ OpenChannel(r) \/ Refused(r)  \/ List(r) \/ Publish(r)
  \/ PublishFails(r) \/ Receive(r) \/ Expire(r) \/ Cleanup(r) \/ DropFuture(r)

Next ==
  \/ \E r \in Requests : Request(r) \/ Respond(r)
  \/ \E m \in replies : Dispatch(m)
  \/ \E ch \in Channels : DispatcherEnds(ch)
  \/ RespondAstray \/ ChannelCloses \/ Shutdown

Spec == Init /\ [][Next]_vars

\* A task that can run is run, the server answers `channel.open` and the write
\* of a publish ends, and the request's deadline passes.
Fairness ==
  /\ \A r \in Requests :
       /\ WF_vars(List(r)) /\ WF_vars(Publish(r) \/ PublishFails(r))
       /\ WF_vars(Receive(r)) /\ WF_vars(Expire(r)) /\ WF_vars(Cleanup(r))
  /\ WF_vars(\E m \in replies : Dispatch(m))

FairSpec == Spec /\ Fairness
-----------------------------------------------------------------------------
InFlight == {r \in Requests : pc[r] \in {"listed", "waiting"}}

Done == {"answered", "timeout", "failed", "dropped"}

\* A caller never gets the reply to another's request, whatever arrives late,
\* twice or uncorrelated on the channel the callers share.
AnswerIsOwn == \A r \in Requests : answer[r] \in {r, NoAnswer}

\* The table the dispatcher reads has a slot for every request whose reply can
\* still come, and for none that came to its end, unless its future was dropped:
\* requester.rs, "Every failure path below must reclaim the slot, or it leaks".
PendingIsExact ==
  /\ \A r \in Requests : pc[r] = "waiting" /\ answer[r] = NoAnswer => r \in pending
  /\ \A r \in pending : pc[r] \notin {"answered", "timeout", "failed"}

\* A channel the cell hands out has somebody reading its replies: no reply
\* stops the dispatcher, late, repeated or uncorrelated.
LiveChannelIsRead == live \subseteq dispatching

\* No reply is dropped while its request waits for it: it becomes the answer,
\* unless it goes down with its channel.
ReplyReachesWaiter ==
  [][\A m \in replies \ replies' :
       m.id \in Requests /\ pc[m.id] = "waiting" /\ answer[m.id] = NoAnswer
         => answer'[m.id] = m.id \/ m.ch \in spent']_vars

\* Every request that gets a channel ends, with the channel and the responder
\* as they may: the deadline is the one thing it relies on.
EveryRequestEnds == \A r \in Requests : pc[r] = "ready" ~> pc[r] \in Done
=============================================================================
