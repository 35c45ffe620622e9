--------------------------- MODULE LiveSettlement ---------------------------
(***************************************************************************)
(* How a delivery of a live subscription settles                           *)
(* (crates/ruststream-lapin/src/message.rs, with the delay backend of      *)
(* delay.rs): acknowledged, rejected, or sent round the waiting queue as a *)
(* copy and then acknowledged.  Frames travel to the server in order on    *)
(* the subscription's channel; the channel may die with frames still on    *)
(* the way, and the broker may shut down between any two steps.            *)
(***************************************************************************)
EXTENDS Naturals, Sequences, FiniteSets

CONSTANTS
  Roots,       \* the messages first published to the queue
  MaxMessages, \* how many messages the server numbers, copies included (bound)
  MaxChannels, \* how many channels the subscription goes through (bound)
  Prefetch,    \* how many unacknowledged deliveries the server lets out
  NoRoot       \* a number not yet given to a message

ASSUME SettlementAssumption ==
  /\ NoRoot \notin Roots
  /\ MaxMessages \in Nat \ {0}
  /\ MaxChannels \in Nat \ {0}
  /\ Prefetch \in Nat \ {0}

Ids == 1..MaxMessages

VARIABLES
  root,     \* the message each number is, or is a copy of
  place,    \* where the server has it
  handlers, \* the deliveries in the hands of a handler
  wire,     \* the frames sent on the channel and not yet seen by the server
  channel,  \* the number of the subscription's channel
  up,       \* whether that channel is open
  closed,   \* `AmqpConnection::closed`: the broker shut down
  decided,  \* the messages some handler acknowledged or dropped
  dropped   \* the messages whose settlement was dropped after its copy left

vars == <<root, place, handlers, wire, channel, up, closed, decided, dropped>>

Verdicts == {"ack", "requeue", "drop", "retry"}

\* A LapinMessage: the delivery, the channel it came on, and how far its
\* settlement is.  `copied` once `nack_after` has sent the copy.
Handler == [id : Ids, chan : 1..MaxChannels, verdict : Verdicts,
            step : {"held", "copying", "settling", "sending"},
            copied : BOOLEAN]

Frame == [kind : {"ack", "requeue", "drop", "copy"}, id : Ids]

TypeOK ==
  /\ root \in [Ids -> Roots \cup {NoRoot}]
  /\ place \in [Ids -> {"none", "ready", "unacked", "waiting", "gone"}]
  /\ handlers \subseteq Handler
  /\ wire \in Seq(Frame)
  /\ channel \in 1..MaxChannels
  /\ up \in BOOLEAN
  /\ closed \in BOOLEAN
  /\ decided \subseteq Roots
  /\ dropped \subseteq Roots

\* The messages wait in the queue, the subscription has its first channel.
Init ==
  /\ root \in [Ids -> Roots \cup {NoRoot}]
  /\ \A m \in Roots : \E i \in Ids : root[i] = m
  /\ \A i, j \in Ids : i < j /\ root[j] # NoRoot => root[i] \notin {NoRoot, root[j]}
  /\ place = [i \in Ids |-> IF root[i] = NoRoot THEN "none" ELSE "ready"]
  /\ handlers = {}
  /\ wire = <<>>
  /\ channel = 1
  /\ up = TRUE
  /\ closed = FALSE
  /\ decided = {}
  /\ dropped = {}
-----------------------------------------------------------------------------
Becomes(h, new) == handlers' = (handlers \ {h}) \cup {new}

Ends(h) == handlers' = handlers \ {h}

\* A variant for the mutants: any open channel takes the frame.
SendableAnywhere(h) == up

\* The channel a delivery came on takes a frame while it is open.
Sendable(h) == up /\ h.chan = channel

Send(kind, id) == wire' = Append(wire, [kind |-> kind, id |-> id])

\* The frame a verdict ends in: the original of a retry is acknowledged.
FrameOf(v) == IF v = "retry" THEN "ack" ELSE v
-----------------------------------------------------------------------------
(* Faulty variants of definitions around here.  No specification uses them: *)
(* each one stands in for its definition to show that a property notices.   *)

\* A retry whose original is acknowledged without the copy.
DecideWithoutCopy(h) ==
  /\ h.step = "held"
  /\ \E v \in Verdicts :
       /\ Becomes(h, [h EXCEPT !.verdict = v, !.step = "settling"])
       /\ decided' = IF v \in {"ack", "drop"} THEN decided \cup {root[h.id]} ELSE decided
  /\ UNCHANGED <<root, place, wire, channel, up, closed, dropped>>

\* A copy whose original is left unacknowledged.
SendCopyOnly(h) ==
  /\ h.step = "copying"
  /\ ~closed
  /\ Sendable(h)
  /\ Send("copy", h.id)
  /\ Ends(h)
  /\ UNCHANGED <<root, place, channel, up, closed, decided, dropped>>
-----------------------------------------------------------------------------
\* The subscription's stream yields a delivery.
Deliver(i) ==
  /\ up
  /\ place[i] = "ready"
  /\ Cardinality({j \in Ids : place[j] = "unacked"}) < Prefetch
  /\ place' = [place EXCEPT ![i] = "unacked"]
  /\ handlers' = handlers \cup {[id |-> i, chan |-> channel, verdict |-> "ack",
                                 step |-> "held", copied |-> FALSE]}
  /\ UNCHANGED <<root, wire, channel, up, closed, decided, dropped>>

\* The handler settles: `ack`, `nack`, or `nack_after` with a delay backend.
\* A retry copies first; every other verdict goes to `settle`.
Decide(h) ==
  /\ h.step = "held"
  /\ \E v \in Verdicts :
       /\ Becomes(h, [h EXCEPT !.verdict = v,
                               !.step = IF v = "retry" THEN "copying" ELSE "settling"])
       /\ decided' = IF v \in {"ack", "drop"} THEN decided \cup {root[h.id]} ELSE decided
  /\ UNCHANGED <<root, place, wire, channel, up, closed, dropped>>

\* `refuse_after_shutdown`: before a copy, and before every settling frame.
Refuse(h) ==
  /\ h.step \in {"copying", "settling"}
  /\ closed
  /\ Ends(h)
  /\ UNCHANGED <<root, place, wire, channel, up, closed, decided, dropped>>

\* The broker is still open at the look: the frame follows, one step later.
Pass(h) ==
  /\ h.step = "settling"
  /\ ~closed
  /\ Becomes(h, [h EXCEPT !.step = "sending"])
  /\ UNCHANGED <<root, place, wire, channel, up, closed, decided, dropped>>

\* `republish`: the copy leaves on the delivery's own channel, and the
\* settlement of the original begins.
SendCopy(h) ==
  /\ h.step = "copying"
  /\ ~closed
  /\ Sendable(h)
  /\ Send("copy", h.id)
  /\ Becomes(h, [h EXCEPT !.step = "settling", !.copied = TRUE])
  /\ UNCHANGED <<root, place, channel, up, closed, decided, dropped>>

\* The acker's frame leaves.
SendFrame(h) ==
  /\ h.step = "sending"
  /\ Sendable(h)
  /\ Send(FrameOf(h.verdict), h.id)
  /\ Ends(h)
  /\ UNCHANGED <<root, place, channel, up, closed, decided, dropped>>

\* The channel of the delivery is gone: the publish or the frame fails, or the
\* future never completes and the handler is dropped.
Fail(h) ==
  /\ h.step \in {"copying", "sending"}
  /\ ~Sendable(h)
  /\ Ends(h)
  /\ UNCHANGED <<root, place, wire, channel, up, closed, decided, dropped>>

\* The future of a settlement is dropped, which `nack_after` documents as not
\* cancel safe.  A message dropped unsettled is one its handler just holds.
Abandon(h) ==
  /\ h.step # "held"
  /\ Ends(h)
  /\ dropped' = IF h.copied THEN dropped \cup {root[h.id]} ELSE dropped
  /\ UNCHANGED <<root, place, wire, channel, up, closed, decided>>
-----------------------------------------------------------------------------
\* The server takes the next frame.  A copy gets a number of its own in the
\* waiting queue; a requeued message is ready again.
Serve ==
  /\ wire # <<>>
  /\ LET f == Head(wire) IN
       \/ /\ f.kind = "copy"
          /\ \E j \in Ids :
               /\ root[j] = NoRoot
               /\ \A i \in Ids : root[i] = NoRoot => j <= i
               /\ root' = [root EXCEPT ![j] = root[f.id]]
               /\ place' = [place EXCEPT ![j] = "waiting"]
       \/ /\ f.kind # "copy"
          /\ place' = [place EXCEPT ![f.id] =
                         IF f.kind = "requeue" THEN "ready" ELSE "gone"]
          /\ UNCHANGED root
  /\ wire' = Tail(wire)
  /\ UNCHANGED <<handlers, channel, up, closed, decided, dropped>>

\* The waiting queue releases a copy to the queue.
DelayOver(i) ==
  /\ place[i] = "waiting"
  /\ place' = [place EXCEPT ![i] = "ready"]
  /\ UNCHANGED <<root, handlers, wire, channel, up, closed, decided, dropped>>

\* What was unacknowledged on a closed channel is ready again.
Requeued == [i \in Ids |-> IF place[i] = "unacked" THEN "ready" ELSE place[i]]

\* The channel dies with the frames still on the way.
ChannelDies ==
  /\ up
  /\ up' = FALSE
  /\ wire' = <<>>
  /\ place' = Requeued
  /\ UNCHANGED <<root, handlers, channel, closed, decided, dropped>>

\* The service subscribes again, on a channel of its own.
Resubscribe ==
  /\ ~up /\ ~closed
  /\ channel < MaxChannels
  /\ channel' = channel + 1
  /\ up' = TRUE
  /\ UNCHANGED <<root, place, handlers, wire, closed, decided, dropped>>

\* `shutdown` marks the connection closed ahead of the close handshake.
MarkClosed ==
  /\ ~closed
  /\ closed' = TRUE
  /\ UNCHANGED <<root, place, handlers, wire, channel, up, decided, dropped>>

\* The close handshake closes the channel behind the frames already sent.
Handshake ==
  /\ closed /\ up
  /\ wire = <<>>
  /\ up' = FALSE
  /\ place' = Requeued
  /\ UNCHANGED <<root, handlers, wire, channel, closed, decided, dropped>>

Settle(h) ==
  \/ Decide(h) \/ Refuse(h) \/ Pass(h) \/ SendCopy(h) \/ SendFrame(h)
  \/ Fail(h)

Next ==
  \/ \E i \in Ids : Deliver(i) \/ DelayOver(i)
  \/ \E h \in handlers : Settle(h) \/ Abandon(h)
  \/ Serve \/ ChannelDies \/ Resubscribe \/ MarkClosed \/ Handshake

Spec == Init /\ [][Next]_vars
-----------------------------------------------------------------------------
\* The messages of m the server still has.
Kept(m) == {i \in Ids : root[i] = m /\ place[i] # "gone"}

\* message.rs: "Duplicate-not-loss".  Whatever is lost with a channel and
\* whenever the broker shuts down, the server has every message, or a copy of
\* it, until a handler acknowledges or drops one of them.
NeverLost == \A m \in Roots \ decided : Kept(m) # {}

\* The handlers and frames that are in the middle of settling m.
Unfinished(m) ==
  \/ \E h \in handlers : root[h.id] = m /\ h.copied
  \/ \E n \in DOMAIN wire : root[wire[n].id] = m

\* Without a failure, a shutdown or a cancellation there is no duplicate either:
\* a message that goes round the waiting queue leaves one of itself.
NoDuplicateUnlessCut ==
  \A m \in Roots \ dropped :
    channel = 1 /\ up /\ ~closed /\ ~Unfinished(m)
      => \A i, j \in Kept(m) : i = j

\* A frame on the way settles a delivery the server still waits for: nothing
\* is settled twice, and no frame of an earlier channel reaches a later one.
FramesSettleUnacked ==
  \A n \in DOMAIN wire :
    /\ place[wire[n].id] = "unacked"
    /\ wire[n].kind # "copy" =>
         \A k \in (n + 1)..Len(wire) : wire[k].id # wire[n].id

\* message.rs, `nack_after`: "a refused settlement leaves no copy behind
\* either": no settlement whose copy already left is refused.
RefusedLeavesNoCopy == [][\A h \in handlers : h.copied => ~Refuse(h)]_vars
=============================================================================
