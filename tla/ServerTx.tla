------------------------------ MODULE ServerTx -------------------------------
(***************************************************************************)
(* `ServerTxPublisher` (crates/ruststream-lapin/src/publisher.rs): one     *)
(* handle, a flag that says a transaction is open on it, and the channel   *)
(* whose server-side transaction it is.  The flag and the channel are read *)
(* and written one at a time; frames reach the server later, or not at all *)
(* when the channel dies under them, which the client learns later still.  *)
(*                                                                         *)
(* On the in-process transport the same handle stages the messages itself  *)
(* and publishes them one by one at the commit.                            *)
(*                                                                         *)
(* Automatic recovery is off: with it every operation is refused.          *)
(***************************************************************************)
EXTENDS Naturals, Sequences, SequencesExt

CONSTANTS
  Tasks,      \* the tasks that share the handle
  Messages,   \* the messages they publish, each once
  Oversized,  \* those of them over the server's largest body, in-process
  NoTask,     \* nobody waits for the answer to a frame
  MaxChannels, \* how many channels are opened (bound)
  MaxFrames   \* how many frames of a channel are on the way (bound)

ASSUME ServerTxAssumption ==
  /\ NoTask \notin Tasks /\ Oversized \subseteq Messages
  /\ MaxChannels \in Nat \ {0}
  /\ MaxFrames \in Nat \ {0}

\* Channels are numbered as they are opened.
Channels == 1..MaxChannels
NoChannel == 0

VARIABLES
  link,      \* the transport: "amqp" or "in_process"
  open,      \* `open`: a transaction is open on the handle
  held,      \* what the channel cell holds
  state,     \* each channel: "new", "up", closed by the server, or known to be gone
  wire,      \* the frames on their way to the server
  staged,    \* the messages in the server's transaction of each channel
  kept,      \* `staged`, the in-process stand for them
  batch,     \* what a commit in-process took of it
  visible,   \* the messages the server routed
  closed,    \* `AmqpConnection::closed`
  op,        \* the operation each task is in
  pc,        \* how far it is
  chan,      \* the channel it was given
  msg,       \* the messages its publish carries: one or none
  accepted,  \* published into the open transaction with an Ok
  cut,       \* the first commit or rollback dropped half-way since it was accepted
  promised,  \* accepted, when a commit returned Ok
  discarded  \* accepted, when an abort returned Ok

serverVars == <<state, wire, staged, visible>>
hereVars == <<link, kept, batch>>
taskVars == <<op, pc, chan, msg>>
claims == <<accepted, cut, promised, discarded>>
vars == <<open, held, serverVars, hereVars, closed, taskVars, claims>>

Settling == {"commit", "rollback"}

Frame == [kind : {"publish"} \cup Settling, msgs : SUBSET Messages,
          by : Tasks \cup {NoTask}]

\* The types, and that an open transaction has a channel in the cell: the case of
\* `tx_channel` in which it "is gone" cannot be reached.
TypeOK ==
  /\ link \in {"amqp", "in_process"}
  /\ kept \in Seq(Messages) /\ batch \in [Tasks -> Seq(Messages)]
  /\ open \in BOOLEAN
  /\ held \in Channels \cup {NoChannel}
  /\ state \in [Channels -> {"new", "up", "dying", "gone"}]
  /\ wire \in [Channels -> Seq(Frame)]
  /\ staged \in [Channels -> SUBSET Messages]
  /\ visible \subseteq Messages
  /\ closed \in BOOLEAN
  /\ op \in [Tasks -> {"none", "begin", "publish"} \cup Settling]
  /\ pc \in [Tasks -> {"idle", "channel", "getting", "ready", "awaiting", "answered",
                      "looked", "staging", "taken", "flushing", "cleared"}]
  /\ chan \in [Tasks -> Channels \cup {NoChannel}]
  /\ msg \in [Tasks -> SUBSET Messages]
  /\ \A t \in Tasks : pc[t] \in {"ready", "awaiting", "answered"} => chan[t] # NoChannel
  /\ open /\ link = "amqp" => held # NoChannel
  /\ accepted \subseteq Messages /\ cut \in [Messages -> {"none"} \cup Settling]
  /\ promised \subseteq Messages /\ discarded \subseteq Messages

Init ==
  /\ link \in {"amqp", "in_process"}
  /\ kept = <<>> /\ batch = [t \in Tasks |-> <<>>]
  /\ open = FALSE /\ held = NoChannel /\ closed = FALSE
  /\ state = [c \in Channels |-> "new"]
  /\ wire = [c \in Channels |-> <<>>]
  /\ staged = [c \in Channels |-> {}]
  /\ visible = {}
  /\ op = [t \in Tasks |-> "none"] /\ pc = [t \in Tasks |-> "idle"]
  /\ chan = [t \in Tasks |-> NoChannel] /\ msg = [t \in Tasks |-> {}]
  /\ accepted = {} /\ cut = [m \in Messages |-> "none"] /\ promised = {} /\ discarded = {}

\* To the client a channel is open until it learns otherwise.
Usable(c) == c # NoChannel /\ state[c] \in {"up", "dying"}

\* Messages not yet published.
Fresh ==
  {m \in Messages :
     /\ m \notin visible \cup accepted \cup promised \cup discarded /\ cut[m] = "none"
     /\ \A t \in Tasks : m \notin msg[t] \cup ToSet(batch[t])
     /\ m \notin ToSet(kept)
     /\ \A c \in Channels :
          /\ m \notin staged[c]
          /\ \A n \in DOMAIN wire[c] : m \notin wire[c][n].msgs}
-----------------------------------------------------------------------------
Enter(t, what, where) ==
  /\ op' = [op EXCEPT ![t] = what]
  /\ pc' = [pc EXCEPT ![t] = where]

\* The operation of t is over.
Leave(t) ==
  /\ Enter(t, "none", "idle")
  /\ chan' = [chan EXCEPT ![t] = NoChannel]
  /\ msg' = [msg EXCEPT ![t] = {}]

\* A frame for a channel the server closed goes nowhere.
Sent(c, kind, msgs, by) ==
  wire' = IF state[c] = "up"
            THEN [wire EXCEPT ![c] = Append(@, [kind |-> kind, msgs |-> msgs, by |-> by])]
            ELSE wire

\* Nobody waits any longer for what t sent.
Unwaited(t) ==
  [c \in Channels |->
     [n \in DOMAIN wire[c] |->
        [wire[c][n] EXCEPT !.by = IF @ = t THEN NoTask ELSE @]]]
-----------------------------------------------------------------------------
(* Faulty variants of definitions below.  No specification uses them: each  *)
(* one stands in for its definition to show that a property notices.        *)

\* The channel of an open transaction is replaced like any other.
TxChannelAnew(t) ==
  /\ pc[t] = "channel"
  /\ pc' = [pc EXCEPT ![t] = "getting"]
  /\ UNCHANGED <<open, held, serverVars, hereVars, closed, op, chan, msg, claims>>

\* Every publish goes through the transactional channel.
CallPublishAlways(t) ==
  /\ link = "amqp" /\ pc[t] = "idle" /\ ~closed
  /\ \E m \in Fresh : msg' = [msg EXCEPT ![t] = {m}]
  /\ Enter(t, "publish", "channel")
  /\ UNCHANGED <<open, held, serverVars, hereVars, closed, chan, claims>>

\* An abort that only forgets the transaction.
SendSettleCommitsOnly(t) ==
  /\ op[t] \in Settling /\ pc[t] = "ready"
  /\ Usable(chan[t])
  /\ IF op[t] = "commit" THEN Sent(chan[t], "commit", {}, t) ELSE UNCHANGED wire
  /\ pc' = [pc EXCEPT ![t] = IF op[t] = "commit" THEN "awaiting" ELSE "answered"]
  /\ UNCHANGED <<hereVars, open, held, state, staged, visible, closed, op, chan, msg, claims>>
-----------------------------------------------------------------------------
(* The operations, up to the channel.  A call refused at its first look     *)
(* (a transaction open already, none open, the broker closed) changes       *)
(* nothing.                                                                 *)

CallBegin(t) ==
  /\ link = "amqp" /\ pc[t] = "idle"
  /\ ~open /\ ~closed
  /\ Enter(t, "begin", "channel")
  /\ UNCHANGED <<open, held, serverVars, hereVars, closed, chan, msg, claims>>

\* `publish` with a transaction open.
CallPublish(t) ==
  /\ link = "amqp" /\ pc[t] = "idle"
  /\ open /\ ~closed
  /\ \E m \in Fresh : msg' = [msg EXCEPT ![t] = {m}]
  /\ Enter(t, "publish", "channel")
  /\ UNCHANGED <<open, held, serverVars, hereVars, closed, chan, claims>>

\* `publish` with none open: on the connection's shared channel, at once.
PublishPlainly(t) ==
  /\ link = "amqp" /\ pc[t] = "idle"
  /\ ~open /\ ~closed
  /\ \E m \in Fresh : visible' = visible \cup {m}
  /\ UNCHANGED <<hereVars, open, held, state, wire, staged, closed, taskVars, claims>>

\* `commit` and `abort`.
CallSettle(t) ==
  /\ link = "amqp" /\ pc[t] = "idle"
  /\ open /\ ~closed
  /\ \E what \in Settling : Enter(t, what, "channel")
  /\ UNCHANGED <<open, held, serverVars, hereVars, closed, chan, msg, claims>>

\* `tx_channel` reads the flag again: an open transaction has the channel the
\* cell holds, dead or not; otherwise the cell is asked for one.
TxChannel(t) ==
  /\ pc[t] = "channel"
  /\ \/ open /\ pc' = [pc EXCEPT ![t] = "ready"] /\ chan' = [chan EXCEPT ![t] = held]
     \/ ~open /\ pc' = [pc EXCEPT ![t] = "getting"] /\ UNCHANGED chan
  /\ UNCHANGED <<open, held, serverVars, hereVars, closed, op, msg, claims>>

\* `ChannelCell::get`: the channel held if it is open, a new one with
\* `tx.select` done, or the error of opening it.
Get(t) ==
  /\ pc[t] = "getting"
  /\ \/ /\ Usable(held)
        /\ pc' = [pc EXCEPT ![t] = "ready"]
        /\ chan' = [chan EXCEPT ![t] = held]
        /\ UNCHANGED <<held, state, op, msg>>
     \/ /\ ~Usable(held) /\ ~closed
        /\ \E c \in Channels :
             /\ state[c] = "new" /\ \A d \in Channels : d < c => state[d] # "new"
             /\ state' = [state EXCEPT ![c] = "up"]
             /\ held' = c
             /\ chan' = [chan EXCEPT ![t] = c]
        /\ pc' = [pc EXCEPT ![t] = "ready"]
        /\ UNCHANGED <<op, msg>>
     \/ /\ ~Usable(held)
        /\ Leave(t)
        /\ UNCHANGED <<held, state>>
  /\ UNCHANGED <<hereVars, open, wire, staged, visible, closed, claims>>
-----------------------------------------------------------------------------
(* The operations, from the channel on.                                     *)

\* `set_open(true)`: the transaction is begun.
SetOpen(t) ==
  /\ op[t] = "begin" /\ pc[t] = "ready"
  /\ open' = TRUE
  /\ Leave(t)
  /\ UNCHANGED <<held, serverVars, hereVars, closed, claims>>

\* The publish leaves with an Ok, or the channel refuses it.
SendPublish(t) ==
  /\ op[t] = "publish" /\ pc[t] = "ready"
  /\ \/ /\ Usable(chan[t])
        /\ Len(wire[chan[t]]) < MaxFrames
        /\ Sent(chan[t], "publish", msg[t], NoTask)
        /\ accepted' = accepted \cup msg[t]
     \/ ~Usable(chan[t]) /\ UNCHANGED <<wire, accepted>>
  /\ Leave(t)
  /\ UNCHANGED <<hereVars, open, held, state, staged, visible, closed, cut, promised, discarded>>

\* `tx_commit` or `tx_rollback` leaves.
SendSettle(t) ==
  /\ op[t] \in Settling /\ pc[t] = "ready"
  /\ Usable(chan[t])
  /\ Len(wire[chan[t]]) < MaxFrames
  /\ Sent(chan[t], op[t], {}, t)
  /\ pc' = [pc EXCEPT ![t] = "awaiting"]
  /\ UNCHANGED <<hereVars, open, held, state, staged, visible, closed, op, chan, msg, claims>>

\* The channel is known to be gone, before the frame or before its answer: the
\* error returns and the flag stays.
SettleFails(t) ==
  /\ op[t] \in Settling /\ pc[t] \in {"ready", "awaiting", "answered"}
  /\ ~Usable(chan[t])
  /\ Leave(t)
  /\ UNCHANGED <<open, held, serverVars, hereVars, closed, claims>>

\* The answer is in: `set_open(false)`, and the caller is told, whatever became of
\* the messages an earlier settlement of the transaction took along.
SettleReturns(t) ==
  /\ pc[t] = "answered"
  /\ open' = FALSE
  /\ accepted' = {}
  /\ promised' = IF op[t] = "commit" THEN promised \cup accepted ELSE promised
  /\ discarded' = IF op[t] = "rollback" THEN discarded \cup accepted ELSE discarded
  /\ Leave(t)
  /\ UNCHANGED <<held, serverVars, hereVars, closed, cut>>

\* The future is dropped where it waits: the frames it sent are not taken back, and a
\* publish may have left one.  After a settlement the flag stays: the transaction is
\* still open to the handle, and the server settles it all the same.
DropFuture(t) ==
  /\ \/ /\ pc[t] = "getting"
        /\ UNCHANGED <<wire, cut>>
     \/ /\ op[t] = "publish" /\ pc[t] = "ready"
        /\ Len(wire[chan[t]]) < MaxFrames
        /\ Sent(chan[t], "publish", msg[t], NoTask)
        /\ UNCHANGED cut
     \/ /\ pc[t] \in {"awaiting", "answered"}
        /\ wire' = Unwaited(t)
        /\ cut' = [m \in Messages |->
                     IF m \in accepted /\ cut[m] = "none" THEN op[t] ELSE cut[m]]
  /\ Leave(t)
  /\ UNCHANGED <<hereVars, open, held, state, staged, visible, closed, accepted, promised, discarded>>
-----------------------------------------------------------------------------
(* The server, the channels and the shutdown.                               *)

\* The server takes the next frame of a channel.
Serve(c) ==
  /\ state[c] = "up" /\ wire[c] # <<>>
  /\ LET f == Head(wire[c]) IN
       /\ staged' = [staged EXCEPT ![c] = IF f.kind = "publish" THEN @ \cup f.msgs ELSE {}]
       /\ visible' = IF f.kind = "commit" THEN visible \cup staged[c] ELSE visible
       /\ pc' = [t \in Tasks |-> IF f.by = t THEN "answered" ELSE pc[t]]
  /\ wire' = [wire EXCEPT ![c] = Tail(@)]
  /\ UNCHANGED <<hereVars, open, held, state, closed, op, chan, msg, claims>>

\* The server closes a channel, over a frame it rejects or with the connection:
\* the transaction is rolled back and what is on the way is ignored.
ServerCloses(c) ==
  /\ state[c] = "up"
  /\ state' = [state EXCEPT ![c] = "dying"]
  /\ wire' = [wire EXCEPT ![c] = <<>>]
  /\ staged' = [staged EXCEPT ![c] = {}]
  /\ UNCHANGED <<hereVars, open, held, visible, closed, taskVars, claims>>

\* The client learns of it.
ClientLearns(c) ==
  /\ state[c] = "dying"
  /\ state' = [state EXCEPT ![c] = "gone"]
  /\ UNCHANGED <<hereVars, open, held, wire, staged, visible, closed, taskVars, claims>>

Shutdown ==
  /\ ~closed
  /\ closed' = TRUE
  /\ UNCHANGED <<open, held, serverVars, hereVars, taskVars, claims>>
-----------------------------------------------------------------------------
(* The in-process stand: no channel, and nothing to await, so no future is  *)
(* dropped half-way; the close of the transport may come between any two    *)
(* looks all the same.                                                      *)

\* What `Bus::publish` refuses.
RefusedHere(m) == closed \/ m \in Oversized

\* A variant for the mutants: a commit that leaves the size to the publishes.
CloseUnsized(t) ==
  /\ pc[t] = "taken"
  /\ open' = FALSE
  /\ pc' = [pc EXCEPT ![t] = "flushing"]
  /\ UNCHANGED <<op, chan, msg, batch, link, kept, held, serverVars, closed, claims>>

Here(t) == link = "in_process" /\ pc[t] = "idle"

BeginHere(t) ==
  /\ Here(t) /\ ~open /\ ~closed
  /\ Enter(t, "begin", "looked")
  /\ UNCHANGED <<open, held, serverVars, hereVars, closed, chan, msg, claims>>

SetOpenHere(t) ==
  /\ pc[t] = "looked"
  /\ open' = TRUE
  /\ Leave(t)
  /\ UNCHANGED <<held, serverVars, hereVars, closed, claims>>

\* `publish` with a transaction open: the frame is checked, not the size.
PublishHere(t) ==
  /\ Here(t) /\ open /\ ~closed
  /\ \E m \in Fresh : msg' = [msg EXCEPT ![t] = {m}]
  /\ Enter(t, "publish", "staging")
  /\ UNCHANGED <<open, held, serverVars, hereVars, closed, chan, claims>>

Stage(t) ==
  /\ pc[t] = "staging"
  /\ \E m \in msg[t] : kept' = Append(kept, m)
  /\ accepted' = accepted \cup msg[t]
  /\ Leave(t)
  /\ UNCHANGED <<link, batch, open, held, serverVars, closed, cut, promised, discarded>>

\* `publish` with none open: the bus takes it, or refuses one that is too large.
PublishPlainlyHere(t) ==
  /\ Here(t) /\ ~open /\ ~closed
  /\ \E m \in Fresh : ~RefusedHere(m) /\ visible' = visible \cup {m}
  /\ UNCHANGED <<hereVars, open, held, state, wire, staged, closed, taskVars, claims>>

\* `commit` takes what is staged, or `abort` clears it.
TakeStaged(t) ==
  /\ Here(t) /\ open /\ ~closed
  /\ \E what \in Settling :
       /\ Enter(t, what, IF what = "commit" THEN "taken" ELSE "cleared")
       /\ batch' = IF what = "commit" THEN [batch EXCEPT ![t] = kept] ELSE batch
  /\ kept' = <<>>
  /\ UNCHANGED <<link, open, held, serverVars, closed, chan, msg, claims>>

\* `set_open(false)`; a commit then looks for a body that is too large, over which
\* it fails with nothing published.
CloseHere(t) ==
  /\ pc[t] = "taken"
  /\ open' = FALSE
  /\ \/ /\ ToSet(batch[t]) \cap Oversized = {}
        /\ pc' = [pc EXCEPT ![t] = "flushing"]
        /\ UNCHANGED <<op, chan, msg, batch, accepted>>
     \/ /\ ToSet(batch[t]) \cap Oversized # {}
        /\ Leave(t)
        /\ batch' = [batch EXCEPT ![t] = <<>>] /\ accepted' = {}
  /\ UNCHANGED <<link, kept, held, serverVars, closed, cut, promised, discarded>>

\* `flush_in_process`, the next message.
FlushHere(t) ==
  /\ pc[t] = "flushing" /\ batch[t] # <<>>
  /\ ~RefusedHere(Head(batch[t]))
  /\ visible' = visible \cup {Head(batch[t])}
  /\ batch' = [batch EXCEPT ![t] = Tail(@)]
  /\ UNCHANGED <<link, kept, open, held, state, wire, staged, closed, taskVars, claims>>

FlushRefused(t) ==
  /\ pc[t] = "flushing" /\ batch[t] # <<>>
  /\ RefusedHere(Head(batch[t]))
  /\ Leave(t)
  /\ batch' = [batch EXCEPT ![t] = <<>>] /\ accepted' = {}
  /\ UNCHANGED <<link, kept, open, held, serverVars, closed, cut, promised, discarded>>

\* All of it is published: the commit returns Ok.
FlushedHere(t) ==
  /\ pc[t] = "flushing" /\ batch[t] = <<>>
  /\ promised' = promised \cup accepted
  /\ accepted' = {}
  /\ Leave(t)
  /\ UNCHANGED <<hereVars, open, held, serverVars, closed, cut, discarded>>

\* `abort`, the rest: `set_open(false)`.
AbortedHere(t) ==
  /\ pc[t] = "cleared"
  /\ open' = FALSE
  /\ accepted' = {}
  /\ discarded' = discarded \cup accepted
  /\ Leave(t)
  /\ UNCHANGED <<held, serverVars, hereVars, closed, cut, promised>>
-----------------------------------------------------------------------------
Operate(t) ==
  \/ CallBegin(t) \/ CallPublish(t) \/ PublishPlainly(t) \/ CallSettle(t)
  \/ TxChannel(t) \/ Get(t)
  \/ SetOpen(t) \/ SendPublish(t) \/ SendSettle(t)
  \/ SettleFails(t) \/ SettleReturns(t) \/ DropFuture(t)

OperateHere(t) ==
  \/ BeginHere(t) \/ SetOpenHere(t) \/ PublishHere(t) \/ Stage(t) \/ PublishPlainlyHere(t)
  \/ TakeStaged(t) \/ CloseHere(t) \/ AbortedHere(t)
  \/ FlushHere(t) \/ FlushRefused(t) \/ FlushedHere(t)

Next ==
  \/ \E t \in Tasks : Operate(t) \/ OperateHere(t)
  \/ \E c \in Channels : Serve(c) \/ ServerCloses(c) \/ ClientLearns(c)
  \/ Shutdown

Spec == Init /\ [][Next]_vars
-----------------------------------------------------------------------------
\* After a commit that returned Ok, a publish that returned Ok in its transaction is
\* visible: publisher.rs, `tx_channel`, a fresh channel "would commit nothing and
\* report success for the publishes it never carried".  It is rolled back, whole,
\* only where an abort of the transaction was dropped half-way before: the flag is
\* still up then, and the commit that follows finds nothing of it and returns Ok.
CommitTruth == \A m \in promised : m \in visible <=> cut[m] # "rollback"

\* A commit in-process returns, either way.
CommitEnds(t) == link = "in_process" /\ op[t] = "commit" /\ op'[t] = "none"

\* publisher.rs: the commit in-process "makes the whole transaction visible at
\* once", and a body over the limit "publishes none of it": a commit that ends with
\* a part of its transaction published was stopped by the close of the transport.
WholeUnlessClosed ==
  [][\A t \in Tasks : CommitEnds(t) =>
       accepted \subseteq visible \/ accepted \cap visible = {} \/ closed]_vars

\* After an abort that returned Ok, nothing its transaction accepted is visible, nor
\* will a later commit of the handle make it so, except what a commit dropped half-way
\* before the abort took along: that is visible, and the abort returns Ok over it.
AbortTruth == \A m \in discarded : m \in visible <=> cut[m] = "commit"

\* What becomes of a transaction is what its caller was told, by an Ok of `commit` or
\* `abort`, unless the caller dropped an earlier settlement of it once its frame had
\* left (publisher.rs:697-698, 730-732, where the flag is cleared after the await): then
\* the first one dropped has decided, whatever a later Ok says.
OkIsTrue == CommitTruth /\ AbortTruth

\* A transaction begins on a channel that carries nothing of an earlier one, and
\* in-process with nothing staged, whatever was cut or failed before.
BeginsEmpty ==
  (\A t \in Tasks : pc[t] = "idle") /\ ~open
    => kept = <<>> /\ \A c \in Channels : staged[c] = {} /\ wire[c] = <<>>

\* `tx_channel`: "A channel that died while a transaction was open is handed
\* back as it is", and not replaced under the transaction.
OpenKeepsChannel == [][open /\ open' => held' = held]_vars
=============================================================================
