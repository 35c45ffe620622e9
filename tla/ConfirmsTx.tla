----------------------------- MODULE ConfirmsTx ------------------------------
(***************************************************************************)
(* `ConfirmsPublisher` and its two kinds of transaction                    *)
(* (crates/ruststream-lapin/src/{publisher,transaction}.rs): one buffer on *)
(* the handle that begin opens and commit or abort takes, and any number   *)
(* of buffers owned by a task.  A commit flushes its buffer over the       *)
(* confirm channel all of them share, which may die and be replaced        *)
(* between any two frames; a publish outside a transaction is a flush of   *)
(* one message.  With `auto_recover` lapin may instead restore the channel *)
(* the flush is on, without what was on the way over it.                   *)
(***************************************************************************)
EXTENDS Naturals, Sequences, SequencesExt

CONSTANTS
  Tasks,       \* the tasks that share the handle
  MaxMessage,  \* how many messages they publish (bound)
  MaxChannels  \* how many confirm channels are opened (bound)

ASSUME ConfirmsTxAssumption ==
  /\ MaxMessage \in Nat
  /\ MaxChannels \in Nat \ {0}

\* Messages and channels are numbered as they come.
Messages == 1..MaxMessage
Channels == 1..MaxChannels
NoChannel == 0

VARIABLES
  recovers,  \* `auto_recover`, as the broker was built
  used,      \* how many messages were published so far
  txn,       \* the handle's transaction: none or one buffer
  owned,     \* the transaction each task owns: none or one buffer
  held,      \* what the channel cell holds
  state,     \* each channel: "new", "up", cut off, and known to be restored or gone
  wire,      \* the messages on their way to the server
  taken,     \* the messages the server took, in its order
  verdict,   \* the confirm of each message: none yet, an answer, or lost for good
  closed,    \* `AmqpConnection::closed`
  pc,        \* how far the flush of each task is
  chan,      \* its channel
  batch,     \* what it flushes, kept after its end
  sent,      \* how much of it has left
  confirmed, \* how many of its confirms were awaited
  dropped,   \* the messages aborted, or lost with a transaction value
  claimed    \* the messages a commit or a publish returned Ok for

buffers == <<used, txn, owned>>
serverVars == <<state, wire, taken, verdict>>
flushVars == <<pc, chan, batch, sent, confirmed>>
vars == <<recovers, buffers, held, serverVars, closed, flushVars, dropped, claimed>>

\* No transaction, or the buffer of one.
NoTxn == {}
Txn(buffer) == {buffer}

TypeOK ==
  /\ recovers \in BOOLEAN
  /\ used \in 0..MaxMessage
  /\ txn \subseteq Seq(Messages) /\ \A a, b \in txn : a = b
  /\ owned \in [Tasks -> SUBSET Seq(Messages)]
  /\ \A t \in Tasks : \A a, b \in owned[t] : a = b
  /\ held \in Channels \cup {NoChannel}
  /\ state \in [Channels -> {"new", "up", "dying", "reconnecting", "gone"}]
  /\ wire \in [Channels -> Seq(Messages)]
  /\ taken \in Seq(Messages)
  /\ verdict \in [Messages -> {"none", "ack", "nack", "lost"}]
  /\ closed \in BOOLEAN
  /\ pc \in [Tasks -> {"idle", "channel", "sending", "confirming"}]
  /\ chan \in [Tasks -> Channels \cup {NoChannel}]
  /\ batch \in [Tasks -> Seq(Messages)]
  /\ sent \in [Tasks -> Nat] /\ confirmed \in [Tasks -> Nat]
  /\ \A t \in Tasks : confirmed[t] <= sent[t] /\ sent[t] <= Len(batch[t])
  /\ dropped \subseteq Messages
  /\ claimed \subseteq Messages

Init ==
  /\ recovers \in BOOLEAN
  /\ used = 0 /\ txn = NoTxn /\ owned = [t \in Tasks |-> NoTxn]
  /\ held = NoChannel /\ closed = FALSE
  /\ state = [c \in Channels |-> "new"]
  /\ wire = [c \in Channels |-> <<>>]
  /\ taken = <<>>
  /\ verdict = [m \in Messages |-> "none"]
  /\ pc = [t \in Tasks |-> "idle"] /\ chan = [t \in Tasks |-> NoChannel]
  /\ batch = [t \in Tasks |-> <<>>]
  /\ sent = [t \in Tasks |-> 0] /\ confirmed = [t \in Tasks |-> 0]
  /\ dropped = {} /\ claimed = {}

\* The cell hands a channel out that is connected, to the client's knowledge, or being
\* restored.
Usable(c) == c # NoChannel /\ state[c] \in {"up", "dying", "reconnecting"}

\* The client knows that the channel is cut off.
Interrupted(c) == state[c] \in {"reconnecting", "gone"}

\* The flush of t begins with this buffer, and ends there when it is empty or
\* the broker is closed.
StartFlush(t, buffer) ==
  /\ batch' = [batch EXCEPT ![t] = buffer]
  /\ sent' = [sent EXCEPT ![t] = 0]
  /\ confirmed' = [confirmed EXCEPT ![t] = 0]
  /\ pc' = [pc EXCEPT ![t] = IF buffer = <<>> \/ closed THEN "idle" ELSE "channel"]
  /\ UNCHANGED chan

Idle(t) == pc[t] = "idle"

NextMessage == used + 1

\* A frame leaves on channel c.  What the server no longer reads is lost; of what is
\* published while the channel is being restored so is the confirm.
Leaves(c, m) ==
  /\ wire' = IF state[c] = "up" THEN [wire EXCEPT ![c] = Append(@, m)] ELSE wire
  /\ verdict' = IF state[c] = "reconnecting" THEN [verdict EXCEPT ![m] = "lost"] ELSE verdict
-----------------------------------------------------------------------------
(* Faulty variants of definitions below.  No specification uses them: each  *)
(* one stands in for its definition to show that a property notices.        *)

\* The buffer is copied into the flush and stays on the handle.
CommitCopying(t) ==
  /\ Idle(t) /\ txn # NoTxn
  /\ \E buffer \in txn : StartFlush(t, buffer)
  /\ UNCHANGED <<recovers, buffers, held, serverVars, closed, dropped, claimed>>

\* Every message of a flush asks the cell for a channel of its own.
SendOnCurrent(t) ==
  /\ pc[t] = "sending" /\ sent[t] < Len(batch[t])
  /\ Usable(held)
  /\ Leaves(held, batch[t][sent[t] + 1])
  /\ sent' = [sent EXCEPT ![t] = @ + 1]
  /\ pc' = [pc EXCEPT ![t] = IF sent'[t] = Len(batch[t]) THEN "confirming" ELSE @]
  /\ UNCHANGED <<recovers, buffers, held, state, taken, closed, chan, batch,
                 confirmed, dropped, claimed>>

\* The first confirm stands for all.
AllConfirmedByOne(t) == confirmed[t] > 0

\* An abort that leaves the buffer on the handle.
AbortKeeping(t) ==
  /\ Idle(t) /\ txn # NoTxn
  /\ \E buffer \in txn : dropped' = dropped \cup ToSet(buffer)
  /\ UNCHANGED <<recovers, buffers, held, serverVars, closed, flushVars, claimed>>
-----------------------------------------------------------------------------
(* The handle and its buffers: each of these holds the lock, or owns the    *)
(* buffer, throughout.                                                      *)

\* `publish`: into the open transaction, or at once as a flush of one.
Publish(t) ==
  /\ Idle(t) /\ used < MaxMessage
  /\ used' = NextMessage
  /\ \/ /\ txn # NoTxn
        /\ txn' = {Append(buffer, NextMessage) : buffer \in txn}
        /\ UNCHANGED flushVars
     \/ /\ txn = NoTxn
        /\ StartFlush(t, <<NextMessage>>)
        /\ UNCHANGED txn
  /\ UNCHANGED <<recovers, owned, held, serverVars, closed, dropped, claimed>>

\* `begin_transaction`; with one open it changes nothing.
Begin(t) ==
  /\ Idle(t) /\ txn = NoTxn
  /\ txn' = Txn(<<>>)
  /\ UNCHANGED <<recovers, used, owned, held, serverVars, closed, flushVars, dropped, claimed>>

\* `commit` takes the buffer and flushes it.
Commit(t) ==
  /\ Idle(t) /\ txn # NoTxn
  /\ \E buffer \in txn : StartFlush(t, buffer)
  /\ txn' = NoTxn
  /\ UNCHANGED <<recovers, used, owned, held, serverVars, closed, dropped, claimed>>

\* `abort` takes the buffer and drops it.
Abort(t) ==
  /\ Idle(t) /\ txn # NoTxn
  /\ \E buffer \in txn : dropped' = dropped \cup ToSet(buffer)
  /\ txn' = NoTxn
  /\ UNCHANGED <<recovers, used, owned, held, serverVars, closed, flushVars, claimed>>

\* `transaction`: one of the task's own.
Open(t) ==
  /\ Idle(t) /\ owned[t] = NoTxn
  /\ owned' = [owned EXCEPT ![t] = Txn(<<>>)]
  /\ UNCHANGED <<recovers, used, txn, held, serverVars, closed, flushVars, dropped, claimed>>

\* `Transaction::publish`.
PublishOwned(t) ==
  /\ Idle(t) /\ owned[t] # NoTxn /\ used < MaxMessage
  /\ used' = NextMessage
  /\ owned' = [owned EXCEPT ![t] = {Append(buffer, NextMessage) : buffer \in @}]
  /\ UNCHANGED <<recovers, txn, held, serverVars, closed, flushVars, dropped, claimed>>

\* `Transaction::commit` consumes the value.
CommitOwned(t) ==
  /\ Idle(t)
  /\ \E buffer \in owned[t] : StartFlush(t, buffer)
  /\ owned' = [owned EXCEPT ![t] = NoTxn]
  /\ UNCHANGED <<recovers, used, txn, held, serverVars, closed, dropped, claimed>>

\* `Transaction::abort`, or the value dropped unsettled.
AbortOwned(t) ==
  /\ Idle(t)
  /\ \E buffer \in owned[t] : dropped' = dropped \cup ToSet(buffer)
  /\ owned' = [owned EXCEPT ![t] = NoTxn]
  /\ UNCHANGED <<recovers, used, txn, held, serverVars, closed, flushVars, claimed>>
-----------------------------------------------------------------------------
(* A flush.                                                                 *)

End(t) ==
  /\ pc' = [pc EXCEPT ![t] = "idle"]
  /\ chan' = [chan EXCEPT ![t] = NoChannel]

\* `channel`: the cell's channel if it is open, a new one in confirm mode, or
\* the error of opening it.
GetChannel(t) ==
  /\ pc[t] = "channel"
  /\ \/ /\ Usable(held)
        /\ chan' = [chan EXCEPT ![t] = held]
        /\ pc' = [pc EXCEPT ![t] = "sending"]
        /\ UNCHANGED <<held, state>>
     \/ /\ ~Usable(held) /\ ~closed
        /\ \E c \in Channels :
             /\ state[c] = "new" /\ \A d \in Channels : d < c => state[d] # "new"
             /\ state' = [state EXCEPT ![c] = "up"]
             /\ held' = c
             /\ chan' = [chan EXCEPT ![t] = c]
        /\ pc' = [pc EXCEPT ![t] = "sending"]
     \/ ~Usable(held) /\ End(t) /\ UNCHANGED <<held, state>>
  /\ UNCHANGED <<recovers, buffers, wire, taken, verdict, closed, batch, sent, confirmed,
                 dropped, claimed>>

\* The next frame leaves on the flush's channel; after the last the confirms are awaited.
Send(t) ==
  /\ pc[t] = "sending" /\ sent[t] < Len(batch[t])
  /\ Usable(chan[t])
  /\ Leaves(chan[t], batch[t][sent[t] + 1])
  /\ sent' = [sent EXCEPT ![t] = @ + 1]
  /\ pc' = [pc EXCEPT ![t] = IF sent'[t] = Len(batch[t]) THEN "confirming" ELSE @]
  /\ UNCHANGED <<recovers, buffers, held, state, taken, closed, chan, batch,
                 confirmed, dropped, claimed>>

\* The channel refuses the frame, and the rest of the buffer is lost.
SendRefused(t) ==
  /\ pc[t] = "sending" /\ sent[t] < Len(batch[t])
  /\ Interrupted(chan[t])
  /\ End(t)
  /\ UNCHANGED <<recovers, buffers, held, serverVars, closed, batch, sent, confirmed,
                 dropped, claimed>>

AllConfirmed(t) == confirmed[t] = Len(batch[t])

\* The next confirm: an ack, or the end of the flush by a nack, or by the channel's
\* loss, which takes the confirms that are not in along.
Confirm(t) ==
  /\ pc[t] = "confirming" /\ ~AllConfirmed(t)
  /\ LET m == batch[t][confirmed[t] + 1] IN
       \/ verdict[m] = "ack" /\ confirmed' = [confirmed EXCEPT ![t] = @ + 1] /\ UNCHANGED <<pc, chan>>
       \/ verdict[m] \in {"nack", "lost"} /\ End(t) /\ UNCHANGED confirmed
       \/ Interrupted(chan[t]) /\ End(t) /\ UNCHANGED confirmed
  /\ UNCHANGED <<recovers, buffers, held, serverVars, closed, batch, sent, dropped, claimed>>

\* Every confirm is in: Ok.
FlushReturns(t) ==
  /\ pc[t] = "confirming" /\ AllConfirmed(t)
  /\ claimed' = claimed \cup ToSet(batch[t])
  /\ End(t)
  /\ UNCHANGED <<recovers, buffers, held, serverVars, closed, batch, sent, confirmed, dropped>>

\* The future is dropped where it waits.
DropFuture(t) ==
  /\ ~Idle(t)
  /\ End(t)
  /\ UNCHANGED <<recovers, buffers, held, serverVars, closed, batch, sent, confirmed,
                 dropped, claimed>>
-----------------------------------------------------------------------------
(* The server, the channels and the shutdown.                               *)

\* The server takes the next frame of a channel, and confirms it either way.
Serve(c) ==
  /\ wire[c] # <<>>
  /\ taken' = Append(taken, Head(wire[c]))
  /\ \E answer \in {"ack", "nack"} : verdict' = [verdict EXCEPT ![Head(wire[c])] = answer]
  /\ wire' = [wire EXCEPT ![c] = Tail(@)]
  /\ UNCHANGED <<recovers, buffers, held, state, closed, flushVars, dropped, claimed>>

\* The server closes a channel and ignores what is on the way.
ServerCloses(c) ==
  /\ state[c] = "up"
  /\ state' = [state EXCEPT ![c] = "dying"]
  /\ wire' = [wire EXCEPT ![c] = <<>>]
  /\ UNCHANGED <<recovers, buffers, held, taken, verdict, closed, flushVars, dropped, claimed>>

\* What left on channel c in a flush that is not over.
Published(c) ==
  UNION {{batch[t][i] : i \in 1..sent[t]} : t \in {u \in Tasks : chan[u] = c}}

\* The client learns of it: the channel is closed for good, or it is one to restore,
\* and what the server did not answer for it never will.
ClientLearns(c) ==
  /\ state[c] = "dying"
  /\ \/ state' = [state EXCEPT ![c] = "gone"] /\ UNCHANGED verdict
     \/ /\ recovers
        /\ state' = [state EXCEPT ![c] = "reconnecting"]
        /\ verdict' = [m \in Messages |->
                         IF m \in Published(c) /\ verdict[m] = "none" THEN "lost" ELSE verdict[m]]
  /\ UNCHANGED <<recovers, buffers, held, wire, taken, closed, flushVars, dropped, claimed>>

\* lapin restores the channel, in confirm mode as it was, on the same handle; or it runs
\* out of retries.
Restore(c) ==
  /\ state[c] = "reconnecting"
  /\ \E to \in {"up", "gone"} : state' = [state EXCEPT ![c] = to]
  /\ UNCHANGED <<recovers, buffers, held, wire, taken, verdict, closed, flushVars, dropped, claimed>>

Shutdown ==
  /\ ~closed
  /\ closed' = TRUE
  /\ UNCHANGED <<recovers, buffers, held, serverVars, flushVars, dropped, claimed>>
-----------------------------------------------------------------------------
Buffering(t) ==
  \/ Publish(t) \/ Begin(t) \/ Commit(t) \/ Abort(t)
  \/ Open(t) \/ PublishOwned(t) \/ CommitOwned(t) \/ AbortOwned(t)

Flushing(t) ==
  \/ GetChannel(t) \/ Send(t) \/ SendRefused(t) \/ Confirm(t)
  \/ FlushReturns(t) \/ DropFuture(t)

Next ==
  \/ \E t \in Tasks : Buffering(t) \/ Flushing(t)
  \/ \E c \in Channels : Serve(c) \/ ServerCloses(c) \/ ClientLearns(c) \/ Restore(c)
  \/ Shutdown

Spec == Init /\ [][Next]_vars
-----------------------------------------------------------------------------
Buffered == UNION {ToSet(b) : b \in txn \cup UNION {owned[t] : t \in Tasks}}

\* "Publishes the buffered messages in order and awaits every confirm": what a
\* commit or a publish answers Ok for, the server took and acknowledged.
ClaimedIsAcked == \A m \in claimed : verdict[m] = "ack"

\* transaction.rs: a commit that stops half-way "leaves an unknown prefix of the buffer
\* published".  The server takes each message of a flush once and in the buffer's order,
\* and before a message all that stand before it, whatever channels died and were
\* replaced meanwhile.  With `auto_recover` it may take a later message without an
\* earlier one, when the channel of the flush was restored under it: "Failed publishes
\* are not replayed" (broker.rs).  Then the earlier one is never taken, and its confirm
\* is lost, so that the commit fails (`ClaimedIsAcked`).
TakesPrefix ==
  \A t \in Tasks : \A j \in DOMAIN batch[t], n \in DOMAIN taken :
    taken[n] = batch[t][j] =>
      /\ \A k \in DOMAIN taken : taken[k] = taken[n] => k = n
      /\ \A i \in 1..(j - 1) :
           \/ \E k \in 1..(n - 1) : taken[k] = batch[t][i]
           \/ recovers /\ verdict[batch[t][i]] = "lost" /\ batch[t][i] \notin ToSet(taken)

\* "abort discards it without touching the broker", and nothing of an open
\* transaction is on the broker before its commit.
NothingEarly ==
  \A m \in Buffered \cup dropped :
    /\ m \notin ToSet(taken)
    /\ \A c \in Channels : m \notin ToSet(wire[c])

\* Two tasks that settle one transaction, or settle beside each other, take
\* each message once: no message is in two buffers or flushes.
TakenOnce ==
  \A t \in Tasks :
    /\ ToSet(batch[t]) \cap (Buffered \cup dropped) = {}
    /\ \A u \in Tasks \ {t} : ToSet(batch[t]) \cap ToSet(batch[u]) = {}
=============================================================================
