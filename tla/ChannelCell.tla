----------------------------- MODULE ChannelCell -----------------------------
(***************************************************************************)
(* The cell a live handle keeps its AMQP channel in                        *)
(* (crates/ruststream-lapin/src/channel.rs).  Every clone of the handle    *)
(* calls `get`: it returns the held channel while that channel is alive,   *)
(* and otherwise takes the `opening` lock, looks again, opens a channel    *)
(* and stores it.  The read takes no lock, the channel may change state    *)
(* between any two steps of a caller, and a caller's future may be dropped *)
(* at either await.                                                        *)
(***************************************************************************)
EXTENDS Naturals

CONSTANTS
  Callers,   \* the tasks calling `get` on clones of one handle
  Channels,  \* the channels the connection may hand out (bounds the openings)
  NoChannel, \* the empty cell
  NoCaller   \* the free `opening` lock

ASSUME CellAssumption ==
  /\ NoChannel \notin Channels
  /\ NoCaller \notin Callers

VARIABLES
  held,     \* ArcSwapOption: the stored channel, or NoChannel
  opening,  \* Mutex: the caller holding it, or NoCaller
  status,   \* what lapin reports of each channel; "unopened" before it exists
  pc,       \* where each caller stands in `get`
  read,     \* the channel each caller loaded, opened, or returned
  stale     \* for each caller, the channels already closed when its call began

vars == <<held, opening, status, pc, read, stale>>

Slot == Channels \cup {NoChannel}

\* `get` reads the cell twice, before the lock and under it.
Steps == {"idle", "load", "check", "lock", "reload", "recheck", "open",
          "store", "returned", "failed"}

\* The steps under the guard `_opening`.
Guarded == {"reload", "recheck", "open", "store"}

TypeOK ==
  /\ held \in Slot
  /\ opening \in Callers \cup {NoCaller}
  /\ status \in [Channels -> {"unopened", "connected", "reconnecting", "closed"}]
  /\ pc \in [Callers -> Steps]
  /\ read \in [Callers -> Slot]
  /\ stale \in [Callers -> SUBSET Channels]
-----------------------------------------------------------------------------
\* `status.connected() || status.reconnecting()`: lapin restores a channel it
\* is recovering, so the cell keeps it.
Usable(ch) == ch \in Channels /\ status[ch] \in {"connected", "reconnecting"}

Closed == {ch \in Channels : status[ch] = "closed"}

Alive == {ch \in Channels : Usable(ch)}

\* `new` starts empty; `holding` starts with the connection's own channel.
Init ==
  /\ \/ /\ held = NoChannel
        /\ status = [ch \in Channels |-> "unopened"]
     \/ \E first \in Channels :
          /\ held = first
          /\ status = [ch \in Channels |->
                         IF ch = first THEN "connected" ELSE "unopened"]
  /\ opening = NoCaller
  /\ pc = [c \in Callers |-> "idle"]
  /\ read = [c \in Callers |-> NoChannel]
  /\ stale = [c \in Callers |-> {}]

Goto(c, step) == pc' = [pc EXCEPT ![c] = step]
-----------------------------------------------------------------------------
(* Faulty variants of actions below.  No specification uses them: each one  *)
(* stands in for its action to show that a property notices the bug.        *)

\* The lock is taken, and the cell is not looked at again under it.
LockWithoutSecondLook(c) ==
  /\ pc[c] = "lock"
  /\ opening = NoCaller
  /\ opening' = c
  /\ Goto(c, "open")
  /\ UNCHANGED <<held, status, read, stale>>

\* Whatever is held is returned, alive or not.
HitWhateverIsHeld(c) ==
  /\ pc[c] \in {"check", "recheck"}
  /\ read[c] # NoChannel
  /\ Goto(c, "returned")
  /\ opening' = IF pc[c] = "recheck" THEN NoCaller ELSE opening
  /\ UNCHANGED <<held, status, read, stale>>

\* A recovering channel is taken for a dead one.
MissWhileReconnecting(c) ==
  /\ \/ pc[c] = "check" /\ Goto(c, "lock")
     \/ pc[c] = "recheck" /\ Goto(c, "open")
  /\ ~(read[c] \in Channels /\ status[read[c]] = "connected")
  /\ UNCHANGED <<held, opening, status, read, stale>>

\* A dropped future leaves the lock taken.
CancelKeepingLock(c) ==
  /\ pc[c] \in {"lock", "open"}
  /\ Goto(c, "failed")
  /\ UNCHANGED <<held, opening, status, read, stale>>

\* The guard is dropped as soon as it is bound: `let _ = self.opening.lock().await`.
LockLetGo(c) ==
  /\ pc[c] = "lock"
  /\ opening = NoCaller
  /\ Goto(c, "reload")
  /\ UNCHANGED <<held, opening, status, read, stale>>
-----------------------------------------------------------------------------
\* A caller enters `get`.
Begin(c) ==
  /\ pc[c] = "idle"
  /\ Goto(c, "load")
  /\ stale' = [stale EXCEPT ![c] = Closed]
  /\ UNCHANGED <<held, opening, status, read>>

\* `live`, first half: the atomic load.
Load(c) ==
  /\ \/ pc[c] = "load" /\ Goto(c, "check")
     \/ pc[c] = "reload" /\ Goto(c, "recheck")
  /\ read' = [read EXCEPT ![c] = held]
  /\ UNCHANGED <<held, opening, status, stale>>

\* `live` finds the loaded channel usable, and `get` returns it.
Hit(c) ==
  /\ pc[c] \in {"check", "recheck"}
  /\ Usable(read[c])
  /\ Goto(c, "returned")
  /\ opening' = IF pc[c] = "recheck" THEN NoCaller ELSE opening
  /\ UNCHANGED <<held, status, read, stale>>

\* `live` returns None: on to the lock, or under the lock to the opening.
Miss(c) ==
  /\ \/ pc[c] = "check" /\ Goto(c, "lock")
     \/ pc[c] = "recheck" /\ Goto(c, "open")
  /\ ~Usable(read[c])
  /\ UNCHANGED <<held, opening, status, read, stale>>

Lock(c) ==
  /\ pc[c] = "lock"
  /\ opening = NoCaller
  /\ opening' = c
  /\ Goto(c, "reload")
  /\ UNCHANGED <<held, status, read, stale>>

\* `open().await` answers with a channel.
Opened(c) ==
  /\ pc[c] = "open"
  /\ \E ch \in Channels :
       /\ status[ch] = "unopened"
       /\ status' = [status EXCEPT ![ch] = "connected"]
       /\ read' = [read EXCEPT ![c] = ch]
  /\ Goto(c, "store")
  /\ UNCHANGED <<held, opening, stale>>

\* `open().await` fails, and `?` returns its error and drops the guard.
OpenFails(c) ==
  /\ pc[c] = "open"
  /\ Goto(c, "failed")
  /\ opening' = NoCaller
  /\ UNCHANGED <<held, status, read, stale>>

\* `held.store`, then the return that drops the guard.
Store(c) ==
  /\ pc[c] = "store"
  /\ held' = read[c]
  /\ opening' = NoCaller
  /\ Goto(c, "returned")
  /\ UNCHANGED <<status, read, stale>>

\* The caller's future is dropped at an await: waiting for the lock, or in
\* `open`, where the guard goes with it.
Cancel(c) ==
  /\ pc[c] \in {"lock", "open"}
  /\ opening' = IF pc[c] = "open" THEN NoCaller ELSE opening
  /\ Goto(c, "failed")
  /\ UNCHANGED <<held, status, read, stale>>

\* The caller is done with the answer and may call again.
Finish(c) ==
  /\ pc[c] \in {"returned", "failed"}
  /\ Goto(c, "idle")
  /\ read' = [read EXCEPT ![c] = NoChannel]
  /\ stale' = [stale EXCEPT ![c] = {}]
  /\ UNCHANGED <<held, opening, status>>

\* Lapin: a channel is lost for good, or starts or ends a recovery.
ChannelChanges ==
  /\ \E ch \in Alive, to \in {"connected", "reconnecting", "closed"} :
       /\ status[ch] # to
       /\ status' = [status EXCEPT ![ch] = to]
  /\ UNCHANGED <<held, opening, pc, read, stale>>

Get(c) ==
  \/ Begin(c)  \/ Load(c)   \/ Hit(c)       \/ Miss(c)  \/ Lock(c)
  \/ Opened(c) \/ Store(c)  \/ OpenFails(c) \/ Cancel(c) \/ Finish(c)

Next == ChannelChanges \/ \E c \in Callers : Get(c)

\* A runtime polls a task that is ready, tokio's mutex is granted in turn, and
\* the server answers `channel.open` one way or the other.
Fairness ==
  \A c \in Callers :
    /\ WF_vars(Load(c)) /\ WF_vars(Hit(c) \/ Miss(c)) /\ SF_vars(Lock(c))
    /\ WF_vars(Opened(c) \/ OpenFails(c)) /\ WF_vars(Store(c))

Spec == Init /\ [][Next]_vars

FairSpec == Spec /\ Fairness
-----------------------------------------------------------------------------
\* channel.rs says "two callers racing on a dead one do not open two": of all
\* the channels a cell ever opened, at most one is alive, whatever the callers
\* and the channels do in between.
OneChannelAlive == \A a, b \in Alive : a = b

\* Nobody is under the guard without the lock: an opener that fails or whose
\* future is dropped releases it, and no other caller runs there meanwhile.
LockCoversOpening ==
  \A c \in Callers : pc[c] \in Guarded <=> opening = c

\* A call never answers with a channel that was already closed when it began:
\* the closed channel of an earlier failure is not what a later call gets.
AnswersAreFresh ==
  \A c \in Callers : pc[c] = "returned" => read[c] \in Channels \ stale[c]

\* A stored channel leaves the cell only after it has closed; a channel lapin
\* is still recovering keeps its place, with the consumers restored on it.
KeepsUsableChannel == [][held' # held => ~Usable(held)]_vars

\* Every call that begins comes to an end: the lock is never left behind.
EveryCallEnds ==
  \A c \in Callers : pc[c] = "load" ~> pc[c] \in {"returned", "failed"}

\* The cell implements the abstract one.
OnDemand == INSTANCE OnDemandChannel
              WITH live <- Alive, spent <- Closed

ImplementsOnDemand == OnDemand!Spec
=============================================================================
