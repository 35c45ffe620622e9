------------------------------ MODULE Recovery -------------------------------
(***************************************************************************)
(* Automatic recovery of a connection                                      *)
(* (crates/ruststream-lapin/src/{broker,recovery}.rs): the connector that  *)
(* counts failed dials, the task that turns lapin's events into wakeups,   *)
(* the consumers that poll through an outage, and the shutdown that has to *)
(* close a connection lapin is still restoring.  All of them meet in one   *)
(* watch channel: its value says that recovery failed for good, and every  *)
(* send wakes whoever has not seen it yet.                                 *)
(***************************************************************************)
EXTENDS Naturals, Sequences, FiniteSets

CONSTANTS
  Consumers,  \* the consumers polling on the connection
  Cleaner,    \* the task `close_after_recovery` spawns
  Retries,    \* `recovery_retries`
  MaxOutages, \* how often the connection is lost (bound)
  MaxItems    \* how many items wait in one consumer (bound)

ASSUME RecoveryAssumption ==
  /\ Cleaner \notin Consumers
  /\ Retries \in Nat /\ MaxOutages \in Nat /\ MaxItems \in Nat

VARIABLES
  link,       \* lapin's connection status
  tcp,        \* while reconnecting: the socket is up and the handshake is on
  failures,   \* the connector's count of failed dials
  handshakes, \* lapin's count of failed handshakes in this outage
  outages,    \* how often the connection was lost
  events,     \* the events lapin has for the listener
  watching,   \* the events task is running
  terminal,   \* the value of the watch channel
  news,       \* the receivers with a send they have not seen
  closed,     \* `AmqpConnection::closed`
  shut,       \* how far `shutdown` is
  cleaner,    \* how far the cleanup task is
  inbox,      \* what each lapin consumer still has to yield
  at,         \* where each consumer stands in `next`
  taken,      \* the item it took last
  ended,      \* `RecoveringConsumer::ended`
  answer,     \* what its last call returned
  errors,     \* how many errors it returned
  late        \* its current call began after the connection was marked closed

lapinVars == <<link, tcp, failures, handshakes, outages, inbox>>
watchVars == <<terminal, news>>
pollVars == <<at, taken, ended, answer, errors, late>>
closeVars == <<closed, shut, cleaner>>

vars == <<lapinVars, events, watching, watchVars, closeVars, pollVars>>

Items == {"delivery", "lost", "fatal", "end"}

\* The types, and that the count of failed dials is reset whenever a socket is open.
TypeOK ==
  /\ link \in {"connected", "reconnecting", "closing", "closed", "errored"}
  /\ tcp \in BOOLEAN /\ (tcp => failures = 0 /\ link = "reconnecting")
  /\ failures \in 0..(Retries + 1)
  /\ handshakes \in 0..Retries
  /\ outages \in 0..MaxOutages
  /\ events \in Seq({"connected", "error"})
  /\ watching \in BOOLEAN
  /\ terminal \in BOOLEAN
  /\ news \subseteq Consumers \cup {Cleaner}
  /\ closed \in BOOLEAN
  /\ shut \in {"open", "marked", "notified", "calling", "closing", "erred",
               "done", "failed"}
  /\ cleaner \in {"none", "check", "close", "wait", "done"}
  /\ inbox \in [Consumers -> Seq(Items)]
  /\ at \in [Consumers -> {"idle", "check", "select", "recover", "await"}]
  /\ taken \in [Consumers -> Items \cup {"none"}]
  /\ ended \in [Consumers -> BOOLEAN]
  /\ answer \in [Consumers -> {"none", "delivery", "error", "end"}]
  /\ errors \in [Consumers -> 0..2]
  /\ late \in [Consumers -> BOOLEAN]

\* Connected with recovery enabled, the consumers open.
Init ==
  /\ link = "connected" /\ tcp = FALSE /\ failures = 0 /\ handshakes = 0
  /\ outages = 0 /\ events = <<>> /\ watching = TRUE
  /\ terminal = FALSE /\ news = {}
  /\ closed = FALSE /\ shut = "open" /\ cleaner = "none"
  /\ inbox = [c \in Consumers |-> <<>>]
  /\ at = [c \in Consumers |-> "idle"]
  /\ taken = [c \in Consumers |-> "none"]
  /\ ended = [c \in Consumers |-> FALSE]
  /\ answer = [c \in Consumers |-> "none"]
  /\ errors = [c \in Consumers |-> 0]
  /\ late = [c \in Consumers |-> FALSE]

\* `failed`: lapin has finished trying.
Failed == terminal \/ link \in {"errored", "closed", "closing"}

\* A send on the watch channel is new to every receiver there is.
Receivers == Consumers \cup (IF cleaner \in {"none", "done"} THEN {} ELSE {Cleaner})
-----------------------------------------------------------------------------
(* Faulty variants of definitions below.  No specification uses them: each  *)
(* one stands in for its definition to show that a property notices.        *)

\* Every event is taken for the end of recovery.
WatchAnyEventAsTerminal ==
  /\ watching /\ events # <<>>
  /\ events' = Tail(events)
  /\ terminal' = TRUE /\ news' = Receivers /\ watching' = FALSE
  /\ UNCHANGED <<lapinVars, closeVars, pollVars>>

\* A reconnect wakes nobody.
WatchFailuresOnly ==
  /\ watching /\ events # <<>>
  /\ events' = Tail(events)
  /\ terminal' = Failed
  /\ news' = IF Failed THEN Receivers ELSE news
  /\ watching' = ~Failed
  /\ UNCHANGED <<lapinVars, closeVars, pollVars>>

\* The limit on failed dials is off by one.
ExhaustedOneLater == failures > Retries

\* The shutdown marks the connection and wakes nobody.
NotifyNobody ==
  /\ shut = "marked"
  /\ shut' = "notified"
  /\ UNCHANGED <<lapinVars, events, watching, watchVars, closed, cleaner, pollVars>>

\* `next` looks at `ended` only.
OverOnlyEnded(c) == ended[c]

-----------------------------------------------------------------------------
(* Lapin and the server.                                                    *)

PutAll(item) == [c \in Consumers |-> Append(inbox[c], item)]

Put(c, item) ==
  /\ Len(inbox[c]) < MaxItems
  /\ inbox' = [inbox EXCEPT ![c] = Append(@, item)]
  /\ UNCHANGED <<link, tcp, failures, handshakes, outages, events, watching,
                 watchVars, closeVars, pollVars>>

\* A delivery arrives.
Delivers(c) == link = "connected" /\ Put(c, "delivery")

\* The consumer is cancelled, or its channel closes with an error.
ConsumerStops(c) == link = "connected" /\ (Put(c, "end") \/ Put(c, "fatal"))

\* The connection is lost in a way lapin recovers from, or in one it does not.
ConnectionLost ==
  /\ link = "connected"
  /\ outages < MaxOutages
  /\ outages' = outages + 1
  /\ \/ link' = "reconnecting" /\ inbox' = PutAll("lost")
     \/ link' = "errored" /\ inbox' = PutAll("fatal")
  /\ events' = Append(events, "error")
  /\ UNCHANGED <<tcp, failures, handshakes, watching, watchVars, closeVars, pollVars>>

\* The connector's count reaches the limit with this failure.
Exhausted == failures >= Retries

\* `dial`: the socket cannot be opened, and past the limit nobody will know but
\* for this send.  Lapin gives up after as many attempts, and stays reconnecting.
DialFails ==
  /\ link = "reconnecting" /\ ~tcp
  /\ failures <= Retries
  /\ failures' = failures + 1
  /\ terminal' = (terminal \/ Exhausted)
  /\ news' = IF Exhausted THEN Receivers ELSE news
  /\ UNCHANGED <<link, tcp, handshakes, outages, inbox, events, watching,
                 closeVars, pollVars>>

\* `dial`: the socket opens, and the count starts again.
DialConnects ==
  /\ link = "reconnecting" /\ ~tcp
  /\ failures <= Retries
  /\ tcp' = TRUE
  /\ failures' = 0
  /\ UNCHANGED <<link, handshakes, outages, inbox, events, watching, watchVars,
                 closeVars, pollVars>>

\* The handshake ends: connected again with the topology restored, or lost, and
\* lost for good after as many times.
HandshakeEnds ==
  /\ tcp
  /\ tcp' = FALSE
  /\ \/ /\ link' = "connected" /\ handshakes' = 0
        /\ events' = Append(events, "connected")
        /\ UNCHANGED inbox
     \/ /\ handshakes < Retries
        /\ handshakes' = handshakes + 1
        /\ UNCHANGED <<link, inbox, events>>
     \/ /\ handshakes = Retries
        /\ link' = "errored" /\ inbox' = PutAll("fatal")
        /\ events' = Append(events, "error")
        /\ UNCHANGED handshakes
  /\ UNCHANGED <<failures, outages, watching, watchVars, closeVars, pollVars>>
-----------------------------------------------------------------------------
\* The events task: it reports a failure once and stops, and otherwise only
\* wakes whoever waits.
Watch ==
  /\ watching /\ events # <<>>
  /\ events' = Tail(events)
  /\ terminal' = (terminal \/ Failed)
  /\ news' = Receivers
  /\ watching' = ~Failed
  /\ UNCHANGED <<lapinVars, closeVars, pollVars>>
-----------------------------------------------------------------------------
(* `RecoveringConsumer`.                                                    *)

Goto(c, step) == at' = [at EXCEPT ![c] = step]

Seen(c) == news' = news \ {c}

Yield(c, what) ==
  /\ Goto(c, "idle")
  /\ answer' = [answer EXCEPT ![c] = what]

\* `ended = true; return Some(Err(..))`.
YieldError(c) ==
  /\ Yield(c, "error")
  /\ errors' = [errors EXCEPT ![c] = IF @ < 2 THEN @ + 1 ELSE @]
  /\ ended' = [ended EXCEPT ![c] = TRUE]

\* `next` is called.
CallNext(c) ==
  /\ at[c] = "idle"
  /\ Goto(c, "check")
  /\ answer' = [answer EXCEPT ![c] = "none"]
  /\ late' = [late EXCEPT ![c] = closed]
  /\ UNCHANGED <<lapinVars, events, watching, watchVars, closeVars, taken, ended, errors>>

Over(c) == ended[c] \/ closed

\* The top of the loop: over, failed for good, or on to the select.
Check(c) ==
  /\ at[c] = "check"
  /\ \/ Over(c) /\ Yield(c, "end") /\ UNCHANGED <<ended, errors>>
     \/ ~Over(c) /\ terminal /\ YieldError(c)
     \/ ~Over(c) /\ ~terminal /\ Goto(c, "select") /\ UNCHANGED <<ended, answer, errors>>
  /\ UNCHANGED <<lapinVars, events, watching, watchVars, closeVars, taken, late>>

\* The select of `next` and the one of `recover` look at the watch first.
Wake(c) ==
  /\ c \in news
  /\ \/ at[c] = "select" /\ Goto(c, "check")
     \/ at[c] = "await" /\ Goto(c, "recover")
  /\ Seen(c)
  /\ UNCHANGED <<lapinVars, events, watching, terminal, closeVars, taken, ended,
                 answer, errors, late>>

\* The consumer yields: a delivery, its end, or an error to recover from.
Take(c) ==
  /\ at[c] = "select" /\ c \notin news
  /\ inbox[c] # <<>>
  /\ LET item == Head(inbox[c]) IN
       /\ taken' = [taken EXCEPT ![c] = item]
       /\ \/ item = "delivery" /\ Yield(c, "delivery") /\ UNCHANGED ended
          \/ item = "end" /\ Yield(c, "end") /\ ended' = [ended EXCEPT ![c] = TRUE]
          \/ item \in {"lost", "fatal"} /\ Goto(c, "recover") /\ UNCHANGED <<ended, answer>>
  /\ inbox' = [inbox EXCEPT ![c] = Tail(@)]
  /\ UNCHANGED <<link, tcp, failures, handshakes, outages, events, watching,
                 watchVars, closeVars, errors, late>>

\* `recover`, the top of its loop.
RecoverCheck(c) ==
  /\ at[c] = "recover"
  /\ \/ (closed \/ Failed) /\ YieldError(c)
     \/ ~(closed \/ Failed) /\ Goto(c, "await") /\ UNCHANGED <<ended, answer, errors>>
  /\ UNCHANGED <<lapinVars, events, watching, watchVars, closeVars, taken, late>>

\* Lapin's recovery future: the channel is restored, or the error is one it
\* does not recover from.  In an outage without end it never answers.
Recovered(c) ==
  /\ at[c] = "await" /\ c \notin news
  /\ \/ taken[c] = "lost" /\ link = "connected" /\ Goto(c, "check")
        /\ UNCHANGED <<ended, answer, errors>>
     \/ taken[c] = "fatal" /\ YieldError(c)
  /\ UNCHANGED <<lapinVars, events, watching, watchVars, closeVars, taken, late>>

\* The caller drops the future of `next` at a select, as a batch deadline does.
DropNext(c) ==
  /\ at[c] \in {"select", "await"}
  /\ Goto(c, "idle")
  /\ UNCHANGED <<lapinVars, events, watching, watchVars, closeVars, taken, ended,
                 answer, errors, late>>
-----------------------------------------------------------------------------
(* `shutdown`.                                                              *)

MarkClosed ==
  /\ shut = "open"
  /\ closed' = TRUE
  /\ shut' = "marked"
  /\ UNCHANGED <<lapinVars, events, watching, watchVars, cleaner, pollVars>>

Notify ==
  /\ shut = "marked"
  /\ news' = Receivers
  /\ shut' = "notified"
  /\ UNCHANGED <<lapinVars, events, watching, terminal, closed, cleaner, pollVars>>

\* `close_after_recovery`: the task subscribes to the watch and is spawned.
SpawnCleaner ==
  /\ cleaner' = "check"
  /\ news' = news \ {Cleaner}

\* The status is read: a close handshake, a cleanup for later, or nothing to do.
ReadStatus ==
  /\ shut = "notified"
  /\ \/ link = "connected" /\ shut' = "calling" /\ UNCHANGED <<cleaner, news>>
     \/ link # "connected" /\ ~Failed /\ shut' = "done" /\ SpawnCleaner
     \/ Failed /\ shut' = "done" /\ UNCHANGED <<cleaner, news>>
  /\ UNCHANGED <<lapinVars, events, watching, terminal, closed, pollVars>>

\* `Connection::close` is called; lapin refuses it unless connected.
CallClose ==
  /\ shut = "calling"
  /\ \/ link = "connected" /\ link' = "closing" /\ shut' = "closing"
     \/ link # "connected" /\ shut' = "erred" /\ UNCHANGED link
  /\ UNCHANGED <<tcp, failures, handshakes, outages, inbox, events, watching,
                 watchVars, closed, cleaner, pollVars>>

\* The server answers the close, whoever asked for it.
CloseAnswered ==
  /\ link = "closing"
  /\ link' = "closed"
  /\ shut' = IF shut = "closing" THEN "done" ELSE shut
  /\ UNCHANGED <<tcp, failures, handshakes, outages, inbox, events, watching,
                 watchVars, closed, cleaner, pollVars>>

\* The close failed: an outage is left to the cleanup, anything else reported.
CloseFailed ==
  /\ shut = "erred"
  /\ \/ link = "reconnecting" /\ shut' = "done" /\ SpawnCleaner
     \/ link # "reconnecting" /\ shut' = "failed" /\ UNCHANGED <<cleaner, news>>
  /\ UNCHANGED <<lapinVars, events, watching, terminal, closed, pollVars>>

\* The cleanup's loop: done once recovery failed; connected, it closes; else it
\* waits for the watch.
Clean ==
  /\ \/ /\ cleaner = "check"
        /\ cleaner' = IF Failed THEN "done" ELSE IF link = "connected" THEN "close" ELSE "wait"
        /\ UNCHANGED <<link, news>>
     \/ /\ cleaner = "close" /\ link = "connected"
        /\ link' = "closing"
        /\ cleaner' = "done"
        /\ UNCHANGED news
     \/ /\ cleaner = "close" /\ link # "connected"
        /\ cleaner' = "wait"
        /\ UNCHANGED <<link, news>>
     \/ /\ cleaner = "wait" /\ Cleaner \in news
        /\ cleaner' = "check"
        /\ Seen(Cleaner)
        /\ UNCHANGED link
  /\ UNCHANGED <<tcp, failures, handshakes, outages, inbox, events, watching,
                 terminal, closed, shut, pollVars>>
-----------------------------------------------------------------------------
Lapin ==
  \/ ConnectionLost \/ DialFails \/ DialConnects \/ HandshakeEnds
  \/ \E c \in Consumers : Delivers(c) \/ ConsumerStops(c)

Poll(c) == Check(c) \/ Wake(c) \/ Take(c) \/ RecoverCheck(c) \/ Recovered(c)

Shutdown == MarkClosed \/ Notify \/ ReadStatus \/ CallClose \/ CloseFailed

Next ==
  \/ Lapin \/ Watch \/ Shutdown \/ CloseAnswered \/ Clean
  \/ \E c \in Consumers : CallNext(c) \/ Poll(c) \/ DropNext(c)

Spec == Init /\ [][Next]_vars

\* A task that can run is run.  Of lapin: it goes on dialling until its budget
\* is spent, a handshake and a close handshake end.
Fairness ==
  /\ WF_vars(DialFails \/ DialConnects) /\ WF_vars(HandshakeEnds)
  /\ WF_vars(CloseAnswered) /\ WF_vars(Watch) /\ WF_vars(Clean)
  /\ WF_vars(Notify) /\ WF_vars(ReadStatus) /\ WF_vars(CallClose) /\ WF_vars(CloseFailed)
  /\ \A c \in Consumers : WF_vars(Poll(c))

FairSpec == Spec /\ Fairness
-----------------------------------------------------------------------------
\* A consumer ends for a cause (a shutdown, a connection lost for good or dialled
\* as often as it may be, its own end), never because an outage began or ended:
\* a stream whose connection lapin restores goes on.  And recovery.rs: "A terminal
\* failure yields one AmqpError::Consume, then subsequent calls return None": no
\* wakeup and no second failure adds one.
EndsOnceForCause ==
  \A c \in Consumers :
    /\ ended[c] => \/ closed \/ link = "errored" \/ failures > Retries
                   \/ taken[c] \in {"fatal", "end"}
    /\ errors[c] <= 1

\* A call that begins after the shutdown marked the connection returns no
\* delivery, whatever lapin still had for the consumer.
NothingAfterClose == \A c \in Consumers : late[c] => answer[c] # "delivery"

\* `recovery_retries`: "Successful connections reset the retry budget": an
\* outage is given up after exactly as many failed dials in a row, and while
\* attempts are left nobody is told so.
BudgetIsExact == link = "reconnecting" => (terminal <=> failures = Retries + 1)

\* No lost wakeup: a call that waits when the connection is shut down, or when
\* recovery is over, returns.
WaitersReturn ==
  \A c \in Consumers :
    at[c] \in {"select", "await"} /\ (closed \/ Failed) ~> at[c] = "idle"

\* A connection shut down in an outage is closed once it is restored, or lapin
\* gives it up: no reconnect is slept through.
ShutdownCloses == shut = "done" ~> Failed
=============================================================================
