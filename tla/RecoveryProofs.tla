--------------------------- MODULE RecoveryProofs ----------------------------
(***************************************************************************)
(* Proofs about the recovery of a connection, for any number of consumers, *)
(* dials and outages.                                                      *)
(***************************************************************************)
EXTENDS Recovery, TLAPS

\* While the connection lives nothing is counted against it.
ConnectedIsFresh == link = "connected" => failures = 0 /\ ~terminal

\* Only a shutdown closes, and it marks the connection first.
ClosedFirst ==
  /\ shut # "open" \/ cleaner # "none" => closed
  /\ link \in {"closing", "closed"} => closed

\* Why recovery may be over.
Cause == closed \/ link = "errored" \/ failures > Retries
TerminalForCause == terminal => Cause

\* A consumer that ended never polls lapin again, and an error ends it.
EndedRests ==
  \A c \in Consumers :
    /\ ended[c] => at[c] \in {"idle", "check"}
    /\ errors[c] # 0 => ended[c]

\* A call that began late never polls lapin.
LateRests ==
  \A c \in Consumers :
    late[c] => closed /\ at[c] \in {"idle", "check"} /\ answer[c] # "delivery"

\* The inductive invariant.
IInv ==
  /\ TypeOK
  /\ ConnectedIsFresh
  /\ BudgetIsExact
  /\ ClosedFirst
  /\ TerminalForCause
  /\ EndedRests
  /\ LateRests
  /\ EndsOnceForCause
-----------------------------------------------------------------------------
\* The invariant holds of a connection just opened.
LEMMA InitIInv == Init => IInv
<1> SUFFICES ASSUME Init PROVE IInv
  OBVIOUS
<1> USE RecoveryAssumption DEF Init
<1>1. TypeOK
  <2>1. /\ inbox \in [Consumers -> Seq(Items)] /\ events \in Seq({"connected", "error"})
        /\ at \in [Consumers -> {"idle"}] /\ taken \in [Consumers -> {"none"}]
        /\ ended \in [Consumers -> {FALSE}] /\ late \in [Consumers -> {FALSE}]
        /\ answer \in [Consumers -> {"none"}] /\ errors \in [Consumers -> {0}]
    OBVIOUS
  <2>2. failures \in 0..(Retries + 1) /\ handshakes \in 0..Retries /\ outages \in 0..MaxOutages
    OBVIOUS
  <2>3. \A c \in Consumers : errors[c] \in 0..2
    OBVIOUS
  <2>4. errors \in [Consumers -> 0..2]
    BY <2>1, <2>3
  <2> QED
    BY <2>1, <2>2, <2>4 DEF TypeOK
<1>2. ConnectedIsFresh /\ BudgetIsExact /\ ClosedFirst /\ TerminalForCause
  BY DEF ConnectedIsFresh, BudgetIsExact, ClosedFirst, TerminalForCause
<1>3. EndedRests /\ LateRests /\ EndsOnceForCause
  BY DEF EndedRests, LateRests, EndsOnceForCause
<1> QED
  BY <1>1, <1>2, <1>3 DEF IInv
-----------------------------------------------------------------------------
(* What each step of a consumer does, in the words of the invariant.        *)

\* What a consumer's step writes is typed.
PollTypes ==
  /\ at' \in [Consumers -> {"idle", "check", "select", "recover", "await"}]
  /\ ended' \in [Consumers -> BOOLEAN]
  /\ answer' \in [Consumers -> {"none", "delivery", "error", "end"}]
  /\ errors' \in [Consumers -> 0..2]

LEMMA GotoTyped ==
  ASSUME TypeOK, NEW c \in Consumers,
         NEW step \in {"idle", "check", "select", "recover", "await"}, Goto(c, step)
  PROVE  at' \in [Consumers -> {"idle", "check", "select", "recover", "await"}]
BY DEF TypeOK, Goto

LEMMA YieldTyped ==
  ASSUME TypeOK, NEW c \in Consumers, NEW what \in {"delivery", "error", "end"}, Yield(c, what)
  PROVE  /\ at' \in [Consumers -> {"idle", "check", "select", "recover", "await"}]
         /\ answer' \in [Consumers -> {"none", "delivery", "error", "end"}]
BY GotoTyped DEF TypeOK, Yield

LEMMA YieldErrorTyped == ASSUME TypeOK, NEW c \in Consumers, YieldError(c) PROVE PollTypes
<1>1. Yield(c, "error")
  BY DEF YieldError
<1>2. ended' \in [Consumers -> BOOLEAN]
  BY DEF TypeOK, YieldError
<1>3. errors[c] \in 0..2 /\ (errors[c] < 2 => errors[c] + 1 \in 0..2)
  BY DEF TypeOK
<1>4. errors' \in [Consumers -> 0..2]
  BY <1>3 DEF TypeOK, YieldError
<1> QED
  BY <1>1, <1>2, <1>4, YieldTyped DEF PollTypes

\* A step of a consumer keeps the types.
LEMMA PollTyped ==
  ASSUME TypeOK, NEW c \in Consumers, CallNext(c) \/ Poll(c) \/ DropNext(c)
  PROVE  TypeOK'
<1>1. CASE CallNext(c)
  BY <1>1 DEF TypeOK, CallNext, Goto, lapinVars, watchVars, closeVars
<1>2. CASE Check(c)
  <2>1. CASE YieldError(c)
    BY <1>2, <2>1, YieldErrorTyped DEF TypeOK, PollTypes, Check, lapinVars, watchVars, closeVars
  <2>2. CASE Yield(c, "end") /\ UNCHANGED <<ended, errors>>
    BY <1>2, <2>2, YieldTyped DEF TypeOK, Check, lapinVars, watchVars, closeVars
  <2>3. CASE Goto(c, "select") /\ UNCHANGED <<ended, answer, errors>>
    BY <1>2, <2>3, GotoTyped DEF TypeOK, Check, lapinVars, watchVars, closeVars
  <2> QED
    BY <1>2, <2>1, <2>2, <2>3 DEF Check
<1>3. CASE Wake(c)
  <2>1. \E step \in {"check", "recover"} : Goto(c, step)
    BY <1>3 DEF Wake
  <2>2. at' \in [Consumers -> {"idle", "check", "select", "recover", "await"}]
    BY <2>1, GotoTyped
  <2> QED
    BY <1>3, <2>2 DEF TypeOK, Wake, Seen, lapinVars, closeVars
<1>4. CASE Take(c)
  <2>1. inbox[c] \in Seq(Items) /\ inbox[c] # <<>> /\ inbox \in [Consumers -> Seq(Items)]
        /\ taken \in [Consumers -> Items \cup {"none"}]
    BY <1>4 DEF TypeOK, Take
  <2>2. Head(inbox[c]) \in Items /\ Tail(inbox[c]) \in Seq(Items)
    BY <2>1
  <2>3. inbox' \in [Consumers -> Seq(Items)] /\ taken' \in [Consumers -> Items \cup {"none"}]
    BY <1>4, <2>1, <2>2 DEF Take
  <2>4. /\ at' \in [Consumers -> {"idle", "check", "select", "recover", "await"}]
        /\ ended' \in [Consumers -> BOOLEAN]
        /\ answer' \in [Consumers -> {"none", "delivery", "error", "end"}]
    BY <1>4 DEF TypeOK, Take, Yield, Goto
  <2> QED
    BY <1>4, <2>3, <2>4 DEF TypeOK, Take, watchVars, closeVars
<1>5. CASE RecoverCheck(c)
  <2>1. CASE YieldError(c)
    BY <1>5, <2>1, YieldErrorTyped
       DEF TypeOK, PollTypes, RecoverCheck, lapinVars, watchVars, closeVars
  <2>2. CASE Goto(c, "await") /\ UNCHANGED <<ended, answer, errors>>
    BY <1>5, <2>2, GotoTyped DEF TypeOK, RecoverCheck, lapinVars, watchVars, closeVars
  <2> QED
    BY <1>5, <2>1, <2>2 DEF RecoverCheck
<1>6. CASE Recovered(c)
  <2>1. CASE YieldError(c)
    BY <1>6, <2>1, YieldErrorTyped
       DEF TypeOK, PollTypes, Recovered, lapinVars, watchVars, closeVars
  <2>2. CASE Goto(c, "check") /\ UNCHANGED <<ended, answer, errors>>
    BY <1>6, <2>2, GotoTyped DEF TypeOK, Recovered, lapinVars, watchVars, closeVars
  <2> QED
    BY <1>6, <2>1, <2>2 DEF Recovered
<1>7. CASE DropNext(c)
  BY <1>7 DEF TypeOK, DropNext, Goto, lapinVars, watchVars, closeVars
<1> QED
  BY <1>1, <1>2, <1>3, <1>4, <1>5, <1>6, <1>7 DEF Poll

\* A step of lapin keeps the types.
LEMMA LapinTyped == TypeOK /\ Lapin => TypeOK'
<1> SUFFICES ASSUME TypeOK, Lapin PROVE TypeOK'
  OBVIOUS
<1> USE RecoveryAssumption
<1>1. ASSUME NEW item \in Items PROVE PutAll(item) \in [Consumers -> Seq(Items)]
  BY DEF TypeOK, PutAll
<1>2. \A e \in {"connected", "error"} : Append(events, e) \in Seq({"connected", "error"})
  BY DEF TypeOK
<1>3. CASE ConnectionLost
  <2>1. inbox' \in [Consumers -> Seq(Items)]
    BY <1>1, <1>3 DEF ConnectionLost, Items
  <2> QED
    BY <1>2, <1>3, <2>1 DEF TypeOK, ConnectionLost, watchVars, closeVars, pollVars
<1>4. CASE DialFails
  <2>1. failures' \in 0..(Retries + 1) /\ news' \subseteq Consumers \cup {Cleaner}
        /\ terminal' \in BOOLEAN /\ tcp' = FALSE
    BY <1>4 DEF TypeOK, DialFails, Receivers
  <2> QED
    BY <1>4, <2>1 DEF TypeOK, DialFails, closeVars, pollVars
<1>5. CASE DialConnects
  BY <1>5 DEF TypeOK, DialConnects, watchVars, closeVars, pollVars
<1>6. CASE HandshakeEnds
  <2>1. inbox' \in [Consumers -> Seq(Items)] /\ handshakes' \in 0..Retries
    BY <1>1, <1>6 DEF TypeOK, HandshakeEnds, Items
  <2>2. events' \in Seq({"connected", "error"})
        /\ link' \in {"connected", "reconnecting", "errored"}
    BY <1>2, <1>6 DEF TypeOK, HandshakeEnds
  <2> QED
    BY <1>6, <2>1, <2>2 DEF TypeOK, HandshakeEnds, watchVars, closeVars, pollVars
<1>7. ASSUME NEW c \in Consumers, Delivers(c) \/ ConsumerStops(c) PROVE TypeOK'
  <2>1. PICK item \in Items : Put(c, item)
    BY <1>7 DEF Delivers, ConsumerStops, Items
  <2>2. inbox' \in [Consumers -> Seq(Items)]
    BY <2>1 DEF TypeOK, Put
  <2> QED
    BY <2>1, <2>2 DEF TypeOK, Put, watchVars, closeVars, pollVars
<1> QED
  BY <1>3, <1>4, <1>5, <1>6, <1>7 DEF Lapin

\* A step of the events task, the shutdown or its cleanup keeps the types.
LEMMA CloseTyped == TypeOK /\ (Watch \/ Shutdown \/ CloseAnswered \/ Clean) => TypeOK'
<1> SUFFICES ASSUME TypeOK, Watch \/ Shutdown \/ CloseAnswered \/ Clean PROVE TypeOK'
  OBVIOUS
<1>1. CASE Watch
  <2>1. events' \in Seq({"connected", "error"})
    BY <1>1 DEF TypeOK, Watch
  <2>2. terminal' \in BOOLEAN /\ watching' \in BOOLEAN /\ news' \subseteq Consumers \cup {Cleaner}
    BY <1>1 DEF TypeOK, Watch, Failed, Receivers
  <2> QED
    BY <1>1, <2>1, <2>2 DEF TypeOK, Watch, lapinVars, closeVars, pollVars
<1>2. CASE MarkClosed
  BY <1>2 DEF TypeOK, MarkClosed, lapinVars, watchVars, pollVars
<1>3. CASE Notify
  <2>1. news' \subseteq Consumers \cup {Cleaner}
    BY <1>3 DEF Notify, Receivers
  <2> QED
    BY <1>3, <2>1 DEF TypeOK, Notify, lapinVars, pollVars
<1>4. CASE ReadStatus
  BY <1>4 DEF TypeOK, ReadStatus, SpawnCleaner, lapinVars, pollVars
<1>5. CASE CallClose
  BY <1>5 DEF TypeOK, CallClose, watchVars, pollVars
<1>6. CASE CloseFailed
  BY <1>6 DEF TypeOK, CloseFailed, SpawnCleaner, lapinVars, pollVars
<1>7. CASE CloseAnswered
  BY <1>7 DEF TypeOK, CloseAnswered, watchVars, pollVars
<1>8. CASE Clean
  <2>1. news' \subseteq Consumers \cup {Cleaner} /\ cleaner' \in {"none", "check", "close", "wait", "done"}
    BY <1>8 DEF TypeOK, Clean, Seen
  <2>2. UNCHANGED link \/ (link = "connected" /\ link' = "closing")
    BY <1>8 DEF Clean
  <2> QED
    BY <1>8, <2>1, <2>2 DEF TypeOK, Clean, pollVars
<1> QED
  BY <1>1, <1>2, <1>3, <1>4, <1>5, <1>6, <1>7, <1>8 DEF Shutdown

\* Each step keeps the types.
LEMMA KeepsTypeOK == TypeOK /\ [Next]_vars => TypeOK'
<1>1. TypeOK /\ UNCHANGED vars => TypeOK'
  BY DEF TypeOK, vars, lapinVars, watchVars, closeVars, pollVars
<1> QED
  BY <1>1, PollTyped, LapinTyped, CloseTyped DEF Next
-----------------------------------------------------------------------------
(* The connection, its budget and its close.                                *)

\* The steps of consumers read all of this and write none of it.
LEMMA PollOnlyReads ==
  ASSUME NEW c \in Consumers, CallNext(c) \/ Poll(c) \/ DropNext(c)
  PROVE  UNCHANGED <<link, tcp, failures, terminal, shut, cleaner, closed>>
BY DEF Poll, CallNext, Check, Wake, Take, RecoverCheck, Recovered, DropNext,
       lapinVars, watchVars, closeVars

\* What the connection is told, and when: the parts of the invariant that are
\* about no consumer.
LEMMA KeepsLink ==
  IInv /\ [Next]_vars => ConnectedIsFresh' /\ BudgetIsExact' /\ ClosedFirst' /\ TerminalForCause'
<1> DEFINE Fine == ConnectedIsFresh /\ BudgetIsExact /\ ClosedFirst /\ TerminalForCause
<1> SUFFICES ASSUME IInv, [Next]_vars PROVE Fine'
  OBVIOUS
<1> USE RecoveryAssumption
<1>1. TypeOK /\ Fine
  BY DEF IInv
<1>2. ASSUME UNCHANGED <<link, tcp, failures, terminal, shut, cleaner, closed>> PROVE Fine'
  BY <1>1, <1>2 DEF ConnectedIsFresh, BudgetIsExact, ClosedFirst, TerminalForCause, Cause
<1>3. CASE ConnectionLost
  BY <1>1, <1>3 DEF ConnectionLost, TypeOK, watchVars, closeVars,
                    ConnectedIsFresh, BudgetIsExact, ClosedFirst, TerminalForCause, Cause
<1>4. CASE DialFails
  <2>1. /\ link = "reconnecting" /\ failures \in Nat /\ failures <= Retries
        /\ failures' = failures + 1 /\ terminal' = (terminal \/ failures >= Retries)
        /\ UNCHANGED <<link, shut, cleaner, closed>>
    BY <1>1, <1>4 DEF DialFails, Exhausted, TypeOK, closeVars
  <2>2. ~terminal
    BY <1>1, <2>1 DEF BudgetIsExact
  <2>3. terminal' <=> failures >= Retries
    BY <2>1, <2>2
  <2>4. failures >= Retries <=> failures' = Retries + 1
    BY <2>1
  <2>5. failures >= Retries => failures' > Retries
    BY <2>1
  <2> QED
    BY <1>1, <2>1, <2>3, <2>4, <2>5
       DEF ConnectedIsFresh, BudgetIsExact, ClosedFirst, TerminalForCause, Cause
<1>5. CASE DialConnects
  BY <1>1, <1>5 DEF DialConnects, TypeOK, watchVars, closeVars,
                    ConnectedIsFresh, BudgetIsExact, ClosedFirst, TerminalForCause, Cause
<1>6. CASE HandshakeEnds
  BY <1>1, <1>6 DEF HandshakeEnds, TypeOK, watchVars, closeVars,
                    ConnectedIsFresh, BudgetIsExact, ClosedFirst, TerminalForCause, Cause
<1>7. CASE Watch
  BY <1>1, <1>7 DEF Watch, Failed, TypeOK, lapinVars, closeVars,
                    ConnectedIsFresh, BudgetIsExact, ClosedFirst, TerminalForCause, Cause
<1>8. CASE Shutdown
  BY <1>1, <1>8 DEF Shutdown, MarkClosed, Notify, ReadStatus, CallClose, CloseFailed, SpawnCleaner,
                    TypeOK, lapinVars, watchVars,
                    ConnectedIsFresh, BudgetIsExact, ClosedFirst, TerminalForCause, Cause
<1>9. CASE CloseAnswered
  BY <1>1, <1>9 DEF CloseAnswered, TypeOK, watchVars,
                    ConnectedIsFresh, BudgetIsExact, ClosedFirst, TerminalForCause, Cause
<1>10. CASE Clean
  BY <1>1, <1>10 DEF Clean, TypeOK,
                     ConnectedIsFresh, BudgetIsExact, ClosedFirst, TerminalForCause, Cause
<1>11. ASSUME NEW c \in Consumers, Delivers(c) \/ ConsumerStops(c) PROVE Fine'
  BY <1>2, <1>11 DEF Delivers, ConsumerStops, Put, watchVars, closeVars
<1>12. CASE UNCHANGED vars
  BY <1>2, <1>12 DEF vars, lapinVars, watchVars, closeVars
<1> HIDE DEF Fine
<1> QED
  BY <1>2, <1>3, <1>4, <1>5, <1>6, <1>7, <1>8, <1>9, <1>10, <1>11, <1>12, PollOnlyReads
     DEF Next, Lapin
-----------------------------------------------------------------------------
(* The consumers.                                                           *)

\* Whoever is not the one that steps stays as it is.
LEMMA OthersStay ==
  ASSUME TypeOK, NEW c \in Consumers, CallNext(c) \/ Poll(c) \/ DropNext(c),
         NEW d \in Consumers, d # c
  PROVE  /\ at'[d] = at[d] /\ taken'[d] = taken[d] /\ ended'[d] = ended[d]
         /\ answer'[d] = answer[d] /\ errors'[d] = errors[d] /\ late'[d] = late[d]
BY DEF TypeOK, Poll, CallNext, Check, Wake, Take, RecoverCheck, Recovered, DropNext,
       Yield, YieldError, Goto

\* The other steps do not touch the consumers.
LEMMA PollSteps ==
  ASSUME [Next]_vars, ~\E c \in Consumers : CallNext(c) \/ Poll(c) \/ DropNext(c)
  PROVE  UNCHANGED pollVars
BY DEF Next, Lapin, ConnectionLost, DialFails, DialConnects, HandshakeEnds, Delivers, ConsumerStops,
       Put, Watch, Shutdown, MarkClosed, Notify, ReadStatus, CallClose, CloseFailed, CloseAnswered,
       Clean, vars

\* A cause stays one: nothing reopens the connection or goes on dialling.
LEMMA CauseStays == IInv /\ [Next]_vars /\ Cause => Cause'
<1> SUFFICES ASSUME IInv, [Next]_vars, Cause PROVE Cause'
  OBVIOUS
<1> USE RecoveryAssumption
<1>1. TypeOK /\ ConnectedIsFresh
  BY DEF IInv
<1>2. failures \in Nat /\ Retries \in Nat
  BY <1>1 DEF TypeOK
<1>3. CASE Lapin
  BY <1>1, <1>2, <1>3 DEF Lapin, ConnectionLost, DialFails, DialConnects, HandshakeEnds, Delivers,
                          ConsumerStops, Put, closeVars, Cause, TypeOK
<1>4. CASE Watch \/ Shutdown \/ CloseAnswered \/ Clean
  <2>1. UNCHANGED failures /\ (closed => closed')
    BY <1>4 DEF Watch, Shutdown, MarkClosed, Notify, ReadStatus, CallClose, CloseFailed, CloseAnswered,
                Clean, lapinVars, closeVars
  <2>2. link = "errored" => link' = "errored"
    BY <1>4 DEF Watch, Shutdown, MarkClosed, Notify, ReadStatus, CallClose, CloseFailed, CloseAnswered,
                Clean, lapinVars
  <2> QED
    BY <2>1, <2>2 DEF Cause
<1>5. CASE UNCHANGED vars
  BY <1>5 DEF Cause, vars, lapinVars, closeVars
<1> QED
  BY <1>3, <1>4, <1>5, PollOnlyReads DEF Next, Cause

\* What one consumer keeps by its own steps.
Rests(c) ==
  /\ ended[c] => at[c] \in {"idle", "check"}
  /\ errors[c] # 0 => ended[c]
  /\ late[c] => closed /\ at[c] \in {"idle", "check"} /\ answer[c] # "delivery"
  /\ ended[c] => Cause \/ taken[c] \in {"fatal", "end"}
  /\ errors[c] <= 1
LEMMA StepRests ==
  ASSUME IInv, NEW c \in Consumers, CallNext(c) \/ Poll(c) \/ DropNext(c)
  PROVE  Rests(c)'
<1>1. TypeOK /\ TerminalForCause /\ ClosedFirst /\ Rests(c)
  BY DEF IInv, EndedRests, LateRests, EndsOnceForCause, Rests, Cause
<1>2. Cause' <=> Cause
  BY PollOnlyReads DEF Cause
<1>3. Failed => Cause
  BY <1>1 DEF Failed, TerminalForCause, ClosedFirst, Cause
<1>4. UNCHANGED <<closed, link, terminal>>
  BY PollOnlyReads
<1>5. ASSUME YieldError(c), ~ended[c], ~late[c], UNCHANGED late,
             Cause \/ taken'[c] = "fatal"
      PROVE  Rests(c)'
  <2>1. at'[c] = "idle" /\ ended'[c] = TRUE /\ errors'[c] = 1
    BY <1>1, <1>5 DEF YieldError, Yield, Goto, TypeOK, Rests
  <2> QED
    BY <1>2, <1>5, <2>1 DEF Rests
<1>6. CASE CallNext(c)
  <2>1. /\ at'[c] = "check" /\ answer'[c] = "none" /\ late'[c] = closed
        /\ UNCHANGED <<taken, ended, errors>>
    BY <1>1, <1>6 DEF CallNext, Goto, TypeOK
  <2> QED
    BY <1>1, <1>2, <1>4, <2>1 DEF Rests
<1>7. CASE Check(c)
  <2>1. UNCHANGED <<taken, late>> /\ at[c] = "check"
    BY <1>7 DEF Check
  <2>2. CASE Over(c) /\ Yield(c, "end") /\ UNCHANGED <<ended, errors>>
    <3>1. at'[c] = "idle" /\ answer'[c] = "end"
      BY <1>1, <2>2 DEF Yield, Goto, TypeOK
    <3> QED
      BY <1>1, <1>2, <1>4, <2>1, <2>2, <3>1 DEF Rests
  <2>3. CASE ~Over(c) /\ terminal /\ YieldError(c)
    BY <1>1, <1>5, <2>1, <2>3 DEF Rests, Over, TerminalForCause
  <2>4. CASE ~Over(c) /\ Goto(c, "select") /\ UNCHANGED <<ended, answer, errors>>
    BY <1>1, <1>2, <1>4, <2>1, <2>4 DEF Rests, Over
  <2> QED
    BY <1>7, <2>2, <2>3, <2>4 DEF Check
<1>8. CASE Wake(c) \/ DropNext(c)
  <2>1. UNCHANGED <<taken, ended, answer, errors, late>> /\ at[c] \in {"select", "await"}
    BY <1>8 DEF Wake, DropNext
  <2> QED
    BY <1>1, <1>2, <1>4, <2>1 DEF Rests
<1>9. CASE Take(c)
  <2>1. UNCHANGED <<errors, late>> /\ at[c] = "select" /\ ~late[c] /\ ~ended[c]
    BY <1>1, <1>9 DEF Take, Rests
  <2>2. ended'[c] => at'[c] = "idle" /\ taken'[c] = "end"
    BY <1>1, <1>9, <2>1 DEF Take, Yield, Goto, TypeOK
  <2> QED
    BY <1>1, <1>2, <1>4, <2>1, <2>2 DEF Rests
<1>10. CASE RecoverCheck(c)
  <2>1. UNCHANGED <<taken, late>> /\ ~late[c] /\ ~ended[c]
    BY <1>1, <1>10 DEF RecoverCheck, Rests
  <2>2. CASE (closed \/ Failed) /\ YieldError(c)
    BY <1>3, <1>5, <2>1, <2>2 DEF Cause
  <2>3. CASE UNCHANGED <<ended, answer, errors>>
    BY <1>1, <1>2, <1>4, <2>1, <2>3 DEF Rests
  <2> QED
    BY <1>10, <2>2, <2>3 DEF RecoverCheck
<1>11. CASE Recovered(c)
  <2>1. UNCHANGED <<taken, late>> /\ ~late[c] /\ ~ended[c]
    BY <1>1, <1>11 DEF Recovered, Rests
  <2>2. CASE taken[c] = "fatal" /\ YieldError(c)
    BY <1>5, <2>1, <2>2
  <2>3. CASE UNCHANGED <<ended, answer, errors>>
    BY <1>1, <1>2, <1>4, <2>1, <2>3 DEF Rests
  <2> QED
    BY <1>11, <2>2, <2>3 DEF Recovered
<1> QED
  BY <1>6, <1>7, <1>8, <1>9, <1>10, <1>11 DEF Poll

\* Each step keeps the invariant.
LEMMA NextIInv == IInv /\ [Next]_vars => IInv'
<1> SUFFICES ASSUME IInv, [Next]_vars PROVE IInv'
  OBVIOUS
<1>1. TypeOK /\ \A d \in Consumers : Rests(d)
  BY DEF IInv, EndedRests, LateRests, EndsOnceForCause, Rests, Cause
<1>2. (Cause => Cause') /\ (closed => closed')
  <2>1. closed => closed'
    BY DEF Next, Lapin, ConnectionLost, DialFails, DialConnects, HandshakeEnds, Delivers,
           ConsumerStops, Put, Watch, Shutdown, MarkClosed, Notify, ReadStatus, CallClose,
           CloseFailed, CloseAnswered, Clean, Poll, CallNext, Check, Wake, Take, RecoverCheck,
           Recovered, DropNext, closeVars, vars
  <2> QED
    BY <2>1, CauseStays
<1>3. ASSUME NEW d \in Consumers,
             at'[d] = at[d], taken'[d] = taken[d], ended'[d] = ended[d],
             answer'[d] = answer[d], errors'[d] = errors[d], late'[d] = late[d]
      PROVE  Rests(d)'
  BY <1>1, <1>2, <1>3 DEF Rests
<1>4. \A d \in Consumers : Rests(d)'
  <2>1. CASE UNCHANGED pollVars
    BY <1>3, <2>1 DEF pollVars
  <2>2. ASSUME NEW c \in Consumers, CallNext(c) \/ Poll(c) \/ DropNext(c), NEW d \in Consumers
        PROVE  Rests(d)'
    BY <1>1, <1>3, <2>2, OthersStay, StepRests
  <2> QED
    BY <2>1, <2>2, PollSteps
<1>5. EndedRests' /\ LateRests' /\ EndsOnceForCause'
  BY <1>4 DEF EndedRests, LateRests, EndsOnceForCause, Rests, Cause
<1> QED
  BY <1>1, <1>5, KeepsTypeOK, KeepsLink DEF IInv
-----------------------------------------------------------------------------
\* The inductive invariant holds for any number of consumers, dials and outages.
THEOREM Invariant == Spec => []IInv
BY InitIInv, NextIInv, PTL DEF Spec

\* Every variable keeps its type.
THEOREM TypeCorrect == Spec => []TypeOK
<1>1. IInv => TypeOK
  BY DEF IInv
<1> QED
  BY <1>1, Invariant, PTL

\* A consumer ends for a cause, and with one error at most.
THEOREM EndsForCause == Spec => []EndsOnceForCause
<1>1. IInv => EndsOnceForCause
  BY DEF IInv
<1> QED
  BY <1>1, Invariant, PTL

\* No call that begins after the shutdown marked the connection gets a delivery.
THEOREM SilentAfterClose == Spec => []NothingAfterClose
<1>1. IInv => NothingAfterClose
  BY DEF IInv, LateRests, NothingAfterClose
<1> QED
  BY <1>1, Invariant, PTL

\* An outage is given up with the last dial of the budget, and not before.
THEOREM ExactBudget == Spec => []BudgetIsExact
<1>1. IInv => BudgetIsExact
  BY DEF IInv
<1> QED
  BY <1>1, Invariant, PTL
=============================================================================
