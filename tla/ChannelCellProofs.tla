-------------------------- MODULE ChannelCellProofs --------------------------
(***************************************************************************)
(* Proofs about the channel cell, for any callers and any channels.        *)
(***************************************************************************)
EXTENDS ChannelCell, TLAPS

\* Between the second look and the store, the held channel is dead, so the
\* channel being opened has no live neighbour.
OpenerSawDeath ==
  \A c \in Callers : pc[c] \in {"open", "store"} => ~Usable(held)

\* What the second look loaded is still what is held: only the lock's holder
\* stores.
SecondLookIsCurrent ==
  \A c \in Callers : pc[c] = "recheck" => read[c] = held

\* A live channel is in the cell, or in the hands of the one storing it.
AliveIsHeldOrStoring ==
  \A ch \in Alive :
    ch = held \/ \E c \in Callers : pc[c] = "store" /\ read[c] = ch

\* A caller about to store, or done, has a channel opened after its call
\* began or alive since then.
FreshInHand ==
  \A c \in Callers :
    pc[c] \in {"store", "returned"} => read[c] \in Channels \ stale[c]

\* What was closed when a call began stays closed.
StaleIsClosed == \A c \in Callers : stale[c] \subseteq Closed

\* A channel in the cell, or about to be, has been opened: the server never
\* hands it out a second time.
HeldWasOpened ==
  /\ held \in Channels => status[held] # "unopened"
  /\ \A c \in Callers :
       pc[c] = "store" => read[c] \in Channels /\ status[read[c]] # "unopened"

\* The inductive invariant.
IInv ==
  /\ TypeOK
  /\ LockCoversOpening
  /\ OpenerSawDeath
  /\ SecondLookIsCurrent
  /\ AliveIsHeldOrStoring
  /\ FreshInHand
  /\ StaleIsClosed
  /\ HeldWasOpened
-----------------------------------------------------------------------------
\* The lock leaves at most one caller under the guard.
LEMMA OneUnderGuard ==
  ASSUME LockCoversOpening,
         NEW a \in Callers, NEW b \in Callers,
         pc[a] \in Guarded, pc[b] \in Guarded
  PROVE  a = b
BY DEF LockCoversOpening

\* The invariant holds of an empty cell and of one holding a channel.
LEMMA InitIInv == Init => IInv
<1> SUFFICES ASSUME Init PROVE IInv
  OBVIOUS
<1> USE CellAssumption DEF Init
<1>1. TypeOK
  BY DEF TypeOK, Slot, Steps
<1>2. LockCoversOpening
  BY DEF LockCoversOpening, Guarded
<1>3. AliveIsHeldOrStoring
  BY DEF AliveIsHeldOrStoring, Alive, Usable
<1>4. /\ OpenerSawDeath /\ SecondLookIsCurrent
      /\ FreshInHand /\ StaleIsClosed /\ HeldWasOpened
  BY DEF OpenerSawDeath, SecondLookIsCurrent, FreshInHand, StaleIsClosed,
         HeldWasOpened
<1> QED
  BY <1>1, <1>2, <1>3, <1>4 DEF IInv

\* Every step of a caller or of a channel keeps it.
LEMMA NextIInv == IInv /\ [Next]_vars => IInv'
<1> SUFFICES ASSUME IInv, [Next]_vars PROVE IInv'
  OBVIOUS
<1> USE CellAssumption
<1> USE DEF IInv, TypeOK, LockCoversOpening, OpenerSawDeath,
            SecondLookIsCurrent, AliveIsHeldOrStoring, FreshInHand,
            StaleIsClosed, HeldWasOpened, Goto, Guarded, Steps, Slot, Alive, Closed, Usable
<1>1. ASSUME NEW c \in Callers, Begin(c) PROVE IInv'
  BY <1>1 DEF Begin
<1>2. ASSUME NEW c \in Callers, Load(c) PROVE IInv'
  BY <1>2 DEF Load
<1>3. ASSUME NEW c \in Callers, Hit(c) PROVE IInv'
  BY <1>3 DEF Hit
<1>4. ASSUME NEW c \in Callers, Miss(c) PROVE IInv'
  BY <1>4 DEF Miss
<1>5. ASSUME NEW c \in Callers, Lock(c) PROVE IInv'
  BY <1>5 DEF Lock
<1>6. ASSUME NEW c \in Callers, Opened(c) PROVE IInv'
  <2> PICK ch \in Channels : /\ status[ch] = "unopened"
                             /\ status' = [status EXCEPT ![ch] = "connected"]
                             /\ read' = [read EXCEPT ![c] = ch]
    BY <1>6 DEF Opened
  <2> USE <1>6 DEF Opened
  <2>1. TypeOK'
    OBVIOUS
  <2>2. LockCoversOpening' /\ HeldWasOpened'
    OBVIOUS
  <2>3. SecondLookIsCurrent' /\ FreshInHand' /\ StaleIsClosed'
    OBVIOUS
  <2>5. OpenerSawDeath'
    OBVIOUS
  <2>4. AliveIsHeldOrStoring'
    <3> SUFFICES ASSUME NEW x \in Alive'
                 PROVE  x = held' \/ \E d \in Callers : pc'[d] = "store" /\ read'[d] = x
      OBVIOUS
    <3>1. CASE x = ch
      BY <3>1
    <3>2. CASE x # ch
      <4>1. x \in Alive /\ x # held
        BY <3>2
      <4>2. PICK d \in Callers : pc[d] = "store" /\ read[d] = x
        BY <4>1
      <4> QED
        BY <4>2
    <3> QED
      BY <3>1, <3>2
  <2> QED
    BY <2>1, <2>2, <2>3, <2>4, <2>5
<1>7. ASSUME NEW c \in Callers, OpenFails(c) PROVE IInv'
  BY <1>7 DEF OpenFails
<1>8. ASSUME NEW c \in Callers, Store(c) PROVE IInv'
  BY <1>8 DEF Store
<1>9. ASSUME NEW c \in Callers, Cancel(c) PROVE IInv'
  BY <1>9 DEF Cancel
<1>10. ASSUME NEW c \in Callers, Finish(c) PROVE IInv'
  BY <1>10 DEF Finish
<1>11. ASSUME ChannelChanges PROVE IInv'
  BY <1>11 DEF ChannelChanges
<1>12. CASE UNCHANGED vars
  BY <1>12 DEF vars
<1> QED
  BY <1>1, <1>2, <1>3, <1>4, <1>5, <1>6, <1>7, <1>8, <1>9, <1>10, <1>11,
     <1>12 DEF Next, Get
-----------------------------------------------------------------------------
\* Type correctness of the cell.
THEOREM TypeCorrect == Spec => []TypeOK
<1>1. IInv => TypeOK
  BY DEF IInv
<1> QED
  BY InitIInv, NextIInv, <1>1, PTL DEF Spec

\* The invariant leaves no room for two live channels.
LEMMA OnlyOne == IInv => OneChannelAlive
<1> SUFFICES ASSUME IInv, NEW a \in Alive, NEW b \in Alive PROVE a = b
  BY DEF OneChannelAlive
<1>1. CASE a = held \/ b = held
  BY <1>1 DEF IInv, AliveIsHeldOrStoring, OpenerSawDeath, Alive
<1>2. CASE a # held /\ b # held
  <2>1. PICK p \in Callers : pc[p] = "store" /\ read[p] = a
    BY <1>2 DEF IInv, AliveIsHeldOrStoring
  <2>2. PICK q \in Callers : pc[q] = "store" /\ read[q] = b
    BY <1>2 DEF IInv, AliveIsHeldOrStoring
  <2>3. p = q
    BY <2>1, <2>2, OneUnderGuard DEF IInv, Guarded
  <2> QED
    BY <2>1, <2>2, <2>3
<1> QED
  BY <1>1, <1>2

\* However many callers find the cell empty or its channel dead at once, the
\* cell never has two channels alive (`get`, channel.rs).
THEOREM OneChannel == Spec => []OneChannelAlive
<1> QED
  BY InitIInv, NextIInv, OnlyOne, PTL DEF Spec

\* The lock is held exactly while a caller looks again, opens and stores.
THEOREM LockDiscipline == Spec => []LockCoversOpening
<1>1. IInv => LockCoversOpening
  BY DEF IInv
<1> QED
  BY InitIInv, NextIInv, <1>1, PTL DEF Spec

\* A call never answers with a channel that was closed when it began.
THEOREM FreshAnswers == Spec => []AnswersAreFresh
<1>1. IInv => AnswersAreFresh
  BY DEF IInv, FreshInHand, AnswersAreFresh
<1> QED
  BY InitIInv, NextIInv, <1>1, PTL DEF Spec

\* A stored channel is replaced only once it has closed.
THEOREM UsableChannelKept == Spec => KeepsUsableChannel
<1>1. IInv /\ [Next]_vars => [held' # held => ~Usable(held)]_vars
  <2> SUFFICES ASSUME IInv, [Next]_vars, held' # held PROVE ~Usable(held)
    OBVIOUS
  <2>1. PICK c \in Callers : Store(c)
    BY DEF vars, Next, Get, Begin, Load, Hit, Miss, Lock, Opened, OpenFails,
           Cancel, Finish, ChannelChanges
  <2> QED
    BY <2>1 DEF IInv, OpenerSawDeath, Store
<1> QED
  BY InitIInv, NextIInv, <1>1, PTL DEF Spec, KeepsUsableChannel
-----------------------------------------------------------------------------
\* The cell implements the abstract one: it opens a channel only when no other
\* is alive, and every other step leaves the channels alone or loses one.
THEOREM Implementation == Spec => ImplementsOnDemand
<1> USE DEF OnDemand!Init, OnDemand!Next, OnDemand!Open, OnDemand!Close,
            OnDemand!vars
<1>1. Init => OnDemand!Init
  BY CellAssumption DEF Init, Alive, Closed, Usable
<1>2. IInv /\ IInv' /\ [Next]_vars => [OnDemand!Next]_(OnDemand!vars)
  <2> SUFFICES ASSUME IInv, IInv', [Next]_vars
               PROVE  OnDemand!Next \/ UNCHANGED <<Alive, Closed>>
    BY DEF OnDemand!vars
  <2>1. CASE UNCHANGED status
    BY <2>1 DEF Alive, Closed, Usable
  <2>2. ASSUME NEW c \in Callers, Opened(c) PROVE OnDemand!Next
    <3>1. Alive = {}
      BY <2>2 DEF Opened, IInv, TypeOK, AliveIsHeldOrStoring, OpenerSawDeath,
                  LockCoversOpening, Guarded, Alive
    <3>2. PICK ch \in Channels : /\ status[ch] = "unopened"
                                 /\ status' = [status EXCEPT ![ch] = "connected"]
      BY <2>2 DEF Opened
    <3>3. Closed' = Closed /\ ch \notin Closed
      BY <3>2 DEF IInv, TypeOK, Closed
    <3>4. Alive' = {ch}
      BY <3>1, <3>2 DEF IInv, TypeOK, Alive, Usable
    <3> QED
      BY <3>1, <3>3, <3>4
  <2>3. ASSUME ChannelChanges
        PROVE  OnDemand!Next \/ UNCHANGED <<Alive, Closed>>
    <3>1. PICK ch \in Alive, to \in {"connected", "reconnecting", "closed"} :
            status' = [status EXCEPT ![ch] = to]
      BY <2>3 DEF ChannelChanges
    <3>2. Alive = {ch}
      BY <3>1, OnlyOne DEF OneChannelAlive
    <3>3. CASE to = "closed"
      <4>1. Alive' = {} /\ Closed' = Closed \cup {ch}
        BY <3>1, <3>2, <3>3 DEF IInv, TypeOK, Alive, Closed, Usable
      <4> QED
        BY <3>2, <4>1
    <3>4. CASE to # "closed"
      BY <3>1, <3>4 DEF IInv, TypeOK, Alive, Closed, Usable
    <3> QED
      BY <3>3, <3>4
  <2> QED
    BY <2>1, <2>2, <2>3 DEF vars, Next, Get, Begin, Load, Hit, Miss, Lock,
       OpenFails, Store, Cancel, Finish
<1> QED
  BY InitIInv, NextIInv, <1>1, <1>2, PTL DEF Spec, ImplementsOnDemand, OnDemand!Spec
=============================================================================
