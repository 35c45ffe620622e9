--------------------------- MODULE RequesterProofs ---------------------------
(***************************************************************************)
(* Proofs about the requester, for any requests and any channels.          *)
(***************************************************************************)
EXTENDS Requester, TLAPS

\* The cell has one channel at a time, and none of those that closed.
OneLiveChannel ==
  /\ \A ch, d \in live : ch = d
  /\ live \cap spent = {}

\* A reply still on its way is on a live channel.
RepliesAreLive == \A m \in replies : m.ch \in live

\* From the slot's entry to the end of the wait, a request without its answer
\* is in the table: nobody but its dispatch takes it out.
ListedWhileOpen ==
  \A r \in Requests :
    pc[r] \in {"listed", "waiting"} /\ answer[r] = NoAnswer => r \in pending

\* A slot belongs to a request on its way, or to a future that was dropped.
SlotHasOwner ==
  \A r \in pending :
    /\ pc[r] \in {"listed", "waiting", "expired", "broken", "dropped"}
    /\ answer[r] = NoAnswer

\* A request has no answer before its slot.
UnlistedUnanswered ==
  \A r \in Requests : pc[r] \in {"idle", "ready"} => answer[r] = NoAnswer

\* The inductive invariant.
IInv ==
  /\ TypeOK
  /\ OneLiveChannel
  /\ LiveChannelIsRead
  /\ RepliesAreLive
  /\ AnswerIsOwn
  /\ ListedWhileOpen
  /\ SlotHasOwner
  /\ UnlistedUnanswered
-----------------------------------------------------------------------------
\* It holds of an empty table.
LEMMA InitIInv == Init => IInv
<1> SUFFICES ASSUME Init PROVE IInv
  OBVIOUS
<1> USE RequesterAssumption DEF Init
<1>1. TypeOK
  <2>1. pc \in [Requests -> {"idle"}] /\ replied \in [Requests -> 0..MaxReplies]
    OBVIOUS
  <2>2. on \in [Requests -> Channels \cup {NoChannel}]
    OBVIOUS
  <2>3. answer \in [Requests -> Requests \cup {Stray, NoAnswer}]
    OBVIOUS
  <2> QED
    BY <2>1, <2>2, <2>3 DEF TypeOK
<1> QED
  BY <1>1 DEF IInv, OneLiveChannel, LiveChannelIsRead, RepliesAreLive, AnswerIsOwn,
              ListedWhileOpen, SlotHasOwner, UnlistedUnanswered

\* A request's own step moves it alone.
LEMMA NextIInv == IInv /\ [Next]_vars => IInv'
<1> SUFFICES ASSUME IInv, [Next]_vars PROVE IInv'
  OBVIOUS
<1> USE RequesterAssumption
<1> USE DEF IInv, TypeOK, OneLiveChannel, LiveChannelIsRead, RepliesAreLive, AnswerIsOwn,
            ListedWhileOpen, SlotHasOwner, UnlistedUnanswered, Goto, Reply
<1>1. ASSUME NEW r \in Requests, UseChannel(r) PROVE IInv'
  BY <1>1 DEF UseChannel
<1>2. ASSUME NEW r \in Requests, OpenChannel(r) PROVE IInv'
  <2> PICK ch \in Channels \ spent : live' = {ch}
    BY <1>2 DEF OpenChannel, Cell!Open
  <2>1. on' = [on EXCEPT ![r] = ch] /\ live = {}
    BY <1>2 DEF OpenChannel, Cell!Open
  <2> QED
    BY <1>2, <2>1 DEF OpenChannel, Cell!Open
<1>3. ASSUME NEW r \in Requests, Refused(r) PROVE IInv'
  BY <1>3 DEF Refused
<1>4. ASSUME NEW r \in Requests, List(r) PROVE IInv'
  BY <1>4 DEF List
<1>5. ASSUME NEW r \in Requests, Publish(r) PROVE IInv'
  BY <1>5 DEF Publish
<1>6. ASSUME NEW r \in Requests, PublishFails(r) PROVE IInv'
  BY <1>6 DEF PublishFails
<1>7. ASSUME NEW r \in Requests, Receive(r) PROVE IInv'
  BY <1>7 DEF Receive
<1>8. ASSUME NEW r \in Requests, Expire(r) PROVE IInv'
  BY <1>8 DEF Expire
<1>9. ASSUME NEW r \in Requests, Cleanup(r) PROVE IInv'
  BY <1>9 DEF Cleanup
<1>10. ASSUME NEW r \in Requests, DropFuture(r) PROVE IInv'
  BY <1>10 DEF DropFuture
<1>11. ASSUME NEW r \in Requests, Respond(r) PROVE IInv'
  BY <1>11 DEF Respond
<1>12. ASSUME NEW m \in replies, Dispatch(m) PROVE IInv'
  BY <1>12 DEF Dispatch
<1>13. ASSUME NEW ch \in Channels, DispatcherEnds(ch) PROVE IInv'
  BY <1>13 DEF DispatcherEnds
<1>14. ASSUME RespondAstray PROVE IInv'
  BY <1>14 DEF RespondAstray
<1>15. ASSUME ChannelCloses PROVE IInv'
  BY <1>15 DEF ChannelCloses, Cell!Close
<1>16. ASSUME Shutdown PROVE IInv'
  BY <1>16 DEF Shutdown
<1>17. CASE UNCHANGED vars
  BY <1>17 DEF vars
<1> QED
  BY <1>1, <1>2, <1>3, <1>4, <1>5, <1>6, <1>7, <1>8, <1>9, <1>10, <1>11, <1>12,
     <1>13, <1>14, <1>15, <1>16, <1>17 DEF Next, Request
-----------------------------------------------------------------------------
\* The invariant holds throughout.
THEOREM Invariant == Spec => []IInv
BY InitIInv, NextIInv, PTL DEF Spec

\* Type correctness of the requester.
THEOREM TypeCorrect == Spec => []TypeOK
<1>1. IInv => TypeOK
  BY DEF IInv
<1> QED
  BY Invariant, <1>1, PTL

\* No request ever gets the reply to another's, however many share the channel.
THEOREM OwnAnswer == Spec => []AnswerIsOwn
<1>1. IInv => AnswerIsOwn
  BY DEF IInv
<1> QED
  BY Invariant, <1>1, PTL

\* The table lists what can still be answered, and nothing that ended but what
\* was dropped.
THEOREM ExactTable == Spec => []PendingIsExact
<1>1. IInv => PendingIsExact
  <2> SUFFICES ASSUME IInv PROVE PendingIsExact
    OBVIOUS
  <2>1. \A r \in Requests : pc[r] = "waiting" /\ answer[r] = NoAnswer => r \in pending
    BY DEF IInv, ListedWhileOpen
  <2>2. \A r \in pending : pc[r] \notin {"answered", "timeout", "failed"}
    BY DEF IInv, SlotHasOwner
  <2> QED
    BY <2>1, <2>2 DEF PendingIsExact
<1> QED
  BY Invariant, <1>1, PTL

\* A channel that can be handed out is read by a dispatcher.
THEOREM ReadChannel == Spec => []LiveChannelIsRead
<1>1. IInv => LiveChannelIsRead
  BY DEF IInv
<1> QED
  BY Invariant, <1>1, PTL
-----------------------------------------------------------------------------
\* What becomes of a reply in one step: only its dispatch, or the close of its
\* channel, takes it off the wire.
LEMMA ReplyLeaves ==
  ASSUME IInv, [Next]_vars, NEW m \in replies, m \notin replies'
  PROVE  Dispatch(m) \/ ChannelCloses
<1>1. CASE UNCHANGED vars
  BY <1>1 DEF vars
<1>2. ASSUME NEW r \in Requests, Request(r) PROVE FALSE
  BY <1>2 DEF Request, UseChannel, OpenChannel, Refused, List, Publish, PublishFails,
              Receive, Expire, Cleanup, DropFuture
<1>3. ASSUME NEW r \in Requests, Respond(r) PROVE FALSE
  BY <1>3 DEF Respond
<1>4. ASSUME NEW n \in replies, Dispatch(n) PROVE n = m
  BY <1>4 DEF Dispatch
<1>5. ASSUME NEW ch \in Channels, DispatcherEnds(ch) PROVE FALSE
  BY <1>5 DEF DispatcherEnds
<1>6. ASSUME RespondAstray \/ Shutdown PROVE FALSE
  BY <1>6 DEF RespondAstray, Shutdown
<1> QED
  BY <1>1, <1>2, <1>3, <1>4, <1>5, <1>6 DEF Next

\* A reply read off a live channel while its request waits is its answer.
THEOREM ReplyIsDelivered == Spec => ReplyReachesWaiter
<1> DEFINE Delivered ==
      \A m \in replies \ replies' :
        m.id \in Requests /\ pc[m.id] = "waiting" /\ answer[m.id] = NoAnswer
          => answer'[m.id] = m.id \/ m.ch \in spent'
<1>1. IInv /\ [Next]_vars => Delivered
  <2> SUFFICES ASSUME IInv, [Next]_vars, NEW m \in replies, m \notin replies',
                      m.id \in Requests, pc[m.id] = "waiting", answer[m.id] = NoAnswer
               PROVE  answer'[m.id] = m.id \/ m.ch \in spent'
    OBVIOUS
  <2>1. CASE Dispatch(m)
    <3>1. m.id \in pending
      BY DEF IInv, ListedWhileOpen
    <3> QED
      BY <2>1, <3>1 DEF Dispatch, IInv, TypeOK
  <2>2. CASE ChannelCloses
    BY <2>2 DEF ChannelCloses, Cell!Close, IInv, RepliesAreLive
  <2> QED
    BY <2>1, <2>2, ReplyLeaves
<1>2. IInv /\ [Next]_vars => [Delivered]_vars
  BY <1>1
<1> QED
  BY Invariant, <1>2, PTL DEF Spec, ReplyReachesWaiter
=============================================================================
