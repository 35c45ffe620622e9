------------------------- MODULE LiveSettlementProofs -------------------------
(***************************************************************************)
(* Proofs about how a delivery settles, for any number of messages, copies *)
(* and channels.                                                           *)
(***************************************************************************)
EXTENDS LiveSettlement, TLAPS

\* The server numbers messages and copies as they come.
Numbered ==
  /\ \A i \in Ids : root[i] = NoRoot <=> place[i] = "none"
  /\ \A i, j \in Ids : i < j /\ root[j] # NoRoot => root[i] # NoRoot

\* How far a handler is, and what it did so far.
Fits(h) ==
  /\ h.chan <= channel
  /\ root[h.id] # NoRoot
  /\ h.step = "copying" => h.verdict = "retry"
  /\ h.copied <=> h.verdict = "retry" /\ h.step \in {"settling", "sending"}
  /\ h.verdict \in {"ack", "drop"} /\ h.step \in {"settling", "sending"} => root[h.id] \in decided
HandlersFit == \A h \in handlers : Fits(h)

\* A delivery of the open channel is unacknowledged, and in one handler's hands.
LiveHandlers ==
  \A h \in handlers : Sendable(h) =>
    /\ place[h.id] = "unacked"
    /\ \A g \in handlers : Sendable(g) /\ g.id = h.id => g = h

\* A frame is of an unacknowledged delivery, and one that settles is its last.
FramesLast ==
  /\ wire # <<>> => up
  /\ \A n \in DOMAIN wire :
       /\ place[wire[n].id] = "unacked"
       /\ wire[n].kind # "copy" =>
            /\ \A k \in DOMAIN wire : wire[k].id = wire[n].id => k <= n
            /\ \A h \in handlers : Sendable(h) => h.id # wire[n].id

\* A copy of i is on the way to the server.
CopyInWire(i) == \E n \in DOMAIN wire : wire[n].kind = "copy" /\ wire[n].id = i

\* The server has a copy made after i.
LaterKept(i) == \E j \in Ids : j > i /\ root[j] = root[i] /\ place[j] # "gone"

\* A copy of i is on the way ahead of frame n.
CopyAhead(n, i) == \E k \in 1..(n - 1) : wire[k].kind = "copy" /\ wire[k].id = i

\* What is acknowledged and not decided has a later copy, on the way ahead of the
\* acknowledgement or with the server.
Covered ==
  /\ \A h \in handlers :
       Sendable(h) /\ h.copied /\ root[h.id] \notin decided => CopyInWire(h.id) \/ LaterKept(h.id)
  /\ \A n \in DOMAIN wire, i \in Ids :
       wire[n].id = i /\ wire[n].kind \in {"ack", "drop"} /\ root[i] \notin decided =>
         LaterKept(i) \/ CopyAhead(n, i)

\* No failure and no shutdown so far.
Calm == channel = 1 /\ up /\ ~closed

\* i was copied, and its acknowledgement follows.
Leaving(i) ==
  \/ \E h \in handlers : h.id = i /\ h.copied
  \/ \E n \in DOMAIN wire : wire[n].kind = "ack" /\ wire[n].id = i

\* One copy of i is on the way at most.
OneCopy(i) ==
  \A n, k \in DOMAIN wire :
    wire[n].kind = "copy" /\ wire[k].kind = "copy" /\ wire[n].id = i /\ wire[k].id = i => n = k

\* i is copied once and acknowledged after, and its copy is the last of the message.
Copied(i) ==
  /\ CopyInWire(i) => Leaving(i)
  /\ OneCopy(i)
  /\ place[i] # "gone" /\ LaterKept(i) => Leaving(i) /\ ~CopyInWire(i)

\* In the calm every message whose settlement nobody dropped is copied so.
CopiedOnce == Calm => \A i \in Ids : root[i] \in Roots \ dropped => Copied(i)

\* The inductive invariant.
IInv ==
  /\ TypeOK
  /\ Numbered
  /\ HandlersFit
  /\ LiveHandlers
  /\ FramesLast
  /\ Covered
  /\ NeverLost
  /\ CopiedOnce
-----------------------------------------------------------------------------
\* The invariant holds of a subscription that delivered nothing.
LEMMA InitIInv == Init => IInv
<1> SUFFICES ASSUME Init PROVE IInv
  OBVIOUS
<1> USE SettlementAssumption DEF Init
<1>1. TypeOK
  <2>1. wire \in Seq(Frame) /\ channel \in 1..MaxChannels
    OBVIOUS
  <2> QED
    BY <2>1 DEF TypeOK
<1>2. Numbered
  BY DEF Numbered, Ids
<1>3. HandlersFit /\ LiveHandlers /\ FramesLast /\ Covered
  BY DEF HandlersFit, LiveHandlers, FramesLast, Covered
<1>4. NeverLost
  <2> SUFFICES ASSUME NEW m \in Roots PROVE Kept(m) # {}
    BY DEF NeverLost
  <2>1. PICK i \in Ids : root[i] = m
    OBVIOUS
  <2>2. place[i] = "ready"
    BY <2>1
  <2> QED
    BY <2>1, <2>2 DEF Kept
<1>5. CopiedOnce
  <2>1. \A i \in Ids : root[i] \in Roots => ~LaterKept(i)
    BY DEF LaterKept, Ids
  <2>2. \A i \in Ids : ~CopyInWire(i)
    BY DEF CopyInWire
  <2> QED
    BY <2>1, <2>2 DEF CopiedOnce, Copied, OneCopy
<1> QED
  BY <1>1, <1>2, <1>3, <1>4, <1>5 DEF IInv
-----------------------------------------------------------------------------
(* What the steps of a handler and of the wire do.                          *)

\* A handler that goes on is still the handler of its delivery.
Follows(h, new) ==
  /\ new \in Handler /\ new.id = h.id /\ new.chan = h.chan
  /\ Becomes(h, new)

LEMMA DecideFollows ==
  ASSUME TypeOK, NEW h \in handlers, Decide(h)
  PROVE  \E new : /\ Follows(h, new) /\ new.copied = h.copied
                  /\ h.step = "held"
                  /\ new.step = IF new.verdict = "retry" THEN "copying" ELSE "settling"
                  /\ decided' = IF new.verdict \in {"ack", "drop"} THEN decided \cup {root[h.id]} ELSE decided
<1>1. h \in Handler
  BY DEF TypeOK
<1>2. PICK v \in Verdicts :
        /\ Becomes(h, [h EXCEPT !.verdict = v,
                                !.step = IF v = "retry" THEN "copying" ELSE "settling"])
        /\ decided' = IF v \in {"ack", "drop"} THEN decided \cup {root[h.id]} ELSE decided
  BY DEF Decide
<1> DEFINE new == [h EXCEPT !.verdict = v, !.step = IF v = "retry" THEN "copying" ELSE "settling"]
<1>3. /\ new \in Handler /\ new.id = h.id /\ new.chan = h.chan /\ new.copied = h.copied
      /\ new.verdict = v /\ new.step = IF v = "retry" THEN "copying" ELSE "settling"
  BY <1>1 DEF Handler, Verdicts
<1> HIDE DEF new
<1> QED
  BY <1>2, <1>3 DEF Follows, Decide, new

LEMMA PassFollows ==
  ASSUME TypeOK, NEW h \in handlers, Pass(h)
  PROVE  \E new : /\ Follows(h, new) /\ new.copied = h.copied /\ new.verdict = h.verdict
                  /\ h.step = "settling" /\ new.step = "sending"
<1>1. h \in Handler
  BY DEF TypeOK
<1> DEFINE new == [h EXCEPT !.step = "sending"]
<1>2. /\ new \in Handler /\ new.id = h.id /\ new.chan = h.chan /\ new.copied = h.copied
      /\ new.verdict = h.verdict /\ new.step = "sending"
  BY <1>1 DEF Handler
<1>3. Becomes(h, new) /\ h.step = "settling"
  BY DEF Pass
<1> HIDE DEF new
<1> QED
  BY <1>2, <1>3 DEF Follows

LEMMA SendCopyFollows ==
  ASSUME TypeOK, NEW h \in handlers, SendCopy(h)
  PROVE  \E new : /\ Follows(h, new) /\ new.copied = TRUE /\ new.verdict = h.verdict
                  /\ h.step = "copying" /\ new.step = "settling"
<1>1. h \in Handler
  BY DEF TypeOK
<1> DEFINE new == [h EXCEPT !.step = "settling", !.copied = TRUE]
<1>2. /\ new \in Handler /\ new.id = h.id /\ new.chan = h.chan /\ new.copied = TRUE
      /\ new.verdict = h.verdict /\ new.step = "settling"
  BY <1>1 DEF Handler
<1>3. Becomes(h, new) /\ h.step = "copying"
  BY DEF SendCopy
<1> HIDE DEF new
<1> QED
  BY <1>2, <1>3 DEF Follows

\* A frame that leaves is the last.
LEMMA SendAppends ==
  ASSUME TypeOK, NEW kind \in {"ack", "requeue", "drop", "copy"}, NEW id \in Ids, Send(kind, id)
  PROVE  /\ wire' \in Seq(Frame)
         /\ Len(wire) \in Nat
         /\ DOMAIN wire = 1..Len(wire) /\ DOMAIN wire' = 1..(Len(wire) + 1)
         /\ \A n \in 1..Len(wire) : wire'[n] = wire[n]
         /\ wire'[Len(wire) + 1].kind = kind /\ wire'[Len(wire) + 1].id = id
<1> DEFINE f == [kind |-> kind, id |-> id]
<1>1. f \in Frame /\ f.kind = kind /\ f.id = id
  BY DEF Frame
<1>2. wire \in Seq(Frame) /\ wire' = Append(wire, f)
  BY DEF TypeOK, Send
<1> HIDE DEF f
<1> QED
  BY <1>1, <1>2

\* What a handler sends is the last, of its delivery.
LEMMA SendsLast ==
  ASSUME TypeOK, NEW h \in handlers, SendCopy(h) \/ SendFrame(h)
  PROVE  /\ Len(wire) \in Nat
         /\ DOMAIN wire = 1..Len(wire) /\ DOMAIN wire' = 1..(Len(wire) + 1)
         /\ wire' # <<>>
         /\ \A n \in 1..Len(wire) : wire'[n] = wire[n]
         /\ wire'[Len(wire) + 1].id = h.id
         /\ \/ SendCopy(h) /\ wire'[Len(wire) + 1].kind = "copy"
            \/ SendFrame(h) /\ wire'[Len(wire) + 1].kind = FrameOf(h.verdict)
<1>1. h.id \in Ids /\ h.verdict \in Verdicts
  BY DEF TypeOK, Handler
<1>2. FrameOf(h.verdict) \in {"ack", "requeue", "drop", "copy"}
  BY <1>1 DEF FrameOf, Verdicts
<1>3. CASE SendCopy(h)
  BY <1>1, <1>3, SendAppends DEF SendCopy
<1>4. CASE SendFrame(h)
  BY <1>1, <1>2, <1>4, SendAppends DEF SendFrame
<1> QED
  BY <1>3, <1>4

\* The server takes the first frame, and the others move up.
LEMMA ServeTakes ==
  ASSUME TypeOK, Serve
  PROVE  /\ wire' \in Seq(Frame)
         /\ wire[1] = Head(wire) /\ wire[1] \in Frame
         /\ Len(wire) \in Nat \ {0}
         /\ DOMAIN wire = 1..Len(wire) /\ DOMAIN wire' = 1..(Len(wire) - 1)
         /\ \A n \in DOMAIN wire' : wire'[n] = wire[n + 1]
<1>1. wire \in Seq(Frame) /\ wire # <<>> /\ wire' = Tail(wire)
  BY DEF TypeOK, Serve
<1> QED
  BY <1>1
-----------------------------------------------------------------------------
(* Each step keeps each part of the invariant.                              *)

\* Every variable keeps its type.
LEMMA KeepsTypeOK == IInv /\ [Next]_vars => TypeOK'
<1> SUFFICES ASSUME IInv, [Next]_vars PROVE TypeOK'
  OBVIOUS
<1> USE SettlementAssumption
<1>1. TypeOK
  BY DEF IInv
<1>2. ASSUME NEW i \in Ids, Deliver(i) PROVE TypeOK'
  <2> DEFINE h == [id |-> i, chan |-> channel, verdict |-> "ack", step |-> "held", copied |-> FALSE]
  <2>1. h \in Handler
    BY <1>1 DEF TypeOK, Handler, Verdicts
  <2>2. handlers' = handlers \cup {h} /\ place' = [place EXCEPT ![i] = "unacked"]
    BY <1>2 DEF Deliver
  <2> HIDE DEF h
  <2> QED
    BY <1>1, <1>2, <2>1, <2>2 DEF TypeOK, Deliver
<1>3. ASSUME NEW i \in Ids, DelayOver(i) PROVE TypeOK'
  BY <1>1, <1>3 DEF TypeOK, DelayOver
<1>4. ASSUME NEW h \in handlers PROVE h \in Handler /\ h.id \in Ids /\ root[h.id] \in Roots
  BY <1>1 DEF TypeOK, Handler, IInv, HandlersFit, Fits
<1>5. ASSUME NEW h \in handlers, NEW new, Follows(h, new) PROVE handlers' \subseteq Handler
  BY <1>1, <1>5 DEF TypeOK, Follows, Becomes
<1>6. ASSUME NEW h \in handlers, Ends(h) PROVE handlers' \subseteq Handler
  BY <1>1, <1>6 DEF TypeOK, Ends
<1>7. ASSUME NEW h \in handlers, Decide(h) PROVE TypeOK'
  <2>1. handlers' \subseteq Handler /\ decided' \subseteq decided \cup {root[h.id]}
    BY <1>1, <1>5, <1>7, DecideFollows
  <2> QED
    BY <1>1, <1>4, <1>7, <2>1 DEF TypeOK, Decide
<1>8. ASSUME NEW h \in handlers, Pass(h) PROVE TypeOK'
  <2>1. handlers' \subseteq Handler
    BY <1>1, <1>5, <1>8, PassFollows
  <2> QED
    BY <1>1, <1>8, <2>1 DEF TypeOK, Pass
<1>9. ASSUME NEW h \in handlers, SendCopy(h) PROVE TypeOK'
  <2>1. handlers' \subseteq Handler
    BY <1>1, <1>5, <1>9, SendCopyFollows
  <2>2. wire' \in Seq(Frame)
    BY <1>1, <1>4, <1>9, SendAppends DEF SendCopy
  <2> QED
    BY <1>1, <1>9, <2>1, <2>2 DEF TypeOK, SendCopy
<1>10. ASSUME NEW h \in handlers, SendFrame(h) PROVE TypeOK'
  <2>1. FrameOf(h.verdict) \in {"ack", "requeue", "drop", "copy"}
    BY <1>4 DEF FrameOf, Handler, Verdicts
  <2>2. wire' \in Seq(Frame)
    BY <1>1, <1>4, <1>10, <2>1, SendAppends DEF SendFrame
  <2> QED
    BY <1>1, <1>6, <1>10, <2>2 DEF TypeOK, SendFrame
<1>11. ASSUME NEW h \in handlers, Refuse(h) \/ Fail(h) PROVE TypeOK'
  BY <1>1, <1>6, <1>11 DEF TypeOK, Refuse, Fail
<1>12. ASSUME NEW h \in handlers, Abandon(h) PROVE TypeOK'
  BY <1>1, <1>4, <1>6, <1>12 DEF TypeOK, Abandon
<1>13. CASE Serve
  <2>1. wire' \in Seq(Frame) /\ wire[1] \in Frame /\ Head(wire) = wire[1]
    BY <1>1, <1>13, ServeTakes
  <2>2. wire[1].id \in Ids /\ root[wire[1].id] \in Roots \cup {NoRoot}
    BY <1>1, <2>1 DEF TypeOK, Frame
  <2>3. root' \in [Ids -> Roots \cup {NoRoot}]
    BY <1>1, <1>13, <2>1, <2>2 DEF TypeOK, Serve
  <2>4. place' \in [Ids -> {"none", "ready", "unacked", "waiting", "gone"}]
    BY <1>1, <1>13, <2>1, <2>2 DEF TypeOK, Serve
  <2> QED
    BY <1>1, <1>13, <2>1, <2>3, <2>4 DEF TypeOK, Serve
<1>14. CASE ChannelDies \/ Handshake
  <2>1. Requeued \in [Ids -> {"none", "ready", "unacked", "waiting", "gone"}] /\ <<>> \in Seq(Frame)
    BY <1>1 DEF TypeOK, Requeued
  <2> QED
    BY <1>1, <1>14, <2>1 DEF TypeOK, ChannelDies, Handshake
<1>15. CASE Resubscribe \/ MarkClosed \/ UNCHANGED vars
  <2>1. UNCHANGED <<root, place, handlers, wire, decided, dropped>>
    BY <1>15 DEF Resubscribe, MarkClosed, vars
  <2>2. channel' \in 1..MaxChannels /\ up' \in BOOLEAN /\ closed' \in BOOLEAN
    <3>1. CASE Resubscribe
      BY <1>1, <3>1 DEF TypeOK, Resubscribe
    <3>2. CASE MarkClosed
      BY <1>1, <3>2 DEF TypeOK, MarkClosed
    <3>3. CASE UNCHANGED vars
      BY <1>1, <3>3 DEF TypeOK, vars
    <3> QED
      BY <1>15, <3>1, <3>2, <3>3
  <2> QED
    BY <1>1, <2>1, <2>2 DEF TypeOK
<1> QED
  BY <1>2, <1>3, <1>7, <1>8, <1>9, <1>10, <1>11, <1>12, <1>13, <1>14, <1>15 DEF Next, Settle

\* What the server does with a frame: a copy is numbered after all there is, and
\* anything else settles its delivery.
LEMMA ServeSettles ==
  ASSUME IInv, Serve
  PROVE  /\ wire[1].id \in Ids /\ root[wire[1].id] # NoRoot /\ place[wire[1].id] = "unacked"
         /\ \A i \in Ids : root[i] # NoRoot => root'[i] = root[i] /\ place[i] # "none"
         /\ \/ /\ wire[1].kind = "copy"
               /\ \E j \in Ids :
                    /\ root[j] = NoRoot /\ place[j] = "none"
                    /\ \A i \in Ids : root[i] # NoRoot <=> i < j
                    /\ root'[j] = root[wire[1].id] /\ place'[j] = "waiting"
                    /\ \A i \in Ids \ {j} : root'[i] = root[i] /\ place'[i] = place[i]
            \/ /\ wire[1].kind # "copy"
               /\ UNCHANGED root
               /\ place'[wire[1].id] = IF wire[1].kind = "requeue" THEN "ready" ELSE "gone"
               /\ \A i \in Ids \ {wire[1].id} : place'[i] = place[i]
<1> DEFINE f == wire[1]
<1>1. TypeOK /\ Numbered /\ FramesLast
  BY DEF IInv
<1>2. f \in Frame /\ Head(wire) = f /\ 1 \in DOMAIN wire
  BY <1>1, ServeTakes
<1>3. f.id \in Ids /\ place[f.id] = "unacked" /\ root[f.id] # NoRoot
  BY <1>1, <1>2 DEF FramesLast, Numbered, Frame
<1> HIDE DEF f
<1>4. /\ root \in [Ids -> Roots \cup {NoRoot}]
      /\ place \in [Ids -> {"none", "ready", "unacked", "waiting", "gone"}]
  BY <1>1 DEF TypeOK
<1>5. \A i \in Ids : root[i] # NoRoot => place[i] # "none"
  BY <1>1 DEF Numbered
<1>6. CASE f.kind = "copy"
  <2>1. PICK j \in Ids :
          /\ root[j] = NoRoot
          /\ \A i \in Ids : root[i] = NoRoot => j <= i
          /\ root' = [root EXCEPT ![j] = root[f.id]]
          /\ place' = [place EXCEPT ![j] = "waiting"]
    BY <1>2, <1>6 DEF Serve
  <2>2. \A i \in Ids : root[i] # NoRoot <=> i < j
    <3>1. \A i \in Ids : i \in Nat
      BY DEF Ids
    <3>2. ASSUME NEW i \in Ids, root[i] # NoRoot PROVE i < j
      <4>1. ~(j < i) /\ i # j
        BY <1>1, <2>1, <3>2 DEF Numbered
      <4> QED
        BY <3>1, <4>1
    <3>3. ASSUME NEW i \in Ids, i < j PROVE root[i] # NoRoot
      BY <2>1, <3>1, <3>3
    <3> QED
      BY <3>2, <3>3
  <2>3. place[j] = "none"
    BY <1>1, <2>1 DEF Numbered
  <2> QED
    BY <1>3, <1>4, <1>5, <1>6, <2>1, <2>2, <2>3 DEF f
<1>7. CASE f.kind # "copy"
  <2>1. /\ UNCHANGED root
        /\ place' = [place EXCEPT ![f.id] = IF f.kind = "requeue" THEN "ready" ELSE "gone"]
    BY <1>2, <1>7 DEF Serve
  <2> QED
    BY <1>3, <1>4, <1>5, <1>7, <2>1 DEF f
<1> QED
  BY <1>6, <1>7

\* Only the server gives a number, or moves a message otherwise than below.
LEMMA PlaceSteps ==
  ASSUME TypeOK, [Next]_vars, ~Serve
  PROVE  /\ UNCHANGED root
         /\ \/ UNCHANGED place
            \/ \E i \in Ids : /\ Deliver(i) /\ place[i] = "ready" /\ place'[i] = "unacked"
                              /\ \A j \in Ids \ {i} : place'[j] = place[j]
            \/ \E i \in Ids : /\ DelayOver(i) /\ place[i] = "waiting" /\ place'[i] = "ready"
                              /\ \A j \in Ids \ {i} : place'[j] = place[j]
            \/ /\ ChannelDies \/ Handshake
               /\ \A i \in Ids : place'[i] = IF place[i] = "unacked" THEN "ready" ELSE place[i]
<1>1. ASSUME NEW i \in Ids, Deliver(i)
      PROVE  UNCHANGED root /\ place[i] = "ready" /\ place'[i] = "unacked"
             /\ \A j \in Ids \ {i} : place'[j] = place[j]
  BY <1>1 DEF TypeOK, Deliver
<1>2. ASSUME NEW i \in Ids, DelayOver(i)
      PROVE  UNCHANGED root /\ place[i] = "waiting" /\ place'[i] = "ready"
             /\ \A j \in Ids \ {i} : place'[j] = place[j]
  BY <1>2 DEF TypeOK, DelayOver
<1>3. ASSUME NEW h \in handlers, Settle(h) \/ Abandon(h) PROVE UNCHANGED <<root, place>>
  BY <1>3 DEF Settle, Decide, Refuse, Pass, SendCopy, SendFrame, Fail, Abandon
<1>4. CASE ChannelDies \/ Handshake
  BY <1>4 DEF TypeOK, ChannelDies, Handshake, Requeued
<1>5. CASE Resubscribe \/ MarkClosed \/ UNCHANGED vars
  BY <1>5 DEF Resubscribe, MarkClosed, vars
<1> QED
  BY <1>1, <1>2, <1>3, <1>4, <1>5 DEF Next

\* Numbers are given in order.
LEMMA KeepsNumbered == IInv /\ [Next]_vars => Numbered'
<1> SUFFICES ASSUME IInv, [Next]_vars PROVE Numbered'
  OBVIOUS
<1>1. TypeOK /\ Numbered
  BY DEF IInv
<1>2. CASE Serve
  <2>1. CASE wire[1].kind = "copy"
    <3>1. PICK j \in Ids :
            /\ \A i \in Ids : root[i] # NoRoot <=> i < j
            /\ root'[j] = root[wire[1].id] /\ place'[j] = "waiting"
            /\ root[wire[1].id] # NoRoot
            /\ \A i \in Ids \ {j} : root'[i] = root[i] /\ place'[i] = place[i]
      BY <1>2, <2>1, ServeSettles
    <3>2. \A i, k \in Ids : i < k /\ k < j => i < j
      BY DEF Ids
    <3>3. \A i \in Ids : root'[i] = NoRoot <=> place'[i] = "none"
      BY <1>1, <3>1 DEF Numbered
    <3>4. ASSUME NEW i \in Ids, NEW k \in Ids, i < k, root'[k] # NoRoot PROVE root'[i] # NoRoot
      BY <1>1, <3>1, <3>4 DEF Numbered
    <3> QED
      BY <3>3, <3>4 DEF Numbered
  <2>2. CASE wire[1].kind # "copy"
    <3>1. /\ UNCHANGED root /\ place'[wire[1].id] # "none" /\ root[wire[1].id] # NoRoot
          /\ \A i \in Ids \ {wire[1].id} : place'[i] = place[i]
      BY <1>2, <2>2, ServeSettles
    <3> QED
      BY <1>1, <3>1 DEF Numbered
  <2> QED
    BY <2>1, <2>2
<1>3. CASE ~Serve
  <2>1. UNCHANGED root /\ \A i \in Ids : place'[i] = "none" <=> place[i] = "none"
    BY <1>1, <1>3, PlaceSteps
  <2> QED
    BY <1>1, <2>1 DEF Numbered
<1> QED
  BY <1>2, <1>3

\* How the handlers change: one comes with a delivery, one goes on, or one ends.
LEMMA HandlerSteps ==
  ASSUME TypeOK, [Next]_vars
  PROVE  \/ UNCHANGED handlers
         \/ \E i \in Ids : Deliver(i)
         \/ /\ UNCHANGED <<root, place, channel, up>>
            /\ \E h \in handlers :
                 \/ Ends(h) /\ UNCHANGED decided
                 \/ \E new : Follows(h, new) /\ (Decide(h) \/ Pass(h) \/ SendCopy(h))
<1>1. ASSUME NEW h \in handlers, Decide(h) \/ Pass(h) \/ SendCopy(h)
      PROVE  /\ UNCHANGED <<root, place, channel, up>>
             /\ \E new : Follows(h, new) /\ (Decide(h) \/ Pass(h) \/ SendCopy(h))
  <2>1. UNCHANGED <<root, place, channel, up>>
    BY <1>1 DEF Decide, Pass, SendCopy
  <2>2. \E new : Follows(h, new)
    BY <1>1, DecideFollows, PassFollows, SendCopyFollows
  <2> QED
    BY <1>1, <2>1, <2>2
<1>2. ASSUME NEW h \in handlers, Refuse(h) \/ SendFrame(h) \/ Fail(h) \/ Abandon(h)
      PROVE  UNCHANGED <<root, place, channel, up, decided>> /\ Ends(h)
  BY <1>2 DEF Refuse, SendFrame, Fail, Abandon
<1>3. ASSUME NEW i \in Ids, DelayOver(i) PROVE UNCHANGED handlers
  BY <1>3 DEF DelayOver
<1>4. CASE Serve \/ ChannelDies \/ Resubscribe \/ MarkClosed \/ Handshake \/ UNCHANGED vars
  BY <1>4 DEF Serve, ChannelDies, Resubscribe, MarkClosed, Handshake, vars
<1> QED
  BY <1>1, <1>2, <1>3, <1>4 DEF Next, Settle

\* What was decided, and the number of the channel, only grow.
LEMMA OnlyGrow ==
  ASSUME TypeOK, [Next]_vars
  PROVE  decided \subseteq decided' /\ dropped \subseteq dropped' /\ channel <= channel'
<1>1. decided \subseteq decided' /\ dropped \subseteq dropped'
  BY DEF Next, Deliver, DelayOver, Settle, Decide, Refuse, Pass, SendCopy, SendFrame, Fail, Abandon,
         Serve, ChannelDies, Resubscribe, MarkClosed, Handshake, vars
<1>2. channel' = channel \/ channel' = channel + 1
  BY DEF Next, Deliver, DelayOver, Settle, Decide, Refuse, Pass, SendCopy, SendFrame, Fail, Abandon,
         Serve, ChannelDies, Resubscribe, MarkClosed, Handshake, vars
<1>3. channel \in Nat
  BY SettlementAssumption DEF TypeOK
<1> QED
  BY <1>1, <1>2, <1>3

\* A handler is where its steps led it.
LEMMA KeepsHandlersFit == IInv /\ [Next]_vars => HandlersFit'
<1> SUFFICES ASSUME IInv, [Next]_vars PROVE HandlersFit'
  OBVIOUS
<1> USE SettlementAssumption
<1>1. TypeOK /\ HandlersFit
  BY DEF IInv
<1>2. \A h \in handlers : h \in Handler /\ h.id \in Ids /\ h.chan \in Nat /\ root[h.id] # NoRoot
  BY <1>1 DEF TypeOK, HandlersFit, Fits, Handler
<1>3. decided \subseteq decided' /\ channel <= channel' /\ channel \in Nat /\ channel' \in Nat
  BY <1>1, OnlyGrow, KeepsTypeOK DEF TypeOK
<1>4. \A i \in Ids : root[i] # NoRoot => root'[i] = root[i]
  <2>1. CASE Serve
    BY <2>1, ServeSettles
  <2>2. CASE ~Serve
    BY <1>1, <2>2, PlaceSteps
  <2> QED
    BY <2>1, <2>2
<1>5. ASSUME NEW h \in handlers PROVE Fits(h)'
  BY <1>1, <1>2, <1>3, <1>4 DEF HandlersFit, Fits
<1>6. ASSUME NEW i \in Ids, Deliver(i), NEW h \in handlers' PROVE Fits(h)'
  <2>1. CASE h \in handlers
    BY <1>5, <2>1
  <2>2. CASE h = [id |-> i, chan |-> channel, verdict |-> "ack", step |-> "held", copied |-> FALSE]
    <3>1. channel' = channel /\ root' = root /\ root[i] # NoRoot
      BY <1>6 DEF Deliver, IInv, Numbered
    <3> QED
      BY <1>3, <2>2, <3>1 DEF Fits
  <2> QED
    BY <1>6, <2>1, <2>2 DEF Deliver
<1>7. ASSUME NEW h \in handlers, Decide(h), NEW g \in handlers' PROVE Fits(g)'
  <2>1. PICK new : /\ Follows(h, new) /\ new.copied = h.copied
                   /\ h.step = "held"
                   /\ new.step = IF new.verdict = "retry" THEN "copying" ELSE "settling"
                   /\ decided' = IF new.verdict \in {"ack", "drop"} THEN decided \cup {root[h.id]} ELSE decided
    BY <1>1, <1>7, DecideFollows
  <2>2. UNCHANGED <<root, channel>>
    BY <1>7 DEF Decide
  <2>3. ~h.copied /\ Fits(h)
    BY <1>1, <2>1 DEF HandlersFit, Fits
  <2>4. Fits(new)'
    BY <1>2, <2>1, <2>2, <2>3 DEF Fits, Follows
  <2> QED
    BY <1>5, <2>1, <2>4 DEF Follows, Becomes
<1>8. ASSUME NEW h \in handlers, Pass(h), NEW g \in handlers' PROVE Fits(g)'
  <2>1. PICK new : /\ Follows(h, new) /\ new.copied = h.copied /\ new.verdict = h.verdict
                   /\ h.step = "settling" /\ new.step = "sending"
    BY <1>1, <1>8, PassFollows
  <2>2. Fits(new)'
    BY <1>5, <2>1 DEF Fits, Follows
  <2> QED
    BY <1>5, <2>1, <2>2 DEF Follows, Becomes
<1>9. ASSUME NEW h \in handlers, SendCopy(h), NEW g \in handlers' PROVE Fits(g)'
  <2>1. PICK new : /\ Follows(h, new) /\ new.copied = TRUE /\ new.verdict = h.verdict
                   /\ h.step = "copying" /\ new.step = "settling"
    BY <1>1, <1>9, SendCopyFollows
  <2>2. Fits(new)'
    BY <1>5, <2>1 DEF Fits, Follows
  <2> QED
    BY <1>5, <2>1, <2>2 DEF Follows, Becomes
<1>10. ASSUME NEW g \in handlers', handlers' \subseteq handlers PROVE Fits(g)'
  BY <1>5, <1>10
<1> QED
  BY <1>1, <1>6, <1>7, <1>8, <1>9, <1>10, HandlerSteps DEF HandlersFit, Ends

\* One handler holds a delivery of the open channel.
LEMMA KeepsLiveHandlers == IInv /\ [Next]_vars => LiveHandlers'
<1> SUFFICES ASSUME IInv, [Next]_vars PROVE LiveHandlers'
  OBVIOUS
<1> USE SettlementAssumption
<1>1. TypeOK /\ HandlersFit /\ LiveHandlers /\ FramesLast
  BY DEF IInv
<1>2. \A h \in handlers : h \in Handler /\ h.id \in Ids
  BY <1>1 DEF TypeOK, Handler
<1>3. ASSUME NEW i \in Ids, Deliver(i) PROVE LiveHandlers'
  <2> DEFINE new == [id |-> i, chan |-> channel, verdict |-> "ack", step |-> "held", copied |-> FALSE]
  <2>1. /\ UNCHANGED <<channel, up>> /\ handlers' = handlers \cup {new} /\ place[i] = "ready"
        /\ place'[i] = "unacked" /\ \A j \in Ids \ {i} : place'[j] = place[j]
        /\ new.id = i
    BY <1>1, <1>3 DEF Deliver, TypeOK
  <2> HIDE DEF new
  <2>2. \A h \in handlers : Sendable(h) => h.id # i
    BY <1>1, <2>1 DEF LiveHandlers
  <2> QED
    BY <1>1, <1>2, <2>1, <2>2 DEF LiveHandlers, Sendable
<1>4. ASSUME NEW h \in handlers, NEW new, Follows(h, new), UNCHANGED <<place, channel, up>>
      PROVE  LiveHandlers'
  <2>1. /\ handlers' = (handlers \ {h}) \cup {new} /\ new.id = h.id
        /\ (Sendable(new)' <=> Sendable(h)) /\ \A g : Sendable(g)' <=> Sendable(g)
    BY <1>4 DEF Follows, Becomes, Sendable
  <2> QED
    BY <1>1, <1>4, <2>1 DEF LiveHandlers
<1>5. ASSUME NEW h \in handlers, Ends(h), UNCHANGED <<place, channel, up>> PROVE LiveHandlers'
  BY <1>1, <1>5 DEF LiveHandlers, Sendable, Ends
<1>6. CASE Serve
  <2>1. UNCHANGED <<handlers, channel, up>>
    BY <1>6 DEF Serve
  <2>2. ASSUME NEW h \in handlers, Sendable(h) PROVE place'[h.id] = "unacked"
    <3>1. place[h.id] = "unacked"
      BY <1>1, <2>2 DEF LiveHandlers
    <3>2. wire[1].kind # "copy" => h.id # wire[1].id
      BY <1>1, <1>6, <2>2, ServeTakes DEF FramesLast
    <3>3. \A j \in Ids : place[j] = "none" => j # h.id
      BY <3>1
    <3> QED
      BY <1>2, <1>6, <3>1, <3>2, <3>3, ServeSettles
  <2> QED
    BY <1>1, <2>1, <2>2 DEF LiveHandlers, Sendable
<1>7. ASSUME NEW i \in Ids, DelayOver(i) PROVE LiveHandlers'
  BY <1>1, <1>2, <1>7 DEF LiveHandlers, Sendable, DelayOver, TypeOK
<1>8. CASE ChannelDies \/ Handshake
  BY <1>8 DEF LiveHandlers, Sendable, ChannelDies, Handshake
<1>9. CASE Resubscribe
  <2>1. \A h \in handlers : h.chan \in Nat /\ h.chan <= channel /\ channel \in Nat
    BY <1>1, <1>2 DEF HandlersFit, Fits, Handler, TypeOK
  <2>2. \A h \in handlers : ~Sendable(h)'
    BY <1>9, <2>1 DEF Resubscribe, Sendable
  <2> QED
    BY <1>9, <2>2 DEF Resubscribe, LiveHandlers
<1>10. CASE MarkClosed \/ UNCHANGED vars
  BY <1>1, <1>10 DEF LiveHandlers, Sendable, MarkClosed, vars
<1>11. ASSUME NEW h \in handlers, Settle(h) \/ Abandon(h) PROVE LiveHandlers'
  <2>1. UNCHANGED <<place, channel, up>>
    BY <1>11 DEF Settle, Decide, Refuse, Pass, SendCopy, SendFrame, Fail, Abandon
  <2>2. Ends(h) \/ \E new : Follows(h, new)
    BY <1>1, <1>11, DecideFollows, PassFollows, SendCopyFollows
       DEF Settle, Refuse, SendFrame, Fail, Abandon
  <2> QED
    BY <1>4, <1>5, <2>1, <2>2
<1> QED
  BY <1>3, <1>6, <1>7, <1>8, <1>9, <1>10, <1>11 DEF Next

\* The steps that touch the wire.
LEMMA WireSteps ==
  ASSUME [Next]_vars, ~Serve
  PROVE  \/ UNCHANGED wire
         \/ wire' = <<>>
         \/ \E h \in handlers : SendCopy(h) \/ SendFrame(h)
BY DEF Next, Deliver, DelayOver, Settle, Decide, Refuse, Pass, Fail, Abandon, ChannelDies, Resubscribe,
       MarkClosed, Handshake, vars

\* A frame is of a delivery the server waits for, and its settlement comes last.
LEMMA KeepsFramesLast == IInv /\ [Next]_vars => FramesLast'
<1> SUFFICES ASSUME IInv, [Next]_vars PROVE FramesLast'
  OBVIOUS
<1> USE SettlementAssumption
<1>1. TypeOK /\ HandlersFit /\ LiveHandlers /\ FramesLast
  BY DEF IInv
<1>2. /\ \A h \in handlers : h \in Handler /\ h.id \in Ids
      /\ \A n \in DOMAIN wire : wire[n] \in Frame /\ wire[n].id \in Ids
      /\ DOMAIN wire = 1..Len(wire) /\ Len(wire) \in Nat
  <2>1. wire \in Seq(Frame) /\ handlers \subseteq Handler
    BY <1>1 DEF TypeOK
  <2>2. \A n \in DOMAIN wire : wire[n] \in Frame
    BY <2>1
  <2>3. \A f \in Frame : f.id \in Ids
    BY DEF Frame
  <2> QED
    BY <2>1, <2>2, <2>3 DEF Handler
<1>3. ASSUME NEW i \in Ids, Deliver(i) PROVE FramesLast'
  <2> DEFINE new == [id |-> i, chan |-> channel, verdict |-> "ack", step |-> "held", copied |-> FALSE]
  <2>1. /\ UNCHANGED <<wire, channel, up>> /\ handlers' = handlers \cup {new} /\ place[i] = "ready"
        /\ place'[i] = "unacked" /\ \A j \in Ids \ {i} : place'[j] = place[j]
        /\ new.id = i
    BY <1>1, <1>3 DEF Deliver, TypeOK
  <2> HIDE DEF new
  <2>2. \A n \in DOMAIN wire : wire[n].id # i
    BY <1>1, <2>1 DEF FramesLast
  <2> QED
    BY <1>1, <1>2, <2>1, <2>2 DEF FramesLast, Sendable
<1>4. ASSUME NEW i \in Ids, DelayOver(i) PROVE FramesLast'
  BY <1>1, <1>2, <1>4 DEF FramesLast, Sendable, DelayOver, TypeOK
<1>5. ASSUME NEW h \in handlers, NEW new, Follows(h, new), UNCHANGED <<wire, place, channel, up>>
      PROVE  FramesLast'
  <2>1. /\ handlers' = (handlers \ {h}) \cup {new} /\ new.id = h.id
        /\ (Sendable(new)' <=> Sendable(h)) /\ \A g : Sendable(g)' <=> Sendable(g)
    BY <1>5 DEF Follows, Becomes, Sendable
  <2> QED
    BY <1>1, <1>5, <2>1 DEF FramesLast
<1>6. ASSUME NEW h \in handlers, Ends(h), UNCHANGED <<wire, place, channel, up>> PROVE FramesLast'
  BY <1>1, <1>6 DEF FramesLast, Sendable, Ends
<1>7. ASSUME NEW h \in handlers, SendCopy(h) PROVE FramesLast'
  <2>1. PICK new : Follows(h, new)
    BY <1>1, <1>7, SendCopyFollows
  <2>2. /\ UNCHANGED <<place, channel, up>> /\ Sendable(h)
        /\ handlers' = (handlers \ {h}) \cup {new} /\ new.id = h.id
        /\ (Sendable(new)' <=> Sendable(h)) /\ \A g : Sendable(g)' <=> Sendable(g)
    BY <1>7, <2>1 DEF SendCopy, Follows, Becomes, Sendable
  <2>3. /\ DOMAIN wire' = 1..(Len(wire) + 1)
        /\ \A n \in 1..Len(wire) : wire'[n] = wire[n]
        /\ wire'[Len(wire) + 1].kind = "copy" /\ wire'[Len(wire) + 1].id = h.id
    BY <1>1, <1>2, <1>7, SendAppends DEF SendCopy
  <2>4. place[h.id] = "unacked" /\ up
    BY <1>1, <2>2 DEF LiveHandlers, Sendable
  <2>5. \A n \in DOMAIN wire : wire[n].kind # "copy" => wire[n].id # h.id
    BY <1>1, <2>2 DEF FramesLast
  <2>6. ASSUME NEW n \in DOMAIN wire'
        PROVE  /\ place[wire'[n].id] = "unacked"
               /\ wire'[n].kind # "copy" =>
                    /\ \A k \in DOMAIN wire' : wire'[k].id = wire'[n].id => k <= n
                    /\ \A g \in handlers : Sendable(g) => g.id # wire'[n].id
    <3>1. CASE n \in 1..Len(wire)
      <4>1. \A k \in DOMAIN wire' : k \in 1..Len(wire) \/ k = Len(wire) + 1
        BY <1>2, <2>3
      <4> QED
        BY <1>1, <1>2, <2>3, <2>5, <3>1, <4>1 DEF FramesLast
    <3>2. CASE n = Len(wire) + 1
      BY <2>3, <2>4, <3>2
    <3> QED
      BY <1>2, <2>3, <3>1, <3>2
  <2> QED
    BY <2>2, <2>4, <2>6 DEF FramesLast
<1>8. ASSUME NEW h \in handlers, SendFrame(h) PROVE FramesLast'
  <2>1. /\ UNCHANGED <<place, channel, up>> /\ Sendable(h) /\ handlers' = handlers \ {h}
        /\ \A g : Sendable(g)' <=> Sendable(g)
    BY <1>8 DEF SendFrame, Ends, Sendable
  <2>2. FrameOf(h.verdict) \in {"ack", "requeue", "drop", "copy"}
    BY <1>2 DEF FrameOf, Handler, Verdicts
  <2>3. /\ DOMAIN wire' = 1..(Len(wire) + 1)
        /\ \A n \in 1..Len(wire) : wire'[n] = wire[n]
        /\ wire'[Len(wire) + 1].id = h.id
    BY <1>1, <1>2, <1>8, <2>2, SendAppends DEF SendFrame
  <2>4. /\ place[h.id] = "unacked" /\ up
        /\ \A g \in handlers \ {h} : Sendable(g) => g.id # h.id
    BY <1>1, <2>1 DEF LiveHandlers, Sendable
  <2>5. \A n \in DOMAIN wire : wire[n].kind # "copy" => wire[n].id # h.id
    BY <1>1, <2>1 DEF FramesLast
  <2>6. ASSUME NEW n \in DOMAIN wire'
        PROVE  /\ place[wire'[n].id] = "unacked"
               /\ wire'[n].kind # "copy" =>
                    /\ \A k \in DOMAIN wire' : wire'[k].id = wire'[n].id => k <= n
                    /\ \A g \in handlers \ {h} : Sendable(g) => g.id # wire'[n].id
    <3>0. \A k \in DOMAIN wire' : k \in 1..Len(wire) \/ k = Len(wire) + 1
      BY <1>2, <2>3
    <3>1. CASE n \in 1..Len(wire)
      BY <1>1, <1>2, <2>3, <2>5, <3>0, <3>1 DEF FramesLast
    <3>2. CASE n = Len(wire) + 1
      <4>1. \A k \in DOMAIN wire' : k <= n
        BY <1>2, <2>3, <3>2
      <4> QED
        BY <2>3, <2>4, <3>2, <4>1
    <3> QED
      BY <3>0, <3>1, <3>2
  <2> QED
    BY <2>1, <2>4, <2>6 DEF FramesLast
<1>9. CASE Serve
  <2>1. UNCHANGED <<handlers, channel, up>> /\ up
    BY <1>1, <1>9 DEF Serve, FramesLast
  <2>2. /\ DOMAIN wire' = 1..(Len(wire) - 1) /\ Len(wire) >= 1
        /\ \A n \in DOMAIN wire' : wire'[n] = wire[n + 1] /\ n + 1 \in DOMAIN wire
    BY <1>1, <1>2, <1>9, ServeTakes
  <2>3. ASSUME NEW n \in DOMAIN wire' PROVE place'[wire'[n].id] = "unacked"
    <3>1. place[wire'[n].id] = "unacked" /\ wire'[n].id \in Ids
      BY <1>1, <1>2, <2>2 DEF FramesLast
    <3>2. wire[1].kind # "copy" => wire'[n].id # wire[1].id
      <4>1. n + 1 \in DOMAIN wire /\ ~(n + 1 <= 1) /\ 1 \in DOMAIN wire
        BY <1>2, <2>2
      <4> QED
        BY <1>1, <2>2, <4>1 DEF FramesLast
    <3> QED
      BY <1>9, <3>1, <3>2, ServeSettles
  <2>4. ASSUME NEW n \in DOMAIN wire', wire'[n].kind # "copy"
        PROVE  /\ \A k \in DOMAIN wire' : wire'[k].id = wire'[n].id => k <= n
               /\ \A g \in handlers : Sendable(g) => g.id # wire'[n].id
    <3>1. \A k \in DOMAIN wire' : wire[k + 1].id = wire[n + 1].id => k + 1 <= n + 1
      BY <1>1, <2>2, <2>4 DEF FramesLast
    <3>2. \A k \in DOMAIN wire' : k + 1 <= n + 1 => k <= n
      BY <1>2, <2>2
    <3>3. \A g \in handlers : Sendable(g) => g.id # wire[n + 1].id
      BY <1>1, <2>2, <2>4 DEF FramesLast
    <3> QED
      BY <2>2, <3>1, <3>2, <3>3
  <2> QED
    BY <2>1, <2>3, <2>4 DEF FramesLast, Sendable
<1>10. CASE ChannelDies \/ Handshake \/ Resubscribe
  <2>1. wire' = <<>>
    BY <1>1, <1>10 DEF ChannelDies, Handshake, Resubscribe, FramesLast
  <2> QED
    BY <2>1 DEF FramesLast
<1>11. CASE MarkClosed \/ UNCHANGED vars
  BY <1>1, <1>11 DEF FramesLast, Sendable, MarkClosed, vars
<1>12. ASSUME NEW h \in handlers, Settle(h) \/ Abandon(h), ~SendCopy(h), ~SendFrame(h) PROVE FramesLast'
  <2>1. UNCHANGED <<wire, place, channel, up>>
    BY <1>12 DEF Settle, Decide, Refuse, Pass, Fail, Abandon
  <2>2. Ends(h) \/ \E new : Follows(h, new)
    BY <1>1, <1>12, DecideFollows, PassFollows DEF Settle, Refuse, Fail, Abandon
  <2> QED
    BY <1>5, <1>6, <2>1, <2>2
<1> QED
  BY <1>3, <1>4, <1>7, <1>8, <1>9, <1>10, <1>11, <1>12 DEF Next

\* A message kept for another leaves only behind one more of them, or decided.
LEMMA LaterStays ==
  ASSUME IInv, [Next]_vars, NEW i \in Ids, root[i] \in Roots, root[i] \notin decided, LaterKept(i)
  PROVE  LaterKept(i)'
<1>1. TypeOK
  BY DEF IInv
<1>2. PICK j \in Ids : j > i /\ root[j] = root[i] /\ place[j] # "gone"
  BY DEF LaterKept
<1>3. root[j] # NoRoot /\ i \in Nat /\ j \in Nat
  BY SettlementAssumption, <1>2 DEF Ids
<1>4. CASE Serve
  <2>1. root'[i] = root[i] /\ root'[j] = root[j] /\ place[j] # "none"
    BY <1>2, <1>3, <1>4, ServeSettles
  <2>2. CASE place'[j] # "gone"
    BY <1>2, <2>1, <2>2 DEF LaterKept
  <2>3. CASE place'[j] = "gone"
    <3>1. /\ wire[1].kind \notin {"copy", "requeue"} /\ wire[1].id = j
          /\ UNCHANGED root /\ \A k \in Ids \ {j} : place'[k] = place[k]
      BY <1>2, <1>4, <2>1, <2>3, ServeSettles
    <3>2. wire[1].kind \in {"ack", "drop"} /\ 1 \in DOMAIN wire
      BY <1>1, <1>4, <3>1, ServeTakes DEF Frame
    <3>3. LaterKept(j)
      BY <1>2, <3>1, <3>2 DEF IInv, Covered, CopyAhead
    <3>4. PICK k \in Ids : k > j /\ root[k] = root[j] /\ place[k] # "gone"
      BY <3>3 DEF LaterKept
    <3>5. k > i /\ k # j
      BY <1>2, <1>3, <3>4 DEF Ids
    <3> QED
      BY <1>2, <3>1, <3>4, <3>5 DEF LaterKept
  <2> QED
    BY <2>2, <2>3
<1>5. CASE ~Serve
  <2>1. UNCHANGED root /\ place'[j] # "gone"
    BY <1>1, <1>2, <1>5, PlaceSteps
  <2> QED
    BY <1>2, <2>1 DEF LaterKept
<1> QED
  BY <1>4, <1>5

\* Nothing is lost: what is kept stays kept, or its copy is.
LEMMA KeepsNeverLost == IInv /\ [Next]_vars => NeverLost'
<1> SUFFICES ASSUME IInv, [Next]_vars, NEW m \in Roots, m \notin decided' PROVE Kept(m)' # {}
  BY DEF NeverLost
<1>1. TypeOK /\ m \notin decided
  BY OnlyGrow DEF IInv
<1>2. PICK i \in Ids : root[i] = m /\ place[i] # "gone"
  BY <1>1 DEF IInv, NeverLost, Kept
<1>3. m # NoRoot
  BY SettlementAssumption
<1>4. root'[i] = m
  <2>1. CASE Serve
    BY <1>2, <1>3, <2>1, ServeSettles
  <2>2. CASE ~Serve
    BY <1>1, <1>2, <2>2, PlaceSteps
  <2> QED
    BY <2>1, <2>2
<1>5. CASE place'[i] # "gone"
  BY <1>4, <1>5 DEF Kept
<1>6. CASE place'[i] = "gone"
  <2>1. Serve
    BY <1>1, <1>2, <1>6, PlaceSteps
  <2>2. wire[1].kind \notin {"copy", "requeue"} /\ wire[1].id = i
    BY <1>2, <1>3, <1>6, <2>1, ServeSettles
  <2>3. wire[1].kind \in {"ack", "drop"} /\ 1 \in DOMAIN wire
    BY <1>1, <2>1, <2>2, ServeTakes DEF Frame
  <2>4. LaterKept(i)
    BY <1>1, <1>2, <2>2, <2>3 DEF IInv, Covered, CopyAhead
  <2>5. LaterKept(i)'
    BY <1>1, <1>2, <2>4, LaterStays
  <2> QED
    BY <1>4, <2>5 DEF LaterKept, Kept
<1> QED
  BY <1>5, <1>6

\* A copy on the way stays there until the server has it.
LEMMA CopyArrives ==
  ASSUME IInv, [Next]_vars, NEW i \in Ids, root[i] # NoRoot, CopyInWire(i), up'
  PROVE  CopyInWire(i)' \/ LaterKept(i)'
<1>1. TypeOK /\ FramesLast
  BY DEF IInv
<1>2. PICK n \in DOMAIN wire : wire[n].kind = "copy" /\ wire[n].id = i
  BY DEF CopyInWire
<1>3. DOMAIN wire = 1..Len(wire) /\ Len(wire) \in Nat
  BY <1>1 DEF TypeOK
<1>4. CASE Serve
  <2>1. /\ DOMAIN wire' = 1..(Len(wire) - 1)
        /\ \A k \in DOMAIN wire' : wire'[k] = wire[k + 1]
    BY <1>1, <1>4, ServeTakes
  <2>2. CASE n = 1
    <3>1. PICK j \in Ids :
            /\ \A k \in Ids : root[k] # NoRoot <=> k < j
            /\ root'[j] = root[i] /\ place'[j] = "waiting" /\ root'[i] = root[i]
      BY <1>2, <1>4, <2>2, ServeSettles
    <3>2. j > i
      BY <3>1 DEF Ids
    <3> QED
      BY <3>1, <3>2 DEF LaterKept
  <2>3. CASE n # 1
    <3>1. n - 1 \in DOMAIN wire' /\ wire'[n - 1] = wire[n]
      BY <1>3, <2>1, <2>3
    <3> QED
      BY <1>2, <3>1 DEF CopyInWire
  <2> QED
    BY <2>2, <2>3
<1>5. CASE UNCHANGED wire
  BY <1>2, <1>5 DEF CopyInWire
<1>6. ASSUME NEW h \in handlers, SendCopy(h) \/ SendFrame(h) PROVE CopyInWire(i)'
  <2>1. DOMAIN wire' = 1..(Len(wire) + 1) /\ \A k \in 1..Len(wire) : wire'[k] = wire[k]
    BY <1>1, <1>6, SendsLast
  <2> QED
    BY <1>2, <1>3, <2>1 DEF CopyInWire
<1>7. CASE ~Serve /\ wire' = <<>>
  <2>1. wire # <<>> /\ up
    BY <1>1, <1>2 DEF FramesLast
  <2>2. ASSUME NEW h \in handlers, SendCopy(h) \/ SendFrame(h) PROVE FALSE
    BY <1>1, <1>3, <1>7, <2>2, SendsLast
  <2>3. ~up'
    BY <1>7, <2>1, <2>2 DEF Next, Deliver, DelayOver, Settle, Decide, Refuse, Pass, Fail, Abandon,
                            ChannelDies, Resubscribe, MarkClosed, Handshake, vars
  <2> QED
    BY <2>3
<1> QED
  BY <1>4, <1>5, <1>6, <1>7, WireSteps

\* The channel changes when the service subscribes again, and opens only then.
LEMMA ChannelSteps ==
  ASSUME [Next]_vars, ~Resubscribe
  PROVE  (up' => up) /\ UNCHANGED channel
<1>1. ASSUME NEW h \in handlers, Settle(h) \/ Abandon(h) PROVE UNCHANGED <<up, channel>>
  BY <1>1 DEF Settle, Decide, Refuse, Pass, SendCopy, SendFrame, Fail, Abandon
<1>2. ASSUME NEW i \in Ids, Deliver(i) \/ DelayOver(i) PROVE UNCHANGED <<up, channel>>
  BY <1>2 DEF Deliver, DelayOver
<1>3. CASE Serve \/ MarkClosed \/ UNCHANGED vars
  BY <1>3 DEF Serve, MarkClosed, vars
<1>4. CASE ChannelDies \/ Handshake
  BY <1>4 DEF ChannelDies, Handshake
<1> QED
  BY <1>1, <1>2, <1>3, <1>4 DEF Next

\* What is acknowledged has a later copy.
LEMMA KeepsCovered == IInv /\ [Next]_vars => Covered'
<1> SUFFICES ASSUME IInv, [Next]_vars PROVE Covered'
  OBVIOUS
<1> USE SettlementAssumption
<1>1. TypeOK /\ HandlersFit /\ LiveHandlers /\ FramesLast /\ Covered /\ Numbered
  BY DEF IInv
<1>2. /\ \A h \in handlers : h \in Handler /\ h.id \in Ids /\ root[h.id] \in Roots /\ root[h.id] # NoRoot
      /\ DOMAIN wire = 1..Len(wire) /\ Len(wire) \in Nat
      /\ \A n \in DOMAIN wire :
           wire[n] \in Frame /\ wire[n].id \in Ids /\ root[wire[n].id] \in Roots /\ root[wire[n].id] # NoRoot
  <2>1. wire \in Seq(Frame) /\ handlers \subseteq Handler
    BY <1>1 DEF TypeOK
  <2>2. \A n \in DOMAIN wire : wire[n] \in Frame
    BY <2>1
  <2>3. \A f \in Frame : f.id \in Ids
    BY DEF Frame
  <2>4. \A n \in DOMAIN wire : root[wire[n].id] # NoRoot
    BY <1>1, <2>2, <2>3 DEF FramesLast, Numbered
  <2>5. \A i \in Ids : root[i] \in Roots \cup {NoRoot}
    BY <1>1 DEF TypeOK
  <2> QED
    BY <1>1, <2>1, <2>2, <2>3, <2>4, <2>5 DEF Handler, HandlersFit, Fits
<1>3. decided \subseteq decided' /\ \A i \in Ids : root[i] # NoRoot => root'[i] = root[i]
  <2>1. CASE Serve
    BY <1>1, <2>1, ServeSettles, OnlyGrow
  <2>2. CASE ~Serve
    BY <1>1, <2>2, PlaceSteps, OnlyGrow
  <2> QED
    BY <2>1, <2>2
<1>4. ASSUME NEW h \in handlers, h.copied, Sendable(h), root[h.id] \notin decided, up'
      PROVE  CopyInWire(h.id)' \/ LaterKept(h.id)'
  <2>1. CopyInWire(h.id) \/ LaterKept(h.id)
    BY <1>1, <1>4 DEF Covered
  <2> QED
    BY <1>2, <1>4, <2>1, CopyArrives, LaterStays
<1>5. ASSUME NEW h \in handlers', Sendable(h)', h.copied, root'[h.id] \notin decided'
      PROVE  CopyInWire(h.id)' \/ LaterKept(h.id)'
  <2>1. up'
    BY <1>5 DEF Sendable
  <2>2. CASE UNCHANGED handlers
    <3>1. root[h.id] \notin decided
      BY <1>2, <1>3, <1>5, <2>2
    <3>2. Sendable(h)
      <4>1. ~Resubscribe
        <5>1. h.chan \in Nat /\ h.chan <= channel /\ channel \in Nat
          BY <1>1, <1>2, <2>2 DEF HandlersFit, Fits, Handler, TypeOK
        <5> QED
          BY <1>5, <5>1 DEF Resubscribe, Sendable
      <4>2. (up' => up) /\ UNCHANGED channel
        BY <4>1, ChannelSteps
      <4> QED
        BY <1>5, <4>2 DEF Sendable
    <3> QED
      BY <1>4, <1>5, <2>1, <2>2, <3>1, <3>2
  <2>3. ASSUME NEW i \in Ids, Deliver(i) PROVE CopyInWire(h.id)' \/ LaterKept(h.id)'
    <3>1. h \in handlers /\ UNCHANGED <<channel, up>>
      BY <1>5, <2>3 DEF Deliver
    <3>2. Sendable(h) /\ root[h.id] \notin decided
      BY <1>2, <1>3, <1>5, <3>1 DEF Sendable
    <3> QED
      BY <1>4, <1>5, <2>1, <3>1, <3>2
  <2>4. ASSUME NEW g \in handlers, UNCHANGED <<root, place, channel, up>>, h \in handlers
        PROVE  CopyInWire(h.id)' \/ LaterKept(h.id)'
    <3>1. Sendable(h) /\ root[h.id] \notin decided
      BY <1>3, <1>5, <2>4 DEF Sendable
    <3> QED
      BY <1>4, <1>5, <2>1, <2>4, <3>1
  <2>5. ASSUME NEW g \in handlers, Decide(g) \/ Pass(g), h \notin handlers
        PROVE  CopyInWire(h.id)' \/ LaterKept(h.id)'
    <3>1. h.id = g.id /\ h.chan = g.chan /\ g.copied = h.copied
      <4>1. PICK new : Follows(g, new) /\ new.copied = g.copied
        <5>1. CASE Decide(g)
          BY <1>1, <5>1, DecideFollows
        <5>2. CASE Pass(g)
          BY <1>1, <5>2, PassFollows
        <5> QED
          BY <2>5, <5>1, <5>2
      <4> QED
        BY <1>5, <2>5, <4>1 DEF Follows, Becomes
    <3>2. UNCHANGED <<root, channel, up>>
      BY <2>5 DEF Decide, Pass
    <3>3. Sendable(g) /\ root[g.id] \notin decided
      BY <1>3, <1>5, <3>1, <3>2 DEF Sendable
    <3> QED
      BY <1>4, <1>5, <2>1, <3>1, <3>3
  <2>6. ASSUME NEW g \in handlers, SendCopy(g), h \notin handlers
        PROVE  CopyInWire(h.id)'
    <3>1. h.id = g.id
      BY <1>1, <1>5, <2>6, SendCopyFollows DEF Follows, Becomes
    <3>2. /\ DOMAIN wire' = 1..(Len(wire) + 1)
          /\ wire'[Len(wire) + 1].kind = "copy" /\ wire'[Len(wire) + 1].id = g.id
      BY <1>1, <1>2, <2>6, SendAppends DEF SendCopy
    <3>3. Len(wire) + 1 \in DOMAIN wire'
      BY <1>2, <3>2
    <3> QED
      BY <3>1, <3>2, <3>3 DEF CopyInWire
  <2>7. ASSUME NEW g \in handlers, Ends(g) PROVE h \in handlers
    BY <1>5, <2>7 DEF Ends
  <2> QED
    BY <1>1, <2>2, <2>3, <2>4, <2>5, <2>6, <2>7, HandlerSteps
<1>6. ASSUME NEW n \in DOMAIN wire', NEW i \in Ids, wire'[n].id = i, wire'[n].kind \in {"ack", "drop"},
             root'[i] \notin decided'
      PROVE  LaterKept(i)' \/ CopyAhead(n, i)'
  <2>1. ASSUME NEW p \in DOMAIN wire, wire[p] = wire'[n]
        PROVE  LaterKept(i)' \/ CopyAhead(p, i)
    <3>1. root[i] \in Roots /\ root[i] \notin decided
      BY <1>2, <1>3, <1>6, <2>1
    <3>2. LaterKept(i) \/ CopyAhead(p, i)
      BY <1>1, <1>6, <2>1, <3>1 DEF Covered
    <3> QED
      BY <3>1, <3>2, LaterStays
  <2>2. CASE Serve
    <3>1. /\ DOMAIN wire' = 1..(Len(wire) - 1) /\ Len(wire) \in Nat \ {0}
          /\ \A k \in DOMAIN wire' : wire'[k] = wire[k + 1] /\ k + 1 \in DOMAIN wire
      BY <1>1, <1>2, <2>2, ServeTakes
    <3>2. LaterKept(i)' \/ CopyAhead(n + 1, i)
      BY <2>1, <3>1
    <3>3. ASSUME NEW k \in 1..((n + 1) - 1), wire[k].kind = "copy", wire[k].id = i
          PROVE  LaterKept(i)' \/ CopyAhead(n, i)'
      <4>1. CASE k = 1
        <5>1. PICK j \in Ids :
                /\ \A l \in Ids : root[l] # NoRoot <=> l < j
                /\ root'[j] = root[i] /\ place'[j] = "waiting"
          BY <2>2, <3>3, <4>1, ServeSettles
        <5>2. root[i] # NoRoot /\ root'[i] = root[i]
          BY <2>2, <3>3, <4>1, ServeSettles
        <5>3. j > i
          BY <5>1, <5>2 DEF Ids
        <5> QED
          BY <5>1, <5>2, <5>3 DEF LaterKept
      <4>2. CASE k # 1
        <5>1. k - 1 \in 1..(n - 1) /\ k - 1 \in DOMAIN wire' /\ (k - 1) + 1 = k
          BY <3>1, <4>2
        <5>2. wire'[k - 1] = wire[k]
          BY <3>1, <5>1
        <5> QED
          BY <3>3, <5>1, <5>2 DEF CopyAhead
      <4> QED
        BY <4>1, <4>2
    <3> QED
      BY <3>2, <3>3 DEF CopyAhead
  <2>3. CASE UNCHANGED wire
    BY <2>1, <2>3 DEF CopyAhead
  <2>4. CASE wire' = <<>>
    BY <1>6, <2>4
  <2>5. ASSUME NEW h \in handlers, SendCopy(h) \/ SendFrame(h)
        PROVE  LaterKept(i)' \/ CopyAhead(n, i)'
    <3>2. /\ DOMAIN wire' = 1..(Len(wire) + 1)
          /\ \A k \in 1..Len(wire) : wire'[k] = wire[k]
          /\ wire'[Len(wire) + 1].id = h.id
          /\ \/ SendCopy(h) /\ wire'[Len(wire) + 1].kind = "copy"
             \/ SendFrame(h) /\ wire'[Len(wire) + 1].kind = FrameOf(h.verdict)
      BY <1>1, <2>5, SendsLast
    <3>3. CASE n \in 1..Len(wire)
      <4>1. LaterKept(i)' \/ CopyAhead(n, i)
        BY <1>2, <2>1, <3>2, <3>3
      <4>2. \A k \in 1..(n - 1) : k \in 1..Len(wire)
        BY <1>2, <3>3
      <4> QED
        BY <3>2, <4>1, <4>2 DEF CopyAhead
    <3>4. CASE n = Len(wire) + 1
      <4>1. SendFrame(h) /\ FrameOf(h.verdict) \in {"ack", "drop"} /\ h.id = i
        BY <1>6, <3>2, <3>4
      <4>2. /\ h.step = "sending" /\ Sendable(h)
            /\ UNCHANGED <<root, place, channel, up, decided>>
        BY <4>1 DEF SendFrame
      <4>3. root[i] \notin decided /\ root[i] \in Roots
        BY <1>2, <1>6, <4>1, <4>2
      <4>4. h.verdict = "retry"
        BY <1>1, <1>2, <4>1, <4>2, <4>3 DEF HandlersFit, Fits, FrameOf, Handler, Verdicts
      <4>5. h.copied
        BY <1>1, <4>2, <4>4 DEF HandlersFit, Fits
      <4>6. CopyInWire(i) \/ LaterKept(i)
        BY <1>1, <4>1, <4>2, <4>3, <4>5 DEF Covered
      <4>7. LaterKept(i) => LaterKept(i)'
        BY <4>3, LaterStays
      <4>8. CopyInWire(i) => CopyAhead(n, i)'
        BY <1>2, <3>2, <3>4 DEF CopyInWire, CopyAhead
      <4> QED
        BY <4>6, <4>7, <4>8
    <3> QED
      BY <1>2, <3>2, <3>3, <3>4
  <2> QED
    BY <2>2, <2>3, <2>4, <2>5, WireSteps
<1> QED
  BY <1>5, <1>6 DEF Covered

\* The calm does not come back, and in it every handler can send.
LEMMA CalmWas ==
  ASSUME IInv, [Next]_vars, Calm'
  PROVE  /\ Calm /\ ~ChannelDies /\ ~Resubscribe /\ ~MarkClosed /\ ~Handshake
         /\ \A h \in handlers : h \in Handler /\ h.id \in Ids /\ Sendable(h) /\ ~Refuse(h) /\ ~Fail(h)
<1>1. TypeOK /\ HandlersFit /\ channel \in Nat \ {0}
  BY SettlementAssumption DEF IInv, TypeOK
<1>2. ~Resubscribe /\ ~ChannelDies /\ ~MarkClosed /\ ~Handshake
  <2>1. ~Resubscribe
    BY <1>1 DEF Calm, Resubscribe
  <2>2. ~ChannelDies /\ ~MarkClosed /\ ~Handshake
    BY DEF Calm, ChannelDies, MarkClosed, Handshake
  <2> QED
    BY <2>1, <2>2
<1>3. up /\ channel = 1
  BY <1>2, ChannelSteps DEF Calm
<1>4. closed' = closed
  BY <1>2 DEF Next, Deliver, DelayOver, Settle, Decide, Refuse, Pass, SendCopy, SendFrame, Fail,
              Abandon, Serve, ChannelDies, Resubscribe, Handshake, vars
<1>5. Calm
  BY <1>3, <1>4 DEF Calm
<1>6. ASSUME NEW h \in handlers PROVE h \in Handler /\ h.id \in Ids /\ Sendable(h)
  <2>1. h \in Handler /\ h.chan \in 1..MaxChannels /\ h.id \in Ids /\ h.chan <= channel
    BY <1>1 DEF TypeOK, Handler, HandlersFit, Fits
  <2> QED
    BY <1>3, <2>1, SettlementAssumption DEF Sendable
<1> QED
  BY <1>2, <1>5, <1>6 DEF Calm, Refuse, Fail

\* What a step that sends nothing leaves.
LEMMA StaysCopied ==
  ASSUME NEW i \in Ids, Copied(i), UNCHANGED wire, Leaving(i) => Leaving(i)',
         place'[i] # "gone" => place[i] # "gone", LaterKept(i)' => LaterKept(i)
  PROVE  Copied(i)'
BY DEF Copied, OneCopy, CopyInWire

\* A delivery in hand that was not copied yet has no copy, and nothing of it leaves.
LEMMA NotLeaving ==
  ASSUME IInv, Calm, NEW h \in handlers, Sendable(h), ~h.copied, \A g \in handlers : Sendable(g)
  PROVE  ~Leaving(h.id)
<1>1. \A g \in handlers : g.id = h.id => g = h
  BY DEF IInv, LiveHandlers
<1>2. \A n \in DOMAIN wire : wire[n].kind = "ack" => wire[n].id # h.id
  BY DEF IInv, FramesLast
<1> QED
  BY <1>1, <1>2 DEF Leaving

\* The copy that leaves is the first of its message, and the handler goes on to
\* acknowledge.
LEMMA SendCopyKeeps ==
  ASSUME IInv, [Next]_vars, Calm', NEW h \in handlers, SendCopy(h), NEW i \in Ids,
         root[i] \in Roots \ dropped
  PROVE  Copied(i)'
<1>1. /\ Calm /\ h.id \in Ids /\ Sendable(h) /\ \A g \in handlers : Sendable(g)
      /\ TypeOK /\ Copied(i)
  BY CalmWas DEF IInv, CopiedOnce
<1>2. UNCHANGED <<root, place>> /\ h.step = "copying" /\ place[h.id] = "unacked"
  BY <1>1 DEF SendCopy, IInv, LiveHandlers
<1>3. ~h.copied
  BY <1>2 DEF IInv, HandlersFit, Fits
<1>4. PICK new : /\ Follows(h, new) /\ new.copied = TRUE
  BY <1>1, SendCopyFollows
<1>5. /\ Len(wire) \in Nat /\ DOMAIN wire = 1..Len(wire) /\ DOMAIN wire' = 1..(Len(wire) + 1)
      /\ \A n \in 1..Len(wire) : wire'[n] = wire[n]
      /\ wire'[Len(wire) + 1].id = h.id /\ wire'[Len(wire) + 1].kind = "copy"
  <2>1. ~SendFrame(h)
    BY <1>2 DEF SendFrame
  <2> QED
    BY <1>1, <2>1, SendsLast
<1>6. LaterKept(i)' <=> LaterKept(i)
  BY <1>2 DEF LaterKept
<1>7. \A n \in DOMAIN wire' : n \in DOMAIN wire \/ n = Len(wire) + 1
  BY <1>5
<1>8. CASE i = h.id
  <2>1. ~Leaving(i)
    BY <1>1, <1>3, <1>8, NotLeaving
  <2>2. ~CopyInWire(i) /\ ~LaterKept(i)
    BY <1>1, <1>2, <1>8, <2>1 DEF Copied
  <2>3. Leaving(i)'
    BY <1>4, <1>8 DEF Leaving, Follows, Becomes
  <2>4. OneCopy(i)'
    BY <1>5, <1>7, <2>2 DEF OneCopy, CopyInWire
  <2> QED
    BY <1>6, <2>2, <2>3, <2>4 DEF Copied
<1>9. CASE i # h.id
  <2>1. \A g \in handlers : g.id = i => g \in handlers'
    BY <1>4, <1>9 DEF Follows, Becomes
  <2>2. Leaving(i) => Leaving(i)'
    BY <1>5, <2>1 DEF Leaving
  <2>3. CopyInWire(i)' => CopyInWire(i)
    BY <1>5, <1>7, <1>9 DEF CopyInWire
  <2>4. OneCopy(i)'
    BY <1>1, <1>5, <1>7, <1>9 DEF Copied, OneCopy
  <2> QED
    BY <1>1, <1>2, <1>6, <2>2, <2>3, <2>4 DEF Copied
<1> QED
  BY <1>8, <1>9

\* A frame that settles is no copy, and the one of a copied delivery acknowledges it.
LEMMA SendFrameKeeps ==
  ASSUME IInv, [Next]_vars, Calm', NEW h \in handlers, SendFrame(h), NEW i \in Ids,
         root[i] \in Roots \ dropped
  PROVE  Copied(i)'
<1>1. Calm /\ h \in Handler /\ TypeOK /\ Copied(i) /\ HandlersFit
  BY CalmWas DEF IInv, CopiedOnce
<1>2. UNCHANGED <<root, place>> /\ h.step = "sending" /\ Ends(h)
  BY DEF SendFrame
<1>3. /\ Len(wire) \in Nat /\ DOMAIN wire = 1..Len(wire) /\ DOMAIN wire' = 1..(Len(wire) + 1)
      /\ \A n \in 1..Len(wire) : wire'[n] = wire[n]
      /\ wire'[Len(wire) + 1].id = h.id /\ wire'[Len(wire) + 1].kind = FrameOf(h.verdict)
  <2>1. ~SendCopy(h)
    BY <1>2 DEF SendCopy
  <2> QED
    BY <1>1, <2>1, SendsLast
<1>4. FrameOf(h.verdict) # "copy" /\ (h.copied => FrameOf(h.verdict) = "ack")
  BY <1>1 DEF FrameOf, Handler, Verdicts, HandlersFit, Fits
<1>5. \A n \in DOMAIN wire' : n \in DOMAIN wire \/ n = Len(wire) + 1
  BY <1>3
<1>6. Len(wire) + 1 \in DOMAIN wire'
  BY <1>3
<1>7. LaterKept(i)' <=> LaterKept(i)
  BY <1>2 DEF LaterKept
<1>8. Leaving(i) => Leaving(i)'
  BY <1>2, <1>3, <1>4, <1>6 DEF Leaving, Ends
<1>9. CopyInWire(i)' => CopyInWire(i)
  BY <1>3, <1>4, <1>5 DEF CopyInWire
<1>10. OneCopy(i)'
  BY <1>1, <1>3, <1>4, <1>5 DEF Copied, OneCopy
<1> QED
  BY <1>1, <1>2, <1>7, <1>8, <1>9, <1>10 DEF Copied

\* The server gives a copy the last number, and takes a message away only with the
\* frame that settles it.
LEMMA ServeKeeps ==
  ASSUME IInv, [Next]_vars, Calm', Serve, NEW i \in Ids, root'[i] \in Roots \ dropped
  PROVE  Copied(i)'
<1> USE SettlementAssumption
<1>1. Calm /\ TypeOK /\ FramesLast /\ Numbered
  BY CalmWas DEF IInv
<1>2. UNCHANGED <<handlers, dropped>>
  BY DEF Serve
<1>3. /\ wire[1] \in Frame /\ Len(wire) \in Nat \ {0} /\ 1 \in DOMAIN wire
      /\ DOMAIN wire = 1..Len(wire) /\ DOMAIN wire' = 1..(Len(wire) - 1)
      /\ \A n \in DOMAIN wire' : wire'[n] = wire[n + 1] /\ n + 1 \in DOMAIN wire /\ n \in Nat \ {0}
  BY <1>1, ServeTakes
<1>4. \A n \in DOMAIN wire : n = 1 \/ (n - 1 \in DOMAIN wire' /\ wire'[n - 1] = wire[n])
  BY <1>3
<1>5. CopyInWire(i)' => CopyInWire(i)
  BY <1>3 DEF CopyInWire
<1>6. OneCopy(i) => OneCopy(i)'
  <2> SUFFICES ASSUME OneCopy(i), NEW n \in DOMAIN wire', NEW k \in DOMAIN wire',
                      wire'[n].kind = "copy", wire'[k].kind = "copy", wire'[n].id = i, wire'[k].id = i
               PROVE  n = k
    BY DEF OneCopy
  <2>1. n + 1 = k + 1
    BY <1>3 DEF OneCopy
  <2> QED
    BY <1>3, <2>1
<1>7. CASE wire[1].kind = "copy"
  <2> DEFINE f == wire[1].id
  <2>1. PICK j \in Ids :
          /\ root[j] = NoRoot /\ place[j] = "none"
          /\ \A k \in Ids : root[k] # NoRoot <=> k < j
          /\ root'[j] = root[f] /\ place'[j] = "waiting"
          /\ \A k \in Ids \ {j} : root'[k] = root[k] /\ place'[k] = place[k]
    BY <1>7, ServeSettles
  <2>2. f \in Ids /\ root[f] # NoRoot /\ place[f] = "unacked" /\ CopyInWire(f)
    BY <1>3, <1>7, ServeSettles DEF CopyInWire
  <2> HIDE DEF f
  <2>3. CASE i = j
    <3>1. ~CopyInWire(i) /\ OneCopy(i)
      BY <1>1, <2>1, <2>3 DEF CopyInWire, OneCopy, FramesLast
    <3>2. ~LaterKept(i)'
      <4> SUFFICES ASSUME NEW k \in Ids, k > j, root'[k] = root'[j] PROVE FALSE
        BY <2>3 DEF LaterKept
      <4>1. k # j /\ ~(k < j)
        BY DEF Ids
      <4> QED
        BY <2>1, <2>2, <4>1
    <3> QED
      BY <1>5, <1>6, <3>1, <3>2 DEF Copied
  <2>4. CASE i # j
    <3>1. root[i] \in Roots \ dropped /\ Copied(i) /\ place'[i] = place[i]
      BY <1>1, <2>1, <2>4 DEF IInv, CopiedOnce
    <3>2. Leaving(i) => Leaving(i)'
      BY <1>2, <1>4, <1>7 DEF Leaving
    <3>3. ASSUME place[i] # "gone", LaterKept(i)', ~LaterKept(i)
          PROVE  Leaving(i) /\ ~CopyInWire(i)'
      <4>1. root[f] = root[i]
        <5>1. PICK k \in Ids : k > i /\ root'[k] = root'[i] /\ place'[k] # "gone"
          BY <3>3 DEF LaterKept
        <5>2. k = j
          BY <2>1, <2>4, <3>3, <5>1 DEF LaterKept
        <5> QED
          BY <2>1, <2>4, <5>1, <5>2
      <4>2. ~(i < f)
        BY <2>2, <3>3, <4>1 DEF LaterKept, Ids
      <4>3. ~(f < i)
        <5> SUFFICES ASSUME f < i PROVE FALSE
          OBVIOUS
        <5>1. LaterKept(f)
          BY <2>2, <3>3, <4>1 DEF LaterKept, Ids
        <5>2. Copied(f)
          BY <1>1, <2>2, <3>1, <4>1 DEF IInv, CopiedOnce
        <5> QED
          BY <2>2, <5>1, <5>2 DEF Copied
      <4>4. i = f
        BY <2>2, <4>2, <4>3 DEF Ids
      <4>5. ~CopyInWire(i)'
        <5> SUFFICES ASSUME NEW n \in DOMAIN wire', wire'[n].kind = "copy", wire'[n].id = i PROVE FALSE
          BY DEF CopyInWire
        <5>1. n + 1 \in DOMAIN wire /\ wire[n + 1].kind = "copy" /\ wire[n + 1].id = i /\ n + 1 # 1
          BY <1>3
        <5>2. wire[1].id = i
          BY <4>4 DEF f
        <5> QED
          BY <1>3, <1>7, <3>1, <5>1, <5>2 DEF Copied, OneCopy
      <4> QED
        BY <2>2, <3>1, <4>4, <4>5 DEF Copied
    <3> QED
      BY <1>5, <1>6, <3>1, <3>2, <3>3 DEF Copied
  <2> QED
    BY <2>3, <2>4
<1>8. CASE wire[1].kind # "copy"
  <2> DEFINE f == wire[1].id
  <2>1. /\ UNCHANGED root /\ f \in Ids /\ place[f] = "unacked"
        /\ place'[f] = IF wire[1].kind = "requeue" THEN "ready" ELSE "gone"
        /\ \A k \in Ids \ {f} : place'[k] = place[k]
    BY <1>8, ServeSettles
  <2>2. Copied(i)
    BY <1>1, <2>1 DEF IInv, CopiedOnce
  <2>3. place'[i] # "gone" => place[i] # "gone"
    BY <2>1
  <2>4. LaterKept(i)' => LaterKept(i)
    BY <2>1 DEF LaterKept
  <2>5. CASE wire[1].kind = "ack" /\ f = i
    <3>1. place'[i] = "gone"
      BY <2>1, <2>5
    <3>2. ~CopyInWire(i)'
      <4> SUFFICES ASSUME NEW n \in DOMAIN wire', wire'[n].id = i PROVE FALSE
        BY DEF CopyInWire
      <4>1. n + 1 \in DOMAIN wire /\ wire[n + 1].id = wire[1].id /\ ~(n + 1 <= 1)
        BY <1>3, <2>5
      <4> QED
        BY <1>1, <1>3, <1>8, <4>1 DEF FramesLast
    <3> QED
      BY <1>6, <2>2, <3>1, <3>2 DEF Copied
  <2>6. CASE ~(wire[1].kind = "ack" /\ f = i)
    <3>1. Leaving(i) => Leaving(i)'
      BY <1>2, <1>4, <2>6 DEF Leaving
    <3> QED
      BY <1>5, <1>6, <2>2, <2>3, <2>4, <3>1 DEF Copied
  <2> QED
    BY <2>5, <2>6
<1> QED
  BY <1>7, <1>8

\* In the calm a message stays copied once.
LEMMA KeepsCopiedOnce == IInv /\ [Next]_vars => CopiedOnce'
<1> SUFFICES ASSUME IInv, [Next]_vars, Calm', NEW i \in Ids, root'[i] \in Roots \ dropped'
             PROVE  Copied(i)'
  BY DEF CopiedOnce
<1>1. /\ TypeOK /\ Calm /\ ~ChannelDies /\ ~Resubscribe /\ ~MarkClosed /\ ~Handshake
      /\ \A h \in handlers : ~Refuse(h) /\ ~Fail(h)
  BY CalmWas DEF IInv
<1>2. root'[i] \in Roots \ dropped
  BY <1>1, OnlyGrow
<1>3. CASE Serve
  BY <1>2, <1>3, ServeKeeps
<1>4. CASE ~Serve
  <2>1. UNCHANGED root /\ \A j \in Ids : place'[j] # "gone" => place[j] # "gone"
    BY <1>1, <1>4, PlaceSteps
  <2>2. Copied(i) /\ (LaterKept(i)' => LaterKept(i))
    BY <1>1, <1>2, <2>1 DEF IInv, CopiedOnce, LaterKept
  <2>3. ASSUME NEW j \in Ids, Deliver(j) \/ DelayOver(j) PROVE Copied(i)'
    <3>1. UNCHANGED wire /\ handlers \subseteq handlers'
      BY <2>3 DEF Deliver, DelayOver
    <3>2. Leaving(i) => Leaving(i)'
      BY <3>1 DEF Leaving
    <3> QED
      BY <2>1, <2>2, <3>1, <3>2, StaysCopied
  <2>4. ASSUME NEW h \in handlers, Decide(h) \/ Pass(h) PROVE Copied(i)'
    <3>1. PICK new : Follows(h, new) /\ new.copied = h.copied
      <4>1. CASE Decide(h)
        BY <1>1, <4>1, DecideFollows
      <4>2. CASE Pass(h)
        BY <1>1, <4>2, PassFollows
      <4> QED
        BY <2>4, <4>1, <4>2
    <3>2. UNCHANGED wire
      BY <2>4 DEF Decide, Pass
    <3>3. Leaving(i) => Leaving(i)'
      BY <3>1, <3>2 DEF Leaving, Follows, Becomes
    <3> QED
      BY <2>1, <2>2, <3>2, <3>3, StaysCopied
  <2>5. ASSUME NEW h \in handlers, SendCopy(h) PROVE Copied(i)'
    BY <1>2, <2>1, <2>5, SendCopyKeeps
  <2>6. ASSUME NEW h \in handlers, SendFrame(h) PROVE Copied(i)'
    BY <1>2, <2>1, <2>6, SendFrameKeeps
  <2>7. ASSUME NEW h \in handlers, Abandon(h) PROVE Copied(i)'
    <3>1. UNCHANGED <<wire, root>> /\ Ends(h) /\ (h.copied => root[h.id] \in dropped')
      BY <2>7 DEF Abandon
    <3>2. h.copied => h.id # i
      BY <3>1
    <3>3. Leaving(i) => Leaving(i)'
      BY <3>1, <3>2 DEF Leaving, Ends
    <3> QED
      BY <2>1, <2>2, <3>1, <3>3, StaysCopied
  <2>8. CASE UNCHANGED vars
    <3>1. UNCHANGED wire /\ (Leaving(i) => Leaving(i)')
      BY <2>8 DEF vars, Leaving
    <3> QED
      BY <2>1, <2>2, <3>1, StaysCopied
  <2> QED
    BY <1>1, <1>4, <2>3, <2>4, <2>5, <2>6, <2>7, <2>8 DEF Next, Settle
<1> QED
  BY <1>3, <1>4

\* Every step keeps the invariant.
LEMMA NextIInv == IInv /\ [Next]_vars => IInv'
BY KeepsTypeOK, KeepsNumbered, KeepsHandlersFit, KeepsLiveHandlers, KeepsFramesLast, KeepsCovered,
   KeepsNeverLost, KeepsCopiedOnce DEF IInv
-----------------------------------------------------------------------------
\* The invariant always holds.
THEOREM Invariant == Spec => []IInv
BY InitIInv, NextIInv, PTL DEF Spec

\* Every variable keeps its type (message.rs, and the server as the code uses it).
THEOREM TypeCorrect == Spec => []TypeOK
<1>1. IInv => TypeOK
  BY DEF IInv
<1> QED
  BY <1>1, Invariant, PTL

\* message.rs, "Duplicate-not-loss": whatever a channel takes with it, whoever drops
\* a settlement and whenever the broker shuts down, the server has every message or
\* a copy of it until a handler acknowledges or drops one of them.
THEOREM NothingLost == Spec => []NeverLost
<1>1. IInv => NeverLost
  BY DEF IInv
<1> QED
  BY <1>1, Invariant, PTL

\* Every frame settles a delivery the server waits for, once, whatever channels came
\* before.
THEOREM SettlesUnacked == Spec => []FramesSettleUnacked
<1>1. IInv => FramesSettleUnacked
  <2> SUFFICES ASSUME IInv, NEW n \in DOMAIN wire
               PROVE  /\ place[wire[n].id] = "unacked"
                      /\ wire[n].kind # "copy" => \A k \in (n + 1)..Len(wire) : wire[k].id # wire[n].id
    BY DEF FramesSettleUnacked
  <2>1. FramesLast /\ DOMAIN wire = 1..Len(wire) /\ Len(wire) \in Nat
    BY DEF IInv, TypeOK
  <2>2. \A k \in (n + 1)..Len(wire) : k \in DOMAIN wire /\ ~(k <= n)
    BY <2>1
  <2> QED
    BY <2>1, <2>2 DEF FramesLast
<1> QED
  BY <1>1, Invariant, PTL

\* With no failure, no shutdown and no settlement dropped, the copy `nack_after` sends
\* replaces its original: one of the message is left.
THEOREM NoDuplicate == Spec => []NoDuplicateUnlessCut
<1>1. IInv => NoDuplicateUnlessCut
  <2> SUFFICES ASSUME IInv, NEW m \in Roots \ dropped, channel = 1, up, ~closed, ~Unfinished(m),
                      NEW i \in Kept(m), NEW j \in Kept(m), i < j
               PROVE  FALSE
    <3>1. \A l \in Ids : l \in Nat
      BY DEF Ids
    <3> QED
      BY <3>1 DEF NoDuplicateUnlessCut, Kept
  <2>1. i \in Ids /\ root[i] = m /\ place[i] # "gone" /\ LaterKept(i)
    BY SettlementAssumption DEF Kept, LaterKept, Ids
  <2>2. Leaving(i)
    BY <2>1 DEF IInv, CopiedOnce, Calm, Copied
  <2> QED
    BY <2>1, <2>2 DEF Leaving, Unfinished
<1> QED
  BY <1>1, Invariant, PTL
=============================================================================
