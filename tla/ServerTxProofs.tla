---------------------------- MODULE ServerTxProofs ----------------------------
(***************************************************************************)
(* Proofs about the server-transactional handle, for any messages, channels *)
(* and frames, used as it documents: publisher.rs, `ServerTxPublisher`,     *)
(* "Interleaving `publish` and `begin_transaction`/`commit` from concurrent *)
(* tasks is not supported".                                                 *)
(***************************************************************************)
EXTENDS ServerTx, SequenceTheorems, TLAPS

\* The handle's documented use: no two tasks share it.
UsedAlone == \A s, t \in Tasks : s = t

OverAmqp == {"idle", "channel", "getting", "ready", "awaiting", "answered"}
InProcess == {"idle", "looked", "staging", "taken", "flushing", "cleared"}

\* How far an operation is, and what it is.
CallFits(t) ==
  /\ link = "amqp" => pc[t] \in OverAmqp
  /\ link = "in_process" => pc[t] \in InProcess
  /\ pc[t] = "idle" <=> op[t] = "none"
  /\ pc[t] \in {"getting", "looked"} => op[t] = "begin"
  /\ pc[t] \in {"awaiting", "answered"} => op[t] \in Settling
  /\ pc[t] \in {"taken", "flushing"} => op[t] = "commit"
  /\ pc[t] = "cleared" => op[t] = "rollback"
  /\ pc[t] = "staging" => op[t] = "publish"
  /\ op[t] = "begin" \/ pc[t] = "flushing" => ~open
  /\ op[t] = "publish" \/ (op[t] \in Settling /\ pc[t] # "flushing") => open
  /\ pc[t] \in {"ready", "awaiting", "answered"} => chan[t] = held
  /\ op[t] # "publish" => msg[t] = {}
  /\ \A m, n \in msg[t] : m = n
Calls == \A t \in Tasks : CallFits(t)

\* Only the channel in the cell, while it is up, carries anything; and only the
\* last frame on it is waited for.
OneChannel ==
  \A c \in Channels :
    /\ state[c] # "up" \/ c # held => wire[c] = <<>> /\ staged[c] = {}
    /\ \A n \in DOMAIN wire[c] :
         /\ wire[c][n].kind \in Settling => wire[c][n].msgs = {}
         /\ \A t \in Tasks : wire[c][n].by = t =>
              n = Len(wire[c]) /\ pc[t] = "awaiting" /\ wire[c][n].kind = op[t]

Carries(c) == wire[c] # <<>> \/ staged[c] # {}

\* What belongs to one transport, or to one part of a transaction, is gone without it.
NothingLeft ==
  /\ link = "amqp" => kept = <<>>
  /\ link = "in_process" => held = NoChannel /\ \A m \in Messages : cut[m] = "none"
  /\ ~open => kept = <<>> /\ \A c \in Channels : ~Carries(c)
  /\ ~open /\ (\A t \in Tasks : pc[t] # "flushing") => accepted = {}
  /\ \A t \in Tasks :
       /\ pc[t] = "answered" => \A c \in Channels : ~Carries(c)
       /\ pc[t] \in {"taken", "cleared"} => kept = <<>>
       /\ pc[t] \notin {"taken", "flushing"} => batch[t] = <<>>

\* The message can still become visible.
Pending(m) ==
  \/ m \in ToSet(kept)
  \/ \E t \in Tasks : m \in ToSet(batch[t])
  \/ \E c \in Channels : m \in staged[c] \/ \E n \in DOMAIN wire[c] : m \in wire[c][n].msgs

\* A message about to leave was never seen before.
HandsAreFresh ==
  \A t \in Tasks : \A m \in msg[t] :
    m \notin visible \cup accepted \cup promised \cup discarded /\ cut[m] = "none" /\ ~Pending(m)

\* A message whose transaction returned Ok is settled for good.
ToldIsOver == \A m \in promised \cup discarded : m \notin accepted /\ ~Pending(m)

\* A settlement nobody waits for is on the way at frame n of channel c.
CutAt(c, n) == wire[c][n].kind \in Settling /\ wire[c][n].by \notin Tasks

\* What the open transaction of a channel accepted is there, behind every commit or
\* rollback that was cut, and becomes visible with its own commit only.
Carried(m) ==
  /\ \A t \in Tasks :
       /\ pc[t] = "answered" /\ op[t] = "commit" => m \in visible
       /\ m \in visible =>
            \/ pc[t] = "answered" /\ op[t] = "commit"
            \/ pc[t] \notin {"awaiting", "answered"} /\ ~Usable(held)
  /\ \A c \in Channels :
       /\ c = held /\ state[c] = "up" /\ (\A t \in Tasks : pc[t] # "answered") =>
            m \in staged[c] \/ \E n \in DOMAIN wire[c] : m \in wire[c][n].msgs
       /\ m \in staged[c] => \A n \in DOMAIN wire[c] : ~CutAt(c, n)
       /\ \A n, k \in DOMAIN wire[c] : m \in wire[c][n].msgs /\ CutAt(c, k) => k < n
Uncut == {m \in accepted : cut[m] = "none"}
CarriedBehindCuts == link = "amqp" => \A m \in Uncut : Carried(m)

\* The settlement a task awaits is the last frame of its channel, while that is up.
LastAwaited ==
  \A t \in Tasks : \A c \in Channels :
    c = held /\ state[c] = "up" /\ pc[t] = "awaiting" =>
      wire[c] # <<>> /\ wire[c][Len(wire[c])].by = t

\* The next settlement behind frame n of channel c is of this kind.
SettledNext(c, n, what) ==
  \E k \in DOMAIN wire[c] :
    /\ n < k /\ wire[c][k].kind = what
    /\ \A i \in DOMAIN wire[c] : n < i /\ i < k => wire[c][i].kind = "publish"

\* The first settlement that was cut decides on what was accepted before it: it is the
\* next one the server takes, or it has been taken, or the channel died.
Decided(m) ==
  /\ m \in visible => cut[m] = "commit"
  /\ \A t \in Tasks : pc[t] = "answered" /\ cut[m] = "commit" => m \in visible
  /\ \A c \in Channels :
       /\ c = held /\ state[c] = "up" /\ cut[m] = "commit" /\ m \notin visible =>
            m \in staged[c] \/ \E n \in DOMAIN wire[c] : m \in wire[c][n].msgs
       /\ m \in staged[c] => SettledNext(c, 0, cut[m])
       /\ \A n \in DOMAIN wire[c] : m \in wire[c][n].msgs => SettledNext(c, n, cut[m])
CutsDecide == link = "amqp" => \A m \in accepted : cut[m] # "none" => Decided(m)

\* What the open transaction in-process accepted is staged, then in the batch, then
\* published in order.
StagedThenFlushed ==
  link = "in_process" =>
    /\ open => accepted \cap visible = {}
    /\ \A t \in Tasks :
         /\ open /\ pc[t] \in {"idle", "staging"} => accepted = ToSet(kept)
         /\ pc[t] = "taken" => accepted = ToSet(batch[t])
         /\ pc[t] = "flushing" =>
              /\ accepted \subseteq visible \cup ToSet(batch[t])
              /\ ToSet(batch[t]) \cap Oversized = {}

\* The inductive invariant.
IInv ==
  /\ UsedAlone
  /\ TypeOK
  /\ Calls
  /\ OneChannel
  /\ NothingLeft
  /\ HandsAreFresh
  /\ ToldIsOver
  /\ CarriedBehindCuts
  /\ LastAwaited
  /\ CutsDecide
  /\ StagedThenFlushed
  /\ OkIsTrue
-----------------------------------------------------------------------------
\* The invariant holds of a handle nobody used yet.
LEMMA InitIInv == Init /\ UsedAlone => IInv
<1> SUFFICES ASSUME Init, UsedAlone PROVE IInv
  OBVIOUS
<1> USE ServerTxAssumption DEF Init
<1>1. TypeOK
  <2>1. <<>> \in Seq(Messages) /\ <<>> \in Seq(Frame)
    OBVIOUS
  <2> QED
    BY <2>1 DEF TypeOK, NoChannel, Settling
<1>2. Calls /\ OneChannel
  BY DEF Calls, CallFits, OneChannel, OverAmqp, InProcess, Settling
<1>3. NothingLeft
  BY DEF NothingLeft, Carries
<1>4. HandsAreFresh /\ ToldIsOver /\ CarriedBehindCuts /\ LastAwaited /\ CutsDecide /\ OkIsTrue
  BY DEF HandsAreFresh, ToldIsOver, CarriedBehindCuts, Uncut, LastAwaited, CutsDecide,
         OkIsTrue, CommitTruth, AbortTruth
<1>5. StagedThenFlushed
  BY DEF StagedThenFlushed, ToSet
<1> QED
  BY <1>1, <1>2, <1>3, <1>4, <1>5 DEF IInv
-----------------------------------------------------------------------------
(* What the steps do to the variables they share.                           *)

LEMMA Entered ==
  ASSUME TypeOK, NEW t \in Tasks, NEW what, NEW where, Enter(t, what, where)
  PROVE  /\ op'[t] = what /\ pc'[t] = where
         /\ \A u \in Tasks \ {t} : op'[u] = op[u] /\ pc'[u] = pc[u]
         /\ what \in {"none", "begin", "publish", "commit", "rollback"} =>
              op' \in [Tasks -> {"none", "begin", "publish"} \cup Settling]
         /\ where \in {"idle", "channel", "getting", "ready", "awaiting", "answered",
                       "looked", "staging", "taken", "flushing", "cleared"} =>
              pc' \in [Tasks -> {"idle", "channel", "getting", "ready", "awaiting", "answered",
                                 "looked", "staging", "taken", "flushing", "cleared"}]
BY DEF Enter, TypeOK, Settling

LEMMA Left ==
  ASSUME TypeOK, NEW t \in Tasks, Leave(t)
  PROVE  /\ op'[t] = "none" /\ pc'[t] = "idle" /\ chan'[t] = NoChannel /\ msg'[t] = {}
         /\ \A u \in Tasks \ {t} :
              op'[u] = op[u] /\ pc'[u] = pc[u] /\ chan'[u] = chan[u] /\ msg'[u] = msg[u]
         /\ op' \in [Tasks -> {"none", "begin", "publish"} \cup Settling]
         /\ pc' \in [Tasks -> {"idle", "channel", "getting", "ready", "awaiting", "answered",
                               "looked", "staging", "taken", "flushing", "cleared"}]
         /\ chan' \in [Tasks -> Channels \cup {NoChannel}]
         /\ msg' \in [Tasks -> SUBSET Messages]
<1>1. Enter(t, "none", "idle")
  BY DEF Leave
<1>2. /\ chan' = [chan EXCEPT ![t] = NoChannel] /\ msg' = [msg EXCEPT ![t] = {}]
      /\ chan \in [Tasks -> Channels \cup {NoChannel}] /\ msg \in [Tasks -> SUBSET Messages]
  BY DEF Leave, TypeOK
<1> QED
  BY <1>1, <1>2, Entered

\* A frame that is sent is the last of its channel, or goes nowhere.
LEMMA SentLast ==
  ASSUME TypeOK, NEW c \in Channels, NEW kind \in {"publish"} \cup Settling,
         NEW msgs \in SUBSET Messages, NEW by \in Tasks \cup {NoTask}, Sent(c, kind, msgs, by)
  PROVE  /\ wire' \in [Channels -> Seq(Frame)]
         /\ \A d \in Channels \ {c} : wire'[d] = wire[d]
         /\ state[c] # "up" => wire'[c] = wire[c]
         /\ state[c] = "up" =>
              /\ Len(wire[c]) \in Nat /\ Len(wire'[c]) = Len(wire[c]) + 1
              /\ DOMAIN wire[c] = 1..Len(wire[c]) /\ DOMAIN wire'[c] = 1..(Len(wire[c]) + 1)
              /\ \A n \in 1..Len(wire[c]) : wire'[c][n] = wire[c][n]
              /\ wire'[c][Len(wire[c]) + 1].kind = kind
              /\ wire'[c][Len(wire[c]) + 1].msgs = msgs
              /\ wire'[c][Len(wire[c]) + 1].by = by
<1> DEFINE f == [kind |-> kind, msgs |-> msgs, by |-> by]
<1>1. f \in Frame /\ f.kind = kind /\ f.msgs = msgs /\ f.by = by
  BY DEF Frame
<1>2. wire \in [Channels -> Seq(Frame)] /\ wire[c] \in Seq(Frame)
  BY DEF TypeOK
<1>3. wire' = IF state[c] = "up" THEN [wire EXCEPT ![c] = Append(wire[c], f)] ELSE wire
  BY DEF Sent
<1> HIDE DEF f
<1>4. CASE state[c] # "up"
  BY <1>2, <1>3, <1>4
<1>5. CASE state[c] = "up"
  <2>1. /\ Append(wire[c], f) \in Seq(Frame) /\ Len(Append(wire[c], f)) = Len(wire[c]) + 1
        /\ Len(wire[c]) \in Nat /\ DOMAIN wire[c] = 1..Len(wire[c])
        /\ DOMAIN Append(wire[c], f) = 1..(Len(wire[c]) + 1)
        /\ \A n \in 1..Len(wire[c]) : Append(wire[c], f)[n] = wire[c][n]
        /\ Append(wire[c], f)[Len(wire[c]) + 1] = f
    BY <1>1, <1>2
  <2>2. wire'[c] = Append(wire[c], f) /\ \A d \in Channels \ {c} : wire'[d] = wire[d]
    BY <1>2, <1>3, <1>5
  <2>3. wire' \in [Channels -> Seq(Frame)]
    BY <1>2, <1>3, <1>5, <2>1
  <2> QED
    BY <1>1, <1>5, <2>1, <2>2, <2>3
<1> QED
  BY <1>4, <1>5

\* A frame nobody waits for any longer is the same frame.
LEMMA UnwaitedSame ==
  ASSUME TypeOK, NEW t \in Tasks
  PROVE  /\ Unwaited(t) \in [Channels -> Seq(Frame)]
         /\ \A c \in Channels :
              /\ Len(Unwaited(t)[c]) = Len(wire[c]) /\ DOMAIN Unwaited(t)[c] = DOMAIN wire[c]
              /\ \A n \in DOMAIN wire[c] :
                   /\ Unwaited(t)[c][n].kind = wire[c][n].kind
                   /\ Unwaited(t)[c][n].msgs = wire[c][n].msgs
                   /\ Unwaited(t)[c][n].by = IF wire[c][n].by = t THEN NoTask ELSE wire[c][n].by
<1> DEFINE W(c, n) == [wire[c][n] EXCEPT !.by = IF wire[c][n].by = t THEN NoTask ELSE wire[c][n].by]
<1>1. ASSUME NEW c \in Channels PROVE wire[c] \in Seq(Frame)
  BY DEF TypeOK
<1>2. ASSUME NEW c \in Channels, NEW n \in DOMAIN wire[c]
      PROVE  /\ W(c, n) \in Frame /\ W(c, n).kind = wire[c][n].kind /\ W(c, n).msgs = wire[c][n].msgs
             /\ W(c, n).by = IF wire[c][n].by = t THEN NoTask ELSE wire[c][n].by
  <2>1. wire[c][n] \in Frame
    BY <1>1
  <2> QED
    BY <2>1 DEF Frame
<1>3. \A c \in Channels : Unwaited(t)[c] = [n \in DOMAIN wire[c] |-> W(c, n)]
  BY DEF Unwaited
<1>4. Unwaited(t) = [c \in Channels |-> Unwaited(t)[c]]
  BY DEF Unwaited
<1> HIDE DEF W
<1>5. ASSUME NEW c \in Channels
      PROVE  /\ Unwaited(t)[c] \in Seq(Frame) /\ Len(Unwaited(t)[c]) = Len(wire[c])
             /\ DOMAIN Unwaited(t)[c] = DOMAIN wire[c]
             /\ \A n \in DOMAIN wire[c] : Unwaited(t)[c][n] = W(c, n)
  <2>1. DOMAIN wire[c] = 1..Len(wire[c]) /\ Len(wire[c]) \in Nat
    BY <1>1
  <2>2. Unwaited(t)[c] \in [1..Len(wire[c]) -> Frame]
    <3>1. \A n \in 1..Len(wire[c]) : W(c, n) \in Frame
      BY <1>2, <2>1
    <3>2. Unwaited(t)[c] = [n \in 1..Len(wire[c]) |-> W(c, n)]
      BY <1>3, <2>1
    <3> QED
      BY <3>1, <3>2
  <2>3. Unwaited(t)[c] \in Seq(Frame)
    BY <2>1, <2>2, SeqDef
  <2>4. DOMAIN Unwaited(t)[c] = 1..Len(Unwaited(t)[c]) /\ Len(Unwaited(t)[c]) \in Nat
    BY <2>3
  <2>5. Len(Unwaited(t)[c]) = Len(wire[c])
    BY <2>1, <2>2, <2>3
  <2> QED
    BY <1>3, <2>1, <2>2, <2>3, <2>5
<1>6. Unwaited(t) \in [Channels -> Seq(Frame)]
  BY <1>4, <1>5
<1> QED
  BY <1>2, <1>5, <1>6

\* The server takes the first frame of a channel, and the others move up.
LEMMA Served ==
  ASSUME TypeOK, NEW c \in Channels, Serve(c)
  PROVE  /\ Len(wire[c]) \in Nat \ {0} /\ DOMAIN wire[c] = 1..Len(wire[c]) /\ wire[c][1] \in Frame
         /\ 1 \in DOMAIN wire[c] /\ wire' \in [Channels -> Seq(Frame)]
         /\ \A d \in Channels \ {c} : wire'[d] = wire[d] /\ staged'[d] = staged[d]
         /\ Len(wire'[c]) = Len(wire[c]) - 1 /\ DOMAIN wire'[c] = 1..(Len(wire[c]) - 1)
         /\ \A n \in DOMAIN wire'[c] : wire'[c][n] = wire[c][n + 1]
         /\ staged' \in [Channels -> SUBSET Messages]
         /\ staged'[c] = IF wire[c][1].kind = "publish" THEN staged[c] \cup wire[c][1].msgs ELSE {}
         /\ visible' = IF wire[c][1].kind = "commit" THEN visible \cup staged[c] ELSE visible
         /\ pc' = [t \in Tasks |-> IF wire[c][1].by = t THEN "answered" ELSE pc[t]]
<1> DEFINE w == wire[c]
           f == w[1]
<1>1. wire \in [Channels -> Seq(Frame)] /\ w \in Seq(Frame) /\ w # <<>>
  BY DEF TypeOK, Serve
<1>2. Head(w) = f /\ f \in Frame
  BY <1>1
<1>3. /\ wire' = [wire EXCEPT ![c] = Tail(w)]
      /\ staged' = [staged EXCEPT ![c] = IF f.kind = "publish" THEN staged[c] \cup f.msgs ELSE {}]
      /\ visible' = IF f.kind = "commit" THEN visible \cup staged[c] ELSE visible
      /\ pc' = [t \in Tasks |-> IF f.by = t THEN "answered" ELSE pc[t]]
  BY <1>2 DEF Serve
<1> HIDE DEF f, w
<1>4. /\ Tail(w) \in Seq(Frame) /\ Len(Tail(w)) = Len(w) - 1 /\ Len(w) \in Nat \ {0}
      /\ DOMAIN w = 1..Len(w) /\ DOMAIN Tail(w) = 1..(Len(w) - 1)
      /\ \A n \in 1..(Len(w) - 1) : Tail(w)[n] = w[n + 1]
  BY <1>1
<1>5. wire'[c] = Tail(w) /\ wire' \in [Channels -> Seq(Frame)] /\ \A d \in Channels \ {c} : wire'[d] = wire[d]
  BY <1>1, <1>3, <1>4
<1>6. f.msgs \subseteq Messages /\ staged \in [Channels -> SUBSET Messages]
  BY <1>2 DEF Frame, TypeOK
<1>7. /\ staged' \in [Channels -> SUBSET Messages]
      /\ staged'[c] = IF f.kind = "publish" THEN staged[c] \cup f.msgs ELSE {}
      /\ \A d \in Channels \ {c} : staged'[d] = staged[d]
  BY <1>3, <1>6
<1> QED
  BY <1>2, <1>3, <1>4, <1>5, <1>7 DEF f, w
-----------------------------------------------------------------------------
(* Each step keeps each part of the invariant.                              *)

\* An operation of one transport has no steps of the other.
LEMMA WhichTransport ==
  ASSUME IInv, NEW t \in Tasks
  PROVE  /\ Operate(t) => link = "amqp"
         /\ OperateHere(t) => link = "in_process"
<1>1. /\ link \in {"amqp", "in_process"}
      /\ link = "amqp" => pc[t] \in OverAmqp
      /\ link = "in_process" => pc[t] \in InProcess
      /\ pc[t] = "idle" <=> op[t] = "none"
  BY DEF IInv, TypeOK, Calls, CallFits
<1>2. ASSUME Operate(t) PROVE link = "amqp"
  <2>1. link = "amqp" \/ pc[t] \in {"channel", "getting", "ready", "awaiting", "answered"}
    BY <1>2 DEF Operate, CallBegin, CallPublish, PublishPlainly, CallSettle, TxChannel, Get, SetOpen,
                SendPublish, SendSettle, SettleFails, SettleReturns, DropFuture
  <2> QED
    BY <1>1, <2>1 DEF InProcess
<1>3. ASSUME OperateHere(t) PROVE link = "in_process"
  <2>1. link = "in_process" \/ pc[t] \in {"looked", "staging", "taken", "flushing", "cleared"}
    BY <1>3 DEF OperateHere, BeginHere, SetOpenHere, PublishHere, Stage, PublishPlainlyHere, TakeStaged,
                CloseHere, AbortedHere, FlushHere, FlushRefused, FlushedHere, Here
  <2> QED
    BY <1>1, <2>1 DEF OverAmqp
<1> QED
  BY <1>2, <1>3

\* Every variable keeps its type.
LEMMA KeepsTypeOK == IInv /\ [Next]_vars => TypeOK'
<1> SUFFICES ASSUME IInv, [Next]_vars PROVE TypeOK'
  OBVIOUS
<1> USE ServerTxAssumption
<1>1. TypeOK /\ Calls /\ NothingLeft
  BY DEF IInv
<1>2. NoChannel \notin Channels
  BY DEF NoChannel, Channels
<1>3. ASSUME NEW t \in Tasks, CallBegin(t) \/ CallPublish(t) \/ PublishPlainly(t) \/ CallSettle(t)
      PROVE  TypeOK'
  <2>1. CASE CallBegin(t)
    BY <1>1, <2>1, Entered DEF CallBegin, TypeOK, serverVars, hereVars, claims
  <2>2. CASE CallPublish(t)
    <3>1. \E m \in Fresh : msg' = [msg EXCEPT ![t] = {m}]
      BY <2>2 DEF CallPublish
    <3>2. msg' \in [Tasks -> SUBSET Messages]
      BY <1>1, <3>1 DEF Fresh, TypeOK
    <3> QED
      BY <1>1, <2>2, <3>2, Entered DEF CallPublish, TypeOK, serverVars, hereVars, claims
  <2>3. CASE PublishPlainly(t)
    <3>1. visible' \subseteq Messages
      BY <1>1, <2>3 DEF PublishPlainly, Fresh, TypeOK
    <3> QED
      BY <1>1, <2>3, <3>1 DEF PublishPlainly, TypeOK, taskVars, hereVars, claims
  <2>4. CASE CallSettle(t)
    <3>1. PICK what \in Settling : Enter(t, what, "channel")
      BY <2>4 DEF CallSettle
    <3>2. what \in {"none", "begin", "publish", "commit", "rollback"}
      BY DEF Settling
    <3>3. op' \in [Tasks -> {"none", "begin", "publish"} \cup Settling]
          /\ pc' \in [Tasks -> {"idle", "channel", "getting", "ready", "awaiting", "answered",
                                "looked", "staging", "taken", "flushing", "cleared"}]
          /\ pc'[t] = "channel" /\ \A u \in Tasks \ {t} : pc'[u] = pc[u]
      BY <1>1, <3>1, <3>2, Entered
    <3> QED
      BY <1>1, <2>4, <3>3 DEF CallSettle, TypeOK, serverVars, hereVars, claims
  <2> QED
    BY <1>3, <2>1, <2>2, <2>3, <2>4
<1>4. ASSUME NEW t \in Tasks, TxChannel(t) PROVE TypeOK'
  <2>1. link = "amqp"
    BY <1>4, WhichTransport DEF Operate
  <2>2. /\ pc' \in [Tasks -> {"idle", "channel", "getting", "ready", "awaiting", "answered",
                              "looked", "staging", "taken", "flushing", "cleared"}]
        /\ chan' \in [Tasks -> Channels \cup {NoChannel}]
    <3>1. /\ pc' = [pc EXCEPT ![t] = "ready"] \/ pc' = [pc EXCEPT ![t] = "getting"]
          /\ chan' = [chan EXCEPT ![t] = held] \/ chan' = chan
      BY <1>4 DEF TxChannel
    <3>2. pc \in [Tasks -> {"idle", "channel", "getting", "ready", "awaiting", "answered",
                            "looked", "staging", "taken", "flushing", "cleared"}]
      BY <1>1 DEF TypeOK
    <3>3. chan \in [Tasks -> Channels \cup {NoChannel}] /\ held \in Channels \cup {NoChannel}
      BY <1>1 DEF TypeOK
    <3>4. pc' \in [Tasks -> {"idle", "channel", "getting", "ready", "awaiting", "answered",
                             "looked", "staging", "taken", "flushing", "cleared"}]
      BY <3>1, <3>2
    <3>5. chan' \in [Tasks -> Channels \cup {NoChannel}]
      BY <3>1, <3>3
    <3> QED
      BY <3>4, <3>5
  <2>3. ASSUME NEW u \in Tasks, pc'[u] \in {"ready", "awaiting", "answered"} PROVE chan'[u] # NoChannel
    BY <1>1, <1>4, <2>1, <2>3 DEF TxChannel, TypeOK
  <2> QED
    BY <1>1, <1>4, <2>2, <2>3 DEF TxChannel, TypeOK, serverVars, hereVars, claims
<1>5. ASSUME NEW t \in Tasks, Get(t) PROVE TypeOK'
  <2>1. UNCHANGED <<link, kept, batch, open, wire, staged, visible, closed, accepted, cut, promised, discarded>>
    BY <1>5 DEF Get, hereVars, claims
  <2>2. CASE /\ Usable(held)
             /\ pc' = [pc EXCEPT ![t] = "ready"]
             /\ chan' = [chan EXCEPT ![t] = held]
             /\ UNCHANGED <<held, state, op, msg>>
    BY <1>1, <2>1, <2>2 DEF TypeOK, Usable
  <2>3. CASE \E c \in Channels :
               /\ state' = [state EXCEPT ![c] = "up"] /\ held' = c
               /\ chan' = [chan EXCEPT ![t] = c] /\ pc' = [pc EXCEPT ![t] = "ready"]
               /\ UNCHANGED <<op, msg>>
    <3>1. PICK c \in Channels :
            /\ state' = [state EXCEPT ![c] = "up"] /\ held' = c
            /\ chan' = [chan EXCEPT ![t] = c] /\ pc' = [pc EXCEPT ![t] = "ready"]
            /\ UNCHANGED <<op, msg>>
      BY <2>3
    <3> QED
      BY <1>1, <1>2, <2>1, <3>1 DEF TypeOK
  <2>4. CASE Leave(t) /\ UNCHANGED <<held, state>>
    BY <1>1, <2>1, <2>4, Left DEF TypeOK
  <2> QED
    BY <1>5, <2>2, <2>3, <2>4 DEF Get
<1>6. ASSUME NEW t \in Tasks, SetOpen(t) PROVE TypeOK'
  <2>1. held # NoChannel
    BY <1>1, <1>6 DEF SetOpen, Calls, CallFits, TypeOK
  <2> QED
    BY <1>1, <1>6, <2>1, Left DEF SetOpen, TypeOK, serverVars, hereVars, claims
<1>7. ASSUME NEW t \in Tasks, pc[t] \in {"ready", "awaiting", "answered"}
      PROVE  chan[t] \in Channels
  BY <1>1, <1>7 DEF TypeOK
<1>8. ASSUME NEW t \in Tasks, SendPublish(t) PROVE TypeOK'
  <2>1. chan[t] \in Channels /\ msg[t] \in SUBSET Messages
    BY <1>1, <1>7, <1>8 DEF SendPublish, TypeOK
  <2>2. wire' \in [Channels -> Seq(Frame)] /\ accepted' \subseteq Messages
    BY <1>1, <1>8, <2>1, SentLast DEF SendPublish, TypeOK
  <2> QED
    BY <1>1, <1>8, <2>2, Left DEF SendPublish, TypeOK, hereVars
<1>9. ASSUME NEW t \in Tasks, SendSettle(t) PROVE TypeOK'
  <2>1. wire' \in [Channels -> Seq(Frame)]
    BY <1>1, <1>7, <1>9, SentLast DEF SendSettle, TypeOK
  <2> QED
    BY <1>1, <1>9, <2>1 DEF SendSettle, TypeOK, hereVars, claims
<1>10. ASSUME NEW t \in Tasks, SettleFails(t) \/ SettleReturns(t) PROVE TypeOK'
  <2>1. Leave(t) /\ UNCHANGED <<held, serverVars, hereVars, closed, cut>>
    BY <1>10 DEF SettleFails, SettleReturns, claims
  <2>2. /\ open' \in BOOLEAN /\ (open' => open) /\ accepted' \subseteq Messages
        /\ promised' \subseteq Messages /\ discarded' \subseteq Messages
    <3>1. CASE SettleFails(t)
      BY <1>1, <3>1 DEF SettleFails, TypeOK, claims
    <3>2. CASE SettleReturns(t)
      BY <1>1, <3>2 DEF SettleReturns, TypeOK
    <3> QED
      BY <1>10, <3>1, <3>2
  <2> QED
    BY <1>1, <2>1, <2>2, Left DEF TypeOK, serverVars, hereVars
<1>11. ASSUME NEW t \in Tasks, DropFuture(t) PROVE TypeOK'
  <2>1. wire' \in [Channels -> Seq(Frame)] /\ cut' \in [Messages -> {"none"} \cup Settling]
    <3>1. CASE UNCHANGED <<wire, cut>>
      BY <1>1, <3>1 DEF TypeOK
    <3>2. CASE pc[t] = "ready" /\ Sent(chan[t], "publish", msg[t], NoTask) /\ UNCHANGED cut
      BY <1>1, <1>7, <3>2, SentLast DEF TypeOK
    <3>3. CASE /\ pc[t] \in {"awaiting", "answered"} /\ wire' = Unwaited(t)
               /\ cut' = [m \in Messages |->
                            IF m \in accepted /\ cut[m] = "none" THEN op[t] ELSE cut[m]]
      <4>1. op[t] \in Settling
        BY <1>1, <3>3 DEF Calls, CallFits
      <4> QED
        BY <1>1, <3>3, <4>1, UnwaitedSame DEF TypeOK
    <3> QED
      BY <1>11, <3>1, <3>2, <3>3 DEF DropFuture
  <2> QED
    BY <1>1, <1>11, <2>1, Left DEF DropFuture, TypeOK, hereVars
<1>12. ASSUME NEW c \in Channels, Serve(c) PROVE TypeOK'
  <2>1. /\ wire' \in [Channels -> Seq(Frame)] /\ staged' \in [Channels -> SUBSET Messages]
        /\ visible' \subseteq Messages
    <3>1. visible \subseteq Messages /\ staged[c] \subseteq Messages
      BY <1>1 DEF TypeOK
    <3> QED
      BY <1>1, <1>12, <3>1, Served
  <2>2. pc' = [t \in Tasks |-> IF wire[c][1].by = t THEN "answered" ELSE pc[t]]
    BY <1>1, <1>12, Served
  <2>3. \A t \in Tasks : pc'[t] \in {"ready", "awaiting", "answered"} => chan[t] # NoChannel
    <3> SUFFICES ASSUME NEW t \in Tasks, pc'[t] \in {"ready", "awaiting", "answered"}
                 PROVE  pc[t] \in {"ready", "awaiting", "answered"}
      BY <1>1 DEF TypeOK
    <3>1. CASE wire[c][1].by = t
      <4>1. 1 \in DOMAIN wire[c] /\ OneChannel
        BY <1>1, <1>12, Served, Zenon DEF IInv
      <4>2. pc[t] = "awaiting"
        BY <3>1, <4>1 DEF OneChannel
      <4> QED
        BY <4>2
    <3>2. CASE wire[c][1].by # t
      BY <2>2, <3>2
    <3> QED
      BY <3>1, <3>2
  <2> QED
    BY <1>1, <1>12, <2>1, <2>2, <2>3 DEF Serve, TypeOK, hereVars, claims
<1>13. ASSUME NEW c \in Channels, ServerCloses(c) \/ ClientLearns(c) PROVE TypeOK'
  <2>1. UNCHANGED <<link, kept, batch, open, held, visible, closed, op, pc, chan, msg, accepted, cut,
                    promised, discarded>>
    BY <1>13 DEF ServerCloses, ClientLearns, hereVars, taskVars, claims
  <2>2. state' \in [Channels -> {"new", "up", "dying", "gone"}]
    BY <1>1, <1>13 DEF ServerCloses, ClientLearns, TypeOK
  <2>3. wire' \in [Channels -> Seq(Frame)]
    <3>1. <<>> \in Seq(Frame) /\ wire \in [Channels -> Seq(Frame)]
      BY <1>1 DEF TypeOK
    <3> QED
      BY <1>13, <3>1 DEF ServerCloses, ClientLearns
  <2>4. staged' \in [Channels -> SUBSET Messages]
    BY <1>1, <1>13 DEF ServerCloses, ClientLearns, TypeOK
  <2> QED
    BY <1>1, <2>1, <2>2, <2>3, <2>4 DEF TypeOK
<1>14. CASE Shutdown \/ UNCHANGED vars
  <2>1. /\ UNCHANGED <<link, kept, batch, open, held, state, wire, staged, visible, op, pc, chan, msg,
                       accepted, cut, promised, discarded>>
        /\ closed' = TRUE \/ closed' = closed
    BY <1>14 DEF Shutdown, vars, serverVars, hereVars, taskVars, claims
  <2> QED
    BY <1>1, <2>1 DEF TypeOK
<1>15. ASSUME NEW t \in Tasks, OperateHere(t) PROVE TypeOK'
  <2>1. UNCHANGED <<link, held, state, wire, staged>>
    BY <1>15 DEF OperateHere, BeginHere, SetOpenHere, PublishHere, Stage, PublishPlainlyHere, TakeStaged,
                 CloseHere, AbortedHere, FlushHere, FlushRefused, FlushedHere, serverVars, hereVars
  <2>2. link = "in_process"
    BY <1>15, WhichTransport
  <2>3. /\ op' \in [Tasks -> {"none", "begin", "publish"} \cup Settling]
        /\ pc' \in [Tasks -> {"idle", "channel", "getting", "ready", "awaiting", "answered",
                              "looked", "staging", "taken", "flushing", "cleared"}]
        /\ chan' \in [Tasks -> Channels \cup {NoChannel}]
        /\ msg' \in [Tasks -> SUBSET Messages]
        /\ \A u \in Tasks : pc'[u] \in {"ready", "awaiting", "answered"} => chan'[u] # NoChannel
    <3>1. CASE Leave(t)
      BY <1>1, <3>1, Left DEF TypeOK
    <3>2. ASSUME NEW what \in {"begin", "publish", "commit", "rollback"},
                 NEW where \in {"looked", "staging", "taken", "cleared"},
                 Enter(t, what, where), UNCHANGED chan, msg' \in [Tasks -> SUBSET Messages]
          PROVE  /\ op' \in [Tasks -> {"none", "begin", "publish"} \cup Settling]
                 /\ pc' \in [Tasks -> {"idle", "channel", "getting", "ready", "awaiting", "answered",
                                       "looked", "staging", "taken", "flushing", "cleared"}]
                 /\ chan' \in [Tasks -> Channels \cup {NoChannel}]
                 /\ msg' \in [Tasks -> SUBSET Messages]
                 /\ \A u \in Tasks : pc'[u] \in {"ready", "awaiting", "answered"} => chan'[u] # NoChannel
      BY <1>1, <3>2, Entered DEF TypeOK
    <3>3. CASE BeginHere(t)
      BY <1>1, <3>2, <3>3 DEF BeginHere, TypeOK
    <3>4. CASE PublishHere(t)
      <4>1. msg' \in [Tasks -> SUBSET Messages]
        BY <1>1, <3>4 DEF PublishHere, Fresh, TypeOK
      <4> QED
        BY <3>2, <3>4, <4>1 DEF PublishHere
    <3>5. CASE TakeStaged(t)
      <4>1. \E what \in Settling : Enter(t, what, IF what = "commit" THEN "taken" ELSE "cleared")
        BY <3>5 DEF TakeStaged
      <4>2. UNCHANGED chan /\ msg' \in [Tasks -> SUBSET Messages]
        BY <1>1, <3>5 DEF TakeStaged, TypeOK
      <4> QED
        BY <3>2, <4>1, <4>2 DEF Settling
    <3>6. CASE PublishPlainlyHere(t) \/ FlushHere(t)
      BY <1>1, <3>6 DEF PublishPlainlyHere, FlushHere, taskVars, TypeOK
    <3>7. CASE CloseHere(t) /\ ~Leave(t)
      BY <1>1, <3>7 DEF CloseHere, TypeOK
    <3> QED
      BY <1>15, <3>1, <3>3, <3>4, <3>5, <3>6, <3>7
         DEF OperateHere, SetOpenHere, Stage, FlushRefused, FlushedHere, AbortedHere
  <2>4. kept' \in Seq(Messages) /\ batch' \in [Tasks -> Seq(Messages)] /\ visible' \subseteq Messages
    <3>1. <<>> \in Seq(Messages) /\ kept \in Seq(Messages) /\ batch \in [Tasks -> Seq(Messages)]
          /\ visible \subseteq Messages /\ msg[t] \subseteq Messages
      BY <1>1 DEF TypeOK
    <3>2. CASE Stage(t)
      BY <3>1, <3>2 DEF Stage, serverVars
    <3>3. CASE TakeStaged(t)
      BY <3>1, <3>3 DEF TakeStaged, serverVars
    <3>4. CASE CloseHere(t)
      BY <3>1, <3>4 DEF CloseHere, serverVars
    <3>5. CASE FlushHere(t)
      <4>1. batch[t] \in Seq(Messages) /\ batch[t] # <<>>
        BY <3>1, <3>5 DEF FlushHere
      <4>2. Tail(batch[t]) \in Seq(Messages) /\ Head(batch[t]) \in Messages
        BY <4>1
      <4> QED
        BY <3>1, <3>5, <4>2 DEF FlushHere
    <3>6. CASE FlushRefused(t)
      BY <3>1, <3>6 DEF FlushRefused, serverVars
    <3>7. CASE PublishPlainlyHere(t)
      BY <3>1, <3>7 DEF PublishPlainlyHere, Fresh, hereVars
    <3>8. CASE BeginHere(t) \/ SetOpenHere(t) \/ PublishHere(t) \/ FlushedHere(t) \/ AbortedHere(t)
      BY <3>1, <3>8 DEF BeginHere, SetOpenHere, PublishHere, FlushedHere, AbortedHere, hereVars, serverVars
    <3> QED
      BY <1>15, <3>2, <3>3, <3>4, <3>5, <3>6, <3>7, <3>8 DEF OperateHere
  <2>5. /\ open' \in BOOLEAN /\ closed' \in BOOLEAN /\ accepted' \subseteq Messages
        /\ cut' = cut
        /\ promised' \subseteq Messages /\ discarded' \subseteq Messages
    <3>1. msg[t] \subseteq Messages
      BY <1>1 DEF TypeOK
    <3> QED
      BY <1>1, <1>15, <3>1 DEF OperateHere, BeginHere, SetOpenHere, PublishHere, Stage, PublishPlainlyHere,
         TakeStaged, CloseHere, AbortedHere, FlushHere, FlushRefused, FlushedHere, TypeOK, claims
  <2> QED
    BY <1>1, <2>1, <2>2, <2>3, <2>4, <2>5 DEF TypeOK
<1> QED
  BY <1>3, <1>4, <1>5, <1>6, <1>8, <1>9, <1>10, <1>11, <1>12, <1>13, <1>14, <1>15 DEF Next, Operate

\* The transport stays.
LEMMA SameLink == ASSUME [Next]_vars PROVE link' = link
<1>1. ASSUME NEW t \in Tasks, Operate(t) PROVE link' = link
  BY <1>1 DEF Operate, CallBegin, CallPublish, PublishPlainly, CallSettle, TxChannel, Get, SetOpen,
     SendPublish, SendSettle, SettleFails, SettleReturns, DropFuture, hereVars
<1>2. ASSUME NEW t \in Tasks, OperateHere(t) PROVE link' = link
  BY <1>2 DEF OperateHere, BeginHere, SetOpenHere, PublishHere, Stage, PublishPlainlyHere, TakeStaged,
     CloseHere, AbortedHere, FlushHere, FlushRefused, FlushedHere, hereVars
<1>3. ASSUME NEW c \in Channels, Serve(c) \/ ServerCloses(c) \/ ClientLearns(c) PROVE link' = link
  BY <1>3 DEF Serve, ServerCloses, ClientLearns, hereVars
<1>4. CASE Shutdown \/ UNCHANGED vars
  BY <1>4 DEF Shutdown, vars, hereVars
<1> QED
  BY <1>1, <1>2, <1>3, <1>4 DEF Next

\* An operation is where its steps led it.
LEMMA KeepsCalls == IInv /\ [Next]_vars => Calls'
<1> SUFFICES ASSUME IInv, [Next]_vars, NEW t \in Tasks PROVE CallFits(t)'
  BY DEF Calls
<1>1. /\ TypeOK /\ CallFits(t) /\ link' = link /\ link \in {"amqp", "in_process"}
      /\ \A u \in Tasks : u = t
  BY SameLink DEF IInv, Calls, UsedAlone, TypeOK
<1>2. ASSUME Leave(t) PROVE CallFits(t)'
  BY <1>1, <1>2, Left DEF CallFits, OverAmqp, InProcess, Settling
<1>3. CASE CallBegin(t) \/ CallPublish(t) \/ CallSettle(t)
  <2>1. /\ pc'[t] = "channel" /\ open' = open /\ op'[t] \in {"begin", "publish", "commit", "rollback"}
        /\ op'[t] = "begin" <=> ~open
        /\ link = "amqp" /\ msg[t] = {}
    BY <1>1, <1>3, Entered DEF CallBegin, CallPublish, CallSettle, Settling, CallFits
  <2>2. /\ op'[t] # "publish" => msg'[t] = {}
        /\ \A m, n \in msg'[t] : m = n
    <3>1. CASE CallBegin(t) \/ CallSettle(t)
      <4>1. msg' = msg
        BY <3>1 DEF CallBegin, CallSettle
      <4> QED
        BY <2>1, <4>1
    <3>2. CASE CallPublish(t)
      BY <1>1, <3>2, Entered DEF CallPublish, Fresh, TypeOK
    <3> QED
      BY <1>3, <3>1, <3>2
  <2> QED
    BY <1>1, <2>1, <2>2 DEF CallFits, OverAmqp, Settling
<1>4. CASE TxChannel(t)
  <2>1. /\ link = "amqp" /\ open' = open /\ op' = op /\ msg' = msg /\ held' = held
        /\ \/ open /\ pc'[t] = "ready" /\ chan'[t] = held
           \/ ~open /\ pc'[t] = "getting" /\ chan'[t] = chan[t]
        /\ pc[t] = "channel"
    BY <1>1, <1>4, WhichTransport DEF Operate, TxChannel, TypeOK
  <2> QED
    BY <1>1, <2>1 DEF CallFits, OverAmqp, Settling, TypeOK
<1>5. CASE Get(t) /\ ~Leave(t)
  <2>1. /\ link = "amqp" /\ open' = open /\ op' = op /\ msg' = msg
        /\ pc'[t] = "ready" /\ pc[t] = "getting" /\ chan'[t] = held'
    BY <1>1, <1>5, WhichTransport DEF Operate, Get, TypeOK
  <2> QED
    BY <1>1, <2>1 DEF CallFits, OverAmqp, Settling
<1>6. CASE SendSettle(t)
  <2>1. /\ link = "amqp" /\ open' = open /\ op' = op /\ msg' = msg /\ held' = held /\ chan' = chan
        /\ pc'[t] = "awaiting" /\ pc[t] = "ready" /\ op[t] \in Settling
    BY <1>1, <1>6, WhichTransport DEF Operate, SendSettle, TypeOK
  <2> QED
    BY <1>1, <2>1 DEF CallFits, OverAmqp, Settling
<1>7. ASSUME NEW c \in Channels, Serve(c) PROVE CallFits(t)'
  <2>1. /\ open' = open /\ op' = op /\ msg' = msg /\ held' = held /\ chan' = chan
        /\ pc'[t] = IF wire[c][1].by = t THEN "answered" ELSE pc[t]
    BY <1>1, <1>7, Served DEF Serve, claims
  <2>2. wire[c][1].by = t => pc[t] = "awaiting"
    <3>1. 1 \in DOMAIN wire[c] /\ OneChannel
      BY <1>1, <1>7, Served, Zenon DEF IInv
    <3> QED
      BY <3>1 DEF OneChannel
  <2> QED
    BY <1>1, <2>1, <2>2 DEF CallFits, OverAmqp, InProcess, Settling
<1>8. CASE BeginHere(t) \/ PublishHere(t) \/ TakeStaged(t)
  <2>1. /\ link = "in_process" /\ open' = open /\ op'[t] \in {"begin", "publish", "commit", "rollback"}
        /\ op'[t] = "begin" <=> ~open
        /\ msg[t] = {}
        /\ pc'[t] = CASE op'[t] = "begin" -> "looked" [] op'[t] = "publish" -> "staging"
                      [] op'[t] = "commit" -> "taken" [] op'[t] = "rollback" -> "cleared"
    BY <1>1, <1>8, Entered DEF BeginHere, PublishHere, TakeStaged, Settling, CallFits, Here
  <2>2. /\ op'[t] # "publish" => msg'[t] = {}
        /\ \A m, n \in msg'[t] : m = n
    <3>1. CASE BeginHere(t) \/ TakeStaged(t)
      <4>1. msg' = msg
        BY <3>1 DEF BeginHere, TakeStaged
      <4> QED
        BY <2>1, <4>1
    <3>2. CASE PublishHere(t)
      BY <1>1, <3>2, Entered DEF PublishHere, Fresh, TypeOK
    <3> QED
      BY <1>8, <3>1, <3>2
  <2> QED
    BY <1>1, <2>1, <2>2 DEF CallFits, InProcess, Settling
<1>9. CASE CloseHere(t) /\ ~Leave(t)
  <2>1. /\ link = "in_process" /\ open' = FALSE /\ op' = op /\ msg' = msg
        /\ pc[t] = "taken" /\ pc'[t] = "flushing"
    BY <1>1, <1>9, WhichTransport DEF OperateHere, CloseHere, TypeOK
  <2> QED
    BY <1>1, <2>1 DEF CallFits, InProcess, Settling
<1>10. ASSUME UNCHANGED <<open, held, op, pc, chan, msg>> PROVE CallFits(t)'
  BY <1>1, <1>10 DEF CallFits
<1>11. ASSUME NEW c \in Channels, ServerCloses(c) \/ ClientLearns(c) PROVE CallFits(t)'
  BY <1>10, <1>11 DEF ServerCloses, ClientLearns, taskVars
<1>12. CASE PublishPlainly(t) \/ PublishPlainlyHere(t) \/ FlushHere(t) \/ Shutdown \/ UNCHANGED vars
  BY <1>10, <1>12 DEF PublishPlainly, PublishPlainlyHere, FlushHere, Shutdown, vars, taskVars
<1>13. CASE Operate(t)
  BY <1>2, <1>3, <1>4, <1>5, <1>6, <1>12, <1>13
     DEF Operate, SetOpen, SendPublish, SettleFails, SettleReturns, DropFuture
<1>14. CASE OperateHere(t)
  BY <1>2, <1>8, <1>9, <1>12, <1>14
     DEF OperateHere, SetOpenHere, Stage, FlushRefused, FlushedHere, AbortedHere
<1> QED
  BY <1>1, <1>7, <1>11, <1>12, <1>13, <1>14 DEF Next

\* A frame that an operation sends is the last of the channel in the cell, or goes nowhere.
LEMMA Sending ==
  ASSUME IInv, NEW t \in Tasks, SendPublish(t) \/ SendSettle(t) \/ DropFuture(t), pc[t] = "ready"
  PROVE  /\ held \in Channels /\ chan[t] = held /\ UNCHANGED <<state, staged, held>>
         /\ op[t] \in {"publish"} \cup Settling
         /\ op[t] \in Settling => pc'[t] = "awaiting" /\ op'[t] = op[t]
         /\ state[held] # "up" => wire' = wire
         /\ wire' # wire =>
              /\ state[held] = "up"
              /\ wire' \in [Channels -> Seq(Frame)] /\ Len(wire[held]) \in Nat
              /\ \A d \in Channels \ {held} : wire'[d] = wire[d]
              /\ Len(wire'[held]) = Len(wire[held]) + 1
              /\ DOMAIN wire[held] = 1..Len(wire[held])
              /\ DOMAIN wire'[held] = 1..(Len(wire[held]) + 1)
              /\ \A n \in 1..Len(wire[held]) : wire'[held][n] = wire[held][n]
              /\ wire'[held][Len(wire[held]) + 1].kind = op[t]
              /\ wire'[held][Len(wire[held]) + 1].msgs = msg[t]
              /\ wire'[held][Len(wire[held]) + 1].by = IF op[t] = "publish" THEN NoTask ELSE t
<1> DEFINE by == IF op[t] = "publish" THEN NoTask ELSE t
<1>1. TypeOK /\ CallFits(t)
  BY DEF IInv, Calls
<1>2. chan[t] = held /\ held \in Channels /\ msg[t] \in SUBSET Messages
  BY <1>1 DEF CallFits, TypeOK
<1>3. op[t] \in Settling => msg[t] = {} /\ op[t] # "publish"
  BY <1>1 DEF CallFits, Settling
<1>4. /\ UNCHANGED <<state, staged, held>> /\ op[t] \in {"publish"} \cup Settling
      /\ op[t] \in Settling => pc'[t] = "awaiting" /\ op'[t] = op[t]
      /\ wire' = wire \/ Sent(held, op[t], msg[t], by)
  <2>1. CASE SendPublish(t)
    BY <1>2, <1>3, <2>1 DEF SendPublish, Settling
  <2>2. CASE SendSettle(t)
    <3>1. Sent(held, op[t], msg[t], by) /\ op[t] \in Settling
      BY <1>2, <1>3, <2>2 DEF SendSettle
    <3> QED
      BY <1>1, <2>2, <3>1 DEF SendSettle, TypeOK
  <2>3. CASE DropFuture(t)
    BY <1>2, <1>3, <2>3 DEF DropFuture, Settling
  <2> QED
    BY <2>1, <2>2, <2>3
<1>5. by \in Tasks \cup {NoTask}
  OBVIOUS
<1> HIDE DEF by
<1>6. ASSUME Sent(held, op[t], msg[t], by), state[held] # "up" PROVE wire' = wire
  BY <1>6 DEF Sent
<1>7. ASSUME Sent(held, op[t], msg[t], by), state[held] = "up"
      PROVE  /\ wire' \in [Channels -> Seq(Frame)] /\ Len(wire[held]) \in Nat
             /\ \A d \in Channels \ {held} : wire'[d] = wire[d]
             /\ Len(wire'[held]) = Len(wire[held]) + 1
             /\ DOMAIN wire[held] = 1..Len(wire[held])
             /\ DOMAIN wire'[held] = 1..(Len(wire[held]) + 1)
             /\ \A n \in 1..Len(wire[held]) : wire'[held][n] = wire[held][n]
             /\ wire'[held][Len(wire[held]) + 1].kind = op[t]
             /\ wire'[held][Len(wire[held]) + 1].msgs = msg[t]
             /\ wire'[held][Len(wire[held]) + 1].by = by
  <2>1. PICK kind, msgs, b : kind = op[t] /\ msgs = msg[t] /\ b = by
    OBVIOUS
  <2>2. /\ kind \in {"publish"} \cup Settling /\ msgs \in SUBSET Messages /\ b \in Tasks \cup {NoTask}
        /\ Sent(held, kind, msgs, b)
    BY <1>2, <1>4, <1>5, <1>7, <2>1
  <2>3. PICK c \in Channels : c = held
    BY <1>2
  <2>4. state[c] = "up" /\ Sent(c, kind, msgs, b)
    BY <1>7, <2>2, <2>3
  <2>5. /\ wire' \in [Channels -> Seq(Frame)] /\ Len(wire[c]) \in Nat
        /\ \A d \in Channels \ {c} : wire'[d] = wire[d]
    BY <1>1, <2>2, <2>4, SentLast
  <2>6. /\ Len(wire'[c]) = Len(wire[c]) + 1
        /\ DOMAIN wire[c] = 1..Len(wire[c]) /\ DOMAIN wire'[c] = 1..(Len(wire[c]) + 1)
    BY <1>1, <2>2, <2>4, SentLast
  <2>7. /\ \A n \in 1..Len(wire[c]) : wire'[c][n] = wire[c][n]
    BY <1>1, <2>2, <2>4, SentLast
  <2>8. wire'[c][Len(wire[c]) + 1] = [kind |-> kind, msgs |-> msgs, by |-> b]
    BY <1>1, <2>2, <2>4 DEF Sent, TypeOK, Frame
  <2> QED
    BY <2>1, <2>3, <2>5, <2>6, <2>7, <2>8
<1> QED
  BY <1>2, <1>4, <1>6, <1>7 DEF by

\* One channel carries the transaction, and its last frame is the one waited for.
LEMMA KeepsOneChannel == IInv /\ [Next]_vars => OneChannel'
<1> SUFFICES ASSUME IInv, [Next]_vars PROVE OneChannel'
  OBVIOUS
<1> USE ServerTxAssumption
<1>1. TypeOK /\ OneChannel
  BY DEF IInv
<1>2. ASSUME NEW t \in Tasks PROVE CallFits(t) /\ \A u \in Tasks : u = t
  BY DEF IInv, Calls, UsedAlone
<1>3. ASSUME NEW t \in Tasks, UNCHANGED <<state, wire, staged, held>>,
             pc[t] # "awaiting" \/ (pc'[t] = pc[t] /\ op'[t] = op[t])
      PROVE  OneChannel'
  BY <1>1, <1>2, <1>3 DEF OneChannel
<1>4. ASSUME NEW t \in Tasks, SendPublish(t) \/ SendSettle(t) \/ DropFuture(t), pc[t] = "ready",
             wire' # wire
      PROVE  OneChannel'
  <2>1. /\ held \in Channels /\ UNCHANGED <<state, staged, held>>
        /\ op[t] \in {"publish"} \cup Settling
        /\ op[t] \in Settling => pc'[t] = "awaiting" /\ op'[t] = op[t]
        /\ Len(wire[held]) \in Nat
        /\ \A d \in Channels \ {held} : wire'[d] = wire[d]
        /\ Len(wire'[held]) = Len(wire[held]) + 1
        /\ DOMAIN wire[held] = 1..Len(wire[held])
        /\ DOMAIN wire'[held] = 1..(Len(wire[held]) + 1)
        /\ \A n \in 1..Len(wire[held]) : wire'[held][n] = wire[held][n]
        /\ wire'[held][Len(wire[held]) + 1].kind = op[t]
        /\ wire'[held][Len(wire[held]) + 1].msgs = msg[t]
        /\ wire'[held][Len(wire[held]) + 1].by = IF op[t] = "publish" THEN NoTask ELSE t
        /\ state[held] = "up"
    BY <1>4, Sending
  <2>2. \A n \in DOMAIN wire[held] : wire[held][n].by # t
    BY <1>1, <1>4, <2>1 DEF OneChannel
  <2>3. op[t] \in Settling => msg[t] = {}
    BY <1>2 DEF CallFits, Settling
  <2>4. ASSUME NEW n \in DOMAIN wire'[held]
        PROVE  /\ wire'[held][n].kind \in Settling => wire'[held][n].msgs = {}
               /\ wire'[held][n].by = t =>
                    n = Len(wire'[held]) /\ pc'[t] = "awaiting" /\ wire'[held][n].kind = op'[t]
    <3>1. CASE n \in DOMAIN wire[held]
      BY <1>1, <2>1, <2>2, <3>1 DEF OneChannel
    <3>2. CASE n = Len(wire[held]) + 1
      BY <2>1, <2>3, <3>2
    <3> QED
      BY <2>1, <3>1, <3>2
  <2>5. \A c \in Channels \ {held} : wire'[c] = <<>> /\ staged'[c] = {}
    BY <1>1, <2>1 DEF OneChannel
  <2> QED
    BY <1>2, <2>1, <2>4, <2>5 DEF OneChannel
<1>5. ASSUME NEW t \in Tasks, Operate(t) PROVE OneChannel'
  <2>1. CASE SendPublish(t) \/ SendSettle(t) \/ (DropFuture(t) /\ pc[t] = "ready")
    <3>1. CASE ~UNCHANGED wire
      BY <1>4, <2>1, <3>1 DEF SendPublish, SendSettle
    <3>2. CASE UNCHANGED wire
      <4>1. CASE SendSettle(t)
        <5>1. /\ chan[t] = held /\ held \in Channels /\ Sent(chan[t], op[t], {}, t)
              /\ op[t] \in {"publish"} \cup Settling
          BY <1>1, <1>2, <4>1 DEF CallFits, TypeOK, SendSettle
        <5>2. state[held] # "up"
          <6>1. Sent(held, op[t], {}, t)
            BY <5>1
          <6>2. state[held] = "up" => Len(wire[held]) \in Nat /\ Len(wire'[held]) = Len(wire[held]) + 1
            BY <1>1, <5>1, <6>1, SentLast
          <6> QED
            BY <3>2, <6>2
        <5>3. \A c \in Channels : wire[c] = <<>>
          BY <1>1, <5>2 DEF OneChannel
        <5>4. UNCHANGED <<state, staged, held>>
          BY <4>1 DEF SendSettle
        <5> QED
          BY <1>1, <3>2, <5>3, <5>4 DEF OneChannel
      <4>2. CASE SendPublish(t) \/ (DropFuture(t) /\ pc[t] = "ready")
        BY <1>3, <3>2, <4>2 DEF SendPublish, DropFuture
      <4> QED
        BY <2>1, <4>1, <4>2
    <3> QED
      BY <3>1, <3>2
  <2>2. CASE Get(t)
    <3>1. /\ UNCHANGED <<wire, staged>> /\ pc[t] = "getting"
          /\ \/ UNCHANGED <<state, held>>
             \/ /\ ~Usable(held)
                /\ \E c \in Channels : state[c] = "new" /\ state' = [state EXCEPT ![c] = "up"] /\ held' = c
      BY <2>2 DEF Get
    <3>2. CASE UNCHANGED <<state, held>>
      BY <1>3, <3>1, <3>2
    <3>3. ASSUME ~Usable(held), NEW c \in Channels, state[c] = "new", state' = [state EXCEPT ![c] = "up"], held' = c
          PROVE  OneChannel'
      <4>1. \A d \in Channels : state[d] # "up" \/ d # held
        BY <1>1, <3>3 DEF Usable, NoChannel, Channels
      <4>2. \A d \in Channels : wire[d] = <<>> /\ staged[d] = {}
        BY <1>1, <4>1 DEF OneChannel
      <4> QED
        BY <3>1, <4>2 DEF OneChannel
    <3> QED
      BY <3>1, <3>2, <3>3
  <2>3. CASE SettleFails(t)
    <3>1. UNCHANGED <<state, wire, staged, held>> /\ chan[t] = held /\ ~Usable(held)
      BY <1>1, <1>2, <2>3 DEF SettleFails, CallFits, serverVars
    <3>2. \A d \in Channels : state[d] # "up" \/ d # held
      BY <3>1 DEF Usable, NoChannel, Channels
    <3>3. \A d \in Channels : wire[d] = <<>> /\ staged[d] = {}
      BY <1>1, <3>2 DEF OneChannel
    <3> QED
      BY <3>1, <3>3 DEF OneChannel
  <2>4. CASE DropFuture(t) /\ pc[t] # "ready"
    <3>1. CASE pc[t] = "getting"
      BY <1>3, <2>4, <3>1 DEF DropFuture
    <3>2. CASE pc[t] # "getting"
      <4>1. wire' = Unwaited(t) /\ UNCHANGED <<state, staged, held>>
        BY <2>4, <3>2 DEF DropFuture
      <4>2. NoTask # t
        OBVIOUS
      <4>3. ASSUME NEW c \in Channels
            PROVE  /\ state[c] # "up" \/ c # held => wire'[c] = <<>> /\ staged'[c] = {}
                   /\ \A n \in DOMAIN wire'[c] :
                        /\ wire'[c][n].kind \in Settling => wire'[c][n].msgs = {}
                        /\ wire'[c][n].by # t
        <5>1. /\ wire'[c] \in Seq(Frame) /\ Len(wire'[c]) = Len(wire[c]) /\ DOMAIN wire'[c] = DOMAIN wire[c]
              /\ \A n \in DOMAIN wire[c] :
                   /\ wire'[c][n].kind = wire[c][n].kind /\ wire'[c][n].msgs = wire[c][n].msgs
                   /\ wire'[c][n].by = IF wire[c][n].by = t THEN NoTask ELSE wire[c][n].by
          BY <1>1, <4>1, UnwaitedSame
        <5>2. wire[c] = <<>> => wire'[c] = <<>>
          BY <5>1
        <5>3. \A n \in DOMAIN wire[c] : wire'[c][n].by # t
          BY <4>2, <5>1
        <5> QED
          BY <1>1, <4>1, <5>1, <5>2, <5>3 DEF OneChannel
      <4> QED
        BY <1>2, <4>1, <4>3 DEF OneChannel
    <3> QED
      BY <3>1, <3>2
  <2>5. CASE CallBegin(t) \/ CallPublish(t) \/ PublishPlainly(t) \/ CallSettle(t) \/ TxChannel(t)
             \/ SetOpen(t) \/ SettleReturns(t)
    <3>1. UNCHANGED <<state, wire, staged, held>> /\ pc[t] # "awaiting"
      BY <2>5 DEF CallBegin, CallPublish, PublishPlainly, CallSettle, TxChannel, SetOpen, SettleReturns, serverVars
    <3> QED
      BY <1>3, <3>1
  <2> QED
    BY <1>5, <2>1, <2>2, <2>3, <2>4, <2>5 DEF Operate
<1>6. ASSUME NEW t \in Tasks, OperateHere(t) PROVE OneChannel'
  <2>1. UNCHANGED <<state, wire, staged, held>>
    BY <1>6 DEF OperateHere, BeginHere, SetOpenHere, PublishHere, Stage, PublishPlainlyHere, TakeStaged,
                CloseHere, AbortedHere, FlushHere, FlushRefused, FlushedHere, serverVars
  <2>2. pc[t] # "awaiting"
    BY <1>1, <1>2, <1>6, WhichTransport DEF CallFits, InProcess
  <2> QED
    BY <1>3, <2>1, <2>2
<1>7. ASSUME NEW c \in Channels, Serve(c) PROVE OneChannel'
  <2>1. UNCHANGED <<state, held, op>> /\ state[c] = "up" /\ wire[c] # <<>>
    BY <1>7 DEF Serve
  <2>2. /\ Len(wire[c]) \in Nat \ {0} /\ 1 \in DOMAIN wire[c]
        /\ \A d \in Channels \ {c} : wire'[d] = wire[d] /\ staged'[d] = staged[d]
        /\ Len(wire'[c]) = Len(wire[c]) - 1
        /\ DOMAIN wire[c] = 1..Len(wire[c]) /\ DOMAIN wire'[c] = 1..(Len(wire[c]) - 1)
        /\ \A n \in DOMAIN wire'[c] : wire'[c][n] = wire[c][n + 1]
        /\ pc' = [t \in Tasks |-> IF wire[c][1].by = t THEN "answered" ELSE pc[t]]
    BY <1>1, <1>7, Served
  <2>3. c = held
    BY <1>1, <2>1 DEF OneChannel
  <2>4. ASSUME NEW n \in DOMAIN wire'[c]
        PROVE  /\ wire'[c][n].kind \in Settling => wire'[c][n].msgs = {}
               /\ \A t \in Tasks : wire'[c][n].by = t =>
                    n = Len(wire'[c]) /\ pc'[t] = "awaiting" /\ wire'[c][n].kind = op'[t]
    <3>1. n + 1 \in DOMAIN wire[c] /\ n + 1 # 1 /\ wire'[c][n] = wire[c][n + 1]
      BY <2>2
    <3>2. wire'[c][n].kind \in Settling => wire'[c][n].msgs = {}
      BY <1>1, <3>1 DEF OneChannel
    <3>3. ASSUME NEW t \in Tasks, wire[c][n + 1].by = t
          PROVE  n = Len(wire'[c]) /\ pc'[t] = "awaiting" /\ wire'[c][n].kind = op'[t]
      <4>1. n + 1 = Len(wire[c]) /\ pc[t] = "awaiting" /\ wire[c][n + 1].kind = op[t]
        BY <1>1, <3>1, <3>3 DEF OneChannel
      <4>2. wire[c][1].by # t
        BY <1>1, <2>2, <3>1, <4>1 DEF OneChannel
      <4>3. pc'[t] = "awaiting"
        BY <2>2, <4>1, <4>2
      <4> QED
        BY <2>1, <2>2, <3>1, <4>1, <4>3
    <3> QED
      BY <3>1, <3>2, <3>3
  <2>5. \A d \in Channels \ {c} : wire'[d] = <<>> /\ staged'[d] = {}
    BY <1>1, <2>2, <2>3 DEF OneChannel
  <2> QED
    BY <2>1, <2>3, <2>4, <2>5 DEF OneChannel
<1>8. ASSUME NEW c \in Channels, ServerCloses(c) \/ ClientLearns(c) PROVE OneChannel'
  <2>1. UNCHANGED <<held, op, pc>> /\ state'[c] # "up" /\ wire'[c] = <<>> /\ staged'[c] = {}
    <3>1. CASE ServerCloses(c)
      BY <1>1, <3>1 DEF ServerCloses, taskVars, TypeOK
    <3>2. CASE ClientLearns(c)
      BY <1>1, <3>2 DEF ClientLearns, taskVars, TypeOK, OneChannel
    <3> QED
      BY <1>8, <3>1, <3>2
  <2>2. \A d \in Channels \ {c} : state'[d] = state[d] /\ wire'[d] = wire[d] /\ staged'[d] = staged[d]
    BY <1>1, <1>8 DEF ServerCloses, ClientLearns, TypeOK
  <2> QED
    BY <1>1, <2>1, <2>2 DEF OneChannel
<1>9. CASE Shutdown \/ UNCHANGED vars
  BY <1>1, <1>9 DEF OneChannel, Shutdown, vars, serverVars, taskVars
<1> QED
  BY <1>5, <1>6, <1>7, <1>8, <1>9 DEF Next

\* Nothing is left behind by a transaction that ended.
LEMMA KeepsNothingLeft == IInv /\ [Next]_vars => NothingLeft'
<1> SUFFICES ASSUME IInv, [Next]_vars PROVE NothingLeft'
  OBVIOUS
<1> USE ServerTxAssumption
<1>1. /\ TypeOK /\ OneChannel /\ NothingLeft /\ link' = link /\ link \in {"amqp", "in_process"}
      /\ open \in BOOLEAN
  BY SameLink DEF IInv, TypeOK
<1>2. ASSUME NEW t \in Tasks PROVE CallFits(t) /\ \A u \in Tasks : u = t
  BY DEF IInv, Calls, UsedAlone
<1>3. link = "in_process" => \A c \in Channels : ~Carries(c)
  BY <1>1 DEF NothingLeft, OneChannel, Carries, NoChannel, Channels
<1>4. ASSUME NEW t \in Tasks, UNCHANGED <<kept, batch, wire, staged, accepted, cut>>,
             link = "amqp" \/ held' = held, open' = open \/ open',
             pc[t] \notin {"taken", "flushing"}, pc'[t] \notin {"answered", "taken", "cleared"}
      PROVE  NothingLeft'
  BY <1>1, <1>2, <1>4 DEF NothingLeft, Carries
<1>5. ASSUME NEW t \in Tasks, link = "amqp", open', UNCHANGED <<kept, batch>>,
             pc[t] \notin {"taken", "flushing"}, pc'[t] \notin {"answered", "taken", "cleared"}
      PROVE  NothingLeft'
  BY <1>1, <1>2, <1>5 DEF NothingLeft
<1>6. ASSUME NEW t \in Tasks, Operate(t) PROVE NothingLeft'
  <2>1. link = "amqp" /\ pc[t] \notin {"taken", "flushing"}
    BY <1>1, <1>2, <1>6, WhichTransport DEF CallFits, OverAmqp
  <2>2. CASE CallBegin(t) \/ CallPublish(t) \/ CallSettle(t) \/ PublishPlainly(t) \/ TxChannel(t)
    <3>1. pc'[t] \notin {"answered", "taken", "cleared"}
      BY <1>1, <2>2, Entered DEF CallBegin, CallPublish, CallSettle, PublishPlainly, TxChannel, taskVars, TypeOK
    <3>2. UNCHANGED <<kept, batch, wire, staged, accepted, cut, open>>
      BY <2>2 DEF CallBegin, CallPublish, CallSettle, PublishPlainly, TxChannel, hereVars, serverVars, claims
    <3> QED
      BY <1>4, <2>1, <3>1, <3>2
  <2>3. CASE Get(t) \/ SetOpen(t) \/ SettleFails(t) \/ (DropFuture(t) /\ pc[t] = "getting")
    <3>1. pc'[t] \notin {"answered", "taken", "cleared"}
      BY <1>1, <2>3, Left DEF Get, SetOpen, SettleFails, DropFuture, TypeOK
    <3>2. UNCHANGED <<kept, batch, wire, staged, accepted, cut>> /\ (open' = open \/ open')
      BY <2>3 DEF Get, SetOpen, SettleFails, DropFuture, hereVars, serverVars, claims
    <3> QED
      BY <1>4, <2>1, <3>1, <3>2
  <2>4. CASE SendPublish(t) \/ SendSettle(t) \/ (DropFuture(t) /\ pc[t] # "getting")
    <3>1. pc'[t] \notin {"answered", "taken", "cleared"}
      BY <1>1, <2>4, Left DEF SendPublish, SendSettle, DropFuture, TypeOK
    <3>2. UNCHANGED <<kept, batch>> /\ open' = open /\ open
      BY <1>2, <2>4 DEF SendPublish, SendSettle, DropFuture, hereVars, CallFits
    <3> QED
      BY <1>5, <2>1, <3>1, <3>2
  <2>5. CASE SettleReturns(t)
    <3>1. /\ open' = FALSE /\ accepted' = {} /\ pc'[t] = "idle" /\ pc[t] = "answered"
          /\ UNCHANGED <<kept, batch, wire, staged>>
      BY <1>1, <2>5, Left DEF SettleReturns, hereVars, serverVars
    <3>2. kept = <<>> /\ batch[t] = <<>> /\ \A c \in Channels : ~Carries(c)
      BY <1>1, <2>1, <3>1 DEF NothingLeft
    <3> QED
      BY <1>1, <1>2, <2>1, <3>1, <3>2 DEF NothingLeft, Carries
  <2> QED
    BY <1>6, <2>2, <2>3, <2>4, <2>5 DEF Operate
<1>7. ASSUME NEW t \in Tasks, OperateHere(t) PROVE NothingLeft'
  <2>1. /\ link = "in_process" /\ UNCHANGED <<held, cut, wire, staged>>
        /\ held = NoChannel /\ (\A m \in Messages : cut[m] = "none")
        /\ \A c \in Channels : ~Carries(c)'
    <3>1. link = "in_process" /\ held = NoChannel /\ \A m \in Messages : cut[m] = "none"
      BY <1>1, <1>7, WhichTransport DEF NothingLeft
    <3>2. UNCHANGED <<held, cut, wire, staged>>
      BY <1>7 DEF OperateHere, BeginHere, SetOpenHere, PublishHere, Stage, PublishPlainlyHere, TakeStaged,
                  CloseHere, AbortedHere, FlushHere, FlushRefused, FlushedHere, serverVars, claims
    <3> QED
      BY <1>3, <3>1, <3>2 DEF Carries
  <2>2. CASE BeginHere(t) \/ SetOpenHere(t) \/ PublishHere(t) \/ PublishPlainlyHere(t)
    <3>1. pc'[t] \notin {"answered", "taken", "cleared"} /\ pc[t] \notin {"taken", "flushing"}
      BY <1>1, <2>2, Left, Entered DEF BeginHere, SetOpenHere, PublishHere, PublishPlainlyHere, taskVars, Here
    <3>2. UNCHANGED <<kept, batch, accepted>> /\ (open' = open \/ open')
      BY <2>2 DEF BeginHere, SetOpenHere, PublishHere, PublishPlainlyHere, hereVars, claims
    <3> QED
      BY <1>4, <2>1, <3>1, <3>2
  <2>3. CASE Stage(t)
    <3>1. pc[t] = "staging" /\ pc'[t] = "idle" /\ open' /\ batch' = batch
      BY <1>1, <1>2, <2>3, Left DEF Stage, CallFits
    <3> QED
      BY <1>1, <1>2, <2>1, <3>1 DEF NothingLeft
  <2>4. CASE TakeStaged(t)
    <3>1. open' /\ kept' = <<>> /\ pc'[t] \in {"taken", "cleared"} /\ (pc'[t] = "cleared" => batch' = batch)
          /\ pc[t] = "idle"
      BY <1>1, <2>4, Entered DEF TakeStaged, Settling, Here
    <3> QED
      BY <1>1, <1>2, <2>1, <3>1 DEF NothingLeft
  <2>5. CASE CloseHere(t)
    <3>1. /\ open' = FALSE /\ kept' = kept /\ pc[t] = "taken"
          /\ \/ pc'[t] = "flushing"
             \/ pc'[t] = "idle" /\ batch'[t] = <<>> /\ accepted' = {}
      BY <1>1, <2>5, Left DEF CloseHere, TypeOK
    <3>2. kept = <<>>
      BY <1>1, <3>1 DEF NothingLeft
    <3> QED
      BY <1>1, <1>2, <2>1, <3>1, <3>2 DEF NothingLeft
  <2>6. CASE AbortedHere(t)
    <3>1. /\ open' = FALSE /\ UNCHANGED <<kept, batch>> /\ pc[t] = "cleared" /\ pc'[t] = "idle"
          /\ accepted' = {}
      BY <1>1, <2>6, Left DEF AbortedHere, hereVars
    <3>2. kept = <<>> /\ batch[t] = <<>>
      BY <1>1, <3>1 DEF NothingLeft
    <3> QED
      BY <1>1, <1>2, <2>1, <3>1, <3>2 DEF NothingLeft
  <2>7. CASE FlushHere(t)
    <3>1. UNCHANGED <<open, kept, accepted, pc>> /\ pc[t] = "flushing"
      BY <2>7 DEF FlushHere, taskVars, claims
    <3> QED
      BY <1>1, <1>2, <2>1, <3>1 DEF NothingLeft
  <2>8. CASE FlushRefused(t) \/ FlushedHere(t)
    <3>1. UNCHANGED <<open, kept>> /\ pc[t] = "flushing" /\ pc'[t] = "idle" /\ accepted' = {} /\ batch'[t] = <<>>
      BY <1>1, <2>8, Left DEF FlushRefused, FlushedHere, hereVars, TypeOK
    <3> QED
      BY <1>1, <1>2, <2>1, <3>1 DEF NothingLeft
  <2> QED
    BY <1>7, <2>2, <2>3, <2>4, <2>5, <2>6, <2>7, <2>8 DEF OperateHere
<1>8. ASSUME NEW c \in Channels, Serve(c) PROVE NothingLeft'
  <2>1. UNCHANGED <<link, kept, batch, open, held, accepted, cut, op>> /\ wire[c] # <<>> /\ state[c] = "up"
    BY <1>8 DEF Serve, hereVars, claims
  <2>2. /\ Len(wire[c]) \in Nat \ {0} /\ 1 \in DOMAIN wire[c]
        /\ wire' \in [Channels -> Seq(Frame)] /\ Len(wire'[c]) = Len(wire[c]) - 1
        /\ \A d \in Channels \ {c} : wire'[d] = wire[d] /\ staged'[d] = staged[d]
        /\ wire[c][1].kind # "publish" => staged'[c] = {}
        /\ pc' = [t \in Tasks |-> IF wire[c][1].by = t THEN "answered" ELSE pc[t]]
    BY <1>1, <1>8, Served
  <2>3. open /\ c = held /\ \A t \in Tasks : pc[t] # "answered"
    BY <1>1, <2>1 DEF NothingLeft, OneChannel, Carries
  <2>4. link = "amqp"
    BY <1>1, <1>3, <2>1 DEF Carries
  <2>5. ASSUME NEW t \in Tasks, pc'[t] = "answered"
        PROVE  pc[t] = "awaiting" /\ \A d \in Channels : ~Carries(d)'
    <3>1. wire[c][1].by = t
      BY <1>1, <2>2, <2>3, <2>5
    <3>2. 1 = Len(wire[c]) /\ pc[t] = "awaiting" /\ wire[c][1].kind = op[t]
      <4>1. ASSUME NEW n \in DOMAIN wire[c], wire[c][n].by = t
            PROVE  n = Len(wire[c]) /\ pc[t] = "awaiting" /\ wire[c][n].kind = op[t]
        BY <1>1, <4>1 DEF OneChannel
      <4> QED
        BY <2>2, <3>1, <4>1, Zenon
    <3>3. staged'[c] = {}
      BY <1>2, <2>2, <3>2 DEF CallFits, Settling
    <3>4. wire'[c] = <<>>
      <4>1. wire'[c] \in Seq(Frame) /\ Len(wire'[c]) = 0
        BY <2>2, <3>2
      <4> QED
        BY <4>1
    <3>5. \A d \in Channels \ {c} : wire'[d] = <<>> /\ staged'[d] = {}
      BY <1>1, <2>2, <2>3 DEF OneChannel
    <3> QED
      BY <3>2, <3>3, <3>4, <3>5 DEF Carries
  <2>6. ASSUME NEW t \in Tasks
        PROVE  /\ pc'[t] = "answered" => \A d \in Channels : ~Carries(d)'
               /\ pc'[t] \in {"taken", "cleared"} => kept' = <<>>
               /\ pc'[t] \notin {"taken", "flushing"} => batch'[t] = <<>>
    <3>1. pc'[t] = pc[t] \/ pc'[t] = "answered"
      BY <2>2
    <3>2. batch'[t] = batch[t] /\ kept' = kept
      BY <2>1
    <3> QED
      BY <1>1, <2>5, <3>1, <3>2 DEF NothingLeft
  <2> QED
    BY <1>1, <2>1, <2>3, <2>4, <2>6 DEF NothingLeft, Carries
<1>9. ASSUME NEW c \in Channels, ServerCloses(c) \/ ClientLearns(c) PROVE NothingLeft'
  <2>1. UNCHANGED <<link, kept, batch, open, held, accepted, cut, pc>>
    BY <1>9 DEF ServerCloses, ClientLearns, hereVars, claims, taskVars
  <2>2. \A d \in Channels : ~Carries(d) => ~Carries(d)'
    BY <1>1, <1>9 DEF ServerCloses, ClientLearns, Carries, TypeOK
  <2> QED
    BY <1>1, <2>1, <2>2 DEF NothingLeft
<1>10. CASE Shutdown \/ UNCHANGED vars
  <2>1. UNCHANGED <<link, kept, batch, open, held, accepted, cut, pc, wire, staged>>
    BY <1>10 DEF Shutdown, vars, hereVars, claims, taskVars, serverVars
  <2> QED
    BY <1>1, <2>1 DEF NothingLeft, Carries
<1> QED
  BY <1>6, <1>7, <1>8, <1>9, <1>10 DEF Next
-----------------------------------------------------------------------------
(* Where a message can come from.                                           *)

\* The messages of a sequence, one at a time.
LEMMA SetOfSequence ==
  ASSUME NEW S, NEW s \in Seq(S)
  PROVE  /\ ToSet(s) \subseteq S /\ ToSet(<<>>) = {}
         /\ \A e \in S : ToSet(Append(s, e)) = ToSet(s) \cup {e}
         /\ s # <<>> =>
              /\ Head(s) \in S /\ Tail(s) \in Seq(S)
              /\ ToSet(s) = {Head(s)} \cup ToSet(Tail(s))
<1>1. ToSet(s) \subseteq S /\ ToSet(<<>>) = {}
  BY DEF ToSet
<1>2. ASSUME NEW e \in S PROVE ToSet(Append(s, e)) = ToSet(s) \cup {e}
  <2>1. /\ Len(s) \in Nat /\ DOMAIN s = 1..Len(s) /\ DOMAIN Append(s, e) = 1..(Len(s) + 1)
        /\ \A i \in 1..Len(s) : Append(s, e)[i] = s[i]
        /\ Append(s, e)[Len(s) + 1] = e
    OBVIOUS
  <2> QED
    BY <2>1 DEF ToSet
<1>3. ASSUME s # <<>>
      PROVE  /\ Head(s) \in S /\ Tail(s) \in Seq(S)
             /\ ToSet(s) = {Head(s)} \cup ToSet(Tail(s))
  <2>1. Head(s) \in S /\ Tail(s) \in Seq(S) /\ Head(s) = s[1]
    BY <1>3
  <2>2. /\ Len(s) \in Nat \ {0} /\ DOMAIN s = 1..Len(s) /\ DOMAIN Tail(s) = 1..(Len(s) - 1)
        /\ \A i \in 1..(Len(s) - 1) : Tail(s)[i] = s[i + 1]
    BY <1>3
  <2>3. ToSet(s) \subseteq {Head(s)} \cup ToSet(Tail(s))
    <3> SUFFICES ASSUME NEW i \in 1..Len(s), i # 1 PROVE s[i] \in ToSet(Tail(s))
      BY <2>1, <2>2 DEF ToSet
    <3>1. i - 1 \in 1..(Len(s) - 1) /\ (i - 1) + 1 = i
      BY <2>2
    <3>2. Tail(s)[i - 1] = s[i]
      BY <2>2, <3>1
    <3> QED
      BY <2>2, <3>1, <3>2 DEF ToSet
  <2>4. {Head(s)} \cup ToSet(Tail(s)) \subseteq ToSet(s)
    <3>1. 1 \in DOMAIN s /\ \A i \in 1..(Len(s) - 1) : i + 1 \in DOMAIN s
      BY <2>2
    <3> QED
      BY <2>1, <2>2, <3>1 DEF ToSet
  <2> QED
    BY <2>1, <2>3, <2>4
<1> QED
  BY <1>1, <1>2, <1>3

\* The server makes visible only what is pending, and nothing new becomes pending.
LEMMA ServerMoves ==
  ASSUME IInv, NEW c \in Channels, Serve(c) \/ ServerCloses(c) \/ ClientLearns(c), NEW m
  PROVE  /\ Pending(m)' => Pending(m)
         /\ m \in visible' => m \in visible \/ Pending(m)
<1>1. TypeOK /\ wire \in [Channels -> Seq(Frame)] /\ staged \in [Channels -> SUBSET Messages]
  BY DEF IInv, TypeOK
<1>2. UNCHANGED <<kept, batch>>
  BY DEF Serve, ServerCloses, ClientLearns, hereVars
<1>3. CASE Serve(c)
  <2>1. /\ Len(wire[c]) \in Nat \ {0} /\ 1 \in DOMAIN wire[c] /\ DOMAIN wire[c] = 1..Len(wire[c])
        /\ \A d \in Channels \ {c} : wire'[d] = wire[d] /\ staged'[d] = staged[d]
        /\ DOMAIN wire'[c] = 1..(Len(wire[c]) - 1)
        /\ \A n \in DOMAIN wire'[c] : wire'[c][n] = wire[c][n + 1]
        /\ staged'[c] \subseteq staged[c] \cup wire[c][1].msgs
        /\ visible' \subseteq visible \cup staged[c]
    BY <1>1, <1>3, Served
  <2>2. \A n \in DOMAIN wire'[c] : n + 1 \in DOMAIN wire[c]
    BY <2>1
  <2>3. m \in staged'[c] => Pending(m)
    BY <2>1 DEF Pending
  <2>4. (\E n \in DOMAIN wire'[c] : m \in wire'[c][n].msgs) => Pending(m)
    BY <2>1, <2>2 DEF Pending
  <2>5. Pending(m)' => Pending(m)
    BY <1>2, <2>1, <2>3, <2>4 DEF Pending
  <2>6. m \in visible' => m \in visible \/ Pending(m)
    BY <2>1 DEF Pending
  <2> QED
    BY <2>5, <2>6
<1>4. CASE ServerCloses(c) \/ ClientLearns(c)
  <2>1. visible' = visible
    BY <1>4 DEF ServerCloses, ClientLearns
  <2>2. \A d \in Channels : \/ wire'[d] = wire[d] /\ staged'[d] = staged[d]
                            \/ wire'[d] = <<>> /\ staged'[d] = {}
    BY <1>1, <1>4 DEF ServerCloses, ClientLearns
  <2>3. Pending(m)' => Pending(m)
    BY <1>2, <2>2 DEF Pending
  <2> QED
    BY <2>1, <2>3
<1> QED
  BY <1>3, <1>4

\* A message becomes visible from where it was pending, or at once, and becomes pending
\* from the hand of a task.
LEMMA Spreads ==
  ASSUME IInv, [Next]_vars, NEW m \in Messages
  PROVE  /\ Pending(m)' => Pending(m) \/ \E t \in Tasks : m \in msg[t]
         /\ m \in visible' => m \in visible \/ Pending(m) \/ m \in Fresh
<1> USE ServerTxAssumption
<1>1. /\ TypeOK /\ wire \in [Channels -> Seq(Frame)] /\ batch \in [Tasks -> Seq(Messages)]
      /\ kept \in Seq(Messages) /\ staged \in [Channels -> SUBSET Messages]
  BY DEF IInv, TypeOK
<1>2. ASSUME NEW t \in Tasks PROVE CallFits(t)
  BY DEF IInv, Calls
<1> DEFINE Goal == /\ Pending(m)' => Pending(m) \/ \E t \in Tasks : m \in msg[t]
                   /\ m \in visible' => m \in visible \/ Pending(m) \/ m \in Fresh
<1>3. ASSUME UNCHANGED <<kept, batch, wire, staged>>, m \in visible' => m \in visible \/ m \in Fresh
      PROVE  Goal
  BY <1>3 DEF Pending
<1>4. ASSUME NEW t \in Tasks, Operate(t) PROVE Goal
  <2>1. CASE SendPublish(t) \/ SendSettle(t) \/ (DropFuture(t) /\ pc[t] = "ready")
    <3>1. UNCHANGED <<kept, batch, visible, staged>>
      BY <2>1 DEF SendPublish, SendSettle, DropFuture, hereVars
    <3>2. pc[t] = "ready"
      BY <2>1 DEF SendPublish, SendSettle
    <3>3. CASE wire' = wire
      BY <1>3, <3>1, <3>3
    <3>4. CASE wire' # wire
      <4>1. /\ held \in Channels /\ Len(wire[held]) \in Nat
            /\ \A d \in Channels \ {held} : wire'[d] = wire[d]
            /\ DOMAIN wire[held] = 1..Len(wire[held])
            /\ DOMAIN wire'[held] = 1..(Len(wire[held]) + 1)
            /\ \A n \in 1..Len(wire[held]) : wire'[held][n] = wire[held][n]
            /\ wire'[held][Len(wire[held]) + 1].msgs = msg[t]
        BY <2>1, <3>2, <3>4, Sending
      <4>2. ASSUME NEW c \in Channels, NEW n \in DOMAIN wire'[c], m \in wire'[c][n].msgs, m \notin msg[t]
            PROVE  n \in DOMAIN wire[c] /\ m \in wire[c][n].msgs
        <5>1. CASE c # held
          BY <4>1, <4>2, <5>1
        <5>2. CASE c = held
          BY <4>1, <4>2, <5>2
        <5> QED
          BY <5>1, <5>2
      <4> QED
        BY <3>1, <4>2 DEF Pending
    <3> QED
      BY <3>3, <3>4
  <2>2. CASE DropFuture(t) /\ pc[t] # "ready"
    <3>1. CASE wire' = wire
      BY <1>3, <2>2, <3>1 DEF DropFuture, hereVars
    <3>2. CASE wire' = Unwaited(t)
      <4>1. UNCHANGED <<kept, batch, visible, staged>>
        BY <2>2 DEF DropFuture, hereVars
      <4>2. ASSUME NEW c \in Channels, NEW n \in DOMAIN wire'[c]
            PROVE  n \in DOMAIN wire[c] /\ wire'[c][n].msgs = wire[c][n].msgs
        BY <1>1, <3>2, UnwaitedSame
      <4> QED
        BY <4>1, <4>2 DEF Pending
    <3> QED
      BY <2>2, <3>1, <3>2 DEF DropFuture
  <2>3. CASE PublishPlainly(t)
    <3>1. UNCHANGED <<kept, batch, wire, staged>> /\ \E p \in Fresh : visible' = visible \cup {p}
      BY <2>3 DEF PublishPlainly, hereVars
    <3> QED
      BY <1>3, <3>1
  <2>4. CASE CallBegin(t) \/ CallPublish(t) \/ CallSettle(t) \/ TxChannel(t) \/ Get(t)
             \/ SetOpen(t) \/ SettleFails(t) \/ SettleReturns(t)
    <3>1. UNCHANGED <<kept, batch, wire, staged, visible>>
      BY <2>4 DEF CallBegin, CallPublish, CallSettle, TxChannel, Get, SetOpen, SettleFails, SettleReturns,
                  hereVars, serverVars
    <3> QED
      BY <1>3, <3>1
  <2> QED
    BY <1>4, <2>1, <2>2, <2>3, <2>4 DEF Operate
<1>5. ASSUME NEW t \in Tasks, OperateHere(t) PROVE Goal
  <2>1. UNCHANGED <<wire, staged>>
    BY <1>5 DEF OperateHere, BeginHere, SetOpenHere, PublishHere, Stage, PublishPlainlyHere, TakeStaged,
                CloseHere, AbortedHere, FlushHere, FlushRefused, FlushedHere, serverVars
  <2>2. batch[t] \in Seq(Messages)
    BY <1>1
  <2>3. CASE PublishPlainlyHere(t)
    <3>1. UNCHANGED <<kept, batch>> /\ \E p \in Fresh : visible' = visible \cup {p}
      BY <2>3 DEF PublishPlainlyHere, hereVars
    <3> QED
      BY <1>3, <2>1, <3>1
  <2>4. CASE Stage(t)
    <3>1. PICK p \in msg[t] : kept' = Append(kept, p)
      BY <2>4 DEF Stage
    <3>2. UNCHANGED <<batch, visible>> /\ p \in Messages
      BY <1>1, <2>4 DEF Stage, serverVars, TypeOK
    <3>3. ToSet(kept') = ToSet(kept) \cup {p}
      BY <1>1, <3>1, <3>2, SetOfSequence
    <3> QED
      BY <2>1, <3>1, <3>2, <3>3 DEF Pending
  <2>5. CASE TakeStaged(t)
    <3>1. kept' = <<>> /\ visible' = visible /\ (batch' = batch \/ batch' = [batch EXCEPT ![t] = kept])
      BY <2>5 DEF TakeStaged, serverVars
    <3>2. ToSet(kept') = {}
      BY <3>1 DEF ToSet
    <3>3. \A u \in Tasks : batch'[u] = batch[u] \/ batch'[u] = kept
      BY <1>1, <3>1
    <3> QED
      BY <2>1, <3>1, <3>2, <3>3 DEF Pending
  <2>6. CASE CloseHere(t) \/ FlushRefused(t)
    <3>1. kept' = kept /\ visible' = visible /\ (batch' = batch \/ batch' = [batch EXCEPT ![t] = <<>>])
      BY <2>6 DEF CloseHere, FlushRefused, serverVars
    <3>2. \A u \in Tasks : batch'[u] = batch[u] \/ batch'[u] = <<>>
      BY <1>1, <3>1
    <3>3. m \notin ToSet(<<>>)
      BY DEF ToSet
    <3> QED
      BY <2>1, <3>1, <3>2, <3>3 DEF Pending
  <2>7. CASE FlushHere(t)
    <3>1. /\ kept' = kept /\ visible' = visible \cup {Head(batch[t])} /\ batch[t] # <<>>
          /\ batch' = [batch EXCEPT ![t] = Tail(batch[t])]
      BY <2>7 DEF FlushHere
    <3>2. ToSet(batch[t]) = {Head(batch[t])} \cup ToSet(Tail(batch[t]))
      BY <2>2, <3>1, SetOfSequence
    <3>3. \A u \in Tasks : batch'[u] = batch[u] \/ (u = t /\ batch'[u] = Tail(batch[t]))
      BY <1>1, <3>1
    <3> QED
      BY <2>1, <3>1, <3>2, <3>3 DEF Pending
  <2>8. CASE BeginHere(t) \/ SetOpenHere(t) \/ PublishHere(t) \/ AbortedHere(t) \/ FlushedHere(t)
    <3>1. UNCHANGED <<kept, batch, visible>>
      BY <2>8 DEF BeginHere, SetOpenHere, PublishHere, AbortedHere, FlushedHere, hereVars, serverVars
    <3> QED
      BY <1>3, <2>1, <3>1
  <2> QED
    BY <1>5, <2>3, <2>4, <2>5, <2>6, <2>7, <2>8 DEF OperateHere
<1>6. ASSUME NEW c \in Channels, Serve(c) \/ ServerCloses(c) \/ ClientLearns(c) PROVE Goal
  BY <1>6, ServerMoves
<1>7. CASE Shutdown \/ UNCHANGED vars
  BY <1>3, <1>7 DEF Shutdown, vars, hereVars, serverVars
<1> QED
  BY <1>4, <1>5, <1>6, <1>7 DEF Next

\* A message about to leave was never seen before.
LEMMA KeepsHandsAreFresh == IInv /\ [Next]_vars => HandsAreFresh'
<1> SUFFICES ASSUME IInv, [Next]_vars, NEW t \in Tasks, NEW m \in msg'[t]
             PROVE  /\ m \notin visible' \cup accepted' \cup promised' \cup discarded'
                    /\ cut'[m] = "none" /\ ~Pending(m)'
  BY DEF HandsAreFresh
<1> USE ServerTxAssumption
<1> DEFINE New == m \notin visible \cup accepted \cup promised \cup discarded /\ cut[m] = "none" /\ ~Pending(m)
<1>1. TypeOK /\ CallFits(t) /\ (m \in msg[t] => New)
  BY DEF IInv, Calls, HandsAreFresh
<1>2. CallFits(t)' /\ \A u \in Tasks : u = t
  BY KeepsCalls DEF IInv, Calls, UsedAlone
<1>3. op'[t] = "publish"
  BY <1>2 DEF CallFits
<1>4. ASSUME NEW p \in Fresh
      PROVE  p \notin visible \cup accepted \cup promised \cup discarded /\ cut[p] = "none" /\ ~Pending(p)
  BY <1>4 DEF Fresh, Pending
<1>5. ASSUME New, UNCHANGED <<accepted, cut, promised, discarded>>,
             m \in visible' => m \in visible \/ Pending(m), Pending(m)' => Pending(m)
      PROVE  New'
  BY <1>5
<1>6. ASSUME New, UNCHANGED <<accepted, cut, promised, discarded, visible, kept, batch, wire, staged>>
      PROVE  New'
  BY <1>6 DEF Pending
<1>7. CASE CallPublish(t) \/ PublishHere(t)
  <2>1. PICK p \in Fresh : msg' = [msg EXCEPT ![t] = {p}]
    BY <1>7 DEF CallPublish, PublishHere
  <2>2. m = p
    BY <1>1, <2>1 DEF TypeOK
  <2>3. New
    BY <1>4, <2>2
  <2>4. UNCHANGED <<accepted, cut, promised, discarded, visible, kept, batch, wire, staged>>
    BY <1>7 DEF CallPublish, PublishHere, hereVars, serverVars, claims
  <2> QED
    BY <1>6, <2>3, <2>4
<1>8. ASSUME Operate(t), ~CallPublish(t) PROVE New'
  <2>1. TxChannel(t)
    <3>1. ~Leave(t)
      BY <1>1, <1>3, Left
    <3>2. ~CallBegin(t) /\ ~CallSettle(t)
      BY <1>1, <1>3, Entered DEF CallBegin, CallSettle, Settling
    <3>3. ~PublishPlainly(t) /\ ~Get(t) /\ ~SendSettle(t)
      BY <1>1, <1>3, <3>1 DEF PublishPlainly, Get, SendSettle, CallFits, taskVars, Settling
    <3> QED
      BY <1>8, <3>1, <3>2, <3>3 DEF Operate, SetOpen, SendPublish, SettleFails, SettleReturns, DropFuture
  <2>2. m \in msg[t] /\ UNCHANGED <<accepted, cut, promised, discarded, visible, kept, batch, wire, staged>>
    BY <2>1 DEF TxChannel, hereVars, serverVars, claims
  <2> QED
    BY <1>1, <1>6, <2>2
<1>9. ASSUME OperateHere(t) PROVE PublishHere(t)
  <2>1. ~Leave(t)
    BY <1>1, <1>3, Left
  <2>2. ~BeginHere(t) /\ ~TakeStaged(t)
    BY <1>1, <1>3, Entered DEF BeginHere, TakeStaged, Settling
  <2>3. ~PublishPlainlyHere(t) /\ ~CloseHere(t) /\ ~FlushHere(t)
    BY <1>1, <1>3, <2>1 DEF PublishPlainlyHere, CloseHere, FlushHere, CallFits, taskVars, Here
  <2> QED
    BY <1>9, <2>1, <2>2, <2>3 DEF OperateHere, SetOpenHere, Stage, AbortedHere, FlushRefused, FlushedHere
<1>10. ASSUME NEW c \in Channels, Serve(c) \/ ServerCloses(c) \/ ClientLearns(c) PROVE New'
  <2>1. UNCHANGED <<msg, accepted, cut, promised, discarded>>
    BY <1>10 DEF Serve, ServerCloses, ClientLearns, taskVars, claims
  <2> QED
    BY <1>1, <1>5, <1>10, <2>1, ServerMoves
<1>11. CASE Shutdown \/ UNCHANGED vars
  <2>1. UNCHANGED <<msg, accepted, cut, promised, discarded, visible, kept, batch, wire, staged>>
    BY <1>11 DEF Shutdown, vars, taskVars, claims, hereVars, serverVars
  <2> QED
    BY <1>1, <1>6, <2>1
<1> QED
  BY <1>2, <1>7, <1>8, <1>9, <1>10, <1>11 DEF Next

\* What is accepted comes from the hand of a task.
LEMMA AcceptedFrom ==
  ASSUME [Next]_vars, NEW m, m \in accepted'
  PROVE  m \in accepted \/ \E t \in Tasks : m \in msg[t]
<1>1. ASSUME NEW t \in Tasks, Operate(t) PROVE m \in accepted \cup msg[t]
  BY <1>1 DEF Operate, CallBegin, CallPublish, PublishPlainly, CallSettle, TxChannel, Get, SetOpen,
     SendPublish, SendSettle, SettleFails, SettleReturns, DropFuture, claims
<1>2. ASSUME NEW t \in Tasks, OperateHere(t) PROVE m \in accepted \cup msg[t]
  BY <1>2 DEF OperateHere, BeginHere, SetOpenHere, PublishHere, Stage, PublishPlainlyHere, TakeStaged,
     CloseHere, AbortedHere, FlushHere, FlushRefused, FlushedHere, claims
<1>3. ASSUME NEW c \in Channels, Serve(c) \/ ServerCloses(c) \/ ClientLearns(c) PROVE m \in accepted
  BY <1>3 DEF Serve, ServerCloses, ClientLearns, claims
<1>4. CASE Shutdown \/ UNCHANGED vars
  BY <1>4 DEF Shutdown, vars, claims
<1> QED
  BY <1>1, <1>2, <1>3, <1>4 DEF Next

\* What the server routed stays routed.
LEMMA VisibleGrows == IInv /\ [Next]_vars => visible \subseteq visible'
<1> SUFFICES ASSUME IInv, [Next]_vars PROVE visible \subseteq visible'
  OBVIOUS
<1>1. ASSUME NEW c \in Channels, Serve(c) PROVE visible \subseteq visible'
  BY <1>1, Served DEF IInv
<1> QED
  BY <1>1 DEF Next, Operate, CallBegin, CallPublish, PublishPlainly, CallSettle, TxChannel, Get, SetOpen,
              SendPublish, SendSettle, SettleFails, SettleReturns, DropFuture,
              OperateHere, BeginHere, SetOpenHere, PublishHere, Stage, PublishPlainlyHere, TakeStaged,
              CloseHere, AbortedHere, FlushHere, FlushRefused, FlushedHere,
              ServerCloses, ClientLearns, Shutdown, vars, serverVars

\* A message is told of by the step that returns Ok, over what the transaction accepted.
LEMMA Telling ==
  ASSUME IInv, [Next]_vars, NEW m \in promised' \cup discarded', m \notin promised \cup discarded
  PROVE  \E t \in Tasks :
           /\ SettleReturns(t) \/ FlushedHere(t) \/ AbortedHere(t)
           /\ m \in accepted /\ accepted' = {} /\ cut' = cut
           /\ UNCHANGED <<visible, kept, batch, wire, staged>>
           /\ m \in promised' => op[t] = "commit"
           /\ m \in discarded' => op[t] = "rollback"
<1>1. PICK t \in Tasks : SettleReturns(t) \/ FlushedHere(t) \/ AbortedHere(t)
  BY DEF Next, Operate, CallBegin, CallPublish, PublishPlainly, CallSettle, TxChannel, Get, SetOpen,
         SendPublish, SendSettle, SettleFails, DropFuture,
         OperateHere, BeginHere, SetOpenHere, PublishHere, Stage, PublishPlainlyHere, TakeStaged,
         CloseHere, FlushHere, FlushRefused,
         Serve, ServerCloses, ClientLearns, Shutdown, vars, claims
<1>2. CallFits(t)
  BY DEF IInv, Calls
<1> QED
  BY <1>1, <1>2 DEF SettleReturns, FlushedHere, AbortedHere, CallFits, Settling, hereVars, serverVars

\* A transaction that returned Ok is over: nothing of it is on its way.
LEMMA KeepsToldIsOver == IInv /\ [Next]_vars => ToldIsOver'
<1> SUFFICES ASSUME IInv, [Next]_vars, NEW m \in promised' \cup discarded'
             PROVE  m \notin accepted' /\ ~Pending(m)'
  BY DEF ToldIsOver
<1>1. /\ TypeOK /\ NothingLeft /\ HandsAreFresh /\ ToldIsOver
      /\ link \in {"amqp", "in_process"}
  BY DEF IInv, TypeOK
<1>2. ASSUME NEW t \in Tasks PROVE CallFits(t) /\ \A u \in Tasks : u = t
  BY DEF IInv, Calls, UsedAlone
<1>3. CASE m \in promised \cup discarded
  <2>1. m \in Messages /\ m \notin accepted /\ ~Pending(m) /\ \A t \in Tasks : m \notin msg[t]
    BY <1>1, <1>3 DEF TypeOK, ToldIsOver, HandsAreFresh
  <2> QED
    BY <2>1, Spreads, AcceptedFrom
<1>4. CASE m \notin promised \cup discarded
  <2>1. PICK t \in Tasks :
          /\ SettleReturns(t) \/ FlushedHere(t) \/ AbortedHere(t)
          /\ accepted' = {} /\ UNCHANGED <<visible, kept, batch, wire, staged>>
    BY <1>4, Telling
  <2>2. kept = <<>> /\ batch[t] = <<>> /\ \A c \in Channels : ~Carries(c)
    <3>1. CASE SettleReturns(t)
      <4>1. link = "amqp" /\ pc[t] = "answered"
        BY <3>1, WhichTransport DEF Operate, SettleReturns
      <4> QED
        BY <1>1, <4>1 DEF NothingLeft
    <3>2. CASE FlushedHere(t) \/ AbortedHere(t)
      <4>1. link = "in_process" /\ pc[t] \in {"flushing", "cleared"}
        BY <3>2, WhichTransport DEF OperateHere, FlushedHere, AbortedHere
      <4>2. \A c \in Channels : c # held
        BY <1>1, <4>1, ServerTxAssumption DEF NothingLeft, NoChannel, Channels
      <4>3. \A c \in Channels : ~Carries(c)
        BY <4>2 DEF IInv, OneChannel, Carries
      <4>4. kept = <<>>
        BY <1>1, <1>2, <4>1 DEF NothingLeft, CallFits
      <4>5. batch[t] = <<>>
        BY <1>1, <3>2, <4>1 DEF NothingLeft, FlushedHere, AbortedHere
      <4> QED
        BY <4>3, <4>4, <4>5
    <3> QED
      BY <2>1, <3>1, <3>2
  <2>3. ~Pending(m)
    <3>1. m \notin ToSet(<<>>) /\ \A u \in Tasks : batch[u] = <<>>
      BY <1>2, <2>2 DEF ToSet
    <3>2. \A c \in Channels : wire[c] = <<>> /\ staged[c] = {}
      BY <2>2 DEF Carries
    <3> QED
      BY <2>2, <3>1, <3>2 DEF Pending
  <2> QED
    BY <2>1, <2>3 DEF Pending
<1> QED
  BY <1>3, <1>4

\* A channel carries what its open transaction accepted, behind what was cut.
LEMMA KeepsCarriedBehindCuts == IInv /\ [Next]_vars => CarriedBehindCuts'
<1> SUFFICES ASSUME IInv, [Next]_vars, link = "amqp", NEW m \in Uncut' PROVE Carried(m)'
  BY SameLink DEF CarriedBehindCuts
<1> USE ServerTxAssumption
<1>1. TypeOK /\ OneChannel /\ NothingLeft /\ HandsAreFresh /\ wire \in [Channels -> Seq(Frame)]
  BY DEF IInv, TypeOK
<1>2. ASSUME NEW t \in Tasks PROVE CallFits(t) /\ \A u \in Tasks : u = t
  BY DEF IInv, Calls, UsedAlone
<1>3. m \in Uncut => Carried(m)
  BY DEF IInv, CarriedBehindCuts
<1>0. m \in Messages /\ m \in accepted' /\ cut'[m] = "none"
  BY KeepsTypeOK DEF Uncut, TypeOK
\* A step of a task away from its answer, that leaves the channel as it is.
<1>4. ASSUME NEW t \in Tasks, m \in Uncut, UNCHANGED <<wire, staged, state, held, visible>>,
             pc[t] \notin {"awaiting", "answered"} \/ ~Usable(held), pc'[t] \notin {"awaiting", "answered"}
      PROVE  Carried(m)'
  <2>1. Carried(m)
    BY <1>3, <1>4
  <2>2. \A c \in Channels : c = held /\ state[c] = "up" => Usable(held) /\ pc[t] # "answered"
    BY <1>4 DEF Usable, NoChannel, Channels
  <2>3. Usable(held)' = Usable(held) /\ \A c \in Channels : \A n : CutAt(c, n)' = CutAt(c, n)
    BY <1>4 DEF Usable, CutAt
  <2> QED
    BY <1>2, <1>4, <2>1, <2>2, <2>3 DEF Carried
\* A frame that leaves.
<1>5. ASSUME NEW t \in Tasks, SendPublish(t) \/ SendSettle(t) \/ DropFuture(t), pc[t] = "ready"
      PROVE  Carried(m)'
  <2>1. /\ held \in Channels /\ chan[t] = held /\ UNCHANGED <<state, staged, held, visible, cut>>
        /\ op[t] \in {"publish"} \cup Settling
        /\ op[t] \in Settling => pc'[t] = "awaiting" /\ op'[t] = op[t]
        /\ state[held] # "up" => wire' = wire
    <3>1. UNCHANGED <<visible, cut>>
      BY <1>5 DEF SendPublish, SendSettle, DropFuture, claims
    <3> QED
      BY <1>5, <3>1, Sending
  <2>2. pc'[t] # "answered" /\ (pc'[t] = "awaiting" => Usable(held))
    BY <1>1, <1>5, <2>1, Left DEF SendPublish, SendSettle, DropFuture, TypeOK
  <2>3. Usable(held)' = Usable(held)
    BY <2>1 DEF Usable
  <2>4. wire' # wire =>
          /\ state[held] = "up" /\ Len(wire[held]) \in Nat
          /\ \A d \in Channels \ {held} : wire'[d] = wire[d]
          /\ Len(wire'[held]) = Len(wire[held]) + 1
          /\ DOMAIN wire[held] = 1..Len(wire[held])
          /\ DOMAIN wire'[held] = 1..(Len(wire[held]) + 1)
          /\ \A n \in 1..Len(wire[held]) : wire'[held][n] = wire[held][n]
          /\ wire'[held][Len(wire[held]) + 1].kind = op[t]
          /\ wire'[held][Len(wire[held]) + 1].msgs = msg[t]
          /\ wire'[held][Len(wire[held]) + 1].by = IF op[t] = "publish" THEN NoTask ELSE t
    BY <1>5, Sending
  <2>5. wire' # wire =>
          \A n \in DOMAIN wire'[held] :
            wire'[held][n].kind \in Settling /\ wire'[held][n].by \notin Tasks =>
              n \in DOMAIN wire[held] /\ CutAt(held, n)
    <3> SUFFICES ASSUME wire' # wire, NEW n \in DOMAIN wire'[held],
                        wire'[held][n].kind \in Settling, wire'[held][n].by \notin Tasks
                 PROVE  n \in DOMAIN wire[held] /\ CutAt(held, n)
      OBVIOUS
    <3>1. CASE n \in DOMAIN wire[held]
      BY <2>1, <2>4, <3>1 DEF CutAt
    <3>2. CASE n = Len(wire[held]) + 1
      BY <2>1, <2>4, <3>2 DEF CutAt, Settling
    <3> QED
      BY <2>4, <3>1, <3>2
  <2>6. \A d \in Channels : wire'[d] = wire[d] => \A n : CutAt(d, n)' <=> CutAt(d, n)
    BY DEF CutAt
  <2>7. CASE m \in Uncut
    <3>1. Carried(m) /\ (m \in visible => ~Usable(held))
      BY <1>3, <1>5, <2>7 DEF Carried
    <3>2. \A u \in Tasks :
            /\ pc'[u] = "answered" /\ op'[u] = "commit" => m \in visible'
            /\ m \in visible' =>
                 \/ pc'[u] = "answered" /\ op'[u] = "commit"
                 \/ pc'[u] \notin {"awaiting", "answered"} /\ ~Usable(held)'
      BY <1>2, <2>1, <2>2, <2>3, <3>1
    <3>3. ASSUME NEW c \in Channels
          PROVE  /\ c = held' /\ state'[c] = "up" /\ (\A u \in Tasks : pc'[u] # "answered") =>
                      m \in staged'[c] \/ \E n \in DOMAIN wire'[c] : m \in wire'[c][n].msgs
                 /\ m \in staged'[c] => \A n \in DOMAIN wire'[c] : ~CutAt(c, n)'
                 /\ \A n, k \in DOMAIN wire'[c] : m \in wire'[c][n].msgs /\ CutAt(c, k)' => k < n
      <4>1. /\ c = held /\ state[c] = "up" => m \in staged[c] \/ \E n \in DOMAIN wire[c] : m \in wire[c][n].msgs
            /\ m \in staged[c] => \A n \in DOMAIN wire[c] : ~CutAt(c, n)
            /\ \A n, k \in DOMAIN wire[c] : m \in wire[c][n].msgs /\ CutAt(c, k) => k < n
        BY <1>2, <1>5, <3>1 DEF Carried
      <4>2. CASE wire'[c] = wire[c]
        BY <2>1, <2>6, <4>1, <4>2
      <4>3. CASE wire'[c] # wire[c]
        <5>1. c = held /\ wire' # wire
          BY <2>4, <4>3
        <5>2. /\ DOMAIN wire[c] = 1..Len(wire[c]) /\ Len(wire[c]) \in Nat
              /\ DOMAIN wire'[c] = 1..(Len(wire[c]) + 1)
              /\ \A n \in 1..Len(wire[c]) : wire'[c][n] = wire[c][n]
          BY <2>4, <5>1
        <5>3. \A n \in DOMAIN wire'[c] : CutAt(c, n)' => n \in DOMAIN wire[c] /\ CutAt(c, n)
          BY <2>5, <5>1 DEF CutAt
        <5>4. m \in staged[c] \/ (\E n \in DOMAIN wire[c] : m \in wire[c][n].msgs)
              => m \in staged'[c] \/ \E n \in DOMAIN wire'[c] : m \in wire'[c][n].msgs
          <6>1. DOMAIN wire[c] \subseteq DOMAIN wire'[c]
            BY <5>2
          <6> QED
            BY <2>1, <5>2, <6>1
        <5>5. ASSUME NEW n \in DOMAIN wire'[c], NEW k \in DOMAIN wire'[c], m \in wire'[c][n].msgs, CutAt(c, k)'
              PROVE  k < n
          <6>1. k \in DOMAIN wire[c] /\ CutAt(c, k)
            BY <5>3, <5>5
          <6>2. CASE n \in DOMAIN wire[c]
            BY <4>1, <5>2, <5>5, <6>1, <6>2
          <6>3. CASE n = Len(wire[c]) + 1
            BY <5>2, <6>1, <6>3
          <6> QED
            BY <5>2, <6>2, <6>3
        <5>6. m \in staged'[c] => \A n \in DOMAIN wire'[c] : ~CutAt(c, n)'
          BY <2>1, <4>1, <5>3
        <5>7. c = held' /\ state'[c] = "up" => c = held /\ state[c] = "up"
          BY <2>1
        <5> QED
          BY <4>1, <5>4, <5>5, <5>6, <5>7
      <4> QED
        BY <4>2, <4>3
    <3> QED
      BY <3>2, <3>3 DEF Carried
  <2>8. CASE m \notin Uncut
    <3>1. SendPublish(t) /\ m \in msg[t] /\ Usable(held) /\ Sent(held, "publish", msg[t], NoTask)
      BY <1>5, <1>0, <2>1, <2>8 DEF SendPublish, SendSettle, DropFuture, claims, Uncut
    <3>2. m \notin visible /\ ~Pending(m)
      BY <1>1, <3>1 DEF HandsAreFresh
    <3>3. op[t] = "publish" /\ pc'[t] = "idle"
      BY <1>1, <3>1, Left DEF SendPublish
    <3>4. state[held] = "up" => wire' # wire
      <4>1. held \in Channels /\ msg[t] \in SUBSET Messages
        BY <1>1, <2>1 DEF TypeOK
      <4>2. state[held] = "up" => Len(wire[held]) \in Nat /\ Len(wire'[held]) = Len(wire[held]) + 1
        BY <1>1, <3>1, <4>1, SentLast
      <4> QED
        BY <4>2
    <3>5. ASSUME NEW c \in Channels
          PROVE  /\ c = held' /\ state'[c] = "up" => \E n \in DOMAIN wire'[c] : m \in wire'[c][n].msgs
                 /\ m \notin staged'[c]
                 /\ \A n, k \in DOMAIN wire'[c] : m \in wire'[c][n].msgs /\ CutAt(c, k)' => k < n
      <4>1. m \notin staged[c] /\ \A n \in DOMAIN wire[c] : m \notin wire[c][n].msgs
        BY <3>2 DEF Pending
      <4>2. CASE wire'[c] = wire[c]
        <5>1. ~(c = held /\ state[c] = "up")
          BY <2>4, <3>4, <4>2
        <5> QED
          BY <2>1, <4>1, <4>2, <5>1
      <4>3. CASE wire'[c] # wire[c]
        <5>1. c = held /\ wire' # wire
          BY <2>4, <4>3
        <5>2. /\ DOMAIN wire[c] = 1..Len(wire[c]) /\ Len(wire[c]) \in Nat
              /\ DOMAIN wire'[c] = 1..(Len(wire[c]) + 1)
              /\ \A n \in 1..Len(wire[c]) : wire'[c][n] = wire[c][n]
              /\ wire'[c][Len(wire[c]) + 1].msgs = msg[t]
          BY <2>4, <5>1
        <5>3. \A n \in DOMAIN wire'[c] : CutAt(c, n)' => n \in DOMAIN wire[c]
          BY <2>5, <5>1 DEF CutAt
        <5>4. Len(wire[c]) + 1 \in DOMAIN wire'[c] /\ m \in wire'[c][Len(wire[c]) + 1].msgs
          BY <3>1, <5>2
        <5>5. ASSUME NEW n \in DOMAIN wire'[c], NEW k \in DOMAIN wire'[c], m \in wire'[c][n].msgs, CutAt(c, k)'
              PROVE  k < n
          <6>1. k \in DOMAIN wire[c]
            BY <5>3, <5>5
          <6>2. n = Len(wire[c]) + 1
            BY <4>1, <5>2, <5>5
          <6> QED
            BY <5>2, <6>1, <6>2
        <5> QED
          BY <2>1, <4>1, <5>4, <5>5
      <4> QED
        BY <4>2, <4>3
    <3> QED
      BY <1>2, <2>1, <3>2, <3>3, <3>5 DEF Carried
  <2> QED
    BY <2>7, <2>8
<1>6. ASSUME NEW t \in Tasks, Operate(t) PROVE Carried(m)'
  <2>1. CASE SendPublish(t) \/ SendSettle(t) \/ (DropFuture(t) /\ pc[t] = "ready")
    BY <1>5, <2>1 DEF SendPublish, SendSettle
  <2>2. CASE CallBegin(t) \/ PublishPlainly(t) \/ Get(t) \/ SetOpen(t) \/ SettleReturns(t)
             \/ (DropFuture(t) /\ pc[t] # "ready")
    <3>1. CASE SettleReturns(t)
      BY <1>0, <3>1 DEF SettleReturns
    <3>2. CASE DropFuture(t) /\ pc[t] \in {"awaiting", "answered"}
      <4>1. /\ accepted' = accepted /\ op[t] \in Settling
            /\ cut'[m] = IF m \in accepted /\ cut[m] = "none" THEN op[t] ELSE cut[m]
        BY <1>2, <1>0, <3>2 DEF DropFuture, CallFits
      <4> QED
        BY <1>0, <4>1 DEF Settling
    <3>3. CASE CallBegin(t) \/ PublishPlainly(t) \/ Get(t) \/ SetOpen(t) \/ (DropFuture(t) /\ pc[t] = "getting")
      <4>1. ~open /\ accepted' = accepted
        BY <1>2, <3>3 DEF CallBegin, PublishPlainly, Get, SetOpen, DropFuture, CallFits, claims
      <4>2. \A u \in Tasks : pc[u] # "flushing"
        BY <1>2 DEF CallFits, OverAmqp
      <4> QED
        BY <1>1, <1>0, <4>1, <4>2 DEF NothingLeft
    <3> QED
      BY <2>2, <3>1, <3>2, <3>3 DEF DropFuture
  <2>3. CASE CallPublish(t) \/ CallSettle(t) \/ TxChannel(t)
    <3>1. UNCHANGED <<wire, staged, state, held, visible, accepted, cut>> /\ pc[t] \in {"idle", "channel"}
      BY <2>3 DEF CallPublish, CallSettle, TxChannel, serverVars, claims
    <3>2. pc'[t] \in {"channel", "ready", "getting"}
      BY <1>1, <2>3, Entered DEF CallPublish, CallSettle, TxChannel, TypeOK
    <3> QED
      BY <1>4, <3>1, <3>2 DEF Uncut
  <2>4. CASE SettleFails(t)
    <3>1. UNCHANGED <<wire, staged, state, held, visible, accepted, cut>> /\ pc'[t] = "idle"
      BY <1>1, <2>4, Left DEF SettleFails, serverVars, claims
    <3>2. ~Usable(held)
      BY <1>2, <2>4 DEF SettleFails, CallFits
    <3> QED
      BY <1>4, <3>1, <3>2 DEF Uncut
  <2> QED
    BY <1>6, <2>1, <2>2, <2>3, <2>4 DEF Operate
<1>7. ASSUME NEW c \in Channels, Serve(c) PROVE Carried(m)'
  <2>1. UNCHANGED <<state, held, op, accepted, cut>> /\ state[c] = "up" /\ wire[c] # <<>>
    BY <1>7 DEF Serve, claims
  <2>2. /\ Len(wire[c]) \in Nat \ {0} /\ 1 \in DOMAIN wire[c] /\ DOMAIN wire[c] = 1..Len(wire[c])
        /\ wire[c][1] \in Frame /\ wire' \in [Channels -> Seq(Frame)]
        /\ \A d \in Channels \ {c} : wire'[d] = wire[d] /\ staged'[d] = staged[d]
        /\ Len(wire'[c]) = Len(wire[c]) - 1 /\ DOMAIN wire'[c] = 1..(Len(wire[c]) - 1)
        /\ \A n \in DOMAIN wire'[c] : wire'[c][n] = wire[c][n + 1]
        /\ staged'[c] = IF wire[c][1].kind = "publish" THEN staged[c] \cup wire[c][1].msgs ELSE {}
        /\ visible' = IF wire[c][1].kind = "commit" THEN visible \cup staged[c] ELSE visible
        /\ pc' = [t \in Tasks |-> IF wire[c][1].by = t THEN "answered" ELSE pc[t]]
    BY <1>1, <1>7, Served
  <2>3. /\ c = held /\ Usable(held) /\ \A t \in Tasks : pc[t] # "answered"
        /\ \A d \in Channels \ {c} : wire'[d] = <<>> /\ staged'[d] = {}
    <3>1. c = held
      BY <1>1, <2>1 DEF OneChannel
    <3>2. Usable(held)
      BY <2>1, <3>1 DEF Usable, NoChannel, Channels
    <3>3. \A t \in Tasks : pc[t] # "answered"
      BY <1>1, <2>1 DEF NothingLeft, Carries
    <3>4. \A d \in Channels \ {c} : wire'[d] = <<>> /\ staged'[d] = {}
      BY <1>1, <2>2, <3>1 DEF OneChannel
    <3> QED
      BY <3>1, <3>2, <3>3, <3>4
  <2>4. Carried(m)
    BY <1>3, <2>1 DEF Uncut
  <2>5. /\ m \in staged[c] \/ \E n \in DOMAIN wire[c] : m \in wire[c][n].msgs
        /\ m \in staged[c] => \A n \in DOMAIN wire[c] : ~CutAt(c, n)
        /\ \A n, k \in DOMAIN wire[c] : m \in wire[c][n].msgs /\ CutAt(c, k) => k < n
        /\ \A t \in Tasks : m \notin visible
    BY <2>1, <2>3, <2>4 DEF Carried
  <2>6. wire[c][1].kind \in Settling => wire[c][1].msgs = {}
    BY <1>1, <2>2 DEF OneChannel
  <2>7. ASSUME NEW t \in Tasks, wire[c][1].by = t PROVE Carried(m)'
    <3>1. ASSUME NEW n \in DOMAIN wire[c], wire[c][n].by = t
          PROVE  n = Len(wire[c]) /\ pc[t] = "awaiting" /\ wire[c][n].kind = op[t]
      BY <1>1, <3>1 DEF OneChannel
    <3>2. 1 = Len(wire[c]) /\ pc[t] = "awaiting" /\ wire[c][1].kind = op[t]
      BY <2>2, <2>7, <3>1, Zenon
    <3>3. op[t] \in Settling /\ pc'[t] = "answered"
      BY <1>2, <2>2, <2>7, <3>2 DEF CallFits
    <3>4. \A d \in Channels : wire'[d] = <<>> /\ staged'[d] = {}
      <4>1. wire'[c] \in Seq(Frame) /\ Len(wire'[c]) = 0
        BY <2>2, <3>2
      <4>2. wire'[c] = <<>> /\ staged'[c] = {}
        BY <2>2, <3>2, <3>3, <4>1 DEF Settling
      <4> QED
        BY <2>3, <4>2
    <3>5. m \in staged[c]
      BY <2>2, <2>5, <2>6, <3>2, <3>3
    <3>6. m \in visible' <=> op[t] = "commit"
      BY <2>2, <2>5, <3>2, <3>5
    <3> QED
      BY <1>2, <2>1, <3>3, <3>4, <3>6 DEF Carried
  <2>8. ASSUME \A t \in Tasks : wire[c][1].by # t PROVE Carried(m)'
    <3>1. \A t \in Tasks : pc'[t] = pc[t]
      BY <2>2, <2>8
    <3>2. wire[c][1].kind \in {"publish"} \cup Settling
      BY <2>2 DEF Frame
    <3>3. wire[c][1].kind \in Settling => CutAt(c, 1)
      BY <2>8 DEF CutAt
    <3>4. wire[c][1].kind \in Settling => m \notin staged[c]
      BY <2>2, <2>5, <3>3
    <3>5. \A t \in Tasks : m \notin visible'
      BY <2>2, <2>5, <3>4 DEF Settling
    <3>6. \A n \in DOMAIN wire'[c] : n \in Nat \ {0} /\ n + 1 \in DOMAIN wire[c] /\ wire'[c][n] = wire[c][n + 1]
      BY <2>2
    <3>7. \A n \in DOMAIN wire[c] : n # 1 => n - 1 \in DOMAIN wire'[c] /\ wire'[c][n - 1] = wire[c][n]
      <4> SUFFICES ASSUME NEW n \in DOMAIN wire[c], n # 1
                   PROVE  n - 1 \in DOMAIN wire'[c] /\ wire'[c][n - 1] = wire[c][n]
        OBVIOUS
      <4>1. n \in Int /\ n - 1 \in DOMAIN wire'[c] /\ (n - 1) + 1 = n
        BY <2>2
      <4> QED
        BY <3>6, <4>1
    <3>8. \A n \in DOMAIN wire'[c] : CutAt(c, n)' => CutAt(c, n + 1)
      BY <3>6 DEF CutAt
    <3>9. m \in staged'[c] \/ \E n \in DOMAIN wire'[c] : m \in wire'[c][n].msgs
      <4>1. CASE m \in staged[c]
        BY <2>2, <3>2, <3>4, <4>1
      <4>2. CASE m \in wire[c][1].msgs
        BY <2>2, <2>6, <3>2, <4>2
      <4>3. ASSUME NEW n \in DOMAIN wire[c], n # 1, m \in wire[c][n].msgs
            PROVE  \E k \in DOMAIN wire'[c] : m \in wire'[c][k].msgs
        BY <3>7, <4>3
      <4> QED
        BY <2>5, <4>1, <4>2, <4>3
    <3>10. ASSUME m \in staged'[c], NEW n \in DOMAIN wire'[c], CutAt(c, n)' PROVE FALSE
      <4>1. n + 1 \in DOMAIN wire[c] /\ CutAt(c, n + 1) /\ n \in Nat \ {0}
        BY <3>6, <3>8, <3>10
      <4>2. m \in wire[c][1].msgs
        BY <2>2, <2>5, <3>10, <4>1
      <4>3. n + 1 < 1
        BY <2>2, <2>5, <4>1, <4>2
      <4> QED
        BY <4>1, <4>3
    <3>11. ASSUME NEW n \in DOMAIN wire'[c], NEW k \in DOMAIN wire'[c], m \in wire'[c][n].msgs, CutAt(c, k)'
           PROVE  k < n
      <4>1. /\ n + 1 \in DOMAIN wire[c] /\ k + 1 \in DOMAIN wire[c] /\ n \in Nat /\ k \in Nat
            /\ m \in wire[c][n + 1].msgs /\ CutAt(c, k + 1)
        BY <3>6, <3>8, <3>11
      <4>2. k + 1 < n + 1
        BY <2>5, <4>1
      <4> QED
        BY <4>1, <4>2
    <3> QED
      BY <2>1, <2>3, <3>1, <3>5, <3>9, <3>10, <3>11 DEF Carried
  <2> QED
    BY <2>7, <2>8
<1>8. ASSUME NEW c \in Channels, ServerCloses(c) \/ ClientLearns(c) PROVE Carried(m)'
  <2>1. UNCHANGED <<held, op, pc, accepted, cut, visible>> /\ state'[c] # "up"
    BY <1>1, <1>8 DEF ServerCloses, ClientLearns, taskVars, claims, TypeOK
  <2>2. Carried(m)
    BY <1>3, <2>1 DEF Uncut
  <2>3. ~Usable(held) => ~Usable(held)'
    BY <1>1, <1>8 DEF ServerCloses, ClientLearns, Usable, TypeOK
  <2>4. \A d \in Channels : \/ wire'[d] = wire[d] /\ staged'[d] = staged[d]
                            \/ wire'[d] = <<>> /\ staged'[d] = {}
    BY <1>1, <1>8 DEF ServerCloses, ClientLearns, TypeOK
  <2>5. \A d \in Channels \ {c} : state'[d] = state[d] /\ wire'[d] = wire[d] /\ staged'[d] = staged[d]
    BY <1>1, <1>8 DEF ServerCloses, ClientLearns, TypeOK
  <2>6. ASSUME NEW d \in Channels
        PROVE  /\ d = held' /\ state'[d] = "up" /\ (\A t \in Tasks : pc'[t] # "answered") =>
                    m \in staged'[d] \/ \E n \in DOMAIN wire'[d] : m \in wire'[d][n].msgs
               /\ m \in staged'[d] => \A n \in DOMAIN wire'[d] : ~CutAt(d, n)'
               /\ \A n, k \in DOMAIN wire'[d] : m \in wire'[d][n].msgs /\ CutAt(d, k)' => k < n
    <3>1. CASE wire'[d] = <<>> /\ staged'[d] = {} /\ d = c
      BY <2>1, <3>1
    <3>2. CASE wire'[d] = wire[d] /\ staged'[d] = staged[d]
      <4>1. \A n : CutAt(d, n)' <=> CutAt(d, n)
        BY <3>2 DEF CutAt
      <4>2. d = held' /\ state'[d] = "up" => d = held /\ state[d] = "up"
        BY <2>1, <2>5
      <4> QED
        BY <2>1, <2>2, <3>2, <4>1, <4>2 DEF Carried
    <3> QED
      BY <2>4, <2>5, <3>1, <3>2
  <2> QED
    BY <2>1, <2>2, <2>3, <2>6 DEF Carried
<1>9. CASE Shutdown \/ UNCHANGED vars
  <2>1. UNCHANGED <<held, op, pc, accepted, cut, visible, state, wire, staged>>
    BY <1>9 DEF Shutdown, vars, taskVars, claims, serverVars
  <2>2. Carried(m) /\ Usable(held)' = Usable(held) /\ \A c \in Channels : \A n : CutAt(c, n)' = CutAt(c, n)
    BY <1>3, <2>1 DEF Usable, CutAt, Uncut
  <2> QED
    BY <2>1, <2>2 DEF Carried
<1>10. ASSUME NEW t \in Tasks PROVE ~OperateHere(t)
  BY WhichTransport
<1> QED
  BY <1>6, <1>7, <1>8, <1>9, <1>10 DEF Next

\* What a task awaits stays the last frame of its channel.
LEMMA KeepsLastAwaited == IInv /\ [Next]_vars => LastAwaited'
<1> SUFFICES ASSUME IInv, [Next]_vars, NEW t \in Tasks, NEW c \in Channels,
                    c = held', state'[c] = "up", pc'[t] = "awaiting"
             PROVE  wire'[c] # <<>> /\ wire'[c][Len(wire'[c])].by = t
  BY DEF LastAwaited
<1> USE ServerTxAssumption
<1>1. /\ TypeOK /\ OneChannel /\ NothingLeft /\ CallFits(t)
      /\ c = held /\ state[c] = "up" /\ pc[t] = "awaiting" =>
           wire[c] # <<>> /\ wire[c][Len(wire[c])].by = t
  BY DEF IInv, Calls, LastAwaited
<1>2. \A u \in Tasks : u = t
  BY DEF IInv, UsedAlone
<1>3. CASE SendSettle(t)
  <2>1. c = held /\ state[c] = "up" /\ op[t] \in Settling /\ chan[t] = held /\ Sent(c, op[t], {}, t)
    <3>1. pc[t] = "ready" /\ op[t] \in Settling /\ Sent(chan[t], op[t], {}, t)
      BY <1>3 DEF SendSettle
    <3> QED
      BY <1>3, <3>1, Sending
  <2>2. PICK kind \in Settling, none \in SUBSET Messages : kind = op[t] /\ none = {}
    BY <2>1
  <2>3. Sent(c, kind, none, t)
    BY <2>1, <2>2
  <2>4. /\ wire' \in [Channels -> Seq(Frame)] /\ Len(wire[c]) \in Nat /\ Len(wire'[c]) = Len(wire[c]) + 1
        /\ wire'[c][Len(wire[c]) + 1].by = t
    BY <1>1, <2>1, <2>3, SentLast
  <2>5. wire'[c] # <<>>
    BY <2>4
  <2> QED
    BY <2>4, <2>5
<1>4. ASSUME NEW u \in Tasks, Operate(u), ~SendSettle(u) PROVE FALSE
  <2>1. u = t
    BY <1>2
  <2>2. ~Leave(t)
    BY <1>1, Left
  <2>3. ~CallBegin(t) /\ ~CallPublish(t) /\ ~CallSettle(t)
    BY <1>1, Entered DEF CallBegin, CallPublish, CallSettle
  <2>4. ~PublishPlainly(t) /\ ~TxChannel(t) /\ ~Get(t)
    BY <1>1, <2>2 DEF PublishPlainly, TxChannel, Get, TypeOK, taskVars
  <2> QED
    BY <1>4, <2>1, <2>2, <2>3, <2>4 DEF Operate, SetOpen, SendPublish, SettleFails, SettleReturns, DropFuture
<1>5. ASSUME NEW u \in Tasks, OperateHere(u) PROVE FALSE
  <2>1. link = "in_process" /\ held' = held
    BY <1>5, WhichTransport DEF OperateHere, BeginHere, SetOpenHere, PublishHere, Stage, PublishPlainlyHere,
       TakeStaged, CloseHere, AbortedHere, FlushHere, FlushRefused, FlushedHere
  <2> QED
    BY <1>1, <2>1 DEF NothingLeft, NoChannel, Channels
<1>6. ASSUME NEW d \in Channels, Serve(d) PROVE wire'[c] # <<>> /\ wire'[c][Len(wire'[c])].by = t
  <2>1. UNCHANGED <<state, held>> /\ state[d] = "up" /\ wire[d] # <<>>
    BY <1>6 DEF Serve
  <2>2. d = c
    BY <1>1, <2>1 DEF OneChannel
  <2>3. /\ Len(wire[c]) \in Nat \ {0} /\ wire' \in [Channels -> Seq(Frame)]
        /\ Len(wire'[c]) = Len(wire[c]) - 1 /\ DOMAIN wire'[c] = 1..(Len(wire[c]) - 1)
        /\ \A n \in DOMAIN wire'[c] : wire'[c][n] = wire[c][n + 1]
        /\ pc'[t] = IF wire[c][1].by = t THEN "answered" ELSE pc[t]
    <3>1. Serve(c)
      BY <1>6, <2>2
    <3>2. /\ Len(wire[c]) \in Nat \ {0} /\ wire' \in [Channels -> Seq(Frame)]
          /\ Len(wire'[c]) = Len(wire[c]) - 1 /\ DOMAIN wire'[c] = 1..(Len(wire[c]) - 1)
          /\ \A n \in DOMAIN wire'[c] : wire'[c][n] = wire[c][n + 1]
          /\ pc' = [u \in Tasks |-> IF wire[c][1].by = u THEN "answered" ELSE pc[u]]
      BY <1>1, <3>1, Served
    <3> QED
      BY <3>2
  <2>4. pc[t] = "awaiting" /\ wire[c][1].by # t
    BY <2>3
  <2>5. wire[c][Len(wire[c])].by = t
    BY <1>1, <2>1, <2>4
  <2>6. Len(wire[c]) # 1
    BY <2>4, <2>5, Zenon
  <2>7. Len(wire'[c]) \in DOMAIN wire'[c] /\ Len(wire'[c]) + 1 = Len(wire[c])
    <3>1. PICK l : l = Len(wire[c])
      OBVIOUS
    <3>2. PICK k : k = Len(wire'[c])
      OBVIOUS
    <3>3. l \in Nat \ {0} /\ l # 1 /\ k = l - 1 /\ DOMAIN wire'[c] = 1..(l - 1)
      BY <2>3, <2>6, <3>1, <3>2
    <3>4. k \in 1..(l - 1) /\ k + 1 = l
      BY <3>3
    <3> QED
      BY <3>1, <3>2, <3>3, <3>4
  <2>8. wire'[c][Len(wire'[c])] = wire[c][Len(wire[c])]
    BY <2>3, <2>7, Zenon
  <2>9. wire'[c] # <<>>
    BY <2>7
  <2> QED
    BY <2>5, <2>8, <2>9, Zenon
<1>7. ASSUME NEW d \in Channels, ServerCloses(d) \/ ClientLearns(d)
      PROVE  wire'[c] # <<>> /\ wire'[c][Len(wire'[c])].by = t
  <2>1. held' = held /\ pc' = pc /\ c # d
    BY <1>1, <1>7 DEF ServerCloses, ClientLearns, taskVars, TypeOK
  <2>2. state'[c] = state[c] /\ wire'[c] = wire[c]
    BY <1>1, <1>7, <2>1 DEF ServerCloses, ClientLearns, TypeOK
  <2> QED
    BY <1>1, <2>1, <2>2
<1>8. CASE Shutdown \/ UNCHANGED vars
  BY <1>1, <1>8 DEF Shutdown, vars, serverVars, taskVars
<1> QED
  BY <1>2, <1>3, <1>4, <1>5, <1>6, <1>7, <1>8 DEF Next

\* A settlement that was cut decides on what was accepted before it.
LEMMA KeepsCutsDecide == IInv /\ [Next]_vars => CutsDecide'
<1> SUFFICES ASSUME IInv, [Next]_vars, link = "amqp", NEW m \in accepted', cut'[m] # "none"
             PROVE  Decided(m)'
  BY SameLink DEF CutsDecide
<1> USE ServerTxAssumption
<1>1. /\ TypeOK /\ OneChannel /\ NothingLeft /\ HandsAreFresh /\ wire \in [Channels -> Seq(Frame)]
      /\ m \in Messages
  BY KeepsTypeOK DEF IInv, TypeOK
<1>2. ASSUME NEW t \in Tasks PROVE CallFits(t) /\ \A u \in Tasks : u = t
  BY DEF IInv, Calls, UsedAlone
<1>3. m \in accepted /\ cut[m] # "none" => Decided(m)
  BY DEF IInv, CutsDecide
\* A step that leaves the frames of each channel as they are, or takes them all.
<1>4. ASSUME m \in accepted, cut'[m] = cut[m], UNCHANGED <<visible, held>>,
             \A t \in Tasks : pc'[t] = "answered" => pc[t] = "answered",
             \A c \in Channels :
               \/ /\ DOMAIN wire'[c] = DOMAIN wire[c] /\ staged'[c] = staged[c]
                  /\ \A n \in DOMAIN wire[c] :
                       wire'[c][n].kind = wire[c][n].kind /\ wire'[c][n].msgs = wire[c][n].msgs
                  /\ state'[c] = "up" => state[c] = "up"
               \/ wire'[c] = <<>> /\ staged'[c] = {} /\ state'[c] # "up"
      PROVE  Decided(m)'
  <2>1. Decided(m)
    BY <1>3, <1>4
  <2>2. ASSUME NEW c \in Channels
        PROVE  /\ c = held' /\ state'[c] = "up" /\ cut'[m] = "commit" /\ m \notin visible' =>
                    m \in staged'[c] \/ \E n \in DOMAIN wire'[c] : m \in wire'[c][n].msgs
               /\ m \in staged'[c] => SettledNext(c, 0, cut[m])'
               /\ \A n \in DOMAIN wire'[c] : m \in wire'[c][n].msgs => SettledNext(c, n, cut[m])'
    <3>1. CASE wire'[c] = <<>> /\ staged'[c] = {} /\ state'[c] # "up"
      BY <3>1
    <3>2. CASE /\ DOMAIN wire'[c] = DOMAIN wire[c] /\ staged'[c] = staged[c]
               /\ \A n \in DOMAIN wire[c] :
                    wire'[c][n].kind = wire[c][n].kind /\ wire'[c][n].msgs = wire[c][n].msgs
               /\ state'[c] = "up" => state[c] = "up"
      <4>1. \A n : SettledNext(c, n, cut[m]) => SettledNext(c, n, cut[m])'
        BY <1>4, <3>2 DEF SettledNext
      <4> QED
        BY <1>4, <2>1, <3>2, <4>1 DEF Decided
    <3> QED
      BY <1>4, <3>1, <3>2
  <2>3. /\ m \in visible' => cut'[m] = "commit"
        /\ \A t \in Tasks : pc'[t] = "answered" /\ cut'[m] = "commit" => m \in visible'
    BY <1>4, <2>1 DEF Decided
  <2> QED
    BY <1>4, <2>2, <2>3 DEF Decided, SettledNext
\* A frame that leaves comes after them.
<1>5. ASSUME NEW t \in Tasks, SendPublish(t) \/ SendSettle(t) \/ DropFuture(t), pc[t] = "ready"
      PROVE  Decided(m)'
  <2>1. /\ held \in Channels /\ UNCHANGED <<state, staged, held, visible, cut>> /\ pc'[t] # "answered"
        /\ wire' # wire =>
              /\ state[held] = "up"
              /\ Len(wire[held]) \in Nat
              /\ \A d \in Channels \ {held} : wire'[d] = wire[d]
              /\ DOMAIN wire[held] = 1..Len(wire[held])
              /\ DOMAIN wire'[held] = 1..(Len(wire[held]) + 1)
              /\ \A n \in 1..Len(wire[held]) : wire'[held][n] = wire[held][n]
              /\ wire'[held][Len(wire[held]) + 1].msgs = msg[t]
    <3>1. UNCHANGED <<visible, cut>> /\ pc'[t] # "answered"
      BY <1>1, <1>5, Left DEF SendPublish, SendSettle, DropFuture, claims, TypeOK
    <3> QED
      BY <1>5, <3>1, Sending
  <2>2. m \in accepted /\ m \notin msg[t]
    <3>1. m \notin msg[t]
      BY <1>1, <2>1 DEF HandsAreFresh
    <3> QED
      BY <1>5, <3>1 DEF SendPublish, SendSettle, DropFuture, claims
  <2>3. Decided(m)
    BY <1>3, <2>1, <2>2
  <2>4. CASE wire' = wire
    BY <1>2, <1>4, <2>1, <2>2, <2>4
  <2>5. CASE wire' # wire
    <3>1. ASSUME NEW c \in Channels
          PROVE  /\ \A n \in DOMAIN wire[c] : n \in DOMAIN wire'[c] /\ wire'[c][n] = wire[c][n]
                 /\ \A n \in DOMAIN wire'[c] : m \in wire'[c][n].msgs => n \in DOMAIN wire[c]
                 /\ \A n \in DOMAIN wire'[c], k \in DOMAIN wire[c] : n < k => n \in DOMAIN wire[c]
      <4>1. CASE c # held
        BY <2>1, <2>5, <4>1
      <4>2. CASE c = held
        BY <2>1, <2>2, <2>5, <4>2
      <4> QED
        BY <4>1, <4>2
    <3>2. ASSUME NEW c \in Channels, NEW n, SettledNext(c, n, cut[m]) PROVE SettledNext(c, n, cut[m])'
      <4>1. PICK k \in DOMAIN wire[c] :
              /\ n < k /\ wire[c][k].kind = cut[m]
              /\ \A i \in DOMAIN wire[c] : n < i /\ i < k => wire[c][i].kind = "publish"
        BY <3>2 DEF SettledNext
      <4>2. k \in DOMAIN wire'[c] /\ wire'[c][k].kind = cut'[m]
        BY <2>1, <3>1, <4>1
      <4>3. \A i \in DOMAIN wire'[c] : n < i /\ i < k => wire'[c][i].kind = "publish"
        BY <3>1, <4>1
      <4> QED
        BY <4>1, <4>2, <4>3 DEF SettledNext
    <3>3. ASSUME NEW c \in Channels
          PROVE  /\ c = held' /\ state'[c] = "up" /\ cut'[m] = "commit" /\ m \notin visible' =>
                      m \in staged'[c] \/ \E n \in DOMAIN wire'[c] : m \in wire'[c][n].msgs
                 /\ m \in staged'[c] => SettledNext(c, 0, cut[m])'
                 /\ \A n \in DOMAIN wire'[c] : m \in wire'[c][n].msgs => SettledNext(c, n, cut[m])'
      <4>1. /\ c = held /\ state[c] = "up" /\ cut[m] = "commit" /\ m \notin visible =>
                 m \in staged[c] \/ \E n \in DOMAIN wire[c] : m \in wire[c][n].msgs
            /\ m \in staged[c] => SettledNext(c, 0, cut[m])
            /\ \A n \in DOMAIN wire[c] : m \in wire[c][n].msgs => SettledNext(c, n, cut[m])
        BY <2>3 DEF Decided
      <4>2. \A n \in DOMAIN wire'[c] : m \in wire'[c][n].msgs => n \in DOMAIN wire[c] /\ m \in wire[c][n].msgs
        BY <3>1
      <4> QED
        BY <2>1, <3>1, <3>2, <4>1, <4>2
    <3>4. /\ m \in visible' => cut'[m] = "commit"
          /\ \A u \in Tasks : pc'[u] = "answered" /\ cut'[m] = "commit" => m \in visible'
      BY <1>2, <2>1, <2>3 DEF Decided
    <3> QED
      BY <2>1, <3>3, <3>4 DEF Decided, SettledNext
  <2> QED
    BY <2>4, <2>5
\* The settlement is cut: what was accepted is before its frame, or it has been taken.
<1>6. ASSUME NEW t \in Tasks, DropFuture(t), pc[t] \in {"awaiting", "answered"}
      PROVE  Decided(m)'
  <2>1. /\ UNCHANGED <<state, staged, held, visible, accepted>> /\ wire' = Unwaited(t) /\ op[t] \in Settling
        /\ cut'[m] = IF m \in accepted /\ cut[m] = "none" THEN op[t] ELSE cut[m]
        /\ pc'[t] = "idle" /\ pc' \in [Tasks -> {"idle", "channel", "getting", "ready", "awaiting", "answered",
                                      "looked", "staging", "taken", "flushing", "cleared"}]
    BY <1>1, <1>2, <1>6, Left DEF DropFuture, CallFits
  <2>2. \A c \in Channels :
          /\ DOMAIN wire'[c] = DOMAIN wire[c]
          /\ \A n \in DOMAIN wire[c] :
               wire'[c][n].kind = wire[c][n].kind /\ wire'[c][n].msgs = wire[c][n].msgs
    BY <1>1, <2>1, UnwaitedSame
  <2>3. CASE cut[m] # "none"
    BY <1>2, <1>4, <2>1, <2>2, <2>3
  <2>4. CASE cut[m] = "none"
    <3>1. cut'[m] = op[t] /\ Carried(m)
      BY <2>1, <2>4 DEF IInv, CarriedBehindCuts, Uncut
    <3>2. m \in visible => op[t] = "commit"
      BY <1>6, <3>1 DEF Carried
    <3>3. ASSUME NEW c \in Channels, Carries(c)
          PROVE  /\ Len(wire[c]) \in Nat \ {0} /\ DOMAIN wire[c] = 1..Len(wire[c])
                 /\ wire[c][Len(wire[c])].kind = op[t]
                 /\ \A n \in DOMAIN wire[c] : n < Len(wire[c]) => CutAt(c, n) \/ wire[c][n].kind = "publish"
      <4>1. c = held /\ state[c] = "up" /\ pc[t] = "awaiting"
        BY <1>1, <1>6, <3>3 DEF OneChannel, NothingLeft, Carries
      <4>2. wire[c] # <<>> /\ wire[c][Len(wire[c])].by = t
        BY <4>1 DEF IInv, LastAwaited
      <4>3. /\ Len(wire[c]) \in Nat \ {0} /\ DOMAIN wire[c] = 1..Len(wire[c])
            /\ Len(wire[c]) \in DOMAIN wire[c] /\ \A n \in DOMAIN wire[c] : wire[c][n] \in Frame
        BY <1>1, <4>2
      <4>4. wire[c][Len(wire[c])].kind = op[t]
        BY <1>1, <4>2, <4>3 DEF OneChannel
      <4>5. ASSUME NEW n \in DOMAIN wire[c], n < Len(wire[c]), wire[c][n].kind # "publish" PROVE CutAt(c, n)
        <5>1. wire[c][n].kind \in Settling
          BY <4>3, <4>5 DEF Frame
        <5>2. \A u \in Tasks : wire[c][n].by # u
          BY <1>1, <4>3, <4>5 DEF OneChannel
        <5> QED
          BY <5>1, <5>2 DEF CutAt
      <4> QED
        BY <4>3, <4>4, <4>5
    <3>4. ASSUME NEW c \in Channels, m \in staged[c] PROVE SettledNext(c, 0, cut[m])'
      <4>1. Carries(c) /\ \A n \in DOMAIN wire[c] : ~CutAt(c, n)
        BY <3>1, <3>4 DEF Carries, Carried
      <4> DEFINE k == Len(wire[c])
      <4>2. /\ k \in DOMAIN wire'[c] /\ 0 < k /\ wire'[c][k].kind = cut'[m]
            /\ \A i \in DOMAIN wire'[c] : i < k => wire'[c][i].kind = "publish"
        BY <2>2, <3>1, <3>3, <4>1
      <4> HIDE DEF k
      <4> QED
        BY <4>2 DEF SettledNext
    <3>5. ASSUME NEW c \in Channels, NEW n \in DOMAIN wire[c], m \in wire[c][n].msgs
          PROVE  SettledNext(c, n, cut[m])'
      <4>1. Carries(c) /\ \A i \in DOMAIN wire[c] : CutAt(c, i) => i < n
        BY <1>1, <3>1, <3>5 DEF Carries, Carried
      <4> DEFINE k == Len(wire[c])
      <4>2. k \in DOMAIN wire[c] /\ k \in Nat /\ wire[c][k].kind = op[t] /\ n \in 1..k
        BY <3>3, <4>1
      <4>3. n # k
        BY <1>1, <2>1, <3>5, <4>2 DEF OneChannel
      <4>4. /\ k \in DOMAIN wire'[c] /\ n < k /\ wire'[c][k].kind = cut'[m]
            /\ \A i \in DOMAIN wire'[c] : n < i /\ i < k => wire'[c][i].kind = "publish"
        <5>1. \A i \in DOMAIN wire[c] : n < i /\ i < k => wire[c][i].kind = "publish"
          BY <3>3, <4>1, <4>2
        <5> QED
          BY <2>2, <3>1, <4>2, <4>3, <5>1
      <4> HIDE DEF k
      <4> QED
        BY <4>4 DEF SettledNext
    <3>6. ASSUME NEW c \in Channels, c = held, state[c] = "up", op[t] = "commit", m \notin visible
          PROVE  m \in staged'[c] \/ \E n \in DOMAIN wire'[c] : m \in wire'[c][n].msgs
      BY <1>2, <2>1, <2>2, <3>1, <3>6 DEF Carried
    <3>7. \A c \in Channels :
            /\ c = held' /\ state'[c] = "up" /\ cut'[m] = "commit" /\ m \notin visible' =>
                 m \in staged'[c] \/ \E n \in DOMAIN wire'[c] : m \in wire'[c][n].msgs
            /\ m \in staged'[c] => SettledNext(c, 0, cut[m])'
            /\ \A n \in DOMAIN wire'[c] : m \in wire'[c][n].msgs => SettledNext(c, n, cut[m])'
      BY <2>1, <2>2, <3>1, <3>4, <3>5, <3>6
    <3> QED
      BY <1>2, <2>1, <3>1, <3>2, <3>7 DEF Decided, SettledNext
  <2> QED
    BY <2>3, <2>4
<1>7. ASSUME NEW t \in Tasks, Operate(t) PROVE Decided(m)'
  <2>1. CASE SendPublish(t) \/ SendSettle(t) \/ (DropFuture(t) /\ pc[t] = "ready")
    BY <1>5, <2>1 DEF SendPublish, SendSettle
  <2>2. CASE DropFuture(t) /\ pc[t] \in {"awaiting", "answered"}
    BY <1>6, <2>2
  <2>3. CASE CallBegin(t) \/ PublishPlainly(t) \/ Get(t) \/ SetOpen(t) \/ (DropFuture(t) /\ pc[t] = "getting")
    <3>1. ~open /\ accepted' = accepted
      BY <1>2, <2>3 DEF CallBegin, PublishPlainly, Get, SetOpen, DropFuture, CallFits, claims
    <3>2. \A u \in Tasks : pc[u] # "flushing"
      BY <1>2 DEF CallFits, OverAmqp
    <3> QED
      BY <1>1, <3>1, <3>2 DEF NothingLeft
  <2>4. CASE CallPublish(t) \/ CallSettle(t) \/ TxChannel(t) \/ SettleFails(t)
    <3>1. UNCHANGED <<wire, staged, state, held, visible, accepted, cut>>
      BY <2>4 DEF CallPublish, CallSettle, TxChannel, SettleFails, serverVars, claims
    <3>2. pc'[t] # "answered"
      BY <1>1, <2>4, Entered, Left DEF CallPublish, CallSettle, TxChannel, SettleFails, TypeOK
    <3> QED
      BY <1>2, <1>4, <3>1, <3>2
  <2>5. ~SettleReturns(t)
    BY DEF SettleReturns
  <2> QED
    BY <1>7, <2>1, <2>2, <2>3, <2>4, <2>5 DEF Operate, DropFuture
<1>8. ASSUME NEW c \in Channels, Serve(c) PROVE Decided(m)'
  <2>1. UNCHANGED <<state, held, op, accepted, cut>> /\ state[c] = "up" /\ wire[c] # <<>>
    BY <1>8 DEF Serve, claims
  <2>2. /\ Len(wire[c]) \in Nat \ {0} /\ 1 \in DOMAIN wire[c] /\ DOMAIN wire[c] = 1..Len(wire[c])
        /\ wire[c][1] \in Frame /\ wire' \in [Channels -> Seq(Frame)]
        /\ \A d \in Channels \ {c} : wire'[d] = wire[d] /\ staged'[d] = staged[d]
        /\ Len(wire'[c]) = Len(wire[c]) - 1 /\ DOMAIN wire'[c] = 1..(Len(wire[c]) - 1)
        /\ \A n \in DOMAIN wire'[c] : wire'[c][n] = wire[c][n + 1]
        /\ staged'[c] = IF wire[c][1].kind = "publish" THEN staged[c] \cup wire[c][1].msgs ELSE {}
        /\ visible' = IF wire[c][1].kind = "commit" THEN visible \cup staged[c] ELSE visible
        /\ pc' = [t \in Tasks |-> IF wire[c][1].by = t THEN "answered" ELSE pc[t]]
    BY <1>1, <1>8, Served
  <2>3. c = held /\ \A d \in Channels \ {c} : wire'[d] = <<>> /\ staged'[d] = {}
    <3>1. c = held
      BY <1>1, <2>1 DEF OneChannel
    <3> QED
      BY <1>1, <2>2, <3>1 DEF OneChannel
  <2>4. Decided(m) /\ cut[m] \in Settling /\ cut'[m] = cut[m]
    BY <1>1, <1>3, <2>1 DEF TypeOK
  <2>5. /\ wire[c][1].kind \in {"publish"} \cup Settling
        /\ wire[c][1].kind \in Settling => wire[c][1].msgs = {}
    BY <1>1, <2>2 DEF Frame, OneChannel
  <2>6. /\ m \in visible => cut[m] = "commit"
        /\ cut[m] = "commit" /\ m \notin visible =>
             m \in staged[c] \/ \E n \in DOMAIN wire[c] : m \in wire[c][n].msgs
        /\ m \in staged[c] => SettledNext(c, 0, cut[m])
        /\ \A n \in DOMAIN wire[c] : m \in wire[c][n].msgs => SettledNext(c, n, cut[m])
    BY <2>1, <2>3, <2>4 DEF Decided
  <2>7. ASSUME m \in staged[c], wire[c][1].kind \in Settling PROVE cut[m] = wire[c][1].kind
    <3>1. PICK k \in DOMAIN wire[c] :
            /\ wire[c][k].kind = cut[m]
            /\ \A i \in DOMAIN wire[c] : 0 < i /\ i < k => wire[c][i].kind = "publish"
      BY <2>6, <2>7 DEF SettledNext
    <3>2. k = 1 \/ 1 < k
      BY <2>2
    <3> QED
      BY <2>2, <2>7, <3>1, <3>2 DEF Settling
  <2>8. /\ m \in visible' => cut[m] = "commit"
        /\ m \in staged[c] /\ cut[m] = "commit" /\ wire[c][1].kind \in Settling => m \in visible'
        /\ m \in visible => m \in visible'
    BY <2>2, <2>6, <2>7 DEF Settling
  <2>9. ASSUME NEW n \in Nat, SettledNext(c, n + 1, cut[m]) PROVE SettledNext(c, n, cut[m])'
    <3>1. PICK k \in DOMAIN wire[c] :
            /\ n + 1 < k /\ wire[c][k].kind = cut[m]
            /\ \A i \in DOMAIN wire[c] : n + 1 < i /\ i < k => wire[c][i].kind = "publish"
      BY <2>9 DEF SettledNext
    <3>2. k \in Nat /\ k - 1 \in DOMAIN wire'[c] /\ n < k - 1 /\ (k - 1) + 1 = k
      BY <2>2, <3>1
    <3>3. wire'[c][k - 1].kind = cut'[m]
      BY <2>2, <2>4, <3>1, <3>2
    <3>4. ASSUME NEW i \in DOMAIN wire'[c], n < i, i < k - 1 PROVE wire'[c][i].kind = "publish"
      <4>1. i + 1 \in DOMAIN wire[c] /\ n + 1 < i + 1 /\ i + 1 < k
        BY <2>2, <3>2, <3>4
      <4> QED
        BY <2>2, <3>1, <3>4, <4>1
    <3> QED
      BY <3>2, <3>3, <3>4 DEF SettledNext
  <2>10. ASSUME m \in staged'[c] PROVE SettledNext(c, 0, cut[m])'
    <3>1. wire[c][1].kind = "publish" /\ (m \in staged[c] \/ m \in wire[c][1].msgs)
      BY <2>2, <2>10
    <3>2. SettledNext(c, 1, cut[m])
      <4>1. CASE m \in wire[c][1].msgs
        BY <2>2, <2>6, <4>1
      <4>2. CASE m \in staged[c]
        <5>1. PICK k \in DOMAIN wire[c] :
                /\ wire[c][k].kind = cut[m]
                /\ \A i \in DOMAIN wire[c] : 0 < i /\ i < k => wire[c][i].kind = "publish"
          BY <2>6, <4>2 DEF SettledNext
        <5>2. k # 1
          BY <2>4, <3>1, <5>1 DEF Settling
        <5>3. 1 < k /\ \A i \in DOMAIN wire[c] : 1 < i => 0 < i
          BY <2>2, <5>2
        <5> QED
          BY <5>1, <5>3 DEF SettledNext
      <4> QED
        BY <3>1, <4>1, <4>2
    <3>3. 0 \in Nat /\ 0 + 1 = 1
      OBVIOUS
    <3> QED
      BY <2>9, <3>2, <3>3
  <2>11. ASSUME NEW n \in DOMAIN wire'[c], m \in wire'[c][n].msgs PROVE SettledNext(c, n, cut[m])'
    <3>1. n \in Nat /\ n + 1 \in DOMAIN wire[c] /\ m \in wire[c][n + 1].msgs
      BY <2>2, <2>11
    <3> QED
      BY <2>6, <2>9, <3>1
  <2>12. ASSUME cut[m] = "commit", m \notin visible'
         PROVE  m \in staged'[c] \/ \E n \in DOMAIN wire'[c] : m \in wire'[c][n].msgs
    <3>1. m \in staged[c] \/ \E n \in DOMAIN wire[c] : m \in wire[c][n].msgs
      BY <2>6, <2>8, <2>12
    <3>2. CASE m \in staged[c]
      BY <2>2, <2>5, <2>8, <2>12, <3>2
    <3>3. CASE m \in wire[c][1].msgs
      BY <2>2, <2>5, <3>3
    <3>4. ASSUME NEW n \in DOMAIN wire[c], n # 1, m \in wire[c][n].msgs
          PROVE  \E k \in DOMAIN wire'[c] : m \in wire'[c][k].msgs
      <4>1. n - 1 \in DOMAIN wire'[c] /\ (n - 1) + 1 = n
        BY <2>2, <3>4
      <4>2. wire'[c][n - 1] = wire[c][n]
        BY <2>2, <4>1
      <4> QED
        BY <3>4, <4>1, <4>2
    <3> QED
      BY <3>1, <3>2, <3>3, <3>4
  <2>13. ASSUME NEW t \in Tasks, pc'[t] = "answered", cut[m] = "commit" PROVE m \in visible'
    <3>1. CASE pc[t] = "answered"
      BY <2>4, <2>8, <2>13, <3>1 DEF Decided
    <3>2. CASE pc[t] # "answered"
      <4>1. wire[c][1].by = t
        BY <2>2, <2>13, <3>2
      <4>2. 1 = Len(wire[c]) /\ pc[t] = "awaiting" /\ wire[c][1].kind = op[t]
        <5>1. ASSUME NEW n \in DOMAIN wire[c], wire[c][n].by = t
              PROVE  n = Len(wire[c]) /\ pc[t] = "awaiting" /\ wire[c][n].kind = op[t]
          BY <1>1, <5>1 DEF OneChannel
        <5> QED
          BY <2>2, <4>1, <5>1, Zenon
      <4>3. wire[c][1].kind \in Settling
        BY <1>2, <4>2 DEF CallFits
      <4>4. \A n \in DOMAIN wire[c] : n = 1
        BY <2>2, <4>2
      <4>5. m \in visible \/ m \in staged[c]
        BY <2>5, <2>6, <2>13, <4>3, <4>4
      <4> QED
        BY <2>8, <2>13, <4>3, <4>5
    <3> QED
      BY <3>1, <3>2
  <2>14. ASSUME NEW d \in Channels
         PROVE  /\ d = held' /\ state'[d] = "up" /\ cut'[m] = "commit" /\ m \notin visible' =>
                     m \in staged'[d] \/ \E n \in DOMAIN wire'[d] : m \in wire'[d][n].msgs
                /\ m \in staged'[d] => SettledNext(d, 0, cut[m])'
                /\ \A n \in DOMAIN wire'[d] : m \in wire'[d][n].msgs => SettledNext(d, n, cut[m])'
    <3>1. CASE d = c
      BY <2>4, <2>10, <2>11, <2>12, <3>1
    <3>2. CASE d # c
      BY <2>1, <2>3, <3>2
    <3> QED
      BY <3>1, <3>2
  <2> QED
    BY <2>4, <2>8, <2>13, <2>14 DEF Decided, SettledNext
<1>9. ASSUME NEW c \in Channels, ServerCloses(c) \/ ClientLearns(c) PROVE Decided(m)'
  <2>1. UNCHANGED <<held, pc, accepted, cut, visible>>
    BY <1>9 DEF ServerCloses, ClientLearns, taskVars, claims
  <2>2. ASSUME NEW d \in Channels
        PROVE  \/ wire'[d] = wire[d] /\ staged'[d] = staged[d] /\ (state'[d] = "up" => state[d] = "up")
               \/ wire'[d] = <<>> /\ staged'[d] = {} /\ state'[d] # "up"
    BY <1>1, <1>9 DEF ServerCloses, ClientLearns, TypeOK
  <2> QED
    BY <1>4, <2>1, <2>2
<1>10. CASE Shutdown \/ UNCHANGED vars
  <2>1. UNCHANGED <<held, pc, accepted, cut, visible, state, wire, staged>>
    BY <1>10 DEF Shutdown, vars, taskVars, claims, serverVars
  <2> QED
    BY <1>4, <2>1
<1>11. ASSUME NEW t \in Tasks PROVE ~OperateHere(t)
  BY WhichTransport
<1> QED
  BY <1>7, <1>8, <1>9, <1>10, <1>11 DEF Next

\* In-process, what is accepted is staged, then taken, then published in order.
LEMMA KeepsStagedThenFlushed == IInv /\ [Next]_vars => StagedThenFlushed'
<1> SUFFICES ASSUME IInv, [Next]_vars, link = "in_process" PROVE StagedThenFlushed'
  BY SameLink DEF StagedThenFlushed
<1>1. /\ TypeOK /\ NothingLeft /\ HandsAreFresh /\ kept \in Seq(Messages)
      /\ batch \in [Tasks -> Seq(Messages)] /\ open \in BOOLEAN
  BY DEF IInv, TypeOK
<1>2. ASSUME NEW t \in Tasks PROVE CallFits(t) /\ \A u \in Tasks : u = t
  BY DEF IInv, Calls, UsedAlone
<1>3. /\ open => accepted \cap visible = {}
      /\ \A t \in Tasks :
           /\ open /\ pc[t] \in {"idle", "staging"} => accepted = ToSet(kept)
           /\ pc[t] = "taken" => accepted = ToSet(batch[t])
           /\ pc[t] = "flushing" =>
                /\ accepted \subseteq visible \cup ToSet(batch[t])
                /\ ToSet(batch[t]) \cap Oversized = {}
  BY DEF IInv, StagedThenFlushed
<1>4. ASSUME NEW t \in Tasks, open' = FALSE, pc'[t] \notin {"taken", "flushing"} PROVE StagedThenFlushed'
  BY <1>2, <1>4 DEF StagedThenFlushed
<1>5. ASSUME NEW t \in Tasks, OperateHere(t) PROVE StagedThenFlushed'
  <2>1. batch[t] \in Seq(Messages)
    BY <1>1
  <2>2. CASE BeginHere(t) \/ AbortedHere(t) \/ PublishPlainlyHere(t) \/ FlushRefused(t) \/ FlushedHere(t)
             \/ (CloseHere(t) /\ Leave(t))
    <3>1. pc'[t] \notin {"taken", "flushing"}
      BY <1>1, <2>2, Left, Entered
         DEF BeginHere, AbortedHere, PublishPlainlyHere, FlushRefused, FlushedHere, taskVars, Here
    <3>2. open' = FALSE
      BY <1>1, <1>2, <2>2 DEF BeginHere, AbortedHere, PublishPlainlyHere, FlushRefused, FlushedHere, CloseHere, CallFits
    <3> QED
      BY <1>4, <3>1, <3>2
  <2>3. CASE SetOpenHere(t)
    <3>1. pc[t] = "looked" /\ pc'[t] = "idle" /\ UNCHANGED <<kept, accepted, visible>> /\ ~open
      BY <1>1, <1>2, <2>3, Left DEF SetOpenHere, hereVars, serverVars, claims, CallFits
    <3>2. kept = <<>> /\ accepted = {}
      BY <1>1, <1>2, <3>1 DEF NothingLeft
    <3>3. ToSet(kept) = {}
      BY <3>2 DEF ToSet
    <3> QED
      BY <1>2, <3>1, <3>2, <3>3 DEF StagedThenFlushed
  <2>4. CASE PublishHere(t)
    <3>1. pc[t] = "idle" /\ pc'[t] = "staging" /\ UNCHANGED <<open, kept, accepted, visible>>
      BY <1>1, <2>4, Entered DEF PublishHere, Here, hereVars, serverVars, claims
    <3> QED
      BY <1>2, <1>3, <3>1 DEF StagedThenFlushed
  <2>5. CASE Stage(t)
    <3>1. /\ pc[t] = "staging" /\ pc'[t] = "idle" /\ UNCHANGED <<open, visible>> /\ open
          /\ accepted' = accepted \cup msg[t] /\ msg[t] \subseteq Messages
      BY <1>1, <1>2, <2>5, Left DEF Stage, serverVars, CallFits, TypeOK
    <3>2. PICK p \in msg[t] : kept' = Append(kept, p)
      BY <2>5 DEF Stage
    <3>3. msg[t] = {p} /\ p \in Messages /\ p \notin visible
      BY <1>1, <1>2, <3>1, <3>2 DEF CallFits, HandsAreFresh
    <3>4. ToSet(kept') = ToSet(kept) \cup {p}
      BY <1>1, <3>2, <3>3, SetOfSequence
    <3>5. accepted = ToSet(kept) /\ accepted \cap visible = {}
      BY <1>3, <3>1
    <3> QED
      BY <1>2, <3>1, <3>3, <3>4, <3>5 DEF StagedThenFlushed
  <2>6. CASE TakeStaged(t)
    <3>1. /\ pc[t] = "idle" /\ pc'[t] \in {"taken", "cleared"} /\ UNCHANGED <<open, visible, accepted>> /\ open
          /\ pc'[t] = "taken" => batch'[t] = kept
      BY <1>1, <2>6, Entered DEF TakeStaged, Here, serverVars, claims, Settling
    <3> QED
      BY <1>2, <1>3, <3>1 DEF StagedThenFlushed
  <2>7. CASE CloseHere(t) /\ ~Leave(t)
    <3>1. /\ pc[t] = "taken" /\ pc'[t] = "flushing" /\ open' = FALSE /\ UNCHANGED <<batch, accepted>>
          /\ ToSet(batch[t]) \cap Oversized = {}
      BY <1>1, <2>7 DEF CloseHere, TypeOK
    <3>2. ToSet(batch'[t]) = ToSet(batch[t]) /\ accepted' = ToSet(batch[t])
      BY <1>3, <3>1
    <3> QED
      BY <1>2, <3>1, <3>2 DEF StagedThenFlushed
  <2>8. CASE FlushHere(t)
    <3>1. /\ pc[t] = "flushing" /\ batch[t] # <<>> /\ UNCHANGED <<open, pc, accepted>> /\ ~open
          /\ visible' = visible \cup {Head(batch[t])} /\ batch'[t] = Tail(batch[t])
      BY <1>1, <1>2, <2>8 DEF FlushHere, taskVars, claims, CallFits
    <3>2. ToSet(batch[t]) = {Head(batch[t])} \cup ToSet(batch'[t])
      BY <2>1, <3>1, SetOfSequence
    <3>3. accepted' \subseteq visible' \cup ToSet(batch'[t]) /\ ToSet(batch'[t]) \cap Oversized = {}
      BY <1>3, <3>1, <3>2
    <3> QED
      BY <1>2, <3>1, <3>3 DEF StagedThenFlushed
  <2> QED
    BY <1>5, <2>2, <2>3, <2>4, <2>5, <2>6, <2>7, <2>8 DEF OperateHere
<1>6. ASSUME UNCHANGED <<open, accepted, visible, pc, kept, batch>> PROVE StagedThenFlushed'
  BY <1>3, <1>6 DEF StagedThenFlushed
<1>7. ASSUME NEW c \in Channels, Serve(c) PROVE StagedThenFlushed'
  <2>1. c = held
    BY <1>7 DEF Serve, IInv, OneChannel
  <2> QED
    BY <1>1, <2>1, ServerTxAssumption DEF NothingLeft, NoChannel, Channels
<1>8. ASSUME NEW c \in Channels, ServerCloses(c) \/ ClientLearns(c) PROVE StagedThenFlushed'
  BY <1>6, <1>8 DEF ServerCloses, ClientLearns, hereVars, taskVars, claims
<1>9. CASE Shutdown \/ UNCHANGED vars
  BY <1>6, <1>9 DEF Shutdown, vars, hereVars, serverVars, taskVars, claims
<1>10. ASSUME NEW t \in Tasks PROVE ~Operate(t)
  BY WhichTransport
<1> QED
  BY <1>5, <1>7, <1>8, <1>9, <1>10 DEF Next

\* What becomes of a message does not change once its transaction returned Ok.
LEMMA ToldStays ==
  ASSUME IInv, [Next]_vars, NEW m \in promised \cup discarded
  PROVE  cut'[m] = cut[m] /\ (m \in visible' <=> m \in visible)
<1>1. /\ TypeOK /\ m \in Messages /\ m \notin accepted /\ ~Pending(m) /\ m \notin Fresh
  BY DEF IInv, TypeOK, ToldIsOver, Fresh
<1>2. m \in visible' <=> m \in visible
  BY <1>1, Spreads, VisibleGrows
<1>3. cut'[m] = cut[m]
  BY <1>1 DEF Next, Operate, CallBegin, CallPublish, PublishPlainly, CallSettle, TxChannel, Get, SetOpen,
              SendPublish, SendSettle, SettleFails, SettleReturns, DropFuture,
              OperateHere, BeginHere, SetOpenHere, PublishHere, Stage, PublishPlainlyHere, TakeStaged,
              CloseHere, AbortedHere, FlushHere, FlushRefused, FlushedHere,
              Serve, ServerCloses, ClientLearns, Shutdown, vars, claims
<1> QED
  BY <1>2, <1>3

\* What an Ok said of a transaction is so and stays so, up to what was cut before it.
LEMMA KeepsOkIsTrue == IInv /\ [Next]_vars => OkIsTrue'
<1> SUFFICES ASSUME IInv, [Next]_vars PROVE OkIsTrue'
  OBVIOUS
<1> DEFINE Truth(n) == /\ n \in promised => (n \in visible <=> cut[n] # "rollback")
                       /\ n \in discarded => (n \in visible <=> cut[n] = "commit")
<1>1. /\ TypeOK /\ CarriedBehindCuts /\ CutsDecide /\ StagedThenFlushed /\ NothingLeft
      /\ link \in {"amqp", "in_process"}
  BY DEF IInv, TypeOK
<1>2. ASSUME NEW m \in promised \cup discarded
      PROVE  /\ m \in promised' => (m \in visible' <=> cut'[m] # "rollback")
             /\ m \in discarded' => (m \in visible' <=> cut'[m] = "commit")
  <2>1. Truth(m)
    BY DEF IInv, OkIsTrue, CommitTruth, AbortTruth
  <2>2. (m \in promised' <=> m \in promised) /\ (m \in discarded' <=> m \in discarded)
    <3>1. m \notin accepted
      BY DEF IInv, ToldIsOver
    <3> QED
      BY <3>1 DEF Next, Operate, CallBegin, CallPublish, PublishPlainly, CallSettle, TxChannel, Get, SetOpen,
                  SendPublish, SendSettle, SettleFails, SettleReturns, DropFuture,
                  OperateHere, BeginHere, SetOpenHere, PublishHere, Stage, PublishPlainlyHere, TakeStaged,
                  CloseHere, AbortedHere, FlushHere, FlushRefused, FlushedHere,
                  Serve, ServerCloses, ClientLearns, Shutdown, vars, claims
  <2> QED
    BY <2>1, <2>2, ToldStays
<1>3. ASSUME NEW m \in promised' \cup discarded', m \notin promised \cup discarded
      PROVE  /\ m \in promised' => (m \in visible' <=> cut'[m] # "rollback")
             /\ m \in discarded' => (m \in visible' <=> cut'[m] = "commit")
  <2>1. PICK t \in Tasks :
          /\ SettleReturns(t) \/ FlushedHere(t) \/ AbortedHere(t)
          /\ m \in accepted /\ cut' = cut /\ visible' = visible
          /\ m \in promised' => op[t] = "commit"
          /\ m \in discarded' => op[t] = "rollback"
    BY <1>3, Telling
  <2>2. CallFits(t) /\ m \in Messages
    BY <1>1, <2>1 DEF IInv, Calls, TypeOK
  <2>3. CASE SettleReturns(t)
    <3>1. link = "amqp" /\ pc[t] = "answered"
      BY <2>3, WhichTransport DEF Operate, SettleReturns
    <3>2. CASE cut[m] = "none"
      <4>1. m \in visible <=> op[t] = "commit"
        BY <1>1, <2>1, <3>1, <3>2 DEF CarriedBehindCuts, Uncut, Carried
      <4> QED
        BY <2>1, <3>2, <4>1
    <3>3. CASE cut[m] # "none"
      <4>1. cut[m] \in {"commit", "rollback"}
        BY <1>1, <2>2, <3>3 DEF TypeOK, Settling
      <4>2. m \in visible <=> cut[m] = "commit"
        BY <1>1, <2>1, <3>1, <3>3 DEF CutsDecide, Decided
      <4> QED
        BY <2>1, <4>1, <4>2
    <3> QED
      BY <3>2, <3>3
  <2>4. CASE FlushedHere(t) \/ AbortedHere(t)
    <3>1. link = "in_process" /\ cut[m] = "none"
      BY <1>1, <2>2, <2>4, WhichTransport DEF OperateHere, NothingLeft
    <3>2. CASE FlushedHere(t)
      <4>1. pc[t] = "flushing" /\ batch[t] = <<>> /\ op[t] = "commit"
        BY <2>2, <3>2 DEF FlushedHere, CallFits
      <4>2. m \in visible \cup ToSet(<<>>)
        BY <1>1, <2>1, <3>1, <4>1 DEF StagedThenFlushed
      <4>3. m \in visible
        BY <4>2 DEF ToSet
      <4> QED
        BY <2>1, <3>1, <4>1, <4>3
    <3>3. CASE AbortedHere(t)
      <4>1. pc[t] = "cleared" /\ open /\ op[t] = "rollback"
        BY <2>2, <3>3 DEF AbortedHere, CallFits, Settling
      <4>2. m \notin visible
        BY <1>1, <2>1, <3>1, <4>1 DEF StagedThenFlushed
      <4> QED
        BY <2>1, <3>1, <4>1, <4>2
    <3> QED
      BY <2>4, <3>2, <3>3
  <2> QED
    BY <2>1, <2>3, <2>4
<1> QED
  BY <1>2, <1>3 DEF OkIsTrue, CommitTruth, AbortTruth

\* The invariant is inductive.
LEMMA NextIInv == IInv /\ [Next]_vars => IInv'
<1> SUFFICES ASSUME IInv, [Next]_vars PROVE IInv'
  OBVIOUS
<1>1. UsedAlone'
  BY DEF IInv, UsedAlone
<1>2. TypeOK' /\ Calls' /\ OneChannel' /\ NothingLeft'
  BY KeepsTypeOK, KeepsCalls, KeepsOneChannel, KeepsNothingLeft
<1>3. HandsAreFresh' /\ ToldIsOver' /\ CarriedBehindCuts' /\ LastAwaited' /\ CutsDecide'
  BY KeepsHandsAreFresh, KeepsToldIsOver, KeepsCarriedBehindCuts, KeepsLastAwaited, KeepsCutsDecide
<1>4. StagedThenFlushed' /\ OkIsTrue'
  BY KeepsStagedThenFlushed, KeepsOkIsTrue
<1> QED
  BY <1>1, <1>2, <1>3, <1>4 DEF IInv
-----------------------------------------------------------------------------
(* What is so of a handle used alone, whatever the server, the channel, the  *)
(* shutdown and dropped futures do.                                          *)

\* The inductive invariant holds all along.
THEOREM Invariant == UsedAlone /\ Spec => []IInv
<1>1. UsedAlone /\ Init => IInv
  BY InitIInv
<1> QED
  BY <1>1, NextIInv, PTL DEF Spec

\* Every variable has its type, and an open transaction has a channel in the cell.
THEOREM TypeCorrect == UsedAlone /\ Spec => []TypeOK
<1>1. IInv => TypeOK
  BY DEF IInv
<1> QED
  BY <1>1, Invariant, PTL

\* After a commit or an abort that returned Ok, every message its transaction accepted
\* is visible, or rolled back for good, as that Ok says, or as the first settlement says
\* whose future was dropped before.
THEOREM NoFalseOk == UsedAlone /\ Spec => []OkIsTrue
<1>1. IInv => OkIsTrue
  BY DEF IInv
<1> QED
  BY <1>1, Invariant, PTL

\* A transaction begins with nothing of an earlier one on its channel or staged.
THEOREM EmptyAtBegin == UsedAlone /\ Spec => []BeginsEmpty
<1>1. IInv => BeginsEmpty
  BY DEF IInv, NothingLeft, Carries, BeginsEmpty
<1> QED
  BY <1>1, Invariant, PTL

\* The channel of an open transaction is not replaced under it.
THEOREM SameChannel == UsedAlone /\ Spec => OpenKeepsChannel
<1>1. ASSUME IInv, [Next]_vars, open, open' PROVE held' = held
  <2>1. ASSUME NEW t \in Tasks PROVE ~Get(t)
    BY <1>1 DEF IInv, Calls, CallFits, Get
  <2> QED
    BY <1>1, <2>1 DEF Next, Operate, CallBegin, CallPublish, PublishPlainly, CallSettle, TxChannel, SetOpen,
                SendPublish, SendSettle, SettleFails, SettleReturns, DropFuture,
                OperateHere, BeginHere, SetOpenHere, PublishHere, Stage, PublishPlainlyHere, TakeStaged,
                CloseHere, AbortedHere, FlushHere, FlushRefused, FlushedHere,
                Serve, ServerCloses, ClientLearns, Shutdown, vars
<1>2. IInv /\ [Next]_vars => [open /\ open' => held' = held]_vars
  BY <1>1
<1> QED
  BY <1>2, Invariant, PTL DEF Spec, OpenKeepsChannel

\* In-process a commit ends with all of its transaction visible or none of it, unless
\* the transport was closed meanwhile.
THEOREM AllOrNothing == UsedAlone /\ Spec => WholeUnlessClosed
<1> DEFINE Whole(t) == CommitEnds(t) =>
                         accepted \subseteq visible \/ accepted \cap visible = {} \/ closed
<1>1. ASSUME IInv, [Next]_vars, NEW t \in Tasks PROVE Whole(t)
  <2> SUFFICES ASSUME CommitEnds(t) PROVE accepted \subseteq visible \/ accepted \cap visible = {} \/ closed
    OBVIOUS
  <2>1. /\ link = "in_process" /\ op[t] = "commit" /\ op'[t] = "none" /\ TypeOK /\ StagedThenFlushed
        /\ CallFits(t) /\ batch[t] \in Seq(Messages) /\ \A u \in Tasks : u = t
    BY <1>1 DEF CommitEnds, IInv, TypeOK, Calls, UsedAlone
  <2>2. OperateHere(t)
    <3>1. ~Operate(t)
      BY <1>1, <2>1, WhichTransport
    <3>2. op' # op
      BY <2>1
    <3> QED
      BY <1>1, <2>1, <3>1, <3>2 DEF Next, Serve, ServerCloses, ClientLearns, Shutdown, vars, taskVars
  <2>3. CloseHere(t) \/ FlushRefused(t) \/ FlushedHere(t)
    BY <2>1, <2>2 DEF OperateHere, BeginHere, SetOpenHere, PublishHere, Stage, PublishPlainlyHere, TakeStaged,
                      AbortedHere, FlushHere, CallFits, Here, taskVars
  <2>4. CASE CloseHere(t)
    <3>1. open
      BY <2>1, <2>4 DEF CloseHere, CallFits, Settling
    <3> QED
      BY <2>1, <3>1 DEF StagedThenFlushed
  <2>5. CASE FlushRefused(t)
    <3>1. pc[t] = "flushing" /\ batch[t] # <<>> /\ (closed \/ Head(batch[t]) \in Oversized)
      BY <2>5 DEF FlushRefused, RefusedHere
    <3>2. Head(batch[t]) \in ToSet(batch[t])
      BY <2>1, <3>1, SetOfSequence
    <3> QED
      BY <2>1, <3>1, <3>2 DEF StagedThenFlushed
  <2>6. CASE FlushedHere(t)
    <3>1. pc[t] = "flushing" /\ batch[t] = <<>>
      BY <2>6 DEF FlushedHere
    <3>2. accepted \subseteq visible \cup ToSet(<<>>)
      BY <2>1, <3>1 DEF StagedThenFlushed
    <3> QED
      BY <3>2 DEF ToSet
  <2> QED
    BY <2>3, <2>4, <2>5, <2>6
<1> HIDE DEF Whole
<1>2. IInv /\ [Next]_vars => [\A t \in Tasks : Whole(t)]_vars
  BY <1>1
<1>3. UsedAlone /\ Spec => [][\A t \in Tasks : Whole(t)]_vars
  BY <1>2, Invariant, PTL DEF Spec
<1> QED
  BY <1>3 DEF WholeUnlessClosed, Whole
=============================================================================
