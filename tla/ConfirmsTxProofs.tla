--------------------------- MODULE ConfirmsTxProofs ---------------------------
(***************************************************************************)
(* Proofs about the confirms publisher, for any number of tasks, messages  *)
(* and channels.                                                           *)
(***************************************************************************)
EXTENDS ConfirmsTx, TLAPS

\* The messages the server took or that are on their way to it.
OnWire(m) == \E c \in Channels : m \in ToSet(wire[c])
Reached(m) == m \in ToSet(taken) \/ OnWire(m)

\* The messages that left the client: they reached the wire, or are lost.
Lost(m) == verdict[m] = "lost"
Left(m) == Reached(m) \/ Lost(m)

\* A buffer of messages in the order they were published, up to the nth.
Sorted(b, n) ==
  /\ \A i \in DOMAIN b : b[i] <= n
  /\ \A i, j \in DOMAIN b : i < j => b[i] < b[j]

BuffersInOrder ==
  /\ \A b \in txn : Sorted(b, used)
  /\ \A t \in Tasks : Sorted(batch[t], used) /\ \A b \in owned[t] : Sorted(b, used)

\* The places a message can be in.
InTxn(m) == \E b \in txn : m \in ToSet(b)
InOwned(t, m) == \E b \in owned[t] : m \in ToSet(b)
InBatch(t, m) == m \in ToSet(batch[t])

\* A message is in the handle's transaction, or in that of one task, or in one
\* flush, or dropped; and it was published.
InOnePlace(m) ==
  /\ InTxn(m) => m <= used /\ m \notin dropped /\ \A t \in Tasks : ~InOwned(t, m) /\ ~InBatch(t, m)
  /\ m \in dropped => m <= used
  /\ \A t \in Tasks :
       /\ InOwned(t, m) =>
            /\ m <= used /\ m \notin dropped
            /\ \A u \in Tasks : ~InBatch(u, m) /\ (u # t => ~InOwned(u, m))
       /\ InBatch(t, m) => m <= used /\ m \notin dropped /\ \A u \in Tasks \ {t} : ~InBatch(u, m)
OnePlace == \A m \in Messages : InOnePlace(m)

\* What left was published, and sent by a flush.
LeftWasSent ==
  \A m \in Messages : Left(m) =>
    /\ m <= used
    /\ m \notin dropped
    /\ ~InTxn(m)
    /\ \A t \in Tasks :
         /\ ~InOwned(t, m)
         /\ \A i \in DOMAIN batch[t] : batch[t][i] = m => i <= sent[t]

Apart(b, d) == \A m \in ToSet(b) : m \notin ToSet(d)

\* A message is on one channel once, or taken once.
WireOnce ==
  /\ \A c \in Channels : \A i, j \in DOMAIN wire[c] : wire[c][i] = wire[c][j] => i = j
  /\ \A c, d \in Channels : c # d => Apart(wire[c], wire[d])
  /\ \A c \in Channels : Apart(wire[c], taken)
  /\ \A i, j \in DOMAIN taken : taken[i] = taken[j] => i = j

\* The place of a flush, and of its channel.
FlushSteps ==
  /\ \A t \in Tasks :
       /\ pc[t] = "channel" => sent[t] = 0
       /\ pc[t] = "confirming" => sent[t] = Len(batch[t])
       /\ pc[t] \in {"sending", "confirming"} => chan[t] \in Channels /\ state[chan[t]] # "new"
       /\ pc[t] \in {"idle", "channel"} => chan[t] = NoChannel
  /\ \A c \in Channels :
       /\ wire[c] # <<>> => state[c] = "up"
       /\ state[c] = "reconnecting" => recovers

\* What a flush sent is on its channel, if it is on any.
OnOwnChannel ==
  \A t \in Tasks :
    pc[t] \in {"sending", "confirming"} =>
      \A i \in DOMAIN batch[t], c \in Channels : batch[t][i] \in ToSet(wire[c]) => c = chan[t]

\* While its channel lives or is being restored, what a flush sent is there, was taken
\* or is lost.
SentIsCarried ==
  \A t \in Tasks :
    pc[t] = "sending" /\ state[chan[t]] \in {"up", "reconnecting"} =>
      \A i \in 1..sent[t] :
        batch[t][i] \in ToSet(taken) \/ batch[t][i] \in ToSet(wire[chan[t]]) \/ Lost(batch[t][i])

\* A message of a flush is behind those before it in the buffer that are not lost.
TakenBehind(t) ==
  \A j \in DOMAIN batch[t], n \in DOMAIN taken :
    taken[n] = batch[t][j] =>
      \A i \in 1..(j - 1) :
        Lost(batch[t][i]) \/ \E k \in 1..(n - 1) : taken[k] = batch[t][i]
WireBehind(t) ==
  \A c \in Channels : \A j \in DOMAIN batch[t], n \in DOMAIN wire[c] :
    wire[c][n] = batch[t][j] =>
      \A i \in 1..(j - 1) :
        \/ Lost(batch[t][i])
        \/ batch[t][i] \in ToSet(taken)
        \/ \E k \in 1..(n - 1) : wire[c][k] = batch[t][i]
Behind == \A t \in Tasks : TakenBehind(t) /\ WireBehind(t)

\* A message is lost only with `auto_recover`, and for good.
LostForGood == \A m \in Messages : Lost(m) => recovers /\ ~Reached(m)

\* The server answers what it takes, and each awaited answer was an ack.
AckedIsTaken ==
  /\ \A m \in Messages : verdict[m] \in {"ack", "nack"} <=> m \in ToSet(taken)
  /\ \A m \in claimed : verdict[m] = "ack"
  /\ \A t \in Tasks : \A i \in 1..confirmed[t] : verdict[batch[t][i]] = "ack"

\* The inductive invariant.
IInv ==
  /\ TypeOK
  /\ BuffersInOrder
  /\ OnePlace
  /\ LeftWasSent
  /\ WireOnce
  /\ FlushSteps
  /\ OnOwnChannel
  /\ SentIsCarried
  /\ Behind
  /\ LostForGood
  /\ AckedIsTaken
-----------------------------------------------------------------------------
(* Lemmas about sequences as sets.                                          *)

LEMMA SetOfEmpty == ToSet(<<>>) = {}
BY DEF ToSet

\* An appended element is the one that is new.
LEMMA SetOfAppend ==
  ASSUME NEW S, NEW s \in Seq(S), NEW e \in S
  PROVE  ToSet(Append(s, e)) = ToSet(s) \cup {e}
<1>1. \A i \in 1..Len(s) : Append(s, e)[i] = s[i]
  OBVIOUS
<1>2. Append(s, e)[Len(s) + 1] = e
  OBVIOUS
<1>3. DOMAIN Append(s, e) = 1..(Len(s) + 1) /\ DOMAIN s = 1..Len(s)
  OBVIOUS
<1> QED
  BY <1>1, <1>2, <1>3 DEF ToSet

\* The tail lacks the head, and nothing else.
LEMMA SetOfTail ==
  ASSUME NEW S, NEW s \in Seq(S), s # <<>>
  PROVE  ToSet(s) = {Head(s)} \cup ToSet(Tail(s))
<1>1. \A i \in 1..(Len(s) - 1) : Tail(s)[i] = s[i + 1]
  OBVIOUS
<1>2. Head(s) = s[1] /\ Len(s) > 0
  OBVIOUS
<1>3. DOMAIN Tail(s) = 1..(Len(s) - 1) /\ DOMAIN s = 1..Len(s)
  OBVIOUS
<1>4. ToSet(s) \subseteq {Head(s)} \cup ToSet(Tail(s))
  <2> SUFFICES ASSUME NEW i \in 1..Len(s), i # 1 PROVE s[i] \in ToSet(Tail(s))
    BY <1>2, <1>3 DEF ToSet
  <2>1. i - 1 \in 1..(Len(s) - 1) /\ s[i] = Tail(s)[i - 1]
    BY <1>1
  <2> QED
    BY <2>1, <1>3 DEF ToSet
<1>5. {Head(s)} \cup ToSet(Tail(s)) \subseteq ToSet(s)
  <2>1. ASSUME NEW i \in 1..(Len(s) - 1) PROVE Tail(s)[i] \in ToSet(s)
    BY <1>1, <1>3 DEF ToSet
  <2> QED
    BY <2>1, <1>2, <1>3 DEF ToSet
<1> QED
  BY <1>4, <1>5

\* A sorted buffer takes the next message, and stays sorted.
LEMMA SortedAppend ==
  ASSUME NEW n \in Nat, NEW b \in Seq(Messages), Sorted(b, n), n + 1 \in Messages
  PROVE  Sorted(Append(b, n + 1), n + 1)
<1> DEFINE a == Append(b, n + 1)
<1>1. /\ DOMAIN a = 1..(Len(b) + 1) /\ DOMAIN b = 1..Len(b) /\ Len(b) \in Nat
      /\ \A i \in 1..Len(b) : a[i] = b[i] /\ b[i] \in Messages
      /\ a[Len(b) + 1] = n + 1
  OBVIOUS
<1> HIDE DEF a
<1>2. \A i \in DOMAIN a : i \in 1..Len(b) \/ i = Len(b) + 1
  BY <1>1
<1>3. \A i \in 1..Len(b) : a[i] \in Nat /\ a[i] <= n
  <2>1. \A m \in Messages : m \in Nat
    BY DEF Messages
  <2>2. \A i \in 1..Len(b) : b[i] <= n
    BY <1>1 DEF Sorted
  <2> QED
    BY <1>1, <2>1, <2>2
<1>4. ASSUME NEW i \in DOMAIN a PROVE a[i] <= n + 1
  BY <1>1, <1>2, <1>3
<1>5. ASSUME NEW i \in DOMAIN a, NEW j \in DOMAIN a, i < j PROVE a[i] < a[j]
  <2>1. i \in 1..Len(b)
    BY <1>5, <1>1, <1>2
  <2>2. CASE j \in 1..Len(b)
    BY <2>1, <2>2, <1>1, <1>5 DEF Sorted
  <2>3. CASE j = Len(b) + 1
    BY <2>1, <2>3, <1>1, <1>3
  <2> QED
    BY <2>2, <2>3, <1>2
<1> QED
  BY <1>4, <1>5 DEF Sorted, a

\* What is sorted up to n is sorted up to more.
LEMMA SortedFurther ==
  ASSUME NEW n \in Nat, NEW b \in Seq(Messages), Sorted(b, n)
  PROVE  Sorted(b, n + 1)
<1>1. \A i \in DOMAIN b : b[i] \in Messages
  OBVIOUS
<1>2. \A m \in Messages : m \in Nat
  BY DEF Messages
<1> QED
  BY <1>1, <1>2 DEF Sorted
-----------------------------------------------------------------------------
\* The invariant holds before anything was published.
LEMMA InitIInv == Init => IInv
<1> SUFFICES ASSUME Init PROVE IInv
  OBVIOUS
<1> USE ConfirmsTxAssumption DEF Init, NoTxn
<1>1. TypeOK
  <2>1. /\ owned \in [Tasks -> SUBSET Seq(Messages)] /\ batch \in [Tasks -> Seq(Messages)]
        /\ wire \in [Channels -> Seq(Messages)] /\ taken \in Seq(Messages)
    OBVIOUS
  <2>2. /\ sent \in [Tasks -> Nat] /\ confirmed \in [Tasks -> Nat]
        /\ pc \in [Tasks -> {"idle"}] /\ chan \in [Tasks -> {NoChannel}]
    OBVIOUS
  <2>3. \A t \in Tasks : confirmed[t] <= sent[t] /\ sent[t] <= Len(batch[t])
    OBVIOUS
  <2>4. /\ used \in 0..MaxMessage /\ state \in [Channels -> {"new"}]
        /\ verdict \in [Messages -> {"none"}]
    OBVIOUS
  <2> QED
    BY <2>1, <2>2, <2>3, <2>4 DEF TypeOK
<1>2. Messages \subseteq Nat /\ \A c \in Channels : wire[c] = <<>> /\ taken = <<>>
  BY DEF Messages
<1>3. \A m : ~Reached(m)
  BY <1>2, SetOfEmpty DEF Reached, OnWire
<1>4. BuffersInOrder
  BY DEF BuffersInOrder, Sorted
<1>5. OnePlace
  BY SetOfEmpty DEF OnePlace, InOnePlace, InTxn, InOwned, InBatch
<1>6. LeftWasSent
  BY <1>3 DEF LeftWasSent, Left, Lost
<1>7. WireOnce
  BY <1>2, SetOfEmpty DEF WireOnce, Apart
<1>8. FlushSteps
  BY <1>2 DEF FlushSteps
<1>9. OnOwnChannel /\ SentIsCarried /\ Behind
  BY DEF OnOwnChannel, SentIsCarried, Behind, TakenBehind, WireBehind
<1>10. LostForGood
  BY DEF LostForGood, Lost
<1>11. AckedIsTaken
  BY <1>3 DEF AckedIsTaken, Reached
<1> QED
  BY <1>1, <1>4, <1>5, <1>6, <1>7, <1>8, <1>9, <1>10, <1>11 DEF IInv
-----------------------------------------------------------------------------
(* Each step keeps each part of the invariant.                              *)

\* The steps that touch the wire or what was taken.
LEMMA WireSteps ==
  ASSUME [Next]_vars
  PROVE  \/ UNCHANGED <<wire, taken>>
         \/ \E t \in Tasks : Send(t)
         \/ \E c \in Channels : Serve(c) \/ ServerCloses(c)
<1>1. ASSUME NEW t \in Tasks, Buffering(t) PROVE UNCHANGED <<wire, taken>>
  BY <1>1 DEF Buffering, Publish, Begin, Commit, Abort, Open, PublishOwned, CommitOwned,
              AbortOwned, serverVars
<1>2. ASSUME NEW t \in Tasks, Flushing(t), ~Send(t) PROVE UNCHANGED <<wire, taken>>
  BY <1>2 DEF Flushing, GetChannel, SendRefused, Confirm, FlushReturns, DropFuture,
              serverVars
<1> QED
  BY <1>1, <1>2 DEF Next, ClientLearns, Restore, Shutdown, vars, serverVars

\* A frame that leaves is new to the wire, and joins its channel's last or goes
\* nowhere.
LEMMA SendAppends ==
  ASSUME IInv, NEW t \in Tasks, Send(t)
  PROVE  /\ sent[t] + 1 \in DOMAIN batch[t]
         /\ batch[t][sent[t] + 1] \in Messages
         /\ ~Left(batch[t][sent[t] + 1])
         /\ chan[t] \in Channels
         /\ \/ state[chan[t]] # "up" /\ UNCHANGED wire
            \/ /\ state[chan[t]] = "up"
               /\ wire' = [wire EXCEPT ![chan[t]] = Append(@, batch[t][sent[t] + 1])]
<1>1. /\ sent[t] \in Nat /\ sent[t] < Len(batch[t]) /\ batch[t] \in Seq(Messages)
      /\ sent' = [sent EXCEPT ![t] = @ + 1]
  BY DEF Send, IInv, TypeOK
<1>2. sent[t] + 1 \in DOMAIN batch[t] /\ batch[t][sent[t] + 1] \in Messages
  BY <1>1
<1>3. ~Left(batch[t][sent[t] + 1])
  <2> DEFINE m == batch[t][sent[t] + 1]
  <2> SUFFICES ASSUME Left(m) PROVE FALSE
    OBVIOUS
  <2>1. \A i \in DOMAIN batch[t] : batch[t][i] = m => i <= sent[t]
    BY <1>2 DEF IInv, LeftWasSent
  <2> QED
    BY <2>1, <1>1, <1>2
<1>4. chan[t] \in Channels
  BY DEF Send, IInv, FlushSteps
<1> QED
  BY <1>2, <1>3, <1>4 DEF Send, Leaves

\* Each message is on the wire once, or taken once.
LEMMA KeepsWireOnce == IInv /\ [Next]_vars => WireOnce'
<1> SUFFICES ASSUME IInv, [Next]_vars PROVE WireOnce'
  OBVIOUS
<1>1. wire \in [Channels -> Seq(Messages)] /\ taken \in Seq(Messages)
  BY DEF IInv, TypeOK
<1>2. CASE UNCHANGED <<wire, taken>>
  BY <1>2 DEF IInv, WireOnce, Apart
<1>3. ASSUME NEW t \in Tasks, Send(t) PROVE WireOnce'
  <2> DEFINE m == batch[t][sent[t] + 1]
             c == chan[t]
  <2>1. m \in Messages /\ c \in Channels /\ m \notin ToSet(taken)
        /\ \A d \in Channels : m \notin ToSet(wire[d])
    BY <1>3, SendAppends DEF Left, Reached, OnWire
  <2>2. taken' = taken
    BY <1>3 DEF Send
  <2>3. CASE UNCHANGED wire
    BY <2>2, <2>3 DEF IInv, WireOnce, Apart
  <2>4. CASE wire' = [wire EXCEPT ![c] = Append(@, m)]
    <3> HIDE DEF m, c
    <3>1. wire'[c] = Append(wire[c], m) /\ \A d \in Channels \ {c} : wire'[d] = wire[d]
      BY <2>1, <2>4, <1>1
    <3>2. ToSet(wire'[c]) = ToSet(wire[c]) \cup {m}
      BY <3>1, <2>1, <1>1, SetOfAppend
    <3>3. ASSUME NEW i \in DOMAIN wire'[c], NEW j \in DOMAIN wire'[c], wire'[c][i] = wire'[c][j]
          PROVE  i = j
      <4>1. /\ DOMAIN wire'[c] = 1..(Len(wire[c]) + 1) /\ DOMAIN wire[c] = 1..Len(wire[c])
            /\ Len(wire[c]) \in Nat
            /\ \A k \in 1..Len(wire[c]) : wire'[c][k] = wire[c][k]
            /\ wire'[c][Len(wire[c]) + 1] = m
        BY <3>1, <2>1, <1>1
      <4>2. \A k \in 1..Len(wire[c]) : wire[c][k] # m
        BY <2>1, <4>1 DEF ToSet
      <4> QED
        BY <3>3, <4>1, <4>2, <2>1 DEF IInv, WireOnce
    <3>4. ASSUME NEW d \in Channels, NEW i \in DOMAIN wire'[d], NEW j \in DOMAIN wire'[d],
                 wire'[d][i] = wire'[d][j]
          PROVE  i = j
      BY <3>1, <3>3, <3>4 DEF IInv, WireOnce
    <3>5. ASSUME NEW d \in Channels, NEW e \in Channels, d # e PROVE Apart(wire'[d], wire'[e])
      <4>1. Apart(wire[d], wire[e]) /\ m \notin ToSet(wire[d]) /\ m \notin ToSet(wire[e])
        BY <3>5, <2>1 DEF IInv, WireOnce
      <4> QED
        BY <4>1, <3>1, <3>2, <3>5 DEF Apart
    <3>6. ASSUME NEW d \in Channels PROVE Apart(wire'[d], taken)
      <4>1. Apart(wire[d], taken)
        BY DEF IInv, WireOnce
      <4> QED
        BY <4>1, <3>1, <3>2, <2>1 DEF Apart
    <3> QED
      BY <3>4, <3>5, <3>6, <2>2 DEF IInv, WireOnce
  <2> QED
    BY <2>3, <2>4, <1>3, SendAppends
<1>4. ASSUME NEW c \in Channels, Serve(c) PROVE WireOnce'
  <2>1. /\ wire[c] # <<>> /\ taken' = Append(taken, Head(wire[c]))
        /\ wire'[c] = Tail(wire[c]) /\ \A d \in Channels \ {c} : wire'[d] = wire[d]
    BY <1>4, <1>1 DEF Serve
  <2>2. /\ DOMAIN wire'[c] = 1..(Len(wire[c]) - 1) /\ DOMAIN wire[c] = 1..Len(wire[c])
        /\ Len(wire[c]) \in Nat \ {0} /\ Head(wire[c]) = wire[c][1] /\ Head(wire[c]) \in Messages
        /\ \A k \in 1..(Len(wire[c]) - 1) : wire'[c][k] = wire[c][k + 1]
    BY <2>1, <1>1
  <2>3. ToSet(wire[c]) = {Head(wire[c])} \cup ToSet(wire'[c])
    BY <2>1, <1>1, SetOfTail
  <2>4. ToSet(taken') = ToSet(taken) \cup {Head(wire[c])}
    BY <2>1, <2>2, <1>1, SetOfAppend
  <2>5. \A i, j \in 1..Len(wire[c]) : wire[c][i] = wire[c][j] => i = j
    BY <2>2 DEF IInv, WireOnce
  <2>6. \A k \in 1..(Len(wire[c]) - 1) : wire'[c][k] # Head(wire[c])
    BY <2>2, <2>5
  <2>7. Head(wire[c]) \notin ToSet(wire'[c])
    BY <2>2, <2>6 DEF ToSet
  <2>8. \A i, j \in DOMAIN wire'[c] : wire'[c][i] = wire'[c][j] => i = j
    BY <2>2, <2>5
  <2>9. ASSUME NEW d \in Channels, NEW i \in DOMAIN wire'[d], NEW j \in DOMAIN wire'[d],
               wire'[d][i] = wire'[d][j]
        PROVE  i = j
    BY <2>1, <2>8, <2>9 DEF IInv, WireOnce
  <2>10. ASSUME NEW d \in Channels, NEW e \in Channels, d # e PROVE Apart(wire'[d], wire'[e])
    <3>1. Apart(wire[d], wire[e])
      BY <2>10 DEF IInv, WireOnce
    <3> QED
      BY <3>1, <2>1, <2>3, <2>10 DEF Apart
  <2>11. ASSUME NEW d \in Channels PROVE Apart(wire'[d], taken')
    <3>1. Apart(wire[d], taken) /\ (d # c => Apart(wire[d], wire[c]))
      BY DEF IInv, WireOnce
    <3> QED
      BY <3>1, <2>1, <2>3, <2>4, <2>7 DEF Apart
  <2>12. ASSUME NEW i \in DOMAIN taken', NEW j \in DOMAIN taken', taken'[i] = taken'[j]
         PROVE  i = j
    <3>1. /\ DOMAIN taken' = 1..(Len(taken) + 1) /\ DOMAIN taken = 1..Len(taken) /\ Len(taken) \in Nat
          /\ \A k \in 1..Len(taken) : taken'[k] = taken[k]
          /\ taken'[Len(taken) + 1] = Head(wire[c])
      BY <2>1, <2>2, <1>1
    <3>2. Head(wire[c]) \notin ToSet(taken)
      BY <2>3 DEF IInv, WireOnce, Apart
    <3>3. \A k \in 1..Len(taken) : taken[k] # Head(wire[c])
      BY <3>1, <3>2 DEF ToSet
    <3> QED
      BY <3>1, <3>3, <2>12 DEF IInv, WireOnce
  <2> QED
    BY <2>9, <2>10, <2>11, <2>12 DEF WireOnce
<1>5. ASSUME NEW c \in Channels, ServerCloses(c) PROVE WireOnce'
  <2>1. taken' = taken /\ wire'[c] = <<>> /\ \A d \in Channels \ {c} : wire'[d] = wire[d]
    BY <1>5, <1>1 DEF ServerCloses
  <2>2. \A d, e \in Channels : d # e => Apart(wire'[d], wire'[e])
    BY <2>1, SetOfEmpty DEF IInv, WireOnce, Apart
  <2>3. \A d \in Channels : Apart(wire'[d], taken)
    BY <2>1, SetOfEmpty DEF IInv, WireOnce, Apart
  <2>4. \A d \in Channels : \A i, j \in DOMAIN wire'[d] : wire'[d][i] = wire'[d][j] => i = j
    BY <2>1 DEF IInv, WireOnce
  <2> QED
    BY <2>1, <2>2, <2>3, <2>4 DEF IInv, WireOnce
<1> QED
  BY <1>2, <1>3, <1>4, <1>5, WireSteps

\* A transaction is none or one buffer; one that is empty, or takes a message,
\* is still that.
IsTxn(x) == x \subseteq Seq(Messages) /\ \A a, b \in x : a = b

LEMMA EmptyTxn == IsTxn({}) /\ IsTxn({<<>>})
<1>1. <<>> \in Seq(Messages)
  OBVIOUS
<1> QED
  BY <1>1 DEF IsTxn

LEMMA AppendedTxn ==
  ASSUME NEW x, IsTxn(x), NEW m \in Messages
  PROVE  IsTxn({Append(b, m) : b \in x})
<1>1. \A b \in x : Append(b, m) \in Seq(Messages)
  BY DEF IsTxn
<1>2. \A a, b \in x : a = b
  BY DEF IsTxn
<1> QED
  BY <1>1, <1>2 DEF IsTxn

\* A flush that begins is typed if its buffer is.
LEMMA StartFlushTyped ==
  ASSUME TypeOK, NEW t \in Tasks, NEW buffer \in Seq(Messages), StartFlush(t, buffer)
  PROVE  /\ pc' \in [Tasks -> {"idle", "channel", "sending", "confirming"}]
         /\ chan' = chan
         /\ batch' \in [Tasks -> Seq(Messages)]
         /\ sent' \in [Tasks -> Nat] /\ confirmed' \in [Tasks -> Nat]
         /\ \A u \in Tasks : confirmed'[u] <= sent'[u] /\ sent'[u] <= Len(batch'[u])
<1>1. /\ pc' \in [Tasks -> {"idle", "channel", "sending", "confirming"}] /\ chan' = chan
      /\ batch' \in [Tasks -> Seq(Messages)]
      /\ sent' \in [Tasks -> Nat] /\ confirmed' \in [Tasks -> Nat]
  BY DEF StartFlush, TypeOK
<1>2. confirmed'[t] = 0 /\ sent'[t] = 0 /\ Len(batch'[t]) \in Nat
  BY DEF StartFlush, TypeOK
<1>3. \A u \in Tasks \ {t} :
        confirmed'[u] = confirmed[u] /\ sent'[u] = sent[u] /\ batch'[u] = batch[u]
  BY DEF StartFlush, TypeOK
<1>4. ASSUME NEW u \in Tasks PROVE confirmed'[u] <= sent'[u] /\ sent'[u] <= Len(batch'[u])
  <2>1. CASE u = t
    BY <1>2, <2>1
  <2>2. CASE u # t
    BY <1>3, <2>2 DEF TypeOK
  <2> QED
    BY <2>1, <2>2
<1> QED
  BY <1>1, <1>4

\* The steps of the buffers: which flush begins, and with what.
LEMMA BufferingFlush ==
  ASSUME TypeOK, NEW t \in Tasks, Buffering(t)
  PROVE  /\ UNCHANGED <<recovers, held, serverVars, closed, claimed>>
         /\ \/ UNCHANGED flushVars
            \/ /\ pc[t] = "idle"
               /\ \E buffer \in Seq(Messages) : StartFlush(t, buffer)
<1>1. /\ \A b \in txn : b \in Seq(Messages)
      /\ \A b \in owned[t] : b \in Seq(Messages)
  BY DEF TypeOK
<1>2. CASE Publish(t)
  <2>1. used + 1 \in Messages
    BY <1>2, ConfirmsTxAssumption DEF Publish, TypeOK, Messages
  <2>2. <<NextMessage>> \in Seq(Messages)
    BY <2>1 DEF NextMessage
  <2> QED
    BY <1>2, <2>2 DEF Publish, Idle
<1>3. CASE Commit(t)
  BY <1>3, <1>1 DEF Commit, Idle
<1>4. CASE CommitOwned(t)
  BY <1>4, <1>1 DEF CommitOwned, Idle
<1>5. CASE Begin(t) \/ Abort(t) \/ Open(t) \/ PublishOwned(t) \/ AbortOwned(t)
  BY <1>5 DEF Begin, Abort, Open, PublishOwned, AbortOwned
<1> QED
  BY <1>2, <1>3, <1>4, <1>5 DEF Buffering

\* Every variable keeps its type.
LEMMA KeepsTypeOK == IInv /\ [Next]_vars => TypeOK'
<1> SUFFICES ASSUME IInv, [Next]_vars PROVE TypeOK'
  OBVIOUS
<1> USE ConfirmsTxAssumption
<1>1. TypeOK
  BY DEF IInv
<1>2. ASSUME NEW t \in Tasks, Buffering(t) PROVE TypeOK'
  <2>1. /\ UNCHANGED <<recovers, held, serverVars, closed, claimed>>
        /\ pc' \in [Tasks -> {"idle", "channel", "sending", "confirming"}]
        /\ chan' = chan
        /\ batch' \in [Tasks -> Seq(Messages)]
        /\ sent' \in [Tasks -> Nat] /\ confirmed' \in [Tasks -> Nat]
        /\ \A u \in Tasks : confirmed'[u] <= sent'[u] /\ sent'[u] <= Len(batch'[u])
    <3>1. CASE UNCHANGED flushVars
      BY <1>1, <1>2, <3>1, BufferingFlush DEF TypeOK, flushVars
    <3>2. CASE \E buffer \in Seq(Messages) : StartFlush(t, buffer)
      BY <1>1, <1>2, <3>2, BufferingFlush, StartFlushTyped
    <3> QED
      BY <1>1, <1>2, <3>1, <3>2, BufferingFlush
  <2>2. /\ used' \in 0..MaxMessage
        /\ IsTxn(txn')
        /\ IsTxn(owned'[t]) /\ owned' = [owned EXCEPT ![t] = owned'[t]]
        /\ dropped' \subseteq Messages
    <3>1. /\ used \in 0..MaxMessage /\ IsTxn(txn) /\ IsTxn(owned[t]) /\ dropped \subseteq Messages
          /\ owned \in [Tasks -> SUBSET Seq(Messages)]
      BY <1>1 DEF TypeOK, IsTxn
    <3>2. ASSUME used < MaxMessage
          PROVE  used + 1 \in Messages /\ used + 1 \in 0..MaxMessage
      BY <3>1, <3>2 DEF Messages
    <3>3. \A x : IsTxn(x) => \A b \in x : ToSet(b) \subseteq Messages
      BY DEF ToSet, IsTxn
    <3>4. CASE Publish(t)
      <4>1. used' = used + 1 /\ used < MaxMessage /\ UNCHANGED <<owned, dropped>>
            /\ (txn' = txn \/ txn' = {Append(b, used + 1) : b \in txn})
        BY <3>4 DEF Publish, NextMessage
      <4>2. IsTxn(txn')
        BY <3>1, <3>2, <4>1, AppendedTxn
      <4> QED
        BY <3>1, <3>2, <4>1, <4>2
    <3>5. CASE PublishOwned(t)
      <4>1. /\ used' = used + 1 /\ used < MaxMessage /\ UNCHANGED <<txn, dropped>>
            /\ owned' = [owned EXCEPT ![t] = {Append(b, used + 1) : b \in owned[t]}]
        BY <3>5 DEF PublishOwned, NextMessage
      <4>2. IsTxn(owned'[t])
        BY <3>1, <3>2, <4>1, AppendedTxn
      <4> QED
        BY <3>1, <3>2, <4>1, <4>2
    <3>6. CASE Begin(t) \/ Commit(t)
      BY <3>1, <3>6, EmptyTxn DEF Begin, Commit, NoTxn, Txn
    <3>7. CASE Open(t) \/ CommitOwned(t)
      BY <3>1, <3>7, EmptyTxn DEF Open, CommitOwned, NoTxn, Txn
    <3>8. CASE Abort(t)
      BY <3>1, <3>3, <3>8, EmptyTxn DEF Abort, NoTxn
    <3>9. CASE AbortOwned(t)
      BY <3>1, <3>3, <3>9, EmptyTxn DEF AbortOwned, NoTxn
    <3> QED
      BY <1>2, <3>4, <3>5, <3>6, <3>7, <3>8, <3>9 DEF Buffering
  <2>3. /\ owned' \in [Tasks -> SUBSET Seq(Messages)]
        /\ \A u \in Tasks : \A a, b \in owned'[u] : a = b
    <3>1. /\ owned \in [Tasks -> SUBSET Seq(Messages)]
          /\ \A u \in Tasks : \A a, b \in owned[u] : a = b
      BY <1>1 DEF TypeOK
    <3>2. owned'[t] \subseteq Seq(Messages) /\ \A a, b \in owned'[t] : a = b
      BY <2>2 DEF IsTxn
    <3>3. \A u \in Tasks \ {t} : owned'[u] = owned[u]
      BY <2>2, <3>1
    <3>4. owned' \in [Tasks -> SUBSET Seq(Messages)]
      BY <2>2, <3>1, <3>2
    <3> QED
      BY <3>1, <3>2, <3>3, <3>4
  <2> QED
    BY <1>1, <2>1, <2>2, <2>3 DEF TypeOK, IsTxn, serverVars
<1>3. ASSUME NEW t \in Tasks, Flushing(t) PROVE TypeOK'
  <2> USE <1>1 DEF TypeOK, buffers, serverVars
  <2>1. CASE GetChannel(t)
    <3>1. held' \in Channels \cup {NoChannel} /\ state' \in [Channels -> {"new", "up", "dying", "reconnecting", "gone"}]
      BY <2>1 DEF GetChannel
    <3>2. chan' \in [Tasks -> Channels \cup {NoChannel}]
      <4>1. \E c \in Channels \cup {NoChannel} : chan' = [chan EXCEPT ![t] = c]
        BY <2>1, Zenon DEF GetChannel, End
      <4> QED
        BY <4>1
    <3>3. pc' \in [Tasks -> {"idle", "channel", "sending", "confirming"}]
      <4>1. pc' = [pc EXCEPT ![t] = "sending"] \/ pc' = [pc EXCEPT ![t] = "idle"]
        BY <2>1, Zenon DEF GetChannel, End
      <4> QED
        BY <4>1
    <3> QED
      BY <2>1, <3>1, <3>2, <3>3 DEF GetChannel
  <2>2. CASE Send(t)
    <3>1. /\ sent[t] + 1 \in DOMAIN batch[t] /\ batch[t][sent[t] + 1] \in Messages
          /\ chan[t] \in Channels
      BY <2>2, SendAppends
    <3>2. /\ wire' \in [Channels -> Seq(Messages)]
          /\ verdict' \in [Messages -> {"none", "ack", "nack", "lost"}]
          /\ pc' \in [Tasks -> {"idle", "channel", "sending", "confirming"}]
      BY <2>2, <3>1 DEF Send, Leaves
    <3>3. /\ sent' \in [Tasks -> Nat] /\ sent'[t] = sent[t] + 1 /\ sent[t] < Len(batch[t])
          /\ \A u \in Tasks \ {t} : sent'[u] = sent[u]
      BY <2>2 DEF Send
    <3>4. \A u \in Tasks : confirmed[u] <= sent'[u] /\ sent'[u] <= Len(batch[u])
      <4> SUFFICES ASSUME NEW u \in Tasks
                   PROVE  confirmed[u] <= sent'[u] /\ sent'[u] <= Len(batch[u])
        OBVIOUS
      <4>1. confirmed[u] \in Nat /\ sent[u] \in Nat /\ Len(batch[u]) \in Nat
        OBVIOUS
      <4>2. CASE u = t
        BY <3>3, <4>1, <4>2
      <4>3. CASE u # t
        BY <3>3, <4>3
      <4> QED
        BY <4>2, <4>3
    <3> QED
      BY <2>2, <3>2, <3>3, <3>4 DEF Send
  <2>3. CASE SendRefused(t) \/ DropFuture(t)
    BY <2>3 DEF SendRefused, DropFuture, End
  <2>4. CASE Confirm(t)
    <3>1. /\ pc' \in [Tasks -> {"idle", "channel", "sending", "confirming"}]
          /\ chan' \in [Tasks -> Channels \cup {NoChannel}]
      BY <2>4 DEF Confirm, End
    <3>2. confirmed[t] # Len(batch[t]) /\ sent[t] = Len(batch[t])
      BY <2>4 DEF Confirm, AllConfirmed, IInv, FlushSteps
    <3>3. confirmed' = confirmed \/ confirmed' = [confirmed EXCEPT ![t] = confirmed[t] + 1]
      BY <2>4 DEF Confirm
    <3>4. confirmed' \in [Tasks -> Nat]
      <4>1. confirmed[t] + 1 \in Nat
        OBVIOUS
      <4> QED
        BY <3>3, <4>1
    <3>5. ASSUME NEW u \in Tasks PROVE confirmed'[u] <= sent[u]
      <4>1. confirmed[t] < sent[t]
        BY <3>2
      <4>2. confirmed[u] \in Nat /\ sent[u] \in Nat /\ confirmed[u] <= sent[u]
        OBVIOUS
      <4>3. confirmed'[u] = confirmed[u] \/ (u = t /\ confirmed'[u] = confirmed[u] + 1)
        BY <3>3
      <4> QED
        BY <4>1, <4>2, <4>3
    <3> QED
      BY <2>4, <3>1, <3>4, <3>5 DEF Confirm
  <2>5. CASE FlushReturns(t)
    <3>1. ToSet(batch[t]) \subseteq Messages
      BY DEF ToSet
    <3> QED
      BY <2>5, <3>1 DEF FlushReturns, End
  <2> QED
    BY <1>3, <2>1, <2>2, <2>3, <2>4, <2>5 DEF Flushing
<1>4. ASSUME NEW c \in Channels, Serve(c) PROVE TypeOK'
  <2> USE <1>1 DEF TypeOK
  <2>1. wire[c] \in Seq(Messages) /\ wire[c] # <<>>
    BY <1>4 DEF Serve
  <2>2. Head(wire[c]) \in Messages /\ Tail(wire[c]) \in Seq(Messages)
    BY <2>1
  <2> QED
    BY <1>4, <2>2 DEF Serve, buffers, flushVars
<1>5. ASSUME NEW c \in Channels, ServerCloses(c) \/ ClientLearns(c) \/ Restore(c) PROVE TypeOK'
  <2>1. /\ state' \in [Channels -> {"new", "up", "dying", "reconnecting", "gone"}]
        /\ verdict' \in [Messages -> {"none", "ack", "nack", "lost"}]
    BY <1>1, <1>5 DEF TypeOK, ServerCloses, ClientLearns, Restore
  <2>2. wire' \in [Channels -> Seq(Messages)]
    <3>1. <<>> \in Seq(Messages)
      OBVIOUS
    <3>2. wire' = wire \/ wire' = [wire EXCEPT ![c] = <<>>]
      BY <1>5 DEF ServerCloses, ClientLearns, Restore
    <3> QED
      BY <1>1, <3>1, <3>2 DEF TypeOK
  <2>3. UNCHANGED <<recovers, buffers, held, taken, closed, flushVars, dropped, claimed>>
    BY <1>5 DEF ServerCloses, ClientLearns, Restore
  <2> QED
    BY <1>1, <2>1, <2>2, <2>3 DEF TypeOK, buffers, flushVars
<1>6. CASE Shutdown
  BY <1>1, <1>6 DEF TypeOK, Shutdown, buffers, serverVars, flushVars
<1>7. CASE UNCHANGED vars
  BY <1>1, <1>7 DEF TypeOK, vars, buffers, serverVars, flushVars
<1> QED
  BY <1>2, <1>3, <1>4, <1>5, <1>6, <1>7 DEF Next

\* The steps that touch the buffers or what was dropped are those of the buffers.
LEMMA BufferSteps ==
  ASSUME [Next]_vars, ~\E t \in Tasks : Buffering(t)
  PROVE  UNCHANGED <<used, txn, owned, batch, dropped>>
<1>1. ASSUME NEW t \in Tasks, Flushing(t) PROVE UNCHANGED <<used, txn, owned, batch, dropped>>
  BY <1>1 DEF Flushing, GetChannel, Send, SendRefused, Confirm, FlushReturns, DropFuture,
              buffers
<1> QED
  BY <1>1 DEF Next, Serve, ServerCloses, ClientLearns, Restore, Shutdown, vars, buffers, flushVars

\* The buffer of a flush that begins.
LEMMA StartFlushBatch ==
  ASSUME TypeOK, NEW t \in Tasks, NEW buffer, StartFlush(t, buffer)
  PROVE  batch'[t] = buffer /\ \A u \in Tasks \ {t} : batch'[u] = batch[u]
BY DEF StartFlush, TypeOK

\* Buffers stay in the order of publishing.
LEMMA KeepsBuffersInOrder == IInv /\ [Next]_vars => BuffersInOrder'
<1> SUFFICES ASSUME IInv, [Next]_vars PROVE BuffersInOrder'
  OBVIOUS
<1>1. TypeOK /\ BuffersInOrder
  BY DEF IInv
<1>2. CASE ~\E t \in Tasks : Buffering(t)
  BY <1>1, <1>2, BufferSteps DEF BuffersInOrder
<1>3. ASSUME NEW t \in Tasks, Buffering(t) PROVE BuffersInOrder'
  <2> DEFINE Fine(b, n) == b \in Seq(Messages) /\ Sorted(b, n)
  <2>1. /\ used \in Nat /\ owned \in [Tasks -> SUBSET Seq(Messages)]
        /\ \A b \in txn : Fine(b, used)
        /\ \A u \in Tasks : Fine(batch[u], used) /\ \A b \in owned[u] : Fine(b, used)
    BY <1>1, ConfirmsTxAssumption DEF TypeOK, BuffersInOrder
  <2>2. ASSUME used < MaxMessage
        PROVE  /\ used + 1 \in Messages
               /\ \A b : Fine(b, used) =>
                    Sorted(b, used + 1) /\ Sorted(Append(b, used + 1), used + 1)
    <3>1. used + 1 \in Messages
      BY <2>1, <2>2, ConfirmsTxAssumption DEF Messages
    <3> QED
      BY <3>1, <2>1, SortedAppend, SortedFurther
  <2>3. \A n : Sorted(<<>>, n)
    BY DEF Sorted
  <2>4. \A n \in Nat : Sorted(<<n>>, n)
    BY DEF Sorted
  <2> HIDE DEF Fine
  <2>5. \A b, n : Fine(b, n) => Sorted(b, n)
    BY DEF Fine
  <2>6. CASE Publish(t)
    <3>1. used' = used + 1 /\ used < MaxMessage /\ UNCHANGED owned
      BY <2>6 DEF Publish, NextMessage
    <3>2. CASE txn' = {Append(b, used + 1) : b \in txn} /\ UNCHANGED batch
      BY <2>1, <2>2, <3>1, <3>2 DEF BuffersInOrder
    <3>3. CASE UNCHANGED txn /\ StartFlush(t, <<used + 1>>)
      <4>1. Sorted(<<used + 1>>, used + 1)
        BY <2>1, <2>4
      <4> QED
        BY <1>1, <2>1, <2>2, <3>1, <3>3, <4>1, StartFlushBatch DEF BuffersInOrder
    <3> QED
      BY <2>6, <3>2, <3>3 DEF Publish, NextMessage, flushVars
  <2>7. CASE PublishOwned(t)
    <3>1. /\ used' = used + 1 /\ used < MaxMessage /\ UNCHANGED <<txn, batch>>
          /\ owned'[t] = {Append(b, used + 1) : b \in owned[t]}
          /\ \A u \in Tasks \ {t} : owned'[u] = owned[u]
      BY <2>1, <2>7 DEF PublishOwned, NextMessage, flushVars
    <3>2. \A b \in owned'[t] : Sorted(b, used + 1)
      BY <2>1, <2>2, <3>1
    <3>3. \A u \in Tasks \ {t} : \A b \in owned'[u] : Sorted(b, used + 1)
      BY <2>1, <2>2, <3>1
    <3>4. \A b \in txn : Sorted(b, used + 1)
      BY <2>1, <2>2, <3>1
    <3>5. \A u \in Tasks : Sorted(batch[u], used + 1)
      BY <2>1, <2>2, <3>1
    <3> QED
      BY <3>1, <3>2, <3>3, <3>4, <3>5 DEF BuffersInOrder
  <2>8. CASE Begin(t) \/ Abort(t)
    <3>1. UNCHANGED <<used, owned, batch>> /\ \A b \in txn' : b = <<>>
      BY <2>8 DEF Begin, Abort, flushVars, NoTxn, Txn
    <3> QED
      BY <2>1, <2>3, <2>5, <3>1 DEF BuffersInOrder
  <2>9. CASE Open(t) \/ AbortOwned(t)
    <3>1. /\ UNCHANGED <<used, txn, batch>> /\ \A b \in owned'[t] : b = <<>>
          /\ \A u \in Tasks \ {t} : owned'[u] = owned[u]
      BY <2>1, <2>9 DEF Open, AbortOwned, flushVars, NoTxn, Txn
    <3>2. ASSUME NEW u \in Tasks, NEW b \in owned'[u] PROVE Sorted(b, used)
      <4>1. u = t => b = <<>>
        BY <3>1, <3>2
      <4>2. u # t => b \in owned[u]
        BY <3>1, <3>2
      <4> QED
        BY <4>1, <4>2, <2>1, <2>3, <2>5
    <3> QED
      BY <2>1, <2>5, <3>1, <3>2 DEF BuffersInOrder
  <2>10. CASE Commit(t)
    <3>1. UNCHANGED <<used, owned>> /\ txn' = {} /\ \E b \in txn : StartFlush(t, b)
      BY <2>10 DEF Commit, NoTxn
    <3> QED
      BY <1>1, <2>1, <2>5, <3>1, StartFlushBatch DEF BuffersInOrder
  <2>11. CASE CommitOwned(t)
    <3>1. /\ UNCHANGED <<used, txn>> /\ owned'[t] = {} /\ \E b \in owned[t] : StartFlush(t, b)
          /\ \A u \in Tasks \ {t} : owned'[u] = owned[u]
      BY <2>1, <2>11 DEF CommitOwned, NoTxn
    <3> QED
      BY <1>1, <2>1, <2>5, <3>1, StartFlushBatch DEF BuffersInOrder
  <2> QED
    BY <1>3, <2>6, <2>7, <2>8, <2>9, <2>10, <2>11 DEF Buffering
<1> QED
  BY <1>2, <1>3

\* Where a step of the buffers puts a message: what it publishes goes to one
\* place, and what it settles leaves one place for another.
New(m) == m = used + 1 /\ used' = used + 1
LEMMA Moves ==
  ASSUME IInv, NEW t \in Tasks, Buffering(t)
  PROVE  /\ used' \in {used, used + 1}
         /\ UNCHANGED <<wire, taken>>
         /\ \A u \in Tasks \ {t} : owned'[u] = owned[u] /\ batch'[u] = batch[u] /\ sent'[u] = sent[u]
         /\ \/ /\ \A m \in Messages : InTxn(m)' => InTxn(m) \/ New(m)
               /\ UNCHANGED <<owned, batch, sent, dropped>>
            \/ /\ \A m \in Messages : InOwned(t, m)' => InOwned(t, m) \/ New(m)
               /\ UNCHANGED <<txn, batch, sent, dropped>>
            \/ /\ \A m \in Messages : InBatch(t, m)' => New(m)
               /\ UNCHANGED <<txn, owned, dropped>>
            \/ /\ \A m \in Messages : ~InTxn(m)' /\ (InBatch(t, m)' => InTxn(m))
               /\ UNCHANGED <<used, owned, dropped>>
            \/ /\ \A m \in Messages : ~InOwned(t, m)' /\ (InBatch(t, m)' => InOwned(t, m))
               /\ UNCHANGED <<used, txn, dropped>>
            \/ /\ \A m \in Messages : ~InTxn(m)' /\ (m \in dropped' => m \in dropped \/ InTxn(m))
               /\ UNCHANGED <<used, owned, batch, sent>>
            \/ /\ \A m \in Messages : ~InOwned(t, m)' /\ (m \in dropped' => m \in dropped \/ InOwned(t, m))
               /\ UNCHANGED <<used, txn, batch, sent>>
<1>1. TypeOK
  BY DEF IInv
<1>2. /\ owned \in [Tasks -> SUBSET Seq(Messages)] /\ txn \subseteq Seq(Messages)
      /\ batch \in [Tasks -> Seq(Messages)] /\ sent \in [Tasks -> Nat]
  BY <1>1 DEF TypeOK
<1>3. ASSUME NEW buffer, StartFlush(t, buffer)
      PROVE  /\ batch'[t] = buffer
             /\ \A u \in Tasks \ {t} : batch'[u] = batch[u] /\ sent'[u] = sent[u]
  BY <1>2, <1>3 DEF StartFlush
<1>4. CASE Publish(t)
  <2>1. used' = used + 1 /\ used + 1 \in Messages /\ UNCHANGED <<wire, taken, owned, dropped>>
    BY <1>1, <1>4, ConfirmsTxAssumption DEF Publish, NextMessage, serverVars, TypeOK, Messages
  <2>2. CASE txn' = {Append(b, used + 1) : b \in txn} /\ UNCHANGED flushVars
    <3>1. ASSUME NEW m \in Messages, InTxn(m)' PROVE InTxn(m) \/ m = used + 1
      <4>1. PICK b \in txn : m \in ToSet(Append(b, used + 1))
        BY <2>2, <3>1 DEF InTxn
      <4>2. m \in ToSet(b) \/ m = used + 1
        BY <1>2, <2>1, <4>1, SetOfAppend
      <4> QED
        BY <4>2 DEF InTxn
    <3> QED
      BY <2>1, <2>2, <3>1 DEF New, flushVars
  <2>3. CASE UNCHANGED txn /\ StartFlush(t, <<used + 1>>)
    <3>1. ToSet(<<used + 1>>) = {used + 1}
      BY DEF ToSet
    <3>2. \A m \in Messages : InBatch(t, m)' => m = used + 1
      BY <1>3, <2>3, <3>1 DEF InBatch
    <3> QED
      BY <1>3, <2>1, <2>3, <3>2 DEF New
  <2> QED
    BY <1>4, <2>2, <2>3 DEF Publish, NextMessage
<1>5. CASE PublishOwned(t)
  <2>1. /\ used' = used + 1 /\ used + 1 \in Messages /\ UNCHANGED <<wire, taken, txn, batch, sent, dropped>>
        /\ owned'[t] = {Append(b, used + 1) : b \in owned[t]}
        /\ \A u \in Tasks \ {t} : owned'[u] = owned[u]
    BY <1>1, <1>5, ConfirmsTxAssumption
       DEF PublishOwned, NextMessage, serverVars, flushVars, TypeOK, Messages
  <2>2. ASSUME NEW m \in Messages, InOwned(t, m)' PROVE InOwned(t, m) \/ m = used + 1
    <3>1. PICK b \in owned[t] : m \in ToSet(Append(b, used + 1))
      BY <2>1, <2>2 DEF InOwned
    <3>2. m \in ToSet(b) \/ m = used + 1
      BY <1>2, <2>1, <3>1, SetOfAppend
    <3> QED
      BY <3>2 DEF InOwned
  <2> QED
    BY <2>1, <2>2 DEF New
<1>6. CASE Begin(t)
  <2>1. UNCHANGED <<used, wire, taken, owned, batch, sent, dropped>> /\ txn' = {<<>>}
    BY <1>6 DEF Begin, serverVars, flushVars, Txn
  <2> QED
    BY <2>1, SetOfEmpty DEF InTxn
<1>7. CASE Open(t)
  <2>1. /\ UNCHANGED <<used, wire, taken, txn, batch, sent, dropped>> /\ owned'[t] = {<<>>}
        /\ \A u \in Tasks \ {t} : owned'[u] = owned[u]
    BY <1>2, <1>7 DEF Open, serverVars, flushVars, Txn
  <2> QED
    BY <2>1, SetOfEmpty DEF InOwned
<1>8. CASE Abort(t)
  <2>1. /\ UNCHANGED <<used, wire, taken, owned, batch, sent>> /\ txn' = {}
        /\ \E b \in txn : dropped' = dropped \cup ToSet(b)
    BY <1>8 DEF Abort, serverVars, flushVars, NoTxn
  <2> QED
    BY <2>1 DEF InTxn
<1>9. CASE AbortOwned(t)
  <2>1. /\ UNCHANGED <<used, wire, taken, txn, batch, sent>> /\ owned'[t] = {}
        /\ \A u \in Tasks \ {t} : owned'[u] = owned[u]
        /\ \E b \in owned[t] : dropped' = dropped \cup ToSet(b)
    BY <1>2, <1>9 DEF AbortOwned, serverVars, flushVars, NoTxn
  <2>2. \A m \in Messages :
          ~InOwned(t, m)' /\ (m \in dropped' => m \in dropped \/ InOwned(t, m))
    <3>1. PICK b \in owned[t] : dropped' = dropped \cup ToSet(b)
      BY <2>1
    <3>2. \A m \in ToSet(b) : InOwned(t, m)
      BY DEF InOwned
    <3>3. \A m : ~InOwned(t, m)'
      BY <2>1 DEF InOwned
    <3> QED
      BY <3>1, <3>2, <3>3
  <2> QED
    BY <2>1, <2>2
<1>10. CASE Commit(t)
  <2>1. /\ UNCHANGED <<used, wire, taken, owned, dropped>> /\ txn' = {}
        /\ \E b \in txn : StartFlush(t, b)
    BY <1>10 DEF Commit, serverVars, NoTxn
  <2> QED
    BY <1>3, <2>1 DEF InTxn, InBatch
<1>11. CASE CommitOwned(t)
  <2>1. /\ UNCHANGED <<used, wire, taken, txn, dropped>> /\ owned'[t] = {}
        /\ \A u \in Tasks \ {t} : owned'[u] = owned[u]
        /\ \E b \in owned[t] : StartFlush(t, b)
    BY <1>2, <1>11 DEF CommitOwned, serverVars, NoTxn
  <2>2. \A m \in Messages : ~InOwned(t, m)' /\ (InBatch(t, m)' => InOwned(t, m))
    <3>1. PICK b \in owned[t] : StartFlush(t, b)
      BY <2>1
    <3>2. \A m : InBatch(t, m)' => InOwned(t, m)
      BY <1>3, <3>1 DEF InOwned, InBatch
    <3>3. \A m : ~InOwned(t, m)'
      BY <2>1 DEF InOwned
    <3> QED
      BY <3>2, <3>3
  <2> QED
    BY <1>3, <2>1, <2>2
<1> QED
  BY <1>4, <1>5, <1>6, <1>7, <1>8, <1>9, <1>10, <1>11 DEF Buffering

\* A message stays in one place.
LEMMA KeepsOnePlace == IInv /\ [Next]_vars => OnePlace'
<1> SUFFICES ASSUME IInv, [Next]_vars PROVE OnePlace'
  OBVIOUS
<1>1. TypeOK /\ OnePlace
  BY DEF IInv
<1>2. CASE ~\E t \in Tasks : Buffering(t)
  BY <1>1, <1>2, BufferSteps DEF OnePlace, InOnePlace, InTxn, InOwned, InBatch
<1>3. ASSUME NEW t \in Tasks, Buffering(t) PROVE OnePlace'
  <2> SUFFICES ASSUME NEW m \in Messages
               PROVE  InOnePlace(m)'
    BY DEF OnePlace
  <2>1. used \in Nat /\ m \in Nat /\ used' \in {used, used + 1}
    BY <1>1, <1>3, Moves, ConfirmsTxAssumption DEF TypeOK, Messages
  <2>2. New(m) => /\ m <= used' /\ m \notin dropped /\ ~InTxn(m)
                  /\ \A u \in Tasks : ~InOwned(u, m) /\ ~InBatch(u, m)
    BY <1>1, <2>1 DEF OnePlace, InOnePlace, New
  <2>3. m <= used => m <= used'
    BY <2>1
  <2>4. /\ (UNCHANGED txn) => (InTxn(m)' <=> InTxn(m))
        /\ \A u \in Tasks : owned'[u] = owned[u] => (InOwned(u, m)' <=> InOwned(u, m))
        /\ \A u \in Tasks : batch'[u] = batch[u] => (InBatch(u, m)' <=> InBatch(u, m))
    BY DEF InTxn, InOwned, InBatch
  <2> QED
    BY <1>1, <1>3, <2>2, <2>3, <2>4, Moves DEF OnePlace, InOnePlace
<1> QED
  BY <1>2, <1>3

\* A flush holds a message once.
LEMMA BatchOnce ==
  ASSUME IInv, NEW t \in Tasks, NEW i \in DOMAIN batch[t], NEW j \in DOMAIN batch[t],
         batch[t][i] = batch[t][j]
  PROVE  i = j
<1>1. batch[t] \in Seq(Messages) /\ Sorted(batch[t], used)
  BY DEF IInv, TypeOK, BuffersInOrder
<1>2. i \in Nat /\ j \in Nat /\ batch[t][i] \in Messages
  BY <1>1
<1>3. ~(i < j) /\ ~(j < i)
  BY <1>1, <1>2 DEF Sorted, Messages
<1> QED
  BY <1>2, <1>3

\* Where a frame that leaves is found afterwards.
LEMMA SendReaches ==
  ASSUME IInv, NEW t \in Tasks, Send(t)
  PROVE  /\ UNCHANGED <<used, txn, owned, batch, dropped, taken>>
         /\ sent'[t] = sent[t] + 1 /\ \A u \in Tasks \ {t} : sent'[u] = sent[u]
         /\ \A c \in Channels : \A m \in ToSet(wire'[c]) :
              m \in ToSet(wire[c]) \/ m = batch[t][sent[t] + 1]
         /\ \A c \in Channels : ToSet(wire[c]) \subseteq ToSet(wire'[c])
         /\ \A c \in Channels \ {chan[t]} : wire'[c] = wire[c]
         /\ state[chan[t]] = "up" => batch[t][sent[t] + 1] \in ToSet(wire'[chan[t]])
<1> DEFINE m == batch[t][sent[t] + 1]
<1>1. /\ UNCHANGED <<used, txn, owned, batch, dropped, taken>>
      /\ sent'[t] = sent[t] + 1 /\ \A u \in Tasks \ {t} : sent'[u] = sent[u]
  BY DEF Send, buffers, IInv, TypeOK
<1>2. CASE state[chan[t]] # "up" /\ UNCHANGED wire
  BY <1>1, <1>2
<1>3. CASE state[chan[t]] = "up" /\ wire' = [wire EXCEPT ![chan[t]] = Append(@, m)]
  <2>1. m \in Messages /\ chan[t] \in Channels /\ wire \in [Channels -> Seq(Messages)]
    BY SendAppends DEF IInv, TypeOK
  <2> HIDE DEF m
  <2>2. ToSet(wire'[chan[t]]) = ToSet(wire[chan[t]]) \cup {m}
    BY <1>3, <2>1, SetOfAppend
  <2>3. \A c \in Channels \ {chan[t]} : wire'[c] = wire[c]
    BY <1>3, <2>1
  <2>4. \A c \in Channels :
          ToSet(wire[c]) \subseteq ToSet(wire'[c]) /\ ToSet(wire'[c]) \subseteq ToSet(wire[c]) \cup {m}
    BY <2>2, <2>3
  <2> QED
    BY <1>1, <2>2, <2>3, <2>4 DEF m
<1> QED
  BY <1>2, <1>3, SendAppends

\* What the server takes leaves its channel, and nothing else does.
LEMMA ServeTakes ==
  ASSUME IInv, NEW c \in Channels, Serve(c)
  PROVE  /\ UNCHANGED <<used, txn, owned, state, flushVars, dropped, claimed>>
         /\ Head(wire[c]) \in Messages
         /\ ToSet(taken') = ToSet(taken) \cup {Head(wire[c])}
         /\ ToSet(wire[c]) = {Head(wire[c])} \cup ToSet(wire'[c])
         /\ \A d \in Channels \ {c} : wire'[d] = wire[d]
<1>1. /\ wire \in [Channels -> Seq(Messages)] /\ taken \in Seq(Messages) /\ wire[c] # <<>>
      /\ wire' = [wire EXCEPT ![c] = Tail(@)] /\ taken' = Append(taken, Head(wire[c]))
      /\ UNCHANGED <<used, txn, owned, state, flushVars, dropped, claimed>>
  BY DEF IInv, TypeOK, Serve, buffers
<1>2. Head(wire[c]) \in Messages
  BY <1>1
<1>3. ToSet(wire[c]) = {Head(wire[c])} \cup ToSet(Tail(wire[c]))
  BY <1>1, SetOfTail
<1>4. ToSet(taken') = ToSet(taken) \cup {Head(wire[c])}
  BY <1>1, <1>2, SetOfAppend
<1> QED
  BY <1>1, <1>2, <1>3, <1>4

\* The steps that touch neither buffers nor wire touch no message.
LEMMA QuietSteps ==
  ASSUME [Next]_vars, ~\E t \in Tasks : Buffering(t) \/ Send(t),
         ~\E c \in Channels : Serve(c) \/ ServerCloses(c)
  PROVE  UNCHANGED <<used, txn, owned, batch, sent, dropped, wire, taken>>
<1>1. ASSUME NEW t \in Tasks, Flushing(t), ~Send(t) PROVE UNCHANGED sent
  BY <1>1 DEF Flushing, GetChannel, SendRefused, Confirm, FlushReturns, DropFuture
<1>2. UNCHANGED sent
  BY <1>1 DEF Next, ClientLearns, Restore, Shutdown, vars, flushVars
<1> QED
  BY <1>2, BufferSteps, WireSteps

\* What is in a flush is nowhere else, and in it once.
LEMMA InFlush ==
  ASSUME IInv, NEW t \in Tasks, NEW i \in DOMAIN batch[t]
  PROVE  /\ batch[t][i] \in Messages
         /\ batch[t][i] <= used /\ batch[t][i] \notin dropped /\ ~InTxn(batch[t][i])
         /\ \A u \in Tasks :
              /\ ~InOwned(u, batch[t][i])
              /\ \A k \in DOMAIN batch[u] : batch[u][k] = batch[t][i] => u = t /\ k = i
<1> DEFINE m == batch[t][i]
<1>1. batch[t] \in Seq(Messages) /\ InBatch(t, m)
  BY DEF IInv, TypeOK, InBatch, ToSet
<1>2. m \in Messages
  BY <1>1
<1>3. /\ m <= used /\ m \notin dropped /\ ~InTxn(m)
      /\ \A u \in Tasks : ~InOwned(u, m) /\ (u # t => ~InBatch(u, m))
  BY <1>1, <1>2 DEF IInv, OnePlace, InOnePlace
<1>4. ASSUME NEW u \in Tasks, NEW k \in DOMAIN batch[u], batch[u][k] = m
      PROVE  u = t /\ k = i
  <2>1. InBatch(u, m)
    BY <1>4 DEF InBatch, ToSet
  <2>2. u = t
    BY <1>3, <2>1
  <2> QED
    BY <1>4, <2>2, BatchOnce
<1> QED
  BY <1>2, <1>3, <1>4

\* A lost message was sent by its flush and is nowhere.
LEMMA Losing ==
  ASSUME IInv, [Next]_vars, NEW m \in Messages, Lost(m)', ~Lost(m)
  PROVE  /\ recovers /\ ~Reached(m)
         /\ UNCHANGED <<wire, taken>>
         /\ \E t \in Tasks : \E i \in DOMAIN batch[t] : batch[t][i] = m /\ i <= sent'[t]
<1>1. TypeOK /\ FlushSteps
  BY DEF IInv
<1>2. \/ \E t \in Tasks : Send(t)
      \/ \E c \in Channels : ClientLearns(c)
  <2>1. ASSUME NEW t \in Tasks, Buffering(t) PROVE UNCHANGED verdict
    BY <1>1, <2>1, BufferingFlush DEF serverVars
  <2>2. ASSUME NEW t \in Tasks, Flushing(t), ~Send(t) PROVE UNCHANGED verdict
    BY <2>2 DEF Flushing, GetChannel, SendRefused, Confirm, FlushReturns, DropFuture, serverVars
  <2>3. ASSUME NEW c \in Channels, Serve(c) PROVE ~Lost(m)'
    BY <1>1, <2>3 DEF Serve, Lost, TypeOK
  <2>4. ASSUME NEW c \in Channels, ServerCloses(c) \/ Restore(c) PROVE UNCHANGED verdict
    BY <2>4 DEF ServerCloses, Restore
  <2>5. CASE Shutdown \/ UNCHANGED vars
    BY <2>5 DEF Shutdown, vars, serverVars, Lost
  <2> QED
    BY <2>1, <2>2, <2>3, <2>4, <2>5 DEF Next, Lost
<1>3. ASSUME NEW t \in Tasks, Send(t)
      PROVE  /\ recovers /\ ~Reached(m) /\ UNCHANGED <<wire, taken>>
             /\ sent[t] + 1 \in DOMAIN batch[t] /\ batch[t][sent[t] + 1] = m
             /\ sent[t] + 1 <= sent'[t]
  <2>1. /\ sent[t] + 1 \in DOMAIN batch[t] /\ ~Left(batch[t][sent[t] + 1])
        /\ chan[t] \in Channels /\ taken' = taken
        /\ sent'[t] = sent[t] + 1 /\ sent[t] \in Nat
    BY <1>1, <1>3, SendAppends, SendReaches DEF TypeOK
  <2>2. state[chan[t]] = "reconnecting" /\ batch[t][sent[t] + 1] = m /\ UNCHANGED wire
    BY <1>1, <1>3 DEF Send, Leaves, Lost, TypeOK
  <2> QED
    BY <1>1, <2>1, <2>2 DEF FlushSteps, Left
<1>4. ASSUME NEW c \in Channels, ClientLearns(c)
      PROVE  /\ recovers /\ ~Reached(m) /\ UNCHANGED <<wire, taken>>
             /\ \E t \in Tasks : \E i \in DOMAIN batch[t] : batch[t][i] = m /\ i <= sent'[t]
  <2>1. /\ UNCHANGED <<wire, taken, sent>> /\ recovers /\ state[c] = "dying"
        /\ m \in Published(c) /\ verdict[m] = "none"
    BY <1>1, <1>4 DEF ClientLearns, Lost, TypeOK, flushVars
  <2>2. PICK t \in Tasks : chan[t] = c /\ \E i \in 1..sent[t] : batch[t][i] = m
    BY <2>1 DEF Published
  <2>3. PICK i \in 1..sent[t] : batch[t][i] = m
    BY <2>2
  <2>4. i \in DOMAIN batch[t] /\ i <= sent[t]
    BY <1>1, <2>3 DEF TypeOK
  <2>5. pc[t] \in {"sending", "confirming"}
    <3>1. c # NoChannel
      BY ConfirmsTxAssumption DEF Channels, NoChannel
    <3>2. pc[t] \in {"idle", "channel", "sending", "confirming"}
      BY <1>1 DEF TypeOK
    <3> QED
      BY <1>1, <2>2, <3>1, <3>2 DEF FlushSteps
  <2>6. m \notin ToSet(taken)
    BY <2>1 DEF IInv, AckedIsTaken
  <2>7. wire[c] = <<>>
    BY <1>1, <2>1 DEF FlushSteps
  <2>8. ~OnWire(m)
    BY <2>2, <2>3, <2>4, <2>5, <2>7, SetOfEmpty DEF OnWire, IInv, OnOwnChannel
  <2> QED
    BY <2>1, <2>3, <2>4, <2>6, <2>8 DEF Reached
<1> QED
  BY <1>2, <1>3, <1>4

\* What is lost stays lost.
LEMMA LostStays ==
  ASSUME IInv, [Next]_vars, NEW m \in Messages, Lost(m)
  PROVE  verdict'[m] = "lost"
<1>1. TypeOK /\ ~Reached(m)
  BY DEF IInv, LostForGood
<1>2. ASSUME NEW t \in Tasks, Buffering(t) PROVE verdict'[m] = "lost"
  BY <1>1, <1>2, BufferingFlush DEF serverVars, Lost
<1>3. ASSUME NEW t \in Tasks, Flushing(t) PROVE verdict'[m] = "lost"
  BY <1>1, <1>3 DEF Flushing, GetChannel, Send, Leaves, SendRefused, Confirm, FlushReturns,
                    DropFuture, serverVars, Lost, TypeOK
<1>4. ASSUME NEW c \in Channels, Serve(c) PROVE verdict'[m] = "lost"
  <2>1. m # Head(wire[c])
    BY <1>1, <1>4, ServeTakes DEF Reached, OnWire
  <2> QED
    BY <1>1, <1>4, <2>1 DEF Serve, Lost, TypeOK
<1>5. ASSUME NEW c \in Channels, ServerCloses(c) \/ ClientLearns(c) \/ Restore(c) PROVE verdict'[m] = "lost"
  BY <1>1, <1>5 DEF ServerCloses, ClientLearns, Restore, Lost, TypeOK
<1>6. CASE Shutdown \/ UNCHANGED vars
  BY <1>6 DEF Shutdown, vars, serverVars, Lost
<1> QED
  BY <1>2, <1>3, <1>4, <1>5, <1>6 DEF Next

\* `auto_recover` is not changed.
LEMMA RecoversStays ==
  ASSUME [Next]_vars
  PROVE  recovers' = recovers
BY DEF Next, Buffering, Publish, Begin, Commit, Abort, Open, PublishOwned, CommitOwned, AbortOwned,
       Flushing, GetChannel, Send, SendRefused, Confirm, FlushReturns, DropFuture,
       Serve, ServerCloses, ClientLearns, Restore, Shutdown, vars

\* Only a frame that leaves reaches anything.
LEMMA Reaching ==
  ASSUME IInv, [Next]_vars, NEW m, Reached(m)', ~Reached(m)
  PROVE  \E t \in Tasks : Send(t) /\ m = batch[t][sent[t] + 1]
<1>1. CASE UNCHANGED <<wire, taken>>
  BY <1>1 DEF Reached, OnWire
<1>2. ASSUME NEW t \in Tasks, Send(t) PROVE m = batch[t][sent[t] + 1]
  BY <1>2, SendReaches DEF Reached, OnWire
<1>3. ASSUME NEW c \in Channels, Serve(c) PROVE FALSE
  BY <1>3, ServeTakes DEF Reached, OnWire
<1>4. ASSUME NEW c \in Channels, ServerCloses(c) PROVE FALSE
  <2>1. taken' = taken /\ wire'[c] = <<>> /\ \A d \in Channels \ {c} : wire'[d] = wire[d]
    BY <1>4 DEF ServerCloses, IInv, TypeOK
  <2> QED
    BY <2>1, SetOfEmpty DEF Reached, OnWire
<1> QED
  BY <1>1, <1>2, <1>3, <1>4, WireSteps

\* What is lost never reaches the server.
LEMMA KeepsLostForGood == IInv /\ [Next]_vars => LostForGood'
<1> SUFFICES ASSUME IInv, [Next]_vars, NEW m \in Messages, Lost(m)'
             PROVE  recovers' /\ ~Reached(m)'
  BY DEF LostForGood
<1>1. CASE ~Lost(m)
  BY <1>1, Losing, RecoversStays DEF Reached, OnWire
<1>2. CASE Lost(m)
  <2>1. recovers /\ ~Reached(m)
    BY <1>2 DEF IInv, LostForGood
  <2>2. ASSUME NEW t \in Tasks, Send(t) PROVE m # batch[t][sent[t] + 1]
    BY <1>2, <2>2, SendAppends DEF Left
  <2> QED
    BY <2>1, <2>2, Reaching, RecoversStays
<1> QED
  BY <1>1, <1>2

\* What left was sent.
LEMMA KeepsLeftWasSent == IInv /\ [Next]_vars => LeftWasSent'
<1> SUFFICES ASSUME IInv, [Next]_vars PROVE LeftWasSent'
  OBVIOUS
<1>1. TypeOK /\ OnePlace /\ LeftWasSent
  BY DEF IInv
<1>2. /\ sent \in [Tasks -> Nat] /\ used \in Nat /\ Messages \subseteq Nat
      /\ \A t \in Tasks : DOMAIN batch[t] \subseteq Nat
  BY <1>1, ConfirmsTxAssumption DEF TypeOK, Messages
<1>3. CASE UNCHANGED <<used, txn, owned, batch, sent, dropped, wire, taken>>
  <2> SUFFICES ASSUME NEW m \in Messages, Left(m)'
               PROVE  /\ m <= used /\ m \notin dropped /\ ~InTxn(m)
                      /\ \A u \in Tasks :
                           /\ ~InOwned(u, m)
                           /\ \A k \in DOMAIN batch[u] : batch[u][k] = m => k <= sent[u]
    BY <1>3 DEF LeftWasSent, InTxn, InOwned
  <2>1. CASE Left(m)
    BY <1>1, <2>1 DEF LeftWasSent
  <2>2. CASE ~Left(m)
    <3>1. Lost(m)' /\ ~Lost(m)
      BY <1>3, <2>2 DEF Left, Reached, OnWire
    <3>2. PICK t \in Tasks : \E i \in DOMAIN batch[t] : batch[t][i] = m /\ i <= sent[t]
      BY <1>3, <3>1, Losing
    <3>3. PICK i \in DOMAIN batch[t] : batch[t][i] = m /\ i <= sent[t]
      BY <3>2
    <3> QED
      BY <3>3, InFlush
  <2> QED
    BY <2>1, <2>2
<1>4. ASSUME NEW t \in Tasks, Buffering(t), NEW m \in Messages, Left(m)'
      PROVE  /\ m <= used' /\ m \notin dropped' /\ ~InTxn(m)'
             /\ \A u \in Tasks :
                  /\ ~InOwned(u, m)'
                  /\ \A i \in DOMAIN batch'[u] : batch'[u][i] = m => i <= sent'[u]
  <2>1. Left(m) /\ used' \in {used, used + 1}
    BY <1>1, <1>4, Moves, BufferingFlush DEF Left, Lost, Reached, OnWire, serverVars
  <2>2. /\ m <= used /\ m \notin dropped /\ ~InTxn(m)
        /\ \A u \in Tasks :
             /\ ~InOwned(u, m)
             /\ \A i \in DOMAIN batch[u] : batch[u][i] = m => i <= sent[u]
    BY <1>1, <2>1 DEF LeftWasSent
  <2>3. m <= used' /\ ~New(m)
    BY <1>2, <2>1, <2>2 DEF New
  <2>4. /\ (UNCHANGED txn) => (InTxn(m)' <=> InTxn(m))
        /\ \A u \in Tasks : owned'[u] = owned[u] => (InOwned(u, m)' <=> InOwned(u, m))
        /\ ~InBatch(t, m)' => \A i \in DOMAIN batch'[t] : batch'[t][i] # m
    BY DEF InTxn, InOwned, InBatch, ToSet
  <2>5. ~InTxn(m)' /\ m \notin dropped' /\ \A u \in Tasks : ~InOwned(u, m)'
    BY <1>4, <2>2, <2>3, <2>4, Moves
  <2>6. ~InBatch(t, m)' \/ (UNCHANGED <<batch, sent>>)
    BY <1>4, <2>2, <2>3, Moves
  <2>7. \A u \in Tasks \ {t} : batch'[u] = batch[u] /\ sent'[u] = sent[u]
    BY <1>4, Moves
  <2> QED
    BY <2>2, <2>3, <2>4, <2>5, <2>6, <2>7
<1>5. ASSUME NEW t \in Tasks, Send(t), NEW m \in Messages, Left(m)'
      PROVE  /\ m <= used /\ m \notin dropped /\ ~InTxn(m)
             /\ \A u \in Tasks :
                  /\ ~InOwned(u, m)
                  /\ \A i \in DOMAIN batch[u] : batch[u][i] = m => i <= sent'[u]
  <2>1. /\ sent'[t] = sent[t] + 1 /\ \A u \in Tasks \ {t} : sent'[u] = sent[u]
        /\ sent[t] + 1 \in DOMAIN batch[t]
    BY <1>5, SendReaches, SendAppends
  <2>2. Left(m) \/ m = batch[t][sent[t] + 1]
    <3>1. Reached(m)' => Reached(m) \/ m = batch[t][sent[t] + 1]
      BY <1>5, SendReaches DEF Reached, OnWire
    <3>2. Lost(m)' => Lost(m) \/ m = batch[t][sent[t] + 1]
      BY <1>1, <1>5 DEF Send, Leaves, Lost, TypeOK
    <3> QED
      BY <1>5, <3>1, <3>2 DEF Left
  <2>3. CASE Left(m)
    BY <1>1, <1>2, <2>1, <2>3 DEF LeftWasSent
  <2>4. CASE m = batch[t][sent[t] + 1]
    <3>1. /\ m <= used /\ m \notin dropped /\ ~InTxn(m)
          /\ \A u \in Tasks :
               /\ ~InOwned(u, m)
               /\ \A k \in DOMAIN batch[u] : batch[u][k] = m => u = t /\ k = sent'[t]
      BY <2>1, <2>4, InFlush
    <3>2. \A u \in Tasks : \A k \in DOMAIN batch[u] : batch[u][k] = m => k <= sent'[u]
      BY <1>2, <2>1, <3>1
    <3> QED
      BY <3>1, <3>2
  <2> QED
    BY <2>2, <2>3, <2>4
<1>6. ASSUME NEW t \in Tasks, Send(t) PROVE LeftWasSent'
  BY <1>5, <1>6, SendReaches DEF LeftWasSent, InTxn, InOwned
<1>7. ASSUME NEW c \in Channels, Serve(c) PROVE LeftWasSent'
  <2>1. UNCHANGED <<used, txn, owned, batch, sent, dropped>>
    BY <1>7, ServeTakes DEF flushVars
  <2>2. \A m \in Messages : Left(m)' => Left(m)
    <3>1. \A m : Reached(m)' => Reached(m)
      BY <1>7, ServeTakes DEF Reached, OnWire
    <3>2. \A m \in Messages : Lost(m)' => Lost(m)
      BY <1>1, <1>7 DEF Serve, Lost, TypeOK
    <3> QED
      BY <3>1, <3>2 DEF Left
  <2> QED
    BY <1>1, <2>1, <2>2 DEF LeftWasSent, InTxn, InOwned
<1>8. ASSUME NEW c \in Channels, ServerCloses(c) PROVE LeftWasSent'
  <2>1. UNCHANGED <<used, txn, owned, batch, sent, dropped, taken, verdict>>
        /\ wire'[c] = <<>> /\ \A d \in Channels \ {c} : wire'[d] = wire[d]
    BY <1>1, <1>8 DEF ServerCloses, TypeOK, buffers, flushVars
  <2>2. \A m : Left(m)' => Left(m)
    BY <2>1, SetOfEmpty DEF Left, Lost, Reached, OnWire
  <2> QED
    BY <1>1, <2>1, <2>2 DEF LeftWasSent, InTxn, InOwned
<1>9. ASSUME NEW t \in Tasks, Buffering(t) PROVE LeftWasSent'
  BY <1>4, <1>9 DEF LeftWasSent
<1> QED
  BY <1>3, <1>6, <1>7, <1>8, <1>9, QuietSteps

\* Where each flush is, and on which channel.
LEMMA KeepsFlushSteps == IInv /\ [Next]_vars => FlushSteps'
<1> SUFFICES ASSUME IInv, [Next]_vars PROVE FlushSteps'
  OBVIOUS
<1>1. TypeOK /\ FlushSteps /\ recovers' = recovers
  BY RecoversStays DEF IInv
<1>2. ASSUME NEW t \in Tasks, Buffering(t) PROVE FlushSteps'
  <2>1. UNCHANGED <<state, wire>>
    BY <1>1, <1>2, BufferingFlush DEF serverVars
  <2>2. CASE UNCHANGED flushVars
    BY <1>1, <2>1, <2>2 DEF FlushSteps, flushVars
  <2>3. CASE pc[t] = "idle" /\ \E buffer \in Seq(Messages) : StartFlush(t, buffer)
    <3>1. /\ pc[t] = "idle" /\ pc'[t] \in {"idle", "channel"} /\ sent'[t] = 0 /\ UNCHANGED chan
          /\ \A u \in Tasks \ {t} : pc'[u] = pc[u] /\ sent'[u] = sent[u] /\ batch'[u] = batch[u]
      BY <1>1, <2>3 DEF StartFlush, TypeOK
    <3> QED
      BY <1>1, <2>1, <3>1 DEF FlushSteps
  <2> QED
    BY <1>1, <1>2, <2>2, <2>3, BufferingFlush
<1>3. ASSUME NEW t \in Tasks, GetChannel(t) PROVE FlushSteps'
  <2>1. /\ UNCHANGED <<wire, batch, sent>>
        /\ \A u \in Tasks \ {t} : pc'[u] = pc[u] /\ chan'[u] = chan[u]
        /\ \A c \in Channels : state'[c] = state[c] \/ (state[c] = "new" /\ state'[c] = "up")
        /\ \/ pc'[t] = "idle" /\ chan'[t] = NoChannel
           \/ pc'[t] = "sending" /\ chan'[t] \in Channels /\ state'[chan'[t]] # "new"
    BY <1>1, <1>3 DEF GetChannel, End, Usable, TypeOK
  <2> QED
    BY <1>1, <2>1 DEF FlushSteps
<1>4. ASSUME NEW t \in Tasks, Send(t) PROVE FlushSteps'
  <2>1. /\ UNCHANGED <<chan, state, batch>> /\ pc[t] = "sending"
        /\ \A u \in Tasks \ {t} : pc'[u] = pc[u] /\ sent'[u] = sent[u]
        /\ \/ pc'[t] = "sending"
           \/ pc'[t] = "confirming" /\ sent'[t] = Len(batch[t])
        /\ chan[t] \in Channels
        /\ \A c \in Channels : wire'[c] = wire[c] \/ state[c] = "up"
    BY <1>1, <1>4, SendAppends DEF Send, TypeOK
  <2> QED
    BY <1>1, <2>1 DEF FlushSteps
<1>5. ASSUME NEW t \in Tasks,
             SendRefused(t) \/ Confirm(t) \/ FlushReturns(t) \/ DropFuture(t)
      PROVE  FlushSteps'
  <2>1. /\ UNCHANGED <<state, wire, batch, sent>>
        /\ \A u \in Tasks \ {t} : pc'[u] = pc[u] /\ chan'[u] = chan[u]
        /\ \/ pc'[t] = "idle" /\ chan'[t] = NoChannel
           \/ UNCHANGED <<pc, chan>>
    BY <1>1, <1>5 DEF SendRefused, Confirm, FlushReturns, DropFuture, End, serverVars, TypeOK
  <2> QED
    BY <1>1, <2>1 DEF FlushSteps
<1>6. ASSUME NEW c \in Channels, Serve(c) PROVE FlushSteps'
  <2>1. /\ UNCHANGED <<state, flushVars>>
        /\ wire[c] # <<>> /\ \A d \in Channels \ {c} : wire'[d] = wire[d]
    BY <1>6, ServeTakes DEF Serve
  <2> QED
    BY <1>1, <2>1 DEF FlushSteps, flushVars
<1>7. ASSUME NEW c \in Channels, ServerCloses(c) \/ ClientLearns(c) \/ Restore(c) PROVE FlushSteps'
  <2>1. /\ UNCHANGED flushVars
        /\ state[c] # "new" /\ state'[c] # "new"
        /\ state'[c] = "reconnecting" => recovers
        /\ (wire'[c] = <<>> \/ (UNCHANGED wire /\ state[c] # "up"))
        /\ \A d \in Channels \ {c} : wire'[d] = wire[d] /\ state'[d] = state[d]
    BY <1>1, <1>7 DEF ServerCloses, ClientLearns, Restore, TypeOK
  <2> QED
    BY <1>1, <2>1 DEF FlushSteps, flushVars
<1>8. CASE Shutdown \/ UNCHANGED vars
  <2>1. UNCHANGED <<state, wire, flushVars>>
    BY <1>8 DEF Shutdown, vars, serverVars
  <2> QED
    BY <1>1, <2>1 DEF FlushSteps, flushVars
<1> QED
  BY <1>2, <1>3, <1>4, <1>5, <1>6, <1>7, <1>8 DEF Next, Flushing

\* A flush's messages are on its own channel.
LEMMA KeepsOnOwnChannel == IInv /\ [Next]_vars => OnOwnChannel'
<1> SUFFICES ASSUME IInv, [Next]_vars, NEW u \in Tasks, pc'[u] \in {"sending", "confirming"},
                    NEW i \in DOMAIN batch'[u], NEW d \in Channels,
                    batch'[u][i] \in ToSet(wire'[d])
             PROVE  d = chan'[u]
  BY DEF OnOwnChannel
<1>1. TypeOK /\ FlushSteps /\ OnOwnChannel
  BY DEF IInv
<1>2. CASE /\ pc'[u] = pc[u] /\ chan'[u] = chan[u] /\ batch'[u] = batch[u]
           /\ ToSet(wire'[d]) \subseteq ToSet(wire[d])
  BY <1>1, <1>2 DEF OnOwnChannel
<1>3. ASSUME NEW t \in Tasks, Buffering(t) PROVE d = chan'[u]
  <2>1. UNCHANGED wire
    BY <1>1, <1>3, BufferingFlush DEF serverVars
  <2>2. CASE UNCHANGED flushVars
    BY <1>2, <2>1, <2>2 DEF flushVars
  <2>3. CASE \E buffer \in Seq(Messages) : StartFlush(t, buffer)
    <3>1. /\ pc'[t] \in {"idle", "channel"} /\ UNCHANGED chan
          /\ \A w \in Tasks \ {t} : pc'[w] = pc[w] /\ batch'[w] = batch[w]
      BY <1>1, <2>3 DEF StartFlush, TypeOK
    <3>2. u # t
      BY <3>1
    <3> QED
      BY <1>2, <2>1, <3>1, <3>2
  <2> QED
    BY <1>1, <1>3, <2>2, <2>3, BufferingFlush
<1>4. ASSUME NEW t \in Tasks, GetChannel(t) PROVE d = chan'[u]
  <2>1. /\ UNCHANGED <<wire, batch>> /\ sent[t] = 0
        /\ \A w \in Tasks \ {t} : pc'[w] = pc[w] /\ chan'[w] = chan[w]
    BY <1>1, <1>4 DEF GetChannel, End, FlushSteps, TypeOK
  <2>2. CASE u = t
    <3>1. Left(batch[t][i]) /\ i \in DOMAIN batch[t]
      BY <2>1, <2>2 DEF Left, Reached, OnWire
    <3>2. i <= sent[t] /\ i \in Nat \ {0}
      BY <1>1, <3>1, InFlush DEF IInv, LeftWasSent, TypeOK
    <3> QED
      BY <2>1, <3>2
  <2> QED
    BY <1>2, <2>1, <2>2
<1>5. ASSUME NEW t \in Tasks, Send(t) PROVE d = chan'[u]
  <2>1. /\ UNCHANGED <<chan, batch>> /\ pc[t] = "sending"
        /\ \A w \in Tasks \ {t} : pc'[w] = pc[w]
        /\ \A c \in Channels \ {chan[t]} : wire'[c] = wire[c]
        /\ \A m \in ToSet(wire'[d]) : m \in ToSet(wire[d]) \/ m = batch[t][sent[t] + 1]
        /\ sent[t] + 1 \in DOMAIN batch[t]
    BY <1>1, <1>5, SendReaches, SendAppends DEF Send, TypeOK
  <2>2. pc[u] \in {"sending", "confirming"}
    BY <2>1
  <2>3. CASE batch[u][i] \in ToSet(wire[d])
    BY <1>1, <2>1, <2>2, <2>3 DEF OnOwnChannel
  <2>4. CASE batch[u][i] \notin ToSet(wire[d])
    <3>1. d = chan[t]
      BY <2>1, <2>4
    <3>2. batch[u][i] = batch[t][sent[t] + 1]
      BY <2>1, <2>4
    <3>3. u = t
      BY <2>1, <3>2, InFlush
    <3> QED
      BY <2>1, <3>1, <3>3
  <2> QED
    BY <2>3, <2>4
<1>6. ASSUME NEW t \in Tasks, SendRefused(t) \/ Confirm(t) \/ FlushReturns(t) \/ DropFuture(t)
      PROVE  d = chan'[u]
  <2>1. /\ UNCHANGED <<wire, batch>>
        /\ \A w \in Tasks \ {t} : pc'[w] = pc[w] /\ chan'[w] = chan[w]
        /\ pc'[t] = "idle" \/ (pc'[t] = pc[t] /\ chan'[t] = chan[t])
    BY <1>1, <1>6 DEF SendRefused, Confirm, FlushReturns, DropFuture, End, serverVars, TypeOK
  <2> QED
    BY <1>2, <2>1
<1>7. ASSUME NEW c \in Channels, Serve(c) PROVE d = chan'[u]
  <2>1. UNCHANGED flushVars /\ ToSet(wire'[d]) \subseteq ToSet(wire[d])
    BY <1>7, ServeTakes
  <2> QED
    BY <1>2, <2>1 DEF flushVars
<1>8. ASSUME NEW c \in Channels, ServerCloses(c) \/ ClientLearns(c) \/ Restore(c)
      PROVE  d = chan'[u]
  <2>1. UNCHANGED flushVars /\ (wire'[d] = <<>> \/ wire'[d] = wire[d])
    BY <1>1, <1>8 DEF ServerCloses, ClientLearns, Restore, TypeOK
  <2> QED
    BY <1>2, <2>1, SetOfEmpty DEF flushVars
<1>9. CASE Shutdown \/ UNCHANGED vars
  BY <1>2, <1>9 DEF Shutdown, vars, serverVars, flushVars
<1> QED
  BY <1>3, <1>4, <1>5, <1>6, <1>7, <1>8, <1>9 DEF Next, Flushing

\* What was sent is on the channel, taken or lost, while the channel may yet be used.
LEMMA KeepsSentIsCarried == IInv /\ [Next]_vars => SentIsCarried'
<1> SUFFICES ASSUME IInv, [Next]_vars, NEW u \in Tasks, pc'[u] = "sending",
                    state'[chan'[u]] \in {"up", "reconnecting"}, NEW i \in 1..sent'[u]
             PROVE  \/ batch'[u][i] \in ToSet(taken') \/ batch'[u][i] \in ToSet(wire'[chan'[u]])
                    \/ verdict'[batch'[u][i]] = "lost"
  BY DEF SentIsCarried, Lost
<1> DEFINE m == batch[u][i]
           Carried == m \in ToSet(taken) \/ m \in ToSet(wire[chan[u]]) \/ Lost(m)
<1>1. TypeOK /\ FlushSteps /\ SentIsCarried
  BY DEF IInv
\* A sending flush keeps what it flushes.
<1>2. pc[u] = "sending" => chan[u] \in Channels
  BY <1>1 DEF FlushSteps
<1>3. ASSUME i \in 1..sent[u] PROVE i \in DOMAIN batch[u] /\ m \in Messages
  BY <1>1, <1>3 DEF TypeOK
<1>4. ASSUME pc[u] = "sending", i \in 1..sent[u], state[chan[u]] \in {"up", "reconnecting"}
      PROVE  Carried
  BY <1>1, <1>4 DEF SentIsCarried
<1>5. ASSUME i \in 1..sent[u], Lost(m) PROVE verdict'[m] = "lost"
  BY <1>3, <1>5, LostStays
<1>6. CASE /\ pc[u] = "sending" /\ UNCHANGED <<state, wire, taken>>
           /\ chan'[u] = chan[u] /\ sent'[u] = sent[u] /\ batch'[u] = batch[u]
  BY <1>4, <1>5, <1>6
<1>7. ASSUME NEW t \in Tasks, Buffering(t) PROVE u # t \/ UNCHANGED flushVars
  <2>1. CASE \E buffer \in Seq(Messages) : StartFlush(t, buffer)
    BY <1>1, <2>1 DEF StartFlush, TypeOK
  <2> QED
    BY <1>1, <1>7, <2>1, BufferingFlush
<1>8. CASE \E t \in Tasks : Buffering(t)
  <2>1. PICK t \in Tasks : Buffering(t)
    BY <1>8
  <2>2. UNCHANGED <<state, wire, taken>>
    BY <1>1, <2>1, BufferingFlush DEF serverVars
  <2>3. CASE UNCHANGED flushVars
    BY <1>6, <2>2, <2>3 DEF flushVars
  <2>4. CASE u # t /\ \E buffer \in Seq(Messages) : StartFlush(t, buffer)
    <3>1. pc'[u] = pc[u] /\ chan'[u] = chan[u] /\ sent'[u] = sent[u] /\ batch'[u] = batch[u]
      BY <1>1, <2>4 DEF StartFlush, TypeOK
    <3> QED
      BY <1>6, <2>2, <3>1
  <2> QED
    BY <1>1, <1>7, <2>1, <2>3, <2>4, BufferingFlush
<1>9. ASSUME NEW t \in Tasks, GetChannel(t)
      PROVE  \/ batch'[u][i] \in ToSet(taken') \/ batch'[u][i] \in ToSet(wire'[chan'[u]])
             \/ verdict'[batch'[u][i]] = "lost"
  <2>1. /\ UNCHANGED <<wire, taken, batch, sent>> /\ sent[t] = 0
        /\ \A w \in Tasks \ {t} : pc'[w] = pc[w] /\ chan'[w] = chan[w]
        /\ \A c \in Channels : state'[c] = state[c] \/ state[c] = "new"
    BY <1>1, <1>9 DEF GetChannel, End, FlushSteps, TypeOK
  <2>2. u # t
    BY <2>1
  <2>3. pc[u] = "sending" /\ chan'[u] = chan[u] /\ state[chan[u]] # "new"
    BY <1>1, <2>1, <2>2 DEF FlushSteps
  <2>4. Carried
    BY <1>2, <1>4, <2>1, <2>3
  <2> QED
    BY <1>5, <2>1, <2>3, <2>4
<1>10. ASSUME NEW t \in Tasks, Send(t)
       PROVE  \/ batch'[u][i] \in ToSet(taken') \/ batch'[u][i] \in ToSet(wire'[chan'[u]])
              \/ verdict'[batch'[u][i]] = "lost"
  <2>1. /\ UNCHANGED <<chan, state, batch, taken>> /\ pc[t] = "sending"
        /\ \A w \in Tasks \ {t} : pc'[w] = pc[w]
        /\ sent'[t] = sent[t] + 1 /\ \A w \in Tasks \ {t} : sent'[w] = sent[w]
        /\ \A c \in Channels : ToSet(wire[c]) \subseteq ToSet(wire'[c])
        /\ state[chan[t]] = "up" => batch[t][sent[t] + 1] \in ToSet(wire'[chan[t]])
        /\ batch[t][sent[t] + 1] \in Messages
    BY <1>1, <1>10, SendReaches, SendAppends DEF Send, TypeOK
  <2>2. pc[u] = "sending"
    BY <2>1
  <2>3. CASE i \in 1..sent[u]
    BY <1>2, <1>4, <1>5, <2>1, <2>2, <2>3
  <2>4. CASE i \notin 1..sent[u]
    <3>1. u = t /\ i = sent[t] + 1
      <4>1. sent[t] \in Nat
        BY <1>1 DEF TypeOK
      <4> QED
        BY <2>1, <2>4, <4>1
    <3>2. state[chan[t]] = "reconnecting" => verdict'[batch[t][sent[t] + 1]] = "lost"
      BY <1>1, <1>10, <2>1 DEF Send, Leaves, Lost, TypeOK
    <3> QED
      BY <2>1, <3>1, <3>2 DEF Lost
  <2> QED
    BY <2>3, <2>4
<1>11. ASSUME NEW t \in Tasks, SendRefused(t) \/ Confirm(t) \/ FlushReturns(t) \/ DropFuture(t)
       PROVE  \/ batch'[u][i] \in ToSet(taken') \/ batch'[u][i] \in ToSet(wire'[chan'[u]])
              \/ verdict'[batch'[u][i]] = "lost"
  <2>1. /\ UNCHANGED <<state, wire, taken, batch, sent>>
        /\ \A w \in Tasks \ {t} : pc'[w] = pc[w] /\ chan'[w] = chan[w]
        /\ pc'[t] # "sending"
    BY <1>1, <1>11 DEF SendRefused, Confirm, FlushReturns, DropFuture, End, serverVars, TypeOK
  <2> QED
    BY <1>6, <2>1
<1>12. ASSUME NEW c \in Channels, Serve(c)
       PROVE  \/ batch'[u][i] \in ToSet(taken') \/ batch'[u][i] \in ToSet(wire'[chan'[u]])
              \/ verdict'[batch'[u][i]] = "lost"
  <2>1. /\ UNCHANGED <<state, flushVars>>
        /\ ToSet(taken') = ToSet(taken) \cup {Head(wire[c])}
        /\ ToSet(wire[c]) = {Head(wire[c])} \cup ToSet(wire'[c])
        /\ \A d \in Channels \ {c} : wire'[d] = wire[d]
    BY <1>12, ServeTakes
  <2>2. \A d \in Channels : \A x :
          x \in ToSet(taken) \/ x \in ToSet(wire[d]) => x \in ToSet(taken') \/ x \in ToSet(wire'[d])
    BY <2>1
  <2>3. Carried
    BY <1>4, <2>1 DEF flushVars
  <2> QED
    BY <1>2, <1>5, <2>1, <2>2, <2>3 DEF flushVars
<1>13. ASSUME NEW c \in Channels, ServerCloses(c) \/ ClientLearns(c) \/ Restore(c)
       PROVE  \/ batch'[u][i] \in ToSet(taken') \/ batch'[u][i] \in ToSet(wire'[chan'[u]])
              \/ verdict'[batch'[u][i]] = "lost"
  <2>1. /\ UNCHANGED <<flushVars, taken>>
        /\ \A d \in Channels \ {c} : wire'[d] = wire[d] /\ state'[d] = state[d]
    BY <1>1, <1>13 DEF ServerCloses, ClientLearns, Restore, TypeOK
  <2>2. pc[u] = "sending" /\ i \in 1..sent[u] /\ chan'[u] = chan[u] /\ chan[u] \in Channels
        /\ batch'[u] = batch[u]
    BY <1>2, <2>1 DEF flushVars
  <2>3. CASE chan[u] # c
    BY <1>4, <1>5, <2>1, <2>2, <2>3
  <2>4. CASE chan[u] = c
    <3>1. CASE ServerCloses(c)
      BY <1>1, <2>2, <2>4, <3>1 DEF ServerCloses, TypeOK
    <3>2. CASE Restore(c)
      BY <1>4, <1>5, <2>1, <2>2, <2>4, <3>2 DEF Restore
    <3>3. CASE ClientLearns(c)
      <4>1. \A x \in Messages : x \in Published(c) /\ verdict[x] = "none" => verdict'[x] = "lost"
        BY <1>1, <2>2, <2>4, <3>3 DEF ClientLearns, Lost, TypeOK
      <4>2. m \in Published(c) /\ m \in Messages
        BY <1>3, <2>2, <2>4 DEF Published
      <4>3. verdict[m] = "none" \/ Lost(m) \/ m \in ToSet(taken)
        BY <1>1, <4>2 DEF IInv, AckedIsTaken, Lost, TypeOK
      <4> QED
        BY <1>5, <2>1, <2>2, <4>1, <4>2, <4>3
    <3> QED
      BY <1>13, <3>1, <3>2, <3>3
  <2> QED
    BY <2>3, <2>4
<1>14. CASE Shutdown \/ UNCHANGED vars
  BY <1>6, <1>14 DEF Shutdown, vars, serverVars, flushVars
<1> QED
  BY <1>8, <1>9, <1>10, <1>11, <1>12, <1>13, <1>14 DEF Next, Flushing

\* A step of the buffers leaves a flush as it was, or begins one of which nothing
\* left.
LEMMA NewFlushUnreached ==
  ASSUME IInv, NEW t \in Tasks, Buffering(t), NEW u \in Tasks, batch'[u] # batch[u]
  PROVE  \A i \in DOMAIN batch'[u] : batch'[u][i] \in Messages => ~Left(batch'[u][i])
<1> SUFFICES ASSUME NEW i \in DOMAIN batch'[u], NEW m \in Messages, batch'[u][i] = m, Left(m)
             PROVE  FALSE
  OBVIOUS
<1>1. u = t
  BY Moves
<1>2. InBatch(t, m)'
  BY <1>1 DEF InBatch, ToSet
<1>3. ~InTxn(m) /\ ~InOwned(t, m) /\ m <= used /\ used \in Nat /\ m \in Nat
  BY ConfirmsTxAssumption DEF IInv, LeftWasSent, TypeOK, Messages
<1>4. ~New(m)
  BY <1>3 DEF New
<1> QED
  BY <1>1, <1>2, <1>3, <1>4, Moves

\* What the server took, and what is on the wire, follows the buffer.
LEMMA KeepsBehind == IInv /\ [Next]_vars => Behind'
<1> SUFFICES ASSUME IInv, [Next]_vars, NEW u \in Tasks PROVE TakenBehind(u)' /\ WireBehind(u)'
  BY DEF Behind
<1>1. TypeOK /\ TakenBehind(u) /\ WireBehind(u)
  BY DEF IInv, Behind
\* What is lost of a buffer stays lost.
<1> DEFINE StillLost(i) == verdict'[batch[u][i]] = "lost"
<1>0. \A j \in DOMAIN batch[u] : \A i \in 1..(j - 1) : Lost(batch[u][i]) => StillLost(i)
  <2> SUFFICES ASSUME NEW j \in DOMAIN batch[u], NEW i \in 1..(j - 1), Lost(batch[u][i])
               PROVE  StillLost(i)
    OBVIOUS
  <2>1. batch[u][i] \in Messages
    BY <1>1 DEF TypeOK
  <2> QED
    BY <2>1, LostStays
<1>2. CASE UNCHANGED <<batch, wire, taken>>
  BY <1>0, <1>1, <1>2 DEF TakenBehind, WireBehind, Lost
<1>3. ASSUME NEW t \in Tasks, Buffering(t) PROVE TakenBehind(u)' /\ WireBehind(u)'
  <2>1. UNCHANGED <<wire, taken>>
    BY <1>3, Moves
  <2>2. CASE batch'[u] = batch[u]
    BY <1>0, <1>1, <2>1, <2>2 DEF TakenBehind, WireBehind, Lost
  <2>3. CASE batch'[u] # batch[u]
    <3>1. \A j \in DOMAIN batch'[u] :
            batch'[u][j] \in Messages => batch'[u][j] \notin ToSet(taken) /\ ~OnWire(batch'[u][j])
      BY <1>3, <2>3, NewFlushUnreached DEF Left, Reached
    <3>2. \A n \in DOMAIN taken : taken[n] \in Messages /\ taken[n] \in ToSet(taken)
      BY <1>1 DEF TypeOK, ToSet
    <3>3. \A c \in Channels : \A n \in DOMAIN wire[c] : wire[c][n] \in Messages /\ OnWire(wire[c][n])
      BY <1>1 DEF TypeOK, ToSet, OnWire
    <3> QED
      BY <2>1, <3>1, <3>2, <3>3 DEF TakenBehind, WireBehind
  <2> QED
    BY <2>2, <2>3
<1>4. ASSUME NEW t \in Tasks, Send(t) PROVE TakenBehind(u)' /\ WireBehind(u)'
  <2> DEFINE m == batch[t][sent[t] + 1]
             c == chan[t]
  <2>1. UNCHANGED <<batch, taken>> /\ pc[t] = "sending"
    BY <1>4, SendReaches DEF Send
  <2>2. m \in Messages /\ sent[t] + 1 \in DOMAIN batch[t] /\ c \in Channels /\ sent[t] \in Nat
    BY <1>1, <1>4, SendAppends DEF TypeOK
  <2>3. TakenBehind(u)'
    BY <1>0, <1>1, <2>1 DEF TakenBehind, Lost
  <2>4. CASE UNCHANGED wire
    BY <1>2, <2>1, <2>4
  <2>5. CASE state[c] = "up" /\ wire' = [wire EXCEPT ![c] = Append(@, m)]
    <3> SUFFICES ASSUME NEW d \in Channels, NEW j \in DOMAIN batch[u], NEW n \in DOMAIN wire'[d],
                        wire'[d][n] = batch[u][j], NEW i \in 1..(j - 1)
                 PROVE  \/ StillLost(i) \/ batch[u][i] \in ToSet(taken)
                        \/ \E k \in 1..(n - 1) : wire'[d][k] = batch[u][i]
      BY <2>1, <2>3 DEF WireBehind, Lost
    <3> HIDE DEF StillLost
    <3>1. wire[c] \in Seq(Messages) /\ wire'[c] = Append(wire[c], m)
          /\ \A e \in Channels \ {c} : wire'[e] = wire[e]
      BY <1>1, <2>2, <2>5 DEF TypeOK
    <3>2. CASE d # c
      BY <1>0, <1>1, <3>1, <3>2 DEF WireBehind
    <3>3. CASE d = c
      <4> HIDE DEF m, c
      <4>1. /\ DOMAIN wire'[c] = 1..(Len(wire[c]) + 1) /\ DOMAIN wire[c] = 1..Len(wire[c])
            /\ Len(wire[c]) \in Nat
            /\ \A k \in 1..Len(wire[c]) : wire'[c][k] = wire[c][k]
            /\ wire'[c][Len(wire[c]) + 1] = m
        BY <3>1, <2>2
      <4>2. CASE n \in 1..Len(wire[c])
        <5>1. \/ StillLost(i) \/ batch[u][i] \in ToSet(taken)
              \/ \E k \in 1..(n - 1) : wire[c][k] = batch[u][i]
          <6>1. n \in DOMAIN wire[c] /\ wire[c][n] = batch[u][j]
            BY <3>3, <4>1, <4>2
          <6> QED
            BY <1>0, <1>1, <2>2, <6>1 DEF WireBehind, c
        <5> QED
          BY <3>3, <4>1, <4>2, <5>1
      <4>3. CASE n = Len(wire[c]) + 1
        <5>1. m = batch[u][j]
          BY <3>3, <4>1, <4>3
        <5>2. u = t
          <6>1. InBatch(t, m) /\ InBatch(u, m)
            BY <2>2, <5>1 DEF InBatch, ToSet, m
          <6> QED
            BY <2>2, <6>1 DEF IInv, OnePlace, InOnePlace
        <5>3. j = sent[t] + 1
          BY <2>2, <5>1, <5>2, BatchOnce DEF m
        <5>4. StillLost(i) \/ batch[u][i] \in ToSet(taken) \/ batch[u][i] \in ToSet(wire[c])
          <6>1. Lost(batch[u][i]) \/ batch[u][i] \in ToSet(taken) \/ batch[u][i] \in ToSet(wire[c])
            BY <2>1, <2>2, <2>5, <5>2, <5>3 DEF IInv, SentIsCarried, c
          <6> QED
            BY <1>0, <6>1
        <5>5. batch[u][i] \in ToSet(wire[c]) => \E k \in 1..Len(wire[c]) : wire'[c][k] = batch[u][i]
          BY <4>1 DEF ToSet
        <5> QED
          BY <3>3, <4>1, <4>3, <5>4, <5>5
      <4> QED
        BY <3>3, <4>1, <4>2, <4>3
    <3> QED
      BY <3>2, <3>3
  <2> QED
    BY <1>4, <2>4, <2>5, SendAppends
<1>5. ASSUME NEW c \in Channels, Serve(c) PROVE TakenBehind(u)' /\ WireBehind(u)'
  <2>1. /\ UNCHANGED batch /\ wire[c] # <<>> /\ Head(wire[c]) \in Messages
        /\ taken' = Append(taken, Head(wire[c])) /\ wire'[c] = Tail(wire[c])
        /\ \A d \in Channels \ {c} : wire'[d] = wire[d]
        /\ ToSet(taken') = ToSet(taken) \cup {Head(wire[c])}
    BY <1>1, <1>5, ServeTakes DEF Serve, TypeOK, flushVars
  <2>2. wire[c] \in Seq(Messages) /\ taken \in Seq(Messages)
    BY <1>1 DEF TypeOK
  <2>3. /\ DOMAIN wire'[c] = 1..(Len(wire[c]) - 1) /\ DOMAIN wire[c] = 1..Len(wire[c])
        /\ Len(wire[c]) \in Nat \ {0} /\ Head(wire[c]) = wire[c][1]
        /\ \A k \in 1..(Len(wire[c]) - 1) : wire'[c][k] = wire[c][k + 1]
    BY <2>1, <2>2
  <2>4. /\ DOMAIN taken' = 1..(Len(taken) + 1) /\ DOMAIN taken = 1..Len(taken) /\ Len(taken) \in Nat
        /\ \A k \in 1..Len(taken) : taken'[k] = taken[k]
        /\ taken'[Len(taken) + 1] = Head(wire[c])
    BY <2>1, <2>2
  <2>5. TakenBehind(u)'
    <3> SUFFICES ASSUME NEW j \in DOMAIN batch[u], NEW n \in DOMAIN taken', taken'[n] = batch[u][j],
                        NEW i \in 1..(j - 1)
                 PROVE  StillLost(i) \/ \E k \in 1..(n - 1) : taken'[k] = batch[u][i]
      <4>1. UNCHANGED batch
        BY <2>1
      <4> QED
        BY <4>1 DEF TakenBehind, Lost
    <3> HIDE DEF StillLost
    <3>1. CASE n \in 1..Len(taken)
      <4>1. StillLost(i) \/ \E k \in 1..(n - 1) : taken[k] = batch[u][i]
        BY <1>0, <1>1, <2>4, <3>1 DEF TakenBehind
      <4> QED
        BY <2>4, <3>1, <4>1
    <3>2. CASE n = Len(taken) + 1
      <4>1. wire[c][1] = batch[u][j] /\ 1 \in DOMAIN wire[c]
        BY <2>3, <2>4, <3>2
      <4>2. \/ StillLost(i) \/ batch[u][i] \in ToSet(taken)
            \/ \E k \in 1..(1 - 1) : wire[c][k] = batch[u][i]
        BY <1>0, <1>1, <4>1 DEF WireBehind
      <4>3. StillLost(i) \/ batch[u][i] \in ToSet(taken)
        BY <4>2
      <4>4. StillLost(i) \/ \E k \in 1..Len(taken) : taken[k] = batch[u][i]
        BY <2>4, <4>3 DEF ToSet
      <4> QED
        BY <2>4, <3>2, <4>4
    <3> QED
      BY <2>4, <3>1, <3>2
  <2>6. WireBehind(u)'
    <3> SUFFICES ASSUME NEW d \in Channels, NEW j \in DOMAIN batch[u], NEW n \in DOMAIN wire'[d],
                        wire'[d][n] = batch[u][j], NEW i \in 1..(j - 1)
                 PROVE  \/ StillLost(i) \/ batch[u][i] \in ToSet(taken')
                        \/ \E k \in 1..(n - 1) : wire'[d][k] = batch[u][i]
      BY <2>1 DEF WireBehind, Lost
    <3> HIDE DEF StillLost
    <3>1. CASE d # c
      BY <1>0, <1>1, <2>1, <3>1 DEF WireBehind
    <3>2. CASE d = c
      <4>1. n \in 1..(Len(wire[c]) - 1) /\ n + 1 \in DOMAIN wire[c] /\ wire[c][n + 1] = batch[u][j]
        BY <2>3, <3>2
      <4>2. \/ StillLost(i) \/ batch[u][i] \in ToSet(taken)
            \/ \E k \in 1..((n + 1) - 1) : wire[c][k] = batch[u][i]
        BY <1>0, <1>1, <4>1 DEF WireBehind
      <4>3. CASE batch[u][i] \in ToSet(taken)
        BY <2>1, <4>3
      <4>4. ASSUME NEW k \in 1..((n + 1) - 1), wire[c][k] = batch[u][i]
            PROVE  batch[u][i] \in ToSet(taken') \/ \E l \in 1..(n - 1) : wire'[c][l] = batch[u][i]
        <5>1. CASE k = 1
          BY <2>1, <2>3, <4>4, <5>1
        <5>2. CASE k # 1
          <6>1. k - 1 \in 1..(n - 1) /\ k - 1 \in 1..(Len(wire[c]) - 1) /\ (k - 1) + 1 = k
            BY <2>3, <4>1, <5>2
          <6>2. wire'[c][k - 1] = batch[u][i]
            BY <2>3, <4>4, <6>1
          <6> QED
            BY <6>1, <6>2
        <5> QED
          BY <5>1, <5>2
      <4> QED
        BY <3>2, <4>2, <4>3, <4>4
    <3> QED
      BY <3>1, <3>2
  <2> QED
    BY <2>5, <2>6
<1>6. ASSUME NEW c \in Channels, ServerCloses(c) PROVE TakenBehind(u)' /\ WireBehind(u)'
  <2>1. /\ UNCHANGED <<batch, taken>> /\ wire'[c] = <<>>
        /\ \A d \in Channels \ {c} : wire'[d] = wire[d]
    BY <1>1, <1>6 DEF ServerCloses, TypeOK, flushVars
  <2> QED
    BY <1>0, <1>1, <2>1 DEF TakenBehind, WireBehind, Lost
<1> QED
  BY <1>2, <1>3, <1>4, <1>5, <1>6, QuietSteps

\* What was taken is answered, and what was awaited is an ack.
LEMMA KeepsAckedIsTaken == IInv /\ [Next]_vars => AckedIsTaken'
<1> SUFFICES ASSUME IInv, [Next]_vars PROVE AckedIsTaken'
  OBVIOUS
<1>1. TypeOK /\ AckedIsTaken
  BY DEF IInv
<1>2. ASSUME NEW t \in Tasks, Buffering(t) PROVE AckedIsTaken'
  <2>1. UNCHANGED <<verdict, taken, claimed>>
    BY <1>1, <1>2, BufferingFlush DEF serverVars
  <2>2. CASE UNCHANGED flushVars
    BY <1>1, <2>1, <2>2 DEF AckedIsTaken, flushVars
  <2>3. CASE \E buffer \in Seq(Messages) : StartFlush(t, buffer)
    <3>1. /\ confirmed'[t] = 0
          /\ \A u \in Tasks \ {t} : confirmed'[u] = confirmed[u] /\ batch'[u] = batch[u]
      BY <1>1, <2>3 DEF StartFlush, TypeOK
    <3> QED
      BY <1>1, <2>1, <3>1 DEF AckedIsTaken
  <2> QED
    BY <1>1, <1>2, <2>2, <2>3, BufferingFlush
<1>3. ASSUME NEW t \in Tasks, Confirm(t) PROVE AckedIsTaken'
  <2>1. /\ UNCHANGED <<verdict, taken, claimed, batch>>
        /\ confirmed[t] \in Nat
        /\ \A u \in Tasks \ {t} : confirmed'[u] = confirmed[u]
        /\ \/ confirmed'[t] = confirmed[t]
           \/ confirmed'[t] = confirmed[t] + 1 /\ verdict[batch[t][confirmed[t] + 1]] = "ack"
    BY <1>1, <1>3 DEF Confirm, serverVars, TypeOK
  <2>2. \A i \in 1..(confirmed[t] + 1) : i \in 1..confirmed[t] \/ i = confirmed[t] + 1
    BY <2>1
  <2> QED
    BY <1>1, <2>1, <2>2 DEF AckedIsTaken
<1>4. ASSUME NEW t \in Tasks, FlushReturns(t) PROVE AckedIsTaken'
  <2>1. /\ UNCHANGED <<verdict, taken, batch, confirmed>>
        /\ confirmed[t] = Len(batch[t]) /\ claimed' = claimed \cup ToSet(batch[t])
    BY <1>4 DEF FlushReturns, AllConfirmed, serverVars
  <2>2. \A m \in ToSet(batch[t]) : verdict[m] = "ack"
    <3>1. DOMAIN batch[t] = 1..confirmed[t]
      BY <1>1, <2>1 DEF TypeOK
    <3> QED
      BY <1>1, <3>1 DEF AckedIsTaken, ToSet
  <2> QED
    BY <1>1, <2>1, <2>2 DEF AckedIsTaken
<1>5. ASSUME NEW c \in Channels, Serve(c) PROVE AckedIsTaken'
  <2> DEFINE h == Head(wire[c])
  <2>1. /\ UNCHANGED <<batch, confirmed, claimed>> /\ h \in Messages
        /\ ToSet(taken') = ToSet(taken) \cup {h}
        /\ h \in ToSet(wire[c])
        /\ \A m \in Messages \ {h} : verdict'[m] = verdict[m]
    BY <1>1, <1>5, ServeTakes DEF Serve, TypeOK, flushVars
  <2>2. h \notin ToSet(taken)
    BY <2>1 DEF IInv, WireOnce, Apart
  <2>3. verdict[h] # "ack"
    BY <1>1, <2>1, <2>2 DEF AckedIsTaken
  <2>4. ASSUME NEW m \in Messages
        PROVE  verdict'[m] \in {"ack", "nack"} <=> m \in ToSet(taken')
    <3>1. verdict'[h] \in {"ack", "nack"}
      BY <1>1, <1>5, <2>1 DEF Serve, TypeOK
    <3> QED
      BY <1>1, <2>1, <3>1 DEF AckedIsTaken
  <2>5. ASSUME NEW m \in claimed PROVE verdict'[m] = "ack"
    BY <1>1, <2>1, <2>3 DEF AckedIsTaken, TypeOK
  <2>6. ASSUME NEW t \in Tasks, NEW i \in 1..confirmed[t] PROVE verdict'[batch[t][i]] = "ack"
    <3>1. batch[t] \in Seq(Messages) /\ confirmed[t] \in Nat /\ confirmed[t] <= sent[t]
          /\ sent[t] \in Nat /\ sent[t] <= Len(batch[t])
      BY <1>1 DEF TypeOK
    <3>2. batch[t][i] \in Messages
      BY <3>1
    <3>3. verdict[batch[t][i]] = "ack"
      BY <1>1 DEF AckedIsTaken
    <3> QED
      BY <2>1, <2>3, <3>2, <3>3
  <2> QED
    BY <2>1, <2>4, <2>5, <2>6 DEF AckedIsTaken
\* Steps that answer nothing and await nothing.
<1>6. ASSUME UNCHANGED <<taken, claimed, batch, confirmed>>,
             \A m \in Messages :
               \/ verdict'[m] = verdict[m]
               \/ verdict[m] \notin {"ack", "nack"} /\ verdict'[m] = "lost"
      PROVE  AckedIsTaken'
  <2>1. \A m \in Messages : verdict'[m] \in {"ack", "nack"} <=> m \in ToSet(taken)
    BY <1>1, <1>6 DEF AckedIsTaken
  <2>2. \A m \in claimed : m \in Messages /\ verdict[m] = "ack"
    BY <1>1 DEF AckedIsTaken, TypeOK
  <2>3. ASSUME NEW t \in Tasks, NEW i \in 1..confirmed[t]
        PROVE  batch[t][i] \in Messages /\ verdict[batch[t][i]] = "ack"
    <3>1. batch[t] \in Seq(Messages) /\ confirmed[t] \in Nat /\ confirmed[t] <= sent[t]
          /\ sent[t] \in Nat /\ sent[t] <= Len(batch[t])
      BY <1>1 DEF TypeOK
    <3>2. batch[t][i] \in Messages
      BY <3>1
    <3> QED
      BY <1>1, <3>2 DEF AckedIsTaken
  <2> QED
    BY <1>6, <2>1, <2>2, <2>3 DEF AckedIsTaken
<1>7. ASSUME NEW t \in Tasks, Send(t) PROVE AckedIsTaken'
  <2> DEFINE m == batch[t][sent[t] + 1]
  <2>1. m \in Messages /\ m \notin ToSet(taken)
    BY <1>7, SendAppends DEF Left, Reached
  <2>2. verdict[m] \notin {"ack", "nack"}
    BY <1>1, <2>1 DEF AckedIsTaken
  <2>3. UNCHANGED <<taken, claimed, batch, confirmed>>
    BY <1>7 DEF Send
  <2>4. verdict' = verdict \/ verdict' = [verdict EXCEPT ![m] = "lost"]
    BY <1>7 DEF Send, Leaves
  <2> HIDE DEF m
  <2> QED
    BY <1>1, <1>6, <2>1, <2>2, <2>3, <2>4 DEF TypeOK
<1>8. ASSUME NEW t \in Tasks, Flushing(t), ~Confirm(t), ~FlushReturns(t), ~Send(t)
      PROVE  AckedIsTaken'
  <2>1. UNCHANGED <<verdict, taken, claimed, batch, confirmed>>
    BY <1>8 DEF Flushing, GetChannel, SendRefused, DropFuture, serverVars
  <2> QED
    BY <1>6, <2>1
<1>9. ASSUME NEW c \in Channels, ServerCloses(c) \/ ClientLearns(c) \/ Restore(c)
      PROVE  AckedIsTaken'
  BY <1>1, <1>6, <1>9 DEF ServerCloses, ClientLearns, Restore, flushVars, TypeOK
<1>10. CASE Shutdown \/ UNCHANGED vars
  <2>1. UNCHANGED <<verdict, taken, claimed, batch, confirmed>>
    BY <1>10 DEF Shutdown, vars, serverVars, flushVars
  <2> QED
    BY <1>6, <2>1
<1> QED
  BY <1>2, <1>3, <1>4, <1>5, <1>7, <1>8, <1>9, <1>10 DEF Next

\* Each step keeps the invariant.
LEMMA NextIInv == IInv /\ [Next]_vars => IInv'
BY KeepsTypeOK, KeepsBuffersInOrder, KeepsOnePlace, KeepsLeftWasSent, KeepsWireOnce,
   KeepsFlushSteps, KeepsOnOwnChannel, KeepsSentIsCarried, KeepsBehind, KeepsLostForGood,
   KeepsAckedIsTaken DEF IInv
-----------------------------------------------------------------------------
\* The inductive invariant holds for any number of tasks, messages and channels.
THEOREM Invariant == Spec => []IInv
BY InitIInv, NextIInv, PTL DEF Spec

\* Every variable keeps its type.
THEOREM TypeCorrect == Spec => []TypeOK
<1>1. IInv => TypeOK
  BY DEF IInv
<1> QED
  BY <1>1, Invariant, PTL

\* Ok of a commit or a publish means that the server acknowledged each message.
THEOREM OkIsAcked == Spec => []ClaimedIsAcked
<1>1. IInv => ClaimedIsAcked
  BY DEF IInv, AckedIsTaken, ClaimedIsAcked
<1> QED
  BY <1>1, Invariant, PTL

\* Whatever channels die, the server has a prefix of a buffer, in its order; and if one is
\* restored with `auto_recover`, all of it but what was lost for good.
THEOREM PrefixOfBuffer == Spec => []TakesPrefix
<1>1. ASSUME IInv, NEW t \in Tasks, NEW j \in DOMAIN batch[t], NEW i \in 1..(j - 1),
             verdict[batch[t][i]] = "lost"
      PROVE  recovers /\ batch[t][i] \notin ToSet(taken)
  <2>1. batch[t][i] \in Messages
    BY <1>1 DEF IInv, TypeOK
  <2> QED
    BY <1>1, <2>1 DEF IInv, LostForGood, Lost, Reached
<1>2. IInv => TakesPrefix
  BY <1>1 DEF IInv, Behind, TakenBehind, WireOnce, Lost, TakesPrefix
<1> QED
  BY <1>2, Invariant, PTL

\* Nothing of an open or aborted transaction was sent.
THEOREM NothingBeforeCommit == Spec => []NothingEarly
<1>1. ASSUME IInv, NEW m \in Buffered \cup dropped
      PROVE  m \notin ToSet(taken) /\ \A c \in Channels : m \notin ToSet(wire[c])
  <2>1. m \in dropped \/ InTxn(m) \/ \E t \in Tasks : InOwned(t, m)
    BY DEF Buffered, InTxn, InOwned
  <2>2. /\ \A b \in Seq(Messages) : ToSet(b) \subseteq Messages
        /\ txn \subseteq Seq(Messages) /\ dropped \subseteq Messages
        /\ \A t \in Tasks : owned[t] \subseteq Seq(Messages)
    BY <1>1 DEF IInv, TypeOK, ToSet
  <2>3. m \in Messages
    BY <2>1, <2>2 DEF InTxn, InOwned
  <2>4. ~Left(m)
    BY <1>1, <2>1, <2>3 DEF IInv, LeftWasSent
  <2> QED
    BY <2>4 DEF Left, Reached, OnWire
<1>2. IInv => NothingEarly
  BY <1>1 DEF NothingEarly
<1> QED
  BY <1>2, Invariant, PTL

\* A message is taken from its transaction once, however tasks race for it.
THEOREM SettledOnce == Spec => []TakenOnce
<1>1. ASSUME IInv, NEW t \in Tasks, NEW m \in ToSet(batch[t])
      PROVE  m \notin Buffered \cup dropped /\ \A u \in Tasks \ {t} : m \notin ToSet(batch[u])
  <2>1. m \in Messages /\ InBatch(t, m)
    BY <1>1 DEF IInv, TypeOK, ToSet, InBatch
  <2>2. /\ ~InTxn(m) /\ m \notin dropped /\ \A u \in Tasks : ~InOwned(u, m)
        /\ \A u \in Tasks \ {t} : ~InBatch(u, m)
    BY <1>1, <2>1 DEF IInv, OnePlace, InOnePlace
  <2> QED
    BY <2>2 DEF Buffered, InTxn, InOwned, InBatch
<1>2. IInv => TakenOnce
  BY <1>1 DEF TakenOnce
<1> QED
  BY <1>2, Invariant, PTL
=============================================================================
