-------------------------- MODULE InProcessProofs ---------------------------
(***************************************************************************)
(* Proofs about the in-process transport, for any queues, messages, routes, *)
(* publishers and consumers; and, at the end, about request/reply on it,    *)
(* for any requests and replies.  Only those cite what RequestAssumption    *)
(* says: the bus is proved about on its own.                                *)
(***************************************************************************)
EXTENDS InProcessRequest, FiniteSetTheorems, FunctionTheorems, SequenceTheorems,
        WellFoundedInduction, TLAPS

\* The consumers: nothing is with one that was not opened, and what a closing one
\* took back is with it only while it is requeued.
Wired ==
  /\ phase = "closed" => registered = {}
  /\ \A c \in Consumers :
       /\ c <= opened => queueOf[c] \in Queues
       /\ c <= opened /\ queueOf[c] \notin AutoDelete => queueOf[c] \in existing
       /\ c > opened => /\ life[c] = "unopened" /\ unread[c] = <<>>
                        /\ unsettled[c] = {} /\ returning[c] = <<>>
       /\ life[c] # "returning" => returning[c] = <<>>

\* The settlements: one for each tag, and it holds what its consumer handed out.
HandlersFit ==
  /\ IsFiniteSet(handlers)
  /\ \A h, g \in handlers : h.c = g.c /\ h.tag = g.tag => h = g
  /\ \A h \in handlers :
       /\ h.c <= opened /\ h.tag < nextTag[h.c]
       /\ h.step = "deliver" => h.dest \in Queues
       /\ h.step \in {"held", "checked"} =>
            \A u \in unsettled[h.c] : u.tag = h.tag => u.d = h.d
       /\ h.verdict = "retry" => queueOf[h.c] \in Delaying
  /\ \A c \in Consumers : \A u, v \in unsettled[c] : u.tag = v.tag => u = v
  /\ \A c \in Consumers : \A u \in unsettled[c] : u.tag < nextTag[c]
  /\ \A e \in delayed :
       e.to \in Delaying /\ (e.to \notin AutoDelete => e.to \in existing)

\* A delivery queue q can hand out, and one it handed out.
Fits(q, d) ==
  q \in Counting =>
    d.tries <= d.returns /\ d.returns <= Limit(q) /\ (d.tries > 0 => d.redelivered)
Out(q, d) == q \in Counting => d.tries <= d.returns + 1 /\ d.returns <= Limit(q)

\* No delivery is past the limit of the queue that holds it.
WaitingFits == \A q \in Queues : \A i \in DOMAIN waiting[q] : Fits(q, waiting[q][i])
UnreadFits(u) == \A c \in Consumers : \A i \in DOMAIN u[c] : Fits(queueOf[c], u[c][i])
HandedOut ==
  \A c \in Consumers :
    /\ \A i \in DOMAIN returning[c] : Out(queueOf[c], returning[c][i])
    /\ \A u \in unsettled[c] : Out(queueOf[c], u.d)
Settling ==
  \A h \in handlers :
    /\ h.step \in {"held", "checked"} => Out(queueOf[h.c], h.d)
    /\ h.step = "deliver" => Fits(h.dest, h.d)
DelayedFit == \A e \in delayed : Fits(e.to, e.d)
WithinLimits == WaitingFits /\ UnreadFits(unread) /\ HandedOut /\ Settling /\ DelayedFit

CopiesOf(s) == {s[i].copy : i \in DOMAIN s}
EachOnce(s) == \A i, j \in DOMAIN s : s[i].copy = s[j].copy => i = j

\* Where a copy can be, and whether it is there.
Places ==
  ({"publisher"} \X Publishers) \cup ({"waiting"} \X Queues)
  \cup ({"unread", "unsettled", "returning"} \X Consumers)
  \cup {<<"settling", 0>>, <<"delayed", 0>>, <<"gone", 0>>}
At(k, a) ==
  CASE a[1] = "publisher" -> k \in ToSet(pub[a[2]])
    [] a[1] = "waiting"   -> k \in CopiesOf(waiting[a[2]])
    [] a[1] = "unread"    -> k \in CopiesOf(unread[a[2]])
    [] a[1] = "unsettled" -> \E u \in unsettled[a[2]] : u.d.copy = k
    [] a[1] = "returning" -> k \in CopiesOf(returning[a[2]])
    [] a[1] = "settling"  -> \E h \in handlers : h.step = "deliver" /\ h.d.copy = k
    [] a[1] = "delayed"   -> \E e \in delayed : e.d.copy = k
    [] OTHER              -> fate[k] \in {"acked", "rejected", "lost"}

\* A published copy is in one place, and there once.
OnePlace ==
  /\ IsFiniteSet({k \in Copies : fate[k] # "unsent"})
  /\ \A k \in Copies : fate[k] # "unsent" <=> \E a \in Places : At(k, a)
  /\ \A k \in Copies : \A a, b \in Places : At(k, a) /\ At(k, b) => a = b
OncePublished == \A p \in Publishers : IsInjective(pub[p])
OnceWaiting == \A q \in Queues : EachOnce(waiting[q])
OnceUnread == \A c \in Consumers : EachOnce(unread[c])
OnceReturning == \A c \in Consumers : EachOnce(returning[c])
OnceInHand == \A c \in Consumers : \A u, v \in unsettled[c] : u.d.copy = v.d.copy => u = v
OnceSettling ==
  \A h, g \in handlers :
    h.step = "deliver" /\ g.step = "deliver" /\ h.d.copy = g.d.copy => h = g
OnceDelayed == \A d, e \in delayed : d.d.copy = e.d.copy => d = e
OnceThere ==
  /\ OncePublished /\ OnceWaiting /\ OnceUnread /\ OnceReturning
  /\ OnceInHand /\ OnceSettling /\ OnceDelayed

\* One task does all the publishing.
OnePublisher == \A p, r \in Publishers : p = r

\* A queue that nothing comes to but what is published to it, and what it gets back.
Plain(q) == q \in Queues \ (Delaying \cup {DeadLetterTo[p] : p \in Queues})

\* The messages published before all that is still to come to q.
Before(q) ==
  {m \in Messages :
     /\ ~Unpublished(m)
     /\ \A p \in Publishers : \A k \in ToSet(pub[p]) : k[2] = q => m < k[1]}

\* The deliveries never handed out before are of messages in B, in their order.
Line(s, B) ==
  /\ \A i, j \in DOMAIN s :
       i < j /\ ~s[i].redelivered /\ ~s[j].redelivered => s[i].copy[1] < s[j].copy[1]
  /\ \A i \in DOMAIN s : ~s[i].redelivered => s[i].copy[1] \in B

\* The messages keep their order in the queues that are plain.
Lined(q, u) ==
  /\ Line(waiting[q], Before(q))
  /\ \A c \in Consumers : queueOf[c] = q => Line(u[c], Before(q))
PublishedInOrder ==
  /\ \A m, n \in Messages : ~Unpublished(m) /\ Unpublished(n) => m < n
  /\ \A p \in Publishers : \A k, l \in ToSet(pub[p]) : k[1] = l[1] /\ ~Unpublished(k[1])
  /\ \A q \in Queues : Plain(q) => Lined(q, unread)
  /\ \A h \in handlers : h.step = "deliver" /\ Plain(h.dest) => h.d.redelivered

\* The inductive invariant.
IInv ==
  /\ TypeOK
  /\ Wired
  /\ KeptOnlyWithoutConsumer
  /\ HandlersFit
  /\ InFlightExact
  /\ WithinLimits
  /\ OnePlace
  /\ OnceThere
  /\ OnePublisher => PublishedInOrder
-----------------------------------------------------------------------------
(* Sets of numbers from the least to the greatest. *)

\* A set of naturals that is not empty has a least element.
LEMMA Least ==
  ASSUME NEW T \in SUBSET Nat, T # {}
  PROVE  \E x \in T : \A y \in T : x <= y
<1>1. PICK x \in T : \A y \in T : ~ (<<y, x>> \in OpToRel(<, Nat))
  BY NatLessThanWellFounded, WFMin
<1>2. \A y \in T : ~(y < x)
  BY <1>1 DEF OpToRel
<1> QED BY <1>2

\* A set of naturals with a bound that is not empty has a greatest element.
LEMMA Greatest ==
  ASSUME NEW N \in Nat, NEW T \in SUBSET (1..N), T # {}
  PROVE  \E x \in T : \A y \in T : y <= x
<1> DEFINE B == {b \in Nat : \A y \in T : y <= b}
<1>1. N \in B
  OBVIOUS
<1>2. PICK b \in B : \A a \in B : b <= a
  BY <1>1, Least
<1>3. PICK t \in T : TRUE
  OBVIOUS
<1>4. b \in Nat /\ t \in Nat /\ 1 <= t /\ t <= b
  BY <1>2, <1>3
<1>5. b - 1 \in Nat /\ b - 1 < b
  BY <1>4
<1>6. b - 1 \notin B
  BY <1>2, <1>5
<1>7. PICK y \in T : ~(y <= b - 1)
  BY <1>5, <1>6
<1>8. y = b
  BY <1>2, <1>4, <1>7
<1> QED BY <1>2, <1>7, <1>8

\* A bounded set of naturals is finite.
LEMMA BoundedIsFinite ==
  ASSUME NEW N \in Nat, NEW T \in SUBSET (1..N)
  PROVE  IsFiniteSet(T) /\ Cardinality(T) \in Nat
<1>1. IsFiniteSet(1..N)
  BY FS_Interval
<1>2. IsFiniteSet(T)
  BY <1>1, FS_Subset
<1> QED BY <1>2, FS_CardinalityType

\* The enumerations of ids that grow.
Enumerations(ids) ==
  {s \in [1..Cardinality(ids) -> ids] : \A i, j \in DOMAIN s : i < j => s[i] < s[j]}

\* A bounded set of naturals has one.
LEMMA EnumerationExists ==
  ASSUME NEW N \in Nat, NEW ids \in SUBSET (1..N)
  PROVE  Enumerations(ids) # {}
<1> DEFINE Bad == {n \in Nat : \E T \in SUBSET (1..N) : Cardinality(T) = n /\ Enumerations(T) = {}}
<1> SUFFICES ASSUME Enumerations(ids) = {} PROVE FALSE
  OBVIOUS
<1>1. \A T \in SUBSET (1..N) : IsFiniteSet(T) /\ Cardinality(T) \in Nat
  BY BoundedIsFinite
<1>2. Cardinality(ids) \in Bad
  BY <1>1
<1>3. PICK n \in Bad : \A k \in Bad : n <= k
  BY <1>2, Least
<1>4. PICK T \in SUBSET (1..N) : Cardinality(T) = n /\ Enumerations(T) = {}
  BY <1>3
<1>5. T # {}
  <2> SUFFICES ASSUME T = {} PROVE FALSE
    OBVIOUS
  <2>1. Cardinality(T) = 0
    BY FS_EmptySet
  <2>2. <<>> \in [1..0 -> T] /\ DOMAIN <<>> = {}
    BY DOMAIN <<>> = 1..0
  <2> QED BY <1>4, <2>1, <2>2 DEF Enumerations
<1>6. PICK x \in T : \A y \in T : y <= x
  BY <1>5, Greatest
<1>7. n \in Nat /\ Cardinality(T \ {x}) = n - 1 /\ n - 1 \in Nat /\ n - 1 < n
  <2>1. T \ {x} \in SUBSET (1..N)
    OBVIOUS
  <2>2. IsFiniteSet(T) /\ n \in Nat
    BY <1>1, <1>4
  <2>3. Cardinality(T \ {x}) = n - 1
    BY <1>4, <1>6, <2>2, FS_RemoveElement
  <2>4. Cardinality(T \ {x}) \in Nat
    BY <1>1, <2>1
  <2> QED BY <2>2, <2>3, <2>4
<1>8. PICK s : s \in Enumerations(T \ {x})
  BY <1>3, <1>7, T \ {x} \in SUBSET (1..N)
<1>9. s \in [1..(n - 1) -> T \ {x}] /\ \A i, j \in 1..(n - 1) : i < j => s[i] < s[j]
  BY <1>7, <1>8 DEF Enumerations
<1> DEFINE longer == [i \in 1..n |-> IF i = n THEN x ELSE s[i]]
<1>10. \A i \in 1..n : i # n => i \in 1..(n - 1)
  BY <1>7
<1>11. longer \in [1..n -> T]
  BY <1>6, <1>9, <1>10
<1>12. \A y \in T \ {x} : y < x
  BY <1>6
<1>13. \A i, j \in 1..n : i < j => longer[i] < longer[j]
  <2> SUFFICES ASSUME NEW i \in 1..n, NEW j \in 1..n, i < j
               PROVE  longer[i] < longer[j]
    OBVIOUS
  <2>1. i # n /\ i \in 1..(n - 1) /\ longer[i] = s[i] /\ s[i] \in T \ {x}
    BY <1>7, <1>9, <1>10
  <2>2. CASE j = n
    BY <1>12, <2>1, <2>2
  <2>3. CASE j # n
    BY <1>9, <1>10, <2>1, <2>3
  <2> QED BY <2>2, <2>3
<1> QED BY <1>4, <1>11, <1>13 DEF Enumerations

\* InOrder lists each member of ids once, the smaller before the greater.
LEMMA InOrderLists ==
  ASSUME NEW N \in Nat, NEW ids \in SUBSET (1..N)
  PROVE  /\ IsFiniteSet(ids) /\ Cardinality(ids) \in Nat
         /\ InOrder(ids) \in [1..Cardinality(ids) -> ids]
         /\ \A i, j \in 1..Cardinality(ids) : i < j => InOrder(ids)[i] < InOrder(ids)[j]
         /\ \A x \in ids : \E i \in 1..Cardinality(ids) : InOrder(ids)[i] = x
<1> DEFINE n == Cardinality(ids)
           s == InOrder(ids)
<1>1. IsFiniteSet(ids) /\ n \in Nat
  BY BoundedIsFinite
<1>2. PICK e : e \in Enumerations(ids)
  BY EnumerationExists
<1>3. s \in Enumerations(ids)
  BY <1>2 DEF InOrder, Enumerations
<1>4. s \in [1..n -> ids] /\ \A i, j \in 1..n : i < j => s[i] < s[j]
  BY <1>3 DEF Enumerations
<1>5. s \in Injection(1..n, ids)
  <2>1. \A i, j \in 1..n : s[i] = s[j] => i = j
    <3> SUFFICES ASSUME NEW i \in 1..n, NEW j \in 1..n, s[i] = s[j], i < j
                 PROVE  FALSE
      BY <1>1
    <3>1. s[i] < s[j] /\ s[i] \in 1..N
      BY <1>4
    <3> QED BY <3>1
  <2> QED BY <1>4, <2>1 DEF Injection, IsInjective
<1>6. IsFiniteSet(1..n) /\ Cardinality(1..n) = n
  BY <1>1, FS_Interval
<1>7. s \in Surjection(1..n, ids)
  BY <1>1, <1>5, <1>6, FS_Injection
<1> QED BY <1>1, <1>4, <1>7 DEF Surjection

\* The numbers from 1 to n, in order, are themselves.
LEMMA InOrderOfAll ==
  ASSUME NEW n \in Nat
  PROVE  Cardinality(1..n) = n /\ \A i \in 1..n : InOrder(1..n)[i] = i
<1> DEFINE s == InOrder(1..n)
           Bad == {i \in Nat : i \in 1..n /\ s[i] # i}
<1>1. Cardinality(1..n) = n
  BY FS_Interval
<1>2. /\ s \in [1..n -> 1..n]
      /\ \A i, j \in 1..n : i < j => s[i] < s[j]
      /\ \A x \in 1..n : \E i \in 1..n : s[i] = x
  BY <1>1, InOrderLists
<1>3. Bad = {}
  <2> SUFFICES ASSUME Bad # {} PROVE FALSE
    OBVIOUS
  <2>1. PICK i \in Bad : \A j \in Bad : i <= j
    BY Least
  <2> HIDE DEF s
  <2>2. i \in 1..n /\ s[i] # i /\ s[i] \in 1..n
    BY <1>2, <2>1
  <2>3. \A j \in 1..n : j < i => s[j] = j
    BY <2>1
  <2>4. s[i] > i
    <3>1. CASE i = 1
      BY <2>2, <3>1
    <3>2. CASE i # 1
      <4>1. i - 1 \in 1..n /\ i - 1 < i
        BY <2>2, <3>2
      <4>2. s[i - 1] = i - 1 /\ s[i - 1] < s[i]
        BY <1>2, <2>2, <2>3, <4>1
      <4> QED BY <2>2, <4>2
    <3> QED BY <3>1, <3>2
  <2>5. PICK j \in 1..n : s[j] = i
    BY <1>2, <2>2
  <2>6. CASE j < i
    BY <2>2, <2>3, <2>5, <2>6
  <2>7. CASE i < j
    BY <1>2, <2>2, <2>4, <2>5, <2>7
  <2> QED BY <2>2, <2>5, <2>6, <2>7
<1> QED BY <1>1, <1>3
-----------------------------------------------------------------------------
(* What the steps of the routes come to, whichever consumer the rotation picks. *)

\* A function on 1..n is a sequence of length n.
LEMMA FunctionIsSeq ==
  ASSUME NEW S, NEW n \in Nat, NEW s \in [1..n -> S]
  PROVE  s \in Seq(S) /\ Len(s) = n
<1>1. s \in Seq(S)
  BY SeqDef
<1>2. Len(s) \in Nat /\ 1..Len(s) = 1..n
  BY <1>1, LenProperties
<1> QED BY <1>1, <1>2

LEMMA ListedAreConsumers ==
  ASSUME TypeOK
  PROVE  registered \subseteq Consumers
<1>1. opened \in Nat /\ opened <= MaxConsumers /\ MaxConsumers \in Nat
  BY BusAssumption DEF TypeOK
<1>2. 1..opened \subseteq 1..MaxConsumers
  BY <1>1
<1> QED BY <1>2 DEF TypeOK, Consumers

\* The rotation picks one of the consumers.
LEMMA ServedIsOne ==
  ASSUME TypeOK, NEW q \in Queues, NEW i \in Nat \ {0},
         NEW ids \in SUBSET Consumers, ids # {}
  PROVE  Served(ids, q, i) \in ids
<1>1. /\ IsFiniteSet(ids) /\ Cardinality(ids) \in Nat
      /\ InOrder(ids) \in [1..Cardinality(ids) -> ids]
  BY InOrderLists, BusAssumption DEF Consumers
<1>2. Cardinality(ids) # 0
  BY <1>1, FS_EmptySet
<1>3. turn[q] \in Nat /\ turn[q] + i - 1 \in Nat
  BY DEF TypeOK
<1>4. (turn[q] + i - 1) % Cardinality(ids) \in 0..(Cardinality(ids) - 1)
  BY <1>1, <1>2, <1>3
<1>5. ((turn[q] + i - 1) % Cardinality(ids)) + 1 \in 1..Cardinality(ids)
  BY <1>1, <1>2, <1>4
<1> QED BY <1>1, <1>5 DEF Served

\* The rotation counter stays a number.
LEMMA Turning ==
  ASSUME TypeOK, NEW q \in Queues, NEW n \in Nat, Advance(q, n)
  PROVE  turn' \in [Queues -> Nat]
<1>1. turn[q] + n \in Nat /\ Period \in Nat \ {0}
  BY BusAssumption DEF TypeOK
<1>2. (turn[q] + n) % Period \in Nat
  BY <1>1
<1> QED BY <1>2 DEF Advance, TypeOK

\* Deliver, whichever consumer is next.
Lands(u, q, d) ==
  \/ \E c \in ConsumersOf(q) :
       /\ unread' = [u EXCEPT ![c] = Append(@, d)]
       /\ inflight' = inflight + 1
       /\ UNCHANGED <<waiting, fate>>
  \/ /\ ConsumersOf(q) = {} /\ q \in existing
     /\ waiting' = [waiting EXCEPT ![q] = Append(@, d)]
     /\ unread' = u
     /\ UNCHANGED <<inflight, fate>>
  \/ /\ ConsumersOf(q) = {} /\ q \notin existing
     /\ fate' = [fate EXCEPT ![d.copy] = "lost"]
     /\ unread' = u
     /\ UNCHANGED <<inflight, waiting>>

LEMMA DeliverLands ==
  ASSUME TypeOK, NEW u, NEW q \in Queues, NEW d, Deliver(u, q, d)
  PROVE  Lands(u, q, d) /\ turn' \in [Queues -> Nat]
<1>1. CASE ConsumersOf(q) # {}
  <2>1. ConsumersOf(q) \in SUBSET Consumers
    BY ListedAreConsumers DEF ConsumersOf
  <2>2. Served(ConsumersOf(q), q, 1) \in ConsumersOf(q)
    BY <1>1, <2>1, ServedIsOne
  <2>3. Advance(q, 1)
    BY <1>1 DEF Deliver
  <2>4. turn' \in [Queues -> Nat]
    BY <2>3, Turning
  <2> QED BY <1>1, <2>2, <2>4 DEF Deliver, Lands
<1>2. CASE ConsumersOf(q) = {}
  BY <1>2 DEF Deliver, Lands, TypeOK
<1> QED BY <1>1, <1>2

\* A new consumer is sent all its queue kept.
LEMMA SubscribeSends ==
  ASSUME TypeOK, Wired, KeptOnlyWithoutConsumer, NEW q \in Queues, Subscribe(q)
  PROVE  /\ opened + 1 \in Consumers /\ opened + 1 \notin registered
         /\ unread' = [unread EXCEPT ![opened + 1] = waiting[q]]
         /\ turn' \in [Queues -> Nat]
<1> DEFINE c == opened + 1
           ids == ConsumersOf(q) \cup {c}
           lot(x) == {i \in DOMAIN waiting[q] : Served(ids, q, i) = x}
           mine(x) == [j \in DOMAIN InOrder(lot(x)) |-> waiting[q][InOrder(lot(x))[j]]]
<1>1. c \in Consumers /\ c \notin registered /\ c > opened /\ opened \in Nat
  BY BusAssumption DEF Subscribe, Consumers, TypeOK
<1>2. ConsumersOf(q) \in SUBSET Consumers
  BY ListedAreConsumers DEF ConsumersOf
<1>3. waiting[q] \in Seq(Delivery) /\ Len(waiting[q]) \in Nat
      /\ DOMAIN waiting[q] = 1..Len(waiting[q])
  BY DEF TypeOK
<1>4. turn' \in [Queues -> Nat]
  <2>1. Advance(q, Len(waiting[q]))
    BY DEF Subscribe
  <2> QED BY <1>3, <2>1, Turning
<1>5. unread' = [x \in Consumers |-> IF x \in ids THEN unread[x] \o mine(x) ELSE unread[x]]
  BY DEF Subscribe
<1>6. unread[c] = <<>> /\ unread \in [Consumers -> Seq(Delivery)]
  BY <1>1 DEF Wired, TypeOK
<1> HIDE DEF c, ids
<1>7. CASE waiting[q] = <<>>
  <2>1. \A x : mine(x) = <<>>
    <3> SUFFICES ASSUME NEW x PROVE mine(x) = <<>>
      OBVIOUS
    <3>1. lot(x) = 1..0
      BY <1>3, <1>7
    <3>2. DOMAIN InOrder(lot(x)) = 1..0
      <4>1. DOMAIN InOrder(1..0) = 1..0
        BY InOrderLists, InOrderOfAll
      <4> QED BY <3>1, <4>1
    <3>3. mine(x) \in [1..0 -> Delivery] /\ DOMAIN mine(x) = 1..0
      <4> HIDE DEF lot
      <4> QED BY <3>2
    <3> HIDE DEF mine
    <3>4. mine(x) \in Seq(Delivery) /\ Len(mine(x)) = 0
      BY <3>3, FunctionIsSeq
    <3> QED BY <3>4, EmptySeq
  <2> HIDE DEF mine
  <2>2. \A x \in Consumers : unread[x] \o mine(x) = unread[x]
    BY <1>6, <2>1
  <2>3. unread' = [x \in Consumers |-> unread[x]]
    BY <1>5, <2>2
  <2>4. unread' = unread
    BY <1>6, <2>3
  <2>5. [unread EXCEPT ![c] = waiting[q]] = unread
    BY <1>1, <1>6, <1>7
  <2> QED BY <1>1, <1>4, <2>4, <2>5 DEF c
<1>8. CASE waiting[q] # <<>>
  <2> DEFINE n == Len(waiting[q])
  <2>1. ids = {c}
    BY <1>8 DEF ids, KeptOnlyWithoutConsumer
  <2>2. \A i \in 1..n : Served(ids, q, i) = c
    <3>1. \A i \in 1..n : i \in Nat \ {0}
      BY <1>3
    <3>2. {c} \in SUBSET Consumers /\ {c} # {}
      BY <1>1
    <3>3. \A i \in 1..n : Served({c}, q, i) \in {c}
      BY <3>1, <3>2, ServedIsOne
    <3> QED BY <2>1, <3>3
  <2>3. lot(c) = 1..n
    BY <1>3, <2>2
  <2>4. /\ InOrder(1..n) \in [1..n -> 1..n]
        /\ \A i \in 1..n : InOrder(1..n)[i] = i
    BY <1>3, InOrderLists, InOrderOfAll
  <2>5. mine(c) = waiting[q]
    <3>1. mine(c) = [j \in 1..n |-> waiting[q][InOrder(1..n)[j]]]
      BY <2>3, <2>4
    <3>2. mine(c) = [j \in 1..n |-> waiting[q][j]]
      BY <2>4, <3>1
    <3>3. waiting[q] \in [1..n -> Delivery]
      BY <1>3, ElementOfSeq, LenProperties
    <3> QED BY <3>2, <3>3
  <2> HIDE DEF mine
  <2>6. unread[c] \o mine(c) = waiting[q]
    BY <1>3, <1>6, <2>5
  <2>7. unread' = [unread EXCEPT ![c] = waiting[q]]
    BY <1>5, <1>6, <2>1, <2>6
  <2> QED BY <1>1, <1>4, <2>7 DEF c
<1> QED BY <1>7, <1>8

\* What a closing consumer takes back is what it handed out, each once.
LEMMA TakenBack ==
  ASSUME TypeOK, HandlersFit, NEW c \in Consumers, TakeUnsettled(c)
  PROVE  \E n \in Nat : \E g \in Bijection(1..n, unsettled[c]) :
           returning' = [returning EXCEPT ![c] = [i \in 1..n |-> g[i].d]]
<1> DEFINE T == {u.tag : u \in unsettled[c]}
           n == Cardinality(T)
           tags == InOrder(T)
           held(tag) == CHOOSE u \in unsettled[c] : u.tag = tag
           g == [i \in 1..n |-> held(tags[i])]
<1>1. T \in SUBSET (1..MaxTag) /\ MaxTag \in Nat
  BY BusAssumption DEF TypeOK, Unsettled
<1>2. /\ n \in Nat /\ tags \in [1..n -> T]
      /\ \A i, j \in 1..n : i < j => tags[i] < tags[j]
      /\ \A x \in T : \E i \in 1..n : tags[i] = x
  BY <1>1, InOrderLists
<1>3. \A t \in T : held(t) \in unsettled[c] /\ held(t).tag = t
  OBVIOUS
<1>4. \A u \in unsettled[c] : u.tag \in T /\ held(u.tag) = u
  BY <1>3 DEF HandlersFit
<1> HIDE DEF T, n, tags, held
<1>5. returning' = [returning EXCEPT ![c] = [i \in 1..n |-> g[i].d]]
  <2>1. returning' = [returning EXCEPT ![c] = [i \in DOMAIN tags |-> held(tags[i]).d]]
    BY DEF TakeUnsettled, T, n, tags, held
  <2>2. DOMAIN tags = 1..n /\ \A i \in 1..n : g[i] = held(tags[i])
    BY <1>2
  <2> QED BY <2>1, <2>2
<1>6. g \in [1..n -> unsettled[c]]
  BY <1>2, <1>3
<1>7. \A i, j \in 1..n : g[i] = g[j] => i = j
  <2> SUFFICES ASSUME NEW i \in 1..n, NEW j \in 1..n, g[i] = g[j], i < j PROVE FALSE
    BY <1>2
  <2>1. tags[i] = tags[j]
    BY <1>2, <1>3
  <2>2. tags[i] < tags[j] /\ tags[i] \in 1..MaxTag
    BY <1>1, <1>2
  <2> QED BY <2>1, <2>2
<1>8. \A u \in unsettled[c] : \E i \in 1..n : g[i] = u
  BY <1>2, <1>4
<1>9. g \in Bijection(1..n, unsettled[c])
  BY <1>6, <1>7, <1>8 DEF Bijection, Injection, IsInjective, Surjection
<1> QED BY <1>2, <1>5, <1>9

\* Requeue, whichever consumer is next.
LEMMA RequeueLands ==
  ASSUME TypeOK, NEW u, NEW q \in Queues, NEW d, Requeue(u, q, d)
  PROVE  /\ turn' \in [Queues -> Nat]
         /\ \/ ~Spent(q, d) /\ Lands(u, q, Returned(q, d))
            \/ /\ Spent(q, d) /\ DeadLetterTo[q] \in Queues
               /\ Lands(u, DeadLetterTo[q], Afresh(d))
            \/ /\ Spent(q, d) /\ DeadLetterTo[q] = NoQueue
               /\ fate' = [fate EXCEPT ![d.copy] = "rejected"]
               /\ unread' = u
               /\ UNCHANGED <<inflight, waiting>>
<1>1. CASE ~Spent(q, d) /\ Deliver(u, q, Returned(q, d))
  BY <1>1, DeliverLands
<1>2. CASE Spent(q, d) /\ DeadLetterTo[q] # NoQueue /\ Deliver(u, DeadLetterTo[q], Afresh(d))
  <2>1. DeadLetterTo[q] \in Queues
    BY <1>2, BusAssumption
  <2> QED BY <1>2, <2>1, DeliverLands
<1>3. CASE /\ Spent(q, d) /\ DeadLetterTo[q] = NoQueue
           /\ fate' = [fate EXCEPT ![d.copy] = "rejected"]
           /\ unread' = u
           /\ UNCHANGED <<turn, inflight, waiting>>
  BY <1>3 DEF TypeOK
<1> QED BY <1>1, <1>2, <1>3 DEF Requeue

\* What comes back, or leaves for a dead-letter queue, is within the limit there.
LEMMA Onward ==
  ASSUME NEW q \in Queues, NEW d \in Delivery
  PROVE  /\ Returned(q, d) \in Delivery /\ Returned(q, d).copy = d.copy
         /\ Returned(q, d).redelivered
         /\ Afresh(d) \in Delivery /\ Afresh(d).copy = d.copy
         /\ ~Spent(q, d) /\ Out(q, d) => Fits(q, Returned(q, d))
         /\ \A b \in Queues : Fits(b, Afresh(d))
<1>1. \A b \in Queues : Limit(b) \in Nat
  BY BusAssumption DEF Limit
<1>2. /\ Returned(q, d) \in Delivery /\ Returned(q, d).copy = d.copy
      /\ Returned(q, d).redelivered
      /\ Returned(q, d).tries = d.tries
      /\ q \in Counting => Returned(q, d).returns = d.returns + 1
  <2>1. d.returns \in Nat /\ d.returns + 1 \in Nat
    BY DEF Delivery
  <2>2. CASE q \in Counting
    <3>1. Returned(q, d) = [d EXCEPT !.returns = d.returns + 1, !.redelivered = TRUE]
      BY <2>2 DEF Returned
    <3> QED BY <2>1, <3>1 DEF Delivery
  <2>3. CASE q \notin Counting
    <3>1. Returned(q, d) = [d EXCEPT !.returns = d.returns, !.redelivered = TRUE]
      BY <2>3 DEF Returned
    <3> QED BY <2>1, <2>3, <3>1 DEF Delivery
  <2> QED BY <2>2, <2>3
<1>3. /\ Afresh(d) \in Delivery /\ Afresh(d).copy = d.copy
      /\ Afresh(d).returns = 0 /\ Afresh(d).tries = 0
  BY DEF Afresh, Delivery
<1>4. ASSUME ~Spent(q, d), Out(q, d) PROVE Fits(q, Returned(q, d))
  <2>1. d.returns \in Nat /\ d.tries \in Nat
    BY DEF Delivery
  <2> QED BY <1>1, <1>2, <1>4, <2>1 DEF Spent, Out, Fits
<1>5. \A b \in Queues : Fits(b, Afresh(d))
  BY <1>1, <1>3 DEF Fits
<1> QED BY <1>2, <1>3, <1>4, <1>5

\* What lands is a delivery of its queue or of one of its consumers.
LEMMA LandsTyped ==
  ASSUME TypeOK, NEW u \in [Consumers -> Seq(Delivery)], NEW q \in Queues,
         NEW d \in Delivery, Lands(u, q, d)
  PROVE  /\ unread' \in [Consumers -> Seq(Delivery)]
         /\ waiting' \in [Queues -> Seq(Delivery)]
         /\ fate' \in [Copies -> {"unsent", "held", "acked", "rejected", "lost"}]
         /\ inflight' \in Nat
<1>1. CASE \E c \in ConsumersOf(q) :
             /\ unread' = [u EXCEPT ![c] = Append(@, d)]
             /\ inflight' = inflight + 1
             /\ UNCHANGED <<waiting, fate>>
  <2>1. PICK c \in ConsumersOf(q) :
             /\ unread' = [u EXCEPT ![c] = Append(@, d)]
             /\ inflight' = inflight + 1
             /\ UNCHANGED <<waiting, fate>>
    BY <1>1
  <2>2. c \in Consumers
    BY ListedAreConsumers DEF ConsumersOf
  <2>3. Append(u[c], d) \in Seq(Delivery)
    BY <2>2
  <2> QED BY <2>1, <2>2, <2>3 DEF TypeOK
<1>2. CASE /\ waiting' = [waiting EXCEPT ![q] = Append(@, d)]
           /\ unread' = u
           /\ UNCHANGED <<inflight, fate>>
  BY <1>2 DEF TypeOK
<1>3. CASE /\ fate' = [fate EXCEPT ![d.copy] = "lost"]
           /\ unread' = u
           /\ UNCHANGED <<inflight, waiting>>
  BY <1>3 DEF TypeOK
<1> QED BY <1>1, <1>2, <1>3 DEF Lands

LEMMA RequeueTyped ==
  ASSUME TypeOK, NEW u \in [Consumers -> Seq(Delivery)], NEW q \in Queues,
         NEW d \in Delivery, Requeue(u, q, d)
  PROVE  /\ unread' \in [Consumers -> Seq(Delivery)]
         /\ waiting' \in [Queues -> Seq(Delivery)]
         /\ fate' \in [Copies -> {"unsent", "held", "acked", "rejected", "lost"}]
         /\ inflight' \in Nat
         /\ turn' \in [Queues -> Nat]
<1>1. Returned(q, d) \in Delivery /\ Afresh(d) \in Delivery
  BY Onward
<1>2. turn' \in [Queues -> Nat]
  BY RequeueLands
<1>3. CASE Lands(u, q, Returned(q, d))
  BY <1>1, <1>2, <1>3, LandsTyped
<1>4. CASE DeadLetterTo[q] \in Queues /\ Lands(u, DeadLetterTo[q], Afresh(d))
  BY <1>1, <1>2, <1>4, LandsTyped
<1>5. CASE /\ fate' = [fate EXCEPT ![d.copy] = "rejected"]
           /\ unread' = u
           /\ UNCHANGED <<inflight, waiting>>
  BY <1>2, <1>5 DEF TypeOK
<1> QED BY <1>3, <1>4, <1>5, RequeueLands
-----------------------------------------------------------------------------
(* The harness's count. *)

\* A slot for each delivery unread in the channels u.
SlotsOf(u) == UNION {{c} \X DOMAIN u[c] : c \in Consumers}

Counted == IsFiniteSet(SlotsOf(unread)) /\ InFlightExact

\* One more delivery is one more slot, and one less is one less.
LEMMA SlotAdded ==
  ASSUME NEW u \in [Consumers -> Seq(Delivery)], NEW c \in Consumers,
         NEW d \in Delivery, IsFiniteSet(SlotsOf(u))
  PROVE  LET v == [u EXCEPT ![c] = Append(@, d)] IN
         IsFiniteSet(SlotsOf(v)) /\ Cardinality(SlotsOf(v)) = Cardinality(SlotsOf(u)) + 1
<1> DEFINE v == [u EXCEPT ![c] = Append(@, d)]
           new == <<c, Len(u[c]) + 1>>
<1>1. DOMAIN u[c] = 1..Len(u[c]) /\ Len(u[c]) \in Nat
  OBVIOUS
<1>2. DOMAIN v[c] = 1..(Len(u[c]) + 1)
  OBVIOUS
<1>3. \A x \in Consumers \ {c} : v[x] = u[x]
  OBVIOUS
<1> HIDE DEF v
<1>4. DOMAIN v[c] = DOMAIN u[c] \cup {Len(u[c]) + 1} /\ Len(u[c]) + 1 \notin DOMAIN u[c]
  BY <1>1, <1>2
<1>5. SlotsOf(v) = SlotsOf(u) \cup {new}
  <2>1. \A p \in SlotsOf(v) : p \in SlotsOf(u) \cup {new}
    BY <1>3, <1>4 DEF SlotsOf
  <2>2. \A p \in SlotsOf(u) : p \in SlotsOf(v)
    BY <1>3, <1>4 DEF SlotsOf
  <2>3. new \in SlotsOf(v)
    BY <1>4 DEF SlotsOf
  <2> QED BY <2>1, <2>2, <2>3
<1>6. new \notin SlotsOf(u)
  BY <1>4 DEF SlotsOf
<1> QED BY <1>5, <1>6, FS_AddElement DEF v

LEMMA SlotRemoved ==
  ASSUME NEW u \in [Consumers -> Seq(Delivery)], NEW c \in Consumers,
         u[c] # <<>>, IsFiniteSet(SlotsOf(u))
  PROVE  LET v == [u EXCEPT ![c] = Tail(@)] IN
         IsFiniteSet(SlotsOf(v)) /\ Cardinality(SlotsOf(v)) = Cardinality(SlotsOf(u)) - 1
<1> DEFINE v == [u EXCEPT ![c] = Tail(@)]
           old == <<c, Len(u[c])>>
<1>1. DOMAIN u[c] = 1..Len(u[c]) /\ Len(u[c]) \in Nat \ {0}
  BY EmptySeq
<1>2. DOMAIN v[c] = 1..(Len(u[c]) - 1)
  BY <1>1
<1>3. \A x \in Consumers \ {c} : v[x] = u[x]
  OBVIOUS
<1> HIDE DEF v
<1>4. DOMAIN u[c] = DOMAIN v[c] \cup {Len(u[c])} /\ Len(u[c]) \notin DOMAIN v[c]
  BY <1>1, <1>2
<1>5. SlotsOf(v) = SlotsOf(u) \ {old}
  <2>1. \A p \in SlotsOf(u) : p \in SlotsOf(v) \cup {old}
    BY <1>3, <1>4 DEF SlotsOf
  <2>2. \A p \in SlotsOf(v) : p \in SlotsOf(u)
    BY <1>3, <1>4 DEF SlotsOf
  <2>3. old \notin SlotsOf(v)
    BY <1>4 DEF SlotsOf
  <2> QED BY <2>1, <2>2, <2>3
<1>6. old \in SlotsOf(u)
  BY <1>4 DEF SlotsOf
<1> QED BY <1>5, <1>6, FS_RemoveElement DEF v

\* What a queue kept is as many slots for the consumer it is sent to.
LEMMA SlotsFilled ==
  ASSUME NEW u \in [Consumers -> Seq(Delivery)], NEW c \in Consumers,
         NEW s \in Seq(Delivery), u[c] = <<>>, IsFiniteSet(SlotsOf(u))
  PROVE  LET v == [u EXCEPT ![c] = s] IN
         IsFiniteSet(SlotsOf(v)) /\ Cardinality(SlotsOf(v)) = Cardinality(SlotsOf(u)) + Len(s)
<1> DEFINE v == [u EXCEPT ![c] = s]
           new == {c} \X (1..Len(s))
<1>1. v[c] = s /\ DOMAIN s = 1..Len(s) /\ Len(s) \in Nat
  OBVIOUS
<1>2. \A x \in Consumers \ {c} : v[x] = u[x]
  OBVIOUS
<1> HIDE DEF v
<1>3. \A i : i \notin DOMAIN u[c]
  OBVIOUS
<1>4. SlotsOf(v) = SlotsOf(u) \cup new
  <2>1. \A p \in SlotsOf(v) : p \in SlotsOf(u) \cup new
    BY <1>1, <1>2 DEF SlotsOf
  <2>2. \A p \in SlotsOf(u) : p \in SlotsOf(v)
    BY <1>2, <1>3 DEF SlotsOf
  <2>3. \A p \in new : p \in SlotsOf(v)
    BY <1>1 DEF SlotsOf
  <2> QED BY <2>1, <2>2, <2>3
<1>5. SlotsOf(u) \cap new = {}
  BY <1>3 DEF SlotsOf
<1>6. IsFiniteSet(new) /\ Cardinality(new) = Len(s)
  <2>1. PICK n \in Nat : n = Len(s)
    BY <1>1
  <2>2. IsFiniteSet(1..n) /\ Cardinality(1..n) = n
    BY BoundedIsFinite, InOrderOfAll
  <2>3. IsFiniteSet({c}) /\ Cardinality({c}) = 1
    BY FS_Singleton
  <2>4. /\ IsFiniteSet({c} \X (1..n))
        /\ Cardinality({c} \X (1..n)) = Cardinality({c}) * Cardinality(1..n)
    BY <2>2, <2>3, FS_Product, Zenon
  <2>5. Cardinality({c} \X (1..n)) = 1 * n
    BY <2>2, <2>3, <2>4
  <2> QED BY <2>1, <2>4, <2>5
<1>7. Cardinality(SlotsOf(u)) \in Nat /\ Cardinality({}) = 0
  BY FS_CardinalityType, FS_EmptySet
<1>8. /\ IsFiniteSet(SlotsOf(u) \cup new)
      /\ Cardinality(SlotsOf(u) \cup new)
           = Cardinality(SlotsOf(u)) + Cardinality(new) - Cardinality(SlotsOf(u) \cap new)
  BY <1>6, FS_Union
<1>9. Cardinality(SlotsOf(u) \cup new) = Cardinality(SlotsOf(u)) + Len(s)
  <2>1. Cardinality(SlotsOf(u) \cap new) = 0
    BY <1>5, <1>7
  <2> HIDE DEF new
  <2> QED BY <1>1, <1>6, <1>7, <1>8, <2>1
<1> QED BY <1>4, <1>8, <1>9 DEF v

\* The numbers that make up the count are numbers.
LEMMA CountTyped ==
  ASSUME TypeOK, HandlersFit, Counted
  PROVE  /\ Cardinality(SlotsOf(unread)) \in Nat /\ Cardinality(handlers) \in Nat
         /\ IsFiniteSet(releasing) /\ Cardinality(releasing) \in Nat
         /\ inflight = Cardinality(SlotsOf(unread)) + Cardinality(handlers) + Cardinality(releasing)
         /\ handlers # {} \/ releasing # {} => inflight > 0
<1>1. Cardinality(SlotsOf(unread)) \in Nat /\ Cardinality(handlers) \in Nat
  BY FS_CardinalityType DEF Counted, HandlersFit
<1>2. IsFiniteSet(releasing) /\ Cardinality(releasing) \in Nat
  BY BusAssumption, BoundedIsFinite DEF TypeOK, Consumers
<1>3. /\ handlers # {} => Cardinality(handlers) # 0
      /\ releasing # {} => Cardinality(releasing) # 0
  BY <1>2, FS_EmptySet DEF HandlersFit
<1>4. inflight = Cardinality(SlotsOf(unread)) + Cardinality(handlers) + Cardinality(releasing)
  BY DEF Counted, InFlightExact, SlotsOf
<1> QED BY <1>1, <1>2, <1>3, <1>4
-----------------------------------------------------------------------------
(* Type correctness. *)

\* What type correctness rests on: the harness's count is never below what it counts.
Base == TypeOK /\ Wired /\ KeptOnlyWithoutConsumer /\ HandlersFit /\ Counted

LEMMA HandlerTyped ==
  ASSUME TypeOK, HandlersFit, NEW h \in handlers
  PROVE  /\ h \in Handler /\ h.c \in Consumers /\ h.tag \in 1..MaxTag
         /\ h.d \in Delivery /\ h.d.copy \in Copies /\ queueOf[h.c] \in Queues \cup {NoQueue}
         /\ Over(h) \in Handler
<1>1. h \in Handler
  BY DEF TypeOK
<1>2. h.c \in Consumers /\ h.tag \in 1..MaxTag /\ h.d \in Delivery
  BY <1>1 DEF Handler
<1>3. h.d.copy \in Copies
  BY <1>2 DEF Delivery
<1>4. Over(h) \in Handler
  BY <1>1 DEF Over, Handler, Verdicts
<1> QED BY <1>1, <1>2, <1>3, <1>4 DEF TypeOK

\* A consumer in use has a queue.
LEMMA UsedHasQueue ==
  ASSUME TypeOK, Wired, NEW c \in Consumers, life[c] # "unopened"
  PROVE  queueOf[c] \in Queues /\ c <= opened
<1>1. c \in Nat /\ opened \in Nat /\ (c <= opened \/ c > opened)
  BY BusAssumption DEF Consumers, TypeOK
<1> QED BY <1>1 DEF Wired

LEMMA TypeStep ==
  ASSUME Base, Next
  PROVE  TypeOK'
<1> USE DEF Base
<1> DEFINE Sequences == [Consumers -> Seq(Delivery)]
<1>0. unread \in Sequences /\ returning \in Sequences
  BY DEF TypeOK
<1>1. ASSUME NEW q \in Subscribed, Subscribe(q) PROVE TypeOK'
  <2>1. q \in Queues
    BY BusAssumption
  <2>2. /\ opened + 1 \in Consumers
        /\ unread' = [unread EXCEPT ![opened + 1] = waiting[q]]
        /\ turn' \in [Queues -> Nat]
    BY <1>1, <2>1, SubscribeSends
  <2>3. waiting[q] \in Seq(Delivery) /\ Len(waiting[q]) \in Nat
    BY <2>1 DEF TypeOK
  <2>4. unread' \in Sequences
    BY <1>0, <2>2, <2>3
  <2>5. /\ opened \in Nat /\ opened' = opened + 1 /\ opened' \in 0..MaxConsumers
        /\ registered' = registered \cup {opened + 1}
        /\ 1..opened \subseteq 1..(opened + 1) /\ opened + 1 \in 1..(opened + 1)
    BY <1>1, BusAssumption DEF Subscribe, TypeOK
  <2>6. registered' \subseteq 1..opened'
    BY <2>5 DEF TypeOK
  <2>7. birth' \in [Queues -> Nat] /\ birth'[q] \in Nat
    BY <1>1, <2>1 DEF Subscribe, TypeOK
  <2>8. born' \in [Consumers -> Nat]
    BY <1>1, <2>2, <2>7 DEF Subscribe, TypeOK
  <2>9. inflight' \in Nat
    BY <1>1, <2>3 DEF Subscribe, TypeOK
  <2>10. /\ queueOf' \in [Consumers -> Queues \cup {NoQueue}]
         /\ life' \in [Consumers -> {"unopened", "open", "cancelled", "returning",
                                     "draining", "dropped"}]
    BY <1>1, <2>1, <2>2 DEF Subscribe, TypeOK
  <2>11. existing' \subseteq Queues /\ waiting' \in [Queues -> Seq(Delivery)]
    BY <1>1, <2>1 DEF Subscribe, TypeOK
  <2>12. /\ phase' = phase /\ nextTag' = nextTag /\ unsettled' = unsettled
         /\ returning' = returning /\ releasing' = releasing /\ handlers' = handlers
         /\ pub' = pub /\ delayed' = delayed /\ fate' = fate
    BY <1>1 DEF Subscribe
  <2> QED BY <2>2, <2>4, <2>5, <2>6, <2>7, <2>8, <2>9, <2>10, <2>11, <2>12 DEF TypeOK
<1>2. ASSUME NEW p \in Publishers, NEW m \in Messages, NEW route \in Routes[m], Publish(p, m, route)
      PROVE  TypeOK'
  <2>1. route \in Seq(Queues)
    BY BusAssumption
  <2>2. [i \in DOMAIN route |-> <<m, route[i]>>] \in Seq(Copies)
    <3>1. DOMAIN route = 1..Len(route) /\ Len(route) \in Nat
      BY <2>1
    <3>2. \A i \in DOMAIN route : <<m, route[i]>> \in Copies
      BY <2>1 DEF Copies
    <3>3. [i \in DOMAIN route |-> <<m, route[i]>>] \in [1..Len(route) -> Copies]
      BY <3>1, <3>2
    <3> QED BY <3>1, <3>3, FunctionIsSeq
  <2>3. pub' \in [Publishers -> Seq(Copies)]
    BY <1>2, <2>2 DEF Publish, TypeOK
  <2>4. fate' \in [Copies -> {"unsent", "held", "acked", "rejected", "lost"}]
    BY <1>2 DEF Publish, TypeOK
  <2> QED BY <1>2, <2>3, <2>4 DEF Publish, TypeOK, queueVars, consumerVars
<1>3. ASSUME NEW p \in Publishers, PublishDeliver(p) PROVE TypeOK'
  <2> DEFINE k == Head(pub[p])
             d == [copy |-> k, returns |-> 0, redelivered |-> FALSE, tries |-> 0]
  <2>1. k \in Copies /\ Tail(pub[p]) \in Seq(Copies)
    BY <1>3 DEF PublishDeliver, TypeOK
  <2>2. k[2] \in Queues /\ d \in Delivery
    BY <2>1 DEF Copies, Delivery
  <2>3. Deliver(unread, k[2], d)
    BY <1>3 DEF PublishDeliver
  <2> HIDE DEF d, k
  <2>4. Lands(unread, k[2], d) /\ turn' \in [Queues -> Nat]
    BY <2>2, <2>3, DeliverLands
  <2>5. /\ unread' \in Sequences /\ waiting' \in [Queues -> Seq(Delivery)]
        /\ fate' \in [Copies -> {"unsent", "held", "acked", "rejected", "lost"}]
        /\ inflight' \in Nat
    BY <1>0, <2>2, <2>4, LandsTyped
  <2>6. pub' \in [Publishers -> Seq(Copies)]
    BY <1>3, <2>1 DEF PublishDeliver, TypeOK
  <2> QED BY <1>3, <2>4, <2>5, <2>6 DEF PublishDeliver, TypeOK, consumerVars
<1>4. ASSUME NEW c \in Consumers, Receive(c) PROVE TypeOK'
  <2> DEFINE d == [Head(unread[c]) EXCEPT !.tries = @ + 1]
  <2>1. Head(unread[c]) \in Delivery /\ Tail(unread[c]) \in Seq(Delivery)
    BY <1>4 DEF Receive, TypeOK
  <2>2. d \in Delivery
    <3>1. Head(unread[c]).tries \in Nat /\ Head(unread[c]).tries + 1 \in Nat
      BY <2>1 DEF Delivery
    <3> QED BY <2>1, <3>1 DEF Delivery
  <2>3. nextTag[c] \in 1..MaxTag /\ nextTag[c] + 1 \in 1..(MaxTag + 1)
    BY <1>4, BusAssumption DEF Receive, TypeOK
  <2>4. /\ unsettled' = [unsettled EXCEPT ![c] = @ \cup {[tag |-> nextTag[c], d |-> d]}]
        /\ handlers' = handlers \cup
             {[c |-> c, tag |-> nextTag[c], d |-> d, verdict |-> "ack",
               step |-> "held", dest |-> NoQueue]}
    BY <1>4 DEF Receive
  <2> HIDE DEF d
  <2>5. unsettled' \in [Consumers -> SUBSET Unsettled]
    BY <2>2, <2>3, <2>4 DEF TypeOK, Unsettled
  <2>6. handlers' \subseteq Handler
    BY <2>2, <2>3, <2>4 DEF TypeOK, Handler, Verdicts
  <2>7. unread' \in Sequences /\ nextTag' \in [Consumers -> 1..(MaxTag + 1)]
    BY <1>4, <2>1, <2>3 DEF Receive, TypeOK
  <2> QED BY <1>4, <2>5, <2>6, <2>7 DEF Receive, TypeOK, queueVars
<1>5. ASSUME NEW c \in Consumers, Cancel(c) PROVE TypeOK'
  <2>1. fate' \in [Copies -> {"unsent", "held", "acked", "rejected", "lost"}]
    BY <1>5 DEF Cancel, TypeOK
  <2>2. waiting' \in [Queues -> Seq(Delivery)]
    <3>1. <<>> \in Seq(Delivery)
      OBVIOUS
    <3>2. waiting' = waiting \/ waiting' = [waiting EXCEPT ![queueOf[c]] = <<>>]
      BY <1>5 DEF Cancel
    <3> QED BY <3>1, <3>2 DEF TypeOK
  <2>3. existing' \subseteq Queues /\ registered' \subseteq 1..opened
    BY <1>5 DEF Cancel, TypeOK
  <2>4. life' \in [Consumers -> {"unopened", "open", "cancelled", "returning",
                                 "draining", "dropped"}]
    BY <1>5 DEF Cancel, TypeOK
  <2> QED BY <1>5, <2>1, <2>2, <2>3, <2>4 DEF Cancel, TypeOK
<1>6. ASSUME NEW c \in Consumers, TakeUnsettled(c) PROVE TypeOK'
  <2>0. PICK n \in Nat : \E g \in Bijection(1..n, unsettled[c]) :
          returning' = [returning EXCEPT ![c] = [i \in 1..n |-> g[i].d]]
    BY <1>6, TakenBack
  <2>1. PICK g \in Bijection(1..n, unsettled[c]) :
          returning' = [returning EXCEPT ![c] = [i \in 1..n |-> g[i].d]]
    BY <2>0
  <2>2. g \in [1..n -> unsettled[c]] /\ unsettled[c] \subseteq Unsettled
    BY <2>1 DEF Bijection, Injection, TypeOK
  <2>3. [i \in 1..n |-> g[i].d] \in [1..n -> Delivery]
    BY <2>2 DEF Unsettled
  <2>4. [i \in 1..n |-> g[i].d] \in Seq(Delivery)
    BY <2>3, FunctionIsSeq
  <2>5. returning' \in Sequences
    BY <1>0, <2>1, <2>4
  <2> QED BY <1>6, <2>5 DEF TakeUnsettled, TypeOK, queueVars
<1>7. ASSUME NEW c \in Consumers, RequeueUnsettled(c) PROVE TypeOK'
  <2> DEFINE d == Head(returning[c])
             q == queueOf[c]
  <2>1. d \in Delivery /\ Tail(returning[c]) \in Seq(Delivery) /\ q \in Queues
    BY <1>7, UsedHasQueue DEF RequeueUnsettled, TypeOK
  <2>2. Requeue(unread, q, d)
    BY <1>7 DEF RequeueUnsettled
  <2> HIDE DEF d, q
  <2>3. /\ unread' \in Sequences /\ waiting' \in [Queues -> Seq(Delivery)]
        /\ fate' \in [Copies -> {"unsent", "held", "acked", "rejected", "lost"}]
        /\ inflight' \in Nat /\ turn' \in [Queues -> Nat]
    BY <1>0, <2>1, <2>2, RequeueTyped
  <2>4. returning' \in Sequences
    BY <1>0, <1>7, <2>1 DEF RequeueUnsettled
  <2> QED BY <1>7, <2>3, <2>4 DEF RequeueUnsettled, TypeOK
<1>8. ASSUME NEW c \in Consumers, RequeueUnread(c) PROVE TypeOK'
  <2> DEFINE d == Head(unread[c])
             q == queueOf[c]
             u == [unread EXCEPT ![c] = Tail(@)]
  <2>1. d \in Delivery /\ u \in Sequences /\ q \in Queues
    BY <1>8, UsedHasQueue DEF RequeueUnread, TypeOK
  <2>2. Requeue(u, q, d)
    BY <1>8 DEF RequeueUnread
  <2> HIDE DEF d, q, u
  <2>3. /\ unread' \in Sequences /\ waiting' \in [Queues -> Seq(Delivery)]
        /\ fate' \in [Copies -> {"unsent", "held", "acked", "rejected", "lost"}]
        /\ inflight' \in Nat /\ turn' \in [Queues -> Nat]
    BY <2>1, <2>2, RequeueTyped
  <2> QED BY <1>8, <2>3 DEF RequeueUnread, TypeOK
<1>9. ASSUME NEW c \in Consumers, StartDraining(c) \/ Dropped(c) PROVE TypeOK'
  BY <1>9 DEF StartDraining, Dropped, TypeOK, queueVars
<1>10. ASSUME NEW c \in Consumers, ReleaseUnread(c) PROVE TypeOK'
  <2>1. inflight \in Nat /\ inflight > 0
    BY <1>10, CountTyped DEF ReleaseUnread, TypeOK
  <2>2. inflight - 1 \in Nat
    BY <2>1
  <2> QED BY <1>10, <2>2 DEF ReleaseUnread, TypeOK, queueVars
<1>11. ASSUME NEW h \in handlers, Check(h) \/ Abandon(h) \/ SettleTooLate(h) PROVE TypeOK'
  <2>1. h \in Handler /\ Over(h) \in Handler
    BY HandlerTyped
  <2>2. \A v \in Verdicts : [h EXCEPT !.verdict = v, !.step = "checked"] \in Handler
    BY <2>1 DEF Handler
  <2>3. handlers' \subseteq Handler
    BY <1>11, <2>1, <2>2 DEF Check, Abandon, SettleTooLate, Becomes, TypeOK
  <2> QED BY <1>11, <2>3 DEF Check, Abandon, SettleTooLate, TypeOK, queueVars, consumerVars
<1>12. ASSUME NEW h \in handlers, Settle(h) PROVE TypeOK'
  <2>1. /\ h \in Handler /\ Over(h) \in Handler /\ h.c \in Consumers /\ h.d \in Delivery
        /\ h.d.copy \in Copies /\ queueOf[h.c] \in Queues
    BY HandlerTyped DEF HandlersFit, Wired
  <2>2. Onwards(h) \in Delivery /\ Afresh(h.d) \in Delivery
    BY <2>1, Onward DEF Onwards
  <2>3. Destination(h) \in Queues \cup {NoQueue}
    BY <2>1, BusAssumption DEF Destination
  <2>4. [h EXCEPT !.d = Onwards(h), !.dest = Destination(h), !.step = "deliver"] \in Handler
    BY <2>1, <2>2, <2>3 DEF Handler
  <2>5. handlers' \subseteq Handler
    BY <1>12, <2>1, <2>4 DEF Settle, Becomes, TypeOK
  <2>6. delayed' \subseteq [to : Queues, d : Delivery]
    BY <1>12, <2>1, <2>2 DEF Settle, TypeOK
  <2>7. fate' \in [Copies -> {"unsent", "held", "acked", "rejected", "lost"}]
    BY <1>12, <2>1 DEF Settle, TypeOK
  <2>8. unsettled' \in [Consumers -> SUBSET Unsettled]
    BY <1>12, <2>1 DEF Settle, TypeOK
  <2> QED BY <1>12, <2>5, <2>6, <2>7, <2>8 DEF Settle, TypeOK, queueVars
<1>13. ASSUME NEW h \in handlers, SettleDeliver(h) PROVE TypeOK'
  <2>1. Over(h) \in Handler /\ h.d \in Delivery /\ h.dest \in Queues
    BY <1>13, HandlerTyped DEF SettleDeliver, HandlersFit
  <2>2. Lands(unread, h.dest, h.d) /\ turn' \in [Queues -> Nat]
    BY <1>13, <2>1, DeliverLands DEF SettleDeliver
  <2>3. /\ unread' \in Sequences /\ waiting' \in [Queues -> Seq(Delivery)]
        /\ fate' \in [Copies -> {"unsent", "held", "acked", "rejected", "lost"}]
        /\ inflight' \in Nat
    BY <1>0, <2>1, <2>2, LandsTyped
  <2>4. handlers' \subseteq Handler
    BY <1>13, <2>1 DEF SettleDeliver, Becomes, TypeOK
  <2> QED BY <1>13, <2>2, <2>3, <2>4 DEF SettleDeliver, TypeOK, consumerVars
<1>14. ASSUME NEW h \in handlers, Release(h) PROVE TypeOK'
  <2>1. inflight \in Nat /\ inflight > 0
    BY <1>14, CountTyped DEF TypeOK
  <2>2. inflight - 1 \in Nat
    BY <2>1
  <2> QED BY <1>14, <2>2 DEF Release, TypeOK, queueVars, consumerVars
<1>15. ASSUME NEW e \in delayed, DelayOver(e) PROVE TypeOK'
  <2>1. e.d \in Delivery /\ e.to \in Queues
    BY DEF TypeOK
  <2>2. Lands(unread, e.to, e.d) /\ turn' \in [Queues -> Nat]
    BY <1>15, <2>1, DeliverLands DEF DelayOver
  <2>3. /\ unread' \in Sequences /\ waiting' \in [Queues -> Seq(Delivery)]
        /\ fate' \in [Copies -> {"unsent", "held", "acked", "rejected", "lost"}]
        /\ inflight' \in Nat
    BY <1>0, <2>1, <2>2, LandsTyped
  <2> QED BY <1>15, <2>2, <2>3 DEF DelayOver, TypeOK, consumerVars
<1>16. ASSUME Close PROVE TypeOK'
  BY <1>16 DEF Close, MarkClosed, ClearConsumers, TypeOK, queueVars, consumerVars
<1> QED
  BY <1>1, <1>2, <1>3, <1>4, <1>5, <1>6, <1>7, <1>8, <1>9, <1>10, <1>11, <1>12, <1>13,
     <1>14, <1>15, <1>16 DEF Next, DropConsumer, Handle
-----------------------------------------------------------------------------
(* The consumers, and what a queue keeps. *)

\* What lands changes the channel of a listed consumer only.
LEMMA LandsListed ==
  ASSUME TypeOK, NEW u \in [Consumers -> Seq(Delivery)], NEW q \in Queues,
         NEW d \in Delivery, Lands(u, q, d)
  PROVE  /\ \A c \in Consumers : c \notin ConsumersOf(q) => unread'[c] = u[c]
         /\ \A c \in Consumers : c \notin registered => unread'[c] = u[c]
         /\ \A c \in Consumers : c > opened => unread'[c] = u[c]
<1>1. ConsumersOf(q) \subseteq registered /\ ConsumersOf(q) \subseteq Consumers
  BY ListedAreConsumers DEF ConsumersOf
<1>2. \A c \in Consumers : c \notin ConsumersOf(q) => unread'[c] = u[c]
  BY <1>1 DEF Lands
<1>3. \A c \in registered : ~(c > opened)
  BY DEF TypeOK
<1> QED BY <1>1, <1>2, <1>3

LEMMA RequeueListed ==
  ASSUME TypeOK, NEW u \in [Consumers -> Seq(Delivery)], NEW q \in Queues,
         NEW d \in Delivery, Requeue(u, q, d)
  PROVE  /\ \A c \in Consumers : c \notin registered => unread'[c] = u[c]
         /\ \A c \in Consumers : c > opened => unread'[c] = u[c]
<1>1. Returned(q, d) \in Delivery /\ Afresh(d) \in Delivery
  BY Onward
<1>2. CASE Lands(u, q, Returned(q, d))
  BY <1>1, <1>2, LandsListed
<1>3. CASE DeadLetterTo[q] \in Queues /\ Lands(u, DeadLetterTo[q], Afresh(d))
  BY <1>1, <1>3, LandsListed
<1>4. CASE unread' = u
  BY <1>4
<1> QED BY <1>2, <1>3, <1>4, RequeueLands

\* Every action but Subscribe, Cancel and those of the close leaves the list alone.
Listing == <<phase, existing, registered, opened, queueOf>>

LEMMA WiredKept ==
  ASSUME TypeOK, Wired, UNCHANGED <<Listing, life, unsettled, returning>>,
         \A c \in Consumers : c > opened => unread'[c] = unread[c]
  PROVE  Wired'
BY DEF Wired, Listing

LEMMA WiredStep ==
  ASSUME Base, Next
  PROVE  Wired'
<1> USE DEF Base
<1>0. /\ unread \in [Consumers -> Seq(Delivery)] /\ opened \in Nat
      /\ \A c \in Consumers : c \in Nat
  BY BusAssumption DEF TypeOK, Consumers
<1>1. ASSUME NEW q \in Subscribed, Subscribe(q) PROVE Wired'
  <2>1. q \in Queues
    BY BusAssumption
  <2>2. /\ opened + 1 \in Consumers
        /\ unread' = [unread EXCEPT ![opened + 1] = waiting[q]]
    BY <1>1, <2>1, SubscribeSends
  <2>3. /\ phase = "open" /\ phase' = phase /\ opened' = opened + 1
        /\ queueOf' = [queueOf EXCEPT ![opened + 1] = q]
        /\ life' = [life EXCEPT ![opened + 1] = "open"]
        /\ existing' = existing \cup {q}
        /\ unsettled' = unsettled /\ returning' = returning
    BY <1>1 DEF Subscribe
  <2>4. \A c \in Consumers : /\ c <= opened + 1 => c <= opened \/ c = opened + 1
                             /\ c > opened + 1 => c > opened /\ c # opened + 1
    BY <1>0
  <2>5. /\ queueOf'[opened + 1] = q /\ life'[opened + 1] = "open"
        /\ returning[opened + 1] = <<>>
    BY <1>0, <2>2, <2>3 DEF Wired, TypeOK
  <2>6. \A c \in Consumers \ {opened + 1} :
          queueOf'[c] = queueOf[c] /\ life'[c] = life[c] /\ unread'[c] = unread[c]
    BY <1>0, <2>2, <2>3 DEF TypeOK
  <2> QED BY <2>1, <2>3, <2>4, <2>5, <2>6 DEF Wired
<1>2. ASSUME NEW p \in Publishers, NEW m \in Messages, NEW route \in Routes[m], Publish(p, m, route)
      PROVE  Wired'
  BY <1>2, WiredKept DEF Publish, Listing, queueVars, consumerVars
<1>3. ASSUME NEW p \in Publishers, PublishDeliver(p) PROVE Wired'
  <2> DEFINE k == Head(pub[p])
             d == [copy |-> k, returns |-> 0, redelivered |-> FALSE, tries |-> 0]
  <2>1. k \in Copies /\ k[2] \in Queues /\ d \in Delivery
    BY <1>3 DEF PublishDeliver, TypeOK, Copies, Delivery
  <2>2. Deliver(unread, k[2], d)
    BY <1>3 DEF PublishDeliver
  <2> HIDE DEF d, k
  <2>3. \A c \in Consumers : c > opened => unread'[c] = unread[c]
    BY <1>0, <2>1, <2>2, DeliverLands, LandsListed
  <2> QED BY <1>3, <2>3, WiredKept DEF PublishDeliver, Listing, consumerVars
<1>4. ASSUME NEW c \in Consumers, Receive(c) PROVE Wired'
  <2>1. c <= opened /\ ~(c > opened)
    BY <1>0, <1>4, UsedHasQueue DEF Receive
  <2>2. /\ \A x \in Consumers \ {c} : unread'[x] = unread[x] /\ unsettled'[x] = unsettled[x]
        /\ life' = life /\ returning' = returning
        /\ UNCHANGED Listing
    BY <1>4 DEF Receive, TypeOK, queueVars, Listing
  <2> QED BY <2>1, <2>2 DEF Wired, Listing
<1>5. ASSUME NEW c \in Consumers, Cancel(c) PROVE Wired'
  <2>1. c <= opened /\ ~(c > opened)
    BY <1>0, <1>5, UsedHasQueue DEF Cancel
  <2>2. /\ life' = [life EXCEPT ![c] = "cancelled"] /\ life[c] = "open"
        /\ registered' = registered \ {c}
        /\ \A q \in existing : q \notin AutoDelete => q \in existing'
        /\ UNCHANGED <<phase, opened, queueOf, unread, unsettled, returning>>
    BY <1>5 DEF Cancel, Deletes
  <2>3. \A x \in Consumers : life'[x] = IF x = c THEN "cancelled" ELSE life[x]
    BY <2>2 DEF TypeOK
  <2> QED BY <2>1, <2>2, <2>3 DEF Wired
<1>6. ASSUME NEW c \in Consumers, TakeUnsettled(c) PROVE Wired'
  <2>1. c <= opened /\ ~(c > opened)
    BY <1>0, <1>6, UsedHasQueue DEF TakeUnsettled
  <2>2. /\ life' = [life EXCEPT ![c] = "returning"]
        /\ \A x \in Consumers \ {c} :
             unsettled'[x] = unsettled[x] /\ returning'[x] = returning[x]
        /\ UNCHANGED <<Listing, unread>>
    BY <1>6 DEF TakeUnsettled, TypeOK, queueVars, Listing
  <2>3. \A x \in Consumers : life'[x] = IF x = c THEN "returning" ELSE life[x]
    BY <2>2 DEF TypeOK
  <2> QED BY <2>1, <2>2, <2>3 DEF Wired, Listing
<1>7. ASSUME NEW c \in Consumers, RequeueUnsettled(c) PROVE Wired'
  <2>1. c <= opened /\ ~(c > opened) /\ queueOf[c] \in Queues
        /\ Head(returning[c]) \in Delivery
    BY <1>0, <1>7, UsedHasQueue DEF RequeueUnsettled, TypeOK
  <2>2. \A x \in Consumers : x > opened => unread'[x] = unread[x]
    BY <1>0, <1>7, <2>1, RequeueListed DEF RequeueUnsettled
  <2>3. /\ life[c] = "returning"
        /\ \A x \in Consumers \ {c} : returning'[x] = returning[x]
        /\ UNCHANGED <<Listing, unsettled, life>>
    BY <1>7 DEF RequeueUnsettled, TypeOK, Listing
  <2> QED BY <2>1, <2>2, <2>3 DEF Wired, Listing
<1>8. ASSUME NEW c \in Consumers, RequeueUnread(c) PROVE Wired'
  <2> DEFINE u == [unread EXCEPT ![c] = Tail(@)]
  <2>1. c <= opened /\ ~(c > opened) /\ queueOf[c] \in Queues
        /\ Head(unread[c]) \in Delivery /\ u \in [Consumers -> Seq(Delivery)]
    BY <1>0, <1>8, UsedHasQueue DEF RequeueUnread, TypeOK
  <2>2. \A x \in Consumers : x > opened => u[x] = unread[x]
    BY <1>0, <2>1
  <2>3. Requeue(u, queueOf[c], Head(unread[c]))
    BY <1>8 DEF RequeueUnread
  <2> HIDE DEF u
  <2>4. \A x \in Consumers : x > opened => unread'[x] = u[x]
    BY <2>1, <2>3, RequeueListed
  <2> QED BY <1>8, <2>2, <2>4, WiredKept DEF RequeueUnread, Listing
<1>9. ASSUME NEW c \in Consumers, StartDraining(c) \/ Dropped(c) PROVE Wired'
  <2>1. c <= opened /\ ~(c > opened)
    BY <1>0, <1>9, UsedHasQueue DEF StartDraining, Dropped
  <2>2. /\ life' = [life EXCEPT ![c] = "draining"] \/ life' = [life EXCEPT ![c] = "dropped"]
        /\ returning[c] = <<>>
        /\ UNCHANGED <<Listing, unread, unsettled, returning>>
    BY <1>9 DEF StartDraining, Dropped, Listing, queueVars, Wired
  <2> QED BY <2>1, <2>2 DEF Wired, Listing, TypeOK
<1>10. ASSUME NEW c \in Consumers, ReleaseUnread(c) PROVE Wired'
  BY <1>10, WiredKept DEF ReleaseUnread, Listing, queueVars
<1>11. ASSUME NEW h \in handlers, Check(h) \/ Abandon(h) \/ SettleTooLate(h) \/ Release(h)
       PROVE  Wired'
  BY <1>11, WiredKept DEF Check, Abandon, SettleTooLate, Release, Listing, queueVars, consumerVars
<1>12. ASSUME NEW h \in handlers, Settle(h) PROVE Wired'
  <2>1. h.c \in Consumers /\ h.c <= opened /\ ~(h.c > opened)
    BY <1>0, HandlerTyped DEF HandlersFit
  <2>2. /\ \A x \in Consumers \ {h.c} : unsettled'[x] = unsettled[x]
        /\ UNCHANGED <<Listing, life, unread, returning>>
    BY <1>12, <2>1 DEF Settle, TypeOK, queueVars, Listing
  <2> QED BY <2>1, <2>2 DEF Wired, Listing
<1>13. ASSUME NEW h \in handlers, SettleDeliver(h) PROVE Wired'
  <2>1. h.d \in Delivery /\ h.dest \in Queues
    BY <1>13, HandlerTyped DEF SettleDeliver, HandlersFit
  <2>2. \A c \in Consumers : c > opened => unread'[c] = unread[c]
    BY <1>0, <1>13, <2>1, DeliverLands, LandsListed DEF SettleDeliver
  <2> QED BY <1>13, <2>2, WiredKept DEF SettleDeliver, Listing, consumerVars
<1>14. ASSUME NEW e \in delayed, DelayOver(e) PROVE Wired'
  <2>1. e.d \in Delivery /\ e.to \in Queues
    BY DEF TypeOK
  <2>2. \A c \in Consumers : c > opened => unread'[c] = unread[c]
    BY <1>0, <1>14, <2>1, DeliverLands, LandsListed DEF DelayOver
  <2> QED BY <1>14, <2>2, WiredKept DEF DelayOver, Listing, consumerVars
<1>15. ASSUME Close PROVE Wired'
  BY <1>15 DEF Close, MarkClosed, ClearConsumers, queueVars, consumerVars, Wired
<1> QED
  BY <1>1, <1>2, <1>3, <1>4, <1>5, <1>6, <1>7, <1>8, <1>9, <1>10, <1>11, <1>12, <1>13,
     <1>14, <1>15 DEF Next, DropConsumer, Handle

\* The delivery a publisher hands over next.
NewDelivery(p) ==
  [copy |-> Head(pub[p]), returns |-> 0, redelivered |-> FALSE, tries |-> 0]

\* The five actions that hand a delivery over, and what they hand to which queue.
LEMMA PublishHands ==
  ASSUME TypeOK, NEW p \in Publishers, PublishDeliver(p)
  PROVE  /\ NewDelivery(p) \in Delivery /\ Head(pub[p]) \in Copies /\ Head(pub[p])[2] \in Queues
         /\ Lands(unread, Head(pub[p])[2], NewDelivery(p))
         /\ unread \in [Consumers -> Seq(Delivery)]
         /\ UNCHANGED <<Listing, consumerVars, handlers, delayed, birth, born>>
<1>1. Head(pub[p]) \in Copies
  BY DEF PublishDeliver, TypeOK
<1>2. Head(pub[p])[2] \in Queues /\ NewDelivery(p) \in Delivery
  BY <1>1 DEF Copies, Delivery, NewDelivery
<1>3. Deliver(unread, Head(pub[p])[2], NewDelivery(p))
  BY DEF PublishDeliver, NewDelivery
<1>4. Lands(unread, Head(pub[p])[2], NewDelivery(p))
  BY <1>2, <1>3, DeliverLands
<1> QED BY <1>1, <1>2, <1>4 DEF TypeOK, PublishDeliver, Listing

LEMMA SettleHands ==
  ASSUME TypeOK, HandlersFit, NEW h \in handlers, SettleDeliver(h)
  PROVE  /\ h.d \in Delivery /\ h.dest \in Queues /\ Lands(unread, h.dest, h.d)
         /\ unread \in [Consumers -> Seq(Delivery)]
         /\ UNCHANGED <<Listing, consumerVars, pub, delayed, birth, born>>
<1>1. h.d \in Delivery /\ h.dest \in Queues
  BY HandlerTyped DEF SettleDeliver, HandlersFit
<1>2. Lands(unread, h.dest, h.d)
  BY <1>1, DeliverLands DEF SettleDeliver
<1> QED BY <1>1, <1>2 DEF TypeOK, SettleDeliver, Listing

LEMMA DelayHands ==
  ASSUME TypeOK, NEW e \in delayed, DelayOver(e)
  PROVE  /\ e.d \in Delivery /\ e.to \in Queues /\ Lands(unread, e.to, e.d)
         /\ unread \in [Consumers -> Seq(Delivery)]
         /\ UNCHANGED <<Listing, consumerVars, handlers, pub, birth, born>>
<1>1. e.d \in Delivery /\ e.to \in Queues
  BY DEF TypeOK
<1>2. Lands(unread, e.to, e.d)
  BY <1>1, DeliverLands DEF DelayOver
<1> QED BY <1>1, <1>2 DEF TypeOK, DelayOver, Listing

\* A closing consumer hands its deliveries back, the unsettled before the unread.
LEMMA UnsettledHands ==
  ASSUME TypeOK, Wired, NEW c \in Consumers, RequeueUnsettled(c)
  PROVE  /\ Head(returning[c]) \in Delivery /\ queueOf[c] \in Queues /\ c <= opened
         /\ Requeue(unread, queueOf[c], Head(returning[c]))
         /\ unread \in [Consumers -> Seq(Delivery)]
         /\ UNCHANGED <<Listing, life, nextTag, unsettled, releasing, handlers, pub, delayed,
                        birth, born>>
BY UsedHasQueue DEF RequeueUnsettled, TypeOK, Listing

LEMMA UnreadHands ==
  ASSUME TypeOK, Wired, NEW c \in Consumers, RequeueUnread(c)
  PROVE  /\ Head(unread[c]) \in Delivery /\ queueOf[c] \in Queues /\ c <= opened
         /\ Requeue([unread EXCEPT ![c] = Tail(@)], queueOf[c], Head(unread[c]))
         /\ [unread EXCEPT ![c] = Tail(@)] \in [Consumers -> Seq(Delivery)]
         /\ UNCHANGED <<Listing, life, nextTag, unsettled, returning, handlers, pub, delayed,
                        birth, born>>
<1>1. Head(unread[c]) \in Delivery /\ Tail(unread[c]) \in Seq(Delivery)
  BY DEF RequeueUnread, TypeOK
<1>2. queueOf[c] \in Queues /\ c <= opened
  BY UsedHasQueue DEF RequeueUnread
<1>3. [unread EXCEPT ![c] = Tail(@)] \in [Consumers -> Seq(Delivery)]
  BY <1>1 DEF TypeOK
<1> QED BY <1>1, <1>2, <1>3 DEF RequeueUnread, Listing

\* A queue keeps only what lands on it while nobody consumes it.
LEMMA LandsKept ==
  ASSUME TypeOK, KeptOnlyWithoutConsumer, NEW u, NEW q \in Queues, NEW d, Lands(u, q, d),
         UNCHANGED Listing
  PROVE  KeptOnlyWithoutConsumer'
<1>1. \A x \in Queues : ConsumersOf(x)' = ConsumersOf(x)
  BY DEF ConsumersOf, Listing
<1>2. CASE waiting' = waiting
  BY <1>1, <1>2 DEF KeptOnlyWithoutConsumer, Listing
<1>3. CASE /\ ConsumersOf(q) = {} /\ q \in existing
           /\ waiting' = [waiting EXCEPT ![q] = Append(@, d)]
  <2>1. \A x \in Queues \ {q} : waiting'[x] = waiting[x]
    BY <1>3 DEF TypeOK
  <2> QED BY <1>1, <1>3, <2>1 DEF KeptOnlyWithoutConsumer, Listing
<1> QED BY <1>2, <1>3 DEF Lands

LEMMA RequeueKept ==
  ASSUME TypeOK, KeptOnlyWithoutConsumer, NEW u, NEW q \in Queues, NEW d, Requeue(u, q, d),
         UNCHANGED Listing
  PROVE  KeptOnlyWithoutConsumer'
<1>1. CASE Lands(u, q, Returned(q, d))
  BY <1>1, LandsKept
<1>2. CASE DeadLetterTo[q] \in Queues /\ Lands(u, DeadLetterTo[q], Afresh(d))
  BY <1>2, LandsKept
<1>3. CASE waiting' = waiting
  BY <1>3 DEF KeptOnlyWithoutConsumer, ConsumersOf, Listing
<1> QED BY <1>1, <1>2, <1>3, RequeueLands

LEMMA KeptStep ==
  ASSUME Base, Next
  PROVE  KeptOnlyWithoutConsumer'
<1> USE DEF Base
<1>1. ASSUME UNCHANGED <<Listing, waiting>> PROVE KeptOnlyWithoutConsumer'
  BY <1>1 DEF KeptOnlyWithoutConsumer, ConsumersOf, Listing
<1>2. ASSUME NEW q \in Subscribed, Subscribe(q) PROVE KeptOnlyWithoutConsumer'
  <2>1. /\ registered' = registered \cup {opened + 1}
        /\ queueOf' = [queueOf EXCEPT ![opened + 1] = q]
        /\ existing' = existing \cup {q}
        /\ waiting' = [waiting EXCEPT ![q] = <<>>]
    BY <1>2 DEF Subscribe
  <2>2. q \in Queues /\ opened + 1 \in Consumers
    BY <1>2, BusAssumption, SubscribeSends
  <2>3. \A x \in Queues \ {q} : ConsumersOf(x)' = ConsumersOf(x) /\ waiting'[x] = waiting[x]
    <3> SUFFICES ASSUME NEW x \in Queues \ {q}
                 PROVE  ConsumersOf(x)' = ConsumersOf(x) /\ waiting'[x] = waiting[x]
      OBVIOUS
    <3>1. queueOf'[opened + 1] = q
      BY <2>1, <2>2 DEF TypeOK
    <3>2. opened + 1 \notin registered
      BY BusAssumption DEF TypeOK
    <3>3. \A c \in registered : queueOf'[c] = queueOf[c]
      BY <2>1, <3>2, ListedAreConsumers DEF TypeOK
    <3>4. ConsumersOf(x)' = ConsumersOf(x)
      BY <2>1, <3>1, <3>3 DEF ConsumersOf
    <3> QED BY <2>1, <3>4 DEF TypeOK
  <2>4. waiting'[q] = <<>>
    BY <2>1, <2>2 DEF TypeOK
  <2> QED BY <2>1, <2>3, <2>4 DEF KeptOnlyWithoutConsumer
<1>3. ASSUME NEW p \in Publishers, PublishDeliver(p) PROVE KeptOnlyWithoutConsumer'
  BY <1>3, PublishHands, LandsKept
<1>4. ASSUME NEW c \in Consumers, Cancel(c) PROVE KeptOnlyWithoutConsumer'
  <2>1. \A q \in Queues : ConsumersOf(q)' \subseteq ConsumersOf(q)
    BY <1>4 DEF Cancel, ConsumersOf
  <2>2. CASE Deletes(c) /\ existing' = existing \ {queueOf[c]}
             /\ waiting' = [waiting EXCEPT ![queueOf[c]] = <<>>]
    <3>1. \A q \in Queues : waiting'[q] = IF q = queueOf[c] THEN <<>> ELSE waiting[q]
      BY <2>2 DEF TypeOK
    <3> QED BY <2>1, <2>2, <3>1 DEF KeptOnlyWithoutConsumer
  <2>3. CASE UNCHANGED <<existing, waiting>>
    BY <2>1, <2>3 DEF KeptOnlyWithoutConsumer
  <2> QED BY <1>4, <2>2, <2>3 DEF Cancel
<1>5. ASSUME NEW c \in Consumers, RequeueUnsettled(c) PROVE KeptOnlyWithoutConsumer'
  BY <1>5, UnsettledHands, RequeueKept
<1>6. ASSUME NEW c \in Consumers, RequeueUnread(c) PROVE KeptOnlyWithoutConsumer'
  BY <1>6, UnreadHands, RequeueKept
<1>7. ASSUME NEW h \in handlers, SettleDeliver(h) PROVE KeptOnlyWithoutConsumer'
  BY <1>7, SettleHands, LandsKept
<1>8. ASSUME NEW e \in delayed, DelayOver(e) PROVE KeptOnlyWithoutConsumer'
  BY <1>8, DelayHands, LandsKept
<1>9. ASSUME Close PROVE KeptOnlyWithoutConsumer'
  BY <1>9 DEF Close, MarkClosed, ClearConsumers, KeptOnlyWithoutConsumer, ConsumersOf, queueVars
<1>10. ASSUME NEW p \in Publishers, NEW m \in Messages, NEW route \in Routes[m], Publish(p, m, route)
       PROVE  UNCHANGED <<Listing, waiting>>
  BY <1>10 DEF Publish, Listing, queueVars
<1>11. ASSUME NEW c \in Consumers,
              \/ Receive(c) \/ TakeUnsettled(c) \/ StartDraining(c) \/ ReleaseUnread(c) \/ Dropped(c)
       PROVE  UNCHANGED <<Listing, waiting>>
  BY <1>11 DEF Receive, TakeUnsettled, StartDraining, ReleaseUnread, Dropped, Listing, queueVars
<1>12. ASSUME NEW h \in handlers,
              Check(h) \/ Abandon(h) \/ Settle(h) \/ SettleTooLate(h) \/ Release(h)
       PROVE  UNCHANGED <<Listing, waiting>>
  BY <1>12 DEF Check, Abandon, Settle, SettleTooLate, Release, Listing, queueVars
<1> QED
  BY <1>1, <1>2, <1>3, <1>4, <1>5, <1>6, <1>7, <1>8, <1>9, <1>10, <1>11, <1>12
     DEF Next, DropConsumer, Handle
-----------------------------------------------------------------------------
(* The settlements. *)

\* A settlement moves on: there are as many as before, still one for each tag.
LEMMA MovesOn ==
  ASSUME HandlersFit, NEW h \in handlers, NEW new, new.c = h.c, new.tag = h.tag, Becomes(h, new)
  PROVE  /\ IsFiniteSet(handlers') /\ Cardinality(handlers') = Cardinality(handlers)
         /\ new \notin handlers \ {h}
         /\ \A x, y \in handlers' : x.c = y.c /\ x.tag = y.tag => x = y
<1>1. new \notin handlers \ {h}
  BY DEF HandlersFit
<1>2. handlers' = (handlers \ {h}) \cup {new} /\ IsFiniteSet(handlers)
  BY DEF Becomes, HandlersFit
<1>3. IsFiniteSet(handlers \ {h}) /\ Cardinality(handlers \ {h}) = Cardinality(handlers) - 1
  BY <1>2, FS_RemoveElement
<1>4. /\ IsFiniteSet((handlers \ {h}) \cup {new})
      /\ Cardinality((handlers \ {h}) \cup {new}) = Cardinality(handlers \ {h}) + 1
  BY <1>1, <1>3, FS_AddElement
<1>5. Cardinality(handlers) \in Nat
  BY <1>2, FS_CardinalityType
<1>6. Cardinality(handlers') = Cardinality(handlers)
  BY <1>2, <1>3, <1>4, <1>5
<1>7. \A x, y \in handlers' : x.c = y.c /\ x.tag = y.tag => x = y
  BY <1>2 DEF HandlersFit
<1> QED BY <1>1, <1>2, <1>4, <1>6, <1>7

\* What a single settlement has to satisfy.
Fit(h) ==
  /\ h.c <= opened /\ h.tag < nextTag[h.c]
  /\ h.step = "deliver" => h.dest \in Queues
  /\ h.step \in {"held", "checked"} =>
       \A u \in unsettled[h.c] : u.tag = h.tag => u.d = h.d
  /\ h.verdict = "retry" => queueOf[h.c] \in Delaying

\* The verdict of a settlement that goes on needs what the code looks for.
LEMMA FitStep ==
  ASSUME Base, NEW h \in handlers, NEW new, Becomes(h, new), new.c = h.c, new.tag = h.tag,
         Fit(new), UNCHANGED <<Listing, nextTag, delayed>>,
         \A c \in Consumers : unsettled'[c] \subseteq unsettled[c]
  PROVE  HandlersFit'
<1> USE DEF Base
<1>1. /\ IsFiniteSet(handlers')
      /\ \A x, y \in handlers' : x.c = y.c /\ x.tag = y.tag => x = y
  BY MovesOn
<1>2. \A x \in handlers' : Fit(x) /\ x.c \in Consumers
  BY HandlerTyped DEF Becomes, HandlersFit, Fit
<1>3. \A x \in handlers' : Fit(x)'
  BY <1>2 DEF Fit, Listing
<1>4. /\ \A c \in Consumers : \A u, v \in unsettled'[c] : u.tag = v.tag => u = v
      /\ \A c \in Consumers : \A u \in unsettled'[c] : u.tag < nextTag[c]
  BY DEF HandlersFit
<1>5. \A e \in delayed' : e.to \in Delaying /\ (e.to \notin AutoDelete => e.to \in existing')
  BY DEF HandlersFit, Listing
<1> QED BY <1>1, <1>3, <1>4, <1>5 DEF HandlersFit, Fit, Listing

\* Nothing that touches the settlements.
LEMMA FitKept ==
  ASSUME Base, UNCHANGED <<Listing, nextTag>>,
         handlers' \subseteq handlers, delayed' \subseteq delayed,
         \A c \in Consumers : unsettled'[c] \subseteq unsettled[c]
  PROVE  HandlersFit'
<1> USE DEF Base
<1>1. IsFiniteSet(handlers')
  BY FS_Subset DEF HandlersFit
<1>2. \A h \in handlers' : Fit(h) /\ h.c \in Consumers
  BY HandlerTyped DEF HandlersFit, Fit
<1>3. \A h \in handlers' : Fit(h)'
  BY <1>2 DEF Fit, Listing
<1> QED BY <1>1, <1>3 DEF HandlersFit, Fit, Listing

LEMMA HandlersStep ==
  ASSUME Base, Next
  PROVE  HandlersFit'
<1> USE DEF Base
<1>0. /\ opened \in Nat /\ MaxTag \in Nat
      /\ \A c \in Consumers : nextTag[c] \in Nat
  BY BusAssumption DEF TypeOK
<1>1. ASSUME NEW q \in Subscribed, Subscribe(q) PROVE HandlersFit'
  <2>1. /\ opened' = opened + 1
        /\ queueOf' = [queueOf EXCEPT ![opened + 1] = q]
        /\ existing' = existing \cup {q}
        /\ UNCHANGED <<nextTag, unsettled, handlers, delayed>>
    BY <1>1 DEF Subscribe
  <2>2. \A h \in handlers : h.c \in Consumers /\ h.c \in Nat /\ Fit(h)
    BY BusAssumption, HandlerTyped DEF HandlersFit, Fit, Consumers
  <2>3. \A h \in handlers : h.c # opened + 1 /\ h.c <= opened + 1
    BY <1>0, <2>2 DEF Fit
  <2>4. \A h \in handlers : queueOf'[h.c] = queueOf[h.c]
    BY <2>1, <2>2, <2>3 DEF TypeOK
  <2>5. \A h \in handlers' : Fit(h)'
    BY <2>1, <2>2, <2>3, <2>4 DEF Fit
  <2> QED BY <2>1, <2>5 DEF HandlersFit, Fit
<1>2. ASSUME NEW c \in Consumers, Receive(c) PROVE HandlersFit'
  <2>a. PICK d : d = [Head(unread[c]) EXCEPT !.tries = @ + 1]
    OBVIOUS
  <2>b. PICK new : new = [c |-> c, tag |-> nextTag[c], d |-> d, verdict |-> "ack",
                          step |-> "held", dest |-> NoQueue]
    OBVIOUS
  <2>1. /\ unsettled' = [unsettled EXCEPT ![c] = @ \cup {[tag |-> nextTag[c], d |-> d]}]
        /\ handlers' = handlers \cup {new}
        /\ nextTag' = [nextTag EXCEPT ![c] = @ + 1]
        /\ life[c] = "open"
        /\ UNCHANGED <<Listing, delayed>>
    BY <1>2, <2>a, <2>b DEF Receive, queueVars, Listing
  <2>2. c <= opened
    BY <2>1, UsedHasQueue
  <2>3. /\ nextTag'[c] = nextTag[c] + 1 /\ nextTag[c] < nextTag[c] + 1
        /\ \A x \in Consumers \ {c} : nextTag'[x] = nextTag[x] /\ unsettled'[x] = unsettled[x]
        /\ unsettled'[c] = unsettled[c] \cup {[tag |-> nextTag[c], d |-> d]}
    BY <1>0, <2>1 DEF TypeOK
  <2>4. /\ \A u \in unsettled[c] : u.tag < nextTag[c] /\ u.tag \in Nat
        /\ \A h \in handlers : /\ Fit(h) /\ h.c \in Consumers /\ h.tag \in Nat
    BY HandlerTyped DEF HandlersFit, Fit, TypeOK, Unsettled
  <2>5. IsFiniteSet(handlers')
    BY <2>1, FS_AddElement DEF HandlersFit
  <2>6. \A x, y \in handlers' : x.c = y.c /\ x.tag = y.tag => x = y
    <3>1. \A h \in handlers : h.c = c => h.tag # nextTag[c]
      BY <1>0, <2>4 DEF Fit
    <3> QED BY <2>1, <2>b, <3>1 DEF HandlersFit
  <2>7. \A h \in handlers' : Fit(h)'
    <3>1. ASSUME NEW h \in handlers PROVE Fit(h)'
      <4>1. CASE h.c = c
        <5>1. h.tag < nextTag[c] /\ h.tag # nextTag[c] /\ h.tag < nextTag[c] + 1
          BY <1>0, <2>4, <4>1 DEF Fit
        <5>2. \A u \in unsettled'[c] : u.tag = h.tag => u \in unsettled[c]
          BY <2>3, <5>1
        <5> QED BY <2>1, <2>3, <2>4, <4>1, <5>1, <5>2 DEF Fit, Listing
      <4>2. CASE h.c # c
        BY <2>1, <2>3, <2>4, <4>2 DEF Fit, Listing
      <4> QED BY <4>1, <4>2
    <3>2. Fit(new)'
      <4>1. \A u \in unsettled'[c] : u.tag = nextTag[c] => u.d = d
        BY <1>0, <2>3, <2>4
      <4>2. new.c = c /\ new.tag = nextTag[c] /\ new.d = d /\ new.step = "held" /\ new.verdict = "ack"
        BY <2>b
      <4> QED BY <2>1, <2>2, <2>3, <4>1, <4>2 DEF Fit, Listing
    <3> QED BY <2>1, <3>1, <3>2
  <2>8. \A u, v \in unsettled'[c] : u.tag = v.tag => u = v
    BY <1>0, <2>3, <2>4 DEF HandlersFit
  <2>9. \A u \in unsettled'[c] : u.tag < nextTag'[c]
    BY <1>0, <2>3, <2>4
  <2>10. \A x \in Consumers : /\ \A u, v \in unsettled'[x] : u.tag = v.tag => u = v
                              /\ \A u \in unsettled'[x] : u.tag < nextTag'[x]
    BY <2>3, <2>8, <2>9 DEF HandlersFit
  <2> QED BY <2>1, <2>5, <2>6, <2>7, <2>10 DEF HandlersFit, Fit, Listing
<1>3. ASSUME NEW c \in Consumers, Cancel(c) PROVE HandlersFit'
  <2>1. /\ \A q \in existing : q \notin AutoDelete => q \in existing'
        /\ UNCHANGED <<opened, queueOf, nextTag, unsettled, handlers, delayed>>
    BY <1>3 DEF Cancel, Deletes
  <2> QED BY <2>1 DEF HandlersFit
<1>4. ASSUME NEW c \in Consumers, TakeUnsettled(c) PROVE HandlersFit'
  <2>1. /\ unsettled' = [unsettled EXCEPT ![c] = {}]
        /\ UNCHANGED <<Listing, nextTag, handlers, delayed>>
    BY <1>4 DEF TakeUnsettled, queueVars, Listing
  <2>2. \A x \in Consumers : unsettled'[x] \subseteq unsettled[x]
    BY <2>1 DEF TypeOK
  <2> QED BY <2>1, <2>2, FitKept
<1>5. ASSUME NEW h \in handlers, Check(h) PROVE HandlersFit'
  <2>1. UNCHANGED <<Listing, nextTag, delayed, unsettled>> /\ h.step = "held" /\ h \in Handler /\ Fit(h)
    BY <1>5, HandlerTyped DEF Check, queueVars, consumerVars, Listing, HandlersFit, Fit
  <2>2. CASE Becomes(h, Over(h))
    <3>1. Fit(Over(h)) /\ Over(h).c = h.c /\ Over(h).tag = h.tag
      BY <2>1 DEF Over, Fit, Handler
    <3> QED BY <2>1, <2>2, <3>1, FitStep
  <2>3. ASSUME NEW v \in Verdicts, v = "retry" => queueOf[h.c] \in Delaying,
               Becomes(h, [h EXCEPT !.verdict = v, !.step = "checked"])
        PROVE  HandlersFit'
    <3> DEFINE new == [h EXCEPT !.verdict = v, !.step = "checked"]
    <3>1. new.c = h.c /\ new.tag = h.tag /\ new.d = h.d /\ new.step = "checked" /\ new.verdict = v
      BY <2>1 DEF Handler
    <3> HIDE DEF new
    <3>2. Fit(new)
      BY <2>1, <2>3, <3>1 DEF Fit
    <3> QED BY <2>1, <2>3, <3>1, <3>2, FitStep DEF new
  <2> QED BY <1>5, <2>2, <2>3 DEF Check
<1>6. ASSUME NEW h \in handlers, Abandon(h) \/ SettleTooLate(h) PROVE HandlersFit'
  <2>1. UNCHANGED <<Listing, nextTag, delayed, unsettled>> /\ Becomes(h, Over(h))
        /\ h \in Handler /\ Fit(h)
    BY <1>6, HandlerTyped DEF Abandon, SettleTooLate, queueVars, consumerVars, Listing, HandlersFit, Fit
  <2>2. Fit(Over(h)) /\ Over(h).c = h.c /\ Over(h).tag = h.tag
    BY <2>1 DEF Over, Fit, Handler
  <2> QED BY <2>1, <2>2, FitStep
<1>7. ASSUME NEW h \in handlers, Settle(h) PROVE HandlersFit'
  <2> DEFINE new == IF Destination(h) = NoQueue THEN Over(h)
                    ELSE [h EXCEPT !.d = Onwards(h), !.dest = Destination(h), !.step = "deliver"]
  <2>1. /\ UNCHANGED <<Listing, nextTag>> /\ Becomes(h, new) /\ h.step = "checked"
        /\ unsettled' = [unsettled EXCEPT ![h.c] = {u \in @ : u.tag # h.tag}]
        /\ delayed' = IF h.verdict = "retry"
                      THEN delayed \cup {[to |-> queueOf[h.c], d |-> Afresh(h.d)]}
                      ELSE delayed
    BY <1>7 DEF Settle, queueVars, Listing
  <2>2. h \in Handler /\ Fit(h) /\ h.c \in Consumers /\ queueOf[h.c] \in Queues
    BY HandlerTyped DEF HandlersFit, Fit, Wired
  <2>3. Destination(h) \in Queues \cup {NoQueue}
    BY <2>2, BusAssumption DEF Destination
  <2>4. /\ new.c = h.c /\ new.tag = h.tag /\ new.step \in {"deliver", "done"}
        /\ new.step = "deliver" => new.dest \in Queues
        /\ new.verdict \in {"ack", h.verdict}
    BY <2>2, <2>3 DEF Over, Handler
  <2> HIDE DEF new
  <2>5. Fit(new)
    BY <2>2, <2>4 DEF Fit
  <2>6. \A x \in Consumers : unsettled'[x] \subseteq unsettled[x]
    BY <2>1 DEF TypeOK
  <2>7. /\ IsFiniteSet(handlers')
        /\ \A x, y \in handlers' : x.c = y.c /\ x.tag = y.tag => x = y
    BY <2>1, <2>4, MovesOn
  <2>8. \A x \in handlers' : Fit(x) /\ x.c \in Consumers
    BY <2>1, <2>2, <2>4, <2>5, HandlerTyped DEF Becomes, HandlersFit, Fit
  <2>9. \A x \in handlers' : Fit(x)'
    BY <2>1, <2>6, <2>8 DEF Fit, Listing
  <2>10. \A e \in delayed' : e.to \in Delaying /\ (e.to \notin AutoDelete => e.to \in existing')
    <3>1. h.verdict = "retry" =>
            queueOf[h.c] \in Delaying /\ (queueOf[h.c] \notin AutoDelete => queueOf[h.c] \in existing)
      BY <2>2 DEF Fit, Wired
    <3>2. existing' = existing
      BY <2>1 DEF Listing
    <3> QED BY <2>1, <3>1, <3>2 DEF HandlersFit
  <2>11. /\ \A c \in Consumers : \A u, v \in unsettled'[c] : u.tag = v.tag => u = v
         /\ \A c \in Consumers : \A u \in unsettled'[c] : u.tag < nextTag'[c]
    BY <2>1, <2>6 DEF HandlersFit
  <2> QED BY <2>7, <2>9, <2>10, <2>11 DEF HandlersFit, Fit
<1>8. ASSUME NEW h \in handlers, SettleDeliver(h) PROVE HandlersFit'
  <2>1. UNCHANGED <<Listing, nextTag, delayed, unsettled>> /\ Becomes(h, Over(h))
        /\ h \in Handler /\ Fit(h)
    BY <1>8, HandlerTyped, SettleHands DEF SettleDeliver, consumerVars, HandlersFit, Fit
  <2>2. Fit(Over(h)) /\ Over(h).c = h.c /\ Over(h).tag = h.tag
    BY <2>1 DEF Over, Fit, Handler
  <2> QED BY <2>1, <2>2, FitStep
<1>9. ASSUME NEW h \in handlers, Release(h) PROVE HandlersFit'
  BY <1>9, FitKept DEF Release, queueVars, consumerVars, Listing
<1>10. ASSUME NEW e \in delayed, DelayOver(e) PROVE HandlersFit'
  BY <1>10, FitKept DEF DelayOver, consumerVars, Listing
<1>11. ASSUME NEW p \in Publishers, PublishDeliver(p) PROVE HandlersFit'
  BY <1>11, FitKept DEF PublishDeliver, consumerVars, Listing
<1>12. ASSUME NEW p \in Publishers, NEW m \in Messages, NEW route \in Routes[m], Publish(p, m, route)
       PROVE  HandlersFit'
  BY <1>12, FitKept DEF Publish, queueVars, consumerVars, Listing
<1>13. ASSUME NEW c \in Consumers,
              \/ RequeueUnsettled(c) \/ StartDraining(c) \/ RequeueUnread(c)
              \/ ReleaseUnread(c) \/ Dropped(c)
       PROVE  HandlersFit'
  BY <1>13, FitKept
     DEF RequeueUnsettled, StartDraining, RequeueUnread, ReleaseUnread, Dropped, queueVars, Listing
<1>14. ASSUME Close PROVE HandlersFit'
  BY <1>14 DEF Close, MarkClosed, ClearConsumers, queueVars, consumerVars, HandlersFit
<1> QED
  BY <1>1, <1>2, <1>3, <1>4, <1>5, <1>6, <1>7, <1>8, <1>9, <1>10, <1>11, <1>12, <1>13, <1>14
     DEF Next, DropConsumer, Handle

\* A delivery that lands is counted if it is sent to a consumer, and not otherwise.
LEMMA LandsCounted ==
  ASSUME TypeOK, NEW u \in [Consumers -> Seq(Delivery)], NEW q \in Queues,
         NEW d \in Delivery, Lands(u, q, d), IsFiniteSet(SlotsOf(u))
  PROVE  /\ IsFiniteSet(SlotsOf(unread'))
         /\ Cardinality(SlotsOf(unread')) \in Nat /\ Cardinality(SlotsOf(u)) \in Nat
         /\ inflight' + Cardinality(SlotsOf(u)) = inflight + Cardinality(SlotsOf(unread'))
<1>1. Cardinality(SlotsOf(u)) \in Nat /\ inflight \in Nat
  BY FS_CardinalityType DEF TypeOK
<1>2. CASE \E c \in ConsumersOf(q) :
             unread' = [u EXCEPT ![c] = Append(@, d)] /\ inflight' = inflight + 1
  <2>1. PICK c \in ConsumersOf(q) :
             unread' = [u EXCEPT ![c] = Append(@, d)] /\ inflight' = inflight + 1
    BY <1>2
  <2>2. c \in Consumers
    BY ListedAreConsumers DEF ConsumersOf
  <2>3. PICK v : v = [u EXCEPT ![c] = Append(@, d)]
    OBVIOUS
  <2>4. IsFiniteSet(SlotsOf(v)) /\ Cardinality(SlotsOf(v)) = Cardinality(SlotsOf(u)) + 1
    BY <2>2, <2>3, SlotAdded
  <2>5. unread' = v
    BY <2>1, <2>3
  <2>6. /\ Cardinality(SlotsOf(v)) \in Nat
        /\ inflight' + Cardinality(SlotsOf(u)) = inflight + Cardinality(SlotsOf(v))
    BY <1>1, <2>1, <2>4
  <2> QED BY <1>1, <2>4, <2>5, <2>6
<1>3. CASE unread' = u /\ inflight' = inflight
  BY <1>1, <1>3
<1> QED BY <1>2, <1>3 DEF Lands

LEMMA RequeueCounted ==
  ASSUME TypeOK, NEW u \in [Consumers -> Seq(Delivery)], NEW q \in Queues,
         NEW d \in Delivery, Requeue(u, q, d), IsFiniteSet(SlotsOf(u))
  PROVE  /\ IsFiniteSet(SlotsOf(unread'))
         /\ Cardinality(SlotsOf(unread')) \in Nat /\ Cardinality(SlotsOf(u)) \in Nat
         /\ inflight' + Cardinality(SlotsOf(u)) = inflight + Cardinality(SlotsOf(unread'))
<1>1. Returned(q, d) \in Delivery /\ Afresh(d) \in Delivery
  BY Onward
<1>2. CASE Lands(u, q, Returned(q, d))
  BY <1>1, <1>2, LandsCounted
<1>3. CASE DeadLetterTo[q] \in Queues /\ Lands(u, DeadLetterTo[q], Afresh(d))
  BY <1>1, <1>3, LandsCounted
<1>4. CASE unread' = u /\ inflight' = inflight
  <2>1. Cardinality(SlotsOf(u)) \in Nat /\ inflight \in Nat
    BY FS_CardinalityType DEF TypeOK
  <2> QED BY <1>4, <2>1
<1> QED BY <1>2, <1>3, <1>4, RequeueLands

LEMMA CountedStep ==
  ASSUME Base, Next
  PROVE  Counted'
<1> USE DEF Base
<1> DEFINE S == Cardinality(SlotsOf(unread))
           H == Cardinality(handlers)
           R == Cardinality(releasing)
<1>0. /\ S \in Nat /\ H \in Nat /\ R \in Nat /\ inflight \in Nat /\ inflight = S + H + R
      /\ IsFiniteSet(SlotsOf(unread)) /\ IsFiniteSet(handlers) /\ IsFiniteSet(releasing)
  BY CountTyped DEF Counted, HandlersFit, TypeOK
<1>a. ASSUME IsFiniteSet(SlotsOf(unread')),
             inflight' = Cardinality(SlotsOf(unread')) + Cardinality(handlers') + Cardinality(releasing')
      PROVE  Counted'
  BY <1>a DEF Counted, InFlightExact, SlotsOf
<1>b. ASSUME IsFiniteSet(SlotsOf(unread')), Cardinality(SlotsOf(unread')) \in Nat, inflight' \in Nat,
             inflight' + S = inflight + Cardinality(SlotsOf(unread')),
             Cardinality(handlers') = H, releasing' = releasing
      PROVE  Counted'
  <2>1. inflight' = Cardinality(SlotsOf(unread')) + Cardinality(handlers') + Cardinality(releasing')
    BY <1>0, <1>b
  <2> QED BY <1>a, <1>b, <2>1
<1>c. ASSUME UNCHANGED <<unread, releasing, inflight>>, Cardinality(handlers') = H
      PROVE  Counted'
  BY <1>0, <1>a, <1>c
<1>d. inflight' \in Nat
  BY TypeStep DEF TypeOK
<1>1. ASSUME NEW q \in Subscribed, Subscribe(q) PROVE Counted'
  <2>1. q \in Queues
    BY BusAssumption
  <2>2. opened + 1 \in Consumers /\ unread' = [unread EXCEPT ![opened + 1] = waiting[q]]
    BY <1>1, <2>1, SubscribeSends
  <2>3. /\ waiting[q] \in Seq(Delivery) /\ unread[opened + 1] = <<>>
        /\ unread \in [Consumers -> Seq(Delivery)]
    BY <2>1, <2>2 DEF TypeOK, Wired
  <2>4. PICK v : v = [unread EXCEPT ![opened + 1] = waiting[q]]
    OBVIOUS
  <2>5. IsFiniteSet(SlotsOf(v)) /\ Cardinality(SlotsOf(v)) = S + Len(waiting[q])
    BY <1>0, <2>2, <2>3, <2>4, SlotsFilled
  <2>6. inflight' = inflight + Len(waiting[q]) /\ UNCHANGED <<handlers, releasing>>
    BY <1>1 DEF Subscribe
  <2>7. Len(waiting[q]) \in Nat /\ unread' = v
    BY <2>2, <2>3, <2>4
  <2> QED BY <1>0, <1>a, <2>5, <2>6, <2>7
<1>2. ASSUME NEW p \in Publishers, PublishDeliver(p) PROVE Counted'
  <2>1. /\ IsFiniteSet(SlotsOf(unread')) /\ Cardinality(SlotsOf(unread')) \in Nat
        /\ inflight' + S = inflight + Cardinality(SlotsOf(unread'))
    BY <1>0, <1>2, PublishHands, LandsCounted
  <2> QED BY <1>2, <1>b, <1>d, <2>1 DEF PublishDeliver, consumerVars
<1>3. ASSUME NEW c \in Consumers, Receive(c) PROVE Counted'
  <2>1. PICK new, v :
          /\ new.c = c /\ new.tag = nextTag[c]
          /\ handlers' = handlers \cup {new}
          /\ unread' = v /\ v = [unread EXCEPT ![c] = Tail(@)] /\ unread[c] # <<>>
          /\ UNCHANGED <<inflight, releasing>>
    BY <1>3 DEF Receive
  <2>2. new \notin handlers
    <3>1. nextTag[c] \in Nat
      BY BusAssumption DEF TypeOK
    <3> QED BY <2>1, <3>1 DEF HandlersFit
  <2>3. Cardinality(handlers') = H + 1
    BY <1>0, <2>1, <2>2, FS_AddElement
  <2>4. IsFiniteSet(SlotsOf(v)) /\ Cardinality(SlotsOf(v)) = S - 1
    BY <1>0, <2>1, SlotRemoved DEF TypeOK
  <2> QED BY <1>0, <1>a, <2>1, <2>3, <2>4
<1>4. ASSUME NEW c \in Consumers, RequeueUnsettled(c) PROVE Counted'
  <2>1. /\ IsFiniteSet(SlotsOf(unread')) /\ Cardinality(SlotsOf(unread')) \in Nat
        /\ inflight' + S = inflight + Cardinality(SlotsOf(unread'))
    BY <1>0, <1>4, UnsettledHands, RequeueCounted
  <2> QED BY <1>4, <1>b, <1>d, <2>1 DEF RequeueUnsettled
<1>5. ASSUME NEW c \in Consumers, RequeueUnread(c) PROVE Counted'
  <2>1. PICK v : v = [unread EXCEPT ![c] = Tail(@)]
    OBVIOUS
  <2>2. unread[c] # <<>> /\ c \notin releasing /\ releasing' = releasing \cup {c}
        /\ handlers' = handlers
    BY <1>5 DEF RequeueUnread
  <2>3. IsFiniteSet(SlotsOf(v)) /\ Cardinality(SlotsOf(v)) = S - 1
    BY <1>0, <2>1, <2>2, SlotRemoved DEF TypeOK
  <2>4. /\ v \in [Consumers -> Seq(Delivery)] /\ queueOf[c] \in Queues
        /\ Head(unread[c]) \in Delivery /\ Requeue(v, queueOf[c], Head(unread[c]))
    BY <1>5, <2>1, UnreadHands
  <2>5. /\ IsFiniteSet(SlotsOf(unread')) /\ Cardinality(SlotsOf(unread')) \in Nat
        /\ inflight' + Cardinality(SlotsOf(v)) = inflight + Cardinality(SlotsOf(unread'))
    BY <2>3, <2>4, RequeueCounted
  <2>6. Cardinality(releasing') = R + 1
    BY <1>0, <2>2, FS_AddElement
  <2>7. inflight' = Cardinality(SlotsOf(unread')) + Cardinality(handlers') + Cardinality(releasing')
    BY <1>0, <1>d, <2>2, <2>3, <2>5, <2>6
  <2> QED BY <1>a, <2>5, <2>7
<1>6. ASSUME NEW c \in Consumers, ReleaseUnread(c) PROVE Counted'
  <2>1. /\ c \in releasing /\ releasing' = releasing \ {c} /\ inflight' = inflight - 1
        /\ UNCHANGED <<unread, handlers>>
    BY <1>6 DEF ReleaseUnread
  <2>2. Cardinality(releasing') = R - 1
    BY <1>0, <2>1, FS_RemoveElement
  <2> QED BY <1>0, <1>a, <2>1, <2>2
<1>7. ASSUME NEW h \in handlers, Release(h) PROVE Counted'
  <2>1. /\ handlers' = handlers \ {h} /\ inflight' = inflight - 1
        /\ UNCHANGED <<unread, releasing>>
    BY <1>7 DEF Release, consumerVars
  <2>2. Cardinality(handlers') = H - 1
    BY <1>0, <2>1, FS_RemoveElement
  <2> QED BY <1>0, <1>a, <2>1, <2>2
<1>8. ASSUME NEW h \in handlers, NEW new, new.c = h.c, new.tag = h.tag, Becomes(h, new)
      PROVE  Cardinality(handlers') = H
  BY <1>8, MovesOn
<1>9. \A h \in handlers : h \in Handler /\ Over(h).c = h.c /\ Over(h).tag = h.tag
  BY HandlerTyped DEF Over, Handler
<1>10. ASSUME NEW h \in handlers, Abandon(h) \/ SettleTooLate(h) PROVE Counted'
  <2>1. Becomes(h, Over(h)) /\ UNCHANGED <<unread, releasing, inflight>>
    BY <1>10 DEF Abandon, SettleTooLate, consumerVars
  <2> QED BY <1>8, <1>9, <1>c, <2>1
<1>11. ASSUME NEW h \in handlers, Check(h) PROVE Counted'
  <2>1. UNCHANGED <<unread, releasing, inflight>>
    BY <1>11 DEF Check, consumerVars
  <2>2. \E new : new.c = h.c /\ new.tag = h.tag /\ Becomes(h, new)
    BY <1>9, <1>11 DEF Check, Handler
  <2> QED BY <1>8, <1>c, <2>1, <2>2
<1>12. ASSUME NEW h \in handlers, Settle(h) PROVE Counted'
  <2>1. UNCHANGED <<unread, releasing, inflight>>
    BY <1>12 DEF Settle
  <2>2. \E new : new.c = h.c /\ new.tag = h.tag /\ Becomes(h, new)
    BY <1>9, <1>12 DEF Settle, Handler
  <2> QED BY <1>8, <1>c, <2>1, <2>2
<1>13. ASSUME NEW h \in handlers, SettleDeliver(h) PROVE Counted'
  <2>1. /\ IsFiniteSet(SlotsOf(unread')) /\ Cardinality(SlotsOf(unread')) \in Nat
        /\ inflight' + S = inflight + Cardinality(SlotsOf(unread'))
    BY <1>0, <1>13, SettleHands, LandsCounted
  <2>2. Becomes(h, Over(h)) /\ releasing' = releasing
    BY <1>13 DEF SettleDeliver, consumerVars
  <2>3. Cardinality(handlers') = H
    BY <1>8, <1>9, <2>2
  <2> QED BY <1>b, <1>d, <2>1, <2>2, <2>3
<1>14. ASSUME NEW e \in delayed, DelayOver(e) PROVE Counted'
  <2>1. /\ IsFiniteSet(SlotsOf(unread')) /\ Cardinality(SlotsOf(unread')) \in Nat
        /\ inflight' + S = inflight + Cardinality(SlotsOf(unread'))
    BY <1>0, <1>14, DelayHands, LandsCounted
  <2> QED BY <1>14, <1>b, <1>d, <2>1 DEF DelayOver, consumerVars
<1>15. ASSUME NEW c \in Consumers, Cancel(c) \/ TakeUnsettled(c) \/ StartDraining(c) \/ Dropped(c)
       PROVE  UNCHANGED <<unread, releasing, inflight, handlers>>
  BY <1>15 DEF Cancel, TakeUnsettled, StartDraining, Dropped
<1>16. ASSUME NEW p \in Publishers, NEW m \in Messages, NEW route \in Routes[m], Publish(p, m, route)
       PROVE  UNCHANGED <<unread, releasing, inflight, handlers>>
  BY <1>16 DEF Publish, consumerVars
<1>17. ASSUME Close
       PROVE  UNCHANGED <<unread, releasing, inflight, handlers>>
  BY <1>17 DEF Close, MarkClosed, ClearConsumers, consumerVars
<1> QED
  BY <1>c, <1>1, <1>2, <1>3, <1>4, <1>5, <1>6, <1>7, <1>10, <1>11, <1>12, <1>13, <1>14,
     <1>15, <1>16, <1>17 DEF Next, DropConsumer, Handle
-----------------------------------------------------------------------------
LEMMA BaseInit ==
  ASSUME Init
  PROVE  Base
<1>1. TypeOK
  <2>1. opened \in 0..MaxConsumers /\ 1 \in 1..(MaxTag + 1)
    BY BusAssumption DEF Init
  <2>2. <<>> \in Seq(Delivery) /\ <<>> \in Seq(Copies)
    OBVIOUS
  <2> QED BY <2>1, <2>2 DEF Init, TypeOK
<1>2. Wired /\ KeptOnlyWithoutConsumer
  <2>1. \A c \in Consumers : ~(c <= 0)
    BY DEF Consumers
  <2> QED BY <2>1 DEF Init, Wired, KeptOnlyWithoutConsumer
<1>3. HandlersFit
  BY FS_EmptySet DEF Init, HandlersFit
<1>4. Counted
  <2>1. SlotsOf(unread) = {}
    BY DEF Init, SlotsOf
  <2>2. inflight = 0 /\ handlers = {} /\ releasing = {}
    BY DEF Init
  <2>3. IsFiniteSet({}) /\ Cardinality({}) = 0
    BY FS_EmptySet
  <2> QED BY <2>1, <2>2, <2>3 DEF Counted, InFlightExact, SlotsOf
<1> QED BY <1>1, <1>2, <1>3, <1>4 DEF Base

LEMMA BaseStep ==
  ASSUME Base, [Next]_vars
  PROVE  Base'
<1>1. CASE Next
  BY <1>1, TypeStep, WiredStep, KeptStep, HandlersStep, CountedStep DEF Base
<1>2. CASE UNCHANGED vars
  <2>1. TypeOK' /\ Wired'
    BY <1>2 DEF vars, Base, TypeOK, Wired
  <2>2. KeptOnlyWithoutConsumer' /\ HandlersFit' /\ Counted'
    BY <1>2 DEF vars, Base, KeptOnlyWithoutConsumer, ConsumersOf, HandlersFit, Counted,
                InFlightExact, SlotsOf
  <2> QED BY <2>1, <2>2 DEF Base
<1> QED BY <1>1, <1>2

\* Nothing reaches a channel once nobody is listed.
LEMMA LandsNowhere ==
  ASSUME TypeOK, registered = {}, NEW u \in [Consumers -> Seq(Delivery)], NEW q \in Queues,
         NEW d \in Delivery, Lands(u, q, d)
  PROVE  \A c \in Consumers : unread'[c] = u[c]
BY LandsListed

LEMMA ClosedStep ==
  ASSUME Base, Next, phase = "closed", NEW x \in Consumers
  PROVE  Len(unread'[x]) <= Len(unread[x])
<1> USE DEF Base
<1>0. /\ registered = {} /\ unread \in [Consumers -> Seq(Delivery)]
      /\ \A c \in Consumers : Len(unread[c]) \in Nat
  BY DEF Wired, TypeOK
<1>a. ASSUME unread'[x] = unread[x] PROVE Len(unread'[x]) <= Len(unread[x])
  BY <1>0, <1>a
<1>b. \A c \in Consumers : unread[c] # <<>> =>
        LET v == [unread EXCEPT ![c] = Tail(@)] IN Len(v[x]) <= Len(unread[x])
  BY <1>0
<1>1. ASSUME NEW q \in Subscribed, Subscribe(q) PROVE FALSE
  BY <1>1 DEF Subscribe
<1>2. ASSUME NEW p \in Publishers, PublishDeliver(p) PROVE unread'[x] = unread[x]
  BY <1>0, <1>2, PublishHands, LandsNowhere
<1>3. ASSUME NEW c \in Consumers, Receive(c) PROVE Len(unread'[x]) <= Len(unread[x])
  BY <1>3, <1>b DEF Receive
<1>4. ASSUME NEW c \in Consumers, RequeueUnsettled(c) PROVE unread'[x] = unread[x]
  BY <1>0, <1>4, UnsettledHands, RequeueListed
<1>5. ASSUME NEW c \in Consumers, RequeueUnread(c) PROVE Len(unread'[x]) <= Len(unread[x])
  <2>1. PICK v : v = [unread EXCEPT ![c] = Tail(@)]
    OBVIOUS
  <2>2. /\ v \in [Consumers -> Seq(Delivery)] /\ queueOf[c] \in Queues
        /\ Head(unread[c]) \in Delivery /\ Requeue(v, queueOf[c], Head(unread[c]))
    BY <1>5, <2>1, UnreadHands
  <2>3. unread'[x] = v[x]
    BY <1>0, <2>2, RequeueListed
  <2>4. unread[c] # <<>>
    BY <1>5 DEF RequeueUnread
  <2> QED BY <1>b, <2>1, <2>3, <2>4
<1>6. ASSUME NEW h \in handlers, SettleDeliver(h) PROVE unread'[x] = unread[x]
  BY <1>0, <1>6, SettleHands, LandsNowhere
<1>7. ASSUME NEW e \in delayed, DelayOver(e) PROVE unread'[x] = unread[x]
  BY <1>0, <1>7, DelayHands, LandsNowhere
<1>8. ASSUME NEW p \in Publishers, NEW m \in Messages, NEW route \in Routes[m], Publish(p, m, route)
      PROVE  unread' = unread
  BY <1>8 DEF Publish
<1>9. ASSUME NEW c \in Consumers,
             Cancel(c) \/ TakeUnsettled(c) \/ StartDraining(c) \/ ReleaseUnread(c) \/ Dropped(c)
      PROVE  unread' = unread
  BY <1>9 DEF Cancel, TakeUnsettled, StartDraining, ReleaseUnread, Dropped
<1>10. ASSUME NEW h \in handlers,
              Check(h) \/ Abandon(h) \/ Settle(h) \/ SettleTooLate(h) \/ Release(h)
       PROVE  unread' = unread
  BY <1>10 DEF Check, Abandon, Settle, SettleTooLate, Release
<1>11. ASSUME Close PROVE unread' = unread
  BY <1>11 DEF Close, MarkClosed, ClearConsumers
<1> QED
  BY <1>a, <1>1, <1>2, <1>3, <1>4, <1>5, <1>6, <1>7, <1>8, <1>9, <1>10, <1>11
     DEF Next, DropConsumer, Handle

LEMMA BaseInvariant == Spec => []Base
<1> QED BY BaseInit, BaseStep, PTL DEF Spec

\* Every variable keeps its type.
THEOREM TypeCorrect == Spec => []TypeOK
<1>1. Base => TypeOK
  BY DEF Base
<1> QED BY <1>1, BaseInvariant, PTL

\* The harness's count is exact: the unread deliveries, the settlements alive and
\* what a closing consumer has just moved.
THEOREM ExactCount == Spec => []InFlightExact
<1>1. Base => InFlightExact
  BY DEF Base, Counted
<1> QED BY <1>1, BaseInvariant, PTL

\* A queue keeps a message only while nobody consumes it.
THEOREM KeepsWithoutConsumer == Spec => []KeptOnlyWithoutConsumer
<1>1. Base => KeptOnlyWithoutConsumer
  BY DEF Base
<1> QED BY <1>1, BaseInvariant, PTL

\* Once the close has cleared the consumers, no publish, settlement, requeue or
\* delay still under way adds to a channel.
THEOREM ClosedHandsNothing == Spec => NothingArrivesAfterClose
<1>1. ASSUME Base, [Next]_vars
      PROVE  [phase = "closed" => \A c \in Consumers : Len(unread'[c]) <= Len(unread[c])]_vars
  <2>1. CASE Next
    BY <1>1, <2>1, ClosedStep
  <2>2. CASE UNCHANGED vars
    BY <2>2
  <2> QED BY <1>1, <2>1, <2>2
<1> QED BY <1>1, BaseInvariant, PTL DEF Spec, NothingArrivesAfterClose
-----------------------------------------------------------------------------
(* The delivery limit. *)

\* What is in a sequence after an Append, and after a Tail.
LEMMA AppendHas ==
  ASSUME NEW S, NEW s \in Seq(S), NEW d \in S, NEW i \in DOMAIN Append(s, d)
  PROVE  Append(s, d)[i] = d \/ (i \in DOMAIN s /\ Append(s, d)[i] = s[i])
<1>1. DOMAIN s = 1..Len(s) /\ DOMAIN Append(s, d) = 1..(Len(s) + 1) /\ Len(s) \in Nat
  OBVIOUS
<1> QED BY <1>1

LEMMA TailHas ==
  ASSUME NEW S, NEW s \in Seq(S), s # <<>>
  PROVE  /\ 1 \in DOMAIN s /\ Head(s) = s[1]
         /\ \A i \in DOMAIN Tail(s) : i + 1 \in DOMAIN s /\ Tail(s)[i] = s[i + 1]
<1>1. DOMAIN s = 1..Len(s) /\ DOMAIN Tail(s) = 1..(Len(s) - 1) /\ Len(s) \in Nat \ {0}
  BY EmptySeq
<1> QED BY <1>1

\* A queue that gets a delivery within its limit holds only such deliveries.
LEMMA LandsWithin ==
  ASSUME TypeOK, NEW u \in [Consumers -> Seq(Delivery)], NEW q \in Queues,
         NEW d \in Delivery, Lands(u, q, d), Fits(q, d), WaitingFits, UnreadFits(u)
  PROVE  /\ \A x \in Queues : \A i \in DOMAIN waiting'[x] : Fits(x, waiting'[x][i])
         /\ UnreadFits(unread')
<1>1. CASE \E c \in ConsumersOf(q) :
             unread' = [u EXCEPT ![c] = Append(@, d)] /\ waiting' = waiting
  <2>1. PICK c \in ConsumersOf(q) :
             unread' = [u EXCEPT ![c] = Append(@, d)] /\ waiting' = waiting
    BY <1>1
  <2>2. c \in Consumers /\ queueOf[c] = q
    BY ListedAreConsumers DEF ConsumersOf
  <2>3. unread'[c] = Append(u[c], d) /\ \A x \in Consumers \ {c} : unread'[x] = u[x]
    BY <2>1, <2>2
  <2>4. \A i \in DOMAIN unread'[c] : Fits(q, unread'[c][i])
    BY <2>2, <2>3, AppendHas DEF UnreadFits
  <2>5. UnreadFits(unread')
    BY <2>2, <2>3, <2>4 DEF UnreadFits
  <2> QED BY <2>1, <2>5 DEF WaitingFits
<1>2. CASE waiting' = [waiting EXCEPT ![q] = Append(@, d)] /\ unread' = u
  <2>1. /\ waiting'[q] = Append(waiting[q], d) /\ waiting[q] \in Seq(Delivery)
        /\ \A x \in Queues \ {q} : waiting'[x] = waiting[x]
    BY <1>2 DEF TypeOK
  <2>2. \A i \in DOMAIN waiting'[q] : Fits(q, waiting'[q][i])
    BY <2>1, AppendHas DEF WaitingFits
  <2> QED BY <1>2, <2>1, <2>2 DEF WaitingFits
<1>3. CASE waiting' = waiting /\ unread' = u
  BY <1>3 DEF WaitingFits
<1> QED BY <1>1, <1>2, <1>3 DEF Lands

LEMMA RequeueWithin ==
  ASSUME TypeOK, NEW u \in [Consumers -> Seq(Delivery)], NEW q \in Queues,
         NEW d \in Delivery, Requeue(u, q, d), Out(q, d), WaitingFits, UnreadFits(u)
  PROVE  /\ \A x \in Queues : \A i \in DOMAIN waiting'[x] : Fits(x, waiting'[x][i])
         /\ UnreadFits(unread')
<1>1. CASE ~Spent(q, d) /\ Lands(u, q, Returned(q, d))
  <2>1. Returned(q, d) \in Delivery /\ Fits(q, Returned(q, d))
    BY <1>1, Onward
  <2> QED BY <1>1, <2>1, LandsWithin
<1>2. CASE DeadLetterTo[q] \in Queues /\ Lands(u, DeadLetterTo[q], Afresh(d))
  <2>1. Afresh(d) \in Delivery /\ Fits(DeadLetterTo[q], Afresh(d))
    BY <1>2, Onward
  <2> QED BY <1>2, <2>1, LandsWithin
<1>3. CASE waiting' = waiting /\ unread' = u
  BY <1>3 DEF WaitingFits
<1> QED BY <1>1, <1>2, <1>3, RequeueLands

\* A new message fits any queue, and one that fits is out when it is handed out.
LEMMA NewFits ==
  ASSUME NEW q \in Queues \cup {NoQueue}, NEW d \in Delivery
  PROVE  /\ d.returns = 0 /\ d.tries = 0 => Fits(q, d)
         /\ Fits(q, d) => Out(q, d) /\ Out(q, [d EXCEPT !.tries = @ + 1])
<1>1. Limit(q) \in Nat
  BY BusAssumption DEF Limit
<1>2. d.tries \in Nat /\ d.returns \in Nat
  BY DEF Delivery
<1>3. [d EXCEPT !.tries = @ + 1].tries = d.tries + 1
      /\ [d EXCEPT !.tries = @ + 1].returns = d.returns
  BY DEF Delivery
<1> QED BY <1>1, <1>2, <1>3 DEF Fits, Out

LEMMA LimitsStep ==
  ASSUME Base, WithinLimits, Next
  PROVE  WithinLimits'
<1> USE DEF Base
<1>0. /\ unread \in [Consumers -> Seq(Delivery)] /\ returning \in [Consumers -> Seq(Delivery)]
      /\ waiting \in [Queues -> Seq(Delivery)]
      /\ \A c \in Consumers : queueOf[c] \in Queues \cup {NoQueue}
  BY DEF TypeOK
\* The parts that a step hands on.
<1>a. ASSUME UNCHANGED <<queueOf, returning, unsettled>> PROVE HandedOut'
  BY <1>a DEF WithinLimits, HandedOut
<1>b. ASSUME UNCHANGED queueOf, handlers' \subseteq handlers PROVE Settling'
  BY <1>b DEF WithinLimits, Settling
<1>c. ASSUME delayed' \subseteq delayed PROVE DelayedFit'
  BY <1>c DEF WithinLimits, DelayedFit
<1>d. ASSUME UNCHANGED queueOf, UnreadFits(unread'),
             \A x \in Queues : \A i \in DOMAIN waiting'[x] : Fits(x, waiting'[x][i])
      PROVE  WaitingFits' /\ UnreadFits(unread)'
  BY <1>d DEF WaitingFits, UnreadFits
<1>e. ASSUME UNCHANGED <<queueOf, waiting, unread>> PROVE WaitingFits' /\ UnreadFits(unread)'
  BY <1>e DEF WithinLimits, WaitingFits, UnreadFits
<1>f. ASSUME NEW h \in handlers, Becomes(h, Over(h)), UNCHANGED queueOf PROVE Settling'
  <2>1. Over(h).step = "done"
    BY HandlerTyped DEF Over, Handler
  <2> QED BY <1>f, <2>1 DEF WithinLimits, Settling, Becomes
<1>1. ASSUME NEW q \in Subscribed, Subscribe(q) PROVE WithinLimits'
  <2>1. q \in Queues
    BY BusAssumption
  <2>2. opened + 1 \in Consumers /\ unread' = [unread EXCEPT ![opened + 1] = waiting[q]]
    BY <1>1, <2>1, SubscribeSends
  <2>3. /\ queueOf' = [queueOf EXCEPT ![opened + 1] = q]
        /\ waiting' = [waiting EXCEPT ![q] = <<>>]
        /\ UNCHANGED <<unsettled, returning, handlers, delayed>>
    BY <1>1 DEF Subscribe
  <2>4. /\ queueOf'[opened + 1] = q /\ unread'[opened + 1] = waiting[q]
        /\ \A x \in Consumers \ {opened + 1} : queueOf'[x] = queueOf[x] /\ unread'[x] = unread[x]
        /\ \A x \in Queues : waiting'[x] = IF x = q THEN <<>> ELSE waiting[x]
    BY <1>0, <2>2, <2>3 DEF TypeOK
  <2>5. unsettled[opened + 1] = {} /\ returning[opened + 1] = <<>>
    BY <2>2, BusAssumption DEF Wired, TypeOK
  <2>6. UnreadFits(unread)'
    BY <2>1, <2>4 DEF WithinLimits, WaitingFits, UnreadFits
  <2>7. WaitingFits'
    BY <2>4 DEF WithinLimits, WaitingFits
  <2>8. HandedOut'
    BY <2>3, <2>4, <2>5 DEF WithinLimits, HandedOut
  <2>9. Settling'
    <3>1. \A h \in handlers : h.c \in Consumers /\ h.c # opened + 1
      BY HandlerTyped, BusAssumption DEF HandlersFit, TypeOK, Consumers
    <3> QED BY <2>3, <2>4, <3>1 DEF WithinLimits, Settling
  <2> QED BY <1>c, <2>3, <2>6, <2>7, <2>8, <2>9 DEF WithinLimits
<1>2. ASSUME NEW p \in Publishers, PublishDeliver(p) PROVE WithinLimits'
  <2>1. Fits(Head(pub[p])[2], NewDelivery(p))
    BY <1>2, PublishHands, NewFits DEF NewDelivery
  <2>2. WaitingFits' /\ UnreadFits(unread)'
    BY <1>2, <1>d, <2>1, PublishHands, LandsWithin DEF WithinLimits, Listing
  <2> QED BY <1>2, <1>a, <1>b, <1>c, <2>2 DEF PublishDeliver, consumerVars, WithinLimits
<1>3. ASSUME NEW c \in Consumers, Receive(c) PROVE WithinLimits'
  <2>1. PICK d : d = [Head(unread[c]) EXCEPT !.tries = @ + 1]
    OBVIOUS
  <2>2. /\ unread[c] # <<>> /\ unread[c] \in Seq(Delivery)
        /\ unread' = [unread EXCEPT ![c] = Tail(@)]
        /\ unsettled' = [unsettled EXCEPT ![c] = @ \cup {[tag |-> nextTag[c], d |-> d]}]
        /\ handlers' = handlers \cup
             {[c |-> c, tag |-> nextTag[c], d |-> d, verdict |-> "ack",
               step |-> "held", dest |-> NoQueue]}
        /\ UNCHANGED <<queueOf, waiting, returning, delayed>>
    BY <1>0, <1>3, <2>1 DEF Receive, queueVars
  <2>3. Fits(queueOf[c], Head(unread[c])) /\ Head(unread[c]) \in Delivery
    BY <2>2, TailHas DEF WithinLimits, UnreadFits
  <2>4. Out(queueOf[c], d)
    BY <1>0, <2>1, <2>3, NewFits
  <2>5. UnreadFits(unread)'
    <3>1. /\ unread'[c] = Tail(unread[c])
          /\ \A x \in Consumers \ {c} : unread'[x] = unread[x]
      BY <1>0, <2>2
    <3>2. \A i \in DOMAIN unread'[c] : Fits(queueOf[c], unread'[c][i])
      BY <2>2, <3>1, TailHas DEF WithinLimits, UnreadFits
    <3> QED BY <2>2, <3>1, <3>2 DEF WithinLimits, UnreadFits
  <2>6. HandedOut'
    BY <2>2, <2>4 DEF WithinLimits, HandedOut, TypeOK
  <2>7. Settling'
    BY <2>2, <2>4 DEF WithinLimits, Settling
  <2>8. WaitingFits' /\ DelayedFit'
    BY <2>2 DEF WithinLimits, WaitingFits, DelayedFit
  <2> QED BY <2>5, <2>6, <2>7, <2>8 DEF WithinLimits
<1>4. ASSUME NEW c \in Consumers, Cancel(c) PROVE WithinLimits'
  <2>1. /\ waiting' = waiting \/ waiting' = [waiting EXCEPT ![queueOf[c]] = <<>>]
        /\ UNCHANGED <<queueOf, unread, returning, unsettled, handlers, delayed>>
    BY <1>4 DEF Cancel
  <2>2. \A x \in Queues : waiting'[x] = waiting[x] \/ waiting'[x] = <<>>
    BY <1>0, <2>1
  <2>3. WaitingFits'
    BY <2>2 DEF WithinLimits, WaitingFits
  <2>4. UnreadFits(unread)'
    BY <2>1 DEF WithinLimits, UnreadFits
  <2> QED BY <1>a, <1>b, <1>c, <2>1, <2>3, <2>4 DEF WithinLimits
<1>5. ASSUME NEW c \in Consumers, TakeUnsettled(c) PROVE WithinLimits'
  <2>1. PICK n \in Nat : \E g \in Bijection(1..n, unsettled[c]) :
          returning' = [returning EXCEPT ![c] = [i \in 1..n |-> g[i].d]]
    BY <1>5, TakenBack
  <2>2. PICK g \in Bijection(1..n, unsettled[c]) :
          returning' = [returning EXCEPT ![c] = [i \in 1..n |-> g[i].d]]
    BY <2>1
  <2>3. \A i \in 1..n : g[i] \in unsettled[c]
    BY <2>2 DEF Bijection, Injection
  <2>4. /\ returning'[c] = [i \in 1..n |-> g[i].d]
        /\ \A x \in Consumers \ {c} : returning'[x] = returning[x]
    BY <1>0, <2>2
  <2>5. /\ unsettled' = [unsettled EXCEPT ![c] = {}]
        /\ UNCHANGED <<queueOf, waiting, unread, handlers, delayed>>
    BY <1>5 DEF TakeUnsettled, queueVars
  <2>6. \A i \in DOMAIN returning'[c] : Out(queueOf[c], returning'[c][i])
    BY <2>3, <2>4 DEF WithinLimits, HandedOut
  <2>7. HandedOut'
    BY <2>4, <2>5, <2>6 DEF WithinLimits, HandedOut, TypeOK
  <2> QED BY <1>b, <1>c, <1>e, <2>5, <2>7 DEF WithinLimits
<1>6. ASSUME NEW c \in Consumers, RequeueUnsettled(c) PROVE WithinLimits'
  <2>1. returning[c] # <<>> /\ returning' = [returning EXCEPT ![c] = Tail(@)]
        /\ UNCHANGED <<queueOf, unsettled, handlers, delayed>>
    BY <1>6 DEF RequeueUnsettled
  <2>2. Out(queueOf[c], Head(returning[c]))
    BY <1>0, <2>1, TailHas DEF WithinLimits, HandedOut
  <2>3. WaitingFits' /\ UnreadFits(unread)'
    BY <1>6, <1>d, <2>1, <2>2, UnsettledHands, RequeueWithin DEF WithinLimits
  <2>4. /\ returning'[c] = Tail(returning[c])
        /\ \A x \in Consumers \ {c} : returning'[x] = returning[x]
    BY <1>0, <2>1
  <2>5. \A i \in DOMAIN returning'[c] : Out(queueOf[c], returning'[c][i])
    BY <1>0, <2>1, <2>4, TailHas DEF WithinLimits, HandedOut
  <2>6. HandedOut'
    BY <2>1, <2>4, <2>5 DEF WithinLimits, HandedOut
  <2> QED BY <1>b, <1>c, <2>1, <2>3, <2>6 DEF WithinLimits
<1>7. ASSUME NEW c \in Consumers, RequeueUnread(c) PROVE WithinLimits'
  <2>1. PICK v : v = [unread EXCEPT ![c] = Tail(@)]
    OBVIOUS
  <2>2. /\ v \in [Consumers -> Seq(Delivery)] /\ queueOf[c] \in Queues
        /\ Head(unread[c]) \in Delivery /\ Requeue(v, queueOf[c], Head(unread[c]))
        /\ unread[c] # <<>> /\ UNCHANGED <<queueOf, unsettled, returning, handlers, delayed>>
    BY <1>7, <2>1, UnreadHands DEF RequeueUnread
  <2>3. Fits(queueOf[c], Head(unread[c]))
    BY <1>0, <2>2, TailHas DEF WithinLimits, UnreadFits
  <2>4. Out(queueOf[c], Head(unread[c]))
    BY <2>2, <2>3, NewFits
  <2>5. UnreadFits(v)
    <3>1. v[c] = Tail(unread[c]) /\ \A x \in Consumers \ {c} : v[x] = unread[x]
      BY <1>0, <2>1
    <3>2. \A i \in DOMAIN v[c] : Fits(queueOf[c], v[c][i])
      BY <1>0, <2>2, <3>1, TailHas DEF WithinLimits, UnreadFits
    <3> QED BY <3>1, <3>2 DEF WithinLimits, UnreadFits
  <2>6. WaitingFits' /\ UnreadFits(unread)'
    BY <1>d, <2>2, <2>4, <2>5, RequeueWithin DEF WithinLimits
  <2> QED BY <1>a, <1>b, <1>c, <2>2, <2>6 DEF WithinLimits
<1>8. ASSUME NEW h \in handlers, Check(h) PROVE WithinLimits'
  <2>1. h.step = "held" /\ UNCHANGED <<queueOf, waiting, unread, unsettled, returning, delayed>>
    BY <1>8 DEF Check, queueVars, consumerVars
  <2>2. CASE Becomes(h, Over(h))
    BY <1>a, <1>c, <1>e, <1>f, <2>1, <2>2 DEF WithinLimits
  <2>3. ASSUME NEW v \in Verdicts, Becomes(h, [h EXCEPT !.verdict = v, !.step = "checked"])
        PROVE  WithinLimits'
    <3>1. PICK new : new = [h EXCEPT !.verdict = v, !.step = "checked"]
      OBVIOUS
    <3>2. new.c = h.c /\ new.d = h.d /\ new.step = "checked"
      BY <3>1, HandlerTyped DEF Handler
    <3>3. Settling'
      BY <2>1, <2>3, <3>1, <3>2 DEF WithinLimits, Settling, Becomes
    <3> QED BY <1>a, <1>c, <1>e, <2>1, <3>3 DEF WithinLimits
  <2> QED BY <1>8, <2>2, <2>3 DEF Check
<1>9. ASSUME NEW h \in handlers, Abandon(h) \/ SettleTooLate(h) PROVE WithinLimits'
  BY <1>9, <1>a, <1>c, <1>e, <1>f DEF Abandon, SettleTooLate, queueVars, consumerVars, WithinLimits
<1>10. ASSUME NEW h \in handlers, Settle(h) PROVE WithinLimits'
  <2> DEFINE q == queueOf[h.c]
  <2>1. h \in Handler /\ h.d \in Delivery /\ h.c \in Consumers /\ q \in Queues
    BY HandlerTyped DEF HandlersFit, Wired
  <2>2. /\ h.step = "checked"
        /\ unsettled' = [unsettled EXCEPT ![h.c] = {u \in @ : u.tag # h.tag}]
        /\ \/ Destination(h) = NoQueue /\ Becomes(h, Over(h))
           \/ Becomes(h, [h EXCEPT !.d = Onwards(h), !.dest = Destination(h), !.step = "deliver"])
              /\ Destination(h) # NoQueue
        /\ delayed' = delayed \/ delayed' = delayed \cup {[to |-> q, d |-> Afresh(h.d)]}
        /\ UNCHANGED <<queueOf, waiting, unread, returning>>
    BY <1>10 DEF Settle, queueVars
  <2>3. Out(q, h.d) /\ Fits(q, Afresh(h.d))
    BY <2>1, <2>2, Onward DEF WithinLimits, Settling
  <2>4. DelayedFit'
    BY <2>2, <2>3 DEF WithinLimits, DelayedFit
  <2>5. \A x \in Consumers : unsettled'[x] \subseteq unsettled[x]
    BY <2>2 DEF TypeOK
  <2>6. HandedOut'
    BY <2>2, <2>5 DEF WithinLimits, HandedOut
  <2>7. Settling'
    <3>1. CASE Becomes(h, Over(h))
      BY <1>f, <2>2, <3>1
    <3>2. CASE Becomes(h, [h EXCEPT !.d = Onwards(h), !.dest = Destination(h), !.step = "deliver"])
               /\ Destination(h) # NoQueue
      <4>1. PICK new : new = [h EXCEPT !.d = Onwards(h), !.dest = Destination(h), !.step = "deliver"]
        OBVIOUS
      <4>2. new.step = "deliver" /\ new.dest = Destination(h) /\ new.d = Onwards(h)
        BY <2>1, <4>1 DEF Handler
      <4>3. Fits(Destination(h), Onwards(h))
        <5>1. CASE h.verdict = "requeue" /\ ~Spent(q, h.d)
          BY <2>1, <2>3, <5>1, Onward DEF Destination, Onwards
        <5>2. CASE ~(h.verdict = "requeue" /\ ~Spent(q, h.d))
          <6>1. Onwards(h) = Afresh(h.d) /\ Destination(h) \in Queues
            BY <2>1, <3>2, <5>2, BusAssumption DEF Destination, Onwards
          <6> QED BY <2>1, <6>1, Onward
        <5> QED BY <5>1, <5>2
      <4> QED BY <2>2, <3>2, <4>1, <4>2, <4>3 DEF WithinLimits, Settling, Becomes
    <3> QED BY <2>2, <3>1, <3>2
  <2> QED BY <1>e, <2>2, <2>4, <2>6, <2>7 DEF WithinLimits
<1>11. ASSUME NEW h \in handlers, SettleDeliver(h) PROVE WithinLimits'
  <2>1. Fits(h.dest, h.d) /\ Becomes(h, Over(h))
    BY <1>11 DEF SettleDeliver, WithinLimits, Settling
  <2>2. WaitingFits' /\ UnreadFits(unread)'
    BY <1>11, <1>d, <2>1, SettleHands, LandsWithin DEF WithinLimits, Listing
  <2> QED BY <1>11, <1>a, <1>c, <1>f, <2>1, <2>2 DEF SettleDeliver, consumerVars, WithinLimits
<1>12. ASSUME NEW h \in handlers, Release(h) PROVE WithinLimits'
  BY <1>12, <1>a, <1>b, <1>c, <1>e DEF Release, queueVars, consumerVars, WithinLimits
<1>13. ASSUME NEW e \in delayed, DelayOver(e) PROVE WithinLimits'
  <2>1. Fits(e.to, e.d)
    BY DEF WithinLimits, DelayedFit
  <2>2. WaitingFits' /\ UnreadFits(unread)'
    BY <1>13, <1>d, <2>1, DelayHands, LandsWithin DEF WithinLimits, Listing
  <2> QED BY <1>13, <1>a, <1>b, <1>c, <2>2 DEF DelayOver, consumerVars, WithinLimits
<1>14. ASSUME NEW p \in Publishers, NEW m \in Messages, NEW route \in Routes[m], Publish(p, m, route)
       PROVE  WithinLimits'
  BY <1>14, <1>a, <1>b, <1>c, <1>e DEF Publish, queueVars, consumerVars, WithinLimits
<1>15. ASSUME NEW c \in Consumers, StartDraining(c) \/ ReleaseUnread(c) \/ Dropped(c)
       PROVE  WithinLimits'
  BY <1>15, <1>a, <1>b, <1>c, <1>e DEF StartDraining, ReleaseUnread, Dropped, queueVars, WithinLimits
<1>16. ASSUME Close PROVE WithinLimits'
  BY <1>16, <1>a, <1>b, <1>c, <1>e
     DEF Close, MarkClosed, ClearConsumers, queueVars, consumerVars, WithinLimits
<1> QED
  BY <1>1, <1>2, <1>3, <1>4, <1>5, <1>6, <1>7, <1>8, <1>9, <1>10, <1>11, <1>12, <1>13,
     <1>14, <1>15, <1>16 DEF Next, DropConsumer, Handle

\* Nothing is past its limit, whatever is done to it.
LEMMA LimitsInvariant == Spec => [](Base /\ WithinLimits)
<1>1. Init => Base /\ WithinLimits
  <2>1. Init => WithinLimits
    BY DEF Init, WithinLimits, WaitingFits, UnreadFits, HandedOut, Settling, DelayedFit
  <2> QED BY <2>1, BaseInit
<1>2. ASSUME Base /\ WithinLimits, [Next]_vars PROVE (Base /\ WithinLimits)'
  <2>1. CASE Next
    BY <1>2, <2>1, BaseStep, LimitsStep
  <2>2. CASE UNCHANGED vars
    <3>1. WithinLimits'
      BY <1>2, <2>2 DEF vars, WithinLimits, WaitingFits, UnreadFits, HandedOut, Settling, DelayedFit
    <3> QED BY <1>2, <3>1, BaseStep
  <2> QED BY <1>2, <2>1, <2>2
<1> QED BY <1>1, <1>2, PTL DEF Spec

\* A counting queue hands a message out at most limit + 1 times.
THEOREM HandedOutToTheLimit == Spec => []LimitBounds
<1>1. Base /\ WithinLimits => LimitBounds
  <2> SUFFICES ASSUME Base, WithinLimits, NEW q \in Counting, NEW d \in Pending(q)
               PROVE  Fits(q, d)
    BY DEF LimitBounds, Fits
  <2>1. q \in Queues
    BY BusAssumption
  <2>2. /\ waiting[q] \in Seq(Delivery)
        /\ \A c \in Consumers : unread[c] \in Seq(Delivery)
    BY <2>1 DEF Base, TypeOK
  <2>3. CASE d \in ToSet(waiting[q])
    BY <2>1, <2>3 DEF ToSet, WithinLimits, WaitingFits
  <2>4. CASE \E c \in Consumers : queueOf[c] = q /\ d \in ToSet(unread[c])
    BY <2>4 DEF ToSet, WithinLimits, UnreadFits
  <2> QED BY <2>3, <2>4 DEF Pending
<1> QED BY <1>1, LimitsInvariant, PTL
-----------------------------------------------------------------------------
(* One place for each copy. *)

\* The copies in a sequence after an Append and a Tail.
LEMMA AppendCopies ==
  ASSUME NEW s \in Seq(Delivery), NEW d \in Delivery
  PROVE  /\ CopiesOf(Append(s, d)) = CopiesOf(s) \cup {d.copy}
         /\ EachOnce(s) /\ d.copy \notin CopiesOf(s) => EachOnce(Append(s, d))
<1> DEFINE t == Append(s, d)
<1>1. /\ DOMAIN s = 1..Len(s) /\ DOMAIN t = 1..(Len(s) + 1) /\ Len(s) \in Nat
      /\ t[Len(s) + 1] = d /\ \A i \in DOMAIN s : t[i] = s[i]
  OBVIOUS
<1>2. DOMAIN t = DOMAIN s \cup {Len(s) + 1}
  BY <1>1
<1> HIDE DEF t
<1>3. CopiesOf(t) = CopiesOf(s) \cup {d.copy}
  BY <1>1, <1>2 DEF CopiesOf
<1>4. ASSUME EachOnce(s), d.copy \notin CopiesOf(s) PROVE EachOnce(t)
  BY <1>1, <1>2, <1>4 DEF EachOnce, CopiesOf
<1> QED BY <1>3, <1>4 DEF t

LEMMA TailCopies ==
  ASSUME NEW s \in Seq(Delivery), s # <<>>, EachOnce(s)
  PROVE  /\ Head(s).copy \in CopiesOf(s)
         /\ CopiesOf(Tail(s)) = CopiesOf(s) \ {Head(s).copy}
         /\ EachOnce(Tail(s))
<1> DEFINE t == Tail(s)
<1>1. /\ DOMAIN s = 1..Len(s) /\ DOMAIN t = 1..(Len(s) - 1) /\ Len(s) \in Nat \ {0}
      /\ \A i \in DOMAIN t : t[i] = s[i + 1]
      /\ Head(s) = s[1]
  BY EmptySeq
<1>2. /\ 1 \in DOMAIN s
      /\ \A i \in DOMAIN t : i + 1 \in DOMAIN s /\ i + 1 # 1 /\ i \in Nat
      /\ \A i \in DOMAIN s : i # 1 => i - 1 \in DOMAIN t /\ (i - 1) + 1 = i
  BY <1>1
<1> HIDE DEF t
<1>3. \A k : k \in CopiesOf(t) => k \in CopiesOf(s) /\ k # Head(s).copy
  BY <1>1, <1>2 DEF CopiesOf, EachOnce
<1>4. \A k : k \in CopiesOf(s) /\ k # Head(s).copy => k \in CopiesOf(t)
  <2> SUFFICES ASSUME NEW i \in DOMAIN s, s[i].copy # Head(s).copy PROVE s[i].copy \in CopiesOf(t)
    BY DEF CopiesOf
  <2>1. i # 1 /\ i - 1 \in DOMAIN t /\ t[i - 1] = s[i]
    BY <1>1, <1>2
  <2> QED BY <2>1 DEF CopiesOf
<1>5. EachOnce(t)
  <2> SUFFICES ASSUME NEW i \in DOMAIN t, NEW j \in DOMAIN t, t[i].copy = t[j].copy PROVE i = j
    BY DEF EachOnce
  <2>1. i + 1 = j + 1
    BY <1>1, <1>2 DEF EachOnce
  <2> QED BY <1>2, <2>1
<1>6. Head(s).copy \in CopiesOf(s)
  BY <1>1, <1>2 DEF CopiesOf
<1> QED BY <1>3, <1>4, <1>5, <1>6 DEF t

LEMMA TailTargets ==
  ASSUME NEW s \in Seq(Copies), s # <<>>, IsInjective(s)
  PROVE  /\ Head(s) \in ToSet(s)
         /\ ToSet(Tail(s)) = ToSet(s) \ {Head(s)}
         /\ IsInjective(Tail(s))
<1> DEFINE t == Tail(s)
<1>1. /\ DOMAIN s = 1..Len(s) /\ DOMAIN t = 1..(Len(s) - 1) /\ Len(s) \in Nat \ {0}
      /\ \A i \in DOMAIN t : t[i] = s[i + 1]
      /\ Head(s) = s[1]
  BY EmptySeq
<1>2. /\ 1 \in DOMAIN s
      /\ \A i \in DOMAIN t : i + 1 \in DOMAIN s /\ i + 1 # 1 /\ i \in Nat
      /\ \A i \in DOMAIN s : i # 1 => i - 1 \in DOMAIN t /\ (i - 1) + 1 = i
  BY <1>1
<1> HIDE DEF t
<1>3. \A k : k \in ToSet(t) => k \in ToSet(s) /\ k # Head(s)
  BY <1>1, <1>2 DEF ToSet, IsInjective
<1>4. \A k : k \in ToSet(s) /\ k # Head(s) => k \in ToSet(t)
  <2> SUFFICES ASSUME NEW i \in DOMAIN s, s[i] # Head(s) PROVE s[i] \in ToSet(t)
    BY DEF ToSet
  <2>1. i # 1 /\ i - 1 \in DOMAIN t /\ t[i - 1] = s[i]
    BY <1>1, <1>2
  <2> QED BY <2>1 DEF ToSet
<1>5. IsInjective(t)
  <2> SUFFICES ASSUME NEW i \in DOMAIN t, NEW j \in DOMAIN t, t[i] = t[j] PROVE i = j
    BY DEF IsInjective
  <2>1. i + 1 = j + 1
    BY <1>1, <1>2 DEF IsInjective
  <2> QED BY <1>2, <2>1
<1>6. Head(s) \in ToSet(s)
  BY <1>1, <1>2 DEF ToSet
<1> QED BY <1>3, <1>4, <1>5, <1>6 DEF t

Gone == {"acked", "rejected", "lost"}
Deposited(k) == \E h \in handlers : h.step = "deliver" /\ h.d.copy = k
Timed(k) == \E e \in delayed : e.d.copy = k
InHand(k, c) == \E u \in unsettled[c] : u.d.copy = k

\* Whether k, at place a before or not, is there after k0 moved from a0 to b0.
Shifts(now, before, k, a, k0, a0, b0) ==
  now <=> (before /\ ~(k = k0 /\ a = a0)) \/ (k = k0 /\ a = b0)

\* One copy moves.
Relocates(k0, a0, b0) ==
  \A k \in Copies :
    /\ \A p \in Publishers :
         Shifts(k \in ToSet(pub'[p]), k \in ToSet(pub[p]), k, <<"publisher", p>>, k0, a0, b0)
    /\ \A q \in Queues :
         Shifts(k \in CopiesOf(waiting'[q]), k \in CopiesOf(waiting[q]), k, <<"waiting", q>>, k0, a0, b0)
    /\ \A c \in Consumers :
         /\ Shifts(k \in CopiesOf(unread'[c]), k \in CopiesOf(unread[c]), k, <<"unread", c>>, k0, a0, b0)
         /\ Shifts(InHand(k, c)', InHand(k, c), k, <<"unsettled", c>>, k0, a0, b0)
         /\ Shifts(k \in CopiesOf(returning'[c]), k \in CopiesOf(returning[c]),
                   k, <<"returning", c>>, k0, a0, b0)
    /\ Shifts(Deposited(k)', Deposited(k), k, <<"settling", 0>>, k0, a0, b0)
    /\ Shifts(Timed(k)', Timed(k), k, <<"delayed", 0>>, k0, a0, b0)
    /\ Shifts(fate'[k] \in Gone, fate[k] \in Gone, k, <<"gone", 0>>, k0, a0, b0)
    /\ fate'[k] = "unsent" <=> fate[k] = "unsent"

\* No copy moves.
Rests ==
  \A k \in Copies :
    /\ \A p \in Publishers : k \in ToSet(pub'[p]) <=> k \in ToSet(pub[p])
    /\ \A q \in Queues : k \in CopiesOf(waiting'[q]) <=> k \in CopiesOf(waiting[q])
    /\ \A c \in Consumers :
         /\ k \in CopiesOf(unread'[c]) <=> k \in CopiesOf(unread[c])
         /\ InHand(k, c)' <=> InHand(k, c)
         /\ k \in CopiesOf(returning'[c]) <=> k \in CopiesOf(returning[c])
    /\ Deposited(k)' <=> Deposited(k)
    /\ Timed(k)' <=> Timed(k)
    /\ fate'[k] \in Gone <=> fate[k] \in Gone
    /\ fate'[k] = "unsent" <=> fate[k] = "unsent"

\* The kinds of places, one by one.
LEMMA AtKinds ==
  ASSUME NEW k
  PROVE  /\ \A p \in Publishers : At(k, <<"publisher", p>>) <=> k \in ToSet(pub[p])
         /\ \A q \in Queues : At(k, <<"waiting", q>>) <=> k \in CopiesOf(waiting[q])
         /\ \A c \in Consumers : At(k, <<"unread", c>>) <=> k \in CopiesOf(unread[c])
         /\ \A c \in Consumers : At(k, <<"unsettled", c>>) <=> InHand(k, c)
         /\ \A c \in Consumers : At(k, <<"returning", c>>) <=> k \in CopiesOf(returning[c])
         /\ At(k, <<"settling", 0>>) <=> Deposited(k)
         /\ At(k, <<"delayed", 0>>) <=> Timed(k)
         /\ At(k, <<"gone", 0>>) <=> fate[k] \in Gone
BY DEF At, Deposited, Timed, InHand, Gone

LEMMA AtKindsNext ==
  ASSUME NEW k
  PROVE  /\ \A p \in Publishers : At(k, <<"publisher", p>>)' <=> k \in ToSet(pub'[p])
         /\ \A q \in Queues : At(k, <<"waiting", q>>)' <=> k \in CopiesOf(waiting'[q])
         /\ \A c \in Consumers : At(k, <<"unread", c>>)' <=> k \in CopiesOf(unread'[c])
         /\ \A c \in Consumers : At(k, <<"unsettled", c>>)' <=> InHand(k, c)'
         /\ \A c \in Consumers : At(k, <<"returning", c>>)' <=> k \in CopiesOf(returning'[c])
         /\ At(k, <<"settling", 0>>)' <=> Deposited(k)'
         /\ At(k, <<"delayed", 0>>)' <=> Timed(k)'
         /\ At(k, <<"gone", 0>>)' <=> fate'[k] \in Gone
BY DEF At, Deposited, Timed, InHand, Gone

LEMMA PlaceKinds ==
  ASSUME NEW a
  PROVE  a \in Places <=>
           \/ \E p \in Publishers : a = <<"publisher", p>>
           \/ \E q \in Queues : a = <<"waiting", q>>
           \/ \E c \in Consumers : \/ a = <<"unread", c>> \/ a = <<"unsettled", c>>
                                   \/ a = <<"returning", c>>
           \/ a = <<"settling", 0>> \/ a = <<"delayed", 0>> \/ a = <<"gone", 0>>
BY DEF Places

LEMMA OneMoves ==
  ASSUME OnePlace, NEW k0 \in Copies, NEW a0 \in Places, NEW b0 \in Places,
         At(k0, a0), Relocates(k0, a0, b0)
  PROVE  OnePlace'
<1>1. \A k \in Copies : \A a \in Places : Shifts(At(k, a)', At(k, a), k, a, k0, a0, b0)
  <2> SUFFICES ASSUME NEW k \in Copies, NEW a \in Places
               PROVE  Shifts(At(k, a)', At(k, a), k, a, k0, a0, b0)
    OBVIOUS
  <2>1. CASE \E p \in Publishers : a = <<"publisher", p>>
    BY <2>1, AtKinds, AtKindsNext DEF Relocates, Shifts
  <2>2. CASE \E q \in Queues : a = <<"waiting", q>>
    BY <2>2, AtKinds, AtKindsNext DEF Relocates, Shifts
  <2>3. CASE \E c \in Consumers : a = <<"unread", c>>
    BY <2>3, AtKinds, AtKindsNext DEF Relocates, Shifts
  <2>4. CASE \E c \in Consumers : a = <<"unsettled", c>>
    BY <2>4, AtKinds, AtKindsNext DEF Relocates, Shifts
  <2>5. CASE \E c \in Consumers : a = <<"returning", c>>
    BY <2>5, AtKinds, AtKindsNext DEF Relocates, Shifts
  <2>6. CASE a = <<"settling", 0>> \/ a = <<"delayed", 0>> \/ a = <<"gone", 0>>
    BY <2>6, AtKinds, AtKindsNext DEF Relocates, Shifts
  <2> QED BY <2>1, <2>2, <2>3, <2>4, <2>5, <2>6, PlaceKinds
<1>2. \A k \in Copies : fate'[k] = "unsent" <=> fate[k] = "unsent"
  BY DEF Relocates
<1>3. {k \in Copies : fate'[k] # "unsent"} = {k \in Copies : fate[k] # "unsent"}
  BY <1>2
<1>4. \A a \in Places : At(k0, a) => a = a0
  BY DEF OnePlace
<1>5. \A a \in Places : At(k0, a)' <=> a = b0
  BY <1>1, <1>4 DEF Shifts
<1>6. \A k \in Copies \ {k0} : \A a \in Places : At(k, a)' <=> At(k, a)
  BY <1>1 DEF Shifts
<1>7. \A k \in Copies : fate'[k] # "unsent" <=> \E a \in Places : At(k, a)'
  <2>1. fate[k0] # "unsent"
    BY DEF OnePlace
  <2> QED BY <1>2, <1>5, <1>6, <2>1 DEF OnePlace
<1>8. \A k \in Copies : \A a, b \in Places : At(k, a)' /\ At(k, b)' => a = b
  BY <1>5, <1>6 DEF OnePlace
<1> QED BY <1>3, <1>7, <1>8 DEF OnePlace, Places

LEMMA NoneMoves ==
  ASSUME OnePlace, Rests
  PROVE  OnePlace'
<1>1. \A k \in Copies : \A a \in Places : At(k, a)' <=> At(k, a)
  <2> SUFFICES ASSUME NEW k \in Copies, NEW a \in Places
               PROVE  At(k, a)' <=> At(k, a)
    OBVIOUS
  <2>1. CASE \/ \E p \in Publishers : a = <<"publisher", p>>
             \/ \E q \in Queues : a = <<"waiting", q>>
    BY <2>1, AtKinds, AtKindsNext DEF Rests
  <2>2. CASE \E c \in Consumers : \/ a = <<"unread", c>> \/ a = <<"unsettled", c>>
                                  \/ a = <<"returning", c>>
    BY <2>2, AtKinds, AtKindsNext DEF Rests
  <2>3. CASE a = <<"settling", 0>> \/ a = <<"delayed", 0>> \/ a = <<"gone", 0>>
    BY <2>3, AtKinds, AtKindsNext DEF Rests
  <2> QED BY <2>1, <2>2, <2>3, PlaceKinds
<1>2. \A k \in Copies : fate'[k] # "unsent" <=> fate[k] # "unsent"
  BY DEF Rests
<1>3. {k \in Copies : fate'[k] # "unsent"} = {k \in Copies : fate[k] # "unsent"}
  BY <1>2
<1>4. \A k \in Copies : fate'[k] # "unsent" <=> \E a \in Places : At(k, a)'
  BY <1>1, <1>2 DEF OnePlace
<1>5. \A k \in Copies : \A a, b \in Places : At(k, a)' /\ At(k, b)' => a = b
  BY <1>1 DEF OnePlace
<1> QED BY <1>3, <1>4, <1>5 DEF OnePlace, Places

\* What lands leaves k0 at b and every other copy where it is in the channels u.
LandsAt(u, k0, b) ==
  /\ b \in Places
  /\ \A p \in Publishers : b # <<"publisher", p>>
  /\ \A c \in Consumers : b # <<"unsettled", c>> /\ b # <<"returning", c>>
  /\ b # <<"settling", 0>> /\ b # <<"delayed", 0>>
  /\ \A k \in Copies :
       /\ \A q \in Queues :
            k \in CopiesOf(waiting'[q]) <=>
              k \in CopiesOf(waiting[q]) \/ (k = k0 /\ <<"waiting", q>> = b)
       /\ \A c \in Consumers :
            k \in CopiesOf(unread'[c]) <=> k \in CopiesOf(u[c]) \/ (k = k0 /\ <<"unread", c>> = b)
       /\ fate'[k] \in Gone <=> fate[k] \in Gone \/ (k = k0 /\ <<"gone", 0>> = b)
       /\ fate'[k] = "unsent" <=> fate[k] = "unsent"
  /\ \A q \in Queues : EachOnce(waiting'[q])
  /\ \A c \in Consumers : EachOnce(unread'[c])

\* A copy that is on its way: nobody else has it.
Afoot(u, k0) ==
  /\ k0 \in Copies /\ fate[k0] # "unsent" /\ fate[k0] \notin Gone
  /\ \A q \in Queues : k0 \notin CopiesOf(waiting[q]) /\ EachOnce(waiting[q])
  /\ \A c \in Consumers : k0 \notin CopiesOf(u[c]) /\ EachOnce(u[c])

LEMMA GoesAway ==
  ASSUME TypeOK, NEW u, NEW k0, Afoot(u, k0), NEW f \in {"lost", "rejected"},
         fate' = [fate EXCEPT ![k0] = f], unread' = u, waiting' = waiting
  PROVE  LandsAt(u, k0, <<"gone", 0>>)
<1>1. \A k \in Copies : fate'[k] = IF k = k0 THEN f ELSE fate[k]
  BY DEF TypeOK
<1>2. <<"gone", 0>> \in Places
  BY PlaceKinds
<1>3. \A k \in Copies : /\ fate'[k] \in Gone <=> fate[k] \in Gone \/ k = k0
                        /\ fate'[k] = "unsent" <=> fate[k] = "unsent"
  BY <1>1 DEF Afoot, Gone
<1> QED BY <1>2, <1>3 DEF LandsAt, Afoot

LEMMA LandsOnce ==
  ASSUME TypeOK, NEW u \in [Consumers -> Seq(Delivery)], NEW q \in Queues,
         NEW d \in Delivery, Lands(u, q, d), Afoot(u, d.copy)
  PROVE  \E b : LandsAt(u, d.copy, b)
<1>1. CASE \E c \in ConsumersOf(q) :
             /\ unread' = [u EXCEPT ![c] = Append(@, d)] /\ UNCHANGED <<waiting, fate>>
  <2>1. PICK c \in ConsumersOf(q) :
             /\ unread' = [u EXCEPT ![c] = Append(@, d)] /\ UNCHANGED <<waiting, fate>>
    BY <1>1
  <2>2. c \in Consumers
    BY ListedAreConsumers DEF ConsumersOf
  <2>3. unread'[c] = Append(u[c], d) /\ \A x \in Consumers \ {c} : unread'[x] = u[x]
    BY <2>1, <2>2
  <2>4. CopiesOf(unread'[c]) = CopiesOf(u[c]) \cup {d.copy} /\ EachOnce(unread'[c])
    BY <2>2, <2>3, AppendCopies DEF Afoot
  <2>5. <<"unread", c>> \in Places
    BY <2>2, PlaceKinds
  <2>6. LandsAt(u, d.copy, <<"unread", c>>)
    BY <2>1, <2>2, <2>3, <2>4, <2>5 DEF LandsAt, Afoot
  <2> QED BY <2>6
<1>2. CASE waiting' = [waiting EXCEPT ![q] = Append(@, d)] /\ unread' = u /\ UNCHANGED fate
  <2>1. /\ waiting'[q] = Append(waiting[q], d) /\ waiting[q] \in Seq(Delivery)
        /\ \A x \in Queues \ {q} : waiting'[x] = waiting[x]
    BY <1>2 DEF TypeOK
  <2>2. CopiesOf(waiting'[q]) = CopiesOf(waiting[q]) \cup {d.copy} /\ EachOnce(waiting'[q])
    BY <2>1, AppendCopies DEF Afoot
  <2>3. <<"waiting", q>> \in Places
    BY PlaceKinds
  <2>4. LandsAt(u, d.copy, <<"waiting", q>>)
    BY <1>2, <2>1, <2>2, <2>3 DEF LandsAt, Afoot
  <2> QED BY <2>4
<1>3. CASE fate' = [fate EXCEPT ![d.copy] = "lost"] /\ unread' = u /\ UNCHANGED waiting
  BY <1>3, GoesAway
<1> QED BY <1>1, <1>2, <1>3 DEF Lands

LEMMA RequeueOnce ==
  ASSUME TypeOK, NEW u \in [Consumers -> Seq(Delivery)], NEW q \in Queues,
         NEW d \in Delivery, Requeue(u, q, d), Afoot(u, d.copy)
  PROVE  \E b : LandsAt(u, d.copy, b)
<1>1. /\ Returned(q, d) \in Delivery /\ Returned(q, d).copy = d.copy
      /\ Afresh(d) \in Delivery /\ Afresh(d).copy = d.copy
  BY Onward
<1>2. CASE Lands(u, q, Returned(q, d))
  BY <1>1, <1>2, LandsOnce
<1>3. CASE DeadLetterTo[q] \in Queues /\ Lands(u, DeadLetterTo[q], Afresh(d))
  BY <1>1, <1>3, LandsOnce
<1>4. CASE fate' = [fate EXCEPT ![d.copy] = "rejected"] /\ unread' = u /\ UNCHANGED waiting
  BY <1>4, GoesAway
<1> QED BY <1>2, <1>3, <1>4, RequeueLands

\* The places themselves.
LEMMA ArePlaces ==
  /\ \A p \in Publishers : <<"publisher", p>> \in Places
  /\ \A q \in Queues : <<"waiting", q>> \in Places
  /\ \A c \in Consumers :
       <<"unread", c>> \in Places /\ <<"unsettled", c>> \in Places /\ <<"returning", c>> \in Places
  /\ <<"settling", 0>> \in Places /\ <<"delayed", 0>> \in Places /\ <<"gone", 0>> \in Places
BY PlaceKinds

\* A copy at a place is at no other, and was sent.
LEMMA OnlyThere ==
  ASSUME OnePlace, NEW k \in Copies, NEW a \in Places, At(k, a)
  PROVE  /\ fate[k] # "unsent"
         /\ \A p \in Publishers : a # <<"publisher", p>> => k \notin ToSet(pub[p])
         /\ \A q \in Queues : a # <<"waiting", q>> => k \notin CopiesOf(waiting[q])
         /\ \A c \in Consumers :
              /\ a # <<"unread", c>> => k \notin CopiesOf(unread[c])
              /\ a # <<"unsettled", c>> => ~InHand(k, c)
              /\ a # <<"returning", c>> => k \notin CopiesOf(returning[c])
         /\ a # <<"settling", 0>> => ~Deposited(k)
         /\ a # <<"delayed", 0>> => ~Timed(k)
         /\ a # <<"gone", 0>> => fate[k] \notin Gone
<1>1. fate[k] # "unsent" /\ \A b \in Places : At(k, b) => b = a
  BY DEF OnePlace
<1> QED BY <1>1, ArePlaces, AtKinds

\* A delivery taken from a place lands: the copy moves from there to where it lands.
LEMMA FromThere ==
  ASSUME OnePlace, NEW k0 \in Copies, NEW a \in Places, At(k0, a),
         NEW b, NEW u, LandsAt(u, k0, b),
         \A k \in Copies :
           /\ \A p \in Publishers :
                k \in ToSet(pub'[p]) <=> k \in ToSet(pub[p]) /\ ~(k = k0 /\ a = <<"publisher", p>>)
           /\ \A c \in Consumers :
                /\ a # <<"unsettled", c>>
                /\ k \in CopiesOf(u[c]) <=>
                     k \in CopiesOf(unread[c]) /\ ~(k = k0 /\ a = <<"unread", c>>)
                /\ InHand(k, c)' <=> InHand(k, c)
                /\ k \in CopiesOf(returning'[c]) <=>
                     k \in CopiesOf(returning[c]) /\ ~(k = k0 /\ a = <<"returning", c>>)
           /\ \A q \in Queues : a # <<"waiting", q>>
           /\ a # <<"gone", 0>>
           /\ Deposited(k)' <=> Deposited(k) /\ ~(k = k0 /\ a = <<"settling", 0>>)
           /\ Timed(k)' <=> Timed(k) /\ ~(k = k0 /\ a = <<"delayed", 0>>)
  PROVE  OnePlace'
<1>1. b \in Places
  BY DEF LandsAt
<1>2. Relocates(k0, a, b)
  <2> SUFFICES ASSUME NEW k \in Copies
               PROVE
    /\ \A p \in Publishers :
         Shifts(k \in ToSet(pub'[p]), k \in ToSet(pub[p]), k, <<"publisher", p>>, k0, a, b)
    /\ \A q \in Queues :
         Shifts(k \in CopiesOf(waiting'[q]), k \in CopiesOf(waiting[q]), k, <<"waiting", q>>, k0, a, b)
    /\ \A c \in Consumers :
         /\ Shifts(k \in CopiesOf(unread'[c]), k \in CopiesOf(unread[c]), k, <<"unread", c>>, k0, a, b)
         /\ Shifts(InHand(k, c)', InHand(k, c), k, <<"unsettled", c>>, k0, a, b)
         /\ Shifts(k \in CopiesOf(returning'[c]), k \in CopiesOf(returning[c]),
                   k, <<"returning", c>>, k0, a, b)
    /\ Shifts(Deposited(k)', Deposited(k), k, <<"settling", 0>>, k0, a, b)
    /\ Shifts(Timed(k)', Timed(k), k, <<"delayed", 0>>, k0, a, b)
    /\ Shifts(fate'[k] \in Gone, fate[k] \in Gone, k, <<"gone", 0>>, k0, a, b)
    /\ fate'[k] = "unsent" <=> fate[k] = "unsent"
    BY DEF Relocates
  <2>1. \A p \in Publishers :
         Shifts(k \in ToSet(pub'[p]), k \in ToSet(pub[p]), k, <<"publisher", p>>, k0, a, b)
    BY DEF Shifts, LandsAt
  <2>2. \A q \in Queues :
         Shifts(k \in CopiesOf(waiting'[q]), k \in CopiesOf(waiting[q]), k, <<"waiting", q>>, k0, a, b)
    BY DEF Shifts, LandsAt
  <2>3. \A c \in Consumers :
         /\ Shifts(k \in CopiesOf(unread'[c]), k \in CopiesOf(unread[c]), k, <<"unread", c>>, k0, a, b)
         /\ Shifts(InHand(k, c)', InHand(k, c), k, <<"unsettled", c>>, k0, a, b)
         /\ Shifts(k \in CopiesOf(returning'[c]), k \in CopiesOf(returning[c]),
                   k, <<"returning", c>>, k0, a, b)
    <3> SUFFICES ASSUME NEW c \in Consumers
                 PROVE
      /\ Shifts(k \in CopiesOf(unread'[c]), k \in CopiesOf(unread[c]), k, <<"unread", c>>, k0, a, b)
      /\ Shifts(InHand(k, c)', InHand(k, c), k, <<"unsettled", c>>, k0, a, b)
      /\ Shifts(k \in CopiesOf(returning'[c]), k \in CopiesOf(returning[c]),
                k, <<"returning", c>>, k0, a, b)
      OBVIOUS
    <3>1. Shifts(k \in CopiesOf(unread'[c]), k \in CopiesOf(unread[c]), k, <<"unread", c>>, k0, a, b)
      BY DEF Shifts, LandsAt
    <3>2. Shifts(InHand(k, c)', InHand(k, c), k, <<"unsettled", c>>, k0, a, b)
      BY DEF Shifts, LandsAt
    <3>3. Shifts(k \in CopiesOf(returning'[c]), k \in CopiesOf(returning[c]),
                 k, <<"returning", c>>, k0, a, b)
      BY DEF Shifts, LandsAt
    <3> QED BY <3>1, <3>2, <3>3
  <2>4. /\ Shifts(Deposited(k)', Deposited(k), k, <<"settling", 0>>, k0, a, b)
        /\ Shifts(Timed(k)', Timed(k), k, <<"delayed", 0>>, k0, a, b)
        /\ Shifts(fate'[k] \in Gone, fate[k] \in Gone, k, <<"gone", 0>>, k0, a, b)
        /\ fate'[k] = "unsent" <=> fate[k] = "unsent"
    BY DEF Shifts, LandsAt
  <2> QED BY <2>1, <2>2, <2>3, <2>4
<1> QED BY <1>1, <1>2, OneMoves

\* A delivery on its way from a place other than the channels and the queues.
LEMMA OnItsWay ==
  ASSUME OnePlace, OnceThere, NEW k \in Copies, NEW a \in Places, At(k, a),
         \A q \in Queues : a # <<"waiting", q>>, \A c \in Consumers : a # <<"unread", c>>,
         a # <<"gone", 0>>
  PROVE  Afoot(unread, k)
BY OnlyThere DEF Afoot, OnceThere, OnceWaiting, OnceUnread

\* What lands is at its new place once.
LEMMA OnceLanded ==
  ASSUME NEW u, NEW k, NEW b, LandsAt(u, k, b)
  PROVE  OnceWaiting' /\ OnceUnread'
BY DEF LandsAt, OnceWaiting, OnceUnread

LEMMA PublishPlace ==
  ASSUME Base, OnePlace, OnceThere, NEW p \in Publishers, PublishDeliver(p)
  PROVE  OnePlace' /\ OnceThere'
<1> USE DEF Base
<1> DEFINE a == <<"publisher", p>>
<1>1. PICK k0 : k0 = Head(pub[p])
  OBVIOUS
<1>2. /\ pub[p] # <<>> /\ pub[p] \in Seq(Copies) /\ pub' = [pub EXCEPT ![p] = Tail(@)]
      /\ UNCHANGED <<handlers, delayed, unsettled, returning>>
  BY DEF PublishDeliver, TypeOK, consumerVars
<1>3. /\ k0 \in ToSet(pub[p]) /\ ToSet(Tail(pub[p])) = ToSet(pub[p]) \ {k0}
      /\ IsInjective(Tail(pub[p]))
  BY <1>1, <1>2, TailTargets DEF OnceThere, OncePublished
<1>4. /\ pub'[p] = Tail(pub[p]) /\ \A x \in Publishers \ {p} : pub'[x] = pub[x]
  BY <1>2 DEF TypeOK
<1>5. k0 \in Copies /\ a \in Places /\ At(k0, a)
  BY <1>1, <1>3, AtKinds, ArePlaces, PublishHands
<1>6. \A x \in Publishers : x # p => k0 \notin ToSet(pub[x])
  BY <1>5, OnlyThere
<1>7. Afoot(unread, k0)
  BY <1>5, OnItsWay
<1>8. PICK b : LandsAt(unread, k0, b)
  <2>1. NewDelivery(p).copy = k0
    BY <1>1 DEF NewDelivery
  <2> QED BY <1>7, <2>1, PublishHands, LandsOnce
<1>9. \A k \in Copies : \A x \in Publishers :
        k \in ToSet(pub'[x]) <=> k \in ToSet(pub[x]) /\ ~(k = k0 /\ a = <<"publisher", x>>)
  BY <1>3, <1>4, <1>6
<1>10. \A k \in Copies :
        /\ \A c \in Consumers : /\ InHand(k, c)' <=> InHand(k, c)
                                /\ k \in CopiesOf(returning'[c]) <=> k \in CopiesOf(returning[c])
        /\ Deposited(k)' <=> Deposited(k)
        /\ Timed(k)' <=> Timed(k)
  BY <1>2 DEF InHand, Deposited, Timed
<1>11. OnePlace'
  BY <1>5, <1>8, <1>9, <1>10, FromThere
<1>12. OncePublished'
  BY <1>3, <1>4 DEF OnceThere, OncePublished
<1>13. OnceReturning' /\ OnceInHand' /\ OnceSettling' /\ OnceDelayed'
  BY <1>2 DEF OnceThere, OnceReturning, OnceInHand, OnceSettling, OnceDelayed
<1> QED BY <1>8, <1>11, <1>12, <1>13, OnceLanded DEF OnceThere

LEMMA DelayPlace ==
  ASSUME Base, OnePlace, OnceThere, NEW e \in delayed, DelayOver(e)
  PROVE  OnePlace' /\ OnceThere'
<1> USE DEF Base
<1> DEFINE a == <<"delayed", 0>>
<1>1. PICK k0 : k0 = e.d.copy
  OBVIOUS
<1>2. delayed' = delayed \ {e} /\ UNCHANGED <<handlers, pub, unsettled, returning>>
  BY DEF DelayOver, consumerVars
<1>3. k0 \in Copies
  BY <1>1 DEF TypeOK, Delivery
<1>4. Timed(k0)
  BY <1>1 DEF Timed
<1>5. a \in Places /\ At(k0, a)
  BY <1>4, AtKinds, ArePlaces
<1>6. Afoot(unread, k0)
  BY <1>3, <1>5, OnItsWay
<1>7. PICK b : LandsAt(unread, k0, b)
  BY <1>1, <1>6, DelayHands, LandsOnce
<1>8. \A k \in Copies : Timed(k)' <=> Timed(k) /\ k # k0
  BY <1>1, <1>2 DEF Timed, OnceThere, OnceDelayed
<1>9. \A k \in Copies :
        /\ \A c \in Consumers : /\ InHand(k, c)' <=> InHand(k, c)
                                /\ k \in CopiesOf(returning'[c]) <=> k \in CopiesOf(returning[c])
        /\ Deposited(k)' <=> Deposited(k)
  BY <1>2 DEF InHand, Deposited
<1>10. OnePlace'
  BY <1>2, <1>3, <1>5, <1>7, <1>8, <1>9, FromThere
<1>11. OncePublished' /\ OnceReturning' /\ OnceInHand' /\ OnceSettling' /\ OnceDelayed'
  BY <1>2 DEF OnceThere, OncePublished, OnceReturning, OnceInHand, OnceSettling, OnceDelayed
<1> QED BY <1>7, <1>10, <1>11, OnceLanded DEF OnceThere

\* A settlement that is over deposits nothing.
LEMMA OverDeposits ==
  ASSUME TypeOK, HandlersFit, NEW h \in handlers, Becomes(h, Over(h))
  PROVE  /\ \A k : Deposited(k)' <=> \E g \in handlers \ {h} : g.step = "deliver" /\ g.d.copy = k
         /\ OnceSettling => OnceSettling'
<1>1. Over(h).step = "done"
  BY HandlerTyped DEF Over, Handler
<1> QED BY <1>1 DEF Becomes, Deposited, OnceSettling

LEMMA SettlePlace ==
  ASSUME Base, OnePlace, OnceThere, NEW h \in handlers, SettleDeliver(h)
  PROVE  OnePlace' /\ OnceThere'
<1> USE DEF Base
<1> DEFINE a == <<"settling", 0>>
<1>1. PICK k0 : k0 = h.d.copy
  OBVIOUS
<1>2. /\ Becomes(h, Over(h)) /\ h.step = "deliver"
      /\ UNCHANGED <<delayed, pub, unsettled, returning>>
  BY DEF SettleDeliver, consumerVars
<1>3. k0 \in Copies
  BY <1>1, HandlerTyped
<1>4. Deposited(k0)
  BY <1>1, <1>2 DEF Deposited
<1>5. a \in Places /\ At(k0, a)
  BY <1>4, AtKinds, ArePlaces
<1>6. Afoot(unread, k0)
  BY <1>3, <1>5, OnItsWay
<1>7. PICK b : LandsAt(unread, k0, b)
  BY <1>1, <1>6, SettleHands, LandsOnce
<1>8. \A k \in Copies : Deposited(k)' <=> Deposited(k) /\ k # k0
  <2>1. \A k : Deposited(k)' <=> \E g \in handlers \ {h} : g.step = "deliver" /\ g.d.copy = k
    BY <1>2, OverDeposits
  <2> QED BY <1>1, <1>2, <2>1 DEF Deposited, OnceThere, OnceSettling
<1>9. \A k \in Copies :
        /\ \A c \in Consumers : /\ InHand(k, c)' <=> InHand(k, c)
                                /\ k \in CopiesOf(returning'[c]) <=> k \in CopiesOf(returning[c])
        /\ Timed(k)' <=> Timed(k)
  BY <1>2 DEF InHand, Timed
<1>10. OnePlace'
  BY <1>2, <1>3, <1>5, <1>7, <1>8, <1>9, FromThere
<1>11. OncePublished' /\ OnceReturning' /\ OnceInHand' /\ OnceDelayed'
  BY <1>2 DEF OnceThere, OncePublished, OnceReturning, OnceInHand, OnceDelayed
<1>12. OnceSettling'
  BY <1>2, OverDeposits DEF OnceThere
<1> QED BY <1>7, <1>10, <1>11, <1>12, OnceLanded DEF OnceThere

LEMMA UnsettledPlace ==
  ASSUME Base, OnePlace, OnceThere, NEW c \in Consumers, RequeueUnsettled(c)
  PROVE  OnePlace' /\ OnceThere'
<1> USE DEF Base
<1> DEFINE a == <<"returning", c>>
<1>1. PICK k0 : k0 = Head(returning[c]).copy
  OBVIOUS
<1>2. /\ returning[c] # <<>> /\ returning[c] \in Seq(Delivery)
      /\ returning' = [returning EXCEPT ![c] = Tail(@)]
      /\ UNCHANGED <<handlers, delayed, pub, unsettled>>
  BY DEF RequeueUnsettled, TypeOK
<1>3. /\ k0 \in CopiesOf(returning[c])
      /\ CopiesOf(Tail(returning[c])) = CopiesOf(returning[c]) \ {k0}
      /\ EachOnce(Tail(returning[c]))
  BY <1>1, <1>2, TailCopies DEF OnceThere, OnceReturning
<1>4. /\ returning'[c] = Tail(returning[c])
      /\ \A x \in Consumers \ {c} : returning'[x] = returning[x]
  BY <1>2 DEF TypeOK
<1>5. k0 \in Copies /\ a \in Places /\ At(k0, a)
  BY <1>1, <1>3, AtKinds, ArePlaces, UnsettledHands DEF Delivery
<1>6. \A x \in Consumers : x # c => k0 \notin CopiesOf(returning[x])
  BY <1>5, OnlyThere
<1>7. Afoot(unread, k0)
  BY <1>5, OnItsWay
<1>8. PICK b : LandsAt(unread, k0, b)
  BY <1>1, <1>7, UnsettledHands, RequeueOnce
<1>9. \A k \in Copies : \A x \in Consumers :
        k \in CopiesOf(returning'[x]) <=> k \in CopiesOf(returning[x]) /\ ~(k = k0 /\ a = <<"returning", x>>)
  BY <1>3, <1>4, <1>6
<1>10. \A k \in Copies :
        /\ \A x \in Consumers : InHand(k, x)' <=> InHand(k, x)
        /\ Deposited(k)' <=> Deposited(k)
        /\ Timed(k)' <=> Timed(k)
  BY <1>2 DEF InHand, Deposited, Timed
<1>11. OnePlace'
  BY <1>2, <1>5, <1>8, <1>9, <1>10, FromThere
<1>12. OnceReturning'
  BY <1>3, <1>4 DEF OnceThere, OnceReturning
<1>13. OncePublished' /\ OnceInHand' /\ OnceSettling' /\ OnceDelayed'
  BY <1>2 DEF OnceThere, OncePublished, OnceInHand, OnceSettling, OnceDelayed
<1> QED BY <1>8, <1>11, <1>12, <1>13, OnceLanded DEF OnceThere

LEMMA UnreadPlace ==
  ASSUME Base, OnePlace, OnceThere, NEW c \in Consumers, RequeueUnread(c)
  PROVE  OnePlace' /\ OnceThere'
<1> USE DEF Base
<1> DEFINE a == <<"unread", c>>
<1>1. PICK k0 : k0 = Head(unread[c]).copy
  OBVIOUS
<1>2. PICK u : u = [unread EXCEPT ![c] = Tail(@)]
  OBVIOUS
<1>3. /\ unread[c] # <<>> /\ unread[c] \in Seq(Delivery)
      /\ UNCHANGED <<handlers, delayed, pub, unsettled, returning>>
  BY DEF RequeueUnread, TypeOK
<1>4. /\ k0 \in CopiesOf(unread[c])
      /\ CopiesOf(Tail(unread[c])) = CopiesOf(unread[c]) \ {k0}
      /\ EachOnce(Tail(unread[c]))
  BY <1>1, <1>3, TailCopies DEF OnceThere, OnceUnread
<1>5. u[c] = Tail(unread[c]) /\ \A x \in Consumers \ {c} : u[x] = unread[x]
  BY <1>2 DEF TypeOK
<1>6. /\ Head(unread[c]) \in Delivery /\ queueOf[c] \in Queues
      /\ u \in [Consumers -> Seq(Delivery)]
      /\ Requeue(u, queueOf[c], Head(unread[c]))
  BY <1>2, UnreadHands
<1>7. k0 \in Copies /\ a \in Places /\ At(k0, a)
  BY <1>1, <1>4, <1>6, AtKinds, ArePlaces DEF Delivery
<1>8. /\ fate[k0] # "unsent" /\ fate[k0] \notin Gone
      /\ \A q \in Queues : k0 \notin CopiesOf(waiting[q])
      /\ \A x \in Consumers : x # c => k0 \notin CopiesOf(unread[x])
  BY <1>7, OnlyThere
<1>9. \A x \in Consumers : k0 \notin CopiesOf(u[x]) /\ EachOnce(u[x])
  BY <1>4, <1>5, <1>8 DEF OnceThere, OnceUnread
<1>10. Afoot(u, k0)
  BY <1>7, <1>8, <1>9 DEF Afoot, OnceThere, OnceWaiting
<1>11. PICK b : LandsAt(u, k0, b)
  BY <1>1, <1>6, <1>10, RequeueOnce
<1>12. \A k \in Copies : \A x \in Consumers :
         k \in CopiesOf(u[x]) <=> k \in CopiesOf(unread[x]) /\ ~(k = k0 /\ a = <<"unread", x>>)
  BY <1>4, <1>5, <1>8
<1>13. \A k \in Copies :
        /\ \A x \in Consumers : InHand(k, x)' <=> InHand(k, x)
        /\ Deposited(k)' <=> Deposited(k)
        /\ Timed(k)' <=> Timed(k)
  BY <1>3 DEF InHand, Deposited, Timed
<1>14. OnePlace'
  BY <1>3, <1>7, <1>11, <1>12, <1>13, FromThere
<1>15. OncePublished' /\ OnceReturning' /\ OnceInHand' /\ OnceSettling' /\ OnceDelayed'
  BY <1>3 DEF OnceThere, OncePublished, OnceReturning, OnceInHand, OnceSettling, OnceDelayed
<1> QED BY <1>11, <1>14, <1>15, OnceLanded DEF OnceThere

LEMMA ReceivePlace ==
  ASSUME Base, OnePlace, OnceThere, NEW c \in Consumers, Receive(c)
  PROVE  OnePlace' /\ OnceThere'
<1> USE DEF Base
<1> DEFINE a == <<"unread", c>>
           b == <<"unsettled", c>>
<1>1. PICK d : d = [Head(unread[c]) EXCEPT !.tries = @ + 1]
  OBVIOUS
<1>2. PICK new : new = [tag |-> nextTag[c], d |-> d]
  OBVIOUS
<1>3. PICK h : h = [c |-> c, tag |-> nextTag[c], d |-> d, verdict |-> "ack",
                    step |-> "held", dest |-> NoQueue]
  OBVIOUS
<1>4. PICK k0 : k0 = Head(unread[c]).copy
  OBVIOUS
<1>5. /\ unread[c] # <<>> /\ unread[c] \in Seq(Delivery)
      /\ unread' = [unread EXCEPT ![c] = Tail(@)]
      /\ unsettled' = [unsettled EXCEPT ![c] = @ \cup {new}]
      /\ handlers' = handlers \cup {h}
      /\ UNCHANGED <<pub, waiting, returning, delayed, fate>>
  BY <1>1, <1>2, <1>3 DEF Receive, TypeOK, queueVars
<1>6. Head(unread[c]) \in Delivery /\ new.d.copy = k0 /\ h.step = "held"
  <2>1. Head(unread[c]) \in Delivery
    BY <1>5
  <2>2. d.copy = k0
    BY <1>1, <1>4, <2>1 DEF Delivery
  <2> QED BY <1>2, <1>3, <2>1, <2>2
<1>7. /\ k0 \in CopiesOf(unread[c])
      /\ CopiesOf(Tail(unread[c])) = CopiesOf(unread[c]) \ {k0}
      /\ EachOnce(Tail(unread[c]))
  BY <1>4, <1>5, TailCopies DEF OnceThere, OnceUnread
<1>8. /\ unread'[c] = Tail(unread[c]) /\ \A x \in Consumers \ {c} : unread'[x] = unread[x]
      /\ unsettled'[c] = unsettled[c] \cup {new}
      /\ \A x \in Consumers \ {c} : unsettled'[x] = unsettled[x]
  BY <1>5 DEF TypeOK
<1>9. k0 \in Copies /\ a \in Places /\ b \in Places /\ At(k0, a)
  BY <1>4, <1>6, <1>7, AtKinds, ArePlaces DEF Delivery
<1>10. /\ \A x \in Consumers : x # c => k0 \notin CopiesOf(unread[x])
       /\ ~InHand(k0, c)
  BY <1>9, OnlyThere
<1>11. Relocates(k0, a, b)
  <2>1. \A k \in Copies : \A x \in Consumers :
          Shifts(k \in CopiesOf(unread'[x]), k \in CopiesOf(unread[x]), k, <<"unread", x>>, k0, a, b)
    BY <1>7, <1>8, <1>10 DEF Shifts
  <2>2. \A k \in Copies : \A x \in Consumers :
          Shifts(InHand(k, x)', InHand(k, x), k, <<"unsettled", x>>, k0, a, b)
    <3>1. \A k : InHand(k, c)' <=> InHand(k, c) \/ k = k0
      BY <1>6, <1>8 DEF InHand
    <3>2. \A k : \A x \in Consumers \ {c} : InHand(k, x)' <=> InHand(k, x)
      BY <1>8 DEF InHand
    <3> QED BY <3>1, <3>2 DEF Shifts
  <2>3. \A k \in Copies : (Deposited(k)' <=> Deposited(k)) /\ (Timed(k)' <=> Timed(k))
    BY <1>5, <1>6 DEF Deposited, Timed
  <2> QED BY <1>5, <2>1, <2>2, <2>3 DEF Relocates, Shifts
<1>12. OnePlace'
  BY <1>9, <1>11, OneMoves
<1>13. OnceUnread'
  BY <1>7, <1>8 DEF OnceThere, OnceUnread
<1>14. OnceInHand'
  BY <1>6, <1>8, <1>10 DEF OnceThere, OnceInHand, InHand
<1>15. OnceSettling'
  BY <1>5, <1>6 DEF OnceThere, OnceSettling
<1>16. OncePublished' /\ OnceWaiting' /\ OnceReturning' /\ OnceDelayed'
  BY <1>5 DEF OnceThere, OncePublished, OnceWaiting, OnceReturning, OnceDelayed
<1> QED BY <1>12, <1>13, <1>14, <1>15, <1>16 DEF OnceThere

\* A settlement takes its copy off the consumer: it is acknowledged or rejected,
\* held by a timer, or with the settlement until that delivers it.
LEMMA SettledPlace ==
  ASSUME Base, OnePlace, OnceThere, NEW h \in handlers, Settle(h)
  PROVE  OnePlace' /\ OnceThere'
<1> USE DEF Base
<1>1. PICK k0 : k0 = h.d.copy
  OBVIOUS
<1>2. PICK c : c = h.c
  OBVIOUS
<1> DEFINE a == <<"unsettled", c>>
<1>3. /\ h.step = "checked" /\ h.d \in Delivery /\ k0 \in Copies /\ c \in Consumers
      /\ unsettled' = [unsettled EXCEPT ![c] = {u \in @ : u.tag # h.tag}]
      /\ UNCHANGED <<pub, waiting, unread, returning>>
  BY <1>1, <1>2, HandlerTyped DEF Settle, queueVars
<1>4. PICK u0 \in unsettled[c] : u0.tag = h.tag
  BY <1>2 DEF Settle, IsUnsettled
<1>5. \A u \in unsettled[c] : u.tag = h.tag <=> u = u0
  BY <1>3, <1>4 DEF HandlersFit
<1>6. u0.d.copy = k0
  BY <1>1, <1>2, <1>3, <1>4 DEF HandlersFit
<1>7. /\ unsettled'[c] = unsettled[c] \ {u0}
      /\ \A x \in Consumers \ {c} : unsettled'[x] = unsettled[x]
  BY <1>3, <1>5 DEF TypeOK
<1>8. InHand(k0, c)
  BY <1>4, <1>6 DEF InHand
<1>9. a \in Places /\ At(k0, a)
  BY <1>3, <1>8, AtKinds, ArePlaces
<1>10. /\ ~Deposited(k0) /\ ~Timed(k0) /\ fate[k0] \notin Gone /\ fate[k0] # "unsent"
       /\ \A x \in Consumers : x # c => ~InHand(k0, x)
  BY <1>3, <1>9, OnlyThere
<1>11. \A k \in Copies : \A x \in Consumers :
         InHand(k, x)' <=> InHand(k, x) /\ ~(k = k0 /\ <<"unsettled", x>> = a)
  <2>1. \A k : InHand(k, c)' <=> InHand(k, c) /\ k # k0
    BY <1>3, <1>4, <1>6, <1>7 DEF InHand, OnceThere, OnceInHand
  <2>2. \A k : \A x \in Consumers \ {c} : InHand(k, x)' <=> InHand(k, x)
    BY <1>7 DEF InHand
  <2> QED BY <1>10, <2>1, <2>2
<1>12. OncePublished' /\ OnceWaiting' /\ OnceUnread' /\ OnceReturning' /\ OnceInHand'
  BY <1>3, <1>7 DEF OnceThere, OncePublished, OnceWaiting, OnceUnread, OnceReturning, OnceInHand
<1>13. queueOf[c] \in Queues
  <2>1. c <= opened
    BY <1>2 DEF HandlersFit
  <2> QED BY <1>3, <2>1 DEF Wired
<1>14. Afresh(h.d).copy = k0 /\ Onwards(h).copy = k0
  BY <1>1, <1>2, <1>3, <1>13, Onward DEF Onwards
<1>15. ASSUME NEW b \in Places,
              \A k \in Copies :
                /\ \A p \in Publishers : b # <<"publisher", p>>
                /\ \A q \in Queues : b # <<"waiting", q>>
                /\ \A x \in Consumers :
                     b # <<"unread", x>> /\ b # <<"unsettled", x>> /\ b # <<"returning", x>>
                /\ Deposited(k)' <=> Deposited(k) \/ (k = k0 /\ b = <<"settling", 0>>)
                /\ Timed(k)' <=> Timed(k) \/ (k = k0 /\ b = <<"delayed", 0>>)
                /\ fate'[k] \in Gone <=> fate[k] \in Gone \/ (k = k0 /\ b = <<"gone", 0>>)
                /\ fate'[k] = "unsent" <=> fate[k] = "unsent"
       PROVE  OnePlace'
  <2>1. \A k \in Copies : \A x \in Consumers :
          Shifts(InHand(k, x)', InHand(k, x), k, <<"unsettled", x>>, k0, a, b)
    BY <1>11, <1>15 DEF Shifts
  <2>2. \A k \in Copies :
          /\ Shifts(Deposited(k)', Deposited(k), k, <<"settling", 0>>, k0, a, b)
          /\ Shifts(Timed(k)', Timed(k), k, <<"delayed", 0>>, k0, a, b)
          /\ Shifts(fate'[k] \in Gone, fate[k] \in Gone, k, <<"gone", 0>>, k0, a, b)
    BY <1>15 DEF Shifts
  <2>3. Relocates(k0, a, b)
    BY <1>3, <1>15, <2>1, <2>2 DEF Relocates, Shifts
  <2> QED BY <1>3, <1>9, <1>15, <2>3, OneMoves
<1>16. ASSUME Becomes(h, Over(h))
       PROVE  (\A k : Deposited(k)' <=> Deposited(k)) /\ OnceSettling'
  BY <1>3, <1>16, OverDeposits DEF Deposited, OnceThere
<1>17. CASE h.verdict = "retry"
  <2>1. Destination(h) = NoQueue
    BY <1>17 DEF Destination
  <2>2. PICK e : e = [to |-> queueOf[c], d |-> Afresh(h.d)]
    OBVIOUS
  <2>3. Becomes(h, Over(h)) /\ delayed' = delayed \cup {e} /\ fate' = [fate EXCEPT ![k0] = @]
    BY <1>1, <1>2, <1>17, <2>1, <2>2 DEF Settle
  <2>4. fate' = fate /\ e.d.copy = k0
    BY <1>14, <2>2, <2>3 DEF TypeOK
  <2>5. \A k : Timed(k)' <=> Timed(k) \/ k = k0
    BY <2>3, <2>4 DEF Timed
  <2>6. OnePlace'
    <3> DEFINE b == <<"delayed", 0>>
    <3>1. b \in Places
      BY ArePlaces
    <3> QED BY <1>15, <1>16, <2>3, <2>4, <2>5, <3>1
  <2>7. OnceDelayed'
    BY <1>10, <2>3, <2>4 DEF OnceThere, OnceDelayed, Timed
  <2> QED BY <1>12, <1>16, <2>3, <2>6, <2>7 DEF OnceThere
<1>18. CASE h.verdict # "retry" /\ Destination(h) = NoQueue
  <2>1. h.verdict \in {"ack", "drop", "requeue"}
    BY <1>18, HandlerTyped DEF Handler, Verdicts
  <2>2. Becomes(h, Over(h)) /\ delayed' = delayed
    BY <1>18 DEF Settle
  <2>3. fate' = [fate EXCEPT ![k0] = IF h.verdict = "ack" THEN "acked" ELSE "rejected"]
    BY <1>1, <1>18, <2>1 DEF Settle
  <2>4. \A k \in Copies : /\ fate'[k] \in Gone <=> fate[k] \in Gone \/ k = k0
                          /\ fate'[k] = "unsent" <=> fate[k] = "unsent"
    BY <1>3, <1>10, <2>3 DEF TypeOK, Gone
  <2>5. OnePlace'
    <3> DEFINE b == <<"gone", 0>>
    <3>1. b \in Places
      BY ArePlaces
    <3>2. \A k : Timed(k)' <=> Timed(k)
      BY <2>2 DEF Timed
    <3> QED BY <1>15, <1>16, <2>2, <2>4, <3>1, <3>2
  <2>6. OnceDelayed'
    BY <2>2 DEF OnceThere, OnceDelayed
  <2> QED BY <1>12, <1>16, <2>2, <2>5, <2>6 DEF OnceThere
<1>19. CASE Destination(h) # NoQueue
  <2>1. h.verdict \in {"drop", "requeue"}
    BY <1>19, HandlerTyped DEF Handler, Verdicts, Destination
  <2>2. PICK g : g = [h EXCEPT !.d = Onwards(h), !.dest = Destination(h), !.step = "deliver"]
    OBVIOUS
  <2>3. /\ handlers' = (handlers \ {h}) \cup {g}
        /\ delayed' = delayed /\ fate' = [fate EXCEPT ![k0] = @]
    BY <1>1, <1>19, <2>1, <2>2 DEF Settle, Becomes
  <2>4. fate' = fate /\ g.step = "deliver" /\ g.d.copy = k0
    BY <1>14, <2>2, <2>3, HandlerTyped DEF TypeOK, Handler
  <2>5. \A k : Deposited(k)' <=> Deposited(k) \/ k = k0
    BY <1>3, <2>3, <2>4 DEF Deposited
  <2>6. OnePlace'
    <3> DEFINE b == <<"settling", 0>>
    <3>1. b \in Places
      BY ArePlaces
    <3>2. \A k : Timed(k)' <=> Timed(k)
      BY <2>3 DEF Timed
    <3> QED BY <1>15, <2>4, <2>5, <3>1, <3>2
  <2>7. OnceDelayed' /\ OnceSettling'
    BY <1>10, <2>3, <2>4 DEF OnceThere, OnceDelayed, OnceSettling, Deposited
  <2> QED BY <1>12, <2>6, <2>7 DEF OnceThere
<1> QED BY <1>17, <1>18, <1>19

\* Every copy at a0 moves to b0, and nothing was at b0.
AllMoved(now, before, a, a0, b0, k) ==
  now <=> (before /\ a # a0 /\ a # b0) \/ (a = b0 /\ At(k, a0))
AllMove(a0, b0) ==
  \A k \in Copies :
    /\ ~At(k, b0)
    /\ \A p \in Publishers :
         AllMoved(k \in ToSet(pub'[p]), k \in ToSet(pub[p]), <<"publisher", p>>, a0, b0, k)
    /\ \A q \in Queues :
         AllMoved(k \in CopiesOf(waiting'[q]), k \in CopiesOf(waiting[q]), <<"waiting", q>>, a0, b0, k)
    /\ \A c \in Consumers :
         /\ AllMoved(k \in CopiesOf(unread'[c]), k \in CopiesOf(unread[c]), <<"unread", c>>, a0, b0, k)
         /\ AllMoved(InHand(k, c)', InHand(k, c), <<"unsettled", c>>, a0, b0, k)
         /\ AllMoved(k \in CopiesOf(returning'[c]), k \in CopiesOf(returning[c]),
                     <<"returning", c>>, a0, b0, k)
    /\ AllMoved(Deposited(k)', Deposited(k), <<"settling", 0>>, a0, b0, k)
    /\ AllMoved(Timed(k)', Timed(k), <<"delayed", 0>>, a0, b0, k)
    /\ fate'[k] = fate[k]

LEMMA ManyMove ==
  ASSUME OnePlace, NEW a0 \in Places, NEW b0 \in Places, a0 # b0,
         a0 # <<"gone", 0>>, b0 # <<"gone", 0>>, AllMove(a0, b0)
  PROVE  OnePlace'
<1>1. \A k \in Copies : \A a \in Places : AllMoved(At(k, a)', At(k, a), a, a0, b0, k)
  <2> SUFFICES ASSUME NEW k \in Copies, NEW a \in Places
               PROVE  AllMoved(At(k, a)', At(k, a), a, a0, b0, k)
    OBVIOUS
  <2>1. CASE \E p \in Publishers : a = <<"publisher", p>>
    BY <2>1, AtKinds, AtKindsNext DEF AllMove, AllMoved
  <2>2. CASE \E q \in Queues : a = <<"waiting", q>>
    BY <2>2, AtKinds, AtKindsNext DEF AllMove, AllMoved
  <2>3. CASE \E c \in Consumers : a = <<"unread", c>>
    BY <2>3, AtKinds, AtKindsNext DEF AllMove, AllMoved
  <2>4. CASE \E c \in Consumers : a = <<"unsettled", c>>
    BY <2>4, AtKinds, AtKindsNext DEF AllMove, AllMoved
  <2>5. CASE \E c \in Consumers : a = <<"returning", c>>
    BY <2>5, AtKinds, AtKindsNext DEF AllMove, AllMoved
  <2>6. CASE a = <<"settling", 0>>
    BY <2>6, AtKinds, AtKindsNext DEF AllMove, AllMoved
  <2>7. CASE a = <<"delayed", 0>>
    BY <2>7, AtKinds, AtKindsNext DEF AllMove, AllMoved
  <2>8. CASE a = <<"gone", 0>>
    <3>1. At(k, a)' <=> At(k, a)
      BY <2>8, AtKinds, AtKindsNext DEF AllMove
    <3> QED BY <2>8, <3>1 DEF AllMoved
  <2> QED BY <2>1, <2>2, <2>3, <2>4, <2>5, <2>6, <2>7, <2>8, PlaceKinds
<1>2. \A k \in Copies : ~At(k, b0) /\ fate'[k] = fate[k]
  BY DEF AllMove
<1>3. {k \in Copies : fate'[k] # "unsent"} = {k \in Copies : fate[k] # "unsent"}
  BY <1>2
<1>4. \A k \in Copies : \A a \in Places :
        At(k, a)' <=> (At(k, a) /\ a # a0) \/ (a = b0 /\ At(k, a0))
  BY <1>1, <1>2 DEF AllMoved
<1>5. \A k \in Copies : (\E a \in Places : At(k, a)') <=> \E a \in Places : At(k, a)
  BY <1>2, <1>4
<1>6. \A k \in Copies : fate'[k] # "unsent" <=> \E a \in Places : At(k, a)'
  BY <1>2, <1>5 DEF OnePlace
<1>7. \A k \in Copies : \A a, b \in Places : At(k, a)' /\ At(k, b)' => a = b
  BY <1>2, <1>4 DEF OnePlace
<1> QED BY <1>3, <1>6, <1>7 DEF OnePlace, Places

\* A new consumer is sent all its queue kept.
LEMMA SubscribePlace ==
  ASSUME Base, OnePlace, OnceThere, NEW q \in Subscribed, Subscribe(q)
  PROVE  OnePlace' /\ OnceThere'
<1> USE DEF Base
<1>1. PICK c : c = opened + 1
  OBVIOUS
<1> DEFINE a == <<"waiting", q>>
           b == <<"unread", c>>
<1>2. /\ q \in Queues /\ c \in Consumers /\ c > opened
      /\ unread' = [unread EXCEPT ![c] = waiting[q]]
      /\ waiting' = [waiting EXCEPT ![q] = <<>>]
      /\ UNCHANGED <<unsettled, returning, handlers, pub, delayed, fate>>
  <2>1. q \in Queues
    BY BusAssumption
  <2>2. c \in Consumers /\ unread' = [unread EXCEPT ![c] = waiting[q]]
    BY <1>1, <2>1, SubscribeSends
  <2>3. opened \in Nat /\ c > opened
    BY <1>1, BusAssumption DEF TypeOK
  <2> QED BY <2>1, <2>2, <2>3 DEF Subscribe
<1>3. /\ unread'[c] = waiting[q] /\ \A x \in Consumers \ {c} : unread'[x] = unread[x]
      /\ waiting'[q] = <<>> /\ \A x \in Queues \ {q} : waiting'[x] = waiting[x]
      /\ unread[c] = <<>>
  BY <1>2 DEF TypeOK, Wired
<1>4. CopiesOf(<<>>) = {} /\ EachOnce(<<>>)
  BY DEF CopiesOf, EachOnce
<1>5. /\ a \in Places /\ b \in Places
      /\ \A k : ~At(k, b) /\ (At(k, a) <=> k \in CopiesOf(waiting[q]))
  BY <1>2, <1>3, <1>4, ArePlaces, AtKinds
<1>6. AllMove(a, b)
  <2>1. \A k \in Copies : \A x \in Queues :
          AllMoved(k \in CopiesOf(waiting'[x]), k \in CopiesOf(waiting[x]), <<"waiting", x>>, a, b, k)
    BY <1>3, <1>4 DEF AllMoved
  <2>2. \A k \in Copies : \A x \in Consumers :
          AllMoved(k \in CopiesOf(unread'[x]), k \in CopiesOf(unread[x]), <<"unread", x>>, a, b, k)
    BY <1>3, <1>5 DEF AllMoved
  <2>3. \A k \in Copies :
          /\ \A x \in Consumers : InHand(k, x)' <=> InHand(k, x)
          /\ Deposited(k)' <=> Deposited(k)
          /\ Timed(k)' <=> Timed(k)
    BY <1>2 DEF InHand, Deposited, Timed
  <2> QED BY <1>2, <1>5, <2>1, <2>2, <2>3 DEF AllMove, AllMoved
<1>7. OnePlace'
  BY <1>5, <1>6, ManyMove
<1>8. OnceWaiting' /\ OnceUnread'
  BY <1>2, <1>3, <1>4 DEF OnceThere, OnceWaiting, OnceUnread
<1>9. OncePublished' /\ OnceReturning' /\ OnceInHand' /\ OnceSettling' /\ OnceDelayed'
  BY <1>2 DEF OnceThere, OncePublished, OnceReturning, OnceInHand, OnceSettling, OnceDelayed
<1> QED BY <1>7, <1>8, <1>9 DEF OnceThere

\* A closing consumer takes back all it handed out.
LEMMA TakenPlace ==
  ASSUME Base, OnePlace, OnceThere, NEW c \in Consumers, TakeUnsettled(c)
  PROVE  OnePlace' /\ OnceThere'
<1> USE DEF Base
<1> DEFINE a == <<"unsettled", c>>
           b == <<"returning", c>>
<1>1. PICK n \in Nat : \E g \in Bijection(1..n, unsettled[c]) :
             returning' = [returning EXCEPT ![c] = [i \in 1..n |-> g[i].d]]
  BY TakenBack
<1>2. PICK g \in Bijection(1..n, unsettled[c]) :
             returning' = [returning EXCEPT ![c] = [i \in 1..n |-> g[i].d]]
  BY <1>1
<1>3. PICK s : s = [i \in 1..n |-> g[i].d]
  OBVIOUS
<1>4. /\ g \in [1..n -> unsettled[c]]
      /\ \A i, j \in 1..n : g[i] = g[j] => i = j
      /\ \A u \in unsettled[c] : \E i \in 1..n : g[i] = u
  BY DEF Bijection, Injection, IsInjective, Surjection
<1>5. /\ DOMAIN s = 1..n /\ \A i \in 1..n : s[i] = g[i].d
      /\ \A k : k \in CopiesOf(s) <=> InHand(k, c)
  BY <1>3, <1>4 DEF CopiesOf, InHand
<1>6. EachOnce(s)
  BY <1>4, <1>5 DEF EachOnce, OnceThere, OnceInHand
<1>7. /\ unsettled' = [unsettled EXCEPT ![c] = {}] /\ returning' = [returning EXCEPT ![c] = s]
      /\ returning[c] = <<>>
      /\ UNCHANGED <<waiting, unread, handlers, pub, delayed, fate>>
  BY <1>2, <1>3 DEF TakeUnsettled, queueVars, Wired
<1>8. /\ unsettled'[c] = {} /\ \A x \in Consumers \ {c} : unsettled'[x] = unsettled[x]
      /\ returning'[c] = s /\ \A x \in Consumers \ {c} : returning'[x] = returning[x]
  BY <1>7 DEF TypeOK
<1>9. CopiesOf(<<>>) = {}
  BY DEF CopiesOf
<1>10. /\ a \in Places /\ b \in Places
       /\ \A k : ~At(k, b) /\ (At(k, a) <=> InHand(k, c))
  BY <1>7, <1>9, ArePlaces, AtKinds
<1>11. AllMove(a, b)
  <2>1. \A k \in Copies : \A x \in Consumers :
          AllMoved(InHand(k, x)', InHand(k, x), <<"unsettled", x>>, a, b, k)
    <3>1. \A k : ~InHand(k, c)'
      BY <1>8 DEF InHand
    <3>2. \A k : \A x \in Consumers \ {c} : InHand(k, x)' <=> InHand(k, x)
      BY <1>8 DEF InHand
    <3> QED BY <3>1, <3>2 DEF AllMoved
  <2>2. \A k \in Copies : \A x \in Consumers :
          AllMoved(k \in CopiesOf(returning'[x]), k \in CopiesOf(returning[x]),
                   <<"returning", x>>, a, b, k)
    BY <1>5, <1>8, <1>10 DEF AllMoved
  <2>3. \A k \in Copies : (Deposited(k)' <=> Deposited(k)) /\ (Timed(k)' <=> Timed(k))
    BY <1>7 DEF Deposited, Timed
  <2> QED BY <1>7, <1>10, <2>1, <2>2, <2>3 DEF AllMove, AllMoved
<1>12. OnePlace'
  BY <1>10, <1>11, ManyMove
<1>13. OnceReturning' /\ OnceInHand'
  BY <1>6, <1>8 DEF OnceThere, OnceReturning, OnceInHand
<1>14. OncePublished' /\ OnceWaiting' /\ OnceUnread' /\ OnceSettling' /\ OnceDelayed'
  BY <1>7 DEF OnceThere, OncePublished, OnceWaiting, OnceUnread, OnceSettling, OnceDelayed
<1> QED BY <1>12, <1>13, <1>14 DEF OnceThere

\* A publish puts the copies of its message, which nobody had, with the publisher.
LEMMA PublishedPlace ==
  ASSUME Base, OnePlace, OnceThere, NEW p \in Publishers, NEW m \in Messages,
         NEW route \in Routes[m], Publish(p, m, route)
  PROVE  OnePlace' /\ OnceThere'
<1> USE DEF Base
<1>1. route \in Seq(Queues) /\ IsInjective(route)
  BY BusAssumption
<1>2. PICK s : s = [i \in DOMAIN route |-> <<m, route[i]>>]
  OBVIOUS
<1>3. PICK new : new = {k \in Copies : k[1] = m /\ k[2] \in ToSet(route)}
  OBVIOUS
<1>4. PICK n \in Nat : n = Len(route) /\ DOMAIN route = 1..n
  BY <1>1
<1>5. /\ pub[p] = <<>> /\ pub' = [pub EXCEPT ![p] = s]
      /\ fate' = [k \in Copies |-> IF k \in new THEN "held" ELSE fate[k]]
      /\ UNCHANGED <<waiting, unread, unsettled, returning, handlers, delayed>>
  BY <1>2, <1>3 DEF Publish, queueVars, consumerVars
<1>6. \A k \in new : k \in Copies /\ fate[k] = "unsent"
  BY <1>3 DEF Publish, Unpublished, Copies
<1>7. ToSet(s) = new /\ IsInjective(s)
  <2>1. DOMAIN s = DOMAIN route /\ \A i \in DOMAIN s : s[i] = <<m, route[i]>> /\ route[i] \in Queues
    BY <1>1, <1>2
  <2>2. \A k : k \in ToSet(s) <=> k \in new
    BY <1>3, <2>1 DEF ToSet, Copies
  <2>3. IsInjective(s)
    BY <1>1, <2>1 DEF IsInjective
  <2> QED BY <2>2, <2>3
<1>8. IsFiniteSet(new)
  <2>1. s \in Surjection(1..n, new)
    BY <1>2, <1>4, <1>7 DEF ToSet, Surjection
  <2>2. IsFiniteSet(1..n)
    BY FS_Interval
  <2> QED BY <2>1, <2>2, FS_Surjection
<1>9. pub'[p] = s /\ \A x \in Publishers \ {p} : pub'[x] = pub[x]
  BY <1>5 DEF TypeOK
<1>10. ToSet(<<>>) = {}
  BY DEF ToSet
<1> DEFINE b == <<"publisher", p>>
<1>11. \A k \in Copies : \A a \in Places : At(k, a)' <=> At(k, a) \/ (k \in new /\ a = b)
  <2> SUFFICES ASSUME NEW k \in Copies, NEW a \in Places
               PROVE  At(k, a)' <=> At(k, a) \/ (k \in new /\ a = b)
    OBVIOUS
  <2>1. CASE \E x \in Publishers : a = <<"publisher", x>>
    <3>1. PICK x \in Publishers : a = <<"publisher", x>>
      BY <2>1
    <3>2. (At(k, a)' <=> k \in ToSet(pub'[x])) /\ (At(k, a) <=> k \in ToSet(pub[x]))
      BY <3>1, AtKinds, AtKindsNext
    <3>3. CASE x = p
      BY <1>5, <1>7, <1>9, <1>10, <3>1, <3>2, <3>3
    <3>4. CASE x # p
      BY <1>9, <3>1, <3>2, <3>4
    <3> QED BY <3>3, <3>4
  <2>2. CASE \/ \E q \in Queues : a = <<"waiting", q>>
             \/ \E c \in Consumers : \/ a = <<"unread", c>> \/ a = <<"unsettled", c>>
                                     \/ a = <<"returning", c>>
             \/ a = <<"settling", 0>> \/ a = <<"delayed", 0>>
    BY <1>5, <2>2 DEF At
  <2>3. CASE a = <<"gone", 0>>
    <3>1. fate'[k] \in Gone <=> fate[k] \in Gone
      BY <1>5, <1>6 DEF Gone
    <3> QED BY <2>3, <3>1, AtKinds, AtKindsNext
  <2> QED BY <2>1, <2>2, <2>3, PlaceKinds
<1>12. b \in Places
  BY ArePlaces
<1>13. \A k \in new : \A a \in Places : ~At(k, a)
  BY <1>6 DEF OnePlace
<1>14. \A k \in Copies : fate'[k] # "unsent" <=> fate[k] # "unsent" \/ k \in new
  BY <1>5
<1>15. IsFiniteSet({k \in Copies : fate'[k] # "unsent"})
  <2>1. {k \in Copies : fate'[k] # "unsent"} = {k \in Copies : fate[k] # "unsent"} \cup new
    BY <1>6, <1>14
  <2>2. IsFiniteSet({k \in Copies : fate[k] # "unsent"})
    BY DEF OnePlace
  <2>3. IsFiniteSet({k \in Copies : fate[k] # "unsent"} \cup new)
    BY <1>8, <2>2, FS_Union
  <2> QED BY <2>1, <2>3
<1>16. \A k \in Copies : fate'[k] # "unsent" <=> \E a \in Places : At(k, a)'
  BY <1>11, <1>12, <1>14 DEF OnePlace
<1>17. \A k \in Copies : \A a, d \in Places : At(k, a)' /\ At(k, d)' => a = d
  BY <1>11, <1>13 DEF OnePlace
<1>18. OnePlace'
  BY <1>15, <1>16, <1>17 DEF OnePlace, Places
<1>19. OncePublished'
  BY <1>7, <1>9 DEF OnceThere, OncePublished
<1>20. OnceWaiting' /\ OnceUnread' /\ OnceReturning' /\ OnceInHand' /\ OnceSettling' /\ OnceDelayed'
  BY <1>5 DEF OnceThere, OnceWaiting, OnceUnread, OnceReturning, OnceInHand, OnceSettling, OnceDelayed
<1> QED BY <1>18, <1>19, <1>20 DEF OnceThere

\* The steps that leave every copy where it is.
LEMMA StaysPlaced ==
  ASSUME OnePlace, OnceThere, OnceSettling',
         UNCHANGED <<pub, waiting, unread, unsettled, returning, delayed, fate>>,
         \A k : Deposited(k)' <=> Deposited(k)
  PROVE  OnePlace' /\ OnceThere'
<1>1. Rests
  BY DEF Rests, InHand, Timed
<1>2. OnePlace'
  BY <1>1, NoneMoves
<1>3. /\ OncePublished' /\ OnceWaiting' /\ OnceUnread' /\ OnceReturning'
      /\ OnceInHand' /\ OnceDelayed'
  BY DEF OnceThere, OncePublished, OnceWaiting, OnceUnread, OnceReturning, OnceInHand, OnceDelayed
<1> QED BY <1>2, <1>3 DEF OnceThere

\* The queue a consumer takes with it keeps nothing: it had that consumer.
LEMMA CancelKeeps ==
  ASSUME Base, NEW c \in Consumers, Cancel(c)
  PROVE  UNCHANGED <<waiting, fate>>
<1> USE DEF Base
<1>1. CASE /\ Deletes(c) /\ waiting' = [waiting EXCEPT ![queueOf[c]] = <<>>]
           /\ LET gone == {d.copy : d \in ToSet(waiting[queueOf[c]])} IN
                fate' = [k \in Copies |-> IF k \in gone THEN "lost" ELSE fate[k]]
  <2>1. queueOf[c] \in Queues /\ ConsumersOf(queueOf[c]) # {}
    BY <1>1, UsedHasQueue DEF Cancel, Deletes
  <2>2. waiting[queueOf[c]] = <<>>
    BY <2>1 DEF KeptOnlyWithoutConsumer
  <2>3. waiting' = waiting
    BY <1>1, <2>1, <2>2 DEF TypeOK
  <2>4. ToSet(<<>>) = {}
    BY DEF ToSet
  <2>5. fate' = fate
    BY <1>1, <2>2, <2>4 DEF TypeOK
  <2> QED BY <2>3, <2>5
<1>2. CASE UNCHANGED <<existing, waiting, fate>>
  BY <1>2
<1> QED BY <1>1, <1>2 DEF Cancel

LEMMA PlaceStep ==
  ASSUME Base, OnePlace, OnceThere, Next
  PROVE  OnePlace' /\ OnceThere'
<1> USE DEF Base
<1>a. ASSUME UNCHANGED <<pub, waiting, unread, unsettled, returning, delayed, fate, handlers>>
      PROVE  OnePlace' /\ OnceThere'
  <2>1. OnceSettling' /\ \A k : Deposited(k)' <=> Deposited(k)
    BY <1>a DEF OnceThere, OnceSettling, Deposited
  <2> QED BY <1>a, <2>1, StaysPlaced
<1>1. ASSUME NEW q \in Subscribed, Subscribe(q) PROVE OnePlace' /\ OnceThere'
  BY <1>1, SubscribePlace
<1>2. ASSUME NEW p \in Publishers, NEW m \in Messages, NEW route \in Routes[m], Publish(p, m, route)
      PROVE  OnePlace' /\ OnceThere'
  BY <1>2, PublishedPlace
<1>3. ASSUME NEW p \in Publishers, PublishDeliver(p) PROVE OnePlace' /\ OnceThere'
  BY <1>3, PublishPlace
<1>4. ASSUME NEW c \in Consumers, Receive(c) PROVE OnePlace' /\ OnceThere'
  BY <1>4, ReceivePlace
<1>5. ASSUME NEW c \in Consumers, Cancel(c) PROVE OnePlace' /\ OnceThere'
  <2>1. UNCHANGED <<waiting, fate>>
    BY <1>5, CancelKeeps
  <2> QED BY <1>5, <1>a, <2>1 DEF Cancel
<1>6. ASSUME NEW c \in Consumers, TakeUnsettled(c) PROVE OnePlace' /\ OnceThere'
  BY <1>6, TakenPlace
<1>7. ASSUME NEW c \in Consumers, RequeueUnsettled(c) PROVE OnePlace' /\ OnceThere'
  BY <1>7, UnsettledPlace
<1>8. ASSUME NEW c \in Consumers, RequeueUnread(c) PROVE OnePlace' /\ OnceThere'
  BY <1>8, UnreadPlace
<1>9. ASSUME NEW c \in Consumers, StartDraining(c) \/ ReleaseUnread(c) \/ Dropped(c)
      PROVE  OnePlace' /\ OnceThere'
  BY <1>9, <1>a DEF StartDraining, ReleaseUnread, Dropped, queueVars
<1>10. ASSUME NEW h \in handlers, Settle(h) PROVE OnePlace' /\ OnceThere'
  BY <1>10, SettledPlace
<1>11. ASSUME NEW h \in handlers, SettleDeliver(h) PROVE OnePlace' /\ OnceThere'
  BY <1>11, SettlePlace
<1>12. ASSUME NEW h \in handlers, Check(h) \/ Abandon(h) \/ SettleTooLate(h)
       PROVE  OnePlace' /\ OnceThere'
  <2>1. UNCHANGED <<pub, waiting, unread, unsettled, returning, delayed, fate>>
    BY <1>12 DEF Check, Abandon, SettleTooLate, queueVars, consumerVars
  <2>2. PICK g : Becomes(h, g) /\ g.step # "deliver" /\ h.step # "deliver"
    <3>1. h \in Handler /\ Over(h).step = "done"
      BY HandlerTyped DEF Over, Handler
    <3>2. \A v : [h EXCEPT !.verdict = v, !.step = "checked"].step = "checked"
      BY <3>1 DEF Handler
    <3>3. h.step # "deliver"
      BY <1>12 DEF Check, Abandon, SettleTooLate
    <3>4. CASE Becomes(h, Over(h))
      BY <3>1, <3>3, <3>4
    <3>5. CASE \E v \in Verdicts : Becomes(h, [h EXCEPT !.verdict = v, !.step = "checked"])
      BY <3>2, <3>3, <3>5
    <3> QED BY <1>12, <3>4, <3>5 DEF Check, Abandon, SettleTooLate
  <2>3. OnceSettling' /\ \A k : Deposited(k)' <=> Deposited(k)
    BY <2>2 DEF Becomes, OnceThere, OnceSettling, Deposited
  <2> QED BY <2>1, <2>3, StaysPlaced
<1>13. ASSUME NEW h \in handlers, Release(h) PROVE OnePlace' /\ OnceThere'
  <2>1. UNCHANGED <<pub, waiting, unread, unsettled, returning, delayed, fate>>
    BY <1>13 DEF Release, queueVars, consumerVars
  <2>2. OnceSettling' /\ \A k : Deposited(k)' <=> Deposited(k)
    BY <1>13 DEF Release, OnceThere, OnceSettling, Deposited
  <2> QED BY <2>1, <2>2, StaysPlaced
<1>14. ASSUME NEW e \in delayed, DelayOver(e) PROVE OnePlace' /\ OnceThere'
  BY <1>14, DelayPlace
<1>15. ASSUME Close PROVE OnePlace' /\ OnceThere'
  BY <1>15, <1>a DEF Close, MarkClosed, ClearConsumers, queueVars, consumerVars
<1> QED
  BY <1>1, <1>2, <1>3, <1>4, <1>5, <1>6, <1>7, <1>8, <1>9, <1>10, <1>11, <1>12, <1>13, <1>14, <1>15
     DEF Next, DropConsumer, Handle

LEMMA PlaceInvariant == Spec => [](Base /\ OnePlace /\ OnceThere)
<1>1. Init => Base /\ OnePlace /\ OnceThere
  <2> SUFFICES ASSUME Init PROVE OnePlace /\ OnceThere
    BY BaseInit
  <2>1. ToSet(<<>>) = {} /\ CopiesOf(<<>>) = {} /\ EachOnce(<<>>) /\ IsInjective(<<>>)
    BY DEF ToSet, CopiesOf, EachOnce, IsInjective
  <2>2. \A k \in Copies : \A a \in Places : ~At(k, a)
    <3> SUFFICES ASSUME NEW k \in Copies, NEW a \in Places PROVE ~At(k, a)
      OBVIOUS
    <3>1. CASE \E p \in Publishers : a = <<"publisher", p>>
      BY <2>1, <3>1, AtKinds DEF Init
    <3>2. CASE \E q \in Queues : a = <<"waiting", q>>
      BY <2>1, <3>2, AtKinds DEF Init
    <3>3. CASE \E c \in Consumers : \/ a = <<"unread", c>> \/ a = <<"unsettled", c>>
                                    \/ a = <<"returning", c>>
      BY <2>1, <3>3, AtKinds DEF Init, InHand
    <3>4. CASE a = <<"settling", 0>> \/ a = <<"delayed", 0>> \/ a = <<"gone", 0>>
      BY <3>4, AtKinds DEF Init, Deposited, Timed, Gone
    <3> QED BY <3>1, <3>2, <3>3, <3>4, PlaceKinds
  <2>3. \A k \in Copies : fate[k] = "unsent"
    BY DEF Init
  <2>4. IsFiniteSet({k \in Copies : fate[k] # "unsent"})
    <3>1. {k \in Copies : fate[k] # "unsent"} = {}
      BY <2>3
    <3> QED BY <3>1, FS_EmptySet
  <2>5. OnePlace
    BY <2>2, <2>3, <2>4 DEF OnePlace
  <2>6. OnceThere
    BY <2>1 DEF Init, OnceThere, OncePublished, OnceWaiting, OnceUnread, OnceReturning,
                OnceInHand, OnceSettling, OnceDelayed
  <2> QED BY <2>5, <2>6
<1>2. ASSUME Base /\ OnePlace /\ OnceThere, [Next]_vars
      PROVE  (Base /\ OnePlace /\ OnceThere)'
  <2>1. CASE Next
    BY <1>2, <2>1, BaseStep, PlaceStep
  <2>2. CASE UNCHANGED vars
    <3>1. UNCHANGED <<pub, waiting, unread, unsettled, returning, delayed, fate>>
      BY <2>2 DEF vars
    <3>2. OnceSettling' /\ \A k : Deposited(k)' <=> Deposited(k)
      BY <1>2, <2>2 DEF vars, OnceThere, OnceSettling, Deposited
    <3>3. OnePlace' /\ OnceThere'
      BY <1>2, <3>1, <3>2, StaysPlaced
    <3> QED BY <1>2, <3>3, BaseStep
  <2> QED BY <1>2, <2>1, <2>2
<1> QED BY <1>1, <1>2, PTL DEF Spec

\* The copies that were published.
Sent == {k \in Copies : fate[k] # "unsent"}

\* Location l of Located has k at place a.
Spot(l, k, a) ==
  \/ \E p \in Publishers : \E i \in DOMAIN pub[p] :
       a = <<"publisher", p>> /\ pub[p][i] = k /\ l = <<k, "publisher", p, i>>
  \/ \E q \in Queues : \E i \in DOMAIN waiting[q] :
       a = <<"waiting", q>> /\ waiting[q][i].copy = k /\ l = <<k, "waiting", q, i>>
  \/ \E c \in Consumers : \E i \in DOMAIN unread[c] :
       a = <<"unread", c>> /\ unread[c][i].copy = k /\ l = <<k, "unread", c, i>>
  \/ \E c \in Consumers : \E u \in unsettled[c] :
       a = <<"unsettled", c>> /\ u.d.copy = k /\ l = <<k, "unsettled", c, u.tag>>
  \/ \E c \in Consumers : \E i \in DOMAIN returning[c] :
       a = <<"returning", c>> /\ returning[c][i].copy = k /\ l = <<k, "returning", c, i>>
  \/ \E h \in handlers :
       /\ a = <<"settling", 0>> /\ h.step = "deliver" /\ h.d.copy = k
       /\ l = <<k, "settling", h.c, h.tag>>
  \/ \E e \in delayed : a = <<"delayed", 0>> /\ e.d.copy = k /\ l = <<k, "delayed", e.to, 0>>
  \/ a = <<"gone", 0>> /\ fate[k] \in Gone /\ l = <<k, fate[k], k[2], 0>>

LEMMA LocatedSpots ==
  ASSUME TypeOK, NEW l
  PROVE  l \in Located <=> \E k \in Copies : \E a \in Places : Spot(l, k, a)
<1> DEFINE
      P == UNION {{<<pub[p][i], "publisher", p, i>> : i \in DOMAIN pub[p]} : p \in Publishers}
      W == UNION {{<<waiting[q][i].copy, "waiting", q, i>> : i \in DOMAIN waiting[q]} : q \in Queues}
      U == UNION {{<<unread[c][i].copy, "unread", c, i>> : i \in DOMAIN unread[c]} : c \in Consumers}
      H == UNION {{<<u.d.copy, "unsettled", c, u.tag>> : u \in unsettled[c]} : c \in Consumers}
      R == UNION {{<<returning[c][i].copy, "returning", c, i>> : i \in DOMAIN returning[c]}
                    : c \in Consumers}
      S == {<<h.d.copy, "settling", h.c, h.tag>> : h \in {x \in handlers : x.step = "deliver"}}
      D == {<<e.d.copy, "delayed", e.to, 0>> : e \in delayed}
      G == {<<k, fate[k], k[2], 0>> : k \in {x \in Copies : fate[x] \in {"acked", "rejected", "lost"}}}
      is == \E k \in Copies : \E a \in Places : Spot(l, k, a)
<1>1. l \in Located <=> l \in P \/ l \in W \/ l \in U \/ l \in H \/ l \in R \/ l \in S \/ l \in D \/ l \in G
  <2>1. Located = UNION {P, W, U, H, R, S, D, G}
    BY DEF Located
  <2> HIDE DEF P, W, U, H, R, S, D, G
  <2> QED BY <2>1
<1>2. /\ \A p \in Publishers : \A i \in DOMAIN pub[p] : pub[p][i] \in Copies
      /\ \A q \in Queues : \A i \in DOMAIN waiting[q] : waiting[q][i].copy \in Copies
      /\ \A c \in Consumers : \A i \in DOMAIN unread[c] : unread[c][i].copy \in Copies
      /\ \A c \in Consumers : \A u \in unsettled[c] : u.d.copy \in Copies
      /\ \A c \in Consumers : \A i \in DOMAIN returning[c] : returning[c][i].copy \in Copies
      /\ \A h \in handlers : h.d.copy \in Copies
      /\ \A e \in delayed : e.d.copy \in Copies
  <2>1. \A d \in Delivery : d.copy \in Copies
    BY DEF Delivery
  <2>2. \A p \in Publishers : \A i \in DOMAIN pub[p] : pub[p][i] \in Copies
    BY DEF TypeOK
  <2>3. \A q \in Queues : \A i \in DOMAIN waiting[q] : waiting[q][i] \in Delivery
    BY DEF TypeOK
  <2>4. \A c \in Consumers : \A i \in DOMAIN unread[c] : unread[c][i] \in Delivery
    BY DEF TypeOK
  <2>5. \A c \in Consumers : \A u \in unsettled[c] : u.d \in Delivery
    BY DEF TypeOK, Unsettled
  <2>6. \A c \in Consumers : \A i \in DOMAIN returning[c] : returning[c][i] \in Delivery
    BY DEF TypeOK
  <2>7. \A h \in handlers : h.d \in Delivery
    BY DEF TypeOK, Handler
  <2>8. \A e \in delayed : e.d \in Delivery
    BY DEF TypeOK
  <2> QED BY <2>1, <2>2, <2>3, <2>4, <2>5, <2>6, <2>7, <2>8
<1>3. l \in P <=> \E p \in Publishers : \E i \in DOMAIN pub[p] : l = <<pub[p][i], "publisher", p, i>>
  OBVIOUS
<1>4. l \in W <=> \E q \in Queues : \E i \in DOMAIN waiting[q] : l = <<waiting[q][i].copy, "waiting", q, i>>
  OBVIOUS
<1>5. l \in U <=> \E c \in Consumers : \E i \in DOMAIN unread[c] : l = <<unread[c][i].copy, "unread", c, i>>
  OBVIOUS
<1>6. l \in H <=> \E c \in Consumers : \E u \in unsettled[c] : l = <<u.d.copy, "unsettled", c, u.tag>>
  OBVIOUS
<1>7. l \in R <=> \E c \in Consumers : \E i \in DOMAIN returning[c] :
                    l = <<returning[c][i].copy, "returning", c, i>>
  OBVIOUS
<1>8. l \in S <=> \E h \in handlers : h.step = "deliver" /\ l = <<h.d.copy, "settling", h.c, h.tag>>
  BY Zenon
<1>9. l \in D <=> \E e \in delayed : l = <<e.d.copy, "delayed", e.to, 0>>
  BY Zenon
<1>10. l \in G <=> \E k \in Copies : fate[k] \in Gone /\ l = <<k, fate[k], k[2], 0>>
  BY Zenon DEF Gone
<1> HIDE DEF P, W, U, H, R, S, D, G
<1>11. ASSUME l \in P PROVE is
  BY <1>2, <1>3, <1>11, ArePlaces DEF Spot
<1>12. ASSUME l \in W PROVE is
  BY <1>2, <1>4, <1>12, ArePlaces DEF Spot
<1>13. ASSUME l \in U PROVE is
  BY <1>2, <1>5, <1>13, ArePlaces DEF Spot
<1>14. ASSUME l \in H PROVE is
  BY <1>2, <1>6, <1>14, ArePlaces DEF Spot
<1>15. ASSUME l \in R PROVE is
  BY <1>2, <1>7, <1>15, ArePlaces DEF Spot
<1>16. ASSUME l \in S PROVE is
  BY <1>2, <1>8, <1>16, ArePlaces DEF Spot
<1>17. ASSUME l \in D PROVE is
  BY <1>2, <1>9, <1>17, ArePlaces DEF Spot
<1>18. ASSUME l \in G PROVE is
  BY <1>10, <1>18, ArePlaces DEF Spot
<1>19. ASSUME is PROVE l \in P \/ l \in W \/ l \in U \/ l \in H \/ l \in R \/ l \in S \/ l \in D \/ l \in G
  <2>1. PICK k \in Copies : \E a \in Places : Spot(l, k, a)
    BY <1>19
  <2> HIDE DEF is
  <2> QED BY <1>3, <1>4, <1>5, <1>6, <1>7, <1>8, <1>9, <1>10, <2>1 DEF Spot
<1> QED BY <1>1, <1>11, <1>12, <1>13, <1>14, <1>15, <1>16, <1>17, <1>18, <1>19

\* A copy has a spot at a place just when it is there, and no more than one.
LEMMA SpotThere ==
  ASSUME NEW k, NEW a \in Places
  PROVE  At(k, a) <=> \E l : Spot(l, k, a)
<1>1. ASSUME NEW p \in Publishers, a = <<"publisher", p>> PROVE At(k, a) <=> \E l : Spot(l, k, a)
  <2>1. (\E l : Spot(l, k, a)) <=> \E i \in DOMAIN pub[p] : pub[p][i] = k
    BY <1>1 DEF Spot
  <2> QED BY <1>1, <2>1, AtKinds DEF ToSet
<1>2. ASSUME NEW q \in Queues, a = <<"waiting", q>> PROVE At(k, a) <=> \E l : Spot(l, k, a)
  <2>1. (\E l : Spot(l, k, a)) <=> \E i \in DOMAIN waiting[q] : waiting[q][i].copy = k
    BY <1>2 DEF Spot
  <2> QED BY <1>2, <2>1, AtKinds DEF CopiesOf
<1>3. ASSUME NEW c \in Consumers, a = <<"unread", c>> PROVE At(k, a) <=> \E l : Spot(l, k, a)
  <2>1. (\E l : Spot(l, k, a)) <=> \E i \in DOMAIN unread[c] : unread[c][i].copy = k
    BY <1>3 DEF Spot
  <2> QED BY <1>3, <2>1, AtKinds DEF CopiesOf
<1>4. ASSUME NEW c \in Consumers, a = <<"unsettled", c>> PROVE At(k, a) <=> \E l : Spot(l, k, a)
  <2>1. (\E l : Spot(l, k, a)) <=> \E u \in unsettled[c] : u.d.copy = k
    BY <1>4 DEF Spot
  <2> QED BY <1>4, <2>1, AtKinds DEF InHand
<1>5. ASSUME NEW c \in Consumers, a = <<"returning", c>> PROVE At(k, a) <=> \E l : Spot(l, k, a)
  <2>1. (\E l : Spot(l, k, a)) <=> \E i \in DOMAIN returning[c] : returning[c][i].copy = k
    BY <1>5 DEF Spot
  <2> QED BY <1>5, <2>1, AtKinds DEF CopiesOf
<1>6. CASE a = <<"settling", 0>>
  BY <1>6, AtKinds DEF Spot, Deposited
<1>7. CASE a = <<"delayed", 0>>
  BY <1>7, AtKinds DEF Spot, Timed
<1>8. CASE a = <<"gone", 0>>
  BY <1>8, AtKinds DEF Spot
<1> QED BY <1>1, <1>2, <1>3, <1>4, <1>5, <1>6, <1>7, <1>8, PlaceKinds

LEMMA SpotOnce ==
  ASSUME OnceThere, NEW k, NEW a \in Places, NEW l, NEW m, Spot(l, k, a), Spot(m, k, a)
  PROVE  l = m
<1>1. CASE \E p \in Publishers : a = <<"publisher", p>>
  BY <1>1 DEF Spot, OnceThere, OncePublished, IsInjective
<1>2. CASE \E q \in Queues : a = <<"waiting", q>>
  BY <1>2 DEF Spot, OnceThere, OnceWaiting, EachOnce
<1>3. CASE \E c \in Consumers : a = <<"unread", c>>
  BY <1>3 DEF Spot, OnceThere, OnceUnread, EachOnce
<1>4. CASE \E c \in Consumers : a = <<"unsettled", c>>
  BY <1>4 DEF Spot, OnceThere, OnceInHand
<1>5. CASE \E c \in Consumers : a = <<"returning", c>>
  BY <1>5 DEF Spot, OnceThere, OnceReturning, EachOnce
<1>6. CASE a = <<"settling", 0>>
  BY <1>6 DEF Spot, OnceThere, OnceSettling
<1>7. CASE a = <<"delayed", 0>>
  BY <1>7 DEF Spot, OnceThere, OnceDelayed
<1>8. CASE a = <<"gone", 0>>
  BY <1>8 DEF Spot
<1> QED BY <1>1, <1>2, <1>3, <1>4, <1>5, <1>6, <1>7, <1>8, PlaceKinds

\* No message is lost and none is duplicated: a published copy is in one place,
\* and there once, until it is acknowledged, rejected, or has nowhere to go.
THEOREM NeitherLostNorDoubled == Spec => []OnePlacePerCopy
<1>1. Base /\ OnePlace /\ OnceThere => OnePlacePerCopy
  <2> SUFFICES ASSUME Base, OnePlace, OnceThere PROVE OnePlacePerCopy
    OBVIOUS
  <2>1. TypeOK
    BY DEF Base
  <2>2. \A l, k, a : Spot(l, k, a) => l[1] = k
    BY DEF Spot
  <2>3. \A l \in Located : l[1] \in Sent
    BY <2>1, <2>2, LocatedSpots, SpotThere DEF OnePlace, Sent
  <2>4. \A k \in Sent : \E l \in Located : l[1] = k
    <3> SUFFICES ASSUME NEW k \in Sent PROVE \E l \in Located : l[1] = k
      OBVIOUS
    <3>1. PICK a \in Places : At(k, a)
      BY DEF OnePlace, Sent
    <3>2. PICK l : Spot(l, k, a)
      BY <3>1, SpotThere
    <3> QED BY <2>1, <2>2, <3>2, LocatedSpots DEF Sent
  <2>5. \A l, m \in Located : l[1] = m[1] => l = m
    <3> SUFFICES ASSUME NEW l \in Located, NEW m \in Located, l[1] = m[1] PROVE l = m
      OBVIOUS
    <3>1. PICK k \in Copies : \E a \in Places : Spot(l, k, a)
      BY <2>1, LocatedSpots
    <3>2. PICK a \in Places : Spot(l, k, a)
      BY <3>1
    <3>3. PICK j \in Copies : \E b \in Places : Spot(m, j, b)
      BY <2>1, LocatedSpots
    <3>4. PICK b \in Places : Spot(m, j, b)
      BY <3>3
    <3>5. k = j
      BY <2>2, <3>2, <3>4
    <3>6. a = b
      BY <3>2, <3>4, <3>5, SpotThere DEF OnePlace
    <3> QED BY <3>2, <3>4, <3>5, <3>6, SpotOnce
  <2>6. {l[1] : l \in Located} = Sent
    BY <2>3, <2>4
  <2>7. Cardinality(Located) = Cardinality(Sent)
    <3> DEFINE f == [l \in Located |-> l[1]]
    <3>1. f \in Injection(Located, Sent)
      BY <2>3, <2>5 DEF Injection, IsInjective
    <3>2. f \in Surjection(Located, Sent)
      BY <2>3, <2>4 DEF Surjection
    <3>3. IsFiniteSet(Sent)
      BY DEF OnePlace, Sent
    <3> HIDE DEF f
    <3> QED BY <3>1, <3>2, <3>3, FS_Injection
  <2> QED BY <2>6, <2>7 DEF OnePlacePerCopy, Sent
<1> QED BY <1>1, PlaceInvariant, PTL
-----------------------------------------------------------------------------
(* What a queue that is not auto-delete holds is not lost. *)

\* Where a copy queue q holds is.
LEMMA HeldThere ==
  ASSUME NEW q, NEW d \in Holding(q)
  PROVE  \/ d.copy \in CopiesOf(waiting[q])
         \/ \E c \in Consumers : queueOf[c] = q /\ d \in ToSet(unread[c])
         \/ \E c \in Consumers : queueOf[c] = q /\ InHand(d.copy, c)
         \/ \E c \in Consumers : queueOf[c] = q /\ d \in ToSet(returning[c])
         \/ \E h \in handlers : h.step = "deliver" /\ queueOf[h.c] = q /\ h.dest = q /\ h.d = d
         \/ \E e \in delayed : e.to = q /\ e.d = d
<1> DEFINE mine == {c \in Consumers : queueOf[c] = q}
           Taken(c) == {u.d : u \in unsettled[c]} \cup ToSet(returning[c])
           TakenBy == UNION {Taken(c) : c \in mine}
           Back == {h.d : h \in {x \in handlers : x.step = "deliver" /\ x.c \in mine /\ x.dest = q}}
           Later == {e.d : e \in {x \in delayed : x.to = q}}
<1>1. d \in Pending(q) \/ d \in TakenBy \/ d \in Back \/ d \in Later
  <2>1. Holding(q) = Pending(q) \cup TakenBy \cup Back \cup Later
    BY DEF Holding
  <2> HIDE DEF TakenBy, Taken, mine, Back, Later
  <2> QED BY <2>1
<1>2. CASE d \in Pending(q)
  BY <1>2 DEF Pending, ToSet, CopiesOf
<1>3. CASE d \in TakenBy
  <2>1. PICK c \in mine : d \in Taken(c)
    BY <1>3
  <2>2. c \in Consumers /\ queueOf[c] = q
    BY <2>1
  <2>3. d \in ToSet(returning[c]) \/ \E u \in unsettled[c] : u.d = d
    BY <2>1
  <2> QED BY <2>2, <2>3 DEF InHand
<1>4. CASE d \in Back
  BY <1>4
<1>5. CASE d \in Later
  BY <1>5
<1> QED BY <1>1, <1>2, <1>3, <1>4, <1>5

LEMMA ToSetCopies ==
  ASSUME NEW s, NEW d \in ToSet(s)
  PROVE  d.copy \in CopiesOf(s)
BY DEF ToSet, CopiesOf

\* The first of a sequence is the only one with its copy.
LEMMA HeadAlone ==
  ASSUME NEW s \in Seq(Delivery), s # <<>>, EachOnce(s), NEW d \in ToSet(s), d.copy = Head(s).copy
  PROVE  d = Head(s)
<1>1. PICK i \in DOMAIN s : d = s[i]
  BY DEF ToSet
<1>2. 1 \in DOMAIN s /\ Head(s) = s[1]
  BY EmptySeq
<1> QED BY <1>1, <1>2 DEF EachOnce

LEMMA LandsLoses ==
  ASSUME TypeOK, NEW u, NEW q \in Queues, NEW d, Lands(u, q, d),
         NEW k \in Copies, fate[k] # "lost", fate'[k] = "lost"
  PROVE  k = d.copy /\ q \notin existing
BY DEF Lands, TypeOK

\* A delivery that comes back to q is lost only past its limit.
LEMMA RequeueLoses ==
  ASSUME TypeOK, NEW u, NEW q \in Queues, NEW d \in Delivery, Requeue(u, q, d),
         NEW k \in Copies, fate[k] # "lost", fate'[k] = "lost"
  PROVE  k = d.copy /\ (q \in existing => Spent(q, d) /\ DeadLetterTo[q] \notin existing)
<1>1. Returned(q, d).copy = d.copy /\ Afresh(d).copy = d.copy
  BY Onward
<1>2. CASE ~Spent(q, d) /\ Lands(u, q, Returned(q, d))
  BY <1>1, <1>2, LandsLoses
<1>3. CASE Spent(q, d) /\ DeadLetterTo[q] \in Queues /\ Lands(u, DeadLetterTo[q], Afresh(d))
  BY <1>1, <1>3, LandsLoses
<1>4. CASE fate' = [fate EXCEPT ![d.copy] = "rejected"]
  BY <1>4 DEF TypeOK
<1> QED BY <1>2, <1>3, <1>4, RequeueLands

LEMMA KeepsStep ==
  ASSUME Base, OnePlace, OnceThere, Next, NEW k \in Copies, fate[k] # "lost", fate'[k] = "lost",
         NEW q \in Queues \ AutoDelete, NEW d \in Holding(q), d.copy = k
  PROVE  Spent(q, d) /\ DeadLetterTo[q] \notin existing
<1> USE DEF Base
<1> DEFINE Goal == Spent(q, d) /\ DeadLetterTo[q] \notin existing
<1>a. \A c \in Consumers : c <= opened /\ queueOf[c] = q => q \in existing
  BY DEF Wired
<1>1. ASSUME NEW p \in Publishers, PublishDeliver(p) PROVE Goal
  <2> DEFINE a == <<"publisher", p>>
  <2>1. k = Head(pub[p])
    <3>1. NewDelivery(p).copy = Head(pub[p])
      BY DEF NewDelivery
    <3>2. Head(pub[p])[2] \in Queues /\ Lands(unread, Head(pub[p])[2], NewDelivery(p))
      BY <1>1, PublishHands
    <3>3. k = NewDelivery(p).copy
      BY <3>2, LandsLoses
    <3> QED BY <3>1, <3>3
  <2>2. k \in ToSet(pub[p])
    <3>1. pub[p] # <<>> /\ pub[p] \in Seq(Copies)
      BY <1>1 DEF PublishDeliver, TypeOK
    <3> QED BY <2>1, <3>1, TailTargets DEF OnceThere, OncePublished
  <2>3. a \in Places /\ At(k, a)
    BY <2>2, AtKinds, ArePlaces
  <2>4. /\ k \notin CopiesOf(waiting[q])
        /\ \A c \in Consumers : /\ k \notin CopiesOf(unread[c]) /\ ~InHand(k, c)
                                /\ k \notin CopiesOf(returning[c])
        /\ ~Deposited(k) /\ ~Timed(k)
    BY <2>3, OnlyThere
  <2>5. /\ \A h \in handlers : h.step = "deliver" => h.d.copy # k
        /\ \A e \in delayed : e.d.copy # k
    BY <2>4 DEF Deposited, Timed
  <2> QED BY <2>4, <2>5, HeldThere, ToSetCopies
<1>2. ASSUME NEW h \in handlers, SettleDeliver(h) PROVE Goal
  <2> DEFINE a == <<"settling", 0>>
  <2>1. k = h.d.copy /\ h.dest \notin existing /\ h.step = "deliver"
    BY <1>2, SettleHands, LandsLoses DEF SettleDeliver
  <2>2. Deposited(k)
    BY <2>1 DEF Deposited
  <2>3. a \in Places /\ At(k, a)
    BY <2>2, AtKinds, ArePlaces
  <2>4. /\ k \notin CopiesOf(waiting[q])
        /\ \A c \in Consumers : /\ k \notin CopiesOf(unread[c]) /\ ~InHand(k, c)
                                /\ k \notin CopiesOf(returning[c])
        /\ ~Timed(k)
    BY <2>3, OnlyThere
  <2>5. \A e \in delayed : e.d.copy # k
    BY <2>4 DEF Timed
  <2>6. PICK g \in handlers : g.step = "deliver" /\ queueOf[g.c] = q /\ g.dest = q /\ g.d = d
    BY <2>4, <2>5, HeldThere, ToSetCopies
  <2>7. g = h
    BY <2>1, <2>6 DEF OnceThere, OnceSettling
  <2>8. h.c \in Consumers /\ h.c <= opened
    BY HandlerTyped DEF HandlersFit
  <2> QED BY <1>a, <2>1, <2>6, <2>7, <2>8
<1>3. ASSUME NEW e \in delayed, DelayOver(e) PROVE Goal
  <2> DEFINE a == <<"delayed", 0>>
  <2>1. k = e.d.copy /\ e.to \notin existing
    BY <1>3, DelayHands, LandsLoses
  <2>2. Timed(k)
    BY <2>1 DEF Timed
  <2>3. a \in Places /\ At(k, a)
    BY <2>2, AtKinds, ArePlaces
  <2>4. /\ k \notin CopiesOf(waiting[q])
        /\ \A c \in Consumers : /\ k \notin CopiesOf(unread[c]) /\ ~InHand(k, c)
                                /\ k \notin CopiesOf(returning[c])
        /\ ~Deposited(k)
    BY <2>3, OnlyThere
  <2>5. \A h \in handlers : h.step = "deliver" => h.d.copy # k
    BY <2>4 DEF Deposited
  <2>6. PICK f \in delayed : f.to = q /\ f.d = d
    BY <2>4, <2>5, HeldThere, ToSetCopies
  <2>7. f = e
    BY <2>1, <2>6 DEF OnceThere, OnceDelayed
  <2> QED BY <2>1, <2>6, <2>7 DEF HandlersFit
<1>4. ASSUME NEW c \in Consumers, RequeueUnsettled(c) PROVE Goal
  <2> DEFINE a == <<"returning", c>>
  <2>1. /\ returning[c] # <<>> /\ returning[c] \in Seq(Delivery) /\ EachOnce(returning[c])
        /\ Head(returning[c]) \in Delivery /\ queueOf[c] \in Queues /\ c <= opened
        /\ Requeue(unread, queueOf[c], Head(returning[c]))
    BY <1>4, UnsettledHands DEF RequeueUnsettled, TypeOK, OnceThere, OnceReturning
  <2>2. /\ k = Head(returning[c]).copy
        /\ queueOf[c] \in existing =>
             /\ Spent(queueOf[c], Head(returning[c]))
             /\ DeadLetterTo[queueOf[c]] \notin existing
    BY <2>1, RequeueLoses
  <2>3. k \in CopiesOf(returning[c])
    BY <2>1, <2>2, TailCopies
  <2>4. a \in Places /\ At(k, a)
    BY <2>3, AtKinds, ArePlaces
  <2>5. /\ k \notin CopiesOf(waiting[q])
        /\ \A x \in Consumers : /\ k \notin CopiesOf(unread[x]) /\ ~InHand(k, x)
                                /\ x # c => k \notin CopiesOf(returning[x])
        /\ ~Deposited(k) /\ ~Timed(k)
    BY <2>4, OnlyThere
  <2>6. /\ \A h \in handlers : h.step = "deliver" => h.d.copy # k
        /\ \A e \in delayed : e.d.copy # k
    BY <2>5 DEF Deposited, Timed
  <2>7. queueOf[c] = q /\ d \in ToSet(returning[c])
    BY <2>5, <2>6, HeldThere, ToSetCopies
  <2>8. d = Head(returning[c])
    BY <2>1, <2>2, <2>7, HeadAlone
  <2> QED BY <1>a, <2>1, <2>2, <2>7, <2>8
<1>5. ASSUME NEW c \in Consumers, RequeueUnread(c) PROVE Goal
  <2> DEFINE a == <<"unread", c>>
  <2>1. PICK u : u = [unread EXCEPT ![c] = Tail(@)]
    OBVIOUS
  <2>2. /\ unread[c] # <<>> /\ unread[c] \in Seq(Delivery) /\ EachOnce(unread[c])
        /\ Head(unread[c]) \in Delivery /\ queueOf[c] \in Queues /\ c <= opened
        /\ Requeue(u, queueOf[c], Head(unread[c]))
    BY <1>5, <2>1, UnreadHands DEF RequeueUnread, TypeOK, OnceThere, OnceUnread
  <2>3. /\ k = Head(unread[c]).copy
        /\ queueOf[c] \in existing =>
             /\ Spent(queueOf[c], Head(unread[c]))
             /\ DeadLetterTo[queueOf[c]] \notin existing
    BY <2>2, RequeueLoses
  <2>4. k \in CopiesOf(unread[c])
    BY <2>2, <2>3, TailCopies
  <2>5. a \in Places /\ At(k, a)
    BY <2>4, AtKinds, ArePlaces
  <2>6. /\ k \notin CopiesOf(waiting[q])
        /\ \A x \in Consumers : /\ x # c => k \notin CopiesOf(unread[x])
                                /\ ~InHand(k, x) /\ k \notin CopiesOf(returning[x])
        /\ ~Deposited(k) /\ ~Timed(k)
    BY <2>5, OnlyThere
  <2>7. /\ \A h \in handlers : h.step = "deliver" => h.d.copy # k
        /\ \A e \in delayed : e.d.copy # k
    BY <2>6 DEF Deposited, Timed
  <2>8. queueOf[c] = q /\ d \in ToSet(unread[c])
    BY <2>6, <2>7, HeldThere, ToSetCopies
  <2>9. d = Head(unread[c])
    BY <2>2, <2>3, <2>8, HeadAlone
  <2> QED BY <1>a, <2>2, <2>3, <2>8, <2>9
<1>6. ASSUME NEW c \in Consumers, Cancel(c) PROVE fate' = fate
  BY <1>6, CancelKeeps
<1>7. ASSUME NEW h \in handlers, Settle(h) PROVE FALSE
  <2>1. \E f \in {"acked", "rejected", fate[h.d.copy]} : fate' = [fate EXCEPT ![h.d.copy] = f]
    BY <1>7 DEF Settle
  <2> QED BY <2>1 DEF TypeOK
<1>8. ASSUME NEW p \in Publishers, NEW m \in Messages, NEW route \in Routes[m], Publish(p, m, route)
      PROVE  FALSE
  BY <1>8 DEF Publish
<1>9. ASSUME NEW c \in Consumers,
             Receive(c) \/ TakeUnsettled(c) \/ StartDraining(c) \/ ReleaseUnread(c) \/ Dropped(c)
      PROVE  fate' = fate
  BY <1>9 DEF Receive, TakeUnsettled, StartDraining, ReleaseUnread, Dropped
<1>10. ASSUME NEW h \in handlers, Check(h) \/ Abandon(h) \/ SettleTooLate(h) \/ Release(h)
       PROVE  fate' = fate
  BY <1>10 DEF Check, Abandon, SettleTooLate, Release
<1>11. ASSUME (\E x \in Subscribed : Subscribe(x)) \/ Close PROVE fate' = fate
  BY <1>11 DEF Subscribe, Close, MarkClosed, ClearConsumers
<1> QED
  BY <1>1, <1>2, <1>3, <1>4, <1>5, <1>6, <1>7, <1>8, <1>9, <1>10, <1>11
     DEF Next, DropConsumer, Handle

\* What a queue that is not auto-delete holds is lost by nothing: not by the end of
\* its last consumer, nor by the close, nor by a return, unless past its limit and
\* with a dead-letter queue nobody opened.
THEOREM DurableKeeps == Spec => DurableQueueKeeps
<1> DEFINE Keeps ==
      \A k \in Copies :
        fate[k] # "lost" /\ fate'[k] = "lost" =>
          \A q \in Queues \ AutoDelete : \A d \in Holding(q) :
            d.copy = k => Spent(q, d) /\ DeadLetterTo[q] \notin existing
<1>1. ASSUME Base /\ OnePlace /\ OnceThere, [Next]_vars PROVE [Keeps]_vars
  <2>1. CASE Next
    BY <1>1, <2>1, KeepsStep
  <2>2. CASE UNCHANGED vars
    BY <2>2
  <2> QED BY <1>1, <2>1, <2>2
<1>2. Spec => [][Keeps]_vars
  <2> HIDE DEF Keeps
  <2> QED BY <1>1, PlaceInvariant, PTL DEF Spec
<1> QED BY <1>2 DEF DurableQueueKeeps
-----------------------------------------------------------------------------
(* One publisher's messages stay in the order it published them. *)

LEMMA LinesKept ==
  ASSUME NEW B, NEW C, B \subseteq C
  PROVE  /\ Line(<<>>, C)
         /\ \A s : Line(s, B) => Line(s, C)
         /\ \A s \in Seq(Delivery) : s # <<>> /\ Line(s, B) => Line(Tail(s), B)
<1>1. Line(<<>>, C) /\ \A s : Line(s, B) => Line(s, C)
  BY DEF Line
<1>2. ASSUME NEW s \in Seq(Delivery), s # <<>>, Line(s, B) PROVE Line(Tail(s), B)
  <2> DEFINE t == Tail(s)
  <2>1. \A i \in DOMAIN t : i + 1 \in DOMAIN s /\ t[i] = s[i + 1] /\ i \in Nat
    BY <1>2, EmptySeq
  <2> HIDE DEF t
  <2>2. Line(t, B)
    BY <1>2, <2>1 DEF Line
  <2> QED BY <2>2 DEF t
<1> QED BY <1>1, <1>2

\* What comes behind is handed out before, or of a later message.
LEMMA LineGrows ==
  ASSUME NEW B, NEW C, B \subseteq C, NEW s \in Seq(Delivery), NEW d \in Delivery, Line(s, B),
         d.redelivered \/ (d.copy[1] \in C /\ \A m \in B : m < d.copy[1])
  PROVE  Line(Append(s, d), C)
<1> DEFINE t == Append(s, d)
<1>1. /\ DOMAIN s = 1..Len(s) /\ Len(s) \in Nat /\ DOMAIN t = DOMAIN s \cup {Len(s) + 1}
      /\ t[Len(s) + 1] = d /\ \A i \in DOMAIN s : t[i] = s[i]
  OBVIOUS
<1> HIDE DEF t
<1>2. \A i \in DOMAIN t : ~t[i].redelivered => t[i].copy[1] \in C
  BY <1>1 DEF Line
<1>3. ASSUME NEW i \in DOMAIN t, NEW j \in DOMAIN t, i < j, ~t[i].redelivered, ~t[j].redelivered
      PROVE  t[i].copy[1] < t[j].copy[1]
  <2>1. i \in DOMAIN s
    BY <1>1, <1>3
  <2>2. CASE j \in DOMAIN s
    BY <1>1, <1>3, <2>1, <2>2 DEF Line
  <2>3. CASE j = Len(s) + 1
    BY <1>1, <1>3, <2>1, <2>3 DEF Line
  <2> QED BY <1>1, <2>2, <2>3
<1>4. Line(t, C)
  BY <1>2, <1>3 DEF Line
<1> QED BY <1>4 DEF t

\* A queue in line stays so when what lands there comes behind.
LEMMA LandsInLine ==
  ASSUME TypeOK, NEW u \in [Consumers -> Seq(Delivery)], NEW q \in Queues, NEW d \in Delivery,
         Lands(u, q, d), queueOf' = queueOf, NEW x \in Queues, Lined(x, u),
         Before(x) \subseteq Before(x)',
         q = x => d.redelivered \/ (d.copy[1] \in Before(x)' /\ \A m \in Before(x) : m < d.copy[1])
  PROVE  Lined(x, unread)'
<1> DEFINE B == Before(x)
           C == Before(x)'
<1>1. /\ B \subseteq C /\ Line(waiting[x], B) /\ waiting[x] \in Seq(Delivery)
      /\ \A c \in Consumers : queueOf[c] = x => Line(u[c], B)
      /\ q = x => d.redelivered \/ (d.copy[1] \in C /\ \A m \in B : m < d.copy[1])
  BY DEF Lined, TypeOK
<1> SUFFICES Line(waiting'[x], C) /\ \A c \in Consumers : queueOf[c] = x => Line(unread'[c], C)
  BY DEF Lined
<1> HIDE DEF B, C
<1>2. Line(waiting[x], C) /\ \A c \in Consumers : queueOf[c] = x => Line(u[c], C)
  BY <1>1, LinesKept
<1>3. q = x => Line(Append(waiting[x], d), C)
  BY <1>1, LineGrows
<1>4. \A c \in Consumers : queueOf[c] = x /\ q = x => Line(Append(u[c], d), C)
  BY <1>1, LineGrows
<1>5. CASE \E c \in ConsumersOf(q) : unread' = [u EXCEPT ![c] = Append(@, d)] /\ waiting' = waiting
  <2>1. PICK c \in ConsumersOf(q) : unread' = [u EXCEPT ![c] = Append(@, d)] /\ waiting' = waiting
    BY <1>5
  <2>2. c \in Consumers /\ queueOf[c] = q
    BY ListedAreConsumers DEF ConsumersOf
  <2>3. unread'[c] = Append(u[c], d) /\ \A y \in Consumers \ {c} : unread'[y] = u[y]
    BY <2>1, <2>2
  <2> QED BY <1>2, <1>4, <2>1, <2>2, <2>3
<1>6. CASE waiting' = [waiting EXCEPT ![q] = Append(@, d)] /\ unread' = u
  <2>1. /\ waiting'[q] = Append(waiting[q], d)
        /\ \A y \in Queues \ {q} : waiting'[y] = waiting[y]
    BY <1>6 DEF TypeOK
  <2> QED BY <1>2, <1>3, <1>6, <2>1
<1>7. CASE waiting' = waiting /\ unread' = u
  BY <1>2, <1>7
<1> QED BY <1>5, <1>6, <1>7 DEF Lands

\* What comes back to a queue was handed out before, and what it dead-letters goes
\* to a queue that is not plain.
LEMMA RequeueInLine ==
  ASSUME TypeOK, NEW u \in [Consumers -> Seq(Delivery)], NEW q \in Queues, NEW d \in Delivery,
         Requeue(u, q, d), queueOf' = queueOf, NEW x \in Queues, Plain(x), Lined(x, u),
         Before(x) \subseteq Before(x)'
  PROVE  Lined(x, unread)'
<1>1. Returned(q, d) \in Delivery /\ Returned(q, d).redelivered /\ Afresh(d) \in Delivery
  BY Onward
<1>2. CASE Lands(u, q, Returned(q, d))
  BY <1>1, <1>2, LandsInLine
<1>3. CASE DeadLetterTo[q] \in Queues /\ Lands(u, DeadLetterTo[q], Afresh(d))
  <2>1. DeadLetterTo[q] # x
    BY DEF Plain
  <2> QED BY <1>1, <1>3, <2>1, LandsInLine
<1>4. CASE unread' = u /\ waiting' = waiting
  <2> DEFINE B == Before(x)
             C == Before(x)'
  <2>1. /\ B \subseteq C /\ Line(waiting[x], B)
        /\ \A c \in Consumers : queueOf[c] = x => Line(u[c], B)
    BY DEF Lined
  <2> SUFFICES Line(waiting'[x], C) /\ \A c \in Consumers : queueOf[c] = x => Line(unread'[c], C)
    BY DEF Lined
  <2> HIDE DEF B, C
  <2> QED BY <1>4, <2>1, LinesKept
<1> QED BY <1>2, <1>3, <1>4, RequeueLands

\* The same copies are published as before.
SameSent == \A k \in Copies : fate'[k] = "unsent" <=> fate[k] = "unsent"

LEMMA LandsSent ==
  ASSUME TypeOK, NEW u, NEW q \in Queues, NEW d, Lands(u, q, d), fate[d.copy] # "unsent"
  PROVE  SameSent
BY DEF Lands, SameSent, TypeOK

LEMMA RequeueSent ==
  ASSUME TypeOK, NEW u, NEW q \in Queues, NEW d \in Delivery, Requeue(u, q, d),
         fate[d.copy] # "unsent"
  PROVE  SameSent
<1>1. Returned(q, d).copy = d.copy /\ Afresh(d).copy = d.copy
  BY Onward
<1>2. CASE fate' = [fate EXCEPT ![d.copy] = "rejected"]
  BY <1>2 DEF SameSent, TypeOK
<1> QED BY <1>1, <1>2, RequeueLands, LandsSent

\* While no message is published and publishers only hand over, what was before
\* the rest still is, and the parts about the publisher hold on.
LEMMA OrderKept ==
  ASSUME PublishedInOrder, SameSent, \A p \in Publishers : ToSet(pub'[p]) \subseteq ToSet(pub[p]),
         \A p \in Publishers : ToSet(pub[p]) \subseteq Copies
  PROVE  /\ \A m \in Messages : Unpublished(m)' <=> Unpublished(m)
         /\ \A m, n \in Messages : (~Unpublished(m) /\ Unpublished(n))' => m < n
         /\ \A p \in Publishers : \A k, l \in ToSet(pub'[p]) : k[1] = l[1] /\ ~Unpublished(k[1])'
         /\ \A x \in Queues : Before(x) \subseteq Before(x)'
<1>1. \A m \in Messages : Unpublished(m)' <=> Unpublished(m)
  BY DEF SameSent, Unpublished, Copies
<1>2. \A p \in Publishers : \A k \in ToSet(pub[p]) : k[1] \in Messages
  BY DEF Copies
<1>3. \A p \in Publishers : \A k, l \in ToSet(pub'[p]) : k[1] = l[1] /\ ~Unpublished(k[1])'
  BY <1>1, <1>2 DEF PublishedInOrder
<1>4. ASSUME NEW x \in Queues, NEW m \in Before(x) PROVE m \in Before(x)'
  <2>1. m \in Messages /\ ~Unpublished(m)'
    BY <1>1 DEF Before
  <2>2. \A p \in Publishers : \A k \in ToSet(pub'[p]) : k[2] = x => m < k[1]
    BY DEF Before
  <2> QED BY <2>1, <2>2 DEF Before
<1> QED BY <1>1, <1>3, <1>4 DEF PublishedInOrder

\* What the parts about the publisher, the queues and the settlements come to.
LEMMA InOrderNext ==
  ASSUME \A m, n \in Messages : (~Unpublished(m) /\ Unpublished(n))' => m < n,
         \A p \in Publishers : \A k, l \in ToSet(pub'[p]) : k[1] = l[1] /\ ~Unpublished(k[1])',
         \A x \in Queues : Plain(x) => Lined(x, unread)',
         \A h \in handlers' : h.step = "deliver" /\ Plain(h.dest) => h.d.redelivered
  PROVE  PublishedInOrder'
BY DEF PublishedInOrder, Plain

\* The steps after which the settlements have no more to deliver than before.
LEMMA InOrderStep ==
  ASSUME PublishedInOrder, SameSent, \A p \in Publishers : ToSet(pub'[p]) \subseteq ToSet(pub[p]),
         \A p \in Publishers : ToSet(pub[p]) \subseteq Copies,
         \A h \in handlers' : h.step = "deliver" => h \in handlers,
         \A x \in Queues : Plain(x) => Lined(x, unread)'
  PROVE  PublishedInOrder'
<1>1. \A h \in handlers' : h.step = "deliver" /\ Plain(h.dest) => h.d.redelivered
  BY DEF PublishedInOrder
<1> QED BY <1>1, OrderKept, InOrderNext

\* The queues stay in line while nothing comes to them.
LEMMA LinedKept ==
  ASSUME UNCHANGED <<waiting, queueOf>>, NEW u, unread' = u, NEW x \in Queues,
         Before(x) \subseteq Before(x)', Lined(x, u)
  PROVE  Lined(x, unread)'
<1> DEFINE B == Before(x)
           C == Before(x)'
<1>1. /\ B \subseteq C /\ Line(waiting[x], B)
      /\ \A c \in Consumers : queueOf[c] = x => Line(u[c], B)
  BY DEF Lined
<1> SUFFICES Line(waiting'[x], C) /\ \A c \in Consumers : queueOf[c] = x => Line(unread'[c], C)
  BY DEF Lined
<1> HIDE DEF B, C
<1> QED BY <1>1, LinesKept

\* A channel without its first delivery is in line.
LEMMA LinedTail ==
  ASSUME TypeOK, NEW c \in Consumers, unread[c] # <<>>, NEW u, u = [unread EXCEPT ![c] = Tail(@)],
         NEW x \in Queues, Lined(x, unread)
  PROVE  Lined(x, u)
<1> DEFINE B == Before(x)
<1>1. /\ Line(waiting[x], B)
      /\ \A y \in Consumers : queueOf[y] = x => Line(unread[y], B)
  BY DEF Lined
<1> SUFFICES \A y \in Consumers : queueOf[y] = x => Line(u[y], B)
  BY <1>1 DEF Lined
<1> HIDE DEF B
<1>2. unread[c] \in Seq(Delivery) /\ u[c] = Tail(unread[c])
      /\ \A y \in Consumers \ {c} : u[y] = unread[y]
  BY DEF TypeOK
<1>3. queueOf[c] = x => Line(Tail(unread[c]), B)
  BY <1>1, <1>2, LinesKept
<1> QED BY <1>1, <1>2, <1>3

LEMMA PublishedOrder ==
  ASSUME Base, OnePublisher, PublishedInOrder, NEW p \in Publishers, NEW m \in Messages,
         NEW route \in Routes[m], Publish(p, m, route)
  PROVE  PublishedInOrder'
<1> USE DEF Base
<1>1. route \in Seq(Queues) /\ route # <<>> /\ Messages \subseteq Nat
  BY BusAssumption
<1>2. PICK q \in Queues : q \in ToSet(route)
  <2>1. 1 \in DOMAIN route /\ route[1] \in Queues
    BY <1>1, EmptySeq
  <2> QED BY <2>1 DEF ToSet
<1>3. PICK s : s = [i \in DOMAIN route |-> <<m, route[i]>>]
  OBVIOUS
<1>4. /\ pub[p] = <<>> /\ pub' = [pub EXCEPT ![p] = s]
      /\ Unpublished(m) /\ \A n \in Messages : Unpublished(n) => m <= n
      /\ fate' = [k \in Copies |-> IF k[1] = m /\ k[2] \in ToSet(route) THEN "held" ELSE fate[k]]
      /\ UNCHANGED <<waiting, queueOf, unread, handlers>>
  BY <1>3 DEF Publish, queueVars
<1>5. ~Unpublished(m)' /\ \A n \in Messages \ {m} : Unpublished(n)' <=> Unpublished(n)
  <2>1. fate'[<<m, q>>] = "held" /\ \A n \in Messages \ {m} : \A x \in Queues : fate'[<<n, x>>] = fate[<<n, x>>]
    BY <1>2, <1>4 DEF Copies
  <2> QED BY <2>1 DEF Unpublished
<1>6. \A n \in Messages \ {m} : /\ Unpublished(n) => m < n
                                /\ ~Unpublished(n) => n < m
  <2>1. \A n \in Messages \ {m} : Unpublished(n) => m < n
    BY <1>1, <1>4
  <2> QED BY <1>4, <2>1 DEF PublishedInOrder
<1>7. \A n, o \in Messages : (~Unpublished(n) /\ Unpublished(o))' => n < o
  BY <1>4, <1>5, <1>6 DEF PublishedInOrder
<1>8. \A r \in Publishers : \A k \in ToSet(pub'[r]) : k[1] = m
  <2>1. \A r \in Publishers : r = p /\ pub'[r] = s
    BY <1>4 DEF OnePublisher, TypeOK
  <2>2. \A k \in ToSet(s) : k[1] = m
    BY <1>3 DEF ToSet
  <2> QED BY <2>1, <2>2
<1>9. \A r \in Publishers : \A k, l \in ToSet(pub'[r]) : k[1] = l[1] /\ ~Unpublished(k[1])'
  BY <1>5, <1>8
<1>10. \A x \in Queues : Before(x) \subseteq Before(x)'
  <2> SUFFICES ASSUME NEW x \in Queues, NEW n \in Before(x) PROVE n \in Before(x)'
    OBVIOUS
  <2>1. n \in Messages /\ ~Unpublished(n)
    BY DEF Before
  <2>2. n # m /\ n < m /\ ~Unpublished(n)'
    BY <1>4, <1>5, <1>6, <2>1
  <2> QED BY <1>8, <2>1, <2>2 DEF Before
<1>11. \A x \in Queues : Plain(x) => Lined(x, unread)'
  <2> SUFFICES ASSUME NEW x \in Queues, Plain(x) PROVE Lined(x, unread)'
    OBVIOUS
  <2>1. PICK u : u = unread
    OBVIOUS
  <2>2. Lined(x, u)
    BY <2>1 DEF PublishedInOrder
  <2> QED BY <1>4, <1>10, <2>1, <2>2, LinedKept
<1>12. \A h \in handlers' : h.step = "deliver" /\ Plain(h.dest) => h.d.redelivered
  BY <1>4 DEF PublishedInOrder
<1> QED BY <1>7, <1>9, <1>11, <1>12, InOrderNext

LEMMA PublishOrder ==
  ASSUME Base, OnePlace, OnceThere, OnePublisher, PublishedInOrder,
         NEW p \in Publishers, PublishDeliver(p)
  PROVE  PublishedInOrder'
<1> USE DEF Base
<1>1. PICK k : k = Head(pub[p])
  OBVIOUS
<1>2. PICK d : d = NewDelivery(p)
  OBVIOUS
<1>3. /\ pub[p] # <<>> /\ pub[p] \in Seq(Copies) /\ pub' = [pub EXCEPT ![p] = Tail(@)]
      /\ UNCHANGED <<handlers, queueOf>>
  BY DEF PublishDeliver, TypeOK
<1>4. /\ k \in ToSet(pub[p]) /\ ToSet(Tail(pub[p])) = ToSet(pub[p]) \ {k}
  BY <1>1, <1>3, TailTargets DEF OnceThere, OncePublished
<1>5. /\ pub'[p] = Tail(pub[p]) /\ \A r \in Publishers : r = p
  BY <1>3 DEF TypeOK, OnePublisher
<1>6. /\ k \in Copies /\ k[2] \in Queues /\ d \in Delivery /\ d.copy = k
      /\ Lands(unread, k[2], d) /\ unread \in [Consumers -> Seq(Delivery)]
  BY <1>1, <1>2, PublishHands DEF NewDelivery
<1>7. ToSet(pub[p]) \subseteq Copies
  BY <1>3 DEF ToSet
<1>8. fate[k] # "unsent"
  BY <1>4, <1>6, AtKinds, ArePlaces DEF OnePlace
<1>9. SameSent
  BY <1>6, <1>8, LandsSent
<1>10. /\ \A m \in Messages : Unpublished(m)' <=> Unpublished(m)
       /\ \A x \in Queues : Before(x) \subseteq Before(x)'
  BY <1>4, <1>5, <1>7, <1>9, OrderKept
<1>11. k[1] \in Messages /\ k[1] \in Before(k[2])'
  <2>1. k[1] \in Messages /\ ~Unpublished(k[1])'
    BY <1>4, <1>6, <1>10 DEF PublishedInOrder, Copies
  <2>2. \A l \in ToSet(pub[p]) : l[1] = k[1] /\ (l[2] = k[2] => l = k)
    BY <1>4, <1>6, <1>7 DEF PublishedInOrder, Copies
  <2>3. \A r \in Publishers : \A l \in ToSet(pub'[r]) : l[2] # k[2]
    BY <1>4, <1>5, <2>2
  <2> QED BY <2>1, <2>3 DEF Before
<1>12. \A m \in Before(k[2]) : m < k[1]
  BY <1>4 DEF Before
<1>13. \A x \in Queues : Plain(x) => Lined(x, unread)'
  <2> SUFFICES ASSUME NEW x \in Queues, Plain(x) PROVE Lined(x, unread)'
    OBVIOUS
  <2>1. Lined(x, unread) /\ Before(x) \subseteq Before(x)'
    BY <1>10 DEF PublishedInOrder
  <2> QED BY <1>3, <1>6, <1>11, <1>12, <2>1, LandsInLine
<1> QED BY <1>3, <1>4, <1>5, <1>7, <1>9, <1>13, InOrderStep

\* A delivery that a settlement, a delay or a closing consumer hands over is out of
\* its turn only where the order does not matter.
LEMMA DepositOrder ==
  ASSUME Base, OnePlace, PublishedInOrder, NEW h \in handlers, SettleDeliver(h)
  PROVE  PublishedInOrder'
<1> USE DEF Base
<1>1. /\ h.d \in Delivery /\ h.d.copy \in Copies /\ h.dest \in Queues /\ h.step = "deliver"
      /\ Lands(unread, h.dest, h.d) /\ unread \in [Consumers -> Seq(Delivery)]
      /\ Becomes(h, Over(h)) /\ Over(h).step = "done"
      /\ UNCHANGED <<pub, queueOf>>
  <2>1. h \in Handler
    BY HandlerTyped
  <2>2. Over(h).step = "done"
    BY <2>1 DEF Over, Handler
  <2>3. UNCHANGED <<pub, queueOf>>
    BY DEF SettleDeliver
  <2> QED BY <2>2, <2>3, SettleHands, HandlerTyped DEF SettleDeliver
<1>2. Deposited(h.d.copy)
  BY <1>1 DEF Deposited
<1>3. fate[h.d.copy] # "unsent"
  BY <1>1, <1>2, AtKinds, ArePlaces DEF OnePlace
<1>4. SameSent
  BY <1>1, <1>3, LandsSent
<1>5. \A p \in Publishers : ToSet(pub[p]) \subseteq Copies /\ pub'[p] = pub[p]
  BY <1>1 DEF TypeOK, ToSet
<1>6. \A x \in Queues : Before(x) \subseteq Before(x)'
  BY <1>4, <1>5, OrderKept
<1>7. \A g \in handlers' : g.step = "deliver" => g \in handlers
  BY <1>1 DEF Becomes
<1>8. \A x \in Queues : Plain(x) => Lined(x, unread)'
  <2> SUFFICES ASSUME NEW x \in Queues, Plain(x) PROVE Lined(x, unread)'
    OBVIOUS
  <2>1. Lined(x, unread) /\ Before(x) \subseteq Before(x)' /\ (h.dest = x => h.d.redelivered)
    BY <1>1, <1>6 DEF PublishedInOrder
  <2> QED BY <1>1, <2>1, LandsInLine
<1> QED BY <1>4, <1>5, <1>7, <1>8, InOrderStep

LEMMA DelayOrder ==
  ASSUME Base, OnePlace, PublishedInOrder, NEW e \in delayed, DelayOver(e)
  PROVE  PublishedInOrder'
<1> USE DEF Base
<1>1. /\ e.d \in Delivery /\ e.d.copy \in Copies /\ e.to \in Queues /\ e.to \in Delaying
      /\ Lands(unread, e.to, e.d) /\ unread \in [Consumers -> Seq(Delivery)]
      /\ UNCHANGED <<pub, queueOf, handlers>>
  BY DelayHands DEF DelayOver, HandlersFit, Delivery
<1>2. Timed(e.d.copy)
  BY DEF Timed
<1>3. fate[e.d.copy] # "unsent"
  BY <1>1, <1>2, AtKinds, ArePlaces DEF OnePlace
<1>4. SameSent
  BY <1>1, <1>3, LandsSent
<1>5. \A p \in Publishers : ToSet(pub[p]) \subseteq Copies /\ pub'[p] = pub[p]
  BY <1>1 DEF TypeOK, ToSet
<1>6. \A x \in Queues : Before(x) \subseteq Before(x)'
  BY <1>4, <1>5, OrderKept
<1>7. \A x \in Queues : Plain(x) => Lined(x, unread)'
  <2> SUFFICES ASSUME NEW x \in Queues, Plain(x) PROVE Lined(x, unread)'
    OBVIOUS
  <2>1. Lined(x, unread) /\ Before(x) \subseteq Before(x)' /\ e.to # x
    BY <1>1, <1>6 DEF PublishedInOrder, Plain
  <2> QED BY <1>1, <2>1, LandsInLine
<1> QED BY <1>1, <1>4, <1>5, <1>7, InOrderStep

LEMMA RequeueOrder ==
  ASSUME Base, PublishedInOrder, NEW u \in [Consumers -> Seq(Delivery)], NEW q \in Queues,
         NEW d \in Delivery, Requeue(u, q, d), fate[d.copy] # "unsent",
         \A x \in Queues : Plain(x) => Lined(x, u),
         UNCHANGED <<pub, queueOf, handlers>>
  PROVE  PublishedInOrder'
<1> USE DEF Base
<1>1. SameSent
  BY RequeueSent
<1>2. \A p \in Publishers : ToSet(pub[p]) \subseteq Copies /\ pub'[p] = pub[p]
  BY DEF TypeOK, ToSet
<1>3. \A x \in Queues : Before(x) \subseteq Before(x)'
  BY <1>1, <1>2, OrderKept
<1>4. \A x \in Queues : Plain(x) => Lined(x, unread)'
  BY <1>3, RequeueInLine
<1> QED BY <1>1, <1>2, <1>4, InOrderStep

LEMMA ReturnOrder ==
  ASSUME Base, OnePlace, OnceThere, PublishedInOrder, NEW c \in Consumers,
         RequeueUnsettled(c) \/ RequeueUnread(c)
  PROVE  PublishedInOrder'
<1> USE DEF Base
<1>1. CASE RequeueUnsettled(c)
  <2>1. PICK d : d = Head(returning[c])
    OBVIOUS
  <2>2. /\ returning[c] # <<>> /\ returning[c] \in Seq(Delivery)
        /\ d \in Delivery /\ queueOf[c] \in Queues
        /\ Requeue(unread, queueOf[c], d) /\ unread \in [Consumers -> Seq(Delivery)]
        /\ UNCHANGED <<pub, queueOf, handlers>>
    BY <1>1, <2>1, UnsettledHands DEF RequeueUnsettled, TypeOK
  <2>3. d.copy \in CopiesOf(returning[c]) /\ d.copy \in Copies
    BY <2>1, <2>2, TailCopies DEF OnceThere, OnceReturning, Delivery
  <2>4. fate[d.copy] # "unsent"
    BY <2>3, AtKinds, ArePlaces DEF OnePlace
  <2>5. \A x \in Queues : Plain(x) => Lined(x, unread)
    BY DEF PublishedInOrder
  <2>6. PICK u : u = unread
    OBVIOUS
  <2> QED BY <2>2, <2>4, <2>5, <2>6, RequeueOrder
<1>2. CASE RequeueUnread(c)
  <2>1. PICK d : d = Head(unread[c])
    OBVIOUS
  <2>2. PICK u : u = [unread EXCEPT ![c] = Tail(@)]
    OBVIOUS
  <2>3. /\ unread[c] # <<>> /\ unread[c] \in Seq(Delivery)
        /\ d \in Delivery /\ queueOf[c] \in Queues
        /\ Requeue(u, queueOf[c], d) /\ u \in [Consumers -> Seq(Delivery)]
        /\ UNCHANGED <<pub, queueOf, handlers>>
    BY <1>2, <2>1, <2>2, UnreadHands DEF RequeueUnread, TypeOK
  <2>4. d.copy \in CopiesOf(unread[c]) /\ d.copy \in Copies
    BY <2>1, <2>3, TailCopies DEF OnceThere, OnceUnread, Delivery
  <2>5. fate[d.copy] # "unsent"
    BY <2>4, AtKinds, ArePlaces DEF OnePlace
  <2>6. \A x \in Queues : Plain(x) => Lined(x, u)
    BY <2>2, <2>3, LinedTail DEF PublishedInOrder
  <2> QED BY <2>3, <2>5, <2>6, RequeueOrder
<1> QED BY <1>1, <1>2

\* A new consumer is sent what its queue kept, in the order it was kept.
LEMMA SubscribeOrder ==
  ASSUME Base, PublishedInOrder, NEW q \in Subscribed, Subscribe(q)
  PROVE  PublishedInOrder'
<1> USE DEF Base
<1>1. PICK c : c = opened + 1
  OBVIOUS
<1>2. /\ q \in Queues /\ c \in Consumers /\ c > opened
      /\ unread' = [unread EXCEPT ![c] = waiting[q]]
      /\ waiting' = [waiting EXCEPT ![q] = <<>>]
      /\ queueOf' = [queueOf EXCEPT ![c] = q]
      /\ UNCHANGED <<handlers, pub, fate>>
  <2>1. q \in Queues
    BY BusAssumption
  <2>2. c \in Consumers /\ unread' = [unread EXCEPT ![c] = waiting[q]]
    BY <1>1, <2>1, SubscribeSends
  <2>3. opened \in Nat /\ c > opened
    BY <1>1, BusAssumption DEF TypeOK
  <2> QED BY <1>1, <2>1, <2>2, <2>3 DEF Subscribe
<1>3. /\ unread'[c] = waiting[q] /\ queueOf'[c] = q
      /\ \A x \in Consumers \ {c} : unread'[x] = unread[x] /\ queueOf'[x] = queueOf[x]
      /\ waiting'[q] = <<>> /\ \A x \in Queues \ {q} : waiting'[x] = waiting[x]
  BY <1>2 DEF TypeOK
<1>4. SameSent /\ \A p \in Publishers : ToSet(pub[p]) \subseteq Copies /\ pub'[p] = pub[p]
  BY <1>2 DEF SameSent, TypeOK, ToSet
<1>5. \A x \in Queues : Before(x) \subseteq Before(x)'
  BY <1>4, OrderKept
<1>6. \A x \in Queues : Plain(x) => Lined(x, unread)'
  <2> SUFFICES ASSUME NEW x \in Queues, Plain(x) PROVE Lined(x, unread)'
    OBVIOUS
  <2> DEFINE B == Before(x)
             C == Before(x)'
  <2>1. /\ B \subseteq C /\ Line(waiting[x], B)
        /\ \A y \in Consumers : queueOf[y] = x => Line(unread[y], B)
    BY <1>5 DEF PublishedInOrder, Lined
  <2> SUFFICES Line(waiting'[x], C) /\ \A y \in Consumers : queueOf'[y] = x => Line(unread'[y], C)
    BY DEF Lined
  <2> HIDE DEF B, C
  <2>2. /\ Line(<<>>, C) /\ Line(waiting[x], C)
        /\ \A y \in Consumers : queueOf[y] = x => Line(unread[y], C)
    BY <2>1, LinesKept
  <2> QED BY <1>3, <2>2
<1> QED BY <1>2, <1>4, <1>6, InOrderStep

LEMMA ReceiveOrder ==
  ASSUME Base, PublishedInOrder, NEW c \in Consumers, Receive(c)
  PROVE  PublishedInOrder'
<1> USE DEF Base
<1>1. PICK u : u = [unread EXCEPT ![c] = Tail(@)]
  OBVIOUS
<1>2. /\ unread[c] # <<>> /\ unread' = u
      /\ UNCHANGED <<waiting, queueOf, pub, fate>>
  BY <1>1 DEF Receive, queueVars
<1>3. SameSent /\ \A p \in Publishers : ToSet(pub[p]) \subseteq Copies /\ pub'[p] = pub[p]
  BY <1>2 DEF SameSent, TypeOK, ToSet
<1>4. \A x \in Queues : Before(x) \subseteq Before(x)'
  BY <1>3, OrderKept
<1>5. \A x \in Queues : Plain(x) => Lined(x, unread)'
  <2> SUFFICES ASSUME NEW x \in Queues, Plain(x) PROVE Lined(x, unread)'
    OBVIOUS
  <2>1. Lined(x, u)
    BY <1>1, <1>2, LinedTail DEF PublishedInOrder
  <2> QED BY <1>2, <1>4, <2>1, LinedKept
<1>6. \A h \in handlers' : h.step = "deliver" => h \in handlers
  BY DEF Receive
<1> QED BY <1>3, <1>5, <1>6, InOrderStep

LEMMA SettledOrder ==
  ASSUME Base, OnePlace, PublishedInOrder, NEW h \in handlers, Settle(h)
  PROVE  PublishedInOrder'
<1> USE DEF Base
<1>1. /\ h \in Handler /\ h.c \in Consumers /\ h.d \in Delivery /\ h.d.copy \in Copies
      /\ queueOf[h.c] \in Queues
  BY HandlerTyped DEF HandlersFit, Wired
<1>2. UNCHANGED <<waiting, queueOf, unread, pub>>
  BY DEF Settle, queueVars
<1>3. fate[h.d.copy] # "unsent"
  <2>1. PICK u \in unsettled[h.c] : u.tag = h.tag
    BY DEF Settle, IsUnsettled
  <2>2. u.d = h.d
    BY <2>1 DEF Settle, HandlersFit
  <2>3. InHand(h.d.copy, h.c)
    BY <2>1, <2>2 DEF InHand
  <2>4. At(h.d.copy, <<"unsettled", h.c>>) /\ <<"unsettled", h.c>> \in Places
    BY <1>1, <2>3, AtKinds, ArePlaces
  <2> QED BY <1>1, <2>4 DEF OnePlace
<1>4. SameSent
  <2>1. \E f \in {"acked", "rejected", fate[h.d.copy]} : fate' = [fate EXCEPT ![h.d.copy] = f]
    BY DEF Settle
  <2> QED BY <1>3, <2>1 DEF SameSent, TypeOK
<1>5. \A p \in Publishers : ToSet(pub[p]) \subseteq Copies /\ pub'[p] = pub[p]
  BY <1>2 DEF TypeOK, ToSet
<1>6. \A x \in Queues : Before(x) \subseteq Before(x)'
  BY <1>4, <1>5, OrderKept
<1>7. \A x \in Queues : Plain(x) => Lined(x, unread)'
  <2> SUFFICES ASSUME NEW x \in Queues, Plain(x) PROVE Lined(x, unread)'
    OBVIOUS
  <2>1. PICK u : u = unread
    OBVIOUS
  <2>2. Lined(x, u)
    BY <2>1 DEF PublishedInOrder
  <2> QED BY <1>2, <1>6, <2>1, <2>2, LinedKept
<1>8. \A g \in handlers' : g.step = "deliver" /\ Plain(g.dest) => g.d.redelivered
  <2> DEFINE q == queueOf[h.c]
  <2>1. CASE Becomes(h, Over(h))
    <3>1. Over(h).step = "done"
      BY <1>1 DEF Over, Handler
    <3> QED BY <2>1, <3>1 DEF Becomes, PublishedInOrder
  <2>2. CASE Destination(h) # NoQueue
    <3>1. PICK g : g = [h EXCEPT !.d = Onwards(h), !.dest = Destination(h), !.step = "deliver"]
      OBVIOUS
    <3>2. handlers' = (handlers \ {h}) \cup {g}
      BY <2>2, <3>1 DEF Settle, Becomes
    <3>3. g.d = Onwards(h) /\ g.dest = Destination(h)
      BY <1>1, <3>1 DEF Handler
    <3>4. CASE h.verdict = "requeue" /\ ~Spent(q, h.d)
      <4>1. Onwards(h) = Returned(q, h.d) /\ Returned(q, h.d).redelivered
        BY <1>1, <3>4, Onward DEF Onwards
      <4> QED BY <3>2, <3>3, <4>1 DEF PublishedInOrder
    <3>5. CASE ~(h.verdict = "requeue" /\ ~Spent(q, h.d))
      <4>1. Destination(h) = DeadLetterTo[q]
        BY <2>2, <3>5 DEF Destination
      <4>2. ~Plain(Destination(h))
        BY <1>1, <4>1 DEF Plain
      <4> QED BY <3>2, <3>3, <4>2 DEF PublishedInOrder
    <3> QED BY <3>4, <3>5
  <2> QED BY <2>1, <2>2 DEF Settle
<1> QED BY <1>4, <1>5, <1>7, <1>8, OrderKept, InOrderNext

\* The steps that move nothing to or from a publisher, a queue or a channel.
LEMMA AsideOrder ==
  ASSUME Base, PublishedInOrder, UNCHANGED <<waiting, queueOf, unread, pub, fate>>,
         \A h \in handlers' : h.step = "deliver" => h \in handlers
  PROVE  PublishedInOrder'
<1> USE DEF Base
<1>1. SameSent /\ \A p \in Publishers : ToSet(pub[p]) \subseteq Copies /\ pub'[p] = pub[p]
  BY DEF SameSent, TypeOK, ToSet
<1>2. \A x \in Queues : Before(x) \subseteq Before(x)'
  BY <1>1, OrderKept
<1>3. \A x \in Queues : Plain(x) => Lined(x, unread)'
  <2> SUFFICES ASSUME NEW x \in Queues, Plain(x) PROVE Lined(x, unread)'
    OBVIOUS
  <2>1. PICK u : u = unread
    OBVIOUS
  <2>2. Lined(x, u)
    BY <2>1 DEF PublishedInOrder
  <2> QED BY <1>2, <2>1, <2>2, LinedKept
<1> QED BY <1>1, <1>3, InOrderStep

LEMMA OrderStep ==
  ASSUME Base, OnePlace, OnceThere, OnePublisher, PublishedInOrder, Next
  PROVE  PublishedInOrder'
<1> USE DEF Base
<1>1. ASSUME NEW q \in Subscribed, Subscribe(q) PROVE PublishedInOrder'
  BY <1>1, SubscribeOrder
<1>2. ASSUME NEW p \in Publishers, NEW m \in Messages, NEW route \in Routes[m], Publish(p, m, route)
      PROVE  PublishedInOrder'
  BY <1>2, PublishedOrder
<1>3. ASSUME NEW p \in Publishers, PublishDeliver(p) PROVE PublishedInOrder'
  BY <1>3, PublishOrder
<1>4. ASSUME NEW c \in Consumers, Receive(c) PROVE PublishedInOrder'
  BY <1>4, ReceiveOrder
<1>5. ASSUME NEW c \in Consumers, Cancel(c) PROVE PublishedInOrder'
  <2>1. UNCHANGED <<waiting, fate>>
    BY <1>5, CancelKeeps
  <2> QED BY <1>5, <2>1, AsideOrder DEF Cancel
<1>6. ASSUME NEW c \in Consumers,
             TakeUnsettled(c) \/ StartDraining(c) \/ ReleaseUnread(c) \/ Dropped(c)
      PROVE  PublishedInOrder'
  BY <1>6, AsideOrder DEF TakeUnsettled, StartDraining, ReleaseUnread, Dropped, queueVars
<1>7. ASSUME NEW c \in Consumers, RequeueUnsettled(c) \/ RequeueUnread(c) PROVE PublishedInOrder'
  BY <1>7, ReturnOrder
<1>8. ASSUME NEW h \in handlers, Settle(h) PROVE PublishedInOrder'
  BY <1>8, SettledOrder
<1>9. ASSUME NEW h \in handlers, SettleDeliver(h) PROVE PublishedInOrder'
  BY <1>9, DepositOrder
<1>10. ASSUME NEW h \in handlers, Check(h) \/ Abandon(h) \/ SettleTooLate(h) \/ Release(h)
       PROVE  PublishedInOrder'
  <2>1. UNCHANGED <<waiting, queueOf, unread, pub, fate>>
    BY <1>10 DEF Check, Abandon, SettleTooLate, Release, queueVars
  <2>2. \A g \in handlers' : g.step = "deliver" => g \in handlers
    <3>1. h \in Handler /\ Over(h).step = "done"
      BY HandlerTyped DEF Over, Handler
    <3>2. \A v : [h EXCEPT !.verdict = v, !.step = "checked"].step = "checked"
      BY <3>1 DEF Handler
    <3> QED BY <1>10, <3>1, <3>2 DEF Check, Abandon, SettleTooLate, Release, Becomes
  <2> QED BY <2>1, <2>2, AsideOrder
<1>11. ASSUME NEW e \in delayed, DelayOver(e) PROVE PublishedInOrder'
  BY <1>11, DelayOrder
<1>12. ASSUME Close PROVE PublishedInOrder'
  BY <1>12, AsideOrder DEF Close, MarkClosed, ClearConsumers, queueVars
<1> QED
  BY <1>1, <1>2, <1>3, <1>4, <1>5, <1>6, <1>7, <1>8, <1>9, <1>10, <1>11, <1>12
     DEF Next, DropConsumer, Handle

LEMMA OrderInit ==
  ASSUME Init
  PROVE  PublishedInOrder
<1>1. /\ \A m \in Messages : Unpublished(m)
      /\ \A p \in Publishers : ToSet(pub[p]) = {}
  BY DEF Init, Unpublished, Copies, ToSet
<1>2. ASSUME NEW q \in Queues PROVE Lined(q, unread)
  <2>1. PICK B : B = Before(q)
    OBVIOUS
  <2>2. Line(<<>>, B)
    BY LinesKept
  <2>3. waiting[q] = <<>> /\ \A c \in Consumers : unread[c] = <<>>
    BY DEF Init
  <2> QED BY <2>1, <2>2, <2>3 DEF Lined
<1>3. handlers = {}
  BY DEF Init
<1> QED BY <1>1, <1>2, <1>3 DEF PublishedInOrder

\* The inductive invariant holds.
THEOREM Invariant == Spec => []IInv
<1> DEFINE Placed == Base /\ OnePlace /\ OnceThere
           Order == OnePublisher => PublishedInOrder
<1>1. Init => Order
  BY OrderInit
<1>2. ASSUME Placed, Order, [Next]_vars PROVE Order'
  <2> SUFFICES ASSUME OnePublisher PROVE PublishedInOrder'
    BY DEF OnePublisher
  <2>1. CASE Next
    BY <1>2, <2>1, OrderStep
  <2>2. CASE UNCHANGED vars
    BY <1>2, <2>2, AsideOrder DEF vars
  <2> QED BY <1>2, <2>1, <2>2
<1>3. Spec => []Placed
  BY PlaceInvariant
<1>4. Spec => []Order
  <2> HIDE DEF Placed, Order
  <2> QED BY <1>1, <1>2, <1>3, PTL DEF Spec
<1>5. Placed /\ WithinLimits /\ Order => IInv
  BY DEF IInv, Base, Counted
<1>6. Spec => [](Base /\ WithinLimits)
  BY LimitsInvariant
<1> HIDE DEF Placed, Order
<1> QED BY <1>3, <1>4, <1>5, <1>6, PTL

\* A consumer is sent one publisher's messages in the order they were published,
\* those its queue kept before those that came after; only what comes back, from a
\* delay or as a dead letter takes its place behind.
THEOREM SentInOrder == Spec => []FreshInOrder
<1>1. IInv => FreshInOrder
  <2> SUFFICES ASSUME IInv, NEW c \in Consumers, OnePublisher,
                      queueOf[c] \notin Delaying \cup {DeadLetterTo[q] : q \in Queues},
                      NEW i \in DOMAIN unread[c], NEW j \in DOMAIN unread[c], i < j,
                      ~unread[c][i].redelivered, ~unread[c][j].redelivered
               PROVE  unread[c][i].copy[1] < unread[c][j].copy[1]
    BY DEF FreshInOrder, OnePublisher
  <2>1. c <= opened
    <3>1. c \in Nat /\ opened \in Nat
      BY BusAssumption DEF IInv, TypeOK, Consumers
    <3>2. unread[c] # <<>>
      OBVIOUS
    <3> QED BY <3>1, <3>2 DEF IInv, Wired
  <2>2. queueOf[c] \in Queues
    BY <2>1 DEF IInv, Wired
  <2>3. Plain(queueOf[c])
    BY <2>2 DEF Plain
  <2>4. Lined(queueOf[c], unread)
    BY <2>2, <2>3 DEF IInv, PublishedInOrder
  <2> QED BY <2>4 DEF Lined, Line
<1> QED BY <1>1, Invariant, PTL

\* ------------------------- requests -------------------------

\* Consumers are numbered in the order they open, inboxes among them: each request
\* has its own, from the moment it opens it.
InboxesApart ==
  /\ opened \in 0..MaxConsumers
  /\ \A r \in Requests :
       /\ inbox[r] <= opened
       /\ call[r] \in {"idle", "live"} => inbox[r] = 0
       /\ call[r] \in {"open", "waiting", "dropping", "draining"} => inbox[r] # 0
  /\ \A r, s \in Requests : inbox[r] = inbox[s] /\ inbox[r] # 0 => r = s

\* The inductive invariant.
RequestIInv == RequestTypeOK /\ InboxesApart /\ WaiterHearsClose

LEMMA RequestInitHolds == RequestInit => RequestIInv
BY BusAssumption DEF RequestInit, Init, RequestIInv, RequestTypeOK, InboxesApart, WaiterHearsClose

\* The steps of the bus register no inbox: a subscription lists a consumer that was
\* not opened before, and only while the connection is open.
LEMMA BusHolds ==
  ASSUME RequestIInv, BusStep, Quietly
  PROVE  RequestIInv'
<1> USE DEF RequestIInv, Quietly, requestVars
<1>1. ASSUME NEW q \in Subscribed, Subscribe(q) PROVE RequestIInv'
  <2>1. phase = "open" /\ phase' = "open" /\ opened' = opened + 1 /\ opened < MaxConsumers
    BY <1>1 DEF Subscribe
  <2> QED BY <2>1, BusAssumption DEF RequestTypeOK, InboxesApart, WaiterHearsClose
<1>2. ASSUME opened' = opened, registered' \subseteq registered,
             phase' = "closed" => phase = "closed" \/ registered' = {}
      PROVE  RequestIInv'
  BY <1>2 DEF RequestTypeOK, InboxesApart, WaiterHearsClose
<1>3. ASSUME NEW p \in Publishers, PublishDeliver(p) PROVE RequestIInv'
  BY <1>2, <1>3 DEF PublishDeliver
<1>4. ASSUME NEW c \in Consumers, Receive(c) PROVE RequestIInv'
  BY <1>2, <1>4 DEF Receive, queueVars
<1>5. ASSUME NEW c \in Consumers, Cancel(c) PROVE RequestIInv'
  BY <1>2, <1>5 DEF Cancel
<1>6. ASSUME NEW c \in Consumers, DropConsumer(c) PROVE RequestIInv'
  BY <1>2, <1>6 DEF DropConsumer, TakeUnsettled, RequeueUnsettled, StartDraining, RequeueUnread,
                    ReleaseUnread, Dropped, queueVars
<1>7. ASSUME NEW h \in handlers, Handle(h) PROVE RequestIInv'
  BY <1>2, <1>7 DEF Handle, Check, Abandon, Settle, SettleTooLate, SettleDeliver, Release, queueVars
<1>8. ASSUME Close PROVE RequestIInv'
  BY <1>2, <1>8 DEF Close, MarkClosed, ClearConsumers, queueVars
<1> QED BY <1>1, <1>3, <1>4, <1>5, <1>6, <1>7, <1>8 DEF BusStep

LEMMA RequestStepHolds ==
  ASSUME RequestIInv, RequestNext
  PROVE  RequestIInv'
<1> USE DEF RequestIInv
<1>1. ASSUME BusStep /\ Quietly PROVE RequestIInv'
  BY <1>1, BusHolds
<1>2. ASSUME NEW r \in Requests, LookLive(r) PROVE RequestIInv'
  BY <1>2 DEF LookLive, vars, EndsWith, RequestTypeOK, InboxesApart, WaiterHearsClose
\* The inbox of a request that waits is older than the one opened now.
<1>3. ASSUME NEW r \in Requests, OpenInbox(r) PROVE RequestIInv'
  <2>1. /\ call[r] = "live" /\ call' = [call EXCEPT ![r] = "open"]
        /\ inbox' = [inbox EXCEPT ![r] = opened + 1]
        /\ opened' = opened + 1 /\ opened < MaxConsumers
        /\ registered' = registered \cup {opened + 1}
        /\ UNCHANGED <<phase, outcome, kept>>
    BY <1>3 DEF OpenInbox, Moves
  <2>2. MaxConsumers \in Nat /\ opened \in Nat /\ \A s \in Requests : inbox[s] \in Nat
    BY BusAssumption DEF InboxesApart, RequestTypeOK
  <2>3. RequestTypeOK'
    BY <2>1, <2>2 DEF RequestTypeOK
  <2>4. InboxesApart'
    BY <2>1, <2>2 DEF RequestTypeOK, InboxesApart
  <2>5. \A s \in Requests : call'[s] = "waiting" => call[s] = "waiting" /\ inbox'[s] = inbox[s]
                                                    /\ inbox[s] # opened + 1
    BY <2>1, <2>2 DEF RequestTypeOK, InboxesApart
  <2>6. WaiterHearsClose'
    BY <2>1, <2>5 DEF WaiterHearsClose
  <2> QED BY <2>3, <2>4, <2>6
\* A request waits only after it published, which the close refuses.
<1>4. ASSUME NEW r \in Requests, SendRequest(r) PROVE RequestIInv'
  BY <1>4 DEF SendRequest, PublishLooks, Moves, queueVars, RequestTypeOK, InboxesApart, WaiterHearsClose
<1>5. ASSUME NEW r \in Requests, NEW from \in {"open", "waiting", "dropping", "draining"},
             NEW to \in {"dropping", "draining", "ended"},
             call[r] = from, call' = [call EXCEPT ![r] = to],
             outcome' \in [Requests -> {"none", "answered", "timeout", "closed", "dropped"}],
             kept' \subseteq Requests, registered' \subseteq registered,
             UNCHANGED <<phase, opened, inbox>>
      PROVE  RequestIInv'
  BY <1>5 DEF RequestTypeOK, InboxesApart, WaiterHearsClose
<1>6. ASSUME NEW r \in Requests,
             \/ SendRefused(r) \/ TakeReply(r) \/ TimeOut(r) \/ HearClose(r) \/ GiveUp(r)
             \/ CancelInbox(r) \/ InboxGone(r)
      PROVE  RequestIInv'
  BY <1>5, <1>6 DEF SendRefused, TakeReply, TimeOut, HearClose, GiveUp, CancelInbox, InboxGone,
                    Moves, EndsWith, vars, queueVars, RequestTypeOK
<1>7. ASSUME NEW r \in Requests, SkipReply(r) \/ DrainInbox(r) \/ DropReply(r) PROVE RequestIInv'
  BY <1>7 DEF SkipReply, DrainInbox, DropReply, Discard, Quietly, requestVars, queueVars,
              RequestTypeOK, InboxesApart, WaiterHearsClose
<1>8. ASSUME NEW h \in handlers, NEW x \in Replies, Reply(h, x) PROVE RequestIInv'
  BY <1>8 DEF Reply, Quietly, requestVars, queueVars, RequestTypeOK, InboxesApart, WaiterHearsClose
<1> QED BY <1>1, <1>2, <1>3, <1>4, <1>6, <1>7, <1>8 DEF RequestNext, Call

\* The inductive invariant holds.
THEOREM RequestInvariant == RequestSpec => []RequestIInv
<1>1. ASSUME RequestIInv, UNCHANGED allVars PROVE RequestIInv'
  BY <1>1 DEF allVars, vars, requestVars, RequestIInv, RequestTypeOK, InboxesApart, WaiterHearsClose
<1> QED BY <1>1, RequestInitHolds, RequestStepHolds, PTL DEF RequestSpec

\* Every variable of the requests keeps its type.
THEOREM RequestTypeCorrect == RequestSpec => []RequestTypeOK
<1>1. RequestIInv => RequestTypeOK
  BY DEF RequestIInv
<1> QED BY <1>1, RequestInvariant, PTL

\* No request waits out its timeout on an inbox registered behind the close.
THEOREM CloseIsHeard == RequestSpec => []WaiterHearsClose
<1>1. RequestIInv => WaiterHearsClose
  BY DEF RequestIInv
<1> QED BY <1>1, RequestInvariant, PTL
=============================================================================
