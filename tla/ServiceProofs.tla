---------------------------- MODULE ServiceProofs ----------------------------
(***************************************************************************)
(* Proofs about whole services, for any apps: what a message left with     *)
(* stays with it, no handler is given it more often than its queue's cap   *)
(* allows, the harness waits for whoever was given a publish, and an app   *)
(* that declares its topology is refused in process as by a server.        *)
(***************************************************************************)
EXTENDS Service, SequenceTheorems, WellFoundedInduction, TLAPS

(* A message carries what it left with: what SettingsSurvive says of it,   *)
(* and that the two headers the crate writes are there exactly when they   *)
(* were written, which the copy of a delay reads them by.                  *)
Carries(frame, left, rounds) ==
    LET read == HeadersFromProperties(frame)
    IN  /\ frame.priority = left.options.priority
        /\ frame.delivery_mode = IF rounds = 0 /\ left.options.persistent = {FALSE} THEN 1 ELSE 2
        /\ \A name \in DOMAIN left.headers \ {RetryCountHeader} :
              name \in DOMAIN read /\ read[name] = left.headers[name]
        /\ IF rounds = 0 THEN RetryCountHeader \notin DOMAIN read
           ELSE RetryCountHeader \in DOMAIN read /\ read[RetryCountHeader] = Decimal(rounds)
        /\ \/ frame.priority = {} /\ PriorityHeader \notin DOMAIN read
           \/ \E n \in 0..255 : /\ frame.priority = {n} /\ PriorityHeader \in DOMAIN read
                                /\ read[PriorityHeader] = Decimal(n)

Kept(m) ==
    /\ {"frame", "left", "rounds", "returns", "redelivered", "exchange", "key"} \subseteq DOMAIN m
    /\ m.rounds \in Nat /\ m.returns \in Nat
    /\ Carries(m.frame, m.left, m.rounds)

(* What a queue says of a message: no subscription of that queue may have  *)
(* been given it more often than its cap.                                  *)
Capped(q, m) ==
    \A i \in DOMAIN Subs : Queue(i).name = q =>
        \A cap \in Queue(i).max_attempts : m.returns + 1 <= cap

(* The way a message took leads to the queue it is in.                     *)
Leads(b, key) ==
    /\ b.kind = "direct" => b.key = key
    /\ b.kind = "topic" => TopicMatches(b.key, key)
    /\ b.kind = "x-consistent-hash" => hash[<<b.exchange, key>>] = b.queue

Came(exchange, key, q) ==
    IF exchange = DefaultExchange THEN q = key
    ELSE \E b \in routes.bindings : b.exchange = exchange /\ b.queue = q /\ Leads(b, key)

Fits(q, m) == Kept(m) /\ Capped(q, m) /\ Came(m.exchange, m.key, q)
Fresh(m)   == Kept(m) /\ m.returns = 0

AllFit(ready) == \A q \in DOMAIN ready : Listed(ready[q]) /\ \A m \in Range(ready[q]) : Fits(q, m)

HandFits(i, hand) ==
    /\ Listed(hand)
    /\ \A w \in Range(hand) : /\ {"message", "sends"} \subseteq DOMAIN w
                              /\ Fits(Queue(i).name, w.message) /\ SendsFit(w.sends)

WaitFits(copies) == Listed(copies) /\ \A w \in Range(copies) : Fresh(w.message)

MessagesFit ==
    /\ AllFit(queues)
    /\ DOMAIN running = DOMAIN Subs /\ \A i \in DOMAIN Subs : HandFits(i, running[i])
    /\ WaitFits(waiting)
    /\ sent \in Nat

(* A queue is declared as its subscription declares it.                    *)
DeclaredIn(known, i) ==
    /\ Queue(i).name \in DOMAIN known
    /\ known[Queue(i).name] = Declared(Queue(i), DeclaredArguments(Queue(i)))

(* The consumer is asked for last, and the queue before it.                *)
AskFor(i) == DeclareQueue(Queue(i).name, Declared(Queue(i), DeclaredArguments(Queue(i))))

Asks(i, asked, known) ==
    /\ Listed(asked) /\ asked # <<>>
    /\ \A n \in DOMAIN asked : asked[n].op = "consume" <=> n = Len(asked)
    /\ DeclaredIn(known, i) \/ AskFor(i) \in Range(asked)

Routable(known) == {"exchanges", "queues", "bindings"} \subseteq DOMAIN known

Opening ==
    /\ opened \in 0..Len(Subs)
    /\ status \in {"starting", "running", "refused"}
    /\ status = "starting" => opened < Len(Subs)
    /\ status = "running" => opened = Len(Subs)
    /\ status # "running" => /\ queues = <<>> /\ waiting = <<>>
                             /\ \A i \in DOMAIN Subs : running[i] = <<>>
    /\ Routable(routes)
    /\ \A i \in 1..opened : CheckRetry(Queue(i), Declares)
    /\ Declares => \A i \in 1..opened : DeclaredIn(routes.queues, i)
    /\ Declares /\ Live /\ status = "starting" => Asks(opened + 1, requests, routes.queues)

(* The inductive invariant.                                                *)
IInv == AppFits(app) /\ MessagesFit /\ Opening

(* An exchange is declared, as the kind it is bound as, by the time it is  *)
(* bound, and by the time the subscription's bindings are noted.           *)
Makes(request, b) ==
    request.op = "exchange" /\ request.exchange.name = b.exchange /\ request.exchange.kind = b.kind

Plugin(b) == b.kind = "x-delayed-message" /\ ~BuiltIn(b.exchange)

NeededBy(i, request) ==
    IF request.op = "bind" THEN {request.bound}
    ELSE IF request.op \in {"passive", "consume"} THEN BoundBy(Queue(i)) ELSE {}

Ordered(i, asked, known, before) ==
    /\ Listed(asked)
    /\ \A n \in DOMAIN asked :
          /\ asked[n].op = "bind" => asked[n].bound \in BoundBy(Queue(i)) \/ Plugin(asked[n].bound)
          /\ \A b \in NeededBy(i, asked[n]) :
                \/ KindKnown(known, b)
                \/ \E r \in before : Makes(r, b)
                \/ \E m \in 1..(n - 1) : Makes(asked[m], b)

Ends(asked) == asked # <<>> /\ asked[Len(asked)].op = "consume"

(* What the server routes by and what the connection noted agree on the    *)
(* kind of every exchange, and what was opened is noted.                   *)
Wired ==
    Live =>
        /\ \A b \in routes.bindings :
              b \in Described(app) \cup app.provisioned.bindings \/ Plugin(b)
        /\ seen.bindings \subseteq Described(app)
        /\ \A i \in 1..opened : BoundBy(Queue(i)) \subseteq seen.bindings
        /\ \A b \in routes.bindings \cup seen.bindings \cup app.provisioned.bindings :
              KindKnown(routes.exchanges, b)
        /\ status = "starting" => /\ Ordered(opened + 1, requests, routes.exchanges, {})
                                  /\ Ends(requests)

(* What the connection noted of keys is true, and the last publish is      *)
(* among it.                                                               *)
Noted ==
    /\ DOMAIN seen = {"bindings", "published", "delivered"}
    /\ status # "running" => seen.delivered = {} /\ last = {}
    /\ \A d \in seen.delivered : Came(d[1], d[2], d[3])
    /\ \A p \in last :
          /\ Live /\ p.exchange # DefaultExchange => <<p.exchange, p.key>> \in seen.published
          /\ \A i \in p.got : i \in DOMAIN Subs /\ Came(p.exchange, p.key, Queue(i).name)

(* A server between two subscriptions, and between two requests of one: it *)
(* has what the transport would have declared, and nothing but that, what  *)
(* the subscription being opened declares and the backends of delays.      *)
Judged == Live /\ Declares /\ app.provisioned = Bare /\ ~SharedDelay

Within(f, g) == \A name \in DOMAIN f : name \in DOMAIN g /\ g[name] = f[name]

ExchangeFrom(i, here, name, x) ==
    \/ /\ name \in DOMAIN here.exchanges
       /\ \E j \in 1..(i - 1) : [through |-> "exchange", name |-> name] \in Uses(j)
    \/ /\ \E n \in DOMAIN Queue(i).bindings : Queue(i).bindings[n].exchange = x
       /\ x.name = name /\ ~BuiltIn(name)
    \/ /\ \E j \in 1..i : [through |-> "exchange", name |-> name] \in Waits(j)
       /\ x = DelayedExchange(name)

QueueFrom(i, here, name, as) ==
    \/ /\ name \in DOMAIN here.queues
       /\ \E j \in 1..(i - 1) : Queue(j).name = name
    \/ name = Queue(i).name /\ as = Declared(Queue(i), DeclaredArguments(Queue(i)))
    \/ \E j \in 1..i : /\ [through |-> "queue", name |-> name] \in Waits(j)
                       /\ as = DelayQueue(name, Queue(j).name).as

Granted(request, server) ==
    /\ ~Unframable(request) /\ ~Refuses(server, request)
    /\ request.op = "exchange" => request.exchange.name \in DOMAIN server.exchanges
    /\ request.op = "queue" => request.name \in DOMAIN server.queues

Tracks(i, here, there, asked) ==
    /\ Routable(here)
    /\ Within(here.exchanges, there.exchanges) /\ Within(here.queues, there.queues)
    /\ \A name \in DOMAIN there.exchanges : ExchangeFrom(i, here, name, there.exchanges[name])
    /\ \A name \in DOMAIN there.queues : QueueFrom(i, here, name, there.queues[name])
    /\ \A r \in Range(Start(i)) : r \in Range(asked) \/ r.op = "consume" \/ Granted(r, there)
    /\ Range(asked) \subseteq Range(Start(i))

Alike ==
    Judged =>
        /\ ~Verdicts(Subs)[opened].refused
        /\ status = "refused" => Verdicts(Subs)[opened + 1].refused
        /\ status = "starting" => Tracks(opened + 1, Verdicts(Subs)[opened].routes, routes, requests)

(* ------------------------------ sequences ------------------------------ *)
LEMMA AppendListed ==
    ASSUME NEW s, NEW e, Listed(s)
    PROVE  Listed(Append(s, e)) /\ Range(Append(s, e)) = Range(s) \cup {e}
<1> DEFINE S == Range(s) \cup {e}
<1>1. s \in Seq(S) /\ e \in S
  BY DEF Listed, Range
<1>2. Append(s, e) \in Seq(S) /\ DOMAIN Append(s, e) = 1..(Len(s) + 1)
  BY <1>1
<1>3. \A i \in 1..Len(s) : Append(s, e)[i] = s[i]
  BY <1>1
<1>4. Append(s, e)[Len(s) + 1] = e
  BY <1>1
<1>5. Range(Append(s, e)) = S
  BY <1>1, <1>2, <1>3, <1>4 DEF Range
<1> QED
  BY <1>2, <1>5 DEF Listed

LEMMA TailListed ==
    ASSUME NEW s, Listed(s), s # <<>>
    PROVE  Listed(Tail(s)) /\ Range(Tail(s)) \subseteq Range(s) /\ Head(s) \in Range(s)
<1> DEFINE S == Range(s)  t == Tail(s)
<1>1. s \in Seq(S) /\ Len(s) > 0
  BY DEF Listed
<1>2. t \in Seq(S) /\ Len(t) = Len(s) - 1 /\ \A i \in 1..Len(t) : t[i] = s[i + 1]
  BY <1>1
<1>3. Range(t) \subseteq S
  BY <1>2 DEF Range
<1>4. t \in Seq(Range(t))
  <2> HIDE DEF t
  <2>1. t \in Seq(S)
    BY <1>2
  <2> QED
    BY <2>1 DEF Range
<1>5. Head(s) \in S
  BY <1>1
<1> QED
  BY <1>3, <1>4, <1>5 DEF Listed

LEMMA ConcatListed ==
    ASSUME NEW s, NEW t, Listed(s), Listed(t)
    PROVE  Listed(s \o t) /\ Range(s \o t) = Range(s) \cup Range(t)
<1> DEFINE S == Range(s) \cup Range(t)
<1>1. s \in Seq(S) /\ t \in Seq(S)
  BY DEF Listed, Range
<1>2. s \o t \in Seq(S) /\ Len(s \o t) = Len(s) + Len(t)
  BY <1>1
<1>3. \A i \in 1..Len(s) : (s \o t)[i] = s[i]
  BY <1>1
<1>4. \A i \in 1..Len(t) : (s \o t)[Len(s) + i] = t[i]
  BY <1>1
<1>5. Range(s \o t) \subseteq S
  BY <1>2 DEF Range
<1>6. Range(s) \subseteq Range(s \o t)
  BY <1>1, <1>2, <1>3 DEF Range
<1>7. Range(t) \subseteq Range(s \o t)
  <2> SUFFICES ASSUME NEW i \in 1..Len(t) PROVE t[i] \in Range(s \o t)
    BY <1>1 DEF Range
  <2>1. Len(s) + i \in DOMAIN (s \o t)
    BY <1>1, <1>2
  <2> QED
    BY <1>4, <2>1 DEF Range
<1> QED
  BY <1>2, <1>5, <1>6, <1>7 DEF Listed

LEMMA RemoveListed ==
    ASSUME NEW s, Listed(s), NEW n \in DOMAIN s
    PROVE  Listed(RemoveAt(s, n)) /\ Range(RemoveAt(s, n)) \subseteq Range(s)
<1> DEFINE S == Range(s)  t == RemoveAt(s, n)
<1>1. s \in Seq(S) /\ n \in 1..Len(s)
  BY DEF Listed
<1>2. t \in Seq(S)
  BY <1>1 DEF RemoveAt
<1>3. t \in Seq(Range(t))
  BY <1>2 DEF Range
<1> QED
  BY <1>2, <1>3 DEF Listed, Range

LEMMA ShortListed ==
    /\ Listed(<<>>) /\ Range(<<>>) = {}
    /\ \A e : Listed(<<e>>) /\ Range(<<e>>) = {e}
BY DEF Listed, Range

(* ------------------------------ settings ------------------------------- *)
(* A header reads back as it was published; the two native properties are  *)
(* reported under headers of their own where none was published.           *)
LEMMA ReadsBack ==
    ASSUME NEW h, NEW o
    PROVE  LET read == HeadersFromProperties(PropertiesForPublish(h, o))
           IN  /\ \A name \in DOMAIN h : name \in DOMAIN read /\ read[name] = h[name]
               /\ \A name \in DOMAIN read \ DOMAIN h : name \in {ExpirationHeader, PriorityHeader}
               /\ PriorityHeader \notin DOMAIN h =>
                     /\ o.priority = {} => PriorityHeader \notin DOMAIN read
                     /\ \A n : o.priority = {n} =>
                           PriorityHeader \in DOMAIN read /\ read[PriorityHeader] = Decimal(n)
<1> DEFINE f == PropertiesForPublish(h, o)
           read == HeadersFromProperties(f)
           table == [name \in DOMAIN f.table |-> f.table[name].held]
           expiration == [name \in {ExpirationHeader : ttl \in f.expiration} |->
                              Decimal(The(f.expiration))]
           priority == [name \in {PriorityHeader : n \in f.priority} |-> Decimal(The(f.priority))]
<1>1. /\ f.priority = o.priority
      /\ f.native = Restricted(h, PropertyHeaders)
      /\ f.table = [name \in DOMAIN h \ PropertyHeaders |-> LongString(h[name])]
  BY DEF PropertiesForPublish
<1>2. read = ((table ++ expiration) ++ priority) ++ f.native
  BY DEF HeadersFromProperties
<1>3. /\ DOMAIN table = DOMAIN h \ PropertyHeaders
      /\ \A name \in DOMAIN table : table[name] = h[name]
  BY <1>1 DEF LongString, Value
<1>4. /\ DOMAIN f.native = DOMAIN h \cap PropertyHeaders
      /\ \A name \in DOMAIN f.native : f.native[name] = h[name]
  BY <1>1 DEF Restricted
<1>5. DOMAIN expiration \subseteq {ExpirationHeader} /\ DOMAIN priority \subseteq {PriorityHeader}
  OBVIOUS
<1>6. /\ ExpirationHeader \notin PropertyHeaders /\ PriorityHeader \notin PropertyHeaders
      /\ ExpirationHeader # PriorityHeader
  BY DEF PropertyHeaders, ExpirationHeader, PriorityHeader
<1>7. /\ f.priority = {} => DOMAIN priority = {}
      /\ \A n : f.priority = {n} => /\ DOMAIN priority = {PriorityHeader}
                                   /\ priority[PriorityHeader] = Decimal(n)
  BY DEF The
<1> HIDE DEF f, table, expiration, priority
<1>8. DOMAIN read = DOMAIN table \cup DOMAIN expiration \cup DOMAIN priority \cup DOMAIN f.native
  BY <1>2 DEF ++
<1>9. ASSUME NEW name \in DOMAIN h PROVE name \in DOMAIN read /\ read[name] = h[name]
  BY <1>2, <1>3, <1>4, <1>5, <1>6 DEF ++
<1>10. \A name \in DOMAIN read \ DOMAIN h : name \in {ExpirationHeader, PriorityHeader}
  BY <1>3, <1>4, <1>5, <1>8
<1>11. ASSUME PriorityHeader \notin DOMAIN h, o.priority = {} PROVE PriorityHeader \notin DOMAIN read
  BY <1>1, <1>3, <1>4, <1>5, <1>6, <1>7, <1>8, <1>11
<1>12. ASSUME PriorityHeader \notin DOMAIN h, NEW n, o.priority = {n}
       PROVE  PriorityHeader \in DOMAIN read /\ read[PriorityHeader] = Decimal(n)
  BY <1>1, <1>2, <1>3, <1>4, <1>5, <1>6, <1>7, <1>12 DEF ++
<1> QED
  BY <1>9, <1>10, <1>11, <1>12 DEF f, read

LEMMA PublishCarries ==
    ASSUME NEW h, NEW o, SettingsFit(o), DOMAIN h \cap {PriorityHeader, RetryCountHeader} = {}
    PROVE  Carries(PropertiesForPublish(h, o), [options |-> o, headers |-> h], 0)
<1> DEFINE f == PropertiesForPublish(h, o)
           read == HeadersFromProperties(f)
<1>1. f.priority = o.priority /\ f.delivery_mode = IF FALSE \in o.persistent THEN 1 ELSE 2
  BY DEF PropertiesForPublish
<1>2. RetryCountHeader \notin {ExpirationHeader, PriorityHeader}
  BY DEF RetryCountHeader, ExpirationHeader, PriorityHeader
<1>3. FALSE \in o.persistent <=> o.persistent = {FALSE}
  BY DEF SettingsFit
<1>4. o.priority = {} \/ \E n \in 0..255 : o.priority = {n}
  BY DEF SettingsFit
<1>5. /\ \A name \in DOMAIN h : name \in DOMAIN read /\ read[name] = h[name]
      /\ \A name \in DOMAIN read \ DOMAIN h : name \in {ExpirationHeader, PriorityHeader}
      /\ o.priority = {} => PriorityHeader \notin DOMAIN read
      /\ \A n : o.priority = {n} =>
            PriorityHeader \in DOMAIN read /\ read[PriorityHeader] = Decimal(n)
  BY ReadsBack
<1> DEFINE left == [options |-> o, headers |-> h]
<1>6. left.options = o /\ left.headers = h
  OBVIOUS
<1> HIDE DEF f, read, left
<1>7. RetryCountHeader \notin DOMAIN read
  BY <1>2, <1>5
<1>8. \/ f.priority = {} /\ PriorityHeader \notin DOMAIN read
      \/ \E n \in 0..255 : /\ f.priority = {n} /\ PriorityHeader \in DOMAIN read
                           /\ read[PriorityHeader] = Decimal(n)
  BY <1>1, <1>4, <1>5
<1>9. Carries(f, left, 0)
  BY <1>1, <1>3, <1>5, <1>6, <1>7, <1>8 DEF Carries, read
<1> QED
  BY <1>9 DEF f, left

LEMMA CopyCarries ==
    ASSUME NEW frame, NEW left, NEW rounds \in Nat, Carries(frame, left, rounds)
    PROVE  Carries(DelayedCopy(HeadersFromProperties(frame)), left, rounds + 1)
<1> DEFINE read == HeadersFromProperties(frame)
           counted == CountedAgain(read)
           options == RedeliveryOptions(read)
           copy == DelayedCopy(read)
           again == HeadersFromProperties(copy)
<1>1. The(Rounds(read)) = rounds
  <2>1. CASE rounds = 0
    <3>1. Numbers(read, RetryCountHeader) = {}
      BY <2>1 DEF Carries, Numbers
    <3> QED
      BY <2>1, <3>1 DEF Rounds, Or, The
  <2>2. CASE rounds # 0
    <3>1. RetryCountHeader \in DOMAIN read /\ read[RetryCountHeader] = Decimal(rounds)
      BY <2>2 DEF Carries
    <3>2. "number" \in DOMAIN read[RetryCountHeader] /\ read[RetryCountHeader].number = rounds
      BY <3>1 DEF Decimal
    <3>3. Numbers(read, RetryCountHeader) = {rounds}
      BY <3>1, <3>2 DEF Numbers
    <3> QED
      BY <3>3 DEF Rounds, Or, The
  <2> QED
    BY <2>1, <2>2
<1>2. /\ DOMAIN counted = {RetryCountHeader} \cup DOMAIN read
      /\ counted[RetryCountHeader] = Decimal(rounds + 1)
      /\ \A name \in DOMAIN read \ {RetryCountHeader} : counted[name] = read[name]
  BY <1>1 DEF CountedAgain, ++, Entry
<1>3. options.priority = frame.priority /\ options.persistent = {TRUE}
  <2>1. options.priority = Numbers(read, PriorityHeader) \cap (0..255) /\ options.persistent = {TRUE}
    BY DEF RedeliveryOptions, PERSISTENT, Unset, Some
  <2>2. CASE frame.priority = {} /\ PriorityHeader \notin DOMAIN read
    BY <2>1, <2>2 DEF Numbers
  <2>3. ASSUME NEW n \in 0..255, frame.priority = {n}, PriorityHeader \in DOMAIN read,
               read[PriorityHeader] = Decimal(n)
        PROVE  options.priority = frame.priority
    <3>1. "number" \in DOMAIN read[PriorityHeader] /\ read[PriorityHeader].number = n
      BY <2>3 DEF Decimal
    <3>2. Numbers(read, PriorityHeader) = {n}
      BY <2>3, <3>1 DEF Numbers
    <3>3. n \in 0..255 /\ {n} \cap (0..255) = {n}
      BY <2>3
    <3>4. options.priority = {n} \cap (0..255)
      BY <2>1, <3>2, Zenon
    <3> QED
      BY <2>3, <3>3, <3>4, Zenon
  <2> QED
    BY <2>1, <2>2, <2>3 DEF Carries
<1>4. copy = PropertiesForPublish(counted, options)
  BY DEF DelayedCopy
<1>5. copy.priority = frame.priority /\ copy.delivery_mode = 2
  BY <1>3, <1>4 DEF PropertiesForPublish
<1>6. \A name \in DOMAIN counted : name \in DOMAIN again /\ again[name] = counted[name]
  BY <1>4, ReadsBack
<1>7. RetryCountHeader # PriorityHeader
  BY DEF RetryCountHeader, PriorityHeader
<1>8. PriorityHeader \notin DOMAIN read /\ frame.priority = {} => PriorityHeader \notin DOMAIN again
  BY <1>2, <1>3, <1>4, <1>7, ReadsBack
<1> HIDE DEF read, counted, options, copy, again
<1>9. \A name \in DOMAIN left.headers \ {RetryCountHeader} :
         name \in DOMAIN again /\ again[name] = left.headers[name]
  BY <1>2, <1>6 DEF Carries, read
<1>10. RetryCountHeader \in DOMAIN again /\ again[RetryCountHeader] = Decimal(rounds + 1)
  BY <1>2, <1>6
<1>11. \/ copy.priority = {} /\ PriorityHeader \notin DOMAIN again
       \/ \E n \in 0..255 : /\ copy.priority = {n} /\ PriorityHeader \in DOMAIN again
                            /\ again[PriorityHeader] = Decimal(n)
  BY <1>2, <1>5, <1>6, <1>7, <1>8 DEF Carries, read
<1>12. copy.priority = left.options.priority
  BY <1>5 DEF Carries
<1>13. rounds + 1 # 0
  OBVIOUS
<1>14. Carries(copy, left, rounds + 1)
  BY <1>5, <1>9, <1>10, <1>11, <1>12, <1>13 DEF Carries, again
<1> QED
  BY <1>14 DEF copy, read

(* ------------------------------- messages ------------------------------ *)
LEMMA FramedFresh ==
    ASSUME NEW out, OutFits(out)
    PROVE  Fresh(Framed(out))
<1> DEFINE options == Resolve(out.policy, out.call)
<1>1. SettingsFit(options)
  <2>1. CASE out.call = {}
    BY <2>1 DEF OutFits, Resolve
  <2>2. ASSUME NEW call, out.call = {call}, SettingsFit(call) PROVE SettingsFit(options)
    <3>1. options = Over(call, out.policy.defaults) /\ SettingsFit(out.policy.defaults)
      BY <2>2 DEF OutFits, Resolve, The
    <3> QED
      BY <2>2, <3>1 DEF SettingsFit, Over, Or
  <2> QED
    BY <2>1, <2>2 DEF OutFits
<1> HIDE DEF options
<1>2. Carries(PropertiesForPublish(out.headers, options), [options |-> options, headers |-> out.headers], 0)
  BY <1>1, PublishCarries DEF OutFits
<1> QED
  BY <1>2 DEF Framed, Fresh, Kept, options

LEMMA AddressedFits ==
    ASSUME NEW out, NEW message, OutFits(out)
    PROVE  OutFits(Addressed(out, message))
<1> DEFINE to == DirectReplyTo(HeadersFromProperties(message.frame), out.key)
           there == [out EXCEPT !.key = to.key, !.headers = to.headers]
<1>1. DOMAIN to.headers \subseteq {"correlation-id"}
  BY DEF DirectReplyTo, Restricted
<1>2. PriorityHeader # "correlation-id" /\ RetryCountHeader # "correlation-id"
  BY DEF PriorityHeader, RetryCountHeader
<1>3. Addressed(out, message) \in {out, there}
  BY DEF Addressed
<1> HIDE DEF to
<1>4. /\ DOMAIN there = DOMAIN out /\ there.headers = to.headers
      /\ there.policy = out.policy /\ there.call = out.call
  BY DEF OutFits
<1> HIDE DEF there
<1>5. OutFits(there)
  BY <1>1, <1>2, <1>4 DEF OutFits
<1> QED
  BY <1>3, <1>5

LEMMA AlongFresh ==
    ASSUME NEW x, NEW k, NEW m, Fresh(m)
    PROVE  Fresh(Along(x, k, m))
BY DEF Fresh, Kept, Along

LEMMA CopyFresh ==
    ASSUME NEW m, Kept(m)
    PROVE  Fresh(Copy(m))
<1> DEFINE frame == DelayedCopy(HeadersFromProperties(m.frame))
<1>1. Carries(frame, m.left, m.rounds + 1) /\ m.rounds + 1 \in Nat
  BY CopyCarries DEF Kept
<1> HIDE DEF frame
<1>2. Copy(m) = [m EXCEPT !.frame = frame, !.redelivered = FALSE, !.returns = 0, !.rounds = @ + 1]
  BY DEF Copy, frame
<1> QED
  BY <1>1, <1>2 DEF Fresh, Kept

LEMMA FreshFits ==
    ASSUME AppFits(app), NEW q, NEW m, Fresh(m), Came(m.exchange, m.key, q)
    PROVE  Fits(q, m)
<1> SUFFICES ASSUME NEW i \in DOMAIN Subs, NEW cap \in Queue(i).max_attempts
             PROVE  m.returns + 1 <= cap
  BY DEF Fits, Fresh, Capped
<1>1. SubFits(Subs[i])
  BY DEF AppFits, Subs, Range
<1>2. cap \in Nat \ {0}
  BY <1>1 DEF SubFits, Queue
<1> QED
  BY <1>2 DEF Fresh

(* Where a message is routed to, its way leads to.                         *)
LEMMA TargetsCame ==
    ASSUME NEW x, NEW key, NEW table, NEW q \in Targets(x, key, table)
    PROVE  Came(x, key, q)
<1>1. CASE x = DefaultExchange
  BY <1>1 DEF Targets, Came
<1>2. CASE x # DefaultExchange
  <2>1. PICK b \in routes.bindings : b.exchange = x /\ Matched(b, key, table) /\ b.queue = q
    BY <1>2 DEF Targets
  <2>2. Leads(b, key)
    BY <2>1 DEF Matched, Leads
  <2> QED
    BY <1>2, <2>1, <2>2 DEF Came
<1> QED
  BY <1>1, <1>2

LEMMA JoinedFits ==
    ASSUME AppFits(app), NEW ready, NEW m, NEW names, AllFit(ready), Fresh(m),
           \A q \in names : Came(m.exchange, m.key, q)
    PROVE  AllFit(Joined(ready, m, names))
<1> DEFINE joined == Joined(ready, m, names)
<1> SUFFICES ASSUME NEW q \in DOMAIN joined
             PROVE  Listed(joined[q]) /\ \A n \in Range(joined[q]) : Fits(q, n)
  BY DEF AllFit
<1> DEFINE before == IF q \in DOMAIN ready THEN ready[q] ELSE <<>>
<1>1. \/ joined[q] = before
      \/ q \in names /\ joined[q] = Append(before, m)
  BY DEF Joined
<1>2. Listed(before) /\ \A n \in Range(before) : Fits(q, n)
  BY ShortListed DEF AllFit
<1>3. q \in names => Fits(q, m)
  BY FreshFits
<1> HIDE DEF joined, before
<1>4. Listed(Append(before, m)) /\ Range(Append(before, m)) = Range(before) \cup {m}
  BY <1>2, AppendListed
<1> QED
  BY <1>1, <1>2, <1>3, <1>4

LEMMA GoesOutFits ==
    ASSUME AppFits(app), AllFit(queues), NEW out, OutFits(out), GoesOut(out)
    PROVE  AllFit(queues')
<1>1. Fresh(Framed(out))
  BY FramedFresh
<1>2. \A q \in PublishedTo(out) : Came(Framed(out).exchange, Framed(out).key, q)
  BY TargetsCame DEF PublishedTo, Framed
<1>3. AllFit(Joined(queues, Framed(out), PublishedTo(out)))
  BY <1>1, <1>2, JoinedFits
<1> QED
  BY <1>3 DEF GoesOut

(* -------------------------------- caps --------------------------------- *)
LEMMA CapIsDeclared ==
    ASSUME NEW queue, NEW cap \in Nat \ {0}, queue.max_attempts = {cap}
    PROVE  /\ DeliveryLimit \in DOMAIN DeclaredArguments(queue)
           /\ Counter(DeclaredArguments(queue)[DeliveryLimit]) = {cap - 1}
<1> DEFINE given == Entry(QueueType, LongString(Text(queue.kind))) ++ queue.arguments
           mine == [n \in {DeliveryLimit : m \in queue.max_attempts} |->
                        Integer(The(queue.max_attempts) - 1)]
           capped == mine ++ given
           routed == Entry(DeadKey, Name(The(queue.dead_letter)))
           written == (routed ++ capped) ++ Entry(DeadExchange, Name(DefaultExchange))
<1>1. The(queue.max_attempts) = cap
  BY DEF The
<1>2. DOMAIN mine = {DeliveryLimit} /\ mine[DeliveryLimit] = Integer(cap - 1)
  BY <1>1
<1>3. DeclaredArguments(queue) \in {capped, written}
  BY DEF DeclaredArguments, WriteRetry
<1> HIDE DEF mine, given
<1>4. DeliveryLimit \in DOMAIN capped /\ capped[DeliveryLimit] = Integer(cap - 1)
  BY <1>2 DEF ++
<1>5. DOMAIN routed = {DeadKey} /\ DeliveryLimit # DeadKey
  BY DEF Entry, DeliveryLimit, DeadKey
<1> HIDE DEF capped, routed
<1>6. DeliveryLimit \in DOMAIN written /\ written[DeliveryLimit] = Integer(cap - 1)
  BY <1>4, <1>5 DEF ++
<1>7. Counter(Integer(cap - 1)) = {cap - 1}
  BY DEF Counter, Integer, Value, Some
<1> QED
  BY <1>3, <1>4, <1>6, <1>7

(* While the app runs, a queue that a subscription caps is declared with   *)
(* that cap, and so it behaves for every subscription of it.               *)
LEMMA CapIsLimit ==
    ASSUME AppFits(app), Opening, status = "running", NEW i \in DOMAIN Subs, NEW j \in DOMAIN Subs,
           Queue(j).name = Queue(i).name, NEW cap \in Queue(j).max_attempts
    PROVE  Behaviour(i).counts /\ Behaviour(i).limit = {cap - 1}
<1>1. DOMAIN Subs = 1..opened
  BY DEF AppFits, Listed, Opening, Subs
<1>2. SubFits(Subs[j])
  BY DEF AppFits, Subs, Range
<1>3. cap \in Nat \ {0} /\ Queue(j).max_attempts = {cap} /\ Queue(j).kind \in {"classic", "quorum"}
  BY <1>2 DEF SubFits, Queue
<1>4. Queue(j).kind = "quorum" /\ Declares
  BY <1>1, <1>3 DEF Opening, CheckRetry
<1>5. DeclaredIn(routes.queues, i) /\ DeclaredIn(routes.queues, j)
  BY <1>1, <1>4 DEF Opening
<1>6. Declared(Queue(i), DeclaredArguments(Queue(i))) = Declared(Queue(j), DeclaredArguments(Queue(j)))
  BY <1>5 DEF DeclaredIn
<1>7. Queue(i).kind = "quorum" /\ DeclaredArguments(Queue(i)) = DeclaredArguments(Queue(j))
  BY <1>4, <1>6 DEF Declared
<1>8. /\ routes.queues[Queue(i).name].kind = "quorum"
      /\ routes.queues[Queue(i).name].arguments = DeclaredArguments(Queue(j))
  BY <1>5, <1>7 DEF DeclaredIn, Declared
<1>9. /\ DeliveryLimit \in DOMAIN DeclaredArguments(Queue(j))
      /\ Counter(DeclaredArguments(Queue(j))[DeliveryLimit]) = {cap - 1}
  BY <1>3, CapIsDeclared
<1> QED
  BY <1>7, <1>8, <1>9 DEF Behaviour, QueueBehaviour

LEMMA ReturnedFits ==
    ASSUME AppFits(app), Opening, status = "running", NEW i \in DOMAIN Subs, NEW m,
           Fits(Queue(i).name, m), ~Spent(Behaviour(i), m.returns)
    PROVE  Fits(Queue(i).name, Returned(i, m))
<1> DEFINE back == Returned(i, m)
<1>1. back.returns \in {m.returns, m.returns + 1} /\ m.returns \in Nat
  BY DEF Returned, Fits, Kept
<1>2. Kept(back)
  BY <1>1 DEF Fits, Kept, Returned
<1>3. ASSUME NEW j \in DOMAIN Subs, Queue(j).name = Queue(i).name, NEW cap \in Queue(j).max_attempts
      PROVE  back.returns + 1 <= cap
  <2>1. Behaviour(i).counts /\ Behaviour(i).limit = {cap - 1}
    BY <1>3, CapIsLimit
  <2>2. ~(m.returns + 1 > cap - 1)
    BY <2>1 DEF Spent
  <2>3. SubFits(Subs[j])
    BY DEF AppFits, Subs, Range
  <2>4. cap \in Nat
    BY <2>3 DEF SubFits, Queue
  <2> QED
    BY <1>1, <2>2, <2>4
<1>4. back.exchange = m.exchange /\ back.key = m.key
  BY DEF Returned, Fits, Kept
<1> QED
  BY <1>2, <1>3, <1>4 DEF Fits, Capped

LEMMA DeadFresh ==
    ASSUME NEW i \in DOMAIN Subs, NEW m, Kept(m), NEW dead \in DeadLettered(i, m)
    PROVE  /\ Fresh(dead.message)
           /\ \A q \in dead.to : Came(dead.message.exchange, dead.message.key, q)
<1> DEFINE plain == [m EXCEPT !.redelivered = FALSE, !.returns = 0]
<1>1. Fresh(plain)
  BY DEF Fresh, Kept
<1>2. PICK x, key : /\ dead.message = Along(x, key, plain)
                    /\ dead.to = Targets(x, key, DeadTable(m))
  BY DEF DeadLettered
<1>3. dead.message.exchange = x /\ dead.message.key = key
  <2> HIDE DEF plain
  <2> QED
    BY <1>1, <1>2 DEF Along, Fresh, Kept
<1> QED
  BY <1>1, <1>2, <1>3, AlongFresh, TargetsCame

LEMMA SettledFits ==
    ASSUME AppFits(app), Opening, status = "running", NEW i \in DOMAIN Subs, NEW m,
           Fits(Queue(i).name, m), NEW outcome
    PROVE  LET leaves == Settled(i, m, outcome)
           IN  /\ \A dead \in leaves.join :
                     /\ Fresh(dead.message)
                     /\ \A q \in dead.to : Came(dead.message.exchange, dead.message.key, q)
               /\ Listed(leaves.back) /\ \A b \in Range(leaves.back) : Fits(Queue(i).name, b)
               /\ WaitFits(leaves.wait)
<1> DEFINE leaves == Settled(i, m, outcome)
           dead == [Gone EXCEPT !.join = DeadLettered(i, m)]
           wait == [Gone EXCEPT !.wait = <<[origin |-> i, message |-> Copy(m)]>>]
           back == [Gone EXCEPT !.back = <<Returned(i, m)>>]
<1>1. \/ leaves = Gone \/ leaves = dead \/ leaves = wait
      \/ leaves = back /\ ~Spent(Behaviour(i), m.returns)
  BY DEF Settled
<1>2. Gone.join = {} /\ Gone.back = <<>> /\ Gone.wait = <<>>
  BY DEF Gone
<1>3. dead.join = DeadLettered(i, m) /\ dead.back = <<>> /\ dead.wait = <<>>
  BY DEF Gone
<1>4. wait.join = {} /\ wait.back = <<>> /\ wait.wait = <<[origin |-> i, message |-> Copy(m)]>>
  BY DEF Gone
<1>5. back.join = {} /\ back.back = <<Returned(i, m)>> /\ back.wait = <<>>
  BY DEF Gone
<1>6. \A d \in DeadLettered(i, m) :
         Fresh(d.message) /\ \A q \in d.to : Came(d.message.exchange, d.message.key, q)
  BY DeadFresh DEF Fits
<1>7. WaitFits(<<>>) /\ WaitFits(<<[origin |-> i, message |-> Copy(m)]>>)
  BY ShortListed, CopyFresh DEF WaitFits, Fits
<1>8. ~Spent(Behaviour(i), m.returns) => Fits(Queue(i).name, Returned(i, m))
  BY ReturnedFits
<1> HIDE DEF leaves, dead, wait, back
<1>9. CASE leaves = Gone
  BY <1>2, <1>7, <1>9, ShortListed DEF leaves
<1>10. CASE leaves = dead
  BY <1>3, <1>6, <1>7, <1>10, ShortListed DEF leaves
<1>11. CASE leaves = wait
  BY <1>4, <1>7, <1>11, ShortListed DEF leaves
<1>12. CASE leaves = back /\ ~Spent(Behaviour(i), m.returns)
  BY <1>5, <1>7, <1>8, <1>12, ShortListed DEF leaves
<1> QED
  BY <1>1, <1>9, <1>10, <1>11, <1>12

LEMMA ReactionFits ==
    ASSUME AppFits(app), NEW i \in DOMAIN Subs, NEW m
    PROVE  SendsFit(Reaction(i, m).sends)
<1> DEFINE rules == Subs[i].handler
           kind  == IF m.kind \in DOMAIN rules THEN m.kind ELSE "any"
<1>1. SubFits(Subs[i])
  BY DEF AppFits, Subs, Range
<1>2. kind \in DOMAIN rules
  BY <1>1 DEF SubFits
<1>3. SendsFit(rules[kind].first.sends) /\ SendsFit(rules[kind].again.sends)
  BY <1>1, <1>2 DEF SubFits
<1>4. Reaction(i, m) \in {rules[kind].first, rules[kind].again}
  BY DEF Reaction
<1> QED
  BY <1>3, <1>4

(* ---------------------------- subscriptions ---------------------------- *)
LEMMA AsLong ==
    ASSUME NEW s, Listed(s), NEW t, t = [n \in DOMAIN s |-> t[n]]
    PROVE  Listed(t)
<1>1. t = [n \in 1..Len(s) |-> t[n]] /\ Len(s) \in Nat
  BY DEF Listed
<1> QED
  BY <1>1 DEF Listed, Range

LEMMA StartAsks ==
    ASSUME AppFits(app), NEW i \in DOMAIN Subs, Declares, NEW known
    PROVE  Asks(i, Start(i), known)
<1> DEFINE queue     == Queue(i)
           exchanges == Map(DeclareUnlessBuiltIn, queue.bindings)
           bindings  == Map(LAMBDA b : BindQueue(Bound(queue.name, b)), queue.bindings)
           delays    == IF queue.delay = {} THEN <<>>
                        ELSE DeclareDelayBackend(The(queue.delay), queue.name)
           asked     == ((exchanges \o <<AskFor(i)>>) \o bindings) \o delays
           ending    == <<Consume(queue.name)>>
           ops       == {"none", "exchange", "queue", "bind"}
<1>1. Listed(queue.bindings)
  BY DEF AppFits, SubFits, Subs, Queue, Range
<1>2. Listed(exchanges) /\ \A e \in Range(exchanges) : e.op \in ops
  <2>1. exchanges = [n \in DOMAIN queue.bindings |-> DeclareUnlessBuiltIn(queue.bindings[n])]
    BY DEF Map
  <2>2. \A b : DeclareUnlessBuiltIn(b).op \in ops
    BY DEF DeclareUnlessBuiltIn, PassOver, DeclareExchange
  <2> HIDE DEF exchanges
  <2> QED
    BY <1>1, <2>1, <2>2, AsLong DEF Range
<1>3. Listed(bindings) /\ \A e \in Range(bindings) : e.op \in ops
  <2>1. bindings = [n \in DOMAIN queue.bindings |-> BindQueue(Bound(queue.name, queue.bindings[n]))]
    BY DEF Map
  <2>2. \A b : BindQueue(b).op \in ops
    BY DEF BindQueue
  <2> HIDE DEF bindings
  <2> QED
    BY <1>1, <2>1, <2>2, AsLong DEF Range
<1>4. Listed(delays) /\ \A e \in Range(delays) : e.op \in ops
  <2> DEFINE backend == DeclareDelayBackend(The(queue.delay), queue.name)
  <2>1. \/ \E x : backend = <<x>> /\ x.op \in ops
        \/ \E x, y : backend = <<x, y>> /\ x.op \in ops /\ y.op \in ops
    BY DEF DeclareDelayBackend, DelayQueue, DeclareQueue, DeclareExchange, BindQueue
  <2>2. Listed(backend) /\ \A e \in Range(backend) : e.op \in ops
    <3> HIDE DEF backend
    <3> QED
      BY <2>1 DEF Listed, Range
  <2> QED
    BY <2>2, ShortListed
<1>5. AskFor(i).op \in ops /\ Listed(<<AskFor(i)>>) /\ Range(<<AskFor(i)>>) = {AskFor(i)}
  BY ShortListed DEF AskFor, DeclareQueue
<1>6. Start(i) = (asked \o <<>>) \o ending
  <2>1. i <= Len(Subs)
    BY DEF AppFits, Listed, Subs
  <2>2. Start(i) = (Declarations(queue) \o <<>>) \o ending
    BY <2>1 DEF Start, Requests
  <2> QED
    BY <2>2 DEF Declarations, AskFor
<1> HIDE DEF exchanges, bindings, delays
<1>7. /\ Listed(asked) /\ AskFor(i) \in Range(asked)
      /\ \A e \in Range(asked) : e.op \in ops
  BY <1>2, <1>3, <1>4, <1>5, ConcatListed
<1> HIDE DEF asked
<1>8. asked \o <<>> = asked
  BY <1>7 DEF Listed
<1>9. Listed(ending) /\ Range(ending) = {Consume(queue.name)}
  BY ShortListed
<1>10. Listed(asked \o ending) /\ Range(asked \o ending) = Range(asked) \cup Range(ending)
  BY <1>7, <1>9, ConcatListed
<1>11. /\ Len(asked \o ending) = Len(asked) + 1 /\ Len(asked) \in Nat
       /\ (asked \o ending)[Len(asked) + 1] = Consume(queue.name)
       /\ \A n \in 1..Len(asked) : (asked \o ending)[n] \in Range(asked)
  BY <1>7, <1>9 DEF Listed, Range
<1>12. \A n \in DOMAIN (asked \o ending) : (asked \o ending)[n].op = "consume" <=> n = Len(asked \o ending)
  BY <1>7, <1>10, <1>11 DEF Consume, Listed
<1> QED
  BY <1>6, <1>7, <1>8, <1>10, <1>11, <1>12 DEF Asks

LEMMA AskedOn ==
    ASSUME NEW i, NEW asked, NEW known, Asks(i, asked, known), Head(asked).op # "consume",
           NEW now, DeclaredIn(known, i) \/ Head(asked) = AskFor(i) => DeclaredIn(now, i)
    PROVE  Asks(i, Tail(asked), now)
<1>1. asked \in Seq(Range(asked)) /\ Len(asked) > 1 /\ Head(asked) = asked[1]
  BY DEF Asks, Listed
<1>2. Listed(Tail(asked))
  BY TailListed DEF Asks
<1>3. /\ Len(Tail(asked)) = Len(asked) - 1 /\ DOMAIN Tail(asked) = 1..(Len(asked) - 1)
      /\ \A n \in 1..(Len(asked) - 1) : Tail(asked)[n] = asked[n + 1]
  BY <1>1
<1>4. \A n \in DOMAIN Tail(asked) : Tail(asked)[n].op = "consume" <=> n = Len(Tail(asked))
  BY <1>1, <1>3 DEF Asks
<1>5. \A e \in Range(asked) : e = Head(asked) \/ e \in Range(Tail(asked))
  <2> SUFFICES ASSUME NEW n \in DOMAIN asked PROVE asked[n] = Head(asked) \/ asked[n] \in Range(Tail(asked))
    BY DEF Range
  <2>1. n = 1 \/ n - 1 \in DOMAIN Tail(asked)
    BY <1>1, <1>3
  <2> QED
    BY <1>1, <1>3, <2>1 DEF Range
<1> QED
  BY <1>1, <1>2, <1>3, <1>4, <1>5 DEF Asks

(* A server keeps what was declared, and declares what it does not refuse. *)
LEMMA ServedKeeps ==
    ASSUME NEW server, NEW request, Routable(server)
    PROVE  /\ Routable(Served(server, request))
           /\ \A i : DeclaredIn(server.queues, i) => DeclaredIn(Served(server, request).queues, i)
           /\ \A i : ~Refuses(server, request) /\ request = AskFor(i) =>
                  DeclaredIn(Served(server, request).queues, i)
<1> DEFINE after == Served(server, request)
<1>1. Routable(after)
  BY DEF Served, Routable
<1>2. after.queues \in {server.queues, server.queues ++ Entry(request.name, request.as)}
  BY DEF Served, Routable
<1>3. ASSUME NEW i, DeclaredIn(server.queues, i) PROVE DeclaredIn(after.queues, i)
  BY <1>2, <1>3 DEF DeclaredIn, ++
<1>4. ASSUME NEW i, ~Refuses(server, request), request = AskFor(i)
      PROVE  DeclaredIn(after.queues, i)
  <2> DEFINE as == Declared(Queue(i), DeclaredArguments(Queue(i)))
  <2>1. request.op = "queue" /\ request.name = Queue(i).name /\ request.as = as
    BY <1>4 DEF AskFor, DeclareQueue
  <2> HIDE DEF as
  <2>2. after.queues = server.queues ++ Entry(Queue(i).name, as)
    BY <2>1 DEF Served, Routable
  <2>3. Queue(i).name \in DOMAIN server.queues => server.queues[Queue(i).name] = as
    BY <1>4, <2>1 DEF Refuses, Inequivalent
  <2> QED
    BY <2>2, <2>3 DEF DeclaredIn, ++, Entry, as
<1> QED
  BY <1>1, <1>3, <1>4

LEMMA SubscribeKeeps ==
    ASSUME NEW known, NEW i \in DOMAIN Subs, Routable(known)
    PROVE  LET after == Subscribe(known, Queue(i), Declares)
           IN  /\ Routable(after.routes)
               /\ \A j : DeclaredIn(known.queues, j) => DeclaredIn(after.routes.queues, j)
               /\ ~after.refused => /\ CheckRetry(Queue(i), Declares)
                                    /\ Declares => DeclaredIn(after.routes.queues, i)
<1> DEFINE queue    == Queue(i)
           as       == Declared(queue, DeclaredArguments(queue))
           declared == Declare(known, queue, DeclaredArguments(queue))
           bound    == DeclareExchanges(known, queue.bindings)
           noted    == Describe(known, queue, DeclaredArguments(queue), Declares)
           after    == Subscribe(known, queue, Declares)
<1>1. DOMAIN bound = {"refused", "routes"} /\ Routable(bound.routes) /\ bound.routes.queues = known.queues
  BY DEF DeclareExchanges, WithExchanges, Routable
<1>2. /\ DOMAIN declared = {"refused", "routes"} /\ Routable(declared.routes)
      /\ declared.routes.queues \in {known.queues, known.queues ++ Entry(queue.name, as)}
      /\ ~declared.refused => /\ declared.routes.queues = known.queues ++ Entry(queue.name, as)
                              /\ ~Inequivalent(known.queues, queue.name, as)
  <2> HIDE DEF bound, as
  <2>1. \/ declared = [bound EXCEPT !.refused = TRUE]
        \/ /\ declared = [bound EXCEPT !.routes.queues = @ ++ Entry(queue.name, as)]
           /\ ~Inequivalent(known.queues, queue.name, as)
    BY DEF Declare, bound, as
  <2> HIDE DEF declared
  <2> QED
    BY <1>1, <2>1 DEF Routable
<1> HIDE DEF declared, as
<1>3. /\ Routable(noted.routes)
      /\ noted.routes.queues \in {known.queues, known.queues ++ Entry(queue.name, as)}
      /\ Declares /\ ~noted.refused =>
            /\ noted.routes.queues = known.queues ++ Entry(queue.name, as)
            /\ ~Inequivalent(known.queues, queue.name, as)
  <2> DEFINE first == IF Declares THEN declared ELSE [refused |-> FALSE, routes |-> known]
             notes == {Bound(queue.name, queue.bindings[n]) : n \in DOMAIN queue.bindings}
  <2>1. \/ noted = first
        \/ noted = [first EXCEPT !.routes.bindings = @ \cup notes]
    BY DEF Describe, declared
  <2>2. /\ DOMAIN first = {"refused", "routes"} /\ Routable(first.routes)
        /\ first.routes.queues \in {known.queues, known.queues ++ Entry(queue.name, as)}
        /\ Declares /\ ~first.refused =>
              /\ first.routes.queues = known.queues ++ Entry(queue.name, as)
              /\ ~Inequivalent(known.queues, queue.name, as)
    BY <1>2
  <2> HIDE DEF noted, first, notes
  <2> QED
    BY <2>1, <2>2 DEF Routable
<1> HIDE DEF noted
<1>4. \/ after.refused = TRUE /\ after.routes = known
      \/ after = noted /\ CheckRetry(queue, Declares)
  BY DEF Subscribe, noted
<1> HIDE DEF after
<1>5. Routable(after.routes)
  BY <1>3, <1>4
<1>6. ASSUME NEW j, DeclaredIn(known.queues, j) PROVE DeclaredIn(after.routes.queues, j)
  BY <1>3, <1>4, <1>6 DEF DeclaredIn, ++
<1>7. ASSUME ~after.refused, Declares PROVE DeclaredIn(after.routes.queues, i)
  <2>1. /\ after.routes.queues = known.queues ++ Entry(queue.name, as)
        /\ ~Inequivalent(known.queues, queue.name, as)
    BY <1>3, <1>4, <1>7
  <2> QED
    BY <2>1 DEF DeclaredIn, Inequivalent, ++, Entry, as
<1> QED
  BY <1>4, <1>5, <1>6, <1>7 DEF after

(* ------------------------- what the harness knows ---------------------- *)
LEMMA OrderedConcat ==
    ASSUME NEW i, NEW known, NEW before, NEW s, NEW t,
           Ordered(i, s, known, before), Ordered(i, t, known, before \cup Range(s))
    PROVE  Ordered(i, s \o t, known, before)
<1> DEFINE both == s \o t
<1>1. s \in Seq(Range(s)) /\ t \in Seq(Range(t))
  BY DEF Ordered, Listed
<1>2. Listed(both)
  BY <1>1, ConcatListed DEF Ordered
<1>3. /\ Len(s) \in Nat /\ Len(t) \in Nat /\ DOMAIN both = 1..(Len(s) + Len(t))
      /\ \A n \in 1..Len(s) : both[n] = s[n]
      /\ \A n \in 1..Len(t) : both[Len(s) + n] = t[n]
  BY <1>1
<1> HIDE DEF both
<1>4. ASSUME NEW n \in DOMAIN both
      PROVE  /\ both[n].op = "bind" => both[n].bound \in BoundBy(Queue(i)) \/ Plugin(both[n].bound)
             /\ \A b \in NeededBy(i, both[n]) :
                   \/ KindKnown(known, b)
                   \/ \E r \in before : Makes(r, b)
                   \/ \E m \in 1..(n - 1) : Makes(both[m], b)
  <2>1. CASE n \in 1..Len(s)
    <3>1. n \in DOMAIN s /\ both[n] = s[n] /\ \A m \in 1..(n - 1) : both[m] = s[m]
      BY <1>1, <1>3, <2>1
    <3> QED
      BY <3>1 DEF Ordered
  <2>2. CASE n \notin 1..Len(s)
    <3>1. PICK k \in 1..Len(t) : n = Len(s) + k
      <4>1. n - Len(s) \in 1..Len(t) /\ n = Len(s) + (n - Len(s))
        BY <1>3, <2>2
      <4> QED
        BY <4>1
    <3>2. k \in DOMAIN t /\ both[n] = t[k]
      BY <1>1, <1>3, <3>1
    <3>3. ASSUME NEW b \in NeededBy(i, t[k])
          PROVE  \/ KindKnown(known, b)
                 \/ \E r \in before : Makes(r, b)
                 \/ \E m \in 1..(n - 1) : Makes(both[m], b)
      <4>1. CASE \E r \in Range(s) : Makes(r, b)
        <5>1. PICK m \in 1..Len(s) : Makes(s[m], b)
          BY <1>1, <4>1 DEF Range
        <5>2. m \in 1..(n - 1) /\ both[m] = s[m]
          BY <1>3, <3>1
        <5> QED
          BY <5>1, <5>2
      <4>2. CASE \E m \in 1..(k - 1) : Makes(t[m], b)
        <5>1. PICK m \in 1..(k - 1) : Makes(t[m], b)
          BY <4>2
        <5>2. Len(s) + m \in 1..(n - 1) /\ both[Len(s) + m] = t[m]
          BY <1>3, <3>1
        <5> QED
          BY <5>1, <5>2
      <4> QED
        BY <3>2, <4>1, <4>2 DEF Ordered
    <3> QED
      BY <3>2, <3>3 DEF Ordered
  <2> QED
    BY <2>1, <2>2
<1> QED
  BY <1>2, <1>4 DEF Ordered, both

(* What a live subscribe asks for is in order.                             *)
LEMMA DeclarationsOrdered ==
    ASSUME AppFits(app), NEW i \in DOMAIN Subs, NEW known
    PROVE  /\ Ordered(i, Declarations(Queue(i)), known, {})
           /\ \A b \in BoundBy(Queue(i)) :
                 KindKnown(known, b) \/ \E r \in Range(Declarations(Queue(i))) : Makes(r, b)
<1> DEFINE queue     == Queue(i)
           exchanges == Map(DeclareUnlessBuiltIn, queue.bindings)
           bindings  == Map(LAMBDA b : BindQueue(Bound(queue.name, b)), queue.bindings)
           delays    == IF queue.delay = {} THEN <<>>
                        ELSE DeclareDelayBackend(The(queue.delay), queue.name)
<1>1. Listed(queue.bindings)
  BY DEF AppFits, SubFits, Subs, Queue, Range
<1>2. /\ DOMAIN exchanges = DOMAIN queue.bindings
      /\ \A n \in DOMAIN queue.bindings : exchanges[n] = DeclareUnlessBuiltIn(queue.bindings[n])
      /\ DOMAIN bindings = DOMAIN queue.bindings
      /\ \A n \in DOMAIN queue.bindings : bindings[n] = BindQueue(Bound(queue.name, queue.bindings[n]))
  BY DEF Map
<1>3. Listed(exchanges) /\ Listed(bindings)
  <2>1. /\ exchanges = [n \in DOMAIN queue.bindings |-> exchanges[n]]
        /\ bindings = [n \in DOMAIN queue.bindings |-> bindings[n]]
    BY DEF Map
  <2> HIDE DEF exchanges, bindings
  <2> QED
    BY <1>1, <2>1, AsLong
<1> HIDE DEF exchanges, bindings
<1>4. ASSUME NEW b \in BoundBy(queue)
      PROVE  KindKnown(known, b) \/ \E r \in Range(exchanges) : Makes(r, b)
  <2>1. PICK n \in DOMAIN queue.bindings : b = Bound(queue.name, queue.bindings[n])
    BY DEF BoundBy
  <2>2. /\ b.exchange = queue.bindings[n].exchange.name
        /\ b.kind = queue.bindings[n].exchange.kind
    BY <2>1 DEF Bound
  <2>3. CASE BuiltIn(b.exchange)
    BY <2>3 DEF KindKnown
  <2>4. CASE ~BuiltIn(b.exchange)
    <3>1. exchanges[n] = DeclareExchange(queue.bindings[n].exchange)
      BY <1>2, <2>2, <2>4 DEF DeclareUnlessBuiltIn
    <3>2. Makes(exchanges[n], b)
      BY <2>2, <3>1 DEF Makes, DeclareExchange
    <3> QED
      BY <1>2, <3>2 DEF Range
  <2> QED
    BY <2>3, <2>4
<1>5. Ordered(i, exchanges, known, {})
  <2>1. \A b : DeclareUnlessBuiltIn(b).op \in {"none", "exchange"}
    BY DEF DeclareUnlessBuiltIn, PassOver, DeclareExchange
  <2>2. \A n \in DOMAIN exchanges : exchanges[n].op \in {"none", "exchange"}
    BY <1>2, <2>1
  <2> QED
    BY <1>3, <2>2 DEF Ordered, NeededBy
<1>6. \A before : Ordered(i, <<AskFor(i)>>, known, before)
  <2>1. AskFor(i).op = "queue"
    BY DEF AskFor, DeclareQueue
  <2> QED
    BY <2>1, ShortListed DEF Ordered, NeededBy
<1>7. ASSUME NEW before, Range(exchanges) \subseteq before
      PROVE  Ordered(i, bindings, known, before)
  <2> SUFFICES ASSUME NEW n \in DOMAIN bindings
               PROVE  /\ bindings[n].op = "bind" => bindings[n].bound \in BoundBy(queue)
                      /\ \A b \in NeededBy(i, bindings[n]) :
                            KindKnown(known, b) \/ \E r \in before : Makes(r, b)
    BY <1>3 DEF Ordered
  <2>1. bindings[n] = BindQueue(Bound(queue.name, queue.bindings[n])) /\ n \in DOMAIN queue.bindings
    BY <1>2
  <2>2. bindings[n].op = "bind" /\ bindings[n].bound \in BoundBy(queue)
    BY <2>1 DEF BindQueue, BoundBy
  <2> QED
    BY <1>4, <1>7, <2>2 DEF NeededBy
<1>8. \A before : Ordered(i, delays, known, before)
  <2> SUFFICES ASSUME NEW before PROVE Ordered(i, delays, known, before)
    OBVIOUS
  <2> DEFINE target == TargetFor(The(queue.delay), queue.name)
             x      == DelayedExchange(target.name)
             b      == Bound(queue.name, [exchange |-> x, key |-> queue.name, arguments |-> NoTable])
  <2>1. CASE queue.delay = {}
    BY <2>1, ShortListed DEF Ordered
  <2>2. CASE queue.delay # {} /\ target.through = "queue"
    <3>1. delays = <<DelayQueue(target.name, queue.name)>>
      BY <2>2 DEF DeclareDelayBackend
    <3>2. DelayQueue(target.name, queue.name).op = "queue"
      BY DEF DelayQueue, DeclareQueue
    <3> HIDE DEF delays
    <3> QED
      BY <3>1, <3>2, ShortListed DEF Ordered, NeededBy
  <2>3. CASE queue.delay # {} /\ target.through # "queue"
    <3>1. delays = <<DeclareExchange(x), BindQueue(b)>>
      BY <2>3 DEF DeclareDelayBackend
    <3>2. /\ DeclareExchange(x).op = "exchange" /\ BindQueue(b).op = "bind"
          /\ BindQueue(b).bound = b
      BY DEF DeclareExchange, BindQueue
    <3>3. b.exchange = target.name /\ b.kind = "x-delayed-message" /\ Makes(DeclareExchange(x), b)
      BY DEF Bound, DelayedExchange, Custom, Exchange, DeclareExchange, Makes
    <3>4. ~BuiltIn(target.name)
      <4>1. Subs[i] \in Range(app.subs) /\ queue = Subs[i].queue
        BY DEF Subs, Queue, Range
      <4> QED
        BY <2>3, <4>1 DEF AppFits, KindsFit
    <3>5. Plugin(b)
      BY <3>3, <3>4 DEF Plugin
    <3> HIDE DEF delays, x, b
    <3>6. /\ Listed(delays) /\ DOMAIN delays = {1, 2}
          /\ delays[1] = DeclareExchange(x) /\ delays[2] = BindQueue(b)
      BY <3>1 DEF Listed, Range
    <3>7. 1 \in 1..(2 - 1)
      OBVIOUS
    <3> QED
      BY <3>2, <3>3, <3>5, <3>6, <3>7 DEF Ordered, NeededBy
  <2> QED
    BY <2>1, <2>2, <2>3
<1> HIDE DEF delays
<1> DEFINE first  == exchanges \o <<AskFor(i)>>
           second == first \o bindings
<1>9. Ordered(i, first, known, {}) /\ Range(exchanges) \subseteq Range(first)
  BY <1>3, <1>5, <1>6, OrderedConcat, ConcatListed, ShortListed
<1>10. Ordered(i, second, known, {}) /\ Range(exchanges) \subseteq Range(second)
  <2> HIDE DEF first
  <2>1. Ordered(i, bindings, known, {} \cup Range(first))
    BY <1>7, <1>9
  <2>2. Ordered(i, second, known, {})
    BY <1>9, <2>1, OrderedConcat
  <2>3. Listed(first)
    BY <1>9 DEF Ordered
  <2>4. Range(second) = Range(first) \cup Range(bindings)
    BY <1>3, <2>3, ConcatListed
  <2> QED
    BY <1>9, <2>2, <2>4
<1>11. Ordered(i, second \o delays, known, {}) /\ Range(exchanges) \subseteq Range(second \o delays)
  <2> HIDE DEF second
  <2>1. Ordered(i, second \o delays, known, {})
    BY <1>8, <1>10, OrderedConcat
  <2>2. Listed(second) /\ Listed(delays)
    BY <1>8, <1>10 DEF Ordered
  <2>3. Range(second \o delays) = Range(second) \cup Range(delays)
    BY <2>2, ConcatListed
  <2> QED
    BY <1>10, <2>1, <2>3
<1>12. Declarations(queue) = second \o delays
  BY DEF Declarations, AskFor, exchanges, bindings, delays
<1> QED
  BY <1>4, <1>11, <1>12

LEMMA StartOrdered ==
    ASSUME AppFits(app), NEW i \in DOMAIN Subs, NEW known,
           \A b \in app.provisioned.bindings : KindKnown(known, b)
    PROVE  Ordered(i, Start(i), known, {}) /\ Ends(Start(i))
<1> DEFINE queue   == Queue(i)
           asked   == IF Declares THEN Declarations(queue) ELSE <<>>
           passive == IF Declares \/ queue.delay = {} THEN <<>>
                      ELSE <<EnsureExists(TargetFor(The(queue.delay), queue.name))>>
           ending  == <<Consume(queue.name)>>
<1>1. Start(i) = (asked \o passive) \o ending
  <2>1. i <= Len(Subs)
    BY DEF AppFits, Listed, Subs
  <2> QED
    BY <2>1 DEF Start, Requests
<1>2. /\ Ordered(i, asked, known, {})
      /\ \A b \in BoundBy(queue) : KindKnown(known, b) \/ \E r \in Range(asked) : Makes(r, b)
  <2>1. CASE Declares
    BY <2>1, DeclarationsOrdered
  <2>2. CASE ~Declares
    <3>1. BoundBy(queue) \subseteq Described(app)
      BY DEF Described, Subs, Queue, Range
    <3>2. \A b \in BoundBy(queue) : KindKnown(known, b)
      BY <2>2, <3>1 DEF AppFits, ProvisionFits, Declares
    <3> QED
      BY <2>2, <3>2, ShortListed DEF Ordered
  <2> QED
    BY <2>1, <2>2
<1>3. ASSUME NEW request, request.op \in {"passive", "consume"}, NEW before, Range(asked) \subseteq before
      PROVE  Ordered(i, <<request>>, known, before)
  <2>1. /\ Listed(<<request>>) /\ DOMAIN <<request>> = {1} /\ <<request>>[1] = request
        /\ request.op # "bind"
    BY <1>3, ShortListed
  <2>2. NeededBy(i, request) = BoundBy(queue)
    BY <1>3, <2>1 DEF NeededBy
  <2>3. \A b \in BoundBy(queue) : KindKnown(known, b) \/ \E r \in before : Makes(r, b)
    BY <1>2, <1>3
  <2> HIDE DEF asked
  <2> QED
    BY <2>1, <2>2, <2>3 DEF Ordered
<1>4. Ordered(i, passive, known, Range(asked))
  <2>1. \A t : EnsureExists(t).op = "passive"
    BY DEF EnsureExists
  <2>2. Ordered(i, <<>>, known, Range(asked))
    BY ShortListed DEF Ordered
  <2> HIDE DEF asked
  <2> QED
    BY <1>3, <2>1, <2>2
<1> HIDE DEF asked, passive
<1>5. /\ Ordered(i, asked \o passive, known, {}) /\ Listed(asked \o passive)
      /\ Range(asked) \subseteq Range(asked \o passive)
  <2>1. Ordered(i, passive, known, {} \cup Range(asked))
    BY <1>4
  <2>2. Listed(asked) /\ Listed(passive)
    BY <1>2, <1>4 DEF Ordered
  <2>3. Ordered(i, asked \o passive, known, {})
    BY <1>2, <2>1, OrderedConcat
  <2> QED
    BY <2>2, <2>3, ConcatListed
<1> DEFINE most == asked \o passive
<1>6. Ordered(i, ending, known, {} \cup Range(most))
  BY <1>3, <1>5 DEF Consume
<1> HIDE DEF most
<1>7. Ordered(i, most \o ending, known, {})
  BY <1>5, <1>6, OrderedConcat DEF most
<1>8. Ends(most \o ending)
  <2>1. most \in Seq(Range(most)) /\ ending \in Seq({Consume(queue.name)}) /\ Len(ending) = 1
        /\ ending[1] = Consume(queue.name)
    BY <1>5 DEF Listed, most
  <2>2. /\ Len(most \o ending) = Len(most) + 1 /\ Len(most) \in Nat
        /\ (most \o ending)[Len(most) + 1] = Consume(queue.name)
    BY <2>1
  <2>3. most \o ending # <<>>
    BY <2>1, <2>2
  <2> QED
    BY <2>2, <2>3 DEF Ends, Consume
<1> QED
  BY <1>1, <1>7, <1>8 DEF most

(* A request that was served leaves the rest in order.                     *)
LEMMA OrderedOn ==
    ASSUME NEW i, NEW asked, NEW known, NEW now, Ordered(i, asked, known, {}), Ends(asked),
           Head(asked).op # "consume",
           \A b : KindKnown(known, b) \/ Makes(Head(asked), b) => KindKnown(now, b)
    PROVE  Ordered(i, Tail(asked), now, {}) /\ Ends(Tail(asked))
<1> DEFINE rest == Tail(asked)
<1>1. asked \in Seq(Range(asked)) /\ Len(asked) \in Nat /\ Len(asked) > 1 /\ Head(asked) = asked[1]
  BY DEF Ordered, Ends, Listed
<1>2. Listed(rest)
  BY <1>1, TailListed DEF Ordered, Ends
<1>3. /\ Len(rest) = Len(asked) - 1 /\ DOMAIN rest = 1..(Len(asked) - 1)
      /\ \A n \in 1..(Len(asked) - 1) : rest[n] = asked[n + 1]
  BY <1>1
<1> HIDE DEF rest
<1>4. ASSUME NEW n \in DOMAIN rest
      PROVE  /\ rest[n].op = "bind" => rest[n].bound \in BoundBy(Queue(i)) \/ Plugin(rest[n].bound)
             /\ \A b \in NeededBy(i, rest[n]) :
                   KindKnown(now, b) \/ \E m \in 1..(n - 1) : Makes(rest[m], b)
  <2>1. n \in Nat /\ n + 1 \in DOMAIN asked /\ rest[n] = asked[n + 1] /\ (n + 1) - 1 = n
    BY <1>1, <1>3
  <2>2. ASSUME NEW b \in NeededBy(i, rest[n]), NEW m \in 1..n, Makes(asked[m], b)
        PROVE  KindKnown(now, b) \/ \E k \in 1..(n - 1) : Makes(rest[k], b)
    <3>1. CASE m = 1
      BY <1>1, <2>2, <3>1
    <3>2. CASE m # 1
      <4>1. m - 1 \in 1..(n - 1) /\ rest[m - 1] = asked[(m - 1) + 1] /\ (m - 1) + 1 = m
        BY <1>1, <1>3, <3>2
      <4> QED
        BY <2>2, <4>1
    <3> QED
      BY <3>1, <3>2
  <2> QED
    BY <2>1, <2>2 DEF Ordered
<1>5. Ends(rest)
  <2>1. rest # <<>> /\ rest[Len(rest)] = asked[Len(asked)]
    BY <1>1, <1>3
  <2> QED
    BY <2>1 DEF Ends
<1> QED
  BY <1>2, <1>4, <1>5 DEF Ordered, rest

(* A server keeps the kind of an exchange, and declares it as it is asked. *)
LEMMA KindKept ==
    ASSUME NEW server, NEW request, Routable(server), ~Refuses(server, request)
    PROVE  LET after == Served(server, request)
           IN  /\ \A b : KindKnown(server.exchanges, b) \/ Makes(request, b) =>
                     KindKnown(after.exchanges, b)
               /\ after.bindings \subseteq
                     server.bindings \cup {request.bound : o \in {request.op} \cap {"bind"}}
<1> DEFINE after == Served(server, request)
           x     == request.exchange
<1>1. CASE request.op = "exchange"
  <2>1. /\ after.exchanges = server.exchanges ++ Entry(x.name, x)
        /\ after.bindings = server.bindings
    BY <1>1 DEF Served, Routable
  <2>2. x.name \in DOMAIN server.exchanges => server.exchanges[x.name] = x
    BY <1>1 DEF Refuses, Inequivalent
  <2> HIDE DEF after
  <2>3. /\ x.name \in DOMAIN after.exchanges /\ after.exchanges[x.name] = x
        /\ \A name \in DOMAIN server.exchanges :
              name \in DOMAIN after.exchanges /\ after.exchanges[name] = server.exchanges[name]
    BY <2>1, <2>2 DEF ++, Entry
  <2>4. \A b : KindKnown(server.exchanges, b) \/ Makes(request, b) => KindKnown(after.exchanges, b)
    BY <2>3 DEF KindKnown, Makes
  <2> QED
    BY <2>1, <2>4 DEF after
<1>2. CASE request.op # "exchange"
  <2>1. after.exchanges = server.exchanges
    BY <1>2 DEF Served, Routable
  <2>2. /\ request.op = "bind" => after.bindings = server.bindings \cup {request.bound}
        /\ request.op # "bind" => after.bindings = server.bindings
    BY DEF Served, Routable
  <2> HIDE DEF after
  <2>3. \A b : ~Makes(request, b)
    BY <1>2 DEF Makes
  <2> QED
    BY <2>1, <2>2, <2>3 DEF after
<1> QED
  BY <1>1, <1>2

(* ---------------------- the in-process transport ----------------------- *)
LEMMA Least ==
    ASSUME NEW T \in SUBSET Nat, T # {}
    PROVE  \E x \in T : \A y \in T : x <= y
<1>1. PICK x \in T : \A y \in T : ~ (<<y, x>> \in OpToRel(<, Nat))
  BY NatLessThanWellFounded, WFMin
<1>2. \A y \in T : ~(y < x)
  BY <1>1 DEF OpToRel
<1> QED
  BY <1>2

(* The verdicts are there: each follows from the one before.               *)
LEMMA VerdictStep ==
    ASSUME NEW subs, Len(subs) \in Nat
    PROVE  /\ Verdicts(subs)[0] = [refused |-> FALSE, routes |-> Bare]
           /\ \A count \in 1..Len(subs) :
                 Verdicts(subs)[count] =
                     IF Verdicts(subs)[count - 1].refused THEN Verdicts(subs)[count - 1]
                     ELSE Subscribe(Verdicts(subs)[count - 1].routes, subs[count].queue, TRUE)
<1> DEFINE One(before, count) == IF before.refused THEN before
                                 ELSE Subscribe(before.routes, subs[count].queue, TRUE)
           Start0 == [refused |-> FALSE, routes |-> Bare]
           Is(f, n) == f = [count \in 0..n |-> IF count = 0 THEN Start0 ELSE One(f[count - 1], count)]
           Missing == {n \in Nat : ~\E f : Is(f, n)}
<1> HIDE DEF One, Start0
<1>1. 0 \notin Missing
  <2> DEFINE f == [count \in 0..0 |-> Start0]
  <2>1. \A count \in 0..0 : count = 0
    OBVIOUS
  <2>2. Is(f, 0)
    BY <2>1
  <2> QED
    BY <2>2
<1>2. ASSUME NEW n \in Nat, n # 0, n - 1 \notin Missing PROVE n \notin Missing
  <2>1. n - 1 \in Nat
    BY <1>2
  <2>2. PICK g : Is(g, n - 1)
    BY <1>2, <2>1
  <2> DEFINE f == [count \in 0..n |-> IF count = n THEN One(g[n - 1], n) ELSE g[count]]
  <2>3. \A count \in 0..n : count # n => count \in 0..(n - 1)
    BY <2>1
  <2>4. \A count \in 0..n : count # 0 => count - 1 \in 0..(n - 1) /\ count - 1 \in 0..n /\ count - 1 # n
    BY <2>1
  <2>5. \A count \in 0..n : count # 0 => f[count - 1] = g[count - 1]
    BY <2>4
  <2>6. ASSUME NEW count \in 0..n
        PROVE  f[count] = IF count = 0 THEN Start0 ELSE One(f[count - 1], count)
    <3>1. CASE count = n
      BY <1>2, <2>5, <3>1
    <3>2. CASE count # n
      <4>1. f[count] = g[count] /\ count \in 0..(n - 1)
        BY <2>3, <3>2
      <4>2. g[count] = IF count = 0 THEN Start0 ELSE One(g[count - 1], count)
        BY <2>2, <4>1
      <4> QED
        BY <2>5, <4>1, <4>2
    <3> QED
      BY <3>1, <3>2
  <2>7. Is(f, n)
    <3>1. f = [count \in 0..n |-> f[count]]
      OBVIOUS
    <3> HIDE DEF f
    <3> QED
      BY <2>6, <3>1
  <2> QED
    BY <2>7
<1>3. Missing = {}
  <2> SUFFICES ASSUME Missing # {} PROVE FALSE
    OBVIOUS
  <2>1. Missing \subseteq Nat
    OBVIOUS
  <2> HIDE DEF Missing
  <2>2. PICK n \in Missing : \A m \in Missing : n <= m
    BY <2>1, Least
  <2>3. n \in Nat /\ n # 0 /\ n - 1 \in Nat /\ ~(n <= n - 1)
    BY <1>1, <2>1, <2>2
  <2> QED
    BY <1>2, <2>2, <2>3
<1>4. \E f : Is(f, Len(subs))
  BY <1>3
<1>5. Is(Verdicts(subs), Len(subs))
  BY <1>4 DEF Verdicts, One, Start0
<1> HIDE DEF Missing
<1>6. 0 \in 0..Len(subs) /\ \A count \in 1..Len(subs) : count \in 0..Len(subs) /\ count # 0
  OBVIOUS
<1>7. Verdicts(subs)[0] = Start0
  BY <1>5, <1>6
<1>8. \A count \in 1..Len(subs) : Verdicts(subs)[count] = One(Verdicts(subs)[count - 1], count)
  BY <1>5, <1>6
<1> QED
  BY <1>7, <1>8 DEF One, Start0

(* Exchanges are declared up to the first that is refused.                 *)
LEMMA DeclaresExchanges ==
    ASSUME NEW routes0, NEW bindings, Listed(bindings)
    PROVE  LET after == DeclareExchanges(routes0, bindings)
               Bad(n) == RefusesBinding(WithExchanges(routes0, bindings, n), bindings[n])
           IN  /\ after.refused <=> \E n \in DOMAIN bindings : Bad(n)
               /\ ~after.refused => after.routes = WithExchanges(routes0, bindings, Len(bindings) + 1)
<1> DEFINE Bad(n) == RefusesBinding(WithExchanges(routes0, bindings, n), bindings[n])
           N == Len(bindings)
           Stops(n) == n > N \/ Bad(n)
           First(n) == Stops(n) /\ \A k \in 1..(n - 1) : ~Stops(k)
           stop == CHOOSE n \in 1..(N + 1) : First(n)
           after == DeclareExchanges(routes0, bindings)
<1>1. N \in Nat /\ DOMAIN bindings = 1..N
  BY DEF Listed
<1>2. after = [refused |-> stop <= N, routes |-> WithExchanges(routes0, bindings, stop)]
  BY DEF DeclareExchanges
<1> HIDE DEF Bad, N, after
<1>3. \E n \in 1..(N + 1) : First(n)
  <2> DEFINE T == {n \in 1..(N + 1) : Stops(n)}
  <2>1. N + 1 \in T /\ T \subseteq Nat
    BY <1>1
  <2>2. PICK n \in T : \A m \in T : n <= m
    <3> HIDE DEF T
    <3> QED
      BY <2>1, Least
  <2>3. \A k \in 1..(n - 1) : k \in 1..(N + 1) /\ ~(n <= k)
    BY <1>1, <2>2
  <2> QED
    BY <2>2, <2>3
<1>4. stop \in 1..(N + 1) /\ First(stop)
  BY <1>3
<1> HIDE DEF stop
<1>5. stop \in Nat /\ (stop <= N => stop \in 1..N) /\ (~(stop <= N) => stop = N + 1)
  BY <1>1, <1>4
<1>6. ASSUME NEW n \in 1..N, Bad(n) PROVE stop <= N
  <2>1. ~(n \in 1..(stop - 1))
    BY <1>4, <1>6
  <2> QED
    BY <1>1, <1>5, <2>1
<1>7. stop <= N => stop \in 1..N /\ Bad(stop)
  BY <1>1, <1>4, <1>5
<1>8. after.refused <=> \E n \in 1..N : Bad(n)
  BY <1>2, <1>6, <1>7
<1>9. after.refused <=> \E n \in DOMAIN bindings : Bad(n)
  BY <1>1, <1>8
<1>10. ~after.refused => after.routes = WithExchanges(routes0, bindings, N + 1)
  BY <1>2, <1>5
<1> QED
  BY <1>9, <1>10 DEF after, Bad, N

LEMMA ExchangesThere ==
    ASSUME NEW known, NEW bindings, NEW k, Routable(known)
    PROVE  LET with == WithExchanges(known, bindings, k)
           IN  /\ Routable(with) /\ with.queues = known.queues
               /\ Within(known.exchanges, with.exchanges)
               /\ \A n \in DOMAIN bindings \cap (1..(k - 1)) :
                     LET x == bindings[n].exchange
                     IN  ~BuiltIn(x.name) => x.name \in DOMAIN with.exchanges
               /\ \A name \in DOMAIN with.exchanges \ DOMAIN known.exchanges :
                     \E n \in DOMAIN bindings \cap (1..(k - 1)) :
                         LET x == bindings[n].exchange
                         IN  with.exchanges[name] = x /\ x.name = name /\ ~BuiltIn(name)
<1> DEFINE named == {x \in {bindings[n].exchange : n \in DOMAIN bindings \cap (1..(k - 1))} :
                        ~BuiltIn(x.name)}
           chosen == [name \in {x.name : x \in named} |-> CHOOSE x \in named : x.name = name]
           with == WithExchanges(known, bindings, k)
<1>1. with = [known EXCEPT !.exchanges = @ ++ chosen]
  BY DEF WithExchanges
<1>2. \A name \in DOMAIN chosen : chosen[name] \in named /\ chosen[name].name = name
  OBVIOUS
<1>3. \A x \in named : x.name \in DOMAIN chosen
  OBVIOUS
<1> HIDE DEF chosen, with
<1>4. /\ Routable(with) /\ with.queues = known.queues
      /\ with.exchanges = known.exchanges ++ chosen
  BY <1>1 DEF Routable
<1>5. /\ DOMAIN with.exchanges = DOMAIN known.exchanges \cup DOMAIN chosen
      /\ \A name \in DOMAIN known.exchanges : with.exchanges[name] = known.exchanges[name]
      /\ \A name \in DOMAIN with.exchanges \ DOMAIN known.exchanges :
            name \in DOMAIN chosen /\ with.exchanges[name] = chosen[name]
  BY <1>4 DEF ++
<1>6. Within(known.exchanges, with.exchanges)
  BY <1>5 DEF Within
<1>7. \A n \in DOMAIN bindings \cap (1..(k - 1)) :
         ~BuiltIn(bindings[n].exchange.name) => bindings[n].exchange.name \in DOMAIN with.exchanges
  BY <1>3, <1>5
<1>8. ASSUME NEW name \in DOMAIN with.exchanges \ DOMAIN known.exchanges
      PROVE  \E n \in DOMAIN bindings \cap (1..(k - 1)) :
                 /\ with.exchanges[name] = bindings[n].exchange /\ bindings[n].exchange.name = name
                 /\ ~BuiltIn(name)
  <2>1. with.exchanges[name] \in named /\ with.exchanges[name].name = name
    BY <1>2, <1>5
  <2> QED
    BY <2>1
<1> QED
  BY <1>4, <1>6, <1>7, <1>8 DEF with

(* Two bindings that differ on one exchange are refused, one of them.      *)
LEMMA DifferIsRefused ==
    ASSUME NEW known, NEW bindings, Routable(known), Listed(bindings),
           NEW m \in DOMAIN bindings, NEW n \in DOMAIN bindings,
           bindings[m].exchange.name = bindings[n].exchange.name,
           bindings[m].exchange # bindings[n].exchange, ~BuiltIn(bindings[n].exchange.name)
    PROVE  \E k \in DOMAIN bindings :
               RefusesBinding(WithExchanges(known, bindings, k), bindings[k])
<1> DEFINE X(k) == bindings[k].exchange
           With(k) == WithExchanges(known, bindings, k).exchanges
           Differ(j, k) == X(j).name = X(k).name /\ ~BuiltIn(X(k).name) /\ X(j) # X(k)
           T == {k \in DOMAIN bindings : \E j \in DOMAIN bindings : j < k /\ Differ(j, k)}
<1>1. DOMAIN bindings = 1..Len(bindings) /\ Len(bindings) \in Nat
  BY DEF Listed
<1>2. \A j, k \in DOMAIN bindings : Differ(j, k) => j \in T \/ k \in T
  <2> SUFFICES ASSUME NEW j \in DOMAIN bindings, NEW k \in DOMAIN bindings, Differ(j, k)
               PROVE  j \in T \/ k \in T
    OBVIOUS
  <2>1. Differ(k, j)
    OBVIOUS
  <2>2. j < k \/ k < j \/ j = k
    BY <1>1
  <2> QED
    BY <2>1, <2>2
<1>3. T # {} /\ T \subseteq Nat
  <2>1. Differ(m, n)
    OBVIOUS
  <2> QED
    BY <1>1, <1>2, <2>1
<1>4. PICK k \in T : \A j \in T : k <= j
  <2> HIDE DEF T
  <2> QED
    BY <1>3, Least
<1>5. PICK j \in DOMAIN bindings : j < k /\ Differ(j, k)
  BY <1>4
<1>6. k \in DOMAIN bindings /\ k \in Nat /\ j \in Nat
  BY <1>1, <1>4
<1> DEFINE name == X(k).name
<1>7. \A i \in DOMAIN bindings : name \in DOMAIN With(i) /\ With(i)[name] # X(i) /\ X(i).name = name =>
         RefusesBinding(WithExchanges(known, bindings, i), bindings[i])
  BY <1>5 DEF RefusesBinding, Inequivalent
<1>8. CASE name \in DOMAIN known.exchanges
  <2>1. \A i : name \in DOMAIN With(i) /\ With(i)[name] = known.exchanges[name]
    BY <1>8, ExchangesThere DEF Within
  <2>2. known.exchanges[name] # X(k) \/ known.exchanges[name] # X(j)
    BY <1>5
  <2> QED
    BY <1>5, <1>6, <1>7, <2>1, <2>2
<1>9. CASE name \notin DOMAIN known.exchanges
  <2>1. j \in DOMAIN bindings \cap (1..(k - 1))
    BY <1>1, <1>5, <1>6
  <2>2. name \in DOMAIN With(k)
    BY <1>5, <2>1, ExchangesThere
  <2>3. PICK i \in DOMAIN bindings \cap (1..(k - 1)) : With(k)[name] = X(i) /\ X(i).name = name
    BY <1>9, <2>2, ExchangesThere
  <2>4. X(i) = X(j)
    <3>1. i \notin T /\ j \notin T
      BY <1>1, <1>4, <1>5, <1>6, <2>3
    <3> QED
      BY <1>2, <1>5, <2>3, <3>1
  <2> QED
    BY <1>5, <1>6, <1>7, <2>2, <2>3, <2>4
<1> QED
  BY <1>8, <1>9

(* What the transport refuses, and what it has when it does not.           *)
LEMMA SubscribeVerdict ==
    ASSUME NEW known, NEW queue, Routable(known), Listed(queue.bindings)
    PROVE  LET after == Subscribe(known, queue, TRUE)
               as    == Declared(queue, DeclaredArguments(queue))
               Bad(n) == RefusesBinding(WithExchanges(known, queue.bindings, n), queue.bindings[n])
           IN  /\ after.refused <=>
                     \/ ~CheckRetry(queue, TRUE) \/ queue.name = DefaultExchange \/ ~Short(queue.name)
                     \/ \E delay \in queue.delay : ~Short(TargetFor(delay, queue.name).name)
                     \/ \E n \in DOMAIN queue.bindings : Bad(n)
                     \/ ~queue.durable /\ ~queue.exclusive
                     \/ queue.kind = "quorum" /\ MaxPriority \in DOMAIN DeclaredArguments(queue)
                     \/ Inequivalent(known.queues, queue.name, as)
               /\ ~after.refused =>
                     /\ Routable(after.routes)
                     /\ after.routes.queues = known.queues ++ Entry(queue.name, as)
                     /\ after.routes.exchanges =
                           WithExchanges(known, queue.bindings, Len(queue.bindings) + 1).exchanges
<1> DEFINE after == Subscribe(known, queue, TRUE)
           arguments == DeclaredArguments(queue)
           as == Declared(queue, arguments)
           Bad(n) == RefusesBinding(WithExchanges(known, queue.bindings, n), queue.bindings[n])
           bound == DeclareExchanges(known, queue.bindings)
           declared == Declare(known, queue, arguments)
           noted == Describe(known, queue, arguments, TRUE)
           early == \/ ~CheckRetry(queue, TRUE) \/ queue.name = DefaultExchange \/ ~Short(queue.name)
                    \/ \E delay \in queue.delay : ~Short(TargetFor(delay, queue.name).name)
           late == \/ bound.refused
                   \/ ~queue.durable /\ ~queue.exclusive
                   \/ queue.kind = "quorum" /\ MaxPriority \in DOMAIN arguments
                   \/ Inequivalent(known.queues, queue.name, as)
           all == WithExchanges(known, queue.bindings, Len(queue.bindings) + 1)
<1>1. /\ bound.refused <=> \E n \in DOMAIN queue.bindings : Bad(n)
      /\ ~bound.refused => bound.routes = all
  BY DeclaresExchanges
<1>2. Routable(all) /\ all.queues = known.queues
  BY ExchangesThere
<1>3. DOMAIN bound = {"refused", "routes"} /\ bound.routes.queues = known.queues
  BY DEF DeclareExchanges, WithExchanges, Routable
<1> HIDE DEF bound, all, Bad, as, arguments
<1>4. declared = IF late THEN [bound EXCEPT !.refused = TRUE]
                 ELSE [bound EXCEPT !.routes.queues = @ ++ Entry(queue.name, as)]
  BY <1>3 DEF Declare, bound, as
<1> DEFINE more == [all EXCEPT !.queues = @ ++ Entry(queue.name, as)]
<1>5. /\ declared.refused <=> late
      /\ ~late => declared.routes = more
      /\ DOMAIN declared = {"refused", "routes"}
  <2>1. CASE late
    <3> HIDE DEF late, declared
    <3> QED
      BY <1>3, <1>4, <2>1
  <2>2. CASE ~late
    <3>1. declared = [bound EXCEPT !.routes.queues = @ ++ Entry(queue.name, as)] /\ ~bound.refused
      BY <1>4, <2>2
    <3> HIDE DEF late, declared
    <3> QED
      BY <1>1, <1>3, <2>2, <3>1
  <2> QED
    BY <2>1, <2>2
<1>6. /\ more.queues = known.queues ++ Entry(queue.name, as) /\ more.exchanges = all.exchanges
      /\ Routable(more)
  BY <1>2 DEF Routable
<1> HIDE DEF declared, more, late
<1> DEFINE notes == {Bound(queue.name, queue.bindings[n]) : n \in DOMAIN queue.bindings}
<1>7. noted = IF declared.refused THEN declared
              ELSE [declared EXCEPT !.routes.bindings = @ \cup notes]
  BY DEF Describe, declared
<1> HIDE DEF notes, noted
<1>8. /\ noted.refused <=> late
      /\ ~late => /\ noted.routes.queues = known.queues ++ Entry(queue.name, as)
                  /\ noted.routes.exchanges = all.exchanges /\ Routable(noted.routes)
  <2>1. CASE late
    BY <1>5, <1>7, <2>1
  <2>2. CASE ~late
    BY <1>5, <1>6, <1>7, <2>2 DEF Routable
  <2> QED
    BY <2>1, <2>2
<1>9. after = IF early THEN [refused |-> TRUE, routes |-> known] ELSE noted
  BY DEF Subscribe, noted, arguments
<1> HIDE DEF after, early
<1>10. after.refused <=> early \/ late
  BY <1>8, <1>9
<1>11. ~after.refused => /\ after.routes.queues = known.queues ++ Entry(queue.name, as)
                         /\ after.routes.exchanges = all.exchanges /\ Routable(after.routes)
  BY <1>8, <1>9, <1>10
<1> QED
  BY <1>1, <1>10, <1>11 DEF after, early, late, as, arguments, Bad, all

(* What a live subscribe asks for, of an app that declares its topology.   *)
Backend(i) ==
    IF Queue(i).delay = {} THEN <<>> ELSE DeclareDelayBackend(The(Queue(i).delay), Queue(i).name)

AskedBy(i, r) ==
    \/ \E n \in DOMAIN Queue(i).bindings :
          r \in {DeclareUnlessBuiltIn(Queue(i).bindings[n]),
                 BindQueue(Bound(Queue(i).name, Queue(i).bindings[n]))}
    \/ r \in {AskFor(i), Consume(Queue(i).name)}
    \/ r \in Range(Backend(i))

LEMMA StartRequests ==
    ASSUME AppFits(app), NEW i \in DOMAIN Subs, Declares
    PROVE  \A r : r \in Range(Start(i)) <=> AskedBy(i, r)
<1> DEFINE queue     == Queue(i)
           exchanges == Map(DeclareUnlessBuiltIn, queue.bindings)
           bindings  == Map(LAMBDA b : BindQueue(Bound(queue.name, b)), queue.bindings)
           ending    == <<Consume(queue.name)>>
           first     == exchanges \o <<AskFor(i)>>
           second    == first \o bindings
           asked     == second \o Backend(i)
<1>1. Listed(queue.bindings)
  BY DEF AppFits, SubFits, Subs, Queue, Range
<1>2. /\ DOMAIN exchanges = DOMAIN queue.bindings
      /\ \A n \in DOMAIN queue.bindings : exchanges[n] = DeclareUnlessBuiltIn(queue.bindings[n])
      /\ DOMAIN bindings = DOMAIN queue.bindings
      /\ \A n \in DOMAIN queue.bindings : bindings[n] = BindQueue(Bound(queue.name, queue.bindings[n]))
  BY DEF Map
<1>3. Listed(exchanges) /\ Listed(bindings)
  <2>1. /\ exchanges = [n \in DOMAIN queue.bindings |-> exchanges[n]]
        /\ bindings = [n \in DOMAIN queue.bindings |-> bindings[n]]
    BY DEF Map
  <2> HIDE DEF exchanges, bindings
  <2> QED
    BY <1>1, <2>1, AsLong
<1>4. Listed(Backend(i))
  <2> DEFINE delays == DeclareDelayBackend(The(queue.delay), queue.name)
  <2>1. \/ \E x : delays = <<x>>
        \/ \E x, y : delays = <<x, y>>
    BY DEF DeclareDelayBackend
  <2>2. Listed(delays)
    <3> HIDE DEF delays
    <3> QED
      BY <2>1 DEF Listed, Range
  <2> QED
    BY <2>2, ShortListed DEF Backend
<1>5. Listed(<<AskFor(i)>>) /\ Range(<<AskFor(i)>>) = {AskFor(i)}
      /\ Listed(ending) /\ Range(ending) = {Consume(queue.name)}
  BY ShortListed
<1>6. Start(i) = (asked \o <<>>) \o ending
  <2>1. i <= Len(Subs)
    BY DEF AppFits, Listed, Subs
  <2>2. Start(i) = (Declarations(queue) \o <<>>) \o ending
    BY <2>1 DEF Start, Requests
  <2> QED
    BY <2>2 DEF Declarations, AskFor, Backend
<1> HIDE DEF exchanges, bindings, ending
<1>7. Listed(first) /\ Range(first) = Range(exchanges) \cup {AskFor(i)}
  BY <1>3, <1>5, ConcatListed
<1> HIDE DEF first
<1>8. Listed(second) /\ Range(second) = Range(first) \cup Range(bindings)
  BY <1>3, <1>7, ConcatListed
<1> HIDE DEF second
<1>9. Listed(asked) /\ Range(asked) = Range(second) \cup Range(Backend(i))
  BY <1>4, <1>8, ConcatListed
<1> HIDE DEF asked
<1>10. asked \o <<>> = asked
  BY <1>9 DEF Listed
<1>11. Range(Start(i)) = Range(asked) \cup {Consume(queue.name)}
  BY <1>5, <1>6, <1>9, <1>10, ConcatListed
<1>12. \A r : r \in Range(exchanges) \cup Range(bindings) <=>
           \E n \in DOMAIN queue.bindings :
               r \in {DeclareUnlessBuiltIn(queue.bindings[n]), BindQueue(Bound(queue.name, queue.bindings[n]))}
  BY <1>2 DEF Range
<1> QED
  BY <1>7, <1>8, <1>9, <1>11, <1>12 DEF AskedBy

(* The backend of a delay, whose names SharedDelay keeps from other uses.  *)
LEMMA BackendRequests ==
    ASSUME AppFits(app), NEW i \in DOMAIN Subs, NEW r \in Range(Backend(i))
    PROVE  LET target == TargetFor(The(Queue(i).delay), Queue(i).name)
               x == DelayedExchange(target.name)
           IN  /\ target \in Waits(i) /\ Waits(i) = {target}
               /\ target = [through |-> target.through, name |-> target.name]
               /\ \/ target.through = "queue" /\ r = DelayQueue(target.name, Queue(i).name)
                  \/ target.through = "exchange" /\ r = DeclareExchange(x)
                  \/ /\ target.through = "exchange" /\ ~BuiltIn(target.name)
                     /\ r = BindQueue(Bound(Queue(i).name, [exchange |-> x, key |-> Queue(i).name,
                                                             arguments |-> NoTable]))
<1> DEFINE queue  == Queue(i)
           target == TargetFor(The(queue.delay), queue.name)
           x == DelayedExchange(target.name)
           b == Bound(queue.name, [exchange |-> x, key |-> queue.name, arguments |-> NoTable])
<1>1. Subs[i] \in Range(app.subs) /\ SubFits(Subs[i]) /\ queue = Subs[i].queue
  BY DEF AppFits, Subs, Queue, Range
<1>2. queue.delay # {}
  BY ShortListed DEF Backend
<1>3. PICK d : queue.delay = {d} /\ d.through \in {"queue", "exchange"}
  BY <1>1, <1>2 DEF SubFits
<1>4. The(queue.delay) = d
  BY <1>3 DEF The
<1>5. /\ target.through = d.through
      /\ target = [through |-> target.through, name |-> target.name]
  BY <1>4 DEF TargetFor
<1>6. Waits(i) = {target}
  BY <1>3, <1>4 DEF Waits
<1>7. target.through # "queue" => ~BuiltIn(target.name)
  BY <1>1, <1>2 DEF AppFits, KindsFit
<1>8. CASE target.through = "queue"
  <2>1. Backend(i) = <<DelayQueue(target.name, queue.name)>>
    BY <1>2, <1>8 DEF Backend, DeclareDelayBackend
  <2> QED
    BY <1>5, <1>6, <1>8, <2>1, ShortListed
<1>9. CASE target.through # "queue"
  <2>1. Backend(i) = <<DeclareExchange(x), BindQueue(b)>>
    BY <1>2, <1>9 DEF Backend, DeclareDelayBackend
  <2>2. r \in {DeclareExchange(x), BindQueue(b)}
    <3> HIDE DEF x, b
    <3> QED
      BY <2>1 DEF Range
  <2>3. target.through = "exchange"
    BY <1>3, <1>5, <1>9
  <2>4. ~BuiltIn(target.name)
    BY <1>7, <1>9
  <2> QED
    BY <1>5, <1>6, <2>2, <2>3, <2>4
<1> QED
  BY <1>8, <1>9

LEMMA Operations ==
    /\ PassOver.op = "none"
    /\ \A x : DeclareExchange(x).op = "exchange" /\ DeclareExchange(x).exchange = x
    /\ \A name, as : /\ DeclareQueue(name, as).op = "queue"
                     /\ DeclareQueue(name, as).name = name /\ DeclareQueue(name, as).as = as
    /\ \A b : BindQueue(b).op = "bind" /\ BindQueue(b).bound = b
    /\ \A name : Consume(name).op = "consume" /\ Consume(name).name = name
BY DEF PassOver, DeclareExchange, DeclareQueue, BindQueue, Consume

(* Of the names of delays, what the absence of SharedDelay says.           *)
LEMMA NamesApart ==
    ASSUME Judged, NEW i \in DOMAIN Subs, NEW j \in DOMAIN Subs
    PROVE  /\ \A w \in Waits(i) : w \notin Uses(j)
           /\ \A w \in Waits(i) : w \in Waits(j) /\ w.through = "queue" => Queue(i).name = Queue(j).name
           /\ [through |-> "queue", name |-> Queue(j).name] \in Uses(j)
           /\ \A n \in DOMAIN Queue(j).bindings :
                 [through |-> "exchange", name |-> Queue(j).bindings[n].exchange.name] \in Uses(j)
BY DEF Judged, SharedDelay, Uses

(* What a server refuses of a subscription, the transport refuses.         *)
LEMMA RefusedToo ==
    ASSUME AppFits(app), Judged, NEW i \in DOMAIN Subs, NEW here, NEW asked,
           Tracks(i, here, routes, asked), NEW request \in Range(Start(i)),
           \A b \in NeededBy(i, request) : KindKnown(routes.exchanges, b),
           request.op = "consume" => DeclaredIn(routes.queues, i),
           ~CheckRetry(Queue(i), Declares) \/ Unframable(request) \/ Refuses(routes, request)
    PROVE  Subscribe(here, Queue(i), TRUE).refused
<1> DEFINE queue   == Queue(i)
           refused == Subscribe(here, queue, TRUE).refused
           as      == Declared(queue, DeclaredArguments(queue))
           Bad(n)  == RefusesBinding(WithExchanges(here, queue.bindings, n), queue.bindings[n])
<1>1. Routable(here) /\ Listed(queue.bindings) /\ Declares
  BY DEF Tracks, AppFits, SubFits, Subs, Queue, Range, Judged
<1>2. /\ ~CheckRetry(queue, TRUE) \/ ~Short(queue.name) => refused
      /\ (\E delay \in queue.delay : ~Short(TargetFor(delay, queue.name).name)) => refused
      /\ (\E n \in DOMAIN queue.bindings : Bad(n)) => refused
      /\ ~queue.durable /\ ~queue.exclusive => refused
      /\ queue.kind = "quorum" /\ MaxPriority \in DOMAIN DeclaredArguments(queue) => refused
      /\ Inequivalent(here.queues, queue.name, as) => refused
  BY <1>1, SubscribeVerdict
<1> HIDE DEF refused
<1>3. ASSUME ~CheckRetry(queue, Declares) PROVE refused
  <2>1. ~CheckRetry(queue, TRUE)
    BY <1>1, <1>3 DEF CheckRetry
  <2> QED
    BY <1>2, <2>1
<1>4. \A j \in 1..i : j \in DOMAIN Subs
  BY DEF AppFits, Listed, Subs
<1> DEFINE Nth(n)  == queue.bindings[n]
           Poor(n) == \/ Nth(n).exchange.name = DefaultExchange
                      \/ ~Short(Nth(n).exchange.name) \/ ~Short(Nth(n).key)
                      \/ /\ ~BuiltIn(Nth(n).exchange.name)
                         /\ Inequivalent(here.exchanges, Nth(n).exchange.name, Nth(n).exchange)
<1>5. \A n \in DOMAIN queue.bindings : Poor(n) => refused
  <2> SUFFICES ASSUME NEW n \in DOMAIN queue.bindings, Poor(n)
               PROVE  Bad(n)
    BY <1>2
  <2>1. Within(here.exchanges, WithExchanges(here, queue.bindings, n).exchanges)
    BY <1>1, ExchangesThere
  <2> QED
    BY <2>1 DEF RefusesBinding, Inequivalent, Within
<1>6. ASSUME NEW n \in DOMAIN queue.bindings, request = DeclareUnlessBuiltIn(queue.bindings[n]),
             Unframable(request) \/ Refuses(routes, request)
      PROVE  refused
  <2> DEFINE x == queue.bindings[n].exchange
  <2>1. ~BuiltIn(x.name) /\ request = DeclareExchange(x)
    <3>1. ~Unframable(PassOver) /\ ~Refuses(routes, PassOver)
      BY Operations DEF Unframable, Refuses
    <3> QED
      BY <1>6, <3>1 DEF DeclareUnlessBuiltIn
  <2>2. request.op = "exchange" /\ request.exchange = x
    BY <2>1, Operations
  <2>3. CASE Unframable(request)
    <3>1. ~Short(x.name)
      BY <2>2, <2>3 DEF Unframable
    <3> QED
      BY <1>5, <3>1
  <2>4. CASE Refuses(routes, request)
    <3>1. x.name \in DOMAIN routes.exchanges /\ routes.exchanges[x.name] # x
      BY <2>2, <2>4 DEF Refuses, Inequivalent
    <3>2. ExchangeFrom(i, here, x.name, routes.exchanges[x.name])
      BY <3>1 DEF Tracks
    <3>3. CASE x.name \in DOMAIN here.exchanges
      <4>1. Inequivalent(here.exchanges, x.name, x)
        BY <3>1, <3>3 DEF Tracks, Within, Inequivalent
      <4> QED
        BY <1>5, <2>1, <4>1
    <3>4. ASSUME NEW m \in DOMAIN queue.bindings, queue.bindings[m].exchange = routes.exchanges[x.name],
                 routes.exchanges[x.name].name = x.name
          PROVE  refused
      <4>1. \E k \in DOMAIN queue.bindings : Bad(k)
        BY <1>1, <2>1, <3>1, <3>4, DifferIsRefused
      <4> QED
        BY <1>2, <4>1
    <3>5. ASSUME NEW j \in 1..i, [through |-> "exchange", name |-> x.name] \in Waits(j)
          PROVE  FALSE
      BY <1>4, <3>5, NamesApart
    <3> QED
      BY <3>2, <3>3, <3>4, <3>5 DEF ExchangeFrom
  <2> QED
    BY <1>6, <2>3, <2>4
<1>7. ASSUME NEW n \in DOMAIN queue.bindings, request = BindQueue(Bound(queue.name, queue.bindings[n])),
             Unframable(request) \/ Refuses(routes, request)
      PROVE  refused
  <2> DEFINE b == Bound(queue.name, queue.bindings[n])
  <2>1. /\ request.op = "bind" /\ request.bound = b
        /\ b.exchange = queue.bindings[n].exchange.name /\ b.key = queue.bindings[n].key
    BY <1>7, Operations DEF Bound
  <2>2. KindKnown(routes.exchanges, b)
    BY <2>1 DEF NeededBy
  <2> HIDE DEF b
  <2>3. \/ ~Short(b.exchange) \/ ~Short(b.key)
        \/ b.exchange = DefaultExchange
        \/ ~BuiltIn(b.exchange) /\ b.exchange \notin DOMAIN routes.exchanges
    BY <1>7, <2>1 DEF Unframable, Refuses
  <2>4. \/ ~Short(b.exchange) \/ ~Short(b.key)
        \/ b.exchange = DefaultExchange
    BY <2>2, <2>3 DEF KindKnown
  <2> QED
    BY <1>5, <2>1, <2>4
<1>8. ASSUME request = AskFor(i), Unframable(request) \/ Refuses(routes, request)
      PROVE  refused
  <2>1. request.op = "queue" /\ request.name = queue.name /\ request.as = as
    BY <1>8, Operations DEF AskFor
  <2>2. as.durable = queue.durable /\ as.exclusive = queue.exclusive /\ as.kind = queue.kind
        /\ as.arguments = DeclaredArguments(queue)
    BY DEF Declared
  <2> HIDE DEF as
  <2>3. \/ ~Short(queue.name)
        \/ ~queue.durable /\ ~queue.exclusive
        \/ queue.kind = "quorum" /\ MaxPriority \in DOMAIN DeclaredArguments(queue)
        \/ queue.name \in DOMAIN routes.queues /\ routes.queues[queue.name] # as
    BY <1>8, <2>1, <2>2 DEF Unframable, Refuses, Inequivalent
  <2>4. CASE queue.name \in DOMAIN routes.queues /\ routes.queues[queue.name] # as
    <3>1. QueueFrom(i, here, queue.name, routes.queues[queue.name])
      BY <2>4 DEF Tracks
    <3>2. ASSUME NEW j \in 1..i, [through |-> "queue", name |-> queue.name] \in Waits(j) PROVE FALSE
      BY <1>4, <3>2, NamesApart
    <3>3. queue.name \in DOMAIN here.queues
      BY <2>4, <3>1, <3>2 DEF QueueFrom, as
    <3>4. Inequivalent(here.queues, queue.name, as)
      BY <2>4, <3>3 DEF Tracks, Within, Inequivalent
    <3> QED
      BY <1>2, <3>4 DEF as
  <2> QED
    BY <1>2, <2>3, <2>4
<1>9. ASSUME request = Consume(queue.name), Unframable(request) \/ Refuses(routes, request)
      PROVE  refused
  <2>1. request.op = "consume" /\ request.name = queue.name
    BY <1>9, Operations
  <2>2. ~Refuses(routes, request)
    BY <2>1 DEF Refuses, DeclaredIn
  <2> QED
    BY <1>2, <1>9, <2>1, <2>2 DEF Unframable
<1>10. ASSUME request \in Range(Backend(i)), Unframable(request) \/ Refuses(routes, request)
       PROVE  refused
  <2> DEFINE target == TargetFor(The(queue.delay), queue.name)
             x == DelayedExchange(target.name)
             b == Bound(queue.name, [exchange |-> x, key |-> queue.name, arguments |-> NoTable])
  <2>1. /\ target \in Waits(i) /\ target = [through |-> target.through, name |-> target.name]
        /\ \/ target.through = "queue" /\ request = DelayQueue(target.name, queue.name)
           \/ target.through = "exchange" /\ request = DeclareExchange(x)
           \/ target.through = "exchange" /\ ~BuiltIn(target.name) /\ request = BindQueue(b)
    BY <1>10, BackendRequests
  <2>2. ~Short(target.name) => refused
    <3>1. PICK d \in queue.delay : target = TargetFor(d, queue.name)
      BY <2>1 DEF Waits
    <3> QED
      BY <1>2, <3>1
  <2>3. x.name = target.name /\ b.exchange = target.name /\ b.key = queue.name
    BY DEF DelayedExchange, Custom, Exchange, Bound
  <2> HIDE DEF target, b
  <2>4. CASE target.through = "queue" /\ request = DelayQueue(target.name, queue.name)
    <3> DEFINE wait == DelayQueue(target.name, queue.name).as
    <3>1. request.op = "queue" /\ request.name = target.name /\ request.as = wait
      BY <2>4, Operations DEF DelayQueue
    <3>2. wait.durable = TRUE /\ wait.kind = "classic"
      BY DEF DelayQueue, DeclareQueue, Declared, RabbitQueue, QueueSpec
    <3> HIDE DEF wait
    <3>3. CASE Unframable(request)
      BY <2>2, <3>1, <3>3 DEF Unframable
    <3>4. CASE Refuses(routes, request)
      <4>1. target.name \in DOMAIN routes.queues /\ routes.queues[target.name] # wait
        BY <3>1, <3>2, <3>4 DEF Refuses, Inequivalent
      <4>2. QueueFrom(i, here, target.name, routes.queues[target.name])
        BY <4>1 DEF Tracks
      <4>3. ASSUME NEW j \in 1..i, Queue(j).name = target.name PROVE FALSE
        BY <1>4, <2>1, <2>4, <4>3, NamesApart
      <4>4. ASSUME NEW j \in 1..i, [through |-> "queue", name |-> target.name] \in Waits(j),
                   routes.queues[target.name] = DelayQueue(target.name, Queue(j).name).as
            PROVE  FALSE
        <5>1. target \in Waits(j) /\ target.through = "queue"
          BY <2>1, <2>4, <4>4
        <5>2. Queue(j).name = queue.name
          BY <1>4, <2>1, <5>1, NamesApart
        <5> QED
          BY <4>1, <4>4, <5>2 DEF wait
      <4>5. \A j \in 1..(i - 1) : j \in 1..i
        BY DEF AppFits, Listed, Subs
      <4>6. i \in 1..i
        BY DEF AppFits, Listed, Subs
      <4> QED
        BY <4>2, <4>3, <4>4, <4>5, <4>6 DEF QueueFrom
    <3> QED
      BY <1>10, <3>3, <3>4
  <2>5. CASE target.through = "exchange" /\ request = DeclareExchange(x)
    <3>1. request.op = "exchange" /\ request.exchange = x
      BY <2>5, Operations
    <3>2. CASE Unframable(request)
      BY <2>2, <2>3, <3>1, <3>2 DEF Unframable
    <3>3. CASE Refuses(routes, request)
      <4>1. target.name \in DOMAIN routes.exchanges /\ routes.exchanges[target.name] # x
        BY <2>3, <3>1, <3>3 DEF Refuses, Inequivalent
      <4>2. ExchangeFrom(i, here, target.name, routes.exchanges[target.name])
        BY <4>1 DEF Tracks
      <4>3. ASSUME NEW j \in 1..(i - 1), [through |-> "exchange", name |-> target.name] \in Uses(j)
            PROVE  FALSE
        <5>1. j \in 1..i
          BY DEF AppFits, Listed, Subs
        <5> QED
          BY <1>4, <2>1, <2>5, <4>3, <5>1, NamesApart
      <4>4. ASSUME NEW n \in DOMAIN queue.bindings, queue.bindings[n].exchange.name = target.name
            PROVE  FALSE
        BY <2>1, <2>5, <4>4, NamesApart
      <4> QED
        BY <4>1, <4>2, <4>3, <4>4 DEF ExchangeFrom
    <3> QED
      BY <1>10, <3>2, <3>3
  <2>6. CASE ~BuiltIn(target.name) /\ request = BindQueue(b)
    <3>1. request.op = "bind" /\ request.bound = b
      BY <2>6, Operations
    <3>2. KindKnown(routes.exchanges, b)
      BY <3>1 DEF NeededBy
    <3>3. target.name \in DOMAIN routes.exchanges /\ target.name # DefaultExchange
      BY <2>3, <2>6, <3>2 DEF KindKnown, BuiltIn
    <3>4. ~Refuses(routes, request)
      BY <2>3, <3>1, <3>3 DEF Refuses
    <3>5. ~Short(target.name) \/ ~Short(queue.name)
      BY <1>10, <2>3, <3>1, <3>4 DEF Unframable
    <3> QED
      BY <1>2, <2>2, <3>5
  <2> QED
    BY <2>1, <2>4, <2>5, <2>6
<1>11. AskedBy(i, request)
  BY <1>1, StartRequests
<1>12. ~CheckRetry(queue, Declares) \/ Unframable(request) \/ Refuses(routes, request)
  OBVIOUS
<1>13. refused
  <2> HIDE DEF Nth, Poor, as, Bad
  <2> QED
    BY <1>3, <1>6, <1>7, <1>8, <1>9, <1>10, <1>11, <1>12 DEF AskedBy
<1> QED
  BY <1>13 DEF refused

LEMMA GrantedStays ==
    ASSUME NEW known, NEW after, NEW r, Granted(r, known),
           Within(known.exchanges, after.exchanges), Within(known.queues, after.queues)
    PROVE  Granted(r, after)
<1>1. CASE r.op = "exchange"
  BY <1>1 DEF Granted, Refuses, Inequivalent, Within
<1>2. CASE r.op = "queue"
  BY <1>2 DEF Granted, Refuses, Inequivalent, Within
<1>3. CASE r.op \notin {"exchange", "queue"}
  BY <1>3 DEF Granted, Refuses, Within
<1> QED
  BY <1>1, <1>2, <1>3

(* Whatever a server serves, what it granted before stays granted.         *)
LEMMA ServedGrants ==
    ASSUME NEW known, NEW r, NEW after, after = Served(known, r),
           Routable(known), ~Unframable(r), ~Refuses(known, r)
    PROVE  /\ Routable(after)
           /\ Within(known.exchanges, after.exchanges) /\ Within(known.queues, after.queues)
           /\ \A name \in DOMAIN after.exchanges \ DOMAIN known.exchanges :
                 r.op = "exchange" /\ r.exchange.name = name /\ after.exchanges[name] = r.exchange
           /\ \A name \in DOMAIN after.queues \ DOMAIN known.queues :
                 r.op = "queue" /\ r.name = name /\ after.queues[name] = r.as
           /\ Granted(r, after)
           /\ \A q : Granted(q, known) => Granted(q, after)
<1> DEFINE x == r.exchange.name
<1>1. CASE r.op = "exchange"
  <2>1. after = [known EXCEPT !.exchanges = @ ++ Entry(x, r.exchange)]
    BY <1>1 DEF Served
  <2>2. Routable(after) /\ after.queues = known.queues /\ after.exchanges = known.exchanges ++ Entry(x, r.exchange)
    BY <2>1 DEF Routable
  <2>3. /\ DOMAIN after.exchanges = DOMAIN known.exchanges \cup {x}
        /\ \A name \in DOMAIN known.exchanges : after.exchanges[name] = known.exchanges[name]
        /\ x \notin DOMAIN known.exchanges => after.exchanges[x] = r.exchange
    BY <2>2 DEF ++, Entry
  <2>4. x \in DOMAIN known.exchanges => known.exchanges[x] = r.exchange
    BY <1>1 DEF Refuses, Inequivalent
  <2>5. Within(known.exchanges, after.exchanges) /\ Within(known.queues, after.queues)
    BY <2>2, <2>3 DEF Within
  <2>6. Granted(r, after)
    BY <1>1, <2>3, <2>4 DEF Granted, Refuses, Inequivalent
  <2> QED
    BY <1>1, <2>2, <2>3, <2>5, <2>6, GrantedStays
<1>2. CASE r.op = "queue"
  <2>1. after = [known EXCEPT !.queues = @ ++ Entry(r.name, r.as)]
    BY <1>2 DEF Served
  <2>2. Routable(after) /\ after.exchanges = known.exchanges /\ after.queues = known.queues ++ Entry(r.name, r.as)
    BY <2>1 DEF Routable
  <2>3. /\ DOMAIN after.queues = DOMAIN known.queues \cup {r.name}
        /\ \A name \in DOMAIN known.queues : after.queues[name] = known.queues[name]
        /\ r.name \notin DOMAIN known.queues => after.queues[r.name] = r.as
    BY <2>2 DEF ++, Entry
  <2>4. /\ r.name \in DOMAIN known.queues => known.queues[r.name] = r.as
        /\ ~(~r.as.durable /\ ~r.as.exclusive)
        /\ ~(r.as.kind = "quorum" /\ MaxPriority \in DOMAIN r.as.arguments)
    BY <1>2 DEF Refuses, Inequivalent
  <2>5. Within(known.exchanges, after.exchanges) /\ Within(known.queues, after.queues)
    BY <2>2, <2>3 DEF Within
  <2>6. Granted(r, after)
    BY <1>2, <2>3, <2>4 DEF Granted, Refuses, Inequivalent
  <2> QED
    BY <1>2, <2>2, <2>3, <2>5, <2>6, GrantedStays
<1>3. CASE r.op \notin {"exchange", "queue"}
  <2>1. /\ Routable(after) /\ after.exchanges = known.exchanges /\ after.queues = known.queues
    BY <1>3 DEF Served, Routable
  <2>2. Within(known.exchanges, after.exchanges) /\ Within(known.queues, after.queues)
    BY <2>1 DEF Within
  <2>3. Granted(r, after)
    BY <1>3, <2>1 DEF Granted, Refuses
  <2> QED
    BY <2>1, <2>2, <2>3, GrantedStays
<1> QED
  BY <1>1, <1>2, <1>3

(* A server that serves a request keeps to what the transport will have.   *)
LEMMA TracksServed ==
    ASSUME AppFits(app), Judged, NEW i \in DOMAIN Subs, NEW here, NEW asked,
           Tracks(i, here, routes, asked), Listed(asked), asked # <<>>, Routable(routes),
           ~Unframable(Head(asked)), ~Refuses(routes, Head(asked))
    PROVE  Tracks(i, here, Served(routes, Head(asked)), Tail(asked))
<1> DEFINE request == Head(asked)
           after   == Served(routes, request)
<1>1. /\ Range(Tail(asked)) \subseteq Range(asked) /\ request \in Range(asked)
      /\ \A r \in Range(asked) : r = request \/ r \in Range(Tail(asked))
  <2>1. asked \in Seq(Range(asked)) /\ Len(asked) > 0
    BY DEF Listed
  <2>2. \A n \in DOMAIN asked :
           n = 1 \/ (n - 1 \in DOMAIN Tail(asked) /\ Tail(asked)[n - 1] = asked[n])
    BY <2>1
  <2>3. ASSUME NEW n \in DOMAIN asked PROVE asked[n] = request \/ asked[n] \in Range(Tail(asked))
    <3>1. n = 1 => asked[n] = request
      BY <2>1
    <3> QED
      BY <2>2, <3>1 DEF Range
  <2>4. \A r \in Range(asked) : \E n \in DOMAIN asked : r = asked[n]
    BY DEF Range
  <2> QED
    BY <2>3, <2>4, TailListed
<1>2. /\ Within(routes.exchanges, after.exchanges) /\ Within(routes.queues, after.queues)
      /\ \A name \in DOMAIN after.exchanges \ DOMAIN routes.exchanges :
            /\ request.op = "exchange" /\ request.exchange.name = name
            /\ after.exchanges[name] = request.exchange
      /\ \A name \in DOMAIN after.queues \ DOMAIN routes.queues :
            request.op = "queue" /\ request.name = name /\ after.queues[name] = request.as
      /\ Granted(request, after)
      /\ \A q : Granted(q, routes) => Granted(q, after)
  BY ServedGrants
<1>3. AskedBy(i, request)
  BY <1>1, StartRequests DEF Tracks, Judged
<1> HIDE DEF request, after
<1>4. i \in 1..i
  BY DEF AppFits, Listed, Subs
<1>5. ASSUME NEW name \in DOMAIN after.exchanges
      PROVE  ExchangeFrom(i, here, name, after.exchanges[name])
  <2>1. CASE name \in DOMAIN routes.exchanges
    BY <1>2, <2>1 DEF Tracks, Within
  <2>2. CASE name \notin DOMAIN routes.exchanges
    <3>1. request.op = "exchange" /\ request.exchange.name = name /\ after.exchanges[name] = request.exchange
      BY <1>2, <2>2
    <3>2. ASSUME NEW n \in DOMAIN Queue(i).bindings, request = DeclareUnlessBuiltIn(Queue(i).bindings[n])
          PROVE  Queue(i).bindings[n].exchange = request.exchange /\ ~BuiltIn(name)
      BY <3>1, <3>2, Operations DEF DeclareUnlessBuiltIn
    <3>3. ASSUME request \in Range(Backend(i))
          PROVE  /\ [through |-> "exchange", name |-> name] \in Waits(i)
                 /\ request.exchange = DelayedExchange(name)
      <4> DEFINE target == TargetFor(The(Queue(i).delay), Queue(i).name)
      <4>1. /\ target \in Waits(i) /\ target = [through |-> target.through, name |-> target.name]
            /\ \/ \E o : request = DelayQueue(target.name, o)
               \/ target.through = "exchange" /\ request = DeclareExchange(DelayedExchange(target.name))
               \/ \E b : request = BindQueue(b)
        BY <3>3, BackendRequests
      <4>2. DelayedExchange(target.name).name = target.name
        BY DEF DelayedExchange, Custom, Exchange
      <4> HIDE DEF target
      <4>3. target.through = "exchange" /\ request = DeclareExchange(DelayedExchange(target.name))
        BY <3>1, <4>1, Operations DEF DelayQueue
      <4> QED
        BY <3>1, <4>1, <4>2, <4>3, Operations
    <3>4. request.op # "bind" /\ request # AskFor(i) /\ request # Consume(Queue(i).name)
      BY <3>1, Operations DEF AskFor
    <3>5. \/ \E n \in DOMAIN Queue(i).bindings : request = DeclareUnlessBuiltIn(Queue(i).bindings[n])
          \/ request \in Range(Backend(i))
      BY <1>3, <3>4, Operations DEF AskedBy
    <3> QED
      BY <1>4, <3>1, <3>2, <3>3, <3>5 DEF ExchangeFrom
  <2> QED
    BY <2>1, <2>2
<1>6. ASSUME NEW name \in DOMAIN after.queues
      PROVE  QueueFrom(i, here, name, after.queues[name])
  <2>1. CASE name \in DOMAIN routes.queues
    BY <1>2, <2>1 DEF Tracks, Within
  <2>2. CASE name \notin DOMAIN routes.queues
    <3>1. request.op = "queue" /\ request.name = name /\ after.queues[name] = request.as
      BY <1>2, <2>2
    <3>2. ASSUME request \in Range(Backend(i))
          PROVE  /\ [through |-> "queue", name |-> name] \in Waits(i)
                 /\ request.as = DelayQueue(name, Queue(i).name).as
      <4> DEFINE target == TargetFor(The(Queue(i).delay), Queue(i).name)
      <4>1. /\ target \in Waits(i) /\ target = [through |-> target.through, name |-> target.name]
            /\ \/ target.through = "queue" /\ request = DelayQueue(target.name, Queue(i).name)
               \/ \E x : request = DeclareExchange(x)
               \/ \E b : request = BindQueue(b)
        BY <3>2, BackendRequests
      <4>2. DelayQueue(target.name, Queue(i).name).name = target.name
        BY Operations DEF DelayQueue
      <4> HIDE DEF target
      <4>3. target.through = "queue" /\ request = DelayQueue(target.name, Queue(i).name)
        BY <3>1, <4>1, Operations
      <4> QED
        BY <3>1, <4>1, <4>2, <4>3
    <3>3. ASSUME request = AskFor(i)
          PROVE  name = Queue(i).name /\ request.as = Declared(Queue(i), DeclaredArguments(Queue(i)))
      BY <3>1, <3>3, Operations DEF AskFor
    <3>4. \A n \in DOMAIN Queue(i).bindings :
             /\ request # DeclareUnlessBuiltIn(Queue(i).bindings[n])
             /\ request # BindQueue(Bound(Queue(i).name, Queue(i).bindings[n]))
      BY <3>1, Operations DEF DeclareUnlessBuiltIn
    <3>5. request = AskFor(i) \/ request \in Range(Backend(i))
      BY <1>3, <3>1, <3>4, Operations DEF AskedBy
    <3> QED
      BY <1>4, <3>1, <3>2, <3>3, <3>5 DEF QueueFrom
  <2> QED
    BY <2>1, <2>2
<1>7. Within(here.exchanges, after.exchanges) /\ Within(here.queues, after.queues)
  BY <1>2 DEF Tracks, Within
<1> QED
  BY <1>1, <1>2, <1>5, <1>6, <1>7 DEF Tracks, request, after

(* What a server granted every request of, the transport takes.            *)
LEMMA TakenToo ==
    ASSUME AppFits(app), Judged, NEW i \in DOMAIN Subs, NEW here, NEW asked,
           CheckRetry(Queue(i), Declares), Tracks(i, here, routes, asked),
           \A r \in Range(Start(i)) : r.op = "consume" \/ Granted(r, routes)
    PROVE  LET after == Subscribe(here, Queue(i), TRUE)
           IN  /\ ~after.refused
               /\ Tracks(i + 1, after.routes, routes, Start(i + 1))
<1> DEFINE queue   == Queue(i)
           as      == Declared(queue, DeclaredArguments(queue))
           Bad(n)  == RefusesBinding(WithExchanges(here, queue.bindings, n), queue.bindings[n])
           after   == Subscribe(here, queue, TRUE)
           X(n)    == queue.bindings[n].exchange
<1>1. /\ Routable(here) /\ SubFits(Subs[i]) /\ queue = Subs[i].queue /\ Declares
      /\ Listed(queue.bindings) /\ queue.name # DefaultExchange
  BY DEF Tracks, AppFits, SubFits, Subs, Queue, Range, Judged
<1>2. i \in Nat /\ i \in 1..i /\ i = (i + 1) - 1
  BY DEF AppFits, Listed, Subs
<1>3. \A r : AskedBy(i, r) => r.op = "consume" \/ Granted(r, routes)
  BY <1>1, StartRequests
<1>4. /\ Short(queue.name) /\ ~(~queue.durable /\ ~queue.exclusive)
      /\ ~(queue.kind = "quorum" /\ MaxPriority \in DOMAIN DeclaredArguments(queue))
      /\ queue.name \in DOMAIN routes.queues /\ routes.queues[queue.name] = as
  <2>1. AskFor(i).op = "queue" /\ AskFor(i).name = queue.name /\ AskFor(i).as = as
    BY Operations DEF AskFor
  <2>2. Granted(AskFor(i), routes)
    BY <1>3, <2>1 DEF AskedBy
  <2>3. as.durable = queue.durable /\ as.exclusive = queue.exclusive /\ as.kind = queue.kind
        /\ as.arguments = DeclaredArguments(queue)
    BY DEF Declared
  <2> HIDE DEF as, queue
  <2>4. ~Unframable(AskFor(i)) /\ ~Refuses(routes, AskFor(i)) /\ queue.name \in DOMAIN routes.queues
    BY <2>1, <2>2 DEF Granted
  <2> QED
    BY <2>1, <2>3, <2>4 DEF Unframable, Refuses, Inequivalent
<1>5. ASSUME NEW n \in DOMAIN queue.bindings
      PROVE  /\ X(n).name # DefaultExchange /\ Short(X(n).name) /\ Short(queue.bindings[n].key)
             /\ ~BuiltIn(X(n).name) =>
                   X(n).name \in DOMAIN routes.exchanges /\ routes.exchanges[X(n).name] = X(n)
  <2> DEFINE b == Bound(queue.name, queue.bindings[n])
  <2>1. b.exchange = X(n).name /\ b.key = queue.bindings[n].key
    BY DEF Bound
  <2> HIDE DEF b
  <2>2. BindQueue(b).op = "bind" /\ BindQueue(b).bound = b
    BY Operations
  <2>3. Granted(BindQueue(b), routes)
    BY <1>3, <2>2 DEF AskedBy, b
  <2>4. /\ X(n).name # DefaultExchange /\ Short(X(n).name) /\ Short(queue.bindings[n].key)
    BY <2>1, <2>2, <2>3 DEF Granted, Unframable, Refuses
  <2>5. ASSUME ~BuiltIn(X(n).name)
        PROVE  X(n).name \in DOMAIN routes.exchanges /\ routes.exchanges[X(n).name] = X(n)
    <3>1. DeclareUnlessBuiltIn(queue.bindings[n]) = DeclareExchange(X(n))
      BY <2>5 DEF DeclareUnlessBuiltIn
    <3>2. AskedBy(i, DeclareExchange(X(n)))
      BY <3>1 DEF AskedBy
    <3>3. DeclareExchange(X(n)).op = "exchange" /\ DeclareExchange(X(n)).exchange = X(n)
      BY Operations
    <3>4. Granted(DeclareExchange(X(n)), routes)
      BY <1>3, <3>2, <3>3
    <3> QED
      BY <3>3, <3>4 DEF Granted, Refuses, Inequivalent
  <2> QED
    BY <2>4, <2>5
<1>6. ASSUME NEW d \in queue.delay PROVE Short(TargetFor(d, queue.name).name)
  <2>1. PICK e \in queue.delay : queue.delay = {e} /\ e.through \in {"queue", "exchange"}
    BY <1>1, <1>6 DEF SubFits
  <2>2. d = e /\ The(queue.delay) = e /\ queue.delay # {}
    BY <2>1 DEF The
  <2> DEFINE target == TargetFor(e, queue.name)
             x == DelayedExchange(target.name)
             b == Bound(queue.name, [exchange |-> x, key |-> queue.name, arguments |-> NoTable])
  <2>3. x.name = target.name
    BY DEF DelayedExchange, Custom, Exchange
  <2>4. CASE target.through = "queue"
    <3>1. Backend(i) = <<DelayQueue(target.name, queue.name)>>
      BY <2>2, <2>4 DEF Backend, DeclareDelayBackend
    <3>2. AskedBy(i, DelayQueue(target.name, queue.name))
      BY <3>1, ShortListed DEF AskedBy
    <3>3. /\ DelayQueue(target.name, queue.name).op = "queue"
          /\ DelayQueue(target.name, queue.name).name = target.name
      BY Operations DEF DelayQueue
    <3>4. Granted(DelayQueue(target.name, queue.name), routes)
      BY <1>3, <3>2, <3>3
    <3> QED
      BY <2>2, <3>3, <3>4 DEF Granted, Unframable
  <2>5. CASE target.through # "queue"
    <3>1. Backend(i) = <<DeclareExchange(x), BindQueue(b)>>
      BY <2>2, <2>5 DEF Backend, DeclareDelayBackend
    <3>2. DeclareExchange(x) \in Range(Backend(i))
      <4> HIDE DEF x, b
      <4>1. 1 \in DOMAIN Backend(i) /\ Backend(i)[1] = DeclareExchange(x)
        BY <3>1
      <4> QED
        BY <4>1 DEF Range
    <3>3. DeclareExchange(x).op = "exchange" /\ DeclareExchange(x).exchange = x
      BY Operations
    <3>4. Granted(DeclareExchange(x), routes)
      BY <1>3, <3>2, <3>3 DEF AskedBy
    <3> HIDE DEF x, target
    <3>5. Short(target.name)
      BY <2>3, <3>3, <3>4 DEF Granted, Unframable
    <3> QED
      BY <2>2, <3>5 DEF target
  <2> QED
    BY <2>4, <2>5
<1>7. ASSUME NEW n \in DOMAIN queue.bindings PROVE ~Bad(n)
  <2> DEFINE With == WithExchanges(here, queue.bindings, n).exchanges
             name == X(n).name
  <2>1. ASSUME ~BuiltIn(name), name \in DOMAIN With PROVE With[name] = X(n)
    <3>1. CASE name \in DOMAIN here.exchanges
      <4>1. With[name] = here.exchanges[name]
        BY <1>1, <3>1, ExchangesThere DEF Within
      <4> QED
        BY <1>5, <2>1, <3>1, <4>1 DEF Tracks, Within
    <3>2. CASE name \notin DOMAIN here.exchanges
      <4>1. \E m \in DOMAIN queue.bindings : With[name] = X(m) /\ X(m).name = name
        BY <1>1, <2>1, <3>2, ExchangesThere
      <4> QED
        BY <1>5, <2>1, <4>1
    <3> QED
      BY <3>1, <3>2
  <2> QED
    BY <1>5, <2>1 DEF RefusesBinding, Inequivalent
<1>8. ~after.refused
  <2>1. CheckRetry(queue, TRUE)
    BY <1>1 DEF CheckRetry
  <2>2. ~Inequivalent(here.queues, queue.name, as)
    BY <1>4 DEF Inequivalent, Tracks, Within
  <2> QED
    BY <1>1, <1>4, <1>6, <1>7, <2>1, <2>2, SubscribeVerdict
<1> DEFINE there == after.routes
           With  == WithExchanges(here, queue.bindings, Len(queue.bindings) + 1)
<1>9. Routable(there) /\ there.queues = here.queues ++ Entry(queue.name, as) /\ there.exchanges = With.exchanges
  BY <1>1, <1>8, SubscribeVerdict
<1>10. DOMAIN queue.bindings \cap (1..((Len(queue.bindings) + 1) - 1)) = DOMAIN queue.bindings
  BY <1>1 DEF Listed
<1> HIDE DEF there
<1>11. /\ Within(here.exchanges, there.exchanges)
       /\ \A n \in DOMAIN queue.bindings : ~BuiltIn(X(n).name) => X(n).name \in DOMAIN there.exchanges
       /\ \A name \in DOMAIN there.exchanges \ DOMAIN here.exchanges :
             \E n \in DOMAIN queue.bindings :
                 there.exchanges[name] = X(n) /\ X(n).name = name /\ ~BuiltIn(name)
  BY <1>1, <1>9, <1>10, ExchangesThere
<1>12. /\ DOMAIN there.queues = DOMAIN here.queues \cup {queue.name}
       /\ \A name \in DOMAIN here.queues : there.queues[name] = here.queues[name]
       /\ queue.name \notin DOMAIN here.queues => there.queues[queue.name] = as
  BY <1>9 DEF ++, Entry
<1>13. Within(there.exchanges, routes.exchanges)
  <2> SUFFICES ASSUME NEW name \in DOMAIN there.exchanges
               PROVE  name \in DOMAIN routes.exchanges /\ routes.exchanges[name] = there.exchanges[name]
    BY DEF Within
  <2>1. CASE name \in DOMAIN here.exchanges
    BY <1>11, <2>1 DEF Within, Tracks
  <2>2. CASE name \notin DOMAIN here.exchanges
    <3>1. PICK n \in DOMAIN queue.bindings :
              there.exchanges[name] = X(n) /\ X(n).name = name /\ ~BuiltIn(name)
      BY <1>11, <2>2
    <3> QED
      BY <1>5, <3>1
  <2> QED
    BY <2>1, <2>2
<1>14. Within(there.queues, routes.queues)
  BY <1>4, <1>12 DEF Within, Tracks
<1>15. ASSUME NEW name \in DOMAIN routes.exchanges
       PROVE  ExchangeFrom(i + 1, there, name, routes.exchanges[name])
  <2>1. ExchangeFrom(i, here, name, routes.exchanges[name])
    BY DEF Tracks
  <2>2. ASSUME name \in DOMAIN here.exchanges,
               NEW j \in 1..(i - 1), [through |-> "exchange", name |-> name] \in Uses(j)
        PROVE  ExchangeFrom(i + 1, there, name, routes.exchanges[name])
    <3>1. j \in 1..((i + 1) - 1)
      BY <1>2
    <3> QED
      BY <1>11, <2>2, <3>1 DEF ExchangeFrom, Within
  <2>3. ASSUME NEW n \in DOMAIN queue.bindings, X(n) = routes.exchanges[name], X(n).name = name, ~BuiltIn(name)
        PROVE  ExchangeFrom(i + 1, there, name, routes.exchanges[name])
    <3>1. [through |-> "exchange", name |-> name] \in Uses(i)
      BY <2>3, NamesApart
    <3>2. i \in 1..((i + 1) - 1)
      BY <1>2
    <3> QED
      BY <1>11, <2>3, <3>1, <3>2 DEF ExchangeFrom
  <2>4. ASSUME NEW j \in 1..i, [through |-> "exchange", name |-> name] \in Waits(j),
               routes.exchanges[name] = DelayedExchange(name)
        PROVE  ExchangeFrom(i + 1, there, name, routes.exchanges[name])
    <3>1. j \in 1..(i + 1)
      BY <1>2
    <3> QED
      BY <2>4, <3>1 DEF ExchangeFrom
  <2> QED
    BY <2>1, <2>2, <2>3, <2>4 DEF ExchangeFrom
<1>16. ASSUME NEW name \in DOMAIN routes.queues
       PROVE  QueueFrom(i + 1, there, name, routes.queues[name])
  <2>1. QueueFrom(i, here, name, routes.queues[name])
    BY DEF Tracks
  <2>2. ASSUME name \in DOMAIN here.queues, NEW j \in 1..(i - 1), Queue(j).name = name
        PROVE  QueueFrom(i + 1, there, name, routes.queues[name])
    <3>1. j \in 1..((i + 1) - 1)
      BY <1>2
    <3> QED
      BY <1>12, <2>2, <3>1 DEF QueueFrom
  <2>3. ASSUME name = queue.name PROVE QueueFrom(i + 1, there, name, routes.queues[name])
    <3>1. i \in 1..((i + 1) - 1)
      BY <1>2
    <3> QED
      BY <1>12, <2>3, <3>1 DEF QueueFrom
  <2>4. ASSUME NEW j \in 1..i, [through |-> "queue", name |-> name] \in Waits(j),
               routes.queues[name] = DelayQueue(name, Queue(j).name).as
        PROVE  QueueFrom(i + 1, there, name, routes.queues[name])
    <3>1. j \in 1..(i + 1)
      BY <1>2
    <3> QED
      BY <2>4, <3>1 DEF QueueFrom
  <2> QED
    BY <2>1, <2>2, <2>3, <2>4 DEF QueueFrom
<1>17. Tracks(i + 1, there, routes, Start(i + 1))
  BY <1>9, <1>13, <1>14, <1>15, <1>16 DEF Tracks
<1> QED
  BY <1>8, <1>17 DEF there

(* -------------------------------- steps -------------------------------- *)
LEMMA InitHolds == Init => IInv
<1> SUFFICES ASSUME Init PROVE IInv
  OBVIOUS
<1> USE DEF Init
<1>1. AppFits(app)
  BY ServiceAssumption
<1>2. /\ DOMAIN running = DOMAIN Subs
      /\ \A i \in DOMAIN Subs : running[i] = <<>>
  OBVIOUS
<1>3. MessagesFit
  <2>1. AllFit(queues)
    BY DEF AllFit
  <2>2. \A i \in DOMAIN Subs : HandFits(i, running[i])
    BY <1>2, ShortListed DEF HandFits
  <2>3. WaitFits(waiting)
    BY ShortListed DEF WaitFits
  <2> QED
    BY <1>2, <2>1, <2>2, <2>3 DEF MessagesFit
<1>4. Len(Subs) \in Nat \ {0} /\ DOMAIN Subs = 1..Len(Subs)
  BY <1>1 DEF AppFits, Listed, Subs
<1>5. Routable(routes)
  BY <1>1 DEF AppFits, ProvisionFits, Routable, Bare
<1>6. Declares /\ Live => Asks(opened + 1, requests, routes.queues)
  BY <1>1, <1>4, StartAsks
<1>7. Opening
  BY <1>2, <1>4, <1>5, <1>6 DEF Opening
<1> QED
  BY <1>1, <1>3, <1>7 DEF IInv

(* While the app starts there is no message.                               *)
LEMMA WireKept ==
    ASSUME AppFits(app), MessagesFit, Opening, status = "starting", UNCHANGED <<app, wire>>
    PROVE  AppFits(app)' /\ MessagesFit'
<1>1. /\ queues' = <<>> /\ waiting' = <<>> /\ running' = running /\ sent' = sent
      /\ \A i \in DOMAIN Subs : running[i] = <<>>
  BY DEF Opening, wire
<1>2. Subs' = Subs
  BY DEF Subs
<1>3. AllFit(queues)' /\ WaitFits(waiting)'
  BY <1>1, ShortListed DEF AllFit, WaitFits
<1>4. \A i \in DOMAIN Subs' : HandFits(i, running[i])'
  BY <1>1, <1>2, ShortListed DEF HandFits
<1> QED
  BY <1>1, <1>2, <1>3, <1>4 DEF MessagesFit

LEMMA NextCount ==
    ASSUME NEW count \in Nat, NEW n \in Nat, n < count
    PROVE  /\ n + 1 \in 1..count /\ n + 1 # 0 /\ n + 1 \in 0..count
           /\ n + 1 # count => n + 1 < count /\ n + 2 \in 1..count
           /\ \A i \in 1..(n + 1) : i \in 1..n \/ i = n + 1
           /\ (n + 1) + 1 = n + 2
OBVIOUS

LEMMA OpeningNext ==
    ASSUME UNCHANGED <<app, link>>,
           opened' \in 0..Len(Subs),
           status' \in {"starting", "running", "refused"},
           status' = "starting" => opened' < Len(Subs),
           status' = "running" => opened' = Len(Subs),
           status' # "running" => /\ queues' = <<>> /\ waiting' = <<>>
                                  /\ \A i \in DOMAIN Subs : running'[i] = <<>>,
           Routable(routes'),
           \A i \in 1..opened' : CheckRetry(Queue(i), Declares),
           Declares => \A i \in 1..opened' : DeclaredIn(routes'.queues, i),
           Declares /\ Live /\ status' = "starting" => Asks(opened' + 1, requests', routes'.queues)
    PROVE  Opening'
<1>1. Subs' = Subs /\ Declares' = Declares /\ Live' = Live /\ \A i : Queue(i)' = Queue(i)
  BY DEF Subs, Declares, Live, Queue
<1>2. \A i : DeclaredIn(routes.queues, i)' <=> DeclaredIn(routes'.queues, i)
  BY <1>1 DEF DeclaredIn
<1>3. \A i : AskFor(i)' = AskFor(i)
  BY <1>1 DEF AskFor
<1>4. Asks(opened + 1, requests, routes.queues)' <=> Asks(opened' + 1, requests', routes'.queues)
  BY <1>1, <1>3 DEF Asks, DeclaredIn
<1> QED
  BY <1>1, <1>2, <1>4 DEF Opening

(* A step of the starting app opens the next subscription, goes on towards *)
(* it, or is refused.                                                      *)
LEMMA RequestHolds ==
    ASSUME IInv, Request
    PROVE  IInv'
<1> DEFINE next == opened + 1
           request == Head(requests)
<1> USE DEF IInv
<1>1. AppFits(app)' /\ MessagesFit'
  BY WireKept DEF Request
<1>2. /\ UNCHANGED <<app, link, queues, waiting, running>> /\ Live /\ status = "starting"
      /\ opened \in Nat /\ opened < Len(Subs) /\ DOMAIN Subs = 1..Len(Subs) /\ Len(Subs) \in Nat
  BY DEF Request, wire, Opening, AppFits, Listed, Subs
<1>n. /\ next \in 1..Len(Subs) /\ next \in DOMAIN Subs
      /\ next \in 0..Len(Subs)
      /\ next # Len(Subs) => next < Len(Subs) /\ next + 1 \in DOMAIN Subs
      /\ \A i \in 1..next : i \in 1..opened \/ i = next
  BY <1>2, NextCount
<1>3. /\ queues' = <<>> /\ waiting' = <<>> /\ \A i \in DOMAIN Subs : running'[i] = <<>>
      /\ \A i \in 1..opened : CheckRetry(Queue(i), Declares)
      /\ Declares => \A i \in 1..opened : DeclaredIn(routes.queues, i)
      /\ Routable(routes)
  BY <1>2 DEF Opening
<1>4. Declares => Asks(next, requests, routes.queues)
  BY <1>2 DEF Opening
<1>5. CASE status' = "refused" /\ UNCHANGED <<opened, requests, routes>>
  <2>1. Opening'
    BY <1>2, <1>3, <1>5, OpeningNext
  <2> QED
    BY <1>1, <2>1
<1>6. CASE /\ ~Refuses(routes, request) /\ routes' = Served(routes, request)
           /\ CheckRetry(Queue(next), Declares)
           /\ IF request.op = "consume" THEN Open(next) /\ requests' = Start(next + 1)
              ELSE requests' = Tail(requests) /\ UNCHANGED <<status, opened>>
  <2>1. /\ Routable(routes')
        /\ \A i : DeclaredIn(routes.queues, i) => DeclaredIn(routes'.queues, i)
        /\ \A i : request = AskFor(i) => DeclaredIn(routes'.queues, i)
    BY <1>3, <1>6, ServedKeeps
  <2>2. CASE request.op = "consume"
    <3>1. opened' = next /\ status' = IF next = Len(Subs) THEN "running" ELSE "starting"
      BY <1>6, <2>2 DEF Open
    <3>2. ASSUME Declares PROVE DeclaredIn(routes'.queues, next)
      <4>1. Len(requests) = 1 /\ Range(requests) = {request}
        <5>1. requests \in Seq(Range(requests)) /\ requests # <<>>
          BY <1>4, <3>2 DEF Asks, Listed
        <5>2. 1 \in DOMAIN requests /\ request = requests[1]
          BY <5>1
        <5>3. Len(requests) = 1
          BY <1>4, <2>2, <3>2, <5>2 DEF Asks
        <5>4. DOMAIN requests = {1}
          BY <5>1, <5>3
        <5> QED
          BY <5>2, <5>3, <5>4 DEF Range
      <4>2. AskFor(next).op # "consume"
        BY DEF AskFor, DeclareQueue
      <4> QED
        BY <1>4, <2>1, <2>2, <3>2, <4>1, <4>2 DEF Asks
    <3>3. Declares /\ status' = "starting" => Asks(next + 1, requests', routes'.queues)
      BY <1>n, <1>6, <2>2, <3>1, StartAsks
    <3>4. /\ opened' \in 0..Len(Subs) /\ status' \in {"starting", "running", "refused"}
          /\ status' = "starting" => opened' < Len(Subs)
          /\ status' = "running" => opened' = Len(Subs)
      BY <1>n, <3>1
    <3>5. \A i \in 1..opened' : i \in 1..opened \/ i = next
      BY <1>n, <3>1
    <3>6. /\ \A i \in 1..opened' : CheckRetry(Queue(i), Declares)
          /\ Declares => \A i \in 1..opened' : DeclaredIn(routes'.queues, i)
      BY <1>3, <1>6, <2>1, <3>2, <3>5
    <3>7. Opening'
      BY <1>2, <1>3, <2>1, <3>1, <3>3, <3>4, <3>6, OpeningNext
    <3> QED
      BY <1>1, <3>7
  <2>3. CASE request.op # "consume"
    <3>1. requests' = Tail(requests) /\ UNCHANGED <<status, opened>>
      BY <1>6, <2>3
    <3>2. Declares => Asks(next, requests', routes'.queues)
      BY <1>4, <2>1, <2>3, <3>1, AskedOn
    <3>3. Opening'
      BY <1>2, <1>3, <2>1, <3>1, <3>2, OpeningNext
    <3> QED
      BY <1>1, <3>3
  <2> QED
    BY <2>2, <2>3
<1> QED
  BY <1>5, <1>6 DEF Request, Refuse

LEMMA SubscribeHereHolds ==
    ASSUME IInv, SubscribeHere
    PROVE  IInv'
<1> DEFINE next == opened + 1
           after == Subscribe(routes, Queue(next), Declares)
<1> USE DEF IInv
<1>1. AppFits(app)' /\ MessagesFit'
  BY WireKept DEF SubscribeHere
<1>2. /\ UNCHANGED <<app, link, queues, waiting, running>> /\ ~Live /\ status = "starting"
      /\ opened \in Nat /\ opened < Len(Subs) /\ DOMAIN Subs = 1..Len(Subs) /\ Len(Subs) \in Nat
  BY DEF SubscribeHere, wire, Opening, AppFits, Listed, Subs
<1>n. /\ next \in 1..Len(Subs) /\ next \in DOMAIN Subs
      /\ next \in 0..Len(Subs)
      /\ next # Len(Subs) => next < Len(Subs) /\ next + 1 \in DOMAIN Subs
      /\ \A i \in 1..next : i \in 1..opened \/ i = next
  BY <1>2, NextCount
<1>3. /\ queues' = <<>> /\ waiting' = <<>> /\ \A i \in DOMAIN Subs : running'[i] = <<>>
      /\ \A i \in 1..opened : CheckRetry(Queue(i), Declares)
      /\ Declares => \A i \in 1..opened : DeclaredIn(routes.queues, i)
      /\ Routable(routes)
  BY <1>2 DEF Opening
<1>4. next \in DOMAIN Subs
  BY <1>2
<1>5. /\ Routable(after.routes)
      /\ \A i : DeclaredIn(routes.queues, i) => DeclaredIn(after.routes.queues, i)
      /\ ~after.refused => /\ CheckRetry(Queue(next), Declares)
                           /\ Declares => DeclaredIn(after.routes.queues, next)
  BY <1>3, <1>4, SubscribeKeeps
<1>6. /\ routes' = after.routes
      /\ IF after.refused THEN Refuse ELSE Open(next) /\ UNCHANGED requests
  BY DEF SubscribeHere
<1> HIDE DEF after
<1>7. CASE after.refused
  <2>1. Opening'
    BY <1>2, <1>3, <1>5, <1>6, <1>7, OpeningNext DEF Refuse
  <2> QED
    BY <1>1, <2>1
<1>8. CASE ~after.refused
  <2>1. opened' = next /\ status' = IF next = Len(Subs) THEN "running" ELSE "starting"
    BY <1>6, <1>8 DEF Open
  <2>2. /\ opened' \in 0..Len(Subs) /\ status' \in {"starting", "running", "refused"}
        /\ status' = "starting" => opened' < Len(Subs)
        /\ status' = "running" => opened' = Len(Subs)
        /\ \A i \in 1..opened' : i \in 1..opened \/ i = next
    BY <1>n, <2>1
  <2>3. /\ \A i \in 1..opened' : CheckRetry(Queue(i), Declares)
        /\ Declares => \A i \in 1..opened' : DeclaredIn(routes'.queues, i)
    BY <1>3, <1>5, <1>6, <1>8, <2>2
  <2>4. Opening'
    BY <1>2, <1>3, <1>5, <1>6, <2>2, <2>3, OpeningNext
  <2> QED
    BY <1>1, <2>4
<1> QED
  BY <1>7, <1>8

(* The steps of a running app leave what was opened alone.                 *)
LEMMA RunningKeeps ==
    ASSUME IInv, status = "running", UNCHANGED <<app, link, status, opened, requests, routes>>
    PROVE  AppFits(app)' /\ Opening'
<1>1. /\ opened \in 0..Len(Subs) /\ opened = Len(Subs) /\ Routable(routes)
      /\ \A i \in 1..opened : CheckRetry(Queue(i), Declares)
      /\ Declares => \A i \in 1..opened : DeclaredIn(routes.queues, i)
  BY DEF IInv, Opening
<1>2. Opening'
  BY <1>1, OpeningNext
<1> QED
  BY <1>2 DEF IInv

(* The messages, and what holds of them after a step.                      *)
LEMMA MessagesNext ==
    ASSUME UNCHANGED <<app, routes, hash>>, AllFit(queues'),
           DOMAIN running' = DOMAIN Subs, \A i \in DOMAIN Subs : HandFits(i, running'[i]),
           WaitFits(waiting'), sent' \in Nat
    PROVE  MessagesFit'
<1>1. Subs' = Subs /\ \A i : Queue(i)' = Queue(i)
  BY DEF Subs, Queue
<1>2. \A q, m : Fits(q, m)' <=> Fits(q, m)
  <2>1. \A x, key, q : Came(x, key, q)' <=> Came(x, key, q)
    BY DEF Came, Leads
  <2> QED
    BY <1>1, <2>1 DEF Fits, Capped
<1>3. AllFit(queues)' <=> AllFit(queues')
  BY <1>2 DEF AllFit
<1>4. \A i : HandFits(i, running[i])' <=> HandFits(i, running'[i])
  BY <1>1, <1>2 DEF HandFits
<1> QED
  BY <1>1, <1>3, <1>4 DEF MessagesFit, WaitFits

LEMMA TestSendsHolds ==
    ASSUME IInv, TestSends
    PROVE  IInv'
<1>1. AppFits(app)' /\ Opening'
  BY RunningKeeps DEF TestSends
<1>2. OutFits(app.sends[sent + 1])
  <2>1. SendsFit(app.sends) /\ sent \in Nat /\ sent < Len(app.sends)
    BY DEF IInv, AppFits, MessagesFit, TestSends
  <2>2. sent + 1 \in DOMAIN app.sends
    BY <2>1 DEF SendsFit, Listed
  <2> QED
    BY <2>1, <2>2 DEF SendsFit, Range
<1>3. AllFit(queues')
  BY <1>2, GoesOutFits DEF IInv, MessagesFit, TestSends
<1>4. MessagesFit'
  BY <1>3, MessagesNext DEF TestSends, IInv, MessagesFit
<1> QED
  BY <1>1, <1>4 DEF IInv

LEMMA TakeHolds ==
    ASSUME IInv, NEW i \in DOMAIN Subs, Take(i)
    PROVE  IInv'
<1> DEFINE name == Queue(i).name
           message == Head(Ready(name))
           work == [message |-> message, sends |-> Reaction(i, message).sends]
<1> USE DEF IInv
<1>1. AppFits(app)' /\ Opening'
  BY RunningKeeps DEF Take
<1>2. name \in DOMAIN queues /\ queues[name] # <<>> /\ Ready(name) = queues[name]
  BY DEF Take, Ready
<1>3. /\ Listed(queues[name]) /\ \A m \in Range(queues[name]) : Fits(name, m)
  BY <1>2 DEF MessagesFit, AllFit
<1>4. /\ Listed(Tail(queues[name])) /\ Range(Tail(queues[name])) \subseteq Range(queues[name])
      /\ Fits(name, message)
  BY <1>2, <1>3, TailListed
<1>5. queues' = [queues EXCEPT ![name] = Tail(@)]
  BY DEF Take
<1>6. AllFit(queues')
  <2> SUFFICES ASSUME NEW q \in DOMAIN queues PROVE Listed(queues'[q]) /\ \A m \in Range(queues'[q]) : Fits(q, m)
    BY <1>5 DEF AllFit
  <2>1. CASE q = name
    BY <1>2, <1>3, <1>4, <1>5, <2>1
  <2>2. CASE q # name
    BY <1>5, <2>2 DEF MessagesFit, AllFit
  <2> QED
    BY <2>1, <2>2
<1>7. SendsFit(work.sends)
  BY ReactionFits
<1> HIDE DEF message
<1>8. /\ DOMAIN running' = DOMAIN Subs /\ running'[i] = Append(running[i], work)
      /\ \A j \in DOMAIN Subs \ {i} : running'[j] = running[j]
  BY DEF Take, MessagesFit, message
<1>9. HandFits(i, Append(running[i], work))
  <2>1. HandFits(i, running[i])
    BY DEF MessagesFit
  <2>2. /\ Listed(Append(running[i], work))
        /\ Range(Append(running[i], work)) = Range(running[i]) \cup {work}
    BY <2>1, AppendListed DEF HandFits
  <2>3. {"message", "sends"} \subseteq DOMAIN work /\ work.message = message
    OBVIOUS
  <2> HIDE DEF work
  <2> QED
    BY <1>4, <1>7, <2>1, <2>2, <2>3 DEF HandFits
<1>10. MessagesFit'
  <2>1. \A j \in DOMAIN Subs : HandFits(j, running'[j])
    BY <1>8, <1>9 DEF MessagesFit
  <2> QED
    BY <1>6, <1>8, <2>1, MessagesNext DEF Take, MessagesFit
<1> QED
  BY <1>1, <1>10

LEMMA HandlerSendsHolds ==
    ASSUME IInv, status = "running", NEW i \in DOMAIN Subs, NEW n \in DOMAIN running[i], HandlerSends(i, n)
    PROVE  IInv'
<1> DEFINE work == running[i][n]
           left == [work EXCEPT !.sends = Tail(@)]
           hand == [running[i] EXCEPT ![n] = left]
<1> USE DEF IInv
<1>1. AppFits(app)' /\ Opening'
  BY RunningKeeps DEF HandlerSends
<1>2. HandFits(i, running[i]) /\ work \in Range(running[i])
  BY DEF MessagesFit, Range
<1>3. /\ {"message", "sends"} \subseteq DOMAIN work
      /\ Fits(Queue(i).name, work.message) /\ SendsFit(work.sends) /\ work.sends # <<>>
  BY <1>2 DEF HandFits, HandlerSends
<1>4. OutFits(Head(work.sends)) /\ SendsFit(Tail(work.sends))
  BY <1>3, TailListed DEF SendsFit
<1>5. AllFit(queues')
  <2>1. OutFits(Addressed(Head(work.sends), work.message))
    BY <1>4, AddressedFits
  <2> QED
    BY <2>1, GoesOutFits DEF HandlerSends, MessagesFit
<1>6. /\ DOMAIN running' = DOMAIN Subs /\ running'[i] = hand
      /\ \A j \in DOMAIN Subs \ {i} : running'[j] = running[j]
  BY DEF HandlerSends, MessagesFit
<1>7. /\ {"message", "sends"} \subseteq DOMAIN left
      /\ left.message = work.message /\ left.sends = Tail(work.sends)
  BY <1>3
<1> HIDE DEF left
<1>8. Listed(hand) /\ Range(hand) \subseteq Range(running[i]) \cup {left}
  <2>1. /\ hand = [k \in DOMAIN running[i] |-> hand[k]]
        /\ \A k \in DOMAIN running[i] : hand[k] \in {running[i][k], left}
    OBVIOUS
  <2> HIDE DEF hand
  <2> QED
    BY <1>2, <2>1, AsLong DEF HandFits, Range
<1>9. HandFits(i, hand)
  <2> HIDE DEF hand
  <2> QED
    BY <1>2, <1>3, <1>4, <1>7, <1>8 DEF HandFits
<1>10. MessagesFit'
  <2> HIDE DEF hand
  <2>1. \A j \in DOMAIN Subs : HandFits(j, running'[j])
    BY <1>6, <1>9 DEF MessagesFit
  <2> QED
    BY <1>5, <1>6, <2>1, MessagesNext DEF HandlerSends, MessagesFit
<1> QED
  BY <1>1, <1>10

LEMMA FinishHolds ==
    ASSUME IInv, status = "running", NEW i \in DOMAIN Subs, NEW n \in DOMAIN running[i], Finish(i, n)
    PROVE  IInv'
<1> DEFINE work   == running[i][n]
           leaves == Settled(i, work.message, Reaction(i, work.message).outcome)
           name   == Queue(i).name
           first  == PutBack(leaves.back, Ready(name))
           ready  == Entry(name, first) ++ queues
<1> USE DEF IInv
<1>1. AppFits(app)' /\ Opening'
  BY RunningKeeps DEF Finish
<1>2. HandFits(i, running[i]) /\ work \in Range(running[i])
  BY DEF MessagesFit, Range
<1>3. Fits(name, work.message)
  BY <1>2 DEF HandFits
<1>4. /\ \A dead \in leaves.join :
            /\ Fresh(dead.message)
            /\ \A q \in dead.to : Came(dead.message.exchange, dead.message.key, q)
      /\ Listed(leaves.back) /\ \A b \in Range(leaves.back) : Fits(name, b)
      /\ WaitFits(leaves.wait)
  BY <1>3, SettledFits
<1>5. /\ running' = [running EXCEPT ![i] = RemoveAt(@, n)]
      /\ \/ queues' = ready
         \/ \E dead \in leaves.join : queues' = Joined(ready, dead.message, dead.to)
      /\ waiting' = waiting \o leaves.wait
      /\ UNCHANGED <<app, sent, routes, hash>>
  BY DEF Finish
<1> HIDE DEF leaves
<1>6. Listed(Ready(name)) /\ \A m \in Range(Ready(name)) : Fits(name, m)
  BY ShortListed DEF Ready, MessagesFit, AllFit
<1>7. Listed(first) /\ \A m \in Range(first) : Fits(name, m)
  <2>1. Listed(first) /\ Range(first) = Range(leaves.back) \cup Range(Ready(name))
    BY <1>4, <1>6, ConcatListed DEF PutBack
  <2> QED
    BY <1>4, <1>6, <2>1
<1>8. AllFit(ready)
  <2> HIDE DEF first
  <2> QED
    BY <1>7 DEF AllFit, MessagesFit, ++, Entry
<1> HIDE DEF ready
<1>9. AllFit(queues')
  BY <1>4, <1>5, <1>8, JoinedFits
<1>10. WaitFits(waiting')
  BY <1>4, <1>5, ConcatListed DEF WaitFits, MessagesFit
<1>11. HandFits(i, RemoveAt(running[i], n))
  BY <1>2, RemoveListed DEF HandFits
<1>12. /\ DOMAIN running' = DOMAIN Subs
       /\ \A j \in DOMAIN Subs : HandFits(j, running'[j])
  BY <1>5, <1>11 DEF MessagesFit
<1>13. MessagesFit'
  BY <1>5, <1>9, <1>10, <1>12, MessagesNext DEF MessagesFit
<1> QED
  BY <1>1, <1>13

LEMMA ElapseHolds ==
    ASSUME IInv, status = "running", NEW n \in DOMAIN waiting, Elapse(n)
    PROVE  IInv'
<1> DEFINE message == waiting[n].message
           way     == Released(n)
<1> USE DEF IInv
<1>1. AppFits(app)' /\ Opening'
  BY RunningKeeps DEF Elapse
<1>2. Fresh(message) /\ Listed(waiting)
  BY DEF MessagesFit, WaitFits, Range
<1>3. /\ Fresh(Along(way.exchange, way.key, message))
      /\ Along(way.exchange, way.key, message).exchange = way.exchange
      /\ Along(way.exchange, way.key, message).key = way.key
  BY <1>2, AlongFresh DEF Along, Fresh, Kept
<1>4. AllFit(queues')
  <2>1. \A q \in Targets(way.exchange, way.key, message.frame.table) : Came(way.exchange, way.key, q)
    BY TargetsCame
  <2>2. AllFit(Joined(queues, Along(way.exchange, way.key, message),
                      Targets(way.exchange, way.key, message.frame.table)))
    <3> HIDE DEF way, message
    <3> QED
      BY <1>3, <2>1, JoinedFits DEF MessagesFit
  <2> QED
    BY <2>2 DEF Elapse
<1>5. WaitFits(waiting')
  BY <1>2, RemoveListed DEF Elapse, MessagesFit, WaitFits
<1>6. MessagesFit'
  BY <1>4, <1>5, MessagesNext DEF Elapse, MessagesFit
<1> QED
  BY <1>1, <1>6

LEMMA StepHolds == IInv /\ [Next]_vars => IInv'
<1> SUFFICES ASSUME IInv, [Next]_vars PROVE IInv'
  OBVIOUS
<1>1. CASE UNCHANGED vars
  <2>1. UNCHANGED <<app, link, status, opened, requests, routes, queues, running, waiting, sent, hash>>
    BY <1>1 DEF vars
  <2>2. MessagesFit'
    BY <2>1, MessagesNext DEF IInv, MessagesFit
  <2>3. Opening'
    BY <2>1, OpeningNext DEF IInv, Opening
  <2> QED
    BY <2>1, <2>2, <2>3 DEF IInv
<1>2. CASE Request
  BY <1>2, RequestHolds
<1>3. CASE SubscribeHere
  BY <1>3, SubscribeHereHolds
<1>4. CASE TestSends
  BY <1>4, TestSendsHolds
<1>5. ASSUME NEW i \in DOMAIN Subs, Take(i) PROVE IInv'
  BY <1>5, TakeHolds
<1>6. ASSUME NEW i \in DOMAIN Subs, NEW n \in DOMAIN running[i] PROVE status = "running"
  BY <1>6 DEF IInv, Opening
<1>7. ASSUME NEW i \in DOMAIN Subs, NEW n \in DOMAIN running[i], HandlerSends(i, n) PROVE IInv'
  BY <1>6, <1>7, HandlerSendsHolds
<1>8. ASSUME NEW i \in DOMAIN Subs, NEW n \in DOMAIN running[i], Finish(i, n) PROVE IInv'
  BY <1>6, <1>8, FinishHolds
<1>9. ASSUME NEW n \in DOMAIN waiting, Elapse(n) PROVE IInv'
  <2>1. status = "running"
    BY DEF IInv, Opening
  <2> QED
    BY <1>9, <2>1, ElapseHolds
<1> QED
  BY <1>1, <1>2, <1>3, <1>4, <1>5, <1>7, <1>8, <1>9 DEF Next

(* What the harness knows, step by step.                                   *)
LEMMA KnownInit == Init => Wired /\ Noted
<1> SUFFICES ASSUME Init PROVE Wired /\ Noted
  OBVIOUS
<1> USE DEF Init
<1>1. AppFits(app) /\ 1 \in DOMAIN Subs
  BY ServiceAssumption DEF AppFits, Listed, Subs
<1>2. seen.bindings = {} /\ seen.delivered = {} /\ DOMAIN seen = {"bindings", "published", "delivered"}
  BY DEF NothingSeen
<1>3. Noted
  BY <1>2 DEF Noted
<1>4. ASSUME Live
      PROVE  Ordered(1, requests, routes.exchanges, {}) /\ Ends(requests)
  <2>1. routes = app.provisioned /\ requests = Start(1)
    BY <1>4
  <2>2. \A b \in app.provisioned.bindings : KindKnown(routes.exchanges, b)
    BY <1>1, <2>1 DEF AppFits, ProvisionFits
  <2> QED
    BY <1>1, <2>1, <2>2, StartOrdered
<1>5. Wired
  <2>1. Live => routes = app.provisioned
    OBVIOUS
  <2>2. opened = 0 /\ opened + 1 = 1 /\ \A i \in 1..opened : FALSE
    OBVIOUS
  <2> QED
    BY <1>1, <1>2, <1>4, <2>1, <2>2 DEF Wired, AppFits, ProvisionFits
<1> QED
  BY <1>3, <1>5

LEMMA WiredNext ==
    ASSUME UNCHANGED <<app, link>>,
           Live => /\ \A b \in routes'.bindings :
                         b \in Described(app) \cup app.provisioned.bindings \/ Plugin(b)
                   /\ seen'.bindings \subseteq Described(app)
                   /\ \A i \in 1..opened' : BoundBy(Queue(i)) \subseteq seen'.bindings
                   /\ \A b \in routes'.bindings \cup seen'.bindings \cup app.provisioned.bindings :
                         KindKnown(routes'.exchanges, b)
                   /\ status' = "starting" => /\ Ordered(opened' + 1, requests', routes'.exchanges, {})
                                              /\ Ends(requests')
    PROVE  Wired'
<1>1. Live' = Live /\ \A i : Queue(i)' = Queue(i)
  BY DEF Live, Queue, Subs
<1>2. Ordered(opened + 1, requests, routes.exchanges, {})' <=>
          Ordered(opened' + 1, requests', routes'.exchanges, {})
  BY <1>1 DEF Ordered, NeededBy
<1> QED
  BY <1>1, <1>2 DEF Wired

LEMMA WiredRequest ==
    ASSUME IInv, Wired, Noted, Request
    PROVE  Wired'
<1> DEFINE next == opened + 1
           request == Head(requests)
<1>1. /\ UNCHANGED <<app, link>> /\ Live /\ status = "starting" /\ AppFits(app) /\ Routable(routes)
      /\ opened \in Nat /\ opened < Len(Subs) /\ DOMAIN Subs = 1..Len(Subs) /\ Len(Subs) \in Nat
  BY DEF Request, IInv, Opening, AppFits, Listed, Subs
<1>2. /\ next \in DOMAIN Subs
      /\ next # Len(Subs) => next + 1 \in DOMAIN Subs
      /\ \A i \in 1..next : i \in 1..opened \/ i = next
  BY <1>1, NextCount
<1>3. /\ \A b \in routes.bindings : b \in Described(app) \cup app.provisioned.bindings \/ Plugin(b)
      /\ seen.bindings \subseteq Described(app)
      /\ \A i \in 1..opened : BoundBy(Queue(i)) \subseteq seen.bindings
      /\ \A b \in routes.bindings \cup seen.bindings \cup app.provisioned.bindings :
            KindKnown(routes.exchanges, b)
      /\ Ordered(next, requests, routes.exchanges, {}) /\ Ends(requests)
  BY <1>1 DEF Wired
<1>4. /\ request.op = "bind" => request.bound \in BoundBy(Queue(next)) \/ Plugin(request.bound)
      /\ \A b \in NeededBy(next, request) : KindKnown(routes.exchanges, b)
  <2>1. requests \in Seq(Range(requests)) /\ requests # <<>>
    BY <1>3 DEF Ordered, Ends, Listed
  <2>2. 1 \in DOMAIN requests /\ request = requests[1] /\ 1..(1 - 1) = {}
    BY <2>1
  <2> QED
    BY <1>3, <2>2 DEF Ordered
<1>5. BoundBy(Queue(next)) \subseteq Described(app)
  BY <1>2 DEF Described, Subs, Queue, Range
<1>6. /\ seen.bindings \subseteq seen'.bindings
      /\ seen'.bindings \subseteq Described(app)
      /\ \A b \in seen'.bindings : KindKnown(routes.exchanges, b)
      /\ CheckRetry(Queue(next), Declares) /\ request.op = "consume" =>
            BoundBy(Queue(next)) \subseteq seen'.bindings
  <2>1. CASE CheckRetry(Queue(next), Declares) /\ request.op \in {"passive", "consume"}
    <3>1. seen' = NoteBound(seen, Queue(next))
      BY <2>1 DEF Request
    <3>2. seen'.bindings = seen.bindings \cup BoundBy(Queue(next))
      BY <3>1 DEF NoteBound, BoundBy, Noted
    <3>3. request.op # "bind" /\ NeededBy(next, request) = BoundBy(Queue(next))
      BY <2>1 DEF NeededBy
    <3> QED
      BY <1>3, <1>4, <1>5, <3>2, <3>3
  <2>2. CASE ~(CheckRetry(Queue(next), Declares) /\ request.op \in {"passive", "consume"})
    <3>1. seen' = seen
      BY <2>2 DEF Request
    <3> QED
      BY <1>3, <2>2, <3>1
  <2> QED
    BY <2>1, <2>2
<1>7. CASE status' = "refused" /\ UNCHANGED <<opened, requests, routes>>
  BY <1>1, <1>3, <1>6, <1>7, WiredNext
<1>8. CASE /\ ~Refuses(routes, request) /\ routes' = Served(routes, request)
           /\ CheckRetry(Queue(next), Declares)
           /\ IF request.op = "consume" THEN Open(next) /\ requests' = Start(next + 1)
              ELSE requests' = Tail(requests) /\ UNCHANGED <<status, opened>>
  <2>1. /\ \A b : KindKnown(routes.exchanges, b) \/ Makes(request, b) => KindKnown(routes'.exchanges, b)
        /\ routes'.bindings \subseteq
              routes.bindings \cup {request.bound : o \in {request.op} \cap {"bind"}}
    BY <1>1, <1>8, KindKept
  <2>2. \A b \in routes'.bindings : /\ b \in Described(app) \cup app.provisioned.bindings \/ Plugin(b)
                                    /\ KindKnown(routes'.exchanges, b)
    <3> SUFFICES ASSUME NEW b \in routes'.bindings
                 PROVE  /\ b \in Described(app) \cup app.provisioned.bindings \/ Plugin(b)
                        /\ KindKnown(routes'.exchanges, b)
      OBVIOUS
    <3>1. CASE b \in routes.bindings
      BY <1>3, <2>1, <3>1
    <3>2. CASE b = request.bound /\ request.op = "bind"
      BY <1>4, <1>5, <2>1, <3>2 DEF NeededBy
    <3> QED
      BY <2>1, <3>1, <3>2
  <2>3. \A b \in seen'.bindings \cup app.provisioned.bindings : KindKnown(routes'.exchanges, b)
    BY <1>3, <1>6, <2>1
  <2>4. CASE request.op = "consume"
    <3>1. /\ opened' = next /\ requests' = Start(next + 1)
          /\ status' = IF next = Len(Subs) THEN "running" ELSE "starting"
      BY <1>8, <2>4 DEF Open
    <3>2. \A i \in 1..opened' : BoundBy(Queue(i)) \subseteq seen'.bindings
      BY <1>2, <1>3, <1>6, <1>8, <2>4, <3>1
    <3>3. ASSUME status' = "starting"
          PROVE  Ordered(opened' + 1, requests', routes'.exchanges, {}) /\ Ends(requests')
      <4>1. next + 1 \in DOMAIN Subs
        BY <1>2, <3>1, <3>3
      <4> QED
        BY <1>1, <2>3, <3>1, <4>1, StartOrdered
    <3> QED
      BY <1>1, <1>6, <2>2, <2>3, <3>2, <3>3, WiredNext
  <2>5. CASE request.op # "consume"
    <3>1. requests' = Tail(requests) /\ UNCHANGED <<status, opened>>
      BY <1>8, <2>5
    <3>2. Ordered(opened' + 1, requests', routes'.exchanges, {}) /\ Ends(requests')
      BY <1>3, <2>1, <2>5, <3>1, OrderedOn
    <3>3. \A i \in 1..opened' : BoundBy(Queue(i)) \subseteq seen'.bindings
      BY <1>3, <1>6, <3>1
    <3> QED
      BY <1>1, <1>6, <2>2, <2>3, <3>2, <3>3, WiredNext
  <2> QED
    BY <2>4, <2>5
<1> QED
  BY <1>7, <1>8 DEF Request, Refuse

LEMMA NotedStarting ==
    ASSUME IInv, Noted, Request \/ SubscribeHere
    PROVE  Noted'
<1>1. /\ status = "starting" /\ UNCHANGED last
      /\ seen' = seen \/ \E queue : seen' = NoteBound(seen, queue)
  BY DEF Request, SubscribeHere, wire
<1>2. seen.delivered = {} /\ last = {} /\ DOMAIN seen = {"bindings", "published", "delivered"}
  BY <1>1 DEF Noted
<1>3. seen'.delivered = {} /\ last' = {} /\ DOMAIN seen' = {"bindings", "published", "delivered"}
  BY <1>1, <1>2 DEF NoteBound
<1> QED
  BY <1>3 DEF Noted

(* While the app runs, what was noted stays true.                          *)
LEMMA NotedNext ==
    ASSUME UNCHANGED <<app, link, routes, hash>>, status' = "running",
           DOMAIN seen' = {"bindings", "published", "delivered"},
           \A d \in seen'.delivered : Came(d[1], d[2], d[3]),
           \A p \in last' :
              /\ Live /\ p.exchange # DefaultExchange => <<p.exchange, p.key>> \in seen'.published
              /\ \A i \in p.got : i \in DOMAIN Subs /\ Came(p.exchange, p.key, Queue(i).name)
    PROVE  Noted'
<1>1. Live' = Live /\ Subs' = Subs /\ \A i : Queue(i)' = Queue(i)
  BY DEF Live, Queue, Subs
<1>2. \A x, key, q : Came(x, key, q)' <=> Came(x, key, q)
  BY DEF Came, Leads
<1> QED
  BY <1>1, <1>2 DEF Noted

LEMMA NotedOut ==
    ASSUME Noted, status = "running", NEW out, GoesOut(out),
           UNCHANGED <<app, link, status, routes, hash>>
    PROVE  Noted' /\ seen'.bindings = seen.bindings
<1> DEFINE x == out.policy.exchange
           p == [exchange |-> x, key |-> out.key,
                 got |-> {i \in DOMAIN Subs : Queue(i).name \in PublishedTo(out)}]
<1>1. DOMAIN seen = {"bindings", "published", "delivered"}
  BY DEF Noted
<1>2. CASE Sendable(out)
  <2>1. last' = {p} /\ seen' = IF Live THEN NotePublished(seen, x, out.key) ELSE seen
    BY <1>2 DEF GoesOut
  <2>2. /\ DOMAIN seen' = DOMAIN seen /\ seen'.delivered = seen.delivered
        /\ seen'.bindings = seen.bindings
        /\ Live /\ x # DefaultExchange => <<x, out.key>> \in seen'.published
    BY <1>1, <2>1 DEF NotePublished
  <2>3. p.exchange = x /\ p.key = out.key /\ \A i \in p.got : i \in DOMAIN Subs /\ Came(x, out.key, Queue(i).name)
    BY TargetsCame DEF PublishedTo
  <2> HIDE DEF p, x
  <2> QED
    BY <1>1, <2>1, <2>2, <2>3, NotedNext DEF Noted
<1>3. CASE ~Sendable(out)
  <2>1. UNCHANGED <<seen, last>>
    BY <1>3 DEF GoesOut
  <2> QED
    BY <1>1, <2>1, NotedNext DEF Noted
<1> QED
  BY <1>2, <1>3

LEMMA NotedTake ==
    ASSUME IInv, Noted, NEW i \in DOMAIN Subs, Take(i)
    PROVE  Noted' /\ seen'.bindings = seen.bindings
<1> DEFINE name == Queue(i).name
           m    == Head(Ready(name))
<1>1. /\ status' = "running" /\ UNCHANGED <<app, link, routes, hash, last>>
      /\ seen' = IF Live THEN NoteDelivered(seen, m.exchange, m.key, name) ELSE seen
      /\ DOMAIN seen = {"bindings", "published", "delivered"}
  BY DEF Take, Noted
<1>2. Came(m.exchange, m.key, name)
  <2>1. name \in DOMAIN queues /\ queues[name] # <<>> /\ Ready(name) = queues[name]
    BY DEF Take, Ready
  <2>2. Listed(queues[name]) /\ \A n \in Range(queues[name]) : Fits(name, n)
    BY <2>1 DEF IInv, MessagesFit, AllFit
  <2> QED
    BY <2>1, <2>2, TailListed DEF Fits
<1> HIDE DEF m, name
<1>3. /\ DOMAIN seen' = DOMAIN seen /\ seen'.published = seen.published
      /\ seen'.bindings = seen.bindings
      /\ seen'.delivered \subseteq seen.delivered \cup {<<m.exchange, m.key, name>>}
  BY <1>1 DEF NoteDelivered
<1>4. \A d \in seen'.delivered : Came(d[1], d[2], d[3])
  BY <1>2, <1>3 DEF Noted
<1> QED
  BY <1>1, <1>3, <1>4, NotedNext DEF Noted

(* A step of a running app opens nothing and notes no binding.             *)
LEMMA WiredRunning ==
    ASSUME Wired, status = "running", UNCHANGED <<app, link, status, opened, requests, routes>>,
           seen'.bindings = seen.bindings
    PROVE  Wired'
<1>1. status' # "starting"
  OBVIOUS
<1> QED
  BY <1>1, WiredNext DEF Wired

LEMMA KnownStep == IInv /\ Wired /\ Noted /\ [Next]_vars => Wired' /\ Noted'
<1> SUFFICES ASSUME IInv, Wired, Noted, [Next]_vars PROVE Wired' /\ Noted'
  OBVIOUS
<1>1. CASE UNCHANGED vars
  <2>1. UNCHANGED <<app, link, status, opened, requests, routes, seen, hash, last>>
    BY <1>1 DEF vars
  <2>2. Wired'
    BY <2>1, WiredNext DEF Wired
  <2>3. Subs' = Subs /\ (\A i : Queue(i)' = Queue(i)) /\ Live' = Live
    BY <2>1 DEF Subs, Queue, Live
  <2>4. \A x, key, q : Came(x, key, q)' <=> Came(x, key, q)
    BY <2>1 DEF Came, Leads
  <2>5. Noted'
    BY <2>1, <2>3, <2>4 DEF Noted
  <2> QED
    BY <2>2, <2>5
<1>2. CASE Request
  BY <1>2, WiredRequest, NotedStarting
<1>3. CASE SubscribeHere
  <2>1. Wired'
    BY <1>3, WiredNext DEF SubscribeHere
  <2> QED
    BY <1>3, <2>1, NotedStarting
<1>4. CASE TestSends
  <2>1. Noted' /\ seen'.bindings = seen.bindings
    BY <1>4, NotedOut DEF TestSends
  <2> QED
    BY <1>4, <2>1, WiredRunning DEF TestSends
<1>5. ASSUME NEW i \in DOMAIN Subs, Take(i) PROVE Wired' /\ Noted'
  <2>1. Noted' /\ seen'.bindings = seen.bindings
    BY <1>5, NotedTake
  <2> QED
    BY <1>5, <2>1, WiredRunning DEF Take
<1>6. ASSUME NEW i \in DOMAIN Subs, NEW n \in DOMAIN running[i] PROVE status = "running"
  BY <1>6 DEF IInv, Opening
<1>7. ASSUME NEW i \in DOMAIN Subs, NEW n \in DOMAIN running[i], HandlerSends(i, n)
      PROVE  Wired' /\ Noted'
  <2>1. status = "running"
    BY <1>6
  <2>2. Noted' /\ seen'.bindings = seen.bindings
    BY <1>7, <2>1, NotedOut DEF HandlerSends
  <2> QED
    BY <1>7, <2>1, <2>2, WiredRunning DEF HandlerSends
<1>8. ASSUME status = "running",
             UNCHANGED <<app, link, status, opened, requests, routes, seen, hash, last>>
      PROVE  Wired' /\ Noted'
  BY <1>8, WiredRunning, NotedNext DEF Noted
<1>9. ASSUME NEW i \in DOMAIN Subs, NEW n \in DOMAIN running[i], Finish(i, n)
      PROVE  Wired' /\ Noted'
  BY <1>6, <1>8, <1>9 DEF Finish
<1>10. ASSUME NEW n \in DOMAIN waiting, Elapse(n) PROVE Wired' /\ Noted'
  <2>1. status = "running"
    BY DEF IInv, Opening
  <2> QED
    BY <1>8, <1>10, <2>1 DEF Elapse
<1> QED
  BY <1>1, <1>2, <1>3, <1>4, <1>5, <1>7, <1>9, <1>10 DEF Next

(* An app is refused alike: by the server at one of a subscription's       *)
(* requests exactly when the transport refuses the subscription.           *)
LEMMA AlikeNext ==
    ASSUME UNCHANGED <<app, link>>,
           Judged => /\ ~Verdicts(Subs)[opened'].refused
                     /\ status' = "refused" => Verdicts(Subs)[opened' + 1].refused
                     /\ status' = "starting" =>
                           Tracks(opened' + 1, Verdicts(Subs)[opened'].routes, routes', requests')
    PROVE  Alike'
<1>1. Subs' = Subs /\ Declares' = Declares /\ Live' = Live /\ \A i : Queue(i)' = Queue(i)
  BY DEF Subs, Declares, Live, Queue
<1>2. (\A i : Uses(i)' = Uses(i)) /\ (\A i : Waits(i)' = Waits(i))
  BY <1>1 DEF Uses, Waits
<1>3. Judged' <=> Judged
  BY <1>1, <1>2 DEF Judged, SharedDelay
<1>4. \A i : Start(i)' = Start(i)
  BY <1>1 DEF Start
<1>5. Tracks(opened + 1, Verdicts(Subs)[opened].routes, routes, requests)' <=>
          Tracks(opened' + 1, Verdicts(Subs)[opened'].routes, routes', requests')
  BY <1>1, <1>2, <1>4 DEF Tracks, ExchangeFrom, QueueFrom
<1> QED
  BY <1>1, <1>3, <1>5 DEF Alike

LEMMA AlikeInit == Init => Alike
<1> SUFFICES ASSUME Init, Judged PROVE Alike
  BY DEF Alike
<1>1. /\ status = "starting" /\ opened = 0 /\ routes = Bare /\ requests = Start(1)
      /\ Len(Subs) \in Nat
  BY ServiceAssumption DEF Init, Judged, AppFits, Listed, Subs
<1>2. Verdicts(Subs)[0] = [refused |-> FALSE, routes |-> Bare]
  BY <1>1, VerdictStep
<1>3. DOMAIN Bare.exchanges = {} /\ DOMAIN Bare.queues = {} /\ Routable(Bare)
  BY DEF Bare, Routable
<1>4. Tracks(1, Bare, routes, requests)
  BY <1>1, <1>3 DEF Tracks, Within
<1> QED
  BY <1>1, <1>2, <1>4 DEF Alike

LEMMA AlikeRequest ==
    ASSUME IInv, Wired, Alike, Request, Judged
    PROVE  Alike'
<1> DEFINE next    == opened + 1
           request == Head(requests)
           here    == Verdicts(Subs)[opened].routes
           after   == Subscribe(here, Queue(next), TRUE)
<1>1. /\ UNCHANGED <<app, link>> /\ Live /\ status = "starting" /\ AppFits(app) /\ Routable(routes)
      /\ opened \in Nat /\ opened < Len(Subs) /\ DOMAIN Subs = 1..Len(Subs) /\ Len(Subs) \in Nat
      /\ Declares
  BY DEF Request, IInv, Opening, AppFits, Listed, Subs, Judged
<1>2. /\ next \in DOMAIN Subs /\ next \in 1..Len(Subs) /\ next - 1 = opened
      /\ next # Len(Subs) => next + 1 \in DOMAIN Subs
  <2>1. next - 1 = opened
    BY <1>1
  <2> QED
    BY <1>1, <2>1, NextCount
<1>3. /\ ~Verdicts(Subs)[opened].refused /\ Tracks(next, here, routes, requests)
      /\ Verdicts(Subs)[next] = after
  <2>1. ~Verdicts(Subs)[opened].refused /\ Tracks(next, here, routes, requests)
    BY <1>1 DEF Alike
  <2>2. Verdicts(Subs)[next] = Subscribe(here, Subs[next].queue, TRUE)
    BY <1>1, <1>2, <2>1, VerdictStep
  <2> QED
    BY <2>1, <2>2 DEF Queue
<1>4. /\ Ordered(next, requests, routes.exchanges, {}) /\ Ends(requests)
      /\ Asks(next, requests, routes.queues)
  BY <1>1 DEF Wired, IInv, Opening
<1>5. /\ requests \in Seq(Range(requests)) /\ requests # <<>> /\ Listed(requests)
      /\ 1 \in DOMAIN requests /\ request = requests[1] /\ request \in Range(Start(next))
  <2>1. requests \in Seq(Range(requests)) /\ requests # <<>>
    BY <1>4 DEF Ordered, Ends, Listed
  <2>2. 1 \in DOMAIN requests /\ request = requests[1]
    BY <2>1
  <2>3. request \in Range(requests)
    BY <2>2 DEF Range
  <2> QED
    BY <1>3, <2>1, <2>2, <2>3 DEF Tracks, Listed
<1>6. \A b \in NeededBy(next, request) : KindKnown(routes.exchanges, b)
  <2>1. 1..(1 - 1) = {}
    OBVIOUS
  <2> QED
    BY <1>4, <1>5, <2>1 DEF Ordered
<1>7. request.op = "consume" => Range(requests) = {request} /\ DeclaredIn(routes.queues, next)
  <2> SUFFICES ASSUME request.op = "consume"
               PROVE  Range(requests) = {request} /\ DeclaredIn(routes.queues, next)
    OBVIOUS
  <2>1. Len(requests) = 1
    BY <1>4, <1>5 DEF Asks
  <2>2. DOMAIN requests = {1}
    BY <1>5, <2>1
  <2>3. Range(requests) = {request}
    BY <1>5, <2>2 DEF Range
  <2>4. AskFor(next).op # "consume"
    BY Operations DEF AskFor
  <2> QED
    BY <1>4, <2>3, <2>4 DEF Asks
<1> DEFINE bad == ~CheckRetry(Queue(next), Declares) \/ Unframable(request) \/ Refuses(routes, request)
<1>8. CASE bad
  <2>1. status' = "refused" /\ opened' = opened
    BY <1>8 DEF Request, Refuse
  <2>2. after.refused
    BY <1>1, <1>2, <1>3, <1>5, <1>6, <1>7, <1>8, RefusedToo
  <2> QED
    BY <1>1, <1>3, <2>1, <2>2, AlikeNext
<1>9. CASE ~bad /\ request.op = "consume"
  <2>1. /\ opened' = next /\ requests' = Start(next + 1) /\ routes' = Served(routes, request)
        /\ status' = IF next = Len(Subs) THEN "running" ELSE "starting"
    BY <1>9 DEF Request, Open
  <2>2. routes' = routes
    BY <1>9, <2>1 DEF Served
  <2>3. \A r \in Range(Start(next)) : r.op = "consume" \/ Granted(r, routes)
    BY <1>3, <1>7, <1>9 DEF Tracks
  <2>4. ~after.refused /\ Tracks(next + 1, after.routes, routes, Start(next + 1))
    BY <1>1, <1>2, <1>3, <1>9, <2>3, TakenToo
  <2> QED
    BY <1>1, <1>3, <2>1, <2>2, <2>4, AlikeNext
<1>10. CASE ~bad /\ request.op # "consume"
  <2>1. /\ requests' = Tail(requests) /\ UNCHANGED <<status, opened>>
        /\ routes' = Served(routes, request)
    BY <1>10 DEF Request
  <2>2. Tracks(next, here, Served(routes, request), Tail(requests))
    BY <1>1, <1>2, <1>3, <1>5, <1>10, TracksServed
  <2> QED
    BY <1>1, <1>3, <2>1, <2>2, AlikeNext
<1> QED
  BY <1>8, <1>9, <1>10

LEMMA AlikeStep == IInv /\ Wired /\ Alike /\ [Next]_vars => Alike'
<1> SUFFICES ASSUME IInv, Wired, Alike, [Next]_vars PROVE Alike'
  OBVIOUS
<1>1. ASSUME UNCHANGED <<app, link, status, opened, requests, routes>> PROVE Alike'
  BY <1>1, AlikeNext DEF Alike
<1>2. CASE Request
  <2>1. UNCHANGED <<app, link>>
    BY <1>2 DEF Request
  <2> QED
    BY <1>2, <2>1, AlikeRequest, AlikeNext
<1>3. CASE SubscribeHere
  <2>1. UNCHANGED <<app, link>> /\ ~Live
    BY <1>3 DEF SubscribeHere
  <2> QED
    BY <2>1, AlikeNext DEF Judged
<1>4. CASE UNCHANGED vars
  BY <1>1, <1>4 DEF vars
<1>5. CASE TestSends
  BY <1>1, <1>5 DEF TestSends
<1>6. ASSUME NEW i \in DOMAIN Subs, Take(i) PROVE Alike'
  BY <1>1, <1>6 DEF Take
<1>7. ASSUME NEW i \in DOMAIN Subs, NEW n \in DOMAIN running[i], HandlerSends(i, n) PROVE Alike'
  BY <1>1, <1>7 DEF HandlerSends
<1>8. ASSUME NEW i \in DOMAIN Subs, NEW n \in DOMAIN running[i], Finish(i, n) PROVE Alike'
  BY <1>1, <1>8 DEF Finish
<1>9. ASSUME NEW n \in DOMAIN waiting, Elapse(n) PROVE Alike'
  BY <1>1, <1>9 DEF Elapse
<1> QED
  BY <1>2, <1>3, <1>4, <1>5, <1>6, <1>7, <1>8, <1>9 DEF Next

(* The inductive invariant holds of every app that fits, on either link.   *)
THEOREM Invariant == Spec => []IInv
<1>1. Init => IInv
  BY InitHolds
<1>2. IInv /\ [Next]_vars => IInv'
  BY StepHolds
<1> QED
  BY <1>1, <1>2, PTL DEF Spec

(* What a message left with stays with it, wherever it goes: the theorem   *)
(* behind SettingsSurvive, about the conversions of convert.rs and the     *)
(* copies of a delayed redelivery.                                         *)
THEOREM SettingsKept == Spec => []SettingsSurvive
<1>1. IInv => SettingsSurvive
  <2> SUFFICES ASSUME IInv, NEW m \in Messages
               PROVE  LET read == HeadersFromProperties(m.frame)
                      IN  /\ m.frame.priority = m.left.options.priority
                          /\ m.frame.delivery_mode =
                                IF m.rounds = 0 /\ m.left.options.persistent = {FALSE} THEN 1 ELSE 2
                          /\ \A name \in DOMAIN m.left.headers \ {RetryCountHeader} :
                                read[name] = m.left.headers[name]
                          /\ m.rounds > 0 => read[RetryCountHeader] = Decimal(m.rounds)
    BY DEF SettingsSurvive
  <2>1. Kept(m)
    BY DEF Messages, IInv, MessagesFit, AllFit, HandFits, WaitFits, Fits, Fresh, Range
  <2>2. m.rounds > 0 => m.rounds # 0
    BY <2>1 DEF Kept
  <2> QED
    BY <2>1, <2>2 DEF Kept, Carries
<1> QED
  BY <1>1, Invariant, PTL

(* No subscription with a cap is handed a message more often: what a       *)
(* queue's declaration and the count of returns make of max_attempts.      *)
THEOREM CapIsKept == Spec => []CapHolds
<1>1. IInv => CapHolds
  BY DEF CapHolds, IInv, MessagesFit, HandFits, Fits, Capped, Range
<1> QED
  BY <1>1, Invariant, PTL

(* What was noted of a key leads to every queue that it was routed to.     *)
LEMMA HarnessIsTold ==
    ASSUME IInv, Wired, Noted, Live, NEW p \in last, p.exchange \notin Unseen, NEW i \in p.got
    PROVE  i \in Owed(seen, p.key, [j \in DOMAIN Subs |-> Queue(j)])
<1> DEFINE x   == p.exchange
           key == p.key
           q   == Queue(i).name
           bound  == {b \in seen.bindings : b.exchange = x}
           picked == {d[3] : d \in {d \in seen.delivered : d[1] = x /\ d[2] = key}}
<1>1. i \in DOMAIN Subs /\ Came(x, key, q)
  BY DEF Noted
<1>2. SUFFICES q = key \/ q \in ThroughExchanges(seen, key)
  BY <1>1 DEF Owed
<1>3. CASE x = DefaultExchange
  BY <1>1, <1>3 DEF Came
<1>4. CASE x # DefaultExchange
  <2>1. PICK b \in routes.bindings : b.exchange = x /\ b.queue = q /\ Leads(b, key)
    BY <1>1, <1>4 DEF Came
  <2>2. b.kind \notin {"headers", "x-delayed-message"}
    BY <2>1 DEF Unseen
  <2>3. b \in Described(app)
    <3>1. b \in Described(app) \cup app.provisioned.bindings
      BY <2>2 DEF Wired, Plugin
    <3>2. Subs[i] \in Range(app.subs) /\ Subs[i].queue.name = b.queue
      BY <1>1, <2>1 DEF Subs, Queue, Range
    <3> QED
      BY <2>2, <3>1, <3>2 DEF IInv, AppFits, ProvisionFits
  <2>4. b \in seen.bindings
    <3>1. PICK sub \in Range(app.subs) : b \in BoundBy(sub.queue)
      BY <2>3 DEF Described
    <3>2. PICK j \in DOMAIN Subs : sub = Subs[j]
      BY <3>1 DEF Range, Subs
    <3>3. status = "running"
      BY DEF Noted
    <3>4. j \in 1..opened
      BY <3>3 DEF IInv, Opening, AppFits, Listed, Subs
    <3> QED
      BY <3>1, <3>2, <3>4 DEF Wired, Queue
  <2>5. \A c \in routes.bindings \cup seen.bindings : c.exchange = x => c.kind = b.kind
    <3> SUFFICES ASSUME NEW c \in routes.bindings \cup seen.bindings, c.exchange = x
                 PROVE  c.kind = b.kind
      OBVIOUS
    <3>1. CASE BuiltIn(x)
      <4>1. ~Plugin(c)
        BY <3>1 DEF Plugin
      <4>2. c \in Described(app) \cup app.provisioned.bindings
        BY <4>1 DEF Wired
      <4> QED
        BY <2>1, <2>3, <3>1, <4>2 DEF IInv, AppFits, KindsFit
    <3>2. CASE ~BuiltIn(x)
      <4>1. KindKnown(routes.exchanges, b) /\ KindKnown(routes.exchanges, c)
        BY DEF Wired
      <4> QED
        BY <2>1, <3>2, <4>1 DEF KindKnown
    <3> QED
      BY <3>1, <3>2
  <2>6. b \in bound /\ q \in {c.queue : c \in bound}
    BY <2>1, <2>4
  <2>7. <<x, key>> \in seen.published
    BY <1>4 DEF Noted
  <2>8. q \in Through(seen, x, key)
    <3>1. CASE b.kind = "x-consistent-hash"
      <4>1. hash[<<x, key>>] = q
        BY <2>1, <3>1 DEF Leads
      <4>2. \A d \in seen.delivered : d[1] = x /\ d[2] = key => d[3] = q
        <5> SUFFICES ASSUME NEW d \in seen.delivered, d[1] = x, d[2] = key PROVE d[3] = q
          OBVIOUS
        <5>1. Came(x, key, d[3])
          BY DEF Noted
        <5>2. PICK c \in routes.bindings : c.exchange = x /\ c.queue = d[3] /\ Leads(c, key)
          BY <1>4, <5>1 DEF Came
        <5> QED
          BY <2>5, <3>1, <4>1, <5>2 DEF Leads
      <4>3. picked = {} \/ picked = {q}
        BY <4>2
      <4>4. Through(seen, x, key) = IF picked = {} THEN {c.queue : c \in bound} ELSE picked
        BY <2>6, <3>1 DEF Through
      <4> HIDE DEF picked, bound
      <4> QED
        BY <2>6, <4>3, <4>4
    <3>2. CASE b.kind # "x-consistent-hash"
      <4>1. ~\E c \in bound : c.kind = "x-consistent-hash"
        BY <2>5, <3>2
      <4>2. b.kind \in {"direct", "topic", "fanout"}
        BY <2>2, <2>3, <3>2 DEF IInv, AppFits, KindsFit, PluginKinds
      <4>3. \/ b.kind = "direct" /\ b.key = key
            \/ b.kind = "topic" /\ TopicMatches(b.key, key)
            \/ b.kind = "fanout"
        BY <2>1, <4>2 DEF Leads
      <4> QED
        BY <2>1, <2>6, <4>1, <4>3 DEF Through
    <3> QED
      BY <3>1, <3>2
  <2> QED
    BY <2>7, <2>8 DEF ThroughExchanges
<1> QED
  BY <1>3, <1>4

(* The harness waits for every subscription that the server gave a publish *)
(* to, whatever was published before it: what the connection's notes of    *)
(* bindings, keys and deliveries are worth, live_routes.rs.                *)
THEOREM HarnessIsRight == Spec => []HarnessWaits
<1>1. Init => IInv /\ Wired /\ Noted
  BY InitHolds, KnownInit
<1>2. IInv /\ Wired /\ Noted /\ [Next]_vars => IInv' /\ Wired' /\ Noted'
  BY StepHolds, KnownStep
<1>3. IInv /\ Wired /\ Noted => HarnessWaits
  BY HarnessIsTold DEF HarnessWaits
<1> QED
  BY <1>1, <1>2, <1>3, PTL DEF Spec

(* An app that declares its topology on a server with nothing on it is     *)
(* refused there, at any of the requests of any of its subscriptions, only *)
(* if the in-process transport refuses that subscription, and opens there  *)
(* only what the transport opens: subscribe of broker.rs and topology.rs   *)
(* against subscribe of in_process.rs.                                     *)
THEOREM RefusalIsAlike == Spec => []RefusedAlike
<1>1. Init => IInv /\ Wired /\ Noted /\ Alike
  BY InitHolds, KnownInit, AlikeInit
<1>2. IInv /\ Wired /\ Noted /\ Alike /\ [Next]_vars => IInv' /\ Wired' /\ Noted' /\ Alike'
  BY StepHolds, KnownStep, AlikeStep
<1>3. Alike => RefusedAlike
  BY DEF Alike, Judged, RefusedAlike
<1> QED
  BY <1>1, <1>2, <1>3, PTL DEF Spec
===============================================================================
