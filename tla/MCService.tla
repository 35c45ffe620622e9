------------------------------ MODULE MCService ------------------------------
(***************************************************************************)
(* The example programs and those of the integration tests, on both links, *)
(* and a few programs that combine what no example combines.               *)
(***************************************************************************)
EXTENDS Service, ExchangeExamples, SettlementExamples, PublishingExamples,
        SubscriptionExamples, TransportTests

(* Two messages, one prioritised and transient, both with headers of their *)
(* own, wait, come back until the queue gives them up, and wait again      *)
(* among the dead.                                                         *)
LongWay(delay, later) ==
    LET dead == <<"dead">>
        work == DeadLetter(MaxAttempts(Delayed(RabbitQuorumQueue(<<"work">>), delay), 2), dead)
        Job(kind, options) ==
            With(Carrying(Sent(kind, <<"work">>), ("region" :> Text(kind)) @@ ("reply-to" :> [name |-> dead])),
                 options)
    IN  Test(App(<<Workers(Sub(work, Every(Defers(1, Answer(<<>>, "retry")))), 2),
                   Sub(Delayed(RabbitQueue(dead), later), Every(Defers(2, Answer(<<>>, "ack"))))>>),
             <<Job("one", Persistent(Priority(Unset, 7), FALSE)), Job("two", Priority(Unset, 1))>>,
             {Took(1, kind, 3) : kind \in {"one", "two"}} \cup {Took(2, kind, 2) : kind \in {"one", "two"}},
             {To(<<"work">>, 2)})

(* Two messages share a waiting queue and two workers of one queue, with   *)
(* settings of their own.                                                  *)
TwoJobs ==
    LET work == Delayed(RabbitQueue(<<"work">>), DlxTtl)
        Job(kind, n) == With(Sent(kind, <<"work">>), Priority(Unset, n))
    IN  Test(App(<<Workers(Sub(work, RetriesAfter), 2)>>), <<Job("one", 1), Job("two", 2)>>,
             {Took(1, "one", 2), Took(1, "two", 2)}, {To(<<"work">>, 2)})

(* One delivery and no more, and its dead letter.                          *)
OneChance ==
    Test(App(<<Sub(DeadLetter(MaxAttempts(RabbitQuorumQueue(<<"work">>), 1), <<"dead">>), Retries),
               Named(<<"dead">>, Acks)>>),
         <<Sent("job", <<"work">>)>>, Once({1, 2}, "job"), {})

(* One key, published to a topic and a fanout exchange and to a queue of   *)
(* its own name, bound more than once.                                     *)
ManyRoutes ==
    LET key == <<"order", "placed">>
        audit == Bind(Bind(RabbitQueue(<<"audit">>), Topic(<<"events">>), <<"order", "#">>),
                      Topic(<<"events">>), <<"#", "placed">>)
        Via(x) == Out(ToExchange(Publish, x), key, "event")
    IN  Test(App(<<Sub(audit, Acks), Sub(Bind(RabbitQueue(<<"all">>), Fanout(<<"news">>), DefaultExchange), Acks),
                   Named(key, Acks)>>),
             <<Via(<<"events">>), Via(DefaultExchange), Via(<<"news">>)>>,
             {Took(1, "event", 1), Took(2, "event", 1), Took(3, "event", 1)}, {To(key, 3)})

(* Subscriptions that do not fit one another, or the wire.                 *)
Misfits ==
    LET queue(name) == RabbitQueue(<<name>>)
        two(first, second) == Refused(App(<<Sub(first, Acks), Sub(second, Acks)>>))
        Audited(x) == Bind(queue("audit"), x, <<"order">>)
        waits == Delayed(queue("work"), DlxTtlNamed(<<"audit">>))
    IN  {two(queue("first"), [queue("audit") EXCEPT !.name = <<"long">>]),
         two(Audited(Topic(<<"events">>)), [Audited(Direct(<<"events">>)) EXCEPT !.name = <<"other">>]),
         two(Audited(Topic(<<"events">>)), [Audited(Durable(Topic(<<"events">>), FALSE)) EXCEPT !.name = <<"other">>]),
         two(Audited(Topic(<<"events">>)), [Audited(AutoDelete(Topic(<<"events">>), TRUE)) EXCEPT !.name = <<"other">>]),
         two(queue("audit"), Audited(Topic(<<"long">>))),
         two(queue("first"), Bind(queue("audit"), Topic(<<"events">>), <<"long">>)),
         two(queue("first"), Delayed(queue("audit"), DlxTtlNamed(<<"long">>))),
         two(queue("first"), Delayed(queue("audit"), PluginDmeNamed(<<"long">>))),
         two(queue("audit"), AutoDelete(queue("audit"), TRUE)),
         two(queue("audit"), RabbitQuorumQueue(<<"audit">>)),
         OnlyLive(two(waits, queue("audit")))}

(* Built-in exchanges are bound without a declaration, and arguments can   *)
(* be given whole.                                                         *)
BuiltIns ==
    LET limited == Arguments(RabbitQueue(<<"audit">>), DeliveryLimit :> Integer(4))
        audit == Bind(limited, Topic(<<"amq", "topic">>), <<"order", "*">>)
    IN  Test(App(<<Sub(audit, RetriesOnce)>>),
             <<Out(ToExchange(Publish, <<"amq", "topic">>), <<"order", "paid">>, "paid")>>, {Took(1, "paid", 2)}, {})

Combined ==
    {LongWay(DlxTtl, PluginDme), LongWay(PluginDmeNamed(<<"later">>), DlxTtlNamed(<<"waiting">>)), TwoJobs, OneChance, ManyRoutes,
     BuiltIns} \cup Misfits

MCApps ==
    ExchangePrograms \cup SettlementPrograms \cup PublishingPrograms \cup SubscriptionPrograms
      \cup TestPrograms \cup Combined

(* A topic pattern matches exactly the keys it can be cut along.           *)
Words(set, n) == UNION {[1..k -> set] : k \in 0..n}
ASSUME TopicIsCutting ==
    \A pattern \in Words({"a", "*", "#"}, 3), key \in Words({"a", "b"}, 3) :
        TopicMatches(pattern, key) <=> CutsToMatch(pattern, key)
===============================================================================
