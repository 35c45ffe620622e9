------------------------- MODULE SubscriptionExamples -------------------------
(***************************************************************************)
(* The examples on subscriptions, their queues and the service around      *)
(* them, each an app with its tests.                                       *)
(***************************************************************************)
EXTENDS Programs

OneSub(queue, handler)      == App(<<Sub(queue, handler)>>)
Takes(app, kind, key)       == Test(app, <<Sent(kind, key)>>, Once({1}, kind), {})
OnOrders(handler)           == Undeclared(OneSub(RabbitQueue(<<"orders">>), handler))
InstanceQueue(name)         == AutoDelete([RabbitQueue(name) EXCEPT !.durable = FALSE, !.exclusive = TRUE], TRUE)
Ttl(queue, millis)          == Argument(queue, "x-message-ttl", Integer(millis))

(* A queue's arguments are the server's to enforce, and a second           *)
(* subscription that declares it with others fails the startup.            *)
SubscriptionsArguments ==
    LET queue == RabbitQueue(<<"notifications">>)
        notify == Sub(Argument(Ttl(queue, 60000), "x-max-length", Integer(10000)), Acks)
    IN  {Takes(App(<<notify>>), "note", <<"notifications">>),
         Refused(App(<<notify, Sub(Ttl(queue, 1000), Acks)>>))}

(* Lanes take every order.                                                 *)
SubscriptionsLanes ==
    LET app == Undeclared(App(<<Workers(Named(<<"orders">>, Acks), 8)>>))
    IN  {Test(app, <<Sent("acme", <<"orders">>), Sent("globex", <<"orders">>)>>,
              Once({1}, "acme") \cup Once({1}, "globex"), {})}

(* Two subscriptions, one with a window of one; and, on a server, a burst  *)
(* of five into a window of two.                                           *)
SubscriptionsPrefetch ==
    LET app == Undeclared(App(<<Sub(Prefetch(RabbitQueue(<<"orders">>), 64), Acks),
                                Sub(Prefetch(RabbitQueue(<<"reports">>), 1), Acks)>>))
        Deleted(name) == AutoDelete(RabbitQueue(name), TRUE)
        report == Out(Publish, <<"docs", "reports">>, "report")
        windowed == App(<<Sub(Deleted(<<"docs", "bursts">>),
                              Every(Rule(<<report, report, report, report, report>>, "ack"))),
                          Workers(Sub(Prefetch(Deleted(<<"docs", "reports">>), 2), Acks), 10)>>)
    IN  {Test(app, <<Sent("order", <<"orders">>), Sent("report", <<"reports">>)>>,
              Once({1}, "order") \cup Once({2}, "report"), {}),
         Test(OnlyLive(windowed), <<Sent("burst", <<"docs", "bursts">>)>>, {Took(2, "report", 5)}, {})}

SubscriptionsQueue ==
    LET app == OnOrders(("empty" :> Rule(<<>>, "drop")) @@ Acks)
    IN  {Takes(app, "order", <<"orders">>), Takes(app, "empty", <<"orders">>)}

(* A quorum queue gives a message up by itself, after twenty returns.      *)
SubscriptionsQuorum ==
    LET app == OneSub(RabbitQuorumQueue(<<"reservations">>), ("sold_out" :> Rule(<<>>, "retry")) @@ Acks)
    IN  {Takes(app, "in_stock", <<"reservations">>),
         Test(app, <<Sent("sold_out", <<"reservations">>)>>, {Took(1, "sold_out", 21)}, {})}

(* A queue bound to an exchange with a dead-letter exchange of its own,    *)
(* and a queue that lives and dies with its connection.                    *)
SubscriptionsRabbitQueue ==
    LET orders == DeadLetterExchange(Bind(RabbitQueue(<<"orders">>), Topic(<<"events">>), <<"order", "*">>),
                                     <<"orders", "failed">>)
        prices == Bind(InstanceQueue(<<"prices", "instance-a">>), Fanout(<<"prices">>), DefaultExchange)
        app == App(<<Sub(orders, RetriesOnce), Sub(prices, Acks)>>)
    IN  {Test(app, <<Sent("flaky", <<"orders">>)>>, {Took(1, "flaky", 2)}, {}),
         Test(app, <<Sent("price", <<"prices", "instance-a">>)>>, Once({2}, "price"), {})}

(* The guide on work queues: lanes, an archive and one active consumer.    *)
GuideWorkQueuesApp ==
    LET ledger == Argument(RabbitQueue(<<"invoices", "ledger">>), "x-single-active-consumer", Value("Boolean", TRUE))
        archive == Prefetch(RabbitQueue(<<"invoices", "archive">>), 64)
    IN  App(<<Workers(Sub(Prefetch(RabbitQueue(<<"invoices">>), 32), Acks), 8),
              Sub(archive, Acks), Sub(Prefetch(ledger, 32), Acks)>>)

GuideWorkQueuesTests ==
    LET invoices == <<"invoices">>
    IN  {Test(GuideWorkQueuesApp, <<Sent("acme", invoices), Sent("globex", invoices), Sent("acme", invoices)>>,
              {Took(1, "acme", 2), Took(1, "globex", 1)}, {}),
         Test(GuideWorkQueuesApp, <<Sent("first", <<"invoices", "archive">>), Sent("second", <<"invoices", "archive">>)>>,
              Once({2}, "first") \cup Once({2}, "second"), {}),
         Test(GuideWorkQueuesApp, <<Sent("posted", <<"invoices", "ledger">>)>>, Once({3}, "posted"), {})}

(* The guide on topology: failures recorded through a dead-letter fanout,  *)
(* rates on the instance's own queue, and the same where the topology was  *)
(* provisioned.                                                            *)
GuideTopologyApp ==
    LET payments == DeadLetterExchange(RabbitQuorumQueue(<<"payments">>), <<"payments", "dead">>)
        failed   == Bind(RabbitQueue(<<"payments", "failed">>), Fanout(<<"payments", "dead">>), DefaultExchange)
        rates    == Bind(Ttl(InstanceQueue(<<"payments", "rates">>), 60000), Fanout(<<"fx-rates">>), DefaultExchange)
    IN  App(<<Sub(payments, ("cardless" :> Rule(<<>>, "drop")) @@ Acks), Sub(failed, Acks), Sub(rates, Acks)>>)

GuideTopologyTests ==
    LET Failed(app) == Test(app, <<Sent("cardless", <<"payments">>)>>, Once({1, 2}, "cardless"), {})
    IN  {Failed(GuideTopologyApp), Failed(Undeclared(GuideTopologyApp)),
         Test(GuideTopologyApp, <<Sent("rate", <<"payments", "rates">>)>>, Once({3}, "rate"), {})}

(* ------------------------------ the service ---------------------------- *)
(* A declared queue, and a transient shared one, which no server takes.    *)
BrokerDeclareTopology ==
    LET orders == RabbitQueue(<<"orders">>)
    IN  {Takes(OneSub(Bind(orders, Topic(<<"events">>), <<"order", "*">>), Acks), "order", <<"orders">>),
         Refused(OneSub([orders EXCEPT !.durable = FALSE], Acks))}

(* An order whose shipment cannot be published is dropped, with no queue   *)
(* on its dead-letter exchange; a quorum queue takes no priorities.        *)
BrokerErrors ==
    LET shipment == Out(Publish, <<"shipments">>, "shipment")
        orders == DeadLetterExchange(RabbitQueue(<<"orders">>), <<"orders", "failed">>)
        app == Undeclared(OneSub(orders, ("order" :> Rule(<<shipment>>, "ack")) @@ Drops))
        prioritised == Argument(RabbitQuorumQueue(<<"orders", "prioritised">>), MaxPriority, Integer(5))
        Shipped(kind, times) ==
            Test(app, <<Sent(kind, <<"orders">>)>>, Once({1}, kind), {To(<<"shipments">>, times)})
    IN  {Shipped("order", 1), Shipped("too_large", 0), Refused(OneSub(prioritised, Acks))}

BrokerService    == {Takes(OnOrders(Acks), "order", <<"orders">>)}
BrokerConnection == {Takes(OnOrders(Acks), "order", <<"orders">>)}
BrokerTls        == {Takes(OnOrders(Acks), "order", <<"orders">>)}
GuideProduction  == {Takes(OnOrders(Acks), "order", <<"orders">>)}

BrokerPrelude ==
    LET orders == Bind(RabbitQueue(<<"orders">>), Topic(<<"events">>), <<"order", "*">>)
        app == Undeclared(OneSub(orders, Publishes(Out(Publish, <<"confirmations">>, "confirmed"))))
    IN  {Test(app, <<Sent("order", <<"orders">>)>>, Once({1}, "order"), {To(<<"confirmations">>, 1)})}

(* A handler that reads its delivery's context publishes what it read.     *)
ContextExample ==
    {Test(OnOrders(Publishes(Out(Publish, <<"orders", "audit">>, "record"))),
          <<Sent("order", <<"orders">>)>>, {}, {To(<<"orders", "audit">>, 1)})}

(* A stock check is answered where it asked, and at the mount site's name  *)
(* when it asked nowhere.                                                  *)
RequestDirectReplyTo ==
    LET unrouted == <<"inventory", "check", "unrouted">>
        replies  == <<"client", "replies">>
        app == Undeclared(OneSub(RabbitQueue(<<"inventory", "check">>), Publishes(Reply(unrouted, "stock"))))
        ask == Sent("ask", <<"inventory", "check">>)
        asked == Carrying(ask, ("reply-to" :> [name |-> replies]) @@ ("correlation-id" :> Text("c-1")))
    IN  {Test(app, <<asked>>, {}, {To(replies, 1), To(unrouted, 0)}),
         Test(app, <<ask>>, {}, {To(unrouted, 1)})}

(* A receipt goes through its own exchange with its policy's priority, or  *)
(* the one its payment deserves.                                           *)
TestingInProcess ==
    LET receipts == ToExchange(Defaulting(Publish, Priority(Unset, 3)), <<"receipts">>)
        receipt == Out(receipts, <<"receipt", "issued">>, "receipt")
        large == With(receipt, Priority(Unset, 9))
        audit == Bind(RabbitQueue(<<"receipts", "audit">>), Topic(<<"receipts">>), <<"receipt", "*">>)
        app == Undeclared(App(<<Named(<<"payments">>,
                   ("small" :> Rule(<<receipt>>, "ack")) @@ ("large" :> Rule(<<large>>, "ack")) @@ Drops),
                                Sub(audit, Acks)>>))
        Issued(kind, priority) ==
            Test(app, <<Sent(kind, <<"payments">>)>>, Once({1}, kind) \cup Once({2}, "receipt"),
                 {CarriedTo(<<"receipt", "issued">>, TRUE, {priority}, {})})
    IN  {Issued("small", 3), Issued("large", 9)}

TestingLive ==
    LET queue == [RabbitQueue(<<"testing-live", "payments">>) EXCEPT !.durable = FALSE, !.exclusive = TRUE]
    IN  {Takes(OneSub(queue, ("free" :> Rule(<<>>, "drop")) @@ Acks), "payment", <<"testing-live", "payments">>)}

GuideGettingStarted ==
    LET app == OneSub(RabbitQueue(<<"orders">>), ("free" :> Rule(<<>>, "drop")) @@ Acks)
    IN  {Takes(app, "free", <<"orders">>), Takes(app, "order", <<"orders">>)}

(* A payment that goes through is followed by its receipt, one without an  *)
(* amount by none.                                                         *)
GuideTesting ==
    LET receipt == Out(Publish, <<"card-receipts">>, "receipt")
        queue == DeadLetter(Delayed(RabbitQueue(<<"card-payments">>), DlxTtl), <<"card-payments", "review">>)
        app == OneSub(queue, ("free" :> Rule(<<>>, "drop")) @@ Publishes(receipt))
        Charged(kind, receipts) ==
            Test(app, <<Sent(kind, <<"card-payments">>)>>, Once({1}, kind), {To(<<"card-receipts">>, receipts)})
    IN  {Charged("payment", 1), Charged("free", 0)}

(* The service whose document is generated: what its operations report of  *)
(* a restock is what the restock leaves with.                              *)
AsyncApiService ==
    LET gold == [name \in {"x-match", "tier"} |->
                    LongString(Text(IF name = "x-match" THEN "all" ELSE "gold"))]
        events == BindWith(Bind(RabbitQueue(<<"inventory", "events">>), Topic(<<"events">>), <<"inventory", "*">>),
                           Headers(<<"attributes">>), DefaultExchange, gold)
        restocks == Defaulting(Publish, Expiration(Priority(Unset, 4), 300000))
        restock == Out(restocks, <<"inventory", "restock">>, "restock")
        check == DeadLetter(InstanceQueue(<<"inventory", "check">>), <<"inventory", "dead">>)
        app == Undeclared(App(<<Sub(check, Acks),
                                Sub(events, ("stocked" :> Rule(<<>>, "ack")) @@ Publishes(restock))>>))
    IN  {Test(app, <<Sent("empty", <<"inventory", "events">>)>>, Once({2}, "empty"),
              {CarriedTo(<<"inventory", "restock">>, TRUE, {4}, {30000})})}

SubscriptionPrograms ==
    SubscriptionsArguments \cup SubscriptionsLanes \cup SubscriptionsPrefetch \cup SubscriptionsQueue
      \cup SubscriptionsQuorum \cup SubscriptionsRabbitQueue \cup GuideWorkQueuesTests
      \cup GuideTopologyTests \cup BrokerDeclareTopology \cup BrokerErrors \cup BrokerService
      \cup BrokerConnection \cup BrokerTls \cup GuideProduction \cup BrokerPrelude \cup ContextExample
      \cup RequestDirectReplyTo \cup TestingInProcess \cup TestingLive \cup GuideGettingStarted
      \cup GuideTesting \cup AsyncApiService
===============================================================================
