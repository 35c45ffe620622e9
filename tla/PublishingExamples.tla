-------------------------- MODULE PublishingExamples --------------------------
(***************************************************************************)
(* The examples on publishing: the settings a message leaves with, its     *)
(* headers and exchange, and the publishes of a transaction, which leave   *)
(* together when it commits and never when it aborts.                      *)
(***************************************************************************)
EXTENDS Programs

Seconds(n) == n * 10000
Minutes(n) == Seconds(60 * n)
Hours(n)   == Minutes(60 * n)
By(policy, key, kind, options) == kind :> Rule(<<With(Out(policy, key, kind), options)>>, "ack")
Plainly(policy, key, kind)     == kind :> Rule(<<Out(policy, key, kind)>>, "ack")

(* An overheated sensor's alert goes out over its policy's priority, and   *)
(* only that alert pages.                                                  *)
PublishingPriority ==
    LET alerts == Defaulting(Publish, Priority(Unset, 1))
        ranked == Argument(RabbitQueue(<<"alerts">>), MaxPriority, Integer(10))
        app == App(<<Named(<<"readings">>,
                           By(alerts, <<"alerts">>, "hot", Priority(Unset, 9))
                             @@ Plainly(alerts, <<"alerts">>, "warm")),
                     Sub(ranked, Plainly(Publish, <<"pager">>, "hot") @@ Acks)>>)
        Read(kind, log) == Test(app, <<Sent(kind, <<"readings">>)>>, Once({2}, kind), log)
    IN  {Read("hot", {CarriedTo(<<"alerts">>, TRUE, {9}, {}), To(<<"pager">>, 1)}),
         Read("warm", {CarriedTo(<<"alerts">>, TRUE, {1}, {}), To(<<"pager">>, 0)})}

(* An event published to a topic exchange reaches the queue bound to it.   *)
PublishingExchange ==
    LET audit == Bind(RabbitQueue(<<"orders", "audit">>), Topic(<<"events">>), <<"order", "*">>)
        app == App(<<Named(<<"orders">>,
                           Publishes(Out(ToExchange(Publish, <<"events">>), <<"order", "placed">>, "placed"))),
                     Sub(audit, Acks)>>)
    IN  {Test(app, <<Sent("order", <<"orders">>)>>, Once({2}, "placed"), {})}

(* A flash quote expires sooner than its policy says.                      *)
PublishingExpiration ==
    LET quotes == Defaulting(Publish, Expiration(Unset, Minutes(1)))
        app == Undeclared(App(<<Named(<<"prices">>,
                   By(quotes, <<"quotes">>, "flash", Expiration(Unset, Seconds(10)))
                     @@ Plainly(quotes, <<"quotes">>, "plain"))>>))
    IN  {Test(app, <<Sent("flash", <<"prices">>)>>, {}, {CarriedTo(<<"quotes">>, TRUE, {}, {10000})}),
         Test(app, <<Sent("plain", <<"prices">>)>>, {}, {CarriedTo(<<"quotes">>, TRUE, {}, {60000})})}

(* An invoice takes its order's reference along as a native property; one  *)
(* too long for a short string fails the publish, and the order is dropped.*)
PublishingHeaders ==
    LET Invoice(reference) ==
            Carrying(Out(Publish, <<"invoices">>, "invoice"),
                     ("message-id" :> Text(reference)) @@ ("tenant" :> Text("acme")))
        oversized == Rule(<<Invoice("long")>>, "drop")
        app == Undeclared(App(<<Named(<<"orders">>, ("order" :> Rule(<<Invoice("ord-7")>>, "ack"))
                                                      @@ ("oversized" :> oversized)),
                                Named(<<"invoices">>, Acks)>>))
    IN  {Test(app, <<Sent("order", <<"orders">>)>>, Once({2}, "invoice"), {To(<<"invoices">>, 1)}),
         Test(app, <<Sent("oversized", <<"orders">>)>>,
              Once({1}, "oversized") \cup Never({2}, "invoice"), {To(<<"invoices">>, 0)})}

(* A reading kept for billing is persistent over a transient policy.       *)
PublishingPersistent ==
    LET readings == Defaulting(Publish, Persistent(Unset, FALSE))
        app == Undeclared(App(<<Named(<<"meters">>,
                   By(readings, <<"readings">>, "billing", Persistent(Unset, TRUE))
                     @@ Plainly(readings, <<"readings">>, "live"))>>))
    IN  {Test(app, <<Sent("billing", <<"meters">>)>>, {}, {CarriedTo(<<"readings">>, TRUE, {}, {})}),
         Test(app, <<Sent("live", <<"meters">>)>>, {}, {CarriedTo(<<"readings">>, FALSE, {}, {})})}

(* Several settings of one call, over the one of the policy.               *)
Expedited(policy, key, kind) == By(policy, key, kind, Expiration(Priority(Unset, 9), Hours(1)))

PublishingProperties ==
    LET shipments == Defaulting(Publish, Priority(Unset, 3))
        app == Undeclared(App(<<Named(<<"orders">>, Expedited(shipments, <<"shipments">>, "expedited")
                                                      @@ Plainly(shipments, <<"shipments">>, "ordinary"))>>))
    IN  {Test(app, <<Sent("expedited", <<"orders">>)>>, {}, {CarriedTo(<<"shipments">>, TRUE, {9}, {3600000})}),
         Test(app, <<Sent("ordinary", <<"orders">>)>>, {}, {CarriedTo(<<"shipments">>, TRUE, {3}, {})})}

(* A publish at startup, and a reply under the name of its type.           *)
PublishingPublish ==
    LET app == Undeclared(App(<<Named(<<"orders">>, Publishes(Out(Publish, <<"confirmations">>, "confirmed")))>>))
        started == Out(Publish, <<"services", "started">>, "started")
    IN  {Test(app, <<started, Sent("order", <<"orders">>)>>, {},
              {To(<<"services", "started">>, 1), CarriedTo(<<"confirmations">>, TRUE, {}, {})})}

(* The guide on publishing: an order ships its parcels in a transaction,   *)
(* all or none, and each parcel books a courier.                           *)
GuidePublishingApp ==
    LET parcel(kind) == Out(Publish, <<"shipments">>, kind)
        pickups == Defaulting(Publish, Priority(Unset, 3))
    IN  App(<<Named(<<"orders">>, ("both" :> Rule(<<parcel("kettle"), parcel("teapot")>>, "ack"))
                                    @@ ("spoiled" :> Rule(<<>>, "drop"))
                                    @@ ("urgent" :> Rule(<<parcel("expedited")>>, "ack"))
                                    @@ ("standard" :> Rule(<<parcel("standard")>>, "ack"))),
              Named(<<"shipments">>, Expedited(pickups, <<"pickups">>, "expedited")
                                       @@ Publishes(Out(pickups, <<"pickups">>, "pickup")))>>)

GuidePublishingTests ==
    LET Ordered(kind, calls, log) == Test(GuidePublishingApp, <<Sent(kind, <<"orders">>)>>, calls, log)
    IN  {Ordered("both", Once({1}, "both"), {To(<<"shipments">>, 2)}),
         Ordered("spoiled", Once({1}, "spoiled"), {To(<<"shipments">>, 0)}),
         Ordered("urgent", {}, {CarriedTo(<<"pickups">>, TRUE, {9}, {3600000})}),
         Ordered("standard", {}, {CarriedTo(<<"pickups">>, TRUE, {3}, {})})}

(* ----------------------------- transactions ---------------------------- *)
(* A receipt whose publish is confirmed acks its payment, though no queue  *)
(* takes it; the stand's own queue deletes itself.                         *)
TransactionsConfirms ==
    LET Settles(queue) == App(<<Sub(queue, Publishes(Out(Publish, <<"payments", "receipts">>, "receipt")))>>)
        payments == RabbitQueue(<<"payments">>)
        Paid(app) == Test(app, <<Sent("payment", <<"payments">>)>>, Once({1}, "payment"),
                          {To(<<"payments", "receipts">>, 1)})
    IN  {Paid([Settles(payments) EXCEPT !.links = {"in_process"}]),
         Paid(OnlyLive(Settles(AutoDelete(payments, TRUE))))}

(* Everything of a committed scope, nothing of an aborted one.             *)
Scoped(queue, key, first, second) ==
    LET app == Undeclared(App(<<Named(queue,
                   ("whole" :> Rule(<<Out(Publish, key, first), Out(Publish, key, second)>>, "ack"))
                     @@ ("aborted" :> Rule(<<>>, "drop")))>>))
    IN  {Test(app, <<Sent("whole", queue)>>, {}, {To(key, 2)}),
         Test(app, <<Sent("aborted", queue)>>, Once({1}, "aborted"), {To(key, 0)})}

TransactionsScope    == Scoped(<<"orders">>, <<"shipments">>, "tea", "cups")
TransactionsServerTx == Scoped(<<"transfers">>, <<"ledger", "entries">>, "debit", "credit")

(* Two transactions of one handler settle apart.                           *)
TransactionsOwned ==
    LET audit == Out(Publish, <<"audit">>, "record")
        app == Undeclared(App(<<Named(<<"orders">>,
                   ("in_stock" :> Rule(<<Out(Publish, <<"shipments">>, "shipment"), audit>>, "ack"))
                     @@ ("sold_out" :> Rule(<<audit>>, "ack")))>>))
        Recorded(kind, shipped) == Test(app, <<Sent(kind, <<"orders">>)>>, {},
                                        {To(<<"shipments">>, shipped), To(<<"audit">>, 1)})
    IN  {Recorded("in_stock", 1), Recorded("sold_out", 0)}

PublishingPrograms ==
    PublishingPriority \cup PublishingExchange \cup PublishingExpiration \cup PublishingHeaders
      \cup PublishingPersistent \cup PublishingProperties \cup PublishingPublish
      \cup GuidePublishingTests \cup TransactionsConfirms \cup TransactionsScope
      \cup TransactionsServerTx \cup TransactionsOwned
===============================================================================
