--------------------------- MODULE ExchangeExamples ---------------------------
(***************************************************************************)
(* The examples on exchanges, each an app with its tests.                  *)
(***************************************************************************)
EXTENDS Programs

Events(name, key) == Bind(RabbitQueue(name), Topic(<<"events">>), key)
GoldInEu(mode)    == [name \in {"x-match", "region", "tier"} |->
                         LongString(Text(CASE name = "x-match" -> mode
                                           [] name = "region"  -> "eu"
                                           [] OTHER            -> "gold"))]
Attributes(region, tier) == [region |-> Text(region), tier |-> Text(tier)]

(* Each step of an order goes to a topic exchange as order.<step>.         *)
ExchangesTopic ==
    LET Announced(kind, step) ==
            kind :> Rule(<<Out(ToExchange(Publish, <<"events">>), <<"order">> \o step, kind)>>, "ack")
        app == App(<<Named(<<"order-steps">>, Announced("created", <<"created">>)
                               @@ Announced("shipped", <<"shipped">>)
                               @@ Announced("late", <<"shipped", "late">>)),
                     Sub(Events(<<"audit">>, <<"order", "*">>), Acks),
                     Sub(Events(<<"shipping">>, <<"order", "shipped">>), Acks)>>)
        Step(kind, audited, shipped) ==
            Test(app, <<Sent(kind, <<"order-steps">>)>>,
                 {Took(2, kind, audited), Took(3, kind, shipped)}, {})
    IN  {Step("created", 1, 0), Step("shipped", 1, 1), Step("late", 0, 0)}

(* A new price reaches every queue bound to a fanout exchange.             *)
ExchangesFanout ==
    LET Prices(name) == Bind(RabbitQueue(name), Fanout(<<"prices">>), DefaultExchange)
        changed == Out(ToExchange(Publish, <<"prices">>), <<"tea">>, "price")
        app == App(<<Named(<<"price-updates">>, Publishes(changed)),
                     Sub(Prices(<<"prices", "search">>), Acks),
                     Sub(Prices(<<"prices", "cache">>), Acks)>>)
    IN  {Test(app, <<Sent("update", <<"price-updates">>)>>, Once({2, 3}, "price"), {})}

(* A payment reaches the queue bound under its method, or none.            *)
ExchangesDirect ==
    LET Payments(method) == Bind(RabbitQueue(<<"payments", method>>), Direct(<<"payments">>), <<method>>)
        Paid(method) == method :> Rule(<<Out(ToExchange(Publish, <<"payments">>), <<method>>, method)>>, "ack")
        app == App(<<Named(<<"checkout">>, Paid("card") @@ Paid("cash")),
                     Sub(Payments("card"), Acks), Sub(Payments("invoice"), Acks)>>)
    IN  {Test(app, <<Sent("card", <<"checkout">>)>>, Once({2}, "card") \cup Never({3}, "card"), {}),
         Test(app, <<Sent("cash", <<"checkout">>)>>, Once({1}, "cash") \cup Never({2, 3}, "cash"), {})}

(* Orders routed by the headers they carry, the key being empty.           *)
HeadersRouted(exchange, key, region, tier) ==
    (region \o tier) :>
        Rule(<<Carrying(Out(ToExchange(Publish, exchange), key, region \o tier),
                        Attributes(region, tier))>>, "ack")

ExchangesHeaders ==
    LET By(name, mode) == BindWith(RabbitQueue(<<"orders", name>>), Headers(<<"orders">>),
                                   DefaultExchange, GoldInEu(mode))
        Route(region, tier) == HeadersRouted(<<"orders">>, DefaultExchange, region, tier)
        app == App(<<Named(<<"order-intake">>, Route("eu", "gold") @@ Route("eu", "silver")
                               @@ Route("us", "gold") @@ Route("us", "silver")),
                     Sub(By("eu-gold", "all"), Acks), Sub(By("eu-or-gold", "any"), Acks)>>)
        sends == <<Sent("eugold", <<"order-intake">>), Sent("eusilver", <<"order-intake">>),
                   Sent("usgold", <<"order-intake">>), Sent("ussilver", <<"order-intake">>)>>
    IN  {Test(app, sends,
              Once({2, 3}, "eugold") \cup Never({2}, "eusilver") \cup Once({3}, "eusilver")
                \cup Never({2}, "usgold") \cup Once({3}, "usgold") \cup Never({2, 3}, "ussilver"), {})}

(* A plugin exchange hands each customer to one shard; in process it       *)
(* routes nothing.                                                         *)
ExchangesConsistentHash ==
    LET exchange == <<"orders-by-customer">>
        Sharded(customer) == customer :> Rule(<<Out(ToExchange(Publish, exchange), <<customer>>, customer)>>, "ack")
        Shard(name) == Sub(Bind(RabbitQueue(<<"orders", name>>), ConsistentHash(exchange), <<"1">>), Acks)
        app == App(<<Named(<<"order-intake">>, Sharded("customer-1") @@ Sharded("customer-2")),
                     Shard("shard-a"), Shard("shard-b")>>)
        first == Sent("customer-1", <<"order-intake">>)
        live == [OnlyLive(app) EXCEPT !.hashed = {<<exchange, <<"customer-1">>>>, <<exchange, <<"customer-2">>>>}]
    IN  {Test([app EXCEPT !.links = {"in_process"}], <<first>>,
              Once({1}, "customer-1") \cup Never({2, 3}, "customer-1"), {}),
         Test(live, <<first, Sent("customer-2", <<"order-intake">>), first>>,
              {Between({2, 3}, "customer-1", 2), Between({2, 3}, "customer-2", 1)}, {})}

(* The guide on routing: one service over a topic, a fanout and a headers  *)
(* exchange.                                                               *)
GuideRoutingApp ==
    LET Placed(region) == region :> Rule(<<Out(ToExchange(Publish, <<"events">>),
                                               <<"order", "placed", region>>, region)>>, "ack")
        Prices(name) == Bind(RabbitQueue(name), Fanout(<<"prices">>), DefaultExchange)
        Ship(region, tier) == HeadersRouted(<<"shipments">>, <<"shipment">>, region, tier)
        By(name, mode) == BindWith(RabbitQueue(name), Headers(<<"shipments">>), DefaultExchange, GoldInEu(mode))
    IN  App(<<Named(<<"orders">>, Placed("eu") @@ Placed("us")),
              Sub(Events(<<"notifications", "orders">>, <<"order", "placed", "*">>), Acks),
              Sub(Events(<<"warehouse", "eu">>, <<"*", "*", "eu">>), Acks),
              Sub(Events(<<"audit">>, <<"#">>), Acks),
              Named(<<"catalog", "prices">>,
                    Publishes(Out(ToExchange(Publish, <<"prices">>), <<"price", "changed">>, "price"))),
              Sub(Prices(<<"storefront", "prices">>), Acks), Sub(Prices(<<"search", "prices">>), Acks),
              Named(<<"orders", "paid">>, Ship("eu", "gold") @@ Ship("eu", "silver") @@ Ship("us", "silver")),
              Sub(By(<<"couriers", "express">>, "all"), Acks), Sub(By(<<"insurance">>, "any"), Acks)>>)

GuideRoutingTests ==
    {Test(GuideRoutingApp, <<Sent("eu", <<"orders">>)>>, Once({2, 3, 4}, "eu"),
          {To(<<"order", "placed", "eu">>, 1)}),
     Test(GuideRoutingApp, <<Sent("us", <<"orders">>)>>, Never({3}, "us") \cup Once({2, 4}, "us"), {}),
     Test(GuideRoutingApp, <<Sent("change", <<"catalog", "prices">>)>>, Once({6, 7}, "price"), {}),
     Test(GuideRoutingApp,
          <<Sent("eugold", <<"orders", "paid">>), Sent("eusilver", <<"orders", "paid">>),
            Sent("ussilver", <<"orders", "paid">>)>>,
          Once({9}, "eugold") \cup Never({9}, "eusilver") \cup Never({9, 10}, "ussilver")
            \cup Once({10}, "eugold") \cup Once({10}, "eusilver"), {})}

ExchangePrograms ==
    ExchangesTopic \cup ExchangesFanout \cup ExchangesDirect \cup ExchangesHeaders
      \cup ExchangesConsistentHash \cup GuideRoutingTests
===============================================================================
