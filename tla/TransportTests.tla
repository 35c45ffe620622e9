---------------------------- MODULE TransportTests ----------------------------
(***************************************************************************)
(* Integration tests of the crate as programs: what a start refuses, what  *)
(* the wire cannot carry, and what dead letters, caps and delays keep.     *)
(***************************************************************************)
EXTENDS Programs

Dead == <<"orders", "dead">>
One(queue, handler) == App(<<Sub(queue, handler)>>)
Region(region) == [name \in {"x-match", "region"} |-> LongString(Text(IF name = "x-match" THEN "all" ELSE region))]

(* ----------------------------- in process ------------------------------ *)
RefusedDeclarations ==
    LET orders == RabbitQueue(<<"orders">>)
        prioritised == Argument(RabbitQuorumQueue(<<"orders">>), MaxPriority, Integer(5))
    IN  {Refused(One([orders EXCEPT !.durable = FALSE], Acks)),
         Refused(One(Bind(orders, Direct(DefaultExchange), <<"orders">>), Acks)),
         Refused(App(<<Sub(orders, Acks), Sub(orders, Acks), Sub(RabbitQuorumQueue(<<"orders">>), Acks)>>)),
         Refused(One(prioritised, Acks))}

(* A publish the frame cannot carry is refused, and an unroutable one is   *)
(* not.                                                                    *)
RefusedPublishes ==
    LET app == Undeclared(One(RabbitQueue(<<"orders">>), Acks))
        Only(out, log) == Test(app, <<out>>, Never({1}, out.kind), log)
    IN  {Only(Sent("long-key", <<"long">>), {To(<<"long">>, 0)}),
         Only(Sent("keyless", DefaultExchange), {To(DefaultExchange, 1)}),
         Only(Carrying(Sent("long-id", <<"orders">>), [name \in {"correlation-id"} |-> Text("long")]),
              {To(<<"orders">>, 0)})}

(* A dead letter is matched on the message's own header table, of which    *)
(* its native priority is no entry.                                        *)
DeadLetterHeaders ==
    LET Parked(arguments) == Sub(BindWith(RabbitQueue(<<"parked">>), Headers(<<"dead-by">>),
                                          DefaultExchange, arguments), Acks)
        work == Sub(DeadLetterExchange(RabbitQueue(<<"work">>), <<"dead-by">>), Drops)
        seven == ("x-match" :> LongString(Text("all"))) @@ (PriorityHeader :> LongString(Decimal(7)))
        urgent == With(Sent("urgent", <<"work">>), Priority(Unset, 7))
        eu == Carrying(Sent("eu", <<"work">>), [name \in {"region"} |-> Text("eu")])
    IN  {Test(Undeclared(App(<<Parked(seven), work>>)), <<urgent>>, Never({1}, "urgent") \cup Once({2}, "urgent"), {}),
         Test(Undeclared(App(<<Parked(Region("eu")), work>>)), <<eu>>, Once({1, 2}, "eu"), {})}

(* Every copy a waiting queue releases counts one more attempt.            *)
CountedCopies ==
    {Test(Undeclared(One(Delayed(RabbitQueue(<<"orders">>), DlxTtl),
                         Every(Defers(2, Answer(<<>>, "ack"))))),
          <<Sent("order", <<"orders">>)>>, {Took(1, "order", 3)}, {To(<<"orders">>, 1)})}

(* An exchange routes by its kind, to the queues bound to it and no other. *)
RoutedByKind ==
    LET To3(x, out) == Test(App(<<Sub(Bind(RabbitQueue(<<"first">>), x, <<"order", "*">>), Acks),
                                  Sub(Bind(RabbitQueue(<<"second">>), x, <<"order", "shipped">>), Acks),
                                  Named(<<"order", "created">>, Acks)>>), <<out>>, {}, {})
        created == Out(ToExchange(Publish, <<"events">>), <<"order", "created">>, "created")
        Takes(x, calls) == [To3(x, created) EXCEPT !.expect.calls = calls]
    IN  {Takes(Topic(<<"events">>), Once({1}, "created") \cup Never({2, 3}, "created")),
         Takes(Fanout(<<"events">>), Once({1, 2}, "created") \cup Never({3}, "created"))}

(* ------------------------------- retries ------------------------------- *)
(* A declaration the queue cannot carry refuses to start.                  *)
RefusedRetries ==
    LET classic == RabbitQueue(<<"orders">>)
        quorum  == RabbitQuorumQueue(<<"orders">>)
        both == DeadLetter(MaxAttempts(quorum, 3), Dead)
        elsewhere == DeadLetter(classic, <<"orders", "elsewhere">>)
    IN  {Refused(One(DeadLetter(MaxAttempts(classic, 3), Dead), Retries)),
         Refused(App(<<Sub(DeadLetter(classic, Dead), Drops), Sub(elsewhere, Drops)>>)),
         Refused(Undeclared(One(both, Retries))),
         Refused(One(MaxAttempts(quorum, 3), Retries)),
         Refused(One(DeadLetter(quorum, Dead), Retries))}

(* The mount site's cap is written over the descriptor's limit, and a      *)
(* limit with no route drops the spent message.                            *)
Capped ==
    LET quorum == RabbitQuorumQueue(<<"orders">>)
        over == DeadLetter(MaxAttempts(ReturnLimit(quorum, 9), 3), Dead)
        order == <<Sent("order", <<"orders">>)>>
    IN  {Test(App(<<Sub(over, Retries), Named(Dead, Acks)>>), order,
              {Took(1, "order", 3), Took(2, "order", 1)}, {To(Dead, 0)}),
         Test(App(<<Sub(ReturnLimit(quorum, 1), Retries), Named(Dead, Acks)>>), order,
              {Took(1, "order", 2), Took(2, "order", 0)}, {})}

(* A dropped delivery leaves for the dead-letter queue of its mount site;  *)
(* a queue provisioned without that route refuses to start.                *)
MountedRoute ==
    LET routed == DeadLetter(RabbitQueue(<<"orders">>), Dead)
        bare   == DeclareQueue(<<"orders">>, Declared(RabbitQueue(<<"orders">>),
                                                      DeclaredArguments(RabbitQueue(<<"orders">>))))
    IN  {Test(App(<<Sub(routed, Drops), Named(Dead, Acks)>>), <<Sent("order", <<"orders">>)>>,
              Once({1, 2}, "order"), {To(Dead, 0)}),
         Refused(OnlyLive(Provided(One(routed, Drops), <<bare>>)))}

(* A delayed retry needs somewhere to wait: the waiting queue or the       *)
(* plugin's exchange an operator provisioned.                              *)
ProvisionedDelay ==
    LET queue == RabbitQueue(<<"orders">>)
        here(delay) == OnlyLive([One(Delayed(queue, delay), RetriesAfter) EXCEPT !.declares = FALSE])
        bare == DeclareQueue(queue.name, Declared(queue, DeclaredArguments(queue)))
        waiting == DelayQueue(queue.name \o <<"retry">>, queue.name)
    IN  {Refused(Provided(here(DlxTtl), <<bare>>)), Refused(Provided(here(PluginDme), <<bare>>)),
         Test(Provided(here(DlxTtl), <<bare, waiting>>), <<Sent("order", <<"orders">>)>>,
              {Took(1, "order", 2)}, {})}

(* A typed header of a foreign producer, through a dead letter and a       *)
(* delay, reads as it did.                                                 *)
DelayedDeadLetter ==
    LET dead == <<"origin", "dead">>
        app == Undeclared(App(<<Sub(DeadLetter(RabbitQueue(<<"origin">>), dead), Drops),
                                Sub(Delayed(RabbitQueue(dead), DlxTtl), RetriesAfter)>>))
        attempt == Carrying(Sent("order", <<"origin">>), [name \in {"x-attempt"} |-> Decimal(3)])
    IN  {Test(app, <<attempt>>, {Took(1, "order", 1), Took(2, "order", 2)}, {})}

TestPrograms ==
    RefusedDeclarations \cup RefusedPublishes \cup DeadLetterHeaders \cup CountedCopies
      \cup RoutedByKind \cup RefusedRetries \cup Capped \cup MountedRoute \cup ProvisionedDelay
      \cup DelayedDeadLetter
===============================================================================
