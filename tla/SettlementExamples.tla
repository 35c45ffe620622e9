-------------------------- MODULE SettlementExamples --------------------------
(***************************************************************************)
(* The examples on what becomes of a delivery: acks, drops, retries, caps  *)
(* and delays, each an app with its tests.                                 *)
(***************************************************************************)
EXTENDS Programs

(* A rejected invoice goes through the dead-letter exchange of its queue.  *)
SettlementDeadLetter ==
    LET exchange == <<"invoices", "dlx">>
        rejected == <<"invoices", "rejected">>
        invoices == DeadLetterRoutingKey(DeadLetterExchange(RabbitQueue(<<"invoices">>), exchange), rejected)
        app == App(<<Sub(invoices, ("negative" :> Rule(<<>>, "drop")) @@ Acks),
                     Sub(Bind(RabbitQueue(rejected), Direct(exchange), rejected), Acks)>>)
    IN  {Test(app, <<Sent("negative", <<"invoices">>)>>, Once({1, 2}, "negative"), {}),
         Test(app, <<Sent("paid", <<"invoices">>)>>, Never({2}, "paid"), {})}

(* A retry returns the message, which is acked once it is a redelivery; a  *)
(* drop does not come back.                                                *)
SettlementOutcomes ==
    LET app == Undeclared(App(<<Named(<<"orders">>, ("nameless" :> Rule(<<>>, "drop")) @@ RetriesOnce)>>))
    IN  {Test(app, <<Sent("widget", <<"orders">>)>>, {Took(1, "widget", 2)}, {}),
         Test(app, <<Sent("nameless", <<"orders">>)>>, Once({1}, "nameless"), {})}

(* The third failure takes a payment to the dead-letter queue, which the   *)
(* app itself never publishes to.                                          *)
SettlementRetries ==
    LET dead == <<"payments", "dead">>
        payments == DeadLetter(MaxAttempts(RabbitQuorumQueue(<<"payments">>), 3), dead)
        app == App(<<Sub(payments, Retries), Named(dead, Acks)>>)
    IN  {Test(app, <<Sent("declined", <<"payments">>)>>,
              {Took(1, "declined", 3), Took(2, "declined", 1)}, {To(dead, 0)})}

(* A refund waits and is decided by its copy, which no one published.      *)
Rechecked(name) ==
    {Test(App(<<Sub(Delayed(RabbitQueue(name), DlxTtl), RetriesAfter)>>), <<Sent("one", name)>>,
          {Took(1, "one", 2)}, {To(name, 1)})}

SettlementRetryAfter == Rechecked(<<"refunds">>)
SettlementDelay      == Rechecked(<<"shipments">>)

(* The same through the plugin's exchange, from a queue of one process     *)
(* when it runs against a server.                                          *)
SettlementPluginDme ==
    LET Reminders(queue, link) ==
            [App(<<Sub(Delayed(queue, PluginDme), RetriesAfter)>>) EXCEPT !.links = {link}]
        Holds(app) == Test(app, <<Sent("reminder", <<"reminders">>)>>, {Took(1, "reminder", 2)}, {})
        queue == RabbitQueue(<<"reminders">>)
    IN  {Holds(Reminders(queue, "in_process")), Holds(Reminders(AutoDelete(queue, TRUE), "live"))}

(* A charge that always fails is delivered once and returned four times,   *)
(* then parked.                                                            *)
SettlementDeliveryLimit ==
    LET exchange == <<"charges", "dlx">>
        charges == DeadLetterExchange(ReturnLimit(RabbitQuorumQueue(<<"charges">>), 4), exchange)
        parked  == Bind(RabbitQueue(<<"charges", "parked">>), Fanout(exchange), DefaultExchange)
        app == App(<<Sub(charges, Retries), Sub(parked, Acks)>>)
    IN  {Test(app, <<Sent("charge", <<"charges">>)>>,
              {Took(1, "charge", 5), Took(2, "charge", 1)}, {To(<<"charges">>, 1)})}

(* The guide on retries: refunds that wait out a busy processor on a       *)
(* classic queue, payouts the quorum queue gives up on itself.             *)
GuideRetriesApp(declares) ==
    LET refundsDead == <<"refunds", "dead">>
        payoutsDead == <<"payouts", "dead">>
        refunds == DeadLetter(Delayed(RabbitQueue(<<"refunds">>), DlxTtl), refundsDead)
        payouts == DeadLetter(MaxAttempts(RabbitQuorumQueue(<<"payouts">>), 5), payoutsDead)
    IN  [App(<<Sub(refunds, ("declined" :> Rule(<<>>, "drop")) @@ RetriesAfter),
               Named(refundsDead, Acks), Sub(payouts, Retries), Named(payoutsDead, Acks)>>)
         EXCEPT !.declares = declares]

GuideRetriesTests ==
    LET app == GuideRetriesApp(TRUE)
    IN  {Test(app, <<Sent("refund", <<"refunds">>)>>, {Took(1, "refund", 2)}, {To(<<"refunds">>, 1)}),
         Test(app, <<Sent("declined", <<"refunds">>)>>, Once({1, 2}, "declined"),
              {To(<<"refunds", "dead">>, 0)}),
         Test(app, <<Sent("payout", <<"payouts">>)>>, {Took(3, "payout", 5), Took(4, "payout", 1)},
              {To(<<"payouts", "dead">>, 0)}),
         Refused(GuideRetriesApp(FALSE))}

SettlementPrograms ==
    SettlementDeadLetter \cup SettlementOutcomes \cup SettlementRetries \cup SettlementRetryAfter
      \cup SettlementDelay \cup SettlementPluginDme \cup SettlementDeliveryLimit \cup GuideRetriesTests
===============================================================================
