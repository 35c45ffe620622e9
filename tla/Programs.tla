------------------------------- MODULE Programs -------------------------------
(***************************************************************************)
(* What a program is made of: an app, which is its subscriptions, their    *)
(* handlers and whether it declares its topology, and one of its tests,    *)
(* which is what is sent to it and what must have happened when it rests.  *)
(***************************************************************************)
EXTENDS Topology, TLC
LOCAL INSTANCE SequencesExt

(* A publish, and the ways it departs from the plain one.                  *)
Out(policy, key, kind) ==
    [policy |-> policy, key |-> key, kind |-> kind, headers |-> <<>>, call |-> {}, reply |-> FALSE]
With(out, options)     == [out EXCEPT !.call = Some(options)]
Carrying(out, headers) == [out EXCEPT !.headers = headers]
Reply(fallback, kind)  == [Out(Publish, fallback, kind) EXCEPT !.reply = TRUE]

(* What a test sends: on the default exchange, with nothing adjusted.      *)
Sent(kind, key) == Out([Publish EXCEPT !.defaults = Unset], key, kind)

(* A handler answers by the kind of its message, and otherwise once it was *)
(* redelivered or has been through so many delays.  A kind no rule is for  *)
(* is acknowledged.                                                        *)
Answer(sends, outcome)  == [sends |-> sends, outcome |-> outcome]
FirstThen(first, again) == [first |-> first, again |-> again, delays |-> 1]
Rule(sends, outcome)    == FirstThen(Answer(sends, outcome), Answer(sends, outcome))
Defers(delays, last)    == [first |-> Answer(<<>>, "retry_after"), again |-> last, delays |-> delays]
Every(rule)             == Entry("any", rule)
Acks            == Every(Rule(<<>>, "ack"))
Drops           == Every(Rule(<<>>, "drop"))
Retries         == Every(Rule(<<>>, "retry"))
Publishes(out)  == Every(Rule(<<out>>, "ack"))
RetriesOnce     == Every(FirstThen(Answer(<<>>, "retry"), Answer(<<>>, "ack")))
RetriesAfter    == Every(Defers(1, Answer(<<>>, "ack")))

Sub(queue, handler)   == [queue |-> queue, handler |-> handler ++ Acks, workers |-> 1]
Workers(sub, n)       == [sub EXCEPT !.workers = n]
Named(name, handler)  == Sub(RabbitQueue(name), handler)

App(subs) ==
    [subs |-> subs, declares |-> TRUE, provisioned |-> Bare, links |-> {"live", "in_process"},
     hashed |-> {}, refused |-> FALSE, sends |-> <<>>, expect |-> [calls |-> {}, log |-> {}]]

(* An app that declares nothing runs where its topology was provisioned.   *)
Undeclared(app) ==
    [app EXCEPT !.declares = FALSE,
                !.provisioned = FoldLeft(LAMBDA routes, sub :
                                             FoldLeft(Served, routes, Declarations(sub.queue)),
                                         @, app.subs)]
Provided(app, requests) == [app EXCEPT !.provisioned = FoldLeft(Served, @, requests)]
OnlyLive(app)           == [app EXCEPT !.links = {"live"}]
Refused(app)            == [app EXCEPT !.refused = TRUE]

Between(subs, kind, times) == [subs |-> subs, kind |-> kind, times |-> times]
Took(sub, kind, times)     == Between({sub}, kind, times)
Once(subs, kind)           == {Took(sub, kind, 1) : sub \in subs}
Never(subs, kind)          == {Took(sub, kind, 0) : sub \in subs}
To(key, times)             == [key |-> key, times |-> times, carried |-> {}]

(* Published to a key once, with these settings on the frame.              *)
CarriedTo(key, persistent, priority, millis) ==
    [key |-> key, times |-> 1,
     carried |-> {[delivery_mode |-> IF persistent THEN 2 ELSE 1,
                   priority |-> priority, expiration |-> millis]}]

Test(app, sends, calls, log) ==
    [app EXCEPT !.sends = sends, !.expect = [calls |-> calls, log |-> log]]
===============================================================================
