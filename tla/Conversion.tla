------------------------------ MODULE Conversion ------------------------------
(***************************************************************************)
(* What a publish carries: the settings of the call over those of the      *)
(* policy, the AMQP properties they and the headers become, the headers a  *)
(* delivery reads back, and the copy a delayed redelivery sends.           *)
(*                                                                         *)
(* An optional value is the set of it, {} where there is none.  A header's *)
(* bytes are Text or the decimal digits of a number, and a duration counts *)
(* tenths of a millisecond.                                                *)
(***************************************************************************)
EXTENDS Matching, Integers

CONSTANT TooLong   \* the words, of those in use, that exceed a short string

(* TLC's @@ and :>, of which the provers know nothing: one function over    *)
(* another, and the function of one entry.                                 *)
f ++ g == [x \in DOMAIN f \cup DOMAIN g |-> IF x \in DOMAIN f THEN f[x] ELSE g[x]]
Entry(name, value) == [n \in {name} |-> value]

Some(value)           == {value}
The(option)           == CHOOSE value \in option : TRUE
Or(option, default)   == IF option = {} THEN default ELSE option

(* LapinPublishOptions, and the steps that adjust one message.             *)
Unset      == [priority |-> {}, expiration |-> {}, persistent |-> {}]
PERSISTENT == [Unset EXCEPT !.persistent = Some(TRUE)]

Priority(options, n)     == [options EXCEPT !.priority = Some(n)]
Expiration(options, ttl) == [options EXCEPT !.expiration = Some(ttl)]
Persistent(options, b)   == [options EXCEPT !.persistent = Some(b)]

(* A mistake: the policy's settings win over those of the call.            *)
OverPolicyFirst(options, defaults) ==
    [field \in DOMAIN options |-> Or(defaults[field], options[field])]

Over(options, defaults) ==
    [field \in DOMAIN options |-> Or(options[field], defaults[field])]

(* PublishOptions: the exchange a policy publishes to and its defaults.    *)
DefaultExchange == <<"">>
Publish              == [exchange |-> DefaultExchange, defaults |-> PERSISTENT]
ToExchange(policy, x) == [policy EXCEPT !.exchange = x]
Defaulting(policy, options) == [policy EXCEPT !.defaults = Over(options, policy.defaults)]

Resolve(policy, call) ==
    IF call = {} THEN policy.defaults ELSE Over(The(call), policy.defaults)

(* The properties of a frame.                                              *)
PropertyHeaders  == {"content-type", "correlation-id", "reply-to", "message-id"}
PriorityHeader   == "amqp-priority"
ExpirationHeader == "amqp-expiration"
RetryCountHeader == "retry-count"
Decimal(n)       == [number |-> n]

ExpirationMillis(ttl) == IF ttl \in 1..9 THEN 1 ELSE ttl \div 10

Restricted(headers, names) == [name \in DOMAIN headers \cap names |-> headers[name]]
Without(headers, names)    == [name \in DOMAIN headers \ names |-> headers[name]]

PropertiesForPublish(headers, options) ==
    [delivery_mode |-> IF FALSE \in options.persistent THEN 1 ELSE 2,
     priority      |-> options.priority,
     expiration    |-> {ExpirationMillis(ttl) : ttl \in options.expiration},
     native        |-> Restricted(headers, PropertyHeaders),
     table         |-> [name \in DOMAIN headers \ PropertyHeaders |-> LongString(headers[name])]]

(* A name of the protocol is a short string, and so is a native property.  *)
Short(name) == \A i \in DOMAIN name : name[i] \notin TooLong
Framable(exchange, key, headers) ==
    /\ Short(exchange) /\ Short(key)
    /\ DOMAIN headers \cap TooLong = {}
    /\ \A name \in DOMAIN headers \cap PropertyHeaders :
          headers[name] \notin {Text(word) : word \in TooLong}

HeadersFromProperties(properties) ==
    [name \in DOMAIN properties.table |-> properties.table[name].held]
      ++ [name \in {ExpirationHeader : ttl \in properties.expiration} |->
              Decimal(The(properties.expiration))]
      ++ [name \in {PriorityHeader : n \in properties.priority} |->
              Decimal(The(properties.priority))]
      ++ properties.native

(* The copy a delayed redelivery sends: the priority its delivery reported *)
(* and the framework's retry count raised by one.                          *)
Numbers(headers, name) ==
    {headers[n].number : n \in {n \in {name} \cap DOMAIN headers : "number" \in DOMAIN headers[n]}}

(* A mistake: the copy takes no priority along.                            *)
RedeliveryOptionsDemoted(headers) == PERSISTENT

RedeliveryOptions(headers) ==
    [PERSISTENT EXCEPT !.priority = Numbers(headers, PriorityHeader) \cap (0..255)]

Rounds(headers) == Or(Numbers(headers, RetryCountHeader), {0})
CountedAgain(headers) == Entry(RetryCountHeader, Decimal(The(Rounds(headers)) + 1)) ++ headers

DelayedCopy(headers) == PropertiesForPublish(CountedAgain(headers), RedeliveryOptions(headers))

(* The responder's transform: the reply goes to the address the request    *)
(* names, or else to the mount site's, and carries its correlation id.     *)
DirectReplyTo(headers, fallback) ==
    [key     |-> IF "reply-to" \in DOMAIN headers THEN headers["reply-to"].name ELSE fallback,
     headers |-> Restricted(headers, {"correlation-id"})]
===============================================================================
