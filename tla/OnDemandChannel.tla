--------------------------- MODULE OnDemandChannel ---------------------------
(***************************************************************************)
(* What a channel cell promises the handle that owns it: the channels it   *)
(* opens come one after another, and a new one is opened only once the one *)
(* before it is closed.  A closed channel never comes back.                *)
(***************************************************************************)
EXTENDS Naturals

CONSTANT Channels  \* the channels the connection may hand out

VARIABLES live,    \* the channel of this cell that is not closed, as a set
          spent    \* the channels of this cell that are closed

vars == <<live, spent>>

Init ==
  /\ live = {} \/ \E ch \in Channels : live = {ch}
  /\ spent = {}

\* The cell opens a channel: never beside one that is alive.
Open ==
  /\ live = {}
  /\ \E ch \in Channels \ spent : live' = {ch}
  /\ UNCHANGED spent

\* The channel closes, whoever closed it.
Close ==
  /\ live # {}
  /\ live' = {}
  /\ spent' = spent \cup live

Next == Open \/ Close

Spec == Init /\ [][Next]_vars
=============================================================================
