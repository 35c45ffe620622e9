---------------------------- MODULE MCLiveSettlement -------------------------
(* One message, its copies, and a subscription that loses its channel, for *)
(* TLC.                                                                     *)
EXTENDS LiveSettlement

CONSTANTS m1

OneMessage == {m1}
=============================================================================
