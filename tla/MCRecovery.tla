----------------------------- MODULE MCRecovery ------------------------------
(* One polling consumer and the cleanup task through an outage or two, for  *)
(* TLC.                                                                     *)
EXTENDS Recovery

CONSTANTS c1

OneConsumer == {c1}
=============================================================================
