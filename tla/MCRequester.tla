----------------------------- MODULE MCRequester -----------------------------
(* Two requests over a handle that loses its channel, for TLC.             *)
EXTENDS Requester

CONSTANTS r1, r2, ch1, ch2

TwoRequests == {r1, r2}
TwoChannels == {ch1, ch2}
=============================================================================
