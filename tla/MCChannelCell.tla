---------------------------- MODULE MCChannelCell ----------------------------
(* The channel cell with three callers and two channels, for TLC.          *)
EXTENDS ChannelCell

CONSTANTS c1, c2, c3, ch1, ch2

ThreeCallers == {c1, c2, c3}
TwoChannels == {ch1, ch2}
=============================================================================
