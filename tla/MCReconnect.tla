---------------------------- MODULE MCReconnect ----------------------------
(* Small instances of Reconnect for TLC.                                   *)
EXTENDS Reconnect

\* The code's own setting, one whose doubling meets the largest u64 (127), one
\* that is not a power of two, one that never grows and one that never waits.
MCSettings == {<<1, 32>>, <<1, 127>>, <<3, 10>>, <<5, 5>>, <<0, 32>>, <<0, 0>>}
=============================================================================
