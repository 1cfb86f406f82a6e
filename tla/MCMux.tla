------------------------------- MODULE MCMux -------------------------------
(* A small instance of Mux for TLC.                                        *)
EXTENDS Mux

\* As many substreams as are accepted and fit the queue: one more, and drive
\* stops polling the connection for good.
MCInbound == Accepts + QueueCap
=============================================================================
