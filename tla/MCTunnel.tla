------------------------------ MODULE MCTunnel ------------------------------
(* Two clients that want one port, on a server with every kind of tunnel.   *)
EXTENDS Tunnel
=============================================================================
