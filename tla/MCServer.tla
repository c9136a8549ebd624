------------------------------ MODULE MCServer -------------------------------
(* Server for TLC: two connections, see MCServer.cfg.                       *)
EXTENDS Server
=============================================================================
