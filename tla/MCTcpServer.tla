------------------------------ MODULE MCTcpServer ------------------------------
(* TcpServer.tla for TLC: both listeners, connections that come at any      *)
(* moment up to the end, and a call queue that is full after one call.      *)
EXTENDS TcpServer
===============================================================================
