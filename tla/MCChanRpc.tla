------------------------------ MODULE MCChanRpc ------------------------------
(* ChanRpc.tla for TLC: two clients with two calls each, a call queue of   *)
(* two, and room for one pending asynchronous call per client.             *)
EXTENDS ChanRpc
===============================================================================
