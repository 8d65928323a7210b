------------------------------ MODULE MCTcpClient ------------------------------
(* TcpClient.tla for TLC: three orders (add, move, delete, add again), two  *)
(* addresses, a short call queue that can fill up.                         *)
EXTENDS TcpClient
===============================================================================
