------------------------------ MODULE MCSession ------------------------------
(* Session.tla for TLC: two goroutines that Send and Close, two sends each, *)
(* a send channel of one message, so that it fills up.                     *)
EXTENDS Session
===============================================================================
