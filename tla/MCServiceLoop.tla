---------------------------- MODULE MCServiceLoop ----------------------------
(* ServiceLoop.tla for TLC: three functions, short channels, one timer.     *)
EXTENDS ServiceLoop
===============================================================================
