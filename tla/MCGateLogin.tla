----------------------------- MODULE MCGateLogin -----------------------------
(* GateLogin.tla for TLC: two clients, which may log in with one account or *)
(* with two, each asking twice, and one broken connection.                   *)
EXTENDS GateLogin
===============================================================================
