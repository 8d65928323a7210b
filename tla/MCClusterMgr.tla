----------------------------- MODULE MCClusterMgr -----------------------------
(* ClusterMgr.tla for TLC: a gate that asks for game servers and a game     *)
(* server, two addresses, two faults, four connections.                     *)
EXTENDS ClusterMgr, TLC

CONSTANTS gate, gs, a1, a2

MCNodes == {gate, gs}
MCTypes == {"gate", "gs"}
MCAddrs == {a1, a2}
MCFirstAddr == [n \in MCNodes |-> a1]
MCSvrType == gate :> "gate" @@ gs :> "gs"
MCSubs == gate :> {"gs"} @@ gs :> {}
===============================================================================
