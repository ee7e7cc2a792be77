--------------------------- MODULE MCNodeCluster ---------------------------
(***************************************************************************)
(* NodeCluster on small clusters.  The MC*.cfg files of this module differ *)
(* in what may happen: replication by one leader to two peers              *)
(* (MCReplication), elections of two nodes beside restarts and failed      *)
(* calls, under fairness (MCRestart), and three nodes that all stand       *)
(* (MCOneLeader).                                                          *)
(***************************************************************************)
EXTENDS NodeCluster
=============================================================================
