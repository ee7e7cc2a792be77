----------------------------- MODULE MCRaftStep ------------------------------
(* An instance of RaftStep: the first node holds one entry, the other none. *)
EXTENDS RaftStep

CONSTANTS n1, n2

MCLog == [n \in {n1, n2} |-> IF n = n1 THEN <<1>> ELSE <<>>]
=============================================================================
