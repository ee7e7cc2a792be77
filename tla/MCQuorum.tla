----------------------------- MODULE MCQuorum ------------------------------
(***************************************************************************)
(* The two users of the joint quorum, in one joint configuration: the      *)
(* votes of a campaign (VoteTally) and the reads of a leader (ReadIndex),  *)
(* two of them with a commit before, between and after them.  They share   *)
(* no state, and a behaviour is one of the campaign or one of the reads.   *)
(***************************************************************************)
EXTENDS VoteTally, ReadIndex

MCInit == TallyInit /\ Init

MCNext ==
    \/ Init /\ TallyNext /\ UNCHANGED vars
    \/ Votes = <<>> /\ Next /\ UNCHANGED Votes

MCSpec == MCInit /\ [][MCNext]_<<Votes, vars>> /\ Fairness
=============================================================================
