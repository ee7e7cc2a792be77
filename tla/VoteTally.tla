----------------------------- MODULE VoteTally -----------------------------
(***************************************************************************)
(* The votes of one campaign (ProgressTracker.Votes, raft.poll): they are  *)
(* recorded as the answers arrive, also twice and contradicting each       *)
(* other, and after each one the joint quorum says where the vote stands.  *)
(***************************************************************************)
EXTENDS JointQuorum

VARIABLE Votes   \* ProgressTracker.Votes: voter -> granted

\* Mutant of RecordVote: a later answer replaces the first one.
RecordLastVote(id, v) ==
    Votes' = [i \in DOMAIN Votes \cup {id} |-> IF i = id THEN v ELSE Votes[i]]

\* poll records an answer, unless that voter has answered already.
RecordVote(id, v) ==
    Votes' = [i \in DOMAIN Votes \cup {id} |->
                 IF i \in DOMAIN Votes THEN Votes[i] ELSE v]

TallyInit == Votes = <<>>

TallyNext == \E id \in IDs, v \in BOOLEAN : RecordVote(id, v)

TallySpec == TallyInit /\ [][TallyNext]_Votes

-----------------------------------------------------------------------------
\* Votes as they are, with one and the same answer of all who are missing.
AllMissing(v) == [id \in IDs |-> IF id \in DOMAIN Votes THEN Votes[id] ELSE v]

HasMajority(m, votes) == m # {} => 2 * Cardinality({id \in m : votes[id]}) > Cardinality(m)

Accepted(votes) == HasMajority(Incoming, votes) /\ HasMajority(Outgoing, votes)

\* VoteResult against its definition: the vote is won when it is accepted by
\* both majorities however the others vote, lost when no vote of theirs can
\* still have it accepted, and pending otherwise.
ResultIsVerdict ==
    JointVoteResult(Votes) =
        IF Accepted(AllMissing(FALSE)) THEN VoteWon
        ELSE IF Accepted(AllMissing(TRUE)) THEN VotePending ELSE VoteLost

\* No two candidates win: if this vote is won, the voters who did not grant it
\* cannot make a quorum for another candidate.
OneWinner ==
    LET others == [id \in IDs |-> id \notin DOMAIN Votes \/ ~Votes[id]]
    IN  JointVoteResult(Votes) = VoteWon /\ IDs # {} => JointVoteResult(others) # VoteWon

\* A vote that is won or lost stays so, whatever answers still arrive: a
\* candidate that became leader, or follower, would not have to step back.
VerdictFinal ==
    [][JointVoteResult(Votes) # VotePending => JointVoteResult(Votes)' = JointVoteResult(Votes)]_Votes
=============================================================================
