---------------------------- MODULE JointQuorum ----------------------------
(***************************************************************************)
(* raft/quorum: what a map of votes amounts to, for a majority and for a   *)
(* joint configuration of two (JointConfig), of which the second one is    *)
(* empty unless the membership is being changed.                           *)
(***************************************************************************)
EXTENDS Naturals, FiniteSets

CONSTANTS
    Incoming, Outgoing   \* JointConfig[0], JointConfig[1]: sets of voters

ASSUME VotersAssumption == IsFiniteSet(Incoming) /\ IsFiniteSet(Outgoing)

VotePending == "VotePending"
VoteLost    == "VoteLost"
VoteWon     == "VoteWon"

\* math.MaxUint64.  TLC's integers end before it: this is as far above every
\* index that is modelled.
MaxUint64 == 2 ^ 30

\* JointConfig.IDs
IDs == Incoming \cup Outgoing

\* A vote is in the domain of the map once it is known.
Yes(m, votes) == {id \in m \cap DOMAIN votes : votes[id]}

\* Mutant of MajorityVoteResult: whoever has not voted counts against.
MissingIsNo(m, votes) ==
    IF m = {} \/ Cardinality(Yes(m, votes)) >= Cardinality(m) \div 2 + 1 THEN VoteWon
    ELSE IF DOMAIN votes \cap m = {} THEN VotePending ELSE VoteLost

\* Mutant of MajorityVoteResult: a quorum of one too few.
HalfVoteResult(m, votes) ==
    LET q       == Cardinality(m) \div 2
        yes     == Cardinality(Yes(m, votes))
        missing == Cardinality(m \ DOMAIN votes)
    IN  IF m = {} \/ yes >= q THEN VoteWon
        ELSE IF yes + missing >= q THEN VotePending ELSE VoteLost

\* MajorityConfig.VoteResult
MajorityVoteResult(m, votes) ==
    LET q       == Cardinality(m) \div 2 + 1
        yes     == Cardinality(Yes(m, votes))
        missing == Cardinality(m \ DOMAIN votes)
    IN  IF m = {} \/ yes >= q THEN VoteWon
        ELSE IF yes + missing >= q THEN VotePending ELSE VoteLost

\* JointConfig.VoteResult
JointVoteResult(votes) ==
    LET r1 == MajorityVoteResult(Incoming, votes)
        r2 == MajorityVoteResult(Outgoing, votes)
    IN  IF r1 = r2 THEN r1
        ELSE IF r1 = VoteLost \/ r2 = VoteLost THEN VoteLost ELSE VotePending

\* MajorityConfig.CommittedIndex takes the position of the quorum in an array
\* that is filled from its end, in the order of a map's iteration, and not
\* sorted: what it returns is the index that any one voter acknowledged, or 0
\* when fewer than a quorum did.  An empty configuration does not bound it.
MajorityCommitted(m, acked) ==
    LET known == m \cap DOMAIN acked
    IN  IF m = {} THEN {MaxUint64}
        ELSE IF Cardinality(known) >= Cardinality(m) \div 2 + 1 THEN {acked[id] : id \in known}
        ELSE {0}

\* JointConfig.CommittedIndex: the smaller one.
JointCommitted(acked) ==
    {IF i < j THEN i ELSE j :
        i \in MajorityCommitted(Incoming, acked), j \in MajorityCommitted(Outgoing, acked)}
=============================================================================
