-------------------------- MODULE RaftStepProofs ---------------------------
(***************************************************************************)
(* What the handlers of raft.go keep, for every set of nodes, every log    *)
(* and any loss, delay and reordering of messages: which panics they can   *)
(* reach, whom they take for the leader, what becomes of a vote, and that  *)
(* with checkQuorum nobody disturbs a leader.                              *)
(*                                                                         *)
(* A handler is an operator from an instance and a message to results, so  *)
(* the invariant is one about an instance (InstOK), one about a message    *)
(* (MsgOK), and what relates them.  Good says what a handler may do to a   *)
(* sound instance; every handler is shown to be Good, and a step of the    *)
(* cluster is one Good result at one node (TakeGood).                      *)
(***************************************************************************)
EXTENDS RaftStep, FiniteSetTheorems, TLAPS

Known == {"no", "prevote", "follower -> leader", "commitTo"}

VoteMaps == UNION {[D -> BOOLEAN] : D \in SUBSET Nodes}

Instance ==
  [id : Nodes, Term : Nat, Vote : Nodes \cup {None}, state : {Follower, Candidate, Leader},
   lead : Nodes \cup {None}, leadTransferee : Nodes \cup {None}, electionElapsed : Nat,
   heartbeatElapsed : Nat, Votes : VoteMaps, voters : SUBSET Nodes, Match : [Nodes -> Nat],
   committed : Nat, uncommitted : Nat, panic : Known]

(* Only its own vote was ever granted to a node, as votes are answered     *)
(* with refusals; the configuration is one of the two; a leader is in its  *)
(* own lease.                                                              *)
InstOK(s) ==
  /\ s \in Instance
  /\ \A i \in DOMAIN s.Votes : s.Votes[i] => i = s.id
  /\ s.voters = Nodes \/ (s.id = Sole /\ s.voters = {Sole})
  /\ s.state = Leader => s.lead = s.id /\ s.electionElapsed < ElectionTimeout

(* A message has the fields its handler reads, and a vote message carries  *)
(* a term.                                                                 *)
MsgOK(m) ==
  /\ m = Msg(m.type, m.from, m.to, m.fields)
  /\ m.from \in Nodes /\ m.to \in Nodes
  /\ m.type = "MsgVote" => m.fields.term \in Nat \ {0} /\ m.from # m.to
  /\ m.type = "MsgVoteResp" => m.fields.term \in Nat \ {0} /\ m.fields.reject
  /\ m.type = "MsgApp" => m.fields.index \in Nat /\ m.fields.n \in Nat /\ m.fields.commit \in Nat
  /\ m.type = "MsgHeartbeat" => m.fields.commit \in Nat
  /\ m.type = "MsgAppResp" => m.fields.index \in Nat

(* Not part of a transfer of leadership. *)
Calm(m) == /\ m.type \notin {"MsgTransferLeader", "MsgTimeoutNow"}
           /\ m.type = "MsgVote" => ~m.fields.transfer

(* The parts of the inductive invariant that relate instances, messages    *)
(* and the history: a node that asked for votes does not lead, and cannot  *)
(* be elected any more.                                                    *)
LeadersOK == \A n \in Nodes : r[n].state = Leader => n \in reigned

Outvoted(n) == r[n].state # Leader /\ r[n].voters # {n}

NetworkOK ==
  \A m \in msgs :
    /\ MsgOK(m)
    /\ m.type \in {"MsgApp", "MsgHeartbeat"} => m.from \in reigned
    /\ m.type = "MsgVote" => Outvoted(m.from)
    /\ m.type = "MsgVoteResp" => Outvoted(m.to)

CalmOK ==
  transfers = 0 => /\ \A n \in Nodes : r[n].leadTransferee = None
                   /\ \A m \in msgs : Calm(m)

IInv ==
  /\ r \in [Nodes -> Instance] /\ transfers \in Nat
  /\ \A n \in Nodes : InstOK(r[n]) /\ r[n].id = n
  /\ LeadersOK /\ LeadHasReigned /\ NetworkOK /\ CalmOK

----------------------------------------------------------------------------
(* Instances and messages.                                                 *)

\* The constants as the steps use them.
LEMMA Constants ==
  /\ IsFiniteSet(Nodes) /\ Sole \in Nodes /\ None \notin Nodes
  /\ ElectionTimeout \in Nat /\ ElectionTimeout > 0
  BY NodesAssumption, TimeoutAssumption DEF validate

\* The log of an instance has a length.
LEMMA LastIndexType == ASSUME NEW s, s \in Instance PROVE lastIndex(s) \in Nat
<1>1. s.id \in Nodes
  BY DEF Instance
<1>2. Log[s.id] \in Seq(Nat)
  BY <1>1, NodesAssumption
<1> QED
  BY <1>2 DEF lastIndex

\* The fields that elections and transfers are about are the same.
Same(s, u) ==
  /\ u.id = s.id /\ u.Term = s.Term /\ u.Vote = s.Vote /\ u.state = s.state /\ u.lead = s.lead
  /\ u.leadTransferee = s.leadTransferee /\ u.voters = s.voters /\ u.Votes = s.Votes

\* An instance that differs in other fields only, and is in its lease if it
\* leads, is sound.
LEMMA SameOK ==
  ASSUME NEW s, InstOK(s), NEW u, u \in Instance, Same(s, u),
         s.state = Leader => u.electionElapsed < ElectionTimeout
  PROVE  InstOK(u)
  BY DEF InstOK, Same

\* commitTo moves the commit index only, or panics.
LEMMA CommitToOK ==
  ASSUME NEW s, InstOK(s), NEW c \in Nat
  PROVE  InstOK(commitTo(s, c)) /\ Same(s, commitTo(s, c)) /\ commitTo(s, c).Match = s.Match
<1> DEFINE u == commitTo(s, c)
<1>1. s \in Instance
  BY DEF InstOK
<1>2. /\ u \in Instance /\ Same(s, u) /\ u.electionElapsed = s.electionElapsed /\ u.Match = s.Match
  BY <1>1 DEF commitTo, Panicked, Instance, Same, Known
<1> HIDE DEF u
<1>3. InstOK(u)
  BY <1>2, SameOK DEF InstOK
<1> QED
  BY <1>2, <1>3 DEF u

\* reset forgets a vote with its term only.
LEMMA ResetOK ==
  ASSUME NEW s, s \in Instance, NEW t \in Nat
  PROVE  LET u == reset(s, t)
         IN  /\ u \in Instance /\ u.id = s.id /\ u.voters = s.voters /\ u.Term = t
             /\ u.lead = None /\ u.leadTransferee = None /\ u.electionElapsed = 0
             /\ u.state = s.state /\ u.panic = s.panic /\ u.Votes = s.Votes /\ u.Match = s.Match
             /\ s.Term = t => u.Vote = s.Vote
<1>1. None \in Nodes \cup {None} /\ 0 \in Nat
  OBVIOUS
<1> QED
  BY <1>1 DEF reset, Instance

\* becomeFollower, for any term.
LEMMA FollowerOK ==
  ASSUME NEW s, InstOK(s), NEW t \in Nat, NEW lead \in Nodes \cup {None}
  PROVE  LET u == becomeFollower(s, t, lead)
         IN  /\ InstOK(u) /\ u.id = s.id /\ u.voters = s.voters /\ u.Term = t /\ u.lead = lead
             /\ u.state = Follower /\ u.leadTransferee = None /\ u.panic = s.panic
             /\ s.Term = t => u.Vote = s.Vote
<1> DEFINE u == becomeFollower(s, t, lead)
<1>1. s \in Instance /\ None \in Nodes \cup {None} /\ 0 \in Nat
  BY DEF InstOK
<1>2. /\ u \in Instance /\ u.id = s.id /\ u.voters = s.voters /\ u.Term = t /\ u.lead = lead
      /\ u.state = Follower /\ u.leadTransferee = None /\ u.panic = s.panic /\ u.Votes = s.Votes
      /\ s.Term = t => u.Vote = s.Vote
  BY <1>1 DEF becomeFollower, reset, Instance
<1> HIDE DEF u
<1>3. InstOK(u)
  BY <1>2 DEF InstOK, Follower, Leader
<1> QED
  BY <1>2, <1>3 DEF u

\* A node becomes leader with a lease of its own; from Follower it panics.
LEMMA LeaderOK ==
  ASSUME NEW s, InstOK(s)
  PROVE  LET u == becomeLeader(s)
         IN  /\ InstOK(u) /\ u.id = s.id /\ u.voters = s.voters /\ u.Term = s.Term
             /\ u.Vote = s.Vote /\ u.Match = s.Match /\ u.Votes = s.Votes
             /\ IF s.state = Follower
                THEN u.state = Follower /\ u.lead = s.lead /\ u.leadTransferee = s.leadTransferee
                ELSE u.state = Leader /\ u.lead = s.id /\ u.leadTransferee = None
<1> DEFINE u == becomeLeader(s)
<1>1. s \in Instance /\ None \in Nodes \cup {None} /\ 0 \in Nat /\ s.id \in Nodes \cup {None}
  BY DEF InstOK, Instance
<1>2. CASE s.state = Follower
  <2>1. u = Panicked(s, "follower -> leader")
    BY <1>2 DEF becomeLeader
  <2>2. /\ u \in Instance /\ Same(s, u) /\ u.Match = s.Match
        /\ u.electionElapsed = s.electionElapsed
    BY <1>1, <2>1 DEF Panicked, Instance, Same, Known
  <2> HIDE DEF u
  <2>3. InstOK(u)
    BY <2>2, SameOK DEF InstOK
  <2> QED
    BY <1>2, <2>2, <2>3 DEF u, Same
<1>3. CASE s.state # Follower
  <2>1. u = [reset(s, s.Term) EXCEPT !.lead = s.id, !.state = Leader]
    BY <1>3 DEF becomeLeader
  <2> DEFINE w == reset(s, s.Term)
  <2>2. /\ w \in Instance /\ w.id = s.id /\ w.voters = s.voters /\ w.Term = s.Term
        /\ w.Vote = s.Vote /\ w.Match = s.Match /\ w.Votes = s.Votes
        /\ w.leadTransferee = None /\ w.electionElapsed = 0
    <3>1. s.Term \in Nat
      BY <1>1 DEF Instance
    <3> QED
      BY <1>1, <3>1, ResetOK
  <2> HIDE DEF w
  <2>3. /\ u \in Instance /\ u.id = s.id /\ u.voters = s.voters /\ u.Term = s.Term
        /\ u.Vote = s.Vote /\ u.Match = s.Match /\ u.Votes = s.Votes
        /\ u.state = Leader /\ u.lead = s.id /\ u.leadTransferee = None /\ u.electionElapsed = 0
    <3>1. u = [w EXCEPT !.lead = s.id, !.state = Leader]
      BY <2>1 DEF w
    <3> HIDE DEF u
    <3> QED
      BY <1>1, <2>2, <3>1 DEF Instance
  <2> HIDE DEF u
  <2>4. InstOK(u)
    BY <2>3, Constants DEF InstOK
  <2> QED
    BY <1>3, <2>3, <2>4 DEF u
<1> QED
  BY <1>2, <1>3

\* becomeCandidate of a node that does not lead.
LEMMA CandidateOK ==
  ASSUME NEW s, InstOK(s), s.state # Leader
  PROVE  LET u == becomeCandidate(s)
         IN  /\ InstOK(u) /\ u.id = s.id /\ u.voters = s.voters /\ u.Term = s.Term + 1
             /\ u.state = Candidate /\ u.lead = None /\ u.leadTransferee = None /\ u.panic = s.panic
<1> DEFINE u == becomeCandidate(s)
<1>1. s \in Instance /\ None \in Nodes \cup {None} /\ 0 \in Nat /\ s.id \in Nodes \cup {None}
      /\ s.Term + 1 \in Nat
  BY DEF InstOK, Instance
<1>2. u = [reset(s, s.Term + 1) EXCEPT !.Vote = s.id, !.state = Candidate]
  BY DEF becomeCandidate
<1> DEFINE w == reset(s, s.Term + 1)
<1>5. /\ w \in Instance /\ w.id = s.id /\ w.voters = s.voters /\ w.Term = s.Term + 1
      /\ w.lead = None /\ w.leadTransferee = None /\ w.Votes = s.Votes /\ w.panic = s.panic
  BY <1>1, ResetOK
<1>6. u = [w EXCEPT !.Vote = s.id, !.state = Candidate]
  BY <1>2
<1> HIDE DEF w, u
<1>3. /\ u \in Instance /\ u.id = s.id /\ u.voters = s.voters /\ u.Term = s.Term + 1
      /\ u.state = Candidate /\ u.lead = None /\ u.leadTransferee = None /\ u.Votes = s.Votes
      /\ u.panic = s.panic
  BY <1>1, <1>5, <1>6 DEF Instance
<1>4. InstOK(u)
  BY <1>3 DEF InstOK, Candidate, Leader
<1> QED
  BY <1>3, <1>4 DEF u

\* A vote that is recorded is the node's own, or a refusal.
LEMMA PollOK ==
  ASSUME NEW s, InstOK(s), NEW id \in Nodes, NEW v \in BOOLEAN, v => id = s.id
  PROVE  /\ InstOK(poll(s, id, v)) /\ poll(s, id, v).panic = s.panic /\ poll(s, id, v).Term = s.Term
         /\ poll(s, id, v).id = s.id /\ poll(s, id, v).Vote = s.Vote
         /\ poll(s, id, v).state = s.state /\ poll(s, id, v).lead = s.lead
         /\ poll(s, id, v).leadTransferee = s.leadTransferee
         /\ poll(s, id, v).voters = s.voters /\ poll(s, id, v).Match = s.Match
<1> DEFINE u == poll(s, id, v)
           D == DOMAIN s.Votes
           V == [i \in D \cup {id} |-> IF i \in D THEN s.Votes[i] ELSE v]
<1>1. s \in Instance /\ s.Votes \in VoteMaps
  BY DEF InstOK, Instance
<1>2. D \in SUBSET Nodes /\ s.Votes \in [D -> BOOLEAN]
  BY <1>1 DEF VoteMaps
<1>3. u = [s EXCEPT !.Votes = V]
  BY DEF poll
<1>4. V \in [D \cup {id} -> BOOLEAN] /\ D \cup {id} \in SUBSET Nodes
  BY <1>2
<1>5. V \in VoteMaps
  BY <1>4 DEF VoteMaps
<1>6. \A i \in DOMAIN V : V[i] => i = s.id
  BY DEF InstOK
<1> HIDE DEF V
<1>7. /\ u \in Instance /\ u.Votes = V /\ u.panic = s.panic /\ u.Term = s.Term /\ u.id = s.id
      /\ u.Vote = s.Vote /\ u.state = s.state /\ u.lead = s.lead
      /\ u.leadTransferee = s.leadTransferee /\ u.voters = s.voters /\ u.Match = s.Match
      /\ u.electionElapsed = s.electionElapsed
  BY <1>1, <1>3, <1>5 DEF Instance
<1> HIDE DEF u
<1>8. InstOK(u)
  BY <1>6, <1>7 DEF InstOK
<1> QED
  BY <1>7, <1>8 DEF u

----------------------------------------------------------------------------
(* Quorums.                                                                *)

\* Nobody wins an election but the sole voter of its configuration: of all
\* votes only its own is a yes.
LEMMA WonAlone ==
  ASSUME NEW s, InstOK(s), VoteResult(s) = "VoteWon"
  PROVE  s.voters = {s.id}
<1> DEFINE V == s.voters
           yes == Quorum(s.voters)!Yes(V, s.Votes)
<1>1. /\ s.id \in Nodes /\ V \subseteq Nodes /\ V # {} /\ IsFiniteSet(V)
  BY Constants, FS_Subset DEF InstOK, Instance
<1>2. /\ Cardinality(yes) \in Nat /\ Cardinality(V) \in Nat
      /\ yes \subseteq {s.id} /\ Cardinality(yes) <= 1
  <2>1. yes \subseteq {s.id}
    BY DEF Quorum!Yes, InstOK
  <2>2. IsFiniteSet({s.id}) /\ Cardinality({s.id}) = 1
    BY FS_Singleton
  <2>3. IsFiniteSet(yes) /\ Cardinality(yes) <= 1
    BY <2>1, <2>2, FS_Subset
  <2> QED
    BY <1>1, <2>1, <2>3, FS_CardinalityType
<1>3. Quorum(s.voters)!MajorityVoteResult(V, s.Votes) = "VoteWon"
  BY <1>1 DEF VoteResult, Quorum!JointVoteResult, Quorum!MajorityVoteResult, Quorum!VoteWon,
              Quorum!VoteLost, Quorum!VotePending
<1>4. \A S : Quorum(s.voters)!Cardinality(S) = Cardinality(S)
  BY DEF Quorum!Cardinality, Cardinality
<1>5. Cardinality(yes) >= Cardinality(V) \div 2 + 1
  <2>1. Quorum(s.voters)!Cardinality(yes) >= Quorum(s.voters)!Cardinality(V) \div 2 + 1
    BY <1>1, <1>3 DEF Quorum!MajorityVoteResult, Quorum!VoteWon, Quorum!VoteLost,
                      Quorum!VotePending
  <2> QED
    BY <1>4, <2>1
<1>6. Cardinality(V) <= 1
  <2> HIDE DEF V, yes
  <2> QED
    BY <1>2, <1>5
<1>7. PICK w \in V : TRUE
  BY <1>1
<1>8. Cardinality(V \ {w}) = 0 /\ IsFiniteSet(V \ {w})
  <2>1. Cardinality(V \ {w}) = Cardinality(V) - 1 /\ IsFiniteSet(V \ {w})
    BY <1>1, <1>7, FS_RemoveElement
  <2>2. Cardinality(V \ {w}) \in Nat
    BY <2>1, FS_CardinalityType
  <2> QED
    BY <1>2, <1>6, <2>1, <2>2
<1>9. V = {w}
  BY <1>7, <1>8, FS_EmptySet
<1> QED
  BY <1>1, <1>9 DEF InstOK

\* The index that CommittedIndex takes is one that some voter acknowledged.
LEMMA CommittedType ==
  ASSUME NEW s, InstOK(s), NEW i \in Committed(s)
  PROVE  i \in Nat
<1> DEFINE f == [v \in s.voters |-> s.Match[v]]
<1>1. \/ i \in Quorum(s.voters)!MajorityCommitted(s.voters, f)
      \/ i \in Quorum(s.voters)!MajorityCommitted({}, f)
  BY DEF Committed, Quorum!JointCommitted
<1>2. i = 0 \/ i = 2 ^ 30 \/ i \in {f[id] : id \in s.voters \cap DOMAIN f}
  BY <1>1 DEF Quorum!MajorityCommitted, Quorum!MaxUint64
<1>3. \A v \in s.voters : s.Match[v] \in Nat
  BY DEF InstOK, Instance
<1>4. \A v \in s.voters : f[v] = s.Match[v]
  OBVIOUS
<1> HIDE DEF f
<1> QED
  BY <1>2, <1>3, <1>4

\* maybeCommit, whichever index CommittedIndex returns.
LEMMA MaybeCommitOK ==
  ASSUME NEW s, InstOK(s), NEW c \in maybeCommit(s)
  PROVE  InstOK(c) /\ Same(s, c) /\ c.Match = s.Match
<1>1. c = s \/ \E i \in Committed(s) : c = commitTo(s, i)
  BY DEF maybeCommit
<1>2. Same(s, s)
  BY DEF Same
<1> QED
  BY <1>1, <1>2, CommittedType, CommitToOK

----------------------------------------------------------------------------
(* Messages that a leader sends.                                           *)

\* What a message o that instance s sends may be, when s has become t by
\* handling m.
OutOK(s, m, t, o) ==
  /\ MsgOK(o)
  /\ o.type \in {"MsgApp", "MsgHeartbeat"} => o.from = s.id /\ t.state = Leader
  /\ o.type = "MsgVote" => o.from = s.id /\ t.state # Leader /\ s.voters # {s.id}
  /\ o.type = "MsgVoteResp" => m.type = "MsgVote" /\ o.to = m.from

\* Messages of the leader's handlers that are not about votes.
Plain(s, o) == /\ MsgOK(o) /\ o.type \in {"MsgApp", "MsgHeartbeat", "MsgAppResp", "MsgHeartbeatResp"}
               /\ o.from = s.id

\* sendAppend sends a sound MsgApp.
LEMMA SendAppendOK ==
  ASSUME NEW s, InstOK(s), NEW to \in Nodes, NEW o \in sendAppend(s, to)
  PROVE  Plain(s, o)
<1>1. /\ s.id \in Nodes /\ s.Match[to] \in Nat /\ s.committed \in Nat /\ lastIndex(s) \in Nat
  BY LastIndexType DEF InstOK, Instance
<1>2. PICK i \in s.Match[to] .. lastIndex(s) :
         o = Msg("MsgApp", s.id, to, [index |-> i, logTerm |-> term(s, i), n |-> lastIndex(s) - i,
                                      commit |-> s.committed])
  BY DEF sendAppend
<1>3. i \in Nat /\ lastIndex(s) - i \in Nat
  BY <1>1, <1>2
<1>4. /\ o.type = "MsgApp" /\ o.from = s.id /\ o.to = to /\ o = Msg(o.type, o.from, o.to, o.fields)
      /\ o.fields.index = i /\ o.fields.n = lastIndex(s) - i /\ o.fields.commit = s.committed
  BY <1>2 DEF Msg
<1> QED
  BY <1>1, <1>3, <1>4 DEF Plain, MsgOK

\* So does bcastAppend to each peer.
LEMMA BcastAppendOK ==
  ASSUME NEW s, InstOK(s), NEW o \in bcastAppend(s)
  PROVE  Plain(s, o)
<1>1. s.voters \subseteq Nodes
  BY DEF InstOK, Instance
<1> QED
  BY <1>1, SendAppendOK DEF bcastAppend

\* bcastHeartbeat sends sound MsgHeartbeats.
LEMMA BcastHeartbeatOK ==
  ASSUME NEW s, InstOK(s), NEW o \in bcastHeartbeat(s)
  PROVE  Plain(s, o)
<1>1. s.id \in Nodes /\ s.voters \subseteq Nodes /\ s.Match \in [Nodes -> Nat] /\ s.committed \in Nat
  BY DEF InstOK, Instance
<1>2. PICK v \in s.voters : o = Msg("MsgHeartbeat", s.id, v, [commit |-> Min(s.Match[v], s.committed)])
  BY DEF bcastHeartbeat
<1>3. Min(s.Match[v], s.committed) \in Nat
  BY <1>1, <1>2 DEF Min
<1>4. /\ o.type = "MsgHeartbeat" /\ o.from = s.id /\ o.to = v /\ o = Msg(o.type, o.from, o.to, o.fields)
      /\ o.fields.commit = Min(s.Match[v], s.committed)
  BY <1>2 DEF Msg
<1> QED
  BY <1>1, <1>2, <1>3, <1>4 DEF Plain, MsgOK

\* The answer to a MsgApp.
LEMMA AppRespOK ==
  ASSUME NEW s, InstOK(s), NEW to \in Nodes, NEW index \in Nat, NEW reject,
         NEW o \in AppResp(s, to, index, reject)
  PROVE  Plain(s, o) /\ o.type = "MsgAppResp"
<1>1. s.id \in Nodes
  BY DEF InstOK, Instance
<1>2. /\ o.type = "MsgAppResp" /\ o.from = s.id /\ o.to = to /\ o = Msg(o.type, o.from, o.to, o.fields)
      /\ o.fields.index = index
  BY DEF AppResp, Msg
<1> QED
  BY <1>1, <1>2 DEF Plain, MsgOK

\* The answer to a MsgHeartbeat.
LEMMA HeartbeatRespOK ==
  ASSUME NEW s, InstOK(s), NEW to \in Nodes, NEW o, o = Msg("MsgHeartbeatResp", s.id, to, <<>>)
  PROVE  Plain(s, o) /\ o.type = "MsgHeartbeatResp"
<1>1. s.id \in Nodes
  BY DEF InstOK, Instance
<1>2. o.type = "MsgHeartbeatResp" /\ o.from = s.id /\ o.to = to /\ o = Msg(o.type, o.from, o.to, o.fields)
  BY DEF Msg
<1> QED
  BY <1>1, <1>2 DEF Plain, MsgOK

\* The message that makes a transferee stand.
LEMMA TimeoutNowOK ==
  ASSUME NEW s, InstOK(s), NEW to \in Nodes, NEW o \in sendTimeoutNow(s, to)
  PROVE  MsgOK(o) /\ o.type = "MsgTimeoutNow"
<1>1. s.id \in Nodes
  BY DEF InstOK, Instance
<1>2. o.type = "MsgTimeoutNow" /\ o.from = s.id /\ o.to = to /\ o = Msg(o.type, o.from, o.to, o.fields)
  BY DEF sendTimeoutNow, Msg
<1> QED
  BY <1>1, <1>2 DEF MsgOK

\* What campaign sends carries a term and goes to other voters only.
LEMMA VoteRequestsOK ==
  ASSUME NEW s, InstOK(s), s.Term > 0, NEW transfer, NEW o \in VoteRequests(s, transfer)
  PROVE  /\ MsgOK(o) /\ o.type = "MsgVote" /\ o.from = s.id /\ s.voters # {s.id}
         /\ o.fields.transfer = transfer
<1>1. s.id \in Nodes /\ s.voters \subseteq Nodes /\ s.Term \in Nat \ {0}
  BY DEF InstOK, Instance
<1>2. PICK v \in s.voters \ {s.id} :
        o = Msg("MsgVote", s.id, v, [term |-> s.Term, index |-> lastIndex(s), logTerm |-> lastTerm(s),
                                     transfer |-> transfer])
  BY DEF VoteRequests
<1>3. /\ o.type = "MsgVote" /\ o.from = s.id /\ o.to = v /\ o = Msg(o.type, o.from, o.to, o.fields)
      /\ o.fields.term = s.Term /\ o.fields.transfer = transfer
  BY <1>2 DEF Msg
<1> QED
  BY <1>1, <1>2, <1>3 DEF MsgOK

----------------------------------------------------------------------------
(* What a handler may do: from instance s, by message m, to result d.      *)

\* Whoever becomes leader is the sole voter; a vote stays within its term; a
\* node takes for its leader nobody new but the sender of a leader's message.
Moved(s, m, t) ==
  /\ InstOK(t) /\ t.id = s.id /\ t.voters = s.voters
  /\ t.state = Leader => s.state = Leader \/ s.voters = {s.id}
  /\ s.Vote # None /\ t.Term = s.Term => t.Vote = s.Vote
  /\ \/ t.lead \in {None, s.lead} \/ (t.lead = s.id /\ t.state = Leader)
     \/ (t.lead = m.from /\ m.type \in {"MsgApp", "MsgHeartbeat"})

\* Without a transfer under way none begins, and a leader goes on in its lease.
Calmly(s, m, d) ==
  s.leadTransferee = None /\ Calm(m) => d.s.leadTransferee = None /\ \A o \in d.out : Calm(o)

Undisturbed(s, m, t) ==
  /\ s.state = Leader /\ checkQuorum /\ m.type # "MsgVoteResp"
  /\ m.type = "MsgVote" => ~m.fields.transfer
  => t.state = Leader

Good(s, m, d) ==
  /\ Moved(s, m, d.s) /\ \A o \in d.out : OutOK(s, m, d.s, o)
  /\ Calmly(s, m, d) /\ Undisturbed(s, m, d.s)

\* A result that leaves alone what elections and transfers are about, and sends
\* only what a node in its state sends.
LEMMA GoodSame ==
  ASSUME NEW s, InstOK(s), NEW m, NEW t, InstOK(t), Same(s, t), NEW out,
         \A o \in out : /\ Plain(s, o)
                        /\ o.type \in {"MsgApp", "MsgHeartbeat"} => s.state = Leader
  PROVE  Good(s, m, Done(t, out))
<1> DEFINE d == Done(t, out)
<1>1. d.s = t /\ d.out = out
  BY DEF Done
<1> HIDE DEF d
<1>2. Moved(s, m, t) /\ Undisturbed(s, m, t)
  BY DEF Moved, Undisturbed, Same
<1>3. \A o \in out : OutOK(s, m, t, o) /\ Calm(o)
  BY DEF Plain, OutOK, Same, Calm
<1>4. Calmly(s, m, d)
  BY <1>1, <1>3 DEF Calmly, Same
<1> QED
  BY <1>1, <1>2, <1>3, <1>4 DEF Good, d

\* Nothing happens.
LEMMA GoodNothing == ASSUME NEW s, InstOK(s), NEW m PROVE Good(s, m, Done(s, {}))
<1>1. Same(s, s)
  BY DEF Same
<1> QED
  BY <1>1, GoodSame

----------------------------------------------------------------------------
(* Campaigns.                                                              *)

\* campaign(campaignElection), also from Follower, where it panics.
LEMMA CampaignElectionGood ==
  ASSUME NEW s, InstOK(s), s.state # Leader, NEW m
  PROVE  Good(s, m, campaignElection(s)) /\ campaignElection(s).out = {}
<1> DEFINE p == poll(s, s.id, TRUE)
           d == campaignElection(s)
           l == becomeLeader(p)
           q == Panicked(p, "prevote")
<1>1. s.id \in Nodes
  BY DEF InstOK, Instance
<1>2. /\ InstOK(p) /\ p.Term = s.Term /\ p.id = s.id /\ p.Vote = s.Vote /\ p.state = s.state
      /\ p.lead = s.lead /\ p.leadTransferee = s.leadTransferee /\ p.voters = s.voters
  BY <1>1, PollOK
<1>3. (d = Done(l, {}) /\ VoteResult(p) = "VoteWon") \/ d = Done(q, {})
  BY DEF campaignElection
<1> HIDE DEF p
<1>4. /\ InstOK(l) /\ l.id = p.id /\ l.voters = p.voters /\ l.Term = p.Term /\ l.Vote = p.Vote
      /\ IF p.state = Follower
         THEN l.state = Follower /\ l.lead = p.lead /\ l.leadTransferee = p.leadTransferee
         ELSE l.state = Leader /\ l.lead = p.id /\ l.leadTransferee = None
  BY <1>2, LeaderOK
<1>5. /\ InstOK(q) /\ Same(p, q)
  <2>1. p \in Instance
    BY <1>2 DEF InstOK
  <2>2. q \in Instance /\ Same(p, q) /\ q.electionElapsed = p.electionElapsed
    BY <2>1 DEF Panicked, Instance, Same, Known
  <2> HIDE DEF q
  <2> QED
    BY <1>2, <2>2, SameOK DEF InstOK
<1> HIDE DEF l, q, d
<1>6. CASE d = Done(l, {}) /\ VoteResult(p) = "VoteWon"
  <2>1. d.s = l /\ d.out = {}
    BY <1>6 DEF Done
  <2>2. p.voters = {p.id}
    BY <1>2, <1>6, WonAlone
  <2>3. Moved(s, m, l)
    BY <1>2, <1>4, <2>2 DEF Moved, Follower, Leader
  <2>4. Calmly(s, m, d) /\ Undisturbed(s, m, l)
    BY <1>2, <1>4, <2>1 DEF Calmly, Undisturbed
  <2> QED
    BY <2>1, <2>3, <2>4 DEF Good, d
<1>7. CASE d = Done(q, {})
  <2>1. d.s = q /\ d.out = {}
    BY <1>7 DEF Done
  <2>2. Moved(s, m, q)
    BY <1>2, <1>5 DEF Moved, Same
  <2>3. Calmly(s, m, d) /\ Undisturbed(s, m, q)
    BY <1>2, <1>5, <2>1 DEF Calmly, Undisturbed, Same
  <2> QED
    BY <2>1, <2>2, <2>3 DEF Good, d
<1> QED
  BY <1>3, <1>6, <1>7

\* campaign with real votes, for a transfer or not; only a transfer says so.
LEMMA CampaignGood ==
  ASSUME NEW s, InstOK(s), s.state # Leader, NEW m, NEW transfer \in BOOLEAN,
         transfer => m.type = "MsgTimeoutNow"
  PROVE  Good(s, m, campaign(s, transfer))
<1> DEFINE c == becomeCandidate(s)
           p == poll(c, s.id, TRUE)
           l == becomeLeader(p)
           d == campaign(s, transfer)
<1>1. s.id \in Nodes /\ s.Term \in Nat
  BY DEF InstOK, Instance
<1>2. /\ InstOK(c) /\ c.id = s.id /\ c.voters = s.voters /\ c.Term = s.Term + 1
      /\ c.state = Candidate /\ c.lead = None /\ c.leadTransferee = None
  BY CandidateOK
<1> HIDE DEF c
<1>3. /\ InstOK(p) /\ p.Term = s.Term + 1 /\ p.id = s.id /\ p.state = Candidate
      /\ p.lead = None /\ p.leadTransferee = None /\ p.voters = s.voters
  BY <1>1, <1>2, PollOK
<1>4. \/ d = Done(c, {})
      \/ d = Done(p, VoteRequests(p, transfer))
      \/ VoteResult(p) = "VoteWon" /\ d = Done(l, {})
      \/ VoteResult(p) = "VoteWon" /\ d = campaignElection(p)
  BY DEF campaign, c
<1> HIDE DEF p
<1>5. /\ InstOK(l) /\ l.id = p.id /\ l.voters = p.voters /\ l.Term = p.Term
      /\ l.state = Leader /\ l.lead = p.id /\ l.leadTransferee = None
  BY <1>3, LeaderOK DEF Candidate, Follower
<1> HIDE DEF l, d
<1>6. ASSUME NEW t, InstOK(t), t.id = s.id, t.voters = s.voters, t.Term = s.Term + 1,
             t.lead = None \/ (t.lead = s.id /\ t.state = Leader),
             t.state = Leader => s.voters = {s.id}
      PROVE  Moved(s, m, t) /\ Undisturbed(s, m, t)
  BY <1>1, <1>6 DEF Moved, Undisturbed
<1>7. CASE d = Done(c, {})
  <2>1. d.s = c /\ d.out = {}
    BY <1>7 DEF Done
  <2>2. Moved(s, m, c) /\ Undisturbed(s, m, c)
    BY <1>2, <1>6 DEF Candidate, Leader
  <2> QED
    BY <1>2, <2>1, <2>2 DEF Good, Calmly, d
<1>8. CASE d = Done(p, VoteRequests(p, transfer))
  <2>1. d.s = p /\ d.out = VoteRequests(p, transfer)
    BY <1>8 DEF Done
  <2>2. Moved(s, m, p) /\ Undisturbed(s, m, p)
    BY <1>3, <1>6 DEF Candidate, Leader
  <2>3. \A o \in VoteRequests(p, transfer) :
           /\ MsgOK(o) /\ o.type = "MsgVote" /\ o.from = p.id /\ p.voters # {p.id}
           /\ o.fields.transfer = transfer
    BY <1>1, <1>3, VoteRequestsOK
  <2>4. \A o \in d.out : OutOK(s, m, p, o)
    BY <1>3, <2>1, <2>3 DEF OutOK, Candidate, Leader
  <2>5. Calmly(s, m, d)
    BY <1>3, <2>1, <2>3 DEF Calmly, Calm
  <2> QED
    BY <2>1, <2>2, <2>4, <2>5 DEF Good, d
<1>9. CASE VoteResult(p) = "VoteWon" /\ d = Done(l, {})
  <2>1. d.s = l /\ d.out = {}
    BY <1>9 DEF Done
  <2>2. s.voters = {s.id}
    BY <1>3, <1>9, WonAlone
  <2>3. Moved(s, m, l) /\ Undisturbed(s, m, l)
    BY <1>3, <1>5, <1>6, <2>2
  <2> QED
    BY <1>5, <2>1, <2>3 DEF Good, Calmly, d
<1>10. CASE VoteResult(p) = "VoteWon" /\ d = campaignElection(p)
  <2>1. s.voters = {s.id}
    BY <1>3, <1>10, WonAlone
  <2>2. Good(p, m, d) /\ d.out = {}
    BY <1>3, <1>10, CampaignElectionGood DEF Candidate, Leader
  <2>3. campaignElection(p).s.Term = p.Term
    <3> DEFINE q == poll(p, p.id, TRUE)
               k == becomeLeader(q)
    <3>1. InstOK(q) /\ q.Term = p.Term
      BY <1>1, <1>3, PollOK
    <3> HIDE DEF q
    <3>2. k.Term = q.Term
      BY <3>1, LeaderOK
    <3> HIDE DEF k
    <3>3. Panicked(q, "prevote").Term = q.Term
      BY <3>1 DEF Panicked, InstOK, Instance
    <3>4. campaignElection(p) = Done(k, {}) \/ campaignElection(p) = Done(Panicked(q, "prevote"), {})
      BY DEF campaignElection, q, k
    <3> QED
      BY <3>1, <3>2, <3>3, <3>4 DEF Done
  <2>4. Moved(s, m, d.s) /\ Undisturbed(s, m, d.s)
    <3>1. /\ InstOK(d.s) /\ d.s.id = s.id /\ d.s.voters = s.voters /\ d.s.Term = s.Term + 1
      BY <1>3, <1>10, <2>2, <2>3 DEF Good, Moved
    <3> QED
      BY <1>1, <1>3, <2>1, <2>2, <3>1 DEF Good, Moved, Undisturbed
  <2>5. Calmly(s, m, d)
    BY <1>3, <2>2 DEF Good, Calmly
  <2> QED
    BY <2>2, <2>4, <2>5 DEF Good, d
<1> QED
  BY <1>4, <1>7, <1>8, <1>9, <1>10 DEF d

\* hup: a leader never campaigns.
LEMMA HupGood ==
  ASSUME NEW s, InstOK(s), NEW m, NEW transfer \in BOOLEAN, transfer => m.type = "MsgTimeoutNow"
  PROVE  Good(s, m, hup(s, transfer))
  BY GoodNothing, CampaignGood, CampaignElectionGood DEF hup, mayCampaign

----------------------------------------------------------------------------
(* Handlers of a leader's messages.                                        *)

\* An answer goes out, and at most the commit index has moved.
Answers(s, d) == /\ InstOK(d.s) /\ Same(s, d.s)
                 /\ \A o \in d.out : Plain(s, o) /\ o.type \in {"MsgAppResp", "MsgHeartbeatResp"}

\* handleAppendEntries answers, and changes nothing but the commit index.
LEMMA HandleAppendEntries ==
  ASSUME NEW s, InstOK(s), NEW m, MsgOK(m), m.type = "MsgApp"
  PROVE  Answers(s, handleAppendEntries(s, m))
<1> DEFINE f == m.fields
           last == f.index + f.n
           c == commitTo(s, Min(f.commit, last))
           d == handleAppendEntries(s, m)
<1>1. /\ m.from \in Nodes /\ f.index \in Nat /\ last \in Nat /\ Min(f.commit, last) \in Nat
      /\ s.committed \in Nat
  BY DEF MsgOK, Min, InstOK, Instance
<1>2. InstOK(c) /\ Same(s, c) /\ Same(s, s)
  BY <1>1, CommitToOK DEF Same
<1>3. \/ d = Done(s, AppResp(s, m.from, s.committed, FALSE))
      \/ d = Done(s, AppResp(s, m.from, f.index, TRUE))
      \/ d = Done(c, AppResp(s, m.from, last, FALSE))
      \/ d = Done(c, {})
  BY DEF handleAppendEntries
<1> HIDE DEF c, d, last, f
<1>4. \A i \in Nat : \A b : \A o \in AppResp(s, m.from, i, b) : Plain(s, o) /\ o.type = "MsgAppResp"
  BY <1>1, AppRespOK
<1>5. (d.s = s \/ d.s = c) /\ \A o \in d.out : Plain(s, o) /\ o.type = "MsgAppResp"
  <2>1. ASSUME NEW t, NEW out, d = Done(t, out) PROVE d.s = t /\ d.out = out
    BY <2>1 DEF Done
  <2>2. CASE d = Done(s, AppResp(s, m.from, s.committed, FALSE))
    BY <1>1, <1>4, <2>1, <2>2
  <2>3. CASE d = Done(s, AppResp(s, m.from, f.index, TRUE))
    BY <1>1, <1>4, <2>1, <2>3
  <2>4. CASE d = Done(c, AppResp(s, m.from, last, FALSE))
    BY <1>1, <1>4, <2>1, <2>4
  <2>5. CASE d = Done(c, {})
    BY <2>1, <2>5
  <2> QED
    BY <1>3, <2>2, <2>3, <2>4, <2>5
<1> QED
  BY <1>2, <1>5 DEF Answers, d

\* handleHeartbeat likewise.
LEMMA HandleHeartbeat ==
  ASSUME NEW s, InstOK(s), NEW m, MsgOK(m), m.type = "MsgHeartbeat"
  PROVE  Answers(s, handleHeartbeat(s, m))
<1> DEFINE c == commitTo(s, m.fields.commit)
           a == Msg("MsgHeartbeatResp", s.id, m.from, <<>>)
           d == handleHeartbeat(s, m)
<1>1. m.from \in Nodes /\ m.fields.commit \in Nat
  BY DEF MsgOK
<1>2. InstOK(c) /\ Same(s, c)
  BY <1>1, CommitToOK
<1>3. Plain(s, a) /\ a.type = "MsgHeartbeatResp"
  BY <1>1, HeartbeatRespOK
<1>4. d = Done(c, {a}) \/ d = Done(c, {})
  BY DEF handleHeartbeat
<1> HIDE DEF a, c, d
<1>5. d.s = c /\ d.out \subseteq {a}
  BY <1>4 DEF Done
<1> QED
  BY <1>2, <1>3, <1>5 DEF Answers, d

----------------------------------------------------------------------------
(* stepLeader.                                                             *)

\* A proposal to a leader.
LEMMA LeaderPropGood ==
  ASSUME NEW s, InstOK(s), s.state = Leader, NEW m, NEW d \in leaderProp(s)
  PROVE  Good(s, m, d)
<1> DEFINE a == [s EXCEPT !.uncommitted = @ + 1, !.Match[s.id] = lastIndex(s)]
<1>1. s \in Instance /\ lastIndex(s) \in Nat
  BY LastIndexType DEF InstOK
<1> DEFINE M == [s.Match EXCEPT ![s.id] = lastIndex(s)]
<1>2. a \in Instance /\ Same(s, a) /\ a.electionElapsed = s.electionElapsed
  <2>1. s.Match \in [Nodes -> Nat] /\ s.id \in Nodes /\ s.uncommitted + 1 \in Nat
    BY <1>1 DEF Instance
  <2>2. M \in [Nodes -> Nat]
    BY <1>1, <2>1
  <2>3. a = [s EXCEPT !.uncommitted = s.uncommitted + 1, !.Match = M]
    BY <1>1 DEF Instance
  <2> HIDE DEF M, a
  <2> QED
    BY <1>1, <2>1, <2>2, <2>3 DEF Instance, Same
<1>3. d = Done(s, {}) \/ \E c \in maybeCommit(a) : d = Done(c, bcastAppend(c))
  BY DEF leaderProp, appendEntry
<1> HIDE DEF a
<1>4. InstOK(a)
  BY <1>2, SameOK DEF InstOK
<1>5. ASSUME NEW c \in maybeCommit(a), d = Done(c, bcastAppend(c)) PROVE Good(s, m, d)
  <2>1. InstOK(c) /\ Same(a, c)
    BY <1>4, MaybeCommitOK
  <2>2. Same(s, c)
    BY <1>2, <2>1 DEF Same
  <2>3. \A o \in bcastAppend(c) : Plain(c, o)
    BY <2>1, BcastAppendOK
  <2>4. \A o \in bcastAppend(c) : Plain(s, o)
    BY <2>2, <2>3 DEF Plain, Same
  <2> QED
    BY <1>5, <2>1, <2>2, <2>4, GoodSame
<1> QED
  BY <1>3, <1>5, GoodNothing

\* MsgAppResp: a message to end a transfer goes out only if one is under way.
LEMMA LeaderAppRespGood ==
  ASSUME NEW s, InstOK(s), s.state = Leader, NEW m, MsgOK(m), m.type = "MsgAppResp",
         NEW d \in leaderAppResp(s, m)
  PROVE  Good(s, m, d)
<1> DEFINE from == m.from
           upd == [s EXCEPT !.Match[from] = m.fields.index]
<1>1. s \in Instance /\ from \in Nodes /\ m.fields.index \in Nat
  BY DEF InstOK, MsgOK
<1>2. upd \in Instance /\ Same(s, upd) /\ upd.electionElapsed = s.electionElapsed
  BY <1>1 DEF Instance, Same
<1>3. \/ d = Done(s, sendAppend(s, from))
      \/ d = Done(s, {})
      \/ \E c \in maybeCommit(upd) :
            \E now \in BOOLEAN, more \in BOOLEAN :
               /\ now => from = c.leadTransferee
               /\ d = Done(c, (IF more THEN bcastAppend(c) ELSE sendAppend(c, from))
                              \cup (IF now THEN sendTimeoutNow(c, from) ELSE {}))
  BY DEF leaderAppResp
<1> HIDE DEF upd, from
<1>4. InstOK(upd)
  BY <1>2, SameOK DEF InstOK
<1>5. CASE d = Done(s, sendAppend(s, from))
  <2>1. \A o \in sendAppend(s, from) : Plain(s, o)
    BY <1>1, SendAppendOK
  <2>2. Same(s, s)
    BY DEF Same
  <2> QED
    BY <1>5, <2>1, <2>2, GoodSame
<1>6. ASSUME NEW c \in maybeCommit(upd), NEW now \in BOOLEAN, NEW more \in BOOLEAN,
             now => from = c.leadTransferee,
             d = Done(c, (IF more THEN bcastAppend(c) ELSE sendAppend(c, from))
                         \cup (IF now THEN sendTimeoutNow(c, from) ELSE {}))
      PROVE  Good(s, m, d)
  <2>1. InstOK(c) /\ Same(upd, c)
    BY <1>4, MaybeCommitOK
  <2>2. Same(s, c)
    BY <1>2, <2>1 DEF Same
  <2> DEFINE apps == IF more THEN bcastAppend(c) ELSE sendAppend(c, from)
             nows == IF now THEN sendTimeoutNow(c, from) ELSE {}
  <2>3. \A o \in apps : Plain(s, o)
    <3>1. \A o \in apps : Plain(c, o)
      BY <1>1, <2>1, BcastAppendOK, SendAppendOK
    <3> QED
      BY <2>2, <3>1 DEF Plain, Same
  <2>4. \A o \in nows : MsgOK(o) /\ o.type = "MsgTimeoutNow" /\ now
    BY <1>1, <2>1, TimeoutNowOK
  <2>5. d.s = c /\ d.out = apps \cup nows
    BY <1>6 DEF Done
  <2> HIDE DEF apps, nows
  <2>6. Moved(s, m, c) /\ Undisturbed(s, m, c)
    BY <2>1, <2>2 DEF Moved, Undisturbed, Same
  <2>7. \A o \in d.out : OutOK(s, m, c, o)
    BY <2>2, <2>3, <2>4, <2>5 DEF OutOK, Plain, Same
  <2>8. Calmly(s, m, d)
    <3>1. s.leadTransferee = None => ~now
      BY <1>1, <1>6, <2>2, Constants DEF Same
    <3>2. \A o \in apps : Calm(o)
      BY <2>3 DEF Plain, Calm
    <3> QED
      BY <2>2, <2>4, <2>5, <3>1, <3>2 DEF Calmly, Same
  <2> QED
    BY <2>5, <2>6, <2>7, <2>8 DEF Good
<1> QED
  BY <1>3, <1>5, <1>6, GoodNothing

\* A leader asked to transfer its leadership.
LEMMA LeaderTransferGood ==
  ASSUME NEW s, InstOK(s), s.state = Leader, NEW m, m.type = "MsgTransferLeader", NEW to \in Nodes
  PROVE  Good(s, m, leaderTransfer(s, to))
<1> DEFINE t == [s EXCEPT !.leadTransferee = to, !.electionElapsed = 0]
           e == [s EXCEPT !.leadTransferee = None]
           d == leaderTransfer(s, to)
<1>1. s \in Instance /\ None \in Nodes \cup {None}
  BY DEF InstOK
<1>2. /\ t \in Instance /\ t.id = s.id /\ t.voters = s.voters /\ t.state = s.state /\ t.lead = s.lead
      /\ t.Vote = s.Vote /\ t.Votes = s.Votes /\ t.electionElapsed = 0
      /\ e \in Instance /\ e.id = s.id /\ e.voters = s.voters /\ e.state = s.state /\ e.lead = s.lead
      /\ e.Vote = s.Vote /\ e.Votes = s.Votes /\ e.electionElapsed = s.electionElapsed
  BY <1>1 DEF Instance
<1>3. \/ d = Done(s, {}) \/ d = Done(e, {})
      \/ d = Done(t, sendTimeoutNow(s, to)) \/ d = Done(t, sendAppend(s, to))
  BY DEF leaderTransfer
<1> HIDE DEF t, e, d
<1>4. InstOK(t) /\ InstOK(e)
  BY <1>2, Constants DEF InstOK
<1>5. Moved(s, m, t) /\ Moved(s, m, e) /\ Undisturbed(s, m, t) /\ Undisturbed(s, m, e)
  BY <1>2, <1>4 DEF Moved, Undisturbed
<1>6. ~Calm(m)
  BY DEF Calm
<1>7. \A o \in sendTimeoutNow(s, to) : OutOK(s, m, t, o)
  BY TimeoutNowOK DEF OutOK
<1>8. \A o \in sendAppend(s, to) : OutOK(s, m, t, o)
  BY <1>2, SendAppendOK DEF OutOK, Plain
<1>9. CASE d = Done(e, {})
  <2>1. d.s = e /\ d.out = {}
    BY <1>9 DEF Done
  <2> QED
    BY <1>5, <1>6, <2>1 DEF Good, Calmly, d
<1>10. CASE d = Done(t, sendTimeoutNow(s, to)) \/ d = Done(t, sendAppend(s, to))
  <2>1. d.s = t /\ \A o \in d.out : OutOK(s, m, t, o)
    BY <1>7, <1>8, <1>10 DEF Done
  <2> QED
    BY <1>5, <1>6, <2>1 DEF Good, Calmly, d
<1>11. CASE d = Done(s, {})
  BY <1>11, GoodNothing DEF d
<1> QED
  BY <1>3, <1>9, <1>10, <1>11

\* stepLeader, for every type of message.
LEMMA StepLeaderGood ==
  ASSUME NEW s, InstOK(s), s.state = Leader, NEW m, MsgOK(m), NEW d \in stepLeader(s, m)
  PROVE  Good(s, m, d)
<1>1. m.from \in Nodes
  BY DEF MsgOK
<1>2. CASE m.type = "MsgProp"
  <2>1. d \in leaderProp(s)
    BY <1>2 DEF stepLeader
  <2> QED
    BY <2>1, LeaderPropGood
<1>3. CASE m.type # "MsgProp" /\ m.from \notin s.voters
  <2>1. d = Done(s, {})
    BY <1>3 DEF stepLeader
  <2> QED
    BY <2>1, GoodNothing
<1>4. CASE m.type = "MsgAppResp" /\ m.from \in s.voters
  <2>1. d \in leaderAppResp(s, m)
    BY <1>4 DEF stepLeader
  <2> QED
    BY <1>4, <2>1, LeaderAppRespGood
<1>5. CASE m.type = "MsgHeartbeatResp" /\ m.from \in s.voters
  <2>1. d = Done(s, sendAppend(s, m.from)) \/ d = Done(s, {})
    BY <1>5 DEF stepLeader
  <2>2. \A o \in sendAppend(s, m.from) : Plain(s, o)
    BY <1>1, SendAppendOK
  <2>3. Same(s, s)
    BY DEF Same
  <2> QED
    BY <2>1, <2>2, <2>3, GoodSame, GoodNothing
<1>6. CASE m.type = "MsgTransferLeader" /\ m.from \in s.voters
  <2>1. d = leaderTransfer(s, m.from)
    BY <1>6 DEF stepLeader
  <2> QED
    BY <1>1, <1>6, <2>1, LeaderTransferGood
<1>7. CASE /\ m.type \notin {"MsgProp", "MsgAppResp", "MsgHeartbeatResp", "MsgTransferLeader"}
           /\ m.from \in s.voters
  <2>1. d = Done(s, {})
    BY <1>7 DEF stepLeader
  <2> QED
    BY <2>1, GoodNothing
<1> QED
  BY <1>2, <1>3, <1>4, <1>5, <1>6, <1>7

----------------------------------------------------------------------------
(* stepCandidate and stepFollower.                                         *)

\* A node that does not lead answers a leader and takes it for its leader.
LEMMA AnswersGood ==
  ASSUME NEW s, InstOK(s), s.state # Leader, NEW m, m.type \in {"MsgApp", "MsgHeartbeat"},
         NEW u, InstOK(u), u.id = s.id, u.voters = s.voters, u.state = Follower,
         u.lead = m.from, s.leadTransferee = None => u.leadTransferee = None,
         s.Vote # None /\ u.Term = s.Term => u.Vote = s.Vote,
         NEW d, Answers(u, d)
  PROVE  Good(s, m, d)
<1>1. Moved(s, m, d.s) /\ Undisturbed(s, m, d.s)
  BY DEF Moved, Undisturbed, Answers, Same, Follower, Leader
<1>2. \A o \in d.out : OutOK(s, m, d.s, o) /\ Calm(o)
  BY DEF Answers, Plain, OutOK, Calm
<1> QED
  BY <1>1, <1>2 DEF Good, Calmly, Answers, Same

\* stepCandidate, for every type of message.
LEMMA StepCandidateGood ==
  ASSUME NEW s, InstOK(s), s.state = Candidate, NEW m, MsgOK(m), NEW d \in stepCandidate(s, m)
  PROVE  Good(s, m, d)
<1> DEFINE u == becomeFollower(s, 0, m.from)
<1>1. m.from \in Nodes /\ m.from \in Nodes \cup {None} /\ s.state # Leader /\ 0 \in Nat
  BY DEF MsgOK, Candidate, Leader
<1>2. /\ InstOK(u) /\ u.id = s.id /\ u.voters = s.voters /\ u.Term = 0 /\ u.lead = m.from
      /\ u.state = Follower /\ u.leadTransferee = None /\ (s.Term = 0 => u.Vote = s.Vote)
  BY <1>1, FollowerOK
<1>3. CASE m.type = "MsgApp"
  <2>1. d = handleAppendEntries(u, m)
    BY <1>3 DEF stepCandidate
  <2> HIDE DEF u
  <2>2. Answers(u, d)
    BY <1>2, <1>3, <2>1, HandleAppendEntries
  <2> QED
    BY <1>1, <1>2, <1>3, <2>2, AnswersGood
<1>4. CASE m.type = "MsgHeartbeat"
  <2>1. d = handleHeartbeat(u, m)
    BY <1>4 DEF stepCandidate
  <2> HIDE DEF u
  <2>2. Answers(u, d)
    BY <1>2, <1>4, <2>1, HandleHeartbeat
  <2> QED
    BY <1>1, <1>2, <1>4, <2>2, AnswersGood
<1>5. CASE m.type = "MsgVoteResp"
  <2> DEFINE p == poll(s, m.from, ~m.fields.reject)
             l == becomeLeader(p)
             g == becomeFollower(p, p.Term, None)
  <2>1. (~m.fields.reject) = FALSE
    BY <1>5 DEF MsgOK
  <2>2. /\ InstOK(p) /\ p.Term = s.Term /\ p.id = s.id /\ p.Vote = s.Vote /\ p.state = s.state
        /\ p.lead = s.lead /\ p.leadTransferee = s.leadTransferee /\ p.voters = s.voters
    <3> DEFINE q == poll(s, m.from, FALSE)
    <3>1. FALSE \in BOOLEAN /\ (FALSE => m.from = s.id)
      OBVIOUS
    <3>2. /\ InstOK(q) /\ q.Term = s.Term /\ q.id = s.id /\ q.Vote = s.Vote /\ q.state = s.state
          /\ q.lead = s.lead /\ q.leadTransferee = s.leadTransferee /\ q.voters = s.voters
      BY <1>1, <3>1, PollOK
    <3>3. p = q
      BY <2>1
    <3> HIDE DEF p, q
    <3> QED
      BY <3>2, <3>3
  <2>3. \/ VoteResult(p) = "VoteWon" /\ d = Done(l, bcastAppend(l))
        \/ d = Done(g, {})
        \/ d = Done(p, {})
    <3>1. d \in (CASE VoteResult(p) = "VoteWon" -> {Done(l, bcastAppend(l))}
                   [] VoteResult(p) = "VoteLost" -> {Done(g, {})}
                   [] OTHER -> {Done(p, {})})
      BY <1>5 DEF stepCandidate
    <3> HIDE DEF l, g, p
    <3> QED
      BY <3>1
  <2> HIDE DEF p
  <2>4. /\ InstOK(l) /\ l.id = p.id /\ l.voters = p.voters /\ l.Term = p.Term /\ l.Vote = p.Vote
        /\ l.state = Leader /\ l.lead = p.id /\ l.leadTransferee = None
    BY <2>2, LeaderOK DEF Candidate, Follower
  <2>5. /\ InstOK(g) /\ g.id = p.id /\ g.voters = p.voters /\ g.Term = p.Term /\ g.Vote = p.Vote
        /\ g.lead = None /\ g.state = Follower /\ g.leadTransferee = None
    <3>1. p.Term \in Nat
      BY <2>2 DEF InstOK, Instance
    <3> QED
      BY <2>2, <3>1, FollowerOK
  <2> HIDE DEF l, g
  <2>6. CASE VoteResult(p) = "VoteWon" /\ d = Done(l, bcastAppend(l))
    <3>1. d.s = l /\ d.out = bcastAppend(l)
      BY <2>6 DEF Done
    <3>2. s.voters = {s.id}
      BY <2>2, <2>6, WonAlone
    <3>3. Moved(s, m, l) /\ Undisturbed(s, m, l)
      BY <2>2, <2>4, <3>2 DEF Moved, Undisturbed
    <3>4. \A o \in d.out : OutOK(s, m, l, o) /\ Calm(o)
      BY <2>2, <2>4, <3>1, BcastAppendOK DEF OutOK, Plain, Calm
    <3> QED
      BY <2>4, <3>1, <3>3, <3>4 DEF Good, Calmly
  <2>7. CASE d = Done(g, {})
    <3>1. d.s = g /\ d.out = {}
      BY <2>7 DEF Done
    <3>2. Moved(s, m, g) /\ Undisturbed(s, m, g)
      BY <1>1, <2>2, <2>5 DEF Moved, Undisturbed, Follower, Leader
    <3> QED
      BY <2>5, <3>1, <3>2 DEF Good, Calmly
  <2>8. CASE d = Done(p, {})
    <3>1. d.s = p /\ d.out = {}
      BY <2>8 DEF Done
    <3>2. Moved(s, m, p) /\ Undisturbed(s, m, p)
      BY <1>1, <2>2 DEF Moved, Undisturbed
    <3> QED
      BY <2>2, <3>1, <3>2 DEF Good, Calmly
  <2> QED
    BY <2>3, <2>6, <2>7, <2>8
<1>6. CASE m.type \notin {"MsgApp", "MsgHeartbeat", "MsgVoteResp"}
  <2>1. d = Done(s, {})
    BY <1>6 DEF stepCandidate
  <2> QED
    BY <2>1, GoodNothing
<1> QED
  BY <1>3, <1>4, <1>5, <1>6

\* stepFollower, for every type of message.
LEMMA StepFollowerGood ==
  ASSUME NEW s, InstOK(s), s.state = Follower, NEW m, MsgOK(m), NEW d \in stepFollower(s, m)
  PROVE  Good(s, m, d)
<1> DEFINE u == [s EXCEPT !.electionElapsed = 0, !.lead = m.from]
<1>1. m.from \in Nodes /\ m.from \in Nodes \cup {None} /\ s.state # Leader /\ s \in Instance
  BY DEF MsgOK, Follower, Leader, InstOK
<1>2. /\ u \in Instance /\ u.id = s.id /\ u.voters = s.voters /\ u.lead = m.from /\ u.Vote = s.Vote
      /\ u.state = s.state /\ u.leadTransferee = s.leadTransferee /\ u.Votes = s.Votes
  BY <1>1 DEF Instance
<1> HIDE DEF u
<1>3. InstOK(u)
  BY <1>1, <1>2 DEF InstOK
<1>4. CASE m.type = "MsgApp"
  <2>1. d = Done(u, {})
    BY <1>4 DEF stepFollower, u
  <2>2. d.s = u /\ d.out = {}
    BY <2>1 DEF Done
  <2>3. Answers(u, d)
    BY <1>3, <2>2 DEF Answers, Same
  <2> QED
    BY <1>1, <1>2, <1>3, <1>4, <2>3, AnswersGood
<1>5. CASE m.type = "MsgHeartbeat"
  <2>1. d = handleHeartbeat(u, m)
    BY <1>5 DEF stepFollower, u
  <2>2. Answers(u, d)
    BY <1>3, <1>5, <2>1, HandleHeartbeat
  <2> QED
    BY <1>1, <1>2, <1>3, <1>5, <2>2, AnswersGood
<1>6. CASE m.type = "MsgTimeoutNow"
  <2>1. d = hup(s, TRUE)
    BY <1>6 DEF stepFollower
  <2> QED
    BY <1>6, <2>1, HupGood
<1>7. CASE m.type \in {"MsgProp", "MsgTransferLeader"}
  <2>1. d = Done(s, Forwarded(s, m))
    BY <1>7 DEF stepFollower
  <2>2. d.s = s /\ d.out = Forwarded(s, m)
    BY <2>1 DEF Done
  <2>3. ASSUME NEW o \in Forwarded(s, m) PROVE MsgOK(o) /\ o.type = m.type
    <3>1. s.lead \in Nodes
      BY <1>1 DEF Instance, Forwarded
    <3>2. o = [m EXCEPT !.to = s.lead] /\ m = Msg(m.type, m.from, m.to, m.fields)
      BY DEF Forwarded, MsgOK
    <3>3. o = Msg(m.type, m.from, s.lead, m.fields)
      BY <3>2 DEF Msg
    <3>4. o.type = m.type /\ o.from = m.from /\ o.to = s.lead /\ o.fields = m.fields
      BY <3>3 DEF Msg
    <3> QED
      BY <1>1, <1>7, <3>1, <3>3, <3>4 DEF MsgOK
  <2>4. Moved(s, m, s) /\ Undisturbed(s, m, s)
    BY <1>1 DEF Moved, Undisturbed
  <2>5. \A o \in d.out : OutOK(s, m, s, o) /\ (Calm(m) => Calm(o))
    BY <1>7, <2>2, <2>3 DEF OutOK, Calm
  <2> QED
    BY <2>2, <2>4, <2>5 DEF Good, Calmly
<1>8. CASE m.type \notin {"MsgApp", "MsgHeartbeat", "MsgTimeoutNow", "MsgProp", "MsgTransferLeader"}
  <2>1. d = Done(s, {})
    BY <1>8 DEF stepFollower
  <2> QED
    BY <2>1, GoodNothing
<1> QED
  BY <1>4, <1>5, <1>6, <1>7, <1>8

\* The dispatch on the state.
LEMMA DispatchGood ==
  ASSUME NEW s, InstOK(s), NEW m, MsgOK(m), NEW d \in step(s, m)
  PROVE  Good(s, m, d)
<1>1. s.state \in {Follower, Candidate, Leader}
  BY DEF InstOK, Instance
<1>2. CASE s.state = Leader
  <2>1. d \in stepLeader(s, m)
    BY <1>2 DEF step, Leader, Candidate
  <2> QED
    BY <1>2, <2>1, StepLeaderGood
<1>3. CASE s.state = Candidate
  BY <1>3, StepCandidateGood DEF step, Candidate, Leader
<1>4. CASE s.state = Follower
  BY <1>4, StepFollowerGood DEF step, Candidate, Leader, Follower
<1> QED
  BY <1>1, <1>2, <1>3, <1>4

----------------------------------------------------------------------------
(* Step and the ticks.                                                     *)

\* A request for a vote is answered with a refusal, whatever the voter noted.
\* Here up is the voter s, after it has taken a higher term over.
LEMMA VoteGood ==
  ASSUME NEW s, InstOK(s), NEW m, MsgOK(m), m.type = "MsgVote", NEW up, InstOK(up),
         up.id = s.id, up.voters = s.voters, up.Term > 0, up.lead \in {None, s.lead},
         up.state = Leader => s.state = Leader, up.leadTransferee \in {None, s.leadTransferee},
         up.Term = s.Term => up.Vote = s.Vote, Undisturbed(s, m, up)
  PROVE  Good(s, m, vote(up, m))
<1> DEFINE c == [up EXCEPT !.electionElapsed = 0, !.Vote = m.from]
           o == Msg("MsgVoteResp", up.id, m.from, [term |-> up.Term, reject |-> TRUE])
           d == vote(up, m)
<1>1. /\ m.from \in Nodes /\ m.from \in Nodes \cup {None} /\ up \in Instance /\ 0 \in Nat
      /\ up.Term \in Nat \ {0} /\ up.id \in Nodes
  BY DEF MsgOK, InstOK, Instance
<1>2. /\ c \in Instance /\ c.id = up.id /\ c.voters = up.voters /\ c.Term = up.Term
      /\ c.lead = up.lead /\ c.state = up.state /\ c.leadTransferee = up.leadTransferee
      /\ c.Votes = up.Votes /\ c.electionElapsed = 0 /\ c.Vote = m.from
  BY <1>1 DEF Instance
<1>3. d = Done(up, {o}) \/ (canVote(up, m) /\ d = Done(c, {o}))
  <2> HIDE DEF c
  <2>1. d = SendVoteResp(up, m.from) \/ (canVote(up, m) /\ d = SendVoteResp(c, m.from))
    BY DEF vote, c
  <2>2. SendVoteResp(up, m.from) = Done(up, {o}) /\ SendVoteResp(c, m.from) = Done(c, {o})
    BY <1>1, <1>2 DEF SendVoteResp
  <2> QED
    BY <2>1, <2>2
<1>4. /\ MsgOK(o) /\ o.type = "MsgVoteResp" /\ o.to = m.from
  <2>1. /\ o.type = "MsgVoteResp" /\ o.from = up.id /\ o.to = m.from /\ o.fields.term = up.Term
        /\ o.fields.reject = TRUE /\ o = Msg(o.type, o.from, o.to, o.fields)
    BY DEF Msg
  <2> HIDE DEF o
  <2> QED
    BY <1>1, <2>1 DEF MsgOK
<1> HIDE DEF c, o, d
<1>5. InstOK(c)
  BY <1>2, Constants DEF InstOK
<1>6. PICK t : /\ d.s = t /\ d.out = {o} /\ InstOK(t) /\ t.id = up.id /\ t.voters = up.voters
               /\ t.Term = up.Term /\ t.lead = up.lead /\ t.state = up.state
               /\ t.leadTransferee = up.leadTransferee
               /\ t.Vote = up.Vote \/ (t.Vote = m.from /\ canVote(up, m))
  BY <1>2, <1>3, <1>5 DEF Done
<1>7. Moved(s, m, t)
  BY <1>6 DEF Moved, canVote
<1>8. Undisturbed(s, m, t)
  BY <1>6 DEF Undisturbed
<1>9. OutOK(s, m, t, o) /\ Calm(o)
  BY <1>4 DEF OutOK, Calm
<1> QED
  BY <1>6, <1>7, <1>8, <1>9 DEF Good, Calmly, d

\* Step: a leader with checkQuorum ignores who only wants to be elected.
LEMMA StepGood ==
  ASSUME NEW s, InstOK(s), NEW m, MsgOK(m), NEW d \in Step(s, m)
  PROVE  Good(s, m, d)
<1>1. CASE m.type \notin {"MsgVote", "MsgVoteResp"}
  <2>1. d \in step(s, m)
    BY <1>1 DEF Step
  <2> QED
    BY <2>1, DispatchGood
<1>2. CASE m.type \in {"MsgVote", "MsgVoteResp"}
  <2> DEFINE t == m.fields.term
             u == higherTerm(s, m)
             ignored == \/ t < s.Term
                        \/ t > s.Term /\ m.type = "MsgVote" /\ ~m.fields.transfer /\ inLease(s)
             up == IF t > s.Term THEN u ELSE s
  <2>1. t \in Nat \ {0} /\ s.Term \in Nat /\ None \in Nodes \cup {None}
    BY <1>2 DEF MsgOK, InstOK, Instance
  <2>2. /\ InstOK(u) /\ u.id = s.id /\ u.voters = s.voters /\ u.Term = t /\ u.lead = None
        /\ u.state = Follower /\ u.leadTransferee = None
    BY <2>1, FollowerOK DEF higherTerm
  <2>3. /\ ignored => d = Done(s, {})
        /\ ~ignored /\ m.type = "MsgVote" => d = vote(up, m)
        /\ ~ignored /\ m.type = "MsgVoteResp" => d \in step(up, m)
    BY <1>2 DEF Step
  <2> HIDE DEF u
  <2>4. CASE ignored
    BY <2>3, <2>4, GoodNothing
  <2>5. CASE ~ignored /\ t > s.Term
    <3>1. Moved(s, m, u)
      BY <2>1, <2>2, <2>5 DEF Moved, Follower, Leader
    <3>2. Undisturbed(s, m, u)
      <4>1. s.state = Leader /\ checkQuorum => inLease(s)
        BY Constants DEF InstOK, Instance, inLease
      <4> QED
        BY <1>2, <2>5, <4>1 DEF Undisturbed
    <3>3. CASE m.type = "MsgVote"
      <4>1. d = vote(u, m)
        BY <2>3, <2>5, <3>3
      <4> QED
        BY <2>1, <2>2, <2>5, <3>2, <3>3, <4>1, VoteGood DEF Follower, Leader
    <3>4. CASE m.type = "MsgVoteResp"
      <4>1. d \in step(u, m)
        BY <2>3, <2>5, <3>4
      <4>2. d = Done(u, {})
        BY <2>2, <3>4, <4>1 DEF step, stepFollower, Follower, Candidate, Leader
      <4>3. d.s = u /\ d.out = {}
        BY <4>2 DEF Done
      <4> QED
        BY <2>2, <3>1, <3>2, <4>3 DEF Good, Calmly
    <3> QED
      BY <1>2, <3>3, <3>4
  <2>6. CASE ~ignored /\ ~(t > s.Term)
    <3>1. t = s.Term
      BY <2>1, <2>6
    <3>2. CASE m.type = "MsgVote"
      <4>1. d = vote(s, m)
        BY <2>3, <2>6, <3>2
      <4>2. Undisturbed(s, m, s)
        BY DEF Undisturbed
      <4> QED
        BY <2>1, <3>1, <3>2, <4>1, <4>2, VoteGood
    <3>3. CASE m.type = "MsgVoteResp"
      <4>1. d \in step(s, m)
        BY <2>3, <2>6, <3>3
      <4> QED
        BY <4>1, DispatchGood
    <3> QED
      BY <1>2, <3>2, <3>3
  <2> QED
    BY <2>4, <2>5, <2>6
<1> QED
  BY <1>1, <1>2

\* tickElection of a node that does not lead.
LEMMA TickElectionGood ==
  ASSUME NEW s, InstOK(s), s.state # Leader, NEW m, m.type \notin {"MsgTimeoutNow"},
         NEW d \in tickElection(s)
  PROVE  Good(s, m, d)
<1> DEFINE u(e) == [s EXCEPT !.electionElapsed = e]
<1>1. s \in Instance
  BY DEF InstOK
<1>2. ASSUME NEW e \in Nat PROVE InstOK(u(e)) /\ Same(s, u(e))
  <2>1. u(e) \in Instance /\ Same(s, u(e))
    BY <1>1 DEF Instance, Same
  <2> HIDE DEF u
  <2> QED
    BY <2>1, SameOK
<1>3. s.electionElapsed + 1 \in Nat /\ 0 \in Nat
  BY <1>1 DEF Instance
<1>4. d = hup(u(0), FALSE) \/ d = Done(u(s.electionElapsed + 1), {})
  BY DEF tickElection
<1> HIDE DEF u
<1>5. CASE d = Done(u(s.electionElapsed + 1), {})
  BY <1>2, <1>3, <1>5, GoodSame
<1>6. CASE d = hup(u(0), FALSE)
  <2>1. InstOK(u(0)) /\ Same(s, u(0))
    BY <1>2, <1>3
  <2>2. Good(u(0), m, d)
    BY <1>6, <2>1, HupGood
  <2>3. Moved(s, m, d.s) /\ Undisturbed(s, m, d.s)
    BY <2>1, <2>2 DEF Good, Moved, Undisturbed, Same
  <2>4. \A o \in d.out : OutOK(s, m, d.s, o)
    BY <2>1, <2>2 DEF Good, OutOK, Same
  <2>5. Calmly(s, m, d)
    BY <2>1, <2>2 DEF Good, Calmly, Same
  <2> QED
    BY <2>3, <2>4, <2>5 DEF Good
<1> QED
  BY <1>4, <1>5, <1>6

\* tickHeartbeat: the lease of the leader never runs out, as its own ticks
\* start it anew.
LEMMA TickHeartbeatGood ==
  ASSUME NEW s, InstOK(s), s.state = Leader, NEW m, NEW d \in tickHeartbeat(s)
  PROVE  Good(s, m, d)
<1> DEFINE e == s.electionElapsed + 1
           h == s.heartbeatElapsed + 1
           beat == h >= HeartbeatTimeout
           w == IF e >= ElectionTimeout THEN endTransfer([s EXCEPT !.electionElapsed = 0])
                ELSE [s EXCEPT !.electionElapsed = e]
           k == IF beat THEN 0 ELSE h
           t == [w EXCEPT !.heartbeatElapsed = k]
<1>1. s \in Instance /\ None \in Nodes \cup {None} /\ e \in Nat /\ k \in Nat
  BY DEF InstOK, Instance
<1>2. /\ w \in Instance /\ w.id = s.id /\ w.voters = s.voters /\ w.Term = s.Term /\ w.Vote = s.Vote
      /\ w.state = s.state /\ w.lead = s.lead /\ w.Votes = s.Votes
      /\ w.leadTransferee \in {None, s.leadTransferee} /\ w.electionElapsed < ElectionTimeout
  <2>1. CASE e >= ElectionTimeout
    BY <1>1, <2>1, Constants DEF endTransfer, Instance
  <2>2. CASE ~(e >= ElectionTimeout)
    BY <1>1, <2>2, Constants DEF Instance
  <2> QED
    BY <2>1, <2>2
<1>3. d = Done(t, bcastHeartbeat(w)) \/ d = Done(t, {})
  BY DEF tickHeartbeat
<1> HIDE DEF w, k
<1>4. /\ t \in Instance /\ t.id = s.id /\ t.voters = s.voters /\ t.Term = s.Term /\ t.Vote = s.Vote
      /\ t.state = s.state /\ t.lead = s.lead /\ t.Votes = s.Votes
      /\ t.leadTransferee \in {None, s.leadTransferee} /\ t.electionElapsed < ElectionTimeout
  BY <1>1, <1>2 DEF Instance
<1> HIDE DEF t
<1>5. InstOK(w) /\ InstOK(t)
  BY <1>2, <1>4 DEF InstOK
<1>6. Moved(s, m, t) /\ Undisturbed(s, m, t)
  BY <1>4, <1>5 DEF Moved, Undisturbed
<1>7. \A o \in bcastHeartbeat(w) : OutOK(s, m, t, o) /\ Calm(o)
  BY <1>2, <1>4, <1>5, BcastHeartbeatOK DEF Plain, OutOK, Calm
<1>8. d.s = t /\ d.out \subseteq bcastHeartbeat(w)
  BY <1>3 DEF Done
<1> QED
  BY <1>4, <1>6, <1>7, <1>8 DEF Good, Calmly

----------------------------------------------------------------------------
(* The cluster.                                                            *)

\* What node n steps: a message of the network, or one of its own application.
Delivered(n, m) ==
  /\ MsgOK(m)
  /\ m.type \in {"MsgApp", "MsgHeartbeat"} => m.from \in reigned
  /\ m.type = "MsgVote" => Outvoted(m.from)
  /\ m.type = "MsgVoteResp" => Outvoted(n)

\* A result that a node takes keeps the invariant.
LEMMA TakeGood ==
  ASSUME IInv, NEW n \in Nodes, NEW m, Delivered(n, m), NEW d, Good(r[n], m, d),
         NEW received, Take(n, d, received),
         transfers' \in Nat, transfers' = 0 => transfers = 0 /\ Calm(m)
  PROVE  IInv'
<1> DEFINE t == d.s
<1>1. /\ r \in [Nodes -> Instance] /\ InstOK(t) /\ t.id = n /\ t \in Instance /\ r[n].id = n
      /\ t.voters = r[n].voters
  BY DEF IInv, Good, Moved, InstOK
<1>2. /\ r' = [r EXCEPT ![n] = t]
      /\ reigned' = IF t.state = Leader THEN reigned \cup {n} ELSE reigned
      /\ msgs' \subseteq msgs \cup d.out
  BY DEF Take
<1> HIDE DEF t
<1>3. r' \in [Nodes -> Instance] /\ r'[n] = t /\ \A k \in Nodes \ {n} : r'[k] = r[k]
  BY <1>1, <1>2
<1>4. reigned \subseteq reigned' /\ (t.state = Leader => n \in reigned')
  BY <1>2
<1>5. \A k \in Nodes : InstOK(r'[k]) /\ r'[k].id = k
  BY <1>1, <1>3 DEF IInv
<1>6. LeadersOK'
  BY <1>3, <1>4 DEF IInv, LeadersOK
<1>7. LeadHasReigned'
  <2>1. \/ t.lead \in {None, r[n].lead} \/ (t.lead = n /\ t.state = Leader)
        \/ (t.lead = m.from /\ m.type \in {"MsgApp", "MsgHeartbeat"})
    BY <1>1 DEF Good, Moved, t
  <2>2. t.lead # None => t.lead \in reigned'
    BY <1>4, <2>1 DEF IInv, LeadHasReigned, Delivered
  <2> QED
    BY <1>3, <1>4, <2>2 DEF IInv, LeadHasReigned
<1>8. \A k \in Nodes : Outvoted(k) => Outvoted(k)'
  <2>1. t.state = Leader => r[n].state = Leader \/ r[n].voters = {n}
    BY <1>1 DEF Good, Moved, t
  <2> QED
    BY <1>1, <1>3, <2>1 DEF Outvoted
<1>9. \A o \in d.out : OutOK(r[n], m, t, o)
  BY DEF Good, t
<1>10. NetworkOK'
  <2>1. ASSUME NEW o \in msgs
        PROVE  /\ MsgOK(o)
               /\ o.type \in {"MsgApp", "MsgHeartbeat"} => o.from \in reigned'
               /\ o.type = "MsgVote" => Outvoted(o.from)'
               /\ o.type = "MsgVoteResp" => Outvoted(o.to)'
    BY <1>4, <1>8 DEF IInv, NetworkOK, MsgOK
  <2>2. ASSUME NEW o \in d.out
        PROVE  /\ MsgOK(o)
               /\ o.type \in {"MsgApp", "MsgHeartbeat"} => o.from \in reigned'
               /\ o.type = "MsgVote" => Outvoted(o.from)'
               /\ o.type = "MsgVoteResp" => Outvoted(o.to)'
    <3>1. OutOK(r[n], m, t, o)
      BY <1>9
    <3>2. o.type \in {"MsgApp", "MsgHeartbeat"} => o.from \in reigned'
      BY <1>1, <1>4, <3>1 DEF OutOK
    <3>3. o.type = "MsgVote" => Outvoted(o.from)'
      BY <1>1, <1>3, <3>1 DEF OutOK, Outvoted
    <3>4. o.type = "MsgVoteResp" => Outvoted(o.to)'
      BY <1>8, <3>1 DEF OutOK, Delivered, MsgOK
    <3> QED
      BY <3>1, <3>2, <3>3, <3>4 DEF OutOK
  <2> QED
    BY <1>2, <2>1, <2>2 DEF NetworkOK
<1>11. CalmOK'
  <2> SUFFICES ASSUME transfers' = 0
               PROVE  /\ \A k \in Nodes : r'[k].leadTransferee = None
                      /\ \A o \in msgs' : Calm(o)
    BY DEF CalmOK
  <2>1. transfers = 0 /\ Calm(m)
    OBVIOUS
  <2>2. t.leadTransferee = None /\ \A o \in d.out : Calm(o)
    BY <2>1 DEF Good, Calmly, IInv, CalmOK, t
  <2> QED
    BY <1>2, <1>3, <2>1, <2>2 DEF IInv, CalmOK
<1> QED
  BY <1>3, <1>5, <1>6, <1>7, <1>10, <1>11 DEF IInv

\* The two action properties, of one step.
VoteStep == \A n \in Nodes : r[n].Vote # None /\ r[n]'.Term = r[n].Term => r[n]'.Vote = r[n].Vote

LeaderStep ==
  \A n \in Nodes : checkQuorum /\ transfers = 0 /\ r[n].state = Leader => r[n]'.state = Leader

\* A Good result taken at one node satisfies the action properties.
LEMMA TakeSteps ==
  ASSUME IInv, NEW n \in Nodes, NEW m, Delivered(n, m), NEW d, Good(r[n], m, d),
         NEW received, Take(n, d, received),
         transfers = 0 /\ m.type = "MsgVote" => ~m.fields.transfer
  PROVE  VoteStep /\ LeaderStep
<1> DEFINE t == d.s
<1>1. r \in [Nodes -> Instance] /\ r' = [r EXCEPT ![n] = t]
  BY DEF IInv, Take
<1> HIDE DEF t
<1>2. r'[n] = t /\ \A k \in Nodes \ {n} : r'[k] = r[k]
  BY <1>1
<1>3. r[n].Vote # None /\ t.Term = r[n].Term => t.Vote = r[n].Vote
  BY DEF Good, Moved, t
<1>4. checkQuorum /\ transfers = 0 /\ r[n].state = Leader => t.state = Leader
  BY DEF Good, Undisturbed, Delivered, Outvoted, t
<1> QED
  BY <1>2, <1>3, <1>4 DEF VoteStep, LeaderStep

\* A message of the node's own application, or the tick of its clock.
LEMMA LocalOK ==
  ASSUME NEW type \in {"MsgHup", "MsgProp", "MsgTransferLeader"}, NEW from \in Nodes, NEW n \in Nodes
  PROVE  LET m == Msg(type, from, n, <<>>)
         IN  Delivered(n, m) /\ m.type = type /\ (type # "MsgTransferLeader" => Calm(m))
<1> DEFINE m == Msg(type, from, n, <<>>)
<1>1. m.type = type /\ m.from = from /\ m.to = n /\ m.fields = <<>>
  BY DEF Msg
<1>2. m = Msg(m.type, m.from, m.to, m.fields)
  BY <1>1
<1> HIDE DEF m
<1>3. MsgOK(m)
  BY <1>1, <1>2 DEF MsgOK
<1> QED
  BY <1>1, <1>3 DEF Delivered, Calm, m

\* Every step keeps the invariant, every vote and every undisturbed leader.
Kept == IInv' /\ VoteStep /\ LeaderStep

\* The delivery of a message.
LEMMA ReceiveKeeps == ASSUME IInv, NEW m \in msgs, Receive(m) PROVE Kept
<1> DEFINE n == m.to
<1>1. MsgOK(m) /\ n \in Nodes /\ Delivered(n, m)
  BY DEF IInv, NetworkOK, MsgOK, Delivered
<1>2. InstOK(r[n]) /\ transfers \in Nat /\ (transfers = 0 => Calm(m)) /\ transfers' = transfers
  BY <1>1 DEF IInv, CalmOK, Receive
<1>3. PICK d : Good(r[n], m, d) /\ Take(n, d, {m})
  <2>1. CASE IsResponseMsg(m) /\ m.from \notin r[n].voters
    <3>1. Take(n, Done(r[n], {}), {m})
      BY <2>1 DEF Receive
    <3> QED
      BY <1>2, <3>1, GoodNothing
  <2>2. CASE ~(IsResponseMsg(m) /\ m.from \notin r[n].voters)
    <3>1. PICK d \in Step(r[n], m) : Take(n, d, {m})
      BY <2>2 DEF Receive
    <3> QED
      BY <1>1, <1>2, <3>1, StepGood
  <2> QED
    BY <2>1, <2>2
<1> HIDE DEF n
<1>4. IInv'
  BY <1>1, <1>2, <1>3, TakeGood
<1>5. VoteStep /\ LeaderStep
  <2>1. transfers = 0 /\ m.type = "MsgVote" => ~m.fields.transfer
    BY <1>2 DEF Calm
  <2> QED
    BY <1>1, <1>3, <2>1, TakeSteps
<1> QED
  BY <1>4, <1>5 DEF Kept

\* The steps that a node takes on its own account.
LEMMA LocalKeeps ==
  ASSUME IInv, NEW type \in {"MsgHup", "MsgProp", "MsgTransferLeader"}, NEW from \in Nodes,
         NEW n \in Nodes, NEW d, Good(r[n], Msg(type, from, n, <<>>), d), Take(n, d, {}),
         transfers' \in Nat,
         transfers' = 0 => transfers = 0 /\ type # "MsgTransferLeader"
  PROVE  Kept
<1> DEFINE m == Msg(type, from, n, <<>>)
<1>1. Delivered(n, m) /\ m.type = type /\ (type # "MsgTransferLeader" => Calm(m))
  BY LocalOK
<1>2. Good(r[n], m, d)
  OBVIOUS
<1> HIDE DEF m
<1>3. IInv'
  BY <1>1, <1>2, TakeGood
<1>4. m.type # "MsgVote"
  BY <1>1
<1>5. VoteStep /\ LeaderStep
  BY <1>1, <1>2, <1>4, TakeSteps
<1> QED
  BY <1>3, <1>5 DEF Kept

\* tickHeartBeat and tickElection.
LEMMA TickKeeps == ASSUME IInv, NEW n \in Nodes, Tick(n) PROVE Kept
<1> DEFINE m == Msg("MsgHup", n, n, <<>>)
<1>1. InstOK(r[n]) /\ transfers \in Nat /\ transfers' = transfers
  BY DEF IInv, Tick
<1>2. m.type = "MsgHup"
  BY DEF Msg
<1>3. PICK d \in IF r[n].state = Leader THEN tickHeartbeat(r[n]) ELSE tickElection(r[n]) :
         Take(n, d, {})
  BY DEF Tick
<1> HIDE DEF m
<1>4. Good(r[n], m, d)
  BY <1>1, <1>2, <1>3, TickHeartbeatGood, TickElectionGood
<1> QED
  BY <1>1, <1>3, <1>4, LocalKeeps DEF m

\* A call of Campaign, at a leader too.
LEMMA CampaignKeeps == ASSUME IInv, NEW n \in Nodes, Campaign(n) PROVE Kept
<1> DEFINE m == Msg("MsgHup", n, n, <<>>)
           d == hup(r[n], FALSE)
<1>1. InstOK(r[n]) /\ transfers \in Nat /\ transfers' = transfers /\ Take(n, d, {})
  BY DEF IInv, Campaign
<1> HIDE DEF d
<1>2. Good(r[n], m, d)
  BY <1>1, HupGood DEF d
<1> QED
  BY <1>1, <1>2, LocalKeeps

\* A call of Propose.
LEMMA ProposeKeeps == ASSUME IInv, NEW n \in Nodes, Propose(n) PROVE Kept
<1> DEFINE m == Msg("MsgProp", n, n, <<>>)
<1>1. InstOK(r[n]) /\ transfers \in Nat /\ transfers' = transfers
  BY DEF IInv, Propose
<1>2. MsgOK(m)
  BY LocalOK DEF Delivered
<1>3. PICK d \in Step(r[n], m) : Take(n, d, {})
  BY DEF Propose
<1>4. Good(r[n], m, d)
  BY <1>1, <1>2, <1>3, StepGood
<1> QED
  BY <1>1, <1>3, <1>4, LocalKeeps

\* A call of TransferLeadership.
LEMMA TransferKeeps ==
  ASSUME IInv, NEW n \in Nodes, NEW to \in Nodes, TransferLeadership(n, to) PROVE Kept
<1> DEFINE m == Msg("MsgTransferLeader", to, n, <<>>)
<1>1. InstOK(r[n]) /\ transfers \in Nat /\ transfers' = transfers + 1
  BY DEF IInv, TransferLeadership
<1>2. MsgOK(m)
  BY LocalOK DEF Delivered
<1>3. PICK d \in Step(r[n], m) : Take(n, d, {})
  BY DEF TransferLeadership
<1>4. Good(r[n], m, d)
  BY <1>1, <1>2, <1>3, StepGood
<1> QED
  BY <1>1, <1>3, <1>4, LocalKeeps

\* The loss of a message.
LEMMA LoseKeeps == ASSUME IInv, NEW m \in msgs, Lose(m) PROVE Kept
<1>1. msgs' \subseteq msgs /\ UNCHANGED <<r, transfers, reigned>>
  BY DEF Lose
<1>2. NetworkOK' /\ CalmOK'
  BY <1>1 DEF IInv, NetworkOK, CalmOK, Outvoted
<1>3. LeadersOK' /\ LeadHasReigned' /\ VoteStep /\ LeaderStep
  BY <1>1 DEF IInv, LeadersOK, LeadHasReigned, VoteStep, LeaderStep
<1> QED
  BY <1>1, <1>2, <1>3 DEF IInv, Kept

\* More voters elect nobody, and disturb nobody.
LEMMA ConfChangeKeeps == ASSUME IInv, ApplyConfChange PROVE Kept
<1> DEFINE s == r[Sole]
           t == [s EXCEPT !.voters = Nodes]
<1>1. /\ r \in [Nodes -> Instance] /\ s \in Instance /\ InstOK(s) /\ s.id = Sole
      /\ r' = [r EXCEPT ![Sole] = t] /\ UNCHANGED <<msgs, transfers, reigned>>
  BY Constants DEF IInv, ApplyConfChange
<1>2. /\ t \in Instance /\ t.id = Sole /\ t.voters = Nodes /\ t.Term = s.Term /\ t.Vote = s.Vote
      /\ t.state = s.state /\ t.lead = s.lead /\ t.leadTransferee = s.leadTransferee
      /\ t.Votes = s.Votes /\ t.electionElapsed = s.electionElapsed
  BY <1>1 DEF Instance
<1> HIDE DEF t
<1>3. r' \in [Nodes -> Instance] /\ r'[Sole] = t /\ \A k \in Nodes \ {Sole} : r'[k] = r[k]
  BY <1>1, <1>2, Constants
<1>4. InstOK(t)
  BY <1>1, <1>2 DEF InstOK
<1>5. \A k \in Nodes : InstOK(r'[k]) /\ r'[k].id = k
  BY <1>2, <1>3, <1>4 DEF IInv
<1>6. \A k \in Nodes : Outvoted(k) => Outvoted(k)'
  BY <1>1, <1>2, <1>3 DEF Outvoted, InstOK
<1>7. NetworkOK'
  BY <1>1, <1>6 DEF IInv, NetworkOK, MsgOK
<1>8. LeadersOK' /\ LeadHasReigned' /\ CalmOK'
  BY <1>1, <1>2, <1>3 DEF IInv, LeadersOK, LeadHasReigned, CalmOK
<1>9. VoteStep /\ LeaderStep
  BY <1>1, <1>2, <1>3 DEF VoteStep, LeaderStep
<1> QED
  BY <1>1, <1>3, <1>5, <1>7, <1>8, <1>9 DEF IInv, Kept

\* Every step.
LEMMA NextKeeps == ASSUME IInv, [Next]_vars PROVE Kept
<1>1. CASE Next
  BY <1>1, ReceiveKeeps, LoseKeeps, TickKeeps, CampaignKeeps, ProposeKeeps, TransferKeeps,
     ConfChangeKeeps DEF Next
<1>2. CASE UNCHANGED vars
  <2>1. UNCHANGED <<r, msgs, transfers, reigned>>
    BY <1>2 DEF vars
  <2>2. NetworkOK' /\ CalmOK' /\ LeadersOK' /\ LeadHasReigned' /\ VoteStep /\ LeaderStep
    BY <2>1 DEF IInv, NetworkOK, CalmOK, Outvoted, LeadersOK, LeadHasReigned, VoteStep, LeaderStep
  <2> QED
    BY <2>1, <2>2 DEF IInv, Kept
<1> QED
  BY <1>1, <1>2

\* newRaft satisfies the invariant.
LEMMA InitOK == Init => IInv
<1> SUFFICES ASSUME Init PROVE IInv
  OBVIOUS
<1>1. <<>> \in VoteMaps /\ DOMAIN <<>> = {}
  <2>1. <<>> \in [{} -> BOOLEAN] /\ {} \in SUBSET Nodes
    OBVIOUS
  <2> QED
    BY <2>1 DEF VoteMaps
<1>2. \A n \in Nodes :
        /\ r[n] \in Instance /\ r[n].id = n /\ r[n].Votes = <<>> /\ r[n].state = Follower
        /\ r[n].lead = None /\ r[n].leadTransferee = None
        /\ r[n].voters = IF n = Sole THEN {Sole} ELSE Nodes
  <2> TAKE n \in Nodes
  <2>1. (IF n = Sole THEN {Sole} ELSE Nodes) \in SUBSET Nodes
    BY Constants
  <2>2. [v \in Nodes |-> 0] \in [Nodes -> Nat]
    OBVIOUS
  <2>3. r[n] = [id |-> n, Term |-> 0, Vote |-> None, state |-> Follower, lead |-> None,
                leadTransferee |-> None, electionElapsed |-> 0, heartbeatElapsed |-> 0,
                Votes |-> <<>>, voters |-> IF n = Sole THEN {Sole} ELSE Nodes,
                Match |-> [v \in Nodes |-> 0], committed |-> 0, uncommitted |-> 0, panic |-> "no"]
    BY DEF Init
  <2> DEFINE W == IF n = Sole THEN {Sole} ELSE Nodes
             M == [v \in Nodes |-> 0]
             V == <<>>
  <2>4. /\ V \in VoteMaps /\ W \in SUBSET Nodes /\ M \in [Nodes -> Nat]
        /\ r[n] = [id |-> n, Term |-> 0, Vote |-> None, state |-> Follower, lead |-> None,
                   leadTransferee |-> None, electionElapsed |-> 0, heartbeatElapsed |-> 0,
                   Votes |-> V, voters |-> W,
                   Match |-> M, committed |-> 0, uncommitted |-> 0, panic |-> "no"]
    BY <1>1, <2>1, <2>2, <2>3
  <2>5. r[n].Votes = <<>> /\ r[n].voters = IF n = Sole THEN {Sole} ELSE Nodes
    BY <2>3
  <2> HIDE DEF W, M, V
  <2>6. /\ r[n] \in Instance /\ r[n].id = n /\ r[n].state = Follower /\ r[n].lead = None
        /\ r[n].leadTransferee = None
    BY <2>4 DEF Instance, Known
  <2> QED
    BY <2>5, <2>6
<1>3. r \in [Nodes -> Instance]
  <2>1. r = [n \in Nodes |-> r[n]]
    BY DEF Init
  <2> QED
    BY <1>2, <2>1
<1>4. \A n \in Nodes : InstOK(r[n])
  BY <1>1, <1>2 DEF InstOK, Follower, Leader
<1>5. msgs = {} /\ transfers = 0 /\ reigned = {}
  BY DEF Init
<1>6. LeadersOK /\ LeadHasReigned /\ NetworkOK /\ CalmOK
  BY <1>2, <1>5 DEF LeadersOK, LeadHasReigned, NetworkOK, CalmOK, Follower, Leader
<1> QED
  BY <1>2, <1>3, <1>4, <1>5, <1>6 DEF IInv

----------------------------------------------------------------------------
(* The theorems.                                                           *)

(* The inductive invariant of Step, the step functions, the ticks and the  *)
(* calls of the application (raft.go), over any network.                   *)
THEOREM StepInvariant == Spec => []IInv
<1>1. IInv /\ [Next]_vars => IInv'
  BY NextKeeps DEF Kept
<1> QED
  BY <1>1, InitOK, PTL DEF Spec

(* A leader never campaigns and no vote is answered without a term: the    *)
(* panics at raft.go:297 and 156 are out of reach, for every cluster.      *)
THEOREM PanicsStayKnown == Spec => []PanicsKnown
<1>1. IInv => PanicsKnown
  BY DEF IInv, Instance, Known, PanicsKnown
<1> QED
  BY <1>1, StepInvariant, PTL

(* Whom a node takes for its leader has been one: MsgApp and MsgHeartbeat  *)
(* come from leaders only, however late they arrive (raft.go:343, 698).    *)
THEOREM LeadersHaveReigned == Spec => []LeadHasReigned
<1>1. IInv => LeadHasReigned
  BY DEF IInv
<1> QED
  BY <1>1, StepInvariant, PTL

(* Within a term no step changes a vote that was cast (raft.go:370): the   *)
(* campaigns, which vote for the node itself, begin a new term.            *)
THEOREM VotesAreKept == Spec => VoteKept
<1>1. IInv /\ [Next]_vars => VoteStep
  BY NextKeeps DEF Kept
<1>2. VoteStep => [\A n \in Nodes : r[n].Vote # None /\ r[n]'.Term = r[n].Term
                                       => r[n]'.Vote = r[n].Vote]_vars
  BY DEF VoteStep
<1> QED
  BY <1>1, <1>2, StepInvariant, PTL DEF Spec, VoteKept

(* With checkQuorum and without transfers no step ends a leadership: the   *)
(* leader is always in its own lease, as its ticks renew it (raft.go:262,  *)
(* 327), and an answer to a vote never finds a leader.                     *)
THEOREM LeadersAreUndisturbed == Spec => LeaderUndisturbed
<1>1. IInv /\ [Next]_vars => LeaderStep
  BY NextKeeps DEF Kept
<1>2. LeaderStep => [\A n \in Nodes : checkQuorum /\ transfers = 0 /\ r[n].state = Leader
                                         => r[n]'.state = Leader]_vars
  BY DEF LeaderStep
<1> QED
  BY <1>1, <1>2, StepInvariant, PTL DEF Spec, LeaderUndisturbed
=============================================================================
