---------------------------- MODULE QuorumProofs ----------------------------
(***************************************************************************)
(* What rests on the quorums of any joint configuration: votes and         *)
(* linearizable reads.                                                     *)
(*                                                                         *)
(* Votes: the counting VoteResult does gives the verdict that its          *)
(* definition asks for, no two candidates win, and a verdict is final.     *)
(* These rest on the cardinality of the sets of those who granted, refused *)
(* and have not answered.                                                  *)
(*                                                                         *)
(* Reads, any number of them and for any commit index: RoSound says what   *)
(* readOnly is: a queue without repetitions and a map of its elements.     *)
(* ReadsSound follows a read from the client's first request to its        *)
(* answer.  HeardSound and BeatsCover explain why the acknowledgement of   *)
(* one read confirms the earlier ones: a heartbeat with the context of a   *)
(* queued read was sent when all before it were queued, as long as no      *)
(* context comes back after its answer.                                    *)
(***************************************************************************)
EXTENDS VoteTally, ReadIndex, SequenceTheorems, FiniteSetTheorems, WellFoundedInduction, TLAPS

Grants(m, votes) == {id \in m : votes[id]}

\* How many of a majority's voters grant the vote when all missing ones do as
\* they are told.
LEMMA MissingCount ==
    ASSUME NEW m, IsFiniteSet(m), m \subseteq IDs
    PROVE  /\ Cardinality(Grants(m, AllMissing(FALSE))) = Cardinality(Yes(m, Votes))
           /\ Cardinality(Grants(m, AllMissing(TRUE))) =
                 Cardinality(Yes(m, Votes)) + Cardinality(m \ DOMAIN Votes)
           /\ Cardinality(Yes(m, Votes)) \in Nat
           /\ Cardinality(m \ DOMAIN Votes) \in Nat
           /\ Cardinality(m) \in Nat
  <1>1. Grants(m, AllMissing(FALSE)) = Yes(m, Votes)
    BY DEF Grants, AllMissing, Yes
  <1>2. Grants(m, AllMissing(TRUE)) = Yes(m, Votes) \cup (m \ DOMAIN Votes)
    BY DEF Grants, AllMissing, Yes
  <1>3. Yes(m, Votes) \cap (m \ DOMAIN Votes) = {}
    BY DEF Yes
  <1>4. Yes(m, Votes) \subseteq m /\ (m \ DOMAIN Votes) \subseteq m
    BY DEF Yes
  <1>5. IsFiniteSet(Yes(m, Votes)) /\ IsFiniteSet(m \ DOMAIN Votes)
    BY <1>4, FS_Subset
  <1>6. Cardinality(Yes(m, Votes)) \in Nat /\ Cardinality(m \ DOMAIN Votes) \in Nat /\ Cardinality(m) \in Nat
    BY <1>5, FS_CardinalityType
  <1>7. Cardinality(Yes(m, Votes) \cup (m \ DOMAIN Votes)) =
           Cardinality(Yes(m, Votes)) + Cardinality(m \ DOMAIN Votes)
           - Cardinality(Yes(m, Votes) \cap (m \ DOMAIN Votes))
    BY <1>5, FS_Union
  <1>8. Cardinality(Yes(m, Votes) \cap (m \ DOMAIN Votes)) = 0
    BY <1>3, FS_EmptySet
  <1>9. Cardinality(Grants(m, AllMissing(FALSE))) = Cardinality(Yes(m, Votes))
    BY <1>1, Zenon
  <1>10. Cardinality(Grants(m, AllMissing(TRUE))) = Cardinality(Yes(m, Votes) \cup (m \ DOMAIN Votes))
    BY <1>2, Zenon
  <1>11. Cardinality(Yes(m, Votes) \cup (m \ DOMAIN Votes)) =
            Cardinality(Yes(m, Votes)) + Cardinality(m \ DOMAIN Votes)
    BY <1>6, <1>7, <1>8
  <1> QED BY <1>6, <1>9, <1>10, <1>11

\* One majority's result is the verdict.
LEMMA MajorityVerdict ==
    ASSUME NEW m, IsFiniteSet(m), m \subseteq IDs
    PROVE  /\ MajorityVoteResult(m, Votes) = VoteWon <=> HasMajority(m, AllMissing(FALSE))
           /\ MajorityVoteResult(m, Votes) = VoteLost <=> ~HasMajority(m, AllMissing(TRUE))
           /\ MajorityVoteResult(m, Votes) \in {VoteWon, VoteLost, VotePending}
           /\ HasMajority(m, AllMissing(FALSE)) => HasMajority(m, AllMissing(TRUE))
  <1> DEFINE n == Cardinality(m)
             y == Cardinality(Yes(m, Votes))
             k == Cardinality(m \ DOMAIN Votes)
  <1>1. n \in Nat /\ y \in Nat /\ k \in Nat
    BY MissingCount
  <1>2. HasMajority(m, AllMissing(FALSE)) <=> (m # {} => 2 * y > n)
    BY MissingCount DEF HasMajority, Grants
  <1>3. HasMajority(m, AllMissing(TRUE)) <=> (m # {} => 2 * (y + k) > n)
    BY MissingCount DEF HasMajority, Grants
  <1>4. MajorityVoteResult(m, Votes) =
          IF m = {} \/ y >= n \div 2 + 1 THEN VoteWon
          ELSE IF y + k >= n \div 2 + 1 THEN VotePending ELSE VoteLost
    BY DEF MajorityVoteResult
  <1> HIDE DEF n, y, k
  <1>5. y >= n \div 2 + 1 <=> 2 * y > n
    BY <1>1
  <1>6. y + k >= n \div 2 + 1 <=> 2 * (y + k) > n
    BY <1>1
  <1>7. 2 * y > n => 2 * (y + k) > n
    BY <1>1
  <1> QED BY <1>2, <1>3, <1>4, <1>5, <1>6, <1>7 DEF VoteWon, VoteLost, VotePending

\* The joint result is the verdict of any votes.
LEMMA JointVerdict == ResultIsVerdict
  <1>1. IsFiniteSet(Incoming) /\ IsFiniteSet(Outgoing) /\ Incoming \subseteq IDs /\ Outgoing \subseteq IDs
    BY VotersAssumption DEF IDs
  <1>2. /\ MajorityVoteResult(Incoming, Votes) = VoteWon <=> HasMajority(Incoming, AllMissing(FALSE))
        /\ MajorityVoteResult(Incoming, Votes) = VoteLost <=> ~HasMajority(Incoming, AllMissing(TRUE))
        /\ MajorityVoteResult(Incoming, Votes) \in {VoteWon, VoteLost, VotePending}
        /\ HasMajority(Incoming, AllMissing(FALSE)) => HasMajority(Incoming, AllMissing(TRUE))
    BY <1>1, MajorityVerdict
  <1>3. /\ MajorityVoteResult(Outgoing, Votes) = VoteWon <=> HasMajority(Outgoing, AllMissing(FALSE))
        /\ MajorityVoteResult(Outgoing, Votes) = VoteLost <=> ~HasMajority(Outgoing, AllMissing(TRUE))
        /\ MajorityVoteResult(Outgoing, Votes) \in {VoteWon, VoteLost, VotePending}
        /\ HasMajority(Outgoing, AllMissing(FALSE)) => HasMajority(Outgoing, AllMissing(TRUE))
    BY <1>1, MajorityVerdict
  <1> QED BY <1>2, <1>3 DEF ResultIsVerdict, JointVoteResult, Accepted, VoteWon, VoteLost, VotePending

\* Two disjoint sets of voters are not both a majority.
LEMMA MajoritiesMeet ==
    ASSUME NEW m, IsFiniteSet(m), m # {}, NEW v, NEW w, Yes(m, v) \cap Yes(m, w) = {},
           MajorityVoteResult(m, v) = VoteWon, MajorityVoteResult(m, w) = VoteWon
    PROVE  FALSE
  <1> DEFINE n == Cardinality(m)
             a == Cardinality(Yes(m, v))
             b == Cardinality(Yes(m, w))
             c == Cardinality(Yes(m, v) \cup Yes(m, w))
  <1>1. Yes(m, v) \subseteq m /\ Yes(m, w) \subseteq m /\ Yes(m, v) \cup Yes(m, w) \subseteq m
    BY DEF Yes
  <1>2. IsFiniteSet(Yes(m, v)) /\ IsFiniteSet(Yes(m, w)) /\ c <= n
    BY <1>1, FS_Subset
  <1>3. c = a + b - Cardinality(Yes(m, v) \cap Yes(m, w))
    BY <1>2, FS_Union
  <1>4. Cardinality(Yes(m, v) \cap Yes(m, w)) = 0
    BY FS_EmptySet
  <1>5. n \in Nat /\ a \in Nat /\ b \in Nat
    BY <1>2, FS_CardinalityType
  <1>6. a >= n \div 2 + 1 /\ b >= n \div 2 + 1
    BY DEF MajorityVoteResult, VoteWon, VoteLost, VotePending
  <1> HIDE DEF n, a, b, c
  <1> QED BY <1>2, <1>3, <1>4, <1>5, <1>6

\* No two candidates win, whatever the votes.
LEMMA JointOneWinner == OneWinner
  <1> DEFINE others == [id \in IDs |-> id \notin DOMAIN Votes \/ ~Votes[id]]
  <1> SUFFICES ASSUME JointVoteResult(Votes) = VoteWon, IDs # {}, JointVoteResult(others) = VoteWon
               PROVE  FALSE
    BY DEF OneWinner
  <1>1. \A m : Yes(m, Votes) \cap Yes(m, others) = {}
    BY DEF Yes
  <1> HIDE DEF others
  <1>2. \A m : \A v : MajorityVoteResult(m, v) \in {VoteWon, VoteLost, VotePending}
    BY DEF MajorityVoteResult
  <1>3. ASSUME NEW v, JointVoteResult(v) = VoteWon
        PROVE  MajorityVoteResult(Incoming, v) = VoteWon /\ MajorityVoteResult(Outgoing, v) = VoteWon
    BY <1>3, <1>2 DEF JointVoteResult, VoteWon, VoteLost, VotePending
  <1>4. Incoming # {} \/ Outgoing # {}
    BY DEF IDs
  <1> QED BY <1>1, <1>3, <1>4, MajoritiesMeet, VotersAssumption

-----------------------------------------------------------------------------
\* VoteResult gives the verdict after every answer, for all voter sets.
THEOREM VerdictCorrect == TallySpec => []ResultIsVerdict
  BY JointVerdict, PTL

\* At no time can another candidate win a vote that is won, for all voter
\* sets, also while the membership is being changed.
THEOREM OneWinnerCorrect == TallySpec => []OneWinner
  BY JointOneWinner, PTL

-----------------------------------------------------------------------------
(* Further answers.                                                        *)

\* v is what is known of the votes and w what is known later.
Extends(m, v, w) ==
  /\ Yes(m, v) \subseteq Yes(m, w)
  /\ Yes(m, w) \cup (m \ DOMAIN w) \subseteq Yes(m, v) \cup (m \ DOMAIN v)

\* Those who granted and those who have not answered, counted.
LEMMA YesAndMissing ==
    ASSUME NEW m, IsFiniteSet(m), NEW v
    PROVE  /\ IsFiniteSet(Yes(m, v)) /\ IsFiniteSet(Yes(m, v) \cup (m \ DOMAIN v))
           /\ Cardinality(m) \in Nat
           /\ Cardinality(Yes(m, v)) \in Nat /\ Cardinality(m \ DOMAIN v) \in Nat
           /\ Cardinality(Yes(m, v) \cup (m \ DOMAIN v)) =
                Cardinality(Yes(m, v)) + Cardinality(m \ DOMAIN v)
  <1>1. Yes(m, v) \subseteq m /\ m \ DOMAIN v \subseteq m /\ Yes(m, v) \cup (m \ DOMAIN v) \subseteq m
    BY DEF Yes
  <1>2. IsFiniteSet(Yes(m, v)) /\ IsFiniteSet(m \ DOMAIN v) /\ IsFiniteSet(Yes(m, v) \cup (m \ DOMAIN v))
    BY <1>1, FS_Subset
  <1>3. Cardinality(m) \in Nat /\ Cardinality(Yes(m, v)) \in Nat /\ Cardinality(m \ DOMAIN v) \in Nat
    BY <1>2, FS_CardinalityType
  <1>4. Yes(m, v) \cap (m \ DOMAIN v) = {}
    BY DEF Yes
  <1>5. Cardinality(Yes(m, v) \cap (m \ DOMAIN v)) = 0
    BY <1>4, FS_EmptySet
  <1>6. Cardinality(Yes(m, v) \cup (m \ DOMAIN v)) =
          Cardinality(Yes(m, v)) + Cardinality(m \ DOMAIN v) - Cardinality(Yes(m, v) \cap (m \ DOMAIN v))
    BY <1>2, FS_Union
  <1>7. Cardinality(Yes(m, v) \cup (m \ DOMAIN v)) =
          Cardinality(Yes(m, v)) + Cardinality(m \ DOMAIN v)
    BY <1>3, <1>5, <1>6
  <1> QED BY <1>2, <1>3, <1>7

\* A majority's verdict does not change with what arrives after it.
LEMMA MajorityFinal ==
    ASSUME NEW m, IsFiniteSet(m), NEW v, NEW w, Extends(m, v, w)
    PROVE  /\ MajorityVoteResult(m, v) = VoteWon => MajorityVoteResult(m, w) = VoteWon
           /\ MajorityVoteResult(m, v) = VoteLost => MajorityVoteResult(m, w) = VoteLost
  <1> DEFINE n == Cardinality(m)
             y1 == Cardinality(Yes(m, v))
             k1 == Cardinality(m \ DOMAIN v)
             y2 == Cardinality(Yes(m, w))
             k2 == Cardinality(m \ DOMAIN w)
  <1>1. n \in Nat /\ y1 \in Nat /\ k1 \in Nat /\ y2 \in Nat /\ k2 \in Nat
    BY YesAndMissing
  <1>2. y1 <= y2
    BY YesAndMissing, FS_Subset DEF Extends
  <1>3. y2 + k2 <= y1 + k1
    <2>1. Cardinality(Yes(m, w) \cup (m \ DOMAIN w)) <= Cardinality(Yes(m, v) \cup (m \ DOMAIN v))
      BY YesAndMissing, FS_Subset DEF Extends
    <2> QED BY <2>1, YesAndMissing
  <1>4. MajorityVoteResult(m, v) = IF m = {} \/ y1 >= n \div 2 + 1 THEN VoteWon
                                   ELSE IF y1 + k1 >= n \div 2 + 1 THEN VotePending ELSE VoteLost
    BY DEF MajorityVoteResult
  <1>5. MajorityVoteResult(m, w) = IF m = {} \/ y2 >= n \div 2 + 1 THEN VoteWon
                                   ELSE IF y2 + k2 >= n \div 2 + 1 THEN VotePending ELSE VoteLost
    BY DEF MajorityVoteResult
  <1> HIDE DEF n, y1, k1, y2, k2
  <1>6. /\ y1 >= n \div 2 + 1 => y2 >= n \div 2 + 1
        /\ ~(y1 >= n \div 2 + 1) /\ ~(y1 + k1 >= n \div 2 + 1)
             => ~(y2 >= n \div 2 + 1) /\ ~(y2 + k2 >= n \div 2 + 1)
    <2>1. n \div 2 + 1 \in Int
      BY <1>1
    <2> DEFINE q == n \div 2 + 1
    <2> HIDE DEF q
    <2>2. /\ y1 >= q => y2 >= q
          /\ ~(y1 >= q) /\ ~(y1 + k1 >= q) => ~(y2 >= q) /\ ~(y2 + k2 >= q)
      BY <1>1, <1>2, <1>3, <2>1 DEF q
    <2> QED BY <2>2 DEF q
  <1> QED BY <1>4, <1>5, <1>6 DEF VoteWon, VoteLost, VotePending

\* The same of the joint verdict, over one answer.
LEMMA JointFinal ==
    ASSUME TallyNext, JointVoteResult(Votes) # VotePending
    PROVE  JointVoteResult(Votes)' = JointVoteResult(Votes)
  <1>1. PICK id \in IDs, v \in BOOLEAN : RecordVote(id, v)
    BY DEF TallyNext
  <1>2. ASSUME NEW m PROVE Extends(m, Votes, Votes')
    <2>1. DOMAIN Votes' = DOMAIN Votes \cup {id} /\ \A i \in DOMAIN Votes : Votes'[i] = Votes[i]
      BY <1>1 DEF RecordVote
    <2> QED BY <2>1 DEF Extends, Yes
  <1>3. \A m : \A u : MajorityVoteResult(m, u) \in {VoteWon, VoteLost, VotePending}
    BY DEF MajorityVoteResult
  <1>4. \A m : (IsFiniteSet(m) =>
          /\ MajorityVoteResult(m, Votes) = VoteWon => MajorityVoteResult(m, Votes') = VoteWon
          /\ MajorityVoteResult(m, Votes) = VoteLost => MajorityVoteResult(m, Votes') = VoteLost)
    BY <1>2, MajorityFinal
  <1>5. JointVoteResult(Votes)' = JointVoteResult(Votes')
    BY DEF JointVoteResult, MajorityVoteResult, Yes
  <1> QED BY <1>3, <1>4, <1>5, VotersAssumption DEF JointVoteResult, VoteWon, VoteLost, VotePending

\* Whatever answers still arrive, a vote that is won or lost stays so.
THEOREM VerdictIsFinal == TallySpec => VerdictFinal
  <1>1. [TallyNext]_Votes =>
          [JointVoteResult(Votes) # VotePending => JointVoteResult(Votes)' = JointVoteResult(Votes)]_Votes
    BY JointFinal
  <1> QED BY <1>1, PTL DEF TallySpec, VerdictFinal

-----------------------------------------------------------------------------
(* Reads.                                                                  *)

Statuses == [index : Nat, acks : SUBSET IDs]

RoSound(r) ==
    /\ r \in [pending : [Queued(r) -> Statuses], queue : Seq(Contexts)]
    /\ \A i, j \in 1 .. Len(r.queue) : r.queue[i] = r.queue[j] => i = j

TypeOK ==
    /\ committed \in Nat /\ inTerm \in BOOLEAN
    /\ postponed \in Seq(Contexts)
    /\ asked \in [Contexts -> Nat]
    /\ heard \in [Contexts -> SUBSET IDs]
    /\ answers \subseteq [ctx : Contexts, index : Nat]

\* Nothing is queued before the first commit of the term, and only ReadOnlySafe
\* with several voters uses the queue.
PhaseSound ==
    /\ IsSingleton => postponed = <<>>
    /\ ~inTerm \/ IsSingleton \/ Option # ReadOnlySafe => Queued(ro) = {}

ReadsSound ==
    /\ \A i \in 1 .. Len(postponed) : asked[postponed[i]] <= committed
    /\ \A c \in Queued(ro) :
         asked[c] <= ro.pending[c].index /\ ro.pending[c].index <= committed

RInv == TypeOK /\ RoSound(ro) /\ PhaseSound /\ ReadsSound /\ ReadFresh

\* Heartbeats go to voters, with the context of a read.
BeatsTyped == heartbeats \subseteq [to : IDs, ctx : Contexts, queued : SUBSET Contexts]

\* Who acknowledged a read has answered heartbeats sent since each read before
\* it was queued.
HeardSound ==
    /\ \A c \in Queued(ro) : Self \in heard[c]
    /\ \A i, j \in 1 .. Len(ro.queue) :
         i <= j => ro.pending[ro.queue[j]].acks \subseteq heard[ro.queue[i]]

\* A heartbeat carries the context of a read that is queued or answered; if it
\* is queued, the reads before it were so when the heartbeat was sent.
BeatsCover ==
    \A h \in heartbeats :
        /\ h.ctx \in Queued(ro) \cup Answered
        /\ \A i, j \in 1 .. Len(ro.queue) :
             (i <= j /\ h.ctx = ro.queue[j]) => ro.queue[i] \in h.queued

HInv == again \/ (HeardSound /\ BeatsCover)

-----------------------------------------------------------------------------
(* readOnly.                                                               *)

\* The parts of a sound readOnly.
LEMMA RoFacts ==
    ASSUME NEW r, RoSound(r)
    PROVE  /\ r.queue \in Seq(Contexts) /\ Len(r.queue) \in Nat /\ DOMAIN r.queue = 1 .. Len(r.queue)
           /\ r.pending \in [Queued(r) -> Statuses] /\ DOMAIN r.pending = Queued(r)
           /\ r = [pending |-> r.pending, queue |-> r.queue]
           /\ Queued(r) = {r.queue[i] : i \in 1 .. Len(r.queue)}
           /\ Queued(r) \subseteq Contexts
           /\ \A i \in 1 .. Len(r.queue) : r.queue[i] \in Queued(r)
           /\ \A i, j \in 1 .. Len(r.queue) : r.queue[i] = r.queue[j] => i = j
<1>1. /\ r \in [pending : [Queued(r) -> Statuses], queue : Seq(Contexts)]
      /\ \A i, j \in 1 .. Len(r.queue) : r.queue[i] = r.queue[j] => i = j
  BY DEF RoSound
<1>2. r.queue \in Seq(Contexts) /\ r.pending \in [Queued(r) -> Statuses]
  BY <1>1
<1>3. r = [pending |-> r.pending, queue |-> r.queue]
  BY <1>1
<1>4. Len(r.queue) \in Nat /\ DOMAIN r.queue = 1 .. Len(r.queue)
  BY <1>2, LenProperties
<1>5. \A i \in 1 .. Len(r.queue) : r.queue[i] \in Contexts
  BY <1>2, ElementOfSeq
<1>6. Queued(r) = {r.queue[i] : i \in 1 .. Len(r.queue)}
  BY <1>4 DEF Queued
<1> QED BY <1>1, <1>2, <1>3, <1>4, <1>5, <1>6

\* A queue and a map that make a sound readOnly.
LEMMA RoBuild ==
    ASSUME NEW q \in Seq(Contexts), NEW p \in [{q[i] : i \in 1 .. Len(q)} -> Statuses],
           \A i, j \in 1 .. Len(q) : q[i] = q[j] => i = j
    PROVE  /\ RoSound([pending |-> p, queue |-> q])
           /\ Queued([pending |-> p, queue |-> q]) = {q[i] : i \in 1 .. Len(q)}
<1> DEFINE r == [pending |-> p, queue |-> q]
<1>1. r.queue = q /\ r.pending = p
  OBVIOUS
<1>2. DOMAIN q = 1 .. Len(q)
  BY LenProperties
<1>3. Queued(r) = {q[i] : i \in 1 .. Len(q)}
  BY <1>1, <1>2 DEF Queued
<1>4. r \in [pending : [Queued(r) -> Statuses], queue : Seq(Contexts)]
  BY <1>3
<1> HIDE DEF r
<1>5. RoSound(r)
  BY <1>1, <1>4 DEF RoSound
<1> QED BY <1>3, <1>5 DEF r

\* readOnly.recvAck of a read that is in the map.
LEMMA AckFacts ==
    ASSUME NEW r, RoSound(r), NEW id \in IDs, NEW c \in Queued(r)
    PROVE  /\ RoSound(recvAck(r, id, c))
           /\ recvAck(r, id, c).queue = r.queue /\ Queued(recvAck(r, id, c)) = Queued(r)
           /\ \A k \in Queued(r) : recvAck(r, id, c).pending[k] =
                IF k = c THEN [index |-> r.pending[c].index, acks |-> r.pending[c].acks \cup {id}]
                ELSE r.pending[k]
<1> DEFINE st == [index |-> r.pending[c].index, acks |-> r.pending[c].acks \cup {id}]
           p == [k \in Queued(r) |-> IF k = c THEN st ELSE r.pending[k]]
           q == r.queue
<1>1. /\ q \in Seq(Contexts) /\ r.pending \in [Queued(r) -> Statuses] /\ DOMAIN r.pending = Queued(r)
      /\ r = [pending |-> r.pending, queue |-> q]
      /\ Queued(r) = {q[i] : i \in 1 .. Len(q)}
      /\ \A i, j \in 1 .. Len(q) : q[i] = q[j] => i = j
  BY RoFacts
<1>2. r.pending[c] \in Statuses
  BY <1>1
<1>3. st \in Statuses /\ [r.pending[c] EXCEPT !.acks = @ \cup {id}] = st
  BY <1>2 DEF Statuses
<1>4. p \in [{q[i] : i \in 1 .. Len(q)} -> Statuses]
  BY <1>1, <1>3
<1>5. [r.pending EXCEPT ![c] = st] = p
  BY <1>1
<1>6. recvAck(r, id, c) = [pending |-> p, queue |-> q]
  <2>1. recvAck(r, id, c) = [r EXCEPT !.pending = [r.pending EXCEPT ![c] =
                                 [r.pending[c] EXCEPT !.acks = @ \cup {id}]]]
    BY <1>1 DEF recvAck
  <2>2. recvAck(r, id, c) = [r EXCEPT !.pending = p]
    BY <1>3, <1>5, <2>1, Zenon
  <2> HIDE DEF p
  <2> QED BY <1>1, <2>2
<1> HIDE DEF p, q, st
<1>7. RoSound([pending |-> p, queue |-> q]) /\ Queued([pending |-> p, queue |-> q]) = Queued(r)
  BY <1>1, <1>4, RoBuild
<1>8. recvAck(r, id, c).queue = q /\ recvAck(r, id, c).pending = p
  BY <1>6
<1>9. \A k \in Queued(r) : p[k] = IF k = c THEN st ELSE r.pending[k]
  BY DEF p
<1> QED BY <1>6, <1>7, <1>8, <1>9 DEF q, st

\* readOnly.addRequest of a read that is not in the map.
LEMMA AddFacts ==
    ASSUME NEW r, RoSound(r), NEW index \in Nat, NEW c \in Contexts, c \notin Queued(r)
    PROVE  /\ RoSound(addRequest(r, index, c))
           /\ Queued(addRequest(r, index, c)) = Queued(r) \cup {c}
           /\ Len(addRequest(r, index, c).queue) = Len(r.queue) + 1
           /\ addRequest(r, index, c).queue[Len(r.queue) + 1] = c
           /\ \A i \in 1 .. Len(r.queue) : addRequest(r, index, c).queue[i] = r.queue[i]
           /\ addRequest(r, index, c).pending[c] = [index |-> index, acks |-> {}]
           /\ \A k \in Queued(r) : addRequest(r, index, c).pending[k] = r.pending[k]
<1> DEFINE st == [index |-> index, acks |-> {}]
           p == [k \in Queued(r) \cup {c} |-> IF k = c THEN st ELSE r.pending[k]]
           n == Len(r.queue)
           q == Append(r.queue, c)
<1>1. /\ r.queue \in Seq(Contexts) /\ n \in Nat
      /\ r.pending \in [Queued(r) -> Statuses] /\ DOMAIN r.pending = Queued(r)
      /\ Queued(r) = {r.queue[i] : i \in 1 .. n}
      /\ \A i \in 1 .. n : r.queue[i] \in Queued(r)
      /\ \A i, j \in 1 .. n : r.queue[i] = r.queue[j] => i = j
  BY RoFacts
<1>2. addRequest(r, index, c) = [pending |-> p, queue |-> q]
  BY <1>1 DEF addRequest, With
<1>3. /\ q \in Seq(Contexts) /\ Len(q) = n + 1 /\ q[n + 1] = c
      /\ \A i \in 1 .. n : q[i] = r.queue[i]
  BY <1>1, AppendProperties
<1> HIDE DEF q, n
<1>4. {q[i] : i \in 1 .. Len(q)} = Queued(r) \cup {c}
  <2>1. \A i : i \in 1 .. Len(q) <=> i \in 1 .. n \/ i = n + 1
    BY <1>1, <1>3
  <2>2. \A k \in {q[i] : i \in 1 .. Len(q)} : k \in Queued(r) \cup {c}
    BY <1>1, <1>3, <2>1
  <2>3. ASSUME NEW k \in Queued(r) PROVE k \in {q[i] : i \in 1 .. Len(q)}
    <3>1. PICK i \in 1 .. n : k = r.queue[i]
      BY <1>1
    <3> QED BY <1>3, <2>1, <3>1
  <2>4. c \in {q[i] : i \in 1 .. Len(q)}
    BY <1>3, <2>1
  <2> QED BY <2>2, <2>3, <2>4
<1>5. \A i, j \in 1 .. Len(q) : q[i] = q[j] => i = j
  <2>1. \A i \in 1 .. Len(q) : i \in 1 .. n \/ i = n + 1
    BY <1>1, <1>3
  <2>2. \A i \in 1 .. n : q[i] # c
    BY <1>1, <1>3
  <2> QED BY <1>1, <1>3, <2>1, <2>2
<1>6. st \in Statuses
  BY DEF Statuses
<1>7. p \in [{q[i] : i \in 1 .. Len(q)} -> Statuses]
  BY <1>1, <1>4, <1>6
<1>8. p[c] = st /\ \A k \in Queued(r) : p[k] = r.pending[k]
  OBVIOUS
<1> HIDE DEF p, st
<1>9. /\ RoSound([pending |-> p, queue |-> q])
      /\ Queued([pending |-> p, queue |-> q]) = Queued(r) \cup {c}
  BY <1>3, <1>4, <1>5, <1>7, RoBuild
<1>10. addRequest(r, index, c).queue = q /\ addRequest(r, index, c).pending = p
  BY <1>2
<1> QED BY <1>2, <1>3, <1>8, <1>9, <1>10 DEF n, st

\* The readOnly s comes from r by taking in the reads S with this index.
TakenFrom(r, s, S, index) ==
    /\ RoSound(s) /\ Queued(s) = Queued(r) \cup S
    /\ Len(r.queue) <= Len(s.queue)
    /\ \A i \in 1 .. Len(r.queue) : s.queue[i] = r.queue[i]
    /\ \A k \in Queued(r) : /\ s.pending[k].index = r.pending[k].index
                            /\ s.pending[k].acks \subseteq r.pending[k].acks \cup {Self}
    /\ \A k \in S \ Queued(r) : s.pending[k] = [index |-> index, acks |-> {Self}]

\* One more read, or one that is there already.
LEMMA TakenOne ==
    ASSUME NEW r, RoSound(r), NEW s, NEW S, NEW index \in Nat, TakenFrom(r, s, S, index),
           NEW c \in Contexts
    PROVE  TakenFrom(r, Taken(s, c, index), S \cup {c}, index)
<1>1. /\ RoSound(s) /\ Queued(s) = Queued(r) \cup S
      /\ Len(r.queue) <= Len(s.queue)
      /\ \A i \in 1 .. Len(r.queue) : s.queue[i] = r.queue[i]
      /\ \A k \in Queued(r) : /\ s.pending[k].index = r.pending[k].index
                              /\ s.pending[k].acks \subseteq r.pending[k].acks \cup {Self}
      /\ \A k \in S \ Queued(r) : s.pending[k] = [index |-> index, acks |-> {Self}]
  BY DEF TakenFrom
<1>2. Self \in IDs
  BY ReadIndexAssumption
<1> DEFINE a == addRequest(s, index, c)
           n == Taken(s, c, index)
<1>3. n = recvAck(a, Self, c)
  BY DEF Taken
<1>4. Len(r.queue) \in Nat /\ Len(s.queue) \in Nat /\ DOMAIN s.pending = Queued(s)
  BY <1>1, RoFacts
<1>5. CASE c \in Queued(s)
  <2>1. a = s
    BY <1>4, <1>5 DEF addRequest
  <2>2. /\ RoSound(n) /\ n.queue = s.queue /\ Queued(n) = Queued(s)
        /\ \A k \in Queued(s) : n.pending[k] =
             IF k = c THEN [index |-> s.pending[c].index, acks |-> s.pending[c].acks \cup {Self}]
             ELSE s.pending[k]
    BY <1>1, <1>2, <1>3, <1>5, <2>1, AckFacts
  <2> HIDE DEF n, a
  <2>3. Queued(n) = Queued(r) \cup (S \cup {c})
    BY <1>1, <1>5, <2>2
  <2>4. ASSUME NEW k \in Queued(r)
        PROVE  /\ n.pending[k].index = r.pending[k].index
               /\ n.pending[k].acks \subseteq r.pending[k].acks \cup {Self}
    <3>1. CASE k = c
      <4>1. n.pending[k] = [index |-> s.pending[k].index, acks |-> s.pending[k].acks \cup {Self}]
        BY <1>1, <2>2, <3>1
      <4> QED BY <1>1, <4>1
    <3>2. CASE k # c
      <4>1. n.pending[k] = s.pending[k]
        BY <1>1, <2>2, <3>2
      <4> QED BY <1>1, <4>1
    <3> QED BY <3>1, <3>2
  <2>5. ASSUME NEW k \in (S \cup {c}) \ Queued(r)
        PROVE  n.pending[k] = [index |-> index, acks |-> {Self}]
    <3>1. k \in S \ Queued(r) /\ k \in Queued(s)
      BY <1>1, <1>5
    <3>2. s.pending[k] = [index |-> index, acks |-> {Self}]
      BY <1>1, <3>1
    <3>3. s.pending[k].index = index /\ s.pending[k].acks \cup {Self} = {Self}
      BY <3>2
    <3> QED BY <2>2, <3>1, <3>2, <3>3
  <2> QED BY <1>1, <2>2, <2>3, <2>4, <2>5 DEF TakenFrom, n
<1>6. CASE c \notin Queued(s)
  <2>1. /\ RoSound(a) /\ Queued(a) = Queued(s) \cup {c} /\ Len(a.queue) = Len(s.queue) + 1
        /\ \A i \in 1 .. Len(s.queue) : a.queue[i] = s.queue[i]
        /\ a.pending[c] = [index |-> index, acks |-> {}]
        /\ \A k \in Queued(s) : a.pending[k] = s.pending[k]
    BY <1>1, <1>6, AddFacts
  <2>2. /\ RoSound(n) /\ n.queue = a.queue /\ Queued(n) = Queued(a)
        /\ \A k \in Queued(a) : n.pending[k] =
             IF k = c THEN [index |-> a.pending[c].index, acks |-> a.pending[c].acks \cup {Self}]
             ELSE a.pending[k]
    BY <1>2, <1>3, <2>1, AckFacts
  <2> HIDE DEF n, a
  <2>3. Queued(n) = Queued(r) \cup (S \cup {c})
    BY <1>1, <2>1, <2>2
  <2>4. ASSUME NEW k \in Queued(s) PROVE n.pending[k] = s.pending[k]
    BY <1>6, <2>1, <2>2
  <2>5. n.pending[c] = [index |-> index, acks |-> {Self}]
    <3>1. a.pending[c].index = index /\ a.pending[c].acks \cup {Self} = {Self}
      BY <2>1
    <3> QED BY <2>1, <2>2, <3>1
  <2>6. Len(r.queue) <= Len(n.queue) /\ \A i \in 1 .. Len(r.queue) : n.queue[i] = r.queue[i]
    BY <1>1, <1>4, <2>1, <2>2
  <2>7. \A k \in Queued(r) : /\ n.pending[k].index = r.pending[k].index
                             /\ n.pending[k].acks \subseteq r.pending[k].acks \cup {Self}
    BY <1>1, <2>4
  <2>8. \A k \in (S \cup {c}) \ Queued(r) : n.pending[k] = [index |-> index, acks |-> {Self}]
    BY <1>1, <2>4, <2>5
  <2> QED BY <2>2, <2>3, <2>6, <2>7, <2>8 DEF TakenFrom, n
<1> QED BY <1>5, <1>6

\* Every non-empty set of natural numbers has a least one: what induction
\* rests on.
LEMMA LeastNatural ==
    ASSUME NEW T, T \subseteq Nat, T # {}
    PROVE  \E m \in T : \A k \in T : m <= k
<1>1. PICK m \in T : \A k \in T : ~(<<k, m>> \in OpToRel(<, Nat))
  BY NatLessThanWellFounded, WFMin, Zenon
<1>2. \A k \in T : ~(k < m)
  BY <1>1, Zenon DEF OpToRel
<1>3. m \in Nat /\ \A k \in T : k \in Nat
  OBVIOUS
<1> QED BY <1>2, <1>3

\* The reads up to each position of cs, taken in one after the other.
Takings(r, cs, index, n, t) ==
    t = [i \in 0 .. n |-> IF i = 0 THEN r ELSE Taken(t[i - 1], cs[i], index)]

\* They can be taken in up to any position: the recursive definition has a
\* value, by a least position without one.
LEMMA TakingsExist ==
    ASSUME NEW r, NEW cs, NEW index, NEW N \in Nat
    PROVE  \E t : Takings(r, cs, index, N, t)
<1> DEFINE Bad == {n \in Nat : ~\E t : Takings(r, cs, index, n, t)}
<1> SUFFICES ASSUME Bad # {} PROVE FALSE
  BY Zenon
<1>1. PICK m \in Bad : \A k \in Bad : m <= k
  <2>1. Bad \subseteq Nat
    OBVIOUS
  <2> HIDE DEF Bad
  <2> QED BY <2>1, LeastNatural
<1>2. m \in Nat /\ ~\E t : Takings(r, cs, index, m, t)
  OBVIOUS
<1>3. CASE m = 0
  <2> DEFINE f == [i \in 0 .. 0 |-> r]
  <2>1. f = [i \in 0 .. 0 |-> IF i = 0 THEN r ELSE Taken(f[i - 1], cs[i], index)]
    OBVIOUS
  <2> HIDE DEF f
  <2>2. Takings(r, cs, index, 0, f)
    BY <2>1 DEF Takings
  <2> QED BY <1>2, <1>3, <2>2
<1>4. CASE m # 0
  <2>1. m - 1 \in Nat /\ ~(m <= m - 1) /\ 0 \in 0 .. m - 1
    BY <1>2, <1>4
  <2>2. m - 1 \notin Bad
    BY <1>1, <2>1
  <2>3. PICK g : Takings(r, cs, index, m - 1, g)
    BY <2>1, <2>2
  <2>4. g = [i \in 0 .. m - 1 |-> IF i = 0 THEN r ELSE Taken(g[i - 1], cs[i], index)]
    BY <2>3 DEF Takings
  <2> DEFINE f == [i \in 0 .. m |-> IF i \in 0 .. m - 1 THEN g[i] ELSE Taken(g[m - 1], cs[m], index)]
  <2>5. ASSUME NEW i \in 0 .. m
        PROVE  f[i] = IF i = 0 THEN r ELSE Taken(f[i - 1], cs[i], index)
    <3>1. CASE i = 0
      <4>1. f[i] = g[0]
        BY <2>1, <3>1
      <4>2. g[0] = r
        BY <2>1, <2>4
      <4> QED BY <3>1, <4>1, <4>2
    <3>2. CASE i # 0
      <4>1. i - 1 \in 0 .. m - 1 /\ i - 1 \in 0 .. m
        BY <1>2, <3>2
      <4>2. f[i - 1] = g[i - 1]
        BY <4>1
      <4>3. CASE i \in 0 .. m - 1
        <5>1. f[i] = g[i]
          BY <4>3
        <5>2. g[i] = Taken(g[i - 1], cs[i], index)
          BY <2>4, <3>2, <4>3
        <5> QED BY <3>2, <4>2, <5>1, <5>2
      <4>4. CASE i \notin 0 .. m - 1
        <5>1. i = m
          BY <1>2, <4>4
        <5>2. f[i] = Taken(g[m - 1], cs[m], index)
          BY <4>4
        <5> QED BY <3>2, <4>2, <5>1, <5>2
      <4> QED BY <4>3, <4>4
    <3> QED BY <3>1, <3>2
  <2>6. f = [i \in 0 .. m |-> f[i]]
    OBVIOUS
  <2> HIDE DEF f
  <2>7. Takings(r, cs, index, m, f)
    BY <2>5, <2>6 DEF Takings
  <2> QED BY <1>2, <2>7
<1> QED BY <1>3, <1>4

\* releasePendingReadIndexMessages: what becomes of readOnly.
LEMMA TakenAllFrom ==
    ASSUME NEW r, RoSound(r), NEW cs \in Seq(Contexts), NEW index \in Nat
    PROVE  TakenFrom(r, TakenAll(r, cs, index), {cs[i] : i \in 1 .. Len(cs)}, index)
<1> DEFINE N == Len(cs)
           t == CHOOSE t : t = [i \in 0 .. N |-> IF i = 0 THEN r ELSE Taken(t[i - 1], cs[i], index)]
<1>1. N \in Nat /\ \A i \in 1 .. N : cs[i] \in Contexts
  BY LenProperties, ElementOfSeq
<1>2. TakenAll(r, cs, index) = t[N]
  BY DEF TakenAll
<1>3. t = [i \in 0 .. N |-> IF i = 0 THEN r ELSE Taken(t[i - 1], cs[i], index)]
  BY <1>1, TakingsExist DEF Takings
<1> HIDE DEF t, N
<1>4. t[0] = r /\ \A i \in 1 .. N : t[i] = Taken(t[i - 1], cs[i], index)
  <2>1. 0 \in 0 .. N /\ \A i \in 1 .. N : i \in 0 .. N /\ i # 0
    BY <1>1
  <2> QED BY <1>3, <2>1
<1> DEFINE S(n) == {cs[i] : i \in 1 .. n}
           Bad == {n \in 0 .. N : ~TakenFrom(r, t[n], S(n), index)}
<1>5. TakenFrom(r, t[0], S(0), index)
  <2>1. S(0) = {}
    OBVIOUS
  <2>2. Len(r.queue) \in Nat
    BY RoFacts
  <2> QED BY <1>4, <2>1, <2>2 DEF TakenFrom
<1>6. ASSUME NEW n \in 1 .. N, TakenFrom(r, t[n - 1], S(n - 1), index)
      PROVE  TakenFrom(r, t[n], S(n), index)
  <2>1. S(n - 1) \cup {cs[n]} = S(n)
    <3>1. \A i : i \in 1 .. n <=> i \in 1 .. n - 1 \/ i = n
      BY <1>1
    <3> QED BY <3>1
  <2> HIDE DEF S
  <2>2. TakenFrom(r, Taken(t[n - 1], cs[n], index), S(n - 1) \cup {cs[n]}, index)
    BY <1>1, <1>6, TakenOne
  <2> QED BY <1>4, <2>1, <2>2
<1> HIDE DEF S
<1>7. Bad = {}
  <2> SUFFICES ASSUME Bad # {} PROVE FALSE
    OBVIOUS
  <2>1. PICK m \in Bad : \A k \in Bad : m <= k
    <3>1. Bad \subseteq Nat
      BY <1>1
    <3> HIDE DEF Bad
    <3> QED BY <3>1, LeastNatural
  <2>2. m \in 0 .. N /\ ~TakenFrom(r, t[m], S(m), index)
    OBVIOUS
  <2>3. m # 0
    BY <1>5, <2>2
  <2>4. m \in 1 .. N /\ m - 1 \in 0 .. N /\ ~(m <= m - 1)
    BY <1>1, <2>2, <2>3
  <2>5. TakenFrom(r, t[m - 1], S(m - 1), index)
    BY <2>1, <2>4
  <2> QED BY <1>6, <2>2, <2>4, <2>5
<1>8. TakenFrom(r, t[N], S(N), index)
  BY <1>1, <1>7
<1> QED BY <1>2, <1>8 DEF S, N

\* A queue without repetitions has as many places as elements.
LEMMA QueueCount ==
    ASSUME NEW r, RoSound(r)
    PROVE  Len(r.queue) = Cardinality(Queued(r))
<1>1. /\ r.queue \in Seq(Contexts) /\ Len(r.queue) \in Nat
      /\ Queued(r) = {r.queue[i] : i \in 1 .. Len(r.queue)}
      /\ \A i, j \in 1 .. Len(r.queue) : r.queue[i] = r.queue[j] => i = j
  BY RoFacts
<1>2. r.queue \in [1 .. Len(r.queue) -> Queued(r)]
  BY <1>1, LenProperties
<1>3. r.queue \in Bijection(1 .. Len(r.queue), Queued(r))
  BY <1>1, <1>2 DEF Bijection, Injection, IsInjective, Surjection
<1>4. ExistsBijection(1 .. Len(r.queue), Queued(r))
  BY <1>3 DEF ExistsBijection
<1> QED BY <1>1, <1>4, FS_CountingElements

\* The place in the queue up to which an acknowledgement of c confirms.
LEMMA UptoFacts ==
    ASSUME NEW r, RoSound(r), NEW c
    PROVE  /\ Upto(r, c) \in 0 .. Len(r.queue)
           /\ c \in Queued(r) => Upto(r, c) # 0 /\ r.queue[Upto(r, c)] = c
           /\ c \notin Queued(r) => Confirmed(r, c) = {}
           /\ Confirmed(r, c) \subseteq Queued(r)
           /\ \A i \in 1 .. Len(r.queue) : r.queue[i] \in Confirmed(r, c) <=> i <= Upto(r, c)
<1>1. /\ Len(r.queue) \in Nat /\ DOMAIN r.queue = 1 .. Len(r.queue)
      /\ Queued(r) = {r.queue[i] : i \in 1 .. Len(r.queue)}
      /\ \A i, j \in 1 .. Len(r.queue) : r.queue[i] = r.queue[j] => i = j
  BY RoFacts
<1>2. ASSUME c \in Queued(r)
      PROVE  Upto(r, c) \in 1 .. Len(r.queue) /\ r.queue[Upto(r, c)] = c
  <2>1. \E i \in DOMAIN r.queue : r.queue[i] = c
    BY <1>1, <1>2
  <2>2. Upto(r, c) = CHOOSE i \in DOMAIN r.queue : r.queue[i] = c
    BY <1>2 DEF Upto
  <2>3. Upto(r, c) \in DOMAIN r.queue /\ r.queue[Upto(r, c)] = c
    BY <2>1, <2>2
  <2> QED BY <1>1, <2>3
<1>3. c \notin Queued(r) => Upto(r, c) = 0
  BY DEF Upto
<1>4. Upto(r, c) \in 0 .. Len(r.queue)
  BY <1>1, <1>2, <1>3
<1>5. Confirmed(r, c) = {r.queue[i] : i \in 1 .. Upto(r, c)}
  BY DEF Confirmed
<1>6. \A i \in 1 .. Upto(r, c) : i \in 1 .. Len(r.queue) /\ i <= Upto(r, c)
  BY <1>1, <1>4
<1>7. Confirmed(r, c) \subseteq Queued(r)
  BY <1>1, <1>5, <1>6
<1>8. ASSUME NEW i \in 1 .. Len(r.queue)
      PROVE  r.queue[i] \in Confirmed(r, c) <=> i <= Upto(r, c)
  <2>1. ASSUME r.queue[i] \in Confirmed(r, c) PROVE i <= Upto(r, c)
    <3>1. PICK j \in 1 .. Upto(r, c) : r.queue[i] = r.queue[j]
      BY <1>5, <2>1
    <3>2. i = j
      BY <1>1, <1>6, <3>1
    <3> QED BY <1>6, <3>2
  <2>2. ASSUME i <= Upto(r, c) PROVE r.queue[i] \in Confirmed(r, c)
    <3>1. i \in 1 .. Upto(r, c)
      BY <1>1, <1>4, <2>2
    <3> QED BY <1>5, <3>1
  <2> QED BY <2>1, <2>2
<1>9. c \notin Queued(r) => Confirmed(r, c) = {}
  BY <1>3, <1>5
<1>10. c \in Queued(r) => Upto(r, c) # 0
  BY <1>1, <1>2
<1> QED BY <1>2, <1>4, <1>7, <1>8, <1>9, <1>10

\* readOnly.advance takes the confirmed reads out of the queue and the map.
LEMMA AdvanceFacts ==
    ASSUME NEW r, RoSound(r), NEW c
    PROVE  /\ RoSound(advance(r, c))
           /\ Queued(advance(r, c)) = Queued(r) \ Confirmed(r, c)
           /\ Len(advance(r, c).queue) = Len(r.queue) - Upto(r, c)
           /\ \A i \in 1 .. Len(r.queue) - Upto(r, c) :
                advance(r, c).queue[i] = r.queue[Upto(r, c) + i]
           /\ \A k \in Queued(r) \ Confirmed(r, c) : advance(r, c).pending[k] = r.pending[k]
<1> DEFINE u == Upto(r, c)
           n == Len(r.queue)
           q == SubSeq(r.queue, u + 1, n)
           p == [k \in Queued(r) \ Confirmed(r, c) |-> r.pending[k]]
<1>1. /\ n \in Nat /\ r.queue \in Seq(Contexts)
      /\ r.pending \in [Queued(r) -> Statuses] /\ DOMAIN r.pending = Queued(r)
      /\ Queued(r) = {r.queue[i] : i \in 1 .. n}
      /\ \A i, j \in 1 .. n : r.queue[i] = r.queue[j] => i = j
  BY RoFacts
<1>2. /\ u \in 0 .. n /\ \A i \in 1 .. n : r.queue[i] \in Confirmed(r, c) <=> i <= u
  BY UptoFacts
<1>3. advance(r, c) = [pending |-> p, queue |-> q]
  BY <1>1 DEF advance
<1> HIDE DEF u
<1>4. q \in Seq(Contexts) /\ Len(q) = n - u /\ \A i \in 1 .. n - u : q[i] = r.queue[u + i]
  <2>1. u + 1 \in Int /\ n \in Int /\ \A i \in u + 1 .. n : i \in 1 .. Len(r.queue)
    BY <1>1, <1>2
  <2>2. \A i \in u + 1 .. n : r.queue[i] \in Contexts
    BY <1>1, <2>1, ElementOfSeq
  <2>3. /\ q \in Seq(Contexts) /\ Len(q) = IF u + 1 <= n THEN n - (u + 1) + 1 ELSE 0
        /\ \A i \in 1 .. n - (u + 1) + 1 : q[i] = r.queue[u + 1 + i - 1]
    BY <2>1, <2>2, SubSeqProperties
  <2>4. Len(q) = n - u
    BY <1>1, <1>2, <2>3
  <2>5. ASSUME NEW i \in 1 .. n - u PROVE q[i] = r.queue[u + i]
    <3>1. i \in 1 .. n - (u + 1) + 1 /\ u + 1 + i - 1 = u + i
      BY <1>1, <1>2
    <3> QED BY <2>3, <3>1
  <2> QED BY <2>3, <2>4, <2>5
<1> HIDE DEF n, q
<1>5. {q[i] : i \in 1 .. Len(q)} = Queued(r) \ Confirmed(r, c)
  <2>1. ASSUME NEW i \in 1 .. Len(q) PROVE q[i] \in Queued(r) \ Confirmed(r, c)
    <3>1. u + i \in 1 .. n /\ ~(u + i <= u) /\ i \in 1 .. n - u
      BY <1>1, <1>2, <1>4
    <3> QED BY <1>1, <1>2, <1>4, <3>1
  <2>2. ASSUME NEW k \in Queued(r) \ Confirmed(r, c) PROVE k \in {q[i] : i \in 1 .. Len(q)}
    <3>1. PICK i \in 1 .. n : k = r.queue[i]
      BY <1>1
    <3>2. ~(i <= u)
      BY <1>2, <3>1
    <3>3. i - u \in 1 .. n - u /\ u + (i - u) = i /\ i - u \in 1 .. Len(q)
      BY <1>1, <1>2, <1>4, <3>2
    <3>4. k = q[i - u]
      BY <1>4, <3>1, <3>3
    <3> QED BY <3>3, <3>4
  <2> QED BY <2>1, <2>2
<1>6. ASSUME NEW i \in 1 .. Len(q), NEW j \in 1 .. Len(q), q[i] = q[j] PROVE i = j
  <2>1. /\ u + i \in 1 .. n /\ u + j \in 1 .. n /\ i \in 1 .. n - u /\ j \in 1 .. n - u
    BY <1>1, <1>2, <1>4
  <2>2. u + i = u + j
    BY <1>1, <1>4, <1>6, <2>1
  <2> QED BY <1>1, <1>2, <2>1, <2>2
<1>7. p \in [{q[i] : i \in 1 .. Len(q)} -> Statuses]
  BY <1>1, <1>5
<1>8. \A k \in Queued(r) \ Confirmed(r, c) : p[k] = r.pending[k]
  OBVIOUS
<1> HIDE DEF p
<1>9. /\ RoSound([pending |-> p, queue |-> q])
      /\ Queued([pending |-> p, queue |-> q]) = Queued(r) \ Confirmed(r, c)
  BY <1>4, <1>5, <1>6, <1>7, RoBuild
<1>10. advance(r, c).queue = q /\ advance(r, c).pending = p
  BY <1>3
<1> QED BY <1>3, <1>4, <1>8, <1>9, <1>10 DEF u, n

-----------------------------------------------------------------------------
(* Taking in and answering reads.                                          *)

\* A request of a client only ever lowers what was asked.
AskedLower ==
    /\ asked' \in [Contexts -> Nat]
    /\ \A k \in Contexts : asked'[k] <= asked[k]
    /\ committed' \in Nat /\ committed <= committed'

\* Fresh answers keep ReadFresh.
LEMMA AnswerFresh ==
    ASSUME TypeOK, ReadFresh, AskedLower, NEW f, DOMAIN f \subseteq Contexts,
           \A k \in DOMAIN f : f[k] \in Nat /\ asked'[k] <= f[k] /\ f[k] <= committed',
           answers' = answers \cup Answer(f)
    PROVE  /\ ReadFresh' /\ answers' \subseteq [ctx : Contexts, index : Nat]
           /\ Answered' = Answered \cup DOMAIN f
<1>1. \A a \in answers : a.ctx \in Contexts /\ a.index \in Nat /\ a.ctx \in Answered
  BY DEF TypeOK, Answered
<1>2. \A a \in Answer(f) : a.ctx \in DOMAIN f /\ a.index = f[a.ctx] /\ a = [ctx |-> a.ctx, index |-> f[a.ctx]]
  BY DEF Answer
<1>3. \A k \in DOMAIN f : [ctx |-> k, index |-> f[k]] \in Answer(f)
  BY DEF Answer
<1>4. answers' \subseteq [ctx : Contexts, index : Nat]
  <2>1. \A a \in Answer(f) : a \in [ctx : Contexts, index : Nat]
    BY <1>2
  <2> QED BY <2>1 DEF TypeOK
<1>5. Answered' = Answered \cup DOMAIN f
  <2>1. ASSUME NEW k \in DOMAIN f PROVE k \in Answered'
    <3> DEFINE a == [ctx |-> k, index |-> f[k]]
    <3>1. a \in answers' /\ a.ctx = k
      BY <1>3
    <3> HIDE DEF a
    <3> QED BY <3>1 DEF Answered
  <2>2. \A k \in Answered : k \in Answered'
    BY DEF Answered
  <2>3. \A k \in Answered' : k \in Answered \cup DOMAIN f
    BY <1>2 DEF Answered
  <2> QED BY <2>1, <2>2, <2>3
<1>6. ASSUME NEW a \in answers' PROVE asked'[a.ctx] <= a.index /\ a.index <= committed'
  <2>1. CASE a \in answers
    <3>1. asked[a.ctx] <= a.index /\ a.index <= committed
      BY <2>1 DEF ReadFresh
    <3>2. a.ctx \in Contexts /\ a.index \in Nat /\ asked[a.ctx] \in Nat /\ asked'[a.ctx] \in Nat
      BY <1>1, <2>1 DEF TypeOK, AskedLower
    <3>3. asked'[a.ctx] <= asked[a.ctx] /\ committed <= committed' /\ committed \in Nat /\ committed' \in Nat
      BY <3>2 DEF TypeOK, AskedLower
    <3> QED BY <3>1, <3>2, <3>3
  <2>2. CASE a \in Answer(f)
    BY <1>2, <2>2
  <2> QED BY <2>1, <2>2
<1>7. ReadFresh'
  BY <1>6 DEF ReadFresh
<1> QED BY <1>4, <1>5, <1>7

\* A step without an answer keeps ReadFresh, as asked only falls back.
LEMMA NoAnswerFresh ==
    ASSUME TypeOK, ReadFresh, AskedLower, UNCHANGED answers
    PROVE  ReadFresh' /\ answers' \subseteq [ctx : Contexts, index : Nat] /\ Answered' = Answered
<1>1. answers' \subseteq [ctx : Contexts, index : Nat] /\ Answered' = Answered
  BY DEF TypeOK, Answered
<1>2. ASSUME NEW a \in answers PROVE asked'[a.ctx] <= a.index /\ a.index <= committed'
  <2>1. asked[a.ctx] <= a.index /\ a.index <= committed
    BY DEF ReadFresh
  <2>2. a.ctx \in Contexts /\ a.index \in Nat
    BY DEF TypeOK
  <2>3. /\ asked'[a.ctx] <= asked[a.ctx] /\ committed <= committed' /\ committed \in Nat /\ committed' \in Nat
        /\ asked[a.ctx] \in Nat /\ asked'[a.ctx] \in Nat
    BY <2>2 DEF TypeOK, AskedLower
  <2> QED BY <2>1, <2>2, <2>3
<1>3. ReadFresh'
  BY <1>2 DEF ReadFresh
<1> QED BY <1>1, <1>3

\* What was true of a queued read stays true.
LEMMA QueuedStays ==
    ASSUME TypeOK, RoSound(ro), ReadsSound, AskedLower, NEW c \in Queued(ro)
    PROVE  /\ c \in Contexts /\ ro.pending[c].index \in Nat
           /\ asked'[c] <= ro.pending[c].index /\ ro.pending[c].index <= committed'
<1>1. c \in Contexts /\ ro.pending[c] \in Statuses
  BY RoFacts
<1>2. ro.pending[c].index \in Nat
  BY <1>1 DEF Statuses
<1>3. asked[c] <= ro.pending[c].index /\ ro.pending[c].index <= committed
  BY DEF ReadsSound
<1>4. /\ asked[c] \in Nat /\ asked'[c] \in Nat /\ asked'[c] <= asked[c]
      /\ committed \in Nat /\ committed' \in Nat /\ committed <= committed'
  BY <1>1 DEF TypeOK, AskedLower
<1> QED BY <1>1, <1>2, <1>3, <1>4

\* sendMsgReadIndexResponse for some reads, with the commit index of this moment.
LEMMA SendKeeps ==
    ASSUME RInv, NEW cs \in Seq(Contexts), SendMsgReadIndexResponse(cs, committed'), AskedLower,
           \A i \in 1 .. Len(cs) : asked'[cs[i]] <= committed',
           IsSingleton => Len(cs) = 0 /\ postponed' = <<>>, inTerm' = TRUE,
           postponed' \in Seq(Contexts),
           \A i \in 1 .. Len(postponed') : asked'[postponed'[i]] <= committed'
    PROVE  RInv'
<1> DEFINE S == {cs[i] : i \in 1 .. Len(cs)}
           index == committed'
<1>1. TypeOK /\ RoSound(ro) /\ PhaseSound /\ ReadsSound /\ ReadFresh
  BY DEF RInv
<1>2. Len(cs) \in Nat /\ DOMAIN cs = 1 .. Len(cs) /\ \A i \in 1 .. Len(cs) : cs[i] \in Contexts
  BY LenProperties, ElementOfSeq
<1>3. index \in Nat
  BY DEF AskedLower
<1>4. \A k \in S : k \in Contexts /\ asked'[k] <= index
  BY <1>2
<1>5. IsSingleton => S = {}
  BY <1>2
<1>6. {cs[i] : i \in DOMAIN cs} = S
  BY <1>2
<1>8. CASE Option = ReadOnlySafe
  <2>1. /\ ro' = TakenAll(ro, cs, index) /\ answers' = answers
        /\ heard' = [c \in Contexts |->
                       IF c \in Queued(TakenAll(ro, cs, index)) \ Queued(ro) THEN {Self} ELSE heard[c]]
    BY <1>8 DEF SendMsgReadIndexResponse
  <2>2. TakenFrom(ro, ro', S, index)
    BY <1>1, <1>3, <2>1, TakenAllFrom
  <2> HIDE DEF S
  <2>3. RoSound(ro') /\ Queued(ro') = Queued(ro) \cup S
    BY <2>2 DEF TakenFrom
  <2>4. ReadFresh' /\ answers' \subseteq [ctx : Contexts, index : Nat] /\ Answered' = Answered
    BY <1>1, <2>1, NoAnswerFresh
  <2>5. heard' \in [Contexts -> SUBSET IDs]
    BY <1>1, <2>1, ReadIndexAssumption DEF TypeOK
  <2>6. TypeOK'
    BY <2>4, <2>5 DEF TypeOK, AskedLower
  <2>7. PhaseSound'
    <3>1. IsSingleton => Queued(ro') = {}
      BY <1>1, <1>5, <2>3 DEF PhaseSound
    <3>2. Queued(ro)' = Queued(ro')
      BY DEF Queued
    <3> QED BY <1>8, <3>1, <3>2 DEF PhaseSound
  <2>8. ReadsSound'
    <3>1. ASSUME NEW k \in Queued(ro')
          PROVE  asked'[k] <= ro'.pending[k].index /\ ro'.pending[k].index <= committed'
      <4>1. CASE k \in Queued(ro)
        <5>1. ro'.pending[k].index = ro.pending[k].index
          BY <2>2, <4>1 DEF TakenFrom
        <5> QED BY <1>1, <4>1, <5>1, QueuedStays
      <4>2. CASE k \notin Queued(ro)
        <5>1. k \in S \ Queued(ro)
          BY <2>3, <4>2
        <5>2. ro'.pending[k] = [index |-> index, acks |-> {Self}]
          BY <2>2, <5>1 DEF TakenFrom
        <5>3. ro'.pending[k].index = index
          BY <5>2
        <5> QED BY <1>3, <1>4, <5>1, <5>3
      <4> QED BY <4>1, <4>2
    <3>2. Queued(ro)' = Queued(ro')
      BY DEF Queued
    <3> QED BY <3>1, <3>2 DEF ReadsSound
  <2>9. RoSound(ro)'
    BY <2>3 DEF RoSound, Queued
  <2> QED BY <2>4, <2>6, <2>7, <2>8, <2>9 DEF RInv
<1>9. CASE Option # ReadOnlySafe
  <2> DEFINE f == [c \in S |-> index]
  <2>1. answers' = answers \cup Answer(f) /\ ro' = ro /\ heard' = heard
    BY <1>6, <1>9 DEF SendMsgReadIndexResponse
  <2>2. DOMAIN f = S /\ \A k \in S : f[k] = index
    OBVIOUS
  <2> HIDE DEF S, f
  <2>3. DOMAIN f \subseteq Contexts
    BY <1>4, <2>2
  <2>4. \A k \in DOMAIN f : f[k] \in Nat /\ asked'[k] <= f[k] /\ f[k] <= committed'
    BY <1>3, <1>4, <2>2
  <2>5. ReadFresh' /\ answers' \subseteq [ctx : Contexts, index : Nat]
    BY <1>1, <2>1, <2>3, <2>4, AnswerFresh
  <2>6. TypeOK'
    BY <1>1, <2>1, <2>5 DEF TypeOK, AskedLower
  <2>7. Queued(ro) = {} /\ Queued(ro)' = {}
    BY <1>1, <1>9, <2>1 DEF PhaseSound, Queued
  <2>8. PhaseSound' /\ RoSound(ro)'
    BY <1>1, <2>1, <2>7 DEF PhaseSound, RoSound, Queued
  <2>9. ReadsSound'
    BY <2>7 DEF ReadsSound
  <2> QED BY <2>5, <2>6, <2>8, <2>9 DEF RInv
<1> QED BY <1>8, <1>9

\* What is postponed stays asked for when the commit index rises.
LEMMA PostponedStays ==
    ASSUME TypeOK, ReadsSound, AskedLower, NEW i \in 1 .. Len(postponed)
    PROVE  asked'[postponed[i]] <= committed'
<1>1. postponed[i] \in Contexts
  BY ElementOfSeq DEF TypeOK
<1>2. asked[postponed[i]] <= committed
  BY DEF ReadsSound
<1>3. /\ asked[postponed[i]] \in Nat /\ asked'[postponed[i]] \in Nat
      /\ asked'[postponed[i]] <= asked[postponed[i]]
      /\ committed \in Nat /\ committed' \in Nat /\ committed <= committed'
  BY <1>1 DEF TypeOK, AskedLower
<1> QED BY <1>2, <1>3

\* A step that leaves the answers, the queue and what waits alone.
LEMMA QuietKeeps ==
    ASSUME RInv, UNCHANGED <<committed, inTerm, postponed, ro, answers, asked, heard>>
    PROVE  RInv'
<1>1. /\ committed' = committed /\ inTerm' = inTerm /\ postponed' = postponed /\ ro' = ro
      /\ answers' = answers /\ asked' = asked /\ heard' = heard
  OBVIOUS
<1>2. Queued(ro)' = Queued(ro) /\ Answered' = Answered
  BY <1>1 DEF Queued, Answered
<1>3. TypeOK' /\ ReadFresh' /\ RoSound(ro)'
  BY <1>1, <1>2 DEF RInv, TypeOK, ReadFresh, RoSound
<1>4. PhaseSound'
  BY <1>1, <1>2 DEF RInv, PhaseSound
<1>5. ReadsSound'
  BY <1>1, <1>2 DEF RInv, ReadsSound
<1> QED BY <1>3, <1>4, <1>5 DEF RInv

\* MsgReadIndex of a leader.
LEMMA MsgReadIndexKeeps ==
    ASSUME RInv, NEW c \in Contexts, MsgReadIndex(c)
    PROVE  RInv'
<1>1. TypeOK /\ RoSound(ro) /\ PhaseSound /\ ReadsSound /\ ReadFresh
  BY DEF RInv
<1>2. /\ committed' = committed /\ inTerm' = inTerm
      /\ asked' = [asked EXCEPT ![c] = IF asked[c] > committed THEN committed ELSE asked[c]]
  BY DEF MsgReadIndex
<1>3. AskedLower /\ asked'[c] <= committed
  BY <1>1, <1>2 DEF AskedLower, TypeOK
<1>4. CASE IsSingleton
  <2> DEFINE f == [x \in {c} |-> committed]
  <2>1. answers' = answers \cup Answer(f) /\ UNCHANGED <<postponed, ro, heard>>
    BY <1>4 DEF MsgReadIndex
  <2>2. DOMAIN f = {c} /\ f[c] = committed
    OBVIOUS
  <2> HIDE DEF f
  <2>3. DOMAIN f \subseteq Contexts
    BY <2>2
  <2>4. \A k \in DOMAIN f : f[k] \in Nat /\ asked'[k] <= f[k] /\ f[k] <= committed'
    BY <1>1, <1>2, <1>3, <2>2 DEF TypeOK
  <2>5. ReadFresh' /\ answers' \subseteq [ctx : Contexts, index : Nat]
    BY <1>1, <1>3, <2>1, <2>3, <2>4, AnswerFresh
  <2>6. TypeOK'
    BY <1>1, <1>2, <1>3, <2>1, <2>5 DEF TypeOK, AskedLower
  <2>7. Queued(ro) = {} /\ Queued(ro)' = {} /\ postponed' = <<>> /\ postponed = <<>>
    BY <1>1, <1>4, <2>1 DEF PhaseSound, Queued
  <2>8. PhaseSound' /\ RoSound(ro)'
    BY <1>1, <2>1, <2>7 DEF PhaseSound, RoSound, Queued
  <2>9. Len(postponed') = 0
    BY <2>7, EmptySeq
  <2>10. ReadsSound'
    BY <2>7, <2>9 DEF ReadsSound
  <2> QED BY <2>5, <2>6, <2>8, <2>10 DEF RInv
<1>5. CASE ~IsSingleton /\ inTerm
  <2>1. SendMsgReadIndexResponse(<<c>>, committed) /\ postponed' = postponed
    BY <1>5 DEF MsgReadIndex
  <2>2. <<c>> \in Seq(Contexts) /\ Len(<<c>>) = 1 /\ <<c>>[1] = c
    OBVIOUS
  <2>3. \A i \in 1 .. Len(<<c>>) : asked'[<<c>>[i]] <= committed'
    BY <1>2, <1>3, <2>2
  <2>4. /\ postponed' \in Seq(Contexts)
        /\ \A i \in 1 .. Len(postponed') : asked'[postponed'[i]] <= committed'
    BY <1>1, <1>3, <2>1, PostponedStays DEF TypeOK
  <2>5. inTerm' = TRUE
    BY <1>1, <1>2, <1>5, Zenon DEF TypeOK
  <2>6. SendMsgReadIndexResponse(<<c>>, committed')
    BY <1>2, <2>1
  <2> QED BY <1>3, <1>5, <2>2, <2>3, <2>4, <2>5, <2>6, SendKeeps
<1>6. CASE ~IsSingleton /\ ~inTerm
  <2>1. postponed' = Append(postponed, c) /\ UNCHANGED <<ro, heard, answers>>
    BY <1>6 DEF MsgReadIndex
  <2>2. postponed \in Seq(Contexts) /\ Len(postponed) \in Nat
    BY <1>1, LenProperties DEF TypeOK
  <2>3. /\ postponed' \in Seq(Contexts) /\ Len(postponed') = Len(postponed) + 1
        /\ postponed'[Len(postponed) + 1] = c
        /\ \A i \in 1 .. Len(postponed) : postponed'[i] = postponed[i]
    BY <2>1, <2>2, AppendProperties
  <2>4. ReadFresh' /\ answers' \subseteq [ctx : Contexts, index : Nat] /\ Answered' = Answered
    BY <1>1, <1>3, <2>1, NoAnswerFresh
  <2>5. TypeOK'
    BY <1>1, <1>2, <1>3, <2>1, <2>3, <2>4 DEF TypeOK, AskedLower
  <2>6. PhaseSound' /\ RoSound(ro)' /\ Queued(ro) = {} /\ Queued(ro)' = {}
    <3>1. RoSound(ro)' /\ Queued(ro) = {} /\ Queued(ro)' = {}
      BY <1>1, <1>6, <2>1 DEF PhaseSound, RoSound, Queued
    <3>2. inTerm' = FALSE
      BY <1>1, <1>2, <1>6, Zenon DEF TypeOK
    <3> QED BY <1>6, <3>1, <3>2 DEF PhaseSound
  <2>7. ASSUME NEW i \in 1 .. Len(postponed')
        PROVE  asked'[postponed'[i]] <= committed'
    <3>1. CASE i = Len(postponed) + 1
      BY <1>2, <1>3, <2>3, <3>1
    <3>2. CASE i # Len(postponed) + 1
      <4>1. i \in 1 .. Len(postponed)
        BY <2>2, <2>3, <3>2
      <4> QED BY <1>1, <1>3, <2>3, <4>1, PostponedStays
    <3> QED BY <3>1, <3>2
  <2>8. ReadsSound'
    BY <2>6, <2>7 DEF ReadsSound
  <2> QED BY <2>4, <2>5, <2>6, <2>8 DEF RInv
<1> QED BY <1>4, <1>5, <1>6

\* A commit takes in the reads that waited for it.
LEMMA CommitKeeps ==
    ASSUME RInv, Commit
    PROVE  RInv'
<1>1. TypeOK /\ PhaseSound /\ ReadsSound
  BY DEF RInv
<1>2. /\ committed' = committed + 1 /\ inTerm' = TRUE /\ postponed' = <<>> /\ asked' = asked
      /\ SendMsgReadIndexResponse(postponed, committed + 1)
  BY DEF Commit
<1>3. postponed \in Seq(Contexts) /\ committed \in Nat /\ asked \in [Contexts -> Nat]
  BY <1>1 DEF TypeOK
<1>4. AskedLower
  BY <1>2, <1>3 DEF AskedLower
<1>5. IsSingleton => Len(postponed) = 0
  BY <1>1, EmptySeq DEF PhaseSound
<1>6. \A i \in 1 .. Len(postponed) : asked'[postponed[i]] <= committed'
  BY <1>1, <1>4, PostponedStays
<1>7. SendMsgReadIndexResponse(postponed, committed')
  BY <1>2
<1>8. postponed' \in Seq(Contexts) /\ Len(postponed') = 0
  BY <1>2, EmptySeq
<1> QED BY <1>2, <1>3, <1>4, <1>5, <1>6, <1>7, <1>8, SendKeeps

\* A commit by the leader's own append leaves them waiting.
LEMMA CommitOwnKeeps ==
    ASSUME RInv, CommitOwn
    PROVE  RInv'
<1>1. TypeOK /\ RoSound(ro) /\ PhaseSound /\ ReadsSound /\ ReadFresh
  BY DEF RInv
<1>2. /\ committed' = committed + 1 /\ inTerm' = TRUE
      /\ postponed' = postponed /\ ro' = ro /\ answers' = answers /\ asked' = asked
      /\ heard' = heard
  BY DEF CommitOwn
<1>3. AskedLower
  BY <1>1, <1>2 DEF AskedLower, TypeOK
<1>4. ReadFresh' /\ answers' \subseteq [ctx : Contexts, index : Nat]
  BY <1>1, <1>2, <1>3, NoAnswerFresh
<1>5. TypeOK'
  BY <1>1, <1>2, <1>3, <1>4 DEF TypeOK, AskedLower
<1>6. Queued(ro)' = Queued(ro) /\ RoSound(ro)'
  BY <1>1, <1>2 DEF Queued, RoSound
<1>7. PhaseSound'
  BY <1>1, <1>2, <1>6 DEF PhaseSound
<1>8. ReadsSound'
  BY <1>1, <1>2, <1>3, <1>6, PostponedStays, QueuedStays DEF ReadsSound
<1> QED BY <1>4, <1>5, <1>6, <1>7, <1>8 DEF RInv

\* readOnly.recvAck of any read, known or not.
LEMMA AckAny ==
    ASSUME NEW r, RoSound(r), NEW id \in IDs, NEW c
    PROVE  /\ RoSound(recvAck(r, id, c))
           /\ recvAck(r, id, c).queue = r.queue /\ Queued(recvAck(r, id, c)) = Queued(r)
           /\ Upto(recvAck(r, id, c), c) = Upto(r, c) /\ Confirmed(recvAck(r, id, c), c) = Confirmed(r, c)
           /\ \A k \in Queued(r) :
                /\ recvAck(r, id, c).pending[k].index = r.pending[k].index
                /\ recvAck(r, id, c).pending[k].acks \subseteq
                     r.pending[k].acks \cup (IF k = c THEN {id} ELSE {})
<1> DEFINE n == recvAck(r, id, c)
<1>1. CASE c \in Queued(r)
  <2>1. /\ RoSound(n) /\ n.queue = r.queue /\ Queued(n) = Queued(r)
        /\ \A k \in Queued(r) : n.pending[k] =
             IF k = c THEN [index |-> r.pending[c].index, acks |-> r.pending[c].acks \cup {id}]
             ELSE r.pending[k]
    BY <1>1, AckFacts
  <2> HIDE DEF n
  <2>2. Upto(n, c) = Upto(r, c)
    BY <2>1 DEF Upto
  <2>3. Confirmed(n, c) = Confirmed(r, c)
    BY <2>1, <2>2 DEF Confirmed
  <2>4. ASSUME NEW k \in Queued(r)
        PROVE  /\ n.pending[k].index = r.pending[k].index
               /\ n.pending[k].acks \subseteq r.pending[k].acks \cup (IF k = c THEN {id} ELSE {})
    <3>1. CASE k = c
      <4>1. n.pending[k] = [index |-> r.pending[k].index, acks |-> r.pending[k].acks \cup {id}]
        BY <2>1, <3>1
      <4> QED BY <3>1, <4>1
    <3>2. CASE k # c
      BY <2>1, <3>2
    <3> QED BY <3>1, <3>2
  <2> QED BY <2>1, <2>2, <2>3, <2>4 DEF n
<1>2. CASE c \notin Queued(r)
  <2>1. DOMAIN r.pending = Queued(r)
    BY RoFacts
  <2>2. n = r
    BY <1>2, <2>1 DEF recvAck
  <2> HIDE DEF n
  <2> QED BY <2>2 DEF n
<1> QED BY <1>1, <1>2

\* What an answered heartbeat does: some reads get their answer, or none.
LEMMA HeartbeatRespFacts ==
    ASSUME RInv, NEW h, h.to \in IDs, HeartbeatResp(h)
    PROVE  LET c == h.ctx
               acked == recvAck(ro, h.to, c)
               f == [k \in Confirmed(ro, c) |-> ro.pending[k].index]
           IN  /\ UNCHANGED <<committed, inTerm, postponed, heartbeats, asked, again>>
               /\ heard' = [k \in Contexts |-> IF k \in h.queued \cap Queued(ro)
                                               THEN heard[k] \cup {h.to} ELSE heard[k]]
               /\ \/ /\ JointVoteResult(Acks(acked, c)) = VoteWon
                     /\ ro' = advance(acked, c) /\ answers' = answers \cup Answer(f)
                  \/ ro' = acked /\ answers' = answers
<1> DEFINE c == h.ctx
           acked == recvAck(ro, h.to, c)
           f == [k \in Confirmed(ro, c) |-> ro.pending[k].index]
<1>1. RoSound(ro)
  BY DEF RInv
<1>2. /\ Confirmed(acked, c) = Confirmed(ro, c)
      /\ \A k \in Queued(ro) : acked.pending[k].index = ro.pending[k].index
      /\ Confirmed(ro, c) \subseteq Queued(ro)
  BY <1>1, AckAny, UptoFacts
<1>3. /\ UNCHANGED <<committed, inTerm, postponed, heartbeats, asked, again>>
      /\ heard' = [k \in Contexts |-> IF k \in h.queued \cap Queued(ro)
                                      THEN heard[k] \cup {h.to} ELSE heard[k]]
  BY DEF HeartbeatResp
<1> HIDE DEF acked
<1>4. [k \in Confirmed(acked, c) |-> acked.pending[k].index] = f
  BY <1>2
<1> HIDE DEF f
<1>5. \/ /\ JointVoteResult(Acks(acked, c)) = VoteWon
         /\ ro' = advance(acked, c) /\ answers' = answers \cup Answer(f)
      \/ ro' = acked /\ answers' = answers
  BY <1>4 DEF HeartbeatResp, acked
<1> QED BY <1>3, <1>5 DEF acked, f

\* An acknowledgement keeps the invariant, whatever it confirms.
LEMMA HeartbeatRespKeeps ==
    ASSUME RInv, NEW h, h.to \in IDs, HeartbeatResp(h)
    PROVE  RInv'
<1> DEFINE c == h.ctx
           acked == recvAck(ro, h.to, c)
           done == Confirmed(ro, c)
           f == [k \in done |-> ro.pending[k].index]
<1>1. TypeOK /\ RoSound(ro) /\ PhaseSound /\ ReadsSound /\ ReadFresh
  BY DEF RInv
<1>2. /\ committed' = committed /\ inTerm' = inTerm /\ postponed' = postponed /\ asked' = asked
      /\ heard' = [k \in Contexts |-> IF k \in h.queued \cap Queued(ro)
                                      THEN heard[k] \cup {h.to} ELSE heard[k]]
      /\ \/ ro' = advance(acked, c) /\ answers' = answers \cup Answer(f)
         \/ ro' = acked /\ answers' = answers
  BY HeartbeatRespFacts
<1>3. /\ RoSound(acked) /\ Queued(acked) = Queued(ro) /\ Confirmed(acked, c) = done
      /\ \A k \in Queued(ro) : acked.pending[k].index = ro.pending[k].index
      /\ done \subseteq Queued(ro)
  BY <1>1, AckAny, UptoFacts
<1> HIDE DEF acked
<1>4. AskedLower
  BY <1>1, <1>2 DEF AskedLower, TypeOK
<1>5. \A k \in Queued(ro) : /\ k \in Contexts /\ ro.pending[k].index \in Nat
                            /\ asked'[k] <= ro.pending[k].index /\ ro.pending[k].index <= committed'
  BY <1>1, <1>4, QueuedStays
<1>6. heard' \in [Contexts -> SUBSET IDs]
  BY <1>1, <1>2 DEF TypeOK
<1>7. DOMAIN f = done /\ \A k \in done : f[k] = ro.pending[k].index
  OBVIOUS
<1> HIDE DEF done, f
<1>8. /\ RoSound(ro') /\ Queued(ro') \subseteq Queued(ro)
      /\ \A k \in Queued(ro') : ro'.pending[k].index = ro.pending[k].index
      /\ ReadFresh' /\ answers' \subseteq [ctx : Contexts, index : Nat]
  <2>1. CASE ro' = advance(acked, c) /\ answers' = answers \cup Answer(f)
    <3>1. /\ RoSound(ro') /\ Queued(ro') = Queued(ro) \ done
          /\ \A k \in Queued(ro) \ done : ro'.pending[k] = acked.pending[k]
      BY <1>3, <2>1, AdvanceFacts
    <3>2. \A k \in DOMAIN f : f[k] \in Nat /\ asked'[k] <= f[k] /\ f[k] <= committed'
      BY <1>3, <1>5, <1>7
    <3>3. DOMAIN f \subseteq Contexts
      BY <1>3, <1>5, <1>7
    <3>4. ReadFresh' /\ answers' \subseteq [ctx : Contexts, index : Nat]
      BY <1>1, <1>4, <1>7, <2>1, <3>2, <3>3, AnswerFresh
    <3> QED BY <1>3, <3>1, <3>4
  <2>2. CASE ro' = acked /\ answers' = answers
    <3>1. ReadFresh' /\ answers' \subseteq [ctx : Contexts, index : Nat]
      BY <1>1, <1>4, <2>2, NoAnswerFresh
    <3> QED BY <1>3, <2>2, <3>1
  <2> QED BY <1>2, <2>1, <2>2
<1>9. Queued(ro)' = Queued(ro') /\ RoSound(ro)'
  BY <1>8 DEF Queued, RoSound
<1>10. TypeOK'
  BY <1>1, <1>2, <1>6, <1>8 DEF TypeOK
<1>11. PhaseSound'
  <2>1. Queued(ro) = {} => Queued(ro') = {}
    BY <1>8
  <2> QED BY <1>1, <1>2, <1>9, <2>1 DEF PhaseSound
<1>12. ReadsSound'
  <2>1. \A k \in Queued(ro') :
          asked'[k] <= ro'.pending[k].index /\ ro'.pending[k].index <= committed'
    BY <1>5, <1>8
  <2>2. \A i \in 1 .. Len(postponed) : asked'[postponed[i]] <= committed'
    BY <1>1, <1>4, PostponedStays
  <2> QED BY <1>2, <1>9, <2>1, <2>2 DEF ReadsSound
<1> QED BY <1>8, <1>9, <1>10, <1>11, <1>12 DEF RInv

\* newReadOnly satisfies the invariant.
LEMMA InitReads == Init => RInv
<1> SUFFICES ASSUME Init PROVE RInv
  OBVIOUS
<1>1. /\ committed = 0 /\ inTerm = FALSE /\ postponed = <<>>
      /\ ro = [pending |-> <<>>, queue |-> <<>>] /\ answers = {}
      /\ asked = [c \in Contexts |-> MaxCommit + 1] /\ heard = [c \in Contexts |-> {}]
  BY DEF Init, newReadOnly
<1>2. <<>> \in Seq(Contexts) /\ Len(<<>>) = 0 /\ <<>> \in Seq(Statuses)
  BY EmptySeq
<1>3. {<<>>[i] : i \in 1 .. Len(<<>>)} = {} /\ 1 .. 0 = {}
  BY <1>2
<1>4. <<>> \in [1 .. Len(<<>>) -> Statuses]
  BY <1>2, LenProperties
<1>5. <<>> \in [{<<>>[i] : i \in 1 .. Len(<<>>)} -> Statuses]
  BY <1>2, <1>3, <1>4
<1>6. RoSound(ro) /\ Queued(ro) = {}
  BY <1>1, <1>2, <1>3, <1>5, RoBuild
<1>7. TypeOK
  <2>1. committed \in Nat /\ inTerm \in BOOLEAN /\ postponed \in Seq(Contexts)
    BY <1>1, <1>2
  <2>2. MaxCommit + 1 \in Nat
    BY ReadIndexAssumption
  <2>3. asked \in [Contexts -> Nat]
    BY <1>1, <2>2
  <2>4. heard \in [Contexts -> SUBSET IDs]
    BY <1>1
  <2>5. answers \subseteq [ctx : Contexts, index : Nat]
    BY <1>1
  <2> QED BY <2>1, <2>3, <2>4, <2>5 DEF TypeOK
<1>8. PhaseSound /\ ReadFresh
  BY <1>1, <1>6 DEF PhaseSound, ReadFresh
<1>9. ReadsSound
  BY <1>1, <1>2, <1>6 DEF ReadsSound
<1> QED BY <1>6, <1>7, <1>8, <1>9 DEF RInv

\* Every step keeps it.
LEMMA NextReads == RInv /\ BeatsTyped /\ [Next]_vars => RInv'
<1> SUFFICES ASSUME RInv, BeatsTyped, [Next]_vars PROVE RInv'
  OBVIOUS
<1>1. ASSUME NEW c \in Contexts, MsgReadIndex(c) PROVE RInv'
  BY <1>1, MsgReadIndexKeeps
<1>2. CASE Commit \/ CommitOwn
  BY <1>2, CommitKeeps, CommitOwnKeeps
<1>3. CASE MsgBeat
  <2>1. UNCHANGED <<committed, inTerm, postponed, ro, answers, asked, heard>>
    BY <1>3 DEF MsgBeat
  <2> QED BY <2>1, QuietKeeps
<1>4. ASSUME NEW h \in heartbeats, HeartbeatResp(h) PROVE RInv'
  <2>1. h.to \in IDs
    BY DEF BeatsTyped
  <2> QED BY <1>4, <2>1, HeartbeatRespKeeps
<1>5. CASE Lose
  <2>1. UNCHANGED <<committed, inTerm, postponed, ro, answers, asked, heard>>
    BY <1>5 DEF Lose
  <2> QED BY <2>1, QuietKeeps
<1>6. CASE UNCHANGED vars
  <2>1. UNCHANGED <<committed, inTerm, postponed, ro, answers, asked, heard>>
    BY <1>6 DEF vars
  <2> QED BY <2>1, QuietKeeps
<1> QED BY <1>1, <1>2, <1>3, <1>4, <1>5, <1>6 DEF Next

\* Every heartbeat is sent to a voter, with the context of a read.
LEMMA NextBeats ==
    ASSUME RInv, RInv', BeatsTyped, [Next]_vars
    PROVE  BeatsTyped'
<1>1. RoSound(ro) /\ TypeOK /\ postponed \in Seq(Contexts)
  BY DEF RInv, TypeOK
<1>2. ASSUME NEW r, NEW c \in Contexts, RoSound(r)
      PROVE  Broadcast(c, r) \subseteq [to : IDs, ctx : Contexts, queued : SUBSET Contexts]
  BY <1>2, RoFacts DEF Broadcast
<1>3. ASSUME NEW cs \in Seq(Contexts), NEW index \in Nat, SendMsgReadIndexResponse(cs, index)
      PROVE  BeatsTyped'
  <2>1. CASE Option = ReadOnlySafe
    <3>1. /\ ro' = TakenAll(ro, cs, index)
          /\ heartbeats' = heartbeats \cup
                UNION {Broadcast(c, TakenAll(ro, cs, index)) : c \in {cs[i] : i \in DOMAIN cs}}
      BY <1>3, <2>1 DEF SendMsgReadIndexResponse
    <3>2. RoSound(ro')
      BY DEF RInv, RoSound, Queued
    <3>3. \A c \in {cs[i] : i \in DOMAIN cs} : c \in Contexts
      BY LenProperties, ElementOfSeq
    <3> QED BY <1>2, <3>1, <3>2, <3>3 DEF BeatsTyped
  <2>2. CASE Option # ReadOnlySafe
    <3>1. heartbeats' = heartbeats
      BY <1>3, <2>2 DEF SendMsgReadIndexResponse
    <3> QED BY <3>1 DEF BeatsTyped
  <2> QED BY <2>1, <2>2
<1>4. ASSUME heartbeats' \subseteq heartbeats PROVE BeatsTyped'
  BY <1>4 DEF BeatsTyped
<1>5. ASSUME NEW c \in Contexts, MsgReadIndex(c) PROVE BeatsTyped'
  <2>1. heartbeats' = heartbeats \/ SendMsgReadIndexResponse(<<c>>, committed)
    BY <1>5 DEF MsgReadIndex
  <2>2. <<c>> \in Seq(Contexts) /\ committed \in Nat
    BY <1>1 DEF TypeOK
  <2> QED BY <1>3, <1>4, <2>1, <2>2
<1>6. CASE Commit
  <2>1. SendMsgReadIndexResponse(postponed, committed + 1) /\ committed + 1 \in Nat
    BY <1>1, <1>6 DEF Commit, TypeOK
  <2> QED BY <1>1, <1>3, <2>1
<1>7. CASE MsgBeat
  <2>1. heartbeats' = heartbeats \cup Broadcast(lastPendingRequestCtx(ro), ro) /\ ro.queue # <<>>
    BY <1>7 DEF MsgBeat
  <2>2. lastPendingRequestCtx(ro) \in Contexts
    <3>1. ro.queue \in Seq(Contexts)
      BY <1>1, RoFacts
    <3>2. Len(ro.queue) \in 1 .. Len(ro.queue)
      BY <2>1, <3>1, LenProperties, EmptySeq
    <3> QED BY <3>1, <3>2, ElementOfSeq DEF lastPendingRequestCtx
  <2> QED BY <1>1, <1>2, <2>1, <2>2 DEF BeatsTyped
<1>8. CASE CommitOwn \/ Lose \/ UNCHANGED vars
  <2>1. heartbeats' \subseteq heartbeats
    BY <1>8 DEF CommitOwn, Lose, vars
  <2> QED BY <1>4, <2>1
<1>9. ASSUME NEW h \in heartbeats, HeartbeatResp(h) PROVE BeatsTyped'
  <2>1. heartbeats' = heartbeats
    BY <1>9 DEF HeartbeatResp
  <2> QED BY <1>4, <2>1
<1> QED BY <1>5, <1>6, <1>7, <1>8, <1>9 DEF Next

\* At all times queue and map agree and every read is on its way with an
\* index that is neither stale nor ahead (read_only.go, raft.go:444).
THEOREM ReadsInvariant == Spec => [](RInv /\ BeatsTyped)
<1>1. Init => RInv /\ BeatsTyped
  BY InitReads DEF Init, BeatsTyped
<1>2. RInv /\ BeatsTyped /\ [Next]_vars => (RInv /\ BeatsTyped)'
  BY NextReads, NextBeats
<1> QED BY <1>1, <1>2, PTL DEF Spec

\* The queue and the map of readOnly hold the same reads, each one once.
THEOREM QueueStaysMap == Spec => []QueueIsMap
<1>1. RInv => QueueIsMap
  BY RoFacts, QueueCount DEF RInv, QueueIsMap
<1> QED BY <1>1, ReadsInvariant, PTL

\* Every answer to a read has an index that is not below the commit index of
\* the time the client first asked, and is committed, in each of the two modes
\* (raft.go:936), also when reads come twice and commits leave them waiting.
THEOREM ReadsAreFresh == Spec => []ReadFresh
<1>1. RInv => ReadFresh
  BY DEF RInv
<1> QED BY <1>1, ReadsInvariant, PTL

-----------------------------------------------------------------------------
(* Who has heard of a read, in ReadOnlySafe.                               *)

Quorum(S) == JointVoteResult([id \in S |-> TRUE]) = VoteWon

\* A set that holds a quorum is one.
LEMMA QuorumGrows ==
    ASSUME NEW A, NEW B, A \subseteq B, Quorum(A)
    PROVE  Quorum(B)
<1> DEFINE v == [id \in A |-> TRUE]
           w == [id \in B |-> TRUE]
<1>1. \A m : Yes(m, v) = m \cap A /\ Yes(m, w) = m \cap B
  BY DEF Yes
<1>2. \A m : \A x : MajorityVoteResult(m, x) \in {VoteWon, VoteLost, VotePending}
  BY DEF MajorityVoteResult
<1>3. JointVoteResult(v) = VoteWon
  BY DEF Quorum
<1> HIDE DEF v, w
<1>4. MajorityVoteResult(Incoming, v) = VoteWon /\ MajorityVoteResult(Outgoing, v) = VoteWon
  BY <1>2, <1>3 DEF JointVoteResult, VoteWon, VoteLost, VotePending
<1>5. ASSUME NEW m, IsFiniteSet(m), MajorityVoteResult(m, v) = VoteWon
      PROVE  MajorityVoteResult(m, w) = VoteWon
  <2> DEFINE n == Cardinality(m)
             y == Cardinality(Yes(m, v))
             z == Cardinality(Yes(m, w))
  <2>1. Yes(m, v) \subseteq Yes(m, w) /\ Yes(m, w) \subseteq m
    BY <1>1
  <2>2. IsFiniteSet(Yes(m, w)) /\ IsFiniteSet(Yes(m, v)) /\ y <= z
    BY <1>5, <2>1, FS_Subset
  <2>3. n \in Nat /\ y \in Nat /\ z \in Nat
    BY <1>5, <2>2, FS_CardinalityType
  <2>4. m = {} \/ y >= n \div 2 + 1
    BY <1>5 DEF MajorityVoteResult, VoteWon, VoteLost, VotePending
  <2>5. (m = {} \/ z >= n \div 2 + 1) => MajorityVoteResult(m, w) = VoteWon
    BY DEF MajorityVoteResult
  <2> HIDE DEF n, y, z
  <2>6. y >= n \div 2 + 1 => z >= n \div 2 + 1
    BY <2>2, <2>3
  <2> QED BY <2>4, <2>5, <2>6
<1>6. MajorityVoteResult(Incoming, w) = VoteWon /\ MajorityVoteResult(Outgoing, w) = VoteWon
  BY <1>4, <1>5, VotersAssumption
<1> QED BY <1>6 DEF Quorum, JointVoteResult, w

\* Steps that neither queue, confirm nor send anything.
LEMMA QuietHeard ==
    ASSUME HInv, UNCHANGED <<ro, heard, again>>, heartbeats' \subseteq heartbeats,
           answers \subseteq answers'
    PROVE  HInv'
<1>1. Answered \subseteq Answered' /\ Queued(ro)' = Queued(ro)
  BY DEF Answered, Queued
<1>2. HeardSound => HeardSound'
  BY <1>1 DEF HeardSound
<1>3. BeatsCover => BeatsCover'
  BY <1>1 DEF BeatsCover
<1> QED BY <1>2, <1>3 DEF HInv

\* The ticker's heartbeat covers every read that is queued.
LEMMA BeatHeard ==
    ASSUME RInv, HInv, MsgBeat
    PROVE  HInv'
<1>1. RoSound(ro)
  BY DEF RInv
<1>2. /\ ro.queue \in Seq(Contexts) /\ Len(ro.queue) \in Nat
      /\ \A i \in 1 .. Len(ro.queue) : ro.queue[i] \in Queued(ro)
  BY <1>1, RoFacts
<1>3. /\ heartbeats' = heartbeats \cup Broadcast(lastPendingRequestCtx(ro), ro)
      /\ ro.queue # <<>> /\ UNCHANGED <<ro, heard, again, answers>>
  BY DEF MsgBeat
<1>4. lastPendingRequestCtx(ro) \in Queued(ro)
  <2>1. Len(ro.queue) \in 1 .. Len(ro.queue)
    BY <1>2, <1>3, LenProperties, EmptySeq
  <2> QED BY <1>2, <2>1 DEF lastPendingRequestCtx
<1>5. \A h \in heartbeats' : h \in heartbeats \/ (h.ctx \in Queued(ro) /\ h.queued = Queued(ro))
  BY <1>3, <1>4 DEF Broadcast
<1>6. Answered' = Answered /\ Queued(ro)' = Queued(ro)
  BY <1>3 DEF Answered, Queued
<1>7. BeatsCover => BeatsCover'
  BY <1>2, <1>3, <1>5, <1>6 DEF BeatsCover
<1>8. HeardSound => HeardSound'
  BY <1>3, <1>6 DEF HeardSound
<1> QED BY <1>3, <1>7, <1>8 DEF HInv

\* Taking in reads, in ReadOnlySafe: a read that is new was not answered, so
\* that no heartbeat of an earlier time carries its context.
LEMMA SendHeard ==
    ASSUME RInv, RInv', HInv, Option = ReadOnlySafe, NEW cs \in Seq(Contexts), NEW index \in Nat,
           SendMsgReadIndexResponse(cs, index)
    PROVE  HInv'
<1> SUFFICES ASSUME ~again' PROVE HeardSound' /\ BeatsCover'
  BY DEF HInv
<1> DEFINE S == {cs[i] : i \in 1 .. Len(cs)}
           n == Len(ro.queue)
<1>1. RoSound(ro) /\ ReadsSound /\ TypeOK
  BY DEF RInv
<1>0. DOMAIN cs = 1 .. Len(cs)
  BY LenProperties
<1>2. /\ ro' = TakenAll(ro, cs, index) /\ answers' = answers
      /\ heard' = [c \in Contexts |->
                     IF c \in Queued(TakenAll(ro, cs, index)) \ Queued(ro) THEN {Self} ELSE heard[c]]
      /\ heartbeats' = heartbeats \cup UNION {Broadcast(c, TakenAll(ro, cs, index)) : c \in S}
      /\ again' = (again \/ (Queued(TakenAll(ro, cs, index)) \ Queued(ro)) \cap Answered # {})
  BY <1>0 DEF SendMsgReadIndexResponse
<1>3. TakenFrom(ro, ro', S, index)
  BY <1>1, <1>2, TakenAllFrom
<1>4. heard' = [c \in Contexts |-> IF c \in Queued(ro') \ Queued(ro) THEN {Self} ELSE heard[c]]
  BY <1>2
<1>20. ~again /\ (Queued(ro') \ Queued(ro)) \cap Answered = {}
  BY <1>2
<1>21. HeardSound /\ BeatsCover
  BY <1>20 DEF HInv
<1>22. \A h \in heartbeats' : h \in heartbeats \/ (h.ctx \in S /\ h.queued = Queued(ro'))
  BY <1>2 DEF Broadcast
<1>23. Answered' = Answered
  BY <1>2 DEF Answered
<1> HIDE DEF S
<1>5. /\ RoSound(ro') /\ Queued(ro') = Queued(ro) \cup S /\ n <= Len(ro'.queue)
      /\ \A i \in 1 .. n : ro'.queue[i] = ro.queue[i]
      /\ \A k \in Queued(ro) : ro'.pending[k].acks \subseteq ro.pending[k].acks \cup {Self}
      /\ \A k \in S \ Queued(ro) : ro'.pending[k] = [index |-> index, acks |-> {Self}]
  BY <1>3 DEF TakenFrom
<1>6. /\ n \in Nat /\ Queued(ro) = {ro.queue[i] : i \in 1 .. n}
      /\ \A i \in 1 .. n : ro.queue[i] \in Queued(ro)
  BY <1>1, RoFacts
<1>7. /\ Len(ro'.queue) \in Nat /\ Queued(ro') \subseteq Contexts
      /\ \A i \in 1 .. Len(ro'.queue) : ro'.queue[i] \in Queued(ro')
      /\ \A i, j \in 1 .. Len(ro'.queue) : ro'.queue[i] = ro'.queue[j] => i = j
  BY <1>5, RoFacts
<1>19. \A i, j \in 1 .. n : i <= j => ro.pending[ro.queue[j]].acks \subseteq heard[ro.queue[i]]
  BY <1>21 DEF HeardSound
<1>24. \A h \in heartbeats : /\ h.ctx \in Queued(ro) \cup Answered
                             /\ \A i, j \in 1 .. n : i <= j /\ h.ctx = ro.queue[j]
                                                       => ro.queue[i] \in h.queued
  BY <1>21 DEF BeatsCover
<1> HIDE DEF n
<1>8. Queued(ro)' = Queued(ro')
  BY DEF Queued
<1>9. \A k \in Queued(ro') : heard'[k] = IF k \in Queued(ro) THEN heard[k] ELSE {Self}
  BY <1>4, <1>7
<1>10. \A k \in Queued(ro') : Self \in heard'[k]
  BY <1>9, <1>21 DEF HeardSound
<1>11. ASSUME NEW j \in 1 .. Len(ro'.queue), j \notin 1 .. n
       PROVE  ro'.queue[j] \notin Queued(ro) /\ ro'.pending[ro'.queue[j]].acks = {Self}
  <2>1. ro'.queue[j] \notin Queued(ro)
    <3> SUFFICES ASSUME ro'.queue[j] \in Queued(ro) PROVE FALSE
      OBVIOUS
    <3>1. PICK m \in 1 .. n : ro'.queue[j] = ro.queue[m]
      BY <1>6
    <3>2. m \in 1 .. Len(ro'.queue) /\ ro'.queue[j] = ro'.queue[m]
      BY <1>5, <1>6, <1>7, <3>1
    <3>3. j = m
      BY <1>7, <3>2
    <3> QED BY <1>11, <3>3
  <2>2. ro'.queue[j] \in S \ Queued(ro)
    BY <1>5, <1>7, <2>1
  <2>3. ro'.pending[ro'.queue[j]] = [index |-> index, acks |-> {Self}]
    BY <1>5, <2>2
  <2> QED BY <2>1, <2>3
<1>12. ASSUME NEW i \in 1 .. Len(ro'.queue), NEW j \in 1 .. Len(ro'.queue), i <= j
       PROVE  ro'.pending[ro'.queue[j]].acks \subseteq heard'[ro'.queue[i]]
  <2>1. ro'.queue[i] \in Queued(ro')
    BY <1>7
  <2>2. CASE j \notin 1 .. n
    BY <1>10, <1>11, <2>1, <2>2
  <2>3. CASE j \in 1 .. n
    <3>1. i \in 1 .. n
      BY <1>6, <1>12, <2>3
    <3>2. /\ ro'.queue[i] = ro.queue[i] /\ ro'.queue[j] = ro.queue[j]
          /\ ro.queue[i] \in Queued(ro) /\ ro.queue[j] \in Queued(ro)
      BY <1>5, <1>6, <2>3, <3>1
    <3>3. ro.pending[ro.queue[j]].acks \subseteq heard[ro.queue[i]]
      BY <1>12, <1>19, <2>3, <3>1
    <3>4. heard'[ro'.queue[i]] = heard[ro.queue[i]] /\ Self \in heard[ro.queue[i]]
      BY <1>9, <1>21, <2>1, <3>2 DEF HeardSound
    <3>5. ro'.pending[ro'.queue[j]].acks \subseteq ro.pending[ro.queue[j]].acks \cup {Self}
      BY <1>5, <3>2
    <3> QED BY <3>3, <3>4, <3>5
  <2> QED BY <2>2, <2>3
<1>13. HeardSound'
  BY <1>8, <1>10, <1>12 DEF HeardSound
<1>14. ASSUME NEW h \in heartbeats'
       PROVE  /\ h.ctx \in Queued(ro') \cup Answered
              /\ \A i, j \in 1 .. Len(ro'.queue) :
                   (i <= j /\ h.ctx = ro'.queue[j]) => ro'.queue[i] \in h.queued
  <2>1. CASE h \notin heartbeats
    <3>1. h.ctx \in S /\ h.queued = Queued(ro')
      BY <1>22, <2>1
    <3> QED BY <1>5, <1>7, <3>1
  <2>2. CASE h \in heartbeats
    <3>1. h.ctx \in Queued(ro) \cup Answered
      BY <1>24, <2>2
    <3>2. ASSUME NEW i \in 1 .. Len(ro'.queue), NEW j \in 1 .. Len(ro'.queue), i <= j,
                 h.ctx = ro'.queue[j]
          PROVE  ro'.queue[i] \in h.queued
      <4>1. h.ctx \in Queued(ro')
        BY <1>7, <3>2
      <4>2. h.ctx \in Queued(ro)
        BY <1>20, <3>1, <4>1
      <4>3. j \in 1 .. n
        BY <1>11, <3>2, <4>2
      <4>4. i \in 1 .. n
        BY <1>6, <3>2, <4>3
      <4>5. ro'.queue[i] = ro.queue[i] /\ ro'.queue[j] = ro.queue[j]
        BY <1>5, <4>3, <4>4
      <4> QED BY <1>24, <2>2, <3>2, <4>3, <4>4, <4>5
    <3> QED BY <1>5, <3>1, <3>2
  <2> QED BY <2>1, <2>2
<1>15. BeatsCover'
  BY <1>8, <1>14, <1>23 DEF BeatsCover
<1> QED BY <1>13, <1>15

\* An answered heartbeat: whoever acknowledges a read has heard of all reads
\* before it, so that those which leave have been heard by a quorum.
LEMMA AckHeard ==
    ASSUME RInv, RInv', HInv, BeatsTyped, NEW h \in heartbeats, HeartbeatResp(h), ~again'
    PROVE  /\ HeardSound' /\ BeatsCover'
           /\ \A k \in Queued(ro) \ Queued(ro') : Quorum(heard'[k])
<1> DEFINE c == h.ctx
           id == h.to
           acked == recvAck(ro, id, c)
           done == Confirmed(ro, c)
           f == [k \in done |-> ro.pending[k].index]
           n == Len(ro.queue)
           u == Upto(ro, c)
           told == h.queued \cap Queued(ro)
<1>1. RoSound(ro) /\ ReadsSound /\ TypeOK /\ id \in IDs
  BY DEF RInv, BeatsTyped
<1>2. /\ heard' = [k \in Contexts |-> IF k \in told THEN heard[k] \cup {id} ELSE heard[k]]
      /\ heartbeats' = heartbeats /\ again' = again
      /\ \/ /\ JointVoteResult(Acks(acked, c)) = VoteWon
            /\ ro' = advance(acked, c) /\ answers' = answers \cup Answer(f)
         \/ ro' = acked /\ answers' = answers
  BY <1>1, HeartbeatRespFacts
<1>3. /\ RoSound(acked) /\ acked.queue = ro.queue /\ Queued(acked) = Queued(ro)
      /\ Upto(acked, c) = u /\ Confirmed(acked, c) = done
      /\ \A k \in Queued(ro) :
           acked.pending[k].acks \subseteq ro.pending[k].acks \cup (IF k = c THEN {id} ELSE {})
  BY <1>1, AckAny
<1>4. /\ u \in 0 .. n /\ done \subseteq Queued(ro)
      /\ c \in Queued(ro) => u # 0 /\ ro.queue[u] = c
      /\ c \notin Queued(ro) => done = {}
      /\ \A i \in 1 .. n : ro.queue[i] \in done <=> i <= u
  BY <1>1, UptoFacts
<1>5. /\ n \in Nat /\ Queued(ro) = {ro.queue[i] : i \in 1 .. n} /\ Queued(ro) \subseteq Contexts
      /\ \A i \in 1 .. n : ro.queue[i] \in Queued(ro)
      /\ \A i, j \in 1 .. n : ro.queue[i] = ro.queue[j] => i = j
  BY <1>1, RoFacts
<1>6. DOMAIN f = done
  OBVIOUS
<1>20. HeardSound /\ BeatsCover
  BY <1>2 DEF HInv
<1>21. \A k \in told : k \in Queued(ro)
  OBVIOUS
<1>22. \A i, j \in 1 .. n : i <= j /\ c = ro.queue[j] => ro.queue[i] \in told
  BY <1>5, <1>20 DEF BeatsCover
<1>23. \A i, j \in 1 .. n : i <= j => ro.pending[ro.queue[j]].acks \subseteq heard[ro.queue[i]]
  BY <1>20 DEF HeardSound
<1>24. \A g \in heartbeats : /\ g.ctx \in Queued(ro) \cup Answered
                             /\ \A i, j \in 1 .. n : i <= j /\ g.ctx = ro.queue[j]
                                                       => ro.queue[i] \in g.queued
  BY <1>20 DEF BeatsCover
<1> HIDE DEF acked, done, f, u, told, n
<1>7. \A k \in Contexts : heard[k] \subseteq heard'[k] /\ (k \in told => id \in heard'[k])
  BY <1>2
<1>8. ASSUME NEW i \in 1 .. n, NEW j \in 1 .. n, i <= j
      PROVE  acked.pending[ro.queue[j]].acks \subseteq heard'[ro.queue[i]]
  <2>1. ro.pending[ro.queue[j]].acks \subseteq heard[ro.queue[i]]
    BY <1>8, <1>23
  <2>2. /\ ro.queue[i] \in Contexts /\ ro.queue[j] \in Queued(ro)
        /\ heard[ro.queue[i]] \subseteq heard'[ro.queue[i]]
    BY <1>5, <1>7
  <2>3. CASE ro.queue[j] = c
    <3>3. id \in heard'[ro.queue[i]]
      BY <1>22, <1>7, <1>8, <2>2, <2>3
    <3>4. acked.pending[ro.queue[j]].acks \subseteq ro.pending[ro.queue[j]].acks \cup {id}
      BY <1>3, <2>2, <2>3
    <3> QED BY <2>1, <2>2, <3>3, <3>4
  <2>4. CASE ro.queue[j] # c
    <3>1. acked.pending[ro.queue[j]].acks \subseteq ro.pending[ro.queue[j]].acks
      BY <1>3, <2>2, <2>4
    <3> QED BY <2>1, <2>2, <3>1
  <2> QED BY <2>3, <2>4
<1>9. \A k \in Queued(ro) : Self \in heard'[k]
  BY <1>5, <1>7, <1>20 DEF HeardSound
<1>11. Queued(ro)' = Queued(ro')
  BY DEF Queued
<1>12. CASE ro' = acked /\ answers' = answers
  <2>1. HeardSound'
    BY <1>3, <1>8, <1>9, <1>11, <1>12 DEF HeardSound, n
  <2>2. Answered' = Answered
    BY <1>12 DEF Answered
  <2>3. BeatsCover'
    BY <1>2, <1>3, <1>11, <1>12, <1>24, <2>2 DEF BeatsCover, n
  <2>4. Queued(ro) \ Queued(ro') = {}
    BY <1>3, <1>12
  <2> QED BY <2>1, <2>3, <2>4
<1>13. CASE /\ JointVoteResult(Acks(acked, c)) = VoteWon
            /\ ro' = advance(acked, c) /\ answers' = answers \cup Answer(f)
  <2>1. /\ Queued(ro') = Queued(ro) \ done /\ Len(ro'.queue) = n - u
        /\ \A i \in 1 .. n - u : ro'.queue[i] = ro.queue[u + i]
        /\ \A k \in Queued(ro) \ done : ro'.pending[k] = acked.pending[k]
    BY <1>3, <1>13, AdvanceFacts DEF n
  <2>2. ASSUME NEW i \in 1 .. Len(ro'.queue), NEW j \in 1 .. Len(ro'.queue), i <= j
        PROVE  /\ ro'.pending[ro'.queue[j]].acks \subseteq heard'[ro'.queue[i]]
               /\ \A g \in heartbeats : g.ctx = ro'.queue[j] => ro'.queue[i] \in g.queued
    <3>1. /\ u + i \in 1 .. n /\ u + j \in 1 .. n /\ u + i <= u + j /\ ~(u + j <= u)
          /\ i \in 1 .. n - u /\ j \in 1 .. n - u
      BY <1>4, <1>5, <2>1, <2>2
    <3>2. ro'.queue[i] = ro.queue[u + i] /\ ro'.queue[j] = ro.queue[u + j]
      BY <2>1, <3>1
    <3>3. ro.queue[u + j] \in Queued(ro) \ done
      BY <1>4, <1>5, <3>1
    <3>4. ro'.pending[ro.queue[u + j]] = acked.pending[ro.queue[u + j]]
      BY <2>1, <3>3
    <3>5. acked.pending[ro.queue[u + j]].acks \subseteq heard'[ro.queue[u + i]]
      BY <1>8, <3>1
    <3>6. \A g \in heartbeats : g.ctx = ro.queue[u + j] => ro.queue[u + i] \in g.queued
      BY <1>24, <3>1
    <3> QED BY <3>2, <3>4, <3>5, <3>6
  <2>3. \A k \in Queued(ro') : Self \in heard'[k]
    BY <1>9, <2>1
  <2>4. HeardSound'
    BY <1>11, <2>2, <2>3 DEF HeardSound
  <2>5. ASSUME NEW k \in done PROVE Quorum(heard'[k])
    <3>1. c \in Queued(ro) /\ u \in 1 .. n /\ ro.queue[u] = c
      BY <1>4, <1>5, <2>5
    <3>2. PICK i \in 1 .. n : k = ro.queue[i]
      BY <1>4, <1>5, <2>5
    <3>3. i <= u
      BY <1>4, <2>5, <3>2
    <3>4. acked.pending[c].acks \subseteq heard'[k]
      BY <1>8, <3>1, <3>2, <3>3
    <3>5. DOMAIN acked.pending = Queued(ro)
      BY <1>3, RoFacts
    <3>6. Quorum(acked.pending[c].acks)
      BY <1>13, <3>1, <3>5 DEF Acks, Quorum
    <3> QED BY <3>4, <3>6, QuorumGrows
  <2>6. Answered \subseteq Answered' /\ done \subseteq Answered'
    <3>1. \A k \in done : [ctx |-> k, index |-> f[k]] \in answers'
      BY <1>6, <1>13 DEF Answer
    <3>2. \A k \in done : [ctx |-> k, index |-> f[k]].ctx = k
      OBVIOUS
    <3>3. done \subseteq Answered'
      BY <3>1, <3>2 DEF Answered
    <3>4. Answered \subseteq Answered'
      BY <1>13 DEF Answered
    <3> QED BY <3>3, <3>4
  <2>7. \A g \in heartbeats : g.ctx \in Queued(ro') \cup Answered'
    BY <1>24, <2>1, <2>6
  <2>8. BeatsCover'
    BY <1>2, <1>11, <2>2, <2>7 DEF BeatsCover
  <2> QED BY <1>4, <2>1, <2>4, <2>5, <2>8
<1> QED BY <1>2, <1>12, <1>13

\* What LeavesConfirmed says of a step.
Leave == ~again' => \A c \in Queued(ro) \ Queued(ro') : HeardQuorum(c)'

\* Every step keeps what was heard, and lets only reads go of which a quorum
\* has heard.
LEMMA NextHeard ==
    ASSUME RInv, RInv', BeatsTyped, HInv, [Next]_vars
    PROVE  HInv' /\ Leave
<1>1. committed \in Nat /\ postponed \in Seq(Contexts) /\ RoSound(ro)
  BY DEF RInv, TypeOK
<1>2. ASSUME ro' = ro PROVE Leave
  BY <1>2 DEF Leave
<1>3. ASSUME NEW cs \in Seq(Contexts), NEW index \in Nat, SendMsgReadIndexResponse(cs, index)
      PROVE  HInv' /\ Leave
  <2>1. CASE Option = ReadOnlySafe
    <3>1. HInv'
      BY <1>3, <2>1, SendHeard
    <3>2. ro' = TakenAll(ro, cs, index)
      BY <1>3, <2>1 DEF SendMsgReadIndexResponse
    <3> DEFINE S == {cs[i] : i \in 1 .. Len(cs)}
    <3>4. TakenFrom(ro, ro', S, index)
      BY <1>1, <3>2, TakenAllFrom
    <3> HIDE DEF S
    <3>3. Queued(ro) \subseteq Queued(ro')
      BY <3>4 DEF TakenFrom
    <3> QED BY <3>1, <3>3 DEF Leave
  <2>2. CASE Option # ReadOnlySafe
    <3>1. UNCHANGED <<ro, heard, again>> /\ heartbeats' \subseteq heartbeats /\ answers \subseteq answers'
      BY <1>3, <2>2 DEF SendMsgReadIndexResponse
    <3> QED BY <1>2, <3>1, QuietHeard
  <2> QED BY <2>1, <2>2
<1>4. ASSUME NEW c \in Contexts, MsgReadIndex(c) PROVE HInv' /\ Leave
  <2>1. CASE SendMsgReadIndexResponse(<<c>>, committed)
    <3>1. <<c>> \in Seq(Contexts)
      OBVIOUS
    <3> QED BY <1>1, <1>3, <2>1, <3>1
  <2>2. CASE ~SendMsgReadIndexResponse(<<c>>, committed)
    <3>1. UNCHANGED <<ro, heard, again>> /\ heartbeats' \subseteq heartbeats /\ answers \subseteq answers'
      BY <1>4, <2>2 DEF MsgReadIndex
    <3> QED BY <1>2, <3>1, QuietHeard
  <2> QED BY <2>1, <2>2
<1>5. CASE Commit
  <2>1. SendMsgReadIndexResponse(postponed, committed + 1) /\ committed + 1 \in Nat
    BY <1>1, <1>5 DEF Commit
  <2> QED BY <1>1, <1>3, <2>1
<1>6. CASE CommitOwn \/ Lose \/ UNCHANGED vars
  <2>1. UNCHANGED <<ro, heard, again>> /\ heartbeats' \subseteq heartbeats /\ answers \subseteq answers'
    BY <1>6 DEF CommitOwn, Lose, vars
  <2> QED BY <1>2, <2>1, QuietHeard
<1>7. CASE MsgBeat
  <2>1. ro' = ro
    BY <1>7 DEF MsgBeat
  <2> QED BY <1>2, <1>7, <2>1, BeatHeard
<1>8. ASSUME NEW h \in heartbeats, HeartbeatResp(h) PROVE HInv' /\ Leave
  <2>1. CASE again'
    BY <2>1 DEF HInv, Leave
  <2>2. CASE ~again'
    <3>1. /\ HeardSound' /\ BeatsCover'
          /\ \A k \in Queued(ro) \ Queued(ro') : Quorum(heard'[k])
      BY <1>8, <2>2, AckHeard
    <3>2. \A k : HeardQuorum(k)' <=> Quorum(heard'[k])
      BY DEF HeardQuorum, Quorum, JointVoteResult, MajorityVoteResult, Yes
    <3> QED BY <3>1, <3>2 DEF HInv, Leave
  <2> QED BY <2>1, <2>2
<1> QED BY <1>4, <1>5, <1>6, <1>7, <1>8 DEF Next

\* raft.go:44: a read leaves the queue only when a quorum has answered
\* heartbeats that were sent after it was queued, in every configuration and
\* for all numbers of reads, until one is queued a second time.
THEOREM ReadsLeaveConfirmed == Spec => LeavesConfirmed
<1>1. Init /\ RInv => HInv
  <2> SUFFICES ASSUME Init, RInv PROVE HeardSound /\ BeatsCover
    BY DEF HInv
  <2>1. heartbeats = {} /\ ro.queue = <<>> /\ RoSound(ro)
    BY DEF Init, newReadOnly, RInv
  <2>2. Len(ro.queue) = 0 /\ Queued(ro) = {ro.queue[i] : i \in 1 .. Len(ro.queue)}
    BY <2>1, RoFacts, EmptySeq
  <2>3. 1 .. Len(ro.queue) = {} /\ Queued(ro) = {}
    BY <2>2
  <2> QED BY <2>1, <2>3 DEF HeardSound, BeatsCover
<1>2. RInv /\ RInv' /\ BeatsTyped /\ HInv /\ [Next]_vars => HInv' /\ [Leave]_vars
  BY NextHeard
<1>3. LeavesConfirmed <=> [][Leave]_vars
  BY DEF LeavesConfirmed, Leave
<1> QED BY <1>1, <1>2, <1>3, ReadsInvariant, PTL DEF Spec
=============================================================================
