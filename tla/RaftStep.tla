----------------------------- MODULE RaftStep ------------------------------
(***************************************************************************)
(* raft/raft.go: Step, the three step functions and the two ticks, for the *)
(* instances of a small cluster and an unreliable network between them.    *)
(* Elections, terms, commit and the transfer of leadership; pacing of      *)
(* MsgApp is in Progress, reads in ReadIndex, the log in RaftLog.          *)
(*                                                                         *)
(* send panics unless exactly the vote messages carry a term, so all other *)
(* messages have term 0 and Step takes them for local ones.  A request for *)
(* a pre-vote carries one: sending it is the panic "prevote".  Every vote  *)
(* is answered with a refusal, so only the sole voter of a configuration   *)
(* is elected: Sole starts alone and is then given the others as voters.   *)
(***************************************************************************)
EXTENDS Integers, Sequences, FiniteSets

CONSTANTS Nodes, None,
          Sole,              \* the node whose configuration names only itself at first
          Log,               \* terms of the entries that each node's storage holds
          ElectionTimeout, HeartbeatTimeout,
          MaxUncommitted,    \* maxUncommittedSize, in proposals
          MaxTerm,           \* bound: terms of campaigns
          MaxMsgs,           \* bound: messages under way
          MaxTransfers       \* bound: requests to transfer the leadership

(* Config.validate *)
validate == 0 < HeartbeatTimeout /\ HeartbeatTimeout < ElectionTimeout

ASSUME TimeoutAssumption == ElectionTimeout \in Nat /\ HeartbeatTimeout \in Nat /\ validate
ASSUME NodesAssumption ==
  IsFiniteSet(Nodes) /\ Sole \in Nodes /\ None \notin Nodes /\ Log \in [Nodes -> Seq(Nat)]

VARIABLES r,                 \* r[n]: the fields of the raft instance of node n
          msgs,              \* messages under way
          transfers,         \* requests made so far
          preVote, checkQuorum,  \* the same configuration for all
          reigned            \* history: nodes that were leader at some time

vars == <<r, msgs, transfers, preVote, checkQuorum, reigned>>

Follower == "StateFollower"
Candidate == "StateCandidate"
Leader == "StateLeader"

Min(a, b) == IF a > b THEN b ELSE a

(* A handler takes the instance to its next state and to what it sends. *)
Done(s, out) == [s |-> s, out |-> out]

Panicked(s, why) == [s EXCEPT !.panic = why]

Quorum(voters) == INSTANCE JointQuorum WITH Incoming <- voters, Outgoing <- {}

lastIndex(s) == Len(Log[s.id])
term(s, i) == IF i \in DOMAIN Log[s.id] THEN Log[s.id][i] ELSE 0
lastTerm(s) == term(s, lastIndex(s))

isUpToDate(s, lasti, t) == t > lastTerm(s) \/ (t = lastTerm(s) /\ lasti >= lastIndex(s))

commitTo(s, c) ==
  IF s.committed >= c THEN s
  ELSE IF lastIndex(s) < c THEN Panicked(s, "commitTo")
  ELSE [s EXCEPT !.committed = c]

promotable(s) == s.id \in s.voters

----------------------------------------------------------------------------
(* Messages.                                                               *)

Msg(type, from, to, fields) == [type |-> type, from |-> from, to |-> to, fields |-> fields]

(* raft.send for a message that must carry a term. *)
SendVoteResp(s, to) ==
  IF s.Term = 0 THEN Done(Panicked(s, "no term"), {})
  ELSE Done(s, {Msg("MsgVoteResp", s.id, to, [term |-> s.Term, reject |-> TRUE])})

VoteRequests(s, transfer) ==
  {Msg("MsgVote", s.id, v, [term |-> s.Term, index |-> lastIndex(s), logTerm |-> lastTerm(s),
                            transfer |-> transfer]) : v \in s.voters \ {s.id}}

(* sendAppend: everything from some index on that Progress may have        *)
(* reached (limitSize does not limit); a paused follower gets nothing,     *)
(* which is as if the message were lost.                                   *)
sendAppend(s, to) ==
  {Msg("MsgApp", s.id, to, [index |-> i, logTerm |-> term(s, i), n |-> lastIndex(s) - i,
                            commit |-> s.committed]) : i \in s.Match[to] .. lastIndex(s)}

bcastAppend(s) == UNION {sendAppend(s, v) : v \in s.voters \ {s.id}}

bcastHeartbeat(s) ==
  {Msg("MsgHeartbeat", s.id, v, [commit |-> Min(s.Match[v], s.committed)]) : v \in s.voters \ {s.id}}

sendTimeoutNow(s, to) == {Msg("MsgTimeoutNow", s.id, to, <<>>)}

AppResp(s, to, index, reject) == {Msg("MsgAppResp", s.id, to, [index |-> index, reject |-> reject])}

----------------------------------------------------------------------------
(* Changes of state.                                                       *)

(* Votes, uncommittedSize and the pending reads survive it. *)
reset(s, t) ==
  [s EXCEPT !.Term = t, !.Vote = IF s.Term # t THEN None ELSE @, !.lead = None,
            !.electionElapsed = 0, !.heartbeatElapsed = 0, !.leadTransferee = None]

becomeFollower(s, t, lead) == [reset(s, t) EXCEPT !.lead = lead, !.state = Follower]

becomeCandidate(s) ==
  IF s.state = Leader THEN Panicked(s, "leader -> candidate")
  ELSE [reset(s, s.Term + 1) EXCEPT !.Vote = s.id, !.state = Candidate]

becomeLeader(s) ==
  IF s.state = Follower THEN Panicked(s, "follower -> leader")
  ELSE [reset(s, s.Term) EXCEPT !.lead = s.id, !.state = Leader]

(* raft.poll: RecordVote keeps the first answer, and nothing resets them. *)
poll(s, id, v) ==
  [s EXCEPT !.Votes = [i \in DOMAIN @ \cup {id} |-> IF i \in DOMAIN @ THEN @[i] ELSE v]]

VoteResult(s) == Quorum(s.voters)!JointVoteResult(s.Votes)

(* campaign(campaignElection): becomePreCandidate does nothing. *)
campaignElection(s) ==
  LET p == poll(s, s.id, TRUE)
  IN  IF VoteResult(p) = "VoteWon" THEN Done(becomeLeader(p), {})
      ELSE Done(Panicked(p, "prevote"), {})

(* campaign(campaignPreElection) and campaign(campaignTransfer) *)
campaign(s, transfer) ==
  LET c == becomeCandidate(s)
      p == poll(c, s.id, TRUE)
  IN  IF c.panic # "no" THEN Done(c, {})
      ELSE IF VoteResult(p) # "VoteWon" THEN Done(p, VoteRequests(p, transfer))
      ELSE IF transfer THEN Done(becomeLeader(p), {})
      ELSE campaignElection(p)

\* Mutant of mayCampaign: a leader is not kept from it.
mayCampaignLeader(s) == promotable(s)

mayCampaign(s) == s.state # Leader /\ promotable(s)

hup(s, transfer) ==
  IF ~mayCampaign(s) THEN Done(s, {})
  ELSE IF transfer \/ preVote THEN campaign(s, transfer)
  ELSE campaignElection(s)

(* ProgressTracker.Committed: any of the indices CommittedIndex may return. *)
Committed(s) == Quorum(s.voters)!JointCommitted([v \in s.voters |-> s.Match[v]])

maybeCommit(s) ==
  {IF i > s.committed /\ term(s, i) = s.Term THEN commitTo(s, i) ELSE s : i \in Committed(s)}

----------------------------------------------------------------------------
(* Handlers: the set of possible results of one message.                   *)

handleAppendEntries(s, m) ==
  LET f == m.fields
      last == f.index + f.n
      c == commitTo(s, Min(f.commit, last))
  IN  IF f.index < s.committed THEN Done(s, AppResp(s, m.from, s.committed, FALSE))
      ELSE IF f.index > lastIndex(s) \/ term(s, f.index) # f.logTerm
      THEN Done(s, AppResp(s, m.from, f.index, TRUE))
      ELSE Done(c, IF c.panic = "no" THEN AppResp(s, m.from, last, FALSE) ELSE {})

handleHeartbeat(s, m) ==
  LET c == commitTo(s, m.fields.commit)
  IN  Done(c, IF c.panic = "no" THEN {Msg("MsgHeartbeatResp", s.id, m.from, <<>>)} ELSE {})

(* The first proposal is taken whatever its size; nothing lowers it again. *)
increaseUncommittedSize(s) == s.uncommitted = 0 \/ s.uncommitted + 1 =< MaxUncommitted

(* raftLog.append stores nothing and returns the last index. *)
appendEntry(s) == maybeCommit([s EXCEPT !.uncommitted = @ + 1, !.Match[s.id] = lastIndex(s)])

(* stepLeader, MsgProp; ErrProposalDropped changes nothing. *)
leaderProp(s) ==
  IF promotable(s) /\ s.leadTransferee = None /\ increaseUncommittedSize(s)
  THEN {Done(c, bcastAppend(c)) : c \in appendEntry(s)}
  ELSE {Done(s, {})}

(* stepLeader, MsgAppResp: Match, commit, and the end of a transfer. *)
leaderAppResp(s, m) ==
  LET from == m.from
      upd == [s EXCEPT !.Match[from] = m.fields.index]
      ready(c) == from = c.leadTransferee /\ c.Match[from] = lastIndex(c)
  IN  IF m.fields.reject THEN {Done(s, sendAppend(s, from))}
      ELSE IF m.fields.index =< s.Match[from] THEN {Done(s, {})}
      ELSE {Done(c, (IF c.committed # s.committed THEN bcastAppend(c) ELSE sendAppend(c, from))
                    \cup (IF ready(c) THEN sendTimeoutNow(c, from) ELSE {})) : c \in maybeCommit(upd)}

(* stepLeader, MsgTransferLeader: a request for another node replaces the  *)
(* one under way; one for the leader itself only ends it.                  *)
leaderTransfer(s, to) ==
  IF s.leadTransferee = to THEN Done(s, {})
  ELSE IF to = s.id THEN Done([s EXCEPT !.leadTransferee = None], {})
  ELSE LET t == [s EXCEPT !.leadTransferee = to, !.electionElapsed = 0]
       IN  Done(t, IF s.Match[to] = lastIndex(s) THEN sendTimeoutNow(s, to) ELSE sendAppend(s, to))

stepLeader(s, m) ==
  CASE m.type = "MsgProp" -> leaderProp(s)
    [] m.type # "MsgProp" /\ m.from \notin s.voters -> {Done(s, {})}   \* no Progress
    [] m.type = "MsgAppResp" /\ m.from \in s.voters -> leaderAppResp(s, m)
    [] m.type = "MsgHeartbeatResp" /\ m.from \in s.voters ->
         {Done(s, IF s.Match[m.from] < lastIndex(s) THEN sendAppend(s, m.from) ELSE {})}
    [] m.type = "MsgTransferLeader" /\ m.from \in s.voters -> {leaderTransfer(s, m.from)}
    [] OTHER -> {Done(s, {})}

(* The leader's messages have term 0, so a candidate that hears from a     *)
(* leader takes term 0 over.                                               *)
stepCandidate(s, m) ==
  CASE m.type = "MsgApp" -> {handleAppendEntries(becomeFollower(s, 0, m.from), m)}
    [] m.type = "MsgHeartbeat" -> {handleHeartbeat(becomeFollower(s, 0, m.from), m)}
    [] m.type = "MsgVoteResp" ->
         LET p == poll(s, m.from, ~m.fields.reject)
             l == becomeLeader(p)
         IN  CASE VoteResult(p) = "VoteWon" -> {Done(l, bcastAppend(l))}
               [] VoteResult(p) = "VoteLost" -> {Done(becomeFollower(p, p.Term, None), {})}
               [] OTHER -> {Done(p, {})}
    [] OTHER -> {Done(s, {})}

Forwarded(s, m) == IF s.lead = None THEN {} ELSE {[m EXCEPT !.to = s.lead]}

stepFollower(s, m) ==
  CASE m.type = "MsgApp" -> {Done([s EXCEPT !.electionElapsed = 0, !.lead = m.from], {})}
    [] m.type = "MsgHeartbeat" -> {handleHeartbeat([s EXCEPT !.electionElapsed = 0, !.lead = m.from], m)}
    [] m.type = "MsgTimeoutNow" -> {hup(s, TRUE)}
    [] m.type \in {"MsgProp", "MsgTransferLeader"} -> {Done(s, Forwarded(s, m))}
    [] OTHER -> {Done(s, {})}

step(s, m) ==
  CASE s.state = Leader -> stepLeader(s, m)
    [] s.state = Candidate -> stepCandidate(s, m)
    [] OTHER -> stepFollower(s, m)

\* Mutant of canVote: a vote that was cast does not count.
canVoteAgain(s, m) == s.Vote = m.from \/ s.lead = None

canVote(s, m) == s.Vote = m.from \/ (s.Vote = None /\ s.lead = None)

vote(s, m) ==
  LET granted == canVote(s, m) /\ isUpToDate(s, m.fields.index, m.fields.logTerm)
  IN  SendVoteResp(IF granted THEN [s EXCEPT !.electionElapsed = 0, !.Vote = m.from] ELSE s, m.from)

\* Mutant of inLease: the lease ends with the first tick.
inLeaseShort(s) == checkQuorum /\ s.lead # None /\ s.electionElapsed = 0

inLease(s) == checkQuorum /\ s.lead # None /\ s.electionElapsed < ElectionTimeout

\* Mutant of higherTerm: the sender of a higher term is taken for its leader.
higherTermLead(s, m) == becomeFollower(s, m.fields.term, m.from)

higherTerm(s, m) == becomeFollower(s, m.fields.term, None)

(* Step, for a message with a term and for one without. *)
Step(s, m) ==
  IF m.type \notin {"MsgVote", "MsgVoteResp"} THEN step(s, m)
  ELSE LET t == m.fields.term
           ignored == \/ t < s.Term
                      \/ t > s.Term /\ m.type = "MsgVote" /\ ~m.fields.transfer /\ inLease(s)
           up == IF t > s.Term THEN higherTerm(s, m) ELSE s
       IN  IF ignored THEN {Done(s, {})}
           ELSE IF m.type = "MsgVote" THEN {vote(up, m)} ELSE step(up, m)

----------------------------------------------------------------------------
(* The cluster.                                                            *)

(* Instance n goes to result d; any of the messages may be lost at once. *)
Take(n, d, received) ==
  /\ r' = [r EXCEPT ![n] = d.s]
  /\ reigned' = IF d.s.state = Leader THEN reigned \cup {n} ELSE reigned
  /\ \E kept \in SUBSET d.out :
       /\ Cardinality((msgs \ received) \cup kept) =< MaxMsgs
       /\ msgs' = (msgs \ received) \cup kept
  /\ UNCHANGED <<preVote, checkQuorum>>

Up(n) == r[n].panic = "no"

(* node.run: an answer of a node that has no Progress is not stepped. *)
IsResponseMsg(m) == m.type \in {"MsgAppResp", "MsgVoteResp", "MsgHeartbeatResp"}

(* A campaign beyond the bound on terms is left out. *)
Bounded(d) == d.s.Term =< MaxTerm

Receive(m) ==
  /\ Up(m.to)
  /\ IF IsResponseMsg(m) /\ m.from \notin r[m.to].voters
     THEN Take(m.to, Done(r[m.to], {}), {m})
     ELSE \E d \in Step(r[m.to], m) : Bounded(d) /\ Take(m.to, d, {m})
  /\ UNCHANGED transfers

(* The network loses a message (external). *)
Lose(m) == msgs' = msgs \ {m} /\ UNCHANGED <<r, transfers, preVote, checkQuorum, reigned>>

(* Drawn by resetRandomizedElectionTimeout; looked at, hence chosen here,  *)
(* when time has come.                                                     *)
randomizedElectionTimeout == ElectionTimeout .. 2 * ElectionTimeout - 1

tickElection(s) ==
  LET e == s.electionElapsed + 1
  IN  {IF promotable(s) /\ e >= timeout THEN hup([s EXCEPT !.electionElapsed = 0], FALSE)
       ELSE Done([s EXCEPT !.electionElapsed = e], {}) : timeout \in randomizedElectionTimeout}

\* Mutant of endTransfer: a transfer that takes too long is not given up.
endTransferNever(s) == s

endTransfer(s) == [s EXCEPT !.leadTransferee = None]

(* MsgCheckQuorum, of every election timeout, is a stub. *)
tickHeartbeat(s) ==
  LET e == s.electionElapsed + 1
      h == s.heartbeatElapsed + 1
      timed == IF e >= ElectionTimeout THEN endTransfer([s EXCEPT !.electionElapsed = 0])
               ELSE [s EXCEPT !.electionElapsed = e]
      beat == h >= HeartbeatTimeout
  IN  {Done([timed EXCEPT !.heartbeatElapsed = IF beat THEN 0 ELSE h],
            IF beat THEN bcastHeartbeat(timed) ELSE {})}

Tick(n) ==
  /\ Up(n)
  /\ \E d \in IF r[n].state = Leader THEN tickHeartbeat(r[n]) ELSE tickElection(r[n]) :
       Bounded(d) /\ Take(n, d, {})
  /\ UNCHANGED transfers

(* RawNode.Campaign: MsgHup, whatever the state. *)
Campaign(n) ==
  /\ Up(n)
  /\ Bounded(hup(r[n], FALSE)) /\ Take(n, hup(r[n], FALSE), {})
  /\ UNCHANGED transfers

(* Propose and TransferLeadership, called at node n. *)
Propose(n) ==
  /\ Up(n)
  /\ \E d \in Step(r[n], Msg("MsgProp", n, n, <<>>)) : Take(n, d, {})
  /\ UNCHANGED transfers

TransferLeadership(n, transferee) ==
  /\ Up(n)
  /\ transfers < MaxTransfers
  /\ transfers' = transfers + 1
  /\ \E d \in Step(r[n], Msg("MsgTransferLeader", transferee, n, <<>>)) : Take(n, d, {})

(* The configuration of Sole is changed to all nodes (external: nothing in *)
(* the library applies a ConfChange yet).                                  *)
ApplyConfChange ==
  /\ Up(Sole)
  /\ r' = [r EXCEPT ![Sole].voters = Nodes]
  /\ UNCHANGED <<msgs, transfers, preVote, checkQuorum, reigned>>

Init ==
  /\ r = [n \in Nodes |->
            [id |-> n, Term |-> 0, Vote |-> None, state |-> Follower, lead |-> None,
             leadTransferee |-> None, electionElapsed |-> 0, heartbeatElapsed |-> 0,
             Votes |-> <<>>, voters |-> IF n = Sole THEN {Sole} ELSE Nodes,
             Match |-> [v \in Nodes |-> 0], committed |-> 0, uncommitted |-> 0, panic |-> "no"]]
  /\ msgs = {} /\ transfers = 0 /\ reigned = {}
  /\ preVote \in BOOLEAN /\ checkQuorum \in BOOLEAN

Next ==
  \/ \E m \in msgs : Receive(m) \/ Lose(m)
  \/ \E n \in Nodes : Tick(n) \/ Campaign(n) \/ Propose(n)
  \/ \E n, t \in Nodes : TransferLeadership(n, t)
  \/ ApplyConfChange

Spec == Init /\ [][Next]_vars

(* The application's ticker ticks every instance again and again; what is  *)
(* needed of that are the ticks while a transfer is under way.             *)
TickInTransfer(n) == r[n].leadTransferee # None /\ Tick(n)

FairSpec == Spec /\ \A n \in Nodes : WF_vars(TickInTransfer(n))

----------------------------------------------------------------------------
(* Properties.                                                             *)

(* Of the panics in the handlers only three can be reached: an election    *)
(* timeout without pre-vote (raft.go:160, 308) and a commit index that the *)
(* log does not reach (log.go:171).  A leader never campaigns (raft.go:297)*)
(* and a vote is never answered without a term (raft.go:156), although     *)
(* terms fall back to 0.                                                   *)
PanicsKnown == \A n \in Nodes : r[n].panic \in {"no", "prevote", "follower -> leader", "commitTo"}

(* Whom a node takes for its leader has been one (raft.go:343, 698), also  *)
(* after late, lost and overtaken messages; proposals are forwarded there. *)
LeadHasReigned == \A n \in Nodes : r[n].lead # None => r[n].lead \in reigned

(* With checkQuorum, no candidate disturbs a leader as long as nobody asks *)
(* for a transfer: it is always within its lease (raft.go:327, 262).       *)
LeaderUndisturbed ==
  [][\A n \in Nodes : checkQuorum /\ transfers = 0 /\ r[n].state = Leader => r[n]'.state = Leader]_vars

(* Within a term a vote that was cast is not changed (raft.go:370). *)
VoteKept ==
  [][\A n \in Nodes : r[n].Vote # None /\ r[n]'.Term = r[n].Term => r[n]'.Vote = r[n].Vote]_vars

(* A transfer of the leadership ends, whether the transferee answers or    *)
(* not: tickHeartBeat gives it up after an election timeout (raft.go:270), *)
(* so proposals are not refused forever.                                   *)
TransferEnds ==
  \A n \in Nodes : r[n].leadTransferee # None ~> (r[n].leadTransferee = None \/ ~Up(n))
=============================================================================
