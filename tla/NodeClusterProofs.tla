------------------------- MODULE NodeClusterProofs -------------------------
(***************************************************************************)
(* What NodeCluster keeps for every number of nodes, every set of values   *)
(* and every bound, with handlers of Append that overlap: types, one vote  *)
(* per term, logs without gaps and commits within them, the redis hash,    *)
(* and that what is committed is held twice.                               *)
(***************************************************************************)
EXTENDS NodeCluster, FiniteSetTheorems, TLAPS

-----------------------------------------------------------------------------
(* The operators that read the state.                                      *)

\* The tail of a log is an item, also of an empty log.
LEMMA TailType ==
    ASSUME TypeOK, NEW n \in Node
    PROVE  GetTailItem(n) \in Item
<1>1. ZeroItem \in Item
  BY DEF Item, ZeroItem
<1>2. ItemList[n] \in Seq(Item)
  BY DEF TypeOK
<1> QED
  BY <1>1, <1>2 DEF GetTailItem

\* GetPreItem returns an item whatever it is asked for.
LEMMA PreType ==
    ASSUME TypeOK, NEW n \in Node, NEW item
    PROVE  GetPreItem(n, item) \in Item
<1> DEFINE L == Len(ItemList[n])
           before == {k \in 1 .. L : \A i \in 1 .. k : ItemList[n][i].Index # item.Index}
<1>1. L \in Nat
  BY DEF TypeOK
<1>2. IsFiniteSet(before) /\ Cardinality(before) <= L /\ Cardinality(before) \in Nat
  <2>1. IsFiniteSet(1 .. L) /\ Cardinality(1 .. L) = L
    BY <1>1, FS_Interval
  <2>2. before \subseteq 1 .. L
    OBVIOUS
  <2> HIDE DEF before, L
  <2> QED
    BY <2>1, <2>2, <1>1, FS_Subset, FS_CardinalityType
<1>3. before # {} => Cardinality(before) \in 1 .. L
  <2> HIDE DEF before, L
  <2> QED
    BY <1>1, <1>2, FS_EmptySet
<1>4. ItemList[n] \in Seq(Item)
  BY DEF TypeOK
<1>5. GetPreItem(n, item) = IF before = {} THEN ZeroItem ELSE ItemList[n][Cardinality(before)]
  BY DEF GetPreItem
<1> HIDE DEF before
<1>6. ZeroItem \in Item
  BY DEF Item, ZeroItem
<1> QED
  BY <1>3, <1>4, <1>5, <1>6

\* The peers of a node are nodes.
LEMMA PeerType ==
    ASSUME NEW n \in Node, NEW j \in 1 .. N - 1
    PROVE  Peer(n, j) \in Node
  BY NAssumption DEF Peer, Node

\* A commit notice is an index.
LEMMA NoticeType ==
    ASSUME TypeOK, NEW n \in Node, NEW m \in Node
    PROVE  CommitNotice(n, m) \in Nat
  BY DEF TypeOK, CommitNotice

\* CheckAcceptId and CheckCommitId keep an index an index.
LEMMA AdvancedType ==
    ASSUME NEW n, NEW reached, NEW index \in Nat
    PROVE  Advanced(n, reached, index) \in Nat
  BY DEF Advanced

\* A request that a caller gives up is still a request.
LEMMA GivenUpType ==
    /\ \A m \in VoteReq : \A b \in BOOLEAN : [m EXCEPT !.live = b] \in VoteReq
    /\ \A m \in AppReq : \A b \in BOOLEAN : [m EXCEPT !.live = b] \in AppReq
  BY DEF VoteReq, AppReq

\* A handler of a request.
LEMMA HandlerIn ==
    ASSUME NEW m \in AppReq, NEW saved \in BOOLEAN
    PROVE  /\ Handler(m, saved) \in AppHandler
           /\ Handler(m, saved).req = m /\ Handler(m, saved).saved = saved
  BY DEF Handler, AppHandler

\* What is known of a handler's request.
LEMMA HandlerType ==
    ASSUME TypeOK, NEW h \in appending
    PROVE  /\ h.req \in AppReq /\ h.saved \in BOOLEAN
           /\ h.req.to \in Node /\ h.req.from \in Node /\ h.req.node \in Node
           /\ h.req.commit \in Nat /\ h.req.live \in BOOLEAN
           /\ h.req.entry \in Item /\ h.req.pre \in Item
           /\ h.req.entry.Index \in Nat /\ h.req.entry.Term \in Nat /\ h.req.pre.Index \in Nat
<1>1. h.req \in AppReq /\ h.saved \in BOOLEAN
  BY DEF TypeOK, AppHandler
<1>2. h.req.entry \in Item /\ h.req.pre \in Item
  BY <1>1 DEF AppReq
<1> QED
  BY <1>1, <1>2 DEF AppReq, Item

-----------------------------------------------------------------------------
(* Types.                                                                  *)

\* An answer has its type, and AppendEntry starts goroutines of its own only.
LEMMA AnswerType ==
    ASSUME TypeOK, NEW m \in AppReq, NEW accept \in BOOLEAN,
           CommitIndex' \in [Node -> Nat], Answer(m, accept)
    PROVE  appReps' \subseteq AppRep /\ appendCalls' \in [Node -> SUBSET (1 .. N - 1)]
<1> DEFINE r == [from |-> m.to, to |-> m.from, node |-> m.node, pre |-> m.pre,
                 accept |-> accept, commit |-> CommitIndex'[m.to],
                 append |-> IF accept THEN m.entry.Index ELSE GetTailItem(m.to).Index]
<1>1. /\ m.to \in Node /\ m.from \in Node /\ m.node \in Node /\ m.pre \in Item
      /\ m.entry \in Item
  BY DEF AppReq
<1>2. GetTailItem(m.to).Index \in Nat /\ m.entry.Index \in Nat
  BY <1>1, TailType DEF Item
<1>3. r \in AppRep
  BY <1>1, <1>2 DEF AppRep
<1>4. appReps' = appReps \cup {r} \/ appReps' = appReps
  BY DEF Answer
<1>5. appReps' \subseteq AppRep
  <2> HIDE DEF r
  <2> QED
    BY <1>3, <1>4 DEF TypeOK
<1>6. appendCalls' \in [Node -> SUBSET (1 .. N - 1)]
  BY <1>1 DEF Answer, AppendEntry, TypeOK
<1> QED
  BY <1>5, <1>6

\* The types hold initially.
LEMMA InitType == Init => TypeOK
  BY NAssumption DEF Init, TypeOK, Node, None, Item, ZeroItem

\* Every step of an election keeps the types.
LEMMA ElectionTypes == TypeOK /\ NextElection => TypeOK'
<1> SUFFICES ASSUME TypeOK, NextElection PROVE TypeOK'
  OBVIOUS
<1> USE DEF nodeVars, logVars, workVars, oathVars, beatVars, appVars
<1>1. ASSUME NEW n \in Node, Timeout(n) PROVE TypeOK'
  BY <1>1 DEF Timeout, TypeOK
<1>2. ASSUME NEW n \in Node, ElectionStart(n) PROVE TypeOK'
  <2>1. cast' \in [Node -> SUBSET (Nat \X Node)]
    <3>1. /\ cast \in [Node -> SUBSET (Nat \X Node)] /\ Term \in [Node -> Nat]
          /\ cast' = [cast EXCEPT ![n] = @ \cup {<<Term[n] + 1, n>>}]
      BY <1>2 DEF ElectionStart, TypeOK
    <3>2. <<Term[n] + 1, n>> \in Nat \X Node
      BY <3>1
    <3> QED
      BY <3>1, <3>2
  <2> QED
    BY <1>2, <2>1 DEF ElectionStart, TypeOK
<1>3. ASSUME NEW n \in Node, ElectionEnd(n) PROVE TypeOK'
  <2>1. hearts' \in [Node -> SUBSET (1 .. N)]
    <3>1. /\ hearts \in [Node -> SUBSET (1 .. N)]
          /\ \/ hearts' = [hearts EXCEPT ![n] = @ \cup {1}] \/ hearts' = hearts
      BY <1>3 DEF ElectionEnd, TypeOK
    <3>2. 1 \in 1 .. N
      BY NAssumption
    <3> QED
      BY <3>1, <3>2
  <2> QED
    BY <1>3, <2>1 DEF ElectionEnd, TypeOK
<1>4. ASSUME NEW n \in Node, NEW i \in 1 .. N - 1, NEW j \in 1 .. N - 1,
             SendElectionRequest(n, i, j)
      PROVE TypeOK'
  <2>1. voteReqs' \subseteq VoteReq
    <3>1. /\ Term[n] \in Nat /\ AcceptIndex[n] \in Nat /\ voteReqs \subseteq VoteReq
          /\ Peer(n, j) \in Node
      BY PeerType DEF TypeOK
    <3>2. [from |-> n, to |-> Peer(n, j), call |-> i, live |-> TRUE,
           term |-> Term[n], index |-> AcceptIndex[n]] \in VoteReq
      BY <3>1 DEF VoteReq
    <3> QED
      BY <1>4, <3>1, <3>2 DEF SendElectionRequest
  <2> QED
    BY <1>4, <2>1 DEF SendElectionRequest, TypeOK
<1>5. ASSUME NEW n \in Node, NEW i \in 1 .. N - 1, NEW lost \in BOOLEAN,
             ElectionCallTimeout(n, i, lost)
      PROVE TypeOK'
  <2>1. voteReqs' \subseteq VoteReq
    BY <1>5, GivenUpType DEF ElectionCallTimeout, TypeOK
  <2> QED
    BY <1>5, <2>1 DEF ElectionCallTimeout, TypeOK
<1>8. ASSUME NEW n \in Node, NEW i \in 1 .. N - 1, ElectionDialFails(n, i) PROVE TypeOK'
  BY <1>8 DEF ElectionDialFails, TypeOK
<1>6. ASSUME NEW m \in voteReqs, Election(m) PROVE TypeOK'
  <2>1. m \in VoteReq /\ m.to \in Node /\ m.from \in Node /\ m.term \in Nat /\ m.call \in Nat
    BY DEF TypeOK, VoteReq
  <2>2. Term' \in [Node -> Nat] /\ leaderId' \in [Node -> Node \cup {None}]
    BY <1>6, <2>1 DEF Election, TypeOK
  <2>3. state' \in [Node -> {Follower, Candidate, Leader}]
    BY <1>6, <2>1 DEF Election, TypeOK
  <2>4. cast' \in [Node -> SUBSET (Nat \X Node)]
    <3>1. /\ cast \in [Node -> SUBSET (Nat \X Node)]
          /\ \/ cast' = [cast EXCEPT ![m.to] = @ \cup {<<m.term, m.from>>}]
             \/ cast' = cast
      BY <1>6 DEF Election, TypeOK
    <3>2. <<m.term, m.from>> \in Nat \X Node
      BY <2>1
    <3> QED
      BY <2>1, <3>1, <3>2
  <2>5. Accepts(m.to, m) \in BOOLEAN
    BY DEF Accepts
  <2>6. voteReps' \subseteq VoteRep
    <3>1. m.to \in Nat /\ Term'[m.to] \in Nat
      BY <2>1, <2>2, NAssumption DEF Node
    <3>2. [from |-> m.to, to |-> m.from, call |-> m.call, accept |-> Accepts(m.to, m),
           term |-> Term'[m.to], index |-> m.to] \in VoteRep
      BY <2>1, <2>5, <3>1 DEF VoteRep
    <3> QED
      BY <1>6, <3>2 DEF Election, TypeOK
  <2> QED
    BY <1>6, <2>2, <2>3, <2>4, <2>6 DEF Election, TypeOK
<1>7. ASSUME NEW r \in voteReps, ElectionReply(r) PROVE TypeOK'
  <2>1. r.to \in Node
    BY DEF TypeOK, VoteRep
  <2> QED
    <3>1. OathAcceptNum' \in [Node -> Nat]
      BY <1>7, <2>1 DEF ElectionReply, TypeOK
    <3>2. state' \in [Node -> {Follower, Candidate, Leader}]
      BY <1>7, <2>1 DEF ElectionReply, TypeOK
    <3> QED
      BY <1>7, <3>1, <3>2 DEF ElectionReply, TypeOK
<1> QED
  BY <1>1, <1>2, <1>3, <1>4, <1>5, <1>6, <1>7, <1>8 DEF NextElection

\* Every step of the heartbeats keeps the types.
LEMMA HeartTypes == TypeOK /\ NextHeart => TypeOK'
<1> SUFFICES ASSUME TypeOK, NextHeart PROVE TypeOK'
  OBVIOUS
<1> USE DEF nodeVars, logVars, workVars, oathVars, beatVars, appVars
<1>1. ASSUME NEW n \in Node, LeaderSendHeart(n) PROVE TypeOK'
  <2>1. 1 \in 1 .. N
    BY NAssumption
  <2>2. hearts' \in [Node -> SUBSET (1 .. N)]
    BY <1>1, <2>1 DEF LeaderSendHeart, TypeOK
  <2> QED
    BY <1>1, <2>2 DEF LeaderSendHeart, TypeOK
<1>2. ASSUME NEW n \in Node, HeartsSent(n) PROVE TypeOK'
  <2>1. CommitIndex' \in [Node -> Nat]
    BY <1>2, AdvancedType DEF HeartsSent, CheckCommitId, TypeOK
  <2> QED
    BY <1>2, <2>1 DEF HeartsSent, TypeOK
<1>3. ASSUME NEW n \in Node, NEW p \in 1 .. N - 1, NEW lost \in BOOLEAN, SendHeart(n, p, lost)
      PROVE TypeOK'
  <2>1. heartReqs' \subseteq HeartReq
    <3>1. /\ Term[n] \in Nat /\ heartReqs \subseteq HeartReq
          /\ Peer(n, p) \in Node /\ CommitNotice(n, Peer(n, p)) \in Nat
      BY PeerType, NoticeType DEF TypeOK
    <3>2. [from |-> n, to |-> Peer(n, p), term |-> Term[n],
           commit |-> CommitNotice(n, Peer(n, p))] \in HeartReq
      BY <3>1 DEF HeartReq
    <3> QED
      BY <1>3, <3>1, <3>2 DEF SendHeart
  <2>2. hearts' \in [Node -> SUBSET (1 .. N)]
    BY <1>3, NAssumption DEF SendHeart, TypeOK
  <2> QED
    BY <1>3, <2>1, <2>2 DEF SendHeart, TypeOK
<1>4. ASSUME NEW m \in heartReqs, Heart(m) PROVE TypeOK'
  <2>1. m.to \in Node /\ m.from \in Node /\ m.term \in Nat /\ m.commit \in Nat
    BY DEF TypeOK, HeartReq
  <2>2. CommitIndex' \in [Node -> Nat]
    BY <1>4, <2>1 DEF Heart, TypeOK, Obeyed
  <2> QED
    BY <1>4, <2>1, <2>2 DEF Heart, TypeOK
<1> QED
  BY <1>1, <1>2, <1>3, <1>4 DEF NextHeart

\* Every step of the replication keeps the types.
LEMMA AppendTypes == TypeOK /\ NextAppend => TypeOK'
<1> SUFFICES ASSUME TypeOK, NextAppend PROVE TypeOK'
  OBVIOUS
<1> USE DEF nodeVars, logVars, workVars, oathVars, beatVars, appVars
<1>1. ASSUME NEW n \in Node, NEW v \in Value, AppendLog(n, v) PROVE TypeOK'
  <2> DEFINE entry == [Index |-> GetTailItem(n).Index + 1, Term |-> Term[n], Log |-> v]
             m == [from |-> n, to |-> n, node |-> n, live |-> TRUE, entry |-> entry,
                   pre |-> GetTailItem(n), commit |-> 0]
  <2>1. GetTailItem(n) \in Item
    BY TailType
  <2>2. entry \in Item
    BY <2>1 DEF Item, TypeOK
  <2>3. m \in AppReq
    BY <2>1, <2>2 DEF AppReq
  <2>4. appending' = appending \cup {Handler(m, FALSE)}
    BY <1>1 DEF AppendLog
  <2> HIDE DEF m
  <2>5. appending' \subseteq AppHandler
    BY <2>3, <2>4, HandlerIn DEF TypeOK
  <2> QED
    BY <1>1, <2>5 DEF AppendLog, TypeOK
<1>2. ASSUME NEW n \in Node, NEW i \in 1 .. N - 1, NEW j \in 1 .. N - 1, NEW k \in 1 .. N - 1,
             SendAppendEntry(n, i, j, k)
      PROVE TypeOK'
  <2> DEFINE m == [from |-> n, to |-> Peer(n, j), node |-> Peer(n, k), live |-> TRUE,
                   entry |-> GetTailItem(n), pre |-> GetPreItem(n, GetTailItem(n)),
                   commit |-> CommitNotice(n, Peer(n, k))]
  <2>1. m \in AppReq
    BY TailType, PreType, PeerType, NoticeType DEF AppReq
  <2>2. appReqs' = appReqs \cup {m}
    BY <1>2 DEF SendAppendEntry
  <2> QED
    BY <1>2, <2>1, <2>2 DEF SendAppendEntry, TypeOK
<1>3. ASSUME NEW m \in appReqs PROVE m \in AppReq
  BY DEF TypeOK
<1>4. ASSUME NEW m \in appReqs, AppendReject(m) PROVE TypeOK'
  <2>1. CommitIndex' \in [Node -> Nat]
    BY <1>4 DEF AppendReject, TypeOK
  <2>2. appReps' \subseteq AppRep /\ appendCalls' \in [Node -> SUBSET (1 .. N - 1)]
    BY <1>3, <1>4, <2>1, AnswerType DEF AppendReject
  <2> QED
    BY <1>4, <2>2 DEF AppendReject, TypeOK
<1>5. ASSUME NEW m \in appReqs, AppendCheck(m) PROVE TypeOK'
  <2>1. appending' \subseteq AppHandler
    BY <1>3, <1>5, HandlerIn DEF AppendCheck, TypeOK
  <2> QED
    BY <1>5, <2>1 DEF AppendCheck, TypeOK
<1>6. ASSUME NEW h \in appending, HSet(h) PROVE TypeOK'
  <2>1. appending' \subseteq AppHandler
    BY <1>6, HandlerType, HandlerIn DEF HSet, TypeOK
  <2>2. redis' \in [Node -> SUBSET Item]
    <3>1. h.req.to \in Node /\ h.req.entry \in Item
      BY HandlerType
    <3>2. redis \in [Node -> SUBSET Item]
      BY DEF TypeOK
    <3>3. redis' = [redis EXCEPT ![h.req.to] =
                       {x \in @ : x.Index # h.req.entry.Index} \cup {h.req.entry}]
      BY <1>6 DEF HSet
    <3>4. {x \in redis[h.req.to] : x.Index # h.req.entry.Index} \cup {h.req.entry} \subseteq Item
      BY <3>1, <3>2
    <3> QED
      BY <3>1, <3>2, <3>3, <3>4
  <2> QED
    BY <1>6, <2>1, <2>2 DEF HSet, TypeOK
<1>7. ASSUME NEW h \in appending, AppendDone(h) PROVE TypeOK'
  <2>1. /\ h.req \in AppReq /\ h.req.to \in Node /\ h.req.entry \in Item
        /\ h.req.entry.Term \in Nat
    BY HandlerType
  <2>2. CommitIndex' \in [Node -> Nat]
    <3>1. Obeyed(h.req.to, h.req.commit, h.req.pre) \in Nat
      BY <2>1 DEF Obeyed, TypeOK
    <3> QED
      BY <1>7, <2>1, <3>1 DEF AppendDone, TypeOK
  <2>3. appReps' \subseteq AppRep /\ appendCalls' \in [Node -> SUBSET (1 .. N - 1)]
    BY <1>7, <2>1, <2>2, AnswerType DEF AppendDone
  <2>4. ItemList' \in [Node -> Seq(Item)]
    <3>1. ItemList \in [Node -> Seq(Item)]
      BY DEF TypeOK
    <3>2. ItemList' = [ItemList EXCEPT ![h.req.to] = Append(@, h.req.entry)]
      BY <1>7 DEF AppendDone
    <3>3. Append(ItemList[h.req.to], h.req.entry) \in Seq(Item)
      BY <2>1, <3>1
    <3> QED
      BY <2>1, <3>1, <3>2, <3>3
  <2>5. /\ Term' \in [Node -> Nat] /\ state' \in [Node -> {Follower, Candidate, Leader}]
        /\ cast' \in [Node -> SUBSET (Nat \X Node)]
    BY <1>7, <2>1 DEF AppendDone, TypeOK
  <2> QED
    BY <1>7, <2>2, <2>3, <2>4, <2>5 DEF AppendDone, TypeOK
<1>13. ASSUME NEW h \in appending, AppendError(h) PROVE TypeOK'
  <2>1. appendCalls' \in [Node -> SUBSET (1 .. N - 1)]
    BY <1>13, HandlerType DEF AppendError, TypeOK
  <2> QED
    BY <1>13, <2>1 DEF AppendError, TypeOK
<1>14. ASSUME NEW h \in appending, AppendCallCut(h) PROVE TypeOK'
  <2>1. appending' \subseteq AppHandler
    <3>1. [h.req EXCEPT !.live = FALSE] \in AppReq /\ h.saved \in BOOLEAN
      BY HandlerType, GivenUpType
    <3> QED
      BY <1>14, <3>1, HandlerIn DEF AppendCallCut, TypeOK
  <2> QED
    BY <1>14, <2>1 DEF AppendCallCut, TypeOK
<1>8. ASSUME NEW m \in appReqs, NEW lost \in BOOLEAN, AppendCallTimeout(m, lost) PROVE TypeOK'
  <2>1. appReqs' \subseteq AppReq
    BY <1>8, GivenUpType DEF AppendCallTimeout, TypeOK
  <2> QED
    BY <1>8, <2>1 DEF AppendCallTimeout, TypeOK
<1>9. ASSUME NEW r \in appReps
      PROVE  /\ r.to \in Node /\ r.from \in Node /\ r.node \in Node /\ r.pre \in Item
             /\ r.append \in Nat /\ r.commit \in Nat
  BY DEF TypeOK, AppRep
<1>10. ASSUME NEW r \in appReps, AppendReplyOK(r) PROVE TypeOK'
  <2>1. acceptIndex' \in [Node -> [Node -> Nat]]
    BY <1>9, <1>10 DEF AppendReplyOK, TypeOK
  <2>2. commitIndex' \in [Node -> [Node -> Nat]]
    BY <1>9, <1>10 DEF AppendReplyOK, TypeOK
  <2>3. AcceptIndex' \in [Node -> Nat]
    BY <1>9, <1>10, AdvancedType DEF AppendReplyOK, CheckAcceptId, TypeOK
  <2>4. CommitIndex' \in [Node -> Nat]
    BY <1>9, <1>10, AdvancedType DEF AppendReplyOK, CheckCommitId, TypeOK
  <2> QED
    BY <1>10, <2>1, <2>2, <2>3, <2>4 DEF AppendReplyOK, TypeOK
<1>11. ASSUME NEW r \in appReps, CatchUp(r) PROVE TypeOK'
  <2> DEFINE m == [from |-> r.to, to |-> r.from, node |-> r.node, live |-> FALSE,
                   entry |-> r.pre, pre |-> GetPreItem(r.to, r.pre),
                   commit |-> CommitNotice(r.to, r.node)]
  <2>1. m \in AppReq
    BY <1>9, PreType, NoticeType DEF AppReq
  <2>2. appReqs' = appReqs \cup {m}
    BY <1>11 DEF CatchUp
  <2> QED
    BY <1>11, <2>1, <2>2 DEF CatchUp, TypeOK
<1>12. ASSUME NEW r \in appReps, AppendCallOver(r) PROVE TypeOK'
  BY <1>12 DEF AppendCallOver, TypeOK
<1> QED
  BY <1>1, <1>2, <1>4, <1>5, <1>6, <1>7, <1>8, <1>10, <1>11, <1>12, <1>13, <1>14 DEF NextAppend

\* A restarted node is a node again.
LEMMA RestartTypes == ASSUME TypeOK, NEW n \in Node, Restart(n) PROVE TypeOK'
<1>1. voteReqs' \subseteq VoteReq /\ voteReps' \subseteq VoteRep
  BY GivenUpType DEF Restart, TypeOK
<1>2. appReqs' \subseteq AppReq /\ appReps' \subseteq AppRep
  BY GivenUpType DEF Restart, TypeOK
<1>3. ItemList' \in [Node -> Seq(Item)]
  <2>1. <<ZeroItem>> \in Seq(Item)
    BY DEF ZeroItem, Item
  <2> QED
    BY <2>1 DEF Restart, TypeOK
<1>4. /\ Term' \in [Node -> Nat] /\ OathAcceptNum' \in [Node -> Nat]
      /\ CommitIndex' \in [Node -> Nat] /\ AcceptIndex' \in [Node -> Nat]
      /\ state' \in [Node -> {Follower, Candidate, Leader}]
      /\ leaderId' \in [Node -> Node \cup {None}] /\ polling' \in [Node -> BOOLEAN]
      /\ hung' \in [Node -> BOOLEAN]
  BY DEF Restart, TypeOK
<1>5. /\ acceptIndex' \in [Node -> [Node -> Nat]] /\ commitIndex' \in [Node -> [Node -> Nat]]
  BY DEF Restart, TypeOK
<1>6. /\ oathCalls' \in [Node -> SUBSET (1 .. N - 1)] /\ hearts' \in [Node -> SUBSET (1 .. N)]
      /\ appendCalls' \in [Node -> SUBSET (1 .. N - 1)]
      /\ cast' \in [Node -> SUBSET (Nat \X Node)]
  BY DEF Restart, TypeOK
<1>7. redis' = redis /\ heartReqs' = heartReqs /\ restarts' \in Nat
  BY DEF Restart, TypeOK
<1>8. appending' \subseteq AppHandler
  <2>1. ASSUME NEW h \in appending
        PROVE  Handler([h.req EXCEPT !.live = @ /\ h.req.from # n], h.saved) \in AppHandler
    <3>1. h.req \in AppReq /\ h.saved \in BOOLEAN /\ (h.req.live /\ h.req.from # n) \in BOOLEAN
      BY HandlerType
    <3>2. [h.req EXCEPT !.live = @ /\ h.req.from # n]
             = [h.req EXCEPT !.live = h.req.live /\ h.req.from # n]
      OBVIOUS
    <3>3. [h.req EXCEPT !.live = h.req.live /\ h.req.from # n] \in AppReq
      BY <3>1, GivenUpType
    <3> QED
      BY <3>1, <3>2, <3>3, HandlerIn
  <2> QED
    BY <2>1 DEF Restart, Orphaned
<1> QED
  BY <1>1, <1>2, <1>3, <1>4, <1>5, <1>6, <1>7, <1>8 DEF TypeOK

\* The type invariant of the cluster: every field of every node, every
\* WorkNode table and every message keeps its type in every behaviour.
THEOREM TypeCorrect == Spec => []TypeOK
<1>1. TypeOK /\ [Next]_vars => TypeOK'
  <2> SUFFICES ASSUME TypeOK, [Next]_vars PROVE TypeOK'
    OBVIOUS
  <2>1. CASE Next
    BY <2>1, ElectionTypes, HeartTypes, AppendTypes, RestartTypes DEF Next
  <2>2. CASE UNCHANGED vars
    BY <2>2 DEF vars, nodeVars, logVars, workVars, oathVars, beatVars, appVars, TypeOK
  <2> QED
    BY <2>1, <2>2
<1> QED
  BY <1>1, InitType, PTL DEF Spec

-----------------------------------------------------------------------------
(* One vote per term.                                                      *)

\* No vote above the node's Term has been given.
VoteInv == VoteOnce /\ \A n \in Node : \A v \in cast[n] : v[1] <= Term[n]

\* A vote above every term voted in before keeps VoteInv.
LEMMA NewVote ==
    ASSUME TypeOK, VoteInv, NEW n \in Node, NEW t \in Nat, NEW c \in Node, t > Term[n],
           Term' = [Term EXCEPT ![n] = t],
           cast' = [cast EXCEPT ![n] = @ \cup {<<t, c>>}]
    PROVE  VoteInv'
<1>1. \A p \in Node : \A v \in cast[p] : v[1] \in Nat
  BY DEF TypeOK
<1>2. \A p \in Node : p # n => cast'[p] = cast[p] /\ Term'[p] = Term[p]
  BY DEF TypeOK
<1>3. cast'[n] = cast[n] \cup {<<t, c>>} /\ Term'[n] = t /\ Term[n] \in Nat
  BY DEF TypeOK
<1>4. \A v \in cast'[n] : v[1] <= Term'[n]
  BY <1>1, <1>3 DEF VoteInv
<1>5. ASSUME NEW v \in cast'[n], NEW w \in cast'[n], v[1] = w[1] PROVE v = w
  <2>1. \A u \in cast[n] : u[1] < t
    BY <1>1, <1>3 DEF VoteInv
  <2>2. <<t, c>>[1] = t
    OBVIOUS
  <2>3. CASE v \in cast[n] /\ w \in cast[n]
    BY <1>5, <2>3 DEF VoteInv, VoteOnce
  <2>4. CASE v = <<t, c>> /\ w = <<t, c>>
    BY <2>4
  <2>5. CASE v \in cast[n] /\ w = <<t, c>>
    BY <1>1, <1>5, <2>1, <2>2, <2>5
  <2>6. CASE v = <<t, c>> /\ w \in cast[n]
    BY <1>1, <1>5, <2>1, <2>2, <2>6
  <2> QED
    BY <1>3, <2>3, <2>4, <2>5, <2>6
<1> QED
  BY <1>2, <1>4, <1>5 DEF VoteInv, VoteOnce

\* A Term that only rises, with no vote given, keeps VoteInv; and so does one
\* that is lowered together with the history.
LEMMA SameVotes ==
    ASSUME TypeOK, VoteInv, NEW n \in Node, NEW t \in Nat,
           Term' = [Term EXCEPT ![n] = t],
           \/ t >= Term[n] /\ cast' = cast
           \/ cast' = [cast EXCEPT ![n] = {}]
    PROVE  VoteInv'
<1>1. \A p \in Node : \A v \in cast[p] : v[1] \in Nat
  BY DEF TypeOK
<1>2. \A p \in Node : cast'[p] \subseteq cast[p]
  BY DEF TypeOK
<1>3. \A p \in Node : \A v \in cast'[p] : v[1] <= Term'[p]
  <2>1. \A p \in Node : p # n => Term'[p] = Term[p]
    BY DEF TypeOK
  <2>2. Term'[n] = t /\ Term[n] \in Nat
    BY DEF TypeOK
  <2>3. cast'[n] = {} \/ (cast'[n] = cast[n] /\ t >= Term[n])
    BY DEF TypeOK
  <2>4. \A p \in Node : \A v \in cast[p] : v[1] <= Term[p]
    BY DEF VoteInv
  <2>5. \A v \in cast'[n] : v[1] <= Term'[n]
    BY <1>1, <2>2, <2>3, <2>4
  <2> QED
    BY <1>2, <2>1, <2>4, <2>5
<1> QED
  BY <1>2, <1>3 DEF VoteInv, VoteOnce

\* What follows HSet's answer keeps VoteInv.
LEMMA AppendVotes ==
    ASSUME TypeOK, VoteInv, NEW h \in appending, AppendDone(h)
    PROVE  VoteInv'
<1> DEFINE n == h.req.to
           t == h.req.entry.Term
<1>1. /\ n \in Node /\ t \in Nat /\ Term[n] \in Nat /\ Term \in [Node -> Nat]
      /\ cast \in [Node -> SUBSET (Nat \X Node)]
  BY HandlerType DEF TypeOK
<1>2. /\ Term' = [Term EXCEPT ![n] = t]
      /\ cast' = [cast EXCEPT ![n] = IF t < Term[n] THEN {} ELSE @]
  BY DEF AppendDone
<1> HIDE DEF n, t
<1>3. CASE t < Term[n]
  BY <1>1, <1>2, <1>3, SameVotes
<1>4. CASE ~(t < Term[n])
  <2>1. cast' = cast /\ t >= Term[n]
    BY <1>1, <1>2, <1>4
  <2> QED
    BY <1>1, <1>2, <2>1, SameVotes
<1> QED
  BY <1>3, <1>4

\* A node votes for one candidate in a term until its Term is lowered: the
\* check in Election and the increment in election() suffice, whatever the
\* order of requests, heartbeats and appends.
THEOREM VoteOnceCorrect == Spec => []VoteOnce
<1>1. Init => VoteInv
  BY DEF Init, VoteInv, VoteOnce
<1>2. TypeOK /\ VoteInv /\ [Next]_vars => VoteInv'
  <2> SUFFICES ASSUME TypeOK, VoteInv, [Next]_vars PROVE VoteInv'
    OBVIOUS
  <2> USE DEF nodeVars
  <2>1. ASSUME UNCHANGED <<Term, cast>> PROVE VoteInv'
    BY <2>1 DEF VoteInv, VoteOnce
  <2>2. CASE NextElection
    <3>1. ASSUME NEW n \in Node, ElectionStart(n) PROVE VoteInv'
      <4>1. Term[n] + 1 \in Nat /\ Term[n] + 1 > Term[n] /\ Term' = [Term EXCEPT ![n] = Term[n] + 1]
        BY <3>1 DEF TypeOK, ElectionStart
      <4> QED
        BY <3>1, <4>1, NewVote DEF ElectionStart
    <3>2. ASSUME NEW m \in voteReqs, Election(m) PROVE VoteInv'
      <4>1. m.to \in Node /\ m.from \in Node /\ m.term \in Nat /\ Term \in [Node -> Nat]
        BY DEF TypeOK, VoteReq
      <4>2. CASE Accepts(m.to, m)
        <5>1. m.term > Term[m.to]
          BY <4>1, <4>2 DEF Accepts
        <5> QED
          BY <3>2, <4>1, <4>2, <5>1, NewVote DEF Election
      <4>3. CASE ~Accepts(m.to, m)
        BY <2>1, <3>2, <4>3 DEF Election
      <4> QED
        BY <4>2, <4>3
    <3> QED
      BY <2>1, <2>2, <3>1, <3>2 DEF NextElection, Timeout, ElectionEnd, SendElectionRequest,
                                    ElectionDialFails, ElectionCallTimeout, ElectionReply
  <2>3. CASE NextHeart
    <3>1. ASSUME NEW m \in heartReqs, Heart(m) PROVE VoteInv'
      <4>1. m.to \in Node /\ m.term \in Nat
        BY DEF TypeOK, HeartReq
      <4>2. CASE m.term >= Term[m.to]
        BY <3>1, <4>1, <4>2, SameVotes DEF Heart
      <4>3. CASE ~(m.term >= Term[m.to])
        BY <2>1, <3>1, <4>3 DEF Heart
      <4> QED
        BY <4>2, <4>3
    <3> QED
      BY <2>1, <2>3, <3>1 DEF NextHeart, LeaderSendHeart, HeartsSent, SendHeart
  <2>4. CASE NextAppend
    <3>1. ASSUME NEW n \in Node, NEW v \in Value, AppendLog(n, v) PROVE VoteInv'
      BY <2>1, <3>1 DEF AppendLog
    <3>2. ASSUME NEW h \in appending,
                 HSet(h) \/ AppendDone(h) \/ AppendError(h) \/ AppendCallCut(h)
          PROVE  VoteInv'
      BY <2>1, <3>2, AppendVotes DEF HSet, AppendError, AppendCallCut
    <3>3. ASSUME NEW m \in appReqs,
                 \/ AppendReject(m) \/ AppendCheck(m)
                 \/ \E lost \in BOOLEAN : AppendCallTimeout(m, lost)
          PROVE  VoteInv'
      BY <2>1, <3>3 DEF AppendReject, AppendCheck, AppendCallTimeout
    <3>4. ASSUME NEW r \in appReps, AppendReplyOK(r) \/ CatchUp(r) \/ AppendCallOver(r)
          PROVE  VoteInv'
      BY <2>1, <3>4 DEF AppendReplyOK, CatchUp, AppendCallOver
    <3>5. ASSUME NEW n \in Node, NEW i, NEW j, NEW k, SendAppendEntry(n, i, j, k) PROVE VoteInv'
      BY <2>1, <3>5 DEF SendAppendEntry
    <3> QED
      BY <2>4, <3>1, <3>2, <3>3, <3>4, <3>5 DEF NextAppend
  <2>5. ASSUME NEW n \in Node, Restart(n) PROVE VoteInv'
    BY <2>5, SameVotes DEF Restart
  <2>6. CASE UNCHANGED vars
    BY <2>1, <2>6 DEF vars
  <2> QED
    BY <2>2, <2>3, <2>4, <2>5, <2>6 DEF Next
<1> QED
  BY <1>1, <1>2, TypeCorrect, PTL DEF Spec, VoteInv

-----------------------------------------------------------------------------
(* Logs without gaps.                                                      *)

\* A handler that waits for redis will append the item after one that its node
\* holds, although the tail may have moved since the check.
HandlersSound ==
    \A h \in appending : /\ h.req.entry.Index = h.req.pre.Index + 1
                         /\ Holds(h.req.to, h.req.pre.Index)

\* A peer's commitIndex is booked only together with an acceptIndex.
TablesFromAnswers ==
    /\ \A n, m \in Node : acceptIndex[n][m] = 0 => commitIndex[n][m] = 0
    /\ \A r \in appReps : r.accept => r.append > 0

\* The inductive invariant of the replication.
ReplicationInv == LogWellFormed /\ HandlersSound /\ TablesFromAnswers /\ CommitWithinLog

\* The tail of a well-formed log is its last item, and held.
LEMMA TailHeld ==
    ASSUME TypeOK, LogWellFormed, NEW n \in Node
    PROVE  /\ GetTailItem(n) = ItemList[n][Len(ItemList[n])]
           /\ Holds(n, GetTailItem(n).Index) /\ Holds(n, 0)
           /\ Len(ItemList[n]) \in Nat /\ Len(ItemList[n]) > 0
<1>1. Len(ItemList[n]) \in Nat /\ Len(ItemList[n]) > 0 /\ ItemList[n][1] = ZeroItem
  BY DEF TypeOK, LogWellFormed
<1>2. GetTailItem(n) = ItemList[n][Len(ItemList[n])]
  BY <1>1 DEF GetTailItem
<1>3. Len(ItemList[n]) \in 1 .. Len(ItemList[n]) /\ 1 \in 1 .. Len(ItemList[n])
  BY <1>1
<1> QED
  BY <1>1, <1>2, <1>3 DEF Holds, ZeroItem

\* Below an index held every index is held.
LEMMA HeldBelow ==
    ASSUME TypeOK, LogWellFormed, NEW n \in Node, NEW i, Holds(n, i), NEW j \in 0 .. i
    PROVE  Holds(n, j)
  BY DEF Holds, LogWellFormed

\* GetPreItem returns an item of the log.
LEMMA PreHeld ==
    ASSUME TypeOK, LogWellFormed, NEW n \in Node, NEW item
    PROVE  Holds(n, GetPreItem(n, item).Index)
<1> DEFINE L == Len(ItemList[n])
           before == {k \in 1 .. L : \A i \in 1 .. k : ItemList[n][i].Index # item.Index}
<1>1. L \in Nat
  BY DEF TypeOK
<1>2. IsFiniteSet(before) /\ Cardinality(before) <= L /\ Cardinality(before) \in Nat
  <2>1. IsFiniteSet(1 .. L) /\ Cardinality(1 .. L) = L
    BY <1>1, FS_Interval
  <2>2. before \subseteq 1 .. L
    OBVIOUS
  <2> HIDE DEF before, L
  <2> QED
    BY <2>1, <2>2, <1>1, FS_Subset, FS_CardinalityType
<1>3. before # {} => Cardinality(before) \in 1 .. L
  <2> HIDE DEF before, L
  <2> QED
    BY <1>1, <1>2, FS_EmptySet
<1>4. GetPreItem(n, item) = IF before = {} THEN ZeroItem ELSE ItemList[n][Cardinality(before)]
  BY DEF GetPreItem
<1>5. CASE before = {}
  BY <1>4, <1>5, TailHeld DEF ZeroItem
<1>6. CASE before # {}
  <2>1. Cardinality(before) \in 1 .. Len(ItemList[n])
    BY <1>3, <1>6
  <2>2. GetPreItem(n, item) = ItemList[n][Cardinality(before)]
    BY <1>4, <1>6
  <2> HIDE DEF before
  <2> QED
    BY <2>1, <2>2 DEF Holds
<1> QED
  BY <1>5, <1>6

\* Unchanged lists hold what they held, and have the tails they had.
LEMMA SameLists ==
    ASSUME ItemList' = ItemList
    PROVE  /\ \A n \in Node : \A i : Holds(n, i)' <=> Holds(n, i)
           /\ \A n \in Node : GetTailItem(n)' = GetTailItem(n)
  BY DEF Holds, GetTailItem

\* Unchanged lists stay well-formed while terms rise.
LEMMA LogsKept ==
    ASSUME TypeOK, TypeOK', LogWellFormed, ItemList' = ItemList,
           \A n \in Node : Term'[n] >= Term[n]
    PROVE  LogWellFormed'
<1>1. SUFFICES ASSUME NEW n \in Node
               PROVE /\ Len(ItemList'[n]) > 0 /\ ItemList'[n][1] = ZeroItem
                     /\ \A k \in 1 .. Len(ItemList'[n]) :
                          \A i \in 0 .. ItemList'[n][k].Index : Holds(n, i)'
                     /\ GetTailItem(n)'.Term <= Term'[n]
  BY DEF LogWellFormed, ZeroItem
<1>2. /\ Len(ItemList'[n]) > 0 /\ ItemList'[n][1] = ZeroItem
      /\ \A k \in 1 .. Len(ItemList'[n]) : \A i \in 0 .. ItemList'[n][k].Index : Holds(n, i)'
  BY SameLists DEF LogWellFormed
<1>3. /\ GetTailItem(n) \in Item /\ GetTailItem(n).Term \in Nat /\ Term[n] \in Nat
      /\ Term'[n] \in Nat
  BY TailType DEF TypeOK, Item
<1>4. GetTailItem(n).Term <= Term[n] /\ GetTailItem(n)' = GetTailItem(n)
  BY SameLists DEF LogWellFormed
<1> QED
  BY <1>2, <1>3, <1>4

\* One more item at the end of n's list: what was held is held, the new index
\* is held too and nothing else, and the new item is the tail.
LEMMA Appended ==
    ASSUME TypeOK, NEW n \in Node, NEW entry \in Item,
           ItemList' = [ItemList EXCEPT ![n] = Append(@, entry)]
    PROVE  /\ \A p \in Node : \A i : Holds(p, i) => Holds(p, i)'
           /\ Holds(n, entry.Index)'
           /\ \A p \in Node : \A i : Holds(p, i)' => Holds(p, i) \/ (p = n /\ i = entry.Index)
           /\ GetTailItem(n)' = entry
           /\ \A p \in Node : p # n => GetTailItem(p)' = GetTailItem(p)
<1>1. /\ ItemList \in [Node -> Seq(Item)] /\ ItemList[n] \in Seq(Item)
      /\ ItemList'[n] = Append(ItemList[n], entry)
      /\ \A p \in Node : p # n => ItemList'[p] = ItemList[p]
  BY DEF TypeOK
<1>2. /\ Len(ItemList[n]) \in Nat /\ Len(ItemList'[n]) = Len(ItemList[n]) + 1
      /\ \A k \in 1 .. Len(ItemList[n]) : ItemList'[n][k] = ItemList[n][k]
      /\ ItemList'[n][Len(ItemList[n]) + 1] = entry
  BY <1>1
<1>3. ASSUME NEW p \in Node, NEW i, Holds(p, i) PROVE Holds(p, i)'
  <2>1. CASE p # n
    BY <1>1, <1>3, <2>1 DEF Holds
  <2>2. CASE p = n
    <3>1. PICK k \in 1 .. Len(ItemList[n]) : ItemList[n][k].Index = i
      BY <1>3, <2>2 DEF Holds
    <3>2. k \in 1 .. Len(ItemList'[n]) /\ ItemList'[n][k].Index = i
      BY <1>2, <3>1
    <3> QED
      BY <2>2, <3>2 DEF Holds
  <2> QED
    BY <2>1, <2>2
<1>4. Holds(n, entry.Index)'
  <2>1. Len(ItemList[n]) + 1 \in 1 .. Len(ItemList'[n])
    BY <1>2
  <2> QED
    BY <1>2, <2>1 DEF Holds
<1>5. ASSUME NEW p \in Node, NEW i, Holds(p, i)' PROVE Holds(p, i) \/ (p = n /\ i = entry.Index)
  <2>1. CASE p # n
    BY <1>1, <1>5, <2>1 DEF Holds
  <2>2. CASE p = n
    <3>1. PICK k \in 1 .. Len(ItemList'[n]) : ItemList'[n][k].Index = i
      BY <1>5, <2>2 DEF Holds
    <3>2. CASE k \in 1 .. Len(ItemList[n])
      BY <1>2, <2>2, <3>1, <3>2 DEF Holds
    <3>3. CASE k = Len(ItemList[n]) + 1
      BY <1>2, <2>2, <3>1, <3>3
    <3> QED
      BY <1>2, <3>1, <3>2, <3>3
  <2> QED
    BY <2>1, <2>2
<1>6. GetTailItem(n)' = entry
  BY <1>2 DEF GetTailItem
<1>7. \A p \in Node : p # n => GetTailItem(p)' = GetTailItem(p)
  BY <1>1 DEF GetTailItem
<1> QED
  BY <1>3, <1>4, <1>5, <1>6, <1>7

\* An item that follows one held keeps the logs well-formed.
LEMMA LogsExtended ==
    ASSUME TypeOK, TypeOK', LogWellFormed, NEW n \in Node, NEW entry \in Item, NEW i \in Nat,
           Holds(n, i), entry.Index = i + 1,
           ItemList' = [ItemList EXCEPT ![n] = Append(@, entry)],
           Term' = [Term EXCEPT ![n] = entry.Term]
    PROVE  LogWellFormed'
<1>1. SUFFICES ASSUME NEW p \in Node
               PROVE /\ Len(ItemList'[p]) > 0 /\ ItemList'[p][1] = ZeroItem
                     /\ \A k \in 1 .. Len(ItemList'[p]) :
                          \A j \in 0 .. ItemList'[p][k].Index : Holds(p, j)'
                     /\ GetTailItem(p)'.Term <= Term'[p]
  BY DEF LogWellFormed, ZeroItem
<1>2. /\ ItemList \in [Node -> Seq(Item)] /\ Len(ItemList[p]) \in Nat /\ Len(ItemList[p]) > 0
      /\ ItemList[p][1] = ZeroItem /\ Term \in [Node -> Nat]
  <2>1. ItemList \in [Node -> Seq(Item)] /\ Term \in [Node -> Nat]
    BY DEF TypeOK
  <2>2. Len(ItemList[p]) \in Nat /\ Len(ItemList[p]) > 0
    BY TailHeld
  <2>3. ItemList[p][1] = ZeroItem
    BY DEF LogWellFormed
  <2> QED
    BY <2>1, <2>2, <2>3
<1>6. entry.Term \in Nat /\ entry.Index \in Nat
  BY DEF Item
<1>7. /\ \A q \in Node : \A j : Holds(q, j) => Holds(q, j)'
      /\ Holds(n, entry.Index)'
      /\ \A q \in Node : \A j : Holds(q, j)' => Holds(q, j) \/ (q = n /\ j = entry.Index)
      /\ GetTailItem(n)' = entry
      /\ \A q \in Node : q # n => GetTailItem(q)' = GetTailItem(q)
  BY Appended
<1>3. Len(ItemList'[p]) > 0 /\ ItemList'[p][1] = ZeroItem
  BY <1>2
<1>4. ASSUME NEW k \in 1 .. Len(ItemList'[p]), NEW j \in 0 .. ItemList'[p][k].Index
      PROVE  Holds(p, j)'
  <2>0. PICK x : x = ItemList'[p][k].Index
    OBVIOUS
  <2>1. Holds(p, x)'
    BY <2>0 DEF Holds
  <2>2. Holds(p, x) \/ (p = n /\ x = entry.Index)
    BY <1>7, <2>1
  <2>3. CASE Holds(p, x)
    <3>1. Holds(p, j)
      BY <2>0, <2>3, HeldBelow
    <3> QED
      BY <1>7, <3>1
  <2>4. CASE p = n /\ x = entry.Index
    <3>1. j \in 0 .. i \/ j = entry.Index
      BY <1>6, <2>0, <2>4
    <3>2. CASE j \in 0 .. i
      BY <1>7, <2>4, <3>2, HeldBelow
    <3>3. CASE j = entry.Index
      BY <1>7, <2>4, <3>3
    <3> QED
      BY <3>1, <3>2, <3>3
  <2> QED
    BY <2>2, <2>3, <2>4
<1>5. GetTailItem(p)'.Term <= Term'[p]
  <2>1. CASE p = n
    <3>1. Term'[p] = entry.Term /\ GetTailItem(p)' = entry
      BY <1>2, <1>7, <2>1
    <3> QED
      BY <1>6, <3>1
  <2>2. CASE p # n
    BY <1>2, <1>7, <2>2 DEF LogWellFormed
  <2> QED
    BY <2>1, <2>2
<1> QED
  BY <1>3, <1>4, <1>5

\* A step that leaves the lists, the commits and the tables alone, and keeps
\* handlers and answers sound, keeps the invariant.
LEMMA QuietStep ==
    ASSUME TypeOK, TypeOK', ReplicationInv,
           UNCHANGED <<ItemList, CommitIndex, acceptIndex, commitIndex>>,
           \A n \in Node : Term'[n] >= Term[n],
           \A h \in appending' : /\ h.req.to \in Node
                                 /\ h.req.entry.Index = h.req.pre.Index + 1
                                 /\ Holds(h.req.to, h.req.pre.Index),
           \A r \in appReps' : r.accept => r.append > 0
    PROVE  ReplicationInv'
<1>1. LogWellFormed'
  BY LogsKept DEF ReplicationInv
<1>2. HandlersSound'
  BY SameLists DEF HandlersSound
<1>3. TablesFromAnswers'
  BY DEF ReplicationInv, TablesFromAnswers
<1>4. CommitWithinLog'
  <2>1. CommitIndex' = CommitIndex /\ acceptIndex' = acceptIndex /\ ItemList' = ItemList
    OBVIOUS
  <2> QED
    BY <2>1 DEF ReplicationInv, CommitWithinLog, Holds
<1> QED
  BY <1>1, <1>2, <1>3, <1>4 DEF ReplicationInv

\* With nothing booked CheckCommitId advances nothing.
LEMMA NothingBooked ==
    ASSUME TypeOK, TablesFromAnswers, NEW n \in Node, \A m \in Node : acceptIndex[n][m] = 0
    PROVE  CheckCommitId(n, commitIndex[n]) = CommitIndex[n]
<1>1. \A m \in Node : commitIndex[n][m] = 0
  BY DEF TablesFromAnswers
<1>2. CommitIndex[n] \in Nat
  BY DEF TypeOK
<1>3. {m \in Node \ {n} : commitIndex[n][m] > CommitIndex[n]} = {}
  BY <1>1, <1>2
<1>4. Cardinality({m \in Node \ {n} : commitIndex[n][m] > CommitIndex[n]}) = 0
  BY <1>3, FS_EmptySet
<1> QED
  BY <1>4, NAssumption DEF CheckCommitId, Advanced

\* Every step of an election keeps the invariant.
LEMMA ElectionLogs ==
    ASSUME TypeOK, TypeOK', ReplicationInv, NextElection
    PROVE  ReplicationInv'
<1> USE DEF nodeVars, logVars, workVars, beatVars, appVars
<1>1. UNCHANGED <<ItemList, CommitIndex, acceptIndex, commitIndex, appending, appReps>>
  BY DEF NextElection, Timeout, ElectionStart, ElectionEnd, SendElectionRequest, ElectionDialFails,
         ElectionCallTimeout, Election, ElectionReply
<1>2. \A n \in Node : Term'[n] >= Term[n]
  <2>1. Term \in [Node -> Nat]
    BY DEF TypeOK
  <2>2. ASSUME NEW n \in Node, ElectionStart(n) PROVE \A p \in Node : Term'[p] >= Term[p]
    BY <2>1, <2>2 DEF ElectionStart
  <2>3. ASSUME NEW m \in voteReqs, Election(m) PROVE \A p \in Node : Term'[p] >= Term[p]
    <3>1. m.to \in Node /\ m.term \in Nat
      BY DEF TypeOK, VoteReq
    <3>2. CASE Accepts(m.to, m)
      BY <2>1, <2>3, <3>1, <3>2 DEF Election, Accepts
    <3>3. CASE ~Accepts(m.to, m)
      BY <2>1, <2>3, <3>3 DEF Election
    <3> QED
      BY <3>2, <3>3
  <2>4. ASSUME Term' = Term PROVE \A p \in Node : Term'[p] >= Term[p]
    BY <2>1, <2>4
  <2> QED
    BY <2>2, <2>3, <2>4 DEF NextElection, Timeout, ElectionEnd, SendElectionRequest,
                            ElectionDialFails, ElectionCallTimeout, ElectionReply
<1>3. \A h \in appending' : /\ h.req.to \in Node
                            /\ h.req.entry.Index = h.req.pre.Index + 1
                            /\ Holds(h.req.to, h.req.pre.Index)
  BY <1>1, HandlerType DEF ReplicationInv, HandlersSound
<1>4. \A r \in appReps' : r.accept => r.append > 0
  BY <1>1 DEF ReplicationInv, TablesFromAnswers
<1> QED
  BY <1>1, <1>2, <1>3, <1>4, QuietStep

\* Every step of the heartbeats keeps the invariant: a notice is obeyed only
\* below the tail.
LEMMA HeartLogs ==
    ASSUME TypeOK, TypeOK', ReplicationInv, NextHeart
    PROVE  ReplicationInv'
<1> USE DEF nodeVars, logVars, workVars, oathVars, appVars
<1>1. UNCHANGED <<ItemList, acceptIndex, commitIndex, appending, appReps>>
  BY DEF NextHeart, LeaderSendHeart, HeartsSent, SendHeart, Heart
<1>2. \A n \in Node : Term'[n] >= Term[n]
  <2>1. Term \in [Node -> Nat]
    BY DEF TypeOK
  <2>2. ASSUME NEW m \in heartReqs, Heart(m) PROVE \A p \in Node : Term'[p] >= Term[p]
    <3>1. m.to \in Node /\ m.term \in Nat
      BY DEF TypeOK, HeartReq
    <3> QED
      BY <2>1, <2>2, <3>1 DEF Heart
  <2>3. ASSUME Term' = Term PROVE \A p \in Node : Term'[p] >= Term[p]
    BY <2>1, <2>3
  <2> QED
    BY <2>2, <2>3 DEF NextHeart, LeaderSendHeart, HeartsSent, SendHeart
<1>3. LogWellFormed'
  BY <1>1, <1>2, LogsKept DEF ReplicationInv
<1>4. HandlersSound'
  BY <1>1, SameLists, HandlerType DEF ReplicationInv, HandlersSound
<1>5. TablesFromAnswers'
  BY <1>1 DEF ReplicationInv, TablesFromAnswers
<1>6. ASSUME NEW n \in Node, \A m \in Node : acceptIndex'[n][m] = 0
      PROVE  Holds(n, CommitIndex'[n])
  <2>1. Holds(n, CommitIndex[n])
    BY <1>1, <1>6 DEF ReplicationInv, CommitWithinLog
  <2>2. ASSUME NEW p \in Node, HeartsSent(p) PROVE CommitIndex'[n] = CommitIndex[n]
    BY <1>1, <1>6, <2>2, NothingBooked DEF ReplicationInv, HeartsSent, TypeOK
  <2>3. ASSUME NEW m \in heartReqs, Heart(m) PROVE Holds(n, CommitIndex'[n])
    <3>1. m.to \in Node
      BY DEF TypeOK, HeartReq
    <3>2. CASE CommitIndex'[n] = CommitIndex[n]
      BY <2>1, <3>2
    <3>3. CASE CommitIndex'[n] # CommitIndex[n]
      <4>1. n = m.to /\ CommitIndex'[n] = CommitIndex[n] + 1 /\ GetTailItem(n).Index > CommitIndex[n]
        BY <2>3, <3>1, <3>3 DEF Heart, Obeyed, TypeOK
      <4>2. GetTailItem(n).Index \in Nat /\ CommitIndex[n] \in Nat
        BY TailType DEF TypeOK, Item
      <4>3. CommitIndex'[n] \in 0 .. GetTailItem(n).Index
        BY <4>1, <4>2
      <4>4. Holds(n, GetTailItem(n).Index)
        BY TailHeld DEF ReplicationInv
      <4> QED
        BY <4>3, <4>4, HeldBelow DEF ReplicationInv
    <3> QED
      BY <3>2, <3>3
  <2>4. ASSUME CommitIndex' = CommitIndex PROVE Holds(n, CommitIndex'[n])
    BY <2>1, <2>4
  <2> QED
    BY <2>1, <2>2, <2>3, <2>4 DEF NextHeart, LeaderSendHeart, SendHeart
<1>7. CommitWithinLog'
  BY <1>1, <1>6 DEF CommitWithinLog, Holds
<1> QED
  BY <1>3, <1>4, <1>5, <1>7 DEF ReplicationInv

\* Requests, checks, HSets, errors and abandoned calls keep the invariant: a
\* handler starts at an item its node holds.
LEMMA RequestLogs ==
    ASSUME TypeOK, TypeOK', ReplicationInv,
           \/ \E n \in Node, v \in Value : AppendLog(n, v)
           \/ \E n \in Node, i, j, k \in 1 .. N - 1 : SendAppendEntry(n, i, j, k)
           \/ \E m \in appReqs : AppendReject(m) \/ AppendCheck(m)
           \/ \E m \in appReqs, lost \in BOOLEAN : AppendCallTimeout(m, lost)
           \/ \E h \in appending : HSet(h) \/ AppendError(h) \/ AppendCallCut(h)
           \/ \E r \in appReps : CatchUp(r) \/ AppendCallOver(r)
    PROVE  ReplicationInv'
<1> USE DEF nodeVars, logVars, workVars, oathVars, beatVars
<1>1. UNCHANGED <<ItemList, CommitIndex, acceptIndex, commitIndex, Term>>
  <2>1. ASSUME NEW n \in Node, NEW v \in Value, AppendLog(n, v)
        PROVE  UNCHANGED <<ItemList, CommitIndex, acceptIndex, commitIndex, Term>>
    BY <2>1 DEF AppendLog
  <2>2. ASSUME NEW n \in Node, NEW i \in 1 .. N - 1, NEW j \in 1 .. N - 1, NEW k \in 1 .. N - 1,
             SendAppendEntry(n, i, j, k)
        PROVE  UNCHANGED <<ItemList, CommitIndex, acceptIndex, commitIndex, Term>>
    BY <2>2 DEF SendAppendEntry
  <2>3. ASSUME NEW m \in appReqs, AppendReject(m)
        PROVE  UNCHANGED <<ItemList, CommitIndex, acceptIndex, commitIndex, Term>>
    BY <2>3 DEF AppendReject
  <2>4. ASSUME NEW m \in appReqs, AppendCheck(m)
        PROVE  UNCHANGED <<ItemList, CommitIndex, acceptIndex, commitIndex, Term>>
    BY <2>4 DEF AppendCheck
  <2>5. ASSUME NEW m \in appReqs, NEW lost \in BOOLEAN, AppendCallTimeout(m, lost)
        PROVE  UNCHANGED <<ItemList, CommitIndex, acceptIndex, commitIndex, Term>>
    BY <2>5 DEF AppendCallTimeout
  <2>6. ASSUME NEW h \in appending, HSet(h)
        PROVE  UNCHANGED <<ItemList, CommitIndex, acceptIndex, commitIndex, Term>>
    BY <2>6 DEF HSet
  <2>7. ASSUME NEW h \in appending, AppendError(h)
        PROVE  UNCHANGED <<ItemList, CommitIndex, acceptIndex, commitIndex, Term>>
    BY <2>7 DEF AppendError
  <2>8. ASSUME NEW h \in appending, AppendCallCut(h)
        PROVE  UNCHANGED <<ItemList, CommitIndex, acceptIndex, commitIndex, Term>>
    BY <2>8 DEF AppendCallCut
  <2>9. ASSUME NEW r \in appReps, CatchUp(r)
        PROVE  UNCHANGED <<ItemList, CommitIndex, acceptIndex, commitIndex, Term>>
    BY <2>9 DEF CatchUp
  <2>10. ASSUME NEW r \in appReps, AppendCallOver(r)
        PROVE  UNCHANGED <<ItemList, CommitIndex, acceptIndex, commitIndex, Term>>
    BY <2>10 DEF AppendCallOver
  <2> QED
    BY <2>1, <2>2, <2>3, <2>4, <2>5, <2>6, <2>7, <2>8, <2>9, <2>10
<1>2. \A n \in Node : Term'[n] >= Term[n]
  BY <1>1 DEF TypeOK
<1> DEFINE Sound(h) == /\ h.req.to \in Node
                       /\ h.req.entry.Index = h.req.pre.Index + 1
                       /\ Holds(h.req.to, h.req.pre.Index)
<1>3. \A h \in appending : Sound(h)
  BY HandlerType DEF ReplicationInv, HandlersSound
<1>4. \A h \in appending' : Sound(h)
  <2>1. ASSUME NEW n \in Node, NEW v \in Value, AppendLog(n, v) PROVE \A h \in appending' : Sound(h)
    <3> DEFINE m == [from |-> n, to |-> n, node |-> n, live |-> TRUE,
                     entry |-> [Index |-> GetTailItem(n).Index + 1, Term |-> Term[n], Log |-> v],
                     pre |-> GetTailItem(n), commit |-> 0]
    <3>1. appending' = appending \cup {Handler(m, FALSE)}
      BY <2>1 DEF AppendLog
    <3>2. Handler(m, FALSE).req = m
      BY DEF Handler
    <3>3. m.to = n /\ m.entry.Index = m.pre.Index + 1 /\ m.pre = GetTailItem(n)
      OBVIOUS
    <3>4. Holds(n, GetTailItem(n).Index)
      BY TailHeld DEF ReplicationInv
    <3> HIDE DEF m
    <3>5. Sound(Handler(m, FALSE))
      BY <3>2, <3>3, <3>4
    <3> QED
      BY <1>3, <3>1, <3>5
  <2>2. ASSUME NEW m \in appReqs, AppendCheck(m) PROVE \A h \in appending' : Sound(h)
    <3>1. appending' = appending \cup {Handler(m, FALSE)} /\ Handler(m, FALSE).req = m
      BY <2>2 DEF AppendCheck, Handler
    <3>2. m.to \in Node /\ m.entry.Index = m.pre.Index + 1 /\ GetTailItem(m.to).Index = m.pre.Index
      BY <2>2 DEF AppendCheck, Extends, TypeOK, AppReq
    <3>3. Holds(m.to, m.pre.Index)
      BY <3>2, TailHeld DEF ReplicationInv
    <3> QED
      BY <1>3, <3>1, <3>2, <3>3
  <2>3. ASSUME NEW h \in appending, HSet(h) PROVE \A g \in appending' : Sound(g)
    BY <1>3, <2>3 DEF HSet, Handler
  <2>4. ASSUME NEW h \in appending, AppendCallCut(h) PROVE \A g \in appending' : Sound(g)
    <3> DEFINE g0 == Handler([h.req EXCEPT !.live = FALSE], h.saved)
    <3>1. appending' = (appending \ {h}) \cup {g0}
      BY <2>4 DEF AppendCallCut
    <3>2. g0.req = [h.req EXCEPT !.live = FALSE] /\ h.req \in AppReq
      BY HandlerType DEF Handler
    <3>3. g0.req.to = h.req.to /\ g0.req.entry = h.req.entry /\ g0.req.pre = h.req.pre
      BY <3>2 DEF AppReq
    <3> HIDE DEF g0
    <3>4. Sound(g0)
      BY <1>3, <3>3
    <3> QED
      BY <1>3, <3>1, <3>4
  <2>5. ASSUME appending' \subseteq appending PROVE \A h \in appending' : Sound(h)
    BY <1>3, <2>5
  <2>6. ASSUME NEW n \in Node, NEW i \in 1 .. N - 1, NEW j \in 1 .. N - 1, NEW k \in 1 .. N - 1,
             SendAppendEntry(n, i, j, k)
        PROVE  appending' \subseteq appending
    BY <2>6 DEF SendAppendEntry
  <2>7. ASSUME NEW m \in appReqs, AppendReject(m)
        PROVE  appending' \subseteq appending
    BY <2>7 DEF AppendReject
  <2>8. ASSUME NEW m \in appReqs, NEW lost \in BOOLEAN, AppendCallTimeout(m, lost)
        PROVE  appending' \subseteq appending
    BY <2>8 DEF AppendCallTimeout
  <2>9. ASSUME NEW h \in appending, AppendError(h)
        PROVE  appending' \subseteq appending
    BY <2>9 DEF AppendError
  <2>10. ASSUME NEW r \in appReps, CatchUp(r)
        PROVE  appending' \subseteq appending
    BY <2>10 DEF CatchUp
  <2>11. ASSUME NEW r \in appReps, AppendCallOver(r)
        PROVE  appending' \subseteq appending
    BY <2>11 DEF AppendCallOver
  <2> QED
    BY <2>1, <2>2, <2>3, <2>4, <2>5, <2>6, <2>7, <2>8, <2>9, <2>10, <2>11
<1>5. \A r \in appReps' : r.accept => r.append > 0
  <2>1. \A r \in appReps : r.accept => r.append > 0
    BY DEF ReplicationInv, TablesFromAnswers
  <2>2. ASSUME NEW m \in appReqs, AppendReject(m) PROVE \A r \in appReps' : r.accept => r.append > 0
    BY <2>1, <2>2 DEF AppendReject, Answer
  <2>3. ASSUME appReps' \subseteq appReps PROVE \A r \in appReps' : r.accept => r.append > 0
    BY <2>1, <2>3
  <2>4. ASSUME NEW n \in Node, NEW v \in Value, AppendLog(n, v)
        PROVE  appReps' \subseteq appReps
    BY <2>4 DEF AppendLog
  <2>5. ASSUME NEW n \in Node, NEW i \in 1 .. N - 1, NEW j \in 1 .. N - 1, NEW k \in 1 .. N - 1,
             SendAppendEntry(n, i, j, k)
        PROVE  appReps' \subseteq appReps
    BY <2>5 DEF SendAppendEntry
  <2>6. ASSUME NEW m \in appReqs, AppendCheck(m)
        PROVE  appReps' \subseteq appReps
    BY <2>6 DEF AppendCheck
  <2>7. ASSUME NEW m \in appReqs, NEW lost \in BOOLEAN, AppendCallTimeout(m, lost)
        PROVE  appReps' \subseteq appReps
    BY <2>7 DEF AppendCallTimeout
  <2>8. ASSUME NEW h \in appending, HSet(h)
        PROVE  appReps' \subseteq appReps
    BY <2>8 DEF HSet
  <2>9. ASSUME NEW h \in appending, AppendError(h)
        PROVE  appReps' \subseteq appReps
    BY <2>9 DEF AppendError
  <2>10. ASSUME NEW h \in appending, AppendCallCut(h)
        PROVE  appReps' \subseteq appReps
    BY <2>10 DEF AppendCallCut
  <2>11. ASSUME NEW r \in appReps, CatchUp(r)
        PROVE  appReps' \subseteq appReps
    BY <2>11 DEF CatchUp
  <2>12. ASSUME NEW r \in appReps, AppendCallOver(r)
        PROVE  appReps' \subseteq appReps
    BY <2>12 DEF AppendCallOver
  <2> QED
    BY <2>2, <2>3, <2>4, <2>5, <2>6, <2>7, <2>8, <2>9, <2>10, <2>11, <2>12
<1> QED
  BY <1>1, <1>2, <1>4, <1>5, QuietStep

\* The end of Append keeps the invariant: the item follows one that is held,
\* and the notice is obeyed below the tail that the check saw.
LEMMA DoneLogs ==
    ASSUME TypeOK, TypeOK', ReplicationInv, NEW h \in appending, AppendDone(h)
    PROVE  ReplicationInv'
<1> DEFINE n == h.req.to
           entry == h.req.entry
           i == h.req.pre.Index
<1>1. n \in Node /\ entry \in Item /\ i \in Nat /\ entry.Index = i + 1 /\ Holds(n, i)
  BY HandlerType DEF ReplicationInv, HandlersSound
<1>2. /\ ItemList' = [ItemList EXCEPT ![n] = Append(@, entry)]
      /\ Term' = [Term EXCEPT ![n] = entry.Term]
      /\ appending' = appending \ {h}
      /\ CommitIndex' = [CommitIndex EXCEPT ![n] = Obeyed(n, h.req.commit, h.req.pre)]
      /\ UNCHANGED <<acceptIndex, commitIndex>>
  BY DEF AppendDone, workVars
<1> HIDE DEF n, entry, i
<1>3. /\ \A p \in Node : \A j : Holds(p, j) => Holds(p, j)'
      /\ Holds(n, entry.Index)'
  BY <1>1, <1>2, Appended
<1>4. LogWellFormed'
  BY <1>1, <1>2, LogsExtended DEF ReplicationInv
<1>5. HandlersSound'
  <2>1. SUFFICES ASSUME NEW g \in appending'
                 PROVE  g.req.entry.Index = g.req.pre.Index + 1 /\ Holds(g.req.to, g.req.pre.Index)'
    BY DEF HandlersSound
  <2>2. g \in appending /\ g.req.to \in Node
    BY <1>2, HandlerType
  <2>3. g.req.entry.Index = g.req.pre.Index + 1 /\ Holds(g.req.to, g.req.pre.Index)
    BY <2>2 DEF ReplicationInv, HandlersSound
  <2> QED
    BY <1>3, <2>2, <2>3
<1>6. TablesFromAnswers'
  <2>1. \A r \in appReps' : r.accept => r.append > 0
    <3>1. \A r \in appReps' \ appReps : r.append = h.req.entry.Index
      BY DEF AppendDone, Answer
    <3>2. h.req.entry.Index > 0
      BY <1>1 DEF entry
    <3> QED
      BY <3>1, <3>2 DEF ReplicationInv, TablesFromAnswers
  <2> QED
    BY <1>2, <2>1 DEF ReplicationInv, TablesFromAnswers
<1>7. ASSUME NEW p \in Node, \A m \in Node : acceptIndex'[p][m] = 0
      PROVE  Holds(p, CommitIndex'[p])
  <2>1. Holds(p, CommitIndex[p])
    BY <1>2, <1>7 DEF ReplicationInv, CommitWithinLog
  <2>2. CASE CommitIndex'[p] = CommitIndex[p]
    BY <2>1, <2>2
  <2>3. CASE CommitIndex'[p] # CommitIndex[p]
    <3>1. p = n /\ CommitIndex'[p] = CommitIndex[p] + 1 /\ i > CommitIndex[p]
      BY <1>1, <1>2, <2>3 DEF Obeyed, TypeOK, i
    <3>2. CommitIndex[p] \in Nat
      BY DEF TypeOK
    <3>3. CommitIndex'[p] \in 0 .. i
      BY <1>1, <3>1, <3>2
    <3> QED
      BY <1>1, <3>1, <3>3, HeldBelow DEF ReplicationInv
  <2> QED
    BY <2>2, <2>3
<1>8. CommitWithinLog'
  <2>1. SUFFICES ASSUME NEW p \in Node, \A m \in Node : acceptIndex'[p][m] = 0
                 PROVE  Holds(p, CommitIndex[p])'
    BY DEF CommitWithinLog
  <2>2. PICK c : c = CommitIndex'[p]
    OBVIOUS
  <2>3. Holds(p, c)
    BY <1>7, <2>1, <2>2
  <2>4. Holds(p, c)'
    BY <1>3, <2>3
  <2> QED
    BY <2>2, <2>4 DEF Holds
<1> QED
  BY <1>4, <1>5, <1>6, <1>8 DEF ReplicationInv

\* Booking an accepted answer keeps the invariant.
LEMMA BookedLogs ==
    ASSUME TypeOK, TypeOK', ReplicationInv, NEW r \in appReps, AppendReplyOK(r)
    PROVE  ReplicationInv'
<1> USE DEF nodeVars
<1>1. UNCHANGED <<ItemList, Term, appending>> /\ appReps' = appReps \ {r} /\ r.append > 0
  BY DEF AppendReplyOK, ReplicationInv, TablesFromAnswers
<1>2. r.to \in Node /\ r.node \in Node /\ r.append \in Nat /\ r.commit \in Nat
  BY DEF TypeOK, AppRep
<1>3. LogWellFormed'
  <2>1. \A n \in Node : Term'[n] >= Term[n]
    BY <1>1 DEF TypeOK
  <2> QED
    BY <1>1, <2>1, LogsKept DEF ReplicationInv
<1>4. HandlersSound'
  BY <1>1, SameLists, HandlerType DEF ReplicationInv, HandlersSound
<1>5. /\ acceptIndex'[r.to][r.node] = r.append
      /\ \A n, m \in Node : ~(n = r.to /\ m = r.node) =>
             acceptIndex'[n][m] = acceptIndex[n][m] /\ commitIndex'[n][m] = commitIndex[n][m]
      /\ \A n \in Node : n # r.to => CommitIndex'[n] = CommitIndex[n]
  <2>1. /\ acceptIndex \in [Node -> [Node -> Nat]] /\ commitIndex \in [Node -> [Node -> Nat]]
        /\ CommitIndex \in [Node -> Nat]
    BY DEF TypeOK
  <2>2. /\ acceptIndex' = [acceptIndex EXCEPT ![r.to] = [acceptIndex[r.to] EXCEPT ![r.node] = r.append]]
        /\ commitIndex' = [commitIndex EXCEPT ![r.to] = [commitIndex[r.to] EXCEPT ![r.node] = r.commit]]
    BY DEF AppendReplyOK
  <2>3. \A n \in Node : n # r.to => CommitIndex'[n] = CommitIndex[n]
    BY <2>1 DEF AppendReplyOK
  <2> QED
    BY <1>2, <2>1, <2>2, <2>3
<1>6. TablesFromAnswers'
  BY <1>1, <1>2, <1>5 DEF ReplicationInv, TablesFromAnswers
<1>7. CommitWithinLog'
  <2>1. SUFFICES ASSUME NEW n \in Node, \A m \in Node : acceptIndex'[n][m] = 0
                 PROVE  Holds(n, CommitIndex[n])'
    BY DEF CommitWithinLog
  <2>2. n # r.to
    BY <1>1, <1>2, <1>5, <2>1
  <2>3. CommitIndex'[n] = CommitIndex[n] /\ \A m \in Node : acceptIndex[n][m] = 0
    BY <1>5, <2>1, <2>2
  <2>4. Holds(n, CommitIndex[n])
    BY <2>3 DEF ReplicationInv, CommitWithinLog
  <2> QED
    BY <1>1, <2>3, <2>4 DEF Holds
<1> QED
  BY <1>3, <1>4, <1>6, <1>7 DEF ReplicationInv

\* The handlers that outlive a restart of n are handlers of other nodes, and
\* keep their entries.
LEMMA OrphanedFacts ==
    ASSUME TypeOK, NEW n \in Node, NEW g \in Orphaned(n)
    PROVE  \E h \in appending : /\ h.req.to # n /\ g.saved = h.saved
                                /\ g.req.to = h.req.to /\ g.req.from = h.req.from
                                /\ g.req.entry = h.req.entry /\ g.req.pre = h.req.pre
                                /\ g.req.commit = h.req.commit
<1>1. PICK h \in appending : /\ h.req.to # n
                             /\ g = Handler([h.req EXCEPT !.live = @ /\ h.req.from # n], h.saved)
  BY DEF Orphaned
<1>2. h.req \in AppReq
  BY HandlerType
<1>3. /\ g.req = [h.req EXCEPT !.live = @ /\ h.req.from # n]
      /\ g.saved = h.saved
  BY <1>1 DEF Handler
<1>4. /\ g.req.to = h.req.to /\ g.req.entry = h.req.entry /\ g.req.pre = h.req.pre
      /\ g.req.from = h.req.from /\ g.req.commit = h.req.commit
  BY <1>2, <1>3 DEF AppReq
<1> QED
  BY <1>1, <1>3, <1>4

\* A restart keeps the invariant: the node starts from nothing, and its
\* handlers are gone.
LEMMA RestartLogs ==
    ASSUME TypeOK, TypeOK', ReplicationInv, NEW n \in Node, Restart(n)
    PROVE  ReplicationInv'
<1>1. /\ ItemList' = [ItemList EXCEPT ![n] = <<ZeroItem>>]
      /\ Term' = [Term EXCEPT ![n] = 0]
      /\ CommitIndex' = [CommitIndex EXCEPT ![n] = 0]
      /\ acceptIndex' = [acceptIndex EXCEPT ![n] = [m \in Node |-> 0]]
      /\ commitIndex' = [commitIndex EXCEPT ![n] = [m \in Node |-> 0]]
      /\ appending' = Orphaned(n) /\ appReps' \subseteq appReps
  BY DEF Restart
<1>2. /\ ItemList'[n] = <<ZeroItem>> /\ CommitIndex'[n] = 0 /\ Term'[n] = 0
      /\ \A p \in Node : p # n => /\ ItemList'[p] = ItemList[p] /\ Term'[p] = Term[p]
                                  /\ CommitIndex'[p] = CommitIndex[p]
                                  /\ acceptIndex'[p] = acceptIndex[p]
                                  /\ commitIndex'[p] = commitIndex[p]
      /\ acceptIndex'[n] = [m \in Node |-> 0] /\ commitIndex'[n] = [m \in Node |-> 0]
  BY <1>1 DEF TypeOK
<1>3. /\ \A p \in Node : p # n => \A i : Holds(p, i)' <=> Holds(p, i)
      /\ \A p \in Node : p # n => GetTailItem(p)' = GetTailItem(p)
  BY <1>2 DEF Holds, GetTailItem
<1>4. /\ Len(ItemList'[n]) = 1 /\ ItemList'[n][1] = ZeroItem /\ ZeroItem.Index = 0
      /\ ZeroItem.Term = 0
  BY <1>2 DEF ZeroItem
<1>5. Holds(n, 0)' /\ GetTailItem(n)' = ZeroItem
  BY <1>4 DEF Holds, GetTailItem
<1>6. LogWellFormed'
  <2>1. SUFFICES ASSUME NEW p \in Node
                 PROVE /\ Len(ItemList'[p]) > 0 /\ ItemList'[p][1] = ZeroItem
                       /\ \A k \in 1 .. Len(ItemList'[p]) :
                            \A i \in 0 .. ItemList'[p][k].Index : Holds(p, i)'
                       /\ GetTailItem(p)'.Term <= Term'[p]
    BY DEF LogWellFormed, ZeroItem
  <2>2. CASE p = n
    <3>1. \A k \in 1 .. Len(ItemList'[p]) : ItemList'[p][k].Index = 0
      BY <1>4, <2>2
    <3>2. \A i \in 0 .. 0 : i = 0
      OBVIOUS
    <3>3. GetTailItem(p)'.Term <= Term'[p]
      BY <1>2, <1>4, <1>5, <2>2
    <3> QED
      BY <1>4, <1>5, <2>2, <3>1, <3>2, <3>3
  <2>3. CASE p # n
    BY <1>2, <1>3, <2>3 DEF ReplicationInv, LogWellFormed
  <2> QED
    BY <2>2, <2>3
<1>7. HandlersSound'
  <2>1. SUFFICES ASSUME NEW g \in appending'
                 PROVE  g.req.entry.Index = g.req.pre.Index + 1 /\ Holds(g.req.to, g.req.pre.Index)'
    BY DEF HandlersSound
  <2>2. PICK h \in appending : /\ h.req.to # n /\ g.req.to = h.req.to
                               /\ g.req.entry = h.req.entry /\ g.req.pre = h.req.pre
    BY <1>1, <2>1, OrphanedFacts
  <2>3. /\ h.req.to \in Node /\ h.req.entry.Index = h.req.pre.Index + 1
        /\ Holds(h.req.to, h.req.pre.Index)
    BY HandlerType DEF ReplicationInv, HandlersSound
  <2> QED
    BY <1>3, <2>2, <2>3
<1>8. TablesFromAnswers'
  BY <1>1, <1>2 DEF ReplicationInv, TablesFromAnswers
<1>9. CommitWithinLog'
  <2>1. SUFFICES ASSUME NEW p \in Node, \A m \in Node : acceptIndex'[p][m] = 0
                 PROVE  Holds(p, CommitIndex[p])'
    BY DEF CommitWithinLog
  <2>2. CASE p = n
    BY <1>2, <1>5, <2>2 DEF Holds
  <2>3. CASE p # n
    <3>1. Holds(p, CommitIndex[p])
      BY <1>2, <2>1, <2>3 DEF ReplicationInv, CommitWithinLog
    <3> QED
      BY <1>2, <1>3, <2>3, <3>1 DEF Holds
  <2> QED
    BY <2>2, <2>3
<1> QED
  BY <1>6, <1>7, <1>8, <1>9 DEF ReplicationInv

\* The invariant holds initially.
LEMMA InitLogs == Init => ReplicationInv
<1> SUFFICES ASSUME Init PROVE ReplicationInv
  OBVIOUS
<1>1. \A n \in Node : /\ ItemList[n] = <<ZeroItem>> /\ Term[n] = 0 /\ CommitIndex[n] = 0
                      /\ \A m \in Node : acceptIndex[n][m] = 0 /\ commitIndex[n][m] = 0
  BY DEF Init
<1>2. ASSUME NEW n \in Node PROVE Len(ItemList[n]) = 1 /\ ItemList[n][1] = ZeroItem
  <2>1. ItemList[n] = <<ZeroItem>>
    BY <1>1
  <2> QED
    BY <2>1
<1>3. ZeroItem.Index = 0 /\ ZeroItem.Term = 0
  BY DEF ZeroItem
<1>4. \A n \in Node : Holds(n, 0) /\ GetTailItem(n) = ZeroItem
  BY <1>2, <1>3 DEF Holds, GetTailItem
<1>5. LogWellFormed
  <2>1. ASSUME NEW n \in Node, NEW k \in 1 .. Len(ItemList[n]), NEW i \in 0 .. ItemList[n][k].Index
        PROVE  Holds(n, i)
    <3>1. k = 1 /\ i = 0
      BY <1>2, <1>3
    <3> QED
      BY <1>4, <3>1
  <2> QED
    BY <1>1, <1>2, <1>3, <1>4, <2>1 DEF LogWellFormed
<1>6. HandlersSound /\ TablesFromAnswers
  BY <1>1 DEF Init, HandlersSound, TablesFromAnswers
<1>7. CommitWithinLog
  BY <1>1, <1>4 DEF CommitWithinLog
<1> QED
  BY <1>5, <1>6, <1>7 DEF ReplicationInv

\* Every step keeps the invariant.
LEMMA NextLogs ==
    ASSUME TypeOK, TypeOK', ReplicationInv, [Next]_vars
    PROVE  ReplicationInv'
<1>1. CASE NextElection
  BY <1>1, ElectionLogs
<1>2. CASE NextHeart
  BY <1>2, HeartLogs
<1>3. CASE NextAppend
  <2>1. ASSUME NEW h \in appending, AppendDone(h) PROVE ReplicationInv'
    BY <2>1, DoneLogs
  <2>2. ASSUME NEW r \in appReps, AppendReplyOK(r) PROVE ReplicationInv'
    BY <2>2, BookedLogs
  <2> QED
    BY <1>3, <2>1, <2>2, RequestLogs DEF NextAppend
<1>4. ASSUME NEW n \in Node, Restart(n) PROVE ReplicationInv'
  BY <1>4, RestartLogs
<1>5. CASE UNCHANGED vars
  <2>1. UNCHANGED <<ItemList, CommitIndex, acceptIndex, commitIndex, Term, appending, appReps>>
    BY <1>5 DEF vars, nodeVars, logVars, workVars, appVars
  <2> QED
    BY <2>1 DEF ReplicationInv, LogWellFormed, HandlersSound, TablesFromAnswers, CommitWithinLog,
                Holds, GetTailItem
<1> QED
  BY <1>1, <1>2, <1>3, <1>4, <1>5 DEF Next

\* The inductive invariant of the replication: handlers of Append that wait for
\* redis, in whatever number and order, keep the logs without gaps.
THEOREM ReplicationInvariant == Spec => []ReplicationInv
<1>1. TypeOK /\ TypeOK' /\ ReplicationInv /\ [Next]_vars => ReplicationInv'
  BY NextLogs
<1> QED
  BY <1>1, InitLogs, TypeCorrect, PTL DEF Spec

\* Every log starts with the item of CreateNode and has no gap, and its tail's
\* term is at most the node's.
THEOREM LogsCorrect == Spec => []LogWellFormed
  BY ReplicationInvariant, PTL DEF ReplicationInv

\* Until a peer accepted an item from it, a node commits only indices that it
\* holds.
THEOREM CommitCorrect == Spec => []CommitWithinLog
  BY ReplicationInvariant, PTL DEF ReplicationInv

-----------------------------------------------------------------------------
(* What redis holds.                                                       *)

\* The indices in n's hash, and that of the item every log starts with.
Saved(n) == {0} \cup {x.Index : x \in redis[n]}

\* The inductive invariant of the hash: a handler whose HSet redis applied has
\* its index there.
PersistInv == Persisted /\ \A h \in appending : h.saved => h.req.entry.Index \in Saved(h.req.to)

\* Persisted, part by part.
LEMMA PersistedParts ==
    Persisted <=>
        \A n \in Node :
            /\ \A i : Holds(n, i) => i \in Saved(n)
            /\ \A r \in appReps : (r.from = n /\ r.accept) => r.append \in Saved(n)
            /\ \A j \in Saved(n) : \A i \in 0 .. j : i \in Saved(n)
  BY DEF Persisted, Saved, Holds

\* A step that leaves redis and the lists alone, and adds neither a saved
\* handler nor an acceptance.
LEMMA SameHash ==
    ASSUME TypeOK, PersistInv, UNCHANGED <<redis, ItemList>>,
           \A g \in appending' : g.saved =>
               \E h \in appending : /\ h.saved /\ h.req.to = g.req.to
                                    /\ h.req.entry = g.req.entry,
           \A r \in appReps' : r.accept => r \in appReps
    PROVE  PersistInv'
<1>1. \A n \in Node : Saved(n)' = Saved(n)
  BY DEF Saved
<1>2. \A n \in Node : \A i : Holds(n, i)' <=> Holds(n, i)
  BY DEF Holds
<1>3. Persisted'
  <2>1. \A n \in Node :
            /\ \A i : Holds(n, i)' => i \in Saved(n)'
            /\ \A r \in appReps' : (r.from = n /\ r.accept) => r.append \in Saved(n)'
            /\ \A j \in Saved(n)' : \A i \in 0 .. j : i \in Saved(n)'
    BY <1>1, <1>2, PersistedParts DEF PersistInv
  <2> QED
    BY <2>1 DEF Persisted, Saved, Holds
<1>4. ASSUME NEW g \in appending', g.saved PROVE g.req.entry.Index \in Saved(g.req.to)'
  <2>1. PICK h \in appending : h.saved /\ h.req.to = g.req.to /\ h.req.entry = g.req.entry
    BY <1>4
  <2> QED
    BY <1>1, <2>1, HandlerType DEF PersistInv
<1> QED
  BY <1>3, <1>4 DEF PersistInv

\* Redis applying an HSet keeps the hash without gaps: its index follows one
\* that the node holds.
LEMMA SavedHash ==
    ASSUME TypeOK, ReplicationInv, PersistInv, NEW h \in appending, HSet(h)
    PROVE  PersistInv'
<1> DEFINE n == h.req.to
           x == h.req.entry.Index
<1>1. n \in Node /\ x \in Nat /\ h.req \in AppReq /\ h.req.pre.Index \in Nat
  BY HandlerType
<1>2. /\ redis' = [redis EXCEPT ![n] = {y \in @ : y.Index # h.req.entry.Index} \cup {h.req.entry}]
      /\ appending' = (appending \ {h}) \cup {Handler(h.req, TRUE)}
      /\ UNCHANGED <<ItemList, appReps>>
  BY DEF HSet
<1>3. x = h.req.pre.Index + 1 /\ Holds(n, h.req.pre.Index)
  BY DEF ReplicationInv, HandlersSound
<1>4. /\ \A p \in Node : p # n => Saved(p)' = Saved(p)
      /\ Saved(n)' = Saved(n) \cup {x}
  <2>1. redis \in [Node -> SUBSET Item]
    BY DEF TypeOK
  <2>2. redis'[n] = {y \in redis[n] : y.Index # h.req.entry.Index} \cup {h.req.entry}
    BY <1>1, <1>2, <2>1
  <2>3. \A p \in Node : p # n => redis'[p] = redis[p]
    BY <1>2, <2>1
  <2>4. Saved(n)' = Saved(n) \cup {x}
    BY <2>2 DEF Saved
  <2> QED
    BY <2>3, <2>4 DEF Saved
<1>5. Handler(h.req, TRUE).req = h.req
  BY <1>1, HandlerIn
<1> HIDE DEF n, x
<1>6. ASSUME NEW p \in Node PROVE Saved(p) \subseteq Saved(p)'
  BY <1>4
<1>7. ASSUME NEW p \in Node, NEW j \in Saved(p)', NEW i \in 0 .. j PROVE i \in Saved(p)'
  <2>1. CASE j \in Saved(p)
    BY <1>6, <2>1, PersistedParts DEF PersistInv
  <2>2. CASE j \notin Saved(p)
    <3>1. p = n /\ j = x
      BY <1>4, <1>7, <2>2
    <3>2. h.req.pre.Index \in Saved(n)
      BY <1>1, <1>3, PersistedParts DEF PersistInv
    <3>3. i \in 0 .. h.req.pre.Index \/ i = x
      BY <1>1, <1>3, <3>1
    <3>4. CASE i \in 0 .. h.req.pre.Index
      BY <1>1, <1>6, <3>1, <3>2, <3>4, PersistedParts DEF PersistInv
    <3>5. CASE i = x
      BY <1>4, <3>1, <3>5
    <3> QED
      BY <3>3, <3>4, <3>5
  <2> QED
    BY <2>1, <2>2
<1>8. \A p \in Node : \A i : Holds(p, i)' => i \in Saved(p)'
  BY <1>2, <1>6, SameLists, PersistedParts DEF PersistInv
<1>9. \A p \in Node : \A r \in appReps' : (r.from = p /\ r.accept) => r.append \in Saved(p)'
  BY <1>2, <1>6, PersistedParts DEF PersistInv
<1>10. Persisted'
  BY <1>7, <1>8, <1>9 DEF Persisted, Saved, Holds
<1>11. ASSUME NEW g \in appending', g.saved PROVE g.req.entry.Index \in Saved(g.req.to)'
  <2>1. CASE g \in appending
    BY <1>6, <1>11, <2>1, HandlerType DEF PersistInv
  <2>2. CASE g = Handler(h.req, TRUE)
    BY <1>1, <1>4, <1>5, <2>2 DEF n, x
  <2> QED
    BY <1>2, <2>1, <2>2
<1> QED
  BY <1>10, <1>11 DEF PersistInv

\* The end of Append appends, and tells of, an index that redis has.
LEMMA DoneHash ==
    ASSUME TypeOK, PersistInv, NEW h \in appending, AppendDone(h)
    PROVE  PersistInv'
<1> DEFINE n == h.req.to
           entry == h.req.entry
<1>1. n \in Node /\ entry \in Item
  BY HandlerType
<1>2. /\ ItemList' = [ItemList EXCEPT ![n] = Append(@, entry)]
      /\ appending' \subseteq appending /\ redis' = redis /\ h.saved
  BY DEF AppendDone, HSetOK
<1>3. entry.Index \in Saved(n)
  BY <1>2 DEF PersistInv
<1>4. \A r \in appReps' \ appReps : r.from = n /\ r.append = entry.Index
  BY DEF AppendDone, Answer
<1>5. \A p \in Node : Saved(p)' = Saved(p)
  BY <1>2 DEF Saved
<1> HIDE DEF n, entry
<1>6. \A p \in Node : \A i : Holds(p, i)' => i \in Saved(p)'
  <2>1. \A p \in Node : \A i : Holds(p, i)' => Holds(p, i) \/ (p = n /\ i = entry.Index)
    BY <1>1, <1>2, Appended
  <2> QED
    BY <1>3, <1>5, <2>1, PersistedParts DEF PersistInv
<1>7. \A p \in Node : \A r \in appReps' : (r.from = p /\ r.accept) => r.append \in Saved(p)'
  BY <1>1, <1>3, <1>4, <1>5, PersistedParts DEF PersistInv
<1>8. \A p \in Node : \A j \in Saved(p)' : \A i \in 0 .. j : i \in Saved(p)'
  BY <1>5, PersistedParts DEF PersistInv
<1>9. Persisted'
  BY <1>6, <1>7, <1>8 DEF Persisted, Saved, Holds
<1>10. ASSUME NEW g \in appending', g.saved PROVE g.req.entry.Index \in Saved(g.req.to)'
  BY <1>2, <1>5, <1>10, HandlerType DEF PersistInv
<1> QED
  BY <1>9, <1>10 DEF PersistInv

\* A restart forgets the list and not the hash.
LEMMA RestartHash ==
    ASSUME TypeOK, PersistInv, NEW n \in Node, Restart(n)
    PROVE  PersistInv'
<1>1. /\ ItemList' = [ItemList EXCEPT ![n] = <<ZeroItem>>] /\ redis' = redis
      /\ appending' = Orphaned(n) /\ appReps' \subseteq appReps
  BY DEF Restart
<1>2. \A p \in Node : Saved(p)' = Saved(p)
  BY <1>1 DEF Saved
<1>3. \A p \in Node : \A i : Holds(p, i)' => i = 0 \/ Holds(p, i)
  <2>1. ItemList'[n] = <<ZeroItem>> /\ \A p \in Node : p # n => ItemList'[p] = ItemList[p]
    BY <1>1 DEF TypeOK
  <2>2. Len(ItemList'[n]) = 1 /\ ItemList'[n][1] = ZeroItem
    BY <2>1
  <2> QED
    BY <2>1, <2>2 DEF Holds, ZeroItem
<1>4. \A p \in Node : \A i : Holds(p, i)' => i \in Saved(p)'
  <2>1. \A p \in Node : 0 \in Saved(p)
    BY DEF Saved
  <2> QED
    BY <1>2, <1>3, <2>1, PersistedParts DEF PersistInv
<1>5. \A p \in Node : \A r \in appReps' : (r.from = p /\ r.accept) => r.append \in Saved(p)'
  BY <1>1, <1>2, PersistedParts DEF PersistInv
<1>6. \A p \in Node : \A j \in Saved(p)' : \A i \in 0 .. j : i \in Saved(p)'
  BY <1>2, PersistedParts DEF PersistInv
<1>7. Persisted'
  BY <1>4, <1>5, <1>6 DEF Persisted, Saved, Holds
<1>8. ASSUME NEW g \in appending', g.saved PROVE g.req.entry.Index \in Saved(g.req.to)'
  <2>1. g \in Orphaned(n)
    BY <1>1, <1>8
  <2>2. PICK h \in appending : /\ h.req.to # n /\ g.saved = h.saved
                               /\ g.req.to = h.req.to /\ g.req.from = h.req.from
                               /\ g.req.entry = h.req.entry /\ g.req.pre = h.req.pre
                               /\ g.req.commit = h.req.commit
    BY <2>1, OrphanedFacts
  <2>3. h.saved
    BY <1>8, <2>2
  <2> QED
    BY <1>2, <2>2, <2>3, HandlerType DEF PersistInv
<1> QED
  BY <1>7, <1>8 DEF PersistInv

\* The steps of elections and heartbeats have no part in replication.
LEMMA ElsewhereSteps ==
    ASSUME NextElection \/ NextHeart
    PROVE  UNCHANGED <<redis, ItemList, acceptIndex, commitIndex, appendCalls, appending, appReqs,
                       appReps, restarts>>
<1> USE DEF nodeVars, logVars, workVars, oathVars, beatVars, appVars
<1>1. CASE NextElection
  BY <1>1 DEF NextElection, Timeout, ElectionStart, ElectionEnd, SendElectionRequest,
              ElectionDialFails, ElectionCallTimeout, Election, ElectionReply
<1>2. CASE NextHeart
  BY <1>2 DEF NextHeart, LeaderSendHeart, HeartsSent, SendHeart, Heart
<1> QED
  BY <1>1, <1>2

\* The steps of a request, its check and its caller touch neither hash nor list.
LEMMA RequestHash ==
    ASSUME TypeOK, PersistInv,
           \/ \E n \in Node : \/ \E v \in Value : AppendLog(n, v)
                              \/ \E i, j, k \in 1 .. N - 1 : SendAppendEntry(n, i, j, k)
           \/ \E m \in appReqs : \/ AppendReject(m) \/ AppendCheck(m)
                                 \/ \E lost \in BOOLEAN : AppendCallTimeout(m, lost)
           \/ \E h \in appending : AppendError(h) \/ AppendCallCut(h)
           \/ \E r \in appReps : \/ AppendReplyOK(r) \/ CatchUp(r) \/ AppendCallOver(r)
    PROVE  PersistInv'
<1> USE DEF logVars, appVars
<1> DEFINE Quiet == /\ UNCHANGED <<redis, ItemList>>
                    /\ \A g \in appending' : g.saved =>
                           \E h \in appending : /\ h.saved /\ h.req.to = g.req.to
                                                /\ h.req.entry = g.req.entry
                    /\ \A r \in appReps' : r.accept => r \in appReps
<1>1. ASSUME NEW n \in Node, NEW v \in Value, AppendLog(n, v) PROVE Quiet
  BY <1>1 DEF AppendLog, Handler
<1>2. ASSUME NEW n \in Node, NEW i \in 1 .. N - 1, NEW j \in 1 .. N - 1, NEW k \in 1 .. N - 1,
             SendAppendEntry(n, i, j, k)
      PROVE  Quiet
  BY <1>2 DEF SendAppendEntry
<1>3. ASSUME NEW m \in appReqs, AppendReject(m) PROVE Quiet
  BY <1>3 DEF AppendReject, Answer
<1>4. ASSUME NEW m \in appReqs, AppendCheck(m) PROVE Quiet
  BY <1>4 DEF AppendCheck, Handler
<1>5. ASSUME NEW m \in appReqs, NEW lost \in BOOLEAN, AppendCallTimeout(m, lost) PROVE Quiet
  BY <1>5 DEF AppendCallTimeout
<1>6. ASSUME NEW h \in appending, AppendError(h) PROVE Quiet
  BY <1>6 DEF AppendError
<1>7. ASSUME NEW h \in appending, AppendCallCut(h) PROVE Quiet
  <2> DEFINE g0 == Handler([h.req EXCEPT !.live = FALSE], h.saved)
  <2>1. appending' = (appending \ {h}) \cup {g0} /\ UNCHANGED <<redis, ItemList, appReps>>
    BY <1>7 DEF AppendCallCut
  <2>2. g0.req = [h.req EXCEPT !.live = FALSE] /\ h.req \in AppReq /\ g0.saved = h.saved
    BY HandlerType DEF Handler
  <2>3. g0.req.to = h.req.to /\ g0.req.entry = h.req.entry
    BY <2>2 DEF AppReq
  <2> HIDE DEF g0
  <2>4. ASSUME NEW g \in appending', g.saved
        PROVE  \E p \in appending : p.saved /\ p.req.to = g.req.to /\ p.req.entry = g.req.entry
    <3>1. CASE g \in appending
      BY <2>4, <3>1
    <3>2. CASE g = g0
      BY <2>2, <2>3, <2>4, <3>2
    <3> QED
      BY <2>1, <2>4, <3>1, <3>2
  <2> QED
    BY <2>1, <2>4
<1>8. ASSUME NEW r \in appReps, AppendReplyOK(r) PROVE Quiet
  BY <1>8 DEF AppendReplyOK
<1>9. ASSUME NEW r \in appReps, CatchUp(r) PROVE Quiet
  BY <1>9 DEF CatchUp
<1>10. ASSUME NEW r \in appReps, AppendCallOver(r) PROVE Quiet
  BY <1>10 DEF AppendCallOver
<1>11. Quiet
  <2> HIDE DEF Quiet
  <2> QED
    BY <1>1, <1>2, <1>3, <1>4, <1>5, <1>6, <1>7, <1>8, <1>9, <1>10
<1> QED
  BY <1>11, SameHash

\* Every step keeps the invariant.
LEMMA NextHash ==
    ASSUME TypeOK, ReplicationInv, PersistInv, [Next]_vars
    PROVE  PersistInv'
<1>1. CASE NextElection \/ NextHeart
  <2>1. UNCHANGED <<redis, ItemList, appending, appReps>>
    BY <1>1, ElsewhereSteps
  <2> QED
    BY <2>1, SameHash
<1>2. CASE NextAppend
  <2>1. ASSUME NEW h \in appending, HSet(h) PROVE PersistInv'
    BY <2>1, SavedHash
  <2>2. ASSUME NEW h \in appending, AppendDone(h) PROVE PersistInv'
    BY <2>2, DoneHash
  <2> QED
    BY <1>2, <2>1, <2>2, RequestHash DEF NextAppend
<1>3. ASSUME NEW n \in Node, Restart(n) PROVE PersistInv'
  BY <1>3, RestartHash
<1>4. CASE UNCHANGED vars
  <2>1. UNCHANGED <<redis, ItemList, appending, appReps>>
    BY <1>4 DEF vars, logVars, appVars
  <2> QED
    BY <2>1, SameHash
<1> QED
  BY <1>1, <1>2, <1>3, <1>4 DEF Next

\* What a node holds or told its caller that it accepted is in its hash, and
\* the hash has no gap, whatever HSets fail and whatever handlers overlap.
THEOREM PersistedCorrect == Spec => []Persisted
<1>1. Init => PersistInv
  <2> SUFFICES ASSUME Init PROVE PersistInv
    OBVIOUS
  <2>1. \A n \in Node : ItemList[n] = <<ZeroItem>> /\ redis[n] = {}
    BY DEF Init
  <2>2. appReps = {} /\ appending = {}
    BY DEF Init
  <2>3. \A n \in Node : Saved(n) = {0}
    BY <2>1 DEF Saved
  <2>4. ASSUME NEW n \in Node, NEW i, Holds(n, i) PROVE i = 0
    <3>1. ItemList[n] = <<ZeroItem>>
      BY <2>1
    <3>2. Len(ItemList[n]) = 1 /\ ItemList[n][1] = ZeroItem
      BY <3>1
    <3> QED
      BY <2>4, <3>2 DEF Holds, ZeroItem
  <2>5. ASSUME NEW n \in Node
        PROVE  /\ \A i : Holds(n, i) => i \in Saved(n)
               /\ \A r \in appReps : (r.from = n /\ r.accept) => r.append \in Saved(n)
               /\ \A j \in Saved(n) : \A i \in 0 .. j : i \in Saved(n)
    BY <2>2, <2>3, <2>4
  <2>6. Persisted
    BY <2>5, PersistedParts
  <2> QED
    BY <2>2, <2>6 DEF PersistInv
<1>2. TypeOK /\ ReplicationInv /\ PersistInv /\ [Next]_vars => PersistInv'
  BY NextHash
<1>3. PersistInv => Persisted
  BY DEF PersistInv
<1> QED
  BY <1>1, <1>2, <1>3, TypeCorrect, ReplicationInvariant, PTL DEF Spec

-----------------------------------------------------------------------------
(* What a committed index means: two nodes hold it.                        *)

\* A request carries a notice of an index that two nodes hold, and items that
\* its sender holds (the entry of AppendLog's own call excepted).
Sent(m) ==
    /\ HeldTwice(m.commit) /\ Holds(m.from, m.pre.Index)
    /\ m.from # m.to => Holds(m.from, m.entry.Index)

\* An answer returns an item that its caller holds, and an acceptance tells of
\* indices that two nodes hold.
Told(r) ==
    /\ Holds(r.to, r.pre.Index)
    /\ r.accept => HeldTwice(r.append) /\ HeldTwice(r.commit)

\* What nodes know, and what messages and handlers carry, stands on two logs.
Spread ==
    /\ \A n \in Node : HeldTwice(CommitIndex[n])
    /\ \A n, m \in Node : HeldTwice(acceptIndex[n][m]) /\ HeldTwice(commitIndex[n][m])
    /\ \A m \in heartReqs : HeldTwice(m.commit)
    /\ \A m \in appReqs : Sent(m)
    /\ \A h \in appending : Sent(h.req)
    /\ \A r \in appReps : Told(r)

\* The inductive invariant: no log is lost before the first restart.
SpreadInv == restarts = 0 => Spread

\* Below an index held twice every index is.
LEMMA TwiceBelow ==
    ASSUME TypeOK, LogWellFormed, NEW i \in Nat, HeldTwice(i), NEW j \in 0 .. i
    PROVE  HeldTwice(j)
<1>1. CASE i = 0
  BY <1>1 DEF HeldTwice
<1>2. CASE i # 0
  <2>1. PICK p \in Node, q \in Node : p # q /\ Holds(p, i) /\ Holds(q, i)
    BY <1>2 DEF HeldTwice
  <2>2. Holds(p, j) /\ Holds(q, j)
    BY <2>1, HeldBelow
  <2> QED
    BY <2>1, <2>2 DEF HeldTwice
<1> QED
  BY <1>1, <1>2

\* A commit notice is of an index held twice.
LEMMA NoticeTwice ==
    ASSUME TypeOK, LogWellFormed, Spread, NEW n \in Node, NEW m \in Node
    PROVE  HeldTwice(CommitNotice(n, m))
<1>1. acceptIndex[n][m] \in Nat /\ commitIndex[n][m] \in Nat /\ HeldTwice(acceptIndex[n][m])
  BY DEF TypeOK, Spread
<1>2. CASE commitIndex[n][m] < acceptIndex[n][m]
  <2>1. CommitNotice(n, m) \in 0 .. acceptIndex[n][m]
    BY <1>1, <1>2 DEF CommitNotice
  <2> QED
    BY <1>1, <2>1, TwiceBelow
<1>3. CASE ~(commitIndex[n][m] < acceptIndex[n][m])
  BY <1>3 DEF CommitNotice, HeldTwice
<1> QED
  BY <1>2, <1>3

\* CheckCommitId advances only to an index that some peer is said to have
\* committed.
LEMMA AdvancedTwice ==
    ASSUME TypeOK, LogWellFormed, NEW n \in Node, HeldTwice(CommitIndex[n]),
           NEW reached \in [Node -> Nat], \A m \in Node : HeldTwice(reached[m])
    PROVE  HeldTwice(CheckCommitId(n, reached))
<1> DEFINE beyond == {m \in Node \ {n} : reached[m] > CommitIndex[n]}
<1>1. CommitIndex[n] \in Nat
  BY DEF TypeOK
<1>2. CASE beyond = {}
  <2>1. Cardinality(beyond) = 0
    BY <1>2, FS_EmptySet
  <2>2. CheckCommitId(n, reached) = CommitIndex[n]
    BY <2>1, NAssumption DEF CheckCommitId, Advanced
  <2> QED
    BY <2>2
<1>3. CASE beyond # {}
  <2>1. PICK m \in Node : reached[m] > CommitIndex[n]
    BY <1>3
  <2>2. reached[m] \in Nat
    OBVIOUS
  <2>3. CheckCommitId(n, reached) \in 0 .. reached[m]
    BY <1>1, <2>1, <2>2 DEF CheckCommitId, Advanced
  <2> QED
    BY <2>2, <2>3, TwiceBelow
<1> QED
  BY <1>2, <1>3

\* A node that obeys a notice, or does not, is at an index held twice.
LEMMA ObeyedTwice ==
    ASSUME NEW n \in Node, HeldTwice(CommitIndex[n]), NEW notice, HeldTwice(notice), NEW item
    PROVE  HeldTwice(Obeyed(n, notice, item))
  BY DEF Obeyed

\* A step that leaves the lists alone.
LEMMA SameSpread ==
    ASSUME ItemList' = ItemList,
           \A n \in Node : HeldTwice(CommitIndex'[n]),
           \A n, m \in Node : HeldTwice(acceptIndex'[n][m]) /\ HeldTwice(commitIndex'[n][m]),
           \A m \in heartReqs' : HeldTwice(m.commit),
           \A m \in appReqs' : Sent(m),
           \A h \in appending' : Sent(h.req),
           \A r \in appReps' : Told(r)
    PROVE  Spread'
<1>1. \A p, i : Holds(p, i)' <=> Holds(p, i)
  BY DEF Holds
<1>2. \A i : HeldTwice(i)' <=> HeldTwice(i)
  BY <1>1 DEF HeldTwice
<1>3. \A m : Sent(m)' <=> Sent(m)
  BY <1>1, <1>2 DEF Sent
<1>4. \A r : Told(r)' <=> Told(r)
  BY <1>1, <1>2 DEF Told
<1>5. \A n \in Node : HeldTwice(CommitIndex[n])'
  BY DEF HeldTwice, Holds
<1>6. ASSUME NEW n \in Node, NEW m \in Node
      PROVE  HeldTwice(acceptIndex[n][m])' /\ HeldTwice(commitIndex[n][m])'
  <2>1. HeldTwice(acceptIndex'[n][m]) /\ HeldTwice(commitIndex'[n][m])
    OBVIOUS
  <2>2. HeldTwice(acceptIndex[n][m])'
    BY <2>1 DEF HeldTwice, Holds
  <2>3. HeldTwice(commitIndex[n][m])'
    BY <2>1 DEF HeldTwice, Holds
  <2> QED
    BY <2>2, <2>3
<1>7. \A m \in heartReqs' : HeldTwice(m.commit)'
  BY <1>2
<1>8. (\A m \in appReqs' : Sent(m)') /\ (\A h \in appending' : Sent(h.req)')
  BY <1>3
<1>9. \A r \in appReps' : Told(r)'
  BY <1>4
<1> QED
  BY <1>5, <1>6, <1>7, <1>8, <1>9 DEF Spread

\* Every step of elections and heartbeats.
LEMMA ElsewhereSpread ==
    ASSUME TypeOK, LogWellFormed, Spread, NextElection \/ NextHeart
    PROVE  Spread'
<1>1. UNCHANGED <<ItemList, acceptIndex, commitIndex, appending, appReqs, appReps>>
  BY ElsewhereSteps
<1>2. /\ \A n \in Node : HeldTwice(CommitIndex[n])
      /\ \A m \in heartReqs : HeldTwice(m.commit)
  BY DEF Spread
<1>3. ASSUME CommitIndex' = CommitIndex PROVE \A n \in Node : HeldTwice(CommitIndex'[n])
  BY <1>2, <1>3
<1>4. CommitIndex \in [Node -> Nat]
  BY DEF TypeOK
<1>5. \A n \in Node : HeldTwice(CommitIndex'[n])
  <2>1. CASE NextElection
    <3>1. CommitIndex' = CommitIndex
      BY <2>1 DEF NextElection, Timeout, ElectionStart, ElectionEnd, SendElectionRequest,
                  ElectionDialFails, ElectionCallTimeout, Election, ElectionReply, logVars
    <3> QED
      BY <1>3, <3>1
  <2>2. ASSUME NEW n \in Node, HeartsSent(n) PROVE \A p \in Node : HeldTwice(CommitIndex'[p])
    <3>1. /\ CommitIndex' = [CommitIndex EXCEPT ![n] = CheckCommitId(n, commitIndex[n])]
          /\ commitIndex[n] \in [Node -> Nat] /\ \A m \in Node : HeldTwice(commitIndex[n][m])
      BY <2>2 DEF HeartsSent, TypeOK, Spread
    <3>2. HeldTwice(CheckCommitId(n, commitIndex[n]))
      BY <1>2, <3>1, AdvancedTwice
    <3> QED
      BY <1>2, <1>4, <3>1, <3>2
  <2>3. ASSUME NEW m \in heartReqs, Heart(m) PROVE \A p \in Node : HeldTwice(CommitIndex'[p])
    <3>1. /\ CommitIndex' = [CommitIndex EXCEPT
                                 ![m.to] = Obeyed(m.to, m.commit, GetTailItem(m.to))]
          /\ m.to \in Node
      BY <2>3 DEF Heart, TypeOK, HeartReq
    <3>2. HeldTwice(Obeyed(m.to, m.commit, GetTailItem(m.to)))
      BY <1>2, <3>1, ObeyedTwice
    <3> QED
      BY <1>2, <1>4, <3>1, <3>2
  <2>4. ASSUME NEW n \in Node, LeaderSendHeart(n) PROVE \A p \in Node : HeldTwice(CommitIndex'[p])
    BY <1>3, <2>4 DEF LeaderSendHeart, logVars
  <2>5. ASSUME NEW n \in Node, NEW p \in 1 .. N - 1, NEW lost \in BOOLEAN, SendHeart(n, p, lost)
        PROVE  \A q \in Node : HeldTwice(CommitIndex'[q])
    BY <1>3, <2>5 DEF SendHeart, logVars
  <2> QED
    BY <2>1, <2>2, <2>3, <2>4, <2>5 DEF NextHeart
<1>6. \A m \in heartReqs' : HeldTwice(m.commit)
  <2>1. CASE NextElection
    BY <1>2, <2>1 DEF NextElection, Timeout, ElectionStart, ElectionEnd, SendElectionRequest,
                      ElectionDialFails, ElectionCallTimeout, Election, ElectionReply, beatVars
  <2>2. ASSUME NEW n \in Node, NEW p \in 1 .. N - 1, NEW lost \in BOOLEAN, SendHeart(n, p, lost)
        PROVE  \A m \in heartReqs' : HeldTwice(m.commit)
    <3>1. HeldTwice(CommitNotice(n, Peer(n, p)))
      BY PeerType, NoticeTwice
    <3>2. \A m \in heartReqs' \ heartReqs : m.commit = CommitNotice(n, Peer(n, p))
      BY <2>2 DEF SendHeart
    <3> QED
      BY <1>2, <3>1, <3>2
  <2>3. ASSUME NEW m \in heartReqs, Heart(m) PROVE heartReqs' \subseteq heartReqs
    BY <2>3 DEF Heart
  <2>4. ASSUME NEW n \in Node, LeaderSendHeart(n) \/ HeartsSent(n)
        PROVE  heartReqs' \subseteq heartReqs
    BY <2>4 DEF LeaderSendHeart, HeartsSent
  <2> QED
    BY <1>2, <2>1, <2>2, <2>3, <2>4 DEF NextHeart
<1>7. /\ \A n, m \in Node : HeldTwice(acceptIndex'[n][m]) /\ HeldTwice(commitIndex'[n][m])
      /\ \A m \in appReqs' : Sent(m)
      /\ \A h \in appending' : Sent(h.req)
      /\ \A r \in appReps' : Told(r)
  BY <1>1 DEF Spread
<1> QED
  BY <1>1, <1>5, <1>6, <1>7, SameSpread

\* The steps of a request, its check, redis and its caller.
LEMMA RequestSpread ==
    ASSUME TypeOK, LogWellFormed, Spread,
           \/ \E n \in Node : \/ \E v \in Value : AppendLog(n, v)
                              \/ \E i, j, k \in 1 .. N - 1 : SendAppendEntry(n, i, j, k)
           \/ \E m \in appReqs : \/ AppendReject(m) \/ AppendCheck(m)
                                 \/ \E lost \in BOOLEAN : AppendCallTimeout(m, lost)
           \/ \E h \in appending : HSet(h) \/ AppendError(h) \/ AppendCallCut(h)
           \/ \E r \in appReps : CatchUp(r) \/ AppendCallOver(r)
    PROVE  Spread'
<1> USE DEF logVars, workVars, beatVars, appVars
<1> DEFINE Quiet == UNCHANGED <<ItemList, CommitIndex, acceptIndex, commitIndex, heartReqs>>
           Reqs == \A m \in appReqs' : Sent(m)
           Handlers == \A h \in appending' : Sent(h.req)
           Reps == \A r \in appReps' : Told(r)
<1>1. /\ \A m \in appReqs : Sent(m)
      /\ \A h \in appending : Sent(h.req)
      /\ \A r \in appReps : Told(r)
  BY DEF Spread
<1>2. ASSUME NEW n \in Node, NEW v \in Value, AppendLog(n, v)
      PROVE  Quiet /\ Reqs /\ Handlers /\ Reps
  <2> DEFINE h0 == Handler([from |-> n, to |-> n, node |-> n, live |-> TRUE,
                            entry |-> [Index |-> GetTailItem(n).Index + 1, Term |-> Term[n],
                                       Log |-> v],
                            pre |-> GetTailItem(n), commit |-> 0], FALSE)
  <2>1. /\ appending' = appending \cup {h0}
        /\ h0.req.commit = 0 /\ h0.req.from = n /\ h0.req.to = n
        /\ h0.req.pre = GetTailItem(n)
    BY <1>2 DEF AppendLog, Handler
  <2> HIDE DEF h0
  <2>2. Sent(h0.req)
    BY <2>1, TailHeld DEF Sent, HeldTwice
  <2>3. Handlers
    BY <1>1, <2>1, <2>2
  <2>4. Quiet /\ UNCHANGED <<appReqs, appReps>>
    BY <1>2 DEF AppendLog
  <2> QED
    BY <1>1, <2>3, <2>4
<1>3. ASSUME NEW n \in Node, NEW i \in 1 .. N - 1, NEW j \in 1 .. N - 1, NEW k \in 1 .. N - 1,
             SendAppendEntry(n, i, j, k)
      PROVE  Quiet /\ Reqs /\ Handlers /\ Reps
  <2> DEFINE m == [from |-> n, to |-> Peer(n, j), node |-> Peer(n, k), live |-> TRUE,
                   entry |-> GetTailItem(n), pre |-> GetPreItem(n, GetTailItem(n)),
                   commit |-> CommitNotice(n, Peer(n, k))]
  <2>1. /\ appReqs' = appReqs \cup {m} /\ m.from = n
        /\ m.commit = CommitNotice(n, Peer(n, k)) /\ m.entry = GetTailItem(n)
        /\ m.pre = GetPreItem(n, GetTailItem(n))
    BY <1>3 DEF SendAppendEntry
  <2> HIDE DEF m
  <2>2. Sent(m)
    BY <2>1, TailHeld, PreHeld, PeerType, NoticeTwice DEF Sent
  <2>3. Reqs
    BY <1>1, <2>1, <2>2
  <2>4. Quiet /\ UNCHANGED <<appending, appReps>>
    BY <1>3 DEF SendAppendEntry
  <2> QED
    BY <1>1, <2>3, <2>4
<1>4. ASSUME NEW m \in appReqs, AppendReject(m) PROVE Quiet /\ Reqs /\ Handlers /\ Reps
  <2>1. Quiet /\ appReqs' \subseteq appReqs /\ UNCHANGED appending
    BY <1>4 DEF AppendReject
  <2>2. \A r \in appReps' \ appReps : ~r.accept /\ r.to = m.from /\ r.pre = m.pre
    BY <1>4 DEF AppendReject, Answer
  <2>3. Holds(m.from, m.pre.Index)
    BY <1>1 DEF Sent
  <2>4. Reps
    <3>1. ASSUME NEW r \in appReps', r \notin appReps PROVE Told(r)
      BY <2>2, <2>3, <3>1 DEF Told
    <3> QED
      BY <1>1, <3>1
  <2> QED
    BY <1>1, <2>1, <2>4
<1>5. ASSUME NEW m \in appReqs, AppendCheck(m) PROVE Quiet /\ Reqs /\ Handlers /\ Reps
  <2>1. /\ appending' = appending \cup {Handler(m, FALSE)} /\ Handler(m, FALSE).req = m
        /\ Quiet /\ appReqs' \subseteq appReqs /\ UNCHANGED appReps
    BY <1>5 DEF AppendCheck, Handler
  <2> QED
    BY <1>1, <2>1
<1>6. ASSUME NEW m \in appReqs, NEW lost \in BOOLEAN, AppendCallTimeout(m, lost)
      PROVE  Quiet /\ Reqs /\ Handlers /\ Reps
  <2> DEFINE d == [m EXCEPT !.live = FALSE]
  <2>1. /\ appReqs' \subseteq appReqs \cup {d}
        /\ Quiet /\ UNCHANGED <<appending, appReps>>
    BY <1>6 DEF AppendCallTimeout
  <2>2. m \in AppReq
    BY DEF TypeOK
  <2>3. /\ d.from = m.from /\ d.to = m.to /\ d.entry = m.entry /\ d.pre = m.pre
        /\ d.commit = m.commit
    BY <2>2 DEF AppReq
  <2> HIDE DEF d
  <2>4. Sent(d)
    BY <1>1, <2>3 DEF Sent
  <2> QED
    BY <1>1, <2>1, <2>4
<1>7. ASSUME NEW h \in appending, HSet(h) PROVE Quiet /\ Reqs /\ Handlers /\ Reps
  <2>1. /\ appending' = (appending \ {h}) \cup {Handler(h.req, TRUE)}
        /\ Handler(h.req, TRUE).req = h.req
        /\ Quiet /\ UNCHANGED <<appReqs, appReps>>
    BY <1>7 DEF HSet, Handler
  <2> QED
    BY <1>1, <2>1
<1>8. ASSUME NEW h \in appending, AppendError(h) PROVE Quiet /\ Reqs /\ Handlers /\ Reps
  BY <1>1, <1>8 DEF AppendError
<1>9. ASSUME NEW h \in appending, AppendCallCut(h) PROVE Quiet /\ Reqs /\ Handlers /\ Reps
  <2> DEFINE d == [h.req EXCEPT !.live = FALSE]
  <2>1. /\ appending' = (appending \ {h}) \cup {Handler(d, h.saved)}
        /\ Handler(d, h.saved).req = d
        /\ Quiet /\ UNCHANGED <<appReqs, appReps>>
    BY <1>9 DEF AppendCallCut, Handler
  <2>2. h.req \in AppReq
    BY HandlerType
  <2>3. /\ d.from = h.req.from /\ d.to = h.req.to /\ d.entry = h.req.entry
        /\ d.pre = h.req.pre /\ d.commit = h.req.commit
    BY <2>2 DEF AppReq
  <2> HIDE DEF d
  <2>4. Sent(d)
    BY <1>1, <2>3 DEF Sent
  <2> QED
    BY <1>1, <2>1, <2>4
<1>10. ASSUME NEW r \in appReps, CatchUp(r) PROVE Quiet /\ Reqs /\ Handlers /\ Reps
  <2> DEFINE m == [from |-> r.to, to |-> r.from, node |-> r.node, live |-> FALSE,
                   entry |-> r.pre, pre |-> GetPreItem(r.to, r.pre),
                   commit |-> CommitNotice(r.to, r.node)]
  <2>1. /\ appReqs' = appReqs \cup {m} /\ m.from = r.to /\ m.entry = r.pre
        /\ m.pre = GetPreItem(r.to, r.pre) /\ m.commit = CommitNotice(r.to, r.node)
    BY <1>10 DEF CatchUp
  <2> HIDE DEF m
  <2>2. r.to \in Node /\ r.node \in Node /\ Holds(r.to, r.pre.Index)
    BY <1>1 DEF TypeOK, AppRep, Told
  <2>3. Sent(m)
    BY <2>1, <2>2, PreHeld, NoticeTwice DEF Sent
  <2>4. Reqs
    BY <1>1, <2>1, <2>3
  <2>5. Quiet /\ UNCHANGED <<appending, appReps>>
    BY <1>10 DEF CatchUp
  <2> QED
    BY <1>1, <2>4, <2>5
<1>11. ASSUME NEW r \in appReps, AppendCallOver(r) PROVE Quiet /\ Reqs /\ Handlers /\ Reps
  BY <1>1, <1>11 DEF AppendCallOver
<1>12. Quiet /\ Reqs /\ Handlers /\ Reps
  <2> HIDE DEF Quiet, Reqs, Handlers, Reps
  <2> QED
    BY <1>2, <1>3, <1>4, <1>5, <1>6, <1>7, <1>8, <1>9, <1>10, <1>11
<1>13. /\ \A n \in Node : HeldTwice(CommitIndex'[n])
       /\ \A n, m \in Node : HeldTwice(acceptIndex'[n][m]) /\ HeldTwice(commitIndex'[n][m])
       /\ \A m \in heartReqs' : HeldTwice(m.commit)
  BY <1>12 DEF Spread
<1> QED
  BY <1>12, <1>13, SameSpread

\* Booking an acceptance: the caller learns of indices that two nodes hold.
LEMMA BookedSpread ==
    ASSUME TypeOK, LogWellFormed, Spread, NEW r \in appReps, AppendReplyOK(r)
    PROVE  Spread'
<1> USE DEF beatVars
<1> DEFINE n == r.to
           accepted == [acceptIndex[n] EXCEPT ![r.node] = r.append]
           committed == [commitIndex[n] EXCEPT ![r.node] = r.commit]
<1>1. /\ UNCHANGED <<ItemList, appending, appReqs, heartReqs>> /\ appReps' \subseteq appReps
      /\ acceptIndex' = [acceptIndex EXCEPT ![n] = accepted]
      /\ commitIndex' = [commitIndex EXCEPT ![n] = committed]
      /\ CommitIndex' = [CommitIndex EXCEPT ![n] = CheckCommitId(n, committed)]
  BY DEF AppendReplyOK
<1>2. /\ n \in Node /\ r.node \in Node /\ r.append \in Nat /\ r.commit \in Nat
      /\ acceptIndex \in [Node -> [Node -> Nat]] /\ commitIndex \in [Node -> [Node -> Nat]]
      /\ CommitIndex \in [Node -> Nat]
  BY DEF TypeOK, AppRep
<1>3. HeldTwice(r.append) /\ HeldTwice(r.commit)
  BY DEF AppendReplyOK, Spread, Told
<1>4. /\ \A m \in Node : HeldTwice(accepted[m]) /\ HeldTwice(committed[m])
      /\ committed \in [Node -> Nat]
  BY <1>2, <1>3 DEF Spread
<1>5. HeldTwice(CheckCommitId(n, committed))
  <2> HIDE DEF committed
  <2> QED
    BY <1>2, <1>4, AdvancedTwice DEF Spread
<1> HIDE DEF accepted, committed
<1>6. \A p \in Node : HeldTwice(CommitIndex'[p])
  BY <1>1, <1>2, <1>5 DEF Spread
<1>7. \A p, m \in Node : HeldTwice(acceptIndex'[p][m]) /\ HeldTwice(commitIndex'[p][m])
  BY <1>1, <1>2, <1>4 DEF Spread
<1>8. /\ \A m \in heartReqs' : HeldTwice(m.commit)
      /\ \A m \in appReqs' : Sent(m)
      /\ \A h \in appending' : Sent(h.req)
      /\ \A q \in appReps' : Told(q)
  BY <1>1 DEF Spread
<1> QED
  BY <1>1, <1>6, <1>7, <1>8, SameSpread

\* The end of Append: the new item is in two logs, unless AppendLog wrote it.
LEMMA DoneSpread ==
    ASSUME TypeOK, Spread, NEW h \in appending, AppendDone(h)
    PROVE  Spread'
<1> USE DEF workVars, beatVars
<1> DEFINE n == h.req.to
           x == h.req.entry.Index
           c == Obeyed(n, h.req.commit, h.req.pre)
<1>1. n \in Node /\ h.req.from \in Node /\ h.req.entry \in Item
  BY HandlerType
<1>2. /\ ItemList' = [ItemList EXCEPT ![n] = Append(@, h.req.entry)]
      /\ CommitIndex' = [CommitIndex EXCEPT ![n] = c]
      /\ UNCHANGED <<acceptIndex, commitIndex, heartReqs, appReqs>> /\ appending' \subseteq appending
  BY DEF AppendDone
<1>3. CommitIndex \in [Node -> Nat]
  BY DEF TypeOK
<1>4. Sent(h.req)
  BY DEF Spread
<1>5. HeldTwice(c)
  BY <1>1, <1>4, ObeyedTwice DEF Spread, Sent
<1>6. /\ \A p \in Node : \A i : Holds(p, i) => Holds(p, i)'
      /\ Holds(n, x)'
  BY <1>1, <1>2, Appended
<1>7. \A i : HeldTwice(i) => HeldTwice(i)'
  BY <1>6 DEF HeldTwice
<1>8. \A r \in appReps' \ appReps :
          /\ r.to = h.req.from /\ r.pre = h.req.pre /\ r.append = x /\ h.req.from # h.req.to
          /\ r.commit = c
  <2>1. CommitIndex'[n] = c
    BY <1>1, <1>2, <1>3
  <2> HIDE DEF c
  <2> QED
    BY <2>1 DEF AppendDone, Answer
<1> HIDE DEF n, x, c
<1>9. h.req.from # h.req.to => HeldTwice(x)'
  BY <1>1, <1>4, <1>6 DEF Sent, HeldTwice, n, x
<1>10. \A p \in Node : HeldTwice(CommitIndex[p])'
  <2>1. SUFFICES ASSUME NEW p \in Node PROVE HeldTwice(CommitIndex[p])'
    OBVIOUS
  <2>2. PICK d : d = CommitIndex'[p]
    OBVIOUS
  <2>3. HeldTwice(d)
    BY <1>2, <1>3, <1>5, <2>2 DEF Spread
  <2>4. HeldTwice(d)'
    BY <1>7, <2>3
  <2> QED
    BY <2>2, <2>4 DEF HeldTwice, Holds
<1>11. ASSUME NEW p \in Node, NEW m \in Node
       PROVE  HeldTwice(acceptIndex[p][m])' /\ HeldTwice(commitIndex[p][m])'
  <2>1. PICK a, d : /\ a = acceptIndex[p][m] /\ d = commitIndex[p][m]
                    /\ a = acceptIndex'[p][m] /\ d = commitIndex'[p][m]
    BY <1>2
  <2>2. HeldTwice(a)' /\ HeldTwice(d)'
    BY <1>7, <2>1 DEF Spread
  <2>3. HeldTwice(acceptIndex[p][m])'
    BY <2>1, <2>2 DEF HeldTwice, Holds
  <2>4. HeldTwice(commitIndex[p][m])'
    BY <2>1, <2>2 DEF HeldTwice, Holds
  <2> QED
    BY <2>3, <2>4
<1>12. \A m \in AppReq : Sent(m) => Sent(m)'
  <2>1. SUFFICES ASSUME NEW m \in AppReq, Sent(m) PROVE Sent(m)'
    OBVIOUS
  <2>2. m.from \in Node
    BY DEF AppReq
  <2> QED
    BY <1>6, <1>7, <2>1, <2>2 DEF Sent
<1>13. (\A m \in appReqs' : Sent(m)') /\ (\A g \in appending' : Sent(g.req)')
  <2>1. appReqs \subseteq AppReq /\ \A g \in appending : g.req \in AppReq
    BY HandlerType DEF TypeOK
  <2> QED
    BY <1>2, <1>12, <2>1 DEF Spread
<1>14. \A m \in heartReqs' : HeldTwice(m.commit)'
  BY <1>2, <1>7 DEF Spread
<1>15. ASSUME NEW r \in appReps' PROVE Told(r)'
  <2>1. CASE r \in appReps
    <3>1. r.to \in Node /\ Told(r)
      BY <2>1 DEF TypeOK, AppRep, Spread
    <3> QED
      BY <1>6, <1>7, <3>1 DEF Told
  <2>2. CASE r \notin appReps
    <3>1. /\ r.to = h.req.from /\ r.pre = h.req.pre /\ r.append = x /\ h.req.from # h.req.to
          /\ r.commit = c
      BY <1>8, <1>15, <2>2
    <3>2. Holds(r.to, r.pre.Index)'
      BY <1>1, <1>4, <1>6, <3>1 DEF Sent
    <3>3. HeldTwice(r.append)' /\ HeldTwice(r.commit)'
      BY <1>5, <1>7, <1>9, <3>1
    <3> QED
      BY <3>2, <3>3 DEF Told
  <2> QED
    BY <2>1, <2>2
<1> QED
  BY <1>10, <1>11, <1>13, <1>14, <1>15 DEF Spread

\* Every step keeps the invariant.
LEMMA NextSpread ==
    ASSUME TypeOK, LogWellFormed, SpreadInv, [Next]_vars
    PROVE  SpreadInv'
<1>1. ASSUME NEW n \in Node, Restart(n) PROVE SpreadInv'
  <2>1. restarts \in Nat /\ restarts' = restarts + 1
    BY <1>1 DEF Restart, TypeOK
  <2> QED
    BY <2>1 DEF SpreadInv
<1>2. CASE ~(\E n \in Node : Restart(n))
  <2>1. restarts' = restarts
    <3>1. CASE NextElection \/ NextHeart
      BY <3>1, ElsewhereSteps
    <3>2. CASE NextAppend
      <4>1. ASSUME NEW n \in Node, NEW v \in Value, AppendLog(n, v) PROVE restarts' = restarts
        BY <4>1 DEF AppendLog
      <4>2. ASSUME NEW n \in Node, NEW i \in 1 .. N - 1, NEW j \in 1 .. N - 1, NEW k \in 1 .. N - 1,
                   SendAppendEntry(n, i, j, k)
            PROVE  restarts' = restarts
        BY <4>2 DEF SendAppendEntry
      <4>3. ASSUME NEW m \in appReqs, AppendReject(m) PROVE restarts' = restarts
        BY <4>3 DEF AppendReject
      <4>4. ASSUME NEW m \in appReqs, AppendCheck(m) PROVE restarts' = restarts
        BY <4>4 DEF AppendCheck
      <4>5. ASSUME NEW m \in appReqs, NEW lost \in BOOLEAN, AppendCallTimeout(m, lost)
            PROVE  restarts' = restarts
        BY <4>5 DEF AppendCallTimeout
      <4>6. ASSUME NEW h \in appending, HSet(h) PROVE restarts' = restarts
        BY <4>6 DEF HSet
      <4>7. ASSUME NEW h \in appending, AppendDone(h) PROVE restarts' = restarts
        BY <4>7 DEF AppendDone
      <4>8. ASSUME NEW h \in appending, AppendError(h) \/ AppendCallCut(h)
            PROVE  restarts' = restarts
        BY <4>8 DEF AppendError, AppendCallCut
      <4>9. ASSUME NEW r \in appReps, AppendReplyOK(r) PROVE restarts' = restarts
        BY <4>9 DEF AppendReplyOK
      <4>10. ASSUME NEW r \in appReps, CatchUp(r) \/ AppendCallOver(r) PROVE restarts' = restarts
        BY <4>10 DEF CatchUp, AppendCallOver
      <4> QED
        BY <3>2, <4>1, <4>2, <4>3, <4>4, <4>5, <4>6, <4>7, <4>8, <4>9, <4>10 DEF NextAppend
    <3>3. CASE UNCHANGED vars
      BY <3>3 DEF vars
    <3> QED
      BY <1>2, <3>1, <3>2, <3>3 DEF Next
  <2>2. SUFFICES ASSUME Spread PROVE Spread'
    BY <2>1 DEF SpreadInv
  <2>3. CASE NextElection \/ NextHeart
    BY <2>2, <2>3, ElsewhereSpread
  <2>4. CASE NextAppend
    <3>1. ASSUME NEW h \in appending, AppendDone(h) PROVE Spread'
      BY <2>2, <3>1, DoneSpread
    <3>2. ASSUME NEW r \in appReps, AppendReplyOK(r) PROVE Spread'
      BY <2>2, <3>2, BookedSpread
    <3> QED
      BY <2>2, <2>4, <3>1, <3>2, RequestSpread DEF NextAppend
  <2>5. CASE UNCHANGED vars
    <3>1. UNCHANGED <<ItemList, CommitIndex, acceptIndex, commitIndex, heartReqs, appReqs, appending,
                      appReps>>
      BY <2>5 DEF vars, logVars, workVars, beatVars, appVars
    <3>2. /\ \A n \in Node : HeldTwice(CommitIndex'[n])
          /\ \A n, m \in Node : HeldTwice(acceptIndex'[n][m]) /\ HeldTwice(commitIndex'[n][m])
          /\ \A m \in heartReqs' : HeldTwice(m.commit)
          /\ \A m \in appReqs' : Sent(m)
          /\ \A h \in appending' : Sent(h.req)
          /\ \A r \in appReps' : Told(r)
      BY <2>2, <3>1 DEF Spread
    <3> QED
      BY <3>1, <3>2, SameSpread
  <2> QED
    BY <1>2, <2>3, <2>4, <2>5 DEF Next
<1> QED
  BY <1>1, <1>2

\* Until a process restarts, whoever leads and however answers are booked, an
\* index that some node has committed is in the logs of two nodes.
THEOREM CommittedIsHeldTwice == Spec => []CommittedHeldTwice
<1>1. Init => SpreadInv
  <2> SUFFICES ASSUME Init PROVE Spread
    BY DEF SpreadInv
  <2>1. \A n \in Node : CommitIndex[n] = 0 /\ \A m \in Node : acceptIndex[n][m] = 0
                                                             /\ commitIndex[n][m] = 0
    BY DEF Init
  <2>2. heartReqs = {} /\ appReqs = {} /\ appending = {} /\ appReps = {}
    BY DEF Init
  <2>3. HeldTwice(0)
    BY DEF HeldTwice
  <2> QED
    BY <2>1, <2>2, <2>3 DEF Spread
<1>2. TypeOK /\ ReplicationInv /\ SpreadInv /\ [Next]_vars => SpreadInv'
  BY NextSpread DEF ReplicationInv
<1>3. SpreadInv => CommittedHeldTwice
  BY DEF SpreadInv, Spread, CommittedHeldTwice
<1> QED
  BY <1>1, <1>2, <1>3, TypeCorrect, ReplicationInvariant, PTL DEF Spec
=============================================================================
