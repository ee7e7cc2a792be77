---------------------------- MODULE NodeCluster ----------------------------
(***************************************************************************)
(* The cluster that main.go starts: package node, one process per entry of *)
(* node_list, talking over the gRPC service of node.proto.                 *)
(*                                                                         *)
(*   - timeout, election, SendElectionRequest / Election: leader election; *)
(*   - leaderSendHeart, SendHeart / Heart: heartbeats and commit notices;  *)
(*   - Append, AppendEntry, SendAppendEntry: replication of one item;      *)
(*   - CheckAcceptId, CheckCommitId: what the leader deems accepted and    *)
(*     committed.                                                          *)
(*                                                                         *)
(* Heart and Election wait for nothing and are one action each.  Append    *)
(* waits for redis between its check and its writes, while gRPC runs other *)
(* handlers of the node (no lock covers it), so it is several: the check,  *)
(* redis's HSet, and what follows its answer.  A call that a client makes  *)
(* is several too: the request is sent, handled, and answered, and the     *)
(* caller may give up at any time in between (context.WithTimeout).  A     *)
(* request whose caller gave up (live = FALSE) may still be handled; its   *)
(* answer goes nowhere.  Messages may be delayed, reordered and lost (a    *)
(* lost message is one never handled).                                     *)
(*                                                                         *)
(* The wall clock is left out: the 5 s heartbeat timer of a node may       *)
(* expire at any moment.  The code that calls timeout, election,           *)
(* leaderSendHeart and the client's append is commented out at this        *)
(* commit (loop in node.go, AppendLog in raft_server.go); the model runs   *)
(* the operations on the schedule those lines give.                        *)
(***************************************************************************)
EXTENDS Naturals, Sequences, FiniteSets

CONSTANTS
    N,           \* number of nodes: len(nodeCfgList)
    Value,       \* what clients write (Item.Log)
    InitLog,     \* Log of the item every node starts with ("init")
    Timers,      \* nodes whose heartbeat timer may expire
    Unreliable,  \* calls that may fail or time out: of
                 \* "Dial" (of election), "Election", "Heart", "Append" and
                 \* redis's "HSet"
    MaxTerm,     \* bound: no election is started beyond this term
    MaxItems,    \* bound: items appended, or being appended, to a log
    MaxRestarts, \* bound: process restarts
    MaxCalls,    \* bound: Append requests in flight
    MaxHearts,   \* bound: Heart requests in flight, and rounds of them at a node
    MaxDead      \* bound: Election requests in flight whose caller gave up

ASSUME NAssumption == N \in Nat \ {0}

Node == 0 .. N - 1                  \* Node.Id and configIndex
None == N                           \* leaderId = ""

Follower  == "Follower"
Candidate == "Candidate"
Leader    == "Leader"

Item == [Index : Nat, Term : Nat, Log : Value \cup {InitLog}]
ZeroItem == [Index |-> 0, Term |-> 0, Log |-> InitLog]

VARIABLES
    Term, state, leaderId, OathAcceptNum,   \* struct Node, by node
    ItemList, CommitIndex, AcceptIndex,
    acceptIndex, commitIndex,               \* struct WorkNode: [node][peer]
    redis,                                  \* the hash node_<Id>
    polling,      \* the loop goroutine is inside election()
    oathCalls,    \* indices of election()'s goroutines that have not called yet
    hung,         \* a goroutine of election() ended without wg.Done()
    hearts,       \* positions of running leaderSendHeart goroutines
    appendCalls,  \* indices of AppendEntry()'s goroutines that have not called yet
    appending,    \* Append handlers between the check and HSet's answer
    voteReqs, voteReps, heartReqs, appReqs, appReps,   \* gRPC messages
    cast,         \* history: <<term, candidate>> a node voted for since its
                  \* Term was last lowered
    restarts      \* number of restarts so far

nodeVars == <<Term, state, leaderId>>
logVars  == <<ItemList, CommitIndex, redis>>
workVars == <<AcceptIndex, acceptIndex, commitIndex>>
oathVars == <<OathAcceptNum, polling, oathCalls, hung, voteReqs, voteReps>>
beatVars == <<hearts, heartReqs>>
appVars  == <<appendCalls, appending, appReqs, appReps>>
vars == <<nodeVars, logVars, workVars, oathVars, beatVars, appVars, cast, restarts>>

-----------------------------------------------------------------------------
(* Reading the log, and the tables a node keeps about its peers.           *)

GetTailItem(n) ==
    IF Len(ItemList[n]) = 0 THEN ZeroItem ELSE ItemList[n][Len(ItemList[n])]

\* The item before the first one with this index.
GetPreItem(n, item) ==
    LET before == {k \in 1 .. Len(ItemList[n]) :
                      \A i \in 1 .. k : ItemList[n][i].Index # item.Index}
    IN  IF before = {} THEN ZeroItem ELSE ItemList[n][Cardinality(before)]

\* Mutant of Peer: the list indexed from one.
PeerOffByOne(n, j) == IF j <= n THEN j ELSE j + 1

\* The j-th entry of n's OtherNodeList.
Peer(n, j) == IF j <= n THEN j - 1 ELSE j

\* Mutant of Advanced: a peer that is level counts as beyond.
AdvancedIfLevel(n, reached, index) ==
    IF Cardinality({m \in Node \ {n} : reached[m] >= index}) * 2 > N
    THEN index + 1 ELSE index

\* An index that more than half of the cluster, the node itself not counted,
\* is beyond advances by one.
Advanced(n, reached, index) ==
    IF Cardinality({m \in Node \ {n} : reached[m] > index}) * 2 > N
    THEN index + 1 ELSE index

CheckAcceptId(n, accepted) == Advanced(n, accepted, AcceptIndex[n])
CheckCommitId(n, committed) == Advanced(n, committed, CommitIndex[n])

\* The commit notice that a request to peer m carries (0: none).
CommitNotice(n, m) ==
    IF commitIndex[n][m] < acceptIndex[n][m] THEN commitIndex[n][m] + 1 ELSE 0

\* Mutant of Obeyed: the notice alone decides.
ObeyedBlindly(n, notice, item) ==
    IF notice = CommitIndex[n] + 1 THEN CommitIndex[n] + 1 ELSE CommitIndex[n]

\* Obeying a commit notice: the next index, and only within the items held.
Obeyed(n, notice, item) ==
    IF notice = CommitIndex[n] + 1 /\ item.Index > CommitIndex[n]
    THEN CommitIndex[n] + 1 ELSE CommitIndex[n]

-----------------------------------------------------------------------------
Init ==
    /\ Term = [n \in Node |-> 0]
    /\ state = [n \in Node |-> Follower]
    /\ leaderId = [n \in Node |-> None]
    /\ OathAcceptNum = [n \in Node |-> 0]
    /\ ItemList = [n \in Node |-> <<ZeroItem>>]
    /\ CommitIndex = [n \in Node |-> 0]
    /\ AcceptIndex = [n \in Node |-> 0]
    /\ acceptIndex = [n \in Node |-> [m \in Node |-> 0]]
    /\ commitIndex = [n \in Node |-> [m \in Node |-> 0]]
    /\ redis = [n \in Node |-> {}]
    /\ polling = [n \in Node |-> FALSE]
    /\ oathCalls = [n \in Node |-> {}]
    /\ hung = [n \in Node |-> FALSE]
    /\ hearts = [n \in Node |-> {}]
    /\ appending = {}
    /\ appendCalls = [n \in Node |-> {}]
    /\ voteReqs = {} /\ voteReps = {} /\ heartReqs = {}
    /\ appReqs = {} /\ appReps = {}
    /\ cast = [n \in Node |-> {}]
    /\ restarts = 0

-----------------------------------------------------------------------------
(* Election.                                                               *)

\* The loop finds no heartbeat for TimeoutNanSecond.
Timeout(n) ==
    /\ n \in Timers
    /\ state[n] = Follower /\ ~polling[n]
    /\ state' = [state EXCEPT ![n] = Candidate]
    /\ UNCHANGED <<Term, leaderId, logVars, workVars, oathVars, beatVars, appVars,
                   cast, restarts>>

\* The loop finds the node a candidate: election() up to wg.Wait().
ElectionStart(n) ==
    /\ state[n] = Candidate /\ ~polling[n]
    /\ Term[n] < MaxTerm
    /\ OathAcceptNum' = [OathAcceptNum EXCEPT ![n] = 1]
    /\ Term' = [Term EXCEPT ![n] = @ + 1]
    /\ polling' = [polling EXCEPT ![n] = TRUE]
    /\ oathCalls' = [oathCalls EXCEPT ![n] = 1 .. N - 1]
    /\ cast' = [cast EXCEPT ![n] = @ \cup {<<Term[n] + 1, n>>}]
    /\ UNCHANGED <<state, leaderId, logVars, workVars, hung, voteReqs, voteReps, beatVars,
                   appVars, restarts>>

\* Goroutine i of election() dials and calls.  Its closure shares the loop
\* variable (go 1.17), so it dials peer i or any later one; Term and
\* AcceptIndex are read now.
SendElectionRequest(n, i, j) ==
    /\ i \in oathCalls[n] /\ j \in i .. N - 1
    /\ oathCalls' = [oathCalls EXCEPT ![n] = @ \ {i}]
    /\ voteReqs' = voteReqs \cup
           {[from |-> n, to |-> Peer(n, j), call |-> i, live |-> TRUE,
             term |-> Term[n], index |-> AcceptIndex[n]]}
    /\ UNCHANGED <<nodeVars, logVars, workVars, OathAcceptNum, polling, hung, voteReps,
                   beatVars, appVars, cast, restarts>>

\* ... or its Dial fails, and it returns without wg.Done().
ElectionDialFails(n, i) ==
    /\ "Dial" \in Unreliable
    /\ i \in oathCalls[n]
    /\ oathCalls' = [oathCalls EXCEPT ![n] = @ \ {i}]
    /\ hung' = [hung EXCEPT ![n] = TRUE]
    /\ UNCHANGED <<nodeVars, logVars, workVars, OathAcceptNum, polling, voteReqs, voteReps,
                   beatVars, appVars, cast, restarts>>

\* Mutant of Accepts: a second vote in the same term.
AcceptsSameTerm(n, m) == Term[n] <= m.term /\ GetTailItem(n).Index <= m.index

\* The voter's condition.
Accepts(n, m) == Term[n] < m.term /\ GetTailItem(n).Index <= m.index

\* The voter's side of the call.
Election(m) ==
    LET n      == m.to
        accept == Accepts(n, m)
    IN  /\ m \in voteReqs
        /\ voteReqs' = voteReqs \ {m}
        /\ IF accept
           THEN /\ Term' = [Term EXCEPT ![n] = m.term]
                /\ leaderId' = [leaderId EXCEPT ![n] = m.from]
                /\ state' = [state EXCEPT ![n] = Follower]
                /\ cast' = [cast EXCEPT ![n] = @ \cup {<<m.term, m.from>>}]
           ELSE UNCHANGED <<nodeVars, cast>>
        /\ voteReps' = IF m.live
                       THEN voteReps \cup {[from |-> n, to |-> m.from, call |-> m.call,
                                            accept |-> accept, term |-> Term'[n],
                                            index |-> n]}
                       ELSE voteReps
        /\ UNCHANGED <<logVars, workVars, OathAcceptNum, polling, oathCalls, hung,
                       beatVars, appVars, restarts>>

\* The candidate's side: SendElectionRequest after c.Election returned.
ElectionReply(r) ==
    LET n == r.to
        outranked == r.term > Term[n] \/ (r.term = Term[n] /\ r.index > n)
    IN  /\ r \in voteReps
        /\ voteReps' = voteReps \ {r}
        /\ OathAcceptNum' = [OathAcceptNum EXCEPT ![n] = IF r.accept THEN @ + 1 ELSE @]
        /\ state' = [state EXCEPT ![n] = IF ~r.accept /\ outranked THEN Follower ELSE @]
        /\ UNCHANGED <<Term, leaderId, logVars, workVars, polling, oathCalls, hung, voteReqs,
                       beatVars, appVars, cast, restarts>>

\* Mutant of ElectionCallTimeout: a call without a deadline.
NoDeadline(n, i, lost) == FALSE /\ UNCHANGED vars

\* The 300 ms of the call are over (or it failed), before or after it was
\* handled; a request not handled yet is lost or still under way.
ElectionCallTimeout(n, i, lost) ==
    LET waiting == {m \in voteReqs : m.from = n /\ m.call = i /\ m.live}
        replied == {r \in voteReps : r.to = n /\ r.call = i}
        dead    == IF lost THEN {} ELSE {[m EXCEPT !.live = FALSE] : m \in waiting}
    IN  /\ "Election" \in Unreliable
        /\ waiting \cup replied # {}
        /\ lost \/ Cardinality({m \in voteReqs : ~m.live}) < MaxDead
        /\ voteReqs' = (voteReqs \ waiting) \cup dead
        /\ voteReps' = voteReps \ replied
        /\ UNCHANGED <<nodeVars, logVars, workVars, OathAcceptNum, polling, oathCalls,
                       hung, beatVars, appVars, cast, restarts>>

\* wg.Wait() returns when every goroutine of the election is done.
ElectionOver(n) ==
    /\ oathCalls[n] = {} /\ ~hung[n]
    /\ \A m \in voteReqs : m.from = n => ~m.live
    /\ \A r \in voteReps : r.to # n

\* election() after wg.Wait(): the state is set whatever it is by now.
ElectionEnd(n) ==
    /\ polling[n] /\ ElectionOver(n)
    /\ polling' = [polling EXCEPT ![n] = FALSE]
    /\ IF OathAcceptNum[n] * 2 > N
       THEN /\ state' = [state EXCEPT ![n] = Leader]
            /\ hearts' = [hearts EXCEPT ![n] = @ \cup {1}]
       ELSE UNCHANGED <<state, hearts>>
    /\ UNCHANGED <<Term, leaderId, logVars, workVars, OathAcceptNum, oathCalls, hung,
                   voteReqs, voteReps, heartReqs, appVars, cast, restarts>>

-----------------------------------------------------------------------------
(* Heartbeats.                                                             *)

\* The loop finds the node a leader: go leaderSendHeart().
LeaderSendHeart(n) ==
    /\ state[n] = Leader /\ ~polling[n]
    /\ Cardinality(hearts[n]) < MaxHearts
    /\ hearts' = [hearts EXCEPT ![n] = @ \cup {1}]
    /\ UNCHANGED <<nodeVars, logVars, workVars, oathVars, heartReqs, appVars, cast, restarts>>

\* A leaderSendHeart goroutine calls its p-th peer and moves to the next.
\* The reply is not used, so the call is over as soon as it is sent, or lost
\* (Dial failed).
SendHeart(n, p, lost) ==
    LET m == [from |-> n, to |-> Peer(n, p), term |-> Term[n],
              commit |-> CommitNotice(n, Peer(n, p))]
    IN  /\ p \in hearts[n] /\ p < N
        /\ lost => "Heart" \in Unreliable
        /\ lost \/ Cardinality(heartReqs) < MaxHearts
        /\ hearts' = [hearts EXCEPT ![n] = (@ \ {p}) \cup {p + 1}]
        /\ heartReqs' = IF lost THEN heartReqs ELSE heartReqs \cup {m}
        /\ UNCHANGED <<nodeVars, logVars, workVars, oathVars, appVars, cast, restarts>>

\* ... and after the last peer it ends with CheckCommitId.
HeartsSent(n) ==
    /\ N \in hearts[n]
    /\ hearts' = [hearts EXCEPT ![n] = @ \ {N}]
    /\ CommitIndex' = [CommitIndex EXCEPT ![n] = CheckCommitId(n, commitIndex[n])]
    /\ UNCHANGED <<nodeVars, ItemList, redis, workVars, oathVars, heartReqs, appVars,
                   cast, restarts>>

Heart(m) ==
    LET n == m.to
    IN  /\ m \in heartReqs
        /\ heartReqs' = heartReqs \ {m}
        /\ IF m.term >= Term[n]
           THEN /\ Term' = [Term EXCEPT ![n] = m.term]
                /\ leaderId' = [leaderId EXCEPT ![n] = m.from]
                /\ state' = [state EXCEPT ![n] = Follower]
           ELSE UNCHANGED nodeVars
        /\ CommitIndex' = [CommitIndex EXCEPT ![n] = Obeyed(n, m.commit, GetTailItem(n))]
        /\ UNCHANGED <<ItemList, redis, workVars, oathVars, hearts, appVars, cast, restarts>>

-----------------------------------------------------------------------------
(* Replication.                                                            *)

\* Mutant of Extends: the tail is not looked at.
ExtendsBlindly(n, pre, entry) == pre.Index + 1 = entry.Index

\* The request extends the tail of n's log.
Extends(n, pre, entry) ==
    /\ GetTailItem(n).Term = pre.Term
    /\ GetTailItem(n).Index = pre.Index
    /\ GetTailItem(n).Index + 1 = entry.Index

\* A handler of request m that passed the check and waits for redis, which
\* has applied its HSet (saved) or not yet.
Handler(m, saved) == [req |-> m, saved |-> saved]

Room(n) == Len(ItemList[n]) + Cardinality({h \in appending : h.req.to = n}) <= MaxItems

\* AppendEntry starts a goroutine for every peer (one still to call from an
\* earlier write is not told apart: both will send the tail as it is then).
AppendEntry(n) == appendCalls' = [appendCalls EXCEPT ![n] = 1 .. N - 1]

\* A client writes at the leader: AppendLog reads the tail and calls Append on
\* the node itself, up to HSet.
AppendLog(n, v) ==
    LET item  == GetTailItem(n)
        entry == [Index |-> item.Index + 1, Term |-> Term[n], Log |-> v]
        m == [from |-> n, to |-> n, node |-> n, live |-> TRUE, entry |-> entry,
              pre |-> item, commit |-> 0]
    IN  /\ state[n] = Leader
        /\ Room(n) /\ Handler(m, FALSE) \notin appending
        /\ appending' = appending \cup {Handler(m, FALSE)}
        /\ UNCHANGED <<nodeVars, logVars, workVars, oathVars, beatVars, appendCalls, appReqs,
                       appReps, cast, restarts>>

\* Goroutine i of AppendEntry dials and calls SendAppendEntry.  The loop
\* variable is shared here too and read twice: it dials peer j, and books
\* the answer under peer k, with i <= j <= k.
SendAppendEntry(n, i, j, k) ==
    LET item == GetTailItem(n)
        m == [from |-> n, to |-> Peer(n, j), node |-> Peer(n, k), live |-> TRUE,
              entry |-> item, pre |-> GetPreItem(n, item),
              commit |-> CommitNotice(n, Peer(n, k))]
    IN  /\ i \in appendCalls[n] /\ j \in i .. N - 1 /\ k \in j .. N - 1
        /\ m \notin appReqs /\ Cardinality(appReqs) < MaxCalls
        /\ appendCalls' = [appendCalls EXCEPT ![n] = @ \ {i}]
        /\ appReqs' = appReqs \cup {m}
        /\ UNCHANGED <<nodeVars, logVars, workVars, oathVars, beatVars, appending, appReps,
                       cast, restarts>>

\* What the answer to request m tells its caller, if it still waits: the new
\* item's index when accepted, else that of the tail.  AppendLog does not look
\* at it, and goes on to AppendEntry.
Answer(m, accept) ==
    IF m.from = m.to
    THEN AppendEntry(m.to) /\ UNCHANGED appReps
    ELSE /\ appReps' = IF m.live
                       THEN appReps \cup
                            {[from |-> m.to, to |-> m.from, node |-> m.node, pre |-> m.pre,
                              accept |-> accept, commit |-> CommitIndex'[m.to],
                              append |-> IF accept THEN m.entry.Index
                                         ELSE GetTailItem(m.to).Index]}
                       ELSE appReps
         /\ UNCHANGED appendCalls

\* The handler of Append finds that the request does not extend its log.
AppendReject(m) ==
    /\ m \in appReqs
    /\ ~Extends(m.to, m.pre, m.entry)
    /\ appReqs' = appReqs \ {m}
    /\ UNCHANGED <<nodeVars, logVars, workVars, oathVars, beatVars, appending, cast, restarts>>
    /\ Answer(m, FALSE)

\* ... or that it does, and calls redis.
AppendCheck(m) ==
    /\ m \in appReqs
    /\ Extends(m.to, m.pre, m.entry)
    /\ Room(m.to) /\ Handler(m, FALSE) \notin appending
    /\ appReqs' = appReqs \ {m}
    /\ appending' = appending \cup {Handler(m, FALSE)}
    /\ UNCHANGED <<nodeVars, logVars, workVars, oathVars, beatVars, appendCalls, appReps, cast,
                   restarts>>

\* Redis applies the HSet of a handler.
HSet(h) ==
    LET n == h.req.to
        entry == h.req.entry
    IN  /\ h \in appending /\ ~h.saved
        /\ Handler(h.req, TRUE) \notin appending
        /\ redis' = [redis EXCEPT ![n] = {x \in @ : x.Index # entry.Index} \cup {entry}]
        /\ appending' = (appending \ {h}) \cup {Handler(h.req, TRUE)}
        /\ UNCHANGED <<nodeVars, ItemList, CommitIndex, workVars, oathVars, beatVars,
                       appendCalls, appReqs, appReps, cast, restarts>>

\* Mutant of HSetOK: the error of HSet is not looked at.
HSetIgnored(h) == TRUE

\* HSet returned without an error.
HSetOK(h) == h.saved

\* The rest of Append.  The item goes behind whatever the tail is by now; Term
\* becomes that of the entry, also when that is lower; the commit notice is
\* held against the tail that the check saw.
AppendDone(h) ==
    LET m == h.req
        n == m.to
    IN  /\ h \in appending /\ HSetOK(h)
        /\ appending' = appending \ {h}
        /\ ItemList' = [ItemList EXCEPT ![n] = Append(@, m.entry)]
        /\ Term' = [Term EXCEPT ![n] = m.entry.Term]
        /\ cast' = [cast EXCEPT ![n] = IF m.entry.Term < Term[n] THEN {} ELSE @]
        /\ state' = [state EXCEPT ![n] = IF n # m.from THEN Follower ELSE @]
        /\ CommitIndex' = [CommitIndex EXCEPT ![n] = Obeyed(n, m.commit, m.pre)]
        /\ UNCHANGED <<leaderId, redis, workVars, oathVars, beatVars, appReqs, restarts>>
        /\ Answer(m, TRUE)

\* HSet fails, whether redis applied it or not (also because the context of a
\* call ended whose caller gave up).  The call returns an error, which the
\* caller only logs.
AppendError(h) ==
    LET m == h.req
    IN  /\ h \in appending
        /\ "HSet" \in Unreliable \/ ~m.live
        /\ appending' = appending \ {h}
        /\ appendCalls' = [appendCalls EXCEPT ![m.to] = IF m.from = m.to THEN 1 .. N - 1 ELSE @]
        /\ UNCHANGED <<nodeVars, logVars, workVars, oathVars, beatVars, appReqs, appReps, cast,
                       restarts>>

\* The caller's side: SendAppendEntry after c.Append returned.
AppendReplyOK(r) ==
    LET n == r.to
        accepted == [acceptIndex[n] EXCEPT ![r.node] = r.append]
        committed == [commitIndex[n] EXCEPT ![r.node] = r.commit]
    IN  /\ r \in appReps /\ r.accept
        /\ appReps' = appReps \ {r}
        /\ acceptIndex' = [acceptIndex EXCEPT ![n] = accepted]
        /\ commitIndex' = [commitIndex EXCEPT ![n] = committed]
        /\ AcceptIndex' = [AcceptIndex EXCEPT ![n] = CheckAcceptId(n, accepted)]
        /\ CommitIndex' = [CommitIndex EXCEPT ![n] = CheckCommitId(n, committed)]
        /\ UNCHANGED <<nodeVars, ItemList, redis, oathVars, beatVars, appendCalls, appending,
                       appReqs, cast, restarts>>

\* A refusal starts a catch-up goroutine that sends the item before the one
\* refused to the same peer, again and again: the inner preItem shadows the
\* outer one, so the loop never leaves that item, and nothing of the answers
\* is used.  The refusal stays in appReps while the goroutine runs.
CatchUp(r) ==
    LET m == [from |-> r.to, to |-> r.from, node |-> r.node, live |-> FALSE,
              entry |-> r.pre, pre |-> GetPreItem(r.to, r.pre),
              commit |-> CommitNotice(r.to, r.node)]
    IN  /\ r \in appReps /\ ~r.accept
        /\ m \notin appReqs /\ Cardinality(appReqs) < MaxCalls
        /\ appReqs' = appReqs \cup {m}
        /\ UNCHANGED <<nodeVars, logVars, workVars, oathVars, beatVars, appendCalls, appending,
                       appReps, cast, restarts>>

\* The second of the call is over before the request reached its handler, ...
AppendCallTimeout(m, lost) ==
    /\ "Append" \in Unreliable
    /\ m \in appReqs /\ m.live
    /\ appReqs' = (appReqs \ {m}) \cup (IF lost THEN {} ELSE {[m EXCEPT !.live = FALSE]})
    /\ UNCHANGED <<nodeVars, logVars, workVars, oathVars, beatVars, appendCalls, appending,
                   appReps, cast, restarts>>

\* ... while the handler waits for redis (AppendLog's own call has no end),
AppendCallCut(h) ==
    /\ "Append" \in Unreliable
    /\ h \in appending /\ h.req.live /\ h.req.from # h.req.to
    /\ appending' = (appending \ {h}) \cup {Handler([h.req EXCEPT !.live = FALSE], h.saved)}
    /\ UNCHANGED <<nodeVars, logVars, workVars, oathVars, beatVars, appendCalls, appReqs,
                   appReps, cast, restarts>>

\* ... or with an answer unread; or the context is cancelled, when
\* SendAppendEntry returns, with the catch-up goroutine running.
AppendCallOver(r) ==
    /\ r \in appReps /\ (r.accept => "Append" \in Unreliable)
    /\ appReps' = appReps \ {r}
    /\ UNCHANGED <<nodeVars, logVars, workVars, oathVars, beatVars, appendCalls, appending,
                   appReqs, cast, restarts>>

-----------------------------------------------------------------------------
\* Handlers of a process that died are gone; a caller that died waits no more.
Orphaned(n) ==
    {Handler([h.req EXCEPT !.live = @ /\ h.req.from # n], h.saved) :
        h \in {g \in appending : g.req.to # n}}

\* The process dies and main() runs CreateNode again.  Nothing is read back
\* from redis; whoever called this node, or waits for its answer, is cut off.
Restart(n) ==
    /\ restarts < MaxRestarts
    /\ restarts' = restarts + 1
    /\ Term' = [Term EXCEPT ![n] = 0]
    /\ state' = [state EXCEPT ![n] = Follower]
    /\ leaderId' = [leaderId EXCEPT ![n] = None]
    /\ OathAcceptNum' = [OathAcceptNum EXCEPT ![n] = 0]
    /\ ItemList' = [ItemList EXCEPT ![n] = <<ZeroItem>>]
    /\ CommitIndex' = [CommitIndex EXCEPT ![n] = 0]
    /\ AcceptIndex' = [AcceptIndex EXCEPT ![n] = 0]
    /\ acceptIndex' = [acceptIndex EXCEPT ![n] = [m \in Node |-> 0]]
    /\ commitIndex' = [commitIndex EXCEPT ![n] = [m \in Node |-> 0]]
    /\ polling' = [polling EXCEPT ![n] = FALSE]
    /\ oathCalls' = [oathCalls EXCEPT ![n] = {}]
    /\ hung' = [hung EXCEPT ![n] = FALSE]
    /\ hearts' = [hearts EXCEPT ![n] = {}]
    /\ appendCalls' = [appendCalls EXCEPT ![n] = {}]
    /\ appending' = Orphaned(n)
    /\ voteReqs' = {[m EXCEPT !.live = @ /\ m.from # n] : m \in voteReqs}
    /\ voteReps' = {r \in voteReps : r.to # n}
    /\ appReqs' = {[m EXCEPT !.live = @ /\ m.from # n] : m \in appReqs}
    /\ appReps' = {r \in appReps : r.to # n}
    /\ cast' = [cast EXCEPT ![n] = {}]
    /\ UNCHANGED <<redis, heartReqs>>

-----------------------------------------------------------------------------
NextElection ==
    \/ \E n \in Node : \/ Timeout(n) \/ ElectionStart(n) \/ ElectionEnd(n)
                       \/ \E i, j \in 1 .. N - 1 : SendElectionRequest(n, i, j)
                       \/ \E i \in 1 .. N - 1 : ElectionDialFails(n, i)
                       \/ \E i \in 1 .. N - 1, lost \in BOOLEAN : ElectionCallTimeout(n, i, lost)
    \/ \E m \in voteReqs : Election(m)
    \/ \E r \in voteReps : ElectionReply(r)

NextHeart ==
    \/ \E n \in Node : \/ LeaderSendHeart(n) \/ HeartsSent(n)
                       \/ \E p \in 1 .. N - 1, lost \in BOOLEAN : SendHeart(n, p, lost)
    \/ \E m \in heartReqs : Heart(m)

NextAppend ==
    \/ \E n \in Node : \/ \E v \in Value : AppendLog(n, v)
                       \/ \E i, j, k \in 1 .. N - 1 : SendAppendEntry(n, i, j, k)
    \/ \E m \in appReqs : \/ AppendReject(m) \/ AppendCheck(m)
                          \/ \E lost \in BOOLEAN : AppendCallTimeout(m, lost)
    \/ \E h \in appending : HSet(h) \/ AppendDone(h) \/ AppendError(h) \/ AppendCallCut(h)
    \/ \E r \in appReps : \/ AppendReplyOK(r) \/ CatchUp(r) \/ AppendCallOver(r)

Next == NextElection \/ NextHeart \/ NextAppend \/ \E n \in Node : Restart(n)

Spec == Init /\ [][Next]_vars

-----------------------------------------------------------------------------
(* Types.                                                                  *)

VoteReq == [from : Node, to : Node, call : Nat, live : BOOLEAN, term : Nat, index : Nat]
VoteRep == [from : Node, to : Node, call : Nat, accept : BOOLEAN, term : Nat, index : Nat]
HeartReq == [from : Node, to : Node, term : Nat, commit : Nat]
AppReq == [from : Node, to : Node, node : Node, live : BOOLEAN, entry : Item, pre : Item,
           commit : Nat]
AppHandler == [req : AppReq, saved : BOOLEAN]
AppRep == [from : Node, to : Node, node : Node, pre : Item, accept : BOOLEAN,
           append : Nat, commit : Nat]

\* Every field of a Node and every message keeps its type; an index that
\* advances by one (CheckAcceptId, CheckCommitId) or a goroutine's position
\* never leaves it.
TypeOK ==
    /\ Term \in [Node -> Nat]
    /\ state \in [Node -> {Follower, Candidate, Leader}]
    /\ leaderId \in [Node -> Node \cup {None}]
    /\ OathAcceptNum \in [Node -> Nat]
    /\ ItemList \in [Node -> Seq(Item)]
    /\ CommitIndex \in [Node -> Nat]
    /\ AcceptIndex \in [Node -> Nat]
    /\ acceptIndex \in [Node -> [Node -> Nat]]
    /\ commitIndex \in [Node -> [Node -> Nat]]
    /\ redis \in [Node -> SUBSET Item]
    /\ polling \in [Node -> BOOLEAN]
    /\ oathCalls \in [Node -> SUBSET (1 .. N - 1)]
    /\ hung \in [Node -> BOOLEAN]
    /\ hearts \in [Node -> SUBSET (1 .. N)]
    /\ appendCalls \in [Node -> SUBSET (1 .. N - 1)]
    /\ appending \subseteq AppHandler
    /\ voteReqs \subseteq VoteReq /\ voteReps \subseteq VoteRep
    /\ heartReqs \subseteq HeartReq
    /\ appReqs \subseteq AppReq /\ appReps \subseteq AppRep
    /\ cast \in [Node -> SUBSET (Nat \X Node)]
    /\ restarts \in Nat

-----------------------------------------------------------------------------
(* Election.                                                               *)

\* A node gives its vote in a term to one candidate, itself included, until
\* an accepted Append lowers its Term (or it restarts): Election grants only
\* terms above n.Term, and election() raises n.Term before it counts itself.
VoteOnce ==
    \A n \in Node : \A v, w \in cast[n] : v[1] = w[1] => v = w

-----------------------------------------------------------------------------
(* Replication.                                                            *)

\* n's log holds an item of index i.
Holds(n, i) == \E k \in 1 .. Len(ItemList[n]) : ItemList[n][k].Index = i

\* A log starts with the item of CreateNode and has no gap: below an item
\* there is one of every index, although a handler appends behind a tail that
\* others have moved since its check, and an index may stand in the log twice
\* or after a later one.  The tail's term is never above the node's own.
LogWellFormed ==
    \A n \in Node :
        /\ Len(ItemList[n]) > 0 /\ ItemList[n][1] = ZeroItem
        /\ \A k \in 1 .. Len(ItemList[n]) : \A i \in 0 .. ItemList[n][k].Index : Holds(n, i)
        /\ GetTailItem(n).Term <= Term[n]

\* No node commits an item it does not hold, neither by a notice in Heart nor
\* by one in Append, which looks at a tail read before redis answered; until
\* a peer has accepted an item from it (CheckCommitId then counts the peers,
\* and does not look at the leader's own log).
CommitWithinLog ==
    \A n \in Node :
        (\A m \in Node : acceptIndex[n][m] = 0) => Holds(n, CommitIndex[n])

\* Every index that a node holds, or told a caller that it accepted, is in its
\* redis hash, and the hash has no gap: also after the process restarted with
\* an empty log, after failed HSets, and under handlers that overlap.
Persisted ==
    \A n \in Node :
        LET saved == {0} \cup {x.Index : x \in redis[n]}
        IN  /\ \A k \in 1 .. Len(ItemList[n]) : ItemList[n][k].Index \in saved
            /\ \A r \in appReps : (r.from = n /\ r.accept) => r.append \in saved
            /\ \A j \in saved : \A i \in 0 .. j : i \in saved

\* Two nodes hold an item of index i (all hold the one of CreateNode).
HeldTwice(i) == i = 0 \/ \E p, q \in Node : p # q /\ Holds(p, i) /\ Holds(q, i)

\* What some node deems committed is in the logs of at least two nodes, a
\* majority of three, until a process restarts and loses its log: whichever
\* peer an answer is booked under, in whichever order answers and notices
\* come, and whoever leads.
CommittedHeldTwice == restarts = 0 => \A n \in Node : HeldTwice(CommitIndex[n])

-----------------------------------------------------------------------------
(* What the README says and the code does not keep (the run that expects a *)
(* violation).                                                             *)

\* No two leaders in one term: the README calls the cluster one that follows
\* the Raft algorithm, and a test of SendElectionRequest wants a refused
\* candidate to be a follower.  election() makes it a leader regardless.
OneLeaderPerTerm ==
    \A m, n \in Node :
        (state[m] = Leader /\ state[n] = Leader /\ Term[m] = Term[n]) => m = n

-----------------------------------------------------------------------------
(* Liveness.                                                               *)

\* The Go scheduler runs every goroutine of election() and the loop that
\* waits for them, and the 300 ms context ends every call.  Nothing is assumed
\* of the network, of the other nodes or of the timers.
ElectionGoesOn(n) ==
    /\ polling[n]
    /\ \/ ElectionEnd(n)
       \/ \E i \in oathCalls[n], j \in 1 .. N - 1 : SendElectionRequest(n, i, j)
       \/ \E i \in oathCalls[n] : ElectionDialFails(n, i)
       \/ \E i \in 1 .. N - 1, lost \in BOOLEAN : ElectionCallTimeout(n, i, lost)

ElectionFairness == \A n \in Node : WF_vars(ElectionGoesOn(n))

FairSpec == Spec /\ ElectionFairness

\* election() returns, whatever becomes of its calls and whatever the node
\* learns meanwhile: nothing but a failed Dial, whose goroutine returns without
\* wg.Done(), leaves the loop goroutine in wg.Wait().
ElectionReturns == \A n \in Node : polling[n] ~> (~polling[n] \/ hung[n])
=============================================================================
