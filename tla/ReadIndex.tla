----------------------------- MODULE ReadIndex -----------------------------
(***************************************************************************)
(* Linearizable reads of one leader (raft/read_only.go and its callers in  *)
(* raft.go).  A read is answered with the commit index of the time it was  *)
(* taken in, once a quorum has acknowledged a heartbeat sent since then;   *)
(* heartbeats carry the context of the read that was taken in last, and    *)
(* the acknowledgement of one read confirms all that were queued before it.*)
(* Heartbeats and their answers may be lost, repeated and reordered.       *)
(***************************************************************************)
EXTENDS JointQuorum, Sequences

CONSTANTS
    Self,           \* raft.id of the leader
    Contexts,       \* contexts of reads; a client repeats its read with the same one
    IsSingleton,    \* what trk.IsSingleton() returns: TRUE at this commit, and meant
                    \* to be FALSE in a configuration with several voters
    Option,         \* readOnly.option
    MaxCommit,      \* bound: the last commit index
    MaxPostponed    \* bound: reads that wait for the first commit of the term

ReadOnlySafe       == "ReadOnlySafe"
ReadOnlyLeaseBased == "ReadOnlyLeaseBased"

ASSUME ReadIndexAssumption ==
    /\ Self \in IDs /\ IsSingleton \in BOOLEAN
    /\ Option \in {ReadOnlySafe, ReadOnlyLeaseBased}
    /\ MaxCommit \in Nat /\ MaxPostponed \in Nat

VARIABLES
    committed,     \* raftLog.committed
    inTerm,        \* committedEntryInCurrentTerm()
    postponed,     \* pendingReadIndexMessages
    ro,            \* readOnly: the pendingReadIndex map and the readIndexQueue
    heartbeats,    \* heartbeats with a context, or their answers, under way, each
                   \* with the reads that were queued when it was sent (history)
    answers,       \* [ctx, index] given to clients
    asked,         \* history: the commit index when a read was first asked
    heard,         \* history: who answered a heartbeat sent since a read was queued
    again          \* history: a read was queued again after it had been answered

vars == <<committed, inTerm, postponed, ro, heartbeats, answers, asked, heard, again>>

Answered == {a.ctx : a \in answers}
Queued(r) == {r.queue[i] : i \in DOMAIN r.queue}

-----------------------------------------------------------------------------
(* The methods of readOnly.                                                *)

newReadOnly == [pending |-> <<>>, queue |-> <<>>]

With(map, key, value) == [k \in DOMAIN map \cup {key} |-> IF k = key THEN value ELSE map[k]]

\* Mutant of addRequest: the check for a pending one is missing.
AddAgain(r, index, c) ==
    [pending |-> With(r.pending, c, [index |-> index, acks |-> {}]), queue |-> Append(r.queue, c)]

\* Mutant of addRequest: the index of the oldest pending read serves all.
AddToBatch(r, index, c) ==
    IF c \in DOMAIN r.pending THEN r
    ELSE [pending |-> With(r.pending, c,
                           [index |-> IF r.queue = <<>> THEN index ELSE r.pending[r.queue[1]].index,
                            acks |-> {}]),
          queue   |-> Append(r.queue, c)]

addRequest(r, index, c) ==
    IF c \in DOMAIN r.pending THEN r
    ELSE [pending |-> With(r.pending, c, [index |-> index, acks |-> {}]),
          queue   |-> Append(r.queue, c)]

recvAck(r, id, c) ==
    IF c \in DOMAIN r.pending THEN [r EXCEPT !.pending[c].acks = @ \cup {id}] ELSE r

lastPendingRequestCtx(r) == r.queue[Len(r.queue)]

\* Mutant of Upto: every read in the queue counts as confirmed.
UptoEnd(r, c) == Len(r.queue)

\* Position in the queue up to which advance(c) confirms, zero if c is not there.
Upto(r, c) == IF c \in Queued(r) THEN CHOOSE i \in DOMAIN r.queue : r.queue[i] = c ELSE 0

\* Mutant of Confirmed: the read whose heartbeat was acknowledged, and no other.
ConfirmedAlone(r, c) == {c} \cap Queued(r)

Confirmed(r, c) == {r.queue[i] : i \in 1 .. Upto(r, c)}

\* advance panics when a queued read is not in the map.
advancePanics(r, c) == ~(Confirmed(r, c) \subseteq DOMAIN r.pending)

advance(r, c) ==
    [pending |-> [k \in DOMAIN r.pending \ Confirmed(r, c) |-> r.pending[k]],
     queue   |-> SubSeq(r.queue, Upto(r, c) + 1, Len(r.queue))]

\* recvAck's result as quorum.VoteResult takes it: acks holds no false.
Acks(r, c) == IF c \in DOMAIN r.pending THEN [id \in r.pending[c].acks |-> TRUE] ELSE <<>>

-----------------------------------------------------------------------------
(* raft.go: the leader.                                                    *)

\* bcastHeartbeatWithCtx, with the reads in r queued.
Broadcast(c, r) == {[to |-> id, ctx |-> c, queued |-> Queued(r)] : id \in IDs \ {Self}}

\* responseToReadIndexReq, for the reads in the domain of index.
Answer(index) == {[ctx |-> c, index |-> index[c]] : c \in DOMAIN index}

\* sendMsgReadIndexResponse, in ReadOnlySafe: what it makes of readOnly.
Taken(r, c, index) == recvAck(addRequest(r, index, c), Self, c)

\* The readOnly after sendMsgReadIndexResponse of each of cs, in order.
TakenAll(r, cs, index) ==
    LET t[i \in 0 .. Len(cs)] == IF i = 0 THEN r ELSE Taken(t[i - 1], cs[i], index)
    IN  t[Len(cs)]

\* sendMsgReadIndexResponse for each of cs.
SendMsgReadIndexResponse(cs, index) ==
    LET set == {cs[i] : i \in DOMAIN cs}
        new == TakenAll(ro, cs, index)
    IN  IF Option = ReadOnlySafe
        THEN /\ ro' = new
             /\ heartbeats' = heartbeats \cup UNION {Broadcast(c, new) : c \in set}
             /\ heard' = [c \in Contexts |->
                             IF c \in Queued(new) \ Queued(ro) THEN {Self} ELSE heard[c]]
             /\ again' = (again \/ (Queued(new) \ Queued(ro)) \cap Answered # {})
             /\ UNCHANGED answers
        ELSE /\ answers' = answers \cup Answer([c \in set |-> index])
             /\ UNCHANGED <<ro, heartbeats, heard, again>>

Init ==
    /\ committed = 0 /\ inTerm = FALSE /\ postponed = <<>>
    /\ ro = newReadOnly
    /\ heartbeats = {} /\ answers = {}
    /\ asked = [c \in Contexts |-> MaxCommit + 1]
    /\ heard = [c \in Contexts |-> {}]
    /\ again = FALSE

\* MsgReadIndex.  A client may repeat its request with the same context, also
\* while the answer to it is under way.
MsgReadIndex(c) ==
    /\ asked' = [asked EXCEPT ![c] = IF @ > committed THEN committed ELSE @]
    /\ IF IsSingleton
       THEN /\ answers' = answers \cup Answer([x \in {c} |-> committed])
            /\ UNCHANGED <<postponed, ro, heartbeats, heard, again>>
       ELSE \/ /\ ~inTerm /\ Len(postponed) < MaxPostponed
               /\ postponed' = Append(postponed, c)
               /\ UNCHANGED <<ro, heartbeats, heard, answers, again>>
            \/ /\ inTerm
               /\ SendMsgReadIndexResponse(<<c>>, committed)
               /\ UNCHANGED postponed
    /\ UNCHANGED <<committed, inTerm>>

\* maybeCommit returned true: an entry of the current term is committed.  After
\* a MsgAppResp releasePendingReadIndexMessages takes in the reads that wait
\* for that, ...
Commit ==
    /\ committed < MaxCommit
    /\ committed' = committed + 1 /\ inTerm' = TRUE
    /\ SendMsgReadIndexResponse(postponed, committed + 1)
    /\ postponed' = <<>>
    /\ UNCHANGED asked

\* ... and after the leader's own append nobody does: they wait for the next
\* MsgAppResp that commits.
CommitOwn ==
    /\ committed < MaxCommit
    /\ committed' = committed + 1 /\ inTerm' = TRUE
    /\ UNCHANGED <<postponed, ro, heartbeats, answers, asked, heard, again>>

\* MsgBeat: bcastHeartbeat carries the last context, if there is one.
MsgBeat ==
    /\ ro.queue # <<>>
    /\ heartbeats' = heartbeats \cup Broadcast(lastPendingRequestCtx(ro), ro)
    /\ UNCHANGED <<committed, inTerm, postponed, ro, answers, asked, heard, again>>

\* MsgHeartbeatResp with a context; the answer may come again.
HeartbeatResp(h) ==
    LET c == h.ctx
        acked == recvAck(ro, h.to, c)
    IN  /\ h \in heartbeats
        /\ heard' = [k \in Contexts |->
                        IF k \in h.queued \cap Queued(ro) THEN heard[k] \cup {h.to} ELSE heard[k]]
        /\ IF JointVoteResult(Acks(acked, c)) = VoteWon
           THEN /\ ~advancePanics(acked, c)
                /\ ro' = advance(acked, c)
                /\ answers' = answers \cup
                      Answer([k \in Confirmed(acked, c) |-> acked.pending[k].index])
           ELSE ro' = acked /\ UNCHANGED answers
        /\ UNCHANGED <<committed, inTerm, postponed, heartbeats, asked, again>>

\* The network loses everything that is under way.  (A single heartbeat that
\* is lost is one whose answer never comes.)
Lose ==
    /\ heartbeats # {}
    /\ heartbeats' = {}
    /\ UNCHANGED <<committed, inTerm, postponed, ro, answers, asked, heard, again>>

Next ==
    \/ \E c \in Contexts : MsgReadIndex(c)
    \/ Commit \/ CommitOwn
    \/ MsgBeat
    \/ \E h \in heartbeats : HeartbeatResp(h)
    \/ Lose

Spec == Init /\ [][Next]_vars

\* The ticker beats again and again, and of the heartbeats sent to a voter
\* again and again one is answered in the end.
Fairness ==
    /\ WF_vars(MsgBeat)
    /\ \A id \in IDs \ {Self}, c \in Contexts :
           SF_vars(\E h \in heartbeats : h.to = id /\ h.ctx = c /\ HeartbeatResp(h))

FairSpec == Spec /\ Fairness

-----------------------------------------------------------------------------
(* Properties.                                                             *)

\* read_only.go:70: the queue and the map hold the same reads, each one once,
\* so that advance never panics, also when a read is asked again while it is
\* postponed or pending, or after it was answered.
QueueIsMap ==
    /\ Queued(ro) = DOMAIN ro.pending
    /\ Len(ro.queue) = Cardinality(Queued(ro))

HeardQuorum(c) == JointVoteResult([id \in heard[c] |-> TRUE]) = VoteWon

\* A read leaves the queue only when a quorum has answered heartbeats that were
\* sent after it was queued, although the heartbeat need not have been its own;
\* as long as no read was queued again after its answer, when acknowledgements
\* of the old heartbeats with its context confirm it and all before it.
LeavesConfirmed ==
    [][~again' => \A c \in Queued(ro) \ Queued(ro') : HeardQuorum(c)']_vars

\* A read is answered with an index that is not before the commit index of the
\* time the client first asked, and that the leader had committed, however
\* often it asks and whenever it is taken in.
ReadFresh == \A a \in answers : asked[a.ctx] <= a.index /\ a.index <= committed

\* A read that was taken in leaves the queue and is answered, although
\* heartbeats get lost, only the context of the last one is sent again and
\* others are queued behind it.
ReadAnswered == \A c \in Contexts : (c \in Queued(ro)) ~> (c \notin Queued(ro) /\ c \in Answered)

\* raft.go:44: ReadOnlySafe makes reads linearizable by asking a quorum.  Every
\* read that was answered had a quorum answer heartbeats that were sent after
\* it was taken in.  (What the run that expects a violation checks: IsSingleton
\* returns TRUE whatever the configuration is.)
ReadConfirmed == \A c \in Answered : HeardQuorum(c)
=============================================================================
