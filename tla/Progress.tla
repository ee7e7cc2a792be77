------------------------------ MODULE Progress ------------------------------
(***************************************************************************)
(* What a leader keeps of one follower (raft/tracker/progress.go), and     *)
(* every step of raft.go that reads or changes it: stepLeader's handling   *)
(* of MsgAppResp, MsgHeartbeatResp and MsgUnreachable, and maybeSendAppend.*)
(*                                                                         *)
(* Around it: the leader's storage, to which the application appends and   *)
(* which it compacts, and the follower, whose handleAppendEntries answers  *)
(* any MsgApp ever sent; the answers may be lost, repeated, delayed and    *)
(* reordered.  The window of messages under way is the set that Inflights  *)
(* implements (InflightWindow).                                            *)
(***************************************************************************)
EXTENDS Naturals, FiniteSets

CONSTANTS
    Size,      \* ProgressTracker.MaxInflight
    MaxIndex   \* bound: the last index the leader's log may reach

ASSUME ProgressAssumption == Size \in Nat \ {0} /\ MaxIndex \in Nat

StateProbe     == "StateProbe"
StateReplicate == "StateReplicate"
StateSnapshot  == "StateSnapshot"

VARIABLES
    pr,         \* the Progress, Inflights as the set of outstanding indices
    firstIndex, lastIndex,   \* of the leader's raftLog
    agree,      \* the follower's log agrees with the leader's up to here
    sent,       \* MsgApps sent so far, see Messages
    panicked    \* a panic ended the process

vars == <<pr, firstIndex, lastIndex, agree, sent, panicked>>

Max(a, b) == IF a > b THEN a ELSE b
Min(a, b) == IF a > b THEN b ELSE a

-----------------------------------------------------------------------------
(* The methods of Progress.                                                *)

ResetState(p, s) ==
    [p EXCEPT !.ProbeSent = FALSE, !.PendingSnapshot = 0, !.State = s, !.Inflights = {}]

BecomeProbe(p) ==
    [ResetState(p, StateProbe) EXCEPT
        !.Next = IF p.State = StateSnapshot THEN Max(p.Match + 1, p.PendingSnapshot + 1)
                 ELSE p.Match + 1]

\* Mutant of BecomeReplicate: Next stays where the probe was.
BecomeReplicateAhead(p) == ResetState(p, StateReplicate)

BecomeReplicate(p) == [ResetState(p, StateReplicate) EXCEPT !.Next = p.Match + 1]

\* MaybeUpdate returns true exactly when p.Match < n.
MaybeUpdate(p, n) ==
    [p EXCEPT !.Match = Max(p.Match, n), !.Next = Max(p.Next, n + 1),
              !.ProbeSent = @ /\ ~(p.Match < n)]

\* MaybeDecrTo returns true exactly when this holds ...
Decreases(p, rejected) ==
    IF p.State = StateReplicate THEN rejected > p.Match ELSE p.Next - 1 = rejected

\* ... and then makes the Progress this.
MaybeDecrTo(p, rejected, matchHint) ==
    IF p.State = StateReplicate
    THEN [p EXCEPT !.Next = p.Match + 1]
    ELSE [p EXCEPT !.Next = Max(Min(rejected, matchHint + 1), 1), !.ProbeSent = FALSE]

\* Mutant of IsPaused: one message more than the window holds.
PausedLate(p) ==
    \/ p.State = StateProbe /\ p.ProbeSent
    \/ p.State = StateReplicate /\ Cardinality(p.Inflights) > Size
    \/ p.State = StateSnapshot

IsPaused(p) ==
    \/ p.State = StateProbe /\ p.ProbeSent
    \/ p.State = StateReplicate /\ Cardinality(p.Inflights) = Size
    \/ p.State = StateSnapshot

FreeLE(p, to) == [p EXCEPT !.Inflights = {x \in @ : x > to}]
FreeFirstOne(p) == [p EXCEPT !.Inflights = {x \in @ : \E y \in @ : y < x}]

-----------------------------------------------------------------------------
(* raft.go: sending to the follower.                                       *)

\* maybeSendAppend finds the entries it needs compacted.
Compacted(p) == p.Next <= lastIndex /\ p.Next < firstIndex

\* maybeSendAppend(to, sendIfEmpty) gets as far as r.send.
Sends(p, sendIfEmpty) ==
    ~IsPaused(p) /\ ~Compacted(p) /\ (p.Next <= lastIndex \/ sendIfEmpty)

\* Mutant of AfterSend: the next index one too far.
AfterSendPast(p, sendIfEmpty) ==
    IF ~Sends(p, sendIfEmpty) \/ p.Next > lastIndex THEN p
    ELSE IF p.State = StateReplicate
         THEN [p EXCEPT !.Next = lastIndex + 2, !.Inflights = @ \cup {lastIndex}]
         ELSE [p EXCEPT !.ProbeSent = TRUE]

\* What it makes of the Progress.  limitSize does not limit: a message
\* carries every entry from Next on.
AfterSend(p, sendIfEmpty) ==
    IF ~Sends(p, sendIfEmpty) \/ p.Next > lastIndex THEN p
    ELSE IF p.State = StateReplicate
         THEN [p EXCEPT !.Next = lastIndex + 1, !.Inflights = @ \cup {lastIndex}]
         ELSE [p EXCEPT !.ProbeSent = TRUE]

\* handleAppendEntries answers a message with its last index if the follower
\* has an entry of that term at its Index, and rejects it if not.
Accepts(index) == index <= agree

\* The message it sends: the index before its entries, the last of them, and
\* whether the follower is behind it now, so that it may reject it.
Messages(p, sendIfEmpty) ==
    IF Sends(p, sendIfEmpty)
    THEN {[Index |-> p.Next - 1, Last |-> Max(p.Next - 1, lastIndex), Behind |-> ~Accepts(p.Next - 1)]}
    ELSE {}

\* The snapshot that a follower behind firstIndex needs: IsEmptySnap is true
\* of every snapshot, so maybeSendAppend panics.
NeedsSnapshot(p) == ~IsPaused(p) /\ Compacted(p) /\ p.RecentActive

\* The Progress becomes p; then sendAppend(follower) if send, and then the
\* loop over maybeSendAppend(follower, false) if drain, which sends at most
\* once, as a message leaves no entry for the next one.
Update(p, send, drain) ==
    LET q == IF send THEN AfterSend(p, TRUE) ELSE p
    IN  /\ pr' = IF drain THEN AfterSend(q, FALSE) ELSE q
        /\ sent' = sent \cup (IF send THEN Messages(p, TRUE) ELSE {})
                        \cup (IF drain THEN Messages(q, FALSE) ELSE {})
        /\ panicked' = (send /\ NeedsSnapshot(p))
        /\ UNCHANGED <<firstIndex, lastIndex, agree>>

-----------------------------------------------------------------------------
(* The storage of the leader and that of the follower.                     *)

\* A Progress in StateProbe, with some Next to try (nothing in the repository
\* creates one yet).
Init ==
    /\ lastIndex \in 0 .. MaxIndex /\ firstIndex = 1
    /\ \E next \in 1 .. lastIndex + 1 :
          pr = [Match |-> 0, Next |-> next, State |-> StateProbe, PendingSnapshot |-> 0,
                RecentActive |-> FALSE, ProbeSent |-> FALSE, Inflights |-> {}]
    /\ agree \in 0 .. lastIndex
    /\ sent = {} /\ panicked = FALSE

\* MemoryStorage.Append: an entry more.
StorageAppend ==
    /\ ~panicked /\ lastIndex < MaxIndex
    /\ lastIndex' = lastIndex + 1
    /\ UNCHANGED <<pr, firstIndex, agree, sent, panicked>>

\* MemoryStorage.Compact(i): the entries up to i are gone.
StorageCompact(i) ==
    /\ ~panicked /\ firstIndex <= i /\ i <= lastIndex
    /\ firstIndex' = i + 1
    /\ UNCHANGED <<pr, lastIndex, agree, sent, panicked>>

\* The follower's storage gets entries of a message that its log accepts, or
\* only some of them: raftLog.append, which handleAppendEntries relies on,
\* stores nothing.
FollowerStores(i) ==
    /\ ~panicked /\ agree < i
    /\ \E m \in sent : Accepts(m.Index) /\ i <= m.Last
    /\ agree' = i
    /\ UNCHANGED <<pr, firstIndex, lastIndex, sent, panicked>>

-----------------------------------------------------------------------------
(* What makes the leader send, or change the Progress.                     *)

\* bcastAppend, after a proposal or a commit that another follower caused
\* (raftLog.append, which a proposal calls, appends nothing), and the
\* sendAppend of a leader transfer to a follower that is not up to date.
BcastAppend == ~panicked /\ Update(pr, TRUE, FALSE)

\* What the acknowledgement of n makes of a Progress with the new Match.
Acknowledged(p, n) ==
    CASE p.State = StateProbe -> BecomeReplicate(p)
      [] p.State = StateSnapshot /\ p.Match >= p.PendingSnapshot -> BecomeReplicate(BecomeProbe(p))
      [] p.State = StateReplicate -> FreeLE(p, n)
      [] OTHER -> p

\* MsgAppResp, not rejected: the follower's answer to a message whose Index
\* it has, with the last index of the message, or with its committed index,
\* which an earlier message raised, if that is beyond the Index.
\* maybeCommit's verdict depends on the other followers too.
AppRespAccept(n, commits) ==
    LET p == MaybeUpdate([pr EXCEPT !.RecentActive = TRUE], n)
    IN  /\ ~panicked
        /\ \E m \in sent : Accepts(m.Index) /\ n <= m.Last
        /\ \/ pr.Match < n /\ Update(Acknowledged(p, n), commits \/ IsPaused(pr), TRUE)
           \/ pr.Match >= n /\ Update(p, FALSE, FALSE)

\* Mutant of AppRespReject: BecomeProbe forgotten.
AppRespRejectNoProbe(m, probe) ==
    LET p == [pr EXCEPT !.RecentActive = TRUE]
    IN  /\ ~panicked /\ m.Behind /\ probe <= m.Index
        /\ Update(IF Decreases(p, m.Index) THEN MaybeDecrTo(p, m.Index, probe) ELSE p,
                  Decreases(p, m.Index), FALSE)

\* MsgAppResp, rejected: the follower had no entry of that term at m.Index
\* when it got the message.  findConflictByTerm makes of its RejectHint some index to probe, at most
\* m.Index.
AppRespReject(m, probe) ==
    LET p == [pr EXCEPT !.RecentActive = TRUE]
        q == MaybeDecrTo(p, m.Index, probe)
    IN  /\ ~panicked /\ m.Behind /\ probe <= m.Index
        /\ \/ Decreases(p, m.Index)
              /\ Update(IF q.State = StateReplicate THEN BecomeProbe(q) ELSE q, TRUE, FALSE)
           \/ ~Decreases(p, m.Index) /\ Update(p, FALSE, FALSE)

\* MsgHeartbeatResp; the readOnly part of it is another component.
HeartbeatResp ==
    LET p == [pr EXCEPT !.RecentActive = TRUE, !.ProbeSent = FALSE]
        full == p.State = StateReplicate /\ Cardinality(p.Inflights) = Size
    IN  /\ ~panicked
        /\ Update(IF full THEN FreeFirstOne(p) ELSE p, pr.Match < lastIndex, FALSE)

MsgUnreachable ==
    /\ ~panicked /\ pr.State = StateReplicate
    /\ Update(BecomeProbe(pr), FALSE, FALSE)

Next ==
    \/ StorageAppend
    \/ \E i \in 1 .. MaxIndex : StorageCompact(i)
    \/ \E i \in 1 .. MaxIndex : FollowerStores(i)
    \/ BcastAppend
    \/ \E n \in 0 .. MaxIndex, commits \in BOOLEAN : AppRespAccept(n, commits)
    \/ \E m \in sent, probe \in 0 .. MaxIndex : AppRespReject(m, probe)
    \/ HeartbeatResp
    \/ MsgUnreachable

Spec == Init /\ [][Next]_vars

-----------------------------------------------------------------------------
(* Properties.                                                             *)

\* The types.  StateSnapshot is never reached: see NeedsSnapshot.
TypeOK ==
    /\ pr \in [Match : 0 .. MaxIndex, Next : 1 .. MaxIndex + 1,
               State : {StateProbe, StateReplicate}, PendingSnapshot : {0},
               RecentActive : BOOLEAN, ProbeSent : BOOLEAN, Inflights : SUBSET (1 .. MaxIndex)]
    /\ firstIndex \in 1 .. MaxIndex + 1
    /\ lastIndex \in 0 .. MaxIndex
    /\ agree \in 0 .. MaxIndex
    /\ sent \subseteq [Index : 0 .. MaxIndex, Last : 0 .. MaxIndex, Behind : BOOLEAN]
    /\ panicked \in BOOLEAN

\* What the leader believes is within its log, so that entries() and slice()
\* are never asked for what is beyond lastIndex, whatever the follower
\* answered and in whatever order.
WithinLog ==
    /\ pr.Match <= lastIndex /\ pr.Next <= lastIndex + 1
    /\ \A m \in sent : m.Index <= m.Last /\ m.Last <= lastIndex

\* The window of messages under way is exactly between what the follower has
\* and what is sent next: an acknowledgement, a rejection or a loss never
\* leaves an index in it that is already acknowledged or not yet sent, and
\* outside of StateReplicate it is empty.  So indices are added to it in order,
\* as progress.go:32 demands: the last index of a message is never below Next.
WindowBetween ==
    /\ pr.Inflights \subseteq pr.Match + 1 .. pr.Next - 1
    /\ pr.State = StateReplicate => pr.Match < pr.Next
    /\ pr.State # StateReplicate => pr.Inflights = {}

\* Inflights.Add never finds the window full ("cannot add into a Full
\* inflights"): IsPaused is asked before every message with entries.
RoomToAdd == Cardinality(pr.Inflights) <= Size

\* While it replicates optimistically, the leader skips no entry: each one
\* between Match and Next was in some message it sent.
NothingSkipped ==
    pr.State = StateReplicate =>
        \A i \in pr.Match + 1 .. pr.Next - 1 : \E m \in sent : m.Index < i /\ i <= m.Last
=============================================================================
