# MyRaftKV: a TLA+ verification project

MyRaftKV (`src/`, Go) is a key-value store built on a Raft-like protocol. It holds two
implementations of the protocol side by side:

* package `node`: the cluster that `main.go` starts. Every process is one `Node`, talks to its
  peers over the gRPC service of `node.proto`, and keeps its items in memory and in a redis hash.
* package `raft` (with `tracker` and `quorum`): a Raft library in the style of etcd, work in
  progress. Its parts are complete enough to be modelled one by one; the package as a whole does
  not compile at this commit, and nothing calls it yet.

Beside them stand a write-ahead log (`server/storage/wal`, `pkg/ioutil`, `pkg/crc`), a small state
machine driver (`state`), and wiring (`main.go`, `db`, `logger`, generated gRPC code).

## 1. Inventory

| Component | State it keeps | Operations | What is hard |
|---|---|---|---|
| Node, election (`node/node.go`, `node_client.go`, `node_server.go`) | `Term`, `state`, `leaderId`, `OathAcceptNum` | `timeout`, `election`, `SendElectionRequest`, handler `Election` | one goroutine per peer sharing the loop variable; 300 ms deadlines against late answers; handlers that change `Term` and `state` while `election` waits |
| Node, heartbeats | `CommitIndex`, per-peer `commitIndex` | `leaderSendHeart`, `SendHeart`, handler `Heart` | delayed commit notices, no term check on them |
| Node, replication | `ItemList`, `AcceptIndex`, per-peer `acceptIndex`, redis hash | `AppendLog`, `AppendEntry`, `SendAppendEntry`, its catch-up goroutine, handler `Append`, `CheckAcceptId`, `CheckCommitId` | handlers of one node that overlap around `HSet` without a lock; late, repeated and reordered calls; answers booked under another peer; HSet that fails after it was applied; restart with an empty log |
| `raft/tracker`: Inflights | ring buffer `start`, `count`, `buffer` | `Add`, `FreeLE`, `FreeFirstOne`, `reset` | wrap-around while the buffer grows |
| `raft/tracker`: Progress | `Match`, `Next`, `State`, `ProbeSent`, `PendingSnapshot` | `MaybeUpdate`, `MaybeDecrTo`, `Become*` | late and repeated rejections |
| `raft/quorum`, ProgressTracker | `Votes`, voter sets | `VoteResult`, `CommittedIndex`, `RecordVote`, `TallyVotes` | joint configurations; map iteration order |
| `raft/read_only.go` and the read path of `raft.go` | pending reads, their acknowledgements, queue | `addRequest`, `recvAck`, `advance`, `MsgReadIndex`, `MsgHeartbeatResp` | a deposed leader that does not know it yet; late acknowledgements |
| `raft/log.go`, `log_unstable.go`, `storage.go` | stable and unstable entries, snapshot, `committed`, `applied` | `maybeAppend`, `commitTo`, `slice`, `Append`, `Compact`, `CreateSnapshot`, ... | boundaries between compacted, stored and unstable parts; an application that compacts between two calls of the storage |
| `raft/raft.go` | `Term`, `Vote`, `lead`, `state`, `msgs`, timers | `Step`, `stepLeader/Candidate/Follower`, `campaign`, `tick*` | the whole protocol |
| `raft/node.go`, `rawnode.go` | channels, current `Ready` | `run`, `Propose`, `Advance`, `Stop`, `Status` | everyone waiting on everyone |
| `state` | current state, `switchC` | `run`, `SwitchTo`, `StartAt`, `Stop` | a goroutine that sends to its own channel |
| WAL: encoder, decoder, page writer, file pipeline | buffers, offsets | `encode`, `decode`, `Write`, `Flush`, `alloc` | page boundaries, framing |

Interaction: in `node`, a leader's `AppendLog` calls its own `Append` handler and then
`AppendEntry`, whose goroutines call the peers' `Append`; the answers move `AcceptIndex` and
`CommitIndex`, and the next heartbeat or append to a peer carries the commit notice. In `raft`,
`node.run` feeds messages to `raft.Step`, which uses the tracker to pace `MsgApp`, the quorum
functions to commit and to elect, and `readOnly` to confirm reads.

What makes each part correct is stated in the modules as named properties (section 4); the
hazards they answer to are listed in `PROJECT.json`, each at its line.

## 2. Plan

The order is by importance to what the program does when it is started.

1. **`NodeCluster`** (done): the running cluster. Composes everything of package `node`.
2. **`InflightWindow`, `Inflights`** (done): abstract window and the ring that implements it.
3. **`Progress`** (done): a leader's view of one follower over an unreliable network, with the
   window as the set that `InflightWindow` stands for.
4. **`JointQuorum`**, composed into **`VoteTally`** and **`ReadIndex`** (done): vote counting, and
   the read path that uses it.
5. **`LogWindow`, `MemoryStorage`, `RaftLog`** (done): the abstract log, the storage that implements
   it, and the two-part log over it beside an application that compacts.
6. **`RaftStep`** (done): `Step` and the three step functions for a small cluster.
7. **`RunLoop`** (done): the goroutine that owns the instance, its channels, and who waits on whom.
8. **`WalWriter`** (done): what reaches the file after any sequence of records and flushes.
9. `StateMachine` (`state`): a goroutine that sends to the channel it reads from.
10. The reading side of the WAL (`decoder.go`, `file_pipeline.go`), once it compiles.

Theorems worth having: the inductive invariants and the safety properties of 1 to 8, and the
refinements of 2 and 5 (done, section 5). What is left to model checking is named there.

## 3. Modules and the code they model

### NodeCluster

State: the fields of `Node` and `WorkNode`, by node, under the source's names; the redis hash; for
the goroutines, `polling`, `oathCalls` and `hung` (`election`), `hearts` (`leaderSendHeart`),
`appendCalls` (`AppendEntry`) and `appending` (handlers of `Append` that wait for redis); and the gRPC
requests and answers on their way. `cast` (history) records votes since `Term` was last lowered.

Actions: `Timeout`, `ElectionStart`/`ElectionEnd` (`election` before and after `wg.Wait()`),
`SendElectionRequest`, `ElectionDialFails`, `ElectionReply`, `ElectionCallTimeout`, handler `Election`;
`LeaderSendHeart`, `SendHeart`, `HeartsSent`, handler `Heart`; `AppendLog`, `SendAppendEntry`,
handler `Append` (`AppendReject`; `AppendCheck`, `HSet`, then `AppendDone` or `AppendError`),
`AppendReplyOK`, `CatchUp`, `AppendCallTimeout`, `AppendCallCut`, `AppendCallOver`; `Restart`.

What is one step:

* `Heart` and `Election` wait for nothing from their first read to their answer and are one step each.
* `Append` calls redis between its pre-item check and its writes, with no lock, while gRPC runs other
  handlers of the node: the check, redis's `HSet`, and what follows its answer are steps of their own,
  and any number of `Append`s of a node (a client's `AppendLog` at a leader included) overlap. So an
  index may stand in a log twice, also behind a later one, and the tail may go back; the properties
  below are those that survive this.
* Data races on single fields, and the element that two unlocked `append`s to one slice may lose, are
  not modelled: each step's reads and writes are atomic.
* An `HSet` that is on its way when its process dies has been applied by then or never is.

How it abstracts:

* A gRPC call is request, handling, answer; the caller may give up in between (also while the handler
  waits for redis, whose context ends with the call's), and the request may still be handled then. A
  lost message is one that is never handled.
* A goroutine of `election` whose `Dial` fails ends without `wg.Done` (node.go:249-251); `hung` says so,
  and `wg.Wait()` does not return any more.
* The loop variable that the goroutines of `election` and `AppendEntry` share (`go 1.17`) is a
  choice: goroutine *i* sees peer *i* or a later one, and `AppendEntry`'s reads it twice.
* The wall clock is left out: a node's timer may expire at any time. So two candidates are never
  kept apart by their timers, which the code does not do on purpose either (no random timeout).
* `loop` at this commit only logs; the schedule that calls `timeout`, `election` and
  `leaderSendHeart` is the commented-out text of `loop` (node.go:200-214), and the client's write
  is the commented-out `AppendLog` (raft_server.go:35-49). The operations themselves are live code.
* The zero item that `GetTailItem` and `GetPreItem` return for an empty log and the `init` item of
  `CreateNode` differ only in `Log`, which no condition reads; both are `ZeroItem`.
* `Term` and the indices are `uint`, sent as `uint32`; the bounds keep them far from the width.

### InflightWindow, Inflights

`InflightWindow` is what the tracker promises the leader: a set of outstanding indices, at most
`size`, freed from below. `Inflights` is `inflights.go`: `start`, `count`, `buffer`, with the
doubling `grow()`, the wrap-around, and the loop of `FreeLE` as the number of positions it passes.
The callers' obligations are guards: indices are added in order (progress.go: "index
的添加必须是有序的"), `Add` only with room (`IsPaused`), `FreeFirstOne` only on a full window
(raft.go:516). `Size` is at least 1: with 0 `FreeFirstOne` would read an empty buffer.

### Progress

`pr` is the struct `Progress` of one follower, with `Inflights` as a set; `firstIndex` and
`lastIndex` are the leader's log; `sent` are all `MsgApp`s ever sent. The methods are operators that
take a `Progress` to the next one, `Update` is `sendAppend` and the loop of `maybeSendAppend`, and
the actions are what stepLeader does with a `Progress`: `AppRespAccept`, `AppRespReject`,
`HeartbeatResp`, `MsgUnreachable`, and `BcastAppend` for everything that only sends.

* A message stays in `sent` and may be answered at any time, any number of times, or never. The
  follower accepts it if its log agrees up to `Index` (`agree`) when it answers, and a rejection may
  be delivered at any time after it was behind (`Behind`).
* `raftLog.append` is a stub: it stores nothing, in the leader (`MsgProp`) and in the follower
  (`maybeAppend`). So the logs grow by their storage (`StorageAppend`, `FollowerStores`), and a
  follower may acknowledge what it does not keep.
* `limitSize` does not limit: a message carries every entry from `Next` on.
* `IsEmptySnap` is true of every snapshot, so sending one panics and `StateSnapshot` is not reached;
  `panicked` ends the behaviour.
* `stepFollower` does not call `handleAppendEntries` yet, `stepCandidate` does; either way the
  answers are those of `handleAppendEntries`. `leadTransferee` is in `RaftStep`.

### JointQuorum, VoteTally, ReadIndex

`JointQuorum` holds `VoteResult` and `CommittedIndex` of a majority and of a joint configuration;
`CommittedIndex` does not sort, so it is the set of what it may return. `VoteTally` records
votes as `raft.poll` does. `ReadIndex` is `readOnly` (`ro`: the map and the queue) with its callers:
`MsgReadIndex` (with `pendingReadIndexMessages`), `Commit` (a `MsgAppResp` that commits, with
`releasePendingReadIndexMessages`), `CommitOwn` (the commit of `appendEntry`, raft.go:201, which releases
nothing), `MsgBeat`, `HeartbeatResp`, and `Lose` (external), a network that drops what is under way. It
models one leadership, with `heard` as history of who answered since a read was queued. A client may
repeat a read with its context at any time, also after it was answered; `again` (history) says that one
was queued again then, from where on acknowledgements of its old heartbeats count for it and the reads
before it. A read may be answered more than once, with different indices.

What `trk.IsSingleton()` returns is the constant `IsSingleton`: the code returns true always (a stub),
its comment says "when there is one voter". With the code's value every read is answered at once and
`ReadConfirmed` is violated: the run of that name. The run Quorum takes the value that the comment gives
several voters, as the rest of the read path is dead code otherwise; the theorems on freshness and on
queue and map hold for either.

### LogWindow, MemoryStorage, RaftLog

`LogWindow` is what `Storage` promises: the terms of a contiguous run of indices whose lowest is kept
for matching only. `MemoryStorage` is `storage.go`; its methods hold the mutex, so each is one step.
`RaftLog` extends it by the fields of `raftLog` and `unstable`, with two actors:

* the goroutine of the instance: `HandleAppendEntries`, `HandleHeartbeat`, `HandleSnapshot`,
  `MaybeCommit`, `CommittedEntryInCurrentTerm`, `LastTerm`, `Hup` (the slice of a campaign), a read of
  entries (`ReadStart`), and `NewLog`, a new instance over the same storage (a restart). The mutex covers
  single calls of the storage only, so a handler is a chain of steps with one call each: `call` says
  which is next, for which argument, and what its answer is for. `raftLog.term` is three
  (`TermFirstIndex`, `TermLastIndex`, `TermStored`), `slice` three as well (`SliceFirst`, `SliceLast`,
  `SliceEntries`), and the application may act between any two. `Resume` gives the answer of `term` to
  the handler that asked.
* the application (external, there is none in the repository): it stores entries of leaders that
  have everything committed, applies what is committed, compacts up to what it applied, and takes
  and applies snapshots, as the comments of `storage.go` demand of it.

A panic ends the instance (`panicked`, with its cause) until `NewLog`. `raftLog.append` stores nothing
and `stableTo` has no caller, so `unstable.entries` is always empty. `MemoryStorage.snapshot` starts
without metadata; reading its index then is a nil dereference (`"nil metadata"`). Sizes are left out:
`limitSize` does not limit.

`call.meanwhile` (history) remembers what the application did to the storage since the running
`raftLog.term` began. Two reads are one step with what follows: `lastIndex` in `commitTo` and the
assignment of `committed`, as what is committed there is committed in the cluster and the application
only stores logs that hold it, and the first `lastIndex` of `entries`, which is read again at once.
`raftLog.applied` is set when the log is made and never moves. So `hup` reads from there, and panics when
the application has compacted since (`"unapplied"`); storage.go:139 forbids to compact beyond `applied`,
which read strictly would forbid every compaction: the model lets the application compact up to what it
has itself applied.

### RaftStep

`r[n]` is the struct `raft` of node `n`, `msgs` the network, which loses and reorders. Handlers are
operators from an instance and a message to the set of results (next instance and what it sends), under
the source's names; `Receive` is `RawNode.Step` or `run`, and `Tick`, `Campaign`, `Propose` and
`TransferLeadership` are the calls of the application. `raftLog.append` stores nothing, so a node's
log is the constant `Log`. Three things shape what is reachable at this commit:

* `send` insists that only vote messages carry a term; every other message has term 0 and is
  treated as local. Terms are only compared for votes, and a candidate that hears from a leader
  falls back to term 0.
* `campaign` swaps pre-vote and vote: with `preVote` off an election timeout ends in a panic, with it
  on the candidate asks for real votes.
* A granted vote is answered with `Reject: true`, so only the sole voter of its configuration becomes
  leader. `Sole` starts so and is given the other nodes by `ApplyConfChange` (external).

`reigned` is history: who has been leader. `sendAppend` sends from any index that `Progress` may have
reached (pacing is in `Progress`), and `maybeCommit` takes any index that `CommittedIndex` may return.

### RunLoop

`node.run` and the callers of `Node`'s methods. Channels are unbuffered, so a send and its receive are
one step; the result channel of a proposal holds one answer. The actions are the cases of the select
(`Take*`, `GiveReady`), the sends inside of them (`SendResult`, `SendStatus`: `run` is busy in between),
and the cases of the callers' selects (`ReceiveResult`, `ContextDone`, `SeeDone`). What `Step` does to the
instance is any change that keeps the messages not handed out yet. `newReady` fills in `Entries` only,
which decides what `HasReady` sees afterwards. `newNode` and `NewRawNode` leave the channels, `rn` and
`prevSoftSt` nil at this commit; the model is of an instance that is wired up as `run` expects.

### WalWriter

`encoder` over `PageWriter`. A byte is its position in the stream of encoded bytes, so that loss,
repetition and reordering show in what the file took. The file (external) may take a part of a write
and fail. An operation has a set of outcomes, one per way the file may behave.

## 4. Runs

All bounds are named constants of the modules. `MaxTerm`, `MaxItems` and `MaxRestarts` bound what
happens; `MaxCalls`, `MaxHearts` and `MaxDead` bound what is in flight at a time. `CHECK_DEADLOCK
FALSE` is used where a bounded cluster comes to rest when its bounds are used up.

| Run | Instance | Shows |
|---|---|---|
| Replication | 3 nodes, 1 leader, 2 items, 1 append and 1 heart in flight, 2 handlers of a node waiting for redis at a time | `LogWellFormed`, `CommitWithinLog`, `CommittedHeldTwice` |
| Restart | 2 nodes that both stand, terms to 2, 1 item, 1 restart, Dial, election and append calls unreliable, fairness | `TypeOK`, `VoteOnce`, `Persisted`, `ElectionReturns` |
| Progress | window of 2, log of 4, 4 different messages | `WithinLog`, `WindowBetween`, `RoomToAdd`, `NothingSkipped` |
| Quorum | voters {1,2,3} and {1,3} jointly; all votes of a campaign; 2 reads, 2 commits, 1 postponed, fairness | `OneWinner`, `ResultIsVerdict`, `VerdictFinal`, `QueueIsMap`, `ReadFresh`, `LeavesConfirmed`, `ReadAnswered` |
| RaftLog | indices to 2, terms to 3 | `CommitWithinLog`, `PanicsKnown`, `CommittedUnchanged`, refinement `WindowSpec` |
| RaftStep | 2 nodes, terms to 2, 2 messages under way, 1 transfer, both settings of `preVote` and `checkQuorum`, fairness | `PanicsKnown`, `LeadHasReigned`, `LeaderUndisturbed`, `VoteKept`, `TransferEnds` |
| RunLoop | one caller of each kind, calling again and again, fairness | `OneReadyAtATime`, `AnswerTruthful`, `CallsReturn` |
| WalWriter | words of 2, sectors of 4, pages of 8, watermark 10, records of 1, 6 and 17, 40 bytes, 1 failure | `NothingReordered`, `NoOverrun`, `LengthNotTorn`, `PageChunks` |
| Inflights | ring of 5, indices 1..8 | `WriteInRange`, `CountOutstanding`, refinement `WindowSpec` |

Why the bounds are enough: two standers and two terms give every order of an old and a new
election, and a restart of the voter or of the candidate; two items give an item that is replicated,
one that is not, an index appended twice and a catch-up; one append in flight is enough for overtaking,
as two handlers of a node wait for redis beside it; a ring of five grows 1, 2, 4, 5 and wraps with
and without gaps; a log of four entries fills a window of two after the entry that started replication;
two reads confirm each other in either direction, beside one voter whom a
quorum needs and one whom it does not; two indices give a
compacted boundary and a stored or replaced entry behind it, and three terms an older, the present and a
newer leader (three indices take TLC too long now that every call of the storage is a step; the theorems
cover all lengths); two messages under way overtake each other, and two terms let a
candidate outrun the leader; the records are smaller than a word, about a page and more than two
pages, and 40 bytes cross five pages. `HSet` itself fails in the run Restart only when its caller gave
up; the proofs have it fail at any time. What is proved (section 5) needs no bounds.

Fairness (`ElectionFairness`, weak, per node): the Go scheduler runs `election`'s goroutines and the
loop that waits for them, and the context of every call ends. Nothing is assumed of the network, the
peers or the timers. Under it `ElectionReturns` holds: an election ends unless a `Dial` of it failed; the
mutant without deadlines breaks it. `Fairness` of
`ReadIndex`: the leader's ticker beats again and again (`tickHeartBeat`), and of the heartbeats sent
to a voter again and again with one context one is answered (strong fairness of the network, which
may lose any number of them). `FairSpec` of `RaftStep`: the ticker goes on during a transfer; nothing is
assumed of the network or the transferee. `Fairness` of `RunLoop`: weak fairness of the goroutines,
strong fairness of the cases of `run`'s select (Go chooses among the ready ones at random), and
contexts end while nobody takes the call; nothing is assumed of the application, which may keep a
Ready forever.

### Where the code disagrees with what is said of it

Runs that expect a violation, each with a finding in `PROJECT.json`.

| Run | Property | What TLC shows |
|---|---|---|
| OneLeader | `OneLeaderPerTerm` | A candidate grants a newer term while it polls, and `election()` then makes it leader in that term. It takes a voter that stood once before: node 2 (term 1 after a failed election of its own) stands for term 2 while node 0 polls in term 1. |
| ReadConfirmed | `ReadConfirmed` | With `IsSingleton` true as in the code, the first read of a leader of three voters is answered without any of them (tracker.go:38, against its comment and raft.go:44). |
| ReadExact | `ReadExact` | Index 1 is stored, committed and applied; a read passes the checks of `slice`, the application compacts index 1, and `Entries` returns the dummy without data as the entry asked for (storage.go:55, against storage.go:138). |

Seen while modelling, without a run of its own:

* `AppendEntry`'s goroutines share the loop variable, so one peer's answer is booked as another's
  `acceptIndex` (node.go:321). The model has it; the replication properties hold in spite of it.
* The commit notice needs no majority (node_client.go:99): one answer is enough for it, so what is
  committed is held by two nodes (`CommittedHeldTwice`), which is no majority of four. And only the
  index is: two leaders' items of one index differ.
* `CheckCommitId` counts what peers report and does not look at the leader's own log (node.go:275), so
  `CommitWithinLog` speaks of nodes that no peer has accepted an item from.
* Two `Append`s of one index append it twice, and the later one may land behind a later item
  (node_server.go:61-72).
* The catch-up goroutine and `GetPreItem` send the first item with itself as its predecessor, which
  the mock server of the tests rejects (node_client_test.go:38).
* On a Dial error a goroutine of `election()` ends without `wg.Done` (node.go:249-251) and the node's
  loop stays in `wg.Wait()`; `ElectionReturns` names it as the one way not to return. (`grpc.Dial`
  without `WithBlock` fails only on malformed targets.)
* After a commit by the leader's own append (raft.go:201) a postponed read, repeated, is answered while
  its first request still waits, and is answered again with another index later.
* `raftLog.term` may find an index in range and then compacted or gone (log.go:222-229), which panics
  for the hint of a rejection (raft.go:826), and in `lastTerm` and `zeroTermOnErrCompacted` when the
  tail was replaced meanwhile.
* `reset` keeps the pending reads of an earlier leadership (raft.go:165); without effect while only a
  sole voter can be elected.
* `maybeSendAppend` panics for a follower whose entries were compacted (`NeedsSnapshot`).
* `Append` takes over a lower `Term` from a late entry (node_server.go:73), against the comment of
  its test (node_server_test.go:192); the node may then vote again in that term.
* While probing, a late rejection of a matched index moves `Next` back to `Match` (progress.go:114),
  against the comment at progress.go:103.
* `raftLog.append` stores nothing: a follower acknowledges entries it does not keep, may commit an
  entry that differs from the leader's, and panics in `commitTo` when the commit index passes its log.
* `raft.restore` fast-forwards to a snapshot it already holds and restores it all the same
  (raft.go:880), which hides the log behind it; `unstable.snapshot` is never cleared; `applied` is
  never advanced, so `hup` panics after a compaction.
* Terms fall back to 0 (raft.go:657, 660), after which a node may vote again in a term. Granted votes
  are refusals (raft.go:377). An election timeout without pre-vote panics (raft.go:160, 308).
* `CommittedIndex` returns the index of an arbitrary voter (majority.go:58). `uncommittedSize` is never
  reset (comment raft.go:115).
* `newReady` hands out neither messages, states nor reads, and `acceptReady` drops the messages; with
  a leader `HasReady` stays true.
* `PageWriter.Write` returns no error when its flush failed (pagewriter.go:64), and advances
  `pageOffset` by what it meant to write.
* `decodeFrameSize` returns the record's size for the padding too (decoder.go:94); the methods of
  `crc.digest` have value receivers, so the checksum does not accumulate (crc.go:15, 25).

## 5. Proofs

Machine-checked with TLAPS: every safety invariant and every action property that a passing run checks,
and both refinements, for every number of nodes, every set of values and every bound. The inductive invariants that are not among the runs' own
invariants were checked with TLC on the runs' instances, or smaller ones, before they were proved.

**`NodeClusterProofs`**

* `TypeCorrect`; `VoteOnceCorrect`. `VoteOnce` is not inductive: it needs that no recorded vote is
  above the node's `Term` (`VoteInv`), so that a granted or own term, being above `Term`, is new.
* `LogsCorrect` and `CommitCorrect`, from the inductive `ReplicationInv`. A handler that has passed its
  check appends behind whatever the tail is by then, so the invariant says of every such handler that
  its item follows one that the node holds (`HandlersSound`): items never leave a log, so that stays
  true whatever other handlers do, and the log has no gap. `TablesFromAnswers` ties a booked
  `commitIndex` to a booked `acceptIndex`, which is where `CommitWithinLog` stops.
* `PersistedCorrect`, from `PersistInv`: what redis has applied for a handler that has not gone on is in
  the hash, so that the append behind it finds it there; the item's predecessor is held (above) and so
  in the hash, which therefore has no gap.
* `CommittedIsHeldTwice`, from `SpreadInv`: until a process restarts, every index that a table, an answer
  or a notice calls accepted or committed is in the logs of two nodes, and what a request carries is in
  its sender's log: the chain a write takes through the cluster, for any number of leaders.

**`InflightsProofs`**: `WriteCorrect` (no index-out-of-range in `Add`), `CountCorrect`, and
`RingImplementsWindow`, that the ring implements the abstract window. Inductive invariant
`InflightsInv`: every position of the window exists in the buffer (`Stored`) and the window is
ascending across the wrap (`Ascending`).

**`ProgressProofs`**: `WithinLogCorrect`, `WindowCorrect`, `RoomCorrect`, `NothingSkippedCorrect`, from
the inductive `IInv`. Its part `Sound` speaks of any `Progress` and any set of messages, so that it
can be carried through a handler method by method: each of them, and each send, keeps it
(`BecomeSound`, `FreedSound`, `SendSound`), and `UpdateSound` combines them.

**`QuorumProofs`**, for all pairs of finite voter sets

* Votes: `VerdictCorrect`, `OneWinnerCorrect` and the action property `VerdictIsFinal`, by counting
  those who granted, refused and have not answered; an answer only moves voters from the last of
  these sets to one of the others (`Extends`).
* Reads: `QueueStaysMap` and `ReadsAreFresh` from `RInv`: the queue has no repetitions and is the
  domain of the map (`RoSound`), and a read's index is between the commit index when it was first
  asked and the present one from its entry to its answer (`ReadsSound`), also for one that is postponed,
  repeated or answered again. The action property `ReadsLeaveConfirmed` needs `HInv`: until a read is
  queued again after its answer, who acknowledged a read has answered a heartbeat sent since each
  earlier read was queued (`HeardSound`, `BeatsCover`), which is why `advance` may release them all.

**`RaftLogProofs`**: `CommitStaysWithinLog`, `PanicsStayKnown`, the action property
`CommittedStaysUnchanged`, and `StorageImplementsWindow`, that `MemoryStorage` in the hands of instance
and application implements `LogWindow`. The invariant: `ents` is a run of consecutive
indices behind one dummy (`StorageSound`); the commit index lies in the storage, or is that of the
restored snapshot (`LogSound`); what the application applied is stored, and a restored snapshot agrees
with it (`AppSound`), without which a restart after restoring would lose committed entries; and what a
handler knows between two calls of the storage (`CallSound`): what it carries from its message, which
no application changes (`JobSound`: the entries left are above the commit index, so that no conflict is
with what is committed), and what `raftLog.term` has found out so far, unless the application has been at
the storage since (`StageSound`). The last is why a missing term is excused by `call.meanwhile` only.

**`RaftStepProofs`**: `PanicsStayKnown`, `LeadersHaveReigned`, and the action properties `VotesAreKept`
and `LeadersAreUndisturbed`. The invariant speaks of an instance (`InstOK`), of a message (`MsgOK`), and
of what relates them: who sent `MsgApp` or `MsgHeartbeat` has led, and who asked for votes is not leader
and cannot win any more, as granted votes are refusals (`NetworkOK`); without a transfer nothing of one
is under way (`CalmOK`). Every handler is shown to do only what `Good` allows, and a step of the cluster
is one such result at one node (`TakeGood`). A leader is undisturbed because its own lease never runs
out: `tickHeartBeat` resets `electionElapsed` before it reaches the timeout.

**`RunLoopProofs`**: `OneReady` and `AnswersAreTruthful`, for any number of callers, from `ReadySound`
and `ResultSound`: a channel with an answer has that of the present call, and a call that `run` has not
taken has none, so a late answer to a call that was given up cannot reach the next one.

**`WalWriterProofs`**: `NothingIsReordered`, `NeverOverrun`, `LengthsAreNotTorn` and the action property
`FileEndsAtPages`, for all sizes of words, sectors, pages, buffers and records. `NoOverrun` is not
inductive: partial-page writes may go over the watermark again and again, and what bounds them is that
the excess is at most the part of a page that was begun (`Room`). The others need that file and buffer
are the stream that was encoded (`Good`), that `pageOffset` is where the file ends in its page
(`Aligned`), and that frames begin at multiples of a word (`FramesAligned`). `WriteOK` carries them
through the cases of `Write`.

Assumptions, all of them named and evaluated by TLC: at least one node (`NAssumption`), a positive size
(`SizeAssumption`), indices that are natural numbers (`IndicesAssumption`), a positive window and a
natural bound (`ProgressAssumption`), finite voter sets (`VotersAssumption`), a leader among the voters
and natural bounds (`ReadIndexAssumption`), positive bounds (`BoundsAssumption`), a null
value that is no snapshot (`SnapshotAssumption`), what `Config.validate`
demands of the timeouts (`TimeoutAssumption`), a finite set of nodes with logs of terms
(`NodesAssumption`), and sectors of whole words, pages of whole sectors and a buffer of at least a page,
as the constants of the code are (`WalAssumption`).

Where an argument goes by induction (`releasePendingReadIndexMessages`), it rests on the least element
of a set of numbers (`LeastNatural`), as the library's induction theorems take an operator.

Only model-checked: all liveness (`ElectionReturns`, `ReadAnswered`, `TransferEnds`, `CallsReturn`), as
fairness is out of the prover's reach; and `OneLeaderPerTerm`, `ReadConfirmed` and `ReadExact`, which the
code violates.

## 6. Not modelled

Generated code (`*.pb.go`), loggers, the redis connection wrapper, `main.go`'s flags and
configuration, `DBAppend` (a stub), `datadir`, `fileutil`, `pbutil`, plain readers. `SetHardState`, as
nothing reads what it saves; the checksum of a record. The reading side of the WAL does not compile.
Planned and not there yet: items 9 and 10 of the plan. Data races in the sense of the Go memory model
(section 3, NodeCluster) are outside of it.
