------------------------------ MODULE RaftLog ------------------------------
(***************************************************************************)
(* raft/log.go and log_unstable.go over raft/storage.go: the log of one    *)
(* raft instance.  The goroutine of the instance handles messages and      *)
(* reads entries; the application, in another goroutine, stores, applies,  *)
(* compacts and takes snapshots.  Only single calls of the storage are     *)
(* guarded by its mutex, so every handler is a chain of steps with one     *)
(* call of the storage each, and the application may act between any two.  *)
(* raftLog.term alone is three: FirstIndex, LastIndex, Term.               *)
(*                                                                         *)
(* raftLog.append is a stub that stores nothing: unstable.entries is       *)
(* always empty and unstable consists of snapshot and offset.              *)
(***************************************************************************)
EXTENDS MemoryStorage, FiniteSets

CONSTANTS MaxIndex,   \* bound: largest index of an entry
          MaxTerm     \* bound: largest term of an entry

ASSUME BoundsAssumption == MaxIndex \in Nat \ {0} /\ MaxTerm \in Nat \ {0}

Indices == 1 .. MaxIndex
Terms   == 1 .. MaxTerm

VARIABLES committed,  \* raftLog.committed
          applied,    \* raftLog.applied
          offset,     \* unstable.offset
          usnapshot,  \* unstable.snapshot.Metadata
          call,       \* the handler under way: which call of the storage is next (at),
                      \* for an argument (i), and what its answer is for (job)
          appApplied, \* what the application has applied (external)
          panicked    \* "no", or the panic that ended the instance

logVars == <<committed, applied, offset, usnapshot>>
vars == <<ents, snapshot, committed, applied, offset, usnapshot, call, appApplied, panicked>>

Min(a, b) == IF a > b THEN b ELSE a

(* Entries from+1 .. Len(ts) of a leader's log, whose terms are ts. *)
EntriesOf(ts, from) == [k \in 1 .. Len(ts) - from |-> Entry(from + k, ts[from + k])]

(* A leader's log: its terms never decrease. *)
LeaderLogs == {ts \in UNION {[1 .. n -> Terms] : n \in Indices} :
                 \A i, j \in DOMAIN ts : i =< j => ts[i] =< ts[j]}

----------------------------------------------------------------------------
(* What the log answers at one moment.                                     *)

(* unstable.maybeFirstIndex and maybeLastIndex, when there is a snapshot *)
maybeFirstIndex == usnapshot.Index + 1
maybeLastIndex  == usnapshot.Index

firstIndex == IF usnapshot # NoSnapshot THEN maybeFirstIndex ELSE StorageFirstIndex
lastIndex  == IF usnapshot # NoSnapshot THEN maybeLastIndex ELSE StorageLastIndex

(* unstable.maybeTerm; at or above offset only unstable.entries could      *)
(* answer, and indexing the empty slice panics.                            *)
MaybeTerm(i) ==
  IF usnapshot = NoSnapshot THEN Failed("none")
  ELSE IF i < offset
       THEN IF usnapshot.Index = i THEN Found(usnapshot.Term) ELSE Failed("none")
       ELSE IF i > usnapshot.Index THEN Failed("none") ELSE Failed("panic")

(* The answer of raftLog.term if the application does nothing meanwhile. *)
TermNow(i) ==
  IF i < firstIndex - 1 \/ i > lastIndex THEN Found(0)
  ELSE IF MaybeTerm(i).err # "none" THEN MaybeTerm(i)
  ELSE StorageTerm(i)

----------------------------------------------------------------------------
(* Handlers, step by step.                                                 *)

(* No handler is under way. *)
Idle == [at |-> "idle", i |-> 0, job |-> [name |-> "none"], meanwhile |-> {}]

Running == panicked = "no" /\ call = Idle

(* The next call of the storage, ... *)
Then(at, i, job) ==
  /\ call' = [at |-> at, i |-> i, job |-> job, meanwhile |-> {}]
  /\ UNCHANGED <<logVars, panicked>>

(* ... the end of the handler, and a panic in the middle of it. *)
Return == call' = Idle /\ UNCHANGED <<logVars, panicked>>
Panic(why) == panicked' = why /\ UNCHANGED <<logVars, call>>

(* raftLog.term begins. *)
AskTerm(i, job) == Then("FirstIndex", i, job)

(* commitTo: its call of lastIndex, if there is anything to commit. *)
commitTo(c) == IF committed < c THEN Then("commitTo", c, [name |-> "commitTo"]) ELSE Return

\* Mutant of commitToChecked: the range check is dropped.
commitToUnchecked(c) ==
  committed' = c /\ call' = Idle /\ UNCHANGED <<applied, offset, usnapshot, panicked>>

(* ... and the rest of it.  (What a message commits is committed in the     *)
(* cluster, so that what the application stores between the call and the   *)
(* assignment holds it: they are one step.)                                *)
commitToChecked(c) ==
  IF lastIndex < c
  THEN Panic("commitTo")
  ELSE committed' = c /\ call' = Idle /\ UNCHANGED <<applied, offset, usnapshot, panicked>>

(* findConflict over the entries es that are left, then the commit. *)
findConflict(es, c) ==
  IF es = <<>> THEN commitTo(c)
  ELSE AskTerm(es[1].Index, [name |-> "findConflict", es |-> es, commit |-> c])

(* The switch of maybeAppend, with a conflict at ci. *)
conflictAt(ci, c) == IF ci =< committed THEN Panic("conflict") ELSE commitTo(c)

\* Mutant of handleAppendEntries: entries below committed are looked at.
handleAppendEntriesBelow(index, logTerm, es, commit) ==
  /\ Running
  /\ AskTerm(index, [name |-> "maybeAppend", index |-> index, logTerm |-> logTerm, es |-> es,
                     commit |-> Min(commit, index + Len(es))])

(* raft.handleAppendEntries, for a message of any leader, however late. *)
handleAppendEntries(index, logTerm, es, commit) ==
  /\ Running
  /\ index >= committed
  /\ AskTerm(index, [name |-> "maybeAppend", index |-> index, logTerm |-> logTerm, es |-> es,
                     commit |-> Min(commit, index + Len(es))])

HandleAppendEntries ==
  \E ts \in LeaderLogs : \E index \in 0 .. Len(ts), commit \in 0 .. Len(ts) :
    handleAppendEntries(index, IF index = 0 THEN 0 ELSE ts[index], EntriesOf(ts, index), commit)

HandleHeartbeat == \E c \in Indices : Running /\ c > committed /\ commitTo(c)

(* raftLog.maybeCommit of a leader whose term is t. *)
MaybeCommit ==
  \E i \in Indices, t \in Terms :
    Running /\ i > committed /\ AskTerm(i, [name |-> "maybeCommit", term |-> t])

(* Reads of the log that change nothing: committedEntryInCurrentTerm, and  *)
(* lastTerm for a campaign or for isUpToDate.                              *)
CommittedEntryInCurrentTerm ==
  Running /\ AskTerm(committed, [name |-> "committedEntryInCurrentTerm"])

LastTerm == Running /\ Then("lastTerm", 0, [name |-> "lastTerm"])

\* Mutant of restore: a snapshot below committed is restored as well.
restoreAny(s) ==
  /\ Running
  /\ AskTerm(s.Index, [name |-> "restore", snap |-> s])

(* raft.restore of a follower that the snapshot's configuration names. *)
restore(s) ==
  /\ Running
  /\ s.Index > committed
  /\ AskTerm(s.Index, [name |-> "restore", snap |-> s])

(* A snapshot is of committed entries: it agrees with what was applied. *)
HandleSnapshot ==
  \E i \in Indices, t \in Terms :
    /\ i \in StorageOffset .. appApplied => StorageTerm(i) = Found(t)
    /\ restore([Index |-> i, Term |-> t])

unstableRestore(s) == usnapshot' = s /\ offset' = s.Index + 1

logRestore(s) ==
  /\ committed' = s.Index /\ unstableRestore(s) /\ call' = Idle
  /\ UNCHANGED <<applied, panicked>>

----------------------------------------------------------------------------
(* What a handler does with the answer of raftLog.term.                    *)

Is(name) == call.job.name = name

(* zeroTermOnErrCompacted panics on an error that is another one. *)
zeroTermPanics(found) == found.err \notin {"nil", "ErrCompacted"}

(* maybeAppend: matchTerm, to which an error is as good as a wrong term.   *)
(* The rejection looks the term up once more, for the log.                 *)
MatchedPrevious(found) ==
  /\ Is("maybeAppend")
  /\ IF found = Found(call.job.logTerm)
     THEN findConflict(call.job.es, call.job.commit)
     ELSE AskTerm(call.job.index, [name |-> "reject", index |-> call.job.index,
                                   logTerm |-> call.job.logTerm])

MatchedEntry(found) ==
  LET e == call.job.es[1]
  IN  /\ Is("findConflict")
      /\ IF found = Found(e.Term)
         THEN findConflict(Tail(call.job.es), call.job.commit)
         ELSE Then("findConflict", e.Index, call.job)

(* findConflict logs the term that conflicts. *)
LoggedConflict(found) ==
  /\ Is("logConflict")
  /\ IF zeroTermPanics(found) THEN Panic("zeroTerm") ELSE conflictAt(call.i, call.job.commit)

LoggedReject(found) ==
  /\ Is("reject")
  /\ IF zeroTermPanics(found) THEN Panic("zeroTerm") ELSE Then("hintIndex", 0, call.job)

(* The loop of findConflictByTerm, and the term of the index it ends at. *)
WentBack(found) ==
  /\ Is("findConflictByTerm")
  /\ IF found.err # "nil" \/ found.term =< call.job.logTerm
     THEN AskTerm(call.i, [name |-> "hintTerm"])
     ELSE AskTerm(call.i - 1, call.job)

HintFound(found) ==
  /\ Is("hintTerm")
  /\ IF found.err # "nil" THEN Panic("hint") ELSE Return

Counted(found) ==
  /\ Is("maybeCommit")
  /\ IF zeroTermPanics(found) THEN Panic("zeroTerm")
     ELSE IF found.term = call.job.term THEN commitTo(call.i)
     ELSE Return

CheckedCommitted(found) ==
  /\ Is("committedEntryInCurrentTerm")
  /\ IF zeroTermPanics(found) THEN Panic("committedEntryInCurrentTerm") ELSE Return

(* A snapshot the log already holds: lastTerm is logged, and committed     *)
(* moved (commitTo), before it is restored all the same.                   *)
MatchedSnapshot(found) ==
  /\ Is("restore")
  /\ IF found = Found(call.job.snap.Term)
     THEN Then("lastTerm", 0, [name |-> "fastForward", snap |-> call.job.snap])
     ELSE logRestore(call.job.snap)

LastTermFound(found) ==
  /\ call.job.name \in {"lastTerm", "fastForward"}
  /\ IF found.err # "nil" THEN Panic("lastTerm")
     ELSE IF Is("lastTerm") THEN Return
     ELSE Then("fastForward", 0, call.job)

Resume(found) ==
  IF found.err = "panic" THEN Panic("unstable")
  ELSE \/ MatchedPrevious(found) \/ MatchedEntry(found) \/ LoggedConflict(found)
       \/ LoggedReject(found) \/ WentBack(found) \/ HintFound(found)
       \/ Counted(found) \/ CheckedCommitted(found)
       \/ MatchedSnapshot(found) \/ LastTermFound(found)

----------------------------------------------------------------------------
(* The calls of the storage.                                               *)

At(at) ==
  /\ panicked = "no"
  /\ call.at = at
  /\ UNCHANGED <<storageVars, appApplied>>

Goto(at) == call' = [call EXCEPT !.at = at] /\ UNCHANGED <<logVars, panicked>>

(* The three of raftLog.term. *)
TermFirstIndex ==
  /\ At("FirstIndex")
  /\ IF call.i < firstIndex - 1 THEN Resume(Found(0)) ELSE Goto("LastIndex")

TermLastIndex ==
  /\ At("LastIndex")
  /\ IF call.i > lastIndex THEN Resume(Found(0))
     ELSE IF MaybeTerm(call.i).err # "none" THEN Resume(MaybeTerm(call.i))
     ELSE Goto("Term")

TermStored == At("Term") /\ Resume(StorageTerm(call.i))

(* lastIndex in commitTo. *)
CommitInRange == At("commitTo") /\ commitToChecked(call.i)

(* findConflict reads lastIndex to decide what it logs. *)
ConflictInRange ==
  /\ At("findConflict")
  /\ IF call.i < lastIndex
     THEN AskTerm(call.i, [name |-> "logConflict", commit |-> call.job.commit])
     ELSE conflictAt(call.i, call.job.commit)

(* The rejection reads lastIndex for its hint, and so does                 *)
(* findConflictByTerm: an index that is out of range is left as it is.     *)
HintIndex == At("hintIndex") /\ Then("hintRange", Min(call.job.index, lastIndex), call.job)

HintInRange ==
  /\ At("hintRange")
  /\ AskTerm(call.i, IF call.i > lastIndex THEN [name |-> "hintTerm"]
                     ELSE [name |-> "findConflictByTerm", logTerm |-> call.job.logTerm])

LastTermIndex == At("lastTerm") /\ AskTerm(lastIndex, call.job)

FastForward ==
  /\ At("fastForward")
  /\ IF lastIndex < call.job.snap.Index THEN Panic("commitTo") ELSE logRestore(call.job.snap)

----------------------------------------------------------------------------
(* Reading entries.                                                        *)

Slice(at, lo, hi, for) == Then(at, lo, [name |-> for, hi |-> hi])

(* raftLog.entries: nothing from beyond the log, and lastIndex once more. *)
ReadStart(i) ==
  /\ Running
  /\ i =< lastIndex
  /\ Slice("entries", i, 0, "entries")
  /\ UNCHANGED <<storageVars, appApplied>>

ReadUpTo ==
  /\ At("entries")
  /\ IF call.i > lastIndex + 1 THEN Panic("slice")
     ELSE Slice("sliceFirst", call.i, lastIndex + 1, "entries")

(* raft.hup looks for changes of the configuration that are not applied. *)
Hup == Running /\ Slice("sliceFirst", applied + 1, committed + 1, "hup")

(* slice fails on what was compacted; only hup panics then. *)
SliceCompacted == IF Is("hup") THEN Panic("unapplied") ELSE Return

(* mustCheckOutOfBounds, its two calls. *)
SliceFirst ==
  /\ At("sliceFirst")
  /\ IF call.i < firstIndex THEN SliceCompacted ELSE Goto("sliceLast")

SliceLast ==
  /\ At("sliceLast")
  /\ IF call.job.hi > lastIndex + 1 THEN Panic("slice")
     ELSE IF call.i = call.job.hi THEN Return
     ELSE IF call.i >= offset THEN Panic("slice")    \* unstable.entries should hold it
     ELSE Goto("Entries")

(* The part of slice that the storage answers. *)
StoredPart == StorageEntries(call.i, Min(call.job.hi, offset))

(* What lies at or above offset, unstable.entries should hold. *)
SliceEntries ==
  /\ At("Entries")
  /\ IF StoredPart.err = "ErrCompacted" THEN SliceCompacted
     ELSE IF StoredPart.err # "nil" \/ call.job.hi > offset THEN Panic("slice")
     ELSE Return

----------------------------------------------------------------------------
(* newLogWithSize: a new instance over what the storage holds. *)
NewLog ==
  /\ committed' = StorageFirstIndex - 1
  /\ applied' = StorageFirstIndex - 1
  /\ offset' = StorageLastIndex + 1
  /\ usnapshot' = NoSnapshot
  /\ call' = Idle
  /\ panicked' = "no"
  /\ UNCHANGED <<storageVars, appApplied>>

----------------------------------------------------------------------------
(* The application (external), and the methods of the storage it calls.    *)

(* What it does between one call of raftLog.term and the next is remembered *)
(* (history), if it can matter to those that follow.                       *)
Meanwhile(what, stages) ==
  /\ call' = IF call.at \in stages THEN [call EXCEPT !.meanwhile = @ \cup {what}] ELSE call
  /\ UNCHANGED <<logVars, panicked>>

appUnchanged == UNCHANGED <<logVars, call, panicked>>

(* A snapshot that the instance restored is saved before anything else. *)
SnapshotSaved == usnapshot # NoSnapshot => StorageOffset >= usnapshot.Index

(* It applies in order what is committed and it has stored. *)
AppApply ==
  /\ panicked = "no"
  /\ SnapshotSaved
  /\ appApplied < Min(committed, StorageLastIndex)
  /\ appApplied' = appApplied + 1
  /\ appUnchanged /\ UNCHANGED storageVars

(* It stores entries of a leader that has everything committed or applied  *)
(* here (log.go:184 panics otherwise).                                     *)
Settled == IF committed > appApplied THEN committed ELSE appApplied

Keeps(es) ==
  /\ \A k \in DOMAIN es : es[k].Index =< Settled /\ es[k].Index > StorageOffset
                            => StorageTerm(es[k].Index) \in {Found(es[k].Term), Failed("ErrUnavailable")}
  /\ es[Len(es)].Index >= Min(Settled, StorageLastIndex)

AppStores ==
  /\ panicked = "no"
  /\ SnapshotSaved
  /\ \E ts \in LeaderLogs : \E from \in 0 .. Len(ts) - 1 :
       /\ Keeps(EntriesOf(ts, from))
       /\ StorageAppend(EntriesOf(ts, from))
  /\ Meanwhile("stored", {"Term"}) /\ UNCHANGED appApplied

AppCompacts ==
  /\ panicked = "no"
  /\ \E i \in 0 .. appApplied : StorageCompact(i)
  /\ Meanwhile("compacted", {"LastIndex", "Term"}) /\ UNCHANGED appApplied

AppPanic == panicked' = "nil metadata" /\ UNCHANGED <<storageVars, logVars, call, appApplied>>

AppCreatesSnapshot ==
  /\ panicked = "no"
  /\ IF snapshot = NoSnapshot
     THEN AppPanic
     ELSE StorageCreateSnapshot(appApplied) /\ appUnchanged /\ UNCHANGED appApplied

AppAppliesSnapshot ==
  /\ panicked = "no"
  /\ usnapshot # NoSnapshot
  /\ IF snapshot = NoSnapshot
     THEN AppPanic
     ELSE /\ StorageApplySnapshot(usnapshot)
          /\ appApplied' = usnapshot.Index
          /\ appUnchanged

----------------------------------------------------------------------------
Init ==
  /\ StorageInit
  /\ committed = 0 /\ applied = 0 /\ offset = 1 /\ usnapshot = NoSnapshot
  /\ call = Idle /\ appApplied = 0 /\ panicked = "no"

Receive ==
  /\ HandleAppendEntries \/ HandleHeartbeat \/ MaybeCommit \/ HandleSnapshot
       \/ CommittedEntryInCurrentTerm \/ LastTerm \/ Hup
  /\ UNCHANGED <<storageVars, appApplied>>

Read == (\E i \in Indices : ReadStart(i)) \/ ReadUpTo \/ SliceFirst \/ SliceLast \/ SliceEntries

Next ==
  \/ Receive
  \/ TermFirstIndex \/ TermLastIndex \/ TermStored
  \/ CommitInRange \/ ConflictInRange \/ HintIndex \/ HintInRange
  \/ LastTermIndex \/ FastForward
  \/ Read
  \/ NewLog
  \/ AppApply \/ AppStores \/ AppCompacts \/ AppCreatesSnapshot \/ AppAppliesSnapshot

Spec == Init /\ [][Next]_vars

----------------------------------------------------------------------------
(* Properties.                                                             *)

(* What is committed is in the log, and nothing beyond it counts as        *)
(* applied (log.go:18), although the application replaces the tail of the  *)
(* storage under it and commits arrive from leaders in any order.          *)
CommitWithinLog == applied =< committed /\ committed =< lastIndex

(* No message makes a log panic because it conflicts with what is          *)
(* committed (log.go:184), the term of the commit index can always be told *)
(* (raft.go:934), and no index is looked up in the empty unstable.entries. *)
(* A term that must be known (log.go:163, log.go:253, raft.go:826) is      *)
(* missing only if the application was at the storage while raftLog.term   *)
(* looked for it: it replaced the tail, or, for the hint of a rejection    *)
(* only, compacted.  What can panic besides is a commit index beyond the   *)
(* log, a read at or above unstable.offset or of a tail that is replaced   *)
(* meanwhile, a campaign after a compaction, and a snapshot without        *)
(* metadata.                                                               *)
PanicsKnown ==
  /\ panicked \in {"no", "commitTo", "slice", "unapplied", "nil metadata",
                   "hint", "zeroTerm", "lastTerm"}
  /\ panicked \in {"zeroTerm", "lastTerm"} => "stored" \in call.meanwhile
  /\ panicked = "hint" => call.meanwhile # {}

(* storage.go:138: Compact deletes the entries below compactIndex.  So a   *)
(* read that has passed the checks of slice gets, unless it fails, the     *)
(* entries it asked for, with their data.                                  *)
ReadExact ==
  call.at = "Entries" /\ StoredPart.err = "nil" =>
    \A k \in DOMAIN StoredPart.ents :
      StoredPart.ents[k].Index = call.i + k - 1 /\ StoredPart.ents[k].Data

(* A step never changes the term of an index that is committed before and  *)
(* after it, as far as both logs reach: appends over the tail, compaction  *)
(* (which keeps the boundary's term, storage.go:17) and snapshots.         *)
CommittedUnchanged ==
  [][\A i \in Indices :
       /\ i =< committed /\ i =< committed'
       /\ i >= firstIndex - 1 /\ i >= firstIndex' - 1
       => TermNow(i)' = TermNow(i)]_vars

(* The storage implements the abstract window: the term of every index     *)
(* from the boundary on, under appends, compactions and snapshots.         *)
Window == INSTANCE LogWindow WITH
            log <- [i \in StorageOffset .. StorageLastIndex |-> ents[i - StorageOffset + 1].Term]
WindowSpec == Window!Spec
=============================================================================
