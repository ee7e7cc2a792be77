--------------------------- MODULE MemoryStorage ---------------------------
(***************************************************************************)
(* raft/storage.go: the log kept in memory.  ents[1] is the dummy entry    *)
(* (ents[0] in Go): the index and term of the last compacted entry,        *)
(* without its data.  Every method holds the mutex, so each is one step.   *)
(***************************************************************************)
EXTENDS Integers, Sequences

CONSTANT NoSnapshot    \* Snapshot.Metadata = nil

ASSUME SnapshotAssumption == NoSnapshot \notin [Index : Nat, Term : Nat]

VARIABLES ents,        \* MemoryStorage.ents
          snapshot     \* MemoryStorage.snapshot.Metadata

storageVars == <<ents, snapshot>>

Entry(i, t) == [Index |-> i, Term |-> t, Data |-> TRUE]
Dummy(i, t) == [Index |-> i, Term |-> t, Data |-> FALSE]

StorageOffset == ents[1].Index
StorageFirstIndex == ents[1].Index + 1
StorageLastIndex == ents[1].Index + Len(ents) - 1

(* The outcome of a read: the answer, one of the two errors, or a panic. *)
Found(t) == [err |-> "nil", term |-> t]
Failed(e) == [err |-> e, term |-> 0]

StorageTerm(i) ==
  IF i < StorageOffset THEN Failed("ErrCompacted")
  ELSE IF i - StorageOffset >= Len(ents) THEN Failed("ErrUnavailable")
  ELSE Found(ents[i - StorageOffset + 1].Term)

Run(es) == [err |-> "nil", ents |-> es]
NoRun(e) == [err |-> e, ents |-> <<>>]

(* The bound is lo < offset: with lo = offset the dummy is part of the run. *)
StorageEntries(lo, hi) ==
  IF lo < StorageOffset THEN NoRun("ErrCompacted")
  ELSE IF hi > StorageLastIndex + 1 THEN NoRun("panic")
  ELSE IF Len(ents) = 1 THEN NoRun("ErrUnavailable")
  ELSE Run(SubSeq(ents, lo - StorageOffset + 1, hi - StorageOffset))

StorageInit ==
  /\ ents = <<Dummy(0, 0)>>
  /\ snapshot \in {NoSnapshot, [Index |-> 0, Term |-> 0]}

(* es is the argument; what is already compacted is cut off its front, and *)
(* what the log holds from its first index on is replaced.                 *)
FromFirst(es) == LET first == StorageFirstIndex
                     skip == IF first > es[1].Index THEN first - es[1].Index ELSE 0
                 IN  SubSeq(es, skip + 1, Len(es))

(* Entries behind the last index are not appended: Append panics ("missing *)
(* log entry"), and the application does not call it so.                   *)
StorageAppend(es) ==
  /\ es # <<>>
  /\ es[1].Index + Len(es) - 1 >= StorageFirstIndex
  /\ LET new == FromFirst(es)
         offset == new[1].Index - StorageOffset
     IN  /\ Len(ents) >= offset
         /\ ents' = SubSeq(ents, 1, offset) \o new
  /\ UNCHANGED snapshot

\* Mutant of CompactedTo: the boundary's term is lost.
CompactedToZero(i) ==
  LET at == i - StorageOffset + 1
  IN  <<Dummy(ents[at].Index, 0)>> \o SubSeq(ents, at + 1, Len(ents))

CompactedTo(i) ==
  LET at == i - StorageOffset + 1
  IN  <<Dummy(ents[at].Index, ents[at].Term)>> \o SubSeq(ents, at + 1, Len(ents))

StorageCompact(i) ==
  /\ i > StorageOffset
  /\ i =< StorageLastIndex
  /\ ents' = CompactedTo(i)
  /\ UNCHANGED snapshot

StorageCreateSnapshot(i) ==
  /\ snapshot # NoSnapshot
  /\ i >= snapshot.Index
  /\ i =< StorageLastIndex
  /\ i >= StorageOffset
  /\ snapshot' = [Index |-> i, Term |-> ents[i - StorageOffset + 1].Term]
  /\ UNCHANGED ents

StorageApplySnapshot(s) ==
  /\ snapshot # NoSnapshot
  /\ snapshot.Index < s.Index
  /\ snapshot' = s
  /\ ents' = <<Dummy(s.Index, s.Term)>>
=============================================================================
