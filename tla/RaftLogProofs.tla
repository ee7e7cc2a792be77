--------------------------- MODULE RaftLogProofs ---------------------------
(***************************************************************************)
(* That the properties of RaftLog hold for every length of the log and     *)
(* every number of terms, and that the storage implements LogWindow.       *)
(*                                                                         *)
(* StorageSound says what MemoryStorage.ents is: a run of consecutive      *)
(* indices behind one dummy.  LogSound ties the instance to the storage or *)
(* to the snapshot it has restored.  AppSound ties the application to the  *)
(* storage; its last part, that a restored snapshot agrees with what the   *)
(* application has applied, is what a restart after restoring needs.       *)
(* CallSound is what a handler knows between two calls of the storage:     *)
(* JobSound what it carries from its message, whatever the application     *)
(* does meanwhile, and StageSound what raftLog.term has found out so far,  *)
(* unless the application has been at the storage since.                   *)
(***************************************************************************)
EXTENDS RaftLog, SequenceTheorems, TLAPS

Items == [Index : 0 .. MaxIndex, Term : 0 .. MaxTerm, Data : BOOLEAN]
Metadata == [Index : Indices, Term : Terms]

\* The term stored at index i.
TermAt(i) == ents[i - StorageOffset + 1].Term

\* A snapshot agrees with what the application has applied.
Agrees(s) == s.Index \in StorageOffset .. appApplied => TermAt(s.Index) = s.Term

StorageSound ==
  /\ ents \in Seq(Items) /\ Len(ents) >= 1
  /\ \A k \in 1 .. Len(ents) : ents[k].Index = StorageOffset + k - 1 /\ ents[k].Data = (k > 1)
  /\ StorageOffset = 0 => ents[1].Term = 0

LogSound ==
  /\ committed \in Nat /\ applied \in Nat /\ offset \in Nat
  /\ applied <= committed
  /\ usnapshot = NoSnapshot => committed <= StorageLastIndex
  /\ usnapshot # NoSnapshot =>
       /\ usnapshot \in Metadata
       /\ committed = usnapshot.Index /\ offset = usnapshot.Index + 1

AppSound ==
  /\ appApplied \in StorageOffset .. StorageLastIndex
  /\ usnapshot # NoSnapshot => Agrees(usnapshot)

\* The entries of a MsgApp that are left lie above committed.
EntriesAbove(es) ==
  es \in Seq(Items) /\ \A k \in 1 .. Len(es) : es[k].Index > committed

TermStages == {"FirstIndex", "LastIndex", "Term"}

JobSound(at, i, job) ==
  /\ at = "commitTo" => i \in Nat /\ committed < i
  /\ at = "findConflict" => job.name = "findConflict"
  /\ at = "hintIndex" => job.name = "reject"
  /\ at = "lastTerm" => job.name \in {"lastTerm", "fastForward"}
  /\ at = "fastForward" => job.name = "fastForward"
  /\ job.name \in {"maybeAppend", "findConflict"} => EntriesAbove(job.es) /\ job.commit \in Nat
  /\ job.name = "findConflict" => job.es # <<>> /\ i = job.es[1].Index
  /\ job.name \in {"maybeAppend", "reject"} => job.index \in Int
  /\ job.name = "logConflict" => i > committed /\ job.commit \in Nat
  /\ job.name = "maybeCommit" => i \in Nat
  /\ job.name = "committedEntryInCurrentTerm" => i = committed
  /\ job.name \in {"restore", "fastForward"} =>
       job.snap \in Metadata /\ committed < job.snap.Index /\ Agrees(job.snap)
  /\ job.name \in {"lastTerm", "fastForward"} /\ at \in TermStages /\ usnapshot = NoSnapshot
       => appApplied <= i /\ committed <= i

StageSound(at, i, meanwhile) ==
  /\ at = "LastIndex" =>
       /\ usnapshot # NoSnapshot => i >= usnapshot.Index
       /\ usnapshot = NoSnapshot /\ "compacted" \notin meanwhile => i >= StorageOffset
  /\ at = "Term" =>
       /\ usnapshot = NoSnapshot
       /\ "compacted" \notin meanwhile => i >= StorageOffset
       /\ "stored" \notin meanwhile => i <= StorageLastIndex

CallSound ==
  /\ call = [at |-> call.at, i |-> call.i, job |-> call.job, meanwhile |-> call.meanwhile]
  /\ call.i \in Int
  /\ JobSound(call.at, call.i, call.job)
  /\ StageSound(call.at, call.i, call.meanwhile)

IInv == StorageSound /\ LogSound /\ AppSound /\ CallSound /\ PanicsKnown

-----------------------------------------------------------------------------
(* The storage.                                                            *)

\* Bounds of the stored run.
LEMMA StorageFacts ==
    ASSUME StorageSound
    PROVE  /\ Len(ents) \in Nat \ {0}
           /\ \A k \in 1 .. Len(ents) : ents[k] \in Items
           /\ StorageOffset \in 0 .. MaxIndex
           /\ StorageLastIndex \in StorageOffset .. MaxIndex
           /\ \A i \in StorageOffset .. StorageLastIndex : TermAt(i) \in 0 .. MaxTerm
<1> USE BoundsAssumption
<1>1. Len(ents) \in Nat \ {0} /\ \A k \in 1 .. Len(ents) : ents[k] \in Items
  BY LenProperties, ElementOfSeq DEF StorageSound
<1>2. ents[1] \in Items /\ ents[Len(ents)] \in Items
  BY <1>1
<1>3. StorageOffset \in 0 .. MaxIndex /\ ents[Len(ents)].Index \in 0 .. MaxIndex
  BY <1>2 DEF Items, StorageOffset
<1>4. ents[Len(ents)].Index = StorageOffset + Len(ents) - 1
  BY <1>1 DEF StorageSound
<1>5. StorageLastIndex \in StorageOffset .. MaxIndex
  BY <1>1, <1>3, <1>4 DEF StorageLastIndex, StorageOffset
<1>6. ASSUME NEW i \in StorageOffset .. StorageLastIndex PROVE TermAt(i) \in 0 .. MaxTerm
  <2>1. i - StorageOffset + 1 \in 1 .. Len(ents)
    BY <1>1, <1>3 DEF StorageLastIndex, StorageOffset
  <2> QED BY <1>1, <2>1 DEF Items, TermAt
<1> QED BY <1>1, <1>3, <1>5, <1>6

\* First and last stored index are numbers.
LEMMA StorageBounds == StorageSound => StorageOffset \in Nat /\ StorageLastIndex \in Nat
  BY StorageFacts

\* What a leader's log holds.
LEMMA LeaderLogFacts ==
    ASSUME NEW ts \in LeaderLogs
    PROVE  Len(ts) \in Indices /\ \A i \in 1 .. Len(ts) : ts[i] \in Terms
<1>1. PICK n \in Indices : ts \in [1 .. n -> Terms]
  BY DEF LeaderLogs
<1>2. n \in Nat
  BY DEF Indices
<1>3. ts \in Seq(Terms)
  BY <1>1, <1>2, SeqDef
<1>4. DOMAIN ts = 1 .. n /\ DOMAIN ts = 1 .. Len(ts) /\ Len(ts) \in Nat
  BY <1>1, <1>3, LenProperties
<1>5. Len(ts) = n
  BY <1>2, <1>4
<1> QED BY <1>1, <1>5

\* The entries a MsgApp carries.
LEMMA EntriesFacts ==
    ASSUME NEW ts \in LeaderLogs, NEW from \in 0 .. Len(ts)
    PROVE  /\ EntriesOf(ts, from) \in Seq(Items)
           /\ Len(EntriesOf(ts, from)) = Len(ts) - from
           /\ \A k \in 1 .. Len(ts) - from :
                EntriesOf(ts, from)[k] = [Index |-> from + k, Term |-> ts[from + k], Data |-> TRUE]
<1> DEFINE es == EntriesOf(ts, from)
           n == Len(ts) - from
<1>1. Len(ts) \in 1 .. MaxIndex /\ \A i \in 1 .. Len(ts) : ts[i] \in 1 .. MaxTerm
  BY LeaderLogFacts DEF Indices, Terms
<1>2. n \in Nat
  BY <1>1
<1>3. \A k \in 1 .. n : [Index |-> from + k, Term |-> ts[from + k], Data |-> TRUE] \in Items
  <2> SUFFICES ASSUME NEW k \in 1 .. n
               PROVE  [Index |-> from + k, Term |-> ts[from + k], Data |-> TRUE] \in Items
    OBVIOUS
  <2>1. from + k \in 0 .. MaxIndex /\ from + k \in 1 .. Len(ts)
    BY <1>1, BoundsAssumption
  <2>2. ts[from + k] \in 0 .. MaxTerm
    BY <1>1, <2>1, BoundsAssumption
  <2> QED BY <2>1, <2>2 DEF Items
<1>4. es = [k \in 1 .. n |-> [Index |-> from + k, Term |-> ts[from + k], Data |-> TRUE]]
  BY DEF EntriesOf, Entry
<1>5. es \in [1 .. n -> Items]
  BY <1>3, <1>4
<1>6. es \in Seq(Items)
  BY <1>2, <1>5, SeqDef
<1>7. DOMAIN es = 1 .. n /\ DOMAIN es = 1 .. Len(es) /\ Len(es) \in Nat
  BY <1>5, <1>6, LenProperties
<1>8. Len(es) = n
  BY <1>2, <1>7
<1> QED BY <1>4, <1>6, <1>8

\* MemoryStorage.Append: from some index n on the run is the leader's, below
\* n it is what it was.
LEMMA AppendFacts ==
    ASSUME StorageSound, NEW ts \in LeaderLogs, NEW from \in 0 .. Len(ts) - 1,
           StorageAppend(EntriesOf(ts, from))
    PROVE  /\ StorageSound'
           /\ StorageOffset' = StorageOffset /\ StorageLastIndex' = Len(ts)
           /\ ents'[1] = ents[1]
           /\ \E n \in StorageOffset + 1 .. StorageLastIndex + 1 :
                /\ from < n /\ n <= Len(ts)
                /\ \A i \in StorageOffset .. Len(ts) :
                     TermAt(i)' = IF i < n THEN TermAt(i) ELSE ts[i]
<1> DEFINE es == EntriesOf(ts, from)
           off == StorageOffset
           skip == IF off + 1 > from + 1 THEN off - from ELSE 0
           new == SubSeq(es, skip + 1, Len(es))
           n == from + skip + 1
           cut == SubSeq(ents, 1, n - off)
<1>1. /\ off \in 0 .. MaxIndex /\ StorageLastIndex \in off .. MaxIndex
      /\ StorageLastIndex = off + Len(ents) - 1
      /\ Len(ents) \in Nat \ {0} /\ \A k \in 1 .. Len(ents) : ents[k] \in Items
  BY StorageFacts DEF StorageLastIndex, StorageOffset
<1>2. Len(ts) \in Nat \ {0} /\ from \in 0 .. Len(ts) /\ Len(ts) - from >= 1
  BY LeaderLogFacts DEF Indices
<1>3. /\ es \in Seq(Items) /\ Len(es) = Len(ts) - from
      /\ \A k \in 1 .. Len(ts) - from :
           es[k] = [Index |-> from + k, Term |-> ts[from + k], Data |-> TRUE]
  BY <1>2, EntriesFacts
<1>4. es[1].Index = from + 1
  BY <1>2, <1>3
<1>5. FromFirst(es) = new
  <2>1. StorageFirstIndex = off + 1
    BY DEF StorageFirstIndex, StorageOffset
  <2>2. (IF StorageFirstIndex > es[1].Index THEN StorageFirstIndex - es[1].Index ELSE 0) = skip
    BY <1>1, <1>2, <1>4, <2>1
  <2> HIDE DEF es, skip, off
  <2> QED BY <2>2, Zenon DEF FromFirst
<1>6. Len(ts) >= off + 1
  <2>1. es[1].Index + Len(es) - 1 >= StorageFirstIndex
    BY Zenon DEF StorageAppend
  <2>2. StorageFirstIndex = off + 1
    BY DEF StorageFirstIndex, StorageOffset
  <2> HIDE DEF es, off
  <2> QED BY <1>1, <1>2, <1>3, <1>4, <2>1, <2>2
<1>7. /\ skip \in 0 .. Len(es) - 1 /\ n \in off + 1 .. Len(ts) /\ n > from
      /\ n \in Nat
  BY <1>1, <1>2, <1>3, <1>6
<1> HIDE DEF es, off, skip
<1>8. /\ new \in Seq(Items) /\ Len(new) = Len(ts) - n + 1
      /\ \A k \in 1 .. Len(ts) - n + 1 :
           new[k] = [Index |-> n + k - 1, Term |-> ts[n + k - 1], Data |-> TRUE]
  <2>1. Len(es) \in Nat /\ \A k \in skip + 1 .. Len(es) : es[k] \in Items
    BY <1>2, <1>3, <1>7, ElementOfSeq
  <2>2. /\ new \in Seq(Items) /\ Len(new) = Len(es) - skip
        /\ \A k \in 1 .. Len(es) - (skip + 1) + 1 : new[k] = es[skip + 1 + k - 1]
    BY <1>2, <1>3, <1>7, <2>1, SubSeqProperties
  <2>3. ASSUME NEW k \in 1 .. Len(ts) - n + 1
        PROVE  new[k] = [Index |-> n + k - 1, Term |-> ts[n + k - 1], Data |-> TRUE]
    <3>1. /\ k \in 1 .. Len(es) - (skip + 1) + 1 /\ skip + 1 + k - 1 \in 1 .. Len(ts) - from
          /\ from + (skip + 1 + k - 1) = n + k - 1
      <4>1. skip \in Nat /\ from \in Nat /\ Len(ts) \in Nat /\ Len(es) = Len(ts) - from /\ k \in Nat
        BY <1>2, <1>3, <1>7
      <4>2. 1 <= k /\ k <= Len(ts) - (from + skip + 1) + 1
        BY <4>1
      <4> HIDE DEF n
      <4> QED BY <4>1, <4>2 DEF n
    <3> QED BY <1>3, <2>2, <3>1
  <2>4. Len(es) - skip = Len(ts) - n + 1
    <3>1. skip \in Int /\ from \in Int /\ Len(ts) \in Int /\ Len(es) = Len(ts) - from
      BY <1>2, <1>3, <1>7
    <3> QED BY <3>1
  <2> QED BY <2>2, <2>3, <2>4
<1> HIDE DEF new
<1>9. new[1].Index = n
  <2> HIDE DEF n
  <2>1. n \in Nat /\ 1 \in 1 .. Len(ts) - n + 1 /\ n + 1 - 1 = n
    BY <1>2, <1>7
  <2>2. new[1] = [Index |-> n + 1 - 1, Term |-> ts[n + 1 - 1], Data |-> TRUE]
    BY <1>8, <2>1
  <2> QED BY <2>1, <2>2
<1>10. Len(ents) >= n - off /\ ents' = cut \o new
  BY <1>5, <1>9 DEF StorageAppend, off, es
<1> HIDE DEF n
<1>11. /\ cut \in Seq(Items) /\ Len(cut) = n - off
       /\ \A k \in 1 .. n - off : cut[k] = ents[k]
  <2>1. n - off \in Nat \ {0} /\ \A k \in 1 .. n - off : ents[k] \in Items
    BY <1>1, <1>7, <1>10
  <2>2. /\ cut \in Seq(Items) /\ Len(cut) = n - off - 1 + 1
        /\ \A k \in 1 .. n - off - 1 + 1 : cut[k] = ents[1 + k - 1]
    BY <2>1, SubSeqProperties
  <2> QED BY <2>1, <2>2
<1> HIDE DEF cut
<1>12. /\ ents' \in Seq(Items) /\ Len(ents') = Len(ts) - off + 1
       /\ \A k \in 1 .. Len(ts) - off + 1 :
            ents'[k] = IF k <= n - off THEN ents[k]
                       ELSE [Index |-> off + k - 1, Term |-> ts[off + k - 1], Data |-> TRUE]
  <2>1. /\ ents' \in Seq(Items) /\ Len(ents') = Len(cut) + Len(new)
        /\ \A k \in 1 .. Len(cut) + Len(new) :
             ents'[k] = IF k <= Len(cut) THEN cut[k] ELSE new[k - Len(cut)]
    BY <1>8, <1>10, <1>11, ConcatProperties
  <2>2. Len(cut) + Len(new) = Len(ts) - off + 1
    BY <1>1, <1>2, <1>7, <1>8, <1>11
  <2>3. ASSUME NEW k \in 1 .. Len(ts) - off + 1, k > n - off
        PROVE  ents'[k] = [Index |-> off + k - 1, Term |-> ts[off + k - 1], Data |-> TRUE]
    <3>1. k - (n - off) \in 1 .. Len(ts) - n + 1 /\ n + (k - (n - off)) - 1 = off + k - 1
      BY <1>1, <1>2, <1>7, <2>3
    <3>2. k \in 1 .. Len(cut) + Len(new) /\ ~(k <= Len(cut)) /\ Len(cut) = n - off
      BY <1>1, <1>2, <1>7, <1>11, <2>2, <2>3
    <3>3. ents'[k] = new[k - (n - off)]
      BY <2>1, <3>2
    <3> QED BY <1>8, <3>1, <3>3
  <2>4. ASSUME NEW k \in 1 .. Len(ts) - off + 1, k <= n - off PROVE ents'[k] = ents[k]
    <3>1. k \in 1 .. n - off
      BY <1>1, <1>2, <1>7, <2>4
    <3> QED BY <1>11, <2>1, <2>2, <2>4, <3>1
  <2>5. ASSUME NEW k \in 1 .. Len(ts) - off + 1
        PROVE  ents'[k] = IF k <= n - off THEN ents[k]
                          ELSE [Index |-> off + k - 1, Term |-> ts[off + k - 1], Data |-> TRUE]
    <3>1. k > n - off \/ k <= n - off
      BY <1>1, <1>7
    <3>2. k > n - off => ~(k <= n - off)
      BY <1>1, <1>7
    <3> QED BY <2>3, <2>4, <3>1, <3>2
  <2> QED BY <2>1, <2>2, <2>5
<1>13. ents'[1] = ents[1] /\ StorageOffset' = off
  <2>1. 1 \in 1 .. Len(ts) - off + 1 /\ 1 <= n - off
    BY <1>1, <1>2, <1>7
  <2> QED BY <1>12, <2>1 DEF StorageOffset, off
<1>14. StorageLastIndex' = Len(ts)
  BY <1>1, <1>2, <1>12, <1>13 DEF StorageLastIndex, StorageOffset
<1>15. ASSUME NEW k \in 1 .. Len(ts) - off + 1
       PROVE  ents'[k].Index = off + k - 1 /\ ents'[k].Data = (k > 1)
  <2>1. CASE k <= n - off
    <3>1. k \in 1 .. Len(ents)
      BY <1>1, <1>7, <1>10, <2>1
    <3> QED BY <1>12, <2>1, <3>1 DEF StorageSound, off
  <2>2. CASE ~(k <= n - off)
    <3>1. k > 1
      BY <1>1, <1>7, <2>2
    <3>2. ents'[k] = [Index |-> off + k - 1, Term |-> ts[off + k - 1], Data |-> TRUE]
      BY <1>12, <2>2
    <3>3. (k > 1) = TRUE
      BY <3>1
    <3>4. ents'[k].Index = off + k - 1 /\ ents'[k].Data = TRUE
      BY <3>2
    <3> QED BY <3>3, <3>4, Zenon
  <2> QED BY <2>1, <2>2
<1>16. StorageSound'
  BY <1>1, <1>2, <1>6, <1>12, <1>13, <1>15 DEF StorageSound, off
<1>17. n <= StorageLastIndex + 1
  BY <1>1, <1>7, <1>10
<1>18. ASSUME NEW i \in off .. Len(ts)
       PROVE  TermAt(i)' = IF i < n THEN TermAt(i) ELSE ts[i]
  <2>1. i - off + 1 \in 1 .. Len(ts) - off + 1 /\ off + (i - off + 1) - 1 = i
    BY <1>1, <1>2
  <2>2. (i < n) <=> (i - off + 1 <= n - off)
    BY <1>1, <1>2, <1>7
  <2> QED BY <1>12, <1>13, <2>1, <2>2 DEF TermAt, off
<1> QED BY <1>1, <1>7, <1>13, <1>14, <1>16, <1>17, <1>18 DEF off

\* MemoryStorage.Compact: the run loses its front, and the new boundary keeps
\* its term.
LEMMA CompactFacts ==
    ASSUME StorageSound, NEW i \in Nat, StorageCompact(i)
    PROVE  /\ StorageSound'
           /\ i \in StorageOffset + 1 .. StorageLastIndex
           /\ StorageOffset' = i /\ StorageLastIndex' = StorageLastIndex
           /\ \A j \in i .. StorageLastIndex : TermAt(j)' = TermAt(j)
<1> DEFINE off == StorageOffset
           at == i - off + 1
           dummy == Dummy(ents[at].Index, ents[at].Term)
           rest == SubSeq(ents, at + 1, Len(ents))
<1>1. /\ off \in 0 .. MaxIndex /\ StorageLastIndex \in off .. MaxIndex
      /\ StorageLastIndex = off + Len(ents) - 1
      /\ Len(ents) \in Nat \ {0} /\ \A k \in 1 .. Len(ents) : ents[k] \in Items
  BY StorageFacts DEF StorageLastIndex, StorageOffset
<1>2. i \in off + 1 .. StorageLastIndex /\ ents' = <<dummy>> \o rest
  BY <1>1 DEF StorageCompact, CompactedTo
<1> HIDE DEF off
<1>3. at \in 2 .. Len(ents)
  BY <1>1, <1>2
<1>4. ents[at] \in Items /\ ents[at].Index = i
  <2>1. at \in 1 .. Len(ents) /\ off + at - 1 = i
    BY <1>1, <1>2, <1>3
  <2> HIDE DEF at
  <2>2. ents[at].Index = off + at - 1
    BY <2>1 DEF StorageSound, off
  <2> QED BY <1>1, <2>1, <2>2
<1>5. dummy \in Items /\ dummy = [Index |-> i, Term |-> ents[at].Term, Data |-> FALSE]
  BY <1>4 DEF Dummy, Items
<1> HIDE DEF at, dummy
<1>6. <<dummy>> \in Seq(Items) /\ Len(<<dummy>>) = 1 /\ <<dummy>>[1] = dummy
  BY <1>5
<1>7. /\ rest \in Seq(Items) /\ Len(rest) = Len(ents) - at
      /\ \A k \in 1 .. Len(ents) - at : rest[k] = ents[at + k]
  <2>1. \A k \in at + 1 .. Len(ents) : ents[k] \in Items
    BY <1>1, <1>3
  <2>2. /\ rest \in Seq(Items)
        /\ Len(rest) = IF at + 1 <= Len(ents) THEN Len(ents) - (at + 1) + 1 ELSE 0
        /\ \A k \in 1 .. Len(ents) - (at + 1) + 1 : rest[k] = ents[at + 1 + k - 1]
    BY <1>1, <1>3, <2>1, SubSeqProperties
  <2>3. ASSUME NEW k \in 1 .. Len(ents) - at PROVE rest[k] = ents[at + k]
    <3>1. k \in 1 .. Len(ents) - (at + 1) + 1 /\ at + 1 + k - 1 = at + k
      BY <1>1, <1>3
    <3> QED BY <2>2, <3>1
  <2>4. Len(rest) = Len(ents) - at
    BY <1>1, <1>3, <2>2
  <2> QED BY <2>2, <2>3, <2>4
<1> HIDE DEF rest
<1>8. /\ ents' \in Seq(Items) /\ Len(ents') = Len(ents) - at + 1
      /\ ents'[1] = dummy
      /\ \A k \in 2 .. Len(ents) - at + 1 : ents'[k] = ents[at + k - 1]
  <2>1. /\ ents' \in Seq(Items) /\ Len(ents') = 1 + Len(rest)
        /\ \A k \in 1 .. 1 + Len(rest) : ents'[k] = IF k <= 1 THEN <<dummy>>[k] ELSE rest[k - 1]
    BY <1>2, <1>6, <1>7, ConcatProperties
  <2>2. Len(ents') = Len(ents) - at + 1
    BY <1>1, <1>3, <1>7, <2>1
  <2>3. ents'[1] = dummy
    <3>1. 1 \in 1 .. 1 + Len(rest)
      BY <1>1, <1>3, <1>7
    <3> QED BY <1>6, <2>1, <3>1
  <2>4. ASSUME NEW k \in 2 .. Len(ents) - at + 1 PROVE ents'[k] = ents[at + k - 1]
    <3>1. k \in 1 .. 1 + Len(rest) /\ ~(k <= 1) /\ k - 1 \in 1 .. Len(ents) - at
      BY <1>1, <1>3, <1>7
    <3>2. at + (k - 1) = at + k - 1
      BY <1>1, <1>3
    <3> QED BY <1>7, <2>1, <3>1, <3>2
  <2> QED BY <2>1, <2>2, <2>3, <2>4
<1>9. StorageOffset' = i /\ StorageLastIndex' = StorageLastIndex
  <2>1. StorageOffset' = i
    BY <1>5, <1>8 DEF StorageOffset
  <2>2. StorageLastIndex' = i + Len(ents') - 1
    BY <2>1 DEF StorageLastIndex, StorageOffset
  <2> QED BY <1>1, <1>2, <1>8, <2>1, <2>2 DEF at
<1>10. ASSUME NEW k \in 1 .. Len(ents')
       PROVE  ents'[k].Index = i + k - 1 /\ ents'[k].Data = (k > 1)
  <2>1. CASE k = 1
    <3>1. (k > 1) = FALSE /\ i + k - 1 = i
      BY <2>1
    <3>2. ents'[k].Index = i /\ ents'[k].Data = FALSE
      BY <1>5, <1>8, <2>1
    <3> QED BY <3>1, <3>2, Zenon
  <2>2. CASE k # 1
    <3>1. k \in 2 .. Len(ents) - at + 1 /\ at + k - 1 \in 1 .. Len(ents) /\ at + k - 1 > 1 /\ k > 1
      BY <1>1, <1>3, <1>8, <2>2
    <3>2. ents'[k] = ents[at + k - 1]
      BY <1>8, <3>1
    <3>3. ents[at + k - 1].Index = off + (at + k - 1) - 1 /\ ents[at + k - 1].Data = (at + k - 1 > 1)
      BY <3>1 DEF StorageSound, off
    <3>4. off + (at + k - 1) - 1 = i + k - 1
      BY <1>1, <1>2, <3>1 DEF at
    <3>5. (at + k - 1 > 1) = (k > 1)
      BY <3>1
    <3>6. ents'[k].Index = i + k - 1
      BY <3>2, <3>3, <3>4
    <3>7. ents'[k].Data = (k > 1)
      BY <3>2, <3>3, <3>5, Zenon
    <3> QED BY <3>6, <3>7
  <2> QED BY <2>1, <2>2
<1>11. StorageSound'
  BY <1>1, <1>2, <1>3, <1>8, <1>9, <1>10 DEF StorageSound
<1>12. ASSUME NEW j \in i .. StorageLastIndex PROVE TermAt(j)' = TermAt(j)
  <2>1. CASE j = i
    <3>1. j - i + 1 = 1 /\ j - off + 1 = at
      BY <1>1, <1>2, <2>1 DEF at
    <3> QED BY <1>5, <1>8, <1>9, <3>1 DEF TermAt, off
  <2>2. CASE j # i
    <3>1. j - i + 1 \in 2 .. Len(ents) - at + 1 /\ at + (j - i + 1) - 1 = j - off + 1
      BY <1>1, <1>2, <2>2 DEF at
    <3> QED BY <1>8, <1>9, <3>1 DEF TermAt, off
  <2> QED BY <2>1, <2>2
<1> QED BY <1>1, <1>2, <1>9, <1>11, <1>12 DEF off

\* MemoryStorage.ApplySnapshot leaves the boundary alone.
LEMMA SnapshotFacts ==
    ASSUME NEW s \in Metadata, StorageApplySnapshot(s)
    PROVE  /\ StorageSound'
           /\ StorageOffset' = s.Index /\ StorageLastIndex' = s.Index
           /\ TermAt(s.Index)' = s.Term
<1>1. s.Index \in 1 .. MaxIndex /\ s.Term \in 1 .. MaxTerm
  BY DEF Metadata, Indices, Terms
<1> DEFINE dummy == [Index |-> s.Index, Term |-> s.Term, Data |-> FALSE]
<1>2. ents' = <<dummy>>
  BY DEF StorageApplySnapshot, Dummy
<1>3. dummy \in Items
  BY <1>1, BoundsAssumption DEF Items
<1>4. dummy.Index = s.Index /\ dummy.Term = s.Term /\ dummy.Data = FALSE
  OBVIOUS
<1> HIDE DEF dummy
<1>5. ents' \in Seq(Items) /\ Len(ents') = 1 /\ ents'[1] = dummy
  BY <1>2, <1>3
<1>6. StorageOffset' = s.Index /\ StorageLastIndex' = s.Index /\ TermAt(s.Index)' = s.Term
  BY <1>1, <1>4, <1>5 DEF StorageOffset, StorageLastIndex, TermAt
<1>7. ASSUME NEW k \in 1 .. Len(ents')
      PROVE  ents'[k].Index = s.Index + k - 1 /\ ents'[k].Data = (k > 1)
  <2>1. k = 1 /\ (k > 1) = FALSE
    BY <1>5
  <2>2. ents'[k].Data = FALSE
    BY <1>4, <1>5, <2>1
  <2>3. ents'[k].Index = s.Index + k - 1
    BY <1>1, <1>4, <1>5, <2>1
  <2>4. ents'[k].Data = (k > 1)
    BY <2>1, <2>2, Zenon
  <2> QED BY <2>3, <2>4
<1> QED BY <1>1, <1>5, <1>6, <1>7 DEF StorageSound

-----------------------------------------------------------------------------
(* Terms of the log.                                                       *)

\* If nobody interferes, raftLog.term does not fail: it answers from the restored
\* snapshot, from the storage, or with 0 outside of the log.
LEMMA TermIs ==
    ASSUME StorageSound, LogSound, NEW i \in Int
    PROVE  TermNow(i) = IF usnapshot # NoSnapshot
                     THEN IF i = usnapshot.Index THEN Found(usnapshot.Term) ELSE Found(0)
                     ELSE IF i \in StorageOffset .. StorageLastIndex THEN Found(TermAt(i))
                     ELSE Found(0)
<1>1. StorageOffset \in Nat /\ StorageLastIndex \in Nat /\ Len(ents) \in Nat
  BY StorageFacts
<1>2. StorageFirstIndex = StorageOffset + 1 /\ StorageLastIndex = StorageOffset + Len(ents) - 1
  BY DEF StorageFirstIndex, StorageOffset, StorageLastIndex
<1>3. CASE usnapshot # NoSnapshot
  <2>1. usnapshot.Index \in Nat /\ offset = usnapshot.Index + 1
    BY <1>3 DEF LogSound, Metadata, Indices
  <2>2. firstIndex - 1 = usnapshot.Index /\ lastIndex = usnapshot.Index
    BY <1>3, <2>1 DEF firstIndex, lastIndex, maybeFirstIndex, maybeLastIndex
  <2>3. CASE i = usnapshot.Index
    <3>1. MaybeTerm(i) = Found(usnapshot.Term)
      BY <1>3, <2>1, <2>3 DEF MaybeTerm
    <3>2. MaybeTerm(i).err # "none"
      BY <3>1 DEF Found
    <3>3. ~(i < firstIndex - 1 \/ i > lastIndex)
      BY <2>1, <2>2, <2>3
    <3> QED BY <1>3, <2>3, <3>1, <3>2, <3>3 DEF TermNow
  <2>4. CASE i # usnapshot.Index
    <3>1. i < firstIndex - 1 \/ i > lastIndex
      BY <2>1, <2>2, <2>4
    <3> QED BY <1>3, <2>4, <3>1 DEF TermNow
  <2> QED BY <2>3, <2>4
<1>4. CASE usnapshot = NoSnapshot
  <2>1. firstIndex - 1 = StorageOffset /\ lastIndex = StorageLastIndex
    BY <1>1, <1>2, <1>4 DEF firstIndex, lastIndex
  <2>2. CASE i \in StorageOffset .. StorageLastIndex
    <3>1. MaybeTerm(i).err = "none"
      BY <1>4 DEF MaybeTerm, Failed
    <3>2. ~(i < firstIndex - 1 \/ i > lastIndex)
      BY <1>1, <2>1, <2>2
    <3>3. ~(i < StorageOffset) /\ ~(i - StorageOffset >= Len(ents))
      BY <1>1, <1>2, <2>2
    <3>4. StorageTerm(i) = Found(TermAt(i))
      BY <3>3 DEF StorageTerm, TermAt
    <3> QED BY <1>4, <2>2, <3>1, <3>2, <3>4 DEF TermNow
  <2>3. CASE ~(i \in StorageOffset .. StorageLastIndex)
    <3>1. i < firstIndex - 1 \/ i > lastIndex
      BY <1>1, <2>1, <2>3
    <3> QED BY <1>4, <2>3, <3>1 DEF TermNow
  <2> QED BY <2>2, <2>3
<1> QED BY <1>3, <1>4

\* The same as one formula, for the state after a step.
TermsAre ==
  \A i \in Int :
    TermNow(i) = IF usnapshot # NoSnapshot
              THEN IF i = usnapshot.Index THEN Found(usnapshot.Term) ELSE Found(0)
              ELSE IF i \in StorageOffset .. StorageLastIndex THEN Found(TermAt(i))
              ELSE Found(0)

\* TermNow is what TermIs says for all indices at once.
LEMMA TermsAreSound == StorageSound /\ LogSound => TermsAre
  BY TermIs DEF TermsAre

\* First and last index of the log.
LEMMA LastIndexFacts ==
    ASSUME StorageSound, LogSound
    PROVE  lastIndex \in 0 .. MaxIndex /\ committed <= lastIndex /\ firstIndex \in Nat \ {0}
<1>1. CASE usnapshot = NoSnapshot
  BY <1>1, StorageFacts DEF LogSound, lastIndex, firstIndex, StorageFirstIndex, StorageOffset
<1>2. CASE usnapshot # NoSnapshot
  BY <1>2, BoundsAssumption DEF LogSound, lastIndex, firstIndex, maybeFirstIndex, maybeLastIndex,
                                Metadata, Indices
<1> QED BY <1>1, <1>2

-----------------------------------------------------------------------------
(* The ends of a step of a handler.                                        *)

\* What CommittedUnchanged says of one step.
Kept ==
  \A i \in Indices :
    /\ i =< committed /\ i =< committed'
    /\ i >= firstIndex - 1 /\ i >= firstIndex' - 1
    => TermNow(i)' = TermNow(i)

\* A step that leaves storage and unstable alone keeps the terms.
LEMMA TermsUnchanged ==
    ASSUME UNCHANGED <<ents, offset, usnapshot>>
    PROVE  Kept
  BY DEF Kept, TermNow, MaybeTerm, StorageTerm, StorageOffset, firstIndex, lastIndex, maybeFirstIndex,
         maybeLastIndex, StorageFirstIndex, StorageLastIndex

\* A step of the instance, and not of the application.
OwnStep == IInv /\ panicked = "no" /\ UNCHANGED <<storageVars, appApplied>>

\* If the instance changes nothing either, only CallSound and PanicsKnown are
\* left to show.
LEMMA StillSound ==
    ASSUME IInv, UNCHANGED <<ents, committed, applied, offset, usnapshot, appApplied>>
    PROVE  /\ StorageSound' /\ LogSound' /\ AppSound' /\ Kept
           /\ \A at, i, job : JobSound(at, i, job) => JobSound(at, i, job)'
           /\ \A at, i, meanwhile : StageSound(at, i, meanwhile) => StageSound(at, i, meanwhile)'
<1>1. StorageOffset' = StorageOffset /\ StorageLastIndex' = StorageLastIndex
  BY DEF StorageOffset, StorageLastIndex
<1>2. \A s : Agrees(s) => Agrees(s)'
  BY <1>1 DEF Agrees, TermAt
<1>3. StorageSound' /\ LogSound'
  BY <1>1 DEF IInv, StorageSound, LogSound
<1>4. AppSound'
  BY <1>1, <1>2 DEF IInv, AppSound
<1>5. ASSUME NEW at, NEW i, NEW job, JobSound(at, i, job) PROVE JobSound(at, i, job)'
  BY <1>2, <1>5 DEF JobSound, EntriesAbove
<1>6. ASSUME NEW at, NEW i, NEW meanwhile, StageSound(at, i, meanwhile)
      PROVE  StageSound(at, i, meanwhile)'
  BY <1>1, <1>6 DEF StageSound
<1> QED BY <1>3, <1>4, <1>5, <1>6, TermsUnchanged

\* The handler goes on to the next call of the storage.
LEMMA ThenKeeps ==
    ASSUME OwnStep, NEW at, NEW i \in Int, NEW job, Then(at, i, job),
           at \notin {"LastIndex", "Term"}, JobSound(at, i, job)
    PROVE  IInv' /\ Kept
<1>1. /\ call' = [at |-> at, i |-> i, job |-> job, meanwhile |-> {}]
      /\ UNCHANGED <<ents, committed, applied, offset, usnapshot, appApplied, panicked>>
  BY DEF Then, OwnStep, logVars, storageVars
<1>2. call'.at = at /\ call'.i = i /\ call'.job = job /\ call'.meanwhile = {}
  BY <1>1
<1>3. JobSound(at, i, job)' /\ StageSound(at, i, {})'
  <2>1. StageSound(at, i, {})
    BY DEF StageSound
  <2> QED BY <1>1, <2>1, StillSound DEF OwnStep
<1>4. CallSound'
  BY <1>1, <1>2, <1>3 DEF CallSound
<1>5. PanicsKnown'
  BY <1>1 DEF OwnStep, PanicsKnown
<1> QED BY <1>1, <1>4, <1>5, StillSound DEF OwnStep, IInv

\* The call of no handler is sound whatever the state is.
LEMMA IdleCallSound == call' = Idle => CallSound'
  BY DEF CallSound, JobSound, StageSound, Idle, TermStages

\* The handler ends.
LEMMA ReturnKeeps ==
    ASSUME OwnStep, Return
    PROVE  IInv' /\ Kept
<1>1. UNCHANGED <<ents, committed, applied, offset, usnapshot, appApplied, panicked>> /\ call' = Idle
  BY DEF Return, OwnStep, logVars, storageVars
<1>2. PanicsKnown'
  BY <1>1 DEF OwnStep, PanicsKnown
<1> QED BY <1>1, <1>2, StillSound, IdleCallSound DEF OwnStep, IInv

\* A panic changes neither log nor storage nor the call.
LEMMA PanicKeeps ==
    ASSUME OwnStep,
           NEW why \in {"commitTo", "slice", "unapplied", "nil metadata", "hint", "zeroTerm", "lastTerm"},
           why \in {"zeroTerm", "lastTerm"} => "stored" \in call.meanwhile,
           why = "hint" => call.meanwhile # {},
           Panic(why)
    PROVE  IInv' /\ Kept
<1>1. /\ UNCHANGED <<ents, committed, applied, offset, usnapshot, appApplied, call>>
      /\ panicked' = why
  BY DEF Panic, OwnStep, storageVars, logVars
<1>2. CallSound'
  <2>1. JobSound(call.at, call.i, call.job)'
    BY <1>1, StillSound DEF OwnStep, IInv, CallSound
  <2>2. StageSound(call.at, call.i, call.meanwhile)'
    BY <1>1, StillSound DEF OwnStep, IInv, CallSound
  <2> QED BY <1>1, <2>1, <2>2 DEF OwnStep, IInv, CallSound
<1>3. PanicsKnown'
  BY <1>1 DEF PanicsKnown
<1> QED BY <1>1, <1>2, <1>3, StillSound DEF OwnStep, IInv

\* commitTo asks for the last index, or there is nothing to commit.
LEMMA CommitToKeeps ==
    ASSUME OwnStep, NEW c \in Nat, commitTo(c)
    PROVE  IInv' /\ Kept
<1> DEFINE job == [name |-> "commitTo"]
<1>1. CASE committed < c
  <2>1. job.name = "commitTo"
    OBVIOUS
  <2> HIDE DEF job
  <2>2. JobSound("commitTo", c, job)
    BY <1>1, <2>1 DEF JobSound, TermStages
  <2>3. Then("commitTo", c, job)
    BY <1>1 DEF commitTo, job
  <2> QED BY <2>2, <2>3, ThenKeeps
<1>2. CASE ~(committed < c)
  BY <1>2, ReturnKeeps DEF commitTo
<1> QED BY <1>1, <1>2

\* commitTo moves committed within the log, or panics.
LEMMA CommitInRangeKeeps ==
    ASSUME IInv, CommitInRange
    PROVE  IInv' /\ Kept
<1>1. OwnStep /\ call.at = "commitTo" /\ commitToChecked(call.i)
  BY DEF CommitInRange, At, OwnStep
<1>2. call.i \in Nat /\ committed < call.i
  BY <1>1 DEF OwnStep, IInv, CallSound, JobSound
<1>3. CASE lastIndex < call.i
  BY <1>1, <1>3, PanicKeeps DEF commitToChecked
<1>4. CASE ~(lastIndex < call.i)
  <2>1. /\ UNCHANGED <<ents, applied, offset, usnapshot, appApplied, panicked>>
        /\ committed' = call.i /\ call' = Idle
    BY <1>1, <1>4 DEF commitToChecked, OwnStep, storageVars
  <2>2. StorageSound' /\ AppSound' /\ PanicsKnown'
    BY <1>1, <2>1 DEF OwnStep, IInv, StorageSound, AppSound, Agrees, PanicsKnown, TermAt, StorageOffset,
                      StorageLastIndex
  <2>3. lastIndex \in Nat /\ committed \in Nat /\ applied \in Nat /\ applied <= committed
    BY LastIndexFacts DEF IInv, LogSound
  <2>4. usnapshot = NoSnapshot
    <3>1. usnapshot # NoSnapshot => lastIndex = committed
      BY DEF IInv, LogSound, lastIndex, maybeLastIndex
    <3> QED BY <1>2, <1>4, <2>3, <3>1
  <2>5. committed' <= StorageLastIndex'
    <3>1. lastIndex = StorageLastIndex /\ StorageLastIndex' = StorageLastIndex
      BY <2>1, <2>4 DEF lastIndex, StorageLastIndex
    <3> QED BY <1>2, <1>4, <2>1, <2>3, <3>1
  <2>6. LogSound'
    BY <1>2, <2>1, <2>3, <2>4, <2>5 DEF IInv, LogSound
  <2> QED BY <2>1, <2>2, <2>6, TermsUnchanged, IdleCallSound DEF IInv
<1> QED BY <1>3, <1>4

\* A conflict above committed does not panic.
LEMMA ConflictAtKeeps ==
    ASSUME OwnStep, NEW ci \in Int, ci > committed, NEW c \in Nat, conflictAt(ci, c)
    PROVE  IInv' /\ Kept
<1>1. committed \in Int
  BY DEF OwnStep, IInv, LogSound
<1> QED BY <1>1, CommitToKeeps DEF conflictAt

\* findConflict takes the next of the entries that are left.
LEMMA FindConflictKeeps ==
    ASSUME OwnStep, NEW es, EntriesAbove(es), NEW c \in Nat, findConflict(es, c)
    PROVE  IInv' /\ Kept
<1>1. CASE es = <<>>
  BY <1>1, CommitToKeeps DEF findConflict
<1>2. CASE es # <<>>
  <2> DEFINE job == [name |-> "findConflict", es |-> es, commit |-> c]
  <2>1. job.name = "findConflict" /\ job.es = es /\ job.commit = c
    OBVIOUS
  <2>2. Then("FirstIndex", es[1].Index, job)
    BY <1>2 DEF findConflict, AskTerm
  <2>3. es[1].Index \in Int
    <3>1. Len(es) \in Nat /\ Len(es) # 0
      BY <1>2, LenProperties, EmptySeq DEF EntriesAbove
    <3>2. es[1] \in Items
      BY <3>1, ElementOfSeq DEF EntriesAbove
    <3> QED BY <3>2 DEF Items
  <2> HIDE DEF job
  <2>4. JobSound("FirstIndex", es[1].Index, job)
    BY <1>2, <2>1 DEF JobSound
  <2> QED BY <2>2, <2>3, <2>4, ThenKeeps
<1> QED BY <1>1, <1>2

\* The log is the snapshot from now on.
LEMMA RestoreKeeps ==
    ASSUME OwnStep, NEW s \in Metadata, committed < s.Index, Agrees(s), logRestore(s)
    PROVE  IInv' /\ Kept
<1>1. s.Index \in 1 .. MaxIndex /\ s # NoSnapshot
  BY SnapshotAssumption DEF Metadata, Indices, Terms
<1>2. /\ committed' = s.Index /\ usnapshot' = s /\ offset' = s.Index + 1 /\ call' = Idle
      /\ UNCHANGED <<ents, applied, appApplied, panicked>>
  BY DEF logRestore, unstableRestore, OwnStep, storageVars
<1>3. StorageSound' /\ PanicsKnown' /\ CallSound'
  BY <1>2, IdleCallSound DEF OwnStep, IInv, StorageSound, PanicsKnown, StorageOffset
<1>4. LogSound'
  BY <1>1, <1>2 DEF OwnStep, IInv, LogSound
<1>5. AppSound'
  <2>1. /\ StorageOffset' = StorageOffset /\ StorageLastIndex' = StorageLastIndex
        /\ TermAt(s.Index)' = TermAt(s.Index) /\ appApplied \in StorageOffset .. StorageLastIndex
    BY <1>2 DEF OwnStep, IInv, AppSound, StorageOffset, StorageLastIndex, TermAt
  <2> QED BY <1>2, <2>1 DEF AppSound, Agrees
<1>6. Kept
  <2>1. firstIndex' - 1 = s.Index
    BY <1>1, <1>2 DEF firstIndex, maybeFirstIndex
  <2>2. \A j \in Indices : j =< committed => ~(j >= firstIndex' - 1)
    BY <1>1, <2>1 DEF OwnStep, IInv, LogSound, Indices
  <2> QED BY <2>2 DEF Kept
<1> QED BY <1>3, <1>4, <1>5, <1>6 DEF IInv

-----------------------------------------------------------------------------
(* What follows an answer of raftLog.term.                                 *)

\* An answer, and what it tells: an error is due to the application, a
\* committed index is not beyond the log, and the last index not compacted.
Answers(found) ==
  /\ found.err \in {"nil", "ErrCompacted", "ErrUnavailable"}
  /\ found.err = "ErrUnavailable" =>
       "stored" \in call.meanwhile /\ ~Is("committedEntryInCurrentTerm")
  /\ found.err = "ErrCompacted" =>
       "compacted" \in call.meanwhile /\ call.job.name \notin {"lastTerm", "fastForward"}

\* What the handler carries, with its types.
LEMMA JobFacts ==
    ASSUME OwnStep
    PROVE  /\ committed \in Nat /\ call.i \in Int
           /\ JobSound(call.at, call.i, call.job)
  BY DEF OwnStep, IInv, LogSound, CallSound

\* The previous entry of a MsgApp matches or the message is rejected.
LEMMA MatchedPreviousKeeps ==
    ASSUME OwnStep, NEW found, MatchedPrevious(found)
    PROVE  IInv' /\ Kept
<1>1. EntriesAbove(call.job.es) /\ call.job.commit \in Nat /\ call.job.index \in Int
  BY JobFacts DEF JobSound, MatchedPrevious, Is
<1>2. CASE found = Found(call.job.logTerm)
  BY <1>1, <1>2, FindConflictKeeps DEF MatchedPrevious
<1>3. CASE found # Found(call.job.logTerm)
  <2> DEFINE job == [name |-> "reject", index |-> call.job.index, logTerm |-> call.job.logTerm]
  <2>1. job.name = "reject" /\ job.index = call.job.index
    OBVIOUS
  <2>2. Then("FirstIndex", call.job.index, job)
    BY <1>3 DEF MatchedPrevious, AskTerm
  <2> HIDE DEF job
  <2>3. JobSound("FirstIndex", call.job.index, job)
    BY <1>1, <2>1 DEF JobSound
  <2> QED BY <1>1, <2>2, <2>3, ThenKeeps
<1> QED BY <1>2, <1>3

\* An entry of a MsgApp matches or conflicts.
LEMMA MatchedEntryKeeps ==
    ASSUME OwnStep, NEW found, MatchedEntry(found)
    PROVE  IInv' /\ Kept
<1> DEFINE es == call.job.es
<1>1. /\ call.job.name = "findConflict" /\ EntriesAbove(es) /\ call.job.commit \in Nat
      /\ es # <<>> /\ call.i = es[1].Index /\ call.i \in Int
  BY JobFacts DEF JobSound, MatchedEntry, Is
<1>2. CASE found = Found(es[1].Term)
  <2>1. findConflict(Tail(es), call.job.commit)
    BY <1>2 DEF MatchedEntry
  <2>2. EntriesAbove(Tail(es))
    <3> HIDE DEF es
    <3>1. es \in Seq(Items) /\ \A k \in 1 .. Len(es) : es[k].Index > committed
      BY <1>1 DEF EntriesAbove
    <3>2. /\ Tail(es) \in Seq(Items) /\ Len(es) \in Nat /\ Len(Tail(es)) = Len(es) - 1
          /\ \A k \in 1 .. Len(Tail(es)) : Tail(es)[k] = es[k + 1]
      BY <1>1, <3>1, HeadTailProperties
    <3>3. ASSUME NEW k \in 1 .. Len(Tail(es)) PROVE Tail(es)[k].Index > committed
      <4>1. k + 1 \in 1 .. Len(es)
        BY <3>2
      <4> QED BY <3>1, <3>2, <4>1
    <3> QED BY <3>2, <3>3 DEF EntriesAbove
  <2> QED BY <1>1, <2>1, <2>2, FindConflictKeeps
<1>3. CASE found # Found(es[1].Term)
  <2>1. Then("findConflict", call.i, call.job)
    BY <1>1, <1>3 DEF MatchedEntry
  <2>2. JobSound("findConflict", call.i, call.job)
    BY <1>1, JobFacts DEF JobSound, TermStages
  <2> QED BY <1>1, <2>1, <2>2, ThenKeeps
<1> QED BY <1>2, <1>3

\* zeroTermOnErrCompacted panics only on what the application replaced.
LEMMA ZeroTermKeeps ==
    ASSUME OwnStep, NEW found, Answers(found), zeroTermPanics(found), Panic("zeroTerm")
    PROVE  IInv' /\ Kept
  BY PanicKeeps DEF Answers, zeroTermPanics

\* The conflicting term has been logged.
LEMMA LoggedConflictKeeps ==
    ASSUME OwnStep, NEW found, Answers(found), LoggedConflict(found)
    PROVE  IInv' /\ Kept
<1>1. call.i \in Int /\ call.i > committed /\ call.job.commit \in Nat
  BY JobFacts DEF JobSound, LoggedConflict, Is
<1> QED BY <1>1, ZeroTermKeeps, ConflictAtKeeps DEF LoggedConflict

\* The rejected term has been logged.
LEMMA LoggedRejectKeeps ==
    ASSUME OwnStep, NEW found, Answers(found), LoggedReject(found)
    PROVE  IInv' /\ Kept
<1>1. CASE zeroTermPanics(found)
  BY <1>1, ZeroTermKeeps DEF LoggedReject
<1>2. CASE ~zeroTermPanics(found)
  <2>1. Then("hintIndex", 0, call.job)
    BY <1>2 DEF LoggedReject
  <2>2. JobSound("hintIndex", 0, call.job)
    BY JobFacts DEF JobSound, LoggedReject, Is, TermStages
  <2> QED BY <2>1, <2>2, ThenKeeps
<1> QED BY <1>1, <1>2

\* findConflictByTerm goes back, or has found its hint.
LEMMA WentBackKeeps ==
    ASSUME OwnStep, NEW found, WentBack(found)
    PROVE  IInv' /\ Kept
<1>1. call.i \in Int /\ call.job.name = "findConflictByTerm"
  BY JobFacts DEF WentBack, Is
<1>2. CASE found.err # "nil" \/ found.term =< call.job.logTerm
  <2> DEFINE job == [name |-> "hintTerm"]
  <2>1. job.name = "hintTerm"
    OBVIOUS
  <2>2. Then("FirstIndex", call.i, job)
    BY <1>2 DEF WentBack, AskTerm
  <2> HIDE DEF job
  <2>3. JobSound("FirstIndex", call.i, job)
    BY <2>1 DEF JobSound
  <2> QED BY <1>1, <2>2, <2>3, ThenKeeps
<1>3. CASE ~(found.err # "nil" \/ found.term =< call.job.logTerm)
  <2>1. Then("FirstIndex", call.i - 1, call.job)
    BY <1>3 DEF WentBack, AskTerm
  <2>2. JobSound("FirstIndex", call.i - 1, call.job)
    BY <1>1 DEF JobSound
  <2>3. call.i - 1 \in Int
    BY <1>1
  <2> QED BY <2>1, <2>2, <2>3, ThenKeeps
<1> QED BY <1>2, <1>3

\* The hint has a term unless the application was at the storage.
LEMMA HintFoundKeeps ==
    ASSUME OwnStep, NEW found, Answers(found), HintFound(found)
    PROVE  IInv' /\ Kept
<1>1. CASE found.err # "nil"
  <2>1. call.meanwhile # {}
    BY <1>1 DEF Answers
  <2> QED BY <1>1, <2>1, PanicKeeps DEF HintFound
<1>2. CASE found.err = "nil"
  BY <1>2, ReturnKeeps DEF HintFound
<1> QED BY <1>1, <1>2

\* A leader's commit index.
LEMMA CountedKeeps ==
    ASSUME OwnStep, NEW found, Answers(found), Counted(found)
    PROVE  IInv' /\ Kept
<1>1. call.i \in Nat
  BY JobFacts DEF JobSound, Counted, Is
<1> QED BY <1>1, ZeroTermKeeps, CommitToKeeps, ReturnKeeps DEF Counted

\* The term of the commit index is known or compacted.
LEMMA CheckedCommittedKeeps ==
    ASSUME OwnStep, NEW found, Answers(found), CheckedCommitted(found)
    PROVE  IInv' /\ Kept
<1>1. ~zeroTermPanics(found)
  BY DEF Answers, zeroTermPanics, CheckedCommitted
<1> QED BY <1>1, ReturnKeeps DEF CheckedCommitted

\* A snapshot is restored, whether the log has its entry or not.
LEMMA MatchedSnapshotKeeps ==
    ASSUME OwnStep, NEW found, MatchedSnapshot(found)
    PROVE  IInv' /\ Kept
<1>1. /\ call.job.snap \in Metadata /\ committed < call.job.snap.Index /\ Agrees(call.job.snap)
  BY JobFacts DEF JobSound, MatchedSnapshot, Is
<1>2. CASE found = Found(call.job.snap.Term)
  <2> DEFINE job == [name |-> "fastForward", snap |-> call.job.snap]
  <2>1. job.name = "fastForward" /\ job.snap = call.job.snap
    OBVIOUS
  <2>2. Then("lastTerm", 0, job)
    BY <1>2 DEF MatchedSnapshot
  <2> HIDE DEF job
  <2>3. JobSound("lastTerm", 0, job)
    BY <1>1, <2>1 DEF JobSound, TermStages
  <2> QED BY <2>2, <2>3, ThenKeeps
<1>3. CASE found # Found(call.job.snap.Term)
  BY <1>1, <1>3, RestoreKeeps DEF MatchedSnapshot
<1> QED BY <1>2, <1>3

\* The last term is known unless the application replaced the tail.
LEMMA LastTermFoundKeeps ==
    ASSUME OwnStep, NEW found, Answers(found), LastTermFound(found)
    PROVE  IInv' /\ Kept
<1>1. CASE found.err # "nil"
  <2>1. "stored" \in call.meanwhile
    BY <1>1 DEF Answers, LastTermFound
  <2> QED BY <1>1, <2>1, PanicKeeps DEF LastTermFound
<1>2. CASE found.err = "nil" /\ Is("lastTerm")
  BY <1>2, ReturnKeeps DEF LastTermFound
<1>3. CASE found.err = "nil" /\ ~Is("lastTerm")
  <2>1. Then("fastForward", 0, call.job) /\ call.job.name = "fastForward"
    BY <1>3 DEF LastTermFound, Is
  <2>2. JobSound("fastForward", 0, call.job)
    BY <2>1, JobFacts DEF JobSound, TermStages
  <2> QED BY <2>1, <2>2, ThenKeeps
<1> QED BY <1>1, <1>2, <1>3

\* Whatever was asked.
LEMMA ResumeKeeps ==
    ASSUME OwnStep, NEW found, Answers(found), Resume(found)
    PROVE  IInv' /\ Kept
<1>1. found.err # "panic"
  BY DEF Answers
<1> QED BY <1>1, MatchedPreviousKeeps, MatchedEntryKeeps, LoggedConflictKeeps, LoggedRejectKeeps,
           WentBackKeeps, HintFoundKeeps, CountedKeeps, CheckedCommittedKeeps,
           MatchedSnapshotKeeps, LastTermFoundKeeps DEF Resume

-----------------------------------------------------------------------------
(* The calls of the storage.                                               *)

\* The call that a handler is in.
LEMMA AtFacts ==
    ASSUME IInv, NEW at, At(at)
    PROVE  OwnStep /\ call.at = at
  BY DEF At, OwnStep

\* An index out of range has term 0.
LEMMA ZeroAnswers == Answers(Found(0))
  BY DEF Answers, Found

\* raftLog.term goes on to its next call.
LEMMA GotoKeeps ==
    ASSUME OwnStep, NEW at \in {"LastIndex", "Term", "sliceLast", "Entries"}, Goto(at),
           at \in {"LastIndex", "Term"} => call.at \in TermStages,
           StageSound(at, call.i, call.meanwhile)
    PROVE  IInv' /\ Kept
<1>1. /\ call = [at |-> call.at, i |-> call.i, job |-> call.job, meanwhile |-> call.meanwhile]
      /\ call.i \in Int /\ JobSound(call.at, call.i, call.job)
  BY DEF OwnStep, IInv, CallSound
<1>2. /\ call' = [at |-> at, i |-> call.i, job |-> call.job, meanwhile |-> call.meanwhile]
      /\ UNCHANGED <<ents, committed, applied, offset, usnapshot, appApplied, panicked>>
  BY <1>1 DEF Goto, OwnStep, logVars, storageVars
<1>3. /\ call'.at = at /\ call'.i = call.i /\ call'.job = call.job
      /\ call'.meanwhile = call.meanwhile
  BY <1>2
<1>4. JobSound(at, call.i, call.job)
  BY <1>1 DEF JobSound, TermStages
<1>5. PICK i, job, meanwhile : i = call.i /\ job = call.job /\ meanwhile = call.meanwhile
  OBVIOUS
<1>6. JobSound(at, i, job)' /\ StageSound(at, i, meanwhile)'
  BY <1>2, <1>4, <1>5, StillSound DEF OwnStep
<1>7. CallSound'
  BY <1>1, <1>2, <1>3, <1>5, <1>6 DEF CallSound
<1>8. PanicsKnown'
  BY <1>2 DEF OwnStep, PanicsKnown
<1> QED BY <1>2, <1>7, <1>8, StillSound DEF OwnStep, IInv

\* raftLog.term, its call of firstIndex.
LEMMA TermFirstIndexKeeps ==
    ASSUME IInv, TermFirstIndex
    PROVE  IInv' /\ Kept
<1>1. OwnStep /\ call.at = "FirstIndex"
  BY AtFacts DEF TermFirstIndex
<1>2. CASE call.i < firstIndex - 1
  BY <1>1, <1>2, ZeroAnswers, ResumeKeeps DEF TermFirstIndex
<1>3. CASE ~(call.i < firstIndex - 1)
  <2>1. StorageOffset \in Nat /\ call.i \in Int /\ (usnapshot # NoSnapshot => usnapshot.Index \in Nat)
    BY StorageBounds DEF IInv, CallSound, LogSound, Metadata, Indices
  <2>2. StageSound("LastIndex", call.i, call.meanwhile)
    BY <1>3, <2>1 DEF StageSound, firstIndex, maybeFirstIndex, StorageFirstIndex, StorageOffset
  <2>3. Goto("LastIndex")
    BY <1>3 DEF TermFirstIndex
  <2> QED BY <1>1, <2>2, <2>3, GotoKeeps DEF TermStages
<1> QED BY <1>2, <1>3

\* raftLog.term, its call of lastIndex, and unstable.maybeTerm.
LEMMA TermLastIndexKeeps ==
    ASSUME IInv, TermLastIndex
    PROVE  IInv' /\ Kept
<1>1. OwnStep /\ call.at = "LastIndex"
  BY AtFacts DEF TermLastIndex
<1>2. /\ StorageOffset \in Nat /\ StorageLastIndex \in Nat /\ call.i \in Int
      /\ StageSound("LastIndex", call.i, call.meanwhile)
      /\ usnapshot # NoSnapshot => usnapshot.Index \in Nat /\ offset = usnapshot.Index + 1
  BY <1>1, StorageBounds DEF IInv, CallSound, LogSound, Metadata, Indices
<1>3. CASE call.i > lastIndex
  BY <1>1, <1>3, ZeroAnswers, ResumeKeeps DEF TermLastIndex
<1>4. CASE ~(call.i > lastIndex) /\ usnapshot # NoSnapshot
  <2>1. call.i = usnapshot.Index /\ call.i < offset
    BY <1>2, <1>4 DEF StageSound, lastIndex, maybeLastIndex
  <2>2. MaybeTerm(call.i) = Found(usnapshot.Term)
    BY <1>4, <2>1 DEF MaybeTerm
  <2>3. Answers(MaybeTerm(call.i)) /\ MaybeTerm(call.i).err # "none"
    BY <2>2 DEF Answers, Found
  <2> QED BY <1>1, <1>4, <2>3, ResumeKeeps DEF TermLastIndex
<1>5. CASE ~(call.i > lastIndex) /\ usnapshot = NoSnapshot
  <2>1. MaybeTerm(call.i).err = "none"
    BY <1>5 DEF MaybeTerm, Failed
  <2>2. StageSound("Term", call.i, call.meanwhile)
    BY <1>2, <1>5 DEF StageSound, lastIndex
  <2>3. Goto("Term")
    BY <1>5, <2>1 DEF TermLastIndex
  <2> QED BY <1>1, <2>2, <2>3, GotoKeeps DEF TermStages
<1> QED BY <1>3, <1>4, <1>5

\* raftLog.term, its call of storage.Term.
LEMMA TermStoredKeeps ==
    ASSUME IInv, TermStored
    PROVE  IInv' /\ Kept
<1>1. OwnStep /\ call.at = "Term" /\ Resume(StorageTerm(call.i))
  BY AtFacts DEF TermStored
<1>2. /\ StorageOffset \in Nat /\ StorageLastIndex \in Nat /\ Len(ents) \in Nat /\ call.i \in Int
      /\ StorageLastIndex = StorageOffset + Len(ents) - 1
      /\ appApplied \in StorageOffset .. StorageLastIndex /\ committed \in Nat
  BY StorageFacts DEF IInv, CallSound, AppSound, LogSound, StorageLastIndex, StorageOffset
<1>3. /\ JobSound("Term", call.i, call.job)
      /\ StageSound("Term", call.i, call.meanwhile) /\ usnapshot = NoSnapshot
  BY <1>1 DEF IInv, CallSound, StageSound
<1>4. CASE call.i < StorageOffset
  <2>1. StorageTerm(call.i) = Failed("ErrCompacted")
    BY <1>4 DEF StorageTerm
  <2>2. "compacted" \in call.meanwhile
    BY <1>2, <1>3, <1>4 DEF StageSound
  <2>3. call.job.name \notin {"lastTerm", "fastForward"}
    BY <1>2, <1>3, <1>4 DEF JobSound, TermStages
  <2>4. Answers(StorageTerm(call.i))
    BY <2>1, <2>2, <2>3 DEF Answers, Failed
  <2> QED BY <1>1, <2>4, ResumeKeeps
<1>5. CASE ~(call.i < StorageOffset) /\ call.i - StorageOffset >= Len(ents)
  <2>1. StorageTerm(call.i) = Failed("ErrUnavailable")
    BY <1>5 DEF StorageTerm
  <2>2. call.i > StorageLastIndex
    BY <1>2, <1>5
  <2>3. "stored" \in call.meanwhile
    BY <1>2, <1>3, <2>2 DEF StageSound
  <2>4. ~Is("committedEntryInCurrentTerm")
    <3>1. committed <= StorageLastIndex
      BY <1>3 DEF IInv, LogSound
    <3>2. call.i # committed
      BY <1>2, <2>2, <3>1
    <3> QED BY <1>3, <3>2 DEF JobSound, Is
  <2>5. Answers(StorageTerm(call.i))
    BY <2>1, <2>3, <2>4 DEF Answers, Failed
  <2> QED BY <1>1, <2>5, ResumeKeeps
<1>6. CASE ~(call.i < StorageOffset) /\ ~(call.i - StorageOffset >= Len(ents))
  <2>1. StorageTerm(call.i).err = "nil"
    BY <1>6 DEF StorageTerm, Found
  <2>2. Answers(StorageTerm(call.i))
    BY <2>1 DEF Answers
  <2> QED BY <1>1, <2>2, ResumeKeeps
<1> QED BY <1>4, <1>5, <1>6

\* findConflict decides whether to log a term.
LEMMA ConflictInRangeKeeps ==
    ASSUME IInv, ConflictInRange
    PROVE  IInv' /\ Kept
<1>1. OwnStep /\ call.at = "findConflict"
  BY AtFacts DEF ConflictInRange
<1>2. /\ EntriesAbove(call.job.es) /\ call.job.commit \in Nat
      /\ call.job.es # <<>> /\ call.i = call.job.es[1].Index /\ call.i \in Int
  BY <1>1, JobFacts DEF JobSound
<1>3. call.i > committed
  <2>1. Len(call.job.es) \in Nat /\ Len(call.job.es) # 0
    BY <1>2, LenProperties, EmptySeq DEF EntriesAbove
  <2> QED BY <1>2, <2>1 DEF EntriesAbove
<1>4. CASE call.i < lastIndex
  <2> DEFINE job == [name |-> "logConflict", commit |-> call.job.commit]
  <2>1. job.name = "logConflict" /\ job.commit = call.job.commit
    OBVIOUS
  <2>2. Then("FirstIndex", call.i, job)
    BY <1>4 DEF ConflictInRange, AskTerm
  <2> HIDE DEF job
  <2>3. JobSound("FirstIndex", call.i, job)
    BY <1>2, <1>3, <2>1 DEF JobSound
  <2> QED BY <1>1, <1>2, <2>2, <2>3, ThenKeeps
<1>5. CASE ~(call.i < lastIndex)
  BY <1>1, <1>2, <1>3, <1>5, ConflictAtKeeps DEF ConflictInRange
<1> QED BY <1>4, <1>5

\* The hint of a rejection is looked for.
LEMMA HintIndexKeeps ==
    ASSUME IInv, HintIndex
    PROVE  IInv' /\ Kept
<1>1. OwnStep /\ call.at = "hintIndex"
  BY AtFacts DEF HintIndex
<1>2. call.job.name = "reject" /\ call.job.index \in Int /\ lastIndex \in Int
  BY <1>1, JobFacts, LastIndexFacts DEF JobSound, IInv
<1>3. Min(call.job.index, lastIndex) \in Int
  BY <1>2 DEF Min
<1>4. JobSound("hintRange", Min(call.job.index, lastIndex), call.job)
  BY <1>2 DEF JobSound, TermStages
<1> QED BY <1>1, <1>3, <1>4, ThenKeeps DEF HintIndex

\* findConflictByTerm begins, or finds its index out of range.
LEMMA HintInRangeKeeps ==
    ASSUME IInv, HintInRange
    PROVE  IInv' /\ Kept
<1>1. OwnStep /\ call.at = "hintRange" /\ call.i \in Int
  BY AtFacts DEF HintInRange, IInv, CallSound
<1> DEFINE job == IF call.i > lastIndex THEN [name |-> "hintTerm"]
                  ELSE [name |-> "findConflictByTerm", logTerm |-> call.job.logTerm]
<1>2. job.name \in {"hintTerm", "findConflictByTerm"}
  OBVIOUS
<1>3. Then("FirstIndex", call.i, job)
  BY DEF HintInRange, AskTerm
<1> HIDE DEF job
<1>4. JobSound("FirstIndex", call.i, job)
  BY <1>2 DEF JobSound
<1> QED BY <1>1, <1>3, <1>4, ThenKeeps

\* lastTerm asks for the term of the last index.
LEMMA LastTermIndexKeeps ==
    ASSUME IInv, LastTermIndex
    PROVE  IInv' /\ Kept
<1>1. OwnStep /\ call.at = "lastTerm"
  BY AtFacts DEF LastTermIndex
<1>2. lastIndex \in Int /\ committed <= lastIndex
  BY LastIndexFacts DEF IInv
<1>3. usnapshot = NoSnapshot => appApplied <= lastIndex
  BY StorageBounds DEF IInv, AppSound, lastIndex
<1>4. JobSound("FirstIndex", lastIndex, call.job)
  BY <1>1, <1>2, <1>3, JobFacts DEF JobSound
<1> QED BY <1>1, <1>2, <1>4, ThenKeeps DEF LastTermIndex, AskTerm

\* raft.restore commits what the log already has, and restores all the same.
LEMMA FastForwardKeeps ==
    ASSUME IInv, FastForward
    PROVE  IInv' /\ Kept
<1>1. OwnStep /\ call.at = "fastForward"
  BY AtFacts DEF FastForward
<1>2. /\ call.job.snap \in Metadata /\ committed < call.job.snap.Index /\ Agrees(call.job.snap)
  BY <1>1, JobFacts DEF JobSound
<1> QED BY <1>1, <1>2, PanicKeeps, RestoreKeeps DEF FastForward

-----------------------------------------------------------------------------
(* Reads.                                                                  *)

\* A read carries nothing that has to stay true.
LEMMA SliceKeeps ==
    ASSUME OwnStep, NEW at \in {"entries", "sliceFirst"}, NEW lo \in Int, NEW hi,
           NEW for \in {"entries", "hup"}, Slice(at, lo, hi, for)
    PROVE  IInv' /\ Kept
<1> DEFINE job == [name |-> for, hi |-> hi]
<1>1. job.name \in {"entries", "hup"}
  OBVIOUS
<1>2. Then(at, lo, job)
  BY DEF Slice
<1> HIDE DEF job
<1>3. JobSound(at, lo, job)
  BY <1>1 DEF JobSound, TermStages
<1> QED BY <1>2, <1>3, ThenKeeps

\* slice finds its first index compacted.
LEMMA SliceCompactedKeeps ==
    ASSUME OwnStep, SliceCompacted
    PROVE  IInv' /\ Kept
  BY PanicKeeps, ReturnKeeps DEF SliceCompacted

\* raftLog.entries and slice, up to the storage's answer.
LEMMA ReadKeeps ==
    ASSUME IInv, Read
    PROVE  IInv' /\ Kept
<1>1. CASE \E i \in Indices : ReadStart(i)
  <2>1. PICK i \in Indices : ReadStart(i)
    BY <1>1
  <2>2. i \in Int /\ OwnStep
    BY <2>1 DEF Indices, ReadStart, Running, OwnStep
  <2> QED BY <2>1, <2>2, SliceKeeps DEF ReadStart
<1>2. CASE ReadUpTo
  <2>1. OwnStep /\ call.i \in Int
    BY <1>2, AtFacts DEF ReadUpTo, IInv, CallSound
  <2> QED BY <1>2, <2>1, PanicKeeps, SliceKeeps DEF ReadUpTo
<1>3. CASE SliceFirst
  <2>1. OwnStep
    BY <1>3, AtFacts DEF SliceFirst
  <2>2. StageSound("sliceLast", call.i, call.meanwhile)
    BY DEF StageSound
  <2> QED BY <1>3, <2>1, <2>2, SliceCompactedKeeps, GotoKeeps DEF SliceFirst
<1>4. CASE SliceLast
  <2>1. OwnStep
    BY <1>4, AtFacts DEF SliceLast
  <2>2. StageSound("Entries", call.i, call.meanwhile)
    BY DEF StageSound
  <2> QED BY <1>4, <2>1, <2>2, PanicKeeps, ReturnKeeps, GotoKeeps DEF SliceLast
<1>5. CASE SliceEntries
  <2>1. OwnStep
    BY <1>5, AtFacts DEF SliceEntries
  <2> QED BY <1>5, <2>1, PanicKeeps, ReturnKeeps, SliceCompactedKeeps DEF SliceEntries
<1> QED BY <1>1, <1>2, <1>3, <1>4, <1>5 DEF Read

-----------------------------------------------------------------------------
(* The messages.                                                           *)

\* raft.handleAppendEntries: what the message carries lies above committed.
LEMMA HandleAppendEntriesKeeps ==
    ASSUME OwnStep, HandleAppendEntries
    PROVE  IInv' /\ Kept
<1>1. PICK ts \in LeaderLogs : \E index \in 0 .. Len(ts), commit \in 0 .. Len(ts) :
        handleAppendEntries(index, IF index = 0 THEN 0 ELSE ts[index], EntriesOf(ts, index), commit)
  BY DEF HandleAppendEntries
<1>2. PICK index \in 0 .. Len(ts), commit \in 0 .. Len(ts) :
        handleAppendEntries(index, IF index = 0 THEN 0 ELSE ts[index], EntriesOf(ts, index), commit)
  BY <1>1
<1> DEFINE es == EntriesOf(ts, index)
           logTerm == IF index = 0 THEN 0 ELSE ts[index]
           c == Min(commit, index + Len(es))
           job == [name |-> "maybeAppend", index |-> index, logTerm |-> logTerm, es |-> es, commit |-> c]
<1>3. Len(ts) \in Nat /\ index \in Nat /\ commit \in Nat
  BY LeaderLogFacts DEF Indices
<1>4. /\ es \in Seq(Items) /\ Len(es) = Len(ts) - index
      /\ \A k \in 1 .. Len(ts) - index :
           es[k] = [Index |-> index + k, Term |-> ts[index + k], Data |-> TRUE]
  BY EntriesFacts
<1>5. index >= committed /\ Then("FirstIndex", index, job) /\ committed \in Nat
  BY <1>2 DEF handleAppendEntries, AskTerm, OwnStep, IInv, LogSound
<1>6. job.name = "maybeAppend" /\ job.index = index /\ job.es = es /\ job.commit = c
  OBVIOUS
<1> HIDE DEF job, es
<1>7. c \in Nat
  BY <1>3, <1>4 DEF Min
<1>8. EntriesAbove(es)
  <2>1. ASSUME NEW k \in 1 .. Len(es) PROVE es[k].Index > committed
    <3>1. k \in 1 .. Len(ts) - index
      BY <1>4
    <3>2. es[k] = [Index |-> index + k, Term |-> ts[index + k], Data |-> TRUE]
      BY <1>4, <3>1, Zenon
    <3>3. es[k].Index = index + k
      BY <3>2
    <3> QED BY <1>3, <1>5, <3>1, <3>3
  <2> QED BY <1>4, <2>1 DEF EntriesAbove
<1> HIDE DEF c
<1>9. JobSound("FirstIndex", index, job)
  BY <1>3, <1>6, <1>7, <1>8 DEF JobSound
<1> QED BY <1>3, <1>5, <1>9, ThenKeeps

\* raft.restore asks for the term of the snapshot's index.
LEMMA HandleSnapshotKeeps ==
    ASSUME OwnStep, HandleSnapshot
    PROVE  IInv' /\ Kept
<1>1. PICK i \in Indices, t \in Terms :
        /\ i \in StorageOffset .. appApplied => StorageTerm(i) = Found(t)
        /\ restore([Index |-> i, Term |-> t])
  BY DEF HandleSnapshot
<1> DEFINE s == [Index |-> i, Term |-> t]
           job == [name |-> "restore", snap |-> s]
<1>2. s \in Metadata /\ s.Index = i /\ s.Term = t /\ i \in Int
  BY DEF Metadata, Indices
<1>3. i > committed /\ Then("FirstIndex", i, job) /\ committed \in Nat
  BY <1>1 DEF restore, AskTerm, OwnStep, IInv, LogSound
<1>4. job.name = "restore" /\ job.snap = s
  OBVIOUS
<1> HIDE DEF job, s
<1>5. Agrees(s)
  <2> SUFFICES ASSUME i \in StorageOffset .. appApplied PROVE TermAt(i) = t
    BY <1>2 DEF Agrees
  <2>1. /\ StorageOffset \in Nat /\ Len(ents) \in Nat /\ StorageLastIndex = StorageOffset + Len(ents) - 1
        /\ appApplied \in StorageOffset .. StorageLastIndex
    BY StorageFacts DEF OwnStep, IInv, AppSound, StorageOffset, StorageLastIndex
  <2>2. ~(i < StorageOffset) /\ ~(i - StorageOffset >= Len(ents))
    BY <1>2, <2>1
  <2>3. Found(TermAt(i)) = Found(t)
    BY <1>1, <2>2 DEF StorageTerm, TermAt
  <2> QED BY <2>3 DEF Found
<1>6. JobSound("FirstIndex", i, job)
  BY <1>2, <1>3, <1>4, <1>5 DEF JobSound
<1> QED BY <1>2, <1>3, <1>6, ThenKeeps

\* The messages and the reads of the log that begin a handler.
LEMMA ReceiveKeeps ==
    ASSUME IInv, Receive
    PROVE  IInv' /\ Kept
<1>1. OwnStep
  <2>1. panicked = "no"
    BY DEF Receive, HandleAppendEntries, handleAppendEntries, HandleHeartbeat, MaybeCommit, HandleSnapshot,
           restore, CommittedEntryInCurrentTerm, LastTerm, Hup, Running
  <2> QED BY <2>1 DEF Receive, OwnStep
<1>2. committed \in Int /\ applied \in Int
  BY DEF IInv, LogSound
<1>3. CASE HandleHeartbeat
  BY <1>1, <1>3, CommitToKeeps DEF HandleHeartbeat, Indices
<1>4. CASE MaybeCommit
  <2>1. PICK i \in Indices, t \in Terms : AskTerm(i, [name |-> "maybeCommit", term |-> t])
    BY <1>4 DEF MaybeCommit
  <2> DEFINE job == [name |-> "maybeCommit", term |-> t]
  <2>2. job.name = "maybeCommit" /\ i \in Nat
    BY DEF Indices
  <2>3. Then("FirstIndex", i, job)
    BY <2>1 DEF AskTerm
  <2> HIDE DEF job
  <2>4. JobSound("FirstIndex", i, job)
    BY <2>2 DEF JobSound
  <2> QED BY <1>1, <2>2, <2>3, <2>4, ThenKeeps
<1>5. CASE CommittedEntryInCurrentTerm
  <2> DEFINE job == [name |-> "committedEntryInCurrentTerm"]
  <2>1. job.name = "committedEntryInCurrentTerm"
    OBVIOUS
  <2>2. Then("FirstIndex", committed, job)
    BY <1>5 DEF CommittedEntryInCurrentTerm, AskTerm
  <2> HIDE DEF job
  <2>3. JobSound("FirstIndex", committed, job)
    BY <2>1 DEF JobSound
  <2> QED BY <1>1, <1>2, <2>2, <2>3, ThenKeeps
<1>6. CASE LastTerm
  <2> DEFINE job == [name |-> "lastTerm"]
  <2>1. job.name = "lastTerm"
    OBVIOUS
  <2>2. Then("lastTerm", 0, job)
    BY <1>6 DEF LastTerm
  <2> HIDE DEF job
  <2>3. JobSound("lastTerm", 0, job)
    BY <2>1 DEF JobSound, TermStages
  <2> QED BY <1>1, <2>2, <2>3, ThenKeeps
<1>7. CASE Hup
  <2>1. Slice("sliceFirst", applied + 1, committed + 1, "hup") /\ applied + 1 \in Int
    BY <1>2, <1>7 DEF Hup
  <2> QED BY <1>1, <2>1, SliceKeeps
<1> QED BY <1>1, <1>3, <1>4, <1>5, <1>6, <1>7, HandleAppendEntriesKeeps, HandleSnapshotKeeps DEF Receive

-----------------------------------------------------------------------------
(* A restart, and the application.                                         *)

\* newLogWithSize: the new instance takes the boundary for committed.  If the
\* instance before it had restored a snapshot up to that boundary, the storage
\* has the snapshot's term there.
LEMMA NewLogKeeps ==
    ASSUME IInv, NewLog
    PROVE  IInv' /\ Kept
<1>1. /\ StorageOffset \in Nat /\ StorageLastIndex \in Nat /\ StorageOffset <= StorageLastIndex
      /\ StorageFirstIndex = StorageOffset + 1
  BY StorageFacts DEF IInv, StorageFirstIndex, StorageOffset
<1>2. /\ committed' = StorageOffset /\ applied' = StorageOffset /\ offset' = StorageLastIndex + 1
      /\ usnapshot' = NoSnapshot /\ call' = Idle /\ panicked' = "no"
      /\ UNCHANGED <<ents, appApplied>>
  BY <1>1 DEF NewLog, storageVars
<1>3. /\ StorageOffset' = StorageOffset /\ StorageLastIndex' = StorageLastIndex
      /\ \A i : TermAt(i)' = TermAt(i)
  BY <1>2 DEF StorageOffset, StorageLastIndex, TermAt
<1>4. StorageSound' /\ LogSound' /\ AppSound' /\ CallSound' /\ PanicsKnown'
  <2>1. StorageSound'
    BY <1>2 DEF IInv, StorageSound, StorageOffset
  <2>2. LogSound'
    BY <1>1, <1>2, <1>3 DEF LogSound
  <2>3. AppSound'
    BY <1>2, <1>3 DEF IInv, AppSound, Agrees
  <2>4. CallSound' /\ PanicsKnown'
    BY <1>2, IdleCallSound DEF PanicsKnown
  <2> QED BY <2>1, <2>2, <2>3, <2>4
<1>5. Kept
  <2> SUFFICES ASSUME NEW i \in Indices, i =< committed, i =< committed',
                      i >= firstIndex - 1, i >= firstIndex' - 1
               PROVE  TermNow(i)' = TermNow(i)
    BY DEF Kept
  <2>1. i \in Nat /\ i \in Int
    BY DEF Indices
  <2>2. firstIndex' - 1 = StorageOffset
    BY <1>1, <1>2, <1>3 DEF firstIndex, StorageFirstIndex, StorageOffset
  <2>3. i = StorageOffset
    BY <1>1, <1>2, <2>1, <2>2
  <2>4. TermNow(i)' = Found(TermAt(i))
    <3>1. TermsAre'
      BY <1>4, TermsAreSound, PTL
    <3>2. TermNow(i)' = IF i \in StorageOffset' .. StorageLastIndex' THEN Found(TermAt(i)') ELSE Found(0)
      BY <1>2, <2>1, <3>1 DEF TermsAre, Found
    <3> QED BY <1>1, <1>3, <2>1, <2>3, <3>2
  <2>5. TermNow(i) = Found(TermAt(i))
    <3>1. CASE usnapshot = NoSnapshot
      BY <1>1, <2>1, <2>3, <3>1, TermIs DEF IInv
    <3>2. CASE usnapshot # NoSnapshot
      <4>1. /\ usnapshot.Index \in Nat /\ committed = usnapshot.Index
            /\ firstIndex - 1 = usnapshot.Index
        BY <3>2 DEF IInv, LogSound, Metadata, Indices, firstIndex, maybeFirstIndex
      <4>2. i = usnapshot.Index
        BY <2>1, <4>1
      <4>3. TermAt(usnapshot.Index) = usnapshot.Term
        BY <1>1, <2>3, <3>2, <4>2 DEF IInv, AppSound, Agrees
      <4> QED BY <2>1, <3>2, <4>2, <4>3, TermIs DEF IInv
    <3> QED BY <3>1, <3>2
  <2> QED BY <2>4, <2>5
<1> QED BY <1>4, <1>5 DEF IInv

\* A step of the application: with a restored snapshot the log does not look at
\* the storage; without one, the stored terms that count must stay.
LEMMA StorageStepKept ==
    ASSUME IInv, StorageSound', LogSound', UNCHANGED <<committed, usnapshot>>,
           usnapshot = NoSnapshot =>
             \A i \in Nat : i <= committed /\ i >= StorageOffset /\ i >= StorageOffset'
                              => TermAt(i)' = TermAt(i)
    PROVE  Kept
<1> SUFFICES ASSUME NEW i \in Indices, i =< committed, i =< committed',
                    i >= firstIndex - 1, i >= firstIndex' - 1
             PROVE  TermNow(i)' = TermNow(i)
  BY DEF Kept
<1>1. i \in Nat /\ i \in Int
  BY DEF Indices
<1>2. TermsAre /\ TermsAre'
  <2>1. TermsAre
    BY TermsAreSound DEF IInv
  <2>2. TermsAre'
    BY TermsAreSound, PTL
  <2> QED BY <2>1, <2>2
<1>3. CASE usnapshot # NoSnapshot
  BY <1>1, <1>2, <1>3 DEF TermsAre, Found
<1>4. CASE usnapshot = NoSnapshot
  <2>1. /\ StorageOffset \in Nat /\ StorageLastIndex \in Nat
        /\ StorageOffset' \in Nat /\ StorageLastIndex' \in Nat
    <3>1. StorageOffset \in Nat /\ StorageLastIndex \in Nat
      BY StorageBounds DEF IInv
    <3>2. (StorageOffset \in Nat /\ StorageLastIndex \in Nat)'
      BY StorageBounds, PTL
    <3> QED BY <3>1, <3>2
  <2>2. committed <= StorageLastIndex /\ committed <= StorageLastIndex' /\ committed \in Nat
    BY <1>4 DEF IInv, LogSound
  <2>3. i >= StorageOffset /\ i >= StorageOffset'
    BY <1>1, <1>4, <2>1 DEF firstIndex, StorageFirstIndex, StorageOffset
  <2>4. i \in StorageOffset .. StorageLastIndex /\ i \in StorageOffset' .. StorageLastIndex'
    BY <1>1, <2>1, <2>2, <2>3
  <2>5. TermNow(i) = Found(TermAt(i))
    BY <1>1, <1>2, <1>4, <2>4 DEF TermsAre
  <2>6. TermNow(i)' = Found(TermAt(i)')
    BY <1>1, <1>2, <1>4, <2>4 DEF TermsAre, Found
  <2>7. TermAt(i)' = TermAt(i)
    BY <1>1, <1>4, <2>3
  <2> QED BY <2>5, <2>6, <2>7
<1> QED BY <1>3, <1>4

\* What a handler carries outlasts a step of the application that keeps the
\* terms of what it has applied.
LEMMA JobStays ==
    ASSUME IInv, panicked = "no", UNCHANGED <<committed, usnapshot, panicked>>,
           call'.at = call.at, call'.i = call.i, call'.job = call.job,
           call' = [at |-> call'.at, i |-> call'.i, job |-> call'.job, meanwhile |-> call'.meanwhile],
           \A s \in Metadata : committed < s.Index /\ Agrees(s) => Agrees(s)',
           appApplied' \in Int,
           usnapshot = NoSnapshot => appApplied' = appApplied \/ appApplied' <= committed,
           StageSound(call.at, call.i, call.meanwhile)'
    PROVE  CallSound' /\ PanicsKnown'
<1>1. /\ call.i \in Int /\ JobSound(call.at, call.i, call.job) /\ committed \in Nat
  BY DEF IInv, CallSound, LogSound
<1>2. ASSUME usnapshot = NoSnapshot, appApplied <= call.i, committed <= call.i
      PROVE  appApplied' <= call.i
  <2>1. CASE appApplied' = appApplied
    BY <1>2, <2>1
  <2>2. CASE appApplied' <= committed
    BY <1>1, <1>2, <2>2
  <2> QED BY <1>2, <2>1, <2>2
<1>3. JobSound(call.at, call.i, call.job)'
  BY <1>1, <1>2 DEF JobSound, EntriesAbove
<1>4. CallSound'
  BY <1>1, <1>3 DEF CallSound
<1>5. PanicsKnown'
  BY DEF PanicsKnown
<1> QED BY <1>4, <1>5

\* What the application did is remembered in the call, if at all.
LEMMA MeanwhileFacts ==
    ASSUME IInv, NEW what, NEW stages, Meanwhile(what, stages)
    PROVE  /\ call'.at = call.at /\ call'.i = call.i /\ call'.job = call.job
           /\ call' = [at |-> call'.at, i |-> call'.i, job |-> call'.job, meanwhile |-> call'.meanwhile]
           /\ call'.meanwhile = IF call.at \in stages THEN call.meanwhile \cup {what} ELSE call.meanwhile
           /\ UNCHANGED <<committed, applied, offset, usnapshot, panicked>>
<1> DEFINE mw == call.meanwhile \cup {what}
<1>1. call = [at |-> call.at, i |-> call.i, job |-> call.job, meanwhile |-> call.meanwhile]
  BY DEF IInv, CallSound
<1>2. CASE call.at \in stages
  <2>1. call' = [call EXCEPT !.meanwhile = mw]
    BY <1>2 DEF Meanwhile
  <2> HIDE DEF mw
  <2>2. call' = [at |-> call.at, i |-> call.i, job |-> call.job, meanwhile |-> mw]
    BY <1>1, <2>1
  <2> QED BY <1>2, <2>2 DEF Meanwhile, logVars, mw
<1>3. CASE call.at \notin stages
  BY <1>1, <1>3 DEF Meanwhile, logVars
<1> QED BY <1>2, <1>3

\* The application applies what is committed and stored.
LEMMA AppApplyKeeps ==
    ASSUME IInv, AppApply
    PROVE  IInv' /\ Kept
<1>1. /\ appApplied < Min(committed, StorageLastIndex) /\ appApplied' = appApplied + 1
      /\ SnapshotSaved /\ panicked = "no"
      /\ UNCHANGED <<ents, committed, applied, offset, usnapshot, call, panicked>>
  BY DEF AppApply, appUnchanged, storageVars, logVars
<1>2. StorageSound' /\ LogSound'
  BY <1>1 DEF IInv, StorageSound, LogSound, StorageOffset, StorageLastIndex
<1>3. /\ StorageOffset' = StorageOffset /\ StorageLastIndex' = StorageLastIndex
      /\ \A i : TermAt(i)' = TermAt(i)
  BY <1>1 DEF StorageOffset, StorageLastIndex, TermAt
<1>4. /\ StorageOffset \in Nat /\ StorageLastIndex \in Nat /\ committed \in Nat
      /\ appApplied \in StorageOffset .. StorageLastIndex
  BY StorageFacts DEF IInv, AppSound, LogSound
<1>5. appApplied' \in StorageOffset .. StorageLastIndex /\ appApplied' <= committed
  BY <1>1, <1>4 DEF Min
<1>6. ASSUME NEW s \in Metadata, Agrees(s), committed < s.Index \/ s.Index <= StorageOffset
      PROVE  Agrees(s)'
  <2>1. s.Index \in Nat
    BY DEF Metadata, Indices
  <2>2. s.Index \in StorageOffset .. appApplied' => s.Index \in StorageOffset .. appApplied
    BY <1>4, <1>5, <1>6, <2>1
  <2> QED BY <1>3, <1>6, <2>2 DEF Agrees
<1>7. usnapshot # NoSnapshot => Agrees(usnapshot)'
  <2> SUFFICES ASSUME usnapshot # NoSnapshot PROVE Agrees(usnapshot)'
    OBVIOUS
  <2>1. usnapshot \in Metadata /\ Agrees(usnapshot) /\ usnapshot.Index \in Nat
    BY DEF IInv, LogSound, AppSound, Metadata, Indices
  <2>2. usnapshot.Index <= StorageOffset
    BY <1>1, <1>4, <2>1 DEF SnapshotSaved
  <2> QED BY <1>1, <1>6, <2>1, <2>2 DEF Agrees
<1>8. AppSound'
  BY <1>1, <1>3, <1>5, <1>7 DEF AppSound
<1>9. CallSound' /\ PanicsKnown'
  <2>1. StageSound(call.at, call.i, call.meanwhile)'
    BY <1>1, <1>3 DEF IInv, CallSound, StageSound
  <2>2. call = [at |-> call.at, i |-> call.i, job |-> call.job, meanwhile |-> call.meanwhile]
    BY DEF IInv, CallSound
  <2>3. appApplied' \in Int
    BY <1>4, <1>5
  <2> QED BY <1>1, <1>5, <1>6, <2>1, <2>2, <2>3, JobStays
<1> QED BY <1>1, <1>2, <1>8, <1>9, TermsUnchanged DEF IInv

\* MemoryStorage.Append over the tail: what is committed or applied stays.
LEMMA AppStoresKeeps ==
    ASSUME IInv, AppStores
    PROVE  IInv' /\ Kept
<1>1. PICK ts \in LeaderLogs : \E from \in 0 .. Len(ts) - 1 :
        Keeps(EntriesOf(ts, from)) /\ StorageAppend(EntriesOf(ts, from))
  BY DEF AppStores
<1>2. PICK from \in 0 .. Len(ts) - 1 :
        Keeps(EntriesOf(ts, from)) /\ StorageAppend(EntriesOf(ts, from))
  BY <1>1
<1>3. /\ SnapshotSaved /\ panicked = "no" /\ Meanwhile("stored", {"Term"})
      /\ UNCHANGED <<committed, applied, offset, usnapshot, panicked, appApplied>>
  BY DEF AppStores, Meanwhile, logVars
<1>4. /\ StorageSound' /\ StorageOffset' = StorageOffset /\ StorageLastIndex' = Len(ts)
  BY <1>2, AppendFacts DEF IInv
<1>5. PICK n \in StorageOffset + 1 .. StorageLastIndex + 1 :
        /\ from < n /\ n <= Len(ts)
        /\ \A i \in StorageOffset .. Len(ts) : TermAt(i)' = IF i < n THEN TermAt(i) ELSE ts[i]
  BY <1>2, AppendFacts DEF IInv
<1>6. /\ StorageOffset \in Nat /\ StorageLastIndex \in Nat /\ committed \in Nat
      /\ appApplied \in StorageOffset .. StorageLastIndex /\ Len(ts) \in Nat /\ from \in Nat
      /\ Len(ts) - from >= 1 /\ from \in 0 .. Len(ts)
  BY StorageFacts, LeaderLogFacts DEF IInv, AppSound, LogSound, Indices
<1> DEFINE es == EntriesOf(ts, from)
<1>7. /\ Len(es) = Len(ts) - from /\ DOMAIN es = 1 .. Len(ts) - from
      /\ \A k \in 1 .. Len(ts) - from : es[k].Index = from + k /\ es[k].Term = ts[from + k]
  <2>1. /\ es \in Seq(Items) /\ Len(es) = Len(ts) - from
        /\ \A k \in 1 .. Len(ts) - from :
             es[k] = [Index |-> from + k, Term |-> ts[from + k], Data |-> TRUE]
    BY <1>6, EntriesFacts
  <2> HIDE DEF es
  <2>2. DOMAIN es = 1 .. Len(es)
    BY <2>1, LenProperties
  <2> QED BY <2>1, <2>2
<1>8. Keeps(es)
  BY <1>2
<1> HIDE DEF es
<1>9. Len(ts) >= Min(Settled, StorageLastIndex)
  <2>1. Len(es) \in 1 .. Len(ts) - from /\ from + Len(es) = Len(ts)
    BY <1>6, <1>7
  <2>2. es[Len(es)].Index = Len(ts)
    BY <1>7, <2>1
  <2> QED BY <1>8, <2>2 DEF Keeps
<1>10. Settled \in Nat /\ committed <= Settled /\ appApplied <= Settled
  BY <1>6 DEF Settled
<1>11. appApplied <= Len(ts) /\ (committed <= StorageLastIndex => committed <= Len(ts))
  BY <1>6, <1>9, <1>10 DEF Min
<1>12. LogSound'
  BY <1>3, <1>4, <1>11 DEF IInv, LogSound
<1>13. ASSUME NEW i \in Nat, i <= Settled, i >= StorageOffset, i <= StorageLastIndex, i <= Len(ts)
       PROVE  TermAt(i)' = TermAt(i)
  <2>1. i \in StorageOffset .. Len(ts)
    BY <1>6, <1>13
  <2>2. CASE i < n
    BY <1>5, <2>1, <2>2
  <2>3. CASE ~(i < n)
    <3>1. i - from \in 1 .. Len(ts) - from /\ from + (i - from) = i /\ i > StorageOffset
      BY <1>5, <1>6, <1>13, <2>1, <2>3
    <3>2. es[i - from].Index = i /\ es[i - from].Term = ts[i]
      BY <1>7, <3>1
    <3>3. StorageTerm(i) \in {Found(ts[i]), Failed("ErrUnavailable")}
      BY <1>7, <1>8, <1>13, <3>1, <3>2 DEF Keeps
    <3>4. StorageTerm(i) = Found(TermAt(i))
      <4>1. Len(ents) \in Nat /\ StorageLastIndex = StorageOffset + Len(ents) - 1
        BY StorageFacts DEF IInv, StorageLastIndex, StorageOffset
      <4>2. ~(i < StorageOffset) /\ ~(i - StorageOffset >= Len(ents))
        BY <1>6, <1>13, <4>1
      <4> QED BY <4>2 DEF StorageTerm, TermAt
    <3>5. TermAt(i) = ts[i]
      BY <3>3, <3>4 DEF Found, Failed
    <3> QED BY <1>5, <2>1, <2>3, <3>5
  <2> QED BY <2>2, <2>3
<1>14. ASSUME NEW s \in Metadata, Agrees(s) PROVE Agrees(s)'
  <2> SUFFICES ASSUME s.Index \in StorageOffset .. appApplied PROVE TermAt(s.Index)' = s.Term
    BY <1>3, <1>4 DEF Agrees
  <2>1. TermAt(s.Index)' = TermAt(s.Index)
    <3>1. /\ s.Index \in Nat /\ s.Index <= Settled /\ s.Index >= StorageOffset
          /\ s.Index <= StorageLastIndex /\ s.Index <= Len(ts)
      BY <1>6, <1>10, <1>11
    <3> QED BY <1>13, <3>1
  <2> QED BY <1>14, <2>1 DEF Agrees
<1>15. AppSound'
  <2>1. appApplied' \in StorageOffset' .. StorageLastIndex'
    BY <1>3, <1>4, <1>6, <1>11
  <2>2. ASSUME usnapshot # NoSnapshot PROVE Agrees(usnapshot)'
    <3>1. PICK s \in Metadata : s = usnapshot
      BY <2>2 DEF IInv, LogSound
    <3>2. Agrees(s)'
      BY <1>14, <2>2, <3>1 DEF IInv, AppSound
    <3> QED BY <1>3, <3>1, <3>2 DEF Agrees
  <2> QED BY <1>3, <2>1, <2>2 DEF AppSound
<1>16. CallSound' /\ PanicsKnown'
  <2>1. /\ call'.at = call.at /\ call'.i = call.i /\ call'.job = call.job
        /\ call' = [at |-> call'.at, i |-> call'.i, job |-> call'.job, meanwhile |-> call'.meanwhile]
        /\ call'.meanwhile = IF call.at \in {"Term"} THEN call.meanwhile \cup {"stored"} ELSE call.meanwhile
    BY <1>3, MeanwhileFacts
  <2>2. StageSound(call.at, call.i, call.meanwhile)
    BY DEF IInv, CallSound
  <2>3. StageSound(call.at, call.i, call.meanwhile)'
    BY <1>3, <1>4, <2>1, <2>2 DEF StageSound
  <2>4. appApplied' \in Int /\ appApplied' = appApplied
    BY <1>3, <1>6
  <2> QED BY <1>3, <1>14, <2>1, <2>3, <2>4, JobStays
<1>17. ASSUME usnapshot = NoSnapshot, NEW i \in Nat, i <= committed, i >= StorageOffset
       PROVE  TermAt(i)' = TermAt(i)
  <2>1. committed <= StorageLastIndex /\ committed <= Len(ts)
    BY <1>11, <1>17 DEF IInv, LogSound
  <2>2. i <= Settled /\ i <= StorageLastIndex /\ i <= Len(ts)
    BY <1>6, <1>10, <1>17, <2>1
  <2> QED BY <1>13, <1>17, <2>2
<1>18. Kept
  BY <1>3, <1>4, <1>12, <1>17, StorageStepKept
<1> QED BY <1>4, <1>12, <1>15, <1>16, <1>18 DEF IInv

\* MemoryStorage.Compact up to what is applied.
LEMMA AppCompactsKeeps ==
    ASSUME IInv, AppCompacts
    PROVE  IInv' /\ Kept
<1>1. PICK i \in 0 .. appApplied : StorageCompact(i)
  BY DEF AppCompacts
<1>2. /\ panicked = "no" /\ Meanwhile("compacted", {"LastIndex", "Term"})
      /\ UNCHANGED <<committed, applied, offset, usnapshot, panicked, appApplied>>
  BY DEF AppCompacts, Meanwhile, logVars
<1>3. /\ StorageOffset \in Nat /\ StorageLastIndex \in Nat /\ committed \in Nat
      /\ appApplied \in StorageOffset .. StorageLastIndex /\ i \in Nat /\ i <= appApplied
  BY StorageFacts DEF IInv, AppSound, LogSound
<1>4. /\ StorageSound' /\ i \in StorageOffset + 1 .. StorageLastIndex
      /\ StorageOffset' = i /\ StorageLastIndex' = StorageLastIndex
      /\ \A j \in i .. StorageLastIndex : TermAt(j)' = TermAt(j)
  BY <1>1, <1>3, CompactFacts DEF IInv
<1>5. LogSound'
  BY <1>2, <1>4 DEF IInv, LogSound
<1>6. ASSUME NEW s \in Metadata, Agrees(s) PROVE Agrees(s)'
  <2> SUFFICES ASSUME s.Index \in i .. appApplied PROVE TermAt(s.Index)' = s.Term
    BY <1>2, <1>4 DEF Agrees
  <2>1. s.Index \in StorageOffset .. appApplied /\ s.Index \in i .. StorageLastIndex
    BY <1>3, <1>4
  <2>2. TermAt(s.Index)' = TermAt(s.Index)
    BY <1>4, <2>1
  <2> QED BY <1>6, <2>1, <2>2 DEF Agrees
<1>7. AppSound'
  <2>1. appApplied' \in StorageOffset' .. StorageLastIndex'
    BY <1>2, <1>3, <1>4
  <2>2. ASSUME usnapshot # NoSnapshot PROVE Agrees(usnapshot)'
    <3>1. PICK s \in Metadata : s = usnapshot
      BY <2>2 DEF IInv, LogSound
    <3>2. Agrees(s)'
      BY <1>6, <2>2, <3>1 DEF IInv, AppSound
    <3> QED BY <1>2, <3>1, <3>2 DEF Agrees
  <2> QED BY <1>2, <2>1, <2>2 DEF AppSound
<1>8. CallSound' /\ PanicsKnown'
  <2>1. /\ call'.at = call.at /\ call'.i = call.i /\ call'.job = call.job
        /\ call' = [at |-> call'.at, i |-> call'.i, job |-> call'.job, meanwhile |-> call'.meanwhile]
        /\ call'.meanwhile = IF call.at \in {"LastIndex", "Term"}
                             THEN call.meanwhile \cup {"compacted"} ELSE call.meanwhile
    BY <1>2, MeanwhileFacts
  <2>2. StageSound(call.at, call.i, call.meanwhile)
    BY DEF IInv, CallSound
  <2>3. StageSound(call.at, call.i, call.meanwhile)'
    BY <1>2, <1>4, <2>1, <2>2 DEF StageSound
  <2>4. appApplied' \in Int /\ appApplied' = appApplied
    BY <1>2, <1>3
  <2> QED BY <1>2, <1>6, <2>1, <2>3, <2>4, JobStays
<1>9. Kept
  <2>1. ASSUME usnapshot = NoSnapshot, NEW j \in Nat, j <= committed, j >= StorageOffset'
        PROVE  TermAt(j)' = TermAt(j)
    <3>1. committed <= StorageLastIndex
      BY <2>1 DEF IInv, LogSound
    <3>2. j \in i .. StorageLastIndex
      BY <1>3, <1>4, <2>1, <3>1
    <3> QED BY <1>4, <3>2
  <2> QED BY <1>2, <1>4, <1>5, <2>1, StorageStepKept
<1> QED BY <1>4, <1>5, <1>7, <1>8, <1>9 DEF IInv

\* The storage panics on a snapshot without metadata.
LEMMA AppPanicKeeps ==
    ASSUME IInv, panicked = "no", AppPanic
    PROVE  IInv' /\ Kept
<1>1. OwnStep /\ Panic("nil metadata")
  BY DEF AppPanic, OwnStep, Panic
<1> QED BY <1>1, PanicKeeps

\* MemoryStorage.CreateSnapshot touches the metadata only.
LEMMA AppCreatesSnapshotKeeps ==
    ASSUME IInv, AppCreatesSnapshot
    PROVE  IInv' /\ Kept
<1>1. CASE snapshot = NoSnapshot
  BY <1>1, AppPanicKeeps DEF AppCreatesSnapshot
<1>2. CASE snapshot # NoSnapshot
  <2>1. UNCHANGED <<ents, committed, applied, offset, usnapshot, call, panicked, appApplied>>
    BY <1>2 DEF AppCreatesSnapshot, StorageCreateSnapshot, appUnchanged, logVars
  <2>2. CallSound'
    <3>1. JobSound(call.at, call.i, call.job)'
      BY <2>1, StillSound DEF IInv, CallSound
    <3>2. StageSound(call.at, call.i, call.meanwhile)'
      BY <2>1, StillSound DEF IInv, CallSound
    <3> QED BY <2>1, <3>1, <3>2 DEF IInv, CallSound
  <2>3. PanicsKnown'
    BY <2>1 DEF IInv, PanicsKnown
  <2> QED BY <2>1, <2>2, <2>3, StillSound DEF IInv
<1> QED BY <1>1, <1>2

\* MemoryStorage.ApplySnapshot of the snapshot the instance has restored.
LEMMA AppAppliesSnapshotKeeps ==
    ASSUME IInv, AppAppliesSnapshot
    PROVE  IInv' /\ Kept
<1>1. CASE snapshot = NoSnapshot
  BY <1>1, AppPanicKeeps DEF AppAppliesSnapshot
<1>2. CASE snapshot # NoSnapshot
  <2>1. /\ usnapshot # NoSnapshot /\ StorageApplySnapshot(usnapshot) /\ appApplied' = usnapshot.Index
        /\ panicked = "no"
        /\ UNCHANGED <<committed, applied, offset, usnapshot, call, panicked>>
    BY <1>2 DEF AppAppliesSnapshot, appUnchanged, logVars
  <2>2. usnapshot \in Metadata /\ usnapshot.Index \in Nat /\ committed = usnapshot.Index
    BY <2>1 DEF IInv, LogSound, Metadata, Indices
  <2>3. /\ StorageSound' /\ StorageOffset' = usnapshot.Index /\ StorageLastIndex' = usnapshot.Index
        /\ TermAt(usnapshot.Index)' = usnapshot.Term
    BY <2>1, <2>2, SnapshotFacts
  <2>4. LogSound'
    BY <2>1 DEF IInv, LogSound
  <2>5. AppSound'
    BY <2>1, <2>2, <2>3 DEF AppSound, Agrees
  <2>6. CallSound' /\ PanicsKnown'
    <3>1. ASSUME NEW s \in Metadata, committed < s.Index PROVE Agrees(s)'
      <4>1. s.Index \in Nat /\ ~(s.Index \in StorageOffset' .. appApplied')
        BY <2>1, <2>2, <2>3, <3>1 DEF Metadata, Indices
      <4> QED BY <4>1 DEF Agrees
    <3>2. StageSound(call.at, call.i, call.meanwhile)'
      BY <2>1 DEF IInv, CallSound, StageSound
    <3>3. call = [at |-> call.at, i |-> call.i, job |-> call.job, meanwhile |-> call.meanwhile]
      BY DEF IInv, CallSound
    <3>4. appApplied' \in Int
      BY <2>1, <2>2
    <3> QED BY <2>1, <3>1, <3>2, <3>3, <3>4, JobStays
  <2>7. Kept
    BY <2>1, <2>3, <2>4, StorageStepKept
  <2> QED BY <2>3, <2>4, <2>5, <2>6, <2>7 DEF IInv
<1> QED BY <1>1, <1>2

-----------------------------------------------------------------------------
(* The theorems.                                                           *)

\* A new instance over an empty storage.
LEMMA InitSound == Init => IInv
<1> SUFFICES ASSUME Init PROVE IInv
  OBVIOUS
<1>1. ents = <<[Index |-> 0, Term |-> 0, Data |-> FALSE]>>
  BY DEF Init, StorageInit, Dummy
<1> DEFINE dummy == [Index |-> 0, Term |-> 0, Data |-> FALSE]
<1>2. dummy \in Items
  BY BoundsAssumption DEF Items
<1>3. dummy.Index = 0 /\ dummy.Term = 0 /\ dummy.Data = FALSE
  OBVIOUS
<1> HIDE DEF dummy
<1>4. ents \in Seq(Items) /\ Len(ents) = 1 /\ ents[1] = dummy
  BY <1>1, <1>2 DEF dummy
<1>5. StorageOffset = 0 /\ StorageLastIndex = 0
  BY <1>3, <1>4 DEF StorageOffset, StorageLastIndex
<1>6. ASSUME NEW k \in 1 .. Len(ents) PROVE ents[k].Index = 0 + k - 1 /\ ents[k].Data = (k > 1)
  <2>1. k = 1 /\ (k > 1) = FALSE
    BY <1>4
  <2>2. ents[k].Index = 0 + k - 1
    BY <1>3, <1>4, <2>1
  <2>3. ents[k].Data = (k > 1)
    BY <1>3, <1>4, <2>1, Zenon
  <2> QED BY <2>2, <2>3
<1>7. StorageSound
  BY <1>3, <1>4, <1>5, <1>6 DEF StorageSound
<1>8. LogSound /\ AppSound /\ PanicsKnown
  BY <1>5 DEF Init, LogSound, AppSound, PanicsKnown
<1>9. CallSound
  BY DEF Init, CallSound, JobSound, StageSound, Idle, TermStages
<1> QED BY <1>7, <1>8, <1>9 DEF IInv

\* Every step keeps the invariant and the committed entries.
LEMMA NextKeeps == IInv /\ [Next]_vars => IInv' /\ [Kept]_vars
<1> SUFFICES ASSUME IInv, [Next]_vars PROVE IInv' /\ [Kept]_vars
  OBVIOUS
<1>1. CASE Next
  BY <1>1, ReceiveKeeps, TermFirstIndexKeeps, TermLastIndexKeeps, TermStoredKeeps, CommitInRangeKeeps,
     ConflictInRangeKeeps, HintIndexKeeps, HintInRangeKeeps, LastTermIndexKeeps, FastForwardKeeps,
     ReadKeeps, NewLogKeeps, AppApplyKeeps, AppStoresKeeps, AppCompactsKeeps,
     AppCreatesSnapshotKeeps, AppAppliesSnapshotKeeps DEF Next
<1>2. CASE UNCHANGED vars
  <2>1. UNCHANGED <<ents, committed, applied, offset, usnapshot, appApplied, call, panicked>>
    BY <1>2 DEF vars
  <2>2. CallSound'
    <3>1. JobSound(call.at, call.i, call.job)'
      BY <2>1, StillSound DEF IInv, CallSound
    <3>2. StageSound(call.at, call.i, call.meanwhile)'
      BY <2>1, StillSound DEF IInv, CallSound
    <3> QED BY <2>1, <3>1, <3>2 DEF IInv, CallSound
  <2>3. PanicsKnown'
    BY <2>1 DEF IInv, PanicsKnown
  <2> QED BY <1>2, <2>1, <2>2, <2>3, StillSound DEF IInv
<1> QED BY <1>1, <1>2

\* The storage, the instance, the application and the handler under way stay
\* consistent.
THEOREM Invariant == Spec => []IInv
  BY InitSound, NextKeeps, PTL DEF Spec

\* raftLog.committed never runs past the log, nor applied past committed.
THEOREM CommitStaysWithinLog == Spec => []CommitWithinLog
<1>1. IInv => CommitWithinLog
  BY LastIndexFacts DEF IInv, LogSound, CommitWithinLog
<1> QED BY <1>1, Invariant, PTL

\* No message panics by conflicting with what is committed, and a term that must
\* be known is missing only because of what the application did at the storage
\* between two of raftLog.term's calls.
THEOREM PanicsStayKnown == Spec => []PanicsKnown
  BY Invariant, PTL DEF IInv

\* No step changes the term of an index that stays committed.
THEOREM CommittedStaysUnchanged == Spec => CommittedUnchanged
<1>1. IInv /\ [Next]_vars =>
        [\A i \in Indices :
           /\ i =< committed /\ i =< committed'
           /\ i >= firstIndex - 1 /\ i >= firstIndex' - 1
           => TermNow(i)' = TermNow(i)]_vars
  BY NextKeeps DEF Kept
<1> QED BY <1>1, Invariant, PTL DEF Spec, CommittedUnchanged

-----------------------------------------------------------------------------
(* The storage implements LogWindow.                                       *)

\* The refinement mapping.
Stored == [i \in StorageOffset .. StorageLastIndex |-> ents[i - StorageOffset + 1].Term]

\* The boundary and the last index of the window are those of the storage.
LEMMA WindowEnds ==
    ASSUME StorageSound
    PROVE  Window!Boundary = StorageOffset /\ Window!Last = StorageLastIndex
<1>1. StorageOffset \in Int /\ StorageLastIndex \in Int /\ StorageOffset <= StorageLastIndex
  BY StorageFacts
<1> DEFINE D == StorageOffset .. StorageLastIndex
<1>2. DOMAIN Stored = D
  BY DEF Stored
<1>3. Window!Boundary = CHOOSE i \in D : \A j \in D : i =< j
  BY DEF Window!Boundary
<1>4. Window!Last = CHOOSE i \in D : \A j \in D : j =< i
  BY DEF Window!Last
<1>5. \A i \in D : (\A j \in D : i =< j) <=> i = StorageOffset
  BY <1>1
<1>6. \A i \in D : (\A j \in D : j =< i) <=> i = StorageLastIndex
  BY <1>1
<1>7. StorageOffset \in D /\ StorageLastIndex \in D
  BY <1>1
<1> HIDE DEF D
<1> QED BY <1>3, <1>4, <1>5, <1>6, <1>7

\* MemoryStorage.Append stores a run over the tail of the window.
LEMMA AppStoresIsStore ==
    ASSUME IInv, AppStores
    PROVE  Window!Store
<1>1. PICK ts \in LeaderLogs : \E from \in 0 .. Len(ts) - 1 : StorageAppend(EntriesOf(ts, from))
  BY DEF AppStores
<1>2. PICK from \in 0 .. Len(ts) - 1 : StorageAppend(EntriesOf(ts, from))
  BY <1>1
<1>3. StorageOffset' = StorageOffset /\ StorageLastIndex' = Len(ts)
  BY <1>2, AppendFacts DEF IInv
<1>4. PICK n \in StorageOffset + 1 .. StorageLastIndex + 1 :
        /\ n <= Len(ts)
        /\ \A i \in StorageOffset .. Len(ts) : TermAt(i)' = IF i < n THEN TermAt(i) ELSE ts[i]
  BY <1>2, AppendFacts DEF IInv
<1>5. Len(ts) \in Indices /\ Len(ts) \in Nat /\ \A i \in 1 .. Len(ts) : ts[i] \in Terms
  BY LeaderLogFacts DEF Indices
<1>6. StorageOffset \in Nat /\ StorageLastIndex \in Nat /\ n \in Nat \ {0}
  BY StorageBounds, <1>4 DEF IInv
<1> DEFINE terms == [k \in n .. Len(ts) |-> ts[k]]
<1>7. terms \in [n .. Len(ts) -> Terms]
  BY <1>5, <1>6
<1>8. Stored' = [k \in StorageOffset .. Len(ts) |-> IF k < n THEN Stored[k] ELSE terms[k]]
  <2>1. Stored' = [k \in StorageOffset .. Len(ts) |-> TermAt(k)']
    BY <1>3 DEF Stored, TermAt
  <2>2. ASSUME NEW k \in StorageOffset .. Len(ts)
        PROVE  TermAt(k)' = IF k < n THEN Stored[k] ELSE terms[k]
    <3>1. CASE k < n
      <4>1. k \in StorageOffset .. StorageLastIndex
        BY <1>4, <1>6, <3>1
      <4>2. Stored[k] = TermAt(k)
        BY <4>1 DEF Stored, TermAt
      <4> QED BY <1>4, <3>1, <4>2
    <3>2. CASE ~(k < n)
      <4>1. k \in n .. Len(ts)
        BY <1>5, <1>6, <3>2
      <4> QED BY <1>4, <3>2, <4>1
    <3> QED BY <3>1, <3>2
  <2> HIDE DEF terms
  <2> QED BY <2>1, <2>2
<1> HIDE DEF terms
<1>9. \E tt \in [n .. Len(ts) -> Terms] :
        Stored' = [k \in StorageOffset .. Len(ts) |-> IF k < n THEN Stored[k] ELSE tt[k]]
  BY <1>7, <1>8
<1>10. Window!Boundary = StorageOffset /\ Window!Last = StorageLastIndex
  BY WindowEnds DEF IInv
<1>11. \E i \in Window!Boundary + 1 .. Window!Last + 1, j \in Indices :
         /\ i =< j
         /\ \E tt \in [i .. j -> Terms] :
              Stored' = [k \in Window!Boundary .. j |-> IF k < i THEN Stored[k] ELSE tt[k]]
  BY <1>4, <1>5, <1>9, <1>10
<1> QED BY <1>11 DEF Window!Store, Stored

\* MemoryStorage.Compact moves the boundary up.
LEMMA AppCompactsIsDiscard ==
    ASSUME IInv, AppCompacts
    PROVE  Window!Discard
<1>1. PICK i \in 0 .. appApplied : StorageCompact(i)
  BY DEF AppCompacts
<1>2. i \in Nat /\ StorageOffset \in Nat /\ StorageLastIndex \in Nat
  BY StorageBounds DEF IInv, AppSound
<1>3. /\ i \in StorageOffset + 1 .. StorageLastIndex
      /\ StorageOffset' = i /\ StorageLastIndex' = StorageLastIndex
      /\ \A j \in i .. StorageLastIndex : TermAt(j)' = TermAt(j)
  BY <1>1, <1>2, CompactFacts DEF IInv
<1>4. i \in DOMAIN Stored
  BY <1>2, <1>3 DEF Stored
<1>5. Stored' = [k \in i .. StorageLastIndex |-> Stored[k]]
  <2>1. Stored' = [k \in i .. StorageLastIndex |-> TermAt(k)']
    BY <1>3 DEF Stored, TermAt
  <2>2. ASSUME NEW k \in i .. StorageLastIndex PROVE TermAt(k)' = Stored[k]
    <3>1. k \in StorageOffset .. StorageLastIndex
      BY <1>2, <1>3
    <3>2. Stored[k] = TermAt(k)
      BY <3>1 DEF Stored, TermAt
    <3> QED BY <1>3, <3>2
  <2> QED BY <2>1, <2>2
<1>6. Window!Last = StorageLastIndex
  BY WindowEnds DEF IInv
<1>7. \E j \in DOMAIN Stored : Stored' = [k \in j .. Window!Last |-> Stored[k]]
  BY <1>4, <1>5, <1>6
<1> QED BY <1>7 DEF Window!Discard, Stored

\* MemoryStorage.ApplySnapshot installs the snapshot.
LEMMA AppAppliesSnapshotIsInstall ==
    ASSUME IInv, AppAppliesSnapshot, snapshot # NoSnapshot
    PROVE  Window!Install
<1>1. usnapshot # NoSnapshot /\ StorageApplySnapshot(usnapshot)
  BY DEF AppAppliesSnapshot
<1> DEFINE i == usnapshot.Index
           t == usnapshot.Term
<1>2. usnapshot \in Metadata /\ i \in Indices /\ t \in Terms /\ i \in Nat
  BY <1>1 DEF IInv, LogSound, Metadata, Indices
<1>3. /\ StorageOffset' = i /\ StorageLastIndex' = i
      /\ ents'[i - i + 1].Term = t
  BY <1>1, <1>2, SnapshotFacts DEF TermAt
<1> HIDE DEF i, t
<1>4. i .. i = {i}
  BY <1>2
<1>5. Stored' = [k \in {i} |-> t]
  BY <1>3, <1>4 DEF Stored
<1>6. \E j \in Indices, u \in Terms : Stored' = [k \in {j} |-> u]
  BY <1>2, <1>5
<1> QED BY <1>6 DEF Window!Install, Stored

\* A step of the instance leaves the storage alone.
LEMMA OwnStepsStoreNothing ==
    ASSUME \/ Receive \/ TermFirstIndex \/ TermLastIndex \/ TermStored \/ CommitInRange
           \/ ConflictInRange \/ HintIndex \/ HintInRange \/ LastTermIndex \/ FastForward
           \/ Read \/ NewLog \/ AppApply
    PROVE  UNCHANGED ents
<1>1. CASE Receive \/ NewLog \/ AppApply
  BY <1>1 DEF Receive, NewLog, AppApply, storageVars
<1>2. \A at : At(at) => UNCHANGED ents
  BY DEF At, storageVars
<1>3. CASE Read
  <2>1. CASE \E i \in Indices : ReadStart(i)
    BY <2>1 DEF ReadStart, storageVars
  <2> QED BY <1>2, <1>3, <2>1 DEF Read, ReadUpTo, SliceFirst, SliceLast, SliceEntries
<1>4. CASE TermFirstIndex \/ TermLastIndex \/ TermStored
  BY <1>2, <1>4 DEF TermFirstIndex, TermLastIndex, TermStored
<1>5. CASE CommitInRange \/ ConflictInRange \/ HintIndex \/ HintInRange \/ LastTermIndex \/ FastForward
  BY <1>2, <1>5 DEF CommitInRange, ConflictInRange, HintIndex, HintInRange, LastTermIndex, FastForward
<1> QED BY <1>1, <1>3, <1>4, <1>5

\* Every other step leaves the window alone.
LEMMA WindowStep ==
    ASSUME IInv, [Next]_vars
    PROVE  [Window!Next]_Stored
<1>1. CASE UNCHANGED ents
  BY <1>1 DEF Stored, StorageOffset, StorageLastIndex
<1>2. CASE AppStores
  BY <1>2, AppStoresIsStore DEF Window!Next
<1>3. CASE AppCompacts
  BY <1>3, AppCompactsIsDiscard DEF Window!Next
<1>4. CASE AppAppliesSnapshot
  <2>1. CASE snapshot = NoSnapshot
    BY <1>1, <1>4, <2>1 DEF AppAppliesSnapshot, AppPanic, storageVars
  <2>2. CASE snapshot # NoSnapshot
    BY <1>4, <2>2, AppAppliesSnapshotIsInstall DEF Window!Next
  <2> QED BY <2>1, <2>2
<1>5. UNCHANGED ents \/ AppStores \/ AppCompacts \/ AppAppliesSnapshot
  <2>1. CASE UNCHANGED vars
    BY <2>1 DEF vars
  <2>2. CASE AppCreatesSnapshot
    BY <2>2 DEF AppCreatesSnapshot, AppPanic, StorageCreateSnapshot, storageVars
  <2> QED BY <2>1, <2>2, OwnStepsStoreNothing DEF Next
<1> QED BY <1>1, <1>2, <1>3, <1>4, <1>5

\* MemoryStorage implements the window of LogWindow.
THEOREM StorageImplementsWindow == Spec => WindowSpec
<1>1. Init => Window!Init
  <2> SUFFICES ASSUME Init PROVE Window!Init
    OBVIOUS
  <2>1. ents = <<[Index |-> 0, Term |-> 0, Data |-> FALSE]>>
    BY DEF Init, StorageInit, Dummy
  <2>2. StorageOffset = 0 /\ StorageLastIndex = 0 /\ ents[1].Term = 0
    BY <2>1 DEF StorageOffset, StorageLastIndex
  <2>3. 0 .. 0 = {0} /\ 0 - 0 + 1 = 1
    OBVIOUS
  <2>4. Stored = [i \in {0} |-> 0]
    BY <2>2, <2>3 DEF Stored
  <2> QED BY <2>4 DEF Window!Init, Stored
<1>2. IInv /\ [Next]_vars => [Window!Next]_Stored
  BY WindowStep
<1> QED BY Invariant, <1>1, <1>2, PTL DEF Spec, WindowSpec, Window!Spec, Stored
=============================================================================
