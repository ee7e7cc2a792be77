--------------------------- MODULE ProgressProofs ---------------------------
(***************************************************************************)
(* That the properties of Progress hold for every size of the window and   *)
(* every length of the log.  Sound says of one Progress, together with the *)
(* messages sent, all that the properties say; every method of Progress    *)
(* keeps it, and so does maybeSendAppend.                                  *)
(***************************************************************************)
EXTENDS Progress, FiniteSetTheorems, TLAPS

Progresses ==
    [Match : 0 .. MaxIndex, Next : 1 .. MaxIndex + 1,
     State : {StateProbe, StateReplicate}, PendingSnapshot : {0},
     RecentActive : BOOLEAN, ProbeSent : BOOLEAN, Inflights : SUBSET (1 .. MaxIndex)]

Covered(p, msgs) ==
    p.State = StateReplicate =>
        \A i \in p.Match + 1 .. p.Next - 1 : \E m \in msgs : m.Index < i /\ i <= m.Last

Sound(p, msgs) ==
    /\ p \in Progresses
    /\ p.Match <= lastIndex /\ p.Next <= lastIndex + 1
    /\ p.Inflights \subseteq p.Match + 1 .. p.Next - 1
    /\ p.State = StateReplicate => p.Match < p.Next
    /\ p.State # StateReplicate => p.Inflights = {}
    /\ IsFiniteSet(p.Inflights) /\ Cardinality(p.Inflights) <= Size
    /\ Covered(p, msgs)

LogSound ==
    /\ firstIndex \in 1 .. MaxIndex + 1
    /\ lastIndex \in 0 .. MaxIndex
    /\ agree \in 0 .. MaxIndex
    /\ panicked \in BOOLEAN

SentSound(msgs) ==
    /\ msgs \subseteq [Index : 0 .. MaxIndex, Last : 0 .. MaxIndex, Behind : BOOLEAN]
    /\ \A m \in msgs : m.Index <= m.Last /\ m.Last <= lastIndex

IInv == Sound(pr, sent) /\ LogSound /\ SentSound(sent)

-----------------------------------------------------------------------------
(* Sending.                                                                *)

\* What maybeSendAppend sends is a message within the log.
LEMMA MessagesSound ==
    ASSUME NEW p, NEW msgs, NEW b \in BOOLEAN, LogSound, Sound(p, msgs), SentSound(msgs)
    PROVE  SentSound(msgs \cup Messages(p, b))
  <1> USE ProgressAssumption
  <1>1. CASE ~Sends(p, b)
    BY <1>1 DEF Messages
  <1>2. CASE Sends(p, b)
    <2> DEFINE m == [Index |-> p.Next - 1, Last |-> Max(p.Next - 1, lastIndex),
                     Behind |-> ~Accepts(p.Next - 1)]
    <2>1. Messages(p, b) = {m}
      BY <1>2 DEF Messages
    <2>2. p.Next \in 1 .. MaxIndex + 1 /\ p.Next <= lastIndex + 1 /\ lastIndex \in 0 .. MaxIndex
      BY DEF Sound, LogSound, Progresses
    <2>3. /\ m \in [Index : 0 .. MaxIndex, Last : 0 .. MaxIndex, Behind : BOOLEAN]
          /\ m.Index <= m.Last /\ m.Last <= lastIndex
      BY <2>2 DEF Max
    <2> HIDE DEF m
    <2> QED BY <2>1, <2>3 DEF SentSound
  <1> QED BY <1>1, <1>2

\* A Progress stays sound when more messages have been sent.
LEMMA MoreSent ==
    ASSUME NEW p, NEW msgs, NEW more, Sound(p, msgs)
    PROVE  Sound(p, msgs \cup more)
  BY DEF Sound, Covered

\* maybeSendAppend leaves a sound Progress: there is room in the window, and
\* the message covers all entries up to the new Next.
LEMMA SendSound ==
    ASSUME NEW p, NEW msgs, NEW b \in BOOLEAN, LogSound, Sound(p, msgs), SentSound(msgs)
    PROVE  Sound(AfterSend(p, b), msgs \cup Messages(p, b))
  <1> USE ProgressAssumption
  <1> DEFINE q == AfterSend(p, b)
             all == msgs \cup Messages(p, b)
  <1>t. /\ p.Match \in 0 .. MaxIndex /\ p.Next \in 1 .. MaxIndex + 1
        /\ p.Match <= lastIndex /\ p.Next <= lastIndex + 1
        /\ p.Inflights \in SUBSET (1 .. MaxIndex)
        /\ lastIndex \in 0 .. MaxIndex /\ p \in Progresses
    BY DEF Sound, LogSound, Progresses
  <1>1. CASE ~Sends(p, b) \/ p.Next > lastIndex
    BY <1>1, MoreSent DEF AfterSend
  <1>2. CASE Sends(p, b) /\ p.Next <= lastIndex /\ p.State # StateReplicate
    <2>1. q = [p EXCEPT !.ProbeSent = TRUE]
      BY <1>2, <1>t DEF AfterSend
    <2>2. /\ q \in Progresses /\ q.Match = p.Match /\ q.Next = p.Next
          /\ q.State = p.State /\ q.Inflights = p.Inflights
      BY <2>1, <1>t DEF Progresses
    <2> HIDE DEF q
    <2>3. Sound(q, msgs)
      BY <2>2, <1>2, <1>t DEF Sound, Covered
    <2> QED BY <2>3, MoreSent DEF q
  <1>3. CASE Sends(p, b) /\ p.Next <= lastIndex /\ p.State = StateReplicate
    <2>1. q = [p EXCEPT !.Next = lastIndex + 1, !.Inflights = @ \cup {lastIndex}]
      BY <1>3, <1>t DEF AfterSend
    <2>2. /\ q.Match = p.Match /\ q.Next = lastIndex + 1 /\ q.State = p.State
          /\ q.Inflights = p.Inflights \cup {lastIndex}
      BY <2>1, <1>t DEF Progresses
    <2>3. q \in Progresses
      <3>1. lastIndex + 1 \in 1 .. MaxIndex + 1 /\ lastIndex \in 1 .. MaxIndex
        BY <1>t, <1>3
      <3>2. p.Inflights \cup {lastIndex} \in SUBSET (1 .. MaxIndex)
        BY <3>1, <1>t
      <3> QED BY <2>1, <1>t, <3>1, <3>2 DEF Progresses
    <2>4. p.Match < p.Next /\ p.Inflights \subseteq p.Match + 1 .. p.Next - 1
      BY <1>3 DEF Sound
    <2>5. Cardinality(p.Inflights) # Size
      BY <1>3 DEF Sends, IsPaused
    <2>6. IsFiniteSet(q.Inflights) /\ Cardinality(q.Inflights) <= Size
      <3>1. IsFiniteSet(p.Inflights) /\ Cardinality(p.Inflights) <= Size
        BY DEF Sound
      <3>2. Cardinality(p.Inflights) \in Nat
        BY <3>1, FS_CardinalityType
      <3>3. lastIndex \notin p.Inflights
        BY <2>4, <1>3, <1>t
      <3>4. /\ IsFiniteSet(p.Inflights \cup {lastIndex})
            /\ Cardinality(p.Inflights \cup {lastIndex}) = Cardinality(p.Inflights) + 1
        BY <3>1, <3>3, FS_AddElement
      <3> QED BY <3>1, <3>2, <3>4, <2>2, <2>5
    <2>7. Covered(q, all)
      <3> DEFINE m == [Index |-> p.Next - 1, Last |-> Max(p.Next - 1, lastIndex),
                       Behind |-> ~Accepts(p.Next - 1)]
      <3>1. m \in all /\ m.Index = p.Next - 1 /\ m.Last = lastIndex
        BY <1>3, <1>t DEF Messages, Max
      <3> HIDE DEF m
      <3>2. ASSUME NEW i \in q.Match + 1 .. q.Next - 1
            PROVE  \E n \in all : n.Index < i /\ i <= n.Last
        <4>1. CASE i <= p.Next - 1
          <5>1. i \in p.Match + 1 .. p.Next - 1
            BY <4>1, <2>2, <1>t
          <5> QED BY <5>1, <1>3 DEF Sound, Covered
        <4>2. CASE i > p.Next - 1
          BY <4>2, <3>1, <2>2, <1>t
        <4> QED BY <4>1, <4>2, <2>2, <1>t
      <3> HIDE DEF q, all
      <3> QED BY <3>2 DEF Covered
    <2>8. q.Inflights \subseteq q.Match + 1 .. q.Next - 1 /\ q.Match < q.Next
      BY <2>2, <2>4, <1>3, <1>t
    <2>9. q.Match <= lastIndex /\ q.Next <= lastIndex + 1 /\ q.State = StateReplicate
      BY <2>2, <1>3, <1>t
    <2> HIDE DEF q, all
    <2>10. Sound(q, all)
      BY <2>3, <2>6, <2>7, <2>8, <2>9 DEF Sound
    <2> QED BY <2>10 DEF q, all
  <1> QED BY <1>1, <1>2, <1>3, <1>t

\* Every handler that updates the Progress to a sound one ends soundly.
LEMMA UpdateSound ==
    ASSUME IInv, NEW p, Sound(p, sent), NEW send \in BOOLEAN, NEW drain \in BOOLEAN,
           Update(p, send, drain)
    PROVE  IInv'
  <1> DEFINE q  == IF send THEN AfterSend(p, TRUE) ELSE p
             s1 == sent \cup (IF send THEN Messages(p, TRUE) ELSE {})
             r  == IF drain THEN AfterSend(q, FALSE) ELSE q
             s2 == s1 \cup (IF drain THEN Messages(q, FALSE) ELSE {})
  <1>0. LogSound /\ SentSound(sent)
    BY DEF IInv
  <1>1. Sound(q, s1) /\ SentSound(s1)
    <2>1. CASE send
      BY <2>1, <1>0, SendSound, MessagesSound
    <2>2. CASE ~send
      BY <2>2, <1>0
    <2> QED BY <2>1, <2>2
  <1>2. Sound(r, s2) /\ SentSound(s2)
    <2> HIDE DEF q, s1
    <2>1. CASE drain
      BY <2>1, <1>0, <1>1, SendSound, MessagesSound
    <2>2. CASE ~drain
      BY <2>2, <1>1
    <2> QED BY <2>1, <2>2
  <1>3. /\ pr' = r /\ sent' = s2
        /\ lastIndex' = lastIndex /\ firstIndex' = firstIndex /\ agree' = agree
        /\ panicked' \in BOOLEAN
    BY DEF Update
  <1> HIDE DEF r, s2
  <1> QED BY <1>0, <1>2, <1>3 DEF IInv, LogSound, SentSound, Sound

-----------------------------------------------------------------------------
(* The methods of Progress.                                                *)

\* A Progress that has just become StateProbe or StateReplicate is sound: its
\* window is empty and Next is right after Match.
LEMMA BecomeSound ==
    ASSUME NEW p \in Progresses, NEW msgs, LogSound, p.Match <= lastIndex
    PROVE  Sound(BecomeProbe(p), msgs) /\ Sound(BecomeReplicate(p), msgs)
  <1> USE ProgressAssumption
  <1> DEFINE new(s) == [p EXCEPT !.ProbeSent = FALSE, !.PendingSnapshot = 0, !.State = s,
                                 !.Inflights = {}, !.Next = p.Match + 1]
  <1>1. p.Match \in 0 .. MaxIndex /\ lastIndex \in 0 .. MaxIndex /\ p.Match + 1 \in 1 .. MaxIndex + 1
    BY DEF Progresses, LogSound
  <1>2. IsFiniteSet({}) /\ Cardinality({}) <= Size
    BY FS_EmptySet
  <1>3. ASSUME NEW s \in {StateProbe, StateReplicate}
        PROVE  Sound(new(s), msgs)
    <2>1. /\ new(s) \in Progresses /\ new(s).Match = p.Match /\ new(s).Next = p.Match + 1
          /\ new(s).State = s /\ new(s).Inflights = {}
      BY <1>1 DEF Progresses
    <2> HIDE DEF new
    <2> QED BY <2>1, <1>1, <1>2 DEF Sound, Covered
  <1>4. p.State # StateSnapshot
    BY DEF Progresses, StateProbe, StateReplicate, StateSnapshot
  <1>5. BecomeProbe(p) = new(StateProbe) /\ BecomeReplicate(p) = new(StateReplicate)
    BY <1>4 DEF BecomeProbe, BecomeReplicate, ResetState, Progresses
  <1> HIDE DEF new
  <1> QED BY <1>3, <1>5

\* Fields the properties do not speak of may change.
LEMMA FlagsSound ==
    ASSUME NEW p, NEW msgs, Sound(p, msgs), NEW a \in BOOLEAN, NEW b \in BOOLEAN
    PROVE  Sound([p EXCEPT !.RecentActive = a, !.ProbeSent = b], msgs)
  <1> DEFINE q == [p EXCEPT !.RecentActive = a, !.ProbeSent = b]
  <1>1. p \in Progresses
    BY DEF Sound
  <1>2. /\ q \in Progresses /\ q.Match = p.Match /\ q.Next = p.Next /\ q.State = p.State
        /\ q.Inflights = p.Inflights
    BY <1>1 DEF Progresses
  <1> HIDE DEF q
  <1>3. Sound(q, msgs)
    BY <1>2 DEF Sound, Covered
  <1> QED BY <1>3 DEF q

\* Freeing a part of the window.
LEMMA FreedSound ==
    ASSUME NEW p, NEW msgs, Sound(p, msgs), NEW S \in SUBSET p.Inflights
    PROVE  Sound([p EXCEPT !.Inflights = S], msgs)
  <1> USE ProgressAssumption
  <1> DEFINE q == [p EXCEPT !.Inflights = S]
  <1>1. p \in Progresses /\ IsFiniteSet(p.Inflights) /\ Cardinality(p.Inflights) <= Size
    BY DEF Sound
  <1>2. /\ q \in Progresses /\ q.Match = p.Match /\ q.Next = p.Next /\ q.State = p.State
        /\ q.Inflights = S
    BY <1>1 DEF Progresses
  <1>3. IsFiniteSet(S) /\ Cardinality(S) <= Size
    <2>1. IsFiniteSet(S) /\ Cardinality(S) <= Cardinality(p.Inflights)
      BY <1>1, FS_Subset
    <2>2. Cardinality(S) \in Nat /\ Cardinality(p.Inflights) \in Nat
      BY <2>1, <1>1, FS_CardinalityType
    <2> QED BY <2>1, <2>2, <1>1
  <1> HIDE DEF q
  <1>4. Sound(q, msgs)
    BY <1>2, <1>3 DEF Sound, Covered
  <1> QED BY <1>4 DEF q

-----------------------------------------------------------------------------
(* The handlers.                                                           *)

\* An acknowledgement beyond Match: the follower starts to be replicated to,
\* or the window loses what it acknowledges.
LEMMA AcceptSound ==
    ASSUME IInv, NEW n \in 0 .. MaxIndex, NEW commits \in BOOLEAN, AppRespAccept(n, commits)
    PROVE  IInv'
  <1> USE ProgressAssumption
  <1> DEFINE a == [pr EXCEPT !.RecentActive = TRUE]
             p == MaybeUpdate(a, n)
  <1>1. PICK m \in sent : n <= m.Last
    BY DEF AppRespAccept
  <1>2. n <= lastIndex /\ lastIndex \in 0 .. MaxIndex /\ LogSound /\ Sound(pr, sent)
    BY <1>1 DEF IInv, LogSound, SentSound
  <1>3. pr \in Progresses
    BY <1>2 DEF Sound
  <1>4. /\ a \in Progresses /\ a.Match = pr.Match /\ a.Next = pr.Next /\ a.State = pr.State
        /\ a.Inflights = pr.Inflights /\ a.ProbeSent \in BOOLEAN
    BY <1>3 DEF Progresses
  <1>5. /\ pr.Match \in 0 .. MaxIndex /\ pr.Next \in 1 .. MaxIndex + 1 /\ pr.Next <= lastIndex + 1
        /\ pr.State \in {StateProbe, StateReplicate}
        /\ pr.Inflights \in SUBSET (1 .. MaxIndex)
        /\ pr.Inflights \subseteq pr.Match + 1 .. pr.Next - 1
        /\ IsPaused(pr) \in BOOLEAN
    BY <1>2, <1>3 DEF Sound, Progresses, IsPaused
  <1>6. /\ p \in Progresses /\ p.Match = Max(pr.Match, n) /\ p.Next = Max(pr.Next, n + 1)
        /\ p.State = pr.State /\ p.Inflights = pr.Inflights
    <2> HIDE DEF a
    <2>1. Max(pr.Match, n) \in 0 .. MaxIndex /\ Max(pr.Next, n + 1) \in 1 .. MaxIndex + 1
      BY <1>5 DEF Max
    <2>2. (a.ProbeSent /\ ~(a.Match < n)) \in BOOLEAN
      OBVIOUS
    <2> QED BY <1>4, <2>1, <2>2 DEF MaybeUpdate, Progresses
  <1>7. CASE pr.Match >= n /\ Update(p, FALSE, FALSE)
    <2>1. p.Match = pr.Match
      BY <1>5, <1>6, <1>7 DEF Max
    <2>2. p.Next = pr.Next \/ (p.Next = n + 1 /\ pr.Next <= n)
      BY <1>5, <1>6 DEF Max
    <2>3. Sound(p, sent)
      <3> HIDE DEF p
      <3>1. CASE pr.State = StateReplicate
        <4>1. pr.Match < pr.Next
          BY <3>1, <1>2 DEF Sound
        <4>2. p.Next = pr.Next
          BY <4>1, <2>2, <1>5, <1>7
        <4> QED BY <4>2, <2>1, <1>6, <1>2 DEF Sound, Covered
      <3>2. CASE pr.State # StateReplicate
        <4>1. p.Next <= lastIndex + 1 /\ p.Inflights = {} /\ p.Match <= lastIndex
          BY <3>2, <1>2, <1>5, <1>6, <2>1, <2>2 DEF Sound
        <4> QED BY <4>1, <3>2, <2>1, <1>6, <1>2 DEF Sound, Covered
      <3> QED BY <3>1, <3>2
    <2> HIDE DEF p
    <2> QED BY <2>3, <1>7, UpdateSound
  <1>8. CASE pr.Match < n /\ Update(Acknowledged(p, n), commits \/ IsPaused(pr), TRUE)
    <2>1. p.Match = n
      BY <1>5, <1>6, <1>8 DEF Max
    <2>2. Sound(Acknowledged(p, n), sent)
      <3> HIDE DEF p
      <3>1. CASE pr.State = StateProbe
        <4>1. Acknowledged(p, n) = BecomeReplicate(p)
          BY <3>1, <1>6 DEF Acknowledged, StateProbe, StateReplicate, StateSnapshot
        <4> QED BY <4>1, <2>1, <1>2, <1>6, BecomeSound
      <3>2. CASE pr.State = StateReplicate
        <4> DEFINE S == {x \in p.Inflights : x > n}
                   q == [p EXCEPT !.Inflights = S]
        <4>1. Acknowledged(p, n) = q
          BY <3>2, <1>6 DEF Acknowledged, FreeLE, StateProbe, StateReplicate, StateSnapshot
        <4>2. S \in SUBSET (1 .. MaxIndex)
          BY <1>5, <1>6
        <4>3. /\ q \in Progresses /\ q.Match = n /\ q.Next = Max(pr.Next, n + 1)
              /\ q.State = StateReplicate /\ q.Inflights = S
          BY <4>2, <2>1, <1>6, <3>2 DEF Progresses
        <4>4. IsFiniteSet(S) /\ Cardinality(S) <= Size
          <5>1. IsFiniteSet(pr.Inflights) /\ Cardinality(pr.Inflights) <= Size
            BY <1>2 DEF Sound
          <5>2. S \subseteq pr.Inflights
            BY <1>6
          <5>3. IsFiniteSet(S) /\ Cardinality(S) <= Cardinality(pr.Inflights)
            BY <5>1, <5>2, FS_Subset
          <5>4. Cardinality(S) \in Nat /\ Cardinality(pr.Inflights) \in Nat
            BY <5>1, <5>3, FS_CardinalityType
          <5> QED BY <5>1, <5>3, <5>4
        <4>5. S \subseteq n + 1 .. Max(pr.Next, n + 1) - 1 /\ n < Max(pr.Next, n + 1)
              /\ Max(pr.Next, n + 1) <= lastIndex + 1
          BY <1>2, <1>5, <1>6 DEF Max
        <4>6. ASSUME NEW i \in n + 1 .. Max(pr.Next, n + 1) - 1
              PROVE  \E k \in sent : k.Index < i /\ i <= k.Last
          <5>1. i \in pr.Match + 1 .. pr.Next - 1
            BY <1>5, <1>8 DEF Max
          <5> QED BY <5>1, <3>2, <1>2 DEF Sound, Covered
        <4> HIDE DEF S, q
        <4>7. Sound(q, sent)
          BY <4>3, <4>4, <4>5, <4>6, <1>2 DEF Sound, Covered
        <4> QED BY <4>7, <4>1
      <3> QED BY <3>1, <3>2, <1>5
    <2>3. (commits \/ IsPaused(pr)) \in BOOLEAN
      BY <1>5
    <2> HIDE DEF p
    <2> QED BY <2>2, <2>3, <1>8, UpdateSound
  <1>9. \/ pr.Match < n /\ Update(Acknowledged(p, n), commits \/ IsPaused(pr), TRUE)
        \/ pr.Match >= n /\ Update(p, FALSE, FALSE)
    BY DEF AppRespAccept
  <1> QED BY <1>7, <1>8, <1>9

\* A rejection: back to probing after Match, or to an earlier index.
LEMMA RejectSound ==
    ASSUME IInv, NEW m \in sent, NEW probe \in 0 .. MaxIndex, AppRespReject(m, probe)
    PROVE  IInv'
  <1> USE ProgressAssumption
  <1> DEFINE p == [pr EXCEPT !.RecentActive = TRUE]
             q == MaybeDecrTo(p, m.Index, probe)
             r == IF q.State = StateReplicate THEN BecomeProbe(q) ELSE q
  <1>1. LogSound /\ Sound(pr, sent) /\ pr \in Progresses /\ m.Index \in 0 .. MaxIndex
    BY DEF IInv, Sound, SentSound
  <1>2. p = [pr EXCEPT !.RecentActive = TRUE, !.ProbeSent = pr.ProbeSent] /\ pr.ProbeSent \in BOOLEAN
    BY <1>1 DEF Progresses
  <1>3. Sound(p, sent) /\ p \in Progresses
    BY <1>1, <1>2, FlagsSound DEF Sound
  <1>4. p.Match \in 0 .. MaxIndex /\ p.Next \in 1 .. MaxIndex + 1 /\ lastIndex \in 0 .. MaxIndex
        /\ p.Match <= lastIndex /\ p.Next <= lastIndex + 1
    BY <1>1, <1>3 DEF Sound, Progresses, LogSound
  <1>5. CASE Decreases(p, m.Index) /\ Update(r, TRUE, FALSE)
    <2>1. CASE p.State = StateReplicate
      <3>1. q = [p EXCEPT !.Next = p.Match + 1]
        BY <2>1 DEF MaybeDecrTo
      <3> HIDE DEF p
      <3>2. q \in Progresses /\ q.Match = p.Match /\ q.State = StateReplicate
        BY <3>1, <1>3, <1>4, <2>1 DEF Progresses
      <3> HIDE DEF q
      <3>3. Sound(r, sent)
        BY <3>2, <1>1, <1>4, BecomeSound
      <3> HIDE DEF r
      <3> QED BY <3>3, <1>5, UpdateSound
    <2>2. CASE p.State # StateReplicate
      <3> DEFINE next == Max(Min(m.Index, probe + 1), 1)
      <3> HIDE DEF p
      <3>1. q = [p EXCEPT !.Next = next, !.ProbeSent = FALSE]
        BY <2>2 DEF MaybeDecrTo
      <3>2. p.Next - 1 = m.Index
        BY <1>5, <2>2 DEF Decreases
      <3>3. next \in 1 .. MaxIndex + 1 /\ next <= lastIndex + 1
        BY <3>2, <1>1, <1>4 DEF Max, Min
      <3> HIDE DEF next
      <3>4. /\ q \in Progresses /\ q.Match = p.Match /\ q.Next = next /\ q.State = p.State
            /\ q.Inflights = p.Inflights
        BY <3>1, <3>3, <1>3 DEF Progresses
      <3> HIDE DEF q
      <3>5. Sound(q, sent)
        BY <3>3, <3>4, <2>2, <1>3 DEF Sound, Covered
      <3>6. r = q
        BY <3>4, <2>2
      <3> QED BY <3>5, <3>6, <1>5, UpdateSound
    <2> QED BY <2>1, <2>2
  <1>6. CASE Update(p, FALSE, FALSE)
    BY <1>3, <1>6, UpdateSound
  <1> QED BY <1>5, <1>6 DEF AppRespReject

\* The other steps of the leader and of the storages.
LEMMA OtherSound ==
    ASSUME IInv,
           \/ StorageAppend \/ BcastAppend \/ HeartbeatResp \/ MsgUnreachable
           \/ \E i \in 1 .. MaxIndex : StorageCompact(i) \/ FollowerStores(i)
    PROVE  IInv'
  <1> USE ProgressAssumption
  <1>1. LogSound /\ Sound(pr, sent) /\ SentSound(sent) /\ pr \in Progresses
    BY DEF IInv, Sound
  <1>2. pr.Match \in 0 .. MaxIndex /\ lastIndex \in 0 .. MaxIndex /\ pr.Match <= lastIndex
        /\ pr.Next \in 1 .. MaxIndex + 1 /\ pr.Next <= lastIndex + 1
    BY <1>1 DEF Sound, LogSound, Progresses
  <1>3. CASE StorageAppend
    <2>1. lastIndex' = lastIndex + 1 /\ lastIndex' \in 0 .. MaxIndex
          /\ UNCHANGED <<pr, firstIndex, agree, sent, panicked>>
      BY <1>2, <1>3 DEF StorageAppend
    <2>2. \A m \in sent : m.Index \in 0 .. MaxIndex /\ m.Last \in 0 .. MaxIndex
      BY <1>1 DEF SentSound
    <2>3. SentSound(sent)'
      BY <2>1, <2>2, <1>1, <1>2 DEF SentSound
    <2>4. Sound(pr, sent)'
      BY <2>1, <1>1, <1>2 DEF Sound, Covered, Progresses
    <2> QED BY <2>1, <2>3, <2>4, <1>1 DEF IInv, LogSound
  <1>4. CASE \E i \in 1 .. MaxIndex : StorageCompact(i) \/ FollowerStores(i)
    <2>1. /\ UNCHANGED <<pr, lastIndex, sent, panicked>>
          /\ firstIndex' \in 1 .. MaxIndex + 1 /\ agree' \in 0 .. MaxIndex
      BY <1>1, <1>4 DEF StorageCompact, FollowerStores, LogSound
    <2> QED BY <2>1, <1>1 DEF IInv, LogSound, SentSound, Sound, Covered, Progresses
  <1>5. CASE BcastAppend
    BY <1>1, <1>5, UpdateSound DEF BcastAppend
  <1>6. CASE HeartbeatResp
    <2> DEFINE p == [pr EXCEPT !.RecentActive = TRUE, !.ProbeSent = FALSE]
               full == p.State = StateReplicate /\ Cardinality(p.Inflights) = Size
               q == IF full THEN FreeFirstOne(p) ELSE p
    <2>1. Sound(p, sent)
      BY <1>1, FlagsSound
    <2>2. Update(q, pr.Match < lastIndex, FALSE)
      BY <1>6, Zenon DEF HeartbeatResp
    <2>4. (pr.Match < lastIndex) \in BOOLEAN
      BY <1>2
    <2> HIDE DEF p, full
    <2>3. Sound(q, sent)
      <3> DEFINE S == {x \in p.Inflights : \E y \in p.Inflights : y < x}
      <3>1. FreeFirstOne(p) = [p EXCEPT !.Inflights = S]
        BY DEF FreeFirstOne
      <3>2. S \in SUBSET p.Inflights
        OBVIOUS
      <3> HIDE DEF S
      <3> QED BY <3>1, <3>2, <2>1, FreedSound
    <2> HIDE DEF q
    <2> QED BY <2>2, <2>3, <2>4, UpdateSound
  <1>7. CASE MsgUnreachable
    <2>1. Sound(BecomeProbe(pr), sent)
      BY <1>1, <1>2, BecomeSound
    <2> QED BY <2>1, <1>7, UpdateSound DEF MsgUnreachable
  <1> QED BY <1>3, <1>4, <1>5, <1>6, <1>7

-----------------------------------------------------------------------------
\* The Progress of a new leader satisfies the invariant.
LEMMA InitSound == Init => IInv
  <1> USE ProgressAssumption
  <1> SUFFICES ASSUME Init PROVE IInv
    OBVIOUS
  <1>1. /\ lastIndex \in 0 .. MaxIndex /\ firstIndex = 1 /\ agree \in 0 .. lastIndex
        /\ sent = {} /\ panicked = FALSE
    BY DEF Init
  <1>2. PICK next \in 1 .. lastIndex + 1 :
          pr = [Match |-> 0, Next |-> next, State |-> StateProbe, PendingSnapshot |-> 0,
                RecentActive |-> FALSE, ProbeSent |-> FALSE, Inflights |-> {}]
    BY DEF Init
  <1>3. pr \in Progresses
    BY <1>1, <1>2 DEF Progresses
  <1>4. IsFiniteSet({}) /\ Cardinality({}) = 0
    BY FS_EmptySet
  <1>5. Sound(pr, sent)
    BY <1>1, <1>2, <1>3, <1>4 DEF Sound, Covered, StateProbe, StateReplicate
  <1>6. LogSound
    <2>1. firstIndex \in 1 .. MaxIndex + 1 /\ agree \in 0 .. MaxIndex
      BY <1>1
    <2>2. panicked \in BOOLEAN
      BY <1>1, Zenon
    <2> QED BY <1>1, <2>1, <2>2 DEF LogSound
  <1>7. SentSound(sent)
    BY <1>1 DEF SentSound
  <1> QED BY <1>5, <1>6, <1>7 DEF IInv

\* The inductive invariant holds of every reachable state.
THEOREM IInvHolds == Spec => []IInv
  <1>1. Init => IInv
    BY InitSound
  <1>2. IInv /\ [Next]_vars => IInv'
    <2>1. ASSUME IInv, Next PROVE IInv'
      BY <2>1, AcceptSound, RejectSound, OtherSound DEF Next
    <2>2. ASSUME IInv, UNCHANGED vars PROVE IInv'
      BY <2>2 DEF vars, IInv, Sound, Covered, LogSound, SentSound
    <2> QED BY <2>1, <2>2
  <1> QED BY <1>1, <1>2, PTL DEF Spec

\* Type correctness, for every window size and log length.
THEOREM TypeCorrect == Spec => []TypeOK
  <1>1. IInv => TypeOK
    BY DEF IInv, Sound, LogSound, SentSound, Progresses, TypeOK
  <1> QED BY <1>1, IInvHolds, PTL

\* What the leader believes of the follower, and every message it sent, is
\* within its log, whatever was answered, lost, repeated or reordered.
THEOREM WithinLogCorrect == Spec => []WithinLog
  <1>1. IInv => WithinLog
    BY DEF IInv, Sound, SentSound, WithinLog
  <1> QED BY <1>1, IInvHolds, PTL

\* The window holds only indices between Match and Next, and nothing outside
\* of StateReplicate.
THEOREM WindowCorrect == Spec => []WindowBetween
  <1>1. IInv => WindowBetween
    BY DEF IInv, Sound, WindowBetween
  <1> QED BY <1>1, IInvHolds, PTL

\* Inflights.Add never panics: the window never holds more than its size.
THEOREM RoomCorrect == Spec => []RoomToAdd
  <1>1. IInv => RoomToAdd
    BY DEF IInv, Sound, RoomToAdd
  <1> QED BY <1>1, IInvHolds, PTL

\* Optimistic replication skips no entry.
THEOREM NothingSkippedCorrect == Spec => []NothingSkipped
  <1>1. IInv => NothingSkipped
    BY DEF IInv, Sound, Covered, NothingSkipped
  <1> QED BY <1>1, IInvHolds, PTL
=============================================================================
