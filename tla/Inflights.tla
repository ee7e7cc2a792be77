----------------------------- MODULE Inflights -----------------------------
(***************************************************************************)
(* The sliding window of raft/tracker/inflights.go: a ring of at most size *)
(* positions in a buffer that starts empty and is doubled when a position  *)
(* beyond its end is needed.                                               *)
(*                                                                         *)
(* Callers: maybeSendAppend adds the last index of a message (in order, as *)
(* Progress.Inflights demands, and only if IsPaused found room), stepLeader*)
(* frees what an MsgAppResp acknowledges, and the first one of a full      *)
(* window on an MsgHeartbeatResp; ResetState resets.                       *)
(***************************************************************************)
EXTENDS Naturals, Sequences, FiniteSets

CONSTANTS
    Size,     \* Inflights.size
    Indices   \* log indices that may be sent

ASSUME SizeAssumption == Size \in Nat \ {0}
ASSUME IndicesAssumption == Indices \subseteq Nat

VARIABLES
    start, count, buffer,   \* struct Inflights
    call                    \* history: the operation called last, and its argument

ring == <<start, count, buffer>>
vars == <<ring, call>>

\* A position on the ring, from zero.
Wrap(i) == IF i >= Size THEN i - Size ELSE i

\* The k-th oldest index of the window, from zero.
At(k) == buffer[Wrap(start + k) + 1]

Outstanding == {At(k) : k \in 0 .. count - 1}

Full == count = Size

-----------------------------------------------------------------------------
Init == start = 0 /\ count = 0 /\ buffer = <<>> /\ call = <<"New", 0>>

\* Mutant of Grown: doubling alone never leaves zero.
GrownFromZero(length) == IF length * 2 > Size THEN Size ELSE length * 2

\* The length grow() gives a buffer.
Grown(length) ==
    IF length = 0 THEN 1
    ELSE IF length * 2 > Size THEN Size ELSE length * 2

\* Mutant of Room: grow() does not copy.
RoomCleared(next) ==
    IF next >= Len(buffer) THEN [i \in 1 .. Grown(Len(buffer)) |-> 0] ELSE buffer

\* The buffer that Add writes to, after grow() if the position needs it.
Room(next) ==
    IF next >= Len(buffer)
    THEN [i \in 1 .. Grown(Len(buffer)) |-> IF i <= Len(buffer) THEN buffer[i] ELSE 0]
    ELSE buffer

Add(x) ==
    LET next == Wrap(start + count)
    IN  /\ ~Full
        /\ \A y \in Outstanding : y < x
        /\ buffer' = [Room(next) EXCEPT ![next + 1] = x]
        /\ count' = count + 1
        /\ call' = <<"Add", x>>
        /\ UNCHANGED start

\* Mutant of Freed: the acknowledged index itself is kept.
FreedBelow(to, i) == /\ \A k \in 0 .. i - 1 : At(k) < to
                     /\ i < count => to <= At(i)

\* FreeLE's loop ends after i positions.
Freed(to, i) == /\ \A k \in 0 .. i - 1 : At(k) <= to
                /\ i < count => to < At(i)

Free(to) ==
    IF count = 0 \/ to < At(0)
    THEN UNCHANGED ring
    ELSE \E i \in 0 .. count :
            /\ Freed(to, i)
            /\ count' = count - i
            /\ start' = IF i = count THEN 0 ELSE Wrap(start + i)
            /\ UNCHANGED buffer

FreeLE(to) == Free(to) /\ call' = <<"FreeLE", to>>

FreeFirstOne == Full /\ Free(At(0)) /\ call' = <<"FreeFirstOne", 0>>

Reset == start' = 0 /\ count' = 0 /\ UNCHANGED buffer /\ call' = <<"reset", 0>>

Next ==
    \/ \E x \in Indices : Add(x) \/ FreeLE(x)
    \/ FreeFirstOne
    \/ Reset

Spec == Init /\ [][Next]_vars

-----------------------------------------------------------------------------
\* The window's position and length are within the ring, the buffer within
\* its size.
TypeOK ==
    /\ start \in 0 .. Size - 1
    /\ count \in 0 .. Size
    /\ buffer \in Seq(Nat)
    /\ Len(buffer) <= Size

\* Add never writes outside the buffer (in.buffer[next] would panic), however
\* the window wrapped around and whatever was freed since the last grow().
WriteInRange ==
    LET next == Wrap(start + count) IN ~Full => next < Len(Room(next))

\* The window is ascending from its oldest index, also across the wrap: what
\* lets FreeLE stop at the first index beyond the acknowledged one.
Ascending == \A j, k \in 0 .. count - 1 : j < k => At(j) < At(k)

\* Every index of the window is in a position of the buffer that exists.
Stored == /\ \A k \in 0 .. count - 1 : Wrap(start + k) < Len(buffer)
          /\ count = 0 => start = 0

InflightsInv == TypeOK /\ Stored /\ Ascending

\* Count and Full, which pause replication, tell the number of outstanding
\* messages: no index is counted twice or lost.
CountOutstanding == count = Cardinality(Outstanding)

\* The ring implements the window: every call has on the outstanding indices
\* the effect that the window gives it.
Window == INSTANCE InflightWindow WITH outstanding <- Outstanding
WindowSpec == Window!Spec
=============================================================================
