-------------------------- MODULE InflightsProofs --------------------------
(***************************************************************************)
(* For every size and every set of indices: the ring of inflights.go never *)
(* writes outside its buffer, counts what is outstanding, and implements   *)
(* the window of InflightWindow.                                           *)
(***************************************************************************)
EXTENDS Inflights, FiniteSetTheorems, TLAPS

\* A buffer with room for the next position keeps what was in it.
LEMMA RoomFacts ==
    ASSUME InflightsInv, ~Full, NEW next, next = Wrap(start + count)
    PROVE  /\ next \in Nat /\ next < Len(Room(next))
           /\ Room(next) \in Seq(Nat)
           /\ Len(Room(next)) \in Nat /\ Len(buffer) <= Len(Room(next)) /\ Len(Room(next)) <= Size
           /\ \A i \in 1 .. Len(buffer) : Room(next)[i] = buffer[i]
<1>0. /\ start \in Nat /\ count \in Nat /\ Size \in Nat /\ Len(buffer) \in Nat
      /\ start < Size /\ count < Size /\ Len(buffer) <= Size /\ buffer \in Seq(Nat)
      /\ \A i \in 1 .. Len(buffer) : buffer[i] \in Nat
  BY SizeAssumption DEF InflightsInv, TypeOK, Full
<1>1. next \in Nat /\ next < Size /\ next <= Len(buffer)
  <2>1. CASE count = 0
    BY <1>0, <2>1 DEF InflightsInv, Stored, Wrap
  <2>2. CASE count > 0
    <3>1. 0 \in 0 .. count - 1 /\ count - 1 \in 0 .. count - 1
      BY <1>0, <2>2
    <3>2. \A k \in 0 .. count - 1 : Wrap(start + k) < Len(buffer)
      BY DEF InflightsInv, Stored
    <3>3. Wrap(start + 0) < Len(buffer) /\ Wrap(start + (count - 1)) < Len(buffer)
      BY <3>1, <3>2
    <3> QED BY <1>0, <2>2, <3>3 DEF Wrap
  <2> QED BY <1>0, <2>1, <2>2
<1>2. CASE next < Len(buffer)
  BY <1>0, <1>1, <1>2 DEF Room
<1>3. CASE next = Len(buffer)
  <2> DEFINE g == Grown(Len(buffer))
  <2>1. g \in Nat /\ Len(buffer) < g /\ g <= Size
    BY <1>0, <1>1, <1>3 DEF Grown
  <2> HIDE DEF g
  <2>2. Room(next) = [i \in 1 .. g |-> IF i <= Len(buffer) THEN buffer[i] ELSE 0]
    BY <1>0, <1>3 DEF Room, g
  <2>3. Room(next) \in [1 .. g -> Nat]
    BY <1>0, <2>1, <2>2
  <2>4. Room(next) \in Seq(Nat) /\ Len(Room(next)) = g
    BY <2>1, <2>3
  <2> QED BY <1>0, <1>1, <1>3, <2>1, <2>2, <2>4
<1> QED BY <1>0, <1>1, <1>2, <1>3

\* Add keeps the window and puts the new index behind it.
LEMMA AddFacts ==
    ASSUME InflightsInv, NEW x \in Indices, Add(x)
    PROVE  /\ start' = start /\ count' = count + 1
           /\ count < Size /\ buffer' \in Seq(Nat)
           /\ Len(buffer') \in Nat /\ Len(buffer') <= Size
           /\ \A k \in 0 .. count : Wrap(start + k) < Len(buffer')
           /\ \A k \in 0 .. count : At(k)' = IF k = count THEN x ELSE At(k)
<1> DEFINE next == Wrap(start + count)
<1>0. /\ start \in Nat /\ count \in Nat /\ Size \in Nat /\ Len(buffer) \in Nat
      /\ start < Size /\ count < Size /\ buffer \in Seq(Nat) /\ x \in Nat
  BY SizeAssumption, IndicesAssumption DEF InflightsInv, TypeOK, Add, Full
<1>1. /\ start' = start /\ count' = count + 1 /\ ~Full
      /\ buffer' = [Room(next) EXCEPT ![next + 1] = x]
  BY DEF Add
<1>2. /\ next \in Nat /\ next < Len(Room(next))
      /\ Room(next) \in Seq(Nat)
      /\ Len(Room(next)) \in Nat /\ Len(buffer) <= Len(Room(next)) /\ Len(Room(next)) <= Size
      /\ \A i \in 1 .. Len(buffer) : Room(next)[i] = buffer[i]
  <2>1. next = Wrap(start + count)
    OBVIOUS
  <2> HIDE DEF next
  <2> QED BY <1>1, <2>1, RoomFacts
<1>3. \A k \in 0 .. count - 1 : /\ Wrap(start + k) \in Nat /\ Wrap(start + k) # next
                                /\ Wrap(start + k) < Len(buffer)
  <2> TAKE k \in 0 .. count - 1
  <2>1. Wrap(start + k) < Len(buffer)
    BY DEF InflightsInv, Stored
  <2>2. Wrap(start + k) \in Nat /\ Wrap(start + k) # next
    BY <1>0 DEF Wrap
  <2> QED BY <2>1, <2>2
<1>4. next = Wrap(start + count)
  OBVIOUS
<1> HIDE DEF next
<1>5. /\ buffer' \in Seq(Nat) /\ Len(buffer') = Len(Room(next))
      /\ buffer'[next + 1] = x
      /\ \A i \in 1 .. Len(Room(next)) : i # next + 1 => buffer'[i] = Room(next)[i]
  BY <1>0, <1>1, <1>2
<1>6. \A k \in 0 .. count : At(k)' = IF k = count THEN x ELSE At(k)
  <2> TAKE k \in 0 .. count
  <2> DEFINE p == Wrap(start + k) + 1
  <2>1. At(k)' = buffer'[p] /\ At(k) = buffer[p]
    BY <1>1 DEF At, Wrap
  <2>2. CASE k = count
    BY <1>4, <1>5, <2>1, <2>2
  <2>3. CASE k # count
    <3>1. p \in 1 .. Len(buffer) /\ p \in 1 .. Len(Room(next)) /\ p # next + 1
      <4>1. k \in 0 .. count - 1
        BY <1>0, <2>3
      <4> DEFINE q == Wrap(start + k)
      <4>2. q \in Nat /\ q # next /\ q < Len(buffer) /\ p = q + 1
        BY <1>3, <4>1
      <4> HIDE DEF q, p
      <4> QED BY <1>0, <1>2, <4>2
    <3> HIDE DEF p
    <3> QED BY <1>2, <1>5, <2>1, <2>3, <3>1
  <2> QED BY <2>2, <2>3
<1>7. \A k \in 0 .. count : Wrap(start + k) < Len(buffer')
  <2> TAKE k \in 0 .. count
  <2>1. CASE k = count
    BY <1>2, <1>4, <1>5, <2>1
  <2>2. CASE k # count
    <3>1. k \in 0 .. count - 1
      BY <1>0, <2>2
    <3> DEFINE q == Wrap(start + k)
    <3>2. q \in Nat /\ q < Len(buffer)
      BY <1>3, <3>1
    <3> HIDE DEF q
    <3>3. q < Len(buffer')
      BY <1>0, <1>2, <1>5, <3>2
    <3> QED BY <3>3 DEF q
  <2> QED BY <2>1, <2>2
<1> QED BY <1>0, <1>1, <1>2, <1>5, <1>6, <1>7

\* FreeLE keeps the window from its i-th index on, and frees indices up to
\* the one acknowledged.
LEMMA FreeFacts ==
    ASSUME InflightsInv, NEW to \in Nat, Free(to)
    PROVE  /\ buffer' = buffer
           /\ \E i \in 0 .. count :
                 /\ Freed(to, i) /\ count' = count - i
                 /\ count' = 0 => start' = 0
                 /\ start' \in 0 .. Size - 1
                 /\ \A k \in 0 .. count' - 1 :
                       /\ At(k)' = At(i + k)
                       /\ Wrap(start' + k) = Wrap(start + (i + k))
<1>0. /\ start \in Nat /\ count \in Nat /\ Size \in Nat /\ Size > 0
      /\ start < Size /\ count <= Size /\ (count = 0 => start = 0)
  BY SizeAssumption DEF InflightsInv, TypeOK, Stored
<1>1. CASE count = 0 \/ to < At(0)
  <2>1. UNCHANGED ring
    BY <1>1 DEF Free
  <2>2. Freed(to, 0)
    BY <1>0, <1>1 DEF Freed
  <2>3. \A k \in 0 .. count - 1 : At(k)' = At(0 + k) /\ Wrap(start' + k) = Wrap(start + (0 + k))
    BY <1>0, <2>1 DEF At, Wrap, ring
  <2> QED BY <1>0, <2>1, <2>2, <2>3 DEF ring
<1>2. CASE ~(count = 0 \/ to < At(0))
  <2>1. PICK i \in 0 .. count : /\ Freed(to, i)
                                /\ count' = count - i
                                /\ start' = IF i = count THEN 0 ELSE Wrap(start + i)
                                /\ UNCHANGED buffer
    BY <1>2 DEF Free
  <2>2. start' \in 0 .. Size - 1 /\ count' \in Nat /\ (count' = 0 => start' = 0)
    BY <1>0, <2>1 DEF Wrap
  <2>3. \A k \in 0 .. count' - 1 : Wrap(start' + k) = Wrap(start + (i + k))
    BY <1>0, <2>1, <2>2 DEF Wrap
  <2>4. \A k \in 0 .. count' - 1 : At(k)' = At(i + k)
    <3> TAKE k \in 0 .. count' - 1
    <3>1. At(k)' = buffer'[Wrap(start' + k) + 1]
      BY DEF At, Wrap
    <3> QED BY <2>1, <2>3, <3>1 DEF At
  <2> QED BY <2>1, <2>2, <2>3, <2>4
<1> QED BY <1>1, <1>2

\* What the window holds are natural numbers.
LEMMA AtNat ==
    ASSUME InflightsInv PROVE \A k \in 0 .. count - 1 : At(k) \in Nat
<1> TAKE k \in 0 .. count - 1
<1> DEFINE p == Wrap(start + k) + 1
<1>1. p \in 1 .. Len(buffer)
  <2>1. Wrap(start + k) < Len(buffer)
    BY DEF InflightsInv, Stored
  <2>2. Wrap(start + k) \in Nat
    BY SizeAssumption DEF InflightsInv, TypeOK, Wrap
  <2>3. Len(buffer) \in Nat
    BY DEF InflightsInv, TypeOK
  <2> QED BY <2>1, <2>2, <2>3
<1> HIDE DEF p
<1>2. buffer[p] \in Nat
  BY <1>1 DEF InflightsInv, TypeOK
<1> QED BY <1>2 DEF At, p

-----------------------------------------------------------------------------
\* A new ring satisfies the invariant.
LEMMA InvInit == Init => InflightsInv
BY SizeAssumption DEF Init, InflightsInv, TypeOK, Stored, Ascending

\* Add keeps it, also when the buffer grows or the position wraps.
LEMMA InvAdd == ASSUME InflightsInv, NEW x \in Indices, Add(x) PROVE InflightsInv'
<1>0. /\ start \in 0 .. Size - 1 /\ count \in 0 .. Size /\ Size \in Nat
  BY SizeAssumption DEF InflightsInv, TypeOK
<1>1. /\ start' = start /\ count' = count + 1
      /\ count < Size /\ buffer' \in Seq(Nat)
      /\ Len(buffer') \in Nat /\ Len(buffer') <= Size
      /\ \A k \in 0 .. count : Wrap(start + k) < Len(buffer')
      /\ \A k \in 0 .. count : At(k)' = IF k = count THEN x ELSE At(k)
  BY AddFacts
<1>2. TypeOK'
  BY <1>0, <1>1 DEF TypeOK
<1>3. Stored'
  BY <1>0, <1>1 DEF Stored, Wrap
<1>4. Ascending'
  <2>1. \A k \in 0 .. count - 1 : At(k) < x
    BY DEF Add, Outstanding
  <2> SUFFICES ASSUME NEW j \in 0 .. count, NEW k \in 0 .. count, j < k
               PROVE  At(j)' < At(k)'
    BY <1>0, <1>1 DEF Ascending
  <2> QED BY <1>0, <1>1, <2>1 DEF InflightsInv, Ascending
<1> QED BY <1>2, <1>3, <1>4 DEF InflightsInv

\* FreeLE and FreeFirstOne keep it.
LEMMA InvFree == ASSUME InflightsInv, NEW to \in Nat, Free(to) PROVE InflightsInv'
<1>0. /\ start \in 0 .. Size - 1 /\ count \in 0 .. Size /\ Size \in Nat
  BY SizeAssumption DEF InflightsInv, TypeOK
<1>1. PICK i \in 0 .. count :
         /\ count' = count - i
         /\ count' = 0 => start' = 0
         /\ start' \in 0 .. Size - 1
         /\ \A k \in 0 .. count' - 1 : /\ At(k)' = At(i + k)
                                       /\ Wrap(start' + k) = Wrap(start + (i + k))
  BY FreeFacts
<1>2. buffer' = buffer
  BY FreeFacts
<1>3. TypeOK'
  BY <1>0, <1>1, <1>2 DEF InflightsInv, TypeOK
<1>4. Stored'
  <2>1. \A k \in 0 .. count' - 1 : Wrap(start' + k) < Len(buffer')
    <3> TAKE k \in 0 .. count' - 1
    <3>1. i + k \in 0 .. count - 1
      BY <1>0, <1>1
    <3>2. Wrap(start + (i + k)) < Len(buffer)
      BY <3>1 DEF InflightsInv, Stored
    <3> QED BY <1>1, <1>2, <3>2
  <2> QED BY <1>1, <2>1 DEF Stored, Wrap
<1>5. Ascending'
  <2> SUFFICES ASSUME NEW j \in 0 .. count' - 1, NEW k \in 0 .. count' - 1, j < k
               PROVE  At(j)' < At(k)'
    BY DEF Ascending
  <2>1. i + j \in 0 .. count - 1 /\ i + k \in 0 .. count - 1 /\ i + j < i + k
    BY <1>0, <1>1
  <2>2. At(i + j) < At(i + k)
    BY <2>1 DEF InflightsInv, Ascending
  <2> QED BY <1>1, <2>2
<1> QED BY <1>3, <1>4, <1>5 DEF InflightsInv

\* reset keeps it.
LEMMA InvReset == InflightsInv /\ Reset => InflightsInv'
BY SizeAssumption DEF Reset, InflightsInv, TypeOK, Stored, Ascending

\* Every step keeps it.
LEMMA InvNext == InflightsInv /\ [Next]_vars => InflightsInv'
<1> SUFFICES ASSUME InflightsInv, [Next]_vars PROVE InflightsInv'
  OBVIOUS
<1>1. CASE \E x \in Indices : Add(x)
  BY <1>1, InvAdd
<1>2. CASE \E x \in Indices : FreeLE(x)
  BY <1>2, InvFree, IndicesAssumption DEF FreeLE
<1>3. CASE FreeFirstOne
  <2>1. At(0) \in Nat
    BY <1>3, AtNat, SizeAssumption DEF FreeFirstOne, Full
  <2> QED BY <1>3, <2>1, InvFree DEF FreeFirstOne
<1>4. CASE Reset
  BY <1>4, InvReset
<1>5. CASE UNCHANGED vars
  BY <1>5 DEF vars, ring, InflightsInv, TypeOK, Stored, Ascending, At, Wrap
<1> QED BY <1>1, <1>2, <1>3, <1>4, <1>5 DEF Next

\* The invariant holds in all behaviours.
LEMMA Invariant == Spec => []InflightsInv
BY InvInit, InvNext, PTL DEF Spec

\* Positions and lengths stay within the ring, for every size.
THEOREM TypeCorrect == Spec => []TypeOK
<1>1. InflightsInv => TypeOK
  BY DEF InflightsInv
<1> QED BY Invariant, <1>1, PTL

\* in.buffer[next] = inflight never panics, for every size and every
\* sequence of Add, FreeLE, FreeFirstOne and reset.
THEOREM WriteCorrect == Spec => []WriteInRange
<1>1. InflightsInv => WriteInRange
  <2> SUFFICES ASSUME InflightsInv, ~Full
               PROVE  Wrap(start + count) < Len(Room(Wrap(start + count)))
    BY DEF WriteInRange
  <2> DEFINE next == Wrap(start + count)
  <2>1. next = Wrap(start + count)
    OBVIOUS
  <2> HIDE DEF next
  <2> QED BY <2>1, RoomFacts
<1> QED BY Invariant, <1>1, PTL

-----------------------------------------------------------------------------
\* The window has as many indices as it counts.
LEMMA Counted ==
    ASSUME InflightsInv
    PROVE  IsFiniteSet(Outstanding) /\ Cardinality(Outstanding) = count
<1>0. count \in Nat
  BY DEF InflightsInv, TypeOK
<1> DEFINE f == [k \in 0 .. count - 1 |-> At(k)]
           D == 0 .. count - 1
<1>1. f \in [D -> Outstanding] /\ \A y \in Outstanding : \E k \in D : f[k] = y
  BY DEF Outstanding
<1>2. \A j, k \in D : f[j] = f[k] => j = k
  <2> SUFFICES ASSUME NEW j \in D, NEW k \in D, At(j) = At(k) PROVE j = k
    OBVIOUS
  <2>1. At(j) \in Nat /\ At(k) \in Nat
    BY AtNat
  <2>2. ~(j < k) /\ ~(k < j)
    BY <2>1 DEF InflightsInv, Ascending
  <2> QED BY <1>0, <2>2
<1>3. f \in Bijection(D, Outstanding)
  BY <1>1, <1>2 DEF Bijection, Injection, Surjection, IsInjective
<1>4. IsFiniteSet(D) /\ Cardinality(D) = count
  BY <1>0, FS_Interval
<1>5. ExistsBijection(D, Outstanding)
  BY <1>3 DEF ExistsBijection
<1> HIDE DEF D, f
<1> QED BY <1>4, <1>5, FS_Bijection

\* Count() is the number of messages on their way, so Full() pauses a
\* follower exactly when the window is used up.
THEOREM CountCorrect == Spec => []CountOutstanding
<1>1. InflightsInv => CountOutstanding
  BY Counted DEF CountOutstanding
<1> QED BY Invariant, <1>1, PTL

\* Freeing through an index leaves the indices above it.
LEMMA FreeOutstanding ==
    ASSUME InflightsInv, NEW to \in Nat, Free(to)
    PROVE  Outstanding' = {y \in Outstanding : y > to}
<1>0. count \in Nat
  BY DEF InflightsInv, TypeOK
<1>1. PICK i \in 0 .. count :
         /\ Freed(to, i) /\ count' = count - i
         /\ \A k \in 0 .. count' - 1 : At(k)' = At(i + k)
  BY FreeFacts
<1>2. Outstanding' = {At(i + k) : k \in 0 .. count - i - 1}
  <2>1. Outstanding' = {At(k)' : k \in 0 .. count' - 1}
    BY DEF Outstanding
  <2> QED BY <1>0, <1>1, <2>1
<1>3. \A k \in 0 .. count - 1 : At(k) \in Nat
  BY AtNat
<1>4. \A k \in 0 .. i - 1 : ~(At(k) > to)
  BY <1>0, <1>1, <1>3 DEF Freed
<1>5. \A k \in i .. count - 1 : At(k) > to
  <2> SUFFICES ASSUME NEW k \in i .. count - 1 PROVE At(k) > to
    OBVIOUS
  <2>1. i \in 0 .. count - 1 /\ k \in 0 .. count - 1
    BY <1>0
  <2>2. to < At(i) /\ At(i) <= At(k)
    BY <1>0, <1>1, <1>3, <2>1 DEF Freed, InflightsInv, Ascending
  <2> QED BY <1>3, <2>1, <2>2
<1>6. ASSUME NEW y \in Outstanding, y > to PROVE y \in Outstanding'
  <2>1. PICK k \in 0 .. count - 1 : y = At(k)
    BY DEF Outstanding
  <2>2. k \in i .. count - 1
    BY <1>0, <1>4, <1>6, <2>1
  <2>3. k - i \in 0 .. count - i - 1 /\ i + (k - i) = k
    BY <1>0, <2>2
  <2> QED BY <1>2, <2>1, <2>3
<1>7. ASSUME NEW y \in Outstanding' PROVE y \in Outstanding /\ y > to
  <2>1. PICK k \in 0 .. count - i - 1 : y = At(i + k)
    BY <1>2
  <2>2. i + k \in i .. count - 1 /\ i + k \in 0 .. count - 1
    BY <1>0
  <2> QED BY <1>5, <2>1, <2>2 DEF Outstanding
<1> QED BY <1>6, <1>7

\* Every step of the ring is a step of the window, or leaves it alone.
LEMMA WindowStep ==
    ASSUME InflightsInv, [Next]_vars
    PROVE  [Window!Next]_(Window!vars)
<1>0. Window!Cardinality(Outstanding) = Cardinality(Outstanding)
  BY DEF Window!Cardinality, Cardinality
<1>1. CASE \E x \in Indices : Add(x)
  <2>1. PICK x \in Indices : Add(x)
    BY <1>1
  <2>2. /\ count' = count + 1 /\ count < Size /\ count \in Nat
        /\ \A k \in 0 .. count : At(k)' = IF k = count THEN x ELSE At(k)
    BY <2>1, AddFacts DEF InflightsInv, TypeOK
  <2>3. Outstanding' = {At(k)' : k \in 0 .. count' - 1}
    BY DEF Outstanding
  <2>4. Outstanding' = Outstanding \cup {x}
    <3>1. ASSUME NEW y \in Outstanding' PROVE y \in Outstanding \cup {x}
      BY <2>2, <2>3 DEF Outstanding
    <3>2. ASSUME NEW y \in Outstanding PROVE y \in Outstanding'
      BY <2>2, <2>3 DEF Outstanding
    <3>3. x \in Outstanding'
      BY <2>2, <2>3
    <3> QED BY <3>1, <3>2, <3>3
  <2>5. /\ Cardinality(Outstanding) < Size /\ \A y \in Outstanding : y < x
        /\ call' = <<"Add", x>>
    BY <2>1, <2>2, Counted DEF Add
  <2> QED BY <1>0, <2>4, <2>5 DEF Window!Next, Window!Add
<1>2. CASE \E x \in Indices : FreeLE(x)
  BY <1>2, FreeOutstanding, IndicesAssumption DEF FreeLE, Window!Next, Window!FreeLE
<1>3. CASE FreeFirstOne
  <2>1. /\ count = Size /\ Size \in Nat /\ 0 \in 0 .. count - 1 /\ Free(At(0))
        /\ call' = <<"FreeFirstOne", 0>>
    BY <1>3, SizeAssumption DEF FreeFirstOne, Full
  <2>2. \A k \in 0 .. count - 1 : At(k) \in Nat
    BY AtNat
  <2>3. At(0) \in Outstanding
    BY <2>1 DEF Outstanding
  <2>4. \A y \in Outstanding : y \in Nat /\ At(0) <= y
    BY <2>1, <2>2 DEF Outstanding, InflightsInv, Ascending
  <2>5. Outstanding' = {y \in Outstanding : y > At(0)}
    BY <2>1, <2>2, FreeOutstanding
  <2>6. Outstanding' = Outstanding \ {At(0)}
    BY <2>1, <2>2, <2>4, <2>5
  <2>7. Cardinality(Outstanding) = Size
    BY <2>1, Counted
  <2> QED BY <1>0, <2>1, <2>3, <2>4, <2>6, <2>7 DEF Window!Next, Window!FreeFirstOne
<1>4. CASE Reset
  <2>1. Outstanding' = {} /\ call' = <<"reset", 0>>
    BY <1>4 DEF Reset, Outstanding
  <2> QED BY <2>1 DEF Window!Next, Window!Reset
<1>5. CASE UNCHANGED vars
  BY <1>5 DEF vars, ring, Outstanding, At, Wrap, Window!vars
<1> QED BY <1>1, <1>2, <1>3, <1>4, <1>5 DEF Next

\* The ring buffer with its wrap-around and growing buffer implements the
\* window: the leader may think of Inflights as a set of indices.
THEOREM RingImplementsWindow == Spec => WindowSpec
<1>1. Init => Window!Init
  BY DEF Init, Window!Init, Outstanding
<1>2. InflightsInv /\ [Next]_vars => [Window!Next]_(Window!vars)
  BY WindowStep
<1> QED BY Invariant, <1>1, <1>2, PTL DEF Spec, WindowSpec, Window!Spec
=============================================================================
