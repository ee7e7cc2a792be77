-------------------------- MODULE InflightWindow --------------------------
(***************************************************************************)
(* What Inflights promises the leader (raft/tracker): the set of the       *)
(* indices of the append messages that are on their way to one follower,   *)
(* at most size of them, freed from the lowest up.                         *)
(***************************************************************************)
EXTENDS Naturals, FiniteSets

CONSTANTS
    Size,     \* Inflights.size
    Indices   \* log indices that may be sent

VARIABLES
    outstanding,
    call          \* the operation called last, and its argument

vars == <<outstanding, call>>

Init == outstanding = {} /\ call = <<"New", 0>>

\* A message ending at index x is sent.  Messages are sent in order.
Add(x) ==
    /\ Cardinality(outstanding) < Size
    /\ \A y \in outstanding : y < x
    /\ outstanding' = outstanding \cup {x}
    /\ call' = <<"Add", x>>

\* The follower has everything up to index to.
FreeLE(to) ==
    /\ outstanding' = {y \in outstanding : y > to}
    /\ call' = <<"FreeLE", to>>

\* A full window is opened by one message, the oldest.
FreeFirstOne ==
    /\ Cardinality(outstanding) = Size
    /\ \E x \in outstanding : /\ \A y \in outstanding : x <= y
                              /\ outstanding' = outstanding \ {x}
    /\ call' = <<"FreeFirstOne", 0>>

Reset == outstanding' = {} /\ call' = <<"reset", 0>>

Next ==
    \/ \E x \in Indices : Add(x) \/ FreeLE(x)
    \/ FreeFirstOne
    \/ Reset

Spec == Init /\ [][Next]_vars
=============================================================================
