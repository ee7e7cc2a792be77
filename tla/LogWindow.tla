----------------------------- MODULE LogWindow -----------------------------
(***************************************************************************)
(* What the storage of the raft log promises (raft/storage.go, interface   *)
(* Storage): the terms of a contiguous run of indices.  The lowest index   *)
(* of the run is the boundary: its term is kept for matching although the  *)
(* entry itself is gone.  Entries are stored at the end or over a tail,    *)
(* discarded from below, or all replaced by a snapshot.                    *)
(***************************************************************************)
EXTENDS Integers, Sequences

CONSTANTS Indices,   \* indices the log may hold
          Terms      \* terms of entries

VARIABLE log         \* the term at every index of the run

Boundary == CHOOSE i \in DOMAIN log : \A j \in DOMAIN log : i =< j
Last     == CHOOSE i \in DOMAIN log : \A j \in DOMAIN log : j =< i

Init == log = [i \in {0} |-> 0]

(* Entries i .. j replace whatever was at i and above; what is below stays. *)
Store == \E i \in Boundary + 1 .. Last + 1, j \in Indices :
           /\ i =< j
           /\ \E terms \in [i .. j -> Terms] :
                log' = [k \in Boundary .. j |-> IF k < i THEN log[k] ELSE terms[k]]

(* i becomes the boundary and keeps its term. *)
Discard == \E i \in DOMAIN log : log' = [k \in i .. Last |-> log[k]]

(* A snapshot replaces the run by its own last index and term. *)
Install == \E i \in Indices, t \in Terms : log' = [k \in {i} |-> t]

Next == Store \/ Discard \/ Install

Spec == Init /\ [][Next]_log
=============================================================================
