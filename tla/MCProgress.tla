----------------------------- MODULE MCProgress -----------------------------
(***************************************************************************)
(* Progress with a window of two messages over a log of at most four       *)
(* entries: the window fills up and is freed one by one, and a rejection    *)
(* may concern an index below, at or above Match.                          *)
(***************************************************************************)
EXTENDS Progress

CONSTANT MaxSent   \* bound: messages with a different content that are sent

FewSent == Cardinality(sent) <= MaxSent
=============================================================================
