---------------------------- MODULE MCInflights ----------------------------
(***************************************************************************)
(* Inflights with a ring of five positions: the buffer grows three times   *)
(* (1, 2, 4: doubled, then 5: cut to size), and eight indices let the       *)
(* window wrap around with and without free positions.                     *)
(***************************************************************************)
EXTENDS Inflights
=============================================================================
