---------------------------- MODULE MCSpscQueue ----------------------------
(***************************************************************************)
(* A ring of three slots, which holds up to two of two items: it fills,    *)
(* empties and wraps with either thread ahead of what the other has seen.  *)
(***************************************************************************)
EXTENDS SpscQueue
=============================================================================
