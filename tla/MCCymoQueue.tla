---------------------------- MODULE MCCymoQueue ----------------------------
(***************************************************************************)
(* A ring of two places, three events, one of them a closing one, and up   *)
(* to two references to each.                                              *)
(***************************************************************************)
EXTENDS CymoQueue
=============================================================================
