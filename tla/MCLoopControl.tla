--------------------------- MODULE MCLoopControl ---------------------------
(***************************************************************************)
(* An owner that starts the loop twice, a thread for each start and two    *)
(* threads that pause, step and resume.                                    *)
(***************************************************************************)
EXTENDS LoopControl
=============================================================================
