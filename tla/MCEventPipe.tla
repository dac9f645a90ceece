---------------------------- MODULE MCEventPipe ----------------------------
(***************************************************************************)
(* Four registrations of three queues of at most one event, with two       *)
(* timestamps: trees of up to four nodes, whose keys change in place.      *)
(***************************************************************************)
EXTENDS EventPipe, TLC

MCNodes == 1 .. MaxId
MCTimes == {1, 2}

\* Queues are told apart only by being the same one or not.
QueueSymmetry == Permutations(Queues)
=============================================================================
