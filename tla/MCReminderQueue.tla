-------------------------- MODULE MCReminderQueue --------------------------
(***************************************************************************)
(* Five reminders: three due at 1, of which two are alike, and two due at  *)
(* 2, one of them with the payload of a third.  Six pushes make trees of   *)
(* up to six nodes, deep enough to rotate and to remove inner nodes.       *)
(***************************************************************************)
EXTENDS ReminderQueue

MCReminders == {"a", "a2", "b", "c", "d"}
MCTimestampOf(r) == IF r \in {"a", "a2", "b"} THEN 1 ELSE 2
MCPayloadOf(r) == IF r \in {"a", "a2", "c"} THEN "x" ELSE "y"
MCTimes == {1, 2}
MCPayloads == {"x", "y"}
MCNodes == 1 .. MaxId
=============================================================================
