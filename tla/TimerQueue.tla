----------------------------- MODULE TimerQueue -----------------------------
(***************************************************************************)
(* What a reminder_queue_t promises the loop, with no tree and no nodes: a *)
(* set of pending reminders, of which the earliest fires first and, among  *)
(* equally early ones, the one that was added first.                       *)
(***************************************************************************)
EXTENDS Naturals

CONSTANTS
  Reminders,      \* the reminder objects
  Ids,            \* the numbers given to them, ascending
  TimestampOf(_)  \* when a reminder is due

VARIABLES
  pending,  \* the reminders added, each with its number
  fired     \* what the last operation handed out: nothing, or one reminder

timerVars == <<pending, fired>>

Earlier(e, f) ==
  \/ TimestampOf(e.reminder) < TimestampOf(f.reminder)
  \/ /\ TimestampOf(e.reminder) = TimestampOf(f.reminder)
     /\ e.id < f.id

Init == pending = {} /\ fired = {}

Add(r, id) ==
  /\ \A e \in pending : e.id < id
  /\ pending' = pending \cup {[reminder |-> r, id |-> id]}
  /\ fired' = {}

Fire(e) ==
  /\ \A f \in pending \ {e} : Earlier(e, f)
  /\ pending' = pending \ {e}
  /\ fired' = {e.reminder}

Cancel(e) == pending' = pending \ {e} /\ fired' = {}

Clear == pending' = {} /\ fired' = {}

\* A push that is refused, a removal that finds nothing, a pop of an empty
\* queue.
Refuse == fired' = {} /\ UNCHANGED pending

Next ==
  \/ \E r \in Reminders, id \in Ids : Add(r, id)
  \/ \E e \in pending : Fire(e) \/ Cancel(e)
  \/ Clear \/ Refuse

Spec == Init /\ [][Next]_timerVars
=============================================================================
