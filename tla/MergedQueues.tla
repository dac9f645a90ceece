---------------------------- MODULE MergedQueues ----------------------------
(***************************************************************************)
(* What an event_pipe_t promises the loop, with no tree and no searches:   *)
(* the registered queues stand in a line, of which the first is the one    *)
(* that is looked at and read.                                             *)
(***************************************************************************)
EXTENDS QueueLines

CONSTANTS
  Queues,  \* the cm_queue_t objects
  Values   \* the events the producers push

VARIABLES
  line,   \* the registered queues, first to last
  events  \* the events each queue holds, oldest first

lineVars == <<events, line>>

Init ==
  /\ line = << >>
  /\ events = [q \in Queues |-> << >>]

Push(q, x) ==
  /\ events' = [events EXCEPT ![q] = Append(@, x)]
  /\ UNCHANGED line

Add(q) ==
  /\ UNCHANGED events
  /\ line' \in Additions(line, q, events[q] = << >>)

Leave == UNCHANGED events /\ \E i \in DOMAIN line : line' = RemoveAt(line, i)

Clear == UNCHANGED events /\ line' = << >>

\* The first queue gives its oldest event; it stays where it is, or it is
\* taken out and put in anew.
Read ==
  LET q == Head(line) IN
  /\ events' # events
  /\ line # << >> /\ events[q] # << >>
  /\ events' = [events EXCEPT ![q] = Tail(@)]
  /\ line' \in {line} \cup Insertions(Tail(line), q, Tail(events[q]) = << >>)

\* A call that fails or only asks, or one under way.
Stay == UNCHANGED lineVars

Next ==
  \/ Stay
  \/ \E q \in Queues, x \in Values : Push(q, x)
  \/ \E q \in Queues : Add(q)
  \/ Leave \/ Clear \/ Read

Spec == Init /\ [][Next]_lineVars
=============================================================================
