------------------------------ MODULE CymoLoop ------------------------------
(***************************************************************************)
(* cymo_loop.c, the dispatch: what dequeue, called over and over by        *)
(* cymo_main, hands to cm_event_process, out of the four pipes, the two    *)
(* clocks and the event it has saved.                                      *)
(*                                                                         *)
(* A pipe is a line of queues (QueueLines), as EventPipe shows, a clock     *)
(* the times of its pending reminders in order, as ReminderQueue shows     *)
(* (TimerQueue).  Each test of dequeue is a step and producers push        *)
(* between any two.  One thread adds queues from outside; what runs on the *)
(* loop thread itself comes between two calls of dequeue.                  *)
(*                                                                         *)
(* Each line that tests the answer of a callee is the test as it stands.   *)
(* What the callees answer is a setting.  As they are built (asCalled is   *)
(* FALSE) a pop answers 0 for an item and -1 for none, and a push of a     *)
(* reminder its timer id.  With asCalled TRUE they answer what these lines *)
(* are written for, a pop nonzero for an item and a push 0: no build of    *)
(* the repository is so, and it is there for the rest of dequeue, which    *)
(* never has a saved event otherwise.                                      *)
(*                                                                         *)
(* cymo_start ignores the mode it is given and cymo_init leaves out        *)
(* reminder_order: both are whatever the owner has stored in the fields.   *)
(* The other fields cymo_init leaves out start as zeroed memory has them.  *)
(***************************************************************************)
EXTENDS Integers, FiniteSets, QueueLines

CONSTANTS
  Queues, NoQueue,
  Events,        \* what producers push: records of type, time and exchange
  EventsOf,      \* those that are pushed to each queue
  NoEvent,
  Times,         \* of reminders
  Now,           \* the local clock, which nobody can set in realtime mode
  Settings,      \* what is fixed before the loop runs
  PendingSize,   \* capacity of the ring of pending queues
  MaxPushes,     \* bound on the events pushed to each queue
  MaxReminders   \* bound on the reminders added

ASSUME NowAssumption == Now \in Nat /\ Times \subseteq Nat
ASSUME SettingsAssumption ==
  Settings \subseteq [mode : {"simulator", "realtime"},
                      order : {"before", "after"},
                      clear : BOOLEAN, asCalled : BOOLEAN,
                      type : [Queues -> 0 .. 3]]

EventTypes == {"tick", "marker", "stop", "closed"}

ASSUME EventsAssumption ==
  /\ Events \subseteq [type : EventTypes, time : Int, exchange : Int]
  /\ EventsOf \in [Queues -> SUBSET Events]
ASSUME BoundsAssumption ==
  /\ PendingSize \in Nat \ {0}
  /\ MaxPushes \in [Queues -> Nat] /\ MaxReminders \in Nat

\* An event in a queue, with its number among the pushes to that queue, and
\* whether its memory is what was stored there.
Item == [type : EventTypes, time : Int, exchange : Int,
         n : Nat, q : Queues, live : BOOLEAN]

Numbered(e, n, q, live) ==
  [type |-> e.type, time |-> e.time, exchange |-> e.exchange,
   n |-> n, q |-> q, live |-> live]

ASSUME NoEventAssumption == NoEvent \notin Item

DATA_PIPE == 0
EXECUTION_PIPE == 1
SERVICE_PIPE == 3
Pipes == 0 .. 3
ReadPipes == {DATA_PIPE, EXECUTION_PIPE, SERVICE_PIPE}
Clocks == {"local", "exchange"}

VARIABLES
  setting,   \* mode, reminder_order, clear_reminders, asCalled,
             \* and the type of each queue
  pending,   \* loop->pending, the queues handed over by another thread
  slot,      \* what q of dequeue may hold when nothing was stored in it: the
             \* queue of an earlier call
  line,      \* the queues of each pipe, first to last
  content,   \* the events in each queue, oldest first, numbered as pushed
  clock,     \* the times of the pending reminders
  saved,     \* loop->saved_event
  stop,      \* loop->is_simulation_stop
  at,        \* where the loop thread is in dequeue
  pushed,    \* how many events each queue was given
  handled,   \* and how many the loop has handed on or dropped on purpose
  handed,    \* the queues passed to cymo_add_queue so far
  added,     \* how many reminders were added so far
  ahead      \* was there an execution or service event at the pass's start

pipeVars == <<line, content>>
producerVars == <<pushed, handed>>
vars == <<setting, pending, slot, pipeVars, clock, saved, stop, at,
          producerVars, handled, added, ahead>>

realtime == setting.mode = "realtime"
before == setting.order = "before"
asCalled == setting.asCalled

\* The loop has ended; what others do after that is left out.
Over == at \in {"stopped", "crashed"}

Init ==
  /\ setting \in Settings
  /\ pending = << >> /\ slot = NoQueue
  /\ line = [p \in Pipes |-> << >>] /\ content = [q \in Queues |-> << >>]
  /\ clock = [c \in Clocks |-> << >>]
  /\ saved = NoEvent /\ stop = FALSE /\ at = "idle"
  /\ pushed = [q \in Queues |-> 0] /\ handled = [q \in Queues |-> 0]
  /\ handed = {} /\ added = 0 /\ ahead = FALSE

-----------------------------------------------------------------------------
(***************************************************************************)
(* What the loop thread calls.                                             *)
(***************************************************************************)
\* event_pipe_is_empty.
IsEmpty(p) == line[p] # << >> => content[Head(line[p])] = << >>

\* What spsc_queue_pop and cm_queue_pop answer when s is left to pop.
PopAnswer(s) ==
  IF asCalled THEN (IF s = << >> THEN 0 ELSE 1)
              ELSE (IF s = << >> THEN -1 ELSE 0)

\* Mutant: every queue is put into the data pipe.
PipeAddToData(q) ==
  \/ \E s \in Additions(line[DATA_PIPE], q, content[q] = << >>) :
       line' = [line EXCEPT ![DATA_PIPE] = s]
  \/ UNCHANGED line

\* event_pipe_add; the last disjunct is that of a malloc that fails.
PipeAdd(q) ==
  LET p == setting.type[q] IN
  \/ \E s \in Additions(line[p], q, content[q] = << >>) :
       line' = [line EXCEPT ![p] = s]
  \/ UNCHANGED line

Waiting(p) == content[Head(line[p])]

\* event_pipe_read of a pipe that is not empty, up to its test of the pop: what
\* it answers.  A closing event is given back after its unref, and when nobody
\* else held it what the loop then reads of it is anything.
ReadsEmpty(p) == PopAnswer(Waiting(p)) = 0

ReadAnswers(p) ==
  LET e == Head(Waiting(p)) IN
  IF ReadsEmpty(p) THEN {NoEvent}
  ELSE IF e.type # "closed" THEN {e}
  ELSE {e} \cup {Numbered(g, e.n, e.q, FALSE) : g \in Events}

\* Mutant: the pop leaves the event in its queue.
PipeReadPeeks(p) == UNCHANGED pipeVars

\* What it does: the pop takes the event out, whatever its answer is taken for.
\* A queue is put back once it has been searched a place; what was pushed
\* meanwhile counts as pushed before.
PipeRead(p) ==
  LET q == Head(line[p]) rest == Tail(line[p]) IN
  /\ content' = [content EXCEPT ![q] = Tail(@)]
  /\ \E s \in IF ReadsEmpty(p) THEN {line[p]}
              ELSE IF Head(Waiting(p)).type = "closed" THEN {rest}
              ELSE Insertions(rest, q, Tail(Waiting(p)) = << >>) :
       line' = [line EXCEPT ![p] = s]

Hand(e) ==
  handled' = IF e = NoEvent THEN handled ELSE [handled EXCEPT ![e.q] = e.n]

\* reminder_queue_pop of a clock that is not empty.
PopReminder(c) == clock' = [clock EXCEPT ![c] = Tail(@)]

-----------------------------------------------------------------------------
(***************************************************************************)
(* The other threads, and the loop thread between two calls of dequeue.    *)
(***************************************************************************)
\* cm_queue_push; a closing event is a producer's last, and the bound's.
Push(q, e) ==
  /\ ~Over /\ pushed[q] < MaxPushes[q]
  /\ e.type = "closed" => pushed[q] = MaxPushes[q] - 1
  /\ pushed' = [pushed EXCEPT ![q] = @ + 1]
  /\ content' = [content EXCEPT ![q] =
                   Append(@, Numbered(e, pushed[q] + 1, q, TRUE))]
  /\ UNCHANGED <<setting, pending, slot, line, clock, saved, stop, at, handed,
                 handled, added, ahead>>

\* cymo_add_queue on another thread.  The pending ring has one slot more than
\* it takes queues, and with an old position it may look full when it is not.
AddQueue(q) ==
  /\ ~Over /\ q \notin handed /\ Len(pending) < PendingSize - 1
  /\ handed' = handed \cup {q}
  /\ pending' = Append(pending, q)
  /\ UNCHANGED <<setting, slot, pipeVars, clock, saved, stop, at, pushed,
                 handled, added, ahead>>

AddQueueFull(q) ==
  /\ ~Over /\ q \notin handed /\ Cardinality(handed) >= PendingSize - 1
  /\ UNCHANGED vars

\* cymo_add_queue on the loop thread.
AddQueueOwn(q) ==
  /\ at = "idle" /\ q \notin handed
  /\ handed' = handed \cup {q}
  /\ PipeAdd(q)
  /\ UNCHANGED <<setting, pending, slot, content, clock, saved, stop, at,
                 pushed, handled, added, ahead>>

\* cymo_add_reminder.  As built it takes the id for an error and frees the
\* reminder, whose node stays: anywhere, for what the comparisons read is freed.
AddReminder(c, t) ==
  /\ at = "idle" /\ added < MaxReminders
  /\ added' = added + 1
  /\ \E i \in 1 .. Len(clock[c]) + 1, u \in Times :
       /\ asCalled => u = t /\ \A j \in DOMAIN clock[c] : j < i <=> clock[c][j] <= t
       /\ clock' = [clock EXCEPT ![c] = InsertAt(@, i, u)]
  /\ UNCHANGED <<setting, pending, slot, pipeVars, saved, stop, at,
                 producerVars, handled, ahead>>

\* There is no memory for it or for its node, or it is refused.
AddReminderFails == at = "idle" /\ UNCHANGED vars

\* It is refused for one that is alike, and not the same: an assertion fails,
\* where assertions are compiled in.
AddReminderAborts(c, t) ==
  /\ at = "idle"
  /\ \E j \in DOMAIN clock[c] : asCalled => clock[c][j] = t
  /\ at' = "crashed"
  /\ UNCHANGED <<setting, pending, slot, pipeVars, clock, saved, stop,
                 producerVars, handled, added, ahead>>

\* cymo_clear once the main loop has ended.  It frees the saved event whatever
\* its count, which is the second time when the pipe has freed it before.
Clear ==
  /\ at = "idle"
  /\ at' = IF saved # NoEvent /\ ~saved.live THEN "crashed" ELSE "stopped"
  /\ saved' = NoEvent /\ stop' = FALSE
  /\ clock' = [c \in Clocks |-> << >>]
  /\ line' = [p \in Pipes |-> << >>]
  /\ UNCHANGED <<setting, pending, slot, content, producerVars, handled, added,
                 ahead>>

-----------------------------------------------------------------------------
(***************************************************************************)
(* dequeue: the pending queues first.                                      *)
(***************************************************************************)
loopData == <<setting, clock, saved, stop, producerVars, added>>

\* A pass of the while (true) of realtime_dequeue or simulator_dequeue begins.
NewPass ==
  /\ at' = "data"
  /\ ahead' = (~IsEmpty(EXECUTION_PIPE) \/ ~IsEmpty(SERVICE_PIPE))

Enter ==
  /\ at = "idle"
  /\ at' = "pending"
  /\ UNCHANGED <<loopData, pending, slot, pipeVars, handled, ahead>>

\* spsc_queue_pop, which stores nothing in q when there is nothing to pop.
PopPending ==
  /\ slot' = IF pending = << >> THEN slot ELSE Head(pending)
  /\ pending' = IF pending = << >> THEN pending ELSE Tail(pending)

\* The condition of the loop over the pending queues.
Popping == PopAnswer(pending) # 0

\* Its body, with the queue that was popped or, when none was, one that an
\* earlier call has left in the place of q.
DrainAdd ==
  /\ at = "pending" /\ Popping
  /\ PopPending
  /\ \E q \in Queues : slot' = q /\ PipeAdd(q)
  /\ UNCHANGED <<loopData, content, at, handled, ahead>>

\* Or with what else the place of q may hold.
DrainCrash ==
  /\ at = "pending" /\ Popping /\ pending = << >>
  /\ at' = "crashed"
  /\ UNCHANGED <<loopData, pending, slot, pipeVars, handled, ahead>>

DrainEnd ==
  /\ at = "pending" /\ ~Popping
  /\ PopPending
  /\ NewPass
  /\ UNCHANGED <<loopData, pipeVars, handled>>

-----------------------------------------------------------------------------
(***************************************************************************)
(* One pass of realtime_dequeue or simulator_dequeue.                      *)
(***************************************************************************)
\* Mutant: the saved event goes before the service pipe.
OrderSavedFirst ==
  IF realtime THEN <<"data", "execution", "clocks", "saved", "service">>
              ELSE <<"data", "clocks", "execution", "saved", "service">>

\* Where a pass goes through, step by step.
Order ==
  IF realtime THEN <<"data", "execution", "clocks", "service", "saved">>
              ELSE <<"data", "clocks", "execution", "service", "saved">>

Stages == {"data", "execution", "clocks", "service", "saved"}

Proceed == UNCHANGED ahead /\
  \E i \in 1 .. 4 : at = Order[i] /\ at' = Order[i + 1]

Return == at' = "idle" /\ UNCHANGED ahead
Crash == at' = "crashed" /\ UNCHANGED ahead

\* Nothing to read, or an event is saved already.
DataSkip ==
  /\ at = "data" /\ (IsEmpty(DATA_PIPE) \/ saved # NoEvent)
  /\ Proceed
  /\ UNCHANGED <<loopData, pending, slot, pipeVars, handled>>

\* Mutant: the next data event is read over the one that is saved.
DataPendingUnsaved == at = "data" /\ ~IsEmpty(DATA_PIPE)

DataPending == at = "data" /\ ~IsEmpty(DATA_PIPE) /\ saved = NoEvent

DataSimulator ==
  /\ DataPending /\ ~realtime
  /\ PipeRead(DATA_PIPE)
  /\ saved' \in ReadAnswers(DATA_PIPE)
  /\ Proceed
  /\ UNCHANGED <<setting, pending, slot, clock, stop, producerVars, handled,
                 added>>

\* The event goes no further: it asks for the end of the simulation, or it is
\* late and no marker.
Dropped(e) ==
  \/ e.type = "stop"
  \/ e.time < Now /\ e.type \notin {"marker", "closed"}

DataRealtime ==
  /\ DataPending /\ realtime
  /\ PipeRead(DATA_PIPE)
  /\ \E e \in ReadAnswers(DATA_PIPE) :
       \/ /\ e = NoEvent  \* and e->type is read
          /\ Crash
          /\ UNCHANGED <<saved, stop, handled>>
       \/ /\ e # NoEvent /\ Dropped(e)
          /\ stop' = (stop \/ e.type = "stop")
          /\ Hand(e)
          /\ NewPass
          /\ UNCHANGED saved
       \/ /\ e # NoEvent /\ ~Dropped(e)
          /\ saved' = [e EXCEPT !.time = IF @ < Now THEN Now ELSE @]
          /\ Proceed
          /\ UNCHANGED <<stop, handled>>
  /\ UNCHANGED <<setting, pending, slot, clock, producerVars, added>>

\* The execution and the service pipe.
Direct(here, p) ==
  /\ at = here
  /\ \/ IsEmpty(p) /\ Proceed /\ UNCHANGED <<pipeVars, handled>>
     \/ /\ ~IsEmpty(p)
        /\ PipeRead(p)
        /\ \E e \in ReadAnswers(p) : Hand(e)
        /\ Return
  /\ UNCHANGED <<loopData, pending, slot>>

Execution == Direct("execution", EXECUTION_PIPE)
Service == Direct("service", SERVICE_PIPE)

\* The clocks are the loop thread's alone: both are one step.

\* The end of a simulation empties the local clock, at once or one by one.
Ending == realtime /\ stop /\ clock["local"] # << >>

LocalClear ==
  /\ at = "clocks" /\ Ending /\ setting.clear
  /\ clock' = [clock EXCEPT !["local"] = << >>]
  /\ IF saved # NoEvent /\ before THEN Crash ELSE Proceed  \* t is NULL
  /\ UNCHANGED <<setting, pending, slot, pipeVars, saved, stop, producerVars,
                 handled, added>>

LocalPop ==
  /\ at = "clocks" /\ Ending /\ ~setting.clear
  /\ PopReminder("local") /\ Return
  /\ UNCHANGED <<setting, pending, slot, pipeVars, saved, stop, producerVars,
                 handled, added>>

\* Mutant: a reminder of the event's own time is not due yet.
BlockedStrict ==
  /\ saved # NoEvent /\ before
  /\ clock["local"] # << >> /\ Head(clock["local"]) < saved.time

\* A local reminder that is due breaks out of the loop, off the end of the
\* function: cm_event_process gets no event and the reminder stays.
Blocked ==
  /\ saved # NoEvent /\ before
  /\ clock["local"] # << >> /\ Head(clock["local"]) <= saved.time

LocalBreak ==
  /\ at = "clocks" /\ ~Ending /\ Blocked
  /\ Return
  /\ UNCHANGED <<loopData, pending, slot, pipeVars, handled>>

\* simulator_dequeue does not ask whether there is a saved event.
SavedIsNull ==
  ~realtime /\ before /\ saved = NoEvent /\ clock["local"] # << >>

LocalCrash ==
  /\ at = "clocks" /\ SavedIsNull
  /\ Crash
  /\ UNCHANGED <<loopData, pending, slot, pipeVars, handled>>

\* A reminder of the exchange clock is due by the tick that is saved.
ExchangeDue ==
  /\ saved # NoEvent /\ before
  /\ clock["exchange"] # << >>
  /\ saved.type = "tick" /\ Head(clock["exchange"]) <= saved.exchange

Exchange ==
  /\ at = "clocks" /\ ~Ending /\ ~Blocked /\ ~SavedIsNull /\ ExchangeDue
  /\ PopReminder("exchange") /\ Return
  /\ UNCHANGED <<setting, pending, slot, pipeVars, saved, stop, producerVars,
                 handled, added>>

ClocksSkip ==
  /\ at = "clocks" /\ ~Ending /\ ~Blocked /\ ~SavedIsNull /\ ~ExchangeDue
  /\ Proceed
  /\ UNCHANGED <<loopData, pending, slot, pipeVars, handled>>

\* The saved event; else, at the end of a simulation, a new event that says so
\* (its timestamp is stored without a look at what malloc gave); else again.
Saved ==
  /\ at = "saved"
  /\ \/ saved # NoEvent /\ Hand(saved) /\ Return /\ UNCHANGED stop
     \/ /\ saved = NoEvent /\ UNCHANGED handled
        /\ \/ realtime /\ stop /\ Return /\ stop' = FALSE
           \/ realtime /\ stop /\ Crash /\ UNCHANGED stop
           \/ ~(realtime /\ stop) /\ NewPass /\ UNCHANGED stop
  /\ saved' = NoEvent
  /\ UNCHANGED <<setting, pending, slot, pipeVars, clock, producerVars, added>>

Loop ==
  \/ Enter \/ DrainAdd \/ DrainCrash \/ DrainEnd
  \/ DataSkip \/ DataSimulator \/ DataRealtime \/ Execution
  \/ LocalClear \/ LocalPop \/ LocalBreak \/ LocalCrash \/ Exchange
  \/ ClocksSkip \/ Service \/ Saved

Next ==
  \/ \E q \in Queues :
       \/ \E e \in EventsOf[q] : Push(q, e)
       \/ AddQueue(q) \/ AddQueueFull(q) \/ AddQueueOwn(q)
  \/ \E c \in Clocks, t \in Times : AddReminder(c, t) \/ AddReminderAborts(c, t)
  \/ AddReminderFails
  \/ Loop \/ Clear

Spec == Init /\ [][Next]_vars

-----------------------------------------------------------------------------
\* Every variable keeps its type, and every queue is in the pipe of its own.
TypeOK ==
  /\ setting \in Settings
  /\ pending \in Seq(Queues) /\ slot \in Queues \cup {NoQueue}
  /\ line \in [Pipes -> Seq(Queues)]
  /\ \A p \in Pipes : \A i \in DOMAIN line[p] : setting.type[line[p][i]] = p
  /\ content \in [Queues -> Seq(Item)]
  /\ \A q \in Queues : \A i \in DOMAIN content[q] : content[q][i].q = q
  /\ clock \in [Clocks -> Seq(Times)]
  /\ saved \in Item \cup {NoEvent}
  /\ at \in Stages \cup {"idle", "pending", "crashed", "stopped"}
  /\ stop \in BOOLEAN /\ ahead \in BOOLEAN
  /\ pushed \in [Queues -> Nat] /\ handled \in [Queues -> Nat]
  /\ \A q \in Queues : handled[q] <= pushed[q] /\ pushed[q] <= MaxPushes[q]
  /\ handed \subseteq Queues /\ added \in 0 .. MaxReminders

\* What of a queue's events is saved, or still in the queue.
Rest(q) ==
  (IF saved # NoEvent /\ saved.q = q THEN <<saved>> ELSE << >>) \o content[q]

\* No event is handed on twice, or before an earlier one of its queue, or after
\* a later one: what is saved and what is left in a queue are, in this order,
\* the last that were pushed to it, and all come after those handed on.  The one
\* place for a saved event, the passes that start anew and the end of the loop
\* see to it, whatever a pop's answer is taken for.
EventsInTurn ==
  \A q \in Queues :
    /\ Len(Rest(q)) <= pushed[q] - handled[q]
    /\ \A i \in DOMAIN Rest(q) : Rest(q)[i].n = pushed[q] - Len(Rest(q)) + i

\* The saved event stays saved, over reminders, other pipes' events and calls of
\* dequeue, until it is handed on or the loop has ended: no event of the data
\* pipe takes its place.
SavedIsKept ==
  [][saved # NoEvent /\ saved' # saved =>
       saved' = NoEvent /\ (handled'[saved.q] = saved.n \/ Over')]_vars

\* When an event has come as far as to be handed on and reminders go before
\* events, no reminder is left that was due by then, of either clock, at the
\* head or behind it.
RemindersFirst ==
  at = "saved" /\ saved # NoEvent /\ before =>
    /\ \A i \in DOMAIN clock["local"] : clock["local"][i] > saved.time
    /\ saved.type = "tick" =>
         \A i \in DOMAIN clock["exchange"] : clock["exchange"][i] > saved.exchange

\* A data event is handed on only in a pass that began with nothing to read
\* from the execution and the service pipe.
PriorityKept == at = "saved" /\ saved # NoEvent => ~ahead

-----------------------------------------------------------------------------
\* cymo_queue.h:50, "if queue is empty, pop will return -1, 0 means successful":
\* an event that a pop has taken out of its queue reaches the loop.
PopsReachTheLoop ==
  ~Over => \A q \in Queues : Len(Rest(q)) = pushed[q] - handled[q]
=============================================================================
