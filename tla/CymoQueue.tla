----------------------------- MODULE CymoQueue -----------------------------
(***************************************************************************)
(* cymo_queue.c: one cm_queue_t, the events that pass through it and their *)
(* reference counts, one producer thread and the consumer.                 *)
(*                                                                         *)
(* The ring is a sequence here, which SpscQueue shows it to be.  What a    *)
(* sequence hides is kept in "unseen": the pops the producer has not seen  *)
(* yet, so that its emptiness test and its push may find the queue longer  *)
(* than it is.  A push is three steps, the emptiness test, the push onto   *)
(* the ring and the look at q->loop, and the consumer runs between them.   *)
(* event_unref with the free it decides on is one step, see CymoEvent.     *)
(*                                                                         *)
(* The consumer frees the queue when it has taken the producer's closing   *)
(* event, as event_pipe_read does for QUEUECLOSED, or when the producer    *)
(* has stopped, as any owner may.  Who holds how many pointers to an event *)
(* is ghost state, and so is which of them the count no longer stands for: *)
(* event_pipe_read hands the closing event on after it has dropped the     *)
(* reference.                                                              *)
(***************************************************************************)
EXTENDS Integers, Sequences, FiniteSets

CONSTANTS
  Events,   \* the memory events are allocated in
  Closing,  \* those that are of type QUEUECLOSED
  NoEvent,
  Size,     \* the size given to cm_queue_new: the ring holds one less
  MaxRef    \* bound on the references to one event

ASSUME ClosingAssumption == Closing \subseteq Events /\ NoEvent \notin Events
ASSUME SizeAssumption == Size \in Nat /\ Size >= 2  \* assert(size >= 2)
ASSUME MaxRefAssumption == MaxRef \in Nat

VARIABLES
  life,        \* of the cm_queue_t: "none", "live", "freed"
  queue,       \* the events in the ring, oldest first
  unseen,      \* pops since the producer last loaded read_pos
  ref,         \* e->ref, 0 when e is not allocated
  mine,        \* how many pointers to each event the producer holds
  theirs,      \* how many the consumer holds
  dropped,     \* how many of those it holds after event_unref
  ppc, pitem,  \* where the producer is in cm_queue_push, and its argument
  was_empty,   \* what the emptiness test answered
  cpc, citem,  \* what the consumer is doing, and the event it has popped
  producing    \* "yes", "closed" after its closing event, "stopped"

queueVars == <<life, queue, unseen>>
producerVars == <<ppc, pitem, was_empty, producing>>
consumerVars == <<dropped, cpc, citem>>
vars == <<queueVars, ref, mine, theirs, producerVars, consumerVars>>

Plus(f, e) == [f EXCEPT ![e] = @ + 1]
Minus(f, e) == [f EXCEPT ![e] = @ - 1]

\* The lengths the producer may compute from a load of read_pos, each with the
\* pops it then has still not seen.
Views == {[length |-> Len(queue) + k, unseen |-> k] : k \in 0 .. unseen}

Init ==
  /\ life = "none" /\ queue = << >> /\ unseen = 0
  /\ ref = [e \in Events |-> 0]
  /\ mine = [e \in Events |-> 0] /\ theirs = [e \in Events |-> 0]
  /\ dropped = [e \in Events |-> 0]
  /\ ppc = "idle" /\ pitem = NoEvent /\ was_empty = FALSE /\ producing = "yes"
  /\ cpc = "idle" /\ citem = NoEvent

\* cm_queue_new and cm_queue_init.
QueueNew ==
  /\ life = "none"
  /\ life' = "live"
  /\ UNCHANGED <<queue, unseen, ref, mine, theirs, producerVars,
                 consumerVars>>

\* cm_queue_new when either of its two mallocs fails: the other one is undone.
QueueNewNoMemory == life = "none" /\ UNCHANGED vars

-----------------------------------------------------------------------------
(***************************************************************************)
(* The producer.                                                           *)
(***************************************************************************)
EventNew(e) ==
  /\ ppc = "idle" /\ producing = "yes" /\ ref[e] = 0
  /\ ref' = Plus(ref, e) /\ mine' = Plus(mine, e)
  /\ UNCHANGED <<queueVars, theirs, producerVars, consumerVars>>

EventRef(e) ==
  /\ ppc = "idle" /\ mine[e] > 0 /\ ref[e] < MaxRef
  /\ ref' = Plus(ref, e) /\ mine' = Plus(mine, e)
  /\ UNCHANGED <<queueVars, theirs, producerVars, consumerVars>>

EventUnref(e) ==
  /\ ppc = "idle" /\ mine[e] > 0
  /\ ref' = Minus(ref, e) /\ mine' = Minus(mine, e)
  /\ UNCHANGED <<queueVars, theirs, producerVars, consumerVars>>

\* Mutant: a queue of one event is taken for empty.
PushTestOffByOne(e) ==
  /\ ppc = "idle" /\ producing = "yes" /\ life = "live" /\ mine[e] > 0
  /\ \E v \in Views : was_empty' = (v.length <= 1) /\ unseen' = v.unseen
  /\ ppc' = "push" /\ pitem' = e
  /\ UNCHANGED <<life, queue, ref, mine, theirs, producing, consumerVars>>

\* cm_queue_push: spsc_queue_is_empty.
PushTest(e) ==
  /\ ppc = "idle" /\ producing = "yes" /\ life = "live" /\ mine[e] > 0
  /\ \E v \in Views : was_empty' = (v.length = 0) /\ unseen' = v.unseen
  /\ ppc' = "push" /\ pitem' = e
  /\ UNCHANGED <<life, queue, ref, mine, theirs, producing,
                 consumerVars>>

\* Mutant: the look at q->loop comes before the other tests.
PushRingLooksAlways ==
  /\ ppc = "push"
  /\ \E v \in Views : v.length < Size - 1 /\ unseen' = v.unseen
  /\ queue' = Append(queue, pitem)
  /\ mine' = Minus(mine, pitem)
  /\ producing' = IF pitem \in Closing THEN "closed" ELSE producing
  /\ ppc' = "wake"
  /\ UNCHANGED <<life, ref, theirs, pitem, was_empty, consumerVars>>

\* Mutant: the place that must stay free is filled too.
PushRingOneMore ==
  /\ ppc = "push"
  /\ \E v \in Views : v.length < Size /\ unseen' = v.unseen
  /\ queue' = Append(queue, pitem)
  /\ mine' = Minus(mine, pitem)
  /\ producing' = IF pitem \in Closing THEN "closed" ELSE producing
  /\ ppc' = IF was_empty THEN "wake" ELSE "idle"
  /\ UNCHANGED <<life, ref, theirs, pitem, was_empty, consumerVars>>

\* spsc_queue_push.  q->loop is looked at when is_empty and not err.
PushRing ==
  /\ ppc = "push"
  /\ \E v \in Views : v.length < Size - 1 /\ unseen' = v.unseen
  /\ queue' = Append(queue, pitem)
  /\ mine' = Minus(mine, pitem)
  /\ producing' = IF pitem \in Closing THEN "closed" ELSE producing
  /\ ppc' = IF was_empty THEN "wake" ELSE "idle"
  /\ UNCHANGED <<life, ref, theirs, pitem, was_empty, consumerVars>>

\* spsc_queue_push finds the ring full: the caller keeps its event.
PushFull ==
  /\ ppc = "push"
  /\ \E v \in Views : v.length = Size - 1 /\ unseen' = v.unseen
  /\ ppc' = "idle"
  /\ UNCHANGED <<life, queue, ref, mine, theirs, pitem, was_empty,
                 producing, consumerVars>>

\* q->loop is read, and cymo_wakeup signals a condition nobody waits on.
PushWake ==
  /\ ppc = "wake"
  /\ ppc' = "idle"
  /\ UNCHANGED <<queueVars, ref, mine, theirs, pitem, was_empty, producing,
                 consumerVars>>

\* The producer is gone; the pointers it still holds are somebody else's to
\* drop.
Stop ==
  /\ ppc = "idle" /\ producing # "stopped"
  /\ producing' = "stopped"
  /\ UNCHANGED <<queueVars, ref, mine, theirs, ppc, pitem, was_empty,
                 consumerVars>>

Producer ==
  \/ \E e \in Events :
       EventNew(e) \/ EventRef(e) \/ EventUnref(e) \/ PushTest(e)
  \/ PushRing \/ PushFull \/ PushWake \/ Stop

-----------------------------------------------------------------------------
(***************************************************************************)
(* The consumer.                                                           *)
(***************************************************************************)
\* spsc_queue_pop, in the hands of the consumer.
Taken ==
  /\ queue # << >>
  /\ citem' = Head(queue)
  /\ queue' = Tail(queue)
  /\ unseen' = unseen + 1
  /\ theirs' = Plus(theirs, Head(queue))

\* cm_queue_pop; a closing event is the start of the queue's end.
Pop ==
  /\ cpc = "idle" /\ life = "live"
  /\ Taken
  /\ cpc' = IF Head(queue) \in Closing THEN "closing" ELSE "idle"
  /\ UNCHANGED <<life, ref, mine, dropped, producerVars>>

\* The consumer is done with an event and drops its reference.
Done(e) ==
  /\ cpc = "idle" /\ theirs[e] > dropped[e]
  /\ ref' = Minus(ref, e) /\ theirs' = Minus(theirs, e)
  /\ UNCHANGED <<queueVars, mine, producerVars, consumerVars>>

\* event_pipe_read: event_unref of the closing event, then cm_queue_free.  The
\* pointer is kept, to be returned.
Close ==
  /\ cpc = "closing"
  /\ ref' = Minus(ref, citem) /\ dropped' = Plus(dropped, citem)
  /\ cpc' = "clear"
  /\ UNCHANGED <<queueVars, mine, theirs, producerVars, citem>>

\* The consumer has processed the closing event it was handed.
Forget(e) ==
  /\ cpc = "idle" /\ dropped[e] > 0
  /\ theirs' = Minus(theirs, e) /\ dropped' = Minus(dropped, e)
  /\ UNCHANGED <<queueVars, ref, mine, producerVars, cpc, citem>>

\* cm_queue_free by the owner, once the producer has stopped.
Free ==
  /\ cpc = "idle" /\ life = "live" /\ producing = "stopped"
  /\ cpc' = "clear"
  /\ UNCHANGED <<queueVars, ref, mine, theirs, dropped, producerVars, citem>>

\* cm_queue_clear on its own.
Clear ==
  /\ cpc = "idle" /\ life = "live"
  /\ cpc' = "clearing"
  /\ UNCHANGED <<queueVars, ref, mine, theirs, dropped, producerVars, citem>>

ClearPop ==
  /\ cpc \in {"clear", "clearing"}
  /\ Taken
  /\ cpc' = IF cpc = "clear" THEN "clear_unref" ELSE "clearing_unref"
  /\ UNCHANGED <<life, ref, mine, dropped, producerVars>>

\* Mutant: the events that are left are dropped without an unref.
ClearUnrefNot ==
  /\ cpc \in {"clear_unref", "clearing_unref"}
  /\ theirs' = Minus(theirs, citem)
  /\ cpc' = IF cpc = "clear_unref" THEN "clear" ELSE "clearing"
  /\ UNCHANGED <<queueVars, ref, mine, dropped, producerVars, citem>>

ClearUnref ==
  /\ cpc \in {"clear_unref", "clearing_unref"}
  /\ ref' = Minus(ref, citem) /\ theirs' = Minus(theirs, citem)
  /\ cpc' = IF cpc = "clear_unref" THEN "clear" ELSE "clearing"
  /\ UNCHANGED <<queueVars, mine, dropped, producerVars, citem>>

\* The pop in cm_queue_clear fails; after cm_queue_free the memory goes too.
ClearEnd ==
  /\ cpc \in {"clear", "clearing"} /\ queue = << >>
  /\ life' = IF cpc = "clear" THEN "freed" ELSE life
  /\ cpc' = "idle"
  /\ UNCHANGED <<queue, unseen, ref, mine, theirs, dropped, producerVars,
                 citem>>

Consumer ==
  \/ Pop \/ Close \/ Free \/ Clear \/ ClearPop \/ ClearUnref \/ ClearEnd
  \/ \E e \in Events : Done(e) \/ Forget(e)

Next == QueueNew \/ QueueNewNoMemory \/ Producer \/ Consumer

Spec == Init /\ [][Next]_vars

-----------------------------------------------------------------------------
\* How many slots of the ring point to e.
Queued(e) == Cardinality({i \in DOMAIN queue : queue[i] = e})

\* Every variable keeps its type, and the ring is never overfull, not even as
\* the producer sees it.
TypeOK ==
  /\ life \in {"none", "live", "freed"}
  /\ queue \in Seq(Events) /\ unseen \in Nat
  /\ Len(queue) + unseen <= Size - 1
  /\ ref \in [Events -> Nat]
  /\ mine \in [Events -> Nat] /\ theirs \in [Events -> Nat]
  /\ dropped \in [Events -> Nat]
  /\ ppc \in {"idle", "push", "wake"} /\ pitem \in Events \cup {NoEvent}
  /\ was_empty \in BOOLEAN /\ producing \in {"yes", "closed", "stopped"}
  /\ cpc \in {"idle", "closing", "clear", "clear_unref", "clearing",
              "clearing_unref"}
  /\ citem \in Events \cup {NoEvent}

\* A push moves the caller's reference into the ring, a pop or the clearing of
\* the ring takes it out, a refused push leaves it where it was: at any time
\* the count of an event is the number of pointers to it that somebody still
\* answers for, whether it was popped or was still in the queue when that was
\* cleared or freed.  The one pointer nobody answers for is the closing event
\* that event_pipe_read returns after its event_unref: the loop may be left
\* with it when the count is 0 and the event is freed.
RefsAreHolders ==
  \A e \in Events :
    /\ ref[e] = mine[e] + (theirs[e] - dropped[e]) + Queued(e)
    /\ dropped[e] <= IF e \in Closing THEN theirs[e] ELSE 0

\* A wake-up is for the first event of an empty queue: between a test that
\* answered "empty" and the push the queue stays empty, and cannot be found
\* full.
WakesForTheFirst == ppc = "push" /\ was_empty => queue = << >> /\ unseen = 0

\* Nothing is left in a queue that is freed, and the one access that can still
\* come is the look at q->loop after a closing event that found the queue
\* empty: the consumer may have taken it by then and freed the queue.
FreedIsQuiet ==
  life = "freed" =>
    /\ queue = << >>
    /\ ppc # "idle" => ppc = "wake" /\ was_empty /\ pitem \in Closing
=============================================================================
