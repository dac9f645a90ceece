# Verification of libcymo

libcymo is a C library for event-driven trading programs: producer threads push
events into queues, one loop thread merges them with timers and dispatches
them. This directory holds TLA+ modules of its parts, TLC configurations that
check them on small instances, and TLAPS proofs of what matters most for every
size. Paths such as `event_pipe.c:155` are below `src/src/`.

## The system

```
 producer threads          loop thread (cymo_main)                 owner, users
 cm_queue_push ──ring──▶ event_pipe (tree of queues) ─┐
                          reminder_queue (2 clocks) ──┼─▶ dequeue ─▶ cm_event_process
 cymo_add_queue ─pending ring─▶ event_pipe_add ───────┘
                          status, quit, stepping ◀──── start, stop, pause, step, resume
```

| Part (file) | State | Operations | Talks to |
|---|---|---|---|
| ring (`spsc_queue.c`) | slots, `read_pos`, `write_pos` | init, push, pop, peek, is_empty, is_full, size | one producer and one consumer thread, through two atomics |
| event (`cymo_event.c`) | atomic 16-bit `ref`, memory | new, ref, unref, free, is_single_ref | shared by every thread that holds a pointer |
| tree (`adt_tree.h`, `RB_` macros) | root, kids, parents, colours | insert, remove, find, min, next | used by the two below |
| reminders (`reminder_queue.c`) | tree by time and id, `timer_counter` | push, pop, peek, clear, remove, remove_by_id | the loop thread, callers of `cymo_add_reminder` |
| pipe (`event_pipe.c`) | tree of queues by head timestamp and id, `queue_counter` | add, remove, is_empty, read, clear | reads the heads of queues that producers push to |
| queue (`cymo_queue.c`) | a ring, its type and loop | as the ring; push wakes the loop | ring, event, loop |
| loop, lifecycle (`cymo_loop.c`) | `status`, `quit`, `stepping` | main, start, stop, pause, step, resume, destory | plain fields shared by all threads |
| loop, dispatch (`cymo_loop.c`) | four pipes, two clocks, `saved_event`, `pending` | dequeue, add_queue, add_reminder, set_datetime | everything above |
| datetime (`cymo_datetime.c`) | none | days and dates, decode, format, parse | used by the clocks |

What is hard, part by part, and what makes each correct:

- **Ring.** Two threads without a lock, positions seen late, wrap-around. No
  slot is accessed by both; answers stay true until acted on; a bounded FIFO.
- **Event.** Decrement and free are two steps. No use after free, no double
  free, no leak; a sole holder is alone.
- **Tree.** Many rebalancing cases, some reached only by long histories. Links,
  balance, contents, walk.
- **Reminders.** The comparison is no order: alike reminders are equal wherever
  they stand. Earliest first, first come first served.
- **Pipe.** The keys of tree nodes are changed by other threads, between two
  comparisons of one search too. The tree survives; answers hold.
- **Lifecycle.** Unlocked flags tested and set in several steps by several
  threads. A pause takes hold, a stop returns, nothing is cleared under the
  loop thread.
- **Queue.** Test, push and wake-up are three steps, and the closing event lets
  the consumer free the queue under the last of them. Counts match the pointers.
- **Dispatch.** Five sources and a saved event, looked at in an order that
  depends on the mode, over several calls. Nothing is repeated or overtaken,
  and what is saved stays.
- **Datetime.** Scaled integer arithmetic that has to be right on every day.

`PROJECT.json` lists the hazards line by line with the properties that cover
them.

## Modules

### SpscQueue, BoundedFifo, SpscQueueProofs

One action per shared access: `push` is `PushBegin` (acquire load of
`read_pos`), `PushRecord` (the slot), `PushPublish` (release store), and `pop`
mirrors it; a failed push or pop is `PushFull`, `PopEmpty`. A thread reads its
own position exactly; the other one's it reads as any value from the one it
saw last up to the current one (`Visible`), which is what coherence allows an
acquire load. `pknows` and `cknows` record the last answer a thread got and is
entitled to act on; `popped` is what the last pop returned.

`BoundedFifo` is the promise: a sequence of at most `Capacity - 1` items.
`ImplementsFifo` reads it off the ring: the contents are the slots between the
positions, an item enters when `write_pos` is stored and leaves when `read_pos`
is.

### CymoEvent, CymoEventProofs

One event, its counter modulo `RefModulus` (2^16 in the code), and as ghost
state who holds each pointer to it. A pointer passed on through a queue
(`HandOver`) changes hands without touching the counter. `Unref` is the
decrement, `Free` the free it decided on.

### RBLinks, RBTree, KeyedTree

`RBLinks` translates what the macros do to a record (root, kids, parents,
colours) between two tests of their loops: a rotation, the body of the loop of
`RB_INSERT_COLOR` (`InsertRound`) and of `RB_REMOVE_COLOR` (`RemoveRound`),
linking a node and unlinking one. Where a macro spells out left and right, a side
is an argument. `RBTree` runs the loops to their end, by recursion, and is what
`ReminderQueue` and `EventPipe` use. Searches take the answers of the comparison
as a function from nodes, so a comparison that is no order can be given.
`KeyedTree` drives it as a set of nodes with keys.

### TreeRounds, KeyedRounds, SortedNodes, RoundsMakeTrees and two of proofs

`TreeRounds` is the same macros as a program that runs: `call` holds the macro
under way and its local variables, and a step is one comparison of a search, one
node of a walk to the left, or one round of a recolouring loop. It is there to be
proved about: there is no recursion in it, and a loop's invariant is one of its
states. `Answers` gives what cmp may answer, and any answer will do: linkedness and
balance owe nothing to the comparison, so they hold of the pipe too, whose keys
change between two comparisons. What is well formed is said without recursion as
well: a node set is `Closed` if it has the kids of its nodes, and no node is cut
off when the only closed set with the root in it is all of them.

`KeyedRounds` gives cmp an order (`KeyOf`), as unchanging reminders have it that
are not alike, and `SortedNodes` is then the promise: a set of nodes and four calls of
one step each, read off the tree by `ImplementsSortedNodes`. A call takes effect when its
answer is settled: an insertion when the node is linked, a removal when it is
unlinked, before the loop that rebalances. `RoundsMakeTrees` runs `TreeRounds` beside the
macros of `RBTree`: a call of the one, when it returns, has made the tree of the
other. It counts the steps of a call, too: that every loop ends is said as a bound
(`CallsAreShort`), the height that a comment of `adt_tree.h` promises.

### TimerQueue, ReminderQueue

`ReminderQueue` is `reminder_queue.c` over the real tree; a node is named by
its `timer_id`. `Compare` is `timer_node_compare` with its order of tests:
same object or id, null, alike, then time, then id. `TimerQueue` is the
promise, a set of pending reminders of which the earliest fires. A push that is
refused for a reminder that is alike and not the same fails an assertion: the
default build type (RelWithDebInfo) leaves assertions out, others have them, so
both are modelled (`PushDuplicate`, `PushAborts`).

### QueueLines, MergedQueues, EventPipe

`QueueLines` says where in a line of queues a queue can be put, and
`MergedQueues` is the promise of a pipe in its terms, with no tree: the
registered queues in a line, of which the first is read. `EventPipe` is
`event_pipe.c` over the same tree. A search is one comparison per step
(`SearchOn`), and producers push (`Push`) between any two; a queue is a
sequence of timestamps, which `SpscQueue` justifies. `pipe_find` leaves the id
of the sought node unset: `RemoveBegin` takes any. `Read` is enabled after an
`IsEmpty` that answered 0, the only way the loop calls it. `ImplementsLine`
reads the line off the tree, from left to right (`LineBelow`). As written no read
gets as far as putting its queue back; where it would go is `Insertions`, as for
a queue that is added, and a push during that search counts as one before it.

### CymoQueue, CymoQueueProofs

One `cm_queue_t`, its producer and its consumer. The ring is a sequence;
`unseen` keeps what a sequence hides, the pops the producer has not seen, so that
its test and its push may find the queue longer than it is (`Views`).
`cm_queue_push` is `PushTest`, `PushRing` or `PushFull`, and `PushWake`;
`cm_queue_clear` is a pop and an unref at a time. The consumer frees the queue
after a closing event (`Close`, as `event_pipe_read` does) or once the producer
has stopped. `mine` and `theirs` are ghost state: who holds how many pointers.
`event_pipe_read` returns the closing event after its `event_unref`, so from
`Close` on the consumer has a pointer nobody answers for (`dropped`), until it
forgets it.

### CymoLoop, CymoLoopProofs

`dequeue` over four lines of queues (`QueueLines`), two clocks that are lists of
times (sorted as long as `ReminderQueue` is their model), the pending ring and the
saved event. `Enter`, `Drain...` are the loop over `pending`; then a pass goes
through `Order`, which is that of `realtime_dequeue` or `simulator_dequeue`, a step
for each source; the two clocks, which no other thread touches, are one. Producers
push between any two steps. `Return` hands something to `cm_event_process`, an
empty function, and `NewPass` is another turn of `while (true)`.

`cymo_loop.c` and `event_pipe_read` take a nonzero answer of a pop for an item,
while the pops answer 0, and `cymo_add_reminder` takes the timer id of a push for an
error. Every one of these tests is modelled as it stands (`Popping`, `ReadsEmpty`,
`AddReminder`); what the callees answer is `setting.asCalled`. FALSE is the
repository as it is built, and it is checked and proved about like the other: the
first call of `dequeue` uses an unset pointer, every event a pipe pops is dropped,
and a reminder's node outlives the reminder. Nothing is ever saved then, so that of
the text of `dequeue` half is never reached. TRUE gives the callees the answers
that the text is written for, and no build has them: `SavedIsKept`,
`RemindersFirst` and `PriorityKept` hold of both and have their substance there, as
has the order of what is handed on in `EventsInTurn`. What gets lost as built is
`dispatch_as_written`. No property says that an event is handed on in the end: as
built none is.

An unset local (`slot`), a field of freed memory (`ReadAnswers`, and the times of
freed reminders) and a null read (`Crash`) are choices. A freed reminder's time is
chosen once, when it is freed; that it may change later is not modelled.

### LoopControl, LoopControlProofs

`cymo_main`, an owner that starts, stops and destroys, and `Users` that pause,
step and resume. Every access to `status`, `quit` or `stepping` is a step;
`cymo_pause` and `cymo_resume` test (`Call`) and store (`Change`). `dequeue`
with `cm_event_process` is one step, `Dequeue`, that may never come. `late`
counts dequeues since `status` was last stored. The condition of the `if` in
`cymo_main` is three steps, one for each read. `cymo_init` sets none of the
three fields: `Init` allows any values of them. The owner may start a loop again
that it has stopped, with the `quit` and the STOPPED of its last life, and each
start makes a thread; `self` is `loop->self`, the one `cymo_stop` joins. `early`
remembers whether a stop has come before its thread had begun: `cymo_stop` may then
find STOPPED, skip the join and clear the data the thread is about to use.
`OneUserOfTheData` is about all other stops.
The fields are plain C: a build could in principle keep them in registers; the
model takes loads and stores as they stand, which the opaque calls between
them force (`quit` is volatile).

### DateTime, DateTimeProofs

A walk through the Gregorian calendar by its own rules (`NextDay`), with the
code's conversions evaluated at every day of the years walked, and through two days second by
second (`Tick`). A datetime is (day, second, microsecond), what the code's
divisions give; a text is the record of the numbers its digits stand for, each
computed with the code's remainders. A walk starts in the first year of a cycle of
400 (`FirstYearsAssumption`) and ends by 9999-12-31, `MAX_DATE_TIME`; zones are
those of the comment at `cymo_datetime.c:268` (`LimitsAssumption`). The buffer a
text is written to is taken to be long enough: the length check is left out
(`cymo_datetime.c:280`), which counts one character for the zone where an offset
takes six. `TextReadsBack` says what comes back of a datetime: at offset zero the
datetime, at another one the datetime that many minutes earlier (the fields are not
moved by the offset, it is only written behind them), and nothing of the
microseconds.

## Runs

| Run | Instance | Shows |
|---|---|---|
| `spsc` | 3 slots, 2 items, 9 412 states | `NoSlotRace`, `AnswersStayTrue`, `AnswersCanBeActedOn`, `ImplementsFifo`, `EveryItemLeaves` |
| `event` | 3 threads, 4 pointers, 271 states | `HeldIsLive`, `FreedOnce`, `SingleIsExclusive`, `NoLeak` |
| `tree` | 10 keys and a node alike with one of them, 162 450 states | `WellLinked`, `WellBalanced`, `InKeyOrder`, `CallsAreShort`, `ImplementsSortedNodes`, `SameTrees` |
| `reminders` | 5 reminders (2 alike), 2 times, 6 ids, 177 971 states | `TreeInOrder`, `ImplementsTimerQueue` |
| `pipe` | 3 queues of up to 1 event, 2 times, 4 ids, 2.4 million states | `TreeStaysWhole`, `AnswersAreTrue`, `RefusedForItself`, `ImplementsLine` |
| `queue` | 3 events, one of them closing, ring of 2, 2 references, 33 266 states | `RefsAreHolders`, `WakesForTheFirst`, `FreedIsQuiet` |
| `dispatch` | a data queue of 2 events, one of any type of 1, 2 reminders, both modes, both answers, 3.8 million states | `EventsInTurn`, `SavedIsKept`, `RemindersFirst`, `PriorityKept` |
| `loop` | owner, 2 starts, 2 users, 85 396 states | `OneUserOfTheData`, `PauseTakesHold`, `StopReturns` |
| `datetime` | every day of the years 1 to 2400 and 8001 to 9999, 2 days by the second, 1.8 million states | `CalendarAgrees`, `FieldsReadBack`, `TextReadsBack` |
| `dispatch_as_written` | as `dispatch`, with the answers as built | refutes `PopsReachTheLoop` |
| `pipe_twice` | as `pipe` | refutes `NeverAddedTwice` |
| `reminders_not_found` | as `reminders` | refutes `NotFoundIsNotPending` |

**Bounds and why they do.** Three slots are the smallest ring in which full,
empty and neither differ and positions wrap with an item in between; the proofs
remove the bound. Four pointers among three threads let two threads drop while
a third takes. Ten keys are the fewest with which the
loop of `RB_REMOVE_COLOR` goes round twice (that of `RB_INSERT_COLOR` does with eight),
and every case of both, on either side, is met. In `tree` six of them, and
a seventh node alike with the third, so that an insertion is refused for another's
sake, come and go in any order; on top of the trees of six that lean to the right the tree then
grows upwards to ten and one of them is taken out (`MayBegin`). The invariants look at
every set of nodes, which costs too much for all trees of ten. Loops that go round more
often, and comparisons that answer anything, are the proofs' part. Five reminders put an alike one on,
beside and off a search path. Three queues make a search pass a node and meet
the next with a key changed meanwhile; four ids let one be added twice. In `queue` a ring of two is empty, full and neither, three events leave one
outside a full ring, and a second reference outlives the queue. In `dispatch` two
data events let the second be read while the first is saved or over; the second
queue is put into each pipe that is read, so each pair of sources meets; one
event of each kind dequeue tells apart (`MCEvents`); two reminders are of either
clock, due at the very time or after, so that one can be wrong behind the other.
The pending ring takes one queue and can be full. `MCSettings` has every
combination of the fields but those in which `clear_reminders` is not looked at.
`MaxNodes` allows for one queue that is in its pipe twice. In `loop` two
users can pause and resume against each other and against a stop, and the second
of two lives starts with what the first has left. In `datetime` the offsets cross
midnight both ways, and the microseconds are none and the most there are. `MaxId`
bounds the counters that name nodes, `MaxLength` the queues, `late` is capped
at 2 because the property separates 0, 1 and more.

**Symmetry.** `pipe` uses it, on the queues, which nothing compares; the run
checks no liveness.

**Fairness.** `dispatch` has none: nothing is said there of what must happen.
`spsc`: a thread inside push or pop goes on, and the consumer
polls for ever, as the loop does; a stored position becomes visible in the end
(strong fairness on the pop that loads the latest). `event`: a thread inside
`event_unref` goes on. `loop`: the system schedules each of the loop's threads
and the owner inside `cymo_stop` goes on; nothing is assumed of `Dequeue`, so `StopReturns`
says that a stop returns or the loop thread sits in `dequeue` for ever. It does
when no event comes: `dequeue` never looks at `quit`.

**Deadlock** is checked but in `reminders` (a null read ends the program),
`loop` (after the destruction nothing is left to do), `queue` (the same, once it
is freed and no reference is left), `dispatch` (the loop ends or crashes) and
`datetime` (the range ends).

## What the runs refute

- `event_pipe_read` takes 0, the success of `cm_queue_pop`, for "empty": it
  drops the event it popped and `dequeue` gets NULL (`event_pipe.c:155`).
- A push moves the key of a node that stays where it is, so a search for a
  registered queue can miss it; the queue is added a second time
  (`event_pipe.c:114`).
- `reminder_queue_remove` seeks with id 0, said to be unused, which breaks ties:
  it passes by a pending reminder that stands above an equally early one and
  answers "not found" (`reminder_queue.c:187`).

Seen while modelling, without a run of its own: fractions of a second are
microseconds and are written as nanoseconds, so that 0.5 s becomes `.000500` and is
read back as 500 microseconds (`cymo_datetime.c:333`); `cymo_main` stores RUNNING over a STOPPING or PAUSED stored since `cymo_start`
returned (`cymo_loop.c:256`); `cymo_start` ignores the mode it is given
(`cymo_loop.c:303`); a due local reminder breaks out of `dequeue` and is not
popped, so that it blocks what comes after it for good (`cymo_loop.c:103`);
`simulator_dequeue` reads through a saved event that may be NULL, and so does
`realtime_dequeue` through the reminder it has just cleared (`cymo_loop.c:166`,
`:101`); a queue handed over while `dequeue` finds no event is not looked at until
one comes (`cymo_loop.c:216`); queues behind an empty first queue of a pipe wait
with it (`event_pipe.c:143`); a queue of type service goes into a pipe nobody
reads, one of type historical into the service pipe (`cymo_loop.c:54`); a closing
event is used after its last reference may have been dropped, and one that is
saved is freed again by `cymo_clear` (`event_pipe.c:162`); `cymo_get_datetime` asks the system clock in
simulator mode and the settable one in realtime mode, where it cannot be set
(`cymo_loop.c:432`); `cm_queue_push` looks at `q->loop` when the queue may have
been freed for the closing event it pushed (`cymo_queue.c:62`);
`reminder_queue_push` answers the
timer id where its comment says 0, and `cymo_add_reminder` then frees the
reminder it just made pending (`reminder_queue.c:142`, `cymo_loop.c:370`); a
push can be refused for a reminder that is only alike, against the assertion of
`reminder_queue.c:136`, and a pending one be inserted again; `remove_by_id` reads through NULL when it meets another node
first (`RemoveByIdCrash`); `event_pipe_remove` may take out the wrong queue
when the unset id happens to fit; `tm_wday` is 0 on Mondays where its comment
says Sundays (`cymo_datetime.c:258`); a text with a zone offset is not shifted
by it; the loop over `pending` runs while the pop fails
(`cymo_loop.c:216`); `cymo_timed_pause` has no effect, since nothing calls the
callback of a reminder; events other than ticks are allocated with size 0
(`cymo_event.c:54`).

## Proofs

TLAPS checks these for every value of the constants that satisfies the stated
assumptions.

- **SpscQueueProofs** (`Capacity >= 2`, the assertion in `spsc_queue_init`).
  `TypeCorrect`; `Invariance` of `IInv`, which adds to the properties where
  each thread's stale view can be: `read_seen` is behind `read_pos` and no
  further back than the room the producer counted on, and `write_seen`
  likewise. Without it a stale load could let a push into the consumer's slot.
  From it follow `SlotsNeverRace`, `AnswersNeverLapse`, `AnswersAreHonoured` and
  the step-by-step `Refinement` of `BoundedFifo`. The arithmetic modulo the
  capacity is stated once as lemmas on `SizeOf`, `Successor` and `Slot`.
- **CymoEventProofs** (finitely many pointers, fewer than `RefModulus`). `IInv`
  says that the counter is the number of pointers held, by cardinality; from it
  `HeldStaysLive`, `FreedAtMostOnce`, `SingleMeansExclusive`. The bound on the
  pointers is needed: at 2^16 the counter wraps and a held event is freed.
- **LoopControlProofs** (any number of starts, any first values of the fields).
  `IInv` says that status is not STOPPED between the beginning of a life's thread
  and its join (`BegunIsNotStopped`: the thread stores RUNNING first, and nobody but
  the owner stores STOPPED, after the join), so that a stop which is not `early`
  cannot skip the join, and counts the dequeue under way; from it
  `DataHaveOneUser` and `PausesTakeHold`, for any number of users.
- **CymoQueueProofs** (a ring of at least two slots). `IInv` adds to the counts
  that a push under way is of an event the producer still holds, that the
  consumer holds what it is about to drop, and that once a closing event is in
  the ring the producer begins nothing: without these a count could go below
  the pointers it stands for, or a push reach a freed queue. From it `RefsCountHolders`,
  `WakesAreForTheFirst`, `FreedStaysQuiet`. Occurrences in the ring are counted by
  cardinality (`PlacesOfAppend`, `PlacesOfTail`).
- **CymoLoopProofs** (any queues, events, reminders, settings and bounds). `IInv`
  numbers what is pushed (`AllNumbered`): what is left in a queue has the last
  numbers, the saved event the one before, and what was handed on is before both;
  the saved event is of a data queue (`SavedIsData`), so that the two other pipes
  cannot read past it; a pipe that had an event when the pass began has one until
  it is looked at (`AheadStays`); the clocks are in order unless their reminders
  are freed (`ClocksInOrder`) and past ones were not due (`PastClocks`). From it
  `EventsComeInTurn`, `SavedStaysKept`, `RemindersGoFirst`, `PrioritiesAreKept`.
  What a line holds after a queue is put in is stated once, as lemmas on
  `Insertions` and `Additions`.
- **DateTimeProofs** (any cycles of years, any last day up to 9999-12-31). `DInv`
  says that day number, date and day of the year count on together, by
  `YdToRdn` and `DaysPreceding`. A year is split into cycles, centuries, groups
  of four and the rest (`YearSplit`), which makes the divisions of `rdn_to_ymd`
  linear; `FindsTheYear` and `FindsTheMonth` say that each finds its part. From
  it `EveryDate`, `EveryField`, `EveryText`: the three properties on all of the
  3 652 059 days, the years 2401 to 8000 that TLC does not walk included, and on
  every second of each.

- **TreeRoundsProofs** (any finite set of nodes, any answers of cmp). The
  induction over a tree is the closed sets: to show something of every node below
  n, show that the nodes that have it are closed. From it come the shape lemmas: the
  ways down from two kids do not meet (`Below`), no node is below itself, and what a
  rotation, a link, a splice and a take-over make of the links and of the sets of
  nodes below. Balance is counted by a witness: `Levels` says that a
  height can be given to every node so that each is the height of either kid plus
  its own blackness, with at most one place (`Short`) where one black node is missing.
  `IInv` has a clause per stage: the tree is `Even` outside the recolouring loops;
  in that of the insertion (`InsertOk`) it is even with one red node that may have
  a red parent; in that of the removal (`RemoveOk`) it is short below one
  place; and a search, a walk or an unlinked successor is where the links say it is
  (`Located`). Without the heights
  `RemoveRound` could not be shown to have a sibling to rotate about.
  `EvenBalanced` turns the heights back into `EvenBlack`, which counts the black
  nodes on each way by cardinality. From it `TypesHold`,
  `TreesStayLinked`, `TreesStayBalanced`.
- **KeyedRoundsProofs** (the same, with a cmp that orders the nodes by integers,
  several of which may be alike). `KInv` adds to `IInv` that the tree is a search tree
  (`Ordered`) and what the running loop has ruled out (`Sought`): a node like the
  one a search is after is still ahead of it and the place it is at suits the key,
  and a walk to the left has only left greater keys behind. `RotateKeeps`,
  `LinkKeeps`, `UnlinkKeeps` say that each change of links keeps the order, at any
  depth, and which nodes it keeps. From it `KeysStayInOrder` and, a lemma per action,
  `RoundsImplementSortedNodes`.

Each inductive invariant was checked by TLC on the instance of its run before it
was proved; those of the tree on five nodes with heights of at most 3 (`IInv`) and on six
keys (`KInv`). The counters and program counters of each component have their
types by `TypeCorrect`.

Only model-checked: liveness (`EveryItemLeaves`, `NoLeak`, `StopReturns`), the
lengths of the calls on a tree (`CallsAreShort`, whose
logarithm needs an induction over heights), and what is said of `RBTree` itself, whose
macros run to their end by RECURSIVE operators the prover cannot take: `KeyedTree`,
`ReminderQueue` and `EventPipe`, which use it. The rounds it is made of are the
operators of `RBLinks` that the proofs are about, and that the two amount to the
same trees is `SameTrees`, which TLC checks. `RB_NEXT` and the loops over a whole tree are in
`RBTree` only, and what they meet is part of `TreeInOrder`.

## Not modelled

The system clock and time zone calls of `cymo_datetime.c`, and the setters and
getters of single fields (`cymo_set_datetime` and its siblings: nothing in
`dequeue` reads what they store in the mode in which they store it). Several
threads that call `cymo_add_queue`, or any other than the loop's that calls
`cymo_add_reminder`: the ring and the tree are not made for it. A queue that is
closed while a second node of its pipe, or the pending ring, still points to it.
Left out for good:
`adt_queue.h`, `adt_heap.h` and the splay tree (vendored, unused), the version
functions, the build and documentation files, and `cm_event_process`, an empty
function.

## Plan

Done: 1. `BoundedFifo`, `SpscQueue` and proofs. 2. `CymoEvent` and proofs.
3. `RBTree`, `KeyedTree`, `TimerQueue`, `ReminderQueue`. 4. `EventPipe`,
`MergedQueues`. 5. `LoopControl` and proofs. 6. `DateTime`. 7. `CymoQueue`.
8. `CymoLoop`.

9. Proofs of `CymoQueue`, `CymoLoop` and `DateTime`. 10. `TreeRounds`,
`KeyedRounds` and proofs.

Next: `ReminderQueue` over `SortedNodes` in place of the tree, so that its order of
firing can be proved for any number of reminders; its comparison is no order when
alike reminders are about, which the promise would have to admit.
