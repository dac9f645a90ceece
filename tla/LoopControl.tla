---------------------------- MODULE LoopControl ----------------------------
(***************************************************************************)
(* The life of a cymo_t (cymo_loop.c): cymo_main in the loop's thread, one *)
(* owner that starts, stops and destroys it, and any threads that pause,   *)
(* step and resume it meanwhile.                                           *)
(*                                                                         *)
(* The threads share status, quit and stepping, none of them atomic, with  *)
(* no lock; each access is a step of its own here, and reads the value     *)
(* last stored.  What dequeue does with the pipes and clocks is one step   *)
(* that may never come: it searches until it finds an event, and looks at  *)
(* quit no more.  The events announced with cm_event_process go nowhere    *)
(* (the function is empty), and cymo_wakeup signals a condition that no    *)
(* thread waits on, so neither has a trace here.                           *)
(*                                                                         *)
(* cymo_init sets neither status nor quit nor stepping, and nothing sets   *)
(* them back when the owner starts a loop it has stopped once more.  A     *)
(* start makes a thread and puts it in loop->self, whatever became of the  *)
(* one that was there.                                                     *)
(***************************************************************************)
EXTENDS Naturals

CONSTANTS
  Users,     \* the threads that pause, step and resume
  MaxStarts  \* bound on the starts of one cymo_t

ASSUME MaxStartsAssumption == MaxStarts \in Nat

Statuses == {"init", "running", "paused", "stopping", "stopped"}
Threads == 1 .. MaxStarts  \* those that cymo_start makes, one after the other

VARIABLES
  status, quit, stepping,  \* the fields of cymo_t
  self,                    \* loop->self, 0 before the first start
  thread,                  \* where each thread is in cymo_main
  owner,                   \* where the owner is in the loop's life
  user,                    \* where each user is
  late,                    \* dequeues of each thread that ended since status
                           \* was last stored
  early                    \* has a stop come before its thread had begun

vars == <<status, quit, stepping, self, thread, owner, user, late, early>>

Init ==
  /\ status \in Statuses
  /\ quit \in {0, 1} /\ stepping \in {0, 1}
  /\ self = 0
  /\ thread = [k \in Threads |-> "none"]
  /\ owner = "init"
  /\ user = [u \in Users |-> "idle"]
  /\ late = [k \in Threads |-> 0]
  /\ early = FALSE

Store(s) == status' = s /\ late' = [k \in Threads |-> 0]

-----------------------------------------------------------------------------
(***************************************************************************)
(* cymo_main.                                                              *)
(***************************************************************************)
Goes(k, from, to) ==
  /\ thread[k] = from
  /\ thread' = [thread EXCEPT ![k] = to]
  /\ UNCHANGED <<quit, stepping, self, owner, user, early>>

\* Mutant: the new thread does not say that it runs.
BeginUnsaid(k) == Goes(k, "begin", "quit") /\ UNCHANGED <<status, late>>

Begin(k) == Goes(k, "begin", "quit") /\ Store("running")

\* Mutant: quit is looked at while the loop rests only.
TestQuitResting(k) ==
  /\ Goes(k, "quit", IF quit = 1 /\ status # "running" THEN "clear" ELSE "status")
  /\ UNCHANGED <<status, late>>

\* The condition of the while loop.
TestQuit(k) ==
  /\ Goes(k, "quit", IF quit = 1 THEN "clear" ELSE "status")
  /\ UNCHANGED <<status, late>>

\* The condition of the if reads status, status again and stepping, each when
\* the one before has left it open: rest, or dispatch an event.
TestRunning(k) ==
  /\ Goes(k, "status", IF status = "running" THEN "dequeue" ELSE "paused")
  /\ UNCHANGED <<status, late>>

\* Mutant: a paused loop goes on.
TestPausedRuns(k) ==
  /\ Goes(k, "paused", IF status = "paused" THEN "dequeue" ELSE "sleep")
  /\ UNCHANGED <<status, late>>

TestPaused(k) ==
  /\ Goes(k, "paused", IF status = "paused" THEN "stepping" ELSE "sleep")
  /\ UNCHANGED <<status, late>>

TestStepping(k) ==
  /\ Goes(k, "stepping", IF stepping = 1 THEN "dequeue" ELSE "sleep")
  /\ UNCHANGED <<status, late>>

\* cymo_sleep(1).
Sleep(k) == Goes(k, "sleep", "quit") /\ UNCHANGED <<status, late>>

\* dequeue found an event and cm_event_process took it.
Dequeue(k) ==
  /\ Goes(k, "dequeue", "quit")
  /\ late' = [late EXCEPT ![k] = IF @ < 2 THEN @ + 1 ELSE @]
  /\ UNCHANGED status

\* cymo_clear, at the end of cymo_main.
ClearAtEnd(k) == Goes(k, "clear", "end") /\ UNCHANGED <<status, late>>

End(k) == Goes(k, "end", "done") /\ Store("stopping")

Loop(k) ==
  \/ Begin(k) \/ TestQuit(k) \/ TestRunning(k) \/ TestPaused(k)
  \/ TestStepping(k) \/ Sleep(k) \/ Dequeue(k) \/ ClearAtEnd(k) \/ End(k)

-----------------------------------------------------------------------------
(***************************************************************************)
(* The owner: cymo_start, cymo_stop, cymo_destory.                         *)
(***************************************************************************)
\* cymo_start: the thread exists before quit is reset.
Start ==
  /\ owner \in {"init", "stopped"} /\ self < MaxStarts
  /\ self' = self + 1
  /\ thread' = [thread EXCEPT ![self + 1] = "begin"]
  /\ owner' = "starting"
  /\ UNCHANGED <<status, quit, stepping, user, late, early>>

OwnerGoes(from, to) ==
  /\ owner = from
  /\ owner' = to
  /\ UNCHANGED <<stepping, self, thread, user>>

ResetQuit ==
  /\ OwnerGoes("starting", "started")
  /\ quit' = 0
  /\ UNCHANGED <<status, late, early>>

\* cymo_stop: the test of status, the stores, the join, the last store and the
\* second cymo_clear.
StopTest ==
  /\ OwnerGoes("started", IF status = "stopped" THEN "joined" ELSE "quitting")
  /\ early' = (early \/ thread[self] = "begin")
  /\ UNCHANGED <<status, quit, late>>

StopQuit ==
  /\ OwnerGoes("quitting", "waking")
  /\ quit' = 1
  /\ UNCHANGED <<status, late, early>>

StopWake ==
  /\ OwnerGoes("waking", "joining")
  /\ Store("stopping")
  /\ UNCHANGED <<quit, early>>

StopJoin ==
  /\ OwnerGoes("joining", "joined")
  /\ thread[self] = "done"
  /\ UNCHANGED <<status, quit, late, early>>

StopStore ==
  /\ OwnerGoes("joined", "clearing")
  /\ Store("stopped")
  /\ UNCHANGED <<quit, early>>

StopClear ==
  /\ OwnerGoes("clearing", "stopped")
  /\ UNCHANGED <<status, quit, late, early>>

\* cymo_destory, once no user calls any more.
Destroy ==
  /\ \A u \in Users : user[u] = "idle"
  /\ OwnerGoes("stopped", "destroyed")
  /\ UNCHANGED <<status, quit, late, early>>

Owner ==
  \/ Start \/ ResetQuit
  \/ StopTest \/ StopQuit \/ StopWake \/ StopJoin \/ StopStore \/ StopClear
  \/ Destroy

-----------------------------------------------------------------------------
(***************************************************************************)
(* The users: cymo_pause and cymo_resume test status, then store it;       *)
(* cymo_step stores stepping, which nothing resets.                        *)
(***************************************************************************)
Goal == [pausing |-> "paused", resuming |-> "running"]

Call(u, op) ==
  /\ owner # "destroyed" /\ user[u] = "idle"
  /\ status # Goal[op]
  /\ user' = [user EXCEPT ![u] = op]
  /\ UNCHANGED <<status, quit, stepping, self, thread, owner, late, early>>

Change(u) ==
  /\ user[u] # "idle"
  /\ Store(Goal[user[u]])
  /\ user' = [user EXCEPT ![u] = "idle"]
  /\ UNCHANGED <<quit, stepping, self, thread, owner, early>>

\* Mutant: the steps are counted.
StepCounts(u) ==
  /\ owner # "destroyed" /\ user[u] = "idle"
  /\ stepping' = stepping + 1
  /\ UNCHANGED <<status, quit, self, thread, owner, user, late, early>>

Step(u) ==
  /\ owner # "destroyed" /\ user[u] = "idle"
  /\ stepping' = 1
  /\ UNCHANGED <<status, quit, self, thread, owner, user, late, early>>

User(u) ==
  (\E op \in DOMAIN Goal : Call(u, op)) \/ Change(u) \/ Step(u)

-----------------------------------------------------------------------------
Next ==
  (\E k \in Threads : Loop(k)) \/ Owner \/ (\E u \in Users : User(u))

Spec == Init /\ [][Next]_vars

(***************************************************************************)
(* The operating system runs all threads; the owner, inside cymo_stop,     *)
(* goes on.  Nothing is assumed of Dequeue, which waits for an event.      *)
(***************************************************************************)
Fairness ==
  /\ \A k \in Threads :
       WF_vars(Loop(k) /\ thread[k] # "dequeue")
  /\ WF_vars(StopQuit \/ StopWake \/ StopJoin \/ StopStore \/ StopClear)

LiveSpec == Spec /\ Fairness

-----------------------------------------------------------------------------
\* Every variable keeps its type.
TypeOK ==
  /\ status \in Statuses
  /\ quit \in {0, 1} /\ stepping \in {0, 1}
  /\ self \in 0 .. MaxStarts
  /\ thread \in [Threads -> {"none", "begin", "quit", "status", "paused",
                             "stepping", "sleep", "dequeue", "clear", "end",
                             "done"}]
  /\ \A k \in Threads : thread[k] = "none" <=> k > self
  /\ owner \in {"init", "starting", "started", "quitting", "waking",
                "joining", "joined", "clearing", "stopped", "destroyed"}
  /\ owner = "init" <=> self = 0
  /\ user \in [Users -> DOMAIN Goal \cup {"idle"}]
  /\ late \in [Threads -> 0 .. 2] /\ early \in BOOLEAN

\* The pipes, the clocks and saved_event have one user at a time, in every life
\* of a loop that is started again, as long as no stop comes so early that its
\* thread has not run yet: when the owner clears or destroys them every thread
\* made so far has ended, and a new thread has no old one beside it.
\* cymo_stop takes the STOPPED of an earlier life, or of the memory cymo_init was
\* given, for its own and joins nobody; once the thread has begun nobody brings
\* STOPPED back.
OneUserOfTheData ==
  ~early =>
    \A k \in 1 .. self :
      k < self \/ owner \in {"joined", "clearing", "stopped", "destroyed"} =>
        thread[k] = "done"

\* After cymo_pause has stored PAUSED at most the one event is dispatched that
\* the loop was fetching already, until status is stored again or cymo_step is
\* called.
PauseTakesHold ==
  status = "paused" /\ stepping = 0 => \A k \in Threads : late[k] <= 1

Stopping == owner \in {"quitting", "waking", "joining", "joined", "clearing"}

\* A cymo_stop returns, whatever the users store in status meanwhile, or the
\* loop's thread is inside dequeue for good: there is no third way to hang.
StopReturns ==
  Stopping ~> \/ ~Stopping
              \/ []\E k \in Threads : k = self /\ thread[k] = "dequeue"

=============================================================================
