-------------------------- MODULE LoopControlProofs --------------------------
(***************************************************************************)
(* What LoopControl.tla promises, for any number of starts and of threads  *)
(* that pause, step and resume.                                            *)
(*                                                                         *)
(* OneUserOfTheData rests on status not being STOPPED once the thread of   *)
(* the latest start has begun, so that cymo_stop does join it: the owner   *)
(* alone stores STOPPED, and only after the join.  PauseTakesHold rests on *)
(* counting the dequeue that is under way.                                 *)
(***************************************************************************)
EXTENDS LoopControl, TLAPS

AfterTheJoin == {"joined", "clearing", "stopped", "destroyed"}

\* Once the thread has begun, cymo_stop finds that there is one to join.
BegunIsNotStopped ==
  ~early /\ owner \in {"starting", "started"} =>
    \A k \in Threads : k = self /\ thread[k] # "begin" => status # "stopped"

\* A dequeue under way counts as late before it ends.
PausedInv ==
  status = "paused" /\ stepping = 0 =>
    \A k \in Threads : late[k] = 0 \/ (late[k] = 1 /\ thread[k] # "dequeue")

IInv == TypeOK /\ OneUserOfTheData /\ BegunIsNotStopped /\ PausedInv

-----------------------------------------------------------------------------
LEMMA IInvInit == Init => IInv
<1> SUFFICES ASSUME Init PROVE IInv
  OBVIOUS
<1>1. MaxStarts \in Nat /\ 0 \in 0 .. MaxStarts /\ \A k \in Threads : k > 0
  BY MaxStartsAssumption DEF Threads
<1>2. TypeOK
  <2>1. user \in [Users -> DOMAIN Goal \cup {"idle"}]
    BY DEF Init
  <2>2. /\ thread \in [Threads -> {"none", "begin", "quit", "status", "paused",
                               "stepping", "sleep", "dequeue", "clear", "end",
                               "done"}]
        /\ \A k \in Threads : thread[k] = "none"
    BY DEF Init
  <2>4. late \in [Threads -> 0 .. 2]
    BY DEF Init
  <2>3. status \in Statuses /\ quit \in {0, 1} /\ stepping \in {0, 1} /\ self = 0
        /\ owner = "init" /\ early \in BOOLEAN
    BY DEF Init
  <2> QED BY <1>1, <2>1, <2>2, <2>3, <2>4 DEF TypeOK
<1>3. OneUserOfTheData /\ BegunIsNotStopped /\ PausedInv
  BY DEF Init, OneUserOfTheData, BegunIsNotStopped, PausedInv
<1> QED BY <1>2, <1>3 DEF IInv

(***************************************************************************)
(* A step of one thread leaves the others, and the owner, where they are.  *)
(***************************************************************************)
LEMMA GoesFacts ==
  ASSUME IInv, NEW k \in Threads, NEW from, NEW to, Goes(k, from, to)
  PROVE  /\ thread[k] = from /\ thread'[k] = to
         /\ \A j \in Threads \ {k} : thread'[j] = thread[j]
         /\ thread' = [thread EXCEPT ![k] = to]
         /\ UNCHANGED <<quit, stepping, self, owner, user, early>>
  BY DEF Goes, IInv, TypeOK

\* A thread that goes on, other than to its end, is not done and was not none:
\* what it leaves behind is as it was.
LEMMA GoesKeeps ==
  ASSUME IInv, NEW k \in Threads, NEW from, NEW to, Goes(k, from, to),
         from \notin {"none", "done"},
         to \in {"quit", "status", "paused", "stepping", "sleep", "dequeue",
                "clear", "end", "done"},
         status' \in Statuses \ {"stopped"} \/ (status' = status /\ from # "begin"),
         late' \in [Threads -> 0 .. 2]
  PROVE  TypeOK' /\ OneUserOfTheData' /\ BegunIsNotStopped'
<1>1. /\ thread[k] = from /\ thread'[k] = to
      /\ \A j \in Threads \ {k} : thread'[j] = thread[j]
      /\ thread' = [thread EXCEPT ![k] = to]
      /\ UNCHANGED <<quit, stepping, self, owner, user, early>>
  BY GoesFacts
<1>2. TypeOK'
  BY <1>1 DEF IInv, TypeOK, Statuses
<1>3. OneUserOfTheData'
  <2>1. self \in 0 .. MaxStarts /\ 1 .. self \subseteq Threads
    BY MaxStartsAssumption DEF IInv, TypeOK, Threads
  <2> QED BY <1>1, <2>1 DEF IInv, OneUserOfTheData
<1>4. BegunIsNotStopped'
  BY <1>1 DEF IInv, BegunIsNotStopped
<1> QED BY <1>2, <1>3, <1>4

(***************************************************************************)
(* Threads store "running" and "stopping" only.                            *)
(***************************************************************************)
LEMMA StoreFacts ==
  ASSUME NEW s \in Statuses, Store(s)
  PROVE  /\ status' = s
         /\ late' \in [Threads -> 0 .. 2] /\ \A k \in Threads : late'[k] = 0
         /\ PausedInv'
  BY DEF Store, PausedInv

LEMMA LoopStep ==
  ASSUME IInv, NEW k \in Threads, Loop(k)
  PROVE  IInv'
<1>0. late \in [Threads -> 0 .. 2] /\ status \in Statuses
  BY DEF IInv, TypeOK
<1>1. CASE Begin(k)
  <2>1. "running" \in Statuses \ {"stopped"}
    BY DEF Statuses
  <2> QED BY <1>1, <2>1, StoreFacts, GoesKeeps DEF Begin, IInv
<1>2. CASE End(k)
  <2>1. "stopping" \in Statuses \ {"stopped"}
    BY DEF Statuses
  <2> QED BY <1>2, <2>1, StoreFacts, GoesKeeps DEF End, IInv
<1>3. ASSUME NEW from, NEW to, Goes(k, from, to),
             from \notin {"none", "done", "begin"},
             to \in {"quit", "status", "paused", "stepping", "sleep", "dequeue",
                    "clear", "end", "done"},
             UNCHANGED status,
             \/ /\ UNCHANGED late
                /\ to = "dequeue" => status = "running" \/ stepping = 1
             \/ /\ from = "dequeue" /\ to = "quit"
                /\ late' = [late EXCEPT ![k] = IF @ < 2 THEN @ + 1 ELSE @]
      PROVE  IInv'
  <2>1. late' \in [Threads -> 0 .. 2]
    BY <1>0, <1>3
  <2>2. TypeOK' /\ OneUserOfTheData' /\ BegunIsNotStopped'
    BY <1>0, <1>3, <2>1, GoesKeeps
  <2>3. PausedInv'
    <3>1. /\ thread[k] = from /\ thread'[k] = to
          /\ \A j \in Threads \ {k} : thread'[j] = thread[j]
          /\ UNCHANGED stepping
      BY <1>3, GoesFacts
    <3>2. CASE UNCHANGED late
      BY <1>3, <3>1, <3>2 DEF IInv, PausedInv
    <3>3. CASE /\ from = "dequeue" /\ to = "quit"
               /\ late' = [late EXCEPT ![k] = IF @ < 2 THEN @ + 1 ELSE @]
      BY <1>0, <1>3, <3>1, <3>3 DEF IInv, PausedInv
    <3> QED BY <1>3, <3>2, <3>3
  <2> QED BY <2>2, <2>3 DEF IInv
<1>4. CASE TestQuit(k)
  BY <1>3, <1>4 DEF TestQuit
<1>5. CASE TestRunning(k)
  BY <1>3, <1>5 DEF TestRunning
<1>6. CASE TestPaused(k)
  BY <1>3, <1>6 DEF TestPaused
<1>7. CASE TestStepping(k)
  BY <1>3, <1>7 DEF TestStepping
<1>8. CASE Sleep(k)
  BY <1>3, <1>8 DEF Sleep
<1>9. CASE Dequeue(k)
  BY <1>3, <1>9 DEF Dequeue
<1>10. CASE ClearAtEnd(k)
  BY <1>3, <1>10 DEF ClearAtEnd
<1> QED BY <1>1, <1>2, <1>4, <1>5, <1>6, <1>7, <1>8, <1>9, <1>10 DEF Loop

(***************************************************************************)
(* The owner passes the test of status only to the join, if the thread has *)
(* begun, and the join only when it is done.                               *)
(***************************************************************************)
LEMMA OwnerStep == IInv /\ Owner => IInv'
<1> SUFFICES ASSUME IInv, Owner PROVE IInv'
  OBVIOUS
<1>0. /\ TypeOK /\ self \in Nat /\ MaxStarts \in Nat
      /\ \A k : k \in Threads <=> k \in 1 .. MaxStarts
      /\ late \in [Threads -> 0 .. 2]
  BY MaxStartsAssumption DEF IInv, TypeOK, Threads
<1>1. CASE Start
  <2>1. /\ self + 1 \in Threads /\ self' = self + 1 /\ thread'[self + 1] = "begin"
        /\ \A k \in Threads \ {self + 1} : thread'[k] = thread[k]
        /\ UNCHANGED <<status, quit, stepping, user, late, early>>
        /\ owner' = "starting" /\ owner \in {"init", "stopped"}
        /\ thread' = [thread EXCEPT ![self + 1] = "begin"]
    BY <1>0, <1>1 DEF Start, TypeOK
  <2>2. TypeOK'
    BY <1>0, <2>1 DEF TypeOK
  <2>3. OneUserOfTheData'
    <3> SUFFICES ASSUME ~early, NEW k \in 1 .. self + 1, k < self + 1
                 PROVE  thread'[k] = "done"
      BY <2>1 DEF OneUserOfTheData
    <3>1. k \in 1 .. self /\ k \in Threads \ {self + 1}
      BY <1>0, <2>1
    <3>2. owner = "stopped"
      BY <1>0, <2>1, <3>1 DEF TypeOK
    <3>3. thread[k] = "done"
      BY <3>1, <3>2 DEF IInv, OneUserOfTheData
    <3> QED BY <2>1, <3>1, <3>3
  <2>4. BegunIsNotStopped' /\ PausedInv'
    BY <2>1 DEF IInv, BegunIsNotStopped, PausedInv
  <2> QED BY <2>2, <2>3, <2>4 DEF IInv
<1>2. ASSUME NEW from, NEW to, OwnerGoes(from, to), from # "init",
             to \in {"started", "quitting", "waking", "joining", "joined",
                    "clearing", "stopped", "destroyed"},
             quit' \in {0, 1}, early' \in BOOLEAN, early => early',
             \/ UNCHANGED <<status, late>>
             \/ \E s \in Statuses : Store(s),
             to = "started" => from = "starting" /\ UNCHANGED status,
             ~early' /\ to \in AfterTheJoin =>
               \/ from \in AfterTheJoin
               \/ \A k \in Threads : k = self => thread[k] = "done"
      PROVE  IInv'
  <2>1. /\ owner = from /\ owner' = to
        /\ UNCHANGED <<stepping, self, thread, user>>
    BY <1>2 DEF OwnerGoes
  <2>2. TypeOK' /\ late' \in [Threads -> 0 .. 2]
    <3>1. late' \in [Threads -> 0 .. 2] /\ status' \in Statuses
      BY <1>0, <1>2, StoreFacts DEF TypeOK
    <3> QED BY <1>0, <1>2, <2>1, <3>1 DEF TypeOK
  <2>3. OneUserOfTheData'
    <3> SUFFICES ASSUME ~early', NEW k \in 1 .. self,
                        k < self \/ to \in AfterTheJoin
                 PROVE  thread[k] = "done"
      BY <2>1 DEF OneUserOfTheData, AfterTheJoin
    <3>1. k \in Threads /\ ~early
      BY <1>0, <1>2 DEF TypeOK
    <3>2. CASE k < self \/ from \in AfterTheJoin
      BY <2>1, <3>1, <3>2 DEF IInv, OneUserOfTheData, AfterTheJoin
    <3>3. CASE k = self /\ from \notin AfterTheJoin
      BY <1>0, <1>2, <3>1, <3>3
    <3> QED BY <1>0, <3>2, <3>3
  <2>4. BegunIsNotStopped'
    BY <1>2, <2>1 DEF IInv, BegunIsNotStopped
  <2>5. PausedInv'
    <3>1. CASE UNCHANGED <<status, late>>
      BY <2>1, <3>1 DEF IInv, PausedInv
    <3>2. CASE \E s \in Statuses : Store(s)
      BY <3>2, StoreFacts
    <3> QED BY <1>2, <3>1, <3>2
  <2> QED BY <2>2, <2>3, <2>4, <2>5 DEF IInv
<1>3. quit \in {0, 1} /\ early \in BOOLEAN
  BY <1>0 DEF TypeOK
<1>4. CASE ResetQuit
  BY <1>2, <1>3, <1>4 DEF ResetQuit, AfterTheJoin
<1>5. CASE StopTest
  <2>1. CASE status = "stopped"
    <3>1. OwnerGoes("started", "joined") /\ UNCHANGED <<status, quit, late>>
      BY <1>5, <2>1 DEF StopTest
    <3>2. owner = "started" /\ early' = (early \/ thread[self] = "begin")
      BY <1>5 DEF StopTest, OwnerGoes
    <3>3. self \in Threads
      BY <1>0, <3>2 DEF TypeOK
    <3>4. early' = TRUE
      BY <1>3, <2>1, <3>2, <3>3 DEF IInv, BegunIsNotStopped
    <3> HIDE DEF IInv
    <3> QED BY <1>2, <1>3, <3>1, <3>4
  <2>2. CASE status # "stopped"
    <3>1. /\ OwnerGoes("started", "quitting") /\ UNCHANGED <<status, late>>
          /\ quit' \in {0, 1}
      BY <1>3, <1>5, <2>2 DEF StopTest
    <3>2. early' \in BOOLEAN
      BY <1>3, <1>5 DEF StopTest
    <3>3. early => early'
      BY <1>5 DEF StopTest
    <3>4. "quitting" \notin AfterTheJoin
      BY DEF AfterTheJoin
    <3> QED BY <1>2, <3>1, <3>2, <3>3, <3>4
  <2> QED BY <2>1, <2>2
<1>6. CASE StopQuit
  BY <1>2, <1>3, <1>6 DEF StopQuit, AfterTheJoin
<1>7. CASE StopWake
  BY <1>2, <1>3, <1>7 DEF StopWake, AfterTheJoin, Statuses
<1>8. CASE StopJoin
  BY <1>2, <1>3, <1>8 DEF StopJoin
<1>9. CASE StopStore
  BY <1>2, <1>3, <1>9 DEF StopStore, AfterTheJoin, Statuses
<1>10. CASE StopClear
  BY <1>2, <1>3, <1>10 DEF StopClear, AfterTheJoin
<1>11. CASE Destroy
  BY <1>2, <1>3, <1>11 DEF Destroy, AfterTheJoin
<1> QED BY <1>1, <1>4, <1>5, <1>6, <1>7, <1>8, <1>9, <1>10, <1>11 DEF Owner

(***************************************************************************)
(* A user stores "paused" or "running", and no thread takes stepping back. *)
(***************************************************************************)
LEMMA UserStep == ASSUME IInv, NEW u \in Users, User(u) PROVE IInv'
<1>1. CASE \E op \in DOMAIN Goal : Call(u, op)
  BY <1>1 DEF Call, IInv, TypeOK, OneUserOfTheData, BegunIsNotStopped, PausedInv,
              Goal
<1>2. CASE Change(u)
  <2>1. /\ Goal[user[u]] \in Statuses \ {"stopped"}
        /\ user' \in [Users -> DOMAIN Goal \cup {"idle"}]
    BY <1>2 DEF Change, IInv, TypeOK, Goal, Statuses
  <2>2. status' = Goal[user[u]] /\ late' \in [Threads -> 0 .. 2] /\ PausedInv'
    BY <1>2, <2>1, StoreFacts DEF Change
  <2> HIDE DEF Goal
  <2> QED BY <1>2, <2>1, <2>2
          DEF Change, IInv, TypeOK, OneUserOfTheData, BegunIsNotStopped
<1>3. CASE Step(u)
  BY <1>3 DEF Step, IInv, TypeOK, OneUserOfTheData, BegunIsNotStopped, PausedInv
<1> QED BY <1>1, <1>2, <1>3 DEF User

\* Every step keeps the invariant.
LEMMA IInvStep == IInv /\ [Next]_vars => IInv'
<1> SUFFICES ASSUME IInv, [Next]_vars PROVE IInv'
  OBVIOUS
<1>1. CASE UNCHANGED vars
  BY <1>1 DEF vars, IInv, TypeOK, OneUserOfTheData, BegunIsNotStopped, PausedInv
<1>2. CASE Next
  BY <1>2, LoopStep, OwnerStep, UserStep DEF Next
<1> QED BY <1>1, <1>2

-----------------------------------------------------------------------------
\* The inductive invariant, and with it the types, holds in every reachable
\* state.
THEOREM Invariance == Spec => []IInv
<1> QED BY IInvInit, IInvStep, PTL DEF Spec

\* Whatever cymo_init found in the fields it leaves out, STOPPED included, the
\* status and the place of each thread stay among those the code has names for.
THEOREM TypeCorrect == Spec => []TypeOK
<1> QED BY Invariance, PTL DEF IInv

\* However often the loop is started, and whatever status was at first: if no
\* stop came before the thread it was to stop had begun, cymo_stop and
\* cymo_destory clear the pipes and clocks only after every thread has ended, and
\* no two threads of the loop run side by side.
THEOREM DataHaveOneUser == Spec => []OneUserOfTheData
<1> QED BY Invariance, PTL DEF IInv

\* cymo_pause lets each thread of the loop dispatch the event it is fetching and
\* no other.
THEOREM PausesTakeHold == Spec => []PauseTakesHold
<1>1. IInv => PauseTakesHold
  BY DEF IInv, TypeOK, PausedInv, PauseTakesHold
<1> QED BY <1>1, Invariance, PTL
=============================================================================
