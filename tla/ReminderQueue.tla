--------------------------- MODULE ReminderQueue ---------------------------
(***************************************************************************)
(* reminder_queue.c: the pending reminders in a red-black tree ordered by  *)
(* timestamp and then by timer_id.                                         *)
(*                                                                         *)
(* A node is named by the timer_id it is given, which is unique; node      *)
(* addresses are never compared.  Two reminders are alike when timestamp,  *)
(* callback and user_data agree: callback and user_data are one payload    *)
(* here.                                                                   *)
(***************************************************************************)
EXTENDS RBTree

CONSTANTS
  Reminders,       \* the reminder_t objects callers may push
  TimestampOf(_),  \* the timestamp field of a reminder
  PayloadOf(_),    \* its callback and user_data
  Times, Payloads, \* what those may be
  MaxId            \* bound on timer_counter

ASSUME NodesAreIds == Nodes = 1 .. MaxId
ASSUME RemindersTyped ==
  \A r \in Reminders : TimestampOf(r) \in Times /\ PayloadOf(r) \in Payloads

VARIABLES
  tree,           \* q->tree
  reminder,       \* node->reminder, for the nodes in use
  timer_counter,  \* q->timer_counter
  result,         \* the last call, what it was given, what it answered
  crashed         \* a comparison read through a null pointer, or an
                  \* assertion failed

vars == <<tree, reminder, timer_counter, result, crashed>>

Result(op, arg, ret, item) == [op |-> op, arg |-> arg, ret |-> ret, item |-> item]

\* What a comparison sees of the sought node: the address in its reminder
\* field, its timer_id, and the fields behind the address.
Key(object, id, time, payload) ==
  [object |-> object, id |-> id, time |-> time, payload |-> payload]

KeyOf(r, id) == Key(r, id, TimestampOf(r), PayloadOf(r))

Alike(r, time, payload) == TimestampOf(r) = time /\ PayloadOf(r) = payload

\* Mutant: the timer_id does not break ties.
CompareNoId(k, n) ==
  LET r == reminder[n] IN
  IF k.object = r \/ k.id = n THEN "equal"
  ELSE IF k.object = Nil THEN "null"
  ELSE IF Alike(r, k.time, k.payload) THEN "equal"
  ELSE IF k.time <= TimestampOf(r) THEN "below" ELSE "above"

\* timer_node_compare of the sought key and the node n of the tree.
Compare(k, n) ==
  LET r == reminder[n] IN
  IF k.object = r \/ k.id = n THEN "equal"
  ELSE IF k.object = Nil THEN "null"
  ELSE IF Alike(r, k.time, k.payload) THEN "equal"
  ELSE IF k.time < TimestampOf(r) THEN "below"
  ELSE IF k.time > TimestampOf(r) THEN "above"
  ELSE IF k.id < n THEN "below" ELSE "above"

Dir(k) == [n \in Nodes |-> Compare(k, n)]

ReadsNull(k) == \E i \in DOMAIN SearchPath(tree, Dir(k)) :
                  Compare(k, SearchPath(tree, Dir(k))[i]) = "null"

Init ==
  /\ tree = EmptyTree
  /\ reminder = [n \in Nodes |-> Nil]
  /\ timer_counter = 1
  /\ result = Result("init", Nil, 0, Nil)
  /\ crashed = FALSE

\* timer_remove and node_free.
Drop(n) ==
  /\ tree' = Remove(tree, n)
  /\ reminder' = [reminder EXCEPT ![n] = Nil]

\* reminder_queue_push of a reminder the search finds no equal of.
PushNew(r) ==
  LET id == timer_counter dir == Dir(KeyOf(r, id)) IN
  /\ ~crashed /\ id <= MaxId
  /\ Find(tree, dir) = Nil
  /\ tree' = Insert(tree, id, dir)
  /\ reminder' = [reminder EXCEPT ![id] = r]
  /\ timer_counter' = id + 1
  /\ result' = Result("push", r, id, Nil)
  /\ UNCHANGED crashed

\* reminder_queue_push when the search meets an equal node, in a build without
\* assertions or with the same reminder: the new node is freed, its timer_id is
\* used up.
PushDuplicate(r) ==
  LET found == Find(tree, Dir(KeyOf(r, timer_counter))) IN
  /\ ~crashed /\ timer_counter <= MaxId
  /\ found # Nil
  /\ timer_counter' = timer_counter + 1
  /\ result' = Result("push", r, -2, reminder[found])
  /\ UNCHANGED <<tree, reminder, crashed>>

\* The same in a build with assertions, when the equal node is of a reminder
\* that is alike and not the same.
PushAborts(r) ==
  LET found == Find(tree, Dir(KeyOf(r, timer_counter))) IN
  /\ ~crashed /\ timer_counter <= MaxId
  /\ found # Nil /\ reminder[found] # r
  /\ crashed' = TRUE
  /\ UNCHANGED <<tree, reminder, timer_counter, result>>

\* node_new fails.
PushNoMemory(r) ==
  /\ ~crashed
  /\ result' = Result("push", r, -1, Nil)
  /\ UNCHANGED <<tree, reminder, timer_counter, crashed>>

\* Mutant: the node stays in the tree.
PopPeeks ==
  LET n == MinNode(tree) IN
  /\ ~crashed
  /\ n # Nil
  /\ result' = Result("pop", Nil, 0, reminder[n])
  /\ UNCHANGED <<tree, reminder, timer_counter, crashed>>

\* reminder_queue_pop.
Pop ==
  LET n == MinNode(tree) IN
  /\ ~crashed
  /\ n # Nil
  /\ Drop(n)
  /\ result' = Result("pop", Nil, 0, reminder[n])
  /\ UNCHANGED <<timer_counter, crashed>>

PopEmpty ==
  /\ ~crashed
  /\ MinNode(tree) = Nil
  /\ result' = Result("pop", Nil, -1, Nil)
  /\ UNCHANGED <<tree, reminder, timer_counter, crashed>>

\* reminder_queue_clear, and reminder_queue_destory.
Clear ==
  /\ ~crashed
  /\ tree' = RemoveAll(tree)
  /\ reminder' = [n \in Nodes |-> Nil]
  /\ result' = Result("clear", Nil, 0, Nil)
  /\ UNCHANGED <<timer_counter, crashed>>

\* RB_FIND of a key, and the removal of what it finds.
RemoveKey(op, arg, k) ==
  LET found == Find(tree, Dir(k)) IN
  /\ ~crashed /\ ~ReadsNull(k)
  /\ IF found = Nil
     THEN /\ result' = Result(op, arg, -1, Nil)
          /\ UNCHANGED <<tree, reminder>>
     ELSE /\ result' = Result(op, arg, 0, reminder[found])
          /\ Drop(found)
  /\ UNCHANGED <<timer_counter, crashed>>

\* reminder_queue_remove: the sought reminder is a local of its own.
RemoveReminder(time, payload) ==
  RemoveKey("remove", [time |-> time, payload |-> payload],
            Key("local", 0, time, payload))

IdKey(id) == Key(Nil, id, 0, Nil)

\* reminder_queue_remove_by_id: the reminder field of the sought node is NULL.
RemoveById(id) == RemoveKey("remove_by_id", id, IdKey(id))

\* The same, when a node of another id is met: its comparison goes on to the
\* fields of the reminder that is not there.
RemoveByIdCrash(id) ==
  /\ ~crashed /\ ReadsNull(IdKey(id))
  /\ crashed' = TRUE
  /\ UNCHANGED <<tree, reminder, timer_counter, result>>

Next ==
  \/ \E r \in Reminders :
       PushNew(r) \/ PushDuplicate(r) \/ PushAborts(r) \/ PushNoMemory(r)
  \/ Pop \/ PopEmpty \/ Clear
  \/ \E time \in Times, payload \in Payloads : RemoveReminder(time, payload)
  \/ \E id \in Nodes : RemoveById(id) \/ RemoveByIdCrash(id)

Spec == Init /\ [][Next]_vars

-----------------------------------------------------------------------------
Entries == {[reminder |-> reminder[n], id |-> n] : n \in Members(tree)}

\* The nodes in use are those of the tree, none leaked by a refused push or a
\* failed removal.  It stays a red-black tree in ascending order of timestamp and
\* id, although the comparison calls alike reminders equal wherever they stand.
TreeInOrder ==
  LET walk == InOrder(tree)
      time(i) == TimestampOf(reminder[walk[i]])
  IN  /\ \A n \in Nodes : reminder[n] # Nil <=> n \in Members(tree)
      /\ Linked(tree) /\ Balanced(tree)
      /\ {walk[i] : i \in 1 .. Len(walk)} = Members(tree)
      /\ \A i \in 1 .. Len(walk) - 1 :
           \/ time(i) < time(i + 1)
           \/ time(i) = time(i + 1) /\ walk[i] < walk[i + 1]

\* The queue fires the earliest pending reminder first, first come first
\* served among equally early ones, and neither loses nor makes up any.
Timers == INSTANCE TimerQueue
            WITH Ids <- Nodes, pending <- Entries,
                 fired <- IF result.op = "pop" /\ result.ret = 0
                          THEN {result.item} ELSE {}

ImplementsTimerQueue == Timers!Spec

-----------------------------------------------------------------------------
\* reminder_queue.c:190, "not found": when reminder_queue_remove answers -1 no
\* reminder like the one asked for is pending.
NotFoundIsNotPending ==
  result.op = "remove" /\ result.ret = -1 =>
    \A e \in Entries : ~Alike(e.reminder, result.arg.time, result.arg.payload)
=============================================================================
