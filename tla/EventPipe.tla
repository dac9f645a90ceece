----------------------------- MODULE EventPipe -----------------------------
(***************************************************************************)
(* event_pipe.c: the queues of one pipe in a red-black tree ordered by the *)
(* timestamp at the head of each queue and then by queue_id.               *)
(*                                                                         *)
(* The loop thread owns the tree; the producers own the tails of the       *)
(* queues and push whenever they like, between two comparisons of one      *)
(* search too, so that the key of a node changes while it is in the tree.  *)
(* A queue is a sequence of timestamps here: SpscQueue shows that the ring *)
(* behind it is one.  A node is named by the queue_id it is given.         *)
(*                                                                         *)
(* The loop calls event_pipe_read only after event_pipe_is_empty told it   *)
(* there is an event, so the pop inside succeeds, and what event_pipe_read *)
(* does after a pop that fails is not reached.                             *)
(***************************************************************************)
EXTENDS RBTree

CONSTANTS
  Queues,     \* the cm_queue_t objects
  Times,      \* timestamps, numbers below MaxTime
  MaxTime,    \* MAX_DATE_TIME, the key of an empty queue
  MaxId,      \* bound on queue_counter
  MaxLength   \* bound on the events in a queue

ASSUME NodesAreIds == Nodes = 1 .. MaxId
ASSUME TimesBelowMax == MaxTime \in Nat /\ \A x \in Times : x \in 0 .. MaxTime - 1

VARIABLES
  queue,          \* the timestamps of the events in each queue
  tree,           \* p->tree
  node_q,         \* node->q, for the nodes in use
  queue_counter,  \* p->queue_counter
  search,         \* the search the loop is in, and how far it is
  result          \* the last call of the loop, and what it answered

vars == <<queue, tree, node_q, queue_counter, search, result>>

NoSearch == [op |-> "none", q |-> Nil, id |-> 0, at |-> Nil, last |-> Nil,
             side |-> "left"]

Result(op, q, ret, item) == [op |-> op, q |-> q, ret |-> ret, item |-> item]

Idle == search.op = "none"

\* What cm_queue_peek gives of a queue, as a key.
HeadTime(q) == IF queue[q] = << >> THEN MaxTime ELSE Head(queue[q])

\* Mutant: of equally early queues the one that was added last goes first.
CompareNewestFirst(q, id, n) ==
  LET l == HeadTime(q) r == HeadTime(node_q[n]) IN
  IF q = node_q[n] THEN "equal"
  ELSE IF l < r THEN "below" ELSE IF l > r THEN "above"
  ELSE IF id > n THEN "below" ELSE IF id < n THEN "above" ELSE "equal"

\* pipe_node_compare of a sought queue and id with the node n.
Compare(q, id, n) ==
  LET l == HeadTime(q) r == HeadTime(node_q[n]) IN
  IF q = node_q[n] THEN "equal"
  ELSE IF l < r THEN "below" ELSE IF l > r THEN "above"
  ELSE IF id < n THEN "below" ELSE IF id > n THEN "above" ELSE "equal"

Init ==
  /\ queue = [q \in Queues |-> << >>]
  /\ tree = EmptyTree
  /\ node_q = [n \in Nodes |-> Nil]
  /\ queue_counter = 1
  /\ search = NoSearch
  /\ result = Result("init", Nil, 0, Nil)

\* cm_queue_push by the producer of q.
Push(q, x) ==
  /\ Len(queue[q]) < MaxLength
  /\ queue' = [queue EXCEPT ![q] = Append(@, x)]
  /\ UNCHANGED <<tree, node_q, queue_counter, search, result>>

\* Mutant: every node gets the id the counter starts at.
AddBeginSameId(q) ==
  /\ Idle /\ queue_counter <= MaxId
  /\ search' = [NoSearch EXCEPT !.op = "add", !.q = q, !.id = 1, !.at = tree.root]
  /\ UNCHANGED <<queue, tree, node_q, queue_counter, result>>

\* event_pipe_add: a new node, and RB_INSERT starts at the root.
AddBegin(q) ==
  /\ Idle /\ queue_counter <= MaxId
  /\ queue_counter' = queue_counter + 1
  /\ search' = [NoSearch EXCEPT !.op = "add", !.q = q, !.id = queue_counter,
                                !.at = tree.root]
  /\ UNCHANGED <<queue, tree, node_q, result>>

\* event_pipe_add when node_new fails.
AddNoMemory(q) ==
  /\ Idle
  /\ result' = Result("add", q, -1, Nil)
  /\ UNCHANGED <<queue, tree, node_q, queue_counter, search>>

\* event_pipe_remove: pipe_find starts at the root with a node on the stack
\* whose queue_id was never set.
RemoveBegin(q, garbage) ==
  /\ Idle
  /\ search' = [NoSearch EXCEPT !.op = "remove", !.q = q, !.id = garbage,
                                !.at = tree.root]
  /\ UNCHANGED <<queue, tree, node_q, queue_counter, result>>

Answer == Compare(search.q, search.id, search.at)

\* One comparison of a search that goes on.
SearchOn ==
  /\ ~Idle /\ search.at # Nil
  /\ Answer # "equal"
  /\ search' = [search EXCEPT !.at = tree.kid[search.at][SideTo(Answer)],
                              !.last = search.at, !.side = SideTo(Answer)]
  /\ UNCHANGED <<queue, tree, node_q, queue_counter, result>>

\* The search of event_pipe_add ends below a leaf: the node is linked there.
AddEnd ==
  /\ search.op = "add" /\ search.at = Nil
  /\ tree' = InsertAt(tree, search.id, search.last, search.side)
  /\ node_q' = [node_q EXCEPT ![search.id] = search.q]
  /\ result' = Result("add", search.q, 0, Nil)
  /\ search' = NoSearch
  /\ UNCHANGED <<queue, queue_counter>>

\* It meets an equal node: the new one is freed.
AddFound ==
  /\ search.op = "add" /\ search.at # Nil
  /\ Answer = "equal"
  /\ result' = Result("add", search.q, -2, node_q[search.at])
  /\ search' = NoSearch
  /\ UNCHANGED <<queue, tree, node_q, queue_counter>>

\* event_pipe_remove found a node: it is unlinked and freed.
RemoveFound ==
  /\ search.op = "remove" /\ search.at # Nil
  /\ Answer = "equal"
  /\ tree' = Remove(tree, search.at)
  /\ node_q' = [node_q EXCEPT ![search.at] = Nil]
  /\ result' = Result("remove", search.q, 0, node_q[search.at])
  /\ search' = NoSearch
  /\ UNCHANGED <<queue, queue_counter>>

RemoveNotFound ==
  /\ search.op = "remove" /\ search.at = Nil
  /\ result' = Result("remove", search.q, -1, Nil)
  /\ search' = NoSearch
  /\ UNCHANGED <<queue, tree, node_q, queue_counter>>

\* Mutant: a pipe with queues in it is not empty.
IsEmptyNoPeek ==
  /\ Idle
  /\ result' = Result("is_empty", Nil, IF MinNode(tree) = Nil THEN 1 ELSE 0, Nil)
  /\ UNCHANGED <<queue, tree, node_q, queue_counter, search>>

\* event_pipe_is_empty: only the first queue is looked at.
IsEmpty ==
  LET n == MinNode(tree) IN
  /\ Idle
  /\ result' = Result("is_empty", Nil,
                      IF n = Nil THEN 1
                      ELSE IF queue[node_q[n]] = << >> THEN 1 ELSE 0, Nil)
  /\ UNCHANGED <<queue, tree, node_q, queue_counter, search>>

\* event_pipe_read after event_pipe_is_empty answered 0: cm_queue_pop takes the
\* event out and answers 0, which is taken for "empty", and NULL is returned.
Read ==
  LET q == node_q[MinNode(tree)] IN
  /\ Idle /\ result.op = "is_empty" /\ result.ret = 0
  /\ queue' = [queue EXCEPT ![q] = Tail(@)]
  /\ result' = Result("read", q, 0, Nil)
  /\ UNCHANGED <<tree, node_q, queue_counter, search>>

\* event_pipe_clear and event_pipe_destory.
Clear ==
  /\ Idle
  /\ tree' = RemoveAll(tree)
  /\ node_q' = [n \in Nodes |-> Nil]
  /\ result' = Result("clear", Nil, 0, Nil)
  /\ UNCHANGED <<queue, queue_counter, search>>

Next ==
  \/ \E q \in Queues :
       \/ \E x \in Times : Push(q, x)
       \/ AddBegin(q) \/ AddNoMemory(q)
       \/ \E garbage \in 0 .. MaxId + 1 : RemoveBegin(q, garbage)
  \/ SearchOn \/ AddEnd \/ AddFound \/ RemoveFound \/ RemoveNotFound
  \/ IsEmpty \/ Read \/ Clear

Spec == Init /\ [][Next]_vars

-----------------------------------------------------------------------------
Registered == {node_q[n] : n \in Members(tree)}

\* Keys that change under the tree cost it its order, never its shape: parents
\* and kids agree, no queue is cut off, the black heights are equal, the nodes in
\* use are those of the tree and a search stands at one of them, whatever the
\* producers push and however the searches are led astray.
TreeStaysWhole ==
  /\ Linked(tree) /\ Balanced(tree)
  /\ \A n \in Nodes : node_q[n] # Nil <=> n \in Members(tree)
  /\ search.at \in Members(tree) \cup {Nil}

\* What an answer of the loop's last call says is so until its next call: an
\* added or refused queue is registered, and a pipe that is not empty has an
\* event, at the place where event_pipe_read takes it from.
AnswersAreTrue ==
  /\ Idle /\ result.op = "add" /\ result.ret # -1 => result.q \in Registered
  /\ Idle /\ result.op = "is_empty" /\ result.ret = 0 =>
       /\ MinNode(tree) # Nil
       /\ queue[node_q[MinNode(tree)]] # << >>

\* event_pipe.c:116, assert(found->q == q): an add is refused on account of the
\* queue itself, since the id of the new node is like no other.
RefusedForItself ==
  result.op = "add" /\ result.ret = -2 => result.item = result.q

\* The queues of the nodes below n and of n, from left to right.
RECURSIVE LineBelow(_)
LineBelow(n) ==
  IF n = Nil THEN << >>
  ELSE LineBelow(tree.kid[n]["left"]) \o <<node_q[n]>>
         \o LineBelow(tree.kid[n]["right"])

Line == INSTANCE MergedQueues
          WITH Values <- Times, MaxNodes <- MaxId, events <- queue,
               line <- LineBelow(tree.root)

\* The tree, its searches and the pushes between two comparisons amount to a
\* line of queues: whatever keys have changed, an add puts the queue in at one
\* place and moves no other, an empty queue goes to the end, and a read takes
\* the oldest event of the first queue.
ImplementsLine == Line!Spec

-----------------------------------------------------------------------------
(***************************************************************************)
(* What the comments of the code say and a run refutes.                    *)
(***************************************************************************)

\* event_pipe.c:101, "if q has been insert return -2": no queue is registered
\* twice.
NeverAddedTwice ==
  \A m, n \in Members(tree) : node_q[m] = node_q[n] => m = n
=============================================================================
