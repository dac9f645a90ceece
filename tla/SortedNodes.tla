---------------------------- MODULE SortedNodes ----------------------------
(***************************************************************************)
(* What the RB_ macros promise event_pipe.c and reminder_queue.c, with no  *)
(* tree and no loops: a set of nodes of different keys, each call one step.*)
(***************************************************************************)
EXTENDS Integers

CONSTANTS
  Nodes, Nil,
  KeyOf(_)  \* the place of a node in the order of cmp

VARIABLES
  held,   \* the nodes that were inserted and not removed since
  answer  \* what the last call returned

Like(k) == {m \in held : KeyOf(m) = KeyOf(k)}

Init == held = {} /\ answer = Nil

\* A node like one that is held is refused, and that one is named.
Insert(n) ==
  /\ n \notin held
  /\ IF Like(n) = {} THEN held' = held \cup {n} /\ answer' = Nil
     ELSE answer' \in Like(n) /\ UNCHANGED held

Find(k) ==
  /\ answer' \in IF Like(k) = {} THEN {Nil} ELSE Like(k)
  /\ UNCHANGED held

Remove(k) == \E m \in Like(k) : held' = held \ {m} /\ answer' = m

Least ==
  /\ answer' \in IF held = {} THEN {Nil}
                 ELSE {n \in held : \A m \in held : KeyOf(n) <= KeyOf(m)}
  /\ UNCHANGED held

Next == (\E n \in Nodes : Insert(n) \/ Find(n) \/ Remove(n)) \/ Least

Spec == Init /\ [][Next]_<<held, answer>>
=============================================================================
