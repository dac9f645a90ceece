---------------------------- MODULE KeyedRounds ----------------------------
(***************************************************************************)
(* TreeRounds with a cmp that orders the nodes: what reminder_queue.c has, *)
(* whose keys do not change, by timestamp and then by timer_id.            *)
(***************************************************************************)
EXTENDS TreeRounds, Integers

CONSTANT
  KeyOf(_)  \* the place of a node in the order of cmp

Compare(k, n) ==
  IF KeyOf(k) < KeyOf(n) THEN "below"
  ELSE IF KeyOf(k) > KeyOf(n) THEN "above" ELSE "equal"

ASSUME KeysAreNumbers == \A n \in Nodes : KeyOf(n) \in Int

ASSUME AnswersByKey == \A k, n \in Nodes : Answers(k, n) = {Compare(k, n)}

\* The nodes whose keys may stand on side s of n.
OnSide(n, s) ==
  {m \in Members(tree) : Compare(m, n) = IF s = "left" THEN "below" ELSE "above"}

\* After every round the keys to the left of a node are smaller than its own
\* and those to the right greater, at any depth: rotations and the exchange of
\* a node with its successor keep the order.
InKeyOrder ==
  \A n \in Members(tree), s \in Sides : tree.kid[n][s] # Nil =>
    \E S \in SUBSET OnSide(n, s) : tree.kid[n][s] \in S /\ Closed(tree, S)

\* What the running call will return, once that is settled.
Answer ==
  CASE call.stage = "insert_color" -> Nil
    [] call.stage = "remove_color" -> call.node
    [] OTHER -> result

Sorted == INSTANCE SortedNodes WITH held <- Members(tree), answer <- Answer

\* The searches, rounds and walks amount to a set of nodes: a node is found
\* whenever it is held, whatever was rebalanced before, no node is lost or held
\* twice, and RB_MIN gives the least.
ImplementsSortedNodes == Sorted!Spec
=============================================================================
