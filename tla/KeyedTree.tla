----------------------------- MODULE KeyedTree -----------------------------
(***************************************************************************)
(* The tree of RBTree used as a set of nodes, by any sequence of RB_INSERT *)
(* and of RB_FIND with RB_REMOVE of what was found; cmp compares the keys  *)
(* of the nodes.                                                           *)
(***************************************************************************)
EXTENDS RBTree

CONSTANT
  KeyOf(_)  \* the place of a node in the order of cmp

VARIABLE tree

\* cmp of the sought element k and each node.
Dir(k) ==
  [n \in Nodes |-> IF KeyOf(k) < KeyOf(n) THEN "below"
                   ELSE IF KeyOf(k) > KeyOf(n) THEN "above" ELSE "equal"]

Init == tree = EmptyTree

\* RB_INSERT of a node that finds no equal; one that does leaves the tree.
InsertNode(n) ==
  /\ Find(tree, Dir(n)) = Nil
  /\ tree' = Insert(tree, n, Dir(n))

\* RB_FIND, then RB_REMOVE of what it found.
RemoveLike(k) ==
  /\ Find(tree, Dir(k)) # Nil
  /\ tree' = Remove(tree, Find(tree, Dir(k)))

Next == \E n \in Nodes : InsertNode(n) \/ RemoveLike(n)

Spec == Init /\ [][Next]_tree
=============================================================================
