------------------------------- MODULE RBTree -------------------------------
(***************************************************************************)
(* The red-black tree that the RB_ macros of adt_tree.h generate:          *)
(* event_pipe.c and reminder_queue.c keep their nodes in one.  The steps   *)
(* are those of RBLinks; here every macro runs to its end.                 *)
(*                                                                         *)
(* The comparison function is an argument: dir[n] is what cmp answers for  *)
(* the sought element and the node n, "below", "equal" or "above".         *)
(***************************************************************************)
EXTENDS RBLinks, Integers, Sequences

-----------------------------------------------------------------------------
(***************************************************************************)
(* Insertion.                                                              *)
(***************************************************************************)

RECURSIVE InsertColor(_, _)

\* RB_INSERT_COLOR: n is red and so may its parent be.
InsertColor(t, n) ==
  LET round == InsertRound(t, n)
  IN  IF IsRed(t, t.parent[n]) THEN InsertColor(round.tree, round.at)
      ELSE Paint(t, t.root, "black")

RECURSIVE PathFrom(_, _, _)
PathFrom(t, n, dir) ==
  IF n = Nil THEN << >>
  ELSE <<n>> \o CASE dir[n] = "below" -> PathFrom(t, t.kid[n]["left"], dir)
                  [] dir[n] = "above" -> PathFrom(t, t.kid[n]["right"], dir)
                  [] OTHER -> << >>

\* The nodes a search compares with, from the root on.
SearchPath(t, dir) == PathFrom(t, t.root, dir)

\* RB_FIND, and the node RB_INSERT returns: one that compares equal, or NULL.
Find(t, dir) ==
  LET path == SearchPath(t, dir)
      last == path[Len(path)]
  IN  IF path # << >> /\ dir[last] = "equal" THEN last ELSE Nil

\* RB_INSERT from the place on, where the search ended: the kid of p on side s.
InsertAt(t, n, p, s) == InsertColor(Link(t, n, p, s), n)

\* RB_INSERT of a node that finds no equal: it goes below the last one met.
Insert(t, n, dir) ==
  LET path == SearchPath(t, dir)
      p    == path[Len(path)]
  IN  IF path = << >> THEN InsertAt(t, n, Nil, "left")
      ELSE InsertAt(t, n, p, SideTo(dir[p]))

-----------------------------------------------------------------------------
(***************************************************************************)
(* Removal.                                                                *)
(***************************************************************************)

\* Mutant: nothing is rebalanced.
RemoveColorNot(t, p, n) == Paint(t, n, "black")

RECURSIVE RemoveColor(_, _, _)

\* RB_REMOVE_COLOR: the subtree n below p is one black node short.
RemoveColor(t, p, n) ==
  LET round == RemoveRound(t, p, n)
  IN  IF IsRed(t, n) \/ n = t.root THEN Paint(t, n, "black")
      ELSE RemoveColor(round.tree, round.parent, round.at)

\* The end of the chain of kids on side s that starts at n.
RECURSIVE Outermost(_, _, _)
Outermost(t, n, s) ==
  IF n = Nil \/ t.kid[n][s] = Nil THEN n ELSE Outermost(t, t.kid[n][s], s)

\* RB_REMOVE: an inner node is replaced by its successor.
Remove(t, old) ==
  LET inner == t.kid[old]["left"] # Nil /\ t.kid[old]["right"] # Nil
      elm   == IF inner THEN Outermost(t, t.kid[old]["right"], "left") ELSE old
      u     == Unlink(t, old, elm)
  IN  IF t.color[elm] = "black" THEN RemoveColor(u.tree, u.parent, u.at)
      ELSE u.tree

-----------------------------------------------------------------------------
(***************************************************************************)
(* Walking.                                                                *)
(***************************************************************************)

\* RB_MIN.
MinNode(t) == Outermost(t, t.root, "left")

RECURSIVE Climb(_, _)
Climb(t, n) ==
  IF t.parent[n] # Nil /\ n = t.kid[t.parent[n]]["right"]
  THEN Climb(t, t.parent[n]) ELSE t.parent[n]

\* RB_NEXT.
NextNode(t, n) ==
  IF t.kid[n]["right"] # Nil THEN Outermost(t, t.kid[n]["right"], "left")
  ELSE Climb(t, n)

RECURSIVE InOrderFrom(_, _)
InOrderFrom(t, n) ==
  IF n = Nil THEN << >> ELSE <<n>> \o InOrderFrom(t, NextNode(t, n))

\* RB_FOREACH: the nodes in the order in which the loop meets them.
InOrder(t) == InOrderFrom(t, MinNode(t))

RECURSIVE RemoveFrom(_, _)
RemoveFrom(t, n) ==
  IF n = Nil THEN t ELSE RemoveFrom(Remove(t, n), NextNode(t, n))

\* The loop RB_FOREACH_SAFE with an RB_REMOVE in it: the node after n is looked
\* up before n is removed.
RemoveAll(t) == RemoveFrom(t, MinNode(t))

-----------------------------------------------------------------------------
(***************************************************************************)
(* What a well-formed tree is; no code computes this.                      *)
(***************************************************************************)

RECURSIVE Subtree(_, _)
Subtree(t, n) ==
  IF n = Nil THEN {}
  ELSE {n} \cup Subtree(t, t.kid[n]["left"]) \cup Subtree(t, t.kid[n]["right"])

\* Parents and kids point at each other, and no member is cut off.
Linked(t) ==
  /\ t.root # Nil => t.parent[t.root] = Nil
  /\ \A n \in Members(t) : \A s \in Sides :
       /\ t.kid[n][s] # Nil => t.parent[t.kid[n][s]] = n
       /\ t.kid[n]["left"] = t.kid[n]["right"] => t.kid[n][s] = Nil
  /\ Subtree(t, t.root) = Members(t)

\* The number of black nodes on the way from n to the root.
RECURSIVE BlackDepth(_, _)
BlackDepth(t, n) ==
  IF n = Nil THEN 0
  ELSE BlackDepth(t, t.parent[n]) + (IF IsRed(t, n) THEN 0 ELSE 1)

\* Black root, no red node below a red one, as many black nodes on every way
\* from the root to a missing kid.
Balanced(t) ==
  /\ ~IsRed(t, t.root)
  /\ \A n \in Members(t) : IsRed(t, n) => ~IsRed(t, t.parent[n])
  /\ \A m, n \in {x \in Members(t) : \E s \in Sides : t.kid[x][s] = Nil} :
       BlackDepth(t, m) = BlackDepth(t, n)
=============================================================================
