------------------------------- MODULE RBLinks -------------------------------
(***************************************************************************)
(* What the RB_ macros of adt_tree.h do to the pointers and colours of a   *)
(* red-black tree between two tests of their loops: the rotations, the     *)
(* bodies of the two recolouring loops, linking a node and unlinking one.  *)
(* RBTree runs the loops to their end; TreeRounds takes one round a step.  *)
(*                                                                         *)
(* A tree is a record of the head's root and of the RB_ENTRY fields of     *)
(* every node.  The macros write each case twice, for the left and for the *)
(* right; here a side is an argument.                                      *)
(***************************************************************************)
CONSTANTS
  Nodes,  \* the memory nodes are taken from
  Nil     \* NULL

ASSUME NilAssumption == Nil \notin Nodes

Sides == {"left", "right"}

Opposite(s) == IF s = "left" THEN "right" ELSE "left"

NoKids == [s \in Sides |-> Nil]

\* RB_INIT: no root; the fields of nodes outside the tree are not looked at
\* and are kept at one value.
EmptyTree ==
  [root   |-> Nil,
   kid    |-> [n \in Nodes |-> NoKids],
   parent |-> [n \in Nodes |-> Nil],
   color  |-> [n \in Nodes |-> "red"]]

Members(t) == {n \in Nodes : n = t.root \/ t.parent[n] # Nil}

IsRed(t, n) == n # Nil /\ t.color[n] = "red"

\* The side of its parent on which n hangs, as every macro finds it.
SideOf(t, p, n) == IF t.kid[p]["left"] = n THEN "left" ELSE "right"

SetKid(t, n, s, k) == [t EXCEPT !.kid[n][s] = k]

SetParent(t, n, p) == IF n = Nil THEN t ELSE [t EXCEPT !.parent[n] = p]

\* Put new where old hangs: below p, or at the root.
Replace(t, p, old, new) ==
  IF p = Nil THEN [t EXCEPT !.root = new]
  ELSE SetKid(t, p, SideOf(t, p, old), new)

Paint(t, n, c) == IF n = Nil THEN t ELSE [t EXCEPT !.color[n] = c]

\* RB_SET_BLACKRED.
BlackRed(t, black, red) ==
  [t EXCEPT !.color[black] = "black", !.color[red] = "red"]

\* Mutant: the subtree that changes sides keeps its old parent.
RotateOrphan(t, x, s) ==
  LET y  == t.kid[x][Opposite(s)]
      t1 == SetKid(t, x, Opposite(s), t.kid[y][s])
      t2 == Replace(SetParent(t1, y, t.parent[x]), t.parent[x], x, y)
  IN  SetParent(SetKid(t2, y, s, x), x, y)

\* RB_ROTATE_LEFT and RB_ROTATE_RIGHT: x goes down on side s.
Rotate(t, x, s) ==
  LET y  == t.kid[x][Opposite(s)]
      c  == t.kid[y][s]
      t1 == SetParent(SetKid(t, x, Opposite(s), c), c, x)
      t2 == Replace(SetParent(t1, y, t.parent[x]), t.parent[x], x, y)
  IN  SetParent(SetKid(t2, y, s, x), x, y)

-----------------------------------------------------------------------------
(***************************************************************************)
(* Insertion.                                                              *)
(***************************************************************************)

\* The side on which the sought element lies, given what cmp answered.
SideTo(answer) == IF answer = "below" THEN "left" ELSE "right"

\* Mutant: the node is always linked on the left.
LinkLeft(t, n, p, s) ==
  LET t1 == [t EXCEPT !.parent[n] = p, !.kid[n] = NoKids, !.color[n] = "red"]
  IN  IF p = Nil THEN [t1 EXCEPT !.root = n] ELSE SetKid(t1, p, "left", n)

\* RB_SET and the link of RB_INSERT: n becomes the kid of p on side s.
Link(t, n, p, s) ==
  LET t1 == [t EXCEPT !.parent[n] = p, !.kid[n] = NoKids, !.color[n] = "red"]
  IN  IF p = Nil THEN [t1 EXCEPT !.root = n] ELSE SetKid(t1, p, s, n)

\* The body of the loop of RB_INSERT_COLOR: n is red and so is its parent p.
InsertRound(t, n) ==
  LET p     == t.parent[n]
      g     == t.parent[p]
      s     == SideOf(t, g, p)
      uncle == t.kid[g][Opposite(s)]
      inner == t.kid[p][Opposite(s)] = n
      t1    == IF inner THEN Rotate(t, p, s) ELSE t
      top   == IF inner THEN n ELSE p
      low   == IF inner THEN p ELSE n
  IN  IF IsRed(t, uncle)
      THEN [tree |-> BlackRed(Paint(t, uncle, "black"), p, g), at |-> g]
      ELSE [tree |-> Rotate(BlackRed(t1, top, g), g, Opposite(s)), at |-> low]

-----------------------------------------------------------------------------
(***************************************************************************)
(* Removal.                                                                *)
(***************************************************************************)

\* Mutant: the near kid of the sibling is taken for its far one.
RemoveRoundNoInner(t, p, n) ==
  LET s    == SideOf(t, p, n)
      sib  == t.kid[p][Opposite(s)]
      t1   == IF t.color[sib] = "red" THEN Rotate(BlackRed(t, sib, p), p, s) ELSE t
      w    == t1.kid[p][Opposite(s)]
      t3   == Paint(Paint(Paint(t1, w, t1.color[p]), p, "black"),
                    t1.kid[w][Opposite(s)], "black")
      done == Rotate(t3, p, s)
  IN  IF \A k \in Sides : ~IsRed(t1, t1.kid[w][k])
      THEN [tree |-> Paint(t1, w, "red"), parent |-> t1.parent[p], at |-> p]
      ELSE [tree |-> done, parent |-> Nil, at |-> done.root]

\* The body of the loop of RB_REMOVE_COLOR: the subtree n below p is one black
\* node short.
RemoveRound(t, p, n) ==
  LET s    == SideOf(t, p, n)
      sib  == t.kid[p][Opposite(s)]
      t1   == IF t.color[sib] = "red" THEN Rotate(BlackRed(t, sib, p), p, s) ELSE t
      w    == t1.kid[p][Opposite(s)]
      near == t1.kid[w][s]
      far  == t1.kid[w][Opposite(s)]
      t2   == IF IsRed(t1, far) THEN t1
              ELSE Rotate(Paint(Paint(t1, near, "black"), w, "red"),
                          w, Opposite(s))
      v    == t2.kid[p][Opposite(s)]
      t3   == Paint(Paint(Paint(t2, v, t2.color[p]), p, "black"),
                    t2.kid[v][Opposite(s)], "black")
      done == Rotate(t3, p, s)
  IN  IF ~IsRed(t1, near) /\ ~IsRed(t1, far)
      THEN [tree |-> Paint(t1, w, "red"), parent |-> t1.parent[p], at |-> p]
      ELSE [tree |-> done, parent |-> Nil, at |-> done.root]

\* The kid of a node that has at most one.
OnlyKid(t, n) ==
  IF t.kid[n]["left"] = Nil THEN t.kid[n]["right"] ELSE t.kid[n]["left"]

\* Its kid takes the place of a node that has at most one.
Splice(t, n) ==
  Replace(SetParent(t, OnlyKid(t, n), t.parent[n]),
          t.parent[n], n, OnlyKid(t, n))

\* The fields of a node that is in no tree.
Forget(t, n) ==
  [t EXCEPT !.kid[n] = NoKids, !.parent[n] = Nil, !.color[n] = "red"]

\* Let m, which is in no tree, take over the links and the colour of old.
TakeOver(t, m, old) ==
  LET t1 == [t EXCEPT !.kid[m] = t.kid[old], !.parent[m] = t.parent[old],
                      !.color[m] = t.color[old]]
      t2 == Replace(t1, t.parent[old], old, m)
  IN  SetParent(SetParent(t2, t.kid[old]["left"], m), t.kid[old]["right"], m)

\* Mutant: the successor is taken out and does not take over.
UnlinkNoTakeOver(t, old, elm) ==
  [tree   |-> Forget(Splice(t, elm), elm),
   parent |-> t.parent[elm],
   at     |-> OnlyKid(t, elm)]

\* RB_REMOVE as far as RB_REMOVE_COLOR: elm, which has at most one kid, is
\* spliced out and takes over from old, unless it is old itself; parent and at
\* are where the tree may now be one black node short.
Unlink(t, old, elm) ==
  LET t1 == Splice(t, elm)
  IN  [tree   |-> Forget(IF elm = old THEN t1 ELSE TakeOver(t1, elm, old), old),
       parent |-> IF elm # old /\ t.parent[elm] = old THEN elm
                  ELSE t.parent[elm],
       at     |-> OnlyKid(t, elm)]
=============================================================================
