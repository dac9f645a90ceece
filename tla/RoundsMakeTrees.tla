-------------------------- MODULE RoundsMakeTrees --------------------------
(***************************************************************************)
(* The loops of TreeRounds, a round a step, and the macros of RBTree, each *)
(* run to its end, build the same trees: what is proved of the one is said *)
(* of the other.  And a call takes few rounds.                             *)
(***************************************************************************)
EXTENDS KeyedRounds

VARIABLES
  before,  \* the tree the running call was given, or the tree as it is
  rounds   \* the steps the running call has taken

RoundsInit == Init /\ before = tree /\ rounds = 0

RoundsNext ==
  /\ Next
  /\ before' = IF call'.stage = "none" THEN tree' ELSE before
  /\ rounds' = IF Idle \/ call'.stage = "none" THEN 0 ELSE rounds + 1

RoundsSpec == RoundsInit /\ [][RoundsNext]_<<vars, before, rounds>>

Macros == INSTANCE KeyedTree WITH tree <- before

\* Every call leaves the very tree, link by link and colour by colour, that the
\* macro makes of the tree it was given.
SameTrees == Macros!Spec

\* adt_tree.h:60, "every operation on a red-black tree is bounded as O(lg n).
\* The maximum height of a red-black tree is 2lg (n+1)": a search or a walk has
\* gone down no further than that, and a recolouring loop climbs no higher.
CallsAreShort ==
  LET size   == Cardinality(Members(before)) + 1
      ways   == IF call.stage \in {"insert_color", "remove_color"} THEN 2 ELSE 1
      height == CHOOSE h \in 0 .. 2 * size : 2 ^ h <= size ^ 2 /\ size ^ 2 < 2 ^ (h + 1)
  IN  rounds <= ways * height + ways - 1
=============================================================================
