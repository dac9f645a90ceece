------------------------- MODULE MCRoundsMakeTrees -------------------------
(***************************************************************************)
(* Ten keys, and a second node with the third one.  With ten nodes         *)
(* RB_REMOVE_COLOR goes round twice, as RB_INSERT_COLOR does with eight.   *)
(***************************************************************************)
EXTENDS RoundsMakeTrees

MCNodes == 1 .. 11
MCKeyOf(n) == IF n = 11 THEN 3 ELSE n
ByKey(k, n) == {Compare(k, n)}

\* The nodes of six keys come and go in any order.
FreeNodes == {1, 2, 3, 4, 5, 6, 11}
Free == Members(tree) \subseteq FreeNodes

\* On top of six that lean to the right the tree grows upwards to ten, and
\* then one of them is taken out.
Grows(n) == Members(tree) = 1 .. n - 1 /\ (Free => tree.root = 2)
Grown == Members(tree) = 1 .. 10

MayBegin(c) ==
  CASE c.stage = "insert" -> (Free /\ c.node \in FreeNodes) \/ Grows(c.node)
    [] c.stage = "find"   -> Free
    [] c.stage = "remove" -> Free \/ Grown
    [] OTHER -> TRUE

TenSpec ==
  RoundsInit /\ [][RoundsNext /\ (Idle => MayBegin(call'))]_<<vars, before, rounds>>
=============================================================================
