----------------------------- MODULE TreeRounds -----------------------------
(***************************************************************************)
(* RB_INSERT, RB_FIND, RB_REMOVE and RB_MIN of adt_tree.h, one round of    *)
(* their loops a step: one comparison of a search, one node of a walk to   *)
(* the left, one round of RB_INSERT_COLOR or RB_REMOVE_COLOR.              *)
(*                                                                         *)
(* What cmp answers is a parameter.  A comparison of keys that change      *)
(* under the tree, as event_pipe.c has them, may answer anything.          *)
(***************************************************************************)
EXTENDS RBLinks, FiniteSets

CONSTANT
  Answers(_, _)  \* what cmp may answer for the sought element and a node

ASSUME NodesFinite == IsFiniteSet(Nodes)

VARIABLES
  tree,   \* the head and the RB_ENTRY fields
  call,   \* the macro that runs, and its local variables
  result  \* what the last one returned

vars == <<tree, call, result>>

\* node is the element the call is about; at is where its loop is, and parent
\* the node before that, with at on the given side of it.
Call(stage, node, at, parent, side) ==
  [stage |-> stage, node |-> node, at |-> at, parent |-> parent, side |-> side]

NoCall == Call("none", Nil, Nil, Nil, "left")

Idle == call.stage = "none"

Searches == {"insert", "find", "remove"}

Searching == call.stage \in Searches

Init == tree = EmptyTree /\ call = NoCall /\ result = Nil

Return(n) == call' = NoCall /\ result' = n

\* The loop of RB_INSERT or of RB_FIND starts at the root.
Begin(stage, n) ==
  /\ Idle
  /\ call' = Call(stage, n, tree.root, Nil, "left")
  /\ UNCHANGED <<tree, result>>

\* Only a node that is in no tree is inserted; a sought element may be one.
InsertBegin(n) == n \notin Members(tree) /\ Begin("insert", n)

FindBegin(n) == Begin("find", n)

RemoveBegin(n) == Begin("remove", n)

MinBegin == Begin("min", Nil)

\* cmp sends the search to one side.
SearchOn(answer) ==
  /\ Searching /\ call.at # Nil
  /\ answer \in Answers(call.node, call.at) \ {"equal"}
  /\ call' = [call EXCEPT !.at = tree.kid[call.at][SideTo(answer)],
                          !.parent = call.at, !.side = SideTo(answer)]
  /\ UNCHANGED <<tree, result>>

Found == Searching /\ call.at # Nil /\ "equal" \in Answers(call.node, call.at)

\* RB_INSERT returns the node that is equal, and RB_FIND the one it sought.
ReturnFound ==
  /\ Found /\ call.stage # "remove"
  /\ Return(call.at)
  /\ UNCHANGED tree

\* RB_FIND found nothing; then there is nothing to remove either.
NotFound ==
  /\ call.stage \in {"find", "remove"} /\ call.at = Nil
  /\ Return(Nil)
  /\ UNCHANGED tree

-----------------------------------------------------------------------------
\* RB_INSERT links the node where the search ended.
InsertLink ==
  /\ call.stage = "insert" /\ call.at = Nil
  /\ tree' = Link(tree, call.node, call.parent, call.side)
  /\ call' = Call("insert_color", call.node, call.node, Nil, "left")
  /\ UNCHANGED result

InsertColorOn ==
  /\ call.stage = "insert_color"
  /\ IsRed(tree, tree.parent[call.at])
  /\ tree' = InsertRound(tree, call.at).tree
  /\ call' = [call EXCEPT !.at = InsertRound(tree, call.at).at]
  /\ UNCHANGED result

\* Mutant: the root keeps its colour.
InsertColorEndNoPaint ==
  /\ call.stage = "insert_color"
  /\ ~IsRed(tree, tree.parent[call.at])
  /\ Return(Nil)
  /\ UNCHANGED tree

InsertColorEnd ==
  /\ call.stage = "insert_color"
  /\ ~IsRed(tree, tree.parent[call.at])
  /\ tree' = Paint(tree, tree.root, "black")
  /\ Return(Nil)

-----------------------------------------------------------------------------
\* RB_REMOVE of old with elm spliced out: rebalance if elm was black.
UnlinkAndGoOn(old, elm) ==
  LET u == Unlink(tree, old, elm) IN
  /\ tree' = u.tree
  /\ IF tree.color[elm] = "black"
     THEN call' = Call("remove_color", old, u.at, u.parent, "left") /\ UNCHANGED result
     ELSE Return(old)

\* RB_REMOVE of the node found, if it has at most one kid.
RemoveOuter ==
  /\ Found /\ call.stage = "remove"
  /\ \E s \in Sides : tree.kid[call.at][s] = Nil
  /\ UnlinkAndGoOn(call.at, call.at)

\* If it has two, its successor is looked for.
RemoveInner ==
  /\ Found /\ call.stage = "remove"
  /\ \A s \in Sides : tree.kid[call.at][s] # Nil
  /\ call' = Call("successor", call.at, tree.kid[call.at]["right"], Nil, "left")
  /\ UNCHANGED <<tree, result>>

SuccessorOn ==
  /\ call.stage = "successor"
  /\ tree.kid[call.at]["left"] # Nil
  /\ call' = [call EXCEPT !.at = tree.kid[@]["left"]]
  /\ UNCHANGED <<tree, result>>

SuccessorEnd ==
  /\ call.stage = "successor"
  /\ tree.kid[call.at]["left"] = Nil
  /\ UnlinkAndGoOn(call.node, call.at)

RemoveColorDone == IsRed(tree, call.at) \/ call.at = tree.root

RemoveColorOn ==
  LET round == RemoveRound(tree, call.parent, call.at) IN
  /\ call.stage = "remove_color" /\ ~RemoveColorDone
  /\ tree' = round.tree
  /\ call' = [call EXCEPT !.at = round.at, !.parent = round.parent]
  /\ UNCHANGED result

RemoveColorEnd ==
  /\ call.stage = "remove_color" /\ RemoveColorDone
  /\ tree' = Paint(tree, call.at, "black")
  /\ Return(call.node)

-----------------------------------------------------------------------------
\* Mutant: the loop does not go down.
MinOnStays ==
  /\ call.stage = "min" /\ call.at # Nil
  /\ call' = [call EXCEPT !.parent = call.at]
  /\ UNCHANGED <<tree, result>>

\* The loop of RB_MIN.
MinOn ==
  /\ call.stage = "min" /\ call.at # Nil
  /\ call' = [call EXCEPT !.at = tree.kid[@]["left"], !.parent = call.at]
  /\ UNCHANGED <<tree, result>>

MinEnd ==
  /\ call.stage = "min" /\ call.at = Nil
  /\ Return(call.parent)
  /\ UNCHANGED tree

\* A call that runs takes its next step.
Step ==
  \/ \E answer \in {"below", "above"} : SearchOn(answer)
  \/ ReturnFound \/ NotFound
  \/ InsertLink \/ InsertColorOn \/ InsertColorEnd
  \/ RemoveOuter \/ RemoveInner \/ SuccessorOn \/ SuccessorEnd
  \/ RemoveColorOn \/ RemoveColorEnd
  \/ MinOn \/ MinEnd

Next ==
  \/ \E n \in Nodes : InsertBegin(n) \/ FindBegin(n) \/ RemoveBegin(n)
  \/ MinBegin
  \/ Step

Spec == Init /\ [][Next]_vars

-----------------------------------------------------------------------------
(***************************************************************************)
(* What a well-formed tree is; no code computes this.                      *)
(***************************************************************************)

\* Every kid of a node in S is in S.
Closed(t, S) ==
  \A n \in S : \A s \in Sides : t.kid[n][s] # Nil => t.kid[n][s] \in S

\* Each node with the nodes below it: what all closed sets around it share.
Subtrees(t) ==
  LET closed == {S \in SUBSET Members(t) : Closed(t, S)}
  IN  [n \in Members(t) |-> {m \in Members(t) : \A S \in closed : n \in S => m \in S}]

\* Parents and kids point at each other, a node hangs in one place.
PointersAgree(t) ==
  /\ t.root # Nil => t.parent[t.root] = Nil
  /\ \A n \in Members(t) :
       /\ \A s \in Sides : t.kid[n][s] # Nil => t.parent[t.kid[n][s]] = n
       /\ t.kid[n]["left"] = t.kid[n]["right"] => t.kid[n] = NoKids
       /\ t.parent[n] # Nil => \E s \in Sides : t.kid[t.parent[n]][s] = n

\* Who goes from the root to kids meets every member.
NoneCutOff(t) ==
  \A S \in SUBSET Members(t) :
    (t.root # Nil => t.root \in S) /\ Closed(t, S) => S = Members(t)

\* Every way from the root to a missing kid has as many black nodes.
EvenBlack(t) ==
  LET below == Subtrees(t)
      ends  == {n \in Members(t) : \E s \in Sides : t.kid[n][s] = Nil}
      black == [n \in ends |->
                 Cardinality({m \in Members(t) : n \in below[m] /\ ~IsRed(t, m)})]
  IN  \A m, n \in ends : black[m] = black[n]

NoRedPair(t) == \A n \in Members(t) : IsRed(t, n) => ~IsRed(t, t.parent[n])

-----------------------------------------------------------------------------
Stages == Searches \cup {"none", "insert_color", "successor", "remove_color", "min"}

\* Every variable keeps its type, and the fields of a node outside the tree
\* are those Forget gives it.
TypeOK ==
  /\ tree \in [root : Nodes \cup {Nil}, kid : [Nodes -> [Sides -> Nodes \cup {Nil}]],
               parent : [Nodes -> Nodes \cup {Nil}],
               color : [Nodes -> {"red", "black"}]]
  /\ \A n \in Nodes \ Members(tree) : tree.kid[n] = NoKids /\ tree.color[n] = "red"
  /\ call \in [stage : Stages, node : Nodes \cup {Nil}, at : Nodes \cup {Nil},
               parent : Nodes \cup {Nil}, side : Sides]
  /\ result \in Nodes \cup {Nil}

\* After every round of every loop the links make one tree: parents and kids
\* agree and no node is cut off, whatever the comparisons answer.
WellLinked == PointersAgree(tree) /\ NoneCutOff(tree)

\* Between two calls the tree is a red-black tree: the two recolouring loops
\* leave no red pair and no short way behind.
WellBalanced ==
  Idle => ~IsRed(tree, tree.root) /\ NoRedPair(tree) /\ EvenBlack(tree)
=============================================================================
