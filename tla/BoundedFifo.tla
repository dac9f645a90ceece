---------------------------- MODULE BoundedFifo ----------------------------
(***************************************************************************)
(* What an spsc_queue_t promises its two callers, with no positions, no    *)
(* slots and no steps inside an operation: a queue of at most Bound items  *)
(* from which items leave in the order in which they entered.  An          *)
(* operation that reports "full" or "empty" changes nothing and is a       *)
(* stuttering step here.                                                   *)
(***************************************************************************)
EXTENDS Naturals, Sequences

CONSTANTS
  Items,   \* the pointers the producer may push
  NoItem,  \* nothing has been taken yet
  Bound    \* the most items held at one time

VARIABLES
  queue,   \* the items held, oldest first
  taken    \* the item most recently taken out

fifoVars == <<queue, taken>>

Init ==
  /\ queue = << >>
  /\ taken = NoItem

Put(e) ==
  /\ Len(queue) < Bound
  /\ queue' = Append(queue, e)
  /\ UNCHANGED taken

Take ==
  /\ queue # << >>
  /\ taken' = Head(queue)
  /\ queue' = Tail(queue)

Next == (\E e \in Items : Put(e)) \/ Take

Spec == Init /\ [][Next]_fifoVars
=============================================================================
