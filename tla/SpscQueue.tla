----------------------------- MODULE SpscQueue -----------------------------
(***************************************************************************)
(* The lock-free single-producer single-consumer ring of spsc_queue.c, at  *)
(* the granularity of its atomic accesses.                                 *)
(*                                                                         *)
(* Each thread owns one position and reads the other thread's.  Its own    *)
(* position it reads exactly; the acquire load of the other one may return *)
(* an old value: any position at or after the one that thread obtained     *)
(* before (coherence), up to the one last stored.  A record slot is plain  *)
(* memory: the release store that publishes a position makes the slot      *)
(* accesses before it visible, so a slot read is the slot's content as     *)
(* long as the two threads never touch one slot without such an edge       *)
(* between them, which is what NoSlotRace states.                          *)
(*                                                                         *)
(* currentWrite and currentRead of the code are copies of the thread's own *)
(* position, which nobody else stores, so they need no variable.           *)
(***************************************************************************)
EXTENDS Integers, Sequences

CONSTANTS
  Capacity,  \* slots in the ring, the size given to spsc_queue_init
  Items,     \* the pointers that are pushed
  NoItem     \* the content of a slot of fresh malloc memory

ASSUME CapacityAssumption == Capacity \in Nat /\ Capacity >= 2
ASSUME NoItemAssumption == NoItem \notin Items

VARIABLES
  records,     \* the slots
  read_pos,    \* stored by the consumer only
  write_pos,   \* stored by the producer only
  read_seen,   \* read_pos as the producer last loaded it
  write_seen,  \* write_pos as the consumer last loaded it
  ppc, pitem,  \* the producer: where it is, what it is pushing
  cpc, citem,  \* the consumer: where it is, what it read from a slot
  popped,      \* the item the last successful pop returned
  pknows,      \* the producer's last query, its answer still in use
  cknows       \* the consumer's last query, its answer still in use

shared == <<records, read_pos, write_pos>>
producerVars == <<read_seen, ppc, pitem, pknows>>
consumerVars == <<write_seen, cpc, citem, popped, cknows>>
vars == <<shared, producerVars, consumerVars>>

Positions == 0 .. Capacity - 1

Nothing == [op |-> "none", val |-> 0]

(***************************************************************************)
(* Arithmetic on the ring.                                                 *)
(***************************************************************************)

\* Mutant: the wrap to slot 0 is forgotten.
SuccessorNoWrap(p) == p + 1

Successor(p) == IF p + 1 = Capacity THEN 0 ELSE p + 1

\* Mutant: a negative difference is left as it is.
SizeOfNoWrap(r, w) == IF w >= r THEN w - r ELSE r - w

SizeOf(r, w) == IF w >= r THEN w - r ELSE w - r + Capacity

IsEmptyOf(r, w) == IF r = w THEN 1 ELSE 0

\* Mutant: the slot after the writer's is not looked at.
IsFullNoNext(r, w) == IF w = r THEN 1 ELSE 0

IsFullOf(r, w) == IF Successor(w) = r THEN 1 ELSE 0

\* The slot i places after p, for i below Capacity.
Slot(p, i) == IF p + i >= Capacity THEN p + i - Capacity ELSE p + i

(***************************************************************************)
(* The positions an acquire load may return to a thread that last saw      *)
(* "seen" when the owner's last store was "current".                       *)
(***************************************************************************)
Visible(seen, current) ==
  {p \in Positions : SizeOf(seen, p) <= SizeOf(seen, current)}

-----------------------------------------------------------------------------
Init ==
  /\ records = [p \in Positions |-> NoItem]
  /\ read_pos = 0 /\ write_pos = 0
  /\ read_seen = 0 /\ write_seen = 0
  /\ ppc = "idle" /\ pitem = NoItem
  /\ cpc = "idle" /\ citem = NoItem
  /\ popped = NoItem
  /\ pknows = Nothing /\ cknows = Nothing

(***************************************************************************)
(* spsc_queue_push: load read_pos, store the slot, store write_pos.        *)
(***************************************************************************)
\* Mutant: the load is not compared, a full ring takes one more.
PushBeginUnchecked(e) ==
  /\ ppc = "idle"
  /\ read_seen' \in Visible(read_seen, read_pos)
  /\ ppc' = "record" /\ pitem' = e /\ pknows' = Nothing
  /\ UNCHANGED <<shared, consumerVars>>

PushBegin(e) ==
  /\ ppc = "idle"
  /\ read_seen' \in Visible(read_seen, read_pos)
  /\ Successor(write_pos) # read_seen'
  /\ ppc' = "record" /\ pitem' = e /\ pknows' = Nothing
  /\ UNCHANGED <<shared, consumerVars>>

PushFull ==
  /\ ppc = "idle"
  /\ read_seen' \in Visible(read_seen, read_pos)
  /\ Successor(write_pos) = read_seen'
  /\ pknows' = Nothing
  /\ UNCHANGED <<shared, ppc, pitem, consumerVars>>

\* Mutant: the item goes to the slot after the one that is published.
PushRecordNextSlot ==
  /\ ppc = "record"
  /\ records' = [records EXCEPT ![Successor(write_pos)] = pitem]
  /\ ppc' = "publish"
  /\ UNCHANGED <<read_pos, write_pos, read_seen, pitem, pknows, consumerVars>>

PushRecord ==
  /\ ppc = "record"
  /\ records' = [records EXCEPT ![write_pos] = pitem]
  /\ ppc' = "publish"
  /\ UNCHANGED <<read_pos, write_pos, read_seen, pitem, pknows, consumerVars>>

PushPublish ==
  /\ ppc = "publish"
  /\ write_pos' = Successor(write_pos)
  /\ ppc' = "idle"
  /\ UNCHANGED <<records, read_pos, read_seen, pitem, pknows, consumerVars>>

(***************************************************************************)
(* spsc_queue_pop: load write_pos, read the slot, store read_pos.          *)
(***************************************************************************)
PopBegin(w) ==
  /\ cpc = "idle"
  /\ w \in Visible(write_seen, write_pos)
  /\ write_seen' = w
  /\ read_pos # w
  /\ cpc' = "record" /\ cknows' = Nothing
  /\ UNCHANGED <<shared, producerVars, citem, popped>>

PopEmpty ==
  /\ cpc = "idle"
  /\ write_seen' \in Visible(write_seen, write_pos)
  /\ read_pos = write_seen'
  /\ cknows' = Nothing
  /\ UNCHANGED <<shared, producerVars, cpc, citem, popped>>

PopRecord ==
  /\ cpc = "record"
  /\ citem' = records[read_pos]
  /\ cpc' = "publish"
  /\ UNCHANGED <<shared, producerVars, write_seen, popped, cknows>>

\* Mutant: read_pos is not stored, as peek leaves it.
PopPublishNoStore ==
  /\ cpc = "publish"
  /\ popped' = citem
  /\ cpc' = "idle"
  /\ UNCHANGED <<shared, producerVars, write_seen, citem, cknows>>

PopPublish ==
  /\ cpc = "publish"
  /\ read_pos' = Successor(read_pos)
  /\ popped' = citem
  /\ cpc' = "idle"
  /\ UNCHANGED <<records, write_pos, producerVars, write_seen, citem, cknows>>

(***************************************************************************)
(* spsc_queue_peek, by the consumer: the load, then the slot.              *)
(***************************************************************************)
PeekBegin ==
  /\ cpc = "idle"
  /\ write_seen' \in Visible(write_seen, write_pos)
  /\ cknows' = Nothing
  /\ cpc' = IF read_pos = write_seen' THEN "idle" ELSE "peek"
  /\ UNCHANGED <<shared, producerVars, citem, popped>>

PeekRecord ==
  /\ cpc = "peek"
  /\ citem' = records[read_pos]
  /\ cknows' = [op |-> "peek", val |-> 1]
  /\ cpc' = "idle"
  /\ UNCHANGED <<shared, producerVars, write_seen, popped>>

(***************************************************************************)
(* spsc_queue_is_empty, _is_full and _size read both positions and change  *)
(* nothing but what the caller knows.  The caller's own load is exact.     *)
(***************************************************************************)
Query(op, r, w) ==
  IF op = "is_empty" THEN IsEmptyOf(r, w)
  ELSE IF op = "is_full" THEN IsFullOf(r, w) ELSE SizeOf(r, w)

QueryOps == {"is_empty", "is_full", "size"}

ProducerQuery(op) ==
  /\ ppc = "idle"
  /\ read_seen' \in Visible(read_seen, read_pos)
  /\ pknows' = [op |-> op, val |-> Query(op, read_seen', write_pos)]
  /\ UNCHANGED <<shared, ppc, pitem, consumerVars>>

ConsumerQuery(op) ==
  /\ cpc = "idle"
  /\ write_seen' \in Visible(write_seen, write_pos)
  /\ cknows' = [op |-> op, val |-> Query(op, read_pos, write_seen')]
  /\ UNCHANGED <<shared, producerVars, cpc, citem, popped>>

-----------------------------------------------------------------------------
Producer ==
  \/ \E e \in Items : PushBegin(e)
  \/ PushFull \/ PushRecord \/ PushPublish
  \/ \E op \in QueryOps : ProducerQuery(op)

Consumer ==
  \/ \E w \in Positions : PopBegin(w)
  \/ PopEmpty \/ PopRecord \/ PopPublish
  \/ PeekBegin \/ PeekRecord
  \/ \E op \in QueryOps : ConsumerQuery(op)

Next == Producer \/ Consumer

Spec == Init /\ [][Next]_vars

(***************************************************************************)
(* Both threads run on once they are inside an operation, the consumer     *)
(* polls for ever, as the loop thread does, and a stored position becomes  *)
(* visible in the end: infinitely often a pop that could load the latest   *)
(* write_pos does.                                                         *)
(***************************************************************************)
Fairness ==
  /\ WF_vars(PushRecord) /\ WF_vars(PushPublish)
  /\ WF_vars(PopRecord) /\ WF_vars(PopPublish) /\ WF_vars(PeekRecord)
  /\ SF_vars(PopBegin(write_pos))

LiveSpec == Spec /\ Fairness

-----------------------------------------------------------------------------
Size == SizeOf(read_pos, write_pos)

Contents == [i \in 1 .. Size |-> records[Slot(read_pos, i - 1)]]

Knowledge == [op : {"none", "peek"} \cup QueryOps, val : 0 .. Capacity]

\* Every variable keeps its type: the two positions of spsc_queue_t stay
\* inside the ring through every wrap.
TypeOK ==
  /\ records \in [Positions -> Items \cup {NoItem}]
  /\ read_pos \in Positions /\ write_pos \in Positions
  /\ read_seen \in Positions /\ write_seen \in Positions
  /\ ppc \in {"idle", "record", "publish"}
  /\ cpc \in {"idle", "record", "publish", "peek"}
  /\ pitem \in Items \cup {NoItem}
  /\ citem \in Items \cup {NoItem}
  /\ popped \in Items \cup {NoItem}
  /\ pknows \in Knowledge /\ cknows \in Knowledge

\* The producer never stores into the slot the consumer is reading: the two
\* plain accesses of push (records[currentWrite] = e) and of pop and peek
\* (records[currentRead]) are never both under way on one slot.
NoSlotRace ==
  ~ (ppc = "record" /\ cpc \in {"record", "peek"} /\ write_pos = read_pos)

\* What a query told the consumer stays true until the consumer's own next
\* operation, however far the producer runs meanwhile: a size is a lower
\* bound (cymo_queue.h: "true size may be more"), "not empty" stays so, a
\* peeked item stays the head.  For the producer, the other way round.
AnswersStayTrue ==
  /\ cknows.op = "size" => cknows.val <= Size
  /\ cknows.op = "is_empty" /\ cknows.val = 0 => Size > 0
  /\ cknows.op = "is_full" /\ cknows.val = 1 => Size = Capacity - 1
  /\ cknows.op = "peek" => Size > 0 /\ citem = records[read_pos]
  /\ pknows.op = "size" => pknows.val >= Size
  /\ pknows.op = "is_empty" /\ pknows.val = 1 => Size = 0
  /\ pknows.op = "is_full" /\ pknows.val = 0 => Size < Capacity - 1

\* In a step after an answer that promises an item, or room, the thread that
\* was told so is not turned away.
HonoursAnswers ==
  /\ \/ cknows.op = "is_empty" /\ cknows.val = 0
     \/ cknows.op = "size" /\ cknows.val > 0
     \/ cknows.op = "peek"
    => ~PopEmpty
  /\ \/ pknows.op = "is_full" /\ pknows.val = 0
     \/ pknows.op = "size" /\ pknows.val < Capacity - 1
    => ~PushFull

\* A pop after the consumer saw "not empty" (or peeked an item) cannot report
\* empty, and a push after the producer saw "not full" cannot report full,
\* although each call loads the other thread's position again: this is what
\* event_pipe_is_empty followed by event_pipe_read relies on.
AnswersCanBeActedOn == [][HonoursAnswers]_vars

\* The ring is a bounded FIFO of Capacity - 1 items: nothing is lost, made up,
\* delivered twice or out of order, an item entering when write_pos is stored
\* and leaving when read_pos is.
Fifo == INSTANCE BoundedFifo
          WITH Bound <- Capacity - 1, queue <- Contents, taken <- popped

ImplementsFifo == Fifo!Spec

Occupied(p) == SizeOf(read_pos, p) < Size

\* Every item that was published is popped in the end.
EveryItemLeaves == \A p \in Positions : Occupied(p) ~> ~Occupied(p)
=============================================================================
