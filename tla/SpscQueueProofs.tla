-------------------------- MODULE SpscQueueProofs --------------------------
(***************************************************************************)
(* For every capacity of at least two and every set of items, the ring of  *)
(* SpscQueue keeps its types, never races on a slot, gives answers that    *)
(* stay true, and implements BoundedFifo.                                  *)
(***************************************************************************)
EXTENDS SpscQueue, SequenceTheorems, TLAPS

(***************************************************************************)
(* The inductive invariant.  Going round the ring from what the producer   *)
(* last saw one meets read_seen, read_pos, write_seen, write_pos, in this  *)
(* order and within one lap: every load is old at worst, never wrong.  The *)
(* other parts say what each thread has established inside an operation.   *)
(***************************************************************************)
OrderInv ==
  SizeOf(read_seen, read_pos) + SizeOf(read_pos, write_seen)
    + SizeOf(write_seen, write_pos) <= Capacity - 1

ProducerInv ==
  /\ ppc # "idle" => /\ pitem \in Items
                     /\ Successor(write_pos) # read_seen
                     /\ pknows = Nothing
  /\ ppc = "publish" => records[write_pos] = pitem

ConsumerInv ==
  /\ cpc # "idle" => write_seen # read_pos /\ cknows = Nothing
  /\ cpc = "publish" => citem = records[read_pos]

SlotsInv == \A p \in Positions : Occupied(p) => records[p] \in Items

KnowledgeInv ==
  /\ cknows.op = "size" => cknows.val <= SizeOf(read_pos, write_seen)
  /\ cknows.op = "is_empty" /\ cknows.val = 0 => read_pos # write_seen
  /\ cknows.op = "is_full" /\ cknows.val = 1 => Successor(write_seen) = read_pos
  /\ cknows.op = "peek" => read_pos # write_seen /\ citem = records[read_pos]
  /\ pknows.op = "size" => pknows.val >= SizeOf(read_seen, write_pos)
  /\ pknows.op = "is_empty" /\ pknows.val = 1 => read_seen = write_pos
  /\ pknows.op = "is_full" /\ pknows.val = 0 => Successor(write_pos) # read_seen

IInv ==
  /\ TypeOK
  /\ OrderInv
  /\ ProducerInv
  /\ ConsumerInv
  /\ SlotsInv
  /\ KnowledgeInv

-----------------------------------------------------------------------------
(***************************************************************************)
(* Arithmetic on the ring.                                                 *)
(***************************************************************************)

\* The size formula of spsc_queue_size stays below the capacity, and a
\* position advanced by one is a position.
LEMMA SizeType ==
  ASSUME NEW r \in Positions, NEW w \in Positions
  PROVE  /\ SizeOf(r, w) \in 0 .. Capacity - 1
         /\ SizeOf(r, w) = 0 <=> r = w
         /\ Successor(w) \in Positions
         /\ Successor(w) # w
  BY CapacityAssumption DEF SizeOf, Positions, Successor

\* The full test of push: one slot is always left free.
LEMMA FullSize ==
  ASSUME NEW r \in Positions, NEW w \in Positions
  PROVE  SizeOf(r, w) = Capacity - 1 <=> Successor(w) = r
  BY CapacityAssumption DEF SizeOf, Positions, Successor

\* Storing write_pos in a ring that is not full adds one to the size.
LEMMA SizeAfterPush ==
  ASSUME NEW r \in Positions, NEW w \in Positions, Successor(w) # r
  PROVE  SizeOf(r, Successor(w)) = SizeOf(r, w) + 1
  BY CapacityAssumption DEF SizeOf, Positions, Successor

\* Storing read_pos in a ring that is not empty takes one from the size.
LEMMA SizeAfterPop ==
  ASSUME NEW r \in Positions, NEW w \in Positions, r # w
  PROVE  SizeOf(Successor(r), w) = SizeOf(r, w) - 1
  BY CapacityAssumption DEF SizeOf, Positions, Successor

\* Distances add up as long as they stay within one lap.
LEMMA SizeAdds ==
  ASSUME NEW a \in Positions, NEW b \in Positions, NEW c \in Positions,
         SizeOf(a, b) + SizeOf(b, c) <= Capacity - 1
  PROVE  SizeOf(a, c) = SizeOf(a, b) + SizeOf(b, c)
  BY CapacityAssumption DEF SizeOf, Positions

\* Distances from one position tell positions apart.
LEMMA SizeInjective ==
  ASSUME NEW r \in Positions, NEW p \in Positions, NEW q \in Positions,
         SizeOf(r, p) = SizeOf(r, q)
  PROVE  p = q
  BY CapacityAssumption DEF SizeOf, Positions

\* A position an acquire load may return lies between the two it came from.
LEMMA VisibleBetween ==
  ASSUME NEW a \in Positions, NEW c \in Positions, NEW p \in Visible(a, c)
  PROVE  /\ p \in Positions
         /\ SizeOf(a, p) + SizeOf(p, c) = SizeOf(a, c)
  BY CapacityAssumption DEF Visible, SizeOf, Positions

\* The occupied slots are the ones Contents reads, in order.
LEMMA SlotOccupied ==
  ASSUME NEW r \in Positions, NEW w \in Positions,
         NEW i \in 0 .. SizeOf(r, w) - 1
  PROVE  /\ Slot(r, i) \in Positions
         /\ SizeOf(r, Slot(r, i)) = i
  BY CapacityAssumption DEF Slot, SizeOf, Positions

-----------------------------------------------------------------------------
(***************************************************************************)
(* Type correctness.                                                       *)
(***************************************************************************)

\* The answer of a query is a number of the knowledge type.
LEMMA QueryType ==
  ASSUME NEW op \in QueryOps, NEW r \in Positions, NEW w \in Positions
  PROVE  [op |-> op, val |-> Query(op, r, w)] \in Knowledge
<1>1. Query(op, r, w) \in 0 .. Capacity
  BY SizeType, CapacityAssumption
     DEF Query, QueryOps, IsEmptyOf, IsFullOf
<1> QED BY <1>1 DEF Knowledge

\* spsc_queue_init establishes the types.
LEMMA InitType == Init => TypeOK
  BY CapacityAssumption DEF Init, TypeOK, Positions, Nothing, Knowledge

\* Every step of the two threads keeps the types.
LEMMA TypeStep == TypeOK /\ [Next]_vars => TypeOK'
<1> SUFFICES ASSUME TypeOK, [Next]_vars PROVE TypeOK'
  OBVIOUS
<1> USE DEF TypeOK, shared, producerVars, consumerVars
<1>n. Nothing \in Knowledge
  BY CapacityAssumption DEF Nothing, Knowledge
<1>s. Successor(write_pos) \in Positions /\ Successor(read_pos) \in Positions
  BY SizeType
<1>1. ASSUME NEW e \in Items, PushBegin(e) PROVE TypeOK'
  BY <1>1, <1>n DEF PushBegin, Visible
<1>2. CASE PushFull
  BY <1>2, <1>n DEF PushFull, Visible
<1>3. CASE PushRecord
  BY <1>3 DEF PushRecord
<1>4. CASE PushPublish
  BY <1>4, <1>s DEF PushPublish
<1>5. ASSUME NEW op \in QueryOps, ProducerQuery(op) PROVE TypeOK'
  <2>1. read_seen' \in Positions
    BY <1>5 DEF ProducerQuery, Visible
  <2>2. pknows' \in Knowledge
    BY <1>5, <2>1, QueryType DEF ProducerQuery
  <2> QED BY <1>5, <2>1, <2>2 DEF ProducerQuery
<1>6. ASSUME NEW w \in Positions, PopBegin(w) PROVE TypeOK'
  BY <1>6, <1>n DEF PopBegin
<1>7. CASE PopEmpty
  BY <1>7, <1>n DEF PopEmpty, Visible
<1>8. CASE PopRecord
  BY <1>8 DEF PopRecord
<1>9. CASE PopPublish
  BY <1>9, <1>s DEF PopPublish
<1>10. CASE PeekBegin
  BY <1>10, <1>n DEF PeekBegin, Visible
<1>11. CASE PeekRecord
  <2>1. cknows' \in Knowledge
    BY <1>11, CapacityAssumption DEF PeekRecord, Knowledge
  <2> QED BY <1>11, <2>1 DEF PeekRecord
<1>12. ASSUME NEW op \in QueryOps, ConsumerQuery(op) PROVE TypeOK'
  <2>1. write_seen' \in Positions
    BY <1>12 DEF ConsumerQuery, Visible
  <2>2. cknows' \in Knowledge
    BY <1>12, <2>1, QueryType DEF ConsumerQuery
  <2> QED BY <1>12, <2>1, <2>2 DEF ConsumerQuery
<1>13. CASE UNCHANGED vars
  BY <1>13 DEF vars
<1> QED
  BY <1>1, <1>2, <1>3, <1>4, <1>5, <1>6, <1>7, <1>8, <1>9, <1>10, <1>11,
     <1>12, <1>13 DEF Next, Producer, Consumer

\* The two positions stay inside the ring and every other variable keeps its
\* type, for every capacity.
THEOREM TypeCorrect == Spec => []TypeOK
<1> QED BY InitType, TypeStep, PTL DEF Spec

-----------------------------------------------------------------------------
(***************************************************************************)
(* The invariant.                                                          *)
(***************************************************************************)

\* Initially the ring is empty and both threads know it.
LEMMA IInvInit == Init => IInv
<1> SUFFICES ASSUME Init PROVE IInv
  OBVIOUS
<1>0. 0 \in Positions
  BY CapacityAssumption DEF Positions
<1>1. TypeOK
  BY InitType
<1>2. SizeOf(0, 0) = 0
  BY DEF SizeOf
<1>3. OrderInv
  BY <1>2, CapacityAssumption DEF Init, OrderInv
<1>4. SlotsInv
  BY <1>0, <1>2, SizeType DEF Init, SlotsInv, Occupied, Size
<1> QED
  BY <1>1, <1>3, <1>4
     DEF Init, IInv, ProducerInv, ConsumerInv, KnowledgeInv, Nothing

\* A fresh load of read_pos by the producer moves read_seen forward, never
\* past read_pos.
LEMMA ProducerLoad ==
  ASSUME IInv, read_seen' \in Visible(read_seen, read_pos)
  PROVE  /\ read_seen' \in Positions
         /\ SizeOf(read_seen', read_pos) + SizeOf(read_pos, write_seen)
              + SizeOf(write_seen, write_pos) <= Capacity - 1
         /\ Size <= SizeOf(read_seen', write_pos)
         /\ SizeOf(read_seen', write_pos) <= SizeOf(read_seen, write_pos)
<1> USE DEF IInv, TypeOK, OrderInv
<1>1. /\ read_seen' \in Positions
      /\ SizeOf(read_seen, read_seen') + SizeOf(read_seen', read_pos)
           = SizeOf(read_seen, read_pos)
  BY VisibleBetween
<1>2. /\ SizeOf(read_seen, read_seen') \in Nat
      /\ SizeOf(read_seen', read_pos) \in Nat
      /\ SizeOf(read_seen, read_pos) \in Nat
      /\ SizeOf(read_pos, write_seen) \in Nat
      /\ SizeOf(write_seen, write_pos) \in Nat
      /\ Capacity \in Nat
  BY <1>1, SizeType, CapacityAssumption
<1>3. Size = SizeOf(read_pos, write_seen) + SizeOf(write_seen, write_pos)
  BY <1>2, SizeAdds DEF Size
<1>4. SizeOf(read_seen', write_pos) = SizeOf(read_seen', read_pos) + Size
  BY <1>1, <1>2, <1>3, SizeAdds DEF Size
<1>5. SizeOf(read_seen, write_pos) = SizeOf(read_seen, read_pos) + Size
  BY <1>1, <1>2, <1>3, SizeAdds DEF Size
<1> QED BY <1>1, <1>2, <1>3, <1>4, <1>5

\* A fresh load of write_pos by the consumer moves write_seen forward, never
\* past write_pos.
LEMMA ConsumerLoad ==
  ASSUME IInv, NEW w \in Visible(write_seen, write_pos)
  PROVE  /\ w \in Positions
         /\ SizeOf(read_seen, read_pos) + SizeOf(read_pos, w)
              + SizeOf(w, write_pos) <= Capacity - 1
         /\ SizeOf(read_pos, w) <= Size
         /\ SizeOf(read_pos, write_seen) <= SizeOf(read_pos, w)
<1> USE DEF IInv, TypeOK, OrderInv
<1>1. /\ w \in Positions
      /\ SizeOf(write_seen, w) + SizeOf(w, write_pos)
           = SizeOf(write_seen, write_pos)
  BY VisibleBetween
<1>2. /\ SizeOf(write_seen, w) \in Nat
      /\ SizeOf(w, write_pos) \in Nat
      /\ SizeOf(read_seen, read_pos) \in Nat
      /\ SizeOf(read_pos, write_seen) \in Nat
      /\ SizeOf(write_seen, write_pos) \in Nat
      /\ Capacity \in Nat
  BY <1>1, SizeType, CapacityAssumption
<1>3. Size = SizeOf(read_pos, write_seen) + SizeOf(write_seen, write_pos)
  BY <1>2, SizeAdds DEF Size
<1>4. SizeOf(read_pos, w) = SizeOf(read_pos, write_seen) + SizeOf(write_seen, w)
  BY <1>1, <1>2, SizeAdds
<1> QED BY <1>1, <1>2, <1>3, <1>4

\* What the invariant says of sizes: the true size lies between the
\* consumer's view and the producer's view.
LEMMA SizeBetweenViews ==
  ASSUME IInv
  PROVE  /\ SizeOf(read_pos, write_seen) <= Size
         /\ Size <= SizeOf(read_seen, write_pos)
         /\ Size \in 0 .. Capacity - 1
<1> USE DEF IInv, TypeOK, OrderInv
<1>2. /\ SizeOf(read_seen, read_pos) \in Nat
      /\ SizeOf(read_pos, write_seen) \in Nat
      /\ SizeOf(write_seen, write_pos) \in Nat
      /\ Capacity \in Nat
  BY SizeType, CapacityAssumption
<1>3. Size = SizeOf(read_pos, write_seen) + SizeOf(write_seen, write_pos)
  BY <1>2, SizeAdds DEF Size
<1>4. SizeOf(read_seen, write_pos) = SizeOf(read_seen, read_pos) + Size
  BY <1>2, <1>3, SizeAdds DEF Size
<1>5. Size \in 0 .. Capacity - 1
  BY SizeType DEF Size
<1> QED BY <1>2, <1>3, <1>4, <1>5

\* The producer's loads keep the invariant: a push that goes on, one that
\* reports full, and the three queries.
LEMMA ProducerLoadStep ==
  ASSUME IInv,
         \/ \E e \in Items : PushBegin(e)
         \/ PushFull
         \/ \E op \in QueryOps : ProducerQuery(op)
  PROVE  IInv'
<1> USE DEF IInv, shared, producerVars, consumerVars
<1>0. TypeOK'
  BY TypeStep DEF Next, Producer
<1>1. /\ read_seen' \in Visible(read_seen, read_pos)
      /\ UNCHANGED <<records, read_pos, write_pos>>
      /\ UNCHANGED <<write_seen, cpc, citem, popped, cknows>>
  BY DEF PushBegin, PushFull, ProducerQuery
<1>2. OrderInv'
  BY <1>1, ProducerLoad DEF OrderInv
<1>3. ConsumerInv'
  BY <1>1 DEF ConsumerInv
<1>4. SlotsInv'
  BY <1>1 DEF SlotsInv, Occupied, Size
<1>5. CASE \E e \in Items : PushBegin(e)
  <2>1. ProducerInv'
    BY <1>5, <1>1 DEF ProducerInv, PushBegin
  <2>2. KnowledgeInv'
    BY <1>5, <1>1 DEF KnowledgeInv, PushBegin, Nothing
  <2> QED BY <1>0, <1>2, <1>3, <1>4, <2>1, <2>2
<1>6. CASE PushFull
  <2>1. ProducerInv'
    BY <1>6, <1>1 DEF ProducerInv, PushFull
  <2>2. KnowledgeInv'
    BY <1>6, <1>1 DEF KnowledgeInv, PushFull, Nothing
  <2> QED BY <1>0, <1>2, <1>3, <1>4, <2>1, <2>2
<1>7. ASSUME NEW op \in QueryOps, ProducerQuery(op) PROVE IInv'
  <2>1. ProducerInv'
    BY <1>7, <1>1 DEF ProducerInv, ProducerQuery
  <2>2. /\ pknows'.op = op
        /\ pknows'.val = Query(op, read_seen', write_pos)
    BY <1>7 DEF ProducerQuery
  <2>3. KnowledgeInv'
    BY <1>1, <2>2, <1>0, SizeType
       DEF KnowledgeInv, Query, QueryOps, IsEmptyOf, IsFullOf, TypeOK
  <2> QED BY <1>0, <1>2, <1>3, <1>4, <2>1, <2>3
<1> QED BY <1>5, <1>6, <1>7

\* The consumer's loads keep the invariant: a pop or a peek that goes on, one
\* that reports empty, and the three queries.
LEMMA ConsumerLoadStep ==
  ASSUME IInv,
         \/ \E w \in Positions : PopBegin(w)
         \/ PopEmpty
         \/ PeekBegin
         \/ \E op \in QueryOps : ConsumerQuery(op)
  PROVE  IInv'
<1> USE DEF IInv, shared, producerVars, consumerVars
<1>0. TypeOK'
  BY TypeStep DEF Next, Consumer
<1>1. /\ write_seen' \in Visible(write_seen, write_pos)
      /\ UNCHANGED <<records, read_pos, write_pos>>
      /\ UNCHANGED <<read_seen, ppc, pitem, pknows, citem, popped>>
      /\ cpc' # "publish"
  BY DEF PopBegin, PopEmpty, PeekBegin, ConsumerQuery
<1>2. OrderInv'
  BY <1>1, ConsumerLoad DEF OrderInv
<1>3. ProducerInv'
  BY <1>1 DEF ProducerInv
<1>4. SlotsInv'
  BY <1>1 DEF SlotsInv, Occupied, Size
<1>5. ASSUME NEW w \in Positions, PopBegin(w) PROVE IInv'
  <2>1. ConsumerInv'
    BY <1>5, <1>1 DEF ConsumerInv, PopBegin
  <2>2. KnowledgeInv'
    BY <1>5, <1>1 DEF KnowledgeInv, PopBegin, Nothing
  <2> QED BY <1>0, <1>2, <1>3, <1>4, <2>1, <2>2
<1>6. CASE PopEmpty \/ PeekBegin
  <2>1. ConsumerInv'
    BY <1>6, <1>1 DEF ConsumerInv, PopEmpty, PeekBegin
  <2>2. KnowledgeInv'
    BY <1>6, <1>1 DEF KnowledgeInv, PopEmpty, PeekBegin, Nothing
  <2> QED BY <1>0, <1>2, <1>3, <1>4, <2>1, <2>2
<1>7. ASSUME NEW op \in QueryOps, ConsumerQuery(op) PROVE IInv'
  <2>1. ConsumerInv'
    BY <1>7, <1>1 DEF ConsumerInv, ConsumerQuery
  <2>2. /\ cknows'.op = op
        /\ cknows'.val = Query(op, read_pos, write_seen')
    BY <1>7 DEF ConsumerQuery
  <2>3. KnowledgeInv'
    BY <1>1, <2>2, <1>0, SizeType
       DEF KnowledgeInv, Query, QueryOps, IsEmptyOf, IsFullOf, TypeOK
  <2> QED BY <1>0, <1>2, <1>3, <1>4, <2>1, <2>3
<1> QED BY <1>5, <1>6, <1>7

\* While the consumer is inside a pop or a peek that goes on, or knows the ring
\* is not empty, the slot the producer fills is not the one at read_pos.
LEMMA WriteSlotApart ==
  ASSUME IInv, read_pos # write_seen
  PROVE  write_pos # read_pos /\ Size > 0
<1>1. SizeOf(read_pos, write_seen) \in Nat /\ SizeOf(read_pos, write_seen) # 0
  BY SizeType DEF IInv, TypeOK
<1>2. Size > 0
  BY <1>1, SizeBetweenViews
<1> QED BY <1>2, SizeType DEF Size, IInv, TypeOK

\* Storing the item in the slot at write_pos leaves every occupied slot alone.
LEMMA PushRecordStep == ASSUME IInv, PushRecord PROVE IInv'
<1> USE DEF IInv, PushRecord, shared, producerVars, consumerVars
<1>0. TypeOK'
  BY TypeStep DEF Next, Producer
<1>1. records'[write_pos] = pitem
  BY DEF TypeOK
<1>2. \A p \in Positions : p # write_pos => records'[p] = records[p]
  BY DEF TypeOK
<1>3. read_pos # write_seen => records'[read_pos] = records[read_pos]
  BY <1>2, WriteSlotApart DEF TypeOK
<1>4. OrderInv'
  BY DEF OrderInv
<1>5. ProducerInv'
  BY <1>1 DEF ProducerInv
<1>6. ConsumerInv'
  BY <1>3 DEF ConsumerInv
<1>7. SlotsInv'
  <2> SUFFICES ASSUME NEW p \in Positions, Occupied(p)
               PROVE  records'[p] \in Items
    BY DEF SlotsInv, Occupied, Size
  <2>1. p # write_pos
    BY SizeType DEF Occupied, Size, TypeOK
  <2> QED BY <1>2, <2>1 DEF SlotsInv
<1>8. KnowledgeInv'
  BY <1>3 DEF KnowledgeInv
<1> QED BY <1>0, <1>4, <1>5, <1>6, <1>7, <1>8

\* What storing write_pos does to the distances: there was room, since the
\* producer saw room and the consumer only makes more.
LEMMA PublishRoom ==
  ASSUME IInv, ppc = "publish"
  PROVE  /\ SizeOf(read_seen, write_pos) < Capacity - 1
         /\ SizeOf(write_seen, Successor(write_pos))
              = SizeOf(write_seen, write_pos) + 1
         /\ SizeOf(read_pos, Successor(write_pos)) = Size + 1
<1> USE DEF IInv, TypeOK, OrderInv
<1>1. /\ SizeOf(read_seen, read_pos) \in 0 .. Capacity - 1
      /\ SizeOf(read_pos, write_seen) \in 0 .. Capacity - 1
      /\ SizeOf(write_seen, write_pos) \in 0 .. Capacity - 1
      /\ SizeOf(read_seen, write_pos) \in 0 .. Capacity - 1
      /\ Size \in 0 .. Capacity - 1
      /\ Capacity \in Nat
  BY SizeType, CapacityAssumption DEF Size
<1>2. SizeOf(read_seen, write_pos) # Capacity - 1
  BY FullSize DEF ProducerInv
<1>3. Size = SizeOf(read_pos, write_seen) + SizeOf(write_seen, write_pos)
  BY <1>1, SizeAdds DEF Size
<1>4. SizeOf(read_seen, write_pos) = SizeOf(read_seen, read_pos) + Size
  BY <1>1, <1>3, SizeAdds DEF Size
<1>5. /\ SizeOf(write_seen, write_pos) # Capacity - 1
      /\ SizeOf(read_pos, write_pos) # Capacity - 1
  BY <1>1, <1>2, <1>3, <1>4 DEF Size
<1>6. Successor(write_pos) # write_seen /\ Successor(write_pos) # read_pos
  BY <1>5, FullSize
<1>7. /\ SizeOf(write_seen, Successor(write_pos))
           = SizeOf(write_seen, write_pos) + 1
      /\ SizeOf(read_pos, Successor(write_pos)) = Size + 1
  BY <1>6, SizeAfterPush DEF Size
<1> QED BY <1>1, <1>2, <1>7

\* Storing write_pos adds one occupied slot, the one that was just filled.
LEMMA PushPublishStep == ASSUME IInv, PushPublish PROVE IInv'
<1> USE DEF IInv, PushPublish, shared, producerVars, consumerVars
<1>0. TypeOK'
  BY TypeStep DEF Next, Producer
<1>1. /\ SizeOf(read_seen, read_pos) \in Nat
      /\ SizeOf(read_pos, write_seen) \in Nat
      /\ SizeOf(write_seen, write_pos) \in Nat
      /\ Size \in Nat /\ Capacity \in Nat
  BY SizeType, CapacityAssumption DEF TypeOK, Size
<1>2. OrderInv'
  <2>1. SizeOf(read_seen, write_pos)
          = SizeOf(read_seen, read_pos) + SizeOf(read_pos, write_seen)
              + SizeOf(write_seen, write_pos)
    <3>1. Size = SizeOf(read_pos, write_seen) + SizeOf(write_seen, write_pos)
      BY <1>1, SizeAdds DEF Size, TypeOK, OrderInv
    <3>2. SizeOf(read_seen, write_pos) = SizeOf(read_seen, read_pos) + Size
      BY <1>1, <3>1, SizeAdds DEF Size, TypeOK, OrderInv
    <3> QED BY <1>1, <3>1, <3>2
  <2> QED BY <1>1, <2>1, PublishRoom DEF OrderInv
<1>3. ProducerInv'
  BY DEF ProducerInv
<1>4. ConsumerInv'
  BY DEF ConsumerInv
<1>5. SlotsInv'
  <2> SUFFICES ASSUME NEW p \in Positions, Occupied(p)'
               PROVE  records[p] \in Items
    BY DEF SlotsInv
  <2>1. SizeOf(read_pos, p) <= Size /\ SizeOf(read_pos, p) \in Nat
    BY <1>1, PublishRoom, SizeType DEF Occupied, Size, TypeOK
  <2>2. CASE SizeOf(read_pos, p) = Size
    BY <2>2, SizeInjective DEF Size, TypeOK, ProducerInv
  <2>3. CASE SizeOf(read_pos, p) < Size
    BY <2>3 DEF SlotsInv, Occupied
  <2> QED BY <1>1, <2>1, <2>2, <2>3
<1>6. KnowledgeInv'
  BY DEF KnowledgeInv, ProducerInv, Nothing
<1> QED BY <1>0, <1>2, <1>3, <1>4, <1>5, <1>6

\* Reading the slot changes nothing shared.
LEMMA PopRecordStep == ASSUME IInv, PopRecord PROVE IInv'
<1> USE DEF IInv, PopRecord, shared, producerVars, consumerVars
<1>0. TypeOK'
  BY TypeStep DEF Next, Consumer
<1> QED
  BY <1>0 DEF OrderInv, ProducerInv, ConsumerInv, SlotsInv, Occupied, Size,
              KnowledgeInv, Nothing

\* Peeking changes nothing shared and leaves the consumer knowing the head.
LEMMA PeekRecordStep == ASSUME IInv, PeekRecord PROVE IInv'
<1> USE DEF IInv, PeekRecord, shared, producerVars, consumerVars
<1>0. TypeOK'
  BY TypeStep DEF Next, Consumer
<1> QED
  BY <1>0 DEF OrderInv, ProducerInv, ConsumerInv, SlotsInv, Occupied, Size,
              KnowledgeInv

\* Storing read_pos frees one slot, the oldest, and no other.
LEMMA PopPublishStep == ASSUME IInv, PopPublish PROVE IInv'
<1> USE DEF IInv, PopPublish, shared, producerVars, consumerVars
<1>0. TypeOK'
  BY TypeStep DEF Next, Consumer
<1>1. /\ SizeOf(read_seen, read_pos) \in 0 .. Capacity - 1
      /\ SizeOf(read_pos, write_seen) \in 0 .. Capacity - 1
      /\ SizeOf(write_seen, write_pos) \in 0 .. Capacity - 1
      /\ Size \in 0 .. Capacity - 1 /\ Capacity \in Nat
  BY SizeType, CapacityAssumption DEF TypeOK, Size
<1>2. read_pos # write_seen /\ SizeOf(read_pos, write_seen) # 0
  BY SizeType DEF ConsumerInv, TypeOK
<1>3. /\ SizeOf(Successor(read_pos), write_seen)
           = SizeOf(read_pos, write_seen) - 1
      /\ SizeOf(Successor(read_pos), write_pos) = Size - 1
  BY <1>2, WriteSlotApart, SizeAfterPop DEF TypeOK, Size
<1>4. Successor(read_pos) # read_seen
  BY <1>1, <1>2, FullSize DEF TypeOK, OrderInv
<1>5. SizeOf(read_seen, Successor(read_pos)) = SizeOf(read_seen, read_pos) + 1
  BY <1>4, SizeAfterPush DEF TypeOK
<1>6. OrderInv'
  BY <1>1, <1>3, <1>5 DEF OrderInv
<1>7. ProducerInv'
  BY DEF ProducerInv
<1>8. ConsumerInv'
  BY DEF ConsumerInv
<1>9. SlotsInv'
  <2> SUFFICES ASSUME NEW p \in Positions, Occupied(p)'
               PROVE  records[p] \in Items
    BY DEF SlotsInv
  <2>1. SizeOf(Successor(read_pos), p) < Size - 1
    BY <1>3 DEF Occupied, Size
  <2>2. p # read_pos
    BY <2>1, <1>1, SizeType, FullSize DEF TypeOK
  <2>3. SizeOf(Successor(read_pos), p) = SizeOf(read_pos, p) - 1
    BY <2>2, SizeAfterPop DEF TypeOK
  <2>4. SizeOf(read_pos, p) \in Nat
    BY SizeType DEF TypeOK
  <2>5. Occupied(p)
    BY <2>1, <2>3, <2>4, <1>1 DEF Occupied
  <2> QED BY <2>5 DEF SlotsInv
<1>10. KnowledgeInv'
  BY DEF KnowledgeInv, ConsumerInv, Nothing
<1> QED BY <1>0, <1>6, <1>7, <1>8, <1>9, <1>10

\* A step that changes no variable keeps the invariant.
LEMMA StutterStep == ASSUME IInv, UNCHANGED vars PROVE IInv'
<1> USE DEF vars, shared, producerVars, consumerVars
<1>1. TypeOK'
  BY DEF IInv, TypeOK
<1> QED
  BY <1>1 DEF IInv, OrderInv, ProducerInv, ConsumerInv, SlotsInv, Occupied,
              Size, KnowledgeInv

\* Every step of the two threads keeps the invariant.
LEMMA IInvStep == IInv /\ [Next]_vars => IInv'
<1> SUFFICES ASSUME IInv, [Next]_vars PROVE IInv'
  OBVIOUS
<1>1. CASE Producer
  BY <1>1, ProducerLoadStep, PushRecordStep, PushPublishStep DEF Producer
<1>2. CASE Consumer
  BY <1>2, ConsumerLoadStep, PopRecordStep, PeekRecordStep, PopPublishStep
     DEF Consumer
<1>3. CASE UNCHANGED vars
  BY <1>3, StutterStep
<1> QED BY <1>1, <1>2, <1>3 DEF Next

\* The invariant holds in every reachable state.
THEOREM Invariance == Spec => []IInv
<1> QED BY IInvInit, IInvStep, PTL DEF Spec

-----------------------------------------------------------------------------
(***************************************************************************)
(* Safety.                                                                 *)
(***************************************************************************)

\* The plain store of push and the plain loads of pop and peek never meet on
\* one slot, for every capacity and however old the loaded positions are.
THEOREM SlotsNeverRace == Spec => []NoSlotRace
<1>1. IInv => NoSlotRace
  BY WriteSlotApart DEF IInv, ConsumerInv, NoSlotRace
<1> QED BY <1>1, Invariance, PTL

\* The answers of is_empty, is_full, size and peek stay true, each on its
\* side, until the thread that asked calls again.
THEOREM AnswersNeverLapse == Spec => []AnswersStayTrue
<1>1. ASSUME IInv PROVE AnswersStayTrue
  <2> USE DEF TypeOK
  <2>1. /\ SizeOf(read_pos, write_seen) <= Size
        /\ Size <= SizeOf(read_seen, write_pos)
        /\ Size \in 0 .. Capacity - 1
        /\ SizeOf(read_pos, write_seen) \in 0 .. Capacity - 1
        /\ SizeOf(read_seen, write_pos) \in 0 .. Capacity - 1
    BY <1>1, SizeBetweenViews, SizeType DEF IInv
  <2>2. /\ KnowledgeInv
        /\ cknows.val \in Int /\ pknows.val \in Int /\ Capacity \in Nat
    BY <1>1, CapacityAssumption DEF IInv, Knowledge
  <2>3. read_pos # write_seen => Size > 0
    BY <1>1, WriteSlotApart
  <2>4. Successor(write_seen) = read_pos => Size = Capacity - 1
    BY <1>1, <2>1, FullSize, CapacityAssumption DEF IInv
  <2>5. read_seen = write_pos => Size = 0
    BY <1>1, <2>1, SizeType DEF IInv
  <2>6. Successor(write_pos) # read_seen => Size < Capacity - 1
    BY <1>1, <2>1, FullSize, CapacityAssumption DEF IInv
  <2> QED BY <2>1, <2>2, <2>3, <2>4, <2>5, <2>6 DEF AnswersStayTrue, KnowledgeInv
<1> QED BY <1>1, Invariance, PTL

\* A pop after "not empty" never reports empty, a push after "not full" never
\* reports full: a later load never shows less than an earlier one did.
THEOREM AnswersAreHonoured == Spec => AnswersCanBeActedOn
<1>1. ASSUME IInv PROVE HonoursAnswers
  <2> USE <1>1 DEF IInv, TypeOK
  <2>1. ASSUME \/ cknows.op = "is_empty" /\ cknows.val = 0
               \/ cknows.op = "size" /\ cknows.val > 0
               \/ cknows.op = "peek",
               PopEmpty
        PROVE  FALSE
    <3>1. SizeOf(read_pos, write_seen) \in Nat /\ cknows.val \in Int
      BY SizeType DEF Knowledge
    <3>2. SizeOf(read_pos, write_seen) > 0
      BY <2>1, <3>1, SizeType DEF KnowledgeInv
    <3>3. SizeOf(read_pos, write_seen) <= SizeOf(read_pos, write_seen')
      BY <2>1, ConsumerLoad DEF PopEmpty
    <3>4. SizeOf(read_pos, write_seen') = 0
      BY <2>1, SizeType DEF PopEmpty, Visible
    <3> QED BY <3>1, <3>2, <3>3, <3>4
  <2>2. ASSUME \/ pknows.op = "is_full" /\ pknows.val = 0
               \/ pknows.op = "size" /\ pknows.val < Capacity - 1,
               PushFull
        PROVE  FALSE
    <3>1. /\ SizeOf(read_seen, write_pos) \in 0 .. Capacity - 1
          /\ pknows.val \in Int /\ Capacity \in Nat
      BY SizeType, CapacityAssumption DEF Knowledge
    <3>2. SizeOf(read_seen, write_pos) < Capacity - 1
      BY <2>2, <3>1, FullSize DEF KnowledgeInv
    <3>3. SizeOf(read_seen', write_pos) <= SizeOf(read_seen, write_pos)
      BY <2>2, ProducerLoad DEF PushFull
    <3>4. SizeOf(read_seen', write_pos) = Capacity - 1
      BY <2>2, FullSize DEF PushFull, Visible
    <3> QED BY <3>1, <3>2, <3>3, <3>4
  <2> QED BY <2>1, <2>2 DEF HonoursAnswers
<1> QED BY <1>1, Invariance, PTL DEF AnswersCanBeActedOn

-----------------------------------------------------------------------------
(***************************************************************************)
(* The ring implements the bounded FIFO.                                   *)
(***************************************************************************)

\* One step further round the ring.
LEMMA SlotShift ==
  ASSUME NEW r \in Positions, NEW w \in Positions
  PROVE  /\ Slot(r, 0) = r
         /\ Slot(r, SizeOf(r, w)) = w
         /\ \A i \in 0 .. Capacity - 2 : Slot(Successor(r), i) = Slot(r, i + 1)
  BY CapacityAssumption DEF Slot, SizeOf, Successor, Positions

\* A function on 1 .. n is a sequence of length n.
LEMMA FunctionIsSeq ==
  ASSUME NEW n \in Nat, NEW S, NEW f \in [1 .. n -> S]
  PROVE  f \in Seq(S) /\ Len(f) = n
  OBVIOUS

\* The abstract queue is a sequence of Size items.
LEMMA ContentsType ==
  IInv => Contents \in Seq(Items) /\ Len(Contents) = Size
<1> SUFFICES ASSUME IInv PROVE Contents \in Seq(Items) /\ Len(Contents) = Size
  OBVIOUS
<1>1. Size \in 0 .. Capacity - 1 /\ Capacity \in Nat
  BY SizeBetweenViews, CapacityAssumption
<1>2. ASSUME NEW i \in 1 .. Size
      PROVE  records[Slot(read_pos, i - 1)] \in Items
  <2>1. i - 1 \in 0 .. Size - 1
    BY <1>1
  <2>2. /\ Slot(read_pos, i - 1) \in Positions
        /\ SizeOf(read_pos, Slot(read_pos, i - 1)) = i - 1
    BY <2>1, SlotOccupied DEF Size, IInv, TypeOK
  <2> QED BY <1>1, <2>1, <2>2 DEF IInv, SlotsInv, Occupied
<1>3. Contents \in [1 .. Size -> Items]
  BY <1>2 DEF Contents
<1> QED BY <1>1, <1>3, FunctionIsSeq DEF Contents

\* The same, in the state after a step.
LEMMA ContentsTypeNext ==
  (IInv => Contents \in Seq(Items) /\ Len(Contents) = Size)'
BY ContentsType, PTL

\* A step that leaves the positions and the occupied slots alone leaves the
\* abstract queue alone.
LEMMA ContentsUnchanged ==
  ASSUME IInv, UNCHANGED <<read_pos, write_pos>>,
         \A p \in Positions : p # write_pos => records'[p] = records[p]
  PROVE  Contents' = Contents
<1>1. Size' = Size /\ Size \in Nat
  BY SizeBetweenViews DEF Size
<1>2. ASSUME NEW i \in 1 .. Size
      PROVE  records'[Slot(read_pos, i - 1)] = records[Slot(read_pos, i - 1)]
  <2>1. i - 1 \in 0 .. Size - 1
    BY <1>1
  <2>2. /\ Slot(read_pos, i - 1) \in Positions
        /\ SizeOf(read_pos, Slot(read_pos, i - 1)) = i - 1
    BY <2>1, SlotOccupied DEF Size, IInv, TypeOK
  <2>3. Slot(read_pos, i - 1) # write_pos
    BY <1>1, <2>1, <2>2 DEF Size
  <2> QED BY <2>2, <2>3
<1> QED BY <1>1, <1>2 DEF Contents

\* Storing write_pos is Put of the item being pushed.
LEMMA PublishIsPut ==
  ASSUME IInv, PushPublish
  PROVE  Fifo!Put(pitem) /\ pitem \in Items
<1> USE DEF PushPublish, consumerVars
<1>0. IInv' /\ pitem \in Items
  BY PushPublishStep DEF IInv, ProducerInv
<1>1. Size' = Size + 1 /\ Size \in Nat /\ Size < Capacity - 1 /\ Capacity \in Nat
  <2>1. SizeOf(read_pos, write_pos) <= SizeOf(read_seen, write_pos)
    BY SizeBetweenViews DEF Size
  <2> QED
    BY <2>1, PublishRoom, SizeBetweenViews, SizeType, CapacityAssumption
       DEF Size, IInv, TypeOK
<1>2. /\ Contents \in Seq(Items) /\ Len(Contents) = Size
      /\ Contents' \in Seq(Items) /\ Len(Contents') = Size + 1
  BY <1>0, <1>1, ContentsType, ContentsTypeNext
<1>3. \A i \in 1 .. Size : Contents'[i] = Contents[i]
  BY <1>1 DEF Contents
<1>4. Contents'[Size + 1] = pitem
  <2>1. Contents'[Size + 1] = records[Slot(read_pos, Size)]
    BY <1>1 DEF Contents
  <2> QED BY <2>1, SlotShift DEF Size, IInv, TypeOK, ProducerInv
<1>5. Contents' = Append(Contents, pitem)
  <2> DEFINE appended == Append(Contents, pitem)
  <2>1. /\ appended \in Seq(Items)
        /\ Len(appended) = Size + 1
        /\ \A i \in 1 .. Size : appended[i] = Contents[i]
        /\ appended[Size + 1] = pitem
    BY <1>0, <1>2, AppendProperties
  <2>2. \A i \in 1 .. Len(Contents') : Contents'[i] = appended[i]
    BY <1>1, <1>2, <1>3, <1>4, <2>1
  <2> HIDE DEF appended
  <2>3. Contents' = appended
    BY <1>2, <2>1, <2>2, SeqEqual
  <2> QED BY <2>3 DEF appended
<1> QED BY <1>0, <1>1, <1>2, <1>5 DEF Fifo!Put

\* Storing read_pos is Take of the oldest item.
LEMMA PublishIsTake == ASSUME IInv, PopPublish PROVE Fifo!Take
<1> USE DEF PopPublish
<1>0. IInv'
  BY PopPublishStep
<1>1. /\ read_pos # write_seen /\ citem = records[read_pos]
      /\ Size > 0 /\ Size \in Nat /\ Size <= Capacity - 1 /\ Capacity \in Nat
  BY WriteSlotApart, SizeBetweenViews, CapacityAssumption DEF IInv, ConsumerInv
<1>2. Size' = Size - 1
  BY <1>1, WriteSlotApart, SizeAfterPop DEF Size, IInv, TypeOK
<1>3. /\ Contents \in Seq(Items) /\ Len(Contents) = Size
      /\ Contents' \in Seq(Items) /\ Len(Contents') = Size - 1
  BY <1>0, <1>2, ContentsType, ContentsTypeNext
<1>4. Contents # << >>
  BY <1>1, <1>3
<1>5. Head(Contents) = citem
  <2>1. Contents[1] = records[Slot(read_pos, 0)]
    BY <1>1 DEF Contents
  <2> QED BY <1>1, <1>3, <1>4, <2>1, SlotShift DEF IInv, TypeOK
<1>6. Contents' = Tail(Contents)
  <2>1. /\ Tail(Contents) \in Seq(Items)
        /\ Len(Tail(Contents)) = Size - 1
        /\ \A i \in 1 .. Size - 1 : Tail(Contents)[i] = Contents[i + 1]
    BY <1>3, <1>4, HeadTailProperties
  <2>2. ASSUME NEW i \in 1 .. Size - 1
        PROVE  Contents'[i] = Tail(Contents)[i]
    <3>1. Contents'[i] = records[Slot(Successor(read_pos), i - 1)]
      BY <1>1, <1>2 DEF Contents
    <3>2. Contents[i + 1] = records[Slot(read_pos, i)]
      BY <1>1 DEF Contents
    <3>3. i - 1 \in 0 .. Capacity - 2
      BY <1>1
    <3>4. Slot(Successor(read_pos), i - 1) = Slot(read_pos, (i - 1) + 1)
      BY <3>3, SlotShift DEF IInv, TypeOK
    <3> QED BY <2>1, <3>1, <3>2, <3>4
  <2> QED BY <1>3, <2>1, <2>2, SeqEqual
<1> QED BY <1>4, <1>5, <1>6 DEF Fifo!Take

\* Every other step is a stutter of the FIFO.
LEMMA OtherIsStutter ==
  ASSUME IInv, [Next]_vars, ~PushPublish, ~PopPublish
  PROVE  UNCHANGED <<Contents, popped>>
<1> USE DEF shared, producerVars, consumerVars
<1>1. UNCHANGED <<read_pos, write_pos, popped>>
  BY DEF Next, Producer, Consumer, PushBegin, PushFull, PushRecord,
         ProducerQuery, PopBegin, PopEmpty, PopRecord, PeekBegin, PeekRecord,
         ConsumerQuery, vars
<1>2. \A p \in Positions : p # write_pos => records'[p] = records[p]
  BY DEF Next, Producer, Consumer, PushBegin, PushFull, PushRecord,
         ProducerQuery, PopBegin, PopEmpty, PopRecord, PeekBegin, PeekRecord,
         ConsumerQuery, vars, IInv, TypeOK
<1> QED BY <1>1, <1>2, ContentsUnchanged

\* The ring, at the granularity of its atomic accesses and with stale loads,
\* implements the bounded FIFO of Capacity - 1 items.
THEOREM Refinement == Spec => ImplementsFifo
<1>1. Init => Fifo!Init
  <2> SUFFICES ASSUME Init PROVE Fifo!Init
    OBVIOUS
  <2>1. IInv
    BY IInvInit
  <2>2. Size = 0
    BY DEF Init, Size, SizeOf
  <2>3. Contents = << >>
    BY <2>1, <2>2, ContentsType, EmptySeq
  <2> QED BY <2>3 DEF Init, Fifo!Init
<1>2. IInv /\ [Next]_vars => [Fifo!Next]_<<Contents, popped>>
  <2> SUFFICES ASSUME IInv, [Next]_vars
               PROVE  Fifo!Next \/ UNCHANGED <<Contents, popped>>
    OBVIOUS
  <2>1. CASE PushPublish
    BY <2>1, PublishIsPut DEF Fifo!Next
  <2>2. CASE PopPublish
    BY <2>2, PublishIsTake DEF Fifo!Next
  <2>3. CASE ~PushPublish /\ ~PopPublish
    BY <2>3, OtherIsStutter
  <2> QED BY <2>1, <2>2, <2>3
<1> QED
  BY <1>1, <1>2, Invariance, PTL
     DEF Spec, ImplementsFifo, Fifo!Spec, Fifo!fifoVars
=============================================================================
