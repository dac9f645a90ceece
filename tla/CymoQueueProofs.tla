--------------------------- MODULE CymoQueueProofs ---------------------------
(***************************************************************************)
(* What CymoQueue.tla promises, for every set of events and every size of  *)
(* the ring.                                                               *)
(*                                                                         *)
(* The count of an event stays the number of pointers somebody answers for *)
(* because each step that moves one starts from one its thread holds.  A   *)
(* freed queue stays quiet because a free follows the producer's closing   *)
(* event or its stop, after either of which it begins no push.             *)
(***************************************************************************)
EXTENDS CymoQueue, FiniteSetTheorems, TLAPS

\* The event that is being pushed is the caller's, who has not closed yet.
ProducerHolds ==
  ppc = "push" => /\ pitem \in Events /\ mine[pitem] > 0
                  /\ producing = "yes"

\* The event the consumer is about to drop is its own, and still counted.
ConsumerHolds ==
  /\ cpc \in {"closing", "clear_unref", "clearing_unref"} =>
       citem \in Events /\ theirs[citem] > dropped[citem]
  /\ cpc = "closing" => citem \in Closing

\* The look at q->loop follows a test that answered "empty", and belongs to the
\* closing event when that is in.
WakeOfTheLast ==
  /\ ppc = "wake" => was_empty /\ (producing = "closed" => pitem \in Closing)
  /\ producing = "stopped" => ppc = "idle"

\* From the push of a closing event on, and while the queue is freed, the
\* producer begins nothing.
EndIsQuiet ==
  /\ (\E i \in DOMAIN queue : queue[i] \in Closing) => producing # "yes"
  /\ cpc \in {"closing", "clear", "clear_unref"} => producing # "yes"
  /\ life = "freed" => producing # "yes" /\ queue = << >>

IInv ==
  /\ TypeOK
  /\ RefsAreHolders
  /\ ProducerHolds
  /\ ConsumerHolds
  /\ WakesForTheFirst
  /\ WakeOfTheLast
  /\ EndIsQuiet

-----------------------------------------------------------------------------
(***************************************************************************)
(* Counting in a sequence.                                                 *)
(***************************************************************************)
Places(s, e) == {i \in DOMAIN s : s[i] = e}

LEMMA PlacesFinite ==
  ASSUME NEW S, NEW s \in Seq(S), NEW e
  PROVE  IsFiniteSet(Places(s, e)) /\ Cardinality(Places(s, e)) \in Nat
<1>1. Places(s, e) \subseteq 1 .. Len(s) /\ Len(s) \in Nat
  BY DEF Places
<1>2. IsFiniteSet(1 .. Len(s))
  BY <1>1, FS_Interval
<1> QED BY <1>1, <1>2, FS_Subset, FS_CardinalityType

\* One place more for the event that is appended, and for no other.
LEMMA PlacesOfAppend ==
  ASSUME NEW S, NEW s \in Seq(S), NEW x \in S, NEW e
  PROVE  Cardinality(Places(Append(s, x), e)) =
           Cardinality(Places(s, e)) + (IF x = e THEN 1 ELSE 0)
<1> DEFINE n == Len(s) + 1
<1>1. n \notin Places(s, e)
  BY DEF Places
<1>2. CASE x = e
  <2>1. Places(Append(s, x), e) = Places(s, e) \cup {n}
    BY <1>2 DEF Places
  <2> QED BY <1>1, <1>2, <2>1, PlacesFinite, FS_AddElement
<1>3. CASE x # e
  <2>1. Places(Append(s, x), e) = Places(s, e)
    BY <1>3 DEF Places
  <2> QED BY <1>3, <2>1, PlacesFinite
<1> QED BY <1>2, <1>3

LEMMA OneLess ==
  ASSUME NEW S, IsFiniteSet(S), Cardinality(S) \in Nat, NEW x
  PROVE  Cardinality(S \ {x}) = Cardinality(S) - (IF x \in S THEN 1 ELSE 0)
  BY FS_RemoveElement

\* One place less for the event at the head, and for no other.
LEMMA PlacesOfTail ==
  ASSUME NEW S, NEW s \in Seq(S), s # << >>, NEW e
  PROVE  Cardinality(Places(Tail(s), e)) =
           Cardinality(Places(s, e)) - (IF Head(s) = e THEN 1 ELSE 0)
<1> DEFINE A == Places(s, e) \ {1}
           B == Places(Tail(s), e)
           f == [i \in B |-> i + 1]
<1>1. /\ Len(s) \in Nat /\ Len(s) >= 1 /\ DOMAIN s = 1 .. Len(s)
      /\ Tail(s) \in Seq(S) /\ Len(Tail(s)) = Len(s) - 1
      /\ \A i \in 1 .. Len(s) - 1 : Tail(s)[i] = s[i + 1]
      /\ Head(s) = s[1]
  OBVIOUS
<1>2. B = {i \in 1 .. Len(s) - 1 : s[i + 1] = e}
  BY <1>1 DEF Places
<1>3. A = {i \in 2 .. Len(s) : s[i] = e}
  BY <1>1 DEF Places
<1>4. f \in Bijection(B, A)
  <2>1. f \in [B -> A]
    BY <1>1, <1>2, <1>3
  <2>2. \A i, j \in B : f[i] = f[j] => i = j
    BY <1>2
  <2>3. \A j \in A : \E i \in B : f[i] = j
    <3> TAKE j \in A
    <3>1. j - 1 \in B /\ f[j - 1] = j
      BY <1>1, <1>2, <1>3
    <3> QED BY <3>1
  <2> QED BY <2>1, <2>2, <2>3 DEF Bijection, Injection, Surjection, IsInjective
<1>5. /\ IsFiniteSet(Places(s, e)) /\ Cardinality(Places(s, e)) \in Nat
      /\ IsFiniteSet(B)
  BY <1>1, PlacesFinite
<1>6. Cardinality(A) = Cardinality(B)
  <2> HIDE DEF A, B, f
  <2>1. ExistsBijection(B, A)
    BY <1>4 DEF ExistsBijection
  <2> QED BY <1>5, <2>1, FS_Bijection
<1>7. Cardinality(A) =
        Cardinality(Places(s, e)) - (IF 1 \in Places(s, e) THEN 1 ELSE 0)
  BY <1>5, OneLess
<1>8. 1 \in Places(s, e) <=> Head(s) = e
  BY <1>1 DEF Places
<1> QED BY <1>6, <1>7, <1>8

(***************************************************************************)
(* What these say of the ring.                                             *)
(***************************************************************************)
LEMMA QueuedIsNat == TypeOK => \A e : Queued(e) \in Nat
<1>1. \A e : Queued(e) = Cardinality(Places(queue, e))
  BY DEF Queued, Places
<1> QED BY <1>1, PlacesFinite DEF TypeOK

LEMMA QueuedAfterPush ==
  ASSUME TypeOK, NEW x \in Events, queue' = Append(queue, x)
  PROVE  \A e : Queued(e)' = Queued(e) + (IF x = e THEN 1 ELSE 0)
<1>1. \A e : /\ Queued(e) = Cardinality(Places(queue, e))
             /\ Queued(e)' = Cardinality(Places(queue', e))
  BY DEF Queued, Places
<1>2. queue \in Seq(Events)
  BY DEF TypeOK
<1>3. \A e : Cardinality(Places(Append(queue, x), e)) =
               Cardinality(Places(queue, e)) + (IF x = e THEN 1 ELSE 0)
  BY <1>2, PlacesOfAppend
<1> QED BY <1>1, <1>3

LEMMA QueuedAfterPop ==
  ASSUME TypeOK, queue # << >>, queue' = Tail(queue)
  PROVE  \A e : Queued(e)' = Queued(e) - (IF Head(queue) = e THEN 1 ELSE 0)
<1>1. \A e : /\ Queued(e) = Cardinality(Places(queue, e))
             /\ Queued(e)' = Cardinality(Places(queue', e))
  BY DEF Queued, Places
<1>2. queue \in Seq(Events)
  BY DEF TypeOK
<1>3. \A e : Cardinality(Places(Tail(queue), e)) =
               Cardinality(Places(queue, e)) - (IF Head(queue) = e THEN 1 ELSE 0)
  BY <1>2, PlacesOfTail
<1> QED BY <1>1, <1>3

LEMMA QueuedStays == UNCHANGED queue => \A e : Queued(e)' = Queued(e)
  BY DEF Queued

\* A pointer somebody answers for keeps the count above zero.
LEMMA HeldIsCounted ==
  ASSUME TypeOK, RefsAreHolders, NEW e \in Events,
         mine[e] > 0 \/ theirs[e] > dropped[e]
  PROVE  ref[e] > 0
<1>1. /\ ref[e] \in Nat /\ mine[e] \in Nat /\ theirs[e] \in Nat
      /\ dropped[e] \in Nat /\ Queued(e) \in Nat
  BY QueuedIsNat DEF TypeOK
<1>2. ref[e] = mine[e] + (theirs[e] - dropped[e]) + Queued(e)
  BY DEF RefsAreHolders
<1>3. dropped[e] <= theirs[e]
  BY <1>1 DEF RefsAreHolders
<1> QED BY <1>1, <1>2, <1>3

-----------------------------------------------------------------------------
LEMMA IInvInit == Init => IInv
<1> SUFFICES ASSUME Init PROVE IInv
  OBVIOUS
<1>1. \A e : Queued(e) = 0
  <2>1. \A e : {i \in DOMAIN queue : queue[i] = e} = {}
    BY DEF Init
  <2> QED BY <2>1, FS_EmptySet DEF Queued
<1>2. TypeOK
  <2>1. queue \in Seq(Events) /\ Len(queue) = 0
    BY DEF Init
  <2>2. Len(queue) + unseen <= Size - 1
    BY <2>1, SizeAssumption DEF Init
  <2> QED BY <2>1, <2>2 DEF Init, TypeOK
<1>3. RefsAreHolders
  BY <1>1 DEF Init, RefsAreHolders
<1> QED
  BY <1>2, <1>3
     DEF Init, IInv, ProducerHolds, ConsumerHolds, WakesForTheFirst,
         WakeOfTheLast, EndIsQuiet

(***************************************************************************)
(* The steps that leave the ring alone: one count and one set of pointers  *)
(* move together.                                                          *)
(***************************************************************************)
LEMMA PointerStep ==
  ASSUME IInv, UNCHANGED queue, NEW e \in Events,
         \/ /\ ref' = Plus(ref, e) /\ mine' = Plus(mine, e)
            /\ UNCHANGED <<theirs, dropped>>
         \/ /\ ref' = Minus(ref, e) /\ mine' = Minus(mine, e) /\ mine[e] > 0
            /\ UNCHANGED <<theirs, dropped>>
         \/ /\ ref' = Minus(ref, e) /\ theirs' = Minus(theirs, e)
            /\ theirs[e] > dropped[e]
            /\ UNCHANGED <<mine, dropped>>
         \/ /\ ref' = Minus(ref, e) /\ dropped' = Plus(dropped, e)
            /\ theirs[e] > dropped[e] /\ e \in Closing
            /\ UNCHANGED <<mine, theirs>>
         \/ /\ theirs' = Minus(theirs, e) /\ dropped' = Minus(dropped, e)
            /\ dropped[e] > 0
            /\ UNCHANGED <<ref, mine>>
  PROVE  /\ ref' \in [Events -> Nat] /\ mine' \in [Events -> Nat]
         /\ theirs' \in [Events -> Nat] /\ dropped' \in [Events -> Nat]
         /\ RefsAreHolders'
<1>1. \A x : Queued(x) \in Nat /\ Queued(x)' = Queued(x)
  <2>1. \A x : Queued(x)' = Queued(x)
    BY QueuedStays
  <2> QED BY <2>1, QueuedIsNat DEF IInv
<1>2. mine[e] > 0 \/ theirs[e] > dropped[e] => ref[e] > 0
  BY HeldIsCounted DEF IInv
<1>3. /\ ref \in [Events -> Nat] /\ mine \in [Events -> Nat]
      /\ theirs \in [Events -> Nat] /\ dropped \in [Events -> Nat]
  BY DEF IInv, TypeOK
<1>4. \A x \in Events :
        /\ ref[x] = mine[x] + (theirs[x] - dropped[x]) + Queued(x)
        /\ dropped[x] <= IF x \in Closing THEN theirs[x] ELSE 0
  BY DEF IInv, RefsAreHolders
<1>5. \A f \in [Events -> Nat] :
        /\ Plus(f, e) \in [Events -> Nat]
        /\ f[e] > 0 => Minus(f, e) \in [Events -> Nat]
  BY DEF Plus, Minus
<1>6. theirs[e] > dropped[e] \/ dropped[e] > 0 => theirs[e] > 0
  BY <1>3, <1>4
<1>7. /\ ref' \in [Events -> Nat] /\ mine' \in [Events -> Nat]
      /\ theirs' \in [Events -> Nat] /\ dropped' \in [Events -> Nat]
  BY <1>2, <1>3, <1>5, <1>6
<1>8. RefsAreHolders'
  <2> SUFFICES ASSUME NEW x \in Events
               PROVE  /\ ref'[x] = mine'[x] + (theirs'[x] - dropped'[x])
                                   + Queued(x)'
                      /\ dropped'[x] <= IF x \in Closing THEN theirs'[x]
                                        ELSE 0
    BY DEF RefsAreHolders
  <2>1. /\ ref[x] = mine[x] + (theirs[x] - dropped[x]) + Queued(x)
        /\ dropped[x] <= IF x \in Closing THEN theirs[x] ELSE 0
    BY <1>4
  <2>2. CASE x # e
    <3>1. /\ ref'[x] = ref[x] /\ mine'[x] = mine[x]
          /\ theirs'[x] = theirs[x] /\ dropped'[x] = dropped[x]
      BY <1>3, <2>2 DEF Plus, Minus
    <3> QED BY <1>1, <2>1, <3>1
  <2>3. CASE x = e
    BY <1>1, <1>3, <2>1, <2>3 DEF Plus, Minus
  <2> QED BY <2>2, <2>3
<1> QED BY <1>7, <1>8

\* A step that moves no pointer.
LEMMA NoPointerStep ==
  ASSUME IInv, UNCHANGED <<queue, ref, mine, theirs, dropped>>
  PROVE  RefsAreHolders'
<1>1. \A x : Queued(x)' = Queued(x)
  BY QueuedStays
<1> QED BY <1>1 DEF IInv, RefsAreHolders

\* The pushed event's pointer goes into the ring.
LEMMA PushRingStep == ASSUME IInv, PushRing PROVE IInv'
<1> USE DEF IInv, PushRing
<1>1. /\ pitem \in Events /\ mine[pitem] > 0 /\ producing = "yes"
      /\ queue' = Append(queue, pitem)
  BY DEF ProducerHolds
<1>2. TypeOK'
  <2>1. /\ queue' \in Seq(Events) /\ Len(queue') = Len(queue) + 1
    BY <1>1 DEF TypeOK
  <2>2. unseen' \in Nat /\ Len(queue) + unseen' < Size - 1
    BY DEF TypeOK, Views
  <2>3. mine' \in [Events -> Nat]
    BY <1>1 DEF TypeOK, Minus
  <2>4. Len(queue') + unseen' <= Size - 1
    <3>1. Len(queue) \in Nat
      BY DEF TypeOK
    <3> QED BY <3>1, <2>1, <2>2, SizeAssumption
  <2>5. /\ ppc' \in {"wake", "idle"} /\ producing' \in {"closed", "yes"}
        /\ UNCHANGED <<life, ref, theirs, dropped, pitem, was_empty, cpc,
                       citem>>
    BY <1>1 DEF consumerVars
  <2> HIDE DEF IInv, PushRing
  <2>6. TypeOK
    BY DEF IInv
  <2> QED BY <2>1, <2>2, <2>3, <2>4, <2>5, <2>6 DEF TypeOK
<1>3. RefsAreHolders'
  <2>1. \A x : /\ Queued(x) \in Nat
               /\ Queued(x)' = Queued(x) + (IF pitem = x THEN 1 ELSE 0)
    <3> HIDE DEF PushRing
    <3> QED BY <1>1, QueuedIsNat, QueuedAfterPush
  <2> SUFFICES ASSUME NEW x \in Events
               PROVE  /\ ref'[x] = mine'[x] + (theirs'[x] - dropped'[x])
                                   + Queued(x)'
                      /\ dropped'[x] <= IF x \in Closing THEN theirs'[x]
                                        ELSE 0
    BY DEF RefsAreHolders
  <2>2. /\ ref[x] = mine[x] + (theirs[x] - dropped[x]) + Queued(x)
        /\ dropped[x] <= IF x \in Closing THEN theirs[x] ELSE 0
    BY DEF RefsAreHolders
  <2>3. /\ theirs' = theirs /\ dropped' = dropped /\ ref' = ref
        /\ mine'[x] = mine[x] - (IF pitem = x THEN 1 ELSE 0)
    BY <1>1 DEF TypeOK, Minus, consumerVars
  <2>4. /\ ref[x] \in Nat /\ mine[x] \in Nat /\ theirs[x] \in Nat
        /\ dropped[x] \in Nat
    BY DEF TypeOK
  <2> HIDE DEF IInv, PushRing
  <2> QED BY <2>1, <2>2, <2>3, <2>4
<1>4. EndIsQuiet'
  <2>1. \A i \in DOMAIN queue' :
          (i \in DOMAIN queue /\ queue'[i] = queue[i]) \/ queue'[i] = pitem
    <3>1. queue \in Seq(Events)
      BY DEF TypeOK
    <3> HIDE DEF IInv, PushRing
    <3> QED BY <1>1, <3>1
  <2>2. /\ \A i \in DOMAIN queue : queue[i] \notin Closing
        /\ cpc \notin {"closing", "clear", "clear_unref"} /\ life # "freed"
    BY <1>1 DEF EndIsQuiet
  <2>3. /\ pitem \in Closing => producing' = "closed"
        /\ UNCHANGED <<cpc, life>>
    BY DEF consumerVars
  <2> HIDE DEF IInv, PushRing
  <2> QED BY <2>1, <2>2, <2>3 DEF EndIsQuiet
<1>5. ConsumerHolds'
  BY DEF ConsumerHolds, consumerVars
<1>6. ProducerHolds' /\ WakesForTheFirst'
  BY DEF ProducerHolds, WakesForTheFirst
<1>7. WakeOfTheLast'
  BY <1>1 DEF WakeOfTheLast
<1> QED BY <1>2, <1>3, <1>4, <1>5, <1>6, <1>7

(***************************************************************************)
(* The producer's other steps.                                             *)
(***************************************************************************)
LEMMA ProducerStep == ASSUME IInv, Producer PROVE IInv'
<1> DEFINE Rest == /\ ProducerHolds /\ ConsumerHolds /\ WakesForTheFirst
                   /\ WakeOfTheLast /\ EndIsQuiet
<1> USE DEF ProducerHolds, ConsumerHolds, WakesForTheFirst, WakeOfTheLast,
            EndIsQuiet, queueVars, producerVars, consumerVars
<1>1. ASSUME NEW e \in Events, EventNew(e) \/ EventRef(e) PROVE IInv'
  <2>1. /\ ref' = Plus(ref, e) /\ mine' = Plus(mine, e)
        /\ UNCHANGED <<queueVars, theirs, producerVars, consumerVars>>
        /\ ppc = "idle"
    BY <1>1 DEF EventNew, EventRef
  <2>2. RefsAreHolders' /\ TypeOK'
    BY <2>1, PointerStep DEF IInv, TypeOK
  <2>3. Rest'
    BY <2>1 DEF IInv
  <2> QED BY <2>2, <2>3 DEF IInv
<1>2. ASSUME NEW e \in Events, EventUnref(e) PROVE IInv'
  <2>1. RefsAreHolders' /\ TypeOK'
    BY <1>2, PointerStep DEF IInv, TypeOK, EventUnref
  <2>2. Rest'
    BY <1>2 DEF IInv, EventUnref
  <2> QED BY <2>1, <2>2 DEF IInv
<1>3. ASSUME NEW e \in Events, PushTest(e) PROVE IInv'
  <2>1. PICK v \in Views : was_empty' = (v.length = 0) /\ unseen' = v.unseen
    BY <1>3 DEF PushTest
  <2>2. PICK k \in 0 .. unseen : v = [length |-> Len(queue) + k, unseen |-> k]
    BY DEF Views
  <2>3. k \in Nat /\ k <= unseen /\ unseen' = k
        /\ was_empty' = (Len(queue) + k = 0)
    BY <2>1, <2>2 DEF IInv, TypeOK
  <2>4. TypeOK'
    <3>1. was_empty' \in BOOLEAN
      BY <2>3
    <3>2. Len(queue) \in Nat /\ Len(queue) + unseen' <= Size - 1
      BY <2>3, SizeAssumption DEF IInv, TypeOK
    <3> QED BY <1>3, <2>3, <3>1, <3>2 DEF IInv, TypeOK, PushTest
  <2>5. RefsAreHolders'
    BY <1>3, NoPointerStep DEF PushTest
  <2>6. WakesForTheFirst'
    <3>1. queue \in Seq(Events) /\ queue' = queue
      BY <1>3 DEF IInv, TypeOK, PushTest
    <3>2. Len(queue) \in Nat /\ (Len(queue) = 0 => queue = << >>)
      BY <3>1
    <3>3. was_empty' => Len(queue) + k = 0
      BY <2>3, Zenon
    <3>4. Len(queue) + k = 0 => Len(queue) = 0 /\ unseen' = 0
      BY <2>3, <3>2
    <3> QED BY <3>1, <3>2, <3>3, <3>4
  <2>7. ProducerHolds' /\ ConsumerHolds' /\ WakeOfTheLast' /\ EndIsQuiet'
    BY <1>3 DEF IInv, PushTest
  <2> QED BY <2>4, <2>5, <2>6, <2>7 DEF IInv
<1>4. CASE PushRing
  BY <1>4, PushRingStep
<1>5. CASE PushFull
  <2>1. unseen' \in Nat /\ unseen' <= unseen
    <3>1. PICK v \in Views : unseen' = v.unseen
      BY <1>5 DEF PushFull
    <3>2. PICK k \in 0 .. unseen :
            v = [length |-> Len(queue) + k, unseen |-> k]
      BY DEF Views
    <3>3. unseen \in Nat
      BY DEF IInv, TypeOK
    <3> QED BY <3>1, <3>2, <3>3
  <2>2. TypeOK'
    <3>1. Len(queue) \in Nat /\ Len(queue) + unseen' <= Size - 1
      BY <2>1, SizeAssumption DEF IInv, TypeOK
    <3>2. /\ ppc' = "idle"
          /\ UNCHANGED <<life, queue, ref, mine, theirs, pitem, was_empty,
                         producing, consumerVars>>
      BY <1>5 DEF PushFull
    <3>3. TypeOK
      BY DEF IInv
    <3> QED BY <2>1, <3>1, <3>2, <3>3 DEF TypeOK
  <2>3. RefsAreHolders'
    BY <1>5, NoPointerStep DEF PushFull
  <2>4. Rest'
    BY <1>5 DEF IInv, PushFull
  <2> QED BY <2>2, <2>3, <2>4 DEF IInv
<1>6. CASE PushWake \/ Stop
  <2>1. TypeOK'
    BY <1>6 DEF IInv, TypeOK, PushWake, Stop
  <2>2. RefsAreHolders'
    BY <1>6, NoPointerStep DEF PushWake, Stop
  <2>3. Rest'
    BY <1>6 DEF IInv, PushWake, Stop
  <2> QED BY <2>1, <2>2, <2>3 DEF IInv
<1> QED BY <1>1, <1>2, <1>3, <1>4, <1>5, <1>6 DEF Producer

(***************************************************************************)
(* The consumer's steps: a pop moves the oldest pointer from the ring to   *)
(* the consumer.                                                           *)
(***************************************************************************)
LEMMA TakenStep ==
  ASSUME IInv, Taken, UNCHANGED <<life, ref, mine, dropped, producerVars>>,
         cpc' \in {"idle", "closing", "clear_unref", "clearing_unref"},
         cpc' \in {"closing", "clear_unref"} => producing # "yes",
         cpc' = "closing" => Head(queue) \in Closing
  PROVE  IInv'
<1>1. /\ queue \in Seq(Events) /\ queue # << >> /\ Head(queue) \in Events
      /\ queue' = Tail(queue) /\ queue' \in Seq(Events)
      /\ Len(queue') = Len(queue) - 1
      /\ \A i \in DOMAIN queue' : i + 1 \in DOMAIN queue /\ queue'[i] = queue[i + 1]
  BY DEF IInv, TypeOK, Taken
<1>2. TypeOK'
  <2>1. unseen' = unseen + 1 /\ unseen \in Nat /\ Len(queue) \in Nat
        /\ Len(queue) + unseen <= Size - 1
    BY <1>1 DEF IInv, TypeOK, Taken
  <2>2. Len(queue') + unseen' <= Size - 1 /\ unseen' \in Nat
    BY <1>1, <2>1, SizeAssumption
  <2>3. theirs' \in [Events -> Nat] /\ citem' \in Events
    BY <1>1 DEF IInv, TypeOK, Taken, Plus
  <2> QED BY <1>1, <2>2, <2>3 DEF IInv, TypeOK, producerVars
<1>3. RefsAreHolders'
  <2>1. \A x : /\ Queued(x) \in Nat
               /\ Queued(x)' = Queued(x) - (IF Head(queue) = x THEN 1 ELSE 0)
    BY <1>1, QueuedIsNat, QueuedAfterPop DEF IInv
  <2> SUFFICES ASSUME NEW x \in Events
               PROVE  /\ ref'[x] = mine'[x] + (theirs'[x] - dropped'[x])
                                   + Queued(x)'
                      /\ dropped'[x] <= IF x \in Closing THEN theirs'[x]
                                        ELSE 0
    BY DEF RefsAreHolders
  <2>2. /\ ref[x] = mine[x] + (theirs[x] - dropped[x]) + Queued(x)
        /\ dropped[x] <= IF x \in Closing THEN theirs[x] ELSE 0
    BY DEF IInv, RefsAreHolders
  <2>3. theirs'[x] = theirs[x] + (IF Head(queue) = x THEN 1 ELSE 0)
    <3>1. theirs \in [Events -> Nat] /\ theirs' = Plus(theirs, Head(queue))
      BY DEF IInv, TypeOK, Taken
    <3> QED BY <1>1, <3>1 DEF Plus
  <2>4. /\ ref[x] \in Nat /\ mine[x] \in Nat /\ theirs[x] \in Nat
        /\ dropped[x] \in Nat
        /\ ref' = ref /\ mine' = mine /\ dropped' = dropped
    BY DEF IInv, TypeOK
  <2> QED BY <2>1, <2>2, <2>3, <2>4
<1>4. ConsumerHolds'
  <2>1. citem' = Head(queue) /\ theirs' = Plus(theirs, Head(queue))
    BY DEF Taken
  <2>2. /\ theirs[Head(queue)] \in Nat /\ dropped[Head(queue)] \in Nat
        /\ dropped[Head(queue)] <= theirs[Head(queue)]
        /\ theirs'[Head(queue)] = theirs[Head(queue)] + 1
        /\ dropped' = dropped
    BY <1>1, <2>1 DEF IInv, TypeOK, RefsAreHolders, Plus
  <2> QED BY <1>1, <2>1, <2>2 DEF ConsumerHolds
<1>5. EndIsQuiet'
  <2>1. life # "freed"
    BY <1>1 DEF IInv, EndIsQuiet
  <2> QED BY <1>1, <2>1 DEF IInv, EndIsQuiet, producerVars
<1>6. ProducerHolds' /\ WakeOfTheLast' /\ WakesForTheFirst'
  BY <1>1
     DEF IInv, ProducerHolds, WakeOfTheLast, WakesForTheFirst, producerVars
<1> QED BY <1>2, <1>3, <1>4, <1>5, <1>6 DEF IInv

LEMMA ConsumerStep == ASSUME IInv, Consumer PROVE IInv'
<1> DEFINE Rest == /\ ProducerHolds /\ ConsumerHolds /\ WakesForTheFirst
                   /\ WakeOfTheLast /\ EndIsQuiet
<1> USE DEF ProducerHolds, ConsumerHolds, WakesForTheFirst, WakeOfTheLast,
            EndIsQuiet, queueVars, producerVars, consumerVars
<1>1. CASE Pop
  <2>1. Head(queue) \in Closing => producing # "yes"
    BY <1>1 DEF Pop, Taken, IInv, TypeOK
  <2>2. cpc' = IF Head(queue) \in Closing THEN "closing" ELSE "idle"
    BY <1>1 DEF Pop
  <2>3. Taken /\ UNCHANGED <<life, ref, mine, dropped, producerVars>>
    BY <1>1 DEF Pop
  <2> QED BY <2>1, <2>2, <2>3, TakenStep
<1>2. CASE ClearPop
  <2>1. /\ cpc' = IF cpc = "clear" THEN "clear_unref" ELSE "clearing_unref"
        /\ cpc = "clear" => producing # "yes"
        /\ Taken /\ UNCHANGED <<life, ref, mine, dropped, producerVars>>
    BY <1>2 DEF ClearPop, IInv
  <2> QED BY <2>1, TakenStep
<1>3. ASSUME NEW e \in Events, Done(e) PROVE IInv'
  <2>1. RefsAreHolders' /\ TypeOK'
    BY <1>3, PointerStep DEF IInv, TypeOK, Done
  <2>2. Rest'
    BY <1>3 DEF IInv, Done
  <2> QED BY <2>1, <2>2 DEF IInv
<1>4. ASSUME NEW e \in Events, Forget(e) PROVE IInv'
  <2>1. RefsAreHolders' /\ TypeOK'
    BY <1>4, PointerStep DEF IInv, TypeOK, Forget
  <2>2. Rest'
    BY <1>4 DEF IInv, Forget
  <2> QED BY <2>1, <2>2 DEF IInv
<1>5. CASE Close \/ ClearUnref
  <2>1. /\ citem \in Events /\ theirs[citem] > dropped[citem]
        /\ ref' = Minus(ref, citem)
        /\ \/ theirs' = Minus(theirs, citem) /\ UNCHANGED dropped
           \/ /\ dropped' = Plus(dropped, citem) /\ UNCHANGED theirs
              /\ citem \in Closing
        /\ UNCHANGED <<queueVars, mine, producerVars, citem>>
        /\ \/ cpc \in {"closing", "clear_unref"} /\ cpc' = "clear"
           \/ cpc' = "clearing"
    BY <1>5 DEF Close, ClearUnref, IInv
  <2>2. RefsAreHolders' /\ TypeOK'
    BY <2>1, PointerStep DEF IInv, TypeOK
  <2>3. Rest'
    BY <2>1 DEF IInv
  <2> QED BY <2>2, <2>3 DEF IInv
<1>6. CASE Free \/ Clear \/ ClearEnd
  <2>1. TypeOK'
    BY <1>6 DEF IInv, TypeOK, Free, Clear, ClearEnd
  <2>2. RefsAreHolders'
    BY <1>6, NoPointerStep DEF Free, Clear, ClearEnd
  <2>3. Rest'
    BY <1>6 DEF IInv, Free, Clear, ClearEnd
  <2> QED BY <2>1, <2>2, <2>3 DEF IInv
<1> QED BY <1>1, <1>2, <1>3, <1>4, <1>5, <1>6 DEF Consumer

\* Every step keeps the invariant.
LEMMA IInvStep == IInv /\ [Next]_vars => IInv'
<1> SUFFICES ASSUME IInv, [Next]_vars PROVE IInv'
  OBVIOUS
<1> DEFINE Rest == /\ ProducerHolds /\ ConsumerHolds /\ WakesForTheFirst
                   /\ WakeOfTheLast /\ EndIsQuiet
<1> USE DEF ProducerHolds, ConsumerHolds, WakesForTheFirst, WakeOfTheLast,
            EndIsQuiet, queueVars, producerVars, consumerVars
<1>1. CASE QueueNew \/ UNCHANGED vars
  <2>1. TypeOK'
    BY <1>1 DEF IInv, TypeOK, QueueNew, vars
  <2>2. RefsAreHolders'
    BY <1>1, NoPointerStep DEF QueueNew, vars
  <2>3. Rest'
    BY <1>1 DEF IInv, QueueNew, vars
  <2> QED BY <2>1, <2>2, <2>3 DEF IInv
<1>2. CASE QueueNewNoMemory
  BY <1>1, <1>2 DEF QueueNewNoMemory
<1>3. CASE Producer \/ Consumer
  BY <1>3, ProducerStep, ConsumerStep
<1> QED BY <1>1, <1>2, <1>3 DEF Next

-----------------------------------------------------------------------------
\* The inductive invariant holds in every reachable state.
THEOREM Invariance == Spec => []IInv
<1> QED BY IInvInit, IInvStep, PTL DEF Spec

\* Every variable keeps its type, and the ring holds at most Size - 1 events
\* in the producer's eyes too: no push overwrites one that is not popped.
THEOREM TypeCorrect == Spec => []TypeOK
<1>1. IInv => TypeOK
  BY DEF IInv
<1> QED BY <1>1, Invariance, PTL

\* cm_queue_push, cm_queue_pop and cm_queue_clear move the references with the
\* events: the count of each is the number of pointers to it, but for the
\* closing event that event_pipe_read returns after it has dropped it.
THEOREM RefsCountHolders == Spec => []RefsAreHolders
<1>1. IInv => RefsAreHolders
  BY DEF IInv
<1> QED BY <1>1, Invariance, PTL

\* A push that was told "empty" puts its event into a queue that is empty still.
THEOREM WakesAreForTheFirst == Spec => []WakesForTheFirst
<1>1. IInv => WakesForTheFirst
  BY DEF IInv
<1> QED BY <1>1, Invariance, PTL

\* Nothing is left in a freed queue, and of cm_queue_push only the look at
\* q->loop after a closing event can still come.
THEOREM FreedStaysQuiet == Spec => []FreedIsQuiet
<1>1. IInv => FreedIsQuiet
  BY DEF IInv, TypeOK, ProducerHolds, WakeOfTheLast, EndIsQuiet, FreedIsQuiet
<1> QED BY <1>1, Invariance, PTL
=============================================================================
