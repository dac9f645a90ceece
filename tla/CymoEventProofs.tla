-------------------------- MODULE CymoEventProofs --------------------------
(***************************************************************************)
(* For every set of threads and every number of references the counter can *)
(* hold: no event is used after it was freed, or freed twice.              *)
(***************************************************************************)
EXTENDS CymoEvent, FiniteSetTheorems, TLAPS

\* The counter counts the references, which the code only hopes for.
CountInv == ref = Cardinality(Held)

\* Told "single", a thread holds the one reference there is.
SingleInv == \A t \in single : \E r \in References : Held = {r} /\ holder[r] = t

IInv ==
  /\ TypeOK
  /\ CountInv
  /\ HeldIsLive
  /\ FreedOnce
  /\ SingleInv

-----------------------------------------------------------------------------
\* The references in use are finitely many, fewer than the counter's modulus.
LEMMA HeldFinite ==
  /\ IsFiniteSet(Held)
  /\ Cardinality(Held) \in Nat
  /\ Cardinality(Held) <= Cardinality(References)
  /\ RefModulus \in Nat /\ Cardinality(References) \in Nat
  /\ Cardinality(References) < RefModulus
<1>1. Held \subseteq References
  BY DEF Held
<1> QED
  BY <1>1, FS_Subset, FS_CardinalityType, ReferencesFinite, RefModulusAssumption

\* A reference taken into use makes one more.
LEMMA HeldGrows ==
  ASSUME TypeOK, NEW s \in References, NEW t \in Threads, holder[s] = Nobody,
         holder' = [holder EXCEPT ![s] = t]
  PROVE  /\ Held' = Held \cup {s}
         /\ Cardinality(Held') = Cardinality(Held) + 1
         /\ Cardinality(Held) < Cardinality(References)
<1>1. Held' = Held \cup {s} /\ s \notin Held
  BY NobodyAssumption DEF Held, TypeOK
<1>2. Cardinality(Held') = Cardinality(Held) + 1
  BY <1>1, HeldFinite, FS_AddElement
<1>3. Cardinality(Held') <= Cardinality(References)
  BY <1>1, FS_Subset, ReferencesFinite DEF Held
<1> QED BY <1>1, <1>2, <1>3, HeldFinite

\* A reference given up makes one less.
LEMMA HeldShrinks ==
  ASSUME TypeOK, NEW r \in Held, holder' = [holder EXCEPT ![r] = Nobody]
  PROVE  /\ Held' = Held \ {r}
         /\ Cardinality(Held') = Cardinality(Held) - 1
         /\ Cardinality(Held) >= 1
<1>1. Held' = Held \ {r}
  BY DEF Held, TypeOK
<1>2. Cardinality(Held') = Cardinality(Held) - 1
  BY <1>1, HeldFinite, FS_RemoveElement
<1>3. Cardinality(Held) # 0
  BY HeldFinite, FS_EmptySet
<1> QED BY <1>1, <1>2, <1>3, HeldFinite

\* One reference in use is the only one.
LEMMA OneHeld ==
  ASSUME NEW r \in Held, Cardinality(Held) = 1
  PROVE  Held = {r}
<1>1. PICK x : Held = {x}
  BY HeldFinite, FS_Singleton
<1> QED BY <1>1

-----------------------------------------------------------------------------
\* No event exists at first.
LEMMA IInvInit == Init => IInv
<1> SUFFICES ASSUME Init PROVE IInv
  OBVIOUS
<1>1. Held = {} /\ Cardinality(Held) = 0
  BY FS_EmptySet DEF Init, Held
<1>2. ref \in 0 .. RefModulus - 1
  BY HeldFinite DEF Init
<1>3. allocated \in BOOLEAN
  BY DEF Init
<1>4. TypeOK
  BY <1>2, <1>3 DEF Init, TypeOK
<1> QED
  BY <1>1, <1>4
     DEF Init, IInv, CountInv, HeldIsLive, FreedOnce, SingleInv

\* Making the event: nothing was held, one reference is.
LEMMA NewStep ==
  ASSUME IInv, NEW t \in Threads, NEW r \in References, New(t, r)
  PROVE  IInv'
<1> USE DEF IInv, New
<1>1. Held = {}
  BY DEF HeldIsLive
<1>2. Cardinality(Held) = 0
  BY <1>1, FS_EmptySet
<1>3. holder[r] = Nobody
  BY <1>1 DEF Held
<1>4. /\ Held' = Held \cup {r}
      /\ Cardinality(Held') = 1
      /\ 0 < Cardinality(References)
  <2> HIDE DEF IInv, New
  <2>1. TypeOK /\ holder' = [holder EXCEPT ![r] = t]
    BY DEF IInv, New
  <2>2. /\ Held' = Held \cup {r}
        /\ Cardinality(Held') = Cardinality(Held) + 1
        /\ Cardinality(Held) < Cardinality(References)
    BY <1>3, <2>1, HeldGrows
  <2> QED BY <1>2, <2>2
<1>5. TypeOK'
  <2>1. ref' \in 0 .. RefModulus - 1
    BY <1>4, HeldFinite
  <2>2. allocated' \in BOOLEAN
    OBVIOUS
  <2> QED BY <2>1, <2>2 DEF TypeOK
<1>6. CountInv'
  BY <1>4 DEF CountInv
<1>7. HeldIsLive' /\ FreedOnce'
  BY DEF HeldIsLive, FreedOnce, TypeOK
<1>8. SingleInv'
  BY <1>1 DEF SingleInv
<1> QED BY <1>5, <1>6, <1>7, <1>8

\* Taking a reference: the counter does not wrap.
LEMMA RefStep ==
  ASSUME IInv, NEW t \in Threads, NEW r \in References, NEW s \in References,
         Ref(t, r, s)
  PROVE  IInv'
<1> USE DEF IInv, Ref
<1>1. r \in Held
  BY NobodyAssumption DEF Held
<1>2. /\ Held' = Held \cup {s}
      /\ Cardinality(Held') = Cardinality(Held) + 1
      /\ Cardinality(Held) < Cardinality(References)
  BY HeldGrows
<1>3. ref' = ref + 1
  BY <1>2, HeldFinite DEF CountInv
<1>4. TypeOK'
  BY <1>2, <1>3, HeldFinite DEF TypeOK, CountInv
<1>5. CountInv'
  BY <1>2, <1>3 DEF CountInv
<1>6. HeldIsLive' /\ FreedOnce'
  BY <1>1 DEF HeldIsLive, FreedOnce
<1>7. SingleInv'
  BY <1>1 DEF SingleInv
<1> QED BY <1>4, <1>5, <1>6, <1>7

\* Handing a reference over changes who holds it, not how many there are.
LEMMA HandOverStep ==
  ASSUME IInv, NEW t \in Threads, NEW u \in Threads, NEW r \in References,
         HandOver(t, u, r)
  PROVE  IInv'
<1> USE DEF IInv, HandOver
<1>1. Held' = Held /\ r \in Held
  BY NobodyAssumption DEF Held, TypeOK
<1>2. TypeOK'
  BY DEF TypeOK
<1>3. CountInv' /\ HeldIsLive' /\ FreedOnce'
  BY <1>1 DEF CountInv, HeldIsLive, FreedOnce
<1>4. SingleInv'
  BY <1>1 DEF SingleInv, TypeOK
<1> QED BY <1>2, <1>3, <1>4

\* Giving a reference up: the thread that saw 1 held the last one.
LEMMA UnrefStep ==
  ASSUME IInv, NEW t \in Threads, NEW r \in References, Unref(t, r)
  PROVE  IInv'
<1> USE DEF IInv, Unref
<1>1. r \in Held
  BY NobodyAssumption DEF Held
<1>2. /\ Held' = Held \ {r}
      /\ Cardinality(Held') = Cardinality(Held) - 1
      /\ Cardinality(Held) >= 1
  BY <1>1, HeldShrinks
<1>3. ref' = ref - 1 /\ ref \in Nat /\ ref >= 1
  BY <1>2, HeldFinite DEF CountInv
<1>4. TypeOK'
  BY <1>3, HeldFinite DEF TypeOK
<1>5. CountInv'
  BY <1>2, <1>3 DEF CountInv
<1>6. allocated /\ \A u \in Threads : pc[u] = "idle"
  BY <1>1 DEF HeldIsLive
<1>7. HeldIsLive'
  <2>1. CASE ref = 1
    <3>1. Held = {r}
      BY <2>1, <1>1, OneHeld DEF CountInv
    <3> QED BY <3>1, <1>2 DEF HeldIsLive
  <2>2. CASE ref # 1
    BY <2>2, <1>6 DEF HeldIsLive, TypeOK
  <2> QED BY <2>1, <2>2
<1>8. FreedOnce'
  BY <1>6 DEF FreedOnce, TypeOK
<1>9. SingleInv'
  <2> SUFFICES ASSUME NEW u \in single, u # t PROVE FALSE
    BY DEF SingleInv
  <2>1. PICK x \in References : Held = {x} /\ holder[x] = u
    BY DEF SingleInv
  <2> QED BY <1>1, <2>1
<1> QED BY <1>4, <1>5, <1>7, <1>8, <1>9

\* Freeing: nothing was held, and nobody else was about to free.
LEMMA FreeStep ==
  ASSUME IInv, NEW t \in Threads, Free(t)
  PROVE  IInv'
<1> USE DEF IInv, Free
<1>1. Held = {} /\ Held' = Held
  BY DEF HeldIsLive, Held
<1>2. TypeOK'
  BY DEF TypeOK
<1>3. CountInv' /\ HeldIsLive'
  BY <1>1 DEF CountInv, HeldIsLive
<1>4. FreedOnce'
  BY DEF FreedOnce, TypeOK
<1>5. SingleInv'
  BY <1>1 DEF SingleInv
<1> QED BY <1>2, <1>3, <1>4, <1>5

\* Asking: the counter is 1 exactly when the asker holds all there is.
LEMMA AskSingleStep ==
  ASSUME IInv, NEW t \in Threads, NEW r \in References, AskSingle(t, r)
  PROVE  IInv'
<1> USE DEF IInv, AskSingle
<1>1. r \in Held /\ Held' = Held
  BY NobodyAssumption DEF Held
<1>2. TypeOK'
  BY DEF TypeOK
<1>3. CountInv' /\ HeldIsLive' /\ FreedOnce'
  BY <1>1 DEF CountInv, HeldIsLive, FreedOnce
<1>4. SingleInv'
  <2>1. ref = 1 => Held = {r}
    BY <1>1, OneHeld DEF CountInv
  <2> QED BY <1>1, <2>1 DEF SingleInv
<1> QED BY <1>2, <1>3, <1>4

\* Every step keeps the invariant.
LEMMA IInvStep == IInv /\ [Next]_vars => IInv'
<1> SUFFICES ASSUME IInv, [Next]_vars PROVE IInv'
  OBVIOUS
<1>1. UNCHANGED vars => IInv'
  BY DEF vars, IInv, TypeOK, CountInv, HeldIsLive, FreedOnce, SingleInv, Held
<1>2. CASE \E t \in Threads : NewNoMemory(t)
  BY <1>1, <1>2 DEF NewNoMemory
<1>3. CASE \E t \in Threads : Free(t) \/ \E r \in References :
             \/ New(t, r) \/ Unref(t, r) \/ AskSingle(t, r)
             \/ \E s \in References : Ref(t, r, s)
             \/ \E u \in Threads : HandOver(t, u, r)
  BY <1>3, NewStep, RefStep, HandOverStep, UnrefStep, FreeStep, AskSingleStep
<1> QED BY <1>1, <1>2, <1>3 DEF Next

\* The invariant holds in every reachable state.
THEOREM Invariance == Spec => []IInv
<1> QED BY IInvInit, IInvStep, PTL DEF Spec

\* The counter, an atomic_ushort, stays within its width and the other
\* variables keep their types.
THEOREM TypeCorrect == Spec => []TypeOK
<1> QED BY Invariance, PTL DEF IInv

\* No use after free: whoever holds a pointer to the event finds it allocated,
\* for every number of threads and every number of references the counter holds.
THEOREM HeldStaysLive == Spec => []HeldIsLive
<1> QED BY Invariance, PTL DEF IInv

\* No double free, and the counter never runs below zero.
THEOREM FreedAtMostOnce == Spec => [](FreedOnce /\ TypeOK)
<1> QED BY Invariance, PTL DEF IInv

\* A thread told that its reference is the only one is alone with the event.
THEOREM SingleMeansExclusive == Spec => []SingleIsExclusive
<1>1. IInv => SingleIsExclusive
  BY DEF IInv, SingleInv, SingleIsExclusive
<1> QED BY <1>1, Invariance, PTL
=============================================================================
