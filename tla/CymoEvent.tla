------------------------------ MODULE CymoEvent ------------------------------
(***************************************************************************)
(* The reference count of one event_t (cymo_event.c), shared by threads    *)
(* that hand the event on through queues.                                  *)
(*                                                                         *)
(* A reference is one pointer somebody is entitled to use: the local of a  *)
(* producer, a queue slot, the loop's saved_event.  Who holds it is ghost  *)
(* state, the code only has the counter.  A reference changes hands        *)
(* without touching the counter, by a push in one thread and a pop in      *)
(* another.  event_unref is two steps: the atomic decrement, and           *)
(* cm_event_free, which another thread may run between.                    *)
(***************************************************************************)
EXTENDS Integers, FiniteSets

CONSTANTS
  Threads,     \* the threads that use the event
  References,  \* the most pointers to it that exist at one time
  RefModulus,  \* 2^16: the counter is an atomic_ushort
  Nobody       \* the holder of a reference that is not in use

ASSUME ReferencesFinite == IsFiniteSet(References)
ASSUME RefModulusAssumption ==
  RefModulus \in Nat /\ RefModulus > Cardinality(References)
ASSUME NobodyAssumption == Nobody \notin Threads

VARIABLES
  ref,        \* e->ref
  allocated,  \* the memory of the event is between malloc and free
  holder,     \* who holds each reference
  pc,         \* "free": the thread saw the count fall to 0 and has yet to free
  single      \* the threads that were told event_is_single_ref and act on it

vars == <<ref, allocated, holder, pc, single>>

Held == {r \in References : holder[r] # Nobody}

Init ==
  /\ ref = 0 /\ allocated = FALSE
  /\ holder = [r \in References |-> Nobody]
  /\ pc = [t \in Threads |-> "idle"]
  /\ single = {}

\* cm_event_new: the caller holds the one reference.
New(t, r) ==
  /\ pc[t] = "idle" /\ ~allocated
  /\ allocated' = TRUE
  /\ ref' = 1
  /\ holder' = [holder EXCEPT ![r] = t]
  /\ UNCHANGED <<pc, single>>

\* cm_event_new when malloc fails.
NewNoMemory(t) == pc[t] = "idle" /\ UNCHANGED vars

\* Mutant: the pointer is copied, the counter left alone.
RefNoCount(t, r, s) ==
  /\ pc[t] = "idle" /\ holder[r] = t /\ holder[s] = Nobody
  /\ holder' = [holder EXCEPT ![s] = t]
  /\ single' = single \ {t}
  /\ UNCHANGED <<ref, allocated, pc>>

\* event_ref by a thread that holds r; s is the new pointer.
Ref(t, r, s) ==
  /\ pc[t] = "idle" /\ holder[r] = t /\ holder[s] = Nobody
  /\ ref' = (ref + 1) % RefModulus
  /\ holder' = [holder EXCEPT ![s] = t]
  /\ single' = single \ {t}
  /\ UNCHANGED <<allocated, pc>>

\* The pointer goes to another thread through a queue.
HandOver(t, u, r) ==
  /\ pc[t] = "idle" /\ holder[r] = t
  /\ holder' = [holder EXCEPT ![r] = u]
  /\ single' = single \ {t}
  /\ UNCHANGED <<ref, allocated, pc>>

\* Mutant: whoever finds the counter at 0 after the decrement frees.
UnrefAlwaysFree(t, r) ==
  /\ pc[t] = "idle" /\ holder[r] = t
  /\ ref' = (ref - 1) % RefModulus
  /\ pc' = [pc EXCEPT ![t] = IF ref <= 2 THEN "free" ELSE "idle"]
  /\ holder' = [holder EXCEPT ![r] = Nobody]
  /\ single' = single \ {t}
  /\ UNCHANGED allocated

\* Mutant: the last reference is dropped without a free.
UnrefNeverFree(t, r) ==
  /\ pc[t] = "idle" /\ holder[r] = t
  /\ ref' = (ref - 1) % RefModulus
  /\ holder' = [holder EXCEPT ![r] = Nobody]
  /\ single' = single \ {t}
  /\ UNCHANGED <<allocated, pc>>

\* event_unref: the fetch_sub and the test of the count it returned.
Unref(t, r) ==
  /\ pc[t] = "idle" /\ holder[r] = t
  /\ ref' = (ref - 1) % RefModulus
  /\ pc' = [pc EXCEPT ![t] = IF ref = 1 THEN "free" ELSE "idle"]
  /\ holder' = [holder EXCEPT ![r] = Nobody]
  /\ single' = single \ {t}
  /\ UNCHANGED allocated

\* Mutant: freeing gives the last reference back once more.
FreeTakesOne(t) ==
  /\ pc[t] = "free"
  /\ allocated' = FALSE
  /\ ref' = ref - 1
  /\ pc' = [pc EXCEPT ![t] = "idle"]
  /\ UNCHANGED <<holder, single>>

\* cm_event_free, called by event_unref.
Free(t) ==
  /\ pc[t] = "free"
  /\ allocated' = FALSE
  /\ pc' = [pc EXCEPT ![t] = "idle"]
  /\ UNCHANGED <<ref, holder, single>>

\* Mutant: a count of 2 is taken for the caller's alone.
AskSingleOffByOne(t, r) ==
  /\ pc[t] = "idle" /\ holder[r] = t
  /\ single' = IF ref <= 2 THEN single \cup {t} ELSE single \ {t}
  /\ UNCHANGED <<ref, allocated, holder, pc>>

\* event_is_single_ref by a thread that holds r.
AskSingle(t, r) ==
  /\ pc[t] = "idle" /\ holder[r] = t
  /\ single' = IF ref = 1 THEN single \cup {t} ELSE single \ {t}
  /\ UNCHANGED <<ref, allocated, holder, pc>>

Next ==
  \E t \in Threads :
    \/ Free(t) \/ NewNoMemory(t)
    \/ \E r \in References :
         \/ New(t, r) \/ Unref(t, r) \/ AskSingle(t, r)
         \/ \E s \in References : Ref(t, r, s)
         \/ \E u \in Threads : HandOver(t, u, r)

Spec == Init /\ [][Next]_vars

\* A thread inside event_unref runs on.
LiveSpec == Spec /\ \A t \in Threads : WF_vars(Free(t))

-----------------------------------------------------------------------------
\* Every variable keeps its type.
TypeOK ==
  /\ ref \in 0 .. RefModulus - 1
  /\ allocated \in BOOLEAN
  /\ holder \in [References -> Threads \cup {Nobody}]
  /\ pc \in [Threads -> {"idle", "free"}]
  /\ single \subseteq Threads

\* Whoever holds a pointer may use it: the event is allocated and nobody is
\* about to free it, in whatever order the threads ref, hand over and unref.
HeldIsLive ==
  Held # {} => allocated /\ \A t \in Threads : pc[t] = "idle"

\* The event is freed once: a thread that is about to free it is the only one,
\* and the memory is still allocated.
FreedOnce ==
  \A t \in Threads : pc[t] = "free" =>
    allocated /\ \A u \in Threads : pc[u] = "free" => u = t

\* event_is_single_ref means what its name says for as long as its caller does
\* nothing: no other thread can reach the event meanwhile.
SingleIsExclusive ==
  \A t \in single : \A r \in Held : holder[r] = t

\* An event nobody can reach is freed.
NoLeak == (allocated /\ Held = {}) ~> ~allocated
=============================================================================
