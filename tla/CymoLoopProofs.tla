--------------------------- MODULE CymoLoopProofs ---------------------------
(***************************************************************************)
(* What CymoLoop.tla promises, for any queues, events, reminders and       *)
(* bounds.                                                                 *)
(*                                                                         *)
(* Events are handed on in turn because the one that is saved and those    *)
(* left in its queue carry the last numbers of the pushes, and because the *)
(* saved event is of a data queue, which the two other pipes never hold.   *)
(* Priorities are kept because a pipe that was not empty when the pass     *)
(* began stays so until the loop reads it.                                 *)
(***************************************************************************)
EXTENDS CymoLoop, SequenceTheorems, TLAPS

\* Reminders that are freed while their nodes stay have no order.
ClocksInOrder ==
  asCalled =>
    \A c \in Clocks : \A i, j \in DOMAIN clock[c] :
      i <= j => clock[c][i] <= clock[c][j]

\* Only the data pipe is read into saved, and as built nothing comes of it.
SavedIsData ==
  saved # NoEvent => asCalled /\ setting.type[saved.q] = DATA_PIPE

\* What is in a queue is numbered up to the last push to it, the saved event
\* comes just before, and what has been handed on before both.
OneSaved(q) == IF saved # NoEvent /\ saved.q = q THEN 1 ELSE 0

Numbers(q) ==
  /\ Len(content[q]) + OneSaved(q) <= pushed[q] - handled[q]
  /\ OneSaved(q) = 1 => saved.n = pushed[q] - Len(content[q])
  /\ \A i \in DOMAIN content[q] :
       content[q][i].n = pushed[q] - Len(content[q]) + i

AllNumbered == \A q \in Queues : Numbers(q)

\* Once the clocks are past, nothing was due.
PastClocks ==
  at \in {"service", "saved"} \/ (at = "execution" /\ ~realtime) =>
    ~Blocked /\ ~ExchangeDue

\* What made the pass one with events ahead is there until it is looked at.
AheadStays ==
  /\ at \in {"data", "execution"} \/ (at = "clocks" /\ ~realtime) =>
       (ahead => ~IsEmpty(EXECUTION_PIPE) \/ ~IsEmpty(SERVICE_PIPE))
  /\ at = "service" \/ (at = "clocks" /\ realtime) =>
       (ahead => ~IsEmpty(SERVICE_PIPE))
  /\ at = "saved" => ~ahead

IInv ==
  /\ TypeOK
  /\ ClocksInOrder
  /\ SavedIsData
  /\ AllNumbered
  /\ PastClocks
  /\ AheadStays

-----------------------------------------------------------------------------
(***************************************************************************)
(* Sequences.                                                              *)
(***************************************************************************)
\* u is s with x at place i.
IsWith(u, s, i, x, S) ==
  /\ u \in Seq(S) /\ Len(u) = Len(s) + 1
  /\ \A j \in 1 .. Len(s) + 1 :
       u[j] = IF j < i THEN s[j] ELSE IF j = i THEN x ELSE s[j - 1]

LEMMA InsertAtFacts ==
  ASSUME NEW S, NEW s \in Seq(S), NEW x \in S, NEW i \in 1 .. Len(s) + 1
  PROVE  IsWith(InsertAt(s, i, x), s, i, x, S)
<1> DEFINE a == SubSeq(s, 1, i - 1)
           b == SubSeq(s, i, Len(s))
<1>1. /\ a \in Seq(S) /\ Len(a) = i - 1
      /\ \A j \in 1 .. i - 1 : a[j] = s[j]
  OBVIOUS
<1>2. /\ b \in Seq(S) /\ Len(b) = Len(s) - i + 1
      /\ \A j \in 1 .. Len(s) - i + 1 : b[j] = s[i + j - 1]
  OBVIOUS
<1>3. InsertAt(s, i, x) = a \o <<x>> \o b
  BY DEF InsertAt
<1> HIDE DEF a, b
<1>4. /\ a \o <<x>> \in Seq(S) /\ Len(a \o <<x>>) = i
      /\ \A j \in 1 .. i : (a \o <<x>>)[j] = IF j < i THEN s[j] ELSE x
  BY <1>1
<1> DEFINE c == a \o <<x>>
<1> HIDE DEF c
<1>5. /\ c \in Seq(S) /\ Len(c) = i
      /\ \A j \in 1 .. i : c[j] = IF j < i THEN s[j] ELSE x
  BY <1>4 DEF c
<1>6. /\ c \o b \in Seq(S) /\ Len(c \o b) = Len(c) + Len(b)
      /\ \A j \in 1 .. Len(c) + Len(b) :
           (c \o b)[j] = IF j <= Len(c) THEN c[j] ELSE b[j - Len(c)]
  BY <1>2, <1>5, ConcatProperties
<1>7. \A j \in 1 .. Len(s) + 1 :
        (c \o b)[j] = IF j < i THEN s[j] ELSE IF j = i THEN x ELSE s[j - 1]
  BY <1>2, <1>5, <1>6
<1>8. Len(c \o b) = Len(s) + 1
  BY <1>2, <1>5, <1>6
<1> QED BY <1>3, <1>6, <1>7, <1>8 DEF c, IsWith

\* The members of a sequence, with one more.
Extends(t, s, x) ==
  \A j \in DOMAIN t : t[j] = x \/ \E k \in DOMAIN s : t[j] = s[k]

LEMMA InsertionsFacts ==
  ASSUME NEW S, NEW s \in Seq(S), NEW x \in S, NEW empty \in BOOLEAN,
         NEW t \in Insertions(s, x, empty)
  PROVE  t \in Seq(S) /\ Extends(t, s, x)
<1>1. CASE t = Append(s, x)
  BY <1>1 DEF Extends
<1>2. ASSUME NEW i \in 1 .. Len(s) + 1, t = InsertAt(s, i, x)
      PROVE  t \in Seq(S) /\ Extends(t, s, x)
  <2>1. /\ t \in Seq(S) /\ Len(t) = Len(s) + 1
        /\ \A j \in 1 .. Len(s) + 1 :
             t[j] = IF j < i THEN s[j] ELSE IF j = i THEN x ELSE s[j - 1]
    <3>1. IsWith(t, s, i, x, S)
      BY <1>2, InsertAtFacts, Zenon
    <3> QED BY <3>1 DEF IsWith
  <2>2. \A j \in DOMAIN t : t[j] = x \/ \E k \in DOMAIN s : t[j] = s[k]
    <3> SUFFICES ASSUME NEW j \in DOMAIN t, t[j] # x
                 PROVE  \E k \in DOMAIN s : t[j] = s[k]
      OBVIOUS
    <3>1. j \in 1 .. Len(s) + 1 /\ j # i
      BY <2>1
    <3>2. CASE j < i
      BY <2>1, <3>1, <3>2
    <3>3. CASE j > i
      <4>1. j - 1 \in DOMAIN s /\ t[j] = s[j - 1]
        BY <2>1, <3>1, <3>3
      <4> QED BY <4>1
    <3> QED BY <3>1, <3>2, <3>3
  <2> QED BY <2>1, <2>2 DEF Extends
<1> QED BY <1>1, <1>2 DEF Insertions

LEMMA AdditionsFacts ==
  ASSUME NEW S, NEW s \in Seq(S), NEW x \in S, NEW empty \in BOOLEAN,
         NEW t \in Additions(s, x, empty)
  PROVE  t \in Seq(S) /\ Extends(t, s, x)
<1>1. t = s \/ t \in Insertions(s, x, empty)
  BY DEF Additions
<1>2. Extends(s, s, x)
  BY DEF Extends
<1> QED BY <1>1, <1>2, InsertionsFacts

-----------------------------------------------------------------------------
(***************************************************************************)
(* The pipes.                                                              *)
(***************************************************************************)
LEMMA SettingFacts ==
  ASSUME TypeOK
  PROVE  /\ setting.type \in [Queues -> Pipes]
         /\ setting.mode \in {"simulator", "realtime"}
         /\ setting.asCalled \in BOOLEAN
  BY SettingsAssumption DEF TypeOK, Pipes

LinesOK ==
  /\ line \in [Pipes -> Seq(Queues)]
  /\ \A p \in Pipes : \A i \in DOMAIN line[p] : setting.type[line[p][i]] = p

ContentOK ==
  /\ content \in [Queues -> Seq(Item)]
  /\ \A q \in Queues : \A i \in DOMAIN content[q] : content[q][i].q = q

\* event_pipe_add puts a queue into the pipe of its type.
LEMMA PipeAddFacts ==
  ASSUME TypeOK, NEW q \in Queues, PipeAdd(q), UNCHANGED setting
  PROVE  LinesOK'
<1> DEFINE p == setting.type[q]
<1>1. p \in Pipes /\ LinesOK
  BY SettingFacts DEF TypeOK, LinesOK
<1>2. CASE UNCHANGED line
  BY <1>1, <1>2 DEF LinesOK
<1>3. ASSUME NEW s \in Additions(line[p], q, content[q] = << >>),
             line' = [line EXCEPT ![p] = s]
      PROVE  LinesOK'
  <2>1. line[p] \in Seq(Queues) /\ (content[q] = << >>) \in BOOLEAN
    BY <1>1 DEF LinesOK
  <2>2. s \in Seq(Queues) /\ Extends(s, line[p], q)
    BY <2>1, AdditionsFacts
  <2>3. \A i \in DOMAIN s : setting.type[s[i]] = p
    BY <1>1, <2>2 DEF Extends, LinesOK
  <2> QED BY <1>1, <1>3, <2>2, <2>3 DEF LinesOK
<1> QED BY <1>2, <1>3 DEF PipeAdd

\* What event_pipe_read of a pipe that is not empty finds, and leaves.
First(p) == Head(line[p])

LEMMA ReadFacts ==
  ASSUME TypeOK, NEW p \in Pipes, ~IsEmpty(p), PipeRead(p), UNCHANGED setting
  PROVE  /\ First(p) \in Queues /\ setting.type[First(p)] = p
         /\ content[First(p)] # << >> /\ Waiting(p) # << >>
         /\ Head(Waiting(p)) \in Item /\ Head(Waiting(p)).q = First(p)
         /\ content' = [content EXCEPT ![First(p)] = Tail(@)]
         /\ ContentOK' /\ LinesOK'
         /\ \A x \in Pipes \ {p} : line'[x] = line[x]
<1> DEFINE q == First(p)
<1>1. LinesOK /\ ContentOK
  BY DEF TypeOK, LinesOK, ContentOK
<1>2. line[p] \in Seq(Queues) /\ line[p] # << >> /\ content[q] # << >>
  BY <1>1 DEF LinesOK, IsEmpty, First
<1>3. /\ q \in Queues /\ setting.type[q] = p
      /\ Tail(line[p]) \in Seq(Queues)
      /\ \A i \in DOMAIN Tail(line[p]) : setting.type[Tail(line[p])[i]] = p
  <2>1. q = line[p][1] /\ 1 \in DOMAIN line[p]
    BY <1>2 DEF First
  <2>2. \A i \in DOMAIN Tail(line[p]) :
          i + 1 \in DOMAIN line[p] /\ Tail(line[p])[i] = line[p][i + 1]
    BY <1>2
  <2> QED BY <1>1, <1>2, <2>1, <2>2 DEF LinesOK
<1>4. /\ Head(content[q]) \in Item /\ Head(content[q]).q = q
      /\ Tail(content[q]) \in Seq(Item)
      /\ \A i \in DOMAIN Tail(content[q]) : Tail(content[q])[i].q = q
  <2>1. content[q] \in Seq(Item)
    BY <1>1, <1>3 DEF ContentOK
  <2>2. Head(content[q]) = content[q][1] /\ 1 \in DOMAIN content[q]
    BY <1>2, <2>1
  <2>3. \A i \in DOMAIN Tail(content[q]) :
          i + 1 \in DOMAIN content[q] /\ Tail(content[q])[i] = content[q][i + 1]
    BY <1>2, <2>1
  <2> QED BY <1>1, <1>2, <1>3, <2>1, <2>2, <2>3 DEF ContentOK
<1>5. content' = [content EXCEPT ![q] = Tail(@)]
  BY DEF PipeRead, First
<1>6. ContentOK'
  BY <1>1, <1>3, <1>4, <1>5 DEF ContentOK
<1>7. PICK s : /\ line' = [line EXCEPT ![p] = s]
               /\ \/ s = line[p] \/ s = Tail(line[p])
                  \/ s \in Insertions(Tail(line[p]), q, Tail(content[q]) = << >>)
  BY DEF PipeRead, First, Waiting
<1>8. s \in Seq(Queues) /\ \A i \in DOMAIN s : setting.type[s[i]] = p
  <2>1. CASE s = line[p] \/ s = Tail(line[p])
    BY <1>1, <1>2, <1>3, <2>1 DEF LinesOK
  <2>2. CASE s \in Insertions(Tail(line[p]), q, Tail(content[q]) = << >>)
    <3>1. (Tail(content[q]) = << >>) \in BOOLEAN
      OBVIOUS
    <3>2. s \in Seq(Queues) /\ Extends(s, Tail(line[p]), q)
      BY <1>3, <2>2, <3>1, InsertionsFacts
    <3> QED BY <1>3, <3>2 DEF Extends
  <2> QED BY <1>7, <2>1, <2>2
<1>9. LinesOK' /\ \A x \in Pipes \ {p} : line'[x] = line[x]
  BY <1>1, <1>7, <1>8 DEF LinesOK
<1> QED BY <1>2, <1>3, <1>4, <1>5, <1>6, <1>9 DEF Waiting, First

\* As called, what a read gives is the event or, after a closing event,
\* something in its place; as built it is nothing.
LEMMA AnswerFacts ==
  ASSUME TypeOK, NEW p \in Pipes, NEW e \in ReadAnswers(p),
         Waiting(p) # << >>, Head(Waiting(p)) \in Item
  PROVE  IF asCalled
         THEN /\ e \in Item /\ e # NoEvent
              /\ e.q = Head(Waiting(p)).q /\ e.n = Head(Waiting(p)).n
         ELSE e = NoEvent
<1> DEFINE h == Head(Waiting(p))
<1>0. ReadsEmpty(p) <=> ~asCalled
  BY DEF ReadsEmpty, PopAnswer
<1>1. CASE ~asCalled
  BY <1>0, <1>1 DEF ReadAnswers
<1>2. CASE asCalled /\ e = h
  BY <1>2, NoEventAssumption
<1>3. ASSUME asCalled, NEW g \in Events, e = Numbered(g, h.n, h.q, FALSE)
      PROVE  e \in Item /\ e.q = h.q /\ e.n = h.n
  BY <1>3, EventsAssumption DEF Numbered, Item
<1> QED BY <1>0, <1>1, <1>2, <1>3, NoEventAssumption DEF ReadAnswers

\* The pipes that are not read are not touched.
LEMMA OthersStay ==
  ASSUME TypeOK, NEW p \in Pipes, ~IsEmpty(p), PipeRead(p), UNCHANGED setting,
         NEW x \in Pipes \ {p}
  PROVE  IsEmpty(x)' <=> IsEmpty(x)
<1>1. /\ First(p) \in Queues /\ setting.type[First(p)] = p
      /\ content' = [content EXCEPT ![First(p)] = Tail(@)]
      /\ line'[x] = line[x]
  BY ReadFacts
<1>2. CASE line[x] = << >>
  BY <1>1, <1>2 DEF IsEmpty
<1>3. CASE line[x] # << >>
  <2>1. Head(line[x]) \in Queues /\ setting.type[Head(line[x])] = x
    BY <1>3 DEF TypeOK
  <2>2. content'[Head(line[x])] = content[Head(line[x])]
    BY <1>1, <2>1 DEF TypeOK
  <2> QED BY <1>1, <2>2 DEF IsEmpty
<1> QED BY <1>2, <1>3
-----------------------------------------------------------------------------
(***************************************************************************)
(* What the steps have in common.                                          *)
(***************************************************************************)
LEMMA OneSavedIs ==
  ASSUME NEW q \in Queues
  PROVE  OneSaved(q) \in {0, 1}
  BY DEF OneSaved

LEMMA NumbersOfBoth ==
  ASSUME NEW a \in Seq(Item), NEW b \in Seq(Item), NEW h \in Nat,
         \A i \in DOMAIN a : a[i].n = h + i,
         \A i \in DOMAIN b : b[i].n = h + Len(a) + i
  PROVE  /\ Len(a \o b) = Len(a) + Len(b)
         /\ \A i \in DOMAIN (a \o b) : (a \o b)[i].n = h + i
<1> DEFINE r == a \o b
<1>1. /\ r \in Seq(Item) /\ Len(r) = Len(a) + Len(b)
      /\ \A i \in 1 .. Len(a) + Len(b) :
           r[i] = IF i <= Len(a) THEN a[i] ELSE b[i - Len(a)]
  BY ConcatProperties
<1> HIDE DEF r
<1>2. ASSUME NEW i \in DOMAIN r
      PROVE  r[i].n = h + i
  <2>1. i \in 1 .. Len(a) + Len(b) /\ Len(a) \in Nat /\ Len(b) \in Nat
    BY <1>1
  <2>2. CASE i <= Len(a)
    BY <1>1, <2>1, <2>2
  <2>3. CASE i > Len(a)
    <3>1. i - Len(a) \in DOMAIN b
      BY <2>1, <2>3
    <3>2. b[i - Len(a)].n = h + Len(a) + (i - Len(a))
      BY <3>1
    <3> QED BY <1>1, <2>1, <2>3, <3>2
  <2> QED BY <2>1, <2>2, <2>3
<1>3. /\ Len(r) = Len(a) + Len(b)
      /\ \A i \in DOMAIN r : r[i].n = h + i
  BY <1>1, <1>2
<1> QED BY <1>3 DEF r

LEMMA NumbersOfTail ==
  ASSUME NEW b \in Seq(Item), b # << >>, NEW h \in Nat,
         \A i \in DOMAIN b : b[i].n = h + i
  PROVE  /\ Head(b).n = h + 1
         /\ Len(Tail(b)) = Len(b) - 1
         /\ \A i \in DOMAIN Tail(b) : Tail(b)[i].n = h + 1 + i
<1>1. /\ Head(b) = b[1] /\ 1 \in DOMAIN b /\ Len(Tail(b)) = Len(b) - 1
      /\ \A i \in DOMAIN Tail(b) :
           i \in Int /\ i + 1 \in DOMAIN b /\ Tail(b)[i] = b[i + 1]
  OBVIOUS
<1>2. ASSUME NEW i \in DOMAIN Tail(b)
      PROVE  Tail(b)[i].n = h + 1 + i
  <2>1. Tail(b)[i].n = h + (i + 1)
    BY <1>1, Zenon
  <2>2. h + (i + 1) = h + 1 + i
    BY <1>1
  <2> QED BY <2>1, <2>2, Zenon
<1> QED BY <1>1, <1>2, Zenon

LEMMA NumbersOfAppend ==
  ASSUME NEW b \in Seq(Item), NEW h \in Nat, NEW e \in Item,
         \A i \in DOMAIN b : b[i].n = h + i, e.n = h + Len(b) + 1
  PROVE  /\ Append(b, e) \in Seq(Item)
         /\ Len(Append(b, e)) = Len(b) + 1
         /\ \A i \in DOMAIN Append(b, e) : Append(b, e)[i].n = h + i
<1>1. /\ Append(b, e) \in Seq(Item)
      /\ Len(Append(b, e)) = Len(b) + 1
      /\ DOMAIN Append(b, e) = 1 .. Len(b) + 1
      /\ \A i \in 1 .. Len(b) + 1 :
           Append(b, e)[i] = IF i <= Len(b) THEN b[i] ELSE e
  OBVIOUS
<1>2. \A i \in 1 .. Len(b) + 1 :
        i \in DOMAIN b \/ (i = Len(b) + 1 /\ h + i = h + Len(b) + 1)
  OBVIOUS
<1> QED BY <1>1, <1>2

\* The numbers, queue by queue, are those of the saved event and the rest.
LEMMA NumbersAreInTurn ==
  ASSUME TypeOK, AllNumbered
  PROVE  EventsInTurn
<1> DEFINE s(q) == IF saved # NoEvent /\ saved.q = q THEN <<saved>> ELSE << >>
<1>1. ASSUME NEW q \in Queues
      PROVE  /\ Len(s(q) \o content[q]) <= pushed[q] - handled[q]
             /\ \A i \in DOMAIN (s(q) \o content[q]) :
                  (s(q) \o content[q])[i].n =
                    pushed[q] - Len(s(q) \o content[q]) + i
  <2>1. /\ content[q] \in Seq(Item) /\ pushed[q] \in Nat /\ handled[q] \in Nat
        /\ s(q) \in Seq(Item) /\ Len(s(q)) = OneSaved(q)
        /\ \A i \in DOMAIN s(q) : i = 1 /\ s(q)[i] = saved /\ OneSaved(q) = 1
    <3>1. CASE saved # NoEvent /\ saved.q = q
      BY <3>1 DEF TypeOK, OneSaved
    <3>2. CASE ~(saved # NoEvent /\ saved.q = q)
      BY <3>2 DEF TypeOK, OneSaved
    <3> QED BY <3>1, <3>2
  <2> HIDE DEF s
  <2>2. Numbers(q)
    BY DEF AllNumbered
  <2> PICK h : h = pushed[q] - Len(content[q]) - Len(s(q))
    OBVIOUS
  <2>3. h \in Nat /\ Len(s(q)) \in Nat /\ Len(content[q]) \in Nat
        /\ pushed[q] - Len(content[q]) = h + Len(s(q))
    BY <2>1, <2>2 DEF Numbers
  <2>4. \A i \in DOMAIN s(q) : s(q)[i].n = h + i
    BY <2>1, <2>2, <2>3 DEF Numbers
  <2>5. \A i \in DOMAIN content[q] : content[q][i].n = h + Len(s(q)) + i
    BY <2>2, <2>3 DEF Numbers
  <2>6. /\ Len(s(q) \o content[q]) = Len(s(q)) + Len(content[q])
        /\ \A i \in DOMAIN (s(q) \o content[q]) :
             (s(q) \o content[q])[i].n = h + i
    BY <2>1, <2>3, <2>4, <2>5, NumbersOfBoth, Zenon
  <2>7. pushed[q] - Len(s(q) \o content[q]) = h
    BY <2>1, <2>3, <2>6
  <2>8. Len(s(q) \o content[q]) <= pushed[q] - handled[q]
    BY <2>1, <2>2, <2>6 DEF Numbers
  <2> QED BY <2>6, <2>7, <2>8, Zenon
<1> QED BY <1>1, Zenon DEF EventsInTurn, Rest

\* Where a pass goes next.
LEMMA ProceedFacts ==
  ASSUME Proceed
  PROVE  /\ ahead' = ahead /\ at' \in Stages
         /\ IF realtime
            THEN \/ at = "data" /\ at' = "execution"
                 \/ at = "execution" /\ at' = "clocks"
                 \/ at = "clocks" /\ at' = "service"
                 \/ at = "service" /\ at' = "saved"
            ELSE \/ at = "data" /\ at' = "clocks"
                 \/ at = "clocks" /\ at' = "execution"
                 \/ at = "execution" /\ at' = "service"
                 \/ at = "service" /\ at' = "saved"
<1>1. ahead' = ahead
  BY DEF Proceed
<1>2. PICK i \in 1 .. 4 : at = Order[i] /\ at' = Order[i + 1]
  BY DEF Proceed
<1>3. i = 1 \/ i = 2 \/ i = 3 \/ i = 4
  OBVIOUS
<1> QED BY <1>1, <1>2, <1>3 DEF Order, Stages

\* A pass that goes on keeps what it knows of the pipes ahead.
LEMMA ProceedAhead ==
  ASSUME Proceed, AheadStays, UNCHANGED setting,
         IsEmpty(EXECUTION_PIPE)' <=> IsEmpty(EXECUTION_PIPE),
         IsEmpty(SERVICE_PIPE)' <=> IsEmpty(SERVICE_PIPE),
         at = "execution" => IsEmpty(EXECUTION_PIPE),
         at = "service" => IsEmpty(SERVICE_PIPE)
  PROVE  AheadStays'
<1>1. realtime' = realtime
  BY DEF realtime
<1> QED BY <1>1, ProceedFacts DEF AheadStays

LEMMA NewPassAhead ==
  ASSUME NewPass,
         IsEmpty(EXECUTION_PIPE)' <=> IsEmpty(EXECUTION_PIPE),
         IsEmpty(SERVICE_PIPE)' <=> IsEmpty(SERVICE_PIPE)
  PROVE  AheadStays' /\ PastClocks'
  BY DEF NewPass, AheadStays, PastClocks

\* Outside a pass there is nothing to know of it.
LEMMA OutsidePass ==
  ASSUME at' \in {"idle", "pending", "crashed", "stopped"}
  PROVE  AheadStays' /\ PastClocks'
  BY DEF AheadStays, PastClocks

LEMMA EmptyFrame ==
  ASSUME UNCHANGED <<line, content>>, NEW p
  PROVE  IsEmpty(p)' <=> IsEmpty(p)
  BY DEF IsEmpty

\* The steps that move no event.
LEMMA EventsFrame ==
  ASSUME IInv, UNCHANGED <<setting, content, saved, pushed, handled>>
  PROVE  SavedIsData' /\ AllNumbered'
  BY DEF IInv, SavedIsData, AllNumbered, Numbers, OneSaved, asCalled

LEMMA ClocksFrame ==
  ASSUME IInv, UNCHANGED <<setting, clock>>
  PROVE  ClocksInOrder'
  BY DEF IInv, ClocksInOrder, asCalled

\* What is read from a queue is the next event of it.
LEMMA ReadNumbers ==
  ASSUME IInv, NEW p \in Pipes, ~IsEmpty(p), PipeRead(p),
         UNCHANGED <<setting, pushed>>, saved = NoEvent \/ p # DATA_PIPE
  PROVE  LET q == First(p) IN
         /\ OneSaved(q) = 0
         /\ Head(Waiting(p)).n = pushed[q] - Len(content'[q])
         /\ Len(content'[q]) < pushed[q] - handled[q]
         /\ \A i \in DOMAIN content'[q] :
              content'[q][i].n = pushed[q] - Len(content'[q]) + i
         /\ \A x \in Queues \ {q} : content'[x] = content[x]
<1> DEFINE q == First(p)
<1>1. /\ q \in Queues /\ setting.type[q] = p /\ content[q] # << >>
      /\ content' = [content EXCEPT ![q] = Tail(@)]
  BY ReadFacts DEF IInv
<1>2. /\ content \in [Queues -> Seq(Item)]
      /\ pushed[q] \in Nat /\ handled[q] \in Nat
  BY <1>1 DEF IInv, TypeOK
<1>3. OneSaved(q) = 0
  BY <1>1 DEF IInv, SavedIsData, OneSaved
<1>4. Numbers(q)
  BY <1>1 DEF IInv, AllNumbered
<1> PICK h : h = pushed[q] - Len(content[q])
  OBVIOUS
<1>5. /\ content[q] \in Seq(Item) /\ Len(content[q]) \in Nat
      /\ Len(content[q]) <= pushed[q] - handled[q]
      /\ h \in Nat
      /\ \A i \in DOMAIN content[q] : content[q][i].n = h + i
  BY <1>1, <1>2, <1>3, <1>4 DEF Numbers
<1>6. /\ Head(content[q]).n = h + 1
      /\ Len(Tail(content[q])) = Len(content[q]) - 1
      /\ \A i \in DOMAIN Tail(content[q]) :
           Tail(content[q])[i].n = h + 1 + i
  BY <1>1, <1>2, <1>5, NumbersOfTail, Zenon
<1>7. content'[q] = Tail(content[q])
  BY <1>1, <1>2
<1>8. pushed[q] - Len(content'[q]) = h + 1
  BY <1>2, <1>5, <1>6, <1>7
<1>9. \A i \in DOMAIN content'[q] :
        content'[q][i].n = pushed[q] - Len(content'[q]) + i
  BY <1>6, <1>7, <1>8, Zenon
<1>10. Head(Waiting(p)).n = pushed[q] - Len(content'[q])
  BY <1>6, <1>8 DEF Waiting, First
<1>11. \A x \in Queues \ {q} : content'[x] = content[x]
  BY <1>1, <1>2
<1>12. Len(content'[q]) < pushed[q] - handled[q]
  BY <1>2, <1>5, <1>6, <1>7
<1> QED BY <1>3, <1>9, <1>10, <1>11, <1>12

\* A read whose event is handed on, or dropped on purpose, or lost.
LEMMA ReadIsHanded ==
  ASSUME IInv, NEW p \in Pipes, ~IsEmpty(p), PipeRead(p),
         NEW e \in ReadAnswers(p), Hand(e),
         UNCHANGED <<setting, saved, pushed>>, saved = NoEvent \/ p # DATA_PIPE
  PROVE  /\ SavedIsData' /\ AllNumbered'
         /\ handled' \in [Queues -> Nat]
         /\ \A x \in Queues : handled'[x] <= pushed[x]
<1>0. /\ TypeOK /\ SavedIsData /\ handled \in [Queues -> Nat]
      /\ pushed \in [Queues -> Nat] /\ \A x \in Queues : handled[x] <= pushed[x]
  BY DEF IInv, TypeOK
<1> PICK q : q = First(p)
  OBVIOUS
<1>1. /\ q \in Queues /\ Head(Waiting(p)) \in Item /\ Head(Waiting(p)).q = q
      /\ Waiting(p) # << >>
      /\ content' \in [Queues -> Seq(Item)] /\ Len(content'[q]) \in Nat
  BY <1>0, ReadFacts DEF ContentOK
<1>2. SavedIsData'
  BY <1>0 DEF SavedIsData, asCalled
<1>3. /\ OneSaved(q) = 0
      /\ Head(Waiting(p)).n = pushed[q] - Len(content'[q])
      /\ Len(content'[q]) < pushed[q] - handled[q]
      /\ \A i \in DOMAIN content'[q] :
           content'[q][i].n = pushed[q] - Len(content'[q]) + i
      /\ \A x \in Queues \ {q} : content'[x] = content[x]
  BY ReadNumbers, Zenon
<1>4. /\ handled' \in [Queues -> Nat]
      /\ Len(content'[q]) <= pushed[q] - handled'[q]
      /\ \A x \in Queues \ {q} : handled'[x] = handled[x]
  <2>1. CASE ~asCalled
    <3>1. handled' = handled
      BY <1>0, <1>1, <2>1, AnswerFacts DEF Hand
    <3> QED BY <1>0, <1>1, <1>3, <3>1
  <2>2. CASE asCalled
    <3>1. e # NoEvent /\ e.q = q /\ e.n = Head(Waiting(p)).n
      BY <1>0, <1>1, <2>2, AnswerFacts
    <3>2. handled' = [handled EXCEPT ![q] = pushed[q] - Len(content'[q])]
      BY <1>3, <3>1 DEF Hand
    <3>3. pushed[q] - Len(content'[q]) \in Nat
      BY <1>0, <1>1, <1>3
    <3> QED BY <1>0, <1>1, <3>2, <3>3
  <2> QED BY <2>1, <2>2
<1>5. \A x \in Queues : OneSaved(x)' = OneSaved(x)
  BY DEF OneSaved
<1>6. Numbers(q)'
  BY <1>0, <1>1, <1>3, <1>4, <1>5 DEF Numbers
<1>7. ASSUME NEW x \in Queues \ {q}
      PROVE  Numbers(x)'
  <2>1. /\ content'[x] = content[x] /\ handled'[x] = handled[x]
        /\ OneSaved(x)' = OneSaved(x) /\ pushed'[x] = pushed[x]
        /\ saved' = saved
    BY <1>3, <1>4, <1>5
  <2>2. Numbers(x)
    BY DEF IInv, AllNumbered
  <2> QED BY <2>1, <2>2 DEF Numbers
<1>8. \A x \in Queues : handled'[x] <= pushed[x]
  <2>1. handled'[q] \in Nat /\ pushed[q] \in Nat
    BY <1>0, <1>1, <1>4
  <2>2. handled'[q] <= pushed[q]
    BY <1>1, <1>4, <2>1
  <2> QED BY <1>0, <1>4, <2>2
<1> QED BY <1>2, <1>4, <1>6, <1>7, <1>8 DEF AllNumbered

\* A read of the data pipe whose event is saved.
LEMMA ReadIsSaved ==
  ASSUME IInv, asCalled, saved = NoEvent,
         ~IsEmpty(DATA_PIPE), PipeRead(DATA_PIPE),
         saved' \in Item, saved'.q = Head(Waiting(DATA_PIPE)).q,
         saved'.n = Head(Waiting(DATA_PIPE)).n,
         UNCHANGED <<setting, pushed, handled>>
  PROVE  SavedIsData' /\ AllNumbered'
<1> PICK q : q = First(DATA_PIPE)
  OBVIOUS
<1>0. TypeOK /\ DATA_PIPE \in Pipes /\ pushed[q] = pushed'[q]
  BY DEF IInv, DATA_PIPE, Pipes
<1>1. /\ q \in Queues /\ setting.type[q] = DATA_PIPE /\ saved'.q = q
      /\ handled[q] \in Nat /\ pushed[q] \in Nat /\ Len(content'[q]) \in Nat
  BY <1>0, ReadFacts DEF TypeOK, ContentOK
<1>2. /\ OneSaved(q) = 0
      /\ saved'.n = pushed[q] - Len(content'[q])
      /\ Len(content'[q]) < pushed[q] - handled[q]
      /\ \A i \in DOMAIN content'[q] :
           content'[q][i].n = pushed[q] - Len(content'[q]) + i
      /\ \A x \in Queues \ {q} : content'[x] = content[x]
  BY <1>0, ReadNumbers, Zenon
<1>3. SavedIsData'
  BY <1>1 DEF SavedIsData, asCalled
<1>4. Numbers(q)'
  <2>1. OneSaved(q)' = 1
    BY <1>1, NoEventAssumption DEF OneSaved
  <2> QED BY <1>0, <1>1, <1>2, <2>1 DEF Numbers
<1>5. ASSUME NEW x \in Queues \ {q}
      PROVE  Numbers(x)'
  <2>1. OneSaved(x)' = 0 /\ OneSaved(x) = 0
    BY <1>1 DEF OneSaved
  <2>2. Numbers(x)
    BY DEF IInv, AllNumbered
  <2> QED BY <1>2, <2>1, <2>2 DEF Numbers
<1> QED BY <1>3, <1>4, <1>5 DEF AllNumbered

-----------------------------------------------------------------------------
(***************************************************************************)
(* The other threads, and the loop thread between two calls of dequeue.    *)
(***************************************************************************)
LEMMA InitHolds == Init => IInv
<1> SUFFICES ASSUME Init
             PROVE  IInv
  OBVIOUS
<1>1. TypeOK
  <2>1. setting \in Settings /\ pending \in Seq(Queues)
        /\ slot \in Queues \cup {NoQueue}
    BY DEF Init
  <2>2. /\ line \in [Pipes -> Seq(Queues)]
        /\ \A p \in Pipes : \A i \in DOMAIN line[p] : setting.type[line[p][i]] = p
    BY DEF Init
  <2>3. /\ content \in [Queues -> Seq(Item)]
        /\ \A q \in Queues : \A i \in DOMAIN content[q] : content[q][i].q = q
    BY DEF Init
  <2>4. clock \in [Clocks -> Seq(Times)]
    BY DEF Init
  <2>5. /\ saved \in Item \cup {NoEvent} /\ at = "idle"
        /\ stop \in BOOLEAN /\ ahead \in BOOLEAN /\ handed \subseteq Queues
    BY DEF Init
  <2>6. /\ pushed \in [Queues -> Nat] /\ handled \in [Queues -> Nat]
        /\ \A q \in Queues : handled[q] <= pushed[q] /\ pushed[q] <= MaxPushes[q]
        /\ added \in 0 .. MaxReminders
    BY BoundsAssumption DEF Init
  <2> QED BY <2>1, <2>2, <2>3, <2>4, <2>5, <2>6 DEF TypeOK
<1>2. ClocksInOrder /\ SavedIsData
  BY DEF Init, ClocksInOrder, SavedIsData, Clocks
<1>3. AllNumbered
  BY DEF Init, AllNumbered, Numbers, OneSaved
<1>4. PastClocks /\ AheadStays
  BY DEF Init, PastClocks, AheadStays
<1> QED BY <1>1, <1>2, <1>3, <1>4 DEF IInv

LEMMA PushKeeps ==
  ASSUME IInv, NEW q \in Queues, NEW e \in EventsOf[q], Push(q, e)
  PROVE  IInv'
<1> DEFINE x == Numbered(e, pushed[q] + 1, q, TRUE)
<1>0. /\ TypeOK /\ pushed \in [Queues -> Nat] /\ content \in [Queues -> Seq(Item)]
      /\ \A y \in Queues : handled[y] <= pushed[y] /\ pushed[y] <= MaxPushes[y]
      /\ handled \in [Queues -> Nat] /\ MaxPushes \in [Queues -> Nat]
  BY BoundsAssumption DEF IInv, TypeOK
<1>1. x \in Item /\ x.q = q /\ x.n = pushed[q] + 1
  BY <1>0, EventsAssumption DEF Numbered, Item
<1> HIDE DEF x
<1>2. /\ content' = [content EXCEPT ![q] = Append(content[q], x)]
      /\ pushed' = [pushed EXCEPT ![q] = pushed[q] + 1]
      /\ pushed[q] < MaxPushes[q] /\ ~Over
      /\ UNCHANGED <<setting, pending, slot, line, clock, saved, stop, at,
                     handed, handled, added, ahead>>
  BY DEF Push, x
<1>3. /\ content' \in [Queues -> Seq(Item)]
      /\ \A y \in Queues : \A i \in DOMAIN content'[y] : content'[y][i].q = y
  <2>1. /\ Append(content[q], x) \in Seq(Item)
        /\ DOMAIN Append(content[q], x) = 1 .. Len(content[q]) + 1
        /\ \A i \in 1 .. Len(content[q]) + 1 :
             Append(content[q], x)[i] =
               IF i <= Len(content[q]) THEN content[q][i] ELSE x
    BY <1>0, <1>1
  <2>2. \A i \in DOMAIN content[q] : content[q][i].q = q
    BY <1>0 DEF TypeOK
  <2>3. \A i \in DOMAIN Append(content[q], x) : Append(content[q], x)[i].q = q
    BY <1>0, <1>1, <2>1, <2>2
  <2> QED BY <1>0, <1>2, <2>1, <2>3 DEF TypeOK
<1>4. TypeOK'
  <2>1. /\ pushed' \in [Queues -> Nat]
        /\ \A y \in Queues : handled[y] <= pushed'[y] /\ pushed'[y] <= MaxPushes[y]
    BY <1>0, <1>2
  <2> QED BY <1>0, <1>2, <1>3, <2>1 DEF TypeOK
<1>5. ClocksInOrder'
  BY <1>2, ClocksFrame
<1>6. SavedIsData'
  BY <1>2 DEF IInv, SavedIsData, asCalled
<1>7. AllNumbered'
  <2> SUFFICES ASSUME NEW y \in Queues
               PROVE  Numbers(y)'
    BY DEF AllNumbered
  <2>1. Numbers(y) /\ Numbers(q)
    BY <1>2 DEF IInv, AllNumbered
  <2>2. OneSaved(y)' = OneSaved(y) /\ saved' = saved /\ handled' = handled
    BY <1>2 DEF OneSaved
  <2>3. CASE y # q
    <3>1. content'[y] = content[y] /\ pushed'[y] = pushed[y]
      BY <1>0, <1>2, <2>3
    <3> QED BY <2>1, <2>2, <3>1 DEF Numbers
  <2>4. CASE y = q
    <3> PICK h : h = pushed[q] - Len(content[q])
      OBVIOUS
    <3>1. /\ content[q] \in Seq(Item) /\ Len(content[q]) \in Nat
          /\ OneSaved(q) \in {0, 1}
          /\ handled[q] \in Nat /\ pushed[q] \in Nat
      BY <1>0, OneSavedIs
    <3>2. /\ Len(content[q]) + OneSaved(q) <= pushed[q] - handled[q]
          /\ OneSaved(q) = 1 => saved.n = h
          /\ \A i \in DOMAIN content[q] : content[q][i].n = h + i
      BY <2>1 DEF Numbers
    <3>3. h \in Nat /\ x.n = h + Len(content[q]) + 1
      BY <1>1, <3>1, <3>2
    <3>4. /\ Len(Append(content[q], x)) = Len(content[q]) + 1
          /\ \A i \in DOMAIN Append(content[q], x) :
               Append(content[q], x)[i].n = h + i
      BY <1>1, <3>1, <3>2, <3>3, NumbersOfAppend, Zenon
    <3>5. content'[q] = Append(content[q], x) /\ pushed'[q] = pushed[q] + 1
      BY <1>0, <1>2
    <3>6. pushed'[q] - Len(content'[q]) = h
      BY <3>1, <3>4, <3>5
    <3>7. Len(content'[q]) + OneSaved(q) <= pushed'[q] - handled[q]
      BY <3>1, <3>2, <3>4, <3>5
    <3>8. \A i \in DOMAIN content'[q] : content'[q][i].n = h + i
      BY <3>4, <3>5, Zenon
    <3> QED BY <2>2, <2>4, <3>2, <3>6, <3>7, <3>8 DEF Numbers
  <2> QED BY <2>3, <2>4
<1>8. PastClocks'
  BY <1>2 DEF IInv, PastClocks, Blocked, ExchangeDue, realtime, before
<1>9. AheadStays'
  <2>1. ASSUME NEW p \in Pipes, ~IsEmpty(p)
        PROVE  ~IsEmpty(p)'
    <3>1. line[p] # << >> /\ content[Head(line[p])] # << >> /\ line' = line
      BY <1>2, <2>1 DEF IsEmpty
    <3>2. Head(line[p]) \in Queues
      BY <1>0, <3>1 DEF TypeOK
    <3>3. content'[Head(line[p])] # << >>
      <4>1. CASE Head(line[p]) = q
        <5>1. content'[q] = Append(content[q], x) /\ content[q] \in Seq(Item)
          BY <1>0, <1>2
        <5> QED BY <1>1, <4>1, <5>1
      <4>2. CASE Head(line[p]) # q
        BY <1>0, <1>2, <3>1, <3>2, <4>2
      <4> QED BY <4>1, <4>2
    <3> QED BY <3>1, <3>3 DEF IsEmpty
  <2>2. EXECUTION_PIPE \in Pipes /\ SERVICE_PIPE \in Pipes
    BY DEF EXECUTION_PIPE, SERVICE_PIPE, Pipes
  <2> QED BY <1>2, <2>1, <2>2 DEF IInv, AheadStays, realtime
<1> QED BY <1>4, <1>5, <1>6, <1>7, <1>8, <1>9 DEF IInv

LEMMA AddQueueKeeps ==
  ASSUME IInv, NEW q \in Queues, AddQueue(q)
  PROVE  IInv'
<1>1. TypeOK'
  BY DEF IInv, TypeOK, AddQueue, pipeVars
<1>2. SavedIsData' /\ AllNumbered'
  BY EventsFrame DEF AddQueue, pipeVars
<1>3. ClocksInOrder'
  BY ClocksFrame DEF AddQueue
<1>4. PastClocks' /\ AheadStays'
  BY DEF IInv, PastClocks, AheadStays, AddQueue, Blocked, ExchangeDue,
         IsEmpty, realtime, before, pipeVars
<1> QED BY <1>1, <1>2, <1>3, <1>4 DEF IInv

LEMMA AddQueueOwnKeeps ==
  ASSUME IInv, NEW q \in Queues, AddQueueOwn(q)
  PROVE  IInv'
<1>1. TypeOK'
  <2>1. LinesOK'
    BY PipeAddFacts DEF IInv, AddQueueOwn
  <2> QED BY <2>1 DEF IInv, TypeOK, AddQueueOwn, LinesOK
<1>2. SavedIsData' /\ AllNumbered'
  BY EventsFrame DEF AddQueueOwn
<1>3. ClocksInOrder'
  BY ClocksFrame DEF AddQueueOwn
<1>4. PastClocks' /\ AheadStays'
  BY OutsidePass DEF AddQueueOwn
<1> QED BY <1>1, <1>2, <1>3, <1>4 DEF IInv

LEMMA AddReminderKeeps ==
  ASSUME IInv, NEW c \in Clocks, NEW t0 \in Times, AddReminder(c, t0)
  PROVE  IInv'
<1>0. clock \in [Clocks -> Seq(Times)] /\ at = "idle" /\ Times \subseteq Nat
  BY NowAssumption DEF IInv, TypeOK, AddReminder
<1> PICK s : s = clock[c]
  OBVIOUS
<1>1. PICK i \in 1 .. Len(s) + 1, t \in Times :
        /\ asCalled => \A j \in DOMAIN s : j < i <=> s[j] <= t
        /\ clock' = [clock EXCEPT ![c] = InsertAt(s, i, t)]
  BY DEF AddReminder
<1>2. PICK u : u = InsertAt(s, i, t)
  OBVIOUS
<1>3. s \in Seq(Times)
  BY <1>0
<1>4. /\ u \in Seq(Times) /\ Len(u) = Len(s) + 1
      /\ \A j \in 1 .. Len(s) + 1 :
           u[j] = IF j < i THEN s[j] ELSE IF j = i THEN t ELSE s[j - 1]
  <2>1. IsWith(InsertAt(s, i, t), s, i, t, Times)
    BY <1>3, InsertAtFacts, Zenon
  <2>2. IsWith(u, s, i, t, Times)
    BY <1>2, <2>1, Zenon
  <2> QED BY <2>2 DEF IsWith
<1>5. clock' = [clock EXCEPT ![c] = u]
  BY <1>1, <1>2
<1>6. TypeOK'
  <2>1. clock' \in [Clocks -> Seq(Times)]
    BY <1>0, <1>4, <1>5
  <2>2. added' \in 0 .. MaxReminders
    BY BoundsAssumption DEF IInv, TypeOK, AddReminder
  <2> QED BY <2>1, <2>2 DEF IInv, TypeOK, AddReminder, pipeVars, producerVars
<1>7. ClocksInOrder'
  <2> SUFFICES ASSUME asCalled
               PROVE  \A d \in Clocks : \A j, k \in DOMAIN clock'[d] :
                        j <= k => clock'[d][j] <= clock'[d][k]
    BY DEF ClocksInOrder, AddReminder, asCalled
  <2>1. ASSUME NEW j \in DOMAIN u, NEW k \in DOMAIN u, j <= k
        PROVE  u[j] <= u[k]
    <3>1. \A m, n \in DOMAIN s : m <= n => s[m] <= s[n]
      BY DEF IInv, ClocksInOrder
    <3>2. \A m \in DOMAIN s : m < i <=> s[m] <= t
      BY <1>1
    <3>3. \A m \in DOMAIN s : s[m] \in Nat
      <4>1. \A m \in DOMAIN s : s[m] \in Times
        BY <1>3
      <4> QED BY <1>0, <4>1
    <3>4. /\ j \in 1 .. Len(s) + 1 /\ k \in 1 .. Len(s) + 1
          /\ DOMAIN s = 1 .. Len(s) /\ Len(s) \in Nat /\ t \in Nat
      BY <1>0, <1>3, <1>4
    <3>5. CASE k < i
      <4>1. j \in DOMAIN s /\ k \in DOMAIN s /\ u[j] = s[j] /\ u[k] = s[k]
        BY <1>4, <2>1, <3>4, <3>5
      <4> QED BY <2>1, <3>1, <4>1
    <3>6. CASE k = i
      <4>1. u[k] = t
        BY <1>4, <3>4, <3>6
      <4>2. CASE j = i
        BY <3>4, <3>6, <4>1, <4>2
      <4>3. CASE j < i
        <5>1. j \in DOMAIN s /\ u[j] = s[j]
          BY <1>4, <3>4, <4>3
        <5> QED BY <3>2, <4>1, <4>3, <5>1
      <4> QED BY <2>1, <3>4, <3>6, <4>2, <4>3
    <3>7. CASE k > i
      <4>1. k - 1 \in DOMAIN s /\ ~(k - 1 < i) /\ u[k] = s[k - 1]
        BY <1>4, <3>4, <3>7
      <4>2. t < s[k - 1]
        BY <3>2, <3>3, <3>4, <4>1
      <4>3. CASE j < i
        <5>1. j \in DOMAIN s /\ j <= k - 1 /\ u[j] = s[j]
          BY <1>4, <3>4, <3>7, <4>3
        <5> QED BY <3>1, <4>1, <5>1
      <4>4. CASE j = i
        BY <1>4, <3>3, <3>4, <4>1, <4>2, <4>4
      <4>5. CASE j > i
        <5>1. j - 1 \in DOMAIN s /\ j - 1 <= k - 1 /\ u[j] = s[j - 1]
          BY <1>4, <2>1, <3>4, <4>5
        <5> QED BY <3>1, <4>1, <5>1
      <4> QED BY <3>4, <4>3, <4>4, <4>5
    <3> QED BY <3>4, <3>5, <3>6, <3>7
  <2>2. ASSUME NEW d \in Clocks
        PROVE  \A j, k \in DOMAIN clock'[d] :
                 j <= k => clock'[d][j] <= clock'[d][k]
    <3>1. CASE d = c
      BY <1>0, <1>5, <2>1, <3>1
    <3>2. CASE d # c
      BY <1>0, <1>5, <3>2 DEF IInv, ClocksInOrder
    <3> QED BY <3>1, <3>2
  <2> QED BY <2>2
<1>8. SavedIsData' /\ AllNumbered'
  BY EventsFrame DEF AddReminder, pipeVars, producerVars
<1>9. PastClocks' /\ AheadStays'
  BY OutsidePass DEF AddReminder
<1> QED BY <1>6, <1>7, <1>8, <1>9 DEF IInv

LEMMA AddReminderAbortsKeeps ==
  ASSUME IInv, NEW c \in Clocks, NEW t \in Times, AddReminderAborts(c, t)
  PROVE  IInv'
<1>1. TypeOK'
  BY DEF IInv, TypeOK, AddReminderAborts, pipeVars, producerVars
<1>2. SavedIsData' /\ AllNumbered'
  BY EventsFrame DEF AddReminderAborts, pipeVars, producerVars
<1>3. ClocksInOrder'
  BY ClocksFrame DEF AddReminderAborts
<1>4. PastClocks' /\ AheadStays'
  BY OutsidePass DEF AddReminderAborts
<1> QED BY <1>1, <1>2, <1>3, <1>4 DEF IInv

LEMMA ClearKeeps ==
  ASSUME IInv, Clear
  PROVE  IInv'
<1>0. /\ at' \in {"stopped", "crashed"} /\ saved' = NoEvent
      /\ clock' = [c \in Clocks |-> << >>] /\ stop' = FALSE
      /\ line' = [p \in Pipes |-> << >>]
      /\ UNCHANGED <<setting, pending, slot, content, pushed, handed, handled,
                     added, ahead>>
  BY DEF Clear, producerVars
<1>1. TypeOK'
  <2>1. /\ line' \in [Pipes -> Seq(Queues)]
        /\ \A p \in Pipes : \A i \in DOMAIN line'[p] : setting.type[line'[p][i]] = p
    BY <1>0
  <2>2. clock' \in [Clocks -> Seq(Times)]
    BY <1>0
  <2> QED BY <1>0, <2>1, <2>2 DEF IInv, TypeOK
<1>2. ClocksInOrder'
  BY <1>0 DEF ClocksInOrder
<1>3. SavedIsData' /\ AllNumbered'
  <2>1. SavedIsData'
    BY <1>0 DEF SavedIsData
  <2>2. ASSUME NEW q \in Queues
        PROVE  Numbers(q)'
    <3>1. Numbers(q) /\ OneSaved(q) \in {0, 1} /\ OneSaved(q)' = 0
      BY <1>0, OneSavedIs DEF IInv, AllNumbered, OneSaved
    <3>2. pushed[q] \in Nat /\ handled[q] \in Nat /\ Len(content[q]) \in Nat
      BY DEF IInv, TypeOK
    <3> QED BY <1>0, <3>1, <3>2 DEF Numbers
  <2> QED BY <2>1, <2>2 DEF AllNumbered
<1>4. PastClocks' /\ AheadStays'
  BY <1>0, OutsidePass
<1> QED BY <1>1, <1>2, <1>3, <1>4 DEF IInv

-----------------------------------------------------------------------------
(***************************************************************************)
(* dequeue: the pending queues.                                            *)
(***************************************************************************)
LEMMA EnterKeeps ==
  ASSUME IInv, Enter
  PROVE  IInv'
<1>1. TypeOK'
  BY DEF IInv, TypeOK, Enter, loopData, pipeVars, producerVars
<1>2. SavedIsData' /\ AllNumbered'
  BY EventsFrame DEF Enter, loopData, pipeVars, producerVars
<1>3. ClocksInOrder'
  BY ClocksFrame DEF Enter, loopData
<1>4. PastClocks' /\ AheadStays'
  BY OutsidePass DEF Enter
<1> QED BY <1>1, <1>2, <1>3, <1>4 DEF IInv

\* What a pop leaves in its place and in the ring.
LEMMA PopPendingFacts ==
  ASSUME TypeOK, PopPending
  PROVE  pending' \in Seq(Queues) /\ slot' \in Queues \cup {NoQueue}
<1>1. pending \in Seq(Queues) /\ slot \in Queues \cup {NoQueue}
  BY DEF TypeOK
<1>2. CASE pending = << >>
  BY <1>1, <1>2 DEF PopPending
<1>3. CASE pending # << >>
  <2>1. Head(pending) \in Queues /\ Tail(pending) \in Seq(Queues)
    BY <1>1, <1>3
  <2> QED BY <1>3, <2>1 DEF PopPending
<1> QED BY <1>2, <1>3

LEMMA DrainAddKeeps ==
  ASSUME IInv, DrainAdd
  PROVE  IInv'
<1>1. /\ at = "pending"
      /\ UNCHANGED <<setting, clock, saved, stop, pushed, handed, added,
                     content, at, handled, ahead>>
      /\ pending' \in Seq(Queues)
  BY PopPendingFacts DEF DrainAdd, loopData, producerVars, IInv
<1>2. PICK q \in Queues : slot' = q /\ PipeAdd(q)
  BY DEF DrainAdd
<1>3. TypeOK'
  <2>1. LinesOK'
    BY <1>1, <1>2, PipeAddFacts DEF IInv
  <2> QED BY <1>1, <1>2, <2>1 DEF IInv, TypeOK, LinesOK
<1>4. SavedIsData' /\ AllNumbered'
  BY <1>1, EventsFrame
<1>5. ClocksInOrder'
  BY <1>1, ClocksFrame
<1>6. PastClocks' /\ AheadStays'
  BY <1>1, OutsidePass
<1> QED BY <1>3, <1>4, <1>5, <1>6 DEF IInv

LEMMA DrainCrashKeeps ==
  ASSUME IInv, DrainCrash
  PROVE  IInv'
<1>1. TypeOK'
  BY DEF IInv, TypeOK, DrainCrash, loopData, pipeVars, producerVars
<1>2. SavedIsData' /\ AllNumbered'
  BY EventsFrame DEF DrainCrash, loopData, pipeVars, producerVars
<1>3. ClocksInOrder'
  BY ClocksFrame DEF DrainCrash, loopData
<1>4. PastClocks' /\ AheadStays'
  BY OutsidePass DEF DrainCrash
<1> QED BY <1>1, <1>2, <1>3, <1>4 DEF IInv

LEMMA DrainEndKeeps ==
  ASSUME IInv, DrainEnd
  PROVE  IInv'
<1>1. /\ at = "pending" /\ at' = "data" /\ ahead' \in BOOLEAN
      /\ UNCHANGED <<setting, clock, saved, stop, pushed, handed, added,
                     line, content, handled>>
  BY DEF DrainEnd, NewPass, loopData, pipeVars, producerVars
<1>2. TypeOK'
  <2>1. pending' \in Seq(Queues) /\ slot' \in Queues \cup {NoQueue}
    BY PopPendingFacts DEF DrainEnd, IInv
  <2> QED BY <1>1, <2>1 DEF IInv, TypeOK, Stages
<1>3. SavedIsData' /\ AllNumbered'
  BY <1>1, EventsFrame
<1>4. ClocksInOrder'
  BY <1>1, ClocksFrame
<1>5. PastClocks' /\ AheadStays'
  BY <1>1, NewPassAhead, EmptyFrame DEF DrainEnd
<1> QED BY <1>2, <1>3, <1>4, <1>5 DEF IInv

-----------------------------------------------------------------------------
(***************************************************************************)
(* dequeue: a pass.                                                        *)
(***************************************************************************)
LEMMA DataSkipKeeps ==
  ASSUME IInv, DataSkip
  PROVE  IInv'
<1>1. TypeOK'
  BY ProceedFacts DEF IInv, TypeOK, DataSkip, loopData, pipeVars, producerVars
<1>2. SavedIsData' /\ AllNumbered'
  BY EventsFrame DEF DataSkip, loopData, pipeVars, producerVars
<1>3. ClocksInOrder'
  BY ClocksFrame DEF DataSkip, loopData
<1>4. PastClocks'
  BY ProceedFacts DEF DataSkip, PastClocks, loopData, realtime
<1>5. AheadStays'
  BY ProceedAhead, EmptyFrame DEF IInv, DataSkip, loopData, pipeVars
<1> QED BY <1>1, <1>2, <1>3, <1>4, <1>5 DEF IInv

\* Reading a pipe leaves the types as they are and the other pipes alone.
LEMMA DataRead ==
  ASSUME IInv, DataPending, PipeRead(DATA_PIPE), UNCHANGED setting
  PROVE  /\ LinesOK' /\ ContentOK' /\ Head(Waiting(DATA_PIPE)) \in Item
         /\ Waiting(DATA_PIPE) # << >>
         /\ IsEmpty(EXECUTION_PIPE)' <=> IsEmpty(EXECUTION_PIPE)
         /\ IsEmpty(SERVICE_PIPE)' <=> IsEmpty(SERVICE_PIPE)
<1>1. /\ DATA_PIPE \in Pipes /\ EXECUTION_PIPE \in Pipes \ {DATA_PIPE}
      /\ SERVICE_PIPE \in Pipes \ {DATA_PIPE}
  BY DEF DATA_PIPE, EXECUTION_PIPE, SERVICE_PIPE, Pipes
<1>2. TypeOK /\ ~IsEmpty(DATA_PIPE)
  BY DEF IInv, DataPending
<1>3. /\ LinesOK' /\ ContentOK' /\ Head(Waiting(DATA_PIPE)) \in Item
      /\ Waiting(DATA_PIPE) # << >>
  BY <1>1, <1>2, ReadFacts
<1>4. /\ IsEmpty(EXECUTION_PIPE)' <=> IsEmpty(EXECUTION_PIPE)
      /\ IsEmpty(SERVICE_PIPE)' <=> IsEmpty(SERVICE_PIPE)
  BY <1>1, <1>2, OthersStay
<1> QED BY <1>3, <1>4

LEMMA DataSimulatorKeeps ==
  ASSUME IInv, DataSimulator
  PROVE  IInv'
<1>0. /\ at = "data" /\ saved = NoEvent /\ ~realtime /\ ~IsEmpty(DATA_PIPE)
      /\ PipeRead(DATA_PIPE) /\ Proceed
      /\ UNCHANGED <<setting, pending, slot, clock, stop, pushed, handed,
                     handled, added>>
  BY DEF DataSimulator, DataPending, producerVars
<1>1. /\ LinesOK' /\ ContentOK' /\ Head(Waiting(DATA_PIPE)) \in Item
      /\ Waiting(DATA_PIPE) # << >>
      /\ IsEmpty(EXECUTION_PIPE)' <=> IsEmpty(EXECUTION_PIPE)
      /\ IsEmpty(SERVICE_PIPE)' <=> IsEmpty(SERVICE_PIPE)
  BY <1>0, DataRead DEF DataSimulator
<1>2. DATA_PIPE \in Pipes /\ TypeOK /\ saved' \in ReadAnswers(DATA_PIPE)
  BY DEF DATA_PIPE, Pipes, IInv, DataSimulator
<1>3. IF asCalled
      THEN /\ saved' \in Item /\ saved' # NoEvent
           /\ saved'.q = Head(Waiting(DATA_PIPE)).q
           /\ saved'.n = Head(Waiting(DATA_PIPE)).n
      ELSE saved' = NoEvent
  BY <1>1, <1>2, AnswerFacts
<1>4. TypeOK'
  BY <1>0, <1>1, <1>3, ProceedFacts DEF IInv, TypeOK, LinesOK, ContentOK
<1>5. SavedIsData' /\ AllNumbered'
  <2>1. CASE asCalled
    BY <1>0, <1>3, <2>1, ReadIsSaved
  <2>2. CASE ~asCalled
    <3>1. saved' = saved /\ Hand(saved') /\ saved = NoEvent
      BY <1>0, <1>3, <2>2 DEF Hand
    <3> QED BY <1>0, <1>2, <3>1, ReadIsHanded
  <2> QED BY <2>1, <2>2
<1>6. ClocksInOrder'
  BY <1>0, ClocksFrame
<1>7. PastClocks'
  BY <1>0, ProceedFacts DEF PastClocks, realtime
<1>8. AheadStays'
  BY <1>0, <1>1, ProceedAhead DEF IInv
<1> QED BY <1>4, <1>5, <1>6, <1>7, <1>8 DEF IInv

LEMMA DataRealtimeKeeps ==
  ASSUME IInv, DataRealtime
  PROVE  IInv'
<1>0. /\ at = "data" /\ saved = NoEvent /\ realtime /\ ~IsEmpty(DATA_PIPE)
      /\ PipeRead(DATA_PIPE) /\ DataPending
      /\ UNCHANGED <<setting, pending, slot, clock, pushed, handed, added>>
  BY DEF DataRealtime, DataPending, producerVars
<1>1. /\ LinesOK' /\ ContentOK' /\ Head(Waiting(DATA_PIPE)) \in Item
      /\ Waiting(DATA_PIPE) # << >>
      /\ IsEmpty(EXECUTION_PIPE)' <=> IsEmpty(EXECUTION_PIPE)
      /\ IsEmpty(SERVICE_PIPE)' <=> IsEmpty(SERVICE_PIPE)
  BY <1>0, DataRead
<1>2. DATA_PIPE \in Pipes /\ TypeOK
  BY DEF DATA_PIPE, Pipes, IInv
<1>3. ClocksInOrder'
  BY <1>0, ClocksFrame
<1>4. PICK e \in ReadAnswers(DATA_PIPE) :
        \/ /\ e = NoEvent /\ Crash /\ UNCHANGED <<saved, stop, handled>>
        \/ /\ e # NoEvent /\ stop' = (stop \/ e.type = "stop")
           /\ Hand(e) /\ NewPass /\ UNCHANGED saved
        \/ /\ e # NoEvent
           /\ saved' = [e EXCEPT !.time = IF @ < Now THEN Now ELSE @]
           /\ Proceed /\ UNCHANGED <<stop, handled>>
  BY DEF DataRealtime
<1>5. IF asCalled
      THEN /\ e \in Item /\ e # NoEvent
           /\ e.q = Head(Waiting(DATA_PIPE)).q
           /\ e.n = Head(Waiting(DATA_PIPE)).n
      ELSE e = NoEvent
  BY <1>1, <1>2, AnswerFacts
<1>6. CASE e = NoEvent /\ Crash /\ UNCHANGED <<saved, stop, handled>>
  <2>2. TypeOK'
    BY <1>0, <1>1, <1>6 DEF IInv, TypeOK, LinesOK, ContentOK, Crash
  <2>3. SavedIsData' /\ AllNumbered'
    <3>1. Hand(e)
      BY <1>6 DEF Hand
    <3> QED BY <1>0, <1>2, <1>6, <3>1, ReadIsHanded
  <2>4. PastClocks' /\ AheadStays'
    BY <1>6, OutsidePass DEF Crash
  <2> QED BY <1>3, <2>2, <2>3, <2>4 DEF IInv
<1>7. CASE /\ stop' = (stop \/ e.type = "stop")
           /\ Hand(e) /\ NewPass /\ UNCHANGED saved
  <2>1. /\ SavedIsData' /\ AllNumbered'
        /\ handled' \in [Queues -> Nat]
        /\ \A x \in Queues : handled'[x] <= pushed[x]
    BY <1>0, <1>2, <1>7, ReadIsHanded
  <2>2. stop' \in BOOLEAN /\ ahead' \in BOOLEAN /\ at' = "data"
    BY <1>2, <1>7 DEF TypeOK, NewPass
  <2>3. TypeOK'
    BY <1>0, <1>1, <1>7, <2>1, <2>2
       DEF IInv, TypeOK, LinesOK, ContentOK, Stages
  <2>4. PastClocks' /\ AheadStays'
    BY <1>1, <1>7, NewPassAhead
  <2> QED BY <1>3, <2>1, <2>3, <2>4 DEF IInv
<1>8. CASE /\ e # NoEvent
           /\ saved' = [e EXCEPT !.time = IF @ < Now THEN Now ELSE @]
           /\ Proceed /\ UNCHANGED <<stop, handled>>
  <2>1. asCalled /\ e \in Item
    BY <1>5, <1>8
  <2>2. saved' \in Item /\ saved'.q = e.q /\ saved'.n = e.n
    BY <1>8, <2>1, NowAssumption DEF Item
  <2>3. TypeOK'
    BY <1>0, <1>1, <1>8, <2>2, ProceedFacts
       DEF IInv, TypeOK, LinesOK, ContentOK
  <2>4. SavedIsData' /\ AllNumbered'
    BY <1>0, <1>5, <1>8, <2>1, <2>2, ReadIsSaved
  <2>5. PastClocks'
    BY <1>0, <1>8, ProceedFacts DEF PastClocks, realtime
  <2>6. AheadStays'
    BY <1>0, <1>1, <1>8, ProceedAhead DEF IInv
  <2> QED BY <1>3, <2>3, <2>4, <2>5, <2>6 DEF IInv
<1> QED BY <1>4, <1>6, <1>7, <1>8

\* The execution and the service pipe.
LEMMA DirectKeeps ==
  ASSUME IInv, Execution \/ Service
  PROVE  IInv'
<1> PICK here, p :
      /\ \/ here = "execution" /\ p = EXECUTION_PIPE
         \/ here = "service" /\ p = SERVICE_PIPE
      /\ Direct(here, p)
  BY DEF Execution, Service
<1>0. /\ at = here /\ p \in Pipes /\ p # DATA_PIPE /\ TypeOK
      /\ UNCHANGED <<setting, pending, slot, clock, saved, stop, pushed,
                     handed, added>>
  BY DEF Direct, IInv, Pipes, DATA_PIPE, EXECUTION_PIPE, SERVICE_PIPE,
         loopData, producerVars
<1>1. ClocksInOrder'
  BY <1>0, ClocksFrame
<1>2. CASE IsEmpty(p) /\ Proceed /\ UNCHANGED <<pipeVars, handled>>
  <2>1. TypeOK'
    BY <1>0, <1>2, ProceedFacts DEF TypeOK, pipeVars
  <2>2. SavedIsData' /\ AllNumbered'
    BY <1>0, <1>2, EventsFrame DEF pipeVars
  <2>3. PastClocks'
    BY <1>0, <1>2, ProceedFacts
       DEF IInv, PastClocks, realtime, before, Blocked, ExchangeDue
  <2>4. AheadStays'
    BY <1>0, <1>2, ProceedAhead, EmptyFrame DEF IInv, pipeVars
  <2> QED BY <1>1, <2>1, <2>2, <2>3, <2>4 DEF IInv
<1>3. ASSUME ~IsEmpty(p), PipeRead(p), Return,
             NEW e \in ReadAnswers(p), Hand(e)
      PROVE  IInv'
  <2>1. LinesOK' /\ ContentOK'
    BY <1>0, <1>3, ReadFacts
  <2>2. /\ SavedIsData' /\ AllNumbered'
        /\ handled' \in [Queues -> Nat]
        /\ \A x \in Queues : handled'[x] <= pushed[x]
    BY <1>0, <1>3, ReadIsHanded
  <2>3. TypeOK'
    BY <1>0, <1>3, <2>1, <2>2 DEF TypeOK, LinesOK, ContentOK, Return
  <2>4. PastClocks' /\ AheadStays'
    BY <1>3, OutsidePass DEF Return
  <2> QED BY <1>1, <2>2, <2>3, <2>4 DEF IInv
<1> QED BY <1>2, <1>3 DEF Direct

-----------------------------------------------------------------------------
(***************************************************************************)
(* dequeue: the clocks.                                                    *)
(***************************************************************************)
\* The clocks, like what they leave to the rest of the pass, touch no event.
ClockStep ==
  /\ at = "clocks"
  /\ UNCHANGED <<setting, pending, slot, line, content, saved, stop, pushed,
                 handed, handled, added>>

LEMMA ClockStepKeeps ==
  ASSUME IInv, ClockStep
  PROVE  SavedIsData' /\ AllNumbered'
  BY EventsFrame DEF ClockStep

LEMMA PopFacts ==
  ASSUME IInv, NEW c \in Clocks, clock[c] # << >>, PopReminder(c),
         UNCHANGED setting
  PROVE  clock' \in [Clocks -> Seq(Times)] /\ ClocksInOrder'
<1> PICK s : s = clock[c]
  OBVIOUS
<1>1. /\ clock \in [Clocks -> Seq(Times)] /\ clock' = [clock EXCEPT ![c] = Tail(s)]
      /\ s \in Seq(Times) /\ s # << >>
      /\ asCalled => \A i, j \in DOMAIN s : i <= j => s[i] <= s[j]
      /\ asCalled' = asCalled
  BY DEF IInv, TypeOK, ClocksInOrder, PopReminder, asCalled
<1>2. /\ Tail(s) \in Seq(Times)
      /\ \A i \in DOMAIN Tail(s) :
           i \in Int /\ i + 1 \in DOMAIN s /\ Tail(s)[i] = s[i + 1]
  BY <1>1
<1>3. ASSUME asCalled,
             NEW i \in DOMAIN Tail(s), NEW j \in DOMAIN Tail(s), i <= j
      PROVE  Tail(s)[i] <= Tail(s)[j]
  <2>1. i + 1 \in DOMAIN s /\ j + 1 \in DOMAIN s /\ i + 1 <= j + 1
    BY <1>2, <1>3
  <2>2. s[i + 1] <= s[j + 1]
    BY <1>1, <1>3, <2>1
  <2> QED BY <1>2, <2>2, Zenon
<1>4. ASSUME asCalled, NEW d \in Clocks
      PROVE  \A i, j \in DOMAIN clock'[d] :
               i <= j => clock'[d][i] <= clock'[d][j]
  <2>1. CASE d = c
    <3>1. clock'[d] = Tail(s)
      BY <1>1, <2>1
    <3> QED BY <1>3, <1>4, <3>1, Zenon
  <2>2. CASE d # c
    BY <1>1, <1>4, <2>2 DEF IInv, ClocksInOrder
  <2> QED BY <2>1, <2>2
<1> QED BY <1>1, <1>2, <1>4 DEF ClocksInOrder

LEMMA LocalClearKeeps ==
  ASSUME IInv, LocalClear
  PROVE  IInv'
<1>1. /\ ClockStep /\ clock' = [clock EXCEPT !["local"] = << >>]
      /\ \/ Crash
         \/ Proceed /\ ~(saved # NoEvent /\ before)
  BY DEF LocalClear, ClockStep, pipeVars, producerVars
<1>2. clock' \in [Clocks -> Seq(Times)] /\ ClocksInOrder'
  <2>1. clock \in [Clocks -> Seq(Times)] /\ << >> \in Seq(Times)
    BY DEF IInv, TypeOK
  <2>2. clock' \in [Clocks -> Seq(Times)]
    BY <1>1, <2>1
  <2>4. asCalled' = asCalled
    BY <1>1 DEF ClockStep, asCalled
  <2>3. ASSUME asCalled, NEW d \in Clocks
        PROVE  \A i, j \in DOMAIN clock'[d] :
                 i <= j => clock'[d][i] <= clock'[d][j]
    <3>1. CASE d = "local"
      <4>1. clock'[d] = << >>
        BY <1>1, <2>1, <3>1
      <4> QED BY <4>1
    <3>2. CASE d # "local"
      <4>1. clock'[d] = clock[d]
        BY <1>1, <2>1, <3>2
      <4> QED BY <2>3, <4>1 DEF IInv, ClocksInOrder
    <3> QED BY <3>1, <3>2
  <2> QED BY <2>2, <2>3, <2>4 DEF ClocksInOrder
<1>3. SavedIsData' /\ AllNumbered'
  BY <1>1, ClockStepKeeps
<1>4. CASE Crash
  <2>1. TypeOK'
    BY <1>1, <1>2, <1>4 DEF IInv, TypeOK, ClockStep, Crash
  <2> QED BY <1>2, <1>3, <1>4, <2>1, OutsidePass DEF IInv, Crash
<1>5. CASE Proceed /\ ~(saved # NoEvent /\ before)
  <2>1. TypeOK'
    BY <1>1, <1>2, <1>5, ProceedFacts DEF IInv, TypeOK, ClockStep
  <2>2. PastClocks'
    BY <1>1, <1>5 DEF PastClocks, Blocked, ExchangeDue, before, ClockStep
  <2>3. AheadStays'
    BY <1>1, <1>5, ProceedAhead, EmptyFrame DEF IInv, ClockStep
  <2> QED BY <1>2, <1>3, <2>1, <2>2, <2>3 DEF IInv
<1> QED BY <1>1, <1>4, <1>5

LEMMA PopKeeps ==
  ASSUME IInv, LocalPop \/ Exchange
  PROVE  IInv'
<1> PICK c \in Clocks : clock[c] # << >> /\ PopReminder(c)
  BY DEF LocalPop, Exchange, Ending, ExchangeDue, Clocks
<1>1. ClockStep /\ Return
  BY DEF LocalPop, Exchange, ClockStep, pipeVars, producerVars
<1>2. clock' \in [Clocks -> Seq(Times)] /\ ClocksInOrder'
  BY <1>1, PopFacts DEF ClockStep
<1>3. SavedIsData' /\ AllNumbered'
  BY <1>1, ClockStepKeeps
<1>4. TypeOK'
  BY <1>1, <1>2 DEF IInv, TypeOK, ClockStep, Return
<1> QED BY <1>1, <1>2, <1>3, <1>4, OutsidePass DEF IInv, Return

\* A pass that the clocks end, without an event.
LEMMA ClocksEndKeeps ==
  ASSUME IInv, LocalBreak \/ LocalCrash
  PROVE  IInv'
<1>1. /\ ClockStep /\ UNCHANGED <<clock, ahead>> /\ at' \in {"idle", "crashed"}
  BY DEF LocalBreak, LocalCrash, ClockStep, Return, Crash, loopData, pipeVars,
         producerVars
<1>2. SavedIsData' /\ AllNumbered'
  BY <1>1, ClockStepKeeps
<1>3. TypeOK'
  BY <1>1 DEF IInv, TypeOK, ClockStep
<1>4. ClocksInOrder'
  BY <1>1, ClocksFrame DEF ClockStep
<1> QED BY <1>1, <1>2, <1>3, <1>4, OutsidePass DEF IInv

LEMMA ClocksSkipKeeps ==
  ASSUME IInv, ClocksSkip
  PROVE  IInv'
<1>1. /\ ClockStep /\ UNCHANGED clock /\ Proceed /\ ~Blocked /\ ~ExchangeDue
  BY DEF ClocksSkip, ClockStep, loopData, pipeVars, producerVars
<1>2. SavedIsData' /\ AllNumbered'
  BY <1>1, ClockStepKeeps
<1>3. TypeOK'
  BY <1>1, ProceedFacts DEF IInv, TypeOK, ClockStep
<1>4. PastClocks'
  BY <1>1 DEF PastClocks, Blocked, ExchangeDue, before, ClockStep
<1>5. AheadStays'
  BY <1>1, ProceedAhead, EmptyFrame DEF IInv, ClockStep
<1>6. ClocksInOrder'
  BY <1>1, ClocksFrame DEF ClockStep
<1> QED BY <1>2, <1>3, <1>4, <1>5, <1>6 DEF IInv

-----------------------------------------------------------------------------
(***************************************************************************)
(* dequeue: the saved event.                                               *)
(***************************************************************************)
LEMMA SavedIsHanded ==
  ASSUME IInv, saved # NoEvent, Hand(saved), saved' = NoEvent,
         UNCHANGED <<setting, content, pushed>>
  PROVE  /\ SavedIsData' /\ AllNumbered'
         /\ handled' \in [Queues -> Nat]
         /\ \A x \in Queues : handled'[x] <= pushed[x]
         /\ handled'[saved.q] = saved.n
<1> PICK q : q = saved.q
  OBVIOUS
<1>1. /\ q \in Queues /\ handled \in [Queues -> Nat]
      /\ pushed \in [Queues -> Nat] /\ \A x \in Queues : handled[x] <= pushed[x]
      /\ \A x \in Queues : Len(content[x]) \in Nat
      /\ saved.n \in Nat
  BY DEF IInv, TypeOK, Item
<1>2. \A x \in Queues : Numbers(x)
  BY DEF IInv, AllNumbered
<1>3. /\ OneSaved(q) = 1 /\ \A x \in Queues \ {q} : OneSaved(x) = 0
      /\ \A x \in Queues : OneSaved(x)' = 0
  BY DEF OneSaved
<1>4. saved.n = pushed[q] - Len(content[q])
  BY <1>1, <1>2, <1>3 DEF Numbers
<1>5. handled' = [handled EXCEPT ![q] = saved.n]
  BY DEF Hand
<1>6. handled'[q] = saved.n /\ handled' \in [Queues -> Nat]
  BY <1>1, <1>5
<1>7. Numbers(q)'
  BY <1>1, <1>2, <1>3, <1>4, <1>6 DEF Numbers
<1>8. ASSUME NEW x \in Queues \ {q}
      PROVE  Numbers(x)'
  <2>1. handled'[x] = handled[x] /\ OneSaved(x) = 0 /\ OneSaved(x)' = 0
    BY <1>1, <1>3, <1>5
  <2>2. Numbers(x)
    BY <1>2
  <2> QED BY <2>1, <2>2 DEF Numbers
<1>9. \A x \in Queues : handled'[x] <= pushed[x]
  BY <1>1, <1>4, <1>5, <1>6
<1> QED BY <1>6, <1>7, <1>8, <1>9 DEF SavedIsData, AllNumbered

LEMMA SavedKeeps ==
  ASSUME IInv, Saved
  PROVE  IInv'
<1>1. /\ at = "saved" /\ saved' = NoEvent
      /\ UNCHANGED <<setting, pending, slot, line, content, clock, pushed,
                     handed, added>>
  BY DEF Saved, pipeVars, producerVars
<1>2. ClocksInOrder'
  BY <1>1, ClocksFrame
<1>3. CASE saved # NoEvent /\ Hand(saved) /\ Return /\ UNCHANGED stop
  <2>1. /\ SavedIsData' /\ AllNumbered'
        /\ handled' \in [Queues -> Nat]
        /\ \A x \in Queues : handled'[x] <= pushed[x]
    BY <1>1, <1>3, SavedIsHanded
  <2>2. TypeOK'
    BY <1>1, <1>3, <2>1 DEF IInv, TypeOK, Return
  <2> QED BY <1>2, <1>3, <2>1, <2>2, OutsidePass DEF IInv, Return
<1>4. CASE /\ saved = NoEvent /\ UNCHANGED handled
           /\ (Return \/ Crash \/ NewPass) /\ (UNCHANGED stop \/ stop' = FALSE)
  <2>1. SavedIsData' /\ AllNumbered'
    BY <1>1, <1>4, EventsFrame
  <2>2. TypeOK'
    <3>1. /\ at' \in Stages \cup {"idle", "pending", "crashed", "stopped"}
          /\ ahead' \in BOOLEAN /\ stop' \in BOOLEAN
      BY <1>4 DEF IInv, TypeOK, Return, Crash, NewPass, Stages
    <3> QED BY <1>1, <1>4, <3>1 DEF IInv, TypeOK
  <2>3. PastClocks' /\ AheadStays'
    BY <1>1, <1>4, OutsidePass, NewPassAhead, EmptyFrame DEF Return, Crash
  <2> QED BY <1>2, <2>1, <2>2, <2>3 DEF IInv
<1> QED BY <1>3, <1>4 DEF Saved

-----------------------------------------------------------------------------
(***************************************************************************)
(* The invariant, and what follows from it.                                *)
(***************************************************************************)
LEMMA NextKeeps == IInv /\ [Next]_vars => IInv'
<1> SUFFICES ASSUME IInv, [Next]_vars
             PROVE  IInv'
  OBVIOUS
<1>1. CASE \E q \in Queues :
             \/ \E e \in EventsOf[q] : Push(q, e)
             \/ AddQueue(q) \/ AddQueueOwn(q)
  BY <1>1, PushKeeps, AddQueueKeeps, AddQueueOwnKeeps
<1>2. CASE \E c \in Clocks, t \in Times :
             AddReminder(c, t) \/ AddReminderAborts(c, t)
  BY <1>2, AddReminderKeeps, AddReminderAbortsKeeps
<1>3. CASE Loop
  <2>1. CASE Enter \/ DrainAdd \/ DrainCrash \/ DrainEnd
    BY <2>1, EnterKeeps, DrainAddKeeps, DrainCrashKeeps, DrainEndKeeps
  <2>2. CASE DataSkip \/ DataSimulator \/ DataRealtime
    BY <2>2, DataSkipKeeps, DataSimulatorKeeps, DataRealtimeKeeps
  <2>3. CASE Execution \/ Service
    BY <2>3, DirectKeeps
  <2>4. CASE LocalClear \/ LocalPop \/ LocalBreak \/ LocalCrash \/ Exchange
               \/ ClocksSkip
    BY <2>4, LocalClearKeeps, PopKeeps, ClocksEndKeeps, ClocksSkipKeeps
  <2>5. CASE Saved
    BY <2>5, SavedKeeps
  <2> QED BY <1>3, <2>1, <2>2, <2>3, <2>4, <2>5 DEF Loop
<1>4. CASE Clear
  BY <1>4, ClearKeeps
<1>5. CASE UNCHANGED vars
  <2>1. TypeOK' /\ ClocksInOrder'
    BY <1>5 DEF IInv, TypeOK, ClocksInOrder, asCalled, vars, pipeVars,
                producerVars
  <2>2. SavedIsData' /\ AllNumbered'
    BY <1>5 DEF IInv, SavedIsData, AllNumbered, Numbers, OneSaved, asCalled,
                vars, pipeVars, producerVars
  <2>3. PastClocks' /\ AheadStays'
    BY <1>5 DEF IInv, PastClocks, AheadStays, Blocked, ExchangeDue, IsEmpty,
                before, realtime, vars, pipeVars, producerVars
  <2> QED BY <2>1, <2>2, <2>3 DEF IInv
<1> QED BY <1>1, <1>2, <1>3, <1>4, <1>5 DEF Next, AddQueueFull, AddReminderFails

\* What CymoLoop keeps true in every reachable state: the queues numbered, the
\* clocks in order, what a pass has found of the pipes and the clocks.
THEOREM Invariance == Spec => []IInv
  BY InitHolds, NextKeeps, PTL DEF Spec

\* The variables keep their types, whatever queues are added and whatever a
\* closing event's memory holds: a queue is only ever in the pipe of its type,
\* and no more events are handled than were pushed.
THEOREM TypeCorrect == Spec => []TypeOK
<1>1. IInv => TypeOK
  BY DEF IInv
<1> QED BY <1>1, Invariance, PTL

\* Whatever the answer of a pop is taken for, no event is handed on twice, or
\* before one of its queue that is older, or after one that is newer.  (As built
\* events are lost; that one is handed on at all is not said here.)
THEOREM EventsComeInTurn == Spec => []EventsInTurn
<1>1. IInv => EventsInTurn
  BY NumbersAreInTurn DEF IInv
<1> QED BY <1>1, Invariance, PTL

\* The saved event leaves its place to be handed on, or when the loop has ended,
\* and no other event is put over it.
THEOREM SavedStaysKept == Spec => SavedIsKept
<1> DEFINE A == saved # NoEvent /\ saved' # saved =>
                  saved' = NoEvent /\ (handled'[saved.q] = saved.n \/ Over')
<1>1. ASSUME IInv, Next, saved # NoEvent, saved' # saved
      PROVE  saved' = NoEvent /\ (handled'[saved.q] = saved.n \/ Over')
  <2>1. CASE Clear
    BY <2>1 DEF Clear, Over
  <2>2. CASE Saved
    BY <1>1, <2>2, SavedIsHanded DEF Saved, pipeVars, producerVars
  <2>3. CASE DataSimulator \/ DataRealtime
    BY <1>1, <2>3 DEF DataSimulator, DataRealtime, DataPending
  <2> QED
    BY <1>1, <2>1, <2>2, <2>3
       DEF Next, Loop, Push, AddQueue, AddQueueFull, AddQueueOwn, AddReminder,
           AddReminderAborts, AddReminderFails, Enter, DrainAdd, DrainCrash,
           DrainEnd, DataSkip, Execution, Service, Direct, LocalClear, LocalPop,
           LocalBreak, LocalCrash, Exchange, ClocksSkip, loopData, vars
<1>2. IInv /\ [Next]_vars => [A]_vars
  BY <1>1
<1>3. Spec => [][A]_vars
  BY <1>2, Invariance, PTL DEF Spec
<1> QED BY <1>3 DEF SavedIsKept

\* A reminder that is due by the time of an event is processed before the
\* event, when reminders go before events: no event comes past the clocks as
\* long as one is pending, wherever it stands in its clock.
THEOREM RemindersGoFirst == Spec => []RemindersFirst
<1>1. ASSUME IInv, at = "saved", saved # NoEvent, before
      PROVE  /\ \A i \in DOMAIN clock["local"] : clock["local"][i] > saved.time
             /\ saved.type = "tick" =>
                  \A i \in DOMAIN clock["exchange"] :
                    clock["exchange"][i] > saved.exchange
  <2>1. ~Blocked /\ ~ExchangeDue /\ asCalled
    BY <1>1 DEF IInv, PastClocks, SavedIsData
  <2>2. /\ saved.time \in Int /\ saved.exchange \in Int
        /\ \A c \in Clocks : clock[c] \in Seq(Times)
    BY <1>1 DEF IInv, TypeOK, Item
  <2>3. ASSUME NEW c \in Clocks, NEW b \in Int,
               clock[c] # << >> => ~(Head(clock[c]) <= b)
        PROVE  \A i \in DOMAIN clock[c] : clock[c][i] > b
    <3> SUFFICES ASSUME NEW i \in DOMAIN clock[c]
                 PROVE  clock[c][i] > b
      OBVIOUS
    <3> PICK s : s = clock[c]
      OBVIOUS
    <3>1. s \in Seq(Times) /\ i \in DOMAIN s
      BY <2>2
    <3>2. s # << >> /\ Head(s) = s[1] /\ 1 \in DOMAIN s /\ 1 <= i
      BY <3>1
    <3>3. s[1] \in Nat /\ s[i] \in Nat
      <4>1. \A j \in DOMAIN s : s[j] \in Times
        BY <3>1
      <4> QED BY <3>1, <3>2, <4>1, NowAssumption
    <3>4. s[1] <= s[i]
      BY <1>1, <2>1, <3>1, <3>2 DEF IInv, ClocksInOrder
    <3>5. s[1] > b
      BY <2>3, <3>2, <3>3
    <3>6. s[i] > b
      BY <3>3, <3>4, <3>5
    <3> QED BY <3>6
  <2>4. "local" \in Clocks /\ "exchange" \in Clocks
    BY DEF Clocks
  <2> QED BY <1>1, <2>1, <2>2, <2>3, <2>4 DEF Blocked, ExchangeDue
<1>2. IInv => RemindersFirst
  BY <1>1 DEF RemindersFirst
<1> QED BY <1>2, Invariance, PTL

\* The execution and the service pipe go before data: an event of the data
\* pipe is handed on only by a pass that found both of them empty.
THEOREM PrioritiesAreKept == Spec => []PriorityKept
<1>1. IInv => PriorityKept
  BY DEF IInv, AheadStays, PriorityKept
<1> QED BY <1>1, Invariance, PTL
=============================================================================
