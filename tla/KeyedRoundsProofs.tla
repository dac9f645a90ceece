------------------------- MODULE KeyedRoundsProofs -------------------------
(***************************************************************************)
(* Proofs about KeyedRounds: the rounds keep the keys in order, and the    *)
(* calls they make up do what SortedNodes says.                            *)
(***************************************************************************)
EXTENDS KeyedRounds, TreeRoundsProofs

-----------------------------------------------------------------------------
(***************************************************************************)
(* The order of the keys.                                                  *)
(***************************************************************************)

\* cmp puts m on side s of n.
Stands(m, n, s) == Compare(m, n) = IF s = "left" THEN "below" ELSE "above"

LEMMA KeyFacts ==
  ASSUME NEW a \in Nodes, NEW b \in Nodes
  PROVE  /\ KeyOf(a) \in Int /\ KeyOf(b) \in Int
         /\ Stands(a, b, "left") <=> KeyOf(a) < KeyOf(b)
         /\ Stands(a, b, "right") <=> KeyOf(a) > KeyOf(b)
BY KeysAreNumbers DEF Stands, Compare

LEMMA StandsFacts ==
  ASSUME NEW a \in Nodes, NEW b \in Nodes, NEW s \in Sides, Stands(a, b, s)
  PROVE  /\ Stands(b, a, Opposite(s)) /\ KeyOf(a) # KeyOf(b)
         /\ ~Stands(a, b, Opposite(s))
         /\ \A c \in Nodes : Stands(b, c, s) => Stands(a, c, s)
<1>1. KeyOf(a) \in Int /\ KeyOf(b) \in Int /\ \A c \in Nodes : KeyOf(c) \in Int
  BY KeysAreNumbers
<1>2. CASE s = "left"
  BY <1>1, <1>2, KeyFacts DEF Opposite
<1>3. CASE s = "right"
  BY <1>1, <1>3, KeyFacts DEF Opposite
<1>. QED
  BY <1>2, <1>3 DEF Sides

\* Every key below a node is on its side of it.
Ordered(t) ==
  \A n \in Members(t), s \in Sides : \A m \in Below(t, t.kid[n][s]) : Stands(m, n, s)

\* What lies below the kids of a node.
LEMMA KidsBelow ==
  ASSUME NEW t, Whole(t), NEW n \in Members(t), NEW s \in Sides
  PROVE  LET B == Below(t, t.kid[n][s])
         IN  /\ B \in SUBSET Members(t) /\ B \subseteq Below(t, n) /\ n \notin B
             /\ Closed(t, B) /\ (t.kid[n][s] # Nil => t.kid[n][s] \in B)
             /\ B \cap Below(t, t.kid[n][Opposite(s)]) = {}
             /\ \A m \in B : m # t.kid[n][s] => t.parent[m] \in B
             /\ \A m \in B : Below(t, m) \subseteq B
<1>. DEFINE c == t.kid[n][s]
<1>1. c \in Members(t) \cup {Nil} /\ n \in Nodes /\ Closed(t, Members(t))
  BY LinkFacts DEF Closed
<1>2. /\ n \notin Below(t, c) /\ Below(t, c) \cap Below(t, t.kid[n][Opposite(s)]) = {}
      /\ Below(t, c) \subseteq Below(t, n)
  <2>1. Below(t, n) = {n} \cup UNION {Below(t, t.kid[n][k]) : k \in Sides}
    BY BelowFacts
  <2>2. Below(t, c) \subseteq Below(t, n)
    BY <2>1
  <2>. QED
    BY <2>2, BelowFacts
<1>. HIDE DEF c
<1>3. CASE c = Nil
  <2>1. Below(t, c) = {}
    BY <1>3, BelowFacts
  <2>. QED
    BY <2>1, <1>2, <1>3 DEF Closed, c
<1>4. CASE c # Nil
  <2>1. c \in Members(t)
    BY <1>1, <1>4
  <2>2. Below(t, c) \in SUBSET Members(t) /\ c \in Below(t, c) /\ Closed(t, Below(t, c))
    BY <2>1, <1>1, BelowLeast
  <2>3. \A m \in Below(t, c) : /\ Below(t, m) \subseteq Below(t, c)
                               /\ m # c => t.parent[m] \in Below(t, c)
    BY <2>1, BelowFacts
  <2>. QED
    BY <2>2, <2>3, <1>2 DEF c
<1>. QED
  BY <1>3, <1>4

\* To order a tree it is enough to find closed sets around the kids.
LEMMA OrderedBy ==
  ASSUME NEW t, Whole(t),
         \A n \in Members(t), s \in Sides : t.kid[n][s] # Nil =>
           \E S \in SUBSET Members(t) : /\ t.kid[n][s] \in S /\ Closed(t, S)
                                        /\ \A m \in S : Stands(m, n, s)
  PROVE  Ordered(t)
<1>. SUFFICES ASSUME NEW n \in Members(t), NEW s \in Sides, NEW m \in Below(t, t.kid[n][s])
              PROVE  Stands(m, n, s)
  BY DEF Ordered
<1>1. t.kid[n][s] # Nil /\ t.kid[n][s] \in Members(t)
  BY BelowFacts, LinkFacts
<1>2. PICK S \in SUBSET Members(t) : /\ t.kid[n][s] \in S /\ Closed(t, S)
                                     /\ \A k \in S : Stands(k, n, s)
  BY <1>1
<1>3. Below(t, t.kid[n][s]) \subseteq S
  BY <1>1, <1>2, BelowLeast
<1>. QED
  BY <1>2, <1>3

-----------------------------------------------------------------------------
(***************************************************************************)
(* The rounds keep the order.                                              *)
(***************************************************************************)

Keeps(t, u) ==
  Whole(u) /\ Members(u) = Members(t) /\ (Ordered(t) => Ordered(u))

LEMMA SameLinksKeep ==
  ASSUME NEW t, Whole(t), NEW u, SameLinks(t, u)
  PROVE  Keeps(t, u)
<1>1. Whole(u) /\ Members(u) = Members(t)
      /\ \A n \in Members(t) : Below(u, n) = Below(t, n)
  BY SameLinksWhole
<1>2. u.kid = t.kid /\ Below(u, Nil) = {} /\ Below(t, Nil) = {}
  BY DEF SameLinks, Below
<1>3. \A n \in Members(t), s \in Sides : t.kid[n][s] \in Members(t) \cup {Nil}
  BY LinkFacts
<1>4. ASSUME Ordered(t), NEW n \in Members(u), NEW s \in Sides, NEW m \in Below(u, u.kid[n][s])
      PROVE  Stands(m, n, s)
  <2>1. m \in Below(t, t.kid[n][s])
    BY <1>1, <1>2, <1>3, <1>4
  <2>. QED
    BY <2>1, <1>1, <1>4 DEF Ordered
<1>. QED
  BY <1>1, <1>4 DEF Keeps, Ordered

LEMMA RotatedOrdered ==
  ASSUME NEW t, Whole(t), Ordered(t), NEW x \in Nodes, NEW s \in Sides,
         t.kid[x][Opposite(s)] # Nil, NEW u, Rotated(t, u, x, s),
         Whole(u), Members(u) = Members(t)
  PROVE  Ordered(u)
<1>. DEFINE o == Opposite(s)
            y == t.kid[x][o]
            c == t.kid[y][s]
            g == t.parent[x]
            B(n, k) == Below(t, t.kid[n][k])
<1>1. o \in Sides /\ o # s /\ (\A k \in Sides : k = s \/ k = o) /\ Opposite(o) = s
  BY SidesFacts
<1>2. /\ x \in Members(t) /\ y \in Members(t) /\ t.parent[y] = x
      /\ x # y /\ x # Nil /\ y # Nil /\ g # y /\ g # x
  BY <1>1, KidFacts
<1>3. \A n \in Members(t), k \in Sides :
        t.kid[n][k] # Nil => t.parent[t.kid[n][k]] = n
  BY LinkFacts
<1>4. \A n \in Members(t), k \in Sides : u.kid[n][k] =
        IF n = x /\ k = o THEN c
        ELSE IF n = y /\ k = s THEN x
        ELSE IF n = g /\ t.kid[g][k] = x THEN y ELSE t.kid[n][k]
  <2>1. Members(t) \subseteq Nodes
    BY LinkFacts
  <2>. QED
    BY <2>1 DEF Rotated
<1>5. Members(t) \subseteq Nodes
  BY LinkFacts
<1>. HIDE DEF o, y, c, g, B
<1>6. y = t.kid[x][o] /\ c = t.kid[y][s]
  BY DEF y, c
<1>7. \A n \in Members(t), k \in Sides :
        /\ B(n, k) \in SUBSET Members(t) /\ n \notin B(n, k) /\ Closed(t, B(n, k))
        /\ (t.kid[n][k] # Nil => t.kid[n][k] \in B(n, k))
        /\ \A m \in B(n, k) : m # t.kid[n][k] => t.parent[m] \in B(n, k)
        /\ \A m \in B(n, k) : Stands(m, n, k)
  BY KidsBelow DEF B, Ordered
<1>8. ASSUME NEW S \in SUBSET Members(t), Closed(t, S), y \in S => x \in S
      PROVE  Closed(u, S)
  <2>. SUFFICES ASSUME NEW m \in S, NEW k \in Sides, u.kid[m][k] # Nil
                PROVE  u.kid[m][k] \in S
    BY DEF Closed
  <2>1. x \in S => y \in S
    BY <1>1, <1>2, <1>6, <1>8 DEF Closed
  <2>2. c # Nil /\ y \in S => c \in S
    BY <1>6, <1>8 DEF Closed
  <2>3. t.kid[m][k] # Nil => t.kid[m][k] \in S
    BY <1>8 DEF Closed
  <2>. QED
    BY <2>1, <2>2, <2>3, <1>2, <1>4, <1>8
<1>9. y \notin B(x, s) /\ B(y, s) \subseteq B(x, o) /\ B(y, s) \subseteq Members(t)
  <2>1. B(x, o) \cap B(x, s) = {} /\ y \in B(x, o)
        /\ \A m \in B(x, o) : Below(t, m) \subseteq B(x, o)
    BY <1>1, <1>2, <1>6, KidsBelow DEF B
  <2>2. B(y, s) \subseteq Below(t, y)
    BY <1>2, KidsBelow DEF B
  <2>. QED
    BY <2>1, <2>2, <1>2, <1>7
<1>10. Closed(u, B(x, s)) /\ Closed(u, B(y, s)) /\ Closed(u, B(y, o))
  BY <1>1, <1>2, <1>7, <1>8, <1>9
<1>11. ASSUME NEW n \in Members(t), NEW k \in Sides, u.kid[n][k] # Nil
       PROVE  \E S \in SUBSET Members(t) : /\ u.kid[n][k] \in S /\ Closed(u, S)
                                           /\ \A m \in S : Stands(m, n, k)
  <2>1. CASE n # x /\ n # y
    <3>1. y \in B(n, k) => x \in B(n, k)
      BY <2>1, <1>2, <1>3, <1>7
    <3>2. Closed(u, B(n, k))
      BY <3>1, <1>7, <1>8
    <3>3. u.kid[n][k] \in B(n, k)
      <4>1. CASE n = g /\ t.kid[g][k] = x
        <5>1. x \in B(n, k) /\ u.kid[n][k] = y
          BY <4>1, <2>1, <1>2, <1>4, <1>7
        <5>. QED
          BY <5>1, <1>1, <1>2, <1>6, <1>7 DEF Closed
      <4>2. CASE ~(n = g /\ t.kid[g][k] = x)
        BY <4>2, <2>1, <1>4, <1>7, <1>11
      <4>. QED BY <4>1, <4>2
    <3>. QED
      BY <3>2, <3>3, <1>7
  <2>2. CASE n = x /\ k = s
    <3>1. u.kid[n][k] = t.kid[n][k]
      BY <2>2, <1>1, <1>2, <1>4
    <3>2. u.kid[n][k] \in B(x, s)
      BY <3>1, <2>2, <1>2, <1>7, <1>11
    <3>. QED
      BY <3>2, <2>2, <1>2, <1>7, <1>10
  <2>3. CASE n = x /\ k = o
    <3>1. u.kid[n][k] = c
      BY <2>3, <1>2, <1>4
    <3>2. u.kid[n][k] \in B(y, s)
      BY <3>1, <1>2, <1>6, <1>7, <1>11
    <3>. QED
      BY <3>2, <2>3, <1>1, <1>2, <1>7, <1>9, <1>10
  <2>4. CASE n = y /\ k = o
    <3>1. u.kid[n][k] = t.kid[n][k]
      BY <2>4, <1>1, <1>2, <1>4
    <3>2. u.kid[n][k] \in B(y, o)
      BY <3>1, <2>4, <1>2, <1>7, <1>11
    <3>. QED
      BY <3>2, <2>4, <1>2, <1>7, <1>10
  <2>5. CASE n = y /\ k = s
    <3>. DEFINE S == {x} \cup B(x, s) \cup B(y, s)
    <3>1. u.kid[n][k] \in S /\ S \in SUBSET Members(t)
      BY <2>5, <1>1, <1>2, <1>4, <1>7
    <3>2. Closed(u, S)
      <4>. SUFFICES ASSUME NEW m \in S, NEW j \in Sides, u.kid[m][j] # Nil
                    PROVE  u.kid[m][j] \in S
        BY DEF Closed
      <4>1. CASE m = x /\ j = s
        <5>1. u.kid[m][j] = t.kid[x][s]
          BY <4>1, <1>1, <1>2, <1>4
        <5>. QED
          BY <5>1, <1>2, <1>7
      <4>2. CASE m = x /\ j = o
        <5>1. u.kid[m][j] = t.kid[y][s]
          BY <4>2, <1>2, <1>4, <1>6
        <5>. QED
          BY <5>1, <1>2, <1>7
      <4>3. CASE m \in B(x, s) \/ m \in B(y, s)
        BY <4>3, <1>10 DEF Closed
      <4>. QED
        BY <4>1, <4>2, <4>3, <1>1
    <3>3. Stands(x, y, s)
      <4>1. Stands(y, x, o)
        BY <1>1, <1>2, <1>6, <1>7
      <4>. QED
        BY <4>1, <1>1, <1>2, <1>5, StandsFacts
    <3>4. ASSUME NEW m \in B(x, s)
          PROVE  Stands(m, y, s)
      <4>1. Stands(m, x, s) /\ m \in Nodes /\ y \in Nodes
        BY <3>4, <1>2, <1>5, <1>7
      <4>. QED
        BY <4>1, <3>3, StandsFacts
    <3>5. \A m \in B(y, s) : Stands(m, y, s)
      BY <1>2, <1>7
    <3>. QED
      BY <3>1, <3>2, <3>3, <3>4, <3>5, <2>5
  <2>. QED
    BY <2>1, <2>2, <2>3, <2>4, <2>5, <1>1
<1>. QED
  BY <1>11, OrderedBy

LEMMA RotateKeeps ==
  ASSUME NEW t, Whole(t), NEW x \in Nodes, NEW s \in Sides, t.kid[x][Opposite(s)] # Nil
  PROVE  /\ Rotated(t, Rotate(t, x, s), x, s)
         /\ Keeps(t, Rotate(t, x, s))
<1>. DEFINE u == Rotate(t, x, s)
<1>. HIDE DEF u
<1>1. Rotated(t, u, x, s)
  BY RotateFacts DEF u
<1>2. Whole(u) /\ Members(u) = Members(t)
  BY <1>1, RotatedWhole
<1>3. Ordered(t) => Ordered(u)
  BY <1>1, <1>2, RotatedOrdered
<1>. QED
  BY <1>1, <1>2, <1>3 DEF Keeps, u

LEMMA PaintKeeps ==
  ASSUME NEW t, Whole(t), NEW n \in Members(t) \cup {Nil}, NEW c \in {"red", "black"}
  PROVE  Keeps(t, Paint(t, n, c)) /\ Paint(t, n, c).kid = t.kid
         /\ Paint(t, n, c).parent = t.parent
<1>1. SameLinks(t, Paint(t, n, c))
  BY PaintLinks
<1>. QED
  BY <1>1, SameLinksKeep DEF SameLinks

LEMMA BlackRedKeeps ==
  ASSUME NEW t, Whole(t), NEW b \in Members(t), NEW r \in Members(t), b # r
  PROVE  Keeps(t, BlackRed(t, b, r)) /\ BlackRed(t, b, r).kid = t.kid
<1>1. SameLinks(t, BlackRed(t, b, r))
  BY BlackRedLinks
<1>. QED
  BY <1>1, SameLinksKeep DEF SameLinks

LEMMA KeepsTrans ==
  ASSUME NEW t, NEW u, NEW v, Keeps(t, u), Keeps(u, v)
  PROVE  Keeps(t, v)
BY DEF Keeps

LEMMA InsertRoundKeeps ==
  ASSUME NEW t, NEW n, NEW h, InsertOk(t, n, h), IsRed(t, t.parent[n])
  PROVE  Keeps(t, InsertRound(t, n).tree)
<1>1. PICK p, g, s, k : InsertPlace(t, n, p, g, s, k)
  BY InsertPlaceFacts
<1>2. /\ p = t.parent[n] /\ g = t.parent[p] /\ s = SideOf(t, g, p)
      /\ k = t.kid[g][Opposite(s)]
      /\ n \in Members(t) /\ p \in Members(t) /\ g \in Members(t) /\ k \in Members(t) \cup {Nil}
      /\ p # n /\ g # n /\ g # p
      /\ s \in Sides /\ t.kid[g][s] = p
      /\ Members(t) \subseteq Nodes /\ Nil \notin Nodes
  BY <1>1 DEF InsertPlace
<1>3. Whole(t) /\ Opposite(s) \in Sides /\ Opposite(Opposite(s)) = s /\ Opposite(s) # s
  BY <1>2, SidesFacts DEF InsertOk
<1>4. CASE IsRed(t, k)
  <2>. DEFINE t1 == Paint(t, k, "black")
              u  == BlackRed(t1, p, g)
  <2>1. InsertRound(t, n).tree = u
    BY <1>2, <1>4, Zenon DEF InsertRound
  <2>. HIDE DEF t1, u
  <2>2. Keeps(t, t1)
    BY <1>2, <1>3, PaintKeeps DEF t1
  <2>3. Whole(t1) /\ Members(t1) = Members(t)
    BY <2>2 DEF Keeps
  <2>4. Keeps(t1, u)
    BY <2>3, <1>2, BlackRedKeeps DEF u
  <2>. QED
    BY <2>1, <2>2, <2>4, KeepsTrans
<1>5. CASE ~IsRed(t, k)
  <2>. DEFINE inner == t.kid[p][Opposite(s)] = n
              t1    == IF inner THEN Rotate(t, p, s) ELSE t
              top   == IF inner THEN n ELSE p
              t2    == BlackRed(t1, top, g)
              u     == Rotate(t2, g, Opposite(s))
  <2>1. InsertRound(t, n).tree = u
    BY <1>2, <1>5 DEF InsertRound
  <2>. HIDE DEF inner, t1, top, t2, u
  <2>2. Keeps(t, t1) /\ t1.kid[g][s] # Nil
    <3>1. CASE inner
      <4>1. t.kid[p][Opposite(s)] # Nil /\ t1 = Rotate(t, p, s) /\ p \in Nodes
        BY <3>1, <1>2 DEF inner, t1
      <4>2. Rotated(t, t1, p, s) /\ Keeps(t, t1)
        BY <4>1, <1>2, <1>3, RotateKeeps
      <4>3. t1.kid[g][s] = n
        BY <4>2, <3>1, <1>2, <1>3 DEF Rotated, inner
      <4>. QED
        BY <4>2, <4>3, <1>2
    <3>2. CASE ~inner
      BY <3>2, <1>2, <1>3 DEF t1, Keeps
    <3>. QED BY <3>1, <3>2
  <2>3. Whole(t1) /\ Members(t1) = Members(t)
    BY <2>2 DEF Keeps
  <2>4. Keeps(t1, t2) /\ t2.kid[g][s] # Nil
    BY <2>2, <2>3, <1>2, BlackRedKeeps DEF t2, top
  <2>5. Whole(t2)
    BY <2>4 DEF Keeps
  <2>6. Keeps(t2, u)
    BY <2>4, <2>5, <1>2, <1>3, RotateKeeps DEF u
  <2>. QED
    BY <2>1, <2>2, <2>4, <2>6, KeepsTrans
<1>. QED
  BY <1>4, <1>5

LEMMA RemoveRoundKeeps ==
  ASSUME NEW t, NEW n, NEW p, NEW h, RemoveOk(t, n, p, h), ~IsRed(t, n), n # t.root
  PROVE  Keeps(t, RemoveRound(t, p, n).tree)
<1>. DEFINE s    == SideOf(t, p, n)
            o    == Opposite(s)
            sib  == t.kid[p][o]
            t1   == IF t.color[sib] = "red" THEN Rotate(BlackRed(t, sib, p), p, s) ELSE t
            w    == t1.kid[p][o]
            near == t1.kid[w][s]
            far  == t1.kid[w][o]
            a1   == Paint(t1, near, "black")
            a2   == Paint(a1, w, "red")
            t2   == IF IsRed(t1, far) THEN t1 ELSE Rotate(a2, w, o)
            v    == t2.kid[p][o]
            b1   == Paint(t2, v, t2.color[p])
            b2   == Paint(b1, p, "black")
            t3   == Paint(b2, t2.kid[v][o], "black")
            done == Rotate(t3, p, s)
            both == ~IsRed(t1, near) /\ ~IsRed(t1, far)
<1>1. RemoveRound(t, p, n).tree = IF both THEN Paint(t1, w, "red") ELSE done
  BY ZenonT(30) DEF RemoveRound
<1>. HIDE DEF s, o, sib, t1, w, near, far, a1, a2, t2, v, b1, b2, t3, done, both
<1>2. s \in Sides /\ o = Opposite(s) /\ o \in Sides /\ o # s /\ Opposite(o) = s
  BY SidesFacts DEF s, o, SideOf, Sides
<1>3. ShortAt(t, p, s, h) /\ Whole(t) /\ p \in Nodes /\ p # Nil
  <2>1. p # Nil /\ p \in Members(t) /\ t.kid[p][s] = n /\ Whole(t) /\ Tidy(t, n, n)
        /\ Levels(t, h, p, s)
    BY DEF RemoveOk, s
  <2>2. Tidy(t, Nil, Nil)
    BY <2>1 DEF Tidy, IsRed
  <2>. QED
    BY <2>1, <2>2, <1>2, LinkFacts DEF ShortAt
<1>4. Sibling(t, p, s, o, sib)
  BY <1>2, <1>3, SiblingFacts DEF sib
<1>5. Keeps(t, t1) /\ \E hh : ShortAt(t1, p, s, hh)
  <2>1. CASE t.color[sib] = "red"
    <3>. DEFINE t0 == BlackRed(t, sib, p)
    <3>. HIDE DEF t0
    <3>1. sib \in Members(t) /\ p \in Members(t) /\ p # sib /\ sib # Nil
      BY <1>4, NilAssumption DEF Sibling
    <3>2. Keeps(t, t0) /\ t0.kid = t.kid
      BY <3>1, <1>3, BlackRedKeeps DEF t0
    <3>3. Whole(t0) /\ t0.kid[p][Opposite(s)] # Nil
      BY <3>1, <3>2, <1>2 DEF Keeps, sib
    <3>4. Keeps(t0, Rotate(t0, p, s))
      BY <3>3, <1>2, <1>3, RotateKeeps
    <3>5. t1 = Rotate(t0, p, s)
      BY <2>1 DEF t1, t0
    <3>6. \E hh : ShortAt(t1, p, s, hh)
      BY <2>1, <3>5, <1>2, <1>3, RemoveRedSibling DEF sib, t0
    <3>. QED
      BY <3>2, <3>4, <3>5, <3>6, KeepsTrans
  <2>2. CASE t.color[sib] # "red"
    BY <2>2, <1>3 DEF t1, Keeps
  <2>. QED BY <2>1, <2>2
<1>6. /\ Whole(t1) /\ Members(t1) = Members(t) /\ Members(t1) \subseteq Nodes /\ Nil \notin Nodes
      /\ w \in Members(t1) /\ w # Nil /\ p \in Members(t1) /\ t1.parent[w] = p /\ p # w
      /\ near \in Members(t1) \cup {Nil} /\ far \in Members(t1) \cup {Nil} /\ near # p
  <2>1. PICK hh : ShortAt(t1, p, s, hh)
    BY <1>5
  <2>2. Sibling(t1, p, s, o, w)
    BY <2>1, <1>2, SiblingFacts DEF w
  <2>3. Whole(t1) /\ Members(t1) = Members(t)
    BY <1>5 DEF Keeps
  <2>4. /\ w \in Members(t1) /\ w # Nil /\ w \in Nodes /\ p \in Members(t1) /\ t1.parent[w] = p
        /\ p # w /\ Members(t1) \subseteq Nodes /\ Nil \notin Nodes /\ near # p
    BY <2>2, <1>2 DEF Sibling, near
  <2>5. near \in Members(t1) \cup {Nil} /\ far \in Members(t1) \cup {Nil}
    BY <2>3, <2>4, <1>2, LinkFacts DEF near, far
  <2>. QED
    BY <2>3, <2>4, <2>5
<1>7. CASE both
  <2>1. Keeps(t1, Paint(t1, w, "red"))
    BY <1>6, PaintKeeps
  <2>. QED
    BY <2>1, <1>1, <1>5, <1>7, KeepsTrans
<1>8. CASE ~both
  <2>1. Keeps(t1, t2) /\ v # Nil
    <3>1. CASE IsRed(t1, far)
      BY <3>1, <1>6 DEF t2, v, w, Keeps
    <3>2. CASE ~IsRed(t1, far)
      <4>1. near # Nil
        BY <3>2, <1>8 DEF both, IsRed
      <4>2. Keeps(t1, a1) /\ a1.kid = t1.kid /\ a1.parent = t1.parent
        BY <1>6, PaintKeeps DEF a1
      <4>3. Whole(a1) /\ Members(a1) = Members(t1)
        BY <4>2 DEF Keeps
      <4>4. Keeps(a1, a2) /\ a2.kid = a1.kid /\ a2.parent = a1.parent
        BY <4>3, <1>6, PaintKeeps DEF a2
      <4>5. Whole(a2) /\ a2.kid[w][Opposite(o)] = near /\ a2.kid[p][o] = w /\ a2.parent[w] = p
            /\ w \in Nodes
        BY <4>2, <4>4, <1>2, <1>6 DEF Keeps, near, w
      <4>6. t2 = Rotate(a2, w, o)
        BY <3>2 DEF t2
      <4>7. Rotated(a2, t2, w, o) /\ Keeps(a2, t2)
        BY <4>1, <4>5, <4>6, <1>2, RotateKeeps
      <4>8. t2.kid[p][o] = near
        BY <4>5, <4>7, <1>2, <1>3, <1>6 DEF Rotated
      <4>. QED
        BY <4>1, <4>2, <4>4, <4>7, <4>8, KeepsTrans DEF v
    <3>. QED BY <3>1, <3>2
  <2>2. Whole(t2) /\ Members(t2) = Members(t1)
    BY <2>1 DEF Keeps
  <2>3. /\ v \in Members(t2) /\ p \in Members(t2) /\ t2.color[p] \in {"red", "black"}
        /\ t2.kid[v][o] \in Members(t2) \cup {Nil}
    <3>1. v \in Members(t2)
      BY <2>1, <2>2, <1>2, <1>3, LinkFacts DEF v
    <3>2. t2.color[p] \in {"red", "black"}
      BY <2>2, <1>3 DEF Whole, TreeType
    <3>3. v \in Nodes
      BY <3>1, <2>2, <1>6
    <3>. QED
      BY <3>1, <3>2, <3>3, <2>2, <1>2, <1>6, LinkFacts
  <2>4. Keeps(t2, b1) /\ b1.kid = t2.kid
    BY <2>2, <2>3, PaintKeeps DEF b1
  <2>5. Whole(b1) /\ Members(b1) = Members(t2)
    BY <2>4 DEF Keeps
  <2>6. Keeps(b1, b2) /\ b2.kid = b1.kid
    BY <2>3, <2>5, PaintKeeps DEF b2
  <2>7. Whole(b2) /\ Members(b2) = Members(t2)
    BY <2>5, <2>6 DEF Keeps
  <2>8. Keeps(b2, t3) /\ t3.kid = b2.kid
    BY <2>3, <2>7, PaintKeeps DEF t3
  <2>9. Whole(t3) /\ t3.kid[p][Opposite(s)] # Nil
    BY <2>1, <2>4, <2>6, <2>8, <1>2 DEF Keeps, v
  <2>10. Keeps(t3, done)
    BY <2>9, <1>2, <1>3, RotateKeeps DEF done
  <2>11. Keeps(t, t2)
    BY <2>1, <1>5, KeepsTrans
  <2>12. Keeps(t2, t3)
    BY <2>4, <2>6, <2>8, KeepsTrans
  <2>. QED
    BY <2>10, <2>11, <2>12, <1>1, <1>8, KeepsTrans
<1>. QED
  BY <1>7, <1>8

-----------------------------------------------------------------------------
(***************************************************************************)
(* Linking and unlinking keep it, where the searches ended.                *)
(***************************************************************************)

\* The place below p on side s is below x on side k.
PlaceUnder(t, p, s, x, k) == (p = x /\ s = k) \/ p \in Below(t, t.kid[x][k])

LEMMA LinkKeeps ==
  ASSUME NEW t, Whole(t), Ordered(t), NEW n, NEW p, NEW s, Room(t, n, p, s),
         \A x \in Members(t), k \in Sides : PlaceUnder(t, p, s, x, k) => Stands(n, x, k),
         NEW u, LinkedAt(t, u, n, p, s)
  PROVE  Ordered(u)
<1>1. Whole(u) /\ Members(u) = Members(t) \cup {n}
  BY LinkedAtWhole
<1>2. /\ n \in Nodes /\ n \notin Members(t) /\ s \in Sides
      /\ p \in Members(t) \cup {Nil} /\ n # p /\ n # Nil /\ t.kid[n] = NoKids
      /\ Members(t) \subseteq Nodes /\ Nil \notin Members(t)
      /\ (p # Nil => t.kid[p][s] = Nil)
  BY LinkFacts, NilAssumption DEF Room, Whole, Outside
<1>3. \A m \in Nodes, k \in Sides :
        u.kid[m][k] = IF m = p /\ k = s THEN n ELSE t.kid[m][k]
  BY DEF LinkedAt
<1>4. ASSUME NEW x \in Members(u), NEW k \in Sides, u.kid[x][k] # Nil
      PROVE  \E S \in SUBSET Members(u) : /\ u.kid[x][k] \in S /\ Closed(u, S)
                                          /\ \A m \in S : Stands(m, x, k)
  <2>. DEFINE B == Below(t, t.kid[x][k])
              S == B \cup {m \in {n} : PlaceUnder(t, p, s, x, k)}
  <2>1. x \in Members(t)
    <3>. SUFFICES ASSUME x = n PROVE FALSE
      BY <1>1
    <3>1. u.kid[n][k] = Nil
      BY <1>2, <1>3, SidesFacts
    <3>. QED
      BY <3>1, <1>4
  <2>2. /\ B \in SUBSET Members(t) /\ Closed(t, B) /\ (t.kid[x][k] # Nil => t.kid[x][k] \in B)
        /\ \A m \in B : Stands(m, x, k)
    BY <2>1, KidsBelow DEF Ordered
  <2>. HIDE DEF B
  <2>3. S \in SUBSET Members(u) /\ \A m \in S : Stands(m, x, k)
    BY <2>1, <2>2, <1>1
  <2>4. u.kid[x][k] \in S
    BY <2>1, <2>2, <1>2, <1>3, <1>4 DEF PlaceUnder
  <2>5. Closed(u, S)
    <3>. SUFFICES ASSUME NEW m \in S, NEW j \in Sides, u.kid[m][j] # Nil
                  PROVE  u.kid[m][j] \in S
      BY DEF Closed
    <3>1. CASE m = n
      <4>1. u.kid[m][j] = Nil
        BY <3>1, <1>2, <1>3, SidesFacts
      <4>. QED
        BY <4>1
    <3>2. CASE m # n /\ m = p /\ j = s
      <4>1. m \in B
        BY <3>2
      <4>2. PlaceUnder(t, p, s, x, k)
        BY <4>1, <3>2 DEF PlaceUnder, B
      <4>. QED
        BY <4>2, <3>2, <1>2, <1>3, <2>2
    <3>3. CASE m # n /\ ~(m = p /\ j = s)
      <4>1. m \in B /\ m \in Nodes
        BY <3>3, <2>2, <1>2
      <4>2. u.kid[m][j] = t.kid[m][j]
        BY <4>1, <3>3, <1>3
      <4>. QED
        BY <4>1, <4>2, <2>2 DEF Closed
    <3>. QED BY <3>1, <3>2, <3>3
  <2>. QED
    BY <2>3, <2>4, <2>5
<1>. QED
  BY <1>1, <1>4, OrderedBy

LEMMA SpliceKeeps ==
  ASSUME NEW t, Whole(t), NEW n, Thin(t, n)
  PROVE  LET u == SplicedOut(t, n)
         IN  /\ Ordered(t) => Ordered(u)
             /\ \A x \in Members(u), k \in Sides :
                  Below(u, u.kid[x][k]) \subseteq Below(t, t.kid[x][k]) \ {n}
<1>. DEFINE u == SplicedOut(t, n)
            c == OnlyKid(t, n)
            g == t.parent[n]
<1>1. WithoutThin(t, u, n, c, g)
  BY WithoutThinFacts
<1>2. c \in Members(t) \cup {Nil} /\ c # n /\ \E s \in Sides : t.kid[n][s] = c
  BY OnlyKidFacts
<1>. HIDE DEF u, c, g
<1>3. /\ Whole(u) /\ Members(u) = Members(t) \ {n} /\ n \in Members(t)
      /\ \A m \in Members(u), k \in Sides :
           u.kid[m][k] = IF t.kid[m][k] = n THEN c ELSE t.kid[m][k]
  BY <1>1 DEF WithoutThin, Thin
<1>4. ASSUME NEW x \in Members(u), NEW k \in Sides
      PROVE  LET S == Below(t, t.kid[x][k]) \ {n}
             IN  /\ S \in SUBSET Members(u) /\ Closed(u, S)
                 /\ u.kid[x][k] # Nil => u.kid[x][k] \in S
  <2>. DEFINE B == Below(t, t.kid[x][k])
              S == B \ {n}
  <2>1. B \in SUBSET Members(t) /\ Closed(t, B) /\ (t.kid[x][k] # Nil => t.kid[x][k] \in B)
    BY <1>3, KidsBelow
  <2>. HIDE DEF B
  <2>2. n \in B => c \in S \/ c = Nil
    BY <2>1, <1>2 DEF Closed
  <2>3. n # Nil
    BY <1>3, LinkFacts, NilAssumption
  <2>4. Closed(u, S)
    BY <2>1, <2>2, <2>3, <1>3 DEF Closed
  <2>5. u.kid[x][k] # Nil => u.kid[x][k] \in S
    BY <2>1, <2>2, <2>3, <1>3
  <2>. QED
    BY <2>1, <2>4, <2>5, <1>3 DEF B
<1>5. ASSUME NEW x \in Members(u), NEW k \in Sides
      PROVE  Below(u, u.kid[x][k]) \subseteq Below(t, t.kid[x][k]) \ {n}
  <2>. DEFINE S == Below(t, t.kid[x][k]) \ {n}
  <2>1. /\ S \in SUBSET Members(u) /\ Closed(u, S)
        /\ u.kid[x][k] # Nil => u.kid[x][k] \in S
    BY <1>4
  <2>. HIDE DEF S
  <2>2. CASE u.kid[x][k] = Nil
    BY <2>2 DEF Below
  <2>3. CASE u.kid[x][k] # Nil
    <3>1. Below(u, u.kid[x][k]) \subseteq S
      BY <2>1, <2>3, BelowLeast
    <3>. QED
      BY <3>1 DEF S
  <2>. QED BY <2>2, <2>3
<1>6. Ordered(t) => Ordered(u)
  BY <1>3, <1>5 DEF Ordered
<1>. QED
  BY <1>5, <1>6 DEF u

LEMMA TakeKeeps ==
  ASSUME NEW t, Whole(t), Ordered(t), NEW u, NEW m, NEW old, IsRenaming(t, u, m, old),
         \A x \in Members(t) \ {old}, k \in Sides :
           old \in Below(t, t.kid[x][k]) => Stands(m, x, k),
         \A k \in Sides : \A y \in Below(t, t.kid[old][k]) : Stands(y, m, k)
  PROVE  Ordered(u)
<1>. DEFINE R(n) == Renamed(n, m, old)
<1>1. /\ Whole(u) /\ Members(u) = (Members(t) \ {old}) \cup {m}
      /\ m # old /\ m \notin Members(t) \cup {Nil} /\ old \in Members(t)
      /\ \A n \in Members(u) : \E x \in Members(t) : n = R(x)
      /\ \A n \in Members(t), k \in Sides : u.kid[R(n)][k] = R(t.kid[n][k])
      /\ Nil \notin Members(t)
  BY LinkFacts, NilAssumption DEF IsRenaming
<1>2. R(Nil) = Nil /\ R(old) = m /\ \A n : n # old => R(n) = n
  BY <1>1 DEF Renamed
<1>. HIDE DEF R
<1>3. \A n \in Members(t) : R(n) \in Members(u)
  BY <1>1, <1>2
<1>4. ASSUME NEW n \in Members(u), NEW k \in Sides, u.kid[n][k] # Nil
      PROVE  \E S \in SUBSET Members(u) : /\ u.kid[n][k] \in S /\ Closed(u, S)
                                          /\ \A y \in S : Stands(y, n, k)
  <2>1. PICK x \in Members(t) : n = R(x)
    BY <1>1
  <2>. DEFINE B == Below(t, t.kid[x][k])
              S == {R(y) : y \in B}
  <2>2. /\ B \in SUBSET Members(t) /\ Closed(t, B) /\ (t.kid[x][k] # Nil => t.kid[x][k] \in B)
        /\ x \notin B /\ \A y \in B : Stands(y, x, k)
    BY KidsBelow DEF Ordered
  <2>3. /\ x = old => \A y \in B : Stands(y, m, k)
        /\ x # old /\ old \in B => Stands(m, x, k)
    OBVIOUS
  <2>. HIDE DEF B
  <2>4. S \in SUBSET Members(u)
    BY <2>2, <1>3
  <2>5. u.kid[n][k] \in S
    BY <2>1, <2>2, <1>1, <1>2, <1>4
  <2>6. Closed(u, S)
    <3>. SUFFICES ASSUME NEW y \in B, NEW j \in Sides, u.kid[R(y)][j] # Nil
                  PROVE  u.kid[R(y)][j] \in S
      BY DEF Closed
    <3>1. u.kid[R(y)][j] = R(t.kid[y][j])
      BY <2>2, <1>1
    <3>2. t.kid[y][j] # Nil
      BY <3>1, <1>2
    <3>3. t.kid[y][j] \in B
      BY <3>2, <2>2 DEF Closed
    <3>. QED
      BY <3>1, <3>3
  <2>7. ASSUME NEW y \in B
        PROVE  Stands(R(y), n, k)
    BY <2>1, <2>2, <2>3, <2>7, <1>2
  <2>. QED
    BY <2>4, <2>5, <2>6, <2>7
<1>. QED
  BY <1>1, <1>4, OrderedBy

\* A node that takes over is the least of those on the right.
LEMMA UnlinkKeeps ==
  ASSUME NEW t, Whole(t), Ordered(t), NEW old \in Members(t), NEW elm, Thin(t, elm),
         elm # old => /\ elm \in Below(t, t.kid[old]["right"])
                      /\ \A y \in Below(t, t.kid[old]["right"]) \ {elm} : Stands(y, elm, "right")
  PROVE  Ordered(Unlink(t, old, elm).tree)
<1>. DEFINE u == Unlink(t, old, elm).tree
            v == SplicedOut(t, elm)
<1>1. /\ elm = old => u = v
      /\ elm # old => TakenOver(v, u, elm, old)
  BY UnlinkFacts
<1>2. Whole(v) /\ Members(v) = Members(t) \ {elm}
  BY SplicedOutFacts
<1>3. Ordered(v) /\ \A x \in Members(v), k \in Sides :
        Below(v, v.kid[x][k]) \subseteq Below(t, t.kid[x][k]) \ {elm}
  BY SpliceKeeps
<1>. HIDE DEF u, v
<1>4. CASE elm = old
  BY <1>1, <1>3, <1>4 DEF u
<1>5. CASE elm # old
  <2>1. elm \in Members(t) /\ elm \in Nodes /\ Members(t) \subseteq Nodes
        /\ "left" \in Sides /\ "right" \in Sides
    BY LinkFacts DEF Thin, Sides
  <2>2. IsRenaming(v, u, elm, old)
    BY <2>1, <1>1, <1>2, <1>5, TakenOverRenames
  <2>3. ASSUME NEW x \in Members(v) \ {old}, NEW k \in Sides,
               old \in Below(v, v.kid[x][k])
        PROVE  Stands(elm, x, k)
    <3>1. old \in Below(t, t.kid[x][k]) /\ x \in Members(t)
      BY <2>3, <1>2, <1>3
    <3>2. elm \in Below(t, old)
      BY <2>1, <1>5, KidsBelow
    <3>3. Below(t, old) \subseteq Below(t, t.kid[x][k])
      BY <3>1, KidsBelow
    <3>. QED
      BY <3>1, <3>2, <3>3 DEF Ordered
  <2>4. Stands(elm, old, "right")
    BY <2>1, <1>5 DEF Ordered
  <2>5. ASSUME NEW y \in Below(v, v.kid[old]["left"])
        PROVE  Stands(y, elm, "left")
    <3>1. y \in Below(t, t.kid[old]["left"]) /\ y \in Members(t)
      BY <2>1, <2>5, <1>2, <1>3, <1>5, KidsBelow
    <3>2. Stands(y, old, "left") /\ Stands(old, elm, "left")
      <4>1. Stands(old, elm, Opposite("right"))
        BY <2>1, <2>4, StandsFacts
      <4>. QED
        BY <4>1, <3>1, <2>1 DEF Ordered, Opposite
    <3>. QED
      BY <3>1, <3>2, <2>1, StandsFacts
  <2>6. ASSUME NEW y \in Below(v, v.kid[old]["right"])
        PROVE  Stands(y, elm, "right")
    BY <2>1, <2>6, <1>2, <1>3, <1>5
  <2>7. \A k \in Sides : \A y \in Below(v, v.kid[old][k]) : Stands(y, elm, k)
    BY <2>5, <2>6 DEF Sides
  <2>. QED
    BY <2>2, <2>3, <2>7, <1>2, <1>3, TakeKeeps DEF u
<1>. QED
  BY <1>4, <1>5

-----------------------------------------------------------------------------
(***************************************************************************)
(* The inductive invariant: the order, and what the loops that look for a  *)
(* node have ruled out.                                                    *)
(***************************************************************************)

\* A search has every node like the sought one before it, and the place where
\* it is suits its key; RB_MIN and the walk to the successor have left only
\* greater keys behind.
Sought(t, c) ==
  /\ c.stage \in Searches =>
       /\ \A m \in Members(t) : KeyOf(m) = KeyOf(c.node) => m \in Below(t, c.at)
       /\ \A x \in Members(t), k \in Sides :
            PlaceUnder(t, c.parent, c.side, x, k) => Stands(c.node, x, k)
  /\ c.stage = "min" =>
       \A m \in Members(t) \ Below(t, c.at) : KeyOf(c.parent) <= KeyOf(m)
  /\ c.stage = "successor" =>
       \A m \in Below(t, t.kid[c.node]["right"]) \ Below(t, c.at) : Stands(m, c.at, "right")

KInv == IInv /\ Ordered(tree) /\ Sought(tree, call)

\* Nothing is being looked for.
LEMMA NothingSought ==
  ASSUME NEW t, NEW c, c.stage \notin Searches \cup {"min", "successor"}
  PROVE  Sought(t, c)
BY DEF Sought

LEMMA ReturnSought == ASSUME NEW n, Return(n) PROVE Sought(tree', call')
<1>1. call'.stage = "none"
  BY DEF Return, NoCall, Call
<1>. QED
  BY <1>1, NothingSought DEF Searches

LEMMA BeginSought ==
  ASSUME KInv, NEW stage \in {"insert", "find", "remove", "min"}, NEW n, Begin(stage, n)
  PROVE  Ordered(tree') /\ Sought(tree', call')
<1>1. Whole(tree) /\ Ordered(tree) /\ tree' = tree /\ call'.stage = stage
      /\ call'.at = tree.root /\ call'.parent = Nil
  BY DEF KInv, IInv, Good, Begin, Call
<1>2. Below(tree, tree.root) = Members(tree)
  BY <1>1, RootOfMembers, BelowFacts
<1>3. \A x \in Members(tree), k \in Sides : ~PlaceUnder(tree, Nil, call'.side, x, k)
  <2>1. Nil \notin Members(tree)
    BY NilAssumption DEF Members
  <2>2. \A x \in Members(tree), k \in Sides : Below(tree, tree.kid[x][k]) \subseteq Members(tree)
    BY <1>1, KidsBelow
  <2>. QED
    BY <2>1, <2>2 DEF PlaceUnder
<1>. QED
  BY <1>1, <1>2, <1>3 DEF Sought, Searches

\* Who is above the node a loop has come to is above the place it came from.
LEMMA CameFrom ==
  ASSUME NEW t, Whole(t), NEW c, Located(t, c), c.stage \in Searches \cup {"min"},
         NEW x \in Members(t), NEW k \in Sides, c.side \in Sides,
         c.at \in Below(t, t.kid[x][k])
  PROVE  PlaceUnder(t, c.parent, c.side, x, k)
<1>1. /\ c.at \in Members(t) /\ c.parent \in Members(t) \cup {Nil} /\ x \in Nodes
      /\ IF c.parent = Nil THEN c.at = t.root ELSE c.at = t.kid[c.parent][c.side]
      /\ Members(t) \subseteq Nodes /\ Nil \notin Members(t)
  BY KidsBelow, LinkFacts, NilAssumption DEF Located
<1>2. c.at # t.kid[x][k] => t.parent[c.at] \in Below(t, t.kid[x][k])
  BY KidsBelow
<1>3. Below(t, t.kid[x][k]) \subseteq Members(t)
  BY KidsBelow
<1>4. CASE c.parent = Nil
  <2>1. c.at = t.root /\ t.root # Nil /\ t.parent[t.root] = Nil
    BY <1>1, <1>4, LinkFacts
  <2>2. t.kid[x][k] # t.root
    BY <2>1, <1>1, LinkFacts
  <2>. QED
    BY <2>1, <2>2, <1>1, <1>2, <1>3
<1>5. CASE c.parent # Nil
  <2>1. c.at = t.kid[c.parent][c.side] /\ c.at # Nil /\ c.parent \in Nodes
    BY <1>1, <1>5
  <2>2. t.parent[c.at] = c.parent /\ t.kid[c.parent][Opposite(c.side)] # c.at
    BY <2>1, LinkFacts
  <2>3. CASE c.at = t.kid[x][k]
    <3>1. t.parent[c.at] = x
      BY <2>1, <2>3, <1>1, LinkFacts
    <3>2. k = c.side
      BY <3>1, <2>2, <2>3, SidesFacts
    <3>. QED
      BY <3>1, <3>2, <2>2 DEF PlaceUnder
  <2>4. CASE c.at # t.kid[x][k]
    BY <2>2, <2>4, <1>2 DEF PlaceUnder
  <2>. QED BY <2>3, <2>4
<1>. QED BY <1>4, <1>5

LEMMA SearchOnSought ==
  ASSUME KInv, NEW answer \in {"below", "above"}, SearchOn(answer)
  PROVE  Ordered(tree') /\ Sought(tree', call')
<1>. DEFINE n == call.node
            a == call.at
            s == SideTo(answer)
            o == Opposite(s)
<1>1. /\ Whole(tree) /\ Ordered(tree) /\ Located(tree, call) /\ call.stage \in Searches
      /\ call \in CallType /\ a # Nil /\ answer \in Answers(n, a)
  BY DEF KInv, IInv, Good, SearchOn, Searching
<1>2. /\ a \in Members(tree) /\ n \in Nodes /\ a \in Nodes /\ Members(tree) \subseteq Nodes
      /\ call.side \in Sides
  BY <1>1, LinkFacts DEF Located, CallType
<1>3. /\ tree' = tree /\ call'.stage = call.stage /\ call'.node = n
      /\ call'.at = tree.kid[a][s] /\ call'.parent = a /\ call'.side = s
  BY <1>1 DEF SearchOn, CallType
<1>4. s \in Sides /\ o \in Sides /\ \A k \in Sides : k = s \/ k = o
  BY SidesFacts DEF SideTo, Sides
<1>5. Stands(n, a, s)
  <2>1. answer = Compare(n, a)
    BY <1>1, <1>2, AnswersByKey
  <2>. QED
    BY <2>1 DEF SideTo, Stands
<1>6. /\ \A m \in Members(tree) : KeyOf(m) = KeyOf(n) => m \in Below(tree, a)
      /\ \A x \in Members(tree), k \in Sides :
           PlaceUnder(tree, call.parent, call.side, x, k) => Stands(n, x, k)
  BY <1>1 DEF KInv, Sought
<1>. HIDE DEF n, a, s, o
<1>7. ASSUME NEW m \in Members(tree), KeyOf(m) = KeyOf(n)
      PROVE  m \in Below(tree, tree.kid[a][s])
  <2>1. m = a \/ m \in Below(tree, tree.kid[a][s]) \/ m \in Below(tree, tree.kid[a][o])
    <3>1. m \in {a} \cup UNION {Below(tree, tree.kid[a][k]) : k \in Sides}
      BY <1>1, <1>2, <1>6, <1>7, BelowFacts
    <3>. QED
      BY <3>1, <1>4
  <2>2. KeyOf(n) # KeyOf(a) /\ ~Stands(n, a, o)
    BY <1>2, <1>4, <1>5, StandsFacts DEF o
  <2>3. ~Stands(m, a, o)
    BY <2>2, <1>7 DEF Stands, Compare
  <2>4. \A y \in Below(tree, tree.kid[a][o]) : Stands(y, a, o)
    BY <1>1, <1>2, <1>4 DEF Ordered
  <2>. QED
    BY <2>1, <2>2, <2>3, <2>4, <1>7
<1>8. ASSUME NEW x \in Members(tree), NEW k \in Sides, PlaceUnder(tree, a, s, x, k)
      PROVE  Stands(n, x, k)
  <2>1. CASE a = x /\ s = k
    BY <2>1, <1>5
  <2>2. CASE a \in Below(tree, tree.kid[x][k])
    <3>1. PlaceUnder(tree, call.parent, call.side, x, k)
      BY <2>2, <1>1, <1>2, CameFrom DEF a
    <3>. QED
      BY <3>1, <1>6
  <2>. QED
    BY <2>1, <2>2, <1>8 DEF PlaceUnder
<1>9. Sought(tree, call')
  BY <1>1, <1>3, <1>7, <1>8 DEF Sought, Searches
<1>. QED
  BY <1>1, <1>3, <1>9

LEMMA InsertLinkSought ==
  ASSUME KInv, InsertLink
  PROVE  /\ Ordered(tree') /\ Sought(tree', call')
         /\ Members(tree') = Members(tree) \cup {call.node}
<1>. DEFINE n == call.node
            p == call.parent
            s == call.side
            u == Link(tree, n, p, s)
<1>1. /\ Whole(tree) /\ Ordered(tree) /\ call \in CallType
      /\ call.stage = "insert" /\ call.at = Nil /\ tree' = u
  BY DEF KInv, IInv, Good, InsertLink
<1>2. Room(tree, n, p, s)
  BY <1>1 DEF KInv, IInv, Good, Located, Room, Searches, CallType
<1>3. \A x \in Members(tree), k \in Sides : PlaceUnder(tree, p, s, x, k) => Stands(n, x, k)
  BY <1>1 DEF KInv, Sought, Searches
<1>4. call'.stage = "insert_color"
  BY DEF InsertLink, Call
<1>. HIDE DEF n, p, s, u
<1>5. LinkedAt(tree, u, n, p, s)
  BY <1>1, <1>2, LinkNodeFacts DEF u
<1>6. Ordered(u) /\ Members(u) = Members(tree) \cup {n}
  BY <1>1, <1>2, <1>3, <1>5, LinkKeeps, LinkedAtWhole
<1>7. Sought(tree', call')
  BY <1>4, NothingSought DEF Searches
<1>. QED
  BY <1>1, <1>6, <1>7 DEF n

LEMMA InsertColorOnSought ==
  ASSUME KInv, InsertColorOn
  PROVE  Ordered(tree') /\ Sought(tree', call') /\ Members(tree') = Members(tree)
<1>1. call \in CallType /\ call.stage = "insert_color" /\ IsRed(tree, tree.parent[call.at])
      /\ tree' = InsertRound(tree, call.at).tree /\ Ordered(tree)
  BY DEF KInv, IInv, Good, InsertColorOn
<1>2. PICK h : InsertOk(tree, call.at, h)
  BY <1>1 DEF KInv, IInv, Good, Coloured
<1>3. Keeps(tree, tree')
  BY <1>1, <1>2, InsertRoundKeeps
<1>4. call'.stage = "insert_color"
  BY <1>1 DEF InsertColorOn, CallType
<1>. QED
  BY <1>1, <1>3, <1>4, NothingSought DEF Keeps, Searches

LEMMA InsertColorEndSought ==
  ASSUME KInv, InsertColorEnd
  PROVE  Ordered(tree') /\ Sought(tree', call') /\ Members(tree') = Members(tree)
<1>1. Whole(tree) /\ Ordered(tree) /\ tree' = Paint(tree, tree.root, "black") /\ Return(Nil)
  BY DEF KInv, IInv, Good, InsertColorEnd
<1>2. Keeps(tree, tree')
  BY <1>1, LinkFacts, PaintKeeps
<1>. QED
  BY <1>1, <1>2, ReturnSought DEF Keeps

LEMMA UnlinkAndGoOnSought ==
  ASSUME KInv, NEW old \in Members(tree), NEW elm, Thin(tree, elm), UnlinkAndGoOn(old, elm),
         elm # old => /\ elm \in Below(tree, tree.kid[old]["right"])
                      /\ \A y \in Below(tree, tree.kid[old]["right"]) \ {elm} :
                           Stands(y, elm, "right")
  PROVE  /\ Ordered(tree') /\ Sought(tree', call')
         /\ Members(tree') = Members(tree) \ {old} /\ Answer' = old
<1>1. Whole(tree) /\ Ordered(tree)
  BY DEF KInv, IInv, Good
<1>2. tree' = Unlink(tree, old, elm).tree
  BY DEF UnlinkAndGoOn
<1>3. Ordered(tree') /\ Members(tree') = Members(tree) \ {old}
  BY <1>1, <1>2, UnlinkKeeps, UnlinkFacts
<1>4. \/ call'.stage = "remove_color" /\ call'.node = old
      \/ call'.stage = "none" /\ result' = old
  BY DEF UnlinkAndGoOn, Return, NoCall, Call
<1>5. Sought(tree', call')
  BY <1>4, NothingSought DEF Searches
<1>6. Answer' = old
  BY <1>4 DEF Answer
<1>. QED
  BY <1>3, <1>5, <1>6

\* What cmp calls equal has the sought key.
LEMMA FoundFacts ==
  ASSUME KInv, Found
  PROVE  /\ call.at \in Members(tree) /\ call.node \in Nodes /\ call.at \in Nodes
         /\ KeyOf(call.at) = KeyOf(call.node)
<1>1. call.stage \in Searches /\ call.at # Nil /\ "equal" \in Answers(call.node, call.at)
  BY DEF Found, Searching
<1>2. call.at \in Members(tree) /\ call.node \in Nodes /\ call.at \in Nodes
  BY <1>1 DEF KInv, IInv, Good, Located, Members
<1>3. Compare(call.node, call.at) = "equal"
  BY <1>1, <1>2, AnswersByKey
<1>4. KeyOf(call.at) \in Int /\ KeyOf(call.node) \in Int
  BY <1>2, KeysAreNumbers
<1>. QED
  BY <1>2, <1>3, <1>4 DEF Compare

LEMMA RemoveOuterSought ==
  ASSUME KInv, RemoveOuter
  PROVE  /\ Ordered(tree') /\ Sought(tree', call')
         /\ Members(tree') = Members(tree) \ {call.at} /\ Answer' = call.at
         /\ call.at \in Members(tree)
<1>1. Found /\ (\E s \in Sides : tree.kid[call.at][s] = Nil)
      /\ UnlinkAndGoOn(call.at, call.at)
  BY DEF RemoveOuter
<1>2. call.at \in Members(tree)
  BY <1>1, FoundFacts
<1>3. Thin(tree, call.at)
  BY <1>1, <1>2 DEF Thin
<1>. QED
  BY <1>1, <1>2, <1>3, UnlinkAndGoOnSought

LEMMA RemoveInnerSought ==
  ASSUME KInv, RemoveInner
  PROVE  Ordered(tree') /\ Sought(tree', call')
<1>1. /\ tree' = tree /\ call'.stage = "successor" /\ call'.node = call.at
      /\ call'.at = tree.kid[call.at]["right"] /\ Ordered(tree)
  BY DEF RemoveInner, Call, KInv
<1>. QED
  BY <1>1 DEF Sought, Searches

\* On its way to the left the walk leaves only greater keys behind.
LEMMA SuccessorOnSought ==
  ASSUME KInv, SuccessorOn
  PROVE  Ordered(tree') /\ Sought(tree', call')
<1>. DEFINE a == call.at
            c == tree.kid[a]["left"]
            R == Below(tree, tree.kid[call.node]["right"])
<1>1. /\ IInv /\ Ordered(tree) /\ call.stage = "successor" /\ c # Nil
      /\ call' = [call EXCEPT !.at = c] /\ tree' = tree
      /\ \A m \in R \ Below(tree, a) : Stands(m, a, "right")
  BY DEF KInv, SuccessorOn, Sought
<1>2. /\ Whole(tree) /\ call \in CallType /\ a \in Members(tree) /\ a \in Nodes
      /\ call.node \in Members(tree)
  BY <1>1, SuccessorFacts
<1>3. "left" \in Sides /\ "right" \in Sides /\ \A k \in Sides : k = "left" \/ k = "right"
  BY DEF Sides
<1>4. Members(tree) \subseteq Nodes /\ R \subseteq Members(tree) /\ c \in Members(tree)
  BY <1>1, <1>2, <1>3, LinkFacts, KidsBelow
<1>. HIDE DEF a, c, R
<1>5. Stands(a, c, "right")
  <2>1. Stands(c, a, "left")
    BY <1>1, <1>2, <1>3, KidsBelow DEF Ordered, c
  <2>2. Stands(a, c, Opposite("left"))
    BY <2>1, <1>2, <1>3, <1>4, StandsFacts
  <2>. QED
    BY <2>2 DEF Opposite
<1>6. ASSUME NEW m \in R \ Below(tree, c)
      PROVE  Stands(m, c, "right")
  <2>0. m \in Nodes
    BY <1>4
  <2>1. CASE m = a
    BY <2>1, <1>5
  <2>2. CASE m # a
    <3>1. Stands(m, a, "right")
      <4>1. CASE m \in Below(tree, a)
        <5>1. m \in {a} \cup UNION {Below(tree, tree.kid[a][k]) : k \in Sides}
          BY <4>1, <1>2, BelowFacts
        <5>2. m \in Below(tree, tree.kid[a]["right"])
          BY <5>1, <2>2, <1>3, <1>6 DEF c
        <5>. QED
          BY <5>2, <1>1, <1>2, <1>3 DEF Ordered
      <4>2. CASE m \notin Below(tree, a)
        BY <4>2, <1>1, <1>6
      <4>. QED BY <4>1, <4>2
    <3>. QED
      BY <3>1, <2>0, <1>2, <1>3, <1>4, <1>5, StandsFacts
  <2>. QED BY <2>1, <2>2
<1>7. call'.stage = "successor" /\ call'.node = call.node /\ call'.at = c
  BY <1>1, <1>2 DEF CallType
<1>8. Sought(tree, call')
  BY <1>6, <1>7 DEF Sought, Searches, R
<1>. QED
  BY <1>1, <1>8

LEMMA SuccessorEndSought ==
  ASSUME KInv, SuccessorEnd
  PROVE  /\ Ordered(tree') /\ Sought(tree', call')
         /\ Members(tree') = Members(tree) \ {call.node} /\ Answer' = call.node
         /\ call.node \in Members(tree)
<1>. DEFINE a == call.at
            x == call.node
            R == Below(tree, tree.kid[x]["right"])
<1>1. /\ IInv /\ Ordered(tree) /\ call.stage = "successor" /\ tree.kid[a]["left"] = Nil
      /\ UnlinkAndGoOn(x, a)
      /\ \A m \in R \ Below(tree, a) : Stands(m, a, "right")
      /\ a \in R
  BY DEF KInv, SuccessorEnd, Sought, IInv, Good, Located
<1>2. Whole(tree) /\ a \in Members(tree) /\ x \in Members(tree)
  BY <1>1, SuccessorFacts
<1>3. "left" \in Sides /\ "right" \in Sides /\ \A k \in Sides : k = "left" \/ k = "right"
  BY DEF Sides
<1>. HIDE DEF a, x, R
<1>4. Thin(tree, a)
  BY <1>1, <1>2, <1>3 DEF Thin
<1>5. ASSUME NEW m \in R \ {a}
      PROVE  Stands(m, a, "right")
  <2>1. CASE m \in Below(tree, a)
    <3>1. m \in {a} \cup UNION {Below(tree, tree.kid[a][k]) : k \in Sides}
      BY <2>1, <1>2, BelowFacts
    <3>2. Below(tree, tree.kid[a]["left"]) = {}
      BY <1>1 DEF Below
    <3>3. m \in Below(tree, tree.kid[a]["right"])
      BY <3>1, <3>2, <1>3, <1>5
    <3>. QED
      BY <3>3, <1>1, <1>2, <1>3 DEF Ordered
  <2>2. CASE m \notin Below(tree, a)
    BY <2>2, <1>1, <1>5
  <2>. QED BY <2>1, <2>2
<1>. QED
  BY <1>1, <1>2, <1>4, <1>5, UnlinkAndGoOnSought DEF x, a, R

LEMMA RemoveColorOnSought ==
  ASSUME KInv, RemoveColorOn
  PROVE  Ordered(tree') /\ Sought(tree', call') /\ Members(tree') = Members(tree)
<1>1. /\ call \in CallType /\ call.stage = "remove_color" /\ Ordered(tree)
      /\ ~IsRed(tree, call.at) /\ call.at # tree.root
      /\ tree' = RemoveRound(tree, call.parent, call.at).tree
  BY DEF KInv, IInv, Good, RemoveColorOn, RemoveColorDone
<1>2. PICK h : RemoveOk(tree, call.at, call.parent, h)
  BY <1>1 DEF KInv, IInv, Good, Coloured
<1>3. Keeps(tree, tree')
  BY <1>1, <1>2, RemoveRoundKeeps
<1>4. call'.stage = "remove_color"
  BY <1>1 DEF RemoveColorOn, CallType
<1>. QED
  BY <1>1, <1>3, <1>4, NothingSought DEF Keeps, Searches

LEMMA RemoveColorEndSought ==
  ASSUME KInv, RemoveColorEnd
  PROVE  Ordered(tree') /\ Sought(tree', call') /\ Members(tree') = Members(tree)
<1>1. /\ call.stage = "remove_color" /\ tree' = Paint(tree, call.at, "black")
      /\ Return(call.node) /\ Ordered(tree)
  BY DEF KInv, RemoveColorEnd
<1>2. Whole(tree) /\ call.at \in Members(tree) \cup {Nil}
  BY <1>1 DEF KInv, IInv, Good, Coloured, RemoveOk
<1>3. Keeps(tree, tree')
  BY <1>1, <1>2, PaintKeeps
<1>. QED
  BY <1>1, <1>3, ReturnSought DEF Keeps

LEMMA MinOnSought ==
  ASSUME KInv, MinOn
  PROVE  Ordered(tree') /\ Sought(tree', call')
<1>. DEFINE a == call.at
            c == tree.kid[a]["left"]
<1>1. /\ Whole(tree) /\ Ordered(tree) /\ call \in CallType /\ Located(tree, call)
      /\ call.stage = "min" /\ a # Nil
      /\ call' = [call EXCEPT !.at = c, !.parent = a] /\ tree' = tree
      /\ \A m \in Members(tree) \ Below(tree, a) : KeyOf(call.parent) <= KeyOf(m)
  BY DEF KInv, IInv, Good, MinOn, Sought
<1>2. /\ a \in Members(tree) /\ call.side = "left" /\ call.parent \in Members(tree) \cup {Nil}
      /\ IF call.parent = Nil THEN a = tree.root ELSE a = tree.kid[call.parent]["left"]
  BY <1>1 DEF Located
<1>3. "left" \in Sides /\ "right" \in Sides /\ \A k \in Sides : k = "left" \/ k = "right"
  BY DEF Sides
<1>4. Members(tree) \subseteq Nodes /\ \A m \in Members(tree) : KeyOf(m) \in Int
  BY <1>1, LinkFacts, KeysAreNumbers
<1>. HIDE DEF a, c
<1>5. ASSUME NEW m \in Members(tree) \ Below(tree, c)
      PROVE  KeyOf(a) <= KeyOf(m)
  <2>1. CASE m = a
    BY <2>1, <1>4
  <2>2. CASE m # a /\ m \in Below(tree, a)
    <3>1. m \in {a} \cup UNION {Below(tree, tree.kid[a][k]) : k \in Sides}
      BY <2>2, <1>1, <1>2, BelowFacts
    <3>2. m \in Below(tree, tree.kid[a]["right"])
      BY <3>1, <2>2, <1>3, <1>5 DEF c
    <3>3. Stands(m, a, "right")
      BY <3>2, <1>1, <1>2, <1>3 DEF Ordered
    <3>4. KeyOf(m) > KeyOf(a)
      BY <3>3, <1>2, <1>4, KeyFacts
    <3>. QED
      BY <3>4, <1>2, <1>4
  <2>3. CASE m \notin Below(tree, a)
    <3>1. call.parent # Nil
      <4>1. a = tree.root => Below(tree, a) = Members(tree)
        BY <1>1, BelowFacts
      <4>. QED
        BY <4>1, <2>3, <1>2
    <3>2. call.parent \in Members(tree) /\ a = tree.kid[call.parent]["left"]
      BY <3>1, <1>2
    <3>3. Stands(a, call.parent, "left")
      BY <3>2, <1>1, <1>3, KidsBelow DEF Ordered
    <3>4. KeyOf(a) < KeyOf(call.parent)
      BY <3>2, <3>3, <1>2, <1>4, KeyFacts
    <3>. QED
      BY <3>2, <3>4, <2>3, <1>1, <1>2, <1>4
  <2>. QED BY <2>1, <2>2, <2>3
<1>6. call'.stage = "min" /\ call'.at = c /\ call'.parent = a
  BY <1>1 DEF CallType
<1>7. Sought(tree, call')
  BY <1>5, <1>6 DEF Sought, Searches
<1>. QED
  BY <1>1, <1>7

LEMMA KInvInit == Init => KInv
<1>. SUFFICES ASSUME Init PROVE KInv
  OBVIOUS
<1>1. Members(tree) = {}
  BY NilAssumption DEF Init, EmptyTree, Members
<1>2. call.stage = "none"
  BY DEF Init, NoCall, Call
<1>. QED
  BY <1>1, <1>2, IInvInit, NothingSought DEF KInv, Ordered, Searches

LEMMA KInvStep == KInv /\ [Next]_vars => KInv'
<1>. SUFFICES ASSUME KInv, [Next]_vars PROVE Ordered(tree') /\ Sought(tree', call')
  BY IInvStep DEF KInv
<1>1. CASE UNCHANGED vars
  BY <1>1 DEF vars, KInv
<1>2. CASE \E n \in Nodes : InsertBegin(n) \/ FindBegin(n) \/ RemoveBegin(n)
  BY <1>2, BeginSought DEF InsertBegin, FindBegin, RemoveBegin
<1>3. CASE MinBegin
  BY <1>3, BeginSought DEF MinBegin
<1>4. CASE ReturnFound
  BY <1>4, ReturnSought DEF ReturnFound, KInv
<1>5. CASE NotFound
  BY <1>5, ReturnSought DEF NotFound, KInv
<1>6. CASE MinEnd
  BY <1>6, ReturnSought DEF MinEnd, KInv
<1>7. CASE \E answer \in {"below", "above"} : SearchOn(answer)
  BY <1>7, SearchOnSought
<1>. QED
  BY <1>1, <1>2, <1>3, <1>4, <1>5, <1>6, <1>7, InsertLinkSought, InsertColorOnSought,
     InsertColorEndSought, RemoveOuterSought, RemoveInnerSought, SuccessorOnSought,
     SuccessorEndSought, RemoveColorOnSought, RemoveColorEndSought, MinOnSought
     DEF Next, Step

LEMMA KInvAlways == Spec => []KInv
BY KInvInit, KInvStep, PTL DEF Spec

-----------------------------------------------------------------------------
(***************************************************************************)
(* The calls implement SortedNodes: each takes effect in one of its steps, *)
(* and the others change neither the nodes held nor the answer.            *)
(***************************************************************************)

\* Nothing held is like n, or the search has come to what is.
LEMMA NothingLike ==
  ASSUME KInv, call.stage \in Searches, call.at = Nil
  PROVE  \A m \in Members(tree) : KeyOf(m) # KeyOf(call.node)
<1>1. \A m \in Members(tree) : KeyOf(m) = KeyOf(call.node) => m \in Below(tree, Nil)
  BY DEF KInv, Sought
<1>. QED
  BY <1>1 DEF Below

\* The steps between which nothing is settled.
LEMMA SilentSteps ==
  ASSUME KInv
  PROVE  /\ \A stage, n : Begin(stage, n) /\ stage \in {"insert", "find", "remove", "min"} =>
              Members(tree') = Members(tree) /\ Answer' = Answer
         /\ \A answer : SearchOn(answer) =>
              Members(tree') = Members(tree) /\ Answer' = Answer
         /\ RemoveInner \/ SuccessorOn \/ MinOn =>
              Members(tree') = Members(tree) /\ Answer' = Answer
         /\ InsertColorOn \/ InsertColorEnd \/ RemoveColorOn \/ RemoveColorEnd =>
              Members(tree') = Members(tree) /\ Answer' = Answer
<1>0. call \in CallType
  BY DEF KInv, IInv, Good
<1>1. ASSUME NEW stage \in {"insert", "find", "remove", "min"}, NEW n, Begin(stage, n)
      PROVE  Members(tree') = Members(tree) /\ Answer' = Answer
  <2>1. tree' = tree /\ result' = result /\ call.stage = "none" /\ call'.stage = stage
    BY <1>1 DEF Begin, Idle, Call
  <2>. QED
    BY <2>1 DEF Answer
<1>2. ASSUME NEW answer, SearchOn(answer)
      PROVE  Members(tree') = Members(tree) /\ Answer' = Answer
  <2>1. tree' = tree /\ result' = result /\ call.stage \in Searches /\ call'.stage = call.stage
    BY <1>0, <1>2 DEF SearchOn, Searching, CallType
  <2>. QED
    BY <2>1 DEF Answer, Searches
<1>3. CASE RemoveInner \/ SuccessorOn \/ MinOn
  <2>1. /\ tree' = tree /\ result' = result
        /\ call.stage \in {"remove", "successor", "min"}
        /\ call'.stage \in {"successor", "min"}
    <3>1. CASE RemoveInner
      BY <3>1 DEF RemoveInner, Call
    <3>2. CASE SuccessorOn
      BY <3>2, <1>0 DEF SuccessorOn, CallType
    <3>3. CASE MinOn
      BY <3>3, <1>0 DEF MinOn, CallType
    <3>. QED
      BY <1>3, <3>1, <3>2, <3>3
  <2>. QED
    BY <2>1 DEF Answer
<1>4. CASE InsertColorOn
  <2>1. call.stage = "insert_color" /\ call'.stage = "insert_color"
    BY <1>0, <1>4 DEF InsertColorOn, CallType
  <2>. QED
    BY <2>1, <1>4, InsertColorOnSought DEF Answer
<1>5. CASE InsertColorEnd
  <2>1. call.stage = "insert_color" /\ call'.stage = "none" /\ result' = Nil
    BY <1>5 DEF InsertColorEnd, Return, NoCall, Call
  <2>. QED
    BY <2>1, <1>5, InsertColorEndSought DEF Answer
<1>6. CASE RemoveColorOn
  <2>1. call.stage = "remove_color" /\ call'.stage = "remove_color" /\ call'.node = call.node
    BY <1>0, <1>6 DEF RemoveColorOn, CallType
  <2>. QED
    BY <2>1, <1>6, RemoveColorOnSought DEF Answer
<1>7. CASE RemoveColorEnd
  <2>1. call.stage = "remove_color" /\ call'.stage = "none" /\ result' = call.node
    BY <1>7 DEF RemoveColorEnd, Return, NoCall, Call
  <2>. QED
    BY <2>1, <1>7, RemoveColorEndSought DEF Answer
<1>. QED
  BY <1>1, <1>2, <1>3, <1>4, <1>5, <1>6, <1>7

LEMMA InsertLinkImplements ==
  ASSUME KInv, InsertLink
  PROVE  Sorted!Insert(call.node) /\ call.node \in Nodes
<1>1. /\ call.stage = "insert" /\ call.at = Nil /\ call.node \in Nodes
      /\ call.node \notin Members(tree)
  BY DEF InsertLink, KInv, IInv, Good, Located, Searches
<1>2. \A m \in Members(tree) : KeyOf(m) # KeyOf(call.node)
  BY <1>1, NothingLike DEF Searches
<1>3. Members(tree') = Members(tree) \cup {call.node}
  BY InsertLinkSought
<1>4. Answer' = Nil
  BY DEF Answer, InsertLink, Call
<1>. QED
  BY <1>1, <1>2, <1>3, <1>4 DEF Sorted!Insert, Sorted!Like

LEMMA ReturnFoundImplements ==
  ASSUME KInv, ReturnFound
  PROVE  (Sorted!Insert(call.node) \/ Sorted!Find(call.node)) /\ call.node \in Nodes
<1>1. /\ Found /\ call.stage \in {"insert", "find"} /\ tree' = tree
      /\ call'.stage = "none" /\ result' = call.at
  BY DEF ReturnFound, Return, NoCall, Call, Found, Searching, Searches
<1>2. /\ call.at \in Members(tree) /\ call.node \in Nodes
      /\ KeyOf(call.at) = KeyOf(call.node)
  BY <1>1, FoundFacts
<1>3. Answer' = call.at /\ Members(tree') = Members(tree)
  BY <1>1 DEF Answer
<1>4. call.stage = "insert" => call.node \notin Members(tree)
  BY DEF KInv, IInv, Good, Located
<1>. QED
  BY <1>1, <1>2, <1>3, <1>4 DEF Sorted!Insert, Sorted!Find, Sorted!Like

LEMMA NotFoundImplements ==
  ASSUME KInv, NotFound
  PROVE  Sorted!Find(call.node) /\ call.node \in Nodes
<1>1. /\ call.stage \in Searches /\ call.at = Nil /\ tree' = tree
      /\ call'.stage = "none" /\ result' = Nil
  BY DEF NotFound, Return, NoCall, Call, Searches
<1>2. \A m \in Members(tree) : KeyOf(m) # KeyOf(call.node)
  BY <1>1, NothingLike
<1>3. Answer' = Nil /\ Members(tree') = Members(tree)
  BY <1>1 DEF Answer
<1>4. call.node \in Nodes
  BY <1>1 DEF KInv, IInv, Good, Located
<1>. QED
  BY <1>2, <1>3, <1>4 DEF Sorted!Find, Sorted!Like

LEMMA RemovesImplement ==
  ASSUME NEW m \in Members(tree), Members(tree') = Members(tree) \ {m}, Answer' = m
  PROVE  Sorted!Remove(m)
BY DEF Sorted!Remove, Sorted!Like

LEMMA MinEndImplements ==
  ASSUME KInv, MinEnd
  PROVE  Sorted!Least
<1>. DEFINE p == call.parent
<1>1. /\ call.stage = "min" /\ call.at = Nil /\ tree' = tree
      /\ call'.stage = "none" /\ result' = p
  BY DEF MinEnd, Return, NoCall, Call
<1>2. Answer' = p /\ Members(tree') = Members(tree)
  BY <1>1 DEF Answer
<1>3. Whole(tree) /\ p \in Members(tree) \cup {Nil}
      /\ (p = Nil => tree.root = Nil)
  BY <1>1 DEF KInv, IInv, Good, Located
<1>4. \A m \in Members(tree) : KeyOf(p) <= KeyOf(m)
  <2>1. Below(tree, call.at) = {}
    BY <1>1 DEF Below
  <2>. QED
    BY <2>1, <1>1 DEF KInv, Sought
<1>5. p = Nil <=> Members(tree) = {}
  <2>1. tree.root = Nil <=> Members(tree) = {}
    BY <1>3, RootOfMembers
  <2>2. Nil \notin Members(tree)
    BY NilAssumption DEF Members
  <2>. QED
    BY <2>1, <2>2, <1>3
<1>. QED
  BY <1>2, <1>3, <1>4, <1>5 DEF Sorted!Least

LEMMA NextImplements ==
  ASSUME KInv, [Next]_vars
  PROVE  Sorted!Next \/ (Members(tree') = Members(tree) /\ Answer' = Answer)
<1>1. CASE UNCHANGED vars
  BY <1>1 DEF vars, Answer
<1>2. CASE \E n \in Nodes : InsertBegin(n) \/ FindBegin(n) \/ RemoveBegin(n)
  BY <1>2, SilentSteps DEF InsertBegin, FindBegin, RemoveBegin
<1>3. CASE MinBegin
  BY <1>3, SilentSteps DEF MinBegin
<1>4. CASE \E answer \in {"below", "above"} : SearchOn(answer)
  BY <1>4, SilentSteps
<1>5. CASE ReturnFound
  BY <1>5, ReturnFoundImplements DEF Sorted!Next
<1>6. CASE NotFound
  BY <1>6, NotFoundImplements DEF Sorted!Next
<1>7. CASE InsertLink
  BY <1>7, InsertLinkImplements DEF Sorted!Next
<1>8. CASE RemoveOuter
  <2>1. call.at \in Nodes
    BY <1>8, FoundFacts DEF RemoveOuter
  <2>2. Sorted!Remove(call.at)
    BY <1>8, RemoveOuterSought, RemovesImplement
  <2>. QED
    BY <2>1, <2>2 DEF Sorted!Next
<1>9. CASE SuccessorEnd
  <2>1. call.node \in Nodes
    BY <1>9, SuccessorEndSought DEF Members
  <2>2. Sorted!Remove(call.node)
    BY <1>9, SuccessorEndSought, RemovesImplement
  <2>. QED
    BY <2>1, <2>2 DEF Sorted!Next
<1>10. CASE MinEnd
  BY <1>10, MinEndImplements DEF Sorted!Next
<1>. QED
  BY <1>1, <1>2, <1>3, <1>4, <1>5, <1>6, <1>7, <1>8, <1>9, <1>10, SilentSteps
     DEF Next, Step

-----------------------------------------------------------------------------
(***************************************************************************)
(* The theorems, for every set of nodes and every order of them by keys.   *)
(***************************************************************************)

\* After every round of RB_INSERT_COLOR and RB_REMOVE_COLOR, every link and
\* every removal, the tree is a search tree: smaller keys on the left, greater
\* ones on the right, at any depth.
THEOREM KeysStayInOrder == Spec => []InKeyOrder
<1>1. KInv => InKeyOrder
  <2>. SUFFICES ASSUME KInv, NEW n \in Members(tree), NEW s \in Sides, tree.kid[n][s] # Nil
                PROVE  \E S \in SUBSET OnSide(n, s) : tree.kid[n][s] \in S /\ Closed(tree, S)
    BY DEF InKeyOrder
  <2>. DEFINE B == Below(tree, tree.kid[n][s])
  <2>1. B \in SUBSET Members(tree) /\ tree.kid[n][s] \in B /\ Closed(tree, B)
    BY KidsBelow DEF KInv, IInv, Good
  <2>2. \A m \in B : Stands(m, n, s)
    BY DEF KInv, Ordered
  <2>3. B \in SUBSET OnSide(n, s)
    BY <2>1, <2>2 DEF OnSide, Stands
  <2>. QED
    BY <2>1, <2>3
<1>. QED
  BY <1>1, KInvAlways, PTL

\* RB_INSERT, RB_FIND, RB_REMOVE and RB_MIN, a step at a time, do what the
\* abstract set of nodes does: what is held is found and nothing else, the node
\* found is the one taken out, and the least is the least.
THEOREM RoundsImplementSortedNodes == Spec => ImplementsSortedNodes
<1>1. Init => Sorted!Init
  <2>1. Init => Members(tree) = {} /\ Answer = Nil
    BY NilAssumption DEF Init, EmptyTree, Members, Answer, NoCall, Call
  <2>. QED
    BY <2>1 DEF Sorted!Init
<1>2. KInv /\ [Next]_vars => [Sorted!Next]_<<Members(tree), Answer>>
  BY NextImplements
<1>. QED
  BY <1>1, <1>2, KInvAlways, PTL DEF Spec, ImplementsSortedNodes, Sorted!Spec
=============================================================================
