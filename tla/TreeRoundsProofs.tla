-------------------------- MODULE TreeRoundsProofs --------------------------
(***************************************************************************)
(* Proofs about TreeRounds and the operators of RBLinks it is built from.  *)
(***************************************************************************)
EXTENDS TreeRounds, FiniteSetTheorems, TLAPS

-----------------------------------------------------------------------------
(***************************************************************************)
(* Trees by their links.  Since no member is cut off, a closed set with    *)
(* the root in it has every member: this is the induction the lemmas use.  *)
(***************************************************************************)

TreeType ==
  [root : Nodes \cup {Nil}, kid : [Nodes -> [Sides -> Nodes \cup {Nil}]],
   parent : [Nodes -> Nodes \cup {Nil}], color : [Nodes -> {"red", "black"}]]

Outside(t) == \A n \in Nodes \ Members(t) : t.kid[n] = NoKids /\ t.color[n] = "red"

Whole(t) == t \in TreeType /\ Outside(t) /\ PointersAgree(t) /\ NoneCutOff(t)

\* The node n and those below it, none if there is no n.
Below(t, n) == IF n = Nil THEN {} ELSE Subtrees(t)[n]

LEMMA SidesFacts ==
  ASSUME NEW s \in Sides
  PROVE  /\ Opposite(s) \in Sides /\ Opposite(s) # s
         /\ Opposite(Opposite(s)) = s
         /\ \A k \in Sides : k = s \/ k = Opposite(s)
         /\ "left" \in Sides /\ "right" \in Sides /\ NoKids[s] = Nil
BY DEF Sides, Opposite, NoKids

\* The links of a whole tree, node by node.
LEMMA LinkFacts ==
  ASSUME NEW t, Whole(t)
  PROVE  /\ Members(t) \subseteq Nodes
         /\ t.root \in Members(t) \cup {Nil}
         /\ t.root # Nil => t.parent[t.root] = Nil
         /\ \A n \in Nodes : t.parent[n] \in Members(t) \cup {Nil}
         /\ \A n \in Members(t) : n # t.root <=> t.parent[n] # Nil
         /\ \A n \in Nodes, s \in Sides :
              /\ t.kid[n][s] \in Members(t) \cup {Nil}
              /\ t.kid[n][s] # Nil => /\ t.parent[t.kid[n][s]] = n
                                      /\ t.kid[n][s] # t.root
                                      /\ t.kid[n][Opposite(s)] # t.kid[n][s]
                                      /\ n \in Members(t)
         /\ \A n \in Members(t) : t.parent[n] # Nil =>
              \E s \in Sides : t.kid[t.parent[n]][s] = n
<1>1. Members(t) \subseteq Nodes /\ t.root \in Members(t) \cup {Nil}
  BY DEF Whole, TreeType, Members
<1>2. ASSUME NEW n \in Nodes, NEW s \in Sides
      PROVE  t.kid[n][s] \in Nodes \cup {Nil}
  BY DEF Whole, TreeType
<1>3. ASSUME NEW n \in Nodes, NEW s \in Sides, t.kid[n][s] # Nil
      PROVE  /\ n \in Members(t) /\ t.parent[t.kid[n][s]] = n
             /\ t.kid[n][s] \in Members(t)
             /\ t.kid[n][s] # t.root
             /\ t.kid[n][Opposite(s)] # t.kid[n][s]
  <2>1. n \in Members(t)
    BY <1>3, SidesFacts DEF Whole, Outside
  <2>2. t.parent[t.kid[n][s]] = n /\ (t.kid[n]["left"] = t.kid[n]["right"] => t.kid[n] = NoKids)
    BY <2>1, <1>3 DEF Whole, PointersAgree
  <2>3. n # Nil
    BY <2>1, NilAssumption DEF Members
  <2>4. t.kid[n][Opposite(s)] # t.kid[n][s]
    BY <2>2, <1>3, SidesFacts DEF Sides, Opposite
  <2>. QED
    BY <2>1, <2>2, <2>3, <2>4, <1>2, <1>3 DEF Members, Whole, PointersAgree
<1>4. ASSUME NEW n \in Nodes
      PROVE  t.parent[n] \in Members(t) \cup {Nil}
  <2>. SUFFICES ASSUME t.parent[n] # Nil
                PROVE  t.parent[n] \in Members(t)
    OBVIOUS
  <2>1. n \in Members(t) /\ t.parent[n] \in Nodes
    BY DEF Members, Whole, TreeType
  <2>2. PICK s \in Sides : t.kid[t.parent[n]][s] = n
    BY <2>1 DEF Whole, PointersAgree
  <2>. QED
    BY <2>1, <2>2, <1>3, NilAssumption
<1>5. \A n \in Members(t) : n # t.root <=> t.parent[n] # Nil
  BY NilAssumption, Zenon DEF Whole, PointersAgree, Members
<1>. QED
  BY <1>1, <1>2, <1>3, <1>4, <1>5 DEF Whole, PointersAgree

LEMMA Reached ==
  ASSUME NEW t, Whole(t), NEW S \in SUBSET Members(t),
         t.root # Nil => t.root \in S, Closed(t, S)
  PROVE  S = Members(t)
BY DEF Whole, NoneCutOff

LEMMA BelowLeast ==
  ASSUME NEW t, NEW n \in Members(t)
  PROVE  /\ Below(t, n) \in SUBSET Members(t) /\ n \in Below(t, n)
         /\ Closed(t, Members(t)) => Closed(t, Below(t, n))
         /\ \A S \in SUBSET Members(t) :
              n \in S /\ Closed(t, S) => Below(t, n) \subseteq S
<1>1. n # Nil
  BY NilAssumption DEF Members
<1>2. Below(t, n) = {m \in Members(t) :
        \A S \in {S \in SUBSET Members(t) : Closed(t, S)} : n \in S => m \in S}
  BY <1>1 DEF Below, Subtrees
<1>3. Below(t, n) \in SUBSET Members(t) /\ n \in Below(t, n)
  BY <1>2
<1>4. \A S \in SUBSET Members(t) : n \in S /\ Closed(t, S) => Below(t, n) \subseteq S
  BY <1>2
<1>5. ASSUME Closed(t, Members(t)), NEW m \in Below(t, n), NEW s \in Sides,
             t.kid[m][s] # Nil
      PROVE  t.kid[m][s] \in Below(t, n)
  <2>1. m \in Members(t) /\ t.kid[m][s] \in Members(t)
    BY <1>3, <1>5 DEF Closed
  <2>2. ASSUME NEW S \in SUBSET Members(t), Closed(t, S), n \in S
        PROVE  t.kid[m][s] \in S
    BY <2>2, <1>4, <1>5 DEF Closed
  <2>. QED
    BY <2>1, <2>2, <1>2
<1>. QED
  BY <1>3, <1>4, <1>5 DEF Closed

\* The subtree of n is n and the subtrees of its kids, which have nothing in
\* common; who is in it without being its top has a parent in it.
LEMMA BelowFacts ==
  ASSUME NEW t, Whole(t)
  PROVE  /\ Below(t, Nil) = {}
         /\ \A n \in Members(t) :
              /\ Below(t, n) \subseteq Members(t) /\ n \in Below(t, n)
              /\ \A m \in Below(t, n) :
                   /\ Below(t, m) \subseteq Below(t, n)
                   /\ m # n => t.parent[m] \in Below(t, n)
              /\ Below(t, n) = {n} \cup UNION {Below(t, t.kid[n][s]) : s \in Sides}
              /\ \A s \in Sides :
                   /\ n \notin Below(t, t.kid[n][s])
                   /\ Below(t, t.kid[n][s]) \cap Below(t, t.kid[n][Opposite(s)]) = {}
         /\ t.root # Nil => Below(t, t.root) = Members(t)
<1>0. Closed(t, Members(t)) /\ \A n \in Members(t) : n \in Nodes /\ n # Nil
  BY LinkFacts, NilAssumption DEF Closed
<1>1. \A n \in Members(t) :
        /\ Below(t, n) \subseteq Members(t) /\ n \in Below(t, n)
        /\ Closed(t, Below(t, n))
  BY <1>0, BelowLeast
<1>2. ASSUME NEW n \in Members(t), NEW m \in Below(t, n)
      PROVE  Below(t, m) \subseteq Below(t, n)
  BY <1>1, BelowLeast
<1>3. ASSUME NEW n \in Members(t), NEW m \in Below(t, n), m # n,
             t.parent[m] \notin Below(t, n)
      PROVE  FALSE
  <2>1. Closed(t, Below(t, n) \ {m})
    BY <1>0, <1>1, <1>3, LinkFacts DEF Closed
  <2>. QED
    BY <2>1, <1>1, <1>3, BelowLeast
<1>4. ASSUME NEW n \in Members(t), NEW s \in Sides, n \in Below(t, t.kid[n][s])
      PROVE  FALSE
  <2>. DEFINE c == t.kid[n][s]
              S == Members(t) \ Below(t, c)
  <2>1. c # Nil /\ c \in Members(t) /\ t.parent[c] = n /\ c # t.root
    BY <1>0, <1>4, LinkFacts DEF Below
  <2>2. t.root # Nil => t.root \in S
    BY <2>1, <1>0, <1>3, <1>1, LinkFacts
  <2>3. Closed(t, S)
    <3>. SUFFICES ASSUME NEW m \in S, NEW k \in Sides, t.kid[m][k] # Nil
                  PROVE  t.kid[m][k] \notin Below(t, c)
      BY <1>0 DEF Closed
    <3>1. t.parent[t.kid[m][k]] = m
      BY <1>0, LinkFacts
    <3>. QED
      BY <3>1, <2>1, <1>3, <1>4
  <2>. HIDE DEF S, c
  <2>4. S = Members(t)
    BY <2>2, <2>3, Reached DEF S
  <2>. QED
    BY <2>4, <2>1, <1>1 DEF S
<1>5. ASSUME NEW n \in Members(t)
      PROVE  Below(t, n) = {n} \cup UNION {Below(t, t.kid[n][s]) : s \in Sides}
  <2>. DEFINE S == {n} \cup UNION {Below(t, t.kid[n][s]) : s \in Sides}
  <2>1. ASSUME NEW s \in Sides
        PROVE  /\ Below(t, t.kid[n][s]) \subseteq Below(t, n)
               /\ t.kid[n][s] # Nil => t.kid[n][s] \in Below(t, t.kid[n][s])
               /\ Closed(t, Below(t, t.kid[n][s]))
    <3>1. CASE t.kid[n][s] = Nil
      BY <3>1 DEF Below, Closed
    <3>2. CASE t.kid[n][s] # Nil
      <4>1. t.kid[n][s] \in Below(t, n) /\ t.kid[n][s] \in Members(t)
        BY <3>2, <1>1 DEF Closed
      <4>. QED
        BY <4>1, <1>1, <1>2
    <3>. QED BY <3>1, <3>2
  <2>2. S \subseteq Below(t, n)
    BY <2>1, <1>1
  <2>3. Closed(t, S)
    BY <2>1 DEF Closed
  <2>4. Below(t, n) \subseteq S
    BY <2>2, <2>3, <1>1, BelowLeast
  <2>. QED
    BY <2>2, <2>4
<1>6. ASSUME NEW n \in Members(t), NEW s \in Sides,
             NEW x \in Below(t, t.kid[n][s]) \cap Below(t, t.kid[n][Opposite(s)])
      PROVE  FALSE
  <2>. DEFINE a == t.kid[n][s]
              b == t.kid[n][Opposite(s)]
              S == Members(t) \ (Below(t, a) \cap Below(t, b))
  <2>1. /\ a # Nil /\ a \in Members(t) /\ t.parent[a] = n /\ a # t.root
        /\ b # Nil /\ b \in Members(t) /\ t.parent[b] = n /\ b # t.root
        /\ a # b
    BY <1>0, <1>6, LinkFacts, SidesFacts DEF Below
  <2>2. n \notin Below(t, a) /\ n \notin Below(t, b)
    BY <1>4, SidesFacts
  <2>3. t.root # Nil => t.root \in S
    BY <2>1, <1>0, <1>3, <1>1, LinkFacts
  <2>4. Closed(t, S)
    <3>. SUFFICES ASSUME NEW m \in S, NEW k \in Sides, t.kid[m][k] # Nil,
                         t.kid[m][k] \in Below(t, a), t.kid[m][k] \in Below(t, b)
                  PROVE  FALSE
      BY <1>0 DEF Closed
    <3>1. t.parent[t.kid[m][k]] = m
      BY <1>0, LinkFacts
    <3>2. m \notin Below(t, a) \/ m \notin Below(t, b)
      OBVIOUS
    <3>. QED
      BY <3>1, <3>2, <2>1, <2>2, <1>3
  <2>. HIDE DEF S, a, b
  <2>5. S = Members(t)
    BY <2>3, <2>4, Reached DEF S
  <2>. QED
    BY <2>5, <1>6, <1>1, <2>1 DEF S, a, b
<1>7. t.root # Nil => Below(t, t.root) = Members(t)
  BY <1>1, LinkFacts, Reached
<1>. QED
  BY <1>1, <1>2, <1>3, <1>4, <1>5, <1>6, <1>7 DEF Below

\* A set with these properties is the subtree: how the subtrees of a changed
\* tree are found.
LEMMA BelowIs ==
  ASSUME NEW t, Whole(t), NEW n \in Members(t), NEW B \in SUBSET Members(t),
         n \in B, Closed(t, B),
         \A m \in B : m # n => t.parent[m] \in B
  PROVE  Below(t, n) = B
<1>. DEFINE S == Members(t) \ (B \ Below(t, n))
<1>0. \A m \in Members(t) : m \in Nodes /\ m # Nil
  BY LinkFacts, NilAssumption
<1>1. Below(t, n) \subseteq B
  BY BelowLeast
<1>2. n \in Below(t, n) /\ \A m \in Below(t, n), s \in Sides :
        t.kid[m][s] # Nil => t.kid[m][s] \in Below(t, n)
  BY <1>0, BelowLeast, LinkFacts DEF Closed
<1>3. t.root # Nil => t.root \in S
  BY <1>0, <1>2, LinkFacts
<1>4. Closed(t, S)
  <2>. SUFFICES ASSUME NEW m \in S, NEW s \in Sides, t.kid[m][s] # Nil,
                       t.kid[m][s] \in B, t.kid[m][s] \notin Below(t, n)
                PROVE  FALSE
    BY <1>0, LinkFacts DEF Closed
  <2>1. t.parent[t.kid[m][s]] = m
    BY <1>0, LinkFacts
  <2>. QED
    BY <2>1, <1>2
<1>. HIDE DEF S
<1>5. S = Members(t)
  BY <1>3, <1>4, Reached DEF S
<1>. QED
  BY <1>1, <1>5 DEF S

-----------------------------------------------------------------------------
(***************************************************************************)
(* Colours do not matter to the links.                                     *)
(***************************************************************************)

SameLinks(t, u) ==
  /\ u \in TreeType
  /\ u.root = t.root /\ u.kid = t.kid /\ u.parent = t.parent
  /\ \A n \in Nodes \ Members(t) : u.color[n] = t.color[n]

LEMMA SameLinksWhole ==
  ASSUME NEW t, Whole(t), NEW u, SameLinks(t, u)
  PROVE  /\ Whole(u) /\ Members(u) = Members(t)
         /\ \A n \in Members(t) : Below(u, n) = Below(t, n)
<1>1. Members(u) = Members(t)
  BY DEF SameLinks, Members
<1>2. \A S : Closed(u, S) <=> Closed(t, S)
  BY DEF SameLinks, Closed
<1>3. Whole(u)
  BY <1>1, <1>2 DEF SameLinks, Whole, Outside, PointersAgree, NoneCutOff
<1>4. Subtrees(u) = Subtrees(t)
  BY <1>1, <1>2 DEF Subtrees
<1>. QED
  BY <1>1, <1>3, <1>4 DEF Below

LEMMA PaintLinks ==
  ASSUME NEW t, Whole(t), NEW n \in Members(t) \cup {Nil}, NEW c \in {"red", "black"}
  PROVE  /\ SameLinks(t, Paint(t, n, c))
         /\ \A m \in Nodes : Paint(t, n, c).color[m] = IF m = n THEN c ELSE t.color[m]
<1>1. CASE n = Nil
  BY <1>1, NilAssumption DEF Paint, SameLinks, Whole
<1>2. CASE n # Nil
  BY <1>2 DEF Paint, SameLinks, Whole, TreeType, Members
<1>. QED
  BY <1>1, <1>2

LEMMA BlackRedLinks ==
  ASSUME NEW t, Whole(t), NEW b \in Members(t), NEW r \in Members(t), b # r
  PROVE  /\ SameLinks(t, BlackRed(t, b, r))
         /\ \A m \in Nodes : BlackRed(t, b, r).color[m] =
              IF m = b THEN "black" ELSE IF m = r THEN "red" ELSE t.color[m]
BY DEF BlackRed, SameLinks, Whole, TreeType, Members

-----------------------------------------------------------------------------
(***************************************************************************)
(* Rotation.                                                               *)
(***************************************************************************)

\* u is t after x went down on side s, link by link.
Rotated(t, u, x, s) ==
  LET y == t.kid[x][Opposite(s)]
      c == t.kid[y][s]
      g == t.parent[x]
  IN  /\ u \in TreeType
      /\ u.color = t.color
      /\ u.root = IF g = Nil THEN y ELSE t.root
      /\ \A n \in Nodes : u.parent[n] =
           IF n = x THEN y ELSE IF n = y THEN g ELSE IF n = c THEN x ELSE t.parent[n]
      /\ \A n \in Nodes, k \in Sides : u.kid[n][k] =
           IF n = x /\ k = Opposite(s) THEN c
           ELSE IF n = y /\ k = s THEN x
           ELSE IF n = g /\ t.kid[g][k] = x THEN y
           ELSE t.kid[n][k]

\* What is needed of x and y for that: no short cycles.
LEMMA KidFacts ==
  ASSUME NEW t, Whole(t), NEW x \in Nodes, NEW s \in Sides, t.kid[x][s] # Nil
  PROVE  LET y == t.kid[x][s]
         IN  /\ x \in Members(t) /\ y \in Members(t) /\ t.parent[y] = x
             /\ x # y /\ x # Nil /\ y # Nil /\ t.parent[x] # y /\ t.parent[x] # x
             /\ \A k \in Sides : /\ t.kid[y][k] # y /\ t.kid[y][k] # x
                                 /\ t.kid[y][k] # Nil => t.kid[y][k] # t.parent[x]
<1>. DEFINE y == t.kid[x][s]
<1>1. /\ x \in Members(t) /\ y \in Members(t) /\ t.parent[y] = x
      /\ x # Nil /\ y # Nil
  BY LinkFacts, NilAssumption
<1>2. x \notin Below(t, y) /\ y \in Below(t, y)
  BY <1>1, BelowFacts
<1>3. \A k \in Sides : t.kid[y][k] # Nil => t.kid[y][k] \in Below(t, y)
  BY <1>1, BelowLeast, LinkFacts DEF Closed
<1>4. \A z \in Below(t, y) : t.parent[x] # z
  <2>. SUFFICES ASSUME NEW z \in Below(t, y), t.parent[x] = z PROVE FALSE
    OBVIOUS
  <2>1. z # Nil /\ z \in Members(t)
    BY <1>1, BelowFacts, LinkFacts, NilAssumption
  <2>2. x \in Below(t, z)
    <3>1. PICK k \in Sides : t.kid[z][k] = x
      BY <2>1, <1>1, LinkFacts
    <3>. QED
      BY <3>1, <2>1, <1>1, BelowLeast, LinkFacts DEF Closed
  <2>. QED
    BY <2>1, <2>2, <1>1, <1>2, BelowFacts
<1>5. \A k \in Sides : t.kid[y][k] # y /\ t.kid[y][k] # x
  BY <1>1, <1>2, <1>3, BelowFacts
<1>6. t.parent[x] # x
  BY <1>1, LinkFacts, BelowFacts
<1>. QED
  BY <1>1, <1>2, <1>3, <1>4, <1>5, <1>6

\* u is t but for the parent of n, which is p.
ParentSet(t, u, n, p) ==
  /\ u \in TreeType /\ u.root = t.root /\ u.kid = t.kid /\ u.color = t.color
  /\ \A m \in Nodes : u.parent[m] = IF m = n THEN p ELSE t.parent[m]

LEMMA SetParentFacts ==
  ASSUME NEW t \in TreeType, NEW n \in Nodes \cup {Nil}, NEW p \in Nodes \cup {Nil}
  PROVE  ParentSet(t, SetParent(t, n, p), n, p)
<1>1. CASE n = Nil
  BY <1>1, NilAssumption DEF SetParent, ParentSet
<1>2. CASE n # Nil
  BY <1>2 DEF SetParent, TreeType, ParentSet
<1>. QED
  BY <1>1, <1>2

\* u is t but for the kid of n on side s, which is c.
KidSet(t, u, n, s, c) ==
  /\ u \in TreeType
  /\ u.root = t.root /\ u.parent = t.parent /\ u.color = t.color
  /\ \A m \in Nodes, k \in Sides :
       u.kid[m][k] = IF m = n /\ k = s THEN c ELSE t.kid[m][k]

LEMMA SetKidFacts ==
  ASSUME NEW t \in TreeType, NEW n \in Nodes, NEW s \in Sides, NEW c \in Nodes \cup {Nil}
  PROVE  KidSet(t, SetKid(t, n, s, c), n, s, c)
BY DEF SetKid, TreeType, KidSet

\* u is t but for new, which hangs where old did.
Replaced(t, u, p, old, new) ==
  /\ u \in TreeType
  /\ u.root = IF p = Nil THEN new ELSE t.root
  /\ u.parent = t.parent /\ u.color = t.color
  /\ \A m \in Nodes, k \in Sides : u.kid[m][k] =
       IF m = p /\ t.kid[p][k] = old THEN new ELSE t.kid[m][k]

HangsAt(t, p, n) ==
  p # Nil => /\ \E s \in Sides : t.kid[p][s] = n
             /\ t.kid[p]["left"] # t.kid[p]["right"]

LEMMA ReplaceFacts ==
  ASSUME NEW t \in TreeType, NEW p \in Nodes \cup {Nil}, NEW old \in Nodes,
         NEW new \in Nodes \cup {Nil}, HangsAt(t, p, old)
  PROVE  Replaced(t, Replace(t, p, old, new), p, old, new)
<1>1. CASE p = Nil
  BY <1>1, NilAssumption DEF Replace, TreeType, Replaced
<1>2. CASE p # Nil
  <2>. DEFINE s == SideOf(t, p, old)
              u == SetKid(t, p, s, new)
  <2>1. s \in Sides /\ \A k \in Sides : t.kid[p][k] = old <=> k = s
    BY <1>2 DEF SideOf, Sides, HangsAt
  <2>2. Replace(t, p, old, new) = u
    BY <1>2 DEF Replace
  <2>. HIDE DEF s
  <2>3. KidSet(t, u, p, s, new)
    BY <1>2, <2>1, SetKidFacts
  <2>. HIDE DEF u
  <2>4. Replaced(t, u, p, old, new)
    BY <1>2, <2>1, <2>3 DEF KidSet, Replaced
  <2>. QED
    BY <2>2, <2>4
<1>. QED
  BY <1>1, <1>2

LEMMA MemberHangs ==
  ASSUME NEW t, Whole(t), NEW n \in Members(t)
  PROVE  HangsAt(t, t.parent[n], n)
<1>. SUFFICES ASSUME t.parent[n] # Nil
              PROVE  /\ \E s \in Sides : t.kid[t.parent[n]][s] = n
                     /\ t.kid[t.parent[n]]["left"] # t.kid[t.parent[n]]["right"]
  BY DEF HangsAt
<1>1. PICK s \in Sides : t.kid[t.parent[n]][s] = n
  BY LinkFacts
<1>2. t.parent[n] \in Nodes /\ n # Nil
  BY LinkFacts, NilAssumption
<1>3. t.kid[t.parent[n]][Opposite(s)] # t.kid[t.parent[n]][s]
  BY <1>1, <1>2, LinkFacts
<1>. QED
  BY <1>1, <1>3 DEF Sides, Opposite

LEMMA RotateFacts ==
  ASSUME NEW t, Whole(t), NEW x \in Nodes, NEW s \in Sides, t.kid[x][Opposite(s)] # Nil
  PROVE  Rotated(t, Rotate(t, x, s), x, s)
<1>. DEFINE o  == Opposite(s)
            y  == t.kid[x][o]
            c  == t.kid[y][s]
            g  == t.parent[x]
            t0 == SetKid(t, x, o, c)
            t1 == SetParent(t0, c, x)
            t2 == SetParent(t1, y, g)
            t3 == Replace(t2, g, x, y)
            t4 == SetKid(t3, y, s, x)
            t5 == SetParent(t4, x, y)
<1>. HIDE DEF o, y, c, g, t0, t1, t2, t3, t4, t5
<1>1. Rotate(t, x, s) = t5
  BY ZenonT(30) DEF Rotate, o, y, c, g, t0, t1, t2, t3, t4, t5
<1>2. /\ t \in TreeType /\ o \in Sides /\ o # s
      /\ y \in Nodes /\ c \in Nodes \cup {Nil} /\ g \in Nodes \cup {Nil}
      /\ x # y /\ c # x /\ c # y /\ g # x /\ g # y /\ x # Nil /\ y # Nil
      /\ c # Nil => c # g
  BY KidFacts, SidesFacts, LinkFacts DEF Whole, o, y, c, g
<1>3. HangsAt(t, g, x)
  BY KidFacts, SidesFacts, MemberHangs DEF o, g
<1>4. KidSet(t, t0, x, o, c)
  BY <1>2, SetKidFacts DEF t0
<1>5. ParentSet(t0, t1, c, x)
  BY <1>2, <1>4, SetParentFacts DEF t1, KidSet
<1>6. ParentSet(t1, t2, y, g)
  BY <1>2, <1>5, SetParentFacts, SMTT(30) DEF t2, ParentSet
<1>7. HangsAt(t2, g, x)
  <2>1. \A k \in Sides : g # Nil => t2.kid[g][k] = t.kid[g][k]
    BY <1>2, <1>4, <1>5, <1>6 DEF KidSet, ParentSet
  <2>. QED
    BY <1>3, <2>1 DEF HangsAt, Sides
<1>8. Replaced(t2, t3, g, x, y)
  BY <1>2, <1>6, <1>7, ReplaceFacts DEF t3, ParentSet
<1>9. KidSet(t3, t4, y, s, x)
  BY <1>2, <1>8, SetKidFacts DEF t4, Replaced
<1>10. ParentSet(t4, t5, x, y)
  BY <1>2, <1>9, SetParentFacts DEF t5, KidSet
<1>11. \A n \in Nodes : t5.parent[n] =
         IF n = x THEN y ELSE IF n = y THEN g ELSE IF n = c THEN x ELSE t.parent[n]
  BY <1>2, <1>4, <1>5, <1>6, <1>8, <1>9, <1>10 DEF KidSet, ParentSet, Replaced
<1>12. \A n \in Nodes, k \in Sides : t5.kid[n][k] =
         IF n = x /\ k = o THEN c
         ELSE IF n = y /\ k = s THEN x
         ELSE IF n = g /\ t.kid[g][k] = x THEN y
         ELSE t.kid[n][k]
  BY <1>2, <1>4, <1>5, <1>6, <1>8, <1>9, <1>10 DEF KidSet, ParentSet, Replaced
<1>13. /\ t5.root = IF g = Nil THEN y ELSE t.root
       /\ t5 \in TreeType /\ t5.color = t.color
  BY <1>4, <1>5, <1>6, <1>8, <1>9, <1>10 DEF KidSet, ParentSet, Replaced
<1>. QED
  BY <1>1, <1>11, <1>12, <1>13, SMTT(30) DEF Rotated, o, y, c, g

LEMMA RotatedWhole ==
  ASSUME NEW t, Whole(t), NEW x \in Nodes, NEW s \in Sides, t.kid[x][Opposite(s)] # Nil,
         NEW u, Rotated(t, u, x, s)
  PROVE  Whole(u) /\ Members(u) = Members(t)
<1>. DEFINE o  == Opposite(s)
            y  == t.kid[x][o]
            c  == t.kid[y][s]
            g  == t.parent[x]
<1>1. /\ o \in Sides /\ o # s
      /\ x \in Members(t) /\ y \in Members(t) /\ Members(t) \subseteq Nodes
      /\ c \in Members(t) \cup {Nil} /\ g \in Members(t) \cup {Nil}
      /\ x # y /\ c # x /\ c # y /\ g # x /\ g # y /\ x # Nil /\ y # Nil
      /\ c # Nil => c # g
      /\ t.parent[y] = x
      /\ c # Nil => t.parent[c] = y
      /\ Nil \notin Members(t) /\ \A k \in Sides : k = s \/ k = o
  BY KidFacts, SidesFacts, LinkFacts, NilAssumption
<1>2. /\ u \in TreeType /\ u.color = t.color
      /\ u.root = IF g = Nil THEN y ELSE t.root
      /\ \A n \in Nodes : u.parent[n] =
           IF n = x THEN y ELSE IF n = y THEN g ELSE IF n = c THEN x ELSE t.parent[n]
      /\ \A n \in Nodes, k \in Sides : u.kid[n][k] =
           IF n = x /\ k = o THEN c
           ELSE IF n = y /\ k = s THEN x
           ELSE IF n = g /\ t.kid[g][k] = x THEN y
           ELSE t.kid[n][k]
  BY DEF Rotated
<1>3. g = Nil <=> x = t.root
  BY <1>1, LinkFacts
<1>. HIDE DEF o, y, c, g
<1>4. Members(u) = Members(t)
  <2>1. \A n \in Nodes : n \in Members(t) <=> (n = t.root \/ t.parent[n] # Nil)
    BY DEF Members
  <2>2. \A n \in Nodes : n \in Members(u) <=> (n = u.root \/ u.parent[n] # Nil)
    BY DEF Members
  <2>3. ASSUME NEW n \in Nodes
        PROVE  n \in Members(u) <=> n \in Members(t)
    <3>1. CASE n = x
      BY <3>1, <1>1, <1>2, <2>2
    <3>2. CASE n = y
      BY <3>2, <1>1, <1>2, <2>2
    <3>3. CASE n = c
      BY <3>3, <1>1, <1>2, <2>2, NilAssumption
    <3>4. CASE n # x /\ n # y /\ n # c
      <4>1. u.parent[n] = t.parent[n]
        BY <3>4, <1>2
      <4>2. n = u.root <=> n = t.root
        BY <3>4, <1>2, <1>3
      <4>. QED
        BY <4>1, <4>2, <2>1, <2>2
    <3>. QED
      BY <3>1, <3>2, <3>3, <3>4
  <2>. QED
    BY <2>3 DEF Members
<1>5. \A n \in Nodes, k \in Sides :
        /\ t.kid[n][k] # Nil => /\ t.parent[t.kid[n][k]] = n /\ n \in Members(t)
                                /\ t.kid[n][k] \in Members(t)
                                /\ t.kid[n][k] # t.root
                                /\ t.kid[n][Opposite(k)] # t.kid[n][k]
  BY LinkFacts
<1>6. Outside(u)
  <2>. SUFFICES ASSUME NEW n \in Nodes \ Members(t)
                PROVE  u.kid[n] = NoKids /\ u.color[n] = "red"
    BY <1>4, Zenon DEF Outside
  <2>1. t.kid[n] = NoKids /\ t.color[n] = "red"
    BY DEF Whole, Outside
  <2>a. n # x /\ n # y /\ n # g
    BY <1>1, NilAssumption
  <2>2. \A k \in Sides : u.kid[n][k] = NoKids[k]
    BY <1>2, <2>1, <2>a
  <2>3. u.kid[n] \in [Sides -> Nodes \cup {Nil}]
    BY <1>2 DEF TreeType
  <2>. QED
    BY <1>2, <2>1, <2>2, <2>3 DEF NoKids
<1>7. PointersAgree(u)
  <2>1. u.root # Nil => u.parent[u.root] = Nil
    BY <1>1, <1>2, <1>3, LinkFacts
  <2>2. ASSUME NEW n \in Members(u), NEW k \in Sides, u.kid[n][k] # Nil
        PROVE  u.parent[u.kid[n][k]] = n
    <3>0. n \in Nodes /\ n # Nil
      BY <1>1, <1>4
    <3>1. CASE n = x /\ k = o
      <4>1. u.kid[n][k] = c
        BY <3>0, <3>1, <1>2
      <4>. QED
        BY <4>1, <3>1, <2>2, <1>1, <1>2
    <3>2. CASE n = y /\ k = s
      <4>1. u.kid[n][k] = x
        BY <3>0, <3>2, <1>1, <1>2
      <4>. QED
        BY <4>1, <3>2, <1>1, <1>2
    <3>3. CASE n = g /\ t.kid[g][k] = x
      <4>1. u.kid[n][k] = y
        BY <3>0, <3>3, <1>1, <1>2
      <4>. QED
        BY <4>1, <3>3, <1>1, <1>2
    <3>4. CASE ~(n = x /\ k = o) /\ ~(n = y /\ k = s) /\ ~(n = g /\ t.kid[g][k] = x)
      <4>1. u.kid[n][k] = t.kid[n][k]
        BY <3>0, <3>4, <1>2
      <4>2. t.kid[n][k] \in Members(t) /\ t.parent[t.kid[n][k]] = n
            /\ t.kid[n][Opposite(k)] # t.kid[n][k]
        BY <4>1, <3>0, <2>2, <1>5
      <4>3. t.kid[n][k] # x
        BY <4>2, <3>4 DEF g
      <4>4. t.kid[n][k] # y
        <5>1. t.kid[n][k] = y => n = x /\ k = s
          BY <4>2, <1>1, <3>4
        <5>. QED
          BY <5>1, <4>2 DEF o, y
      <4>5. t.kid[n][k] # c
        <5>1. t.kid[n][k] = c => n = y /\ k = o
          BY <4>1, <4>2, <2>2, <1>1, <3>4
        <5>. QED
          BY <5>1, <4>2, SidesFacts DEF o, c
      <4>. QED
        BY <4>1, <4>2, <4>3, <4>4, <4>5, <1>1, <1>2
    <3>. QED
      BY <3>1, <3>2, <3>3, <3>4
  <2>3. ASSUME NEW n \in Members(u), u.kid[n][s] = u.kid[n][o], u.kid[n][s] # Nil
        PROVE  FALSE
    <3>0. n \in Nodes /\ n # Nil /\ (t.kid[n][s] # Nil => t.kid[n][s] # t.kid[n][o])
          /\ \A k \in Sides : t.kid[n][k] # Nil => t.parent[t.kid[n][k]] = n
      BY <1>1, <1>4, <1>5 DEF o
    <3>1. CASE n = x
      <4>1. u.kid[n][o] = c /\ u.kid[n][s] = t.kid[x][s]
        BY <3>1, <3>0, <1>1, <1>2
      <4>. QED
        BY <4>1, <3>1, <3>0, <2>3, <1>1
    <3>2. CASE n = y
      <4>1. u.kid[n][s] = x /\ u.kid[n][o] = t.kid[y][o]
        BY <3>2, <3>0, <1>1, <1>2
      <4>. QED
        BY <4>1, <3>2, <3>0, <2>3, <1>1 DEF g
    <3>3. CASE n = g
      <4>1. \A k \in Sides : u.kid[n][k] = IF t.kid[n][k] = x THEN y ELSE t.kid[n][k]
        BY <3>3, <3>0, <1>1, <1>2
      <4>. QED
        BY <4>1, <3>3, <3>0, <2>3, <1>1
    <3>4. CASE n # x /\ n # y /\ n # g
      <4>1. \A k \in Sides : u.kid[n][k] = t.kid[n][k]
        BY <3>4, <3>0, <1>2
      <4>. QED
        BY <4>1, <3>0, <2>3, <1>1
    <3>. QED
      BY <3>1, <3>2, <3>3, <3>4
  <2>4. ASSUME NEW n \in Members(u), u.kid[n]["left"] = u.kid[n]["right"]
        PROVE  u.kid[n] = NoKids
    <3>1. u.kid[n]["left"] = Nil /\ u.kid[n]["right"] = Nil
      BY <2>3, <2>4, <1>1, SidesFacts DEF o, Opposite, Sides
    <3>2. u.kid[n] \in [Sides -> Nodes \cup {Nil}]
      BY <1>1, <1>2, <1>4 DEF TreeType
    <3>. QED
      BY <3>1, <3>2 DEF Sides, NoKids
  <2>5. ASSUME NEW n \in Members(u), u.parent[n] # Nil
        PROVE  \E k \in Sides : u.kid[u.parent[n]][k] = n
    <3>1. t.parent[n] # Nil => \E k \in Sides : t.kid[t.parent[n]][k] = n
      BY <1>4, LinkFacts
    <3>2. \A k \in Sides : g # Nil /\ t.kid[g][k] = x => u.kid[g][k] = y
      BY <1>1, <1>2
    <3>3. t.parent[n] \in Members(t) \cup {Nil} /\ t.parent[x] = g
      BY <1>4, <1>1, LinkFacts DEF g
    <3>4. g # Nil => \E k \in Sides : t.kid[g][k] = x
      BY <1>1, <3>3, LinkFacts
    <3>5. CASE n \in {x, y, c}
      BY <1>1, <1>2, <1>4, <2>5, <3>2, <3>4, <3>5
    <3>6. CASE n \notin {x, y, c}
      BY <1>1, <1>2, <1>4, <2>5, <3>1, <3>3, <3>6 DEF y, c
    <3>. QED BY <3>5, <3>6
  <2>. QED
    BY <2>1, <2>2, <2>4, <2>5 DEF PointersAgree
<1>8. NoneCutOff(u)
  <2>. SUFFICES ASSUME NEW S \in SUBSET Members(t), u.root # Nil => u.root \in S,
                       Closed(u, S)
                PROVE  S = Members(t)
    BY <1>4 DEF NoneCutOff
  <2>1. \A n \in S, k \in Sides : u.kid[n][k] # Nil => u.kid[n][k] \in S
    BY DEF Closed
  <2>2. CASE y \in S
    <3>1. x \in S
      BY <1>1, <1>2, <2>1, <2>2
    <3>2. Closed(t, S)
      <4>. SUFFICES ASSUME NEW n \in S, NEW k \in Sides, t.kid[n][k] # Nil
                    PROVE  t.kid[n][k] \in S
        BY DEF Closed
      <4>. QED
        BY <1>1, <1>2, <2>1, <2>2, <3>1 DEF y, c
    <3>3. t.root # Nil => t.root \in S
      BY <1>1, <1>2, <1>3, <3>1
    <3>. QED
      BY <3>2, <3>3, Reached
  <2>3. CASE y \notin S
    <3>1. g # Nil => g \notin S
      <4>1. g # Nil => \E k \in Sides : u.kid[g][k] = y
        <5>1. g # Nil => \E k \in Sides : t.kid[g][k] = x
          BY <1>1, LinkFacts DEF g
        <5>. QED
          BY <5>1, <1>1, <1>2
      <4>. QED
        BY <4>1, <2>1, <2>3, <1>1
    <3>2. g # Nil /\ t.root # x
      BY <2>3, <1>1, <1>2, <1>3
    <3>3. Closed(t, S \ {x})
      <4>. SUFFICES ASSUME NEW n \in S, n # x, NEW k \in Sides, t.kid[n][k] # Nil
                    PROVE  t.kid[n][k] \in S /\ t.kid[n][k] # x
        BY DEF Closed
      <4>1. n # g /\ n # y
        BY <3>1, <3>2, <2>3
      <4>2. t.kid[n][k] # x
        BY <4>1, <1>5, <1>1 DEF g
      <4>3. u.kid[n][k] = t.kid[n][k]
        BY <4>1, <1>1, <1>2
      <4>. QED
        BY <4>2, <4>3, <2>1
    <3>4. t.root # Nil => t.root \in S \ {x}
      BY <3>2, <1>2
    <3>5. S \ {x} = Members(t)
      BY <3>3, <3>4, Reached
    <3>. QED
      BY <3>5, <1>1
  <2>. QED
    BY <2>2, <2>3
<1>. QED
  BY <1>2, <1>4, <1>6, <1>7, <1>8 DEF Whole

-----------------------------------------------------------------------------
(***************************************************************************)
(* Linking a node.                                                         *)
(***************************************************************************)

\* u is t with n hung below p on side s, or at the root.
LinkedAt(t, u, n, p, s) ==
  /\ u \in TreeType
  /\ u.root = IF p = Nil THEN n ELSE t.root
  /\ \A m \in Nodes : u.parent[m] = IF m = n THEN p ELSE t.parent[m]
  /\ \A m \in Nodes : u.color[m] = t.color[m]
  /\ \A m \in Nodes, k \in Sides :
       u.kid[m][k] = IF m = p /\ k = s THEN n ELSE t.kid[m][k]

\* There is room for n below p on side s.
Room(t, n, p, s) ==
  /\ n \in Nodes \ Members(t) /\ p \in Members(t) \cup {Nil} /\ s \in Sides
  /\ IF p = Nil THEN t.root = Nil ELSE t.kid[p][s] = Nil

LEMMA LinkNodeFacts ==
  ASSUME NEW t, Whole(t), NEW n, NEW p, NEW s, Room(t, n, p, s)
  PROVE  LinkedAt(t, Link(t, n, p, s), n, p, s)
<1>. DEFINE t1 == [t EXCEPT !.parent[n] = p, !.kid[n] = NoKids, !.color[n] = "red"]
<1>1. /\ n \in Nodes /\ p \in Nodes \cup {Nil} /\ s \in Sides /\ t \in TreeType
      /\ t.kid[n] = NoKids /\ t.color[n] = "red" /\ n # p
  BY LinkFacts, NilAssumption DEF Room, Whole, Outside
<1>2. /\ t1 \in TreeType /\ t1.root = t.root
      /\ \A m \in Nodes : t1.parent[m] = IF m = n THEN p ELSE t.parent[m]
      /\ \A m \in Nodes : t1.color[m] = IF m = n THEN "red" ELSE t.color[m]
      /\ \A m \in Nodes : t1.kid[m] = IF m = n THEN NoKids ELSE t.kid[m]
  BY <1>1 DEF TreeType, NoKids
<1>3. Link(t, n, p, s) = IF p = Nil THEN [t1 EXCEPT !.root = n] ELSE SetKid(t1, p, s, n)
  BY DEF Link
<1>. HIDE DEF t1
<1>4. CASE p = Nil
  <2>1. [t1 EXCEPT !.root = n] \in TreeType
    BY <1>1, <1>2 DEF TreeType
  <2>. DEFINE u == [t1 EXCEPT !.root = n]
  <2>2. /\ u.root = n /\ u.parent = t1.parent /\ u.color = t1.color /\ u.kid = t1.kid
    BY <1>1, <1>2 DEF TreeType
  <2>. HIDE DEF u
  <2>3. LinkedAt(t, u, n, p, s)
    BY <1>1, <1>2, <1>4, <2>1, <2>2, NilAssumption DEF LinkedAt, u
  <2>. QED
    BY <1>3, <1>4, <2>3 DEF u
<1>5. CASE p # Nil
  <2>. DEFINE u == SetKid(t1, p, s, n)
  <2>1. KidSet(t1, u, p, s, n)
    BY <1>1, <1>2, <1>5, SetKidFacts
  <2>. HIDE DEF u
  <2>2. LinkedAt(t, u, n, p, s)
    BY <1>1, <1>2, <1>5, <2>1 DEF LinkedAt, KidSet
  <2>. QED
    BY <1>3, <1>5, <2>2 DEF u
<1>. QED
  BY <1>4, <1>5

LEMMA LinkedAtWhole ==
  ASSUME NEW t, Whole(t), NEW n, NEW p, NEW s, Room(t, n, p, s),
         NEW u, LinkedAt(t, u, n, p, s)
  PROVE  Whole(u) /\ Members(u) = Members(t) \cup {n}
<1>1. /\ n \in Nodes /\ n \notin Members(t) /\ p \in Nodes \cup {Nil} /\ s \in Sides
      /\ p \in Members(t) \cup {Nil} /\ n # Nil /\ n # p
      /\ Members(t) \subseteq Nodes /\ Nil \notin Members(t)
      /\ IF p = Nil THEN t.root = Nil ELSE t.kid[p][s] = Nil
  BY LinkFacts, NilAssumption DEF Room, Whole
<1>2. /\ u \in TreeType
      /\ u.root = IF p = Nil THEN n ELSE t.root
      /\ \A m \in Nodes : u.parent[m] = IF m = n THEN p ELSE t.parent[m]
      /\ \A m \in Nodes : u.color[m] = t.color[m]
      /\ \A m \in Nodes, k \in Sides :
           u.kid[m][k] = IF m = p /\ k = s THEN n ELSE t.kid[m][k]
  BY DEF LinkedAt
<1>3. p = Nil => Members(t) = {}
  <2>1. {} \in SUBSET Members(t) /\ Closed(t, {})
    BY DEF Closed
  <2>. QED
    BY <1>1, <2>1, Reached
<1>4. Members(u) = Members(t) \cup {n}
  <2>1. \A m \in Nodes : m \in Members(t) <=> (m = t.root \/ t.parent[m] # Nil)
    BY DEF Members
  <2>2. \A m \in Nodes : m \in Members(u) <=> (m = u.root \/ u.parent[m] # Nil)
    BY DEF Members
  <2>3. CASE p = Nil
    <3>1. Members(t) = {} /\ u.root = n
      BY <1>2, <1>3, <2>3
    <3>2. \A m \in Nodes : m \in Members(u) <=> m = n
      BY <1>2, <2>1, <2>2, <2>3, <3>1, Zenon
    <3>. QED
      BY <1>1, <3>1, <3>2 DEF Members
  <2>4. CASE p # Nil
    <3>1. \A m \in Nodes : m \in Members(u) <=> m \in Members(t) \/ m = n
      BY <1>1, <1>2, <2>1, <2>2, <2>4, ZenonT(30)
    <3>. QED
      BY <1>1, <3>1 DEF Members
  <2>. QED
    BY <2>3, <2>4
<1>5. /\ t.root \in Members(t) \cup {Nil}
      /\ \A m \in Nodes, k \in Sides :
           /\ t.kid[m][k] \in Members(t) \cup {Nil}
           /\ t.kid[m][k] # Nil => /\ t.parent[t.kid[m][k]] = m /\ m \in Members(t)
                                   /\ t.kid[m][Opposite(k)] # t.kid[m][k]
  BY LinkFacts
<1>6. Outside(u)
  <2>. SUFFICES ASSUME NEW m \in Nodes \ Members(u)
                PROVE  u.kid[m] = NoKids /\ u.color[m] = "red"
    BY DEF Outside
  <2>1. t.kid[m] = NoKids /\ t.color[m] = "red" /\ m # p /\ m # n
    BY <1>1, <1>4, NilAssumption DEF Whole, Outside
  <2>2. \A k \in Sides : u.kid[m][k] = NoKids[k]
    BY <1>2, <2>1
  <2>3. u.kid[m] \in [Sides -> Nodes \cup {Nil}]
    BY <1>2 DEF TreeType
  <2>. QED
    BY <1>2, <2>1, <2>2, <2>3 DEF NoKids
<1>7. PointersAgree(u)
  <2>1. u.root # Nil => u.parent[u.root] = Nil
    BY <1>1, <1>2, <1>5, LinkFacts
  <2>2. ASSUME NEW m \in Members(u), NEW k \in Sides, u.kid[m][k] # Nil
        PROVE  u.parent[u.kid[m][k]] = m
    BY <1>1, <1>2, <1>4, <1>5, <2>2
  <2>3. ASSUME NEW m \in Members(u), u.kid[m]["left"] = u.kid[m]["right"]
        PROVE  u.kid[m] = NoKids
    <3>1. m \in Nodes /\ \A k \in Sides : u.kid[m][Opposite(k)] = u.kid[m][k]
      BY <1>1, <1>4, <2>3 DEF Sides, Opposite
    <3>2. \A k \in Sides : u.kid[m][k] = Nil
      BY <1>1, <1>2, <1>5, <3>1, SidesFacts
    <3>3. u.kid[m] \in [Sides -> Nodes \cup {Nil}]
      BY <1>2, <3>1 DEF TreeType
    <3>. QED
      BY <3>2, <3>3 DEF NoKids
  <2>4. ASSUME NEW m \in Members(u), u.parent[m] # Nil
        PROVE  \E k \in Sides : u.kid[u.parent[m]][k] = m
    <3>1. CASE m = n
      BY <3>1, <2>4, <1>1, <1>2
    <3>2. CASE m # n
      <4>1. /\ m \in Members(t) /\ m \in Nodes /\ u.parent[m] = t.parent[m]
        BY <3>2, <1>1, <1>2, <1>4
      <4>2. PICK k \in Sides : t.kid[t.parent[m]][k] = m
        BY <4>1, <2>4, LinkFacts
      <4>3. t.parent[m] \in Nodes
        BY <4>1, <2>4, LinkFacts
      <4>4. ~(t.parent[m] = p /\ k = s)
        BY <4>1, <4>2, <1>1, <2>4
      <4>5. u.kid[t.parent[m]][k] = m
        BY <4>2, <4>3, <4>4, <1>2
      <4>. QED
        BY <4>1, <4>5
    <3>. QED BY <3>1, <3>2
  <2>. QED
    BY <2>1, <2>2, <2>3, <2>4 DEF PointersAgree
<1>8. NoneCutOff(u)
  <2>. SUFFICES ASSUME NEW S \in SUBSET Members(u), u.root # Nil => u.root \in S,
                       Closed(u, S)
                PROVE  S = Members(u)
    BY DEF NoneCutOff
  <2>1. \A m \in S, k \in Sides : u.kid[m][k] # Nil => u.kid[m][k] \in S
    BY DEF Closed
  <2>2. Closed(t, S \ {n})
    <3>. SUFFICES ASSUME NEW m \in S, m # n, NEW k \in Sides, t.kid[m][k] # Nil
                  PROVE  t.kid[m][k] \in S /\ t.kid[m][k] # n
      BY DEF Closed
    <3>1. m \in Nodes
      BY <1>1, <1>4
    <3>. QED
      BY <3>1, <1>1, <1>2, <1>5, <2>1
  <2>3. t.root # Nil => t.root \in S \ {n}
    BY <1>1, <1>2, <1>5
  <2>4. S \ {n} = Members(t)
    BY <2>2, <2>3, <1>4, Reached
  <2>5. n \in S
    BY <1>1, <1>2, <2>1, <2>4
  <2>. QED
    BY <2>4, <2>5, <1>4
<1>. QED
  BY <1>2, <1>4, <1>6, <1>7, <1>8 DEF Whole

-----------------------------------------------------------------------------
(***************************************************************************)
(* Splicing a node out.                                                    *)
(***************************************************************************)

\* n has at most one kid.
Thin(t, n) == n \in Members(t) /\ \E s \in Sides : t.kid[n][s] = Nil

LEMMA OnlyKidFacts ==
  ASSUME NEW t, Whole(t), NEW n, Thin(t, n)
  PROVE  LET c == OnlyKid(t, n)
         IN  /\ c \in Members(t) \cup {Nil} /\ c # n
             /\ \A s \in Sides : t.kid[n][s] = c \/ t.kid[n][s] = Nil
             /\ \E s \in Sides : t.kid[n][s] = c /\ t.kid[n][Opposite(s)] = Nil
             /\ c # Nil => t.parent[c] = n /\ c # t.parent[n]
<1>. DEFINE c == OnlyKid(t, n)
<1>1. n \in Members(t) /\ n \in Nodes
  BY LinkFacts DEF Thin
<1>2. PICK s \in Sides : t.kid[n][s] = c /\ t.kid[n][Opposite(s)] = Nil
  BY DEF Thin, OnlyKid, Sides, Opposite
<1>3. \A k \in Sides : t.kid[n][k] = c \/ t.kid[n][k] = Nil
  BY <1>2, SidesFacts
<1>. HIDE DEF c
<1>4. c # Nil => t.parent[c] = n /\ c # t.parent[n] /\ c # n
  BY <1>1, <1>2, KidFacts
<1>5. c \in Members(t) \cup {Nil}
  BY <1>1, <1>2, LinkFacts
<1>6. c # n
  BY <1>1, <1>4, NilAssumption
<1>. QED
  BY <1>2, <1>3, <1>4, <1>5, <1>6 DEF c

\* u is t after the kid of n took its place; the fields of n are left behind.
Spliced(t, u, n) ==
  LET c == OnlyKid(t, n)
      g == t.parent[n]
  IN  /\ u \in TreeType
      /\ u.root = IF g = Nil THEN c ELSE t.root
      /\ u.color = t.color
      /\ \A m \in Nodes : u.parent[m] = IF m = c THEN g ELSE t.parent[m]
      /\ \A m \in Nodes, k \in Sides :
           u.kid[m][k] = IF m = g /\ t.kid[g][k] = n THEN c ELSE t.kid[m][k]

LEMMA SpliceFacts ==
  ASSUME NEW t, Whole(t), NEW n, Thin(t, n)
  PROVE  Spliced(t, Splice(t, n), n)
<1>. DEFINE c  == OnlyKid(t, n)
            g  == t.parent[n]
            t1 == SetParent(t, c, g)
            t2 == Replace(t1, g, n, c)
<1>. HIDE DEF c, g, t1, t2
<1>1. Splice(t, n) = t2
  BY Zenon DEF Splice, t2, t1, c, g
<1>2. /\ t \in TreeType /\ n \in Nodes /\ c \in Nodes \cup {Nil}
      /\ g \in Nodes \cup {Nil}
  BY OnlyKidFacts, LinkFacts DEF c, g, Whole, Thin
<1>3. ParentSet(t, t1, c, g)
  BY <1>2, SetParentFacts DEF t1
<1>4. HangsAt(t, g, n)
  BY MemberHangs DEF g, Thin
<1>5. HangsAt(t1, g, n)
  BY <1>3, <1>4 DEF HangsAt, ParentSet
<1>6. Replaced(t1, t2, g, n, c)
  BY <1>2, <1>3, <1>5, ReplaceFacts DEF t2, ParentSet
<1>. QED
  BY <1>1, <1>2, <1>3, <1>6 DEF Spliced, Replaced, ParentSet, c, g

Forgotten(t, u, n) ==
  /\ u \in TreeType /\ u.root = t.root
  /\ \A m \in Nodes : u.parent[m] = IF m = n THEN Nil ELSE t.parent[m]
  /\ \A m \in Nodes : u.kid[m] = IF m = n THEN NoKids ELSE t.kid[m]
  /\ \A m \in Nodes : u.color[m] = IF m = n THEN "red" ELSE t.color[m]

LEMMA ForgetFacts ==
  ASSUME NEW t \in TreeType, NEW n \in Nodes
  PROVE  Forgotten(t, Forget(t, n), n)
BY DEF Forget, TreeType, Forgotten, NoKids

LEMMA SplicedWhole ==
  ASSUME NEW t, Whole(t), NEW n, Thin(t, n),
         NEW w, Spliced(t, w, n), NEW u, Forgotten(w, u, n)
  PROVE  Whole(u) /\ Members(u) = Members(t) \ {n}
<1>. DEFINE c == OnlyKid(t, n)
            g == t.parent[n]
<1>1. /\ n \in Nodes /\ n \in Members(t) /\ n # Nil
      /\ Members(t) \subseteq Nodes /\ Nil \notin Members(t) /\ Nil \notin Nodes
      /\ g \in Members(t) \cup {Nil} /\ g # n
      /\ c \in Members(t) \cup {Nil} /\ c # n
      /\ \A k \in Sides : t.kid[n][k] = c \/ t.kid[n][k] = Nil
      /\ c # Nil => t.parent[c] = n /\ c # g
      /\ g = Nil <=> n = t.root
  BY OnlyKidFacts, LinkFacts, NilAssumption, BelowFacts DEF Thin
<1>2. /\ u \in TreeType
      /\ u.root = IF g = Nil THEN c ELSE t.root
      /\ \A m \in Nodes : u.parent[m] =
           IF m = n THEN Nil ELSE IF m = c THEN g ELSE t.parent[m]
      /\ \A m \in Nodes, k \in Sides : u.kid[m][k] =
           IF m = n THEN Nil ELSE IF m = g /\ t.kid[g][k] = n THEN c ELSE t.kid[m][k]
      /\ \A m \in Nodes : u.color[m] = IF m = n THEN "red" ELSE t.color[m]
      /\ u.kid[n] = NoKids
  BY <1>1, SidesFacts DEF Spliced, Forgotten
<1>. HIDE DEF c, g
<1>3. /\ t.root \in Members(t) \cup {Nil}
      /\ \A m \in Nodes, k \in Sides :
           /\ t.kid[m][k] \in Members(t) \cup {Nil}
           /\ t.kid[m][k] # Nil => /\ t.parent[t.kid[m][k]] = m /\ m \in Members(t)
                                   /\ t.kid[m][k] # t.root
                                   /\ t.kid[m][Opposite(k)] # t.kid[m][k]
  BY LinkFacts
<1>4. Members(u) = Members(t) \ {n}
  <2>1. \A m \in Nodes : m \in Members(t) <=> (m = t.root \/ t.parent[m] # Nil)
    BY DEF Members
  <2>2. \A m \in Nodes : m \in Members(u) <=> (m = u.root \/ u.parent[m] # Nil)
    BY DEF Members
  <2>3. ASSUME NEW m \in Nodes PROVE m \in Members(u) <=> m \in Members(t) \ {n}
    <3>1. CASE m = n
      BY <3>1, <1>1, <1>2, <2>2
    <3>2. CASE m = c
      BY <3>2, <1>1, <1>2, <2>2
    <3>3. CASE m # n /\ m # c
      BY <3>3, <1>1, <1>2, <2>1, <2>2
    <3>. QED BY <3>1, <3>2, <3>3
  <2>. QED
    BY <1>1, <2>3 DEF Members
<1>5. ASSUME NEW m \in Members(u), NEW k \in Sides, u.kid[m][k] # Nil
      PROVE  u.parent[u.kid[m][k]] = m
  <2>0. m \in Members(t) /\ m \in Nodes /\ m # n
    BY <1>1, <1>4
  <2>1. CASE m = g /\ t.kid[g][k] = n
    BY <2>0, <2>1, <1>1, <1>2, <1>5
  <2>2. CASE ~(m = g /\ t.kid[g][k] = n)
    <3>1. u.kid[m][k] = t.kid[m][k]
      BY <2>0, <2>2, <1>2
    <3>2. t.kid[m][k] # n
      BY <2>0, <2>2, <3>1, <1>3, <1>5 DEF g
    <3>3. t.kid[m][k] # c
      BY <2>0, <3>1, <1>1, <1>3, <1>5
    <3>. QED
      BY <2>0, <3>1, <3>2, <3>3, <1>1, <1>2, <1>3, <1>5
  <2>. QED BY <2>1, <2>2
<1>6. Outside(u)
  <2>. SUFFICES ASSUME NEW m \in Nodes \ Members(u)
                PROVE  u.kid[m] = NoKids /\ u.color[m] = "red"
    BY DEF Outside
  <2>1. CASE m = n
    BY <2>1, <1>1, <1>2
  <2>2. CASE m # n
    <3>1. t.kid[m] = NoKids /\ t.color[m] = "red" /\ m # g
      BY <2>2, <1>1, <1>4 DEF Whole, Outside
    <3>2. \A k \in Sides : u.kid[m][k] = NoKids[k]
      BY <2>2, <1>2, <3>1
    <3>3. u.kid[m] \in [Sides -> Nodes \cup {Nil}]
      BY <1>2 DEF TreeType
    <3>. QED
      BY <2>2, <1>2, <3>1, <3>2, <3>3 DEF NoKids
  <2>. QED BY <2>1, <2>2
<1>7. PointersAgree(u)
  <2>1. u.root # Nil => u.parent[u.root] = Nil
    BY <1>1, <1>2, <1>3, LinkFacts
  <2>3. ASSUME NEW m \in Members(u), u.kid[m]["left"] = u.kid[m]["right"]
        PROVE  u.kid[m] = NoKids
    <3>1. m \in Nodes /\ m # n /\ \A k \in Sides : u.kid[m][Opposite(k)] = u.kid[m][k]
      BY <1>1, <1>4, <2>3 DEF Sides, Opposite
    <3>2. ASSUME NEW k \in Sides, u.kid[m][k] # Nil PROVE FALSE
      <4>1. u.kid[m][Opposite(k)] = u.kid[m][k] /\ Opposite(k) \in Sides
        BY <3>1, SidesFacts
      <4>2. CASE m = g /\ (t.kid[g][k] = n \/ t.kid[g][Opposite(k)] = n)
        BY <3>1, <3>2, <4>1, <4>2, <1>1, <1>2, <1>3
      <4>3. CASE ~(m = g /\ (t.kid[g][k] = n \/ t.kid[g][Opposite(k)] = n))
        <5>1. u.kid[m][k] = t.kid[m][k] /\ u.kid[m][Opposite(k)] = t.kid[m][Opposite(k)]
          BY <3>1, <4>1, <4>3, <1>2
        <5>. QED
          BY <5>1, <3>1, <3>2, <4>1, <1>3
      <4>. QED BY <4>2, <4>3
    <3>3. u.kid[m] \in [Sides -> Nodes \cup {Nil}]
      BY <1>2, <3>1 DEF TreeType
    <3>. QED
      BY <3>2, <3>3 DEF NoKids
  <2>4. ASSUME NEW m \in Members(u), u.parent[m] # Nil
        PROVE  \E k \in Sides : u.kid[u.parent[m]][k] = m
    <3>0. m \in Members(t) /\ m \in Nodes /\ m # n
      BY <1>1, <1>4
    <3>1. CASE m = c
      <4>1. u.parent[m] = g /\ g # Nil /\ g \in Nodes
        BY <3>0, <3>1, <2>4, <1>1, <1>2
      <4>2. PICK k \in Sides : t.kid[g][k] = n
        BY <4>1, <1>1, LinkFacts DEF g
      <4>. QED
        BY <3>1, <4>1, <4>2, <1>1, <1>2
    <3>2. CASE m # c
      <4>1. u.parent[m] = t.parent[m]
        BY <3>0, <3>2, <1>2
      <4>2. PICK k \in Sides : t.kid[t.parent[m]][k] = m
        BY <3>0, <4>1, <2>4, LinkFacts
      <4>3. t.parent[m] \in Nodes
        BY <3>0, <4>1, <2>4, LinkFacts
      <4>4. t.parent[m] # n
        BY <3>0, <3>2, <4>2, <1>1
      <4>5. u.kid[t.parent[m]][k] = m
        BY <3>0, <4>2, <4>3, <4>4, <1>2
      <4>. QED
        BY <4>1, <4>5
    <3>. QED BY <3>1, <3>2
  <2>. QED
    BY <1>5, <2>1, <2>3, <2>4 DEF PointersAgree
<1>8. NoneCutOff(u)
  <2>. SUFFICES ASSUME NEW S \in SUBSET Members(u), u.root # Nil => u.root \in S,
                       Closed(u, S)
                PROVE  S = Members(u)
    BY DEF NoneCutOff
  <2>0. S \subseteq Members(t) \ {n} /\ S \subseteq Nodes
    BY <1>1, <1>4
  <2>1. \A m \in S, k \in Sides : u.kid[m][k] # Nil => u.kid[m][k] \in S
    BY DEF Closed
  <2>2. c # Nil /\ (g = Nil \/ g \in S) => c \in S
    <3>1. CASE g = Nil
      BY <3>1, <1>2
    <3>2. CASE g # Nil
      <4>1. PICK k \in Sides : t.kid[g][k] = n
        BY <3>2, <1>1, LinkFacts DEF g
      <4>2. g \in Nodes
        BY <1>1, <3>2
      <4>. QED
        BY <3>2, <4>1, <4>2, <1>1, <1>2, <2>1
    <3>. QED BY <3>1, <3>2
  <2>3. CASE g = Nil \/ g \in S
    <3>1. Closed(t, S \cup {n})
      <4>. SUFFICES ASSUME NEW m \in S \cup {n}, NEW k \in Sides, t.kid[m][k] # Nil
                    PROVE  t.kid[m][k] \in S \cup {n}
        BY DEF Closed
      <4>1. CASE m = n
        BY <4>1, <2>2, <2>3, <1>1
      <4>2. CASE m # n
        <5>1. m \in Nodes /\ m \in S
          BY <2>0, <4>2
        <5>. QED
          BY <5>1, <4>2, <1>2, <2>1
      <4>. QED BY <4>1, <4>2
    <3>2. t.root # Nil => t.root \in S \cup {n}
      BY <1>1, <1>2, <1>3
    <3>3. S \cup {n} = Members(t)
      BY <3>1, <3>2, <2>0, <1>1, Reached
    <3>. QED
      BY <3>3, <2>0, <1>4
  <2>4. CASE g # Nil /\ g \notin S
    <3>1. Closed(t, S)
      <4>. SUFFICES ASSUME NEW m \in S, NEW k \in Sides, t.kid[m][k] # Nil
                    PROVE  t.kid[m][k] \in S
        BY DEF Closed
      <4>. QED
        BY <2>0, <2>1, <2>4, <1>2
    <3>2. t.root # Nil => t.root \in S
      BY <2>4, <1>2
    <3>3. S = Members(t)
      BY <3>1, <3>2, <2>0, Reached
    <3>. QED
      BY <3>3, <2>0, <1>1
  <2>. QED
    BY <2>3, <2>4
<1>. QED
  BY <1>2, <1>4, <1>6, <1>7, <1>8 DEF Whole

-----------------------------------------------------------------------------
(***************************************************************************)
(* One node taking over from another.                                      *)
(***************************************************************************)

\* u is t with m, which is not in it, in the place of old.
TakenOver(t, u, m, old) ==
  /\ u \in TreeType
  /\ u.root = IF t.parent[old] = Nil THEN m ELSE t.root
  /\ \A n \in Nodes : u.parent[n] =
       IF n = old THEN Nil ELSE IF n = m THEN t.parent[old]
       ELSE IF t.parent[n] = old THEN m ELSE t.parent[n]
  /\ \A n \in Nodes, k \in Sides : u.kid[n][k] =
       IF n = old THEN Nil ELSE IF n = m THEN t.kid[old][k]
       ELSE IF t.kid[n][k] = old THEN m ELSE t.kid[n][k]
  /\ \A n \in Nodes : u.color[n] =
       IF n = old THEN "red" ELSE IF n = m THEN t.color[old] ELSE t.color[n]

\* w is t but for the fields of m.
SameButFor(t, w, m) ==
  /\ w \in TreeType /\ w.root = t.root
  /\ \A n \in Nodes \ {m} :
       w.parent[n] = t.parent[n] /\ w.kid[n] = t.kid[n] /\ w.color[n] = t.color[n]

LEMMA TakeOverFacts ==
  ASSUME NEW t, Whole(t), NEW m \in Nodes \ Members(t), NEW old \in Members(t),
         NEW w, SameButFor(t, w, m)
  PROVE  TakenOver(t, Forget(TakeOver(w, m, old), old), m, old)
<1>. DEFINE g  == w.parent[old]
            a  == w.kid[old]["left"]
            b  == w.kid[old]["right"]
            t1 == [w EXCEPT !.kid[m] = w.kid[old], !.parent[m] = w.parent[old],
                            !.color[m] = w.color[old]]
            t2 == Replace(t1, g, old, m)
            t3 == SetParent(t2, a, m)
            t4 == SetParent(t3, b, m)
            u  == Forget(t4, old)
<1>1. /\ old \in Nodes /\ m \in Nodes /\ m # old /\ old # Nil /\ m # Nil
      /\ w \in TreeType /\ Members(t) \subseteq Nodes
      /\ g = t.parent[old] /\ w.kid[old] = t.kid[old]
      /\ g \in Members(t) \cup {Nil} /\ g # m /\ g # old
      /\ a = t.kid[old]["left"] /\ b = t.kid[old]["right"]
      /\ a \in Members(t) \cup {Nil} /\ b \in Members(t) \cup {Nil}
      /\ a # m /\ b # m
  <2>1. /\ old \in Nodes /\ old # m /\ old # Nil /\ m # Nil /\ w \in TreeType
        /\ Members(t) \subseteq Nodes
    BY LinkFacts, NilAssumption DEF SameButFor
  <2>2. w.parent[old] = t.parent[old] /\ w.kid[old] = t.kid[old]
    BY <2>1 DEF SameButFor
  <2>3. g \in Members(t) \cup {Nil} /\ g # old
    BY <2>1, <2>2, LinkFacts, BelowFacts
  <2>4. \A k \in Sides : t.kid[old][k] \in Members(t) \cup {Nil}
    BY <2>1, LinkFacts
  <2>5. a \in Members(t) \cup {Nil} /\ b \in Members(t) \cup {Nil}
    BY <2>2, <2>4 DEF Sides
  <2>. QED
    BY <2>1, <2>2, <2>3, <2>5
<1>2. /\ t1 \in TreeType /\ t1.root = w.root
      /\ \A n \in Nodes : t1.parent[n] = IF n = m THEN g ELSE w.parent[n]
      /\ \A n \in Nodes : t1.kid[n] = IF n = m THEN w.kid[old] ELSE w.kid[n]
      /\ \A n \in Nodes : t1.color[n] = IF n = m THEN t.color[old] ELSE w.color[n]
  BY <1>1 DEF TreeType, SameButFor
<1>3. TakeOver(w, m, old) = t4
  BY Zenon DEF TakeOver
<1>. HIDE DEF g, a, b, t1, t2, t3, t4, u
<1>4. HangsAt(t1, g, old)
  <2>1. HangsAt(t, t.parent[old], old)
    BY MemberHangs
  <2>2. g # Nil => t1.kid[g] = t.kid[g]
    BY <1>1, <1>2 DEF SameButFor
  <2>. QED
    BY <2>1, <2>2, <1>1 DEF HangsAt
<1>5. Replaced(t1, t2, g, old, m)
  BY <1>1, <1>2, <1>4, ReplaceFacts DEF t2
<1>6. ParentSet(t2, t3, a, m)
  BY <1>1, <1>5, SetParentFacts DEF t3, Replaced
<1>7. ParentSet(t3, t4, b, m)
  <2>1. t3 \in TreeType /\ b \in Nodes \cup {Nil}
    BY <1>1, <1>6 DEF ParentSet
  <2>. QED
    BY <1>1, <2>1, SetParentFacts DEF t4
<1>8. Forgotten(t4, u, old)
  BY <1>1, <1>7, ForgetFacts DEF u, ParentSet
<1>9. \A n \in Nodes : t.parent[n] = old <=> n \in {a, b} /\ n # m
  <2>. SUFFICES ASSUME NEW n \in Nodes
                PROVE  t.parent[n] = old <=> n \in {a, b} /\ n # m
    BY Zenon
  <2>1. n \in {a, b} => t.parent[n] = old
    <3>1. \A k \in Sides : t.kid[old][k] # Nil => t.parent[t.kid[old][k]] = old
      BY <1>1, LinkFacts
    <3>. QED
      BY <1>1, <3>1, NilAssumption DEF Sides
  <2>2. ASSUME t.parent[n] = old PROVE n \in {a, b} /\ n # m
    <3>1. n \in Members(t)
      BY <1>1, <2>2 DEF Members
    <3>. QED
      BY <1>1, <2>2, <3>1, LinkFacts DEF Sides
  <2>. QED BY <2>1, <2>2, <1>1
<1>10. \A n \in Nodes \ {m} : w.parent[n] = t.parent[n] /\ w.kid[n] = t.kid[n]
                              /\ w.color[n] = t.color[n]
  BY Zenon DEF SameButFor
<1>11. \A n \in Nodes : u.parent[n] =
         IF n = old THEN Nil ELSE IF n = m THEN t.parent[old]
         ELSE IF t.parent[n] = old THEN m ELSE t.parent[n]
  <2>1. \A n \in Nodes : u.parent[n] =
          IF n = old THEN Nil ELSE IF n = b THEN m ELSE IF n = a THEN m
          ELSE IF n = m THEN g ELSE w.parent[n]
    <3>1. \A n \in Nodes : u.parent[n] = IF n = old THEN Nil ELSE t4.parent[n]
      BY <1>8 DEF Forgotten
    <3>2. \A n \in Nodes : t4.parent[n] = IF n = b THEN m ELSE t3.parent[n]
      BY <1>7 DEF ParentSet
    <3>3. \A n \in Nodes : t3.parent[n] = IF n = a THEN m ELSE t2.parent[n]
      BY <1>6 DEF ParentSet
    <3>4. t2.parent = t1.parent
      BY <1>5 DEF Replaced
    <3>. QED
      BY <1>2, <3>1, <3>2, <3>3, <3>4, ZenonT(30)
  <2>. QED
    BY <1>1, <1>9, <1>10, <2>1, Zenon
<1>12. \A n \in Nodes, k \in Sides : u.kid[n][k] =
         IF n = old THEN Nil ELSE IF n = m THEN t.kid[old][k]
         ELSE IF t.kid[n][k] = old THEN m ELSE t.kid[n][k]
  <2>. SUFFICES ASSUME NEW n \in Nodes, NEW k \in Sides
                PROVE  u.kid[n][k] =
                         IF n = old THEN Nil ELSE IF n = m THEN t.kid[old][k]
                         ELSE IF t.kid[n][k] = old THEN m ELSE t.kid[n][k]
    OBVIOUS
  <2>1. u.kid[n][k] = IF n = old THEN Nil ELSE t2.kid[n][k]
    BY <1>6, <1>7, <1>8, SidesFacts DEF ParentSet, Forgotten
  <2>2. t2.kid[n][k] = IF n = g /\ t1.kid[g][k] = old THEN m ELSE t1.kid[n][k]
    BY <1>5 DEF Replaced
  <2>3. t.kid[n][k] = old => n = g
    BY <1>1, LinkFacts
  <2>. QED
    BY <2>1, <2>2, <2>3, <1>1, <1>2, <1>10
<1>13. \A n \in Nodes : u.color[n] =
         IF n = old THEN "red" ELSE IF n = m THEN t.color[old] ELSE t.color[n]
  <2>1. \A n \in Nodes : u.color[n] = IF n = old THEN "red" ELSE t1.color[n]
    BY <1>5, <1>6, <1>7, <1>8 DEF Replaced, ParentSet, Forgotten
  <2>. QED
    BY <1>2, <1>10, <2>1, Zenon
<1>14. u \in TreeType /\ u.root = IF t.parent[old] = Nil THEN m ELSE t.root
  BY <1>1, <1>2, <1>5, <1>6, <1>7, <1>8 DEF Replaced, ParentSet, Forgotten, SameButFor
<1>. QED
  BY <1>3, <1>11, <1>12, <1>13, <1>14 DEF TakenOver, u

LEMMA TakenOverWhole ==
  ASSUME NEW t, Whole(t), NEW m \in Nodes \ Members(t), NEW old \in Members(t),
         NEW u, TakenOver(t, u, m, old)
  PROVE  Whole(u) /\ Members(u) = (Members(t) \ {old}) \cup {m}
<1>1. /\ old \in Nodes /\ m \in Nodes /\ m # old /\ old # Nil /\ m # Nil
      /\ Members(t) \subseteq Nodes /\ Nil \notin Members(t)
      /\ t.parent[old] # old /\ t.parent[old] \in Members(t) \cup {Nil}
      /\ t.parent[old] = Nil <=> old = t.root
      /\ \A k \in Sides : t.kid[old][k] # old
      /\ \A n \in Nodes \ Members(t) : t.parent[n] = Nil
  BY LinkFacts, BelowFacts, NilAssumption DEF Members
<1>2. /\ u \in TreeType
      /\ u.root = IF t.parent[old] = Nil THEN m ELSE t.root
      /\ \A n \in Nodes : u.parent[n] =
           IF n = old THEN Nil ELSE IF n = m THEN t.parent[old]
           ELSE IF t.parent[n] = old THEN m ELSE t.parent[n]
      /\ \A n \in Nodes, k \in Sides : u.kid[n][k] =
           IF n = old THEN Nil ELSE IF n = m THEN t.kid[old][k]
           ELSE IF t.kid[n][k] = old THEN m ELSE t.kid[n][k]
      /\ \A n \in Nodes : u.color[n] =
           IF n = old THEN "red" ELSE IF n = m THEN t.color[old] ELSE t.color[n]
  BY DEF TakenOver
<1>3. /\ t.root \in Members(t) \cup {Nil}
      /\ \A n \in Nodes, k \in Sides :
           /\ t.kid[n][k] \in Members(t) \cup {Nil}
           /\ t.kid[n][k] # Nil => /\ t.parent[t.kid[n][k]] = n /\ n \in Members(t)
                                   /\ t.kid[n][k] # t.root
                                   /\ t.kid[n][Opposite(k)] # t.kid[n][k]
  BY LinkFacts
<1>4. Members(u) = (Members(t) \ {old}) \cup {m}
  <2>1. \A n \in Nodes : n \in Members(t) <=> (n = t.root \/ t.parent[n] # Nil)
    BY DEF Members
  <2>2. \A n \in Nodes : n \in Members(u) <=> (n = u.root \/ u.parent[n] # Nil)
    BY DEF Members
  <2>3. \A n \in Nodes : n \in Members(u) <=> (n \in Members(t) /\ n # old) \/ n = m
    BY <1>1, <1>2, <2>1, <2>2, ZenonT(30)
  <2>. QED
    BY <1>1, <2>3 DEF Members
<1>5. ASSUME NEW n \in Members(u), NEW k \in Sides, u.kid[n][k] # Nil
      PROVE  /\ u.parent[u.kid[n][k]] = n
             /\ u.kid[n][Opposite(k)] # u.kid[n][k]
  <2>0. n \in Nodes /\ n # old /\ Opposite(k) \in Sides
    BY <1>1, <1>4, SidesFacts
  <2>1. CASE n = m
    BY <2>0, <2>1, <1>1, <1>2, <1>3, <1>5
  <2>2. CASE n # m
    <3>1. u.kid[n][k] = (IF t.kid[n][k] = old THEN m ELSE t.kid[n][k])
          /\ u.kid[n][Opposite(k)] =
               IF t.kid[n][Opposite(k)] = old THEN m ELSE t.kid[n][Opposite(k)]
      BY <2>0, <2>2, <1>2
    <3>2. t.kid[n][k] # Nil /\ t.kid[n][k] # m /\ t.kid[n][Opposite(k)] # m
      BY <2>0, <3>1, <1>1, <1>3, <1>5
    <3>3. t.parent[t.kid[n][k]] = n /\ t.kid[n][k] \in Nodes
          /\ t.kid[n][Opposite(k)] # t.kid[n][k]
      BY <2>0, <3>2, <1>1, <1>3
    <3>. QED
      BY <2>0, <2>2, <3>1, <3>2, <3>3, <1>1, <1>2
  <2>. QED BY <2>1, <2>2
<1>6. Outside(u)
  <2>. SUFFICES ASSUME NEW n \in Nodes \ Members(u)
                PROVE  u.kid[n] = NoKids /\ u.color[n] = "red"
    BY Zenon DEF Outside
  <2>1. n # m /\ (n # old => t.kid[n] = NoKids /\ t.color[n] = "red")
    BY <1>1, <1>4 DEF Whole, Outside
  <2>2. \A k \in Sides : u.kid[n][k] = NoKids[k]
    BY <1>1, <1>2, <2>1, SidesFacts
  <2>3. u.kid[n] \in [Sides -> Nodes \cup {Nil}]
    BY <1>2 DEF TreeType
  <2>. QED
    BY <1>2, <2>1, <2>2, <2>3 DEF NoKids
<1>7. PointersAgree(u)
  <2>1. u.root # Nil => u.parent[u.root] = Nil
    BY <1>1, <1>2, <1>3, LinkFacts
  <2>3. ASSUME NEW n \in Members(u), u.kid[n]["left"] = u.kid[n]["right"]
        PROVE  u.kid[n] = NoKids
    <3>1. n \in Nodes /\ \A k \in Sides : u.kid[n][Opposite(k)] = u.kid[n][k]
      BY <1>1, <1>4, <2>3 DEF Sides, Opposite
    <3>2. \A k \in Sides : u.kid[n][k] = Nil
      BY <1>5, <3>1
    <3>3. u.kid[n] \in [Sides -> Nodes \cup {Nil}]
      BY <1>2, <3>1 DEF TreeType
    <3>. QED
      BY <3>2, <3>3 DEF NoKids
  <2>4. ASSUME NEW n \in Members(u), u.parent[n] # Nil
        PROVE  \E k \in Sides : u.kid[u.parent[n]][k] = n
    <3>1. CASE n = m
      <4>1. u.parent[n] = t.parent[old] /\ t.parent[old] # Nil
        BY <3>1, <2>4, <1>1, <1>2
      <4>2. PICK k \in Sides : t.kid[t.parent[old]][k] = old
        BY <4>1, LinkFacts
      <4>. QED
        BY <3>1, <4>1, <4>2, <1>1, <1>2
    <3>2. CASE n # m
      <4>1. n \in Members(t) /\ n \in Nodes /\ n # old
        BY <3>2, <1>1, <1>4
      <4>2. t.parent[n] # Nil /\ t.parent[n] \in Members(t)
        BY <3>2, <4>1, <2>4, <1>1, <1>2, LinkFacts
      <4>3. PICK k \in Sides : t.kid[t.parent[n]][k] = n
        BY <4>1, <4>2, LinkFacts
      <4>4. CASE t.parent[n] = old
        BY <3>2, <4>1, <4>3, <4>4, <1>1, <1>2
      <4>5. CASE t.parent[n] # old
        BY <3>2, <4>1, <4>2, <4>3, <4>5, <1>1, <1>2
      <4>. QED BY <4>4, <4>5
    <3>. QED BY <3>1, <3>2
  <2>. QED
    BY <1>5, <2>1, <2>3, <2>4 DEF PointersAgree
<1>8. NoneCutOff(u)
  <2>. SUFFICES ASSUME NEW S \in SUBSET Members(u), u.root # Nil => u.root \in S,
                       Closed(u, S)
                PROVE  S = Members(u)
    BY DEF NoneCutOff
  <2>1. \A n \in S, k \in Sides : u.kid[n][k] # Nil => u.kid[n][k] \in S
    BY DEF Closed
  <2>. DEFINE R == {n \in Members(t) : IF n = old THEN m \in S ELSE n \in S}
  <2>2. Closed(t, R)
    <3>. SUFFICES ASSUME NEW n \in R, NEW k \in Sides, t.kid[n][k] # Nil
                  PROVE  t.kid[n][k] \in R
      BY DEF Closed
    <3>0. n \in Nodes /\ t.kid[n][k] \in Members(t) /\ n # m /\ t.kid[n][k] # m
          /\ t.kid[n][k] # Nil
      BY <1>1, <1>3
    <3>1. CASE n = old
      <4>1. m \in S /\ u.kid[m][k] = t.kid[old][k] /\ t.kid[old][k] # old
        BY <3>1, <1>1, <1>2
      <4>. QED
        BY <3>0, <3>1, <4>1, <2>1
    <3>2. CASE n # old
      <4>1. n \in S /\ u.kid[n][k] = IF t.kid[n][k] = old THEN m ELSE t.kid[n][k]
        BY <3>0, <3>2, <1>1, <1>2
      <4>2. u.kid[n][k] \in S
        BY <4>1, <3>0, <1>1, <2>1
      <4>. QED
        BY <3>0, <4>1, <4>2
    <3>. QED BY <3>1, <3>2
  <2>3. t.root # Nil => t.root \in R
    BY <1>1, <1>2, <1>3
  <2>4. R = Members(t)
    BY <2>2, <2>3, Reached
  <2>. QED
    BY <2>4, <1>1, <1>4
<1>. QED
  BY <1>2, <1>4, <1>6, <1>7, <1>8 DEF Whole

-----------------------------------------------------------------------------
(***************************************************************************)
(* Unlinking a node.                                                       *)
(***************************************************************************)

SplicedOut(t, n) == Forget(Splice(t, n), n)

LEMMA SplicedOutFacts ==
  ASSUME NEW t, Whole(t), NEW n, Thin(t, n)
  PROVE  /\ Whole(SplicedOut(t, n)) /\ Members(SplicedOut(t, n)) = Members(t) \ {n}
         /\ Spliced(t, Splice(t, n), n)
         /\ Forgotten(Splice(t, n), SplicedOut(t, n), n)
<1>. DEFINE w == Splice(t, n)
            u == SplicedOut(t, n)
<1>. HIDE DEF w, u
<1>1. Spliced(t, w, n)
  BY SpliceFacts DEF w
<1>2. w \in TreeType /\ n \in Nodes
  BY <1>1, LinkFacts DEF Spliced, Thin
<1>3. Forgotten(w, u, n)
  BY <1>2, ForgetFacts DEF u, w, SplicedOut
<1>4. Whole(u) /\ Members(u) = Members(t) \ {n}
  BY <1>1, <1>3, SplicedWhole
<1>. QED
  BY <1>1, <1>3, <1>4 DEF u, w

\* What RB_REMOVE does to the links, in two steps: elm is spliced out, and
\* takes over from old if it is not old.
LEMMA UnlinkFacts ==
  ASSUME NEW t, Whole(t), NEW old \in Members(t), NEW elm, Thin(t, elm)
  PROVE  LET u == Unlink(t, old, elm).tree
         IN  /\ Whole(u) /\ Members(u) = Members(t) \ {old}
             /\ elm = old => u = SplicedOut(t, old)
             /\ elm # old => TakenOver(SplicedOut(t, elm), u, elm, old)
<1>. DEFINE w == Splice(t, elm)
            v == SplicedOut(t, elm)
            u == Unlink(t, old, elm).tree
<1>. HIDE DEF w, v, u
<1>0. Whole(v) /\ Members(v) = Members(t) \ {elm} /\ Spliced(t, w, elm)
      /\ Forgotten(w, v, elm) /\ elm \in Members(t) /\ elm \in Nodes
  BY SplicedOutFacts, LinkFacts DEF v, w, Thin
<1>1. CASE elm = old
  <2>1. u = v
    BY <1>1 DEF u, v, Unlink, SplicedOut
  <2>. QED
    BY <1>0, <1>1, <2>1 DEF u, v
<1>2. CASE elm # old
  <2>1. u = Forget(TakeOver(w, elm, old), old)
    BY <1>2 DEF u, w, Unlink
  <2>2. SameButFor(v, w, elm)
    BY <1>0 DEF SameButFor, Spliced, Forgotten
  <2>3. elm \in Nodes \ Members(v) /\ old \in Members(v)
    BY <1>0, <1>2
  <2>4. TakenOver(v, u, elm, old)
    BY <1>0, <2>1, <2>2, <2>3, TakeOverFacts
  <2>5. Whole(u) /\ Members(u) = (Members(v) \ {old}) \cup {elm}
    BY <1>0, <2>3, <2>4, TakenOverWhole
  <2>. QED
    BY <1>0, <1>2, <2>4, <2>5 DEF u, v
<1>. QED
  BY <1>1, <1>2

-----------------------------------------------------------------------------
(***************************************************************************)
(* Colours.  h counts the black nodes on the way down from a node, and is  *)
(* one too high for the subtree on side s of p while that is one short.    *)
(***************************************************************************)

Height(h, n) == IF n = Nil THEN 0 ELSE h[n]

Weight(t, n) == IF t.color[n] = "red" THEN 0 ELSE 1

Short(n, k, p, s) == IF n = p /\ k = s THEN 1 ELSE 0

Levels(t, h, p, s) ==
  /\ h \in [Nodes -> Nat]
  /\ \A n \in Members(t), k \in Sides :
       h[n] = Height(h, t.kid[n][k]) + Weight(t, n) + Short(n, k, p, s)

\* No red root and no red pair, unless x is the red root or the kid of the
\* pair, or y the parent of it.
Tidy(t, x, y) ==
  \A n \in Members(t) : IsRed(t, n) /\ n # x =>
    n # t.root /\ (IsRed(t, t.parent[n]) => t.parent[n] = y)

LEMMA HeightFacts ==
  ASSUME NEW t, Whole(t), NEW h \in [Nodes -> Nat]
  PROVE  /\ \A n \in Nodes \cup {Nil} : Height(h, n) \in Nat
         /\ Height(h, Nil) = 0 /\ \A n \in Nodes : Height(h, n) = h[n]
         /\ \A n \in Nodes : Weight(t, n) \in {0, 1}
         /\ \A n \in Nodes : IsRed(t, n) <=> t.color[n] = "red"
         /\ \A n \in Nodes : IsRed(t, n) <=> Weight(t, n) = 0
         /\ \A n \in Nodes : ~IsRed(t, n) <=> t.color[n] = "black"
         /\ ~IsRed(t, Nil)
<1>1. \A n \in Nodes : n # Nil /\ t.color[n] \in {"red", "black"}
  BY NilAssumption DEF Whole, TreeType
<1>2. \A n \in Nodes \cup {Nil} : Height(h, n) \in Nat
  BY DEF Height
<1>3. Height(h, Nil) = 0 /\ \A n \in Nodes : Height(h, n) = h[n]
  BY <1>1 DEF Height
<1>4. \A n \in Nodes : Weight(t, n) \in {0, 1}
  BY DEF Weight
<1>5. \A n \in Nodes : IsRed(t, n) <=> t.color[n] = "red"
  BY <1>1, Zenon DEF IsRed
<1>6. \A n \in Nodes : IsRed(t, n) <=> Weight(t, n) = 0
  <2>1. \A n \in Nodes : t.color[n] = "red" <=> Weight(t, n) = 0
    BY DEF Weight
  <2>. QED
    BY Zenon, <1>5, <2>1
<1>. QED
  BY <1>1, <1>2, <1>3, <1>4, <1>5, <1>6 DEF IsRed

LEMMA LevelsEven ==
  ASSUME NEW t, Whole(t), NEW h, NEW k
  PROVE  Levels(t, h, Nil, k) <=>
           /\ h \in [Nodes -> Nat]
           /\ \A n \in Members(t), j \in Sides :
                h[n] = Height(h, t.kid[n][j]) + Weight(t, n)
<1>. SUFFICES ASSUME h \in [Nodes -> Nat], NEW n \in Members(t), NEW j \in Sides
              PROVE  Height(h, t.kid[n][j]) + Weight(t, n) + Short(n, j, Nil, k) =
                       Height(h, t.kid[n][j]) + Weight(t, n)
  BY DEF Levels
<1>1. n # Nil /\ n \in Nodes /\ t.kid[n][j] \in Nodes \cup {Nil}
  BY LinkFacts, NilAssumption
<1>2. Short(n, j, Nil, k) = 0
  BY <1>1 DEF Short
<1>3. Height(h, t.kid[n][j]) \in Nat /\ Weight(t, n) \in {0, 1}
  BY <1>1, HeightFacts
<1>. QED
  BY <1>2, <1>3

\* w is t with the colours of x and y exchanged.
Swapped(t, w, x, y) ==
  /\ SameLinks(t, w)
  /\ \A n \in Nodes : w.color[n] =
       IF n = x THEN t.color[y] ELSE IF n = y THEN t.color[x] ELSE t.color[n]

\* u is t after x and its kid exchanged their colours and x went down on side
\* s: what every rotation of the recolouring loops amounts to.
Turned(t, u, x, s) ==
  LET y == t.kid[x][Opposite(s)]
      c == t.kid[y][s]
      g == t.parent[x]
  IN  /\ Whole(u) /\ Members(u) = Members(t)
      /\ u.root = IF g = Nil THEN y ELSE t.root
      /\ \A n \in Nodes : u.parent[n] =
           IF n = x THEN y ELSE IF n = y THEN g ELSE IF n = c THEN x ELSE t.parent[n]
      /\ \A n \in Nodes, k \in Sides : u.kid[n][k] =
           IF n = x /\ k = Opposite(s) THEN c
           ELSE IF n = y /\ k = s THEN x
           ELSE IF n = g /\ t.kid[g][k] = x THEN y
           ELSE t.kid[n][k]
      /\ \A n \in Nodes : u.color[n] =
           IF n = x THEN t.color[y] ELSE IF n = y THEN t.color[x] ELSE t.color[n]

LEMMA TurnedFacts ==
  ASSUME NEW t, Whole(t), NEW x \in Nodes, NEW s \in Sides, t.kid[x][Opposite(s)] # Nil,
         NEW w, Swapped(t, w, x, t.kid[x][Opposite(s)])
  PROVE  Turned(t, Rotate(w, x, s), x, s)
<1>1. Whole(w) /\ Members(w) = Members(t)
      /\ w.kid = t.kid /\ w.parent = t.parent /\ w.root = t.root
  BY SameLinksWhole DEF Swapped, SameLinks
<1>2. PICK u : u = Rotate(w, x, s)
  OBVIOUS
<1>3. Rotated(w, u, x, s)
  BY <1>1, <1>2, RotateFacts
<1>4. Whole(u) /\ Members(u) = Members(t)
  BY <1>1, <1>3, RotatedWhole
<1>5. Turned(t, u, x, s)
  BY <1>1, <1>3, <1>4, SMTT(30) DEF Turned, Rotated, Swapped
<1>. QED
  BY <1>2, <1>5

\* A turn round a red kid keeps the number of black nodes on every way.
LEMMA TurnedLevels ==
  ASSUME NEW t, Whole(t), NEW x \in Nodes, NEW s \in Sides, t.kid[x][Opposite(s)] # Nil,
         IsRed(t, t.kid[x][Opposite(s)]), NEW u, Turned(t, u, x, s),
         NEW h, NEW p, NEW k, Levels(t, h, p, k),
         p # t.kid[x][Opposite(s)], ~(p = x /\ k = Opposite(s))
  PROVE  LET y == t.kid[x][Opposite(s)]
         IN  Levels(u, [h EXCEPT ![x] = h[y], ![y] = h[x]], p, k)
<1>. DEFINE o  == Opposite(s)
            y  == t.kid[x][o]
            c  == t.kid[y][s]
            g  == t.parent[x]
            hh == [h EXCEPT ![x] = h[y], ![y] = h[x]]
<1>1. /\ o \in Sides /\ o # s /\ \A j \in Sides : j = s \/ j = o
      /\ x \in Members(t) /\ y \in Members(t) /\ y \in Nodes /\ Members(t) \subseteq Nodes
      /\ x # y /\ c # x /\ c # y /\ g # x /\ g # y /\ x # Nil /\ y # Nil
      /\ c \in Nodes \cup {Nil} /\ Nil \notin Nodes
      /\ \A j \in Sides : t.kid[y][j] # y /\ t.kid[y][j] # x
  BY KidFacts, SidesFacts, LinkFacts, NilAssumption
<1>2. /\ Members(u) = Members(t)
      /\ \A n \in Nodes, j \in Sides : u.kid[n][j] =
           IF n = x /\ j = o THEN c
           ELSE IF n = y /\ j = s THEN x
           ELSE IF n = g /\ t.kid[g][j] = x THEN y
           ELSE t.kid[n][j]
      /\ \A n \in Nodes : u.color[n] =
           IF n = x THEN t.color[y] ELSE IF n = y THEN t.color[x] ELSE t.color[n]
  BY DEF Turned
<1>3. /\ h \in [Nodes -> Nat]
      /\ \A n \in Members(t), j \in Sides :
           h[n] = Height(h, t.kid[n][j]) + Weight(t, n) + Short(n, j, p, k)
  BY SMTT(30) DEF Levels
<1>4. /\ hh \in [Nodes -> Nat] /\ hh[x] = h[y] /\ hh[y] = h[x]
      /\ \A n \in Nodes : n # x /\ n # y => hh[n] = h[n]
      /\ \A n \in Nodes \cup {Nil} : n # x /\ n # y => Height(hh, n) = Height(h, n)
      /\ Height(hh, x) = h[y] /\ Height(hh, y) = h[x]
      /\ Height(h, x) = h[x] /\ Height(h, y) = h[y]
  BY <1>1, <1>3 DEF Height
<1>5. /\ Weight(t, y) = 0 /\ Weight(u, x) = 0 /\ Weight(u, y) = Weight(t, x)
      /\ \A n \in Nodes : n # x /\ n # y => Weight(u, n) = Weight(t, n)
      /\ \A n \in Nodes : Weight(t, n) \in {0, 1}
  BY <1>1, <1>2 DEF Weight, IsRed
<1>6. \A n \in Nodes, j \in Sides :
        t.kid[n][j] # Nil => t.parent[t.kid[n][j]] = n /\ t.kid[n][Opposite(j)] # t.kid[n][j]
  BY LinkFacts
<1>7. \A n \in Nodes, j \in Sides : t.kid[n][j] \in Nodes \cup {Nil}
  BY LinkFacts
<1>a. p # y /\ ~(p = x /\ k = o)
  OBVIOUS
<1>b. y = t.kid[x][o] /\ t.kid[y][s] = c /\ t.parent[x] = g
  OBVIOUS
<1>. HIDE DEF o, y, c, g, hh
<1>8. ASSUME NEW n \in Members(t), NEW j \in Sides
      PROVE  hh[n] = Height(hh, u.kid[n][j]) + Weight(u, n) + Short(n, j, p, k)
  <2>0. /\ n \in Nodes /\ Height(h, t.kid[n][j]) \in Nat
        /\ h[n] = Height(h, t.kid[n][j]) + Weight(t, n) + Short(n, j, p, k)
        /\ Short(n, j, p, k) \in {0, 1}
    BY <1>1, <1>3, <1>7 DEF Height, Short
  <2>1. /\ h[x] = h[y] + Weight(t, x) /\ h[x] \in Nat /\ h[y] \in Nat
        /\ h[y] = Height(h, c)
    <3>1. h[x] = Height(h, y) + Weight(t, x) + Short(x, o, p, k)
      BY <1>1, <1>3, <1>b
    <3>2. h[y] = Height(h, c) + Weight(t, y) + Short(y, s, p, k)
      BY <1>1, <1>3, <1>b
    <3>3. Short(x, o, p, k) = 0 /\ Short(y, s, p, k) = 0
      BY <1>a DEF Short
    <3>4. h[x] \in Nat /\ h[y] \in Nat /\ Height(h, c) \in Nat /\ Weight(t, x) \in {0, 1}
      BY <1>1, <1>3, <1>5 DEF Height
    <3>. QED
      BY <3>1, <3>2, <3>3, <3>4, <1>4, <1>5
  <2>2. CASE n = x /\ j = o
    <3>1. u.kid[n][j] = c /\ Short(n, j, p, k) = 0 /\ Height(hh, c) = Height(h, c)
      BY <2>0, <2>2, <1>1, <1>2, <1>4, <1>a DEF Short
    <3>. QED
      BY <2>2, <3>1, <2>1, <1>4, <1>5
  <2>3. CASE n = x /\ j = s
    <3>1. u.kid[n][j] = t.kid[x][s]
      BY <2>0, <2>3, <1>1, <1>2
    <3>2. t.kid[x][s] # x /\ t.kid[x][s] # y
      BY <1>1, <1>6, <1>b DEF o
    <3>3. Height(hh, t.kid[x][s]) = Height(h, t.kid[x][s])
      BY <3>2, <1>1, <1>4, <1>7
    <3>. QED
      BY <2>0, <2>1, <2>3, <3>1, <3>3, <1>4, <1>5
  <2>4. CASE n = y /\ j = s
    <3>1. u.kid[n][j] = x /\ Short(n, j, p, k) = 0
      BY <2>0, <2>4, <1>1, <1>2, <1>a DEF Short
    <3>. QED
      BY <2>4, <3>1, <2>1, <1>4, <1>5
  <2>5. CASE n = y /\ j = o
    <3>1. u.kid[n][j] = t.kid[y][o] /\ Short(n, j, p, k) = 0
      BY <2>0, <2>5, <1>1, <1>2, <1>a DEF Short
    <3>2. Height(hh, t.kid[y][o]) = Height(h, t.kid[y][o])
      BY <1>1, <1>4, <1>7
    <3>. QED
      BY <2>0, <2>1, <2>5, <3>1, <3>2, <1>4, <1>5
  <2>6. CASE n # x /\ n # y /\ t.kid[n][j] = x
    <3>1. n = g
      BY <2>0, <2>6, <1>1, <1>6, <1>b
    <3>2. u.kid[n][j] = y
      BY <2>0, <2>6, <3>1, <1>2
    <3>. QED
      BY <2>0, <2>1, <2>6, <3>2, <1>4, <1>5
  <2>7. CASE n # x /\ n # y /\ t.kid[n][j] # x
    <3>1. u.kid[n][j] = t.kid[n][j]
      BY <2>0, <2>7, <1>2
    <3>2. t.kid[n][j] # y
      BY <2>0, <2>7, <1>1, <1>6, <1>b
    <3>3. Height(hh, t.kid[n][j]) = Height(h, t.kid[n][j])
      BY <2>0, <2>7, <3>2, <1>4, <1>7
    <3>. QED
      BY <2>0, <2>7, <3>1, <3>3, <1>4, <1>5
  <2>. QED
    BY <2>2, <2>3, <2>4, <2>5, <2>6, <2>7, <1>1
<1>. QED
  BY <1>2, <1>4, <1>8 DEF Levels, hh, y, o

LEMMA SideOfFacts ==
  ASSUME NEW t, Whole(t), NEW n \in Members(t), t.parent[n] # Nil
  PROVE  LET s == SideOf(t, t.parent[n], n)
         IN  /\ s \in Sides /\ t.kid[t.parent[n]][s] = n
             /\ t.parent[n] \in Members(t) /\ t.parent[n] # n
             /\ t.kid[t.parent[n]][Opposite(s)] # n
<1>1. PICK k \in Sides : t.kid[t.parent[n]][k] = n
  BY LinkFacts
<1>2. n # Nil /\ t.parent[n] \in Members(t) /\ t.parent[n] \in Nodes
  BY LinkFacts, NilAssumption
<1>3. t.kid[t.parent[n]][Opposite(k)] # n
  BY <1>1, <1>2, LinkFacts
<1>4. SideOf(t, t.parent[n], n) = k
  BY <1>1, <1>3 DEF SideOf, Sides, Opposite
<1>5. t.parent[n] # n
  BY <1>1, <1>2, KidFacts
<1>. QED
  BY <1>1, <1>2, <1>3, <1>4, <1>5

-----------------------------------------------------------------------------
(***************************************************************************)
(* The rounds of RB_INSERT_COLOR.                                          *)
(***************************************************************************)

\* n is red, and if there is a red root or a red pair then n is the root or
\* the kid.
InsertOk(t, n, h) ==
  /\ Whole(t) /\ n \in Members(t) /\ IsRed(t, n)
  /\ Tidy(t, n, Nil) /\ Levels(t, h, Nil, "left")

\* p is the parent of n, g its grandparent, s the side of p and k the uncle.
InsertPlace(t, n, p, g, s, k) ==
  /\ p = t.parent[n] /\ g = t.parent[p] /\ s = SideOf(t, g, p)
  /\ k = t.kid[g][Opposite(s)]
  /\ n \in Members(t) /\ p \in Members(t) /\ g \in Members(t) /\ k \in Members(t) \cup {Nil}
  /\ p # n /\ g # n /\ g # p /\ k # n /\ k # p /\ k # g
  /\ s \in Sides /\ t.kid[g][s] = p /\ (k # Nil => t.parent[k] = g)
  /\ IsRed(t, p) /\ ~IsRed(t, g) /\ \E j \in Sides : t.kid[p][j] = n
  /\ Members(t) \subseteq Nodes /\ Nil \notin Nodes

LEMMA InsertPlaceFacts ==
  ASSUME NEW t, NEW n, NEW h, InsertOk(t, n, h), IsRed(t, t.parent[n])
  PROVE  \E p, g, s, k : InsertPlace(t, n, p, g, s, k)
<1>. DEFINE p == t.parent[n]
            g == t.parent[p]
            s == SideOf(t, g, p)
            k == t.kid[g][Opposite(s)]
<1>1. Whole(t) /\ n \in Members(t) /\ Members(t) \subseteq Nodes /\ Nil \notin Nodes
      /\ Tidy(t, n, Nil)
  BY LinkFacts, NilAssumption DEF InsertOk
<1>2. p # Nil /\ p \in Members(t) /\ p # n
  <2>1. p # Nil
    BY DEF IsRed
  <2>. QED
    BY <2>1, <1>1, SideOfFacts
<1>3. p # t.root /\ (IsRed(t, g) => g = Nil)
  BY <1>1, <1>2 DEF Tidy
<1>4. g # Nil
  BY <1>1, <1>2, <1>3, LinkFacts
<1>5. ~IsRed(t, g)
  BY <1>3, <1>4
<1>6. s \in Sides /\ t.kid[g][s] = p /\ g \in Members(t) /\ g # p /\ k # p
  BY <1>1, <1>2, <1>4, SideOfFacts
<1>7. PICK j \in Sides : t.kid[p][j] = n
  BY <1>1, <1>2, LinkFacts
<1>8. g # n
  BY <1>1, <1>2, <1>7, KidFacts
<1>9. k \in Members(t) \cup {Nil} /\ k # g /\ (k # Nil => t.parent[k] = g)
  <2>1. Opposite(s) \in Sides /\ g \in Nodes /\ Nil \notin Members(t)
    BY <1>1, <1>6, SidesFacts
  <2>2. CASE k = Nil
    BY <2>1, <2>2, <1>6, SMTT(30)
  <2>3. CASE k # Nil
    BY <1>1, <2>1, <2>3, KidFacts, SMTT(30)
  <2>. QED BY <2>2, <2>3, Zenon
<1>10. k # n
  BY <1>1, <1>6, <1>9
<1>. HIDE DEF p, g, s, k
<1>11. InsertPlace(t, n, p, g, s, k)
  BY <1>1, <1>2, <1>5, <1>6, <1>7, <1>8, <1>9, <1>10, Zenon DEF InsertPlace, p, g, s, k
<1>. QED
  BY <1>11

\* A red uncle: the blackness of the grandparent goes down to its two kids.
LEMMA InsertRecolour ==
  ASSUME NEW t, NEW n, NEW h, InsertOk(t, n, h),
         NEW p, NEW g, NEW s, NEW k, InsertPlace(t, n, p, g, s, k), IsRed(t, k),
         NEW u, u = BlackRed(Paint(t, k, "black"), p, g)
  PROVE  Members(u) = Members(t) /\ \E hh : InsertOk(u, g, hh)
<1>. DEFINE w  == Paint(t, k, "black")
            hh == [h EXCEPT ![p] = h[p] + 1, ![k] = h[k] + 1]
<1>1. /\ p = t.parent[n] /\ t.parent[p] = g /\ k = t.kid[g][Opposite(s)] /\ t.kid[g][s] = p
      /\ p \in Members(t) /\ g \in Members(t) /\ n \in Members(t) /\ k \in Members(t)
      /\ p # n /\ g # n /\ g # p /\ k # p /\ k # n /\ k # g /\ t.parent[k] = g
      /\ s \in Sides /\ ~IsRed(t, g) /\ IsRed(t, p)
      /\ Members(t) \subseteq Nodes /\ Nil \notin Nodes
  BY Zenon DEF InsertPlace, IsRed
<1>2. Whole(t) /\ Tidy(t, n, Nil) /\ Levels(t, h, Nil, "left")
  BY DEF InsertOk
<1>3. SameLinks(t, w) /\ \A m \in Nodes : w.color[m] = IF m = k THEN "black" ELSE t.color[m]
  BY <1>1, <1>2, PaintLinks
<1>4. Whole(w) /\ Members(w) = Members(t)
  BY <1>2, <1>3, SameLinksWhole
<1>. HIDE DEF w, hh
<1>5. SameLinks(w, u) /\ \A m \in Nodes : u.color[m] =
        IF m = p THEN "black" ELSE IF m = g THEN "red" ELSE w.color[m]
  BY <1>1, <1>4, BlackRedLinks DEF w
<1>6. Whole(u) /\ Members(u) = Members(t)
  BY <1>4, <1>5, SameLinksWhole
<1>7. u.root = t.root /\ u.kid = t.kid /\ u.parent = t.parent
  BY <1>3, <1>5 DEF SameLinks
<1>8. \A m \in Nodes : u.color[m] =
        IF m = p \/ m = k THEN "black" ELSE IF m = g THEN "red" ELSE t.color[m]
  BY <1>1, <1>3, <1>5, ZenonT(30)
<1>9. /\ IsRed(u, g) /\ ~IsRed(u, p) /\ ~IsRed(u, Nil)
      /\ \A m \in Nodes : m # g /\ IsRed(u, m) => IsRed(t, m) /\ m # p /\ m # k
  BY <1>1, <1>8 DEF IsRed
<1>10. Tidy(u, g, Nil)
  <2>. SUFFICES ASSUME NEW m \in Members(t), IsRed(u, m), m # g
                PROVE  m # t.root /\ ~IsRed(u, t.parent[m])
    BY <1>6, <1>7 DEF Tidy
  <2>1. IsRed(t, m) /\ m # p /\ m # k /\ m \in Nodes
    BY <1>1, <1>9
  <2>2. CASE m = n
    <3>1. n # t.root
      BY <1>1, <1>2, LinkFacts
    <3>. QED
      BY <2>2, <3>1, <1>1, <1>9
  <2>3. CASE m # n
    <3>1. m # t.root /\ (IsRed(t, t.parent[m]) => t.parent[m] = Nil)
      BY <2>1, <2>3, <1>2 DEF Tidy
    <3>2. t.parent[m] # g
      <4>1. t.parent[m] = g => \E j \in Sides : t.kid[g][j] = m
        BY <1>1, <1>2, LinkFacts
      <4>2. \A j \in Sides : t.kid[g][j] = p \/ t.kid[g][j] = k
        BY <1>1, SidesFacts
      <4>. QED
        BY <2>1, <4>1, <4>2
    <3>3. t.parent[m] \in Nodes \cup {Nil}
      BY <1>1, <1>2, LinkFacts
    <3>. QED
      BY <3>1, <3>2, <3>3, <1>9
  <2>. QED BY <2>2, <2>3
<1>11. Levels(u, hh, Nil, "left")
  <2>1. /\ h \in [Nodes -> Nat]
        /\ \A m \in Members(t), j \in Sides :
             h[m] = Height(h, t.kid[m][j]) + Weight(t, m)
    BY <1>2, LevelsEven
  <2>2. /\ hh \in [Nodes -> Nat] /\ hh[p] = h[p] + 1 /\ hh[k] = h[k] + 1
        /\ \A m \in Nodes : m # p /\ m # k => hh[m] = h[m]
    BY <1>1, <2>1 DEF hh
  <2>3. /\ Weight(t, p) = 0 /\ Weight(t, k) = 0 /\ Weight(t, g) = 1
        /\ Weight(u, p) = 1 /\ Weight(u, k) = 1 /\ Weight(u, g) = 0
        /\ \A m \in Nodes : m # p /\ m # k /\ m # g => Weight(u, m) = Weight(t, m)
    BY <1>1, <1>2, <1>8 DEF IsRed, Weight, Whole, TreeType
  <2>4. SUFFICES ASSUME NEW m \in Members(t), NEW j \in Sides
                 PROVE  hh[m] = Height(hh, t.kid[m][j]) + Weight(u, m)
    BY <1>6, <1>7, <2>2, LevelsEven
  <2>5. /\ t.kid[m][j] \in Nodes \cup {Nil} /\ m \in Nodes
        /\ (t.kid[m][j] = p \/ t.kid[m][j] = k <=> m = g)
    <3>1. t.kid[m][j] \in Nodes \cup {Nil} /\ m \in Nodes
          /\ (t.kid[m][j] # Nil => t.parent[t.kid[m][j]] = m)
      BY <1>1, <1>2, LinkFacts
    <3>2. t.kid[g][j] = p \/ t.kid[g][j] = k
      BY <1>1, SidesFacts
    <3>. QED
      BY <1>1, <3>1, <3>2
  <2>6. h[m] = Height(h, t.kid[m][j]) + Weight(t, m) /\ Height(h, t.kid[m][j]) \in Nat
    BY <2>1, <2>5 DEF Height
  <2>7. CASE m = g
    <3>1. Height(hh, t.kid[m][j]) = Height(h, t.kid[m][j]) + 1
      BY <2>2, <2>5, <2>7, <1>1 DEF Height
    <3>. QED
      BY <3>1, <2>2, <2>3, <2>6, <2>7, <1>1
  <2>8. CASE m # g
    <3>1. Height(hh, t.kid[m][j]) = Height(h, t.kid[m][j])
      BY <2>2, <2>5, <2>8, <1>1 DEF Height
    <3>. QED
      BY <3>1, <2>2, <2>3, <2>5, <2>6, <2>8, <1>1
  <2>. QED BY <2>7, <2>8
<1>. QED
  BY <1>1, <1>6, <1>9, <1>10, <1>11 DEF InsertOk

\* The parent goes down on its own side when n hangs on the other one.
LEMMA InsertInner ==
  ASSUME NEW t, NEW n, NEW h, InsertOk(t, n, h),
         NEW p, NEW g, NEW s, NEW k, InsertPlace(t, n, p, g, s, k),
         t.kid[p][Opposite(s)] = n, NEW u, u = Rotate(t, p, s)
  PROVE  /\ Members(u) = Members(t) /\ \E hh : InsertOk(u, p, hh)
         /\ u.kid[g][s] = n /\ u.kid[g][Opposite(s)] = k /\ u.kid[n][s] = p
         /\ u.color = t.color
<1>. DEFINE c == t.kid[n][s]
<1>1. /\ p = t.parent[n] /\ t.parent[p] = g /\ k = t.kid[g][Opposite(s)] /\ t.kid[g][s] = p
      /\ p \in Members(t) /\ g \in Members(t) /\ n \in Members(t)
      /\ p # n /\ g # n /\ g # p /\ k # p
      /\ s \in Sides /\ ~IsRed(t, g) /\ IsRed(t, p)
      /\ Members(t) \subseteq Nodes /\ Nil \notin Nodes
  BY DEF InsertPlace
<1>2. Whole(t) /\ Tidy(t, n, Nil) /\ Levels(t, h, Nil, "left") /\ IsRed(t, n)
  BY DEF InsertOk
<1>3. Swapped(t, t, p, n)
  BY <1>1, <1>2 DEF Swapped, SameLinks, Whole, IsRed
<1>4. Turned(t, u, p, s)
  BY <1>1, <1>2, <1>3, TurnedFacts
<1>5. /\ Whole(u) /\ Members(u) = Members(t) /\ u.root = t.root
      /\ \A m \in Nodes : u.parent[m] =
           IF m = p THEN n ELSE IF m = n THEN g ELSE IF m = c THEN p ELSE t.parent[m]
      /\ \A m \in Nodes, j \in Sides : u.kid[m][j] =
           IF m = p /\ j = Opposite(s) THEN c
           ELSE IF m = n /\ j = s THEN p
           ELSE IF m = g /\ t.kid[g][j] = p THEN n
           ELSE t.kid[m][j]
  BY <1>1, <1>4 DEF Turned
<1>6. u.color = t.color
  BY <1>1, <1>2, <1>5, RotateFacts DEF Rotated
<1>7. c # Nil => t.parent[c] = n
  BY <1>1, <1>2, LinkFacts
<1>. HIDE DEF c
<1>8. u.kid[g][s] = n /\ u.kid[g][Opposite(s)] = k /\ u.kid[n][s] = p
  BY <1>1, <1>5, SidesFacts
<1>9. Tidy(u, p, Nil)
  <2>. SUFFICES ASSUME NEW m \in Members(t), IsRed(t, m), m # p
                PROVE  m # t.root /\ ~IsRed(t, u.parent[m])
    BY <1>5, <1>6 DEF Tidy, IsRed
  <2>1. CASE m = n
    BY <2>1, <1>1, <1>2, <1>5, LinkFacts
  <2>2. CASE m # n
    <3>1. m # t.root /\ (IsRed(t, t.parent[m]) => t.parent[m] = Nil)
      BY <2>2, <1>2 DEF Tidy
    <3>2. ~IsRed(t, t.parent[m])
      BY <3>1 DEF IsRed
    <3>3. m # c
      BY <3>2, <1>1, <1>2, <1>7
    <3>. QED
      BY <2>2, <3>1, <3>2, <3>3, <1>1, <1>5
  <2>. QED BY <2>1, <2>2
<1>10. \E hh : Levels(u, hh, Nil, "left")
  <2>1. IsRed(t, t.kid[p][Opposite(s)]) /\ t.kid[p][Opposite(s)] # Nil /\ p # Nil
    BY <1>1, <1>2
  <2>2. Levels(u, [h EXCEPT ![p] = h[n], ![n] = h[p]], Nil, "left")
    BY <1>1, <1>2, <1>4, <2>1, TurnedLevels
  <2>. QED BY <2>2
<1>11. IsRed(u, p)
  BY <1>1, <1>6 DEF IsRed
<1>. QED
  BY <1>1, <1>5, <1>6, <1>8, <1>9, <1>10, <1>11, SMTT(30) DEF InsertOk

\* The grandparent goes down on the side of the black uncle, and takes the
\* redness of the node that comes up with it.
LEMMA InsertOuter ==
  ASSUME NEW t, NEW low, NEW h, InsertOk(t, low, h), NEW g \in Members(t), NEW s \in Sides,
         NEW top, t.kid[g][s] = top, t.kid[top][s] = low,
         IsRed(t, top), ~IsRed(t, g), ~IsRed(t, t.kid[g][Opposite(s)]),
         NEW u, u = Rotate(BlackRed(t, top, g), g, Opposite(s))
  PROVE  Members(u) = Members(t) /\ \E hh : InsertOk(u, low, hh)
<1>. DEFINE o == Opposite(s)
            c == t.kid[top][o]
            w == BlackRed(t, top, g)
<1>1. /\ Whole(t) /\ Tidy(t, low, Nil) /\ Levels(t, h, Nil, "left")
      /\ IsRed(t, low) /\ low \in Members(t)
      /\ Members(t) \subseteq Nodes /\ Nil \notin Nodes
  BY LinkFacts, NilAssumption DEF InsertOk
<1>2. /\ top # Nil /\ top \in Members(t) /\ top # g /\ g # Nil
      /\ t.parent[top] = g /\ t.parent[g] # top /\ t.parent[g] # g
  <2>1. top # Nil
    BY DEF IsRed
  <2>. QED
    BY <1>1, <2>1, KidFacts
<1>3. o \in Sides /\ Opposite(o) = s /\ o # s
  BY SidesFacts
<1>4. /\ low # top /\ low # g /\ t.parent[low] = top
      /\ (c # Nil => t.parent[c] = top /\ c # low) /\ c # top /\ c # g
  <2>1. low # Nil
    BY DEF IsRed, InsertOk
  <2>2. \A j \in Sides : t.kid[top][j] # top /\ t.kid[top][j] # g
    BY <1>1, <1>2, KidFacts
  <2>. QED
    BY <1>1, <1>2, <1>3, <2>1, <2>2, LinkFacts
<1>5. Swapped(t, w, g, top)
  <2>1. SameLinks(t, w) /\ \A m \in Nodes : w.color[m] =
          IF m = top THEN "black" ELSE IF m = g THEN "red" ELSE t.color[m]
    BY <1>1, <1>2, BlackRedLinks
  <2>2. t.color[top] = "red" /\ t.color[g] = "black"
    BY <1>1, <1>2 DEF IsRed, Whole, TreeType
  <2>. QED
    BY <1>2, <2>1, <2>2 DEF Swapped
<1>6. Turned(t, u, g, o)
  BY <1>1, <1>2, <1>3, <1>5, TurnedFacts
<1>7. /\ Whole(u) /\ Members(u) = Members(t)
      /\ u.root = IF t.parent[g] = Nil THEN top ELSE t.root
      /\ \A m \in Nodes : u.parent[m] =
           IF m = g THEN top ELSE IF m = top THEN t.parent[g]
           ELSE IF m = c THEN g ELSE t.parent[m]
      /\ \A m \in Nodes : u.color[m] =
           IF m = g THEN t.color[top] ELSE IF m = top THEN t.color[g] ELSE t.color[m]
  BY <1>3, <1>6 DEF Turned
<1>. HIDE DEF o, c, w
<1>8. /\ ~IsRed(u, top) /\ IsRed(u, g) /\ ~IsRed(u, Nil)
      /\ \A m \in Nodes : m # g /\ m # top => (IsRed(u, m) <=> IsRed(t, m))
  BY <1>1, <1>2, <1>7 DEF IsRed
<1>9. Tidy(u, low, Nil)
  <2>. SUFFICES ASSUME NEW m \in Members(t), IsRed(u, m), m # low
                PROVE  m # u.root /\ ~IsRed(u, u.parent[m])
    BY <1>7 DEF Tidy
  <2>1. CASE m = g
    BY <2>1, <1>1, <1>2, <1>7, <1>8, LinkFacts
  <2>2. CASE m # g
    <3>1. m # top /\ IsRed(t, m) /\ m \in Nodes
      BY <2>2, <1>1, <1>8
    <3>2. m # t.root /\ (IsRed(t, t.parent[m]) => t.parent[m] = Nil)
      BY <3>1, <1>1 DEF Tidy
    <3>3. ~IsRed(t, t.parent[m]) /\ t.parent[m] \in Nodes \cup {Nil}
      BY <3>1, <3>2, <1>1, LinkFacts DEF IsRed
    <3>4. m # c
      BY <3>1, <3>3, <1>1, <1>4
    <3>5. t.parent[m] # g
      <4>1. t.parent[m] = g => \E j \in Sides : t.kid[g][j] = m
        BY <1>1, <1>2, LinkFacts
      <4>2. \A j \in Sides : t.kid[g][j] = top \/ t.kid[g][j] = t.kid[g][Opposite(s)]
        BY SidesFacts
      <4>. QED
        BY <3>1, <4>1, <4>2
    <3>6. u.parent[m] = t.parent[m] /\ m # u.root
      BY <2>2, <3>1, <3>2, <3>4, <1>7
    <3>7. t.parent[m] # top
      BY <3>3
    <3>. QED
      BY <3>3, <3>5, <3>6, <3>7, <1>8
  <2>. QED BY <2>1, <2>2
<1>10. \E hh : Levels(u, hh, Nil, "left")
  <2>1. Levels(u, [h EXCEPT ![g] = h[top], ![top] = h[g]], Nil, "left")
    BY <1>1, <1>2, <1>3, <1>6, TurnedLevels
  <2>. QED BY <2>1
<1>11. IsRed(u, low)
  BY <1>1, <1>4, <1>8
<1>. QED
  BY <1>1, <1>7, <1>9, <1>10, <1>11 DEF InsertOk

LEMMA InsertRoundFacts ==
  ASSUME NEW t, NEW n, NEW h, InsertOk(t, n, h), IsRed(t, t.parent[n])
  PROVE  LET r == InsertRound(t, n)
         IN  Members(r.tree) = Members(t) /\ \E hh : InsertOk(r.tree, r.at, hh)
<1>1. PICK p, g, s, k : InsertPlace(t, n, p, g, s, k)
  BY InsertPlaceFacts, SMTT(30)
<1>2. /\ p = t.parent[n] /\ g = t.parent[p] /\ s = SideOf(t, g, p) /\ s \in Sides
      /\ k = t.kid[g][Opposite(s)] /\ t.kid[g][s] = p /\ g \in Members(t)
      /\ IsRed(t, p) /\ ~IsRed(t, g) /\ p \in Members(t) /\ n \in Members(t)
  BY <1>1 DEF InsertPlace
<1>3. CASE IsRed(t, k)
  <2>1. InsertRound(t, n) =
          [tree |-> BlackRed(Paint(t, k, "black"), p, g), at |-> g]
    BY <1>2, <1>3 DEF InsertRound
  <2>. QED
    BY <1>1, <1>3, <2>1, InsertRecolour, SMTT(30)
<1>4. CASE ~IsRed(t, k) /\ t.kid[p][Opposite(s)] = n
  <2>. DEFINE v == Rotate(t, p, s)
  <2>1. InsertRound(t, n) =
          [tree |-> Rotate(BlackRed(v, n, g), g, Opposite(s)), at |-> p]
    BY <1>2, <1>4 DEF InsertRound
  <2>. HIDE DEF v
  <2>2. /\ Members(v) = Members(t) /\ \E hh : InsertOk(v, p, hh)
        /\ v.kid[g][s] = n /\ v.kid[g][Opposite(s)] = k /\ v.kid[n][s] = p
        /\ v.color = t.color
    BY <1>1, <1>4, InsertInner DEF v
  <2>3. IsRed(v, n) /\ ~IsRed(v, g) /\ ~IsRed(v, k)
    BY <1>2, <1>4, <2>2, Zenon DEF IsRed, InsertOk
  <2>4. PICK hh : InsertOk(v, p, hh)
    BY <2>2
  <2>5. PICK u : u = Rotate(BlackRed(v, n, g), g, Opposite(s))
    OBVIOUS
  <2>6. /\ g \in Members(v) /\ v.kid[g][s] = n /\ v.kid[n][s] = p
        /\ IsRed(v, n) /\ ~IsRed(v, g) /\ ~IsRed(v, v.kid[g][Opposite(s)])
    BY <1>2, <2>2, <2>3, SMTT(30)
  <2>7. Members(u) = Members(v) /\ \E h3 : InsertOk(u, p, h3)
    BY ONLY <1>2, <2>4, <2>5, <2>6, InsertOuter
  <2>. QED
    BY <2>1, <2>2, <2>5, <2>7
<1>5. CASE ~IsRed(t, k) /\ t.kid[p][Opposite(s)] # n
  <2>1. InsertRound(t, n) =
          [tree |-> Rotate(BlackRed(t, p, g), g, Opposite(s)), at |-> n]
    BY <1>2, <1>5 DEF InsertRound
  <2>2. t.kid[p][s] = n
    BY <1>1, <1>2, <1>5, SidesFacts, ZenonT(30) DEF InsertPlace
  <2>3. PICK u : u = Rotate(BlackRed(t, p, g), g, Opposite(s))
    OBVIOUS
  <2>4. Members(u) = Members(t) /\ \E h3 : InsertOk(u, n, h3)
    BY <1>2, <1>5, <2>2, <2>3, InsertOuter
  <2>. QED
    BY <2>1, <2>3, <2>4
<1>. QED
  BY <1>3, <1>4, <1>5

-----------------------------------------------------------------------------
(***************************************************************************)
(* The rounds of RB_REMOVE_COLOR.                                          *)
(***************************************************************************)

\* n, below p or at the root, is one black node short if it is below p; if
\* there is a red root it is n, and if there is a red pair n is in it.
RemoveOk(t, n, p, h) ==
  /\ Whole(t) /\ n \in Members(t) \cup {Nil} /\ p \in Members(t) \cup {Nil}
  /\ IF p = Nil THEN n = t.root ELSE t.kid[p][SideOf(t, p, n)] = n
  /\ Tidy(t, n, n) /\ Levels(t, h, p, SideOf(t, p, n))

\* The kid of p on side s is black and one black node short.
ShortAt(t, p, s, h) ==
  /\ Whole(t) /\ p \in Members(t) /\ s \in Sides
  /\ ~IsRed(t, t.kid[p][s])
  /\ Tidy(t, Nil, Nil) /\ Levels(t, h, p, s)

LEMMA TidyFacts ==
  ASSUME NEW t, Tidy(t, Nil, Nil)
  PROVE  /\ \A x, y : Tidy(t, x, y)
         /\ \A n \in Members(t) : IsRed(t, n) => n # t.root /\ ~IsRed(t, t.parent[n])
<1>1. \A n \in Members(t) : IsRed(t, n) => n # t.root /\ ~IsRed(t, t.parent[n])
  BY DEF Tidy, IsRed
<1>. QED
  BY <1>1 DEF Tidy

\* The sibling of a subtree that is short: w is p's kid on the other side o.
Sibling(t, p, s, o, w) ==
  /\ o = Opposite(s) /\ w = t.kid[p][o] /\ s = Opposite(o)
  /\ o \in Sides /\ s \in Sides /\ o # s /\ \A j \in Sides : j = s \/ j = o
  /\ p \in Members(t) /\ w \in Members(t) /\ p # w
  /\ t.parent[w] = p /\ t.parent[p] # w /\ t.parent[p] # p
  /\ t.kid[p][s] # w /\ t.kid[p][s] # p
  /\ \A j \in Sides : t.kid[w][j] # w /\ t.kid[w][j] # p
  /\ Members(t) \subseteq Nodes /\ Nil \notin Nodes

LEMMA SiblingFacts ==
  ASSUME NEW t, NEW p, NEW s, NEW h, ShortAt(t, p, s, h)
  PROVE  /\ Sibling(t, p, s, Opposite(s), t.kid[p][Opposite(s)])
         /\ h \in [Nodes -> Nat]
         /\ h[p] = Height(h, t.kid[p][s]) + Weight(t, p) + 1
         /\ h[p] = h[t.kid[p][Opposite(s)]] + Weight(t, p)
         /\ Height(h, t.kid[p][s]) \in Nat
         /\ h[t.kid[p][Opposite(s)]] = Height(h, t.kid[p][s]) + 1
<1>. DEFINE o == Opposite(s)
            w == t.kid[p][o]
            n == t.kid[p][s]
<1>1. /\ Whole(t) /\ p \in Members(t) /\ p \in Nodes /\ s \in Sides /\ h \in [Nodes -> Nat]
      /\ Members(t) \subseteq Nodes /\ Nil \notin Nodes
      /\ \A j \in Sides : h[p] = Height(h, t.kid[p][j]) + Weight(t, p) + Short(p, j, p, s)
  BY LinkFacts, NilAssumption DEF ShortAt, Levels
<1>2. o \in Sides /\ o # s /\ Opposite(o) = s /\ \A j \in Sides : j = s \/ j = o
  BY <1>1, SidesFacts
<1>3. n \in Nodes \cup {Nil} /\ w \in Nodes \cup {Nil}
  BY <1>1, <1>2, LinkFacts
<1>4. Height(h, n) \in Nat /\ Height(h, w) \in Nat /\ Weight(t, p) \in {0, 1}
  BY <1>1, <1>3, HeightFacts
<1>5. h[p] = Height(h, n) + Weight(t, p) + 1 /\ h[p] = Height(h, w) + Weight(t, p)
  BY <1>1, <1>2, <1>4 DEF Short
<1>6. Height(h, w) = Height(h, n) + 1
  BY <1>4, <1>5
<1>7. w # Nil
  BY <1>4, <1>6 DEF Height
<1>8. /\ w \in Members(t) /\ t.parent[w] = p /\ p # w /\ t.parent[p] # w /\ t.parent[p] # p
      /\ \A j \in Sides : t.kid[w][j] # w /\ t.kid[w][j] # p
  BY <1>1, <1>2, <1>7, KidFacts
<1>9. n # w /\ n # p
  <2>1. n # Nil => n # w
    BY <1>1, <1>2, <1>3, LinkFacts
  <2>2. n # Nil => n # p
    BY <1>1, KidFacts
  <2>. QED
    BY <2>1, <2>2, <1>1, <1>7
<1>10. Height(h, w) = h[w]
  BY <1>7 DEF Height
<1>. QED
  BY <1>1, <1>2, <1>4, <1>5, <1>6, <1>8, <1>9, <1>10 DEF Sibling

\* A red sibling goes up; the new one is black.
LEMMA RemoveRedSibling ==
  ASSUME NEW t, NEW p, NEW s, NEW h, ShortAt(t, p, s, h),
         NEW sib, sib = t.kid[p][Opposite(s)], t.color[sib] = "red",
         NEW u, u = Rotate(BlackRed(t, sib, p), p, s)
  PROVE  /\ Members(u) = Members(t) /\ u.kid[p][s] = t.kid[p][s]
         /\ \E hh : ShortAt(u, p, s, hh)
         /\ ~IsRed(u, u.kid[p][Opposite(s)])
<1>. DEFINE o == Opposite(s)
            c == t.kid[sib][s]
            w == BlackRed(t, sib, p)
<1>1. Whole(t) /\ Tidy(t, Nil, Nil) /\ Levels(t, h, p, s) /\ ~IsRed(t, t.kid[p][s])
  BY DEF ShortAt
<1>2. /\ sib = t.kid[p][o] /\ s = Opposite(o)
      /\ o \in Sides /\ s \in Sides /\ o # s /\ \A j \in Sides : j = s \/ j = o
      /\ p \in Members(t) /\ sib \in Members(t) /\ p # sib
      /\ t.parent[sib] = p /\ t.parent[p] # sib /\ t.parent[p] # p
      /\ t.kid[p][s] # sib /\ t.kid[p][s] # p
      /\ \A j \in Sides : t.kid[sib][j] # sib /\ t.kid[sib][j] # p
      /\ Members(t) \subseteq Nodes /\ Nil \notin Nodes
  <2>1. Sibling(t, p, s, Opposite(s), t.kid[p][Opposite(s)])
    BY SiblingFacts
  <2>. QED
    BY <2>1 DEF Sibling
<1>3. IsRed(t, sib) /\ ~IsRed(t, p) /\ ~IsRed(t, c) /\ sib # t.root
  <2>1. IsRed(t, sib)
    BY <1>2 DEF IsRed
  <2>2. ~IsRed(t, p) /\ sib # t.root
    BY <2>1, <1>1, <1>2, TidyFacts
  <2>3. ASSUME IsRed(t, c) PROVE FALSE
    <3>1. c # Nil
      BY <2>3 DEF IsRed
    <3>2. c \in Members(t) /\ t.parent[c] = sib
      BY <3>1, <1>1, <1>2, LinkFacts
    <3>. QED
      BY <3>2, <2>1, <2>3, <1>1, TidyFacts
  <2>. QED BY <2>1, <2>2, <2>3
<1>4. Swapped(t, w, p, sib)
  <2>1. SameLinks(t, w) /\ \A m \in Nodes : w.color[m] =
          IF m = sib THEN "black" ELSE IF m = p THEN "red" ELSE t.color[m]
    BY <1>1, <1>2, BlackRedLinks
  <2>2. t.color[sib] = "red" /\ t.color[p] = "black"
    BY <1>1, <1>2, <1>3 DEF IsRed, Whole, TreeType
  <2>. QED
    BY <1>2, <2>1, <2>2 DEF Swapped
<1>5. Turned(t, u, p, s)
  BY <1>1, <1>2, <1>4, TurnedFacts
<1>6. /\ Whole(u) /\ Members(u) = Members(t)
      /\ u.root = IF t.parent[p] = Nil THEN sib ELSE t.root
      /\ \A m \in Nodes : u.parent[m] =
           IF m = p THEN sib ELSE IF m = sib THEN t.parent[p]
           ELSE IF m = c THEN p ELSE t.parent[m]
      /\ \A m \in Nodes : u.color[m] =
           IF m = p THEN t.color[sib] ELSE IF m = sib THEN t.color[p] ELSE t.color[m]
      /\ u.kid[p][o] = c /\ u.kid[p][s] = t.kid[p][s]
  <2>1. \A m \in Nodes, j \in Sides : u.kid[m][j] =
          IF m = p /\ j = o THEN c
          ELSE IF m = sib /\ j = s THEN p
          ELSE IF m = t.parent[p] /\ t.kid[t.parent[p]][j] = p THEN sib
          ELSE t.kid[m][j]
    BY <1>2, <1>5 DEF Turned
  <2>2. u.kid[p][o] = c /\ u.kid[p][s] = t.kid[p][s]
    BY <2>1, <1>2
  <2>3. /\ Whole(u) /\ Members(u) = Members(t)
        /\ u.root = IF t.parent[p] = Nil THEN sib ELSE t.root
        /\ \A m \in Nodes : u.parent[m] =
             IF m = p THEN sib ELSE IF m = sib THEN t.parent[p]
             ELSE IF m = c THEN p ELSE t.parent[m]
        /\ \A m \in Nodes : u.color[m] =
             IF m = p THEN t.color[sib] ELSE IF m = sib THEN t.color[p] ELSE t.color[m]
    BY <1>5 DEF Turned
  <2>. QED
    BY <2>2, <2>3, ZenonT(30)
<1>7. c # Nil => t.parent[c] = sib /\ c # sib /\ c # p /\ c \in Nodes
  BY <1>1, <1>2, LinkFacts, SMTT(30)
<1>. HIDE DEF o, c, w
<1>8. /\ ~IsRed(u, sib) /\ IsRed(u, p) /\ ~IsRed(u, Nil)
      /\ \A m \in Nodes : m # p /\ m # sib => (IsRed(u, m) <=> IsRed(t, m))
  BY <1>2, <1>3, <1>6 DEF IsRed
<1>9. ~IsRed(u, u.kid[p][s]) /\ ~IsRed(u, c)
  <2>1. t.kid[p][s] \in Nodes \cup {Nil}
    BY <1>1, <1>2, LinkFacts
  <2>. QED
    BY <2>1, <1>1, <1>2, <1>3, <1>6, <1>7, <1>8
<1>10. Tidy(u, Nil, Nil)
  <2>. SUFFICES ASSUME NEW m \in Members(t), IsRed(u, m)
                PROVE  m # u.root /\ ~IsRed(u, u.parent[m])
    BY <1>6, SMTT(30) DEF Tidy
  <2>1. CASE m = p
    BY <2>1, <1>1, <1>2, <1>6, <1>8, LinkFacts
  <2>2. CASE m # p
    <3>1. m # sib /\ IsRed(t, m) /\ m \in Nodes
      BY <2>2, <1>2, <1>8
    <3>2. m # t.root /\ ~IsRed(t, t.parent[m]) /\ t.parent[m] \in Nodes \cup {Nil}
      BY <3>1, <1>1, TidyFacts, LinkFacts
    <3>3. m # c
      BY <3>1, <3>2, <1>3
    <3>4. u.parent[m] = t.parent[m] /\ m # u.root
      BY <2>2, <3>1, <3>2, <3>3, <1>6
    <3>5. t.parent[m] # p
      <4>1. t.parent[m] = p => \E j \in Sides : t.kid[p][j] = m
        BY <1>1, <1>2, LinkFacts
      <4>. QED
        BY <3>1, <4>1, <1>1, <1>2
    <3>6. t.parent[m] # sib
      BY <3>2, <1>3
    <3>. QED
      BY <3>2, <3>4, <3>5, <3>6, <1>8
  <2>. QED BY <2>1, <2>2
<1>11. \E hh : Levels(u, hh, p, s)
  <2>1. Opposite(s) = o
    BY DEF o
  <2>2. Levels(u, [h EXCEPT ![p] = h[sib], ![sib] = h[p]], p, s)
    BY <1>1, <1>2, <1>3, <1>5, <2>1, TurnedLevels
  <2>. QED BY <2>2
<1>. QED
  BY <1>2, <1>6, <1>9, <1>10, <1>11 DEF ShortAt, o

\* A black sibling with black kids is painted red: now the parent is short.
LEMMA RemoveRecolour ==
  ASSUME NEW t, NEW p, NEW s, NEW h, ShortAt(t, p, s, h),
         NEW w, w = t.kid[p][Opposite(s)], ~IsRed(t, w),
         \A j \in Sides : ~IsRed(t, t.kid[w][j]),
         NEW u, u = Paint(t, w, "red")
  PROVE  Members(u) = Members(t) /\ \E hh : RemoveOk(u, p, t.parent[p], hh)
<1>. DEFINE o  == Opposite(s)
            g  == t.parent[p]
            k  == SideOf(u, g, p)
            hh == [h EXCEPT ![w] = h[w] - 1, ![p] = h[p] - 1]
<1>1. Whole(t) /\ Tidy(t, Nil, Nil) /\ Levels(t, h, p, s) /\ ~IsRed(t, t.kid[p][s])
  BY DEF ShortAt
<1>2. /\ w = t.kid[p][o] /\ o \in Sides /\ s \in Sides /\ o # s
      /\ \A j \in Sides : j = s \/ j = o
      /\ p \in Members(t) /\ w \in Members(t) /\ p # w
      /\ t.parent[w] = p /\ g # w /\ g # p
      /\ t.kid[p][s] # w /\ t.kid[p][s] # p
      /\ \A j \in Sides : t.kid[w][j] # w /\ t.kid[w][j] # p
      /\ Members(t) \subseteq Nodes /\ Nil \notin Nodes
  <2>1. Sibling(t, p, s, Opposite(s), t.kid[p][Opposite(s)])
    BY SiblingFacts
  <2>. QED
    BY <2>1 DEF Sibling
<1>3. /\ h \in [Nodes -> Nat] /\ h[p] = Height(h, t.kid[p][s]) + Weight(t, p) + 1
      /\ h[p] = h[w] + Weight(t, p) /\ Height(h, t.kid[p][s]) \in Nat
      /\ h[w] = Height(h, t.kid[p][s]) + 1
  BY SiblingFacts
<1>4. SameLinks(t, u) /\ \A m \in Nodes : u.color[m] = IF m = w THEN "red" ELSE t.color[m]
  BY <1>1, <1>2, PaintLinks
<1>5. Whole(u) /\ Members(u) = Members(t) /\ u.root = t.root /\ u.kid = t.kid
      /\ u.parent = t.parent
  BY <1>1, <1>4, SameLinksWhole DEF SameLinks
<1>6. g \in Members(t) \cup {Nil} /\ (g = Nil => p = t.root) /\ k \in Sides
      /\ (g # Nil => t.kid[g][k] = p)
      /\ \A j \in Sides : g # Nil /\ j # k => t.kid[g][j] # p
  <2>1. g \in Members(t) \cup {Nil} /\ (g = Nil => p = t.root)
    BY <1>1, <1>2, LinkFacts
  <2>2. ASSUME g # Nil PROVE k \in Sides /\ t.kid[g][k] = p /\ t.kid[g][Opposite(k)] # p
    BY <1>2, <1>5, <2>2, SideOfFacts
  <2>3. k \in Sides
    BY DEF SideOf, Sides
  <2>. QED
    BY <2>1, <2>2, <2>3, SidesFacts
<1>. HIDE DEF o, g, k, hh
<1>7. /\ IsRed(u, w) /\ ~IsRed(u, Nil)
      /\ \A m \in Nodes : m # w => (IsRed(u, m) <=> IsRed(t, m))
  BY <1>2, <1>4 DEF IsRed
<1>8. Tidy(u, p, p)
  <2>. SUFFICES ASSUME NEW m \in Members(t), IsRed(u, m), m # p
                PROVE  m # t.root /\ (IsRed(u, t.parent[m]) => t.parent[m] = p)
    BY <1>5 DEF Tidy
  <2>1. CASE m = w
    <3>1. w # t.root
      BY <1>1, <1>2, LinkFacts
    <3>. QED
      BY <2>1, <3>1, <1>2
  <2>2. CASE m # w
    <3>1. IsRed(t, m) /\ m \in Nodes
      BY <2>2, <1>2, <1>7
    <3>2. m # t.root /\ ~IsRed(t, t.parent[m]) /\ t.parent[m] \in Nodes \cup {Nil}
      BY <3>1, <1>1, TidyFacts, LinkFacts
    <3>3. t.parent[m] # w
      <4>1. t.parent[m] = w => \E j \in Sides : t.kid[w][j] = m
        BY <1>1, <1>2, LinkFacts
      <4>. QED
        BY <3>1, <4>1
    <3>. QED
      BY <3>2, <3>3, <1>7
  <2>. QED BY <2>1, <2>2
<1>9. Levels(u, hh, g, k)
  <2>1. /\ hh \in [Nodes -> Nat] /\ hh[w] = h[w] - 1 /\ hh[p] = h[p] - 1
        /\ \A m \in Nodes : m # p /\ m # w => hh[m] = h[m]
    <3>1. h[w] - 1 \in Nat /\ h[p] - 1 \in Nat
      <4>1. Weight(t, p) \in {0, 1}
        BY DEF Weight
      <4>. QED
        BY <1>3, <4>1
    <3>. QED
      BY <3>1, <1>2, <1>3 DEF hh
  <2>2. /\ Weight(t, w) = 1 /\ Weight(u, w) = 0
        /\ \A m \in Nodes : m # w => Weight(u, m) = Weight(t, m)
        /\ \A m \in Nodes : Weight(t, m) \in {0, 1}
    BY <1>1, <1>2, <1>4 DEF IsRed, Weight, Whole, TreeType
  <2>3. SUFFICES ASSUME NEW m \in Members(t), NEW j \in Sides
                 PROVE  hh[m] = Height(hh, t.kid[m][j]) + Weight(u, m) + Short(m, j, g, k)
    BY <1>5, <2>1 DEF Levels
  <2>4. /\ t.kid[m][j] \in Nodes \cup {Nil} /\ m \in Nodes
        /\ (t.kid[m][j] # Nil => t.parent[t.kid[m][j]] = m)
        /\ h[m] = Height(h, t.kid[m][j]) + Weight(t, m) + Short(m, j, p, s)
    BY <1>1, <1>2, LinkFacts DEF Levels
  <2>5. Height(h, t.kid[m][j]) \in Nat /\ Weight(t, m) \in {0, 1}
    BY <1>3, <2>2, <2>4 DEF Height
  <2>6. t.kid[m][j] # p /\ t.kid[m][j] # w =>
          Height(hh, t.kid[m][j]) = Height(h, t.kid[m][j])
    BY <2>1, <2>4, SMTT(30) DEF Height
  <2>7. CASE m = w
    <3>1. Short(m, j, g, k) = 0 /\ Short(m, j, p, s) = 0
      BY <2>7, <1>2 DEF Short
    <3>. QED
      BY <2>1, <2>2, <2>4, <2>5, <2>6, <2>7, <3>1, <1>2
  <2>8. CASE m = p /\ j = s
    <3>1. Short(m, j, g, k) = 0 /\ Short(m, j, p, s) = 1
      BY <2>8, <1>2 DEF Short
    <3>. QED
      BY <2>1, <2>2, <2>4, <2>5, <2>6, <2>8, <3>1, <1>2
  <2>9. CASE m = p /\ j = o
    <3>1. Short(m, j, g, k) = 0 /\ Height(hh, w) = h[w] - 1
      BY <2>1, <2>9, <1>2 DEF Short, Height
    <3>. QED
      BY <2>1, <2>2, <2>4, <2>5, <2>9, <3>1, <1>2, <1>3
  <2>10. CASE m # p /\ m # w /\ t.kid[m][j] = p
    <3>1. m = g /\ j = k
      BY <2>4, <2>10, <1>2, <1>6 DEF g
    <3>2. Short(m, j, g, k) = 1 /\ Short(m, j, p, s) = 0
          /\ Height(hh, p) = h[p] - 1 /\ Height(h, p) = h[p]
      BY <2>1, <2>10, <3>1, <1>2 DEF Short, Height
    <3>. QED
      BY <2>1, <2>2, <2>4, <2>5, <2>10, <3>2, <1>2
  <2>11. CASE m # p /\ m # w /\ t.kid[m][j] # p
    <3>1. t.kid[m][j] # w
      BY <2>4, <2>11, <1>2
    <3>a. ~(m = g /\ j = k)
      BY <2>4, <2>11, <1>2, <1>6
    <3>2. Short(m, j, g, k) = 0 /\ Short(m, j, p, s) = 0
      BY <2>11, <3>a DEF Short
    <3>. QED
      BY <2>1, <2>2, <2>4, <2>5, <2>6, <2>11, <3>1, <3>2
  <2>. QED
    BY <2>7, <2>8, <2>9, <2>10, <2>11, <1>2
<1>. QED
  BY <1>2, <1>5, <1>6, <1>8, <1>9, Zenon DEF RemoveOk, g, k

\* The same facts with the names of the nodes given.
KidOf(t, x, s, y) ==
  /\ x \in Members(t) /\ y \in Members(t) /\ t.parent[y] = x
  /\ x # y /\ x # Nil /\ y # Nil /\ t.parent[x] # y
  /\ \A k \in Sides : /\ t.kid[y][k] # y /\ t.kid[y][k] # x
                      /\ t.kid[y][k] # Nil => t.kid[y][k] # t.parent[x]
                      /\ t.kid[y][k] # Nil => /\ t.kid[y][k] \in Members(t)
                                              /\ t.parent[t.kid[y][k]] = y

LEMMA KidOfFacts ==
  ASSUME NEW t, Whole(t), NEW x \in Nodes, NEW s \in Sides, NEW y,
         y = t.kid[x][s], y # Nil
  PROVE  KidOf(t, x, s, y)
<1>1. y \in Nodes
  BY KidFacts, LinkFacts
<1>2. \A k \in Sides : t.kid[y][k] # Nil =>
        t.kid[y][k] \in Members(t) /\ t.parent[t.kid[y][k]] = y
  BY <1>1, LinkFacts
<1>. QED
  BY <1>2, KidFacts DEF KidOf

TurnedAt(t, u, x, y, s, o) ==
  LET c == t.kid[y][s]
      g == t.parent[x]
  IN  /\ Whole(u) /\ Members(u) = Members(t)
      /\ u.root = IF g = Nil THEN y ELSE t.root
      /\ \A n \in Nodes : u.parent[n] =
           IF n = x THEN y ELSE IF n = y THEN g ELSE IF n = c THEN x ELSE t.parent[n]
      /\ \A n \in Nodes, k \in Sides : u.kid[n][k] =
           IF n = x /\ k = o THEN c
           ELSE IF n = y /\ k = s THEN x
           ELSE IF n = g /\ t.kid[g][k] = x THEN y
           ELSE t.kid[n][k]
      /\ \A n \in Nodes : u.color[n] =
           IF n = x THEN t.color[y] ELSE IF n = y THEN t.color[x] ELSE t.color[n]

LEMMA TurnedAtFacts ==
  ASSUME NEW t, NEW u, NEW x, NEW s, Turned(t, u, x, s)
  PROVE  TurnedAt(t, u, x, t.kid[x][Opposite(s)], s, Opposite(s))
BY DEF Turned, TurnedAt

\* The red near kid of the sibling goes up, and makes the far one red.
LEMMA RemoveNearKid ==
  ASSUME NEW t, NEW p, NEW s, NEW h, ShortAt(t, p, s, h),
         NEW w, w = t.kid[p][Opposite(s)], ~IsRed(t, w),
         NEW near, near = t.kid[w][s], IsRed(t, near),
         ~IsRed(t, t.kid[w][Opposite(s)]),
         NEW u, u = Rotate(Paint(Paint(t, near, "black"), w, "red"), w, Opposite(s))
  PROVE  /\ Members(u) = Members(t) /\ \E hh : ShortAt(u, p, s, hh)
         /\ ~IsRed(u, u.kid[p][Opposite(s)])
         /\ IsRed(u, u.kid[u.kid[p][Opposite(s)]][Opposite(s)])
<1>. DEFINE o  == Opposite(s)
            c  == t.kid[near][o]
            v  == Paint(t, near, "black")
            vv == Paint(v, w, "red")
<1>1. Whole(t) /\ Tidy(t, Nil, Nil) /\ Levels(t, h, p, s) /\ ~IsRed(t, t.kid[p][s])
  BY DEF ShortAt
<1>2. /\ w = t.kid[p][o] /\ o \in Sides /\ s \in Sides /\ o # s /\ Opposite(o) = s
      /\ \A j \in Sides : j = s \/ j = o
      /\ p \in Members(t) /\ w \in Members(t) /\ p # w
      /\ t.parent[w] = p
      /\ t.kid[p][s] # w /\ t.kid[p][s] # p
      /\ \A j \in Sides : t.kid[w][j] # w /\ t.kid[w][j] # p
      /\ Members(t) \subseteq Nodes /\ Nil \notin Nodes
  <2>1. Sibling(t, p, s, Opposite(s), t.kid[p][Opposite(s)])
    BY SiblingFacts
  <2>. QED
    BY <2>1 DEF Sibling
<1>3. /\ near # Nil /\ near \in Members(t) /\ near # w /\ near # p /\ t.parent[near] = w
      /\ \A j \in Sides : t.kid[near][j] # near /\ t.kid[near][j] # w
                          /\ (t.kid[near][j] # Nil => t.kid[near][j] # p)
  <2>1. near # Nil
    BY DEF IsRed
  <2>2. KidOf(t, w, s, near)
    BY <2>1, <1>1, <1>2, KidOfFacts
  <2>. QED
    BY <2>2, <1>2, ZenonT(30) DEF KidOf
<1>4. Swapped(t, vv, w, near)
  <2>1. SameLinks(t, v) /\ \A m \in Nodes : v.color[m] =
          IF m = near THEN "black" ELSE t.color[m]
    <3>1. near \in Members(t) \cup {Nil}
      BY <1>3, Zenon
    <3>. QED
      BY <3>1, <1>1, PaintLinks
  <2>2. Whole(v) /\ Members(v) = Members(t)
    BY <1>1, <2>1, SameLinksWhole, ZenonT(30)
  <2>. HIDE DEF v
  <2>3. SameLinks(v, vv) /\ \A m \in Nodes : vv.color[m] =
          IF m = w THEN "red" ELSE v.color[m]
    BY <1>2, <2>2, PaintLinks, SMTT(30)
  <2>4. t.color[near] = "red" /\ t.color[w] = "black"
    BY <1>1, <1>2 DEF IsRed, Whole, TreeType
  <2>. HIDE DEF vv
  <2>5. SameLinks(t, vv)
    BY <2>1, <2>2, <2>3 DEF SameLinks
  <2>. QED
    BY <1>3, <2>1, <2>3, <2>4, <2>5, ZenonT(30) DEF Swapped
<1>. HIDE DEF v, vv
<1>5. Turned(t, u, w, o)
  BY <1>1, <1>2, <1>3, <1>4, TurnedFacts, ZenonT(30) DEF v, vv
<1>6. /\ Whole(u) /\ Members(u) = Members(t)
      /\ u.root = IF t.parent[w] = Nil THEN near ELSE t.root
      /\ \A m \in Nodes : u.parent[m] =
           IF m = w THEN near ELSE IF m = near THEN t.parent[w]
           ELSE IF m = c THEN w ELSE t.parent[m]
      /\ \A m \in Nodes : u.color[m] =
           IF m = w THEN t.color[near] ELSE IF m = near THEN t.color[w] ELSE t.color[m]
      /\ \A m \in Nodes, j \in Sides : u.kid[m][j] =
           IF m = w /\ j = s THEN c
           ELSE IF m = near /\ j = o THEN w
           ELSE IF m = t.parent[w] /\ t.kid[t.parent[w]][j] = w THEN near
           ELSE t.kid[m][j]
  <2>1. TurnedAt(t, u, w, t.kid[w][Opposite(o)], o, Opposite(o))
    BY <1>5, TurnedAtFacts
  <2>2. TurnedAt(t, u, w, near, o, s)
    BY <1>2, <2>1, ZenonT(30)
  <2>. QED
    BY <2>2, ZenonT(30) DEF TurnedAt
<1>7. u.kid[p][o] = near /\ u.kid[near][o] = w /\ u.kid[p][s] = t.kid[p][s]
  BY <1>2, <1>3, <1>6, ZenonT(30)
<1>8. c # Nil => t.parent[c] = near /\ c \in Members(t)
  <2>1. near \in Nodes /\ near # Nil
    BY <1>2, <1>3, ZenonT(30)
  <2>2. KidOf(t, w, s, near)
    BY <2>1, <1>1, <1>2, KidOfFacts
  <2>. QED
    BY <2>2, <1>2, ZenonT(30) DEF KidOf
<1>. HIDE DEF o, c
<1>9. /\ ~IsRed(u, near) /\ IsRed(u, w) /\ ~IsRed(u, Nil)
      /\ \A m \in Nodes : m # w /\ m # near => (IsRed(u, m) <=> IsRed(t, m))
  BY <1>2, <1>3, <1>6, ZenonT(30) DEF IsRed
<1>10. ~IsRed(u, u.kid[p][s])
  <2>1. t.kid[p][s] \in Nodes \cup {Nil}
    BY <1>1, <1>2, LinkFacts
  <2>. QED
    BY <2>1, <1>1, <1>2, <1>7, <1>9, ZenonT(30)
<1>11. Tidy(u, Nil, Nil)
  <2>. SUFFICES ASSUME NEW m \in Members(t), IsRed(u, m)
                PROVE  m # u.root /\ ~IsRed(u, u.parent[m])
    BY <1>6, ZenonT(30) DEF Tidy
  <2>0. u.root = t.root
    BY <1>2, <1>6, ZenonT(30)
  <2>1. CASE m = w
    <3>1. w # t.root
      BY <1>1, <1>2, LinkFacts
    <3>2. u.parent[w] = near
      BY <1>2, <1>6, ZenonT(30)
    <3>. QED
      BY <2>0, <2>1, <3>1, <3>2, <1>9, ZenonT(30)
  <2>2. CASE m # w
    <3>1. m # near /\ IsRed(t, m) /\ m \in Nodes
      BY <2>2, <1>2, <1>9, ZenonT(30)
    <3>2. m # t.root /\ ~IsRed(t, t.parent[m]) /\ t.parent[m] \in Nodes \cup {Nil}
      BY <3>1, <1>1, TidyFacts, LinkFacts, SMTT(30)
    <3>3. m # c
      BY <3>1, <3>2, <1>2, <1>8
    <3>4. u.parent[m] = t.parent[m]
      BY <2>2, <3>1, <3>3, <1>6, ZenonT(30)
    <3>5. t.parent[m] # w
      <4>1. t.parent[m] = w => \E j \in Sides : t.kid[w][j] = m
        BY <1>1, <1>2, LinkFacts
      <4>. QED
        BY <3>1, <4>1, <1>1, <1>2, SMTT(30) DEF o
    <3>6. t.parent[m] # near
      BY <3>2
    <3>. QED
      BY <2>0, <3>2, <3>4, <3>5, <3>6, <1>9, ZenonT(30)
  <2>. QED BY <2>1, <2>2, ZenonT(30)
<1>12. \E hh : Levels(u, hh, p, s)
  <2>1. Levels(u, [h EXCEPT ![w] = h[near], ![near] = h[w]], p, s)
    BY <1>1, <1>2, <1>3, <1>5, TurnedLevels, Zenon
  <2>. QED BY <2>1, ZenonT(30)
<1>. QED
  <2>1. \E hh : ShortAt(u, p, s, hh)
    BY <1>2, <1>6, <1>10, <1>11, <1>12, Zenon DEF ShortAt
  <2>. QED
    BY <2>1, <1>6, <1>7, <1>9, ZenonT(30) DEF o

\* What the last round of RB_REMOVE_COLOR paints, in one.
Blackened(t, tt, n) ==
  /\ SameLinks(t, tt)
  /\ \A m \in Nodes : tt.color[m] = IF m = n THEN "black" ELSE t.color[m]

LEMMA PaintsSwap ==
  ASSUME NEW t, Whole(t), NEW p \in Members(t), NEW v \in Members(t), NEW far \in Members(t),
         p # v, p # far, v # far, ~IsRed(t, v)
  PROVE  LET tt == Paint(t, far, "black")
         IN  /\ Blackened(t, tt, far)
             /\ Swapped(tt, Paint(Paint(Paint(t, v, t.color[p]), p, "black"), far, "black"), p, v)
<1>. DEFINE tt == Paint(t, far, "black")
            w1 == Paint(t, v, t.color[p])
            w2 == Paint(w1, p, "black")
            w3 == Paint(w2, far, "black")
<1>. HIDE DEF tt, w1, w2, w3
<1>1. /\ p \in Nodes /\ v \in Nodes /\ far \in Nodes /\ p # Nil /\ v # Nil /\ far # Nil
      /\ t.color[p] \in {"red", "black"} /\ t.color[v] = "black" /\ Members(t) \subseteq Nodes
  BY LinkFacts, NilAssumption DEF Whole, TreeType, IsRed
<1>2. SameLinks(t, tt) /\ \A m \in Nodes : tt.color[m] = IF m = far THEN "black" ELSE t.color[m]
  BY PaintLinks DEF tt
<1>3. SameLinks(t, w1) /\ \A m \in Nodes : w1.color[m] = IF m = v THEN t.color[p] ELSE t.color[m]
  BY <1>1, PaintLinks DEF w1
<1>4. Whole(w1) /\ Members(w1) = Members(t)
  BY <1>3, SameLinksWhole
<1>5. SameLinks(w1, w2) /\ \A m \in Nodes : w2.color[m] = IF m = p THEN "black" ELSE w1.color[m]
  BY <1>4, PaintLinks DEF w2
<1>6. Whole(w2) /\ Members(w2) = Members(t)
  BY <1>4, <1>5, SameLinksWhole
<1>7. SameLinks(w2, w3) /\ \A m \in Nodes : w3.color[m] = IF m = far THEN "black" ELSE w2.color[m]
  BY <1>6, PaintLinks DEF w3
<1>8. /\ w3.root = tt.root /\ w3.kid = tt.kid /\ w3.parent = tt.parent /\ w3 \in TreeType
  BY <1>2, <1>3, <1>5, <1>7 DEF SameLinks
<1>9. \A m \in Nodes : w3.color[m] =
        IF m = p THEN tt.color[v] ELSE IF m = v THEN tt.color[p] ELSE tt.color[m]
  BY <1>1, <1>2, <1>3, <1>5, <1>7, ZenonT(30)
<1>10. Members(tt) = Members(t)
  BY <1>2, SameLinksWhole
<1>11. \A m \in Nodes \ Members(tt) : w3.color[m] = tt.color[m]
  BY <1>9, <1>10, Zenon
<1>12. Swapped(tt, w3, p, v)
  BY <1>8, <1>9, <1>11 DEF Swapped, SameLinks
<1>. QED
  BY <1>2, <1>12 DEF Blackened, tt, w3, w2, w1

\* The far kid of the sibling is red: it is painted black, the sibling goes up
\* with the colour of the parent, and every way is as long as the others.
LEMMA RemoveFarKid ==
  ASSUME NEW t, NEW p, NEW s, NEW h, ShortAt(t, p, s, h),
         NEW v, v = t.kid[p][Opposite(s)], ~IsRed(t, v),
         NEW far, far = t.kid[v][Opposite(s)], IsRed(t, far),
         NEW w, w = Paint(Paint(Paint(t, v, t.color[p]), p, "black"), far, "black")
  PROVE  LET u == Rotate(w, p, s)
         IN  Members(u) = Members(t) /\ \E hh : RemoveOk(u, u.root, Nil, hh)
<1>. DEFINE o  == Opposite(s)
            c  == t.kid[v][s]
            g  == t.parent[p]
            tt == Paint(t, far, "black")
            hh == [h EXCEPT ![p] = h[v], ![v] = h[p], ![far] = h[far] + 1]
<1>1. Whole(t) /\ Tidy(t, Nil, Nil) /\ Levels(t, h, p, s) /\ ~IsRed(t, t.kid[p][s])
  BY DEF ShortAt
<1>2. /\ v = t.kid[p][o] /\ o \in Sides /\ s \in Sides /\ o # s /\ Opposite(o) = s
      /\ \A j \in Sides : j = s \/ j = o
      /\ p \in Members(t) /\ v \in Members(t) /\ p # v
      /\ t.parent[v] = p /\ g # v /\ g # p
      /\ t.kid[p][s] # v /\ t.kid[p][s] # p
      /\ \A j \in Sides : t.kid[v][j] # v /\ t.kid[v][j] # p
      /\ Members(t) \subseteq Nodes /\ Nil \notin Nodes
  <2>1. Sibling(t, p, s, Opposite(s), t.kid[p][Opposite(s)])
    BY SiblingFacts
  <2>. QED
    BY <2>1 DEF Sibling
<1>3. /\ h \in [Nodes -> Nat] /\ h[p] = Height(h, t.kid[p][s]) + Weight(t, p) + 1
      /\ h[p] = h[v] + Weight(t, p) /\ Height(h, t.kid[p][s]) \in Nat
      /\ h[v] = Height(h, t.kid[p][s]) + 1
  BY SiblingFacts
<1>4. KidOf(t, v, o, far)
  <2>1. far # Nil
    BY DEF IsRed
  <2>. QED
    BY <2>1, <1>1, <1>2, KidOfFacts
<1>5. /\ far \in Members(t) /\ far # v /\ far # p /\ t.parent[far] = v
      /\ \A j \in Sides : t.kid[far][j] # far /\ t.kid[far][j] # v /\ t.kid[far][j] # p
  BY <1>2, <1>4, ZenonT(30) DEF KidOf
<1>a. /\ p \in Members(t) \cup {Nil} /\ v \in Members(t) \cup {Nil}
      /\ far \in Members(t) \cup {Nil} /\ p \in Nodes /\ v \in Nodes /\ far \in Nodes
      /\ p # v /\ p # far /\ v # far
  BY <1>2, <1>5, ZenonT(30)
<1>. HIDE DEF o, c, g, tt, hh
<1>6. Blackened(t, tt, far) /\ Swapped(tt, w, p, v)
  BY <1>1, <1>2, <1>5, PaintsSwap, ZenonT(30) DEF tt
<1>7. Whole(tt) /\ Members(tt) = Members(t)
      /\ tt.kid = t.kid /\ tt.parent = t.parent /\ tt.root = t.root
  BY <1>1, <1>6, SameLinksWhole DEF SameLinks, Blackened
<1>8. \A m \in Nodes : tt.color[m] = IF m = far THEN "black" ELSE t.color[m]
  BY <1>6, Zenon DEF Blackened
<1>9. PICK u : u = Rotate(w, p, s)
  OBVIOUS
<1>10. TurnedAt(tt, u, p, v, s, o)
  <2>0. p \in Nodes /\ s \in Sides /\ tt.kid[p][Opposite(s)] = v /\ v # Nil
    BY <1>2, <1>7, SMTT(30) DEF o
  <2>1. Turned(tt, u, p, s)
    BY <2>0, <1>6, <1>7, <1>9, TurnedFacts
  <2>2. TurnedAt(tt, u, p, tt.kid[p][Opposite(s)], s, Opposite(s))
    BY <2>1, TurnedAtFacts, SMTT(30)
  <2>. QED
    BY <2>0, <2>2 DEF o
<1>11. /\ Whole(u) /\ Members(u) = Members(t)
       /\ u.root = IF g = Nil THEN v ELSE t.root
       /\ \A m \in Nodes : u.parent[m] =
            IF m = p THEN v ELSE IF m = v THEN g ELSE IF m = c THEN p ELSE t.parent[m]
       /\ \A m \in Nodes, j \in Sides : u.kid[m][j] =
            IF m = p /\ j = o THEN c
            ELSE IF m = v /\ j = s THEN p
            ELSE IF m = g /\ t.kid[g][j] = p THEN v
            ELSE t.kid[m][j]
       /\ \A m \in Nodes : u.color[m] =
            IF m = p THEN tt.color[v] ELSE IF m = v THEN tt.color[p] ELSE tt.color[m]
  BY <1>7, <1>10 DEF TurnedAt, c, g
<1>12. \A m \in Nodes : u.color[m] =
         IF m = p \/ m = far THEN "black" ELSE IF m = v THEN t.color[p] ELSE t.color[m]
  <2>1. t.color[v] = "black"
    BY <1>1, <1>2 DEF Whole, TreeType, IsRed
  <2>. QED
    <3>1. tt.color[v] = "black" /\ tt.color[p] = t.color[p]
      BY <2>1, <1>a, <1>8
    <3>2. \A m \in Nodes : u.color[m] =
            IF m = p THEN tt.color[v] ELSE IF m = v THEN tt.color[p] ELSE tt.color[m]
      BY <1>11, ZenonT(30)
    <3>. QED
      BY <3>1, <3>2, <1>a, <1>8, ZenonT(30)
<1>13. c # v /\ c # p /\ c \in Nodes \cup {Nil} /\ (c # Nil => t.parent[c] = v)
       /\ c # far
  <2>1. v \in Nodes /\ s \in Sides
    BY <1>2, SMTT(30)
  <2>2. c \in Nodes \cup {Nil} /\ (c # Nil => t.parent[c] = v)
    BY <2>1, <1>1, LinkFacts DEF c
  <2>3. c # Nil => t.kid[v][Opposite(s)] # c
    BY <2>1, <1>1, LinkFacts DEF c
  <2>. QED
    BY <2>2, <2>3, <1>2, <1>5, Zenon DEF c
<1>14. /\ ~IsRed(u, p) /\ ~IsRed(u, far) /\ ~IsRed(u, Nil) /\ (IsRed(u, v) <=> IsRed(t, p))
       /\ \A m \in Nodes : m # p /\ m # far /\ m # v => (IsRed(u, m) <=> IsRed(t, m))
  BY <1>2, <1>5, <1>12, ZenonT(30) DEF IsRed
<1>15. Tidy(u, Nil, Nil)
  <2>. SUFFICES ASSUME NEW m \in Members(t), IsRed(u, m)
                PROVE  m # u.root /\ ~IsRed(u, u.parent[m])
    BY <1>11, SMTT(30) DEF Tidy
  <2>1. CASE m = v
    <3>1. p # t.root /\ ~IsRed(t, g) /\ g \in Members(t) \cup {Nil}
      BY <2>1, <1>1, <1>2, <1>14, TidyFacts, LinkFacts DEF g
    <3>2. g # Nil
      BY <3>1, <1>1, <1>2, LinkFacts DEF g
    <3>3. u.parent[v] = g /\ u.root = t.root
      BY <3>2, <1>2, <1>11
    <3>4. v # t.root
      BY <1>1, <1>2, LinkFacts
    <3>5. g # far
      <4>1. KidOf(t, p, o, v)
        BY <1>1, <1>2, <1>a, KidOfFacts
      <4>2. t.kid[v][o] = far /\ o \in Sides /\ far # Nil
        BY <1>2, <1>4, Zenon DEF KidOf, o
      <4>. QED
        BY <4>1, <4>2, ZenonT(30) DEF KidOf, g
    <3>. QED
      BY <2>1, <3>1, <3>3, <3>4, <3>5, <1>2, <1>14, SMTT(30)
  <2>2. CASE m # v
    <3>1. m # p /\ m # far /\ IsRed(t, m) /\ m \in Nodes
      BY <2>2, <1>2, <1>14
    <3>2. m # t.root /\ ~IsRed(t, t.parent[m]) /\ t.parent[m] \in Nodes \cup {Nil}
      BY <3>1, <1>1, TidyFacts, LinkFacts
    <3>3. m # u.root
      BY <2>2, <3>2, <1>11
    <3>4. CASE m = c
      BY <3>1, <3>3, <3>4, <2>2, <1>11, <1>14
    <3>5. CASE m # c
      <4>1. u.parent[m] = t.parent[m]
        BY <2>2, <3>1, <3>5, <1>11
      <4>2. t.parent[m] # v
        <5>1. t.parent[m] = v => \E j \in Sides : t.kid[v][j] = m
          BY <1>1, <1>2, LinkFacts
        <5>. QED
          BY <5>1, <3>1, <3>5, <1>2 DEF c, o
      <4>. QED
        BY <3>2, <3>3, <4>1, <4>2, <1>14
    <3>. QED BY <3>4, <3>5, SMTT(30)
  <2>. QED BY <2>1, <2>2
<1>16. Levels(u, hh, Nil, SideOf(u, Nil, u.root))
  <2>1. /\ hh \in [Nodes -> Nat] /\ hh[p] = h[v] /\ hh[v] = h[p] /\ hh[far] = h[far] + 1
        /\ \A m \in Nodes : m # p /\ m # v /\ m # far => hh[m] = h[m]
        /\ p \in Nodes /\ v \in Nodes /\ far \in Nodes
    <3>1. h[far] + 1 \in Nat /\ h[p] \in Nat /\ h[v] \in Nat
      BY <1>3, <1>a
    <3>. QED
      BY <3>1, <1>3, <1>a, ZenonT(30) DEF hh
  <2>2. /\ Weight(t, v) = 1 /\ Weight(t, far) = 0
        /\ Weight(u, p) = 1 /\ Weight(u, far) = 1 /\ Weight(u, v) = Weight(t, p)
        /\ \A m \in Nodes : m # p /\ m # v /\ m # far => Weight(u, m) = Weight(t, m)
        /\ \A m \in Nodes : Weight(t, m) \in {0, 1}
    BY <1>2, <1>5, <1>12, ZenonT(30) DEF Weight, IsRed
  <2>3. SUFFICES ASSUME NEW m \in Members(t), NEW j \in Sides
                 PROVE  hh[m] = Height(hh, u.kid[m][j]) + Weight(u, m)
    BY <1>11, <2>1, LevelsEven, ZenonT(30)
  <2>4. /\ t.kid[m][j] \in Nodes \cup {Nil} /\ m \in Nodes
        /\ (t.kid[m][j] # Nil => t.parent[t.kid[m][j]] = m)
    BY <1>1, <1>2, LinkFacts
  <2>5. ASSUME NEW x \in Members(t), NEW i \in Sides
        PROVE  /\ h[x] = Height(h, t.kid[x][i]) + Weight(t, x) + Short(x, i, p, s)
               /\ Height(h, t.kid[x][i]) \in Nat
    <3>1. t.kid[x][i] \in Nodes \cup {Nil}
      BY <1>1, <1>2, LinkFacts, SMTT(30)
    <3>. QED
      BY <3>1, <1>1, <1>3, HeightFacts DEF Levels
  <2>6. \A x \in Nodes \cup {Nil} : x # p /\ x # v /\ x # far =>
          Height(hh, x) = Height(h, x)
    BY <2>1 DEF Height
  <2>7. h[v] = Height(h, c) + 1 /\ h[v] = h[far] + 1 /\ Height(h, c) \in Nat /\ h[far] \in Nat
    <3>1. Short(v, s, p, s) = 0 /\ Short(v, o, p, s) = 0
      BY <1>2 DEF Short
    <3>2. t.kid[v][s] = c /\ t.kid[v][o] = far
      BY DEF c, o
    <3>3. Height(h, far) = h[far]
      BY <2>1, <1>2, ZenonT(30) DEF Height
    <3>. QED
      <4>1. /\ h[v] = Height(h, t.kid[v][s]) + Weight(t, v) + Short(v, s, p, s)
            /\ h[v] = Height(h, t.kid[v][o]) + Weight(t, v) + Short(v, o, p, s)
            /\ Height(h, t.kid[v][s]) \in Nat /\ Height(h, t.kid[v][o]) \in Nat
        BY <2>5, <1>2
      <4>2. h[v] = Height(h, c) + 1 + 0 /\ Height(h, c) \in Nat
        BY <4>1, <3>1, <3>2, <2>2
      <4>3. h[v] = Height(h, far) + 1 + 0 /\ Height(h, far) \in Nat
        BY <4>1, <3>1, <3>2, <2>2
      <4>. QED
        BY <4>2, <4>3, <3>3
  <2>8. CASE m = p /\ j = o
    <3>1. u.kid[m][j] = c /\ Height(hh, c) = Height(h, c)
      BY <2>1, <2>6, <2>8, <1>2, <1>11, <1>13, ZenonT(30)
    <3>. QED
      BY <3>1, <2>1, <2>2, <2>7, <2>8, ZenonT(30)
  <2>9. CASE m = p /\ j = s
    <3>1. u.kid[m][j] = t.kid[p][s]
      BY <2>1, <2>9, <1>2, <1>11, ZenonT(30)
    <3>2. t.kid[p][s] # far
      BY <2>4, <2>9, <1>2, <1>5, ZenonT(30)
    <3>3. Height(hh, t.kid[p][s]) = Height(h, t.kid[p][s])
      BY <3>2, <2>4, <2>6, <2>9, <1>2
    <3>. QED
      BY <3>1, <3>3, <2>1, <2>2, <2>9, <1>3, ZenonT(30)
  <2>10. CASE m = v /\ j = s
    <3>1. u.kid[m][j] = p /\ Height(hh, p) = h[v]
      BY <2>1, <2>10, <1>2, <1>11, Zenon DEF Height
    <3>. QED
      BY <3>1, <2>1, <2>2, <2>10, <1>3, ZenonT(30)
  <2>11. CASE m = v /\ j = o
    <3>1. u.kid[m][j] = far /\ Height(hh, far) = h[far] + 1
      <4>1. t.kid[v][o] = far
        BY DEF o
      <4>. QED
        BY <4>1, <2>1, <2>11, <1>2, <1>11, ZenonT(30) DEF Height
    <3>. QED
      BY <3>1, <2>1, <2>2, <2>7, <2>11, <1>3, ZenonT(30)
  <2>12. CASE m # p /\ m # v /\ t.kid[m][j] = p
    <3>1. m = g
      BY <2>4, <2>12, <1>2 DEF g
    <3>2. u.kid[m][j] = v /\ m # far
      BY <2>4, <2>12, <3>1, <1>5, <1>11, ZenonT(30)
    <3>3. Height(hh, v) = h[p] /\ Height(h, p) = h[p] /\ Short(m, j, p, s) = 0
      BY <2>1, <2>12, <1>2, Zenon DEF Height, Short
    <3>. QED
      <4>1. h[m] = h[p] + Weight(t, m) + 0 /\ h[p] \in Nat /\ Weight(t, m) \in {0, 1}
        BY <3>3, <2>2, <2>4, <2>5, <2>12
      <4>2. hh[m] = h[m] /\ Weight(u, m) = Weight(t, m)
        BY <3>2, <2>1, <2>2, <2>4, <2>12, ZenonT(30)
      <4>. QED
        BY <3>2, <3>3, <4>1, <4>2
  <2>13. CASE m # p /\ m # v /\ t.kid[m][j] # p
    <3>1. u.kid[m][j] = t.kid[m][j]
      BY <2>4, <2>13, <1>11
    <3>2. t.kid[m][j] # v /\ t.kid[m][j] # far
      BY <2>4, <2>13, <1>2, <1>5, Zenon
    <3>3. Height(hh, t.kid[m][j]) = Height(h, t.kid[m][j]) /\ Short(m, j, p, s) = 0
      BY <2>4, <2>6, <2>13, <3>2 DEF Short
    <3>4. h[m] = Height(h, t.kid[m][j]) + Weight(t, m)
      BY <2>2, <2>4, <2>5, <3>3
    <3>5. CASE m = far
      <4>1. Height(h, t.kid[m][j]) \in Nat
        BY <2>5
      <4>2. hh[m] = h[m] + 1 /\ Weight(t, m) = 0 /\ Weight(u, m) = 1
        BY <3>5, <2>1, <2>2, ZenonT(30)
      <4>. QED
        BY <3>1, <3>3, <3>4, <4>1, <4>2
    <3>6. CASE m # far
      BY <3>1, <3>3, <3>4, <3>6, <2>1, <2>2, <2>4, <2>13, ZenonT(30)
    <3>. QED BY <3>5, <3>6
  <2>. QED
    BY <2>8, <2>9, <2>10, <2>11, <2>12, <2>13, <1>2
<1>17. RemoveOk(u, u.root, Nil, hh)
  BY <1>11, <1>15, <1>16, TidyFacts, LinkFacts DEF RemoveOk
<1>. QED
  BY <1>9, <1>11, <1>17, Zenon

LEMMA RemoveRoundFacts ==
  ASSUME NEW t, NEW n, NEW p, NEW h, RemoveOk(t, n, p, h), ~IsRed(t, n), n # t.root
  PROVE  LET r == RemoveRound(t, p, n)
         IN  Members(r.tree) = Members(t) /\ \E hh : RemoveOk(r.tree, r.at, r.parent, hh)
<1>. DEFINE s    == SideOf(t, p, n)
            o    == Opposite(s)
            sib  == t.kid[p][o]
            t1   == IF t.color[sib] = "red" THEN Rotate(BlackRed(t, sib, p), p, s) ELSE t
            w    == t1.kid[p][o]
            near == t1.kid[w][s]
            far  == t1.kid[w][o]
            t2   == IF IsRed(t1, far) THEN t1
                    ELSE Rotate(Paint(Paint(t1, near, "black"), w, "red"), w, o)
            v    == t2.kid[p][o]
            t3   == Paint(Paint(Paint(t2, v, t2.color[p]), p, "black"), t2.kid[v][o], "black")
            done == Rotate(t3, p, s)
<1>1. RemoveRound(t, p, n) =
        IF ~IsRed(t1, near) /\ ~IsRed(t1, far)
        THEN [tree |-> Paint(t1, w, "red"), parent |-> t1.parent[p], at |-> p]
        ELSE [tree |-> done, parent |-> Nil, at |-> done.root]
  BY Zenon DEF RemoveRound
<1>. HIDE DEF s, o, sib, t1, w, near, far, t2, v, t3, done
<1>2. s \in Sides /\ o = Opposite(s)
  BY DEF s, o, SideOf, Sides
<1>3. ShortAt(t, p, s, h)
  <2>1. p # Nil
    BY DEF RemoveOk
  <2>2. Whole(t) /\ p \in Members(t) /\ t.kid[p][s] = n /\ Tidy(t, n, n) /\ Levels(t, h, p, s)
    BY <2>1 DEF RemoveOk, s
  <2>3. Tidy(t, Nil, Nil)
    BY <2>2 DEF Tidy
  <2>. QED
    BY <2>2, <2>3, <1>2 DEF ShortAt
<1>4. /\ Members(t1) = Members(t) /\ \E hh : ShortAt(t1, p, s, hh)
      /\ ~IsRed(t1, w)
  <2>1. CASE t.color[sib] = "red"
    <3>1. t1 = Rotate(BlackRed(t, sib, p), p, s)
      BY <2>1 DEF t1
    <3>2. sib = t.kid[p][Opposite(s)]
      BY DEF sib, o
    <3>3. /\ Members(t1) = Members(t) /\ \E hh : ShortAt(t1, p, s, hh)
          /\ ~IsRed(t1, t1.kid[p][Opposite(s)])
      BY <1>3, <2>1, <3>1, <3>2, RemoveRedSibling
    <3>. QED
      BY <3>3 DEF w, o
  <2>2. CASE t.color[sib] # "red"
    <3>1. t1 = t /\ w = sib
      BY <2>2 DEF t1, w, sib
    <3>. QED
      BY <1>3, <2>2, <3>1 DEF IsRed
  <2>. QED BY <2>1, <2>2
<1>5. PICK h1 : ShortAt(t1, p, s, h1)
  BY <1>4
<1>6. CASE ~IsRed(t1, near) /\ ~IsRed(t1, far)
  <2>1. \A j \in Sides : ~IsRed(t1, t1.kid[w][j])
    BY <1>2, <1>6, SidesFacts DEF near, far
  <2>2. PICK u : u = Paint(t1, w, "red")
    OBVIOUS
  <2>3. w = t1.kid[p][Opposite(s)]
    BY <1>2 DEF w
  <2>4. Members(u) = Members(t1) /\ \E hh : RemoveOk(u, p, t1.parent[p], hh)
    BY <1>4, <1>5, <2>1, <2>2, <2>3, RemoveRecolour
  <2>5. RemoveRound(t, p, n) = [tree |-> u, parent |-> t1.parent[p], at |-> p]
    BY <1>1, <1>6, <2>2
  <2>. QED
    BY <1>4, <2>4, <2>5
<1>7. CASE IsRed(t1, near) \/ IsRed(t1, far)
  <2>1. /\ Members(t2) = Members(t1) /\ \E hh : ShortAt(t2, p, s, hh)
        /\ ~IsRed(t2, v) /\ IsRed(t2, t2.kid[v][o])
    <3>1. CASE IsRed(t1, far)
      <4>1. t2 = t1 /\ v = w
        BY <3>1 DEF t2, v, w
      <4>. QED
        BY <4>1, <3>1, <1>4 DEF far
    <3>2. CASE ~IsRed(t1, far)
      <4>1. t2 = Rotate(Paint(Paint(t1, near, "black"), w, "red"), w, Opposite(s))
        BY <3>2, <1>2 DEF t2
      <4>2. /\ w = t1.kid[p][Opposite(s)] /\ near = t1.kid[w][s] /\ IsRed(t1, near)
            /\ ~IsRed(t1, t1.kid[w][Opposite(s)])
        BY <3>2, <1>7, <1>2 DEF w, near, far
      <4>3. /\ Members(t2) = Members(t1) /\ \E hh : ShortAt(t2, p, s, hh)
            /\ ~IsRed(t2, t2.kid[p][Opposite(s)])
            /\ IsRed(t2, t2.kid[t2.kid[p][Opposite(s)]][Opposite(s)])
        <5>1. ~IsRed(t1, w)
          BY <1>4
        <5>2. \A u : u = Rotate(Paint(Paint(t1, near, "black"), w, "red"), w, Opposite(s)) =>
                /\ Members(u) = Members(t1) /\ \E hh : ShortAt(u, p, s, hh)
                /\ ~IsRed(u, u.kid[p][Opposite(s)])
                /\ IsRed(u, u.kid[u.kid[p][Opposite(s)]][Opposite(s)])
          BY ZenonT(30), <5>1, <1>5, <4>2, RemoveNearKid
        <5>. QED
          BY <4>1, <5>2
      <4>. QED
        BY <4>3, <1>2 DEF v
    <3>. QED BY <3>1, <3>2
  <2>2. PICK h2 : ShortAt(t2, p, s, h2)
    BY <2>1
  <2>3. v = t2.kid[p][Opposite(s)] /\ IsRed(t2, t2.kid[v][Opposite(s)])
    BY <1>2, <2>1 DEF v
  <2>4. t3 = Paint(Paint(Paint(t2, v, t2.color[p]), p, "black"), t2.kid[v][Opposite(s)], "black")
    BY <1>2 DEF t3
  <2>5. Members(done) = Members(t2) /\ \E hh : RemoveOk(done, done.root, Nil, hh)
    BY <2>1, <2>2, <2>3, <2>4, RemoveFarKid DEF done
  <2>6. RemoveRound(t, p, n) = [tree |-> done, parent |-> Nil, at |-> done.root]
    BY <1>1, <1>7
  <2>. QED
    BY <1>4, <2>1, <2>5, <2>6
<1>. QED
  BY <1>6, <1>7

-----------------------------------------------------------------------------
(***************************************************************************)
(* The ends of the recolouring loops.                                      *)
(***************************************************************************)

\* A red-black tree.
Even(t, h) == Whole(t) /\ Tidy(t, Nil, Nil) /\ Levels(t, h, Nil, "left")

LEMMA RootOfMembers ==
  ASSUME NEW t, Whole(t)
  PROVE  t.root = Nil <=> Members(t) = {}
<1>1. {} \in SUBSET Members(t) /\ Closed(t, {})
  BY DEF Closed
<1>2. t.root = Nil => Members(t) = {}
  BY <1>1, Reached
<1>. QED
  BY <1>2, LinkFacts

LEMMA PaintRootLevels ==
  ASSUME NEW t, Whole(t), t.root # Nil, NEW h, Levels(t, h, Nil, "left"),
         NEW u, u = Paint(t, t.root, "black")
  PROVE  /\ SameLinks(t, u) /\ Whole(u) /\ Members(u) = Members(t)
         /\ \A m \in Nodes : u.color[m] = IF m = t.root THEN "black" ELSE t.color[m]
         /\ \E hh : Levels(u, hh, Nil, "left")
<1>. DEFINE r  == t.root
            hh == [h EXCEPT ![r] = h[r] + (1 - Weight(t, r))]
<1>1. r \in Members(t) /\ r \in Nodes /\ Nil \notin Nodes /\ Members(t) \subseteq Nodes
  BY LinkFacts, NilAssumption
<1>2. SameLinks(t, u) /\ \A m \in Nodes : u.color[m] = IF m = r THEN "black" ELSE t.color[m]
  BY <1>1, PaintLinks
<1>3. Whole(u) /\ Members(u) = Members(t) /\ u.kid = t.kid
  BY <1>2, SameLinksWhole DEF SameLinks
<1>4. /\ h \in [Nodes -> Nat]
      /\ \A n \in Members(t), j \in Sides :
           h[n] = Height(h, t.kid[n][j]) + Weight(t, n)
  BY LevelsEven
<1>5. \A n \in Members(t), j \in Sides : t.kid[n][j] # r /\ t.kid[n][j] \in Nodes \cup {Nil}
  BY <1>1, LinkFacts
<1>6. /\ \A n \in Nodes : Weight(t, n) \in {0, 1}
      /\ Weight(u, r) = 1 /\ \A n \in Nodes : n # r => Weight(u, n) = Weight(t, n)
  BY <1>1, <1>2 DEF Weight
<1>. HIDE DEF r
<1>7. /\ hh \in [Nodes -> Nat] /\ hh[r] = h[r] + (1 - Weight(t, r))
      /\ \A n \in Nodes : n # r => hh[n] = h[n]
  <2>1. h[r] + (1 - Weight(t, r)) \in Nat
    BY <1>1, <1>4, <1>6
  <2>. QED
    BY <2>1, <1>1, <1>4
<1>. HIDE DEF hh
<1>8. ASSUME NEW n \in Members(t), NEW j \in Sides
      PROVE  hh[n] = Height(hh, t.kid[n][j]) + Weight(u, n)
  <2>1. Height(hh, t.kid[n][j]) = Height(h, t.kid[n][j]) /\ Height(h, t.kid[n][j]) \in Nat
    BY <1>4, <1>5, <1>7 DEF Height
  <2>2. h[n] = Height(h, t.kid[n][j]) + Weight(t, n)
    BY <1>4
  <2>3. CASE n = r
    BY <2>1, <2>2, <2>3, <1>1, <1>6, <1>7
  <2>4. CASE n # r
    BY <2>1, <2>2, <2>4, <1>1, <1>6, <1>7
  <2>. QED BY <2>3, <2>4
<1>9. Levels(u, hh, Nil, "left")
  BY <1>3, <1>7, <1>8, LevelsEven
<1>. QED
  BY <1>2, <1>3, <1>9 DEF r

LEMMA InsertEndFacts ==
  ASSUME NEW t, NEW n, NEW h, InsertOk(t, n, h), ~IsRed(t, t.parent[n])
  PROVE  LET u == Paint(t, t.root, "black")
         IN  Members(u) = Members(t) /\ \E hh : Even(u, hh)
<1>1. Whole(t) /\ t.root # Nil /\ Levels(t, h, Nil, "left") /\ Members(t) \subseteq Nodes
  BY RootOfMembers, LinkFacts DEF InsertOk
<1>2. PICK u : u = Paint(t, t.root, "black")
  OBVIOUS
<1>3. /\ SameLinks(t, u) /\ Whole(u) /\ Members(u) = Members(t)
      /\ \A m \in Nodes : u.color[m] = IF m = t.root THEN "black" ELSE t.color[m]
      /\ \E hh : Levels(u, hh, Nil, "left")
  BY <1>1, <1>2, PaintRootLevels
<1>4. u.root = t.root /\ u.parent = t.parent
  BY <1>3 DEF SameLinks
<1>5. \A m \in Nodes \cup {Nil} : IsRed(u, m) => IsRed(t, m) /\ m # t.root
  BY <1>3 DEF IsRed
<1>6. Tidy(u, Nil, Nil)
  <2>. SUFFICES ASSUME NEW m \in Members(t), IsRed(u, m)
                PROVE  m # t.root /\ ~IsRed(u, t.parent[m])
    BY <1>3, <1>4 DEF Tidy
  <2>1. IsRed(t, m) /\ m # t.root /\ t.parent[m] \in Nodes \cup {Nil}
    BY <1>1, <1>5, LinkFacts
  <2>2. ~IsRed(t, t.parent[m])
    <3>1. IsRed(t, m) /\ m # n => (IsRed(t, t.parent[m]) => t.parent[m] = Nil)
      BY DEF InsertOk, Tidy
    <3>. QED
      BY <2>1, <3>1 DEF IsRed
  <2>. QED
    BY <2>1, <2>2, <1>5
<1>. QED
  BY <1>2, <1>3, <1>6 DEF Even

LEMMA RemoveEndFacts ==
  ASSUME NEW t, NEW n, NEW p, NEW h, RemoveOk(t, n, p, h), IsRed(t, n) \/ n = t.root
  PROVE  LET u == Paint(t, n, "black")
         IN  Members(u) = Members(t) /\ \E hh : Even(u, hh)
<1>1. /\ Whole(t) /\ n \in Members(t) \cup {Nil} /\ p \in Members(t) \cup {Nil}
      /\ Tidy(t, n, n) /\ Members(t) \subseteq Nodes /\ Nil \notin Nodes
  BY LinkFacts, NilAssumption DEF RemoveOk
<1>2. PICK u : u = Paint(t, n, "black")
  OBVIOUS
<1>3. SameLinks(t, u) /\ \A m \in Nodes : u.color[m] = IF m = n THEN "black" ELSE t.color[m]
  BY <1>1, <1>2, PaintLinks
<1>4. /\ Whole(u) /\ Members(u) = Members(t)
      /\ u.root = t.root /\ u.parent = t.parent /\ u.kid = t.kid
  BY <1>1, <1>3, SameLinksWhole DEF SameLinks
<1>5. \A m \in Nodes \cup {Nil} : IsRed(u, m) => IsRed(t, m) /\ m # n
  BY <1>3 DEF IsRed
<1>6. Tidy(u, Nil, Nil)
  <2>. SUFFICES ASSUME NEW m \in Members(t), IsRed(u, m)
                PROVE  m # t.root /\ ~IsRed(u, t.parent[m])
    BY <1>4 DEF Tidy
  <2>1. IsRed(t, m) /\ m # n /\ t.parent[m] \in Nodes \cup {Nil}
    BY <1>1, <1>5, LinkFacts
  <2>2. m # t.root /\ (IsRed(t, t.parent[m]) => t.parent[m] = n)
    BY <2>1, <1>1 DEF Tidy
  <2>. QED
    BY <2>1, <2>2, <1>5
<1>7. CASE n = t.root
  <2>1. p = Nil
    <3>. SUFFICES ASSUME p # Nil PROVE FALSE
      OBVIOUS
    <3>1. p \in Members(t) /\ p \in Nodes /\ t.kid[p][SideOf(t, p, n)] = n
          /\ SideOf(t, p, n) \in Sides
      BY <1>1 DEF RemoveOk, SideOf, Sides
    <3>2. t.root # Nil
      BY <3>1, <1>1, RootOfMembers
    <3>. QED
      BY <3>1, <3>2, <1>1, <1>7, LinkFacts
  <2>2. Levels(t, h, Nil, "left")
    <3>1. Levels(t, h, Nil, SideOf(t, p, n))
      BY <2>1 DEF RemoveOk
    <3>. QED
      BY <3>1, <1>1, LevelsEven
  <2>3. CASE n = Nil
    <3>1. u = t
      BY <2>3, <1>2 DEF Paint
    <3>. QED
      BY <3>1, <2>2, <1>2, <1>4, <1>6 DEF Even
  <2>4. CASE n # Nil
    <3>1. \E hh : Levels(u, hh, Nil, "left")
      BY <2>2, <2>4, <1>1, <1>2, <1>7, PaintRootLevels
    <3>. QED
      BY <3>1, <1>2, <1>4, <1>6 DEF Even
  <2>. QED BY <2>3, <2>4
<1>8. CASE IsRed(t, n) /\ n # t.root
  <2>. DEFINE s  == SideOf(t, p, n)
              hh == [h EXCEPT ![n] = h[n] + 1]
  <2>1. /\ n # Nil /\ n \in Members(t) /\ n \in Nodes /\ p # Nil /\ p \in Members(t)
        /\ t.kid[p][s] = n /\ s \in Sides
        /\ Levels(t, h, p, s)
    BY <1>1, <1>8 DEF RemoveOk, IsRed, SideOf, Sides
  <2>. HIDE DEF s
  <2>2. /\ h \in [Nodes -> Nat] /\ \A m \in Members(t), j \in Sides :
             h[m] = Height(h, t.kid[m][j]) + Weight(t, m) + Short(m, j, p, s)
    BY <2>1 DEF Levels
  <2>3. /\ hh \in [Nodes -> Nat] /\ hh[n] = h[n] + 1
        /\ \A m \in Nodes : m # n => hh[m] = h[m]
    <3>1. h[n] + 1 \in Nat
      BY <2>1, <2>2
    <3>. QED
      BY <3>1, <2>1, <2>2
  <2>. HIDE DEF hh
  <2>4. /\ Weight(t, n) = 0 /\ Weight(u, n) = 1
        /\ \A m \in Nodes : m # n => Weight(u, m) = Weight(t, m)
        /\ \A m \in Nodes : Weight(t, m) \in {0, 1}
    BY <2>1, <1>3, <1>8 DEF IsRed, Weight
  <2>5. ASSUME NEW m \in Members(t), NEW j \in Sides
        PROVE  hh[m] = Height(hh, t.kid[m][j]) + Weight(u, m)
    <3>1. /\ m \in Nodes /\ t.kid[m][j] \in Nodes \cup {Nil}
          /\ (t.kid[m][j] # Nil => t.parent[t.kid[m][j]] = m)
          /\ t.parent[n] = p /\ t.kid[p][Opposite(s)] # n
          /\ t.kid[n][j] # n
      <4>1. t.parent[n] = p /\ t.kid[p][Opposite(s)] # n /\ p \in Nodes
        BY <2>1, <1>1, LinkFacts
      <4>2. t.kid[n][j] # n
        BY <2>1, <1>1, BelowFacts, LinkFacts
      <4>. QED
        BY <4>1, <4>2, <1>1, LinkFacts
    <3>2. h[m] = Height(h, t.kid[m][j]) + Weight(t, m) + Short(m, j, p, s)
          /\ Height(h, t.kid[m][j]) \in Nat
      BY <2>2, <3>1 DEF Height
    <3>3. CASE m = p /\ j = s
      <4>1. Short(m, j, p, s) = 1 /\ Height(hh, n) = h[n] + 1 /\ Height(h, n) = h[n]
            /\ p # n /\ h[n] \in Nat
        BY <2>1, <2>2, <2>3, <3>1, <3>3 DEF Short, Height
      <4>2. hh[m] = h[m] /\ Weight(u, m) = Weight(t, m) /\ Weight(t, m) \in {0, 1}
        BY <2>3, <2>4, <3>1, <3>3, <4>1
      <4>. QED
        BY <4>1, <4>2, <2>1, <3>2, <3>3
    <3>4. CASE ~(m = p /\ j = s)
      <4>1. Short(m, j, p, s) = 0
        BY <3>4 DEF Short
      <4>2. t.kid[m][j] # n
        BY <2>1, <3>1, <3>4, SidesFacts
      <4>3. Height(hh, t.kid[m][j]) = Height(h, t.kid[m][j])
        BY <4>2, <2>3, <3>1 DEF Height
      <4>4. h[m] = Height(h, t.kid[m][j]) + Weight(t, m)
        BY <4>1, <2>4, <3>1, <3>2
      <4>5. CASE m = n
        BY <4>3, <4>4, <4>5, <2>3, <2>4, <3>2
      <4>6. CASE m # n
        BY <4>3, <4>4, <4>6, <2>3, <2>4, <3>1
      <4>. QED BY <4>5, <4>6
    <3>. QED BY <3>3, <3>4
  <2>6. Levels(u, hh, Nil, "left")
    BY <1>4, <2>3, <2>5, LevelsEven
  <2>. QED
    BY <1>2, <1>4, <1>6, <2>6 DEF Even
<1>. QED
  BY <1>7, <1>8

-----------------------------------------------------------------------------
(***************************************************************************)
(* Linking and unlinking, and the colours.                                 *)
(***************************************************************************)

\* A red node hung into a red-black tree is all that may be wrong with it.
LEMMA LinkColours ==
  ASSUME NEW t, NEW h, Even(t, h), NEW n, NEW p, NEW s, Room(t, n, p, s),
         NEW u, LinkedAt(t, u, n, p, s)
  PROVE  \E hh : InsertOk(u, n, hh)
<1>. DEFINE hh == [h EXCEPT ![n] = 0]
<1>1. /\ Whole(t) /\ Tidy(t, Nil, Nil) /\ h \in [Nodes -> Nat]
      /\ \A m \in Members(t), j \in Sides :
           h[m] = Height(h, t.kid[m][j]) + Weight(t, m)
  BY LevelsEven DEF Even
<1>2. Whole(u) /\ Members(u) = Members(t) \cup {n}
  BY <1>1, LinkedAtWhole
<1>3. /\ n \in Nodes /\ n \notin Members(t) /\ s \in Sides
      /\ p \in Members(t) \cup {Nil} /\ n # p /\ n # Nil
      /\ (p # Nil => t.kid[p][s] = Nil) /\ t.color[n] = "red" /\ t.kid[n] = NoKids
      /\ Members(t) \subseteq Nodes /\ Nil \notin Members(t)
      /\ (p = Nil => t.root = Nil)
  BY <1>1, LinkFacts, NilAssumption DEF Room, Whole, Outside
<1>4. /\ u.root = IF p = Nil THEN n ELSE t.root
      /\ \A m \in Nodes : u.parent[m] = IF m = n THEN p ELSE t.parent[m]
      /\ \A m \in Nodes : u.color[m] = t.color[m]
      /\ \A m \in Nodes, k \in Sides :
           u.kid[m][k] = IF m = p /\ k = s THEN n ELSE t.kid[m][k]
  BY DEF LinkedAt
<1>5. hh \in [Nodes -> Nat] /\ hh[n] = 0 /\ \A m \in Nodes : m # n => hh[m] = h[m]
  BY <1>1, <1>3
<1>. HIDE DEF hh
<1>6. \A m \in Nodes \cup {Nil} : IsRed(u, m) <=> IsRed(t, m)
  BY <1>4, Zenon DEF IsRed
<1>7. IsRed(u, n)
  BY <1>3, <1>4 DEF IsRed
<1>8. Tidy(u, n, Nil)
  <2>. SUFFICES ASSUME NEW m \in Members(t), IsRed(u, m)
                PROVE  m # u.root /\ ~IsRed(u, u.parent[m])
    BY <1>2 DEF Tidy
  <2>1. m \in Nodes /\ m # n /\ IsRed(t, m) /\ u.parent[m] = t.parent[m]
    BY <1>3, <1>4, <1>6
  <2>2. m # t.root /\ ~IsRed(t, t.parent[m])
    BY <2>1, <1>1, TidyFacts
  <2>3. t.parent[m] \in Nodes \cup {Nil}
    BY <2>1, <1>1 DEF Whole, TreeType
  <2>. QED
    BY <2>1, <2>2, <2>3, <1>4, <1>6
<1>9. ASSUME NEW m \in Members(u), NEW j \in Sides
      PROVE  hh[m] = Height(hh, u.kid[m][j]) + Weight(u, m)
  <2>1. CASE m = n
    <3>1. u.kid[m][j] = Nil
      BY <2>1, <1>3, <1>4, SidesFacts
    <3>2. Weight(u, m) = 0
      BY <2>1, <1>3, <1>4 DEF Weight
    <3>3. Height(hh, u.kid[m][j]) = 0
      BY <3>1 DEF Height
    <3>. QED
      BY <2>1, <3>2, <3>3, <1>5
  <2>2. CASE m # n
    <3>1. m \in Members(t) /\ m \in Nodes /\ hh[m] = h[m] /\ t.kid[m][j] \in Members(t) \cup {Nil}
      BY <2>2, <1>1, <1>2, <1>3, <1>5, LinkFacts
    <3>2. Weight(u, m) = Weight(t, m)
      BY <3>1, <1>4 DEF Weight
    <3>3. Height(hh, u.kid[m][j]) = Height(h, t.kid[m][j])
      <4>1. CASE m = p /\ j = s
        <5>1. u.kid[m][j] = n /\ t.kid[m][j] = Nil
          BY <4>1, <3>1, <1>3, <1>4
        <5>. QED
          BY <5>1, <1>3, <1>5 DEF Height
      <4>2. CASE ~(m = p /\ j = s)
        <5>1. u.kid[m][j] = t.kid[m][j] /\ t.kid[m][j] # n
          BY <4>2, <3>1, <1>3, <1>4
        <5>. QED
          BY <5>1, <3>1, <1>3, <1>5 DEF Height
      <4>. QED BY <4>1, <4>2
    <3>. QED
      BY <3>1, <3>2, <3>3, <1>1
  <2>. QED BY <2>1, <2>2
<1>10. Levels(u, hh, Nil, "left")
  BY <1>2, <1>5, <1>9, LevelsEven
<1>. QED
  BY <1>2, <1>7, <1>8, <1>10 DEF InsertOk

\* u is t without n, whose kid c went up to its parent g.
WithoutThin(t, u, n, c, g) ==
  /\ Whole(u) /\ Members(u) = Members(t) \ {n}
  /\ u.root = IF g = Nil THEN c ELSE t.root
  /\ \A m \in Nodes : u.color[m] = IF m = n THEN "red" ELSE t.color[m]
  /\ \A m \in Members(u) : u.parent[m] = IF m = c THEN g ELSE t.parent[m]
  /\ \A m \in Members(u), k \in Sides :
       u.kid[m][k] = IF t.kid[m][k] = n THEN c ELSE t.kid[m][k]
  /\ \A m \in Members(u) : m # c => t.parent[m] # n

LEMMA WithoutThinFacts ==
  ASSUME NEW t, Whole(t), NEW n, Thin(t, n)
  PROVE  WithoutThin(t, SplicedOut(t, n), n, OnlyKid(t, n), t.parent[n])
<1>. DEFINE w == Splice(t, n)
            u == SplicedOut(t, n)
            c == OnlyKid(t, n)
            g == t.parent[n]
<1>. HIDE DEF w, u, c, g
<1>1. /\ Whole(u) /\ Members(u) = Members(t) \ {n}
      /\ Spliced(t, w, n) /\ Forgotten(w, u, n)
  BY SplicedOutFacts DEF u, w
<1>2. /\ w.root = IF g = Nil THEN c ELSE t.root
      /\ w.color = t.color
      /\ \A m \in Nodes : w.parent[m] = IF m = c THEN g ELSE t.parent[m]
      /\ \A m \in Nodes, k \in Sides :
           w.kid[m][k] = IF m = g /\ t.kid[g][k] = n THEN c ELSE t.kid[m][k]
  BY <1>1 DEF Spliced, c, g
<1>3. /\ u.root = w.root
      /\ \A m \in Nodes : u.parent[m] = IF m = n THEN Nil ELSE w.parent[m]
      /\ \A m \in Nodes : u.kid[m] = IF m = n THEN NoKids ELSE w.kid[m]
      /\ \A m \in Nodes : u.color[m] = IF m = n THEN "red" ELSE w.color[m]
  BY <1>1 DEF Forgotten
<1>4. n \in Members(t) /\ Members(t) \subseteq Nodes /\ Nil \notin Nodes
  BY LinkFacts, NilAssumption DEF Thin
<1>5. \A m \in Members(t), k \in Sides : t.kid[m][k] = n => m = g
  BY <1>4, LinkFacts DEF g
<1>6. ASSUME NEW m \in Members(t), t.parent[m] = n
      PROVE  m = c
  <2>1. PICK k \in Sides : t.kid[n][k] = m
    BY <1>4, <1>6, LinkFacts
  <2>2. t.kid[n][k] = c \/ t.kid[n][k] = Nil
    BY <2>1, OnlyKidFacts DEF c
  <2>. QED
    BY <2>1, <2>2, <1>4
<1>7. WithoutThin(t, u, n, c, g)
  BY <1>1, <1>2, <1>3, <1>4, <1>5, <1>6 DEF WithoutThin
<1>. QED
  BY <1>7 DEF u, c, g

\* A node taken out at the end of a way: if it was red nothing is wrong, and if
\* it was black its place is one short.
LEMMA SpliceColours ==
  ASSUME NEW t, NEW h, Even(t, h), NEW n, Thin(t, n)
  PROVE  LET u == SplicedOut(t, n)
         IN  /\ t.color[n] = "red" => Even(u, h)
             /\ t.color[n] # "red" => RemoveOk(u, OnlyKid(t, n), t.parent[n], h)
<1>. DEFINE u == SplicedOut(t, n)
            c == OnlyKid(t, n)
            g == t.parent[n]
<1>1. /\ Whole(t) /\ Tidy(t, Nil, Nil) /\ h \in [Nodes -> Nat]
      /\ \A m \in Members(t), j \in Sides :
           h[m] = Height(h, t.kid[m][j]) + Weight(t, m)
  BY LevelsEven DEF Even
<1>2. WithoutThin(t, u, n, c, g)
  BY <1>1, WithoutThinFacts
<1>3. /\ n \in Members(t) /\ n \in Nodes /\ n # Nil
      /\ c \in Members(t) \cup {Nil} /\ c # n /\ (c # Nil => t.parent[c] = n /\ c # g)
      /\ \E s \in Sides : t.kid[n][s] = c /\ t.kid[n][Opposite(s)] = Nil
      /\ g \in Members(t) \cup {Nil} /\ g # n
      /\ Members(t) \subseteq Nodes /\ Nil \notin Nodes
      /\ (g = Nil <=> n = t.root)
  <2>1. n \in Members(t) /\ Members(t) \subseteq Nodes /\ Nil \notin Nodes
    BY <1>1, LinkFacts, NilAssumption DEF Thin
  <2>2. /\ c \in Members(t) \cup {Nil} /\ c # n /\ (c # Nil => t.parent[c] = n /\ c # g)
        /\ \E s \in Sides : t.kid[n][s] = c /\ t.kid[n][Opposite(s)] = Nil
    BY <1>1, OnlyKidFacts
  <2>3. g \in Members(t) \cup {Nil} /\ (g = Nil <=> n = t.root)
    BY <2>1, <1>1, LinkFacts
  <2>4. g # n
    <3>1. g # Nil => t.parent[n] # n
      BY <2>1, <1>1, SideOfFacts
    <3>. QED
      BY <3>1, <2>1
  <2>. QED
    BY <2>1, <2>2, <2>3, <2>4
<1>. HIDE DEF u, c, g
<1>4. /\ Whole(u) /\ Members(u) = Members(t) \ {n}
      /\ u.root = IF g = Nil THEN c ELSE t.root
      /\ \A m \in Nodes : u.color[m] = IF m = n THEN "red" ELSE t.color[m]
      /\ \A m \in Members(u) : u.parent[m] = IF m = c THEN g ELSE t.parent[m]
      /\ \A m \in Members(u), k \in Sides :
           u.kid[m][k] = IF t.kid[m][k] = n THEN c ELSE t.kid[m][k]
      /\ \A m \in Members(u) : m # c => t.parent[m] # n
  BY <1>2 DEF WithoutThin
<1>5. /\ Height(h, c) = 0 /\ h[n] = Weight(t, n)
  <2>1. PICK s \in Sides : t.kid[n][s] = c /\ t.kid[n][Opposite(s)] = Nil
    BY <1>3
  <2>2. h[n] = Height(h, c) + Weight(t, n) /\ h[n] = Height(h, Nil) + Weight(t, n)
    BY <2>1, <1>1, <1>3, SidesFacts
  <2>3. Height(h, c) \in Nat /\ Height(h, Nil) = 0 /\ Weight(t, n) \in {0, 1}
    BY <1>1, <1>3, HeightFacts
  <2>. QED
    BY <2>2, <2>3
<1>6. ASSUME NEW m \in Members(u), IsRed(u, m), m # c
      PROVE  m # u.root /\ ~IsRed(u, u.parent[m])
  <2>1. m \in Members(t) /\ m # n /\ m \in Nodes /\ IsRed(t, m)
    BY <1>3, <1>4, <1>6 DEF IsRed
  <2>2. m # t.root /\ ~IsRed(t, t.parent[m])
    BY <2>1, <1>1, TidyFacts
  <2>3. t.parent[m] \in Nodes \cup {Nil} /\ t.parent[m] # n /\ u.parent[m] = t.parent[m]
    BY <2>1, <1>1, <1>4, <1>6, LinkFacts
  <2>. QED
    BY <2>2, <2>3, <1>4, <1>6 DEF IsRed
<1>7. \A m \in Members(u) : Weight(u, m) = Weight(t, m)
  BY <1>3, <1>4, Zenon DEF Weight
<1>8. \A m \in Members(u), j \in Sides :
        /\ m \in Nodes /\ u.kid[m][j] \in Members(u) \cup {Nil}
        /\ Height(h, u.kid[m][j]) \in Nat /\ Weight(u, m) \in {0, 1}
  <2>1. \A m \in Members(u), j \in Sides : m \in Nodes /\ u.kid[m][j] \in Members(u) \cup {Nil}
    BY <1>3, <1>4, LinkFacts
  <2>. QED
    BY <2>1, <1>1, <1>3, <1>4, HeightFacts
<1>9. CASE t.color[n] = "red"
  <2>1. Weight(t, n) = 0 /\ IsRed(t, n)
    BY <1>3, <1>9 DEF Weight, IsRed
  <2>2. c \notin Members(u) \/ ~IsRed(u, c)
    <3>. SUFFICES ASSUME c \in Members(u), IsRed(u, c) PROVE FALSE
      OBVIOUS
    <3>1. c \in Members(t) /\ c \in Nodes /\ IsRed(t, c) /\ t.parent[c] = n
      BY <1>3, <1>4 DEF IsRed
    <3>. QED
      BY <3>1, <2>1, <1>1, TidyFacts
  <2>3. Tidy(u, Nil, Nil)
    BY <2>2, <1>6 DEF Tidy
  <2>4. ASSUME NEW m \in Members(u), NEW j \in Sides
        PROVE  h[m] = Height(h, u.kid[m][j]) + Weight(u, m)
    <3>1. Height(h, u.kid[m][j]) = Height(h, t.kid[m][j])
      <4>1. Height(h, n) = Height(h, c)
        BY <2>1, <1>3, <1>5 DEF Height
      <4>. QED
        BY <4>1, <1>4
    <3>. QED
      BY <3>1, <1>1, <1>4, <1>7
  <2>5. Levels(u, h, Nil, "left")
    BY <2>4, <1>1, <1>4, LevelsEven
  <2>. QED
    BY <2>3, <2>5, <1>4, <1>9 DEF Even, u
<1>10. CASE t.color[n] # "red"
  <2>. DEFINE s == SideOf(u, g, c)
  <2>1. Weight(t, n) = 1 /\ h[n] = 1
    BY <1>5, <1>10 DEF Weight
  <2>2. Tidy(u, c, c)
    BY <1>6 DEF Tidy
  <2>3. s \in Sides
    BY DEF SideOf, Sides
  <2>4. ASSUME g # Nil
        PROVE  t.kid[g][s] = n /\ u.kid[g][s] = c /\ t.kid[g][Opposite(s)] # n
    <3>1. g \in Members(t) /\ g \in Members(u) /\ g \in Nodes
      BY <2>4, <1>3, <1>4
    <3>2. PICK j \in Sides : t.kid[g][j] = n
      BY <2>4, <1>1, <1>3, LinkFacts DEF g
    <3>3. Opposite(j) \in Sides /\ t.kid[g][Opposite(j)] # n
          /\ t.kid[g][Opposite(j)] \in Members(t) \cup {Nil}
      BY <3>1, <3>2, <1>1, <1>3, LinkFacts, SidesFacts
    <3>4. t.kid[g][Opposite(j)] # c
      <4>1. CASE c = Nil
        <5>1. h[g] = h[n] + Weight(t, g)
              /\ h[g] = Height(h, t.kid[g][Opposite(j)]) + Weight(t, g)
          <6>1. Height(h, n) = h[n]
            BY <1>3 DEF Height
          <6>. QED
            BY <6>1, <3>1, <3>2, <3>3, <1>1
        <5>2. Height(h, t.kid[g][Opposite(j)]) \in Nat /\ Weight(t, g) \in {0, 1}
          BY <3>1, <3>3, <1>1, <1>3, HeightFacts
        <5>3. Height(h, t.kid[g][Opposite(j)]) = 1
          BY <5>1, <5>2, <2>1
        <5>. QED
          BY <5>3, <4>1 DEF Height
      <4>2. CASE c # Nil
        <5>1. t.kid[g][Opposite(j)] # Nil => t.parent[t.kid[g][Opposite(j)]] = g
          BY <3>1, <3>3, <1>1, LinkFacts
        <5>. QED
          BY <5>1, <4>2, <1>3
      <4>. QED BY <4>1, <4>2
    <3>5. u.kid[g][j] = c /\ u.kid[g][Opposite(j)] # c
      BY <3>1, <3>2, <3>3, <3>4, <1>4
    <3>6. s = j
      BY <3>5 DEF SideOf, Sides, Opposite
    <3>. QED
      BY <3>2, <3>3, <3>5, <3>6
  <2>. HIDE DEF s
  <2>5. ASSUME NEW m \in Members(u), NEW j \in Sides
        PROVE  h[m] = Height(h, u.kid[m][j]) + Weight(u, m) + Short(m, j, g, s)
    <3>1. m \in Members(t) /\ h[m] = Height(h, t.kid[m][j]) + Weight(t, m)
          /\ m # Nil /\ m \in Nodes
      BY <1>1, <1>3, <1>4
    <3>2. CASE t.kid[m][j] = n
      <4>1. g = m
        BY <3>1, <3>2, <1>1, <1>3, LinkFacts DEF g
      <4>2. j = s
        BY <4>1, <3>1, <3>2, <2>3, <2>4, SidesFacts
      <4>3. Short(m, j, g, s) = 1 /\ Height(h, u.kid[m][j]) = 0 /\ Height(h, t.kid[m][j]) = 1
        BY <4>1, <4>2, <3>2, <2>1, <1>3, <1>4, <1>5 DEF Short, Height
      <4>. QED
        BY <4>3, <3>1, <1>7, <1>8
    <3>3. CASE t.kid[m][j] # n
      <4>1. ~(m = g /\ j = s)
        BY <3>1, <3>3, <2>4
      <4>2. Short(m, j, g, s) = 0
        BY <4>1 DEF Short
      <4>3. u.kid[m][j] = t.kid[m][j]
        BY <3>3, <1>4
      <4>. QED
        BY <4>2, <4>3, <3>1, <1>7, <1>8
    <3>. QED BY <3>2, <3>3
  <2>6. Levels(u, h, g, s)
    BY <2>5, <1>1 DEF Levels
  <2>7. IF g = Nil THEN c = u.root ELSE u.kid[g][s] = c
    BY <2>4, <1>4
  <2>8. c \in Members(u) \cup {Nil} /\ g \in Members(u) \cup {Nil}
    BY <1>3, <1>4
  <2>9. RemoveOk(u, c, g, h)
    BY <2>2, <2>6, <2>7, <2>8, <1>4 DEF RemoveOk, s
  <2>. QED
    BY <2>9, <1>10 DEF u, c, g
<1>. QED
  BY <1>9, <1>10

\* Taking over is a renaming.
Renamed(n, m, old) == IF n = old THEN m ELSE n

IsRenaming(t, u, m, old) ==
  /\ Whole(u) /\ Members(u) = (Members(t) \ {old}) \cup {m}
  /\ m \in Nodes /\ old \in Nodes /\ m # old
  /\ m \notin Members(t) \cup {Nil} /\ old \in Members(t)
  /\ \A n \in Members(u) : \E x \in Members(t) : n = Renamed(x, m, old)
  /\ u.root = Renamed(t.root, m, old)
  /\ \A n \in Members(t) :
       /\ u.parent[Renamed(n, m, old)] = Renamed(t.parent[n], m, old)
       /\ u.color[Renamed(n, m, old)] = t.color[n]
       /\ \A k \in Sides : u.kid[Renamed(n, m, old)][k] = Renamed(t.kid[n][k], m, old)

LEMMA TakenOverRenames ==
  ASSUME NEW t, Whole(t), NEW m \in Nodes \ Members(t), NEW old \in Members(t),
         NEW u, TakenOver(t, u, m, old)
  PROVE  IsRenaming(t, u, m, old)
<1>1. Whole(u) /\ Members(u) = (Members(t) \ {old}) \cup {m}
  BY TakenOverWhole
<1>2. /\ old \in Nodes /\ m \in Nodes /\ m # old /\ old # Nil /\ m # Nil
      /\ Members(t) \subseteq Nodes /\ Nil \notin Nodes
      /\ t.parent[old] \in Members(t) \cup {Nil}
      /\ t.parent[old] = Nil <=> old = t.root
  BY LinkFacts, NilAssumption
<1>3. t.parent[old] # old
  BY <1>2, SideOfFacts
<1>4. /\ u.root = IF t.parent[old] = Nil THEN m ELSE t.root
      /\ \A n \in Nodes : u.parent[n] =
           IF n = old THEN Nil ELSE IF n = m THEN t.parent[old]
           ELSE IF t.parent[n] = old THEN m ELSE t.parent[n]
      /\ \A n \in Nodes, k \in Sides : u.kid[n][k] =
           IF n = old THEN Nil ELSE IF n = m THEN t.kid[old][k]
           ELSE IF t.kid[n][k] = old THEN m ELSE t.kid[n][k]
      /\ \A n \in Nodes : u.color[n] =
           IF n = old THEN "red" ELSE IF n = m THEN t.color[old] ELSE t.color[n]
  BY DEF TakenOver
<1>5. \A k \in Sides : t.kid[old][k] # old
  BY <1>2, KidFacts
<1>6. \A n \in Members(u) : \E x \in Members(t) : n = Renamed(x, m, old)
  BY <1>1 DEF Renamed
<1>7. u.root = Renamed(t.root, m, old)
  BY <1>2, <1>4 DEF Renamed
<1>8. ASSUME NEW n \in Members(t)
      PROVE  /\ u.parent[Renamed(n, m, old)] = Renamed(t.parent[n], m, old)
             /\ u.color[Renamed(n, m, old)] = t.color[n]
             /\ \A k \in Sides : u.kid[Renamed(n, m, old)][k] = Renamed(t.kid[n][k], m, old)
  <2>1. CASE n = old
    BY <2>1, <1>2, <1>3, <1>4, <1>5 DEF Renamed
  <2>2. CASE n # old
    BY <2>2, <1>2, <1>4 DEF Renamed
  <2>. QED BY <2>1, <2>2
<1>. QED
  BY <1>1, <1>2, <1>6, <1>7, <1>8 DEF IsRenaming

LEMMA RenamedColours ==
  ASSUME NEW t, Whole(t), NEW u, NEW m, NEW old, IsRenaming(t, u, m, old),
         NEW h, NEW p \in Members(t) \cup {Nil}, NEW s, Levels(t, h, p, s)
  PROVE  /\ \E hh : Levels(u, hh, Renamed(p, m, old), s)
         /\ \A x \in (Members(t) \cup {Nil}) \ {old} : Tidy(t, x, x) => Tidy(u, x, x)
<1>. DEFINE hh == [h EXCEPT ![m] = h[old]]
            R(n) == Renamed(n, m, old)
<1>1. /\ Whole(u) /\ Members(u) = (Members(t) \ {old}) \cup {m}
      /\ m \in Nodes /\ old \in Nodes /\ m # old
      /\ m \notin Members(t) \cup {Nil} /\ old \in Members(t)
      /\ \A n \in Members(u) : \E x \in Members(t) : n = R(x)
      /\ u.root = R(t.root)
      /\ \A n \in Members(t) :
           /\ u.parent[R(n)] = R(t.parent[n])
           /\ u.color[R(n)] = t.color[n]
           /\ \A k \in Sides : u.kid[R(n)][k] = R(t.kid[n][k])
  BY DEF IsRenaming
<1>2. /\ Members(t) \subseteq Nodes /\ Nil \notin Nodes
      /\ t.root \in Members(t) \cup {Nil}
      /\ \A n \in Members(t) : /\ t.parent[n] \in Members(t) \cup {Nil}
                               /\ \A k \in Sides : t.kid[n][k] \in Members(t) \cup {Nil}
  BY LinkFacts, NilAssumption
<1>3. /\ R(Nil) = Nil
      /\ \A n \in Members(t) : R(n) # Nil /\ R(n) \in Nodes
      /\ \A x, y \in Members(t) \cup {Nil} : R(x) = R(y) => x = y
  BY <1>1, <1>2 DEF Renamed
<1>4. h \in [Nodes -> Nat] /\ \A n \in Members(t), k \in Sides :
         h[n] = Height(h, t.kid[n][k]) + Weight(t, n) + Short(n, k, p, s)
  BY DEF Levels
<1>5. hh \in [Nodes -> Nat] /\ \A n \in Members(t) : hh[R(n)] = h[n]
  BY <1>1, <1>2, <1>4 DEF Renamed
<1>. HIDE DEF hh
<1>6. \A n \in Members(t) \cup {Nil} : IsRed(u, R(n)) <=> IsRed(t, n)
  BY <1>1, <1>2, <1>3 DEF IsRed
<1>. HIDE DEF R
<1>7. ASSUME NEW n \in Members(t), NEW k \in Sides
      PROVE  hh[R(n)] = Height(hh, u.kid[R(n)][k]) + Weight(u, R(n)) + Short(R(n), k, R(p), s)
  <2>1. Height(hh, u.kid[R(n)][k]) = Height(h, t.kid[n][k])
    <3>1. CASE t.kid[n][k] = Nil
      BY <3>1, <1>1, <1>3 DEF Height
    <3>2. CASE t.kid[n][k] # Nil
      BY <3>2, <1>1, <1>2, <1>3, <1>5 DEF Height
    <3>. QED BY <3>1, <3>2
  <2>2. Weight(u, R(n)) = Weight(t, n)
    BY <1>1 DEF Weight
  <2>3. Short(R(n), k, R(p), s) = Short(n, k, p, s)
    BY <1>3 DEF Short
  <2>. QED
    BY <2>1, <2>2, <2>3, <1>4, <1>5
<1>8. Levels(u, hh, R(p), s)
  BY <1>1, <1>5, <1>7 DEF Levels
<1>9. ASSUME NEW x \in (Members(t) \cup {Nil}) \ {old}, Tidy(t, x, x)
      PROVE  Tidy(u, x, x)
  <2>. SUFFICES ASSUME NEW n \in Members(t), IsRed(u, R(n)), R(n) # x
                PROVE  R(n) # u.root /\ (IsRed(u, u.parent[R(n)]) => u.parent[R(n)] = x)
    BY <1>1 DEF Tidy
  <2>1. R(x) = x
    BY DEF R, Renamed
  <2>2. IsRed(t, n) /\ n # x
    BY <2>1, <1>6
  <2>3. n # t.root /\ (IsRed(t, t.parent[n]) => t.parent[n] = x)
    BY <2>2, <1>9 DEF Tidy
  <2>. QED
    BY <2>1, <2>3, <1>1, <1>2, <1>3, <1>6
<1>. QED
  BY <1>8, <1>9 DEF R

LEMMA TakeColours ==
  ASSUME NEW t, NEW u, NEW m, NEW old, IsRenaming(t, u, m, old), NEW h
  PROVE  /\ Even(t, h) => \E hh : Even(u, hh)
         /\ \A n, p : RemoveOk(t, n, p, h) /\ n # old =>
              \E hh : RemoveOk(u, n, Renamed(p, m, old), hh)
<1>1. Whole(u) /\ m \notin Members(t) \cup {Nil} /\ old \in Members(t) /\ m # old
      /\ Members(u) = (Members(t) \ {old}) \cup {m}
  BY DEF IsRenaming
<1>2. ASSUME Even(t, h)
      PROVE  \E hh : Even(u, hh)
  <2>1. /\ Whole(t) /\ Tidy(t, Nil, Nil) /\ Levels(t, h, Nil, "left")
        /\ Nil # old /\ Renamed(Nil, m, old) = Nil
    BY <1>1, <1>2, NilAssumption, LinkFacts DEF Even, Renamed
  <2>2. \E hh : Levels(u, hh, Nil, "left")
    BY <2>1, RenamedColours
  <2>3. Tidy(u, Nil, Nil)
    BY <2>1, RenamedColours
  <2>. QED
    BY <2>2, <2>3, <1>1 DEF Even
<1>3. ASSUME NEW n, NEW p, RemoveOk(t, n, p, h), n # old
      PROVE  \E hh : RemoveOk(u, n, Renamed(p, m, old), hh)
  <2>. DEFINE q == Renamed(p, m, old)
              s == SideOf(t, p, n)
  <2>1. /\ Whole(t) /\ n \in Members(t) \cup {Nil} /\ p \in Members(t) \cup {Nil}
        /\ IF p = Nil THEN n = t.root ELSE t.kid[p][s] = n
        /\ Tidy(t, n, n) /\ Levels(t, h, p, s) /\ s \in Sides
        /\ Nil \notin Members(t)
    BY <1>3, NilAssumption, LinkFacts DEF RemoveOk, SideOf, Sides
  <2>. HIDE DEF s
  <2>2. (\E hh : Levels(u, hh, q, s)) /\ Tidy(u, n, n)
    BY <2>1, <1>3, RenamedColours
  <2>3. n \in Members(u) \cup {Nil} /\ q \in Members(u) \cup {Nil} /\ (q = Nil <=> p = Nil)
    BY <2>1, <1>1, <1>3 DEF Renamed
  <2>4. Renamed(n, m, old) = n
    BY <1>3 DEF Renamed
  <2>5. CASE p = Nil
    <3>1. n = u.root
      BY <2>1, <2>4, <2>5 DEF IsRenaming
    <3>2. PICK hh : Levels(u, hh, q, s)
      BY <2>2
    <3>3. q = Nil
      BY <2>3, <2>5
    <3>4. Levels(u, hh, q, SideOf(u, q, n))
      BY <3>2, <3>3, <1>1, LevelsEven
    <3>. QED
      BY <3>1, <3>3, <3>4, <2>2, <2>3, <1>1 DEF RemoveOk
  <2>6. CASE p # Nil
    <3>1. \A k \in Sides : u.kid[q][k] = Renamed(t.kid[p][k], m, old)
                           /\ t.kid[p][k] \in Members(t) \cup {Nil}
      BY <2>1, <2>6, LinkFacts DEF IsRenaming
    <3>2. \A k \in Sides : u.kid[q][k] = n <=> t.kid[p][k] = n
      BY <3>1, <2>1, <1>1, <1>3 DEF Renamed
    <3>3. SideOf(u, q, n) = s
      BY <3>2, SidesFacts DEF SideOf, s, Sides
    <3>4. u.kid[q][s] = n /\ q # Nil
      BY <3>2, <2>1, <2>3, <2>6
    <3>5. PICK hh : Levels(u, hh, q, s)
      BY <2>2
    <3>. HIDE DEF q
    <3>6. RemoveOk(u, n, q, hh)
      BY <3>3, <3>4, <3>5, <2>2, <2>3, <1>1 DEF RemoveOk
    <3>. QED
      BY <3>6 DEF q
  <2>. QED BY <2>5, <2>6
<1>. QED
  BY <1>2, <1>3

\* What RB_REMOVE leaves to RB_REMOVE_COLOR.
LEMMA UnlinkColours ==
  ASSUME NEW t, NEW h, Even(t, h), NEW old \in Members(t), NEW elm, Thin(t, elm),
         elm = old \/ OnlyKid(t, elm) # old
  PROVE  LET r == Unlink(t, old, elm)
         IN  /\ t.color[elm] # "black" => \E hh : Even(r.tree, hh)
             /\ t.color[elm] = "black" => \E hh : RemoveOk(r.tree, r.at, r.parent, hh)
<1>. DEFINE r == Unlink(t, old, elm)
            u == r.tree
            v == SplicedOut(t, elm)
            c == OnlyKid(t, elm)
            g == t.parent[elm]
<1>1. Whole(t) /\ elm \in Members(t) /\ Members(t) \subseteq Nodes
  BY LinkFacts DEF Even, Thin
<1>2. r.at = c /\ r.parent = IF elm # old /\ g = old THEN elm ELSE g
  BY DEF Unlink
<1>3. /\ elm = old => u = v
      /\ elm # old => TakenOver(v, u, elm, old)
  BY <1>1, UnlinkFacts
<1>4. Whole(v) /\ Members(v) = Members(t) \ {elm}
  BY <1>1, SplicedOutFacts
<1>5. t.color[elm] \in {"red", "black"}
  BY <1>1 DEF Whole, TreeType
<1>6. /\ t.color[elm] # "black" => Even(v, h)
      /\ t.color[elm] = "black" => RemoveOk(v, c, g, h)
  BY <1>5, SpliceColours
<1>. HIDE DEF r, v, c, g
<1>7. CASE elm = old
  BY <1>2, <1>3, <1>6, <1>7 DEF r
<1>8. CASE elm # old
  <2>1. IsRenaming(v, u, elm, old)
    BY <1>1, <1>3, <1>4, <1>8, TakenOverRenames
  <2>2. r.parent = Renamed(g, elm, old)
    BY <1>2, <1>8 DEF Renamed
  <2>3. c # old
    BY <1>8 DEF c
  <2>4. t.color[elm] # "black" => \E hh : Even(u, hh)
    BY <1>6, <2>1, TakeColours
  <2>5. t.color[elm] = "black" => \E hh : RemoveOk(u, c, Renamed(g, elm, old), hh)
    BY <1>6, <2>1, <2>3, TakeColours
  <2>. QED
    BY <2>2, <2>4, <2>5, <1>2 DEF r
<1>. QED
  BY <1>7, <1>8

-----------------------------------------------------------------------------
(***************************************************************************)
(* Heights count the black nodes of every way.                             *)
(***************************************************************************)

\* The black nodes on the way from the root to n.
BlackAbove(t, n) == {m \in Members(t) : n \in Subtrees(t)[m] /\ ~IsRed(t, m)}

LEMMA BlackAboveFacts ==
  ASSUME NEW t, Whole(t), NEW n \in Members(t)
  PROVE  LET own == IF IsRed(t, n) THEN {} ELSE {n}
         IN  /\ n \notin BlackAbove(t, t.parent[n])
             /\ n = t.root => BlackAbove(t, n) = own
             /\ n # t.root => BlackAbove(t, n) = BlackAbove(t, t.parent[n]) \cup own
<1>. DEFINE p == t.parent[n]
<1>1. /\ Members(t) \subseteq Nodes /\ Nil \notin Members(t)
      /\ p \in Members(t) \cup {Nil} /\ (n # t.root <=> p # Nil)
      /\ (n = t.root => p = Nil)
  BY LinkFacts, NilAssumption
<1>2. \A m \in Members(t) : Below(t, m) = Subtrees(t)[m]
  BY <1>1 DEF Below
<1>3. \A x : BlackAbove(t, x) = {m \in Members(t) : x \in Below(t, m) /\ ~IsRed(t, m)}
  BY <1>2 DEF BlackAbove
<1>4. \A m \in Members(t) :
        /\ Below(t, m) \subseteq Members(t) /\ m \in Below(t, m)
        /\ n \in Below(t, m) /\ n # m => p \in Below(t, m)
  BY BelowFacts
<1>5. ASSUME p # Nil
      PROVE  /\ n # p /\ p \notin Below(t, n)
             /\ \A m \in Members(t) : p \in Below(t, m) => n \in Below(t, m)
  <2>1. PICK s \in Sides : t.kid[p][s] = n
    BY <1>5, LinkFacts
  <2>2. p \in Members(t) /\ n # Nil /\ Closed(t, Below(t, p))
    BY <1>1, <1>5, BelowLeast, LinkFacts DEF Closed
  <2>3. p \notin Below(t, n) /\ n # p
    BY <2>1, <2>2, <1>4, BelowFacts
  <2>4. n \in Below(t, p)
    BY <2>1, <2>2, <1>4 DEF Closed
  <2>5. \A m \in Members(t) : p \in Below(t, m) => Below(t, p) \subseteq Below(t, m)
    BY <2>2, BelowFacts
  <2>. QED
    BY <2>3, <2>4, <2>5
<1>. HIDE DEF p
<1>6. n \notin BlackAbove(t, p)
  BY <1>1, <1>3, <1>4, <1>5
<1>7. CASE p = Nil
  <2>1. \A m \in Members(t) : n \in Below(t, m) <=> m = n
    BY <1>1, <1>4, <1>7
  <2>2. BlackAbove(t, n) = IF IsRed(t, n) THEN {} ELSE {n}
    BY <2>1, <1>3
  <2>. QED
    BY <2>2, <1>1, <1>6, <1>7 DEF p
<1>8. CASE p # Nil
  <2>1. \A m \in Members(t) : n \in Below(t, m) <=> m = n \/ p \in Below(t, m)
    BY <1>1, <1>4, <1>5, <1>8
  <2>2. BlackAbove(t, n) = BlackAbove(t, p) \cup IF IsRed(t, n) THEN {} ELSE {n}
    BY <2>1, <1>3
  <2>. QED
    BY <2>2, <1>1, <1>6, <1>8 DEF p
<1>. QED
  BY <1>7, <1>8

LEMMA BlackAboveCounts ==
  ASSUME NEW t, Whole(t), NEW n \in Members(t)
  PROVE  /\ Cardinality(BlackAbove(t, n)) \in Nat
         /\ n = t.root => Cardinality(BlackAbove(t, n)) = Weight(t, n)
         /\ n # t.root =>
              Cardinality(BlackAbove(t, n)) = Cardinality(BlackAbove(t, t.parent[n])) + Weight(t, n)
<1>. DEFINE own == IF IsRed(t, n) THEN {} ELSE {n}
            above == BlackAbove(t, t.parent[n])
<1>1. n \in Nodes /\ Members(t) \subseteq Nodes
  BY LinkFacts
<1>2. \A x : BlackAbove(t, x) \subseteq Nodes
  BY <1>1 DEF BlackAbove
<1>3. \A x : IsFiniteSet(BlackAbove(t, x)) /\ Cardinality(BlackAbove(t, x)) \in Nat
  BY <1>2, NodesFinite, FS_Subset, FS_CardinalityType
<1>4. Weight(t, n) = IF IsRed(t, n) THEN 0 ELSE 1
  BY <1>1, NilAssumption DEF Weight, IsRed
<1>5. CASE n = t.root
  <2>1. BlackAbove(t, n) = own
    BY <1>5, BlackAboveFacts
  <2>2. Cardinality({}) = 0 /\ Cardinality({n}) = 1
    BY FS_EmptySet, FS_Singleton
  <2>. QED
    BY <2>1, <2>2, <1>3, <1>4, <1>5
<1>6. CASE n # t.root
  <2>1. BlackAbove(t, n) = above \cup own /\ n \notin above
    BY <1>6, BlackAboveFacts
  <2>2. Cardinality(above \cup {n}) = Cardinality(above) + 1
    BY <2>1, <1>3, FS_AddElement
  <2>3. CASE IsRed(t, n)
    <3>1. BlackAbove(t, n) = above /\ Weight(t, n) = 0
      BY <2>1, <2>3, <1>4
    <3>. QED
      BY <3>1, <1>3, <1>6
  <2>4. CASE ~IsRed(t, n)
    <3>1. BlackAbove(t, n) = above \cup {n} /\ Weight(t, n) = 1
      BY <2>1, <2>4, <1>4
    <3>. QED
      BY <3>1, <2>2, <1>3, <1>6
  <2>. QED BY <2>3, <2>4
<1>. QED
  BY <1>5, <1>6

\* A tree with heights is a red-black tree as WellBalanced says it.
LEMMA EvenBalanced ==
  ASSUME NEW t, NEW h, Even(t, h)
  PROVE  ~IsRed(t, t.root) /\ NoRedPair(t) /\ EvenBlack(t)
<1>1. /\ Whole(t) /\ h \in [Nodes -> Nat]
      /\ \A n \in Members(t), k \in Sides :
           h[n] = Height(h, t.kid[n][k]) + Weight(t, n)
      /\ Members(t) \subseteq Nodes /\ Nil \notin Nodes
  BY LevelsEven, LinkFacts, NilAssumption DEF Even
<1>2. \A n \in Members(t) : IsRed(t, n) => n # t.root /\ ~IsRed(t, t.parent[n])
  BY TidyFacts DEF Even
<1>3. ~IsRed(t, t.root) /\ NoRedPair(t)
  BY <1>1, <1>2, LinkFacts DEF NoRedPair, IsRed
<1>4. \A n \in Members(t) :
        h[n] \in Nat /\ Weight(t, n) \in {0, 1} /\ Cardinality(BlackAbove(t, n)) \in Nat
  BY <1>1, HeightFacts, BlackAboveCounts
<1>5. \A n \in Members(t) :
        Cardinality(BlackAbove(t, n)) + h[n] = h[t.root] + Weight(t, n)
  <2>. DEFINE S == {n \in Members(t) :
                      Cardinality(BlackAbove(t, n)) + h[n] = h[t.root] + Weight(t, n)}
  <2>1. t.root # Nil => t.root \in S
    <3>. SUFFICES ASSUME t.root # Nil PROVE t.root \in S
      OBVIOUS
    <3>1. t.root \in Members(t)
      BY <1>1, LinkFacts
    <3>2. Cardinality(BlackAbove(t, t.root)) = Weight(t, t.root)
      BY <3>1, <1>1, BlackAboveCounts
    <3>. QED
      BY <3>1, <3>2, <1>4
  <2>2. ASSUME NEW n \in S, NEW s \in Sides, t.kid[n][s] # Nil
        PROVE  t.kid[n][s] \in S
    <3>. DEFINE c == t.kid[n][s]
    <3>1. n \in Members(t) /\ n \in Nodes
          /\ Cardinality(BlackAbove(t, n)) + h[n] = h[t.root] + Weight(t, n)
      BY <1>1
    <3>2. c \in Members(t) /\ t.parent[c] = n /\ c # t.root
      BY <3>1, <2>2, <1>1, LinkFacts
    <3>3. h[n] = h[c] + Weight(t, n)
      BY <3>1, <3>2, <2>2, <1>1 DEF Height
    <3>4. Cardinality(BlackAbove(t, c)) = Cardinality(BlackAbove(t, n)) + Weight(t, c)
      BY <3>2, <1>1, BlackAboveCounts
    <3>5. h[t.root] \in Nat
      <4>1. t.root # Nil
        BY <3>1, <1>1, RootOfMembers
      <4>. QED
        BY <4>1, <1>1, <1>4, LinkFacts
    <3>. HIDE DEF c
    <3>6. Cardinality(BlackAbove(t, c)) + h[c] = h[t.root] + Weight(t, c)
      BY <3>1, <3>2, <3>3, <3>4, <3>5, <1>4
    <3>. QED
      BY <3>2, <3>6 DEF c
  <2>3. S \in SUBSET Members(t) /\ Closed(t, S)
    BY <2>2 DEF Closed
  <2>. HIDE DEF S
  <2>4. S = Members(t)
    BY <2>1, <2>3, <1>1, Reached
  <2>. QED
    BY <2>4 DEF S
<1>6. ASSUME NEW n \in Members(t), \E s \in Sides : t.kid[n][s] = Nil
      PROVE  Cardinality(BlackAbove(t, n)) = h[t.root]
  <2>1. PICK s \in Sides : t.kid[n][s] = Nil
    BY <1>6
  <2>2. h[n] = Height(h, Nil) + Weight(t, n) /\ Height(h, Nil) = 0
    BY <2>1, <1>1 DEF Height
  <2>3. h[n] = Weight(t, n)
    BY <2>2, <1>4
  <2>4. h[t.root] \in Nat
    <3>1. t.root # Nil
      BY <1>1, RootOfMembers
    <3>. QED
      BY <3>1, <1>1, <1>4, LinkFacts
  <2>. QED
    BY <2>3, <2>4, <1>4, <1>5
<1>7. EvenBlack(t)
  <2>. DEFINE ends == {n \in Members(t) : \E s \in Sides : t.kid[n][s] = Nil}
              black == [n \in ends |->
                 Cardinality({m \in Members(t) : n \in Subtrees(t)[m] /\ ~IsRed(t, m)})]
  <2>1. \A n \in ends : black[n] = h[t.root]
    BY <1>6 DEF BlackAbove
  <2>2. \A m, n \in ends : black[m] = black[n]
    BY <2>1
  <2>. QED
    BY <2>2 DEF EvenBlack
<1>. QED
  BY <1>3, <1>7

-----------------------------------------------------------------------------
(***************************************************************************)
(* The inductive invariant.  Heights exist whenever no recolouring runs,   *)
(* and with what is still wrong while one does; a search or a walk is      *)
(* where its last step led it.                                             *)
(***************************************************************************)

CallType ==
  [stage : Stages, node : Nodes \cup {Nil}, at : Nodes \cup {Nil},
   parent : Nodes \cup {Nil}, side : Sides]

Coloured(t, c) ==
  /\ c.stage \notin {"insert_color", "remove_color"} => \E h : Even(t, h)
  /\ c.stage = "insert_color" => \E h : InsertOk(t, c.at, h)
  /\ c.stage = "remove_color" => \E h : RemoveOk(t, c.at, c.parent, h)

Located(t, c) ==
  /\ c.stage \in Searches \cup {"min"} =>
       /\ c.at \in Members(t) \cup {Nil} /\ c.parent \in Members(t) \cup {Nil}
       /\ IF c.parent = Nil THEN c.at = t.root ELSE c.at = t.kid[c.parent][c.side]
  /\ c.stage \in Searches => c.node \in Nodes
  /\ c.stage = "insert" => c.node \notin Members(t)
  /\ c.stage = "min" => c.side = "left"
  /\ c.stage = "successor" =>
       /\ c.node \in Members(t) /\ \A s \in Sides : t.kid[c.node][s] # Nil
       /\ c.at \in Below(t, t.kid[c.node]["right"])

Good(t, c) == c \in CallType /\ Whole(t) /\ Coloured(t, c) /\ Located(t, c)

IInv == Good(tree, call) /\ result \in Nodes \cup {Nil}

LEMMA IdleGood ==
  ASSUME NEW t, NEW h, Even(t, h)
  PROVE  Good(t, NoCall)
<1>1. NoCall \in CallType
  BY DEF NoCall, Call, CallType, Stages, Sides
<1>2. NoCall.stage = "none"
  BY DEF NoCall, Call
<1>. QED
  BY <1>1, <1>2 DEF Good, Coloured, Located, Searches, Even

LEMMA IInvInit == Init => IInv
<1>. SUFFICES ASSUME Init PROVE IInv
  OBVIOUS
<1>1. /\ tree.root = Nil /\ tree \in TreeType
      /\ \A n \in Nodes : tree.parent[n] = Nil /\ tree.kid[n] = NoKids /\ tree.color[n] = "red"
  BY DEF Init, EmptyTree, TreeType, NoKids
<1>2. Members(tree) = {}
  BY <1>1, NilAssumption DEF Members
<1>3. Whole(tree)
  BY <1>1, <1>2 DEF Whole, Outside, PointersAgree, NoneCutOff
<1>4. Even(tree, [n \in Nodes |-> 0])
  BY <1>2, <1>3 DEF Even, Tidy, Levels
<1>. QED
  BY <1>4, IdleGood DEF Init, IInv

LEMMA BeginGood ==
  ASSUME IInv, NEW stage \in {"insert", "find", "remove", "min"}, NEW n \in Nodes \cup {Nil},
         stage # "min" => n \in Nodes, stage = "insert" => n \notin Members(tree),
         Begin(stage, n)
  PROVE  IInv'
<1>1. Whole(tree) /\ \E h : Even(tree, h)
  BY DEF IInv, Good, Coloured, Begin, Idle
<1>2. tree.root \in Members(tree) \cup {Nil} /\ Members(tree) \subseteq Nodes
  BY <1>1, LinkFacts
<1>3. /\ call' \in CallType /\ call'.stage = stage /\ call'.node = n /\ call'.at = tree.root
      /\ call'.parent = Nil /\ call'.side = "left"
  BY <1>2 DEF Begin, Call, CallType, Stages, Searches, Sides
<1>4. Coloured(tree, call') /\ Located(tree, call')
  BY <1>1, <1>2, <1>3 DEF Coloured, Located, Searches
<1>. QED
  BY <1>1, <1>3, <1>4 DEF IInv, Good, Begin

LEMMA ReturnGood ==
  ASSUME NEW n \in Nodes \cup {Nil}, Return(n), \E h : Even(tree', h)
  PROVE  IInv'
BY IdleGood DEF IInv, Return

LEMMA SearchOnGood ==
  ASSUME IInv, NEW answer, SearchOn(answer)
  PROVE  IInv'
<1>1. Whole(tree) /\ (\E h : Even(tree, h)) /\ call \in CallType /\ call.stage \in Searches
  BY DEF IInv, Good, Coloured, SearchOn, Searching, Searches
<1>2. call.at \in Members(tree) /\ SideTo(answer) \in Sides /\ Members(tree) \subseteq Nodes
      /\ call.at # Nil
  BY <1>1, LinkFacts DEF IInv, Good, Located, SearchOn, SideTo, Sides
<1>3. tree.kid[call.at][SideTo(answer)] \in Members(tree) \cup {Nil}
  BY <1>1, <1>2, LinkFacts
<1>4. /\ call' \in CallType /\ call'.stage = call.stage /\ call'.node = call.node
      /\ call'.at = tree.kid[call.at][SideTo(answer)]
      /\ call'.parent = call.at /\ call'.side = SideTo(answer)
  BY <1>1, <1>2, <1>3 DEF SearchOn, CallType
<1>5. Coloured(tree, call')
  BY <1>1, <1>4 DEF Coloured, Searches
<1>6. Located(tree, call')
  BY <1>1, <1>2, <1>3, <1>4 DEF Located, IInv, Good, Searches
<1>. QED
  BY <1>1, <1>4, <1>5, <1>6 DEF IInv, Good, SearchOn

LEMMA InsertLinkGood ==
  ASSUME IInv, InsertLink
  PROVE  IInv'
<1>. DEFINE n == call.node
            p == call.parent
            s == call.side
            u == Link(tree, n, p, s)
<1>1. Whole(tree) /\ call \in CallType /\ call.stage = "insert" /\ call.at = Nil
  BY DEF IInv, Good, InsertLink
<1>2. PICK h : Even(tree, h)
  BY <1>1 DEF IInv, Good, Coloured
<1>3. Room(tree, n, p, s)
  BY <1>1 DEF IInv, Good, Located, Room, Searches, CallType
<1>4. LinkedAt(tree, u, n, p, s)
  BY <1>1, <1>3, LinkNodeFacts
<1>5. Whole(u) /\ Members(u) = Members(tree) \cup {n}
  BY <1>1, <1>3, <1>4, LinkedAtWhole
<1>6. \E hh : InsertOk(u, n, hh)
  BY <1>2, <1>3, <1>4, LinkColours
<1>7. call' \in CallType /\ call'.stage = "insert_color" /\ call'.at = n
  BY <1>1, <1>3 DEF InsertLink, Call, CallType, Stages, Searches, Sides, Room
<1>8. tree' = u
  BY DEF InsertLink
<1>. HIDE DEF u, n
<1>9. Good(u, call')
  BY <1>5, <1>6, <1>7 DEF Good, Coloured, Located, Searches
<1>. QED
  BY <1>8, <1>9 DEF IInv, InsertLink

LEMMA InsertColorOnGood ==
  ASSUME IInv, InsertColorOn
  PROVE  IInv'
<1>. DEFINE r == InsertRound(tree, call.at)
<1>1. call \in CallType /\ call.stage = "insert_color" /\ IsRed(tree, tree.parent[call.at])
  BY DEF IInv, Good, InsertColorOn
<1>2. PICK h : InsertOk(tree, call.at, h)
  BY <1>1 DEF IInv, Good, Coloured
<1>3. \E hh : InsertOk(r.tree, r.at, hh)
  BY <1>1, <1>2, InsertRoundFacts
<1>4. tree' = r.tree /\ call' = [call EXCEPT !.at = r.at]
  BY DEF InsertColorOn
<1>. HIDE DEF r
<1>5. Whole(r.tree) /\ r.at \in Nodes
  BY <1>3, LinkFacts DEF InsertOk
<1>6. call' \in CallType /\ call'.stage = "insert_color" /\ call'.at = r.at
  BY <1>1, <1>4, <1>5 DEF CallType
<1>7. Good(r.tree, call')
  BY <1>3, <1>5, <1>6 DEF Good, Coloured, Located, Searches
<1>. QED
  BY <1>4, <1>7 DEF IInv, InsertColorOn

LEMMA InsertColorEndGood ==
  ASSUME IInv, InsertColorEnd
  PROVE  IInv'
<1>1. call.stage = "insert_color" /\ ~IsRed(tree, tree.parent[call.at])
      /\ tree' = Paint(tree, tree.root, "black") /\ Return(Nil)
  BY DEF InsertColorEnd
<1>2. PICK h : InsertOk(tree, call.at, h)
  BY <1>1 DEF IInv, Good, Coloured
<1>3. \E hh : Even(tree', hh)
  BY <1>1, <1>2, InsertEndFacts
<1>. QED
  BY <1>1, <1>3, ReturnGood

LEMMA UnlinkAndGoOnGood ==
  ASSUME IInv, NEW h, Even(tree, h), NEW old \in Members(tree), NEW elm, Thin(tree, elm),
         elm = old \/ OnlyKid(tree, elm) # old, UnlinkAndGoOn(old, elm)
  PROVE  IInv'
<1>. DEFINE r == Unlink(tree, old, elm)
<1>1. old \in Nodes
  BY LinkFacts DEF Even
<1>2. tree' = r.tree
  BY DEF UnlinkAndGoOn
<1>3. CASE tree.color[elm] = "black"
  <2>1. \E hh : RemoveOk(r.tree, r.at, r.parent, hh)
    BY <1>3, UnlinkColours
  <2>2. call' = Call("remove_color", old, r.at, r.parent, "left") /\ result' = result
    BY <1>3 DEF UnlinkAndGoOn
  <2>. HIDE DEF r
  <2>3. Whole(r.tree) /\ r.at \in Nodes \cup {Nil} /\ r.parent \in Nodes \cup {Nil}
    BY <2>1, LinkFacts DEF RemoveOk
  <2>4. call' \in CallType /\ call'.stage = "remove_color" /\ call'.at = r.at
        /\ call'.parent = r.parent
    BY <2>2, <2>3, <1>1 DEF Call, CallType, Stages, Sides
  <2>5. Good(r.tree, call')
    BY <2>1, <2>3, <2>4 DEF Good, Coloured, Located, Searches
  <2>. QED
    BY <2>2, <2>5, <1>2 DEF IInv
<1>4. CASE tree.color[elm] # "black"
  <2>1. \E hh : Even(r.tree, hh)
    BY <1>4, UnlinkColours
  <2>2. Return(old)
    BY <1>4 DEF UnlinkAndGoOn
  <2>. QED
    BY <2>1, <2>2, <1>1, <1>2, ReturnGood
<1>. QED
  BY <1>3, <1>4

LEMMA RemoveOuterGood ==
  ASSUME IInv, RemoveOuter
  PROVE  IInv'
<1>1. /\ call.stage = "remove" /\ call.at # Nil
      /\ \E s \in Sides : tree.kid[call.at][s] = Nil
      /\ UnlinkAndGoOn(call.at, call.at)
  BY DEF RemoveOuter, Found
<1>2. PICK h : Even(tree, h)
  BY <1>1 DEF IInv, Good, Coloured
<1>3. call.at \in Members(tree)
  BY <1>1 DEF IInv, Good, Located, Searches
<1>4. Thin(tree, call.at)
  BY <1>1, <1>3 DEF Thin
<1>. QED
  BY <1>1, <1>2, <1>3, <1>4, UnlinkAndGoOnGood

LEMMA RemoveInnerGood ==
  ASSUME IInv, RemoveInner
  PROVE  IInv'
<1>. DEFINE x == call.at
            c == tree.kid[x]["right"]
<1>1. /\ call.stage = "remove" /\ x # Nil
      /\ \A s \in Sides : tree.kid[x][s] # Nil
      /\ call' = Call("successor", x, c, Nil, "left") /\ tree' = tree /\ result' = result
  BY DEF RemoveInner, Found
<1>2. Whole(tree) /\ \E h : Even(tree, h)
  BY <1>1 DEF IInv, Good, Coloured
<1>3. x \in Members(tree) /\ x \in Nodes
  BY <1>1, <1>2, LinkFacts DEF IInv, Good, Located, Searches
<1>4. c \in Members(tree) /\ c \in Nodes
  BY <1>1, <1>2, <1>3, LinkFacts, SidesFacts DEF Sides
<1>5. c \in Below(tree, c)
  BY <1>2, <1>4, BelowLeast
<1>. HIDE DEF x
<1>6. call' \in CallType /\ call'.stage = "successor" /\ call'.node = x /\ call'.at = c
  BY <1>1, <1>3, <1>4 DEF Call, CallType, Stages, Sides
<1>7. Coloured(tree, call') /\ Located(tree, call')
  BY <1>1, <1>2, <1>3, <1>5, <1>6 DEF Coloured, Located, Searches
<1>. QED
  BY <1>1, <1>2, <1>6, <1>7 DEF IInv, Good

\* The walk to the successor stays in the right subtree of the node.
LEMMA SuccessorFacts ==
  ASSUME IInv, call.stage = "successor"
  PROVE  /\ Whole(tree) /\ (\E h : Even(tree, h)) /\ call \in CallType
         /\ call.node \in Members(tree) /\ call.at \in Members(tree)
         /\ call.at \in Nodes /\ call.node # Nil
         /\ \A s \in Sides : /\ tree.kid[call.node][s] # Nil
                             /\ tree.kid[call.at][s] # call.node
                             /\ tree.kid[call.at][s] # Nil =>
                                  tree.kid[call.at][s] \in Below(tree, tree.kid[call.node]["right"])
<1>. DEFINE x == call.node
            c == tree.kid[x]["right"]
<1>1. /\ Whole(tree) /\ (\E h : Even(tree, h)) /\ call \in CallType
      /\ x \in Members(tree) /\ \A s \in Sides : tree.kid[x][s] # Nil
      /\ call.at \in Below(tree, c)
  BY DEF IInv, Good, Coloured, Located, Searches
<1>. HIDE DEF x
<1>2. x # Nil /\ x \in Nodes /\ "right" \in Sides /\ Members(tree) \subseteq Nodes
  BY <1>1, LinkFacts, NilAssumption DEF Sides
<1>3. c \in Members(tree)
  BY <1>1, <1>2, LinkFacts
<1>4. Below(tree, c) \subseteq Members(tree) /\ x \notin Below(tree, c)
  BY <1>1, <1>2, <1>3, BelowFacts
<1>5. Closed(tree, Below(tree, c))
  BY <1>1, <1>3, LinkFacts, BelowLeast DEF Closed
<1>6. \A s \in Sides : tree.kid[call.at][s] # Nil => tree.kid[call.at][s] \in Below(tree, c)
  BY <1>1, <1>5 DEF Closed
<1>. QED
  BY <1>1, <1>2, <1>4, <1>6 DEF x

LEMMA SuccessorOnGood ==
  ASSUME IInv, SuccessorOn
  PROVE  IInv'
<1>. DEFINE c == tree.kid[call.at]["left"]
<1>1. /\ call.stage = "successor" /\ c # Nil /\ call' = [call EXCEPT !.at = c]
      /\ tree' = tree /\ result' = result
  BY DEF SuccessorOn
<1>2. /\ Whole(tree) /\ (\E h : Even(tree, h)) /\ call \in CallType
      /\ call.node \in Members(tree) /\ call.at \in Members(tree)
      /\ c \in Below(tree, tree.kid[call.node]["right"])
      /\ \A s \in Sides : tree.kid[call.node][s] # Nil
  BY <1>1, SuccessorFacts DEF Sides
<1>3. c \in Nodes
  BY <1>1, <1>2, LinkFacts DEF Sides
<1>. HIDE DEF c
<1>4. call' \in CallType /\ call'.stage = "successor" /\ call'.node = call.node /\ call'.at = c
  BY <1>1, <1>2, <1>3 DEF CallType
<1>5. Coloured(tree, call') /\ Located(tree, call')
  BY <1>2, <1>4 DEF Coloured, Located, Searches
<1>. QED
  BY <1>1, <1>2, <1>4, <1>5 DEF IInv, Good

LEMMA SuccessorEndGood ==
  ASSUME IInv, SuccessorEnd
  PROVE  IInv'
<1>1. /\ call.stage = "successor" /\ tree.kid[call.at]["left"] = Nil
      /\ UnlinkAndGoOn(call.node, call.at)
  BY DEF SuccessorEnd
<1>2. /\ call.node \in Members(tree) /\ call.at \in Members(tree)
      /\ \A s \in Sides : tree.kid[call.at][s] # call.node
  BY <1>1, SuccessorFacts
<1>3. PICK h : Even(tree, h)
  BY <1>1, SuccessorFacts
<1>4. Thin(tree, call.at) /\ OnlyKid(tree, call.at) # call.node
  BY <1>1, <1>2 DEF Thin, OnlyKid, Sides
<1>. QED
  BY <1>1, <1>2, <1>3, <1>4, UnlinkAndGoOnGood

LEMMA RemoveColorOnGood ==
  ASSUME IInv, RemoveColorOn
  PROVE  IInv'
<1>. DEFINE r == RemoveRound(tree, call.parent, call.at)
<1>1. /\ call \in CallType /\ call.stage = "remove_color"
      /\ ~IsRed(tree, call.at) /\ call.at # tree.root
      /\ tree' = r.tree /\ call' = [call EXCEPT !.at = r.at, !.parent = r.parent]
      /\ result' = result
  BY DEF IInv, Good, RemoveColorOn, RemoveColorDone
<1>2. PICK h : RemoveOk(tree, call.at, call.parent, h)
  BY <1>1 DEF IInv, Good, Coloured
<1>3. \E hh : RemoveOk(r.tree, r.at, r.parent, hh)
  BY <1>1, <1>2, RemoveRoundFacts
<1>. HIDE DEF r
<1>4. Whole(r.tree) /\ r.at \in Nodes \cup {Nil} /\ r.parent \in Nodes \cup {Nil}
  BY <1>3, LinkFacts DEF RemoveOk
<1>5. call' \in CallType /\ call'.stage = "remove_color" /\ call'.at = r.at
      /\ call'.parent = r.parent
  BY <1>1, <1>4 DEF CallType
<1>6. Good(r.tree, call')
  BY <1>3, <1>4, <1>5 DEF Good, Coloured, Located, Searches
<1>. QED
  BY <1>1, <1>6 DEF IInv

LEMMA RemoveColorEndGood ==
  ASSUME IInv, RemoveColorEnd
  PROVE  IInv'
<1>1. /\ call.stage = "remove_color" /\ (IsRed(tree, call.at) \/ call.at = tree.root)
      /\ tree' = Paint(tree, call.at, "black") /\ Return(call.node)
      /\ call.node \in Nodes \cup {Nil}
  BY DEF RemoveColorEnd, RemoveColorDone, IInv, Good, CallType
<1>2. PICK h : RemoveOk(tree, call.at, call.parent, h)
  BY <1>1 DEF IInv, Good, Coloured
<1>3. \E hh : Even(tree', hh)
  BY <1>1, <1>2, RemoveEndFacts
<1>. QED
  BY <1>1, <1>3, ReturnGood

LEMMA MinOnGood ==
  ASSUME IInv, MinOn
  PROVE  IInv'
<1>. DEFINE c == tree.kid[call.at]["left"]
<1>1. /\ call.stage = "min" /\ call.at # Nil
      /\ call' = [call EXCEPT !.at = c, !.parent = call.at]
      /\ tree' = tree /\ result' = result
  BY DEF MinOn
<1>2. /\ Whole(tree) /\ (\E h : Even(tree, h)) /\ call \in CallType
      /\ call.at \in Members(tree) /\ call.side = "left"
  BY <1>1 DEF IInv, Good, Coloured, Located
<1>3. c \in Members(tree) \cup {Nil} /\ Members(tree) \subseteq Nodes
  BY <1>2, LinkFacts DEF Sides
<1>. HIDE DEF c
<1>4. /\ call' \in CallType /\ call'.stage = "min" /\ call'.at = c
      /\ call'.parent = call.at /\ call'.side = "left"
  BY <1>1, <1>2, <1>3 DEF CallType
<1>5. Coloured(tree, call')
  BY <1>2, <1>4 DEF Coloured
<1>6. Located(tree, call')
  BY <1>1, <1>2, <1>3, <1>4 DEF Located, Searches, c
<1>. QED
  BY <1>1, <1>2, <1>4, <1>5, <1>6 DEF IInv, Good

LEMMA IInvStep == IInv /\ [Next]_vars => IInv'
<1>. SUFFICES ASSUME IInv, [Next]_vars PROVE IInv'
  OBVIOUS
<1>0. call.at \in Nodes \cup {Nil} /\ call.parent \in Nodes \cup {Nil}
  BY DEF IInv, Good, CallType
<1>1. ASSUME NEW n \in Nodes, InsertBegin(n)
      PROVE  IInv'
  BY <1>1, BeginGood DEF InsertBegin
<1>2. ASSUME NEW n \in Nodes, FindBegin(n)
      PROVE  IInv'
  BY <1>2, BeginGood DEF FindBegin
<1>3. ASSUME NEW n \in Nodes, RemoveBegin(n)
      PROVE  IInv'
  BY <1>3, BeginGood DEF RemoveBegin
<1>4. CASE MinBegin
  BY <1>4, BeginGood DEF MinBegin
<1>5. CASE \E answer \in {"below", "above"} : SearchOn(answer)
  BY <1>5, SearchOnGood
<1>6. CASE ReturnFound
  <2>1. \E h : Even(tree, h)
    BY <1>6 DEF ReturnFound, Found, Searching, Searches, IInv, Good, Coloured
  <2>. QED
    BY <2>1, <1>0, <1>6, ReturnGood DEF ReturnFound
<1>7. CASE NotFound
  <2>1. \E h : Even(tree, h)
    BY <1>7 DEF NotFound, IInv, Good, Coloured
  <2>. QED
    BY <2>1, <1>7, ReturnGood DEF NotFound
<1>8. CASE MinEnd
  <2>1. \E h : Even(tree, h)
    BY <1>8 DEF MinEnd, IInv, Good, Coloured
  <2>. QED
    BY <2>1, <1>0, <1>8, ReturnGood DEF MinEnd
<1>9. CASE UNCHANGED vars
  BY <1>9 DEF vars, IInv
<1>. QED
  BY <1>1, <1>2, <1>3, <1>4, <1>5, <1>6, <1>7, <1>8, <1>9, InsertLinkGood,
     InsertColorOnGood, InsertColorEndGood, RemoveOuterGood, RemoveInnerGood,
     SuccessorOnGood, SuccessorEndGood, RemoveColorOnGood, RemoveColorEndGood,
     MinOnGood DEF Next, Step

LEMMA IInvImplies == IInv => TypeOK /\ WellLinked /\ WellBalanced
<1>. SUFFICES ASSUME IInv PROVE TypeOK /\ WellLinked /\ WellBalanced
  OBVIOUS
<1>1. TypeOK
  BY DEF TypeOK, IInv, Good, CallType, Whole, TreeType, Outside
<1>2. WellLinked
  BY DEF WellLinked, IInv, Good, Whole
<1>3. ASSUME Idle
      PROVE  ~IsRed(tree, tree.root) /\ NoRedPair(tree) /\ EvenBlack(tree)
  <2>1. \E h : Even(tree, h)
    BY <1>3 DEF Idle, IInv, Good, Coloured
  <2>. QED
    BY <2>1, EvenBalanced
<1>. QED
  BY <1>1, <1>2, <1>3 DEF WellBalanced

LEMMA IInvAlways == Spec => []IInv
BY IInvInit, IInvStep, PTL DEF Spec

-----------------------------------------------------------------------------
(***************************************************************************)
(* The theorems.  Nothing is assumed of what cmp answers.                  *)
(***************************************************************************)

\* RB_INSERT, RB_FIND, RB_REMOVE and RB_MIN keep every field in its type and
\* leave nothing behind in the fields of a node that is in no tree.
THEOREM TypesHold == Spec => []TypeOK
BY IInvAlways, IInvImplies, PTL

\* Whatever cmp answers, after every round of every loop the links of RB_ENTRY
\* make one tree of all members: no rotation, link or removal loses a node.
THEOREM TreesStayLinked == Spec => []WellLinked
BY IInvAlways, IInvImplies, PTL

\* Whatever cmp answers, RB_INSERT_COLOR and RB_REMOVE_COLOR leave a red-black
\* tree behind: a black root, no red pair, as many black nodes on every way.
THEOREM TreesStayBalanced == Spec => []WellBalanced
BY IInvAlways, IInvImplies, PTL
=============================================================================
