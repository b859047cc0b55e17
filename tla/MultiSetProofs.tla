--------------------------- MODULE MultiSetProofs ----------------------------
(* The order of the nodes in a tree: what the routines of rbtree.c keep of   *)
(* it, the search and the iteration of simi.c that rely on it, and the       *)
(* sorted list that the trees and the multisets implement, for any number    *)
(* of sets and Data objects and any values.                                  *)
EXTENDS MultiSet, RBTreeProofs, SequenceTheorems

-----------------------------------------------------------------------------
(* The order between two iterations.                                        *)

\* A key for every node stands for an order of the nodes: Val for the order that the
\* search relies on, positions in a list for the order of iteration.  On the left of
\* a node are keys no larger than its own, on the right none smaller.
Sorted(K, s, x, n) == IF s = "left" THEN K[x] <= K[n] ELSE K[n] <= K[x]

Ordered(K, t) ==
    \A n, x \in t.nodes, s \in Side : t.child[s][n] \in Anc(t, x) => Sorted(K, s, x, n)

\* The descent of rb_insert_data turned left at the larger values that it passed, and
\* right at the others.
Turned ==
    \A x \in T.nodes, s \in Side : T.child[s][x] \in Anc(T, par) =>
        s = IF Val[x] > Val[node] THEN "left" ELSE "right"

\* The search for the successor of old is in its right subtree, and went to the left
\* of every node of that subtree that it has passed.
SuccessorPath ==
    LET right == T.child["right"][old]
    IN  /\ right \in Anc(T, node)
        /\ \A x \in T.nodes : right \in Anc(T, x) =>
            \/ node \in Anc(T, x)
            \/ \E z \in T.nodes : /\ T.child["left"][z] \in Anc(T, node)
                                  /\ x = z \/ T.child["right"][z] \in Anc(T, x)

StructInv ==
    /\ LinksInv
    /\ pc = "descend" => Turned
    /\ pc = "successor" => SuccessorPath

\* Sorted is an order seen from two sides.
LEMMA SortedOrder ==
    ASSUME NEW K \in [Node -> Nat], NEW s \in Side, NEW x \in Node, NEW y \in Node, NEW z \in Node
    PROVE  /\ Sorted(K, s, x, y) /\ Sorted(K, s, y, z) => Sorted(K, s, x, z)
           /\ Sorted(K, Opp(s), x, y) <=> Sorted(K, s, y, x)
<1>1. CASE s = "left"
  BY <1>1, RBAssumption DEF Sorted, Opp
<1>2. CASE s = "right"
  BY <1>2, RBAssumption DEF Sorted, Opp
<1>. QED  BY <1>1, <1>2 DEF Side

-----------------------------------------------------------------------------
(* The nodes below a node.                                                  *)

Below(t, n) == {x \in t.nodes : n \in Anc(t, x)}

\* The subtree of a node has the node and the subtrees of its children in it.
LEMMA BelowFacts ==
    ASSUME NEW t \in Tree, WF(t), NEW n \in t.nodes
    PROVE  /\ n \in Below(t, n) /\ Below(t, n) \subseteq t.nodes
           /\ \A m \in Below(t, n) : Below(t, m) \subseteq Below(t, n)
           /\ \A s \in Side : /\ Below(t, t.child[s][n]) \subseteq Below(t, n)
                              /\ n \notin Below(t, t.child[s][n])
<1>1. n \in Below(t, n) /\ Below(t, n) \subseteq t.nodes
  <2>1. n \in Anc(t, n) \cup {Nil} /\ n # Nil
    BY AncClosed, LinksAt
  <2>. QED  BY <2>1 DEF Below
<1>2. ASSUME NEW m \in Below(t, n), NEW x \in Below(t, m) PROVE x \in Below(t, n)
  <2>1. m \in t.nodes /\ x \in t.nodes /\ n \in Anc(t, m) /\ m \in Anc(t, x)
    BY DEF Below
  <2>2. Anc(t, x) \in SUBSET t.nodes /\ UpClosed(t, Anc(t, x))
    BY <2>1, AncClosed
  <2>3. Anc(t, m) \subseteq Anc(t, x)
    BY <2>1, <2>2, AncClosed
  <2>. QED  BY <2>1, <2>3 DEF Below
<1>3. ASSUME NEW s \in Side
      PROVE  /\ Below(t, t.child[s][n]) \subseteq Below(t, n)
             /\ n \notin Below(t, t.child[s][n])
  <2>1. CASE t.child[s][n] = Nil
    <3>1. ASSUME NEW x \in t.nodes PROVE Nil \notin Anc(t, x)
      BY AncClosed, LinksAt
    <3>. QED  BY <2>1, <3>1 DEF Below
  <2>2. CASE t.child[s][n] # Nil
    <3>. DEFINE c == t.child[s][n]
    <3>1. c \in t.nodes /\ t.parent[c] = n
      BY <2>2, LinksAt
    <3>2. Anc(t, c) = {c} \cup Anc(t, n) /\ c \notin Anc(t, n)
      BY <3>1, AncStep, AncProper
    <3>3. n \in Anc(t, n)
      BY <1>1 DEF Below
    <3>4. c \in Below(t, n) /\ n \notin Below(t, c)
      BY <3>1, <3>2, <3>3 DEF Below
    <3>. QED  BY <1>2, <3>4
  <2>. QED  BY <2>1, <2>2
<1>. QED  BY <1>1, <1>2, <1>3

\* What Ordered says of subtrees.
LEMMA OrderedBelow ==
    ASSUME NEW K \in [Node -> Nat], NEW t \in Tree, WF(t), Ordered(K, t), NEW n \in t.nodes, NEW s \in Side,
           NEW x \in Below(t, t.child[s][n])
    PROVE  Sorted(K, s, x, n) /\ x \in t.nodes /\ x \in Node
BY LinksAt DEF Below, Ordered

\* A tree is ordered if some sets contain its subtrees and are on the right sides.
Covers(K, t, b) ==
    \A n \in t.nodes :
        /\ n \in b[n]
        /\ \A s \in Side : t.child[s][n] # Nil =>
            b[t.child[s][n]] \subseteq b[n] /\ \A x \in b[t.child[s][n]] : Sorted(K, s, x, n)

LEMMA CoversOrdered ==
    ASSUME NEW K \in [Node -> Nat], NEW t \in Tree, WF(t), NEW b, Covers(K, t, b)
    PROVE  Ordered(K, t)
<1>. SUFFICES ASSUME NEW n \in t.nodes, NEW x \in t.nodes, NEW s \in Side,
                     t.child[s][n] \in Anc(t, x)
              PROVE  Sorted(K, s, x, n)
  BY DEF Ordered
<1>. DEFINE S == {y \in t.nodes : x \in b[y]}
<1>1. ASSUME NEW y \in S PROVE t.parent[y] \in S \cup {Nil}
  <2>. SUFFICES ASSUME t.parent[y] # Nil PROVE t.parent[y] \in S
    OBVIOUS
  <2>1. t.parent[y] \in t.nodes /\ y \in t.nodes /\ y # Nil
    BY LinksAt
  <2>2. PICK d \in Side : t.child[d][t.parent[y]] = y
    BY <2>1, LinksAt
  <2>3. b[y] \subseteq b[t.parent[y]]
    BY <2>1, <2>2 DEF Covers
  <2>. QED  BY <2>1, <2>3
<1>2. S \in SUBSET t.nodes /\ UpClosed(t, S) /\ x \in S
  BY <1>1 DEF UpClosed, Covers
<1>3. Anc(t, x) \subseteq S
  <2>. HIDE DEF S
  <2>. QED  BY <1>2, AncClosed
<1>4. x \in b[t.child[s][n]] /\ t.child[s][n] # Nil
  BY <1>3, LinksAt
<1>. QED  BY <1>4 DEF Covers

\* Painting and freeing keep the order.
LEMMA SameOrdered ==
    ASSUME NEW K \in [Node -> Nat], NEW t \in Tree, WF(t), Ordered(K, t), NEW u \in Tree, SamePointers(t, u)
    PROVE  Ordered(K, u)
<1>. DEFINE b == [m \in Node |-> Below(t, m)]
<1>1. WF(u) /\ u.nodes = t.nodes /\ t.nodes \subseteq Node
  BY SamePointersWF DEF SamePointers, Tree
<1>2. Covers(K, u, b)
  <2>. SUFFICES ASSUME NEW n \in t.nodes
                PROVE  /\ n \in b[n]
                       /\ \A s \in Side : u.child[s][n] # Nil =>
                            b[u.child[s][n]] \subseteq b[n] /\ \A x \in b[u.child[s][n]] : Sorted(K, s, x, n)
    BY <1>1 DEF Covers
  <2>1. n \in Node /\ n \in Below(t, n) /\ \A s \in Side : Below(t, t.child[s][n]) \subseteq Below(t, n)
    BY <1>1, BelowFacts
  <2>2. ASSUME NEW s \in Side PROVE u.child[s][n] = t.child[s][n] /\ (t.child[s][n] # Nil => t.child[s][n] \in Node)
    BY <1>1, LinksAt DEF SamePointers
  <2>3. ASSUME NEW s \in Side, NEW x \in Below(t, t.child[s][n]) PROVE Sorted(K, s, x, n)
    BY OrderedBelow
  <2>. QED  BY <2>1, <2>2, <2>3
<1>. QED  BY <1>1, <1>2, CoversOrdered

\* The subtrees of an ordered tree.
LEMMA TreeOrder ==
    ASSUME NEW K \in [Node -> Nat], NEW t \in Tree, WF(t), Ordered(K, t)
    PROVE  /\ t.nodes \subseteq Node /\ Nil \notin t.nodes
           /\ \A m \in t.nodes :
                /\ m \in Below(t, m) /\ Below(t, m) \subseteq t.nodes
                /\ \A d \in Side : /\ t.child[d][m] \in t.nodes \cup {Nil}
                                   /\ Below(t, t.child[d][m]) \subseteq Below(t, m)
                                   /\ m \notin Below(t, t.child[d][m])
                                   /\ \A x \in Below(t, t.child[d][m]) : Sorted(K, d, x, m)
<1>1. t.nodes \subseteq Node /\ Nil \notin t.nodes
  BY RBAssumption DEF Tree
<1>2. ASSUME NEW m \in t.nodes, NEW d \in Side
      PROVE  /\ t.child[d][m] \in t.nodes \cup {Nil}
             /\ \A x \in Below(t, t.child[d][m]) : Sorted(K, d, x, m)
  BY LinksAt, OrderedBelow
<1>. QED  BY <1>1, <1>2, BelowFacts

\* A rotation keeps the order.
LEMMA RotatedOrdered ==
    ASSUME NEW K \in [Node -> Nat], NEW t \in Tree, WF(t), Ordered(K, t), NEW n \in t.nodes, NEW s \in Side,
           t.child[Opp(s)][n] # Nil, NEW u \in Tree, WF(u), Rotated(t, u, n, s)
    PROVE  Ordered(K, u)
<1>. DEFINE up    == t.child[Opp(s)][n]
            inner == t.child[s][up]
            p     == t.parent[n]
            low   == t.child[s][n]
            b == [m \in Node |-> IF m = up THEN Below(t, n)
                                 ELSE IF m = n THEN {n} \cup Below(t, low) \cup Below(t, inner)
                                 ELSE Below(t, m)]
<1>1. Opp(s) \in Side /\ Opp(s) # s /\ \A d \in Side : d = s \/ d = Opp(s)
  BY OppSide DEF Opp, Side
<1>2. /\ t.nodes \subseteq Node /\ Nil \notin t.nodes
      /\ \A m \in t.nodes :
                /\ m \in Below(t, m) /\ Below(t, m) \subseteq t.nodes
                /\ \A d \in Side : /\ t.child[d][m] \in t.nodes \cup {Nil}
                                   /\ Below(t, t.child[d][m]) \subseteq Below(t, m)
                                   /\ \A x \in Below(t, t.child[d][m]) : Sorted(K, d, x, m)
  BY TreeOrder
<1>3. /\ up \in t.nodes /\ up # n /\ up # p /\ p # n
      /\ inner \in t.nodes \cup {Nil} /\ inner # n /\ inner # up
      /\ low \in t.nodes \cup {Nil} /\ low # n /\ low # up
  BY <1>1, <1>2, LinksAt, Distinct
<1>4. \A m \in t.nodes, d \in Side :
        /\ t.child[d][m] = n => m = p
        /\ t.child[d][m] = up => m = n
  <2>1. \A m \in t.nodes, d \in Side : t.child[d][m] # Nil => t.parent[t.child[d][m]] = m
    BY LinksAt
  <2>2. n # Nil /\ up # Nil /\ t.parent[up] = n
    BY <1>1, <1>2, <1>3, <2>1
  <2>. QED  BY <2>1, <2>2
<1>5. /\ u.nodes = t.nodes
      /\ \A d \in Side, m \in t.nodes : u.child[d][m] =
             IF m = n /\ d = Opp(s) THEN inner
             ELSE IF m = up /\ d = s THEN n
             ELSE IF m = p /\ t.child[d][p] = n THEN up
             ELSE t.child[d][m]
  BY DEF Rotated
<1>6. \A d \in Side : t.child[d][up] # up /\ t.child[d][up] # n
  BY <1>1, <1>3, LinksAt, Distinct
<1>a. up = t.child[Opp(s)][n] /\ inner = t.child[s][up] /\ low = t.child[s][n]
  OBVIOUS
<1>. HIDE DEF up, inner, low, p
<1>7. b[up] = Below(t, n) /\ b[n] = {n} \cup Below(t, low) \cup Below(t, inner)
      /\ \A m \in t.nodes : m # n /\ m # up => b[m] = Below(t, m)
  BY <1>2, <1>3
<1>. HIDE DEF b
<1>8. /\ Below(t, up) \subseteq Below(t, n) /\ Below(t, low) \subseteq Below(t, n)
      /\ Below(t, inner) \subseteq Below(t, up) /\ up \in Below(t, up)
  BY <1>1, <1>2, <1>3, <1>a
<1>9. Sorted(K, s, n, up)
  <2>1. Sorted(K, Opp(s), up, n)
    BY <1>1, <1>2, <1>8, <1>a
  <2>. QED  BY <1>2, <1>3, <2>1, SortedOrder
<1>10. ASSUME NEW m \in t.nodes, NEW d \in Side, u.child[d][m] # Nil
       PROVE  b[u.child[d][m]] \subseteq b[m] /\ \A x \in b[u.child[d][m]] : Sorted(K, d, x, m)
  <2>1. CASE m = n /\ d = Opp(s)
    <3>1. u.child[d][m] = inner /\ b[inner] = Below(t, inner)
      BY <1>3, <1>5, <1>7, <1>10, <2>1
    <3>2. \A x \in Below(t, inner) : Sorted(K, Opp(s), x, n)
      BY <1>1, <1>2, <1>8, <1>a
    <3>. QED  BY <1>7, <2>1, <3>1, <3>2
  <2>2. CASE m = n /\ d = s
    <3>1. u.child[d][m] = low /\ b[low] = Below(t, low)
      <4>1. u.child[d][m] = low
        BY <1>1, <1>3, <1>5, <1>a, <2>2
      <4>. QED  BY <1>3, <1>7, <1>10, <4>1
    <3>2. \A x \in Below(t, low) : Sorted(K, s, x, n)
      BY <1>2, <1>a
    <3>. QED  BY <1>7, <2>2, <3>1, <3>2
  <2>3. CASE m = up /\ d = s
    <3>1. u.child[d][m] = n
      BY <1>1, <1>3, <1>5, <2>3
    <3>2. b[n] \subseteq b[up]
      BY <1>2, <1>7, <1>8
    <3>3. ASSUME NEW x \in b[n] PROVE Sorted(K, s, x, up)
      <4>1. CASE x = n
        BY <1>9, <4>1
      <4>2. CASE x \in Below(t, low)
        <5>1. Sorted(K, s, x, n) /\ x \in Node
          BY <1>2, <1>8, <1>a, <4>2
        <5>. QED  BY <1>2, <1>3, <1>9, <5>1, SortedOrder
      <4>3. CASE x \in Below(t, inner)
        BY <1>2, <1>3, <1>a, <4>3
      <4>. QED  BY <1>7, <3>3, <4>1, <4>2, <4>3
    <3>. QED  BY <2>3, <3>1, <3>2, <3>3
  <2>4. CASE m = up /\ d = Opp(s)
    <3>1. u.child[d][m] = t.child[d][m] /\ t.child[d][m] # n /\ t.child[d][m] # up
      BY <1>1, <1>3, <1>5, <1>6, <2>4
    <3>2. b[t.child[d][m]] = Below(t, t.child[d][m])
      BY <1>2, <1>7, <1>10, <3>1
    <3>. QED  BY <1>2, <1>3, <1>7, <1>8, <2>4, <3>1, <3>2
  <2>5. CASE m # n /\ m # up /\ t.child[d][m] = n
    <3>1. m = p /\ u.child[d][m] = up
      BY <1>4, <1>5, <2>5
    <3>. QED  BY <1>2, <1>7, <2>5, <3>1
  <2>6. CASE m # n /\ m # up /\ t.child[d][m] # n
    <3>1. u.child[d][m] = t.child[d][m] /\ t.child[d][m] # up
      BY <1>4, <1>5, <2>6
    <3>2. b[t.child[d][m]] = Below(t, t.child[d][m]) /\ b[m] = Below(t, m)
      BY <1>2, <1>7, <1>10, <2>6, <3>1
    <3>. QED  BY <1>2, <3>1, <3>2
  <2>. QED  BY <1>1, <2>1, <2>2, <2>3, <2>4, <2>5, <2>6
<1>11. \A m \in t.nodes : m \in b[m]
  BY <1>2, <1>7, <1>8
<1>12. Covers(K, u, b)
  BY <1>5, <1>10, <1>11 DEF Covers
<1>. QED  BY <1>12, CoversOrdered

\* Taking out a node with at most one child keeps the order.
LEMMA CutOrdered ==
    ASSUME NEW K \in [Node -> Nat], NEW t \in Tree, WF(t), Ordered(K, t), NEW n \in t.nodes, NEW c, OnlyChild(t, n, c),
           NEW u \in Tree, WF(u), Cut(t, u, n, c)
    PROVE  /\ Ordered(K, u)
           /\ \A m \in u.nodes, x \in u.nodes : m \in Anc(u, x) => m \in Anc(t, x)
<1>. DEFINE p == t.parent[n]
            b == [m \in Node |-> Below(t, m)]
<1>1. /\ t.nodes \subseteq Node /\ Nil \notin t.nodes
      /\ \A m \in t.nodes :
                /\ m \in Below(t, m) /\ Below(t, m) \subseteq t.nodes
                /\ \A d \in Side : /\ t.child[d][m] \in t.nodes \cup {Nil}
                                   /\ Below(t, t.child[d][m]) \subseteq Below(t, m)
                                   /\ \A x \in Below(t, t.child[d][m]) : Sorted(K, d, x, m)
  BY TreeOrder
<1>2. /\ u.nodes = t.nodes \ {n}
      /\ \A x \in u.nodes : u.parent[x] = IF x = c THEN p ELSE t.parent[x]
      /\ \A d \in Side, x \in u.nodes : u.child[d][x] =
           IF x = p /\ t.child[d][p] = n THEN c ELSE t.child[d][x]
  BY DEF Cut
<1>3. \A m \in Node : b[m] = Below(t, m)
  OBVIOUS
<1>4. c \in t.nodes \cup {Nil} /\ Below(t, c) \subseteq Below(t, n) /\ (c # Nil => t.parent[c] = n)
  BY <1>1, OppSide, LinksAt DEF OnlyChild
<1>. HIDE DEF b
<1>5. ASSUME NEW m \in u.nodes, NEW d \in Side, u.child[d][m] # Nil
      PROVE  b[u.child[d][m]] \subseteq b[m] /\ \A x \in b[u.child[d][m]] : Sorted(K, d, x, m)
  <2>0. m \in t.nodes /\ m \in Node /\ b[m] = Below(t, m)
    BY <1>1, <1>2, <1>3
  <2>1. CASE m = p /\ t.child[d][p] = n
    <3>1. u.child[d][m] = c /\ c \in Node
      BY <1>1, <1>2, <1>4, <1>5, <2>1
    <3>. QED  BY <1>1, <1>3, <1>4, <2>0, <2>1, <3>1
  <2>2. CASE ~(m = p /\ t.child[d][p] = n)
    <3>1. u.child[d][m] = t.child[d][m] /\ t.child[d][m] \in Node
      BY <1>1, <1>2, <1>5, <2>0, <2>2
    <3>. QED  BY <1>1, <1>3, <2>0, <3>1
  <2>. QED  BY <2>1, <2>2
<1>6. Covers(K, u, b)
  BY <1>1, <1>2, <1>3, <1>5 DEF Covers
<1>7. Ordered(K, u)
  BY <1>6, CoversOrdered
<1>8. ASSUME NEW x \in u.nodes PROVE Anc(u, x) \subseteq Anc(t, x)
  <2>. DEFINE S == Anc(t, x) \ {n}
  <2>1. Anc(t, x) \in SUBSET t.nodes /\ UpClosed(t, Anc(t, x)) /\ x \in Anc(t, x)
    BY <1>1, <1>2, AncClosed
  <2>2. ASSUME NEW y \in S PROVE u.parent[y] \in S \cup {Nil}
    <3>1. y \in u.nodes /\ y \in Anc(t, x) /\ u.parent[y] \in u.nodes \cup {Nil}
      BY <1>2, <2>1, LinksAt
    <3>2. CASE y = c
      <4>1. t.parent[y] = n
        BY <1>1, <1>4, <2>1, <3>1, <3>2
      <4>2. n \in Anc(t, x)
        BY <1>1, <2>1, <3>1, <4>1 DEF UpClosed
      <4>3. p \in Anc(t, x) \cup {Nil}
        BY <2>1, <4>2 DEF UpClosed
      <4>. QED  BY <1>2, <3>1, <3>2, <4>3
    <3>3. CASE y # c
      BY <1>2, <2>1, <3>1, <3>3 DEF UpClosed
    <3>. QED  BY <3>2, <3>3
  <2>3. S \in SUBSET u.nodes /\ UpClosed(u, S) /\ x \in S \cup {Nil}
    BY <1>2, <2>1, <2>2 DEF UpClosed
  <2>4. Anc(u, x) \subseteq S
    <3>. HIDE DEF S
    <3>. QED  BY <2>3, AncClosed
  <2>. QED  BY <2>4
<1>. QED  BY <1>7, <1>8

\* A node takes the place of another and keeps the order, if it belongs there.
LEMMA ReplacedOrdered ==
    ASSUME NEW K \in [Node -> Nat], NEW t \in Tree, WF(t), Ordered(K, t), NEW v \in t.nodes, NEW n \in Node, n \notin t.nodes,
           NEW u \in Tree, WF(u), Replaced(t, u, v, n),
           \A s \in Side : \A x \in Below(t, t.child[s][v]) : Sorted(K, s, x, n),
           \A y \in t.nodes, s \in Side : v \in Below(t, t.child[s][y]) => Sorted(K, s, n, y)
    PROVE  Ordered(K, u)
<1>. DEFINE p == t.parent[v]
            b == [m \in Node |-> IF m = n THEN {n} \cup Below(t, v)
                                 ELSE IF v \in Below(t, m) THEN Below(t, m) \cup {n}
                                 ELSE Below(t, m)]
<1>1. /\ t.nodes \subseteq Node /\ Nil \notin t.nodes
      /\ \A m \in t.nodes :
                /\ m \in Below(t, m) /\ Below(t, m) \subseteq t.nodes
                /\ \A d \in Side : /\ t.child[d][m] \in t.nodes \cup {Nil}
                                   /\ Below(t, t.child[d][m]) \subseteq Below(t, m)
                                   /\ m \notin Below(t, t.child[d][m])
                                   /\ \A x \in Below(t, t.child[d][m]) : Sorted(K, d, x, m)
  BY TreeOrder
<1>2. /\ u.nodes = (t.nodes \ {v}) \cup {n}
      /\ \A d \in Side, x \in u.nodes : u.child[d][x] =
             IF x = n THEN t.child[d][v]
             ELSE IF x = p /\ t.child[d][p] = v THEN n ELSE t.child[d][x]
  BY DEF Replaced
<1>3. /\ b[n] = {n} \cup Below(t, v)
      /\ \A m \in t.nodes : b[m] = IF v \in Below(t, m) THEN Below(t, m) \cup {n} ELSE Below(t, m)
  BY <1>1
<1>4. \A m \in t.nodes, d \in Side : t.child[d][m] = v => m = p
  BY <1>1, LinksAt
<1>. HIDE DEF b, p
<1>5. ASSUME NEW m \in u.nodes, NEW d \in Side, u.child[d][m] # Nil
      PROVE  b[u.child[d][m]] \subseteq b[m] /\ \A x \in b[u.child[d][m]] : Sorted(K, d, x, m)
  <2>1. CASE m = n
    <3>1. u.child[d][m] = t.child[d][v] /\ t.child[d][v] \in t.nodes
      BY <1>1, <1>2, <1>5, <2>1
    <3>2. b[t.child[d][v]] = Below(t, t.child[d][v])
      BY <1>1, <1>3, <3>1
    <3>. QED  BY <1>1, <1>3, <2>1, <3>1, <3>2
  <2>2. CASE m # n /\ t.child[d][m] = v
    <3>1. m \in t.nodes /\ m = p /\ u.child[d][m] = n
      BY <1>2, <1>4, <2>2
    <3>2. v \in Below(t, v) /\ Below(t, v) \subseteq Below(t, m) /\ Sorted(K, d, n, m)
      BY <1>1, <2>2, <3>1
    <3>3. b[m] = Below(t, m) \cup {n}
      BY <1>3, <3>1, <3>2
    <3>. QED  BY <1>1, <1>3, <2>2, <3>1, <3>2, <3>3
  <2>3. CASE m # n /\ t.child[d][m] # v
    <3>. DEFINE c == t.child[d][m]
    <3>1. m \in t.nodes /\ u.child[d][m] = c /\ c \in t.nodes
      BY <1>1, <1>2, <1>4, <1>5, <2>3
    <3>2. Below(t, c) \subseteq Below(t, m) /\ \A x \in Below(t, c) : Sorted(K, d, x, m)
      BY <1>1, <3>1
    <3>3. v \in Below(t, c) => Sorted(K, d, n, m)
      BY <3>1
    <3>. HIDE DEF c
    <3>4. b[c] = IF v \in Below(t, c) THEN Below(t, c) \cup {n} ELSE Below(t, c)
      BY <1>3, <3>1
    <3>5. b[m] = IF v \in Below(t, m) THEN Below(t, m) \cup {n} ELSE Below(t, m)
      BY <1>3, <3>1
    <3>6. CASE v \in Below(t, c)
      <4>1. b[c] = Below(t, c) \cup {n} /\ b[m] = Below(t, m) \cup {n}
        BY <3>2, <3>4, <3>5, <3>6
      <4>. QED  BY <3>1, <3>2, <3>3, <3>6, <4>1
    <3>7. CASE v \notin Below(t, c)
      <4>1. b[c] = Below(t, c) /\ Below(t, m) \subseteq b[m]
        BY <3>4, <3>5, <3>7
      <4>. QED  BY <3>1, <3>2, <4>1
    <3>. QED  BY <3>6, <3>7
  <2>. QED  BY <2>1, <2>2, <2>3
<1>6. ASSUME NEW m \in u.nodes PROVE m \in b[m]
  <2>1. CASE m = n
    BY <1>3, <2>1
  <2>2. CASE m # n
    <3>1. m \in t.nodes /\ m \in Below(t, m)
      BY <1>1, <1>2, <2>2
    <3>. QED  BY <1>3, <3>1
  <2>. QED  BY <2>1, <2>2
<1>7. Covers(K, u, b)
  BY <1>5, <1>6 DEF Covers
<1>. QED  BY <1>7, CoversOrdered

\* A new leaf keeps the order, if it belongs where it is put.
LEMMA LinkedOrdered ==
    ASSUME NEW K \in [Node -> Nat], NEW t \in Tree, WF(t), Ordered(K, t), NEW n \in Node, n \notin t.nodes,
           NEW p \in t.nodes \cup {Nil}, NEW s \in Side,
           NEW u \in Tree, WF(u), Linked(t, u, n, p, s),
           \A y \in t.nodes, d \in Side : p \in Below(t, t.child[d][y]) => Sorted(K, d, n, y),
           p # Nil => Sorted(K, s, n, p)
    PROVE  Ordered(K, u)
<1>. DEFINE b == [m \in Node |-> IF m = n THEN {n}
                                 ELSE IF p \in Below(t, m) THEN Below(t, m) \cup {n}
                                 ELSE Below(t, m)]
<1>1. /\ t.nodes \subseteq Node /\ Nil \notin t.nodes
      /\ \A m \in t.nodes :
                /\ m \in Below(t, m) /\ Below(t, m) \subseteq t.nodes
                /\ \A d \in Side : /\ t.child[d][m] \in t.nodes \cup {Nil}
                                   /\ Below(t, t.child[d][m]) \subseteq Below(t, m)
                                   /\ \A x \in Below(t, t.child[d][m]) : Sorted(K, d, x, m)
  BY TreeOrder
<1>2. /\ u.nodes = t.nodes \cup {n}
      /\ \A d \in Side, x \in u.nodes : u.child[d][x] =
           IF x = n THEN Nil ELSE IF x = p /\ d = s THEN n ELSE t.child[d][x]
  BY DEF Linked
<1>3. /\ b[n] = {n}
      /\ \A m \in t.nodes : b[m] = IF p \in Below(t, m) THEN Below(t, m) \cup {n} ELSE Below(t, m)
  BY <1>1
<1>. HIDE DEF b
<1>4. ASSUME NEW m \in u.nodes, NEW d \in Side, u.child[d][m] # Nil
      PROVE  b[u.child[d][m]] \subseteq b[m] /\ \A x \in b[u.child[d][m]] : Sorted(K, d, x, m)
  <2>1. m # n /\ m \in t.nodes
    BY <1>2, <1>4
  <2>2. CASE m = p /\ d = s
    <3>1. u.child[d][m] = n /\ p \in Below(t, m)
      BY <1>1, <1>2, <2>1, <2>2
    <3>2. b[m] = Below(t, m) \cup {n} /\ b[n] = {n}
      BY <1>3, <2>1, <3>1
    <3>3. Sorted(K, d, n, m)
      BY <1>1, <2>1, <2>2
    <3>. QED  BY <3>1, <3>2, <3>3
  <2>3. CASE ~(m = p /\ d = s)
    <3>. DEFINE c == t.child[d][m]
    <3>1. u.child[d][m] = c /\ c \in t.nodes
      BY <1>1, <1>2, <1>4, <2>1, <2>3
    <3>2. Below(t, c) \subseteq Below(t, m) /\ \A x \in Below(t, c) : Sorted(K, d, x, m)
      BY <1>1, <2>1
    <3>3. p \in Below(t, c) => Sorted(K, d, n, m)
      BY <2>1
    <3>. HIDE DEF c
    <3>. QED  BY <1>3, <2>1, <3>1, <3>2, <3>3
  <2>. QED  BY <2>2, <2>3
<1>5. ASSUME NEW m \in u.nodes PROVE m \in b[m]
  <2>1. CASE m = n
    BY <1>3, <2>1
  <2>2. CASE m # n
    <3>1. m \in t.nodes /\ m \in Below(t, m)
      BY <1>1, <1>2, <2>2
    <3>. QED  BY <1>3, <3>1
  <2>. QED  BY <2>1, <2>2
<1>6. Covers(K, u, b)
  BY <1>4, <1>5 DEF Covers
<1>. QED  BY <1>6, CoversOrdered

\* A node that is below another one is below one of its children.
LEMMA AncChild ==
    ASSUME NEW t \in Tree, WF(t), NEW n \in t.nodes, NEW x \in t.nodes, n \in Anc(t, x), x # n
    PROVE  \E s \in Side : t.child[s][n] \in Anc(t, x)
<1>. DEFINE D == {y \in Anc(t, x) : n \in Anc(t, y) /\ y # n}
<1>1. Anc(t, x) \in SUBSET t.nodes /\ UpClosed(t, Anc(t, x)) /\ x \in Anc(t, x)
  BY AncClosed, LinksAt
<1>2. D \in SUBSET t.nodes /\ x \in D
  BY <1>1
<1>3. PICK y \in D : t.parent[y] \notin D
  <2>. HIDE DEF D
  <2>. QED  BY <1>2 DEF WF, Acyclic
<1>4. y \in t.nodes /\ y \in Anc(t, x) /\ n \in Anc(t, t.parent[y])
  BY <1>1, AncStep
<1>5. t.parent[y] # Nil
  BY <1>4, AncClosed
<1>6. t.parent[y] \in Anc(t, x)
  BY <1>1, <1>4, <1>5 DEF UpClosed
<1>7. t.parent[y] = n
  BY <1>3, <1>4, <1>6
<1>. QED  BY <1>4, <1>5, <1>7, LinksAt

\* What is above a node is above the nodes below it.
LEMMA AncTrans ==
    ASSUME NEW t \in Tree, WF(t), NEW x \in t.nodes, NEW n \in Anc(t, x)
    PROVE  n \in t.nodes /\ n \in Anc(t, n) /\ Anc(t, n) \subseteq Anc(t, x) /\ x \in Anc(t, x)
           /\ (t.parent[n] # Nil => t.parent[n] \in Anc(t, x))
<1>1. Anc(t, x) \in SUBSET t.nodes /\ UpClosed(t, Anc(t, x)) /\ x \in Anc(t, x)
  BY AncClosed, LinksAt
<1>2. n \in t.nodes
  BY <1>1
<1>3. n \in Anc(t, n) /\ Anc(t, n) \subseteq Anc(t, x)
  BY <1>1, <1>2, AncClosed, LinksAt
<1>. QED  BY <1>1, <1>2, <1>3 DEF UpClosed

-----------------------------------------------------------------------------
(* The routines.                                                            *)

\* Whatever order of the nodes t is in, u is in it too.
Same(t, u) ==
    /\ u \in Tree /\ WF(u) /\ u.nodes = t.nodes
    /\ \A K \in [Node -> Nat] : Ordered(K, t) => Ordered(K, u)

\* Painting, rotating and freeing.
LEMMA PaintSame ==
    ASSUME NEW o, NEW t, Same(o, t), NEW n \in Ptr, NEW c \in {RED, BLACK}
    PROVE  Same(o, Paint(t, n, c)) /\ SamePointers(t, Paint(t, n, c))
<1>1. t \in Tree /\ WF(t)
  BY DEF Same
<1>2. Paint(t, n, c) \in Tree /\ WF(Paint(t, n, c)) /\ SamePointers(t, Paint(t, n, c))
  BY <1>1, PaintWF
<1>3. ASSUME NEW K \in [Node -> Nat], Ordered(K, o) PROVE Ordered(K, Paint(t, n, c))
  <2>1. Ordered(K, t)
    BY <1>3 DEF Same
  <2>. QED  BY <1>1, <1>2, <2>1, SameOrdered
<1>4. Paint(t, n, c).nodes = o.nodes
  BY <1>2 DEF Same, SamePointers
<1>. QED  BY <1>2, <1>3, <1>4 DEF Same

LEMMA RotateSame ==
    ASSUME NEW o, NEW t, Same(o, t), NEW n \in t.nodes, NEW s \in Side, t.child[Opp(s)][n] # Nil
    PROVE  Same(o, Rotate(t, n, s)) /\ Rotate(t, n, s).nodes = t.nodes
<1>1. t \in Tree /\ WF(t)
  BY DEF Same
<1>2. Rotate(t, n, s) \in Tree /\ WF(Rotate(t, n, s)) /\ Rotate(t, n, s).nodes = t.nodes
  BY <1>1, RotateWF
<1>3. Rotated(t, Rotate(t, n, s), n, s)
  BY <1>1, RotateFields
<1>4. ASSUME NEW K \in [Node -> Nat], Ordered(K, o) PROVE Ordered(K, Rotate(t, n, s))
  <2>1. Ordered(K, t)
    BY <1>4 DEF Same
  <2>. QED  BY <1>1, <1>2, <1>3, <2>1, RotatedOrdered
<1>5. Rotate(t, n, s).nodes = o.nodes
  BY <1>2 DEF Same
<1>. QED  BY <1>2, <1>4, <1>5 DEF Same

LEMMA FreedSame == ASSUME NEW t \in Tree, WF(t) PROVE Same(t, Freed(t))
<1>1. Freed(t) \in Tree /\ SamePointers(t, Freed(t))
  BY FreedFields
<1>2. WF(Freed(t))
  BY <1>1, SamePointersWF
<1>3. ASSUME NEW K \in [Node -> Nat], Ordered(K, t) PROVE Ordered(K, Freed(t))
  BY <1>1, <1>3, SameOrdered
<1>. QED  BY <1>1, <1>2, <1>3 DEF Same, SamePointers

LEMMA SameTrans == ASSUME NEW o, NEW t, Same(o, t), NEW u, Same(t, u) PROVE Same(o, u)
BY DEF Same

\* A step of another kind: n, of a value as in the test, is new in u ...
Fits(K, t, n) ==
    \A x \in t.nodes : Sorted(K, IF Val[x] > Val[n] THEN "left" ELSE "right", n, x)

Adds(t, u, n) ==
    /\ n \in Node /\ n \notin t.nodes /\ u.nodes = t.nodes \cup {n}
    /\ \A K \in [Node -> Nat] : Ordered(K, t) /\ Fits(K, t, n) => Ordered(K, u)

\* ... n is gone ...
Drops(t, u, n) ==
    /\ n \in t.nodes /\ u.nodes = t.nodes \ {n}
    /\ \A K \in [Node -> Nat] : Ordered(K, t) => Ordered(K, u)

\* ... or n has the place of v.
Swaps(t, u, v, n) ==
    /\ v \in t.nodes /\ n \in Node /\ n \notin t.nodes /\ Val[n] = Val[v]
    /\ u.nodes = (t.nodes \ {v}) \cup {n}
    /\ \A K \in [Node -> Nat] : Ordered(K, t) /\ K[n] = K[v] => Ordered(K, u)

LEMMA DropsSame == ASSUME NEW t, NEW u, NEW n, NEW v, Drops(t, u, n), Same(u, v) PROVE Drops(t, v, n)
BY DEF Drops, Same

\* A store to one tree.
LEMMA Stored ==
    ASSUME LinksInv, NEW r \in Root, NEW u, trees' = [trees EXCEPT ![r] = u]
    PROVE  trees'[r] = u /\ \A q \in Root \ {r} : trees'[q] = trees[q]
BY DEF LinksInv, TypeInv, TypeOK

\* A routine in progress starts from its tree.
LEMMA WorksOnSame == ASSUME LinksInv, pc # "idle" PROVE cur \in Root /\ Same(T, T) /\ T \in Tree /\ WF(T)
BY WorksOn DEF Same

\* A link made by rb_insert_data puts the new node where the descent led.
LEMMA LinkAdds ==
    ASSUME StructInv, InsertLink
    PROVE  Adds(T, trees'[cur], node) /\ Unused(node)
<1>. DEFINE u == rb_link_node(T, node, par, LinkSide)
<1>0. LinksInv
  BY DEF StructInv
<1>1. pc = "descend" /\ Link = Nil /\ SetT(u)
  BY DEF InsertLink
<1>2. cur \in Root /\ T \in Tree /\ WF(T) /\ Turned /\ Unused(node) /\ par \in T.nodes \cup {Nil}
      /\ node \in Node /\ node \notin T.nodes
  BY <1>0, <1>1, WorksOnSame DEF StructInv, LinksInv, TypeInv, Unused, T
<1>3. LinkSide \in Side
  BY DEF LinkSide, Side
<1>4. Linked(T, u, node, par, LinkSide)
  BY <1>2, <1>3, LinkNodeFields
<1>. HIDE DEF u
<1>5. u \in Tree /\ WF(u) /\ u.nodes = T.nodes \cup {node}
  <2>1. IF par = Nil THEN T.root = Nil ELSE T.child[LinkSide][par] = Nil
    BY <1>1 DEF Link
  <2>2. u \in Tree /\ u.nodes = T.nodes \cup {node}
    BY <1>4 DEF Linked
  <2>. QED  BY <1>2, <1>3, <1>4, <2>1, <2>2, LinkedWF
<1>6. ASSUME NEW K \in [Node -> Nat], Ordered(K, T), Fits(K, T, node) PROVE Ordered(K, u)
  <2>1. ASSUME NEW y \in T.nodes, NEW d \in Side, par \in Below(T, T.child[d][y])
        PROVE  Sorted(K, d, node, y)
    <3>1. d = IF Val[y] > Val[node] THEN "left" ELSE "right"
      BY <1>2, <2>1 DEF Turned, Below
    <3>. QED  BY <1>6, <3>1 DEF Fits
  <2>2. par # Nil => Sorted(K, LinkSide, node, par)
    BY <1>2, <1>6 DEF Fits, LinkSide
  <2>. QED  BY <1>2, <1>3, <1>4, <1>5, <1>6, <2>1, <2>2, LinkedOrdered
<1>7. trees'[cur] = u
  BY <1>0, <1>1, <1>2, Stored DEF SetT
<1>. QED  BY <1>2, <1>5, <1>6, <1>7 DEF Adds

\* rb_insert_data and rb_insert_color: every other step keeps the order.
LEMMA InsertTree ==
    ASSUME StructInv, InsertStep
    PROVE  /\ cur \in Root
           /\ \/ Adds(T, trees'[cur], node) /\ Unused(node)
              \/ Same(T, trees'[cur])
<1>0. LinksInv
  BY DEF StructInv
<1>s. ASSUME pc # "idle", NEW u, SetT(u) PROVE trees'[cur] = u
  BY <1>0, <1>s, WorksOnSame, Stored DEF SetT
<1>1. CASE InsertDescend
  BY <1>0, <1>1, WorksOnSame DEF InsertDescend, T
<1>2. CASE InsertLink
  <2>1. pc # "idle"
    BY <1>2 DEF InsertLink
  <2>. QED  BY <1>0, <1>2, <2>1, WorksOnSame, LinkAdds
<1>3. CASE InsertRecolor
  <2>. DEFINE a == Paint(T, uncle, BLACK)
              b == Paint(a, parent, BLACK)
              u == Paint(b, gparent, RED)
  <2>1. pc = "insert_color" /\ InsertLoop /\ gparent # Nil /\ SetT(u) /\ pc' = pc
    BY <1>3 DEF InsertRecolor
  <2>2. cur \in Root /\ Same(T, T) /\ T \in Tree /\ WF(T) /\ node \in T.nodes
    BY <1>0, <2>1, WorksOnSame DEF LinksInv
  <2>3. parent \in T.nodes /\ parent \in Ptr
    BY <2>1, <2>2, LinksAt DEF InsertLoop, parent
  <2>4. gparent \in T.nodes /\ gparent \in Ptr
    BY <2>1, <2>2, <2>3, LinksAt DEF gparent
  <2>5. uncle \in Ptr
    <3>1. Opp(pside) \in Side
      BY DEF pside, Opp, Side
    <3>. QED  BY <2>2, <2>4, <3>1, LinksAt DEF uncle
  <2>6. Same(T, a)
    BY <2>2, <2>5, PaintSame
  <2>. HIDE DEF a
  <2>7. Same(T, b)
    BY <2>3, <2>6, PaintSame
  <2>. HIDE DEF b
  <2>8. Same(T, u)
    BY <2>4, <2>7, PaintSame
  <2>. HIDE DEF u
  <2>. QED  BY <1>s, <2>1, <2>2, <2>8
<1>4. CASE InsertRotate
  <2>. DEFINE inner == T.child[Opp(pside)][parent] = node
              t1 == IF inner THEN Rotate(T, parent, pside) ELSE T
              m  == IF inner THEN node ELSE parent
              a  == Paint(t1, m, BLACK)
              b  == Paint(a, gparent, RED)
              u  == Rotate(b, gparent, Opp(pside))
  <2>1. /\ pc = "insert_color" /\ InsertLoop /\ gparent # Nil
        /\ CanRotate(b, gparent, Opp(pside)) /\ SetT(u) /\ pc' = pc
    BY <1>4, Zenon DEF InsertRotate
  <2>2. cur \in Root /\ Same(T, T) /\ T \in Tree /\ WF(T) /\ node \in T.nodes /\ node # Nil /\ node \in Ptr
    BY <1>0, <2>1, WorksOnSame, LinksAt DEF LinksInv
  <2>3. parent \in T.nodes /\ parent \in Ptr
    BY <2>1, <2>2, LinksAt DEF InsertLoop, parent
  <2>4. gparent \in T.nodes /\ gparent \in Ptr
    BY <2>1, <2>2, <2>3, LinksAt DEF gparent
  <2>5. pside \in Side /\ Opp(pside) \in Side
    BY DEF pside, Opp, Side
  <2>6. Same(T, t1) /\ t1.nodes = T.nodes
    <3>1. CASE inner
      BY <2>2, <2>3, <2>5, <3>1, RotateSame
    <3>2. CASE ~inner
      BY <2>2, <3>2
    <3>. QED  BY <3>1, <3>2
  <2>7. m \in Ptr /\ CanRotate(b, gparent, Opp(pside))
    BY <2>1, <2>2, <2>3
  <2>. HIDE DEF t1, m
  <2>8. Same(T, a) /\ a.nodes = T.nodes
    BY <2>6, <2>7, PaintSame DEF SamePointers
  <2>. HIDE DEF a
  <2>9. Same(T, b) /\ b.nodes = T.nodes
    BY <2>4, <2>8, PaintSame DEF SamePointers
  <2>10. b.child[Opp(Opp(pside))][gparent] # Nil
    BY <2>7 DEF CanRotate
  <2>. HIDE DEF b
  <2>11. Same(T, u)
    BY <2>4, <2>5, <2>9, <2>10, RotateSame
  <2>. HIDE DEF u
  <2>. QED  BY <1>s, <2>1, <2>2, <2>11
<1>5. CASE InsertDone
  <2>. DEFINE u == Paint(T, T.root, BLACK)
  <2>1. pc = "insert_color" /\ SetT(u) /\ pc' = "idle"
    BY <1>5 DEF InsertDone, Return
  <2>2. cur \in Root /\ Same(T, T) /\ T.root \in Ptr
    BY <1>0, <2>1, WorksOnSame DEF Tree
  <2>3. Same(T, u)
    BY <2>2, PaintSame
  <2>. HIDE DEF u
  <2>. QED  BY <1>s, <2>1, <2>2, <2>3
<1>. QED  BY <1>1, <1>2, <1>3, <1>4, <1>5 DEF InsertStep


\* The tail of rb_erase.
LEMMA UnlinkedSame ==
    ASSUME LinksInv, NEW r \in Root, NEW t \in Tree, NEW c, NEW p, NEW color,
           NEW victim, Unlinked(r, t, c, p, color, victim),
           NEW u \in Tree, u = [t EXCEPT !.nodes = @ \ {victim}], WF(u)
    PROVE  Same(u, trees'[r]) /\ \A q \in Root \ {r} : trees'[q] = trees[q]
<1>1. CASE color = BLACK
  <2>1. trees' = [trees EXCEPT ![r] = u]
    BY <1>1 DEF Unlinked
  <2>2. Same(u, u)
    BY DEF Same
  <2>. QED  BY <2>1, <2>2, Stored
<1>2. CASE color # BLACK
  <2>1. trees' = [trees EXCEPT ![r] = Freed(u)]
    BY <1>2 DEF Unlinked
  <2>2. Same(u, Freed(u))
    BY FreedSame
  <2>. QED  BY <2>1, <2>2, Stored
<1>. QED  BY <1>1, <1>2

\* The search for the successor goes on to the left child.
LEMMA SuccessorLeft ==
    ASSUME NEW t \in Tree, WF(t), NEW top \in t.nodes, NEW n \in t.nodes, top \in Anc(t, n),
           \A x \in t.nodes : top \in Anc(t, x) =>
                \/ n \in Anc(t, x)
                \/ \E z \in t.nodes : /\ t.child["left"][z] \in Anc(t, n)
                                      /\ x = z \/ t.child["right"][z] \in Anc(t, x),
           t.child["left"][n] # Nil
    PROVE  LET m == t.child["left"][n]
           IN  /\ top \in Anc(t, m)
               /\ \A x \in t.nodes : top \in Anc(t, x) =>
                    \/ m \in Anc(t, x)
                    \/ \E z \in t.nodes : /\ t.child["left"][z] \in Anc(t, m)
                                          /\ x = z \/ t.child["right"][z] \in Anc(t, x)
<1>. DEFINE m == t.child["left"][n]
<1>1. m \in t.nodes /\ t.parent[m] = n
  BY LinksAt DEF Side
<1>2. Anc(t, m) = {m} \cup Anc(t, n)
  BY <1>1, AncStep
<1>3. ASSUME NEW x \in t.nodes, top \in Anc(t, x), m \notin Anc(t, x)
      PROVE  \E z \in t.nodes : /\ t.child["left"][z] \in Anc(t, m)
                                /\ x = z \/ t.child["right"][z] \in Anc(t, x)
  <2>1. CASE n \in Anc(t, x)
    <3>1. x = n \/ \E s \in Side : t.child[s][n] \in Anc(t, x)
      BY <2>1, AncChild
    <3>2. x = n \/ t.child["right"][n] \in Anc(t, x)
      BY <1>3, <3>1 DEF Side
    <3>. QED  BY <1>2, <3>2
  <2>2. CASE n \notin Anc(t, x)
    BY <1>2, <1>3, <2>2
  <2>. QED  BY <2>1, <2>2
<1>. QED  BY <1>2, <1>3

\* The successor belongs in the place of old: (a) its children stay on their sides
\* of it, (b) it stays on its side of the nodes above.
LEMMA SuccessorFits ==
    ASSUME NEW K \in [Node -> Nat], NEW t \in Tree, WF(t), Ordered(K, t),
           NEW v \in t.nodes, NEW n \in t.nodes,
           t.child["right"][v] \in Anc(t, n), t.child["left"][n] = Nil,
           \A x \in t.nodes : t.child["right"][v] \in Anc(t, x) => n \in Anc(t, x) \/ K[n] <= K[x],
           OnlyChild(t, n, t.child["right"][n]),
           NEW k \in Tree, WF(k), Cut(t, k, n, t.child["right"][n]), v \in k.nodes
    PROVE  /\ \A s \in Side : \A x \in Below(k, k.child[s][v]) : Sorted(K, s, x, n)
           /\ \A y \in k.nodes, s \in Side : v \in Below(k, k.child[s][y]) => Sorted(K, s, n, y)
<1>. DEFINE c == t.child["right"][n]
            p == t.parent[n]
<1>1. /\ k.nodes = t.nodes \ {n}
      /\ \A d \in Side, x \in k.nodes : k.child[d][x] =
           IF x = p /\ t.child[d][p] = n THEN c ELSE t.child[d][x]
  BY DEF Cut
<1>2. \A m \in k.nodes, x \in k.nodes : m \in Anc(k, x) => m \in Anc(t, x)
  BY CutOrdered
<1>3. n # Nil /\ n \in Node /\ v \in Node /\ Nil \notin t.nodes /\ "right" \in Side /\ "left" \in Side
  BY LinksAt, RBAssumption DEF Side, Tree
<1>4. c # Nil => c \in t.nodes /\ t.parent[c] = n
  BY <1>3, LinksAt
<1>. HIDE DEF c, p
\* What is below a child in k is below the same child in t.
<1>5. ASSUME NEW y \in k.nodes, NEW s \in Side, NEW x \in Below(k, k.child[s][y])
      PROVE  x \in t.nodes /\ x # n /\ t.child[s][y] \in Anc(t, x)
  <2>1. x \in k.nodes /\ k.child[s][y] \in Anc(k, x)
    BY DEF Below
  <2>2. k.child[s][y] \in k.nodes
    BY <2>1, AncClosed
  <2>3. x \in t.nodes /\ x # n /\ k.child[s][y] \in Anc(t, x)
    BY <1>1, <1>2, <2>1, <2>2
  <2>4. CASE y = p /\ t.child[s][p] = n
    <3>1. k.child[s][y] = c
      BY <1>1, <2>4
    <3>2. c # Nil /\ t.parent[c] = n
      BY <1>1, <1>3, <1>4, <2>2, <3>1
    <3>3. n \in Anc(t, x)
      BY <1>3, <2>3, <3>1, <3>2, AncTrans
    <3>. QED  BY <2>3, <2>4, <3>3
  <2>5. CASE ~(y = p /\ t.child[s][p] = n)
    BY <1>1, <2>3, <2>5
  <2>. QED  BY <2>4, <2>5
<1>6. Anc(t, v) \subseteq Anc(t, n) /\ t.child["right"][v] \in t.nodes
  <2>1. t.child["right"][v] \in t.nodes
    BY AncClosed
  <2>2. t.parent[t.child["right"][v]] = v /\ t.child["right"][v] # Nil
    BY <1>3, <2>1, LinksAt
  <2>3. v \in Anc(t, n)
    BY <1>3, <2>2, AncTrans
  <2>. QED  BY <2>1, <2>3, AncTrans
<1>7. K[v] <= K[n]
  BY <1>3 DEF Ordered, Sorted
<1>8. ASSUME NEW s \in Side, NEW x \in Below(k, k.child[s][v]) PROVE Sorted(K, s, x, n)
  <2>1. x \in t.nodes /\ x # n /\ t.child[s][v] \in Anc(t, x)
    BY <1>5
  <2>2. x \in Node /\ K[x] \in Nat /\ K[v] \in Nat /\ K[n] \in Nat
    BY <1>3, <2>1, LinksAt
  <2>3. CASE s = "left"
    <3>1. K[x] <= K[v]
      BY <1>3, <2>1, <2>3 DEF Ordered, Sorted
    <3>. QED  BY <1>7, <2>2, <2>3, <3>1 DEF Sorted
  <2>4. CASE s = "right"
    <3>1. CASE n \in Anc(t, x)
      <4>1. PICK d \in Side : t.child[d][n] \in Anc(t, x)
        BY <2>1, <3>1, AncChild
      <4>2. d # "left"
        BY <1>3, <2>1, <4>1, AncClosed
      <4>3. Sorted(K, "right", x, n)
        BY <2>1, <4>1, <4>2 DEF Ordered, Side
      <4>. QED  BY <2>4, <4>3
    <3>2. CASE K[n] <= K[x]
      BY <2>4, <3>2 DEF Sorted
    <3>. QED  BY <2>1, <2>4, <3>1, <3>2
  <2>. QED  BY <2>3, <2>4 DEF Side
<1>9. ASSUME NEW y \in k.nodes, NEW s \in Side, v \in Below(k, k.child[s][y]) PROVE Sorted(K, s, n, y)
  <2>1. t.child[s][y] \in Anc(t, v)
    BY <1>5, <1>9
  <2>2. t.child[s][y] \in Anc(t, n) /\ y \in t.nodes
    BY <1>1, <1>6, <2>1
  <2>. QED  BY <2>2 DEF Ordered
<1>. QED  BY <1>8, <1>9

\* The rotation that gives __rb_erase_color a black sibling keeps the order.
LEMMA BlackSiblingSame ==
    ASSUME Same(T, T), par \in T.nodes, CanRotate(T, par, side)
    PROVE  Same(T, BlackSibling)
<1>. DEFINE other == T.child[Opp(side)][par]
            a == Paint(T, other, BLACK)
            b == Paint(a, par, RED)
<1>0. T \in Tree /\ WF(T)
  BY DEF Same
<1>1. side \in Side /\ Opp(side) \in Side
  BY OppSide DEF side, Side
<1>2. other \in Ptr /\ other # Nil /\ par \in Ptr
  BY <1>0, <1>1, LinksAt DEF CanRotate
<1>. HIDE DEF other
<1>3. Same(T, a) /\ SamePointers(T, a)
  BY <1>2, PaintSame
<1>. HIDE DEF a
<1>4. Same(T, b) /\ SamePointers(a, b)
  BY <1>2, <1>3, PaintSame
<1>. HIDE DEF b
<1>5. par \in b.nodes /\ b.child[Opp(side)][par] # Nil
  BY <1>1, <1>2, <1>3, <1>4 DEF SamePointers, other
<1>6. Same(T, Rotate(b, par, side))
  BY <1>1, <1>4, <1>5, RotateSame
<1>. QED  BY <1>6 DEF BlackSibling, b, a, other

\* EraseSplice takes out old: its successor takes its place.
LEMMA SpliceDrops ==
    ASSUME StructInv, EraseSplice
    PROVE  Drops(T, trees'[cur], old)
<1>. DEFINE c == T.child["right"][node]
            q == IF T.parent[node] = old THEN node ELSE T.parent[node]
            z == T.color[node]
<1>0. LinksInv
  BY DEF StructInv
<1>1. PICK k, w, u, e : Spliced(k, w, u, e)
  BY <1>0, SpliceShape
<1>2. /\ k \in Tree /\ WF(k) /\ OnlyChild(T, node, c) /\ Cut(T, k, node, c)
      /\ w \in Tree /\ u \in Tree /\ u = [w EXCEPT !.nodes = @ \ {old}] /\ WF(u)
      /\ old \in k.nodes /\ node \notin k.nodes /\ Replaced(k, u, old, node)
      /\ Unlinked(cur, w, c, q, z, old)
  BY <1>1 DEF Spliced
<1>3. pc = "successor" /\ T.child["left"][node] = Nil
  BY DEF EraseSplice
<1>4. cur \in Root /\ T \in Tree /\ WF(T) /\ SuccessorPath /\ node \in T.nodes /\ old \in T.nodes /\ node \in Node
  BY <1>0, <1>3, WorksOnSame, LinksAt DEF StructInv, LinksInv, SuccessorBelow
<1>5. ASSUME NEW K \in [Node -> Nat], Ordered(K, T) PROVE Ordered(K, u)
  <2>. DEFINE right == T.child["right"][old]
  <2>1. ASSUME NEW x \in T.nodes, right \in Anc(T, x), node \notin Anc(T, x) PROVE K[node] <= K[x]
    <3>1. PICK y \in T.nodes : /\ T.child["left"][y] \in Anc(T, node)
                               /\ x = y \/ T.child["right"][y] \in Anc(T, x)
      BY <1>4, <2>1 DEF SuccessorPath
    <3>2. x \in Node /\ y \in Node
      BY <1>4, LinksAt
    <3>3. Sorted(K, "left", node, y)
      BY <1>4, <1>5, <3>1 DEF Ordered, Side
    <3>4. x = y \/ Sorted(K, "right", x, y)
      BY <1>4, <1>5, <3>1 DEF Ordered, Side
    <3>5. K[x] \in Nat /\ K[y] \in Nat /\ K[node] \in Nat
      BY <1>4, <3>2
    <3>. QED  BY <3>3, <3>4, <3>5 DEF Sorted
  <2>2. right \in Anc(T, node)
    BY <1>4 DEF SuccessorPath
  <2>3. Ordered(K, k)
    BY <1>2, <1>4, <1>5, CutOrdered
  <2>4. /\ \A s \in Side : \A x \in Below(k, k.child[s][old]) : Sorted(K, s, x, node)
        /\ \A y \in k.nodes, s \in Side : old \in Below(k, k.child[s][y]) => Sorted(K, s, node, y)
    BY <1>2, <1>3, <1>4, <1>5, <2>1, <2>2, SuccessorFits
  <2>. HIDE DEF c, q, z
  <2>. QED  BY <1>2, <1>4, <2>3, <2>4, ReplacedOrdered
<1>. HIDE DEF c, q, z
<1>6. u.nodes = T.nodes \ {old}
  <2>1. k.nodes = T.nodes \ {node} /\ u.nodes = (k.nodes \ {old}) \cup {node}
    BY <1>2 DEF Cut, Replaced
  <2>. QED  BY <1>2, <1>4, <2>1
<1>7. Drops(T, u, old)
  BY <1>4, <1>5, <1>6 DEF Drops
<1>8. Same(u, trees'[cur])
  BY <1>0, <1>2, <1>4, UnlinkedSame
<1>. QED  BY <1>7, <1>8, DropsSame

\* rb_erase after its search for the successor, and __rb_erase_color: every step
\* but the unlinking keeps the order.
LEMMA EraseTree ==
    ASSUME StructInv, EraseStep
    PROVE  /\ cur \in Root
           /\ Drops(T, trees'[cur], old) \/ Same(T, trees'[cur])
<1>0. LinksInv
  BY DEF StructInv
<1>s. ASSUME pc # "idle", NEW u, SetT(u) PROVE trees'[cur] = u
  BY <1>0, <1>s, WorksOnSame, Stored DEF SetT
<1>a. ASSUME pc = "erase_color", EraseLoop, CanRotate(T, par, side)
      PROVE  /\ cur \in Root /\ par \in T.nodes /\ side \in Side /\ Opp(side) \in Side
             /\ Same(T, BlackSibling) /\ BlackSibling \in Tree /\ WF(BlackSibling)
             /\ BlackSibling.nodes = T.nodes
  BY <1>0, <1>a, EraseWorksOn, WorksOnSame, BlackSiblingSame
<1>1. CASE EraseDescend
  BY <1>0, <1>1, WorksOnSame DEF EraseDescend, T
<1>2. CASE EraseSplice
  <2>1. pc # "idle"
    BY <1>2 DEF EraseSplice
  <2>. QED  BY <1>0, <1>2, <2>1, WorksOnSame, SpliceDrops
<1>3. CASE EraseRecolor
  <2>. DEFINE t == BlackSibling
              other == t.child[Opp(side)][par]
              u == Paint(t, other, RED)
  <2>1. /\ pc = "erase_color" /\ EraseLoop /\ CanRotate(T, par, side)
        /\ SetT(u) /\ pc' = pc
    BY <1>3 DEF EraseRecolor
  <2>2. /\ cur \in Root /\ par \in T.nodes /\ Opp(side) \in Side
        /\ Same(T, t) /\ t \in Tree /\ WF(t) /\ t.nodes = T.nodes
    BY <1>a, <2>1
  <2>. HIDE DEF t
  <2>3. other \in Ptr
    BY <2>2, LinksAt
  <2>. HIDE DEF other
  <2>4. Same(T, u)
    BY <2>2, <2>3, PaintSame
  <2>. HIDE DEF u
  <2>. QED  BY <1>s, <2>1, <2>2, <2>4
<1>4. CASE EraseRotate
  <2>. DEFINE s  == side
              t  == BlackSibling
              o  == t.child[Opp(s)][par]
              i  == t.child[s][o]
              a  == Paint(t, i, BLACK)
              b  == Paint(a, o, RED)
              t1 == IF IsBlack(t, t.child[Opp(s)][o]) THEN Rotate(b, o, Opp(s)) ELSE t
              other == t1.child[Opp(s)][par]
              c  == Paint(t1, other, t1.color[par])
              t2 == Paint(c, par, BLACK)
              f  == Paint(t2, t2.child[Opp(s)][other], BLACK)
              u  == Rotate(f, par, s)
  <2>1. /\ pc = "erase_color" /\ EraseLoop /\ CanRotate(T, par, s)
        /\ o # Nil /\ \E d \in Side : ~IsBlack(t, t.child[d][o])
        /\ CanRotate(t1, par, s) /\ SetT(u) /\ pc' = pc
    BY <1>4, Zenon DEF EraseRotate
  <2>. HIDE DEF s, t, o, i, a, b, t1, other, c, t2, f, u
  <2>2. /\ cur \in Root /\ par \in T.nodes /\ s \in Side /\ Opp(s) \in Side
        /\ Same(T, t) /\ t \in Tree /\ WF(t) /\ t.nodes = T.nodes
    BY <1>a, <2>1 DEF s, t
  <2>a. o # Nil /\ \E d \in Side : ~IsBlack(t, t.child[d][o])
    BY <2>1
  <2>b. CanRotate(t1, par, s)
    BY <2>1
  <2>. USE DEF o, i
  <2>3. o \in t.nodes /\ o \in Ptr
    <3>1. par \in t.nodes
      BY <2>2
    <3>2. t.child[Opp(s)][par] \in t.nodes \cup {Nil} /\ t.child[Opp(s)][par] \in Ptr
      BY <2>2, <3>1, LinksAt
    <3>. QED  BY <2>a, <3>2
  <2>4. i \in Ptr
    BY <2>2, <2>3, LinksAt
  <2>5. IsBlack(t, t.child[Opp(s)][o]) => i # Nil
    BY <2>2, <2>a DEF IsBlack, Side, Opp
  <2>. HIDE DEF o, i
  <2>. USE DEF a
  <2>6. Same(T, a) /\ SamePointers(t, a)
    BY <2>2, <2>4, PaintSame
  <2>. HIDE DEF a
  <2>. USE DEF b
  <2>7. Same(T, b) /\ SamePointers(a, b)
    BY <2>3, <2>6, PaintSame
  <2>. HIDE DEF b
  <2>. USE DEF t1
  <2>8. Same(T, t1) /\ t1 \in Tree /\ WF(t1) /\ t1.nodes = T.nodes
    <3>1. CASE IsBlack(t, t.child[Opp(s)][o])
      <4>1. o \in b.nodes /\ b.nodes = T.nodes /\ b.child[Opp(Opp(s))][o] # Nil
        BY <2>2, <2>3, <2>5, <2>6, <2>7, <3>1, OppSide DEF SamePointers, i
      <4>. QED  BY <2>2, <2>7, <3>1, <4>1, RotateSame DEF Same
    <3>2. CASE ~IsBlack(t, t.child[Opp(s)][o])
      BY <2>2, <3>2
    <3>. QED  BY <3>1, <3>2
  <2>. HIDE DEF t1
  <2>. USE DEF other
  <2>9. other \in Ptr /\ other # Nil /\ other \in t1.nodes /\ t1.color[par] \in {RED, BLACK} /\ par \in Ptr
    <3>1. par \in t1.nodes /\ par \in Node /\ par \in Ptr
      BY <2>2, <2>8, LinksAt
    <3>2. t1.color[par] \in {RED, BLACK}
      BY <2>8, <3>1 DEF Tree
    <3>3. other # Nil
      BY <2>b DEF CanRotate
    <3>. QED  BY <2>2, <2>8, <3>1, <3>2, <3>3, LinksAt
  <2>. HIDE DEF other
  <2>. USE DEF c
  <2>10. Same(T, c) /\ SamePointers(t1, c)
    <3>. DEFINE z == t1.color[par]
    <3>. HIDE DEF z
    <3>1. other \in Ptr /\ z \in {RED, BLACK} /\ c = Paint(t1, other, z)
      BY <2>9 DEF z
    <3>. HIDE DEF c
    <3>. QED  BY <2>8, <3>1, PaintSame
  <2>. HIDE DEF c
  <2>. USE DEF t2
  <2>11. Same(T, t2) /\ SamePointers(c, t2) /\ t2 \in Tree /\ WF(t2)
    BY <2>9, <2>10, PaintSame DEF Same
  <2>. HIDE DEF t2
  <2>. USE DEF f
  <2>12. t2.child[Opp(s)][other] \in Ptr
    <3>1. other \in t2.nodes
      BY <2>9, <2>10, <2>11 DEF SamePointers
    <3>. QED  BY <2>2, <2>11, <3>1, LinksAt
  <2>13. Same(T, f) /\ SamePointers(t2, f)
    BY <2>11, <2>12, PaintSame
  <2>. HIDE DEF f
  <2>. USE DEF u
  <2>14. par \in f.nodes /\ f.child[Opp(s)][par] # Nil
    BY <2>2, <2>8, <2>9, <2>10, <2>11, <2>13 DEF SamePointers, other
  <2>15. Same(T, u)
    BY <2>2, <2>13, <2>14, RotateSame
  <2>. HIDE DEF u
  <2>16. trees'[cur] = u
    BY <1>s, <2>1
  <2>. QED  BY <2>2, <2>15, <2>16
<1>5. CASE EraseDone
  <2>. DEFINE u == Freed(Paint(T, node, BLACK))
  <2>1. pc = "erase_color" /\ SetT(u) /\ pc' = "idle"
    BY <1>5 DEF EraseDone, Return
  <2>2. cur \in Root /\ Same(T, T) /\ node \in Ptr
    BY <1>0, <2>1, WorksOnSame DEF LinksInv, TypeInv, TypeOK
  <2>3. Same(T, Paint(T, node, BLACK))
    BY <2>2, PaintSame
  <2>4. Same(T, u)
    <3>1. Same(Paint(T, node, BLACK), u)
      BY <2>3, FreedSame DEF Same
    <3>. HIDE DEF u
    <3>. QED  BY <2>3, <3>1, SameTrans
  <2>. HIDE DEF u
  <2>. QED  BY <1>s, <2>1, <2>2, <2>4
<1>. QED  BY <1>1, <1>2, <1>3, <1>4, <1>5 DEF EraseStep

(* What the steps of rbtree.c do to the set of nodes.                       *)

\* Members are among finitely many objects.
LEMMA MembersFinite ==
    ASSUME LinksInv, NEW r \in Root
    PROVE  /\ IsFiniteSet(Members(r)) /\ Members(r) \subseteq Node
           /\ Cardinality(Members(r)) \in Nat /\ Cardinality(Node) \in Nat
           /\ Cardinality(Members(r)) <= Cardinality(Node)
<1>1. Members(r) \subseteq Node
  BY DEF LinksInv, TypeInv, TypeOK, Tree, Members
<1>2. IsFiniteSet(Node)
  BY RBAssumption
<1>. QED  BY <1>1, <1>2, FS_Subset, FS_CardinalityType

\* A step of an insertion adds the new object at the link, and nothing else.
LEMMA InsertNodes ==
    ASSUME LinksInv, InsertStep
    PROVE  /\ cur \in Root /\ pc \in {"descend", "insert_color"}
           /\ \A r \in Root \ {cur} : trees'[r] = trees[r]
           /\ \/ pc' = "descend" /\ pc = "descend" /\ cur' = cur /\ T.nodes = trees'[cur].nodes
              \/ /\ pc' = "insert_color" /\ pc = "descend" /\ cur' = cur
                 /\ trees'[cur].nodes = T.nodes \cup {node} /\ node \in Node /\ node \notin T.nodes
              \/ /\ pc = "insert_color" /\ T.nodes = trees'[cur].nodes
                 /\ (pc' = "insert_color" /\ cur' = cur) \/ pc' = "idle"
<1>0. /\ pc \in {"descend", "insert_color"} /\ cur \in Root /\ T \in Tree /\ WF(T)
      /\ trees \in [Root -> Tree]
  BY WorksOn DEF InsertStep, InsertDescend, InsertLink, InsertRecolor, InsertRotate, InsertDone,
                 LinksInv, TypeInv, TypeOK
<1>s. ASSUME NEW t, SetT(t) PROVE trees'[cur] = t /\ \A r \in Root \ {cur} : trees'[r] = trees[r]
  BY <1>0, <1>s DEF SetT
<1>1. CASE InsertDescend
  BY <1>0, <1>1 DEF InsertDescend, T
<1>2. CASE InsertLink
  <2>. DEFINE u == rb_link_node(T, node, par, LinkSide)
  <2>1. pc = "descend" /\ SetT(u) /\ pc' = "insert_color" /\ cur' = cur
    BY <1>2 DEF InsertLink
  <2>2. par \in T.nodes \cup {Nil} /\ node \notin T.nodes /\ node \in Node /\ LinkSide \in Side
    BY <1>0, <2>1 DEF LinksInv, Unused, T, TypeInv, LinkSide, Side
  <2>3. u.nodes = T.nodes \cup {node}
    BY <1>0, <2>2, LinkNodeFields DEF Linked
  <2>. HIDE DEF u
  <2>. QED  BY <1>0, <1>s, <2>1, <2>2, <2>3
<1>a. ASSUME pc = "insert_color", InsertLoop, gparent # Nil
      PROVE  /\ node \in T.nodes /\ parent \in T.nodes /\ gparent \in T.nodes
             /\ parent \in Ptr /\ gparent \in Ptr /\ node \in Ptr /\ node # Nil /\ uncle \in Ptr
             /\ pside \in Side /\ Opp(pside) \in Side
  <2>1. node \in T.nodes
    BY <1>a DEF LinksInv
  <2>2. parent \in T.nodes
    BY <1>0, <1>a, <2>1, LinksAt DEF InsertLoop, parent
  <2>3. gparent \in T.nodes
    BY <1>0, <1>a, <2>2, LinksAt DEF gparent
  <2>4. pside \in Side /\ Opp(pside) \in Side
    BY OppSide DEF pside, Side
  <2>5. uncle \in Ptr /\ parent \in Ptr /\ gparent \in Ptr /\ node \in Ptr /\ node # Nil
    BY <1>0, <2>1, <2>2, <2>3, <2>4, LinksAt DEF uncle
  <2>. QED  BY <2>1, <2>2, <2>3, <2>4, <2>5
<1>3. CASE InsertRecolor
  <2>. DEFINE a == Paint(T, uncle, BLACK)
              b == Paint(a, parent, BLACK)
              u == Paint(b, gparent, RED)
  <2>1. pc = "insert_color" /\ InsertLoop /\ gparent # Nil /\ SetT(u) /\ UNCHANGED <<pc, cur>>
    BY <1>3 DEF InsertRecolor
  <2>2. a \in Tree /\ a.nodes = T.nodes
    BY <1>0, <1>a, <2>1, PaintFields
  <2>. HIDE DEF a
  <2>3. b \in Tree /\ b.nodes = a.nodes
    BY <1>a, <2>1, <2>2, PaintFields
  <2>. HIDE DEF b
  <2>4. u.nodes = b.nodes
    BY <1>a, <2>1, <2>3, PaintFields
  <2>. HIDE DEF u
  <2>. QED  BY <1>0, <1>s, <2>1, <2>2, <2>3, <2>4
<1>4. CASE InsertRotate
  <2>. DEFINE inner == T.child[Opp(pside)][parent] = node
              t1 == IF inner THEN Rotate(T, parent, pside) ELSE T
              top == IF inner THEN node ELSE parent
              a  == Paint(t1, top, BLACK)
              t2 == Paint(a, gparent, RED)
              u  == Rotate(t2, gparent, Opp(pside))
  <2>1. /\ pc = "insert_color" /\ InsertLoop /\ gparent # Nil
        /\ CanRotate(t2, gparent, Opp(pside)) /\ SetT(u) /\ UNCHANGED <<pc, cur>>
    BY <1>4 DEF InsertRotate
  <2>2. /\ parent \in T.nodes /\ gparent \in T.nodes /\ gparent \in Ptr /\ node \in Ptr /\ node # Nil
        /\ parent \in Ptr /\ pside \in Side /\ Opp(pside) \in Side
    BY <1>a, <2>1
  <2>3. t1 \in Tree /\ WF(t1) /\ t1.nodes = T.nodes
    <3>1. CASE inner
      BY <1>0, <2>2, <3>1, RotateWF
    <3>2. CASE ~inner
      BY <1>0, <3>2
    <3>. QED  BY <3>1, <3>2
  <2>4. top \in Ptr
    BY <2>2
  <2>. HIDE DEF t1, top
  <2>5. a \in Tree /\ WF(a) /\ a.nodes = t1.nodes
    BY <2>3, <2>4, PaintWF DEF SamePointers
  <2>. HIDE DEF a
  <2>6. t2 \in Tree /\ WF(t2) /\ t2.nodes = a.nodes
    BY <2>2, <2>5, PaintWF DEF SamePointers
  <2>. HIDE DEF t2
  <2>7. gparent \in t2.nodes /\ t2.child[Opp(Opp(pside))][gparent] # Nil
    BY <2>1, <2>2, <2>3, <2>5, <2>6 DEF CanRotate
  <2>8. u.nodes = t2.nodes
    BY <2>2, <2>6, <2>7, RotateWF
  <2>. HIDE DEF u
  <2>. QED  BY <1>0, <1>s, <2>1, <2>3, <2>5, <2>6, <2>8
<1>5. CASE InsertDone
  <2>1. pc = "insert_color" /\ SetT(Paint(T, T.root, BLACK)) /\ pc' = "idle"
    BY <1>5 DEF InsertDone, Return
  <2>2. T.root \in Ptr
    BY <1>0 DEF Tree
  <2>3. Paint(T, T.root, BLACK).nodes = T.nodes
    BY <1>0, <2>2, PaintFields
  <2>. QED  BY <1>0, <1>s, <2>1, <2>3
<1>. QED  BY <1>1, <1>2, <1>3, <1>4, <1>5 DEF InsertStep

\* A step of a deletion stays within its tree.
LEMMA EraseNodes ==
    ASSUME LinksInv, EraseStep
    PROVE  /\ cur \in Root /\ pc \in {"successor", "erase_color"}
           /\ \A r \in Root \ {cur} : trees'[r] = trees[r]
           /\ (pc' \in {"successor", "erase_color"} /\ cur' = cur) \/ pc' = "idle"
<1>1. pc \in {"successor", "erase_color"} /\ cur \in Root /\ trees \in [Root -> Tree]
  <2>1. pc \in {"successor", "erase_color"}
    BY Zenon DEF EraseStep, EraseDescend, EraseSplice, EraseRecolor, EraseRotate, EraseDone
  <2>. QED  BY <2>1, WorksOn DEF LinksInv, TypeInv, TypeOK
<1>2. CASE EraseDescend
  BY <1>1, <1>2 DEF EraseDescend
<1>3. CASE EraseSplice
  BY <1>1, <1>3 DEF EraseSplice, Unlinked, Return
<1>4. CASE EraseRecolor
  BY <1>1, <1>4 DEF EraseRecolor, SetT
<1>5. CASE EraseRotate
  <2>1. pc = "erase_color" /\ (\E t : SetT(t)) /\ UNCHANGED <<pc, cur>>
    BY <1>5, Zenon DEF EraseRotate
  <2>. QED  BY <1>1, <2>1 DEF SetT
<1>6. CASE EraseDone
  BY <1>1, <1>6 DEF EraseDone, SetT, Return
<1>. QED  BY <1>2, <1>3, <1>4, <1>5, <1>6 DEF EraseStep

-----------------------------------------------------------------------------
(* The invariant of the two descents.                                       *)

LEMMA InitStruct == Init => StructInv
<1>. SUFFICES ASSUME Init PROVE StructInv
  OBVIOUS
<1>1. LinksInv /\ pc = "idle"
  BY InitLinksInv DEF Init
<1>. QED  BY <1>1 DEF StructInv

\* One iteration of the descent of rb_insert_data.
LEMMA DescendTurned == ASSUME StructInv, InsertDescend PROVE Turned'
<1>. DEFINE c == Link
<1>0. LinksInv
  BY DEF StructInv
<1>1. pc = "descend" /\ c # Nil /\ par' = c /\ UNCHANGED <<trees, pc, cur, node, old>>
  BY DEF InsertDescend
<1>2. T \in Tree /\ WF(T) /\ Turned /\ T' = T /\ par \in T.nodes \cup {Nil} /\ LinkSide \in Side
  BY <1>0, <1>1, WorksOn DEF StructInv, T, LinksInv, LinkSide, Side
<1>3. ASSUME NEW x \in T.nodes, NEW s \in Side, T.child[s][x] \in Anc(T, c)
      PROVE  s = IF Val[x] > Val[node] THEN "left" ELSE "right"
  <2>1. CASE par = Nil
    <3>1. c = T.root /\ c \in T.nodes
      BY <1>1, <1>2, <2>1 DEF Link, WF, Links
    <3>2. T.parent[c] = Nil /\ Anc(T, Nil) = {}
      BY <1>2, <3>1, LinksAt, AncClosed
    <3>3. T.child[s][x] = c
      BY <1>2, <1>3, <3>1, <3>2, AncStep
    <3>. QED  BY <1>1, <1>2, <3>2, <3>3, LinksAt
  <2>2. CASE par # Nil
    <3>1. c = T.child[LinkSide][par] /\ par \in T.nodes
      BY <1>1, <1>2, <2>2 DEF Link
    <3>2. c \in T.nodes /\ T.parent[c] = par /\ c # T.child[Opp(LinkSide)][par]
      BY <1>1, <1>2, <3>1, LinksAt
    <3>3. Anc(T, c) = {c} \cup Anc(T, par)
      BY <1>2, <3>2, AncStep
    <3>4. CASE T.child[s][x] = c
      <4>1. x = par
        BY <1>1, <1>2, <3>2, <3>4, LinksAt
      <4>2. s = LinkSide
        BY <1>2, <3>1, <3>2, <3>4, <4>1 DEF Side, Opp
      <4>. QED  BY <4>1, <4>2 DEF LinkSide
    <3>5. CASE T.child[s][x] \in Anc(T, par)
      BY <1>2, <3>5 DEF Turned
    <3>. QED  BY <1>3, <3>3, <3>4, <3>5
  <2>. QED  BY <2>1, <2>2
<1>. HIDE DEF c
<1>. QED  BY <1>1, <1>2, <1>3 DEF Turned

LEMMA NextStruct == StructInv /\ [Next]_vars => StructInv'
<1>. SUFFICES ASSUME StructInv, [Next]_vars PROVE StructInv'
  OBVIOUS
<1>0. LinksInv /\ LinksInv'
  BY NextLinksInv DEF StructInv
<1>a. \A r \in Root : trees[r] \in Tree /\ WF(trees[r])
  BY <1>0 DEF LinksInv, TypeInv, TypeOK
<1>b. ASSUME pc' \notin {"descend", "successor"} PROVE StructInv'
  BY <1>0, <1>b DEF StructInv
<1>1. ASSUME NEW r \in Root, NEW n \in Node, rb_insert_data(r, n) PROVE StructInv'
  <2>1. pc' = "descend" /\ cur' = r /\ par' = Nil /\ trees' = trees
    BY <1>1 DEF rb_insert_data
  <2>2. T' = trees[r]
    BY <2>1 DEF T
  <2>3. Anc(trees[r], Nil) = {}
    BY <1>a, AncClosed
  <2>4. Turned'
    BY <2>1, <2>2, <2>3 DEF Turned
  <2>. QED  BY <1>0, <2>1, <2>4 DEF StructInv
<1>2. ASSUME NEW r \in Root, NEW n \in Node, rb_erase(r, n) PROVE StructInv'
  <2>. DEFINE t == trees[r]
              m == t.child["right"][n]
  <2>1. t \in Tree /\ WF(t) /\ n \in t.nodes
    BY <1>2, <1>a DEF rb_erase
  <2>2. CASE \A s \in Side : t.child[s][n] # Nil
    <3>1. pc' = "successor" /\ cur' = r /\ old' = n /\ node' = m /\ trees' = trees
      BY <1>2, <2>2 DEF rb_erase
    <3>2. m \in t.nodes
      BY <2>1, <2>2, LinksAt DEF Side
    <3>3. m \in Anc(t, m)
      <4>. HIDE DEF m, t
      <4>. QED  BY <2>1, <3>2, BelowFacts DEF Below
    <3>4. T' = t /\ T'.child["right"][old'] = m
      BY <3>1 DEF T
    <3>. HIDE DEF m, t
    <3>5. SuccessorPath'
      BY <3>1, <3>3, <3>4 DEF SuccessorPath
    <3>. QED  BY <1>0, <3>1, <3>5 DEF StructInv
  <2>3. CASE ~(\A s \in Side : t.child[s][n] # Nil)
    <3>1. \E b, c, p, z : Unlinked(r, b, c, p, z, n)
      BY <1>2, <2>3, Zenon DEF rb_erase
    <3>2. pc' \in {"erase_color", "idle"}
      BY <3>1 DEF Unlinked, Return
    <3>. QED  BY <1>b, <3>2
  <2>. QED  BY <2>2, <2>3
<1>3. CASE InsertStep
  <2>1. CASE InsertDescend
    <3>1. pc' = "descend"
      BY <2>1 DEF InsertDescend
    <3>. QED  BY <1>0, <2>1, <3>1, DescendTurned DEF StructInv
  <2>2. CASE InsertStep /\ ~InsertDescend
    <3>1. pc' \in {"insert_color", "idle"}
      BY <2>2 DEF InsertStep, InsertLink, InsertRecolor, InsertRotate, InsertDone, Return
    <3>. QED  BY <1>b, <3>1
  <2>. QED  BY <1>3, <2>1, <2>2
<1>4. CASE EraseStep
  <2>1. CASE EraseDescend
    <3>. DEFINE m   == T.child["left"][node]
                top == T.child["right"][old]
    <3>1. pc = "successor" /\ m # Nil /\ node' = m /\ UNCHANGED <<trees, pc, cur, par, old>>
      BY <2>1 DEF EraseDescend
    <3>2. T \in Tree /\ WF(T) /\ SuccessorPath /\ T' = T /\ node \in T.nodes
      BY <1>0, <3>1, WorksOn DEF StructInv, T, LinksInv, SuccessorBelow
    <3>3. /\ top \in Anc(T, node)
          /\ \A x \in T.nodes : top \in Anc(T, x) =>
               \/ node \in Anc(T, x)
               \/ \E z \in T.nodes : /\ T.child["left"][z] \in Anc(T, node)
                                     /\ x = z \/ T.child["right"][z] \in Anc(T, x)
      BY <3>2 DEF SuccessorPath
    <3>4. top \in T.nodes /\ top' = top
      BY <3>1, <3>2, <3>3, AncClosed
    <3>. HIDE DEF top
    <3>5. /\ top \in Anc(T, m)
          /\ \A x \in T.nodes : top \in Anc(T, x) =>
               \/ m \in Anc(T, x)
               \/ \E z \in T.nodes : /\ T.child["left"][z] \in Anc(T, m)
                                     /\ x = z \/ T.child["right"][z] \in Anc(T, x)
      BY <3>1, <3>2, <3>3, <3>4, SuccessorLeft
    <3>. HIDE DEF m
    <3>6. SuccessorPath'
      BY <3>1, <3>2, <3>4, <3>5 DEF SuccessorPath, top
    <3>. QED  BY <1>0, <3>1, <3>6 DEF StructInv
  <2>2. CASE EraseStep /\ ~EraseDescend
    <3>1. pc' \in {"erase_color", "idle"}
      <4>1. CASE EraseSplice
        BY <4>1 DEF EraseSplice, Unlinked, Return
      <4>2. CASE EraseRecolor \/ EraseRotate
        BY <4>2, Zenon DEF EraseRecolor, EraseRotate
      <4>3. CASE EraseDone
        BY <4>3 DEF EraseDone, Return
      <4>. QED  BY <2>2, <4>1, <4>2, <4>3 DEF EraseStep
    <3>. QED  BY <1>b, <3>1
  <2>. QED  BY <1>4, <2>1, <2>2
<1>5. ASSUME NEW r \in Root, NEW v \in Node, NEW n \in Node, rb_replace_node(r, v, n)
      PROVE  StructInv'
  <2>1. pc' = "idle"
    BY <1>5 DEF rb_replace_node
  <2>. QED  BY <1>b, <2>1
<1>6. CASE UNCHANGED vars
  BY <1>0, <1>6 DEF vars, StructInv, Turned, SuccessorPath, T
<1>. QED  BY <1>1, <1>2, <1>3, <1>4, <1>5, <1>6 DEF Next

\* rb_erase of a node with at most one child unlinks it at once.
LEMMA CallTree ==
    ASSUME StructInv, NEW r \in Root, NEW n \in Node, rb_erase(r, n)
    PROVE  /\ \A q \in Root \ {r} : trees'[q] = trees[q]
           /\ Drops(trees[r], trees'[r], n) \/ Same(trees[r], trees'[r])
<1>. DEFINE t == trees[r]
            c == IF t.child["left"][n] = Nil THEN t.child["right"][n]
                                             ELSE t.child["left"][n]
            p == t.parent[n]
            b == Relink(SetParent(t, c, p), p, "left", n, c)
            u == [b EXCEPT !.nodes = @ \ {n}]
<1>0. LinksInv
  BY DEF StructInv
<1>1. t \in Tree /\ WF(t) /\ n \in t.nodes
  BY <1>0 DEF rb_erase, LinksInv, TypeInv, TypeOK
<1>2. CASE \A s \in Side : t.child[s][n] # Nil
  <2>1. trees' = trees
    BY <1>2 DEF rb_erase
  <2>. QED  BY <1>1, <2>1 DEF Same
<1>3. CASE ~(\A s \in Side : t.child[s][n] # Nil)
  <2>1. Unlinked(r, b, c, p, t.color[n], n)
    BY <1>3 DEF rb_erase
  <2>2. OnlyChild(t, n, c)
    BY <1>3 DEF OnlyChild, Side, Opp
  <2>. HIDE DEF t, c
  <2>3. b \in Tree /\ Cut(t, u, n, c)
    BY <1>1, <2>2, EraseFields
  <2>4. u \in Tree /\ u = [b EXCEPT !.nodes = @ \ {n}] /\ u.nodes = t.nodes \ {n}
    BY <2>3 DEF Cut
  <2>. HIDE DEF b, u
  <2>5. WF(u)
    BY <1>1, <2>2, <2>3, <2>4, CutWF
  <2>6. ASSUME NEW K \in [Node -> Nat], Ordered(K, t) PROVE Ordered(K, u)
    BY <1>1, <2>2, <2>3, <2>4, <2>5, <2>6, CutOrdered
  <2>7. Drops(t, u, n)
    BY <1>1, <2>4, <2>6 DEF Drops
  <2>. HIDE DEF p
  <2>8. Same(u, trees'[r]) /\ \A q \in Root \ {r} : trees'[q] = trees[q]
    BY <1>0, <2>1, <2>3, <2>4, <2>5, UnlinkedSame
  <2>. QED  BY <2>7, <2>8, DropsSame DEF t
<1>. QED  BY <1>2, <1>3

LEMMA ReplaceTree ==
    ASSUME StructInv, NEW r \in Root, NEW v \in Node, NEW n \in Node, rb_replace_node(r, v, n)
    PROVE  /\ \A q \in Root \ {r} : trees'[q] = trees[q]
           /\ Swaps(trees[r], trees'[r], v, n) /\ Unused(n)
<1>. DEFINE k == trees[r]
            w == Replace(k, v, n)
            u == [w EXCEPT !.nodes = (@ \ {v}) \cup {n}]
            S == (k.nodes \ {v}) \cup {n}
<1>0. LinksInv
  BY DEF StructInv
<1>1. k \in Tree /\ WF(k) /\ v \in k.nodes /\ n \notin k.nodes /\ Val[n] = Val[v] /\ Unused(n)
  BY <1>0 DEF rb_replace_node, Unused, LinksInv, TypeInv, TypeOK
<1>2. trees' = [trees EXCEPT ![r] = Freed(u)]
  BY DEF rb_replace_node
<1>. HIDE DEF k, w
<1>3. Replaced(k, [w EXCEPT !.nodes = S], v, n) /\ w \in Tree /\ w.nodes = k.nodes
  BY <1>1, ReplaceReplaced DEF w
<1>4. u = [w EXCEPT !.nodes = S]
  BY <1>3
<1>5. Replaced(k, u, v, n)
  BY <1>3, <1>4
<1>. HIDE DEF u
<1>6. u \in Tree /\ WF(u) /\ u.nodes = S
  BY <1>1, <1>5, ReplacedWF DEF Replaced
<1>7. ASSUME NEW K \in [Node -> Nat], Ordered(K, k), K[n] = K[v] PROVE Ordered(K, u)
  <2>1. ASSUME NEW s \in Side, NEW x \in Below(k, k.child[s][v]) PROVE Sorted(K, s, x, n)
    <3>1. Sorted(K, s, x, v)
      BY <1>1, <1>7, OrderedBelow
    <3>. QED  BY <1>7, <3>1 DEF Sorted
  <2>2. ASSUME NEW y \in k.nodes, NEW s \in Side, v \in Below(k, k.child[s][y])
        PROVE  Sorted(K, s, n, y)
    <3>1. Sorted(K, s, v, y)
      BY <1>1, <1>7, <2>2, OrderedBelow
    <3>. QED  BY <1>7, <3>1 DEF Sorted
  <2>. QED  BY <1>1, <1>5, <1>6, <1>7, <2>1, <2>2, ReplacedOrdered
<1>8. Same(u, Freed(u))
  BY <1>6, FreedSame
<1>9. trees'[r] = Freed(u) /\ \A q \in Root \ {r} : trees'[q] = trees[q]
  BY <1>0, <1>2, Stored
<1>10. Swaps(k, Freed(u), v, n)
  BY <1>1, <1>6, <1>7, <1>8 DEF Swaps, Same
<1>. QED  BY <1>1, <1>9, <1>10 DEF k

\* What one step does to the trees: at most one of them changes, and either it keeps
\* its nodes in their order, or one comes, goes or takes the place of another.
Changed(r) ==
    /\ \A q \in Root \ {r} : trees'[q] = trees[q]
    /\ \/ Same(trees[r], trees'[r])
       \/ \E n \in Node : Unused(n) /\ Adds(trees[r], trees'[r], n)
       \/ \E n \in Node : Drops(trees[r], trees'[r], n)
       \/ \E v, n \in Node : Unused(n) /\ Swaps(trees[r], trees'[r], v, n)

LEMMA NextTree == ASSUME StructInv, Next PROVE \E r \in Root : Changed(r)
<1>0. LinksInv /\ \A r \in Root : trees[r] \in Tree /\ WF(trees[r]) /\ trees[r].nodes \subseteq Node
  BY DEF StructInv, LinksInv, TypeInv, TypeOK, Tree
<1>1. ASSUME NEW r \in Root, NEW n \in Node, rb_insert_data(r, n) PROVE Changed(r)
  <2>1. trees' = trees
    BY <1>1 DEF rb_insert_data
  <2>. QED  BY <1>0, <2>1 DEF Changed, Same
<1>2. ASSUME NEW r \in Root, NEW n \in Node, rb_erase(r, n) PROVE Changed(r)
  BY <1>2, CallTree DEF Changed
<1>3. CASE InsertStep
  <2>1. /\ cur \in Root /\ \A q \in Root \ {cur} : trees'[q] = trees[q]
        /\ (Adds(T, trees'[cur], node) /\ Unused(node)) \/ Same(T, trees'[cur])
    BY <1>0, <1>3, InsertTree, InsertNodes
  <2>2. Changed(cur)
    BY <2>1 DEF Changed, T, Adds
  <2>. QED  BY <2>1, <2>2
<1>4. CASE EraseStep
  <2>1. /\ cur \in Root /\ \A q \in Root \ {cur} : trees'[q] = trees[q]
        /\ Drops(T, trees'[cur], old) \/ Same(T, trees'[cur])
    BY <1>0, <1>4, EraseTree, EraseNodes
  <2>2. Changed(cur)
    BY <1>0, <2>1 DEF Changed, T, Drops
  <2>. QED  BY <2>1, <2>2
<1>5. ASSUME NEW r \in Root, NEW v \in Node, NEW n \in Node, rb_replace_node(r, v, n) PROVE Changed(r)
  BY <1>5, ReplaceTree DEF Changed
<1>. QED  BY <1>1, <1>2, <1>3, <1>4, <1>5 DEF Next

-----------------------------------------------------------------------------
(* The search.                                                              *)

\* One more iteration of the loop of rb_search_data.
Searched(t, v, go, k) ==
    [m \in Ptr |-> IF k = 0 \/ m = Nil \/ Val[m] = v THEN m
                   ELSE go[k - 1][t.child[IF v < Val[m] THEN "left" ELSE "right"][m]]]

\* The recursive function in rb_search_data exists.
LEMMA SearchFunction ==
    ASSUME NEW t \in Tree, NEW v, Fuel \in Nat
    PROVE  \E go : /\ go = [k \in 0..Fuel |-> Searched(t, v, go, k)]
                   /\ rb_search_data(t, v) = go[Fuel][t.root]
<1>. DEFINE X    == [Ptr -> Ptr]
            base == [m \in Ptr |-> m]
            turn(m) == t.child[IF v < Val[m] THEN "left" ELSE "right"][m]
            Down(g) == [m \in Ptr |-> IF m = Nil \/ Val[m] = v THEN m ELSE g[turn(m)]]
            step == [g \in X |-> Down(g)]
            F    == CHOOSE go : go = [k \in 0..Fuel |-> Searched(t, v, go, k)]
<1>1. ASSUME NEW m \in Ptr, m # Nil PROVE turn(m) \in Ptr
  <2>1. m \in Node /\ (IF v < Val[m] THEN "left" ELSE "right") \in Side
    BY <1>1 DEF Ptr, Side
  <2>. QED  BY <2>1 DEF Tree
<1>2. base \in X /\ step \in [X -> X]
  <2>1. \A g \in X : Down(g) \in X
    <3>. HIDE DEF turn
    <3>. QED  BY <1>1
  <2>. QED  BY <2>1
<1>3. PICK f \in [0..Fuel -> X] : f[0] = base /\ \A k \in 1..Fuel : f[k] = step[f[k - 1]]
  <2>. HIDE DEF X, base, step
  <2>1. PICK f : Iterates(f, X, base, step, Fuel)
    BY <1>2, Iterate
  <2>. QED  BY <2>1 DEF Iterates
<1>4. ASSUME NEW k \in 0..Fuel PROVE f[k] = Searched(t, v, f, k)
  <2>1. CASE k = 0
    BY <1>3, <2>1 DEF Searched
  <2>2. CASE k # 0
    <3>1. k \in 1..Fuel /\ k - 1 \in 0..Fuel
      BY <2>2
    <3>2. f[k - 1] \in X
      BY <3>1
    <3>3. f[k] = Down(f[k - 1])
      BY <1>3, <3>1, <3>2
    <3>4. Searched(t, v, f, k) = Down(f[k - 1])
      BY <2>2 DEF Searched
    <3>. QED  BY <3>3, <3>4
  <2>. QED  BY <2>1, <2>2
<1>5. f = [k \in 0..Fuel |-> Searched(t, v, f, k)]
  BY <1>4
<1>6. F = [k \in 0..Fuel |-> Searched(t, v, F, k)]
  BY <1>5
<1>7. rb_search_data(t, v) = F[Fuel][t.root]
  BY DEF rb_search_data, Searched
<1>. HIDE DEF F
<1>. QED  BY <1>6, <1>7

\* Every node is below the root.
LEMMA RootAbove ==
    ASSUME NEW t \in Tree, WF(t), NEW x \in t.nodes
    PROVE  t.root \in Anc(t, x) /\ t.root \in t.nodes /\ Cardinality(Anc(t, t.root)) = 1
<1>1. Anc(t, x) \in SUBSET t.nodes /\ UpClosed(t, Anc(t, x)) /\ x \in Anc(t, x)
  BY AncClosed, LinksAt
<1>2. PICK y \in Anc(t, x) : t.parent[y] \notin Anc(t, x)
  BY <1>1 DEF WF, Acyclic
<1>3. t.parent[y] = Nil /\ y \in t.nodes
  BY <1>1, <1>2 DEF UpClosed
<1>4. y = t.root
  BY <1>3, LinksAt
<1>5. Anc(t, Nil) = {}
  BY AncClosed
<1>6. Cardinality(Anc(t, Nil)) = 0
  BY <1>5, FS_EmptySet
<1>7. Cardinality(Anc(t, y)) = Cardinality(Anc(t, Nil)) + 1
  <2>1. y \in t.nodes \cup {Nil} /\ y # Nil
    BY <1>3, LinksAt
  <2>. QED  BY <1>3, <2>1, AncFinite
<1>8. Cardinality(Anc(t, y)) = 1
  BY <1>6, <1>7
<1>. QED  BY <1>2, <1>3, <1>4, <1>8

\* rb_search_data in an ordered tree.
LEMMA SearchOrdered ==
    ASSUME NEW t \in Tree, WF(t), Ordered(Val, t), NEW v \in Nat
    PROVE  LET equal == {x \in t.nodes : Val[x] = v}
           IN  IF equal = {} THEN rb_search_data(t, v) = Nil ELSE rb_search_data(t, v) \in equal
<1>. DEFINE Equal(m) == {x \in Below(t, m) : Val[x] = v}
            Right(m, found) == IF Equal(m) = {} THEN found = Nil ELSE found \in Equal(m)
<1>1. Fuel \in Nat
  BY AncFinite
<1>2. PICK go : /\ go = [k \in 0..Fuel |-> Searched(t, v, go, k)]
                /\ rb_search_data(t, v) = go[Fuel][t.root]
  BY <1>1, SearchFunction
<1>3. \A k \in 0..Fuel : go[k] = Searched(t, v, go, k)
  BY <1>2
<1>4. t.nodes \cup {Nil} \subseteq Ptr /\ (\A m \in t.nodes : m # Nil) /\ Nil \in Ptr /\ t.nodes \subseteq Node
  BY RBAssumption DEF Tree, Ptr
<1>5. \A k \in 0..Fuel : go[k][Nil] = Nil
  BY <1>3, <1>4 DEF Searched
<1>6. Equal(Nil) = {}
  <2>1. ASSUME NEW x \in t.nodes PROVE Nil \notin Anc(t, x)
    BY <1>4, AncClosed
  <2>. QED  BY <2>1 DEF Below
<1>. DEFINE P == {k \in Nat : k \in 0..Fuel => \A m \in t.nodes :
                                Cardinality(Anc(t, m)) + k >= Fuel + 1 => Right(m, go[k][m])}
<1>7. 0 \in P
  <2>. SUFFICES ASSUME NEW m \in t.nodes, Cardinality(Anc(t, m)) + 0 >= Fuel + 1 PROVE FALSE
    OBVIOUS
  <2>1. Cardinality(Anc(t, m)) \in 0..Fuel
    BY AncFinite
  <2>. QED  BY <1>1, <2>1
<1>8. ASSUME NEW k \in Nat, k \in P PROVE k + 1 \in P
  <2>. SUFFICES ASSUME k + 1 \in 0..Fuel, NEW m \in t.nodes,
                       Cardinality(Anc(t, m)) + (k + 1) >= Fuel + 1
                PROVE  Right(m, go[k + 1][m])
    OBVIOUS
  <2>. DEFINE s == IF v < Val[m] THEN "left" ELSE "right"
              c == t.child[s][m]
  <2>1. m \in Ptr /\ m # Nil /\ m \in Node /\ Val[m] \in Nat /\ m \in Below(t, m)
    BY <1>4, BelowFacts, RBAssumption
  <2>2. k \in 0..Fuel /\ k + 1 # 0 /\ (k + 1) - 1 = k
    BY <1>1
  <2>3. go[k + 1][m] = IF Val[m] = v THEN m ELSE go[k][c]
    <3>1. go[k + 1] = Searched(t, v, go, k + 1)
      BY <1>3
    <3>. QED  BY <2>1, <2>2, <3>1 DEF Searched
  <2>4. CASE Val[m] = v
    BY <2>1, <2>3, <2>4
  <2>5. CASE Val[m] # v
    <3>1. s \in Side /\ c \in t.nodes \cup {Nil}
      BY LinksAt DEF Side
    <3>2. Equal(m) = Equal(c)
      <4>1. Equal(c) \subseteq Equal(m)
        BY <3>1, BelowFacts
      <4>2. ASSUME NEW x \in Equal(m) PROVE x \in Equal(c)
        <5>1. x \in t.nodes /\ m \in Anc(t, x) /\ x # m /\ Val[x] = v
          BY <2>5, <4>2 DEF Below
        <5>2. PICK d \in Side : t.child[d][m] \in Anc(t, x)
          BY <5>1, AncChild
        <5>3. Sorted(Val, d, x, m)
          BY <5>1, <5>2 DEF Ordered
        <5>4. d = s
          BY <2>1, <2>5, <5>1, <5>3 DEF Sorted, Side
        <5>. QED  BY <5>1, <5>2, <5>4 DEF Below
      <4>. QED  BY <4>1, <4>2
    <3>3. Right(c, go[k][c])
      <4>1. CASE c = Nil
        BY <1>5, <1>6, <2>2, <4>1
      <4>2. CASE c # Nil
        <5>1. c \in t.nodes /\ t.parent[c] = m
          BY <3>1, <4>2, LinksAt
        <5>2. Cardinality(Anc(t, c)) = Cardinality(Anc(t, m)) + 1 /\ Cardinality(Anc(t, m)) \in Nat
          BY <4>2, <5>1, AncFinite
        <5>3. Cardinality(Anc(t, c)) + k >= Fuel + 1
          BY <1>1, <5>2
        <5>. QED  BY <1>8, <2>2, <5>1, <5>3
      <4>. QED  BY <4>1, <4>2
    <3>. HIDE DEF c, s
    <3>. QED  BY <2>3, <2>5, <3>2, <3>3
  <2>. QED  BY <2>4, <2>5
<1>. HIDE DEF P
<1>9. Nat \subseteq P
  BY <1>7, <1>8, NatSetInduction
<1>10. CASE t.nodes = {}
  <2>1. t.root = Nil
    BY <1>10 DEF WF, Links
  <2>2. rb_search_data(t, v) = Nil
    BY <1>1, <1>2, <1>5, <2>1
  <2>. QED  BY <1>10, <2>2
<1>11. CASE t.nodes # {}
  <2>1. \A x \in t.nodes : t.root \in Anc(t, x) /\ t.root \in t.nodes /\ Cardinality(Anc(t, t.root)) = 1
    BY RootAbove
  <2>2. t.root \in t.nodes /\ Below(t, t.root) = t.nodes
    BY <1>11, <2>1 DEF Below
  <2>3. Cardinality(Anc(t, t.root)) + Fuel >= Fuel + 1 /\ Fuel \in 0..Fuel
    BY <1>1, <1>11, <2>1
  <2>4. Right(t.root, go[Fuel][t.root])
    BY <1>1, <1>9, <2>2, <2>3 DEF P
  <2>. QED  BY <1>2, <2>2, <2>4
<1>. QED  BY <1>10, <1>11

-----------------------------------------------------------------------------
(* The walks of rbtree.c.                                                   *)

\* x lies further to side s than y.
Further(K, s, x, y) == IF s = "left" THEN K[x] < K[y] ELSE K[y] < K[x]

LEMMA FurtherOrder ==
    ASSUME NEW K \in [Node -> Nat], NEW s \in Side, NEW x \in Node, NEW y \in Node, NEW z \in Node
    PROVE  /\ Further(K, s, x, y) /\ Further(K, s, y, z) => Further(K, s, x, z)
           /\ Further(K, s, x, y) => ~Further(K, s, y, x) /\ x # y
           /\ Further(K, Opp(s), x, y) <=> Further(K, s, y, x)
           /\ K[x] # K[y] => Further(K, s, x, y) \/ Further(K, s, y, x)
BY DEF Further, Side, Opp

\* The keys tell the nodes of t apart.
Strict(K, t) == Ordered(K, t) /\ \A x, y \in t.nodes : K[x] = K[y] => x = y

\* The nodes below a child are all on its side.
LEMMA StrictBelow ==
    ASSUME NEW K \in [Node -> Nat], NEW t \in Tree, WF(t), Strict(K, t), NEW n \in t.nodes,
           NEW s \in Side, NEW x \in Below(t, t.child[s][n])
    PROVE  Further(K, s, x, n) /\ Further(K, Opp(s), n, x) /\ x \in t.nodes /\ x \in Node /\ x # n
<1>1. Sorted(K, s, x, n) /\ x \in t.nodes /\ x \in Node /\ n \in Node
  BY OrderedBelow, LinksAt DEF Strict
<1>2. x # n
  BY BelowFacts
<1>3. K[x] # K[n] /\ K[x] \in Nat /\ K[n] \in Nat
  BY <1>1, <1>2 DEF Strict
<1>4. Further(K, s, x, n)
  BY <1>1, <1>3 DEF Sorted, Further
<1>. QED  BY <1>1, <1>2, <1>4, FurtherOrder

\* A subtree is its root and the subtrees of its children.
LEMMA BelowSplit ==
    ASSUME NEW t \in Tree, WF(t), NEW n \in t.nodes, NEW x \in Below(t, n), x # n
    PROVE  \E s \in Side : x \in Below(t, t.child[s][n])
<1>1. x \in t.nodes /\ n \in Anc(t, x)
  BY DEF Below
<1>. QED  BY <1>1, AncChild DEF Below

\* A node outside a subtree is on one side of all of it.
LEMMA Convex ==
    ASSUME NEW K \in [Node -> Nat], NEW t \in Tree, WF(t), Strict(K, t), NEW n \in t.nodes,
           NEW x \in t.nodes, x \notin Below(t, n), NEW y \in Below(t, n), NEW s \in Side
    PROVE  Further(K, s, x, n) <=> Further(K, s, x, y)
<1>. DEFINE D == {a \in Anc(t, n) : x \notin Below(t, a)}
<1>1. Anc(t, n) \in SUBSET t.nodes /\ UpClosed(t, Anc(t, n)) /\ n \in Anc(t, n)
  BY AncClosed, LinksAt
<1>2. PICK a \in D : t.parent[a] \notin D
  <2>1. D \in SUBSET t.nodes /\ D # {}
    BY <1>1
  <2>. HIDE DEF D
  <2>. QED  BY <2>1 DEF WF, Acyclic
<1>. DEFINE q == t.parent[a]
<1>3. a \in t.nodes /\ a \in Anc(t, n) /\ x \notin Below(t, a)
  BY <1>1, <1>2
<1>4. q # Nil
  <2>1. CASE q = Nil
    <3>1. a = t.root
      BY <1>3, <2>1, LinksAt
    <3>2. t.root \in Anc(t, x)
      BY RootAbove
    <3>. QED  BY <1>3, <3>1, <3>2 DEF Below
  <2>. QED  BY <2>1
<1>5. q \in Anc(t, n) /\ q \in t.nodes /\ x \in Below(t, q)
  BY <1>1, <1>2, <1>3, <1>4 DEF UpClosed
<1>6. PICK d \in Side : t.child[d][q] = a
  BY <1>3, <1>4, LinksAt
<1>7. n \in Below(t, a) /\ y \in Below(t, a)
  <2>1. n \in Below(t, a)
    BY <1>3 DEF Below
  <2>. QED  BY <1>3, <2>1, BelowFacts
<1>8. Further(K, d, n, q) /\ Further(K, d, y, q) /\ n \in Node /\ y \in Node /\ q \in Node /\ x \in Node
  BY <1>5, <1>6, <1>7, StrictBelow, LinksAt
<1>9. Further(K, d, n, x) /\ Further(K, d, y, x)
  <2>1. CASE x = q
    BY <1>8, <2>1
  <2>2. CASE x # q
    <3>1. PICK e \in Side : x \in Below(t, t.child[e][q])
      BY <1>5, <2>2, BelowSplit
    <3>2. e = Opp(d)
      BY <1>3, <1>6, <3>1 DEF Side, Opp
    <3>3. Further(K, Opp(d), x, q)
      BY <1>5, <3>1, <3>2, StrictBelow
    <3>4. Further(K, d, q, x)
      BY <1>8, <3>3, FurtherOrder
    <3>. QED  BY <1>8, <3>4, FurtherOrder
  <2>. QED  BY <2>1, <2>2
<1>10. s = d \/ s = Opp(d)
  BY DEF Side, Opp
<1>11. CASE s = d
  BY <1>8, <1>9, <1>11, FurtherOrder
<1>12. CASE s = Opp(d)
  BY <1>8, <1>9, <1>12, FurtherOrder
<1>. QED  BY <1>10, <1>11, <1>12

\* e is the node of the subtree of m that is furthest to side s.
Extreme(K, t, s, e, m) == e \in Below(t, m) /\ \A x \in Below(t, m) : x = e \/ Further(K, s, e, x)

\* The loop of Edge.
EdgeAt(t, s, go, k) ==
    [m \in Node |-> IF k = 0 \/ t.child[s][m] = Nil THEN m ELSE go[k - 1][t.child[s][m]]]

LEMMA EdgeFunction ==
    ASSUME NEW t \in Tree, NEW s \in Side, Fuel \in Nat
    PROVE  \E go : /\ go = [k \in 0..Fuel |-> EdgeAt(t, s, go, k)]
                   /\ \A n : Edge(t, s, n) = go[Fuel][n]
<1>. DEFINE X    == [Node -> Node]
            base == [m \in Node |-> m]
            Down(g) == [m \in Node |-> IF t.child[s][m] = Nil THEN m ELSE g[t.child[s][m]]]
            step == [g \in X |-> Down(g)]
            F    == CHOOSE go : go = [k \in 0..Fuel |-> EdgeAt(t, s, go, k)]
<1>1. base \in X /\ step \in [X -> X]
  <2>1. \A m \in Node : t.child[s][m] # Nil => t.child[s][m] \in Node
    BY DEF Tree, Ptr
  <2>2. \A g \in X : Down(g) \in X
    BY <2>1
  <2>. QED  BY <2>2
<1>2. PICK f \in [0..Fuel -> X] : f[0] = base /\ \A k \in 1..Fuel : f[k] = step[f[k - 1]]
  <2>. HIDE DEF X, base, step
  <2>1. PICK f : Iterates(f, X, base, step, Fuel)
    BY <1>1, Iterate
  <2>. QED  BY <2>1 DEF Iterates
<1>3. ASSUME NEW k \in 0..Fuel PROVE f[k] = EdgeAt(t, s, f, k)
  <2>1. CASE k = 0
    BY <1>2, <2>1 DEF EdgeAt
  <2>2. CASE k # 0
    <3>1. k \in 1..Fuel /\ k - 1 \in 0..Fuel
      BY <2>2
    <3>2. f[k - 1] \in X
      BY <3>1
    <3>3. f[k] = Down(f[k - 1])
      BY <1>2, <3>1, <3>2
    <3>4. EdgeAt(t, s, f, k) = Down(f[k - 1])
      BY <2>2 DEF EdgeAt
    <3>. QED  BY <3>3, <3>4
  <2>. QED  BY <2>1, <2>2
<1>4. f = [k \in 0..Fuel |-> EdgeAt(t, s, f, k)]
  BY <1>3
<1>5. F = [k \in 0..Fuel |-> EdgeAt(t, s, F, k)]
  BY <1>4
<1>6. \A n : Edge(t, s, n) = F[Fuel][n]
  BY DEF Edge, EdgeAt
<1>. HIDE DEF F
<1>. QED  BY <1>5, <1>6

\* Following the child pointers of one side leads to the extreme node.
LEMMA EdgeExtreme ==
    ASSUME NEW K \in [Node -> Nat], NEW t \in Tree, WF(t), Strict(K, t), NEW n \in t.nodes, NEW s \in Side
    PROVE  Extreme(K, t, s, Edge(t, s, n), n)
<1>1. Fuel \in Nat
  BY AncFinite
<1>2. PICK go : /\ go = [k \in 0..Fuel |-> EdgeAt(t, s, go, k)]
                /\ \A m : Edge(t, s, m) = go[Fuel][m]
  BY <1>1, EdgeFunction
<1>3. \A k \in 0..Fuel : go[k] = EdgeAt(t, s, go, k)
  BY <1>2
<1>. DEFINE P == {k \in Nat : k \in 0..Fuel => \A m \in t.nodes :
                    Cardinality(Anc(t, m)) + k >= Fuel + 1 => Extreme(K, t, s, go[k][m], m)}
<1>4. 0 \in P
  <2>. SUFFICES ASSUME NEW m \in t.nodes, Cardinality(Anc(t, m)) + 0 >= Fuel + 1 PROVE FALSE
    OBVIOUS
  <2>1. Cardinality(Anc(t, m)) \in 0..Fuel
    BY AncFinite
  <2>. QED  BY <1>1, <2>1
<1>5. ASSUME NEW k \in Nat, k \in P PROVE k + 1 \in P
  <2>. SUFFICES ASSUME k + 1 \in 0..Fuel, NEW m \in t.nodes,
                       Cardinality(Anc(t, m)) + (k + 1) >= Fuel + 1
                PROVE  Extreme(K, t, s, go[k + 1][m], m)
    OBVIOUS
  <2>. DEFINE c == t.child[s][m]
  <2>1. m \in Node /\ m \in Below(t, m) /\ c \in t.nodes \cup {Nil}
    BY BelowFacts, LinksAt
  <2>2. k \in 0..Fuel /\ k + 1 # 0 /\ (k + 1) - 1 = k
    BY <1>1
  <2>3. go[k + 1][m] = IF c = Nil THEN m ELSE go[k][c]
    <3>1. go[k + 1] = EdgeAt(t, s, go, k + 1)
      BY <1>3
    <3>. QED  BY <2>1, <2>2, <3>1 DEF EdgeAt
  \* What is in the subtree of m and not in that of c.
  <2>4. ASSUME NEW x \in Below(t, m), x # m, x \notin Below(t, c) PROVE Further(K, s, m, x)
    <3>1. PICK d \in Side : x \in Below(t, t.child[d][m])
      BY <2>4, BelowSplit
    <3>2. d = Opp(s)
      BY <2>4, <3>1 DEF Side, Opp
    <3>. QED  BY <3>1, <3>2, StrictBelow, OppSide
  <2>5. CASE c = Nil
    <3>1. Below(t, c) = {}
      <4>1. ASSUME NEW x \in t.nodes PROVE Nil \notin Anc(t, x)
        BY AncClosed, RBAssumption DEF Tree
      <4>. QED  BY <2>5, <4>1 DEF Below
    <3>2. go[k + 1][m] = m
      BY <2>3, <2>5
    <3>. HIDE DEF c
    <3>. QED  BY <2>1, <2>4, <3>1, <3>2 DEF Extreme
  <2>6. CASE c # Nil
    <3>. DEFINE e == go[k][c]
    <3>1. c \in t.nodes /\ t.parent[c] = m
      BY <2>1, <2>6, LinksAt
    <3>2. Cardinality(Anc(t, c)) = Cardinality(Anc(t, m)) + 1 /\ Cardinality(Anc(t, m)) \in Nat
      BY <2>6, <3>1, AncFinite
    <3>3. Cardinality(Anc(t, c)) + k >= Fuel + 1
      BY <1>1, <3>2
    <3>4. Extreme(K, t, s, e, c)
      BY <1>5, <2>2, <3>1, <3>3
    <3>5. go[k + 1][m] = e
      BY <2>3, <2>6
    <3>. HIDE DEF e
    <3>6. e \in Below(t, c) /\ e \in Below(t, m) /\ e \in Node /\ Further(K, s, e, m)
      BY <3>4, BelowFacts, StrictBelow DEF Extreme
    <3>7. ASSUME NEW x \in Below(t, m), x # e PROVE Further(K, s, e, x)
      <4>1. CASE x \in Below(t, c)
        BY <3>4, <3>7, <4>1 DEF Extreme
      <4>2. CASE x = m
        BY <3>6, <4>2
      <4>3. CASE x \notin Below(t, c) /\ x # m
        <5>1. Further(K, s, m, x) /\ x \in Node
          BY <2>4, <4>3, BelowFacts, LinksAt
        <5>. QED  BY <2>1, <3>6, <5>1, FurtherOrder
      <4>. QED  BY <4>1, <4>2, <4>3
    <3>. QED  BY <3>5, <3>6, <3>7 DEF Extreme
  <2>. QED  BY <2>5, <2>6
<1>. HIDE DEF P
<1>6. Nat \subseteq P
  BY <1>4, <1>5, NatSetInduction
<1>7. Cardinality(Anc(t, n)) \in 0..Fuel /\ Cardinality(Anc(t, n)) # 0
  <2>1. n # Nil /\ n \in t.nodes \cup {Nil}
    BY RBAssumption DEF Tree
  <2>. QED  BY <2>1, AncFinite
<1>8. Cardinality(Anc(t, n)) + Fuel >= Fuel + 1 /\ Fuel \in 0..Fuel
  BY <1>1, <1>7
<1>9. Extreme(K, t, s, go[Fuel][n], n)
  BY <1>1, <1>6, <1>8 DEF P
<1>. QED  BY <1>2, <1>9

\* What a step to side s should reach: the nearest node on that side.
Nearest(K, t, s, n, m) ==
    IF m = Nil THEN \A x \in t.nodes : ~Further(K, s, x, n)
    ELSE /\ m \in t.nodes /\ Further(K, s, m, n)
         /\ \A x \in t.nodes : Further(K, s, x, n) => x = m \/ Further(K, s, x, m)

ClimbAt(t, s, go, k) ==
    [m \in Node |-> LET p == t.parent[m]
                    IN  IF k > 0 /\ p # Nil /\ t.child[s][p] = m THEN go[k - 1][p] ELSE p]

LEMMA ClimbFunction ==
    ASSUME NEW t \in Tree, NEW s \in Side, Fuel \in Nat
    PROVE  \E go : /\ go = [k \in 0..Fuel |-> ClimbAt(t, s, go, k)]
                   /\ \A n : Climb(t, s, n) = go[Fuel][n]
<1>. DEFINE X    == [Node -> Ptr]
            base == [m \in Node |-> t.parent[m]]
            Up(g) == [m \in Node |-> IF t.parent[m] # Nil /\ t.child[s][t.parent[m]] = m
                                     THEN g[t.parent[m]] ELSE t.parent[m]]
            step == [g \in X |-> Up(g)]
            F    == CHOOSE go : go = [k \in 0..Fuel |-> ClimbAt(t, s, go, k)]
<1>1. base \in X /\ step \in [X -> X]
  <2>1. \A m \in Node : t.parent[m] \in Ptr /\ (t.parent[m] # Nil => t.parent[m] \in Node)
    BY DEF Tree, Ptr
  <2>2. \A g \in X : Up(g) \in X
    BY <2>1
  <2>. QED  BY <2>1, <2>2
<1>2. PICK f \in [0..Fuel -> X] : f[0] = base /\ \A k \in 1..Fuel : f[k] = step[f[k - 1]]
  <2>. HIDE DEF X, base, step
  <2>1. PICK f : Iterates(f, X, base, step, Fuel)
    BY <1>1, Iterate
  <2>. QED  BY <2>1 DEF Iterates
<1>3. ASSUME NEW k \in 0..Fuel PROVE f[k] = ClimbAt(t, s, f, k)
  <2>1. CASE k = 0
    BY <1>2, <2>1 DEF ClimbAt
  <2>2. CASE k # 0
    <3>1. k \in 1..Fuel /\ k - 1 \in 0..Fuel /\ k > 0
      BY <2>2
    <3>2. f[k - 1] \in X
      BY <3>1
    <3>3. f[k] = Up(f[k - 1])
      BY <1>2, <3>1, <3>2
    <3>4. ClimbAt(t, s, f, k) = Up(f[k - 1])
      BY <3>1 DEF ClimbAt
    <3>. QED  BY <3>3, <3>4
  <2>. QED  BY <2>1, <2>2
<1>4. f = [k \in 0..Fuel |-> ClimbAt(t, s, f, k)]
  BY <1>3
<1>5. F = [k \in 0..Fuel |-> ClimbAt(t, s, F, k)]
  BY <1>4
<1>6. \A n : Climb(t, s, n) = F[Fuel][n]
  BY DEF Climb, ClimbAt
<1>. HIDE DEF F
<1>. QED  BY <1>5, <1>6

\* Nothing is below a null pointer, and everything below the root.
LEMMA BelowEnds ==
    ASSUME NEW t \in Tree, WF(t)
    PROVE  Below(t, Nil) = {} /\ (t.root # Nil => t.root \in t.nodes /\ Below(t, t.root) = t.nodes)
<1>1. ASSUME NEW x \in t.nodes PROVE Nil \notin Anc(t, x)
  BY AncClosed, RBAssumption DEF Tree
<1>2. ASSUME NEW x \in t.nodes PROVE t.root \in Anc(t, x)
  BY RootAbove
<1>3. t.root # Nil => t.root \in t.nodes
  BY DEF WF, Links
<1>. QED  BY <1>1, <1>2, <1>3 DEF Below

\* Climbing from a node without a child on side s leads to the nearest one there.
LEMMA ClimbNearest ==
    ASSUME NEW K \in [Node -> Nat], NEW t \in Tree, WF(t), Strict(K, t), NEW n \in t.nodes, NEW s \in Side,
           t.child[s][n] = Nil
    PROVE  Nearest(K, t, s, n, Climb(t, s, n))
<1>1. Fuel \in Nat
  BY AncFinite
<1>2. PICK go : /\ go = [k \in 0..Fuel |-> ClimbAt(t, s, go, k)]
                /\ \A m : Climb(t, s, m) = go[Fuel][m]
  BY <1>1, ClimbFunction
<1>3. \A k \in 0..Fuel : go[k] = ClimbAt(t, s, go, k)
  BY <1>2
<1>4. n \in Node /\ \A x \in t.nodes : x \in Node /\ x # Nil
  BY LinksAt
<1>. DEFINE P == {k \in Nat : k \in 0..Fuel => \A m \in t.nodes :
                    Extreme(K, t, s, n, m) /\ Cardinality(Anc(t, m)) <= k
                        => Nearest(K, t, s, n, go[k][m])}
<1>5. 0 \in P
  <2>. SUFFICES ASSUME NEW m \in t.nodes, Cardinality(Anc(t, m)) <= 0 PROVE FALSE
    OBVIOUS
  <2>1. Cardinality(Anc(t, m)) \in 0..Fuel /\ Cardinality(Anc(t, m)) # 0
    BY <1>4, AncFinite
  <2>. QED  BY <1>1, <2>1
<1>6. ASSUME NEW k \in Nat, k \in P PROVE k + 1 \in P
  <2>. SUFFICES ASSUME k + 1 \in 0..Fuel, NEW m \in t.nodes, Extreme(K, t, s, n, m),
                       Cardinality(Anc(t, m)) <= k + 1
                PROVE  Nearest(K, t, s, n, go[k + 1][m])
    OBVIOUS
  <2>. DEFINE p == t.parent[m]
  <2>1. m \in Node /\ p \in t.nodes \cup {Nil}
    BY LinksAt
  <2>2. k \in 0..Fuel /\ k + 1 > 0 /\ (k + 1) - 1 = k
    BY <1>1
  <2>3. go[k + 1][m] = IF p # Nil /\ t.child[s][p] = m THEN go[k][p] ELSE p
    <3>1. go[k + 1] = ClimbAt(t, s, go, k + 1)
      BY <1>3
    <3>. QED  BY <2>1, <2>2, <3>1 DEF ClimbAt
  <2>4. n \in Below(t, m) /\ \A x \in Below(t, m) : x = n \/ Further(K, s, n, x)
    BY DEF Extreme
  <2>5. CASE p = Nil
    <3>1. m = t.root
      BY <2>5, LinksAt
    <3>2. Below(t, m) = t.nodes
      BY <1>4, <3>1, BelowEnds
    <3>3. ASSUME NEW x \in t.nodes PROVE ~Further(K, s, x, n)
      <4>1. x = n \/ Further(K, s, n, x)
        BY <2>4, <3>2
      <4>. QED  BY <1>4, <4>1, FurtherOrder
    <3>4. go[k + 1][m] = Nil
      BY <2>3, <2>5
    <3>. QED  BY <3>3, <3>4 DEF Nearest
  <2>6. CASE p # Nil /\ t.child[s][p] = m
    <3>1. p \in t.nodes /\ p \in Node
      BY <1>4, <2>1, <2>6
    <3>2. n \in Below(t, p) /\ Further(K, s, n, p)
      BY <2>4, <2>6, <3>1, BelowFacts, StrictBelow
    <3>3. ASSUME NEW x \in Below(t, p), x # n PROVE Further(K, s, n, x)
      <4>1. CASE x = p
        BY <3>2, <4>1
      <4>2. CASE x # p
        <5>1. PICK d \in Side : x \in Below(t, t.child[d][p])
          BY <3>1, <4>2, BelowSplit
        <5>2. CASE d = s
          BY <2>4, <2>6, <3>3, <5>1, <5>2
        <5>3. CASE d # s
          <6>1. d = Opp(s)
            BY <5>3 DEF Side, Opp
          <6>2. Further(K, s, p, x) /\ x \in Node
            BY <3>1, <5>1, <6>1, StrictBelow, OppSide
          <6>. QED  BY <1>4, <3>1, <3>2, <6>2, FurtherOrder
        <5>. QED  BY <5>2, <5>3
      <4>. QED  BY <4>1, <4>2
    <3>4. Extreme(K, t, s, n, p)
      BY <3>2, <3>3 DEF Extreme
    <3>5. Cardinality(Anc(t, p)) <= k
      <4>1. Cardinality(Anc(t, m)) = Cardinality(Anc(t, p)) + 1
        BY <1>4, AncFinite
      <4>2. Cardinality(Anc(t, p)) \in Nat
        BY <2>1, AncFinite
      <4>. QED  BY <4>1, <4>2
    <3>6. go[k + 1][m] = go[k][p]
      BY <2>3, <2>6
    <3>. HIDE DEF p
    <3>. QED  BY <1>6, <2>2, <3>1, <3>4, <3>5, <3>6
  <2>7. CASE p # Nil /\ t.child[s][p] # m
    <3>1. p \in t.nodes /\ p \in Node
      BY <1>4, <2>1, <2>7
    <3>2. t.child[Opp(s)][p] = m /\ Opp(s) \in Side /\ Opp(Opp(s)) = s
      <4>1. PICK d \in Side : t.child[d][p] = m
        BY <2>7, LinksAt
      <4>. QED  BY <2>7, <4>1, OppSide DEF Side, Opp
    <3>3. Further(K, s, p, n) /\ n \in Below(t, p)
      BY <2>4, <3>1, <3>2, StrictBelow, BelowFacts
    <3>4. ASSUME NEW x \in t.nodes, Further(K, s, x, n), x # p PROVE Further(K, s, x, p)
      <4>1. CASE x \notin Below(t, p)
        BY <3>1, <3>3, <3>4, <4>1, Convex
      <4>2. CASE x \in Below(t, p)
        <5>1. PICK d \in Side : x \in Below(t, t.child[d][p])
          BY <3>1, <3>4, <4>2, BelowSplit
        <5>2. CASE d = s
          BY <3>1, <5>1, <5>2, StrictBelow
        <5>3. CASE d # s
          <6>1. d = Opp(s)
            BY <5>3 DEF Side, Opp
          <6>2. x = n \/ Further(K, s, n, x)
            BY <2>4, <3>2, <5>1, <6>1
          <6>. QED  BY <1>4, <3>4, <6>2, FurtherOrder
        <5>. QED  BY <5>2, <5>3
      <4>. QED  BY <4>1, <4>2
    <3>5. go[k + 1][m] = p
      BY <2>3, <2>7
    <3>. HIDE DEF p
    <3>. QED  BY <2>7, <3>1, <3>3, <3>4, <3>5 DEF Nearest
  <2>. QED  BY <2>5, <2>6, <2>7
<1>. HIDE DEF P
<1>7. Nat \subseteq P
  BY <1>5, <1>6, NatSetInduction
<1>8. Extreme(K, t, s, n, n)
  <2>1. n \in Below(t, n)
    BY BelowFacts
  <2>2. ASSUME NEW x \in Below(t, n), x # n PROVE Further(K, s, n, x)
    <3>1. PICK d \in Side : x \in Below(t, t.child[d][n])
      BY <2>2, BelowSplit
    <3>2. d = Opp(s)
      BY <3>1, BelowEnds DEF Side, Opp
    <3>. QED  BY <3>1, <3>2, StrictBelow, OppSide
  <2>. QED  BY <2>1, <2>2 DEF Extreme
<1>9. Cardinality(Anc(t, n)) <= Fuel /\ Fuel \in 0..Fuel
  BY <1>1, AncFinite
<1>10. Nearest(K, t, s, n, go[Fuel][n])
  BY <1>1, <1>7, <1>8, <1>9 DEF P
<1>. QED  BY <1>2, <1>10

\* rb_next and rb_prev step to the nearest node.
LEMMA NeighbourNearest ==
    ASSUME NEW K \in [Node -> Nat], NEW t \in Tree, WF(t), Strict(K, t), NEW n \in t.nodes, NEW s \in Side
    PROVE  Nearest(K, t, s, n, Neighbour(t, s, n))
<1>1. t.parent[n] # n /\ t.child[s][n] \in t.nodes \cup {Nil} /\ n \in Node
  BY Distinct, LinksAt
<1>2. CASE t.child[s][n] = Nil
  <2>1. Neighbour(t, s, n) = Climb(t, s, n)
    BY <1>1, <1>2 DEF Neighbour
  <2>. QED  BY <1>2, <2>1, ClimbNearest
<1>3. CASE t.child[s][n] # Nil
  <2>. DEFINE c == t.child[s][n]
              e == Edge(t, Opp(s), c)
  <2>1. Neighbour(t, s, n) = e
    BY <1>1, <1>3 DEF Neighbour
  <2>2. c \in t.nodes /\ Opp(s) \in Side /\ Opp(Opp(s)) = s
    BY <1>1, <1>3, OppSide
  <2>3. Extreme(K, t, Opp(s), e, c)
    BY <2>2, EdgeExtreme
  <2>. HIDE DEF e
  <2>4. e \in Below(t, c) /\ \A x \in Below(t, c) : x = e \/ Further(K, Opp(s), e, x)
    BY <2>3 DEF Extreme
  <2>5. e \in t.nodes /\ e \in Node /\ e # Nil /\ Further(K, s, e, n) /\ e \in Below(t, n)
    BY <2>4, StrictBelow, LinksAt, BelowFacts
  <2>6. ASSUME NEW x \in t.nodes, Further(K, s, x, n), x # e PROVE Further(K, s, x, e)
    <3>0. x \in Node /\ x # n
      BY <1>1, <2>6, FurtherOrder, LinksAt
    <3>1. CASE x \notin Below(t, n)
      BY <2>5, <2>6, <3>1, Convex
    <3>2. CASE x \in Below(t, n)
      <4>1. PICK d \in Side : x \in Below(t, t.child[d][n])
        BY <3>0, <3>2, BelowSplit
      <4>2. CASE d = s
        <5>1. Further(K, Opp(s), e, x)
          BY <2>4, <2>6, <4>1, <4>2
        <5>. QED  BY <2>5, <3>0, <5>1, FurtherOrder
      <4>3. CASE d # s
        <5>1. d = Opp(s)
          BY <4>3 DEF Side, Opp
        <5>2. Further(K, Opp(s), x, n)
          BY <4>1, <5>1, <2>2, StrictBelow
        <5>3. Further(K, s, n, x)
          BY <1>1, <3>0, <5>2, FurtherOrder
        <5>. QED  BY <1>1, <2>6, <3>0, <5>3, FurtherOrder
      <4>. QED  BY <4>2, <4>3
    <3>. QED  BY <3>1, <3>2
  <2>. QED  BY <2>1, <2>5, <2>6 DEF Nearest
<1>. QED  BY <1>2, <1>3

\* The loop of Visit.
VisitAt(step, go, k) ==
    [p \in Ptr |-> IF k = 0 \/ p = Nil THEN << >> ELSE <<p>> \o go[k - 1][step[p]]]

LEMMA VisitFunction ==
    ASSUME NEW next \in [Node -> Ptr], Fuel \in Nat
    PROVE  \E go : /\ go = [k \in 0..Fuel + 1 |-> VisitAt(next, go, k)]
                   /\ \A n : Visit(n, next) = go[Fuel + 1][n]
<1>. DEFINE X    == [Ptr -> Seq(Ptr)]
            base == [p \in Ptr |-> << >>]
            On(g) == [p \in Ptr |-> IF p = Nil THEN << >> ELSE <<p>> \o g[next[p]]]
            step == [g \in X |-> On(g)]
            F    == CHOOSE go : go = [k \in 0..Fuel + 1 |-> VisitAt(next, go, k)]
<1>0. PICK N \in Nat : N = Fuel + 1
  OBVIOUS
<1>1. base \in X /\ step \in [X -> X]
  <2>1. \A p \in Ptr : p # Nil => next[p] \in Ptr
    BY DEF Ptr
  <2>2. ASSUME NEW g \in X, NEW p \in Ptr, p # Nil PROVE <<p>> \o g[next[p]] \in Seq(Ptr)
    <3>1. g[next[p]] \in Seq(Ptr)
      BY <2>1, <2>2
    <3>2. <<p>> \in Seq(Ptr)
      OBVIOUS
    <3>. QED  BY <3>1, <3>2, ConcatProperties
  <2>3. \A g \in X : On(g) \in X
    BY <2>2
  <2>. QED  BY <2>3
<1>2. PICK f \in [0..N -> X] : f[0] = base /\ \A k \in 1..N : f[k] = step[f[k - 1]]
  <2>. HIDE DEF X, base, step
  <2>1. PICK f : Iterates(f, X, base, step, N)
    BY <1>1, Iterate
  <2>. QED  BY <2>1 DEF Iterates
<1>3. ASSUME NEW k \in 0..Fuel + 1 PROVE f[k] = VisitAt(next, f, k)
  <2>1. CASE k = 0
    BY <1>2, <2>1 DEF VisitAt
  <2>2. CASE k # 0
    <3>1. k \in 1..N /\ k - 1 \in 0..N
      BY <1>0, <2>2
    <3>2. f[k - 1] \in X
      BY <3>1
    <3>3. f[k] = On(f[k - 1])
      BY <1>2, <3>1, <3>2
    <3>4. VisitAt(next, f, k) = On(f[k - 1])
      BY <2>2 DEF VisitAt
    <3>. QED  BY <3>3, <3>4
  <2>. QED  BY <2>1, <2>2
<1>4. f = [k \in 0..Fuel + 1 |-> VisitAt(next, f, k)]
  BY <1>0, <1>3
<1>5. F = [k \in 0..Fuel + 1 |-> VisitAt(next, F, k)]
  BY <1>4
<1>6. \A n : Visit(n, next) = F[Fuel + 1][n]
  BY DEF Visit, VisitAt
<1>. HIDE DEF F
<1>. QED  BY <1>5, <1>6

\* The pointers that the loops return are pointers, whatever the tree.
LEMMA EdgeType == ASSUME NEW t \in Tree, NEW s \in Side, NEW n \in Node PROVE Edge(t, s, n) \in Node
<1>1. Fuel \in Nat
  BY RBAssumption, FS_CardinalityType DEF Fuel
<1>2. PICK go : /\ go = [k \in 0..Fuel |-> EdgeAt(t, s, go, k)]
                /\ \A m : Edge(t, s, m) = go[Fuel][m]
  BY <1>1, EdgeFunction
<1>3. \A k \in 0..Fuel : go[k] = EdgeAt(t, s, go, k)
  BY <1>2
<1>4. \A m \in Node : t.child[s][m] # Nil => t.child[s][m] \in Node
  BY DEF Tree, Ptr
<1>. DEFINE P == {k \in Nat : k \in 0..Fuel => \A m \in Node : go[k][m] \in Node}
<1>5. 0 \in P
  BY <1>1, <1>3 DEF EdgeAt
<1>6. ASSUME NEW k \in Nat, k \in P PROVE k + 1 \in P
  <2>. SUFFICES ASSUME k + 1 \in 0..Fuel, NEW m \in Node PROVE go[k + 1][m] \in Node
    OBVIOUS
  <2>1. k \in 0..Fuel /\ (k + 1) - 1 = k /\ k + 1 # 0
    BY <1>1
  <2>2. go[k + 1][m] = IF t.child[s][m] = Nil THEN m ELSE go[k][t.child[s][m]]
    <3>1. go[k + 1] = EdgeAt(t, s, go, k + 1)
      BY <1>3
    <3>. QED  BY <2>1, <3>1 DEF EdgeAt
  <2>. QED  BY <1>4, <1>6, <2>1, <2>2
<1>. HIDE DEF P
<1>7. Nat \subseteq P
  BY <1>5, <1>6, NatSetInduction
<1>8. go[Fuel][n] \in Node
  BY <1>1, <1>7 DEF P
<1>. QED  BY <1>2, <1>8

LEMMA ClimbType == ASSUME NEW t \in Tree, NEW s \in Side, NEW n \in Node PROVE Climb(t, s, n) \in Ptr
<1>1. Fuel \in Nat
  BY RBAssumption, FS_CardinalityType DEF Fuel
<1>2. PICK go : /\ go = [k \in 0..Fuel |-> ClimbAt(t, s, go, k)]
                /\ \A m : Climb(t, s, m) = go[Fuel][m]
  BY <1>1, ClimbFunction
<1>3. \A k \in 0..Fuel : go[k] = ClimbAt(t, s, go, k)
  BY <1>2
<1>4. \A m \in Node : t.parent[m] \in Ptr /\ (t.parent[m] # Nil => t.parent[m] \in Node)
  BY DEF Tree, Ptr
<1>. DEFINE P == {k \in Nat : k \in 0..Fuel => \A m \in Node : go[k][m] \in Ptr}
<1>5. 0 \in P
  <2>1. 0 \in 0..Fuel
    BY <1>1
  <2>2. go[0] = ClimbAt(t, s, go, 0)
    BY <1>3, <2>1
  <2>. QED  BY <1>4, <2>2 DEF ClimbAt
<1>6. ASSUME NEW k \in Nat, k \in P PROVE k + 1 \in P
  <2>. SUFFICES ASSUME k + 1 \in 0..Fuel, NEW m \in Node PROVE go[k + 1][m] \in Ptr
    OBVIOUS
  <2>1. k \in 0..Fuel /\ (k + 1) - 1 = k /\ k + 1 > 0
    BY <1>1
  <2>2. go[k + 1][m] = IF t.parent[m] # Nil /\ t.child[s][t.parent[m]] = m THEN go[k][t.parent[m]]
                       ELSE t.parent[m]
    <3>1. go[k + 1] = ClimbAt(t, s, go, k + 1)
      BY <1>3
    <3>. QED  BY <2>1, <3>1 DEF ClimbAt
  <2>. QED  BY <1>4, <1>6, <2>1, <2>2
<1>. HIDE DEF P
<1>7. Nat \subseteq P
  BY <1>5, <1>6, NatSetInduction
<1>8. go[Fuel][n] \in Ptr
  BY <1>1, <1>7 DEF P
<1>. QED  BY <1>2, <1>8

LEMMA NeighbourType ==
    ASSUME NEW t \in Tree, NEW s \in Side
    PROVE  [n \in Node |-> Neighbour(t, s, n)] \in [Node -> Ptr]
<1>. SUFFICES ASSUME NEW n \in Node PROVE Neighbour(t, s, n) \in Ptr
  OBVIOUS
<1>1. Opp(s) \in Side /\ Nil \in Ptr /\ Node \subseteq Ptr
  BY OppSide DEF Ptr
<1>2. t.child[s][n] # Nil => t.child[s][n] \in Node
  BY DEF Tree, Ptr
<1>3. t.child[s][n] # Nil => Edge(t, Opp(s), t.child[s][n]) \in Ptr
  BY <1>1, <1>2, EdgeType
<1>. QED  BY <1>1, <1>3, ClimbType DEF Neighbour

\* A one-to-one correspondence.
LEMMA SameSize ==
    ASSUME NEW S, NEW R, IsFiniteSet(S), NEW f \in [S -> R],
           \A x, y \in S : f[x] = f[y] => x = y, \A z \in R : \E x \in S : f[x] = z
    PROVE  IsFiniteSet(R) /\ Cardinality(R) = Cardinality(S)
<1>1. f \in Bijection(S, R)
  <2>1. f \in Injection(S, R)
    BY DEF Injection, IsInjective
  <2>2. f \in Surjection(S, R)
    BY DEF Surjection
  <2>. QED  BY <2>1, <2>2 DEF Bijection
<1>2. ExistsBijection(S, R)
  BY <1>1 DEF ExistsBijection
<1>. QED  BY <1>2, FS_Bijection

\* The list v has the nodes of t in it, from one end to side s.
Lists(K, t, s, v) ==
    /\ v \in Seq(Node)
    /\ \A i \in 1..Len(v) : v[i] \in t.nodes
    /\ \A n \in t.nodes : \E i \in 1..Len(v) : v[i] = n
    /\ \A i, j \in 1..Len(v) : i < j => Further(K, s, v[j], v[i])

\* Its length is the number of nodes.
LEMMA ListsLength ==
    ASSUME NEW K \in [Node -> Nat], NEW t \in Tree, NEW s \in Side, NEW v, Lists(K, t, s, v)
    PROVE  Len(v) = Cardinality(t.nodes) /\ Len(v) \in Nat /\ Fuel \in Nat /\ Len(v) <= Fuel
           /\ \A i, j \in 1..Len(v) : v[i] = v[j] => i = j
<1>1. v \in Seq(Node) /\ Len(v) \in Nat /\ (\A i \in 1..Len(v) : v[i] \in t.nodes /\ v[i] \in Node)
      /\ DOMAIN v = 1..Len(v)
  BY DEF Lists
<1>2. ASSUME NEW i \in 1..Len(v), NEW j \in 1..Len(v), v[i] = v[j] PROVE i = j
  <2>1. ~(i < j) /\ ~(j < i)
    BY <1>1, <1>2, FurtherOrder DEF Lists
  <2>. QED  BY <1>1, <2>1
<1>a. ASSUME NEW k \in Nat PROVE IsFiniteSet(1..k) /\ Cardinality(1..k) = k
  <2>1. IsFiniteSet(1..k) /\ Cardinality(1..k) = IF 1 > k THEN 0 ELSE k - 1 + 1
    BY FS_Interval
  <2>. QED  BY <2>1
<1>3. IsFiniteSet(1..Len(v)) /\ Cardinality(1..Len(v)) = Len(v)
  BY <1>1, <1>a, Zenon
<1>4. v \in [1..Len(v) -> t.nodes]
  BY <1>1
<1>5. Cardinality(t.nodes) = Cardinality(1..Len(v))
  <2>. DEFINE S == 1..Len(v)
  <2>1. \A z \in t.nodes : \E x \in S : v[x] = z
    BY DEF Lists
  <2>2. IsFiniteSet(S) /\ v \in [S -> t.nodes] /\ \A x, y \in S : v[x] = v[y] => x = y
    BY <1>2, <1>3, <1>4
  <2>. HIDE DEF S
  <2>3. Cardinality(t.nodes) = Cardinality(S)
    BY <2>1, <2>2, SameSize
  <2>. QED  BY <2>3 DEF S
<1>6. t.nodes \subseteq Node /\ IsFiniteSet(Node)
  BY RBAssumption DEF Tree
<1>7. Cardinality(t.nodes) <= Cardinality(Node) /\ Cardinality(Node) \in Nat
  BY <1>6, FS_Subset, FS_CardinalityType
<1>. QED  BY <1>1, <1>2, <1>3, <1>5, <1>7 DEF Fuel

\* One step from the i-th node leads to the next.
LEMMA NextInList ==
    ASSUME NEW K \in [Node -> Nat], NEW t \in Tree, WF(t), Strict(K, t), NEW s \in Side,
           NEW v, Lists(K, t, s, v), NEW i \in 1..Len(v)
    PROVE  Neighbour(t, s, v[i]) = IF i = Len(v) THEN Nil ELSE v[i + 1]
<1>1. Len(v) \in Nat /\ (\A j \in 1..Len(v) : v[j] \in t.nodes /\ v[j] \in Node /\ v[j] # Nil)
  BY ListsLength, LinksAt DEF Lists
<1>. DEFINE n == v[i]
            m == Neighbour(t, s, n)
<1>2. n \in t.nodes /\ n \in Node /\ Nearest(K, t, s, n, m)
  BY <1>1, NeighbourNearest
<1>3. \A j, k \in 1..Len(v) : j < k => Further(K, s, v[k], v[j])
  BY DEF Lists
<1>. HIDE DEF m
<1>4. CASE i = Len(v)
  <2>1. ASSUME m # Nil PROVE FALSE
    <3>1. m \in t.nodes /\ Further(K, s, m, n)
      BY <1>2, <2>1 DEF Nearest
    <3>2. PICK j \in 1..Len(v) : v[j] = m
      BY <3>1 DEF Lists
    <3>3. j = i \/ j < i
      BY <1>1, <1>4
    <3>4. m = n \/ Further(K, s, n, m)
      BY <1>3, <3>2, <3>3
    <3>. QED  BY <1>1, <1>2, <3>1, <3>2, <3>4, FurtherOrder
  <2>. QED  BY <1>4, <2>1 DEF m
<1>5. CASE i # Len(v)
  <2>. DEFINE x == v[i + 1]
  <2>1. i + 1 \in 1..Len(v) /\ i < i + 1
    BY <1>1, <1>5
  <2>2. Further(K, s, x, n) /\ x \in t.nodes /\ x \in Node
    BY <1>1, <1>3, <2>1
  <2>. HIDE DEF x
  <2>3. m # Nil /\ m \in t.nodes /\ Further(K, s, m, n) /\ (x = m \/ Further(K, s, x, m))
    BY <1>2, <2>2 DEF Nearest
  <2>4. PICK j \in 1..Len(v) : v[j] = m
    BY <2>3 DEF Lists
  <2>5. j = i + 1 \/ j <= i \/ i + 1 < j
    BY <1>1, <2>1
  <2>6. CASE j <= i
    <3>1. m = n \/ Further(K, s, n, m)
      <4>1. j = i \/ j < i
        BY <1>1, <2>6
      <4>. QED  BY <1>3, <2>4, <4>1
    <3>. QED  BY <1>1, <1>2, <2>3, <2>4, <3>1, FurtherOrder
  <2>7. CASE i + 1 < j
    <3>1. Further(K, s, m, x)
      BY <1>3, <2>1, <2>4, <2>7 DEF x
    <3>2. x = m
      BY <1>1, <2>2, <2>3, <2>4, <3>1, FurtherOrder
    <3>. QED  BY <1>5, <3>2 DEF m, x
  <2>8. CASE j = i + 1
    BY <1>5, <2>4, <2>8 DEF m, x
  <2>. QED  BY <2>5, <2>6, <2>7, <2>8
<1>. QED  BY <1>4, <1>5

\* The whole walk.
LEMMA VisitLists ==
    ASSUME NEW K \in [Node -> Nat], NEW t \in Tree, WF(t), Strict(K, t), NEW s \in Side,
           NEW v, Lists(K, t, s, v)
    PROVE  Visit(IF t.root = Nil THEN Nil ELSE Edge(t, Opp(s), t.root),
                 [n \in Node |-> Neighbour(t, s, n)]) = v
<1>. DEFINE next  == [n \in Node |-> Neighbour(t, s, n)]
            first == IF t.root = Nil THEN Nil ELSE Edge(t, Opp(s), t.root)
            L     == Len(v)
<1>1. /\ v \in Seq(Node) /\ L \in Nat /\ Fuel \in Nat /\ L <= Fuel
      /\ \A j \in 1..L : v[j] \in t.nodes /\ v[j] \in Node /\ v[j] # Nil /\ v[j] \in Ptr
  <2>1. L \in Nat /\ Fuel \in Nat /\ L <= Fuel
    BY ListsLength
  <2>2. v \in Seq(Node) /\ \A j \in 1..L : v[j] \in t.nodes
    BY DEF Lists
  <2>3. \A x \in t.nodes : x \in Node /\ x # Nil /\ x \in Ptr
    BY LinksAt DEF Ptr
  <2>. QED  BY <2>1, <2>2, <2>3
<1>2. next \in [Node -> Ptr]
  BY NeighbourType
<1>3. \A i \in 1..L : next[v[i]] = IF i = L THEN Nil ELSE v[i + 1]
  BY <1>1, NextInList
<1>4. first = IF L = 0 THEN Nil ELSE v[1]
  <2>1. CASE L = 0
    <3>1. t.nodes = {}
      BY <2>1 DEF Lists
    <3>2. t.root = Nil
      BY <3>1 DEF WF, Links
    <3>. QED  BY <2>1, <3>2
  <2>2. CASE L # 0
    <3>. DEFINE e == Edge(t, Opp(s), t.root)
    <3>1. 1 \in 1..L /\ v[1] \in t.nodes
      BY <1>1, <2>2
    <3>2. t.root # Nil
      BY <3>1, EmptyTree
    <3>3. t.root \in t.nodes /\ Below(t, t.root) = t.nodes /\ Opp(s) \in Side
      BY <3>2, BelowEnds, OppSide
    <3>4. Extreme(K, t, Opp(s), e, t.root)
      BY <3>3, EdgeExtreme
    <3>. HIDE DEF e
    <3>5. e \in t.nodes /\ (v[1] = e \/ Further(K, Opp(s), e, v[1]))
      BY <3>1, <3>3, <3>4 DEF Extreme
    <3>6. PICK j \in 1..L : v[j] = e
      BY <3>5 DEF Lists
    <3>7. CASE j = 1
      BY <2>2, <3>2, <3>6, <3>7 DEF e
    <3>8. CASE j # 1
      <4>1. 1 < j
        BY <1>1, <3>8
      <4>2. Further(K, s, e, v[1])
        BY <3>1, <3>6, <4>1 DEF Lists
      <4>3. v[1] \in Node /\ e \in Node /\ (Further(K, Opp(s), e, v[1]) <=> Further(K, s, v[1], e))
        BY <1>1, <3>1, <3>6, FurtherOrder
      <4>4. v[1] = e
        BY <3>5, <4>2, <4>3, FurtherOrder
      <4>. QED  BY <2>2, <3>2, <4>4 DEF e
    <3>. QED  BY <3>7, <3>8
  <2>. QED  BY <2>1, <2>2
<1>. HIDE DEF next, first
<1>5. PICK go : /\ go = [k \in 0..Fuel + 1 |-> VisitAt(next, go, k)]
                /\ \A n : Visit(n, next) = go[Fuel + 1][n]
  BY <1>1, <1>2, VisitFunction
<1>6. \A k \in 0..Fuel + 1 : go[k] = VisitAt(next, go, k)
  BY <1>5
<1>7. \A k \in 0..Fuel + 1 : go[k][Nil] = << >>
  BY <1>6 DEF VisitAt, Ptr
<1>. DEFINE P == {k \in Nat : k \in 0..Fuel + 1 => \A i \in 1..L :
                    L - i < k => go[k][v[i]] = SubSeq(v, i, L)}
<1>8. 0 \in P
  BY <1>1
<1>9. ASSUME NEW k \in Nat, k \in P PROVE k + 1 \in P
  <2>. SUFFICES ASSUME k + 1 \in 0..Fuel + 1, NEW i \in 1..L, L - i < k + 1
                PROVE  go[k + 1][v[i]] = SubSeq(v, i, L)
    OBVIOUS
  <2>1. k \in 0..Fuel + 1 /\ (k + 1) - 1 = k /\ k + 1 # 0
    BY <1>1
  <2>2. go[k + 1][v[i]] = <<v[i]>> \o go[k][next[v[i]]]
    <3>1. go[k + 1] = VisitAt(next, go, k + 1)
      BY <1>6
    <3>2. v[i] \in Ptr /\ v[i] # Nil
      BY <1>1
    <3>. DEFINE m == v[i]
                j == k + 1
    <3>3. go[j] = VisitAt(next, go, j) /\ m \in Ptr /\ m # Nil /\ j # 0 /\ j - 1 = k
      BY <2>1, <3>1, <3>2
    <3>. HIDE DEF m, j
    <3>4. go[j][m] = <<m>> \o go[k][next[m]]
      BY <3>3 DEF VisitAt
    <3>. QED  BY <3>4 DEF m, j
  <2>3. SubSeq(v, i, L) = <<v[i]>> \o SubSeq(v, i + 1, L)
    <3>1. L \in i..Len(v)
      BY <1>1
    <3>. QED  BY <1>1, <3>1, SubSeqRecursiveFirst
  <2>4. go[k][next[v[i]]] = SubSeq(v, i + 1, L)
    <3>1. CASE i = L
      <4>1. SubSeq(v, i + 1, L) = << >>
        BY <1>1, <3>1, SubSeqEmpty
      <4>. QED  BY <1>3, <1>7, <2>1, <3>1, <4>1
    <3>2. CASE i # L
      <4>1. i + 1 \in 1..L /\ L - (i + 1) < k
        BY <1>1, <3>2
      <4>2. go[k][v[i + 1]] = SubSeq(v, i + 1, L)
        BY <1>9, <2>1, <4>1
      <4>3. next[v[i]] = v[i + 1]
        BY <1>3, <3>2
      <4>. QED  BY <4>2, <4>3
    <3>. QED  BY <3>1, <3>2
  <2>. QED  BY <2>2, <2>3, <2>4
<1>. HIDE DEF P
<1>10. Nat \subseteq P
  BY <1>8, <1>9, NatSetInduction
<1>11. Visit(first, next) = v
  <2>1. Fuel + 1 \in 0..Fuel + 1 /\ Fuel + 1 \in Nat
    BY <1>1
  <2>2. CASE L = 0
    <3>1. v = << >>
      BY <1>1, <2>2, EmptySeq
    <3>. QED  BY <1>4, <1>5, <1>7, <2>1, <2>2, <3>1
  <2>3. CASE L # 0
    <3>1. 1 \in 1..L /\ L - 1 < Fuel + 1
      BY <1>1, <2>3
    <3>2. go[Fuel + 1][v[1]] = SubSeq(v, 1, L)
      BY <1>10, <2>1, <3>1 DEF P
    <3>3. SubSeq(v, 1, L) = v
      BY <1>1, SubSeqFull
    <3>. QED  BY <1>4, <1>5, <2>3, <3>2, <3>3
  <2>. QED  BY <2>2, <2>3
<1>. QED  BY <1>11 DEF first, next

-----------------------------------------------------------------------------
(* The list of the nodes in the order of iteration.                         *)

\* A function on 1..n is a sequence.
LEMMA FunSeq ==
    ASSUME NEW S, NEW n \in Nat, NEW f \in [1..n -> S]
    PROVE  f \in Seq(S) /\ Len(f) = n
<1>1. f \in Seq(S)
  BY SeqDef
<1>2. Len(f) \in Nat /\ 1..Len(f) = 1..n
  BY <1>1, LenProperties
<1>3. Len(f) = n
  <2>1. n # 0 => n \in 1..n
    OBVIOUS
  <2>2. Len(f) # 0 => Len(f) \in 1..Len(f)
    BY <1>2
  <2>3. n # 0 => n <= Len(f)
    BY <1>2, <2>1
  <2>4. Len(f) # 0 => Len(f) <= n
    BY <1>2, <2>2
  <2>. QED  BY <1>2, <2>3, <2>4
<1>. QED  BY <1>1, <1>3

\* The keys ascend along the list w.
Along(K, w) == \A i, j \in 1..Len(w) : i < j => K[w[i]] < K[w[j]]

\* w lists the nodes of t.
ListsAll(t, w) ==
    /\ w \in Seq(Node)
    /\ \A i \in 1..Len(w) : w[i] \in t.nodes
    /\ \A n \in t.nodes : \E i \in 1..Len(w) : w[i] = n

\* w lists the nodes of t in the order of the tree.
InOrder(t, w) == ListsAll(t, w) /\ \E K \in [Node -> Nat] : Ordered(K, t) /\ Along(K, w)

\* The values along the list, where equal ones may follow each other.
Ascends(w) == \A i, j \in 1..Len(w) : i < j => Val[w[i]] <= Val[w[j]]

\* Keys that ascend along the list tell the nodes apart.
LEMMA AlongStrict ==
    ASSUME NEW K \in [Node -> Nat], NEW t \in Tree, Ordered(K, t), NEW w, ListsAll(t, w), Along(K, w)
    PROVE  Strict(K, t) /\ Lists(K, t, "right", w)
<1>1. w \in Seq(Node) /\ Len(w) \in Nat /\ \A i \in 1..Len(w) : w[i] \in t.nodes /\ w[i] \in Node
  BY DEF ListsAll
<1>2. ASSUME NEW x \in t.nodes, NEW y \in t.nodes, K[x] = K[y] PROVE x = y
  <2>1. PICK i \in 1..Len(w) : w[i] = x
    BY DEF ListsAll
  <2>2. PICK j \in 1..Len(w) : w[j] = y
    BY DEF ListsAll
  <2>3. ~(i < j) /\ ~(j < i)
    <3>1. i < j => K[x] < K[y]
      BY <2>1, <2>2 DEF Along
    <3>2. j < i => K[y] < K[x]
      BY <2>1, <2>2 DEF Along
    <3>3. K[x] \in Nat /\ K[y] \in Nat
      BY <1>1, <2>1, <2>2
    <3>. QED  BY <1>2, <3>1, <3>2, <3>3
  <2>4. i = j
    BY <1>1, <2>3
  <2>. QED  BY <2>1, <2>2, <2>4
<1>3. \A i, j \in 1..Len(w) : i < j => Further(K, "right", w[j], w[i])
  BY DEF Along, Further
<1>. QED  BY <1>2, <1>3 DEF Strict, Lists, ListsAll

\* A tree is in every order that its list is in.
LEMMA Rekey ==
    ASSUME NEW K \in [Node -> Nat], NEW t \in Tree, WF(t), Ordered(K, t), NEW w, ListsAll(t, w), Along(K, w),
           NEW M \in [Node -> Nat], \A i, j \in 1..Len(w) : i < j => M[w[i]] <= M[w[j]]
    PROVE  Ordered(M, t)
<1>1. Strict(K, t) /\ Len(w) \in Nat
  BY AlongStrict DEF ListsAll
<1>2. ASSUME NEW n \in t.nodes, NEW x \in t.nodes, NEW s \in Side, t.child[s][n] \in Anc(t, x)
      PROVE  Sorted(M, s, x, n)
  <2>1. x \in Below(t, t.child[s][n])
    BY <1>2 DEF Below
  <2>2. Further(K, s, x, n) /\ x \in Node /\ n \in Node
    BY <1>1, <2>1, StrictBelow, LinksAt
  <2>3. PICK i \in 1..Len(w) : w[i] = n
    BY DEF ListsAll
  <2>4. PICK j \in 1..Len(w) : w[j] = x
    BY DEF ListsAll
  <2>5. (i < j => K[n] < K[x]) /\ (j < i => K[x] < K[n]) /\ (i = j => K[n] = K[x])
    BY <2>3, <2>4 DEF Along
  <2>6. (i < j => M[n] <= M[x]) /\ (j < i => M[x] <= M[n])
    BY <2>3, <2>4
  <2>7. K[n] \in Nat /\ K[x] \in Nat
    BY <2>2
  <2>8. CASE s = "left"
    <3>1. K[x] < K[n]
      BY <2>2, <2>8 DEF Further
    <3>2. j < i
      BY <1>1, <2>5, <2>7, <3>1
    <3>. QED  BY <2>6, <2>8, <3>2 DEF Sorted
  <2>9. CASE s = "right"
    <3>1. K[n] < K[x]
      BY <2>2, <2>9 DEF Further
    <3>2. i < j
      BY <1>1, <2>5, <2>7, <3>1
    <3>. QED  BY <2>6, <2>9, <3>2 DEF Sorted
  <2>. QED  BY <2>8, <2>9 DEF Side
<1>. QED  BY <1>2 DEF Ordered

\* The search relies on an order that ascending values give.
LEMMA AscendsOrdered ==
    ASSUME NEW t \in Tree, WF(t), NEW w, InOrder(t, w), Ascends(w)
    PROVE  Ordered(Val, t)
<1>1. PICK K \in [Node -> Nat] : Ordered(K, t) /\ Along(K, w)
  BY DEF InOrder
<1>2. ListsAll(t, w) /\ Val \in [Node -> Nat] /\ \A i, j \in 1..Len(w) : i < j => Val[w[i]] <= Val[w[j]]
  BY RBAssumption DEF InOrder, Ascends
<1>. QED  BY <1>1, <1>2, Rekey

\* The list turned round.
LEMMA ReverseLists ==
    ASSUME NEW K \in [Node -> Nat], NEW t \in Tree, NEW w, Lists(K, t, "right", w)
    PROVE  Lists(K, t, "left", Reverse(w))
<1>. DEFINE L == Len(w)
            v == Reverse(w)
<1>1. w \in Seq(Node) /\ L \in Nat /\ \A i \in 1..L : w[i] \in t.nodes /\ w[i] \in Node
  BY DEF Lists
<1>2. v = [i \in 1..L |-> w[(L - i) + 1]] /\ \A i \in 1..L : (L - i) + 1 \in 1..L
  BY <1>1 DEF Reverse
<1>3. v \in Seq(Node) /\ Len(v) = L
  <2>1. v \in [1..L -> Node]
    BY <1>1, <1>2
  <2>. QED  BY <1>1, <2>1, FunSeq
<1>4. \A i \in 1..L : v[i] = w[(L - i) + 1] /\ v[i] \in t.nodes
  BY <1>1, <1>2
<1>. HIDE DEF v
<1>5. ASSUME NEW n \in t.nodes PROVE \E i \in 1..L : v[i] = n
  <2>1. PICK j \in 1..L : w[j] = n
    BY DEF Lists
  <2>2. (L - j) + 1 \in 1..L /\ (L - ((L - j) + 1)) + 1 = j
    BY <1>1
  <2>. QED  BY <1>4, <2>1, <2>2
<1>6. ASSUME NEW i \in 1..L, NEW j \in 1..L, i < j PROVE Further(K, "left", v[j], v[i])
  <2>. DEFINE a == (L - j) + 1
              b == (L - i) + 1
  <2>1. a \in 1..L /\ b \in 1..L /\ a < b
    BY <1>1, <1>6
  <2>2. Further(K, "right", w[b], w[a])
    BY <2>1 DEF Lists
  <2>3. v[j] = w[a] /\ v[i] = w[b]
    BY <1>4
  <2>. HIDE DEF a, b
  <2>. QED  BY <2>2, <2>3 DEF Further
<1>. QED  BY <1>3, <1>4, <1>5, <1>6 DEF Lists, v

\* The two iterations over a tree visit its list, from either end.
LEMMA WalkInOrder ==
    ASSUME NEW t \in Tree, WF(t), NEW w, InOrder(t, w)
    PROVE  /\ Walk(t) = w
           /\ Visit(rb_last(t), [n \in Node |-> rb_prev(t, n)]) = Reverse(w)
<1>1. PICK K \in [Node -> Nat] : Ordered(K, t) /\ Along(K, w)
  BY DEF InOrder
<1>2. Strict(K, t) /\ Lists(K, t, "right", w)
  BY <1>1, AlongStrict DEF InOrder
<1>3. Lists(K, t, "left", Reverse(w))
  BY <1>2, ReverseLists
<1>4. "left" \in Side /\ "right" \in Side /\ Opp("left") = "right" /\ Opp("right") = "left"
  BY DEF Side, Opp
<1>5. Visit(IF t.root = Nil THEN Nil ELSE Edge(t, Opp("right"), t.root),
            [n \in Node |-> Neighbour(t, "right", n)]) = w
  BY <1>2, <1>4, VisitLists
<1>6. Visit(IF t.root = Nil THEN Nil ELSE Edge(t, Opp("left"), t.root),
            [n \in Node |-> Neighbour(t, "left", n)]) = Reverse(w)
  BY <1>2, <1>3, <1>4, VisitLists
<1>7. Walk(t) = w
  BY <1>4, <1>5 DEF Walk, rb_first, rb_next
<1>8. Visit(rb_last(t), [n \in Node |-> rb_prev(t, n)]) = Reverse(w)
  BY <1>4, <1>6 DEF rb_last, rb_prev
<1>. QED  BY <1>7, <1>8

-----------------------------------------------------------------------------
(* What the steps of rbtree.c do to the list.                               *)

\* The sequence operators that OrderedBag uses, by index.
LEMMA RemoveAtIs ==
    ASSUME NEW S, NEW w \in Seq(S), NEW i \in 1..Len(w)
    PROVE  /\ RemoveAt(w, i) \in Seq(S) /\ Len(RemoveAt(w, i)) = Len(w) - 1
           /\ \A j \in 1..Len(w) - 1 : RemoveAt(w, i)[j] = IF j < i THEN w[j] ELSE w[j + 1]
<1>. DEFINE L == Len(w)
            a == SubSeq(w, 1, i - 1)
            b == SubSeq(w, i + 1, L)
<1>1. L \in Nat /\ i \in 1..L /\ \A j \in 1..L : w[j] \in S
  BY LenProperties
<1>2. a \in Seq(S) /\ Len(a) = i - 1 /\ \A j \in 1..i - 1 : a[j] = w[j]
  <2>1. 1 \in Int /\ i - 1 \in Int /\ \A j \in 1..(i - 1) : w[j] \in S
    BY <1>1
  <2>2. /\ a \in Seq(S) /\ Len(a) = IF 1 <= i - 1 THEN (i - 1) - 1 + 1 ELSE 0
        /\ \A j \in 1..(i - 1) - 1 + 1 : a[j] = w[1 + j - 1]
    BY <2>1, SubSeqProperties
  <2>3. (i - 1) - 1 + 1 = i - 1 /\ \A j \in 1..i - 1 : 1 + j - 1 = j
    BY <1>1
  <2>. HIDE DEF a
  <2>. QED  BY <1>1, <2>2, <2>3
<1>3. b \in Seq(S) /\ Len(b) = L - i /\ \A j \in 1..L - i : b[j] = w[i + j]
  <2>1. i + 1 \in Int /\ L \in Int /\ \A j \in (i + 1)..L : w[j] \in S
    BY <1>1
  <2>2. /\ b \in Seq(S) /\ Len(b) = IF i + 1 <= L THEN L - (i + 1) + 1 ELSE 0
        /\ \A j \in 1..L - (i + 1) + 1 : b[j] = w[(i + 1) + j - 1]
    BY <2>1, SubSeqProperties
  <2>3. L - (i + 1) + 1 = L - i
    BY <1>1
  <2>. HIDE DEF b, L
  <2>4. ASSUME NEW j \in 1..L - i PROVE b[j] = w[i + j]
    <3>1. b[j] = w[(i + 1) + j - 1]
      BY <2>2, <2>3
    <3>2. (i + 1) + j - 1 = i + j
      BY <1>1
    <3>. QED  BY <3>1, <3>2
  <2>5. Len(b) = L - i
    BY <1>1, <2>2, <2>3
  <2>. QED  BY <2>2, <2>4, <2>5
<1>4. RemoveAt(w, i) = a \o b
  BY DEF RemoveAt
<1>. HIDE DEF a, b
<1>5. /\ a \o b \in Seq(S) /\ Len(a \o b) = Len(a) + Len(b)
      /\ \A j \in 1..Len(a) + Len(b) : (a \o b)[j] = IF j <= Len(a) THEN a[j] ELSE b[j - Len(a)]
  BY <1>2, <1>3, ConcatProperties
<1>6. Len(a) + Len(b) = L - 1
  BY <1>1, <1>2, <1>3
<1>7. ASSUME NEW j \in 1..L - 1 PROVE (a \o b)[j] = IF j < i THEN w[j] ELSE w[j + 1]
  <2>1. (a \o b)[j] = IF j <= i - 1 THEN a[j] ELSE b[j - (i - 1)]
    BY <1>2, <1>5, <1>6
  <2>2. CASE j < i
    <3>1. j <= i - 1 /\ j \in 1..i - 1
      BY <1>1, <2>2
    <3>. QED  BY <1>2, <2>1, <2>2, <3>1
  <2>3. CASE ~(j < i)
    <3>1. ~(j <= i - 1) /\ j - (i - 1) \in 1..L - i /\ i + (j - (i - 1)) = j + 1
      BY <1>1, <2>3
    <3>. QED  BY <1>3, <2>1, <2>3, <3>1
  <2>. QED  BY <2>2, <2>3
<1>. QED  BY <1>4, <1>5, <1>6, <1>7

LEMMA InsertAtIs ==
    ASSUME NEW S, NEW w \in Seq(S), NEW c \in 0..Len(w), NEW e \in S
    PROVE  /\ InsertAt(w, c + 1, e) \in Seq(S) /\ Len(InsertAt(w, c + 1, e)) = Len(w) + 1
           /\ \A j \in 1..Len(w) + 1 : InsertAt(w, c + 1, e)[j] =
                IF j <= c THEN w[j] ELSE IF j = c + 1 THEN e ELSE w[j - 1]
<1>. DEFINE L == Len(w)
            a == SubSeq(w, 1, c)
            b == SubSeq(w, c + 1, L)
            d == a \o <<e>>
<1>1. L \in Nat /\ c \in 0..L /\ \A j \in 1..L : w[j] \in S
  BY LenProperties
<1>2. a \in Seq(S) /\ Len(a) = c /\ \A j \in 1..c : a[j] = w[j]
  <2>1. 1 \in Int /\ c \in Int /\ \A j \in 1..c : w[j] \in S
    BY <1>1
  <2>2. /\ a \in Seq(S) /\ Len(a) = IF 1 <= c THEN c - 1 + 1 ELSE 0
        /\ \A j \in 1..c - 1 + 1 : a[j] = w[1 + j - 1]
    BY <2>1, SubSeqProperties
  <2>3. c - 1 + 1 = c /\ \A j \in 1..c : 1 + j - 1 = j
    BY <1>1
  <2>. HIDE DEF a
  <2>. QED  BY <1>1, <2>2, <2>3
<1>3. b \in Seq(S) /\ Len(b) = L - c /\ \A j \in 1..L - c : b[j] = w[c + j]
  <2>1. c + 1 \in Int /\ L \in Int /\ \A j \in (c + 1)..L : w[j] \in S
    BY <1>1
  <2>2. /\ b \in Seq(S) /\ Len(b) = IF c + 1 <= L THEN L - (c + 1) + 1 ELSE 0
        /\ \A j \in 1..L - (c + 1) + 1 : b[j] = w[(c + 1) + j - 1]
    BY <2>1, SubSeqProperties
  <2>3. L - (c + 1) + 1 = L - c
    BY <1>1
  <2>. HIDE DEF b, L
  <2>4. ASSUME NEW j \in 1..L - c PROVE b[j] = w[c + j]
    <3>1. b[j] = w[(c + 1) + j - 1]
      BY <2>2, <2>3
    <3>2. (c + 1) + j - 1 = c + j
      BY <1>1
    <3>. QED  BY <3>1, <3>2
  <2>5. Len(b) = L - c
    BY <1>1, <2>2, <2>3
  <2>. QED  BY <2>2, <2>4, <2>5
<1>4. <<e>> \in Seq(S) /\ Len(<<e>>) = 1 /\ <<e>>[1] = e
  OBVIOUS
<1>5. InsertAt(w, c + 1, e) = d \o b
  <2>1. (c + 1) - 1 = c
    BY <1>1
  <2>. QED  BY <2>1 DEF InsertAt
<1>. HIDE DEF a, b
<1>6. d \in Seq(S) /\ Len(d) = c + 1 /\ \A j \in 1..c + 1 : d[j] = IF j <= c THEN w[j] ELSE e
  <2>1. /\ d \in Seq(S) /\ Len(d) = Len(a) + Len(<<e>>)
        /\ \A j \in 1..Len(a) + Len(<<e>>) : d[j] = IF j <= Len(a) THEN a[j] ELSE <<e>>[j - Len(a)]
    BY <1>2, <1>4, ConcatProperties
  <2>. HIDE DEF d
  <2>2. \A j \in 1..c + 1 : IF j <= c THEN j \in 1..c ELSE j - c = 1
    BY <1>1
  <2>. QED  BY <1>2, <1>4, <2>1, <2>2
<1>. HIDE DEF d
<1>7. /\ d \o b \in Seq(S) /\ Len(d \o b) = Len(d) + Len(b)
      /\ \A j \in 1..Len(d) + Len(b) : (d \o b)[j] = IF j <= Len(d) THEN d[j] ELSE b[j - Len(d)]
  BY <1>3, <1>6, ConcatProperties
<1>8. Len(d) + Len(b) = L + 1
  BY <1>1, <1>3, <1>6
<1>9. ASSUME NEW j \in 1..L + 1
      PROVE  (d \o b)[j] = IF j <= c THEN w[j] ELSE IF j = c + 1 THEN e ELSE w[j - 1]
  <2>1. (d \o b)[j] = IF j <= c + 1 THEN d[j] ELSE b[j - (c + 1)]
    BY <1>6, <1>7, <1>8
  <2>2. CASE j <= c + 1
    <3>1. j \in 1..c + 1 /\ (~(j <= c) => j = c + 1)
      BY <1>1, <2>2
    <3>2. d[j] = IF j <= c THEN w[j] ELSE e
      BY <1>6, <3>1
    <3>. QED  BY <2>1, <2>2, <3>1, <3>2
  <2>3. CASE ~(j <= c + 1)
    <3>1. j - (c + 1) \in 1..L - c /\ c + (j - (c + 1)) = j - 1 /\ ~(j <= c) /\ j # c + 1
      BY <1>1, <2>3
    <3>. QED  BY <1>3, <2>1, <2>3, <3>1
  <2>. QED  BY <2>2, <2>3
<1>. QED  BY <1>5, <1>7, <1>8, <1>9

\* A list that a step leaves alone.
LEMMA SameList ==
    ASSUME NEW t, NEW u, Same(t, u), NEW w, InOrder(t, w)
    PROVE  InOrder(u, w)
BY DEF Same, InOrder, ListsAll

\* No node is twice in a list.
LEMMA AlongOnce ==
    ASSUME NEW t \in Tree, NEW w, InOrder(t, w)
    PROVE  /\ w \in Seq(Node) /\ Len(w) \in Nat /\ DOMAIN w = 1..Len(w) /\ ToSet(w) = t.nodes
           /\ \A i, j \in 1..Len(w) : w[i] = w[j] => i = j
           /\ Len(w) = Cardinality(t.nodes)
<1>1. w \in Seq(Node) /\ Len(w) \in Nat /\ DOMAIN w = 1..Len(w)
  BY DEF InOrder, ListsAll
<1>2. ToSet(w) = t.nodes
  BY <1>1 DEF ToSet, InOrder, ListsAll
<1>3. PICK K \in [Node -> Nat] : Ordered(K, t) /\ Along(K, w)
  BY DEF InOrder
<1>4. Lists(K, t, "right", w) /\ "right" \in Side
  BY <1>3, AlongStrict DEF InOrder, Side
<1>5. Len(w) = Cardinality(t.nodes) /\ \A i, j \in 1..Len(w) : w[i] = w[j] => i = j
  BY <1>4, ListsLength
<1>. QED  BY <1>1, <1>2, <1>5

\* The list without the node that went.
LEMMA DropsList ==
    ASSUME NEW t \in Tree, NEW u, NEW n, Drops(t, u, n), NEW w, InOrder(t, w), Ascends(w)
    PROVE  \E i \in DOMAIN w : InOrder(u, RemoveAt(w, i)) /\ Ascends(RemoveAt(w, i))
<1>. DEFINE L == Len(w)
<1>1. /\ w \in Seq(Node) /\ L \in Nat /\ DOMAIN w = 1..L /\ \A i \in 1..L : w[i] \in t.nodes
      /\ \A i, j \in 1..L : w[i] = w[j] => i = j
  BY AlongOnce DEF InOrder, ListsAll
<1>2. PICK i \in 1..L : w[i] = n
  BY DEF Drops, InOrder, ListsAll
<1>. DEFINE v == RemoveAt(w, i)
            at == [j \in 1..L - 1 |-> IF j < i THEN j ELSE j + 1]
<1>3. /\ v \in Seq(Node) /\ Len(v) = L - 1
      /\ \A j \in 1..L - 1 : v[j] = IF j < i THEN w[j] ELSE w[j + 1]
  BY <1>1, RemoveAtIs, Zenon
<1>. HIDE DEF v
<1>4. \A j \in 1..L - 1 : at[j] \in 1..L /\ at[j] # i /\ \A k \in 1..L - 1 : j < k => at[j] < at[k]
  BY <1>1
<1>5. \A j \in 1..L - 1 : v[j] = w[at[j]]
  BY <1>3
<1>6. ASSUME NEW j \in 1..L, j # i PROVE \E k \in 1..L - 1 : at[k] = j
  <2>1. CASE j < i
    <3>1. j \in 1..L - 1 /\ at[j] = j
      BY <1>1, <2>1
    <3>. QED  BY <3>1
  <2>2. CASE ~(j < i)
    <3>1. j - 1 \in 1..L - 1 /\ at[j - 1] = j
      BY <1>1, <1>6, <2>2
    <3>. QED  BY <3>1
  <2>. QED  BY <2>1, <2>2
<1>. HIDE DEF at
<1>7. ListsAll(u, v)
  <2>1. u.nodes = t.nodes \ {n}
    BY DEF Drops
  <2>2. ASSUME NEW j \in 1..L - 1 PROVE v[j] \in u.nodes
    BY <1>1, <1>2, <1>4, <1>5, <2>1
  <2>3. ASSUME NEW x \in u.nodes PROVE \E j \in 1..L - 1 : v[j] = x
    <3>1. PICK j \in 1..L : w[j] = x
      BY <2>1 DEF InOrder, ListsAll
    <3>2. j # i
      BY <1>2, <2>1, <3>1
    <3>3. PICK k \in 1..L - 1 : at[k] = j
      BY <1>6, <3>2
    <3>. QED  BY <1>5, <3>1, <3>3
  <2>. QED  BY <1>3, <2>2, <2>3 DEF ListsAll
<1>8. PICK K \in [Node -> Nat] : Ordered(K, t) /\ Along(K, w)
  BY DEF InOrder
<1>9. Ordered(K, u)
  BY <1>8 DEF Drops
<1>10. ASSUME NEW j \in 1..L - 1, NEW k \in 1..L - 1, j < k
       PROVE  K[v[j]] < K[v[k]] /\ Val[v[j]] <= Val[v[k]]
  <2>1. at[j] \in 1..L /\ at[k] \in 1..L /\ at[j] < at[k]
    BY <1>4, <1>10
  <2>2. K[w[at[j]]] < K[w[at[k]]]
    BY <1>8, <2>1 DEF Along
  <2>3. Val[w[at[j]]] <= Val[w[at[k]]]
    BY <2>1 DEF Ascends
  <2>. QED  BY <1>5, <2>2, <2>3
<1>11. Along(K, v) /\ Ascends(v)
  BY <1>3, <1>10 DEF Along, Ascends
<1>. QED  BY <1>1, <1>7, <1>9, <1>11 DEF InOrder, v

\* The list with n in the place of v.
LEMMA SwapsList ==
    ASSUME NEW t \in Tree, WF(t), NEW u, NEW v, NEW n, Swaps(t, u, v, n), NEW w, InOrder(t, w), Ascends(w)
    PROVE  \E i \in DOMAIN w : /\ Val[n] = Val[w[i]]
                               /\ InOrder(u, [w EXCEPT ![i] = n]) /\ Ascends([w EXCEPT ![i] = n])
<1>. DEFINE L == Len(w)
<1>1. /\ w \in Seq(Node) /\ L \in Nat /\ DOMAIN w = 1..L /\ \A i \in 1..L : w[i] \in t.nodes /\ w[i] \in Node
      /\ \A i, j \in 1..L : w[i] = w[j] => i = j
  <2>1. /\ w \in Seq(Node) /\ L \in Nat /\ DOMAIN w = 1..L
        /\ \A i, j \in 1..L : w[i] = w[j] => i = j
    BY AlongOnce
  <2>2. \A i \in 1..L : w[i] \in t.nodes
    BY DEF InOrder, ListsAll
  <2>. QED  BY <2>1, <2>2, LenProperties
<1>2. PICK i \in 1..L : w[i] = v
  BY DEF Swaps, InOrder, ListsAll
<1>3. n \in Node /\ n \notin t.nodes /\ Val[n] = Val[v] /\ u.nodes = (t.nodes \ {v}) \cup {n}
  BY DEF Swaps
<1>. DEFINE x == [w EXCEPT ![i] = n]
<1>4. x \in Seq(Node) /\ Len(x) = L /\ \A j \in 1..L : x[j] = IF j = i THEN n ELSE w[j]
  BY <1>1, <1>3, ExceptSeq
<1>. HIDE DEF x
<1>5. ListsAll(u, x)
  <2>1. ASSUME NEW j \in 1..L PROVE x[j] \in u.nodes
    BY <1>1, <1>2, <1>3, <1>4
  <2>2. ASSUME NEW y \in u.nodes PROVE \E j \in 1..L : x[j] = y
    <3>1. CASE y = n
      BY <1>4, <3>1
    <3>2. CASE y # n
      <4>1. PICK j \in 1..L : w[j] = y
        BY <1>3, <3>2 DEF InOrder, ListsAll
      <4>2. j # i
        BY <1>2, <1>3, <3>2, <4>1
      <4>. QED  BY <1>4, <4>1, <4>2
    <3>. QED  BY <3>1, <3>2
  <2>. QED  BY <1>4, <2>1, <2>2 DEF ListsAll
<1>6. PICK K \in [Node -> Nat] : Ordered(K, t) /\ Along(K, w)
  BY DEF InOrder
<1>. DEFINE M == [K EXCEPT ![n] = K[v]]
<1>7. /\ M \in [Node -> Nat] /\ M[n] = M[v] /\ \A j \in 1..L : M[w[j]] = K[w[j]] /\ M[x[j]] = K[w[j]]
      /\ \A j \in 1..L : Val[x[j]] = Val[w[j]]
  <2>1. v \in Node /\ v # n
    BY <1>1, <1>2, <1>3
  <2>2. M \in [Node -> Nat] /\ M[n] = K[v] /\ \A y \in Node : y # n => M[y] = K[y]
    BY <1>3, <2>1
  <2>. HIDE DEF M
  <2>3. M[n] = M[v]
    BY <2>1, <2>2
  <2>4. ASSUME NEW j \in 1..L PROVE M[w[j]] = K[w[j]] /\ M[x[j]] = K[w[j]] /\ Val[x[j]] = Val[w[j]]
    BY <1>1, <1>2, <1>3, <1>4, <2>1, <2>2
  <2>. QED  BY <2>2, <2>3, <2>4
<1>. HIDE DEF M
<1>8. ASSUME NEW j \in 1..L, NEW k \in 1..L, j < k
      PROVE  M[w[j]] <= M[w[k]] /\ M[x[j]] < M[x[k]] /\ Val[x[j]] <= Val[x[k]]
  <2>1. K[w[j]] < K[w[k]] /\ Val[w[j]] <= Val[w[k]]
    BY <1>6, <1>8 DEF Along, Ascends
  <2>2. K[w[j]] \in Nat /\ K[w[k]] \in Nat
    BY <1>1
  <2>. QED  BY <1>7, <2>1, <2>2
<1>9. Ordered(M, t)
  <2>1. ListsAll(t, w) /\ \A j, k \in 1..Len(w) : j < k => M[w[j]] <= M[w[k]]
    BY <1>8 DEF InOrder
  <2>. QED  BY <1>6, <1>7, <2>1, Rekey
<1>10. Ordered(M, u)
  BY <1>7, <1>9 DEF Swaps
<1>11. Along(M, x) /\ Ascends(x)
  BY <1>4, <1>8 DEF Along, Ascends
<1>12. InOrder(u, x)
  BY <1>5, <1>7, <1>10, <1>11 DEF InOrder
<1>. QED  BY <1>1, <1>2, <1>3, <1>11, <1>12 DEF x

\* The values that are not larger than v are at the front of the list, and their
\* number is the number of nodes with such a value.
LEMMA SmallFirst ==
    ASSUME NEW t \in Tree, NEW w, InOrder(t, w), Ascends(w), NEW v \in Nat
    PROVE  \E c \in 0..Len(w) : /\ c = Cardinality({m \in ToSet(w) : Val[m] <= v})
                                /\ \A i \in 1..Len(w) : Val[w[i]] <= v <=> i <= c
<1>. DEFINE L == Len(w)
            P == {k \in Nat : k <= L => \E c \in 0..k : \A i \in 1..k : Val[w[i]] <= v <=> i <= c}
<1>1. /\ w \in Seq(Node) /\ L \in Nat /\ DOMAIN w = 1..L /\ ToSet(w) = t.nodes
      /\ \A i, j \in 1..L : w[i] = w[j] => i = j
  BY AlongOnce
<1>2. \A i \in 1..L : Val[w[i]] \in Nat
  BY <1>1, LenProperties, RBAssumption
<1>3. 0 \in P
  OBVIOUS
<1>4. ASSUME NEW k \in Nat, k \in P PROVE k + 1 \in P
  <2>. SUFFICES ASSUME k + 1 <= L
                PROVE  \E c \in 0..k + 1 : \A i \in 1..k + 1 : Val[w[i]] <= v <=> i <= c
    OBVIOUS
  <2>1. k <= L /\ k + 1 \in 1..L
    BY <1>1
  <2>2. PICK c \in 0..k : \A i \in 1..k : Val[w[i]] <= v <=> i <= c
    BY <1>4, <2>1
  <2>3. CASE Val[w[k + 1]] <= v
    <3>1. ASSUME NEW i \in 1..k + 1 PROVE Val[w[i]] <= v
      <4>1. i \in 1..L /\ (i = k + 1 \/ i < k + 1)
        BY <1>1, <2>1
      <4>2. i < k + 1 => Val[w[i]] <= Val[w[k + 1]]
        BY <2>1, <4>1 DEF Ascends
      <4>. QED  BY <1>2, <2>1, <2>3, <4>1, <4>2
    <3>2. \A i \in 1..k + 1 : i <= k + 1
      OBVIOUS
    <3>. QED  BY <3>1, <3>2
  <2>4. CASE ~(Val[w[k + 1]] <= v)
    <3>1. ASSUME NEW i \in 1..k + 1 PROVE Val[w[i]] <= v <=> i <= c
      <4>1. CASE i = k + 1
        BY <2>4, <4>1
      <4>2. CASE i # k + 1
        <5>1. i \in 1..k
          BY <4>2
        <5>. QED  BY <2>2, <5>1
      <4>. QED  BY <4>1, <4>2
    <3>2. c \in 0..k + 1
      OBVIOUS
    <3>. QED  BY <3>1, <3>2
  <2>. QED  BY <2>3, <2>4
<1>5. Nat \subseteq P
  <2>. HIDE DEF P
  <2>. QED  BY <1>3, <1>4, NatSetInduction
<1>6. PICK c \in 0..L : \A i \in 1..L : Val[w[i]] <= v <=> i <= c
  <2>1. L \in P
    BY <1>1, <1>5
  <2>2. L <= L
    BY <1>1
  <2>. QED  BY <2>1, <2>2
<1>. DEFINE S == 1..c
            R == {m \in ToSet(w) : Val[m] <= v}
            f == [i \in S |-> w[i]]
<1>7. IsFiniteSet(S) /\ Cardinality(S) = c
  <2>1. c \in Nat /\ c \in Int /\ 1 \in Int
    BY <1>1
  <2>2. IsFiniteSet(1..c) /\ Cardinality(1..c) = IF 1 > c THEN 0 ELSE c - 1 + 1
    BY <2>1, FS_Interval, Zenon
  <2>. QED  BY <2>1, <2>2
<1>8. S \subseteq 1..L /\ \A i \in 1..L : i <= c => i \in S
  BY <1>1
<1>9. f \in [S -> R]
  <2>1. ASSUME NEW i \in S PROVE w[i] \in R
    <3>1. i \in 1..L /\ i <= c
      BY <1>8
    <3>. QED  BY <1>1, <1>6, <3>1 DEF ToSet
  <2>. QED  BY <2>1
<1>10. \A i, j \in S : f[i] = f[j] => i = j
  BY <1>1, <1>8
<1>11. ASSUME NEW m \in R PROVE \E i \in S : f[i] = m
  <2>1. PICK i \in 1..L : w[i] = m
    BY <1>1 DEF ToSet
  <2>2. i \in S
    BY <1>6, <1>8, <2>1
  <2>. QED  BY <2>1, <2>2
<1>12. Cardinality(R) = c
  <2>. HIDE DEF S, R, f
  <2>. QED  BY <1>7, <1>9, <1>10, <1>11, SameSize
<1>. QED  BY <1>6, <1>12

\* The list with the new node behind the values that are not larger.
LEMMA AddsList ==
    ASSUME NEW t \in Tree, WF(t), NEW u, NEW n, Adds(t, u, n), NEW w, InOrder(t, w), Ascends(w)
    PROVE  LET v == InsertAt(w, Cardinality({m \in ToSet(w) : Val[m] <= Val[n]}) + 1, n)
           IN  InOrder(u, v) /\ Ascends(v)
<1>. DEFINE L == Len(w)
<1>1. w \in Seq(Node) /\ L \in Nat /\ \A i \in 1..L : w[i] \in t.nodes /\ w[i] \in Node
  <2>1. w \in Seq(Node) /\ L \in Nat
    BY AlongOnce
  <2>2. \A i \in 1..L : w[i] \in t.nodes
    BY DEF InOrder, ListsAll
  <2>. QED  BY <2>1, <2>2, LenProperties
<1>2. n \in Node /\ n \notin t.nodes /\ u.nodes = t.nodes \cup {n}
  BY DEF Adds
<1>3. Val[n] \in Nat /\ \A i \in 1..L : Val[w[i]] \in Nat
  BY <1>1, <1>2, RBAssumption
<1>4. PICK c \in 0..L : /\ c = Cardinality({m \in ToSet(w) : Val[m] <= Val[n]})
                        /\ \A i \in 1..L : Val[w[i]] <= Val[n] <=> i <= c
  BY <1>3, SmallFirst
<1>. DEFINE v == InsertAt(w, c + 1, n)
<1>. SUFFICES InOrder(u, v) /\ Ascends(v)
  BY <1>4
<1>5. /\ v \in Seq(Node) /\ Len(v) = L + 1
      /\ \A j \in 1..L + 1 : v[j] = IF j <= c THEN w[j] ELSE IF j = c + 1 THEN n ELSE w[j - 1]
  <2>1. w \in Seq(Node)
    BY <1>1
  <2>2. n \in Node
    BY <1>2
  <2>3. /\ InsertAt(w, c + 1, n) \in Seq(Node) /\ Len(InsertAt(w, c + 1, n)) = Len(w) + 1
        /\ \A j \in 1..Len(w) + 1 : InsertAt(w, c + 1, n)[j] =
             IF j <= c THEN w[j] ELSE IF j = c + 1 THEN n ELSE w[j - 1]
    BY <2>1, <2>2, InsertAtIs
  <2>. QED  BY <2>3
<1>. HIDE DEF v
<1>6. ASSUME NEW i \in 1..L PROVE \E j \in 1..L + 1 : v[j] = w[i] /\ j # c + 1
  <2>1. CASE i <= c
    <3>1. i \in 1..L + 1 /\ i # c + 1
      BY <1>1, <2>1
    <3>. QED  BY <1>5, <2>1, <3>1
  <2>2. CASE ~(i <= c)
    <3>1. i + 1 \in 1..L + 1 /\ ~(i + 1 <= c) /\ i + 1 # c + 1 /\ (i + 1) - 1 = i
      BY <1>1, <2>2
    <3>. QED  BY <1>5, <3>1
  <2>. QED  BY <2>1, <2>2
<1>7. c + 1 \in 1..L + 1 /\ v[c + 1] = n
  <2>1. c + 1 \in 1..L + 1 /\ ~(c + 1 <= c)
    BY <1>1
  <2>. QED  BY <1>5, <2>1
<1>8. \A j \in 1..L + 1 : IF j <= c THEN j \in 1..L ELSE j # c + 1 => j - 1 \in 1..L /\ ~(j - 1 <= c)
  BY <1>1
<1>9. ListsAll(u, v)
  <2>1. ASSUME NEW j \in 1..L + 1 PROVE v[j] \in u.nodes
    BY <1>1, <1>2, <1>5, <1>8
  <2>2. ASSUME NEW y \in u.nodes PROVE \E j \in 1..L + 1 : v[j] = y
    <3>1. CASE y = n
      BY <1>7, <3>1
    <3>2. CASE y # n
      <4>1. PICK i \in 1..L : w[i] = y
        BY <1>2, <3>2 DEF InOrder, ListsAll
      <4>. QED  BY <1>6, <4>1
    <3>. QED  BY <3>1, <3>2
  <2>. QED  BY <1>5, <2>1, <2>2 DEF ListsAll
<1>10. PICK K \in [Node -> Nat] : Ordered(K, t) /\ Along(K, w)
  BY DEF InOrder
<1>. DEFINE low == IF c = 0 THEN 1 ELSE 2 * K[w[c]] + 3
            M == [x \in Node |-> IF x = n THEN low ELSE 2 * K[x] + 2]
<1>11. low \in Nat /\ (c # 0 => c \in 1..L /\ K[w[c]] \in Nat) /\ \A i \in 1..L : K[w[i]] \in Nat
  <2>1. c # 0 => c \in 1..L
    BY <1>1
  <2>2. \A i \in 1..L : K[w[i]] \in Nat
    BY <1>1
  <2>. QED  BY <2>1, <2>2
<1>12. M \in [Node -> Nat] /\ M[n] = low /\ \A i \in 1..L : M[w[i]] = 2 * K[w[i]] + 2
  <2>1. \A x \in Node : 2 * K[x] + 2 \in Nat
    OBVIOUS
  <2>2. \A i \in 1..L : w[i] # n /\ w[i] \in Node
    BY <1>1, <1>2
  <2>. HIDE DEF low
  <2>. QED  BY <1>2, <1>11, <2>1, <2>2
<1>. HIDE DEF M
<1>13. ASSUME NEW i \in 1..L, NEW j \in 1..L, i < j PROVE M[w[i]] < M[w[j]]
  <2>1. K[w[i]] < K[w[j]]
    BY <1>10, <1>13 DEF Along
  <2>2. K[w[i]] \in Nat /\ K[w[j]] \in Nat
    BY <1>11
  <2>3. M[w[i]] = 2 * K[w[i]] + 2 /\ M[w[j]] = 2 * K[w[j]] + 2
    BY <1>12
  <2>. QED  BY <2>1, <2>2, <2>3, SMTT(30)
<1>14. ASSUME NEW i \in 1..L, i <= c PROVE M[w[i]] < M[n]
  <2>1. c # 0 /\ c \in 1..L /\ (i = c \/ i < c)
    BY <1>1, <1>14
  <2>2. K[w[i]] <= K[w[c]]
    <3>1. i < c => K[w[i]] < K[w[c]]
      BY <1>10, <2>1 DEF Along
    <3>. QED  BY <1>11, <2>1, <3>1
  <2>3. M[n] = 2 * K[w[c]] + 3 /\ M[w[i]] = 2 * K[w[i]] + 2
    BY <1>12, <2>1
  <2>4. K[w[i]] \in Nat /\ K[w[c]] \in Nat
    BY <1>11, <2>1
  <2>. QED  BY <2>2, <2>3, <2>4, SMTT(30)
<1>15. ASSUME NEW i \in 1..L, ~(i <= c) PROVE M[n] < M[w[i]]
  <2>1. CASE c = 0
    BY <1>11, <1>12, <2>1
  <2>2. CASE c # 0
    <3>1. c \in 1..L /\ c < i
      BY <1>1, <1>15, <2>2
    <3>2. K[w[c]] < K[w[i]]
      BY <1>10, <3>1 DEF Along
    <3>3. M[n] = 2 * K[w[c]] + 3 /\ M[w[i]] = 2 * K[w[i]] + 2
      BY <1>12, <2>2
    <3>4. K[w[c]] \in Nat /\ K[w[i]] \in Nat
      BY <1>11, <3>1
    <3>. QED  BY <3>2, <3>3, <3>4, SMTT(30)
  <2>. QED  BY <2>1, <2>2
<1>. HIDE DEF low
<1>16. M[n] \in Nat /\ \A i \in 1..L : M[w[i]] \in Nat
  BY <1>1, <1>2, <1>12
<1>17. Ordered(M, t)
  <2>1. \A i, j \in 1..Len(w) : i < j => M[w[i]] <= M[w[j]]
    BY <1>13, <1>16
  <2>. QED  BY <1>10, <1>12, <2>1, Rekey DEF InOrder
<1>18. Fits(M, t, n)
  <2>. SUFFICES ASSUME NEW x \in t.nodes
                PROVE  Sorted(M, IF Val[x] > Val[n] THEN "left" ELSE "right", n, x)
    BY DEF Fits
  <2>1. PICK i \in 1..L : w[i] = x
    BY DEF InOrder, ListsAll
  <2>2. CASE i <= c
    <3>1. ~(Val[x] > Val[n])
      BY <1>3, <1>4, <2>1, <2>2
    <3>2. M[x] <= M[n]
      BY <1>14, <1>16, <2>1, <2>2
    <3>. QED  BY <3>1, <3>2 DEF Sorted
  <2>3. CASE ~(i <= c)
    <3>1. Val[x] > Val[n]
      BY <1>3, <1>4, <2>1, <2>3
    <3>2. M[n] <= M[x]
      BY <1>15, <1>16, <2>1, <2>3
    <3>. QED  BY <3>1, <3>2 DEF Sorted
  <2>. QED  BY <2>2, <2>3
<1>19. Ordered(M, u)
  BY <1>12, <1>17, <1>18 DEF Adds
<1>20. ASSUME NEW i \in 1..L + 1, NEW j \in 1..L + 1, i < j
       PROVE  M[v[i]] < M[v[j]] /\ Val[v[i]] <= Val[v[j]]
  <2>1. CASE j <= c
    <3>1. i \in 1..L /\ j \in 1..L /\ i <= c
      BY <1>8, <1>20, <2>1
    <3>2. v[i] = w[i] /\ v[j] = w[j]
      BY <1>5, <2>1, <3>1
    <3>. QED  BY <1>13, <1>20, <3>1, <3>2 DEF Ascends
  <2>2. CASE j = c + 1
    <3>1. i \in 1..L /\ i <= c
      BY <1>1, <1>8, <1>20, <2>2
    <3>2. v[i] = w[i] /\ v[j] = n
      BY <1>5, <1>7, <2>2, <3>1
    <3>. QED  BY <1>4, <1>14, <3>1, <3>2
  <2>3. CASE ~(j <= c) /\ j # c + 1
    <3>1. j - 1 \in 1..L /\ ~(j - 1 <= c) /\ v[j] = w[j - 1]
      BY <1>5, <1>8, <2>3
    <3>2. CASE i <= c
      <4>1. i \in 1..L /\ v[i] = w[i] /\ i < j - 1
        BY <1>5, <1>8, <3>1, <3>2
      <4>. QED  BY <1>13, <3>1, <4>1 DEF Ascends
    <3>3. CASE i = c + 1
      <4>1. v[i] = n /\ ~(Val[w[j - 1]] <= Val[n])
        BY <1>4, <1>7, <3>1, <3>3
      <4>. QED  BY <1>3, <1>15, <3>1, <4>1
    <3>4. CASE ~(i <= c) /\ i # c + 1
      <4>1. i - 1 \in 1..L /\ v[i] = w[i - 1] /\ i - 1 < j - 1
        BY <1>5, <1>8, <1>20, <3>4
      <4>. QED  BY <1>13, <3>1, <4>1 DEF Ascends
    <3>. QED  BY <3>2, <3>3, <3>4
  <2>. QED  BY <2>1, <2>2, <2>3
<1>21. Along(M, v) /\ Ascends(v)
  BY <1>5, <1>20 DEF Along, Ascends
<1>. QED  BY <1>9, <1>12, <1>19, <1>21 DEF InOrder

-----------------------------------------------------------------------------
(* The order of iteration is kept.                                          *)

\* The inductive invariant: iterating over a tree lists its nodes in the order of the
\* tree and by ascending values.
OrderInv ==
    /\ StructInv
    /\ \A r \in Root : InOrder(trees[r], Walk(trees[r])) /\ Ascends(Walk(trees[r]))

\* The list of an empty tree.
LEMMA EmptyInOrder ==
    ASSUME NEW t \in Tree, WF(t), t.nodes = {}
    PROVE  Walk(t) = << >> /\ InOrder(t, << >>) /\ Ascends(<< >>)
<1>1. << >> \in Seq(Node) /\ Len(<< >>) = 0 /\ 1..0 = {}
  OBVIOUS
<1>2. ListsAll(t, << >>)
  BY <1>1 DEF ListsAll
<1>3. Along(Val, << >>) /\ Ascends(<< >>) /\ Ordered(Val, t) /\ Val \in [Node -> Nat]
  BY <1>1, RBAssumption DEF Along, Ascends, Ordered
<1>4. InOrder(t, << >>)
  BY <1>2, <1>3 DEF InOrder
<1>. QED  BY <1>3, <1>4, WalkInOrder

LEMMA StructTrees == ASSUME StructInv, NEW r \in Root PROVE trees[r] \in Tree /\ WF(trees[r])
BY DEF StructInv, LinksInv, TypeInv, TypeOK

LEMMA InitOrder == Init => OrderInv
<1>. SUFFICES ASSUME Init PROVE OrderInv
  OBVIOUS
<1>1. StructInv
  BY InitStruct
<1>2. ASSUME NEW r \in Root PROVE InOrder(trees[r], Walk(trees[r])) /\ Ascends(Walk(trees[r]))
  <2>1. trees[r] \in Tree /\ WF(trees[r])
    BY <1>1, StructTrees
  <2>2. trees[r].nodes = {}
    BY DEF Init, RB_ROOT
  <2>. QED  BY <2>1, <2>2, EmptyInOrder
<1>. QED  BY <1>1, <1>2 DEF OrderInv

\* What a step of the abstract specification may make of the list w of one set.
ListStep(w, v) ==
    \/ v = w
    \/ \E n \in Node : Unused(n) /\ v = InsertAt(w, Cardinality({m \in ToSet(w) : Val[m] <= Val[n]}) + 1, n)
    \/ \E i \in DOMAIN w : v = RemoveAt(w, i)
    \/ \E i \in DOMAIN w, n \in Node : Unused(n) /\ Val[n] = Val[w[i]] /\ v = [w EXCEPT ![i] = n]

LEMMA ChangedList ==
    ASSUME OrderInv, StructInv', NEW r \in Root, Changed(r)
    PROVE  /\ InOrder(trees'[r], Walk(trees'[r])) /\ Ascends(Walk(trees'[r]))
           /\ ListStep(Walk(trees[r]), Walk(trees'[r]))
<1>. DEFINE t == trees[r]
            u == trees'[r]
            w == Walk(trees[r])
<1>1. t \in Tree /\ WF(t) /\ InOrder(t, w) /\ Ascends(w)
  BY StructTrees DEF OrderInv
<1>2. u \in Tree /\ WF(u)
  BY DEF StructInv, LinksInv, TypeInv, TypeOK
<1>3. ASSUME NEW v, InOrder(u, v), Ascends(v), ListStep(w, v)
      PROVE  InOrder(u, Walk(u)) /\ Ascends(Walk(u)) /\ ListStep(w, Walk(u))
  <2>1. Walk(u) = v
    BY <1>2, <1>3, WalkInOrder
  <2>. QED  BY <1>3, <2>1
<1>4. \/ Same(t, u)
      \/ \E n \in Node : Unused(n) /\ Adds(t, u, n)
      \/ \E n \in Node : Drops(t, u, n)
      \/ \E v, n \in Node : Unused(n) /\ Swaps(t, u, v, n)
  BY DEF Changed
<1>. HIDE DEF t, u, w
<1>5. CASE Same(t, u)
  <2>1. InOrder(u, w) /\ ListStep(w, w)
    BY <1>1, <1>5, SameList DEF ListStep
  <2>. QED  BY <1>1, <1>3, <2>1 DEF t, u, w
<1>6. CASE \E n \in Node : Unused(n) /\ Adds(t, u, n)
  <2>1. PICK n \in Node : Unused(n) /\ Adds(t, u, n)
    BY <1>6
  <2>. DEFINE v == InsertAt(w, Cardinality({m \in ToSet(w) : Val[m] <= Val[n]}) + 1, n)
  <2>2. InOrder(u, v) /\ Ascends(v)
    BY <1>1, <2>1, AddsList
  <2>3. ListStep(w, v)
    BY <2>1 DEF ListStep
  <2>. HIDE DEF v
  <2>. QED  BY <1>3, <2>2, <2>3 DEF t, u, w
<1>7. CASE \E n \in Node : Drops(t, u, n)
  <2>1. PICK n \in Node : Drops(t, u, n)
    BY <1>7
  <2>2. PICK i \in DOMAIN w : InOrder(u, RemoveAt(w, i)) /\ Ascends(RemoveAt(w, i))
    BY <1>1, <2>1, DropsList
  <2>3. ListStep(w, RemoveAt(w, i))
    BY DEF ListStep
  <2>. QED  BY <1>3, <2>2, <2>3 DEF t, u, w
<1>8. CASE \E v, n \in Node : Unused(n) /\ Swaps(t, u, v, n)
  <2>1. PICK v \in Node, n \in Node : Unused(n) /\ Swaps(t, u, v, n)
    BY <1>8
  <2>2. PICK i \in DOMAIN w : /\ Val[n] = Val[w[i]]
                              /\ InOrder(u, [w EXCEPT ![i] = n]) /\ Ascends([w EXCEPT ![i] = n])
    BY <1>1, <2>1, SwapsList
  <2>. DEFINE x == [w EXCEPT ![i] = n]
  <2>3. ListStep(w, x)
    BY <2>1, <2>2 DEF ListStep
  <2>4. InOrder(u, x) /\ Ascends(x)
    BY <2>2
  <2>. HIDE DEF x
  <2>. QED  BY <1>3, <2>3, <2>4 DEF t, u, w
<1>. QED  BY <1>4, <1>5, <1>6, <1>7, <1>8

\* OrderedBag means the same by the operators of the library.
LEMMA BagOperators ==
    /\ \A s : Bag!ToSet(s) = ToSet(s)
    /\ \A s, i : Bag!RemoveAt(s, i) = RemoveAt(s, i)
    /\ \A s, i, e : Bag!InsertAt(s, i, e) = InsertAt(s, i, e)
    /\ \A S : Bag!Cardinality(S) = Cardinality(S)
<1>1. ASSUME NEW s PROVE Bag!ToSet(s) = ToSet(s)
  BY DEF Bag!ToSet, ToSet
<1>2. ASSUME NEW s, NEW i PROVE Bag!RemoveAt(s, i) = RemoveAt(s, i)
  BY DEF Bag!RemoveAt, RemoveAt
<1>3. ASSUME NEW s, NEW i, NEW e PROVE Bag!InsertAt(s, i, e) = InsertAt(s, i, e)
  BY DEF Bag!InsertAt, InsertAt
<1>4. ASSUME NEW S PROVE Bag!Cardinality(S) = Cardinality(S)
  BY DEF Bag!Cardinality, Cardinality
<1>. QED  BY <1>1, <1>2, <1>3, <1>4

\* A step that changes one tree keeps the invariant and is a step of OrderedBag.
LEMMA ChangedOrder ==
    ASSUME OrderInv, StructInv', NEW r \in Root, Changed(r)
    PROVE  OrderInv' /\ (Bag!Next \/ UNCHANGED [q \in Root |-> Walk(trees[q])])
<1>. DEFINE order == [q \in Root |-> Walk(trees[q])]
            w == Walk(trees[r])
            v == Walk(trees'[r])
<1>1. InOrder(trees'[r], v) /\ Ascends(v) /\ ListStep(w, v)
  BY ChangedList
<1>2. \A q \in Root \ {r} : trees'[q] = trees[q]
  BY DEF Changed
<1>3. OrderInv'
  <2>1. ASSUME NEW q \in Root PROVE InOrder(trees'[q], Walk(trees'[q])) /\ Ascends(Walk(trees'[q]))
    <3>1. CASE q = r
      BY <1>1, <3>1
    <3>2. CASE q # r
      BY <1>2, <3>2 DEF OrderInv
    <3>. QED  BY <3>1, <3>2
  <2>. QED  BY <2>1 DEF OrderInv
<1>4. order' = [order EXCEPT ![r] = v]
  <2>1. ASSUME NEW q \in Root PROVE Walk(trees'[q]) = IF q = r THEN v ELSE Walk(trees[q])
    BY <1>2
  <2>2. order' = [q \in Root |-> Walk(trees'[q])]
    OBVIOUS
  <2>. HIDE DEF v
  <2>. QED  BY <2>1, <2>2
<1>5. ASSUME NEW n \in Node, Unused(n) PROVE n \in Node \ Bag!Members
  <2>1. ASSUME NEW q \in Root PROVE n \notin ToSet(Walk(trees[q]))
    <3>1. ToSet(Walk(trees[q])) = trees[q].nodes
      BY StructTrees, AlongOnce DEF OrderInv
    <3>. QED  BY <1>5, <3>1 DEF Unused
  <2>2. \A q \in Root : Bag!Elements(q) = ToSet(Walk(trees[q]))
    BY BagOperators DEF Bag!Elements
  <2>. QED  BY <2>1, <2>2 DEF Bag!Members
<1>6. order[r] = w
  OBVIOUS
<1>7. CASE v = w
  <2>1. order' = order
    BY <1>4, <1>7
  <2>. QED  BY <1>3, <2>1
<1>8. ASSUME NEW n \in Node, Unused(n),
             v = InsertAt(w, Cardinality({m \in ToSet(w) : Val[m] <= Val[n]}) + 1, n)
      PROVE  Bag!Next
  <2>1. Bag!Add(r, n)
    BY <1>4, <1>6, <1>8, BagOperators DEF Bag!Add, Bag!Elements
  <2>. QED  BY <1>5, <1>8, <2>1 DEF Bag!Next
<1>9. ASSUME NEW i \in DOMAIN w, v = RemoveAt(w, i) PROVE Bag!Next
  <2>1. Bag!Del(r, i)
    BY <1>4, <1>6, <1>9, BagOperators DEF Bag!Del
  <2>2. i \in DOMAIN order[r]
    BY <1>6
  <2>. QED  BY <2>1, <2>2 DEF Bag!Next
<1>10. ASSUME NEW i \in DOMAIN w, NEW n \in Node, Unused(n), Val[n] = Val[w[i]], v = [w EXCEPT ![i] = n]
       PROVE  Bag!Next
  <2>1. Bag!Swap(r, i, n)
    BY <1>4, <1>6, <1>10 DEF Bag!Swap
  <2>2. i \in DOMAIN order[r]
    BY <1>6
  <2>. QED  BY <1>5, <1>10, <2>1, <2>2 DEF Bag!Next
<1>. HIDE DEF order, w, v
<1>11. Bag!Next \/ v = w
  BY <1>1, <1>8, <1>9, <1>10 DEF ListStep
<1>. QED  BY <1>3, <1>7, <1>11

LEMMA NextOrder == OrderInv /\ [Next]_vars => OrderInv' /\ [Bag!Next]_[r \in Root |-> Walk(trees[r])]
<1>. SUFFICES ASSUME OrderInv, [Next]_vars
              PROVE  OrderInv' /\ (Bag!Next \/ UNCHANGED [r \in Root |-> Walk(trees[r])])
  OBVIOUS
<1>1. StructInv /\ StructInv'
  BY NextStruct DEF OrderInv
<1>2. CASE Next
  <2>1. PICK r \in Root : Changed(r)
    BY <1>1, <1>2, NextTree
  <2>. QED  BY <1>1, <2>1, ChangedOrder
<1>3. CASE UNCHANGED vars
  <2>1. trees' = trees
    BY <1>3 DEF vars
  <2>. QED  BY <1>1, <2>1 DEF OrderInv
<1>. QED  BY <1>2, <1>3

\* rb_search_data finds a value exactly when a Data object with it is in the
\* tree, in trees of every size: the descent of rb_insert_data, the rotations and
\* the unlinking in rb_erase keep the values in the order that the search relies
\* on, though equal values may be on both sides of each other.
THEOREM SearchWorks == Spec => []SearchFinds
<1>1. OrderInv => SearchFinds
  <2>. SUFFICES ASSUME OrderInv, NEW r \in Root, NEW v \in {Val[n] : n \in Node}
                PROVE  LET found == rb_search_data(trees[r], v)
                           equal == {n \in trees[r].nodes : Val[n] = v}
                       IN  IF equal = {} THEN found = Nil ELSE found \in equal
    BY DEF SearchFinds
  <2>1. trees[r] \in Tree /\ WF(trees[r]) /\ Ordered(Val, trees[r])
    BY StructTrees, AscendsOrdered DEF OrderInv
  <2>2. v \in Nat
    BY RBAssumption
  <2>. QED  BY <2>1, <2>2, SearchOrdered
<1>2. Init => OrderInv
  BY InitOrder
<1>3. OrderInv /\ [Next]_vars => OrderInv'
  BY NextOrder
<1>. QED  BY <1>1, <1>2, <1>3, PTL DEF Spec

\* Iterating with rb_last and rb_prev visits the nodes that rb_first and rb_next visit,
\* in the opposite order, in trees of every size and between any two iterations of a
\* rebalancing loop.
THEOREM BackwardsWorks == Spec => []BackwardsIsReverse
<1>1. OrderInv => BackwardsIsReverse
  <2>. SUFFICES ASSUME OrderInv, NEW r \in Root
                PROVE  Visit(rb_last(trees[r]), [n \in Node |-> rb_prev(trees[r], n)])
                         = Reverse(Walk(trees[r]))
    BY DEF BackwardsIsReverse
  <2>. QED  BY StructTrees, WalkInOrder DEF OrderInv
<1>2. Init => OrderInv
  BY InitOrder
<1>3. OrderInv /\ [Next]_vars => OrderInv'
  BY NextOrder
<1>. QED  BY <1>1, <1>2, <1>3, PTL DEF Spec

\* The red-black tree implements the sorted list of OrderedBag, for any number of
\* objects and any values: linking a node adds the object behind every member whose
\* value is not larger, unlinking removes it, rb_replace_node puts one in the place of
\* another, and no other step of rbtree.c changes the order of iteration.
THEOREM TreeImplementsBag == Spec => IsOrderedBag
<1>1. Init => OrderInv /\ Bag!Init
  <2>. SUFFICES ASSUME Init PROVE OrderInv /\ Bag!Init
    OBVIOUS
  <2>1. OrderInv
    BY InitOrder
  <2>2. ASSUME NEW r \in Root PROVE Walk(trees[r]) = << >>
    <3>1. trees[r] \in Tree /\ WF(trees[r])
      BY <2>1, StructTrees DEF OrderInv
    <3>2. trees[r].nodes = {}
      BY DEF Init, RB_ROOT
    <3>. QED  BY <3>1, <3>2, EmptyInOrder
  <2>. QED  BY <2>1, <2>2 DEF Bag!Init
<1>2. OrderInv /\ [Next]_vars => OrderInv' /\ [Bag!Next]_[r \in Root |-> Walk(trees[r])]
  BY NextOrder
<1>. QED  BY <1>1, <1>2, PTL DEF Spec, IsOrderedBag, Bag!Spec

-----------------------------------------------------------------------------
(* The multisets.                                                           *)

\* A routine at work on a tree was called for a live set: the insertion by
\* set_add, the deletion by set_free.
BusyOK ==
    /\ pc # "idle" => cur \in live
    /\ pc \in {"descend", "insert_color"} => freeing = Nil
    /\ pc \in {"successor", "erase_color"} => freeing = cur

\* set_add has counted the object that rb_insert_data has yet to link.
Pending(r) == IF pc = "descend" /\ cur = r THEN 1 ELSE 0

SizeOK ==
    \A r \in live \ {freeing} : size[r] = Cardinality(Members(r)) + Pending(r)

\* The inductive invariant.
MultiInv == LinksInv /\ MTypeOK /\ BusyOK /\ NothingLeaks /\ SizeOK

\* The objects of a set and one more that is in none of the trees.
LEMMA OneMoreMember ==
    ASSUME LinksInv, NEW r \in Root, NEW n \in Node, n \notin Members(r)
    PROVE  /\ Cardinality(Members(r) \cup {n}) = Cardinality(Members(r)) + 1
           /\ Cardinality(Members(r)) + 1 \in 0..Cardinality(Node)
<1>1. IsFiniteSet(Members(r)) /\ Members(r) \subseteq Node /\ Cardinality(Members(r)) \in Nat /\ Cardinality(Node) \in Nat
  BY MembersFinite
<1>2. Cardinality(Members(r) \cup {n}) = Cardinality(Members(r)) + 1
  BY <1>1, FS_AddElement
<1>3. Cardinality(Members(r) \cup {n}) <= Cardinality(Node)
  <2>1. Members(r) \cup {n} \subseteq Node /\ IsFiniteSet(Node)
    BY <1>1, RBAssumption
  <2>. QED  BY <2>1, FS_Subset
<1>. QED  BY <1>1, <1>2, <1>3

LEMMA InitMultiInv == MInit => MultiInv
<1>. SUFFICES ASSUME MInit PROVE MultiInv
  OBVIOUS
<1>1. LinksInv /\ TypeOK
  BY InitLinksInv DEF MInit, LinksInv, TypeInv
<1>2. Cardinality(Node) \in Nat
  BY RBAssumption, FS_CardinalityType
<1>3. 0 \in 0..Cardinality(Node)
  BY <1>2
<1>4. MTypeOK
  BY <1>1, <1>3 DEF MInit, MTypeOK
<1>5. NothingLeaks
  BY DEF MInit, Init, NothingLeaks, Members, RB_ROOT
<1>6. BusyOK /\ SizeOK
  BY DEF MInit, Init, BusyOK, SizeOK
<1>. QED  BY <1>1, <1>4, <1>5, <1>6 DEF MultiInv

\* set_init
LEMMA InitSetMultiInv == ASSUME MultiInv, NEW r \in Root, set_init(r) PROVE MultiInv'
<1>0. LinksInv /\ MTypeOK /\ BusyOK /\ NothingLeaks /\ SizeOK /\ trees \in [Root -> Tree] /\ TypeInv
  BY DEF MultiInv, LinksInv, TypeInv, TypeOK
<1>1. /\ pc = "idle" /\ freeing = Nil /\ r \notin live /\ trees' = [trees EXCEPT ![r] = RB_ROOT]
      /\ size' = [size EXCEPT ![r] = 0] /\ live' = live \cup {r}
      /\ UNCHANGED <<pc, cur, node, par, old, freeing>>
  BY DEF set_init
<1>2. RB_ROOT \in Tree /\ WF(RB_ROOT) /\ RB_ROOT.nodes = {}
  <2>1. RB_ROOT \in Tree
    BY DEF RB_ROOT, Tree, Ptr
  <2>. QED  BY <2>1 DEF WF, Links, Acyclic, RB_ROOT
<1>3. trees' \in [Root -> Tree] /\ trees'[r].nodes = {} /\ \A q \in Root \ {r} : trees'[q] = trees[q]
  BY <1>0, <1>1, <1>2
<1>4. \A q \in Root : WF(trees'[q])
  BY <1>0, <1>1, <1>2 DEF LinksInv
<1>5. LinksInv'
  BY <1>0, <1>1, <1>3, <1>4 DEF LinksInv, TypeInv, TypeOK
<1>6. MTypeOK'
  <2>1. Cardinality(Node) \in Nat
    BY RBAssumption, FS_CardinalityType
  <2>2. size' \in [Root -> 0..Cardinality(Node)]
    BY <1>0, <1>1, <2>1 DEF MTypeOK
  <2>. QED  BY <1>0, <1>1, <1>5, <2>2 DEF MTypeOK, LinksInv, TypeInv
<1>7. NothingLeaks'
  BY <1>0, <1>1, <1>3 DEF NothingLeaks, Members
<1>8. SizeOK'
  <2>1. Cardinality({}) = 0
    BY FS_EmptySet
  <2>2. size'[r] = 0 /\ \A q \in Root \ {r} : size'[q] = size[q]
    BY <1>0, <1>1 DEF MTypeOK
  <2>3. live \subseteq Root
    BY <1>0 DEF MTypeOK
  <2>4. ASSUME NEW q \in live' \ {freeing'} PROVE size'[q] = Cardinality(trees'[q].nodes) + 0
    <3>1. CASE q = r
      BY <1>3, <2>1, <2>2, <3>1
    <3>2. CASE q # r
      <4>1. q \in live \ {freeing} /\ q \in Root \ {r}
        BY <1>1, <2>3, <3>2
      <4>2. size[q] = Cardinality(trees[q].nodes) + 0
        BY <1>0, <1>1, <4>1 DEF SizeOK, Members, Pending
      <4>. QED  BY <1>3, <2>2, <4>1, <4>2
    <3>. QED  BY <3>1, <3>2
  <2>. QED  BY <1>1, <2>4 DEF SizeOK, Members, Pending
<1>9. BusyOK'
  BY <1>1 DEF BusyOK
<1>. QED  BY <1>5, <1>6, <1>7, <1>8, <1>9 DEF MultiInv

\* set_add
LEMMA AddMultiInv == ASSUME MultiInv, NEW r \in Root, NEW n \in Node, set_add(r, n) PROVE MultiInv'
<1>0. LinksInv /\ MTypeOK /\ BusyOK /\ NothingLeaks /\ SizeOK
  BY DEF MultiInv
<1>1. /\ pc = "idle" /\ freeing = Nil /\ r \in live /\ Unused(n) /\ trees' = trees
      /\ pc' = "descend" /\ cur' = r /\ size' = [size EXCEPT ![r] = @ + 1] /\ UNCHANGED <<live, freeing>>
  BY DEF set_add, Ready, rb_insert_data
<1>2. LinksInv' /\ TypeOK'
  <2>1. [Next]_vars
    BY DEF set_add, Next
  <2>. QED  BY <1>0, <2>1, NextLinksInv DEF LinksInv, TypeInv
<1>3. n \notin Members(r) /\ r # Nil
  BY <1>1, RBAssumption DEF Unused, Members
<1>4. size[r] = Cardinality(Members(r)) + 0
  BY <1>0, <1>1, <1>3 DEF SizeOK, Pending
<1>5. Cardinality(Members(r)) \in Nat
  BY <1>0, MembersFinite
<1>6. size[r] + 1 = Cardinality(Members(r)) + 1
  BY <1>4, <1>5
<1>7. size[r] + 1 \in 0..Cardinality(Node)
  BY <1>0, <1>3, <1>6, OneMoreMember
<1>8. /\ size' \in [Root -> 0..Cardinality(Node)] /\ size'[r] = size[r] + 1
      /\ \A q \in Root \ {r} : size'[q] = size[q]
  BY <1>0, <1>1, <1>7 DEF MTypeOK
<1>9. MTypeOK'
  BY <1>0, <1>1, <1>2, <1>8 DEF MTypeOK
<1>10. NothingLeaks' /\ BusyOK'
  BY <1>0, <1>1 DEF NothingLeaks, Members, BusyOK
<1>11. SizeOK'
  <2>. SUFFICES ASSUME NEW q \in live \ {freeing}
                PROVE  size'[q] = Cardinality(Members(q)) + IF q = r THEN 1 ELSE 0
    BY <1>1 DEF SizeOK, Members, Pending
  <2>1. CASE q = r
    BY <1>6, <1>8, <2>1
  <2>2. CASE q # r
    BY <1>0, <1>1, <1>8, <2>2 DEF SizeOK, Pending, MTypeOK
  <2>. QED  BY <2>1, <2>2
<1>. QED  BY <1>2, <1>9, <1>10, <1>11 DEF MultiInv

\* A step of rb_insert_data or rb_erase.
LEMMA TreeStepMultiInv == ASSUME MultiInv, TreeStep PROVE MultiInv'
<1>0. LinksInv /\ MTypeOK /\ BusyOK /\ NothingLeaks /\ SizeOK /\ UNCHANGED <<size, live, freeing>>
      /\ (InsertStep \/ EraseStep)
  BY DEF MultiInv, TreeStep, svars
<1>1. LinksInv' /\ TypeOK'
  <2>1. [Next]_vars
    BY <1>0 DEF Next
  <2>. QED  BY <1>0, <2>1, NextLinksInv DEF LinksInv, TypeInv
<1>2. MTypeOK'
  BY <1>0, <1>1 DEF MTypeOK
<1>3. CASE InsertStep
  <2>1. /\ cur \in Root /\ pc \in {"descend", "insert_color"}
        /\ \A r \in Root \ {cur} : trees'[r] = trees[r]
        /\ \/ pc' = "descend" /\ pc = "descend" /\ cur' = cur /\ T.nodes = trees'[cur].nodes
           \/ /\ pc' = "insert_color" /\ pc = "descend" /\ cur' = cur
              /\ trees'[cur].nodes = T.nodes \cup {node} /\ node \in Node /\ node \notin T.nodes
           \/ /\ pc = "insert_color" /\ T.nodes = trees'[cur].nodes
              /\ (pc' = "insert_color" /\ cur' = cur) \/ pc' = "idle"
    BY <1>0, <1>3, InsertNodes
  <2>2. cur \in live /\ freeing = Nil /\ live \subseteq Root
    BY <1>0, <2>1 DEF BusyOK, MTypeOK
  <2>3. BusyOK'
    BY <1>0, <2>1, <2>2 DEF BusyOK
  <2>4. NothingLeaks'
    BY <1>0, <2>1, <2>2 DEF NothingLeaks, Members
  <2>5. SizeOK'
    <3>. SUFFICES ASSUME NEW r \in live \ {freeing}
                  PROVE  size[r] = Cardinality(Members(r)') + Pending(r)'
      BY <1>0 DEF SizeOK
    <3>1. size[r] = Cardinality(Members(r)) + Pending(r) /\ r \in Root
      BY <1>0, <2>2 DEF SizeOK
    <3>2. CASE r # cur
      BY <2>1, <3>1, <3>2 DEF Members, Pending
    <3>3. CASE r = cur /\ pc = "descend" /\ pc' = "insert_color"
      <4>1. Members(r)' = Members(r) \cup {node} /\ node \in Node /\ node \notin Members(r)
        BY <2>1, <3>3 DEF Members, T
      <4>2. Cardinality(Members(r)') = Cardinality(Members(r)) + 1
        BY <1>0, <3>1, <4>1, OneMoreMember
      <4>3. Pending(r) = 1 /\ Pending(r)' = 0
        BY <3>3 DEF Pending
      <4>4. Cardinality(Members(r)) \in Nat
        BY <1>0, <3>1, MembersFinite
      <4>. QED  BY <3>1, <4>2, <4>3, <4>4
    <3>4. CASE r = cur /\ ~(pc = "descend" /\ pc' = "insert_color")
      <4>1. Members(r)' = Members(r) /\ Pending(r)' = Pending(r)
        BY <2>1, <3>4 DEF Members, T, Pending
      <4>. QED  BY <3>1, <4>1
    <3>. QED  BY <3>2, <3>3, <3>4
  <2>. QED  BY <1>1, <1>2, <2>3, <2>4, <2>5 DEF MultiInv
<1>4. CASE EraseStep
  <2>1. /\ cur \in Root /\ pc \in {"successor", "erase_color"}
        /\ \A r \in Root \ {cur} : trees'[r] = trees[r]
        /\ (pc' \in {"successor", "erase_color"} /\ cur' = cur) \/ pc' = "idle"
    BY <1>0, <1>4, EraseNodes
  <2>2. cur \in live /\ freeing = cur /\ live \subseteq Root
    BY <1>0, <2>1 DEF BusyOK, MTypeOK
  <2>3. BusyOK' /\ NothingLeaks'
    BY <1>0, <2>1, <2>2 DEF BusyOK, NothingLeaks, Members
  <2>4. SizeOK'
    BY <1>0, <2>1, <2>2 DEF SizeOK, Members, Pending
  <2>. QED  BY <1>1, <1>2, <2>3, <2>4 DEF MultiInv
<1>. QED  BY <1>0, <1>3, <1>4

\* An iteration of the loop of set_free, and its end.
LEMMA FreeMultiInv == ASSUME MultiInv, FreeLoop \/ FreeDone PROVE MultiInv'
<1>0. LinksInv /\ MTypeOK /\ BusyOK /\ NothingLeaks /\ SizeOK /\ pc = "idle" /\ freeing # Nil
      /\ freeing \in live /\ live \subseteq Root /\ trees \in [Root -> Tree] /\ Nil \notin Root
  BY RBAssumption DEF MultiInv, FreeLoop, FreeDone, MTypeOK, TypeOK
<1>1. CASE FreeLoop
  <2>. DEFINE n == trees[freeing].root
  <2>1. n # Nil /\ rb_erase(freeing, n) /\ UNCHANGED <<size, live, freeing>>
    BY <1>1 DEF FreeLoop, svars
  <2>2. n \in Node
    BY <1>0, <2>1 DEF Tree, Ptr
  <2>3. LinksInv' /\ TypeOK'
    <3>1. freeing \in Root
      BY <1>0
    <3>2. Next
      <4>. HIDE DEF n
      <4>. QED  BY <2>1, <2>2, <3>1 DEF Next
    <3>. QED  BY <1>0, <3>2, NextLinksInv DEF LinksInv, TypeInv
  <2>4. /\ \A r \in Root \ {freeing} : trees'[r] = trees[r]
        /\ (pc' \in {"successor", "erase_color"} /\ cur' = freeing) \/ pc' = "idle"
    <3>. HIDE DEF n
    <3>1. \/ pc' = "successor" /\ cur' = freeing /\ UNCHANGED trees
          \/ \E b, c, p, z : Unlinked(freeing, b, c, p, z, n)
      BY <2>1, Zenon DEF rb_erase
    <3>. QED  BY <1>0, <3>1 DEF Unlinked, Return
  <2>5. MTypeOK'
    BY <1>0, <2>1, <2>3 DEF MTypeOK
  <2>6. BusyOK' /\ NothingLeaks'
    BY <1>0, <2>1, <2>4 DEF BusyOK, NothingLeaks, Members
  <2>7. SizeOK'
    BY <1>0, <2>1, <2>4 DEF SizeOK, Members, Pending
  <2>. QED  BY <2>3, <2>5, <2>6, <2>7 DEF MultiInv
<1>2. CASE FreeDone
  <2>1. trees[freeing].root = Nil /\ live' = live \ {freeing} /\ freeing' = Nil
        /\ UNCHANGED <<trees, pc, cur, node, par, old, size>>
    BY <1>2 DEF FreeDone, vars
  <2>2. trees[freeing].nodes = {}
    <3>1. trees[freeing] \in Tree /\ WF(trees[freeing])
      BY <1>0 DEF LinksInv
    <3>. QED  BY <2>1, <3>1, EmptyTree
  <2>3. LinksInv' /\ TypeOK'
    <3>1. [Next]_vars
      BY <2>1 DEF vars
    <3>. QED  BY <1>0, <3>1, NextLinksInv DEF LinksInv, TypeInv
  <2>4. MTypeOK' /\ BusyOK'
    BY <1>0, <2>1, <2>3 DEF MTypeOK, BusyOK
  <2>5. NothingLeaks'
    BY <1>0, <2>1, <2>2 DEF NothingLeaks, Members
  <2>6. SizeOK'
    BY <1>0, <2>1 DEF SizeOK, Members, Pending
  <2>. QED  BY <2>3, <2>4, <2>5, <2>6 DEF MultiInv
<1>. QED  BY <1>1, <1>2

LEMMA NextMultiInv == MultiInv /\ [MNext]_mvars => MultiInv'
<1>. SUFFICES ASSUME MultiInv, [MNext]_mvars PROVE MultiInv'
  OBVIOUS
<1>0. LinksInv /\ MTypeOK /\ BusyOK /\ NothingLeaks /\ SizeOK
  BY DEF MultiInv
<1>1. ASSUME NEW r \in Root, set_init(r) PROVE MultiInv'
  BY <1>1, InitSetMultiInv
<1>2. ASSUME NEW r \in Root, NEW n \in Node, set_add(r, n) PROVE MultiInv'
  BY <1>2, AddMultiInv
<1>3. ASSUME UNCHANGED vars, UNCHANGED size, UNCHANGED live,
             freeing' = freeing \/ (pc = "idle" /\ freeing = Nil /\ freeing' \in live)
      PROVE  MultiInv'
  <2>1. UNCHANGED <<trees, pc, cur, node, par, old>>
    BY <1>3 DEF vars
  <2>2. LinksInv' /\ TypeOK'
    BY <1>0, <1>3, NextLinksInv DEF LinksInv, TypeInv
  <2>3. MTypeOK' /\ NothingLeaks' /\ BusyOK'
    BY <1>0, <1>3, <2>1, <2>2 DEF MTypeOK, NothingLeaks, Members, BusyOK
  <2>4. live' \ {freeing'} \subseteq live \ {freeing}
    BY <1>0, <1>3, RBAssumption DEF MTypeOK
  <2>5. SizeOK'
    BY <1>0, <1>3, <2>1, <2>4 DEF SizeOK, Members, Pending
  <2>. QED  BY <2>2, <2>3, <2>5 DEF MultiInv
<1>4. ASSUME NEW r \in Root, set_free(r) PROVE MultiInv'
  BY <1>3, <1>4 DEF set_free, Ready
<1>5. CASE UNCHANGED mvars
  BY <1>3, <1>5 DEF mvars, svars
<1>6. CASE Step
  BY <1>6, TreeStepMultiInv, FreeMultiInv DEF Step
<1>. QED  BY <1>1, <1>2, <1>4, <1>5, <1>6 DEF MNext

-----------------------------------------------------------------------------

\* Type correctness: the size of a set, which set_add counts up without looking,
\* never exceeds the number of Data objects there are.
THEOREM MultiSetType == MSpec => []MTypeOK
<1>1. MultiInv => MTypeOK
  BY DEF MultiInv
<1>. QED  BY <1>1, InitMultiInv, NextMultiInv, PTL DEF MSpec

\* set_free, which erases whatever the root pointer points to until there is
\* nothing, has erased every object of the set when it returns.
THEOREM FreesEverything == MSpec => []NothingLeaks
<1>1. MultiInv => NothingLeaks
  BY DEF MultiInv
<1>. QED  BY <1>1, InitMultiInv, NextMultiInv, PTL DEF MSpec

-----------------------------------------------------------------------------
(* The multisets in order of iteration, and the queries.                    *)

\* A step of simi.c is a step of rbtree.c, or none, or set_init.
LEMMA MultiStep ==
    ASSUME MultiInv, [MNext]_mvars
    PROVE  [Next]_vars \/ \E r \in Root : set_init(r)
<1>1. ASSUME NEW r \in Root, NEW n \in Node, set_add(r, n) PROVE Next
  BY <1>1 DEF set_add, Next
<1>2. CASE TreeStep
  BY <1>2 DEF TreeStep, Next
<1>3. CASE FreeLoop
  <2>. DEFINE n == trees[freeing].root
  <2>1. n # Nil /\ rb_erase(freeing, n) /\ freeing # Nil
    BY <1>3 DEF FreeLoop
  <2>2. freeing \in Root /\ n \in Node
    BY <2>1 DEF MultiInv, MTypeOK, TypeOK, Tree, Ptr
  <2>. HIDE DEF n
  <2>. QED  BY <2>1, <2>2 DEF Next
<1>4. CASE FreeDone
  BY <1>4 DEF FreeDone
<1>5. ASSUME NEW r \in Root, set_free(r) PROVE UNCHANGED vars
  BY <1>5 DEF set_free
<1>6. CASE UNCHANGED mvars
  BY <1>6 DEF mvars
<1>. QED  BY <1>1, <1>2, <1>3, <1>4, <1>5, <1>6 DEF MNext, Step

\* set_init empties a tree that set_free has left empty.
LEMMA InitSetOrder ==
    ASSUME MultiInv, OrderInv, NEW r \in Root, set_init(r)
    PROVE  OrderInv' /\ UNCHANGED [q \in Root |-> Walk(trees[q])]
<1>1. /\ pc = "idle" /\ pc' = "idle" /\ r \notin live /\ trees' = [trees EXCEPT ![r] = RB_ROOT]
  BY DEF set_init
<1>2. StructInv'
  <2>1. LinksInv'
    BY InitSetMultiInv DEF MultiInv
  <2>. QED  BY <1>1, <2>1 DEF StructInv
<1>3. trees'[r] = RB_ROOT /\ \A q \in Root \ {r} : trees'[q] = trees[q]
  BY <1>1 DEF MultiInv, LinksInv, TypeInv, TypeOK
<1>4. Walk(trees[r]) = << >>
  <2>1. trees[r] \in Tree /\ WF(trees[r])
    BY StructTrees DEF OrderInv
  <2>2. trees[r].nodes = {}
    BY <1>1 DEF MultiInv, NothingLeaks, Members
  <2>. QED  BY <2>1, <2>2, EmptyInOrder
<1>5. Walk(trees'[r]) = << >> /\ InOrder(trees'[r], << >>) /\ Ascends(<< >>)
  <2>1. trees'[r] \in Tree /\ WF(trees'[r])
    BY <1>2 DEF StructInv, LinksInv, TypeInv, TypeOK
  <2>2. trees'[r].nodes = {}
    BY <1>3 DEF RB_ROOT
  <2>. QED  BY <2>1, <2>2, EmptyInOrder
<1>6. ASSUME NEW q \in Root
      PROVE  /\ InOrder(trees'[q], Walk(trees'[q])) /\ Ascends(Walk(trees'[q]))
             /\ Walk(trees'[q]) = Walk(trees[q])
  <2>1. CASE q = r
    BY <1>4, <1>5, <2>1
  <2>2. CASE q # r
    BY <1>3, <2>2 DEF OrderInv
  <2>. QED  BY <2>1, <2>2
<1>. QED  BY <1>2, <1>6 DEF OrderInv

LEMMA NextMultiOrder ==
    MultiInv /\ OrderInv /\ [MNext]_mvars
        => MultiInv' /\ OrderInv' /\ [Bag!Next]_[r \in Root |-> Walk(trees[r])]
<1>. SUFFICES ASSUME MultiInv, OrderInv, [MNext]_mvars
              PROVE  MultiInv' /\ OrderInv' /\ (Bag!Next \/ UNCHANGED [r \in Root |-> Walk(trees[r])])
  OBVIOUS
<1>1. MultiInv'
  BY NextMultiInv
<1>2. CASE [Next]_vars
  BY <1>1, <1>2, NextOrder
<1>3. CASE \E r \in Root : set_init(r)
  BY <1>1, <1>3, InitSetOrder
<1>. QED  BY <1>2, <1>3, MultiStep

LEMMA InitMultiOrder == MInit => MultiInv /\ OrderInv
BY InitMultiInv, InitOrder DEF MInit

\* The list of a set, and the cardinality of a part of it.
LEMMA Counted ==
    ASSUME OrderInv, NEW r \in Root, NEW S \in SUBSET Members(r)
    PROVE  LET w == Walk(trees[r])
           IN  /\ w \in Seq(Node) /\ Len(w) = Cardinality(Members(r)) /\ DOMAIN w = 1..Len(w)
               /\ \A i \in DOMAIN w : w[i] \in Members(r)
               /\ Cardinality({i \in DOMAIN w : w[i] \in S}) = Cardinality(S)
<1>. DEFINE w == Walk(trees[r])
            D == {i \in DOMAIN w : w[i] \in S}
            f == [i \in D |-> w[i]]
<1>1. trees[r] \in Tree /\ InOrder(trees[r], w)
  BY StructTrees DEF OrderInv
<1>. HIDE DEF w
<1>2. /\ w \in Seq(Node) /\ Len(w) \in Nat /\ DOMAIN w = 1..Len(w) /\ ToSet(w) = Members(r)
      /\ \A i, j \in 1..Len(w) : w[i] = w[j] => i = j
      /\ Len(w) = Cardinality(Members(r))
  BY <1>1, AlongOnce DEF Members
<1>3. \A i \in DOMAIN w : w[i] \in Members(r)
  BY <1>2 DEF ToSet
<1>4. IsFiniteSet(D)
  <2>1. IsFiniteSet(1..Len(w))
    BY <1>2, FS_Interval
  <2>2. D \subseteq 1..Len(w)
    BY <1>2
  <2>. QED  BY <2>1, <2>2, FS_Subset
<1>5. f \in [D -> S] /\ (\A i, j \in D : f[i] = f[j] => i = j)
  BY <1>2
<1>6. \A x \in S : \E i \in D : f[i] = x
  BY <1>2 DEF ToSet
<1>7. Cardinality(D) = Cardinality(S)
  <2>. HIDE DEF D, f
  <2>. QED  BY <1>4, <1>5, <1>6, SameSize
<1>. QED  BY <1>2, <1>3, <1>7 DEF w

\* The number of times a value is in a set.
LEMMA TimesFacts ==
    ASSUME LinksInv, NEW r \in Root, NEW v
    PROVE  /\ Times(r, v) \in Nat
           /\ Times(r, v) > 0 <=> \E n \in Members(r) : Val[n] = v
           /\ Times(r, v) <= 1 => \A m, n \in Members(r) : Val[m] = v /\ Val[n] = v => m = n
<1>. DEFINE S == {n \in Members(r) : Val[n] = v}
<1>1. IsFiniteSet(S)
  BY MembersFinite, FS_Subset
<1>2. Times(r, v) = Cardinality(S)
  BY DEF Times
<1>3. Cardinality(S) \in Nat /\ (Cardinality(S) = 0 <=> S = {})
  BY <1>1, FS_CardinalityType, FS_EmptySet
<1>4. ASSUME NEW m \in S, NEW n \in S, m # n PROVE ~(Cardinality(S) <= 1)
  <2>1. IsFiniteSet({m}) /\ Cardinality({m}) = 1
    BY FS_Singleton
  <2>2. Cardinality({m} \cup {n}) = 2
    <3>1. n \notin {m}
      BY <1>4
    <3>2. Cardinality({m} \cup {n}) = Cardinality({m}) + 1
      BY <2>1, <3>1, FS_AddElement
    <3>. QED  BY <2>1, <3>2
  <2>3. {m} \cup {n} \subseteq S
    OBVIOUS
  <2>4. Cardinality({m} \cup {n}) <= Cardinality(S)
    BY <1>1, <2>3, FS_Subset
  <2>. QED  BY <1>3, <2>2, <2>4
<1>. QED  BY <1>2, <1>3, <1>4

\* set_in
LEMMA SetIn ==
    ASSUME OrderInv, NEW r \in Root, NEW v \in Nat
    PROVE  set_in(r, v) <=> Times(r, v) > 0
<1>1. trees[r] \in Tree /\ WF(trees[r]) /\ Ordered(Val, trees[r]) /\ LinksInv
  BY StructTrees, AscendsOrdered DEF OrderInv, StructInv
<1>. DEFINE equal == {x \in trees[r].nodes : Val[x] = v}
            found == rb_search_data(trees[r], v)
<1>2. IF equal = {} THEN found = Nil ELSE found \in equal
  BY <1>1, SearchOrdered
<1>3. Nil \notin equal
  BY <1>1, RBAssumption DEF Tree
<1>4. Times(r, v) > 0 <=> equal # {}
  BY <1>1, TimesFacts DEF Members
<1>. HIDE DEF equal
<1>. QED  BY <1>2, <1>3, <1>4 DEF set_in

\* set_found_in
LEMMA FoundIn ==
    ASSUME OrderInv, NEW a \in Root, NEW b \in Root
    PROVE  set_found_in(a, b) = Cardinality({n \in Members(a) : Times(b, Val[n]) > 0})
<1>. DEFINE w == Walk(trees[a])
            S == {n \in Members(a) : Times(b, Val[n]) > 0}
            D == {i \in DOMAIN w : set_in(b, Val[w[i]])}
<1>1. /\ w \in Seq(Node) /\ DOMAIN w = 1..Len(w) /\ (\A i \in DOMAIN w : w[i] \in Members(a))
      /\ Cardinality({i \in DOMAIN w : w[i] \in S}) = Cardinality(S)
  BY Counted
<1>2. set_found_in(a, b) = Cardinality(D)
  BY DEF set_found_in
<1>. HIDE DEF w
<1>3. ASSUME NEW i \in DOMAIN w PROVE set_in(b, Val[w[i]]) <=> w[i] \in S
  <2>1. w[i] \in Node /\ w[i] \in Members(a)
    BY <1>1, ElementOfSeq
  <2>2. Val[w[i]] \in Nat
    BY <2>1, RBAssumption
  <2>. QED  BY <2>1, <2>2, SetIn
<1>4. D = {i \in DOMAIN w : w[i] \in S}
  BY <1>3
<1>. QED  BY <1>1, <1>2, <1>4

\* Of members of different values there are as many as values.
LEMMA ValueCount ==
    ASSUME LinksInv, NEW r \in Root, \A v \in Values : Times(r, v) <= 1, NEW S \in SUBSET Members(r)
    PROVE  /\ IsFiniteSet({Val[n] : n \in S})
           /\ Cardinality({Val[n] : n \in S}) = Cardinality(S)
<1>. DEFINE R == {Val[n] : n \in S}
            f == [n \in S |-> Val[n]]
<1>1. IsFiniteSet(S) /\ S \subseteq Node /\ S \subseteq Members(r)
  BY MembersFinite, FS_Subset
<1>2. ASSUME NEW m \in S, NEW n \in S, Val[m] = Val[n] PROVE m = n
  <2>1. Val[n] \in Values
    BY <1>1 DEF Values
  <2>2. Times(r, Val[n]) <= 1
    BY <2>1
  <2>. QED  BY <1>1, <1>2, <2>2, TimesFacts
<1>3. f \in [S -> R] /\ (\A m, n \in S : f[m] = f[n] => m = n) /\ \A v \in R : \E n \in S : f[n] = v
  BY <1>2
<1>. HIDE DEF R, f
<1>4. IsFiniteSet(R) /\ Cardinality(R) = Cardinality(S)
  BY <1>1, <1>3, SameSize
<1>. QED  BY <1>4 DEF R

\* The values of the members of a that b has too.
LEMMA CommonValues ==
    ASSUME LinksInv, NEW a \in Root, NEW b \in Root,
           \A v \in Values : Times(a, v) <= 1 /\ Times(b, v) <= 1
    PROVE  /\ {Val[n] : n \in {m \in Members(a) : Times(b, Val[m]) > 0}}
                = {v \in Values : Times(a, v) = 1 /\ Times(b, v) = 1}
           /\ {Val[n] : n \in Members(a)} = {v \in Values : Times(a, v) = 1}
<1>1. ASSUME NEW r \in Root, NEW v, v \in Values, r = a \/ r = b
      PROVE  Times(r, v) = 1 <=> Times(r, v) > 0
  <2>1. Times(r, v) \in Nat /\ Times(r, v) <= 1
    BY <1>1, TimesFacts
  <2>. QED  BY <2>1
<1>2. \A v : Times(a, v) > 0 <=> \E n \in Members(a) : Val[n] = v
  BY TimesFacts
<1>3. \A n \in Members(a) : Val[n] \in Values
  BY MembersFinite DEF Values
<1>. QED  BY <1>1, <1>2, <1>3

\* The members of a whose values b has, and the three numbers of set_jaccard.
CommonOf(a, b) == {m \in Members(a) : Times(b, Val[m]) > 0}

LEMMA JaccardParts ==
    ASSUME OrderInv, NEW a \in Root, NEW b \in Root
    PROVE  /\ \A r \in {a, b} : Cardinality(Members(r)) \in Nat
                                /\ (Cardinality(Members(r)) = 0 <=> Members(r) = {})
           /\ Cardinality(CommonOf(a, b)) \in 0..Cardinality(Members(a))
           /\ Cardinality(CommonOf(a, b)) = 0 <=> CommonOf(a, b) = {}
           /\ Cardinality(CommonOf(a, b)) = Cardinality(Members(a)) <=> CommonOf(a, b) = Members(a)
           /\ set_jaccard(a, b) =
                Quotient(Cardinality(CommonOf(a, b)),
                         Cardinality(Members(a)) + (Cardinality(Members(b)) - Cardinality(CommonOf(b, a))))
<1>1. LinksInv
  BY DEF OrderInv, StructInv
<1>2. ASSUME NEW r \in Root, NEW S \in SUBSET Members(r)
      PROVE  /\ Cardinality(S) \in Nat /\ Cardinality(S) <= Cardinality(Members(r))
             /\ (Cardinality(S) = 0 <=> S = {})
             /\ (Cardinality(S) = Cardinality(Members(r)) <=> S = Members(r))
  <2>1. IsFiniteSet(Members(r))
    BY <1>1, MembersFinite
  <2>2. IsFiniteSet(S) /\ Cardinality(S) <= Cardinality(Members(r))
        /\ (Cardinality(S) = Cardinality(Members(r)) <=> S = Members(r))
    BY <2>1, FS_Subset
  <2>. QED  BY <2>2, FS_CardinalityType, FS_EmptySet
<1>3. CommonOf(a, b) \in SUBSET Members(a) /\ CommonOf(b, a) \in SUBSET Members(b)
  BY DEF CommonOf
<1>4. /\ set_found_in(a, b) = Cardinality(CommonOf(a, b))
      /\ set_found_in(b, a) = Cardinality(CommonOf(b, a))
      /\ Len(Walk(trees[a])) = Cardinality(Members(a))
      /\ Len(Walk(trees[b])) = Cardinality(Members(b))
  BY FoundIn, Counted DEF CommonOf
<1>. DEFINE y  == Cardinality(CommonOf(a, b))
            na == Cardinality(Members(a))
            nb == Cardinality(Members(b))
            fb == Cardinality(CommonOf(b, a))
<1>5. set_jaccard(a, b) = Quotient(y, (na - y) + y + (nb - fb))
  BY <1>4 DEF set_jaccard
<1>6. y \in Nat /\ na \in Nat /\ nb \in Nat /\ fb \in Nat
  BY <1>2, <1>3
<1>7. (na - y) + y + (nb - fb) = na + (nb - fb)
  <2>. HIDE DEF y, na, nb, fb
  <2>. QED  BY <1>6
<1>8. Cardinality(CommonOf(a, b)) \in 0..Cardinality(Members(a))
  BY <1>2, <1>3
<1>. QED  BY <1>2, <1>3, <1>5, <1>7, <1>8

\* The same parts said of values.
LEMMA JaccardValues ==
    ASSUME OrderInv, NEW a \in Root, NEW b \in Root
    PROVE  LET both == {v \in Values : Has(a, v) /\ Has(b, v)}
               any  == {v \in Values : Has(a, v) \/ Has(b, v)}
           IN  /\ any = {} <=> Members(a) = {} /\ Members(b) = {}
               /\ both = {} <=> CommonOf(a, b) = {}
               /\ both = any <=> CommonOf(a, b) = Members(a) /\ CommonOf(b, a) = Members(b)
<1>1. LinksInv
  BY DEF OrderInv, StructInv
<1>2. ASSUME NEW r \in {a, b}, NEW v
      PROVE  Has(r, v) <=> \E n \in Members(r) : Val[n] = v
  BY <1>1, TimesFacts DEF Has
<1>3. \A n \in Members(a) \cup Members(b) : Val[n] \in Values
  BY <1>1, MembersFinite DEF Values
<1>4. CommonOf(a, b) = {m \in Members(a) : Has(b, Val[m])}
      /\ CommonOf(b, a) = {m \in Members(b) : Has(a, Val[m])}
  BY DEF CommonOf, Has
<1>5. (\A n \in Members(a) : Has(a, Val[n])) /\ (\A n \in Members(b) : Has(b, Val[n]))
  BY <1>2
<1>. DEFINE both == {v \in Values : Has(a, v) /\ Has(b, v)}
            any  == {v \in Values : Has(a, v) \/ Has(b, v)}
<1>6. any = {} <=> Members(a) = {} /\ Members(b) = {}
  BY <1>2, <1>3
<1>7. both = {} <=> CommonOf(a, b) = {}
  BY <1>2, <1>3, <1>4, <1>5
<1>8. CASE CommonOf(a, b) = Members(a) /\ CommonOf(b, a) = Members(b)
  <2>1. \A v \in Values : Has(a, v) <=> Has(b, v)
    BY <1>2, <1>4, <1>8
  <2>. QED  BY <1>6, <1>7, <1>8, <2>1
<1>9. ASSUME both = any PROVE CommonOf(a, b) = Members(a) /\ CommonOf(b, a) = Members(b)
  BY <1>3, <1>4, <1>5, <1>9
<1>. QED  BY <1>6, <1>7, <1>8, <1>9

\* Without repetitions the parts are sets of values.
LEMMA JaccardOnce ==
    ASSUME OrderInv, NEW a \in Root, NEW b \in Root,
           \A v \in Values : Times(a, v) <= 1 /\ Times(b, v) <= 1
    PROVE  LET both == {v \in Values : Has(a, v) /\ Has(b, v)}
               any  == {v \in Values : Has(a, v) \/ Has(b, v)}
           IN  /\ Cardinality(both) = Cardinality(CommonOf(a, b))
               /\ Cardinality(any) = Cardinality(Members(a))
                                     + (Cardinality(Members(b)) - Cardinality(CommonOf(b, a)))
<1>. DEFINE A  == {v \in Values : Times(a, v) = 1}
            B  == {v \in Values : Times(b, v) = 1}
            AB == {v \in Values : Times(a, v) = 1 /\ Times(b, v) = 1}
            Fa == {m \in Members(a) : Times(b, Val[m]) > 0}
            Fb == {m \in Members(b) : Times(a, Val[m]) > 0}
<1>1. LinksInv
  BY DEF OrderInv, StructInv
<1>2. {Val[n] : n \in Fa} = AB /\ {Val[n] : n \in Members(a)} = A
  BY <1>1, CommonValues
<1>3. {Val[n] : n \in Fb} = AB /\ {Val[n] : n \in Members(b)} = B
  BY <1>1, CommonValues
<1>4. /\ IsFiniteSet(A) /\ Cardinality(A) = Cardinality(Members(a))
      /\ Cardinality(AB) = Cardinality(Fa)
  BY <1>1, <1>2, ValueCount
<1>5. /\ IsFiniteSet(B) /\ Cardinality(B) = Cardinality(Members(b))
      /\ Cardinality(AB) = Cardinality(Fb)
  BY <1>1, <1>3, ValueCount
<1>6. \A v \in Values : (Has(a, v) <=> Times(a, v) = 1) /\ (Has(b, v) <=> Times(b, v) = 1)
  <2>. SUFFICES ASSUME NEW v \in Values, NEW r \in {a, b} PROVE Has(r, v) <=> Times(r, v) = 1
    OBVIOUS
  <2>1. Times(r, v) \in Nat /\ Times(r, v) <= 1
    BY <1>1, TimesFacts
  <2>. QED  BY <2>1 DEF Has
<1>7. A \cap B = AB
  OBVIOUS
<1>8. Fa = CommonOf(a, b) /\ Fb = CommonOf(b, a)
  BY DEF CommonOf
<1>9. {v \in Values : Has(a, v) /\ Has(b, v)} = AB /\ {v \in Values : Has(a, v) \/ Has(b, v)} = A \cup B
  BY <1>6
<1>. HIDE DEF A, B, AB, Fa, Fb
<1>10. Cardinality(A \cup B) = Cardinality(A) + Cardinality(B) - Cardinality(A \cap B)
  BY <1>4, <1>5, FS_Union
<1>11. Cardinality(A) \in Nat /\ Cardinality(B) \in Nat /\ Cardinality(AB) \in Nat
  <2>1. AB \subseteq A
    BY <1>7
  <2>. QED  BY <1>4, <1>5, <2>1, FS_Subset, FS_CardinalityType
<1>12. Cardinality(A \cup B) = Cardinality(A) + (Cardinality(B) - Cardinality(AB))
  BY <1>7, <1>10, <1>11
<1>. QED  BY <1>4, <1>5, <1>8, <1>9, <1>12

\* set_jaccard
LEMMA Jaccard ==
    ASSUME OrderInv, NEW a \in Root, NEW b \in Root
    PROVE  LET j    == set_jaccard(a, b)
               both == {v \in Values : Has(a, v) /\ Has(b, v)}
               any  == {v \in Values : Has(a, v) \/ Has(b, v)}
           IN  /\ j = NaN <=> any = {}
               /\ any # {} =>
                    /\ 0 <= j[1] /\ j[1] <= j[2] /\ 0 < j[2]
                    /\ j[1] = j[2] <=> both = any
                    /\ j[1] = 0 <=> both = {}
                    /\ (\A v \in Values : Times(a, v) <= 1 /\ Times(b, v) <= 1) =>
                        j[1] * Cardinality(any) = j[2] * Cardinality(both)
<1>. DEFINE j    == set_jaccard(a, b)
            both == {v \in Values : Has(a, v) /\ Has(b, v)}
            any  == {v \in Values : Has(a, v) \/ Has(b, v)}
            Fa == CommonOf(a, b)
            Fb == CommonOf(b, a)
            na == Cardinality(Members(a))
            nb == Cardinality(Members(b))
            y  == Cardinality(Fa)
            fb == Cardinality(Fb)
            d  == na + (nb - fb)
<1>1. /\ na \in Nat /\ nb \in Nat /\ y \in 0..na /\ fb \in 0..nb
      /\ (na = 0 <=> Members(a) = {}) /\ (nb = 0 <=> Members(b) = {})
      /\ (y = 0 <=> Fa = {}) /\ (y = na <=> Fa = Members(a)) /\ (fb = nb <=> Fb = Members(b))
      /\ j = Quotient(y, d)
  BY JaccardParts
<1>2. /\ any = {} <=> Members(a) = {} /\ Members(b) = {}
      /\ both = {} <=> Fa = {}
      /\ both = any <=> Fa = Members(a) /\ Fb = Members(b)
  BY JaccardValues
<1>3. Members(a) = {} => Fb = {}
  <2>1. LinksInv
    BY DEF OrderInv, StructInv
  <2>2. ASSUME Members(a) = {}, NEW v PROVE ~(Times(a, v) > 0)
    BY <2>1, <2>2, TimesFacts
  <2>. QED  BY <2>2 DEF CommonOf
<1>4. (\A v \in Values : Times(a, v) <= 1 /\ Times(b, v) <= 1)
        => Cardinality(both) = y /\ Cardinality(any) = d
  BY JaccardOnce
<1>5. fb = 0 <=> Fb = {}
  BY JaccardParts
<1>. HIDE DEF j, both, any, Fa, Fb, na, nb, y, fb
<1>6. d \in Nat /\ y \in Nat /\ y <= d /\ (d = 0 <=> any = {}) /\ (y = d <=> both = any)
  BY <1>1, <1>2, <1>3, <1>5
<1>. HIDE DEF d
<1>7. CASE any = {}
  BY <1>1, <1>6, <1>7 DEF Quotient, any, j
<1>8. CASE any # {}
  <2>1. j = <<y, d>> /\ j # NaN
    BY <1>1, <1>6, <1>8, NaNAssumption DEF Quotient
  <2>2. j[1] = y /\ j[2] = d
    BY <2>1
  <2>3. \A m, n \in Nat : m * n = n * m
    OBVIOUS
  <2>4. (\A v \in Values : Times(a, v) <= 1 /\ Times(b, v) <= 1)
          => j[1] * Cardinality(any) = j[2] * Cardinality(both)
    BY <1>4, <1>6, <2>2, <2>3
  <2>5. 0 <= j[1] /\ j[1] <= j[2] /\ 0 < j[2] /\ (j[1] = j[2] <=> both = any) /\ (j[1] = 0 <=> both = {})
    BY <1>1, <1>2, <1>6, <1>8, <2>2
  <2>. QED  BY <1>8, <2>1, <2>4, <2>5 DEF any, both, j
<1>. QED  BY <1>7, <1>8

-----------------------------------------------------------------------------

\* The multisets of simi.c implement the sorted list of OrderedBag too, though
\* set_init stores over the root pointer and set_free takes the tree apart from the
\* root.
THEOREM MultiSetImplementsBag == MSpec => IsOrderedBag
<1>1. MInit => MultiInv /\ OrderInv /\ Bag!Init
  <2>. SUFFICES ASSUME MInit PROVE MultiInv /\ OrderInv /\ Bag!Init
    OBVIOUS
  <2>1. MultiInv /\ OrderInv
    BY InitMultiOrder
  <2>2. ASSUME NEW r \in Root PROVE Walk(trees[r]) = << >>
    <3>1. trees[r] \in Tree /\ WF(trees[r])
      BY <2>1, StructTrees DEF OrderInv
    <3>2. trees[r].nodes = {}
      BY DEF MInit, Init, RB_ROOT
    <3>. QED  BY <3>1, <3>2, EmptyInOrder
  <2>. QED  BY <2>1, <2>2 DEF Bag!Init
<1>2. MultiInv /\ OrderInv /\ [MNext]_mvars
        => MultiInv' /\ OrderInv' /\ [Bag!Next]_[r \in Root |-> Walk(trees[r])]
  BY NextMultiOrder
<1>. QED  BY <1>1, <1>2, PTL DEF MSpec, IsOrderedBag, Bag!Spec

\* The count that set_add keeps beside the tree is, whenever set_size can be called,
\* the number of the members and of the objects that an iteration visits, whatever has
\* been added and freed before.
THEOREM SizeRight == MSpec => []SizeCounts
<1>1. MultiInv /\ OrderInv => SizeCounts
  <2>. SUFFICES ASSUME MultiInv, OrderInv, NEW r \in live, Ready(r)
                PROVE  size[r] = Len(Walk(trees[r])) /\ size[r] = Cardinality(Members(r))
    BY DEF SizeCounts
  <2>1. r \in Root /\ r \in live \ {freeing} /\ Pending(r) = 0
    BY RBAssumption DEF MultiInv, MTypeOK, Ready, Pending
  <2>2. size[r] = Cardinality(Members(r)) + 0 /\ Cardinality(Members(r)) \in Nat
    BY <2>1, MembersFinite DEF MultiInv, SizeOK
  <2>3. Len(Walk(trees[r])) = Cardinality(Members(r))
    BY <2>1, Counted
  <2>. QED  BY <2>2, <2>3
<1>2. MultiInv /\ OrderInv /\ [MNext]_mvars => MultiInv' /\ OrderInv'
  BY NextMultiOrder
<1>. QED  BY <1>1, <1>2, InitMultiOrder, PTL DEF MSpec

\* set_found_in, which walks one set and searches the other, counts every member as
\* often as it occurs whose value occurs in the other, for sets of every size.
THEOREM FoundInRight == MSpec => []FoundInCounts
<1>1. MultiInv /\ OrderInv => FoundInCounts
  <2>1. MultiInv => live \subseteq Root
    BY DEF MultiInv, MTypeOK
  <2>. QED  BY <2>1, FoundIn DEF FoundInCounts
<1>2. MultiInv /\ OrderInv /\ [MNext]_mvars => MultiInv' /\ OrderInv'
  BY NextMultiOrder
<1>. QED  BY <1>1, <1>2, InitMultiOrder, PTL DEF MSpec

\* set_jaccard, put together from two walks with searches in opposite directions, is
\* not a number exactly for two empty sets; any other result is in 0..1, is 1 and 0
\* for the same and for no common values, and the Jaccard index without repetitions.
THEOREM JaccardRight == MSpec => []JaccardIndex
<1>1. MultiInv /\ OrderInv => JaccardIndex
  <2>1. MultiInv => live \subseteq Root
    BY DEF MultiInv, MTypeOK
  <2>. QED  BY <2>1, Jaccard DEF JaccardIndex
<1>2. MultiInv /\ OrderInv /\ [MNext]_mvars => MultiInv' /\ OrderInv'
  BY NextMultiOrder
<1>. QED  BY <1>1, <1>2, InitMultiOrder, PTL DEF MSpec
=============================================================================
