---------------------------- MODULE RBColorProofs ----------------------------
(* The colours of the red-black tree: no null pointer is followed, and every *)
(* way down has the same number of black nodes.                             *)
EXTENDS RBTreeProofs

-----------------------------------------------------------------------------
(* The colours between two iterations.                                      *)

\* h counts the black nodes on the way from a node down to a missing child,
\* whichever way one goes, except that the ways through the child of x on side
\* d are one short.
Heights(t, h, x, d) ==
    /\ h \in [Ptr -> Nat] /\ h[Nil] = 0
    /\ \A n \in t.nodes, s \in Side :
        h[n] = t.color[n] + h[t.child[s][n]] + (IF n = x /\ s = d THEN 1 ELSE 0)

HasHeights(t, x, d) == \E h : Heights(t, h, x, d)

\* A red node has a black parent, if it is not in E.
NoRedRed(t, E) ==
    \A n \in t.nodes : t.color[n] = RED /\ t.parent[n] # Nil /\ t.color[t.parent[n]] = RED
                        => n \in E

Coloured(t) == NoRedRed(t, {}) /\ IsBlack(t, t.root) /\ HasHeights(t, Nil, "left")

\* rb_insert_color may have a red parent above node, and node may be a red root.
Inserting(t, n) ==
    /\ NoRedRed(t, {n}) /\ t.color[n] = RED
    /\ t.root # n => IsBlack(t, t.root)
    /\ HasHeights(t, Nil, "left")

\* In __rb_erase_color the paths through node are short; node is the child of p
\* on some side, or the root.
Erasing(t, n, p) ==
    /\ NoRedRed(t, {x \in t.nodes : x = n \/ t.parent[x] = n})
    /\ t.root # n => IsBlack(t, t.root)
    /\ IF n = t.root THEN HasHeights(t, Nil, "left")
       ELSE \E d \in Side : t.child[d][p] = n /\ HasHeights(t, p, d)

\* The tree that a routine in progress is recolouring is as that routine leaves
\* it; the others are red-black trees.
ColorInv ==
    /\ LinksInv
    /\ \A r \in Root : pc \in {"idle", "descend", "successor"} \/ r # cur => Coloured(trees[r])
    /\ pc = "insert_color" => Inserting(T, node)
    /\ pc = "erase_color" => Erasing(T, node, par)

-----------------------------------------------------------------------------
(* What the routines do to the colours and the heights.                     *)

\* b is t with other colours.
Painted(t, b) ==
    b \in Tree /\ b.root = t.root /\ b.child = t.child /\ b.parent = t.parent /\ b.nodes = t.nodes

\* Painting a node.
LEMMA PaintPainted ==
    ASSUME NEW t \in Tree, NEW b \in Tree, Painted(t, b), NEW n \in Ptr, NEW c \in {RED, BLACK}
    PROVE  /\ Painted(t, Paint(b, n, c)) /\ Paint(b, n, c) \in Tree
           /\ \A x \in Node : Paint(b, n, c).color[x] = IF x = n THEN c ELSE b.color[x]
BY PaintFields DEF Painted

\* Painting keeps the pointers in agreement.
LEMMA PaintedWF ==
    ASSUME NEW t \in Tree, WF(t), NEW b, Painted(t, b)
    PROVE  b \in Tree /\ WF(b)
<1>1. b \in Tree /\ SamePointers(t, b)
  BY DEF Painted, SamePointers
<1>. QED  BY <1>1, SamePointersWF

\* u is t after a rotation in which n and the child that takes its place have
\* exchanged their colours, and the node f has turned black.
Swapped(t, u, n, s, f) ==
    LET up    == t.child[Opp(s)][n]
        inner == t.child[s][up]
        p     == t.parent[n]
    IN  /\ u \in Tree /\ u.nodes = t.nodes
        /\ u.root = IF p = Nil THEN up ELSE t.root
        /\ \A x \in t.nodes : u.parent[x] =
             IF x = n THEN up ELSE IF x = up THEN p ELSE IF x = inner THEN n
             ELSE t.parent[x]
        /\ \A d \in Side, x \in t.nodes : u.child[d][x] =
             IF x = n /\ d = Opp(s) THEN inner
             ELSE IF x = up /\ d = s THEN n
             ELSE IF x = p /\ t.child[d][p] = n THEN up
             ELSE t.child[d][x]
        /\ \A x \in t.nodes : u.color[x] =
             IF x = n THEN t.color[up] ELSE IF x = up THEN t.color[n]
             ELSE IF x = f THEN BLACK ELSE t.color[x]

\* The child of m on side e.  Proofs that look two links down name it like this:
\* what the function is does not matter to them.
Down(t, e, m) == t.child[e][m]

\* What a rotation changes, in these terms.
LEMMA SwappedAt ==
    ASSUME NEW t, NEW n, NEW s, NEW up, Down(t, Opp(s), n) = up, NEW f, NEW u,
           Swapped(t, u, n, s, f)
    PROVE  /\ u.nodes = t.nodes
           /\ \A e \in Side, m \in t.nodes : Down(u, e, m) =
                IF m = n /\ e = Opp(s) THEN Down(t, s, up)
                ELSE IF m = up /\ e = s THEN n
                ELSE IF m = t.parent[n] /\ Down(t, e, t.parent[n]) = n THEN up
                ELSE Down(t, e, m)
           /\ \A m \in t.nodes : u.color[m] =
                IF m = n THEN t.color[up] ELSE IF m = up THEN t.color[n]
                ELSE IF m = f THEN BLACK ELSE t.color[m]
BY DEF Swapped, Down

\* Painting two or three nodes and rotating.
LEMMA RotateSwapped ==
    ASSUME NEW t \in Tree, WF(t), NEW n \in t.nodes, NEW s \in Side, NEW up \in t.nodes,
           Down(t, Opp(s), n) = up,
           NEW b \in Tree, Painted(t, b), NEW f,
           \A x \in t.nodes : b.color[x] =
             IF x = n THEN t.color[up]
             ELSE IF x = up THEN t.color[n]
             ELSE IF x = f THEN BLACK ELSE t.color[x]
    PROVE  Swapped(t, Rotate(b, n, s), n, s, f) /\ WF(Rotate(b, n, s)) /\ Rotate(b, n, s) \in Tree
<1>0. t.child[Opp(s)][n] = up /\ up # Nil
  BY RBAssumption DEF Tree, Down
<1>1. WF(b) /\ n \in b.nodes /\ b.child[Opp(s)][n] # Nil
  BY <1>0, PaintedWF DEF Painted
<1>2. Rotated(b, Rotate(b, n, s), n, s)
  BY <1>1, RotateFields
<1>3. WF(Rotate(b, n, s)) /\ Rotate(b, n, s) \in Tree
  BY <1>1, RotateWF
<1>4. t.nodes \subseteq Node
  BY DEF Tree
<1>. QED  BY <1>0, <1>2, <1>3, <1>4 DEF Rotated, Painted, Swapped

\* The nodes around a rotation.
LEMMA Around ==
    ASSUME NEW t \in Tree, WF(t), NEW n \in t.nodes, NEW s \in Side, t.child[Opp(s)][n] # Nil
    PROVE  LET up    == t.child[Opp(s)][n]
               inner == t.child[s][up]
               p     == t.parent[n]
           IN  /\ Opp(s) \in Side /\ Opp(s) # s /\ \A d \in Side : d = s \/ d = Opp(s)
               /\ n # Nil /\ up \in t.nodes /\ up # n /\ up # p /\ p # n /\ t.parent[up] = n
               /\ inner \in t.nodes \cup {Nil} /\ inner # n /\ inner # up
               /\ inner # Nil => t.parent[inner] = up
               /\ p \in t.nodes \cup {Nil} /\ (p = Nil <=> n = t.root)
               /\ p # Nil => \E d \in Side : t.child[d][p] = n
               /\ Nil \notin t.nodes /\ t.nodes \subseteq Node
<1>1. Opp(s) \in Side /\ Opp(s) # s /\ \A d \in Side : d = s \/ d = Opp(s)
  BY OppSide DEF Opp, Side
<1>2. n # Nil /\ t.child[Opp(s)][n] \in t.nodes /\ t.child[Opp(s)][n] # n
      /\ t.child[Opp(s)][n] # t.parent[n] /\ t.parent[n] # n /\ t.parent[t.child[Opp(s)][n]] = n
  BY <1>1, LinksAt, Distinct
<1>3. t.child[s][t.child[Opp(s)][n]] \in t.nodes \cup {Nil} /\ t.child[s][t.child[Opp(s)][n]] # n
      /\ t.child[s][t.child[Opp(s)][n]] # t.child[Opp(s)][n]
      /\ (t.child[s][t.child[Opp(s)][n]] # Nil
            => t.parent[t.child[s][t.child[Opp(s)][n]]] = t.child[Opp(s)][n])
  BY <1>1, <1>2, LinksAt, Distinct
<1>4. /\ t.parent[n] \in t.nodes \cup {Nil} /\ (t.parent[n] = Nil <=> n = t.root)
      /\ t.parent[n] # Nil => \E d \in Side : t.child[d][t.parent[n]] = n
  BY LinksAt
<1>5. Nil \notin t.nodes /\ t.nodes \subseteq Node
  BY RBAssumption DEF Tree
<1>. QED  BY <1>1, <1>2, <1>3, <1>4, <1>5

LEMMA AroundAt ==
    ASSUME NEW t \in Tree, WF(t), NEW n \in t.nodes, NEW s \in Side, NEW up \in t.nodes,
           Down(t, Opp(s), n) = up
    PROVE  LET inner == Down(t, s, up)
               p     == t.parent[n]
           IN  /\ Opp(s) \in Side /\ Opp(s) # s /\ \A d \in Side : d = s \/ d = Opp(s)
               /\ n # Nil /\ up \in t.nodes /\ up # n /\ up # p /\ p # n /\ t.parent[up] = n
               /\ inner \in t.nodes \cup {Nil} /\ inner # n /\ inner # up
               /\ inner # Nil => t.parent[inner] = up
               /\ p \in t.nodes \cup {Nil} /\ (p = Nil <=> n = t.root)
               /\ p # Nil => \E d \in Side : Down(t, d, p) = n
               /\ Nil \notin t.nodes /\ t.nodes \subseteq Node
<1>1. Nil \notin t.nodes
  BY RBAssumption DEF Tree
<1>. QED  BY <1>1, Around DEF Down

\* A rotation that brings up a red node keeps the heights, if that node's link
\* is not the short one.
LEMMA TurnRedHeights ==
    ASSUME NEW t \in Tree, WF(t), NEW n \in t.nodes, NEW s \in Side, NEW up \in t.nodes,
           Down(t, Opp(s), n) = up, t.color[up] = RED, NEW u, Swapped(t, u, n, s, Nil),
           NEW x, NEW d, HasHeights(t, x, d), x # up, ~(x = n /\ d = Opp(s))
    PROVE  HasHeights(u, x, d)
<1>. DEFINE inner == Down(t, s, up)
            p     == t.parent[n]
<1>1. /\ Opp(s) \in Side /\ Opp(s) # s /\ \A e \in Side : e = s \/ e = Opp(s)
      /\ n # Nil /\ up \in t.nodes /\ up # n /\ up # p /\ p # n
      /\ inner \in t.nodes \cup {Nil} /\ inner # n /\ inner # up
      /\ Nil \notin t.nodes /\ t.nodes \subseteq Node
  BY AroundAt
<1>2. PICK h : Heights(t, h, x, d)
  BY DEF HasHeights
<1>3. /\ h \in [Ptr -> Nat] /\ h[Nil] = 0
      /\ \A m \in t.nodes, e \in Side :
           h[m] = t.color[m] + h[Down(t, e, m)] + (IF m = x /\ e = d THEN 1 ELSE 0)
  BY <1>2 DEF Heights, Down
<1>4. /\ u.nodes = t.nodes
      /\ \A e \in Side, m \in t.nodes : Down(u, e, m) =
             IF m = n /\ e = Opp(s) THEN inner
             ELSE IF m = up /\ e = s THEN n
             ELSE IF m = p /\ Down(t, e, p) = n THEN up
             ELSE Down(t, e, m)
      /\ \A m \in t.nodes : u.color[m] =
             IF m = n THEN RED ELSE IF m = up THEN t.color[n] ELSE t.color[m]
  BY <1>1 DEF Swapped, Down
<1>5. \A m \in t.nodes, e \in Side :
        /\ Down(t, e, m) = n => m = p
        /\ Down(t, e, m) = up => m = n
        /\ Down(t, e, m) \in Ptr
  BY <1>1, LinksAt DEF Down
<1>6. \A m \in t.nodes : t.color[m] \in {0, 1}
  BY <1>1 DEF Tree, RED, BLACK
<1>7. \A e \in Side : Down(t, e, n) # n /\ Down(t, e, up) # up /\ Down(t, e, up) # n
  BY <1>1, LinksAt, Distinct DEF Down
<1>8. Down(t, s, n) # up
  BY <1>1, LinksAt DEF Down
<1>a. x # up /\ ~(x = n /\ d = Opp(s)) /\ t.color[up] = RED /\ up = Down(t, Opp(s), n) /\ inner = Down(t, s, up)
  OBVIOUS
<1>. HIDE DEF inner, p
<1>. DEFINE k == [m \in Ptr |-> IF m = n THEN h[up] ELSE IF m = up THEN h[n] ELSE h[m]]
<1>9. k \in [Ptr -> Nat] /\ k[Nil] = 0 /\ k[n] = h[up] /\ k[up] = h[n]
      /\ \A m \in Ptr : m # n /\ m # up => k[m] = h[m]
  BY <1>1, <1>3, RBAssumption DEF Ptr
<1>. HIDE DEF k
<1>10. h[up] = h[inner] /\ h[up] = h[Down(t, Opp(s), up)]
       /\ h[n] = t.color[n] + h[up]
       /\ h[n] = t.color[n] + h[Down(t, s, n)] + (IF n = x /\ s = d THEN 1 ELSE 0)
       /\ h[up] \in Nat /\ h[n] \in Nat /\ h[inner] \in Nat
  BY <1>1, <1>3, <1>5, <1>6, <1>a DEF RED, Ptr
<1>11. ASSUME NEW m \in t.nodes, NEW e \in Side
       PROVE  k[m] = u.color[m] + k[Down(u, e, m)] + (IF m = x /\ e = d THEN 1 ELSE 0)
  <2>1. CASE m = n /\ e = Opp(s)
    <3>1. Down(u, e, m) = inner /\ u.color[m] = 0 /\ k[inner] = h[inner]
      BY <1>1, <1>4, <1>9, <2>1 DEF RED, Ptr
    <3>2. ~(m = x /\ e = d)
      BY <1>a, <2>1
    <3>3. k[m] = h[up] /\ h[up] = h[inner] /\ h[inner] \in Nat
      BY <1>9, <1>10, <2>1
    <3>. QED  BY <3>1, <3>2, <3>3
  <2>2. CASE m = n /\ e = s
    <3>1. Down(u, e, m) = Down(t, s, n) /\ u.color[m] = 0
      BY <1>1, <1>4, <2>2 DEF RED
    <3>2. k[Down(t, s, n)] = h[Down(t, s, n)] /\ h[Down(t, s, n)] \in Nat
      BY <1>3, <1>5, <1>7, <1>8, <1>9
    <3>. QED  BY <1>6, <1>9, <1>10, <2>2, <3>1, <3>2
  <2>3. CASE m = up /\ e = s
    <3>1. Down(u, e, m) = n /\ u.color[m] = t.color[n]
      BY <1>1, <1>4, <2>3
    <3>. QED  BY <1>6, <1>9, <1>10, <1>a, <2>3, <3>1
  <2>4. CASE m = up /\ e = Opp(s)
    <3>1. Down(u, e, m) = Down(t, Opp(s), up) /\ u.color[m] = t.color[n]
      BY <1>1, <1>4, <2>4
    <3>2. k[Down(t, Opp(s), up)] = h[Down(t, Opp(s), up)]
      BY <1>1, <1>5, <1>7, <1>9
    <3>. QED  BY <1>6, <1>9, <1>10, <1>a, <2>4, <3>1, <3>2
  <2>5. CASE m # n /\ m # up
    <3>1. k[m] = h[m] /\ u.color[m] = t.color[m]
      BY <1>1, <1>4, <1>9, <2>5 DEF Ptr
    <3>2. k[Down(u, e, m)] = h[Down(t, e, m)]
      BY <1>1, <1>4, <1>5, <1>9, <2>5
    <3>. QED  BY <1>3, <3>1, <3>2
  <2>. QED  BY <1>1, <2>1, <2>2, <2>3, <2>4, <2>5
<1>12. Heights(u, k, x, d)
  BY <1>4, <1>9, <1>11 DEF Heights, Down
<1>. QED  BY <1>12 DEF HasHeights

\* The rotation that ends __rb_erase_color: the short side of n gets one black
\* node more, and the far child of the node that comes up, which turns black,
\* makes up for the one that the other side loses.
LEMMA TurnBlackHeights ==
    ASSUME NEW t \in Tree, WF(t), NEW n \in t.nodes, NEW s \in Side, NEW up \in t.nodes,
           Down(t, Opp(s), n) = up, t.color[up] = BLACK,
           NEW f \in t.nodes, Down(t, Opp(s), up) = f, t.color[f] = RED,
           NEW u, Swapped(t, u, n, s, f), HasHeights(t, n, s)
    PROVE  HasHeights(u, Nil, "left")
<1>. DEFINE inner == Down(t, s, up)
            p     == t.parent[n]
<1>1. /\ Opp(s) \in Side /\ Opp(s) # s /\ \A e \in Side : e = s \/ e = Opp(s)
      /\ n # Nil /\ up \in t.nodes /\ up # n /\ up # p /\ p # n
      /\ inner \in t.nodes \cup {Nil} /\ inner # n /\ inner # up
      /\ Nil \notin t.nodes /\ t.nodes \subseteq Node
  BY AroundAt
<1>2. PICK h : Heights(t, h, n, s)
  BY DEF HasHeights
<1>3. /\ h \in [Ptr -> Nat] /\ h[Nil] = 0
      /\ \A m \in t.nodes, e \in Side :
           h[m] = t.color[m] + h[Down(t, e, m)] + (IF m = n /\ e = s THEN 1 ELSE 0)
  BY <1>2 DEF Heights, Down
<1>4. /\ u.nodes = t.nodes
      /\ \A e \in Side, m \in t.nodes : Down(u, e, m) =
             IF m = n /\ e = Opp(s) THEN inner
             ELSE IF m = up /\ e = s THEN n
             ELSE IF m = p /\ Down(t, e, p) = n THEN up
             ELSE Down(t, e, m)
      /\ \A m \in t.nodes : u.color[m] =
             IF m = n THEN BLACK ELSE IF m = up THEN t.color[n]
             ELSE IF m = f THEN BLACK ELSE t.color[m]
  BY <1>1 DEF Swapped, Down
<1>5. \A m \in t.nodes, e \in Side :
        /\ Down(t, e, m) = n => m = p
        /\ Down(t, e, m) = up => m = n
        /\ Down(t, e, m) = f => m = up
        /\ Down(t, e, m) \in Ptr
  BY <1>1, LinksAt DEF Down
<1>6. \A m \in t.nodes : t.color[m] \in {0, 1}
  BY <1>1 DEF Tree, RED, BLACK
<1>7. \A e \in Side : /\ Down(t, e, n) # n /\ Down(t, e, up) # up /\ Down(t, e, up) # n
                      /\ Down(t, e, f) # f
  BY <1>1, LinksAt, Distinct DEF Down
<1>8. Down(t, s, n) # up /\ Down(t, s, n) # f /\ inner # f
  BY <1>1, <1>5, LinksAt DEF Down
<1>a. /\ t.color[up] = BLACK /\ t.color[f] = RED /\ up = Down(t, Opp(s), n) /\ inner = Down(t, s, up)
      /\ f = Down(t, Opp(s), up)
  OBVIOUS
<1>. HIDE DEF inner, p
<1>. DEFINE k == [m \in Ptr |-> IF m = n THEN h[up] ELSE IF m = up THEN h[n]
                                ELSE IF m = f THEN h[m] + 1 ELSE h[m]]
<1>b. f # n /\ f # up
  BY <1>1, <1>7, <1>a
<1>c. f # p
  <2>. SUFFICES ASSUME f = p PROVE FALSE
    OBVIOUS
  <2>1. t.parent[f] = up /\ t.parent[up] = n /\ t.parent[n] = f
    BY <1>1, <1>a, LinksAt DEF p, Down
  <2>2. {f, up, n} \in SUBSET t.nodes
    BY <1>1
  <2>. QED  BY <2>1, <2>2 DEF WF, Acyclic
<1>9. k \in [Ptr -> Nat] /\ k[Nil] = 0 /\ k[n] = h[up] /\ k[up] = h[n] /\ k[f] = h[f] + 1
      /\ \A m \in Ptr : m # n /\ m # up /\ m # f => k[m] = h[m]
  BY <1>1, <1>3, <1>b, RBAssumption DEF Ptr
<1>. HIDE DEF k
<1>10. /\ h[up] = 1 + h[inner] /\ h[up] = 1 + h[f]
       /\ h[n] = t.color[n] + h[up]
       /\ h[n] = t.color[n] + h[Down(t, s, n)] + 1
       /\ h[up] \in Nat /\ h[n] \in Nat /\ h[inner] \in Nat /\ h[Down(t, s, n)] \in Nat /\ h[f] \in Nat
  BY <1>1, <1>3, <1>5, <1>6, <1>a DEF BLACK, Ptr
<1>11. ASSUME NEW m \in t.nodes, NEW e \in Side
       PROVE  k[m] = u.color[m] + k[Down(u, e, m)]
  <2>1. CASE m = n /\ e = Opp(s)
    <3>1. Down(u, e, m) = inner /\ u.color[m] = 1 /\ k[inner] = h[inner]
      BY <1>1, <1>4, <1>8, <1>9, <2>1 DEF BLACK, Ptr
    <3>2. k[m] = h[up] /\ h[up] = 1 + h[inner] /\ h[inner] \in Nat
      BY <1>9, <1>10, <2>1
    <3>. QED  BY <3>1, <3>2
  <2>2. CASE m = n /\ e = s
    <3>1. Down(u, e, m) = Down(t, s, n) /\ u.color[m] = 1
      BY <1>1, <1>4, <2>2 DEF BLACK
    <3>2. k[Down(t, s, n)] = h[Down(t, s, n)]
      BY <1>5, <1>7, <1>8, <1>9
    <3>3. k[m] = h[up]
      BY <1>9, <2>2
    <3>. QED  BY <1>6, <1>10, <3>1, <3>2, <3>3
  <2>3. CASE m = up /\ e = s
    <3>1. Down(u, e, m) = n /\ u.color[m] = t.color[n]
      BY <1>1, <1>4, <2>3
    <3>. QED  BY <1>9, <1>10, <2>3, <3>1
  <2>4. CASE m = up /\ e = Opp(s)
    <3>1. Down(u, e, m) = f /\ u.color[m] = t.color[n]
      BY <1>1, <1>4, <1>a, <2>4
    <3>2. k[m] = h[n] /\ k[f] = h[f] + 1
      BY <1>9, <2>4
    <3>. QED  BY <1>6, <1>10, <3>1, <3>2
  <2>5. CASE m # n /\ m # up /\ m # f
    <3>1. k[m] = h[m] /\ u.color[m] = t.color[m]
      BY <1>1, <1>4, <1>9, <2>5 DEF Ptr
    <3>2. k[Down(u, e, m)] = h[Down(t, e, m)]
      BY <1>1, <1>4, <1>5, <1>9, <2>5
    <3>3. h[m] = t.color[m] + h[Down(t, e, m)] /\ h[Down(t, e, m)] \in Nat
      BY <1>3, <1>5, <1>6, <2>5
    <3>. QED  BY <3>1, <3>2, <3>3
  <2>6. CASE m = f
    <3>1. k[m] = h[f] + 1 /\ u.color[m] = 1
      BY <1>4, <1>9, <1>b, <2>6 DEF BLACK
    <3>2. Down(u, e, m) = Down(t, e, f)
      BY <1>4, <1>b, <1>c, <2>6
    <3>3. k[Down(t, e, f)] = h[Down(t, e, f)]
      <4>1. Down(t, e, f) # n /\ Down(t, e, f) # up
        BY <1>5, <1>b, <1>c
      <4>. QED  BY <1>5, <1>7, <1>9, <4>1
    <3>4. h[f] = h[Down(t, e, f)] /\ h[f] \in Nat
      <4>1. h[f] = t.color[f] + h[Down(t, e, f)] + 0
        BY <1>3, <1>b
      <4>2. t.color[f] = 0 /\ h[Down(t, e, f)] \in Nat
        BY <1>3, <1>5, <1>a DEF RED
      <4>. QED  BY <4>1, <4>2
    <3>5. k[Down(u, e, m)] = h[f]
      BY <3>2, <3>3, <3>4
    <3>. QED  BY <3>1, <3>4, <3>5
  <2>. QED  BY <1>1, <2>1, <2>2, <2>3, <2>4, <2>5, <2>6
<1>12. \A m \in u.nodes, e \in Side :
         k[m] = u.color[m] + k[Down(u, e, m)] + (IF m = Nil /\ e = "left" THEN 1 ELSE 0)
  <2>. SUFFICES ASSUME NEW m \in t.nodes, NEW e \in Side
                PROVE  k[m] = u.color[m] + k[Down(u, e, m)] + (IF m = Nil /\ e = "left" THEN 1 ELSE 0)
    BY <1>4
  <2>1. m # Nil /\ k[m] = u.color[m] + k[Down(u, e, m)] /\ m \in Ptr
    BY <1>1, <1>11 DEF Ptr
  <2>2. k[m] \in Nat
    BY <1>9, <2>1
  <2>. QED  BY <2>1, <2>2
<1>13. Heights(u, k, Nil, "left")
  BY <1>9, <1>12 DEF Heights, Down
<1>. QED  BY <1>13 DEF HasHeights

\* The root stays black through a rotation.
LEMMA SwappedRoot ==
    ASSUME NEW t \in Tree, WF(t), NEW n \in t.nodes, NEW s \in Side, NEW up \in t.nodes,
           Down(t, Opp(s), n) = up,
           NEW f, NEW u, Swapped(t, u, n, s, f), IsBlack(t, t.root)
    PROVE  IsBlack(u, u.root)
<1>1. /\ up # n /\ t.parent[up] = n /\ n # Nil /\ (t.parent[n] = Nil <=> n = t.root)
  BY AroundAt
<1>2. t.root \in t.nodes /\ t.root # up
  <2>1. t.root # Nil
    BY EmptyTree
  <2>. QED  BY <1>1, <2>1, LinksAt DEF WF, Links
<1>3. CASE t.parent[n] = Nil
  BY <1>1, <1>2, <1>3 DEF Swapped, IsBlack, Down
<1>4. CASE t.parent[n] # Nil
  BY <1>1, <1>2, <1>4 DEF Swapped, IsBlack, Down
<1>. QED  BY <1>3, <1>4

\* A rotation that brings up a red node from below a black one.
LEMMA TurnRedNoRedRed ==
    ASSUME NEW t \in Tree, WF(t), NEW n \in t.nodes, NEW s \in Side, NEW up \in t.nodes,
           Down(t, Opp(s), n) = up,
           t.color[n] = BLACK, t.color[up] = RED,
           NEW u, Swapped(t, u, n, s, Nil), NEW E, NoRedRed(t, E),
           IsBlack(t, Down(t, s, up)), IsBlack(t, Down(t, s, n))
    PROVE  NoRedRed(u, E)
<1>. DEFINE inner == Down(t, s, up)
            p     == t.parent[n]
<1>1. /\ Opp(s) \in Side /\ \A d \in Side : d = s \/ d = Opp(s)
      /\ n # Nil /\ up \in t.nodes /\ up # n /\ up # p /\ p # n
      /\ inner \in t.nodes \cup {Nil} /\ inner # n /\ inner # up
      /\ Nil \notin t.nodes
  BY AroundAt
<1>2. /\ u.nodes = t.nodes
      /\ \A x \in t.nodes : u.parent[x] =
             IF x = n THEN up ELSE IF x = up THEN p ELSE IF x = inner THEN n
             ELSE t.parent[x]
      /\ \A x \in t.nodes : u.color[x] =
             IF x = n THEN RED ELSE IF x = up THEN BLACK ELSE t.color[x]
  BY <1>1 DEF Swapped, Down
<1>3. (inner # Nil => t.color[inner] = BLACK) /\ (Down(t, s, n) # Nil => t.color[Down(t, s, n)] = BLACK)
  BY DEF IsBlack
<1>a. up = Down(t, Opp(s), n) /\ inner = Down(t, s, up)
  OBVIOUS
<1>. HIDE DEF inner, p
<1>4. ASSUME NEW x \in t.nodes, u.color[x] = RED, u.parent[x] # Nil, u.color[u.parent[x]] = RED
      PROVE  x \in E
  <2>1. x # up /\ x # inner
    BY <1>1, <1>2, <1>3, <1>4 DEF RED, BLACK
  <2>2. x # n
    BY <1>1, <1>2, <1>4 DEF RED, BLACK
  <2>3. u.parent[x] = t.parent[x] /\ u.color[x] = t.color[x] /\ t.parent[x] \in t.nodes
    BY <1>2, <1>4, <2>1, <2>2, LinksAt
  <2>4. t.parent[x] # n
    <3>. SUFFICES ASSUME t.parent[x] = n PROVE FALSE
      OBVIOUS
    <3>1. x # Nil /\ \E d \in Side : Down(t, d, n) = x
      BY <1>1, LinksAt DEF Down
    <3>2. x = Down(t, s, n)
      BY <1>1, <1>a, <2>1, <3>1
    <3>. QED  BY <1>3, <1>4, <2>3, <3>1, <3>2 DEF RED, BLACK
  <2>5. t.color[t.parent[x]] = RED
    BY <1>2, <1>4, <2>3, <2>4 DEF RED, BLACK
  <2>. QED  BY <1>4, <2>3, <2>5 DEF NoRedRed
<1>. QED  BY <1>2, <1>4 DEF NoRedRed

\* The first of the two rotations of rb_insert_color: the red node and its red
\* parent change places.
LEMMA TurnInnerNoRedRed ==
    ASSUME NEW t \in Tree, WF(t), NEW n \in t.nodes, NEW s \in Side, NEW up \in t.nodes,
           Down(t, Opp(s), n) = up,
           t.color[n] = RED, t.color[up] = RED, t.parent[n] # Nil,
           NEW u, Swapped(t, u, n, s, Nil), NoRedRed(t, {up})
    PROVE  NoRedRed(u, {n})
<1>. DEFINE inner == Down(t, s, up)
            p     == t.parent[n]
<1>1. /\ Opp(s) \in Side /\ \A d \in Side : d = s \/ d = Opp(s)
      /\ n # Nil /\ up \in t.nodes /\ up # n /\ up # p /\ p # n /\ t.parent[up] = n
      /\ inner \in t.nodes \cup {Nil} /\ inner # n /\ inner # up
      /\ inner # Nil => t.parent[inner] = up
      /\ Nil \notin t.nodes
  BY AroundAt
<1>2. /\ u.nodes = t.nodes
      /\ \A x \in t.nodes : u.parent[x] =
             IF x = n THEN up ELSE IF x = up THEN p ELSE IF x = inner THEN n
             ELSE t.parent[x]
      /\ \A x \in t.nodes : u.color[x] = t.color[x]
  BY <1>1 DEF Swapped, Down
<1>3. p \in t.nodes /\ t.color[p] # RED
  BY <1>1, LinksAt DEF NoRedRed
<1>4. ASSUME NEW x \in t.nodes, u.color[x] = RED, u.parent[x] # Nil, u.color[u.parent[x]] = RED
      PROVE  x = n
  <2>1. x # up
    BY <1>1, <1>2, <1>3, <1>4
  <2>2. x # inner
    <3>. SUFFICES ASSUME x = inner PROVE FALSE
      OBVIOUS
    <3>1. inner \in t.nodes /\ t.color[inner] = RED /\ t.parent[inner] = up
      BY <1>1, <1>2, <1>4
    <3>. QED  BY <1>1, <3>1 DEF NoRedRed
  <2>3. x # n => t.color[x] = RED /\ t.parent[x] # Nil /\ t.color[t.parent[x]] = RED
    BY <1>2, <1>4, <2>1, <2>2, LinksAt
  <2>. QED  BY <2>1, <2>3 DEF NoRedRed
<1>. QED  BY <1>2, <1>4 DEF NoRedRed

\* The rotation that ends __rb_erase_color.
LEMMA TurnBlackNoRedRed ==
    ASSUME NEW t \in Tree, WF(t), NEW n \in t.nodes, NEW s \in Side, NEW up \in t.nodes,
           Down(t, Opp(s), n) = up,
           t.color[up] = BLACK,
           NEW f \in t.nodes, Down(t, Opp(s), up) = f,
           NEW u, Swapped(t, u, n, s, f), NoRedRed(t, {})
    PROVE  NoRedRed(u, {})
<1>. DEFINE inner == Down(t, s, up)
            p     == t.parent[n]
<1>1. /\ Opp(s) \in Side /\ \A d \in Side : d = s \/ d = Opp(s)
      /\ n # Nil /\ up \in t.nodes /\ up # n /\ up # p /\ p # n /\ t.parent[up] = n
      /\ inner \in t.nodes \cup {Nil} /\ inner # n /\ inner # up
      /\ inner # Nil => t.parent[inner] = up
      /\ p \in t.nodes \cup {Nil}
      /\ Nil \notin t.nodes
  BY AroundAt
<1>2. /\ u.nodes = t.nodes
      /\ \A x \in t.nodes : u.parent[x] =
             IF x = n THEN up ELSE IF x = up THEN p ELSE IF x = inner THEN n
             ELSE t.parent[x]
      /\ \A x \in t.nodes : u.color[x] =
             IF x = n THEN BLACK ELSE IF x = up THEN t.color[n]
             ELSE IF x = f THEN BLACK ELSE t.color[x]
  BY <1>1 DEF Swapped, Down
<1>a. p = t.parent[n] /\ up = Down(t, Opp(s), n) /\ inner = Down(t, s, up) /\ f = Down(t, Opp(s), up)
  OBVIOUS
<1>. HIDE DEF inner, p
<1>3. ASSUME NEW x \in t.nodes, u.color[x] = RED, u.parent[x] # Nil, u.color[u.parent[x]] = RED
      PROVE  FALSE
  <2>1. x # n /\ x # f
    BY <1>1, <1>2, <1>3, <1>a, Distinct DEF Down, RED, BLACK
  <2>2. x # inner
    BY <1>1, <1>2, <1>3 DEF RED, BLACK
  <2>3. CASE x = up
    <3>1. p \in t.nodes /\ t.color[n] = RED /\ u.parent[x] = p
      BY <1>1, <1>2, <1>3, <2>3
    <3>2. t.color[p] = RED
      BY <1>1, <1>2, <1>3, <3>1 DEF RED, BLACK
    <3>. QED  BY <1>1, <1>a, <3>1, <3>2 DEF NoRedRed
  <2>4. CASE x # up
    <3>1. u.parent[x] = t.parent[x] /\ t.color[x] = RED /\ t.parent[x] \in t.nodes
      BY <1>2, <1>3, <2>1, <2>2, <2>4, LinksAt DEF RED, BLACK
    <3>2. t.parent[x] # up
      <4>. SUFFICES ASSUME t.parent[x] = up PROVE FALSE
        OBVIOUS
      <4>1. \E d \in Side : Down(t, d, up) = x
        BY <1>1, LinksAt DEF Down
      <4>. QED  BY <1>1, <1>a, <2>1, <2>2, <4>1
    <3>3. t.color[t.parent[x]] = RED
      BY <1>2, <1>3, <3>1, <3>2 DEF RED, BLACK
    <3>. QED  BY <1>1, <3>1, <3>3 DEF NoRedRed
  <2>. QED  BY <2>3, <2>4
<1>. QED  BY <1>2, <1>3 DEF NoRedRed

\* The colours of the nodes in the tree are all that matters.
LEMMA SameColoured ==
    ASSUME NEW t \in Tree, WF(t), NEW u, SamePointers(t, u),
           \A x \in t.nodes : u.color[x] = t.color[x]
    PROVE  /\ \A E : NoRedRed(t, E) => NoRedRed(u, E)
           /\ IsBlack(t, t.root) => IsBlack(u, u.root)
           /\ \A x, d : HasHeights(t, x, d) => HasHeights(u, x, d)
<1>1. ASSUME NEW E, NoRedRed(t, E) PROVE NoRedRed(u, E)
  BY <1>1, LinksAt DEF NoRedRed, SamePointers
<1>2. IsBlack(t, t.root) => IsBlack(u, u.root)
  BY DEF IsBlack, SamePointers, WF, Links
<1>3. ASSUME NEW x, NEW d, HasHeights(t, x, d) PROVE HasHeights(u, x, d)
  <2>1. PICK h : Heights(t, h, x, d)
    BY <1>3 DEF HasHeights
  <2>2. Heights(u, h, x, d)
    BY <2>1 DEF Heights, SamePointers
  <2>. QED  BY <2>2 DEF HasHeights
<1>. QED  BY <1>1, <1>2, <1>3

\* A red-black tree stays one when the nodes outside it are freed.
LEMMA FreedColoured == ASSUME NEW t \in Tree, WF(t), Coloured(t) PROVE Coloured(Freed(t))
BY FreedFields, SameColoured DEF Coloured

\* Painting a red root black.
LEMMA PaintRootHeights ==
    ASSUME NEW t \in Tree, WF(t), NEW n \in t.nodes, n = t.root, t.color[n] = RED,
           NEW u, Painted(t, u), \A x \in t.nodes : u.color[x] = IF x = n THEN BLACK ELSE t.color[x],
           HasHeights(t, Nil, "left")
    PROVE  HasHeights(u, Nil, "left")
<1>1. PICK h : Heights(t, h, Nil, "left")
  BY DEF HasHeights
<1>2. Nil \notin t.nodes /\ t.nodes \subseteq Node
  BY RBAssumption DEF Tree
<1>3. \A x \in t.nodes, s \in Side : t.child[s][x] # n /\ t.child[s][x] \in Ptr
  BY <1>2, LinksAt
<1>. DEFINE k == [m \in Ptr |-> IF m = n THEN h[m] + 1 ELSE h[m]]
<1>4. /\ k \in [Ptr -> Nat] /\ k[Nil] = 0 /\ k[n] = h[n] + 1 /\ h[n] \in Nat
      /\ \A m \in Ptr : (m # n => k[m] = h[m]) /\ h[m] \in Nat
  BY <1>1, <1>2, RBAssumption DEF Heights, Ptr
<1>. HIDE DEF k
<1>5. ASSUME NEW x \in t.nodes, NEW s \in Side PROVE k[x] = u.color[x] + k[u.child[s][x]]
  <2>1. h[x] = t.color[x] + h[t.child[s][x]] /\ x \in Ptr /\ t.color[x] \in {0, 1} /\ h[t.child[s][x]] \in Nat
    <3>1. t.color[x] \in {0, 1} /\ x \in Ptr /\ x # Nil /\ h[t.child[s][x]] \in Nat
      BY <1>2, <1>3, <1>4 DEF Tree, RED, BLACK, Ptr
    <3>2. h[x] = t.color[x] + h[t.child[s][x]] + (IF x = Nil /\ s = "left" THEN 1 ELSE 0)
      BY <1>1 DEF Heights
    <3>. QED  BY <3>1, <3>2
  <2>2. u.child[s][x] = t.child[s][x] /\ k[t.child[s][x]] = h[t.child[s][x]]
    BY <1>3, <1>4 DEF Painted
  <2>3. CASE x = n
    BY <1>4, <2>1, <2>2, <2>3 DEF RED, BLACK
  <2>4. CASE x # n
    BY <1>4, <2>1, <2>2, <2>4
  <2>. QED  BY <2>3, <2>4
<1>6. \A x \in u.nodes, s \in Side :
        k[x] = u.color[x] + k[u.child[s][x]] + (IF x = Nil /\ s = "left" THEN 1 ELSE 0)
  <2>. SUFFICES ASSUME NEW x \in t.nodes, NEW s \in Side
                PROVE  k[x] = u.color[x] + k[u.child[s][x]] + (IF x = Nil /\ s = "left" THEN 1 ELSE 0)
    BY DEF Painted
  <2>1. x # Nil /\ x \in Ptr /\ k[x] \in Nat /\ k[x] = u.color[x] + k[u.child[s][x]]
    BY <1>2, <1>4, <1>5 DEF Ptr
  <2>. QED  BY <2>1
<1>7. Heights(u, k, Nil, "left")
  BY <1>4, <1>6 DEF Heights
<1>. QED  BY <1>7 DEF HasHeights

\* Painting the red node black through which the paths are short.
LEMMA PaintShortHeights ==
    ASSUME NEW t \in Tree, WF(t), NEW n \in t.nodes, t.color[n] = RED,
           NEW p \in t.nodes, NEW d \in Side, t.child[d][p] = n,
           NEW u, Painted(t, u), \A x \in t.nodes : u.color[x] = IF x = n THEN BLACK ELSE t.color[x],
           HasHeights(t, p, d)
    PROVE  HasHeights(u, Nil, "left")
<1>1. PICK h : Heights(t, h, p, d)
  BY DEF HasHeights
<1>2. Nil \notin t.nodes /\ t.nodes \subseteq Node
  BY RBAssumption DEF Tree
<1>3. \A x \in t.nodes, s \in Side : (t.child[s][x] = n <=> x = p /\ s = d) /\ t.child[s][x] \in Ptr
  <2>. TAKE x \in t.nodes, s \in Side
  <2>1. \A e \in Side : e = d \/ e = Opp(d)
    BY DEF Side, Opp
  <2>2. t.child[s][x] = n => t.parent[n] = x
    BY <1>2, LinksAt
  <2>3. t.parent[n] = p /\ t.child[Opp(d)][p] # n
    BY <1>2, LinksAt
  <2>. QED  BY <2>1, <2>2, <2>3, LinksAt
<1>. DEFINE k == [m \in Ptr |-> IF m = n THEN h[m] + 1 ELSE h[m]]
<1>4. /\ k \in [Ptr -> Nat] /\ k[Nil] = 0 /\ k[n] = h[n] + 1 /\ h[n] \in Nat
      /\ \A m \in Ptr : (m # n => k[m] = h[m]) /\ h[m] \in Nat
  BY <1>1, <1>2, RBAssumption DEF Heights, Ptr
<1>. HIDE DEF k
<1>5. ASSUME NEW x \in t.nodes, NEW s \in Side PROVE k[x] = u.color[x] + k[u.child[s][x]]
  <2>1. h[x] = t.color[x] + h[t.child[s][x]] + (IF x = p /\ s = d THEN 1 ELSE 0)
    BY <1>1 DEF Heights
  <2>2. t.color[x] \in {0, 1} /\ x \in Ptr /\ h[t.child[s][x]] \in Nat /\ u.child[s][x] = t.child[s][x]
    BY <1>2, <1>3, <1>4 DEF Tree, RED, BLACK, Ptr, Painted
  <2>3. CASE x = p /\ s = d
    <3>1. x # n
      BY <2>3, Distinct
    <3>. QED  BY <1>4, <2>1, <2>2, <2>3, <3>1
  <2>4. CASE x = n /\ ~(x = p /\ s = d)
    BY <1>3, <1>4, <2>1, <2>2, <2>4 DEF RED, BLACK
  <2>5. CASE x # n /\ ~(x = p /\ s = d)
    BY <1>3, <1>4, <2>1, <2>2, <2>5
  <2>. QED  BY <2>3, <2>4, <2>5
<1>6. \A x \in u.nodes, s \in Side :
        k[x] = u.color[x] + k[u.child[s][x]] + (IF x = Nil /\ s = "left" THEN 1 ELSE 0)
  <2>. SUFFICES ASSUME NEW x \in t.nodes, NEW s \in Side
                PROVE  k[x] = u.color[x] + k[u.child[s][x]] + (IF x = Nil /\ s = "left" THEN 1 ELSE 0)
    BY DEF Painted
  <2>1. x # Nil /\ x \in Ptr /\ k[x] \in Nat /\ k[x] = u.color[x] + k[u.child[s][x]]
    BY <1>2, <1>4, <1>5 DEF Ptr
  <2>. QED  BY <2>1
<1>7. Heights(u, k, Nil, "left")
  BY <1>4, <1>6 DEF Heights
<1>. QED  BY <1>7 DEF HasHeights

\* The black sibling turns red: now the paths through p are short.
LEMMA SiblingRedHeights ==
    ASSUME NEW t \in Tree, WF(t), NEW p \in t.nodes, NEW d \in Side,
           NEW o \in t.nodes, o = t.child[Opp(d)][p], t.color[o] = BLACK,
           NEW u, Painted(t, u), \A x \in t.nodes : u.color[x] = IF x = o THEN RED ELSE t.color[x],
           HasHeights(t, p, d), NEW g, NEW e \in Side,
           IF p = t.root THEN g = Nil /\ e = "left" ELSE g = t.parent[p] /\ t.child[e][g] = p
    PROVE  HasHeights(u, g, e)
<1>1. PICK h : Heights(t, h, p, d)
  BY DEF HasHeights
<1>2. Nil \notin t.nodes /\ t.nodes \subseteq Node /\ Opp(d) \in Side /\ Opp(d) # d
      /\ \A s \in Side : s = d \/ s = Opp(d)
  BY OppSide, RBAssumption DEF Tree, Side, Opp
<1>3. \A x \in t.nodes, s \in Side :
        /\ t.child[s][x] = o <=> x = p /\ s = Opp(d)
        /\ t.child[s][x] = p <=> x = g /\ s = e
        /\ t.child[s][x] \in Ptr
  <2>. TAKE x \in t.nodes, s \in Side
  <2>1. t.child[s][x] \in Ptr
    BY LinksAt
  <2>2. t.child[s][x] = o => t.parent[o] = x
    BY <1>2, LinksAt
  <2>3. t.parent[o] = p /\ t.child[d][p] # o
    BY <1>2, LinksAt, OppSide
  <2>4. t.child[s][x] = p => t.parent[p] = x /\ p # t.root
    BY <1>2, LinksAt
  <2>5. x = g => g \in t.nodes /\ p # t.root /\ t.child[e][g] = p /\ t.child[Opp(e)][g] # p
    BY <1>2, LinksAt
  <2>6. \A y \in Side : y = e \/ y = Opp(e)
    BY DEF Side, Opp
  <2>. QED  BY <1>2, <2>1, <2>2, <2>3, <2>4, <2>5, <2>6
<1>4. p # o
  BY <1>2, Distinct
<1>5. /\ h \in [Ptr -> Nat] /\ h[Nil] = 0
      /\ \A x \in t.nodes, s \in Side :
           h[x] = t.color[x] + h[t.child[s][x]] + (IF x = p /\ s = d THEN 1 ELSE 0)
  BY <1>1 DEF Heights
<1>6. h[p] \in Nat \ {0} /\ h[o] \in Nat \ {0}
  <2>1. t.color[p] \in {0, 1} /\ h[t.child[d][p]] \in Nat /\ h[t.child[d][o]] \in Nat
    BY <1>2, <1>3, <1>5 DEF Tree, RED, BLACK
  <2>2. h[p] = t.color[p] + h[t.child[d][p]] + 1
    BY <1>5
  <2>3. h[o] = 1 + h[t.child[d][o]]
    BY <1>4, <1>5, <2>1 DEF BLACK
  <2>. QED  BY <2>1, <2>2, <2>3
<1>. DEFINE k == [m \in Ptr |-> IF m = p \/ m = o THEN h[m] - 1 ELSE h[m]]
<1>7. /\ k \in [Ptr -> Nat] /\ k[Nil] = 0 /\ k[p] = h[p] - 1 /\ k[o] = h[o] - 1
      /\ \A m \in Ptr : (m # p /\ m # o => k[m] = h[m]) /\ h[m] \in Nat
  BY <1>2, <1>5, <1>6, RBAssumption DEF Ptr
<1>. HIDE DEF k
<1>8. ASSUME NEW x \in t.nodes, NEW s \in Side
      PROVE  k[x] = u.color[x] + k[u.child[s][x]] + (IF x = g /\ s = e THEN 1 ELSE 0)
  <2>1. h[x] = t.color[x] + h[t.child[s][x]] + (IF x = p /\ s = d THEN 1 ELSE 0)
    BY <1>5
  <2>2. t.color[x] \in {0, 1} /\ x \in Ptr /\ h[t.child[s][x]] \in Nat /\ u.child[s][x] = t.child[s][x]
    BY <1>2, <1>3, <1>5 DEF Tree, RED, BLACK, Ptr, Painted
  <2>3. CASE x = p /\ s = d
    <3>1. x # g /\ t.child[s][x] # o /\ t.child[s][x] # p
      BY <1>2, <1>3, <2>3, Distinct
    <3>2. u.color[x] = t.color[x] /\ k[t.child[s][x]] = h[t.child[s][x]]
      BY <1>3, <1>4, <1>7, <2>3, <3>1
    <3>. QED  BY <1>6, <1>7, <2>1, <2>2, <2>3, <3>1, <3>2
  <2>4. CASE x = p /\ s = Opp(d)
    <3>1. x # g /\ t.child[s][x] = o
      BY <1>2, <1>3, <2>4, Distinct
    <3>2. u.color[x] = t.color[x]
      BY <1>4, <2>4
    <3>. QED  BY <1>2, <1>6, <1>7, <2>1, <2>2, <2>4, <3>1, <3>2
  <2>5. CASE x = o
    <3>1. x # g /\ t.child[s][x] # o /\ t.child[s][x] # p
      <4>1. g # o
        BY <1>2, LinksAt, Distinct
      <4>. QED  BY <1>3, <1>4, <2>5, <4>1
    <3>2. u.color[x] = 0 /\ t.color[x] = 1 /\ k[t.child[s][x]] = h[t.child[s][x]]
      BY <1>3, <1>7, <2>5, <3>1 DEF RED, BLACK
    <3>. QED  BY <1>4, <1>6, <1>7, <2>1, <2>2, <2>5, <3>1, <3>2
  <2>6. CASE x # p /\ x # o /\ x = g /\ s = e
    <3>1. t.child[s][x] = p /\ u.color[x] = t.color[x] /\ k[x] = h[x]
      BY <1>3, <1>7, <2>2, <2>6
    <3>. QED  BY <1>6, <1>7, <2>1, <2>2, <2>6, <3>1
  <2>7. CASE x # p /\ x # o /\ ~(x = g /\ s = e)
    <3>1. t.child[s][x] # p /\ t.child[s][x] # o /\ u.color[x] = t.color[x] /\ k[x] = h[x]
      BY <1>3, <1>7, <2>2, <2>7
    <3>. QED  BY <1>3, <1>7, <2>1, <2>2, <2>7, <3>1
  <2>. QED  BY <1>2, <2>3, <2>4, <2>5, <2>6, <2>7
<1>9. Heights(u, k, g, e)
  BY <1>7, <1>8 DEF Heights, Painted
<1>. QED  BY <1>9 DEF HasHeights

\* u is t with the colours of g and of its two children exchanged.
Recoloured(t, u, g) ==
    /\ Painted(t, u)
    /\ \A x \in t.nodes : u.color[x] =
         IF x = g THEN RED ELSE IF \E s \in Side : x = t.child[s][g] THEN BLACK ELSE t.color[x]

\* A black node and its two red children exchange colours.
LEMMA RecolouredHeights ==
    ASSUME NEW t \in Tree, WF(t), NEW g \in t.nodes, t.color[g] = BLACK,
           \A s \in Side : t.child[s][g] # Nil /\ t.color[t.child[s][g]] = RED,
           NEW u, Recoloured(t, u, g), HasHeights(t, Nil, "left")
    PROVE  HasHeights(u, Nil, "left")
<1>1. PICK h : Heights(t, h, Nil, "left")
  BY DEF HasHeights
<1>2. Nil \notin t.nodes /\ t.nodes \subseteq Node
  BY RBAssumption DEF Tree
<1>. DEFINE C == {t.child[s][g] : s \in Side}
<1>3. C \subseteq t.nodes /\ g \notin C
  BY LinksAt, Distinct
<1>4. \A x \in t.nodes, s \in Side : (t.child[s][x] \in C <=> x = g) /\ t.child[s][x] \in Ptr
  <2>. TAKE x \in t.nodes, s \in Side
  <2>1. \A y \in C : y # Nil /\ t.parent[y] = g
    BY LinksAt
  <2>2. t.child[s][x] # Nil => t.parent[t.child[s][x]] = x
    BY LinksAt
  <2>. QED  BY <2>1, <2>2, LinksAt
<1>5. \A x \in t.nodes : u.color[x] = IF x = g THEN RED ELSE IF x \in C THEN BLACK ELSE t.color[x]
  BY DEF Recoloured
<1>6. \A x \in C : t.color[x] = RED
  OBVIOUS
<1>. HIDE DEF C
<1>. DEFINE k == [m \in Ptr |-> IF m \in C THEN h[m] + 1 ELSE h[m]]
<1>7. /\ k \in [Ptr -> Nat] /\ k[Nil] = 0
      /\ \A m \in Ptr : k[m] = (IF m \in C THEN h[m] + 1 ELSE h[m]) /\ h[m] \in Nat
  BY <1>1, <1>2, <1>3, RBAssumption DEF Heights, Ptr
<1>. HIDE DEF k
<1>8. ASSUME NEW x \in t.nodes, NEW s \in Side
      PROVE  k[x] = u.color[x] + k[u.child[s][x]] + (IF x = Nil /\ s = "left" THEN 1 ELSE 0)
  <2>1. h[x] = t.color[x] + h[t.child[s][x]] + (IF x = Nil /\ s = "left" THEN 1 ELSE 0)
    BY <1>1 DEF Heights
  <2>2. t.color[x] \in {0, 1} /\ x \in Ptr /\ x # Nil /\ t.child[s][x] \in Ptr
        /\ u.child[s][x] = t.child[s][x]
    BY <1>2, <1>4 DEF Tree, RED, BLACK, Ptr, Painted, Recoloured
  <2>3. CASE x = g
    <3>1. t.child[s][x] \in C /\ x \notin C /\ t.color[x] = 1 /\ u.color[x] = 0
      BY <1>3, <1>4, <1>5, <2>3 DEF RED, BLACK
    <3>. QED  BY <1>7, <2>1, <2>2, <3>1
  <2>4. CASE x \in C
    <3>1. t.child[s][x] \notin C /\ t.color[x] = 0 /\ u.color[x] = 1
      BY <1>3, <1>4, <1>5, <1>6, <2>4 DEF RED, BLACK
    <3>. QED  BY <1>7, <2>1, <2>2, <2>4, <3>1
  <2>5. CASE x # g /\ x \notin C
    <3>1. t.child[s][x] \notin C /\ u.color[x] = t.color[x]
      BY <1>4, <1>5, <2>5
    <3>. QED  BY <1>7, <2>1, <2>2, <2>5, <3>1
  <2>. QED  BY <2>3, <2>4, <2>5
<1>9. Heights(u, k, Nil, "left")
  BY <1>7, <1>8 DEF Heights, Painted, Recoloured
<1>. QED  BY <1>9 DEF HasHeights

\* After that the only red node that may have a red parent is g.
LEMMA RecolouredNoRedRed ==
    ASSUME NEW t \in Tree, WF(t), NEW g \in t.nodes, NEW n \in t.nodes,
           NEW d \in Side, t.parent[n] = t.child[d][g], t.child[d][g] # Nil,
           NEW u, Recoloured(t, u, g), NoRedRed(t, {n})
    PROVE  NoRedRed(u, {g})
<1>1. ASSUME NEW x \in t.nodes, u.color[x] = RED, u.parent[x] # Nil, u.color[u.parent[x]] = RED,
             x # g
      PROVE  FALSE
  <2>1. u.parent[x] = t.parent[x] /\ t.parent[x] \in t.nodes
    BY <1>1, LinksAt DEF Recoloured, Painted
  <2>2. t.color[x] = RED /\ \A s \in Side : x # t.child[s][g]
    BY <1>1 DEF Recoloured, RED, BLACK
  <2>3. t.parent[x] # g
    <3>1. t.parent[x] = g => \E s \in Side : t.child[s][g] = x
      BY <2>1, LinksAt
    <3>. QED  BY <2>2, <3>1
  <2>4. t.color[t.parent[x]] = RED /\ \A s \in Side : t.parent[x] # t.child[s][g]
    BY <1>1, <2>1, <2>3 DEF Recoloured, RED, BLACK
  <2>5. x = n
    BY <1>1, <2>1, <2>2, <2>4 DEF NoRedRed
  <2>. QED  BY <2>4, <2>5
<1>. QED  BY <1>1 DEF NoRedRed, Recoloured, Painted

\* A new red leaf.
LEMMA LinkedColours ==
    ASSUME NEW t \in Tree, WF(t), Coloured(t), NEW n \in Node, n \notin t.nodes,
           NEW p \in t.nodes \cup {Nil}, NEW s \in Side,
           IF p = Nil THEN t.root = Nil ELSE t.child[s][p] = Nil,
           NEW u, Linked(t, u, n, p, s),
           \A x \in Node : u.color[x] = IF x = n THEN RED ELSE t.color[x]
    PROVE  Inserting(u, n)
<1>1. /\ u.nodes = t.nodes \cup {n}
      /\ u.root = IF p = Nil THEN n ELSE t.root
      /\ \A x \in u.nodes : u.parent[x] = IF x = n THEN p ELSE t.parent[x]
      /\ \A d \in Side, x \in u.nodes : u.child[d][x] =
           IF x = n THEN Nil ELSE IF x = p /\ d = s THEN n ELSE t.child[d][x]
  BY DEF Linked
<1>2. Nil \notin t.nodes /\ t.nodes \subseteq Node /\ n # Nil
  BY RBAssumption DEF Tree
<1>3. NoRedRed(u, {n})
  <2>1. ASSUME NEW x \in t.nodes, u.color[x] = RED, u.parent[x] # Nil, u.color[u.parent[x]] = RED
        PROVE  FALSE
    <3>1. x # n /\ u.parent[x] = t.parent[x] /\ t.parent[x] \in t.nodes
      BY <1>1, <2>1, LinksAt
    <3>2. t.color[x] = RED /\ t.color[t.parent[x]] = RED /\ t.parent[x] # Nil
      BY <1>2, <2>1, <3>1
    <3>. QED  BY <3>2 DEF Coloured, NoRedRed
  <2>. QED  BY <1>1, <2>1 DEF NoRedRed
<1>4. u.root # n => IsBlack(u, u.root)
  <2>. SUFFICES ASSUME u.root # n PROVE IsBlack(u, u.root)
    OBVIOUS
  <2>1. u.root = t.root /\ t.root \in t.nodes \cup {Nil}
    BY <1>1 DEF WF, Links
  <2>. QED  BY <1>2, <2>1 DEF IsBlack, Coloured
<1>5. HasHeights(u, Nil, "left")
  <2>1. PICK h : Heights(t, h, Nil, "left")
    BY DEF Coloured, HasHeights
  <2>. DEFINE k == [m \in Ptr |-> IF m = n THEN 0 ELSE h[m]]
  <2>2. /\ k \in [Ptr -> Nat] /\ k[Nil] = 0 /\ k[n] = 0 /\ h[Nil] = 0
        /\ \A m \in Ptr : m # n => k[m] = h[m]
    BY <2>1, <1>2, RBAssumption DEF Heights, Ptr
  <2>. HIDE DEF k
  <2>3. ASSUME NEW x \in u.nodes, NEW d \in Side
        PROVE  k[x] = u.color[x] + k[u.child[d][x]] + (IF x = Nil /\ d = "left" THEN 1 ELSE 0)
    <3>1. CASE x = n
      BY <1>1, <1>2, <2>2, <3>1 DEF RED
    <3>2. CASE x # n
      <4>1. x \in t.nodes /\ u.color[x] = t.color[x] /\ k[x] = h[x] /\ x # Nil
        BY <1>1, <1>2, <2>2, <3>2 DEF Ptr
      <4>2. h[x] = t.color[x] + h[t.child[d][x]] + (IF x = Nil /\ d = "left" THEN 1 ELSE 0)
        BY <2>1, <4>1 DEF Heights
      <4>3. t.child[d][x] # n /\ t.child[d][x] \in Ptr
        BY <1>2, <4>1, LinksAt
      <4>4. k[u.child[d][x]] = h[t.child[d][x]]
        BY <1>1, <2>2, <3>2, <4>1, <4>3
      <4>. QED  BY <4>1, <4>2, <4>4
    <3>. QED  BY <3>1, <3>2
  <2>4. Heights(u, k, Nil, "left")
    BY <2>2, <2>3 DEF Heights
  <2>. QED  BY <2>4 DEF HasHeights
<1>. QED  BY <1>3, <1>4, <1>5 DEF Inserting

\* Taking out a node.  If it was red nothing else changes; if it was black the
\* paths through the child that takes its place are short.
LEMMA CutColours ==
    ASSUME NEW t \in Tree, WF(t), Coloured(t), NEW n \in t.nodes, NEW c, OnlyChild(t, n, c),
           NEW u, Cut(t, u, n, c), \A x \in u.nodes : u.color[x] = t.color[x]
    PROVE  /\ t.color[n] = RED => Coloured(u)
           /\ NoRedRed(u, {c})
           /\ u.root # c => IsBlack(u, u.root)
           /\ t.color[n] = BLACK /\ t.parent[n] = Nil => HasHeights(u, Nil, "left")
           /\ \A d \in Side : t.color[n] = BLACK /\ t.parent[n] # Nil /\ t.child[d][t.parent[n]] = n
                => HasHeights(u, t.parent[n], d)
<1>. DEFINE p == t.parent[n]
<1>1. /\ u.nodes = t.nodes \ {n}
      /\ u.root = IF p = Nil THEN c ELSE t.root
      /\ \A x \in u.nodes : u.parent[x] = IF x = c THEN p ELSE t.parent[x]
      /\ \A d \in Side, x \in u.nodes : u.child[d][x] =
           IF x = p /\ t.child[d][p] = n THEN c ELSE t.child[d][x]
  BY DEF Cut
<1>2. Nil \notin t.nodes /\ t.nodes \subseteq Node
  BY RBAssumption DEF Tree
<1>3. PICK s \in Side : t.child[s][n] = Nil /\ t.child[Opp(s)][n] = c
  BY DEF OnlyChild
<1>4. /\ Opp(s) \in Side /\ c \in t.nodes \cup {Nil} /\ c # n /\ (c # Nil => t.parent[c] = n)
      /\ p \in t.nodes \cup {Nil} /\ p # n /\ (p = Nil <=> n = t.root) /\ n # Nil
      /\ \A x \in t.nodes : t.parent[x] = n => x = c
  <2>1. \A d \in Side : d = s \/ d = Opp(s)
    BY DEF Side, Opp
  <2>2. Opp(s) \in Side
    BY OppSide
  <2>3. \A x \in t.nodes : t.parent[x] = n => \E d \in Side : t.child[d][n] = x
    BY <1>2, LinksAt
  <2>4. \A x \in t.nodes : t.parent[x] = n => x = c
    BY <1>2, <1>3, <2>1, <2>3
  <2>. QED  BY <1>2, <1>3, <2>2, <2>4, LinksAt, Distinct
<1>5. NoRedRed(u, {c}) /\ (t.color[n] = RED => NoRedRed(u, {}))
  <2>1. ASSUME NEW x \in u.nodes, u.color[x] = RED, u.parent[x] # Nil, u.color[u.parent[x]] = RED
        PROVE  x = c
    <3>. SUFFICES ASSUME x # c PROVE FALSE
      OBVIOUS
    <3>1. x \in t.nodes /\ u.parent[x] = t.parent[x] /\ t.parent[x] \in t.nodes /\ t.parent[x] # n
      BY <1>1, <1>4, <2>1, LinksAt
    <3>2. t.parent[x] \in u.nodes
      BY <1>1, <3>1
    <3>3. t.color[x] = RED /\ t.color[t.parent[x]] = RED
      BY <2>1, <3>1, <3>2
    <3>. QED  BY <1>2, <3>1, <3>3 DEF Coloured, NoRedRed
  <2>2. t.color[n] = RED /\ c # Nil => c \in u.nodes /\ u.color[c] # RED
    BY <1>1, <1>4 DEF Coloured, NoRedRed
  <2>3. ASSUME t.color[n] = RED, NEW x \in u.nodes,
               u.color[x] = RED, u.parent[x] # Nil, u.color[u.parent[x]] = RED
        PROVE  FALSE
    <3>1. x = c /\ x # Nil
      BY <1>1, <1>2, <2>1, <2>3
    <3>. QED  BY <2>2, <2>3, <3>1
  <2>. QED  BY <2>1, <2>3 DEF NoRedRed
<1>6. p # Nil => IsBlack(u, u.root)
  <2>1. p # Nil => t.root \in t.nodes /\ t.root # n
    BY <1>2, <1>4, EmptyTree DEF WF, Links
  <2>. QED  BY <1>1, <1>2, <2>1 DEF IsBlack, Coloured
<1>7. t.color[n] = RED => p # Nil
  BY <1>4 DEF Coloured, IsBlack, RED, BLACK
<1>8. PICK h : Heights(t, h, Nil, "left")
  BY DEF Coloured, HasHeights
<1>9. /\ h \in [Ptr -> Nat] /\ h[Nil] = 0
      /\ \A x \in t.nodes, d \in Side : h[x] = t.color[x] + h[t.child[d][x]]
  <2>1. \A x \in t.nodes, d \in Side :
          h[x] = t.color[x] + h[t.child[d][x]] + (IF x = Nil /\ d = "left" THEN 1 ELSE 0)
    BY <1>8 DEF Heights
  <2>2. \A x \in t.nodes, d \in Side : t.color[x] \in {0, 1} /\ t.child[d][x] \in Ptr
    BY <1>2, LinksAt DEF Tree, RED, BLACK
  <2>3. h \in [Ptr -> Nat] /\ h[Nil] = 0
    BY <1>8 DEF Heights
  <2>. QED  BY <1>2, <2>1, <2>2, <2>3
<1>10. h[n] = t.color[n] + h[c]
  BY <1>3, <1>4, <1>9
<1>11. \A x \in t.nodes, d \in Side : t.child[d][x] = n => x = p
  BY <1>4, LinksAt
<1>a. \A x \in t.nodes, d \in Side : h[t.child[d][x]] \in Nat /\ t.color[x] \in {0, 1}
  BY <1>2, <1>9, LinksAt DEF Tree, RED, BLACK
<1>b. h[c] \in Nat
  BY <1>2, <1>4, <1>9 DEF Ptr
<1>. HIDE DEF p
<1>12. t.color[n] = RED \/ p = Nil => HasHeights(u, Nil, "left")
  <2>. SUFFICES ASSUME t.color[n] = RED \/ p = Nil PROVE HasHeights(u, Nil, "left")
    OBVIOUS
  <2>1. ASSUME NEW x \in u.nodes, NEW d \in Side
        PROVE  h[x] = u.color[x] + h[u.child[d][x]] + (IF x = Nil /\ d = "left" THEN 1 ELSE 0)
    <3>1. x \in t.nodes /\ x # Nil /\ u.color[x] = t.color[x]
      BY <1>1, <1>2
    <3>2. h[x] = t.color[x] + h[t.child[d][x]]
      BY <1>9, <3>1
    <3>3. h[u.child[d][x]] = h[t.child[d][x]]
      <4>1. CASE x = p /\ t.child[d][p] = n
        BY <1>1, <1>10, <1>2, <1>b, <3>1, <4>1 DEF RED
      <4>2. CASE ~(x = p /\ t.child[d][p] = n)
        BY <1>1, <4>2
      <4>. QED  BY <4>1, <4>2
    <3>. QED  BY <1>a, <3>1, <3>2, <3>3
  <2>2. Heights(u, h, Nil, "left")
    BY <1>9, <2>1 DEF Heights
  <2>. QED  BY <2>2 DEF HasHeights
<1>13. ASSUME NEW e \in Side, t.color[n] = BLACK, p # Nil, t.child[e][p] = n
       PROVE  HasHeights(u, p, e)
  <2>0. \A d \in Side : t.child[d][p] = n => d = e
    <3>1. \A d \in Side : d = e \/ d = Opp(e)
      BY DEF Side, Opp
    <3>2. t.child[Opp(e)][p] # n
      BY <1>4, <1>13, LinksAt
    <3>. QED  BY <3>1, <3>2
  <2>1. ASSUME NEW x \in u.nodes, NEW d \in Side
        PROVE  h[x] = u.color[x] + h[u.child[d][x]] + (IF x = p /\ d = e THEN 1 ELSE 0)
    <3>1. x \in t.nodes /\ x # Nil /\ u.color[x] = t.color[x]
      BY <1>1, <1>2
    <3>2. h[x] = t.color[x] + h[t.child[d][x]]
      BY <1>9, <3>1
    <3>3. CASE x = p /\ d = e
      <4>1. u.child[d][x] = c /\ t.child[d][x] = n
        BY <1>1, <1>13, <3>3
      <4>2. h[n] = 1 + h[c]
        BY <1>10, <1>13 DEF BLACK
      <4>. QED  BY <1>a, <1>b, <3>1, <3>2, <3>3, <4>1, <4>2
    <3>4. CASE ~(x = p /\ d = e)
      <4>1. u.child[d][x] = t.child[d][x]
        BY <1>1, <2>0, <3>4
      <4>. QED  BY <1>a, <3>1, <3>2, <3>4, <4>1
    <3>. QED  BY <3>3, <3>4
  <2>2. Heights(u, h, p, e)
    BY <1>9, <2>1 DEF Heights
  <2>. QED  BY <2>2 DEF HasHeights
<1>14. t.color[n] = RED => Coloured(u)
  BY <1>5, <1>6, <1>7, <1>12 DEF Coloured
<1>15. u.root # c => IsBlack(u, u.root)
  BY <1>1, <1>6
<1>. QED  BY <1>5, <1>12, <1>13, <1>14, <1>15 DEF p

\* A node that takes over the place and the colour of another.
LEMMA ReplacedColours ==
    ASSUME NEW t \in Tree, WF(t), NEW v \in t.nodes, NEW n \in Node, n \notin t.nodes,
           NEW u, Replaced(t, u, v, n),
           \A x \in Node : u.color[x] = IF x = n THEN t.color[v] ELSE t.color[x]
    PROVE  /\ \A E : v \notin E /\ NoRedRed(t, E) => NoRedRed(u, E)
           /\ IsBlack(t, t.root) => IsBlack(u, u.root)
           /\ \A x, d : x # n /\ HasHeights(t, x, d) => HasHeights(u, IF x = v THEN n ELSE x, d)
<1>. DEFINE p == t.parent[v]
<1>1. /\ u.nodes = (t.nodes \ {v}) \cup {n}
      /\ u.root = IF p = Nil THEN n ELSE t.root
      /\ \A x \in u.nodes : u.parent[x] =
           IF x = n THEN p ELSE IF t.parent[x] = v THEN n ELSE t.parent[x]
      /\ \A d \in Side, x \in u.nodes : u.child[d][x] =
           IF x = n THEN t.child[d][v]
           ELSE IF x = p /\ t.child[d][p] = v THEN n ELSE t.child[d][x]
  BY DEF Replaced
<1>2. /\ Nil \notin t.nodes /\ t.nodes \subseteq Node /\ n # Nil /\ v # n /\ p # n /\ p # v
      /\ p \in t.nodes \cup {Nil} /\ (p = Nil <=> v = t.root) /\ v # Nil
  BY LinksAt, Distinct, RBAssumption DEF Tree
<1>a. p = t.parent[v]
  OBVIOUS
<1>. HIDE DEF p
<1>3. ASSUME NEW E, v \notin E, NoRedRed(t, E) PROVE NoRedRed(u, E)
  <2>1. ASSUME NEW x \in u.nodes, u.color[x] = RED, u.parent[x] # Nil, u.color[u.parent[x]] = RED
        PROVE  x \in E
    <3>1. CASE x = n
      <4>1. p \in t.nodes /\ t.color[v] = RED /\ t.color[p] = RED
        BY <1>1, <1>2, <2>1, <3>1
      <4>. QED  BY <1>2, <1>3, <1>a, <4>1 DEF NoRedRed
    <3>2. CASE x # n
      <4>1. x \in t.nodes /\ t.color[x] = RED /\ t.parent[x] \in t.nodes \cup {Nil}
        BY <1>1, <1>2, <2>1, <3>2, LinksAt
      <4>2. t.parent[x] # Nil /\ t.color[t.parent[x]] = RED
        BY <1>1, <1>2, <2>1, <3>2, <4>1
      <4>. QED  BY <1>3, <4>1, <4>2 DEF NoRedRed
    <3>. QED  BY <3>1, <3>2
  <2>. QED  BY <2>1 DEF NoRedRed
<1>4. IsBlack(t, t.root) => IsBlack(u, u.root)
  <2>1. t.root \in t.nodes
    BY <1>2, EmptyTree DEF WF, Links
  <2>. QED  BY <1>1, <1>2, <2>1 DEF IsBlack
<1>5. ASSUME NEW x, NEW d, x # n, HasHeights(t, x, d)
      PROVE  HasHeights(u, IF x = v THEN n ELSE x, d)
  <2>1. PICK h : Heights(t, h, x, d)
    BY <1>5 DEF HasHeights
  <2>. DEFINE k == [m \in Ptr |-> IF m = n THEN h[v] ELSE h[m]]
              z == IF x = v THEN n ELSE x
  <2>2. /\ k \in [Ptr -> Nat] /\ k[Nil] = 0 /\ k[n] = h[v]
        /\ \A m \in Ptr : m # n => k[m] = h[m]
    BY <2>1, <1>2, RBAssumption DEF Heights, Ptr
  <2>. HIDE DEF k
  <2>3. ASSUME NEW m \in u.nodes, NEW e \in Side
        PROVE  k[m] = u.color[m] + k[u.child[e][m]] + (IF m = z /\ e = d THEN 1 ELSE 0)
    <3>1. CASE m = n
      <4>1. h[v] = t.color[v] + h[t.child[e][v]] + (IF v = x /\ e = d THEN 1 ELSE 0)
        BY <2>1 DEF Heights
      <4>2. t.child[e][v] # n /\ t.child[e][v] \in Ptr
        BY <1>2, LinksAt
      <4>3. k[u.child[e][m]] = h[t.child[e][v]] /\ u.color[m] = t.color[v]
        BY <1>1, <2>2, <3>1, <4>2
      <4>4. (m = z) = (v = x)
        BY <1>5, <3>1
      <4>. QED  BY <2>2, <3>1, <4>1, <4>3, <4>4
    <3>2. CASE m # n
      <4>1. m \in t.nodes /\ m # v /\ u.color[m] = t.color[m] /\ k[m] = h[m]
        BY <1>1, <1>2, <2>2, <3>2 DEF Ptr
      <4>2. h[m] = t.color[m] + h[t.child[e][m]] + (IF m = x /\ e = d THEN 1 ELSE 0)
        BY <2>1, <4>1 DEF Heights
      <4>3. t.child[e][m] # n /\ t.child[e][m] \in Ptr /\ (t.child[e][m] = v => m = p)
        BY <1>2, <1>a, <4>1, LinksAt
      <4>4. k[u.child[e][m]] = h[t.child[e][m]]
        BY <1>1, <2>2, <3>2, <4>3
      <4>5. (m = z) = (m = x)
        BY <3>2, <4>1
      <4>. QED  BY <4>1, <4>2, <4>4, <4>5
    <3>. QED  BY <3>1, <3>2
  <2>4. Heights(u, k, z, d)
    BY <2>2, <2>3 DEF Heights
  <2>. QED  BY <2>4 DEF HasHeights
<1>. QED  BY <1>3, <1>4, <1>5

-----------------------------------------------------------------------------
(* rb_insert_color.                                                         *)

\* The second rotation: the red node top, below the black g on side d, comes up
\* with its red child bot.
LEMMA InsertOuter ==
    ASSUME NEW t \in Tree, WF(t), NEW g \in t.nodes, NEW d \in Side,
           NEW top \in t.nodes, t.child[d][g] = top, NEW bot \in t.nodes, t.child[d][top] = bot,
           t.color[g] = BLACK, t.color[top] = RED, t.color[bot] = RED,
           IsBlack(t, t.child[Opp(d)][g]), IsBlack(t, t.root),
           NoRedRed(t, {bot}), HasHeights(t, Nil, "left")
    PROVE  Inserting(Rotate(Paint(Paint(t, top, BLACK), g, RED), g, Opp(d)), bot)
<1>. DEFINE s == Opp(d)
            a == Paint(t, top, BLACK)
            b == Paint(a, g, RED)
            u == Rotate(b, g, s)
<1>1. s \in Side /\ Opp(s) = d /\ s # d
  BY OppSide
<1>2. top \in Ptr /\ g \in Ptr /\ top # Nil /\ bot # Nil /\ top # g /\ bot # top /\ bot # g
      /\ t.nodes \subseteq Node /\ t.parent[bot] = top
  BY LinksAt, Distinct DEF Tree
<1>. HIDE DEF s
<1>3. Painted(t, a) /\ a \in Tree /\ \A x \in Node : a.color[x] = IF x = top THEN BLACK ELSE t.color[x]
  BY <1>2, PaintPainted DEF Painted
<1>. HIDE DEF a
<1>4. Painted(t, b) /\ b \in Tree /\ \A x \in Node : b.color[x] = IF x = g THEN RED ELSE a.color[x]
  BY <1>2, <1>3, PaintPainted
<1>. HIDE DEF b
<1>5. \A x \in t.nodes : b.color[x] =
        IF x = g THEN t.color[top]
        ELSE IF x = top THEN t.color[g]
        ELSE IF x = Nil THEN BLACK ELSE t.color[x]
  BY <1>1, <1>2, <1>3, <1>4, LinksAt
<1>6. top \in t.nodes /\ Down(t, Opp(s), g) = top
  BY <1>1, <1>2 DEF Down
<1>7. Swapped(t, u, g, s, Nil)
  BY <1>1, <1>4, <1>5, <1>6, RotateSwapped
<1>. HIDE DEF u
<1>8. HasHeights(u, Nil, "left")
  <2>1. Nil # top /\ Nil # g
    BY <1>2, LinksAt
  <2>. QED  BY <1>1, <1>6, <1>7, <2>1, TurnRedHeights
<1>9. IsBlack(t, Down(t, s, top))
  <2>1. t.child[s][top] # Nil => t.child[s][top] \in t.nodes /\ t.parent[t.child[s][top]] = top
    BY <1>1, LinksAt
  <2>2. t.child[s][top] # bot
    BY <1>1, <1>2, LinksAt
  <2>3. t.child[s][top] # Nil => t.color[t.child[s][top]] \in {RED, BLACK}
    BY <1>2, <2>1 DEF Tree
  <2>. QED  BY <1>2, <2>1, <2>2, <2>3 DEF NoRedRed, IsBlack, Down
<1>10. IsBlack(t, Down(t, s, g))
  BY DEF s, Down
<1>11. NoRedRed(u, {bot})
  BY <1>1, <1>6, <1>7, <1>9, <1>10, TurnRedNoRedRed
<1>12. IsBlack(u, u.root)
  BY <1>1, <1>6, <1>7, SwappedRoot
<1>13. u.color[bot] = RED
  BY <1>2, <1>6, <1>7 DEF Swapped, Down
<1>. QED  BY <1>8, <1>11, <1>12, <1>13 DEF Inserting, u, b, a, s

\* A routine stores tree u below root r.
LEMMA StoreColorInv ==
    ASSUME ColorInv, LinksInv', NEW r \in Root, NEW u, trees' = [trees EXCEPT ![r] = u],
           pc = "idle" \/ r = cur,
           \/ pc' = "idle" /\ Coloured(u)
           \/ pc' = "insert_color" /\ cur' = r /\ Inserting(u, node')
           \/ pc' = "erase_color" /\ cur' = r /\ Erasing(u, node', par')
    PROVE  ColorInv'
<1>1. trees'[r] = u /\ \A q \in Root \ {r} : trees'[q] = trees[q] /\ Coloured(trees[q])
  BY DEF ColorInv, LinksInv, TypeInv, TypeOK
<1>2. CASE pc' = "idle" /\ Coloured(u)
  BY <1>1, <1>2 DEF ColorInv
<1>3. CASE pc' = "insert_color" /\ cur' = r /\ Inserting(u, node')
  <2>1. T' = u
    BY <1>1, <1>3 DEF T
  <2>. QED  BY <1>1, <1>3, <2>1 DEF ColorInv
<1>4. CASE pc' = "erase_color" /\ cur' = r /\ Erasing(u, node', par')
  <2>1. T' = u
    BY <1>1, <1>4 DEF T
  <2>. QED  BY <1>1, <1>4, <2>1 DEF ColorInv
<1>. QED  BY <1>2, <1>3, <1>4

\* At the head of the loop of rb_insert_color the red parent is not the root,
\* so there is a grandparent, and it is black.
LEMMA InsertHead ==
    ASSUME ColorInv, pc = "insert_color", InsertLoop
    PROVE  /\ cur \in Root /\ T \in Tree /\ WF(T) /\ Inserting(T, node) /\ IsBlack(T, T.root)
           /\ node \in T.nodes /\ parent \in T.nodes /\ gparent \in T.nodes /\ gparent # Nil
           /\ node # Nil /\ parent # Nil /\ parent # node /\ gparent # parent /\ gparent # node
           /\ T.parent[node] = parent /\ T.parent[parent] = gparent
           /\ T.color[node] = RED /\ T.color[parent] = RED /\ T.color[gparent] = BLACK
           /\ pside \in Side /\ Opp(pside) \in Side /\ T.child[pside][gparent] = parent
           /\ uncle = T.child[Opp(pside)][gparent] /\ uncle \in Ptr /\ uncle # parent
<1>1. cur \in Root /\ T \in Tree /\ WF(T) /\ node \in T.nodes /\ Inserting(T, node)
  BY WorksOn DEF ColorInv, LinksInv
<1>2. parent \in T.nodes /\ T.parent[node] = parent /\ node # Nil /\ parent # Nil
      /\ parent # node /\ T.color[parent] = RED /\ node # T.root
  BY <1>1, LinksAt, Distinct DEF InsertLoop, parent
<1>3. T.parent[parent] = gparent /\ gparent # parent /\ gparent # node
  <2>1. T.parent[parent] # parent
    BY <1>1, <1>2, Distinct
  <2>2. T.parent[parent] # node
    <3>1. PICK s \in Side : T.child[s][parent] = node
      BY <1>1, <1>2, LinksAt
    <3>. QED  BY <1>1, <1>2, <3>1, Distinct
  <2>. QED  BY <2>1, <2>2 DEF gparent
<1>4. IsBlack(T, T.root) /\ T.color[node] = RED
  BY <1>1, <1>2 DEF Inserting
<1>5. gparent # Nil /\ gparent \in T.nodes
  <2>1. parent # T.root
    BY <1>2, <1>4 DEF IsBlack, RED, BLACK
  <2>. QED  BY <1>1, <1>2, <1>3, <2>1, LinksAt
<1>6. T.color[gparent] = BLACK
  <2>1. T.color[gparent] \in {RED, BLACK}
    BY <1>1, <1>5 DEF Tree
  <2>2. T.color[gparent] # RED
    BY <1>1, <1>2, <1>3, <1>5 DEF Inserting, NoRedRed
  <2>. QED  BY <2>1, <2>2
<1>7. pside \in Side /\ Opp(pside) \in Side /\ T.child[pside][gparent] = parent
  <2>1. \E s \in Side : T.child[s][gparent] = parent
    BY <1>1, <1>2, <1>3, <1>5, LinksAt
  <2>2. pside \in Side
    BY DEF pside, Side
  <2>3. T.child[pside][gparent] = parent
    BY <2>1 DEF pside, Side
  <2>. QED  BY <2>2, <2>3, OppSide
<1>8. uncle = T.child[Opp(pside)][gparent] /\ uncle \in Ptr /\ uncle # parent
  <2>1. uncle = T.child[Opp(pside)][gparent]
    BY DEF uncle
  <2>2. T.child[Opp(pside)][gparent] \in Ptr /\ T.child[Opp(pside)][gparent] # T.child[pside][gparent]
    BY <1>1, <1>2, <1>5, <1>7, LinksAt
  <2>. QED  BY <1>7, <2>1, <2>2
<1>. QED  BY <1>1, <1>2, <1>3, <1>4, <1>5, <1>6, <1>7, <1>8

\* The first rotation of rb_insert_color, if there is one.
LEMMA InsertInner ==
    ASSUME ColorInv, pc = "insert_color", InsertLoop, IsBlack(T, uncle),
           T.child[Opp(pside)][parent] = node
    PROVE  LET t == Rotate(T, parent, pside) IN
           /\ t \in Tree /\ WF(t) /\ t.nodes = T.nodes
           /\ t.child[pside][gparent] = node /\ t.child[pside][node] = parent
           /\ t.color = T.color
           /\ IsBlack(t, t.child[Opp(pside)][gparent]) /\ IsBlack(t, t.root)
           /\ NoRedRed(t, {parent}) /\ HasHeights(t, Nil, "left")
<1>. DEFINE t == Rotate(T, parent, pside)
<1>1. /\ T \in Tree /\ WF(T) /\ Inserting(T, node) /\ IsBlack(T, T.root)
      /\ node \in T.nodes /\ parent \in T.nodes /\ gparent \in T.nodes
      /\ node # Nil /\ parent # node /\ gparent # parent /\ gparent # node /\ gparent # Nil
      /\ T.parent[parent] = gparent /\ T.parent[node] = parent
      /\ T.color[node] = RED /\ T.color[parent] = RED
      /\ pside \in Side /\ Opp(pside) \in Side /\ T.child[pside][gparent] = parent
      /\ uncle = T.child[Opp(pside)][gparent] /\ uncle # parent
  BY InsertHead
<1>2. Painted(T, T) /\ \A x \in T.nodes : T.color[x] =
             IF x = parent THEN T.color[node] ELSE IF x = node THEN T.color[parent]
             ELSE IF x = Nil THEN BLACK ELSE T.color[x]
  BY <1>1, LinksAt DEF Painted
<1>3. T.child[Opp(pside)][parent] = node /\ Down(T, Opp(pside), parent) = node
  BY DEF Down
<1>4. Swapped(T, t, parent, pside, Nil) /\ WF(t) /\ t \in Tree
  BY <1>1, <1>2, <1>3, RotateSwapped
<1>5. t.color = T.color
  <2>1. Rotated(T, t, parent, pside)
    BY <1>1, <1>3, RotateFields
  <2>. QED  BY <2>1 DEF Rotated
<1>. HIDE DEF t
<1>6. t.nodes = T.nodes /\ t.child[pside][gparent] = node /\ t.child[pside][node] = parent
      /\ t.child[Opp(pside)][gparent] = uncle
  <2>1. Opp(pside) # pside
    BY <1>1, OppSide
  <2>. QED  BY <1>1, <1>3, <1>4, <2>1 DEF Swapped
<1>7. IsBlack(t, uncle)
  BY <1>5 DEF IsBlack
<1>8. IsBlack(t, t.root)
  BY <1>1, <1>3, <1>4, SwappedRoot
<1>9. NoRedRed(t, {parent})
  <2>1. NoRedRed(T, {node}) /\ T.parent[parent] # Nil
    BY <1>1 DEF Inserting
  <2>. QED  BY <1>1, <1>3, <1>4, <2>1, TurnInnerNoRedRed
<1>10. HasHeights(t, Nil, "left")
  <2>1. HasHeights(T, Nil, "left")
    BY <1>1 DEF Inserting
  <2>2. Nil # node /\ Nil # parent
    BY <1>1, LinksAt
  <2>. QED  BY <1>1, <1>3, <1>4, <2>1, <2>2, TurnRedHeights
<1>. QED  BY <1>4, <1>5, <1>6, <1>7, <1>8, <1>9, <1>10 DEF t

\* rb_insert_data and rb_insert_color.
LEMMA InsertColorInv == ColorInv /\ InsertStep => ColorInv'
<1>. SUFFICES ASSUME ColorInv, InsertStep PROVE ColorInv'
  OBVIOUS
<1>0. LinksInv /\ LinksInv'
  BY InsertLinksInv DEF ColorInv
<1>1. CASE InsertDescend
  <2>1. pc = "descend" /\ UNCHANGED <<trees, pc, cur, node, old>>
    BY <1>1 DEF InsertDescend
  <2>. QED  BY <1>0, <2>1 DEF ColorInv
<1>2. CASE InsertLink
  <2>. DEFINE u == rb_link_node(T, node, par, LinkSide)
  <2>1. /\ pc = "descend" /\ Link = Nil /\ SetT(u) /\ pc' = "insert_color"
        /\ cur' = cur /\ node' = node
    BY <1>2 DEF InsertLink
  <2>2. cur \in Root /\ T \in Tree /\ WF(T) /\ LinkSide \in Side /\ Coloured(T)
    BY <1>0, <2>1, WorksOn DEF LinkSide, Side, ColorInv, T
  <2>3. par \in T.nodes \cup {Nil} /\ node \notin T.nodes /\ node \in Node
    BY <1>0, <2>1, <2>2 DEF LinksInv, Unused, T, TypeInv
  <2>4. /\ Linked(T, u, node, par, LinkSide)
        /\ \A x \in Node : u.color[x] = IF x = node THEN RED ELSE T.color[x]
    BY <2>2, <2>3, LinkNodeFields
  <2>. HIDE DEF u
  <2>5. IF par = Nil THEN T.root = Nil ELSE T.child[LinkSide][par] = Nil
    BY <2>1 DEF Link
  <2>6. Inserting(u, node)
    BY <2>2, <2>3, <2>4, <2>5, LinkedColours
  <2>. QED  BY <1>0, <2>1, <2>2, <2>6, StoreColorInv DEF SetT
<1>3. CASE InsertRecolor
  <2>. DEFINE a == Paint(T, uncle, BLACK)
              b == Paint(a, parent, BLACK)
              u == Paint(b, gparent, RED)
  <2>1. /\ pc = "insert_color" /\ InsertLoop /\ ~IsBlack(T, uncle)
        /\ SetT(u) /\ node' = gparent /\ UNCHANGED <<pc, cur>>
    BY <1>3 DEF InsertRecolor
  <2>2. /\ cur \in Root /\ T \in Tree /\ WF(T) /\ Inserting(T, node) /\ IsBlack(T, T.root)
        /\ node \in T.nodes /\ parent \in T.nodes /\ gparent \in T.nodes /\ parent # Nil
        /\ gparent # parent /\ T.parent[node] = parent
        /\ T.color[parent] = RED /\ T.color[gparent] = BLACK
        /\ pside \in Side /\ Opp(pside) \in Side /\ T.child[pside][gparent] = parent
        /\ uncle = T.child[Opp(pside)][gparent] /\ uncle \in Ptr /\ uncle # parent
    BY <2>1, InsertHead
  <2>3. uncle # Nil /\ T.color[uncle] = RED /\ uncle \in T.nodes
    <3>1. uncle # Nil /\ T.color[uncle] # BLACK
      BY <2>1 DEF IsBlack
    <3>2. uncle \in T.nodes
      BY <2>2, <3>1, LinksAt
    <3>. QED  BY <2>2, <3>1, <3>2 DEF Tree
  <2>4. T.nodes \subseteq Node /\ parent \in Ptr /\ gparent \in Ptr
    BY <2>2, LinksAt DEF Tree
  <2>5. Painted(T, a) /\ a \in Tree /\ \A x \in Node : a.color[x] = IF x = uncle THEN BLACK ELSE T.color[x]
    BY <2>2, PaintPainted DEF Painted
  <2>. HIDE DEF a
  <2>6. Painted(T, b) /\ b \in Tree /\ \A x \in Node : b.color[x] = IF x = parent THEN BLACK ELSE a.color[x]
    BY <2>2, <2>4, <2>5, PaintPainted
  <2>. HIDE DEF b
  <2>7. Painted(T, u) /\ \A x \in Node : u.color[x] = IF x = gparent THEN RED ELSE b.color[x]
    BY <2>2, <2>4, <2>6, PaintPainted
  <2>. HIDE DEF u
  <2>8. \A s \in Side : s = pside \/ s = Opp(pside)
    BY <2>2 DEF Side, Opp
  <2>9. \A x \in T.nodes : (\E s \in Side : x = T.child[s][gparent]) <=> x = parent \/ x = uncle
    BY <2>2, <2>8
  <2>10. Recoloured(T, u, gparent)
    BY <2>4, <2>5, <2>6, <2>7, <2>9 DEF Recoloured
  <2>11. HasHeights(u, Nil, "left")
    <3>1. HasHeights(T, Nil, "left")
      BY <2>2 DEF Inserting
    <3>2. \A s \in Side : T.child[s][gparent] # Nil /\ T.color[T.child[s][gparent]] = RED
      BY <2>2, <2>3, <2>8
    <3>. QED  BY <2>2, <2>10, <3>1, <3>2, RecolouredHeights
  <2>12. NoRedRed(u, {gparent})
    <3>1. NoRedRed(T, {node})
      BY <2>2 DEF Inserting
    <3>2. T.parent[node] = T.child[pside][gparent] /\ T.child[pside][gparent] # Nil
      BY <2>2
    <3>. QED  BY <2>2, <2>10, <3>1, <3>2, RecolouredNoRedRed
  <2>13. u.root # gparent => IsBlack(u, u.root)
    <3>1. u.root = T.root /\ T.root \in T.nodes \cup {Nil}
      BY <2>2, <2>7 DEF Painted, WF, Links
    <3>. QED  BY <2>2, <2>10, <3>1 DEF IsBlack, Recoloured
  <2>14. u.color[gparent] = RED
    BY <2>2, <2>10 DEF Recoloured
  <2>15. Inserting(u, gparent)
    BY <2>11, <2>12, <2>13, <2>14 DEF Inserting
  <2>. QED  BY <1>0, <2>1, <2>2, <2>15, StoreColorInv DEF SetT
<1>4. CASE InsertRotate
  <2>. DEFINE inner == T.child[Opp(pside)][parent] = node
              t1 == IF inner THEN Rotate(T, parent, pside) ELSE T
              top == IF inner THEN node ELSE parent
              bot == IF inner THEN parent ELSE node
              u  == Rotate(Paint(Paint(t1, top, BLACK), gparent, RED), gparent, Opp(pside))
  <2>1. /\ pc = "insert_color" /\ InsertLoop /\ IsBlack(T, uncle) /\ SetT(u)
        /\ node' = bot /\ UNCHANGED <<pc, cur>>
    BY <1>4 DEF InsertRotate
  <2>2. /\ cur \in Root /\ T \in Tree /\ WF(T) /\ Inserting(T, node) /\ IsBlack(T, T.root)
        /\ node \in T.nodes /\ parent \in T.nodes /\ gparent \in T.nodes
        /\ node # Nil /\ parent # Nil /\ T.parent[node] = parent
        /\ T.color[node] = RED /\ T.color[parent] = RED /\ T.color[gparent] = BLACK
        /\ pside \in Side /\ Opp(pside) \in Side /\ T.child[pside][gparent] = parent
        /\ uncle = T.child[Opp(pside)][gparent]
    BY <2>1, InsertHead
  <2>3. /\ t1 \in Tree /\ WF(t1) /\ t1.nodes = T.nodes
        /\ t1.child[pside][gparent] = top /\ t1.child[pside][top] = bot
        /\ t1.color = T.color
        /\ IsBlack(t1, t1.child[Opp(pside)][gparent]) /\ IsBlack(t1, t1.root)
        /\ NoRedRed(t1, {bot}) /\ HasHeights(t1, Nil, "left")
    <3>1. CASE inner
      <4>. DEFINE t == Rotate(T, parent, pside)
      <4>1. /\ t \in Tree /\ WF(t) /\ t.nodes = T.nodes
            /\ t.child[pside][gparent] = node /\ t.child[pside][node] = parent
            /\ t.color = T.color
            /\ IsBlack(t, t.child[Opp(pside)][gparent]) /\ IsBlack(t, t.root)
            /\ NoRedRed(t, {parent}) /\ HasHeights(t, Nil, "left")
        BY <2>1, <3>1, InsertInner
      <4>2. t1 = t /\ top = node /\ bot = parent
        BY <3>1
      <4>. HIDE DEF t, t1, top, bot
      <4>. QED  BY <4>1, <4>2
    <3>2. CASE ~inner
      <4>1. t1 = T /\ top = parent /\ bot = node
        BY <3>2
      <4>2. \E s \in Side : T.child[s][parent] = node
        BY <2>2, LinksAt
      <4>3. \A s \in Side : s = pside \/ s = Opp(pside)
        BY <2>2 DEF Side, Opp
      <4>4. T.child[pside][parent] = node
        BY <3>2, <4>2, <4>3
      <4>. HIDE DEF t1, top, bot
      <4>. QED  BY <2>1, <2>2, <4>1, <4>4 DEF Inserting
    <3>. QED  BY <3>1, <3>2
  <2>4. top \in T.nodes /\ bot \in T.nodes /\ T.color[top] = RED /\ T.color[bot] = RED
    BY <2>2
  <2>. HIDE DEF t1, top, bot
  <2>5. /\ t1 \in Tree /\ WF(t1) /\ gparent \in t1.nodes /\ pside \in Side
        /\ top \in t1.nodes /\ bot \in t1.nodes
        /\ t1.color[gparent] = BLACK /\ t1.color[top] = RED /\ t1.color[bot] = RED
    BY <2>2, <2>3, <2>4
  <2>6. Inserting(u, bot)
    BY <2>3, <2>5, InsertOuter
  <2>. HIDE DEF u
  <2>. QED  BY <1>0, <2>1, <2>2, <2>6, StoreColorInv DEF SetT
<1>5. CASE InsertDone
  <2>. DEFINE u == Paint(T, T.root, BLACK)
  <2>1. pc = "insert_color" /\ ~InsertLoop /\ SetT(u) /\ pc' = "idle"
    BY <1>5 DEF InsertDone, Return
  <2>2. cur \in Root /\ T \in Tree /\ WF(T) /\ T.root \in Ptr /\ node \in T.nodes /\ Inserting(T, node)
    BY <1>0, <2>1, WorksOn DEF Tree, ColorInv, LinksInv
  <2>3. T.root # Nil /\ T.root \in T.nodes /\ T.nodes \subseteq Node
    BY <2>2, EmptyTree DEF WF, Links, Tree
  <2>4. Painted(T, u) /\ \A x \in Node : u.color[x] = IF x = T.root THEN BLACK ELSE T.color[x]
    BY <2>2, PaintPainted DEF Painted
  <2>. HIDE DEF u
  <2>5. NoRedRed(T, {})
    BY <2>1, <2>2 DEF Inserting, NoRedRed, InsertLoop, parent
  <2>6. NoRedRed(u, {})
    <3>1. \A x \in T.nodes : T.parent[x] \in T.nodes \cup {Nil}
      BY <2>2, LinksAt
    <3>. QED  BY <2>3, <2>4, <2>5, <3>1 DEF NoRedRed, Painted, RED, BLACK
  <2>7. HasHeights(u, Nil, "left")
    <3>1. HasHeights(T, Nil, "left")
      BY <2>2 DEF Inserting
    <3>2. CASE T.color[T.root] = RED
      BY <2>2, <2>3, <2>4, <3>1, <3>2, PaintRootHeights
    <3>3. CASE T.color[T.root] # RED
      <4>1. T.color[T.root] = BLACK
        BY <2>2, <2>3, <3>3 DEF Tree
      <4>2. SamePointers(T, u) /\ \A x \in T.nodes : u.color[x] = T.color[x]
        BY <2>3, <2>4, <4>1 DEF SamePointers, Painted
      <4>. QED  BY <2>2, <3>1, <4>2, SameColoured
    <3>. QED  BY <3>2, <3>3
  <2>8. Coloured(u)
    BY <2>3, <2>4, <2>6, <2>7 DEF Coloured, IsBlack, Painted
  <2>. QED  BY <1>0, <2>1, <2>2, <2>8, StoreColorInv DEF SetT
<1>. QED  BY <1>1, <1>2, <1>3, <1>4, <1>5 DEF InsertStep

-----------------------------------------------------------------------------
(* __rb_erase_color.                                                        *)

\* The head of the loop: the ways through n, the child of p on side d, are one
\* black node short, and nothing else is wrong.
ShortAt(t, n, p, d) ==
    /\ t \in Tree /\ WF(t) /\ p \in t.nodes /\ d \in Side /\ t.child[d][p] = n
    /\ IsBlack(t, n) /\ IsBlack(t, t.root) /\ NoRedRed(t, {}) /\ HasHeights(t, p, d)

\* The sibling of a node at which the ways are short is there: the ways on its
\* side have a black node more.
LEMMA ShortSibling ==
    ASSUME NEW t, NEW n, NEW p, NEW d, ShortAt(t, n, p, d)
    PROVE  LET o == t.child[Opp(d)][p]
           IN  /\ Opp(d) \in Side /\ Opp(d) # d /\ Opp(Opp(d)) = d
               /\ o # Nil /\ o \in t.nodes /\ o \in Node /\ t.parent[o] = p /\ o # n
               /\ o # p /\ n # p /\ p # Nil /\ p \in Node /\ n \in t.nodes \cup {Nil}
               /\ o # t.parent[p] /\ t.parent[p] # p /\ o # t.root
<1>. DEFINE o == t.child[Opp(d)][p]
<1>1. t \in Tree /\ WF(t) /\ p \in t.nodes /\ d \in Side /\ t.child[d][p] = n
  BY DEF ShortAt
<1>2. Opp(d) \in Side /\ Opp(d) # d /\ Opp(Opp(d)) = d
  BY <1>1 DEF Side, Opp
<1>3. p # Nil /\ p \in Node /\ n \in t.nodes \cup {Nil} /\ n \in Ptr /\ n # p /\ o # p /\ o \in Ptr
      /\ o \in t.nodes \cup {Nil} /\ (o # Nil => t.parent[o] = p)
      /\ (o # Nil => o # n) /\ (o # Nil => o # t.parent[p]) /\ t.parent[p] # p
  BY <1>1, <1>2, LinksAt, Distinct
<1>4. PICK h : Heights(t, h, p, d)
  BY DEF ShortAt, HasHeights
<1>. HIDE DEF o
<1>6. t.color[p] \in {0, 1}
  BY <1>1, <1>3 DEF Tree, RED, BLACK
<1>5. /\ h[p] = t.color[p] + h[n] + 1 /\ h[p] = t.color[p] + h[o]
      /\ h[Nil] = 0 /\ h[n] \in Nat /\ h[o] \in Nat
  <2>1. h \in [Ptr -> Nat] /\ h[Nil] = 0
    BY <1>4 DEF Heights
  <2>2. h[p] = t.color[p] + h[n] + 1 /\ h[p] = t.color[p] + h[o] + 0
    BY <1>1, <1>2, <1>4 DEF Heights, o
  <2>. QED  BY <1>3, <1>6, <2>1, <2>2
<1>7. o # Nil
  BY <1>5, <1>6
<1>8. o # t.root
  BY <1>1, <1>3, <1>7, LinksAt
<1>. QED  BY <1>2, <1>3, <1>7, <1>8, LinksAt, <1>1 DEF o

\* The loop starts an iteration in such a state, on the side that the code finds
\* by a comparison of pointers.
LEMMA EraseHead ==
    ASSUME ColorInv, pc = "erase_color", EraseLoop
    PROVE  cur \in Root /\ ShortAt(T, node, par, side)
<1>1. cur \in Root /\ T \in Tree /\ WF(T) /\ Erasing(T, node, par)
  BY WorksOn DEF ColorInv
<1>2. IsBlack(T, node) /\ node # T.root
  BY DEF EraseLoop
<1>3. par \in T.nodes
  BY <1>2 DEF ColorInv, LinksInv, ShortBelowPar
<1>4. PICK d \in Side : T.child[d][par] = node /\ HasHeights(T, par, d)
  BY <1>1, <1>2 DEF Erasing
<1>5. side = d
  <2>. SUFFICES ASSUME side # d PROVE FALSE
    OBVIOUS
  <2>1. T.child["left"][par] = node /\ T.child["right"][par] = node /\ d = "right"
    BY <1>4 DEF side, Side
  <2>2. "left" \in Side /\ "right" \in Side /\ Opp("left") = "right"
    BY DEF Side, Opp
  <2>3. node = Nil
    BY <1>1, <1>3, <2>1, <2>2, LinksAt
  <2>4. PICK h : Heights(T, h, par, d)
    BY <1>4 DEF HasHeights
  <2>5. h[par] = T.color[par] + h[Nil] + 1 /\ h[par] = T.color[par] + h[Nil] + 0 /\ h[Nil] = 0
    BY <1>3, <2>1, <2>2, <2>3, <2>4 DEF Heights
  <2>6. T.color[par] \in {0, 1}
    BY <1>1, <1>3 DEF Tree, RED, BLACK
  <2>. QED  BY <2>5, <2>6
<1>6. NoRedRed(T, {})
  <2>1. NoRedRed(T, {x \in T.nodes : x = node \/ T.parent[x] = node})
    BY <1>1 DEF Erasing
  <2>2. \A x \in T.nodes : x # Nil
    BY <1>1, LinksAt
  <2>. QED  BY <1>2, <2>1, <2>2 DEF NoRedRed, IsBlack, RED, BLACK
<1>7. IsBlack(T, T.root)
  BY <1>1, <1>2 DEF Erasing
<1>. QED  BY <1>1, <1>2, <1>3, <1>4, <1>5, <1>6, <1>7 DEF ShortAt

\* A red sibling is rotated above p; its inner child, which is black, becomes the
\* sibling.
LEMMA SiblingUp ==
    ASSUME NEW t, NEW n, NEW p, NEW d, ShortAt(t, n, p, d), NEW o, Down(t, Opp(d), p) = o,
           ~IsBlack(t, o)
    PROVE  LET u == Rotate(Paint(Paint(t, o, BLACK), p, RED), p, d)
           IN  ShortAt(u, n, p, d) /\ IsBlack(u, Down(u, Opp(d), p)) /\ u.nodes = t.nodes
<1>. DEFINE a == Paint(t, o, BLACK)
            b == Paint(a, p, RED)
            u == Rotate(b, p, d)
            inner == Down(t, d, o)
<1>1. /\ t \in Tree /\ WF(t) /\ p \in t.nodes /\ d \in Side /\ t.child[d][p] = n
      /\ IsBlack(t, n) /\ IsBlack(t, t.root) /\ NoRedRed(t, {}) /\ HasHeights(t, p, d)
  BY DEF ShortAt
<1>2. /\ Opp(d) \in Side /\ Opp(d) # d
      /\ o # Nil /\ o \in t.nodes /\ o \in Node /\ t.parent[o] = p /\ o # n
      /\ o # p /\ n # p /\ p # Nil /\ p \in Node /\ n \in t.nodes \cup {Nil}
      /\ o # t.parent[p] /\ t.parent[p] # p
  BY ShortSibling DEF Down
<1>3. o \in Ptr /\ p \in Ptr
  BY <1>2 DEF Ptr
<1>4. t.color[o] = RED
  BY <1>1, <1>2 DEF IsBlack, Tree
<1>5. t.color[p] = BLACK
  BY <1>1, <1>2, <1>4 DEF NoRedRed, Tree
<1>6. inner \in t.nodes \cup {Nil} /\ inner # o /\ inner # p /\ (inner # Nil => t.parent[inner] = o)
  BY <1>1, <1>2, LinksAt, Distinct DEF Down
<1>a. inner = Down(t, d, o)
  OBVIOUS
<1>. HIDE DEF inner
<1>7. IsBlack(t, inner)
  <2>1. t.nodes \subseteq Node
    BY <1>1 DEF Tree
  <2>. QED  BY <1>1, <1>2, <1>4, <1>6, <2>1 DEF NoRedRed, IsBlack, Tree
<1>8. Painted(t, a) /\ a \in Tree /\ \A x \in Node : a.color[x] = IF x = o THEN BLACK ELSE t.color[x]
  BY <1>1, <1>3, PaintPainted DEF Painted
<1>. HIDE DEF a
<1>9. Painted(t, b) /\ b \in Tree /\ \A x \in Node : b.color[x] = IF x = p THEN RED ELSE a.color[x]
  BY <1>1, <1>3, <1>8, PaintPainted
<1>. HIDE DEF b
<1>10. \A x \in t.nodes : b.color[x] =
          IF x = p THEN t.color[o]
          ELSE IF x = o THEN t.color[p]
          ELSE IF x = Nil THEN BLACK ELSE t.color[x]
  <2>1. \A x \in t.nodes : x \in Node /\ x # Nil
    BY <1>1, LinksAt
  <2>. QED  BY <1>4, <1>5, <1>8, <1>9, <2>1
<1>11. Swapped(t, u, p, d, Nil) /\ WF(u) /\ u \in Tree
  BY <1>1, <1>2, <1>9, <1>10, RotateSwapped
<1>. HIDE DEF u
<1>12. u.nodes = t.nodes /\ Down(u, Opp(d), p) = inner /\ u.child[d][p] = n
  BY <1>1, <1>2, <1>11, <1>a DEF Swapped, Down
<1>13. IsBlack(u, inner) /\ IsBlack(u, n)
  <2>1. \A x \in t.nodes : x # p /\ x # o /\ x # Nil => u.color[x] = t.color[x]
    BY <1>11 DEF Swapped, Down
  <2>. QED  BY <1>1, <1>2, <1>6, <1>7, <2>1 DEF IsBlack
<1>14. IsBlack(u, u.root)
  BY <1>1, <1>2, <1>11, SwappedRoot
<1>15. NoRedRed(u, {})
  <2>1. IsBlack(t, Down(t, d, o)) /\ IsBlack(t, Down(t, d, p))
    BY <1>1, <1>7, <1>a DEF Down
  <2>. QED  BY <1>1, <1>2, <1>4, <1>5, <1>11, <2>1, TurnRedNoRedRed
<1>16. HasHeights(u, p, d)
  <2>1. p # o /\ ~(p = p /\ d = Opp(d))
    BY <1>2
  <2>. QED  BY <1>1, <1>2, <1>4, <1>11, <2>1, TurnRedHeights
<1>17. ShortAt(u, n, p, d)
  BY <1>1, <1>11, <1>12, <1>13, <1>14, <1>15, <1>16 DEF ShortAt
<1>. QED  BY <1>12, <1>13, <1>17 DEF u, b, a

\* What the loop knows of the sibling after its first test.
LEMMA BlackSiblingShort ==
    ASSUME ColorInv, pc = "erase_color", EraseLoop
    PROVE  LET t == BlackSibling
           IN  ShortAt(t, node, par, side) /\ IsBlack(t, Down(t, Opp(side), par))
<1>. DEFINE o == Down(T, Opp(side), par)
<1>1. ShortAt(T, node, par, side)
  BY EraseHead
<1>a. BlackSibling = IF ~IsBlack(T, o)
                     THEN Rotate(Paint(Paint(T, o, BLACK), par, RED), par, side) ELSE T
  BY DEF BlackSibling, Down
<1>b. o = Down(T, Opp(side), par)
  OBVIOUS
<1>. HIDE DEF o
<1>2. CASE IsBlack(T, o)
  <2>1. BlackSibling = T
    BY <1>2, <1>a
  <2>. QED  BY <1>1, <1>2, <1>b, <2>1
<1>3. CASE ~IsBlack(T, o)
  <2>. DEFINE u == Rotate(Paint(Paint(T, o, BLACK), par, RED), par, side)
  <2>1. BlackSibling = u
    BY <1>3, <1>a
  <2>2. ShortAt(u, node, par, side) /\ IsBlack(u, Down(u, Opp(side), par))
    BY <1>1, <1>3, <1>b, SiblingUp
  <2>. HIDE DEF u
  <2>. QED  BY <2>1, <2>2
<1>. QED  BY <1>2, <1>3

\* The sibling turns red: now the ways through p are short, or no longer any if p
\* is the root.
LEMMA SiblingRed ==
    ASSUME NEW t, NEW n, NEW p, NEW d, ShortAt(t, n, p, d), NEW o, Down(t, Opp(d), p) = o,
           IsBlack(t, o), \A s \in Side : IsBlack(t, Down(t, s, o))
    PROVE  Erasing(Paint(t, o, RED), p, t.parent[p])
<1>. DEFINE u == Paint(t, o, RED)
<1>1. /\ t \in Tree /\ WF(t) /\ p \in t.nodes /\ d \in Side
      /\ IsBlack(t, t.root) /\ NoRedRed(t, {}) /\ HasHeights(t, p, d)
  BY DEF ShortAt
<1>2. o # Nil /\ o \in t.nodes /\ o \in Node /\ t.parent[o] = p /\ o # p /\ p # Nil /\ o # t.root
  BY ShortSibling DEF Down
<1>3. o \in Ptr /\ t.color[o] = BLACK
  BY <1>2 DEF Ptr, IsBlack
<1>4. Painted(t, u) /\ \A x \in Node : u.color[x] = IF x = o THEN RED ELSE t.color[x]
  BY <1>1, <1>3, PaintPainted DEF Painted
<1>. HIDE DEF u
<1>5. u.root = t.root /\ u.child = t.child /\ u.parent = t.parent /\ u.nodes = t.nodes /\ t.nodes \subseteq Node
  BY <1>1, <1>4 DEF Painted, Tree
<1>6. \A x \in t.nodes : t.parent[x] = o => t.color[x] = BLACK
  <2>. TAKE x \in t.nodes
  <2>1. t.parent[x] = o => \E s \in Side : Down(t, s, o) = x
    BY <1>1, <1>2, LinksAt DEF Down
  <2>2. x # Nil
    BY <1>1, LinksAt
  <2>. QED  BY <2>1, <2>2 DEF IsBlack
<1>7. \A x \in t.nodes : t.parent[x] \in t.nodes \cup {Nil}
  BY <1>1, LinksAt
<1>8. NoRedRed(u, {x \in u.nodes : x = p \/ u.parent[x] = p})
  <2>. SUFFICES ASSUME NEW x \in t.nodes, u.color[x] = RED, t.parent[x] # Nil,
                       u.color[t.parent[x]] = RED
                PROVE  t.parent[x] = p
    BY <1>5 DEF NoRedRed
  <2>1. CASE x = o
    BY <1>2, <2>1
  <2>2. CASE x # o
    <3>1. t.color[x] = RED
      BY <1>4, <1>5, <2>2
    <3>2. t.parent[x] # o
      BY <1>6, <3>1 DEF RED, BLACK
    <3>3. t.color[t.parent[x]] = RED
      BY <1>4, <1>5, <1>7, <3>2
    <3>. QED  BY <1>1, <3>1, <3>3 DEF NoRedRed
  <2>. QED  BY <2>1, <2>2
<1>9. IsBlack(u, u.root)
  <2>1. t.root \in t.nodes \cup {Nil}
    BY <1>1 DEF WF, Links
  <2>. QED  BY <1>1, <1>2, <1>4, <1>5, <2>1 DEF IsBlack
<1>b. /\ t \in Tree /\ WF(t) /\ p \in t.nodes /\ d \in Side /\ o \in t.nodes /\ o = t.child[Opp(d)][p]
      /\ t.color[o] = BLACK /\ Painted(t, u) /\ HasHeights(t, p, d)
      /\ \A x \in t.nodes : u.color[x] = IF x = o THEN RED ELSE t.color[x]
  BY <1>1, <1>2, <1>3, <1>4, <1>5 DEF Down
<1>10. CASE p = u.root
  <2>1. "left" \in Side /\ p = t.root
    BY <1>5, <1>10 DEF Side
  <2>2. HasHeights(u, Nil, "left")
    BY <1>b, <2>1, SiblingRedHeights
  <2>. QED  BY <1>8, <1>9, <1>10, <2>2 DEF Erasing, u
<1>11. CASE p # u.root
  <2>1. p # t.root /\ t.parent[p] # Nil
    BY <1>1, <1>5, <1>11, LinksAt
  <2>2. PICK e \in Side : t.child[e][t.parent[p]] = p
    BY <1>1, <2>1, LinksAt
  <2>3. HasHeights(u, t.parent[p], e)
    BY <1>b, <2>1, <2>2, SiblingRedHeights
  <2>4. u.child[e][t.parent[p]] = p
    BY <1>5, <2>2
  <2>. QED  BY <1>8, <1>9, <1>11, <2>3, <2>4 DEF Erasing, u
<1>. QED  BY <1>10, <1>11

\* The sibling is black and its far child is red.
FarRed(t, n, p, d) ==
    LET o == Down(t, Opp(d), p)
    IN  ShortAt(t, n, p, d) /\ IsBlack(t, o) /\ ~IsBlack(t, Down(t, Opp(d), o))

\* The near child of the sibling is red and the far one is not: the near one is
\* rotated above the sibling, which becomes its red far child.
LEMMA NephewUp ==
    ASSUME NEW t \in Tree, NEW n, NEW p, NEW d, ShortAt(t, n, p, d), NEW o \in t.nodes,
           o = Down(t, Opp(d), p), IsBlack(t, o), IsBlack(t, Down(t, Opp(d), o)),
           NEW m, Down(t, d, o) = m, ~IsBlack(t, m)
    PROVE  FarRed(Rotate(Paint(Paint(t, m, BLACK), o, RED), o, Opp(d)), n, p, d)
<1>. DEFINE a == Paint(t, m, BLACK)
            b == Paint(a, o, RED)
            u == Rotate(b, o, Opp(d))
<1>1. /\ t \in Tree /\ WF(t) /\ p \in t.nodes /\ d \in Side /\ t.child[d][p] = n
      /\ IsBlack(t, n) /\ IsBlack(t, t.root) /\ NoRedRed(t, {}) /\ HasHeights(t, p, d)
  BY DEF ShortAt
<1>2. /\ Opp(d) \in Side /\ Opp(d) # d /\ Opp(Opp(d)) = d
      /\ o # Nil /\ o \in t.nodes /\ o \in Node /\ t.parent[o] = p /\ o # n
      /\ o # p /\ n # p /\ p # Nil /\ p \in Node /\ n \in t.nodes \cup {Nil}
  BY ShortSibling DEF Down
<1>3. m # Nil /\ m \in t.nodes /\ m \in Node /\ t.parent[m] = o /\ m # o /\ m # p
  <2>1. m # Nil
    BY DEF IsBlack
  <2>2. m \in t.nodes /\ t.parent[m] = o
    BY <1>1, <1>2, <2>1, LinksAt DEF Down
  <2>3. m # o /\ m # p
    BY <1>1, <1>2, <2>1, Distinct DEF Down
  <2>. QED  BY <1>1, <2>1, <2>2, <2>3, LinksAt
<1>4. t.color[m] = RED /\ t.color[o] = BLACK
  BY <1>1, <1>2, <1>3 DEF IsBlack, Tree
<1>5. m # n
  BY <1>1, <1>2, <1>3, LinksAt
<1>6. IsBlack(t, Down(t, Opp(d), m))
  <2>. DEFINE f == Down(t, Opp(d), m)
  <2>1. f \in t.nodes \cup {Nil} /\ (f # Nil => t.parent[f] = m)
    BY <1>1, <1>2, <1>3, LinksAt DEF Down
  <2>2. t.nodes \subseteq Node
    BY <1>1 DEF Tree
  <2>. HIDE DEF f
  <2>3. IsBlack(t, f)
    BY <1>1, <1>3, <1>4, <2>1, <2>2 DEF NoRedRed, IsBlack, Tree
  <2>. QED  BY <2>3 DEF f
<1>a. Down(t, Opp(Opp(d)), o) = m
  BY <1>2
<1>b. o \in Ptr /\ m \in Ptr /\ t \in Tree
  BY <1>1, <1>2, <1>3 DEF Ptr
<1>7. Painted(t, t)
  BY <1>b DEF Painted
<1>8. Painted(t, a) /\ a \in Tree /\ \A x \in Node : a.color[x] = IF x = m THEN BLACK ELSE t.color[x]
  BY <1>7, <1>b, PaintPainted
<1>. HIDE DEF a
<1>9. Painted(t, b) /\ b \in Tree /\ \A x \in Node : b.color[x] = IF x = o THEN RED ELSE a.color[x]
  <2>1. t \in Tree /\ a \in Tree /\ Painted(t, a) /\ o \in Ptr /\ RED \in {RED, BLACK}
    BY <1>8, <1>b
  <2>. QED  BY <2>1, PaintPainted
<1>. HIDE DEF b
<1>10. \A x \in t.nodes : b.color[x] =
          IF x = o THEN t.color[m]
          ELSE IF x = m THEN t.color[o]
          ELSE IF x = Nil THEN BLACK ELSE t.color[x]
  <2>1. \A x \in t.nodes : x \in Node /\ x # Nil
    BY <1>1, LinksAt
  <2>. QED  BY <1>4, <1>8, <1>9, <2>1
<1>11. Swapped(t, u, o, Opp(d), Nil) /\ WF(u) /\ u \in Tree
  <2>1. /\ t \in Tree /\ WF(t) /\ o \in t.nodes /\ Opp(d) \in Side
        /\ m \in t.nodes /\ b \in Tree /\ Painted(t, b)
    BY <1>1, <1>2, <1>3, <1>9
  <2>. QED  BY <1>10, <1>a, <2>1, RotateSwapped
<1>. HIDE DEF u
<1>12. /\ u.nodes = t.nodes /\ Down(u, Opp(d), p) = m /\ Down(u, d, p) = n
       /\ Down(u, Opp(d), m) = o /\ u.color[o] = RED /\ u.color[m] = BLACK
  <2>1. u.nodes = t.nodes /\ u.color[o] = t.color[m] /\ u.color[m] = t.color[o]
    BY <1>2, <1>3, <1>11, <1>a, SwappedAt
  <2>2. \A e \in Side, x \in t.nodes : Down(u, e, x) =
             IF x = o /\ e = d THEN Down(t, Opp(d), m)
             ELSE IF x = m /\ e = Opp(d) THEN o
             ELSE IF x = p /\ Down(t, e, p) = o THEN m
             ELSE Down(t, e, x)
    BY <1>2, <1>11, <1>a, SwappedAt
  <2>3. Down(t, Opp(d), p) = o /\ Down(t, d, p) = n
    BY <1>1 DEF Down
  <2>4. Down(u, Opp(d), p) = m
    BY <1>1, <1>2, <1>3, <2>2, <2>3
  <2>5. Down(u, d, p) = n
    BY <1>1, <1>2, <1>3, <2>2, <2>3
  <2>6. Down(u, Opp(d), m) = o
    BY <1>2, <1>3, <2>2
  <2>. QED  BY <1>4, <2>1, <2>4, <2>5, <2>6
<1>13. IsBlack(u, n) /\ IsBlack(u, m)
  <2>1. \A x \in t.nodes : x # m /\ x # o /\ x # Nil => u.color[x] = t.color[x]
    BY <1>2, <1>3, <1>11, <1>a, SwappedAt
  <2>2. n # Nil => n \in t.nodes /\ n # m /\ n # o
    BY <1>2, <1>5
  <2>3. IsBlack(u, n)
    BY <1>1, <2>1, <2>2 DEF IsBlack
  <2>. QED  BY <1>12, <2>3 DEF IsBlack
<1>14. IsBlack(u, u.root)
  BY <1>1, <1>2, <1>3, <1>11, <1>a, SwappedRoot
<1>15. NoRedRed(u, {})
  BY <1>1, <1>2, <1>3, <1>4, <1>6, <1>11, <1>a, TurnRedNoRedRed
<1>16. HasHeights(u, p, d)
  <2>1. p # m /\ ~(p = o /\ d = Opp(Opp(d)))
    BY <1>2, <1>3
  <2>. QED  BY <1>1, <1>2, <1>3, <1>4, <1>11, <1>a, <2>1, TurnRedHeights
<1>17. ShortAt(u, n, p, d)
  BY <1>1, <1>11, <1>12, <1>13, <1>14, <1>15, <1>16 DEF ShortAt, Down
<1>18. ~IsBlack(u, o)
  <2>1. o # Nil /\ u.color[o] = RED /\ RED # BLACK
    BY <1>2, <1>12 DEF RED, BLACK
  <2>. QED  BY <2>1 DEF IsBlack
<1>19. FarRed(u, n, p, d)
  BY <1>12, <1>13, <1>17, <1>18 DEF FarRed
<1>. QED  BY <1>19 DEF u, b, a

\* The far child of the sibling is red: the last rotation makes up for the
\* missing black node.
LEMMA LastTurn ==
    ASSUME NEW t, NEW n, NEW p, NEW d, FarRed(t, n, p, d), NEW o, o = Down(t, Opp(d), p)
    PROVE  LET t2 == Paint(Paint(t, o, t.color[p]), p, BLACK)
           IN  Coloured(Rotate(Paint(t2, Down(t2, Opp(d), o), BLACK), p, d))
<1>. DEFINE f  == Down(t, Opp(d), o)
            k  == t.color[p]
            a  == Paint(t, o, k)
            t2 == Paint(a, p, BLACK)
            b  == Paint(t2, Down(t2, Opp(d), o), BLACK)
            u  == Rotate(b, p, d)
<1>. ShortAt(t, n, p, d) /\ IsBlack(t, o) /\ ~IsBlack(t, f)
  BY DEF FarRed
<1>1. /\ t \in Tree /\ WF(t) /\ p \in t.nodes /\ d \in Side /\ t.child[d][p] = n
      /\ IsBlack(t, t.root) /\ NoRedRed(t, {}) /\ HasHeights(t, p, d)
  BY DEF ShortAt
<1>2. /\ Opp(d) \in Side
      /\ o # Nil /\ o \in t.nodes /\ o \in Node /\ t.parent[o] = p /\ o # p /\ p \in Node
  BY ShortSibling DEF Down
<1>3. f # Nil /\ f \in t.nodes /\ f \in Node /\ f # o /\ f # p /\ f \in Ptr
  <2>1. f # Nil
    BY DEF IsBlack
  <2>2. f \in t.nodes \cup {Nil} /\ f # o /\ (f # Nil => f # t.parent[o])
    BY <1>1, <1>2, LinksAt, Distinct DEF Down
  <2>. HIDE DEF f
  <2>. QED  BY <1>2, <2>1, <2>2, LinksAt, <1>1
<1>4. t.color[f] = RED /\ t.color[o] = BLACK /\ k \in {RED, BLACK} /\ k = t.color[p]
  BY <1>1, <1>2, <1>3 DEF IsBlack, Tree
<1>a. Down(t, Opp(d), o) = f /\ o \in Ptr /\ p \in Ptr
  BY <1>2 DEF Ptr
<1>. HIDE DEF f, k
<1>5. Painted(t, a) /\ a \in Tree /\ \A x \in Node : a.color[x] = IF x = o THEN k ELSE t.color[x]
  <2>1. Painted(t, t) /\ t \in Tree /\ o \in Ptr /\ k \in {RED, BLACK}
    BY <1>1, <1>4, <1>a DEF Painted
  <2>. QED  BY <2>1, PaintPainted
<1>. HIDE DEF a
<1>6. Painted(t, t2) /\ t2 \in Tree /\ \A x \in Node : t2.color[x] = IF x = p THEN BLACK ELSE a.color[x]
  BY <1>1, <1>a, <1>5, PaintPainted
<1>. HIDE DEF t2
<1>7. Down(t2, Opp(d), o) = f
  BY <1>6, <1>a DEF Painted, Down
<1>8. Painted(t, b) /\ b \in Tree /\ \A x \in Node : b.color[x] = IF x = f THEN BLACK ELSE t2.color[x]
  BY <1>1, <1>3, <1>6, <1>7, PaintPainted
<1>. HIDE DEF b
<1>9. \A x \in t.nodes : b.color[x] =
          IF x = p THEN t.color[o]
          ELSE IF x = o THEN t.color[p]
          ELSE IF x = f THEN BLACK ELSE t.color[x]
  <2>1. \A x \in t.nodes : x \in Node
    BY <1>1, LinksAt
  <2>. QED  BY <1>2, <1>3, <1>4, <1>5, <1>6, <1>8, <2>1
<1>10. Swapped(t, u, p, d, f)
  BY <1>1, <1>2, <1>8, <1>9, RotateSwapped
<1>. HIDE DEF u
<1>11. IsBlack(u, u.root)
  BY <1>1, <1>2, <1>10, SwappedRoot
<1>12. NoRedRed(u, {})
  BY <1>1, <1>2, <1>3, <1>4, <1>10, <1>a, TurnBlackNoRedRed
<1>13. HasHeights(u, Nil, "left")
  BY <1>1, <1>2, <1>3, <1>4, <1>10, <1>a, TurnBlackHeights
<1>. QED  BY <1>11, <1>12, <1>13 DEF Coloured, u, b, t2, a, k

\* The tail of rb_erase.
LEMMA UnlinkedColorInv ==
    ASSUME ColorInv, LinksInv', NEW r \in Root, pc = "idle" \/ r = cur, NEW t \in Tree, NEW c,
           NEW p, NEW color \in {RED, BLACK}, NEW victim, Unlinked(r, t, c, p, color, victim),
           NEW u \in Tree, WF(u), u = [t EXCEPT !.nodes = @ \ {victim}],
           color = BLACK => Erasing(u, c, p), color = RED => Coloured(u)
    PROVE  ColorInv'
<1>1. CASE color = BLACK
  <2>1. /\ trees' = [trees EXCEPT ![r] = u]
        /\ pc' = "erase_color" /\ cur' = r /\ node' = c /\ par' = p
    BY <1>1 DEF Unlinked
  <2>2. Erasing(u, node', par')
    BY <1>1, <2>1
  <2>. QED  BY <2>1, <2>2, StoreColorInv
<1>2. CASE color = RED
  <2>1. trees' = [trees EXCEPT ![r] = Freed(u)] /\ pc' = "idle"
    BY <1>2 DEF Unlinked, Return, RED, BLACK
  <2>2. Coloured(Freed(u))
    BY <1>2, FreedColoured
  <2>. QED  BY <2>1, <2>2, StoreColorInv
<1>. QED  BY <1>1, <1>2

\* A node taken out that was not red leaves its child, or the missing one, at the
\* end of a short way.
LEMMA CutErasing ==
    ASSUME NEW t \in Tree, WF(t), Coloured(t), NEW n \in t.nodes, NEW c, OnlyChild(t, n, c),
           NEW u \in Tree, Cut(t, u, n, c), \A x \in u.nodes : u.color[x] = t.color[x],
           t.color[n] = BLACK
    PROVE  Erasing(u, c, t.parent[n])
<1>. DEFINE p == t.parent[n]
<1>1. NoRedRed(u, {c}) /\ (u.root # c => IsBlack(u, u.root))
      /\ (p = Nil => HasHeights(u, Nil, "left"))
      /\ \A d \in Side : p # Nil /\ t.child[d][p] = n => HasHeights(u, p, d)
  BY CutColours
<1>2. NoRedRed(u, {x \in u.nodes : x = c \/ u.parent[x] = c})
  BY <1>1 DEF NoRedRed
<1>3. p = Nil => u.root = c
  BY DEF Cut
<1>4. ASSUME p # Nil
      PROVE  c # u.root /\ \E d \in Side : u.child[d][p] = c /\ HasHeights(u, p, d)
  <2>1. p \in t.nodes /\ p # n
    BY <1>4, LinksAt, Distinct
  <2>2. PICK d \in Side : t.child[d][p] = n
    BY <1>4, LinksAt
  <2>3. p \in u.nodes /\ u.child[d][p] = c
    BY <2>1, <2>2 DEF Cut
  <2>4. WF(u)
    BY CutWF
  <2>5. u.root # Nil
    BY <2>3, <2>4, EmptyTree
  <2>6. u.root \in u.nodes /\ u.parent[u.root] = Nil
    BY <2>4, <2>5, LinksAt DEF WF, Links
  <2>7. c # Nil => u.parent[c] = p
    BY <2>3, <2>4, LinksAt
  <2>8. c # u.root
    BY <1>4, <2>5, <2>6, <2>7
  <2>. QED  BY <1>1, <1>4, <2>2, <2>3, <2>8
<1>. QED  BY <1>1, <1>2, <1>3, <1>4 DEF Erasing

\* The colours after the unlinking of a node with two children.
LEMMA SplicedColours ==
    ASSUME ColorInv, pc = "successor", cur \in Root, T \in Tree, WF(T), node \in T.nodes,
           NEW k, NEW w, NEW u, NEW e, Spliced(k, w, u, e)
    PROVE  /\ T.color[node] = RED => Coloured(u)
           /\ T.color[node] = BLACK =>
                Erasing(u, T.child["right"][node], IF T.parent[node] = old THEN node ELSE T.parent[node])
<1>. DEFINE c == T.child["right"][node]
            p == T.parent[node]
            q == IF p = old THEN node ELSE p
<1>1. /\ k \in Tree /\ WF(k) /\ k.color = T.color /\ OnlyChild(T, node, c) /\ Cut(T, k, node, c)
      /\ e \in Side /\ T.child[e][p] = node
      /\ u \in Tree /\ WF(u) /\ old \in k.nodes /\ node \notin k.nodes /\ Replaced(k, u, old, node)
      /\ \A x \in Node : u.color[x] = IF x = node THEN T.color[old] ELSE T.color[x]
      /\ c \in u.nodes \cup {Nil} /\ c # old /\ q \in u.nodes /\ u.child[e][q] = c
  BY DEF Spliced
<1>2. Coloured(T)
  BY DEF ColorInv, T
<1>3. node \in Node /\ node # Nil /\ p # node
  BY LinksAt, Distinct
<1>4. p # Nil
  <2>1. q # Nil
    BY <1>1, LinksAt
  <2>2. old # Nil
    BY <1>1, LinksAt
  <2>. QED  BY <2>1, <2>2
<1>5. \A x \in Node : u.color[x] = IF x = node THEN k.color[old] ELSE k.color[x]
  BY <1>1
<1>6. /\ \A E : old \notin E /\ NoRedRed(k, E) => NoRedRed(u, E)
      /\ IsBlack(k, k.root) => IsBlack(u, u.root)
      /\ \A x, d : x # node /\ HasHeights(k, x, d) => HasHeights(u, IF x = old THEN node ELSE x, d)
  <2>. HIDE DEF c, p, q
  <2>1. k \in Tree /\ WF(k) /\ old \in k.nodes /\ node \in Node /\ node \notin k.nodes
        /\ Replaced(k, u, old, node)
    BY <1>1, <1>3
  <2>. QED  BY <1>5, <2>1, ReplacedColours
<1>7. /\ T.color[node] = RED => Coloured(k)
      /\ NoRedRed(k, {c})
      /\ k.root # c => IsBlack(k, k.root)
      /\ T.color[node] = BLACK => HasHeights(k, p, e)
  <2>1. \A x \in k.nodes : k.color[x] = T.color[x]
    BY <1>1
  <2>2. /\ OnlyChild(T, node, c) /\ Cut(T, k, node, c) /\ e \in Side /\ T.child[e][T.parent[node]] = node
        /\ T.parent[node] # Nil
    BY <1>1, <1>4
  <2>. HIDE DEF c
  <2>3. /\ T.color[node] = RED => Coloured(k)
        /\ NoRedRed(k, {c})
        /\ k.root # c => IsBlack(k, k.root)
        /\ \A d \in Side : T.color[node] = BLACK /\ T.parent[node] # Nil /\ T.child[d][T.parent[node]] = node
             => HasHeights(k, T.parent[node], d)
    BY <1>2, <2>1, <2>2, CutColours, ZenonT(40)
  <2>. QED  BY <2>2, <2>3
<1>8. c # u.root
  <2>1. u.root # Nil
    BY <1>1, EmptyTree
  <2>2. u \in Tree /\ WF(u) /\ q \in u.nodes /\ e \in Side /\ u.child[e][q] = c
        /\ u.root \in u.nodes
    BY <1>1, <2>1 DEF WF, Links
  <2>. HIDE DEF q, c
  <2>3. u.parent[u.root] = Nil
    BY <2>2, LinksAt
  <2>4. c # Nil => u.parent[c] = q /\ q # Nil
    BY <2>2, LinksAt
  <2>. QED  BY <2>1, <2>3, <2>4
<1>9. ASSUME T.color[node] = RED PROVE Coloured(u)
  <2>1. NoRedRed(k, {}) /\ IsBlack(k, k.root) /\ HasHeights(k, Nil, "left")
    BY <1>7, <1>9 DEF Coloured
  <2>2. NoRedRed(u, {}) /\ IsBlack(u, u.root)
    BY <1>6, <2>1
  <2>3. old # Nil
    BY <1>1, LinksAt
  <2>4. HasHeights(u, Nil, "left")
    BY <1>3, <1>6, <2>1, <2>3
  <2>. QED  BY <2>2, <2>4 DEF Coloured
<1>10. ASSUME T.color[node] = BLACK PROVE Erasing(u, c, q)
  <2>1. NoRedRed(u, {c})
    BY <1>1, <1>6, <1>7
  <2>2. NoRedRed(u, {x \in u.nodes : x = c \/ u.parent[x] = c})
    BY <2>1 DEF NoRedRed
  <2>3. IsBlack(u, u.root)
    <3>1. k.root # c
      <4>1. k.root = T.root /\ T.root \in T.nodes /\ T.child["right"][node] # T.root
        <5>1. T.root # Nil
          BY EmptyTree
        <5>2. T.root \in T.nodes /\ k.root = T.root
          BY <1>1, <1>4, <5>1 DEF WF, Links, Cut
        <5>. QED  BY <5>1, <5>2, LinksAt DEF Side
      <4>. QED  BY <4>1
    <3>. QED  BY <1>6, <1>7, <3>1
  <2>4. HasHeights(u, q, e)
    BY <1>3, <1>6, <1>7, <1>10
  <2>. HIDE DEF q, c
  <2>. QED  BY <1>1, <1>8, <2>2, <2>3, <2>4 DEF Erasing
<1>. QED  BY <1>9, <1>10

\* __rb_erase_color ends by painting node black.
LEMMA DoneColoured ==
    ASSUME ColorInv, pc = "erase_color", ~EraseLoop, cur \in Root, T \in Tree, WF(T), node \in Ptr
    PROVE  Coloured(Paint(T, node, BLACK))
<1>. DEFINE u == Paint(T, node, BLACK)
<1>1. Erasing(T, node, par) /\ ShortBelowPar
  BY DEF ColorInv, LinksInv
<1>2. Painted(T, u) /\ \A x \in Node : u.color[x] = IF x = node THEN BLACK ELSE T.color[x]
  BY PaintPainted DEF Painted
<1>. HIDE DEF u
<1>3. /\ u.root = T.root /\ u.child = T.child /\ u.parent = T.parent /\ u.nodes = T.nodes
      /\ T.nodes \subseteq Node /\ Nil \notin T.nodes /\ T.root \in T.nodes \cup {Nil}
      /\ \A x \in T.nodes : T.parent[x] \in T.nodes \cup {Nil}
      /\ \A x \in T.nodes : u.color[x] = IF x = node THEN BLACK ELSE T.color[x]
  BY <1>2, LinksAt, RBAssumption DEF Painted, Tree, WF, Links
<1>4. NoRedRed(u, {})
  <2>1. NoRedRed(T, {x \in T.nodes : x = node \/ T.parent[x] = node})
    BY <1>1 DEF Erasing
  <2>. QED  BY <1>3, <2>1 DEF NoRedRed, RED, BLACK
<1>5. IsBlack(u, u.root)
  <2>1. T.root # node => IsBlack(T, T.root)
    BY <1>1 DEF Erasing
  <2>. QED  BY <1>3, <2>1 DEF IsBlack
<1>6. HasHeights(u, Nil, "left")
  <2>1. CASE node = T.root
    <3>1. HasHeights(T, Nil, "left")
      BY <1>1, <2>1 DEF Erasing
    <3>2. CASE node = Nil \/ T.color[node] = BLACK
      <4>1. SamePointers(T, u) /\ \A x \in T.nodes : u.color[x] = T.color[x]
        BY <1>2, <1>3, <3>2 DEF SamePointers, Painted
      <4>. QED  BY <3>1, <4>1, SameColoured
    <3>3. CASE node # Nil /\ T.color[node] # BLACK
      <4>1. node \in T.nodes /\ T.color[node] = RED
        BY <1>3, <2>1, <3>3 DEF Tree
      <4>. QED  BY <1>2, <1>3, <2>1, <3>1, <4>1, PaintRootHeights
    <3>. QED  BY <3>2, <3>3
  <2>2. CASE node # T.root
    <3>1. node # Nil /\ T.color[node] # BLACK
      BY <2>2 DEF EraseLoop, IsBlack
    <3>2. node \in T.nodes /\ par \in T.nodes
      BY <1>1, <2>2, <3>1 DEF ShortBelowPar
    <3>3. T.color[node] = RED
      BY <1>3, <3>1, <3>2 DEF Tree
    <3>4. PICK d \in Side : T.child[d][par] = node /\ HasHeights(T, par, d)
      BY <1>1, <2>2 DEF Erasing
    <3>. QED  BY <1>2, <1>3, <3>2, <3>3, <3>4, PaintShortHeights
  <2>. QED  BY <2>1, <2>2
<1>. QED  BY <1>4, <1>5, <1>6 DEF Coloured, u

\* rb_erase after its search for the successor, and __rb_erase_color.
LEMMA EraseColorInv == ColorInv /\ EraseStep => ColorInv'
<1>. SUFFICES ASSUME ColorInv, EraseStep PROVE ColorInv'
  OBVIOUS
<1>0. LinksInv /\ LinksInv'
  BY EraseLinksInv DEF ColorInv
<1>1. CASE EraseDescend
  <2>1. pc = "successor" /\ UNCHANGED <<trees, pc, cur, par, old>>
    BY <1>1 DEF EraseDescend
  <2>. QED  BY <1>0, <2>1 DEF ColorInv
<1>2. CASE EraseSplice
  <2>. DEFINE c == T.child["right"][node]
              q == IF T.parent[node] = old THEN node ELSE T.parent[node]
              z == T.color[node]
  <2>1. PICK k, w, u, e : Spliced(k, w, u, e)
    BY <1>0, <1>2, SpliceShape
  <2>2. w \in Tree /\ u \in Tree /\ u = [w EXCEPT !.nodes = @ \ {old}] /\ WF(u) /\ Unlinked(cur, w, c, q, z, old)
    BY <2>1 DEF Spliced
  <2>3. pc = "successor" /\ cur \in Root /\ T \in Tree /\ WF(T) /\ node \in T.nodes
    BY <1>0, <1>2, WorksOn DEF EraseSplice, LinksInv, SuccessorBelow
  <2>4. (z = RED => Coloured(u)) /\ (z = BLACK => Erasing(u, c, q))
    BY <2>1, <2>3, SplicedColours
  <2>5. z \in {RED, BLACK}
    BY <2>3, LinksAt DEF Tree
  <2>. HIDE DEF c, q, z
  <2>. QED  BY <1>0, <2>2, <2>3, <2>4, <2>5, UnlinkedColorInv
<1>3. CASE EraseRecolor
  <2>. DEFINE t == BlackSibling
              o == Down(t, Opp(side), par)
              u == Paint(t, o, RED)
  <2>1. /\ pc = "erase_color" /\ EraseLoop /\ \A s \in Side : IsBlack(t, Down(t, s, o))
        /\ SetT(u) /\ node' = par /\ par' = t.parent[par] /\ UNCHANGED <<pc, cur>>
    BY <1>3 DEF EraseRecolor, Down
  <2>2. cur \in Root /\ ShortAt(t, node, par, side) /\ IsBlack(t, o)
    BY <2>1, EraseHead, BlackSiblingShort
  <2>a. o = Down(t, Opp(side), par)
    OBVIOUS
  <2>. HIDE DEF t, o
  <2>3. Erasing(u, par, t.parent[par])
    BY <2>1, <2>2, <2>a, SiblingRed
  <2>. HIDE DEF u
  <2>4. Erasing(u, node', par') /\ pc' = "erase_color" /\ cur' = cur
    BY <2>1, <2>3
  <2>. QED  BY <1>0, <2>1, <2>2, <2>4, StoreColorInv DEF SetT
<1>4. CASE EraseRotate
  <2>. DEFINE s  == side
              t  == BlackSibling
              o  == Down(t, Opp(s), par)
              k  == Down(t, s, o)
              t1 == IF IsBlack(t, Down(t, Opp(s), o))
                    THEN Rotate(Paint(Paint(t, k, BLACK), o, RED), o, Opp(s))
                    ELSE t
              m  == Down(t1, Opp(s), par)
              t2 == Paint(Paint(t1, m, t1.color[par]), par, BLACK)
              u  == Rotate(Paint(t2, Down(t2, Opp(s), m), BLACK), par, s)
  <2>1. /\ pc = "erase_color" /\ EraseLoop /\ \E d \in Side : ~IsBlack(t, Down(t, d, o))
        /\ SetT(u) /\ node' = u.root /\ UNCHANGED <<pc, cur, par>>
    BY <1>4, Zenon DEF EraseRotate, Down
  <2>a. o = Down(t, Opp(s), par) /\ k = Down(t, s, o)
    OBVIOUS
  <2>. HIDE DEF s, t, o, k, t1, m, t2, u
  <2>2. cur \in Root /\ ShortAt(t, node, par, s) /\ IsBlack(t, o)
    BY <2>1, EraseHead, BlackSiblingShort DEF s, t, o
  <2>3. s \in Side /\ \A d \in Side : d = s \/ d = Opp(s)
    BY DEF s, side, Side, Opp
  <2>4. FarRed(t1, node, par, s)
    <3>1. CASE IsBlack(t, Down(t, Opp(s), o))
      <4>1. ~IsBlack(t, k)
        BY <2>1, <2>3, <2>a, <3>1
      <4>2. t1 = Rotate(Paint(Paint(t, k, BLACK), o, RED), o, Opp(s))
        BY <3>1 DEF t1
      <4>3. t \in Tree /\ o \in t.nodes
        BY <2>2, <2>a, ShortSibling DEF ShortAt, Down
      <4>. QED  BY <2>2, <2>a, <3>1, <4>1, <4>2, <4>3, NephewUp
    <3>2. CASE ~IsBlack(t, Down(t, Opp(s), o))
      <4>1. t1 = t
        BY <3>2 DEF t1
      <4>. QED  BY <2>2, <2>a, <3>2, <4>1 DEF FarRed
    <3>. QED  BY <3>1, <3>2
  <2>5. Coloured(u)
    BY <2>4, LastTurn DEF m, t2, u
  <2>6. Erasing(u, u.root, par)
    BY <2>5 DEF Coloured, Erasing, NoRedRed
  <2>7. Erasing(u, node', par') /\ pc' = "erase_color" /\ cur' = cur
    BY <2>1, <2>6
  <2>8. trees' = [trees EXCEPT ![cur] = u]
    BY <2>1 DEF SetT
  <2>. QED  BY <1>0, <2>2, <2>7, <2>8, StoreColorInv
<1>5. CASE EraseDone
  <2>. DEFINE u == Paint(T, node, BLACK)
  <2>1. pc = "erase_color" /\ ~EraseLoop /\ SetT(Freed(u)) /\ pc' = "idle"
    BY <1>5 DEF EraseDone, Return
  <2>2. cur \in Root /\ T \in Tree /\ WF(T) /\ node \in Ptr
    BY <1>0, <2>1, WorksOn DEF LinksInv, TypeInv, TypeOK
  <2>3. u \in Tree /\ WF(u)
    BY <2>2, PaintWF
  <2>4. Coloured(u)
    BY <2>1, <2>2, DoneColoured
  <2>. HIDE DEF u
  <2>5. Coloured(Freed(u))
    BY <2>3, <2>4, FreedColoured
  <2>. QED  BY <1>0, <2>1, <2>2, <2>5, StoreColorInv DEF SetT
<1>. QED  BY <1>1, <1>2, <1>3, <1>4, <1>5 DEF EraseStep

-----------------------------------------------------------------------------
(* The specification.                                                       *)

\* The empty trees of the initial state are red-black trees.
LEMMA InitColorInv == Init => ColorInv
<1>. SUFFICES ASSUME Init PROVE ColorInv
  OBVIOUS
<1>1. LinksInv
  BY InitLinksInv
<1>2. Coloured(RB_ROOT)
  <2>1. Heights(RB_ROOT, [m \in Ptr |-> 0], Nil, "left")
    BY DEF Heights, RB_ROOT, Ptr
  <2>2. HasHeights(RB_ROOT, Nil, "left")
    BY <2>1 DEF HasHeights
  <2>. QED  BY <2>2 DEF Coloured, NoRedRed, IsBlack, RB_ROOT
<1>. QED  BY <1>1, <1>2 DEF ColorInv, Init

\* Every step keeps the colours as they have to be.
LEMMA NextColorInv == ColorInv /\ [Next]_vars => ColorInv'
<1>. SUFFICES ASSUME ColorInv, [Next]_vars PROVE ColorInv'
  OBVIOUS
<1>0. LinksInv /\ LinksInv'
  BY NextLinksInv DEF ColorInv
<1>1. ASSUME NEW r \in Root, NEW n \in Node, rb_insert_data(r, n) PROVE ColorInv'
  <2>1. pc = "idle" /\ pc' = "descend" /\ trees' = trees
    BY <1>1 DEF rb_insert_data
  <2>. QED  BY <1>0, <2>1 DEF ColorInv
<1>2. ASSUME NEW r \in Root, NEW n \in Node, rb_erase(r, n) PROVE ColorInv'
  <2>. DEFINE t == trees[r]
              c == IF t.child["left"][n] = Nil THEN t.child["right"][n]
                                               ELSE t.child["left"][n]
              p == t.parent[n]
              z == t.color[n]
              b == Relink(SetParent(t, c, p), p, "left", n, c)
              u == [b EXCEPT !.nodes = @ \ {n}]
  <2>1. t \in Tree /\ WF(t) /\ n \in t.nodes /\ pc = "idle" /\ Coloured(t)
    BY <1>0, <1>2 DEF ColorInv, LinksInv, TypeInv, TypeOK, rb_erase
  <2>2. CASE \A s \in Side : t.child[s][n] # Nil
    <3>1. pc' = "successor" /\ trees' = trees
      BY <1>2, <2>2 DEF rb_erase
    <3>. QED  BY <1>0, <2>1, <3>1 DEF ColorInv
  <2>3. CASE ~(\A s \in Side : t.child[s][n] # Nil)
    <3>0. Unlinked(r, b, c, p, t.color[n], n)
      BY <1>2, <2>3 DEF rb_erase
    <3>1. Unlinked(r, b, c, p, z, n)
      BY <3>0, Zenon
    <3>2. OnlyChild(t, n, c)
      BY <2>3 DEF OnlyChild, Side, Opp
    <3>3. z \in {RED, BLACK}
      BY <2>1 DEF Tree
    <3>. HIDE DEF t, c
    <3>4. b \in Tree /\ b.color = t.color /\ Cut(t, u, n, c)
      BY <2>1, <3>2, EraseFields
    <3>. HIDE DEF b
    <3>5. u \in Tree /\ u = [b EXCEPT !.nodes = @ \ {n}] /\ u.color = t.color
      BY <3>4 DEF Cut, Tree
    <3>. HIDE DEF u
    <3>6. WF(u)
      BY <2>1, <3>2, <3>4, <3>5, CutWF
    <3>7. \A x \in u.nodes : u.color[x] = t.color[x]
      BY <3>5
    <3>8. z = BLACK => Erasing(u, c, p)
      <4>1. u \in Tree
        BY <3>5
      <4>. QED  BY <2>1, <3>2, <3>4, <3>7, <4>1, CutErasing
    <3>9. z = RED => Coloured(u)
      BY <2>1, <3>2, <3>4, <3>7, CutColours
    <3>. HIDE DEF p, z
    <3>. QED  BY <1>0, <2>1, <3>1, <3>3, <3>4, <3>5, <3>6, <3>8, <3>9, UnlinkedColorInv
  <2>. QED  BY <2>2, <2>3
<1>3. ASSUME NEW r \in Root, NEW v \in Node, NEW n \in Node, rb_replace_node(r, v, n)
      PROVE  ColorInv'
  <2>. DEFINE k == trees[r]
              w == Replace(k, v, n)
              u == [w EXCEPT !.nodes = (@ \ {v}) \cup {n}]
              S == (k.nodes \ {v}) \cup {n}
  <2>1. k \in Tree /\ WF(k) /\ v \in k.nodes /\ n \notin k.nodes /\ pc = "idle" /\ Coloured(k)
    BY <1>0, <1>3 DEF ColorInv, LinksInv, TypeInv, TypeOK, rb_replace_node, Unused
  <2>2. trees' = [trees EXCEPT ![r] = Freed(u)] /\ pc' = "idle"
    BY <1>3, <2>1 DEF rb_replace_node
  <2>. HIDE DEF k, w
  <2>4. /\ Replaced(k, [w EXCEPT !.nodes = S], v, n) /\ w \in Tree /\ w.nodes = k.nodes
        /\ \A x \in Node : w.color[x] = IF x = n THEN k.color[v] ELSE k.color[x]
    BY <2>1, ReplaceReplaced DEF w
  <2>5. u = [w EXCEPT !.nodes = S] /\ u.color = w.color
    BY <2>4 DEF Tree
  <2>6. Replaced(k, u, v, n) /\ \A x \in Node : u.color[x] = IF x = n THEN k.color[v] ELSE k.color[x]
    BY <2>4, <2>5
  <2>. HIDE DEF u
  <2>7. u \in Tree /\ WF(u)
    BY <2>1, <2>6, ReplacedWF DEF Replaced
  <2>8. NoRedRed(k, {}) /\ IsBlack(k, k.root) /\ HasHeights(k, Nil, "left") /\ n # Nil /\ v # Nil
    BY <2>1, LinksAt, RBAssumption DEF Coloured
  <2>9. /\ \A E : v \notin E /\ NoRedRed(k, E) => NoRedRed(u, E)
        /\ IsBlack(k, k.root) => IsBlack(u, u.root)
        /\ \A x, d : x # n /\ HasHeights(k, x, d) => HasHeights(u, IF x = v THEN n ELSE x, d)
    BY <2>1, <2>6, ReplacedColours
  <2>10. NoRedRed(u, {}) /\ IsBlack(u, u.root)
    BY <2>8, <2>9
  <2>11. HasHeights(u, Nil, "left")
    BY <2>8, <2>9
  <2>12. Coloured(Freed(u))
    BY <2>7, <2>10, <2>11, FreedColoured DEF Coloured
  <2>. QED  BY <1>0, <2>1, <2>2, <2>12, StoreColorInv
<1>4. CASE UNCHANGED vars
  BY <1>0, <1>4 DEF vars, ColorInv, T
<1>. QED  BY <1>1, <1>2, <1>3, <1>4, InsertColorInv, EraseColorInv DEF Next

\* rb_insert_color never follows a null gparent and __rb_erase_color never a null
\* parent or sibling, whatever the nodes and the calls: the colours and the black
\* heights guarantee that they are there.
THEOREM NoNullPointer == Spec => []NoNullDeref
<1>1. ColorInv => NoNullDeref
  <2>. SUFFICES ASSUME ColorInv PROVE NoNullDeref
    OBVIOUS
  <2>1. ASSUME pc = "insert_color", InsertLoop PROVE gparent # Nil
    BY <2>1, InsertHead
  <2>2. ASSUME pc = "erase_color", EraseLoop
        PROVE  CanRotate(T, par, side) /\ BlackSibling.child[Opp(side)][par] # Nil
    <3>1. T.child[Opp(side)][par] # Nil /\ BlackSibling.child[Opp(side)][par] # Nil
      BY <2>2, EraseHead, BlackSiblingShort, ShortSibling
    <3>2. par # Nil
      BY <2>2, EraseHead, ShortSibling
    <3>. QED  BY <3>1, <3>2 DEF CanRotate
  <2>. QED  BY <2>1, <2>2 DEF NoNullDeref
<1>. QED  BY <1>1, InitColorInv, NextColorInv, PTL DEF Spec

-----------------------------------------------------------------------------
(* The number of black nodes on the ways down.                              *)

\* One more iteration of the climb of Above.
Climbed(t, go, k) ==
    [p \in Ptr |-> IF k = 0 \/ p = Nil THEN {} ELSE {p} \cup go[k - 1][t.parent[p]]]

\* The recursive function in Above exists.
LEMMA AboveFunction ==
    ASSUME NEW t \in Tree, Fuel \in Nat
    PROVE  \E go : /\ go = [k \in 0..Fuel |-> Climbed(t, go, k)]
                   /\ \A n : Above(t, n) = go[Fuel][n]
<1>. DEFINE X    == [Ptr -> SUBSET Ptr]
            base == [p \in Ptr |-> {}]
            Up(g) == [p \in Ptr |-> IF p = Nil THEN {} ELSE {p} \cup g[t.parent[p]]]
            step == [g \in X |-> Up(g)]
            F    == CHOOSE go : go = [k \in 0..Fuel |-> Climbed(t, go, k)]
<1>1. \A p \in Ptr : p # Nil => t.parent[p] \in Ptr
  BY DEF Tree, Ptr
<1>2. base \in X /\ step \in [X -> X]
  <2>1. \A g \in X : Up(g) \in X
    BY <1>1
  <2>. QED  BY <2>1
<1>3. PICK f \in [0..Fuel -> X] : f[0] = base /\ \A k \in 1..Fuel : f[k] = step[f[k - 1]]
  <2>. HIDE DEF X, base, step
  <2>1. PICK f : Iterates(f, X, base, step, Fuel)
    BY <1>2, Iterate
  <2>. QED  BY <2>1 DEF Iterates
<1>4. ASSUME NEW k \in 0..Fuel PROVE f[k] = Climbed(t, f, k)
  <2>1. CASE k = 0
    BY <1>3, <2>1 DEF Climbed
  <2>2. CASE k # 0
    <3>1. k \in 1..Fuel /\ k - 1 \in 0..Fuel
      BY <2>2
    <3>2. f[k - 1] \in X
      BY <3>1
    <3>3. f[k] = Up(f[k - 1])
      BY <1>3, <3>1, <3>2
    <3>4. Climbed(t, f, k) = Up(f[k - 1])
      BY <2>2 DEF Climbed
    <3>. QED  BY <3>3, <3>4
  <2>. QED  BY <2>1, <2>2
<1>5. f = [k \in 0..Fuel |-> Climbed(t, f, k)]
  BY <1>4
<1>6. F = [k \in 0..Fuel |-> Climbed(t, F, k)]
  BY <1>5
<1>7. \A n : Above(t, n) = F[Fuel][n]
  BY DEF Above, Climbed
<1>. HIDE DEF F
<1>. QED  BY <1>6, <1>7

\* Above finds the nodes that a climb passes: it does not run out of iterations.
LEMMA AboveAnc ==
    ASSUME NEW t \in Tree, WF(t), NEW n \in t.nodes
    PROVE  Above(t, n) = Anc(t, n)
<1>1. Fuel \in Nat
  BY AncFinite
<1>2. PICK go : /\ go = [k \in 0..Fuel |-> Climbed(t, go, k)]
                /\ \A m : Above(t, m) = go[Fuel][m]
  BY <1>1, AboveFunction
<1>3. \A k \in 0..Fuel : go[k] = Climbed(t, go, k)
  BY <1>2
<1>. DEFINE P == {k \in Nat : k \in 0..Fuel => \A m \in t.nodes \cup {Nil} :
                                Cardinality(Anc(t, m)) <= k => go[k][m] = Anc(t, m)}
<1>4. t.nodes \cup {Nil} \subseteq Ptr /\ \A m \in t.nodes : m # Nil
  BY RBAssumption DEF Tree, Ptr
<1>5. \A k \in 0..Fuel : go[k][Nil] = {}
  BY <1>3, <1>4 DEF Climbed
<1>6. Anc(t, Nil) = {}
  BY AncClosed
<1>7. 0 \in P
  <2>. SUFFICES ASSUME NEW m \in t.nodes \cup {Nil}, Cardinality(Anc(t, m)) <= 0
                PROVE  go[0][m] = Anc(t, m)
    OBVIOUS
  <2>1. Cardinality(Anc(t, m)) = 0
    BY AncFinite
  <2>2. m = Nil
    BY <2>1, AncFinite
  <2>3. 0 \in 0..Fuel
    BY <1>1
  <2>. QED  BY <1>5, <1>6, <2>2, <2>3
<1>8. ASSUME NEW k \in Nat, k \in P PROVE k + 1 \in P
  <2>. SUFFICES ASSUME k + 1 \in 0..Fuel, NEW m \in t.nodes \cup {Nil},
                       Cardinality(Anc(t, m)) <= k + 1
                PROVE  go[k + 1][m] = Anc(t, m)
    OBVIOUS
  <2>1. CASE m = Nil
    BY <1>5, <1>6, <2>1
  <2>2. CASE m # Nil
    <3>1. m \in t.nodes /\ t.parent[m] \in t.nodes \cup {Nil} /\ m \in Ptr
      BY <1>4, <2>2, LinksAt
    <3>2. /\ Cardinality(Anc(t, m)) = Cardinality(Anc(t, t.parent[m])) + 1
          /\ Cardinality(Anc(t, t.parent[m])) \in Nat
      BY <2>2, <3>1, AncFinite
    <3>3. k \in 0..Fuel /\ Cardinality(Anc(t, t.parent[m])) <= k
      BY <1>1, <3>2
    <3>4. go[k][t.parent[m]] = Anc(t, t.parent[m])
      BY <1>8, <3>1, <3>3
    <3>5. go[k + 1][m] = {m} \cup go[k][t.parent[m]]
      <4>1. go[k + 1] = Climbed(t, go, k + 1) /\ (k + 1) - 1 = k /\ k + 1 # 0
        BY <1>3
      <4>. QED  BY <2>2, <3>1, <4>1 DEF Climbed
    <3>. QED  BY <3>1, <3>4, <3>5, AncStep
  <2>. QED  BY <2>1, <2>2
<1>. HIDE DEF P
<1>9. Nat \subseteq P
  BY <1>7, <1>8, NatSetInduction
<1>10. Fuel \in 0..Fuel /\ Cardinality(Anc(t, n)) <= Fuel
  BY <1>1, AncFinite
<1>. QED  BY <1>1, <1>2, <1>9, <1>10 DEF P

\* The number of black nodes above a node, itself included, and its height add up
\* to the height of the tree.
LEMMA DepthAndHeight ==
    ASSUME NEW t \in Tree, WF(t), NEW h, Heights(t, h, Nil, "left"), NEW n \in t.nodes
    PROVE  BlackDepth(t, n) + h[n] = h[t.root] + t.color[n] /\ BlackDepth(t, n) \in Nat
<1>. DEFINE B(m) == {x \in Anc(t, m) : t.color[x] = BLACK}
            D == {m \in t.nodes : Cardinality(B(m)) + h[m] # h[t.root] + t.color[m]}
<1>1. ASSUME NEW m \in t.nodes \cup {Nil} PROVE IsFiniteSet(B(m)) /\ Cardinality(B(m)) \in Nat
  <2>1. IsFiniteSet(Anc(t, m)) /\ B(m) \in SUBSET Anc(t, m)
    BY AncFinite
  <2>. HIDE DEF B
  <2>. QED  BY <2>1, FS_Subset, FS_CardinalityType
<1>2. ASSUME NEW m \in t.nodes
      PROVE  Cardinality(B(m)) = Cardinality(B(t.parent[m])) + t.color[m]
  <2>1. Anc(t, m) = {m} \cup Anc(t, t.parent[m]) /\ m \notin Anc(t, t.parent[m])
    BY AncStep, AncProper
  <2>2. t.parent[m] \in t.nodes \cup {Nil} /\ t.color[m] \in {RED, BLACK}
    BY LinksAt DEF Tree
  <2>3. IsFiniteSet(B(t.parent[m])) /\ Cardinality(B(t.parent[m])) \in Nat
    BY <1>1, <2>2
  <2>4. CASE t.color[m] = BLACK
    <3>1. B(m) = B(t.parent[m]) \cup {m} /\ m \notin B(t.parent[m])
      BY <2>1, <2>4
    <3>. HIDE DEF B
    <3>. QED  BY <2>3, <2>4, <3>1, FS_AddElement DEF BLACK
  <2>5. CASE t.color[m] = RED
    <3>1. B(m) = B(t.parent[m])
      BY <2>1, <2>5 DEF RED, BLACK
    <3>. HIDE DEF B
    <3>. QED  BY <2>3, <2>5, <3>1 DEF RED
  <2>. QED  BY <2>2, <2>4, <2>5
<1>3. Cardinality(B(Nil)) = 0
  <2>1. B(Nil) = {}
    BY AncClosed
  <2>. HIDE DEF B
  <2>. QED  BY <2>1, FS_EmptySet
<1>. HIDE DEF B
<1>4. /\ h \in [Ptr -> Nat]
      /\ \A m \in t.nodes, s \in Side : h[m] = t.color[m] + h[t.child[s][m]]
  <2>1. \A m \in t.nodes : m # Nil /\ m \in Ptr /\ t.color[m] \in Nat /\ \A s \in Side : t.child[s][m] \in Ptr
    BY LinksAt DEF Tree, RED, BLACK
  <2>. QED  BY <2>1 DEF Heights
<1>5. D = {}
  <2>. SUFFICES ASSUME D # {} PROVE FALSE
    OBVIOUS
  <2>1. PICK m \in D : t.parent[m] \notin D
    BY DEF WF, Acyclic
  <2>2. m \in t.nodes /\ m \in Ptr /\ t.color[m] \in {0, 1}
        /\ Cardinality(B(m)) + h[m] # h[t.root] + t.color[m]
    BY LinksAt DEF Tree, RED, BLACK
  <2>3. CASE t.parent[m] = Nil
    <3>1. m = t.root
      BY <2>2, <2>3, LinksAt
    <3>2. Cardinality(B(m)) = t.color[m]
      BY <1>2, <1>3, <2>2, <2>3
    <3>. QED  BY <1>4, <2>2, <3>1, <3>2
  <2>4. CASE t.parent[m] # Nil
    <3>. DEFINE p == t.parent[m]
    <3>1. p \in t.nodes /\ p \in Ptr /\ t.root \in Ptr /\ t.color[p] \in {0, 1}
      BY <2>2, <2>4, LinksAt DEF Tree, RED, BLACK
    <3>2. PICK s \in Side : t.child[s][p] = m
      BY <2>2, <2>4, LinksAt
    <3>3. Cardinality(B(p)) + h[p] = h[t.root] + t.color[p]
      BY <2>1, <3>1
    <3>4. h[p] = t.color[p] + h[m]
      BY <1>4, <3>1, <3>2
    <3>5. Cardinality(B(m)) = Cardinality(B(p)) + t.color[m] /\ Cardinality(B(p)) \in Nat
      BY <1>1, <1>2, <2>2, <3>1
    <3>6. h[p] \in Nat /\ h[m] \in Nat /\ h[t.root] \in Nat
      BY <1>4, <2>2, <3>1
    <3>. HIDE DEF p, D
    <3>. QED  BY <2>2, <3>1, <3>3, <3>4, <3>5, <3>6
  <2>. QED  BY <2>3, <2>4
<1>6. BlackDepth(t, n) = Cardinality(B(n))
  <2>1. Above(t, n) = Anc(t, n)
    BY AboveAnc
  <2>. QED  BY <2>1 DEF BlackDepth, B
<1>. QED  BY <1>1, <1>5, <1>6

\* When rb_insert_data, rb_erase and rb_replace_node have returned, every tree is
\* a red-black tree: a black root, no red node below a red one, and as many black
\* nodes on the way to one missing child as on the way to any other.
THEOREM AlwaysRedBlack == Spec => []RedBlack
<1>1. ColorInv => RedBlack
  <2>. SUFFICES ASSUME ColorInv, pc = "idle", NEW r \in Root
                PROVE  LET t    == trees[r]
                           ends == {n \in t.nodes : \E s \in Side : t.child[s][n] = Nil}
                       IN  /\ IsBlack(t, t.root)
                           /\ \A n \in t.nodes : t.color[n] = RED => IsBlack(t, t.parent[n])
                           /\ \A m, n \in ends : BlackDepth(t, m) = BlackDepth(t, n)
    BY DEF RedBlack
  <2>. DEFINE t == trees[r]
  <2>1. t \in Tree /\ WF(t) /\ Coloured(t)
    BY DEF ColorInv, LinksInv, TypeInv, TypeOK
  <2>. HIDE DEF t
  <2>2. IsBlack(t, t.root) /\ NoRedRed(t, {})
    BY <2>1 DEF Coloured
  <2>3. ASSUME NEW n \in t.nodes, t.color[n] = RED PROVE IsBlack(t, t.parent[n])
    <3>1. t.parent[n] \in t.nodes \cup {Nil}
      BY <2>1, LinksAt
    <3>. QED  BY <2>1, <2>2, <2>3, <3>1 DEF NoRedRed, IsBlack, Tree
  <2>4. PICK h : Heights(t, h, Nil, "left")
    BY <2>1 DEF Coloured, HasHeights
  <2>5. ASSUME NEW n \in t.nodes, NEW s \in Side, t.child[s][n] = Nil
        PROVE  BlackDepth(t, n) = h[t.root]
    <3>1. BlackDepth(t, n) + h[n] = h[t.root] + t.color[n] /\ BlackDepth(t, n) \in Nat
      BY <2>1, <2>4, DepthAndHeight
    <3>2. n # Nil /\ t.root \in Ptr /\ t.color[n] \in {0, 1}
      BY <2>1, LinksAt DEF Tree, RED, BLACK
    <3>3. h[Nil] = 0 /\ h[t.root] \in Nat
      BY <2>4, <3>2 DEF Heights
    <3>4. h[n] = t.color[n] + h[Nil] + 0
      BY <2>4, <2>5, <3>2 DEF Heights
    <3>. QED  BY <3>1, <3>2, <3>3, <3>4
  <2>. QED  BY <2>2, <2>3, <2>5 DEF t
<1>. QED  BY <1>1, InitColorInv, NextColorInv, PTL DEF Spec
=============================================================================
