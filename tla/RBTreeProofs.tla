---------------------------- MODULE RBTreeProofs ----------------------------
(* The types and the pointers of RBTree, for every set of nodes and every   *)
(* assignment of values.                                                    *)
EXTENDS RBTree, WellFoundedInduction, FiniteSetTheorems, TLAPS

-----------------------------------------------------------------------------
(* The field updates keep a tree a tree.                                    *)

\* The two sides are each other's opposite.
LEMMA OppSide == \A s \in Side : Opp(s) \in Side /\ Opp(s) # s /\ Opp(Opp(s)) = s
BY DEF Side, Opp

\* rb_set_parent changes one parent pointer.
LEMMA SetParentType ==
    ASSUME NEW t \in Tree, NEW n \in Ptr, NEW p \in Ptr
    PROVE  SetParent(t, n, p) \in Tree
BY DEF SetParent, Tree

\* rb_set_color changes one colour.
LEMMA PaintType ==
    ASSUME NEW t \in Tree, NEW n, NEW c \in {RED, BLACK}
    PROVE  Paint(t, n, c) \in Tree
BY DEF Paint, Tree

\* A store to a child pointer.
LEMMA SetChildType ==
    ASSUME NEW t \in Tree, NEW s \in Side, NEW n, NEW m \in Ptr
    PROVE  SetChild(t, s, n, m) \in Tree
<1>1. [t.child EXCEPT ![s] = [t.child[s] EXCEPT ![n] = m]] \in [Side -> [Node -> Ptr]]
  BY DEF Tree
<1>. QED  BY <1>1 DEF Tree, SetChild

\* A store to the root pointer.
LEMMA RootType ==
    ASSUME NEW t \in Tree, NEW m \in Ptr
    PROVE  [t EXCEPT !.root = m] \in Tree
BY DEF Tree

\* Replacing the pointer to a node.
LEMMA RelinkType ==
    ASSUME NEW t \in Tree, NEW p \in Ptr, NEW s \in Side, NEW n, NEW m \in Ptr
    PROVE  Relink(t, p, s, n, m) \in Tree
BY RootType, SetChildType, OppSide DEF Relink

\* A rotation of nodes that are there.
LEMMA RotateType ==
    ASSUME NEW t \in Tree, NEW n \in Ptr, NEW s \in Side, CanRotate(t, n, s)
    PROVE  Rotate(t, n, s) \in Tree
<1>. DEFINE up    == t.child[Opp(s)][n]
            inner == t.child[s][up]
            p     == t.parent[n]
            t1    == SetParent(SetChild(t, Opp(s), n, inner), inner, n)
            t2    == SetParent(SetChild(t1, s, up, n), up, p)
<1>1. n \in Node /\ up \in Node
  BY OppSide DEF CanRotate, Tree, Ptr
<1>2. up \in Ptr /\ inner \in Ptr /\ p \in Ptr
  BY <1>1 DEF Tree, Ptr
<1>. HIDE DEF up, inner, p
<1>3. t1 \in Tree
  BY <1>2, SetChildType, SetParentType, OppSide
<1>. HIDE DEF t1
<1>4. t2 \in Tree
  BY <1>2, <1>3, SetChildType, SetParentType
<1>. HIDE DEF t2
<1>5. SetParent(Relink(t2, p, s, n, up), n, up) \in Tree
  BY <1>2, <1>4, RelinkType, SetParentType
<1>. QED  BY <1>5 DEF Rotate, t2, t1, up, inner, p

\* Taking over the place of a node.
LEMMA ReplaceType ==
    ASSUME NEW t \in Tree, NEW v \in Node, NEW n \in Node
    PROVE  Replace(t, v, n) \in Tree
<1>. DEFINE p  == t.parent[v]
            t1 == Paint(SetParent(t, n, p), n, t.color[v])
            rt == t.child["right"][v]
            lt == t.child["left"][v]
            t2 == SetChild(SetChild(t1, "right", n, rt), "left", n, lt)
            t3 == Relink(t2, p, "left", v, n)
<1>1. p \in Ptr /\ rt \in Ptr /\ lt \in Ptr /\ n \in Ptr /\ t.color[v] \in {RED, BLACK}
      /\ "left" \in Side /\ "right" \in Side
  BY DEF Tree, Ptr, Side
<1>. HIDE DEF p, rt, lt
<1>2. t1 \in Tree
  BY <1>1, SetParentType, PaintType
<1>. HIDE DEF t1
<1>3. t2 \in Tree
  BY <1>1, <1>2, SetChildType
<1>. HIDE DEF t2
<1>4. t3 \in Tree
  BY <1>1, <1>3, RelinkType
<1>. HIDE DEF t3
<1>5. SetParent(SetParent(t3, lt, n), rt, n) \in Tree
  BY <1>1, <1>4, SetParentType
<1>. QED  BY <1>5 DEF Replace, t3, t2, t1, rt, lt, p

\* Changing the set of nodes.
LEMMA NodesType ==
    ASSUME NEW t \in Tree, NEW S \in SUBSET Node
    PROVE  [t EXCEPT !.nodes = S] \in Tree
BY DEF Tree

\* Forgetting the fields of nodes outside the tree.
LEMMA FreedType == ASSUME NEW t \in Tree PROVE Freed(t) \in Tree
<1>. DEFINE Keep(f, d) == [n \in Node |-> IF n \in t.nodes THEN f[n] ELSE d]
<1>1. [s \in Side |-> Keep(t.child[s], Nil)] \in [Side -> [Node -> Ptr]]
  BY DEF Tree, Ptr
<1>2. Keep(t.parent, Nil) \in [Node -> Ptr]
  BY DEF Tree, Ptr
<1>3. Keep(t.color, RED) \in [Node -> {RED, BLACK}]
  BY DEF Tree
<1>. HIDE DEF Keep
<1>4. [t EXCEPT !.child = [s \in Side |-> Keep(t.child[s], Nil)],
                !.parent = Keep(t.parent, Nil),
                !.color = Keep(t.color, RED)] \in Tree
  BY <1>1, <1>2, <1>3, Zenon DEF Tree
<1>. QED  BY <1>4 DEF Freed, Keep

\* rb_link_node.
LEMMA LinkNodeType ==
    ASSUME NEW t \in Tree, NEW n \in Node, NEW p \in Ptr, NEW s \in Side
    PROVE  rb_link_node(t, n, p, s) \in Tree
<1>. DEFINE t1 == Paint(SetParent(t, n, p), n, RED)
            t2 == SetChild(SetChild(t1, "left", n, Nil), "right", n, Nil)
            t3 == [t2 EXCEPT !.nodes = @ \cup {n}]
<1>1. n \in Ptr /\ Nil \in Ptr /\ "left" \in Side /\ "right" \in Side
  BY DEF Ptr, Side
<1>2. t2 \in Tree
  BY <1>1, SetParentType, PaintType, SetChildType
<1>. HIDE DEF t2
<1>3. t2.nodes \cup {n} \in SUBSET Node
  BY <1>2 DEF Tree
<1>4. t3 \in Tree
  BY <1>2, <1>3, NodesType
<1>. HIDE DEF t3
<1>5. (IF p = Nil THEN [t3 EXCEPT !.root = n] ELSE SetChild(t3, s, p, n)) \in Tree
  BY <1>1, <1>4, RootType, SetChildType
<1>. QED  BY <1>5 DEF rb_link_node, t3, t2
-----------------------------------------------------------------------------
(* Type correctness.  A routine in progress has a tree to work on, and the  *)
(* local variable node is a node wherever the code reads its fields.        *)

TypeInv ==
    /\ TypeOK
    /\ pc # "idle" => cur \in Root
    /\ pc \in {"descend", "insert_color", "successor"} => node \in Node
    /\ pc = "successor" => old \in Node

\* The initial state is typed.
LEMMA InitTypeInv == Init => TypeInv
<1>. SUFFICES ASSUME Init PROVE TypeInv
  OBVIOUS
<1>1. RB_ROOT \in Tree
  BY DEF RB_ROOT, Tree, Ptr
<1>. QED  BY <1>1 DEF Init, TypeInv, TypeOK, Ptr

\* What the actions of a routine in progress rely on.
LEMMA InProgress ==
    ASSUME TypeInv, pc # "idle"
    PROVE  cur \in Root /\ T \in Tree
BY DEF TypeInv, TypeOK, T

\* A routine that stores a tree of the right type and moves on within the type.
LEMMA StoreTypeInv ==
    ASSUME TypeInv, pc # "idle", NEW t \in Tree, SetT(t), cur' = cur,
           pc' = pc, node' \in Ptr, par' \in Ptr, old' = old,
           pc = "insert_color" => node' \in Node,
           pc \in {"insert_color", "erase_color"}
    PROVE  TypeInv'
BY DEF TypeInv, TypeOK, SetT

\* A routine that stores a tree of the right type and returns.
LEMMA ReturnTypeInv ==
    ASSUME TypeInv, NEW r \in Root, NEW t \in Tree,
           trees' = [trees EXCEPT ![r] = t], Return
    PROVE  TypeInv'
BY DEF TypeInv, TypeOK, Return, Ptr

\* The tail of rb_erase: the node has been cut out of t.
LEMMA UnlinkedTypeInv ==
    ASSUME TypeInv, NEW r \in Root, NEW t \in Tree, NEW child \in Ptr,
           NEW p \in Ptr, NEW color, NEW victim \in Node,
           Unlinked(r, t, child, p, color, victim)
    PROVE  TypeInv'
<1>. DEFINE t1 == [t EXCEPT !.nodes = @ \ {victim}]
<1>1. t.nodes \ {victim} \in SUBSET Node
  BY DEF Tree
<1>2. t1 \in Tree
  BY <1>1, NodesType
<1>3. Freed(t1) \in Tree
  BY <1>2, FreedType
<1>. HIDE DEF t1
<1>4. CASE color = BLACK
  <2>1. /\ trees' = [trees EXCEPT ![r] = t1]
        /\ pc' = "erase_color" /\ cur' = r
        /\ node' = child /\ par' = p /\ old' = victim
    BY <1>4 DEF Unlinked, t1
  <2>. QED  BY <1>2, <2>1 DEF TypeInv, TypeOK, Ptr
<1>5. CASE color # BLACK
  <2>1. trees' = [trees EXCEPT ![r] = Freed(t1)] /\ Return
    BY <1>5 DEF Unlinked, t1
  <2>. QED  BY <1>3, <2>1, ReturnTypeInv
<1>. QED  BY <1>4, <1>5

\* The sibling's rotation in __rb_erase_color.
LEMMA BlackSiblingType ==
    ASSUME T \in Tree, par \in Ptr, CanRotate(T, par, side)
    PROVE  BlackSibling \in Tree /\ side \in Side /\ par \in Node
<1>. DEFINE other == T.child[Opp(side)][par]
            t == Paint(Paint(T, other, BLACK), par, RED)
<1>1. side \in Side /\ par \in Node
  BY DEF side, Side, CanRotate, Ptr
<1>2. t \in Tree
  BY PaintType
<1>3. t.child = T.child
  BY DEF Paint, Tree
<1>4. Rotate(t, par, side) \in Tree
  BY <1>1, <1>2, <1>3, RotateType DEF CanRotate
<1>. QED  BY <1>1, <1>4 DEF BlackSibling

\* Painting changes no pointer.
LEMMA PaintChild ==
    ASSUME NEW t \in Tree, NEW n, NEW c \in {RED, BLACK}
    PROVE  Paint(t, n, c).child = t.child
BY DEF Paint, Tree

\* rb_insert_color keeps the types, one step per case of its loop.
LEMMA InsertTypeInv == TypeInv /\ InsertStep => TypeInv'
<1>. SUFFICES ASSUME TypeInv, InsertStep PROVE TypeInv'
  OBVIOUS
<1>1. CASE InsertDescend
  BY <1>1 DEF InsertDescend, TypeInv, TypeOK, Link, T, LinkSide, Tree, Ptr, Side
<1>2. CASE InsertLink
  <2>1. node \in Node /\ par \in Ptr /\ LinkSide \in Side
    BY <1>2 DEF InsertLink, TypeInv, TypeOK, LinkSide, Side
  <2>2. cur \in Root /\ T \in Tree
    BY <1>2, InProgress DEF InsertLink
  <2>3. rb_link_node(T, node, par, LinkSide) \in Tree
    BY <2>1, <2>2, LinkNodeType
  <2>. QED  BY <1>2, <2>1, <2>2, <2>3 DEF InsertLink, SetT, TypeInv, TypeOK, Ptr
<1>3. CASE InsertRecolor
  <2>1. T \in Tree /\ gparent \in Node /\ par \in Ptr
    BY <1>3, InProgress DEF InsertRecolor, InsertLoop, TypeInv, TypeOK, parent, gparent, Tree, Ptr
  <2>2. Paint(Paint(Paint(T, uncle, BLACK), parent, BLACK), gparent, RED) \in Tree
    BY <2>1, PaintType
  <2>. QED  BY <1>3, <2>1, <2>2, StoreTypeInv DEF InsertRecolor, Ptr
<1>4. CASE InsertRotate
  <2>. DEFINE inner == T.child[Opp(pside)][parent] = node
              t1 == IF inner THEN Rotate(T, parent, pside) ELSE T
              t2 == Paint(Paint(t1, IF inner THEN node ELSE parent, BLACK), gparent, RED)
  <2>1. T \in Tree /\ node \in Node /\ parent \in Node /\ gparent \in Node /\ par \in Ptr
    BY <1>4, InProgress DEF InsertRotate, InsertLoop, TypeInv, TypeOK, parent, gparent, Tree, Ptr
  <2>2. pside \in Side /\ Opp(pside) \in Side
    BY OppSide DEF pside, Side
  <2>3. t1 \in Tree
    <3>1. CASE inner
      <4>1. CanRotate(T, parent, pside)
        BY <2>1, <3>1, RBAssumption DEF CanRotate
      <4>. QED  BY <2>1, <2>2, <3>1, <4>1, RotateType DEF Ptr
    <3>2. CASE ~inner
      BY <2>1, <3>2
    <3>. QED  BY <3>1, <3>2
  <2>4. t2 \in Tree
    BY <2>3, PaintType
  <2>5. CanRotate(t2, gparent, Opp(pside)) /\ SetT(Rotate(t2, gparent, Opp(pside)))
        /\ node' = (IF inner THEN parent ELSE node)
    BY <1>4 DEF InsertRotate
  <2>. HIDE DEF t2
  <2>6. Rotate(t2, gparent, Opp(pside)) \in Tree
    BY <2>1, <2>2, <2>4, <2>5, RotateType DEF Ptr
  <2>7. node' \in Node
    BY <2>1, <2>5
  <2>8. pc = "insert_color" /\ UNCHANGED <<pc, cur, par, old>>
    BY <1>4 DEF InsertRotate
  <2>. QED  BY <2>1, <2>5, <2>6, <2>7, <2>8, StoreTypeInv DEF Ptr
<1>5. CASE InsertDone
  <2>1. cur \in Root /\ T \in Tree
    BY <1>5, InProgress DEF InsertDone
  <2>2. Paint(T, T.root, BLACK) \in Tree
    BY <2>1, PaintType
  <2>. QED  BY <1>5, <2>1, <2>2, ReturnTypeInv DEF InsertDone, SetT
<1>. QED  BY <1>1, <1>2, <1>3, <1>4, <1>5 DEF InsertStep

\* rb_erase and __rb_erase_color keep the types.
LEMMA EraseTypeInv == TypeInv /\ EraseStep => TypeInv'
<1>. SUFFICES ASSUME TypeInv, EraseStep PROVE TypeInv'
  OBVIOUS
<1>1. CASE EraseDescend
  BY <1>1 DEF EraseDescend, TypeInv, TypeOK, T, Tree, Ptr, Side
<1>2. CASE EraseSplice
  <2>. DEFINE child == T.child["right"][node]
              p  == T.parent[node]
              t1 == SetChild(SetParent(T, child, p), IF p = old THEN "right" ELSE "left", p, child)
  <2>1. cur \in Root /\ T \in Tree /\ node \in Node /\ old \in Node
    BY <1>2, InProgress DEF EraseSplice, TypeInv
  <2>2. child \in Ptr /\ p \in Ptr /\ node \in Ptr
    BY <2>1 DEF Tree, Ptr, Side
  <2>3. (IF p = old THEN "right" ELSE "left") \in Side
    BY DEF Side
  <2>4. t1 \in Tree
    BY <2>1, <2>2, <2>3, SetParentType, SetChildType
  <2>5. Replace(t1, old, node) \in Tree
    BY <2>1, <2>4, ReplaceType
  <2>6. Unlinked(cur, Replace(t1, old, node), child, IF p = old THEN node ELSE p,
                 T.color[node], old)
    BY <1>2 DEF EraseSplice
  <2>. HIDE DEF t1, child, p
  <2>. QED  BY <2>1, <2>2, <2>5, <2>6, UnlinkedTypeInv
<1>3. CASE EraseRecolor
  <2>. DEFINE other == BlackSibling.child[Opp(side)][par]
  <2>1. T \in Tree /\ par \in Ptr
    BY <1>3, InProgress DEF EraseRecolor, TypeInv, TypeOK
  <2>2. BlackSibling \in Tree /\ par \in Node
    BY <1>3, <2>1, BlackSiblingType DEF EraseRecolor
  <2>3. Paint(BlackSibling, other, RED) \in Tree
    BY <2>2, PaintType
  <2>4. pc = "erase_color" /\ SetT(Paint(BlackSibling, other, RED)) /\ node' = par
        /\ par' = BlackSibling.parent[par] /\ UNCHANGED <<pc, cur, old>>
    BY <1>3 DEF EraseRecolor
  <2>5. par' \in Ptr
    BY <2>2, <2>4 DEF Tree
  <2>. QED  BY <2>1, <2>3, <2>4, <2>5, StoreTypeInv
<1>4. CASE EraseRotate
  <2>. DEFINE s  == side
              t  == BlackSibling
              o  == t.child[Opp(s)][par]
              i  == t.child[s][o]
              ta == Paint(Paint(t, i, BLACK), o, RED)
              t1 == IF IsBlack(t, t.child[Opp(s)][o]) THEN Rotate(ta, o, Opp(s)) ELSE t
              other == t1.child[Opp(s)][par]
              t2 == Paint(Paint(t1, other, t1.color[par]), par, BLACK)
              tb == Paint(t2, t2.child[Opp(s)][other], BLACK)
              t3 == Rotate(tb, par, s)
  <2>0. /\ pc = "erase_color" /\ CanRotate(T, par, s)
        /\ o # Nil /\ \E d \in Side : ~IsBlack(t, t.child[d][o])
        /\ CanRotate(t1, par, s) /\ SetT(t3) /\ node' = t3.root
        /\ UNCHANGED <<pc, cur, par, old>>
    BY <1>4, Zenon DEF EraseRotate
  <2>. HIDE DEF s, t, o, i, ta, t1, other, t2, tb, t3
  <2>1. T \in Tree /\ par \in Ptr
    BY <2>0, InProgress DEF TypeInv, TypeOK
  <2>2. t \in Tree /\ par \in Node /\ s \in Side /\ Opp(s) \in Side
    BY <2>0, <2>1, BlackSiblingType, OppSide DEF s, t
  <2>a. o # Nil
    BY <2>0
  <2>3. o \in Node
    BY <2>a, <2>2 DEF Tree, Ptr, o
  <2>4. ta \in Tree /\ ta.child = t.child
    BY <2>2, PaintType, PaintChild DEF ta
  <2>5. t1 \in Tree
    <3>1. CASE IsBlack(t, t.child[Opp(s)][o])
      <4>1. i # Nil
        BY <2>0, <2>2, <3>1 DEF IsBlack, Side, Opp, i
      <4>2. CanRotate(ta, o, Opp(s))
        BY <2>2, <2>3, <2>4, <4>1, OppSide, RBAssumption DEF CanRotate, i
      <4>3. t1 = Rotate(ta, o, Opp(s))
        BY <3>1 DEF t1
      <4>. QED  BY <2>2, <2>3, <2>4, <4>2, <4>3, RotateType DEF Ptr
    <3>2. CASE ~IsBlack(t, t.child[Opp(s)][o])
      BY <2>2, <3>2 DEF t1
    <3>. QED  BY <3>1, <3>2
  <2>6. t1.color[par] \in {RED, BLACK}
    BY <2>2, <2>5 DEF Tree
  <2>. USE DEF t2, tb, t3
  <2>7. tb \in Tree /\ tb.child = t1.child
    BY <2>5, <2>6, PaintType, PaintChild
  <2>. HIDE DEF tb
  <2>8. CanRotate(tb, par, s)
    BY <2>0, <2>7 DEF CanRotate
  <2>9. t3 \in Tree
    BY <2>1, <2>2, <2>7, <2>8, RotateType
  <2>10. t3.root \in Ptr
    BY <2>9 DEF Tree
  <2>. HIDE DEF t3
  <2>11. /\ pc = "erase_color" /\ SetT(t3) /\ cur' = cur /\ pc' = pc /\ node' \in Ptr
         /\ par' \in Ptr /\ old' = old
    BY <2>0, <2>1, <2>10
  <2>. QED  BY <2>9, <2>11, StoreTypeInv
<1>5. CASE EraseDone
  <2>1. cur \in Root /\ T \in Tree
    BY <1>5, InProgress DEF EraseDone
  <2>2. Freed(Paint(T, node, BLACK)) \in Tree
    BY <2>1, PaintType, FreedType
  <2>. QED  BY <1>5, <2>1, <2>2, ReturnTypeInv DEF EraseDone, SetT
<1>. QED  BY <1>1, <1>2, <1>3, <1>4, <1>5 DEF EraseStep

\* Every step keeps the types.
LEMMA NextTypeInv == TypeInv /\ [Next]_vars => TypeInv'
<1>. SUFFICES ASSUME TypeInv, [Next]_vars PROVE TypeInv'
  OBVIOUS
<1>1. ASSUME NEW r \in Root, NEW n \in Node, rb_insert_data(r, n) PROVE TypeInv'
  BY <1>1 DEF rb_insert_data, TypeInv, TypeOK, Ptr
<1>2. ASSUME NEW r \in Root, NEW n \in Node, rb_erase(r, n) PROVE TypeInv'
  <2>. DEFINE t == trees[r]
              child == IF t.child["left"][n] = Nil THEN t.child["right"][n]
                                                   ELSE t.child["left"][n]
              p == t.parent[n]
  <2>1. t \in Tree /\ child \in Ptr /\ p \in Ptr /\ n \in Ptr /\ "left" \in Side
    BY DEF TypeInv, TypeOK, Tree, Side, Ptr
  <2>2. CASE \A s \in Side : t.child[s][n] # Nil
    <3>1. /\ pc' = "successor" /\ cur' = r /\ old' = n
          /\ node' = t.child["right"][n] /\ UNCHANGED <<trees, par>>
      BY <1>2, <2>2 DEF rb_erase
    <3>2. t.child["right"][n] \in Node
      BY <2>1, <2>2 DEF Tree, Side, Ptr
    <3>. QED  BY <3>1, <3>2 DEF TypeInv, TypeOK, Ptr
  <2>3. CASE ~(\A s \in Side : t.child[s][n] # Nil)
    <3>1. Unlinked(r, Relink(SetParent(t, child, p), p, "left", n, child), child, p, t.color[n], n)
      BY <1>2, <2>3 DEF rb_erase
    <3>. HIDE DEF t, child, p
    <3>2. Relink(SetParent(t, child, p), p, "left", n, child) \in Tree
      BY <2>1, SetParentType, RelinkType
    <3>. QED  BY <2>1, <3>1, <3>2, UnlinkedTypeInv
  <2>. QED  BY <2>2, <2>3
<1>3. ASSUME NEW r \in Root, NEW v \in Node, NEW n \in Node, rb_replace_node(r, v, n)
      PROVE  TypeInv'
  <2>. DEFINE u == Replace(trees[r], v, n)
              t == [u EXCEPT !.nodes = (@ \ {v}) \cup {n}]
  <2>1. u \in Tree
    BY ReplaceType DEF TypeInv, TypeOK
  <2>2. (u.nodes \ {v}) \cup {n} \in SUBSET Node
    BY <2>1 DEF Tree
  <2>. HIDE DEF u
  <2>3. Freed(t) \in Tree
    BY <2>1, <2>2, NodesType, FreedType
  <2>4. trees' = [trees EXCEPT ![r] = Freed(t)] /\ UNCHANGED <<pc, cur, node, par, old>>
    BY <1>3 DEF rb_replace_node, u
  <2>. HIDE DEF t
  <2>. QED  BY <2>3, <2>4 DEF TypeInv, TypeOK
<1>4. CASE UNCHANGED vars
  BY <1>4 DEF vars, TypeInv, TypeOK
<1>. QED  BY <1>1, <1>2, <1>3, <1>4, InsertTypeInv, EraseTypeInv DEF Next

\* In every reachable state the trees of simi.c are well-typed: each pointer
\* is a Data object or NULL and each colour bit is red or black, and a routine
\* in progress has the node it works on.
THEOREM TypeCorrect == Spec => []TypeOK
<1>1. TypeInv => TypeOK
  BY DEF TypeInv
<1>. QED  BY <1>1, InitTypeInv, NextTypeInv, PTL DEF Spec

-----------------------------------------------------------------------------
(* What the field updates change, and that they change nothing else.        *)

\* "n->child[s] = m"
LEMMA SetChildFields ==
    ASSUME NEW t \in Tree, NEW s \in Side, NEW n \in Node, NEW m \in Ptr
    PROVE  LET u == SetChild(t, s, n, m) IN
           /\ u \in Tree
           /\ u.root = t.root /\ u.parent = t.parent /\ u.color = t.color /\ u.nodes = t.nodes
           /\ \A d \in Side, x \in Node :
                u.child[d][x] = IF d = s /\ x = n THEN m ELSE t.child[d][x]
<1>. DEFINE u == SetChild(t, s, n, m)
<1>1. u \in Tree
  BY SetChildType
<1>. QED  BY <1>1 DEF SetChild, Tree

\* rb_set_parent
LEMMA SetParentFields ==
    ASSUME NEW t \in Tree, NEW n \in Ptr, NEW p \in Ptr
    PROVE  LET u == SetParent(t, n, p) IN
           /\ u \in Tree
           /\ u.root = t.root /\ u.child = t.child /\ u.color = t.color /\ u.nodes = t.nodes
           /\ \A x \in Node : u.parent[x] = IF x = n THEN p ELSE t.parent[x]
<1>. DEFINE u == SetParent(t, n, p)
<1>1. u \in Tree
  BY SetParentType
<1>. QED  BY <1>1, RBAssumption DEF SetParent, Tree, Ptr

\* A store to the root pointer.
LEMMA RootFields ==
    ASSUME NEW t \in Tree, NEW m \in Ptr
    PROVE  LET u == [t EXCEPT !.root = m] IN
           /\ u \in Tree /\ u.root = m
           /\ u.child = t.child /\ u.parent = t.parent /\ u.color = t.color /\ u.nodes = t.nodes
BY RootType DEF Tree

\* rb_set_color changes no pointer.
LEMMA PaintFields ==
    ASSUME NEW t \in Tree, NEW n \in Ptr, NEW c \in {RED, BLACK}
    PROVE  LET u == Paint(t, n, c) IN
           /\ u \in Tree
           /\ u.root = t.root /\ u.child = t.child /\ u.parent = t.parent /\ u.nodes = t.nodes
           /\ \A x \in Node : u.color[x] = IF x = n THEN c ELSE t.color[x]
<1>. DEFINE u == Paint(t, n, c)
<1>1. u \in Tree
  BY PaintType
<1>. QED  BY <1>1, RBAssumption DEF Paint, Tree, Ptr

\* The store to the pointer that leads to node n, wherever it is.
LEMMA RelinkFields ==
    ASSUME NEW t \in Tree, NEW p \in Ptr, NEW s \in Side, NEW n, NEW m \in Ptr
    PROVE  LET u == Relink(t, p, s, n, m) IN
           /\ u \in Tree
           /\ u.parent = t.parent /\ u.color = t.color /\ u.nodes = t.nodes
           /\ u.root = IF p = Nil THEN m ELSE t.root
           /\ p = Nil => u.child = t.child
           /\ p # Nil => \A d \in Side, x \in Node :
                u.child[d][x] =
                    IF x = p /\ d = (IF t.child[s][p] = n THEN s ELSE Opp(s))
                    THEN m ELSE t.child[d][x]
<1>. DEFINE u == Relink(t, p, s, n, m)
<1>1. CASE p = Nil
  BY <1>1, RootFields DEF Relink
<1>2. CASE p # Nil
  <2>. DEFINE e == IF t.child[s][p] = n THEN s ELSE Opp(s)
  <2>1. p \in Node /\ e \in Side
    BY <1>2, OppSide DEF Ptr
  <2>2. u = SetChild(t, e, p, m)
    BY <1>2 DEF Relink
  <2>. HIDE DEF e
  <2>3. /\ u \in Tree
        /\ u.root = t.root /\ u.parent = t.parent /\ u.color = t.color /\ u.nodes = t.nodes
        /\ \A d \in Side, x \in Node :
                u.child[d][x] = IF d = e /\ x = p THEN m ELSE t.child[d][x]
    <3>. DEFINE w == SetChild(t, e, p, m)
    <3>1. /\ w \in Tree
          /\ w.root = t.root /\ w.parent = t.parent /\ w.color = t.color /\ w.nodes = t.nodes
          /\ \A d \in Side, x \in Node :
                w.child[d][x] = IF d = e /\ x = p THEN m ELSE t.child[d][x]
      BY <2>1, SetChildFields
    <3>. HIDE DEF w, u
    <3>. QED  BY <2>2, <3>1 DEF w
  <2>. QED  BY <1>2, <2>3 DEF e
<1>. QED  BY <1>1, <1>2

-----------------------------------------------------------------------------
(* Trees whose pointers agree.                                              *)

\* No node is its own ancestor: climbing with rb_parent leads out of every set
\* of nodes.
Acyclic(t) == \A S \in SUBSET t.nodes : S # {} => \E n \in S : t.parent[n] \notin S

WF(t) == Links(t) /\ Acyclic(t)

\* The pointers of one node.
LEMMA LinksAt ==
    ASSUME NEW t \in Tree, WF(t), NEW n \in t.nodes
    PROVE  /\ n \in Node /\ n # Nil /\ n \in Ptr
           /\ t.parent[n] \in t.nodes \cup {Nil} /\ t.parent[n] \in Ptr
           /\ t.parent[n] = Nil <=> n = t.root
           /\ t.parent[n] # Nil => \E s \in Side : t.child[s][t.parent[n]] = n
           /\ \A s \in Side :
                /\ t.child[s][n] \in t.nodes \cup {Nil} /\ t.child[s][n] \in Ptr
                /\ t.child[s][n] # Nil => /\ t.parent[t.child[s][n]] = n
                                          /\ t.child[s][n] # t.child[Opp(s)][n]
BY RBAssumption DEF WF, Links, Tree, Ptr

\* The nodes around a node that has been reached by following one pointer down
\* and one up are different.
LEMMA Distinct ==
    ASSUME NEW t \in Tree, WF(t), NEW n \in t.nodes
    PROVE  /\ t.parent[n] # n
           /\ \A s \in Side : t.child[s][n] # n
           /\ \A s \in Side : t.child[s][n] # Nil => t.child[s][n] # t.parent[n]
           /\ \A s, d \in Side : t.child[s][n] # Nil => t.child[d][t.child[s][n]] # n
<1>1. n \in Node /\ n # Nil
  BY RBAssumption DEF Tree
<1>2. t.parent[n] # n
  <2>1. {n} \in SUBSET t.nodes
    OBVIOUS
  <2>. QED  BY <2>1 DEF WF, Acyclic
<1>3. ASSUME NEW s \in Side, t.child[s][n] # Nil, t.parent[n] = t.child[s][n] PROVE FALSE
  <2>. DEFINE m == t.child[s][n]
  <2>1. m \in t.nodes /\ t.parent[m] = n
    BY <1>3 DEF WF, Links
  <2>2. {n, m} \in SUBSET t.nodes
    BY <2>1
  <2>. QED  BY <1>3, <2>1, <2>2 DEF WF, Acyclic
<1>4. \A s \in Side : t.child[s][n] # n
  BY <1>1, <1>2 DEF WF, Links
<1>5. \A s, d \in Side : t.child[s][n] # Nil => t.child[d][t.child[s][n]] # n
  BY <1>1, <1>3 DEF WF, Links
<1>. QED  BY <1>2, <1>3, <1>4, <1>5

\* u is t after a rotation: n has sunk to side s, its child on the other side
\* is in its place.
Rotated(t, u, n, s) ==
    LET up    == t.child[Opp(s)][n]
        inner == t.child[s][up]
        p     == t.parent[n]
    IN  /\ u \in Tree /\ u.color = t.color /\ u.nodes = t.nodes
        /\ u.root = IF p = Nil THEN up ELSE t.root
        /\ \A x \in Node : u.parent[x] =
             IF x = n THEN up ELSE IF x = up THEN p ELSE IF x = inner THEN n
             ELSE t.parent[x]
        /\ \A d \in Side, x \in t.nodes : u.child[d][x] =
             IF x = n /\ d = Opp(s) THEN inner
             ELSE IF x = up /\ d = s THEN n
             ELSE IF x = p /\ t.child[d][p] = n THEN up
             ELSE t.child[d][x]

\* __rb_rotate_left and __rb_rotate_right store these pointers and no others.
LEMMA RotateFields ==
    ASSUME NEW t \in Tree, WF(t), NEW n \in t.nodes, NEW s \in Side,
           t.child[Opp(s)][n] # Nil
    PROVE  Rotated(t, Rotate(t, n, s), n, s)
<1>. DEFINE up    == t.child[Opp(s)][n]
            inner == t.child[s][up]
            p     == t.parent[n]
            a == SetChild(t, Opp(s), n, inner)
            b == SetParent(a, inner, n)
            c == SetChild(b, s, up, n)
            e == SetParent(c, up, p)
            f == Relink(e, p, s, n, up)
            u == SetParent(f, n, up)
<1>1. Opp(s) \in Side /\ Opp(s) # s /\ n \in Node /\ n # Nil
  BY OppSide, LinksAt
<1>2. up \in t.nodes /\ up \in Node /\ up # n /\ up # p
  BY <1>1, LinksAt, Distinct
<1>3. inner \in Ptr /\ inner # n /\ inner # up
  BY <1>1, <1>2, LinksAt, Distinct
<1>4. p \in Ptr /\ p # n /\ (p # Nil => p \in t.nodes /\ p \in Node)
  BY LinksAt, Distinct
<1>5. Rotate(t, n, s) = u
  BY DEF Rotate
<1>6. p # Nil => \A d \in Side :
                    t.child[d][p] = n <=> d = (IF t.child[s][p] = n THEN s ELSE Opp(s))
  <2>1. p # Nil => \E d \in Side : t.child[d][p] = n
    BY LinksAt
  <2>2. p # Nil /\ t.child[s][p] = n => t.child[Opp(s)][p] # n
    BY <1>1, <1>4, LinksAt
  <2>3. \A d \in Side : d = s \/ d = Opp(s)
    BY DEF Side, Opp
  <2>. QED  BY <1>1, <2>1, <2>2, <2>3
<1>a. up \in Node /\ up \in Ptr /\ n \in Ptr /\ inner \in Ptr /\ p \in Ptr /\ n \in Node /\ Opp(s) \in Side
  BY <1>1, <1>2, <1>3, <1>4 DEF Ptr
<1>. HIDE DEF up, inner, p
<1>7. /\ u \in Tree /\ u.color = t.color /\ u.nodes = t.nodes
      /\ u.root = IF p = Nil THEN up ELSE t.root
      /\ \A x \in Node : u.parent[x] =
            IF x = n THEN up ELSE IF x = up THEN p ELSE IF x = inner THEN n
            ELSE t.parent[x]
      /\ \A d \in Side, x \in Node : c.child[d][x] =
            IF d = s /\ x = up THEN n
            ELSE IF d = Opp(s) /\ x = n THEN inner ELSE t.child[d][x]
      /\ p = Nil => u.child = c.child
      /\ p # Nil => \A d \in Side, x \in Node : u.child[d][x] =
            IF x = p /\ d = (IF c.child[s][p] = n THEN s ELSE Opp(s))
            THEN up ELSE c.child[d][x]
  <2>1. a \in Tree
    BY <1>a, SetChildType
  <2>. HIDE DEF a
  <2>2. b \in Tree
    BY <1>a, <2>1, SetParentType
  <2>. HIDE DEF b
  <2>3. c \in Tree
    BY <1>a, <2>2, SetChildType
  <2>. HIDE DEF c
  <2>4. e \in Tree
    BY <1>a, <2>3, SetParentType
  <2>. HIDE DEF e
  <2>5. f \in Tree
    BY <1>a, <2>4, RelinkType
  <2>. HIDE DEF f
  <2>6. /\ a \in Tree
        /\ a.root = t.root /\ a.parent = t.parent /\ a.color = t.color /\ a.nodes = t.nodes
        /\ \A d \in Side, x \in Node :
              a.child[d][x] = IF d = Opp(s) /\ x = n THEN inner ELSE t.child[d][x]
    BY <1>a, SetChildFields DEF a
  <2>7. /\ b \in Tree
        /\ b.root = a.root /\ b.child = a.child /\ b.color = a.color /\ b.nodes = a.nodes
        /\ \A x \in Node : b.parent[x] = IF x = inner THEN n ELSE a.parent[x]
    BY <1>a, <2>1, SetParentFields DEF b
  <2>8. /\ c \in Tree
        /\ c.root = b.root /\ c.parent = b.parent /\ c.color = b.color /\ c.nodes = b.nodes
        /\ \A d \in Side, x \in Node :
              c.child[d][x] = IF d = s /\ x = up THEN n ELSE b.child[d][x]
    BY <1>a, <2>2, SetChildFields DEF c
  <2>9. /\ e \in Tree
        /\ e.root = c.root /\ e.child = c.child /\ e.color = c.color /\ e.nodes = c.nodes
        /\ \A x \in Node : e.parent[x] = IF x = up THEN p ELSE c.parent[x]
    BY <1>a, <2>3, SetParentFields DEF e
  <2>10. /\ f \in Tree /\ f.parent = e.parent /\ f.color = e.color /\ f.nodes = e.nodes
         /\ f.root = IF p = Nil THEN up ELSE e.root
         /\ p = Nil => f.child = e.child
         /\ p # Nil => \A d \in Side, x \in Node :
                  f.child[d][x] =
                      IF x = p /\ d = (IF e.child[s][p] = n THEN s ELSE Opp(s))
                      THEN up ELSE e.child[d][x]
    BY <1>a, <2>4, RelinkFields DEF f
  <2>11. /\ u \in Tree /\ u.root = f.root /\ u.child = f.child /\ u.color = f.color
         /\ u.nodes = f.nodes
         /\ \A x \in Node : u.parent[x] = IF x = n THEN up ELSE f.parent[x]
    BY <1>a, <2>5, SetParentFields
  <2>. HIDE DEF u
  <2>. QED  BY <2>6, <2>7, <2>8, <2>9, <2>10, <2>11
<1>. HIDE DEF u, f, e, c, b, a
<1>8. ASSUME NEW d \in Side, NEW x \in t.nodes
      PROVE  u.child[d][x] =
                IF x = n /\ d = Opp(s) THEN inner
                ELSE IF x = up /\ d = s THEN n
                ELSE IF x = p /\ t.child[d][p] = n THEN up
                ELSE t.child[d][x]
  <2>1. x \in Node /\ x # Nil
    BY LinksAt
  <2>2. p # Nil => \A g \in Side : c.child[g][p] = t.child[g][p]
    BY <1>2, <1>4, <1>7
  <2>. QED  BY <1>1, <1>2, <1>4, <1>6, <1>7, <2>1, <2>2
<1>. QED  BY <1>5, <1>7, <1>8 DEF Rotated, up, inner, p

\* A rotation keeps the pointers in agreement.
LEMMA RotatedWF ==
    ASSUME NEW t \in Tree, WF(t), NEW n \in t.nodes, NEW s \in Side,
           t.child[Opp(s)][n] # Nil, NEW u \in Tree, Rotated(t, u, n, s)
    PROVE  WF(u)
<1>. DEFINE up    == t.child[Opp(s)][n]
            inner == t.child[s][up]
            p     == t.parent[n]
<1>1. /\ u.nodes = t.nodes
      /\ u.root = IF p = Nil THEN up ELSE t.root
      /\ \A x \in t.nodes : u.parent[x] =
           IF x = n THEN up ELSE IF x = up THEN p ELSE IF x = inner THEN n
           ELSE t.parent[x]
      /\ \A d \in Side, x \in t.nodes : u.child[d][x] =
           IF x = n /\ d = Opp(s) THEN inner
           ELSE IF x = up /\ d = s THEN n
           ELSE IF x = p /\ t.child[d][p] = n THEN up
           ELSE t.child[d][x]
  BY LinksAt DEF Rotated
<1>2. Opp(s) \in Side /\ Opp(s) # s /\ Opp(Opp(s)) = s /\ \A d \in Side : d = s \/ d = Opp(s)
  BY OppSide DEF Opp, Side
<1>3. /\ n # Nil /\ up \in t.nodes /\ up # Nil /\ up # n /\ up # p /\ t.parent[up] = n
      /\ p # n
  BY <1>2, LinksAt, Distinct
<1>4. inner \in t.nodes \cup {Nil} /\ inner # n /\ inner # up /\ (inner # Nil => t.parent[inner] = up)
  BY <1>2, <1>3, LinksAt, Distinct
<1>5. p \in t.nodes \cup {Nil} /\ (p = Nil <=> n = t.root) /\ Nil \notin t.nodes
      /\ (p # Nil => \E d \in Side : t.child[d][p] = n)
  BY LinksAt
<1>6. inner # Nil => inner # p
  <2>. SUFFICES ASSUME inner # Nil, inner = p PROVE FALSE
    OBVIOUS
  <2>1. {n, up, p} \in SUBSET t.nodes
    BY <1>3, <1>4
  <2>. QED  BY <1>3, <1>4, <2>1 DEF WF, Acyclic
<1>. HIDE DEF up, inner, p
<1>7. Acyclic(u)
  <2>. SUFFICES ASSUME NEW S \in SUBSET t.nodes, S # {}, \A x \in S : u.parent[x] \in S
                PROVE  FALSE
    BY <1>1 DEF Acyclic
  <2>1. S \cup {n} \in SUBSET t.nodes
    OBVIOUS
  <2>2. \A x \in S : t.parent[x] \in S \cup {n}
    BY <1>1, <1>3, <1>4, <1>5 DEF p
  <2>3. up \in S \/ n \in S => p \in S
    BY <1>1, <1>3
  <2>4. CASE up \in S \/ n \in S
    BY <2>1, <2>2, <2>3, <2>4 DEF WF, Acyclic, p
  <2>5. CASE up \notin S /\ n \notin S
    <3>1. inner \notin S
      BY <1>1, <1>3, <1>4, <2>5
    <3>2. \A x \in S : t.parent[x] \in S
      BY <1>1, <2>5, <3>1
    <3>. QED  BY <3>2 DEF WF, Acyclic
  <2>. QED  BY <2>4, <2>5
<1>8. Links(u)
  <2>1. u.root \in u.nodes \cup {Nil}
    BY <1>1, <1>3 DEF WF, Links
  <2>. SUFFICES ASSUME NEW x \in t.nodes
                PROVE  /\ u.parent[x] \in t.nodes \cup {Nil}
                       /\ u.parent[x] = Nil <=> x = u.root
                       /\ u.parent[x] # Nil => \E d \in Side : u.child[d][u.parent[x]] = x
                       /\ \A d \in Side :
                            /\ u.child[d][x] \in t.nodes \cup {Nil}
                            /\ u.child[d][x] # Nil =>
                                /\ u.parent[u.child[d][x]] = x
                                /\ u.child[d][x] # u.child[Opp(d)][x]
    BY <1>1, <2>1 DEF Links
  <2>2. u.parent[x] \in t.nodes \cup {Nil}
    BY <1>1, <1>3, <1>5, LinksAt
  <2>a. /\ t.parent[x] = Nil <=> x = t.root
        /\ \A d \in Side :
             /\ t.child[d][x] \in t.nodes \cup {Nil}
             /\ t.child[d][x] # Nil => /\ t.parent[t.child[d][x]] = x
                                       /\ t.child[d][x] # t.child[Opp(d)][x]
    BY LinksAt
  <2>b. t.parent[n] = p
    BY DEF p
  <2>3. u.parent[x] = Nil <=> x = u.root
    BY <1>1, <1>3, <1>4, <1>5, <2>a
  <2>4. u.parent[x] # Nil => \E d \in Side : u.child[d][u.parent[x]] = x
    <3>1. CASE x = n
      BY <1>1, <1>2, <1>3, <3>1
    <3>2. CASE x = up
      BY <1>1, <1>3, <1>5, <3>2
    <3>3. CASE x = inner /\ x # n /\ x # up
      BY <1>1, <1>2, <1>3, <3>3
    <3>4. CASE x # inner /\ x # n /\ x # up
      BY <1>1, <1>2, <1>3, <1>4, <3>4, LinksAt DEF up, inner
    <3>. QED  BY <3>1, <3>2, <3>3, <3>4
  <2>5. ASSUME NEW d \in Side
        PROVE  /\ u.child[d][x] \in t.nodes \cup {Nil}
               /\ u.child[d][x] # Nil => u.parent[u.child[d][x]] = x
               /\ u.child[d][x] # Nil => u.child[d][x] # u.child[Opp(d)][x]
    <3>1. CASE x = n
      <4>1. u.child[Opp(s)][n] = inner /\ u.child[s][n] = t.child[s][n]
        BY <1>1, <1>2, <1>3
      <4>2. u.parent[inner] = n \/ inner = Nil
        BY <1>1, <1>3, <1>4
      <4>3. t.child[s][n] \in t.nodes \cup {Nil} /\ t.child[s][n] # up
            /\ (t.child[s][n] # Nil => t.parent[t.child[s][n]] = n)
        BY <1>2, <1>3, LinksAt DEF up
      <4>4. t.child[s][n] # Nil => t.child[s][n] # n /\ t.child[s][n] # inner
        BY <1>3, <1>4, <4>3 DEF p
      <4>5. t.child[s][n] # Nil => u.parent[t.child[s][n]] = n
        BY <1>1, <4>3, <4>4
      <4>. QED  BY <1>2, <1>4, <3>1, <4>1, <4>2, <4>3, <4>4, <4>5
    <3>2. CASE x = up
      <4>1. u.child[s][up] = n /\ u.child[Opp(s)][up] = t.child[Opp(s)][up]
        BY <1>1, <1>2, <1>3
      <4>2. t.child[Opp(s)][up] \in t.nodes \cup {Nil}
            /\ (t.child[Opp(s)][up] # Nil => /\ t.parent[t.child[Opp(s)][up]] = up
                                             /\ t.child[Opp(s)][up] # inner)
        BY <1>2, <1>3, LinksAt DEF inner
      <4>3. t.child[Opp(s)][up] # Nil => t.child[Opp(s)][up] # n /\ t.child[Opp(s)][up] # up
        BY <1>3, <4>2 DEF p
      <4>4. t.child[Opp(s)][up] # Nil => u.parent[t.child[Opp(s)][up]] = up
        BY <1>1, <4>2, <4>3
      <4>. QED  BY <1>1, <1>2, <1>3, <3>2, <4>1, <4>2, <4>3, <4>4
    <3>3. CASE x # n /\ x # up
      <4>1. \A e \in Side : u.child[e][x] = IF x = p /\ t.child[e][x] = n THEN up ELSE t.child[e][x]
        BY <1>1, <3>3
      <4>2. \A e \in Side : t.child[e][x] # up /\ (inner # Nil => t.child[e][x] # inner)
        BY <1>3, <1>4, <2>a, <3>3
      <4>3. \A e \in Side : t.child[e][x] = n => x = p
        BY <1>3, <2>a, <2>b
      <4>4. u.child[d][x] \in t.nodes \cup {Nil}
        BY <1>3, <2>a, <4>1
      <4>5. u.child[d][x] # Nil => u.parent[u.child[d][x]] = x
        <5>1. CASE t.child[d][x] = n
          BY <1>1, <1>3, <4>1, <4>3, <5>1
        <5>2. CASE t.child[d][x] # n /\ t.child[d][x] # Nil
          BY <1>1, <2>a, <4>1, <4>2, <5>2
        <5>3. CASE t.child[d][x] = Nil
          BY <1>3, <4>1, <5>3
        <5>. QED  BY <5>1, <5>2, <5>3
      <4>6. u.child[d][x] # Nil => u.child[d][x] # u.child[Opp(d)][x]
        BY <1>3, <2>a, <4>1, <4>2, <4>3, OppSide
      <4>. QED  BY <4>4, <4>5, <4>6
    <3>. QED  BY <3>1, <3>2, <3>3
  <2>. QED  BY <2>2, <2>3, <2>4, <2>5
<1>. QED  BY <1>7, <1>8 DEF WF

\* u has the pointers of t.
SamePointers(t, u) ==
    /\ u.nodes = t.nodes /\ u.root = t.root
    /\ \A x \in t.nodes : u.parent[x] = t.parent[x]
    /\ \A d \in Side, x \in t.nodes : u.child[d][x] = t.child[d][x]

\* Agreement is about the pointers of the nodes in the tree only.
LEMMA SamePointersWF ==
    ASSUME NEW t \in Tree, NEW u \in Tree, WF(t), SamePointers(t, u)
    PROVE  WF(u)
<1>1. Acyclic(u)
  BY DEF WF, Acyclic, SamePointers
<1>2. Links(u)
  BY OppSide DEF WF, Links, SamePointers
<1>. QED  BY <1>1, <1>2 DEF WF

\* Colours do not matter.
LEMMA PaintWF ==
    ASSUME NEW t \in Tree, WF(t), NEW n \in Ptr, NEW c \in {RED, BLACK}
    PROVE  Paint(t, n, c) \in Tree /\ WF(Paint(t, n, c)) /\ SamePointers(t, Paint(t, n, c))
<1>1. Paint(t, n, c) \in Tree /\ SamePointers(t, Paint(t, n, c))
  BY PaintFields DEF SamePointers
<1>. QED  BY <1>1, SamePointersWF

\* Nor do the fields of freed nodes.
LEMMA FreedFields ==
    ASSUME NEW t \in Tree
    PROVE  /\ Freed(t) \in Tree /\ SamePointers(t, Freed(t))
           /\ \A x \in t.nodes : Freed(t).color[x] = t.color[x]
<1>. DEFINE Keep(f, d) == [n \in Node |-> IF n \in t.nodes THEN f[n] ELSE d]
<1>1. Freed(t) = [t EXCEPT !.child = [s \in Side |-> Keep(t.child[s], Nil)],
                           !.parent = Keep(t.parent, Nil),
                           !.color = Keep(t.color, RED)]
  BY DEF Freed
<1>2. /\ Freed(t).nodes = t.nodes /\ Freed(t).root = t.root
      /\ Freed(t).parent = Keep(t.parent, Nil)
      /\ Freed(t).color = Keep(t.color, RED)
      /\ Freed(t).child = [s \in Side |-> Keep(t.child[s], Nil)]
  BY <1>1 DEF Tree
<1>3. t.nodes \subseteq Node
  BY DEF Tree
<1>. QED  BY <1>2, <1>3, FreedType DEF SamePointers

\* u is t without node n, whose only child, if it has one, is c.
Cut(t, u, n, c) ==
    LET p == t.parent[n]
    IN  /\ u \in Tree /\ u.nodes = t.nodes \ {n}
        /\ u.root = IF p = Nil THEN c ELSE t.root
        /\ \A x \in u.nodes : u.parent[x] = IF x = c THEN p ELSE t.parent[x]
        /\ \A d \in Side, x \in u.nodes : u.child[d][x] =
             IF x = p /\ t.child[d][p] = n THEN c ELSE t.child[d][x]

OnlyChild(t, n, c) == \E s \in Side : t.child[s][n] = Nil /\ t.child[Opp(s)][n] = c

\* Taking out a node with at most one child keeps the pointers in agreement.
LEMMA CutWF ==
    ASSUME NEW t \in Tree, WF(t), NEW n \in t.nodes, NEW c, OnlyChild(t, n, c),
           NEW u \in Tree, Cut(t, u, n, c)
    PROVE  WF(u) /\ (c # Nil => c \in u.nodes /\ u.parent[c] = t.parent[n])
<1>. DEFINE p == t.parent[n]
<1>1. /\ u.nodes = t.nodes \ {n}
      /\ u.root = IF p = Nil THEN c ELSE t.root
      /\ \A x \in u.nodes : u.parent[x] = IF x = c THEN p ELSE t.parent[x]
      /\ \A d \in Side, x \in u.nodes : u.child[d][x] =
           IF x = p /\ t.child[d][p] = n THEN c ELSE t.child[d][x]
  BY DEF Cut
<1>2. /\ c \in t.nodes \cup {Nil} /\ c # n /\ (c # Nil => t.parent[c] = n)
      /\ \A d \in Side : t.child[d][n] # Nil => t.child[d][n] = c
  <2>1. PICK s \in Side : t.child[s][n] = Nil /\ t.child[Opp(s)][n] = c
    BY DEF OnlyChild
  <2>2. \A d \in Side : d = s \/ d = Opp(s)
    BY DEF Side, Opp
  <2>. QED  BY <2>1, <2>2, OppSide, LinksAt, Distinct
<1>3. /\ p \in t.nodes \cup {Nil} /\ (p = Nil <=> n = t.root) /\ Nil \notin t.nodes
      /\ p # n /\ (p # Nil => \E d \in Side : t.child[d][p] = n)
      /\ (c # Nil => c # p)
  <2>1. c # Nil => c # p
    <3>1. PICK s \in Side : t.child[Opp(s)][n] = c
      BY DEF OnlyChild
    <3>. QED  BY <3>1, OppSide, Distinct
  <2>. QED  BY <2>1, LinksAt, Distinct
<1>4. t.parent[n] = p
  OBVIOUS
<1>. HIDE DEF p
<1>5. Acyclic(u)
  <2>. SUFFICES ASSUME NEW S \in SUBSET u.nodes, S # {}, \A x \in S : u.parent[x] \in S
                PROVE  FALSE
    BY DEF Acyclic
  <2>1. CASE c \in S
    <3>1. S \cup {n} \in SUBSET t.nodes /\ S \cup {n} # {}
      BY <1>1
    <3>2. p \in S
      BY <1>1, <2>1
    <3>3. \A x \in S \cup {n} : t.parent[x] \in S \cup {n}
      BY <1>1, <1>2, <1>4, <3>2, <1>3
    <3>. QED  BY <3>1, <3>3 DEF WF, Acyclic
  <2>2. CASE c \notin S
    <3>1. S \in SUBSET t.nodes /\ \A x \in S : t.parent[x] \in S
      BY <1>1, <2>2
    <3>. QED  BY <3>1 DEF WF, Acyclic
  <2>. QED  BY <2>1, <2>2
<1>6. Links(u)
  <2>1. u.root \in u.nodes \cup {Nil}
    <3>1. t.root \in t.nodes \cup {Nil}
      BY DEF WF, Links
    <3>. QED  BY <1>1, <1>2, <1>3, <3>1
  <2>. SUFFICES ASSUME NEW x \in u.nodes
                PROVE  /\ u.parent[x] \in u.nodes \cup {Nil}
                       /\ u.parent[x] = Nil <=> x = u.root
                       /\ u.parent[x] # Nil => \E d \in Side : u.child[d][u.parent[x]] = x
                       /\ \A d \in Side :
                            /\ u.child[d][x] \in u.nodes \cup {Nil}
                            /\ u.child[d][x] # Nil =>
                                /\ u.parent[u.child[d][x]] = x
                                /\ u.child[d][x] # u.child[Opp(d)][x]
    BY <2>1 DEF Links
  <2>2. /\ t.parent[x] \in t.nodes \cup {Nil}
        /\ t.parent[x] = Nil <=> x = t.root
        /\ t.parent[x] # Nil => \E d \in Side : t.child[d][t.parent[x]] = x
        /\ \A d \in Side :
             /\ t.child[d][x] \in t.nodes \cup {Nil}
             /\ t.child[d][x] # Nil => /\ t.parent[t.child[d][x]] = x
                                       /\ t.child[d][x] # t.child[Opp(d)][x]
    <3>1. x \in t.nodes
      BY <1>1
    <3>. QED  BY <3>1, LinksAt
  <2>3. x # n /\ x # Nil
    BY <1>1, <1>3
  <2>4. t.parent[x] = n => x = c
    BY <1>2, <1>3, <2>2, <2>3
  <2>5. u.parent[x] \in u.nodes \cup {Nil}
    BY <1>1, <1>3, <2>2, <2>4
  <2>6. u.parent[x] = Nil <=> x = u.root
    <3>1. CASE x = c
      BY <1>1, <1>2, <1>3, <2>2, <2>3, <3>1
    <3>2. CASE x # c
      BY <1>1, <1>3, <2>2, <2>3, <3>2
    <3>. QED  BY <3>1, <3>2
  <2>7. u.parent[x] # Nil => \E d \in Side : u.child[d][u.parent[x]] = x
    <3>1. CASE x = c
      BY <1>1, <1>3, <2>5, <3>1
    <3>2. CASE x # c
      <4>1. u.parent[x] = t.parent[x]
        BY <1>1, <3>2
      <4>2. ASSUME t.parent[x] # Nil
            PROVE  \E d \in Side : u.child[d][t.parent[x]] = x
        <5>1. PICK d \in Side : t.child[d][t.parent[x]] = x
          BY <2>2, <4>2
        <5>2. t.parent[x] \in u.nodes
          BY <2>5, <4>1, <4>2
        <5>3. u.child[d][t.parent[x]] = x
          BY <1>1, <2>3, <5>1, <5>2
        <5>. QED  BY <5>3
      <4>. QED  BY <4>1, <4>2
    <3>. QED  BY <3>1, <3>2
  <2>8. ASSUME NEW d \in Side
        PROVE  /\ u.child[d][x] \in u.nodes \cup {Nil}
               /\ u.child[d][x] # Nil => u.parent[u.child[d][x]] = x
               /\ u.child[d][x] # Nil => u.child[d][x] # u.child[Opp(d)][x]
    <3>1. \A e \in Side : u.child[e][x] = IF x = p /\ t.child[e][x] = n THEN c ELSE t.child[e][x]
      BY <1>1
    <3>2. \A e \in Side : t.child[e][x] = n => x = p
      BY <1>3, <1>4, <2>2
    <3>3. \A e \in Side : c # Nil => t.child[e][x] # c
      BY <1>2, <2>2, <2>3
    <3>4. u.child[d][x] \in u.nodes \cup {Nil}
      BY <1>1, <1>2, <2>2, <3>1, <3>2
    <3>5. u.child[d][x] # Nil => u.parent[u.child[d][x]] = x
      <4>1. CASE t.child[d][x] = n
        BY <1>1, <1>2, <3>1, <3>2, <4>1
      <4>2. CASE t.child[d][x] # n
        BY <1>1, <2>2, <3>1, <3>3, <3>4, <4>2
      <4>. QED  BY <4>1, <4>2
    <3>6. u.child[d][x] # Nil => u.child[d][x] # u.child[Opp(d)][x]
      BY <1>3, <2>2, <3>1, <3>2, <3>3, OppSide
    <3>. QED  BY <3>4, <3>5, <3>6
  <2>. QED  BY <2>5, <2>6, <2>7, <2>8
<1>7. c # Nil => c \in u.nodes /\ u.parent[c] = p
  BY <1>1, <1>2
<1>. QED  BY <1>5, <1>6, <1>7 DEF WF, p

\* u is t with the new leaf n below p on side s.
Linked(t, u, n, p, s) ==
    /\ u \in Tree /\ u.nodes = t.nodes \cup {n}
    /\ u.root = IF p = Nil THEN n ELSE t.root
    /\ \A x \in u.nodes : u.parent[x] = IF x = n THEN p ELSE t.parent[x]
    /\ \A d \in Side, x \in u.nodes : u.child[d][x] =
         IF x = n THEN Nil ELSE IF x = p /\ d = s THEN n ELSE t.child[d][x]

\* A tree without a root has no nodes.
LEMMA EmptyTree == ASSUME NEW t \in Tree, WF(t), t.root = Nil PROVE t.nodes = {}
<1>1. \A x \in t.nodes : t.parent[x] \in t.nodes
  BY LinksAt
<1>. QED  BY <1>1 DEF WF, Acyclic

\* A new leaf keeps the pointers in agreement.
LEMMA LinkedWF ==
    ASSUME NEW t \in Tree, WF(t), NEW n \in Node, n \notin t.nodes,
           NEW p \in t.nodes \cup {Nil}, NEW s \in Side,
           IF p = Nil THEN t.root = Nil ELSE t.child[s][p] = Nil,
           NEW u \in Tree, Linked(t, u, n, p, s)
    PROVE  WF(u)
<1>1. /\ u.nodes = t.nodes \cup {n}
      /\ u.root = IF p = Nil THEN n ELSE t.root
      /\ \A x \in u.nodes : u.parent[x] = IF x = n THEN p ELSE t.parent[x]
      /\ \A d \in Side, x \in u.nodes : u.child[d][x] =
           IF x = n THEN Nil ELSE IF x = p /\ d = s THEN n ELSE t.child[d][x]
  BY DEF Linked
<1>2. n # Nil /\ Nil \notin t.nodes /\ (p = Nil => t.nodes = {}) /\ p # n
  BY EmptyTree, RBAssumption DEF Tree
<1>3. Acyclic(u)
  <2>. SUFFICES ASSUME NEW S \in SUBSET u.nodes, S # {}, \A x \in S : u.parent[x] \in S
                PROVE  FALSE
    BY DEF Acyclic
  <2>1. \A x \in t.nodes : t.parent[x] # n
    BY <1>2, LinksAt
  <2>2. S \ {n} \in SUBSET t.nodes /\ \A x \in S \ {n} : t.parent[x] \in S \ {n}
    BY <1>1, <2>1
  <2>3. S \ {n} # {}
    BY <1>1, <1>2
  <2>. QED  BY <2>2, <2>3 DEF WF, Acyclic
<1>4. Links(u)
  <2>1. u.root \in u.nodes \cup {Nil}
    BY <1>1 DEF WF, Links
  <2>. SUFFICES ASSUME NEW x \in u.nodes
                PROVE  /\ u.parent[x] \in u.nodes \cup {Nil}
                       /\ u.parent[x] = Nil <=> x = u.root
                       /\ u.parent[x] # Nil => \E d \in Side : u.child[d][u.parent[x]] = x
                       /\ \A d \in Side :
                            /\ u.child[d][x] \in u.nodes \cup {Nil}
                            /\ u.child[d][x] # Nil =>
                                /\ u.parent[u.child[d][x]] = x
                                /\ u.child[d][x] # u.child[Opp(d)][x]
    BY <2>1 DEF Links
  <2>2. CASE x = n
    <3>1. u.parent[x] \in u.nodes \cup {Nil} /\ (u.parent[x] = Nil <=> x = u.root)
      <4>1. t.root # n
        BY <1>2 DEF WF, Links
      <4>. QED  BY <1>1, <1>2, <2>2, <4>1
    <3>2. u.parent[x] # Nil => \E d \in Side : u.child[d][u.parent[x]] = x
      BY <1>1, <1>2, <2>2, <3>1
    <3>. QED  BY <1>1, <2>2, <3>1, <3>2
  <2>3. CASE x # n
    <3>1. x \in t.nodes
      BY <1>1, <2>3
    <3>2. /\ t.parent[x] \in t.nodes \cup {Nil}
          /\ t.parent[x] = Nil <=> x = t.root
          /\ t.parent[x] # Nil => \E d \in Side : t.child[d][t.parent[x]] = x
          /\ \A d \in Side :
               /\ t.child[d][x] \in t.nodes \cup {Nil}
               /\ t.child[d][x] # Nil => /\ t.parent[t.child[d][x]] = x
                                         /\ t.child[d][x] # t.child[Opp(d)][x]
      BY <3>1, LinksAt
    <3>3. u.parent[x] = t.parent[x] /\ p # Nil
      BY <1>1, <1>2, <2>3, <3>1
    <3>4. u.parent[x] # Nil => \E d \in Side : u.child[d][u.parent[x]] = x
      <4>. SUFFICES ASSUME t.parent[x] # Nil
                    PROVE  \E d \in Side : u.child[d][t.parent[x]] = x
        BY <3>3
      <4>1. PICK d \in Side : t.child[d][t.parent[x]] = x
        BY <3>2
      <4>2. t.parent[x] \in t.nodes /\ t.parent[x] # n /\ x # Nil
        BY <1>2, <3>1, <3>2
      <4>3. u.child[d][t.parent[x]] = x
        BY <1>1, <3>3, <4>1, <4>2
      <4>. QED  BY <4>3
    <3>5. ASSUME NEW d \in Side
          PROVE  /\ u.child[d][x] \in u.nodes \cup {Nil}
                 /\ u.child[d][x] # Nil => u.parent[u.child[d][x]] = x
                 /\ u.child[d][x] # Nil => u.child[d][x] # u.child[Opp(d)][x]
      <4>1. \A e \in Side : u.child[e][x] = IF x = p /\ e = s THEN n ELSE t.child[e][x]
        BY <1>1, <2>3
      <4>2. \A e \in Side : t.child[e][x] # n
        BY <1>2, <3>2
      <4>3. u.child[d][x] \in u.nodes \cup {Nil}
        BY <1>1, <3>2, <4>1
      <4>4. u.child[d][x] # Nil => u.parent[u.child[d][x]] = x
        BY <1>1, <3>2, <4>1, <4>2, <4>3
      <4>5. u.child[d][x] # Nil => u.child[d][x] # u.child[Opp(d)][x]
        BY <3>2, <4>1, <4>2, OppSide
      <4>. QED  BY <4>3, <4>4, <4>5
    <3>6. u.parent[x] \in u.nodes \cup {Nil} /\ (u.parent[x] = Nil <=> x = u.root)
      BY <1>1, <3>2, <3>3
    <3>. QED  BY <3>4, <3>5, <3>6
  <2>. QED  BY <2>2, <2>3
<1>. QED  BY <1>3, <1>4 DEF WF

\* u is t with node n in the place of v.
Replaced(t, u, v, n) ==
    LET p == t.parent[v]
    IN  /\ u \in Tree /\ u.nodes = (t.nodes \ {v}) \cup {n}
        /\ u.root = IF p = Nil THEN n ELSE t.root
        /\ \A x \in u.nodes : u.parent[x] =
             IF x = n THEN p ELSE IF t.parent[x] = v THEN n ELSE t.parent[x]
        /\ \A d \in Side, x \in u.nodes : u.child[d][x] =
             IF x = n THEN t.child[d][v]
             ELSE IF x = p /\ t.child[d][p] = v THEN n ELSE t.child[d][x]

\* A new node in the place of an old one keeps the pointers in agreement.
LEMMA ReplacedWF ==
    ASSUME NEW t \in Tree, WF(t), NEW v \in t.nodes, NEW n \in Node, n \notin t.nodes,
           NEW u \in Tree, Replaced(t, u, v, n)
    PROVE  WF(u)
<1>. DEFINE p == t.parent[v]
<1>1. /\ u.nodes = (t.nodes \ {v}) \cup {n}
      /\ u.root = IF p = Nil THEN n ELSE t.root
      /\ \A x \in u.nodes : u.parent[x] =
           IF x = n THEN p ELSE IF t.parent[x] = v THEN n ELSE t.parent[x]
      /\ \A d \in Side, x \in u.nodes : u.child[d][x] =
           IF x = n THEN t.child[d][v]
           ELSE IF x = p /\ t.child[d][p] = v THEN n ELSE t.child[d][x]
  BY DEF Replaced
<1>2. n # Nil /\ Nil \notin t.nodes /\ v # Nil /\ v # n /\ p # n /\ p # v /\ p \in t.nodes \cup {Nil}
  BY LinksAt, Distinct, RBAssumption
<1>3. (p = Nil <=> v = t.root) /\ (p # Nil => \E d \in Side : t.child[d][p] = v)
      /\ \A d \in Side :
               /\ t.child[d][v] \in t.nodes \cup {Nil}
               /\ t.child[d][v] # Nil => /\ t.parent[t.child[d][v]] = v
                                         /\ t.child[d][v] # t.child[Opp(d)][v]
               /\ t.child[d][v] # v
  BY LinksAt, Distinct
<1>4. t.parent[v] = p
  OBVIOUS
<1>. HIDE DEF p
<1>5. Acyclic(u)
  <2>. SUFFICES ASSUME NEW S \in SUBSET u.nodes, S # {}, \A x \in S : u.parent[x] \in S
                PROVE  FALSE
    BY DEF Acyclic
  <2>. DEFINE R == IF n \in S THEN (S \ {n}) \cup {v} ELSE S
  <2>1. R \in SUBSET t.nodes /\ R # {}
    BY <1>1
  <2>2. \A x \in S \ {n} : t.parent[x] \in R
    BY <1>1, <1>2, LinksAt
  <2>3. n \in S => p \in R
    BY <1>1, <1>2
  <2>4. \A x \in R : t.parent[x] \in R
    BY <1>4, <2>2, <2>3
  <2>. HIDE DEF R
  <2>. QED  BY <2>1, <2>4 DEF WF, Acyclic
<1>6. Links(u)
  <2>1. u.root \in u.nodes \cup {Nil}
    BY <1>1, <1>3 DEF WF, Links
  <2>. SUFFICES ASSUME NEW x \in u.nodes
                PROVE  /\ u.parent[x] \in u.nodes \cup {Nil}
                       /\ u.parent[x] = Nil <=> x = u.root
                       /\ u.parent[x] # Nil => \E d \in Side : u.child[d][u.parent[x]] = x
                       /\ \A d \in Side :
                            /\ u.child[d][x] \in u.nodes \cup {Nil}
                            /\ u.child[d][x] # Nil =>
                                /\ u.parent[u.child[d][x]] = x
                                /\ u.child[d][x] # u.child[Opp(d)][x]
    BY <2>1 DEF Links
  <2>2. CASE x = n
    <3>1. u.parent[x] \in u.nodes \cup {Nil} /\ (u.parent[x] = Nil <=> x = u.root)
      <4>1. t.root # n
        BY <1>2 DEF WF, Links
      <4>. QED  BY <1>1, <1>2, <2>2, <4>1
    <3>2. u.parent[x] # Nil => \E d \in Side : u.child[d][u.parent[x]] = x
      BY <1>1, <1>2, <1>3, <2>2, <3>1
    <3>3. ASSUME NEW d \in Side
          PROVE  /\ u.child[d][x] \in u.nodes \cup {Nil}
                 /\ u.child[d][x] # Nil => u.parent[u.child[d][x]] = x
                 /\ u.child[d][x] # Nil => u.child[d][x] # u.child[Opp(d)][x]
      <4>1. \A e \in Side : u.child[e][x] = t.child[e][v]
        BY <1>1, <2>2
      <4>2. u.child[d][x] \in u.nodes \cup {Nil}
        BY <1>1, <1>3, <4>1
      <4>3. u.child[d][x] # Nil => u.parent[u.child[d][x]] = x
        BY <1>1, <1>3, <2>2, <4>1, <4>2
      <4>4. u.child[d][x] # Nil => u.child[d][x] # u.child[Opp(d)][x]
        BY <1>3, <4>1, OppSide
      <4>. QED  BY <4>2, <4>3, <4>4
    <3>. QED  BY <3>1, <3>2, <3>3
  <2>3. CASE x # n
    <3>1. x \in t.nodes /\ x # v
      BY <1>1, <2>3
    <3>2. /\ t.parent[x] \in t.nodes \cup {Nil}
          /\ t.parent[x] = Nil <=> x = t.root
          /\ t.parent[x] # Nil => \E d \in Side : t.child[d][t.parent[x]] = x
          /\ \A d \in Side :
               /\ t.child[d][x] \in t.nodes \cup {Nil}
               /\ t.child[d][x] # Nil => /\ t.parent[t.child[d][x]] = x
                                         /\ t.child[d][x] # t.child[Opp(d)][x]
      BY <3>1, LinksAt
    <3>3. u.parent[x] = IF t.parent[x] = v THEN n ELSE t.parent[x]
      BY <1>1, <2>3
    <3>4. u.parent[x] \in u.nodes \cup {Nil} /\ (u.parent[x] = Nil <=> x = u.root)
      BY <1>1, <1>2, <1>3, <2>3, <3>1, <3>2, <3>3
    <3>5. u.parent[x] # Nil => \E d \in Side : u.child[d][u.parent[x]] = x
      <4>1. CASE t.parent[x] = v
        BY <1>1, <1>2, <3>2, <3>3, <4>1
      <4>2. CASE t.parent[x] # v /\ t.parent[x] # Nil
        <5>1. PICK d \in Side : t.child[d][t.parent[x]] = x
          BY <3>2, <4>2
        <5>2. t.parent[x] \in u.nodes /\ t.parent[x] # n
          BY <1>1, <3>2, <4>2
        <5>3. u.child[d][t.parent[x]] = x
          BY <1>1, <3>1, <5>1, <5>2
        <5>. QED  BY <3>3, <4>2, <5>3
      <4>3. CASE t.parent[x] = Nil
        BY <1>2, <3>3, <4>3
      <4>. QED  BY <4>1, <4>2, <4>3
    <3>6. ASSUME NEW d \in Side
          PROVE  /\ u.child[d][x] \in u.nodes \cup {Nil}
                 /\ u.child[d][x] # Nil => u.parent[u.child[d][x]] = x
                 /\ u.child[d][x] # Nil => u.child[d][x] # u.child[Opp(d)][x]
      <4>1. \A e \in Side : u.child[e][x] = IF x = p /\ t.child[e][x] = v THEN n ELSE t.child[e][x]
        BY <1>1, <2>3
      <4>2. \A e \in Side : t.child[e][x] = v => x = p
        BY <1>2, <1>4, <3>2
      <4>3. \A e \in Side : t.child[e][x] # n
        BY <1>2, <3>2
      <4>4. u.child[d][x] \in u.nodes \cup {Nil}
        BY <1>1, <3>2, <4>1, <4>2
      <4>5. u.child[d][x] # Nil => u.parent[u.child[d][x]] = x
        <5>1. CASE t.child[d][x] = v
          BY <1>1, <4>1, <4>2, <5>1
        <5>2. CASE t.child[d][x] # v
          BY <1>1, <3>1, <3>2, <4>1, <4>3, <4>4, <5>2
        <5>. QED  BY <5>1, <5>2
      <4>6. u.child[d][x] # Nil => u.child[d][x] # u.child[Opp(d)][x]
        BY <1>2, <3>2, <4>1, <4>2, <4>3, OppSide
      <4>. QED  BY <4>4, <4>5, <4>6
    <3>. QED  BY <3>4, <3>5, <3>6
  <2>. QED  BY <2>2, <2>3
<1>. QED  BY <1>5, <1>6 DEF WF

-----------------------------------------------------------------------------
(* The routines of rbtree.c make these changes.                             *)

\* A store to the set of nodes.
LEMMA NodesFields ==
    ASSUME NEW t \in Tree, NEW S \in SUBSET Node
    PROVE  LET u == [t EXCEPT !.nodes = S] IN
           /\ u \in Tree /\ u.nodes = S
           /\ u.root = t.root /\ u.child = t.child /\ u.parent = t.parent /\ u.color = t.color
BY NodesType DEF Tree

\* rb_link_node adds a leaf.
LEMMA LinkNodeFields ==
    ASSUME NEW t \in Tree, NEW n \in Node, n \notin t.nodes, NEW p \in t.nodes \cup {Nil},
           NEW s \in Side
    PROVE  /\ Linked(t, rb_link_node(t, n, p, s), n, p, s)
           /\ \A x \in Node : rb_link_node(t, n, p, s).color[x] = IF x = n THEN RED ELSE t.color[x]
<1>. DEFINE a == SetParent(t, n, p)
            b == Paint(a, n, RED)
            c == SetChild(b, "left", n, Nil)
            d == SetChild(c, "right", n, Nil)
            e == [d EXCEPT !.nodes = @ \cup {n}]
            u == IF p = Nil THEN [e EXCEPT !.root = n] ELSE SetChild(e, s, p, n)
<1>1. n \in Ptr /\ p \in Ptr /\ Nil \in Ptr /\ n # Nil /\ (p # Nil => p \in Node) /\ p # n
  BY RBAssumption DEF Tree, Ptr
<1>2. "left" \in Side /\ "right" \in Side /\ \A x \in Side : x = "left" \/ x = "right"
  BY DEF Side
<1>3. u = rb_link_node(t, n, p, s)
  BY DEF rb_link_node
<1>t. a \in Tree
  BY <1>1, SetParentType
<1>4. /\ a \in Tree /\ a.root = t.root /\ a.child = t.child /\ a.color = t.color /\ a.nodes = t.nodes
      /\ \A x \in Node : a.parent[x] = IF x = n THEN p ELSE t.parent[x]
  BY <1>1, SetParentFields
<1>. HIDE DEF a
<1>u. b \in Tree
  BY <1>t, PaintType
<1>5. /\ b \in Tree /\ b.root = a.root /\ b.child = a.child /\ b.parent = a.parent /\ b.nodes = a.nodes
      /\ \A x \in Node : b.color[x] = IF x = n THEN RED ELSE a.color[x]
  BY <1>1, <1>t, PaintFields
<1>. HIDE DEF b
<1>v. c \in Tree
  BY <1>1, <1>2, <1>u, SetChildType
<1>6. /\ c \in Tree /\ c.root = b.root /\ c.parent = b.parent /\ c.color = b.color /\ c.nodes = b.nodes
      /\ \A g \in Side, x \in Node :
            c.child[g][x] = IF g = "left" /\ x = n THEN Nil ELSE b.child[g][x]
  BY <1>1, <1>2, <1>u, SetChildFields
<1>. HIDE DEF c
<1>7. /\ d \in Tree /\ d.root = c.root /\ d.parent = c.parent /\ d.color = c.color /\ d.nodes = c.nodes
      /\ \A g \in Side, x \in Node :
            d.child[g][x] = IF g = "right" /\ x = n THEN Nil ELSE c.child[g][x]
  BY <1>1, <1>2, <1>v, SetChildFields
<1>. HIDE DEF d
<1>8. /\ e \in Tree /\ e.nodes = d.nodes \cup {n} /\ e.root = d.root /\ e.child = d.child
      /\ e.parent = d.parent /\ e.color = d.color
  <2>1. d.nodes \cup {n} \in SUBSET Node
    BY <1>7 DEF Tree
  <2>. QED  BY <1>7, <2>1, NodesFields
<1>. HIDE DEF e
<1>w. e \in Tree
  BY <1>8
<1>9. /\ u \in Tree /\ u.nodes = e.nodes /\ u.root = (IF p = Nil THEN n ELSE e.root)
      /\ u.parent = e.parent /\ u.color = e.color
      /\ \A g \in Side, x \in Node :
            u.child[g][x] = IF p # Nil /\ g = s /\ x = p THEN n ELSE e.child[g][x]
  <2>1. CASE p = Nil
    BY <1>1, <1>w, <2>1, RootFields
  <2>2. CASE p # Nil
    <3>1. p \in Node /\ u = SetChild(e, s, p, n)
      BY <1>1, <2>2
    <3>. QED  BY <1>1, <1>w, <2>2, <3>1, SetChildFields
  <2>. QED  BY <2>1, <2>2
<1>. HIDE DEF u
<1>10. u.nodes \subseteq Node
  BY <1>9 DEF Tree
<1>11. \A g \in Side, x \in Node : u.child[g][x] =
            IF x = n THEN Nil ELSE IF x = p /\ g = s THEN n ELSE t.child[g][x]
  BY <1>1, <1>2, <1>4, <1>5, <1>6, <1>7, <1>8, <1>9, RBAssumption
<1>. QED  BY <1>3, <1>4, <1>5, <1>6, <1>7, <1>8, <1>9, <1>10, <1>11 DEF Linked

\* The pointers that Replace stores.
LEMMA ReplaceFields ==
    ASSUME NEW t \in Tree, NEW v \in Node, NEW n \in Node,
           t.parent[v] # n, \A d \in Side : t.child[d][v] # n,
           t.parent[v] # Nil => /\ \E d \in Side : t.child[d][t.parent[v]] = v
                                /\ \A d \in Side : t.child[d][t.parent[v]] = v
                                                    => t.child[Opp(d)][t.parent[v]] # v
    PROVE  LET u == Replace(t, v, n) 
               p == t.parent[v] IN
           /\ u \in Tree /\ u.nodes = t.nodes
           /\ u.root = IF p = Nil THEN n ELSE t.root
           /\ \A x \in Node : u.color[x] = IF x = n THEN t.color[v] ELSE t.color[x]
           /\ \A x \in Node : u.parent[x] =
                IF x = n THEN p
                ELSE IF \E d \in Side : x = t.child[d][v] THEN n ELSE t.parent[x]
           /\ \A d \in Side, x \in Node : u.child[d][x] =
                IF x = n THEN t.child[d][v]
                ELSE IF x = p /\ t.child[d][p] = v THEN n ELSE t.child[d][x]
<1>. DEFINE p  == t.parent[v]
            rt == t.child["right"][v]
            lt == t.child["left"][v]
            col == t.color[v]
            a == SetParent(t, n, p)
            b == Paint(a, n, col)
            c == SetChild(b, "right", n, rt)
            d == SetChild(c, "left", n, lt)
            e == Relink(d, p, "left", v, n)
            f == SetParent(e, lt, n)
            u == SetParent(f, rt, n)
<1>1. "left" \in Side /\ "right" \in Side /\ Opp("left") = "right" /\ Opp("right") = "left"
      /\ \A x \in Side : x = "left" \/ x = "right"
  BY DEF Side, Opp
<1>2. /\ p \in Ptr /\ rt \in Ptr /\ lt \in Ptr /\ n \in Ptr /\ col \in {RED, BLACK}
      /\ n # Nil /\ p # n /\ rt # n /\ lt # n
      /\ p # Nil => (t.child["left"][p] = v \/ t.child["right"][p] = v)
                    /\ ~(t.child["left"][p] = v /\ t.child["right"][p] = v)
  BY <1>1, RBAssumption DEF Tree, Ptr
<1>3. u = Replace(t, v, n)
  BY DEF Replace
<1>a. rt = t.child["right"][v] /\ lt = t.child["left"][v] /\ p = t.parent[v]
      /\ col = t.color[v]
  OBVIOUS
<1>. HIDE DEF p, rt, lt, col
<1>b. p \in Ptr /\ rt \in Ptr /\ lt \in Ptr /\ n \in Ptr /\ col \in {RED, BLACK}
      /\ "left" \in Side /\ "right" \in Side
  BY <1>1, <1>2
<1>t. a \in Tree
  BY <1>2, SetParentType
<1>4. /\ a \in Tree /\ a.root = t.root /\ a.child = t.child /\ a.color = t.color /\ a.nodes = t.nodes
      /\ \A x \in Node : a.parent[x] = IF x = n THEN p ELSE t.parent[x]
  BY <1>2, SetParentFields
<1>. HIDE DEF a
<1>u. b \in Tree
  BY <1>2, <1>t, PaintType
<1>5. /\ b \in Tree /\ b.root = a.root /\ b.child = a.child /\ b.parent = a.parent /\ b.nodes = a.nodes
      /\ \A x \in Node : b.color[x] = IF x = n THEN col ELSE a.color[x]
  <2>1. n \in Ptr /\ col \in {RED, BLACK}
    BY <1>b
  <2>. HIDE DEF b
  <2>. QED  BY <2>1, <1>t, PaintFields DEF b
<1>. HIDE DEF b
<1>v. c \in Tree
  BY <1>1, <1>2, <1>u, SetChildType
<1>6. /\ c \in Tree /\ c.root = b.root /\ c.parent = b.parent /\ c.color = b.color /\ c.nodes = b.nodes
      /\ \A g \in Side, x \in Node :
            c.child[g][x] = IF g = "right" /\ x = n THEN rt ELSE b.child[g][x]
  BY <1>b, <1>u, SetChildFields
<1>. HIDE DEF c
<1>w. d \in Tree
  BY <1>1, <1>2, <1>v, SetChildType
<1>7. /\ d \in Tree /\ d.root = c.root /\ d.parent = c.parent /\ d.color = c.color /\ d.nodes = c.nodes
      /\ \A g \in Side, x \in Node :
            d.child[g][x] = IF g = "left" /\ x = n THEN lt ELSE c.child[g][x]
  BY <1>b, <1>v, SetChildFields
<1>. HIDE DEF d
<1>x. e \in Tree
  BY <1>1, <1>2, <1>w, RelinkType
<1>8. /\ e \in Tree /\ e.parent = d.parent /\ e.color = d.color /\ e.nodes = d.nodes
      /\ e.root = IF p = Nil THEN n ELSE d.root
      /\ p = Nil => e.child = d.child
      /\ p # Nil => \A g \in Side, x \in Node :
               e.child[g][x] =
                   IF x = p /\ g = (IF d.child["left"][p] = v THEN "left" ELSE Opp("left"))
                   THEN n ELSE d.child[g][x]
  BY <1>b, <1>w, RelinkFields
<1>. HIDE DEF e
<1>y. f \in Tree
  BY <1>2, <1>x, SetParentType
<1>9. /\ f \in Tree /\ f.root = e.root /\ f.child = e.child /\ f.color = e.color /\ f.nodes = e.nodes
      /\ \A x \in Node : f.parent[x] = IF x = lt THEN n ELSE e.parent[x]
  BY <1>b, <1>x, SetParentFields
<1>. HIDE DEF f
<1>10. /\ u \in Tree /\ u.root = f.root /\ u.child = f.child /\ u.color = f.color /\ u.nodes = f.nodes
       /\ \A x \in Node : u.parent[x] = IF x = rt THEN n ELSE f.parent[x]
  BY <1>b, <1>y, SetParentFields
<1>. HIDE DEF u
<1>11. \A x \in Node : u.parent[x] = IF x = n THEN p
                                     ELSE IF x = lt \/ x = rt THEN n ELSE t.parent[x]
  BY <1>2, <1>4, <1>5, <1>6, <1>7, <1>8, <1>9, <1>10
<1>12. \A x \in Node : (x = lt \/ x = rt) <=> \E g \in Side : x = t.child[g][v]
  BY <1>1, <1>a
<1>13. \A x \in Node : u.parent[x] = IF x = n THEN p
                                     ELSE IF \E g \in Side : x = t.child[g][v] THEN n ELSE t.parent[x]
  BY <1>11, <1>12
<1>14. \A g \in Side, x \in Node : d.child[g][x] = IF x = n THEN t.child[g][v] ELSE t.child[g][x]
  BY <1>1, <1>4, <1>5, <1>6, <1>7, <1>a
<1>15. ASSUME NEW g \in Side, NEW x \in Node
       PROVE  u.child[g][x] = IF x = n THEN t.child[g][v]
                 ELSE IF x = p /\ t.child[g][p] = v THEN n ELSE t.child[g][x]
  <2>1. CASE x = p
    <3>1. p \in Node /\ p # Nil /\ p # n
      BY <1>2, <2>1, RBAssumption
    <3>2. d.child["left"][p] = t.child["left"][p]
      BY <1>1, <1>14, <3>1
    <3>. QED  BY <1>1, <1>2, <1>8, <1>9, <1>10, <1>14, <2>1, <3>1, <3>2
  <2>2. CASE x # p
    BY <1>8, <1>9, <1>10, <1>14, <2>2
  <2>. QED  BY <2>1, <2>2
<1>16. u.nodes = t.nodes /\ u.root = (IF p = Nil THEN n ELSE t.root)
       /\ \A x \in Node : u.color[x] = IF x = n THEN t.color[v] ELSE t.color[x]
  BY <1>4, <1>5, <1>6, <1>7, <1>8, <1>9, <1>10, <1>a
<1>. QED  BY <1>3, <1>10, <1>13, <1>15, <1>16 DEF p

\* __rb_rotate_left and __rb_rotate_right.
LEMMA RotateWF ==
    ASSUME NEW t \in Tree, WF(t), NEW n \in t.nodes, NEW s \in Side,
           t.child[Opp(s)][n] # Nil
    PROVE  /\ Rotate(t, n, s) \in Tree /\ WF(Rotate(t, n, s))
           /\ Rotate(t, n, s).nodes = t.nodes
<1>1. Rotated(t, Rotate(t, n, s), n, s)
  BY RotateFields
<1>2. Rotate(t, n, s) \in Tree /\ Rotate(t, n, s).nodes = t.nodes
  BY <1>1 DEF Rotated
<1>. QED  BY <1>1, <1>2, RotatedWF

\* rb_erase of a node with at most one child.
LEMMA EraseFields ==
    ASSUME NEW t \in Tree, WF(t), NEW n \in t.nodes, NEW c, OnlyChild(t, n, c)
    PROVE  LET p == t.parent[n]
               b == Relink(SetParent(t, c, p), p, "left", n, c)
           IN  /\ b \in Tree /\ b.color = t.color
               /\ Cut(t, [b EXCEPT !.nodes = @ \ {n}], n, c)
<1>. DEFINE p == t.parent[n]
            a == SetParent(t, c, p)
            b == Relink(a, p, "left", n, c)
            u == [b EXCEPT !.nodes = @ \ {n}]
<1>1. "left" \in Side /\ Opp("left") = "right" /\ \A x \in Side : x = "left" \/ x = "right"
  BY DEF Side, Opp
<1>2. c \in Ptr /\ p \in Ptr /\ (p # Nil => p \in t.nodes /\ p \in Node)
  BY LinksAt, OppSide DEF OnlyChild
<1>3. p # Nil => /\ t.child["left"][p] = n \/ t.child["right"][p] = n
                 /\ ~(t.child["left"][p] = n /\ t.child["right"][p] = n)
  BY <1>1, <1>2, LinksAt
<1>. HIDE DEF p
<1>4. a \in Tree
  BY <1>2, SetParentType
<1>5. /\ a.root = t.root /\ a.child = t.child /\ a.color = t.color /\ a.nodes = t.nodes
      /\ \A x \in Node : a.parent[x] = IF x = c THEN p ELSE t.parent[x]
  BY <1>2, SetParentFields
<1>. HIDE DEF a
<1>6. b \in Tree
  BY <1>1, <1>2, <1>4, RelinkType
<1>7. /\ b.parent = a.parent /\ b.color = a.color /\ b.nodes = a.nodes
      /\ b.root = IF p = Nil THEN c ELSE a.root
      /\ p = Nil => b.child = a.child
      /\ p # Nil => \A d \in Side, x \in Node :
               b.child[d][x] =
                   IF x = p /\ d = (IF a.child["left"][p] = n THEN "left" ELSE Opp("left"))
                   THEN c ELSE a.child[d][x]
  BY <1>1, <1>2, <1>4, RelinkFields
<1>. HIDE DEF b
<1>8. /\ u \in Tree /\ u.nodes = b.nodes \ {n}
      /\ u.root = b.root /\ u.child = b.child /\ u.parent = b.parent /\ u.color = b.color
  <2>1. b.nodes \ {n} \in SUBSET Node
    BY <1>6 DEF Tree
  <2>. QED  BY <1>6, <2>1, NodesFields
<1>. HIDE DEF u
<1>9. u.nodes \subseteq Node /\ Nil \notin u.nodes
  BY <1>8, RBAssumption DEF Tree
<1>10. \A d \in Side, x \in u.nodes : u.child[d][x] =
          IF x = p /\ t.child[d][p] = n THEN c ELSE t.child[d][x]
  BY <1>1, <1>3, <1>5, <1>7, <1>8, <1>9
<1>11. \A x \in u.nodes : u.parent[x] = IF x = c THEN p ELSE t.parent[x]
  BY <1>5, <1>7, <1>8, <1>9
<1>12. Cut(t, u, n, c)
  BY <1>5, <1>7, <1>8, <1>10, <1>11 DEF Cut, p
<1>. QED  BY <1>5, <1>6, <1>7, <1>12 DEF u, b, a, p

\* The nodes of the tree next to the one that rb_erase takes out.
LEMMA CutAt ==
    ASSUME NEW t \in Tree, WF(t), NEW n \in t.nodes, NEW c, OnlyChild(t, n, c),
           NEW u \in Tree, Cut(t, u, n, c)
    PROVE  /\ c \in u.nodes \cup {Nil} /\ t.parent[n] \in Ptr /\ c \in Ptr
           /\ c # u.root => /\ t.parent[n] \in u.nodes
                            /\ \E s \in Side : u.child[s][t.parent[n]] = c
<1>1. c \in u.nodes \cup {Nil}
  BY CutWF
<1>2. t.parent[n] # Nil => t.parent[n] \in u.nodes /\ \E s \in Side : t.child[s][t.parent[n]] = n
  BY LinksAt, Distinct DEF Cut
<1>3. c \in Ptr /\ t.parent[n] \in Ptr
  BY LinksAt, OppSide DEF OnlyChild
<1>. QED  BY <1>1, <1>2, <1>3 DEF Cut

-----------------------------------------------------------------------------
(* The inductive invariant.                                                 *)

\* rb_erase is looking for the successor of old and has come to node, which is
\* in a set D of nodes below old, reached through the right child of old first
\* and through left children from then on.
SuccessorBelow ==
    /\ old \in T.nodes /\ node \in T.nodes
    /\ \A s \in Side : T.child[s][old] # Nil
    /\ \E D \in SUBSET T.nodes :
        node \in D /\ old \notin D /\ \A x \in D : T.parent[x] \in D \cup {old}
    /\ T.parent[node] = old => T.child["right"][old] = node
    /\ T.parent[node] # old => T.child["left"][T.parent[node]] = node

\* __rb_erase_color is at node, a child of par if it is not the root.
ShortBelowPar ==
    /\ node \in T.nodes \cup {Nil}
    /\ node # T.root => /\ par \in T.nodes
                       /\ \E s \in Side : T.child[s][par] = node

LinksInv ==
    /\ TypeInv
    /\ \A r \in Root : WF(trees[r])
    /\ pc = "descend" => Unused(node) /\ par \in T.nodes \cup {Nil}
    /\ pc = "insert_color" => node \in T.nodes
    /\ pc = "successor" => SuccessorBelow
    /\ pc = "erase_color" => ShortBelowPar

\* The initial state.
LEMMA InitLinksInv == Init => LinksInv
<1>. SUFFICES ASSUME Init PROVE LinksInv
  OBVIOUS
<1>1. TypeInv
  BY InitTypeInv
<1>2. WF(RB_ROOT)
  BY DEF WF, Links, Acyclic, RB_ROOT
<1>. QED  BY <1>1, <1>2 DEF LinksInv, Init

\* A store to one tree leaves the others alone.
LEMMA StoreWF ==
    ASSUME LinksInv, NEW r \in Root, NEW u \in Tree, WF(u), trees' = [trees EXCEPT ![r] = u]
    PROVE  trees'[r] = u /\ \A q \in Root : WF(trees'[q])
BY DEF LinksInv, TypeInv, TypeOK

\* What a step of a routine in progress has to work on.
LEMMA WorksOn == ASSUME LinksInv, pc # "idle" PROVE cur \in Root /\ T \in Tree /\ WF(T)
BY InProgress DEF LinksInv, T

\* The tail of rb_erase.
LEMMA UnlinkedLinksInv ==
    ASSUME LinksInv, TypeInv', NEW r \in Root, NEW t \in Tree, NEW c, NEW p, NEW color,
           NEW victim, Unlinked(r, t, c, p, color, victim),
           NEW u \in Tree, u = [t EXCEPT !.nodes = @ \ {victim}], WF(u),
           c \in u.nodes \cup {Nil},
           c # u.root => p \in u.nodes /\ \E s \in Side : u.child[s][p] = c
    PROVE  LinksInv'
<1>1. CASE color = BLACK
  <2>1. /\ trees' = [trees EXCEPT ![r] = u]
        /\ pc' = "erase_color" /\ cur' = r /\ node' = c /\ par' = p
    BY <1>1 DEF Unlinked
  <2>2. trees'[r] = u /\ \A q \in Root : WF(trees'[q])
    BY <2>1, StoreWF
  <2>3. T' = u
    BY <2>1, <2>2 DEF T
  <2>4. ShortBelowPar'
    BY <2>1, <2>3 DEF ShortBelowPar
  <2>. QED  BY <2>1, <2>2, <2>4 DEF LinksInv
<1>2. CASE color # BLACK
  <2>1. trees' = [trees EXCEPT ![r] = Freed(u)] /\ pc' = "idle"
    BY <1>2 DEF Unlinked, Return
  <2>2. Freed(u) \in Tree /\ WF(Freed(u))
    BY FreedFields, SamePointersWF
  <2>3. \A q \in Root : WF(trees'[q])
    BY <2>1, <2>2, StoreWF
  <2>. QED  BY <2>1, <2>3 DEF LinksInv
<1>. QED  BY <1>1, <1>2

\* The walk to the successor never comes back to the node being erased.
LEMMA SuccessorNotAbove ==
    ASSUME LinksInv, pc = "successor", SuccessorBelow
    PROVE  /\ old # node /\ T.parent[old] # node
           /\ \A s \in Side : T.child[s][node] # old
<1>1. cur \in Root /\ T \in Tree /\ WF(T)
  BY WorksOn
<1>2. PICK D \in SUBSET T.nodes :
        node \in D /\ old \notin D /\ \A x \in D : T.parent[x] \in D \cup {old}
  BY DEF SuccessorBelow
<1>3. D \cup {old} \in SUBSET T.nodes /\ D \cup {old} # {}
  BY DEF SuccessorBelow
<1>4. T.parent[old] \notin D
  BY <1>1, <1>2, <1>3 DEF WF, Acyclic
<1>5. node \in T.nodes /\ old \in T.nodes /\ old # Nil
  BY <1>1, LinksAt DEF SuccessorBelow
<1>6. \A s \in Side : T.child[s][node] # old
  <2>. SUFFICES ASSUME NEW s \in Side PROVE T.child[s][node] # old
    OBVIOUS
  <2>1. T.child[s][node] # Nil => T.parent[T.child[s][node]] = node
    BY <1>1, <1>5, LinksAt
  <2>. QED  BY <1>2, <1>4, <1>5, <2>1
<1>. QED  BY <1>2, <1>4, <1>6

\* The first half of the unlinking of a node with two children: its successor
\* leaves its place to its right child.
LEMMA SpliceCut ==
    ASSUME LinksInv, pc = "successor", SuccessorBelow,
           T.child["left"][node] = Nil, T.parent[node] # Nil
    PROVE  LET c  == T.child["right"][node]
               p  == T.parent[node]
               e  == IF p = old THEN "right" ELSE "left"
               t1 == SetChild(SetParent(T, c, p), e, p, c)
           IN  /\ t1 \in Tree /\ t1.nodes = T.nodes /\ t1.color = T.color
               /\ T.child[e][p] = node /\ e \in Side
               /\ Cut(T, [t1 EXCEPT !.nodes = @ \ {node}], node, c)
<1>. DEFINE c  == T.child["right"][node]
            p  == T.parent[node]
            e  == IF p = old THEN "right" ELSE "left"
            a  == SetParent(T, c, p)
            t1 == SetChild(a, e, p, c)
            u  == [t1 EXCEPT !.nodes = @ \ {node}]
<1>1. cur \in Root /\ T \in Tree /\ WF(T)
  BY WorksOn
<1>2. node \in T.nodes /\ old \in T.nodes
  BY DEF SuccessorBelow
<1>3. "left" \in Side /\ "right" \in Side /\ Opp("left") = "right" /\ Opp("right") = "left"
      /\ \A x \in Side : x = "left" \/ x = "right"
  BY DEF Side, Opp
<1>4. c \in Ptr /\ p \in Ptr /\ p \in Node /\ p \in T.nodes /\ p # Nil
  BY <1>1, <1>2, <1>3, LinksAt DEF Ptr
<1>5. T.child[e][p] = node /\ e \in Side /\ (\A x \in Side : x = e \/ x = Opp(e))
  BY <1>3 DEF SuccessorBelow
<1>6. T.child[Opp(e)][p] # node
  <2>1. node # Nil
    BY <1>1, <1>2, LinksAt
  <2>. HIDE DEF e, p
  <2>. QED  BY <1>1, <1>4, <1>5, <2>1, LinksAt
<1>. HIDE DEF p, e, c
<1>7. a \in Tree
  BY <1>1, <1>4, SetParentType
<1>8. /\ a.root = T.root /\ a.child = T.child /\ a.color = T.color /\ a.nodes = T.nodes
      /\ \A x \in Node : a.parent[x] = IF x = c THEN p ELSE T.parent[x]
  BY <1>1, <1>4, SetParentFields
<1>. HIDE DEF a
<1>9. t1 \in Tree
  BY <1>4, <1>5, <1>7, SetChildType
<1>10. /\ t1.root = a.root /\ t1.parent = a.parent /\ t1.color = a.color /\ t1.nodes = a.nodes
       /\ \A d \in Side, x \in Node :
            t1.child[d][x] = IF d = e /\ x = p THEN c ELSE a.child[d][x]
  BY <1>4, <1>5, <1>7, SetChildFields
<1>. HIDE DEF t1
<1>11. /\ u \in Tree /\ u.nodes = t1.nodes \ {node}
       /\ u.root = t1.root /\ u.child = t1.child /\ u.parent = t1.parent /\ u.color = t1.color
  <2>1. t1.nodes \ {node} \in SUBSET Node
    BY <1>9 DEF Tree
  <2>. QED  BY <1>9, <2>1, NodesFields
<1>. HIDE DEF u
<1>12. u.nodes \subseteq Node
  BY <1>11 DEF Tree
<1>13. \A d \in Side, x \in u.nodes : u.child[d][x] =
          IF x = p /\ T.child[d][p] = node THEN c ELSE T.child[d][x]
  BY <1>5, <1>6, <1>8, <1>10, <1>11, <1>12
<1>14. \A x \in u.nodes : u.parent[x] = IF x = c THEN p ELSE T.parent[x]
  BY <1>8, <1>10, <1>11, <1>12
<1>15. Cut(T, u, node, c)
  BY <1>4, <1>8, <1>10, <1>11, <1>13, <1>14 DEF Cut, p
<1>16. t1.nodes = T.nodes /\ t1.color = T.color
  BY <1>8, <1>10
<1>. QED  BY <1>5, <1>9, <1>15, <1>16, Zenon DEF u, t1, a, p, e, c

\* The second half: a node that is not in the tree takes the place of one that
\* is, whether or not the tree counts it already.
LEMMA ReplaceReplaced ==
    ASSUME NEW t \in Tree, NEW k \in Tree, WF(k), NEW v \in k.nodes, NEW n \in Node,
           n \notin k.nodes, k.root = t.root, k.child = t.child, k.parent = t.parent
    PROVE  /\ Replaced(k, [Replace(t, v, n) EXCEPT !.nodes = (k.nodes \ {v}) \cup {n}], v, n)
           /\ Replace(t, v, n) \in Tree /\ Replace(t, v, n).nodes = t.nodes
           /\ \A x \in Node :
                Replace(t, v, n).color[x] = IF x = n THEN t.color[v] ELSE t.color[x]
<1>. DEFINE w == Replace(t, v, n)
            S == (k.nodes \ {v}) \cup {n}
            u == [w EXCEPT !.nodes = S]
            p == k.parent[v]
<1>1. v \in Node /\ p # n /\ n # Nil /\ (\A d \in Side : k.child[d][v] # n)
      /\ (p # Nil => /\ p \in k.nodes /\ \E d \in Side : k.child[d][p] = v)
  BY LinksAt, RBAssumption
<1>2. p # Nil => \A d \in Side : k.child[d][p] = v => k.child[Opp(d)][p] # v
  <2>. SUFFICES ASSUME p # Nil, NEW d \in Side, k.child[d][p] = v PROVE k.child[Opp(d)][p] # v
    OBVIOUS
  <2>1. p \in k.nodes /\ v # Nil
    BY <1>1, LinksAt
  <2>. HIDE DEF p
  <2>2. k.child[d][p] # Nil => k.child[d][p] # k.child[Opp(d)][p]
    <3>1. k \in Tree /\ WF(k) /\ p \in k.nodes /\ d \in Side
      BY <2>1
    <3>. QED  BY <3>1 DEF WF, Links
  <2>. QED  BY <2>1, <2>2
<1>3. /\ w \in Tree /\ w.nodes = t.nodes
      /\ w.root = IF p = Nil THEN n ELSE t.root
      /\ \A x \in Node : w.color[x] = IF x = n THEN t.color[v] ELSE t.color[x]
      /\ \A x \in Node : w.parent[x] =
           IF x = n THEN p
           ELSE IF \E d \in Side : x = k.child[d][v] THEN n ELSE k.parent[x]
      /\ \A d \in Side, x \in Node : w.child[d][x] =
           IF x = n THEN k.child[d][v]
           ELSE IF x = p /\ k.child[d][p] = v THEN n ELSE k.child[d][x]
  <2>1. t.parent[v] # n /\ (\A d \in Side : t.child[d][v] # n)
        /\ (t.parent[v] # Nil => /\ \E d \in Side : t.child[d][t.parent[v]] = v
                                 /\ \A d \in Side : t.child[d][t.parent[v]] = v
                                                    => t.child[Opp(d)][t.parent[v]] # v)
    BY <1>1, <1>2
  <2>. HIDE DEF w
  <2>2. /\ w \in Tree /\ w.nodes = t.nodes
        /\ w.root = IF t.parent[v] = Nil THEN n ELSE t.root
        /\ \A x \in Node : w.color[x] = IF x = n THEN t.color[v] ELSE t.color[x]
        /\ \A x \in Node : w.parent[x] =
             IF x = n THEN t.parent[v]
             ELSE IF \E d \in Side : x = t.child[d][v] THEN n ELSE t.parent[x]
        /\ \A d \in Side, x \in Node : w.child[d][x] =
             IF x = n THEN t.child[d][v]
             ELSE IF x = t.parent[v] /\ t.child[d][t.parent[v]] = v THEN n ELSE t.child[d][x]
    BY <1>1, <2>1, ReplaceFields DEF w
  <2>. QED  BY <2>2
<1>. HIDE DEF w
<1>4. w \in Tree /\ S \in SUBSET Node
  BY <1>3 DEF Tree
<1>. HIDE DEF S
<1>5. /\ u \in Tree /\ u.nodes = S
      /\ u.root = w.root /\ u.child = w.child /\ u.parent = w.parent /\ u.color = w.color
  BY <1>4, NodesFields
<1>. HIDE DEF u
<1>6. \A x \in k.nodes : (\E d \in Side : x = k.child[d][v]) <=> k.parent[x] = v
  <2>. TAKE x \in k.nodes
  <2>1. v # Nil /\ x # Nil
    BY LinksAt
  <2>2. ASSUME NEW d \in Side, x = k.child[d][v] PROVE k.parent[x] = v
    BY <2>1, <2>2, LinksAt
  <2>3. k.parent[x] = v => \E d \in Side : k.child[d][v] = x
    BY <2>1, LinksAt
  <2>. QED  BY <2>2, <2>3
<1>7. S \subseteq Node /\ \A x \in S : x # n => x \in k.nodes
  BY <1>4 DEF S
<1>8. \A x \in u.nodes : u.parent[x] =
          IF x = n THEN p ELSE IF k.parent[x] = v THEN n ELSE k.parent[x]
  BY <1>3, <1>5, <1>6, <1>7
<1>9. \A d \in Side, x \in u.nodes : u.child[d][x] =
           IF x = n THEN k.child[d][v]
           ELSE IF x = p /\ k.child[d][p] = v THEN n ELSE k.child[d][x]
  BY <1>3, <1>5, <1>7
<1>10. Replaced(k, u, v, n)
  BY <1>3, <1>5, <1>8, <1>9 DEF Replaced, S, p
<1>. QED  BY <1>3, <1>10 DEF u, w, S

\* What the unlinking of a node with two children does: k is the tree without
\* the successor, u the tree in which the successor has taken the place of old.
Spliced(k, w, u, e) ==
    LET c == T.child["right"][node]
        p == T.parent[node]
        q == IF p = old THEN node ELSE p
    IN  /\ k \in Tree /\ WF(k) /\ k.color = T.color /\ OnlyChild(T, node, c) /\ Cut(T, k, node, c)
        /\ e \in Side /\ T.child[e][p] = node
        /\ w \in Tree /\ u \in Tree /\ u = [w EXCEPT !.nodes = @ \ {old}] /\ WF(u)
        /\ old \in k.nodes /\ node \notin k.nodes /\ Replaced(k, u, old, node)
        /\ \A x \in Node : u.color[x] = IF x = node THEN T.color[old] ELSE T.color[x]
        /\ c \in u.nodes \cup {Nil} /\ c # old /\ q \in u.nodes /\ u.child[e][q] = c
        /\ Unlinked(cur, w, c, q, T.color[node], old)

\* EraseSplice is such an unlinking.
LEMMA SpliceShape ==
    ASSUME LinksInv, EraseSplice
    PROVE  \E k, w, u, e : Spliced(k, w, u, e)
<1>. DEFINE c  == T.child["right"][node]
            p  == T.parent[node]
            e  == IF p = old THEN "right" ELSE "left"
            t1 == SetChild(SetParent(T, c, p), e, p, c)
            k  == [t1 EXCEPT !.nodes = @ \ {node}]
            q  == IF p = old THEN node ELSE p
            w  == Replace(t1, old, node)
            u  == [w EXCEPT !.nodes = @ \ {old}]
<1>1. pc = "successor" /\ T.child["left"][node] = Nil /\ p # Nil
      /\ Unlinked(cur, w, c, q, T.color[node], old)
  BY DEF EraseSplice
<1>2. /\ cur \in Root /\ T \in Tree /\ WF(T) /\ SuccessorBelow
      /\ node \in T.nodes /\ old \in T.nodes /\ node \in Node
  BY <1>1, WorksOn, LinksAt DEF LinksInv, SuccessorBelow
<1>3. old # node /\ c # old
  BY <1>1, <1>2, SuccessorNotAbove DEF Side
<1>4. /\ t1 \in Tree /\ t1.nodes = T.nodes /\ t1.color = T.color /\ T.child[e][p] = node /\ e \in Side
      /\ Cut(T, k, node, c)
  BY <1>1, <1>2, SpliceCut
<1>5. OnlyChild(T, node, c)
  BY <1>1 DEF OnlyChild, Side, Opp
<1>6. p \in T.nodes /\ p # node
  BY <1>1, <1>2, LinksAt, Distinct
<1>. HIDE DEF c, p
<1>7. k \in Tree
  BY <1>4 DEF Cut
<1>8. k.nodes = T.nodes \ {node} /\ k.color = t1.color /\ k.root = t1.root /\ k.child = t1.child /\ k.parent = t1.parent
  <2>1. t1 \in Tree
    BY <1>4
  <2>2. T.nodes \ {node} \in SUBSET Node
    BY <1>2 DEF Tree
  <2>3. k = [t1 EXCEPT !.nodes = T.nodes \ {node}]
    BY <1>4
  <2>. HIDE DEF t1, k
  <2>. QED  BY <2>1, <2>2, <2>3, NodesFields, ZenonT(40)
<1>9. WF(k) /\ c \in k.nodes \cup {Nil}
  BY <1>2, <1>4, <1>5, <1>7, CutWF
<1>10. k.child[e][p] = c
  BY <1>4, <1>6, <1>8 DEF Cut, p
<1>a. t1 \in Tree /\ t1.nodes = T.nodes /\ t1.color = T.color
  BY <1>4
<1>. HIDE DEF k, t1
<1>11. old \in k.nodes /\ node \notin k.nodes /\ (k.nodes \ {old}) \cup {node} = T.nodes \ {old}
  BY <1>2, <1>3, <1>8
<1>12. t1 \in Tree /\ WF(k) /\ node \in Node /\ old \in k.nodes /\ node \notin k.nodes
       /\ k.root = t1.root /\ k.child = t1.child /\ k.parent = t1.parent
  BY <1>2, <1>8, <1>9, <1>11, <1>a
<1>13. /\ Replaced(k, [w EXCEPT !.nodes = (k.nodes \ {old}) \cup {node}], old, node)
       /\ w \in Tree /\ w.nodes = t1.nodes
       /\ \A x \in Node : w.color[x] = IF x = node THEN t1.color[old] ELSE t1.color[x]
  BY <1>7, <1>12, ReplaceReplaced
<1>. HIDE DEF w
<1>14. u = [w EXCEPT !.nodes = (k.nodes \ {old}) \cup {node}] /\ w \in Tree
  BY <1>a, <1>11, <1>13
<1>15. Replaced(k, u, old, node)
  BY <1>13, <1>14
<1>16. u \in Tree /\ u.nodes = T.nodes \ {old}
  BY <1>15, <1>11 DEF Replaced
<1>. HIDE DEF u
<1>17. WF(u)
  BY <1>2, <1>7, <1>9, <1>11, <1>15, <1>16, ReplacedWF
<1>18. c \in u.nodes \cup {Nil} /\ q \in u.nodes
  BY <1>2, <1>3, <1>6, <1>8, <1>9, <1>16
<1>19. u.child[e][q] = c
  <2>1. CASE p = old
    BY <1>4, <1>10, <1>15, <1>18, <2>1 DEF Replaced
  <2>2. CASE p # old
    BY <1>3, <1>4, <1>6, <1>10, <1>15, <1>18, <2>2 DEF Replaced
  <2>. QED  BY <2>1, <2>2
<1>b. u = [w EXCEPT !.nodes = @ \ {old}] /\ u.color = w.color
  BY <1>14 DEF u, Tree
<1>20. \A x \in Node : u.color[x] = IF x = node THEN T.color[old] ELSE T.color[x]
  BY <1>13, <1>a, <1>b
<1>21. Unlinked(cur, w, c, q, T.color[node], old)
  BY <1>1
<1>c. T.child[e][p] = node /\ e \in Side /\ Cut(T, k, node, c) /\ k.color = T.color
  BY <1>4, <1>8, <1>a
<1>. HIDE DEF q, e
<1>22. Spliced(k, w, u, e)
  BY <1>3, <1>5, <1>7, <1>9, <1>11, <1>14, <1>15, <1>16, <1>17, <1>18, <1>19, <1>20, <1>21, <1>b, <1>c
     DEF Spliced, c, p, q
<1>. QED  BY <1>22

-----------------------------------------------------------------------------
(* One step per action.                                                     *)

\* A step of rb_insert_color or __rb_erase_color that stores tree u.
LEMMA StoreLinksInv ==
    ASSUME LinksInv, TypeInv', NEW u \in Tree, WF(u), cur \in Root, cur' = cur, SetT(u),
           \/ pc' = "idle"
           \/ pc' = "insert_color" /\ node' \in u.nodes
           \/ pc' = "erase_color" /\ node' \in u.nodes
              /\ (node' # u.root => par' \in u.nodes /\ \E s \in Side : u.child[s][par'] = node')
    PROVE  LinksInv'
<1>1. trees'[cur] = u /\ \A q \in Root : WF(trees'[q])
  BY StoreWF DEF SetT
<1>2. T' = u
  BY <1>1 DEF T
<1>. QED  BY <1>1, <1>2 DEF LinksInv, ShortBelowPar

\* Same for a routine that stores tree u and returns.
LEMMA ReturnLinksInv ==
    ASSUME LinksInv, TypeInv', NEW r \in Root, NEW u \in Tree, WF(u),
           trees' = [trees EXCEPT ![r] = u], pc' = "idle"
    PROVE  LinksInv'
<1>1. \A q \in Root : WF(trees'[q])
  BY StoreWF
<1>. QED  BY <1>1 DEF LinksInv

\* rb_insert_data and rb_insert_color.
LEMMA InsertLinksInv == LinksInv /\ InsertStep => LinksInv'
<1>. SUFFICES ASSUME LinksInv, InsertStep PROVE LinksInv'
  OBVIOUS
<1>0. TypeInv'
  BY InsertTypeInv DEF LinksInv
<1>1. CASE InsertDescend
  <2>1. pc = "descend" /\ Link # Nil /\ par' = Link /\ UNCHANGED <<trees, pc, cur, node, old>>
    BY <1>1 DEF InsertDescend
  <2>2. T \in Tree /\ WF(T) /\ par \in T.nodes \cup {Nil} /\ Unused(node) /\ LinkSide \in Side
    BY <2>1, WorksOn DEF LinksInv, LinkSide, Side
  <2>3. Link \in T.nodes
    <3>1. CASE par = Nil
      BY <2>1, <2>2, <3>1 DEF Link, WF, Links
    <3>2. CASE par # Nil
      <4>1. par \in T.nodes /\ Link = T.child[LinkSide][par]
        BY <2>2, <3>2 DEF Link
      <4>. QED  BY <2>1, <2>2, <4>1, LinksAt
    <3>. QED  BY <3>1, <3>2
  <2>4. T' = T /\ Unused(node)' /\ \A q \in Root : WF(trees'[q])
    BY <2>1, <2>2 DEF T, Unused, LinksInv
  <2>. QED  BY <1>0, <2>1, <2>3, <2>4 DEF LinksInv
<1>2. CASE InsertLink
  <2>. DEFINE u == rb_link_node(T, node, par, LinkSide)
  <2>1. /\ pc = "descend" /\ Link = Nil /\ SetT(u) /\ pc' = "insert_color"
        /\ cur' = cur /\ node' = node
    BY <1>2 DEF InsertLink
  <2>2. cur \in Root /\ T \in Tree /\ WF(T) /\ LinkSide \in Side
    BY <2>1, WorksOn DEF LinkSide, Side
  <2>3. par \in T.nodes \cup {Nil} /\ node \notin T.nodes /\ node \in Node
    BY <2>1, <2>2 DEF LinksInv, Unused, T, TypeInv
  <2>4. Linked(T, u, node, par, LinkSide)
    BY <2>2, <2>3, LinkNodeFields
  <2>5. u \in Tree /\ node \in u.nodes
    BY <2>4 DEF Linked
  <2>. HIDE DEF u
  <2>6. IF par = Nil THEN T.root = Nil ELSE T.child[LinkSide][par] = Nil
    BY <2>1 DEF Link
  <2>7. WF(u)
    BY <2>2, <2>3, <2>4, <2>5, <2>6, LinkedWF
  <2>. QED  BY <1>0, <2>1, <2>2, <2>5, <2>7, StoreLinksInv
<1>a. ASSUME pc = "insert_color", InsertLoop, gparent # Nil
      PROVE  /\ cur \in Root /\ T \in Tree /\ WF(T) /\ node \in T.nodes
             /\ parent \in T.nodes /\ gparent \in T.nodes
             /\ parent \in Ptr /\ gparent \in Ptr /\ node \in Ptr /\ node # Nil /\ uncle \in Ptr
             /\ pside \in Side /\ Opp(pside) \in Side
  <2>1. cur \in Root /\ T \in Tree /\ WF(T) /\ node \in T.nodes
    BY <1>a, WorksOn DEF LinksInv
  <2>2. parent \in T.nodes
    BY <1>a, <2>1, LinksAt DEF InsertLoop, parent
  <2>3. gparent \in T.nodes
    BY <1>a, <2>1, <2>2, LinksAt DEF gparent
  <2>4. pside \in Side /\ Opp(pside) \in Side
    BY OppSide DEF pside, Side
  <2>5. uncle \in Ptr /\ parent \in Ptr /\ gparent \in Ptr /\ node \in Ptr /\ node # Nil
    BY <2>1, <2>2, <2>3, <2>4, LinksAt DEF uncle
  <2>. QED  BY <2>1, <2>2, <2>3, <2>4, <2>5
<1>3. CASE InsertRecolor
  <2>. DEFINE a == Paint(T, uncle, BLACK)
              b == Paint(a, parent, BLACK)
              u == Paint(b, gparent, RED)
  <2>1. /\ pc = "insert_color" /\ InsertLoop /\ gparent # Nil
        /\ SetT(u) /\ node' = gparent /\ UNCHANGED <<pc, cur>>
    BY <1>3 DEF InsertRecolor
  <2>2. /\ cur \in Root /\ T \in Tree /\ WF(T) /\ gparent \in T.nodes
        /\ parent \in Ptr /\ gparent \in Ptr /\ uncle \in Ptr
    BY <1>a, <2>1
  <2>3. a \in Tree /\ WF(a) /\ a.nodes = T.nodes
    BY <2>2, PaintWF DEF SamePointers
  <2>. HIDE DEF a
  <2>4. b \in Tree /\ WF(b) /\ b.nodes = a.nodes
    BY <2>2, <2>3, PaintWF DEF SamePointers
  <2>. HIDE DEF b
  <2>5. u \in Tree /\ WF(u) /\ u.nodes = b.nodes
    BY <2>2, <2>4, PaintWF DEF SamePointers
  <2>. HIDE DEF u
  <2>. QED  BY <1>0, <2>1, <2>2, <2>3, <2>4, <2>5, StoreLinksInv
<1>4. CASE InsertRotate
  <2>. DEFINE inner == T.child[Opp(pside)][parent] = node
              t1 == IF inner THEN Rotate(T, parent, pside) ELSE T
              top == IF inner THEN node ELSE parent
              a  == Paint(t1, top, BLACK)
              t2 == Paint(a, gparent, RED)
              u  == Rotate(t2, gparent, Opp(pside))
  <2>1. /\ pc = "insert_color" /\ InsertLoop /\ gparent # Nil
        /\ CanRotate(t2, gparent, Opp(pside)) /\ SetT(u)
        /\ node' = (IF inner THEN parent ELSE node) /\ UNCHANGED <<pc, cur>>
    BY <1>4 DEF InsertRotate
  <2>2. /\ cur \in Root /\ T \in Tree /\ WF(T) /\ node \in T.nodes
        /\ parent \in T.nodes /\ gparent \in T.nodes
        /\ parent \in Ptr /\ gparent \in Ptr /\ node \in Ptr /\ node # Nil
        /\ pside \in Side /\ Opp(pside) \in Side
    BY <1>a, <2>1
  <2>3. t1 \in Tree /\ WF(t1) /\ t1.nodes = T.nodes
    <3>1. CASE inner
      BY <2>2, <3>1, RotateWF
    <3>2. CASE ~inner
      BY <2>2, <3>2
    <3>. QED  BY <3>1, <3>2
  <2>4. top \in Ptr /\ node' \in T.nodes
    BY <2>1, <2>2
  <2>. HIDE DEF t1, top
  <2>5. a \in Tree /\ WF(a) /\ a.nodes = t1.nodes
    BY <2>3, <2>4, PaintWF DEF SamePointers
  <2>. HIDE DEF a
  <2>6. t2 \in Tree /\ WF(t2) /\ t2.nodes = a.nodes
    BY <2>2, <2>5, PaintWF DEF SamePointers
  <2>. HIDE DEF t2
  <2>7. gparent \in t2.nodes /\ t2.child[Opp(Opp(pside))][gparent] # Nil
    BY <2>1, <2>2, <2>3, <2>5, <2>6 DEF CanRotate
  <2>8. u \in Tree /\ WF(u) /\ u.nodes = t2.nodes
    BY <2>2, <2>6, <2>7, RotateWF
  <2>. HIDE DEF u
  <2>9. pc' = "insert_color" /\ node' \in u.nodes
    BY <2>1, <2>3, <2>4, <2>5, <2>6, <2>8
  <2>. QED  BY <1>0, <2>1, <2>2, <2>8, <2>9, StoreLinksInv
<1>5. CASE InsertDone
  <2>1. pc = "insert_color" /\ SetT(Paint(T, T.root, BLACK)) /\ pc' = "idle"
    BY <1>5 DEF InsertDone, Return
  <2>2. cur \in Root /\ T \in Tree /\ WF(T) /\ T.root \in Ptr
    BY <2>1, WorksOn DEF Tree
  <2>3. Paint(T, T.root, BLACK) \in Tree /\ WF(Paint(T, T.root, BLACK))
    BY <2>2, PaintWF
  <2>. QED  BY <1>0, <2>1, <2>2, <2>3, ReturnLinksInv DEF SetT
<1>. QED  BY <1>1, <1>2, <1>3, <1>4, <1>5 DEF InsertStep

\* The sibling that __rb_erase_color has made black is still in the tree.
LEMMA BlackSiblingWF ==
    ASSUME T \in Tree, WF(T), par \in T.nodes, CanRotate(T, par, side)
    PROVE  /\ BlackSibling \in Tree /\ WF(BlackSibling) /\ BlackSibling.nodes = T.nodes
           /\ side \in Side /\ Opp(side) \in Side
<1>. DEFINE other == T.child[Opp(side)][par]
            a == Paint(T, other, BLACK)
            b == Paint(a, par, RED)
<1>1. side \in Side /\ Opp(side) \in Side
  BY OppSide DEF side, Side
<1>2. other \in Ptr /\ other # Nil /\ par \in Ptr
  BY <1>1, LinksAt DEF CanRotate
<1>. HIDE DEF other
<1>3. a \in Tree /\ WF(a) /\ SamePointers(T, a)
  BY <1>2, PaintWF
<1>. HIDE DEF a
<1>4. b \in Tree /\ WF(b) /\ SamePointers(a, b)
  BY <1>2, <1>3, PaintWF
<1>. HIDE DEF b
<1>5. b.nodes = T.nodes /\ par \in b.nodes /\ b.child[Opp(side)][par] # Nil
  BY <1>1, <1>2, <1>3, <1>4 DEF SamePointers, other
<1>6. Rotate(b, par, side) \in Tree /\ WF(Rotate(b, par, side))
      /\ Rotate(b, par, side).nodes = T.nodes
  BY <1>1, <1>4, <1>5, RotateWF
<1>. QED  BY <1>1, <1>6 DEF BlackSibling, b, a, other

\* What __rb_erase_color works on.
LEMMA EraseWorksOn ==
    ASSUME LinksInv, pc = "erase_color", EraseLoop, CanRotate(T, par, side)
    PROVE  /\ cur \in Root /\ T \in Tree /\ WF(T) /\ par \in T.nodes
           /\ BlackSibling \in Tree /\ WF(BlackSibling) /\ BlackSibling.nodes = T.nodes
           /\ side \in Side /\ Opp(side) \in Side
<1>1. cur \in Root /\ T \in Tree /\ WF(T)
  BY WorksOn
<1>2. par \in T.nodes
  BY DEF LinksInv, ShortBelowPar, EraseLoop
<1>. QED  BY <1>1, <1>2, BlackSiblingWF

\* rb_erase after its search for the successor, and __rb_erase_color.
LEMMA EraseLinksInv == LinksInv /\ EraseStep => LinksInv'
<1>. SUFFICES ASSUME LinksInv, EraseStep PROVE LinksInv'
  OBVIOUS
<1>0. TypeInv'
  BY EraseTypeInv DEF LinksInv
<1>1. CASE EraseDescend
  <2>. DEFINE m == T.child["left"][node]
  <2>1. pc = "successor" /\ m # Nil /\ node' = m /\ UNCHANGED <<trees, pc, cur, par, old>>
    BY <1>1 DEF EraseDescend
  <2>2. cur \in Root /\ T \in Tree /\ WF(T) /\ SuccessorBelow
    BY <2>1, WorksOn DEF LinksInv
  <2>3. old # node /\ m # old
    BY <2>1, <2>2, SuccessorNotAbove DEF Side
  <2>4. node \in T.nodes
    BY <2>2 DEF SuccessorBelow
  <2>5. m \in T.nodes /\ T.parent[m] = node
    BY <2>1, <2>2, <2>4, LinksAt DEF Side
  <2>6. PICK D \in SUBSET T.nodes :
          node \in D /\ old \notin D /\ \A x \in D : T.parent[x] \in D \cup {old}
    BY <2>2 DEF SuccessorBelow
  <2>7. /\ D \cup {m} \in SUBSET T.nodes /\ m \in D \cup {m} /\ old \notin D \cup {m}
        /\ \A x \in D \cup {m} : T.parent[x] \in (D \cup {m}) \cup {old}
    BY <2>3, <2>5, <2>6
  <2>8. T' = T
    BY <2>1 DEF T
  <2>9. T.child["left"][T.parent[m]] = m
    BY <2>5
  <2>. HIDE DEF m
  <2>10. SuccessorBelow'
    <3>1. \E E \in SUBSET T.nodes : m \in E /\ old \notin E /\ \A x \in E : T.parent[x] \in E \cup {old}
      BY <2>7
    <3>. QED  BY <2>1, <2>2, <2>3, <2>5, <2>8, <2>9, <3>1 DEF SuccessorBelow
  <2>. QED  BY <1>0, <2>1, <2>10 DEF LinksInv
<1>2. CASE EraseSplice
  <2>. DEFINE c == T.child["right"][node]
              q == IF T.parent[node] = old THEN node ELSE T.parent[node]
              z == T.color[node]
  <2>1. PICK k, w, u, e : Spliced(k, w, u, e)
    BY <1>2, SpliceShape
  <2>2. /\ w \in Tree /\ u \in Tree /\ u = [w EXCEPT !.nodes = @ \ {old}] /\ WF(u)
        /\ c \in u.nodes \cup {Nil} /\ q \in u.nodes /\ e \in Side /\ u.child[e][q] = c
        /\ Unlinked(cur, w, c, q, z, old)
    BY <2>1 DEF Spliced
  <2>3. cur \in Root
    BY <1>2, WorksOn DEF EraseSplice
  <2>4. \E s \in Side : u.child[s][q] = c
    BY <2>2
  <2>. HIDE DEF c, q, z
  <2>. QED  BY <1>0, <2>2, <2>3, <2>4, UnlinkedLinksInv
<1>3. CASE EraseRecolor
  <2>. DEFINE t == BlackSibling
              other == t.child[Opp(side)][par]
              u == Paint(t, other, RED)
  <2>1. /\ pc = "erase_color" /\ EraseLoop /\ CanRotate(T, par, side)
        /\ SetT(u) /\ node' = par /\ par' = t.parent[par] /\ UNCHANGED <<pc, cur>>
    BY <1>3 DEF EraseRecolor
  <2>2. /\ cur \in Root /\ par \in T.nodes
        /\ t \in Tree /\ WF(t) /\ t.nodes = T.nodes /\ Opp(side) \in Side
    BY <2>1, EraseWorksOn
  <2>. HIDE DEF t
  <2>3. other \in Ptr
    BY <2>2, LinksAt
  <2>. HIDE DEF other
  <2>4. u \in Tree /\ WF(u) /\ SamePointers(t, u)
    BY <2>2, <2>3, PaintWF
  <2>. HIDE DEF u
  <2>5. par \in u.nodes /\ par' = u.parent[par]
    BY <2>1, <2>2, <2>4 DEF SamePointers
  <2>6. par # u.root => u.parent[par] \in u.nodes /\ \E s \in Side : u.child[s][u.parent[par]] = par
    BY <2>4, <2>5, LinksAt
  <2>7. pc' = "erase_color" /\ node' \in u.nodes
        /\ (node' # u.root => par' \in u.nodes /\ \E s \in Side : u.child[s][par'] = node')
    BY <2>1, <2>5, <2>6
  <2>. QED  BY <1>0, <2>1, <2>2, <2>4, <2>7, StoreLinksInv
<1>4. CASE EraseRotate
  <2>. DEFINE s  == side
              t  == BlackSibling
              o  == t.child[Opp(s)][par]
              i  == t.child[s][o]
              a  == Paint(t, i, BLACK)
              b  == Paint(a, o, RED)
              t1 == IF IsBlack(t, t.child[Opp(s)][o]) THEN Rotate(b, o, Opp(s)) ELSE t
              other == t1.child[Opp(s)][par]
              c  == Paint(t1, other, t1.color[par])
              t2 == Paint(c, par, BLACK)
              f  == Paint(t2, t2.child[Opp(s)][other], BLACK)
              u  == Rotate(f, par, s)
  <2>1. /\ pc = "erase_color" /\ EraseLoop /\ CanRotate(T, par, s)
        /\ o # Nil /\ \E d \in Side : ~IsBlack(t, t.child[d][o])
        /\ CanRotate(t1, par, s) /\ SetT(u) /\ node' = u.root /\ UNCHANGED <<pc, cur>>
    BY <1>4, Zenon DEF EraseRotate
  <2>. HIDE DEF s, t, o, i, a, b, t1, other, c, t2, f, u
  <2>2. /\ cur \in Root /\ par \in T.nodes /\ s \in Side /\ Opp(s) \in Side
        /\ t \in Tree /\ WF(t) /\ t.nodes = T.nodes
    BY <2>1, EraseWorksOn DEF s, t
  <2>a. o # Nil /\ \E d \in Side : ~IsBlack(t, t.child[d][o])
    BY <2>1
  <2>b. CanRotate(t1, par, s)
    BY <2>1
  <2>. USE DEF o, i
  <2>3. o \in t.nodes /\ o \in Ptr
    BY <2>2, <2>a, LinksAt
  <2>4. i \in Ptr
    BY <2>2, <2>3, LinksAt
  <2>5. IsBlack(t, t.child[Opp(s)][o]) => i # Nil
    BY <2>2, <2>a DEF IsBlack, Side, Opp
  <2>. HIDE DEF o, i
  <2>. USE DEF a
  <2>6. a \in Tree /\ WF(a) /\ SamePointers(t, a)
    BY <2>2, <2>4, PaintWF
  <2>. HIDE DEF a
  <2>. USE DEF b
  <2>7. b \in Tree /\ WF(b) /\ SamePointers(a, b)
    BY <2>3, <2>6, PaintWF
  <2>. HIDE DEF b
  <2>. USE DEF t1
  <2>8. t1 \in Tree /\ WF(t1) /\ t1.nodes = T.nodes
    <3>1. CASE IsBlack(t, t.child[Opp(s)][o])
      <4>1. o \in b.nodes /\ b.nodes = T.nodes /\ b.child[Opp(Opp(s))][o] # Nil
        BY <2>2, <2>3, <2>5, <2>6, <2>7, <3>1, OppSide DEF SamePointers, i
      <4>. QED  BY <2>2, <2>7, <3>1, <4>1, RotateWF
    <3>2. CASE ~IsBlack(t, t.child[Opp(s)][o])
      BY <2>2, <3>2
    <3>. QED  BY <3>1, <3>2
  <2>. HIDE DEF t1
  <2>. USE DEF other
  <2>9. other \in Ptr /\ other # Nil /\ other \in t1.nodes /\ t1.color[par] \in {RED, BLACK} /\ par \in Ptr
    BY <2>2, <2>8, <2>b, LinksAt DEF CanRotate, Tree
  <2>. HIDE DEF other
  <2>. USE DEF c
  <2>10. c \in Tree /\ WF(c) /\ SamePointers(t1, c)
    <3>. DEFINE z == t1.color[par]
    <3>. HIDE DEF z
    <3>1. other \in Ptr /\ z \in {RED, BLACK} /\ c = Paint(t1, other, z)
      BY <2>9 DEF z
    <3>. HIDE DEF c
    <3>. QED  BY <2>8, <3>1, PaintWF
  <2>. HIDE DEF c
  <2>. USE DEF t2
  <2>11. t2 \in Tree /\ WF(t2) /\ SamePointers(c, t2)
    BY <2>9, <2>10, PaintWF
  <2>. HIDE DEF t2
  <2>. USE DEF f
  <2>12. t2.child[Opp(s)][other] \in Ptr
    <3>1. other \in t2.nodes
      BY <2>9, <2>10, <2>11 DEF SamePointers
    <3>. QED  BY <2>2, <2>11, <3>1, LinksAt
  <2>13. f \in Tree /\ WF(f) /\ SamePointers(t2, f)
    BY <2>11, <2>12, PaintWF
  <2>. HIDE DEF f
  <2>. USE DEF u
  <2>14. par \in f.nodes /\ f.nodes = T.nodes /\ f.child[Opp(s)][par] # Nil
    BY <2>2, <2>8, <2>9, <2>10, <2>11, <2>13 DEF SamePointers, other
  <2>15. u \in Tree /\ WF(u) /\ u.nodes = T.nodes
    BY <2>2, <2>13, <2>14, RotateWF
  <2>. HIDE DEF u
  <2>16. u.root \in u.nodes
    <3>1. u.root # Nil
      BY <2>2, <2>15, EmptyTree
    <3>. QED  BY <2>15, <3>1 DEF WF, Links
  <2>17. pc' = "erase_color" /\ node' \in u.nodes
         /\ (node' # u.root => par' \in u.nodes /\ \E d \in Side : u.child[d][par'] = node')
    BY <2>1, <2>16
  <2>18. cur' = cur /\ SetT(u)
    BY <2>1
  <2>. QED  BY <1>0, <2>2, <2>15, <2>17, <2>18, StoreLinksInv
<1>5. CASE EraseDone
  <2>1. pc = "erase_color" /\ SetT(Freed(Paint(T, node, BLACK))) /\ pc' = "idle"
    BY <1>5 DEF EraseDone, Return
  <2>2. cur \in Root /\ T \in Tree /\ WF(T) /\ node \in Ptr
    BY <2>1, WorksOn DEF LinksInv, TypeInv, TypeOK
  <2>3. Paint(T, node, BLACK) \in Tree /\ WF(Paint(T, node, BLACK))
    BY <2>2, PaintWF
  <2>4. Freed(Paint(T, node, BLACK)) \in Tree /\ WF(Freed(Paint(T, node, BLACK)))
    BY <2>3, FreedFields, SamePointersWF
  <2>. QED  BY <1>0, <2>1, <2>2, <2>4, ReturnLinksInv DEF SetT
<1>. QED  BY <1>1, <1>2, <1>3, <1>4, <1>5 DEF EraseStep

\* Every step keeps the pointers in agreement.
LEMMA NextLinksInv == LinksInv /\ [Next]_vars => LinksInv'
<1>. SUFFICES ASSUME LinksInv, [Next]_vars PROVE LinksInv'
  OBVIOUS
<1>0. TypeInv'
  BY NextTypeInv DEF LinksInv
<1>1. ASSUME NEW r \in Root, NEW n \in Node, rb_insert_data(r, n) PROVE LinksInv'
  <2>1. pc' = "descend" /\ node' = n /\ par' = Nil /\ trees' = trees /\ Unused(n)
    BY <1>1 DEF rb_insert_data
  <2>2. Unused(node)' /\ \A q \in Root : WF(trees'[q])
    BY <2>1 DEF Unused, LinksInv
  <2>. QED  BY <1>0, <2>1, <2>2 DEF LinksInv
<1>2. ASSUME NEW r \in Root, NEW n \in Node, rb_erase(r, n) PROVE LinksInv'
  <2>. DEFINE t == trees[r]
              c == IF t.child["left"][n] = Nil THEN t.child["right"][n]
                                               ELSE t.child["left"][n]
              p == t.parent[n]
              b == Relink(SetParent(t, c, p), p, "left", n, c)
              u == [b EXCEPT !.nodes = @ \ {n}]
  <2>1. t \in Tree /\ WF(t) /\ n \in t.nodes
    BY <1>2 DEF LinksInv, TypeInv, TypeOK, rb_erase
  <2>2. CASE \A s \in Side : t.child[s][n] # Nil
    <3>. DEFINE m == t.child["right"][n]
    <3>1. pc' = "successor" /\ cur' = r /\ old' = n /\ node' = m /\ trees' = trees
      BY <1>2, <2>2 DEF rb_erase
    <3>2. m \in t.nodes /\ t.parent[m] = n /\ m # n
      BY <2>1, <2>2, LinksAt, Distinct DEF Side
    <3>3. T' = t
      BY <3>1 DEF T
    <3>4. \E D \in SUBSET t.nodes : m \in D /\ n \notin D /\ \A x \in D : t.parent[x] \in D \cup {n}
      <4>1. {m} \in SUBSET t.nodes /\ m \in {m} /\ n \notin {m}
            /\ \A x \in {m} : t.parent[x] \in {m} \cup {n}
        BY <3>2
      <4>. QED  BY <4>1
    <3>5. SuccessorBelow'
      BY <2>1, <2>2, <3>1, <3>2, <3>3, <3>4 DEF SuccessorBelow
    <3>. QED  BY <1>0, <3>1, <3>5 DEF LinksInv
  <2>3. CASE ~(\A s \in Side : t.child[s][n] # Nil)
    <3>1. Unlinked(r, b, c, p, t.color[n], n)
      BY <1>2, <2>3 DEF rb_erase
    <3>2. OnlyChild(t, n, c)
      BY <2>3 DEF OnlyChild, Side, Opp
    <3>. HIDE DEF t, c
    <3>3. b \in Tree /\ Cut(t, u, n, c)
      BY <2>1, <3>2, EraseFields
    <3>4. u \in Tree /\ u = [b EXCEPT !.nodes = @ \ {n}]
      BY <3>3 DEF Cut
    <3>. HIDE DEF b, u
    <3>5. WF(u)
      BY <2>1, <3>2, <3>3, <3>4, CutWF
    <3>6. c \in u.nodes \cup {Nil}
          /\ (c # u.root => p \in u.nodes /\ \E s \in Side : u.child[s][p] = c)
      <4>1. u \in Tree
        BY <3>4
      <4>. QED  BY <2>1, <3>2, <3>3, <4>1, CutAt
    <3>. HIDE DEF p
    <3>. QED  BY <1>0, <3>1, <3>3, <3>4, <3>5, <3>6, UnlinkedLinksInv
  <2>. QED  BY <2>2, <2>3
<1>3. ASSUME NEW r \in Root, NEW v \in Node, NEW n \in Node, rb_replace_node(r, v, n)
      PROVE  LinksInv'
  <2>. DEFINE k == trees[r]
              w == Replace(k, v, n)
              u == [w EXCEPT !.nodes = (@ \ {v}) \cup {n}]
              S == (k.nodes \ {v}) \cup {n}
  <2>1. k \in Tree /\ WF(k) /\ v \in k.nodes /\ n \notin k.nodes
    BY <1>3 DEF LinksInv, TypeInv, TypeOK, rb_replace_node, Unused
  <2>2. trees' = [trees EXCEPT ![r] = Freed(u)] /\ pc' = "idle"
    BY <1>3 DEF rb_replace_node
  <2>. HIDE DEF k, w
  <2>4. Replaced(k, [w EXCEPT !.nodes = S], v, n) /\ w \in Tree /\ w.nodes = k.nodes
    BY <2>1, ReplaceReplaced DEF w
  <2>5. u = [w EXCEPT !.nodes = S]
    BY <2>4
  <2>6. Replaced(k, u, v, n)
    BY <2>4, <2>5
  <2>. HIDE DEF u
  <2>7. u \in Tree /\ WF(u)
    BY <2>1, <2>6, ReplacedWF DEF Replaced
  <2>8. Freed(u) \in Tree /\ WF(Freed(u))
    BY <2>7, FreedFields, SamePointersWF
  <2>. QED  BY <1>0, <2>2, <2>8, ReturnLinksInv
<1>4. CASE UNCHANGED vars
  BY <1>0, <1>4 DEF vars, LinksInv, SuccessorBelow, ShortBelowPar, T, Unused
<1>. QED  BY <1>1, <1>2, <1>3, <1>4, InsertLinksInv, EraseLinksInv DEF Next

\* In every reachable state, also between two iterations of a rebalancing
\* loop, the child and parent pointers of rbtree.c agree: no rotation and no
\* unlinking drops or duplicates a subtree, and no pointer to a freed Data
\* object survives.
THEOREM LinksAgree == Spec => []LinksOK
<1>1. LinksInv => LinksOK
  BY DEF LinksInv, LinksOK, WF
<1>. QED  BY <1>1, InitLinksInv, NextLinksInv, PTL DEF Spec

-----------------------------------------------------------------------------
(* Induction, and the recursive functions of the model.                     *)

\* Induction over the numbers, for a set of them.
LEMMA NatSetInduction ==
    ASSUME NEW P, 0 \in P, \A n \in Nat : n \in P => n + 1 \in P
    PROVE  Nat \subseteq P
<1>. DEFINE B == Nat \ P
            R == OpToRel(<, Nat)
<1>. SUFFICES ASSUME B # {} PROVE FALSE
  OBVIOUS
<1>1. IsWellFoundedOn(R, Nat)
  BY NatLessThanWellFounded
<1>2. PICK x \in B : \A y \in B : <<y, x>> \notin R
  <2>. HIDE DEF R
  <2>. QED  BY <1>1, WFMin
<1>3. \A y \in B : ~(y < x)
  BY <1>2 DEF OpToRel
<1>4. x # 0 /\ x - 1 \in Nat /\ x - 1 < x
  OBVIOUS
<1>. QED  BY <1>3, <1>4

\* A function given by its first value and by the step to the next.
Iterates(f, X, base, step, N) ==
    f \in [0..N -> X] /\ f[0] = base /\ \A k \in 1..N : f[k] = step[f[k - 1]]

\* There is one.
LEMMA Iterate ==
    ASSUME NEW X, NEW base \in X, NEW step \in [X -> X], NEW N \in Nat
    PROVE  \E f : Iterates(f, X, base, step, N)
<1>. DEFINE Good(f, m) == f[0] = base /\ \A k \in 1..m : f[k] = step[f[k - 1]]
            P == {m \in Nat : \E f \in [0..m -> X] : Good(f, m)}
<1>1. 0 \in P
  <2>1. [k \in 0..0 |-> base] \in [0..0 -> X] /\ Good([k \in 0..0 |-> base], 0)
    OBVIOUS
  <2>. QED  BY <2>1
<1>2. ASSUME NEW m \in Nat, m \in P PROVE m + 1 \in P
  <2>1. PICK f \in [0..m -> X] : Good(f, m)
    BY <1>2
  <2>. DEFINE g == [k \in 0..(m + 1) |-> IF k = m + 1 THEN step[f[m]] ELSE f[k]]
  <2>2. f[m] \in X /\ step[f[m]] \in X
    OBVIOUS
  <2>3. g \in [0..(m + 1) -> X] /\ g[0] = base
    BY <2>1, <2>2
  <2>4. ASSUME NEW k \in 1..(m + 1) PROVE g[k] = step[g[k - 1]]
    <3>1. g[k - 1] = f[k - 1]
      OBVIOUS
    <3>2. CASE k = m + 1
      BY <3>1, <3>2
    <3>3. CASE k # m + 1
      <4>1. k \in 1..m /\ g[k] = f[k]
        BY <3>3
      <4>. QED  BY <2>1, <3>1, <4>1
    <3>. QED  BY <3>2, <3>3
  <2>. HIDE DEF g
  <2>. QED  BY <2>3, <2>4
<1>. HIDE DEF P
<1>3. Nat \subseteq P
  BY <1>1, <1>2, NatSetInduction
<1>4. PICK f \in [0..N -> X] : Good(f, N)
  BY <1>3 DEF P
<1>. QED  BY <1>4 DEF Iterates

-----------------------------------------------------------------------------
(* The nodes above a node.                                                  *)

UpClosed(t, S) == \A y \in S : t.parent[y] \in S \cup {Nil}

\* The nodes that climbing from n passes: the smallest set that has n in it and
\* is closed under rb_parent.
Anc(t, n) ==
    {x \in t.nodes : \A S \in SUBSET t.nodes : UpClosed(t, S) /\ n \in S \cup {Nil} => x \in S}

\* Climbing goes on inside the set.
LEMMA AncClosed ==
    ASSUME NEW t \in Tree, WF(t), NEW n \in t.nodes \cup {Nil}
    PROVE  /\ Anc(t, n) \in SUBSET t.nodes /\ UpClosed(t, Anc(t, n)) /\ n \in Anc(t, n) \cup {Nil}
           /\ \A S \in SUBSET t.nodes :
                UpClosed(t, S) /\ n \in S \cup {Nil} => Anc(t, n) \subseteq S
           /\ Anc(t, Nil) = {}
<1>1. \A S \in SUBSET t.nodes : UpClosed(t, S) /\ n \in S \cup {Nil} => Anc(t, n) \subseteq S
  BY DEF Anc
<1>2. Anc(t, n) \in SUBSET t.nodes /\ n \in Anc(t, n) \cup {Nil}
  BY DEF Anc
<1>3. ASSUME NEW y \in Anc(t, n), t.parent[y] # Nil PROVE t.parent[y] \in Anc(t, n)
  <2>1. y \in t.nodes /\ t.parent[y] \in t.nodes
    BY <1>2, <1>3, LinksAt
  <2>2. ASSUME NEW S \in SUBSET t.nodes, UpClosed(t, S), n \in S \cup {Nil} PROVE t.parent[y] \in S
    <3>1. y \in S
      BY <1>1, <2>2
    <3>. QED  BY <1>3, <2>2, <3>1 DEF UpClosed
  <2>. QED  BY <2>1, <2>2 DEF Anc
<1>4. Anc(t, Nil) = {}
  <2>1. {} \in SUBSET t.nodes /\ UpClosed(t, {}) /\ Nil \in {} \cup {Nil}
    BY DEF UpClosed
  <2>. QED  BY <2>1 DEF Anc
<1>. QED  BY <1>1, <1>2, <1>3, <1>4 DEF UpClosed

\* One step of the climb.
LEMMA AncStep ==
    ASSUME NEW t \in Tree, WF(t), NEW n \in t.nodes
    PROVE  Anc(t, n) = {n} \cup Anc(t, t.parent[n])
<1>. DEFINE p == t.parent[n]
            A == Anc(t, p)
<1>1. p \in t.nodes \cup {Nil}
  BY LinksAt
<1>2. /\ A \in SUBSET t.nodes /\ UpClosed(t, A) /\ p \in A \cup {Nil}
      /\ \A S \in SUBSET t.nodes : UpClosed(t, S) /\ p \in S \cup {Nil} => A \subseteq S
  BY <1>1, AncClosed
<1>3. /\ Anc(t, n) \in SUBSET t.nodes /\ UpClosed(t, Anc(t, n)) /\ n \in Anc(t, n) \cup {Nil}
      /\ \A S \in SUBSET t.nodes : UpClosed(t, S) /\ n \in S \cup {Nil} => Anc(t, n) \subseteq S
  BY AncClosed
<1>4. n # Nil
  BY LinksAt
<1>. HIDE DEF A
<1>5. Anc(t, n) \subseteq {n} \cup A
  <2>1. {n} \cup A \in SUBSET t.nodes /\ UpClosed(t, {n} \cup A) /\ n \in ({n} \cup A) \cup {Nil}
    BY <1>2 DEF UpClosed
  <2>. QED  BY <1>3, <2>1
<1>6. A \subseteq Anc(t, n)
  <2>1. p \in Anc(t, n) \cup {Nil}
    BY <1>3, <1>4 DEF UpClosed
  <2>. QED  BY <1>2, <1>3, <2>1
<1>. QED  BY <1>3, <1>4, <1>5, <1>6 DEF A

\* No node is above its parent.
LEMMA AncProper ==
    ASSUME NEW t \in Tree, WF(t), NEW n \in t.nodes
    PROVE  n \notin Anc(t, t.parent[n])
<1>. SUFFICES ASSUME n \in Anc(t, t.parent[n]) PROVE FALSE
  OBVIOUS
<1>. DEFINE D == {x \in t.nodes : n \in Anc(t, t.parent[x])}
<1>1. ASSUME NEW x \in D PROVE t.parent[x] \in D
  <2>. DEFINE q == t.parent[x]
  <2>1. q \in t.nodes \cup {Nil} /\ n \in Anc(t, q)
    BY LinksAt
  <2>2. q # Nil
    BY <2>1, AncClosed
  <2>3. q \in t.nodes
    BY <2>1, <2>2
  <2>. HIDE DEF q
  <2>4. n \in {q} \cup Anc(t, t.parent[q])
    BY <2>1, <2>3, AncStep
  <2>5. q \in D
    BY <2>3, <2>4
  <2>. QED  BY <2>5 DEF q
<1>2. D \in SUBSET t.nodes /\ n \in D
  OBVIOUS
<1>. HIDE DEF D
<1>. QED  BY <1>1, <1>2 DEF WF, Acyclic

\* The set of the nodes that a climb passes is finite, and one larger than that of
\* the parent.
LEMMA AncFinite ==
    ASSUME NEW t \in Tree, WF(t), NEW n \in t.nodes \cup {Nil}
    PROVE  /\ IsFiniteSet(Anc(t, n)) /\ Cardinality(Anc(t, n)) \in 0..Fuel /\ Fuel \in Nat
           /\ Cardinality(Anc(t, n)) = 0 => n = Nil
           /\ n # Nil => Cardinality(Anc(t, n)) = Cardinality(Anc(t, t.parent[n])) + 1
<1>1. ASSUME NEW m \in t.nodes \cup {Nil}
      PROVE  /\ IsFiniteSet(Anc(t, m)) /\ Cardinality(Anc(t, m)) \in 0..Fuel /\ Fuel \in Nat
             /\ Cardinality(Anc(t, m)) \in Nat
  <2>1. IsFiniteSet(Node) /\ Anc(t, m) \in SUBSET Node
    BY AncClosed, RBAssumption DEF Tree
  <2>2. IsFiniteSet(Anc(t, m)) /\ Cardinality(Anc(t, m)) <= Cardinality(Node)
    BY <2>1, FS_Subset
  <2>3. Cardinality(Node) \in Nat /\ Cardinality(Anc(t, m)) \in Nat
    BY <2>1, <2>2, FS_CardinalityType
  <2>. QED  BY <2>2, <2>3 DEF Fuel
<1>2. Cardinality(Anc(t, n)) = 0 => n = Nil
  <2>1. Cardinality(Anc(t, n)) = 0 => Anc(t, n) = {}
    BY <1>1, FS_EmptySet
  <2>. QED  BY <2>1, AncClosed
<1>3. ASSUME n # Nil PROVE Cardinality(Anc(t, n)) = Cardinality(Anc(t, t.parent[n])) + 1
  <2>1. n \in t.nodes /\ t.parent[n] \in t.nodes \cup {Nil}
    BY <1>3, LinksAt
  <2>. DEFINE A == Anc(t, t.parent[n])
  <2>2. Anc(t, n) = A \cup {n} /\ n \notin A /\ IsFiniteSet(A)
    BY <1>1, <2>1, AncStep, AncProper
  <2>. HIDE DEF A
  <2>3. Cardinality(A \cup {n}) = Cardinality(A) + 1
    BY <2>2, FS_AddElement
  <2>. QED  BY <2>2, <2>3 DEF A
<1>. QED  BY <1>1, <1>2, <1>3
=============================================================================
