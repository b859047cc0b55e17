------------------------------- MODULE RBTree -------------------------------
(***************************************************************************)
(* The red-black tree of rbtree.c with the insertion and search cores of    *)
(* simi.c (rb_insert_data, rb_search_data).                                 *)
(*                                                                         *)
(* A tree is one record: root pointer, child and parent pointers and        *)
(* colours of the nodes.  The two mirror-image halves of the C routines     *)
(* are one definition with a side as a parameter.  Each loop of a routine   *)
(* that changes the tree is an action of its own, so the states between two *)
(* iterations are states of the model; straight-line code is one step.      *)
(***************************************************************************)
EXTENDS Naturals, Sequences, FiniteSets, SequencesExt

CONSTANTS Root,   \* the struct rb_root objects
          Node,   \* the struct Data objects (each holds one rb_node)
          Nil,    \* the null pointer
          Val     \* Val[n]: the field v of Data object n

ASSUME RBAssumption ==
    /\ Nil \notin Node
    /\ Nil \notin Root
    /\ IsFiniteSet(Node)
    /\ Val \in [Node -> Nat]

VARIABLES trees,  \* trees[r]: the tree below root r
          pc,     \* the loop the routine in progress is in, or "idle"
          cur,    \* its parameter root
          node,   \* its local variable node (new->node during the descent)
          par,    \* its local variable parent
          old     \* its local variable old: the node being erased

vars == <<trees, pc, cur, node, par, old>>

RED   == 0
BLACK == 1

Side == {"left", "right"}
Opp(s) == IF s = "left" THEN "right" ELSE "left"

Ptr == Node \cup {Nil}

\* struct rb_root with the rb_nodes below it.  nodes is the set of nodes that
\* rb_link_node put into the tree and rb_erase has not taken out; the code
\* has no such field and no guard reads it.
Tree == [root   : Ptr,
         child  : [Side -> [Node -> Ptr]],
         parent : [Node -> Ptr],
         color  : [Node -> {RED, BLACK}],
         nodes  : SUBSET Node]

RB_ROOT == [root   |-> Nil,
            child  |-> [s \in Side |-> [n \in Node |-> Nil]],
            parent |-> [n \in Node |-> Nil],
            color  |-> [n \in Node |-> RED],
            nodes  |-> {}]

TypeOK ==
    /\ trees \in [Root -> Tree]
    /\ pc \in {"idle", "descend", "insert_color", "successor", "erase_color"}
    /\ cur \in Root \cup {Nil}
    /\ node \in Ptr
    /\ par \in Ptr
    /\ old \in Ptr

-----------------------------------------------------------------------------
(* Field updates.                                                           *)

\* "!n || rb_is_black(n)"
IsBlack(t, n) == n # Nil => t.color[n] = BLACK

\* "if (n) rb_set_parent(n, p)"
SetParent(t, n, p) == IF n = Nil THEN t ELSE [t EXCEPT !.parent[n] = p]

\* "n->child[s] = m"
SetChild(t, s, n, m) == [t EXCEPT !.child[s][n] = m]

\* Setting the colour bit by addition, without clearing it first.
PaintAdds(t, n, c) == IF n = Nil THEN t ELSE [t EXCEPT !.color[n] = @ + c]

\* "if (n) rb_set_color(n, c)"
Paint(t, n, c) == IF n = Nil THEN t ELSE [t EXCEPT !.color[n] = c]

\* The pointer to node n, which is in its parent p or in the root, becomes m.
\* The code tests the child on side s of p first.
Relink(t, p, s, n, m) ==
    IF p = Nil THEN [t EXCEPT !.root = m]
    ELSE SetChild(t, IF t.child[s][p] = n THEN s ELSE Opp(s), p, m)

\* Node n takes over the pointers and the colour of node v, and the nodes
\* around v now point to n.
Replace(t, v, n) ==
    LET p  == t.parent[v]
        t1 == Paint(SetParent(t, n, p), n, t.color[v])
        t2 == SetChild(SetChild(t1, "right", n, t.child["right"][v]), "left", n, t.child["left"][v])
        t3 == Relink(t2, p, "left", v, n)
    IN  SetParent(SetParent(t3, t.child["left"][v], n), t.child["right"][v], n)

\* free(data): the fields of a node outside the tree mean nothing any more.
Freed(t) ==
    LET Keep(f, d) == [n \in Node |-> IF n \in t.nodes THEN f[n] ELSE d]
    IN  [t EXCEPT !.child = [s \in Side |-> Keep(t.child[s], Nil)],
                  !.parent = Keep(t.parent, Nil),
                  !.color = Keep(t.color, RED)]

\* A rotation that forgets to tell the inner subtree about its new parent.
RotateLosesParent(t, n, s) ==
    LET up == t.child[Opp(s)][n]
        p  == t.parent[n]
        t1 == SetChild(t, Opp(s), n, t.child[s][up])
        t2 == SetParent(SetChild(t1, s, up, n), up, p)
    IN  SetParent(Relink(t2, p, s, n, up), n, up)

\* __rb_rotate_left for s = "left", __rb_rotate_right for s = "right": n sinks
\* to side s and its child on the other side takes its place.
Rotate(t, n, s) ==
    LET up    == t.child[Opp(s)][n]
        inner == t.child[s][up]
        p     == t.parent[n]
        t1 == SetParent(SetChild(t, Opp(s), n, inner), inner, n)
        t2 == SetParent(SetChild(t1, s, up, n), up, p)
    IN  SetParent(Relink(t2, p, s, n, up), n, up)

\* The pointers a rotation follows without a test.  A step that would follow a
\* null pointer has no outcome in this model: the action is not enabled.  That
\* this never holds a routine up is NoNullDeref, and absence of deadlock.
CanRotate(t, n, s) == n # Nil /\ t.child[Opp(s)][n] # Nil

-----------------------------------------------------------------------------
(* Reading a tree.  The C loops follow one pointer per iteration; a loop    *)
(* that has not ended after visiting as many nodes as there are never will, *)
(* so iterating that often is enough.                                       *)

Fuel == Cardinality(Node)

\* while (n->child[s]) n = n->child[s];
Edge(t, s, n) ==
    LET go[k \in 0..Fuel] ==
            [m \in Node |-> IF k = 0 \/ t.child[s][m] = Nil THEN m ELSE go[k - 1][t.child[s][m]]]
    IN  go[Fuel][n]

rb_first(t) == IF t.root = Nil THEN Nil ELSE Edge(t, "left", t.root)
rb_last(t)  == IF t.root = Nil THEN Nil ELSE Edge(t, "right", t.root)

\* while ((parent = rb_parent(n)) && n == parent->child[s]) n = parent;
\* return parent;
Climb(t, s, n) ==
    LET go[k \in 0..Fuel] ==
            [m \in Node |-> LET p == t.parent[m]
                            IN  IF k > 0 /\ p # Nil /\ t.child[s][p] = m THEN go[k - 1][p] ELSE p]
    IN  go[Fuel][n]

Neighbour(t, s, n) ==
    IF t.parent[n] = n THEN Nil
    ELSE IF t.child[s][n] # Nil THEN Edge(t, Opp(s), t.child[s][n])
    ELSE Climb(t, s, n)

rb_next(t, n) == Neighbour(t, "right", n)

\* rb_prev with the test of the climbing loop on the wrong side.
PrevClimbsRight(t, n) ==
    IF t.child["left"][n] # Nil THEN Edge(t, "right", t.child["left"][n])
    ELSE Climb(t, "right", n)

rb_prev(t, n) == Neighbour(t, "left", n)

\* for (p = first; p; p = step[p]): the nodes in the order visited.
\* One more iteration than there are nodes, to see a loop that goes round.
Visit(first, step) ==
    LET go[k \in 0..Fuel + 1] ==
            [p \in Ptr |-> IF k = 0 \/ p = Nil THEN << >> ELSE <<p>> \o go[k - 1][step[p]]]
    IN  go[Fuel + 1][first]

Walk(t) == Visit(rb_first(t), [n \in Node |-> rb_next(t, n)])

\* A search that turns left on equality.
SearchMissesEqual(t, v) ==
    LET go[m \in Ptr, k \in 0..Fuel] ==
            IF k = 0 \/ m = Nil THEN m
            ELSE go[t.child[IF v <= Val[m] THEN "left" ELSE "right"][m], k - 1]
    IN  go[t.root, Fuel]

rb_search_data(t, v) ==
    LET go[k \in 0..Fuel] ==
            [m \in Ptr |->
                IF k = 0 \/ m = Nil \/ Val[m] = v THEN m
                ELSE go[k - 1][t.child[IF v < Val[m] THEN "left" ELSE "right"][m]]]
    IN  go[Fuel][t.root]

-----------------------------------------------------------------------------
(* Routines in progress.                                                    *)

Init ==
    /\ trees = [r \in Root |-> RB_ROOT]
    /\ pc = "idle"
    /\ cur = Nil /\ node = Nil /\ par = Nil /\ old = Nil

T == trees[cur]
SetT(t) == trees' = [trees EXCEPT ![cur] = t]

Return == pc' = "idle" /\ cur' = Nil /\ node' = Nil /\ par' = Nil /\ old' = Nil

Unused(n) == \A r \in Root : n \notin trees[r].nodes

-----------------------------------------------------------------------------
(* rb_insert_data(root, new)                                                *)

rb_insert_data(r, n) ==
    /\ pc = "idle"
    /\ Unused(n)
    /\ pc' = "descend" /\ cur' = r /\ node' = n /\ par' = Nil
    /\ UNCHANGED <<trees, old>>

\* The descent that turns left on equal values.
LinkSideEqualLeft == IF Val[par] >= Val[node] THEN "left" ELSE "right"

\* link points to the root pointer while parent is NULL, then to the child of
\* parent on this side: "if (cur_data->v > value) left else right".
LinkSide == IF Val[par] > Val[node] THEN "left" ELSE "right"
Link == IF par = Nil THEN T.root ELSE T.child[LinkSide][par]

\* A descent that never moves link on, and so looks at the same node for ever.
DescendStays ==
    /\ pc = "descend"
    /\ Link # Nil
    /\ UNCHANGED vars

\* while (*link) { parent = *link; ... }
InsertDescend ==
    /\ pc = "descend"
    /\ Link # Nil
    /\ par' = Link
    /\ UNCHANGED <<trees, pc, cur, node, old>>

\* rb_link_node(node, parent, link) for the link the descent ended at
rb_link_node(t, n, p, s) ==
    LET t1 == Paint(SetParent(t, n, p), n, RED)
        t2 == SetChild(SetChild(t1, "left", n, Nil), "right", n, Nil)
        t3 == [t2 EXCEPT !.nodes = @ \cup {n}]
    IN  IF p = Nil THEN [t3 EXCEPT !.root = n] ELSE SetChild(t3, s, p, n)

InsertLink ==
    /\ pc = "descend"
    /\ Link = Nil
    /\ SetT(rb_link_node(T, node, par, LinkSide))
    /\ pc' = "insert_color"
    /\ par' = Nil
    /\ UNCHANGED <<cur, node, old>>

-----------------------------------------------------------------------------
(* rb_insert_color(node, root).  Its locals parent and gparent are read     *)
(* from the tree at the head of each iteration.                             *)

parent  == T.parent[node]
gparent == T.parent[parent]
pside   == IF T.child["left"][gparent] = parent THEN "left" ELSE "right"
uncle   == T.child[Opp(pside)][gparent]

\* (parent = rb_parent(node)) && rb_is_red(parent)
InsertLoop == parent # Nil /\ T.color[parent] = RED

\* The case of the red uncle without "rb_set_red(gparent)".
RecolorKeepsBlack ==
    /\ pc = "insert_color" /\ InsertLoop /\ gparent # Nil
    /\ ~IsBlack(T, uncle)
    /\ SetT(Paint(Paint(T, uncle, BLACK), parent, BLACK))
    /\ node' = gparent
    /\ UNCHANGED <<pc, cur, par, old>>

InsertRecolor ==
    /\ pc = "insert_color" /\ InsertLoop /\ gparent # Nil
    /\ ~IsBlack(T, uncle)
    /\ SetT(Paint(Paint(Paint(T, uncle, BLACK), parent, BLACK), gparent, RED))
    /\ node' = gparent
    /\ UNCHANGED <<pc, cur, par, old>>

InsertRotate ==
    /\ pc = "insert_color" /\ InsertLoop /\ gparent # Nil
    /\ IsBlack(T, uncle)
    /\ LET inner == T.child[Opp(pside)][parent] = node
           t1 == IF inner THEN Rotate(T, parent, pside) ELSE T
           t2 == Paint(Paint(t1, IF inner THEN node ELSE parent, BLACK), gparent, RED)
       IN  /\ CanRotate(t2, gparent, Opp(pside))
           /\ SetT(Rotate(t2, gparent, Opp(pside)))
           /\ node' = IF inner THEN parent ELSE node
    /\ UNCHANGED <<pc, cur, par, old>>

\* rb_insert_color without its last statement, rb_set_black(root->rb_node).
DoneKeepsRed ==
    /\ pc = "insert_color" /\ ~InsertLoop
    /\ UNCHANGED trees
    /\ Return

InsertDone ==
    /\ pc = "insert_color" /\ ~InsertLoop
    /\ SetT(Paint(T, T.root, BLACK))
    /\ Return

-----------------------------------------------------------------------------
(* rb_erase(node, root), called right before free(data) on the node.        *)

\* "color: if (color == RB_BLACK) __rb_erase_color(child, parent, root);" and
\* the caller's free when there is nothing to repair.
Unlinked(r, t, child, p, color, victim) ==
    LET t1 == [t EXCEPT !.nodes = @ \ {victim}]
    IN  IF color = BLACK
        THEN /\ trees' = [trees EXCEPT ![r] = t1]
             /\ pc' = "erase_color" /\ cur' = r
             /\ node' = child /\ par' = p /\ old' = victim
        ELSE /\ trees' = [trees EXCEPT ![r] = Freed(t1)]
             /\ Return

rb_erase(r, n) ==
    /\ pc = "idle"
    /\ n \in trees[r].nodes
    /\ LET t     == trees[r]
           child == IF t.child["left"][n] = Nil THEN t.child["right"][n]
                                                ELSE t.child["left"][n]
           p     == t.parent[n]
       IN  IF \A s \in Side : t.child[s][n] # Nil
           THEN /\ pc' = "successor" /\ cur' = r /\ old' = n
                /\ node' = t.child["right"][n]
                /\ UNCHANGED <<trees, par>>
           ELSE Unlinked(r, Relink(SetParent(t, child, p), p, "left", n, child),
                         child, p, t.color[n], n)

\* while ((left = node->rb_left) != NULL) node = left;
EraseDescend ==
    /\ pc = "successor"
    /\ T.child["left"][node] # Nil
    /\ node' = T.child["left"][node]
    /\ UNCHANGED <<trees, pc, cur, par, old>>

\* The successor of old leaves its place to its right child and takes over
\* old's colour and pointers.
EraseSplice ==
    /\ pc = "successor"
    /\ T.child["left"][node] = Nil /\ T.parent[node] # Nil
    /\ LET child == T.child["right"][node]
           p     == T.parent[node]
           t1 == SetChild(SetParent(T, child, p),
                          IF p = old THEN "right" ELSE "left", p, child)
           t2 == Replace(t1, old, node)
       IN  Unlinked(cur, t2, child, IF p = old THEN node ELSE p, T.color[node], old)

-----------------------------------------------------------------------------
(* __rb_erase_color(node, parent, root): the paths through node are one     *)
(* black node short.                                                        *)

EraseLoop == IsBlack(T, node) /\ node # T.root

side == IF T.child["left"][par] = node THEN "left" ELSE "right"

\* "if (rb_is_red(other)) { ... other = parent->rb_right; }"
BlackSibling ==
    LET other == T.child[Opp(side)][par]
    IN  IF IsBlack(T, other) THEN T
        ELSE Rotate(Paint(Paint(T, other, BLACK), par, RED), par, side)

\* Both children of the sibling are black: the sibling turns red, and now the
\* paths through the parent are short.
EraseRecolor ==
    /\ pc = "erase_color" /\ EraseLoop
    /\ CanRotate(T, par, side)
    /\ LET t     == BlackSibling
           other == t.child[Opp(side)][par]
       IN  /\ other # Nil
           /\ \A s \in Side : IsBlack(t, t.child[s][other])
           /\ SetT(Paint(t, other, RED))
           /\ node' = par
           /\ par' = t.parent[par]
    /\ UNCHANGED <<pc, cur, old>>

\* One of the sibling's children is red: the loop ends ("break").
EraseRotate ==
    /\ pc = "erase_color" /\ EraseLoop
    /\ CanRotate(T, par, side)
    /\ LET s  == side
           t  == BlackSibling
           o  == t.child[Opp(s)][par]
           t1 == IF IsBlack(t, t.child[Opp(s)][o])
                 THEN Rotate(Paint(Paint(t, t.child[s][o], BLACK), o, RED), o, Opp(s))
                 ELSE t
           other == t1.child[Opp(s)][par]
           t2 == Paint(Paint(t1, other, t1.color[par]), par, BLACK)
           t3 == Rotate(Paint(t2, t2.child[Opp(s)][other], BLACK), par, s)
       IN  /\ o # Nil
           /\ \E d \in Side : ~IsBlack(t, t.child[d][o])
           /\ CanRotate(t1, par, s)
           /\ SetT(t3)
           /\ node' = t3.root
    /\ UNCHANGED <<pc, cur, par, old>>

\* "if (node) rb_set_black(node);" and the caller's free(data).
EraseDone ==
    /\ pc = "erase_color" /\ ~EraseLoop
    /\ SetT(Freed(Paint(T, node, BLACK)))
    /\ Return

\* rb_replace_node(victim, new_node, root), for a new node of the same value,
\* and the caller's free of the victim.  Nothing in the program calls it.
rb_replace_node(r, v, n) ==
    /\ pc = "idle"
    /\ v \in trees[r].nodes /\ Unused(n) /\ Val[n] = Val[v]
    /\ LET t == [Replace(trees[r], v, n) EXCEPT !.nodes = (@ \ {v}) \cup {n}]
       IN  trees' = [trees EXCEPT ![r] = Freed(t)]
    /\ UNCHANGED <<pc, cur, node, par, old>>

-----------------------------------------------------------------------------

InsertStep == InsertDescend \/ InsertLink \/ InsertRecolor \/ InsertRotate \/ InsertDone
EraseStep == EraseDescend \/ EraseSplice \/ EraseRecolor \/ EraseRotate \/ EraseDone

Next ==
    \/ \E r \in Root, n \in Node : rb_insert_data(r, n)
    \/ InsertStep
    \/ \E r \in Root, n \in Node : rb_erase(r, n)
    \/ EraseStep
    \/ \E r \in Root, v, n \in Node : rb_replace_node(r, v, n)

\* The routines run in one thread and never wait: once called, they go on.
Spec == Init /\ [][Next]_vars /\ WF_vars(InsertStep \/ EraseStep)

-----------------------------------------------------------------------------
(* Properties.                                                              *)

\* Child and parent pointers of one tree agree: every child's parent pointer
\* leads back, every parent pointer is matched by a child pointer or by the
\* root, no node hangs on both sides, and nothing points outside the tree.
Links(t) ==
    /\ t.root \in t.nodes \cup {Nil}
    /\ \A n \in t.nodes :
        /\ t.parent[n] \in t.nodes \cup {Nil}
        /\ t.parent[n] = Nil <=> n = t.root
        /\ t.parent[n] # Nil => \E s \in Side : t.child[s][t.parent[n]] = n
        /\ \A s \in Side :
            /\ t.child[s][n] \in t.nodes \cup {Nil}
            /\ t.child[s][n] # Nil => /\ t.parent[t.child[s][n]] = n
                                      /\ t.child[s][n] # t.child[Opp(s)][n]

\* The pointers agree before and after every loop iteration of rbtree.c, so
\* the rotations and the unlinking in rb_erase never drop or duplicate a
\* subtree, and no pointer to a freed Data object survives.
LinksOK == \A r \in Root : Links(trees[r])

\* rb_insert_color reads gparent->rb_left without testing gparent
\* (rbtree.c:104), and __rb_erase_color reads the colour and the children of
\* the sibling without testing it (rbtree.c:173, 180, 210, 217): neither is
\* ever NULL there.
NoNullDeref ==
    /\ pc = "insert_color" /\ InsertLoop => gparent # Nil
    /\ pc = "erase_color" /\ EraseLoop =>
        /\ CanRotate(T, par, side)
        /\ BlackSibling.child[Opp(side)][par] # Nil

\* The ancestors of n and n itself, following rb_parent.
Above(t, n) ==
    LET go[k \in 0..Fuel] ==
            [p \in Ptr |-> IF k = 0 \/ p = Nil THEN {} ELSE {p} \cup go[k - 1][t.parent[p]]]
    IN  go[Fuel][n]

BlackDepth(t, n) == Cardinality({m \in Above(t, n) : t.color[m] = BLACK})

\* When no routine is in progress a tree is a red-black tree: black root, no
\* red node below a red node, the same number of black nodes on every path
\* from the root to a missing child.  Search time depends on it.
RedBlack ==
    pc = "idle" => \A r \in Root :
        LET t    == trees[r]
            ends == {n \in t.nodes : \E s \in Side : t.child[s][n] = Nil}
        IN  /\ IsBlack(t, t.root)
            /\ \A n \in t.nodes : t.color[n] = RED => IsBlack(t, t.parent[n])
            /\ \A m, n \in ends : BlackDepth(t, m) = BlackDepth(t, n)

\* rb_search_data finds a value exactly when a Data object with it is in the
\* tree, though rotations move objects of equal value to both sides of each
\* other.
SearchFinds ==
    pc = "idle" => \A r \in Root : \A v \in {Val[n] : n \in Node} :
        LET found == rb_search_data(trees[r], v)
            equal == {n \in trees[r].nodes : Val[n] = v}
        IN  IF equal = {} THEN found = Nil ELSE found \in equal

\* Walking backwards with rb_last and rb_prev visits the nodes that walking
\* forwards with rb_first and rb_next visits, in the opposite order.
BackwardsIsReverse ==
    \A r \in Root :
        Visit(rb_last(trees[r]), [n \in Node |-> rb_prev(trees[r], n)]) = Reverse(Walk(trees[r]))

\* Every routine returns: no loop of rbtree.c goes round for ever.
Returns == pc # "idle" ~> pc = "idle"

\* Iterating with rb_first and rb_next visits the members in the order that
\* OrderedBag prescribes, also between two iterations of a rebalancing loop:
\* linking a node is the abstract addition, unlinking it the abstract removal,
\* and rebalancing changes nothing.
Bag == INSTANCE OrderedBag WITH order <- [r \in Root |-> Walk(trees[r])]

IsOrderedBag == Bag!Spec
=============================================================================
