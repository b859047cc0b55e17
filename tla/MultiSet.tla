------------------------------ MODULE MultiSet ------------------------------
(***************************************************************************)
(* The multiset of simi.c on top of the red-black tree: set_init, set_add,  *)
(* set_free as actions, the queries as operators on the trees.  A struct    *)
(* Set is its rb_root, so Root names the sets too.                          *)
(***************************************************************************)
EXTENDS RBTree

CONSTANT NaN   \* the double that is not a number

ASSUME NaNAssumption == NaN \notin Nat \X Nat

VARIABLES size,     \* size[r]: the field size of struct Set
          live,     \* the sets between set_init and the end of set_free
          freeing   \* the set that set_free is at work on, or Nil

svars == <<size, live, freeing>>
mvars == <<vars, svars>>

MTypeOK ==
    /\ TypeOK
    /\ size \in [Root -> 0..Cardinality(Node)]
    /\ live \subseteq Root
    /\ freeing \in live \cup {Nil}

MInit ==
    /\ Init
    /\ size = [r \in Root |-> 0]
    /\ live = {}
    /\ freeing = Nil

-----------------------------------------------------------------------------

Ready(r) == pc = "idle" /\ freeing = Nil /\ r \in live

\* set_init that leaves the size of malloc'ed memory as it was.
InitKeepsSize(r) ==
    /\ pc = "idle" /\ freeing = Nil
    /\ r \notin live
    /\ trees' = [trees EXCEPT ![r] = RB_ROOT]
    /\ live' = live \cup {r}
    /\ UNCHANGED <<pc, cur, node, par, old, size, freeing>>

set_init(r) ==
    /\ pc = "idle" /\ freeing = Nil
    /\ r \notin live
    /\ trees' = [trees EXCEPT ![r] = RB_ROOT]
    /\ size' = [size EXCEPT ![r] = 0]
    /\ live' = live \cup {r}
    /\ UNCHANGED <<pc, cur, node, par, old, freeing>>

\* set_add and rb_insert_data both counting.
AddCountsTwice(r, n) ==
    /\ Ready(r)
    /\ rb_insert_data(r, n)
    /\ size' = [size EXCEPT ![r] = @ + 2]
    /\ UNCHANGED <<live, freeing>>

\* s->size++, then rb_insert_data runs in the actions of RBTree.
set_add(r, n) ==
    /\ Ready(r)
    /\ rb_insert_data(r, n)
    /\ size' = [size EXCEPT ![r] = @ + 1]
    /\ UNCHANGED <<live, freeing>>

set_free(r) ==
    /\ Ready(r)
    /\ freeing' = r
    /\ UNCHANGED <<vars, size, live>>

\* A loop that stops at a root without children.
FreeLoopStopsEarly ==
    /\ pc = "idle" /\ freeing # Nil
    /\ \E s \in Side : trees[freeing].root # Nil
                       /\ trees[freeing].child[s][trees[freeing].root] # Nil
    /\ rb_erase(freeing, trees[freeing].root)
    /\ UNCHANGED svars

\* while (s->root.rb_node != NULL) { rb_erase(s->root.rb_node, ...); free }
FreeLoop ==
    /\ pc = "idle" /\ freeing # Nil
    /\ trees[freeing].root # Nil
    /\ rb_erase(freeing, trees[freeing].root)
    /\ UNCHANGED svars

\* free(s) while the root, without children, is still in the tree.
FreeDoneLeaf ==
    /\ pc = "idle" /\ freeing # Nil
    /\ \A s \in Side : trees[freeing].root # Nil
                       => trees[freeing].child[s][trees[freeing].root] = Nil
    /\ live' = live \ {freeing}
    /\ freeing' = Nil
    /\ UNCHANGED <<vars, size>>

\* free(s)
FreeDone ==
    /\ pc = "idle" /\ freeing # Nil
    /\ trees[freeing].root = Nil
    /\ live' = live \ {freeing}
    /\ freeing' = Nil
    /\ UNCHANGED <<vars, size>>

TreeStep == (InsertStep \/ EraseStep) /\ UNCHANGED svars

Step == TreeStep \/ FreeLoop \/ FreeDone

MNext ==
    \/ \E r \in Root : set_init(r) \/ set_free(r)
    \/ \E r \in Root, n \in Node : set_add(r, n)
    \/ Step

\* One thread: a call that has been made goes on until it returns.
MSpec == MInit /\ [][MNext]_mvars /\ WF_mvars(Step)

-----------------------------------------------------------------------------
(* The queries.                                                             *)

set_in(r, v) == rb_search_data(trees[r], v) # Nil

set_size(r) == size[r]

\* Counting the members of a by a search in a itself.
FoundInSelf(a, b) ==
    LET w == Walk(trees[a]) IN Cardinality({i \in DOMAIN w : set_in(a, Val[w[i]])})

\* for (p = rb_first(a); p; p = rb_next(p)) if (set_in(b, data)) ++cnt;
set_found_in(a, b) ==
    LET w == Walk(trees[a]) IN Cardinality({i \in DOMAIN w : set_in(b, Val[w[i]])})

\* (double)m / (double)n for m in 0..n, as a fraction <<numerator, denominator>>;
\* 0.0 / 0.0 is NaN.
Quotient(m, n) == IF n = 0 THEN NaN ELSE <<m, n>>

\* z counting the members of b that are in a.
JaccardSwapsZ(a, b) ==
    LET y == set_found_in(a, b)
        x == Len(Walk(trees[a])) - y
    IN  Quotient(y, x + y + set_found_in(b, a))

set_jaccard(a, b) ==
    LET y == set_found_in(a, b)
        x == Len(Walk(trees[a])) - y
        z == Len(Walk(trees[b])) - set_found_in(b, a)
    IN  Quotient(y, x + y + z)

-----------------------------------------------------------------------------
(* What the queries should return, said of the members alone.               *)

Members(r) == trees[r].nodes
Times(r, v) == Cardinality({n \in Members(r) : Val[n] = v})
Values == {Val[n] : n \in Node}

\* set_size, which set_add counts up and nothing counts down, is the number
\* of objects that an iteration visits, and those are the members.
SizeCounts ==
    \A r \in live : Ready(r) => /\ size[r] = Len(Walk(trees[r]))
                                /\ size[r] = Cardinality(Members(r))

\* set_found_in counts every member of a, as often as it occurs, whose value
\* occurs in b ("set_found_in({a,a,a,a}, {a}) = 4", simi.h:28).
FoundInCounts ==
    \A a, b \in live : Ready(a) /\ Ready(b) =>
        set_found_in(a, b) =
            Cardinality({n \in Members(a) : Times(b, Val[n]) > 0})

\* set_free frees every Data object: a loop that only looks at the root
\* pointer leaves no object behind.
NothingLeaks == \A r \in Root \ live : Members(r) = {}

\* set_free returns.
FreeReturns == \A r \in Root : freeing = r ~> freeing = Nil

\* The value v occurs in r.
Has(r, v) == Times(r, v) > 0

\* set_jaccard is no number for two empty sets (simi.c:137 divides 0.0 by 0.0)
\* and for no others.  A number it returns is between 0 and 1: it is 1 exactly
\* when the same values occur in both multisets, 0 exactly when no value does,
\* and the Jaccard index when neither has repetitions.  (With repetitions it is
\* not: every one of a common value counts in a, those in b do not.)
JaccardIndex ==
    \A a, b \in live :
        LET j    == set_jaccard(a, b)
            both == {v \in Values : Has(a, v) /\ Has(b, v)}
            any  == {v \in Values : Has(a, v) \/ Has(b, v)}
        IN  Ready(a) /\ Ready(b) =>
                /\ j = NaN <=> any = {}
                /\ any # {} =>
                    /\ 0 <= j[1] /\ j[1] <= j[2] /\ 0 < j[2]
                    /\ j[1] = j[2] <=> both = any
                    /\ j[1] = 0 <=> both = {}
                    /\ (\A v \in Values : Times(a, v) <= 1 /\ Times(b, v) <= 1) =>
                        j[1] * Cardinality(any) = j[2] * Cardinality(both)
=============================================================================
