----------------------------- MODULE OrderedBag -----------------------------
(***************************************************************************)
(* What simi.c promises its callers: a Set ("this is not a set! this is a   *)
(* multi set", simi.h:7) is a list of Data objects sorted by value, in      *)
(* which objects of equal value keep the order they were added in.          *)
(* RBTree and MultiSet are shown to implement this specification.           *)
(***************************************************************************)
EXTENDS Naturals, Sequences, FiniteSets, SequencesExt

CONSTANTS Root,   \* the sets
          Node,   \* the Data objects
          Val     \* Val[n]: the value of a Data object

VARIABLE order    \* order[r]: the members of set r, in the order of iteration

Elements(r) == ToSet(order[r])

Init == order = [r \in Root |-> << >>]

Members == UNION {Elements(q) : q \in Root}

\* A new object goes behind every member whose value is not greater.
Add(r, n) ==
    LET before == {m \in Elements(r) : Val[m] <= Val[n]}
    IN  order' = [order EXCEPT ![r] = InsertAt(@, Cardinality(before) + 1, n)]

\* The i-th member goes.
Del(r, i) == order' = [order EXCEPT ![r] = RemoveAt(@, i)]

\* A new object takes the place of a member of the same value.
Swap(r, i, n) ==
    /\ Val[n] = Val[order[r][i]]
    /\ order' = [order EXCEPT ![r][i] = n]

Next ==
    \E r \in Root :
        \/ \E n \in Node \ Members : Add(r, n)
        \/ \E i \in DOMAIN order[r] : Del(r, i)
        \/ \E i \in DOMAIN order[r], n \in Node \ Members : Swap(r, i, n)

Spec == Init /\ [][Next]_order
=============================================================================
