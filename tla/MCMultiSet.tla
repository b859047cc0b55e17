----------------------------- MODULE MCMultiSet -----------------------------
(* MultiSet on two sets and a few Data objects, Same of them of each value. *)
EXTENDS MultiSet

CONSTANTS N, Same

MCNode == 1..N
MCVal == [n \in MCNode |-> (n + Same - 1) \div Same]
=============================================================================
