------------------------------ MODULE MCRBTree ------------------------------
(* RBTree on a few Data objects; Same of them share each value.             *)
EXTENDS RBTree

CONSTANTS N,      \* the number of Data objects
          Same    \* how many of them have the same value

MCNode == 1..N
MCVal == [n \in MCNode |-> (n + Same - 1) \div Same]
=============================================================================
