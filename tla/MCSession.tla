----------------------------- MODULE MCSession ------------------------------
(* Session with two targets.                                                *)
EXTENDS Session

CONSTANTS p1, p2

MCPids == <<p1, p2>>
=============================================================================
