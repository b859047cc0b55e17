----------------------------- MODULE MCToolRun ------------------------------
(* ToolRun with three processes, of which cmp takes two and memdump one.     *)
EXTENDS ToolRun

CONSTANTS p1, p2, p3

MCPids == <<p1, p2, p3>>
MCShape == p1 :> {<<2>>, <<1, 1>>} @@ p2 :> {<<1, 1>>, << >>} @@ p3 :> {<<1>>}
=============================================================================
