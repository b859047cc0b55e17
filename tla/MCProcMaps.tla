----------------------------- MODULE MCProcMaps -----------------------------
(* Lines for ProcMaps: file mappings and anonymous regions of one and two   *)
(* pages, with names that fit the buffer and names that do not.             *)
EXTENDS ProcMaps

MCKind ==
    {[pages |-> 1, anon |-> FALSE, long |-> FALSE],
     [pages |-> 2, anon |-> FALSE, long |-> TRUE],
     [pages |-> 1, anon |-> TRUE, long |-> FALSE],
     [pages |-> 2, anon |-> TRUE, long |-> TRUE]}
=============================================================================
