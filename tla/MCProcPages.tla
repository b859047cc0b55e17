---------------------------- MODULE MCProcPages -----------------------------
(* Three regions of 1, 4 and 3 pages, two of which adjoin; pages 7 and 11    *)
(* are swapped out.                                                         *)
EXTENDS ProcPages

MCRegion == <<[start |-> 2, end |-> 3], [start |-> 5, end |-> 9], [start |-> 9, end |-> 12]>>

MCPme == [a \in Pages |-> IF a = 7 THEN {PM_SWAP, PM_SOFT_DIRTY}
                          ELSE IF a = 11 THEN {PM_SWAP, PM_FILE, PM_MMAP_EXCLUSIVE} ELSE {}]
=============================================================================
