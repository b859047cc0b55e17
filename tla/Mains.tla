-------------------------------- MODULE Mains --------------------------------
(***************************************************************************)
(* The main functions of memdump, cmp and setcmp: which functions of mem.c, *)
(* cmp.c and setcmp.c they call, on which process, in which order.  A call  *)
(* is a pair <<function, process>>; the reports on all processes carry the  *)
(* first.  Session and ToolRun say what the calls do.                       *)
(***************************************************************************)
EXTENDS Naturals, Sequences, FiniteSets, SequencesExt

CONSTANTS Pids,    \* argv: the targets; memdump has one, cmp two of them
          Tools    \* the command lines considered

Target == ToSet(Pids)

ASSUME MainsAssumption ==
    /\ Tools \subseteq {"memdump", "memdump -m", "memdump -n", "cmp", "setcmp", "setcmp all"}
    /\ Pids \in Seq(Target)
    /\ Len(Pids) >= 2
    /\ IsInjective(Pids)

memdump_main ==
    LET p == Pids[1]
    IN  << <<"proc_init", p>>, <<"proc_attach", p>>, <<"proc_do", p>>,
           <<"proc_parse_pagemap", p>>, <<"proc_detach", p>>,
           <<"proc_print_pages", p>>, <<"proc_del", p>> >>

\* maps_stat that cleans up behind itself.
MapsStatDeletes ==
    LET p == Pids[1]
    IN  << <<"proc_init", p>>, <<"proc_do_maps", p>>, <<"maps_stat", p>>, <<"proc_del", p>> >>

\* memdump <pid> -m
maps_stat ==
    LET p == Pids[1]
    IN  << <<"proc_init", p>>, <<"proc_do_maps", p>>, <<"maps_stat", p>> >>

\* memdump <pid> -n
nonzero_stat ==
    LET p == Pids[1]
    IN  << <<"proc_init", p>>, <<"proc_do", p>>, <<"nonzero_stat", p>> >>

\* cmp that is through with one process before it attaches to the other.
CmpOneByOne ==
    LET p == Pids[1]
        q == Pids[2]
    IN  << <<"proc_init", p>>, <<"proc_init", q>>,
           <<"proc_attach", p>>, <<"proc_do", p>>, <<"proc_parse_pagemap", p>>,
           <<"proc_attach", q>>, <<"proc_do", q>>, <<"proc_parse_pagemap", q>>,
           <<"print_simi", p>>, <<"proc_detach", p>>, <<"proc_detach", q>>,
           <<"proc_del", p>>, <<"proc_del", q>> >>

\* cmp that scans the page tables before it has read the maps.
CmpScansFirst ==
    LET p == Pids[1]
        q == Pids[2]
    IN  << <<"proc_init", p>>, <<"proc_init", q>>,
           <<"proc_attach", p>>, <<"proc_attach", q>>,
           <<"proc_parse_pagemap", p>>, <<"proc_parse_pagemap", q>>,
           <<"proc_do", p>>, <<"proc_do", q>>,
           <<"print_simi", p>>,
           <<"proc_detach", p>>, <<"proc_detach", q>>,
           <<"proc_del", p>>, <<"proc_del", q>> >>

cmp_main ==
    LET p == Pids[1]
        q == Pids[2]
    IN  << <<"proc_init", p>>, <<"proc_init", q>>,
           <<"proc_attach", p>>, <<"proc_attach", q>>,
           <<"proc_do", p>>, <<"proc_do", q>>,
           <<"proc_parse_pagemap", p>>, <<"proc_parse_pagemap", q>>,
           <<"print_simi", p>>,
           <<"proc_detach", p>>, <<"proc_detach", q>>,
           <<"proc_del", p>>, <<"proc_del", q>> >>

\* for (i = 0; i < argc - 1; i++): the calls ops on one process after the other.
Each(ops) ==
    [k \in 1..Len(ops) * Len(Pids) |->
        <<ops[1 + ((k - 1) % Len(ops))], Pids[1 + ((k - 1) \div Len(ops))]>>]

\* setcmp with the given reports.
Setcmp(reports) ==
    Each(<<"proc_init">>) \o
    Each(<<"proc_attach", "proc_do", "proc_parse_pagemap", "proc_detach">>) \o
    [k \in DOMAIN reports |-> <<reports[k], Pids[1]>>] \o
    Each(<<"proc_del">>)

setcmp_main == Setcmp(<<"print_intra_simi", "print_inter_simi", "print_total_dup">>)

\* setcmp with the three calls that its main has commented out.
setcmp_all ==
    Setcmp(<<"print_intra_simi", "print_inter_simi", "print_total_dup",
             "print_simi_matrix", "print_inter_simi_mr", "print_intra_process_simi_mr">>)

\* The calls of each command line.
Main ==
    [e \in Tools |->
        CASE e = "memdump"    -> memdump_main
          [] e = "memdump -m" -> maps_stat
          [] e = "memdump -n" -> nonzero_stat
          [] e = "cmp"        -> cmp_main
          [] e = "setcmp"     -> setcmp_main
          [] e = "setcmp all" -> setcmp_all]
=============================================================================
