------------------------------- MODULE ToolRun -------------------------------
(***************************************************************************)
(* One run of a tool as the sequence of calls of its main function: the     *)
(* process objects of mem.c from proc_init to proc_del, the descriptors     *)
(* they hold, and the reports of cmp.c and setcmp.c on their pages.         *)
(*                                                                         *)
(* How the regions and pages come to be is the matter of ProcMaps and       *)
(* ProcPages, what goes on between tool and targets that of Session.  Here  *)
(* a hash or a count has any value: that of a page or, where nothing has    *)
(* been stored, what malloc found in memory.                                *)
(***************************************************************************)
EXTENDS Mains, Reports

CONSTANTS Hash,    \* the hashes considered
          Count,   \* the map counts considered
          Shape    \* Shape[q]: what q may consist of, as sequences of region sizes

ASSUME ToolAssumption ==
    /\ Hash \subseteq Nat
    /\ Count \subseteq Nat
    /\ Shape \in [Target -> SUBSET Seq(Nat)]

Closed == -1    \* a FILE * of NULL, or a descriptor of -1
Unset == -1     \* share before proc_parse_pagemap

VARIABLES exe,            \* which executable runs, with which option
          ip,             \* index of the call that main makes next
          phase,          \* "running", "returned", "exited" or "crashed"
          fds,            \* the open descriptors and the file of each
          kpageflags_fd,  \* the globals of mem.c
          kpagecount_fd,
          obj,            \* obj[q]: the struct Process of q
          out             \* out[f]: the rows that report f has printed

control == <<exe, ip, phase>>
files == <<fds, kpageflags_fd, kpagecount_fd>>
tvars == <<control, files, obj, out>>

\* What a struct Process is before proc_init.  built: "no" as long as the
\* fields maps and maps_size are uninitialised, "maps" when only the pages of
\* the regions are, "pages" when there are arrays of pages.
NoProcess ==
    [st |-> "none", pMapsFile |-> Closed, pMemFile |-> Closed, pagemap_fd |-> Closed,
     built |-> "no", scanned |-> FALSE, maps |-> << >>]

Report == {"print_simi", "print_intra_simi", "print_inter_simi", "print_total_dup",
           "print_simi_matrix", "print_inter_simi_mr", "print_intra_process_simi_mr"}

Std == [k \in 0..2 |-> <<"std", k>>]
MaxFd == 3 + 5 * Len(Pids)   \* bound: no run comes near it

TTypeOK ==
    /\ exe \in Tools
    /\ ip \in 1..Len(Main[exe]) + 1
    /\ phase \in {"running", "returned", "exited", "crashed"}
    /\ DOMAIN fds \subseteq 0..MaxFd
    /\ {kpageflags_fd, kpagecount_fd} \subseteq -1..MaxFd
    /\ \A q \in Target :
        /\ obj[q].st \in {"none", "live", "deleted"}
        /\ {obj[q].pMapsFile, obj[q].pMemFile, obj[q].pagemap_fd} \subseteq -1..MaxFd
        /\ obj[q].built \in {"no", "maps", "pages"}
        /\ obj[q].scanned => obj[q].built = "pages"
    /\ DOMAIN out = Report

TInit ==
    /\ exe \in Tools
    /\ ip = 1
    /\ phase = "running"
    /\ fds = Std
    /\ kpageflags_fd = -1
    /\ kpagecount_fd = -1
    /\ obj = [q \in Target |-> NoProcess]
    /\ out = [f \in Report |-> << >>]

At(op, q) == phase = "running" /\ ip <= Len(Main[exe]) /\ Main[exe][ip] = <<op, q>>
Advance == ip' = ip + 1 /\ UNCHANGED <<exe, phase>>

-----------------------------------------------------------------------------
(* Descriptors: open takes the lowest one that is free, close of one that   *)
(* is not open fails and nobody looks.                                      *)

NewFd(t) == Min((0..MaxFd) \ DOMAIN t)
Open(t, file) == [k \in DOMAIN t \cup {NewFd(t)} |-> IF k \in DOMAIN t THEN t[k] ELSE file]
Close(t, fd) == [k \in DOMAIN t \ {fd} |-> t[k]]

-----------------------------------------------------------------------------
(* The functions of mem.c.                                                  *)

proc_init(q) ==
    /\ At("proc_init", q)
    /\ obj' = [obj EXCEPT ![q] = [NoProcess EXCEPT !.st = "live"]]
    /\ Advance
    /\ UNCHANGED <<files, out>>

\* Processes of which nothing but the size of their regions is known.
Blank(q) ==
    {[i \in DOMAIN s |-> [k \in 1..s[i] |-> [hash |-> zero_page_hash, share |-> Unset]]] :
        s \in Shape[q]}

WithHash(m, g) == [i \in DOMAIN m |-> [k \in DOMAIN m[i] |-> [m[i][k] EXCEPT !.hash = g[<<i, k>>]]]]
WithShare(m, g) == [i \in DOMAIN m |-> [k \in DOMAIN m[i] |-> [m[i][k] EXCEPT !.share = g[<<i, k>>]]]]

\* open_file_maps and parse_maps, which leaves mr->pages as malloc left it.
proc_do_maps(q) ==
    /\ At("proc_do_maps", q)
    /\ fds' = Open(fds, <<"maps", q>>)
    /\ \E m \in Blank(q) :
        obj' = [obj EXCEPT ![q].pMapsFile = NewFd(fds),
                           ![q].built = "maps",
                           ![q].maps = m]
    /\ Advance
    /\ UNCHANGED <<kpageflags_fd, kpagecount_fd, out>>

\* open_proc_files, parse_maps and read_mem
proc_do(q) ==
    /\ At("proc_do", q)
    /\ LET t1 == Open(fds, <<"maps", q>>)
           t2 == Open(t1, <<"mem", q>>)
       IN  /\ fds' = Open(t2, <<"pagemap", q>>)
           /\ \E m \in Blank(q) : \E g \in [PageIndex(m) -> Hash] :
                obj' = [obj EXCEPT ![q].pMapsFile = NewFd(fds),
                                   ![q].pMemFile = NewFd(t1),
                                   ![q].pagemap_fd = NewFd(t2),
                                   ![q].built = "pages",
                                   ![q].maps = WithHash(m, g)]
    /\ Advance
    /\ UNCHANGED <<kpageflags_fd, kpagecount_fd, out>>

\* The descriptors after the two files have been opened and one of them has
\* been closed twice, where t1 is the table after the first open.
CloseLater(t1, q) == Close(Close(Open(t1, <<"kpagecount", q>>), NewFd(t1)), kpagecount_fd)
CloseTwice(t1, q) == Close(Close(Open(t1, <<"kpagecount", q>>), NewFd(t1)), NewFd(t1))

\* Opens both files, scans, and closes kpagecount_fd twice.
proc_parse_pagemap(q) ==
    /\ At("proc_parse_pagemap", q)
    /\ LET t1 == Open(fds, <<"kpageflags", q>>)
       IN  /\ kpageflags_fd' = NewFd(fds)
           /\ kpagecount_fd' = NewFd(t1)
           /\ fds' = CloseTwice(t1, q)
    /\ \E g \in [PageIndex(obj[q].maps) -> Count] :
        obj' = [obj EXCEPT ![q].maps = WithShare(@, g), ![q].scanned = TRUE]
    /\ Advance
    /\ UNCHANGED out

\* proc_del that forgets pMemFile.
DelKeepsMem(q) == Close(Close(fds, obj[q].pMapsFile), obj[q].pagemap_fd)

DelCloses(q) == Close(Close(Close(fds, obj[q].pMapsFile), obj[q].pMemFile), obj[q].pagemap_fd)

\* The pointers in maps, or maps itself, are uninitialised.
WildFree(q) == obj[q].built = "no" \/ (obj[q].built = "maps" /\ obj[q].maps # << >>)

\* The files are closed, the arrays are freed; the struct itself is not, and
\* keeps its dangling fields.
proc_del(q) ==
    /\ At("proc_del", q)
    /\ fds' = DelCloses(q)
    /\ IF WildFree(q)
       THEN phase' = "crashed" /\ UNCHANGED <<exe, ip, obj>>
       ELSE obj' = [obj EXCEPT ![q].st = "deleted"] /\ Advance
    /\ UNCHANGED <<kpageflags_fd, kpagecount_fd, out>>

\* Calls that touch neither descriptors nor process objects.
Other(q) ==
    /\ \E op \in {"proc_attach", "proc_detach", "proc_print_pages", "maps_stat", "nonzero_stat"} :
        At(op, q)
    /\ Advance
    /\ UNCHANGED <<files, obj, out>>

\* A call that opens, attaches or reads fails: exit(EXIT_FAILURE).
Fails(q) ==
    /\ \E op \in {"proc_attach", "proc_do_maps", "proc_do", "proc_parse_pagemap"} : At(op, q)
    /\ phase' = "exited"
    /\ fds' = << >>
    /\ UNCHANGED <<exe, ip, kpageflags_fd, kpagecount_fd, obj, out>>

-----------------------------------------------------------------------------
(* The reports.                                                             *)

proc == [i \in DOMAIN Pids |-> obj[Pids[i]].maps]

Prints(f, rows) ==
    /\ At(f, Pids[1])
    /\ out' = [out EXCEPT ![f] = rows]
    /\ Advance
    /\ UNCHANGED <<files, obj>>

CmpReport == \E rows \in print_simi(proc[1], proc[2]) : Prints("print_simi", rows)

SetcmpReport ==
    \/ Prints("print_intra_simi", print_intra_simi(proc))
    \/ Prints("print_inter_simi", print_inter_simi(proc))
    \/ ~TotalCrashes(proc) /\ Prints("print_total_dup", print_total_dup(proc))
    \/ Prints("print_simi_matrix", print_simi_matrix(proc))
    \/ Prints("print_inter_simi_mr", print_inter_simi_mr(proc))
    \/ Prints("print_intra_process_simi_mr", print_intra_process_simi_mr(proc))

\* The rows of the processes in front of the first with an empty set are
\* printed before print_total_dup reads through a wild pointer.
TotalDupCrash ==
    /\ At("print_total_dup", Pids[1])
    /\ TotalCrashes(proc)
    /\ LET first == Min({i \in DOMAIN proc : DOMAIN uniq_set_from_proc(proc[i]) = {}})
       IN  out' = [out EXCEPT !["print_total_dup"] = SubSeq(print_total_dup(proc), 1, first - 1)]
    /\ phase' = "crashed"
    /\ UNCHANGED <<exe, ip, files, obj>>

MainReturns ==
    /\ phase = "running" /\ ip = Len(Main[exe]) + 1
    /\ phase' = "returned"
    /\ UNCHANGED <<exe, ip, files, obj, out>>

TNext ==
    \/ \E q \in Target :
        \/ proc_init(q) \/ proc_do_maps(q) \/ proc_do(q) \/ proc_parse_pagemap(q)
        \/ proc_del(q) \/ Other(q) \/ Fails(q)
    \/ CmpReport \/ SetcmpReport \/ TotalDupCrash \/ MainReturns

TSpec == TInit /\ [][TNext]_tvars

-----------------------------------------------------------------------------
(* Properties.                                                              *)

Printed(f) == \E k \in 1..ip - 1 : Main[exe][k][1] = f

Live == {q \in Target : obj[q].st = "live"}

Handles(q) == {<<"maps", obj[q].pMapsFile>>, <<"mem", obj[q].pMemFile>>,
               <<"pagemap", obj[q].pagemap_fd>>}
Held(q) == {h \in Handles(q) : h[2] # Closed}

\* As long as a process object is in use, each of its handles is open and is
\* that of its own file: closing kpagecount_fd a second time (mem.c:681) has
\* not closed the file of another process that got the same number.
HandlesOwned ==
    phase = "running" =>
        \A q \in Live : \A h \in Held(q) : h[2] \in DOMAIN fds /\ fds[h[2]] = <<h[1], q>>

\* Apart from the handles of the objects in use, the only descriptors that are
\* open are those of kpageflags, one for every process that was scanned, for
\* the rest of the run ("not closed.. sorry", mem.c:27).
OnlyFlagsLeak ==
    phase \in {"running", "returned"} =>
        /\ IsInjective(fds)
        /\ Range(fds) = Range(Std)
                        \cup (UNION {{<<h[1], q>> : h \in Held(q)} : q \in Live})
                        \cup {<<"kpageflags", q>> : q \in {p \in Target : obj[p].scanned}}

\* The contents of the pages with an index in W.
Contents(pages, W) == {pages[k].hash : k \in W}

\* A tool crashes only in print_total_dup, and only if one of the processes
\* has no page that is both nonzero and mapped at most once: no proc_del frees
\* an uninitialised pointer, though only proc_do initialises them.
CrashOnlyIfEmpty ==
    phase = "crashed" =>
        /\ exe \in {"setcmp", "setcmp all"} /\ Main[exe][ip][1] = "print_total_dup"
        /\ \E i \in DOMAIN proc : Candidates(AllPages(proc[i])) = {}

\* For a process without shared pages print_intra_simi prints how many pages
\* could go if one page of each content were kept, in whichever regions they
\* are.
IntraSavings ==
    Printed("print_intra_simi") => \A i \in DOMAIN proc :
        LET pages == AllPages(proc[i])
        IN  Nonzero(pages) = Candidates(pages) =>
                out["print_intra_simi"][i] =
                    Cardinality(Nonzero(pages)) - Cardinality(Contents(pages, Nonzero(pages)))

\* The sum of the numbers f[1], ..., f[n], as far as they are there.
Total(f, n) ==
    LET sum[k \in 0..n] ==
            IF k = 0 THEN 0 ELSE sum[k - 1] + (IF k \in DOMAIN f THEN f[k] ELSE 0)
    IN  sum[n]

\* What the reports of setcmp print of one process fits together, though they
\* build their sets by different rules: distinct pages found elsewhere are no
\* more than pages found elsewhere, which are no more than there are pages; a
\* page found elsewhere is found in some column of the matrix; by regions
\* at least as many are found, because shared pages count there; and a page
\* that two regions of a process have in common is reported of both.
ReportsAgree ==
    LET total  == out["print_total_dup"]
        inter  == out["print_inter_simi"]
        intra  == out["print_intra_simi"]
        matrix == out["print_simi_matrix"]
        by_mr  == out["print_inter_simi_mr"]
        within == out["print_intra_process_simi_mr"]
        found(i) == Total([j \in DOMAIN by_mr[i] |-> by_mr[i][j][1]], Len(proc[i]))
    IN  /\ Printed("print_total_dup") => \A i \in DOMAIN proc :
            /\ total[i][1] <= inter[i] /\ inter[i] <= total[i][2]
            /\ intra[i] \in 0..total[i][2]
        /\ Printed("print_simi_matrix") => \A i \in DOMAIN proc :
            /\ inter[i] <= Total(matrix[i], Len(matrix[i]))
            /\ \A j \in DOMAIN proc : matrix[i][j] <= inter[i]
        /\ Printed("print_inter_simi_mr") => \A i \in DOMAIN proc :
            inter[i] <= found(i) /\ found(i) <= total[i][2]
        /\ \A i \in DOMAIN within : Cardinality(DOMAIN within[i]) # 1

\* How many pages of region m1 of the first process are found in m2; shared
\* pages of either do not count.
Common(m1, m2) == Cardinality({k \in Candidates(m1) : m1[k].hash \in Contents(m2, Candidates(m2))})

CmpRows(rows, p1, p2) ==
    /\ \A k, l \in DOMAIN rows : k < l => rows[k][1] <= rows[l][1]
    /\ IsInjective(rows)
    /\ Range(rows) = {<<Common(p1[i], p2[j]), i, j>> : i \in DOMAIN p1, j \in DOMAIN p2}
                     \ {<<0, i, j>> : i \in DOMAIN p1, j \in DOMAIN p2}

\* cmp prints each pair of regions that have a page in common, one that is
\* nonzero and mapped at most once in both, exactly once, with the number of such
\* pages of the first found in the second, smallest first.
CmpTable == Printed("print_simi") => CmpRows(out["print_simi"], proc[1], proc[2])

\* "for each <pid>, compute how many pages of it are not unique" (setcmp.c:4):
\* when setcmp is through, it has printed a number for each process.
EveryProcessCounted ==
    exe = "setcmp" /\ phase \in {"returned", "crashed"} =>
        Len(out["print_total_dup"]) = Len(Pids)
=============================================================================
