------------------------------- MODULE Reports -------------------------------
(***************************************************************************)
(* What cmp.c and setcmp.c compute from the page arrays: the sets they      *)
(* build and the numbers they print.                                        *)
(*                                                                         *)
(* A page is a record of hash and share, a region a sequence of pages, a    *)
(* process a sequence of regions.  A struct Set is the family of the hashes *)
(* added to it, each under the index of the page that it is of: MultiSet    *)
(* keeps them sorted, but no report depends on their order.                 *)
(***************************************************************************)
EXTENDS Integers, Sequences, FiniteSets, SequencesExt

CONSTANT zero_page_hash

page_is_zero(page) == page.hash = zero_page_hash
page_to_u32(page) == page.hash
page_count(page) == page.share

\* The pages that a loop over the regions and the pages of each visits, each
\* under its region and its place there, and the order of the loop.
PageIndex(p) == UNION {{i} \X DOMAIN p[i] : i \in DOMAIN p}
AllPages(p) == [k \in PageIndex(p) |-> p[k[1]][k[2]]]
Precedes(k, l) == k[1] < l[1] \/ (k[1] = l[1] /\ k[2] < l[2])

\* The pages that most of the loops do not skip, by index.
Nonzero(pages) == {k \in DOMAIN pages : ~page_is_zero(pages[k])}
Candidates(pages) == {k \in Nonzero(pages) : ~(page_count(pages[k]) > 1)}

Map(seq, f(_)) == [k \in DOMAIN seq |-> f(seq[k])]

-----------------------------------------------------------------------------
(* Sets.                                                                    *)

set_size(s) == Cardinality(DOMAIN s)
set_in(s, v) == \E k \in DOMAIN s : s[k] = v

\* How many elements of a, with repetitions, are in b.
set_found_in(a, b) == Cardinality({k \in DOMAIN a : set_in(b, a[k])})

\* A new set after set_add of the wanted pages, and after set_add of those that
\* were not set_in when their turn came.
AddAll(pages, wanted) == [k \in wanted |-> page_to_u32(pages[k])]
AddOnce(pages, wanted) ==
    AddAll(pages, {k \in wanted :
        ~\E l \in wanted : Precedes(l, k) /\ page_to_u32(pages[l]) = page_to_u32(pages[k])})

\* Each is called for one region after the other: these are the pages of all.
set_add_mr(pages) == AddAll(pages, Nonzero(pages))
cand_set_add_mr(pages) == AddAll(pages, Candidates(pages))
uniq_set_add_mr(pages) == AddOnce(pages, Candidates(pages))

set_from_mr(mr) == set_add_mr(AllPages(<<mr>>))
uniq_set_from_mr(mr) == uniq_set_add_mr(AllPages(<<mr>>))

set_from_proc(p) == set_add_mr(AllPages(p))
cand_set_from_proc(p) == cand_set_add_mr(AllPages(p))

\* A new set for every region, the last of which is returned.
UniqPerRegion(p) == IF p = << >> THEN << >> ELSE uniq_set_from_mr(p[Len(p)])

uniq_set_from_proc(p) == uniq_set_add_mr(AllPages(p))

\* A search that stops in front of the set of the process itself.
FoundBefore(set, v, this) == IF \E k \in 1..this - 1 : set_in(set[k], v) THEN 1 ELSE 0

found_in_other_sets(set, v, this) ==
    IF \E k \in DOMAIN set \ {this} : set_in(set[k], v) THEN 1 ELSE 0

\* How many of the pages are found in a set other than that of this.
CountFound(pages, wanted, set, this) ==
    Cardinality({k \in wanted : found_in_other_sets(set, page_to_u32(pages[k]), this) = 1})

-----------------------------------------------------------------------------
(* The reports of setcmp: what each prints, one row for each process.       *)

print_intra_simi(proc) ==
    Map(proc, LAMBDA p : set_size(set_from_proc(p)) - set_size(uniq_set_from_proc(p)))

print_inter_simi(proc) ==
    LET set == Map(proc, set_from_proc)
    IN  [i \in DOMAIN proc |->
            CountFound(AllPages(proc[i]), Candidates(AllPages(proc[i])), set, i)]

\* Rows <<dup_page_nr, set_size>>.
print_total_dup(proc) ==
    LET set == Map(proc, set_from_proc)
        uniq_set == Map(proc, uniq_set_from_proc)
        found(i) == {k \in DOMAIN uniq_set[i] :
                        found_in_other_sets(uniq_set, uniq_set[i][k], i) = 1}
    IN  [i \in DOMAIN proc |-> <<Cardinality(found(i)), set_size(set[i])>>]

\* set_first of an empty set is a pointer in front of address 0, which the
\* first call of found_in_other_sets reads through.
TotalCrashes(proc) == \E i \in DOMAIN proc : DOMAIN uniq_set_from_proc(proc[i]) = {}

print_simi_matrix(proc) ==
    LET set == Map(proc, set_from_proc)
        cand_set == Map(proc, cand_set_from_proc)
    IN  [i \in DOMAIN proc |-> [j \in DOMAIN proc |->
            IF i = j THEN 0 ELSE set_found_in(cand_set[i], set[j])]]

mr_dup_inter(set, mr, this) == CountFound(mr, Nonzero(mr), set, this)

mr_nonzero_num(mr) == Cardinality(Nonzero(mr))

\* For each process the rows <<dup, nonzero>> of those regions that have any.
print_inter_simi_mr(proc) ==
    LET set == Map(proc, set_from_proc)
        dup(i, j) == mr_dup_inter(set, proc[i][j], i)
    IN  [i \in DOMAIN proc |->
            [j \in {j \in DOMAIN proc[i] : dup(i, j) # 0} |->
                <<dup(i, j), mr_nonzero_num(proc[i][j])>>]]

intra_mr_simi(mr) == set_size(set_from_mr(mr)) - set_size(uniq_set_from_mr(mr))

\* Rows <<dup in this region, dup in other regions>>.  All pages are looked
\* for, but the sets hold no zero page.
intra_proc_simi_mr(p) ==
    LET set == Map(p, set_from_mr)
        dup_page_nr(i) == CountFound(p[i], DOMAIN p[i], set, i)
    IN  [i \in {i \in DOMAIN p : dup_page_nr(i) # 0} |-> <<intra_mr_simi(p[i]), dup_page_nr(i)>>]

print_intra_process_simi_mr(proc) == Map(proc, intra_proc_simi_mr)

-----------------------------------------------------------------------------
(* The report of cmp.                                                       *)

\* build_set_from_mr without repetitions.
BuildUniq(m) == uniq_set_from_mr(m)

build_set_from_mr(m) == cand_set_add_mr(AllPages(<<m>>))

\* The array redunds before qsort, rows <<dup, m1, m2>>: the row of regions
\* i and j of the two processes, counted from 0, has index i * n2 + j.
Redunds(p1, p2) ==
    LET n2 == Len(p2)
        row(i, j) == <<set_found_in(build_set_from_mr(p1[i]), build_set_from_mr(p2[j])), i, j>>
    IN  [k \in 1..Len(p1) * n2 |-> row(((k - 1) \div n2) + 1, ((k - 1) % n2) + 1)]

\* What qsort with comp_redunds may make of the array: it is not stable.
Sorted(rows) ==
    {s \in {[k \in DOMAIN rows |-> rows[f[k]]] : f \in Bijection(DOMAIN rows, DOMAIN rows)} :
        \A k, l \in DOMAIN s : k < l => s[k][1] <= s[l][1]}

\* The rows that print_simi may print, each under its place in the sorted
\* array: those without duplicates are skipped.
print_simi(p1, p2) ==
    {[k \in {k \in DOMAIN s : s[k][1] # 0} |-> s[k]] : s \in Sorted(Redunds(p1, p2))}
=============================================================================
