------------------------------ MODULE ProcPages ------------------------------
(***************************************************************************)
(* read_mem and proc_parse_pagemap of mem.c: fill the arrays mr->pages of   *)
(* the regions that parse_maps kept with page hashes and map counts.        *)
(*                                                                         *)
(* Addresses are page numbers.  A hash or a count is abstracted to the page *)
(* it was computed from, so that it shows when it lands in the wrong place. *)
(***************************************************************************)
EXTENDS Integers, Sequences, FiniteSets

CONSTANTS Region,      \* p->maps: a sequence of [start, end] page numbers
          Unreadable,  \* the pages of which every read fails
          Present,     \* the pages whose pagemap entry has a page frame number
          Pme,         \* Pme[a]: the other bits that are set in the entry of page a
          PAGEMAP_BATCH,
          MaxFault     \* bound: reads of mem, kpageflags and pagemap that fail
                       \* although they might have succeeded

Index == 1..Len(Region)
PageNum(i) == Region[i].end - Region[i].start          \* mr_page_num
PageOf(i, k) == Region[i].start + k
Pages == UNION {Region[i].start..Region[i].end - 1 : i \in Index}

\* Bits of a pagemap entry.
PM_SOFT_DIRTY == 55
PM_MMAP_EXCLUSIVE == 56
PM_FILE == 61
PM_SWAP == 62

ASSUME PagesAssumption ==
    /\ Region \in Seq([start : Nat, end : Nat])
    /\ \A j \in Index : Region[j].start < Region[j].end
    /\ \A j, k \in Index : j < k => Region[j].end <= Region[k].start
    /\ Unreadable \subseteq Pages
    /\ Present \subseteq Pages
    /\ Pme \in [Pages -> SUBSET {PM_SOFT_DIRTY, PM_MMAP_EXCLUSIVE, PM_FILE, PM_SWAP}]
    /\ PAGEMAP_BATCH \in Nat \ {0}
    /\ MaxFault \in Nat

Junk == -1   \* what malloc left in a field that nothing has been stored in

VARIABLES phase,   \* "hash" in read_mem, "share" in proc_parse_pagemap, "done",
                   \* or "exited" when the tool has called exit
          i,       \* the loop variable of both: which region
          addr,    \* read_mem: addr of the inner loop
          pos,     \* read_mem: the offset of pMemFile
          idx,     \* read_mem: idx
          index,   \* mr_parse_pagemap: index
          count,   \* mr_parse_pagemap: count
          hash,    \* hash[i][k]: maps[i].pages[k].hash
          share,   \* share[i][k]: maps[i].pages[k].share
          shown,   \* shown[a]: the lines that walk_swap has printed of page a
          faults   \* failed reads so far

pvars == <<phase, i, addr, pos, idx, index, count, hash, share, shown, faults>>

\* size_t numPages = (mr->end - mr->start) / pageSize + 1
numPages(j) == PageNum(j) + 1

PTypeOK ==
    /\ phase \in {"hash", "share", "done", "exited"}
    /\ i \in 1..Len(Region) + 1
    /\ {addr, pos, idx, index, count, faults} \subseteq Nat
    /\ faults <= MaxFault
    /\ DOMAIN hash = Index /\ DOMAIN share = Index
    /\ \A j \in Index : {hash[j], share[j]} \subseteq [0..numPages(j) - 1 -> Pages \cup {Junk}]

Start(j) == IF j \in Index THEN Region[j].start ELSE 0
Count(j) == IF j \in Index THEN PageNum(j) ELSE 0

\* The locals of the two inner loops as region j starts.
Begin(j) ==
    /\ i' = j
    /\ addr' = Start(j) /\ pos' = Start(j) /\ idx' = 0
    /\ index' = Start(j) /\ count' = Count(j)

PInit ==
    LET fresh == [j \in Index |-> [k \in 0..numPages(j) - 1 |-> Junk]]
    IN  /\ phase = "hash"
        /\ i = 1
        /\ addr = Start(1) /\ pos = Start(1) /\ idx = 0
        /\ index = Start(1) /\ count = Count(1)
        /\ hash = fresh
        /\ share = fresh
        /\ shown = [a \in Pages |-> << >>]
        /\ faults = 0

-----------------------------------------------------------------------------
(* read_mem                                                                 *)

Reading == phase = "hash" /\ i \in Index /\ addr < Region[i].end

\* fread returned a page.  The test for a full array comes last; when it
\* holds, the loop breaks, which here is the end of the region.
ReadPage ==
    /\ Reading
    /\ pos \notin Unreadable
    /\ hash' = [hash EXCEPT ![i][idx] = pos]
    /\ pos' = pos + 1
    /\ idx' = idx + 1
    /\ addr' = IF idx + 1 = numPages(i) THEN Region[i].end ELSE addr + 1
    /\ UNCHANGED <<phase, i, index, count, share, faults, shown>>

\* A failed read that is skipped over in the file but not in the array.
FaultSkipsPage ==
    /\ Reading
    /\ \/ pos \in Unreadable /\ UNCHANGED faults
       \/ pos \notin Unreadable /\ faults < MaxFault /\ faults' = faults + 1
    /\ addr' = addr + 1
    /\ pos' = pos + 1
    /\ UNCHANGED <<phase, i, idx, index, count, hash, share, shown>>

\* A failed read that is tried again, as the message suggests.
FaultRetries ==
    /\ Reading
    /\ \/ pos \in Unreadable /\ UNCHANGED faults
       \/ pos \notin Unreadable /\ faults < MaxFault /\ faults' = faults + 1
    /\ UNCHANGED <<phase, i, addr, pos, idx, index, count, hash, share, shown>>

\* "fread error": the offset of the file stays where it was, and so does idx.
ReadFault ==
    /\ Reading
    /\ \/ pos \in Unreadable /\ UNCHANGED faults
       \/ pos \notin Unreadable /\ faults < MaxFault /\ faults' = faults + 1
    /\ addr' = addr + 1
    /\ UNCHANGED <<phase, i, pos, idx, index, count, hash, share, shown>>

\* malloc, fseeko and idx = 0 for the next region
NextRegion ==
    /\ phase = "hash" /\ i \in Index /\ ~Reading
    /\ Begin(i + 1)
    /\ UNCHANGED <<phase, hash, share, faults, shown>>

\* proc_do returns and proc_parse_pagemap starts.
ReadDone ==
    /\ phase = "hash" /\ i \notin Index
    /\ phase' = "share"
    /\ Begin(1)
    /\ UNCHANGED <<hash, share, faults, shown>>

-----------------------------------------------------------------------------
(* proc_parse_pagemap                                                       *)

Scanning == phase = "share" /\ i \in Index /\ count > 0

\* A batch that asks for more entries than are left.
BatchUnclipped == PAGEMAP_BATCH

batch == IF count < PAGEMAP_BATCH THEN count ELSE PAGEMAP_BATCH

\* walk_pfn with an offset into the batch in place of one into the region.
WalkBatchOffset(got, lost) ==
    [share EXCEPT ![i] = [k \in DOMAIN @ |->
        LET a == index + k
        IN  IF k < got /\ a \in Present \ lost THEN a ELSE @[k]]]

\* walk_pfn for each of the got entries read: the count of a page frame goes
\* to pages[page_off].share.  The pages in lost are those for which
\* kpageflags_read returned nothing.  Other entries have no frame number.
walk_pfn(got, lost) ==
    [share EXCEPT ![i] = [k \in DOMAIN @ |->
        LET a == PageOf(i, k)
        IN  IF a \in index..index + got - 1 /\ a \in Present \ lost THEN a ELSE @[k]]]

\* The flags of a page as a set of bits (the macros KPF_...), in which SLAB
\* gives others another meaning, and PG_reclaim without writeback is readahead.
ERROR == 1
ACTIVE == 6
SLAB == 7
WRITEBACK == 8
RECLAIM == 9
PRIVATE == 35
READAHEAD == 48
SLOB_FREE == 49
SLUB_FROZEN == 50
SLUB_DEBUG == 51

\* The table without the bits for kernel hackers.
StableNames == (0..26) \cup (48..51) \cup (61..63)

\* The bits that page_flag_names has a name for.
page_flag_names == (0..26) \cup (32..40) \cup (48..51) \cup (61..63)

\* page_flag_name returns; a bit without a name makes it exit.
Nameable(flags) == flags \subseteq page_flag_names

\* flags ^= a | b, when a is set
Overload(flags, a, b) ==
    IF a \in flags THEN (flags \cup {a, b}) \ (flags \cap {a, b}) ELSE flags

\* SOFTDIRTY, FILE, SWAP and MMAP_EXCLUSIVE come from the pagemap entry.
kpageflags_flags(flags, pme) ==
    LET slab == IF SLAB \in flags
                THEN Overload(Overload(Overload(flags, PRIVATE, SLOB_FREE),
                                       ACTIVE, SLUB_FROZEN), ERROR, SLUB_DEBUG)
                ELSE flags
        read == IF WRITEBACK \in slab THEN slab ELSE Overload(slab, RECLAIM, READAHEAD)
        kpf(bit) == CASE bit = PM_SOFT_DIRTY -> 40
                      [] bit = PM_FILE -> 61
                      [] bit = PM_SWAP -> 62
                      [] bit = PM_MMAP_EXCLUSIVE -> 63
    IN  read \cup {kpf(bit) : bit \in pme}

Swapped == {a \in Pages : PM_SWAP \in Pme[a]}

\* The line that walk_swap prints of a page, and those of the got entries read.
walk_swap(a) == kpageflags_flags({}, Pme[a])
SwapLines(got) ==
    [a \in Pages |-> IF a \in Swapped \cap (index..index + got - 1)
                     THEN Append(shown[a], walk_swap(a)) ELSE shown[a]]

Lost(got) ==
    {lost \in SUBSET (Present \cap (index..index + got - 1)) :
        faults + Cardinality(lost) <= MaxFault}

\* A batch that moves on by what it asked for, not by what it got.
ScanSkipsShort ==
    /\ Scanning
    /\ \E got \in 1..batch, lost \in Lost(batch) :
        /\ share' = walk_pfn(got, lost)
        /\ shown' = SwapLines(got)
        /\ faults' = faults + Cardinality(lost)
        /\ index' = index + batch
        /\ count' = count - batch
    /\ UNCHANGED <<phase, i, addr, pos, idx, hash>>

\* pagemap_read may return fewer entries than asked for.
ScanBatch ==
    /\ Scanning
    /\ \E got \in 1..batch : \E lost \in Lost(got) :
        /\ share' = walk_pfn(got, lost)
        /\ shown' = SwapLines(got)
        /\ faults' = faults + Cardinality(lost)
        /\ index' = index + got
        /\ count' = count - got
    /\ UNCHANGED <<phase, i, addr, pos, idx, hash>>

\* "if (pages == 0) break;"
ScanBreak ==
    /\ Scanning
    /\ faults < MaxFault
    /\ faults' = faults + 1
    /\ count' = 0
    /\ UNCHANGED <<phase, i, addr, pos, idx, index, hash, share, shown>>

NextPagemap ==
    /\ phase = "share" /\ i \in Index /\ ~Scanning
    /\ Begin(i + 1)
    /\ UNCHANGED <<phase, hash, share, faults, shown>>

ScanDone ==
    /\ phase = "share" /\ i \notin Index
    /\ phase' = "done"
    /\ UNCHANGED <<i, addr, pos, idx, index, count, hash, share, faults, shown>>

\* do_u64_read or walk_pfn calls exit or fatal: a pread that fails, a partial
\* entry, or a kpagecount shorter than kpageflags.  That is before the batch has
\* been read or at an entry with a frame number, when the got entries in front
\* of it have been dealt with.
ScanFatal ==
    /\ Scanning
    /\ \E got \in 0..batch - 1 : \E lost \in Lost(got) :
        /\ got = 0 \/ index + got \in Present
        /\ faults + Cardinality(lost) < MaxFault
        /\ share' = walk_pfn(got, lost)
        /\ shown' = SwapLines(got)
        /\ faults' = faults + Cardinality(lost) + 1
    /\ phase' = "exited"
    /\ UNCHANGED <<i, addr, pos, idx, index, count, hash>>

PStep ==
    \/ ReadPage \/ ReadFault \/ NextRegion \/ ReadDone
    \/ ScanBatch \/ ScanBreak \/ NextPagemap \/ ScanDone \/ ScanFatal

PSpec == PInit /\ [][PStep]_pvars /\ WF_pvars(PStep)

-----------------------------------------------------------------------------
(* Properties.                                                              *)

Entry == UNION {{j} \X (0..PageNum(j) - 1) : j \in Index}

\* Element k of a region's array holds the hash of page k of the region or
\* nothing, however many reads have failed: mem_print_pages prints it beside
\* that page's address.
HashAligned ==
    \A e \in Entry : hash[e[1]][e[2]] \in {Junk, PageOf(e[1], e[2])}

\* The count beside it is the same page's, and only a page with a frame has
\* one, however the entries were split over batches.
ShareAligned ==
    \A e \in Entry :
        LET a == PageOf(e[1], e[2])
        IN  share[e[1]][e[2]] \in IF a \in Present THEN {Junk, a} ELSE {Junk}

\* The array is large enough: "pages size too small" (mem.c:425) is never
\* printed, read_mem stores nothing past the pages of the region, and neither
\* does walk_pfn for the entries that the next pagemap_read may return.
BufferFits ==
    /\ phase = "hash" /\ i \in Index => idx < numPages(i)
    /\ \A j \in Index : hash[j][PageNum(j)] = Junk
    /\ Scanning => Region[i].start <= index /\ index + batch <= Region[i].end

\* When no read failed that could have succeeded, every page in front of the
\* first unreadable one of its region has its hash and every page with a frame
\* its count, however the entries were split over batches.
CompleteWithoutFaults ==
    phase = "done" /\ faults = 0 =>
        \A e \in Entry :
            LET a == PageOf(e[1], e[2])
            IN  /\ (Region[e[1]].start..a) \cap Unreadable = {} => hash[e[1]][e[2]] = a
                /\ a \in Present => share[e[1]][e[2]] = a

\* walk_swap prints one line for each swapped page, never two, however the
\* entries were split over batches and wherever the scan is cut short; the line
\* shows each of the four bits that the entry may have, under one of the names.
SwapShownOnce ==
    \A a \in Pages :
        /\ Len(shown[a]) <= IF a \in Swapped THEN 1 ELSE 0
        /\ \A k \in 1..Len(shown[a]) :
            Cardinality(shown[a][k]) = Cardinality(Pme[a]) /\ Nameable(shown[a][k])
        /\ phase = "done" /\ faults = 0 /\ a \in Swapped => Len(shown[a]) = 1

\* Both passes end.
PagesEnd == <>(phase \in {"done", "exited"})

\* "read all pages in.; save pages' hash" (mem.c:397): once read_mem has
\* returned, every page that can be read has its hash.
ReadableHashed ==
    phase # "hash" =>
        \A e \in Entry : PageOf(e[1], e[2]) \notin Unreadable => hash[e[1]][e[2]] # Junk
=============================================================================
