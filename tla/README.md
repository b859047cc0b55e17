# memdump in TLA+

A verification project for memdump: three command line tools (`memdump`, `cmp`,
`setcmp`) that stop processes with ptrace, read their memory regions, pages and
page tables from procfs, and count how many pages they have in common.

## The system

| part | source | state | operations | interacts with |
|---|---|---|---|---|
| red-black tree | `rbtree.c`, `rbtree.h` | root, child and parent pointers, colours | insert, erase, replace, rotate, first/last/next/prev | called by the multiset |
| multiset | `simi.c`, `simi.h` | a tree and a size | init, add, in, size, free, found_in, jaccard | called by the reports |
| maps parser | `mem.c` `parse_maps` | growing array `p->maps` | one iteration per chunk of `/proc/<pid>/maps` | feeds the page reader |
| page reader | `mem.c` `read_mem` | file offset, `idx`, `pages[].hash` | one read per page | reads the target's memory |
| pagemap scanner | `mem.c` `mr_parse_pagemap`, `walk_pfn` | `index`, `count`, `pages[].share` | one batch of entries at a time | reads pagemap, kpageflags, kpagecount |
| ptrace session | `mem.c` `proc_attach`, `proc_detach`; three `main`s | which targets are traced, stopped, waited for | attach, wait, read, cont, detach | the kernel, the targets, other processes |
| reports | `cmp.c`, `setcmp.c` | arrays of multisets | duplicates within and between processes | the multiset, the page arrays |
| process object | `mem.c` `proc_init`, `proc_del` | page arrays, descriptors, the two global descriptors | create, fill, delete | everything in `mem.c` |
| main functions | `memdump.c`, `cmp.c`, `setcmp.c` | none | the order of the calls | session, process objects, reports |
| page hash | `mem.c` `page_hash` | hash, index | one byte at a time | page reader, reports |
| page flags | `mem.c` `kpageflags_flags` and others | none | pure functions | the scanner, which prints swapped pages |
| printing, timers, save/load stubs, `sock.c`, test programs | | | | |

The tools are single-threaded.  What is concurrent is everything around them:
targets run, write to their memory, receive signals and die while a tool
attaches, waits, reads and detaches.  What is hard inside the tools is the
pointer surgery of the tree, an array that is grown and filled by index, and
reads that fail or come back short.  `PROJECT.json` lists these hazards line by
line.

What makes each part correct:

- tree: consistent pointers between any two loop iterations, no null pointer
  followed, red-black rules restored, iteration in sorted order, loops end;
- multiset: size and counts agree with the members, freeing frees all;
- maps parser: exactly the wanted lines are kept, the array is never overrun;
- pages: every hash and count belongs to the page it is stored for, nothing
  is stored outside the array, both passes end;
- session: what is read of a target belongs to one state of it, the tool never
  hangs, the targets run on afterwards;
- process objects: a handle in use is that of the object's own file, nothing
  uninitialised is freed;
- reports: the numbers printed are the counts they claim to be and agree with
  each other, no pair of regions is missing from the table of `cmp`;
- hash: pages that differ in a byte differ in their hashes.

## Modules

    OrderedBag      what a multiset promises: a sorted list        abstract
      ^ refines
    RBTree          rbtree.c + insertion and search of simi.c      <- RBTreeProofs, RBColorProofs
      ^ extends
    MultiSet        simi.c                                         <- MultiSetProofs

    ProcMaps        parse_maps                                     <- ProcMapsProofs
    ProcPages       read_mem, proc_parse_pagemap, page flags       <- ProcPagesProofs
    PageHash        page_hash

    Mains           the calls the main functions make              <- MainsProofs
      ^ extends           ^ extends
    Session             ToolRun         process objects, descriptors, reports
    ptrace, targets,      v extends
    signals             Reports         the sets and numbers of cmp.c, setcmp.c
      <- SessionProofs    <- ToolRunProofs (of ToolRun)

`Session` and `ToolRun` give the same call sequences two meanings: what happens
between the tool and the processes it traces, and what happens inside the tool.
Each specification but PageHash has an `MC` module with the values for TLC.

**RBTree.**  `trees[r]` is one tree with its pointers and colours; `pc`, `cur`,
`node`, `par`, `old` are the locals of the routine in progress.  Each loop that
changes the tree is an action (`InsertDescend`, `InsertRecolor`, `EraseRecolor`,
...), so the states between two iterations are states of the model.  The left
and right halves of the C code are one definition with a side as parameter
(`Rotate(t, n, s)` is both rotations).  Following a null pointer has no outcome:
the action is not enabled, `NoNullDeref` says that this never happens, and
TLC's deadlock check agrees.  `nodes` is a ghost field, the set of objects in
the tree; `Freed` clears the fields of an object that has left it.

**MultiSet** adds `size`, the sets in use and the set that `set_free` works
on, and runs the actions of RBTree inside `set_add` and `set_free`.  The double
that `set_jaccard` returns is the fraction it comes from, or `NaN` where C divides
0.0 by 0.0 (`Quotient`).

**ProcMaps.**  `fgets` is called with 256 bytes.  A line of the file is a record
of page count, anonymity and whether it is longer than that; a long line is
followed by one or more tails that `sscanf` does not understand, as many as it takes
(`MidLine`: the last chunk did not reach the end of its line).  `maps[i]` is the number
of the chunk last parsed into slot `i`.  Testing a slot that nothing was parsed
into has any outcome, a crash included.

**ProcPages.**  Addresses are page numbers and a hash or a count is the page it
was computed from, so that it shows when one lands in the wrong place.  Reads of
`mem` fail for the pages in `Unreadable` always, for others up to `MaxFault`
times.  `pagemap_read` returns any number of entries from one to what was asked
for; nothing at all, a fatal error, and a missing kpageflags entry count as
faults; a fatal error in the middle of a batch leaves what the entries in front of
it have stored and printed.  Both passes of one process are one specification because the second
writes into the arrays that the first allocated.  A page table entry is the set
of its bits; those of a swapped page go through `kpageflags_flags`, which copies
bits of the entry to other places and names them, and `page_flag_name` exits at
a bit without a name.  `shown[a]` is the sequence of lines that the swap
printing has printed of page `a`.

**PageHash.**  The loop of `page_hash` on two pages side by side that differ in
at most one byte.  A `uint32_t` is a pair of 16-bit halves, so that additions
and shifts wrap as they do in C.

**Mains.**  Each main function is the sequence of its calls, a call being a
function and a process.  `setcmp all` is `setcmp` with the three reports that
its main has commented out; they are complete functions of the source and are
checked with the others.

**Session.**  `Syscalls` says which operations on a target each call consists
of, in the order the code makes them; `ip` is the call of main in progress and
`done` the number of its system calls that have returned (`CallReturns` goes on
to the next call).  Which executable runs, with which option, is chosen
initially (`exe`).  Opening a file, attaching and reading pagemap may
fail, and then the tool exits.  The kernel is external and modelled as far as
the operations can tell: signals are pending, then delivered to a running
target; a traced target stops at every signal and leaves an event that `wait`
takes; `PTRACE_CONT` and `PTRACE_DETACH` fail unless the target is stopped; at
the exit of a tracer its tracees are released, and a stop that was not waited
for takes effect.

**Reports.**  The functions of `setcmp.c` and `cmp.c` as operators from page
arrays to printed rows.  A `struct Set` is the family of the hashes added to it,
each under the index of its page (region and place), which keeps repetitions
apart without an order; `AddOnce` leaves out a page whose content an earlier one
of the loop has.  Rows that a report skips are missing from the domain of what it
prints.  `qsort` may return any sorted order.

**ToolRun.**  `obj[q]` is the `struct Process` of `q` with its handles and
regions, `fds` the table of open descriptors, in which `open` takes the lowest
number that is free.  `proc_do` fills the pages with any hashes and
`proc_parse_pagemap` with any counts, which covers the uninitialised ones.  Each
call that opens, attaches or reads may fail instead, and the tool exits.
`print_total_dup` of a process whose set is empty crashes, as does `proc_del` of
an object whose pointers nobody has set.

## Runs

Passing:

| run | instance | shows |
|---|---|---|
| `rbtree` | 8 objects, 2 per value | pointer consistency, no null pointer, red-black rules, search, backward iteration; RBTree implements OrderedBag |
| `multiset` | 2 sets, 5 objects, up to 3 per value | sizes, counts, when set_jaccard is a number and which, no leak, every routine returns |
| `maps` | up to 8 chunks, filter on and off | exactly the wanted lines, in bounds, no phantom region as long as no long line is kept |
| `pages` | regions of 1, 4 and 3 pages, one unreadable, two swapped, 3 faults, batch 2 | alignment, bounds, completeness without faults, swapped pages printed once, both passes end |
| `session` | 5 command lines, 2 targets (one with two threads), 2 signals, 1 kill | one state per target, what cmp has stopped while it reads, no tool hangs, targets run on |
| `tools` | 6 command lines, 3 processes with up to 2 pages in up to 2 regions, 3 hashes, 2 counts | handles are the object's own, one descriptor leaked per process and no more, the one crash there is, every report's numbers |
| `hash` | pages of 5 bytes, 5 byte values | pages that differ in one byte never hash alike |

Violations, each a disagreement between a comment of the code and the code,
quoted under `findings`:

| run | what happens |
|---|---|
| `session_resume` | a signal answers the wait; the attach's SIGSTOP is left and stops the target for good |
| `session_wait` | setcmp: a process already "detached" answers the wait for the next one, which is read while it runs |
| `maps_long` | the tail of a kept long line becomes a region of uninitialised memory |
| `pages_fault` | after a failed read the file offset does not move: the rest of the region has no hash |
| `tools_total` | setcmp crashes at a process whose pages are all zero or all shared, and reports nothing of it and those behind it |

The passing run of Session says under which conditions the waits can be relied
upon (`Reliable`): always in memdump, which has one target; in cmp while nobody
is killed; in setcmp only while nothing happens to the processes
it has dealt with.  They are still its tracees: `proc_detach` calls `PTRACE_CONT`
first, and `PTRACE_DETACH` needs a stopped target.  In cmp the first process is
stopped when the second is attached to and stays so, since a stopped tracee
reports nothing more; its death is the one event that can answer the wait for
the second.  `CmpReadsStopped` says this without `Reliable`: while cmp reads, the
main thread of the first process does not run, and that of the second only if the
first is dead.  Of other threads neither it nor `Coherent` says anything: nobody
stops them.

`tools` says what the second `close(kpagecount_fd)` and the missing
`close(kpageflags_fd)` (mem.c:681) amount to: the second close never hits a file
of anybody else, because nothing is opened in between, and one descriptor per
process stays open until the tool ends.  It also says why `memdump -m` may not
call `proc_del`, which would free page arrays that only `read_mem` allocates.

More disagreements need no run to see:

- of `minsize`, which is 0, the comments at mem.c:706 and 714 say "page number
  <= 1, will be ignored", and regions of one page are kept;
- `memdump <pid> -n` calls `proc_do`, which "require[s] proc_attach() is called"
  (mem.h:18), without it;
- `PTRACE_ATTACH` on the pid stops one thread, where mem.h:31 says "wait until
  'p' stops"; `Coherent` therefore leaves out the targets in `Threaded`;
- `share` stays uninitialised for pages without a frame (mem.c:658), and the
  reports compare it with 1; `ToolRun` gives it any value;
- `set_jaccard` counts repetitions on one side (simi.h:36-42 speaks of sets), and
  has no value for two empty sets; `JaccardIndex` says that there is no other case
  without one, what 0 and 1 mean, and that without repetitions it is the Jaccard
  index;
- print_inter_simi is to find "how many nonzero pages can be found in other
  proceses" (setcmp.c:158), but passes over pages mapped more than once
  (setcmp.c:177), whatever other processes have;
- print_intra_simi takes the size of a set without the pages mapped more than
  once from that of a set with them, and so reports every such page as a
  duplicate; `IntraSavings` is about processes that have none.

### Bounds

A tree of 8 nodes has every insertion and deletion case on both sides, a
successor at distance one and two, and two levels of recolouring.  8 chunks grow
the array twice (4 to 8 to 16) and hold a line with up to seven tails.  Regions of 1, 4 and 3 pages with batches of two
have a batch that is not full, several batches, and two adjoining regions, where
a store past the end would be seen.  `MaxWrite = 2` is enough to tell one state
from two; one page read after the maps and before pagemap (`Pages = 1`) leaves
a write room between any two of the three.  Two targets are enough for a wait to
be answered by the wrong one, two signals for each of them to get one.  In
`tools` a third process is needed for a page to be found in one of two others,
and two regions for a page to repeat inside a region or across; three hashes are
the zero page and two that differ; the counts 1 and 2 are the two sides of the
one comparison; a process without regions gives the empty set.  `MaxFd` is never
reached.  The hash treats every byte alike, and each of its steps is a bijection
of 32-bit words; five bytes push a difference through all of the shifts several
times, and the values are the ends and the middle of a byte.

### Fairness

`WF` on the steps of a routine of the tree, of `set_free`, and of the page
loops: single-threaded code that never blocks.  `WF` on the tool's steps in
Session: the only blocking call is `wait`, and the action is not enabled while
there is nothing to wait for.  `WF` on the delivery of each pending signal to a
running target, which the kernel guarantees.  Nobody has to write, send or kill.

ToolRun and PageHash have no liveness properties and no fairness.

Deadlock is checked for RBTree and MultiSet.  The other specifications end when
the program does.

## Proofs

The theorems hold for every value of the constants that the named `ASSUME`s of
the modules allow: finitely many objects, regions that are not empty, ascend and
do not overlap (as the kernel reports them), batches of at least one entry, at
least two pids, all different.  TLC evaluates these assumptions on every run.

None of the properties is inductive as it stands.  Each proof has an inductive
invariant, a lemma for the initial state, lemmas for the actions, and a theorem
for each property that the invariant implies.

| module | theorems | inductive invariant |
|---|---|---|
| `RBTreeProofs` | `TypeCorrect`, `LinksAgree` | `TypeInv`, `LinksInv` |
| `RBColorProofs` | `NoNullPointer`, `AlwaysRedBlack` | `ColorInv` |
| `MultiSetProofs` | `SearchWorks`, `BackwardsWorks`, `TreeImplementsBag`; `MultiSetType`, `FreesEverything`; `SizeRight`, `MultiSetImplementsBag`, `FoundInRight`, `JaccardRight` | `OrderInv`; `MultiInv`; both |
| `ProcMapsProofs` | `InBounds`, `NoPhantom`; `MapsType`, `KeepsExactly` | `CapInv`, `SlotInv`; `RegionsInv` |
| `ProcPagesProofs` | `HashesAligned`, `SharesAligned`, `BuffersFit`; `PagesType`, `Complete`; `SwapLinesOnce` | `PInv`; `FullInv`; `SwapInv` |
| `MainsProofs` | lemmas on the order of the calls | |
| `SessionProofs` | `SessionType`, `ReadsCoherent`, `CmpStopsBoth` | `SInv`; `CmpInv` |
| `ToolRunProofs` | `ToolType`, `HandlesAreOwn`, `FlagsLeakOnly`; `CrashesOnlyIfEmpty`, `IntraSavingsRight`, `ReportsFitTogether`, `CmpTableRight` | `ToolInv`; `ReportInv` |

**Types of the tree** (`TypeInv`).  A rotation stores the child of a child, so
the provers must know that nodes in progress are not `Nil` where their fields
are read.  `TypeInv` says so per `pc`; a lemma per field update (`SetParentType`,
`RotateType`, ...) is cited by the lemmas for the actions.

**Pointers** (`LinksInv`).  `WF` of a tree is that parent and child pointers
agree and that there is no cycle: every set of nodes has one whose parent is
outside the set.  In this form neither needs recursion, and a rotation, a link
or a splice is shown to preserve it by naming, for a set of nodes in the new
tree, the set in the old one to look at.  The locals matter as well:
where `rb_insert_data` has descended to, that the successor searched for lies
below `old`, that the child that `__rb_erase_color` starts from hangs below
`par`.

**Colours** (`ColorInv`).  `Heights` is a function that counts the black nodes
below each node, with at most one place (`x`, `d`) where the ways down are one
short; that such a function exists replaces the count along every path.  While
`rb_insert_color` works only `node` may be red below red; while
`__rb_erase_color` works the ways through `node` are one short, and so the
sibling is there (`NoNullPointer`).

**Order** (`StructInv`).  `Anc(t, n)` is the least set with `n` that is closed
under `rb_parent`.  `Ordered(K, t)`: what has the left child of a node among its
ancestors is not larger than the node under the keys `K`, what has the right
child not smaller.  The lemmas are stated for any keys, and a step is described
by what it does to every one of them: it keeps the order (`Same`: rotations and
recolouring), needs a new node to fit at one place (`Adds`), drops one (`Drops`)
or needs one to fit in place of another (`Swaps`).  For that the locals matter:
`Turned` (the way that `rb_insert_data` has gone down) and `SuccessorPath` (the
way to the successor in `rb_erase`) are part of `StructInv`.

**Iteration** (`OrderInv`).  `Edge` reaches the outermost node of a subtree and
`Climb` the nearest ancestor on the other side, so `rb_next` is the next node
under any keys that order the tree and tell its nodes apart
(`NeighbourNearest`); the walk lists the nodes of the tree, each once
(`VisitLists`).  With the positions in the walk before a step as keys, and the
effect of the step on every order, the walk after it is the old list, or the old
list with one place inserted, removed or stored over (`AddsList`, `DropsList`,
`SwapsList`): the steps of OrderedBag.  `OrderInv` is `StructInv` and that the
values ascend along every walk, from which the search follows as well.  Walks
and searches are recursive functions of the steps left: `Iterate` shows that
such a function exists, from `NatSetInduction`, induction over the numbers
stated for a set and so within the provers' reach; the nodes passed are all
different, so that there are steps enough.

**Multisets** (`MultiInv`).  `set_add` counts before the node is linked
(`Pending`).  `set_free` returns when the root pointer is null, and a tree
without a root has no nodes because every node climbs to the root.  The queries
count positions in a walk whose search succeeds; a one-to-one correspondence
between positions, members and (without repetitions) values makes the
cardinalities equal (`SameSize`).  For `JaccardRight` the three numbers that
`set_jaccard` adds up are the members of one multiset and those of the other whose
value is not in the first (`JaccardParts`), which are none only if both are empty.

**Maps** (`CapInv`, `SlotInv`, `RegionsInv`).  The free slot holds either nothing
or a line that the filter rejects, which is why it is rejected again whenever a
tail of a long line comes: in the middle of a line whose head was not kept the slot
holds that head (`SlotInv`); `maps_long` shows what happens if the line was kept.
The kept slots are the wanted lines and no others, in ascending order; this is
said of the slots and the lines as sets, with no induction over the file.

**Pages** (`PInv`, `FullInv`, `SwapInv`).  The file offset is the start of the region plus
`idx` and never ahead of `addr`; `index + count` is the end of the region until
the count runs out.  `FullInv` adds what has been done so far when nothing has
failed.  `SwapInv` adds that a line has been printed of a page only if the scan
has passed it (`Passed`); as regions do not overlap, the page the scan is at has
not been passed before.

**Sessions** (`SInv`).  `MainsProofs` says where in each main function the
calls for process `j` are.  By its position a target is `Fresh`, `Asked` (attached and
not waited for), `Held` or `Gone`, and for each of them the invariant says what
may be pending, reported and read.  `SInv` is under `Reliable`, the condition that
the runs use as well; `session_wait` and `session_resume` show why.  `CmpInv` is
not: it follows the two targets of cmp through kills as well (`CmpTarget`), and
uses that the dead stay dead (`DeadStays`) and that a wait is answered by the
process just attached to or by one that is dead (`CmpAnswer`).

**Process objects** (`ToolInv`).  The fields of an object tell which calls have
been made for it (`FieldsOK`), and exactly the files that these calls leave open
are open, each once (`OpenOK`).  So there are never more than `MaxFd` of them
(the pigeonhole principle), `open` succeeds, and the second
`close(kpagecount_fd)` finds a number that nobody has taken since.

**Reports** (`ReportInv`).  The invariant adds to `ToolInv` that regions are
sequences of pages, and that what has been printed is what the report's operator
gives for the pages as they are in the state at hand: no call after the first
report changes them before `proc_del`, by the order of calls in `MainsProofs`
(`ReportOK`).  The theorems are then about the operators.  A number printed is the
cardinality of a set of page indices, and two numbers are compared by an
inclusion or an injection between the sets.  Sums over regions and processes
(`Total`) are recursive functions; that they bound a union, or equal the size of
a disjoint one, goes by `NatSetInduction`.  That the table of `cmp` misses no
pair and has none twice is that quotient and remainder of the index are
determined (`PairOfIndex`, `IndexOfPair`), and that a sorted array is a
permutation.

Only model-checked:

- liveness (`Returns`, `FreeReturns`, `PagesEnd`, `Terminates`, `Releases`),
  which is out of the provers' reach;
- PageHash, whose bitwise operators the provers do not have.

## Not modelled

- Printing, timers, and the `proc_save`/`proc_load` stubs change no state that
  anything else reads.
- `sock.c` is called by no executable; the test programs and the Android build
  are not part of the tools.
- Memory that is allocated and never freed by the reports (print_total_dup and
  print_inter_simi_mr keep their sets, `proc_del` keeps the struct itself): the
  tool ends soon after, and no state depends on it.
- Allocation failures, including that of a set's element.
- The kernel moving a page between the reads of pagemap and kpagecount
  (mem.c:659): it changes which count is read, and every count is allowed in
  ToolRun.
- Of the parts that are modelled: the text of a maps line, the permissions, and
  the loop over several frames in `walk_pfn`, which is only ever called for one.

## Plan

1. Done: RBTree, MultiSet, OrderedBag; Session; ProcMaps; ProcPages with the
   page flags; Mains, Reports and ToolRun; PageHash; the proofs above.
2. Next: ProcMaps and ProcPages composed, so that the regions the reader sees are
   those the parser left behind.
