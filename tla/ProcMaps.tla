------------------------------ MODULE ProcMaps ------------------------------
(***************************************************************************)
(* parse_maps of mem.c: the lines of /proc/<pid>/maps become the array      *)
(* p->maps of struct MemReg.                                                *)
(*                                                                         *)
(* fgets hands the loop up to 255 characters at a time.  A longer line      *)
(* comes in several chunks: a head that parse_maps_line understands and one *)
(* or more tails that it does not, for a path may have thousands of         *)
(* characters.  A line is abstracted to what the loop tells apart.          *)
(***************************************************************************)
EXTENDS Naturals, Sequences, FiniteSets, SequencesExt

CONSTANTS Kind,        \* the lines there may be: [pages, anon, long]
          MinSize,     \* the parameter minsize
          MaxChunk     \* bound: calls of fgets that return a chunk

ASSUME MapsAssumption ==
    /\ Kind \subseteq [pages : Nat \ {0}, anon : BOOLEAN, long : BOOLEAN]
    /\ MinSize \in Nat
    /\ MaxChunk \in Nat

VARIABLES filter_anon,  \* the parameter: TRUE from proc_do, FALSE from proc_do_maps
          file,   \* the chunks that fgets has returned
          maps,   \* p->maps: maps[i] is the number of the chunk in slot i, or Junk
          size,   \* p->maps_size
          cap,    \* p->maps_cap
          done    \* "looping", "returned" or "crashed"

mvars == <<filter_anon, file, maps, size, cap, done>>

\* The tails of a long line; a tail that fills the buffer has another behind it.
Rest == [pages : {0}, anon : {FALSE}, long : BOOLEAN]
Junk == 0   \* memory from malloc that nothing has been stored in

MTypeOK ==
    /\ filter_anon \in BOOLEAN
    /\ file \in Seq(Kind \cup Rest)
    /\ size \in Nat
    /\ cap \in Nat
    /\ maps \in [0..cap - 1 -> Junk..Len(file)]
    /\ done \in {"looping", "returned", "crashed"}

MInit ==
    /\ filter_anon \in BOOLEAN
    /\ file = << >>
    /\ maps = [i \in 0..3 |-> Junk]
    /\ size = 0
    /\ cap = 4
    /\ done = "looping"

\* fgets has not come to the end of a line.
MidLine == file # << >> /\ Last(file).long

\* What fgets can return next.
NextChunk == IF MidLine THEN Rest ELSE Kind

\* A size check that sees the array full one line too late.
FullTooLate == cap = size

\* if (p->maps_cap == p->maps_size + 1) the array doubles
Full == cap = size + 1

NewCap == IF Full THEN cap * 2 ELSE cap

\* malloc where the code has realloc.
GrowForgets ==
    [i \in 0..NewCap - 1 |-> IF i < cap /\ ~Full THEN maps[i] ELSE Junk]

\* maps_cap doubles, the array does not.
GrowCapOnly == maps

Grown == [i \in 0..NewCap - 1 |-> IF i < cap THEN maps[i] ELSE Junk]

\* A parser that clears mr before it looks at the line.
ParseClearsSlot(m, c) == [m EXCEPT ![size] = IF c \in Rest THEN Junk ELSE Len(file) + 1]

\* "if (ret < 10) return" leaves *mr as it is.
parse_maps_line(m, c) == IF c \in Rest THEN m ELSE [m EXCEPT ![size] = Len(file) + 1]

\* Neither "filter_anon && !mr_is_anon(mr)" nor "mr_page_num(mr) <= minsize"
Wanted(c) == (filter_anon => c.anon) /\ c.pages > MinSize

\* One iteration of the loop.  The slot that it looks at after parse_maps_line
\* is Junk when a tail follows a head that was kept; then pathname, start and
\* end are whatever malloc returned, and the tests go either way or crash.
ParseChunk(c) ==
    /\ done = "looping"
    /\ Len(file) < MaxChunk
    /\ file' = Append(file, c)
    /\ cap' = NewCap
    /\ maps' = parse_maps_line(Grown, c)
    /\ IF maps'[size] = Junk
       THEN size' \in {size, size + 1}
       ELSE size' = IF Wanted(file'[maps'[size]]) THEN size + 1 ELSE size
    /\ UNCHANGED <<filter_anon, done>>

ParseCrashes(c) ==
    /\ done = "looping"
    /\ Len(file) < MaxChunk
    /\ parse_maps_line(Grown, c)[size] = Junk
    /\ done' = "crashed"
    /\ UNCHANGED <<filter_anon, file, maps, size, cap>>

\* fgets returned NULL, which it does only at the end of a line.
EndOfFile ==
    /\ done = "looping"
    /\ ~MidLine
    /\ done' = "returned"
    /\ UNCHANGED <<filter_anon, file, maps, size, cap>>

MNext ==
    \/ \E c \in NextChunk : ParseChunk(c) \/ ParseCrashes(c)
    \/ EndOfFile

MSpec == MInit /\ [][MNext]_mvars

-----------------------------------------------------------------------------
(* Properties.                                                              *)

\* The slot that the next line is parsed into (proc_get_mr(p, maps_size)) lies
\* inside the array whenever fgets is called, and still does after the array
\* has or has not grown.
SlotInBounds == size < cap

Kept == [i \in 1..size |-> maps[i - 1]]

\* The regions kept so far that come from a line are exactly the lines that
\* pass the filter, in the order of the file: none is lost when the array
\* moves, and what a filtered line left in the free slot is never kept later.
RegionsExact ==
    /\ \A j, k \in 1..size : j < k /\ Kept[j] # Junk /\ Kept[k] # Junk => Kept[j] < Kept[k]
    /\ {Kept[k] : k \in 1..size} \ {Junk} = {n \in 1..Len(file) : Wanted(file[n])}

\* No line kept so far was longer than the buffer.
FitsBuffer == \A n \in 1..Len(file) : Wanted(file[n]) => ~file[n].long

\* As long as no line longer than the buffer has been kept, every region kept
\* comes from a line, and its fields are never tested before they are set: the
\* tails of a long line that is not kept, however many, find the slot as its
\* head left it.
NoPhantomRegion ==
    FitsBuffer => done # "crashed" /\ \A n \in 1..size : Kept[n] # Junk

\* "'line' is one line from /proc/<pid>/maps; parse 'line', save it to 'mr'"
\* (mem.c:330): every region kept comes from a line.
EveryRegionParsed == \A n \in 1..size : Kept[n] # Junk
=============================================================================
