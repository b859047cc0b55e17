--------------------------- MODULE ProcMapsProofs ---------------------------
(* Theorems about ProcMaps, for every set of lines, either setting of the   *)
(* filter and files of any length.                                          *)
EXTENDS ProcMaps, TLAPS

-----------------------------------------------------------------------------
(* The array is never full.                                                 *)

CapInv == size \in Nat /\ cap \in Nat /\ size < cap

\* The loop doubles the array in time: whenever parse_maps takes the address
\* of slot maps_size, that slot exists.
THEOREM InBounds == MSpec => []SlotInBounds
<1>1. MInit => CapInv
  BY DEF MInit, CapInv
<1>2. CapInv /\ [MNext]_mvars => CapInv'
  <2>. SUFFICES ASSUME CapInv, [MNext]_mvars PROVE CapInv'
    OBVIOUS
  <2>1. ASSUME NEW c \in NextChunk, ParseChunk(c) PROVE CapInv'
    <3>1. size' \in {size, size + 1}
      BY <2>1 DEF ParseChunk
    <3>2. cap' = IF cap = size + 1 THEN cap * 2 ELSE cap
      BY <2>1 DEF ParseChunk, NewCap, Full
    <3>. QED  BY <3>1, <3>2 DEF CapInv
  <2>2. ASSUME NEW c \in NextChunk, ParseCrashes(c) PROVE CapInv'
    BY <2>2 DEF ParseCrashes, CapInv
  <2>3. CASE EndOfFile
    BY <2>3 DEF EndOfFile, CapInv
  <2>4. CASE UNCHANGED mvars
    BY <2>4 DEF mvars, CapInv
  <2>. QED  BY <2>1, <2>2, <2>3, <2>4 DEF MNext
<1>3. CapInv => SlotInBounds
  BY DEF CapInv, SlotInBounds
<1>. QED  BY <1>1, <1>2, <1>3, PTL DEF MSpec

-----------------------------------------------------------------------------
(* Regions without a line.  The slot that the tails of a long line find     *)
(* holds a line that was not kept: none of them moves the loop on.          *)

SlotInv ==
    /\ CapInv
    /\ file \in Seq(Kind \cup Rest)
    /\ maps \in [0..cap - 1 -> Nat]
    /\ FitsBuffer =>
        /\ done # "crashed"
        /\ \A k \in 0..size - 1 : maps[k] # Junk
        /\ MidLine => maps[size] \in 1..Len(file) /\ ~Wanted(file[maps[size]])

\* What the loop has after fgets has returned the chunk c.
LEMMA ChunkRead ==
    ASSUME SlotInv, NEW c \in NextChunk, file' = Append(file, c), filter_anon' = filter_anon
    PROVE  /\ c \in Kind \cup Rest
           /\ file' \in Seq(Kind \cup Rest)
           /\ Len(file) \in Nat /\ Len(file') = Len(file) + 1
           /\ file'[Len(file) + 1] = c
           /\ \A n \in 1..Len(file) : file'[n] = file[n]
           /\ MidLine' <=> c.long
           /\ FitsBuffer' => FitsBuffer /\ (Wanted(c) => ~c.long)
<1>1. c \in Kind \cup Rest
  BY DEF NextChunk
<1>2. /\ file' \in Seq(Kind \cup Rest) /\ Len(file) \in Nat
      /\ Len(file') = Len(file) + 1 /\ file'[Len(file) + 1] = c
      /\ \A n \in 1..Len(file) : file'[n] = file[n]
  BY <1>1 DEF SlotInv
<1>3. \A n \in 1..Len(file) + 1 : FitsBuffer' => (Wanted(file'[n]) => ~file'[n].long)
  BY <1>2 DEF FitsBuffer, Wanted
<1>4. /\ \A n \in 1..Len(file) : n \in 1..Len(file) + 1
      /\ Len(file) + 1 \in 1..Len(file) + 1
  BY <1>2
<1>5. FitsBuffer' => FitsBuffer
  BY <1>2, <1>3, <1>4 DEF FitsBuffer
<1>6. FitsBuffer' => (Wanted(c) => ~c.long)
  BY <1>2, <1>3, <1>4
<1>7. MidLine' <=> c.long
  BY <1>2 DEF MidLine, Last
<1>. QED  BY <1>1, <1>2, <1>5, <1>6, <1>7

\* A tail comes in the middle of a line.
LEMMA RestInLine == ASSUME NEW c \in NextChunk, c \in Rest PROVE MidLine
<1>1. ASSUME c \in Kind PROVE FALSE
  <2>1. c.pages \in Nat \ {0}
    BY <1>1, MapsAssumption
  <2>2. c.pages \in {0}
    BY DEF Rest
  <2>. QED  BY <2>1, <2>2
<1>. QED  BY <1>1 DEF NextChunk

\* The array before and after it may have grown.
LEMMA GrownType ==
    ASSUME SlotInv
    PROVE  /\ NewCap \in Nat /\ size + 1 < NewCap
           /\ Grown \in [0..NewCap - 1 -> Nat]
           /\ \A k \in 0..size : Grown[k] = maps[k]
           /\ size \in 0..NewCap - 1
<1>1. NewCap \in Nat /\ cap <= NewCap /\ size + 1 < NewCap /\ size \in Nat /\ size < cap
      /\ cap \in Nat
  BY DEF SlotInv, CapInv, NewCap, Full
<1>. QED  BY <1>1 DEF Grown, SlotInv, Junk

\* As long as the lines that pass the filter fit the buffer of fgets, every
\* region that parse_maps keeps comes from a line, and the fields of a region
\* are not looked at before they are set, however many tails the lines that do not
\* fit, and are filtered out, come in.
THEOREM NoPhantom == MSpec => []NoPhantomRegion
<1>1. MInit => SlotInv
  BY DEF MInit, SlotInv, CapInv, MidLine, Junk
<1>2. SlotInv /\ [MNext]_mvars => SlotInv'
  <2>. SUFFICES ASSUME SlotInv, [MNext]_mvars PROVE SlotInv'
    OBVIOUS
  <2>1. ASSUME NEW c \in NextChunk, ParseChunk(c) PROVE SlotInv'
    <3>. DEFINE L == Len(file)
    <3>1. /\ file' = Append(file, c) /\ cap' = NewCap
          /\ maps' = parse_maps_line(Grown, c)
          /\ filter_anon' = filter_anon /\ done' = done /\ done # "crashed"
      BY <2>1 DEF ParseChunk
    <3>2. /\ size' \in {size, size + 1} /\ size \in Nat /\ CapInv'
      <4>1. size' \in {size, size + 1}
        BY <2>1 DEF ParseChunk
      <4>. QED  BY <4>1, <3>1 DEF SlotInv, CapInv, NewCap, Full
    <3>3. ASSUME maps'[size] # Junk
          PROVE  size' = IF Wanted(file'[maps'[size]]) THEN size + 1 ELSE size
      BY <2>1, <3>3 DEF ParseChunk
    <3>4. file' \in Seq(Kind \cup Rest) /\ Len(file') = L + 1 /\ L \in Nat
          /\ file'[L + 1] = c
      BY <3>1, ChunkRead
    <3>5. maps' \in [0..cap' - 1 -> Nat]
      BY <3>1, <3>4, GrownType DEF parse_maps_line
    <3>6. ASSUME FitsBuffer'
          PROVE  /\ \A k \in 0..size' - 1 : maps'[k] # Junk
                 /\ MidLine' => maps'[size'] \in 1..L + 1 /\ ~Wanted(file'[maps'[size']])
      <4>1. FitsBuffer /\ (Wanted(c) => ~c.long)
        BY <3>1, <3>6, ChunkRead
      <4>2. CASE c \in Rest
        <5>1. maps[size] \in 1..L /\ ~Wanted(file[maps[size]])
          BY <4>1, <4>2, RestInLine DEF SlotInv
        <5>2. maps' = Grown
          BY <3>1, <4>2 DEF parse_maps_line
        <5>3. maps'[size] = maps[size] /\ maps[size] # Junk
          BY <3>2, <3>4, <5>1, <5>2, GrownType DEF Junk
        <5>4. file'[maps[size]] = file[maps[size]]
          BY <3>1, <5>1, ChunkRead
        <5>5. size' = size
          BY <3>1, <3>3, <5>1, <5>3, <5>4 DEF Wanted
        <5>6. \A k \in 0..size - 1 : maps'[k] # Junk
          BY <3>2, <4>1, <5>2, GrownType DEF SlotInv
        <5>. QED  BY <3>1, <3>4, <5>1, <5>3, <5>4, <5>5, <5>6 DEF Wanted
      <4>3. CASE c \notin Rest
        <5>1. maps' = [Grown EXCEPT ![size] = L + 1]
          BY <3>1, <4>3 DEF parse_maps_line
        <5>2. maps'[size] = L + 1 /\ \A k \in 0..size - 1 : maps'[k] = maps[k]
          BY <3>2, <5>1, GrownType
        <5>3. size' = IF Wanted(c) THEN size + 1 ELSE size
          BY <3>3, <3>4, <5>2 DEF Junk
        <5>4. \A k \in 0..size' - 1 : k \in 0..size - 1 \/ k = size
          <6>1. size \in Nat /\ (size' = size \/ size' = size + 1)
            BY <3>2
          <6>. QED  BY <6>1
        <5>5. \A k \in 0..size' - 1 : maps'[k] # Junk
          BY <3>4, <4>1, <5>2, <5>4 DEF SlotInv, Junk
        <5>6. MidLine' => ~Wanted(c)
          BY <3>1, <4>1, ChunkRead
        <5>. QED  BY <3>1, <3>4, <5>2, <5>3, <5>5, <5>6 DEF Wanted
      <4>. QED  BY <4>2, <4>3
    <3>7. MidLine' /\ FitsBuffer' => maps'[size'] \in 1..Len(file') /\ ~Wanted(file[maps[size]])'
      BY <3>1, <3>4, <3>6 DEF Wanted
    <3>8. FitsBuffer' => done' # "crashed" /\ \A k \in 0..size' - 1 : maps'[k] # Junk
      BY <3>1, <3>6
    <3>. QED  BY <3>2, <3>4, <3>5, <3>7, <3>8 DEF SlotInv
  <2>2. ASSUME NEW c \in NextChunk, ParseCrashes(c) PROVE SlotInv'
    <3>1. UNCHANGED <<filter_anon, file, maps, size, cap>>
      BY <2>2 DEF ParseCrashes
    <3>2. ~FitsBuffer
      <4>. SUFFICES ASSUME FitsBuffer PROVE FALSE
        OBVIOUS
      <4>1. parse_maps_line(Grown, c)[size] = Junk
        BY <2>2 DEF ParseCrashes
      <4>2. c \in Rest
        BY <4>1, GrownType DEF parse_maps_line, Junk, SlotInv
      <4>3. maps[size] \in 1..Len(file)
        BY <4>2, RestInLine DEF SlotInv
      <4>4. Grown[size] = maps[size]
        BY GrownType DEF SlotInv, CapInv
      <4>. QED  BY <4>1, <4>2, <4>3, <4>4 DEF parse_maps_line, Junk
    <3>. QED  BY <3>1, <3>2 DEF SlotInv, CapInv, FitsBuffer, Wanted, MidLine
  <2>3. CASE EndOfFile
    BY <2>3 DEF EndOfFile, SlotInv, CapInv, FitsBuffer, Wanted, MidLine
  <2>4. CASE UNCHANGED mvars
    BY <2>4 DEF mvars, SlotInv, CapInv, FitsBuffer, Wanted, MidLine
  <2>. QED  BY <2>1, <2>2, <2>3, <2>4 DEF MNext
<1>3. SlotInv => NoPhantomRegion
  BY DEF SlotInv, NoPhantomRegion, Kept, CapInv
<1>. QED  BY <1>1, <1>2, <1>3, PTL DEF MSpec

-----------------------------------------------------------------------------
(* The lines that are kept.  Only the free slot, the one at maps_size, is   *)
(* ever written, and what a filtered line leaves there is written over or   *)
(* filtered again.                                                          *)

FreeSlot == /\ maps[size] # Junk => ~Wanted(file[maps[size]])
            /\ \A k \in size + 1..cap - 1 : maps[k] = Junk

KeptOK ==
    /\ \A k \in 0..size - 1 : maps[k] # Junk => Wanted(file[maps[k]])
    /\ \A j, k \in 0..size - 1 : j < k /\ maps[j] # Junk /\ maps[k] # Junk => maps[j] < maps[k]
    /\ \A n \in 1..Len(file) : Wanted(file[n]) => \E k \in 0..size - 1 : maps[k] = n

RegionsInv == MTypeOK /\ CapInv /\ FreeSlot /\ KeptOK

\* The array before the chunk c is parsed, and after.
LEMMA ParsedType ==
    ASSUME RegionsInv, NEW c \in NextChunk, file' = Append(file, c), filter_anon' = filter_anon
    PROVE  /\ c \in Kind \cup Rest /\ file' \in Seq(Kind \cup Rest)
           /\ Len(file) \in Nat /\ Len(file') = Len(file) + 1 /\ file'[Len(file) + 1] = c
           /\ \A n \in 1..Len(file) : Wanted(file'[n]) <=> Wanted(file[n])
           /\ Wanted(file'[Len(file) + 1]) <=> Wanted(c)
           /\ NewCap \in Nat /\ cap <= NewCap /\ size + 1 < NewCap
           /\ Grown \in [0..NewCap - 1 -> Junk..Len(file)]
           /\ \A k \in 0..size : Grown[k] = maps[k]
           /\ \A k \in size + 1..NewCap - 1 : Grown[k] = Junk
<1>1. c \in Kind \cup Rest
  BY DEF NextChunk
<1>2. file \in Seq(Kind \cup Rest) /\ size \in Nat /\ cap \in Nat /\ size < cap
      /\ maps \in [0..cap - 1 -> Junk..Len(file)] /\ Junk = 0
  BY DEF RegionsInv, MTypeOK, CapInv, Junk
<1>3. /\ file' \in Seq(Kind \cup Rest) /\ Len(file) \in Nat
      /\ Len(file') = Len(file) + 1 /\ file'[Len(file) + 1] = c
      /\ \A n \in 1..Len(file) : file'[n] = file[n]
  BY <1>1, <1>2
<1>4. /\ \A n \in 1..Len(file) : Wanted(file'[n]) <=> Wanted(file[n])
      /\ Wanted(file'[Len(file) + 1]) <=> Wanted(c)
  BY <1>3 DEF Wanted
<1>5. NewCap \in Nat /\ cap <= NewCap /\ size + 1 < NewCap
  BY <1>2 DEF NewCap, Full
<1>6. Grown \in [0..NewCap - 1 -> Junk..Len(file)] /\ \A k \in 0..size : Grown[k] = maps[k]
  BY <1>2, <1>3, <1>5 DEF Grown
<1>7. \A k \in size + 1..NewCap - 1 : Grown[k] = Junk
  BY <1>2, <1>5 DEF Grown, RegionsInv, FreeSlot
<1>. QED  BY <1>1, <1>3, <1>4, <1>5, <1>6, <1>7

\* The slots below maps_size, when it has stayed or has grown by one.
LEMMA OneMore ==
    ASSUME NEW a \in Nat, NEW b \in Nat, NEW c \in Nat, b = a \/ b = a + 1
    PROVE  /\ \A k \in 0..a - 1 : k \in 0..b - 1
           /\ \A k \in 0..b - 1 : k \in 0..a - 1 \/ (k = a /\ b # a)
           /\ \A k \in b + 1..c - 1 : k \in a + 1..c - 1
           /\ \A j, k \in 0..b - 1 : j < k => j \in 0..a - 1
OBVIOUS

\* One iteration of the loop.
LEMMA ParseRegionsInv ==
    ASSUME RegionsInv, NEW c \in NextChunk, ParseChunk(c)
    PROVE  RegionsInv'
<1>. DEFINE L == Len(file)
<1>1. /\ file' = Append(file, c) /\ cap' = NewCap /\ maps' = parse_maps_line(Grown, c)
      /\ filter_anon' = filter_anon /\ done' = done
  BY DEF ParseChunk
<1>2. /\ c \in Kind \cup Rest /\ file' \in Seq(Kind \cup Rest)
      /\ L \in Nat /\ Len(file') = L + 1 /\ file'[L + 1] = c
      /\ \A n \in 1..L : Wanted(file'[n]) <=> Wanted(file[n])
      /\ Wanted(file'[L + 1]) <=> Wanted(c)
      /\ NewCap \in Nat /\ cap <= NewCap /\ size + 1 < NewCap
      /\ Grown \in [0..NewCap - 1 -> Junk..L]
      /\ \A k \in 0..size : Grown[k] = maps[k]
      /\ \A k \in size + 1..NewCap - 1 : Grown[k] = Junk
  BY <1>1, ParsedType
<1>3. size \in Nat /\ size \in 0..NewCap - 1 /\ Junk = 0 /\ maps[size] \in 0..L
  BY <1>2 DEF RegionsInv, MTypeOK, CapInv, Junk
<1>4. ASSUME maps'[size] # Junk
      PROVE  size' = IF Wanted(file'[maps'[size]]) THEN size + 1 ELSE size
  BY <1>4 DEF ParseChunk
<1>5. size' \in Nat /\ (size' = size \/ size' = size + 1)
  BY <1>3 DEF ParseChunk
<1>6. /\ size \in Nat /\ size' \in Nat /\ (size' = size \/ size' = size + 1)
      /\ \A k \in 0..size - 1 : k \in 0..size' - 1
      /\ \A k \in 0..size' - 1 : k \in 0..size - 1 \/ (k = size /\ size' # size)
      /\ \A k \in size' + 1..NewCap - 1 : k \in size + 1..NewCap - 1
      /\ \A j, k \in 0..size' - 1 : j < k => j \in 0..size - 1
  <2>1. size \in Nat /\ size' \in Nat /\ NewCap \in Nat /\ (size' = size \/ size' = size + 1)
    BY <1>2, <1>3, <1>5
  <2>. QED  BY <2>1, OneMore
<1>. HIDE DEF L
<1>7. CASE c \in Rest
  <2>1. maps' = Grown /\ ~Wanted(c)
    BY <1>1, <1>7, MapsAssumption DEF parse_maps_line, Wanted, Rest
  <2>2. maps'[size] = Junk \/ (maps'[size] \in 1..L /\ ~Wanted(file[maps'[size]]) /\ size' = size)
    <3>. SUFFICES ASSUME maps'[size] # Junk
                  PROVE  maps'[size] \in 1..L /\ ~Wanted(file[maps'[size]]) /\ size' = size
      OBVIOUS
    <3>1. maps'[size] = maps[size] /\ maps[size] \in 1..L
      BY <1>2, <1>3, <2>1
    <3>2. ~Wanted(file[maps[size]])
      BY <3>1 DEF RegionsInv, FreeSlot
    <3>3. ~Wanted(file'[maps'[size]])
      BY <1>2, <3>1, <3>2
    <3>. QED  BY <1>4, <3>1, <3>2, <3>3
  <2>3. FreeSlot'
    <3>1. maps'[size'] # Junk => ~Wanted(file'[maps'[size']])
      BY <1>2, <1>3, <1>5, <2>1, <2>2, SMTT(30)
    <3>2. \A k \in size' + 1..NewCap - 1 : maps'[k] = Junk
      BY <1>2, <1>3, <1>6, <2>1
    <3>. QED  BY <1>1, <3>1, <3>2 DEF FreeSlot, Wanted
  <2>4. \A k \in 0..size' - 1 : maps'[k] = Junk \/ (k \in 0..size - 1 /\ maps'[k] = maps[k] /\ maps[k] \in 1..L)
    <3>1. \A k \in 0..size - 1 : maps'[k] = maps[k] /\ maps'[k] \in 0..L
      <4>1. \A k \in 0..size - 1 : k \in 0..size /\ k \in 0..NewCap - 1
        BY <1>2, <1>6
      <4>. QED  BY <1>2, <1>3, <2>1, <4>1
    <3>2. \A k \in 0..size - 1 : maps'[k] = Junk \/ maps[k] \in 1..L
      BY <1>2, <1>3, <3>1
    <3>. QED  BY <1>6, <2>2, <3>1, <3>2
  <2>5. /\ \A k \in 0..size' - 1 : maps'[k] # Junk => Wanted(file'[maps'[k]])
        /\ \A j, k \in 0..size' - 1 : j < k /\ maps'[j] # Junk /\ maps'[k] # Junk => maps'[j] < maps'[k]
    BY <1>2, <2>4 DEF RegionsInv, KeptOK
  <2>6. ASSUME NEW n \in 1..Len(file'), Wanted(file'[n]) PROVE \E k \in 0..size' - 1 : maps'[k] = n
    <3>1. n \in 1..L /\ Wanted(file[n])
      BY <1>2, <2>1, <2>6
    <3>2. PICK k \in 0..size - 1 : maps[k] = n
      BY <3>1 DEF RegionsInv, KeptOK, L
    <3>3. k \in 0..size' - 1 /\ k \in 0..size
      <4>1. k \in 0..size
        BY <1>3
      <4>. QED  BY <1>6, <4>1
    <3>4. maps'[k] = n
      BY <1>2, <2>1, <3>2, <3>3
    <3>. QED  BY <3>3, <3>4
  <2>7. KeptOK'
    BY <1>1, <2>5, <2>6 DEF KeptOK, Wanted
  <2>8. MTypeOK' /\ CapInv'
    BY <1>1, <1>2, <1>3, <1>5, <2>1, SMTT(30) DEF RegionsInv, MTypeOK, CapInv
  <2>. QED  BY <2>3, <2>7, <2>8 DEF RegionsInv
<1>8. CASE c \notin Rest
  <2>1. maps' = [Grown EXCEPT ![size] = L + 1]
    BY <1>1, <1>8 DEF parse_maps_line, L
  <2>2. maps'[size] = L + 1 /\ size' = IF Wanted(c) THEN size + 1 ELSE size
    <3>1. maps'[size] = L + 1 /\ L + 1 # Junk
      BY <1>2, <1>3, <2>1
    <3>. QED  BY <1>2, <1>4, <3>1
  <2>3. maps' \in [0..cap' - 1 -> Junk..Len(file')]
    BY <1>1, <1>2, <1>3, <2>1
  <2>4. \A k \in 0..size - 1 : maps'[k] = maps[k] /\ maps[k] \in 0..L
    <3>. SUFFICES ASSUME NEW k \in 0..size - 1 PROVE maps'[k] = maps[k] /\ maps[k] \in 0..L
      OBVIOUS
    <3>1. k \in 0..size /\ k \in 0..NewCap - 1 /\ k # size
      BY <1>2, <1>3
    <3>2. maps'[k] = Grown[k] /\ Grown[k] \in Junk..L
      BY <1>2, <2>1, <3>1
    <3>. QED  BY <1>2, <1>3, <3>1, <3>2
  <2>5. FreeSlot'
    <3>1. maps'[size'] # Junk => ~Wanted(file'[maps'[size']])
      <4>1. CASE Wanted(c)
        BY <1>2, <1>3, <2>1, <2>2, <4>1
      <4>2. CASE ~Wanted(c)
        BY <1>2, <2>2, <4>2
      <4>. QED  BY <4>1, <4>2
    <3>2. \A k \in size' + 1..NewCap - 1 : maps'[k] = Junk
      <4>1. \A k \in size + 1..NewCap - 1 : k # size /\ k \in 0..NewCap - 1
        BY <1>2, <1>3
      <4>2. \A k \in size + 1..NewCap - 1 : maps'[k] = Junk
        BY <1>2, <2>1, <4>1
      <4>. QED  BY <1>6, <4>2
    <3>. QED  BY <1>1, <3>1, <3>2 DEF FreeSlot, Wanted
  <2>6. \A k \in 0..size' - 1 : k \in 0..size - 1 \/ (k = size /\ Wanted(c))
    BY <1>3, <2>2
  <2>7. ASSUME NEW k \in 0..size' - 1, maps'[k] # Junk PROVE Wanted(file'[maps'[k]])
    <3>1. CASE k = size /\ Wanted(c)
      BY <1>2, <2>2, <3>1
    <3>2. CASE k \in 0..size - 1
      <4>1. maps'[k] = maps[k] /\ maps[k] \in 1..L /\ Wanted(file[maps[k]])
        BY <1>2, <1>3, <2>4, <2>7, <3>2 DEF RegionsInv, KeptOK
      <4>. QED  BY <1>2, <4>1
    <3>. QED  BY <2>6, <3>1, <3>2
  <2>8. ASSUME NEW j \in 0..size' - 1, NEW k \in 0..size' - 1, j < k, maps'[j] # Junk, maps'[k] # Junk
        PROVE  maps'[j] < maps'[k]
    <3>1. j \in 0..size - 1 /\ maps'[j] = maps[j] /\ maps[j] \in 0..L
      BY <1>6, <2>4, <2>8
    <3>2. CASE k = size
      BY <1>2, <2>2, <3>1, <3>2
    <3>3. CASE k \in 0..size - 1
      BY <2>4, <2>8, <3>1, <3>3 DEF RegionsInv, KeptOK
    <3>. QED  BY <2>6, <3>2, <3>3
  <2>9. ASSUME NEW n \in 1..Len(file'), Wanted(file'[n]) PROVE \E k \in 0..size' - 1 : maps'[k] = n
    <3>1. CASE n = L + 1
      <4>1. size \in 0..size' - 1 /\ maps'[size] = n
        BY <1>2, <1>3, <2>2, <2>9, <3>1
      <4>. QED  BY <4>1
    <3>2. CASE n \in 1..L
      <4>1. Wanted(file[n])
        BY <1>2, <2>9, <3>2
      <4>2. PICK k \in 0..size - 1 : maps[k] = n
        BY <3>2, <4>1 DEF RegionsInv, KeptOK, L
      <4>3. k \in 0..size' - 1 /\ maps'[k] = n
        BY <1>6, <2>4, <4>2
      <4>. QED  BY <4>3
    <3>. QED  BY <1>2, <3>1, <3>2
  <2>10. KeptOK'
    BY <1>1, <2>7, <2>8, <2>9 DEF KeptOK, Wanted
  <2>11. MTypeOK' /\ CapInv'
    <3>1. filter_anon' \in BOOLEAN /\ done' \in {"looping", "returned", "crashed"}
      BY <1>1 DEF RegionsInv, MTypeOK
    <3>2. cap' \in Nat /\ size' < cap'
      BY <1>1, <1>2, <1>3, <1>5
    <3>. QED  BY <1>2, <1>5, <2>3, <3>1, <3>2 DEF MTypeOK, CapInv
  <2>. QED  BY <2>5, <2>10, <2>11 DEF RegionsInv
<1>. QED  BY <1>7, <1>8

\* Every step keeps the regions exact.
LEMMA MapsRegionsInv == MSpec => []RegionsInv
<1>1. MInit => RegionsInv
  BY DEF MInit, RegionsInv, MTypeOK, CapInv, FreeSlot, KeptOK, Junk
<1>2. RegionsInv /\ [MNext]_mvars => RegionsInv'
  <2>. SUFFICES ASSUME RegionsInv, [MNext]_mvars PROVE RegionsInv'
    OBVIOUS
  <2>1. ASSUME NEW c \in NextChunk, ParseCrashes(c) PROVE RegionsInv'
    <3>1. done' = "crashed" /\ UNCHANGED <<filter_anon, file, maps, size, cap>>
      BY <2>1 DEF ParseCrashes
    <3>. QED  BY <3>1 DEF RegionsInv, MTypeOK, CapInv, FreeSlot, KeptOK, Wanted
  <2>2. CASE EndOfFile
    BY <2>2 DEF EndOfFile, RegionsInv, MTypeOK, CapInv, FreeSlot, KeptOK, Wanted
  <2>3. CASE UNCHANGED mvars
    BY <2>3 DEF mvars, RegionsInv, MTypeOK, CapInv, FreeSlot, KeptOK, Wanted
  <2>. QED  BY <2>1, <2>2, <2>3, ParseRegionsInv DEF MNext
<1>. QED  BY <1>1, <1>2, PTL DEF MSpec

\* p->maps, maps_size and maps_cap stay what they are declared to be: every slot
\* holds the number of a line that has been read, or what malloc left there.
THEOREM MapsType == MSpec => []MTypeOK
<1>1. RegionsInv => MTypeOK
  BY DEF RegionsInv
<1>. QED  BY <1>1, MapsRegionsInv, PTL

\* parse_maps keeps exactly the lines that pass its filter, in the order of the
\* file, however often the array grows and whatever the lines filtered out have
\* left in the free slot.
THEOREM KeepsExactly == MSpec => []RegionsExact
<1>1. RegionsInv => RegionsExact
  <2>. SUFFICES ASSUME RegionsInv PROVE RegionsExact
    OBVIOUS
  <2>1. size \in Nat /\ cap \in Nat /\ size < cap /\ maps \in [0..cap - 1 -> Junk..Len(file)]
        /\ Len(file) \in Nat /\ Junk = 0
    BY DEF RegionsInv, MTypeOK, CapInv, Junk
  <2>2. \A k \in 1..size : k - 1 \in 0..size - 1 /\ Kept[k] = maps[k - 1] /\ Kept[k] \in 0..Len(file)
    BY <2>1 DEF Kept
  <2>. HIDE DEF Kept
  <2>3. \A j, k \in 1..size : j < k /\ Kept[j] # Junk /\ Kept[k] # Junk => Kept[j] < Kept[k]
    BY <2>1, <2>2, SMTT(30) DEF RegionsInv, KeptOK
  <2>4. ASSUME NEW n \in {Kept[k] : k \in 1..size} \ {Junk}
        PROVE  n \in {m \in 1..Len(file) : Wanted(file[m])}
    <3>1. PICK k \in 1..size : n = Kept[k] /\ n # Junk
      OBVIOUS
    <3>2. k - 1 \in 0..size - 1 /\ n = maps[k - 1] /\ n \in 0..Len(file)
      BY <2>2, <3>1
    <3>3. n \in 1..Len(file)
      BY <2>1, <3>1, <3>2
    <3>. QED  BY <3>1, <3>2, <3>3 DEF RegionsInv, KeptOK
  <2>5. ASSUME NEW n \in 1..Len(file), Wanted(file[n])
        PROVE  n \in {Kept[k] : k \in 1..size} \ {Junk}
    <3>1. PICK k \in 0..size - 1 : maps[k] = n
      BY <2>5 DEF RegionsInv, KeptOK
    <3>2. k + 1 \in 1..size /\ Kept[k + 1] = n /\ n # Junk
      BY <2>1, <2>2, <3>1
    <3>. QED  BY <3>2
  <2>. QED  BY <2>3, <2>4, <2>5 DEF RegionsExact
<1>. QED  BY <1>1, MapsRegionsInv, PTL
=============================================================================
