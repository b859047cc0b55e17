--------------------------- MODULE ProcPagesProofs ---------------------------
(* Theorems about ProcPages, for all regions, all patterns of readable and  *)
(* present pages, every batch size and any number of failing reads.         *)
EXTENDS ProcPages, FiniteSetTheorems, TLAPS

\* The arrays have one element more than the region has pages.
ArraysOK ==
    /\ DOMAIN hash = Index /\ DOMAIN share = Index
    /\ \A j \in Index : /\ hash[j] \in [0..PageNum(j) -> Int]
                        /\ share[j] \in [0..PageNum(j) -> Int]

\* The file offset of pMemFile and idx stay in step, and idx never gets ahead
\* of the loop.
ReadOK ==
    phase = "hash" /\ i \in Index =>
        /\ idx \in Nat /\ pos \in Nat /\ addr \in Nat
        /\ pos = Region[i].start + idx
        /\ Region[i].start + idx <= addr
        /\ addr <= Region[i].end

\* What is left of the region to scan.
ScanOK ==
    phase = "share" /\ i \in Index =>
        /\ index \in Nat /\ count \in Nat
        /\ Region[i].start <= index
        /\ count > 0 => index + count = Region[i].end

HashOK ==
    \A j \in Index :
        /\ hash[j][PageNum(j)] = Junk
        /\ \A k \in 0..PageNum(j) - 1 : hash[j][k] \in {Junk, PageOf(j, k)}

ShareOK ==
    \A j \in Index : \A k \in 0..PageNum(j) - 1 :
        \/ share[j][k] = Junk
        \/ share[j][k] = PageOf(j, k) /\ PageOf(j, k) \in Present

PInv == i \in Nat \ {0} /\ ArraysOK /\ ReadOK /\ ScanOK /\ HashOK /\ ShareOK

-----------------------------------------------------------------------------

\* A region has at least one page, between addresses that are numbers.
LEMMA RegionType ==
    ASSUME NEW j \in Index
    PROVE  /\ Region[j].start \in Nat /\ Region[j].end \in Nat
           /\ Region[j].start < Region[j].end
           /\ PageNum(j) \in Nat \ {0}
<1>. DEFINE S == [start : Nat, end : Nat]
<1>1. Region \in Seq(S)
  BY PagesAssumption
<1>2. Region[j] \in S
  <2>. HIDE DEF S
  <2>. QED  BY <1>1 DEF Index
<1>3. Region[j].start < Region[j].end
  BY PagesAssumption
<1>. QED  BY <1>2, <1>3 DEF PageNum

\* Both inner loops start at the first page of region j.
LEMMA BeginOK ==
    ASSUME i \in Nat \ {0}, NEW j \in Nat \ {0}, Begin(j)
    PROVE  i' \in Nat \ {0} /\ ReadOK' /\ ScanOK'
<1>1. CASE j \in Index
  BY <1>1, RegionType DEF Begin, Start, Count, PageNum, ReadOK, ScanOK
<1>2. CASE j \notin Index
  BY <1>2 DEF Begin, ReadOK, ScanOK
<1>. QED  BY <1>1, <1>2

\* The arrays come from malloc with nothing in them.
LEMMA InitPInv == PInit => PInv
<1>. SUFFICES ASSUME PInit PROVE PInv
  OBVIOUS
<1>1. ASSUME NEW j \in Index
      PROVE  /\ hash[j] = [k \in 0..PageNum(j) |-> Junk]
             /\ share[j] = [k \in 0..PageNum(j) |-> Junk]
  <2>1. numPages(j) - 1 = PageNum(j)
    BY RegionType DEF numPages
  <2>. QED  BY <2>1 DEF PInit
<1>2. ArraysOK
  BY <1>1 DEF ArraysOK, PInit, Junk
<1>3. HashOK
  <2>1. ASSUME NEW j \in Index, NEW k \in 0..PageNum(j)
        PROVE  hash[j][k] = Junk
    BY <1>1
  <2>2. ASSUME NEW j \in Index
        PROVE  PageNum(j) \in Nat \ {0}
    BY RegionType
  <2>. QED  BY <2>1, <2>2 DEF HashOK
<1>4. ShareOK
  <2>. SUFFICES ASSUME NEW j \in Index, NEW k \in 0..PageNum(j) - 1
                PROVE  share[j][k] = Junk
    BY DEF ShareOK
  <2>1. k \in 0..PageNum(j)
    BY RegionType
  <2>. QED  BY <1>1, <2>1
<1>5. ReadOK /\ ScanOK
  BY RegionType DEF PInit, Start, ReadOK, ScanOK
<1>. QED  BY <1>2, <1>3, <1>4, <1>5 DEF PInv, PInit

\* One page read by read_mem.
LEMMA ReadPagePInv == PInv /\ ReadPage => PInv'
<1>. SUFFICES ASSUME PInv, ReadPage PROVE PInv'
  OBVIOUS
<1>1. i \in Index /\ phase = "hash" /\ addr < Region[i].end
  BY DEF ReadPage, Reading
<1>2. /\ idx \in Nat /\ addr \in Nat /\ pos = Region[i].start + idx
      /\ Region[i].start \in Nat /\ Region[i].end \in Nat
      /\ Region[i].start + idx <= addr /\ pos \in Nat
  BY <1>1, RegionType DEF PInv, ReadOK
<1>3. idx \in 0..PageNum(i) - 1 /\ idx \in 0..PageNum(i) /\ idx # PageNum(i)
      /\ PageNum(i) \in Nat
  BY <1>1, <1>2 DEF PageNum
<1>4. addr' = addr + 1 /\ idx' = idx + 1 /\ pos' = pos + 1
      /\ UNCHANGED <<phase, i, index, count, share>>
  BY <1>3 DEF ReadPage, numPages
<1>5. ReadOK' /\ ScanOK'
  BY <1>1, <1>2, <1>4 DEF ReadOK, ScanOK, PInv
<1>6. hash' = [hash EXCEPT ![i] = [hash[i] EXCEPT ![idx] = pos]]
  BY DEF ReadPage
<1>7. pos \in Int /\ pos = PageOf(i, idx)
  BY <1>2 DEF PageOf
<1>8. ArraysOK'
  BY <1>1, <1>3, <1>4, <1>6, <1>7 DEF PInv, ArraysOK
<1>9. HashOK'
  <2>. SUFFICES ASSUME NEW j \in Index
                PROVE  /\ hash'[j][PageNum(j)] = Junk
                       /\ \A k \in 0..PageNum(j) - 1 : hash'[j][k] \in {Junk, PageOf(j, k)}
    BY DEF HashOK
  <2>1. CASE j = i
    <3>1. hash'[i] = [hash[i] EXCEPT ![idx] = pos]
      BY <1>1, <1>6 DEF PInv, ArraysOK
    <3>2. hash[i] \in [0..PageNum(i) -> Int]
      BY <1>1 DEF PInv, ArraysOK
    <3>. QED  BY <1>1, <1>3, <1>7, <2>1, <3>1, <3>2 DEF PInv, HashOK
  <2>2. CASE j # i
    <3>1. hash'[j] = hash[j]
      BY <1>6, <2>2 DEF PInv, ArraysOK
    <3>. QED  BY <3>1 DEF PInv, HashOK
  <2>. QED  BY <2>1, <2>2
<1>. QED  BY <1>4, <1>5, <1>8, <1>9 DEF PInv, ShareOK

\* walk_pfn for any entries of a batch stores counts only, each beside its page.
LEMMA WalkPInv ==
    ASSUME PInv, Scanning, NEW got, NEW lost, share' = walk_pfn(got, lost), hash' = hash
    PROVE  ArraysOK' /\ ShareOK'
<1>1. i \in Index
  BY DEF Scanning
<1>2. /\ DOMAIN share' = Index
      /\ \A j \in Index : j # i => share'[j] = share[j]
      /\ \A k \in 0..PageNum(i) :
            share'[i][k] = IF PageOf(i, k) \in index..index + got - 1
                              /\ PageOf(i, k) \in Present \ lost
                           THEN PageOf(i, k) ELSE share[i][k]
      /\ share'[i] \in [0..PageNum(i) -> Int]
  <2>1. DOMAIN share = Index /\ share[i] \in [0..PageNum(i) -> Int]
    BY <1>1 DEF PInv, ArraysOK
  <2>2. \A k \in 0..PageNum(i) : PageOf(i, k) \in Int
    BY <1>1, RegionType DEF PageOf
  <2>. QED  BY <1>1, <2>1, <2>2 DEF walk_pfn
<1>3. ArraysOK'
  BY <1>2 DEF PInv, ArraysOK
<1>4. ShareOK'
  <2>. SUFFICES ASSUME NEW j \in Index, NEW k \in 0..PageNum(j) - 1
                PROVE  \/ share'[j][k] = Junk
                       \/ share'[j][k] = PageOf(j, k) /\ PageOf(j, k) \in Present
    BY DEF ShareOK
  <2>1. k \in 0..PageNum(j)
    BY RegionType
  <2>. QED  BY <1>2, <2>1 DEF PInv, ShareOK
<1>. QED  BY <1>3, <1>4

\* One batch of pagemap entries.
LEMMA ScanBatchPInv == PInv /\ ScanBatch => PInv'
<1>. SUFFICES ASSUME PInv, ScanBatch PROVE PInv'
  OBVIOUS
<1>1. i \in Index /\ phase = "share" /\ count > 0
  BY DEF ScanBatch, Scanning
<1>2. PICK got \in 1..batch, lost \in SUBSET Present :
            share' = walk_pfn(got, lost) /\ index' = index + got /\ count' = count - got
  BY DEF ScanBatch, Lost
<1>3. /\ index \in Nat /\ count \in Nat /\ Region[i].start <= index
      /\ index + count = Region[i].end /\ Region[i].start \in Nat /\ Region[i].end \in Nat
  BY <1>1, RegionType DEF PInv, ScanOK
<1>4. got \in Nat /\ got <= count
  BY <1>2, <1>3, PagesAssumption DEF batch
<1>5. UNCHANGED <<phase, i, hash>>
  BY DEF ScanBatch
<1>6. ReadOK' /\ ScanOK'
  BY <1>1, <1>2, <1>3, <1>4, <1>5 DEF ReadOK, ScanOK
<1>7. ArraysOK' /\ ShareOK'
  BY <1>2, <1>5, WalkPInv DEF ScanBatch
<1>. QED  BY <1>5, <1>6, <1>7 DEF PInv, HashOK

\* Every step keeps the invariant.
LEMMA NextPInv == PInv /\ [PStep]_pvars => PInv'
<1>. SUFFICES ASSUME PInv, [PStep]_pvars PROVE PInv'
  OBVIOUS
<1>1. CASE ReadPage
  BY <1>1, ReadPagePInv
<1>2. CASE ReadFault
  <2>1. i \in Index /\ phase = "hash" /\ addr < Region[i].end /\ addr' = addr + 1
        /\ UNCHANGED <<phase, i, pos, idx, index, count, hash, share>>
    BY <1>2 DEF ReadFault, Reading
  <2>2. ReadOK'
    BY <2>1, RegionType DEF PInv, ReadOK
  <2>. QED  BY <2>1, <2>2 DEF PInv, ArraysOK, ScanOK, HashOK, ShareOK
<1>3. CASE NextRegion
  <2>1. Begin(i + 1) /\ UNCHANGED <<hash, share>> /\ i + 1 \in Nat \ {0}
    BY <1>3 DEF NextRegion, PInv
  <2>. QED  BY <2>1, BeginOK DEF PInv, ArraysOK, HashOK, ShareOK
<1>4. CASE ReadDone
  <2>1. Begin(1) /\ UNCHANGED <<hash, share>>
    BY <1>4 DEF ReadDone
  <2>. QED  BY <2>1, BeginOK DEF PInv, ArraysOK, HashOK, ShareOK
<1>5. CASE ScanBatch
  BY <1>5, ScanBatchPInv
<1>6. CASE ScanBreak
  <2>1. i \in Index /\ phase = "share" /\ count' = 0
        /\ UNCHANGED <<phase, i, addr, pos, idx, index, hash, share>>
    BY <1>6 DEF ScanBreak, Scanning
  <2>. QED  BY <2>1 DEF PInv, ArraysOK, ReadOK, ScanOK, HashOK, ShareOK
<1>7. CASE NextPagemap
  <2>1. Begin(i + 1) /\ UNCHANGED <<hash, share>> /\ i + 1 \in Nat \ {0}
    BY <1>7 DEF NextPagemap, PInv
  <2>. QED  BY <2>1, BeginOK DEF PInv, ArraysOK, HashOK, ShareOK
<1>8. CASE ScanDone
  BY <1>8 DEF ScanDone, PInv, ArraysOK, ReadOK, ScanOK, HashOK, ShareOK
<1>9. CASE ScanFatal
  <2>1. ArraysOK' /\ ShareOK'
    BY <1>9, WalkPInv DEF ScanFatal
  <2>2. phase' = "exited" /\ UNCHANGED <<i, hash>>
    BY <1>9 DEF ScanFatal
  <2>. QED  BY <2>1, <2>2 DEF PInv, ReadOK, ScanOK, HashOK
<1>10. CASE UNCHANGED pvars
  BY <1>10 DEF pvars, PInv, ArraysOK, ReadOK, ScanOK, HashOK, ShareOK
<1>. QED  BY <1>1, <1>2, <1>3, <1>4, <1>5, <1>6, <1>7, <1>8, <1>9, <1>10 DEF PStep

-----------------------------------------------------------------------------

\* However many reads of /proc/<pid>/mem fail, and whichever they are, a hash
\* never ends up beside the address of another page.
THEOREM HashesAligned == PSpec => []HashAligned
<1>1. PInv => HashAligned
  BY DEF PInv, HashOK, HashAligned, Entry
<1>. QED  BY <1>1, InitPInv, NextPInv, PTL DEF PSpec

\* However pagemap_read splits the entries, a map count never ends up beside
\* another page, and pages without a frame get none.
THEOREM SharesAligned == PSpec => []ShareAligned
<1>1. PInv => ShareAligned
  BY DEF PInv, ShareOK, ShareAligned, Entry
<1>. QED  BY <1>1, InitPInv, NextPInv, PTL DEF PSpec

\* Neither pass stores outside the pages of the region.
THEOREM BuffersFit == PSpec => []BufferFits
<1>1. PInv => BufferFits
  <2>. SUFFICES ASSUME PInv PROVE BufferFits
    OBVIOUS
  <2>1. phase = "hash" /\ i \in Index => idx < numPages(i)
    BY RegionType DEF PInv, ReadOK, numPages, PageNum
  <2>2. \A j \in Index : hash[j][PageNum(j)] = Junk
    BY DEF PInv, HashOK
  <2>3. Scanning => Region[i].start <= index /\ index + batch <= Region[i].end
    BY RegionType, PagesAssumption, SMTT(30) DEF PInv, ScanOK, Scanning, batch
  <2>. QED  BY <2>1, <2>2, <2>3 DEF BufferFits
<1>. QED  BY <1>1, InitPInv, NextPInv, PTL DEF PSpec

-----------------------------------------------------------------------------
(* Types, and what has been stored as long as no read has failed that could *)
(* have succeeded.                                                          *)

\* Every page of region j in front of the first unreadable one has its hash.
Hashed(j) ==
    \A k \in 0..PageNum(j) - 1 :
        (Region[j].start..PageOf(j, k)) \cap Unreadable = {} => hash[j][k] = PageOf(j, k)

\* Every page of region j in front of page a that has a frame has its count.
Counted(j, a) ==
    \A k \in 0..PageNum(j) - 1 :
        PageOf(j, k) < a /\ PageOf(j, k) \in Present => share[j][k] = PageOf(j, k)

\* The array is filled as far as idx, and addr has got ahead of the file only if
\* the page there cannot be read.
HashSoFar ==
    /\ \A j \in Index : phase # "hash" \/ j < i => Hashed(j)
    /\ phase = "hash" /\ i \in Index =>
        /\ \A k \in 0..idx - 1 : hash[i][k] = PageOf(i, k)
        /\ addr = pos \/ pos \in Unreadable

ShareSoFar ==
    /\ \A j \in Index : phase = "done" \/ (phase = "share" /\ j < i) => Counted(j, Region[j].end)
    /\ phase = "share" /\ i \in Index => /\ Counted(i, index)
                                         /\ index + count = Region[i].end

SoFar == faults = 0 => HashSoFar /\ ShareSoFar

FullInv == PInv /\ PTypeOK /\ SoFar

\* The pages of a region.
LEMMA PageOfType ==
    ASSUME NEW j \in Index, NEW k \in 0..PageNum(j) - 1
    PROVE  /\ PageOf(j, k) \in Nat /\ PageOf(j, k) \in Pages
           /\ Region[j].start <= PageOf(j, k) /\ PageOf(j, k) < Region[j].end
           /\ Len(Region) \in Nat /\ j \in Nat /\ Index = 1..Len(Region)
<1>1. Len(Region) \in Nat /\ j \in 1..Len(Region)
  BY PagesAssumption DEF Index
<1>2. PageOf(j, k) \in Region[j].start..Region[j].end - 1
  BY RegionType DEF PageNum, PageOf
<1>3. Region[j].start \in Nat /\ Region[j].end \in Nat
  BY RegionType
<1>4. PageOf(j, k) \in Nat /\ Region[j].start <= PageOf(j, k) /\ PageOf(j, k) < Region[j].end
  BY <1>2, <1>3
<1>5. PageOf(j, k) \in Pages
  BY <1>2 DEF Pages
<1>. QED  BY <1>1, <1>4, <1>5 DEF Index

\* A new region: the locals have their types and nothing of it has been stored.
LEMMA BeginFull ==
    ASSUME NEW j \in 1..Len(Region) + 1, Begin(j)
    PROVE  /\ i' \in 1..Len(Region) + 1 /\ {addr', pos', idx', index', count'} \subseteq Nat
           /\ i' = j /\ idx' = 0 /\ addr' = pos'
           /\ j \in Index => index' = Region[j].start /\ index' + count' = Region[j].end
<1>1. CASE j \in Index
  BY <1>1, RegionType DEF Begin, Start, Count, PageNum
<1>2. CASE j \notin Index
  BY <1>2 DEF Begin, Start, Count
<1>. QED  BY <1>1, <1>2

\* The initial state.
LEMMA InitFullInv == PInit => FullInv
<1>. SUFFICES ASSUME PInit PROVE FullInv
  OBVIOUS
<1>1. PInv
  BY InitPInv
<1>2. Len(Region) \in Nat
  BY PagesAssumption
<1>3. addr \in Nat /\ pos \in Nat /\ idx \in Nat /\ index \in Nat /\ count \in Nat
  <2>1. CASE 1 \in Index
    BY <2>1, RegionType DEF PInit, Start, Count, PageNum
  <2>2. CASE 1 \notin Index
    BY <2>2 DEF PInit, Start, Count
  <2>. QED  BY <2>1, <2>2
<1>4. PTypeOK
  BY <1>2, <1>3, PagesAssumption DEF PInit, PTypeOK
<1>5. HashSoFar
  <2>1. \A j \in Index : ~(j < 1)
    BY <1>2 DEF Index
  <2>2. i = 1 /\ phase = "hash" /\ idx = 0 /\ addr = pos
    BY DEF PInit
  <2>3. \A k \in 0..idx - 1 : FALSE
    BY <2>2
  <2>. QED  BY <2>1, <2>2, <2>3 DEF HashSoFar
<1>6. ShareSoFar
  BY DEF ShareSoFar, PInit
<1>. QED  BY <1>1, <1>4, <1>5, <1>6 DEF FullInv, SoFar

\* One page read by read_mem.
LEMMA ReadPageFull == FullInv /\ ReadPage => FullInv'
<1>. SUFFICES ASSUME FullInv, ReadPage PROVE FullInv'
  OBVIOUS
<1>0. PInv /\ PTypeOK /\ PInv'
  BY ReadPagePInv DEF FullInv
<1>1. i \in Index /\ phase = "hash" /\ addr < Region[i].end /\ pos \notin Unreadable
  BY DEF ReadPage, Reading
<1>2. /\ idx \in Nat /\ addr \in Nat /\ pos \in Nat /\ pos = Region[i].start + idx
      /\ Region[i].start \in Nat /\ Region[i].end \in Nat
      /\ Region[i].start + idx <= addr
  BY <1>0, <1>1, RegionType DEF PInv, ReadOK
<1>3. idx \in 0..PageNum(i) - 1 /\ idx # PageNum(i) /\ PageNum(i) \in Nat /\ idx \in 0..numPages(i) - 1
  BY <1>1, <1>2 DEF PageNum, numPages
<1>4. /\ addr' = addr + 1 /\ idx' = idx + 1 /\ pos' = pos + 1
      /\ UNCHANGED <<phase, i, index, count, share, faults, shown>>
  BY <1>3 DEF ReadPage, numPages
<1>5. hash' = [hash EXCEPT ![i] = [hash[i] EXCEPT ![idx] = pos]]
  BY DEF ReadPage
<1>6. pos = PageOf(i, idx) /\ pos \in Pages
  <2>1. pos = PageOf(i, idx)
    BY <1>2 DEF PageOf
  <2>. QED  BY <1>1, <1>3, <2>1, PageOfType
<1>7. DOMAIN hash = Index /\ \A j \in Index : hash[j] \in [0..numPages(j) - 1 -> Pages \cup {Junk}]
  BY <1>0 DEF PTypeOK
<1>8. /\ DOMAIN hash' = Index /\ hash'[i] = [hash[i] EXCEPT ![idx] = pos]
      /\ \A j \in Index : j # i => hash'[j] = hash[j]
  BY <1>1, <1>5, <1>7
<1>9. PTypeOK'
  <2>1. \A j \in Index : hash'[j] \in [0..numPages(j) - 1 -> Pages \cup {Junk}]
    <3>. SUFFICES ASSUME NEW j \in Index PROVE hash'[j] \in [0..numPages(j) - 1 -> Pages \cup {Junk}]
      OBVIOUS
    <3>1. CASE j = i
      BY <1>3, <1>6, <1>7, <1>8, <3>1, ZenonT(40)
    <3>2. CASE j # i
      BY <1>7, <1>8, <3>2
    <3>. QED  BY <3>1, <3>2
  <2>2. idx' \in Nat /\ addr' \in Nat /\ pos' \in Nat
    BY <1>2, <1>4
  <2>. QED  BY <1>0, <1>4, <1>8, <2>1, <2>2, SMTT(30) DEF PTypeOK
<1>10. ASSUME faults' = 0 PROVE HashSoFar' /\ ShareSoFar'
  <2>1. HashSoFar /\ ShareSoFar
    BY <1>4, <1>10 DEF FullInv, SoFar
  <2>2. ShareSoFar'
    BY <1>4, <2>1 DEF ShareSoFar, Counted
  <2>3. \A j \in Index : j < i => j # i
    BY DEF Index
  <2>4. \A j \in Index : phase' # "hash" \/ j < i' => Hashed(j)'
    BY <1>1, <1>4, <1>8, <2>1, <2>3 DEF HashSoFar, Hashed
  <2>5. ASSUME NEW k \in 0..idx' - 1 PROVE hash'[i][k] = PageOf(i, k)
    <3>1. hash[i] \in [0..numPages(i) - 1 -> Pages \cup {Junk}] /\ numPages(i) - 1 = PageNum(i)
      BY <1>1, <1>3, <1>7 DEF numPages
    <3>2. CASE k = idx
      BY <1>3, <1>6, <1>8, <3>1, <3>2
    <3>3. CASE k # idx
      <4>1. k \in 0..idx - 1 /\ k \in 0..numPages(i) - 1
        BY <1>2, <1>3, <1>4, <3>1, <3>3
      <4>. QED  BY <1>1, <1>8, <2>1, <3>1, <3>3, <4>1 DEF HashSoFar
    <3>. QED  BY <3>2, <3>3
  <2>6. addr' = pos'
    BY <1>1, <1>4, <2>1 DEF HashSoFar
  <2>7. HashSoFar'
    BY <1>1, <1>4, <2>4, <2>5, <2>6 DEF HashSoFar
  <2>. QED  BY <2>2, <2>7
<1>. QED  BY <1>0, <1>9, <1>10 DEF FullInv, SoFar

\* The end of a region in read_mem.
LEMMA RegionHashed ==
    ASSUME FullInv, phase = "hash", i \in Index, ~Reading, HashSoFar
    PROVE  Hashed(i)
<1>. SUFFICES ASSUME NEW k \in 0..PageNum(i) - 1,
                     (Region[i].start..PageOf(i, k)) \cap Unreadable = {}
              PROVE  hash[i][k] = PageOf(i, k)
  BY DEF Hashed
<1>1. /\ idx \in Nat /\ addr \in Nat /\ pos \in Nat /\ pos = Region[i].start + idx
      /\ Region[i].start \in Nat /\ Region[i].end \in Nat /\ addr <= Region[i].end
      /\ ~(addr < Region[i].end)
  BY RegionType DEF FullInv, PInv, ReadOK, Reading
<1>2. addr = Region[i].end
  BY <1>1
<1>3. CASE k < idx
  <2>1. k \in 0..idx - 1
    BY <1>1, <1>3
  <2>. QED  BY <2>1 DEF HashSoFar
<1>4. CASE ~(k < idx)
  <2>1. pos \in Region[i].start..PageOf(i, k)
    BY <1>1, <1>4 DEF PageOf
  <2>2. pos \notin Unreadable
    BY <2>1
  <2>3. pos = Region[i].end
    BY <1>2, <2>2 DEF HashSoFar
  <2>. QED  BY <1>1, <2>1, <2>3, PageOfType
<1>. QED  BY <1>3, <1>4

\* One batch of pagemap entries.
LEMMA WalkType ==
    ASSUME PTypeOK, Scanning, NEW got, NEW lost, share' = walk_pfn(got, lost)
    PROVE  /\ DOMAIN share' = Index
           /\ \A j \in Index : share'[j] \in [0..numPages(j) - 1 -> Pages \cup {Junk}]
           /\ \A j \in Index : j # i => share'[j] = share[j]
           /\ share'[i] = [k \in 0..PageNum(i) |->
                            IF PageOf(i, k) \in index..index + got - 1 /\ PageOf(i, k) \in Present \ lost
                            THEN PageOf(i, k) ELSE share[i][k]]
<1>1. i \in Index
  BY DEF Scanning
<1>2. /\ DOMAIN share = Index
      /\ \A j \in Index : share[j] \in [0..numPages(j) - 1 -> Pages \cup {Junk}]
  BY DEF PTypeOK
<1>3. numPages(i) - 1 = PageNum(i)
  BY <1>1, RegionType DEF numPages
<1>4. /\ DOMAIN share' = Index
      /\ \A j \in Index : j # i => share'[j] = share[j]
      /\ share'[i] = [k \in 0..PageNum(i) |->
                        IF PageOf(i, k) \in index..index + got - 1 /\ PageOf(i, k) \in Present \ lost
                        THEN PageOf(i, k) ELSE share[i][k]]
  BY <1>1, <1>2, <1>3 DEF walk_pfn
<1>5. share'[i] \in [0..PageNum(i) -> Pages \cup {Junk}]
  <2>1. \A k \in 0..PageNum(i) : share[i][k] \in Pages \cup {Junk}
    BY <1>1, <1>2, <1>3
  <2>2. Present \subseteq Pages
    BY PagesAssumption
  <2>. QED  BY <1>4, <2>1, <2>2
<1>. QED  BY <1>2, <1>3, <1>4, <1>5

\* The reads of kpageflags that return nothing in a batch.
LEMMA LostCount ==
    ASSUME PTypeOK, NEW got \in Nat, NEW lost \in Lost(got)
    PROVE  /\ faults + Cardinality(lost) <= MaxFault
           /\ faults \in Nat /\ Cardinality(lost) \in Nat /\ (Cardinality(lost) = 0 <=> lost = {})
<1>1. index \in Nat /\ faults \in Nat
  BY DEF PTypeOK
<1>2. IsFiniteSet(index..index + got - 1)
  <2>1. index \in Int /\ index + got - 1 \in Int
    BY <1>1
  <2>. QED  BY <2>1, FS_Interval, Zenon
<1>3. IsFiniteSet(lost)
  <2>1. lost \subseteq index..index + got - 1
    BY DEF Lost
  <2>. QED  BY <1>2, <2>1, FS_Subset
<1>4. Cardinality(lost) \in Nat /\ (Cardinality(lost) = 0 <=> lost = {})
  BY <1>3, FS_CardinalityType, FS_EmptySet
<1>. QED  BY <1>1, <1>4 DEF Lost

LEMMA ScanBatchFull == FullInv /\ ScanBatch => FullInv'
<1>. SUFFICES ASSUME FullInv, ScanBatch PROVE FullInv'
  OBVIOUS
<1>0. PInv /\ PTypeOK /\ PInv'
  BY ScanBatchPInv DEF FullInv
<1>1. i \in Index /\ phase = "share" /\ count > 0
  BY DEF ScanBatch, Scanning
<1>2. PICK got \in 1..batch : \E lost \in Lost(got) :
            /\ share' = walk_pfn(got, lost) /\ index' = index + got /\ count' = count - got
            /\ faults' = faults + Cardinality(lost)
  BY DEF ScanBatch
<1>3. PICK lost \in Lost(got) :
            /\ share' = walk_pfn(got, lost) /\ index' = index + got /\ count' = count - got
            /\ faults' = faults + Cardinality(lost)
  BY <1>2
<1>4. /\ index \in Nat /\ count \in Nat /\ Region[i].start <= index
      /\ index + count = Region[i].end /\ Region[i].start \in Nat /\ Region[i].end \in Nat
  BY <1>0, <1>1, RegionType DEF PInv, ScanOK
<1>5. got \in Nat /\ got <= count
  BY <1>2, <1>4, PagesAssumption DEF batch
<1>6. UNCHANGED <<phase, i, addr, pos, idx, hash>>
  BY DEF ScanBatch
<1>7. /\ faults \in Nat /\ faults' \in Nat /\ faults' <= MaxFault
      /\ faults' = 0 => faults = 0 /\ lost = {}
  <2>1. /\ faults + Cardinality(lost) <= MaxFault /\ faults \in Nat
        /\ Cardinality(lost) \in Nat /\ (Cardinality(lost) = 0 <=> lost = {})
    BY <1>0, <1>5, LostCount
  <2>. QED  BY <1>3, <2>1
<1>8. Scanning
  BY DEF ScanBatch
<1>9. /\ DOMAIN share' = Index
      /\ \A j \in Index : share'[j] \in [0..numPages(j) - 1 -> Pages \cup {Junk}]
  BY <1>0, <1>3, <1>8, WalkType
<1>10. /\ \A j \in Index : j # i => share'[j] = share[j]
       /\ share'[i] = [k \in 0..PageNum(i) |->
                        IF PageOf(i, k) \in index..index + got - 1 /\ PageOf(i, k) \in Present \ lost
                        THEN PageOf(i, k) ELSE share[i][k]]
  BY <1>0, <1>3, <1>8, WalkType
<1>11. PTypeOK'
  <2>1. index' \in Nat /\ count' \in Nat
    BY <1>3, <1>4, <1>5
  <2>. QED  BY <1>0, <1>6, <1>7, <1>9, <2>1, SMTT(30) DEF PTypeOK
<1>12. ASSUME faults' = 0 PROVE HashSoFar' /\ ShareSoFar'
  <2>1. HashSoFar /\ ShareSoFar
    BY <1>7, <1>12 DEF FullInv, SoFar
  <2>2. HashSoFar'
    BY <1>1, <1>6, <2>1 DEF HashSoFar, Hashed
  <2>3. \A j \in Index : j < i => j # i
    BY DEF Index
  <2>4. \A j \in Index : j < i => Counted(j, Region[j].end)'
    BY <1>1, <1>10, <2>1, <2>3 DEF ShareSoFar, Counted
  <2>5. Counted(i, index)'
    <3>. SUFFICES ASSUME NEW k \in 0..PageNum(i) - 1, PageOf(i, k) < index + got, PageOf(i, k) \in Present
                  PROVE  share'[i][k] = PageOf(i, k)
      BY <1>3, <1>6 DEF Counted
    <3>1. k \in 0..PageNum(i) /\ PageOf(i, k) \in Nat
      BY <1>1, RegionType, PageOfType
    <3>2. CASE PageOf(i, k) < index
      <4>1. share[i][k] = PageOf(i, k)
        BY <1>1, <2>1, <3>2 DEF ShareSoFar, Counted
      <4>. QED  BY <1>10, <3>1, <4>1
    <3>3. CASE ~(PageOf(i, k) < index)
      <4>1. PageOf(i, k) \in index..index + got - 1
        BY <1>4, <1>5, <3>1, <3>3
      <4>2. lost = {}
        BY <1>7, <1>12
      <4>. QED  BY <1>10, <3>1, <4>1, <4>2
    <3>. QED  BY <3>2, <3>3
  <2>6. index' + count' = Region[i].end
    BY <1>3, <1>4, <1>5
  <2>7. ShareSoFar'
    BY <1>1, <1>6, <2>4, <2>5, <2>6 DEF ShareSoFar
  <2>. QED  BY <2>2, <2>7
<1>. QED  BY <1>0, <1>11, <1>12 DEF FullInv, SoFar

\* The other steps.
LEMMA NextFullInv == FullInv /\ [PStep]_pvars => FullInv'
<1>. SUFFICES ASSUME FullInv, [PStep]_pvars PROVE FullInv'
  OBVIOUS
<1>0. PInv /\ PTypeOK /\ PInv' /\ Len(Region) \in Nat /\ MaxFault \in Nat
  BY NextPInv, PagesAssumption DEF FullInv
<1>f. faults \in Nat /\ faults <= MaxFault /\ i \in 1..Len(Region) + 1
  BY <1>0 DEF PTypeOK
<1>j. \A j \in Index : j \in Nat /\ j < Len(Region) + 1
  BY <1>0 DEF Index
<1>1. CASE ReadPage
  BY <1>1, ReadPageFull
<1>2. CASE ReadFault
  <2>1. i \in Index /\ phase = "hash" /\ addr < Region[i].end /\ addr' = addr + 1
        /\ UNCHANGED <<phase, i, pos, idx, index, count, hash, share>>
        /\ \/ pos \in Unreadable /\ faults' = faults
           \/ faults < MaxFault /\ faults' = faults + 1
    BY <1>2 DEF ReadFault, Reading
  <2>2. addr' \in Nat
    BY <1>0, <2>1, SMTT(30) DEF PTypeOK
  <2>3. faults' \in Nat /\ faults' <= MaxFault /\ (faults' = 0 => faults = 0 /\ pos \in Unreadable)
    BY <1>0, <1>f, <2>1
  <2>4. PTypeOK'
    BY <1>0, <2>1, <2>2, <2>3 DEF PTypeOK
  <2>5. SoFar'
    BY <2>1, <2>3 DEF FullInv, SoFar, HashSoFar, ShareSoFar, Hashed, Counted
  <2>. QED  BY <1>0, <2>4, <2>5 DEF FullInv
<1>3. CASE NextRegion
  <2>1. /\ phase = "hash" /\ i \in Index /\ ~Reading /\ Begin(i + 1)
        /\ UNCHANGED <<phase, hash, share, faults>>
    BY <1>3 DEF NextRegion
  <2>2. i + 1 \in 1..Len(Region) + 1
    BY <1>0, <2>1 DEF Index
  <2>3. /\ i' \in 1..Len(Region) + 1 /\ {addr', pos', idx', index', count'} \subseteq Nat
        /\ i' = i + 1 /\ idx' = 0 /\ addr' = pos'
    BY <2>1, <2>2, BeginFull
  <2>4. PTypeOK'
    BY <1>0, <2>1, <2>3 DEF PTypeOK
  <2>5. ASSUME faults' = 0 PROVE HashSoFar' /\ ShareSoFar'
    <3>1. HashSoFar /\ Hashed(i)
      BY <2>1, <2>5, RegionHashed DEF FullInv, SoFar
    <3>2. \A j \in Index : j < i + 1 => j < i \/ j = i
      BY <1>f, <1>j
    <3>3. \A j \in Index : j < i' => Hashed(j)'
      BY <2>1, <2>3, <3>1, <3>2 DEF HashSoFar, Hashed
    <3>4. \A k \in 0..idx' - 1 : FALSE
      BY <2>3
    <3>5. HashSoFar'
      BY <2>1, <2>3, <3>3, <3>4 DEF HashSoFar
    <3>. QED  BY <2>1, <3>5 DEF ShareSoFar
  <2>. QED  BY <1>0, <2>4, <2>5 DEF FullInv, SoFar
<1>4. CASE ReadDone
  <2>1. /\ phase = "hash" /\ i \notin Index /\ phase' = "share" /\ Begin(1)
        /\ UNCHANGED <<hash, share, faults>>
    BY <1>4 DEF ReadDone
  <2>2. 1 \in 1..Len(Region) + 1
    BY <1>0
  <2>3. i' \in 1..Len(Region) + 1 /\ {addr', pos', idx', index', count'} \subseteq Nat /\ i' = 1
    BY <2>1, <2>2, BeginFull
  <2>4. PTypeOK'
    BY <1>0, <2>1, <2>3 DEF PTypeOK
  <2>5. ASSUME faults' = 0 PROVE HashSoFar' /\ ShareSoFar'
    <3>1. HashSoFar
      BY <2>1, <2>5 DEF FullInv, SoFar
    <3>2. i = Len(Region) + 1
      BY <1>0, <1>f, <2>1 DEF Index
    <3>3. HashSoFar'
      BY <1>j, <2>1, <3>1, <3>2 DEF HashSoFar, Hashed
    <3>4. \A j \in Index : ~(j < i')
      BY <1>0, <2>3 DEF Index
    <3>5. ASSUME i' \in Index PROVE Counted(i, index)' /\ index' + count' = Region[i'].end
      <4>1. index' = Region[i'].start /\ index' + count' = Region[i'].end
        BY <2>1, <2>2, <2>3, <3>5, BeginFull
      <4>2. \A k \in 0..PageNum(i') - 1 : ~(PageOf(i', k) < Region[i'].start)
        BY <3>5, RegionType DEF PageOf
      <4>. QED  BY <4>1, <4>2 DEF Counted
    <3>6. ShareSoFar'
      BY <2>1, <3>4, <3>5 DEF ShareSoFar
    <3>. QED  BY <3>3, <3>6
  <2>. QED  BY <1>0, <2>4, <2>5 DEF FullInv, SoFar
<1>5. CASE ScanBatch
  BY <1>5, ScanBatchFull
<1>6. CASE ScanBreak
  <2>1. faults < MaxFault /\ faults' = faults + 1 /\ count' = 0
        /\ UNCHANGED <<phase, i, addr, pos, idx, index, hash, share>>
    BY <1>6 DEF ScanBreak
  <2>2. faults' \in Nat /\ faults' <= MaxFault /\ faults' # 0
    BY <1>0, <1>f, <2>1
  <2>. QED  BY <1>0, <2>1, <2>2 DEF FullInv, SoFar, PTypeOK
<1>7. CASE NextPagemap
  <2>1. /\ phase = "share" /\ i \in Index /\ ~(count > 0) /\ Begin(i + 1)
        /\ UNCHANGED <<phase, hash, share, faults>>
    BY <1>7 DEF NextPagemap, Scanning
  <2>2. i + 1 \in 1..Len(Region) + 1
    BY <1>0, <2>1 DEF Index
  <2>3. i' \in 1..Len(Region) + 1 /\ {addr', pos', idx', index', count'} \subseteq Nat /\ i' = i + 1
    BY <2>1, <2>2, BeginFull
  <2>4. PTypeOK'
    BY <1>0, <2>1, <2>3 DEF PTypeOK
  <2>5. ASSUME faults' = 0 PROVE HashSoFar' /\ ShareSoFar'
    <3>1. HashSoFar /\ ShareSoFar
      BY <2>1, <2>5 DEF FullInv, SoFar
    <3>2. index = Region[i].end
      <4>1. count \in Nat /\ index \in Nat
        BY <1>0 DEF PTypeOK
      <4>2. index + count = Region[i].end
        BY <2>1, <3>1 DEF ShareSoFar
      <4>. QED  BY <2>1, <4>1, <4>2
    <3>3. HashSoFar'
      BY <2>1, <3>1 DEF HashSoFar, Hashed
    <3>4. \A j \in Index : j < i + 1 => j < i \/ j = i
      BY <1>f, <1>j
    <3>5. \A j \in Index : j < i' => Counted(j, Region[j].end)'
      BY <2>1, <2>3, <3>1, <3>2, <3>4 DEF ShareSoFar, Counted
    <3>6. ASSUME i' \in Index PROVE Counted(i, index)' /\ index' + count' = Region[i'].end
      <4>1. index' = Region[i'].start /\ index' + count' = Region[i'].end
        BY <2>1, <2>2, <2>3, <3>6, BeginFull
      <4>2. \A k \in 0..PageNum(i') - 1 : ~(PageOf(i', k) < Region[i'].start)
        BY <3>6, RegionType DEF PageOf
      <4>. QED  BY <4>1, <4>2 DEF Counted
    <3>7. ShareSoFar'
      BY <2>1, <3>5, <3>6 DEF ShareSoFar
    <3>. QED  BY <3>3, <3>7
  <2>. QED  BY <1>0, <2>4, <2>5 DEF FullInv, SoFar
<1>8. CASE ScanDone
  <2>1. phase = "share" /\ i \notin Index /\ phase' = "done"
        /\ UNCHANGED <<i, addr, pos, idx, index, count, hash, share, faults>>
    BY <1>8 DEF ScanDone
  <2>2. i = Len(Region) + 1
    BY <1>0, <1>f, <2>1 DEF Index
  <2>3. PTypeOK'
    BY <1>0, <2>1 DEF PTypeOK
  <2>4. SoFar'
    BY <1>j, <2>1, <2>2 DEF FullInv, SoFar, HashSoFar, ShareSoFar, Hashed, Counted
  <2>. QED  BY <1>0, <2>3, <2>4 DEF FullInv
<1>9. CASE ScanFatal
  <2>1. phase' = "exited" /\ UNCHANGED <<i, addr, pos, idx, index, count, hash>> /\ Scanning
    BY <1>9 DEF ScanFatal
  <2>2. PICK got \in 0..batch - 1 : \E lost \in Lost(got) :
            /\ faults + Cardinality(lost) < MaxFault /\ share' = walk_pfn(got, lost)
            /\ faults' = faults + Cardinality(lost) + 1
    BY <1>9 DEF ScanFatal
  <2>3. PICK lost \in Lost(got) :
            /\ faults + Cardinality(lost) < MaxFault /\ share' = walk_pfn(got, lost)
            /\ faults' = faults + Cardinality(lost) + 1
    BY <2>2
  <2>4. Cardinality(lost) \in Nat
    BY <1>0, <2>2, LostCount
  <2>5. faults' \in Nat /\ faults' <= MaxFault /\ faults' # 0
    BY <1>0, <1>f, <2>3, <2>4
  <2>6. /\ DOMAIN share' = Index
        /\ \A j \in Index : share'[j] \in [0..numPages(j) - 1 -> Pages \cup {Junk}]
    BY <1>0, <2>1, <2>3, WalkType
  <2>7. PTypeOK'
    BY <1>0, <2>1, <2>5, <2>6, SMTT(30) DEF PTypeOK
  <2>. QED  BY <1>0, <2>5, <2>7 DEF FullInv, SoFar
<1>10. CASE UNCHANGED pvars
  BY <1>0, <1>10 DEF FullInv, PTypeOK, SoFar, HashSoFar, ShareSoFar, Hashed, Counted, pvars
<1>. QED  BY <1>1, <1>2, <1>3, <1>4, <1>5, <1>6, <1>7, <1>8, <1>9, <1>10 DEF PStep

\* Type correctness: every loop variable, array element and offset stays in its
\* range, whatever the reads return.
THEOREM PagesType == PSpec => []PTypeOK
<1>1. FullInv => PTypeOK
  BY DEF FullInv
<1>. QED  BY <1>1, InitFullInv, NextFullInv, PTL DEF PSpec

\* With no read that failed needlessly, the pages in front of the first
\* unreadable one of a region have their hashes and the pages with a frame
\* their counts, however pagemap_read splits the entries.
THEOREM Complete == PSpec => []CompleteWithoutFaults
<1>1. FullInv => CompleteWithoutFaults
  <2>. SUFFICES ASSUME FullInv, phase = "done", faults = 0, NEW j \in Index, NEW k \in 0..PageNum(j) - 1
                PROVE  /\ (Region[j].start..PageOf(j, k)) \cap Unreadable = {} => hash[j][k] = PageOf(j, k)
                       /\ PageOf(j, k) \in Present => share[j][k] = PageOf(j, k)
    BY DEF CompleteWithoutFaults, Entry
  <2>1. Hashed(j) /\ Counted(j, Region[j].end)
    BY DEF FullInv, SoFar, HashSoFar, ShareSoFar
  <2>2. PageOf(j, k) < Region[j].end
    BY PageOfType
  <2>. QED  BY <2>1, <2>2 DEF Hashed, Counted
<1>. QED  BY <1>1, InitFullInv, NextFullInv, PTL DEF PSpec

-----------------------------------------------------------------------------
(* The lines of swapped pages.                                              *)

RegionPages(j) == Region[j].start..Region[j].end - 1

\* The scan has passed the entry of page a.
Passed(a) ==
    \/ phase \in {"done", "exited"}
    \/ phase = "share" /\ \E j \in Index : a \in RegionPages(j) /\ (j < i \/ (j = i /\ a < index))

\* A page has been shown at most once, and not before the scan has passed it; of
\* the swapped pages passed none is missing as long as nothing has failed.
ShownOK ==
    /\ DOMAIN shown = Pages
    /\ \A a \in Pages : /\ shown[a] # << >> => a \in Swapped /\ shown[a] = <<walk_swap(a)>> /\ Passed(a)
                        /\ faults = 0 /\ a \in Swapped /\ Passed(a) => shown[a] # << >>

SwapInv == FullInv /\ ShownOK

\* The flags that walk_swap prints come from the entry alone, one for each bit.
LEMMA SwapLine ==
    ASSUME NEW a \in Pages
    PROVE  Cardinality(walk_swap(a)) = Cardinality(Pme[a]) /\ Nameable(walk_swap(a))
<1>. DEFINE kpf(bit) == CASE bit = PM_SOFT_DIRTY -> 40
                          [] bit = PM_FILE -> 61
                          [] bit = PM_SWAP -> 62
                          [] bit = PM_MMAP_EXCLUSIVE -> 63
            line == {kpf(bit) : bit \in Pme[a]}
            f == [bit \in Pme[a] |-> kpf(bit)]
<1>1. Pme[a] \subseteq {PM_SOFT_DIRTY, PM_MMAP_EXCLUSIVE, PM_FILE, PM_SWAP}
  BY PagesAssumption
<1>2. walk_swap(a) = line
  BY DEF walk_swap, kpageflags_flags, Overload
<1>3. \A bit \in Pme[a] : kpf(bit) \in {40, 61, 62, 63}
  BY <1>1 DEF PM_SOFT_DIRTY, PM_MMAP_EXCLUSIVE, PM_FILE, PM_SWAP
<1>4. \A b, c \in Pme[a] : kpf(b) = kpf(c) => b = c
  BY <1>1 DEF PM_SOFT_DIRTY, PM_MMAP_EXCLUSIVE, PM_FILE, PM_SWAP
<1>5. Nameable(line)
  <2>1. {40, 61, 62, 63} \subseteq page_flag_names
    BY DEF page_flag_names
  <2>2. line \subseteq page_flag_names
    <3>. HIDE DEF kpf
    <3>. QED  BY <1>3, <2>1
  <2>. QED  BY <2>2 DEF Nameable
<1>6. f \in Bijection(Pme[a], line)
  <2>. HIDE DEF kpf
  <2>. QED  BY <1>4 DEF Bijection, Injection, Surjection, IsInjective
<1>7. IsFiniteSet(Pme[a])
  <2>1. IsFiniteSet({PM_SOFT_DIRTY, PM_MMAP_EXCLUSIVE, PM_FILE, PM_SWAP})
    <3>1. PM_SOFT_DIRTY \in 0..63 /\ PM_MMAP_EXCLUSIVE \in 0..63 /\ PM_FILE \in 0..63 /\ PM_SWAP \in 0..63
      BY DEF PM_SOFT_DIRTY, PM_MMAP_EXCLUSIVE, PM_FILE, PM_SWAP
    <3>2. IsFiniteSet(0..63)
      <4>1. 0 \in Int /\ 63 \in Int
        OBVIOUS
      <4>. QED  BY <4>1, FS_Interval, Zenon
    <3>. QED  BY <3>1, <3>2, FS_Subset
  <2>. QED  BY <1>1, <2>1, FS_Subset
<1>8. Cardinality(line) = Cardinality(Pme[a])
  <2>. HIDE DEF line, f
  <2>1. ExistsBijection(Pme[a], line)
    BY <1>6 DEF ExistsBijection
  <2>. QED  BY <1>7, <2>1, FS_Bijection
<1>. QED  BY <1>2, <1>5, <1>8

\* What ShownOK says of the pages that no line is printed of in a step.
LEMMA ShownKept ==
    ASSUME SwapInv, shown' = shown, NEW a \in Pages,
           Passed(a) => Passed(a)',
           faults' = 0 /\ Passed(a)' => faults = 0 /\ Passed(a)
    PROVE  /\ shown'[a] # << >> => a \in Swapped /\ shown'[a] = <<walk_swap(a)>> /\ Passed(a)'
           /\ faults' = 0 /\ a \in Swapped /\ Passed(a)' => shown'[a] # << >>
BY DEF SwapInv, ShownOK

LEMMA InitSwapInv == PInit => SwapInv
<1>. SUFFICES ASSUME PInit PROVE SwapInv
  OBVIOUS
<1>1. FullInv
  BY InitFullInv
<1>2. ShownOK
  BY DEF PInit, ShownOK, Passed
<1>. QED  BY <1>1, <1>2 DEF SwapInv

\* The scan has not passed what is left of its region: regions do not overlap.
LEMMA NotShown ==
    ASSUME SwapInv, Scanning, NEW a \in Pages, index <= a, a < index + count
    PROVE  ~Passed(a) /\ shown[a] = << >>
<1>1. phase = "share" /\ i \in Index /\ count > 0 /\ Index = 1..Len(Region) /\ Len(Region) \in Nat
  BY PagesAssumption DEF Scanning, Index
<1>2. /\ index \in Nat /\ count \in Nat /\ Region[i].start <= index
      /\ index + count = Region[i].end /\ Region[i].start \in Nat /\ Region[i].end \in Nat
  BY <1>1, RegionType DEF SwapInv, FullInv, PInv, ScanOK
<1>3. ASSUME NEW j \in Index, a \in RegionPages(j) PROVE j = i
  <2>1. Region[j].start \in Nat /\ Region[j].end \in Nat /\ j \in Nat /\ i \in Nat
    BY <1>1, RegionType
  <2>2. /\ j < i => Region[j].end <= Region[i].start
        /\ i < j => Region[i].end <= Region[j].start
    BY <1>1, PagesAssumption
  <2>3. a \in Nat /\ Region[j].start <= a /\ a < Region[j].end
    BY <1>3, <2>1 DEF RegionPages
  <2>. QED  BY <1>2, <2>1, <2>2, <2>3
<1>4. ~Passed(a)
  <2>1. PICK j \in Index : a \in RegionPages(j)
    BY DEF Pages, RegionPages
  <2>2. a \in Nat
    BY <1>2, <1>3, <2>1 DEF RegionPages
  <2>3. ~(i < i) /\ ~(a < index)
    BY <1>1, <1>2, <2>2
  <2>. QED  BY <1>1, <1>3, <2>3 DEF Passed
<1>. QED  BY <1>4 DEF SwapInv, ShownOK

\* A batch shows the swapped pages in it, which no earlier batch has shown because
\* regions do not overlap.
LEMMA ScanBatchShown == SwapInv /\ ScanBatch => ShownOK'
<1>. SUFFICES ASSUME SwapInv, ScanBatch PROVE ShownOK'
  OBVIOUS
<1>1. i \in Index /\ phase = "share" /\ count > 0 /\ phase' = phase /\ i' = i
  BY DEF ScanBatch, Scanning
<1>2. PICK got \in 1..batch : \E lost \in Lost(got) :
            shown' = SwapLines(got) /\ index' = index + got /\ faults' = faults + Cardinality(lost)
  BY DEF ScanBatch
<1>3. /\ index \in Nat /\ count \in Nat /\ Region[i].start <= index
      /\ index + count = Region[i].end /\ Region[i].start \in Nat /\ Region[i].end \in Nat
  BY <1>1, RegionType DEF SwapInv, FullInv, PInv, ScanOK
<1>4. got \in Nat /\ got <= count /\ got >= 1
  BY <1>2, <1>3, PagesAssumption DEF batch
<1>5. faults \in Nat /\ (faults' = 0 => faults = 0)
  <2>1. faults \in Nat
    BY DEF SwapInv, FullInv, PTypeOK
  <2>2. PICK lost \in Lost(got) : faults' = faults + Cardinality(lost)
    BY <1>2
  <2>3. IsFiniteSet(lost)
    <3>1. lost \subseteq index..index + got - 1
      BY <2>2 DEF Lost
    <3>2. IsFiniteSet(index..index + got - 1)
      <4>1. index \in Int /\ index + got - 1 \in Int
        BY <1>3, <1>4
      <4>. QED  BY <4>1, FS_Interval, Zenon
    <3>. QED  BY <3>1, <3>2, FS_Subset
  <2>4. Cardinality(lost) \in Nat
    BY <2>3, FS_CardinalityType
  <2>. QED  BY <2>1, <2>2, <2>4
<1>6. DOMAIN shown' = Pages
  BY <1>2 DEF SwapLines
<1>7. ASSUME NEW a \in Pages
      PROVE  /\ shown'[a] # << >> => a \in Swapped /\ shown'[a] = <<walk_swap(a)>> /\ Passed(a)'
             /\ faults' = 0 /\ a \in Swapped /\ Passed(a)' => shown'[a] # << >>
  <2>1. PICK r \in Index : a \in RegionPages(r)
    BY DEF Pages, RegionPages
  <2>2. Region[r].start \in Nat /\ Region[r].end \in Nat /\ r \in Nat /\ i \in Nat /\ a \in Nat
    <3>1. Index = 1..Len(Region) /\ Len(Region) \in Nat
      BY PagesAssumption DEF Index
    <3>2. Region[r].start \in Nat /\ Region[r].end \in Nat
      BY <2>1, RegionType
    <3>. QED  BY <1>1, <2>1, <3>1, <3>2 DEF RegionPages
  <2>3. ASSUME NEW j \in Index, a \in RegionPages(j) PROVE j = r
    <3>1. Region[j].start \in Nat /\ Region[j].end \in Nat /\ j \in Nat
      <4>1. Index = 1..Len(Region) /\ Len(Region) \in Nat
        BY PagesAssumption DEF Index
      <4>. QED  BY <2>3, <4>1, RegionType
    <3>2. /\ j < r => Region[j].end <= Region[r].start
          /\ r < j => Region[r].end <= Region[j].start
      BY <2>1, <2>3, PagesAssumption
    <3>3. Region[r].start <= a /\ a < Region[r].end /\ Region[j].start <= a /\ a < Region[j].end
      BY <2>1, <2>2, <2>3, <3>1 DEF RegionPages
    <3>. QED  BY <2>2, <3>1, <3>2, <3>3
  <2>4. Passed(a) <=> r < i \/ (r = i /\ a < index)
    BY <1>1, <2>1, <2>3 DEF Passed
  <2>5. Passed(a)' <=> r < i \/ (r = i /\ a < index + got)
    BY <1>1, <1>2, <2>1, <2>3 DEF Passed
  <2>6. CASE a \in index..index + got - 1
    <3>1. a \in RegionPages(i)
      BY <1>3, <1>4, <2>2, <2>6 DEF RegionPages
    <3>2. r = i
      BY <1>1, <2>3, <3>1
    <3>3. ~Passed(a) /\ Passed(a)'
      BY <1>3, <1>4, <2>2, <2>4, <2>5, <2>6, <3>2
    <3>4. shown[a] = << >>
      BY <3>3 DEF SwapInv, ShownOK
    <3>5. CASE a \in Swapped
      <4>1. shown'[a] = Append(shown[a], walk_swap(a))
        BY <1>2, <2>6, <3>5 DEF SwapLines
      <4>2. shown'[a] = <<walk_swap(a)>>
        BY <3>4, <4>1
      <4>3. shown'[a] # << >>
        BY <4>2
      <4>. QED  BY <3>3, <3>5, <4>2, <4>3
    <3>6. CASE a \notin Swapped
      BY <1>2, <3>4, <3>6 DEF SwapLines
    <3>. QED  BY <3>5, <3>6
  <2>7. CASE a \notin index..index + got - 1
    <3>1. shown'[a] = shown[a]
      BY <1>2, <2>7 DEF SwapLines
    <3>2. Passed(a) <=> Passed(a)'
      <4>1. ~(a < index) => ~(a < index + got)
        BY <1>3, <1>4, <2>2, <2>7
      <4>2. a < index => a < index + got
        BY <1>3, <1>4, <2>2
      <4>. QED  BY <2>4, <2>5, <4>1, <4>2
    <3>. QED  BY <1>5, <3>1, <3>2 DEF SwapInv, ShownOK
  <2>. QED  BY <2>6, <2>7
<1>. QED  BY <1>6, <1>7 DEF ShownOK

\* Going on to the next region passes nothing that has not been scanned, unless a
\* read has failed.
LEMMA NextPagemapShown == SwapInv /\ NextPagemap => ShownOK'
<1>. SUFFICES ASSUME SwapInv, NextPagemap PROVE ShownOK'
  OBVIOUS
<1>1. /\ phase = "share" /\ phase' = phase /\ i \in Index /\ ~(count > 0)
      /\ shown' = shown /\ faults' = faults /\ Begin(i + 1)
  BY DEF NextPagemap, Scanning
<1>2. i \in Nat /\ i' = i + 1 /\ Len(Region) \in Nat
  BY <1>1, PagesAssumption DEF Begin, Index
<1>3. faults = 0 => index = Region[i].end
  BY <1>1, RegionType DEF SwapInv, FullInv, SoFar, ShareSoFar, PTypeOK
<1>. SUFFICES ASSUME NEW a \in Pages
              PROVE  (Passed(a) => Passed(a)') /\ (faults' = 0 /\ Passed(a)' => faults = 0 /\ Passed(a))
  BY <1>1, ShownKept DEF SwapInv, ShownOK
<1>4. ASSUME Passed(a) PROVE Passed(a)'
  <2>1. PICK j \in Index : a \in RegionPages(j) /\ (j < i \/ j = i)
    BY <1>1, <1>4 DEF Passed
  <2>2. j < i' /\ j \in Nat
    BY <1>2, <2>1 DEF Index
  <2>. QED  BY <1>1, <2>1, <2>2 DEF Passed
<1>5. ASSUME faults' = 0, Passed(a)' PROVE Passed(a)
  <2>1. PICK j \in Index : a \in RegionPages(j) /\ (j < i' \/ (j = i' /\ a < index'))
    BY <1>1, <1>5 DEF Passed
  <2>2. j \in Nat /\ Region[j].start \in Nat /\ Region[j].end \in Nat /\ a \in Nat
    BY <2>1, RegionType, PagesAssumption DEF Index, RegionPages
  <2>3. ~(j = i' /\ a < index')
    BY <1>1, <1>2, <2>1, <2>2 DEF Begin, Start, RegionPages
  <2>4. j < i \/ j = i
    BY <1>2, <2>1, <2>2, <2>3
  <2>5. j = i => a < index
    BY <1>1, <1>3, <1>5, <2>1, <2>2 DEF RegionPages
  <2>. QED  BY <1>1, <2>1, <2>4, <2>5 DEF Passed
<1>. QED  BY <1>1, <1>4, <1>5

\* Every step keeps what has been shown in step with the scan.
LEMMA NextSwapInv == SwapInv /\ [PStep]_pvars => SwapInv'
<1>. SUFFICES ASSUME SwapInv, [PStep]_pvars PROVE ShownOK'
  BY NextFullInv DEF SwapInv
<1>0. /\ Len(Region) \in Nat /\ Index = 1..Len(Region) /\ faults \in Nat
      /\ i \in 1..Len(Region) + 1 /\ DOMAIN shown = Pages
  BY PagesAssumption DEF SwapInv, FullInv, PTypeOK, ShownOK, Index
<1>1. CASE ReadPage
  BY <1>0, <1>1, ShownKept DEF ReadPage, Reading, Passed, ShownOK
<1>2. CASE ReadFault
  BY <1>0, <1>2, ShownKept DEF ReadFault, Reading, Passed, ShownOK
<1>3. CASE NextRegion
  BY <1>0, <1>3, ShownKept DEF NextRegion, Passed, ShownOK
<1>4. CASE ReadDone
  <2>1. phase = "hash" /\ phase' = "share" /\ shown' = shown /\ faults' = faults /\ Begin(1)
    BY <1>4 DEF ReadDone
  <2>2. ASSUME NEW a \in Pages PROVE ~Passed(a)'
    <3>. SUFFICES ASSUME NEW j \in Index, a \in RegionPages(j), j < 1 \/ (j = 1 /\ a < index') PROVE FALSE
      BY <2>1 DEF Passed, Begin
    <3>1. j = 1 /\ a < Region[1].start
      BY <1>0, <2>1 DEF Begin, Start
    <3>. QED  BY <3>1, RegionType DEF RegionPages
  <2>3. \A a \in Pages : ~Passed(a)
    BY <2>1 DEF Passed
  <2>. QED  BY <1>0, <2>1, <2>2, <2>3, ShownKept DEF ShownOK
<1>5. CASE ScanBatch
  BY <1>5, ScanBatchShown
<1>6. CASE ScanBreak
  <2>1. shown' = shown /\ faults' # 0 /\ UNCHANGED <<phase, i, index>>
    BY <1>0, <1>6 DEF ScanBreak
  <2>. QED  BY <1>0, <2>1, ShownKept DEF Passed, ShownOK
<1>7. CASE NextPagemap
  BY <1>7, NextPagemapShown
<1>8. CASE ScanDone
  <2>1. phase = "share" /\ i \notin Index /\ phase' = "done" /\ shown' = shown /\ faults' = faults
    BY <1>8 DEF ScanDone
  <2>2. ASSUME NEW a \in Pages PROVE Passed(a)
    <3>1. PICK j \in Index : a \in RegionPages(j)
      BY DEF Pages, RegionPages
    <3>2. j < i
      BY <1>0, <2>1, <3>1
    <3>. QED  BY <2>1, <3>1, <3>2 DEF Passed
  <2>3. \A a \in Pages : Passed(a)'
    BY <2>1 DEF Passed
  <2>. QED  BY <1>0, <2>1, <2>2, <2>3, ShownKept DEF ShownOK
<1>9. CASE ScanFatal
  <2>1. Scanning /\ phase' = "exited" /\ index \in Nat /\ count \in Nat /\ PTypeOK
    BY <1>9 DEF ScanFatal, SwapInv, FullInv, PTypeOK
  <2>2. PICK got \in 0..batch - 1 : \E lost \in Lost(got) :
            shown' = SwapLines(got) /\ faults' = faults + Cardinality(lost) + 1
    BY <1>9 DEF ScanFatal
  <2>3. got \in Nat /\ got <= count
    BY <2>1, <2>2, PagesAssumption DEF batch
  <2>4. faults' # 0
    BY <1>0, <2>1, <2>2, <2>3, LostCount
  <2>5. ASSUME NEW a \in Pages, shown'[a] # << >>
        PROVE  a \in Swapped /\ shown'[a] = <<walk_swap(a)>>
    <3>1. CASE a \in Swapped \cap (index..index + got - 1)
      <4>1. index <= a /\ a < index + count
        BY <2>1, <2>3, <3>1
      <4>2. shown[a] = << >>
        BY <2>1, <4>1, NotShown
      <4>3. shown'[a] = Append(shown[a], walk_swap(a))
        BY <2>2, <3>1 DEF SwapLines
      <4>4. shown'[a] = <<walk_swap(a)>>
        BY <4>2, <4>3
      <4>. QED  BY <3>1, <4>4
    <3>2. CASE a \notin Swapped \cap (index..index + got - 1)
      BY <2>2, <2>5, <3>2 DEF SwapLines, SwapInv, ShownOK
    <3>. QED  BY <3>1, <3>2
  <2>6. \A a \in Pages : Passed(a)'
    BY <2>1 DEF Passed
  <2>7. DOMAIN shown' = Pages
    BY <2>2 DEF SwapLines
  <2>8. \A a \in Pages :
            /\ shown'[a] # << >> => a \in Swapped /\ shown'[a] = <<walk_swap(a)>> /\ Passed(a)'
            /\ faults' = 0 /\ a \in Swapped /\ Passed(a)' => shown'[a] # << >>
    BY <2>4, <2>5, <2>6
  <2>. QED  BY <2>7, <2>8 DEF ShownOK
<1>10. CASE UNCHANGED pvars
  BY <1>0, <1>10, ShownKept DEF pvars, Passed, ShownOK
<1>. QED  BY <1>1, <1>2, <1>3, <1>4, <1>5, <1>6, <1>7, <1>8, <1>9, <1>10 DEF PStep

\* walk_swap prints one line of every swapped page and no second one, however the
\* entries are split over batches, and every bit in it has a name.
THEOREM SwapLinesOnce == PSpec => []SwapShownOnce
<1>1. SwapInv => SwapShownOnce
  <2>. SUFFICES ASSUME SwapInv, NEW a \in Pages
                PROVE  /\ Len(shown[a]) <= IF a \in Swapped THEN 1 ELSE 0
                       /\ \A k \in 1..Len(shown[a]) :
                            /\ Cardinality(shown[a][k]) = Cardinality(Pme[a])
                            /\ Nameable(shown[a][k])
                       /\ phase = "done" /\ faults = 0 /\ a \in Swapped => Len(shown[a]) = 1
    BY DEF SwapShownOnce
  <2>1. shown[a] = << >> \/ (a \in Swapped /\ shown[a] = <<walk_swap(a)>>)
    BY DEF SwapInv, ShownOK
  <2>2. phase = "done" /\ faults = 0 /\ a \in Swapped => shown[a] = <<walk_swap(a)>>
    BY DEF SwapInv, ShownOK, Passed
  <2>3. CASE shown[a] = << >>
    BY <2>2, <2>3
  <2>4. CASE a \in Swapped /\ shown[a] = <<walk_swap(a)>>
    <3>1. Len(shown[a]) = 1 /\ shown[a][1] = walk_swap(a)
      BY <2>4
    <3>2. \A k \in 1..Len(shown[a]) : shown[a][k] = walk_swap(a)
      BY <3>1
    <3>. QED  BY <2>4, <3>1, <3>2, SwapLine
  <2>. QED  BY <2>1, <2>3, <2>4
<1>. QED  BY <1>1, InitSwapInv, NextSwapInv, PTL DEF PSpec
=============================================================================
