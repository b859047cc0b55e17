---------------------------- MODULE ToolRunProofs ----------------------------
(* Theorems about ToolRun, for any number of processes, any regions and any *)
(* pages.                                                                   *)
EXTENDS ToolRun, MainsProofs, WellFoundedInduction, FiniteSetTheorems, SequenceTheorems

-----------------------------------------------------------------------------
(* The table of descriptors.                                                *)

Name == {"maps", "mem", "pagemap", "kpageflags", "kpagecount"}

\* Everything that a descriptor can be open for.
File == Range(Std) \cup (Name \X Target)

\* A table in which every file is open at most once.
IsTable(t) == DOMAIN t \subseteq 0..MaxFd /\ IsInjective(t) /\ Range(t) \subseteq File

\* There are 0, 1 and 2, and the files of each process.
LEMMA FileCount == /\ IsFiniteSet(File) /\ Cardinality(File) < Cardinality(0..MaxFd)
                   /\ IsFiniteSet(0..MaxFd) /\ MaxFd \in Nat
<1>. DEFINE n == Len(Pids)
<1>1. n \in Nat /\ MaxFd = 3 + 5 * n
  BY PidsType DEF MaxFd
<1>2. IsFiniteSet(Target) /\ Cardinality(Target) = n
  <2>1. Pids \in Bijection(1..n, Target)
    <3>1. Pids \in [1..n -> Target]
      <4>1. Pids \in Seq(Target)
        BY MainsAssumption
      <4>. QED  BY <4>1
    <3>2. IsInjective(Pids)
      BY MainsAssumption
    <3>3. \A q \in Target : \E j \in 1..n : Pids[j] = q
      BY PidsType
    <3>. QED  BY <3>1, <3>2, <3>3 DEF Bijection, Injection, Surjection
  <2>2. ExistsBijection(1..n, Target)
    BY <2>1 DEF ExistsBijection
  <2>3. IsFiniteSet(1..n) /\ Cardinality(1..n) = n
    <3>0. 1 \in Int /\ n \in Int
      BY <1>1
    <3>1. IsFiniteSet(1..n) /\ Cardinality(1..n) = IF 1 > n THEN 0 ELSE n - 1 + 1
      BY <3>0, FS_Interval, Zenon
    <3>. QED  BY <1>1, <3>1
  <2>. QED  BY <2>2, <2>3, FS_Bijection
<1>3. IsFiniteSet(Name) /\ Cardinality(Name) = 5
  <2>1. IsFiniteSet({}) /\ Cardinality({}) = 0
    BY FS_EmptySet
  <2>2. IsFiniteSet({"maps"}) /\ Cardinality({"maps"}) = 1
    BY FS_Singleton
  <2>3. IsFiniteSet({"maps", "mem"}) /\ Cardinality({"maps", "mem"}) = 2
    <3>1. {"maps", "mem"} = {"maps"} \cup {"mem"} /\ "mem" \notin {"maps"}
      OBVIOUS
    <3>. QED  BY <2>2, <3>1, FS_AddElement
  <2>4. IsFiniteSet({"maps", "mem", "pagemap"}) /\ Cardinality({"maps", "mem", "pagemap"}) = 3
    <3>1. {"maps", "mem", "pagemap"} = {"maps", "mem"} \cup {"pagemap"} /\ "pagemap" \notin {"maps", "mem"}
      OBVIOUS
    <3>. QED  BY <2>3, <3>1, FS_AddElement
  <2>5. /\ IsFiniteSet({"maps", "mem", "pagemap", "kpageflags"})
        /\ Cardinality({"maps", "mem", "pagemap", "kpageflags"}) = 4
    <3>1. /\ {"maps", "mem", "pagemap", "kpageflags"} = {"maps", "mem", "pagemap"} \cup {"kpageflags"}
          /\ "kpageflags" \notin {"maps", "mem", "pagemap"}
      OBVIOUS
    <3>. QED  BY <2>4, <3>1, FS_AddElement
  <2>6. /\ Name = {"maps", "mem", "pagemap", "kpageflags"} \cup {"kpagecount"}
        /\ "kpagecount" \notin {"maps", "mem", "pagemap", "kpageflags"}
    BY DEF Name
  <2>. QED  BY <2>5, <2>6, FS_AddElement
<1>4. IsFiniteSet(Name \X Target) /\ Cardinality(Name \X Target) = 5 * n
  <2>1. /\ IsFiniteSet(Name \X Target)
        /\ Cardinality(Name \X Target) = Cardinality(Name) * Cardinality(Target)
    BY <1>2, <1>3, FS_Product
  <2>. QED  BY <1>2, <1>3, <2>1
<1>5. IsFiniteSet(Range(Std)) /\ Cardinality(Range(Std)) <= 3
  <2>1. Std \in Surjection(0..2, Range(Std))
    BY DEF Std, Range, Surjection
  <2>2. IsFiniteSet(0..2) /\ Cardinality(0..2) = 3
    <3>0. 0 \in Int /\ 2 \in Int
      OBVIOUS
    <3>1. IsFiniteSet(0..2) /\ Cardinality(0..2) = IF 0 > 2 THEN 0 ELSE 2 - 0 + 1
      BY <3>0, FS_Interval, Zenon
    <3>. QED  BY <3>1
  <2>. QED  BY <2>1, <2>2, FS_Surjection
<1>6. /\ IsFiniteSet(File) /\ IsFiniteSet(Range(Std) \cap (Name \X Target))
      /\ Cardinality(File) = Cardinality(Range(Std)) + Cardinality(Name \X Target)
                             - Cardinality(Range(Std) \cap (Name \X Target))
  BY <1>4, <1>5, FS_Union, FS_Intersection DEF File
<1>7. /\ Cardinality(Range(Std) \cap (Name \X Target)) \in Nat /\ Cardinality(Range(Std)) \in Nat
      /\ Cardinality(Name \X Target) \in Nat
  BY <1>4, <1>5, <1>6, FS_CardinalityType
<1>8. IsFiniteSet(0..MaxFd) /\ Cardinality(0..MaxFd) = MaxFd + 1
  BY <1>1, FS_Interval
<1>9. Cardinality(File) <= 3 + 5 * n
  BY <1>1, <1>4, <1>5, <1>6, <1>7
<1>. QED  BY <1>1, <1>6, <1>7, <1>8, <1>9

\* A set of numbers has a smallest.
LEMMA Least ==
    ASSUME NEW S \in SUBSET Nat, NEW m \in S
    PROVE  Min(S) \in S /\ \A y \in S : Min(S) <= y
<1>. DEFINE R == {ss \in Nat \X Nat : ss[1] < ss[2]}
<1>1. IsWellFoundedOn(R, Nat)
  BY NatLessThanWellFounded, Zenon DEF OpToRel
<1>2. PICK x \in S : \A y \in S : ~(<<y, x>> \in R)
  <2>. HIDE DEF R
  <2>. QED  BY <1>1, WFMin
<1>3. ASSUME NEW y \in S PROVE x <= y
  <2>1. <<y, x>> \notin R
    BY <1>2
  <2>2. x \in Nat /\ y \in Nat /\ <<y, x>> \in Nat \X Nat
    OBVIOUS
  <2>3. ~(y < x)
    BY <2>1, <2>2
  <2>. QED  BY <2>2, <2>3
<1>. QED  BY <1>2, <1>3 DEF Min

\* A table always has room for one more: open succeeds, with a descriptor that
\* was free.
LEMMA NewFdFree == ASSUME NEW t, IsTable(t) PROVE NewFd(t) \in (0..MaxFd) \ DOMAIN t
<1>1. \E m \in 0..MaxFd : m \notin DOMAIN t
  <2>. SUFFICES ASSUME \A m \in 0..MaxFd : m \in DOMAIN t PROVE FALSE
    OBVIOUS
  <2>1. DOMAIN t = 0..MaxFd
    BY DEF IsTable
  <2>. DEFINE f == [k \in 0..MaxFd |-> t[k]]
  <2>2. f \in [0..MaxFd -> File]
    BY <2>1 DEF IsTable, Range
  <2>3. f \in Injection(0..MaxFd, File)
    BY <2>1, <2>2 DEF IsTable, IsInjective, Injection
  <2>. HIDE DEF f
  <2>4. Cardinality(0..MaxFd) <= Cardinality(File)
    BY <2>3, FileCount, FS_Injection
  <2>. QED  BY <2>4, FileCount, FS_CardinalityType
<1>2. (0..MaxFd) \ DOMAIN t \in SUBSET Nat
  BY FileCount
<1>. QED  BY <1>1, <1>2, Least DEF NewFd

\* u is t with file opened at k.
OpenAt(t, u, k, file) ==
    /\ IsTable(u) /\ k \in 0..MaxFd /\ k \notin DOMAIN t
    /\ DOMAIN u = DOMAIN t \cup {k} /\ Range(u) = Range(t) \cup {file}
    /\ u[k] = file /\ \A m \in DOMAIN t : u[m] = t[m]

\* open
LEMMA OpenTable ==
    ASSUME NEW t, IsTable(t), NEW file \in File, file \notin Range(t)
    PROVE  OpenAt(t, Open(t, file), NewFd(t), file)
<1>. DEFINE u == Open(t, file)
            k == NewFd(t)
<1>1. k \in 0..MaxFd /\ k \notin DOMAIN t
  BY NewFdFree
<1>2. DOMAIN u = DOMAIN t \cup {k} /\ u[k] = file /\ \A m \in DOMAIN t : u[m] = t[m]
  BY <1>1 DEF Open
<1>. HIDE DEF u, k
<1>3. Range(u) = Range(t) \cup {file}
  BY <1>1, <1>2 DEF Range
<1>4. \A m \in DOMAIN t : t[m] # file
  BY DEF Range
<1>5. IsInjective(u)
  BY <1>1, <1>2, <1>4 DEF IsInjective, IsTable
<1>6. IsTable(u)
  BY <1>1, <1>2, <1>3, <1>5 DEF IsTable
<1>. QED  BY <1>1, <1>2, <1>3, <1>6 DEF OpenAt, u, k

\* u is t with k closed.
ClosedAt(t, u, k) ==
    /\ IsTable(u) /\ DOMAIN u = DOMAIN t \ {k} /\ Range(u) = Range(t) \ {t[k]}
    /\ \A m \in DOMAIN u : u[m] = t[m]

\* close
LEMMA CloseTable ==
    ASSUME NEW t, IsTable(t), NEW k \in DOMAIN t
    PROVE  ClosedAt(t, Close(t, k), k)
<1>. DEFINE u == Close(t, k)
<1>1. DOMAIN u = DOMAIN t \ {k} /\ \A m \in DOMAIN u : u[m] = t[m]
  BY DEF Close
<1>. HIDE DEF u
<1>2. Range(u) = Range(t) \ {t[k]}
  BY <1>1 DEF Range, IsTable, IsInjective
<1>3. IsTable(u)
  BY <1>1, <1>2 DEF IsTable, IsInjective
<1>. QED  BY <1>1, <1>2, <1>3 DEF ClosedAt, u

-----------------------------------------------------------------------------
(* The invariant.                                                           *)

\* f has been called for q.
Done(f, q) == \E k \in 1..ip - 1 : Main[exe][k] = <<f, q>>

\* The struct Process with regions in M.
Process(M) ==
    [st : {"none", "live", "deleted"}, pMapsFile : -1..MaxFd, pMemFile : -1..MaxFd,
     pagemap_fd : -1..MaxFd, built : {"no", "maps", "pages"}, scanned : BOOLEAN, maps : M]

\* The fields tell which functions have been called for q.
FieldsOK(q) ==
    /\ obj[q].st = IF Done("proc_del", q) THEN "deleted"
                   ELSE IF Done("proc_init", q) THEN "live" ELSE "none"
    /\ obj[q].built = IF Done("proc_do", q) THEN "pages"
                      ELSE IF Done("proc_do_maps", q) THEN "maps" ELSE "no"
    /\ obj[q].scanned <=> Done("proc_parse_pagemap", q)
    /\ obj[q].pMapsFile # Closed <=> Done("proc_do", q) \/ Done("proc_do_maps", q)
    /\ obj[q].pMemFile # Closed <=> Done("proc_do", q)
    /\ obj[q].pagemap_fd # Closed <=> Done("proc_do", q)
    /\ Done("proc_do", q) \/ Done("proc_do_maps", q) => Done("proc_init", q)

\* File name of q is to be open.
Wanted(name, q) ==
    \/ /\ ~Done("proc_del", q)
       /\ \/ name \in {"maps", "mem", "pagemap"} /\ Done("proc_do", q)
          \/ name = "maps" /\ Done("proc_do_maps", q)
    \/ name = "kpageflags" /\ Done("proc_parse_pagemap", q)

\* Exactly the files that are wanted are open.
OpenOK ==
    /\ Range(Std) \subseteq Range(fds)
    /\ \A name \in Name, q \in Target : <<name, q>> \in Range(fds) <=> Wanted(name, q)

Own(fd, name, q) == fd \in DOMAIN fds /\ fds[fd] = <<name, q>>

\* The handles of q are its own.
HandlesOK(q) ==
    /\ Wanted("maps", q) => Own(obj[q].pMapsFile, "maps", q)
    /\ Wanted("mem", q) => Own(obj[q].pMemFile, "mem", q)
    /\ Wanted("pagemap", q) => Own(obj[q].pagemap_fd, "pagemap", q)

\* What holds as long as main runs, and when it has returned.
RunOK == (\A q \in Target : FieldsOK(q) /\ HandlesOK(q)) /\ OpenOK

ToolInv ==
    /\ exe \in Tools
    /\ ip \in 1..Len(Main[exe]) + 1
    /\ phase \in {"running", "returned", "exited", "crashed"}
    /\ IsTable(fds)
    /\ kpageflags_fd \in -1..MaxFd /\ kpagecount_fd \in -1..MaxFd
    /\ \E M : obj \in [Target -> Process(M)]
    /\ \A q \in Target : obj[q].scanned => obj[q].built = "pages"
    /\ DOMAIN out = Report
    /\ phase \in {"running", "returned"} => RunOK
    /\ phase = "crashed" => Main[exe][ip][1] = "print_total_dup"

\* The initial state.
LEMMA InitToolInv == TInit => ToolInv
<1>. SUFFICES ASSUME TInit PROVE ToolInv
  OBVIOUS
<1>1. exe \in Tools /\ ip = 1 /\ phase = "running" /\ DOMAIN out = Report
  BY DEF TInit
<1>2. Len(Main[exe]) \in Nat
  BY <1>1, AllPlaced DEF PlacesOK
<1>3. fds = Std /\ MaxFd \in Nat /\ MaxFd >= 2
  <2>1. Len(Pids) \in Nat
    BY PidsType
  <2>. QED  BY <2>1 DEF TInit, MaxFd
<1>4. IsTable(fds)
  <2>1. DOMAIN Std = 0..2 /\ \A k \in 0..2 : Std[k] = <<"std", k>>
    BY DEF Std
  <2>2. IsInjective(Std)
    BY <2>1 DEF IsInjective
  <2>3. DOMAIN Std \subseteq 0..MaxFd
    BY <1>3, <2>1
  <2>. QED  BY <1>3, <2>2, <2>3 DEF IsTable, File
<1>5. kpageflags_fd \in -1..MaxFd /\ kpagecount_fd \in -1..MaxFd
  BY <1>3 DEF TInit
<1>6. \A q \in Target : obj[q] = NoProcess
  BY DEF TInit
<1>7. obj \in [Target -> Process({<< >>})]
  <2>1. -1 \in -1..MaxFd
    BY <1>3
  <2>. QED  BY <2>1 DEF TInit, NoProcess, Process, Closed
<1>8. \A f, q : ~Done(f, q)
  BY <1>1 DEF Done
<1>9. \A q \in Target : FieldsOK(q)
  BY <1>6, <1>8 DEF FieldsOK, NoProcess, Closed
<1>10. \A name, q : ~Wanted(name, q)
  BY <1>8 DEF Wanted
<1>11. \A q \in Target : HandlesOK(q)
  BY <1>10 DEF HandlesOK
<1>12. OpenOK
  <2>1. ASSUME NEW name \in Name, NEW q \in Target PROVE <<name, q>> \notin Range(Std)
    <3>1. name # "std"
      BY DEF Name
    <3>. QED  BY <3>1 DEF Range, Std
  <2>. QED  BY <1>3, <1>10, <2>1 DEF OpenOK
<1>13. RunOK
  BY <1>9, <1>11, <1>12 DEF RunOK
<1>14. \A q \in Target : obj[q].scanned => obj[q].built = "pages"
  BY <1>6 DEF NoProcess
<1>15. \E M : obj \in [Target -> Process(M)]
  BY <1>7
<1>16. ip \in 1..Len(Main[exe]) + 1
  BY <1>1, <1>2
<1>. QED  BY <1>1, <1>4, <1>5, <1>13, <1>14, <1>15, <1>16 DEF ToolInv

-----------------------------------------------------------------------------
(* The calls of main.                                                       *)

\* What has been called for q when main calls op for it.
CallOK(op, q) ==
    /\ exe \in Tools /\ Len(Main[exe]) \in Nat /\ ip \in 1..Len(Main[exe])
    /\ Main[exe][ip] = <<op, q>> /\ phase = "running" /\ RunOK
    /\ op = "proc_init" => \A g \in Life : ~Done(g, q)
    /\ op \in Life \ {"proc_init"} => Done("proc_init", q) /\ ~Done("proc_del", q)
    /\ op \in {"proc_do", "proc_do_maps"} =>
        /\ ~Done("proc_do", q) /\ ~Done("proc_do_maps", q) /\ ~Done("proc_parse_pagemap", q)
    /\ op \in {"proc_parse_pagemap", "proc_del"} => Done("proc_do", q)
    /\ op = "proc_parse_pagemap" => ~Done("proc_parse_pagemap", q)

LEMMA Called == ASSUME ToolInv, NEW op, NEW q \in Target, At(op, q) PROVE CallOK(op, q)
<1>1. /\ exe \in Tools /\ Len(Main[exe]) \in Nat /\ ip \in 1..Len(Main[exe])
      /\ Main[exe][ip] = <<op, q>> /\ phase = "running" /\ RunOK
  <2>1. exe \in Tools /\ ip \in 1..Len(Main[exe]) + 1
    BY DEF ToolInv
  <2>2. Len(Main[exe]) \in Nat
    BY <2>1, AllPlaced DEF PlacesOK
  <2>3. phase = "running" /\ ip <= Len(Main[exe]) /\ Main[exe][ip] = <<op, q>>
    BY DEF At
  <2>. QED  BY <2>1, <2>2, <2>3 DEF ToolInv
<1>2. ASSUME op \in Life, NEW g \in Life
      PROVE  op \in Steps(exe) /\ (Done(g, q) <=> g \in Steps(exe) /\ Rank(g) < Rank(op))
  <2>1. Main[exe][ip][1] = op /\ Main[exe][ip][2] = q
    BY <1>1
  <2>2. Done(g, q) <=> Earlier(exe, ip, g)
    BY <2>1 DEF Done, Earlier
  <2>. QED  BY <1>1, <1>2, <2>1, <2>2, InOrder
<1>3. /\ "proc_init" \in Life /\ "proc_do" \in Life /\ "proc_do_maps" \in Life
      /\ "proc_parse_pagemap" \in Life /\ "proc_del" \in Life
  BY DEF Life
<1>4. /\ Rank("proc_init") = 1 /\ Rank("proc_do") = 2 /\ Rank("proc_do_maps") = 2
      /\ Rank("proc_parse_pagemap") = 3 /\ Rank("proc_del") = 4
  BY DEF Rank
<1>5. \A g \in Life : g = "proc_init" \/ g = "proc_do" \/ g = "proc_do_maps"
                      \/ g = "proc_parse_pagemap" \/ g = "proc_del"
  BY DEF Life
<1>6. /\ "proc_init" \in Steps(exe)
      /\ "proc_parse_pagemap" \in Steps(exe) => "proc_do" \in Steps(exe)
      /\ "proc_del" \in Steps(exe) => "proc_do" \in Steps(exe)
  <2>1. \/ Steps(exe) = {"proc_init", "proc_do_maps"} \/ Steps(exe) = {"proc_init", "proc_do"}
        \/ Steps(exe) = Life \ {"proc_do_maps"}
    BY Zenon DEF Steps
  <2>. QED  BY <2>1 DEF Life
<1>7. CASE op = "proc_init"
  <2>1. \A g \in Life : ~Done(g, q)
    BY <1>2, <1>3, <1>4, <1>5, <1>7
  <2>. QED  BY <1>1, <1>7, <2>1 DEF CallOK
<1>8. CASE op \in {"proc_do", "proc_do_maps"}
  <2>1. /\ Done("proc_init", q) /\ ~Done("proc_del", q)
        /\ ~Done("proc_do", q) /\ ~Done("proc_do_maps", q) /\ ~Done("proc_parse_pagemap", q)
    BY <1>2, <1>3, <1>4, <1>6, <1>8
  <2>. QED  BY <1>1, <1>8, <2>1 DEF CallOK
<1>9. CASE op = "proc_parse_pagemap"
  <2>1. /\ Done("proc_init", q) /\ ~Done("proc_del", q)
        /\ Done("proc_do", q) /\ ~Done("proc_parse_pagemap", q)
    BY <1>2, <1>3, <1>4, <1>6, <1>9
  <2>. QED  BY <1>1, <1>9, <2>1 DEF CallOK
<1>10. CASE op = "proc_del"
  <2>1. Done("proc_init", q) /\ ~Done("proc_del", q) /\ Done("proc_do", q)
    BY <1>2, <1>3, <1>4, <1>6, <1>10
  <2>. QED  BY <1>1, <1>10, <2>1 DEF CallOK
<1>11. CASE op \notin Life
  BY <1>1, <1>3, <1>11 DEF CallOK
<1>. QED  BY <1>5, <1>7, <1>8, <1>9, <1>10, <1>11

\* After the call.
LEMMA DoneAfter ==
    ASSUME NEW op, NEW q, Len(Main[exe]) \in Nat, ip \in 1..Len(Main[exe]),
           Main[exe][ip] = <<op, q>>, Advance
    PROVE  /\ \A f, p : Done(f, p)' <=> Done(f, p) \/ (f = op /\ p = q)
           /\ exe' = exe /\ phase' = phase /\ ip' \in 1..Len(Main[exe]) + 1
<1>1. ip' = ip + 1 /\ exe' = exe /\ phase' = phase
  BY DEF Advance
<1>2. ASSUME NEW f, NEW p PROVE Done(f, p)' <=> Done(f, p) \/ (f = op /\ p = q)
  <2>1. Done(f, p)' <=> \E k \in 1..ip : Main[exe][k] = <<f, p>>
    BY <1>1 DEF Done
  <2>2. 1..ip = (1..ip - 1) \cup {ip}
    OBVIOUS
  <2>3. Main[exe][ip] = <<f, p>> <=> f = op /\ p = q
    OBVIOUS
  <2>. QED  BY <2>1, <2>2, <2>3 DEF Done
<1>. QED  BY <1>1, <1>2

\* A call that does not belong to a life and leaves the object and the table
\* alone.
LEMMA KeepsRunOK ==
    ASSUME RunOK, NEW op, NEW q, op \notin Life,
           \A f, p : Done(f, p)' <=> Done(f, p) \/ (f = op /\ p = q),
           UNCHANGED <<obj, fds>>
    PROVE  RunOK'
<1>1. \A f \in Life : \A p : Done(f, p)' <=> Done(f, p)
  OBVIOUS
<1>2. \A p : /\ Done("proc_init", p)' <=> Done("proc_init", p)
             /\ Done("proc_do", p)' <=> Done("proc_do", p)
             /\ Done("proc_do_maps", p)' <=> Done("proc_do_maps", p)
             /\ Done("proc_parse_pagemap", p)' <=> Done("proc_parse_pagemap", p)
             /\ Done("proc_del", p)' <=> Done("proc_del", p)
  BY <1>1 DEF Life
<1>3. \A name, p : Wanted(name, p)' <=> Wanted(name, p)
  BY <1>2 DEF Wanted
<1>4. ASSUME NEW p \in Target PROVE FieldsOK(p)'
  <2>1. FieldsOK(p)
    BY DEF RunOK
  <2>. QED  BY <1>2, <2>1 DEF FieldsOK
<1>5. ASSUME NEW p \in Target PROVE HandlesOK(p)'
  <2>1. HandlesOK(p)
    BY DEF RunOK
  <2>. QED  BY <1>3, <2>1 DEF HandlesOK, Own
<1>6. OpenOK'
  <2>1. OpenOK
    BY DEF RunOK
  <2>. QED  BY <1>3, <2>1 DEF OpenOK
<1>. QED  BY <1>4, <1>5, <1>6 DEF RunOK

-----------------------------------------------------------------------------
(* One call works on the files of one process.                              *)

\* From table t to table u nothing happens to what is not a file of q.
OthersKept(t, u, q) ==
    /\ \A k \in DOMAIN t : t[k] \notin Name \X {q} => k \in DOMAIN u /\ u[k] = t[k]
    /\ \A file \in Range(u) : file \notin Name \X {q} => file \in Range(t)

LEMMA OpenKeeps ==
    ASSUME NEW t, NEW u, NEW k, NEW q, NEW file \in Name \X {q}, OpenAt(t, u, k, file)
    PROVE  OthersKept(t, u, q)
<1>1. Range(u) = Range(t) \cup {file} /\ DOMAIN u = DOMAIN t \cup {k} /\ \A m \in DOMAIN t : u[m] = t[m]
  BY DEF OpenAt
<1>. QED  BY <1>1 DEF OthersKept

LEMMA CloseKeeps ==
    ASSUME NEW t, NEW u, NEW k, NEW q, t[k] \in Name \X {q}, ClosedAt(t, u, k)
    PROVE  OthersKept(t, u, q)
<1>1. Range(u) = Range(t) \ {t[k]} /\ DOMAIN u = DOMAIN t \ {k} /\ \A m \in DOMAIN u : u[m] = t[m]
  BY DEF ClosedAt
<1>. QED  BY <1>1 DEF OthersKept

LEMMA KeptTwice ==
    ASSUME NEW t, NEW u, NEW v, NEW q, OthersKept(t, u, q), OthersKept(u, v, q)
    PROVE  OthersKept(t, v, q)
BY DEF OthersKept

\* A call on q keeps RunOK if it does for q.
LEMMA OneProcess ==
    ASSUME RunOK, NEW op, NEW q \in Target,
           \A f, p : Done(f, p)' <=> Done(f, p) \/ (f = op /\ p = q),
           \A p \in Target : p # q => obj'[p] = obj[p],
           OthersKept(fds, fds', q), FieldsOK(q)', HandlesOK(q)',
           \A name \in Name : <<name, q>> \in Range(fds') <=> Wanted(name, q)'
    PROVE  RunOK'
<1>1. \A f, p : p # q => (Done(f, p)' <=> Done(f, p))
  OBVIOUS
<1>2. \A name, p : p # q => (Wanted(name, p)' <=> Wanted(name, p))
  BY <1>1 DEF Wanted
<1>3. ASSUME NEW p \in Target, p # q PROVE FieldsOK(p)'
  <2>1. FieldsOK(p) /\ obj'[p] = obj[p]
    BY <1>3 DEF RunOK
  <2>2. /\ Done("proc_init", p)' <=> Done("proc_init", p)
        /\ Done("proc_do", p)' <=> Done("proc_do", p)
        /\ Done("proc_do_maps", p)' <=> Done("proc_do_maps", p)
        /\ Done("proc_parse_pagemap", p)' <=> Done("proc_parse_pagemap", p)
        /\ Done("proc_del", p)' <=> Done("proc_del", p)
    BY <1>1, <1>3
  <2>. QED  BY <2>1, <2>2 DEF FieldsOK
<1>4. ASSUME NEW p \in Target, p # q, NEW name \in Name, NEW fd, Own(fd, name, p)
      PROVE  fd \in DOMAIN fds' /\ fds'[fd] = <<name, p>>
  BY <1>4 DEF Own, OthersKept
<1>5. ASSUME NEW p \in Target, p # q PROVE HandlesOK(p)'
  <2>1. HandlesOK(p) /\ obj'[p] = obj[p]
    BY <1>5 DEF RunOK
  <2>2. "maps" \in Name /\ "mem" \in Name /\ "pagemap" \in Name
    BY DEF Name
  <2>3. Wanted("maps", p)' => Own(obj[p].pMapsFile, "maps", p)'
    <3>1. Wanted("maps", p)' => Own(obj[p].pMapsFile, "maps", p)
      BY <1>2, <1>5, <2>1 DEF HandlesOK
    <3>2. Own(obj[p].pMapsFile, "maps", p)
          => obj[p].pMapsFile \in DOMAIN fds' /\ fds'[obj[p].pMapsFile] = <<"maps", p>>
      BY <1>4, <1>5, <2>2
    <3>. QED  BY <2>1, <3>1, <3>2 DEF Own
  <2>4. Wanted("mem", p)' => Own(obj[p].pMemFile, "mem", p)'
    <3>1. Wanted("mem", p)' => Own(obj[p].pMemFile, "mem", p)
      BY <1>2, <1>5, <2>1 DEF HandlesOK
    <3>2. Own(obj[p].pMemFile, "mem", p)
          => obj[p].pMemFile \in DOMAIN fds' /\ fds'[obj[p].pMemFile] = <<"mem", p>>
      BY <1>4, <1>5, <2>2
    <3>. QED  BY <2>1, <3>1, <3>2 DEF Own
  <2>5. Wanted("pagemap", p)' => Own(obj[p].pagemap_fd, "pagemap", p)'
    <3>1. Wanted("pagemap", p)' => Own(obj[p].pagemap_fd, "pagemap", p)
      BY <1>2, <1>5, <2>1 DEF HandlesOK
    <3>2. Own(obj[p].pagemap_fd, "pagemap", p)
          => obj[p].pagemap_fd \in DOMAIN fds' /\ fds'[obj[p].pagemap_fd] = <<"pagemap", p>>
      BY <1>4, <1>5, <2>2
    <3>. QED  BY <2>1, <3>1, <3>2 DEF Own
  <2>. QED  BY <2>3, <2>4, <2>5 DEF HandlesOK
<1>6. ASSUME NEW name \in Name, NEW p \in Target
      PROVE  <<name, p>> \in Range(fds') <=> Wanted(name, p)'
  <2>1. CASE p = q
    BY <2>1
  <2>2. CASE p # q
    <3>1. <<name, p>> \in Range(fds) <=> Wanted(name, p)
      BY DEF RunOK, OpenOK
    <3>2. <<name, p>> \notin Name \X {q}
      BY <2>2
    <3>3. <<name, p>> \in Range(fds') <=> <<name, p>> \in Range(fds)
      BY <3>2 DEF OthersKept, Range
    <3>. QED  BY <1>2, <2>2, <3>1, <3>3
  <2>. QED  BY <2>1, <2>2
<1>7. ASSUME NEW file \in Range(Std) PROVE file \in Range(fds')
  <2>1. file \in Range(fds)
    BY DEF RunOK, OpenOK
  <2>2. file \notin Name \X {q}
    <3>1. "std" \notin Name
      BY DEF Name
    <3>2. PICK k \in 0..2 : file = <<"std", k>>
      BY DEF Range, Std
    <3>. QED  BY <3>1, <3>2
  <2>. QED  BY <2>1, <2>2 DEF OthersKept, Range
<1>8. OpenOK'
  BY <1>6, <1>7 DEF OpenOK
<1>9. \A p \in Target : FieldsOK(p)' /\ HandlesOK(p)'
  BY <1>3, <1>5
<1>. QED  BY <1>8, <1>9 DEF RunOK

\* The rest of the invariant after a call that returns.
LEMMA Returned ==
    ASSUME ToolInv, NEW op, NEW q \in Target, At(op, q), Advance, RunOK', IsTable(fds)',
           kpageflags_fd' \in -1..MaxFd, kpagecount_fd' \in -1..MaxFd, NEW M,
           obj' \in [Target -> Process(M)],
           \A p \in Target : obj'[p].scanned => obj'[p].built = "pages",
           DOMAIN out' = Report
    PROVE  ToolInv'
<1>1. CallOK(op, q)
  BY Called
<1>2. /\ Len(Main[exe]) \in Nat /\ ip \in 1..Len(Main[exe]) /\ Main[exe][ip] = <<op, q>>
      /\ phase = "running" /\ exe \in Tools
  BY <1>1 DEF CallOK
<1>3. exe' = exe /\ phase' = phase /\ ip' \in 1..Len(Main[exe]) + 1
  BY <1>2, DoneAfter
<1>4. \E N : obj' \in [Target -> Process(N)]
  OBVIOUS
<1>. QED  BY <1>2, <1>3, <1>4 DEF ToolInv

-----------------------------------------------------------------------------
(* The functions of mem.c.                                                  *)

\* The object of q becomes r.
LEMMA Stored ==
    ASSUME NEW M, obj \in [Target -> Process(M)], NEW q \in Target, NEW m,
           NEW r \in Process(M \cup {m}), obj' = [obj EXCEPT ![q] = r]
    PROVE  /\ obj' \in [Target -> Process(M \cup {m})] /\ obj'[q] = r
           /\ \A p \in Target : p # q => obj'[p] = obj[p]
<1>1. \A p \in Target : obj[p] \in Process(M \cup {m})
  BY DEF Process
<1>. HIDE DEF Process
<1>. QED  BY <1>1

LEMMA InitKeeps == ASSUME ToolInv, NEW q \in Target, proc_init(q) PROVE ToolInv'
<1>. DEFINE r == [NoProcess EXCEPT !.st = "live"]
<1>1. /\ At("proc_init", q) /\ Advance /\ obj' = [obj EXCEPT ![q] = r]
      /\ UNCHANGED <<fds, kpageflags_fd, kpagecount_fd, out>>
  BY DEF proc_init, files
<1>2. CallOK("proc_init", q)
  BY <1>1, Called
<1>3. /\ Len(Main[exe]) \in Nat /\ ip \in 1..Len(Main[exe]) /\ RunOK
      /\ Main[exe][ip] = <<"proc_init", q>> /\ \A g \in Life : ~Done(g, q)
  BY <1>2 DEF CallOK
<1>4. \A f, p : Done(f, p)' <=> Done(f, p) \/ (f = "proc_init" /\ p = q)
  BY <1>1, <1>3, DoneAfter
<1>5. PICK M : obj \in [Target -> Process(M)]
  BY DEF ToolInv
<1>6. /\ r.st = "live" /\ r.built = "no" /\ r.scanned = FALSE /\ r.pMapsFile = Closed
      /\ r.pMemFile = Closed /\ r.pagemap_fd = Closed /\ r \in Process(M \cup {<< >>})
  <2>1. -1 \in -1..MaxFd
    BY FileCount
  <2>. QED  BY <2>1 DEF NoProcess, Process, Closed
<1>. HIDE DEF r
<1>7. /\ obj' \in [Target -> Process(M \cup {<< >>})] /\ obj'[q] = r
      /\ \A p \in Target : p # q => obj'[p] = obj[p]
  BY <1>1, <1>5, <1>6, Stored
<1>8. /\ Done("proc_init", q)' /\ ~Done("proc_do", q)' /\ ~Done("proc_do_maps", q)'
      /\ ~Done("proc_parse_pagemap", q)' /\ ~Done("proc_del", q)'
  BY <1>3, <1>4 DEF Life
<1>9. FieldsOK(q)'
  BY <1>6, <1>7, <1>8 DEF FieldsOK
<1>10. \A name : ~Wanted(name, q)' /\ ~Wanted(name, q)
  BY <1>3, <1>8 DEF Wanted, Life
<1>11. HandlesOK(q)'
  BY <1>10 DEF HandlesOK
<1>12. \A name \in Name : <<name, q>> \in Range(fds') <=> Wanted(name, q)'
  BY <1>1, <1>3, <1>10 DEF RunOK, OpenOK
<1>13. OthersKept(fds, fds', q)
  BY <1>1 DEF OthersKept
<1>14. RunOK'
  BY <1>3, <1>4, <1>7, <1>9, <1>11, <1>12, <1>13, OneProcess
<1>15. \A p \in Target : obj'[p].scanned => obj'[p].built = "pages"
  BY <1>6, <1>7 DEF ToolInv
<1>16. /\ IsTable(fds)' /\ kpageflags_fd' \in -1..MaxFd /\ kpagecount_fd' \in -1..MaxFd
       /\ DOMAIN out' = Report
  BY <1>1 DEF ToolInv
<1>. QED  BY <1>1, <1>7, <1>14, <1>15, <1>16, Returned

LEMMA DoMapsKeeps == ASSUME ToolInv, NEW q \in Target, proc_do_maps(q) PROVE ToolInv'
<1>. DEFINE file == <<"maps", q>>
            k == NewFd(fds)
<1>1. /\ At("proc_do_maps", q) /\ Advance /\ fds' = Open(fds, file)
      /\ UNCHANGED <<kpageflags_fd, kpagecount_fd, out>>
  BY DEF proc_do_maps
<1>2. PICK m : obj' = [obj EXCEPT ![q].pMapsFile = k, ![q].built = "maps", ![q].maps = m]
  BY DEF proc_do_maps
<1>. DEFINE r == [obj[q] EXCEPT !.pMapsFile = k, !.built = "maps", !.maps = m]
<1>3. CallOK("proc_do_maps", q)
  BY <1>1, Called
<1>4. /\ Len(Main[exe]) \in Nat /\ ip \in 1..Len(Main[exe]) /\ RunOK
      /\ Main[exe][ip] = <<"proc_do_maps", q>>
      /\ Done("proc_init", q) /\ ~Done("proc_del", q)
      /\ ~Done("proc_do", q) /\ ~Done("proc_do_maps", q) /\ ~Done("proc_parse_pagemap", q)
  BY <1>3 DEF CallOK, Life
<1>5. \A f, p : Done(f, p)' <=> Done(f, p) \/ (f = "proc_do_maps" /\ p = q)
  BY <1>1, <1>4, DoneAfter
<1>6. \A name \in Name : <<name, q>> \in Range(fds) <=> Wanted(name, q)
  BY <1>4 DEF RunOK, OpenOK
<1>7. \A name \in Name : <<name, q>> \notin Range(fds)
  BY <1>4, <1>6 DEF Wanted
<1>8. "maps" \in Name /\ file \in File /\ file \in Name \X {q}
  BY DEF Name, File
<1>9. IsTable(fds) /\ OpenAt(fds, fds', k, file)
  BY <1>1, <1>7, <1>8, OpenTable DEF ToolInv
<1>10. PICK M : obj \in [Target -> Process(M)]
  BY DEF ToolInv
<1>. HIDE DEF file, k
<1>11. obj' = [obj EXCEPT ![q] = r]
  BY <1>2, <1>10
<1>12. k \in 0..MaxFd /\ k # Closed /\ k \in -1..MaxFd
  <2>1. k \in 0..MaxFd
    BY <1>9 DEF OpenAt
  <2>. QED  BY <2>1, FileCount DEF Closed
<1>13. obj[q] \in Process(M) /\ FieldsOK(q)
  BY <1>4, <1>10 DEF RunOK
<1>14. /\ r.st = obj[q].st /\ r.built = "maps" /\ r.scanned = obj[q].scanned /\ r.pMapsFile = k
       /\ r.pMemFile = obj[q].pMemFile /\ r.pagemap_fd = obj[q].pagemap_fd
       /\ r \in Process(M \cup {m})
  BY <1>12, <1>13 DEF Process
<1>. HIDE DEF r
<1>15. /\ obj' \in [Target -> Process(M \cup {m})] /\ obj'[q] = r
       /\ \A p \in Target : p # q => obj'[p] = obj[p]
  BY <1>10, <1>11, <1>14, Stored
<1>16. /\ Done("proc_init", q)' /\ ~Done("proc_do", q)' /\ Done("proc_do_maps", q)'
       /\ ~Done("proc_parse_pagemap", q)' /\ ~Done("proc_del", q)'
  BY <1>4, <1>5
<1>17. FieldsOK(q)'
  BY <1>4, <1>12, <1>13, <1>14, <1>15, <1>16 DEF FieldsOK
<1>18. \A name \in Name : Wanted(name, q)' <=> name = "maps"
  BY <1>16 DEF Wanted
<1>19. HandlesOK(q)'
  <2>1. ~Wanted("mem", q)' /\ ~Wanted("pagemap", q)'
    BY <1>18 DEF Name
  <2>2. Own(obj[q].pMapsFile, "maps", q)'
    BY <1>9, <1>14, <1>15 DEF Own, OpenAt, file
  <2>. QED  BY <2>1, <2>2 DEF HandlesOK
<1>20. \A name \in Name : <<name, q>> \in Range(fds') <=> Wanted(name, q)'
  <2>1. Range(fds') = Range(fds) \cup {file}
    BY <1>9 DEF OpenAt
  <2>. QED  BY <1>7, <1>18, <2>1 DEF file
<1>21. OthersKept(fds, fds', q)
  BY <1>8, <1>9, OpenKeeps
<1>22. RunOK'
  BY <1>4, <1>5, <1>15, <1>17, <1>19, <1>20, <1>21, OneProcess
<1>23. ASSUME NEW p \in Target, obj'[p].scanned PROVE obj'[p].built = "pages"
  <2>1. p # q
    BY <1>4, <1>13, <1>14, <1>15, <1>23 DEF FieldsOK
  <2>. QED  BY <1>15, <1>23, <2>1 DEF ToolInv
<1>24. /\ IsTable(fds)' /\ kpageflags_fd' \in -1..MaxFd /\ kpagecount_fd' \in -1..MaxFd
       /\ DOMAIN out' = Report
  BY <1>1, <1>9 DEF ToolInv, OpenAt
<1>. QED  BY <1>1, <1>15, <1>22, <1>23, <1>24, Returned

LEMMA DoKeeps == ASSUME ToolInv, NEW q \in Target, proc_do(q) PROVE ToolInv'
<1>. DEFINE t1 == Open(fds, <<"maps", q>>)
            t2 == Open(t1, <<"mem", q>>)
            k1 == NewFd(fds)
            k2 == NewFd(t1)
            k3 == NewFd(t2)
<1>1. /\ At("proc_do", q) /\ Advance /\ fds' = Open(t2, <<"pagemap", q>>)
      /\ UNCHANGED <<kpageflags_fd, kpagecount_fd, out>>
  BY DEF proc_do
<1>2. PICK m : obj' = [obj EXCEPT ![q].pMapsFile = k1, ![q].pMemFile = k2, ![q].pagemap_fd = k3,
                                  ![q].built = "pages", ![q].maps = m]
  BY DEF proc_do
<1>. DEFINE r == [obj[q] EXCEPT !.pMapsFile = k1, !.pMemFile = k2, !.pagemap_fd = k3,
                                !.built = "pages", !.maps = m]
<1>3. CallOK("proc_do", q)
  BY <1>1, Called
<1>4. /\ Len(Main[exe]) \in Nat /\ ip \in 1..Len(Main[exe]) /\ RunOK
      /\ Main[exe][ip] = <<"proc_do", q>>
      /\ Done("proc_init", q) /\ ~Done("proc_del", q)
      /\ ~Done("proc_do", q) /\ ~Done("proc_do_maps", q) /\ ~Done("proc_parse_pagemap", q)
  BY <1>3 DEF CallOK, Life
<1>5. \A f, p : Done(f, p)' <=> Done(f, p) \/ (f = "proc_do" /\ p = q)
  BY <1>1, <1>4, DoneAfter
<1>6. \A name \in Name : <<name, q>> \in Range(fds) <=> Wanted(name, q)
  BY <1>4 DEF RunOK, OpenOK
<1>7. \A name \in Name : <<name, q>> \notin Range(fds)
  BY <1>4, <1>6 DEF Wanted
<1>8. \A name \in {"maps", "mem", "pagemap"} :
        name \in Name /\ <<name, q>> \in File /\ <<name, q>> \in Name \X {q}
  BY DEF Name, File
<1>9. OpenAt(fds, t1, k1, <<"maps", q>>)
  BY <1>7, <1>8, OpenTable DEF ToolInv
<1>10. IsTable(t1) /\ Range(t1) = Range(fds) \cup {<<"maps", q>>}
  BY <1>9 DEF OpenAt
<1>11. OpenAt(t1, t2, k2, <<"mem", q>>)
  <2>. HIDE DEF t1
  <2>1. <<"mem", q>> \notin Range(t1)
    BY <1>7, <1>8, <1>10
  <2>. QED  BY <1>8, <1>10, <2>1, OpenTable
<1>12. IsTable(t2) /\ Range(t2) = Range(t1) \cup {<<"mem", q>>}
  BY <1>11 DEF OpenAt
<1>13. OpenAt(t2, fds', k3, <<"pagemap", q>>)
  <2>. HIDE DEF t1, t2
  <2>1. <<"pagemap", q>> \notin Range(t2)
    BY <1>7, <1>8, <1>10, <1>12
  <2>. QED  BY <1>1, <1>8, <1>12, <2>1, OpenTable
<1>14. PICK M : obj \in [Target -> Process(M)]
  BY DEF ToolInv
<1>. HIDE DEF t1, t2, k1, k2, k3
<1>15. /\ k1 \in DOMAIN fds' /\ fds'[k1] = <<"maps", q>> /\ k2 \in DOMAIN fds' /\ fds'[k2] = <<"mem", q>>
       /\ k3 \in DOMAIN fds' /\ fds'[k3] = <<"pagemap", q>>
  <2>1. k1 \in DOMAIN t1 /\ t1[k1] = <<"maps", q>>
    BY <1>9 DEF OpenAt
  <2>2. k1 \in DOMAIN t2 /\ t2[k1] = <<"maps", q>> /\ k2 \in DOMAIN t2 /\ t2[k2] = <<"mem", q>>
    BY <1>11, <2>1 DEF OpenAt
  <2>. QED  BY <1>13, <2>2 DEF OpenAt
<1>16. \A k \in {k1, k2, k3} : k # Closed /\ k \in -1..MaxFd
  <2>1. k1 \in 0..MaxFd /\ k2 \in 0..MaxFd /\ k3 \in 0..MaxFd
    BY <1>9, <1>11, <1>13 DEF OpenAt
  <2>. QED  BY <2>1, FileCount DEF Closed
<1>17. obj' = [obj EXCEPT ![q] = r]
  BY <1>2, <1>14
<1>18. obj[q] \in Process(M) /\ FieldsOK(q)
  BY <1>4, <1>14 DEF RunOK
<1>19. /\ r.st = obj[q].st /\ r.built = "pages" /\ r.scanned = obj[q].scanned /\ r.pMapsFile = k1
       /\ r.pMemFile = k2 /\ r.pagemap_fd = k3 /\ r \in Process(M \cup {m})
  BY <1>16, <1>18 DEF Process
<1>. HIDE DEF r
<1>20. /\ obj' \in [Target -> Process(M \cup {m})] /\ obj'[q] = r
       /\ \A p \in Target : p # q => obj'[p] = obj[p]
  BY <1>14, <1>17, <1>19, Stored
<1>21. /\ Done("proc_init", q)' /\ Done("proc_do", q)' /\ ~Done("proc_do_maps", q)'
       /\ ~Done("proc_parse_pagemap", q)' /\ ~Done("proc_del", q)'
  BY <1>4, <1>5
<1>22. FieldsOK(q)'
  BY <1>4, <1>16, <1>18, <1>19, <1>20, <1>21 DEF FieldsOK
<1>23. \A name \in Name : Wanted(name, q)' <=> name \in {"maps", "mem", "pagemap"}
  BY <1>21 DEF Wanted
<1>24. HandlesOK(q)'
  <2>1. Own(obj[q].pMapsFile, "maps", q)' /\ Own(obj[q].pMemFile, "mem", q)'
        /\ Own(obj[q].pagemap_fd, "pagemap", q)'
    BY <1>15, <1>19, <1>20 DEF Own
  <2>. QED  BY <2>1 DEF HandlesOK
<1>25. \A name \in Name : <<name, q>> \in Range(fds') <=> Wanted(name, q)'
  <2>1. Range(fds') = Range(fds) \cup {<<"maps", q>>, <<"mem", q>>, <<"pagemap", q>>}
    BY <1>10, <1>12, <1>13 DEF OpenAt
  <2>. QED  BY <1>7, <1>23, <2>1
<1>26. OthersKept(fds, fds', q)
  <2>1. OthersKept(fds, t1, q) /\ OthersKept(t1, t2, q) /\ OthersKept(t2, fds', q)
    BY <1>8, <1>9, <1>11, <1>13, OpenKeeps
  <2>. QED  BY <2>1, KeptTwice
<1>27. RunOK'
  BY <1>4, <1>5, <1>20, <1>22, <1>24, <1>25, <1>26, OneProcess
<1>28. \A p \in Target : obj'[p].scanned => obj'[p].built = "pages"
  BY <1>19, <1>20 DEF ToolInv
<1>29. /\ IsTable(fds)' /\ kpageflags_fd' \in -1..MaxFd /\ kpagecount_fd' \in -1..MaxFd
       /\ DOMAIN out' = Report
  BY <1>1, <1>13 DEF ToolInv, OpenAt
<1>. QED  BY <1>1, <1>20, <1>27, <1>28, <1>29, Returned

\* u is t.
SameTable(t, u) ==
    IsTable(u) /\ DOMAIN u = DOMAIN t /\ Range(u) = Range(t) /\ \A m \in DOMAIN t : u[m] = t[m]

\* A file that is opened, and closed twice, leaves nothing behind: the second
\* close finds the descriptor free.
LEMMA CloseTwiceKeeps ==
    ASSUME NEW t, IsTable(t), NEW q \in Target, <<"kpagecount", q>> \notin Range(t)
    PROVE  SameTable(t, CloseTwice(t, q)) /\ NewFd(t) \in 0..MaxFd
<1>. DEFINE file == <<"kpagecount", q>>
            k == NewFd(t)
            t1 == Open(t, file)
            t2 == Close(t1, k)
            t3 == Close(t2, k)
<1>1. OpenAt(t, t1, k, file)
  <2>1. file \in File
    BY DEF File, Name
  <2>. QED  BY <2>1, OpenTable
<1>2. /\ IsTable(t1) /\ k \in DOMAIN t1 /\ k \in 0..MaxFd /\ k \notin DOMAIN t /\ t1[k] = file
      /\ DOMAIN t1 = DOMAIN t \cup {k} /\ Range(t1) = Range(t) \cup {file}
      /\ \A m \in DOMAIN t : t1[m] = t[m]
  BY <1>1 DEF OpenAt
<1>3. ClosedAt(t1, t2, k)
  <2>. HIDE DEF t1, k
  <2>. QED  BY <1>2, CloseTable
<1>4. SameTable(t, t2)
  <2>. HIDE DEF t1, t2, k
  <2>1. DOMAIN t2 = DOMAIN t
    BY <1>2, <1>3 DEF ClosedAt
  <2>2. Range(t2) = Range(t)
    BY <1>2, <1>3 DEF ClosedAt
  <2>. QED  BY <1>2, <1>3, <2>1, <2>2 DEF SameTable, ClosedAt
<1>5. DOMAIN t3 = DOMAIN t2 /\ \A m \in DOMAIN t2 : t3[m] = t2[m]
  <2>1. k \notin DOMAIN t2
    BY <1>2, <1>4 DEF SameTable
  <2>. HIDE DEF k, t2
  <2>. QED  BY <2>1 DEF Close
<1>6. SameTable(t2, t3)
  <2>1. IsTable(t2)
    BY <1>4 DEF SameTable
  <2>. HIDE DEF t2, t3
  <2>2. Range(t3) = Range(t2)
    BY <1>5 DEF Range
  <2>3. IsTable(t3)
    BY <1>5, <2>1, <2>2 DEF IsTable, IsInjective
  <2>. QED  BY <1>5, <2>2, <2>3 DEF SameTable
<1>7. CloseTwice(t, q) = t3
  BY DEF CloseTwice
<1>. HIDE DEF t2, t3
<1>8. SameTable(t, t3)
  BY <1>4, <1>6 DEF SameTable
<1>. QED  BY <1>2, <1>7, <1>8

LEMMA ParsePagemapKeeps == ASSUME ToolInv, NEW q \in Target, proc_parse_pagemap(q) PROVE ToolInv'
<1>. DEFINE file == <<"kpageflags", q>>
            t1 == Open(fds, file)
            k == NewFd(fds)
<1>1. /\ At("proc_parse_pagemap", q) /\ Advance /\ fds' = CloseTwice(t1, q)
      /\ kpageflags_fd' = k /\ kpagecount_fd' = NewFd(t1) /\ UNCHANGED out
  BY DEF proc_parse_pagemap
<1>2. PICK g : obj' = [obj EXCEPT ![q].maps = WithShare(@, g), ![q].scanned = TRUE]
  BY DEF proc_parse_pagemap
<1>. DEFINE m == WithShare(obj[q].maps, g)
            r == [obj[q] EXCEPT !.maps = m, !.scanned = TRUE]
<1>3. CallOK("proc_parse_pagemap", q)
  BY <1>1, Called
<1>4. /\ Len(Main[exe]) \in Nat /\ ip \in 1..Len(Main[exe]) /\ RunOK
      /\ Main[exe][ip] = <<"proc_parse_pagemap", q>>
      /\ Done("proc_init", q) /\ ~Done("proc_del", q)
      /\ Done("proc_do", q) /\ ~Done("proc_parse_pagemap", q)
  BY <1>3 DEF CallOK, Life
<1>5. \A f, p : Done(f, p)' <=> Done(f, p) \/ (f = "proc_parse_pagemap" /\ p = q)
  BY <1>1, <1>4, DoneAfter
<1>6. \A name \in Name : <<name, q>> \in Range(fds) <=> Wanted(name, q)
  BY <1>4 DEF RunOK, OpenOK
<1>7. "kpageflags" \in Name /\ "kpagecount" \in Name /\ file \in File /\ file \in Name \X {q}
  BY DEF Name, File
<1>8. file \notin Range(fds) /\ <<"kpagecount", q>> \notin Range(fds)
  <2>1. ~Wanted("kpageflags", q) /\ ~Wanted("kpagecount", q)
    BY <1>4 DEF Wanted
  <2>. QED  BY <1>6, <1>7, <2>1
<1>9. IsTable(fds) /\ OpenAt(fds, t1, k, file)
  BY <1>7, <1>8, OpenTable DEF ToolInv
<1>10. SameTable(t1, fds') /\ kpagecount_fd' \in 0..MaxFd
  <2>1. IsTable(t1) /\ Range(t1) = Range(fds) \cup {file}
    BY <1>9 DEF OpenAt
  <2>2. <<"kpagecount", q>> \notin Range(t1)
    BY <1>8, <2>1
  <2>. HIDE DEF t1
  <2>. QED  BY <1>1, <2>1, <2>2, CloseTwiceKeeps
<1>11. OpenAt(fds, fds', k, file)
  <2>. HIDE DEF t1, k, file
  <2>. QED  BY <1>9, <1>10 DEF OpenAt, SameTable
<1>12. PICK M : obj \in [Target -> Process(M)]
  BY DEF ToolInv
<1>. HIDE DEF file, k, t1
<1>13. obj' = [obj EXCEPT ![q] = r]
  <2>. HIDE DEF m
  <2>1. obj' = [obj EXCEPT ![q].maps = m, ![q].scanned = TRUE]
    BY <1>2 DEF m
  <2>. QED  BY <1>12, <2>1
<1>14. kpageflags_fd' \in -1..MaxFd /\ kpagecount_fd' \in -1..MaxFd
  <2>1. k \in 0..MaxFd
    BY <1>9 DEF OpenAt
  <2>. QED  BY <1>1, <1>10, <2>1, FileCount
<1>15. obj[q] \in Process(M) /\ FieldsOK(q) /\ HandlesOK(q)
  BY <1>4, <1>12 DEF RunOK
<1>16. /\ r.st = obj[q].st /\ r.built = obj[q].built /\ r.scanned = TRUE
       /\ r.pMapsFile = obj[q].pMapsFile /\ r.pMemFile = obj[q].pMemFile
       /\ r.pagemap_fd = obj[q].pagemap_fd /\ r \in Process(M \cup {m})
  <2>. HIDE DEF m
  <2>. QED  BY <1>15 DEF Process
<1>. HIDE DEF r, m
<1>17. /\ obj' \in [Target -> Process(M \cup {m})] /\ obj'[q] = r
       /\ \A p \in Target : p # q => obj'[p] = obj[p]
  BY <1>12, <1>13, <1>16, Stored
<1>18. /\ Done("proc_init", q)' /\ Done("proc_do", q)' /\ Done("proc_parse_pagemap", q)'
       /\ (Done("proc_do_maps", q)' <=> Done("proc_do_maps", q)) /\ ~Done("proc_del", q)'
  BY <1>4, <1>5
<1>19. FieldsOK(q)'
  BY <1>4, <1>15, <1>16, <1>17, <1>18 DEF FieldsOK
<1>20. \A name \in Name : Wanted(name, q)' <=> Wanted(name, q) \/ name = "kpageflags"
  BY <1>4, <1>18 DEF Wanted
<1>21. HandlesOK(q)'
  <2>1. \A fd, name : Own(fd, name, q) => fd \in DOMAIN fds' /\ fds'[fd] = <<name, q>>
    BY <1>11 DEF Own, OpenAt
  <2>2. /\ Own(obj[q].pMapsFile, "maps", q) /\ Own(obj[q].pMemFile, "mem", q)
        /\ Own(obj[q].pagemap_fd, "pagemap", q)
    BY <1>4, <1>15 DEF HandlesOK, Wanted
  <2>3. /\ obj'[q].pMapsFile = obj[q].pMapsFile /\ obj'[q].pMemFile = obj[q].pMemFile
        /\ obj'[q].pagemap_fd = obj[q].pagemap_fd
    BY <1>16, <1>17
  <2>4. Own(obj[q].pMapsFile, "maps", q)'
    BY <2>1, <2>2, <2>3, ZenonT(40) DEF Own
  <2>5. Own(obj[q].pMemFile, "mem", q)'
    BY <2>1, <2>2, <2>3 DEF Own
  <2>6. Own(obj[q].pagemap_fd, "pagemap", q)'
    BY <2>1, <2>2, <2>3 DEF Own
  <2>. QED  BY <2>4, <2>5, <2>6 DEF HandlesOK
<1>22. \A name \in Name : <<name, q>> \in Range(fds') <=> Wanted(name, q)'
  <2>1. Range(fds') = Range(fds) \cup {file}
    BY <1>11 DEF OpenAt
  <2>. QED  BY <1>6, <1>20, <2>1 DEF file
<1>23. OthersKept(fds, fds', q)
  BY <1>7, <1>11, OpenKeeps
<1>24. RunOK'
  BY <1>4, <1>5, <1>17, <1>19, <1>21, <1>22, <1>23, OneProcess
<1>25. obj[q].built = "pages"
  BY <1>4, <1>15 DEF FieldsOK
<1>26. \A p \in Target : obj'[p].scanned => obj'[p].built = "pages"
  BY <1>16, <1>17, <1>25 DEF ToolInv
<1>27. IsTable(fds)' /\ DOMAIN out' = Report
  BY <1>1, <1>11 DEF ToolInv, OpenAt
<1>. QED  BY <1>1, <1>14, <1>17, <1>24, <1>26, <1>27, Returned

LEMMA DelKeeps == ASSUME ToolInv, NEW q \in Target, proc_del(q) PROVE ToolInv'
<1>. DEFINE k1 == obj[q].pMapsFile
            k2 == obj[q].pMemFile
            k3 == obj[q].pagemap_fd
            t1 == Close(fds, k1)
            t2 == Close(t1, k2)
            r == [obj[q] EXCEPT !.st = "deleted"]
<1>1. At("proc_del", q) /\ UNCHANGED <<kpageflags_fd, kpagecount_fd, out>>
  BY DEF proc_del
<1>2. fds' = Close(t2, k3)
  BY DEF proc_del, DelCloses
<1>3. CallOK("proc_del", q)
  BY <1>1, Called
<1>4. /\ Len(Main[exe]) \in Nat /\ ip \in 1..Len(Main[exe]) /\ RunOK
      /\ Main[exe][ip] = <<"proc_del", q>>
      /\ Done("proc_init", q) /\ ~Done("proc_del", q) /\ Done("proc_do", q)
  BY <1>3 DEF CallOK, Life
<1>5. FieldsOK(q) /\ HandlesOK(q) /\ \A name \in Name : <<name, q>> \in Range(fds) <=> Wanted(name, q)
  BY <1>4 DEF RunOK, OpenOK
<1>6. obj' = [obj EXCEPT ![q].st = "deleted"] /\ Advance
  <2>1. obj[q].built = "pages"
    BY <1>4, <1>5 DEF FieldsOK
  <2>2. ~WildFree(q)
    BY <2>1 DEF WildFree
  <2>. QED  BY <2>2 DEF proc_del
<1>7. \A f, p : Done(f, p)' <=> Done(f, p) \/ (f = "proc_del" /\ p = q)
  BY <1>4, <1>6, DoneAfter
<1>8. /\ k1 \in DOMAIN fds /\ fds[k1] = <<"maps", q>> /\ k2 \in DOMAIN fds /\ fds[k2] = <<"mem", q>>
      /\ k3 \in DOMAIN fds /\ fds[k3] = <<"pagemap", q>>
  BY <1>4, <1>5 DEF HandlesOK, Wanted, Own
<1>9. PICK M : obj \in [Target -> Process(M)]
  BY DEF ToolInv
<1>10. k1 # k2 /\ k1 # k3 /\ k2 # k3
  <2>. HIDE DEF k1, k2, k3
  <2>. QED  BY <1>8
<1>11. ClosedAt(fds, t1, k1)
  <2>. HIDE DEF k1
  <2>. QED  BY <1>8, CloseTable DEF ToolInv
<1>. HIDE DEF k1, k2, k3
<1>12. IsTable(t1) /\ k2 \in DOMAIN t1 /\ t1[k2] = <<"mem", q>> /\ k3 \in DOMAIN t1 /\ t1[k3] = <<"pagemap", q>>
  <2>. HIDE DEF t1
  <2>. QED  BY <1>8, <1>10, <1>11 DEF ClosedAt
<1>13. ClosedAt(t1, t2, k2)
  <2>. HIDE DEF t1
  <2>. QED  BY <1>12, CloseTable
<1>. HIDE DEF t1
<1>14. IsTable(t2) /\ k3 \in DOMAIN t2 /\ t2[k3] = <<"pagemap", q>>
  <2>. HIDE DEF t2
  <2>. QED  BY <1>10, <1>12, <1>13 DEF ClosedAt
<1>15. ClosedAt(t2, fds', k3)
  <2>. HIDE DEF t2
  <2>. QED  BY <1>2, <1>14, CloseTable
<1>. HIDE DEF t2
<1>16. Range(fds') = Range(fds) \ {<<"maps", q>>, <<"mem", q>>, <<"pagemap", q>>}
  <2>1. /\ Range(t1) = Range(fds) \ {<<"maps", q>>} /\ Range(t2) = Range(t1) \ {<<"mem", q>>}
        /\ Range(fds') = Range(t2) \ {<<"pagemap", q>>}
    BY <1>8, <1>11, <1>12, <1>13, <1>14, <1>15 DEF ClosedAt
  <2>. QED  BY <2>1
<1>17. OthersKept(fds, fds', q)
  <2>1. \A name \in {"maps", "mem", "pagemap"} : <<name, q>> \in Name \X {q}
    BY DEF Name
  <2>2. OthersKept(fds, t1, q) /\ OthersKept(t1, t2, q) /\ OthersKept(t2, fds', q)
    BY <1>8, <1>11, <1>12, <1>13, <1>14, <1>15, <2>1, CloseKeeps
  <2>. QED  BY <2>2, KeptTwice
<1>18. obj' = [obj EXCEPT ![q] = r]
  BY <1>6, <1>9
<1>19. obj[q] \in Process(M)
  BY <1>9
<1>20. /\ r.st = "deleted" /\ r.built = obj[q].built /\ r.scanned = obj[q].scanned
       /\ r.pMapsFile = obj[q].pMapsFile /\ r.pMemFile = obj[q].pMemFile
       /\ r.pagemap_fd = obj[q].pagemap_fd /\ r \in Process(M \cup {<< >>})
  BY <1>19 DEF Process
<1>. HIDE DEF r
<1>21. /\ obj' \in [Target -> Process(M \cup {<< >>})] /\ obj'[q] = r
       /\ \A p \in Target : p # q => obj'[p] = obj[p]
  BY <1>9, <1>18, <1>20, Stored
<1>22. /\ Done("proc_init", q)' /\ Done("proc_do", q)' /\ Done("proc_del", q)'
       /\ (Done("proc_do_maps", q)' <=> Done("proc_do_maps", q))
       /\ (Done("proc_parse_pagemap", q)' <=> Done("proc_parse_pagemap", q))
  BY <1>4, <1>7
<1>23. FieldsOK(q)'
  BY <1>4, <1>5, <1>20, <1>21, <1>22 DEF FieldsOK
<1>24. \A name \in Name :
         Wanted(name, q)' <=> Wanted(name, q) /\ name \notin {"maps", "mem", "pagemap"}
  BY <1>4, <1>22 DEF Wanted
<1>25. HandlesOK(q)'
  <2>1. ~Wanted("maps", q)' /\ ~Wanted("mem", q)' /\ ~Wanted("pagemap", q)'
    BY <1>24 DEF Name
  <2>. QED  BY <2>1 DEF HandlesOK
<1>26. \A name \in Name : <<name, q>> \in Range(fds') <=> Wanted(name, q)'
  BY <1>5, <1>16, <1>24
<1>27. RunOK'
  BY <1>4, <1>7, <1>17, <1>21, <1>23, <1>25, <1>26, OneProcess
<1>28. \A p \in Target : obj'[p].scanned => obj'[p].built = "pages"
  BY <1>20, <1>21 DEF ToolInv
<1>29. /\ IsTable(fds)' /\ kpageflags_fd' \in -1..MaxFd /\ kpagecount_fd' \in -1..MaxFd
       /\ DOMAIN out' = Report
  BY <1>1, <1>15 DEF ToolInv, ClosedAt
<1>. QED  BY <1>1, <1>6, <1>21, <1>27, <1>28, <1>29, Returned

\* Calls that only print or deal with ptrace.
LEMMA OutsideKeeps ==
    ASSUME ToolInv, NEW op, NEW q \in Target, At(op, q), op \notin Life, Advance,
           UNCHANGED <<fds, kpageflags_fd, kpagecount_fd, obj>>, DOMAIN out' = Report
    PROVE  ToolInv'
<1>1. CallOK(op, q)
  BY Called
<1>2. /\ Len(Main[exe]) \in Nat /\ ip \in 1..Len(Main[exe]) /\ RunOK /\ Main[exe][ip] = <<op, q>>
  BY <1>1 DEF CallOK
<1>3. \A f, p : Done(f, p)' <=> Done(f, p) \/ (f = op /\ p = q)
  BY <1>2, DoneAfter
<1>4. RunOK'
  BY <1>2, <1>3, KeepsRunOK
<1>5. PICK M : obj' \in [Target -> Process(M)]
  BY DEF ToolInv
<1>6. /\ IsTable(fds)' /\ kpageflags_fd' \in -1..MaxFd /\ kpagecount_fd' \in -1..MaxFd
      /\ \A p \in Target : obj'[p].scanned => obj'[p].built = "pages"
  BY DEF ToolInv
<1>. QED  BY <1>4, <1>5, <1>6, Returned

LEMMA OtherKeeps == ASSUME ToolInv, NEW q \in Target, Other(q) PROVE ToolInv'
<1>1. PICK op \in {"proc_attach", "proc_detach", "proc_print_pages", "maps_stat", "nonzero_stat"} :
        At(op, q)
  BY DEF Other
<1>2. op \notin Life
  BY DEF Life
<1>3. Advance /\ UNCHANGED <<fds, kpageflags_fd, kpagecount_fd, obj>> /\ DOMAIN out' = Report
  BY DEF Other, files, ToolInv
<1>. QED  BY <1>1, <1>2, <1>3, OutsideKeeps

LEMMA FirstTarget == Pids[1] \in Target
BY PidsType

LEMMA PrintsKeeps == ASSUME ToolInv, NEW f \in Report, NEW rows, Prints(f, rows) PROVE ToolInv'
<1>1. f \notin Life
  BY DEF Life, Report
<1>2. At(f, Pids[1]) /\ Advance /\ UNCHANGED <<fds, kpageflags_fd, kpagecount_fd, obj>>
  BY DEF Prints, files
<1>3. DOMAIN out' = Report
  BY DEF Prints, ToolInv
<1>. QED  BY <1>1, <1>2, <1>3, OutsideKeeps, FirstTarget

\* exit closes everything.
LEMMA FailsKeeps == ASSUME ToolInv, NEW q \in Target, Fails(q) PROVE ToolInv'
<1>1. phase' = "exited" /\ fds' = << >> /\ UNCHANGED <<exe, ip, kpageflags_fd, kpagecount_fd, obj, out>>
  BY DEF Fails
<1>2. IsTable(fds)'
  BY <1>1 DEF IsTable, IsInjective, Range
<1>. QED  BY <1>1, <1>2 DEF ToolInv

LEMMA TotalDupCrashKeeps == ASSUME ToolInv, TotalDupCrash PROVE ToolInv'
<1>1. phase' = "crashed" /\ UNCHANGED <<exe, ip, fds, kpageflags_fd, kpagecount_fd, obj>>
  BY DEF TotalDupCrash, files
<1>2. DOMAIN out' = Report
  BY DEF TotalDupCrash, ToolInv
<1>3. Main[exe][ip][1] = "print_total_dup"
  BY DEF TotalDupCrash, At
<1>4. IsTable(fds)'
  BY <1>1 DEF ToolInv
<1>. QED  BY <1>1, <1>2, <1>3, <1>4 DEF ToolInv

LEMMA SameRun == ASSUME RunOK, UNCHANGED <<exe, ip, obj, fds>> PROVE RunOK'
<1>1. \A f, p : Done(f, p)' <=> Done(f, p)
  BY DEF Done
<1>2. \A name, p : Wanted(name, p)' <=> Wanted(name, p)
  BY <1>1 DEF Wanted
<1>3. \A p \in Target : FieldsOK(p)'
  BY <1>1 DEF FieldsOK, RunOK
<1>4. \A p \in Target : HandlesOK(p)'
  BY <1>2 DEF HandlesOK, RunOK, Own
<1>. QED  BY <1>2, <1>3, <1>4 DEF RunOK, OpenOK

LEMMA MainReturnsKeeps == ASSUME ToolInv, MainReturns PROVE ToolInv'
<1>1. /\ phase = "running" /\ phase' = "returned"
      /\ UNCHANGED <<exe, ip, fds, kpageflags_fd, kpagecount_fd, obj, out>>
  BY DEF MainReturns, files
<1>2. RunOK'
  BY <1>1, SameRun DEF ToolInv
<1>3. IsTable(fds)'
  BY <1>1 DEF ToolInv
<1>. QED  BY <1>1, <1>2, <1>3 DEF ToolInv

LEMMA StutterKeeps == ASSUME ToolInv, UNCHANGED tvars PROVE ToolInv'
<1>1. UNCHANGED <<exe, ip, phase, fds, kpageflags_fd, kpagecount_fd, obj, out>>
  BY DEF tvars, control, files
<1>2. RunOK => RunOK'
  BY <1>1, SameRun
<1>3. IsTable(fds)'
  BY <1>1 DEF ToolInv
<1>. QED  BY <1>1, <1>2, <1>3 DEF ToolInv

-----------------------------------------------------------------------------
(* The theorems.                                                            *)

LEMMA ToolInductive == ToolInv /\ [TNext]_tvars => ToolInv'
<1>. SUFFICES ASSUME ToolInv, [TNext]_tvars PROVE ToolInv'
  OBVIOUS
<1>1. ASSUME NEW q \in Target,
             proc_init(q) \/ proc_do_maps(q) \/ proc_do(q) \/ proc_parse_pagemap(q)
      PROVE  ToolInv'
  BY <1>1, InitKeeps, DoMapsKeeps, DoKeeps, ParsePagemapKeeps
<1>2. ASSUME NEW q \in Target, proc_del(q) \/ Other(q) \/ Fails(q) PROVE ToolInv'
  BY <1>2, DelKeeps, OtherKeeps, FailsKeeps
<1>3. CASE CmpReport
  <2>1. PICK rows : Prints("print_simi", rows)
    BY <1>3 DEF CmpReport
  <2>2. "print_simi" \in Report
    BY DEF Report
  <2>. QED  BY <2>1, <2>2, PrintsKeeps
<1>4. CASE SetcmpReport
  <2>1. \E f \in Report : \E rows : Prints(f, rows)
    BY <1>4, Zenon DEF SetcmpReport, Report
  <2>. QED  BY <2>1, PrintsKeeps
<1>5. CASE TotalDupCrash
  BY <1>5, TotalDupCrashKeeps
<1>6. CASE MainReturns
  BY <1>6, MainReturnsKeeps
<1>7. CASE UNCHANGED tvars
  BY <1>7, StutterKeeps
<1>. QED  BY <1>1, <1>2, <1>3, <1>4, <1>5, <1>6, <1>7 DEF TNext

\* The state stays in its types; in particular NewFd always finds a free
\* descriptor, and nothing is scanned that has no pages (mem.c:648).
THEOREM ToolType == TSpec => []TTypeOK
<1>1. ToolInv => TTypeOK
  <2>. SUFFICES ASSUME ToolInv PROVE TTypeOK
    OBVIOUS
  <2>1. PICK M : obj \in [Target -> Process(M)]
    BY DEF ToolInv
  <2>2. ASSUME NEW q \in Target
        PROVE  /\ obj[q].st \in {"none", "live", "deleted"}
               /\ {obj[q].pMapsFile, obj[q].pMemFile, obj[q].pagemap_fd} \subseteq -1..MaxFd
               /\ obj[q].built \in {"no", "maps", "pages"}
               /\ obj[q].scanned => obj[q].built = "pages"
    <3>1. obj[q] \in Process(M)
      BY <2>1
    <3>. QED  BY <3>1 DEF Process, ToolInv
  <2>. QED  BY <2>2 DEF ToolInv, TTypeOK, IsTable
<1>. QED  BY <1>1, InitToolInv, ToolInductive, PTL DEF TSpec

\* As long as a process object is in use, its handles are open and those of
\* its own files, whatever the tool and however many processes: the second
\* close of kpagecount_fd (mem.c:681) never closes anybody else's file.
THEOREM HandlesAreOwn == TSpec => []HandlesOwned
<1>1. ToolInv => HandlesOwned
  <2>. SUFFICES ASSUME ToolInv, phase = "running", NEW q \in Live, NEW h \in Held(q)
                PROVE  h[2] \in DOMAIN fds /\ fds[h[2]] = <<h[1], q>>
    BY DEF HandlesOwned
  <2>1. q \in Target /\ obj[q].st = "live" /\ FieldsOK(q) /\ HandlesOK(q)
    BY DEF Live, ToolInv, RunOK
  <2>2. ~Done("proc_del", q)
    BY <2>1 DEF FieldsOK
  <2>3. CASE h = <<"maps", obj[q].pMapsFile>>
    <3>1. Done("proc_do", q) \/ Done("proc_do_maps", q)
      BY <2>1, <2>3 DEF Held, FieldsOK
    <3>. QED  BY <2>1, <2>2, <2>3, <3>1 DEF HandlesOK, Wanted, Own
  <2>4. CASE h = <<"mem", obj[q].pMemFile>>
    <3>1. Done("proc_do", q)
      BY <2>1, <2>4 DEF Held, FieldsOK
    <3>. QED  BY <2>1, <2>2, <2>4, <3>1 DEF HandlesOK, Wanted, Own
  <2>5. CASE h = <<"pagemap", obj[q].pagemap_fd>>
    <3>1. Done("proc_do", q)
      BY <2>1, <2>5 DEF Held, FieldsOK
    <3>. QED  BY <2>1, <2>2, <2>5, <3>1 DEF HandlesOK, Wanted, Own
  <2>. QED  BY <2>3, <2>4, <2>5 DEF Held, Handles
<1>. QED  BY <1>1, InitToolInv, ToolInductive, PTL DEF TSpec

\* No descriptor leaks but those of kpageflags ("not closed.. sorry",
\* mem.c:27), one for every process that was scanned, and no file is open
\* twice.
THEOREM FlagsLeakOnly == TSpec => []OnlyFlagsLeak
<1>1. ToolInv => OnlyFlagsLeak
  <2>. SUFFICES ASSUME ToolInv, phase \in {"running", "returned"}
                PROVE  /\ IsInjective(fds)
                       /\ Range(fds) = Range(Std)
                                       \cup (UNION {{<<h[1], q>> : h \in Held(q)} : q \in Live})
                                       \cup {<<"kpageflags", q>> : q \in {p \in Target : obj[p].scanned}}
    BY DEF OnlyFlagsLeak
  <2>. DEFINE H == UNION {{<<h[1], q>> : h \in Held(q)} : q \in Live}
              F == {<<"kpageflags", q>> : q \in {p \in Target : obj[p].scanned}}
  <2>1. IsTable(fds) /\ OpenOK /\ \A q \in Target : FieldsOK(q)
    BY DEF ToolInv, RunOK
  <2>2. IsInjective(fds) /\ Range(fds) \subseteq File
    BY <2>1 DEF IsTable
  <2>3. ASSUME NEW q \in Target
        PROVE  \A name \in {"maps", "mem", "pagemap"} : <<name, q>> \in H <=> Wanted(name, q)
    <3>1. FieldsOK(q)
      BY <2>1
    <3>2. q \in Live <=> obj[q].st = "live"
      BY DEF Live
    <3>3. obj[q].st = "live" <=> Done("proc_init", q) /\ ~Done("proc_del", q)
      BY <3>1 DEF FieldsOK
    <3>4. \A name : <<name, q>> \in H <=> q \in Live /\ \E h \in Held(q) : h[1] = name
      OBVIOUS
    <3>a. \A h : h \in Held(q) <=>
            \/ h = <<"maps", obj[q].pMapsFile>> /\ obj[q].pMapsFile # Closed
            \/ h = <<"mem", obj[q].pMemFile>> /\ obj[q].pMemFile # Closed
            \/ h = <<"pagemap", obj[q].pagemap_fd>> /\ obj[q].pagemap_fd # Closed
      <4>1. \A h : h \in Held(q) <=> h \in Handles(q) /\ h[2] # Closed
        BY DEF Held
      <4>2. \A h : h \in Handles(q) <=> \/ h = <<"maps", obj[q].pMapsFile>>
                                        \/ h = <<"mem", obj[q].pMemFile>>
                                        \/ h = <<"pagemap", obj[q].pagemap_fd>>
        BY DEF Handles
      <4>. QED  BY <4>1, <4>2
    <3>b. (\E h \in Held(q) : h[1] = "maps") <=> obj[q].pMapsFile # Closed
      <4>1. ASSUME obj[q].pMapsFile # Closed PROVE \E h \in Held(q) : h[1] = "maps"
        <5>1. <<"maps", obj[q].pMapsFile>> \in Held(q)
          BY <3>a, <4>1
        <5>. QED  BY <5>1
      <4>2. ASSUME NEW h \in Held(q), h[1] = "maps" PROVE obj[q].pMapsFile # Closed
        BY <3>a, <4>2
      <4>. QED  BY <4>1, <4>2
    <3>c. (\E h \in Held(q) : h[1] = "mem") <=> obj[q].pMemFile # Closed
      <4>1. ASSUME obj[q].pMemFile # Closed PROVE \E h \in Held(q) : h[1] = "mem"
        <5>1. <<"mem", obj[q].pMemFile>> \in Held(q)
          BY <3>a, <4>1
        <5>. QED  BY <5>1
      <4>2. ASSUME NEW h \in Held(q), h[1] = "mem" PROVE obj[q].pMemFile # Closed
        BY <3>a, <4>2
      <4>. QED  BY <4>1, <4>2
    <3>d. (\E h \in Held(q) : h[1] = "pagemap") <=> obj[q].pagemap_fd # Closed
      <4>1. ASSUME obj[q].pagemap_fd # Closed PROVE \E h \in Held(q) : h[1] = "pagemap"
        <5>1. <<"pagemap", obj[q].pagemap_fd>> \in Held(q)
          BY <3>a, <4>1
        <5>. QED  BY <5>1
      <4>2. ASSUME NEW h \in Held(q), h[1] = "pagemap" PROVE obj[q].pagemap_fd # Closed
        BY <3>a, <4>2
      <4>. QED  BY <4>1, <4>2
    <3>. HIDE DEF H
    <3>6. <<"maps", q>> \in H <=> Wanted("maps", q)
      BY <3>1, <3>2, <3>3, <3>4, <3>b DEF FieldsOK, Wanted
    <3>7. <<"mem", q>> \in H <=> Wanted("mem", q)
      BY <3>1, <3>2, <3>3, <3>4, <3>c DEF FieldsOK, Wanted
    <3>8. <<"pagemap", q>> \in H <=> Wanted("pagemap", q)
      BY <3>1, <3>2, <3>3, <3>4, <3>d DEF FieldsOK, Wanted
    <3>. QED  BY <3>6, <3>7, <3>8
  <2>4. ASSUME NEW q \in Target PROVE <<"kpageflags", q>> \in F <=> Wanted("kpageflags", q)
    <3>1. Wanted("kpageflags", q) <=> obj[q].scanned
      BY <2>1 DEF Wanted, FieldsOK
    <3>. QED  BY <3>1
  <2>5. \A q \in Target : ~Wanted("kpagecount", q)
    BY DEF Wanted
  <2>6. H \subseteq {"maps", "mem", "pagemap"} \X Target
    <3>1. \A q \in Live : q \in Target /\ \A h \in Held(q) : h[1] \in {"maps", "mem", "pagemap"}
      BY DEF Live, Held, Handles
    <3>. QED  BY <3>1
  <2>7. F \subseteq {"kpageflags"} \X Target
    OBVIOUS
  <2>8. \A name \in Name, q \in Target : <<name, q>> \in Range(fds) <=> Wanted(name, q)
    BY <2>1 DEF OpenOK
  <2>. HIDE DEF H, F
  <2>9. ASSUME NEW file \in Range(fds) PROVE file \in Range(Std) \cup H \cup F
    <3>1. file \in Range(Std) \/ file \in Name \X Target
      BY <2>2 DEF File
    <3>2. CASE file \in Name \X Target
      <4>1. PICK name \in Name, q \in Target : file = <<name, q>>
        BY <3>2
      <4>2. Wanted(name, q)
        BY <2>8, <4>1
      <4>3. CASE name \in {"maps", "mem", "pagemap"}
        BY <2>3, <4>1, <4>2, <4>3
      <4>4. CASE name = "kpageflags"
        BY <2>4, <4>1, <4>2, <4>4
      <4>5. CASE name = "kpagecount"
        BY <2>5, <4>2, <4>5
      <4>. QED  BY <4>3, <4>4, <4>5 DEF Name
    <3>. QED  BY <3>1, <3>2
  <2>10. H \subseteq Range(fds)
    <3>1. ASSUME NEW file \in H PROVE file \in Range(fds)
      <4>1. PICK name \in {"maps", "mem", "pagemap"}, q \in Target : file = <<name, q>>
        BY <2>6, <3>1
      <4>2. Wanted(name, q) /\ name \in Name
        BY <2>3, <3>1, <4>1 DEF Name
      <4>. QED  BY <2>8, <4>1, <4>2
    <3>. QED  BY <3>1
  <2>11. F \subseteq Range(fds)
    <3>1. ASSUME NEW file \in F PROVE file \in Range(fds)
      <4>1. PICK q \in Target : file = <<"kpageflags", q>>
        BY <2>7, <3>1
      <4>2. Wanted("kpageflags", q) /\ "kpageflags" \in Name
        BY <2>4, <3>1, <4>1 DEF Name
      <4>. QED  BY <2>8, <4>1, <4>2
    <3>. QED  BY <3>1
  <2>12. Range(Std) \subseteq Range(fds)
    BY <2>1 DEF OpenOK
  <2>13. Range(fds) = Range(Std) \cup H \cup F
    BY <2>9, <2>10, <2>11, <2>12
  <2>. QED  BY <2>2, <2>13 DEF H, F
<1>. QED  BY <1>1, InitToolInv, ToolInductive, PTL DEF TSpec

-----------------------------------------------------------------------------
(* What has been printed, in terms of the pages.                            *)

Page == [hash : Hash \cup {zero_page_hash}, share : Count \cup {Unset}]

\* The processes consist of regions, and the regions of pages.
PagesOK == \A q \in Target : obj[q].maps \in Seq(Seq(Page))

\* What report f may print of the processes p.
RowsOf(f, p) ==
    CASE f = "print_simi"          -> print_simi(p[1], p[2])
      [] f = "print_intra_simi"    -> {print_intra_simi(p)}
      [] f = "print_inter_simi"    -> {print_inter_simi(p)}
      [] f = "print_total_dup"     -> {print_total_dup(p)}
      [] f = "print_simi_matrix"   -> {print_simi_matrix(p)}
      [] f = "print_inter_simi_mr" -> {print_inter_simi_mr(p)}
      [] OTHER                     -> {print_intra_process_simi_mr(p)}

\* A report that has been printed is one of the pages as they still are.
PrintedOK ==
    /\ \A f \in Report : Printed(f) => out[f] \in RowsOf(f, proc)
    /\ ~Printed("print_intra_process_simi_mr") => out["print_intra_process_simi_mr"] = << >>

CrashOK == phase = "crashed" => ip <= Len(Main[exe]) /\ TotalCrashes(proc)

ReportInv == ToolInv /\ PagesOK /\ PrintedOK /\ CrashOK

LEMMA ReportSet == Report = SetcmpReports \cup {"print_simi"}
BY DEF Report, SetcmpReports

LEMMA PrintedAfter ==
    ASSUME ToolInv, NEW op, NEW q \in Target, At(op, q), ip' = ip + 1, exe' = exe
    PROVE  \A f : Printed(f)' <=> Printed(f) \/ f = op
<1>1. ip \in 1..Len(Main[exe]) /\ Len(Main[exe]) \in Nat /\ Main[exe][ip][1] = op
  BY Called DEF CallOK
<1>2. \A k : k \in 1..(ip + 1) - 1 <=> k \in 1..ip - 1 \/ k = ip
  BY <1>1
<1>. QED  BY <1>1, <1>2 DEF Printed

\* No report has been printed when a process is set up.
LEMMA NotYetPrinted ==
    ASSUME ToolInv, NEW op \in Life \ {"proc_del"}, NEW q \in Target, At(op, q)
    PROVE  \A f \in Report : ~Printed(f) /\ f # op
<1>1. exe \in Tools /\ ip \in 1..Len(Main[exe]) /\ Len(Main[exe]) \in Nat /\ Main[exe][ip][1] = op
  BY Called DEF CallOK
<1>2. ASSUME NEW f \in Report, Printed(f) PROVE FALSE
  <2>1. PICK k \in 1..ip - 1 : Main[exe][k][1] = f
    BY <1>2 DEF Printed
  <2>2. k \in 1..Len(Main[exe]) /\ k < ip
    BY <1>1
  <2>3. ReportOK(exe, k)
    BY <1>1, <2>1, <2>2, AllReported, ReportSet DEF ReportsOK
  <2>4. ip < k
    BY <1>1, <2>3 DEF ReportOK
  <2>. QED  BY <1>1, <2>2, <2>4
<1>3. ASSUME NEW f \in Report PROVE f # op
  BY ReportSet, ReportNames
<1>. QED  BY <1>2, <1>3

\* Setting up a process.
LEMMA SetUpKeeps ==
    ASSUME ReportInv, ToolInv', NEW op \in Life \ {"proc_del"}, NEW q \in Target, At(op, q), Advance,
           out' = out, PagesOK'
    PROVE  ReportInv'
<1>1. ToolInv /\ PrintedOK
  BY DEF ReportInv
<1>2. \A f \in Report : ~Printed(f)'
  <2>1. ip' = ip + 1 /\ exe' = exe
    BY DEF Advance
  <2>. QED  BY <1>1, <2>1, NotYetPrinted, PrintedAfter
<1>3. "print_intra_process_simi_mr" \in Report
  BY DEF Report
<1>4. ~Printed("print_intra_process_simi_mr")
  BY <1>1, <1>3, NotYetPrinted
<1>5. out'["print_intra_process_simi_mr"] = << >>
  BY <1>1, <1>4 DEF PrintedOK
<1>6. PrintedOK'
  BY <1>2, <1>5 DEF PrintedOK
<1>7. phase' # "crashed"
  BY DEF Advance, At
<1>. QED  BY <1>6, <1>7 DEF ReportInv, CrashOK

LEMMA BlankType == ASSUME NEW q \in Target, NEW m \in Blank(q) PROVE m \in Seq(Seq(Page))
<1>1. PICK s \in Shape[q] : m = [i \in DOMAIN s |-> [k \in 1..s[i] |-> [hash |-> zero_page_hash, share |-> Unset]]]
  BY DEF Blank
<1>2. s \in Seq(Nat)
  BY ToolAssumption
<1>3. Len(s) \in Nat /\ DOMAIN s = 1..Len(s) /\ \A i \in 1..Len(s) : s[i] \in Nat
  BY <1>2
<1>4. [hash |-> zero_page_hash, share |-> Unset] \in Page
  BY DEF Page
<1>. HIDE DEF Page
<1>5. \A i \in 1..Len(s) : [k \in 1..s[i] |-> [hash |-> zero_page_hash, share |-> Unset]] \in Seq(Page)
  BY <1>3, <1>4
<1>. QED  BY <1>1, <1>3, <1>5, SMTT(30)

\* The pages of a process, by index.
LEMMA PageIndexType ==
    ASSUME NEW X, NEW m \in Seq(Seq(X))
    PROVE  /\ Len(m) \in Nat /\ DOMAIN m = 1..Len(m)
           /\ \A i \in 1..Len(m) : m[i] \in Seq(X) /\ Len(m[i]) \in Nat /\ DOMAIN m[i] = 1..Len(m[i])
           /\ \A x : x \in PageIndex(m) <=>
                \E i \in 1..Len(m) : \E k \in 1..Len(m[i]) : x = <<i, k>>
<1>1. Len(m) \in Nat /\ DOMAIN m = 1..Len(m)
  OBVIOUS
<1>2. \A i \in 1..Len(m) : m[i] \in Seq(X)
  OBVIOUS
<1>3. \A i \in 1..Len(m) : Len(m[i]) \in Nat /\ DOMAIN m[i] = 1..Len(m[i])
  BY <1>2
<1>4. \A x : x \in PageIndex(m) <=> \E i \in 1..Len(m) : x \in {i} \X (1..Len(m[i]))
  BY <1>1, <1>3 DEF PageIndex
<1>. QED  BY <1>1, <1>2, <1>3, <1>4

LEMMA WithHashType ==
    ASSUME NEW m \in Seq(Seq(Page)), NEW g \in [PageIndex(m) -> Hash]
    PROVE  WithHash(m, g) \in Seq(Seq(Page))
<1>1. /\ Len(m) \in Nat /\ DOMAIN m = 1..Len(m)
      /\ \A i \in 1..Len(m) : m[i] \in Seq(Page) /\ Len(m[i]) \in Nat /\ DOMAIN m[i] = 1..Len(m[i])
      /\ \A i \in 1..Len(m) : \A k \in 1..Len(m[i]) : <<i, k>> \in PageIndex(m)
  BY PageIndexType
<1>2. ASSUME NEW i \in 1..Len(m)
      PROVE  [k \in DOMAIN m[i] |-> [m[i][k] EXCEPT !.hash = g[<<i, k>>]]] \in Seq(Page)
  <2>. DEFINE new(k) == [m[i][k] EXCEPT !.hash = g[<<i, k>>]]
  <2>1. ASSUME NEW k \in 1..Len(m[i]) PROVE new(k) \in Page
    <3>1. m[i][k] \in Page
      BY <1>1
    <3>2. g[<<i, k>>] \in Hash
      BY <1>1
    <3>. QED  BY <3>1, <3>2 DEF Page
  <2>2. Len(m[i]) \in Nat /\ DOMAIN m[i] = 1..Len(m[i])
    BY <1>1
  <2>. HIDE DEF new, Page
  <2>3. [k \in 1..Len(m[i]) |-> new(k)] \in Seq(Page)
    BY <2>1, <2>2
  <2>. QED  BY <2>2, <2>3 DEF new
<1>. QED  BY <1>1, <1>2 DEF WithHash

LEMMA WithShareType ==
    ASSUME NEW m \in Seq(Seq(Page)), NEW g \in [PageIndex(m) -> Count]
    PROVE  WithShare(m, g) \in Seq(Seq(Page))
<1>1. /\ Len(m) \in Nat /\ DOMAIN m = 1..Len(m)
      /\ \A i \in 1..Len(m) : m[i] \in Seq(Page) /\ Len(m[i]) \in Nat /\ DOMAIN m[i] = 1..Len(m[i])
      /\ \A i \in 1..Len(m) : \A k \in 1..Len(m[i]) : <<i, k>> \in PageIndex(m)
  BY PageIndexType
<1>2. ASSUME NEW i \in 1..Len(m)
      PROVE  [k \in DOMAIN m[i] |-> [m[i][k] EXCEPT !.share = g[<<i, k>>]]] \in Seq(Page)
  <2>. DEFINE new(k) == [m[i][k] EXCEPT !.share = g[<<i, k>>]]
  <2>1. ASSUME NEW k \in 1..Len(m[i]) PROVE new(k) \in Page
    <3>1. m[i][k] \in Page
      BY <1>1
    <3>2. g[<<i, k>>] \in Count
      BY <1>1
    <3>. QED  BY <3>1, <3>2 DEF Page
  <2>2. Len(m[i]) \in Nat /\ DOMAIN m[i] = 1..Len(m[i])
    BY <1>1
  <2>. HIDE DEF new, Page
  <2>3. [k \in 1..Len(m[i]) |-> new(k)] \in Seq(Page)
    BY <2>1, <2>2
  <2>. QED  BY <2>2, <2>3 DEF new
<1>. QED  BY <1>1, <1>2 DEF WithShare

-----------------------------------------------------------------------------
(* Pages, sets and counts.                                                  *)

LEMMA PageIndexFinite == ASSUME NEW X, NEW p \in Seq(Seq(X)) PROVE IsFiniteSet(PageIndex(p))
<1>. DEFINE S == {{i} \X DOMAIN p[i] : i \in DOMAIN p}
            f == [i \in DOMAIN p |-> {i} \X DOMAIN p[i]]
<1>1. /\ Len(p) \in Nat /\ DOMAIN p = 1..Len(p)
      /\ \A i \in 1..Len(p) : Len(p[i]) \in Nat /\ DOMAIN p[i] = 1..Len(p[i])
  BY PageIndexType
<1>2. IsFiniteSet(DOMAIN p)
  BY <1>1, FS_Interval
<1>3. f \in Surjection(DOMAIN p, S)
  BY DEF Surjection
<1>4. IsFiniteSet(S)
  <2>. HIDE DEF f, S
  <2>. QED  BY <1>2, <1>3, FS_Surjection
<1>5. ASSUME NEW T \in S PROVE IsFiniteSet(T)
  <2>1. PICK i \in 1..Len(p) : T = {i} \X (1..Len(p[i]))
    BY <1>1
  <2>2. IsFiniteSet({i})
    BY FS_Singleton
  <2>3. 1 \in Int /\ Len(p[i]) \in Int
    BY <1>1
  <2>4. IsFiniteSet(1..Len(p[i]))
    BY <2>3, FS_Interval
  <2>. QED  BY <2>1, <2>2, <2>4, FS_Product
<1>. HIDE DEF S
<1>6. IsFiniteSet(UNION S)
  BY <1>4, <1>5, FS_UNION
<1>. QED  BY <1>6 DEF PageIndex, S

\* Subsets of the pages of a process can be counted.
LEMMA Countable ==
    ASSUME NEW X, NEW p \in Seq(Seq(X)), NEW W \in SUBSET PageIndex(p), NEW V \in SUBSET W
    PROVE  /\ IsFiniteSet(V) /\ IsFiniteSet(W) /\ Cardinality(V) \in Nat /\ Cardinality(W) \in Nat
           /\ Cardinality(V) <= Cardinality(W)
<1>1. IsFiniteSet(W)
  BY PageIndexFinite, FS_Subset
<1>2. IsFiniteSet(V) /\ Cardinality(V) <= Cardinality(W)
  BY <1>1, FS_Subset
<1>. QED  BY <1>1, <1>2, FS_CardinalityType

LEMMA PageSets ==
    ASSUME NEW p
    PROVE  /\ DOMAIN AllPages(p) = PageIndex(p)
           /\ Candidates(AllPages(p)) \subseteq Nonzero(AllPages(p))
           /\ Nonzero(AllPages(p)) \subseteq PageIndex(p)
BY DEF AllPages, Candidates, Nonzero

\* What is in a set.
LEMMA AddAllIn ==
    ASSUME NEW pages, NEW W
    PROVE  /\ DOMAIN AddAll(pages, W) = W
           /\ \A k \in W : AddAll(pages, W)[k] = pages[k].hash
           /\ \A v : set_in(AddAll(pages, W), v) <=> v \in Contents(pages, W)
BY DEF AddAll, page_to_u32, set_in, Contents

\* The first of the pages of a content.
IsFirst(pages, W, k) == k \in W /\ ~\E l \in W : Precedes(l, k) /\ pages[l].hash = pages[k].hash

LEMMA FirstExists ==
    ASSUME NEW X, NEW p \in Seq(Seq(X)), NEW W \in SUBSET PageIndex(p), NEW pages, NEW k \in W
    PROVE  \E l : IsFirst(pages, W, l) /\ pages[l].hash = pages[k].hash
<1>. DEFINE S == {l \in W : pages[l].hash = pages[k].hash}
            I == {l[1] : l \in S}
            i == Min(I)
            K == {l[2] : l \in {m \in S : m[1] = i}}
            j == Min(K)
<1>1. \A l \in W : l[1] \in Nat /\ l[2] \in Nat
  BY PageIndexType
<1>2. k \in S /\ k[1] \in I /\ I \in SUBSET Nat
  BY <1>1
<1>3. i \in I /\ \A x \in I : i <= x
  <2>. HIDE DEF I
  <2>. QED  BY <1>2, Least
<1>4. PICK m \in S : m[1] = i
  BY <1>3
<1>5. \A x \in S : i <= x[1]
  BY <1>3
<1>. HIDE DEF i
<1>6. m[2] \in K /\ K \in SUBSET Nat
  BY <1>1, <1>4
<1>7. j \in K /\ \A x \in K : j <= x
  <2>. HIDE DEF K
  <2>. QED  BY <1>6, Least
<1>8. PICK l \in S : l[1] = i /\ l[2] = j
  BY <1>7
<1>9. \A x \in S : x[1] = i => j <= x[2]
  BY <1>7
<1>. HIDE DEF j
<1>10. ASSUME NEW x \in S PROVE ~Precedes(x, l)
  BY <1>1, <1>5, <1>8, <1>9 DEF Precedes
<1>. QED  BY <1>8, <1>10 DEF IsFirst

\* set_add unless set_in leaves one page of each content.
LEMMA AddOnceIn ==
    ASSUME NEW X, NEW p \in Seq(Seq(X)), NEW W \in SUBSET PageIndex(p), NEW pages
    PROVE  /\ DOMAIN AddOnce(pages, W) \subseteq W
           /\ \A k \in DOMAIN AddOnce(pages, W) : AddOnce(pages, W)[k] = pages[k].hash
           /\ \A v : set_in(AddOnce(pages, W), v) <=> v \in Contents(pages, W)
           /\ Cardinality(DOMAIN AddOnce(pages, W)) = Cardinality(Contents(pages, W))
           /\ DOMAIN AddOnce(pages, W) = {} => W = {}
<1>. DEFINE F == {k \in W : IsFirst(pages, W, k)}
            C == Contents(pages, W)
<1>1. AddOnce(pages, W) = AddAll(pages, F)
  BY DEF AddOnce, IsFirst, page_to_u32
<1>2. \A k \in W : \E l \in F : pages[l].hash = pages[k].hash
  BY FirstExists DEF IsFirst
<1>3. \A v : v \in C <=> v \in Contents(pages, F)
  BY <1>2 DEF Contents
<1>4. ASSUME NEW k \in F, NEW l \in F, pages[k].hash = pages[l].hash PROVE k = l
  <2>1. ~Precedes(k, l) /\ ~Precedes(l, k)
    BY <1>4 DEF IsFirst
  <2>2. k \in PageIndex(p) /\ l \in PageIndex(p)
    OBVIOUS
  <2>3. \A x \in PageIndex(p) : \E a, b \in Nat : x = <<a, b>>
    BY PageIndexType
  <2>4. PICK a, b \in Nat : k = <<a, b>>
    BY <2>2, <2>3
  <2>5. PICK c, d \in Nat : l = <<c, d>>
    BY <2>2, <2>3
  <2>. QED  BY <2>1, <2>4, <2>5 DEF Precedes
<1>5. Cardinality(F) = Cardinality(C)
  <2>. DEFINE f == [k \in F |-> pages[k].hash]
  <2>1. f \in Bijection(F, C)
    <3>1. f \in [F -> C]
      BY DEF Contents
    <3>2. \A v \in C : \E k \in F : f[k] = v
      BY <1>2 DEF Contents
    <3>3. \A k, l \in F : f[k] = f[l] => k = l
      BY <1>4
    <3>. HIDE DEF f, F, C
    <3>4. f \in Injection(F, C)
      BY <3>1, <3>3 DEF Injection, IsInjective
    <3>5. f \in Surjection(F, C)
      BY <3>1, <3>2 DEF Surjection
    <3>. QED  BY <3>4, <3>5 DEF Bijection
  <2>2. IsFiniteSet(F)
    BY Countable
  <2>3. ExistsBijection(F, C)
    BY <2>1 DEF ExistsBijection
  <2>. HIDE DEF F, C
  <2>. QED  BY <2>2, <2>3, FS_Bijection
<1>6. F = {} => W = {}
  BY <1>2
<1>. QED  BY <1>1, <1>3, <1>5, <1>6, AddAllIn

-----------------------------------------------------------------------------
(* Sums.                                                                    *)

\* Induction over the numbers, for a set of them.
LEMMA NatSetInduction ==
    ASSUME NEW P, 0 \in P, \A n \in Nat : n \in P => n + 1 \in P
    PROVE  Nat \subseteq P
<1>. DEFINE B == Nat \ P
            R == OpToRel(<, Nat)
<1>. SUFFICES ASSUME B # {} PROVE FALSE
  OBVIOUS
<1>1. IsWellFoundedOn(R, Nat)
  BY NatLessThanWellFounded
<1>2. PICK x \in B : \A y \in B : <<y, x>> \notin R
  <2>. HIDE DEF R
  <2>. QED  BY <1>1, WFMin
<1>3. \A y \in B : ~(y < x)
  BY <1>2 DEF OpToRel
<1>4. x # 0 /\ x - 1 \in Nat /\ x - 1 < x
  OBVIOUS
<1>. QED  BY <1>3, <1>4

Term(f, k) == IF k \in DOMAIN f THEN f[k] ELSE 0

\* sum[k] is the sum of the first k numbers.
IsSum(sum, f, n) ==
    /\ sum = [k \in 0..n |-> IF k = 0 THEN 0 ELSE sum[k - 1] + Term(f, k)]
    /\ sum \in [0..n -> Nat]

LEMMA SumExists ==
    ASSUME NEW n \in Nat, NEW f, \A k \in 1..n : Term(f, k) \in Nat
    PROVE  \E sum : IsSum(sum, f, n)
<1>. DEFINE Good(sum, m) == sum[0] = 0 /\ \A k \in 1..m : sum[k] = sum[k - 1] + Term(f, k)
            P == {m \in Nat : m <= n => \E sum \in [0..m -> Nat] : Good(sum, m)}
<1>1. 0 \in P
  <2>1. [k \in 0..0 |-> 0] \in [0..0 -> Nat] /\ Good([k \in 0..0 |-> 0], 0)
    OBVIOUS
  <2>. QED  BY <2>1
<1>2. ASSUME NEW m \in Nat, m \in P PROVE m + 1 \in P
  <2>. SUFFICES ASSUME m + 1 <= n PROVE \E sum \in [0..m + 1 -> Nat] : Good(sum, m + 1)
    OBVIOUS
  <2>1. PICK sum \in [0..m -> Nat] : Good(sum, m)
    BY <1>2
  <2>. DEFINE t == Term(f, m + 1)
              new == [k \in 0..(m + 1) |-> IF k = m + 1 THEN sum[m] + t ELSE sum[k]]
  <2>2. t \in Nat /\ sum[m] + t \in Nat
    <3>1. m + 1 \in 1..n /\ m \in 0..m
      OBVIOUS
    <3>2. t \in Nat
      BY <3>1
    <3>3. sum[m] \in Nat
      BY <3>1
    <3>. HIDE DEF t
    <3>. QED  BY <3>2, <3>3
  <2>3. new \in [0..(m + 1) -> Nat] /\ new[0] = 0
    BY <2>1, <2>2
  <2>4. ASSUME NEW k \in 1..(m + 1) PROVE new[k] = new[k - 1] + Term(f, k)
    <3>1. new[k - 1] = sum[k - 1]
      OBVIOUS
    <3>2. CASE k = m + 1
      BY <3>1, <3>2
    <3>3. CASE k # m + 1
      <4>1. k \in 1..m /\ new[k] = sum[k]
        BY <3>3
      <4>. QED  BY <2>1, <3>1, <4>1
    <3>. QED  BY <3>2, <3>3
  <2>. HIDE DEF new
  <2>. QED  BY <2>3, <2>4
<1>. HIDE DEF P
<1>3. Nat \subseteq P
  BY <1>1, <1>2, NatSetInduction
<1>4. PICK sum \in [0..n -> Nat] : Good(sum, n)
  <2>1. n \in P /\ n <= n
    BY <1>3
  <2>. HIDE DEF Good
  <2>. QED  BY <2>1 DEF P
<1>5. ASSUME NEW k \in 0..n PROVE sum[k] = IF k = 0 THEN 0 ELSE sum[k - 1] + Term(f, k)
  <2>1. k # 0 => k \in 1..n
    OBVIOUS
  <2>. QED  BY <1>4, <2>1
<1>. QED  BY <1>5 DEF IsSum

\* sum[k] is the sum of the first k numbers and sum[n] is Total.
AddsUp(sum, f, n) ==
    /\ sum \in [0..n -> Nat] /\ Total(f, n) = sum[n] /\ sum[0] = 0
    /\ \A k \in Nat : k + 1 <= n => sum[k + 1] = sum[k] + Term(f, k + 1)

LEMMA TotalIs ==
    ASSUME NEW n \in Nat, NEW f, \A k \in 1..n : Term(f, k) \in Nat
    PROVE  \E sum : AddsUp(sum, f, n)
<1>. DEFINE E(sum) == sum = [k \in 0..n |-> IF k = 0 THEN 0 ELSE sum[k - 1] + Term(f, k)]
            F == CHOOSE sum : E(sum)
<1>1. PICK s : IsSum(s, f, n)
  BY SumExists
<1>2. E(F)
  BY <1>1 DEF IsSum
<1>3. Total(f, n) = F[n]
  BY DEF Total, Term
<1>. HIDE DEF F
<1>4. ASSUME NEW k \in 0..n PROVE F[k] = IF k = 0 THEN 0 ELSE F[k - 1] + Term(f, k)
  BY <1>2
<1>5. F[0] = 0
  <2>1. 0 \in 0..n
    OBVIOUS
  <2>. QED  BY <1>4, <2>1
<1>6. ASSUME NEW k \in Nat, k + 1 <= n PROVE F[k + 1] = F[k] + Term(f, k + 1) /\ k + 1 \in 1..n
  <2>1. k + 1 \in 0..n /\ k + 1 # 0 /\ (k + 1) - 1 = k /\ k + 1 \in 1..n
    BY <1>6
  <2>. QED  BY <1>4, <2>1
<1>7. F \in [0..n -> Nat]
  <2>. DEFINE P == {k \in Nat : k <= n => F[k] \in Nat}
  <2>1. 0 \in P
    BY <1>5
  <2>2. ASSUME NEW k \in Nat, k \in P PROVE k + 1 \in P
    <3>. SUFFICES ASSUME k + 1 <= n PROVE F[k + 1] \in Nat
      OBVIOUS
    <3>1. F[k] \in Nat
      BY <2>2
    <3>2. Term(f, k + 1) \in Nat
      BY <1>6
    <3>. QED  BY <1>6, <3>1, <3>2
  <2>. HIDE DEF P
  <2>3. Nat \subseteq P
    BY <2>1, <2>2, NatSetInduction
  <2>4. \A k \in 0..n : F[k] \in Nat
    BY <2>3 DEF P
  <2>5. DOMAIN F = 0..n /\ F = [k \in 0..n |-> F[k]]
    BY <1>2
  <2>. QED  BY <2>4, <2>5
<1>8. AddsUp(F, f, n)
  BY <1>3, <1>5, <1>6, <1>7 DEF AddsUp
<1>. QED  BY <1>8

\* What a union holds is no more than its parts hold.
LEMMA TotalBounds ==
    ASSUME NEW n \in Nat, NEW f, NEW C, IsFiniteSet(C), NEW D, \A j \in 1..n : D[j] \in SUBSET C,
           \A j \in 1..n : Cardinality(D[j]) = Term(f, j)
    PROVE  Cardinality({x \in C : \E j \in 1..n : x \in D[j]}) <= Total(f, n)
<1>. DEFINE U(m) == {x \in C : \E j \in 1..m : x \in D[j]}
<1>1. \A j \in 1..n : Term(f, j) \in Nat /\ IsFiniteSet(D[j])
  BY FS_Subset, FS_CardinalityType
<1>a. PICK sum : AddsUp(sum, f, n)
  BY <1>1, TotalIs
<1>2. /\ sum \in [0..n -> Nat] /\ Total(f, n) = sum[n] /\ sum[0] = 0
      /\ \A k \in Nat : k + 1 <= n => sum[k + 1] = sum[k] + Term(f, k + 1)
  BY <1>a DEF AddsUp
<1>. DEFINE P == {m \in Nat : m <= n => IsFiniteSet(U(m)) /\ Cardinality(U(m)) <= sum[m]}
<1>3. 0 \in P
  <2>1. U(0) = {}
    OBVIOUS
  <2>2. IsFiniteSet({}) /\ Cardinality({}) = 0
    BY FS_EmptySet
  <2>. HIDE DEF U
  <2>3. IsFiniteSet(U(0)) /\ Cardinality(U(0)) = 0
    BY <2>1, <2>2
  <2>4. Cardinality(U(0)) <= sum[0]
    BY <1>2, <2>3
  <2>. QED  BY <2>3, <2>4
<1>4. ASSUME NEW m \in Nat, m \in P PROVE m + 1 \in P
  <2>. SUFFICES ASSUME m + 1 <= n PROVE IsFiniteSet(U(m + 1)) /\ Cardinality(U(m + 1)) <= sum[m + 1]
    OBVIOUS
  <2>1. m + 1 \in 1..n /\ m \in 0..n
    OBVIOUS
  <2>2. IsFiniteSet(U(m)) /\ Cardinality(U(m)) <= sum[m]
    BY <1>4
  <2>3. U(m + 1) = U(m) \cup D[m + 1]
    <3>1. \A j : j \in 1..(m + 1) <=> j \in 1..m \/ j = m + 1
      OBVIOUS
    <3>. QED  BY <2>1, <3>1
  <2>. HIDE DEF U
  <2>4. /\ IsFiniteSet(U(m) \cup D[m + 1])
        /\ Cardinality(U(m) \cup D[m + 1]) =
            Cardinality(U(m)) + Cardinality(D[m + 1]) - Cardinality(U(m) \cap D[m + 1])
    BY <1>1, <2>1, <2>2, FS_Union
  <2>5. Cardinality(U(m) \cap D[m + 1]) \in Nat
    BY <2>2, FS_Intersection, FS_CardinalityType
  <2>6. Cardinality(U(m)) \in Nat
    BY <2>2, FS_CardinalityType
  <2>7. Cardinality(D[m + 1]) = Term(f, m + 1) /\ Term(f, m + 1) \in Nat
    BY <1>1, <2>1
  <2>8. sum[m + 1] = sum[m] + Term(f, m + 1) /\ sum[m] \in Nat
    BY <1>2, <2>1
  <2>9. IsFiniteSet(U(m + 1))
    BY <2>3, <2>4
  <2>. DEFINE a == Cardinality(U(m))
              b == Cardinality(D[m + 1])
              c == Cardinality(U(m) \cap D[m + 1])
              t == Term(f, m + 1)
  <2>10. Cardinality(U(m + 1)) = a + b - c
    BY <2>3, <2>4
  <2>11. a \in Nat /\ c \in Nat /\ b = t /\ t \in Nat /\ a <= sum[m]
    BY <2>2, <2>5, <2>6, <2>7
  <2>12. sum[m + 1] = sum[m] + t /\ sum[m] \in Nat
    BY <2>8
  <2>. HIDE DEF a, b, c, t
  <2>13. a + b - c <= sum[m + 1]
    BY <2>11, <2>12
  <2>. QED  BY <2>9, <2>10, <2>13
<1>. HIDE DEF P
<1>5. Nat \subseteq P
  BY <1>3, <1>4, NatSetInduction
<1>6. Cardinality(U(n)) <= sum[n]
  BY <1>5 DEF P
<1>. QED  BY <1>2, <1>6

\* Pages counted by regions are all pages.
LEMMA TotalOfRegions ==
    ASSUME NEW X, NEW p \in Seq(Seq(X)), NEW B \in SUBSET PageIndex(p), NEW f,
           \A j \in 1..Len(p) : Cardinality({x \in B : x[1] = j}) = Term(f, j)
    PROVE  Total(f, Len(p)) = Cardinality(B)
<1>. DEFINE n == Len(p)
            U(m) == {x \in B : x[1] <= m}
            D(m) == {x \in B : x[1] = m}
<1>1. n \in Nat /\ \A x \in B : x[1] \in 1..n
  BY PageIndexType
<1>2. IsFiniteSet(B)
  BY Countable
<1>3. \A m : IsFiniteSet(U(m)) /\ IsFiniteSet(D(m)) /\ Cardinality(D(m)) \in Nat
  BY <1>2, FS_Subset, FS_CardinalityType
<1>4. \A j \in 1..n : Term(f, j) \in Nat
  BY <1>3
<1>a. PICK sum : AddsUp(sum, f, n)
  <2>. HIDE DEF n
  <2>. QED  BY <1>1, <1>4, TotalIs
<1>5. /\ sum \in [0..n -> Nat] /\ Total(f, n) = sum[n] /\ sum[0] = 0
      /\ \A k \in Nat : k + 1 <= n => sum[k + 1] = sum[k] + Term(f, k + 1)
  BY <1>a DEF AddsUp
<1>. DEFINE P == {m \in Nat : m <= n => Cardinality(U(m)) = sum[m]}
<1>6. 0 \in P
  <2>1. U(0) = {}
    BY <1>1
  <2>. HIDE DEF U
  <2>. QED  BY <1>5, <2>1, FS_EmptySet
<1>7. ASSUME NEW m \in Nat, m \in P PROVE m + 1 \in P
  <2>. HIDE DEF n, U
  <2>. SUFFICES ASSUME m + 1 <= n PROVE Cardinality(U(m + 1)) = sum[m + 1]
    OBVIOUS
  <2>1. m + 1 \in 1..n /\ m \in 0..n /\ m <= n
    BY <1>1
  <2>2. Cardinality(U(m)) = sum[m] /\ sum[m] \in Nat
    <3>1. Cardinality(U(m)) = sum[m]
      BY <1>7, <2>1
    <3>2. sum[m] \in Nat
      BY <1>5, <2>1
    <3>. QED  BY <3>1, <3>2
  <2>3. U(m + 1) = U(m) \cup D(m + 1) /\ U(m) \cap D(m + 1) = {}
    <3>1. \A x \in B : x[1] <= m + 1 <=> x[1] <= m \/ x[1] = m + 1
      BY <1>1
    <3>2. \A x \in B : ~(x[1] <= m /\ x[1] = m + 1)
      BY <1>1
    <3>. QED  BY <3>1, <3>2 DEF U
  <2>4. Cardinality(D(m + 1)) = Term(f, m + 1)
    BY <2>1 DEF n
  <2>. HIDE DEF D
  <2>5. Cardinality(U(m) \cup D(m + 1)) =
            Cardinality(U(m)) + Cardinality(D(m + 1)) - Cardinality(U(m) \cap D(m + 1))
    BY <1>3, FS_Union
  <2>6. Cardinality({}) = 0
    BY FS_EmptySet
  <2>7. Term(f, m + 1) \in Nat /\ sum[m + 1] = sum[m] + Term(f, m + 1)
    BY <1>4, <1>5, <2>1
  <2>. DEFINE a == Cardinality(U(m))
              b == Cardinality(D(m + 1))
  <2>8. Cardinality(U(m + 1)) = a + b - 0
    BY <2>3, <2>5, <2>6
  <2>9. a = sum[m] /\ b = Term(f, m + 1)
    BY <2>2, <2>4
  <2>. HIDE DEF a, b
  <2>. QED  BY <2>2, <2>7, <2>8, <2>9
<1>. HIDE DEF P
<1>8. Nat \subseteq P
  BY <1>6, <1>7, NatSetInduction
<1>9. Cardinality(U(n)) = sum[n]
  BY <1>1, <1>8 DEF P
<1>10. U(n) = B
  BY <1>1
<1>. QED  BY <1>5, <1>9, <1>10

LEMMA InitReportInv == TInit => ReportInv
<1>. SUFFICES ASSUME TInit PROVE ReportInv
  OBVIOUS
<1>1. ToolInv
  BY InitToolInv
<1>2. ip = 1 /\ phase = "running" /\ out = [f \in Report |-> << >>] /\ \A q \in Target : obj[q] = NoProcess
  BY DEF TInit
<1>3. \A q \in Target : obj[q].maps = << >>
  BY <1>2 DEF NoProcess
<1>4. PagesOK
  <2>1. << >> \in Seq(Seq(Page))
    OBVIOUS
  <2>. QED  BY <1>3, <2>1 DEF PagesOK
<1>5. \A f : ~Printed(f)
  BY <1>2 DEF Printed
<1>6. out["print_intra_process_simi_mr"] = << >>
  BY <1>2 DEF Report
<1>7. PrintedOK
  BY <1>5, <1>6 DEF PrintedOK
<1>. QED  BY <1>1, <1>2, <1>4, <1>7 DEF ReportInv, CrashOK

\* One process gets new regions.
LEMMA OneSetUp ==
    ASSUME ToolInv, PagesOK, NEW q \in Target, NEW r, obj' = [obj EXCEPT ![q] = r], r.maps \in Seq(Seq(Page))
    PROVE  PagesOK'
<1>1. PICK M : obj \in [Target -> Process(M)]
  BY DEF ToolInv
<1>2. \A p \in Target : obj'[p] = IF p = q THEN r ELSE obj[p]
  BY <1>1
<1>. QED  BY <1>2 DEF PagesOK

LEMMA InitReports == ASSUME ReportInv, NEW q \in Target, proc_init(q) PROVE ReportInv'
<1>1. ToolInv /\ PagesOK
  BY DEF ReportInv
<1>2. ToolInv'
  BY <1>1, InitKeeps
<1>3. At("proc_init", q) /\ Advance /\ out' = out /\ "proc_init" \in Life \ {"proc_del"}
  BY DEF proc_init, Life
<1>4. [NoProcess EXCEPT !.st = "live"].maps = << >>
  BY DEF NoProcess
<1>5. obj' = [obj EXCEPT ![q] = [NoProcess EXCEPT !.st = "live"]]
  BY DEF proc_init
<1>6. PagesOK'
  <2>1. << >> \in Seq(Seq(Page))
    OBVIOUS
  <2>2. [NoProcess EXCEPT !.st = "live"].maps \in Seq(Seq(Page))
    BY <1>4, <2>1
  <2>. QED  BY <1>1, <1>5, <2>2, OneSetUp
<1>. QED  BY <1>2, <1>3, <1>6, SetUpKeeps

LEMMA DoMapsReports == ASSUME ReportInv, NEW q \in Target, proc_do_maps(q) PROVE ReportInv'
<1>1. ToolInv /\ PagesOK
  BY DEF ReportInv
<1>2. ToolInv'
  BY <1>1, DoMapsKeeps
<1>3. At("proc_do_maps", q) /\ Advance /\ out' = out /\ "proc_do_maps" \in Life \ {"proc_del"}
  BY DEF proc_do_maps, Life
<1>4. PICK m \in Blank(q) :
        obj' = [obj EXCEPT ![q].pMapsFile = NewFd(fds), ![q].built = "maps", ![q].maps = m]
  BY DEF proc_do_maps
<1>5. PICK M : obj \in [Target -> Process(M)]
  BY <1>1 DEF ToolInv
<1>. DEFINE r == [obj[q] EXCEPT !.pMapsFile = NewFd(fds), !.built = "maps", !.maps = m]
<1>6. obj' = [obj EXCEPT ![q] = r]
  BY <1>4, <1>5
<1>7. r.maps = m
  BY <1>5 DEF Process
<1>8. r.maps \in Seq(Seq(Page))
  BY <1>7, BlankType
<1>. HIDE DEF r
<1>9. PagesOK'
  BY <1>1, <1>6, <1>8, OneSetUp
<1>. QED  BY <1>2, <1>3, <1>9, SetUpKeeps

LEMMA DoReports == ASSUME ReportInv, NEW q \in Target, proc_do(q) PROVE ReportInv'
<1>. DEFINE t1 == Open(fds, <<"maps", q>>)
            t2 == Open(t1, <<"mem", q>>)
<1>1. ToolInv /\ PagesOK
  BY DEF ReportInv
<1>2. ToolInv'
  BY <1>1, DoKeeps
<1>3. At("proc_do", q) /\ Advance /\ out' = out /\ "proc_do" \in Life \ {"proc_del"}
  BY DEF proc_do, Life
<1>4. PICK m \in Blank(q) : \E g \in [PageIndex(m) -> Hash] :
        obj' = [obj EXCEPT ![q].pMapsFile = NewFd(fds), ![q].pMemFile = NewFd(t1),
                           ![q].pagemap_fd = NewFd(t2), ![q].built = "pages",
                           ![q].maps = WithHash(m, g)]
  BY DEF proc_do
<1>5. PICK g \in [PageIndex(m) -> Hash] :
        obj' = [obj EXCEPT ![q].pMapsFile = NewFd(fds), ![q].pMemFile = NewFd(t1),
                           ![q].pagemap_fd = NewFd(t2), ![q].built = "pages",
                           ![q].maps = WithHash(m, g)]
  BY <1>4
<1>6. PICK M : obj \in [Target -> Process(M)]
  BY <1>1 DEF ToolInv
<1>. HIDE DEF t1, t2
<1>. DEFINE r == [obj[q] EXCEPT !.pMapsFile = NewFd(fds), !.pMemFile = NewFd(t1),
                                !.pagemap_fd = NewFd(t2), !.built = "pages",
                                !.maps = WithHash(m, g)]
<1>7. obj' = [obj EXCEPT ![q] = r]
  BY <1>5, <1>6
<1>8. r.maps = WithHash(m, g)
  BY <1>6 DEF Process
<1>9. r.maps \in Seq(Seq(Page))
  BY <1>8, BlankType, WithHashType
<1>. HIDE DEF r
<1>10. PagesOK'
  BY <1>1, <1>7, <1>9, OneSetUp
<1>. QED  BY <1>2, <1>3, <1>10, SetUpKeeps

LEMMA ParsePagemapReports == ASSUME ReportInv, NEW q \in Target, proc_parse_pagemap(q) PROVE ReportInv'
<1>1. ToolInv /\ PagesOK
  BY DEF ReportInv
<1>2. ToolInv'
  BY <1>1, ParsePagemapKeeps
<1>3. At("proc_parse_pagemap", q) /\ Advance /\ out' = out /\ "proc_parse_pagemap" \in Life \ {"proc_del"}
  BY DEF proc_parse_pagemap, Life
<1>4. PICK g \in [PageIndex(obj[q].maps) -> Count] :
        obj' = [obj EXCEPT ![q].maps = WithShare(@, g), ![q].scanned = TRUE]
  BY DEF proc_parse_pagemap
<1>5. PICK M : obj \in [Target -> Process(M)]
  BY <1>1 DEF ToolInv
<1>. DEFINE r == [obj[q] EXCEPT !.maps = WithShare(obj[q].maps, g), !.scanned = TRUE]
<1>6. obj' = [obj EXCEPT ![q] = r]
  BY <1>4, <1>5
<1>7. r.maps = WithShare(obj[q].maps, g)
  BY <1>5 DEF Process
<1>8. r.maps \in Seq(Seq(Page))
  BY <1>1, <1>7, WithShareType DEF PagesOK
<1>. HIDE DEF r
<1>9. PagesOK'
  BY <1>1, <1>6, <1>8, OneSetUp
<1>. QED  BY <1>2, <1>3, <1>9, SetUpKeeps

LEMMA ProcSame == ASSUME \A q \in Target : obj'[q].maps = obj[q].maps PROVE proc' = proc /\ (PagesOK => PagesOK')
<1>1. \A i \in DOMAIN Pids : Pids[i] \in Target
  BY PidsType
<1>2. proc' = proc
  BY <1>1 DEF proc
<1>3. PagesOK => PagesOK'
  BY DEF PagesOK
<1>. QED  BY <1>2, <1>3

\* A call that leaves pages and reports alone.
LEMMA QuietReports ==
    ASSUME ReportInv, ToolInv', \A q \in Target : obj'[q].maps = obj[q].maps, out' = out,
           \A f \in Report : Printed(f)' <=> Printed(f), phase' # "crashed" \/ UNCHANGED <<exe, ip, phase>>
    PROVE  ReportInv'
<1>1. proc' = proc /\ PagesOK'
  BY ProcSame DEF ReportInv
<1>2. "print_intra_process_simi_mr" \in Report
  BY DEF Report
<1>3. PrintedOK'
  BY <1>1, <1>2 DEF ReportInv, PrintedOK
<1>4. CrashOK'
  BY <1>1 DEF ReportInv, CrashOK
<1>. QED  BY <1>1, <1>3, <1>4 DEF ReportInv

LEMMA DelReports == ASSUME ReportInv, NEW q \in Target, proc_del(q) PROVE ReportInv'
<1>1. ToolInv /\ PagesOK
  BY DEF ReportInv
<1>2. ToolInv'
  BY <1>1, DelKeeps
<1>3. At("proc_del", q) /\ out' = out
  BY DEF proc_del
<1>4. Main[exe][ip][1] = "proc_del"
  BY <1>3 DEF At
<1>5. ~WildFree(q)
  <2>. SUFFICES ASSUME WildFree(q) PROVE FALSE
    OBVIOUS
  <2>1. phase' = "crashed" /\ exe' = exe /\ ip' = ip
    BY DEF proc_del
  <2>2. Main[exe'][ip'][1] = "print_total_dup"
    BY <1>2, <2>1 DEF ToolInv
  <2>. QED  BY <1>4, <2>1, <2>2
<1>6. obj' = [obj EXCEPT ![q].st = "deleted"] /\ Advance
  BY <1>5 DEF proc_del
<1>7. \A p \in Target : obj'[p].maps = obj[p].maps
  <2>1. PICK M : obj \in [Target -> Process(M)]
    BY <1>1 DEF ToolInv
  <2>2. ASSUME NEW p \in Target PROVE obj'[p].maps = obj[p].maps
    <3>1. obj[p] \in Process(M) /\ obj'[p] = IF p = q THEN [obj[p] EXCEPT !.st = "deleted"] ELSE obj[p]
      BY <1>6, <2>1
    <3>2. [obj[p] EXCEPT !.st = "deleted"].maps = obj[p].maps
      BY <3>1 DEF Process
    <3>. QED  BY <3>1, <3>2
  <2>. QED  BY <2>2
<1>8. ip' = ip + 1 /\ exe' = exe /\ phase' = phase
  BY <1>6 DEF Advance
<1>a. phase' # "crashed"
  BY <1>3, <1>8 DEF At
<1>9. "proc_del" \notin Report
  BY DEF Report
<1>10. \A f \in Report : Printed(f)' <=> Printed(f)
  BY <1>1, <1>3, <1>8, <1>9, PrintedAfter
<1>. QED  BY <1>2, <1>3, <1>7, <1>a, <1>10, QuietReports

LEMMA OtherReports == ASSUME ReportInv, NEW q \in Target, Other(q) PROVE ReportInv'
<1>1. ToolInv /\ PagesOK
  BY DEF ReportInv
<1>2. ToolInv'
  BY <1>1, OtherKeeps
<1>3. PICK op \in {"proc_attach", "proc_detach", "proc_print_pages", "maps_stat", "nonzero_stat"} :
        At(op, q)
  BY DEF Other
<1>4. op \notin Report
  BY DEF Report
<1>5. ip' = ip + 1 /\ exe' = exe /\ phase' = phase /\ obj' = obj /\ out' = out
  BY DEF Other, Advance
<1>6. \A f \in Report : Printed(f)' <=> Printed(f)
  BY <1>1, <1>3, <1>4, <1>5, PrintedAfter
<1>7. phase' # "crashed"
  BY <1>3, <1>5 DEF At
<1>. QED  BY <1>2, <1>5, <1>6, <1>7, QuietReports

\* A report is printed.
LEMMA PrintsReports ==
    ASSUME ReportInv, NEW f \in Report, NEW rows \in RowsOf(f, proc), Prints(f, rows)
    PROVE  ReportInv'
<1>1. ToolInv /\ PagesOK /\ PrintedOK
  BY DEF ReportInv
<1>2. ToolInv'
  BY <1>1, PrintsKeeps
<1>3. At(f, Pids[1]) /\ ip' = ip + 1 /\ exe' = exe /\ phase' = phase /\ obj' = obj
      /\ out' = [out EXCEPT ![f] = rows]
  BY DEF Prints, Advance
<1>4. \A g : Printed(g)' <=> Printed(g) \/ g = f
  BY <1>1, <1>3, PrintedAfter, FirstTarget
<1>5. proc' = proc /\ PagesOK'
  BY <1>1, <1>3, ProcSame
<1>6. DOMAIN out = Report /\ out'[f] = rows /\ \A g \in Report : g # f => out'[g] = out[g]
  BY <1>1, <1>3 DEF ToolInv
<1>7. \A g \in Report : Printed(g)' => out'[g] \in RowsOf(g, proc')
  BY <1>1, <1>4, <1>5, <1>6 DEF PrintedOK
<1>8. "print_intra_process_simi_mr" \in Report
  BY DEF Report
<1>9. PrintedOK'
  BY <1>1, <1>4, <1>6, <1>7, <1>8 DEF PrintedOK
<1>10. CrashOK'
  BY <1>3 DEF CrashOK, At
<1>. QED  BY <1>2, <1>5, <1>9, <1>10 DEF ReportInv

LEMMA CmpReportReports == ASSUME ReportInv, CmpReport PROVE ReportInv'
<1>1. PICK rows \in print_simi(proc[1], proc[2]) : Prints("print_simi", rows)
  BY DEF CmpReport
<1>2. "print_simi" \in Report /\ RowsOf("print_simi", proc) = print_simi(proc[1], proc[2])
  BY DEF Report, RowsOf
<1>. QED  BY <1>1, <1>2, PrintsReports

LEMMA SetcmpReportReports == ASSUME ReportInv, SetcmpReport PROVE ReportInv'
<1>1. \E f \in Report : \E rows \in RowsOf(f, proc) : Prints(f, rows)
  <2>1. CASE Prints("print_intra_simi", print_intra_simi(proc))
    <3>1. "print_intra_simi" \in Report /\ print_intra_simi(proc) \in RowsOf("print_intra_simi", proc)
      BY DEF Report, RowsOf
    <3>. QED  BY <2>1, <3>1
  <2>2. CASE Prints("print_inter_simi", print_inter_simi(proc))
    <3>1. "print_inter_simi" \in Report /\ print_inter_simi(proc) \in RowsOf("print_inter_simi", proc)
      BY DEF Report, RowsOf
    <3>. QED  BY <2>2, <3>1
  <2>3. CASE Prints("print_total_dup", print_total_dup(proc))
    <3>1. "print_total_dup" \in Report /\ print_total_dup(proc) \in RowsOf("print_total_dup", proc)
      BY DEF Report, RowsOf
    <3>. QED  BY <2>3, <3>1
  <2>4. CASE Prints("print_simi_matrix", print_simi_matrix(proc))
    <3>1. "print_simi_matrix" \in Report /\ print_simi_matrix(proc) \in RowsOf("print_simi_matrix", proc)
      BY DEF Report, RowsOf
    <3>. QED  BY <2>4, <3>1
  <2>5. CASE Prints("print_inter_simi_mr", print_inter_simi_mr(proc))
    <3>1. "print_inter_simi_mr" \in Report /\ print_inter_simi_mr(proc) \in RowsOf("print_inter_simi_mr", proc)
      BY DEF Report, RowsOf
    <3>. QED  BY <2>5, <3>1
  <2>6. CASE Prints("print_intra_process_simi_mr", print_intra_process_simi_mr(proc))
    <3>1. /\ "print_intra_process_simi_mr" \in Report
          /\ print_intra_process_simi_mr(proc) \in RowsOf("print_intra_process_simi_mr", proc)
      BY DEF Report, RowsOf
    <3>. QED  BY <2>6, <3>1
  <2>. QED  BY <2>1, <2>2, <2>3, <2>4, <2>5, <2>6 DEF SetcmpReport
<1>. QED  BY <1>1, PrintsReports

\* print_total_dup does not come to its end, so it does not count as printed.
LEMMA CrashReports == ASSUME ReportInv, TotalDupCrash PROVE ReportInv'
<1>1. ToolInv /\ PagesOK /\ PrintedOK
  BY DEF ReportInv
<1>2. ToolInv'
  BY <1>1, TotalDupCrashKeeps
<1>3. /\ At("print_total_dup", Pids[1]) /\ TotalCrashes(proc) /\ exe' = exe /\ ip' = ip /\ obj' = obj
      /\ \E rows : out' = [out EXCEPT !["print_total_dup"] = rows]
  BY DEF TotalDupCrash
<1>4. proc' = proc /\ PagesOK'
  BY <1>1, <1>3, ProcSame
<1>5. \A f : Printed(f)' <=> Printed(f)
  BY <1>3 DEF Printed
<1>6. \A f \in Report : f # "print_total_dup" => out'[f] = out[f]
  BY <1>1, <1>3 DEF ToolInv
<1>7. ~Printed("print_total_dup")
  <2>. SUFFICES ASSUME Printed("print_total_dup") PROVE FALSE
    OBVIOUS
  <2>1. /\ exe \in Tools /\ ip \in 1..Len(Main[exe]) /\ Len(Main[exe]) \in Nat
        /\ Main[exe][ip][1] = "print_total_dup"
    BY <1>1, <1>3, FirstTarget, Called DEF CallOK
  <2>2. PICK k \in 1..ip - 1 : Main[exe][k][1] = "print_total_dup"
    BY DEF Printed
  <2>3. k \in 1..Len(Main[exe]) /\ k # ip
    BY <2>1
  <2>4. ReportOK(exe, ip)
    BY <2>1, AllReported DEF ReportsOK, SetcmpReports
  <2>. QED  BY <2>1, <2>2, <2>3, <2>4 DEF ReportOK
<1>8. PrintedOK'
  BY <1>1, <1>4, <1>5, <1>6, <1>7 DEF PrintedOK, Report
<1>9. CrashOK'
  BY <1>3, <1>4 DEF CrashOK, At
<1>. QED  BY <1>2, <1>4, <1>8, <1>9 DEF ReportInv

LEMMA ReportInductive == ReportInv /\ [TNext]_tvars => ReportInv'
<1>. SUFFICES ASSUME ReportInv, [TNext]_tvars PROVE ReportInv'
  OBVIOUS
<1>1. ToolInv /\ ToolInv'
  BY ToolInductive DEF ReportInv
<1>2. ASSUME NEW q \in Target,
             proc_init(q) \/ proc_do_maps(q) \/ proc_do(q) \/ proc_parse_pagemap(q)
      PROVE  ReportInv'
  BY <1>2, InitReports, DoMapsReports, DoReports, ParsePagemapReports
<1>3. ASSUME NEW q \in Target, proc_del(q) \/ Other(q) PROVE ReportInv'
  BY <1>3, DelReports, OtherReports
<1>4. ASSUME NEW q \in Target, Fails(q) PROVE ReportInv'
  <2>1. phase' # "crashed" /\ exe' = exe /\ ip' = ip /\ obj' = obj /\ out' = out
    BY <1>4 DEF Fails
  <2>2. \A f \in Report : Printed(f)' <=> Printed(f)
    BY <2>1 DEF Printed
  <2>. QED  BY <1>1, <2>1, <2>2, QuietReports
<1>5. CASE CmpReport \/ SetcmpReport \/ TotalDupCrash
  BY <1>5, CmpReportReports, SetcmpReportReports, CrashReports
<1>6. CASE MainReturns
  <2>1. phase' # "crashed" /\ exe' = exe /\ ip' = ip /\ obj' = obj /\ out' = out
    BY <1>6 DEF MainReturns
  <2>2. \A f \in Report : Printed(f)' <=> Printed(f)
    BY <2>1 DEF Printed
  <2>. QED  BY <1>1, <2>1, <2>2, QuietReports
<1>7. CASE UNCHANGED tvars
  <2>1. phase' = phase /\ exe' = exe /\ ip' = ip /\ obj' = obj /\ out' = out
    BY <1>7 DEF tvars, control
  <2>2. \A f \in Report : Printed(f)' <=> Printed(f)
    BY <2>1 DEF Printed
  <2>. QED  BY <1>1, <2>1, <2>2, QuietReports
<1>. QED  BY <1>2, <1>3, <1>4, <1>5, <1>6, <1>7 DEF TNext

-----------------------------------------------------------------------------
(* The theorems about the reports.                                          *)

\* The processes of the reports.
LEMMA ProcType ==
    ASSUME ReportInv
    PROVE  DOMAIN proc = 1..Len(Pids) /\ \A i \in 1..Len(Pids) : proc[i] \in Seq(Seq(Page))
BY PidsType DEF ReportInv, PagesOK, proc

\* A tool crashes in print_total_dup only, and only if one of the processes has
\* no page that is both nonzero and mapped at most once: then its set is empty
\* and set_first returns a wild pointer (setcmp.c:298).  proc_del never frees
\* a page array that nobody has set.
THEOREM CrashesOnlyIfEmpty == TSpec => []CrashOnlyIfEmpty
<1>1. ReportInv => CrashOnlyIfEmpty
  <2>. SUFFICES ASSUME ReportInv, phase = "crashed" PROVE CrashOnlyIfEmpty
    BY DEF CrashOnlyIfEmpty
  <2>1. Main[exe][ip][1] = "print_total_dup" /\ exe \in Tools /\ ip \in 1..Len(Main[exe])
    BY DEF ReportInv, ToolInv, CrashOK
  <2>2. ReportOK(exe, ip)
    BY <2>1, AllReported DEF ReportsOK, SetcmpReports
  <2>3. exe \in {"setcmp", "setcmp all"}
    BY <2>1, <2>2, Zenon DEF ReportOK, IsSetcmp
  <2>4. PICK i \in DOMAIN proc : DOMAIN uniq_set_from_proc(proc[i]) = {}
    BY DEF ReportInv, CrashOK, TotalCrashes
  <2>5. Candidates(AllPages(proc[i])) = {}
    BY <2>4, ProcType, PageSets, AddOnceIn DEF uniq_set_from_proc, uniq_set_add_mr
  <2>. QED  BY <2>1, <2>3, <2>4, <2>5 DEF CrashOnlyIfEmpty
<1>. QED  BY <1>1, InitReportInv, ReportInductive, PTL DEF TSpec

\* A report that has been printed.
LEMMA RowsPrinted ==
    ASSUME ReportInv
    PROVE  /\ Printed("print_intra_simi") => out["print_intra_simi"] = print_intra_simi(proc)
           /\ Printed("print_inter_simi") => out["print_inter_simi"] = print_inter_simi(proc)
           /\ Printed("print_total_dup") => out["print_total_dup"] = print_total_dup(proc)
           /\ Printed("print_simi_matrix") => out["print_simi_matrix"] = print_simi_matrix(proc)
           /\ Printed("print_inter_simi_mr") => out["print_inter_simi_mr"] = print_inter_simi_mr(proc)
           /\ Printed("print_intra_process_simi_mr") =>
                out["print_intra_process_simi_mr"] = print_intra_process_simi_mr(proc)
           /\ Printed("print_simi") => out["print_simi"] \in print_simi(proc[1], proc[2])
<1>1. \A f \in Report : Printed(f) => out[f] \in RowsOf(f, proc)
  BY DEF ReportInv, PrintedOK
<1>2. /\ "print_intra_simi" \in Report /\ "print_inter_simi" \in Report /\ "print_total_dup" \in Report
      /\ "print_simi_matrix" \in Report /\ "print_inter_simi_mr" \in Report
      /\ "print_intra_process_simi_mr" \in Report /\ "print_simi" \in Report
  BY DEF Report
<1>3. /\ RowsOf("print_intra_simi", proc) = {print_intra_simi(proc)}
      /\ RowsOf("print_inter_simi", proc) = {print_inter_simi(proc)}
      /\ RowsOf("print_total_dup", proc) = {print_total_dup(proc)}
      /\ RowsOf("print_simi_matrix", proc) = {print_simi_matrix(proc)}
      /\ RowsOf("print_inter_simi_mr", proc) = {print_inter_simi_mr(proc)}
      /\ RowsOf("print_intra_process_simi_mr", proc) = {print_intra_process_simi_mr(proc)}
      /\ RowsOf("print_simi", proc) = print_simi(proc[1], proc[2])
  BY DEF RowsOf
<1>4. Printed("print_intra_simi") => out["print_intra_simi"] = print_intra_simi(proc)
  BY <1>1, <1>2, <1>3
<1>5. Printed("print_inter_simi") => out["print_inter_simi"] = print_inter_simi(proc)
  BY <1>1, <1>2, <1>3
<1>6. Printed("print_total_dup") => out["print_total_dup"] = print_total_dup(proc)
  BY <1>1, <1>2, <1>3
<1>7. Printed("print_simi_matrix") => out["print_simi_matrix"] = print_simi_matrix(proc)
  BY <1>1, <1>2, <1>3
<1>8. Printed("print_inter_simi_mr") => out["print_inter_simi_mr"] = print_inter_simi_mr(proc)
  BY <1>1, <1>2, <1>3
<1>9. Printed("print_intra_process_simi_mr") =>
        out["print_intra_process_simi_mr"] = print_intra_process_simi_mr(proc)
  BY <1>1, <1>2, <1>3
<1>10. Printed("print_simi") => out["print_simi"] \in print_simi(proc[1], proc[2])
  BY <1>1, <1>2, <1>3
<1>. QED  BY <1>4, <1>5, <1>6, <1>7, <1>8, <1>9, <1>10

\* The nonzero pages of process p, and those that are candidates too.
All(p) == Nonzero(AllPages(p))
Cand(p) == Candidates(AllPages(p))
Hash0(p, k) == AllPages(p)[k].hash

\* The sets of the processes.
LEMMA SetsOf ==
    ASSUME NEW X, NEW p \in Seq(Seq(X))
    PROVE  /\ set_size(set_from_proc(p)) = Cardinality(All(p))
           /\ DOMAIN cand_set_from_proc(p) = Cand(p)
           /\ \A k \in Cand(p) : cand_set_from_proc(p)[k] = Hash0(p, k)
           /\ DOMAIN uniq_set_from_proc(p) \subseteq Cand(p)
           /\ \A k \in DOMAIN uniq_set_from_proc(p) : uniq_set_from_proc(p)[k] = Hash0(p, k)
           /\ set_size(uniq_set_from_proc(p)) = Cardinality(Contents(AllPages(p), Cand(p)))
           /\ \A v : set_in(set_from_proc(p), v) <=> v \in Contents(AllPages(p), All(p))
           /\ \A v : set_in(uniq_set_from_proc(p), v) <=> v \in Contents(AllPages(p), Cand(p))
<1>1. Cand(p) \in SUBSET PageIndex(p)
  BY PageSets DEF Cand
<1>2. /\ set_from_proc(p) = AddAll(AllPages(p), All(p))
      /\ cand_set_from_proc(p) = AddAll(AllPages(p), Cand(p))
      /\ uniq_set_from_proc(p) = AddOnce(AllPages(p), Cand(p))
  BY DEF set_from_proc, cand_set_from_proc, uniq_set_from_proc, set_add_mr, cand_set_add_mr,
         uniq_set_add_mr, All, Cand
<1>3. /\ set_size(set_from_proc(p)) = Cardinality(All(p))
      /\ \A v : set_in(set_from_proc(p), v) <=> v \in Contents(AllPages(p), All(p))
  BY <1>2, AddAllIn DEF set_size
<1>4. DOMAIN cand_set_from_proc(p) = Cand(p) /\ \A k \in Cand(p) : cand_set_from_proc(p)[k] = Hash0(p, k)
  BY <1>2, AddAllIn DEF Hash0
<1>5. /\ DOMAIN uniq_set_from_proc(p) \subseteq Cand(p)
      /\ \A k \in DOMAIN uniq_set_from_proc(p) : uniq_set_from_proc(p)[k] = Hash0(p, k)
      /\ set_size(uniq_set_from_proc(p)) = Cardinality(Contents(AllPages(p), Cand(p)))
      /\ \A v : set_in(uniq_set_from_proc(p), v) <=> v \in Contents(AllPages(p), Cand(p))
  <2>. DEFINE U == AddOnce(AllPages(p), Cand(p))
  <2>1. /\ DOMAIN U \subseteq Cand(p)
        /\ \A k \in DOMAIN U : U[k] = AllPages(p)[k].hash
        /\ \A v : set_in(U, v) <=> v \in Contents(AllPages(p), Cand(p))
        /\ Cardinality(DOMAIN U) = Cardinality(Contents(AllPages(p), Cand(p)))
    BY <1>1, AddOnceIn, ZenonT(40)
  <2>2. uniq_set_from_proc(p) = U
    BY <1>2
  <2>. HIDE DEF U
  <2>. QED  BY <2>1, <2>2 DEF set_size, Hash0
<1>. QED  BY <1>3, <1>4, <1>5

\* The contents that the processes other than i have.
Elsewhere(p, i) == UNION {Contents(AllPages(p[j]), All(p[j])) : j \in DOMAIN p \ {i}}

\* The pages of process i that print_inter_simi counts.
InterFound(p, i) == {k \in Cand(p[i]) : Hash0(p[i], k) \in Elsewhere(p, i)}

LEMMA FoundElsewhere ==
    ASSUME ReportInv, NEW i, NEW v
    PROVE  found_in_other_sets(Map(proc, set_from_proc), v, i) = 1 <=> v \in Elsewhere(proc, i)
<1>. DEFINE set == Map(proc, set_from_proc)
<1>1. DOMAIN set = DOMAIN proc /\ \A j \in DOMAIN proc : set[j] = set_from_proc(proc[j])
  BY DEF Map
<1>2. \A j \in DOMAIN proc : set_in(set[j], v) <=> v \in Contents(AllPages(proc[j]), All(proc[j]))
  <2>. SUFFICES ASSUME NEW j \in DOMAIN proc
                PROVE  set_in(set[j], v) <=> v \in Contents(AllPages(proc[j]), All(proc[j]))
    OBVIOUS
  <2>1. proc[j] \in Seq(Seq(Page)) /\ set[j] = set_from_proc(proc[j])
    BY <1>1, ProcType
  <2>. HIDE DEF set
  <2>2. set_in(set_from_proc(proc[j]), v) <=> v \in Contents(AllPages(proc[j]), All(proc[j]))
    BY <2>1, SetsOf
  <2>. QED  BY <2>1, <2>2
<1>3. found_in_other_sets(set, v, i) = 1 <=> \E j \in DOMAIN set \ {i} : set_in(set[j], v)
  BY DEF found_in_other_sets
<1>. QED  BY <1>1, <1>2, <1>3 DEF Elsewhere

LEMMA InterRow ==
    ASSUME ReportInv, NEW i \in DOMAIN proc
    PROVE  print_inter_simi(proc)[i] = Cardinality(InterFound(proc, i))
<1>. DEFINE set == Map(proc, set_from_proc)
            pages == AllPages(proc[i])
            C == {k \in Candidates(pages) : found_in_other_sets(set, page_to_u32(pages[k]), i) = 1}
<1>1. print_inter_simi(proc)[i] = Cardinality(C)
  BY DEF print_inter_simi, CountFound
<1>2. C = InterFound(proc, i)
  <2>1. \A k : found_in_other_sets(set, page_to_u32(pages[k]), i) = 1
               <=> Hash0(proc[i], k) \in Elsewhere(proc, i)
    BY FoundElsewhere DEF page_to_u32, Hash0
  <2>. QED  BY <2>1 DEF InterFound, Cand
<1>. QED  BY <1>1, <1>2

LEMMA IntraRow ==
    ASSUME ReportInv, NEW i \in DOMAIN proc
    PROVE  print_intra_simi(proc)[i] =
            Cardinality(All(proc[i])) - Cardinality(Contents(AllPages(proc[i]), Cand(proc[i])))
<1>1. print_intra_simi(proc)[i] = set_size(set_from_proc(proc[i])) - set_size(uniq_set_from_proc(proc[i]))
  BY DEF print_intra_simi, Map
<1>. QED  BY <1>1, ProcType, SetsOf

\* For a process without shared pages print_intra_simi prints how many pages
\* could go if one page of each content were kept, in whichever regions they
\* are (setcmp.c:125).
THEOREM IntraSavingsRight == TSpec => []IntraSavings
<1>1. ReportInv => IntraSavings
  <2>. SUFFICES ASSUME ReportInv, Printed("print_intra_simi"), NEW i \in DOMAIN proc,
                       All(proc[i]) = Cand(proc[i])
                PROVE  out["print_intra_simi"][i] =
                        Cardinality(All(proc[i])) - Cardinality(Contents(AllPages(proc[i]), All(proc[i])))
    BY DEF IntraSavings, All, Cand
  <2>. QED  BY RowsPrinted, IntraRow
<1>. QED  BY <1>1, InitReportInv, ReportInductive, PTL DEF TSpec

-----------------------------------------------------------------------------
(* The reports together.                                                    *)

\* The reports of setcmp come in the order of their numbers.
LEMMA PrintedBefore ==
    ASSUME ReportInv, NEW f \in SetcmpReports, Printed(f), NEW g \in SetcmpReports, Number(g) < Number(f)
    PROVE  Printed(g)
<1>1. exe \in Tools /\ ip \in 1..Len(Main[exe]) + 1
  BY DEF ReportInv, ToolInv
<1>2. Len(Main[exe]) \in Nat
  BY <1>1, AllPlaced DEF PlacesOK
<1>3. PICK k \in 1..ip - 1 : Main[exe][k][1] = f
  BY DEF Printed
<1>4. k \in 1..Len(Main[exe])
  BY <1>1, <1>2
<1>5. ReportOK(exe, k)
  BY <1>1, <1>3, <1>4, AllReported DEF ReportsOK
<1>6. f # "print_simi"
  BY DEF SetcmpReports
<1>7. PICK l \in 1..k - 1 : Main[exe][l][1] = g
  BY <1>3, <1>5, <1>6 DEF ReportOK
<1>8. l \in 1..ip - 1
  BY <1>1, <1>2, <1>4
<1>. QED  BY <1>7, <1>8 DEF Printed

\* The pages that print_total_dup counts: one of each content, found in the
\* set of candidates of another process.
LEMMA TotalRow ==
    ASSUME ReportInv, NEW i \in DOMAIN proc
    PROVE  \E D \in SUBSET InterFound(proc, i) :
            print_total_dup(proc)[i] = <<Cardinality(D), Cardinality(All(proc[i]))>>
<1>. DEFINE set == Map(proc, set_from_proc)
            uniq_set == Map(proc, uniq_set_from_proc)
            D == {k \in DOMAIN uniq_set[i] : found_in_other_sets(uniq_set, uniq_set[i][k], i) = 1}
<1>1. print_total_dup(proc)[i] = <<Cardinality(D), set_size(set[i])>>
  BY DEF print_total_dup
<1>2. \A j \in DOMAIN proc : /\ set[j] = set_from_proc(proc[j]) /\ uniq_set[j] = uniq_set_from_proc(proc[j])
                             /\ proc[j] \in Seq(Seq(Page))
  BY ProcType DEF Map
<1>3. DOMAIN uniq_set = DOMAIN proc
  BY DEF Map
<1>. HIDE DEF set, uniq_set
<1>4. set_size(set[i]) = Cardinality(All(proc[i]))
  BY <1>2, SetsOf
<1>5. DOMAIN uniq_set[i] \subseteq Cand(proc[i]) /\ \A k \in DOMAIN uniq_set[i] : uniq_set[i][k] = Hash0(proc[i], k)
  BY <1>2, SetsOf
<1>6. ASSUME NEW j \in DOMAIN proc, NEW v, set_in(uniq_set[j], v)
      PROVE  v \in Contents(AllPages(proc[j]), All(proc[j]))
  <2>1. v \in Contents(AllPages(proc[j]), Cand(proc[j]))
    <3>1. set_in(uniq_set_from_proc(proc[j]), v) <=> v \in Contents(AllPages(proc[j]), Cand(proc[j]))
      BY <1>2, SetsOf
    <3>. QED  BY <1>2, <1>6, <3>1
  <2>2. Cand(proc[j]) \subseteq All(proc[j])
    BY PageSets DEF Cand, All
  <2>. QED  BY <2>1, <2>2 DEF Contents
<1>7. ASSUME NEW v, found_in_other_sets(uniq_set, v, i) = 1 PROVE v \in Elsewhere(proc, i)
  <2>1. PICK j \in DOMAIN proc \ {i} : set_in(uniq_set[j], v)
    BY <1>3, <1>7 DEF found_in_other_sets
  <2>. QED  BY <1>6, <2>1 DEF Elsewhere
<1>8. D \in SUBSET InterFound(proc, i)
  BY <1>5, <1>7 DEF InterFound
<1>. QED  BY <1>1, <1>4, <1>8

\* The pages of i that the matrix counts in column j.
MatrixFound(p, i, j) == {k \in Cand(p[i]) : Hash0(p[i], k) \in Contents(AllPages(p[j]), All(p[j]))}

LEMMA MatrixRow ==
    ASSUME ReportInv, NEW i \in DOMAIN proc
    PROVE  /\ DOMAIN print_simi_matrix(proc)[i] = DOMAIN proc
           /\ \A j \in DOMAIN proc :
                print_simi_matrix(proc)[i][j] = IF i = j THEN 0 ELSE Cardinality(MatrixFound(proc, i, j))
<1>. DEFINE set == Map(proc, set_from_proc)
            cand_set == Map(proc, cand_set_from_proc)
<1>1. print_simi_matrix(proc)[i] =
        [j \in DOMAIN proc |-> IF i = j THEN 0 ELSE set_found_in(cand_set[i], set[j])]
  BY DEF print_simi_matrix
<1>2. \A j \in DOMAIN proc : /\ set[j] = set_from_proc(proc[j]) /\ cand_set[j] = cand_set_from_proc(proc[j])
                             /\ proc[j] \in Seq(Seq(Page))
  BY ProcType DEF Map
<1>. HIDE DEF set, cand_set
<1>3. ASSUME NEW j \in DOMAIN proc PROVE set_found_in(cand_set[i], set[j]) = Cardinality(MatrixFound(proc, i, j))
  <2>1. /\ DOMAIN cand_set[i] = Cand(proc[i])
        /\ \A k \in Cand(proc[i]) : cand_set[i][k] = Hash0(proc[i], k)
    BY <1>2, SetsOf
  <2>2. \A v : set_in(set[j], v) <=> v \in Contents(AllPages(proc[j]), All(proc[j]))
    <3>1. \A v : set_in(set_from_proc(proc[j]), v) <=> v \in Contents(AllPages(proc[j]), All(proc[j]))
      BY <1>2, SetsOf
    <3>. QED  BY <1>2, <3>1
  <2>3. {k \in DOMAIN cand_set[i] : set_in(set[j], cand_set[i][k])} = MatrixFound(proc, i, j)
    BY <2>1, <2>2 DEF MatrixFound
  <2>. QED  BY <2>3 DEF set_found_in
<1>. QED  BY <1>1, <1>3

\* The pages of one region, counted there and among all pages.
LEMMA OneRegion ==
    ASSUME NEW X, NEW p \in Seq(Seq(X)), NEW j \in 1..Len(p), NEW K \in SUBSET DOMAIN p[j]
    PROVE  Cardinality(K) = Cardinality({x \in PageIndex(p) : x[1] = j /\ x[2] \in K})
<1>. DEFINE T == {x \in PageIndex(p) : x[1] = j /\ x[2] \in K}
            f == [k \in K |-> <<j, k>>]
<1>1. /\ p[j] \in Seq(X) /\ Len(p[j]) \in Nat /\ DOMAIN p[j] = 1..Len(p[j])
      /\ \A x : x \in PageIndex(p) <=> \E i \in 1..Len(p) : \E k \in 1..Len(p[i]) : x = <<i, k>>
  BY PageIndexType
<1>2. IsFiniteSet(K)
  <2>1. 1 \in Int /\ Len(p[j]) \in Int
    BY <1>1
  <2>2. IsFiniteSet(1..Len(p[j]))
    BY <2>1, FS_Interval
  <2>. QED  BY <1>1, <2>2, FS_Subset
<1>3. f \in [K -> T]
  <2>1. ASSUME NEW k \in K PROVE <<j, k>> \in T
    <3>1. k \in 1..Len(p[j])
      BY <1>1
    <3>2. <<j, k>> \in PageIndex(p)
      BY <1>1, <3>1
    <3>. QED  BY <3>2
  <2>. QED  BY <2>1
<1>4. \A x \in T : \E k \in K : f[k] = x
  BY <1>1
<1>5. \A k, l \in K : f[k] = f[l] => k = l
  OBVIOUS
<1>. HIDE DEF f, T
<1>6. f \in Injection(K, T)
  BY <1>3, <1>5 DEF Injection, IsInjective
<1>7. f \in Surjection(K, T)
  BY <1>3, <1>4 DEF Surjection
<1>8. ExistsBijection(K, T)
  BY <1>6, <1>7 DEF ExistsBijection, Bijection
<1>9. Cardinality(K) = Cardinality(T)
  BY <1>2, <1>8, FS_Bijection
<1>. QED  BY <1>9 DEF T

\* Of all pages of process i those that print_inter_simi_mr counts, in whichever
\* region.
MrFound(p, i) == {x \in All(p[i]) : Hash0(p[i], x) \in Elsewhere(p, i)}

LEMMA InterMrRow ==
    ASSUME ReportInv, NEW i \in DOMAIN proc
    PROVE  LET row == print_inter_simi_mr(proc)[i]
           IN  Total([j \in DOMAIN row |-> row[j][1]], Len(proc[i])) = Cardinality(MrFound(proc, i))
<1>. DEFINE set == Map(proc, set_from_proc)
            p == proc[i]
            dup(j) == mr_dup_inter(set, p[j], i)
            row == print_inter_simi_mr(proc)[i]
            f == [j \in DOMAIN row |-> row[j][1]]
            B == MrFound(proc, i)
<1>1. row = [j \in {j \in DOMAIN p : dup(j) # 0} |-> <<dup(j), mr_nonzero_num(p[j])>>]
  BY DEF print_inter_simi_mr
<1>2. p \in Seq(Seq(Page)) /\ DOMAIN p = 1..Len(p)
  BY ProcType, PageIndexType
<1>3. \A j \in 1..Len(p) : Term(f, j) = dup(j)
  <2>. HIDE DEF row, dup, p
  <2>1. DOMAIN f = {j \in DOMAIN p : dup(j) # 0} /\ \A j \in DOMAIN f : f[j] = dup(j)
    BY <1>1
  <2>. HIDE DEF f
  <2>. QED  BY <1>2, <2>1 DEF Term
<1>4. ASSUME NEW j \in 1..Len(p) PROVE Cardinality({x \in B : x[1] = j}) = dup(j)
  <2>. DEFINE K == {k \in Nonzero(p[j]) : found_in_other_sets(set, page_to_u32(p[j][k]), i) = 1}
  <2>1. dup(j) = Cardinality(K)
    BY DEF mr_dup_inter, CountFound
  <2>2. K = {k \in DOMAIN p[j] : p[j][k].hash # zero_page_hash /\ p[j][k].hash \in Elsewhere(proc, i)}
    <3>1. \A k : found_in_other_sets(set, page_to_u32(p[j][k]), i) = 1 <=> p[j][k].hash \in Elsewhere(proc, i)
      BY FoundElsewhere DEF page_to_u32
    <3>. HIDE DEF set, p
    <3>. QED  BY <3>1 DEF Nonzero, page_is_zero
  <2>3. B = {x \in PageIndex(p) : p[x[1]][x[2]].hash # zero_page_hash
                                  /\ p[x[1]][x[2]].hash \in Elsewhere(proc, i)}
    BY DEF MrFound, All, Nonzero, page_is_zero, Hash0, AllPages
  <2>. HIDE DEF p, B, K, dup
  <2>4. \A x \in PageIndex(p) : x[2] \in DOMAIN p[x[1]]
    <3>1. /\ \A l \in 1..Len(p) : DOMAIN p[l] = 1..Len(p[l])
          /\ \A x : x \in PageIndex(p) <=> \E l \in 1..Len(p) : \E k \in 1..Len(p[l]) : x = <<l, k>>
      BY <1>2, PageIndexType
    <3>. QED  BY <3>1
  <2>5. {x \in B : x[1] = j} = {x \in PageIndex(p) : x[1] = j /\ x[2] \in K}
    BY <2>2, <2>3, <2>4
  <2>6. K \in SUBSET DOMAIN p[j]
    BY <2>2
  <2>7. Cardinality(K) = Cardinality({x \in PageIndex(p) : x[1] = j /\ x[2] \in K})
    <3>1. j \in 1..Len(p) /\ p \in Seq(Seq(Page))
      BY <1>2, <1>4 DEF p
    <3>. QED  BY <2>6, <3>1, OneRegion, SMTT(30)
  <2>. QED  BY <2>1, <2>5, <2>7
<1>5. B \in SUBSET PageIndex(p)
  BY PageSets DEF MrFound, All
<1>. HIDE DEF B, p, f, dup
<1>6. Total(f, Len(p)) = Cardinality(B)
  BY <1>2, <1>3, <1>4, <1>5, TotalOfRegions
<1>. QED  BY <1>6 DEF f, p, B, row

\* The pages of a region that is looked at alone.
LEMMA RegionPages ==
    ASSUME NEW X, NEW mr \in Seq(X)
    PROVE  /\ <<mr>> \in Seq(Seq(X))
           /\ \A x : x \in PageIndex(<<mr>>) <=> \E k \in DOMAIN mr : x = <<1, k>>
           /\ DOMAIN AllPages(<<mr>>) = PageIndex(<<mr>>)
           /\ \A k \in DOMAIN mr : AllPages(<<mr>>)[<<1, k>>] = mr[k]
<1>. DEFINE p == <<mr>>
<1>1. p \in Seq(Seq(X)) /\ Len(p) = 1 /\ p[1] = mr
  OBVIOUS
<1>2. \A x : x \in PageIndex(p) <=> \E k \in DOMAIN mr : x = <<1, k>>
  <2>1. \A x : x \in PageIndex(p) <=> \E i \in 1..Len(p) : \E k \in 1..Len(p[i]) : x = <<i, k>>
    BY <1>1, PageIndexType
  <2>2. \A i : i \in 1..1 <=> i = 1
    OBVIOUS
  <2>3. DOMAIN mr = 1..Len(mr)
    OBVIOUS
  <2>. HIDE DEF p
  <2>. QED  BY <1>1, <2>1, <2>2, <2>3
<1>3. \A k \in DOMAIN mr : AllPages(p)[<<1, k>>] = mr[k]
  BY <1>1, <1>2 DEF AllPages
<1>4. DOMAIN AllPages(p) = PageIndex(p)
  BY DEF AllPages
<1>. QED  BY <1>1, <1>2, <1>3, <1>4

LEMMA RegionContents ==
    ASSUME NEW X, NEW mr \in Seq(X)
    PROVE  /\ Contents(AllPages(<<mr>>), Nonzero(AllPages(<<mr>>))) = Contents(mr, Nonzero(mr))
           /\ Contents(AllPages(<<mr>>), Candidates(AllPages(<<mr>>))) = Contents(mr, Candidates(mr))
<1>. DEFINE pages == AllPages(<<mr>>)
<1>1. /\ \A x : x \in DOMAIN pages <=> \E k \in DOMAIN mr : x = <<1, k>>
      /\ \A k \in DOMAIN mr : pages[<<1, k>>] = mr[k]
  BY RegionPages
<1>. HIDE DEF pages
<1>2. \A x \in DOMAIN pages : \E k \in DOMAIN mr : pages[x] = mr[k]
  BY <1>1
<1>3. \A k \in DOMAIN mr : \E x \in DOMAIN pages : pages[x] = mr[k]
  BY <1>1
<1>4. Contents(pages, Nonzero(pages)) = Contents(mr, Nonzero(mr))
  BY <1>2, <1>3 DEF Contents, Nonzero, page_is_zero
<1>5. Contents(pages, Candidates(pages)) = Contents(mr, Candidates(mr))
  BY <1>2, <1>3 DEF Contents, Nonzero, Candidates, page_is_zero, page_count
<1>. QED  BY <1>4, <1>5 DEF pages

\* The set of a region holds the contents of its nonzero pages.
LEMMA SetOfRegion ==
    ASSUME NEW X, NEW mr \in Seq(X), NEW v
    PROVE  set_in(set_from_mr(mr), v) <=> v \in Contents(mr, Nonzero(mr))
<1>. DEFINE pages == AllPages(<<mr>>)
<1>1. set_in(set_from_mr(mr), v) <=> v \in Contents(pages, Nonzero(pages))
  BY AddAllIn DEF set_from_mr, set_add_mr
<1>. QED  BY <1>1, RegionContents

\* A page that two regions have in common is reported of both.
LEMMA WithinRow ==
    ASSUME NEW X, NEW p \in Seq(Seq(X))
    PROVE  Cardinality(DOMAIN intra_proc_simi_mr(p)) # 1
<1>. DEFINE set == Map(p, set_from_mr)
            F(i) == {k \in DOMAIN p[i] : found_in_other_sets(set, page_to_u32(p[i][k]), i) = 1}
            R == {i \in DOMAIN p : Cardinality(F(i)) # 0}
<1>1. DOMAIN intra_proc_simi_mr(p) = R
  BY DEF intra_proc_simi_mr, CountFound
<1>2. /\ Len(p) \in Nat /\ DOMAIN p = 1..Len(p)
      /\ \A i \in DOMAIN p : p[i] \in Seq(X) /\ Len(p[i]) \in Nat /\ DOMAIN p[i] = 1..Len(p[i])
  BY PageIndexType
<1>3. DOMAIN set = DOMAIN p /\ \A i \in DOMAIN p : set[i] = set_from_mr(p[i])
  BY DEF Map
<1>. HIDE DEF set
<1>4. \A i \in DOMAIN p : \A v : set_in(set[i], v) <=> \E k \in DOMAIN p[i] : p[i][k].hash # zero_page_hash /\ v = p[i][k].hash
  <2>. SUFFICES ASSUME NEW i \in DOMAIN p, NEW v
                PROVE  set_in(set[i], v) <=> \E k \in DOMAIN p[i] : p[i][k].hash # zero_page_hash /\ v = p[i][k].hash
    OBVIOUS
  <2>1. set_in(set_from_mr(p[i]), v) <=> v \in Contents(p[i], Nonzero(p[i]))
    BY <1>2, SetOfRegion
  <2>. QED  BY <1>3, <2>1 DEF Contents, Nonzero, page_is_zero
<1>5. \A i \in DOMAIN p : \A k \in DOMAIN p[i] :
        k \in F(i) <=> \E j \in DOMAIN p \ {i} : \E l \in DOMAIN p[j] :
                        p[j][l].hash # zero_page_hash /\ p[i][k].hash = p[j][l].hash
  <2>1. \A i \in DOMAIN p : \A k \in DOMAIN p[i] :
          k \in F(i) <=> \E j \in DOMAIN p \ {i} : set_in(set[j], p[i][k].hash)
    BY <1>3 DEF found_in_other_sets, page_to_u32
  <2>. HIDE DEF F
  <2>. QED  BY <1>4, <2>1
<1>6. \A i \in DOMAIN p : Cardinality(F(i)) # 0 <=> \E k \in DOMAIN p[i] : k \in F(i)
  <2>. SUFFICES ASSUME NEW i \in DOMAIN p PROVE Cardinality(F(i)) # 0 <=> \E k \in DOMAIN p[i] : k \in F(i)
    OBVIOUS
  <2>1. F(i) \in SUBSET DOMAIN p[i]
    OBVIOUS
  <2>. HIDE DEF F
  <2>2. 1 \in Int /\ Len(p[i]) \in Int
    BY <1>2
  <2>3. IsFiniteSet(1..Len(p[i]))
    BY <2>2, FS_Interval
  <2>4. IsFiniteSet(F(i))
    BY <1>2, <2>1, <2>3, FS_Subset
  <2>5. Cardinality(F(i)) = 0 <=> F(i) = {}
    BY <2>4, FS_EmptySet
  <2>. QED  BY <2>1, <2>5
<1>. HIDE DEF F
<1>7. ASSUME NEW i \in R PROVE \E j \in R : j # i
  <2>1. PICK k \in DOMAIN p[i] : k \in F(i)
    BY <1>6
  <2>2. PICK j \in DOMAIN p \ {i} : \E l \in DOMAIN p[j] :
            p[j][l].hash # zero_page_hash /\ p[i][k].hash = p[j][l].hash
    BY <1>5, <2>1
  <2>3. PICK l \in DOMAIN p[j] : p[j][l].hash # zero_page_hash /\ p[i][k].hash = p[j][l].hash
    BY <2>2
  <2>4. l \in F(j)
    BY <1>5, <2>1, <2>2, <2>3
  <2>. QED  BY <1>6, <2>2, <2>3, <2>4
<1>8. IsFiniteSet(R)
  <2>1. 1 \in Int /\ Len(p) \in Int
    BY <1>2
  <2>2. IsFiniteSet(1..Len(p))
    BY <2>1, FS_Interval
  <2>. QED  BY <1>2, <2>2, FS_Subset
<1>. HIDE DEF R
<1>9. Cardinality(R) = 1 => \E x : R = {x}
  BY <1>8, FS_Singleton
<1>. QED  BY <1>1, <1>7, <1>9

\* What the counts of one process are to each other.
LEMMA CountsOrdered ==
    ASSUME ReportInv, NEW i \in DOMAIN proc
    PROVE  LET all == Cardinality(All(proc[i]))
               inter == Cardinality(InterFound(proc, i))
               mr == Cardinality(MrFound(proc, i))
               distinct == Cardinality(Contents(AllPages(proc[i]), Cand(proc[i])))
           IN  /\ all \in Nat /\ inter \in Nat /\ mr \in Nat /\ distinct \in Nat
               /\ inter <= mr /\ mr <= all /\ distinct <= all
               /\ \A D \in SUBSET InterFound(proc, i) : Cardinality(D) \in Nat /\ Cardinality(D) <= inter
<1>. DEFINE p == proc[i]
<1>1. p \in Seq(Seq(Page))
  BY ProcType
<1>2. Cand(p) \subseteq All(p) /\ All(p) \subseteq PageIndex(p)
  BY PageSets DEF Cand, All
<1>3. InterFound(proc, i) \subseteq MrFound(proc, i) /\ MrFound(proc, i) \subseteq All(p)
  BY <1>2 DEF InterFound, MrFound
<1>4. DOMAIN uniq_set_from_proc(p) \subseteq All(p)
  BY <1>1, <1>2, SetsOf
<1>5. Cardinality(DOMAIN uniq_set_from_proc(p)) = Cardinality(Contents(AllPages(p), Cand(p)))
  BY <1>1, SetsOf DEF set_size
<1>. HIDE DEF p
<1>6. /\ Cardinality(MrFound(proc, i)) \in Nat /\ Cardinality(All(p)) \in Nat
      /\ Cardinality(MrFound(proc, i)) <= Cardinality(All(p))
  BY <1>1, <1>2, <1>3, Countable
<1>7. /\ Cardinality(DOMAIN uniq_set_from_proc(p)) \in Nat
      /\ Cardinality(DOMAIN uniq_set_from_proc(p)) <= Cardinality(All(p))
  BY <1>1, <1>2, <1>4, Countable
<1>8. MrFound(proc, i) \subseteq PageIndex(p) /\ InterFound(proc, i) \subseteq PageIndex(p)
  BY <1>2, <1>3
<1>9. /\ Cardinality(InterFound(proc, i)) \in Nat
      /\ Cardinality(InterFound(proc, i)) <= Cardinality(MrFound(proc, i))
  BY <1>1, <1>3, <1>8, Countable
<1>10. \A D \in SUBSET InterFound(proc, i) :
        Cardinality(D) \in Nat /\ Cardinality(D) <= Cardinality(InterFound(proc, i))
  BY <1>1, <1>8, Countable
<1>. QED  BY <1>5, <1>6, <1>7, <1>9, <1>10 DEF p

\* A page found elsewhere is found in some column of the matrix.
LEMMA MatrixBounds ==
    ASSUME ReportInv, NEW i \in DOMAIN proc
    PROVE  LET row == print_simi_matrix(proc)[i]
           IN  /\ Cardinality(InterFound(proc, i)) <= Total(row, Len(row))
               /\ \A j \in DOMAIN proc : row[j] <= Cardinality(InterFound(proc, i))
<1>. DEFINE n == Len(Pids)
            row == print_simi_matrix(proc)[i]
            C == InterFound(proc, i)
            D == [j \in 1..n |-> IF i = j THEN {} ELSE MatrixFound(proc, i, j)]
<1>1. n \in Nat /\ DOMAIN proc = 1..n
  BY ProcType, PidsType
<1>2. /\ DOMAIN row = 1..n
      /\ \A j \in 1..n : row[j] = IF i = j THEN 0 ELSE Cardinality(MatrixFound(proc, i, j))
  BY <1>1, MatrixRow
<1>. HIDE DEF row, n
<1>3. Len(row) = n
  <2>1. \E m \in Nat : DOMAIN row = 1..m
    BY <1>1, <1>2
  <2>. QED  BY <1>1, <1>2
<1>4. ASSUME NEW j \in 1..n, i # j PROVE MatrixFound(proc, i, j) \in SUBSET C
  BY <1>1, <1>4 DEF MatrixFound, InterFound, Elsewhere
<1>5. IsFiniteSet(C) /\ Cardinality(C) \in Nat
  <2>1. C \subseteq PageIndex(proc[i])
    BY PageSets DEF InterFound, Cand
  <2>. QED  BY <2>1, ProcType, Countable
<1>6. \A j \in 1..n : D[j] \in SUBSET C /\ Cardinality(D[j]) = row[j]
  <2>1. Cardinality({}) = 0
    BY FS_EmptySet
  <2>. HIDE DEF C
  <2>. QED  BY <1>2, <1>4, <2>1
<1>7. \A j \in 1..n : Cardinality(D[j]) = Term(row, j)
  BY <1>2, <1>6 DEF Term
<1>8. C = {x \in C : \E j \in 1..n : x \in D[j]}
  <2>1. ASSUME NEW x \in C PROVE \E j \in 1..n : x \in D[j]
    <3>1. x \in Cand(proc[i]) /\ Hash0(proc[i], x) \in Elsewhere(proc, i)
      BY DEF InterFound
    <3>2. PICK j \in DOMAIN proc \ {i} : Hash0(proc[i], x) \in Contents(AllPages(proc[j]), All(proc[j]))
      BY <3>1 DEF Elsewhere
    <3>3. x \in MatrixFound(proc, i, j)
      BY <3>1, <3>2 DEF MatrixFound
    <3>. QED  BY <1>1, <3>2, <3>3
  <2>. HIDE DEF C, D
  <2>. QED  BY <2>1
<1>. HIDE DEF C, D
<1>9. Cardinality({x \in C : \E j \in 1..n : x \in D[j]}) <= Total(row, n)
  BY <1>1, <1>5, <1>6, <1>7, TotalBounds
<1>10. ASSUME NEW j \in 1..n PROVE row[j] <= Cardinality(C)
  <2>1. Cardinality(D[j]) <= Cardinality(C)
    BY <1>5, <1>6, FS_Subset
  <2>. QED  BY <1>6, <2>1
<1>. QED  BY <1>1, <1>3, <1>8, <1>9, <1>10 DEF C, row

\* What the reports of setcmp print of one process fits together, for any
\* number of processes, regions and pages, though they build their sets by
\* different rules (setcmp.c:17 to 123).
THEOREM ReportsFitTogether == TSpec => []ReportsAgree
<1>1. ReportInv => ReportsAgree
  <2>. SUFFICES ASSUME ReportInv PROVE ReportsAgree
    OBVIOUS
  <2>. DEFINE total  == out["print_total_dup"]
              inter  == out["print_inter_simi"]
              intra  == out["print_intra_simi"]
              matrix == out["print_simi_matrix"]
              by_mr  == out["print_inter_simi_mr"]
              within == out["print_intra_process_simi_mr"]
              found(i) == Total([j \in DOMAIN by_mr[i] |-> by_mr[i][j][1]], Len(proc[i]))
  <2>1. /\ Printed("print_total_dup") => Printed("print_intra_simi") /\ Printed("print_inter_simi")
        /\ Printed("print_simi_matrix") => Printed("print_inter_simi")
        /\ Printed("print_inter_simi_mr") => Printed("print_inter_simi") /\ Printed("print_total_dup")
    <3>1. /\ "print_intra_simi" \in SetcmpReports /\ "print_inter_simi" \in SetcmpReports
          /\ "print_total_dup" \in SetcmpReports /\ "print_simi_matrix" \in SetcmpReports
          /\ "print_inter_simi_mr" \in SetcmpReports
      BY DEF SetcmpReports
    <3>2. /\ Number("print_intra_simi") = 1 /\ Number("print_inter_simi") = 2
          /\ Number("print_total_dup") = 3 /\ Number("print_simi_matrix") = 4
          /\ Number("print_inter_simi_mr") = 5
      BY DEF Number
    <3>3. Printed("print_total_dup") => Printed("print_intra_simi") /\ Printed("print_inter_simi")
      BY <3>1, <3>2, PrintedBefore
    <3>4. Printed("print_simi_matrix") => Printed("print_inter_simi")
      BY <3>1, <3>2, PrintedBefore
    <3>5. Printed("print_inter_simi_mr") => Printed("print_inter_simi") /\ Printed("print_total_dup")
      BY <3>1, <3>2, PrintedBefore
    <3>. QED  BY <3>3, <3>4, <3>5
  <2>2. ASSUME NEW i \in DOMAIN proc, Printed("print_inter_simi") PROVE inter[i] = Cardinality(InterFound(proc, i))
    BY <2>2, RowsPrinted, InterRow
  <2>3. ASSUME NEW i \in DOMAIN proc, Printed("print_total_dup")
        PROVE  \E D \in SUBSET InterFound(proc, i) : total[i] = <<Cardinality(D), Cardinality(All(proc[i]))>>
    BY <2>3, RowsPrinted, TotalRow
  <2>4. ASSUME Printed("print_total_dup"), NEW i \in DOMAIN proc
        PROVE  total[i][1] <= inter[i] /\ inter[i] <= total[i][2] /\ intra[i] \in 0..total[i][2]
    <3>1. inter[i] = Cardinality(InterFound(proc, i))
      BY <2>1, <2>2, <2>4
    <3>2. PICK D \in SUBSET InterFound(proc, i) : total[i] = <<Cardinality(D), Cardinality(All(proc[i]))>>
      BY <2>3, <2>4
    <3>3. total[i][1] = Cardinality(D) /\ total[i][2] = Cardinality(All(proc[i]))
      BY <3>2
    <3>4. intra[i] = Cardinality(All(proc[i])) - Cardinality(Contents(AllPages(proc[i]), Cand(proc[i])))
      BY <2>1, <2>4, RowsPrinted, IntraRow
    <3>. HIDE DEF total, inter, intra
    <3>. DEFINE a == Cardinality(All(proc[i]))
                b == Cardinality(InterFound(proc, i))
                m == Cardinality(MrFound(proc, i))
                c == Cardinality(Contents(AllPages(proc[i]), Cand(proc[i])))
                d == Cardinality(D)
    <3>5. a \in Nat /\ b \in Nat /\ m \in Nat /\ c \in Nat /\ d \in Nat /\ b <= m /\ m <= a /\ c <= a /\ d <= b
      BY CountsOrdered
    <3>6. inter[i] = b /\ total[i][1] = d /\ total[i][2] = a /\ intra[i] = a - c
      BY <3>1, <3>3, <3>4
    <3>. HIDE DEF a, b, c, d, m
    <3>. QED  BY <3>5, <3>6
  <2>5. ASSUME Printed("print_simi_matrix"), NEW i \in DOMAIN proc
        PROVE  /\ inter[i] <= Total(matrix[i], Len(matrix[i]))
               /\ \A j \in DOMAIN proc : matrix[i][j] <= inter[i]
    <3>1. inter[i] = Cardinality(InterFound(proc, i)) /\ matrix = print_simi_matrix(proc)
      BY <2>1, <2>2, <2>5, RowsPrinted
    <3>. HIDE DEF inter, matrix
    <3>. QED  BY <3>1, MatrixBounds
  <2>6. ASSUME Printed("print_inter_simi_mr"), NEW i \in DOMAIN proc
        PROVE  inter[i] <= found(i) /\ found(i) <= total[i][2]
    <3>1. inter[i] = Cardinality(InterFound(proc, i)) /\ by_mr = print_inter_simi_mr(proc)
      BY <2>1, <2>2, <2>6, RowsPrinted
    <3>2. PICK D \in SUBSET InterFound(proc, i) : total[i] = <<Cardinality(D), Cardinality(All(proc[i]))>>
      BY <2>1, <2>3, <2>6
    <3>3. total[i][2] = Cardinality(All(proc[i]))
      BY <3>2
    <3>4. found(i) = Cardinality(MrFound(proc, i))
      BY <3>1, InterMrRow
    <3>. HIDE DEF inter, total, found
    <3>. QED  BY <3>1, <3>3, <3>4, CountsOrdered
  <2>7. ASSUME NEW i \in DOMAIN within PROVE Cardinality(DOMAIN within[i]) # 1
    <3>1. CASE Printed("print_intra_process_simi_mr")
      <4>1. within = Map(proc, intra_proc_simi_mr)
        BY <3>1, RowsPrinted DEF print_intra_process_simi_mr
      <4>. HIDE DEF within
      <4>2. i \in DOMAIN proc /\ within[i] = intra_proc_simi_mr(proc[i])
        BY <2>7, <4>1 DEF Map
      <4>. QED  BY <4>2, ProcType, WithinRow
    <3>2. CASE ~Printed("print_intra_process_simi_mr")
      <4>1. within = << >>
        BY <3>2 DEF ReportInv, PrintedOK
      <4>2. DOMAIN << >> = {}
        OBVIOUS
      <4>. HIDE DEF within
      <4>. QED  BY <2>7, <4>1, <4>2
    <3>. QED  BY <3>1, <3>2
  <2>. HIDE DEF total, inter, intra, matrix, within, found
  <2>. QED  BY <2>4, <2>5, <2>6, <2>7, Zenon DEF ReportsAgree, total, inter, intra, matrix, within, found
<1>. QED  BY <1>1, InitReportInv, ReportInductive, PTL DEF TSpec

-----------------------------------------------------------------------------
(* The table of cmp.                                                        *)

\* A multiple of n is at least n.
LEMMA Multiple == ASSUME NEW n \in Nat, NEW x \in Int, NEW y \in Int, x < y, 0 < n PROVE x * n + n <= y * n
<1>1. y = x + 1 + (y - x - 1) /\ y - x - 1 \in Nat
  OBVIOUS
<1>. DEFINE d == y - x - 1
<1>2. d * n \in Nat
  BY <1>1
<1>3. y * n = x * n + n + d * n
  BY <1>1
<1>4. x * n \in Int
  OBVIOUS
<1>. HIDE DEF d
<1>. QED  BY <1>2, <1>3, <1>4

LEMMA Divided ==
    ASSUME NEW n \in Nat, 0 < n, NEW a \in Nat
    PROVE  /\ a \div n \in Nat /\ a % n \in 0..n - 1 /\ a = (a \div n) * n + (a % n)
OBVIOUS

\* Quotient and remainder are determined.
LEMMA OneQuotient ==
    ASSUME NEW n \in Nat, 0 < n, NEW q \in Nat, NEW r \in 0..n - 1
    PROVE  (q * n + r) \div n = q /\ (q * n + r) % n = r
<1>. DEFINE a == q * n + r
            x == a \div n
            y == a % n
<1>0. q * n \in Nat
  OBVIOUS
<1>1. a \in Nat
  BY <1>0
<1>. HIDE DEF a
<1>2. x \in Nat /\ y \in 0..n - 1 /\ a = x * n + y
  BY <1>1, Divided
<1>. HIDE DEF x, y
<1>3. ~(x < q)
  <2>. SUFFICES ASSUME x < q PROVE FALSE
    OBVIOUS
  <2>1. x * n + n <= q * n /\ x * n \in Int
    BY <1>2, Multiple
  <2>. QED  BY <1>0, <1>2, <2>1 DEF a
<1>4. ~(q < x)
  <2>. SUFFICES ASSUME q < x PROVE FALSE
    OBVIOUS
  <2>1. q * n + n <= x * n /\ x * n \in Int
    BY <1>2, Multiple
  <2>. QED  BY <1>0, <1>2, <2>1 DEF a
<1>5. x = q
  BY <1>2, <1>3, <1>4
<1>6. y = r
  BY <1>0, <1>2, <1>5 DEF a
<1>. QED  BY <1>5, <1>6 DEF x, y, a

\* The index of a pair of regions, and the regions of an index.
RowOf(k, n) == ((k - 1) \div n) + 1
ColOf(k, n) == ((k - 1) % n) + 1

LEMMA PairOfIndex ==
    ASSUME NEW n1 \in Nat, NEW n2 \in Nat, NEW k \in 1..n1 * n2
    PROVE  /\ 0 < n2 /\ RowOf(k, n2) \in 1..n1 /\ ColOf(k, n2) \in 1..n2
           /\ k = ((k - 1) \div n2) * n2 + ((k - 1) % n2) + 1
<1>0. n1 * n2 \in Nat
  OBVIOUS
<1>1. 0 < n2
  <2>. SUFFICES ASSUME n2 = 0 PROVE FALSE
    OBVIOUS
  <2>1. n1 * 0 = 0
    OBVIOUS
  <2>. QED  BY <2>1
<1>. DEFINE q == (k - 1) \div n2
            r == (k - 1) % n2
<1>2. k - 1 \in Nat /\ k - 1 < n1 * n2
  BY <1>0
<1>3. q \in Nat /\ r \in 0..n2 - 1 /\ k - 1 = q * n2 + r
  BY <1>1, <1>2, Divided
<1>. HIDE DEF q, r
<1>4. q < n1
  <2>. SUFFICES ASSUME ~(q < n1) PROVE FALSE
    OBVIOUS
  <2>1. q = n1 \/ n1 < q
    BY <1>3
  <2>2. CASE q = n1
    BY <1>0, <1>2, <1>3, <2>2
  <2>3. CASE n1 < q
    <3>1. n1 * n2 + n2 <= q * n2 /\ q * n2 \in Int
      BY <1>1, <1>3, <2>3, Multiple
    <3>. QED  BY <1>0, <1>2, <1>3, <3>1
  <2>. QED  BY <2>1, <2>2, <2>3
<1>5. q + 1 \in 1..n1 /\ r + 1 \in 1..n2
  BY <1>3, <1>4
<1>6. q * n2 \in Nat
  BY <1>3
<1>7. k = q * n2 + r + 1
  BY <1>3, <1>6
<1>. QED  BY <1>1, <1>5, <1>7 DEF q, r, RowOf, ColOf

LEMMA IndexOfPair ==
    ASSUME NEW n1 \in Nat, NEW n2 \in Nat, NEW i \in 1..n1, NEW j \in 1..n2
    PROVE  \E k \in 1..n1 * n2 : RowOf(k, n2) = i /\ ColOf(k, n2) = j
<1>. DEFINE q == i - 1
            r == j - 1
            k == q * n2 + r + 1
<1>1. q \in Nat /\ r \in 0..n2 - 1 /\ 0 < n2 /\ q < n1
  OBVIOUS
<1>2. i = q + 1 /\ j = r + 1
  OBVIOUS
<1>. HIDE DEF q, r
<1>3. q * n2 \in Nat /\ n1 * n2 \in Nat
  BY <1>1
<1>4. q * n2 + n2 <= n1 * n2
  BY <1>1, Multiple
<1>5. k \in 1..n1 * n2 /\ k - 1 = q * n2 + r
  BY <1>1, <1>3, <1>4
<1>6. (k - 1) \div n2 = q /\ (k - 1) % n2 = r
  BY <1>1, <1>5, OneQuotient
<1>. HIDE DEF k
<1>. QED  BY <1>1, <1>2, <1>5, <1>6 DEF RowOf, ColOf

LEMMA FoundInRegion ==
    ASSUME NEW X, NEW m1 \in Seq(X), NEW m2 \in Seq(X)
    PROVE  set_found_in(build_set_from_mr(m1), build_set_from_mr(m2)) = Common(m1, m2)
<1>. DEFINE pages == AllPages(<<m1>>)
            a == build_set_from_mr(m1)
            b == build_set_from_mr(m2)
            K == {k \in Candidates(m1) : m1[k].hash \in Contents(m2, Candidates(m2))}
            T == {x \in DOMAIN a : set_in(b, a[x])}
<1>1. \A v : set_in(b, v) <=> v \in Contents(m2, Candidates(m2))
  <2>1. \A v : set_in(b, v) <=> v \in Contents(AllPages(<<m2>>), Candidates(AllPages(<<m2>>)))
    BY AddAllIn DEF build_set_from_mr, cand_set_add_mr
  <2>. QED  BY <2>1, RegionContents
<1>2. DOMAIN a = Candidates(pages) /\ \A x \in Candidates(pages) : a[x] = pages[x].hash
  BY AddAllIn DEF build_set_from_mr, cand_set_add_mr
<1>3. /\ <<m1>> \in Seq(Seq(X)) /\ DOMAIN pages = PageIndex(<<m1>>)
      /\ \A x : x \in PageIndex(<<m1>>) <=> \E k \in DOMAIN m1 : x = <<1, k>>
      /\ \A k \in DOMAIN m1 : pages[<<1, k>>] = m1[k]
  BY RegionPages
<1>4. K \in SUBSET DOMAIN m1
  BY DEF Candidates, Nonzero
<1>5. <<m1>>[1] = m1 /\ 1 \in 1..Len(<<m1>>)
  OBVIOUS
<1>. HIDE DEF pages, a, b
<1>6. \A k \in DOMAIN m1 : <<1, k>> \in Candidates(pages) <=> k \in Candidates(m1)
  BY <1>3 DEF Candidates, Nonzero, page_is_zero, page_count
<1>7. Candidates(pages) \subseteq PageIndex(<<m1>>)
  BY <1>3 DEF Candidates, Nonzero
<1>8. ASSUME NEW x \in PageIndex(<<m1>>) PROVE x \in T <=> x[1] = 1 /\ x[2] \in K
  <2>1. PICK k \in DOMAIN m1 : x = <<1, k>>
    BY <1>3
  <2>2. x[1] = 1 /\ x[2] = k /\ pages[x] = m1[k]
    BY <1>3, <2>1
  <2>3. x \in Candidates(pages) <=> k \in Candidates(m1)
    BY <1>6, <2>1
  <2>. QED  BY <1>1, <1>2, <2>2, <2>3
<1>9. T \subseteq PageIndex(<<m1>>)
  BY <1>2, <1>7
<1>. HIDE DEF K, T
<1>10. T = {x \in PageIndex(<<m1>>) : x[1] = 1 /\ x[2] \in K}
  BY <1>8, <1>9
<1>11. Cardinality(K) = Cardinality({x \in PageIndex(<<m1>>) : x[1] = 1 /\ x[2] \in K})
  <2>. DEFINE p == <<m1>>
              j == 1
  <2>1. p \in Seq(Seq(X)) /\ j \in 1..Len(p) /\ K \in SUBSET DOMAIN p[j]
    BY <1>3, <1>4, <1>5
  <2>. HIDE DEF p, j
  <2>2. Cardinality(K) = Cardinality({x \in PageIndex(p) : x[1] = j /\ x[2] \in K})
    BY <2>1, OneRegion
  <2>. QED  BY <2>2 DEF p, j
<1>12. Cardinality(T) = Cardinality(K)
  BY <1>10, <1>11
<1>. QED  BY <1>12 DEF K, T, a, b, set_found_in, Common

\* The rows of the array, before they are sorted.
LEMMA RedundRows ==
    ASSUME NEW X, NEW p1 \in Seq(Seq(X)), NEW p2 \in Seq(Seq(X))
    PROVE  LET rows == Redunds(p1, p2)
               row(i, j) == <<Common(p1[i], p2[j]), i, j>>
           IN  /\ \A k \in DOMAIN rows : \E i \in DOMAIN p1, j \in DOMAIN p2 : rows[k] = row(i, j)
               /\ \A i \in DOMAIN p1, j \in DOMAIN p2 : \E k \in DOMAIN rows : rows[k] = row(i, j)
               /\ \A k, l \in DOMAIN rows : rows[k] = rows[l] => k = l
<1>. DEFINE n1 == Len(p1)
            n2 == Len(p2)
            rows == Redunds(p1, p2)
            row(i, j) == <<Common(p1[i], p2[j]), i, j>>
            I(k) == RowOf(k, n2)
            J(k) == ColOf(k, n2)
            old(i, j) == <<set_found_in(build_set_from_mr(p1[i]), build_set_from_mr(p2[j])), i, j>>
<1>1. /\ n1 \in Nat /\ n2 \in Nat /\ DOMAIN p1 = 1..n1 /\ DOMAIN p2 = 1..n2
      /\ \A i \in 1..n1 : p1[i] \in Seq(X)
      /\ \A j \in 1..n2 : p2[j] \in Seq(X)
  OBVIOUS
<1>2. rows = [k \in 1..n1 * n2 |-> old(I(k), J(k))]
  BY DEF Redunds, RowOf, ColOf
<1>3. ASSUME NEW i \in 1..n1, NEW j \in 1..n2 PROVE old(i, j) = row(i, j)
  <2>1. p1[i] \in Seq(X) /\ p2[j] \in Seq(X)
    BY <1>1
  <2>2. set_found_in(build_set_from_mr(p1[i]), build_set_from_mr(p2[j])) = Common(p1[i], p2[j])
    BY <2>1, FoundInRegion
  <2>. QED  BY <2>2
<1>. HIDE DEF rows, n1, n2, old
<1>4. ASSUME NEW k \in 1..n1 * n2
      PROVE  /\ I(k) \in 1..n1 /\ J(k) \in 1..n2
             /\ k = ((k - 1) \div n2) * n2 + ((k - 1) % n2) + 1
  BY <1>1, PairOfIndex
<1>5. ASSUME NEW i \in 1..n1, NEW j \in 1..n2 PROVE \E k \in 1..n1 * n2 : I(k) = i /\ J(k) = j
  <2>1. n1 \in Nat /\ n2 \in Nat
    BY <1>1
  <2>. QED  BY <2>1, IndexOfPair
<1>6. ASSUME NEW k \in 1..n1 * n2, NEW l \in 1..n1 * n2, I(k) = I(l), J(k) = J(l) PROVE k = l
  <2>. DEFINE q == (k - 1) \div n2
              r == (k - 1) % n2
              x == (l - 1) \div n2
              y == (l - 1) % n2
  <2>1. q + 1 \in 1..n1 /\ r + 1 \in 1..n2 /\ x + 1 \in 1..n1 /\ y + 1 \in 1..n2
    BY <1>4 DEF RowOf, ColOf
  <2>2. k = q * n2 + r + 1 /\ l = x * n2 + y + 1 /\ q + 1 = x + 1 /\ r + 1 = y + 1
    BY <1>4, <1>6 DEF RowOf, ColOf
  <2>3. q \in Int /\ r \in Int /\ x \in Int /\ y \in Int
    <3>1. 0 < n2 /\ k - 1 \in Int /\ l - 1 \in Int
      BY <1>1, PairOfIndex
    <3>. QED  BY <1>1, <3>1
  <2>. HIDE DEF q, r, x, y
  <2>4. q = x /\ r = y
    BY <2>2, <2>3
  <2>. QED  BY <2>2, <2>4
<1>. HIDE DEF I, J
<1>7. \A k \in 1..n1 * n2 : rows[k] = row(I(k), J(k))
  BY <1>2, <1>3, <1>4
<1>8. DOMAIN rows = 1..n1 * n2
  BY <1>2
<1>9. \A k \in DOMAIN rows : \E i \in 1..n1, j \in 1..n2 : rows[k] = row(i, j)
  BY <1>4, <1>7, <1>8
<1>10. \A i \in 1..n1, j \in 1..n2 : \E k \in DOMAIN rows : rows[k] = row(i, j)
  BY <1>5, <1>7, <1>8
<1>11. \A k, l \in DOMAIN rows : rows[k] = rows[l] => k = l
  BY <1>6, <1>7, <1>8
<1>. HIDE DEF row
<1>12. /\ \A k \in DOMAIN rows : \E i \in DOMAIN p1, j \in DOMAIN p2 : rows[k] = row(i, j)
       /\ \A i \in DOMAIN p1, j \in DOMAIN p2 : \E k \in DOMAIN rows : rows[k] = row(i, j)
       /\ \A k, l \in DOMAIN rows : rows[k] = rows[l] => k = l
  <2>1. DOMAIN p1 = 1..n1 /\ DOMAIN p2 = 1..n2
    BY <1>1
  <2>2. \A k \in DOMAIN rows : \E i \in DOMAIN p1, j \in DOMAIN p2 : rows[k] = row(i, j)
    BY <1>9, <2>1
  <2>3. \A i \in DOMAIN p1, j \in DOMAIN p2 : \E k \in DOMAIN rows : rows[k] = row(i, j)
    BY <1>10, <2>1
  <2>. QED  BY <1>11, <2>2, <2>3, Zenon
<1>. QED  BY <1>12, Zenon DEF rows, row

\* cmp prints each pair of regions that have a page in common, one that is nonzero
\* and mapped at most once in both, exactly once,
\* with the number of pages of the first found in the second, smallest first,
\* for any processes and however qsort treats equal rows (cmp.c:86).
THEOREM CmpTableRight == TSpec => []CmpTable
<1>1. ReportInv => CmpTable
  <2>. SUFFICES ASSUME ReportInv, Printed("print_simi") PROVE CmpTable
    BY DEF CmpTable
  <2>. DEFINE p1 == proc[1]
              p2 == proc[2]
              R == Redunds(p1, p2)
              rows == out["print_simi"]
              row(i, j) == <<Common(p1[i], p2[j]), i, j>>
  <2>1. p1 \in Seq(Seq(Page)) /\ p2 \in Seq(Seq(Page))
    BY ProcType, PidsType
  <2>2. PICK s \in Sorted(R) : rows = [k \in {k \in DOMAIN s : s[k][1] # 0} |-> s[k]]
    BY RowsPrinted DEF print_simi
  <2>3. PICK f \in Bijection(DOMAIN R, DOMAIN R) : s = [k \in DOMAIN R |-> R[f[k]]]
    BY DEF Sorted
  <2>4. \A k, l \in DOMAIN s : k < l => s[k][1] <= s[l][1]
    BY DEF Sorted
  <2>5. /\ f \in [DOMAIN R -> DOMAIN R] /\ \A k, l \in DOMAIN R : f[k] = f[l] => k = l
        /\ \A m \in DOMAIN R : \E k \in DOMAIN R : f[k] = m
    <3>1. f \in Injection(DOMAIN R, DOMAIN R) /\ f \in Surjection(DOMAIN R, DOMAIN R)
      BY <2>3 DEF Bijection
    <3>2. \A k, l \in DOMAIN R : f[k] = f[l] => k = l
      BY <3>1 DEF Injection, IsInjective
    <3>. QED  BY <3>1, <3>2 DEF Surjection
  <2>6. /\ \A k \in DOMAIN R : \E i \in DOMAIN p1, j \in DOMAIN p2 : R[k] = row(i, j)
        /\ \A i \in DOMAIN p1, j \in DOMAIN p2 : \E k \in DOMAIN R : R[k] = row(i, j)
        /\ \A k, l \in DOMAIN R : R[k] = R[l] => k = l
    <3>. HIDE DEF p1, p2
    <3>. QED  BY <2>1, RedundRows
  <2>. HIDE DEF R, rows
  <2>7. /\ DOMAIN s = DOMAIN R /\ DOMAIN rows = {k \in DOMAIN s : s[k][1] # 0}
        /\ \A k \in DOMAIN rows : rows[k] = s[k] /\ rows[k] = R[f[k]]
    BY <2>2, <2>3
  <2>8. \A k, l \in DOMAIN rows : k < l => rows[k][1] <= rows[l][1]
    BY <2>4, <2>7
  <2>9. IsInjective(rows)
    BY <2>5, <2>6, <2>7 DEF IsInjective
  <2>. DEFINE A == {row(i, j) : i \in DOMAIN p1, j \in DOMAIN p2}
              Z == {<<0, i, j>> : i \in DOMAIN p1, j \in DOMAIN p2}
  <2>10. Range(rows) \subseteq A \ Z
    <3>. SUFFICES ASSUME NEW k \in DOMAIN rows PROVE rows[k] \in A \ Z
      BY DEF Range
    <3>1. rows[k] = R[f[k]] /\ f[k] \in DOMAIN R /\ rows[k][1] # 0
      BY <2>5, <2>7
    <3>2. PICK i \in DOMAIN p1, j \in DOMAIN p2 : rows[k] = row(i, j)
      BY <2>6, <3>1
    <3>. QED  BY <3>1, <3>2
  <2>11. A \ Z \subseteq Range(rows)
    <3>. SUFFICES ASSUME NEW i \in DOMAIN p1, NEW j \in DOMAIN p2, row(i, j) \notin Z
                  PROVE  \E k \in DOMAIN rows : rows[k] = row(i, j)
      BY DEF Range
    <3>1. row(i, j)[1] # 0
      OBVIOUS
    <3>. HIDE DEF row
    <3>2. PICK m \in DOMAIN R : R[m] = row(i, j)
      BY <2>6
    <3>3. PICK k \in DOMAIN R : f[k] = m
      BY <2>5
    <3>4. s[k] = row(i, j)
      BY <2>3, <3>2, <3>3
    <3>. QED  BY <2>7, <3>1, <3>3, <3>4
  <2>12. Range(rows) = A \ Z
    BY <2>10, <2>11
  <2>. QED  BY <2>8, <2>9, <2>12 DEF CmpTable, CmpRows, rows, p1, p2
<1>. QED  BY <1>1, InitReportInv, ReportInductive, PTL DEF TSpec
=============================================================================
