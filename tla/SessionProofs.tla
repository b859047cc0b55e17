---------------------------- MODULE SessionProofs ----------------------------
(* Theorems about Session, for any number of targets, threaded or not, any  *)
(* number of pages, and whatever the targets and others do in between.      *)
EXTENDS Session, MainsProofs, FiniteSetTheorems

\* The command lines that Reliable speaks of.
Tracing == {"memdump", "cmp", "setcmp"}

\* The positions in Pids of the targets that main attaches to.
Used == {j \in 1..Len(Pids) : (exe = "memdump" => j = 1) /\ (exe = "cmp" => j <= 2)}

\* Where in main proc_attach and proc_detach are called for target j.
AttachAt(j) ==
    CASE exe = "memdump" -> 2
      [] exe = "cmp"     -> 2 + j
      [] OTHER           -> Len(Pids) + 4 * j - 3
DetachAt(j) ==
    CASE exe = "memdump" -> 5
      [] exe = "cmp"     -> 9 + j
      [] OTHER           -> Len(Pids) + 4 * j

\* The calls that do something to or with a target.
Concerns == {"proc_attach", "proc_do_maps", "proc_do", "proc_parse_pagemap", "proc_detach"}

\* Call k of main is where it should be.
Placed(k) ==
    \E j \in Used :
        /\ Main[exe][k][2] = Pids[j]
        /\ \/ Main[exe][k][1] = "proc_attach" /\ k = AttachAt(j)
           \/ Main[exe][k][1] = "proc_detach" /\ k = DetachAt(j)
           \/ /\ Main[exe][k][1] \in {"proc_do", "proc_parse_pagemap"}
              /\ AttachAt(j) < k /\ k < DetachAt(j)
              /\ exe = "cmp" => k \in 5..8

\* What the proofs need to know of the main functions.
MainOK ==
    /\ Len(Main[exe]) \in Nat
    /\ \A k \in 1..Len(Main[exe]) : Main[exe][k][1] \in Concerns => Placed(k)
    /\ \A j \in Used : /\ Main[exe][AttachAt(j)][1] = "proc_attach"
                       /\ Main[exe][AttachAt(j)][2] = Pids[j]
                       /\ Main[exe][DetachAt(j)][1] = "proc_detach"
                       /\ Main[exe][DetachAt(j)][2] = Pids[j]

-----------------------------------------------------------------------------
(* The main functions.                                                      *)

LEMMA MemdumpMain == ASSUME exe \in Tools, exe = "memdump" PROVE MainOK
<1>1. Main[exe] = memdump_main
  BY DEF Main
<1>2. \A j \in Used : j = 1 /\ AttachAt(j) = 2 /\ DetachAt(j) = 5
  BY DEF Used, AttachAt, DetachAt
<1>3. 1 \in Used
  BY PidsType DEF Used
<1>4. Len(memdump_main) = 7
  BY DEF memdump_main
<1>5. \A k \in 1..7 : memdump_main[k][1] \in Concerns => k \in 2..5 /\ memdump_main[k][2] = Pids[1]
  BY DEF memdump_main, Concerns
<1>6. /\ memdump_main[2][1] = "proc_attach" /\ memdump_main[3][1] = "proc_do"
      /\ memdump_main[4][1] = "proc_parse_pagemap" /\ memdump_main[5][1] = "proc_detach"
      /\ memdump_main[2][2] = Pids[1] /\ memdump_main[5][2] = Pids[1]
  BY DEF memdump_main
<1>7. ASSUME NEW k \in 1..7, memdump_main[k][1] \in Concerns PROVE Placed(k)
  <2>1. k \in 2..5 /\ memdump_main[k][2] = Pids[1]
    BY <1>5, <1>7
  <2>2. AttachAt(1) = 2 /\ DetachAt(1) = 5
    BY <1>2, <1>3
  <2>3. k = 2 \/ k = 3 \/ k = 4 \/ k = 5
    BY <2>1
  <2>. QED  BY <1>1, <1>3, <1>6, <2>1, <2>2, <2>3 DEF Placed
<1>. QED  BY <1>1, <1>2, <1>4, <1>6, <1>7 DEF MainOK

LEMMA CmpMain == ASSUME exe \in Tools, exe = "cmp" PROVE MainOK
<1>1. Main[exe] = cmp_main
  BY DEF Main
<1>2. \A j \in Used : (j = 1 \/ j = 2) /\ AttachAt(j) = 2 + j /\ DetachAt(j) = 9 + j
  BY PidsType DEF Used, AttachAt, DetachAt
<1>3. 1 \in Used /\ 2 \in Used
  BY PidsType DEF Used
<1>4. Len(cmp_main) = 13
  BY DEF cmp_main
<1>5. \A k \in 1..13 : cmp_main[k][1] \in Concerns => k \in {3, 4, 5, 6, 7, 8, 10, 11}
  BY DEF cmp_main, Concerns
<1>6. /\ cmp_main[3][1] = "proc_attach" /\ cmp_main[4][1] = "proc_attach"
      /\ cmp_main[5][1] = "proc_do" /\ cmp_main[6][1] = "proc_do"
      /\ cmp_main[7][1] = "proc_parse_pagemap" /\ cmp_main[8][1] = "proc_parse_pagemap"
      /\ cmp_main[10][1] = "proc_detach" /\ cmp_main[11][1] = "proc_detach"
      /\ cmp_main[3][2] = Pids[1] /\ cmp_main[5][2] = Pids[1]
      /\ cmp_main[7][2] = Pids[1] /\ cmp_main[10][2] = Pids[1]
      /\ cmp_main[4][2] = Pids[2] /\ cmp_main[6][2] = Pids[2]
      /\ cmp_main[8][2] = Pids[2] /\ cmp_main[11][2] = Pids[2]
  BY DEF cmp_main
<1>7. ASSUME NEW k \in 1..13, cmp_main[k][1] \in Concerns PROVE Placed(k)
  <2>1. k \in {3, 4, 5, 6, 7, 8, 10, 11}
    BY <1>5, <1>7
  <2>2. AttachAt(1) = 3 /\ DetachAt(1) = 10 /\ AttachAt(2) = 4 /\ DetachAt(2) = 11
    BY <1>2, <1>3
  <2>3. CASE k \in {3, 5, 7, 10}
    BY <1>1, <1>3, <1>6, <2>2, <2>3 DEF Placed
  <2>4. CASE k \in {4, 6, 8, 11}
    BY <1>1, <1>3, <1>6, <2>2, <2>4 DEF Placed
  <2>. QED  BY <2>1, <2>3, <2>4
<1>8. ASSUME NEW j \in Used
      PROVE  /\ cmp_main[AttachAt(j)][1] = "proc_attach" /\ cmp_main[AttachAt(j)][2] = Pids[j]
             /\ cmp_main[DetachAt(j)][1] = "proc_detach" /\ cmp_main[DetachAt(j)][2] = Pids[j]
  <2>1. CASE j = 1
    BY <1>2, <1>6, <2>1
  <2>2. CASE j = 2
    BY <1>2, <1>6, <2>2
  <2>. QED  BY <1>2, <2>1, <2>2
<1>. QED  BY <1>1, <1>4, <1>7, <1>8 DEF MainOK

\* Call n + 1 is the first proc_attach of setcmp, n + 4 the first proc_detach.
LEMMA SetcmpMain == ASSUME exe \in Tools, exe = "setcmp" PROVE MainOK
<1>. DEFINE n == Len(Pids)
            reports == <<"print_intra_simi", "print_inter_simi", "print_total_dup">>
            R == {"print_intra_simi", "print_inter_simi", "print_total_dup"}
            O == Concerns \cup {"proc_init", "proc_del"} \cup R
<1>1. Main[exe] = Setcmp(reports)
  BY DEF Main, setcmp_main
<1>2. Len(reports) = 3 /\ reports \in Seq(R)
  <2>1. "print_intra_simi" \in R /\ "print_inter_simi" \in R /\ "print_total_dup" \in R
    OBVIOUS
  <2>. HIDE DEF R
  <2>. QED  BY <2>1
<1>3. \A l \in 1..3 : reports[l] \notin Concerns
  <2>1. /\ reports[1] = "print_intra_simi" /\ reports[2] = "print_inter_simi"
        /\ reports[3] = "print_total_dup"
    OBVIOUS
  <2>2. /\ "print_intra_simi" \notin Concerns /\ "print_inter_simi" \notin Concerns
        /\ "print_total_dup" \notin Concerns
    BY DEF Concerns
  <2>. HIDE DEF R, reports, O
  <2>. QED  BY <2>1, <2>2
<1>4. reports \in Seq(O)
  <2>. HIDE DEF R, reports
  <2>. QED  BY <1>2
<1>5. {"proc_init", "proc_attach", "proc_do", "proc_parse_pagemap", "proc_detach", "proc_del"} \subseteq O
  BY DEF Concerns
<1>6. n \in Nat /\ Used = 1..n /\ \A j \in 1..n : AttachAt(j) = n + 4 * j - 3 /\ DetachAt(j) = n + 4 * j
  BY PidsType DEF Used, AttachAt, DetachAt
<1>. HIDE DEF n, O, R, reports
<1>7. SetcmpOK(reports)
  BY <1>4, <1>5, SetcmpCalls
<1>a. Len(Main[exe]) \in Nat
  <2>1. n \in Nat /\ Len(Main[exe]) = 6 * n + 3
    BY <1>1, <1>2, <1>7 DEF SetcmpOK, n
  <2>. QED  BY <2>1
<1>b. \A j \in 1..n : /\ Main[exe][j] = <<"proc_init", Pids[j]>>
                      /\ Main[exe][n + 4 * j - 3] = <<"proc_attach", Pids[j]>>
                      /\ Main[exe][n + 4 * j - 2] = <<"proc_do", Pids[j]>>
                      /\ Main[exe][n + 4 * j - 1] = <<"proc_parse_pagemap", Pids[j]>>
                      /\ Main[exe][n + 4 * j] = <<"proc_detach", Pids[j]>>
                      /\ Main[exe][5 * n + 3 + j] = <<"proc_del", Pids[j]>>
  BY <1>1, <1>2, <1>7, Zenon DEF SetcmpOK, n
<1>c. \A l \in 1..3 : Main[exe][5 * n + l] = <<reports[l], Pids[1]>>
  BY <1>1, <1>2, <1>7, Zenon DEF SetcmpOK, n
<1>d. \A k \in 1..Len(Main[exe]) :
            \/ \E j \in 1..n : k \in {j, n + 4 * j - 3, n + 4 * j - 2, n + 4 * j - 1, n + 4 * j,
                                      5 * n + 3 + j}
            \/ \E l \in 1..3 : k = 5 * n + l
  BY <1>1, <1>2, <1>7, Zenon DEF SetcmpOK, n
<1>8. ASSUME NEW k \in 1..Len(Main[exe]), Main[exe][k][1] \in Concerns PROVE Placed(k)
  <2>1. ASSUME NEW l \in 1..3, k = 5 * n + l PROVE FALSE
    BY <1>3, <1>8, <1>c, <2>1
  <2>2. PICK j \in 1..n : k \in {j, n + 4 * j - 3, n + 4 * j - 2, n + 4 * j - 1, n + 4 * j,
                                 5 * n + 3 + j}
    BY <1>d, <2>1
  <2>3. j \in Used /\ AttachAt(j) = n + 4 * j - 3 /\ DetachAt(j) = n + 4 * j /\ exe # "cmp"
    BY <1>6
  <2>a. "proc_init" \notin Concerns /\ "proc_del" \notin Concerns
    BY DEF Concerns
  <2>b. k # j /\ k # 5 * n + 3 + j
    BY <1>8, <1>b, <2>a, SMTT(30)
  <2>4. CASE k = n + 4 * j - 3
    <3>1. Main[exe][k] = <<"proc_attach", Pids[j]>>
      BY <1>b, <2>4
    <3>2. k = AttachAt(j)
      BY <2>3, <2>4
    <3>. QED  BY <2>3, <3>1, <3>2 DEF Placed
  <2>5. CASE k = n + 4 * j - 2
    <3>1. Main[exe][k] = <<"proc_do", Pids[j]>>
      BY <1>b, <2>5
    <3>2. AttachAt(j) < k /\ k < DetachAt(j)
      BY <1>6, <2>3, <2>5
    <3>. QED  BY <2>3, <3>1, <3>2 DEF Placed
  <2>6. CASE k = n + 4 * j - 1
    <3>1. Main[exe][k] = <<"proc_parse_pagemap", Pids[j]>>
      BY <1>b, <2>6
    <3>2. AttachAt(j) < k /\ k < DetachAt(j)
      BY <1>6, <2>3, <2>6
    <3>. QED  BY <2>3, <3>1, <3>2 DEF Placed
  <2>7. CASE k = n + 4 * j
    <3>1. Main[exe][k] = <<"proc_detach", Pids[j]>>
      BY <1>b, <2>7
    <3>2. k = DetachAt(j)
      BY <2>3, <2>7
    <3>. QED  BY <2>3, <3>1, <3>2 DEF Placed
  <2>. QED  BY <2>2, <2>b, <2>4, <2>5, <2>6, <2>7
<1>9. ASSUME NEW j \in Used
      PROVE  Main[exe][AttachAt(j)] = <<"proc_attach", Pids[j]>> /\ Main[exe][DetachAt(j)] = <<"proc_detach", Pids[j]>>
  BY <1>6, <1>b
<1>. QED  BY <1>a, <1>8, <1>9 DEF MainOK

\* Calls of the three command lines.
LEMMA MainsOK == ASSUME exe \in Tools, exe \in Tracing PROVE MainOK
BY MemdumpMain, CmpMain, SetcmpMain DEF Tracing

-----------------------------------------------------------------------------
(* The stages of target j, as far as the position in main tells.            *)

Fresh(j) == j \notin Used \/ ip < AttachAt(j) \/ (ip = AttachAt(j) /\ done = 0)
Asked(j) == j \in Used /\ ip = AttachAt(j) /\ done = 1
Held(j) ==
    /\ j \in Used
    /\ \/ ip = AttachAt(j) /\ done = 2
       \/ AttachAt(j) < ip /\ ip < DetachAt(j)
       \/ ip = DetachAt(j) /\ done = 0
Gone(j) == j \in Used /\ (ip > DetachAt(j) \/ (ip = DetachAt(j) /\ done > 0))

\* Nobody but the tool has done anything to a target.
Quiet == sigs = 0 /\ kills = 0

FreshOK(j) ==
    LET q == Pids[j]
    IN  q \notin traced /\ seen[q] = {} /\ (Quiet => sent[q] = {} /\ status[q] = "running")

AskedOK(j) ==
    LET q == Pids[j]
    IN  seen[q] = {} /\ (Quiet => status[q] = "running" \/ sent[q] = {})

HeldOK(j) ==
    LET q == Pids[j]
    IN  /\ status[q] # "running"
        /\ q \notin Threaded => seen[q] \subseteq {mem[q]}
        /\ kills = 0 => q \notin event
        /\ Quiet => sent[q] = {}

GoneOK(j) ==
    LET q == Pids[j]
    IN  Quiet => q \notin event /\ sent[q] = {}

TargetOK(j) ==
    /\ Fresh(j) => FreshOK(j)
    /\ Asked(j) => AskedOK(j)
    /\ Held(j) => HeldOK(j)
    /\ Gone(j) => GoneOK(j)

\* A target that runs has nothing to report, and only the tool sends SIGSTOP.
KernelOK ==
    /\ \A q \in event : status[q] # "running"
    /\ Quiet => \A q \in Target : sent[q] \subseteq {"STOP"}

OneVersion == \A q \in Target \ Threaded : \E v : seen[q] \subseteq {v}

\* The inductive invariant.
SInv ==
    /\ STypeOK
    /\ KernelOK
    /\ Reliable => OneVersion
    /\ Reliable /\ alive => \A j \in 1..Len(Pids) : TargetOK(j)

-----------------------------------------------------------------------------
(* The system calls.                                                        *)

\* Every main function is a finite sequence of calls.
LEMMA MainLen == ASSUME NEW e \in Tools PROVE Len(Main[e]) \in Nat
BY AllPlaced DEF PlacesOK

\* How many system calls a call makes and which.
LEMMA SyscallsOf ==
    ASSUME NEW call
    PROVE  /\ Len(Syscalls(call)) \in 0..Pages + 2
           /\ call[1] \in {"proc_attach", "proc_detach"} => Len(Syscalls(call)) = 2
           /\ \A k \in 1..Len(Syscalls(call)) : \A op, q : Syscalls(call)[k] = <<op, q>> =>
                /\ q = call[2] /\ call[1] \in Concerns
                /\ op = "attach" <=> call[1] = "proc_attach" /\ k = 1
                /\ op = "wait" <=> call[1] = "proc_attach" /\ k = 2
                /\ op = "cont" <=> call[1] = "proc_detach" /\ k = 1
                /\ op = "detach" <=> call[1] = "proc_detach" /\ k = 2
<1>0. Pages \in Nat
  BY SessionAssumption
<1>1. CASE call[1] = "proc_attach"
  <2>1. Syscalls(call) = << <<"attach", call[2]>>, <<"wait", call[2]>> >>
    BY <1>1 DEF Syscalls, proc_attach
  <2>2. Len(Syscalls(call)) = 2 /\ Syscalls(call)[1] = <<"attach", call[2]>> /\ Syscalls(call)[2] = <<"wait", call[2]>>
    BY <2>1
  <2>3. \A k \in 1..2 : k = 1 \/ k = 2
    OBVIOUS
  <2>. QED  BY <1>0, <1>1, <2>2, <2>3 DEF Concerns
<1>2. CASE call[1] = "proc_detach"
  <2>1. Syscalls(call) = << <<"cont", call[2]>>, <<"detach", call[2]>> >>
    BY <1>2 DEF Syscalls, proc_detach
  <2>2. Len(Syscalls(call)) = 2 /\ Syscalls(call)[1] = <<"cont", call[2]>> /\ Syscalls(call)[2] = <<"detach", call[2]>>
    BY <2>1
  <2>3. \A k \in 1..2 : k = 1 \/ k = 2
    OBVIOUS
  <2>. QED  BY <1>0, <1>2, <2>2, <2>3 DEF Concerns
<1>3. CASE call[1] = "proc_do_maps"
  <2>1. Syscalls(call) = << <<"open", call[2]>>, <<"read", call[2]>> >>
    BY <1>3 DEF Syscalls, proc_do_maps
  <2>2. Len(Syscalls(call)) = 2 /\ Syscalls(call)[1] = <<"open", call[2]>> /\ Syscalls(call)[2] = <<"read", call[2]>>
    BY <2>1
  <2>3. \A k \in 1..2 : k = 1 \/ k = 2
    OBVIOUS
  <2>. QED  BY <1>0, <1>3, <2>2, <2>3 DEF Concerns
<1>4. CASE call[1] = "proc_parse_pagemap"
  <2>1. Syscalls(call) = << <<"open", call[2]>>, <<"scan", call[2]>> >>
    BY <1>4 DEF Syscalls, proc_parse_pagemap
  <2>2. Len(Syscalls(call)) = 2 /\ Syscalls(call)[1] = <<"open", call[2]>> /\ Syscalls(call)[2] = <<"scan", call[2]>>
    BY <2>1
  <2>3. \A k \in 1..2 : k = 1 \/ k = 2
    OBVIOUS
  <2>. QED  BY <1>0, <1>4, <2>2, <2>3 DEF Concerns
<1>5. CASE call[1] = "proc_do"
  <2>. DEFINE S == {"open", "read"} \X {call[2]}
              A == << <<"open", call[2]>>, <<"read", call[2]>> >>
              B == [i \in 1..Pages |-> <<"read", call[2]>>]
  <2>1. Syscalls(call) = A \o B
    BY <1>5 DEF Syscalls, proc_do
  <2>2. A \in Seq(S) /\ B \in Seq(S) /\ Len(A) = 2 /\ Len(B) = Pages
    BY <1>0
  <2>. HIDE DEF S, A, B
  <2>3. Syscalls(call) \in Seq(S) /\ Len(Syscalls(call)) = Len(A) + Len(B)
    BY <2>1, <2>2, TwoParts, ZenonT(40)
  <2>4. \A k \in 1..Len(Syscalls(call)) : Syscalls(call)[k] \in {"open", "read"} \X {call[2]}
    BY <2>3 DEF S
  <2>5. Len(Syscalls(call)) \in 0..Pages + 2
    BY <1>0, <2>2, <2>3
  <2>. QED  BY <1>5, <2>4, <2>5 DEF Concerns
<1>6. CASE call[1] \notin Concerns
  <2>1. Syscalls(call) = << >>
    BY <1>6 DEF Syscalls, Concerns
  <2>2. Len(Syscalls(call)) = 0
    BY <2>1
  <2>. QED  BY <1>0, <1>6, <2>2 DEF Concerns
<1>. QED  BY <1>1, <1>2, <1>3, <1>4, <1>5, <1>6 DEF Concerns

\* Which call the tool is in when it makes a system call, and for whom.
LEMMA Position ==
    ASSUME STypeOK, exe \in Tracing, NEW op, NEW q, At(op, q)
    PROVE  \E j \in Used :
            /\ q = Pids[j] /\ Main[exe][ip][2] = q
            /\ op = "attach" => ip = AttachAt(j) /\ done = 0
            /\ op = "wait" => ip = AttachAt(j) /\ done = 1
            /\ op = "cont" => ip = DetachAt(j) /\ done = 0
            /\ op = "detach" => ip = DetachAt(j) /\ done = 1
            /\ op \notin {"attach", "wait", "cont", "detach"} =>
                /\ Main[exe][ip][1] \notin {"proc_attach", "proc_detach"}
                /\ AttachAt(j) < ip /\ ip < DetachAt(j)
                /\ exe = "cmp" => ip \in 5..8
<1>. DEFINE call == Main[exe][ip]
<1>1. MainOK /\ ip \in 1..Len(Main[exe]) /\ done \in Nat
  <2>1. exe \in Tools /\ ip \in 1..Len(Main[exe]) + 1 /\ ip <= Len(Main[exe]) /\ done \in 0..Pages + 2
    BY DEF STypeOK, At, InMain
  <2>2. Len(Main[exe]) \in Nat /\ Pages \in Nat
    BY <2>1, MainLen, SessionAssumption
  <2>. QED  BY <2>1, <2>2, MainsOK
<1>2. done + 1 \in 1..Len(Syscalls(call)) /\ Syscalls(call)[done + 1] = <<op, q>>
  <2>1. done < Len(Syscalls(call)) /\ Syscalls(call)[done + 1] = <<op, q>>
    BY DEF At, Calls
  <2>2. Len(Syscalls(call)) \in Nat
    BY SyscallsOf, SessionAssumption
  <2>. QED  BY <1>1, <2>1, <2>2
<1>. HIDE DEF call
<1>3. /\ q = call[2] /\ call[1] \in Concerns
      /\ op = "attach" <=> call[1] = "proc_attach" /\ done + 1 = 1
      /\ op = "wait" <=> call[1] = "proc_attach" /\ done + 1 = 2
      /\ op = "cont" <=> call[1] = "proc_detach" /\ done + 1 = 1
      /\ op = "detach" <=> call[1] = "proc_detach" /\ done + 1 = 2
  BY <1>2, SyscallsOf
<1>4. done + 1 = 1 \/ done + 1 = 2 \/ call[1] \notin {"proc_attach", "proc_detach"}
  <2>1. call[1] \in {"proc_attach", "proc_detach"} => Len(Syscalls(call)) = 2
    BY SyscallsOf
  <2>. QED  BY <1>1, <1>2, <2>1
<1>5. PICK j \in Used :
        /\ call[2] = Pids[j]
        /\ \/ call[1] = "proc_attach" /\ ip = AttachAt(j)
           \/ call[1] = "proc_detach" /\ ip = DetachAt(j)
           \/ /\ call[1] \in {"proc_do", "proc_parse_pagemap"}
              /\ AttachAt(j) < ip /\ ip < DetachAt(j)
              /\ exe = "cmp" => ip \in 5..8
  BY <1>1, <1>3 DEF MainOK, Placed, call
<1>6. (done + 1 = 1 => done = 0) /\ (done + 1 = 2 => done = 1)
  BY <1>1
<1>. QED  BY <1>3, <1>4, <1>5, <1>6 DEF call

\* Where the calls for two targets are, relative to each other.
LEMMA Places ==
    ASSUME exe \in Tracing, NEW j \in Used
    PROVE  /\ AttachAt(j) \in Nat /\ DetachAt(j) \in Nat /\ AttachAt(j) < DetachAt(j)
           /\ \A l \in Used \ {j} :
                /\ AttachAt(l) # AttachAt(j) /\ DetachAt(l) # AttachAt(j)
                /\ AttachAt(l) # DetachAt(j) /\ DetachAt(l) # DetachAt(j)
           /\ exe = "memdump" => Used \ {j} = {}
           /\ exe = "cmp" => /\ \A l \in Used \ {j} : AttachAt(j) < DetachAt(l)
                             /\ AttachAt(j) < 5 /\ DetachAt(j) > 8
           /\ exe = "setcmp" => \A l \in Used \ {j} : AttachAt(l) < AttachAt(j) => DetachAt(l) < AttachAt(j)
<1>1. CASE exe = "memdump"
  BY <1>1 DEF Used, AttachAt, DetachAt
<1>2. CASE exe = "cmp"
  <2>1. \A l \in Used : (l = 1 \/ l = 2) /\ AttachAt(l) = 2 + l /\ DetachAt(l) = 9 + l
    BY <1>2, PidsType DEF Used, AttachAt, DetachAt
  <2>. QED  BY <1>2, <2>1
<1>3. CASE exe = "setcmp"
  <2>1. \A l \in Used : l \in Nat /\ l >= 1 /\ AttachAt(l) = Len(Pids) + 4 * l - 3 /\ DetachAt(l) = Len(Pids) + 4 * l
    BY <1>3, PidsType DEF Used, AttachAt, DetachAt
  <2>2. Len(Pids) \in Nat
    BY PidsType
  <2>. QED  BY <1>3, <2>1, <2>2, SMTT(30)
<1>. QED  BY <1>1, <1>2, <1>3 DEF Tracing

\* A system call moves no target to another stage but the one it is for.
LEMMA AdvanceStage ==
    ASSUME STypeOK, exe \in Tracing, NEW op, NEW q, At(op, q), Advance,
           NEW l \in 1..Len(Pids),
           op \in {"attach", "wait", "cont", "detach"} => q # Pids[l]
    PROVE  (Fresh(l)' => Fresh(l)) /\ (Asked(l)' => Asked(l)) /\ (Held(l)' => Held(l)) /\ (Gone(l)' => Gone(l))
<1>1. UNCHANGED <<exe, ip>> /\ Used' = Used /\ AttachAt(l)' = AttachAt(l) /\ DetachAt(l)' = DetachAt(l)
  BY DEF Advance, Used, AttachAt, DetachAt
<1>2. ASSUME l \in Used PROVE ip # AttachAt(l) /\ ip # DetachAt(l)
  <2>1. PICK j \in Used :
            /\ q = Pids[j] /\ Main[exe][ip][2] = q
            /\ op = "attach" => ip = AttachAt(j) /\ done = 0
            /\ op = "wait" => ip = AttachAt(j) /\ done = 1
            /\ op = "cont" => ip = DetachAt(j) /\ done = 0
            /\ op = "detach" => ip = DetachAt(j) /\ done = 1
            /\ op \notin {"attach", "wait", "cont", "detach"} =>
                Main[exe][ip][1] \notin {"proc_attach", "proc_detach"}
    BY Position
  <2>2. CASE op \in {"attach", "wait", "cont", "detach"}
    <3>1. l # j
      BY <2>1, <2>2
    <3>. QED  BY <1>2, <2>1, <2>2, <3>1, Places
  <2>3. CASE op \notin {"attach", "wait", "cont", "detach"}
    <3>1. MainOK
      BY MainsOK DEF STypeOK
    <3>. QED  BY <1>2, <2>1, <2>3, <3>1 DEF MainOK
  <2>. QED  BY <2>2, <2>3
<1>3. CASE l \notin Used
  BY <1>1, <1>3 DEF Fresh, Asked, Held, Gone
<1>4. CASE l \in Used
  BY <1>1, <1>2, <1>4 DEF Fresh, Asked, Held, Gone
<1>. QED  BY <1>3, <1>4

\* The return to main moves none.
LEMMA ReturnStage ==
    ASSUME STypeOK, exe \in Tracing, CallReturns, NEW l \in 1..Len(Pids)
    PROVE  (Fresh(l)' => Fresh(l)) /\ (Asked(l)' => Asked(l)) /\ (Held(l)' => Held(l)) /\ (Gone(l)' => Gone(l))
<1>1. UNCHANGED exe /\ ip' = ip + 1 /\ done' = 0 /\ Used' = Used
      /\ AttachAt(l)' = AttachAt(l) /\ DetachAt(l)' = DetachAt(l)
  BY DEF CallReturns, Used, AttachAt, DetachAt
<1>2. CASE l \notin Used
  BY <1>1, <1>2 DEF Fresh, Asked, Held, Gone
<1>3. CASE l \in Used
  <2>1. ip \in Nat /\ done \in Nat
    BY MainLen, SessionAssumption DEF STypeOK
  <2>2. AttachAt(l) \in Nat /\ DetachAt(l) \in Nat /\ AttachAt(l) < DetachAt(l)
    BY <1>3, Places
  <2>3. ip = AttachAt(l) \/ ip = DetachAt(l) => done = 2
    <3>1. Main[exe][AttachAt(l)][1] = "proc_attach" /\ Main[exe][DetachAt(l)][1] = "proc_detach"
      BY <1>3, MainsOK DEF STypeOK, MainOK
    <3>2. done = Len(Syscalls(Main[exe][ip]))
      BY DEF CallReturns, Calls
    <3>. QED  BY <3>1, <3>2, SyscallsOf
  <2>4. Fresh(l)' => Fresh(l)
    BY <1>1, <1>3, <2>1, <2>2, <2>3 DEF Fresh
  <2>5. ~Asked(l)'
    BY <1>1 DEF Asked
  <2>6. Held(l)' => Held(l)
    BY <1>1, <1>3, <2>1, <2>2, <2>3 DEF Held
  <2>7. Gone(l)' => Gone(l)
    BY <1>1, <1>3, <2>1, <2>2, <2>3 DEF Gone
  <2>. QED  BY <2>4, <2>5, <2>6, <2>7
<1>. QED  BY <1>2, <1>3

-----------------------------------------------------------------------------
(* The invariant: types and the kernel.                                     *)

\* The parts of STypeOK about the kernel.
KernelType ==
    /\ status \in [Target -> {"running", "stopped", "dead"}]
    /\ traced \subseteq Target
    /\ sent \in [Target -> SUBSET Signal]
    /\ stop \in [Target -> Signal \cup {"none"}]
    /\ \A q \in Target : stop[q] = "none" <=> status[q] # "stopped"
    /\ event \subseteq traced

\* The rest.
ToolType ==
    /\ exe \in Tools
    /\ ip \in 1..Len(Main[exe]) + 1
    /\ done \in 0..Pages + 2
    /\ alive \in BOOLEAN
    /\ mem \in [Target -> 0..MaxWrite]
    /\ seen \in [Target -> SUBSET (0..MaxWrite)]
    /\ sigs \in 0..MaxSig
    /\ kills \in 0..MaxKill

LEMMA Types == /\ STypeOK <=> KernelType /\ ToolType
               /\ STypeOK' <=> KernelType' /\ ToolType'
BY DEF STypeOK, KernelType, ToolType

\* A system call leaves the tool at the next one.
LEMMA AdvanceType ==
    ASSUME ToolType, NEW op, NEW q, At(op, q), Advance, UNCHANGED <<mem, seen, sigs, kills>>
    PROVE  ToolType'
<1>1. done \in 0..Pages + 2 /\ done < Len(Syscalls(Main[exe][ip])) /\ done' = done + 1
  BY DEF ToolType, At, Calls, Advance
<1>2. Len(Syscalls(Main[exe][ip])) \in 0..Pages + 2 /\ Pages \in Nat
  BY SyscallsOf, SessionAssumption
<1>3. done' \in 0..Pages + 2
  BY <1>1, <1>2
<1>. QED  BY <1>3 DEF ToolType, Advance

\* The kernel detaches everything when the tool is gone.
LEMMA ExitType == ASSUME STypeOK, KernelOK, Exit PROVE STypeOK' /\ KernelOK' /\ ~alive' /\ UNCHANGED seen
<1>1. KernelType /\ ToolType
  BY Types
<1>2. ToolType' /\ ~alive' /\ UNCHANGED seen
  BY <1>1 DEF Exit, ToolType, budget
<1>3. \A q \in Target : q \in event /\ stop[q] = "STOP" => status[q] = "stopped"
  BY <1>1 DEF KernelType
<1>4. /\ status' \in [Target -> {"running", "stopped", "dead"}]
      /\ stop' \in [Target -> Signal \cup {"none"}]
  BY <1>1 DEF Exit, KernelType
<1>5. \A q \in Target : stop'[q] = "none" <=> status'[q] # "stopped"
  BY <1>1, <1>3 DEF Exit, KernelType
<1>6. KernelType'
  BY <1>1, <1>4, <1>5 DEF Exit, KernelType
<1>7. KernelOK'
  BY DEF Exit, KernelOK, Quiet, budget
<1>. QED  BY <1>2, <1>6, <1>7, Types

\* A traced target goes on.
LEMMA ResumeType ==
    ASSUME KernelType, KernelOK, NEW q \in Target, Resume(q), UNCHANGED <<sent, sigs, kills>>,
           traced' = traced \/ traced' = traced \ {q}
    PROVE  KernelType' /\ KernelOK'
<1>1. KernelType'
  BY DEF KernelType, Resume, Signal
<1>2. KernelOK'
  BY DEF KernelType, Resume, KernelOK, Quiet
<1>. QED  BY <1>1, <1>2

LEMMA NextTypes ==
    ASSUME STypeOK, KernelOK, [SNext]_svars
    PROVE  STypeOK' /\ KernelOK'
<1>0. KernelType /\ ToolType
  BY Types
<1>. USE Types
<1>1. ASSUME NEW q \in Target, PTRACE_ATTACH(q) PROVE STypeOK' /\ KernelOK'
  <2>1. ToolType'
    BY <1>0, <1>1, AdvanceType DEF PTRACE_ATTACH, budget
  <2>2. KernelType' /\ KernelOK'
    BY <1>0, <1>1 DEF PTRACE_ATTACH, KernelType, KernelOK, Quiet, Signal, budget
  <2>. QED  BY <2>1, <2>2
<1>2. ASSUME NEW q \in Target, Wait(q) PROVE STypeOK' /\ KernelOK'
  <2>1. ToolType'
    BY <1>0, <1>2, AdvanceType DEF Wait, budget
  <2>2. PICK any \in event : event' = event \ {any}
                             /\ traced' = IF status[any] = "dead" THEN traced \ {any} ELSE traced
    BY <1>2 DEF Wait
  <2>3. KernelType' /\ KernelOK'
    BY <1>0, <1>2, <2>2 DEF Wait, KernelType, KernelOK, Quiet, budget
  <2>. QED  BY <2>1, <2>3
<1>3. ASSUME NEW q \in Target, Open(q) PROVE STypeOK' /\ KernelOK'
  <2>1. ToolType'
    BY <1>0, <1>3, AdvanceType DEF Open, budget
  <2>2. KernelType' /\ KernelOK'
    BY <1>0, <1>3 DEF Open, KernelType, KernelOK, Quiet, kernel, budget
  <2>. QED  BY <2>1, <2>2
<1>4. ASSUME NEW q \in Target, Read(q) PROVE STypeOK' /\ KernelOK'
  <2>1. KernelType' /\ KernelOK'
    BY <1>0, <1>4 DEF Read, KernelType, KernelOK, Quiet, kernel, budget
  <2>2. PICK op : At(op, q)
    BY <1>4 DEF Read, Reads
  <2>3. done \in 0..Pages + 2 /\ done < Len(Syscalls(Main[exe][ip])) /\ done' = done + 1
    BY <1>0, <1>4, <2>2 DEF ToolType, At, Calls, Advance, Read
  <2>4. Len(Syscalls(Main[exe][ip])) \in 0..Pages + 2 /\ Pages \in Nat
    BY SyscallsOf, SessionAssumption
  <2>5. done' \in 0..Pages + 2
    BY <2>3, <2>4
  <2>6. seen' \in [Target -> SUBSET (0..MaxWrite)]
    BY <1>0, <1>4 DEF ToolType, Read
  <2>7. ToolType'
    BY <1>0, <1>4, <2>5, <2>6 DEF ToolType, Read, Advance, budget
  <2>. QED  BY <2>1, <2>7
<1>5. ASSUME NEW q \in Target, PTRACE_CONT(q) PROVE STypeOK' /\ KernelOK'
  <2>1. ToolType'
    BY <1>0, <1>5, AdvanceType DEF PTRACE_CONT, budget
  <2>2. KernelType' /\ KernelOK'
    <3>1. CASE Stopped(q)
      BY <1>0, <1>5, <3>1, ResumeType DEF PTRACE_CONT, budget
    <3>2. CASE ~Stopped(q)
      BY <1>0, <1>5, <3>2 DEF PTRACE_CONT, KernelType, KernelOK, Quiet, budget
    <3>. QED  BY <3>1, <3>2
  <2>. QED  BY <2>1, <2>2
<1>6. ASSUME NEW q \in Target, PTRACE_DETACH(q) PROVE STypeOK' /\ KernelOK'
  <2>1. ToolType'
    BY <1>0, <1>6, AdvanceType DEF PTRACE_DETACH, budget
  <2>2. KernelType' /\ KernelOK'
    <3>1. CASE Stopped(q)
      BY <1>0, <1>6, <3>1, ResumeType DEF PTRACE_DETACH, budget
    <3>2. CASE ~Stopped(q)
      BY <1>0, <1>6, <3>2 DEF PTRACE_DETACH, KernelType, KernelOK, Quiet, budget
    <3>. QED  BY <3>1, <3>2
  <2>. QED  BY <2>1, <2>2
<1>7. ASSUME Exit PROVE STypeOK' /\ KernelOK'
  BY <1>7, ExitType
<1>8. ASSUME CallReturns PROVE STypeOK' /\ KernelOK'
  <2>1. ip \in 1..Len(Main[exe]) + 1 /\ ip <= Len(Main[exe]) /\ ip' = ip + 1 /\ done' = 0 /\ UNCHANGED exe
    BY <1>0, <1>8 DEF ToolType, CallReturns, InMain
  <2>2. Len(Main[exe]) \in Nat /\ Pages \in Nat
    BY <1>0, MainLen, SessionAssumption DEF ToolType
  <2>3. ip' \in 1..Len(Main[exe]) + 1 /\ done' \in 0..Pages + 2
    BY <2>1, <2>2
  <2>4. ToolType'
    BY <1>0, <1>8, <2>1, <2>3 DEF ToolType, CallReturns, budget
  <2>5. KernelType' /\ KernelOK'
    BY <1>0, <1>8 DEF CallReturns, KernelType, KernelOK, Quiet, kernel, budget
  <2>. QED  BY <2>4, <2>5
<1>9. ASSUME NEW q \in Target, Write(q) PROVE STypeOK' /\ KernelOK'
  <2>1. mem' \in [Target -> 0..MaxWrite]
    <3>1. mem[q] \in 0..MaxWrite /\ mem[q] < MaxWrite /\ MaxWrite \in Nat
      BY <1>0, <1>9, SessionAssumption DEF ToolType, Write
    <3>2. mem[q] + 1 \in 0..MaxWrite
      BY <3>1
    <3>. QED  BY <1>0, <1>9, <3>2 DEF ToolType, Write
  <2>2. ToolType'
    BY <1>0, <1>9, <2>1 DEF ToolType, Write, tool, budget
  <2>3. KernelType' /\ KernelOK'
    BY <1>0, <1>9 DEF Write, KernelType, KernelOK, Quiet, kernel, budget
  <2>. QED  BY <2>2, <2>3
<1>10. ASSUME NEW q \in Target, Send(q) PROVE STypeOK' /\ KernelOK'
  <2>1. sigs \in 0..MaxSig /\ sigs < MaxSig /\ sigs' = sigs + 1 /\ MaxSig \in Nat
    BY <1>0, <1>10, SessionAssumption DEF ToolType, Send
  <2>2. sigs' \in 0..MaxSig /\ sigs' # 0
    BY <2>1
  <2>3. ToolType'
    BY <1>0, <1>10, <2>2 DEF ToolType, Send, tool
  <2>4. KernelType' /\ KernelOK'
    BY <1>0, <1>10, <2>2 DEF Send, KernelType, KernelOK, Quiet, Signal
  <2>. QED  BY <2>3, <2>4
<1>11. ASSUME NEW q \in Target, Kill(q) PROVE STypeOK' /\ KernelOK'
  <2>1. kills \in 0..MaxKill /\ kills < MaxKill /\ kills' = kills + 1 /\ MaxKill \in Nat
    BY <1>0, <1>11, SessionAssumption DEF ToolType, Kill
  <2>2. kills' \in 0..MaxKill /\ kills' # 0
    BY <2>1
  <2>3. ToolType'
    BY <1>0, <1>11, <2>2 DEF ToolType, Kill, tool
  <2>4. KernelType' /\ KernelOK'
    BY <1>0, <1>11, <2>2 DEF Kill, KernelType, KernelOK, Quiet, Signal
  <2>. QED  BY <2>3, <2>4
<1>12. ASSUME NEW q \in Target, NEW sig \in Signal, Deliver(q, sig) PROVE STypeOK' /\ KernelOK'
  <2>1. ToolType'
    BY <1>0, <1>12 DEF ToolType, Deliver, tool, budget
  <2>2. KernelType'
    <3>1. sent' \in [Target -> SUBSET Signal] /\ traced' = traced /\ event' \subseteq traced /\ "none" \notin Signal
      BY <1>0, <1>12 DEF KernelType, Deliver, Signal
    <3>2. CASE q \in traced \/ sig = "STOP"
      BY <1>0, <1>12, <3>1, <3>2 DEF KernelType, Deliver
    <3>3. CASE ~(q \in traced \/ sig = "STOP")
      BY <1>0, <1>12, <3>1, <3>3 DEF KernelType, Deliver
    <3>. QED  BY <3>2, <3>3
  <2>3. KernelOK'
    <3>1. \A r \in event' : status'[r] # "running"
      BY <1>0, <1>12 DEF KernelType, KernelOK, Deliver
    <3>2. Quiet' => \A r \in Target : sent'[r] \subseteq {"STOP"}
      BY <1>0, <1>12 DEF KernelType, KernelOK, Deliver, Quiet, budget
    <3>. QED  BY <3>1, <3>2 DEF KernelOK
  <2>. QED  BY <2>1, <2>2, <2>3
<1>13. CASE UNCHANGED svars
  BY <1>13 DEF svars, tool, kernel, budget, STypeOK, KernelOK, Quiet
<1>. QED  BY <1>1, <1>2, <1>3, <1>4, <1>5, <1>6, <1>7, <1>8, <1>9, <1>10, <1>11, <1>12, <1>13
          DEF SNext, ToolStep, AttachFails, OpenFails, ScanFails, Return

-----------------------------------------------------------------------------
(* The invariant: targets and tool.                                         *)

\* What has happened to a target is never undone.
LEMMA Monotone ==
    ASSUME STypeOK, [SNext]_svars
    PROVE  /\ exe' = exe /\ (alive' => alive)
           /\ (kills' = 0 => kills = 0) /\ (Quiet' => Quiet) /\ (Reliable' => Reliable)
<1>1. exe' = exe /\ (alive' => alive)
  BY DEF SNext, ToolStep, PTRACE_ATTACH, AttachFails, Wait, Open, OpenFails, Read, ScanFails, PTRACE_CONT,
         PTRACE_DETACH, CallReturns, Return, Exit, Write, Send, Kill, Deliver, Advance, tool, svars, InMain
<1>2. /\ kills' = kills \/ kills' = kills + 1
      /\ sigs' = sigs \/ sigs' = sigs + 1
  BY DEF SNext, ToolStep, PTRACE_ATTACH, AttachFails, Wait, Open, OpenFails, Read, ScanFails, PTRACE_CONT,
         PTRACE_DETACH, CallReturns, Return, Exit, Write, Send, Kill, Deliver, Advance, budget, svars
<1>3. kills \in Nat /\ sigs \in Nat
  BY SessionAssumption DEF STypeOK
<1>4. (kills' = 0 => kills = 0) /\ (sigs' = 0 => sigs = 0)
  BY <1>2, <1>3
<1>. QED  BY <1>1, <1>4 DEF Quiet, Reliable

\* The stages of a target depend on the position in main only.
LEMMA SameStage ==
    ASSUME UNCHANGED <<exe, ip, done>>, NEW l
    PROVE  (Fresh(l)' => Fresh(l)) /\ (Asked(l)' => Asked(l)) /\ (Held(l)' => Held(l)) /\ (Gone(l)' => Gone(l))
BY DEF Fresh, Asked, Held, Gone, Used, AttachAt, DetachAt

\* The stages exclude each other.
LEMMA OneStage ==
    ASSUME exe \in Tracing, ip \in Nat, NEW j \in 1..Len(Pids)
    PROVE  /\ ~(Fresh(j) /\ Asked(j)) /\ ~(Fresh(j) /\ Held(j)) /\ ~(Fresh(j) /\ Gone(j))
           /\ ~(Asked(j) /\ Held(j)) /\ ~(Asked(j) /\ Gone(j)) /\ ~(Held(j) /\ Gone(j))
<1>1. CASE j \in Used
  <2>1. AttachAt(j) \in Nat /\ DetachAt(j) \in Nat /\ AttachAt(j) < DetachAt(j)
    BY <1>1, Places
  <2>. QED  BY <2>1 DEF Fresh, Asked, Held, Gone
<1>2. CASE j \notin Used
  BY <1>2 DEF Asked, Held, Gone
<1>. QED  BY <1>1, <1>2

LEMMA OneStageNext ==
    ASSUME exe \in Tracing, exe' = exe, ip' \in Nat, NEW j \in 1..Len(Pids)
    PROVE  /\ ~(Fresh(j)' /\ Asked(j)') /\ ~(Fresh(j)' /\ Held(j)') /\ ~(Fresh(j)' /\ Gone(j)')
           /\ ~(Asked(j)' /\ Held(j)') /\ ~(Asked(j)' /\ Gone(j)') /\ ~(Held(j)' /\ Gone(j)')
<1>0. Used' = Used /\ AttachAt(j)' = AttachAt(j) /\ DetachAt(j)' = DetachAt(j)
  BY DEF Used, AttachAt, DetachAt
<1>1. CASE j \in Used
  <2>1. AttachAt(j) \in Nat /\ DetachAt(j) \in Nat /\ AttachAt(j) < DetachAt(j)
    BY <1>1, Places
  <2>. QED  BY <1>0, <2>1 DEF Fresh, Asked, Held, Gone
<1>2. CASE j \notin Used
  BY <1>0, <1>2 DEF Asked, Held, Gone
<1>. QED  BY <1>1, <1>2

\* A target that keeps its stage and that nothing happens to.
LEMMA LeftAlone ==
    ASSUME STypeOK, [SNext]_svars, NEW l \in 1..Len(Pids), TargetOK(l),
           (Fresh(l)' => Fresh(l)) /\ (Asked(l)' => Asked(l)) /\ (Held(l)' => Held(l)) /\ (Gone(l)' => Gone(l)),
           status'[Pids[l]] = status[Pids[l]], sent'[Pids[l]] = sent[Pids[l]],
           Pids[l] \notin traced => Pids[l] \notin traced',
           Pids[l] \notin event => Pids[l] \notin event',
           seen'[Pids[l]] = seen[Pids[l]], mem'[Pids[l]] = mem[Pids[l]]
    PROVE  TargetOK(l)'
<1>1. (kills' = 0 => kills = 0) /\ (Quiet' => Quiet)
  BY Monotone
<1>2. Fresh(l)' => FreshOK(l)'
  BY <1>1 DEF TargetOK, FreshOK
<1>3. Asked(l)' => AskedOK(l)'
  BY <1>1 DEF TargetOK, AskedOK
<1>4. Held(l)' => HeldOK(l)'
  BY <1>1 DEF TargetOK, HeldOK
<1>5. Gone(l)' => GoneOK(l)'
  BY <1>1 DEF TargetOK, GoneOK
<1>. QED  BY <1>2, <1>3, <1>4, <1>5 DEF TargetOK

\* The answer to wait(NULL) is that of the target just attached to.
LEMMA WaitAnswer ==
    ASSUME STypeOK, Reliable, \A l \in 1..Len(Pids) : TargetOK(l),
           NEW j \in Used, ip = AttachAt(j), NEW any \in event
    PROVE  any = Pids[j]
<1>1. exe \in Tracing /\ any \in traced /\ any \in Target
  BY DEF Reliable, Tracing, STypeOK
<1>2. PICK m \in 1..Len(Pids) : any = Pids[m]
  BY <1>1, PidsType
<1>. SUFFICES ASSUME m # j PROVE FALSE
  BY <1>2
<1>3. ~Fresh(m)
  BY <1>1, <1>2 DEF TargetOK, FreshOK
<1>4. m \in Used \ {j} /\ ~(ip < AttachAt(m)) /\ ip # AttachAt(m)
  BY <1>1, <1>3, Places DEF Fresh
<1>5. ip \in Nat /\ AttachAt(m) \in Nat /\ DetachAt(m) \in Nat /\ AttachAt(m) < ip
  <2>1. AttachAt(j) \in Nat /\ AttachAt(m) \in Nat /\ DetachAt(m) \in Nat
    BY <1>1, <1>4, Places
  <2>. QED  BY <1>4, <2>1
<1>6. CASE exe = "memdump"
  BY <1>1, <1>4, <1>6, Places
<1>7. CASE exe = "cmp"
  <2>1. ip < DetachAt(m)
    BY <1>1, <1>4, <1>7, Places
  <2>2. Held(m)
    BY <1>4, <1>5, <2>1 DEF Held
  <2>. QED  BY <1>2, <1>7, <2>2 DEF TargetOK, HeldOK, Reliable
<1>8. CASE exe = "setcmp"
  <2>1. DetachAt(m) < ip
    BY <1>1, <1>4, <1>5, <1>8, Places
  <2>2. Gone(m)
    BY <1>4, <1>5, <2>1 DEF Gone
  <2>. QED  BY <1>2, <1>8, <2>2 DEF TargetOK, GoneOK, Reliable, Quiet
<1>. QED  BY <1>1, <1>6, <1>7, <1>8 DEF Tracing

\* The system calls.
LEMMA ToolTargets ==
    ASSUME SInv, [SNext]_svars, Reliable, alive, NEW q \in Target,
           PTRACE_ATTACH(q) \/ Wait(q) \/ Open(q) \/ Read(q) \/ PTRACE_CONT(q) \/ PTRACE_DETACH(q)
    PROVE  \A l \in 1..Len(Pids) : TargetOK(l)'
<1>. SUFFICES ASSUME NEW l \in 1..Len(Pids) PROVE TargetOK(l)'
  OBVIOUS
<1>0. STypeOK /\ KernelOK /\ exe \in Tracing /\ (\A m \in 1..Len(Pids) : TargetOK(m)) /\ STypeOK' /\ KernelOK'
  BY NextTypes DEF SInv, Reliable, Tracing
<1>n. ip \in Nat /\ done \in Nat
  BY <1>0, MainLen, SessionAssumption DEF STypeOK
<1>p. Pids[l] \in Target /\ \A j \in 1..Len(Pids) : Pids[j] = Pids[l] => j = l
  BY PidsType
<1>k. (kills' = 0 => kills = 0) /\ (Quiet' => Quiet) /\ exe' = exe
  BY <1>0, Monotone
<1>u. Used \subseteq 1..Len(Pids)
  BY DEF Used
<1>1. ASSUME PTRACE_ATTACH(q) PROVE TargetOK(l)'
  <2>1. At("attach", q) /\ Advance
    BY <1>1 DEF PTRACE_ATTACH
  <2>2. CASE Pids[l] # q
    <3>1. (Fresh(l)' => Fresh(l)) /\ (Asked(l)' => Asked(l)) /\ (Held(l)' => Held(l)) /\ (Gone(l)' => Gone(l))
      BY <1>0, <2>1, <2>2, AdvanceStage
    <3>2. /\ status' = status /\ sent'[Pids[l]] = sent[Pids[l]] /\ event' = event
          /\ (Pids[l] \notin traced => Pids[l] \notin traced') /\ seen' = seen /\ mem' = mem
      BY <1>0, <1>1, <1>p, <2>2 DEF PTRACE_ATTACH, STypeOK
    <3>. QED  BY <1>0, <3>1, <3>2, LeftAlone
  <2>3. CASE Pids[l] = q
    <3>1. l \in Used /\ ip = AttachAt(l) /\ done = 0
      BY <1>0, <1>p, <1>u, <2>1, <2>3, Position
    <3>2. Asked(l)'
      BY <1>k, <2>1, <3>1 DEF Asked, Advance, Used, AttachAt
    <3>3. ~Fresh(l)' /\ ~Held(l)' /\ ~Gone(l)'
      <4>1. ip' \in Nat
        BY <1>n, <2>1 DEF Advance
      <4>. QED  BY <1>0, <1>k, <3>2, <4>1, OneStageNext
    <3>4. FreshOK(l)
      BY <1>0, <3>1 DEF TargetOK, Fresh
    <3>5. AskedOK(l)'
      BY <1>1, <1>k, <3>4 DEF AskedOK, FreshOK, PTRACE_ATTACH
    <3>. QED  BY <3>2, <3>3, <3>5 DEF TargetOK
  <2>. QED  BY <2>2, <2>3
<1>2. ASSUME Wait(q) PROVE TargetOK(l)'
  <2>1. At("wait", q) /\ Advance
    BY <1>2 DEF Wait
  <2>2. PICK j \in Used : q = Pids[j] /\ ip = AttachAt(j) /\ done = 1
    BY <1>0, <2>1, Position
  <2>3. PICK any \in event : event' = event \ {any}
                             /\ traced' = IF status[any] = "dead" THEN traced \ {any} ELSE traced
    BY <1>2 DEF Wait
  <2>4. any = q
    BY <1>0, <2>2, WaitAnswer
  <2>5. CASE Pids[l] # q
    <3>1. (Fresh(l)' => Fresh(l)) /\ (Asked(l)' => Asked(l)) /\ (Held(l)' => Held(l)) /\ (Gone(l)' => Gone(l))
      BY <1>0, <2>1, <2>5, AdvanceStage
    <3>2. /\ status' = status /\ sent' = sent /\ event' \subseteq event
          /\ traced' \subseteq traced /\ seen' = seen /\ mem' = mem
      BY <1>2, <2>3 DEF Wait
    <3>. QED  BY <1>0, <3>1, <3>2, LeftAlone
  <2>6. CASE Pids[l] = q
    <3>1. l \in Used /\ ip = AttachAt(l) /\ done = 1
      BY <1>p, <1>u, <2>2, <2>6
    <3>2. Held(l)'
      <4>1. done' = 2 /\ ip' = ip
        BY <2>1, <3>1 DEF Advance
      <4>. QED  BY <1>k, <3>1, <4>1 DEF Held, Used, AttachAt
    <3>3. ~Fresh(l)' /\ ~Asked(l)' /\ ~Gone(l)'
      <4>1. ip' \in Nat
        BY <1>n, <2>1 DEF Advance
      <4>. QED  BY <1>0, <1>k, <3>2, <4>1, OneStageNext
    <3>4. AskedOK(l)
      BY <1>0, <3>1 DEF TargetOK, Asked
    <3>5. HeldOK(l)'
      BY <1>0, <1>2, <1>k, <2>3, <2>4, <2>6, <3>4 DEF AskedOK, HeldOK, KernelOK, Wait
    <3>. QED  BY <3>2, <3>3, <3>5 DEF TargetOK
  <2>. QED  BY <2>5, <2>6
<1>3. ASSUME Open(q) PROVE TargetOK(l)'
  <2>1. At("open", q) /\ Advance /\ UNCHANGED <<status, traced, sent, event, mem, seen>>
    BY <1>3 DEF Open, kernel
  <2>2. (Fresh(l)' => Fresh(l)) /\ (Asked(l)' => Asked(l)) /\ (Held(l)' => Held(l)) /\ (Gone(l)' => Gone(l))
    BY <1>0, <2>1, AdvanceStage
  <2>. QED  BY <1>0, <2>1, <2>2, LeftAlone
<1>4. ASSUME Read(q) PROVE TargetOK(l)'
  <2>1. PICK op \in {"read", "scan"} : At(op, q)
    BY <1>4 DEF Read, Reads
  <2>2. Advance /\ UNCHANGED <<status, traced, sent, event, mem>>
        /\ seen' = IF status[q] = "dead" THEN seen ELSE [seen EXCEPT ![q] = @ \cup {mem[q]}]
    BY <1>4 DEF Read, kernel
  <2>3. (Fresh(l)' => Fresh(l)) /\ (Asked(l)' => Asked(l)) /\ (Held(l)' => Held(l)) /\ (Gone(l)' => Gone(l))
    BY <1>0, <2>1, <2>2, AdvanceStage
  <2>4. CASE seen'[Pids[l]] = seen[Pids[l]]
    BY <1>0, <2>2, <2>3, <2>4, LeftAlone
  <2>5. CASE seen'[Pids[l]] # seen[Pids[l]]
    <3>1. Pids[l] = q /\ seen'[q] = seen[q] \cup {mem[q]}
      BY <1>0, <1>p, <2>2, <2>5 DEF STypeOK
    <3>2. l \in Used /\ AttachAt(l) < ip /\ ip < DetachAt(l)
      BY <1>0, <1>p, <1>u, <2>1, <3>1, Position
    <3>3. Held(l)
      BY <3>2 DEF Held
    <3>4. ~Fresh(l) /\ ~Asked(l) /\ ~Gone(l)
      BY <1>0, <1>n, <3>3, OneStage
    <3>5. HeldOK(l)'
      BY <1>0, <1>k, <2>2, <3>1, <3>3 DEF TargetOK, HeldOK
    <3>. QED  BY <2>3, <3>4, <3>5 DEF TargetOK
  <2>. QED  BY <2>4, <2>5
<1>5. ASSUME PTRACE_CONT(q) PROVE TargetOK(l)'
  <2>1. At("cont", q) /\ Advance /\ UNCHANGED <<traced, sent, mem, seen>> /\ event' \subseteq event
    BY <1>5 DEF PTRACE_CONT, Resume
  <2>2. CASE Pids[l] # q
    <3>1. (Fresh(l)' => Fresh(l)) /\ (Asked(l)' => Asked(l)) /\ (Held(l)' => Held(l)) /\ (Gone(l)' => Gone(l))
      BY <1>0, <2>1, <2>2, AdvanceStage
    <3>2. status'[Pids[l]] = status[Pids[l]]
      BY <1>0, <1>5, <1>p, <2>2, SMTT(30) DEF PTRACE_CONT, Resume, STypeOK
    <3>. QED  BY <1>0, <2>1, <3>1, <3>2, LeftAlone
  <2>3. CASE Pids[l] = q
    <3>1. l \in Used /\ ip = DetachAt(l) /\ done = 0
      BY <1>0, <1>p, <1>u, <2>1, <2>3, Position
    <3>2. Gone(l)'
      <4>1. done' > 0 /\ ip' = ip
        BY <2>1, <3>1 DEF Advance
      <4>. QED  BY <1>k, <3>1, <4>1 DEF Gone, Used, DetachAt
    <3>3. ~Fresh(l)' /\ ~Asked(l)' /\ ~Held(l)'
      <4>1. ip' \in Nat
        BY <1>n, <2>1 DEF Advance
      <4>. QED  BY <1>0, <1>k, <3>2, <4>1, OneStageNext
    <3>4. HeldOK(l)
      BY <1>0, <3>1 DEF TargetOK, Held
    <3>5. GoneOK(l)'
      BY <1>k, <2>1, <3>4 DEF HeldOK, GoneOK, Quiet
    <3>. QED  BY <3>2, <3>3, <3>5 DEF TargetOK
  <2>. QED  BY <2>2, <2>3
<1>6. ASSUME PTRACE_DETACH(q) PROVE TargetOK(l)'
  <2>1. At("detach", q) /\ Advance /\ UNCHANGED <<sent, mem, seen>> /\ event' \subseteq event /\ traced' \subseteq traced
    BY <1>6 DEF PTRACE_DETACH, Resume
  <2>2. CASE Pids[l] # q
    <3>1. (Fresh(l)' => Fresh(l)) /\ (Asked(l)' => Asked(l)) /\ (Held(l)' => Held(l)) /\ (Gone(l)' => Gone(l))
      BY <1>0, <2>1, <2>2, AdvanceStage
    <3>2. status'[Pids[l]] = status[Pids[l]]
      BY <1>0, <1>6, <1>p, <2>2, SMTT(30) DEF PTRACE_DETACH, Resume, STypeOK
    <3>. QED  BY <1>0, <2>1, <3>1, <3>2, LeftAlone
  <2>3. CASE Pids[l] = q
    <3>1. l \in Used /\ ip = DetachAt(l) /\ done = 1
      BY <1>0, <1>p, <1>u, <2>1, <2>3, Position
    <3>2. Gone(l)'
      <4>1. done' > 0 /\ ip' = ip
        BY <2>1, <3>1 DEF Advance
      <4>. QED  BY <1>k, <3>1, <4>1 DEF Gone, Used, DetachAt
    <3>3. ~Fresh(l)' /\ ~Asked(l)' /\ ~Held(l)'
      <4>1. ip' \in Nat
        BY <1>n, <2>1 DEF Advance
      <4>. QED  BY <1>0, <1>k, <3>2, <4>1, OneStageNext
    <3>4. GoneOK(l)
      BY <1>0, <3>1 DEF TargetOK, Gone
    <3>5. GoneOK(l)'
      BY <1>k, <2>1, <3>4 DEF GoneOK
    <3>. QED  BY <3>2, <3>3, <3>5 DEF TargetOK
  <2>. QED  BY <2>2, <2>3
<1>. QED  BY <1>1, <1>2, <1>3, <1>4, <1>5, <1>6

\* The rest of the system.
LEMMA OtherTargets ==
    ASSUME SInv, [SNext]_svars, Reliable, alive, Reliable', NEW q \in Target,
           Write(q) \/ Send(q) \/ Kill(q) \/ \E sig \in Signal : Deliver(q, sig)
    PROVE  \A l \in 1..Len(Pids) : TargetOK(l)'
<1>. SUFFICES ASSUME NEW l \in 1..Len(Pids) PROVE TargetOK(l)'
  OBVIOUS
<1>0. STypeOK /\ KernelOK /\ TargetOK(l)
  BY DEF SInv
<1>p. Pids[l] \in Target
  BY PidsType
<1>k. (kills' = 0 => kills = 0) /\ (Quiet' => Quiet)
  BY <1>0, Monotone
<1>s. (Fresh(l)' => Fresh(l)) /\ (Asked(l)' => Asked(l)) /\ (Held(l)' => Held(l)) /\ (Gone(l)' => Gone(l))
  BY SameStage DEF Write, Send, Kill, Deliver, tool
<1>1. ASSUME Write(q) PROVE TargetOK(l)'
  <2>1. UNCHANGED <<status, traced, sent, event, seen>>
    BY <1>1 DEF Write, kernel
  <2>2. CASE mem'[Pids[l]] = mem[Pids[l]]
    BY <1>0, <1>s, <2>1, <2>2, LeftAlone
  <2>3. CASE mem'[Pids[l]] # mem[Pids[l]]
    <3>1. Pids[l] = q
      BY <1>0, <1>1, <1>p, <2>3 DEF Write, STypeOK
    <3>2. status[q] = "running" \/ q \in Threaded
      BY <1>1 DEF Write, Runs
    <3>3. Fresh(l)' => FreshOK(l)'
      BY <1>0, <1>k, <1>s, <2>1 DEF TargetOK, FreshOK
    <3>4. Asked(l)' => AskedOK(l)'
      BY <1>0, <1>k, <1>s, <2>1 DEF TargetOK, AskedOK
    <3>5. Held(l)' => HeldOK(l)'
      BY <1>0, <1>k, <1>s, <2>1, <3>1, <3>2 DEF TargetOK, HeldOK
    <3>6. Gone(l)' => GoneOK(l)'
      BY <1>0, <1>k, <1>s, <2>1 DEF TargetOK, GoneOK
    <3>. QED  BY <3>3, <3>4, <3>5, <3>6 DEF TargetOK
  <2>. QED  BY <2>2, <2>3
<1>2. ASSUME Send(q) \/ Kill(q) PROVE TargetOK(l)'
  <2>1. ~Quiet' /\ (Kill(q) => kills' # 0)
    <3>1. sigs' = sigs + 1 \/ kills' = kills + 1
      BY <1>2 DEF Send, Kill
    <3>2. sigs \in Nat /\ kills \in Nat
      BY <1>0, SessionAssumption DEF STypeOK
    <3>3. Kill(q) => kills' = kills + 1
      BY DEF Kill
    <3>. QED  BY <3>1, <3>2, <3>3 DEF Quiet
  <2>2. UNCHANGED <<traced, mem, seen>>
    BY <1>2 DEF Send, Kill
  <2>3. Fresh(l)' => FreshOK(l)'
    BY <1>0, <1>s, <2>1, <2>2 DEF TargetOK, FreshOK
  <2>4. Asked(l)' => AskedOK(l)'
    BY <1>0, <1>s, <2>1, <2>2 DEF TargetOK, AskedOK
  <2>5. Held(l)' => HeldOK(l)'
    <3>1. CASE Send(q)
      BY <1>0, <1>k, <1>s, <2>1, <2>2, <3>1 DEF TargetOK, HeldOK, Send
    <3>2. CASE Kill(q)
      <4>1. status[Pids[l]] # "running" => status'[Pids[l]] # "running"
        BY <1>0, <1>p, <3>2 DEF Kill, STypeOK
      <4>. QED  BY <1>0, <1>s, <2>1, <2>2, <3>2, <4>1 DEF TargetOK, HeldOK
    <3>. QED  BY <1>2, <3>1, <3>2
  <2>6. Gone(l)' => GoneOK(l)'
    BY <2>1 DEF GoneOK
  <2>. QED  BY <2>3, <2>4, <2>5, <2>6 DEF TargetOK
<1>3. ASSUME NEW sig \in Signal, Deliver(q, sig) PROVE TargetOK(l)'
  <2>1. UNCHANGED <<traced, mem, seen>> /\ status[q] = "running" /\ sig \in sent[q]
        /\ sent' = [sent EXCEPT ![q] = @ \ {sig}]
    BY <1>3 DEF Deliver
  <2>2. CASE Pids[l] # q
    <3>1. status'[Pids[l]] = status[Pids[l]] /\ sent'[Pids[l]] = sent[Pids[l]]
          /\ (Pids[l] \notin event => Pids[l] \notin event')
      BY <1>0, <1>3, <1>p, <2>2 DEF Deliver, STypeOK
    <3>. QED  BY <1>0, <1>s, <2>1, <3>1, LeftAlone
  <2>3. CASE Pids[l] = q
    <3>1. ~Held(l)'
      BY <1>0, <1>s, <2>1, <2>3 DEF TargetOK, HeldOK
    <3>2. Fresh(l)' => FreshOK(l)'
      BY <1>0, <1>k, <1>s, <2>1, <2>3 DEF TargetOK, FreshOK
    <3>3. Gone(l)' => GoneOK(l)'
      BY <1>0, <1>k, <1>s, <2>1, <2>3 DEF TargetOK, GoneOK
    <3>4. Quiet => sent'[q] = {}
      <4>1. Quiet => sent[q] \subseteq {"STOP"}
        BY <1>0 DEF KernelOK
      <4>2. sent'[q] = sent[q] \ {sig}
        BY <1>0, <2>1 DEF STypeOK
      <4>. QED  BY <2>1, <4>1, <4>2
    <3>5. Asked(l)' => AskedOK(l)'
      BY <1>0, <1>k, <1>s, <2>1, <2>3, <3>4 DEF TargetOK, AskedOK
    <3>. QED  BY <3>1, <3>2, <3>3, <3>5 DEF TargetOK
  <2>. QED  BY <2>2, <2>3
<1>. QED  BY <1>1, <1>2, <1>3

\* Only a read changes seen, and it reads of a target that is held.
LEMMA SeenOnce ==
    ASSUME SInv, [SNext]_svars, Reliable, Reliable'
    PROVE  OneVersion'
<1>0. STypeOK /\ OneVersion /\ exe \in Tracing
  BY DEF SInv, Reliable, Tracing
<1>1. CASE \E q \in Target : Read(q)
  <2>1. PICK q \in Target : Read(q)
    BY <1>1
  <2>2. PICK op \in {"read", "scan"} : At(op, q)
    BY <2>1 DEF Read, Reads
  <2>3. PICK j \in Used : q = Pids[j] /\ AttachAt(j) < ip /\ ip < DetachAt(j)
    BY <1>0, <2>2, Position
  <2>4. j \in 1..Len(Pids) /\ alive /\ Held(j)
    BY <2>2, <2>3 DEF Used, Held, At, InMain
  <2>5. q \notin Threaded => seen[q] \subseteq {mem[q]}
    BY <2>3, <2>4 DEF SInv, TargetOK, HeldOK
  <2>6. \A r \in Target : seen'[r] = seen[r] \/ (r = q /\ seen'[r] = seen[r] \cup {mem[q]})
    BY <1>0, <2>1 DEF Read, STypeOK
  <2>. QED  BY <1>0, <2>5, <2>6 DEF OneVersion
<1>2. CASE ~\E q \in Target : Read(q)
  <2>1. seen' = seen
    BY <1>2 DEF SNext, ToolStep, PTRACE_ATTACH, AttachFails, Wait, Open, OpenFails, ScanFails, PTRACE_CONT,
                PTRACE_DETACH, CallReturns, Return, Exit, Write, Send, Kill, Deliver, svars
  <2>. QED  BY <1>0, <2>1 DEF OneVersion
<1>. QED  BY <1>1, <1>2

LEMMA InitSInv == SInit => SInv
<1>. SUFFICES ASSUME SInit PROVE SInv
  OBVIOUS
<1>1. STypeOK
  <2>1. Len(Main[exe]) \in Nat /\ Pages \in Nat /\ MaxWrite \in Nat /\ MaxSig \in Nat /\ MaxKill \in Nat
    BY MainLen, SessionAssumption DEF SInit
  <2>2. 1 \in 1..Len(Main[exe]) + 1 /\ 0 \in 0..Pages + 2 /\ 0 \in 0..MaxWrite /\ 0 \in 0..MaxSig /\ 0 \in 0..MaxKill
    BY <2>1
  <2>. QED  BY <2>2 DEF SInit, STypeOK
<1>2. KernelOK /\ OneVersion
  BY DEF SInit, KernelOK, OneVersion
<1>3. ASSUME Reliable, NEW j \in 1..Len(Pids) PROVE TargetOK(j)
  <2>1. exe \in Tracing /\ Pids[j] \in Target
    BY <1>3, PidsType DEF Reliable, Tracing
  <2>2. Fresh(j)
    <3>1. CASE j \in Used
      <4>1. ip < AttachAt(j) \/ (ip = AttachAt(j) /\ done = 0)
        BY <2>1, PidsType DEF SInit, AttachAt, Tracing
      <4>. QED  BY <4>1 DEF Fresh
    <3>2. CASE j \notin Used
      BY <3>2 DEF Fresh
    <3>. QED  BY <3>1, <3>2
  <2>3. ip \in Nat
    BY DEF SInit
  <2>4. ~Asked(j) /\ ~Held(j) /\ ~Gone(j)
    BY <2>1, <2>2, <2>3, OneStage
  <2>5. FreshOK(j)
    BY <2>1 DEF SInit, FreshOK
  <2>. QED  BY <2>2, <2>4, <2>5 DEF TargetOK
<1>. QED  BY <1>1, <1>2, <1>3 DEF SInv

LEMMA NextSInv == SInv /\ [SNext]_svars => SInv'
<1>. SUFFICES ASSUME SInv, [SNext]_svars PROVE SInv'
  OBVIOUS
<1>0. STypeOK /\ KernelOK /\ STypeOK' /\ KernelOK'
  BY NextTypes DEF SInv
<1>1. (Reliable' => Reliable) /\ (alive' => alive)
  BY <1>0, Monotone
<1>2. Reliable' => OneVersion'
  BY <1>1, SeenOnce
<1>3. ASSUME Reliable', alive' PROVE \A l \in 1..Len(Pids) : TargetOK(l)'
  <2>0. Reliable /\ alive /\ exe \in Tracing /\ \A l \in 1..Len(Pids) : TargetOK(l)
    BY <1>1, <1>3 DEF SInv, Reliable, Tracing
  <2>1. ~Exit
    BY <1>3 DEF Exit
  <2>2. CASE \E q \in Target : PTRACE_ATTACH(q) \/ Wait(q) \/ Open(q) \/ Read(q) \/ PTRACE_CONT(q) \/ PTRACE_DETACH(q)
    BY <2>0, <2>2, ToolTargets
  <2>3. CASE \E q \in Target : Write(q) \/ Send(q) \/ Kill(q) \/ \E sig \in Signal : Deliver(q, sig)
    BY <1>3, <2>0, <2>3, OtherTargets
  <2>4. CASE CallReturns
    <3>. SUFFICES ASSUME NEW l \in 1..Len(Pids) PROVE TargetOK(l)'
      OBVIOUS
    <3>1. (Fresh(l)' => Fresh(l)) /\ (Asked(l)' => Asked(l)) /\ (Held(l)' => Held(l)) /\ (Gone(l)' => Gone(l))
      BY <1>0, <2>0, <2>4, ReturnStage
    <3>2. UNCHANGED <<status, traced, sent, event, mem, seen>>
      BY <2>4 DEF CallReturns, kernel
    <3>. QED  BY <1>0, <2>0, <3>1, <3>2, LeftAlone
  <2>5. CASE UNCHANGED svars
    <3>. SUFFICES ASSUME NEW l \in 1..Len(Pids) PROVE TargetOK(l)'
      OBVIOUS
    <3>1. UNCHANGED <<exe, ip, done, status, traced, sent, event, mem, seen>>
      BY <2>5 DEF svars, tool, kernel
    <3>2. (Fresh(l)' => Fresh(l)) /\ (Asked(l)' => Asked(l)) /\ (Held(l)' => Held(l)) /\ (Gone(l)' => Gone(l))
      BY <3>1, SameStage
    <3>. QED  BY <1>0, <2>0, <3>1, <3>2, LeftAlone
  <2>. QED  BY <2>1, <2>2, <2>3, <2>4, <2>5 DEF SNext, ToolStep, AttachFails, OpenFails, ScanFails, Return
<1>. QED  BY <1>0, <1>2, <1>3 DEF SInv

-----------------------------------------------------------------------------

\* Type correctness: the position in main, the kernel's view of the targets and
\* the notifications fit together in every run of every tool.
THEOREM SessionType == SSpec => []STypeOK
<1>1. SInv => STypeOK
  BY DEF SInv
<1>. QED  BY <1>1, InitSInv, NextSInv, PTL DEF SSpec

\* What proc_attach and proc_detach around proc_do and proc_parse_pagemap are
\* for: everything read of a target shows one state of its memory, whatever
\* signals, writes, failures and (in memdump) kills come in between.
THEOREM ReadsCoherent == SSpec => []Coherent
<1>1. SInv => Coherent
  <2>. SUFFICES ASSUME SInv, Reliable, NEW q \in Target \ Threaded PROVE Cardinality(seen[q]) <= 1
    BY DEF Coherent
  <2>1. PICK v : seen[q] \subseteq {v}
    BY DEF SInv, OneVersion
  <2>2. IsFiniteSet({v}) /\ Cardinality({v}) = 1
    BY FS_Singleton
  <2>3. Cardinality(seen[q]) <= Cardinality({v})
    BY <2>1, <2>2, FS_Subset
  <2>. QED  BY <2>2, <2>3
<1>. QED  BY <1>1, InitSInv, NextSInv, PTL DEF SSpec

-----------------------------------------------------------------------------
(* cmp with signals and kills at any time.  The first target, once held, is *)
(* stopped until it is detached and has nothing to report but its death: if *)
(* the second wait is not answered by the second target, the first is dead. *)

CmpTarget(j) ==
    LET q == Pids[j]
    IN  /\ Fresh(j) => q \notin traced
        /\ j = 1 /\ Held(j) => status[q] # "running" /\ (q \in event => status[q] = "dead")
        /\ j = 2 /\ Held(j) => (status[q] = "running" => status[Pids[1]] = "dead")

CmpInv ==
    /\ STypeOK
    /\ KernelOK
    /\ exe = "cmp" /\ alive => \A j \in 1..Len(Pids) : CmpTarget(j)

\* Nobody comes back to life.
LEMMA DeadStays ==
    ASSUME STypeOK, [SNext]_svars, NEW q \in Target, status[q] = "dead"
    PROVE  status'[q] = "dead"
<1>1. CASE status' = status
  BY <1>1
<1>2. ASSUME NEW r \in Target, PTRACE_CONT(r) \/ PTRACE_DETACH(r) PROVE status'[q] = "dead"
  BY <1>2 DEF PTRACE_CONT, PTRACE_DETACH, Stopped, Resume, STypeOK
<1>3. ASSUME NEW r \in Target, Kill(r) \/ \E sig \in Signal : Deliver(r, sig) PROVE status'[q] = "dead"
  BY <1>3 DEF Kill, Deliver, STypeOK
<1>4. CASE Exit
  BY <1>4 DEF Exit
<1>5. \/ status' = status
      \/ \E r \in Target : PTRACE_CONT(r) \/ PTRACE_DETACH(r)
      \/ \E r \in Target : Kill(r) \/ \E sig \in Signal : Deliver(r, sig)
      \/ Exit
  BY DEF SNext, ToolStep, PTRACE_ATTACH, AttachFails, Wait, Open, OpenFails, Read, ScanFails,
         CallReturns, Return, Write, Send, kernel, svars
<1>. QED  BY <1>1, <1>2, <1>3, <1>4, <1>5

\* A target that is not let go of, and whatever else happens to it.
LEMMA CmpKept ==
    ASSUME STypeOK, [SNext]_svars, NEW l \in 1..Len(Pids), CmpTarget(l),
           Fresh(l)' => Fresh(l), Held(l)' => Held(l),
           Pids[l] \notin traced => Pids[l] \notin traced',
           status[Pids[l]] # "running" => status'[Pids[l]] # "running",
           Pids[l] \in event' => \/ Pids[l] \in event
                                 \/ status[Pids[l]] = "running"
                                 \/ status'[Pids[l]] = "dead"
    PROVE  CmpTarget(l)'
<1>1. \A j \in 1..Len(Pids) : status[Pids[j]] = "dead" => status'[Pids[j]] = "dead"
  BY PidsType, DeadStays
<1>2. 1 \in 1..Len(Pids)
  BY PidsType
<1>. QED  BY <1>1, <1>2 DEF CmpTarget

\* The same of a target whose own stage is over or has yet to come.
LEMMA CmpOther ==
    ASSUME NEW l \in 1..Len(Pids), ~Fresh(l)', ~Held(l)'
    PROVE  CmpTarget(l)'
BY DEF CmpTarget

\* Who can answer the wait for target j.
LEMMA CmpAnswer ==
    ASSUME STypeOK, KernelOK, exe = "cmp", \A l \in 1..Len(Pids) : CmpTarget(l),
           NEW j \in Used, ip = AttachAt(j), NEW any \in event
    PROVE  /\ status[any] # "running"
           /\ any # Pids[j] => j = 2 /\ any = Pids[1] /\ status[Pids[1]] = "dead"
<1>1. any \in traced /\ any \in Target /\ exe \in Tracing
  BY DEF STypeOK, Tracing
<1>2. PICK m \in 1..Len(Pids) : any = Pids[m]
  BY <1>1, PidsType
<1>3. ~Fresh(m)
  BY <1>1, <1>2 DEF CmpTarget
<1>4. m \in Used /\ ~(ip < AttachAt(m))
  BY <1>3 DEF Fresh
<1>5. /\ j \in {1, 2} /\ AttachAt(j) = 2 + j
      /\ m \in {1, 2} /\ AttachAt(m) = 2 + m /\ DetachAt(m) = 9 + m
  BY <1>4, PidsType DEF Used, AttachAt, DetachAt
<1>6. status[any] # "running"
  BY DEF KernelOK
<1>7. ASSUME m # j PROVE j = 2 /\ any = Pids[1] /\ status[Pids[1]] = "dead"
  <2>1. j = 2 /\ m = 1
    BY <1>4, <1>5, <1>7
  <2>2. Held(1)
    BY <1>4, <1>5, <2>1 DEF Held
  <2>. QED  BY <1>2, <2>1, <2>2 DEF CmpTarget
<1>. QED  BY <1>2, <1>6, <1>7

\* The system calls.
LEMMA CmpTool ==
    ASSUME CmpInv, [SNext]_svars, exe = "cmp", alive, NEW q \in Target,
           PTRACE_ATTACH(q) \/ Wait(q) \/ Open(q) \/ Read(q) \/ PTRACE_CONT(q) \/ PTRACE_DETACH(q),
           NEW l \in 1..Len(Pids)
    PROVE  CmpTarget(l)'
<1>0. STypeOK /\ KernelOK /\ exe \in Tracing /\ (\A m \in 1..Len(Pids) : CmpTarget(m)) /\ STypeOK' /\ KernelOK'
  BY NextTypes DEF CmpInv, Tracing
<1>n. ip \in Nat /\ done \in Nat
  BY <1>0, MainLen, SessionAssumption DEF STypeOK
<1>p. /\ Pids[l] \in Target /\ (\A j \in 1..Len(Pids) : Pids[j] = Pids[l] => j = l)
      /\ 1 \in 1..Len(Pids) /\ 2 \in 1..Len(Pids)
  BY PidsType
<1>k. exe' = exe
  BY <1>0, Monotone
<1>u. Used \subseteq 1..Len(Pids)
  BY DEF Used
<1>1. ASSUME PTRACE_ATTACH(q) PROVE CmpTarget(l)'
  <2>1. At("attach", q) /\ Advance /\ UNCHANGED <<status, event>> /\ traced' = traced \cup {q}
    BY <1>1 DEF PTRACE_ATTACH
  <2>2. CASE Pids[l] # q
    <3>1. (Fresh(l)' => Fresh(l)) /\ (Held(l)' => Held(l))
      BY <1>0, <2>1, <2>2, AdvanceStage
    <3>. QED  BY <1>0, <2>1, <2>2, <3>1, CmpKept
  <2>3. CASE Pids[l] = q
    <3>1. l \in Used /\ ip = AttachAt(l) /\ done = 0
      BY <1>0, <1>p, <1>u, <2>1, <2>3, Position
    <3>2. Asked(l)'
      BY <1>k, <2>1, <3>1 DEF Asked, Advance, Used, AttachAt
    <3>3. ~Fresh(l)' /\ ~Held(l)'
      <4>1. ip' \in Nat
        BY <1>n, <2>1 DEF Advance
      <4>. QED  BY <1>0, <1>k, <3>2, <4>1, OneStageNext
    <3>. QED  BY <3>3, CmpOther
  <2>. QED  BY <2>2, <2>3
<1>2. ASSUME Wait(q) PROVE CmpTarget(l)'
  <2>1. At("wait", q) /\ Advance /\ status' = status
    BY <1>2 DEF Wait
  <2>2. PICK j \in Used : q = Pids[j] /\ ip = AttachAt(j) /\ done = 1
    BY <1>0, <2>1, Position
  <2>3. PICK any \in event : event' = event \ {any}
                             /\ traced' = IF status[any] = "dead" THEN traced \ {any} ELSE traced
    BY <1>2 DEF Wait
  <2>4. status[any] # "running" /\ (any # q => j = 2 /\ any = Pids[1] /\ status[Pids[1]] = "dead")
    BY <1>0, <2>2, CmpAnswer
  <2>5. CASE Pids[l] # q
    <3>1. (Fresh(l)' => Fresh(l)) /\ (Held(l)' => Held(l))
      BY <1>0, <2>1, <2>5, AdvanceStage
    <3>2. event' \subseteq event /\ traced' \subseteq traced
      BY <2>3
    <3>. QED  BY <1>0, <2>1, <3>1, <3>2, CmpKept
  <2>6. CASE Pids[l] = q
    <3>1. l = j /\ l \in Used /\ ip = AttachAt(l) /\ done = 1
      BY <1>p, <1>u, <2>2, <2>6
    <3>2. Held(l)'
      <4>1. done' = 2 /\ ip' = ip
        BY <2>1, <3>1 DEF Advance
      <4>. QED  BY <1>k, <3>1, <4>1 DEF Held, Used, AttachAt
    <3>3. ~Fresh(l)'
      <4>1. ip' \in Nat
        BY <1>n, <2>1 DEF Advance
      <4>. QED  BY <1>0, <1>k, <3>2, <4>1, OneStageNext
    <3>4. CASE any = q
      BY <2>1, <2>3, <2>4, <2>6, <3>3, <3>4 DEF CmpTarget
    <3>5. CASE any # q
      BY <2>1, <2>4, <3>1, <3>3, <3>5 DEF CmpTarget
    <3>. QED  BY <3>4, <3>5
  <2>. QED  BY <2>5, <2>6
<1>3. ASSUME Open(q) \/ Read(q) PROVE CmpTarget(l)'
  <2>1. PICK op \in {"open", "read", "scan"} : At(op, q)
    BY <1>3 DEF Open, Read, Reads
  <2>2. Advance /\ UNCHANGED <<status, traced, event>>
    BY <1>3 DEF Open, Read, kernel
  <2>3. (Fresh(l)' => Fresh(l)) /\ (Held(l)' => Held(l))
    BY <1>0, <2>1, <2>2, AdvanceStage
  <2>. QED  BY <1>0, <2>2, <2>3, CmpKept
<1>4. ASSUME PTRACE_CONT(q) \/ PTRACE_DETACH(q) PROVE CmpTarget(l)'
  <2>1. PICK op \in {"cont", "detach"} : At(op, q)
    BY <1>4 DEF PTRACE_CONT, PTRACE_DETACH
  <2>2. Advance /\ event' \subseteq event /\ traced' \subseteq traced
    BY <1>4 DEF PTRACE_CONT, PTRACE_DETACH, Resume
  <2>3. CASE Pids[l] # q
    <3>1. (Fresh(l)' => Fresh(l)) /\ (Held(l)' => Held(l))
      BY <1>0, <2>1, <2>2, <2>3, AdvanceStage
    <3>2. status'[Pids[l]] = status[Pids[l]]
      BY <1>0, <1>4, <1>p, <2>3, SMTT(30) DEF PTRACE_CONT, PTRACE_DETACH, Resume, STypeOK
    <3>. QED  BY <1>0, <2>2, <3>1, <3>2, CmpKept
  <2>4. CASE Pids[l] = q
    <3>1. l \in Used /\ ip = DetachAt(l) /\ done \in {0, 1}
      BY <1>0, <1>p, <1>u, <2>1, <2>4, Position
    <3>2. Gone(l)'
      <4>1. done' > 0 /\ ip' = ip
        BY <2>2, <3>1 DEF Advance
      <4>. QED  BY <1>k, <3>1, <4>1 DEF Gone, Used, DetachAt
    <3>3. ~Fresh(l)' /\ ~Held(l)'
      <4>1. ip' \in Nat
        BY <1>n, <2>2 DEF Advance
      <4>. QED  BY <1>0, <1>k, <3>2, <4>1, OneStageNext
    <3>. QED  BY <3>3, CmpOther
  <2>. QED  BY <2>3, <2>4
<1>. QED  BY <1>1, <1>2, <1>3, <1>4

\* The rest of the system.
LEMMA CmpOthers ==
    ASSUME CmpInv, [SNext]_svars, exe = "cmp", alive, NEW q \in Target,
           Write(q) \/ Send(q) \/ Kill(q) \/ \E sig \in Signal : Deliver(q, sig),
           NEW l \in 1..Len(Pids)
    PROVE  CmpTarget(l)'
<1>0. STypeOK /\ CmpTarget(l) /\ Pids[l] \in Target
  BY PidsType DEF CmpInv
<1>1. (Fresh(l)' => Fresh(l)) /\ (Held(l)' => Held(l))
  BY SameStage DEF Write, Send, Kill, Deliver, tool
<1>2. traced' = traced
  BY DEF Write, Send, Kill, Deliver, kernel
<1>3. status[Pids[l]] # "running" => status'[Pids[l]] # "running"
  BY <1>0 DEF Write, Send, Kill, Deliver, kernel, STypeOK
<1>4. Pids[l] \in event' => \/ Pids[l] \in event
                            \/ status[Pids[l]] = "running"
                            \/ status'[Pids[l]] = "dead"
  BY <1>0 DEF Write, Send, Kill, Deliver, kernel, STypeOK
<1>. QED  BY <1>0, <1>1, <1>2, <1>3, <1>4, CmpKept

LEMMA NextCmpInv == CmpInv /\ [SNext]_svars => CmpInv'
<1>. SUFFICES ASSUME CmpInv, [SNext]_svars PROVE CmpInv'
  OBVIOUS
<1>0. STypeOK /\ KernelOK /\ STypeOK' /\ KernelOK'
  BY NextTypes DEF CmpInv
<1>1. ASSUME exe' = "cmp", alive', NEW l \in 1..Len(Pids) PROVE CmpTarget(l)'
  <2>0. exe = "cmp" /\ alive /\ exe \in Tracing /\ CmpTarget(l)
    BY <1>0, <1>1, Monotone DEF CmpInv, Tracing
  <2>1. ~Exit
    BY <1>1 DEF Exit
  <2>2. CASE \E q \in Target : PTRACE_ATTACH(q) \/ Wait(q) \/ Open(q) \/ Read(q) \/ PTRACE_CONT(q) \/ PTRACE_DETACH(q)
    BY <2>0, <2>2, CmpTool
  <2>3. CASE \E q \in Target : Write(q) \/ Send(q) \/ Kill(q) \/ \E sig \in Signal : Deliver(q, sig)
    BY <2>0, <2>3, CmpOthers
  <2>4. CASE CallReturns \/ UNCHANGED svars
    <3>1. (Fresh(l)' => Fresh(l)) /\ (Held(l)' => Held(l))
      BY <1>0, <2>0, <2>4, ReturnStage, SameStage DEF svars, tool
    <3>2. UNCHANGED <<status, traced, event>>
      BY <2>4 DEF CallReturns, kernel, svars
    <3>. QED  BY <1>0, <2>0, <3>1, <3>2, CmpKept
  <2>. QED  BY <2>1, <2>2, <2>3, <2>4 DEF SNext, ToolStep, AttachFails, OpenFails, ScanFails, Return
<1>. QED  BY <1>0, <1>1 DEF CmpInv

\* cmp reads of two processes that are stopped at the same time: its second
\* wait(NULL), which takes the answer of any process, is answered by the second
\* process, or the first has been killed.
THEOREM CmpStopsBoth == SSpec => []CmpReadsStopped
<1>1. SInit => CmpInv
  <2>1. ASSUME SInit, NEW j \in 1..Len(Pids), exe = "cmp" PROVE CmpTarget(j)
    <3>1. ~Held(j)
      <4>1. j \in Used => AttachAt(j) \in Nat /\ DetachAt(j) \in Nat /\ AttachAt(j) > 1 /\ DetachAt(j) > 1
        BY <2>1, PidsType DEF Used, AttachAt, DetachAt
      <4>. QED  BY <2>1, <4>1 DEF Held, SInit
    <3>. QED  BY <2>1, <3>1 DEF CmpTarget, SInit
  <2>. QED  BY <2>1, InitSInv DEF SInv, CmpInv
<1>2. CmpInv => CmpReadsStopped
  <2>. SUFFICES ASSUME CmpInv, exe = "cmp", NEW q \in Target, Reads(q)
                PROVE  /\ status[Pids[1]] # "running"
                       /\ status[Pids[2]] = "running" => status[Pids[1]] = "dead"
    BY DEF CmpReadsStopped
  <2>1. STypeOK /\ exe \in Tracing
    BY DEF CmpInv, Tracing
  <2>2. PICK op \in {"read", "scan"} : At(op, q)
    BY DEF Reads
  <2>3. ip \in 5..8 /\ alive
    BY <2>1, <2>2, Position DEF At, InMain
  <2>4. ASSUME NEW i \in {1, 2} PROVE i \in 1..Len(Pids) /\ Held(i)
    <3>1. i \in Used /\ i \in 1..Len(Pids)
      BY PidsType DEF Used
    <3>2. AttachAt(i) < 5 /\ DetachAt(i) > 8 /\ AttachAt(i) \in Nat /\ DetachAt(i) \in Nat
      BY <2>1, <3>1, Places
    <3>. QED  BY <2>3, <3>1, <3>2 DEF Held
  <2>. QED  BY <2>3, <2>4 DEF CmpInv, CmpTarget
<1>. QED  BY <1>1, <1>2, NextCmpInv, PTL DEF SSpec
=============================================================================
