----------------------------- MODULE MainsProofs -----------------------------
(* The calls of the main functions, for any number of processes: which call  *)
(* is where, and in which order the life of a struct Process goes.           *)
EXTENDS Mains, TLAPS

\* The pids are different from each other.
LEMMA PidsType == /\ Len(Pids) \in Nat /\ Len(Pids) >= 2 /\ DOMAIN Pids = 1..Len(Pids)
                  /\ \A j \in 1..Len(Pids) : Pids[j] \in Target
                  /\ \A q \in Target : \E j \in 1..Len(Pids) : q = Pids[j]
                  /\ \A j, l \in 1..Len(Pids) : Pids[j] = Pids[l] => j = l
<1>1. Pids \in Seq(Target) /\ Len(Pids) >= 2 /\ IsInjective(Pids)
  BY MainsAssumption
<1>2. Len(Pids) \in Nat /\ DOMAIN Pids = 1..Len(Pids)
  BY <1>1
<1>. QED  BY <1>1, <1>2 DEF IsInjective, Target, ToSet

\* What a loop of setcmp over the processes calls.
LEMMA EachOne ==
    ASSUME NEW S, NEW op \in S
    PROVE  /\ Len(Each(<<op>>)) = Len(Pids) /\ Each(<<op>>) \in Seq(S \X Target)
           /\ \A k \in 1..Len(Pids) : Each(<<op>>)[k] = <<op, Pids[k]>>
<1>1. Each(<<op>>) = [k \in 1..Len(Pids) |-> <<op, Pids[k]>>]
  <2>1. Len(<<op>>) = 1 /\ 1 * Len(Pids) = Len(Pids)
    <3>1. Len(<<op>>) = 1
      OBVIOUS
    <3>2. Len(Pids) \in Nat
      BY PidsType
    <3>. QED  BY <3>1, <3>2
  <2>2. \A k \in 1..Len(Pids) : (k - 1) % 1 = 0 /\ (k - 1) \div 1 = k - 1
    BY PidsType
  <2>3. \A k \in 1..Len(Pids) : 1 + ((k - 1) % 1) = 1 /\ 1 + ((k - 1) \div 1) = k
    BY <2>2, PidsType
  <2>4. \A k \in 1..Len(Pids) : <<op>>[1 + ((k - 1) % 1)] = op /\ Pids[1 + ((k - 1) \div 1)] = Pids[k]
    BY <2>3
  <2>. QED  BY <2>1, <2>4 DEF Each
<1>. QED  BY <1>1, PidsType

\* A loop over the processes with four calls a, b, c and d in its body.
LoopOK(S, a, b, c, d) ==
    LET loop == Each(<<a, b, c, d>>)
    IN  /\ Len(loop) = 4 * Len(Pids) /\ loop \in Seq(S \X Target)
        /\ \A j \in 1..Len(Pids) :
            /\ loop[4 * j - 3] = <<a, Pids[j]>> /\ loop[4 * j - 2] = <<b, Pids[j]>>
            /\ loop[4 * j - 1] = <<c, Pids[j]>> /\ loop[4 * j] = <<d, Pids[j]>>

LEMMA EachFour ==
    ASSUME NEW S, NEW a \in S, NEW b \in S, NEW c \in S, NEW d \in S
    PROVE  LoopOK(S, a, b, c, d)
<1>. DEFINE ops == <<a, b, c, d>>
<1>1. Len(ops) = 4 /\ ops[1] = a /\ ops[2] = b /\ ops[3] = c /\ ops[4] = d
  OBVIOUS
<1>2. Each(ops) = [k \in 1..4 * Len(Pids) |-> <<ops[1 + ((k - 1) % 4)], Pids[1 + ((k - 1) \div 4)]>>]
  BY <1>1 DEF Each
<1>. HIDE DEF ops
<1>3. ASSUME NEW k \in 1..4 * Len(Pids)
      PROVE  1 + ((k - 1) % 4) \in 1..4 /\ 1 + ((k - 1) \div 4) \in 1..Len(Pids)
  BY PidsType
<1>4. \A k \in 1..4 * Len(Pids) : ops[1 + ((k - 1) % 4)] \in S
  <2>1. \A m \in 1..4 : ops[m] \in S
    BY <1>1
  <2>. QED  BY <1>3, <2>1
<1>5. Each(ops) \in Seq(S \X Target) /\ Len(Each(ops)) = 4 * Len(Pids)
  BY <1>2, <1>3, <1>4, PidsType
<1>6. ASSUME NEW j \in 1..Len(Pids), NEW m \in 1..4
      PROVE  Each(ops)[4 * j - 4 + m] = <<ops[m], Pids[j]>>
  <2>1. /\ 4 * j - 4 + m \in 1..4 * Len(Pids)
        /\ 1 + ((4 * j - 4 + m - 1) % 4) = m /\ 1 + ((4 * j - 4 + m - 1) \div 4) = j
    BY PidsType
  <2>. QED  BY <1>2, <2>1
<1>7. ASSUME NEW j \in 1..Len(Pids)
      PROVE  /\ Each(ops)[4 * j - 3] = <<a, Pids[j]>> /\ Each(ops)[4 * j - 2] = <<b, Pids[j]>>
             /\ Each(ops)[4 * j - 1] = <<c, Pids[j]>> /\ Each(ops)[4 * j] = <<d, Pids[j]>>
  <2>1. 4 * j - 3 = 4 * j - 4 + 1 /\ 4 * j - 2 = 4 * j - 4 + 2 /\ 4 * j - 1 = 4 * j - 4 + 3 /\ 4 * j = 4 * j - 4 + 4
    OBVIOUS
  <2>2. 1 \in 1..4 /\ 2 \in 1..4 /\ 3 \in 1..4 /\ 4 \in 1..4
    OBVIOUS
  <2>. QED  BY <1>1, <1>6, <2>1, <2>2
<1>. QED  BY <1>5, <1>7 DEF LoopOK, ops

\* The elements of a concatenation.
LEMMA TwoParts ==
    ASSUME NEW S, NEW A \in Seq(S), NEW B \in Seq(S)
    PROVE  /\ A \o B \in Seq(S) /\ Len(A \o B) = Len(A) + Len(B)
           /\ \A k \in 1..Len(A \o B) : (A \o B)[k] = IF k <= Len(A) THEN A[k] ELSE B[k - Len(A)]
OBVIOUS

\* Where the elements of four sequences put together come from.
PartsOK(A, B, C, D) ==
    LET all == A \o B \o C \o D
        c == Len(A) + Len(B)
        d == Len(A) + Len(B) + Len(C)
    IN  /\ Len(all) = d + Len(D)
        /\ \A k \in 1..Len(A) : all[k] = A[k]
        /\ \A k \in 1..Len(B) : all[Len(A) + k] = B[k]
        /\ \A k \in 1..Len(C) : all[c + k] = C[k]
        /\ \A k \in 1..Len(D) : all[d + k] = D[k]

LEMMA FourParts ==
    ASSUME NEW S, NEW A \in Seq(S), NEW B \in Seq(S), NEW C \in Seq(S), NEW D \in Seq(S)
    PROVE  PartsOK(A, B, C, D)
<1>. DEFINE AB == A \o B
            ABC == AB \o C
            all == A \o B \o C \o D
            a == Len(A)
            b == Len(B)
            c == Len(C)
            d == Len(D)
<1>1. /\ AB \in Seq(S) /\ Len(AB) = a + b
      /\ \A k \in 1..Len(AB) : AB[k] = IF k <= a THEN A[k] ELSE B[k - a]
  BY TwoParts
<1>2. all = ABC \o D
  OBVIOUS
<1>. HIDE DEF AB, all
<1>3. /\ ABC \in Seq(S) /\ Len(ABC) = Len(AB) + c
      /\ \A k \in 1..Len(ABC) : ABC[k] = IF k <= Len(AB) THEN AB[k] ELSE C[k - Len(AB)]
  <2>1. AB \in Seq(S)
    BY <1>1
  <2>. QED  BY <2>1, TwoParts
<1>. HIDE DEF ABC
<1>4. /\ all \in Seq(S) /\ Len(all) = Len(ABC) + d
      /\ \A k \in 1..Len(all) : all[k] = IF k <= Len(ABC) THEN ABC[k] ELSE D[k - Len(ABC)]
  <2>1. ABC \in Seq(S)
    BY <1>3
  <2>. QED  BY <1>2, <2>1, TwoParts
<1>5. a \in Nat /\ b \in Nat /\ c \in Nat /\ d \in Nat
  OBVIOUS
<1>6. Len(AB) = a + b /\ Len(ABC) = a + b + c /\ Len(all) = a + b + c + d
  BY <1>1, <1>3, <1>4
<1>. HIDE DEF a, b, c, d
<1>7. \A k \in 1..a : all[k] = A[k]
  <2>. SUFFICES ASSUME NEW k \in 1..a PROVE all[k] = A[k]
    OBVIOUS
  <2>1. /\ k <= a /\ k <= Len(AB) /\ k <= Len(ABC)
        /\ k \in 1..Len(AB) /\ k \in 1..Len(ABC) /\ k \in 1..Len(all)
    BY <1>5, <1>6
  <2>. QED  BY <1>1, <1>3, <1>4, <2>1
<1>8. \A k \in 1..b : all[a + k] = B[k]
  <2>. SUFFICES ASSUME NEW k \in 1..b PROVE all[a + k] = B[k]
    OBVIOUS
  <2>1. /\ ~(a + k <= a) /\ a + k <= Len(AB) /\ a + k <= Len(ABC) /\ a + k - a = k
        /\ a + k \in 1..Len(AB) /\ a + k \in 1..Len(ABC) /\ a + k \in 1..Len(all)
    BY <1>5, <1>6
  <2>. QED  BY <1>1, <1>3, <1>4, <1>5, <2>1
<1>9. \A k \in 1..c : all[a + b + k] = C[k]
  <2>. SUFFICES ASSUME NEW k \in 1..c PROVE all[a + b + k] = C[k]
    OBVIOUS
  <2>1. PICK x : x = a + b + k
    OBVIOUS
  <2>2. x \in 1..Len(ABC) /\ x \in 1..Len(all) /\ x <= Len(ABC) /\ ~(x <= Len(AB)) /\ x - Len(AB) = k
    BY <1>5, <1>6, <2>1
  <2>3. all[x] = ABC[x]
    BY <1>4, <2>2
  <2>4. ABC[x] = C[x - Len(AB)]
    BY <1>3, <2>2
  <2>. QED  BY <2>1, <2>2, <2>3, <2>4
<1>10. \A k \in 1..d : all[a + b + c + k] = D[k]
  <2>. SUFFICES ASSUME NEW k \in 1..d PROVE all[a + b + c + k] = D[k]
    OBVIOUS
  <2>1. /\ ~(a + b + c + k <= Len(ABC)) /\ a + b + c + k - Len(ABC) = k
        /\ a + b + c + k \in 1..Len(all)
    BY <1>5, <1>6
  <2>. QED  BY <1>4, <1>5, <2>1
<1>. QED  BY <1>6, <1>7, <1>8, <1>9, <1>10 DEF PartsOK, all, a, b, c, d

-----------------------------------------------------------------------------
(* setcmp.                                                                  *)

\* Each call of setcmp, and where it is.
SetcmpOK(reports) ==
    LET n == Len(Pids)
        r == Len(reports)
        main == Setcmp(reports)
    IN  /\ n \in Nat /\ r \in Nat /\ Len(main) = 6 * n + r
        /\ \A j \in 1..n :
            /\ main[j] = <<"proc_init", Pids[j]>>
            /\ main[n + 4 * j - 3] = <<"proc_attach", Pids[j]>>
            /\ main[n + 4 * j - 2] = <<"proc_do", Pids[j]>>
            /\ main[n + 4 * j - 1] = <<"proc_parse_pagemap", Pids[j]>>
            /\ main[n + 4 * j] = <<"proc_detach", Pids[j]>>
            /\ main[5 * n + r + j] = <<"proc_del", Pids[j]>>
        /\ \A l \in 1..r : main[5 * n + l] = <<reports[l], Pids[1]>>
        /\ \A k \in 1..Len(main) :
            \/ \E j \in 1..n : k \in {j, n + 4 * j - 3, n + 4 * j - 2, n + 4 * j - 1, n + 4 * j,
                                      5 * n + r + j}
            \/ \E l \in 1..r : k = 5 * n + l

LEMMA SetcmpCalls ==
    ASSUME NEW O, NEW reports \in Seq(O),
           {"proc_init", "proc_attach", "proc_do", "proc_parse_pagemap", "proc_detach", "proc_del"}
               \subseteq O
    PROVE  SetcmpOK(reports)
<1>. DEFINE n == Len(Pids)
            r == Len(reports)
            A == Each(<<"proc_init">>)
            B == Each(<<"proc_attach", "proc_do", "proc_parse_pagemap", "proc_detach">>)
            C == [k \in DOMAIN reports |-> <<reports[k], Pids[1]>>]
            D == Each(<<"proc_del">>)
            main == Setcmp(reports)
            S == O \X Target
<1>1. main = A \o B \o C \o D
  BY DEF Setcmp
<1>2. A \in Seq(S) /\ Len(A) = n /\ \A k \in 1..n : A[k] = <<"proc_init", Pids[k]>>
  BY EachOne
<1>3. D \in Seq(S) /\ Len(D) = n /\ \A k \in 1..n : D[k] = <<"proc_del", Pids[k]>>
  BY EachOne
<1>4. C \in Seq(S) /\ Len(C) = r /\ r \in Nat /\ \A k \in 1..r : C[k] = <<reports[k], Pids[1]>>
  BY PidsType
<1>5. B \in Seq(S) /\ Len(B) = 4 * n /\ LoopOK(O, "proc_attach", "proc_do", "proc_parse_pagemap", "proc_detach")
  <2>1. LoopOK(O, "proc_attach", "proc_do", "proc_parse_pagemap", "proc_detach")
    BY EachFour
  <2>. QED  BY <2>1 DEF LoopOK
<1>6. n \in Nat
  BY PidsType
<1>7. PartsOK(A, B, C, D)
  <2>. HIDE DEF A, B, C, D, S
  <2>. QED  BY <1>2, <1>3, <1>4, <1>5, FourParts
<1>8. \A j \in 1..n : /\ B[4 * j - 3] = <<"proc_attach", Pids[j]>> /\ B[4 * j - 2] = <<"proc_do", Pids[j]>>
                      /\ B[4 * j - 1] = <<"proc_parse_pagemap", Pids[j]>> /\ B[4 * j] = <<"proc_detach", Pids[j]>>
  BY <1>5 DEF LoopOK
<1>. HIDE DEF A, B, C, D, S, n, r, main
<1>9. /\ Len(main) = n + 4 * n + r + n
      /\ \A k \in 1..n : main[k] = A[k]
      /\ \A k \in 1..4 * n : main[n + k] = B[k]
      /\ \A k \in 1..r : main[n + 4 * n + k] = C[k]
      /\ \A k \in 1..n : main[n + 4 * n + r + k] = D[k]
  BY <1>1, <1>2, <1>3, <1>4, <1>5, <1>7 DEF PartsOK
<1>10. ASSUME NEW j \in 1..n
       PROVE  /\ main[j] = <<"proc_init", Pids[j]>>
              /\ main[n + 4 * j - 3] = <<"proc_attach", Pids[j]>>
              /\ main[n + 4 * j - 2] = <<"proc_do", Pids[j]>>
              /\ main[n + 4 * j - 1] = <<"proc_parse_pagemap", Pids[j]>>
              /\ main[n + 4 * j] = <<"proc_detach", Pids[j]>>
              /\ main[5 * n + r + j] = <<"proc_del", Pids[j]>>
  <2>1. /\ 4 * j - 3 \in 1..4 * n /\ 4 * j - 2 \in 1..4 * n /\ 4 * j - 1 \in 1..4 * n /\ 4 * j \in 1..4 * n
        /\ n + 4 * j - 3 = n + (4 * j - 3) /\ n + 4 * j - 2 = n + (4 * j - 2)
        /\ n + 4 * j - 1 = n + (4 * j - 1) /\ 5 * n + r + j = n + 4 * n + r + j
    BY <1>4, <1>6
  <2>. QED  BY <1>2, <1>3, <1>8, <1>9, <2>1, ZenonT(40)
<1>11. \A l \in 1..r : main[5 * n + l] = <<reports[l], Pids[1]>>
  <2>. SUFFICES ASSUME NEW l \in 1..r PROVE main[5 * n + l] = <<reports[l], Pids[1]>>
    OBVIOUS
  <2>1. 5 * n + l = n + 4 * n + l
    BY <1>4, <1>6
  <2>. QED  BY <1>4, <1>9, <2>1
<1>12. ASSUME NEW k \in 1..6 * n + r
       PROVE  \/ \E j \in 1..n : k \in {j, n + 4 * j - 3, n + 4 * j - 2, n + 4 * j - 1, n + 4 * j,
                                         5 * n + r + j}
              \/ \E l \in 1..r : k = 5 * n + l
  <2>1. CASE k <= n
    BY <1>6, <2>1
  <2>2. CASE k > n /\ k <= 5 * n
    <3>. DEFINE j == 1 + ((k - n - 1) \div 4)
    <3>1. j \in 1..n /\ k - n \in {4 * j - 3, 4 * j - 2, 4 * j - 1, 4 * j}
      BY <1>6, <2>2
    <3>. HIDE DEF j
    <3>2. k \in {j, n + 4 * j - 3, n + 4 * j - 2, n + 4 * j - 1, n + 4 * j, 5 * n + r + j}
      BY <1>6, <2>2, <3>1
    <3>. QED  BY <3>1, <3>2
  <2>3. CASE k > 5 * n /\ k <= 5 * n + r
    <3>1. k - 5 * n \in 1..r /\ k = 5 * n + (k - 5 * n)
      BY <1>4, <1>6, <2>3
    <3>. QED  BY <3>1
  <2>4. CASE k > 5 * n + r
    <3>1. k - (5 * n + r) \in 1..n /\ k = 5 * n + r + (k - (5 * n + r))
      BY <1>4, <1>6, <2>4
    <3>. QED  BY <3>1
  <2>. QED  BY <1>4, <1>6, <2>1, <2>2, <2>3, <2>4
<1>13. Len(main) = 6 * n + r
  BY <1>4, <1>6, <1>9
<1>. QED  BY <1>4, <1>6, <1>10, <1>11, <1>12, <1>13 DEF SetcmpOK, n, r, main

-----------------------------------------------------------------------------
(* The life of a struct Process.                                            *)

Life == {"proc_init", "proc_do_maps", "proc_do", "proc_parse_pagemap", "proc_del"}

\* Which of them a command line makes, and for which positions in Pids.
Steps(e) ==
    CASE e = "memdump -m" -> {"proc_init", "proc_do_maps"}
      [] e = "memdump -n" -> {"proc_init", "proc_do"}
      [] OTHER            -> Life \ {"proc_do_maps"}
Served(e) ==
    CASE e \in {"setcmp", "setcmp all"} -> 1..Len(Pids)
      [] e = "cmp"                      -> {1, 2}
      [] OTHER                          -> {1}

\* Which comes first.
Rank(f) ==
    CASE f = "proc_init"          -> 1
      [] f = "proc_parse_pagemap" -> 3
      [] f = "proc_del"           -> 4
      [] OTHER                    -> 2

\* The call of main that is f for Pids[j].
Where(e, f, j) ==
    LET r == IF e = "setcmp" THEN 3 ELSE 6
    IN  CASE e = "memdump" -> <<1, 3, 4, 7>>[Rank(f)]
          [] e = "cmp"     -> <<0, 4, 6, 11>>[Rank(f)] + j
          [] e \in {"setcmp", "setcmp all"} ->
                (CASE f = "proc_init"          -> j
                   [] f = "proc_do"            -> Len(Pids) + 4 * j - 2
                   [] f = "proc_parse_pagemap" -> Len(Pids) + 4 * j - 1
                   [] OTHER                    -> 5 * Len(Pids) + r + j)
          [] OTHER -> Rank(f)

\* Each call of a life is where Where says.
PlacesOK(e) ==
    /\ Len(Main[e]) \in Nat
    /\ \A k \in 1..Len(Main[e]) : Main[e][k][1] \in Life =>
        /\ Main[e][k][1] \in Steps(e)
        /\ \E j \in Served(e) : Main[e][k][2] = Pids[j] /\ k = Where(e, Main[e][k][1], j)
    /\ \A f \in Steps(e), j \in Served(e) :
        /\ Where(e, f, j) \in 1..Len(Main[e])
        /\ Main[e][Where(e, f, j)] = <<f, Pids[j]>>
    /\ \A f, g \in Steps(e), j \in Served(e) : Rank(g) < Rank(f) <=> Where(e, g, j) < Where(e, f, j)

LEMMA MemdumpPlaces == ASSUME "memdump" \in Tools PROVE PlacesOK("memdump")
<1>. DEFINE e == "memdump"
<1>1. Main[e] = memdump_main /\ Len(memdump_main) = 7
  BY DEF Main, memdump_main
<1>2. /\ Steps(e) = {"proc_init", "proc_do", "proc_parse_pagemap", "proc_del"} /\ Served(e) = {1}
      /\ \A j : /\ Where(e, "proc_init", j) = 1 /\ Where(e, "proc_do", j) = 3
                /\ Where(e, "proc_parse_pagemap", j) = 4 /\ Where(e, "proc_del", j) = 7
      /\ Rank("proc_init") = 1 /\ Rank("proc_do") = 2 /\ Rank("proc_parse_pagemap") = 3 /\ Rank("proc_del") = 4
  BY DEF Steps, Life, Served, Where, Rank
<1>3. /\ memdump_main[1] = <<"proc_init", Pids[1]>> /\ memdump_main[2][1] = "proc_attach"
      /\ memdump_main[3] = <<"proc_do", Pids[1]>> /\ memdump_main[4] = <<"proc_parse_pagemap", Pids[1]>>
      /\ memdump_main[5][1] = "proc_detach" /\ memdump_main[6][1] = "proc_print_pages"
      /\ memdump_main[7] = <<"proc_del", Pids[1]>>
  BY DEF memdump_main
<1>4. ASSUME NEW k \in 1..7, memdump_main[k][1] \in Life
      PROVE  /\ memdump_main[k][1] \in Steps(e)
             /\ memdump_main[k][2] = Pids[1] /\ k = Where(e, memdump_main[k][1], 1)
  <2>1. k = 1 \/ k = 2 \/ k = 3 \/ k = 4 \/ k = 5 \/ k = 6 \/ k = 7
    OBVIOUS
  <2>2. k \in {1, 3, 4, 7}
    BY <1>3, <1>4, <2>1 DEF Life
  <2>. QED  BY <1>2, <1>3, <2>2
<1>5. ASSUME NEW f \in Steps(e)
      PROVE  Where(e, f, 1) \in 1..7 /\ memdump_main[Where(e, f, 1)] = <<f, Pids[1]>>
  BY <1>2, <1>3
<1>6. \A f, g \in Steps(e) : Rank(g) < Rank(f) <=> Where(e, g, 1) < Where(e, f, 1)
  BY <1>2
<1>. QED  BY <1>1, <1>2, <1>4, <1>5, <1>6 DEF PlacesOK

\* A main function of three calls, of which the last does not belong to a life.
LEMMA ThreeCallPlaces ==
    ASSUME NEW e, NEW f2 \in {"proc_do_maps", "proc_do"}, NEW f3, f3 \notin Life,
           Main[e] = << <<"proc_init", Pids[1]>>, <<f2, Pids[1]>>, <<f3, Pids[1]>> >>,
           Steps(e) = {"proc_init", f2}, Served(e) = {1},
           \A f : Where(e, f, 1) = Rank(f)
    PROVE  PlacesOK(e)
<1>1. Rank("proc_init") = 1 /\ Rank(f2) = 2 /\ f2 # "proc_init"
  BY DEF Rank
<1>2. Where(e, "proc_init", 1) = 1 /\ Where(e, f2, 1) = 2
  BY <1>1
<1>3. Len(Main[e]) = 3
  OBVIOUS
<1>4. /\ Main[e][1] = <<"proc_init", Pids[1]>> /\ Main[e][2] = <<f2, Pids[1]>>
      /\ Main[e][3][1] = f3
  OBVIOUS
<1>5. ASSUME NEW k \in 1..3, Main[e][k][1] \in Life
      PROVE  /\ Main[e][k][1] \in Steps(e)
             /\ Main[e][k][2] = Pids[1] /\ k = Where(e, Main[e][k][1], 1)
  <2>1. k = 1 \/ k = 2 \/ k = 3
    OBVIOUS
  <2>2. k = 1 \/ k = 2
    BY <1>4, <1>5, <2>1
  <2>. QED  BY <1>2, <1>4, <2>2
<1>6. ASSUME NEW f \in Steps(e)
      PROVE  Where(e, f, 1) \in 1..3 /\ Main[e][Where(e, f, 1)] = <<f, Pids[1]>>
  BY <1>2, <1>4
<1>7. \A f, g \in Steps(e) : Rank(g) < Rank(f) <=> Where(e, g, 1) < Where(e, f, 1)
  OBVIOUS
<1>. QED  BY <1>3, <1>5, <1>6, <1>7 DEF PlacesOK

\* memdump <pid> -m
LEMMA MapsStatPlaces == ASSUME "memdump -m" \in Tools PROVE PlacesOK("memdump -m")
<1>. DEFINE e == "memdump -m"
<1>1. Main[e] = maps_stat
  BY DEF Main
<1>2. Steps(e) = {"proc_init", "proc_do_maps"} /\ Served(e) = {1} /\ \A f : Where(e, f, 1) = Rank(f)
  BY DEF Steps, Served, Where
<1>. HIDE DEF e
<1>3. Main[e] = << <<"proc_init", Pids[1]>>, <<"proc_do_maps", Pids[1]>>, <<"maps_stat", Pids[1]>> >>
  BY <1>1 DEF maps_stat
<1>4. "maps_stat" \notin Life /\ "proc_do_maps" \in {"proc_do_maps", "proc_do"}
  BY DEF Life
<1>5. PlacesOK(e)
  BY <1>2, <1>3, <1>4, ThreeCallPlaces, Zenon
<1>. QED  BY <1>5 DEF e

\* memdump <pid> -n
LEMMA NonzeroStatPlaces == ASSUME "memdump -n" \in Tools PROVE PlacesOK("memdump -n")
<1>. DEFINE e == "memdump -n"
<1>1. Main[e] = nonzero_stat
  BY DEF Main
<1>2. Steps(e) = {"proc_init", "proc_do"} /\ Served(e) = {1} /\ \A f : Where(e, f, 1) = Rank(f)
  BY DEF Steps, Served, Where
<1>. HIDE DEF e
<1>3. Main[e] = << <<"proc_init", Pids[1]>>, <<"proc_do", Pids[1]>>, <<"nonzero_stat", Pids[1]>> >>
  BY <1>1 DEF nonzero_stat
<1>4. "nonzero_stat" \notin Life /\ "proc_do" \in {"proc_do_maps", "proc_do"}
  BY DEF Life
<1>5. PlacesOK(e)
  BY <1>2, <1>3, <1>4, ThreeCallPlaces, Zenon
<1>. QED  BY <1>5 DEF e

LEMMA CmpPlaces == ASSUME "cmp" \in Tools PROVE PlacesOK("cmp")
<1>. DEFINE e == "cmp"
<1>1. Main[e] = cmp_main /\ Len(cmp_main) = 13
  BY DEF Main, cmp_main
<1>2. /\ Steps(e) = {"proc_init", "proc_do", "proc_parse_pagemap", "proc_del"} /\ Served(e) = {1, 2}
      /\ \A j : /\ Where(e, "proc_init", j) = 0 + j /\ Where(e, "proc_do", j) = 4 + j
                /\ Where(e, "proc_parse_pagemap", j) = 6 + j /\ Where(e, "proc_del", j) = 11 + j
      /\ Rank("proc_init") = 1 /\ Rank("proc_do") = 2 /\ Rank("proc_parse_pagemap") = 3 /\ Rank("proc_del") = 4
  BY DEF Steps, Life, Served, Where, Rank
<1>3. /\ cmp_main[1] = <<"proc_init", Pids[1]>> /\ cmp_main[2] = <<"proc_init", Pids[2]>>
      /\ cmp_main[3][1] = "proc_attach" /\ cmp_main[4][1] = "proc_attach"
      /\ cmp_main[5] = <<"proc_do", Pids[1]>> /\ cmp_main[6] = <<"proc_do", Pids[2]>>
      /\ cmp_main[7] = <<"proc_parse_pagemap", Pids[1]>> /\ cmp_main[8] = <<"proc_parse_pagemap", Pids[2]>>
      /\ cmp_main[9][1] = "print_simi"
      /\ cmp_main[10][1] = "proc_detach" /\ cmp_main[11][1] = "proc_detach"
      /\ cmp_main[12] = <<"proc_del", Pids[1]>> /\ cmp_main[13] = <<"proc_del", Pids[2]>>
  BY DEF cmp_main
<1>4. ASSUME NEW k \in 1..13, cmp_main[k][1] \in Life
      PROVE  /\ cmp_main[k][1] \in Steps(e)
             /\ \E j \in {1, 2} : cmp_main[k][2] = Pids[j] /\ k = Where(e, cmp_main[k][1], j)
  <2>1. k \notin {3, 4, 9, 10, 11}
    BY <1>3, <1>4 DEF Life
  <2>2. CASE k \in {1, 5, 7, 12}
    <3>1. cmp_main[k][1] \in Steps(e) /\ cmp_main[k][2] = Pids[1] /\ k = Where(e, cmp_main[k][1], 1)
      BY <1>2, <1>3, <2>2
    <3>. QED  BY <3>1
  <2>3. CASE k \in {2, 6, 8, 13}
    <3>1. cmp_main[k][1] \in Steps(e) /\ cmp_main[k][2] = Pids[2] /\ k = Where(e, cmp_main[k][1], 2)
      BY <1>2, <1>3, <2>3
    <3>. QED  BY <3>1
  <2>4. k \in {1, 5, 7, 12} \cup {2, 6, 8, 13}
    BY <2>1
  <2>. QED  BY <2>2, <2>3, <2>4
<1>5. ASSUME NEW f \in Steps(e), NEW j \in {1, 2}
      PROVE  Where(e, f, j) \in 1..13 /\ cmp_main[Where(e, f, j)] = <<f, Pids[j]>>
  BY <1>2, <1>3
<1>6. \A f, g \in Steps(e), j \in {1, 2} : Rank(g) < Rank(f) <=> Where(e, g, j) < Where(e, f, j)
  BY <1>2
<1>. QED  BY <1>1, <1>2, <1>4, <1>5, <1>6 DEF PlacesOK

\* setcmp with any reports.
LEMMA SetcmpPlaces ==
    ASSUME NEW e, NEW reports, SetcmpOK(reports), Main[e] = Setcmp(reports),
           \A l \in 1..Len(reports) : reports[l] \notin Life,
           Steps(e) = {"proc_init", "proc_do", "proc_parse_pagemap", "proc_del"},
           Served(e) = 1..Len(Pids),
           \A j \in Served(e) :
                /\ Where(e, "proc_init", j) = j
                /\ Where(e, "proc_do", j) = Len(Pids) + 4 * j - 2
                /\ Where(e, "proc_parse_pagemap", j) = Len(Pids) + 4 * j - 1
                /\ Where(e, "proc_del", j) = 5 * Len(Pids) + Len(reports) + j
    PROVE  PlacesOK(e)
<1>. DEFINE n == Len(Pids)
            r == Len(reports)
            main == Setcmp(reports)
<1>1. n \in Nat /\ r \in Nat /\ Len(main) = 6 * n + r
  BY DEF SetcmpOK
<1>a. \A j \in 1..n : /\ main[j] = <<"proc_init", Pids[j]>>
                      /\ main[n + 4 * j - 3] = <<"proc_attach", Pids[j]>>
                      /\ main[n + 4 * j - 2] = <<"proc_do", Pids[j]>>
                      /\ main[n + 4 * j - 1] = <<"proc_parse_pagemap", Pids[j]>>
                      /\ main[n + 4 * j] = <<"proc_detach", Pids[j]>>
                      /\ main[5 * n + r + j] = <<"proc_del", Pids[j]>>
  BY DEF SetcmpOK
<1>b. \A l \in 1..r : main[5 * n + l] = <<reports[l], Pids[1]>>
  BY DEF SetcmpOK
<1>c. \A k \in 1..Len(main) :
            \/ \E j \in 1..n : k \in {j, n + 4 * j - 3, n + 4 * j - 2, n + 4 * j - 1, n + 4 * j,
                                      5 * n + r + j}
            \/ \E l \in 1..r : k = 5 * n + l
  BY DEF SetcmpOK
<1>2. /\ Rank("proc_init") = 1 /\ Rank("proc_do") = 2
      /\ Rank("proc_parse_pagemap") = 3 /\ Rank("proc_del") = 4
  BY DEF Rank
<1>. HIDE DEF n, r, main
<1>3. /\ Main[e] = main
      /\ \A l \in 1..r : reports[l] \notin Life
      /\ Served(e) = 1..n
      /\ \A j \in 1..n : /\ Where(e, "proc_init", j) = j
                         /\ Where(e, "proc_do", j) = n + 4 * j - 2
                         /\ Where(e, "proc_parse_pagemap", j) = n + 4 * j - 1
                         /\ Where(e, "proc_del", j) = 5 * n + r + j
  BY DEF n, r, main
<1>4. ASSUME NEW k \in 1..Len(main), main[k][1] \in Life
      PROVE  /\ main[k][1] \in Steps(e)
             /\ \E j \in 1..n : main[k][2] = Pids[j] /\ k = Where(e, main[k][1], j)
  <2>1. ASSUME NEW l \in 1..r, k = 5 * n + l PROVE FALSE
    <3>1. main[k] = <<reports[l], Pids[1]>>
      BY <1>b, <2>1
    <3>2. reports[l] \notin Life
      BY <1>3
    <3>. QED  BY <1>4, <3>1, <3>2
  <2>2. PICK j \in 1..n : k \in {j, n + 4 * j - 3, n + 4 * j - 2, n + 4 * j - 1, n + 4 * j,
                                 5 * n + r + j}
    BY <1>c, <2>1
  <2>3. main[k] \in {<<"proc_init", Pids[j]>>, <<"proc_attach", Pids[j]>>, <<"proc_do", Pids[j]>>,
                     <<"proc_parse_pagemap", Pids[j]>>, <<"proc_detach", Pids[j]>>, <<"proc_del", Pids[j]>>}
    BY <1>a, <2>2
  <2>4. main[k][2] = Pids[j] /\ main[k][1] \in Steps(e)
    BY <1>4, <2>3 DEF Life
  <2>5. k = Where(e, main[k][1], j)
    <3>1. /\ Where(e, "proc_init", j) = j /\ Where(e, "proc_do", j) = n + 4 * j - 2
          /\ Where(e, "proc_parse_pagemap", j) = n + 4 * j - 1 /\ Where(e, "proc_del", j) = 5 * n + r + j
      BY <1>3
    <3>2. /\ k = j => main[k][1] = "proc_init"
          /\ k = n + 4 * j - 3 => main[k][1] = "proc_attach"
          /\ k = n + 4 * j - 2 => main[k][1] = "proc_do"
          /\ k = n + 4 * j - 1 => main[k][1] = "proc_parse_pagemap"
          /\ k = n + 4 * j => main[k][1] = "proc_detach"
          /\ k = 5 * n + r + j => main[k][1] = "proc_del"
      BY <1>a
    <3>3. main[k][1] # "proc_attach" /\ main[k][1] # "proc_detach"
      BY <1>4 DEF Life
    <3>. QED  BY <2>2, <3>1, <3>2, <3>3
  <2>. QED  BY <2>4, <2>5
<1>5. ASSUME NEW f \in Steps(e), NEW j \in 1..n
      PROVE  Where(e, f, j) \in 1..Len(main) /\ main[Where(e, f, j)] = <<f, Pids[j]>>
  <2>1. /\ j \in 1..Len(main) /\ n + 4 * j - 2 \in 1..Len(main)
        /\ n + 4 * j - 1 \in 1..Len(main) /\ 5 * n + r + j \in 1..Len(main)
    BY <1>1
  <2>2. /\ Where(e, "proc_init", j) = j /\ Where(e, "proc_do", j) = n + 4 * j - 2
        /\ Where(e, "proc_parse_pagemap", j) = n + 4 * j - 1 /\ Where(e, "proc_del", j) = 5 * n + r + j
    BY <1>3
  <2>3. f = "proc_init" \/ f = "proc_do" \/ f = "proc_parse_pagemap" \/ f = "proc_del"
    OBVIOUS
  <2>4. /\ main[j] = <<"proc_init", Pids[j]>> /\ main[n + 4 * j - 2] = <<"proc_do", Pids[j]>>
        /\ main[n + 4 * j - 1] = <<"proc_parse_pagemap", Pids[j]>>
        /\ main[5 * n + r + j] = <<"proc_del", Pids[j]>>
    BY <1>a
  <2>. QED  BY <2>1, <2>2, <2>3, <2>4, ZenonT(40)
<1>6. ASSUME NEW f \in Steps(e), NEW g \in Steps(e), NEW j \in 1..n
      PROVE  Rank(g) < Rank(f) <=> Where(e, g, j) < Where(e, f, j)
  <2>1. j < n + 4 * j - 2 /\ n + 4 * j - 2 < n + 4 * j - 1 /\ n + 4 * j - 1 < 5 * n + r + j
    BY <1>1
  <2>2. j \in Nat /\ n + 4 * j - 2 \in Int /\ n + 4 * j - 1 \in Int /\ 5 * n + r + j \in Int
    BY <1>1
  <2>. QED  BY <1>2, <1>3, <2>1, <2>2
<1>7. Len(main) \in Nat
  BY <1>1
<1>8. Main[e] = main /\ Served(e) = 1..n
  BY <1>3
<1>9. \A k \in 1..Len(Main[e]) : Main[e][k][1] \in Life =>
        /\ Main[e][k][1] \in Steps(e)
        /\ \E j \in Served(e) : Main[e][k][2] = Pids[j] /\ k = Where(e, Main[e][k][1], j)
  <2>. SUFFICES ASSUME NEW k \in 1..Len(Main[e]), Main[e][k][1] \in Life
                PROVE  /\ Main[e][k][1] \in Steps(e)
                       /\ \E j \in Served(e) : Main[e][k][2] = Pids[j] /\ k = Where(e, Main[e][k][1], j)
    OBVIOUS
  <2>1. k \in 1..Len(main) /\ main[k][1] \in Life
    BY <1>8
  <2>2. /\ main[k][1] \in Steps(e)
        /\ \E j \in 1..n : main[k][2] = Pids[j] /\ k = Where(e, main[k][1], j)
    BY <1>4, <2>1
  <2>. QED  BY <1>8, <2>2, Zenon
<1>10. \A f \in Steps(e), j \in Served(e) :
        /\ Where(e, f, j) \in 1..Len(Main[e])
        /\ Main[e][Where(e, f, j)] = <<f, Pids[j]>>
  BY <1>5, <1>8
<1>11. \A f, g \in Steps(e), j \in Served(e) : Rank(g) < Rank(f) <=> Where(e, g, j) < Where(e, f, j)
  BY <1>6, <1>8
<1>. QED  BY <1>7, <1>8, <1>9, <1>10, <1>11, Zenon DEF PlacesOK

\* setcmp as it is built.
LEMMA SetcmpMainPlaces == ASSUME "setcmp" \in Tools PROVE PlacesOK("setcmp")
<1>. DEFINE e == "setcmp"
            reports == <<"print_intra_simi", "print_inter_simi", "print_total_dup">>
            O == Life \cup {"proc_attach", "proc_detach"} \cup
                 {"print_intra_simi", "print_inter_simi", "print_total_dup"}
<1>1. Main[e] = Setcmp(reports)
  BY DEF Main, setcmp_main
<1>2. /\ Steps(e) = {"proc_init", "proc_do", "proc_parse_pagemap", "proc_del"}
      /\ Served(e) = 1..Len(Pids)
      /\ \A j : /\ Where(e, "proc_init", j) = j
                /\ Where(e, "proc_do", j) = Len(Pids) + 4 * j - 2
                /\ Where(e, "proc_parse_pagemap", j) = Len(Pids) + 4 * j - 1
                /\ Where(e, "proc_del", j) = 5 * Len(Pids) + 3 + j
  BY DEF Steps, Served, Where, Life
<1>3. reports \in Seq(O) /\ Len(reports) = 3
  OBVIOUS
<1>4. \A l \in 1..3 : reports[l] \notin Life
  <2>1. reports[1] = "print_intra_simi" /\ reports[2] = "print_inter_simi" /\ reports[3] = "print_total_dup"
    OBVIOUS
  <2>2. \A l \in 1..3 : l = 1 \/ l = 2 \/ l = 3
    OBVIOUS
  <2>. HIDE DEF reports
  <2>. QED  BY <2>1, <2>2 DEF Life
<1>5. {"proc_init", "proc_attach", "proc_do", "proc_parse_pagemap", "proc_detach", "proc_del"} \subseteq O
  BY DEF Life
<1>. HIDE DEF e, reports, O
<1>6. SetcmpOK(reports)
  BY <1>3, <1>5, SetcmpCalls
<1>7. PlacesOK(e)
  BY <1>1, <1>2, <1>3, <1>4, <1>6, SetcmpPlaces
<1>. QED  BY <1>7 DEF e

\* setcmp with all of its reports.
LEMMA SetcmpAllPlaces == "setcmp all" \in Tools => PlacesOK("setcmp all")
<1>. DEFINE e == "setcmp all"
            reports == <<"print_intra_simi", "print_inter_simi", "print_total_dup",
                         "print_simi_matrix", "print_inter_simi_mr", "print_intra_process_simi_mr">>
            R == {"print_intra_simi", "print_inter_simi", "print_total_dup",
                  "print_simi_matrix", "print_inter_simi_mr", "print_intra_process_simi_mr"}
            O == Life \cup {"proc_attach", "proc_detach"} \cup R
<1>1. e \in Tools => Main[e] = Setcmp(reports)
  BY DEF Main, setcmp_all
<1>2. /\ Steps(e) = Life \ {"proc_do_maps"}
      /\ Served(e) = 1..Len(Pids)
      /\ \A j : /\ Where(e, "proc_init", j) = j
                /\ Where(e, "proc_do", j) = Len(Pids) + 4 * j - 2
                /\ Where(e, "proc_parse_pagemap", j) = Len(Pids) + 4 * j - 1
                /\ Where(e, "proc_del", j) = 5 * Len(Pids) + 6 + j
  BY DEF Steps, Served, Where
<1>. HIDE DEF e
<1>a. Len(reports) = 6 /\ reports \in Seq(R)
  <2>1. /\ "print_intra_simi" \in R /\ "print_inter_simi" \in R /\ "print_total_dup" \in R
        /\ "print_simi_matrix" \in R /\ "print_inter_simi_mr" \in R /\ "print_intra_process_simi_mr" \in R
    OBVIOUS
  <2>. HIDE DEF R
  <2>. QED  BY <2>1
<1>3. reports \in Seq(O) /\ Len(reports) = 6
  <2>. HIDE DEF R
  <2>. QED  BY <1>a
<1>4. \A l \in 1..6 : reports[l] \notin Life
  <2>1. /\ reports[1] = "print_intra_simi" /\ reports[2] = "print_inter_simi"
        /\ reports[3] = "print_total_dup" /\ reports[4] = "print_simi_matrix"
        /\ reports[5] = "print_inter_simi_mr" /\ reports[6] = "print_intra_process_simi_mr"
    OBVIOUS
  <2>2. \A l \in 1..6 : l = 1 \/ l = 2 \/ l = 3 \/ l = 4 \/ l = 5 \/ l = 6
    OBVIOUS
  <2>3. R \cap Life = {}
    BY DEF Life
  <2>. HIDE DEF reports
  <2>. QED  BY <2>1, <2>2, <2>3
<1>5. {"proc_init", "proc_attach", "proc_do", "proc_parse_pagemap", "proc_detach", "proc_del"} \subseteq O
  BY DEF Life
<1>6. Life \ {"proc_do_maps"} = {"proc_init", "proc_do", "proc_parse_pagemap", "proc_del"}
  BY DEF Life
<1>. HIDE DEF reports, O
<1>7. SetcmpOK(reports)
  BY <1>3, <1>5, SetcmpCalls
<1>8. e \in Tools => PlacesOK(e)
  BY <1>1, <1>2, <1>3, <1>4, <1>6, <1>7, SetcmpPlaces
<1>. QED  BY <1>8 DEF e

\* All six command lines.
LEMMA AllPlaced == ASSUME NEW e \in Tools PROVE PlacesOK(e)
<1>1. e \in {"memdump", "memdump -m", "memdump -n", "cmp", "setcmp", "setcmp all"}
  BY MainsAssumption
<1>. QED  BY <1>1, MemdumpPlaces, MapsStatPlaces, NonzeroStatPlaces, CmpPlaces,
             SetcmpMainPlaces, SetcmpAllPlaces

-----------------------------------------------------------------------------

\* g has been called for the process of call k.
Earlier(e, k, g) == \E l \in 1..k - 1 : Main[e][l] = <<g, Main[e][k][2]>>

\* The calls for one process come in the order of Rank, each at most once, and
\* none is missing in front of another.
LEMMA InOrder ==
    ASSUME NEW e \in Tools, NEW k \in 1..Len(Main[e]), Main[e][k][1] \in Life, NEW g \in Life
    PROVE  /\ Main[e][k][1] \in Steps(e)
           /\ Earlier(e, k, g) <=> g \in Steps(e) /\ Rank(g) < Rank(Main[e][k][1])
<1>. DEFINE f == Main[e][k][1]
<1>1. PlacesOK(e)
  BY AllPlaced
<1>2. PICK j \in Served(e) : Main[e][k][2] = Pids[j] /\ k = Where(e, f, j)
  BY <1>1 DEF PlacesOK
<1>3. f \in Steps(e)
  BY <1>1 DEF PlacesOK
<1>4. Served(e) \subseteq 1..Len(Pids)
  <2>1. 1..Len(Pids) \subseteq 1..Len(Pids) /\ {1, 2} \subseteq 1..Len(Pids) /\ {1} \subseteq 1..Len(Pids)
    BY PidsType
  <2>2. Served(e) = 1..Len(Pids) \/ Served(e) = {1, 2} \/ Served(e) = {1}
    BY Zenon DEF Served
  <2>. QED  BY <2>1, <2>2
<1>. HIDE DEF f
<1>5. ASSUME Earlier(e, k, g) PROVE g \in Steps(e) /\ Rank(g) < Rank(f)
  <2>1. PICK l \in 1..k - 1 : Main[e][l] = <<g, Pids[j]>>
    BY <1>2, <1>5 DEF Earlier
  <2>2. l \in 1..Len(Main[e]) /\ l < k /\ Main[e][l][1] = g /\ Main[e][l][2] = Pids[j]
    BY <1>1, <2>1 DEF PlacesOK
  <2>3. PICK i \in Served(e) : Pids[j] = Pids[i] /\ l = Where(e, g, i)
    BY <1>1, <2>2 DEF PlacesOK
  <2>4. i = j
    BY <1>4, <2>3, PidsType
  <2>5. g \in Steps(e)
    BY <1>1, <2>2 DEF PlacesOK
  <2>. QED  BY <1>1, <1>2, <1>3, <2>2, <2>3, <2>4, <2>5 DEF PlacesOK
<1>6. ASSUME g \in Steps(e), Rank(g) < Rank(f) PROVE Earlier(e, k, g)
  <2>1. Where(e, g, j) < k /\ Where(e, g, j) \in 1..Len(Main[e]) /\ Main[e][Where(e, g, j)] = <<g, Pids[j]>>
    BY <1>1, <1>2, <1>3, <1>6 DEF PlacesOK
  <2>2. Where(e, g, j) \in 1..k - 1
    BY <1>1, <2>1 DEF PlacesOK
  <2>. QED  BY <1>2, <2>1, <2>2 DEF Earlier
<1>. QED  BY <1>3, <1>5, <1>6 DEF f

-----------------------------------------------------------------------------
(* The reports.                                                             *)

\* The reports of setcmp, numbered as main calls them.
SetcmpReports == {"print_intra_simi", "print_inter_simi", "print_total_dup",
                  "print_simi_matrix", "print_inter_simi_mr", "print_intra_process_simi_mr"}
Number(f) ==
    CASE f = "print_intra_simi"    -> 1
      [] f = "print_inter_simi"    -> 2
      [] f = "print_total_dup"     -> 3
      [] f = "print_simi_matrix"   -> 4
      [] f = "print_inter_simi_mr" -> 5
      [] OTHER                     -> 6

IsSetcmp(e) == e \in {"setcmp", "setcmp all"}

\* Before a report all processes have been read, and those of its own tool that
\* have a smaller number have been printed.  It comes only once.
ReportOK(e, k) ==
    /\ \A l \in 1..Len(Main[e]) : Main[e][l][1] = Main[e][k][1] => l = k
    /\ \A l \in 1..Len(Main[e]) : Main[e][l][1] \in Life \ {"proc_del"} => l < k
    /\ \/ e = "cmp" /\ Main[e][k][1] = "print_simi"
       \/ /\ IsSetcmp(e) /\ Main[e][k][1] \in SetcmpReports
          /\ \A g \in SetcmpReports :
                Number(g) < Number(Main[e][k][1]) => \E l \in 1..k - 1 : Main[e][l][1] = g

ReportsOK(e) == \A k \in 1..Len(Main[e]) :
                    Main[e][k][1] \in SetcmpReports \cup {"print_simi"} => ReportOK(e, k)

LEMMA NumberType == \A g \in SetcmpReports : Number(g) \in 1..6
BY DEF SetcmpReports, Number

LEMMA UpToThree == \A k \in 1..3 : k = 1 \/ k = 2 \/ k = 3
OBVIOUS

LEMMA ReportNames == (SetcmpReports \cup {"print_simi"}) \cap (Life \cup {"proc_attach", "proc_detach"}) = {}
BY DEF SetcmpReports, Life

\* memdump prints no report.
LEMMA MemdumpReports == ASSUME "memdump" \in Tools PROVE ReportsOK("memdump")
<1>. DEFINE R == SetcmpReports \cup {"print_simi"}
<1>1. /\ "proc_init" \notin R /\ "proc_attach" \notin R /\ "proc_do" \notin R /\ "proc_do_maps" \notin R
      /\ "proc_parse_pagemap" \notin R /\ "proc_detach" \notin R /\ "proc_del" \notin R
  BY ReportNames DEF Life
<1>2. "proc_print_pages" \notin R
  BY DEF SetcmpReports
<1>3. Main["memdump"] = memdump_main /\ Len(memdump_main) = 7
  BY DEF Main, memdump_main
<1>4. /\ memdump_main[1][1] = "proc_init"
      /\ memdump_main[2][1] = "proc_attach"
      /\ memdump_main[3][1] = "proc_do"
      /\ memdump_main[4][1] = "proc_parse_pagemap"
      /\ memdump_main[5][1] = "proc_detach"
      /\ memdump_main[6][1] = "proc_print_pages"
      /\ memdump_main[7][1] = "proc_del"
  BY DEF memdump_main
<1>5. \A k \in 1..7 : k = 1 \/ k = 2 \/ k = 3 \/ k = 4 \/ k = 5 \/ k = 6 \/ k = 7
  OBVIOUS
<1>. HIDE DEF R
<1>6. \A k \in 1..7 : memdump_main[k][1] \notin R
  BY <1>1, <1>2, <1>4, <1>5
<1>. QED  BY <1>3, <1>6 DEF ReportsOK, R

\* memdump <pid> -m
LEMMA MapsStatReports == ASSUME "memdump -m" \in Tools PROVE ReportsOK("memdump -m")
<1>. DEFINE R == SetcmpReports \cup {"print_simi"}
<1>1. /\ "proc_init" \notin R /\ "proc_attach" \notin R /\ "proc_do" \notin R /\ "proc_do_maps" \notin R
      /\ "proc_parse_pagemap" \notin R /\ "proc_detach" \notin R /\ "proc_del" \notin R
  BY ReportNames DEF Life
<1>2. "maps_stat" \notin R
  BY DEF SetcmpReports
<1>3. Main["memdump -m"] = maps_stat /\ Len(maps_stat) = 3
  BY DEF Main, maps_stat
<1>4. /\ maps_stat[1][1] = "proc_init"
      /\ maps_stat[2][1] = "proc_do_maps"
      /\ maps_stat[3][1] = "maps_stat"
  BY DEF maps_stat
<1>5. \A k \in 1..3 : k = 1 \/ k = 2 \/ k = 3
  BY UpToThree
<1>. HIDE DEF R
<1>6. \A k \in 1..3 : maps_stat[k][1] \notin R
  BY <1>1, <1>2, <1>4, <1>5
<1>. QED  BY <1>3, <1>6 DEF ReportsOK, R

\* memdump <pid> -n
LEMMA NonzeroStatReports == ASSUME "memdump -n" \in Tools PROVE ReportsOK("memdump -n")
<1>. DEFINE R == SetcmpReports \cup {"print_simi"}
<1>1. /\ "proc_init" \notin R /\ "proc_attach" \notin R /\ "proc_do" \notin R /\ "proc_do_maps" \notin R
      /\ "proc_parse_pagemap" \notin R /\ "proc_detach" \notin R /\ "proc_del" \notin R
  BY ReportNames DEF Life
<1>2. "nonzero_stat" \notin R
  BY DEF SetcmpReports
<1>3. Main["memdump -n"] = nonzero_stat /\ Len(nonzero_stat) = 3
  BY DEF Main, nonzero_stat
<1>4. /\ nonzero_stat[1][1] = "proc_init"
      /\ nonzero_stat[2][1] = "proc_do"
      /\ nonzero_stat[3][1] = "nonzero_stat"
  BY DEF nonzero_stat
<1>5. \A k \in 1..3 : k = 1 \/ k = 2 \/ k = 3
  BY UpToThree
<1>. HIDE DEF R
<1>6. \A k \in 1..3 : nonzero_stat[k][1] \notin R
  BY <1>1, <1>2, <1>4, <1>5
<1>. QED  BY <1>3, <1>6 DEF ReportsOK, R

LEMMA CmpReports == ASSUME "cmp" \in Tools PROVE ReportsOK("cmp")
<1>. DEFINE e == "cmp"
            R == SetcmpReports \cup {"print_simi"}
            L == Life \ {"proc_del"}
<1>1. Main[e] = cmp_main /\ Len(cmp_main) = 13
  BY DEF Main, cmp_main
<1>2. /\ "proc_init" \notin R /\ "proc_attach" \notin R /\ "proc_do" \notin R
      /\ "proc_parse_pagemap" \notin R /\ "proc_detach" \notin R /\ "proc_del" \notin R
  BY ReportNames DEF Life
<1>3. "print_simi" \notin L /\ "proc_detach" \notin L /\ "proc_del" \notin L
  BY DEF Life
<1>4. /\ cmp_main[1][1] = "proc_init" /\ cmp_main[2][1] = "proc_init"
      /\ cmp_main[3][1] = "proc_attach" /\ cmp_main[4][1] = "proc_attach"
      /\ cmp_main[5][1] = "proc_do" /\ cmp_main[6][1] = "proc_do"
      /\ cmp_main[7][1] = "proc_parse_pagemap" /\ cmp_main[8][1] = "proc_parse_pagemap"
  BY DEF cmp_main
<1>5. /\ cmp_main[9][1] = "print_simi"
      /\ cmp_main[10][1] = "proc_detach" /\ cmp_main[11][1] = "proc_detach"
      /\ cmp_main[12][1] = "proc_del" /\ cmp_main[13][1] = "proc_del"
  BY DEF cmp_main
<1>6. \A k \in 1..13 : \/ k = 1 \/ k = 2 \/ k = 3 \/ k = 4 \/ k = 5 \/ k = 6 \/ k = 7 \/ k = 8
                       \/ k = 9 \/ k = 10 \/ k = 11 \/ k = 12 \/ k = 13
  OBVIOUS
<1>. HIDE DEF R, L
<1>7. \A k \in 1..13 : cmp_main[k][1] \in R => k = 9
  BY <1>2, <1>4, <1>5, <1>6
<1>8. \A l \in 1..13 : cmp_main[l][1] \in L => l < 9
  <2>1. \A l \in 1..13 : l < 9 \/ l = 9 \/ l = 10 \/ l = 11 \/ l = 12 \/ l = 13
    OBVIOUS
  <2>. QED  BY <1>3, <1>5, <2>1
<1>9. ASSUME NEW k \in 1..13, cmp_main[k][1] \in R PROVE ReportOK(e, k)
  <2>1. k = 9 /\ \A l \in 1..13 : cmp_main[l][1] = cmp_main[k][1] => l = k
    BY <1>7, <1>9
  <2>. QED  BY <1>1, <1>5, <1>8, <2>1 DEF ReportOK, L
<1>. QED  BY <1>1, <1>9 DEF ReportsOK, R

\* setcmp with reports in the order of their numbers.
LEMMA SetcmpReported ==
    ASSUME NEW e, IsSetcmp(e), NEW reports, SetcmpOK(reports), Main[e] = Setcmp(reports),
           \A l \in 1..Len(reports) : reports[l] \in SetcmpReports /\ Number(reports[l]) = l,
           \A g \in SetcmpReports : \A l \in 1..Len(reports) : Number(g) = l => g = reports[l]
    PROVE  ReportsOK(e)
<1>. DEFINE n == Len(Pids)
            r == Len(reports)
            main == Main[e]
            R == SetcmpReports \cup {"print_simi"}
            L == Life \ {"proc_del"}
<1>1. /\ n \in Nat /\ r \in Nat /\ Len(main) = 6 * n + r
      /\ \A j \in 1..n :
          /\ main[j] = <<"proc_init", Pids[j]>>
          /\ main[n + 4 * j - 3] = <<"proc_attach", Pids[j]>>
          /\ main[n + 4 * j - 2] = <<"proc_do", Pids[j]>>
          /\ main[n + 4 * j - 1] = <<"proc_parse_pagemap", Pids[j]>>
          /\ main[n + 4 * j] = <<"proc_detach", Pids[j]>>
          /\ main[5 * n + r + j] = <<"proc_del", Pids[j]>>
      /\ \A l \in 1..r : main[5 * n + l] = <<reports[l], Pids[1]>>
      /\ \A k \in 1..Len(main) :
          \/ \E j \in 1..n : k \in {j, n + 4 * j - 3, n + 4 * j - 2, n + 4 * j - 1, n + 4 * j,
                                    5 * n + r + j}
          \/ \E l \in 1..r : k = 5 * n + l
  BY ZenonT(40) DEF SetcmpOK
<1>2. /\ "proc_init" \notin R /\ "proc_attach" \notin R /\ "proc_do" \notin R
      /\ "proc_parse_pagemap" \notin R /\ "proc_detach" \notin R /\ "proc_del" \notin R
  BY ReportNames DEF Life
<1>3. "proc_del" \notin L /\ SetcmpReports \cap L = {}
  BY ReportNames DEF Life
<1>4. \A g \in SetcmpReports : Number(g) \in 1..6
  BY NumberType
<1>. HIDE DEF n, r, main, R, L
<1>5. ASSUME NEW k \in 1..Len(main), main[k][1] \in R PROVE \E l \in 1..r : k = 5 * n + l
  <2>. SUFFICES ASSUME NEW j \in 1..n, k \in {j, n + 4 * j - 3, n + 4 * j - 2, n + 4 * j - 1, n + 4 * j,
                                              5 * n + r + j}
                PROVE  FALSE
    BY <1>1
  <2>1. \E f \in {"proc_init", "proc_attach", "proc_do", "proc_parse_pagemap", "proc_detach", "proc_del"} :
            main[k] = <<f, Pids[j]>>
    <3>. DEFINE F == {"proc_init", "proc_attach", "proc_do", "proc_parse_pagemap", "proc_detach", "proc_del"}
    <3>1. /\ "proc_init" \in F /\ "proc_attach" \in F /\ "proc_do" \in F /\ "proc_parse_pagemap" \in F
          /\ "proc_detach" \in F /\ "proc_del" \in F
      OBVIOUS
    <3>2. /\ main[j] = <<"proc_init", Pids[j]>>
          /\ main[n + 4 * j - 3] = <<"proc_attach", Pids[j]>>
          /\ main[n + 4 * j - 2] = <<"proc_do", Pids[j]>>
          /\ main[n + 4 * j - 1] = <<"proc_parse_pagemap", Pids[j]>>
          /\ main[n + 4 * j] = <<"proc_detach", Pids[j]>>
          /\ main[5 * n + r + j] = <<"proc_del", Pids[j]>>
      BY <1>1
    <3>3. \/ k = j \/ k = n + 4 * j - 3 \/ k = n + 4 * j - 2 \/ k = n + 4 * j - 1 \/ k = n + 4 * j
          \/ k = 5 * n + r + j
      OBVIOUS
    <3>. HIDE DEF F
    <3>. QED  BY <3>1, <3>2, <3>3, Zenon DEF F
  <2>. QED  BY <1>2, <1>5, <2>1
<1>6. ASSUME NEW l \in 1..Len(main), main[l][1] \in L PROVE l <= 5 * n
  <2>1. CASE \E m \in 1..r : l = 5 * n + m
    <3>1. PICK m \in 1..r : l = 5 * n + m
      BY <2>1
    <3>2. main[l][1] = reports[m] /\ reports[m] \in SetcmpReports
      BY <1>1, <3>1 DEF r
    <3>. QED  BY <1>3, <1>6, <3>2
  <2>2. ASSUME NEW j \in 1..n, l \in {j, n + 4 * j - 3, n + 4 * j - 2, n + 4 * j - 1, n + 4 * j}
        PROVE  l <= 5 * n
    BY <1>1, <2>2
  <2>3. ASSUME NEW j \in 1..n, l = 5 * n + r + j PROVE l <= 5 * n
    <3>1. main[5 * n + r + j] = <<"proc_del", Pids[j]>>
      BY <1>1
    <3>2. main[l][1] = "proc_del"
      BY <2>3, <3>1
    <3>. QED  BY <1>3, <1>6, <3>2
  <2>. QED  BY <1>1, <2>1, <2>2, <2>3
<1>7. ASSUME NEW k \in 1..Len(main), main[k][1] \in R PROVE ReportOK(e, k)
  <2>1. PICK m \in 1..r : k = 5 * n + m
    BY <1>5, <1>7
  <2>2. main[k][1] = reports[m] /\ reports[m] \in SetcmpReports /\ Number(reports[m]) = m
    BY <1>1, <2>1, SMTT(30) DEF r
  <2>3. ASSUME NEW g \in SetcmpReports, Number(g) < m PROVE \E l \in 1..k - 1 : main[l][1] = g
    <3>0. r \in Nat /\ Number(g) \in 1..6
      BY <1>1, <1>4
    <3>1. Number(g) \in 1..r
      BY <2>3, <3>0
    <3>2. g = reports[Number(g)]
      BY <3>1 DEF r
    <3>3. main[5 * n + Number(g)][1] = g /\ 5 * n + Number(g) \in 1..k - 1
      BY <1>1, <2>1, <2>3, <3>1, <3>2
    <3>. QED  BY <3>3
  <2>4. \A l \in 1..Len(main) : main[l][1] \in L => l < k
    BY <1>1, <1>6, <2>1
  <2>5. ASSUME NEW l \in 1..Len(main), main[l][1] = main[k][1] PROVE l = k
    <3>1. PICK p \in 1..r : l = 5 * n + p
      BY <1>5, <1>7, <2>5
    <3>2. main[l][1] = reports[p] /\ Number(reports[p]) = p
      BY <1>1, <3>1, SMTT(30) DEF r
    <3>. QED  BY <2>1, <2>2, <2>5, <3>1, <3>2
  <2>. QED  BY <2>2, <2>3, <2>4, <2>5 DEF ReportOK, main, L
<1>. QED  BY <1>7 DEF ReportsOK, main, R

LEMMA SetcmpMainReports == ASSUME "setcmp" \in Tools PROVE ReportsOK("setcmp")
<1>. DEFINE e == "setcmp"
            reports == <<"print_intra_simi", "print_inter_simi", "print_total_dup">>
            O == Life \cup {"proc_attach", "proc_detach"} \cup
                 {"print_intra_simi", "print_inter_simi", "print_total_dup"}
<1>1. Main[e] = Setcmp(reports)
  BY DEF Main, setcmp_main
<1>2. reports \in Seq(O) /\ Len(reports) = 3
  OBVIOUS
<1>3. {"proc_init", "proc_attach", "proc_do", "proc_parse_pagemap", "proc_detach", "proc_del"} \subseteq O
  BY DEF Life
<1>4. reports[1] = "print_intra_simi" /\ reports[2] = "print_inter_simi" /\ reports[3] = "print_total_dup"
  OBVIOUS
<1>. HIDE DEF e, reports, O
<1>5. SetcmpOK(reports)
  BY <1>2, <1>3, SetcmpCalls
<1>6. \A l \in 1..3 : l = 1 \/ l = 2 \/ l = 3
  OBVIOUS
<1>7. \A l \in 1..3 : reports[l] \in SetcmpReports /\ Number(reports[l]) = l
  BY <1>4, <1>6 DEF SetcmpReports, Number
<1>8. \A g \in SetcmpReports : \A l \in 1..3 : Number(g) = l => g = reports[l]
  BY <1>4, <1>6 DEF SetcmpReports, Number
<1>9. ReportsOK(e)
  <2>1. IsSetcmp(e)
    BY DEF e, IsSetcmp
  <2>. QED  BY <1>1, <1>2, <1>5, <1>7, <1>8, <2>1, SetcmpReported
<1>. QED  BY <1>9 DEF e

LEMMA SetcmpAllReports == "setcmp all" \in Tools => ReportsOK("setcmp all")
<1>. DEFINE e == "setcmp all"
            reports == <<"print_intra_simi", "print_inter_simi", "print_total_dup",
                         "print_simi_matrix", "print_inter_simi_mr", "print_intra_process_simi_mr">>
            O == Life \cup {"proc_attach", "proc_detach"} \cup SetcmpReports
<1>1. e \in Tools => Main[e] = Setcmp(reports)
  BY DEF Main, setcmp_all
<1>. HIDE DEF e
<1>2. reports \in Seq(O) /\ Len(reports) = 6
  <2>1. /\ "print_intra_simi" \in O /\ "print_inter_simi" \in O /\ "print_total_dup" \in O
        /\ "print_simi_matrix" \in O /\ "print_inter_simi_mr" \in O /\ "print_intra_process_simi_mr" \in O
    BY DEF SetcmpReports
  <2>. HIDE DEF O
  <2>. QED  BY <2>1
<1>3. {"proc_init", "proc_attach", "proc_do", "proc_parse_pagemap", "proc_detach", "proc_del"} \subseteq O
  BY DEF Life
<1>4. /\ reports[1] = "print_intra_simi" /\ reports[2] = "print_inter_simi" /\ reports[3] = "print_total_dup"
      /\ reports[4] = "print_simi_matrix" /\ reports[5] = "print_inter_simi_mr"
      /\ reports[6] = "print_intra_process_simi_mr"
  OBVIOUS
<1>. HIDE DEF reports, O
<1>5. SetcmpOK(reports)
  BY <1>2, <1>3, SetcmpCalls
<1>6. \A l \in 1..6 : l = 1 \/ l = 2 \/ l = 3 \/ l = 4 \/ l = 5 \/ l = 6
  OBVIOUS
<1>7. \A l \in 1..6 : reports[l] \in SetcmpReports /\ Number(reports[l]) = l
  BY <1>4, <1>6 DEF SetcmpReports, Number
<1>8. \A g \in SetcmpReports : \A l \in 1..6 : Number(g) = l => g = reports[l]
  BY <1>4, <1>6 DEF SetcmpReports, Number
<1>9. e \in Tools => ReportsOK(e)
  <2>1. IsSetcmp(e)
    BY DEF e, IsSetcmp
  <2>. QED  BY <1>1, <1>2, <1>5, <1>7, <1>8, <2>1, SetcmpReported
<1>. QED  BY <1>9 DEF e

\* All six command lines.
LEMMA AllReported == ASSUME NEW e \in Tools PROVE ReportsOK(e)
<1>1. e \in {"memdump", "memdump -m", "memdump -n", "cmp", "setcmp", "setcmp all"}
  BY MainsAssumption
<1>. QED  BY <1>1, MemdumpReports, MapsStatReports, NonzeroStatReports, CmpReports,
             SetcmpMainReports, SetcmpAllReports
=============================================================================
