------------------------------- MODULE Session -------------------------------
(***************************************************************************)
(* The tools memdump, cmp and setcmp as tracers: the order in which their   *)
(* main functions call proc_attach, proc_do, proc_parse_pagemap and         *)
(* proc_detach of mem.c, and what the kernel and the target processes do in *)
(* between.                                                                 *)
(*                                                                         *)
(* A call of a main function of Mains becomes a sequence of system calls on *)
(* targets.  The kernel's side of ptrace(2) and wait(2) is external; it is  *)
(* modelled as far as these calls and the targets can tell.  A target is    *)
(* known by the pid the tool got, which is also its main                    *)
(* thread.                                                                  *)
(***************************************************************************)
EXTENDS Mains

CONSTANTS Threaded,  \* the targets with a second thread
          Pages,     \* bound: page reads in one read_mem
          MaxWrite,  \* bound: writes of one target to its memory
          MaxSig,    \* bound: signals sent to targets by others
          MaxKill    \* bound: targets killed by others

ASSUME SessionAssumption ==
    /\ Threaded \subseteq Target
    /\ {Pages, MaxWrite, MaxSig, MaxKill} \subseteq Nat

VARIABLES exe,     \* which executable runs, with which option
          ip,      \* index into Main of the call that the tool is at
          done,    \* how many system calls of it have returned
          alive,   \* the tool has not exited
          status,  \* of the main thread: "running", "stopped" or "dead"
          traced,  \* the targets that have the tool as their tracer
          sent,    \* sent[q]: pending signals of q
          stop,    \* stop[q]: the signal that q is stopped at, or "none"
          event,   \* the targets with a change of state the tool can wait for
          mem,     \* mem[q]: version of q's memory
          seen,    \* seen[q]: the versions that the tool's reads have met
          sigs,    \* signals sent by others so far
          kills    \* targets killed so far

tool   == <<exe, ip, done, alive>>
kernel == <<status, traced, sent, stop, event>>
budget == <<sigs, kills>>
svars  == <<tool, kernel, mem, seen, budget>>

-----------------------------------------------------------------------------
(* The system calls that the functions of mem.c make.                       *)

\* proc_attach without its wait(NULL).
AttachNoWait(q) == << <<"attach", q>> >>

\* proc_attach that waits for a second stop.
AttachWaitsTwice(q) == << <<"attach", q>>, <<"wait", q>>, <<"wait", q>> >>

proc_attach(q) == << <<"attach", q>>, <<"wait", q>> >>

\* open_file_maps and parse_maps
proc_do_maps(q) == << <<"open", q>>, <<"read", q>> >>

\* open_proc_files, parse_maps and the page reads of read_mem
proc_do(q) ==
    << <<"open", q>>, <<"read", q>> >> \o [i \in 1..Pages |-> <<"read", q>>]

\* kpageflags and kpagecount are opened, then pagemap is read.
proc_parse_pagemap(q) == << <<"open", q>>, <<"scan", q>> >>

proc_detach(q) == << <<"cont", q>>, <<"detach", q>> >>

\* proc_init, proc_del and the reports have nothing to do with the target.
Syscalls(call) ==
    CASE call[1] = "proc_attach"        -> proc_attach(call[2])
      [] call[1] = "proc_do_maps"       -> proc_do_maps(call[2])
      [] call[1] = "proc_do"            -> proc_do(call[2])
      [] call[1] = "proc_parse_pagemap" -> proc_parse_pagemap(call[2])
      [] call[1] = "proc_detach"        -> proc_detach(call[2])
      [] OTHER                          -> << >>

Calls == Syscalls(Main[exe][ip])
InMain == alive /\ ip <= Len(Main[exe])

At(op, q) == InMain /\ done < Len(Calls) /\ Calls[done + 1] = <<op, q>>
Advance == done' = done + 1 /\ UNCHANGED <<exe, ip, alive>>

Signal == {"STOP", "OTHER"}

STypeOK ==
    /\ exe \in Tools
    /\ ip \in 1..Len(Main[exe]) + 1
    /\ done \in 0..Pages + 2
    /\ alive \in BOOLEAN
    /\ status \in [Target -> {"running", "stopped", "dead"}]
    /\ traced \subseteq Target
    /\ sent \in [Target -> SUBSET Signal]
    /\ stop \in [Target -> Signal \cup {"none"}]
    /\ \A q \in Target : stop[q] = "none" <=> status[q] # "stopped"
    /\ event \subseteq traced
    /\ mem \in [Target -> 0..MaxWrite]
    /\ seen \in [Target -> SUBSET (0..MaxWrite)]
    /\ sigs \in 0..MaxSig
    /\ kills \in 0..MaxKill

SInit ==
    /\ exe \in Tools
    /\ ip = 1
    /\ done = 0
    /\ alive = TRUE
    /\ status = [q \in Target |-> "running"]
    /\ traced = {}
    /\ sent = [q \in Target |-> {}]
    /\ stop = [q \in Target |-> "none"]
    /\ event = {}
    /\ mem = [q \in Target |-> 0]
    /\ seen = [q \in Target |-> {}]
    /\ sigs = 0
    /\ kills = 0

-----------------------------------------------------------------------------
(* The tool ends, by return from main or by exit(EXIT_FAILURE).  The kernel *)
(* detaches what it still traces.  A stop the tool has waited for is over;  *)
(* at one that it has not waited for the signal takes effect: SIGSTOP       *)
(* leaves the target stopped, another signal is handled.                    *)

\* An exit that leaves its notifications behind.
ExitKeepsEvents ==
    LET halted(q) == q \in event /\ stop[q] = "STOP"
    IN  /\ alive' = FALSE
        /\ traced' = {}
        /\ status' = [q \in Target |->
                        IF q \in traced /\ status[q] = "stopped" /\ ~halted(q)
                        THEN "running" ELSE status[q]]
        /\ stop' = [q \in Target |->
                        IF q \in traced /\ ~halted(q) THEN "none" ELSE stop[q]]
        /\ UNCHANGED <<exe, ip, done, sent, event, mem, seen, budget>>

Exit ==
    LET halted(q) == q \in event /\ stop[q] = "STOP"
    IN  /\ alive' = FALSE
        /\ traced' = {}
        /\ event' = {}
        /\ status' = [q \in Target |->
                        IF q \in traced /\ status[q] = "stopped" /\ ~halted(q)
                        THEN "running" ELSE status[q]]
        /\ stop' = [q \in Target |->
                        IF q \in traced /\ ~halted(q) THEN "none" ELSE stop[q]]
        /\ UNCHANGED <<exe, ip, done, sent, mem, seen, budget>>

Return == alive /\ ip = Len(Main[exe]) + 1 /\ Exit

\* A call returns to main, or makes no system call that concerns a target.
CallReturns ==
    /\ InMain /\ done = Len(Calls)
    /\ ip' = ip + 1 /\ done' = 0
    /\ UNCHANGED <<exe, alive, kernel, mem, seen, budget>>

-----------------------------------------------------------------------------
(* System calls of the tool.                                                *)

\* ptrace(PTRACE_ATTACH): the kernel sends SIGSTOP to the main thread.
PTRACE_ATTACH(q) ==
    /\ At("attach", q)
    /\ status[q] # "dead"
    /\ traced' = traced \cup {q}
    /\ sent' = [sent EXCEPT ![q] = @ \cup {"STOP"}]
    /\ Advance
    /\ UNCHANGED <<status, stop, event, mem, seen, budget>>

\* "Unable to attach to the process", dead or not: exit(EXIT_FAILURE)
AttachFails(q) == At("attach", q) /\ Exit

\* wait(NULL) takes the change of state of ANY target; the tool does not look
\* at which.  It blocks while there is none: the call follows a successful
\* PTRACE_ATTACH, so there is always a target to wait for.  A dead target is
\* no longer traced once it has been waited for.
Wait(q) ==
    /\ At("wait", q)
    /\ \E any \in event :
        /\ event' = event \ {any}
        /\ traced' = IF status[any] = "dead" THEN traced \ {any} ELSE traced
    /\ Advance
    /\ UNCHANGED <<status, sent, stop, mem, seen, budget>>

\* open_proc_files, or the two files of the kernel in proc_parse_pagemap
Open(q) ==
    /\ At("open", q)
    /\ Advance
    /\ UNCHANGED <<kernel, mem, seen, budget>>

\* The target is gone or the file may not be opened: exit(EXIT_FAILURE).
OpenFails(q) == At("open", q) /\ Exit

Reads(q) == At("read", q) \/ At("scan", q)

\* One read of maps, mem or pagemap; of a dead target there is nothing to read.
Read(q) ==
    /\ Reads(q)
    /\ seen' = IF status[q] = "dead" THEN seen ELSE [seen EXCEPT ![q] = @ \cup {mem[q]}]
    /\ Advance
    /\ UNCHANGED <<kernel, mem, budget>>

\* do_u64_read fails: exit(EXIT_FAILURE).  fgets and fread have no such exit.
ScanFails(q) == At("scan", q) /\ Exit

Stopped(q) == q \in traced /\ status[q] = "stopped"

Resume(q) ==
    /\ status' = [status EXCEPT ![q] = "running"]
    /\ stop' = [stop EXCEPT ![q] = "none"]
    /\ event' = event \ {q}

\* ptrace(PTRACE_CONT) with signal 0, which drops the signal q stopped at.
\* It fails unless q is stopped, and the result is not looked at.
PTRACE_CONT(q) ==
    /\ At("cont", q)
    /\ IF Stopped(q) THEN Resume(q) ELSE UNCHANGED <<status, stop, event>>
    /\ Advance
    /\ UNCHANGED <<traced, sent, mem, seen, budget>>

\* ptrace(PTRACE_DETACH) fails, unnoticed, unless q is stopped.
PTRACE_DETACH(q) ==
    /\ At("detach", q)
    /\ IF Stopped(q)
       THEN Resume(q) /\ traced' = traced \ {q}
       ELSE UNCHANGED <<status, stop, event, traced>>
    /\ Advance
    /\ UNCHANGED <<sent, mem, seen, budget>>

-----------------------------------------------------------------------------
(* The targets and the rest of the system.                                  *)

Runs(q) == status[q] = "running" \/ (q \in Threaded /\ status[q] # "dead")

Write(q) ==
    /\ Runs(q)
    /\ mem[q] < MaxWrite
    /\ mem' = [mem EXCEPT ![q] = @ + 1]
    /\ UNCHANGED <<tool, kernel, seen, budget>>

\* A running target takes a pending signal.  A traced one stops at any signal
\* and lets the tool know; another one stops at SIGSTOP only.
Deliver(q, sig) ==
    /\ status[q] = "running"
    /\ sig \in sent[q]
    /\ sent' = [sent EXCEPT ![q] = @ \ {sig}]
    /\ IF q \in traced \/ sig = "STOP"
       THEN /\ status' = [status EXCEPT ![q] = "stopped"]
            /\ stop' = [stop EXCEPT ![q] = sig]
       ELSE UNCHANGED <<status, stop>>
    /\ event' = IF q \in traced THEN event \cup {q} ELSE event
    /\ UNCHANGED <<tool, traced, mem, seen, budget>>

\* Somebody sends a target a signal that it has a handler for.
Send(q) ==
    /\ sigs < MaxSig
    /\ status[q] # "dead"
    /\ sent' = [sent EXCEPT ![q] = @ \cup {"OTHER"}]
    /\ sigs' = sigs + 1
    /\ UNCHANGED <<tool, status, traced, stop, event, mem, seen, kills>>

\* SIGKILL, at any time and in any state.
Kill(q) ==
    /\ kills < MaxKill
    /\ status[q] # "dead"
    /\ status' = [status EXCEPT ![q] = "dead"]
    /\ stop' = [stop EXCEPT ![q] = "none"]
    /\ sent' = [sent EXCEPT ![q] = {}]
    /\ event' = IF q \in traced THEN event \cup {q} ELSE event
    /\ kills' = kills + 1
    /\ UNCHANGED <<tool, traced, mem, seen, sigs>>

-----------------------------------------------------------------------------

ToolStep ==
    \/ \E q \in Target :
        \/ PTRACE_ATTACH(q) \/ AttachFails(q) \/ Wait(q)
        \/ Open(q) \/ OpenFails(q) \/ Read(q) \/ ScanFails(q)
        \/ PTRACE_CONT(q) \/ PTRACE_DETACH(q)
    \/ CallReturns \/ Return

SNext ==
    \/ ToolStep
    \/ \E q \in Target : Write(q) \/ Send(q) \/ Kill(q)
    \/ \E q \in Target, sig \in Signal : Deliver(q, sig)

\* The tool never pauses except in wait, and a running target takes its
\* signals.  Nobody has to write, to send a signal or to kill.
SSpec ==
    /\ SInit
    /\ [][SNext]_svars
    /\ WF_svars(ToolStep)
    /\ \A q \in Target, sig \in Signal : WF_svars(Deliver(q, sig))

-----------------------------------------------------------------------------
(* Properties.                                                              *)

\* memdump -m and memdump -n read without proc_attach, though mem.h:18 says of
\* proc_do: "require proc_attach() is called."
Attaches == exe \notin {"memdump -m", "memdump -n"}

\* When wait(NULL) can be relied upon: in memdump, which has one target; in
\* cmp while nobody is killed, because its first target, once stopped, has
\* nothing else to report before the second wait; in setcmp only while nothing
\* happens to the targets it still traces.
Reliable ==
    \/ exe = "memdump"
    \/ exe = "cmp" /\ kills = 0
    \/ exe = "setcmp" /\ sigs = 0 /\ kills = 0

\* The maps, pages and pagemap entries that the tool read of a target belong
\* to one state of its memory, which is what attaching before proc_do is for.
\* (PTRACE_ATTACH stops one thread: of the others nothing is said.)
Coherent == Reliable => \A q \in Target \ Threaded : Cardinality(seen[q]) <= 1

\* cmp compares two processes as they are at one time: while it reads of either,
\* the main thread of the first does not run, and that of the second runs only
\* if the first has been killed and its death has answered the second wait.
\* Whatever signals the two get, and whenever, a stop answers no wait but the
\* one for its own process.
CmpReadsStopped ==
    exe = "cmp" => \A q \in Target :
        Reads(q) => /\ status[Pids[1]] # "running"
                    /\ status[Pids[2]] = "running" => status[Pids[1]] = "dead"

\* The tool ends, though it waits for other processes.
Terminates == <>~alive

\* Left alone, a target runs on for good once the tool is gone, although
\* PTRACE_DETACH fails and though the tool may exit while targets are stopped.
Releases ==
    \A q \in Target : <>[](status[q] \in {"running", "dead"} \/ sigs + kills > 0)

\* "attach to 'p', also wait until 'p' stops" (mem.c:775, mem.h:31): whenever
\* the tool is about to read of a target it has attached to, that target does
\* not run.
AttachStops == Attaches => \A q \in Target : Reads(q) => status[q] # "running"

\* "process 'p' will resume" (mem.h:33): when the tool is gone, every target
\* runs on for good, unless it was killed.
LeavesRunning == \A q \in Target : <>[](status[q] \in {"running", "dead"})
=============================================================================
