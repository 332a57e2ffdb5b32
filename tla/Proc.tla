-------------------------------- MODULE Proc --------------------------------
(***************************************************************************)
(* The life of user processes: sys_fork (userprog/fork.c), sys_wait and    *)
(* sys_exit (userprog/wait_exit.c), thread_exit and the pid pool           *)
(* (thread/thread.c) and what sys_execv does to the process table entry.   *)
(*                                                                         *)
(* A system call runs with interrupts off and these do not sleep except in *)
(* the thread_block of sys_wait and at the end of sys_exit, so each is one *)
(* action between those points.  Any process that is not asleep there may  *)
(* act next: the order the scheduler would choose is left open, and        *)
(* TASK_READY stands for every status of a process that goes on by itself. *)
(***************************************************************************)
EXTENDS Integers, Sequences, FiniteSets

CONSTANTS Procs,        \* places for a PCB
          InitProc,     \* the process init() of kernel/main.c
          Shell,        \* its child, my_shell()
          MaxPid,       \* bits in the pid pool
          MaxPages,     \* pages of the kernel pool
          BitmapBytes,  \* size of the bitmap of the user address space
          PageSize,
          Scattered,    \* whether the free pages may lie apart from each other
          NameLens      \* lengths of the names sys_execv gives a process

ASSUME ProcAssumption ==
    /\ {InitProc, Shell} \subseteq Procs /\ InitProc # Shell
    /\ MaxPid \in Nat /\ MaxPid >= 4
    /\ MaxPages \in Nat
    /\ BitmapBytes \in Nat \ {0} /\ PageSize \in Nat \ {0}
    /\ Scattered \in BOOLEAN
    /\ NameLens \subseteq Nat

VARIABLES status,   \* task_struct.status
          all,      \* the processes in thread_all_list, in its order
          pid,      \* task_struct.pid
          ppid,     \* task_struct.parent_pid
          pids,     \* the pids marked in pid_pool
          inwait,   \* inwait[p]: p is inside sys_wait
          nlen,     \* strlen(task_struct.name)
          kpages,   \* kernel pages in use for PCBs, page directories, bitmaps
          panic     \* an ASSERT or PANIC has stopped the machine

procVars == <<status, all, pid, ppid, pids, inwait, nlen, kpages, panic>>

Live == {"TASK_READY", "TASK_WAITING", "TASK_HANGING"}
Members(s) == {s[i] : i \in 1 .. Len(s)}

(* DIV_ROUND_UP(bytes, PG_SIZE) in create_user_vaddr_bitmap and sys_fork.  *)
BitmapPages == (BitmapBytes + PageSize - 1) \div PageSize

(* main and idle have taken the pids 2 and 3 before init forks; main has   *)
(* given its pid back.                                                     *)
ProcInit ==
    /\ status = [p \in Procs |-> IF p \in {InitProc, Shell} THEN "TASK_READY"
                                 ELSE "TASK_DIED"]
    /\ all = <<InitProc, Shell>>
    /\ pid = [p \in Procs |-> CASE p = InitProc -> 1 [] p = Shell -> 4
                                [] OTHER -> 0]
    /\ ppid = [p \in Procs |-> IF p = Shell THEN 1 ELSE -1]
    /\ pids = {1, 3, 4}
    /\ inwait = [p \in Procs |-> FALSE]
    /\ nlen = [p \in Procs |-> CASE p = InitProc -> 4     \* "init"
                                 [] p = Shell -> 9        \* "init_fork"
                                 [] OTHER -> 0]
    /\ kpages = 2 * (2 + BitmapPages)
    /\ panic = FALSE

FreePages == MaxPages - kpages

(* p executes user code or is about to run again in sys_wait. *)
Runs(p) == ~panic /\ status[p] = "TASK_READY"
Calls(p) == Runs(p) /\ ~inwait[p]

(* list_traversal of thread_all_list with the callbacks find_child and     *)
(* find_hanging_child: the first entry that matches.                       *)
FindChild(p) == \E t \in Members(all) : ppid[t] = pid[p]
HangingChild(p, t) == ppid[t] = pid[p] /\ status[t] = "TASK_HANGING"
FindHangingChild(p) == \E t \in Members(all) : HangingChild(p, t)
FirstHangingChild(p, i) ==
    /\ HangingChild(p, all[i])
    /\ \A j \in 1 .. i - 1 : ~HangingChild(p, all[j])

(* list_remove of the i-th element. *)
ListRemove(s, i) ==
    [j \in 1 .. Len(s) - 1 |-> IF j < i THEN s[j] ELSE s[j + 1]]

(* Mutant: the entry stays in thread_all_list. *)
ThreadExitListed(i) ==
    /\ status' = [status EXCEPT ![all[i]] = "TASK_DIED"]
    /\ pids' = pids \ {pid[all[i]]}
    /\ kpages' = kpages - 2
    /\ UNCHANGED <<all, pid, ppid, nlen>>

(* thread_exit(all[i], false): page directory, PCB and pid are given back; *)
(* what the freed PCB still contains is dead.                              *)
ThreadExit(i) ==
    /\ status' = [status EXCEPT ![all[i]] = "TASK_DIED"]
    /\ all' = ListRemove(all, i)
    /\ pids' = pids \ {pid[all[i]]}
    /\ pid' = [pid EXCEPT ![all[i]] = 0]
    /\ ppid' = [ppid EXCEPT ![all[i]] = -1]
    /\ nlen' = [nlen EXCEPT ![all[i]] = 0]
    /\ kpages' = kpages - 2

(* allocate_pid takes the first pid that is not marked; bitmap_scan stops  *)
(* the machine when there is none.                                         *)
FirstFreePid(n) == n \notin pids /\ \A m \in 1 .. n - 1 : m \in pids
PidFree == \E n \in 1 .. MaxPid : FirstFreePid(n)

AllocatePid == CHOOSE n \in 1 .. MaxPid : FirstFreePid(n)

----------------------------------------------------------------------------
(* Mutant: the pid of the child is not marked in the pool. *)
SysForkUnmarked(p, c) ==
    /\ Calls(p) /\ p # InitProc
    /\ status[c] = "TASK_DIED" /\ c \notin Members(all)
    /\ FreePages >= 3 + BitmapPages
    /\ PidFree /\ nlen[p] < 11
    /\ status' = [status EXCEPT ![c] = "TASK_READY"]
    /\ all' = Append(all, c)
    /\ pid' = [pid EXCEPT ![c] = AllocatePid]
    /\ ppid' = [ppid EXCEPT ![c] = pid[p]]
    /\ nlen' = [nlen EXCEPT ![c] = nlen[p] + 5]
    /\ kpages' = kpages + 2 + BitmapPages
    /\ UNCHANGED <<pids, inwait, panic>>

(* sys_fork when memory suffices: PCB, bitmap and page directory stay with *)
(* the child, the page used for copying is given back.  The ASSERT on the  *)
(* name comes after the pid and the bitmap were allocated.                 *)
SysFork(p, c) ==
    /\ Calls(p) /\ p # InitProc
    /\ status[c] = "TASK_DIED" /\ c \notin Members(all)
    /\ FreePages >= 3 + BitmapPages
    /\ PidFree /\ nlen[p] < 11
    /\ status' = [status EXCEPT ![c] = "TASK_READY"]
    /\ all' = Append(all, c)
    /\ pid' = [pid EXCEPT ![c] = AllocatePid]
    /\ ppid' = [ppid EXCEPT ![c] = pid[p]]
    /\ pids' = pids \cup {AllocatePid}
    /\ nlen' = [nlen EXCEPT ![c] = nlen[p] + 5]
    /\ kpages' = kpages + 2 + BitmapPages
    /\ UNCHANGED <<inwait, panic>>

(* sys_fork that stops at a failed ASSERT.  bitmap_scan asserts that a bit *)
(* is free: when no page is left for the PCB, the copy, the bitmap or the  *)
(* page directory, or no pid.  Looking for several bits it reads one bit   *)
(* past the end, and a page found there has no memory behind it.  The      *)
(* other ASSERT is the one on the length of the name.                      *)
ForkAsserts(p) ==
    /\ Calls(p) /\ p # InitProc
    /\ \/ FreePages <= 2
       \/ ~PidFree
       \/ FreePages \in {1 + BitmapPages, 2 + BitmapPages}
       \/ nlen[p] >= 11 /\ FreePages > 2 + BitmapPages
    /\ panic' = TRUE
    /\ UNCHANGED <<status, all, pid, ppid, pids, inwait, nlen, kpages>>

(* sys_fork that finds no run of pages for the bitmap returns -1 and gives *)
(* back neither the PCB nor the page for copying nor the pid.              *)
ForkFails(p) ==
    /\ Calls(p) /\ p # InitProc
    /\ FreePages > 2 /\ PidFree
    /\ BitmapPages > 1
    /\ FreePages < 2 + BitmapPages \/ Scattered
    /\ pids' = pids \cup {AllocatePid}
    /\ kpages' = kpages + 2
    /\ UNCHANGED <<status, all, pid, ppid, inwait, nlen, panic>>

(* sys_execv changes the name in the PCB. *)
SysExecv(p, len) ==
    /\ Calls(p) /\ p \notin {InitProc, Shell}
    /\ nlen' = [nlen EXCEPT ![p] = len]
    /\ UNCHANGED <<status, all, pid, ppid, pids, inwait, kpages, panic>>

(* Mutants of sys_exit: the children are not handed over; the parent is    *)
(* not woken.                                                              *)
SysExitOrphans(p) ==
    /\ Calls(p) /\ p \notin {InitProc, Shell}
    /\ LET parent == {t \in Members(all) : pid[t] = ppid[p]}
       IN  /\ status' = [t \in Procs |->
                  IF t = p THEN "TASK_HANGING"
                  ELSE IF t \in parent /\ status[t] = "TASK_WAITING"
                       THEN "TASK_READY" ELSE status[t]]
           /\ panic' = (ppid[p] = -1 \/ parent = {})
    /\ kpages' = kpages - BitmapBytes \div PageSize
    /\ UNCHANGED <<all, pid, ppid, pids, inwait, nlen>>

SysExitMute(p) ==
    /\ Calls(p) /\ p \notin {InitProc, Shell}
    /\ ppid' = [t \in Procs |->
                  IF t \in Members(all) /\ ppid[t] = pid[p] THEN 1 ELSE ppid[t]]
    /\ status' = [status EXCEPT ![p] = "TASK_HANGING"]
    /\ kpages' = kpages - BitmapBytes \div PageSize
    /\ UNCHANGED <<all, pid, pids, inwait, nlen, panic>>

(* sys_exit: the children go to init (pid 1), the pages of the address     *)
(* space bitmap are given back, rounded down, the parent is woken if it    *)
(* waits, and the process hangs until it is reaped.  It stops the machine  *)
(* if there is no parent.  init and the shell loop for ever.               *)
SysExit(p) ==
    /\ Calls(p) /\ p \notin {InitProc, Shell}
    /\ ppid' = [t \in Procs |->
                  IF t \in Members(all) /\ ppid[t] = pid[p] THEN 1 ELSE ppid[t]]
    /\ LET parent == {t \in Members(all) : pid[t] = ppid[p]}
       IN  /\ status' = [t \in Procs |->
                  IF t = p THEN "TASK_HANGING"
                  ELSE IF t \in parent /\ status[t] = "TASK_WAITING"
                       THEN "TASK_READY" ELSE status[t]]
           /\ panic' = (ppid[p] = -1 \/ parent = {})
    /\ kpages' = kpages - BitmapBytes \div PageSize
    /\ UNCHANGED <<all, pid, pids, inwait, nlen>>

(* The loop of sys_wait.  A child that hangs is removed. *)
WaitReap(p) ==
    /\ Runs(p)
    /\ \E i \in 1 .. Len(all) : FirstHangingChild(p, i) /\ ThreadExit(i)
    /\ inwait' = [inwait EXCEPT ![p] = FALSE]
    /\ UNCHANGED panic

(* Without children it returns -1. *)
WaitNone(p) ==
    /\ Runs(p)
    /\ ~FindChild(p)
    /\ inwait' = [inwait EXCEPT ![p] = FALSE]
    /\ UNCHANGED <<status, all, pid, ppid, pids, nlen, kpages, panic>>

(* Mutant: it blocks without having looked for a child that hangs. *)
WaitBlockHasty(p) ==
    /\ Runs(p)
    /\ FindChild(p)
    /\ status' = [status EXCEPT ![p] = "TASK_WAITING"]
    /\ inwait' = [inwait EXCEPT ![p] = TRUE]
    /\ UNCHANGED <<all, pid, ppid, pids, nlen, kpages, panic>>

(* Otherwise it blocks. *)
WaitBlock(p) ==
    /\ Runs(p)
    /\ FindChild(p) /\ ~FindHangingChild(p)
    /\ status' = [status EXCEPT ![p] = "TASK_WAITING"]
    /\ inwait' = [inwait EXCEPT ![p] = TRUE]
    /\ UNCHANGED <<all, pid, ppid, pids, nlen, kpages, panic>>

SysWait(p) == WaitReap(p) \/ WaitNone(p) \/ WaitBlock(p)

ProcNext ==
    \E p \in Procs :
        \/ \E c \in Procs : SysFork(p, c)
        \/ ForkAsserts(p)
        \/ ForkFails(p)
        \/ \E len \in NameLens : SysExecv(p, len)
        \/ SysExit(p)
        \/ SysWait(p)

ProcSpec == ProcInit /\ [][ProcNext]_procVars

(* A process inside sys_wait that can run does run; init and the shell     *)
(* call wait again and again.                                              *)
ProcFairSpec ==
    /\ ProcSpec
    /\ \A p \in Procs : WF_procVars(inwait[p] /\ SysWait(p))
    /\ \A p \in {InitProc, Shell} : WF_procVars(SysWait(p))

----------------------------------------------------------------------------
ProcTypeOK ==
    /\ status \in [Procs -> Live \cup {"TASK_DIED"}]
    /\ all \in Seq(Procs)
    /\ pid \in [Procs -> Nat]
    /\ ppid \in [Procs -> Int]
    /\ pids \subseteq 1 .. MaxPid
    /\ inwait \in [Procs -> BOOLEAN]
    /\ nlen \in [Procs -> Nat]
    /\ kpages \in Int
    /\ panic \in BOOLEAN

(* thread_all_list holds every process in use, once: thread_exit has taken *)
(* a reaped one out before its page is used again.                         *)
ListExact ==
    /\ Members(all) = {p \in Procs : status[p] # "TASK_DIED"}
    /\ \A i, j \in 1 .. Len(all) : all[i] = all[j] => i = j

(* No two processes have the same pid, however often pids are reused, and  *)
(* the pid of a process is not free for the next fork.                     *)
PidsUnique ==
    \A p \in Members(all) :
        /\ pid[p] \in pids
        /\ \A q \in Members(all) : pid[p] = pid[q] => p = q

(* parent_pid never dangles: every process but init has a parent that is   *)
(* in use and has not exited, so pid2thread in sys_exit finds it, and a    *)
(* reused pid never makes a stranger the parent.                           *)
ParentLives ==
    \A p \in Members(all) \ {InitProc} :
        \E q \in Members(all) : /\ q # p
                                /\ pid[q] = ppid[p]
                                /\ status[q] # "TASK_HANGING"

(* A process other than init that sleeps in sys_wait has a child, and none *)
(* of its children has exited already: the wakeup of sys_exit was not lost.*)
NoMissedExit ==
    \A p \in Members(all) :
        status[p] = "TASK_WAITING" =>
            /\ \E t \in Members(all) : ppid[t] = pid[p]
            /\ p # InitProc => ~FindHangingChild(p)

(* sys_exit and sys_wait themselves never stop the machine: sys_exit finds *)
(* its parent whatever exited before.  It only stops in the ASSERTs that   *)
(* sys_fork runs into, with pids, pages or the name at their limit.        *)
OnlyForkStops == [][panic' /\ ~panic => \E p \in Procs : ForkAsserts(p)]_procVars

(* The shell gets back every child that exits, in the order of the list,   *)
(* even while it starts new ones.                                          *)
ShellReaps ==
    \A t \in Procs : status[t] = "TASK_HANGING" /\ ppid[t] = pid[Shell]
                        ~> status[t] = "TASK_DIED" \/ panic

(* The strengthening that makes these inductive: init stays, as pid 1. *)
InitStays ==
    /\ InitProc \in Members(all)
    /\ pid[InitProc] = 1
    /\ status[InitProc] # "TASK_HANGING"

ProcInv ==
    /\ ProcTypeOK
    /\ ListExact
    /\ PidsUnique
    /\ ParentLives
    /\ NoMissedExit
    /\ InitStays
=============================================================================
