------------------------------- MODULE Sched -------------------------------
(***************************************************************************)
(* The scheduler of thread/thread.c together with the clock handler of     *)
(* device/timer.c and the idle thread.  One processor: only `cur' executes.*)
(* Every scheduler operation runs with interrupts off from its first line  *)
(* to its last, so each is one action; between two of them the interrupt   *)
(* flag of the running thread decides whether an interrupt may come in.    *)
(*                                                                         *)
(* A failed ASSERT calls panic_spin (kernel/debug.c): interrupts off and   *)
(* an endless loop.  It is recorded in `panic', after which nothing runs.  *)
(***************************************************************************)
EXTENDS Integers, Sequences, FiniteSets

CONSTANTS Threads,      \* the PCBs that may ever exist, Idle and Main included
          Idle,         \* idle_thread
          Main,         \* main_thread, the boot context
          First,        \* the init process, created before main is a thread
          Priority      \* Priority[t]: the ticks a thread gets in one turn

ASSUME SchedAssumption ==
    /\ {Idle, Main, First} \subseteq Threads
    /\ Idle # Main /\ Idle # First /\ Main # First
    /\ Priority \in [Threads -> Nat \ {0}]

VARIABLES cur,      \* running_thread()
          status,   \* task_struct.status of every PCB
          ready,    \* thread_ready_list, first element first
          all,      \* the members of thread_all_list
          ticks,    \* task_struct.ticks
          intr,     \* intr[t]: the interrupt flag t resumes its own code with
          idlepc,   \* where idle() is: "block", "awake" or "hlt"
          panic     \* an ASSERT has failed

schedVars == <<cur, status, ready, all, ticks, intr, idlepc, panic>>

Sleeping == {"TASK_BLOCKED", "TASK_WAITING", "TASK_HANGING"}
Statuses == Sleeping \cup {"TASK_RUNNING", "TASK_READY", "TASK_DIED"}

Elems(s) == {s[i] : i \in 1 .. Len(s)}
NoRepeats(s) == \A i, j \in 1 .. Len(s) : s[i] = s[j] => i = j

(* list_remove of an element that elem_find has found. *)
RemoveIfFound(s, t) == IF t \in Elems(s) THEN SelectSeq(s, LAMBDA u : u # t) ELSE s

(* A PCB that is not in use has status TASK_DIED and is in no list.        *)
Init ==
    /\ cur = Main
    /\ status = [t \in Threads |-> CASE t = Main -> "TASK_RUNNING"
                                     [] t \in {First, Idle} -> "TASK_READY"
                                     [] OTHER -> "TASK_DIED"]
    /\ ready = <<First, Idle>>
    /\ all = {First, Main, Idle}
    /\ ticks = Priority
    /\ intr = [t \in Threads |-> t # Main]    \* init_all() runs with IF = 0
    /\ idlepc = "block"
    /\ panic = FALSE

----------------------------------------------------------------------------
(* Mutants of Dispatch: the head is read but not popped; the list is       *)
(* served from its tail.                                                   *)
DispatchKeep(rd, st, ok) ==
    LET run == IF rd = <<>> THEN <<Idle>> ELSE rd
    IN  /\ cur' = Head(run)
        /\ ready' = run
        /\ status' = [st EXCEPT ![Head(run)] = "TASK_RUNNING"]
        /\ panic' = ~(ok /\ (rd = <<>> => st[Idle] \in Sleeping))

DispatchLast(rd, st, ok) ==
    LET run == IF rd = <<>> THEN <<Idle>> ELSE rd
    IN  /\ cur' = run[Len(run)]
        /\ ready' = SubSeq(run, 1, Len(run) - 1)
        /\ status' = [st EXCEPT ![run[Len(run)]] = "TASK_RUNNING"]
        /\ panic' = ~(ok /\ (rd = <<>> => st[Idle] \in Sleeping))

(* The part of schedule() after the running thread was dealt with: rd is   *)
(* the ready list, st the statuses, ok says that the ASSERTs so far held.  *)
(* An empty list wakes the idle thread, which thread_unblock pushes onto   *)
(* it.  The first thread of the list gets the processor.                   *)
Dispatch(rd, st, ok) ==
    LET run == IF rd = <<>> THEN <<Idle>> ELSE rd
    IN  /\ cur' = Head(run)
        /\ ready' = Tail(run)
        /\ status' = [st EXCEPT ![Head(run)] = "TASK_RUNNING"]
        /\ panic' = ~(ok /\ (rd = <<>> => st[Idle] \in Sleeping))

(* schedule() called by a thread whose status is TASK_RUNNING: it goes to  *)
(* the end of the ready list with a fresh turn.                            *)
SchedulePreempted ==
    /\ Dispatch(Append(ready, cur),
                [status EXCEPT ![cur] = "TASK_READY"],
                cur \notin Elems(ready))
    /\ ticks' = [ticks EXCEPT ![cur] = Priority[cur]]

(* thread_block(stat): the caller keeps what is left of its turn.          *)
ThreadBlock(stat) ==
    /\ Dispatch(ready, [status EXCEPT ![cur] = stat], stat \in Sleeping)
    /\ UNCHANGED ticks

(* Mutant of ThreadUnblock: the status is not set. *)
ThreadUnblockMute(t, ok) ==
    /\ panic' = ~(ok /\ status[t] \in Sleeping /\ t \notin Elems(ready))
    /\ ready' = <<t>> \o ready
    /\ UNCHANGED status

(* thread_unblock(t): t goes to the FRONT of the ready list; the caller    *)
(* keeps running.  ok are the ASSERTs of the caller.                       *)
ThreadUnblock(t, ok) ==
    /\ panic' = ~(ok /\ status[t] \in Sleeping /\ t \notin Elems(ready))
    /\ ready' = <<t>> \o ready
    /\ status' = [status EXCEPT ![t] = "TASK_READY"]

(* thread_yield(): the caller queues up itself and then calls schedule()   *)
(* as a thread that is not running, so its turn is not renewed.            *)
ThreadYield ==
    /\ Dispatch(Append(ready, cur),
                [status EXCEPT ![cur] = "TASK_READY"],
                cur \notin Elems(ready))
    /\ UNCHANGED ticks

(* An interrupt that arrives while the processor is halted ends the hlt.   *)
LeaveHlt == idlepc' = IF cur = Idle /\ idlepc = "hlt" THEN "block" ELSE idlepc

----------------------------------------------------------------------------

(* intr_timer_handler(), entered only when the running thread has its      *)
(* interrupt flag set.                                                     *)
Timer ==
    /\ ~panic
    /\ intr[cur]
    /\ \/ /\ ticks[cur] = 0
          /\ SchedulePreempted
       \/ /\ ticks[cur] > 0
          /\ ticks' = [ticks EXCEPT ![cur] = @ - 1]
          /\ UNCHANGED <<cur, status, ready, panic>>
    /\ LeaveHlt
    /\ UNCHANGED <<all, intr>>

(* The handler of another device wakes the thread that waits for it.       *)
DeviceIntr(t) ==
    /\ ~panic
    /\ intr[cur]
    /\ t # Idle /\ status[t] = "TASK_BLOCKED"
    /\ ThreadUnblock(t, TRUE)
    /\ LeaveHlt
    /\ UNCHANGED <<cur, all, ticks, intr>>

(* idle(): thread_block(TASK_BLOCKED), and once it is back, sti and hlt.   *)
(* thread_block restores the interrupt flag before the hlt, so a handler   *)
(* may run in between and the idle thread still halts.                     *)
IdleBlock ==
    /\ ~panic
    /\ cur = Idle /\ idlepc = "block"
    /\ ThreadBlock("TASK_BLOCKED")
    /\ idlepc' = "awake"
    /\ UNCHANGED <<all, intr>>

IdleHalt ==
    /\ ~panic
    /\ cur = Idle /\ idlepc = "awake"
    /\ idlepc' = "hlt"
    /\ UNCHANGED <<cur, status, ready, all, ticks, intr, panic>>

(* What the code of any other thread does to the scheduler. *)
CallBlock(stat) ==
    /\ ~panic
    /\ cur # Idle
    /\ stat \in Sleeping
    /\ ThreadBlock(stat)
    /\ UNCHANGED <<all, intr, idlepc>>

CallUnblock(t) ==
    /\ ~panic
    /\ cur # Idle
    /\ t # Idle /\ status[t] \in {"TASK_BLOCKED", "TASK_WAITING"}
    /\ ThreadUnblock(t, TRUE)
    /\ UNCHANGED <<cur, all, ticks, intr, idlepc>>

CallYield ==
    /\ ~panic
    /\ cur # Idle
    /\ ThreadYield
    /\ UNCHANGED <<all, intr, idlepc>>

(* int 0x80 clears the interrupt flag, iret and intr_enable() set it.      *)
EnterKernel ==
    /\ ~panic
    /\ cur # Idle /\ intr[cur]
    /\ intr' = [intr EXCEPT ![cur] = FALSE]
    /\ UNCHANGED <<cur, status, ready, all, ticks, idlepc, panic>>

LeaveKernel ==
    /\ ~panic
    /\ ~intr[cur]
    /\ intr' = [intr EXCEPT ![cur] = TRUE]
    /\ UNCHANGED <<cur, status, ready, all, ticks, idlepc, panic>>

(* thread_start, process_execute and sys_fork: a new PCB joins both lists  *)
(* at their ends and will start with interrupts on.                        *)
Start(t) ==
    /\ ~panic
    /\ cur # Idle
    /\ t \notin all /\ status[t] = "TASK_DIED" /\ t # Main
    /\ panic' = ~(t \notin Elems(ready))
    /\ ready' = Append(ready, t)
    /\ status' = [status EXCEPT ![t] = "TASK_READY"]
    /\ all' = all \cup {t}
    /\ ticks' = [ticks EXCEPT ![t] = Priority[t]]
    /\ intr' = [intr EXCEPT ![t] = TRUE]
    /\ UNCHANGED <<cur, idlepc>>

(* Mutant of ExitMain: it stays in thread_all_list. *)
ExitMainListed ==
    /\ ~panic
    /\ cur = Main /\ intr[Main]
    /\ Dispatch(RemoveIfFound(ready, Main),
                [status EXCEPT ![Main] = "TASK_DIED"], TRUE)
    /\ intr' = [intr EXCEPT ![Main] = FALSE]
    /\ UNCHANGED <<all, ticks, idlepc>>

(* thread_exit(main, true) at the end of main(). *)
ExitMain ==
    /\ ~panic
    /\ cur = Main /\ intr[Main]
    /\ Dispatch(RemoveIfFound(ready, Main),
                [status EXCEPT ![Main] = "TASK_DIED"], TRUE)
    /\ all' = all \ {Main}
    /\ intr' = [intr EXCEPT ![Main] = FALSE]
    /\ UNCHANGED <<ticks, idlepc>>

(* thread_exit(t, false), called by sys_wait for a child that hangs.       *)
Reap(t) ==
    /\ ~panic
    /\ cur # Idle /\ ~intr[cur]
    /\ status[t] = "TASK_HANGING"
    /\ status' = [status EXCEPT ![t] = "TASK_DIED"]
    /\ ready' = RemoveIfFound(ready, t)
    /\ all' = all \ {t}
    /\ UNCHANGED <<cur, ticks, intr, idlepc, panic>>

Next ==
    \/ Timer
    \/ IdleBlock
    \/ IdleHalt
    \/ CallYield
    \/ EnterKernel
    \/ LeaveKernel
    \/ ExitMain
    \/ \E stat \in Sleeping : CallBlock(stat)
    \/ \E t \in Threads : DeviceIntr(t)
    \/ \E t \in Threads : CallUnblock(t)
    \/ \E t \in Threads : Start(t)
    \/ \E t \in Threads : Reap(t)

Spec == Init /\ [][Next]_schedVars

----------------------------------------------------------------------------
TypeOK ==
    /\ cur \in Threads
    /\ status \in [Threads -> Statuses]
    /\ ready \in Seq(Threads)
    /\ all \subseteq Threads
    /\ ticks \in [Threads -> Nat]
    /\ intr \in [Threads -> BOOLEAN]
    /\ idlepc \in {"block", "awake", "hlt"}
    /\ panic \in BOOLEAN

(* No ASSERT of the scheduler ever fails: in particular schedule() never   *)
(* finds an empty ready list with an idle thread that cannot be unblocked, *)
(* and never queues a thread twice (thread.c:179, 191, 221, 223, 238).     *)
NoPanic == ~panic

(* thread_ready_list holds every TASK_READY thread once and nothing else,  *)
(* so no runnable thread is lost and no thread has two places in it.       *)
ReadyListExact ==
    /\ Elems(ready) = {t \in Threads : status[t] = "TASK_READY"}
    /\ NoRepeats(ready)

(* thread_all_list holds the threads whose PCB is in use, so pid2thread    *)
(* and the search for children never visit a freed PCB.                    *)
AllListLive == all = {t \in Threads : status[t] # "TASK_DIED"}

(* The strengthening that makes these inductive: exactly the thread on the *)
(* processor is TASK_RUNNING, and the idle thread is only ever parked in   *)
(* TASK_BLOCKED, from which schedule() can take it when nobody can run.    *)
OneRunning == \A t \in Threads : status[t] = "TASK_RUNNING" <=> t = cur
IdleAvailable ==
    status[Idle] \in {"TASK_RUNNING", "TASK_READY", "TASK_BLOCKED"}

SchedInv ==
    /\ TypeOK
    /\ NoPanic
    /\ ReadyListExact
    /\ AllListLive
    /\ OneRunning
    /\ IdleAvailable

(* Round robin without starvation, although thread_unblock pushes to the   *)
(* front of the list: a ready thread gets the processor.                   *)
ReadyRuns ==
    \A t \in Threads : status[t] = "TASK_READY" ~> status[t] = "TASK_RUNNING"
=============================================================================
