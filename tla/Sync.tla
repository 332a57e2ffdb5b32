-------------------------------- MODULE Sync --------------------------------
(***************************************************************************)
(* One struct lock of thread/sync.c, used by every thread of the scheduler *)
(* of module Sched.  sema_down and sema_up keep interrupts off, so each is *)
(* one action up to its thread_block; lock_acquire and lock_release do not *)
(* (their intr_disable is commented out), so a thread whose interrupt flag *)
(* is set can lose the processor between any two of their statements.      *)
(***************************************************************************)
EXTENDS Sched

CONSTANTS NoThread,     \* holder = NULL
          MaxRepeat     \* bound: how deep one thread nests lock_acquire

ASSUME SyncAssumption ==
    /\ NoThread \notin Threads
    /\ MaxRepeat \in Nat \ {0}

VARIABLES value,    \* semaphore.value
          waiters,  \* semaphore.waiters, first element first
          holder,   \* lock.holder
          repeat,   \* lock.holder_repeat_nr
          pc        \* the next statement of every thread

lockVars == <<value, waiters, holder, repeat>>
syncVars == <<schedVars, lockVars, pc>>

(* "out": not using the lock; "down": about to call sema_down; "retry":    *)
(* inside the while loop of sema_down, interrupts off; "took": the value   *)
(* was decremented; "named": holder is set; "held": lock_acquire returned; *)
(* "drop": lock_release is past its tests; "unnamed": holder is NULL again;*)
(* "up": holder_repeat_nr is 0, sema_up comes next.                        *)
Owning == {"took", "named", "held", "drop", "unnamed", "up"}
Places == {"out", "down", "retry"} \cup Owning

(* lock_init, at a time when the scheduler runs. *)
SyncInit ==
    /\ Init
    /\ value = 1
    /\ waiters = <<>>
    /\ holder = NoThread
    /\ repeat = 0
    /\ pc = [t \in Threads |-> "out"]

Goto(place) == pc' = [pc EXCEPT ![cur] = place]

(* Statements that leave the scheduler alone, except that an ASSERT may    *)
(* stop the machine.                                                       *)
Statement(ok) ==
    /\ panic' = ~ok
    /\ UNCHANGED <<cur, status, ready, all, ticks, intr, idlepc>>

At(place) == ~panic /\ cur # Idle /\ pc[cur] = place

----------------------------------------------------------------------------
(* lock_acquire: its test, and the branch for the thread that already owns *)
(* the lock.                                                               *)
AcquireTest ==
    /\ At("out") \/ At("held")
    /\ \/ /\ holder # cur
          /\ Goto("down")
          /\ UNCHANGED repeat
       \/ /\ holder = cur
          /\ repeat < MaxRepeat
          /\ repeat' = repeat + 1
          /\ Goto("held")
    /\ Statement(TRUE)
    /\ UNCHANGED <<value, waiters, holder>>

(* Mutant: an `if' in place of the `while', so a woken thread does not     *)
(* test the value again.                                                   *)
SemaDownTakeIf ==
    /\ (At("down") /\ value > 0) \/ At("retry")
    /\ value' = IF value > 0 THEN value - 1 ELSE 0
    /\ Goto("took")
    /\ Statement(value' = 0)
    /\ UNCHANGED <<waiters, holder, repeat>>

(* sema_down when the value is positive, on the first or a later test.     *)
SemaDownTake ==
    /\ At("down") \/ At("retry")
    /\ value > 0
    /\ value' = value - 1
    /\ Goto("took")
    /\ Statement(value' = 0)
    /\ UNCHANGED <<waiters, holder, repeat>>

(* sema_down when the value is zero: queue up and block. *)
SemaDownWait ==
    /\ At("down") \/ At("retry")
    /\ value = 0
    /\ waiters' = Append(waiters, cur)
    /\ Goto("retry")
    /\ Dispatch(ready, [status EXCEPT ![cur] = "TASK_BLOCKED"],
                cur \notin Elems(waiters))
    /\ UNCHANGED <<all, ticks, intr, idlepc, value, holder, repeat>>

(* The two assignments of lock_acquire after sema_down. *)
AcquireHolder ==
    /\ At("took")
    /\ holder' = cur
    /\ Goto("named")
    /\ Statement(TRUE)
    /\ UNCHANGED <<value, waiters, repeat>>

AcquireRepeat ==
    /\ At("named")
    /\ repeat' = 1
    /\ Goto("held")
    /\ Statement(repeat = 0)
    /\ UNCHANGED <<value, waiters, holder>>

(* Mutant: a nested release resets the count. *)
ReleaseTestReset ==
    /\ At("held")
    /\ \/ /\ repeat > 1
          /\ repeat' = 0
          /\ Goto("held")
          /\ Statement(holder = cur)
       \/ /\ repeat <= 1
          /\ Goto("drop")
          /\ Statement(holder = cur /\ repeat = 1)
          /\ UNCHANGED repeat
    /\ UNCHANGED <<value, waiters, holder>>

(* lock_release: its tests. *)
ReleaseTest ==
    /\ At("held")
    /\ \/ /\ repeat > 1
          /\ repeat' = repeat - 1
          /\ Goto("held")
          /\ Statement(holder = cur)
       \/ /\ repeat <= 1
          /\ Goto("drop")
          /\ Statement(holder = cur /\ repeat = 1)
          /\ UNCHANGED repeat
    /\ UNCHANGED <<value, waiters, holder>>

ReleaseHolder ==
    /\ At("drop")
    /\ holder' = NoThread
    /\ Goto("unnamed")
    /\ Statement(TRUE)
    /\ UNCHANGED <<value, waiters, repeat>>

ReleaseRepeat ==
    /\ At("unnamed")
    /\ repeat' = 0
    /\ Goto("up")
    /\ Statement(TRUE)
    /\ UNCHANGED <<value, waiters, holder>>

(* Mutant: the wakeup is forgotten. *)
SemaUpSilent ==
    /\ At("up")
    /\ value' = value + 1
    /\ Goto("out")
    /\ Statement(value = 0)
    /\ UNCHANGED <<waiters, holder, repeat>>

(* Mutant: the woken thread stays in the queue. *)
SemaUpPeek ==
    /\ At("up")
    /\ value' = value + 1
    /\ Goto("out")
    /\ \/ waiters = <<>> /\ Statement(value = 0)
       \/ /\ waiters # <<>>
          /\ ThreadUnblock(Head(waiters), value = 0)
          /\ UNCHANGED <<cur, all, ticks, intr, idlepc>>
    /\ UNCHANGED <<waiters, holder, repeat>>

(* sema_up: wake the first waiter, which is not given the value; whoever   *)
(* tests it first gets it.                                                 *)
SemaUp ==
    /\ At("up")
    /\ value' = value + 1
    /\ Goto("out")
    /\ \/ /\ waiters = <<>>
          /\ Statement(value = 0)
          /\ UNCHANGED waiters
       \/ /\ waiters # <<>>
          /\ waiters' = Tail(waiters)
          /\ ThreadUnblock(Head(waiters), value = 0)
          /\ UNCHANGED <<cur, all, ticks, intr, idlepc>>
    /\ UNCHANGED <<holder, repeat>>

LockStep ==
    \/ AcquireTest
    \/ SemaDownTake
    \/ SemaDownWait
    \/ AcquireHolder
    \/ AcquireRepeat
    \/ ReleaseTest
    \/ ReleaseHolder
    \/ ReleaseRepeat
    \/ SemaUp

----------------------------------------------------------------------------
(* The rest of the system.  A thread inside the loop of sema_down has its  *)
(* interrupts off even if intr says it will get them back.                 *)
InterruptsOn == pc[cur] # "retry"

Clock ==
    /\ InterruptsOn
    /\ Timer
    /\ UNCHANGED <<lockVars, pc>>

IdleStep ==
    /\ IdleBlock \/ IdleHalt
    /\ UNCHANGED <<lockVars, pc>>

(* A thread may sleep on a device while it holds the lock, as ide_read     *)
(* does with the lock of its channel; the device wakes it up.              *)
WaitForDevice ==
    /\ At("held")
    /\ CallBlock("TASK_BLOCKED")
    /\ UNCHANGED <<lockVars, pc>>

DeviceDone(t) ==
    /\ InterruptsOn
    /\ pc[t] = "held"
    /\ DeviceIntr(t)
    /\ UNCHANGED <<lockVars, pc>>

Spawn(t) ==
    /\ At("out")
    /\ Start(t)
    /\ UNCHANGED <<lockVars, pc>>

(* A process that exits hangs until its parent frees the PCB; both happen  *)
(* outside of the lock.                                                    *)
Hang ==
    /\ At("out")
    /\ CallBlock("TASK_HANGING")
    /\ UNCHANGED <<lockVars, pc>>

Collect(t) ==
    /\ At("out")
    /\ Reap(t)
    /\ UNCHANGED <<lockVars, pc>>

(* System calls use the lock with interrupts off, kernel threads (such as  *)
(* start_process, which allocates a page) with interrupts on.              *)
SwitchMode ==
    /\ At("out")
    /\ EnterKernel \/ LeaveKernel
    /\ UNCHANGED <<lockVars, pc>>

SyncNext ==
    \/ LockStep
    \/ Clock
    \/ IdleStep
    \/ WaitForDevice
    \/ SwitchMode
    \/ \E t \in Threads : DeviceDone(t)
    \/ \E t \in Threads : Spawn(t)
    \/ Hang
    \/ \E t \in Threads : Collect(t)

SyncSpec == SyncInit /\ [][SyncNext]_syncVars

(* A thread that owns the lock releases it some time, however often it     *)
(* nests; a thread that runs again and again gets past its next statement; *)
(* the clock ticks and the device answers.                                 *)
Release == ReleaseTest \/ ReleaseHolder \/ ReleaseRepeat \/ SemaUp
Progress == SemaDownTake \/ SemaDownWait \/ AcquireHolder \/ AcquireRepeat

SyncFairness ==
    /\ SF_syncVars(Clock)
    /\ WF_syncVars(IdleStep)
    /\ \A t \in Threads \ {Idle} :
           /\ SF_syncVars(cur = t /\ repeat <= 1 /\ Release)
           /\ SF_syncVars(cur = t /\ repeat > 1 /\ Release)
           /\ SF_syncVars(cur = t /\ Progress)
           /\ SF_syncVars(cur = t /\ ~intr[t] /\ SwitchMode)
           /\ SF_syncVars(DeviceDone(t))

SyncFairSpec == SyncSpec /\ SyncFairness

----------------------------------------------------------------------------
SyncTypeOK ==
    /\ TypeOK
    /\ value \in Nat
    /\ waiters \in Seq(Threads)
    /\ holder \in Threads \cup {NoThread}
    /\ repeat \in Nat
    /\ pc \in [Threads -> Places]

(* At most one thread is between its sema_down and its sema_up. *)
MutualExclusion ==
    \A t, u \in Threads : pc[t] \in Owning /\ pc[u] \in Owning => t = u

(* general_tag is the one link field for both kinds of list: a thread is   *)
(* never in the ready list and in a waiter list at once, never twice in a  *)
(* waiter list, and everybody in a waiter list is blocked.                 *)
TagInOneList ==
    /\ NoRepeats(waiters)
    /\ \A t \in Elems(waiters) : /\ t \notin Elems(ready)
                                 /\ status[t] = "TASK_BLOCKED"
                                 /\ pc[t] = "retry"

(* No lost wakeup: when the lock is free and threads wait for it, a thread *)
(* that sema_up took out of the queue is on its way to test the value.     *)
NoLostWakeup ==
    value = 1 /\ waiters # <<>> =>
        \E t \in Threads : /\ pc[t] = "retry" /\ t \notin Elems(waiters)
                           /\ status[t] \in {"TASK_READY", "TASK_RUNNING"}

(* The strengthening that makes these inductive: the value, the holder and *)
(* the nesting depth follow from where the one owner is, and a thread in   *)
(* the loop of sema_down either waits or can run.                          *)
ValueExact ==
    /\ value \in {0, 1}
    /\ value = 0 <=> \E t \in Threads : pc[t] \in Owning
HolderExact ==
    \A t \in Threads : holder = t <=> pc[t] \in {"named", "held", "drop"}
RepeatExact ==
    /\ value = 1 => repeat = 0
    /\ \A t \in Threads : /\ pc[t] \in {"took", "named", "up"} => repeat = 0
                          /\ pc[t] = "held" => repeat >= 1
                          /\ pc[t] \in {"drop", "unnamed"} => repeat = 1
RetryRuns ==
    \A t \in Threads : pc[t] = "retry" /\ t \notin Elems(waiters) =>
                           status[t] \in {"TASK_READY", "TASK_RUNNING"}

SyncInv ==
    /\ SchedInv
    /\ SyncTypeOK
    /\ MutualExclusion
    /\ ValueExact
    /\ HolderExact
    /\ RepeatExact
    /\ TagInOneList
    /\ RetryRuns
    /\ NoLostWakeup
    /\ pc[Idle] = "out"

(* The queue is served in order: a waiting thread is woken some time.      *)
WaiterIsWoken ==
    \A t \in Threads : t \in Elems(waiters) ~> t \notin Elems(waiters)

(* The lock implements the abstract mutex: the owner is the thread between *)
(* its sema_down and its sema_up, and holder_repeat_nr counts its depth    *)
(* while it has the lock in use.                                           *)
OwnerNow == IF \E t \in Threads : pc[t] \in Owning
            THEN CHOOSE t \in Threads : pc[t] \in Owning
            ELSE NoThread
DepthNow == IF OwnerNow = NoThread THEN 0
            ELSE IF pc[OwnerNow] = "held" THEN repeat ELSE 1

M == INSTANCE Mutex WITH owner <- OwnerNow, depth <- DepthNow

ImplementsMutex == M!MutexSpec
=============================================================================
