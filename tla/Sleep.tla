------------------------------- MODULE Sleep -------------------------------
(***************************************************************************)
(* mtime_sleep of device/timer.c on top of the scheduler: a thread yields  *)
(* the processor until the clock handler has counted enough ticks.  All    *)
(* that the other threads can do to the scheduler goes on meanwhile.       *)
(***************************************************************************)
EXTENDS Sched

CONSTANTS Sleepers,     \* the threads whose code calls mtime_sleep
          MaxSleep      \* bound: the longest sleep, in ticks

ASSUME SleepAssumption ==
    /\ Sleepers \subseteq Threads \ {Idle}
    /\ MaxSleep \in Nat \ {0}

VARIABLE left       \* left[t]: the ticks ticks_to_sleep still has to wait for,
                    \* sleep_ticks - (ticks - start_tick), 0 when not sleeping

sleepVars == <<schedVars, left>>

SleepInit == Init /\ left = [t \in Threads |-> 0]

(* Mutant of ClockTick: the handler counts only the ticks after which the  *)
(* interrupted thread goes on.                                             *)
ClockTickKept ==
    /\ Timer
    /\ left' = [t \in Threads |-> IF left[t] > 0 /\ ticks[cur] > 1
                                  THEN left[t] - 1 ELSE left[t]]

(* ticks++ in the clock handler brings every sleeper nearer its end.       *)
ClockTick ==
    /\ Timer
    /\ left' = [t \in Threads |-> IF left[t] > 0 THEN left[t] - 1 ELSE 0]

(* mtime_sleep: the duration is rounded up to at least one tick.           *)
SleepCall(n) ==
    /\ ~panic
    /\ cur \in Sleepers /\ left[cur] = 0
    /\ left' = [left EXCEPT ![cur] = n]
    /\ UNCHANGED schedVars

(* One round of the loop of ticks_to_sleep. *)
SleepYield ==
    /\ left[cur] > 0
    /\ CallYield
    /\ UNCHANGED left

(* Whatever a thread that is not asleep does to the scheduler. *)
OtherStep ==
    /\ left[cur] = 0
    /\ \/ IdleBlock
       \/ IdleHalt
       \/ CallYield
       \/ EnterKernel
       \/ LeaveKernel
       \/ ExitMain
       \/ \E stat \in Sleeping : CallBlock(stat)
       \/ \E t \in Threads : CallUnblock(t)
       \/ \E t \in Threads : Start(t)
       \/ \E t \in Threads : Reap(t)
    /\ UNCHANGED left

DeviceStep ==
    /\ \E t \in Threads : DeviceIntr(t)
    /\ UNCHANGED left

SleepNext ==
    \/ ClockTick
    \/ SleepYield
    \/ OtherStep
    \/ DeviceStep
    \/ \E n \in 1 .. MaxSleep : SleepCall(n)

SleepSpec == SleepInit /\ [][SleepNext]_sleepVars

(* The clock ticks whenever interrupts are let in again and again; every   *)
(* thread that gets the processor goes on with its loop or, outside of it, *)
(* leaves the kernel some time.                                            *)
SleepFairSpec ==
    /\ SleepSpec
    /\ SF_sleepVars(ClockTick)
    /\ WF_sleepVars((IdleBlock \/ IdleHalt) /\ UNCHANGED left)
    /\ \A t \in Sleepers : SF_sleepVars(cur = t /\ SleepYield)
    /\ \A t \in Threads \ {Idle} :
           SF_sleepVars(cur = t /\ left[t] = 0 /\ LeaveKernel /\ UNCHANGED left)

(* A thread that sleeps with interrupts on (none is lost to it) wakes up,  *)
(* whatever the others do, even when they sleep with interrupts off.       *)
SleepEndsWithInterrupts ==
    \A t \in Sleepers : left[t] > 0 /\ intr[t] ~> left[t] = 0

=============================================================================
