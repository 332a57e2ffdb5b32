--------------------------------- MODULE Ide ---------------------------------
(***************************************************************************)
(* ide_read and ide_write of device/ide.c on one channel, with the handler *)
(* of its interrupt.  System calls reach them with interrupts off: a thread*)
(* keeps the processor (`busy') until it sleeps on the lock of the channel *)
(* (a mutex, module Mutex), on disk_done, or in the mtime_sleep of         *)
(* busy_wait.  The interrupt can only be taken when nobody is busy.        *)
(*                                                                         *)
(* The disk itself is external.  A command makes it busy and takes back an *)
(* interrupt that is still pending; a read ends with DRQ and an interrupt, *)
(* a write with DRQ and, after the data, an interrupt; each further sector *)
(* of a read raises an interrupt again.  A request covers the sectors from *)
(* 0 on, and a write stores the name of its thread in each.                *)
(***************************************************************************)
EXTENDS Integers, FiniteSets

CONSTANTS Threads, None,
          MaxSecs,      \* bound: the sectors of one request
          Chunk,        \* 256, the most one command can transfer
          TimeLimit     \* 30 * 1000, the budget of busy_wait in milliseconds

ASSUME IdeAssumption ==
    /\ None \notin Threads
    /\ MaxSecs \in Nat \ {0} /\ Chunk \in Nat \ {0} /\ TimeLimit \in Nat \ {0}

VARIABLES owner,        \* holder of channel.lock
          expecting,    \* channel.expecting_intr
          done,         \* channel.disk_done.value
          busy,         \* the thread that runs in the kernel
          pc, op, cnt,  \* next statement, kind and sec_cnt of its request
          secs_done,
          limit,        \* time_limit of busy_wait
          buf,          \* buf[t][i]: what t has read from sector i
          disk,         \* the contents of the sectors
          dev,          \* state of the disk: [st, op, lba, n]
          irq,          \* an interrupt is pending
          panic

ideVars == <<owner, expecting, done, busy, pc, op, cnt, secs_done, limit, buf,
             disk, dev, irq, panic>>
request == <<op, cnt>>
channel == <<owner, expecting, done>>
device == <<disk, dev, irq>>

Sectors == 0 .. MaxSecs - 1
NoCommand == [st |-> "idle", op |-> "none", lba |-> 0, n |-> 0]

IdeInit ==
    /\ owner = None /\ expecting = FALSE /\ done = 0 /\ busy = None
    /\ pc = [t \in Threads |-> "user"]
    /\ op = [t \in Threads |-> "none"]
    /\ cnt = [t \in Threads |-> 0]
    /\ secs_done = [t \in Threads |-> 0]
    /\ limit = [t \in Threads |-> 0]
    /\ buf = [t \in Threads |-> [i \in Sectors |-> None]]
    /\ disk = [i \in Sectors |-> None]
    /\ dev = NoCommand
    /\ irq = FALSE
    /\ panic = FALSE

At(t, place) == ~panic /\ busy = t /\ pc[t] = place
Goto(t, place) == pc' = [pc EXCEPT ![t] = place]

(* secs_op of the loop. *)
SecsOp(t) == IF secs_done[t] + Chunk <= cnt[t] THEN Chunk ELSE cnt[t] - secs_done[t]

(* The 8 bit register and the uint8_t parameter of read_from_sector and    *)
(* write2sector: 256 becomes 0, and 0 stands for 256.                      *)
SecCnt(n) == IF n % Chunk = 0 THEN Chunk ELSE n % Chunk
----------------------------------------------------------------------------
(* Mutant: the lock is not taken. *)
IdeCallUnlocked(t, kind, n) ==
    /\ ~panic /\ busy = None /\ pc[t] = "user"
    /\ op' = [op EXCEPT ![t] = kind]
    /\ cnt' = [cnt EXCEPT ![t] = n]
    /\ secs_done' = [secs_done EXCEPT ![t] = 0]
    /\ Goto(t, "cmd") /\ owner' = t /\ busy' = t
    /\ UNCHANGED <<expecting, done, limit, buf, device, panic>>

(* ide_read or ide_write up to lock_acquire. *)
IdeCall(t, kind, n) ==
    /\ ~panic /\ busy = None /\ pc[t] = "user"
    /\ op' = [op EXCEPT ![t] = kind]
    /\ cnt' = [cnt EXCEPT ![t] = n]
    /\ secs_done' = [secs_done EXCEPT ![t] = 0]
    /\ \/ owner = None /\ Goto(t, "cmd") /\ owner' = t /\ busy' = t
       \/ owner # None /\ Goto(t, "lock") /\ UNCHANGED <<owner, busy>>
    /\ UNCHANGED <<expecting, done, limit, buf, device, panic>>

LockGranted(t) ==
    /\ ~panic /\ busy = None /\ owner = None /\ pc[t] = "lock"
    /\ owner' = t /\ busy' = t
    /\ Goto(t, "cmd")
    /\ UNCHANGED <<expecting, done, request, secs_done, limit, buf, device, panic>>

(* Mutant: every command starts at the first sector of the request. *)
CmdOutSameLba(t) ==
    /\ At(t, "cmd")
    /\ expecting' = TRUE
    /\ dev' = [st |-> "busy", op |-> op[t], lba |-> 0, n |-> SecCnt(SecsOp(t))]
    /\ irq' = FALSE
    /\ limit' = [limit EXCEPT ![t] = TimeLimit]
    /\ Goto(t, IF op[t] = "read" THEN "down" ELSE "poll")
    /\ UNCHANGED <<owner, done, busy, request, secs_done, buf, disk, panic>>

(* select_sector and cmd_out.  A read now waits for the interrupt, a write *)
(* for DRQ.                                                                *)
CmdOut(t) ==
    /\ At(t, "cmd")
    /\ expecting' = TRUE
    /\ dev' = [st |-> "busy", op |-> op[t], lba |-> secs_done[t],
               n |-> SecCnt(SecsOp(t))]
    /\ irq' = FALSE
    /\ limit' = [limit EXCEPT ![t] = TimeLimit]
    /\ Goto(t, IF op[t] = "read" THEN "down" ELSE "poll")
    /\ UNCHANGED <<owner, done, busy, request, secs_done, buf, disk, panic>>

(* sema_down(&disk_done): block, or go on to the data of a read and to the *)
(* end of a write.                                                         *)
SemaDown(t) ==
    /\ At(t, "down")
    /\ \/ /\ done = 0
          /\ Goto(t, "asleep") /\ busy' = None /\ UNCHANGED done
       \/ /\ done > 0 /\ done' = done - 1
          /\ Goto(t, IF op[t] = "read" THEN "poll" ELSE "next") /\ UNCHANGED busy
    /\ UNCHANGED <<owner, expecting, request, secs_done, limit, buf, device, panic>>

(* Back on the processor: sema_down tests the value again, busy_wait the   *)
(* status.                                                                 *)
Resume(t) ==
    /\ ~panic /\ busy = None /\ pc[t] \in {"woken", "slept"}
    /\ busy' = t
    /\ Goto(t, IF pc[t] = "woken" THEN "down" ELSE "poll")
    /\ UNCHANGED <<channel, request, secs_done, limit, buf, device, panic>>

(* One round of busy_wait.  `time_limit -= 10 >= 0' takes 1 from the       *)
(* limit.  PANIC when time is up or the disk is ready without data.        *)
BusyWait(t) ==
    /\ At(t, "poll")
    /\ limit' = [limit EXCEPT ![t] = @ - 1]
    /\ \/ /\ limit[t] > 1 /\ dev.st = "busy"
          /\ Goto(t, "slept") /\ busy' = None /\ UNCHANGED panic
       \/ /\ limit[t] > 1 /\ dev.st = "drq"
          /\ Goto(t, "xfer") /\ UNCHANGED <<busy, panic>>
       \/ /\ limit[t] <= 1 \/ dev.st \notin {"busy", "drq"}
          /\ panic' = TRUE /\ UNCHANGED <<busy, pc>>
    /\ UNCHANGED <<channel, request, secs_done, buf, device>>

(* read_from_sector or write2sector. *)
Transfer(t) ==
    /\ At(t, "xfer")
    /\ LET run == {i \in Sectors : i >= dev.lba /\ i < dev.lba + dev.n}
       IN  \/ /\ op[t] = "read"
              /\ buf' = [buf EXCEPT ![t] = [i \in Sectors |->
                     IF i \in secs_done[t] .. secs_done[t] + SecCnt(SecsOp(t)) - 1
                     THEN disk[i - secs_done[t] + dev.lba] ELSE buf[t][i]]]
              /\ dev' = NoCommand
              /\ irq' = (irq \/ dev.n > 1)
              /\ Goto(t, "next") /\ UNCHANGED disk
           \/ /\ op[t] = "write"
              /\ disk' = [i \in Sectors |-> IF i \in run THEN t ELSE disk[i]]
              /\ dev' = [dev EXCEPT !.st = "writing"]
              /\ Goto(t, "down") /\ UNCHANGED <<buf, irq>>
    /\ UNCHANGED <<channel, busy, request, secs_done, limit, panic>>

(* secs_done += secs_op, and the next command or lock_release.  After that *)
(* the variables of the call are gone, and the buffer is its caller's.     *)
NextChunk(t) ==
    /\ At(t, "next")
    /\ \/ /\ secs_done[t] + SecsOp(t) < cnt[t]
          /\ secs_done' = [secs_done EXCEPT ![t] = @ + SecsOp(t)]
          /\ Goto(t, "cmd")
          /\ UNCHANGED <<owner, busy, request, buf>>
       \/ /\ secs_done[t] + SecsOp(t) >= cnt[t]
          /\ secs_done' = [secs_done EXCEPT ![t] = 0]
          /\ op' = [op EXCEPT ![t] = "none"] /\ cnt' = [cnt EXCEPT ![t] = 0]
          /\ buf' = [buf EXCEPT ![t] = [i \in Sectors |-> None]]
          /\ Goto(t, "user") /\ owner' = None /\ busy' = None
    /\ limit' = [limit EXCEPT ![t] = 0]
    /\ UNCHANGED <<expecting, done, device, panic>>

(* Mutant: the handler does not wake the thread. *)
IntrHdHandlerMute ==
    /\ ~panic /\ busy = None /\ irq
    /\ irq' = FALSE
    /\ expecting' = FALSE
    /\ UNCHANGED <<owner, done, pc, busy, request, secs_done, limit, buf, disk, dev, panic>>

(* intr_hd_handler: an interrupt nobody expects is ignored; the other one  *)
(* is sema_up(&disk_done), which wakes the thread that waits.              *)
IntrHdHandler ==
    /\ ~panic /\ busy = None /\ irq
    /\ irq' = FALSE
    /\ \/ /\ expecting
          /\ expecting' = FALSE
          /\ done' = done + 1
          /\ pc' = [t \in Threads |-> IF pc[t] = "asleep" THEN "woken" ELSE pc[t]]
       \/ ~expecting /\ UNCHANGED <<expecting, done, pc>>
    /\ UNCHANGED <<owner, busy, request, secs_done, limit, buf, disk, dev, panic>>

----------------------------------------------------------------------------
(* External: the disk. *)
DiskReady ==
    /\ ~panic /\ dev.st = "busy"
    /\ dev' = [dev EXCEPT !.st = "drq"]
    /\ irq' = (irq \/ dev.op = "read")
    /\ UNCHANGED <<channel, busy, pc, request, secs_done, limit, buf, disk, panic>>

DiskWritten ==
    /\ ~panic /\ dev.st = "writing"
    /\ dev' = NoCommand
    /\ irq' = TRUE
    /\ UNCHANGED <<channel, busy, pc, request, secs_done, limit, buf, disk, panic>>

DiskFails ==
    /\ ~panic /\ dev.st = "busy"
    /\ dev' = [dev EXCEPT !.st = "error"]
    /\ irq' = TRUE
    /\ UNCHANGED <<channel, busy, pc, request, secs_done, limit, buf, disk, panic>>

Step(t) ==
    \/ LockGranted(t) \/ CmdOut(t) \/ SemaDown(t) \/ Resume(t)
    \/ BusyWait(t) \/ Transfer(t) \/ NextChunk(t)

IdeNext ==
    \/ \E t \in Threads, kind \in {"read", "write"}, n \in 1 .. MaxSecs :
          IdeCall(t, kind, n)
    \/ \E t \in Threads : Step(t)
    \/ IntrHdHandler
    \/ DiskReady
    \/ DiskWritten
    \/ DiskFails

IdeSpec == IdeInit /\ [][IdeNext]_ideVars

(* Threads that can run do run (ReadyRuns of module Sched), interrupts are *)
(* taken, and the disk ends every command.                                 *)
IdeFairSpec ==
    /\ IdeSpec
    /\ \A t \in Threads : SF_ideVars(Step(t))
    /\ SF_ideVars(IntrHdHandler)
    /\ WF_ideVars(DiskReady)
    /\ WF_ideVars(DiskWritten)

----------------------------------------------------------------------------
Places == {"user", "lock", "cmd", "down", "asleep", "woken", "poll", "slept",
           "xfer", "next"}

DevStates == [st : {"idle", "busy", "drq", "writing", "error"},
              op : {"none", "read", "write"}, lba : Sectors, n : 0 .. Chunk]

FlagsOK == expecting \in BOOLEAN /\ irq \in BOOLEAN /\ panic \in BOOLEAN

IdeTypeOK ==
    /\ {owner, busy} \subseteq Threads \cup {None}
    /\ FlagsOK
    /\ done \in {0, 1}
    /\ pc \in [Threads -> Places]
    /\ op \in [Threads -> {"none", "read", "write"}]
    /\ cnt \in [Threads -> 0 .. MaxSecs]
    /\ secs_done \in [Threads -> 0 .. MaxSecs]
    /\ limit \in [Threads -> 0 .. TimeLimit]
    /\ buf \in [Threads -> [Sectors -> Threads \cup {None}]]
    /\ disk \in [Sectors -> Threads \cup {None}]
    /\ dev \in DevStates

(* "each access takes the lock, which keeps the two in step" (ide.c:329):  *)
(* a thread gives a command to a disk that has ended the one before, with  *)
(* no interrupt still expected and no completion left over in disk_done.   *)
CommandInStep ==
    \A t \in Threads : At(t, "cmd") =>
        dev.st = "idle" /\ ~expecting /\ done = 0

(* The data of a thread's request, and of no other, are what the disk is   *)
(* about to transfer, so long requests are neither torn nor misplaced.     *)
TransferMatches ==
    \A t \in Threads : At(t, "xfer") =>
        /\ dev.op = op[t] /\ dev.lba = secs_done[t] /\ dev.n = SecsOp(t)

(* A read of several commands sees one state of the disk, although other   *)
(* threads write the same sectors: all it has read so far, and so what it  *)
(* returns, is what is on the disk now.                                    *)
ReadSoFar(t) == secs_done[t] + (IF pc[t] = "next" THEN SecsOp(t) ELSE 0)
NoTornRead ==
    \A t \in Threads : op[t] = "read" =>
        \A i \in Sectors : i < ReadSoFar(t) => buf[t][i] = disk[i]

(* The driver only stops the machine when the disk fails or is too slow.   *)
OnlyDiskStops ==
    panic => dev.st = "error" \/ \E t \in Threads : busy = t /\ limit[t] = 0

(* The thread inside the loop of ide_read or ide_write, and only it, has   *)
(* the lock; it has sectors left to transfer and time left in busy_wait.   *)
OwnerInLoop ==
    \A t \in Threads :
        /\ owner = t <=> pc[t] \notin {"user", "lock"}
        /\ op[t] # "none" <=> pc[t] # "user"
        /\ pc[t] # "user" => secs_done[t] < cnt[t]
        /\ pc[t] = "lock" => secs_done[t] = 0
        /\ pc[t] \in {"down", "asleep", "woken", "poll", "slept", "xfer"} /\ ~panic =>
             limit[t] > 0

(* What the driver and the disk know of one command: no interrupt yet, an  *)
(* interrupt the handler has not taken, one it has turned into a           *)
(* completion, or nothing to wait for.                                     *)
Running == expecting /\ ~irq /\ done = 0
Raised == expecting /\ irq /\ done = 0
Answered == ~expecting /\ ~irq /\ done = 1
Quiet == ~expecting /\ done = 0

(* The disk has the command of t that covers the next part of its request. *)
Commanded(t) == dev.op = op[t] /\ dev.lba = secs_done[t] /\ dev.n = SecsOp(t)

(* The places of the loop at which t waits for the disk, and the state of  *)
(* the disk there.                                                         *)
ReadWaits(t) ==
    /\ pc[t] \in {"down", "asleep", "woken", "poll", "xfer"} => Commanded(t)
    /\ pc[t] \in {"down", "asleep", "woken"} =>
         \/ dev.st = "busy" /\ Running
         \/ dev.st \in {"drq", "error"} /\ (Raised \/ Answered)
    /\ pc[t] = "poll" => dev.st \in {"drq", "error"} /\ Quiet /\ ~irq
    /\ pc[t] = "xfer" => dev.st = "drq" /\ Quiet /\ ~irq
    /\ pc[t] # "slept"
WriteWaits(t) ==
    /\ pc[t] \in {"poll", "slept", "xfer"} => Commanded(t)
    /\ pc[t] \in {"poll", "slept"} =>
         \/ dev.st \in {"busy", "drq"} /\ Running
         \/ dev.st = "error" /\ (Raised \/ Answered)
    /\ pc[t] = "xfer" => dev.st = "drq" /\ Running
    /\ pc[t] \in {"down", "asleep", "woken"} =>
         \/ dev.st = "writing" /\ Running
         \/ dev.st = "idle" /\ (Raised \/ Answered)

(* The disk is idle and nobody expects an interrupt while nobody has the   *)
(* lock; the thread that has it waits for its own command, and is woken by *)
(* the completion of that command only.                                    *)
Handshake ==
    /\ owner = None => dev.st = "idle" /\ Quiet
    /\ \A t \in Threads : owner = t =>
         /\ pc[t] \in {"cmd", "next"} => dev.st = "idle" /\ Quiet
         /\ op[t] = "read" => ReadWaits(t)
         /\ op[t] = "write" => WriteWaits(t)
         /\ pc[t] = "asleep" => expecting
         /\ pc[t] = "woken" => done = 1

(* Commands, data and interrupts stay in step, and only the disk makes     *)
(* the driver stop the machine.                                            *)
IdeInStep ==
    /\ IdeTypeOK
    /\ OwnerInLoop
    /\ Handshake
    /\ CommandInStep
    /\ TransferMatches
    /\ OnlyDiskStops

(* Every request is served, unless the disk fails or is too slow and     *)
(* the driver stops the machine.                                           *)
RequestEnds ==
    \A t \in Threads : pc[t] # "user" ~> pc[t] = "user" \/ panic
=============================================================================
