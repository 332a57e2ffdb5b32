----------------------------- MODULE DiskProofs -----------------------------
(***************************************************************************)
(* Proofs about the two parts that share the disk.  The driver, for any    *)
(* number of threads, any length of request and any chunk size: driver,    *)
(* handler and disk stay in step, and no read is torn.  The directory tree *)
(* on disk, for any number of processes, names, inodes, blocks, entries    *)
(* and crashes: calls that do not overtake each other keep it in order, a  *)
(* crash hurts only while an entry is ahead of what belongs to it, and     *)
(* what has been created is on disk when the call has returned.            *)
(***************************************************************************)
EXTENDS Ide, Dir, FiniteSetTheorems, NaturalsInduction, WellFoundedInduction, TLAPS

-----------------------------------------------------------------------------
(* The driver.                                                             *)

USE IdeAssumption

(* The inductive invariant.  CommandInStep and TransferMatches follow from *)
(* Handshake.                                                              *)
IdeInv == IdeTypeOK /\ OwnerInLoop /\ Handshake /\ OnlyDiskStops

(* The count of one command: at least one sector, no more than the 8 bit   *)
(* register can say, and inside the request (ide.c:159).                   *)
LEMMA SecsOpBounds ==
    ASSUME IdeTypeOK, NEW t \in Threads, secs_done[t] < cnt[t]
    PROVE  /\ SecsOp(t) \in 1 .. Chunk
           /\ secs_done[t] + SecsOp(t) <= cnt[t]
           /\ secs_done[t] \in Sectors
  BY DEF IdeTypeOK, SecsOp, Sectors

(* The register says 0 for a full chunk and the transfer takes 0 for one:  *)
(* the count survives the conversion (ide.c:84, ide.c:111).                *)
LEMMA SecCntExact == ASSUME NEW n \in 1 .. Chunk PROVE SecCnt(n) = n
  <1>1. CASE n < Chunk
    <2>1. n % Chunk = n
      BY <1>1, SMT
    <2> QED
      BY <2>1 DEF SecCnt
  <1>2. CASE n = Chunk
    <2>1. Chunk % Chunk = 0
      BY SMT
    <2> QED
      BY <1>2, <2>1 DEF SecCnt
  <1> QED
    BY <1>1, <1>2

LEMMA IdeInitInv == IdeInit => IdeInv
  <1> SUFFICES ASSUME IdeInit PROVE IdeInv
    OBVIOUS
  <1>0. 0 \in Sectors
    BY DEF Sectors
  <1>1. IdeTypeOK
    <2>1. dev \in DevStates
      BY <1>0 DEF IdeInit, NoCommand, DevStates
    <2>2. buf \in [Threads -> [Sectors -> Threads \cup {None}]]
      BY DEF IdeInit
    <2>3. FlagsOK
      BY Zenon DEF IdeInit, FlagsOK
    <2> QED
      BY <2>1, <2>2, <2>3 DEF IdeInit, IdeTypeOK, Places
  <1>2. OwnerInLoop /\ Handshake /\ OnlyDiskStops
    BY DEF IdeInit, OwnerInLoop, Handshake, OnlyDiskStops, NoCommand, Quiet
  <1> QED
    BY <1>1, <1>2 DEF IdeInv

(* A call takes the lock while the disk is idle, or waits for it.          *)
LEMMA IdeCallInv ==
    ASSUME IdeInv, NEW t \in Threads, NEW kind \in {"read", "write"}, NEW n \in 1 .. MaxSecs,
           IdeCall(t, kind, n)
    PROVE  IdeInv'
  <1>f. FlagsOK'
    BY Zenon DEF IdeInv, IdeTypeOK, FlagsOK, IdeCall, device
  <1>1. IdeTypeOK'
    BY <1>f DEF IdeInv, IdeTypeOK, IdeCall, Goto, Places, device
  <1>2. OwnerInLoop'
    BY DEF IdeInv, IdeTypeOK, OwnerInLoop, IdeCall, Goto, Places, device
  <1>3. Handshake'
    BY DEF IdeInv, IdeTypeOK, OwnerInLoop, Handshake, ReadWaits, WriteWaits,
           Commanded, Running, Raised, Answered, Quiet, SecsOp, DevStates, IdeCall, Goto, Places, device
  <1>4. OnlyDiskStops'
    BY DEF IdeInv, IdeTypeOK, OnlyDiskStops, IdeCall, Goto, Places, device
  <1> QED
    BY <1>1, <1>2, <1>3, <1>4 DEF IdeInv

(* So does a thread that waited for the lock.                              *)
LEMMA LockGrantedInv ==
    ASSUME IdeInv, NEW t \in Threads, LockGranted(t)
    PROVE  IdeInv'
  <1>f. FlagsOK'
    BY Zenon DEF IdeInv, IdeTypeOK, FlagsOK, LockGranted, device
  <1>1. IdeTypeOK'
    BY <1>f DEF IdeInv, IdeTypeOK, LockGranted, Goto, Places, device, request
  <1>2. OwnerInLoop'
    BY DEF IdeInv, IdeTypeOK, OwnerInLoop, LockGranted, Goto, Places, device, request
  <1>3. Handshake'
    BY DEF IdeInv, IdeTypeOK, OwnerInLoop, Handshake, ReadWaits, WriteWaits,
           Commanded, Running, Raised, Answered, Quiet, SecsOp, DevStates, LockGranted, Goto, Places, device, request
  <1>4. OnlyDiskStops'
    BY DEF IdeInv, IdeTypeOK, OnlyDiskStops, LockGranted, Goto, Places, device, request
  <1> QED
    BY <1>1, <1>2, <1>3, <1>4 DEF IdeInv

(* A command finds the disk idle, and takes back the interrupt of the last *)
(* sectors of a read.                                                      *)
LEMMA CmdOutInv ==
    ASSUME IdeInv, NEW t \in Threads, CmdOut(t)
    PROVE  IdeInv'
  <1>0. /\ op[t] # "none" /\ secs_done[t] < cnt[t]
        /\ SecsOp(t) \in 1 .. Chunk /\ secs_done[t] \in Sectors
        /\ secs_done[t] + SecsOp(t) <= cnt[t]
        /\ SecCnt(SecsOp(t)) = SecsOp(t)
    BY SecsOpBounds, SecCntExact DEF IdeInv, OwnerInLoop, At, CmdOut
  <1>f. FlagsOK'
    BY Zenon DEF IdeInv, IdeTypeOK, FlagsOK, CmdOut
  <1>1. IdeTypeOK'
    <2>1. dev' \in DevStates
      BY <1>0 DEF IdeInv, IdeTypeOK, CmdOut, DevStates
    <2> QED
      BY <1>f, <2>1 DEF IdeInv, IdeTypeOK, CmdOut, At, Goto, Places, request
  <1>2. OwnerInLoop'
    BY <1>0 DEF IdeInv, IdeTypeOK, OwnerInLoop, CmdOut, At, Goto, Places, request
  <1>3. Handshake'
    BY <1>0 DEF IdeInv, IdeTypeOK, OwnerInLoop, Handshake, ReadWaits, WriteWaits,
           Commanded, Running, Raised, Answered, Quiet, SecsOp, DevStates, CmdOut, At, Goto, Places, request
  <1>4. OnlyDiskStops'
    BY <1>0 DEF IdeInv, IdeTypeOK, OnlyDiskStops, CmdOut, At, Goto, Places, request
  <1> QED
    BY <1>1, <1>2, <1>3, <1>4 DEF IdeInv

(* A thread that finds disk_done at 0 still has its interrupt to come.     *)
LEMMA SemaDownInv ==
    ASSUME IdeInv, NEW t \in Threads, SemaDown(t)
    PROVE  IdeInv'
  <1>f. FlagsOK'
    BY Zenon DEF IdeInv, IdeTypeOK, FlagsOK, SemaDown, device
  <1>1. IdeTypeOK'
    BY <1>f DEF IdeInv, IdeTypeOK, SemaDown, At, Goto, Places, request, device
  <1>2. OwnerInLoop'
    BY DEF IdeInv, IdeTypeOK, OwnerInLoop, SemaDown, At, Goto, Places, request, device
  <1>3. Handshake'
    BY DEF IdeInv, IdeTypeOK, OwnerInLoop, Handshake, ReadWaits, WriteWaits,
           Commanded, Running, Raised, Answered, Quiet, SecsOp, DevStates, SemaDown, At, Goto, Places, request, device
  <1>4. OnlyDiskStops'
    BY DEF IdeInv, IdeTypeOK, OnlyDiskStops, SemaDown, At, Goto, Places, request, device
  <1> QED
    BY <1>1, <1>2, <1>3, <1>4 DEF IdeInv

(* A woken thread finds its completion.                                    *)
LEMMA ResumeInv ==
    ASSUME IdeInv, NEW t \in Threads, Resume(t)
    PROVE  IdeInv'
  <1>f. FlagsOK'
    BY Zenon DEF IdeInv, IdeTypeOK, FlagsOK, Resume, device, channel
  <1>1. IdeTypeOK'
    BY <1>f DEF IdeInv, IdeTypeOK, Resume, Goto, Places, request, device, channel
  <1>2. OwnerInLoop'
    BY DEF IdeInv, IdeTypeOK, OwnerInLoop, Resume, Goto, Places, request, device, channel
  <1>3. Handshake'
    BY DEF IdeInv, IdeTypeOK, OwnerInLoop, Handshake, ReadWaits, WriteWaits,
           Commanded, Running, Raised, Answered, Quiet, SecsOp, DevStates, Resume, Goto, Places, request, device, channel
  <1>4. OnlyDiskStops'
    BY DEF IdeInv, IdeTypeOK, OnlyDiskStops, Resume, Goto, Places, request, device, channel
  <1> QED
    BY <1>1, <1>2, <1>3, <1>4 DEF IdeInv

(* busy_wait ends with the data of the command, or stops the machine.      *)
LEMMA BusyWaitInv ==
    ASSUME IdeInv, NEW t \in Threads, BusyWait(t)
    PROVE  IdeInv'
  <1>0. limit[t] \in 1 .. TimeLimit
    BY DEF IdeInv, IdeTypeOK, OwnerInLoop, BusyWait, At
  <1>f. FlagsOK'
    BY Zenon DEF IdeInv, IdeTypeOK, FlagsOK, BusyWait, device, channel
  <1>1. IdeTypeOK'
    BY <1>f, <1>0 DEF IdeInv, IdeTypeOK, BusyWait, At, Goto, Places, request, device, channel
  <1>2. OwnerInLoop'
    BY DEF IdeInv, IdeTypeOK, OwnerInLoop, BusyWait, At, Goto, Places, request, device, channel
  <1>3. Handshake'
    BY DEF IdeInv, IdeTypeOK, OwnerInLoop, Handshake, ReadWaits, WriteWaits,
           Commanded, Running, Raised, Answered, Quiet, SecsOp, DevStates, BusyWait, At, Goto, Places, request, device, channel
  <1>4. OnlyDiskStops'
    <2>1. owner = t /\ dev.st \in {"busy", "drq", "error"}
      BY DEF IdeInv, IdeTypeOK, OwnerInLoop, Handshake, ReadWaits, WriteWaits, BusyWait, At
    <2>2. busy = t /\ limit'[t] = limit[t] - 1 /\ dev' = dev /\ ~panic
      BY DEF IdeInv, IdeTypeOK, BusyWait, At, device
    <2>3. panic' => busy' = t /\ (limit[t] <= 1 \/ dev.st \notin {"busy", "drq"})
      BY <2>2, Zenon DEF BusyWait
    <2> QED
      BY <1>0, <2>1, <2>2, <2>3 DEF OnlyDiskStops
  <1> QED
    BY <1>1, <1>2, <1>3, <1>4 DEF IdeInv

(* The transfer ends a read; after it a write waits for its interrupt.     *)
LEMMA TransferInv ==
    ASSUME IdeInv, NEW t \in Threads, Transfer(t)
    PROVE  IdeInv'
  <1>0. /\ op[t] # "none" /\ secs_done[t] < cnt[t]
        /\ SecsOp(t) \in 1 .. Chunk /\ secs_done[t] \in Sectors
        /\ secs_done[t] + SecsOp(t) <= cnt[t]
        /\ SecCnt(SecsOp(t)) = SecsOp(t)
    BY SecsOpBounds, SecCntExact DEF IdeInv, OwnerInLoop, At, Transfer
  <1>f. FlagsOK'
    BY Zenon DEF IdeInv, IdeTypeOK, FlagsOK, Transfer, channel
  <1>1. IdeTypeOK'
    <2>1. dev' \in DevStates
      <3>1. dev \in DevStates
        BY DEF IdeInv, IdeTypeOK
      <3>2. dev' = NoCommand \/ dev' = [dev EXCEPT !.st = "writing"]
        BY DEF Transfer
      <3>3. NoCommand \in DevStates
        BY DEF NoCommand, DevStates, Sectors
      <3>4. [dev EXCEPT !.st = "writing"] \in DevStates
        BY <3>1 DEF DevStates
      <3> QED
        BY <3>2, <3>3, <3>4
    <2>2. disk' \in [Sectors -> Threads \cup {None}]
      BY DEF IdeInv, IdeTypeOK, Transfer
    <2>3. buf' \in [Threads -> [Sectors -> Threads \cup {None}]]
      <3>1. CASE op[t] = "read"
        <4>1. dev.lba = secs_done[t]
          BY <3>1 DEF IdeInv, OwnerInLoop, Handshake, ReadWaits, Commanded, Transfer, At
        <4>2. \A i \in Sectors : disk[i - secs_done[t] + dev.lba] \in Threads \cup {None}
          BY <4>1 DEF IdeInv, IdeTypeOK, Sectors
        <4>3. PICK row : /\ row = [i \in Sectors |->
                                IF i \in secs_done[t] .. secs_done[t] + SecCnt(SecsOp(t)) - 1
                                THEN disk[i - secs_done[t] + dev.lba] ELSE buf[t][i]]
                         /\ buf' = [buf EXCEPT ![t] = row]
          BY <3>1 DEF Transfer
        <4>4. row \in [Sectors -> Threads \cup {None}]
          BY <4>2, <4>3 DEF IdeInv, IdeTypeOK
        <4> QED
          BY <4>3, <4>4 DEF IdeInv, IdeTypeOK
      <3>2. CASE op[t] # "read"
        BY <3>2 DEF IdeInv, IdeTypeOK, Transfer
      <3> QED
        BY <3>1, <3>2
    <2> QED
      BY <1>f, <2>1, <2>2, <2>3 DEF IdeInv, IdeTypeOK, Transfer, At, Goto, Places, request, channel
  <1>2. OwnerInLoop'
    <2>1. /\ UNCHANGED <<owner, op, cnt, secs_done, limit, panic>>
          /\ pc[t] = "xfer" /\ pc' = [pc EXCEPT ![t] = IF op[t] = "read" THEN "next" ELSE "down"]
      BY <1>0 DEF IdeInv, IdeTypeOK, Transfer, At, Goto, request, channel
    <2> QED
      BY <2>1 DEF IdeInv, IdeTypeOK, OwnerInLoop
  <1>3. Handshake'
    BY <1>0 DEF IdeInv, IdeTypeOK, OwnerInLoop, Handshake, ReadWaits, WriteWaits,
           Commanded, Running, Raised, Answered, Quiet, SecsOp, DevStates, Transfer, At, Goto, Places, request, channel, NoCommand
  <1>4. OnlyDiskStops'
    BY <1>0 DEF IdeInv, IdeTypeOK, OnlyDiskStops, Transfer, At, Goto, Places, request, channel, NoCommand
  <1> QED
    BY <1>1, <1>2, <1>3, <1>4 DEF IdeInv

(* The next command, or the release of the lock, finds the disk idle.      *)
LEMMA NextChunkInv ==
    ASSUME IdeInv, NEW t \in Threads, NextChunk(t)
    PROVE  IdeInv'
  <1>0. /\ op[t] # "none" /\ secs_done[t] < cnt[t]
        /\ SecsOp(t) \in 1 .. Chunk /\ secs_done[t] \in Sectors
        /\ secs_done[t] + SecsOp(t) <= cnt[t]
        /\ SecCnt(SecsOp(t)) = SecsOp(t)
    BY SecsOpBounds, SecCntExact DEF IdeInv, OwnerInLoop, At, NextChunk
  <1>f. FlagsOK'
    BY Zenon DEF IdeInv, IdeTypeOK, FlagsOK, NextChunk, device
  <1>1. IdeTypeOK' /\ OwnerInLoop'
    <2>0. UNCHANGED <<expecting, done, dev, irq, disk, panic>> /\ busy = t /\ pc[t] = "next"
      BY DEF NextChunk, At, device
    <2>1. CASE secs_done[t] + SecsOp(t) < cnt[t]
      <3>1. /\ secs_done' = [secs_done EXCEPT ![t] = secs_done[t] + SecsOp(t)]
            /\ pc' = [pc EXCEPT ![t] = "cmd"]
            /\ limit' = [limit EXCEPT ![t] = 0]
            /\ UNCHANGED <<owner, busy, op, cnt, buf>>
        BY <1>0, <2>1 DEF NextChunk, Goto, request, IdeInv, IdeTypeOK
      <3> QED
        BY <1>f, <1>0, <2>0, <2>1, <3>1 DEF IdeInv, IdeTypeOK, OwnerInLoop, Places
    <2>2. CASE secs_done[t] + SecsOp(t) >= cnt[t]
      <3>1. /\ secs_done' = [secs_done EXCEPT ![t] = 0]
            /\ op' = [op EXCEPT ![t] = "none"] /\ cnt' = [cnt EXCEPT ![t] = 0]
            /\ pc' = [pc EXCEPT ![t] = "user"]
            /\ limit' = [limit EXCEPT ![t] = 0]
            /\ owner' = None /\ busy' = None
            /\ buf' = [buf EXCEPT ![t] = [i \in Sectors |-> None]]
        BY <1>0, <2>2 DEF NextChunk, Goto, IdeInv, IdeTypeOK
      <3> QED
        BY <1>f, <1>0, <2>0, <3>1 DEF IdeInv, IdeTypeOK, OwnerInLoop, Places
    <2> QED
      BY <1>0, <2>1, <2>2 DEF IdeInv, IdeTypeOK
  <1>3. Handshake'
    BY <1>0 DEF IdeInv, IdeTypeOK, OwnerInLoop, Handshake, ReadWaits, WriteWaits,
           Commanded, Running, Raised, Answered, Quiet, SecsOp, DevStates, NextChunk, At, Goto, Places, device
  <1>4. OnlyDiskStops'
    BY <1>0 DEF IdeInv, IdeTypeOK, OnlyDiskStops, NextChunk, At, Goto, Places, device
  <1> QED
    BY <1>1, <1>3, <1>4 DEF IdeInv

(* The handler turns the one interrupt that is expected into the one       *)
(* completion.                                                             *)
LEMMA IntrHdHandlerInv ==
    ASSUME IdeInv, IntrHdHandler
    PROVE  IdeInv'
  <1>0. expecting => done = 0
    BY DEF IdeInv, IdeTypeOK, OwnerInLoop, Handshake, ReadWaits, WriteWaits, Running, Raised,
           Answered, Quiet, Places
  <1>f. FlagsOK'
    BY Zenon DEF IdeInv, IdeTypeOK, FlagsOK, IntrHdHandler
  <1>1. IdeTypeOK'
    BY <1>f, <1>0 DEF IdeInv, IdeTypeOK, IntrHdHandler, Places, request
  <1>2. OwnerInLoop'
    BY DEF IdeInv, IdeTypeOK, OwnerInLoop, IntrHdHandler, Places, request
  <1>3. Handshake'
    BY DEF IdeInv, IdeTypeOK, OwnerInLoop, Handshake, ReadWaits, WriteWaits,
           Commanded, Running, Raised, Answered, Quiet, SecsOp, DevStates, IntrHdHandler, Places, request
  <1>4. OnlyDiskStops'
    BY DEF IdeInv, IdeTypeOK, OnlyDiskStops, IntrHdHandler, Places, request
  <1> QED
    BY <1>1, <1>2, <1>3, <1>4 DEF IdeInv

(* The disk only moves on the command it was given.                        *)
LEMMA DiskInv ==
    ASSUME IdeInv, DiskReady \/ DiskWritten \/ DiskFails
    PROVE  IdeInv'
  <1>0. UNCHANGED <<owner, expecting, done, busy, pc, op, cnt, secs_done, limit, buf, disk, panic>>
    BY DEF DiskReady, DiskWritten, DiskFails, request, channel
  <1>1. FlagsOK'
    BY Zenon DEF IdeInv, IdeTypeOK, FlagsOK, DiskReady, DiskWritten, DiskFails, channel
  <1>2. dev \in DevStates /\ 0 \in Sectors /\ irq \in BOOLEAN
    BY DEF IdeInv, IdeTypeOK, FlagsOK, Sectors
  <1>3. /\ ~panic /\ dev' \in DevStates
        /\ \/ /\ dev.st = "busy" /\ dev'.st \in {"drq", "error"}
              /\ dev'.op = dev.op /\ dev'.lba = dev.lba /\ dev'.n = dev.n
              /\ irq' = (irq \/ dev.op = "read" \/ dev'.st = "error")
           \/ /\ dev.st = "writing" /\ dev'.st = "idle"
              /\ irq' = TRUE
    <2>1. CASE DiskReady
      <3>1. /\ dev' \in DevStates /\ dev.st = "busy" /\ dev'.st = "drq"
            /\ dev'.op = dev.op /\ dev'.lba = dev.lba /\ dev'.n = dev.n
        BY <1>2, <2>1 DEF DiskReady, DevStates
      <3>2. irq' = (irq \/ dev.op = "read" \/ dev'.st = "error")
        BY <2>1, <3>1 DEF DiskReady
      <3> QED
        BY <2>1, <3>1, <3>2 DEF DiskReady
    <2>2. CASE DiskWritten
      BY <1>2, <2>2 DEF DiskWritten, DevStates, NoCommand
    <2>3. CASE DiskFails
      <3>1. /\ dev' \in DevStates /\ dev.st = "busy" /\ dev'.st = "error"
            /\ dev'.op = dev.op /\ dev'.lba = dev.lba /\ dev'.n = dev.n
        BY <1>2, <2>3 DEF DiskFails, DevStates
      <3>2. irq' = (irq \/ dev.op = "read" \/ dev'.st = "error")
        BY <2>3, <3>1 DEF DiskFails
      <3> QED
        BY <2>3, <3>1, <3>2 DEF DiskFails
    <2> QED
      BY <2>1, <2>2, <2>3
  <1>4. IdeTypeOK'
    BY <1>0, <1>1, <1>3 DEF IdeInv, IdeTypeOK
  <1>5. OwnerInLoop'
    BY <1>0 DEF IdeInv, OwnerInLoop
  <1>6. Handshake'
    <2>1. owner # None
      BY <1>3 DEF IdeInv, Handshake
    <2>2. ASSUME NEW t \in Threads, owner = t
          PROVE  /\ pc[t] \notin {"cmd", "next"}
                 /\ op[t] = "read" => ReadWaits(t)'
                 /\ op[t] = "write" => WriteWaits(t)'
                 /\ pc[t] = "asleep" => expecting
                 /\ pc[t] = "woken" => done = 1
      <3>1. /\ pc[t] \notin {"cmd", "next"}
            /\ op[t] = "read" => ReadWaits(t)
            /\ op[t] = "write" => WriteWaits(t)
            /\ pc[t] = "asleep" => expecting
            /\ pc[t] = "woken" => done = 1
        BY <1>3, <2>2 DEF IdeInv, Handshake
      <3>2. CASE dev.st = "busy"
        <4>1. /\ dev'.st \in {"drq", "error"} /\ (Commanded(t) <=> Commanded(t)')
              /\ irq' <=> irq \/ dev.op = "read" \/ dev'.st = "error"
          BY <1>0, <1>3, <3>2 DEF Commanded, SecsOp
        <4>2. ASSUME op[t] = "read" PROVE ReadWaits(t)'
          BY <1>0, <3>1, <3>2, <4>1, <4>2 DEF ReadWaits, Commanded, Running, Raised, Answered, Quiet
        <4>3. ASSUME op[t] = "write" PROVE WriteWaits(t)'
          BY <1>0, <3>1, <3>2, <4>1, <4>3 DEF WriteWaits, Commanded, Running, Raised, Answered
        <4> QED
          BY <3>1, <4>2, <4>3
      <3>3. CASE dev.st = "writing"
        <4>1. dev'.st = "idle" /\ irq'
          BY <1>3, <3>3
        <4>2. ASSUME op[t] = "read" PROVE ReadWaits(t)'
          BY <1>0, <3>1, <3>3, <4>1, <4>2 DEF ReadWaits
        <4>3. ASSUME op[t] = "write" PROVE WriteWaits(t)'
          BY <1>0, <3>1, <3>3, <4>1, <4>3 DEF WriteWaits, Running, Raised
        <4> QED
          BY <3>1, <4>2, <4>3
      <3> QED
        BY <1>3, <3>2, <3>3
    <2> QED
      BY <1>0, <2>1, <2>2 DEF Handshake
  <1>7. OnlyDiskStops'
    BY <1>0, <1>3 DEF OnlyDiskStops
  <1> QED
    BY <1>4, <1>5, <1>6, <1>7 DEF IdeInv

LEMMA IdeNextInv == IdeInv /\ [IdeNext]_ideVars => IdeInv'
  <1> SUFFICES ASSUME IdeInv, [IdeNext]_ideVars PROVE IdeInv'
    OBVIOUS
  <1>1. ASSUME NEW t \in Threads, Step(t) PROVE IdeInv'
    BY <1>1, LockGrantedInv, CmdOutInv, SemaDownInv, ResumeInv, BusyWaitInv, TransferInv,
       NextChunkInv DEF Step
  <1>2. CASE UNCHANGED ideVars
    <2>1. IdeTypeOK' /\ OwnerInLoop' /\ OnlyDiskStops'
      BY <1>2 DEF ideVars, IdeInv, IdeTypeOK, FlagsOK, OwnerInLoop, OnlyDiskStops
    <2>2. Handshake'
      BY <1>2 DEF ideVars, IdeInv, Handshake, ReadWaits, WriteWaits, Commanded, Running,
                  Raised, Answered, Quiet, SecsOp
    <2> QED
      BY <2>1, <2>2 DEF IdeInv
  <1> QED
    BY <1>1, <1>2, IdeCallInv, IntrHdHandlerInv, DiskInv DEF IdeNext

(* IdeInv holds in every state the driver, the handler and the disk reach. *)
THEOREM IdeInvariant == IdeSpec => []IdeInv
  BY IdeInitInv, IdeNextInv, PTL DEF IdeSpec

(* ide_read, ide_write, intr_hd_handler and the disk stay in step: a       *)
(* command finds the disk idle, no interrupt expected and no completion    *)
(* left over, what is transferred is the thread's own, and only a disk     *)
(* that fails or is too slow stops the machine (ide.c:178).                *)
THEOREM DriverInStep == IdeSpec => []IdeInStep
  <1>1. IdeInv => CommandInStep
    BY DEF IdeInv, IdeTypeOK, OwnerInLoop, Handshake, CommandInStep, At, Quiet
  <1>2. IdeInv => TransferMatches
    BY DEF IdeInv, IdeTypeOK, OwnerInLoop, Handshake, ReadWaits, WriteWaits, Commanded,
           TransferMatches, At
  <1>3. IdeInv => IdeInStep
    BY <1>1, <1>2 DEF IdeInv, IdeInStep
  <1> QED
    BY <1>3, IdeInvariant, PTL

(* What a step leaves of a read: the transfers of other threads do not     *)
(* come between its commands.                                              *)
LEMMA NoTornReadStep == IdeInv /\ NoTornRead /\ [IdeNext]_ideVars => NoTornRead'
  <1> SUFFICES ASSUME IdeInv, NoTornRead, [IdeNext]_ideVars,
                      NEW u \in Threads, op'[u] = "read",
                      NEW i \in Sectors, i < ReadSoFar(u)'
               PROVE  buf'[u][i] = disk'[i]
    BY DEF NoTornRead
  <1> USE DEF ReadSoFar
  <1>0. /\ pc \in [Threads -> Places] /\ op \in [Threads -> {"none", "read", "write"}]
        /\ secs_done \in [Threads -> 0 .. MaxSecs] /\ cnt \in [Threads -> 0 .. MaxSecs]
        /\ i \in 0 .. MaxSecs - 1
    BY DEF IdeInv, IdeTypeOK, Sectors
  <1>1. ASSUME NEW t \in Threads, NEW kind \in {"read", "write"}, NEW n \in 1 .. MaxSecs,
               IdeCall(t, kind, n)
        PROVE  buf'[u][i] = disk'[i]
    BY <1>0, <1>1 DEF IdeCall, Goto, NoTornRead, SecsOp, device
  <1>2. ASSUME NEW t \in Threads,
               LockGranted(t) \/ CmdOut(t) \/ SemaDown(t) \/ Resume(t) \/ BusyWait(t)
        PROVE  buf'[u][i] = disk'[i]
    <2>1. UNCHANGED <<buf, disk, op, cnt, secs_done>>
      BY <1>2 DEF LockGranted, CmdOut, SemaDown, Resume, BusyWait, request, device
    <2>2. pc'[u] = "next" /\ op[u] # "write" <=> pc[u] = "next" /\ op[u] # "write"
      BY <1>0, <1>2 DEF LockGranted, CmdOut, SemaDown, Resume, BusyWait, Goto, IdeInv,
                        IdeTypeOK, OwnerInLoop, At
    <2> QED
      BY <1>0, <2>1, <2>2 DEF NoTornRead, SecsOp
  <1>3. ASSUME NEW t \in Threads, Transfer(t) PROVE buf'[u][i] = disk'[i]
    <2>0. /\ pc[t] = "xfer" /\ owner = t /\ Commanded(t)
          /\ SecsOp(t) \in 1 .. Chunk /\ SecCnt(SecsOp(t)) = SecsOp(t)
          /\ UNCHANGED <<op, cnt, secs_done>>
      BY <1>3, SecsOpBounds, SecCntExact
      DEF Transfer, At, IdeInv, IdeTypeOK, OwnerInLoop, Handshake, ReadWaits, WriteWaits, request
    <2>1. CASE u = t
      <3>1. /\ pc'[t] = "next" /\ disk' = disk
            /\ buf'[t] = [j \in Sectors |->
                   IF j \in secs_done[t] .. secs_done[t] + SecCnt(SecsOp(t)) - 1
                   THEN disk[j - secs_done[t] + dev.lba] ELSE buf[t][j]]
        BY <1>0, <1>3, <2>0, <2>1 DEF Transfer, Goto, IdeInv, IdeTypeOK
      <3>2. CASE i < secs_done[t]
        BY <1>0, <2>0, <2>1, <3>1, <3>2 DEF NoTornRead
      <3>3. CASE i >= secs_done[t]
        <4>1. i < secs_done[t] + SecsOp(t)
          BY <2>0, <2>1, <3>1 DEF SecsOp
        <4>2. dev.lba = secs_done[t] /\ i - secs_done[t] + secs_done[t] = i
          BY <1>0, <2>0 DEF Commanded
        <4> QED
          BY <1>0, <2>0, <2>1, <3>1, <3>3, <4>1, <4>2
      <3> QED
        BY <1>0, <3>2, <3>3
    <2>2. CASE u # t
      <3>1. pc[u] = "lock" /\ pc'[u] = pc[u] /\ secs_done[u] = 0
        BY <1>0, <1>3, <2>0, <2>2 DEF Transfer, Goto, IdeInv, OwnerInLoop
      <3> QED
        BY <1>0, <2>0, <3>1
    <2> QED
      BY <2>1, <2>2
  <1>4. ASSUME NEW t \in Threads, NextChunk(t) PROVE buf'[u][i] = disk'[i]
    <2>0. disk' = disk /\ pc[t] = "next" /\ SecsOp(t) \in 1 .. Chunk
      BY <1>4, SecsOpBounds DEF NextChunk, device, At, IdeInv, OwnerInLoop
    <2>1. CASE u = t
      <3>1. pc'[t] = "cmd" /\ secs_done'[t] = secs_done[t] + SecsOp(t) /\ op' = op /\ buf' = buf
        BY <1>0, <1>4, <2>1 DEF NextChunk, Goto, request
      <3> QED
        BY <1>0, <2>0, <2>1, <3>1 DEF NoTornRead
    <2>2. CASE u # t
      <3>1. /\ op'[u] = op[u] /\ buf'[u] = buf[u] /\ pc'[u] = pc[u]
            /\ secs_done'[u] = secs_done[u] /\ cnt'[u] = cnt[u]
        BY <1>0, <1>4, <2>2 DEF NextChunk, Goto, request, IdeInv, IdeTypeOK
      <3> QED
        BY <2>0, <3>1 DEF NoTornRead, SecsOp
    <2> QED
      BY <2>1, <2>2
  <1>5. CASE IntrHdHandler \/ DiskReady \/ DiskWritten \/ DiskFails \/ UNCHANGED ideVars
    <2>1. UNCHANGED <<buf, disk, op, cnt, secs_done>>
      BY <1>5 DEF IntrHdHandler, DiskReady, DiskWritten, DiskFails, ideVars, request
    <2>2. pc'[u] = "next" <=> pc[u] = "next"
      BY <1>0, <1>5 DEF IntrHdHandler, DiskReady, DiskWritten, DiskFails, ideVars
    <2> QED
      BY <1>0, <2>1, <2>2 DEF NoTornRead, SecsOp
  <1> QED
    BY <1>1, <1>2, <1>3, <1>4, <1>5 DEF IdeNext, Step

(* However many threads write the same sectors between its commands, an    *)
(* ide_read returns one state of the disk: the channel's lock covers the   *)
(* whole loop, not one command (ide.c:151).                                *)
THEOREM ReadsAreWhole == IdeSpec => []NoTornRead
  <1>1. IdeInit => NoTornRead
    BY DEF IdeInit, NoTornRead
  <1> QED
    BY <1>1, NoTornReadStep, IdeInvariant, PTL DEF IdeSpec

HIDE IdeAssumption

-----------------------------------------------------------------------------
(* The directory tree.                                                     *)

USE DirAssumption

(* The stages of a call: a number is taken for a new file and there is no  *)
(* entry yet; the entry is there and its inode is not; the entry to remove *)
(* is chosen; it is removed; its number is given back.                     *)
New(c) == c.op \in {"create", "mkdir"}
Making(c) == New(c) /\ c.pc \in {"bsync", "dots", "eread", "ewrite"}
Entered(c) == New(c) /\ c.pc \in {"pread", "pwrite", "nread", "nwrite"}
Chosen(c) == Deletes(c) /\ c.pc \in {"eread", "ewrite"}
Removed(c) == Deletes(c) /\ c.pc \in {"pread", "pwrite", "ropen", "bfree"}
Freed(c) == Deletes(c) /\ c.pc \in {"ifree", "zread", "zwrite"}

Owns(c) == Making(c) \/ Entered(c) \/ Removed(c) \/ Freed(c)
HasBlock(c) == c.op = "mkdir" /\ (Making(c) \/ Entered(c))
Searching(c) == c.pc \in {"idle", "root", "open"}
Resizing(c) == c.pc \in {"pread", "pwrite"}

EntryOf(c) == [name |-> Target(c), ino |-> c.ino,
               type |-> IF c.op = "mkdir" THEN "dir" ELSE "file"]

(* The directories with an entry and an inode on disk, and those that have *)
(* lost the entry and keep the block for the moment.                       *)
SubAt(s, d) == blk[0][s].type = "dir" /\ blk[0][s].ino = d
Made(d) == d = 0 \/ ((\E s \in Slots : SubAt(s, d)) /\ ~BeingMade(d))
Leaving(c, d) == c.op = "rmdir" /\ Resizing(c) /\ c.ino = d
Kept(d) == Made(d) \/ \E p \in Procs : Leaving(call[p], d)

Filled(b, s) == blk[b][s] # NoEntry
SizeOf(d) == 2 + Cardinality(Entries(blk[tab[d].blk]))

----------------------------------------------------------------------------
(* Which call can be where. *)
CallShape(c) ==
    /\ c.pc = "idle" <=> c.op = "none"
    /\ c.pc = "idle" => c = Idle
    /\ c.pc # "idle" => c.path \in Paths
    /\ c.op \in {"mkdir", "rmdir"} => Len(c.path) = 1
    /\ c.pc \in {"bsync", "dots"} => c.op = "mkdir"
    /\ c.pc \in {"nread", "nwrite", "isync"} => New(c)
    /\ c.pc \in {"nread", "nwrite"} => c.pure = NewInode(c.op, c.ino, c.b)
    /\ c.pc = "ropen" => c.op = "unlink"
    /\ c.pc = "bfree" => c.op = "rmdir"
    /\ c.pc \in {"ifree", "zread", "zwrite"} => Deletes(c)
    /\ c.pc \in {"root", "open", "sub"} => c.ino = 0
    /\ c.pc = "sub" => Len(c.path) = 2
    /\ c.pc = "open" => Len(c.path) = 2 \/ c.op = "rmdir"
    /\ c.pc = "root" => c.dir = 0
    /\ (c.op = "create" /\ (Making(c) \/ Entered(c))) => c.b = NoBlock
    /\ (c.pc = "ewrite" /\ Deletes(c)) =>
          \E s \in Slots : c.buf[s] # NoEntry /\ c.buf[s].ino = c.ino

Shapes == \A p \in Procs : CallShape(call[p])

(* A call has opened the directory it works in, and it is there. *)
DirOf(c) ==
    /\ c.pc = "open" => c.dir # 0 /\ \E s \in Slots : SubAt(s, c.dir) /\ blk[0][s].name = c.path[1]
    /\ ~Searching(c) =>
          /\ c.op = "rmdir" => c.dir = c.ino /\ c.ino # 0
          /\ (c.op = "rmdir" /\ Chosen(c)) => Made(c.dir)
          /\ Len(c.path) = 2 => /\ c.dir # 0 /\ ~BeingMade(c.dir)
                                /\ \E s \in Slots : SubAt(s, c.dir) /\ blk[0][s].name = c.path[1]
          /\ (Len(c.path) = 1 /\ c.op # "rmdir") => c.dir = 0

DirsHeld == \A p \in Procs : DirOf(call[p])

(* The number of a new or removed file belongs to one call. *)
NumbersOwned ==
    \A p \in Procs : Owns(call[p]) =>
        /\ call[p].ino # 0
        /\ call[p].ino \in ibits <=> ~Freed(call[p])
        /\ \A q \in Procs : q # p /\ Owns(call[q]) => call[p].ino # call[q].ino

ChosenFresh ==
    \A p \in Procs : Chosen(call[p]) =>
        /\ call[p].ino # 0
        /\ \A q \in Procs : Making(call[q]) \/ Entered(call[q]) => call[p].ino # call[q].ino

(* What unlink has chosen is the entry of a file. *)
IsFile(i) == \A b \in Blks, s \in Slots : Filled(b, s) /\ blk[b][s].ino = i => blk[b][s].type = "file"
ChosenFiles == \A p \in Procs : Chosen(call[p]) /\ call[p].op = "unlink" => IsFile(call[p].ino)

(* An inode has one entry on the whole disk, a name one in a directory. *)
EntriesOnce ==
    /\ \A b, c \in Blks : \A s, t \in Slots :
          (Filled(b, s) /\ Filled(c, t) /\ <<b, s>> # <<c, t>>) =>
              /\ blk[b][s].ino # blk[c][t].ino
              /\ b = c => blk[b][s].name # blk[c][t].name
    /\ \A b \in Blks, s \in Slots : Filled(b, s) =>
          /\ blk[b][s].ino \in ibits
          /\ b # 0 => blk[b][s].type = "file"

OwnedEntries ==
    \A p \in Procs :
        /\ (Making(call[p]) \/ Removed(call[p]) \/ Freed(call[p])) =>
              \A b \in Blks, s \in Slots : Filled(b, s) => blk[b][s].ino # call[p].ino
        /\ Entered(call[p]) =>
              \E s \in Slots : blk[tab[Parent(call[p])].blk][s] = EntryOf(call[p])

(* Entries are in the blocks of directories. *)
Occupied ==
    \A b \in Blks, s \in Slots : Filled(b, s) => \E d \in Inos : Made(d) /\ tab[d].blk = b

(* A directory on disk, its inode in memory and their sizes. *)
KeptDirs ==
    \A d \in Inos : Kept(d) =>
        /\ tab[d].no = d /\ tab[d].blk \in bbits /\ tab[d].blk \in dB
        /\ open[d].cnt > 0 => /\ open[d].inode.no = d /\ open[d].inode.blk = tab[d].blk
                              /\ open[d].inode.size = SizeOf(d)
        /\ tab[d].size = SizeOf(d) \/ \E p \in Procs : Resizing(call[p]) /\ Parent(call[p]) = d
        /\ \A f \in Inos : Kept(f) /\ f # d => tab[f].blk # tab[d].blk

NewBlocks ==
    \A p \in Procs : HasBlock(call[p]) =>
        /\ call[p].b \in bbits
        /\ call[p].pc # "bsync" => call[p].b \in dB
        /\ \A d \in Inos : Kept(d) => tab[d].blk # call[p].b
        /\ \A q \in Procs : q # p /\ HasBlock(call[q]) => call[p].b # call[q].b

(* i_open_cnts counts those who have opened an inode. *)
Holds(c, d) == d # 0 /\ c.dir = d /\ ~Searching(c)
Releases(c, d) == Deletes(c) /\ c.pc \in {"bfree", "ifree", "zread", "zwrite"} /\ c.ino = d
Holders(d) == {p \in Procs : Holds(call[p], d)}
Releasers(d) == {p \in Procs : Releases(call[p], d)}
CountsExact ==
    \A d \in Inos : open[d].cnt = Cardinality(Holders(d)) + Cardinality(Releasers(d))
                                  + (IF d = 0 THEN 1 ELSE 0)

(* Files have their inodes, in the table and marked on disk. *)
FileInode(i) == tab[i].no = i /\ tab[i].blk = NoBlock
FilesKept ==
    /\ \A b \in Blks, s \in Slots : blk[b][s].type = "file" =>
          \/ FileInode(blk[b][s].ino)
          \/ \E q \in Procs : /\ Entered(call[q]) /\ call[q].op = "create"
                              /\ call[q].ino = blk[b][s].ino
    /\ \A p \in Procs : (call[p].op = "unlink" /\ call[p].pc \in {"pread", "pwrite", "ropen"}) =>
          FileInode(call[p].ino)

MarkedOnDisk ==
    \A b \in Blks, s \in Slots : Filled(b, s) =>
        \/ blk[b][s].ino \in dI
        \/ \E q \in Procs : /\ Entered(call[q]) \/ call[q].pc = "isync"
                            /\ call[q].ino = blk[b][s].ino

RootKept == 0 \in ibits /\ 0 \in bbits /\ 0 \in dI /\ 0 \in dB /\ tab[0].blk = 0

(* Without a crash nothing is lost. *)
NoneLeaked ==
    crashes = 0 =>
        /\ \A i \in ibits : \/ i = 0
                            \/ \E b \in Blks, s \in Slots : Filled(b, s) /\ blk[b][s].ino = i
                            \/ \E p \in Procs : Owns(call[p]) /\ call[p].ino = i
        /\ \A b \in bbits : \/ \E d \in Inos : Kept(d) /\ tab[d].blk = b
                            \/ \E p \in Procs : HasBlock(call[p]) /\ call[p].b = b

(* What was made is there, and marked on disk when its call has returned.  *)
SubBlk(s) == tab[blk[0][s].ino].blk
Lies(path, s, t) ==
    /\ Filled(0, s) /\ blk[0][s].name = path[1]
    /\ Len(path) = 2 => /\ blk[0][s].type = "dir" /\ ~BeingMade(blk[0][s].ino)
                        /\ Filled(SubBlk(s), t) /\ blk[SubBlk(s)][t].name = path[2]
Lasts(path, s, t) == blk[0][s].ino \in dI /\ (Len(path) = 2 => blk[SubBlk(s)][t].ino \in dI)
There(path) ==
    \E s, t \in Slots : Lies(path, s, t) /\ (path \in UnderWay \/ Lasts(path, s, t))

MadeThere == \A path \in made : There(path)

DirInv ==
    /\ DirTypeOK /\ Shapes /\ DirsHeld /\ NumbersOwned /\ ChosenFresh /\ ChosenFiles
    /\ EntriesOnce /\ OwnedEntries /\ Occupied /\ KeptDirs /\ NewBlocks /\ CountsExact /\ FilesKept
    /\ MarkedOnDisk /\ RootKept /\ NoneLeaked /\ MadeThere /\ ~stopped

SteadyInv == Steady => DirInv

----------------------------------------------------------------------------
(* Calls and the sets of those who have opened an inode. *)
LEMMA CallsSet ==
    ASSUME DirTypeOK, NEW p \in Procs, NEW c, call' = [call EXCEPT ![p] = c]
    PROVE  /\ call'[p] = c
           /\ \A q \in Procs : q # p => call'[q] = call[q]
           /\ c \in Calls => call' \in [Procs -> Calls]
  BY DEF DirTypeOK

LEMMA HoldersFinite ==
    \A d : /\ IsFiniteSet(Holders(d)) /\ IsFiniteSet(Releasers(d))
           /\ Cardinality(Holders(d)) \in Nat /\ Cardinality(Releasers(d)) \in Nat
<1> SUFFICES ASSUME NEW d
             PROVE  /\ IsFiniteSet(Holders(d)) /\ IsFiniteSet(Releasers(d))
                    /\ Cardinality(Holders(d)) \in Nat /\ Cardinality(Releasers(d)) \in Nat
  OBVIOUS
<1>1. Holders(d) \subseteq Procs /\ Releasers(d) \subseteq Procs
  BY DEF Holders, Releasers
<1>2. IsFiniteSet(Holders(d)) /\ IsFiniteSet(Releasers(d))
  BY <1>1, FS_Subset
<1> QED
  BY <1>2, FS_CardinalityType

(* One process joins or leaves a set. *)
LEMMA Joins ==
    ASSUME NEW S, IsFiniteSet(S), NEW p, NEW T, \A q : q # p => (q \in T <=> q \in S)
    PROVE  Cardinality(T) = Cardinality(S) + (IF p \in T THEN 1 ELSE 0) - (IF p \in S THEN 1 ELSE 0)
<1>0. Cardinality(S) \in Nat
  BY FS_CardinalityType
<1>1. CASE p \in T /\ p \notin S
  <2>1. T = S \cup {p}
    BY <1>1
  <2>2. Cardinality(S \cup {p}) = Cardinality(S) + 1
    BY <1>1, FS_AddElement
  <2> QED
    BY <1>0, <1>1, <2>1, <2>2
<1>2. CASE p \notin T /\ p \in S
  <2>1. T = S \ {p}
    BY <1>2
  <2>2. Cardinality(S \ {p}) = Cardinality(S) - 1
    BY <1>2, FS_RemoveElement
  <2> QED
    BY <1>0, <1>2, <2>1, <2>2
<1>3. CASE (p \in T <=> p \in S)
  <2>1. T = S
    BY <1>3
  <2> QED
    BY <1>0, <1>3, <2>1
<1> QED
  BY <1>1, <1>2, <1>3

LEMMA HoldersChange ==
    ASSUME DirTypeOK, NEW p \in Procs, NEW c, call' = [call EXCEPT ![p] = c], NEW d
    PROVE  /\ Cardinality(Holders(d)') = Cardinality(Holders(d))
                   + (IF Holds(c, d) THEN 1 ELSE 0) - (IF Holds(call[p], d) THEN 1 ELSE 0)
           /\ Cardinality(Releasers(d)') = Cardinality(Releasers(d))
                   + (IF Releases(c, d) THEN 1 ELSE 0) - (IF Releases(call[p], d) THEN 1 ELSE 0)
<1>0. call'[p] = c /\ \A q \in Procs : q # p => call'[q] = call[q]
  BY CallsSet
<1>1. /\ \A q : q # p => (q \in Holders(d)' <=> q \in Holders(d))
      /\ \A q : q # p => (q \in Releasers(d)' <=> q \in Releasers(d))
      /\ p \in Holders(d)' <=> Holds(c, d)
      /\ p \in Holders(d) <=> Holds(call[p], d)
      /\ p \in Releasers(d)' <=> Releases(c, d)
      /\ p \in Releasers(d) <=> Releases(call[p], d)
  BY <1>0 DEF Holders, Releasers
<1>2. IsFiniteSet(Holders(d)) /\ IsFiniteSet(Releasers(d))
  BY HoldersFinite
<1>3. Cardinality(Holders(d)') = Cardinality(Holders(d))
          + (IF p \in Holders(d)' THEN 1 ELSE 0) - (IF p \in Holders(d) THEN 1 ELSE 0)
  BY <1>1, <1>2, Joins
<1>4. Cardinality(Releasers(d)') = Cardinality(Releasers(d))
          + (IF p \in Releasers(d)' THEN 1 ELSE 0) - (IF p \in Releasers(d) THEN 1 ELSE 0)
  BY <1>1, <1>2, Joins
<1> QED
  BY <1>1, <1>3, <1>4

(* Whoever has opened an inode is counted, and the other way round. *)
LEMMA CountPositive ==
    ASSUME DirInv, NEW d \in Inos
    PROVE  /\ open[d].cnt \in Nat
           /\ (d # 0 /\ open[d].cnt > 0) =>
                 \E q \in Procs : Holds(call[q], d) \/ Releases(call[q], d)
           /\ \A q \in Procs : Holds(call[q], d) \/ Releases(call[q], d) => open[d].cnt > 0
           /\ d = 0 => open[d].cnt > 0
<1>1. open[d].cnt = Cardinality(Holders(d)) + Cardinality(Releasers(d)) + (IF d = 0 THEN 1 ELSE 0)
  BY DEF DirInv, CountsExact
<1>2. /\ IsFiniteSet(Holders(d)) /\ IsFiniteSet(Releasers(d))
      /\ Cardinality(Holders(d)) \in Nat /\ Cardinality(Releasers(d)) \in Nat
  BY HoldersFinite
<1>3. /\ Cardinality(Holders(d)) = 0 <=> Holders(d) = {}
      /\ Cardinality(Releasers(d)) = 0 <=> Releasers(d) = {}
  BY <1>2, FS_EmptySet
<1>4. ASSUME d # 0, open[d].cnt > 0
      PROVE  \E q \in Procs : Holds(call[q], d) \/ Releases(call[q], d)
  <2>1. Holders(d) # {} \/ Releasers(d) # {}
    BY <1>1, <1>2, <1>3, <1>4
  <2> QED
    BY <2>1 DEF Holders, Releasers
<1>5. ASSUME NEW q \in Procs, Holds(call[q], d) \/ Releases(call[q], d)
      PROVE  open[d].cnt > 0
  <2>1. Holders(d) # {} \/ Releasers(d) # {}
    BY <1>5 DEF Holders, Releasers
  <2> QED
    BY <1>1, <1>2, <1>3, <2>1
<1>6. open[d].cnt \in Nat
  BY DEF DirInv, DirTypeOK
<1>7. d = 0 => open[d].cnt > 0
  BY <1>1, <1>2
<1> QED
  BY <1>4, <1>5, <1>6, <1>7

LEMMA EntriesFinite ==
    ASSUME NEW block PROVE IsFiniteSet(Entries(block)) /\ Cardinality(Entries(block)) \in Nat
<1>1. IsFiniteSet(Slots)
  <2>1. MaxSlot \in Nat
    BY DirAssumption
  <2> QED
    BY <2>1, FS_Interval DEF Slots
<1>2. IsFiniteSet({block[s] : s \in Slots})
  <2> DEFINE f == [s \in Slots |-> block[s]]
             T == {block[s] : s \in Slots}
  <2>1. f \in Surjection(Slots, T)
    BY DEF Surjection
  <2> HIDE DEF f, T
  <2>2. IsFiniteSet(T)
    BY <1>1, <2>1, FS_Surjection
  <2> QED
    BY <2>2 DEF T
<1>3. IsFiniteSet(Entries(block))
  BY <1>2, FS_Subset DEF Entries
<1> QED
  BY <1>3, FS_CardinalityType

(* A directory somebody has opened is kept, or is past its release. *)
LEMMA HeldDirs ==
    ASSUME DirInv, NEW q \in Procs, NEW d, Holds(call[q], d)
    PROVE  /\ d \in Inos /\ d # 0
           /\ Kept(d) \/ (call[q].op = "rmdir" /\ call[q].ino = d /\ Owns(call[q]))
<1>1. CallShape(call[q]) /\ DirOf(call[q]) /\ call[q] \in Calls
  BY DEF DirInv, Shapes, DirsHeld, DirTypeOK
<1>2. d \in Inos /\ d # 0 /\ call[q].dir = d /\ ~Searching(call[q]) /\ call[q].pc \in Pcs
      /\ call[q].op \in {"none", "create", "mkdir", "unlink", "rmdir"}
  BY <1>1 DEF Holds, Calls
<1>3. CASE call[q].op = "rmdir"
  <2>1. call[q].ino = d /\ (Chosen(call[q]) => Made(d))
    BY <1>1, <1>2, <1>3 DEF DirOf
  <2>2. Chosen(call[q]) \/ Owns(call[q])
    BY <1>1, <1>2, <1>3 DEF Chosen, Owns, Removed, Freed, Deletes, Pcs, CallShape, Searching, New
  <2> QED
    BY <1>2, <1>3, <2>1, <2>2 DEF Kept
<1>4. CASE call[q].op # "rmdir"
  <2>1. Len(call[q].path) = 2
    BY <1>1, <1>2, <1>4 DEF DirOf, CallShape, Searching, Paths
  <2>2. Made(d)
    BY <1>1, <1>2, <2>1 DEF DirOf, Made
  <2> QED
    BY <1>2, <2>2 DEF Kept
<1> QED
  BY <1>3, <1>4

(* The entries of a block. *)
LEMMA EntryTypes ==
    ASSUME DirTypeOK, NEW b \in Blks, NEW s \in Slots
    PROVE  /\ blk[b] \in DirBlocks
           /\ Filled(b, s) => /\ blk[b][s] \in [name : Names, ino : Inos \ {0}, type : {"file", "dir"}]
                              /\ blk[b][s].name \in Names /\ blk[b][s].ino \in Inos \ {0}
                              /\ blk[b][s].type \in {"file", "dir"}
           /\ blk[b][s].type \in {"file", "dir"} => Filled(b, s)
<1>1. blk[b] \in DirBlocks
  BY DEF DirTypeOK
<1>2. blk[b][s] \in {NoEntry} \cup [name : Names, ino : Inos \ {0}, type : {"file", "dir"}]
  BY <1>1 DEF DirBlocks
<1>3. NoEntry.type = "unknown"
  BY DEF NoEntry
<1>4. ASSUME Filled(b, s)
      PROVE  blk[b][s] \in [name : Names, ino : Inos \ {0}, type : {"file", "dir"}]
  BY <1>2, <1>4 DEF Filled
<1>5. blk[b][s].type \in {"file", "dir"} => Filled(b, s)
  BY <1>3 DEF Filled
<1> QED
  BY <1>1, <1>4, <1>5

(* What was made is marked in memory. *)
LEMMA SubMade ==
    ASSUME DirInv, NEW s \in Slots, blk[0][s].type = "dir", ~BeingMade(blk[0][s].ino)
    PROVE  LET d == blk[0][s].ino
           IN  d \in Inos /\ d # 0 /\ Made(d) /\ Kept(d) /\ SubBlk(s) \in Blks
<1>1. 0 \in Blks /\ blk \in [Blks -> DirBlocks]
  BY DirAssumption DEF DirInv, DirTypeOK, Blks
<1>0. DirTypeOK
  BY DEF DirInv
<1>2. blk[0][s].ino \in Inos /\ blk[0][s].ino # 0
  BY <1>0, <1>1, EntryTypes
<1>3. Made(blk[0][s].ino)
  BY DEF Made, SubAt
<1>4. SubBlk(s) \in Blks
  BY <1>2, <1>3 DEF DirInv, KeptDirs, Kept, DirTypeOK, SubBlk
<1> QED
  BY <1>2, <1>3, <1>4 DEF Kept

LEMMA LiesMarked ==
    ASSUME DirInv, NEW path, NEW s \in Slots, NEW t \in Slots, Lies(path, s, t)
    PROVE  blk[0][s].ino \in ibits /\ (Len(path) = 2 => blk[SubBlk(s)][t].ino \in ibits)
<1>1. 0 \in Blks
  BY DirAssumption DEF Blks
<1>2. blk[0][s].ino \in ibits
  BY <1>1 DEF Lies, DirInv, EntriesOnce
<1>3. ASSUME Len(path) = 2 PROVE blk[SubBlk(s)][t].ino \in ibits
  <2>1. SubBlk(s) \in Blks
    BY <1>3, SubMade DEF Lies
  <2> QED
    BY <1>3, <2>1 DEF Lies, DirInv, EntriesOnce
<1> QED
  BY <1>2, <1>3

----------------------------------------------------------------------------
(* Steps that take a call to its next access without a change of stage:    *)
(* TableRead, EntryRead, BlockSync, WriteDots and FreeInode.               *)
SameStage(c, e) ==
    /\ e.op = c.op /\ e.path = c.path /\ e.dir = c.dir /\ e.ino = c.ino /\ e.b = c.b
    /\ Making(e) <=> Making(c)
    /\ Entered(e) <=> Entered(c)
    /\ Chosen(e) <=> Chosen(c)
    /\ Removed(e) <=> Removed(c)
    /\ Freed(e) <=> Freed(c)
    /\ Searching(e) <=> Searching(c)
    /\ Resizing(e) <=> Resizing(c)
    /\ e.pc = "isync" <=> c.pc = "isync"
    /\ e.pc = "open" <=> c.pc = "open"
    /\ e.pc = "ropen" <=> c.pc = "ropen"
    /\ \A d : Releases(e, d) <=> Releases(c, d)

LEMMA SameStageStep ==
    ASSUME DirInv, NEW p \in Procs, NEW c \in Calls, call' = [call EXCEPT ![p] = c],
           SameStage(call[p], c), CallShape(c),
           UNCHANGED <<ibits, bbits, open, tab, blk, made, crashes>>, ~stopped',
           dI' = dI \/ dI' = ibits, dB' = dB \/ dB' = bbits,
           (HasBlock(c) /\ c.pc # "bsync") => c.b \in dB'
    PROVE  DirInv'
<1>0. DirTypeOK
  BY DEF DirInv
<1>1. /\ call'[p] = c /\ \A q \in Procs : q # p => call'[q] = call[q]
      /\ call' \in [Procs -> Calls]
  BY <1>0, CallsSet
<1>2. \A q \in Procs : SameStage(call[q], call'[q])
  BY <1>1 DEF SameStage
<1>3. \A q \in Procs : /\ Owns(call'[q]) <=> Owns(call[q])
                       /\ HasBlock(call'[q]) <=> HasBlock(call[q])
                       /\ \A d : Leaving(call'[q], d) <=> Leaving(call[q], d)
                       /\ \A d : Holds(call'[q], d) <=> Holds(call[q], d)
                       /\ Parent(call'[q]) = Parent(call[q])
                       /\ EntryOf(call'[q]) = EntryOf(call[q])
                       /\ New(call'[q]) <=> New(call[q])
                       /\ Deletes(call'[q]) <=> Deletes(call[q])
  BY <1>2 DEF SameStage, Owns, HasBlock, Leaving, Holds, Parent, EntryOf, Target, New, Deletes
<1>4. \A d : BeingMade(d)' <=> BeingMade(d)
  <2>1. /\ \A d : BeingMade(d) <=> \E q \in Procs : call[q].op = "mkdir" /\ Entered(call[q]) /\ call[q].ino = d
        /\ \A d : BeingMade(d)' <=> \E q \in Procs : call'[q].op = "mkdir" /\ Entered(call'[q]) /\ call'[q].ino = d
    BY DEF BeingMade, Entered, New
  <2> QED
    BY <1>2, <2>1 DEF SameStage
<1>5. /\ \A s, d : SubAt(s, d)' <=> SubAt(s, d)
      /\ \A b, s : Filled(b, s)' <=> Filled(b, s)
      /\ \A d : SizeOf(d)' = SizeOf(d)
  BY DEF SubAt, Filled, SizeOf
<1>6. \A d : Made(d)' <=> Made(d)
  BY <1>4, <1>5 DEF Made
<1>7. \A d : Kept(d)' <=> Kept(d)
  BY <1>3, <1>6 DEF Kept
<1>8. UnderWay' = UnderWay
  <2>1. /\ UnderWay = {call[q].path : q \in {r \in Procs : New(call[r]) /\ (Entered(call[r]) \/ call[r].pc = "isync")}}
        /\ UnderWay' = {call'[q].path : q \in {r \in Procs : New(call'[r]) /\ (Entered(call'[r]) \/ call'[r].pc = "isync")}}
    BY DEF UnderWay, Entered, New
  <2> QED
    BY <1>2, <1>3, <2>1 DEF SameStage
<1>9. ibits \subseteq Inos /\ bbits \subseteq Blks
  BY <1>0 DEF DirTypeOK
<1>10. DirTypeOK'
  BY <1>0, <1>1, <1>9 DEF DirTypeOK
<1>11. Shapes'
  BY <1>1 DEF DirInv, Shapes
<1>12. DirsHeld'
  BY <1>2, <1>3, <1>4, <1>5, <1>6 DEF DirInv, DirsHeld, DirOf, SameStage
<1>13. NumbersOwned' /\ ChosenFresh'
  BY <1>2, <1>3 DEF DirInv, NumbersOwned, ChosenFresh, SameStage
<1>26. ChosenFiles'
  BY <1>2, <1>5 DEF DirInv, ChosenFiles, IsFile, SameStage
<1>14. EntriesOnce'
  BY <1>5 DEF DirInv, EntriesOnce
<1>15. OwnedEntries'
  BY <1>2, <1>3, <1>5 DEF DirInv, OwnedEntries, SameStage
<1>16. Occupied'
  BY <1>5, <1>6 DEF DirInv, Occupied
<1>17. KeptDirs'
  BY <1>2, <1>3, <1>5, <1>7 DEF DirInv, KeptDirs, SameStage
<1>18. NewBlocks'
  BY <1>1, <1>2, <1>3, <1>7 DEF DirInv, NewBlocks, SameStage
<1>19. CountsExact'
  <2>1. \A d : Holders(d)' = Holders(d) /\ Releasers(d)' = Releasers(d)
    BY <1>2, <1>3 DEF Holders, Releasers, SameStage
  <2> QED
    BY <2>1 DEF DirInv, CountsExact
<1>20. FilesKept'
  BY <1>2 DEF DirInv, FilesKept, FileInode, SameStage, Resizing
<1>21. EntriesOnce
  BY DEF DirInv
<1>22. MarkedOnDisk'
  BY <1>2, <1>5, <1>21 DEF DirInv, MarkedOnDisk, SameStage, EntriesOnce
<1>23. RootKept'
  BY DEF DirInv, RootKept
<1>24. NoneLeaked'
  BY <1>2, <1>3, <1>5, <1>7 DEF DirInv, NoneLeaked, SameStage
<1>25. MadeThere'
  <2>1. /\ \A path, s, t : Lies(path, s, t)' <=> Lies(path, s, t)
        /\ \A s : SubBlk(s)' = SubBlk(s)
    BY <1>4, <1>5 DEF Lies, SubBlk
  <2>2. ASSUME NEW path, NEW s \in Slots, NEW t \in Slots, Lies(path, s, t), Lasts(path, s, t)
        PROVE  Lasts(path, s, t)'
    <3>1. blk[0][s].ino \in ibits /\ (Len(path) = 2 => blk[SubBlk(s)][t].ino \in ibits)
      BY <2>2, LiesMarked
    <3> QED
      BY <2>1, <2>2, <3>1 DEF Lasts
  <2> QED
    BY <1>8, <2>1, <2>2 DEF DirInv, MadeThere, There
<1> QED
  BY <1>10, <1>11, <1>12, <1>13, <1>14, <1>15, <1>16, <1>17, <1>18, <1>19, <1>20, <1>22,
     <1>23, <1>24, <1>25, <1>26 DEF DirInv

(* What the stages of the calls say about directories and new files. *)
LEMMA StagesNamed ==
    /\ \A d : BeingMade(d) <=> \E q \in Procs : call[q].op = "mkdir" /\ Entered(call[q]) /\ call[q].ino = d
    /\ \A path : path \in UnderWay <=>
          \E q \in Procs : /\ New(call[q]) /\ (Entered(call[q]) \/ call[q].pc = "isync")
                           /\ call[q].path = path
    /\ \A d : BeingMade(d)' <=> \E q \in Procs : call'[q].op = "mkdir" /\ Entered(call'[q]) /\ call'[q].ino = d
    /\ \A path : path \in UnderWay' <=>
          \E q \in Procs : /\ New(call'[q]) /\ (Entered(call'[q]) \/ call'[q].pc = "isync")
                           /\ call'[q].path = path
  BY DEF BeingMade, Entered, New, UnderWay

(* Steps of calls that own nothing, before and after: Start, the searches  *)
(* and Finish.                                                             *)
LEMMA QuietStep ==
    ASSUME DirInv, NEW p \in Procs, NEW c \in Calls, call' = [call EXCEPT ![p] = c],
           call[p].pc \in {"idle", "root", "open", "sub", "isync"},
           c.pc \in {"idle", "root", "open", "sub", "eread"},
           c.pc = "eread" =>
               /\ Deletes(c) /\ c.ino # 0 /\ (c.op = "unlink" => IsFile(c.ino))
               /\ \A q \in Procs : Making(call[q]) \/ Entered(call[q]) => c.ino # call[q].ino,
           CallShape(c), DirOf(c),
           UNCHANGED <<ibits, bbits, dB, tab, blk, made, crashes>>, ~stopped',
           dI' = IF call[p].pc = "isync" THEN ibits ELSE dI,
           open' \in [Inos -> [cnt : Nat, inode : Inodes]], CountsExact',
           \A d \in Inos : (Kept(d) /\ open'[d].cnt > 0) =>
               /\ open'[d].inode.no = d /\ open'[d].inode.blk = tab[d].blk
               /\ open'[d].inode.size = SizeOf(d)
    PROVE  DirInv'
<1>0. DirTypeOK
  BY DEF DirInv
<1>1. /\ call'[p] = c /\ \A q \in Procs : q # p => call'[q] = call[q]
      /\ call' \in [Procs -> Calls]
  BY <1>0, CallsSet
<1>2. /\ ~Owns(call[p]) /\ ~Making(call[p]) /\ ~Entered(call[p]) /\ ~Removed(call[p]) /\ ~Freed(call[p])
      /\ ~Chosen(call[p]) /\ ~HasBlock(call[p]) /\ ~Resizing(call[p]) /\ \A d : ~Leaving(call[p], d)
  BY DEF Owns, Making, Entered, Removed, Freed, Chosen, HasBlock, Resizing, Leaving
<1>3. /\ ~Owns(c) /\ ~Making(c) /\ ~Entered(c) /\ ~Removed(c) /\ ~Freed(c)
      /\ ~HasBlock(c) /\ ~Resizing(c) /\ (\A d : ~Leaving(c, d)) /\ c.pc # "isync"
      /\ Chosen(c) => c.pc = "eread"
  BY DEF Owns, Making, Entered, Removed, Freed, Chosen, HasBlock, Resizing, Leaving, Deletes, New
<1>4. \A d : BeingMade(d)' <=> BeingMade(d)
  BY <1>1, <1>2, <1>3, StagesNamed
<1>5. /\ \A s, d : SubAt(s, d)' <=> SubAt(s, d)
      /\ \A b, s : Filled(b, s)' <=> Filled(b, s)
      /\ \A d : SizeOf(d)' = SizeOf(d)
  BY DEF SubAt, Filled, SizeOf
<1>6. \A d : Made(d)' <=> Made(d)
  BY <1>4, <1>5 DEF Made
<1>7. \A d : Kept(d)' <=> Kept(d)
  BY <1>1, <1>2, <1>3, <1>6 DEF Kept
<1>8. \A path : path \in UnderWay' => path \in UnderWay
  BY <1>1, <1>3, StagesNamed
<1>9. \A path : path \in UnderWay => path \in UnderWay' \/ call[p].pc = "isync"
  BY <1>1, <1>2, StagesNamed
<1>10. DirTypeOK'
  BY <1>0, <1>1 DEF DirTypeOK
<1>11. Shapes'
  BY <1>1 DEF DirInv, Shapes
<1>12. DirsHeld'
  BY <1>1, <1>4, <1>5, <1>6 DEF DirInv, DirsHeld, DirOf
<1>13. NumbersOwned'
  BY <1>1, <1>3 DEF DirInv, NumbersOwned
<1>14. ChosenFresh'
  BY <1>1, <1>3 DEF DirInv, ChosenFresh
<1>25. ChosenFiles'
  BY <1>1, <1>3, <1>5 DEF DirInv, ChosenFiles, IsFile
<1>15. EntriesOnce' /\ EntriesOnce
  BY <1>5 DEF DirInv, EntriesOnce
<1>16. OwnedEntries'
  BY <1>1, <1>3, <1>5 DEF DirInv, OwnedEntries
<1>17. Occupied'
  BY <1>5, <1>6 DEF DirInv, Occupied
<1>18. KeptDirs'
  BY <1>1, <1>2, <1>5, <1>7 DEF DirInv, KeptDirs
<1>19. NewBlocks'
  BY <1>1, <1>3, <1>7 DEF DirInv, NewBlocks
<1>20. FilesKept'
  BY <1>1, <1>2, <1>3 DEF DirInv, FilesKept, FileInode
<1>21. MarkedOnDisk'
  BY <1>1, <1>2, <1>5, <1>15 DEF DirInv, MarkedOnDisk, EntriesOnce
<1>22. RootKept'
  BY DEF DirInv, RootKept
<1>23. NoneLeaked'
  BY <1>1, <1>2, <1>5, <1>7 DEF DirInv, NoneLeaked
<1>24. MadeThere'
  <2>1. /\ \A path, s, t : Lies(path, s, t)' <=> Lies(path, s, t)
        /\ \A s : SubBlk(s)' = SubBlk(s)
    BY <1>4, <1>5 DEF Lies, SubBlk
  <2>2. ASSUME NEW path, NEW s \in Slots, NEW t \in Slots, Lies(path, s, t),
               Lasts(path, s, t) \/ call[p].pc = "isync"
        PROVE  Lasts(path, s, t)'
    <3>1. blk[0][s].ino \in ibits /\ (Len(path) = 2 => blk[SubBlk(s)][t].ino \in ibits)
      BY <2>2, LiesMarked
    <3> QED
      BY <2>1, <2>2, <3>1 DEF Lasts
  <2> QED
    BY <1>9, <2>1, <2>2 DEF DirInv, MadeThere, There
<1> QED
  BY <1>10, <1>11, <1>12, <1>13, <1>14, <1>15, <1>16, <1>17, <1>18, <1>19, <1>20, <1>21,
     <1>22, <1>23, <1>24, <1>25 DEF DirInv

----------------------------------------------------------------------------
LEMMA CallKnown ==
    ASSUME DirInv, NEW p \in Procs
    PROVE  call[p] \in Calls /\ CallShape(call[p]) /\ DirOf(call[p])
  BY DEF DirInv, DirTypeOK, Shapes, DirsHeld

LEMMA IdleKnown ==
    /\ 0 \in Inos /\ 0 \in Blks /\ NoBlock \notin Blks /\ NoBlock # 0
    /\ ZeroInode \in Inodes
    /\ Idle \in Calls /\ CallShape(Idle) /\ DirOf(Idle) /\ Idle.pc = "idle"
    /\ \A d : ~Holds(Idle, d) /\ ~Releases(Idle, d)
<1>1. 0 \in Inos /\ 0 \in Blks /\ NoBlock \notin Blks /\ NoBlock # 0
  BY DEF Inos, Blks, NoBlock
<1>2. ZeroInode \in Inodes
  BY <1>1 DEF ZeroInode, Inodes
<1>3. Idle \in Calls
  BY <1>1, <1>2 DEF Idle, Calls, Pcs
<1>4. CallShape(Idle)
  BY DEF Idle, CallShape, New, Making, Entered, Deletes
<1>5. DirOf(Idle)
  BY DEF Idle, DirOf, Searching
<1>6. \A d : ~Holds(Idle, d) /\ ~Releases(Idle, d)
  BY DEF Idle, Holds, Releases, Searching, Deletes
<1> QED
  BY <1>1, <1>2, <1>3, <1>4, <1>5, <1>6 DEF Idle

(* i_open_cnts moves with the calls. *)
One(b) == IF b THEN 1 ELSE 0

LEMMA CountsMove ==
    ASSUME DirInv, NEW p \in Procs, NEW c, call' = [call EXCEPT ![p] = c],
           \A d \in Inos : open'[d].cnt = open[d].cnt + One(Holds(c, d)) - One(Holds(call[p], d))
                                        + One(Releases(c, d)) - One(Releases(call[p], d))
    PROVE  CountsExact'
<1> SUFFICES ASSUME NEW d \in Inos
             PROVE  open'[d].cnt = Cardinality(Holders(d)') + Cardinality(Releasers(d)')
                                   + (IF d = 0 THEN 1 ELSE 0)
  BY DEF CountsExact
<1>1. open[d].cnt = Cardinality(Holders(d)) + Cardinality(Releasers(d)) + (IF d = 0 THEN 1 ELSE 0)
  BY DEF DirInv, CountsExact
<1>2. /\ Cardinality(Holders(d)') = Cardinality(Holders(d)) + One(Holds(c, d)) - One(Holds(call[p], d))
      /\ Cardinality(Releasers(d)') = Cardinality(Releasers(d)) + One(Releases(c, d)) - One(Releases(call[p], d))
  BY HoldersChange DEF DirInv, One
<1>3. Cardinality(Holders(d)) \in Nat /\ Cardinality(Releasers(d)) \in Nat
  BY HoldersFinite
<1>4. \A b : One(b) \in {0, 1}
  BY DEF One
<1> QED
  BY <1>1, <1>2, <1>3, <1>4

LEMMA CountsSame ==
    ASSUME DirInv, NEW p \in Procs, NEW c, call' = [call EXCEPT ![p] = c], UNCHANGED open,
           \A d : Holds(c, d) <=> Holds(call[p], d),
           \A d : Releases(c, d) <=> Releases(call[p], d)
    PROVE  CountsExact'
<1>1. \A d \in Inos : open[d].cnt \in Nat
  BY DEF DirInv, DirTypeOK
<1>2. \A d \in Inos : open'[d].cnt = open[d].cnt + One(Holds(c, d)) - One(Holds(call[p], d))
                                     + One(Releases(c, d)) - One(Releases(call[p], d))
  BY <1>1 DEF One
<1> QED
  BY <1>2, CountsMove

(* The memory copies of kept directories, when open stays as it is. *)
LEMMA OpenKnown ==
    ASSUME DirInv
    PROVE  /\ open \in [Inos -> [cnt : Nat, inode : Inodes]]
           /\ \A d \in Inos : (Kept(d) /\ open[d].cnt > 0) =>
                 /\ open[d].inode.no = d /\ open[d].inode.blk = tab[d].blk
                 /\ open[d].inode.size = SizeOf(d)
  BY DEF DirInv, DirTypeOK, KeptDirs

LEMMA StartStep ==
    ASSUME DirInv, NEW p \in Procs, NEW what \in {"create", "mkdir", "unlink", "rmdir"},
           NEW path \in Paths, Start(p, what, path)
    PROVE  DirInv'
<1> DEFINE c == [Idle EXCEPT !.op = what, !.path = path, !.pc = "root"]
<1>1. /\ call' = [call EXCEPT ![p] = c] /\ call[p].pc = "idle"
      /\ what \in {"mkdir", "rmdir"} => Len(path) = 1
  BY DEF Start, PcIs, SetCall
<1>2. UNCHANGED <<ibits, bbits, dB, tab, blk, made, crashes, dI, open>> /\ ~stopped'
  BY DEF Start, DirInv
<1>3. c.pc = "root" /\ c.op = what /\ c.path = path /\ c.dir = 0 /\ c.ino = 0
  BY DEF Idle
<1>4. c \in Calls
  BY IdleKnown DEF Calls, Pcs, Idle
<1> HIDE DEF c
<1>5. CallShape(c)
  BY <1>1, <1>3 DEF CallShape, New, Making, Entered, Deletes
<1>6. DirOf(c)
  BY <1>3 DEF DirOf, Searching
<1>7. CountsExact'
  <2>1. \A d : ~Holds(c, d) /\ ~Holds(call[p], d) /\ ~Releases(c, d) /\ ~Releases(call[p], d)
    BY <1>1, <1>3 DEF Holds, Releases, Searching
  <2> QED
    BY <1>1, <1>2, <2>1, CountsSame
<1> QED
  BY <1>1, <1>2, <1>3, <1>4, <1>5, <1>6, <1>7, QuietStep, OpenKnown

LEMMA TableReadStep ==
    ASSUME DirInv, NEW p \in Procs, TableRead(p)
    PROVE  DirInv'
<1> DEFINE at == CASE call[p].pc = "pread" -> "pwrite" [] call[p].pc = "nread" -> "nwrite"
                   [] OTHER -> "zwrite"
           c == [call[p] EXCEPT !.buf = tab, !.pc = at]
<1>1. /\ call' = [call EXCEPT ![p] = c] /\ call[p].pc \in {"pread", "nread", "zread"}
      /\ UNCHANGED <<ibits, bbits, open, dI, dB, tab, blk, made, crashes>> /\ ~stopped'
  BY DEF TableRead, SetCall, DirInv
<1>2. call[p] \in Calls /\ CallShape(call[p])
  BY CallKnown
<1>3. /\ c.op = call[p].op /\ c.path = call[p].path /\ c.dir = call[p].dir /\ c.ino = call[p].ino
      /\ c.b = call[p].b /\ c.pure = call[p].pure /\ c.pc = at
  BY <1>2 DEF Calls
<1>4. tab \in [Inos -> Inodes]
  BY DEF DirInv, DirTypeOK
<1>5. c \in Calls
  BY <1>2, <1>4 DEF Calls, Pcs
<1>6. \/ call[p].pc = "pread" /\ c.pc = "pwrite"
      \/ call[p].pc = "nread" /\ c.pc = "nwrite"
      \/ call[p].pc = "zread" /\ c.pc = "zwrite"
  BY <1>1, <1>3
<1> HIDE DEF c, at
<1>7. SameStage(call[p], c)
  BY <1>3, <1>6 DEF SameStage, Making, Entered, Chosen, Removed, Freed, Searching, Resizing,
                    Releases, New, Deletes
<1>8. CallShape(c)
  BY <1>2, <1>3, <1>6 DEF CallShape, New, Making, Entered, Deletes
<1>9. HasBlock(c) => c.b \in dB
  <2>1. HasBlock(c) => HasBlock(call[p]) /\ call[p].pc # "bsync"
    BY <1>1, <1>3, <1>7 DEF HasBlock, SameStage
  <2> QED
    BY <1>3, <2>1 DEF DirInv, NewBlocks
<1> QED
  BY <1>1, <1>5, <1>7, <1>8, <1>9, SameStageStep

(* The directory a call changes is there and in memory. *)
LEMMA ParentKnown ==
    ASSUME DirInv, NEW p \in Procs,
           call[p].pc \in {"eread", "ewrite", "pread", "pwrite", "nread", "nwrite", "isync"}
    PROVE  LET d == Parent(call[p])
           IN  /\ d \in Inos /\ Made(d) /\ Kept(d) /\ open[d].cnt > 0
               /\ tab[d].blk \in Blks /\ ParentBlk(call[p]) = tab[d].blk
               /\ open[d].inode.no = d /\ open[d].inode.blk = tab[d].blk
               /\ open[d].inode.size = SizeOf(d)
               /\ Len(call[p].path) = 1 => d = 0
               /\ Len(call[p].path) = 2 =>
                     /\ d = call[p].dir /\ d # 0
                     /\ \E s \in Slots : SubAt(s, d) /\ blk[0][s].name = call[p].path[1]
               /\ Len(call[p].path) \in {1, 2} /\ call[p].path \in Paths
<1> DEFINE d == Parent(call[p])
<1>1. call[p] \in Calls /\ CallShape(call[p]) /\ DirOf(call[p])
  BY CallKnown
<1>2. call[p].path \in Paths /\ Len(call[p].path) \in {1, 2}
  BY <1>1 DEF CallShape, Paths
<1>3. 0 \in Inos
  BY IdleKnown
<1>4. CASE Len(call[p].path) = 1
  <2>1. d = 0
    BY <1>4 DEF Parent
  <2>2. d \in Inos /\ Made(d) /\ Kept(d) /\ open[d].cnt > 0
    BY <1>3, <2>1, CountPositive DEF Made, Kept
  <2> QED
    BY <1>2, <1>4, <2>1, <2>2 DEF DirInv, KeptDirs, DirTypeOK, ParentBlk
<1>5. CASE Len(call[p].path) = 2
  <2>1. d = call[p].dir /\ d # 0 /\ ~BeingMade(d)
        /\ \E s \in Slots : SubAt(s, d) /\ blk[0][s].name = call[p].path[1]
    BY <1>1, <1>5 DEF Parent, DirOf, Searching
  <2>2. d \in Inos /\ Holds(call[p], d)
    BY <1>1, <2>1 DEF Calls, Holds, Searching
  <2>3. Made(d) /\ Kept(d) /\ open[d].cnt > 0
    BY <2>1, <2>2, CountPositive DEF Made, Kept
  <2> QED
    BY <1>2, <1>5, <2>1, <2>2, <2>3 DEF DirInv, KeptDirs, DirTypeOK, ParentBlk
<1> QED
  BY <1>2, <1>4, <1>5

LEMMA AtMostOne ==
    ASSUME NEW S, \A x, y \in S : x = y
    PROVE  ~(Cardinality(S) > 1)
<1>1. CASE S = {}
  BY <1>1, FS_EmptySet
<1>2. CASE S # {}
  <2>1. PICK x : x \in S
    BY <1>2
  <2>2. S = {x}
    BY <2>1
  <2> QED
    BY <2>2, FS_Singleton
<1> QED
  BY <1>1, <1>2

LEMMA EntryReadStep ==
    ASSUME DirInv, NEW p \in Procs, EntryRead(p), ~clash'
    PROVE  DirInv'
<1> DEFINE block == blk[ParentBlk(call[p])]
           mine == {s \in Slots : block[s] # NoEntry /\ block[s].ino = call[p].ino}
           c == [call[p] EXCEPT !.pc = "ewrite", !.buf = block]
<1>1. /\ call[p].pc = "eread"
      /\ stopped' = (Deletes(call[p]) /\ Cardinality(mine) > 1)
      /\ ~(Deletes(call[p]) /\ mine = {})
      /\ call' = [call EXCEPT ![p] = c]
      /\ UNCHANGED <<ibits, bbits, open, dI, dB, tab, blk, made, crashes>>
  BY DEF EntryRead, PcIs, SetCall
<1>2. call[p] \in Calls /\ CallShape(call[p])
  BY CallKnown
<1>3. ParentBlk(call[p]) \in Blks /\ ParentBlk(call[p]) = tab[Parent(call[p])].blk
  BY <1>1, ParentKnown
<1>4. block \in DirBlocks
  BY <1>3 DEF DirInv, DirTypeOK
<1>5. ~stopped'
  <2>1. \A x, y \in mine : x = y
    BY <1>3 DEF DirInv, EntriesOnce, Filled
  <2> HIDE DEF mine
  <2> QED
    BY <1>1, <2>1, AtMostOne
<1>6. /\ c.op = call[p].op /\ c.path = call[p].path /\ c.dir = call[p].dir /\ c.ino = call[p].ino
      /\ c.b = call[p].b /\ c.pure = call[p].pure /\ c.pc = "ewrite" /\ c.buf = block
  BY <1>2 DEF Calls
<1>7. c \in Calls
  <2> HIDE DEF block
  <2> QED
    BY <1>2, <1>4 DEF Calls, Pcs
<1>8. Deletes(call[p]) => \E s \in Slots : c.buf[s] # NoEntry /\ c.buf[s].ino = c.ino
  BY <1>1, <1>6
<1> HIDE DEF c, mine, block
<1>9. SameStage(call[p], c)
  BY <1>1, <1>6 DEF SameStage, Making, Entered, Chosen, Removed, Freed, Searching, Resizing,
                    Releases, New, Deletes
<1>10. CallShape(c)
  BY <1>1, <1>2, <1>6, <1>8 DEF CallShape, New, Making, Entered, Deletes
<1>11. HasBlock(c) => c.b \in dB
  <2>1. HasBlock(c) => HasBlock(call[p]) /\ call[p].pc # "bsync"
    BY <1>1, <1>6, <1>9 DEF HasBlock, SameStage
  <2> QED
    BY <1>6, <2>1 DEF DirInv, NewBlocks
<1> QED
  BY <1>1, <1>5, <1>7, <1>9, <1>10, <1>11, SameStageStep

LEMMA MkdirStepStep ==
    ASSUME DirInv, NEW p \in Procs, MkdirStep(p)
    PROVE  DirInv'
<1> DEFINE c(at) == [call[p] EXCEPT !.pc = at]
<1>1. call[p] \in Calls /\ CallShape(call[p])
  BY CallKnown
<1>2. \A at \in Pcs : /\ c(at) \in Calls /\ c(at).op = call[p].op /\ c(at).path = call[p].path
                      /\ c(at).dir = call[p].dir /\ c(at).ino = call[p].ino /\ c(at).b = call[p].b
                      /\ c(at).pc = at /\ c(at).pure = call[p].pure /\ c(at).buf = call[p].buf
  BY <1>1 DEF Calls
<1>3. ASSUME call[p].pc = "bsync", call' = [call EXCEPT ![p] = c("dots")], dB' = bbits,
             UNCHANGED <<ibits, bbits, open, dI, tab, blk, made, stopped, crashes>>
      PROVE  DirInv'
  <2> DEFINE e == c("dots")
  <2>1. /\ e \in Calls /\ e.op = call[p].op /\ e.path = call[p].path
        /\ e.dir = call[p].dir /\ e.ino = call[p].ino /\ e.b = call[p].b
        /\ e.pc = "dots" /\ e.pure = call[p].pure /\ e.buf = call[p].buf
    BY <1>2 DEF Pcs
  <2>2. call' = [call EXCEPT ![p] = e]
    BY <1>3
  <2> HIDE DEF e
  <2>3. SameStage(call[p], e)
    BY <1>3, <2>1 DEF SameStage, Making, Entered, Chosen, Removed, Freed, Searching, Resizing,
                      Releases, New, Deletes
  <2>4. CallShape(e)
    BY <1>1, <1>3, <2>1 DEF CallShape, New, Making, Entered, Deletes
  <2>5. HasBlock(e) => e.b \in dB'
    <3>1. HasBlock(e) => HasBlock(call[p])
      BY <2>1, <2>3 DEF HasBlock, SameStage
    <3> QED
      BY <1>3, <2>1, <3>1 DEF DirInv, NewBlocks
  <2>6. ~stopped'
    BY <1>3 DEF DirInv
  <2> QED
    BY <1>3, <2>1, <2>2, <2>3, <2>4, <2>5, <2>6, SameStageStep
<1>4. ASSUME call[p].pc = "dots", call' = [call EXCEPT ![p] = c("eread")],
             blk' = [blk EXCEPT ![call[p].b] = EmptyDir],
             UNCHANGED <<ibits, bbits, open, dI, dB, tab, made, stopped, crashes>>
      PROVE  DirInv'
  <2> DEFINE e == c("eread")
  <2>1. /\ e \in Calls /\ e.op = call[p].op /\ e.path = call[p].path
        /\ e.dir = call[p].dir /\ e.ino = call[p].ino /\ e.b = call[p].b
        /\ e.pc = "eread" /\ e.pure = call[p].pure /\ e.buf = call[p].buf
    BY <1>2 DEF Pcs
  <2>2. call' = [call EXCEPT ![p] = e]
    BY <1>4
  <2> HIDE DEF e
  <2>3. call[p].op = "mkdir"
    BY <1>1, <1>4 DEF CallShape
  <2>4. HasBlock(call[p])
    BY <1>4, <2>3 DEF HasBlock, Making, New
  <2>5. call[p].b \in Blks /\ call[p].b \in dB /\ \A d \in Inos : Kept(d) => tab[d].blk # call[p].b
    BY <1>4, <2>4 DEF DirInv, NewBlocks, DirTypeOK
  <2>6. \A s \in Slots : ~Filled(call[p].b, s)
    BY <2>5 DEF DirInv, Occupied, Kept
  <2>7. blk[call[p].b] = EmptyDir
    <3>1. blk[call[p].b] = [s \in Slots |-> blk[call[p].b][s]]
      BY <2>5 DEF DirInv, DirTypeOK, DirBlocks
    <3>2. \A s \in Slots : blk[call[p].b][s] = NoEntry
      BY <2>6 DEF Filled
    <3> QED
      BY <3>1, <3>2 DEF EmptyDir
  <2>8. blk' = blk
    BY <1>4, <2>5, <2>7 DEF DirInv, DirTypeOK
  <2>9. SameStage(call[p], e)
    BY <1>4, <2>1, <2>3 DEF SameStage, Making, Entered, Chosen, Removed, Freed, Searching, Resizing,
                      Releases, New, Deletes
  <2>10. CallShape(e)
    BY <1>1, <1>4, <2>1 DEF CallShape, New, Making, Entered, Deletes
  <2>11. ~stopped' /\ e.b \in dB'
    BY <1>4, <2>1, <2>5 DEF DirInv
  <2> QED
    BY <1>4, <2>1, <2>2, <2>8, <2>9, <2>10, <2>11, SameStageStep
<1> QED
  BY <1>3, <1>4 DEF MkdirStep, BlockSync, WriteDots, PcIs, SetCall

LEMMA FreeInodeStep ==
    ASSUME DirInv, NEW p \in Procs, FreeInode(p)
    PROVE  DirInv'
<1> DEFINE c == [call[p] EXCEPT !.pc = "zread"]
<1>1. /\ call' = [call EXCEPT ![p] = c] /\ call[p].pc = "ifree" /\ dI' = ibits
      /\ UNCHANGED <<ibits, bbits, open, dB, tab, blk, made, crashes>> /\ ~stopped'
  BY DEF FreeInode, SetCall, DirInv, PcIs
<1>2. call[p] \in Calls /\ CallShape(call[p])
  BY CallKnown
<1>3. /\ c.op = call[p].op /\ c.path = call[p].path /\ c.dir = call[p].dir /\ c.ino = call[p].ino
      /\ c.b = call[p].b /\ c.pure = call[p].pure /\ c.pc = "zread" /\ c \in Calls
  BY <1>2 DEF Calls, Pcs
<1> HIDE DEF c
<1>4. Deletes(call[p])
  BY <1>1, <1>2 DEF CallShape
<1>5. SameStage(call[p], c)
  BY <1>1, <1>3, <1>4 DEF SameStage, Making, Entered, Chosen, Removed, Freed, Searching, Resizing,
                    Releases, New, Deletes
<1>6. CallShape(c)
  BY <1>1, <1>2, <1>3 DEF CallShape, New, Making, Entered, Deletes
<1>7. ~HasBlock(c)
  BY <1>3 DEF HasBlock, Making, Entered
<1> QED
  BY <1>1, <1>3, <1>5, <1>6, <1>7, SameStageStep

----------------------------------------------------------------------------
(* inode_open of an inode in memory and inode_close change one count.      *)
Opens == [Inos -> [cnt : Nat, inode : Inodes]]

LEMMA OpenedOne ==
    ASSUME NEW o \in Opens, NEW d \in Inos
    PROVE  /\ Opened(o, d) \in Opens
           /\ Opened(o, d)[d].cnt = o[d].cnt + 1 /\ Opened(o, d)[d].inode = o[d].inode
           /\ \A f \in Inos : f # d => Opened(o, d)[f] = o[f]
<1>1. o[d] \in [cnt : Nat, inode : Inodes]
  BY DEF Opens
<1> DEFINE r == [o[d] EXCEPT !.cnt = o[d].cnt + 1]
<1>2. r \in [cnt : Nat, inode : Inodes] /\ r.cnt = o[d].cnt + 1 /\ r.inode = o[d].inode
  BY <1>1
<1>3. Opened(o, d) = [o EXCEPT ![d] = r]
  BY <1>1 DEF Opened, Opens
<1> HIDE DEF r
<1> QED
  BY <1>2, <1>3 DEF Opens

LEMMA ClosedOne ==
    ASSUME NEW o \in Opens, NEW d \in Inos, o[d].cnt > 0
    PROVE  /\ Closed(o, d) \in Opens
           /\ Closed(o, d)[d].cnt = o[d].cnt - 1
           /\ o[d].cnt > 1 => Closed(o, d)[d].inode = o[d].inode
           /\ \A f \in Inos : f # d => Closed(o, d)[f] = o[f]
<1>1. o[d] \in [cnt : Nat, inode : Inodes] /\ o[d].cnt \in Nat
  BY DEF Opens
<1>2. CASE o[d].cnt = 1
  <2>1. Closed(o, d) = [o EXCEPT ![d] = NotOpen]
    BY <1>2 DEF Closed
  <2>2. NotOpen \in [cnt : Nat, inode : Inodes] /\ NotOpen.cnt = 0
    BY IdleKnown DEF NotOpen
  <2> QED
    BY <1>2, <2>1, <2>2 DEF Opens
<1>3. CASE o[d].cnt # 1
  <2> DEFINE r == [o[d] EXCEPT !.cnt = o[d].cnt - 1]
  <2>1. r \in [cnt : Nat, inode : Inodes] /\ r.cnt = o[d].cnt - 1 /\ r.inode = o[d].inode
    BY <1>1
  <2>2. Closed(o, d) = [o EXCEPT ![d] = r]
    BY <1>1, <1>3 DEF Closed, Opens
  <2> HIDE DEF r
  <2> QED
    BY <2>1, <2>2 DEF Opens
<1> QED
  BY <1>2, <1>3

(* A call that returns closes the directory it has opened. *)
LEMMA ReturnOpens ==
    ASSUME DirInv, NEW p \in Procs, Return(p, open), \A d : ~Releases(call[p], d),
           ~Searching(call[p]) \/ call[p].dir = 0
    PROVE  /\ call' = [call EXCEPT ![p] = Idle]
           /\ open' \in [Inos -> [cnt : Nat, inode : Inodes]] /\ CountsExact'
           /\ \A d \in Inos : (Kept(d) /\ open'[d].cnt > 0) =>
               /\ open'[d].inode.no = d /\ open'[d].inode.blk = tab[d].blk
               /\ open'[d].inode.size = SizeOf(d)
<1> DEFINE d == call[p].dir
<1>1. call' = [call EXCEPT ![p] = Idle] /\ open' = IF d = 0 THEN open ELSE Closed(open, d)
  BY DEF Return, SetCall
<1>2. open \in Opens /\ d \in Inos
  BY OpenKnown, CallKnown DEF Opens, Calls
<1>3. CASE d = 0
  <2>1. \A f : ~Holds(call[p], f)
    BY <1>3 DEF Holds
  <2>2. CountsExact'
    BY <1>1, <1>3, <2>1, IdleKnown, CountsSame
  <2> QED
    BY <1>1, <1>3, <2>2, OpenKnown
<1>4. CASE d # 0
  <2>1. \A f : Holds(call[p], f) <=> f = d
    BY <1>4 DEF Holds
  <2>2. open[d].cnt > 0 /\ \A f \in Inos : open[f].cnt \in Nat
    BY <1>2, <2>1, CountPositive DEF Opens
  <2>3. /\ open' \in Opens /\ open'[d].cnt = open[d].cnt - 1
        /\ open[d].cnt > 1 => open'[d].inode = open[d].inode
        /\ \A f \in Inos : f # d => open'[f] = open[f]
    BY <1>1, <1>2, <1>4, <2>2, ClosedOne
  <2>4. \A f \in Inos : open'[f].cnt = open[f].cnt + One(Holds(Idle, f)) - One(Holds(call[p], f))
                                     + One(Releases(Idle, f)) - One(Releases(call[p], f))
    BY <2>1, <2>2, <2>3, IdleKnown DEF One
  <2>5. CountsExact'
    BY <1>1, <2>4, CountsMove
  <2>6. \A f \in Inos : open'[f].cnt > 0 => open'[f].inode = open[f].inode /\ open[f].cnt > 0
    BY <2>2, <2>3
  <2> QED
    BY <1>1, <2>3, <2>5, <2>6, OpenKnown DEF Opens
<1> QED
  BY <1>3, <1>4

LEMMA FinishStep ==
    ASSUME DirInv, NEW p \in Procs, Finish(p)
    PROVE  DirInv'
<1>1. /\ call[p].pc = "isync" /\ dI' = ibits /\ Return(p, open)
      /\ UNCHANGED <<ibits, bbits, dB, tab, blk, made, crashes>> /\ ~stopped'
  BY DEF Finish, InodeSync, PcIs, DirInv
<1>2. ~Searching(call[p]) /\ \A d : ~Releases(call[p], d)
  BY <1>1 DEF Searching, Releases
<1> QED
  BY <1>1, <1>2, ReturnOpens, IdleKnown, QuietStep

----------------------------------------------------------------------------
(* inode_bitmap_alloc and, for a directory, block_bitmap_alloc: the number *)
(* and the block are nobody else's.                                        *)
LEMMA TakeStep ==
    ASSUME DirInv, NEW p \in Procs, NEW c \in Calls, call' = [call EXCEPT ![p] = c],
           call[p].pc \in {"root", "sub"}, New(c), c.pc \in {"bsync", "eread"},
           c.op = "mkdir" => c.pc = "bsync", CallShape(c), DirOf(c),
           c.ino \in Inos \ ibits, ~Releasing(c.ino), ibits' = ibits \cup {c.ino},
           IF c.op = "mkdir" THEN c.b \in Blks \ bbits /\ bbits' = bbits \cup {c.b}
                             ELSE bbits' = bbits,
           \A d : Holds(c, d) <=> Holds(call[p], d),
           UNCHANGED <<open, dI, dB, tab, blk, made, crashes>>, ~stopped'
    PROVE  DirInv'
<1>0. DirTypeOK /\ EntriesOnce /\ NumbersOwned /\ ChosenFresh /\ RootKept
  BY DEF DirInv
<1>1. /\ call'[p] = c /\ \A q \in Procs : q # p => call'[q] = call[q]
      /\ call' \in [Procs -> Calls]
  BY <1>0, CallsSet
<1>2. /\ ~Owns(call[p]) /\ ~Making(call[p]) /\ ~Entered(call[p]) /\ ~Removed(call[p]) /\ ~Freed(call[p])
      /\ ~Chosen(call[p]) /\ ~HasBlock(call[p]) /\ ~Resizing(call[p]) /\ (\A d : ~Leaving(call[p], d))
      /\ call[p].pc # "isync" /\ \A d : ~Releases(call[p], d)
  BY DEF Owns, Making, Entered, Removed, Freed, Chosen, HasBlock, Resizing, Leaving, Releases
<1>3. /\ Owns(c) /\ Making(c) /\ ~Entered(c) /\ ~Removed(c) /\ ~Freed(c)
      /\ (HasBlock(c) <=> c.op = "mkdir") /\ ~Resizing(c) /\ (\A d : ~Leaving(c, d)) /\ c.pc # "isync"
      /\ ~Chosen(c) /\ \A d : ~Releases(c, d)
  BY DEF Owns, Making, Entered, Removed, Freed, Chosen, HasBlock, Resizing, Leaving, Deletes, New, Releases
<1>4. \A d : BeingMade(d)' <=> BeingMade(d)
  BY <1>1, <1>2, <1>3, StagesNamed
<1>5. /\ \A s, d : SubAt(s, d)' <=> SubAt(s, d)
      /\ \A b, s : Filled(b, s)' <=> Filled(b, s)
      /\ \A d : SizeOf(d)' = SizeOf(d)
  BY DEF SubAt, Filled, SizeOf
<1>6. \A d : Made(d)' <=> Made(d)
  BY <1>4, <1>5 DEF Made
<1>7. \A d : Kept(d)' <=> Kept(d)
  BY <1>1, <1>2, <1>3, <1>6 DEF Kept
<1>8. \A path : path \in UnderWay' <=> path \in UnderWay
  BY <1>1, <1>2, <1>3, StagesNamed
<1>9. c.ino # 0 /\ \A q \in Procs : Owns(call[q]) \/ Chosen(call[q]) => c.ino # call[q].ino
  <2>1. c.ino # 0
    BY <1>0 DEF RootKept
  <2>2. \A q \in Procs : Deletes(call[q]) => c.ino # call[q].ino
    BY DEF Releasing
  <2>3. \A q \in Procs : Freed(call[q]) \/ Chosen(call[q]) => Deletes(call[q])
    BY DEF Freed, Chosen
  <2>4. \A q \in Procs : Owns(call[q]) /\ ~Freed(call[q]) => call[q].ino \in ibits
    BY <1>0 DEF NumbersOwned
  <2> QED
    BY <2>1, <2>2, <2>3, <2>4
<1>10. DirTypeOK'
  BY <1>0, <1>1 DEF DirTypeOK
<1>11. Shapes'
  BY <1>1 DEF DirInv, Shapes
<1>12. DirsHeld'
  BY <1>1, <1>4, <1>5, <1>6 DEF DirInv, DirsHeld, DirOf
<1>13. NumbersOwned'
  BY <1>0, <1>1, <1>3, <1>9 DEF NumbersOwned
<1>14. ChosenFresh'
  BY <1>0, <1>1, <1>3, <1>9 DEF ChosenFresh
<1>27. ChosenFiles'
  BY <1>1, <1>3, <1>5 DEF DirInv, ChosenFiles, IsFile
<1>15. EntriesOnce'
  BY <1>0, <1>5 DEF EntriesOnce
<1>16. OwnedEntries'
  BY <1>0, <1>1, <1>3, <1>5 DEF DirInv, OwnedEntries, EntriesOnce
<1>17. Occupied'
  BY <1>5, <1>6 DEF DirInv, Occupied
<1>18. bbits \subseteq bbits'
  OBVIOUS
<1>19. KeptDirs'
  BY <1>1, <1>2, <1>5, <1>7, <1>18 DEF DirInv, KeptDirs
<1>20. NewBlocks'
  <2>1. \A d \in Inos : Kept(d) => tab[d].blk \in bbits
    BY DEF DirInv, KeptDirs
  <2>2. \A q \in Procs : HasBlock(call[q]) => call[q].b \in bbits
    BY DEF DirInv, NewBlocks
  <2>3. c.op = "mkdir" => c.b \in bbits' /\ c.b \notin bbits /\ c.pc = "bsync"
    OBVIOUS
  <2> QED
    BY <1>1, <1>3, <1>7, <1>18, <2>1, <2>2, <2>3 DEF DirInv, NewBlocks
<1>21. FilesKept'
  BY <1>1, <1>2, <1>3 DEF DirInv, FilesKept, FileInode
<1>22. MarkedOnDisk'
  BY <1>1, <1>2, <1>5 DEF DirInv, MarkedOnDisk
<1>23. RootKept'
  BY DEF DirInv, RootKept
<1>24. NoneLeaked'
  BY <1>1, <1>2, <1>3, <1>5, <1>7 DEF DirInv, NoneLeaked
<1>25. CountsExact'
  BY <1>2, <1>3, CountsSame
<1>26. MadeThere'
  <2>1. /\ \A path, s, t : Lies(path, s, t)' <=> Lies(path, s, t)
        /\ \A path, s, t : Lasts(path, s, t)' <=> Lasts(path, s, t)
    BY <1>4, <1>5 DEF Lies, SubBlk, Lasts
  <2> QED
    BY <1>8, <2>1 DEF DirInv, MadeThere, There
<1> QED
  BY <1>10, <1>11, <1>12, <1>13, <1>14, <1>15, <1>16, <1>17, <1>19, <1>20, <1>21,
     <1>22, <1>23, <1>24, <1>25, <1>26, <1>27 DEF DirInv

LEMMA LeastNat ==
    ASSUME NEW S \in SUBSET Nat, S # {}
    PROVE  \E m \in S : \A n \in S : m <= n
<1>1. \E R : IsWellFoundedOn(R, Nat) /\ \A x, y \in Nat : x < y => <<x, y>> \in R
  <2>1. IsWellFoundedOn(OpToRel(<, Nat), Nat)
    BY NatLessThanWellFounded
  <2>2. \A x, y \in Nat : x < y => <<x, y>> \in OpToRel(<, Nat)
    BY Zenon DEF OpToRel
  <2> QED
    BY <2>1, <2>2, Zenon
<1>2. PICK R : IsWellFoundedOn(R, Nat) /\ \A x, y \in Nat : x < y => <<x, y>> \in R
  BY <1>1
<1>3. \E x \in S : \A y \in S : ~ (<<y, x>> \in R)
  <2>1. IsWellFoundedOn(R, Nat)
    BY <1>2
  <2>2. S \subseteq Nat /\ S # {}
    OBVIOUS
  <2> QED
    BY ONLY <2>1, <2>2, WFMin, Zenon
<1>4. PICK x \in S : \A y \in S : ~ (<<y, x>> \in R)
  BY <1>3
<1>5. \A y \in S : x <= y
  <2>1. ASSUME NEW y \in S PROVE ~(y < x)
    BY <1>2, <1>4
  <2> QED
    BY <2>1
<1> QED
  BY <1>5

LEMMA LowestIn ==
    ASSUME NEW S \in SUBSET Nat, S # {}
    PROVE  Lowest(S) \in S
  BY LeastNat DEF Lowest

LEMMA FoundEntry ==
    ASSUME DirInv, NEW b \in Blks, NEW n, NEW e \in Named(blk[b], n)
    PROVE  /\ \E s \in Slots : Filled(b, s) /\ blk[b][s] = e
           /\ e.name = n /\ e.ino \in Inos \ {0} /\ e.type \in {"file", "dir"}
           /\ \A f \in Named(blk[b], n) : f = e
<1>0. DirTypeOK
  BY DEF DirInv
<1>1. e.name = n /\ \E s \in Slots : Filled(b, s) /\ blk[b][s] = e
  BY DEF Named, Entries, Filled
<1>2. e.ino \in Inos \ {0} /\ e.type \in {"file", "dir"}
  BY <1>0, <1>1, EntryTypes
<1>3. ASSUME NEW f \in Named(blk[b], n) PROVE f = e
  <2>1. f.name = n /\ \E s \in Slots : Filled(b, s) /\ blk[b][s] = f
    BY DEF Named, Entries, Filled
  <2> QED
    BY <1>1, <2>1 DEF DirInv, EntriesOnce
<1> QED
  BY <1>1, <1>2, <1>3

LEMMA EntryOfFields ==
    ASSUME NEW c
    PROVE  /\ EntryOf(c) # NoEntry /\ EntryOf(c).ino = c.ino /\ EntryOf(c).name = Target(c)
           /\ EntryOf(c).type = IF c.op = "mkdir" THEN "dir" ELSE "file"
<1>1. /\ EntryOf(c).ino = c.ino /\ EntryOf(c).name = Target(c)
      /\ EntryOf(c).type = IF c.op = "mkdir" THEN "dir" ELSE "file"
  BY DEF EntryOf
<1>2. NoEntry.type = "unknown"
  BY DEF NoEntry
<1> QED
  BY <1>1, <1>2

(* A call that is making a file has the only entry with its number.        *)
LEMMA NewEntry ==
    ASSUME DirInv, NEW q \in Procs, Making(call[q]) \/ Entered(call[q]),
           NEW b \in Blks, NEW s \in Slots, Filled(b, s), blk[b][s].ino = call[q].ino
    PROVE  Entered(call[q]) /\ b = tab[Parent(call[q])].blk /\ blk[b][s] = EntryOf(call[q])
<1>1. Entered(call[q])
  BY DEF DirInv, OwnedEntries
<1>2. tab[Parent(call[q])].blk \in Blks
  BY <1>1, ParentKnown DEF Entered
<1> DEFINE k == tab[Parent(call[q])].blk
<1>3. PICK t \in Slots : blk[k][t] = EntryOf(call[q])
  BY <1>1 DEF DirInv, OwnedEntries
<1>4. Filled(k, t) /\ blk[k][t].ino = call[q].ino
  BY <1>3, EntryOfFields DEF Filled
<1> HIDE DEF k
<1>5. b = k /\ s = t
  BY <1>2, <1>4 DEF DirInv, EntriesOnce, k
<1> QED
  BY <1>1, <1>3, <1>5 DEF k

LEMMA LookedStep ==
    ASSUME DirInv, NEW p \in Procs, NEW c \in Calls, call[p].pc \in {"root", "sub"},
           c.pc = call[p].pc, c.op = call[p].op, c.dir = call[p].dir, c.path \in Paths,
           c.op = "mkdir" => Len(c.path) = 1,
           Len(c.path) = 1 => c.dir = 0, Len(c.path) = 2 => call[p].pc = "sub" /\ c.path = call[p].path,
           NEW b \in Blks, Looked(p, c, Named(blk[b], Target(c)), open), ~clash',
           UNCHANGED <<dI, dB, tab, blk, made, stopped, crashes>>
    PROVE  DirInv'
<1> DEFINE found == Named(blk[b], Target(c))
<1>0. /\ ~stopped' /\ ibits \subseteq Inos /\ bbits \subseteq Blks
      /\ call[p] \in Calls /\ CallShape(call[p]) /\ DirOf(call[p])
      /\ Len(c.path) \in {1, 2}
  BY CallKnown DEF DirInv, DirTypeOK, Paths
<1>1. \A d : ~Releases(call[p], d)
  BY DEF Releases
<1>2. \A e : (e.op = c.op /\ e.path = c.path /\ e.dir = c.dir /\ e.pc \in {"bsync", "eread"} /\ e.op # "rmdir")
             => /\ DirOf(e) /\ \A d : Holds(e, d) <=> Holds(call[p], d)
  <2>1. Len(c.path) = 2 =>
            /\ c.dir # 0 /\ ~BeingMade(c.dir)
            /\ \E s \in Slots : SubAt(s, c.dir) /\ blk[0][s].name = c.path[1]
    BY <1>0 DEF DirOf, Searching
  <2> QED
    BY <1>0, <2>1 DEF DirOf, Searching, Holds, CallShape
<1>3. ASSUME c.op \in {"create", "mkdir"}, Inos \ ibits # {}, c.op = "mkdir" => Blks \ bbits # {},
             ~Releasing(Lowest(Inos \ ibits)), Take(Lowest(Inos \ ibits)),
             NEW k, k = IF c.op = "mkdir" THEN Lowest(Blks \ bbits) ELSE NoBlock,
             bbits' = bbits \cup ({k} \ {NoBlock}),
             SetCall(p, [c EXCEPT !.ino = Lowest(Inos \ ibits), !.b = k,
                                  !.pc = IF c.op = "mkdir" THEN "bsync" ELSE "eread"]),
             open' = open
      PROVE  DirInv'
  <2> DEFINE i == Lowest(Inos \ ibits)
             e == [c EXCEPT !.ino = i, !.b = k, !.pc = IF c.op = "mkdir" THEN "bsync" ELSE "eread"]
  <2>1. i \in Inos \ ibits
    BY <1>3, LowestIn DEF Inos
  <2>2. c.op = "mkdir" => k \in Blks \ bbits
    BY <1>3, LowestIn DEF Blks
  <2>3. k \in Blks \cup {NoBlock} /\ (c.op # "mkdir" => k = NoBlock)
    BY <1>3, <2>2
  <2>4. e \in Calls /\ e.op = c.op /\ e.path = c.path /\ e.dir = c.dir /\ e.ino = i /\ e.b = k
        /\ e.pc = IF c.op = "mkdir" THEN "bsync" ELSE "eread"
    <3> HIDE DEF i
    <3> QED
      BY <2>1, <2>3 DEF Calls, Pcs
  <2>5. call' = [call EXCEPT ![p] = e] /\ ibits' = ibits \cup {e.ino}
    BY <1>3, <2>4 DEF SetCall, Take
  <2>6. ~Releasing(e.ino)
    BY <1>3, <2>4
  <2>7. IF e.op = "mkdir" THEN e.b \in Blks \ bbits /\ bbits' = bbits \cup {e.b} ELSE bbits' = bbits
    BY <1>3, <2>2, <2>3, <2>4, IdleKnown
  <2> HIDE DEF e, i
  <2>8. CallShape(e) /\ New(e)
    BY <1>3, <2>3, <2>4 DEF CallShape, New, Making, Entered, Deletes
  <2> QED
    BY <1>0, <1>2, <1>3, <2>1, <2>4, <2>5, <2>6, <2>7, <2>8, TakeStep
<1>4. ASSUME c.op = "unlink", Removable(found) # {},
             SetCall(p, [c EXCEPT !.ino = (CHOOSE x \in found : TRUE).ino, !.pc = "eread"]),
             open' = open, UNCHANGED <<ibits, bbits>>
      PROVE  DirInv'
  <2> DEFINE x == CHOOSE x \in found : TRUE
             e == [c EXCEPT !.ino = x.ino, !.pc = "eread"]
  <2>1. PICK r \in found : r.type = "file" /\ ~InUse(r.ino)
    BY <1>4 DEF Removable
  <2>2. x = r
    <3>1. x \in found
      BY <2>1
    <3> QED
      BY <2>1, <3>1, FoundEntry
  <2>3. PICK s \in Slots : Filled(b, s) /\ blk[b][s] = r
    BY <2>1, FoundEntry
  <2>4. r.ino \in Inos \ {0}
    BY <2>1, FoundEntry
  <2> HIDE DEF x, found
  <2>5. e \in Calls /\ e.op = c.op /\ e.path = c.path /\ e.dir = c.dir /\ e.ino = r.ino
        /\ e.pc = "eread" /\ e.b = c.b
    BY <2>2, <2>4 DEF Calls, Pcs
  <2>6. call' = [call EXCEPT ![p] = e]
    BY <1>4 DEF SetCall, x
  <2> HIDE DEF e
  <2>7. ASSUME NEW q \in Procs, Making(call[q]) \/ Entered(call[q]), call[q].ino = r.ino
        PROVE  FALSE
    <3>1. call[q].op \in {"create", "mkdir"}
      BY <2>7 DEF Making, Entered, New
    <3>2. call[q].op = "mkdir"
      BY <2>1, <2>7, <3>1 DEF InUse
    <3>3. blk[b][s] = EntryOf(call[q])
      BY <2>3, <2>7, <3>2, NewEntry
    <3> QED
      BY <2>1, <2>3, <3>2, <3>3 DEF EntryOf
  <2>8. CallShape(e) /\ Deletes(e)
    BY <1>4, <2>5 DEF CallShape, New, Making, Entered, Deletes
  <2>9. DirOf(e) /\ \A d : Holds(e, d) <=> Holds(call[p], d)
    BY <1>2, <1>4, <2>5
  <2>10. \A d : ~Releases(e, d)
    BY <2>5 DEF Releases
  <2>11. CountsExact'
    BY <1>1, <1>4, <2>6, <2>9, <2>10, CountsSame
  <2>12. e.ino # 0 /\ \A q \in Procs : Making(call[q]) \/ Entered(call[q]) => e.ino # call[q].ino
    BY <2>4, <2>5, <2>7
  <2>13. IsFile(e.ino)
    BY <2>1, <2>3, <2>5 DEF DirInv, EntriesOnce, IsFile
  <2> QED
    BY <1>0, <1>4, <2>5, <2>6, <2>8, <2>9, <2>11, <2>12, <2>13, QuietStep, OpenKnown
<1>5. ASSUME Return(p, open), UNCHANGED <<ibits, bbits>>
      PROVE  DirInv'
  <2>1. ~Searching(call[p]) \/ call[p].dir = 0
    BY <1>0 DEF Searching, CallShape
  <2> QED
    BY <1>0, <1>1, <1>5, <2>1, ReturnOpens, IdleKnown, QuietStep
<1> HIDE DEF found
<1>6. \/ /\ c.op \in {"create", "mkdir"} /\ found = {}
         /\ Inos \ ibits # {} /\ (c.op = "mkdir" => Blks \ bbits # {})
         /\ clash' = (clash \/ Releasing(Lowest(Inos \ ibits)))
         /\ LET i == Lowest(Inos \ ibits)
                k == IF c.op = "mkdir" THEN Lowest(Blks \ bbits) ELSE NoBlock
            IN  /\ Take(i)
                /\ bbits' = bbits \cup ({k} \ {NoBlock})
                /\ SetCall(p, [c EXCEPT !.ino = i, !.b = k,
                                     !.pc = IF c.op = "mkdir" THEN "bsync" ELSE "eread"])
         /\ open' = open
      \/ /\ c.op = "unlink" /\ Removable(found) # {}
         /\ SetCall(p, [c EXCEPT !.ino = (CHOOSE e \in found : TRUE).ino, !.pc = "eread"])
         /\ open' = open /\ UNCHANGED <<ibits, bbits, clash>>
      \/ Return(p, open) /\ UNCHANGED <<ibits, bbits, clash>>
  BY Zenon DEF Looked, found
<1> QED
  BY <1>3, <1>4, <1>5, <1>6

LEMMA DirOpenedStep ==
    ASSUME DirInv, NEW p \in Procs, NEW c \in Calls, call[p].pc \in {"root", "open"},
           c.op = call[p].op, c.path = call[p].path, c.ino = call[p].ino, c.b = call[p].b,
           Len(c.path) = 2 \/ c.op = "rmdir", c.dir # 0, ~BeingMade(c.dir),
           NEW s \in Slots, SubAt(s, c.dir), blk[0][s].name = c.path[1],
           NEW o \in Opens, o[c.dir].cnt = open[c.dir].cnt + 1,
           \A f \in Inos : f # c.dir => o[f] = open[f],
           o[c.dir].inode.no = c.dir, o[c.dir].inode.blk = tab[c.dir].blk,
           o[c.dir].inode.size = SizeOf(c.dir),
           DirOpened(p, c, o),
           UNCHANGED <<ibits, bbits, dI, dB, tab, blk, made, stopped, crashes>>
    PROVE  DirInv'
<1> DEFINE d == c.dir
<1>0. /\ ~stopped' /\ call[p] \in Calls /\ CallShape(call[p])
      /\ c.path \in Paths /\ Len(c.path) \in {1, 2} /\ d \in Inos /\ c.ino = 0
      /\ \A f \in Inos : open[f].cnt \in Nat
  <2>1. call[p] \in Calls /\ CallShape(call[p])
    BY CallKnown
  <2>2. c.path \in Paths /\ c.ino = 0
    BY <2>1 DEF CallShape
  <2> QED
    BY <2>1, <2>2, OpenKnown DEF DirInv, Paths, Calls
<1>1. /\ \A f : ~Releases(call[p], f) /\ ~Holds(call[p], f)
  BY DEF Releases, Holds, Searching
<1>2. Made(d) /\ Kept(d)
  BY DEF Made, Kept
<1>3. \A f \in Inos : (Kept(f) /\ o[f].cnt > 0) =>
               /\ o[f].inode.no = f /\ o[f].inode.blk = tab[f].blk
               /\ o[f].inode.size = SizeOf(f)
  BY OpenKnown
<1>4. \A e : (\A f : Holds(e, f) <=> f = d) /\ (\A f : ~Releases(e, f)) /\ call' = [call EXCEPT ![p] = e]
             /\ open' = o => CountsExact'
  <2> SUFFICES ASSUME NEW e, \A f : Holds(e, f) <=> f = d, \A f : ~Releases(e, f),
                      call' = [call EXCEPT ![p] = e], open' = o
               PROVE  CountsExact'
    OBVIOUS
  <2>1. \A f \in Inos : open'[f].cnt = open[f].cnt + One(Holds(e, f)) - One(Holds(call[p], f))
                                     + One(Releases(e, f)) - One(Releases(call[p], f))
    BY <1>0, <1>1 DEF One
  <2> QED
    BY <2>1, CountsMove
<1>5. ASSUME Len(c.path) = 2, SetCall(p, [c EXCEPT !.pc = "sub"]), open' = o
      PROVE  DirInv'
  <2> DEFINE e == [c EXCEPT !.pc = "sub"]
  <2>1. e \in Calls /\ e.op = c.op /\ e.path = c.path /\ e.dir = d /\ e.ino = 0 /\ e.pc = "sub"
    BY <1>0 DEF Calls, Pcs
  <2>2. call' = [call EXCEPT ![p] = e]
    BY <1>5 DEF SetCall
  <2> HIDE DEF e
  <2>3. CallShape(e)
    BY <1>0, <1>5, <2>1 DEF CallShape, New, Making, Entered, Deletes
  <2>4. DirOf(e)
    BY <1>0, <1>5, <2>1, <2>3 DEF DirOf, CallShape
  <2>5. CountsExact'
    <3>1. \A f : (Holds(e, f) <=> f = d) /\ ~Releases(e, f)
      BY <2>1 DEF Holds, Releases, Searching
    <3> QED
      BY <1>4, <1>5, <2>2, <3>1
  <2> QED
    BY <1>0, <1>3, <1>5, <2>1, <2>2, <2>3, <2>4, <2>5, QuietStep DEF Opens
<1>6. ASSUME Len(c.path) = 1, SetCall(p, [c EXCEPT !.ino = c.dir, !.pc = "eread"]), open' = o
      PROVE  DirInv'
  <2> DEFINE e == [c EXCEPT !.ino = c.dir, !.pc = "eread"]
  <2>1. e \in Calls /\ e.op = "rmdir" /\ e.path = c.path /\ e.dir = d /\ e.ino = d /\ e.pc = "eread"
    <3>1. c.op = "rmdir"
      BY <1>6
    <3>2. \A i \in Inos : LET r == [c EXCEPT !.ino = i, !.pc = "eread"]
                         IN  /\ r \in Calls /\ r.op = c.op /\ r.path = c.path /\ r.dir = c.dir
                             /\ r.ino = i /\ r.pc = "eread"
      BY DEF Calls, Pcs
    <3> QED
      BY <1>0, <3>1, <3>2
  <2>2. call' = [call EXCEPT ![p] = e]
    BY <1>6 DEF SetCall
  <2> HIDE DEF e
  <2>3. CallShape(e) /\ Deletes(e)
    BY <1>0, <1>6, <2>1 DEF CallShape, New, Making, Entered, Deletes
  <2>4. DirOf(e)
    BY <1>0, <1>2, <1>6, <2>1 DEF DirOf
  <2>5. CountsExact'
    <3>1. \A f : (Holds(e, f) <=> f = d) /\ ~Releases(e, f)
      BY <2>1 DEF Holds, Releases, Searching
    <3> QED
      BY <1>4, <1>6, <2>2, <3>1
  <2>6. ASSUME NEW q \in Procs, Making(call[q]) \/ Entered(call[q]), call[q].ino = d
        PROVE  FALSE
    <3>1. Filled(0, s) /\ blk[0][s].ino = call[q].ino /\ blk[0][s].type = "dir" /\ 0 \in Blks
      BY <2>6, EntryTypes, IdleKnown DEF SubAt, DirInv
    <3>2. Entered(call[q]) /\ blk[0][s] = EntryOf(call[q])
      BY <2>6, <3>1, NewEntry
    <3>3. call[q].op = "mkdir"
      BY <3>1, <3>2, EntryOfFields
    <3> QED
      BY <2>6, <3>2, <3>3, StagesNamed
  <2>7. /\ call[p].pc \in {"idle", "root", "open", "sub", "isync"} /\ e.pc = "eread"
        /\ e.ino # 0 /\ e.op # "unlink"
        /\ \A q \in Procs : Making(call[q]) \/ Entered(call[q]) => e.ino # call[q].ino
    BY <2>1, <2>6
  <2>8. /\ open' \in [Inos -> [cnt : Nat, inode : Inodes]]
        /\ \A f \in Inos : (Kept(f) /\ open'[f].cnt > 0) =>
               /\ open'[f].inode.no = f /\ open'[f].inode.blk = tab[f].blk
               /\ open'[f].inode.size = SizeOf(f)
    BY <1>3, <1>6 DEF Opens
  <2> QED
    BY <1>0, <2>1, <2>2, <2>3, <2>4, <2>5, <2>7, <2>8, QuietStep
<1>7. ASSUME SetCall(p, Idle), open' = Closed(o, c.dir)
      PROVE  DirInv'
  <2>1. o[d].cnt > 0 /\ o[d].cnt = open[d].cnt + 1
    BY <1>0
  <2>2. /\ open' \in Opens /\ open'[d].cnt = open[d].cnt
        /\ open[d].cnt > 0 => open'[d].inode = o[d].inode
        /\ \A f \in Inos : f # d => open'[f] = open[f]
    <3>1. /\ open' \in Opens /\ open'[d].cnt = o[d].cnt - 1
          /\ o[d].cnt > 1 => open'[d].inode = o[d].inode
          /\ \A f \in Inos : f # d => open'[f] = o[f]
      BY <1>0, <1>7, <2>1, ClosedOne
    <3>2. open[d].cnt \in Nat
      BY <1>0
    <3> HIDE DEF d
    <3> QED
      BY <2>1, <3>1, <3>2 DEF d
  <2>3. call' = [call EXCEPT ![p] = Idle]
    BY <1>7 DEF SetCall
  <2>4. \A f \in Inos : open'[f].cnt = open[f].cnt + One(Holds(Idle, f)) - One(Holds(call[p], f))
                                     + One(Releases(Idle, f)) - One(Releases(call[p], f))
    BY <1>0, <1>1, <2>2, IdleKnown DEF One
  <2>5. CountsExact'
    BY <2>3, <2>4, CountsMove
  <2>6. \A f \in Inos : (Kept(f) /\ open'[f].cnt > 0) =>
               /\ open'[f].inode.no = f /\ open'[f].inode.blk = tab[f].blk
               /\ open'[f].inode.size = SizeOf(f)
    BY <2>1, <2>2, OpenKnown
  <2> QED
    BY <1>0, <2>2, <2>3, <2>5, <2>6, IdleKnown, QuietStep DEF Opens
<1> QED
  BY <1>5, <1>6, <1>7 DEF DirOpened

(* Nobody has opened an inode that is still being made. *)
LEMMA NewNotOpen ==
    ASSUME DirInv, NEW q \in Procs, Making(call[q]) \/ Entered(call[q])
    PROVE  open[call[q].ino].cnt = 0
<1> DEFINE d == call[q].ino
<1>1. d \in Inos /\ d # 0 /\ Owns(call[q]) /\ New(call[q])
  BY CallKnown DEF Calls, DirInv, NumbersOwned, Owns, Making, Entered
<1>2. ASSUME NEW r \in Procs, Owns(call[r]), Deletes(call[r]), call[r].ino = d PROVE FALSE
  <2>1. r # q
    BY <1>1, <1>2 DEF New, Deletes
  <2> QED
    BY <1>1, <1>2, <2>1 DEF DirInv, NumbersOwned
<1>3. ~Kept(d)
  <2>1. ASSUME NEW s \in Slots, SubAt(s, d), ~BeingMade(d) PROVE FALSE
    <3>1. Filled(0, s) /\ blk[0][s].ino = d /\ blk[0][s].type = "dir" /\ 0 \in Blks
      BY <2>1, EntryTypes, IdleKnown DEF SubAt, DirInv
    <3>2. Entered(call[q]) /\ blk[0][s] = EntryOf(call[q])
      BY <3>1, NewEntry
    <3>3. call[q].op = "mkdir"
      BY <3>1, <3>2, EntryOfFields
    <3> QED
      BY <2>1, <3>2, <3>3, StagesNamed
  <2>2. ASSUME NEW r \in Procs, Leaving(call[r], d) PROVE FALSE
    <3>1. Owns(call[r]) /\ Deletes(call[r]) /\ call[r].ino = d
      BY <2>2 DEF Leaving, Resizing, Owns, Removed, Deletes
    <3> QED
      BY <1>2, <3>1
  <2> QED
    BY <1>1, <2>1, <2>2 DEF Kept, Made
<1>4. ASSUME open[d].cnt > 0 PROVE FALSE
  <2>1. PICK r \in Procs : Holds(call[r], d) \/ Releases(call[r], d)
    BY <1>1, <1>4, CountPositive
  <2>2. CASE Holds(call[r], d)
    <3>1. call[r].op = "rmdir" /\ call[r].ino = d /\ Owns(call[r])
      BY <1>3, <2>2, HeldDirs
    <3> QED
      BY <1>2, <3>1 DEF Deletes
  <2>3. CASE Releases(call[r], d)
    <3>1. Owns(call[r]) /\ Deletes(call[r]) /\ call[r].ino = d
      BY <2>3 DEF Releases, Owns, Removed, Freed
    <3> QED
      BY <1>2, <3>1
  <2> QED
    BY <2>1, <2>2, <2>3
<1>5. open[d].cnt \in Nat
  BY <1>1, CountPositive
<1> HIDE DEF d
<1>6. open[d].cnt = 0
  BY <1>4, <1>5
<1> QED
  BY <1>6 DEF d

LEMMA SearchRootStep ==
    ASSUME DirInv, NEW p \in Procs, SearchRoot(p), ~clash'
    PROVE  DirInv'
<1> DEFINE c == call[p]
           found == Named(blk[0], c.path[1])
           dirs == {e \in found : e.type = "dir"}
           down == Len(c.path) = 2 \/ c.op = "rmdir"
           ends == ~down \/ (c.op # "rmdir" /\ found # {} /\ dirs = {})
           i == (CHOOSE e \in dirs : TRUE).ino
<1>1. c.pc = "root" /\ c \in Calls /\ CallShape(c) /\ UNCHANGED <<dI, dB, tab, blk, made, stopped, crashes>>
  BY CallKnown DEF SearchRoot, PcIs
<1>2. c.dir = 0 /\ c.ino = 0 /\ c.path \in Paths /\ ~stopped' /\ 0 \in Blks
      /\ (c.op \in {"mkdir", "rmdir"} => Len(c.path) = 1)
  BY <1>1, IdleKnown DEF CallShape, DirInv
<1>3. c.path[1] \in Names /\ Len(c.path) \in {1, 2}
  BY <1>2 DEF Paths
<1>4. \A d : ~Holds(c, d) /\ ~Releases(c, d)
  BY <1>1 DEF Holds, Releases, Searching
<1>5. \/ ends /\ Looked(p, [c EXCEPT !.path = <<c.path[1]>>], found, open)
      \/ /\ down /\ dirs # {}
         /\ \/ open[i].cnt > 0 /\ DirOpened(p, [c EXCEPT !.dir = i], Opened(open, i))
            \/ open[i].cnt = 0 /\ SetCall(p, [c EXCEPT !.dir = i, !.pc = "open"])
               /\ UNCHANGED open
         /\ UNCHANGED <<ibits, bbits, clash>>
      \/ ~ends /\ dirs = {} /\ Return(p, open) /\ UNCHANGED <<ibits, bbits, clash>>
  BY Zenon DEF SearchRoot
<1>6. ASSUME ends, Looked(p, [c EXCEPT !.path = <<c.path[1]>>], found, open) PROVE DirInv'
  <2> DEFINE e == [c EXCEPT !.path = <<c.path[1]>>]
  <2>1. <<c.path[1]>> \in Paths /\ Len(<<c.path[1]>>) = 1
    BY <1>3 DEF Paths
  <2>2. e \in Calls /\ e.op = c.op /\ e.path = <<c.path[1]>> /\ e.dir = c.dir /\ e.pc = c.pc
    <3> HIDE DEF c
    <3> QED
      BY <1>1, <2>1 DEF Calls
  <2>3. Target(e) = c.path[1]
    BY <2>1, <2>2 DEF Target
  <2>4. Looked(p, e, Named(blk[0], Target(e)), open)
    BY <1>6, <2>3
  <2> HIDE DEF e, c
  <2> QED
    BY <1>1, <1>2, <2>1, <2>2, <2>4, LookedStep DEF c
<1>7. ASSUME down, dirs # {}
      PROVE  /\ i \in Inos /\ i # 0
             /\ \E s \in Slots : SubAt(s, i) /\ blk[0][s].name = c.path[1]
  <2>1. PICK e \in dirs : i = e.ino
    BY <1>7
  <2>2. e \in found /\ e.type = "dir"
    BY <2>1
  <2>3. e.ino \in Inos \ {0} /\ e.name = c.path[1] /\ \E s \in Slots : blk[0][s] = e
    BY <1>2, <2>2, FoundEntry
  <2> QED
    BY <2>1, <2>2, <2>3 DEF SubAt
<1> HIDE DEF i, dirs, found, ends
<1>8. ASSUME down, dirs # {}, open[i].cnt > 0, DirOpened(p, [c EXCEPT !.dir = i], Opened(open, i)),
             UNCHANGED <<ibits, bbits, clash>>
      PROVE  DirInv'
  <2> DEFINE e == [c EXCEPT !.dir = i]
             o == Opened(open, i)
  <2>1. PICK s \in Slots : SubAt(s, i) /\ blk[0][s].name = c.path[1]
    BY <1>7, <1>8
  <2>2. i \in Inos /\ i # 0
    BY <1>7, <1>8
  <2>3. e \in Calls /\ e.op = c.op /\ e.path = c.path /\ e.dir = i /\ e.ino = c.ino /\ e.b = c.b
    <3> HIDE DEF c
    <3> QED
      BY <1>1, <2>2 DEF Calls
  <2>4. ~BeingMade(i)
    BY <1>8, <2>2, NewNotOpen, StagesNamed, CountPositive
  <2>5. Kept(i)
    BY <2>1, <2>4 DEF Kept, Made
  <2>6. open \in Opens
    BY OpenKnown DEF Opens
  <2>7. /\ o \in Opens /\ o[i].cnt = open[i].cnt + 1 /\ o[i].inode = open[i].inode
        /\ \A f \in Inos : f # i => o[f] = open[f]
    BY <2>2, <2>6, OpenedOne
  <2>8. open[i].inode.no = i /\ open[i].inode.blk = tab[i].blk /\ open[i].inode.size = SizeOf(i)
    BY <1>8, <2>2, <2>5, OpenKnown
  <2>9. DirOpened(p, e, o)
    BY <1>8
  <2> HIDE DEF e, o, c
  <2> QED
    BY <1>1, <1>8, <2>1, <2>2, <2>3, <2>4, <2>7, <2>8, <2>9, DirOpenedStep DEF c
<1>9. ASSUME down, dirs # {}, SetCall(p, [c EXCEPT !.dir = i, !.pc = "open"]),
             UNCHANGED <<open, ibits, bbits, clash>>
      PROVE  DirInv'
  <2> DEFINE e == [c EXCEPT !.dir = i, !.pc = "open"]
  <2>1. i \in Inos /\ i # 0 /\ \E s \in Slots : SubAt(s, i) /\ blk[0][s].name = c.path[1]
    BY <1>7, <1>9
  <2>2. e \in Calls /\ e.op = c.op /\ e.path = c.path /\ e.dir = i /\ e.ino = c.ino /\ e.pc = "open"
    <3> HIDE DEF c
    <3> QED
      BY <1>1, <2>1 DEF Calls, Pcs
  <2>3. call' = [call EXCEPT ![p] = e]
    BY <1>9 DEF SetCall
  <2> HIDE DEF e
  <2>4. CallShape(e)
    BY <1>1, <1>2, <1>9, <2>2 DEF CallShape, New, Making, Entered, Deletes
  <2>5. DirOf(e)
    BY <2>1, <2>2 DEF DirOf, Searching
  <2>6. \A d : ~Holds(e, d) /\ ~Releases(e, d)
    BY <2>2 DEF Holds, Releases, Searching
  <2>7. CountsExact'
    BY <1>4, <1>9, <2>3, <2>6, CountsSame
  <2> QED
    BY <1>1, <1>2, <1>9, <2>2, <2>3, <2>4, <2>5, <2>7, OpenKnown, QuietStep
<1>10. ASSUME Return(p, open), UNCHANGED <<ibits, bbits, clash>> PROVE DirInv'
  BY <1>1, <1>2, <1>4, <1>10, ReturnOpens, IdleKnown, QuietStep
<1> QED
  BY <1>5, <1>6, <1>8, <1>9, <1>10

LEMMA OpenDirStep ==
    ASSUME DirInv, NEW p \in Procs, OpenDir(p), ~clash'
    PROVE  DirInv'
<1> DEFINE d == call[p].dir
           o == [open EXCEPT ![d] = [cnt |-> 1, inode |-> tab[d]]]
<1>1. /\ call[p].pc = "open" /\ DirOpened(p, call[p], o) /\ ~(open[d].cnt > 0) /\ ~BeingMade(d)
      /\ UNCHANGED <<ibits, bbits, dI, dB, tab, blk, made, stopped, crashes>>
  BY DEF OpenDir, PcIs
<1>2. call[p] \in Calls /\ CallShape(call[p]) /\ DirOf(call[p])
  BY CallKnown
<1>3. d \in Inos /\ d # 0 /\ (Len(call[p].path) = 2 \/ call[p].op = "rmdir")
  BY <1>1, <1>2 DEF Calls, CallShape, DirOf
<1>4. PICK s \in Slots : SubAt(s, d) /\ blk[0][s].name = call[p].path[1]
  BY <1>1, <1>2 DEF DirOf
<1>5. Kept(d)
  BY <1>1, <1>4 DEF Kept, Made
<1>6. open[d].cnt \in Nat /\ open[d].cnt = 0
  BY <1>1, <1>3, CountPositive
<1>7. tab[d].size = SizeOf(d) /\ tab[d].no = d
  <2>1. \A q \in Procs : Resizing(call[q]) /\ Parent(call[q]) = d => open[d].cnt > 0
    BY ParentKnown DEF Resizing
  <2> QED
    BY <1>1, <1>3, <1>5, <2>1 DEF DirInv, KeptDirs
<1>8. open \in Opens /\ tab[d] \in Inodes
  BY <1>3, OpenKnown DEF Opens, DirInv, DirTypeOK
<1>9. /\ o \in Opens /\ o[d].cnt = open[d].cnt + 1 /\ o[d].inode = tab[d]
      /\ \A f \in Inos : f # d => o[f] = open[f]
  <2> DEFINE r == [cnt |-> 1, inode |-> tab[d]]
  <2>1. r \in [cnt : Nat, inode : Inodes] /\ r.cnt = 1 /\ r.inode = tab[d]
    BY <1>8
  <2>2. o = [open EXCEPT ![d] = r]
    OBVIOUS
  <2> HIDE DEF r, o
  <2> QED
    BY <1>3, <1>6, <1>8, <2>1, <2>2 DEF Opens
<1> HIDE DEF o
<1> QED
  BY <1>1, <1>2, <1>3, <1>4, <1>7, <1>9, DirOpenedStep

LEMMA SearchSubStep ==
    ASSUME DirInv, NEW p \in Procs, SearchSub(p), ~clash'
    PROVE  DirInv'
<1> DEFINE d == call[p].dir
           b == open[d].inode.blk
<1>1. /\ call[p].pc = "sub" /\ Looked(p, call[p], Named(blk[b], call[p].path[2]), open)
      /\ UNCHANGED <<dI, dB, tab, blk, made, stopped, crashes>>
  BY DEF SearchSub, PcIs
<1>2. call[p] \in Calls /\ CallShape(call[p]) /\ DirOf(call[p])
  BY CallKnown
<1>3. Len(call[p].path) = 2 /\ call[p].path \in Paths /\ call[p].op # "mkdir"
  BY <1>1, <1>2 DEF CallShape
<1>4. d \in Inos /\ d # 0 /\ Kept(d) /\ Holds(call[p], d)
  BY <1>1, <1>2, <1>3 DEF DirOf, Searching, Kept, Made, Holds, Calls
<1>5. open[d].cnt > 0
  BY <1>4, CountPositive
<1>6. b \in Blks
  BY <1>4, <1>5 DEF DirInv, KeptDirs, DirTypeOK
<1>7. Target(call[p]) = call[p].path[2]
  BY <1>3 DEF Target
<1> HIDE DEF b
<1>8. Looked(p, call[p], Named(blk[b], Target(call[p])), open)
  BY <1>1, <1>7
<1> QED
  BY <1>1, <1>2, <1>3, <1>6, <1>8, LookedStep

----------------------------------------------------------------------------
(* An entry more or less in a block. *)
LEMMA EntryAdded ==
    ASSUME NEW block \in DirBlocks, NEW s \in Slots, block[s] = NoEntry,
           NEW e, e # NoEntry, e \notin Entries(block)
    PROVE  Cardinality(Entries([block EXCEPT ![s] = e])) = Cardinality(Entries(block)) + 1
<1>1. Entries([block EXCEPT ![s] = e]) = Entries(block) \cup {e}
  BY DEF Entries, DirBlocks
<1>2. IsFiniteSet(Entries(block))
  BY EntriesFinite
<1> QED
  BY <1>1, <1>2, FS_AddElement

LEMMA EntryDropped ==
    ASSUME NEW block \in DirBlocks, NEW s \in Slots, block[s] # NoEntry,
           \A t \in Slots : t # s => block[t] # block[s]
    PROVE  Cardinality(Entries([block EXCEPT ![s] = NoEntry])) = Cardinality(Entries(block)) - 1
<1>1. Entries([block EXCEPT ![s] = NoEntry]) = Entries(block) \ {block[s]} /\ block[s] \in Entries(block)
  BY DEF Entries, DirBlocks
<1>2. IsFiniteSet(Entries(block))
  BY EntriesFinite
<1> QED
  BY <1>1, <1>2, FS_RemoveElement

(* dir_inode->i_size in memory. *)
LEMMA ResizedOne ==
    ASSUME DirInv, NEW c, Parent(c) \in Inos
    PROVE  LET d == Parent(c)
               o == Resized(c)
           IN  /\ o \in Opens
               /\ \A f \in Inos : o[f].cnt = open[f].cnt
               /\ \A f \in Inos : f # d => o[f] = open[f]
               /\ o[d].inode.no = open[d].inode.no /\ o[d].inode.blk = open[d].inode.blk
               /\ o[d].inode.size = IF Deletes(c) THEN open[d].inode.size - 1 ELSE open[d].inode.size + 1
<1> DEFINE d == Parent(c)
           n == IF Deletes(c) THEN open[d].inode.size - 1 ELSE open[d].inode.size + 1
           i == [open[d].inode EXCEPT !.size = n]
           r == [open[d] EXCEPT !.inode = i]
<1>1. open \in Opens /\ open[d] \in [cnt : Nat, inode : Inodes] /\ open[d].inode \in Inodes
  BY OpenKnown DEF Opens
<1>2. n \in Int
  BY <1>1 DEF Inodes
<1>3. Resized(c) = [open EXCEPT ![d] = r]
  <2> HIDE DEF d
  <2> QED
    BY <1>1 DEF Resized, d
<1> HIDE DEF n, d
<1>4. i \in Inodes /\ i.size = n /\ i.no = open[d].inode.no /\ i.blk = open[d].inode.blk
  BY <1>1, <1>2 DEF Inodes
<1> HIDE DEF i
<1>5. r \in [cnt : Nat, inode : Inodes] /\ r.cnt = open[d].cnt /\ r.inode = i
  BY <1>1, <1>4
<1> HIDE DEF r
<1>6. d \in Inos
  BY DEF d
<1>7. LET o == [open EXCEPT ![d] = r]
      IN  /\ o \in Opens /\ \A f \in Inos : f # d => o[f] = open[f]
          /\ o[d] = r
  BY <1>1, <1>5, <1>6 DEF Opens
<1> QED
  BY <1>3, <1>4, <1>5, <1>7 DEF n, d

(* sync_dir_entry of a block nobody has changed since it was read.         *)
LEMMA EntryAddStep ==
    ASSUME DirInv, NEW p \in Procs, EntryWrite(p), ~clash', New(call[p])
    PROVE  DirInv'
<1> PICK c, d, B : c = call[p] /\ d = Parent(c) /\ B = tab[d].blk
  OBVIOUS
<1> DEFINE s0 == Lowest({s \in Slots : c.buf[s] = NoEntry})
           e == [c EXCEPT !.pc = "pread", !.buf = <<>>, !.pure = open'[d].inode]
<1>0. /\ DirTypeOK /\ EntriesOnce /\ NumbersOwned /\ ChosenFresh /\ RootKept /\ OwnedEntries
      /\ c \in Calls /\ CallShape(c) /\ DirOf(c) /\ ~Deletes(c)
  BY CallKnown DEF DirInv, New, Deletes
<1>1. /\ c.pc = "ewrite" /\ \E s \in Slots : c.buf[s] = NoEntry
      /\ blk' = [blk EXCEPT ![ParentBlk(c)] = NewBuf(c)] /\ open' = Resized(c)
      /\ call' = [call EXCEPT ![p] = e] /\ made' = made \cup {c.path} /\ ~Outdated(p, c)
      /\ UNCHANGED <<ibits, bbits, dI, dB, tab, crashes>> /\ ~stopped'
  BY <1>0 DEF EntryWrite, PcIs, SetCall, DirInv
<1>2. /\ d \in Inos /\ Made(d) /\ Kept(d) /\ open[d].cnt > 0
      /\ B \in Blks /\ ParentBlk(c) = B
      /\ open[d].inode.no = d /\ open[d].inode.blk = B
      /\ open[d].inode.size = SizeOf(d)
      /\ Len(c.path) = 1 => d = 0
      /\ Len(c.path) = 2 =>
            /\ d = c.dir /\ d # 0
            /\ \E s \in Slots : SubAt(s, d) /\ blk[0][s].name = c.path[1]
      /\ Len(c.path) \in {1, 2} /\ c.path \in Paths
  BY <1>1, ParentKnown
<1>3. c.buf = blk[B] /\ Named(blk[B], Target(c)) = {}
  BY <1>0, <1>1, <1>2 DEF Outdated
<1>4. s0 \in Slots /\ blk[B][s0] = NoEntry
  <2>1. {s \in Slots : c.buf[s] = NoEntry} \in SUBSET Nat
    BY DEF Slots
  <2>2. s0 \in {s \in Slots : c.buf[s] = NoEntry}
    BY <1>1, <2>1, LowestIn
  <2> QED
    BY <1>3, <2>2
<1>5. NewBuf(c) = [blk[B] EXCEPT ![s0] = EntryOf(c)]
  BY <1>0, <1>3 DEF NewBuf, EntryOf
<1> HIDE DEF s0
<1>6. blk[B] \in DirBlocks /\ blk \in [Blks -> DirBlocks]
  BY <1>0, <1>2 DEF DirTypeOK
<1>7. blk' = [blk EXCEPT ![B] = [blk[B] EXCEPT ![s0] = EntryOf(c)]]
  BY <1>1, <1>2, <1>5
<1>8. Target(c) \in Names
  <2>1. CASE Len(c.path) = 1
    BY <1>2, <2>1 DEF Target, Paths
  <2>2. CASE Len(c.path) = 2
    BY <1>2, <2>2 DEF Target, Paths
  <2> QED
    BY <1>2, <2>1, <2>2
<1>9. Making(c) /\ c.ino # 0 /\ c.ino \in ibits /\ c.ino \in Inos
      /\ \A b \in Blks, s \in Slots : Filled(b, s) => blk[b][s].ino # c.ino
  <2>1. Making(c) /\ Owns(c) /\ ~Freed(c)
    BY <1>0, <1>1 DEF Making, Owns, Freed
  <2> QED
    BY <1>0, <2>1 DEF NumbersOwned, OwnedEntries, Calls
<1>10. EntryOf(c) \in [name : Names, ino : Inos \ {0}, type : {"file", "dir"}]
  BY <1>8, <1>9 DEF EntryOf
<1>11. /\ blk' \in [Blks -> DirBlocks]
       /\ blk'[B][s0] = EntryOf(c)
       /\ \A b \in Blks, s \in Slots : b # B \/ s # s0 => blk'[b][s] = blk[b][s]
       /\ \A b \in Blks : b # B => blk'[b] = blk[b]
  <2>1. [blk[B] EXCEPT ![s0] = EntryOf(c)] \in DirBlocks
    BY <1>6, <1>10 DEF DirBlocks
  <2> QED
    BY <1>2, <1>4, <1>6, <1>7, <2>1 DEF DirBlocks
<1>12. /\ EntryOf(c) # NoEntry /\ EntryOf(c).ino = c.ino /\ EntryOf(c).name = Target(c)
       /\ EntryOf(c).type = IF c.op = "mkdir" THEN "dir" ELSE "file"
  BY EntryOfFields
<1>13. \A b \in Blks, s \in Slots : Filled(b, s)' <=> Filled(b, s) \/ (b = B /\ s = s0)
  BY <1>11, <1>12 DEF Filled
<1>14. \A b \in Blks, s \in Slots : Filled(b, s) => blk'[b][s] = blk[b][s]
  BY <1>4, <1>11 DEF Filled
<1>15. open' \in Opens /\ (\A f \in Inos : open'[f].cnt = open[f].cnt)
       /\ (\A f \in Inos : f # d => open'[f] = open[f])
       /\ open'[d].inode.no = d /\ open'[d].inode.blk = B
       /\ open'[d].inode.size = SizeOf(d) + 1
  BY <1>0, <1>1, <1>2, ResizedOne
<1>16. /\ e \in Calls /\ e.op = c.op /\ e.path = c.path /\ e.dir = c.dir /\ e.ino = c.ino /\ e.b = c.b
       /\ e.pc = "pread"
  <2>1. open'[d].inode \in Inodes
    BY <1>2, <1>15 DEF Opens
  <2>2. \A i \in Inodes : LET r == [c EXCEPT !.pc = "pread", !.buf = <<>>, !.pure = i]
                         IN  /\ r \in Calls /\ r.op = c.op /\ r.path = c.path /\ r.dir = c.dir
                             /\ r.ino = c.ino /\ r.b = c.b /\ r.pc = "pread"
    BY <1>0 DEF Calls, Pcs
  <2> QED
    BY <2>1, <2>2
<1>17. /\ call'[p] = e /\ \A q \in Procs : q # p => call'[q] = call[q]
       /\ call' \in [Procs -> Calls]
  BY <1>0, <1>1, <1>16, CallsSet
<1> HIDE DEF e
<1>18. /\ Owns(c) /\ ~Entered(c) /\ ~Removed(c) /\ ~Freed(c) /\ ~Chosen(c) /\ ~Resizing(c)
       /\ (\A f : ~Leaving(c, f)) /\ (\A f : ~Releases(c, f)) /\ ~Searching(c)
  BY <1>0, <1>1, <1>9 DEF Owns, Entered, Removed, Freed, Chosen, Resizing, Leaving, Releases, Searching, Deletes
<1>19. /\ Owns(e) /\ Entered(e) /\ ~Making(e) /\ ~Removed(e) /\ ~Freed(e) /\ ~Chosen(e) /\ Resizing(e)
       /\ (\A f : ~Leaving(e, f)) /\ (\A f : ~Releases(e, f)) /\ ~Searching(e)
       /\ (HasBlock(e) <=> HasBlock(c)) /\ (\A f : Holds(e, f) <=> Holds(c, f))
       /\ Parent(e) = d /\ EntryOf(e) = EntryOf(c) /\ New(e)
  BY <1>0, <1>9, <1>16, <1>18 DEF Owns, Entered, Making, Removed, Freed, Chosen, Resizing, Leaving, Releases,
     Searching, Deletes, New, HasBlock, Holds, Parent, EntryOf, Target
<1>20. \A i : BeingMade(i)' <=> (BeingMade(i) \/ (c.op = "mkdir" /\ i = c.ino))
  BY <1>16, <1>17, <1>18, <1>19, StagesNamed
<1>21. 0 \in Blks /\ tab[0].blk = 0 /\ (c.op = "mkdir" => B = 0)
  BY <1>0, <1>2, IdleKnown DEF RootKept, CallShape
<1>22. \A s \in Slots : \A  i : SubAt(s, i) => SubAt(s, i)' /\ blk'[0][s] = blk[0][s] /\ i # c.ino
  <2>1. \A s \in Slots : \A  i : SubAt(s, i) => Filled(0, s)
    BY <1>0, <1>21, EntryTypes DEF SubAt
  <2> QED
    BY <1>9, <1>14, <1>21, <2>1 DEF SubAt
<1>23. \A s \in Slots : \A  i : SubAt(s, i)' => SubAt(s, i) \/ (c.op = "mkdir" /\ i = c.ino)
  BY <1>11, <1>12, <1>21 DEF SubAt
<1>24. \A i : Made(i)' <=> Made(i)
  BY <1>9, <1>20, <1>22, <1>23 DEF Made
<1>25. \A i : Kept(i)' <=> Kept(i)
  BY <1>17, <1>18, <1>19, <1>24 DEF Kept
<1>26. \A path : path \in UnderWay' <=> path \in UnderWay \/ path = c.path
  <2>1. c.pc # "isync" /\ e.pc # "isync"
    BY <1>1, <1>16
  <2> QED
    BY <1>16, <1>17, <1>18, <1>19, <2>1, StagesNamed
<1>27. /\ SizeOf(d)' = SizeOf(d) + 1
       /\ \A f \in Inos : Kept(f) /\ f # d => SizeOf(f)' = SizeOf(f)
  <2>1. EntryOf(c) \notin Entries(blk[B])
    BY <1>2, <1>9, <1>12 DEF Entries, Filled
  <2>2. Cardinality(Entries(blk'[B])) = Cardinality(Entries(blk[B])) + 1
    <3>1. blk'[B] = [blk[B] EXCEPT ![s0] = EntryOf(c)]
      BY <1>2, <1>6, <1>7
    <3> QED
      BY <1>4, <1>6, <1>12, <2>1, <3>1, EntryAdded
  <2>3. \A f \in Inos : Kept(f) /\ f # d => tab[f].blk # B /\ tab[f].blk \in Blks
    BY <1>0, <1>2 DEF DirInv, KeptDirs, DirTypeOK
  <2>4. Cardinality(Entries(blk[B])) \in Nat
    BY EntriesFinite
  <2>5. SizeOf(d)' = SizeOf(d) + 1
    BY <1>1, <2>2, <2>4 DEF SizeOf
  <2> QED
    BY <1>1, <1>11, <2>3, <2>5 DEF SizeOf
<1>28. DirTypeOK'
  <2>1. made' \subseteq Paths
    BY <1>0, <1>1, <1>2 DEF DirTypeOK
  <2> QED
    BY <1>0, <1>1, <1>11, <1>15, <1>17, <2>1 DEF DirTypeOK, Opens
<1>29. Shapes'
  <2>1. CallShape(e)
    BY <1>0, <1>1, <1>16, <1>19, <1>9 DEF CallShape
  <2> QED
    BY <1>17, <2>1 DEF DirInv, Shapes
<1>30. DirsHeld'
  <2>1. ASSUME NEW q \in Procs, q # p PROVE DirOf(call[q])'
    <3>1. call'[q] = call[q] /\ DirOf(call[q])
      BY <1>17, <2>1, CallKnown
    <3>2. \A s \in Slots : \A i, n : SubAt(s, i) /\ blk[0][s].name = n => SubAt(s, i)' /\ blk'[0][s].name = n
      BY <1>22
    <3>3. \A s \in Slots : \A  i : SubAt(s, i) /\ ~BeingMade(i) => ~BeingMade(i)'
      BY <1>20, <1>22
    <3> QED
      BY <1>24, <3>1, <3>2, <3>3 DEF DirOf
  <2>2. DirOf(call[p])'
    <3>1. call'[p] = e /\ DirOf(c)
      BY <1>0, <1>17
    <3>2. \A s \in Slots : \A i, n : SubAt(s, i) /\ blk[0][s].name = n => SubAt(s, i)' /\ blk'[0][s].name = n
      BY <1>22
    <3>3. \A s \in Slots : \A  i : SubAt(s, i) /\ ~BeingMade(i) => ~BeingMade(i)'
      BY <1>20, <1>22
    <3>4. c.op # "rmdir"
      BY <1>0 DEF Deletes
    <3> QED
      BY <1>16, <1>18, <3>1, <3>2, <3>3, <3>4 DEF DirOf
  <2> QED
    BY <2>1, <2>2 DEF DirsHeld
<1>31. NumbersOwned'
  BY <1>0, <1>1, <1>16, <1>17, <1>18, <1>19 DEF NumbersOwned
<1>32. ChosenFresh'
  BY <1>0, <1>9, <1>16, <1>17, <1>19 DEF ChosenFresh
<1>44. ChosenFiles'
  <2>1. \A q \in Procs : Chosen(call[q]) => call[q].ino # c.ino
    BY <1>0, <1>9 DEF ChosenFresh
  <2>2. \A i : IsFile(i) /\ i # c.ino => IsFile(i)'
    BY <1>11, <1>12, <1>13, <1>14 DEF IsFile
  <2> QED
    BY <1>17, <1>19, <2>1, <2>2 DEF DirInv, ChosenFiles
<1>33. EntriesOnce'
  <2>1. \A s \in Slots : Filled(B, s) => blk[B][s].name # Target(c)
    BY <1>3 DEF Named, Entries, Filled
  <2>2. B # 0 => EntryOf(c).type = "file"
    BY <1>12, <1>21
  <2>3. ASSUME NEW b \in Blks, NEW b2 \in Blks, NEW s \in Slots, NEW t \in Slots,
               Filled(b, s)', Filled(b2, t)', <<b, s>> # <<b2, t>>
        PROVE  blk'[b][s].ino # blk'[b2][t].ino /\ (b = b2 => blk'[b][s].name # blk'[b2][t].name)
    <3>1. CASE b = B /\ s = s0
      <4>1. Filled(b2, t) /\ blk'[b2][t] = blk[b2][t]
        BY <1>13, <1>14, <2>3, <3>1
      <4> QED
        BY <1>9, <1>11, <1>12, <2>1, <3>1, <4>1
    <3>2. CASE b2 = B /\ t = s0
      <4>1. Filled(b, s) /\ blk'[b][s] = blk[b][s]
        BY <1>13, <1>14, <2>3, <3>2
      <4> QED
        BY <1>9, <1>11, <1>12, <2>1, <3>2, <4>1
    <3>3. CASE ~(b = B /\ s = s0) /\ ~(b2 = B /\ t = s0)
      <4>1. Filled(b, s) /\ Filled(b2, t)
        BY <1>13, <2>3, <3>3
      <4> QED
        BY <1>0, <1>14, <2>3, <4>1 DEF EntriesOnce
    <3> QED
      BY <3>1, <3>2, <3>3
  <2>4. \A b \in Blks, s \in Slots : Filled(b, s)' =>
            blk'[b][s].ino \in ibits' /\ (b # 0 => blk'[b][s].type = "file")
    BY <1>0, <1>1, <1>9, <1>11, <1>12, <1>13, <1>14, <2>2 DEF EntriesOnce
  <2> QED
    BY <2>3, <2>4 DEF EntriesOnce
<1>34. OwnedEntries'
  <2>1. ASSUME NEW q \in Procs, q # p, Making(call[q]) \/ Removed(call[q]) \/ Freed(call[q]),
               NEW b \in Blks, NEW s \in Slots, Filled(b, s)'
        PROVE  blk'[b][s].ino # call[q].ino
    <3>1. Owns(call[q])
      BY <2>1 DEF Owns
    <3>2. call[q].ino # c.ino
      BY <1>0, <1>18, <2>1, <3>1 DEF NumbersOwned
    <3> QED
      BY <1>0, <1>11, <1>12, <1>13, <1>14, <2>1, <3>2 DEF OwnedEntries
  <2>2. ASSUME NEW q \in Procs, q # p, Entered(call[q])
        PROVE  \E s \in Slots : blk'[tab[Parent(call[q])].blk][s] = EntryOf(call[q])
    <3>1. tab[Parent(call[q])].blk \in Blks
      BY <2>2, ParentKnown DEF Entered
    <3>2. PICK s \in Slots : blk[tab[Parent(call[q])].blk][s] = EntryOf(call[q])
      BY <1>0, <2>2 DEF OwnedEntries
    <3>3. Filled(tab[Parent(call[q])].blk, s)
      BY <3>2, EntryOfFields DEF Filled
    <3> QED
      BY <1>14, <3>1, <3>2, <3>3
  <2>3. \E s \in Slots : blk'[tab[Parent(e)].blk][s] = EntryOf(e)
    BY <1>4, <1>11, <1>19
  <2> QED
    BY <1>1, <1>17, <1>19, <2>1, <2>2, <2>3 DEF OwnedEntries
<1>35. Occupied'
  BY <1>1, <1>2, <1>13, <1>24 DEF DirInv, Occupied
<1>36. KeptDirs'
  <2>1. \A f \in Inos : Kept(f) /\ f # d => open'[f] = open[f] /\ SizeOf(f)' = SizeOf(f)
    BY <1>15, <1>27
  <2>2. open'[d].inode.no = d /\ open'[d].inode.blk = tab[d].blk /\ open'[d].inode.size = SizeOf(d)'
    BY <1>15, <1>27
  <2>3. \A f \in Inos : (\E q \in Procs : Resizing(call[q]) /\ Parent(call[q]) = f) =>
            \E q \in Procs : Resizing(call'[q]) /\ Parent(call'[q]) = f
    BY <1>17, <1>18
  <2>4. \E q \in Procs : Resizing(call'[q]) /\ Parent(call'[q]) = d
    BY <1>17, <1>19
  <2>5. \A f \in Inos : Kept(f)' => 
        /\ tab'[f].no = f /\ tab'[f].blk \in bbits' /\ tab'[f].blk \in dB'
        /\ open'[f].cnt > 0 => /\ open'[f].inode.no = f /\ open'[f].inode.blk = tab'[f].blk
                              /\ open'[f].inode.size = SizeOf(f)'
        /\ tab'[f].size = SizeOf(f)' \/ \E q \in Procs : Resizing(call'[q]) /\ Parent(call'[q]) = f
        /\ \A g \in Inos : Kept(g)' /\ g # f => tab'[g].blk # tab'[f].blk
    BY <1>1, <1>25, <2>1, <2>2, <2>3, <2>4 DEF DirInv, KeptDirs
  <2> QED
    BY <2>5 DEF KeptDirs
<1>37. NewBlocks'
  <2>1. \A q \in Procs : (HasBlock(call'[q]) <=> HasBlock(call[q])) /\ call'[q].b = call[q].b
    BY <1>16, <1>17, <1>19
  <2>2. \A q \in Procs : call'[q].pc # "bsync" => call[q].pc # "bsync"
    BY <1>1, <1>17
  <2> QED
    BY <1>1, <1>25, <2>1, <2>2 DEF DirInv, NewBlocks
<1>38. CountsExact'
  <2>1. \A f \in Inos : open[f].cnt \in Nat
    BY OpenKnown
  <2>2. \A f \in Inos : open'[f].cnt = open[f].cnt + One(Holds(e, f)) - One(Holds(call[p], f))
                                     + One(Releases(e, f)) - One(Releases(call[p], f))
    BY <1>15, <1>18, <1>19, <2>1 DEF One
  <2> QED
    BY <1>1, <2>2, CountsMove
<1>39. FilesKept'
  <2>0. FilesKept /\ \A i : FileInode(i)' <=> FileInode(i)
    BY <1>1 DEF DirInv, FileInode
  <2>1. \A q \in Procs : Entered(call[q]) => Entered(call'[q]) /\ call'[q].op = call[q].op /\ call'[q].ino = call[q].ino
    BY <1>16, <1>17, <1>19
  <2>2. \A b \in Blks, s \in Slots : blk'[b][s].type = "file" =>
          \/ FileInode(blk[b][s].ino)'
          \/ \E q \in Procs : /\ Entered(call'[q]) /\ call'[q].op = "create"
                              /\ call'[q].ino = blk'[b][s].ino
    <3> SUFFICES ASSUME NEW b \in Blks, NEW s \in Slots, blk'[b][s].type = "file"
                 PROVE  \/ FileInode(blk[b][s].ino)'
                        \/ \E q \in Procs : /\ Entered(call'[q]) /\ call'[q].op = "create"
                                            /\ call'[q].ino = blk'[b][s].ino
      OBVIOUS
    <3>1. CASE b = B /\ s = s0
      <4>1. c.op = "create"
        BY <1>11, <1>12, <3>1 DEF New
      <4> QED
        BY <1>11, <1>12, <1>16, <1>17, <1>19, <3>1, <4>1
    <3>2. CASE ~(b = B /\ s = s0)
      <4>1. blk'[b][s] = blk[b][s]
        BY <1>11, <3>2
      <4> QED
        BY <2>0, <2>1, <4>1 DEF FilesKept
    <3> QED
      BY <3>1, <3>2
  <2>3. \A q \in Procs : call'[q].op = "unlink" => call'[q] = call[q]
    BY <1>17, <1>19 DEF New
  <2> QED
    BY <2>0, <2>2, <2>3 DEF FilesKept
<1>40. MarkedOnDisk'
  <2>1. \A q \in Procs : Entered(call[q]) \/ call[q].pc = "isync" =>
           /\ Entered(call'[q]) \/ call'[q].pc = "isync"
           /\ call'[q].ino = call[q].ino
    BY <1>1, <1>16, <1>17, <1>19
  <2> QED
    BY <1>1, <1>11, <1>12, <1>13, <1>14, <1>16, <1>17, <1>19, <2>1 DEF DirInv, MarkedOnDisk
<1>41. RootKept'
  BY <1>0, <1>1 DEF RootKept
<1>42. NoneLeaked'
  <2>1. \A q \in Procs : /\ Owns(call'[q]) <=> Owns(call[q])
                         /\ HasBlock(call'[q]) <=> HasBlock(call[q])
                         /\ call'[q].ino = call[q].ino /\ call'[q].b = call[q].b
    BY <1>16, <1>17, <1>18, <1>19
  <2>2. \A b \in Blks, s \in Slots : \A  i : Filled(b, s) /\ blk[b][s].ino = i => Filled(b, s)' /\ blk'[b][s].ino = i
    BY <1>13, <1>14
  <2> QED
    BY <1>1, <1>25, <2>1, <2>2 DEF DirInv, NoneLeaked
<1>43. MadeThere'
  <2>1. ASSUME NEW path, NEW s \in Slots, NEW t \in Slots, Lies(path, s, t)
        PROVE  Lies(path, s, t)' /\ (Lasts(path, s, t) => Lasts(path, s, t)')
    <3>1. Filled(0, s) /\ Filled(0, s)' /\ blk'[0][s] = blk[0][s] /\ SubBlk(s)' = SubBlk(s)
      BY <1>1, <1>13, <1>14, <1>21, <2>1 DEF Lies, SubBlk
    <3>2. ASSUME Len(path) = 2
          PROVE  ~BeingMade(blk[0][s].ino)' /\ Filled(SubBlk(s), t)' /\ blk'[SubBlk(s)][t] = blk[SubBlk(s)][t]
      <4>1. SubBlk(s) \in Blks
        BY <2>1, <3>2, SubMade DEF Lies
      <4> QED
        BY <1>9, <1>13, <1>14, <1>20, <1>21, <2>1, <3>1, <3>2, <4>1 DEF Lies
    <3> QED
      BY <1>1, <2>1, <3>1, <3>2 DEF Lies, Lasts
  <2>2. \A path \in made : There(path)'
    BY <1>26, <2>1 DEF DirInv, MadeThere, There
  <2>3. There(c.path)'
    <3>1. CASE Len(c.path) = 1
      <4>1. Target(c) = c.path[1] /\ B = 0
        BY <1>2, <1>21, <3>1 DEF Target
      <4>2. Lies(c.path, s0, s0)'
        BY <1>4, <1>11, <1>12, <1>13, <1>21, <3>1, <4>1 DEF Lies
      <4> QED
        BY <1>4, <1>26, <4>2 DEF There
    <3>2. CASE Len(c.path) = 2
      <4>1. Target(c) = c.path[2]
        BY <3>2 DEF Target
      <4>2. PICK s \in Slots : SubAt(s, d) /\ blk[0][s].name = c.path[1]
        BY <1>2, <3>2
      <4>3. ~BeingMade(d)
        BY <1>0, <1>2, <1>18, <3>2 DEF DirOf
      <4>4. Filled(0, s) /\ blk[0][s].type = "dir" /\ blk[0][s].ino = d
        BY <1>0, <1>21, <4>2, EntryTypes DEF SubAt
      <4>5. blk'[0][s] = blk[0][s] /\ ~BeingMade(d)' /\ SubBlk(s)' = B
        BY <1>1, <1>20, <1>22, <4>2, <4>3, <4>4 DEF SubBlk
      <4>6. Lies(c.path, s, s0)'
        BY <1>2, <1>4, <1>11, <1>12, <1>13, <1>21, <3>2, <4>1, <4>2, <4>4, <4>5 DEF Lies
      <4> QED
        BY <1>4, <1>26, <4>6 DEF There
    <3> QED
      BY <1>2, <3>1, <3>2
  <2> QED
    BY <1>1, <2>2, <2>3 DEF MadeThere
<1> QED
  BY <1>1, <1>28, <1>29, <1>30, <1>31, <1>32, <1>33, <1>34, <1>35, <1>36, <1>37, <1>38,
     <1>39, <1>40, <1>41, <1>42, <1>43, <1>44 DEF DirInv

(* delete_dir_entry of a block nobody has changed since it was read.       *)
LEMMA EntryDropStep ==
    ASSUME DirInv, NEW p \in Procs, EntryWrite(p), ~clash', Deletes(call[p])
    PROVE  DirInv'
<1> PICK c, d, B, x : c = call[p] /\ d = Parent(c) /\ B = tab[d].blk /\ x = c.ino
  OBVIOUS
<1> DEFINE e == [c EXCEPT !.pc = "pread", !.buf = <<>>, !.pure = open'[d].inode]
<1>0. /\ DirTypeOK /\ EntriesOnce /\ NumbersOwned /\ ChosenFresh /\ RootKept /\ OwnedEntries
      /\ ChosenFiles /\ KeptDirs /\ FilesKept
      /\ c \in Calls /\ CallShape(c) /\ DirOf(c) /\ Deletes(c)
  BY CallKnown DEF DirInv
<1>1. /\ c.pc = "ewrite"
      /\ blk' = [blk EXCEPT ![ParentBlk(c)] = NewBuf(c)] /\ open' = Resized(c)
      /\ call' = [call EXCEPT ![p] = e] /\ made' = made \ {c.path} /\ ~Outdated(p, c)
      /\ UNCHANGED <<ibits, bbits, dI, dB, tab, crashes>> /\ ~stopped'
  BY <1>0 DEF EntryWrite, PcIs, SetCall, DirInv
<1>2. /\ d \in Inos /\ Made(d) /\ Kept(d) /\ open[d].cnt > 0
      /\ B \in Blks /\ ParentBlk(c) = B
      /\ open[d].inode.no = d /\ open[d].inode.blk = B
      /\ open[d].inode.size = SizeOf(d)
      /\ Len(c.path) = 1 => d = 0
      /\ Len(c.path) = 2 =>
            /\ d = c.dir /\ d # 0
            /\ \E s \in Slots : SubAt(s, d) /\ blk[0][s].name = c.path[1]
      /\ Len(c.path) \in {1, 2} /\ c.path \in Paths
  BY <1>1, ParentKnown
<1>3. /\ c.buf = blk[B]
      /\ {g \in Entries(blk[B]) : g.ino = x} = Named(blk[B], Target(c))
      /\ c.op = "rmdir" => open[c.dir].inode.size = 2 /\ \A q \in Procs : q # p => call[q].dir # c.dir
  BY <1>0, <1>1, <1>2 DEF Outdated
<1>4. PICK s1 \in Slots : Filled(B, s1) /\ blk[B][s1].ino = x
  BY <1>0, <1>1, <1>3 DEF CallShape, Filled
<1>5. /\ \A b \in Blks, s \in Slots : Filled(b, s) /\ blk[b][s].ino = x => b = B /\ s = s1
      /\ blk[B][s1].name = Target(c)
  <2>1. \A b \in Blks, s \in Slots : Filled(b, s) /\ blk[b][s].ino = x => b = B /\ s = s1
    BY <1>0, <1>2, <1>4 DEF EntriesOnce
  <2>2. blk[B][s1] \in Named(blk[B], Target(c))
    BY <1>3, <1>4 DEF Entries, Filled
  <2> QED
    BY <2>1, <2>2 DEF Named
<1>6. blk[B] \in DirBlocks /\ blk \in [Blks -> DirBlocks]
  BY <1>0, <1>2 DEF DirTypeOK
<1>7. blk' = [blk EXCEPT ![B] = [blk[B] EXCEPT ![s1] = NoEntry]]
  <2>1. NewBuf(c) = [s \in Slots |-> IF blk[B][s] # NoEntry /\ blk[B][s].ino = x THEN NoEntry
                                     ELSE blk[B][s]]
    BY <1>0, <1>3 DEF NewBuf
  <2>2. \A s \in Slots : (blk[B][s] # NoEntry /\ blk[B][s].ino = x) <=> s = s1
    BY <1>2, <1>4, <1>5 DEF Filled
  <2>3. NewBuf(c) = [blk[B] EXCEPT ![s1] = NoEntry]
    <3>1. NewBuf(c) = [s \in Slots |-> IF s = s1 THEN NoEntry ELSE blk[B][s]]
      BY <2>1, <2>2
    <3>2. DOMAIN blk[B] = Slots
      BY <1>6 DEF DirBlocks
    <3>3. [blk[B] EXCEPT ![s1] = NoEntry] = [s \in Slots |-> IF s = s1 THEN NoEntry ELSE blk[B][s]]
      BY <3>2
    <3> QED
      BY <3>1, <3>3
  <2> QED
    BY <1>1, <1>2, <2>3
<1>8. Chosen(c) /\ x # 0 /\ x \in ibits /\ x \in Inos
      /\ \A q \in Procs : Owns(call[q]) => call[q].ino # x
  <2>1. Chosen(c)
    BY <1>0, <1>1 DEF Chosen
  <2>2. x # 0 /\ \A q \in Procs : Making(call[q]) \/ Entered(call[q]) => call[q].ino # x
    BY <1>0, <2>1 DEF ChosenFresh
  <2>3. \A q \in Procs : Removed(call[q]) \/ Freed(call[q]) => call[q].ino # x
    BY <1>0, <1>2, <1>4 DEF OwnedEntries
  <2>4. x \in ibits /\ x \in Inos
    BY <1>0, <1>2, <1>4 DEF EntriesOnce, DirTypeOK
  <2> QED
    BY <2>1, <2>2, <2>3, <2>4 DEF Owns
<1>9. /\ blk' \in [Blks -> DirBlocks]
      /\ blk'[B][s1] = NoEntry
      /\ \A b \in Blks, s \in Slots : b # B \/ s # s1 => blk'[b][s] = blk[b][s]
      /\ \A b \in Blks : b # B => blk'[b] = blk[b]
  <2>1. [blk[B] EXCEPT ![s1] = NoEntry] \in DirBlocks
    BY <1>6 DEF DirBlocks
  <2> QED
    BY <1>2, <1>4, <1>6, <1>7, <2>1 DEF DirBlocks
<1>10. \A b \in Blks, s \in Slots :
          /\ Filled(b, s)' <=> Filled(b, s) /\ ~(b = B /\ s = s1)
          /\ Filled(b, s)' => blk'[b][s] = blk[b][s] /\ blk[b][s].ino # x
  BY <1>5, <1>9 DEF Filled
<1>11. open' \in Opens /\ (\A f \in Inos : open'[f].cnt = open[f].cnt)
       /\ (\A f \in Inos : f # d => open'[f] = open[f])
       /\ open'[d].inode.no = d /\ open'[d].inode.blk = B
       /\ open'[d].inode.size = SizeOf(d) - 1
  BY <1>0, <1>1, <1>2, ResizedOne
<1>12. /\ e \in Calls /\ e.op = c.op /\ e.path = c.path /\ e.dir = c.dir /\ e.ino = x /\ e.b = c.b
       /\ e.pc = "pread"
  <2>1. open'[d].inode \in Inodes
    BY <1>2, <1>11 DEF Opens
  <2> QED
    BY <1>0, <2>1 DEF Calls, Pcs
<1>13. /\ call'[p] = e /\ \A q \in Procs : q # p => call'[q] = call[q]
       /\ call' \in [Procs -> Calls]
  BY <1>0, <1>1, <1>12, CallsSet
<1> HIDE DEF e
<1>14. /\ ~Owns(c) /\ ~Making(c) /\ ~Entered(c) /\ ~Removed(c) /\ ~Freed(c) /\ ~Resizing(c)
       /\ ~HasBlock(c)
       /\ (\A f : ~Leaving(c, f)) /\ (\A f : ~Releases(c, f)) /\ ~Searching(c)
  BY <1>0, <1>1 DEF Owns, Making, Entered, Removed, Freed, Resizing, HasBlock, Leaving, Releases,
                    Searching, Deletes, New
<1>15. /\ Owns(e) /\ ~Entered(e) /\ ~Making(e) /\ Removed(e) /\ ~Freed(e) /\ ~Chosen(e) /\ Resizing(e)
       /\ ~HasBlock(e)
       /\ (\A f : Leaving(e, f) <=> c.op = "rmdir" /\ f = x) /\ (\A f : ~Releases(e, f)) /\ ~Searching(e)
       /\ (\A f : Holds(e, f) <=> Holds(c, f))
       /\ Parent(e) = d /\ Deletes(e)
  BY <1>0, <1>12, <1>14 DEF Owns, Entered, Making, Removed, Freed, Chosen, Resizing, Leaving, Releases,
     Searching, Deletes, New, HasBlock, Holds, Parent
<1>16. \A i : BeingMade(i)' <=> BeingMade(i)
  BY <1>13, <1>14, <1>15, StagesNamed
<1>17. 0 \in Inos /\ 0 \in Blks /\ tab[0].blk = 0 /\ (c.op = "rmdir" => B = 0 /\ d = 0)
  BY <1>0, <1>2, IdleKnown DEF RootKept, CallShape
<1>18. ASSUME c.op = "rmdir"
       PROVE  /\ c.dir = x /\ SubAt(s1, x) /\ Made(x) /\ Kept(x) /\ x # d /\ tab[x].blk \in Blks
              /\ \A s \in Slots : ~Filled(tab[x].blk, s)
  <2>1. c.dir = x /\ Made(x)
    BY <1>0, <1>8, <1>14, <1>18 DEF DirOf
  <2>2. PICK s \in Slots : SubAt(s, x)
    BY <1>8, <2>1 DEF Made
  <2>3. Filled(0, s) /\ blk[0][s].ino = x
    BY <1>0, <1>17, <2>2, EntryTypes DEF SubAt
  <2>4. s = s1
    BY <1>5, <1>17, <2>3
  <2>5. Kept(x)
    BY <2>1 DEF Kept
  <2>6. tab[x].blk \in Blks
    BY <1>0, <1>8, <2>5 DEF KeptDirs, DirTypeOK
  <2>7. Holds(c, x)
    BY <1>8, <1>14, <2>1 DEF Holds
  <2>8. open[x].cnt > 0
    BY <1>8, <2>7, CountPositive
  <2>9. SizeOf(x) = 2
    BY <1>0, <1>3, <1>8, <1>18, <2>1, <2>5, <2>8 DEF KeptDirs
  <2>10. Entries(blk[tab[x].blk]) = {}
    <3>1. Cardinality(Entries(blk[tab[x].blk])) = 0
      BY <2>9, EntriesFinite DEF SizeOf
    <3> QED
      BY <3>1, EntriesFinite, FS_EmptySet
  <2> QED
    BY <1>8, <1>17, <1>18, <2>1, <2>2, <2>4, <2>5, <2>6, <2>10 DEF Filled, Entries
<1>19. ASSUME c.op # "rmdir"
       PROVE  c.op = "unlink" /\ blk[B][s1].type = "file" /\ FileInode(x)
  <2>1. c.op = "unlink"
    BY <1>0, <1>19 DEF Deletes
  <2>2. blk[B][s1].type = "file"
    BY <1>0, <1>2, <1>4, <1>8, <2>1 DEF ChosenFiles, IsFile
  <2>3. ~\E q \in Procs : Entered(call[q]) /\ call[q].op = "create" /\ call[q].ino = blk[B][s1].ino
    BY <1>4, <1>8 DEF Owns
  <2> QED
    BY <1>0, <1>2, <1>4, <2>1, <2>2, <2>3 DEF FilesKept
<1>20. \A s \in Slots : \A  i : SubAt(s, i) => Filled(0, s)
  BY <1>0, <1>17, EntryTypes DEF SubAt
<1>21. \A s \in Slots : \A  i : SubAt(s, i) /\ ~(c.op = "rmdir" /\ i = x) => SubAt(s, i)' /\ blk'[0][s] = blk[0][s]
  <2> SUFFICES ASSUME NEW s \in Slots, NEW i, SubAt(s, i), ~(c.op = "rmdir" /\ i = x)
               PROVE  SubAt(s, i)' /\ blk'[0][s] = blk[0][s]
    OBVIOUS
  <2>1. ~(B = 0 /\ s = s1)
    BY <1>18, <1>19 DEF SubAt
  <2>2. blk'[0][s] = blk[0][s]
    BY <1>9, <1>17, <2>1
  <2> QED
    BY <2>2 DEF SubAt
<1>22. \A s \in Slots : \A  i : SubAt(s, i)' => SubAt(s, i) /\ ~(c.op = "rmdir" /\ i = x)
  <2> SUFFICES ASSUME NEW s \in Slots, NEW i, SubAt(s, i)'
               PROVE  SubAt(s, i) /\ ~(c.op = "rmdir" /\ i = x)
    OBVIOUS
  <2>1. Filled(0, s)'
    <3>1. blk'[0][s].type = "dir" /\ NoEntry.type = "unknown"
      BY DEF SubAt, NoEntry
    <3> QED
      BY <3>1 DEF Filled
  <2>2. blk'[0][s] = blk[0][s] /\ blk[0][s].ino # x
    BY <1>10, <1>17, <2>1
  <2> QED
    BY <2>2 DEF SubAt
<1>23. \A i : Made(i)' <=> Made(i) /\ ~(c.op = "rmdir" /\ i = x)
  BY <1>8, <1>16, <1>21, <1>22 DEF Made
<1>24. \A i : Kept(i)' <=> Kept(i)
  BY <1>13, <1>14, <1>15, <1>18, <1>23 DEF Kept
<1>25. \A path : path \in UnderWay' <=> path \in UnderWay
  <2>1. c.pc # "isync" /\ e.pc # "isync"
    BY <1>1, <1>12
  <2> QED
    BY <1>13, <1>14, <1>15, <2>1, StagesNamed
<1>26. \A f \in Inos : Kept(f) /\ f # d => tab[f].blk # B /\ tab[f].blk \in Blks
  BY <1>0, <1>2 DEF KeptDirs, DirTypeOK
<1>27. /\ SizeOf(d)' = SizeOf(d) - 1
       /\ \A f \in Inos : Kept(f) /\ f # d => SizeOf(f)' = SizeOf(f)
  <2>1. \A t \in Slots : t # s1 => blk[B][t] # blk[B][s1]
    BY <1>2, <1>4, <1>5 DEF Filled
  <2>2. Cardinality(Entries(blk'[B])) = Cardinality(Entries(blk[B])) - 1
    <3>1. blk'[B] = [blk[B] EXCEPT ![s1] = NoEntry]
      BY <1>2, <1>6, <1>7
    <3>2. PICK block : block = blk[B]
      OBVIOUS
    <3>3. block \in DirBlocks /\ block[s1] # NoEntry /\ \A t \in Slots : t # s1 => block[t] # block[s1]
      BY <1>4, <1>6, <2>1, <3>2 DEF Filled
    <3>4. Cardinality(Entries([block EXCEPT ![s1] = NoEntry])) = Cardinality(Entries(block)) - 1
      BY <3>3, EntryDropped
    <3> QED
      BY <3>1, <3>2, <3>4
  <2>4. Cardinality(Entries(blk[B])) \in Nat
    BY EntriesFinite
  <2>5. SizeOf(d)' = SizeOf(d) - 1
    BY <1>1, <2>2, <2>4 DEF SizeOf
  <2> QED
    BY <1>1, <1>9, <1>26, <2>5 DEF SizeOf
<1>28. DirTypeOK'
  BY <1>0, <1>1, <1>9, <1>11, <1>13 DEF DirTypeOK, Opens
<1>29. Shapes'
  <2>1. CallShape(e)
    BY <1>0, <1>1, <1>12, <1>15 DEF CallShape, Deletes, New
  <2> QED
    BY <1>13, <2>1 DEF DirInv, Shapes
<1>30. DirsHeld'
  <2>1. ASSUME NEW q \in Procs, q # p PROVE DirOf(call[q])'
    <3>0. PICK k, f : k = call[q] /\ f = call[q].dir
      OBVIOUS
    <3>1. call'[q] = k /\ DirOf(k) /\ k.dir = f
      BY <1>13, <2>1, <3>0, CallKnown
    <3>2. ~(c.op = "rmdir" /\ f = x)
      BY <1>3, <1>18, <2>1, <3>0
    <3>3. \A s \in Slots : SubAt(s, f) => SubAt(s, f)' /\ blk'[0][s] = blk[0][s]
      BY <1>21, <3>2
    <3>4. (BeingMade(f)' <=> BeingMade(f)) /\ (Made(f)' <=> Made(f))
      BY <1>16, <1>23, <3>2
    <3>5. DirOf(k)'
      BY <3>1, <3>3, <3>4 DEF DirOf
    <3> QED
      BY <3>1, <3>5
  <2>2. DirOf(call[p])'
    <3>1. call'[p] = e /\ DirOf(c)
      BY <1>0, <1>13
    <3>2. Len(c.path) = 2 => c.op # "rmdir"
      BY <1>0 DEF CallShape
    <3>0. PICK f : f = c.dir
      OBVIOUS
    <3>3. Len(c.path) = 2 => \E s \in Slots : SubAt(s, f)' /\ blk'[0][s].name = c.path[1]
      BY <1>14, <1>21, <3>0, <3>1, <3>2 DEF DirOf
    <3>4. Len(c.path) = 2 => f # 0 /\ ~BeingMade(f)'
      BY <1>14, <1>16, <3>0, <3>1 DEF DirOf
    <3>5. (c.op = "rmdir" => f = x /\ x # 0) /\ (Len(c.path) = 1 /\ c.op # "rmdir" => f = 0)
      BY <1>8, <1>14, <1>18, <3>0, <3>1 DEF DirOf
    <3>6. PICK k : k = e
      OBVIOUS
    <3>7. k.dir = f /\ k.op = c.op /\ k.path = c.path /\ k.ino = x /\ k.pc = "pread" /\ ~Chosen(k)
      BY <1>12, <1>15, <3>0, <3>6
    <3>8. DirOf(k)'
      BY <3>3, <3>4, <3>5, <3>7 DEF DirOf
    <3> QED
      BY <3>1, <3>6, <3>8
  <2> QED
    BY <2>1, <2>2 DEF DirsHeld
<1>31. NumbersOwned'
  BY <1>0, <1>1, <1>8, <1>12, <1>13, <1>15 DEF NumbersOwned
<1>32. ChosenFresh'
  BY <1>0, <1>13, <1>15 DEF ChosenFresh
<1>33. ChosenFiles'
  <2>1. \A i : IsFile(i) => IsFile(i)'
    BY <1>10 DEF IsFile
  <2> QED
    BY <1>0, <1>13, <1>15, <2>1 DEF ChosenFiles
<1>34. EntriesOnce'
  BY <1>0, <1>1, <1>10 DEF EntriesOnce
<1>35. OwnedEntries'
  <2>1. ASSUME NEW q \in Procs, q # p, Entered(call[q])
        PROVE  \E s \in Slots : blk'[tab[Parent(call[q])].blk][s] = EntryOf(call[q])
    <3>1. tab[Parent(call[q])].blk \in Blks
      BY <2>1, ParentKnown DEF Entered
    <3>2. PICK s \in Slots : blk[tab[Parent(call[q])].blk][s] = EntryOf(call[q])
      BY <1>0, <2>1 DEF OwnedEntries
    <3>3. EntryOf(call[q]).ino # x
      BY <1>8, <2>1, EntryOfFields DEF Owns
    <3> QED
      BY <1>4, <1>9, <3>1, <3>2, <3>3
  <2> QED
    BY <1>0, <1>1, <1>10, <1>12, <1>13, <1>15, <2>1 DEF OwnedEntries
<1>36. Occupied'
  <2> SUFFICES ASSUME NEW b \in Blks, NEW s \in Slots, Filled(b, s)'
               PROVE  \E f \in Inos : Made(f)' /\ tab'[f].blk = b
    BY DEF Occupied
  <2>1. Filled(b, s)
    BY <1>10
  <2>2. PICK f \in Inos : Made(f) /\ tab[f].blk = b
    BY <2>1 DEF DirInv, Occupied
  <2>3. ~(c.op = "rmdir" /\ f = x)
    BY <1>18, <2>1, <2>2
  <2> QED
    BY <1>1, <1>23, <2>2, <2>3
<1>37. KeptDirs'
  <2>1. \A f \in Inos : Kept(f) /\ f # d => open'[f] = open[f] /\ SizeOf(f)' = SizeOf(f)
    BY <1>11, <1>27
  <2>2. open'[d].inode.no = d /\ open'[d].inode.blk = tab[d].blk /\ open'[d].inode.size = SizeOf(d)'
    BY <1>11, <1>27
  <2>3. \A f \in Inos : (\E q \in Procs : Resizing(call[q]) /\ Parent(call[q]) = f) =>
            \E q \in Procs : Resizing(call'[q]) /\ Parent(call'[q]) = f
    BY <1>13, <1>14
  <2>4. \E q \in Procs : Resizing(call'[q]) /\ Parent(call'[q]) = d
    BY <1>13, <1>15
  <2>5. \A f \in Inos : Kept(f)' =>
        /\ tab'[f].no = f /\ tab'[f].blk \in bbits' /\ tab'[f].blk \in dB'
        /\ open'[f].cnt > 0 => /\ open'[f].inode.no = f /\ open'[f].inode.blk = tab'[f].blk
                              /\ open'[f].inode.size = SizeOf(f)'
        /\ tab'[f].size = SizeOf(f)' \/ \E q \in Procs : Resizing(call'[q]) /\ Parent(call'[q]) = f
        /\ \A g \in Inos : Kept(g)' /\ g # f => tab'[g].blk # tab'[f].blk
    BY <1>0, <1>1, <1>24, <2>1, <2>2, <2>3, <2>4 DEF KeptDirs
  <2> QED
    BY <2>5 DEF KeptDirs
<1>38. NewBlocks'
  BY <1>1, <1>13, <1>14, <1>15, <1>24 DEF DirInv, NewBlocks
<1>39. CountsExact'
  <2>1. \A f \in Inos : open[f].cnt \in Nat
    BY OpenKnown
  <2>2. \A f \in Inos : open'[f].cnt = open[f].cnt + One(Holds(e, f)) - One(Holds(call[p], f))
                                     + One(Releases(e, f)) - One(Releases(call[p], f))
    BY <1>11, <1>14, <1>15, <2>1 DEF One
  <2> QED
    BY <1>1, <2>2, CountsMove
<1>40. FilesKept'
  <2>1. \A q \in Procs : Entered(call[q]) => call'[q] = call[q]
    BY <1>13, <1>14
  <2>2. \A i : FileInode(i)' <=> FileInode(i)
    BY <1>1 DEF FileInode
  <2>3. \A b \in Blks, s \in Slots : blk'[b][s].type = "file" => blk'[b][s] = blk[b][s]
    <3>1. NoEntry.type # "file"
      BY DEF NoEntry
    <3> QED
      BY <1>9, <3>1
  <2>4. c.op = "unlink" => FileInode(x)
    BY <1>19
  <2>5. \A b \in Blks, s \in Slots : blk'[b][s].type = "file" =>
          \/ FileInode(blk[b][s].ino)'
          \/ \E q \in Procs : /\ Entered(call'[q]) /\ call'[q].op = "create"
                              /\ call'[q].ino = blk'[b][s].ino
    BY <1>0, <2>1, <2>2, <2>3 DEF FilesKept
  <2>6. \A q \in Procs : (call'[q].op = "unlink" /\ call'[q].pc \in {"pread", "pwrite", "ropen"}) =>
          FileInode(call[q].ino)'
    BY <1>0, <1>12, <1>13, <2>2, <2>4 DEF FilesKept
  <2> QED
    BY <2>5, <2>6 DEF FilesKept
<1>41. MarkedOnDisk'
  <2>1. \A q \in Procs : Entered(call[q]) \/ call[q].pc = "isync" => call'[q] = call[q]
    BY <1>1, <1>13, <1>14
  <2> QED
    BY <1>1, <1>10, <2>1 DEF DirInv, MarkedOnDisk
<1>42. RootKept'
  BY <1>0, <1>1 DEF RootKept
<1>43. NoneLeaked'
  <2>1. \A q \in Procs : Owns(call[q]) => call'[q] = call[q]
    BY <1>13, <1>14
  <2>2. \A q \in Procs : HasBlock(call[q]) => call'[q] = call[q]
    BY <1>13, <1>14
  <2>3. \A b \in Blks, s \in Slots : \A  i : Filled(b, s) /\ blk[b][s].ino = i =>
           i = x \/ (Filled(b, s)' /\ blk'[b][s].ino = i)
    BY <1>4, <1>10
  <2>4. Owns(call'[p]) /\ call'[p].ino = x
    BY <1>12, <1>13, <1>15
  <2> QED
    BY <1>1, <1>24, <2>1, <2>2, <2>3, <2>4 DEF DirInv, NoneLeaked
<1>44. MadeThere'
  <2>1. ASSUME NEW path \in made, path # c.path, NEW s \in Slots, NEW t \in Slots, Lies(path, s, t)
        PROVE  Lies(path, s, t)' /\ (Lasts(path, s, t) => Lasts(path, s, t)')
    <3>1. path \in Paths /\ Len(path) \in {1, 2}
      BY <1>0, <2>1 DEF DirTypeOK, Paths
    <3>2. Filled(0, s) /\ blk[0][s].name = path[1]
      BY <2>1 DEF Lies
    <3>3. ASSUME Len(path) = 2
          PROVE  /\ blk[0][s].type = "dir" /\ ~BeingMade(blk[0][s].ino) /\ blk[0][s].ino \in Inos
                 /\ blk[0][s].ino # 0 /\ Kept(blk[0][s].ino) /\ SubBlk(s) \in Blks
                 /\ Filled(SubBlk(s), t) /\ blk[SubBlk(s)][t].name = path[2]
                 /\ SubBlk(s) # 0
      <4>1. /\ blk[0][s].type = "dir" /\ ~BeingMade(blk[0][s].ino)
            /\ Filled(SubBlk(s), t) /\ blk[SubBlk(s)][t].name = path[2]
        BY <2>1, <3>3 DEF Lies
      <4>2. /\ blk[0][s].ino \in Inos /\ blk[0][s].ino # 0 /\ Kept(blk[0][s].ino) /\ SubBlk(s) \in Blks
        BY <4>1, SubMade
      <4>3. Kept(0)
        BY DEF Kept, Made
      <4> QED
        BY <1>0, <1>17, <4>1, <4>2, <4>3 DEF KeptDirs, SubBlk
    <3>4. ~(B = 0 /\ s = s1)
      <4> SUFFICES ASSUME B = 0, s = s1 PROVE FALSE
        OBVIOUS
      <4>1. d = 0
        <5>1. Kept(0)
          BY DEF Kept, Made
        <5> QED
          BY <1>17, <1>26, <5>1
      <4>2. Len(c.path) = 1 /\ Target(c) = c.path[1]
        BY <1>2, <4>1 DEF Target
      <4>3. path[1] = c.path[1]
        BY <1>5, <3>2, <4>2
      <4>4. Len(path) = 2
        BY <1>2, <2>1, <3>1, <4>2, <4>3 DEF Paths
      <4>5. c.op = "rmdir" /\ SubBlk(s) = tab[x].blk
        BY <1>4, <1>19, <3>3, <4>4 DEF SubBlk
      <4> QED
        BY <1>18, <3>3, <4>4, <4>5
    <3>5. blk'[0][s] = blk[0][s] /\ Filled(0, s)' /\ SubBlk(s)' = SubBlk(s)
      BY <1>1, <1>9, <1>10, <1>17, <3>2, <3>4 DEF SubBlk
    <3>6. ASSUME Len(path) = 2 PROVE ~(SubBlk(s) = B /\ t = s1)
      <4> SUFFICES ASSUME SubBlk(s) = B, t = s1 PROVE FALSE
        OBVIOUS
      <4>1. blk[0][s].ino = d /\ d # 0
        BY <1>17, <1>26, <3>3, <3>6 DEF SubBlk
      <4>2. Len(c.path) = 2
        BY <1>2, <4>1
      <4>3. PICK s2 \in Slots : SubAt(s2, d) /\ blk[0][s2].name = c.path[1]
        BY <1>2, <4>2
      <4>4. s2 = s
        BY <1>0, <1>17, <1>20, <3>2, <4>1, <4>3 DEF EntriesOnce, SubAt
      <4>5. path[1] = c.path[1] /\ path[2] = c.path[2]
        BY <1>5, <3>2, <3>3, <3>6, <4>2, <4>3, <4>4 DEF Target
      <4> QED
        BY <1>2, <2>1, <3>1, <3>6, <4>2, <4>5 DEF Paths
    <3>7. ASSUME Len(path) = 2
          PROVE  ~BeingMade(blk[0][s].ino)' /\ Filled(SubBlk(s), t)' /\ blk'[SubBlk(s)][t] = blk[SubBlk(s)][t]
      BY <1>9, <1>10, <1>16, <3>3, <3>5, <3>6, <3>7
    <3> QED
      BY <1>1, <2>1, <3>5, <3>7 DEF Lies, Lasts
  <2> QED
    BY <1>1, <1>25, <2>1 DEF DirInv, MadeThere, There
<1> QED
  BY <1>1, <1>28, <1>29, <1>30, <1>31, <1>32, <1>33, <1>34, <1>35, <1>36, <1>37, <1>38,
     <1>39, <1>40, <1>41, <1>42, <1>43, <1>44 DEF DirInv

----------------------------------------------------------------------------
(* inode_sync of the parent writes its size and nothing else.              *)
Sized(d) ==
    /\ tab' \in [Inos -> Inodes]
    /\ \A i \in Inos : tab'[i].no = tab[i].no /\ tab'[i].blk = tab[i].blk
    /\ \A i \in Inos : i # d => tab'[i] = tab[i]
    /\ tab'[d].size = SizeOf(d)

LEMMA ParentSized ==
    ASSUME DirInv, NEW p \in Procs, call[p].pc = "pwrite", ~clash', NEW d, d = Parent(call[p]),
           TableWrite(p, d, open[d].inode)
    PROVE  Sized(d)
<1>1. tab' = [tab EXCEPT ![d] = open[d].inode]
  BY DEF TableWrite
<1>2. /\ d \in Inos /\ Kept(d) /\ open[d].inode.no = d /\ open[d].inode.blk = tab[d].blk
      /\ open[d].inode.size = SizeOf(d)
  BY ParentKnown
<1>3. tab \in [Inos -> Inodes] /\ open[d].inode \in Inodes /\ tab[d].no = d
  BY <1>2 DEF DirInv, DirTypeOK, KeptDirs
<1> QED
  BY <1>1, <1>2, <1>3 DEF Sized

(* The entry of a new file or of a removed one is accounted for. *)
LEMMA SyncedStep ==
    ASSUME DirInv, NEW p \in Procs, NEW c \in Calls, call' = [call EXCEPT ![p] = c],
           call[p].pc = "pwrite", c.op # "rmdir",
           c.op = call[p].op, c.path = call[p].path, c.dir = call[p].dir, c.ino = call[p].ino,
           c.b = call[p].b, (New(c) /\ c.pc = "nread") \/ (Deletes(c) /\ c.pc = "ropen"),
           CallShape(c), Sized(Parent(call[p])),
           UNCHANGED <<ibits, bbits, open, dI, dB, blk, made, crashes>>, ~stopped'
    PROVE  DirInv'
<1> PICK d : d = Parent(call[p])
  OBVIOUS
<1>0. /\ DirTypeOK /\ EntriesOnce /\ NumbersOwned /\ ChosenFresh /\ RootKept /\ OwnedEntries
      /\ ChosenFiles /\ KeptDirs /\ FilesKept /\ Occupied
  BY DEF DirInv
<1>1. /\ call'[p] = c /\ \A q \in Procs : q # p => call'[q] = call[q]
      /\ call' \in [Procs -> Calls]
  BY <1>0, CallsSet
<1>2. \A q \in Procs : /\ Making(call'[q]) <=> Making(call[q])
                       /\ Entered(call'[q]) <=> Entered(call[q])
                       /\ Chosen(call'[q]) <=> Chosen(call[q])
                       /\ Removed(call'[q]) <=> Removed(call[q])
                       /\ Freed(call'[q]) <=> Freed(call[q])
                       /\ Searching(call'[q]) <=> Searching(call[q])
                       /\ \A i : Leaving(call'[q], i) <=> Leaving(call[q], i)
                       /\ \A i : Releases(call'[q], i) <=> Releases(call[q], i)
                       /\ call'[q].pc = "isync" <=> call[q].pc = "isync"
                       /\ call'[q].pc = "open" <=> call[q].pc = "open"
                       /\ call'[q].pc = "bsync" <=> call[q].pc = "bsync"
                       /\ call'[q].op = call[q].op /\ call'[q].path = call[q].path
                       /\ call'[q].dir = call[q].dir /\ call'[q].ino = call[q].ino
                       /\ call'[q].b = call[q].b
  BY <1>1 DEF Making, Entered, Chosen, Removed, Freed, Searching, Leaving, Releases, New, Deletes
<1>3. \A q \in Procs : /\ Owns(call'[q]) <=> Owns(call[q])
                       /\ HasBlock(call'[q]) <=> HasBlock(call[q])
                       /\ \A i : Holds(call'[q], i) <=> Holds(call[q], i)
                       /\ Parent(call'[q]) = Parent(call[q])
                       /\ EntryOf(call'[q]) = EntryOf(call[q])
                       /\ New(call'[q]) <=> New(call[q])
  BY <1>2 DEF Owns, HasBlock, Holds, Parent, EntryOf, Target, New
<1>4. \A i : BeingMade(i)' <=> BeingMade(i)
  BY <1>2, StagesNamed
<1>5. /\ \A s, i : SubAt(s, i)' <=> SubAt(s, i)
      /\ \A b, s : Filled(b, s)' <=> Filled(b, s)
      /\ \A i \in Inos : SizeOf(i)' = SizeOf(i)
      /\ \A i \in Inos : FileInode(i)' <=> FileInode(i)
  BY DEF SubAt, Filled, SizeOf, Sized, FileInode
<1>6. \A i : Made(i)' <=> Made(i)
  BY <1>4, <1>5 DEF Made
<1>7. \A i : Kept(i)' <=> Kept(i)
  BY <1>2, <1>6 DEF Kept
<1>8. \A path : path \in UnderWay' <=> path \in UnderWay
  BY <1>2, <1>3, StagesNamed
<1>9. \A i \in Inos : tab'[i].no = tab[i].no /\ tab'[i].blk = tab[i].blk
  BY DEF Sized
<1>10. DirTypeOK'
  BY <1>0, <1>1 DEF DirTypeOK, Sized
<1>11. Shapes'
  BY <1>1 DEF DirInv, Shapes
<1>12. DirsHeld'
  BY <1>2, <1>3, <1>4, <1>5, <1>6 DEF DirInv, DirsHeld, DirOf
<1>13. NumbersOwned' /\ ChosenFresh'
  BY <1>0, <1>2, <1>3 DEF NumbersOwned, ChosenFresh
<1>14. EntriesOnce' /\ ChosenFiles'
  BY <1>0, <1>2, <1>5 DEF EntriesOnce, ChosenFiles, IsFile
<1>15. OwnedEntries'
  <2>1. \A q \in Procs : Entered(call[q]) => Parent(call[q]) \in Inos
    BY ParentKnown DEF Entered
  <2> QED
    BY <1>0, <1>2, <1>3, <1>5, <1>9, <2>1 DEF OwnedEntries
<1>16. Occupied'
  BY <1>0, <1>5, <1>6, <1>9 DEF Occupied
<1>17. KeptDirs'
  <2>1. tab'[d].size = SizeOf(d) /\ \A i \in Inos : i # d => tab'[i] = tab[i]
    BY DEF Sized
  <2>2. \A q \in Procs : q # p => (Resizing(call'[q]) <=> Resizing(call[q]))
    BY <1>1
  <2>3. \A f \in Inos : Kept(f) =>
            tab'[f].size = SizeOf(f) \/ \E q \in Procs : Resizing(call'[q]) /\ Parent(call'[q]) = f
    BY <1>0, <1>3, <2>1, <2>2 DEF KeptDirs
  <2> QED
    BY <1>0, <1>5, <1>7, <1>9, <2>3 DEF KeptDirs
<1>18. NewBlocks'
  BY <1>2, <1>3, <1>7, <1>9 DEF DirInv, NewBlocks
<1>19. CountsExact'
  <2>1. \A i : Holders(i)' = Holders(i) /\ Releasers(i)' = Releasers(i)
    BY <1>2, <1>3 DEF Holders, Releasers
  <2> QED
    BY <2>1 DEF DirInv, CountsExact
<1>20. FilesKept'
  <2>1. \A b \in Blks, s \in Slots : blk[b][s].type = "file" => blk[b][s].ino \in Inos
    BY <1>0, EntryTypes
  <2>2. \A q \in Procs : call[q].ino \in Inos
    BY CallKnown DEF Calls
  <2>3. \A q \in Procs : call'[q].pc \in {"pread", "pwrite", "ropen"} => call[q].pc \in {"pread", "pwrite", "ropen"}
    BY <1>1
  <2>4. \A b \in Blks, s \in Slots : blk'[b][s].type = "file" =>
          \/ FileInode(blk[b][s].ino)'
          \/ \E q \in Procs : /\ Entered(call'[q]) /\ call'[q].op = "create"
                              /\ call'[q].ino = blk'[b][s].ino
    BY <1>0, <1>2, <1>5, <2>1 DEF FilesKept, FileInode
  <2>5. \A q \in Procs : (call'[q].op = "unlink" /\ call'[q].pc \in {"pread", "pwrite", "ropen"}) =>
          tab'[call'[q].ino].no = call'[q].ino /\ tab'[call'[q].ino].blk = NoBlock
    BY <1>0, <1>2, <1>9, <2>2, <2>3 DEF FilesKept, FileInode
  <2> QED
    BY <2>4, <2>5 DEF FilesKept, FileInode
<1>21. MarkedOnDisk'
  BY <1>2, <1>5 DEF DirInv, MarkedOnDisk
<1>22. RootKept'
  BY <1>0, <1>9, IdleKnown DEF RootKept
<1>23. NoneLeaked'
  BY <1>2, <1>3, <1>5, <1>7, <1>9 DEF DirInv, NoneLeaked
<1>24. MadeThere'
  <2>1. \A s \in Slots : Filled(0, s) => SubBlk(s)' = SubBlk(s)
    BY <1>0, <1>9, IdleKnown, EntryTypes DEF SubBlk
  <2>2. \A path : \A s, t \in Slots : Lies(path, s, t) =>
            Lies(path, s, t)' /\ (Lasts(path, s, t)' <=> Lasts(path, s, t))
    BY <1>4, <1>5, <2>1 DEF Lies, Lasts
  <2> QED
    BY <1>8, <2>2 DEF DirInv, MadeThere, There
<1> QED
  BY <1>10, <1>11, <1>12, <1>13, <1>14, <1>15, <1>16, <1>17, <1>18, <1>19, <1>20, <1>21,
     <1>22, <1>23, <1>24 DEF DirInv

(* The block of a removed directory is given back. *)
LEMMA DirReleaseStep ==
    ASSUME DirInv, NEW p \in Procs, NEW c \in Calls, call' = [call EXCEPT ![p] = c],
           call[p].pc = "pwrite", c.op = "rmdir", c.pc = "bfree",
           c.op = call[p].op, c.path = call[p].path, c.dir = call[p].dir, c.ino = call[p].ino,
           c.b = call[p].b, CallShape(c), Sized(Parent(call[p])),
           open' = Opened(open, c.ino), bbits' = bbits \ {open[c.ino].inode.blk},
           UNCHANGED <<ibits, dI, dB, blk, made, crashes>>, ~stopped'
    PROVE  DirInv'
<1> PICK d, x : d = Parent(call[p]) /\ x = c.ino
  OBVIOUS
<1>0. /\ DirTypeOK /\ EntriesOnce /\ NumbersOwned /\ ChosenFresh /\ RootKept /\ OwnedEntries
      /\ ChosenFiles /\ KeptDirs /\ FilesKept /\ Occupied /\ NewBlocks
  BY DEF DirInv
<1>1. /\ call'[p] = c /\ \A q \in Procs : q # p => call'[q] = call[q]
      /\ call' \in [Procs -> Calls]
  BY <1>0, CallsSet
<1>2. \A q \in Procs : /\ Making(call'[q]) <=> Making(call[q])
                       /\ Entered(call'[q]) <=> Entered(call[q])
                       /\ Chosen(call'[q]) <=> Chosen(call[q])
                       /\ Removed(call'[q]) <=> Removed(call[q])
                       /\ Freed(call'[q]) <=> Freed(call[q])
                       /\ Searching(call'[q]) <=> Searching(call[q])
                       /\ call'[q].pc = "isync" <=> call[q].pc = "isync"
                       /\ call'[q].pc = "open" <=> call[q].pc = "open"
                       /\ call'[q].pc = "bsync" <=> call[q].pc = "bsync"
                       /\ call'[q].op = call[q].op /\ call'[q].path = call[q].path
                       /\ call'[q].dir = call[q].dir /\ call'[q].ino = call[q].ino
                       /\ call'[q].b = call[q].b
  BY <1>1 DEF Making, Entered, Chosen, Removed, Freed, Searching, New, Deletes
<1>3. \A q \in Procs : /\ Owns(call'[q]) <=> Owns(call[q])
                       /\ HasBlock(call'[q]) <=> HasBlock(call[q])
                       /\ \A i : Holds(call'[q], i) <=> Holds(call[q], i)
                       /\ Parent(call'[q]) = Parent(call[q])
                       /\ EntryOf(call'[q]) = EntryOf(call[q])
                       /\ New(call'[q]) <=> New(call[q])
  BY <1>2 DEF Owns, HasBlock, Holds, Parent, EntryOf, Target, New
<1>4. \A i : BeingMade(i)' <=> BeingMade(i)
  BY <1>2, StagesNamed
<1>5. /\ \A s, i : SubAt(s, i)' <=> SubAt(s, i)
      /\ \A b, s : Filled(b, s)' <=> Filled(b, s)
      /\ \A i \in Inos : SizeOf(i)' = SizeOf(i)
      /\ \A i \in Inos : FileInode(i)' <=> FileInode(i)
  BY DEF SubAt, Filled, SizeOf, Sized, FileInode
<1>6. \A i : Made(i)' <=> Made(i)
  BY <1>4, <1>5 DEF Made
<1>7. /\ Removed(call[p]) /\ Owns(call[p]) /\ x # 0 /\ x \in Inos
      /\ \A q \in Procs : q # p /\ Owns(call[q]) => call[q].ino # x
  <2>1. Removed(call[p]) /\ Owns(call[p])
    BY DEF Removed, Owns, Deletes
  <2> QED
    BY <1>0, <2>1 DEF NumbersOwned, Calls
<1>8. 0 \in Inos /\ 0 \in Blks /\ tab[0].blk = 0 /\ Kept(0)
  BY <1>0, IdleKnown DEF RootKept, Kept, Made
<1>9. ~Made(x)
  <2>1. \A s \in Slots : ~SubAt(s, x)
    BY <1>0, <1>7, <1>8, EntryTypes DEF OwnedEntries, SubAt
  <2> QED
    BY <1>7, <2>1 DEF Made
<1>10. Kept(x) /\ \A i : Kept(i)' <=> Kept(i) /\ i # x
  <2>1. \A i : Leaving(call[p], i) <=> i = x
    BY DEF Leaving, Resizing
  <2>2. \A i : ~Leaving(c, i)
    BY DEF Leaving, Resizing
  <2>3. \A q \in Procs : q # p => ~Leaving(call[q], x)
    BY <1>7 DEF Leaving, Owns, Removed, Resizing, Deletes
  <2> QED
    BY <1>1, <1>6, <1>9, <2>1, <2>2, <2>3 DEF Kept
<1>11. Holds(call[p], x) /\ open[x].cnt > 0
  <2>1. ~Searching(call[p]) /\ call[p].dir = x
    BY CallKnown DEF DirOf, Searching
  <2> QED
    BY <1>7, <2>1, CountPositive DEF Holds
<1>12. open[x].inode.blk = tab[x].blk
  BY <1>0, <1>7, <1>10, <1>11 DEF KeptDirs
<1>13. /\ open' \in Opens /\ open'[x].cnt = open[x].cnt + 1
       /\ \A f \in Inos : f # x => open'[f] = open[f]
  <2>1. open \in Opens
    BY OpenKnown DEF Opens
  <2> QED
    BY <1>7, <2>1, OpenedOne
<1>14. \A path : path \in UnderWay' <=> path \in UnderWay
  BY <1>2, <1>3, StagesNamed
<1>15. \A i \in Inos : tab'[i].no = tab[i].no /\ tab'[i].blk = tab[i].blk
  BY DEF Sized
<1>16. bbits' = bbits \ {tab[x].blk}
  BY <1>12
<1>20. DirTypeOK'
  BY <1>0, <1>1, <1>13 DEF DirTypeOK, Sized, Opens
<1>21. Shapes'
  BY <1>1 DEF DirInv, Shapes
<1>22. DirsHeld'
  BY <1>2, <1>3, <1>4, <1>5, <1>6 DEF DirInv, DirsHeld, DirOf
<1>23. NumbersOwned' /\ ChosenFresh'
  BY <1>0, <1>2, <1>3 DEF NumbersOwned, ChosenFresh
<1>24. EntriesOnce' /\ ChosenFiles'
  BY <1>0, <1>2, <1>5 DEF EntriesOnce, ChosenFiles, IsFile
<1>25. OwnedEntries'
  <2>1. \A q \in Procs : Entered(call[q]) => Parent(call[q]) \in Inos
    BY ParentKnown DEF Entered
  <2> QED
    BY <1>0, <1>2, <1>3, <1>5, <1>15, <2>1 DEF OwnedEntries
<1>26. Occupied'
  BY <1>0, <1>5, <1>6, <1>15 DEF Occupied
<1>27. KeptDirs'
  <2>1. tab'[d].size = SizeOf(d) /\ \A i \in Inos : i # d => tab'[i] = tab[i]
    BY DEF Sized
  <2>2. \A q \in Procs : q # p => (Resizing(call'[q]) <=> Resizing(call[q]))
    BY <1>1
  <2>3. \A f \in Inos : Kept(f) =>
            tab'[f].size = SizeOf(f) \/ \E q \in Procs : Resizing(call'[q]) /\ Parent(call'[q]) = f
    BY <1>0, <1>3, <2>1, <2>2 DEF KeptDirs
  <2>4. \A f \in Inos : Kept(f) /\ f # x => tab[f].blk \in bbits'
    BY <1>0, <1>7, <1>10, <1>16 DEF KeptDirs
  <2>5. ASSUME NEW f \in Inos, Kept(f), f # x
        PROVE  /\ tab'[f].no = f /\ tab'[f].blk \in bbits' /\ tab'[f].blk \in dB'
               /\ open'[f].cnt > 0 => /\ open'[f].inode.no = f /\ open'[f].inode.blk = tab'[f].blk
                                      /\ open'[f].inode.size = SizeOf(f)
    BY <1>0, <1>13, <1>15, <2>4, <2>5 DEF KeptDirs
  <2>6. \A f, g \in Inos : Kept(f) /\ Kept(g) /\ g # f => tab'[g].blk # tab'[f].blk
    BY <1>0, <1>15 DEF KeptDirs
  <2> QED
    BY <1>5, <1>10, <2>3, <2>5, <2>6 DEF KeptDirs
<1>28. NewBlocks'
  <2>1. \A q \in Procs : HasBlock(call[q]) => call[q].b \in bbits'
    BY <1>0, <1>7, <1>10, <1>16 DEF NewBlocks
  <2> QED
    BY <1>0, <1>2, <1>3, <1>10, <1>15, <2>1 DEF NewBlocks
<1>29. CountsExact'
  <2>1. \A f : (Releases(c, f) <=> f = x) /\ ~Releases(call[p], f) /\ (Holds(c, f) <=> Holds(call[p], f))
    BY <1>1, <1>3 DEF Releases, Deletes
  <2>2. \A f \in Inos : open[f].cnt \in Nat
    BY OpenKnown
  <2>3. \A f \in Inos : open'[f].cnt = open[f].cnt + One(Holds(c, f)) - One(Holds(call[p], f))
                                     + One(Releases(c, f)) - One(Releases(call[p], f))
    BY <1>13, <2>1, <2>2 DEF One
  <2> QED
    BY <2>3, CountsMove
<1>30. FilesKept'
  <2>1. \A b \in Blks, s \in Slots : blk[b][s].type = "file" => blk[b][s].ino \in Inos
    BY <1>0, EntryTypes
  <2>2. \A q \in Procs : call[q].ino \in Inos
    BY CallKnown DEF Calls
  <2>4. \A b \in Blks, s \in Slots : blk'[b][s].type = "file" =>
          \/ FileInode(blk[b][s].ino)'
          \/ \E q \in Procs : /\ Entered(call'[q]) /\ call'[q].op = "create"
                              /\ call'[q].ino = blk'[b][s].ino
    BY <1>0, <1>2, <1>5, <2>1 DEF FilesKept, FileInode
  <2>5. \A q \in Procs : (call'[q].op = "unlink" /\ call'[q].pc \in {"pread", "pwrite", "ropen"}) =>
          tab'[call'[q].ino].no = call'[q].ino /\ tab'[call'[q].ino].blk = NoBlock
    BY <1>0, <1>1, <1>15, <2>2 DEF FilesKept, FileInode
  <2> QED
    BY <2>4, <2>5 DEF FilesKept, FileInode
<1>31. MarkedOnDisk'
  BY <1>2, <1>5 DEF DirInv, MarkedOnDisk
<1>32. RootKept'
  <2>1. tab[x].blk # 0
    BY <1>0, <1>7, <1>8, <1>10 DEF KeptDirs
  <2> QED
    BY <1>0, <1>8, <1>15, <1>16, <2>1 DEF RootKept
<1>33. NoneLeaked'
  <2>1. \A b \in bbits' : b \in bbits /\ b # tab[x].blk
    BY <1>16
  <2> QED
    BY <1>2, <1>3, <1>5, <1>10, <1>15, <2>1 DEF DirInv, NoneLeaked
<1>34. MadeThere'
  <2>1. \A s \in Slots : Filled(0, s) => SubBlk(s)' = SubBlk(s)
    BY <1>0, <1>15, IdleKnown, EntryTypes DEF SubBlk
  <2>2. \A path : \A s, t \in Slots : Lies(path, s, t) =>
            Lies(path, s, t)' /\ (Lasts(path, s, t)' <=> Lasts(path, s, t))
    BY <1>4, <1>5, <2>1 DEF Lies, Lasts
  <2> QED
    BY <1>14, <2>2 DEF DirInv, MadeThere, There
<1> QED
  BY <1>20, <1>21, <1>22, <1>23, <1>24, <1>25, <1>26, <1>27, <1>28, <1>29, <1>30, <1>31,
     <1>32, <1>33, <1>34 DEF DirInv

(* Nobody has opened the inode of a file that is being removed. *)
LEMMA FileNotOpen ==
    ASSUME DirInv, NEW p \in Procs, call[p].op = "unlink",
           call[p].pc \in {"pread", "pwrite", "ropen"}
    PROVE  open[call[p].ino].cnt = 0
<1> PICK x : x = call[p].ino
  OBVIOUS
<1>1. Removed(call[p]) /\ Owns(call[p])
  BY DEF Removed, Owns, Deletes
<1>2. x \in Inos /\ x # 0 /\ \A q \in Procs : q # p /\ Owns(call[q]) => call[q].ino # x
  BY <1>1, CallKnown DEF DirInv, NumbersOwned, Calls
<1>3. ASSUME NEW q \in Procs, Releases(call[q], x) PROVE FALSE
  <2>1. call[q].ino = x /\ Owns(call[q]) /\ q # p
    BY <1>3 DEF Releases, Owns, Removed, Freed
  <2> QED
    BY <1>2, <2>1
<1>4. ~Kept(x)
  <2>1. \A s \in Slots : ~SubAt(s, x)
    <3>1. \A s \in Slots : Filled(0, s) => blk[0][s].ino # x
      BY <1>1, IdleKnown DEF DirInv, OwnedEntries
    <3> QED
      BY <3>1, IdleKnown, EntryTypes DEF SubAt, DirInv
  <2>2. \A q \in Procs : ~Leaving(call[q], x)
    <3>1. \A q \in Procs : Leaving(call[q], x) => q # p /\ Owns(call[q]) /\ call[q].ino = x
      BY DEF Leaving, Resizing, Owns, Removed, Deletes
    <3> QED
      BY <1>2, <3>1
  <2> QED
    BY <1>2, <2>1, <2>2 DEF Kept, Made
<1>5. ASSUME NEW q \in Procs, Holds(call[q], x) PROVE FALSE
  <2>1. call[q].op = "rmdir" /\ call[q].ino = x /\ Owns(call[q])
    BY <1>4, <1>5, HeldDirs
  <2> QED
    BY <1>2, <2>1
<1>6. open[x].cnt \in Nat /\ ~(open[x].cnt > 0)
  BY <1>2, <1>3, <1>5, CountPositive
<1> QED
  BY <1>6

LEMMA ParentWriteStep ==
    ASSUME DirInv, NEW p \in Procs, ParentWrite(p), ~clash'
    PROVE  DirInv'
<1> PICK c, d : c = call[p] /\ d = Parent(c)
  OBVIOUS
<1>1. /\ c.pc = "pwrite" /\ TableWrite(p, d, open[d].inode)
      /\ UNCHANGED <<dI, dB, blk, made, crashes>> /\ ~stopped'
  BY DEF ParentWrite, PcIs, DirInv
<1>2. Sized(d) /\ Sized(Parent(call[p]))
  BY <1>1, ParentSized
<1>3. c \in Calls /\ CallShape(c) /\ DirOf(c) /\ c.ino \in Inos /\ open \in Opens
      /\ ZeroInode \in Inodes
  BY CallKnown, OpenKnown, IdleKnown DEF Calls, Opens
<1>4. ASSUME ~Deletes(c),
             SetCall(p, [c EXCEPT !.pc = "nread", !.buf = <<>>, !.pure = NewInode(c.op, c.ino, c.b)]),
             UNCHANGED <<ibits, bbits, open>>
      PROVE  DirInv'
  <2> DEFINE e == [c EXCEPT !.pc = "nread", !.buf = <<>>, !.pure = NewInode(c.op, c.ino, c.b)]
  <2>1. NewInode(c.op, c.ino, c.b) \in Inodes
    BY <1>3 DEF NewInode, Inodes, Calls
  <2>2. /\ e \in Calls /\ e.op = c.op /\ e.path = c.path /\ e.dir = c.dir /\ e.ino = c.ino /\ e.b = c.b
        /\ e.pc = "nread" /\ e.pure = NewInode(c.op, c.ino, c.b)
    BY <1>3, <2>1 DEF Calls, Pcs
  <2>3. call' = [call EXCEPT ![p] = e]
    BY <1>4 DEF SetCall
  <2> HIDE DEF e
  <2>4. New(c) /\ New(e) /\ e.op # "rmdir"
    BY <1>1, <1>3, <1>4, <2>2 DEF New, Deletes, CallShape, Calls
  <2>5. CallShape(e)
    <3>1. (Making(e) \/ Entered(e)) => (Making(c) \/ Entered(c))
      BY <1>1, <2>4 DEF Making, Entered
    <3> QED
      BY <1>1, <1>3, <2>2, <2>4, <3>1 DEF CallShape, Deletes, New
  <2> QED
    BY <1>1, <1>2, <1>4, <2>2, <2>3, <2>4, <2>5, SyncedStep
<1>5. ASSUME Deletes(c), open[c.ino].cnt > 0, Release(p, c, Opened(open, c.ino))
      PROVE  DirInv'
  <2>1. c.op = "rmdir"
    BY <1>1, <1>5, FileNotOpen DEF Deletes
  <2> PICK o : o = Opened(open, c.ino)
    OBVIOUS
  <2>2. o[c.ino].inode = open[c.ino].inode
    BY <1>3, OpenedOne
  <2>3. Kept(c.ino)
    BY <1>1, <2>1 DEF Kept, Leaving, Resizing
  <2>4. o[c.ino].inode.blk # NoBlock
    BY <1>3, <1>5, <2>2, <2>3, IdleKnown DEF DirInv, KeptDirs, DirTypeOK
  <2> DEFINE e == [c EXCEPT !.pc = "bfree", !.buf = <<>>, !.pure = ZeroInode]
  <2>5. /\ open' = o /\ bbits' = bbits \ {o[c.ino].inode.blk} /\ UNCHANGED ibits
        /\ call' = [call EXCEPT ![p] = e]
    BY <1>5, <2>4 DEF Release, SetCall
  <2>6. /\ e \in Calls /\ e.op = c.op /\ e.path = c.path /\ e.dir = c.dir /\ e.ino = c.ino /\ e.b = c.b
        /\ e.pc = "bfree"
    BY <1>3 DEF Calls, Pcs
  <2> HIDE DEF e
  <2>7. CallShape(e)
    BY <1>1, <1>3, <2>1, <2>6 DEF CallShape, Making, Entered, New
  <2> QED
    BY <1>1, <1>2, <2>1, <2>2, <2>5, <2>6, <2>7, DirReleaseStep
<1>6. ASSUME Deletes(c), open[c.ino].cnt = 0,
             SetCall(p, [c EXCEPT !.pc = "ropen", !.buf = <<>>, !.pure = ZeroInode]),
             UNCHANGED <<ibits, bbits, open>>
      PROVE  DirInv'
  <2> DEFINE e == [c EXCEPT !.pc = "ropen", !.buf = <<>>, !.pure = ZeroInode]
  <2>1. c.op # "rmdir"
    <3> SUFFICES ASSUME c.op = "rmdir" PROVE FALSE
      OBVIOUS
    <3>1. ~Searching(c) /\ c.dir = c.ino /\ c.ino # 0
      BY <1>1, <1>3 DEF Searching, DirOf
    <3>2. Holds(call[p], c.ino)
      BY <3>1 DEF Holds
    <3> QED
      BY <1>3, <1>6, <3>2, CountPositive
  <2>2. /\ e \in Calls /\ e.op = c.op /\ e.path = c.path /\ e.dir = c.dir /\ e.ino = c.ino /\ e.b = c.b
        /\ e.pc = "ropen"
    BY <1>3 DEF Calls, Pcs
  <2>3. call' = [call EXCEPT ![p] = e]
    BY <1>6 DEF SetCall
  <2> HIDE DEF e
  <2>4. Deletes(e) /\ e.op = "unlink"
    BY <1>6, <2>1, <2>2 DEF Deletes
  <2>5. CallShape(e)
    BY <1>1, <1>3, <2>2, <2>4 DEF CallShape, Making, Entered, New
  <2> QED
    BY <1>1, <1>2, <1>6, <2>2, <2>3, <2>4, <2>5, SyncedStep
<1>7. \/ /\ ~Deletes(c)
         /\ SetCall(p, [c EXCEPT !.pc = "nread", !.buf = <<>>, !.pure = NewInode(c.op, c.ino, c.b)])
         /\ UNCHANGED <<ibits, bbits, open>>
      \/ Deletes(c) /\ ReleaseStart(p, c)
  BY DEF ParentWrite
<1> QED
  BY <1>4, <1>5, <1>6, <1>7 DEF ReleaseStart

----------------------------------------------------------------------------
(* inode_sync of the new inode. *)
LEMMA NewWriteStep ==
    ASSUME DirInv, NEW p \in Procs, NewWrite(p), ~clash'
    PROVE  DirInv'
<1> PICK c, x, d, B : c = call[p] /\ x = c.ino /\ d = Parent(c) /\ B = tab[d].blk
  OBVIOUS
<1> DEFINE e == [c EXCEPT !.pc = "isync", !.buf = <<>>, !.pure = ZeroInode]
<1>0. /\ DirTypeOK /\ EntriesOnce /\ NumbersOwned /\ ChosenFresh /\ RootKept /\ OwnedEntries
      /\ ChosenFiles /\ KeptDirs /\ FilesKept /\ Occupied /\ NewBlocks
  BY DEF DirInv
<1>1. /\ c.pc = "nwrite" /\ TableWrite(p, x, c.pure)
      /\ call' = [call EXCEPT ![p] = e]
      /\ UNCHANGED <<ibits, bbits, open, dI, dB, blk, made, crashes>> /\ ~stopped'
  BY DEF NewWrite, PcIs, DirInv, SetCall
<1>2. c \in Calls /\ CallShape(c) /\ DirOf(c) /\ x \in Inos /\ ZeroInode \in Inodes
  BY CallKnown, IdleKnown DEF Calls
<1>3. /\ New(c) /\ Entered(c) /\ Owns(c) /\ c.pure = NewInode(c.op, x, c.b)
      /\ ~Removed(c) /\ ~Making(c) /\ ~Freed(c) /\ ~Chosen(c) /\ ~Resizing(c)
      /\ (\A f : ~Leaving(c, f)) /\ (\A f : ~Releases(c, f)) /\ ~Searching(c)
      /\ (HasBlock(c) <=> c.op = "mkdir")
      /\ c.op \in {"create", "mkdir"} /\ (c.op = "create" => c.b = NoBlock)
  BY <1>1, <1>2 DEF New, Entered, Owns, CallShape, Removed, Making, Freed, Chosen, Resizing, Leaving,
                    Releases, Searching, HasBlock
<1>4. /\ e \in Calls /\ e.op = c.op /\ e.path = c.path /\ e.dir = c.dir /\ e.ino = x /\ e.b = c.b
      /\ e.pc = "isync"
  BY <1>2 DEF Calls, Pcs
<1>5. /\ call'[p] = e /\ \A q \in Procs : q # p => call'[q] = call[q]
      /\ call' \in [Procs -> Calls]
  BY <1>0, <1>1, <1>4, CallsSet
<1> HIDE DEF e
<1>6. /\ New(e) /\ ~Owns(e) /\ ~Making(e) /\ ~Entered(e) /\ ~Removed(e) /\ ~Freed(e) /\ ~Chosen(e)
      /\ ~Resizing(e) /\ (\A f : ~Leaving(e, f)) /\ (\A f : ~Releases(e, f)) /\ ~Searching(e)
      /\ ~HasBlock(e) /\ (\A f : Holds(e, f) <=> Holds(c, f)) /\ Parent(e) = Parent(c)
  BY <1>3, <1>4 DEF New, Owns, Making, Entered, Removed, Freed, Chosen, Resizing, Leaving, Releases,
                    Searching, HasBlock, Holds, Parent
<1>7. x # 0 /\ x \in ibits /\ \A q \in Procs : q # p /\ Owns(call[q]) => call[q].ino # x
  BY <1>0, <1>3 DEF NumbersOwned
<1>8. tab' = [tab EXCEPT ![x] = NewInode(c.op, x, c.b)] /\ tab \in [Inos -> Inodes]
  BY <1>0, <1>1, <1>3 DEF TableWrite, DirTypeOK
<1>9. NewInode(c.op, x, c.b) \in Inodes
  BY <1>2 DEF NewInode, Inodes, Calls
<1>10. /\ tab' \in [Inos -> Inodes] /\ \A i \in Inos : i # x => tab'[i] = tab[i]
       /\ tab'[x].no = x /\ tab'[x].blk = c.b /\ (c.op = "mkdir" => tab'[x].size = 2)
  BY <1>2, <1>8, <1>9 DEF NewInode
<1>11. 0 \in Inos /\ 0 \in Blks /\ tab[0].blk = 0 /\ NoBlock \notin Blks
  BY <1>0, IdleKnown DEF RootKept
<1>12. PICK s1 \in Slots :
           /\ blk[B][s1] = EntryOf(c) /\ Filled(B, s1)
           /\ d \in Inos /\ B \in Blks /\ Made(d) /\ (c.op = "mkdir" => B = 0)
  <2>2. d \in Inos /\ B \in Blks /\ Made(d) /\ (Len(c.path) = 1 => d = 0)
    BY <1>1, ParentKnown
  <2>3. c.op = "mkdir" => B = 0
    BY <1>2, <1>11, <2>2 DEF CallShape
  <2>4. PICK s1 \in Slots : blk[B][s1] = EntryOf(c)
    BY <1>0, <1>3 DEF OwnedEntries
  <2>5. Filled(B, s1)
    BY <2>4, EntryOfFields DEF Filled
  <2> QED
    BY <2>2, <2>3, <2>4, <2>5
<1>13. \A b \in Blks, s \in Slots : Filled(b, s) /\ blk[b][s].ino = x => blk[b][s] = EntryOf(c)
  BY <1>3, NewEntry
<1>14. EntryOf(c).ino = x /\ EntryOf(c).type = IF c.op = "mkdir" THEN "dir" ELSE "file"
  BY EntryOfFields
<1>15. /\ \A s, i : SubAt(s, i)' <=> SubAt(s, i)
       /\ \A b, s : Filled(b, s)' <=> Filled(b, s)
  BY <1>1 DEF SubAt, Filled
<1>16. \A s \in Slots : \A i : SubAt(s, i) => Filled(0, s) /\ (i = x => c.op = "mkdir")
  BY <1>0, <1>11, <1>13, <1>14, EntryTypes DEF SubAt
<1>17. \A i : BeingMade(i)' <=> BeingMade(i) /\ i # x
  <2>1. BeingMade(x) <=> c.op = "mkdir"
    BY <1>3, <1>7, StagesNamed DEF Owns
  <2>2. \A q \in Procs : q # p /\ Entered(call[q]) => call[q].ino # x
    BY <1>7 DEF Owns
  <2> QED
    BY <1>3, <1>5, <1>6, <2>2, StagesNamed
<1>18. c.op = "mkdir" => SubAt(s1, x) /\ BeingMade(x)
  BY <1>3, <1>12, <1>14, StagesNamed DEF SubAt
<1>19. ~Made(x) /\ \A i : Made(i)' <=> Made(i) \/ (c.op = "mkdir" /\ i = x)
  BY <1>7, <1>15, <1>16, <1>17, <1>18 DEF Made
<1>20. ~Kept(x) /\ \A i : Kept(i)' <=> Kept(i) \/ (c.op = "mkdir" /\ i = x)
  <2>1. \A q \in Procs : Leaving(call[q], x) => q # p /\ Owns(call[q]) /\ call[q].ino = x
    BY <1>3 DEF Leaving, Owns, Removed, Resizing, Deletes
  <2>2. \A q \in Procs : ~Leaving(call[q], x)
    BY <1>7, <2>1
  <2> QED
    BY <1>3, <1>5, <1>6, <1>19, <2>2 DEF Kept
<1>21. \A path : path \in UnderWay' <=> path \in UnderWay
  BY <1>3, <1>4, <1>5, <1>6, StagesNamed
<1>22. \A i \in Inos : i # x => SizeOf(i)' = SizeOf(i) /\ (FileInode(i)' <=> FileInode(i))
  BY <1>1, <1>10 DEF SizeOf, FileInode
<1>23. ASSUME c.op = "mkdir"
       PROVE  /\ c.b \in bbits /\ c.b \in dB /\ SizeOf(x)' = 2 /\ open[x].cnt = 0
              /\ \A f \in Inos : Kept(f) => tab[f].blk # c.b
              /\ \A q \in Procs : q # p /\ HasBlock(call[q]) => call[q].b # c.b
  <2>1. /\ c.b \in bbits /\ c.b \in dB
        /\ \A f \in Inos : Kept(f) => tab[f].blk # c.b
        /\ \A q \in Procs : q # p /\ HasBlock(call[q]) => call[q].b # c.b
    BY <1>0, <1>1, <1>3, <1>23 DEF NewBlocks
  <2>2. c.b \in Blks
    BY <1>0, <2>1 DEF DirTypeOK
  <2>3. \A s \in Slots : ~Filled(c.b, s)
    BY <1>0, <2>1, <2>2 DEF Occupied, Kept
  <2>4. Entries(blk[c.b]) = {}
    BY <2>3 DEF Entries, Filled
  <2>5. Cardinality(Entries(blk[c.b])) = 0
    BY <2>4, FS_EmptySet
  <2>6. SizeOf(x)' = 2
    BY <1>1, <1>10, <2>5 DEF SizeOf
  <2>7. open[x].cnt = 0
    BY <1>3, NewNotOpen
  <2> QED
    BY <2>1, <2>6, <2>7
<1>30. DirTypeOK'
  BY <1>0, <1>1, <1>5, <1>10 DEF DirTypeOK
<1>31. Shapes'
  <2>1. CallShape(e)
    BY <1>1, <1>2, <1>3, <1>4, <1>6 DEF CallShape
  <2> QED
    BY <1>5, <2>1 DEF DirInv, Shapes
<1>32. DirsHeld'
  <2>1. DirOf(e)'
    <3> PICK k : k = e
      OBVIOUS
    <3>1. DirOf(k)'
      BY <1>2, <1>3, <1>4, <1>6, <1>15, <1>17, <1>1 DEF DirOf, Deletes, New
    <3> QED
      BY <3>1
  <2> QED
    BY <1>1, <1>5, <1>15, <1>17, <1>19, <2>1 DEF DirInv, DirsHeld, DirOf
<1>33. NumbersOwned' /\ ChosenFresh'
  BY <1>0, <1>1, <1>5, <1>6 DEF NumbersOwned, ChosenFresh
<1>34. EntriesOnce' /\ ChosenFiles'
  BY <1>0, <1>1, <1>5, <1>6, <1>15 DEF EntriesOnce, ChosenFiles, IsFile
<1>35. OwnedEntries'
  <2>1. \A q \in Procs : Entered(call[q]) => Parent(call[q]) \in Inos /\ Parent(call[q]) # x
    BY <1>20, ParentKnown DEF Entered
  <2> QED
    BY <1>0, <1>1, <1>5, <1>6, <1>10, <1>15, <2>1 DEF OwnedEntries
<1>36. Occupied'
  BY <1>0, <1>10, <1>15, <1>19 DEF Occupied
<1>37. KeptDirs'
  <2>1. \A f \in Inos : (\E q \in Procs : Resizing(call[q]) /\ Parent(call[q]) = f) =>
            \E q \in Procs : Resizing(call'[q]) /\ Parent(call'[q]) = f
    BY <1>3, <1>5
  <2>2. \A f \in Inos : Kept(f) => f # x
    BY <1>20
  <2>3. \A f \in Inos : Kept(f) =>
        /\ tab'[f].no = f /\ tab'[f].blk \in bbits' /\ tab'[f].blk \in dB'
        /\ open'[f].cnt > 0 => /\ open'[f].inode.no = f /\ open'[f].inode.blk = tab'[f].blk
                              /\ open'[f].inode.size = SizeOf(f)'
        /\ tab'[f].size = SizeOf(f)' \/ \E q \in Procs : Resizing(call'[q]) /\ Parent(call'[q]) = f
        /\ \A g \in Inos : Kept(g) /\ g # f => tab'[g].blk # tab'[f].blk
    BY <1>0, <1>1, <1>10, <1>22, <2>1, <2>2 DEF KeptDirs
  <2>4. c.op = "mkdir" =>
        /\ tab'[x].no = x /\ tab'[x].blk \in bbits' /\ tab'[x].blk \in dB'
        /\ ~(open'[x].cnt > 0)
        /\ tab'[x].size = SizeOf(x)'
        /\ \A g \in Inos : Kept(g) => tab'[g].blk # tab'[x].blk
    BY <1>1, <1>10, <1>23, <2>2
  <2> QED
    BY <1>20, <2>3, <2>4 DEF KeptDirs
<1>38. NewBlocks'
  <2>1. \A f \in Inos : Kept(f) => tab'[f] = tab[f]
    BY <1>10, <1>20
  <2>2. \A q \in Procs : HasBlock(call'[q]) => q # p /\ HasBlock(call[q]) /\ call'[q] = call[q]
    BY <1>5, <1>6
  <2> QED
    BY <1>0, <1>1, <1>10, <1>20, <1>23, <2>1, <2>2 DEF NewBlocks
<1>39. CountsExact'
  BY <1>1, <1>3, <1>6, CountsSame
<1>40. FilesKept'
  <2>1. \A b \in Blks, s \in Slots : blk[b][s].type = "file" => blk[b][s].ino \in Inos /\ Filled(b, s)
    BY <1>0, EntryTypes
  <2>2. ASSUME NEW b \in Blks, NEW s \in Slots, blk[b][s].type = "file", blk[b][s].ino = x
        PROVE  FileInode(x)'
    <3>1. c.op = "create"
      BY <1>3, <1>13, <1>14, <2>1, <2>2
    <3> QED
      BY <1>3, <1>10, <3>1 DEF FileInode
  <2>3. \A q \in Procs : Entered(call[q]) /\ q # p => Entered(call'[q]) /\ call'[q] = call[q]
    BY <1>5
  <2>4. \A b \in Blks, s \in Slots : blk'[b][s].type = "file" =>
          \/ FileInode(blk[b][s].ino)'
          \/ \E q \in Procs : /\ Entered(call'[q]) /\ call'[q].op = "create"
                              /\ call'[q].ino = blk'[b][s].ino
    <3> SUFFICES ASSUME NEW b \in Blks, NEW s \in Slots, blk[b][s].type = "file"
                 PROVE  \/ tab'[blk'[b][s].ino].no = blk'[b][s].ino /\ tab'[blk'[b][s].ino].blk = NoBlock
                        \/ \E q \in Procs : /\ Entered(call'[q]) /\ call'[q].op = "create"
                                            /\ call'[q].ino = blk[b][s].ino
      BY <1>1 DEF FileInode
    <3> PICK i : i = blk[b][s].ino
      OBVIOUS
    <3>1. CASE i = x
      BY <1>1, <2>2, <3>1 DEF FileInode
    <3>2. CASE i # x
      <4>1. FileInode(i) \/ \E q \in Procs : Entered(call[q]) /\ call[q].op = "create" /\ call[q].ino = i
        BY <1>0 DEF FilesKept
      <4>2. i \in Inos
        BY <2>1
      <4> QED
        BY <1>1, <1>10, <2>3, <3>2, <4>1, <4>2 DEF FileInode
    <3> QED
      BY <3>1, <3>2
  <2>5. \A q \in Procs : (call'[q].op = "unlink" /\ call'[q].pc \in {"pread", "pwrite", "ropen"}) =>
          tab'[call'[q].ino].no = call'[q].ino /\ tab'[call'[q].ino].blk = NoBlock
    <3> SUFFICES ASSUME NEW q \in Procs, call'[q].op = "unlink", call'[q].pc \in {"pread", "pwrite", "ropen"}
                 PROVE  tab'[call'[q].ino].no = call'[q].ino /\ tab'[call'[q].ino].blk = NoBlock
      OBVIOUS
    <3>1. q # p /\ call'[q] = call[q]
      BY <1>4, <1>5
    <3>2. Owns(call[q]) /\ call[q].ino \in Inos
      BY <3>1, CallKnown DEF Owns, Removed, Deletes, Calls
    <3>3. call[q].ino # x
      BY <1>7, <3>1, <3>2
    <3> QED
      BY <1>0, <1>10, <3>1, <3>2, <3>3 DEF FilesKept, FileInode
  <2> QED
    BY <2>4, <2>5 DEF FilesKept, FileInode
<1>41. MarkedOnDisk'
  <2>1. \A q \in Procs : Entered(call[q]) \/ call[q].pc = "isync" =>
           /\ Entered(call'[q]) \/ call'[q].pc = "isync"
           /\ call'[q].ino = call[q].ino
    BY <1>4, <1>5
  <2> QED
    BY <1>1, <1>15, <2>1 DEF DirInv, MarkedOnDisk
<1>42. RootKept'
  BY <1>0, <1>1, <1>7, <1>10, <1>11 DEF RootKept
<1>43. NoneLeaked'
  <2>1. \A q \in Procs : Owns(call[q]) => call[q].ino = x \/ call'[q] = call[q]
    BY <1>5
  <2>2. \A q \in Procs : HasBlock(call[q]) => call'[q] = call[q] \/ (c.op = "mkdir" /\ call[q].b = c.b)
    BY <1>3, <1>5
  <2>3. \E b \in Blks, s \in Slots : Filled(b, s) /\ blk[b][s].ino = x
    BY <1>12, <1>14
  <2>4. \A f \in Inos : Kept(f) => Kept(f)' /\ tab'[f].blk = tab[f].blk
    BY <1>10, <1>20
  <2>5. c.op = "mkdir" => Kept(x)' /\ tab'[x].blk = c.b
    BY <1>10, <1>20
  <2> QED
    BY <1>1, <1>2, <1>15, <2>1, <2>2, <2>3, <2>4, <2>5 DEF DirInv, NoneLeaked
<1>44. MadeThere'
  <2>1. ASSUME NEW path, NEW s \in Slots, NEW t \in Slots, Lies(path, s, t)
        PROVE  Lies(path, s, t)' /\ (Lasts(path, s, t) => Lasts(path, s, t)')
    <3>1. ASSUME Len(path) = 2
          PROVE  SubBlk(s)' = SubBlk(s) /\ ~BeingMade(blk[0][s].ino)'
      <4>1. PICK i : i = blk[0][s].ino
        OBVIOUS
      <4>2. i \in Inos /\ Kept(i) /\ ~BeingMade(i)
        BY <2>1, <3>1, <4>1, SubMade DEF Lies
      <4>3. i # x /\ ~BeingMade(i)'
        BY <1>17, <1>20, <4>2
      <4> QED
        BY <1>1, <1>10, <4>1, <4>2, <4>3 DEF SubBlk
    <3> QED
      BY <1>1, <1>15, <2>1, <3>1 DEF Lies, Lasts
  <2> QED
    BY <1>1, <1>21, <2>1 DEF DirInv, MadeThere, There
<1> QED
  BY <1>1, <1>30, <1>31, <1>32, <1>33, <1>34, <1>35, <1>36, <1>37, <1>38,
     <1>39, <1>40, <1>41, <1>42, <1>43, <1>44 DEF DirInv

----------------------------------------------------------------------------
(* The number that inode_release gives back is nobody else's. *)
LEMMA ReleasedAlone ==
    ASSUME DirInv, NEW p \in Procs, Removed(call[p]) \/ Freed(call[p]),
           call[p].pc \notin {"pread", "pwrite"}, NEW x, x = call[p].ino
    PROVE  /\ x \in Inos /\ x # 0 /\ ~Kept(x)
           /\ \A q \in Procs : q # p /\ Owns(call[q]) => call[q].ino # x
           /\ \A b \in Blks, s \in Slots : Filled(b, s) => blk[b][s].ino # x
<1>1. Owns(call[p])
  BY DEF Owns
<1>2. x \in Inos /\ x # 0 /\ \A q \in Procs : q # p /\ Owns(call[q]) => call[q].ino # x
  BY <1>1, CallKnown DEF DirInv, NumbersOwned, Calls
<1>3. \A b \in Blks, s \in Slots : Filled(b, s) => blk[b][s].ino # x
  BY DEF DirInv, OwnedEntries
<1>4. \A s \in Slots : ~SubAt(s, x)
  BY <1>3, IdleKnown, EntryTypes DEF SubAt, DirInv
<1>5. \A q \in Procs : ~Leaving(call[q], x)
  <2>1. \A q \in Procs : Leaving(call[q], x) => q # p /\ Owns(call[q]) /\ call[q].ino = x
    BY DEF Leaving, Resizing, Owns, Removed, Deletes
  <2> QED
    BY <1>2, <2>1
<1> QED
  BY <1>2, <1>3, <1>4, <1>5 DEF Kept, Made

LEMMA FreedStep ==
    ASSUME DirInv, NEW p \in Procs, NEW c \in Calls, call' = [call EXCEPT ![p] = c],
           Removed(call[p]), call[p].pc \in {"ropen", "bfree"}, c.pc = "ifree",
           c.op = call[p].op, c.path = call[p].path, c.dir = call[p].dir, c.ino = call[p].ino,
           c.b = call[p].b, CallShape(c),
           ibits' = ibits \ {c.ino}, dB' = dB \/ dB' = bbits,
           UNCHANGED <<bbits, dI, tab, blk, made, crashes>>, ~stopped',
           open' \in [Inos -> [cnt : Nat, inode : Inodes]], CountsExact',
           \A d \in Inos : (Kept(d) /\ open'[d].cnt > 0) =>
               /\ open'[d].inode.no = d /\ open'[d].inode.blk = tab[d].blk
               /\ open'[d].inode.size = SizeOf(d)
    PROVE  DirInv'
<1> PICK x : x = call[p].ino
  OBVIOUS
<1>0. /\ DirTypeOK /\ EntriesOnce /\ NumbersOwned /\ ChosenFresh /\ RootKept /\ OwnedEntries
      /\ ChosenFiles /\ KeptDirs /\ FilesKept /\ Occupied /\ NewBlocks
  BY DEF DirInv
<1>1. /\ call'[p] = c /\ \A q \in Procs : q # p => call'[q] = call[q]
      /\ call' \in [Procs -> Calls]
  BY <1>0, CallsSet
<1>2. \A q \in Procs : /\ Making(call'[q]) <=> Making(call[q])
                       /\ Entered(call'[q]) <=> Entered(call[q])
                       /\ Chosen(call'[q]) <=> Chosen(call[q])
                       /\ (Removed(call'[q]) \/ Freed(call'[q])) <=> (Removed(call[q]) \/ Freed(call[q]))
                       /\ Searching(call'[q]) <=> Searching(call[q])
                       /\ Resizing(call'[q]) <=> Resizing(call[q])
                       /\ \A i : Leaving(call'[q], i) <=> Leaving(call[q], i)
                       /\ call'[q].pc = "isync" <=> call[q].pc = "isync"
                       /\ call'[q].pc = "open" <=> call[q].pc = "open"
                       /\ call'[q].pc = "bsync" <=> call[q].pc = "bsync"
                       /\ call'[q].op = call[q].op /\ call'[q].path = call[q].path
                       /\ call'[q].dir = call[q].dir /\ call'[q].ino = call[q].ino
                       /\ call'[q].b = call[q].b
  BY <1>1 DEF Making, Entered, Chosen, Removed, Freed, Searching, Resizing, Leaving, New, Deletes
<1>3. \A q \in Procs : /\ Owns(call'[q]) <=> Owns(call[q])
                       /\ HasBlock(call'[q]) <=> HasBlock(call[q])
                       /\ Parent(call'[q]) = Parent(call[q])
                       /\ EntryOf(call'[q]) = EntryOf(call[q])
                       /\ New(call'[q]) <=> New(call[q])
  BY <1>2 DEF Owns, HasBlock, Parent, EntryOf, Target, New
<1>4. \A i : BeingMade(i)' <=> BeingMade(i)
  BY <1>2, StagesNamed
<1>5. /\ \A s, i : SubAt(s, i)' <=> SubAt(s, i)
      /\ \A b, s : Filled(b, s)' <=> Filled(b, s)
      /\ \A i : SizeOf(i)' = SizeOf(i)
      /\ \A i : FileInode(i)' <=> FileInode(i)
  BY DEF SubAt, Filled, SizeOf, FileInode
<1>6. \A i : (Made(i)' <=> Made(i)) /\ (Kept(i)' <=> Kept(i))
  BY <1>2, <1>4, <1>5 DEF Made, Kept
<1>7. /\ x \in Inos /\ x # 0 /\ ~Kept(x)
      /\ \A q \in Procs : q # p /\ Owns(call[q]) => call[q].ino # x
      /\ \A b \in Blks, s \in Slots : Filled(b, s) => blk[b][s].ino # x
  BY ReleasedAlone
<1>8. Freed(c) /\ Owns(c) /\ Owns(call[p])
  BY DEF Freed, Removed, Owns, Deletes
<1>9. \A path : path \in UnderWay' <=> path \in UnderWay
  BY <1>2, <1>3, StagesNamed
<1>10. DirTypeOK'
  BY <1>0, <1>1 DEF DirTypeOK
<1>11. Shapes'
  BY <1>1 DEF DirInv, Shapes
<1>12. DirsHeld'
  BY <1>2, <1>3, <1>4, <1>5, <1>6 DEF DirInv, DirsHeld, DirOf
<1>13. NumbersOwned'
  BY <1>0, <1>1, <1>3, <1>7, <1>8 DEF NumbersOwned
<1>14. ChosenFresh' /\ ChosenFiles'
  BY <1>0, <1>2, <1>5 DEF ChosenFresh, ChosenFiles, IsFile
<1>15. EntriesOnce'
  BY <1>0, <1>5, <1>7 DEF EntriesOnce
<1>16. OwnedEntries'
  BY <1>0, <1>2, <1>3, <1>5 DEF OwnedEntries
<1>17. Occupied'
  BY <1>0, <1>5, <1>6 DEF Occupied
<1>18. KeptDirs'
  BY <1>0, <1>2, <1>3, <1>5, <1>6 DEF KeptDirs
<1>19. NewBlocks'
  BY <1>0, <1>2, <1>3, <1>6 DEF NewBlocks
<1>20. FilesKept'
  <2>1. \A q \in Procs : (call'[q].op = "unlink" /\ call'[q].pc \in {"pread", "pwrite", "ropen"}) =>
            call'[q] = call[q]
    BY <1>1
  <2> QED
    BY <1>0, <1>2, <1>5, <2>1 DEF FilesKept, FileInode
<1>21. MarkedOnDisk'
  BY <1>2, <1>5 DEF DirInv, MarkedOnDisk
<1>22. RootKept'
  BY <1>0, <1>7 DEF RootKept
<1>23. NoneLeaked'
  BY <1>2, <1>3, <1>5, <1>6 DEF DirInv, NoneLeaked
<1>24. MadeThere'
  <2>1. /\ \A path, s, t : Lies(path, s, t)' <=> Lies(path, s, t)
        /\ \A path, s, t : Lasts(path, s, t)' <=> Lasts(path, s, t)
    BY <1>4, <1>5 DEF Lies, SubBlk, Lasts
  <2> QED
    BY <1>9, <2>1 DEF DirInv, MadeThere, There
<1> QED
  BY <1>10, <1>11, <1>12, <1>13, <1>14, <1>15, <1>16, <1>17, <1>18, <1>19, <1>20, <1>21,
     <1>22, <1>23, <1>24 DEF DirInv

LEMMA ReleaseOpenStep ==
    ASSUME DirInv, NEW p \in Procs, ReleaseOpen(p)
    PROVE  DirInv'
<1> PICK c, x, i : c = call[p] /\ x = c.ino /\ i = tab[x]
  OBVIOUS
<1> DEFINE o == [open EXCEPT ![x] = [cnt |-> 1, inode |-> i]]
           e == [c EXCEPT !.pc = "ifree", !.buf = <<>>, !.pure = ZeroInode]
<1>1. /\ c.pc = "ropen" /\ stopped' = (i.no # x) /\ Release(p, c, o)
      /\ UNCHANGED <<dI, dB, tab, blk, made, crashes>>
  BY DEF ReleaseOpen, PcIs
<1>2. c \in Calls /\ CallShape(c) /\ DirOf(c) /\ x \in Inos /\ ZeroInode \in Inodes /\ open \in Opens
      /\ i \in Inodes
  BY CallKnown, IdleKnown, OpenKnown DEF Calls, Opens, DirInv, DirTypeOK
<1>3. c.op = "unlink" /\ Removed(c) /\ FileInode(x) /\ open[x].cnt = 0
  BY <1>1, <1>2, FileNotOpen DEF CallShape, Removed, Deletes, DirInv, FilesKept
<1>4. i.no = x /\ i.blk = NoBlock
  BY <1>3 DEF FileInode
<1>5. o \in Opens /\ o[x].cnt = 1 /\ o[x].inode = i /\ \A f \in Inos : f # x => o[f] = open[f]
  <2> DEFINE r == [cnt |-> 1, inode |-> i]
  <2>1. r \in [cnt : Nat, inode : Inodes] /\ r.cnt = 1 /\ r.inode = i
    BY <1>2
  <2>2. o = [open EXCEPT ![x] = r]
    OBVIOUS
  <2> HIDE DEF r, o
  <2> QED
    BY <1>2, <2>1, <2>2 DEF Opens
<1> HIDE DEF o
<1>6. open' = o /\ ibits' = ibits \ {x} /\ UNCHANGED bbits /\ call' = [call EXCEPT ![p] = e]
  BY <1>1, <1>4, <1>5 DEF Release, SetCall
<1>7. /\ e \in Calls /\ e.op = c.op /\ e.path = c.path /\ e.dir = c.dir /\ e.ino = x /\ e.b = c.b
      /\ e.pc = "ifree"
  BY <1>2 DEF Calls, Pcs
<1> HIDE DEF e
<1>8. CallShape(e)
  BY <1>1, <1>2, <1>3, <1>7 DEF CallShape, Making, Entered, New, Deletes
<1>9. CountsExact'
  <2>1. \A f : (Releases(e, f) <=> f = x) /\ ~Releases(call[p], f) /\ (Holds(e, f) <=> Holds(call[p], f))
    BY <1>1, <1>3, <1>7 DEF Releases, Deletes, Holds, Searching
  <2>2. \A f \in Inos : open[f].cnt \in Nat
    BY OpenKnown
  <2>3. \A f \in Inos : open'[f].cnt = open[f].cnt + One(Holds(e, f)) - One(Holds(call[p], f))
                                     + One(Releases(e, f)) - One(Releases(call[p], f))
    <3>1. \A f \in Inos : open'[f].cnt = IF f = x THEN open[f].cnt + 1 ELSE open[f].cnt
      BY <1>3, <1>5, <1>6
    <3> SUFFICES ASSUME NEW f \in Inos
                 PROVE  open'[f].cnt = open[f].cnt + One(Holds(e, f)) - One(Holds(call[p], f))
                                     + One(Releases(e, f)) - One(Releases(call[p], f))
      OBVIOUS
    <3>2. One(Holds(e, f)) = One(Holds(call[p], f)) /\ One(Holds(e, f)) \in {0, 1}
          /\ One(Releases(e, f)) = (IF f = x THEN 1 ELSE 0) /\ One(Releases(call[p], f)) = 0
      BY <2>1 DEF One
    <3> HIDE DEF o, e
    <3> QED
      BY <2>2, <3>1, <3>2
  <2> QED
    BY <1>6, <2>3, CountsMove
<1>10. ~Kept(x)
  BY <1>1, <1>3, ReleasedAlone
<1>11. \A d \in Inos : (Kept(d) /\ open'[d].cnt > 0) =>
               /\ open'[d].inode.no = d /\ open'[d].inode.blk = tab[d].blk
               /\ open'[d].inode.size = SizeOf(d)
  BY <1>5, <1>6, <1>10, OpenKnown
<1>12. ~stopped'
  BY <1>1, <1>4
<1> QED
  BY <1>1, <1>3, <1>5, <1>6, <1>7, <1>8, <1>9, <1>11, <1>12, FreedStep DEF Opens

LEMMA FreeBlockStep ==
    ASSUME DirInv, NEW p \in Procs, FreeBlock(p)
    PROVE  DirInv'
<1> PICK c : c = call[p]
  OBVIOUS
<1> DEFINE e == [c EXCEPT !.pc = "ifree"]
<1>1. /\ c.pc = "bfree" /\ dB' = bbits /\ ibits' = ibits \ {c.ino} /\ call' = [call EXCEPT ![p] = e]
      /\ UNCHANGED <<bbits, open, dI, tab, blk, made, crashes>> /\ ~stopped'
  BY DEF FreeBlock, PcIs, SetCall, DirInv
<1>2. c \in Calls /\ CallShape(c)
  BY CallKnown
<1>3. c.op = "rmdir" /\ Removed(c)
  BY <1>1, <1>2 DEF CallShape, Removed, Deletes
<1>4. /\ e \in Calls /\ e.op = c.op /\ e.path = c.path /\ e.dir = c.dir /\ e.ino = c.ino /\ e.b = c.b
      /\ e.pc = "ifree"
  BY <1>2 DEF Calls, Pcs
<1> HIDE DEF e
<1>5. CallShape(e)
  BY <1>1, <1>2, <1>3, <1>4 DEF CallShape, Making, Entered, New, Deletes
<1>6. CountsExact'
  <2>1. \A f : (Releases(e, f) <=> Releases(call[p], f)) /\ (Holds(e, f) <=> Holds(call[p], f))
    BY <1>1, <1>3, <1>4 DEF Releases, Deletes, Holds, Searching
  <2> QED
    BY <1>1, <2>1, CountsSame
<1> QED
  BY <1>1, <1>3, <1>4, <1>5, <1>6, OpenKnown, FreedStep

(* inode_close of the released inode, and of the directory. *)
LEMMA ZeroOpens ==
    ASSUME DirInv, NEW p \in Procs, NEW c, NEW x, c = call[p], x = c.ino, Freed(c),
           c.pc = "zwrite", Return(p, Closed(open, x))
    PROVE  /\ call' = [call EXCEPT ![p] = Idle] /\ open' \in Opens /\ CountsExact'
           /\ \A f \in Inos : f # x /\ open'[f].cnt > 0 => open[f].cnt > 0 /\ open'[f].inode = open[f].inode
<1> PICK d, o : d = c.dir /\ o = Closed(open, x)
  OBVIOUS
<1>1. call' = [call EXCEPT ![p] = Idle] /\ open' = IF d = 0 THEN o ELSE Closed(o, d)
  BY DEF Return, SetCall
<1>2. c \in Calls /\ d \in Inos /\ x \in Inos /\ open \in Opens /\ x # 0 /\ ~Kept(x)
      /\ DirOf(c) /\ CallShape(c) /\ \A f \in Inos : open[f].cnt \in Nat
  BY CallKnown, OpenKnown, ReleasedAlone DEF Calls, Opens
<1>3. ~Searching(c) /\ Deletes(c) /\ \A f : (Releases(c, f) <=> f = x) /\ (Holds(c, f) <=> f # 0 /\ f = d)
  BY DEF Searching, Freed, Releases, Holds, Deletes
<1>4. open[x].cnt > 0 /\ (d # 0 => open[d].cnt > 0)
  BY <1>2, <1>3, CountPositive
<1>5. /\ o \in Opens /\ o[x].cnt = open[x].cnt - 1
      /\ \A f \in Inos : f # x => o[f] = open[f]
  BY <1>2, <1>4, ClosedOne
<1>6. d = x => open[x].cnt > 1
  <2> SUFFICES ASSUME d = x PROVE open[x].cnt > 1
    OBVIOUS
  <2>1. open[x].cnt = Cardinality(Holders(x)) + Cardinality(Releasers(x)) + (IF x = 0 THEN 1 ELSE 0)
    BY <1>2 DEF DirInv, CountsExact
  <2>2. /\ IsFiniteSet(Holders(x)) /\ IsFiniteSet(Releasers(x))
        /\ Cardinality(Holders(x)) \in Nat /\ Cardinality(Releasers(x)) \in Nat
    BY HoldersFinite
  <2>3. p \in Holders(x) /\ p \in Releasers(x)
    BY <1>2, <1>3 DEF Holders, Releasers
  <2>4. Cardinality(Holders(x)) # 0 /\ Cardinality(Releasers(x)) # 0
    BY <2>2, <2>3, FS_EmptySet
  <2> QED
    BY <1>2, <2>1, <2>2, <2>4
<1>7. /\ open' \in Opens
      /\ \A f \in Inos : open'[f].cnt = open[f].cnt - (IF f = x THEN 1 ELSE 0)
                                                    - (IF f # 0 /\ f = d THEN 1 ELSE 0)
      /\ \A f \in Inos : f # x /\ open'[f].cnt > 0 => open[f].cnt > 0 /\ open'[f].inode = open[f].inode
  <2>1. CASE d = 0
    BY <1>1, <1>2, <1>5, <2>1
  <2>2. CASE d # 0
    <3>1. o[d].cnt > 0
      BY <1>2, <1>4, <1>5, <1>6, <2>2
    <3>2. /\ open' \in Opens /\ open'[d].cnt = o[d].cnt - 1
          /\ o[d].cnt > 1 => open'[d].inode = o[d].inode
          /\ \A f \in Inos : f # d => open'[f] = o[f]
      BY <1>1, <1>2, <1>5, <2>2, <3>1, ClosedOne
    <3>3. ASSUME NEW f \in Inos
          PROVE  /\ open'[f].cnt = open[f].cnt - (IF f = x THEN 1 ELSE 0)
                                                - (IF f # 0 /\ f = d THEN 1 ELSE 0)
                 /\ f # x /\ open'[f].cnt > 0 => open[f].cnt > 0 /\ open'[f].inode = open[f].inode
      <4>1. CASE f = d
        <5>1. open[d].cnt \in Nat
          BY <1>2
        <5>2. CASE d = x
          BY <1>5, <2>2, <3>2, <4>1, <5>1, <5>2
        <5>3. CASE d # x
          BY <1>2, <1>5, <2>2, <3>2, <4>1, <5>1, <5>3
        <5> QED
          BY <5>2, <5>3
      <4>2. CASE f # d
        BY <1>2, <1>5, <2>2, <3>2, <4>2
      <4> QED
        BY <4>1, <4>2
    <3> QED
      BY <3>2, <3>3
  <2> QED
    BY <2>1, <2>2
<1>8. \A f \in Inos : open'[f].cnt = open[f].cnt + One(Holds(Idle, f)) - One(Holds(call[p], f))
                                     + One(Releases(Idle, f)) - One(Releases(call[p], f))
  <2> SUFFICES ASSUME NEW f \in Inos
               PROVE  open'[f].cnt = open[f].cnt + One(Holds(Idle, f)) - One(Holds(call[p], f))
                                     + One(Releases(Idle, f)) - One(Releases(call[p], f))
    OBVIOUS
  <2>1. /\ One(Holds(Idle, f)) = 0 /\ One(Releases(Idle, f)) = 0
        /\ One(Holds(call[p], f)) = (IF f # 0 /\ f = d THEN 1 ELSE 0)
        /\ One(Releases(call[p], f)) = (IF f = x THEN 1 ELSE 0)
    BY <1>3, IdleKnown DEF One
  <2> QED
    BY <1>2, <1>7, <2>1
<1>9. CountsExact'
  BY <1>1, <1>8, CountsMove
<1> QED
  BY <1>1, <1>7, <1>9

(* inode_delete clears the inode and the call returns. *)
LEMMA ZeroWriteStep ==
    ASSUME DirInv, NEW p \in Procs, ZeroWrite(p), ~clash'
    PROVE  DirInv'
<1> PICK c, x : c = call[p] /\ x = c.ino
  OBVIOUS
<1>0. /\ DirTypeOK /\ EntriesOnce /\ NumbersOwned /\ ChosenFresh /\ RootKept /\ OwnedEntries
      /\ ChosenFiles /\ KeptDirs /\ FilesKept /\ Occupied /\ NewBlocks
  BY DEF DirInv
<1>1. /\ c.pc = "zwrite" /\ tab' = [tab EXCEPT ![x] = ZeroInode] /\ Return(p, Closed(open, x))
      /\ UNCHANGED <<ibits, bbits, dI, dB, blk, made, crashes>> /\ ~stopped'
  BY DEF ZeroWrite, PcIs, DirInv
<1>2. c \in Calls /\ CallShape(c) /\ Freed(c) /\ Owns(c) /\ Deletes(c)
  BY <1>1, CallKnown DEF CallShape, Freed, Owns
<1>3. /\ call' = [call EXCEPT ![p] = Idle] /\ open' \in Opens /\ CountsExact'
      /\ \A f \in Inos : f # x /\ open'[f].cnt > 0 => open[f].cnt > 0 /\ open'[f].inode = open[f].inode
  BY <1>1, <1>2, ZeroOpens
<1>4. /\ x \in Inos /\ x # 0 /\ ~Kept(x)
      /\ \A q \in Procs : q # p /\ Owns(call[q]) => call[q].ino # x
      /\ \A b \in Blks, s \in Slots : Filled(b, s) => blk[b][s].ino # x
  BY <1>1, <1>2, ReleasedAlone
<1>5. tab' \in [Inos -> Inodes] /\ \A i \in Inos : i # x => tab'[i] = tab[i]
  BY <1>0, <1>1, <1>4, IdleKnown DEF DirTypeOK
<1>6. /\ call'[p] = Idle /\ \A q \in Procs : q # p => call'[q] = call[q]
      /\ call' \in [Procs -> Calls]
  BY <1>0, <1>3, CallsSet, IdleKnown
<1>7. /\ ~Making(c) /\ ~Entered(c) /\ ~Chosen(c) /\ ~HasBlock(c) /\ ~Resizing(c)
      /\ (\A f : ~Leaving(c, f)) /\ c.pc # "isync" /\ ~Removed(c)
  BY <1>1 DEF Making, Entered, Chosen, HasBlock, Resizing, Leaving, Removed
<1>8. /\ ~Owns(Idle) /\ ~Making(Idle) /\ ~Entered(Idle) /\ ~Removed(Idle) /\ ~Freed(Idle)
      /\ ~Chosen(Idle) /\ ~HasBlock(Idle) /\ ~Resizing(Idle) /\ (\A d : ~Leaving(Idle, d))
      /\ Idle.pc = "idle" /\ CallShape(Idle)
  BY IdleKnown DEF Owns, Making, Entered, Removed, Freed, Chosen, HasBlock, Resizing, Leaving
<1>9. \A i : BeingMade(i)' <=> BeingMade(i)
  BY <1>6, <1>7, <1>8, StagesNamed
<1>10. /\ \A s, i : SubAt(s, i)' <=> SubAt(s, i)
       /\ \A b, s : Filled(b, s)' <=> Filled(b, s)
  BY <1>1 DEF SubAt, Filled
<1>11. \A i : (Made(i)' <=> Made(i)) /\ (Kept(i)' <=> Kept(i))
  BY <1>6, <1>7, <1>8, <1>9, <1>10 DEF Made, Kept
<1>12. \A f \in Inos : Kept(f) => f # x /\ tab'[f] = tab[f] /\ SizeOf(f)' = SizeOf(f)
  BY <1>1, <1>4, <1>5 DEF SizeOf
<1>13. \A path : path \in UnderWay' <=> path \in UnderWay
  BY <1>6, <1>7, <1>8, StagesNamed
<1>20. DirTypeOK'
  BY <1>0, <1>1, <1>3, <1>5, <1>6 DEF DirTypeOK, Opens
<1>21. Shapes'
  BY <1>6, <1>8 DEF DirInv, Shapes
<1>22. DirsHeld'
  <2>1. DirOf(Idle)'
    BY <1>8 DEF DirOf, Searching
  <2> QED
    BY <1>1, <1>6, <1>9, <1>10, <1>11, <2>1 DEF DirInv, DirsHeld, DirOf
<1>23. NumbersOwned' /\ ChosenFresh'
  BY <1>0, <1>1, <1>6, <1>8 DEF NumbersOwned, ChosenFresh
<1>24. EntriesOnce' /\ ChosenFiles'
  BY <1>0, <1>1, <1>6, <1>8, <1>10 DEF EntriesOnce, ChosenFiles, IsFile
<1>25. OwnedEntries'
  <2>1. \A q \in Procs : Entered(call[q]) => Parent(call[q]) \in Inos /\ Parent(call[q]) # x
    BY <1>4, ParentKnown DEF Entered
  <2> QED
    BY <1>0, <1>1, <1>5, <1>6, <1>8, <1>10, <2>1 DEF OwnedEntries
<1>26. Occupied'
  BY <1>0, <1>10, <1>11, <1>12 DEF Occupied, Kept
<1>27. KeptDirs'
  <2>1. \A f \in Inos : (\E q \in Procs : Resizing(call[q]) /\ Parent(call[q]) = f) =>
            \E q \in Procs : Resizing(call'[q]) /\ Parent(call'[q]) = f
    BY <1>6, <1>7
  <2>2. \A f \in Inos : Kept(f) =>
        /\ tab'[f].no = f /\ tab'[f].blk \in bbits' /\ tab'[f].blk \in dB'
        /\ open'[f].cnt > 0 => /\ open'[f].inode.no = f /\ open'[f].inode.blk = tab'[f].blk
                              /\ open'[f].inode.size = SizeOf(f)'
        /\ tab'[f].size = SizeOf(f)' \/ \E q \in Procs : Resizing(call'[q]) /\ Parent(call'[q]) = f
        /\ \A g \in Inos : Kept(g) /\ g # f => tab'[g].blk # tab'[f].blk
    BY <1>0, <1>1, <1>3, <1>12, <2>1 DEF KeptDirs
  <2> QED
    BY <1>11, <2>2 DEF KeptDirs
<1>28. NewBlocks'
  BY <1>0, <1>1, <1>6, <1>8, <1>11, <1>12 DEF NewBlocks
<1>29. FilesKept'
  <2>1. \A b \in Blks, s \in Slots : blk[b][s].type = "file" => blk[b][s].ino \in Inos /\ blk[b][s].ino # x
    BY <1>0, <1>4, EntryTypes
  <2>2. \A i \in Inos : i # x => (FileInode(i)' <=> FileInode(i))
    BY <1>5 DEF FileInode
  <2>3. \A b \in Blks, s \in Slots : blk'[b][s].type = "file" =>
          \/ tab'[blk'[b][s].ino].no = blk'[b][s].ino /\ tab'[blk'[b][s].ino].blk = NoBlock
          \/ \E q \in Procs : /\ Entered(call'[q]) /\ call'[q].op = "create"
                              /\ call'[q].ino = blk'[b][s].ino
    BY <1>0, <1>1, <1>5, <1>6, <1>7, <2>1 DEF FilesKept, FileInode
  <2>4. \A q \in Procs : (call'[q].op = "unlink" /\ call'[q].pc \in {"pread", "pwrite", "ropen"}) =>
          tab'[call'[q].ino].no = call'[q].ino /\ tab'[call'[q].ino].blk = NoBlock
    <3> SUFFICES ASSUME NEW q \in Procs, call'[q].op = "unlink", call'[q].pc \in {"pread", "pwrite", "ropen"}
                 PROVE  tab'[call'[q].ino].no = call'[q].ino /\ tab'[call'[q].ino].blk = NoBlock
      OBVIOUS
    <3>1. q # p /\ call'[q] = call[q]
      BY <1>6, <1>8
    <3>2. Owns(call[q]) /\ call[q].ino \in Inos
      BY <3>1, CallKnown DEF Owns, Removed, Deletes, Calls
    <3>3. call[q].ino # x
      BY <1>4, <3>1, <3>2
    <3> QED
      BY <1>0, <1>5, <3>1, <3>2, <3>3 DEF FilesKept, FileInode
  <2> QED
    BY <2>3, <2>4 DEF FilesKept, FileInode
<1>30. MarkedOnDisk'
  <2>1. \A q \in Procs : Entered(call[q]) \/ call[q].pc = "isync" => call'[q] = call[q]
    BY <1>6, <1>7
  <2> QED
    BY <1>1, <1>10, <2>1 DEF DirInv, MarkedOnDisk
<1>31. RootKept'
  BY <1>0, <1>1, <1>4, <1>5, IdleKnown DEF RootKept
<1>32. NoneLeaked'
  <2>1. \A q \in Procs : Owns(call[q]) => call'[q] = call[q] \/ call[q].ino = x
    BY <1>6
  <2>2. \A q \in Procs : HasBlock(call[q]) => call'[q] = call[q]
    BY <1>6, <1>7
  <2>3. x \notin ibits
    BY <1>0, <1>2 DEF NumbersOwned
  <2> QED
    BY <1>1, <1>10, <1>11, <1>12, <2>1, <2>2, <2>3 DEF DirInv, NoneLeaked
<1>33. MadeThere'
  <2>1. ASSUME NEW path, NEW s \in Slots, NEW t \in Slots, Lies(path, s, t)
        PROVE  Lies(path, s, t)' /\ (Lasts(path, s, t) => Lasts(path, s, t)')
    <3>1. ASSUME Len(path) = 2 PROVE SubBlk(s)' = SubBlk(s)
      <4>1. blk[0][s].ino \in Inos /\ Kept(blk[0][s].ino)
        BY <2>1, <3>1, SubMade DEF Lies
      <4> QED
        BY <1>1, <1>12, <4>1 DEF SubBlk
    <3> QED
      BY <1>1, <1>9, <1>10, <2>1, <3>1 DEF Lies, Lasts
  <2> QED
    BY <1>1, <1>13, <2>1 DEF DirInv, MadeThere, There
<1> QED
  BY <1>1, <1>3, <1>20, <1>21, <1>22, <1>23, <1>24, <1>25, <1>26, <1>27, <1>28, <1>29, <1>30,
     <1>31, <1>32, <1>33 DEF DirInv

----------------------------------------------------------------------------
(* The directories that the next mount finds. *)
LEMMA DirsOnDisk ==
    ASSUME DirTypeOK
    PROVE  \A d : d \in Dirs <=> d = 0 \/ \E s \in Slots : SubAt(s, d)
<1>1. ASSUME NEW d, NEW e \in SubDirs, e.ino = d PROVE \E s \in Slots : SubAt(s, d)
  BY <1>1 DEF SubDirs, Entries, SubAt
<1>2. ASSUME NEW d, NEW s \in Slots, SubAt(s, d) PROVE \E e \in SubDirs : e.ino = d
  <2>1. Filled(0, s) /\ blk[0][s].type = "dir" /\ blk[0][s].ino = d
    BY <1>2, IdleKnown, EntryTypes DEF SubAt
  <2>2. blk[0][s] \in SubDirs
    BY <2>1 DEF SubDirs, Entries, Filled
  <2> QED
    BY <2>1, <2>2
<1> QED
  BY <1>1, <1>2 DEF Dirs

LEMMA RootOnlyOpens ==
    ASSUME DirTypeOK
    PROVE  /\ RootOnly(tab) \in Opens
           /\ \A i \in Inos : RootOnly(tab)[i].cnt = IF i = 0 THEN 1 ELSE 0
           /\ RootOnly(tab)[0].inode = tab[0]
<1>1. /\ [cnt |-> 1, inode |-> tab[0]] \in [cnt : Nat, inode : Inodes]
      /\ NotOpen \in [cnt : Nat, inode : Inodes] /\ NotOpen.cnt = 0
  BY IdleKnown DEF DirTypeOK, NotOpen
<1>2. RootOnly(tab) \in Opens
  BY <1>1 DEF RootOnly, Opens
<1>3. \A i \in Inos : RootOnly(tab)[i].cnt = IF i = 0 THEN 1 ELSE 0
  BY <1>1 DEF RootOnly
<1>4. RootOnly(tab)[0].inode = tab[0]
  BY IdleKnown DEF RootOnly
<1> QED
  BY <1>2, <1>3, <1>4

(* When no call is under way much of the invariant holds by itself. *)
NoCalls == \A q \in Procs : call[q] = Idle
AtRest ==
    /\ Shapes /\ DirsHeld /\ NumbersOwned /\ ChosenFresh /\ ChosenFiles /\ OwnedEntries
    /\ NewBlocks /\ UnderWay = {}
    /\ \A d : ~BeingMade(d)
    /\ \A d : Kept(d) <=> Made(d)
    /\ \A d : Made(d) <=> d = 0 \/ \E s \in Slots : SubAt(s, d)
    /\ \A d : Holders(d) = {} /\ Releasers(d) = {}

LEMMA AllIdle == NoCalls => AtRest
<1> SUFFICES ASSUME NoCalls PROVE AtRest
  OBVIOUS
<1> USE DEF NoCalls
<1>1. /\ ~Owns(Idle) /\ ~Making(Idle) /\ ~Entered(Idle) /\ ~Removed(Idle) /\ ~Freed(Idle)
      /\ ~Chosen(Idle) /\ ~HasBlock(Idle) /\ (\A d : ~Leaving(Idle, d))
      /\ Idle.pc = "idle" /\ CallShape(Idle) /\ DirOf(Idle)
      /\ \A d : ~Holds(Idle, d) /\ ~Releases(Idle, d)
  BY IdleKnown DEF Owns, Making, Entered, Removed, Freed, Chosen, HasBlock, Resizing, Leaving
<1>2. /\ Shapes /\ DirsHeld /\ NumbersOwned /\ ChosenFresh /\ ChosenFiles /\ OwnedEntries /\ NewBlocks
  BY <1>1 DEF Shapes, DirsHeld, NumbersOwned, ChosenFresh, ChosenFiles, OwnedEntries, NewBlocks
<1>3. UnderWay = {} /\ \A d : ~BeingMade(d)
  <2>1. \A path : path \notin UnderWay
    BY <1>1, StagesNamed
  <2>2. \A d : ~BeingMade(d)
    BY <1>1, StagesNamed
  <2> QED
    BY <2>1, <2>2
<1>4. \A d : (Kept(d) <=> Made(d)) /\ (Made(d) <=> d = 0 \/ \E s \in Slots : SubAt(s, d))
  BY <1>1, <1>3 DEF Kept, Made
<1>5. \A d : Holders(d) = {} /\ Releasers(d) = {}
  BY <1>1 DEF Holders, Releasers
<1> QED
  BY <1>2, <1>3, <1>4, <1>5 DEF AtRest

LEMMA CrashStep ==
    ASSUME DirInv, Crash, ~torn'
    PROVE  DirInv'
<1>0. /\ DirTypeOK /\ EntriesOnce /\ RootKept /\ KeptDirs /\ Occupied /\ MadeThere
  BY DEF DirInv
<1>1. /\ crashes < MaxCrash /\ crashes' = crashes + 1 /\ ibits' = dI /\ bbits' = dB
      /\ open' = RootOnly(tab) /\ call' = [p \in Procs |-> Idle] /\ ~stopped' /\ DiskSound
      /\ made' = made \ UnderWay /\ UNCHANGED <<dI, dB, tab, blk>>
  BY DEF Crash
<1>2. \A q \in Procs : call'[q] = Idle
  BY <1>1
<1>3. /\ Shapes' /\ DirsHeld' /\ NumbersOwned' /\ ChosenFresh' /\ ChosenFiles' /\ OwnedEntries'
      /\ NewBlocks' /\ UnderWay' = {}
      /\ \A d : ~BeingMade(d)'
      /\ \A d : Kept(d)' <=> Made(d)'
      /\ \A d : Made(d)' <=> d = 0 \/ \E s \in Slots : SubAt(s, d)'
      /\ \A d : Holders(d)' = {} /\ Releasers(d)' = {}
  <2>1. NoCalls'
    BY <1>2 DEF NoCalls
  <2>2. AtRest'
    BY <2>1, AllIdle, PTL
  <2> QED
    BY <2>2 DEF AtRest
<1>4. /\ \A s, i : SubAt(s, i)' <=> SubAt(s, i)
      /\ \A b, s : Filled(b, s)' <=> Filled(b, s)
      /\ \A i : SizeOf(i)' = SizeOf(i)
  BY <1>1 DEF SubAt, Filled, SizeOf
<1>5. \A d : (Made(d)' <=> d \in Dirs) /\ (Made(d) => d \in Dirs)
  BY <1>0, <1>3, <1>4, DirsOnDisk DEF Made
<1>6. 0 \in Inos /\ 0 \in Blks /\ Kept(0) /\ tab[0].blk = 0 /\ tab[0].no = 0
  BY <1>0, IdleKnown DEF RootKept, Kept, Made, KeptDirs
<1>7. ASSUME NEW b \in Blks, NEW s \in Slots, Filled(b, s)
      PROVE  /\ blk[b][s].ino \in dI /\ tab[blk[b][s].ino].no = blk[b][s].ino
             /\ blk[b][s].type = "dir" => tab[blk[b][s].ino].blk \in dB
             /\ blk[b][s].type = "file" => tab[blk[b][s].ino].blk = NoBlock
  <2>1. PICK d \in Inos : Made(d) /\ tab[d].blk = b
    BY <1>0, <1>7 DEF Occupied
  <2>2. DirSound(d)
    BY <1>1, <1>5, <2>1 DEF DiskSound
  <2>3. blk[b][s] \in Entries(blk[tab[d].blk])
    BY <1>7, <2>1 DEF Entries, Filled
  <2> QED
    BY <2>2, <2>3 DEF DirSound
<1>8. /\ open' \in Opens /\ (\A i \in Inos : open'[i].cnt = IF i = 0 THEN 1 ELSE 0)
      /\ open'[0].inode = tab[0]
  BY <1>0, <1>1, RootOnlyOpens
<1>10. DirTypeOK'
  <2>1. call' \in [Procs -> Calls]
    BY <1>1, IdleKnown
  <2>2. crashes' \in 0 .. MaxCrash
    BY <1>0, <1>1 DEF DirTypeOK
  <2> QED
    BY <1>0, <1>1, <1>8, <2>1, <2>2 DEF DirTypeOK, Opens
<1>11. EntriesOnce'
  BY <1>0, <1>1, <1>4, <1>7 DEF EntriesOnce
<1>12. Occupied'
  BY <1>0, <1>1, <1>4, <1>5 DEF Occupied
<1>13. KeptDirs'
  <2> SUFFICES ASSUME NEW d \in Inos, Kept(d)'
               PROVE  /\ tab[d].no = d /\ tab[d].blk \in dB
                      /\ open'[d].cnt > 0 => /\ open'[d].inode.no = d /\ open'[d].inode.blk = tab[d].blk
                                             /\ open'[d].inode.size = SizeOf(d)
                      /\ tab[d].size = SizeOf(d)
                      /\ \A f \in Inos : Kept(f)' /\ f # d => tab[f].blk # tab[d].blk
    BY <1>1, <1>4 DEF KeptDirs
  <2>1. d \in Dirs /\ \A f \in Inos : Kept(f)' => f \in Dirs
    BY <1>3, <1>5
  <2>2. tab[d].size = SizeOf(d) /\ \A f \in Inos : Kept(f)' /\ f # d => tab[f].blk # tab[d].blk
    BY <1>1, <2>1 DEF DiskSound, DirSound, SizeOf
  <2>3. tab[d].no = d /\ tab[d].blk \in dB
    <3>1. CASE d = 0
      BY <1>0, <1>6, <3>1 DEF RootKept
    <3>2. CASE d # 0
      <4>1. PICK s \in Slots : SubAt(s, d)
        BY <1>0, <2>1, <3>2, DirsOnDisk
      <4>2. Filled(0, s) /\ blk[0][s].type = "dir" /\ blk[0][s].ino = d
        BY <1>0, <1>6, <4>1, EntryTypes DEF SubAt
      <4> QED
        BY <1>6, <1>7, <4>2
    <3> QED
      BY <3>1, <3>2
  <2>4. open'[d].cnt > 0 => d = 0 /\ open'[d].inode = tab[0]
    BY <1>8
  <2> QED
    BY <2>2, <2>3, <2>4
<1>14. CountsExact'
  <2>1. Cardinality({}) = 0
    BY FS_EmptySet
  <2> QED
    BY <1>3, <1>8, <2>1 DEF CountsExact
<1>15. FilesKept'
  <2>1. \A b \in Blks, s \in Slots : blk[b][s].type = "file" => Filled(b, s)
    BY <1>0, EntryTypes
  <2>2. Idle.op # "unlink"
    BY DEF Idle
  <2> QED
    BY <1>1, <1>2, <1>7, <2>1, <2>2 DEF FilesKept, FileInode
<1>16. MarkedOnDisk'
  BY <1>1, <1>4, <1>7 DEF MarkedOnDisk
<1>17. RootKept'
  BY <1>0, <1>1 DEF RootKept
<1>18. NoneLeaked'
  <2>1. crashes' # 0
    BY <1>0, <1>1 DEF DirTypeOK
  <2> QED
    BY <2>1 DEF NoneLeaked
<1>19. MadeThere'
  <2>1. \A path : \A s, t \in Slots : /\ Lies(path, s, t) => Lies(path, s, t)'
                                      /\ Lasts(path, s, t) => Lasts(path, s, t)'
    BY <1>1, <1>3, <1>4 DEF Lies, Lasts, SubBlk
  <2>2. \A path \in made' : path \in made /\ path \notin UnderWay
    BY <1>1
  <2> QED
    BY <1>0, <2>1, <2>2 DEF MadeThere, There
<1> QED
  BY <1>1, <1>3, <1>10, <1>11, <1>12, <1>13, <1>14, <1>15, <1>16, <1>17, <1>18, <1>19 DEF DirInv

LEMMA InitStep ==
    ASSUME DirInit PROVE DirInv
<1>1. 0 \in Inos /\ 0 \in Blks /\ ZeroInode \in Inodes
  BY IdleKnown
<1>2. /\ ibits = {0} /\ dI = {0} /\ bbits = {0} /\ dB = {0}
      /\ tab = [i \in Inos |-> IF i = 0 THEN Root ELSE ZeroInode]
      /\ open = RootOnly(tab) /\ blk = [b \in Blks |-> EmptyDir] /\ call = [p \in Procs |-> Idle]
      /\ made = {} /\ ~stopped /\ crashes = 0
  BY DEF DirInit
<1>3. Root \in Inodes /\ Root.no = 0 /\ Root.size = 2 /\ Root.blk = 0
  BY <1>1 DEF Root, Inodes
<1>4. tab \in [Inos -> Inodes] /\ tab[0] = Root
  BY <1>1, <1>2, <1>3
<1>5. blk \in [Blks -> DirBlocks] /\ \A b \in Blks, s \in Slots : ~Filled(b, s)
  BY <1>2 DEF EmptyDir, DirBlocks, Filled
<1>6. DirTypeOK
  <2>1. open \in [Inos -> [cnt : Nat, inode : Inodes]]
    <3>1. /\ [cnt |-> 1, inode |-> tab[0]] \in [cnt : Nat, inode : Inodes]
          /\ NotOpen \in [cnt : Nat, inode : Inodes]
      BY <1>1, <1>3, <1>4 DEF NotOpen
    <3> QED
      BY <1>2, <3>1 DEF RootOnly
  <2>2. call \in [Procs -> Calls]
    BY <1>2, IdleKnown
  <2>3. crashes \in 0 .. MaxCrash
    BY <1>2
  <2> QED
    BY <1>1, <1>2, <1>4, <1>5, <2>1, <2>2, <2>3 DEF DirTypeOK
<1>7. /\ Shapes /\ DirsHeld /\ NumbersOwned /\ ChosenFresh /\ ChosenFiles /\ OwnedEntries
      /\ NewBlocks /\ UnderWay = {}
      /\ \A d : Kept(d) <=> Made(d)
      /\ \A d : Made(d) <=> d = 0 \/ \E s \in Slots : SubAt(s, d)
      /\ \A d : Holders(d) = {} /\ Releasers(d) = {}
  BY <1>2, AllIdle DEF NoCalls, AtRest
<1>8. /\ (\A i \in Inos : open[i].cnt = IF i = 0 THEN 1 ELSE 0) /\ open[0].inode = tab[0]
  BY <1>2, <1>6, RootOnlyOpens
<1>9. \A d : Kept(d) <=> d = 0
  <2>1. \A s \in Slots : \A d : ~SubAt(s, d)
    BY <1>1, <1>5, <1>6, EntryTypes DEF SubAt
  <2> QED
    BY <1>7, <2>1
<1>10. EntriesOnce /\ Occupied /\ MarkedOnDisk
  BY <1>5 DEF EntriesOnce, Occupied, MarkedOnDisk
<1>11. SizeOf(0) = 2
  <2>1. Entries(blk[0]) = {}
    BY <1>1, <1>5 DEF Entries, Filled
  <2>2. Cardinality(Entries(blk[0])) = 0
    BY <2>1, FS_EmptySet
  <2> QED
    BY <1>3, <1>4, <2>2 DEF SizeOf
<1>12. KeptDirs
  BY <1>2, <1>3, <1>4, <1>8, <1>9, <1>11 DEF KeptDirs
<1>13. CountsExact
  <2>1. Cardinality({}) = 0
    BY FS_EmptySet
  <2> QED
    BY <1>7, <1>8, <2>1 DEF CountsExact
<1>14. FilesKept
  <2>1. \A b \in Blks, s \in Slots : blk[b][s].type # "file"
    BY <1>5, <1>6, EntryTypes
  <2>2. \A p \in Procs : call[p].op # "unlink"
    BY <1>2 DEF Idle
  <2> QED
    BY <2>1, <2>2 DEF FilesKept
<1>15. RootKept
  BY <1>1, <1>2, <1>3, <1>4 DEF RootKept
<1>16. NoneLeaked
  BY <1>1, <1>2, <1>3, <1>4, <1>9 DEF NoneLeaked
<1>17. MadeThere
  BY <1>2 DEF MadeThere
<1> QED
  BY <1>2, <1>6, <1>7, <1>10, <1>12, <1>13, <1>14, <1>15, <1>16, <1>17 DEF DirInv

----------------------------------------------------------------------------
(* A clash and a torn disk are never forgotten. *)
LEMMA SteadyBefore ==
    ASSUME DirNext, Steady' PROVE Steady
<1>0. ~clash' /\ ~torn'
  BY DEF Steady
<1>1. ASSUME NEW p \in Procs, NEW what, NEW path, Start(p, what, path) PROVE Steady
  BY <1>0, <1>1 DEF Start, Steady
<1>2. ASSUME NEW p \in Procs, NEW c, NEW found, NEW o, Looked(p, c, found, o) PROVE ~clash
  BY <1>0, <1>2 DEF Looked
<1>3. ASSUME NEW p \in Procs, SearchRoot(p) PROVE Steady
  <2>1. torn' = torn /\ (clash' = clash \/ \E c, found, o : Looked(p, c, found, o))
    BY <1>3, Zenon DEF SearchRoot
  <2> QED
    BY <1>0, <1>2, <2>1 DEF Steady
<1>4. ASSUME NEW p \in Procs, OpenDir(p) PROVE Steady
  BY <1>0, <1>4 DEF OpenDir, Steady
<1>5. ASSUME NEW p \in Procs, SearchSub(p) PROVE Steady
  BY <1>0, <1>2, <1>5 DEF SearchSub, Steady
<1>6. ASSUME NEW p \in Procs, MkdirStep(p) PROVE Steady
  BY <1>0, <1>6 DEF MkdirStep, Steady
<1>7. ASSUME NEW p \in Procs, EntryRead(p) PROVE Steady
  BY <1>0, <1>7 DEF EntryRead, Steady
<1>8. ASSUME NEW p \in Procs, EntryWrite(p) PROVE Steady
  BY <1>0, <1>8 DEF EntryWrite, Steady
<1>9. ASSUME NEW p \in Procs, TableRead(p) PROVE Steady
  BY <1>0, <1>9 DEF TableRead, Steady
<1>10. ASSUME NEW p \in Procs, ParentWrite(p) \/ NewWrite(p) PROVE Steady
  <2>1. \A i, now : TableWrite(p, i, now) => ~clash
    BY <1>0 DEF TableWrite
  <2>2. CASE ParentWrite(p)
    BY <1>0, <2>1, <2>2 DEF ParentWrite, Steady
  <2>3. CASE NewWrite(p)
    BY <1>0, <2>1, <2>3 DEF NewWrite, Steady
  <2> QED
    BY <1>10, <2>2, <2>3
<1>11. ASSUME NEW p \in Procs, Finish(p) \/ FreeBlock(p) \/ FreeInode(p) PROVE Steady
  BY <1>0, <1>11 DEF Finish, FreeBlock, FreeInode, Steady
<1>12. ASSUME NEW p \in Procs, ReleaseOpen(p) \/ ZeroWrite(p) PROVE Steady
  <2>1. CASE ReleaseOpen(p)
    BY <1>0, <2>1 DEF ReleaseOpen, Steady
  <2>2. CASE ZeroWrite(p)
    BY <1>0, <2>2 DEF ZeroWrite, Steady
  <2> QED
    BY <1>12, <2>1, <2>2
<1>13. ASSUME Crash PROVE Steady
  BY <1>0, <1>13 DEF Crash, Steady
<1> QED
  BY <1>1, <1>3, <1>4, <1>5, <1>6, <1>7, <1>8, <1>9, <1>10, <1>11, <1>12, <1>13 DEF DirNext

LEMMA NextStep ==
    ASSUME DirInv, DirNext, Steady' PROVE DirInv'
<1>0. ~clash' /\ ~torn'
  BY DEF Steady
<1>1. ASSUME NEW p \in Procs, EntryWrite(p) PROVE DirInv'
  <2>1. New(call[p]) \/ Deletes(call[p])
    <3>1. call[p].pc = "ewrite"
      BY <1>1 DEF EntryWrite, PcIs
    <3>2. call[p] \in Calls /\ CallShape(call[p])
      BY CallKnown
    <3> QED
      BY <3>1, <3>2 DEF CallShape, Calls, New, Deletes
  <2> QED
    BY <1>0, <1>1, <2>1, EntryAddStep, EntryDropStep
<1>2. ASSUME NEW p \in Procs, SearchRoot(p) \/ OpenDir(p) \/ SearchSub(p) \/ MkdirStep(p) PROVE DirInv'
  BY <1>0, <1>2, SearchRootStep, OpenDirStep, SearchSubStep, MkdirStepStep
<1>3. ASSUME NEW p \in Procs, EntryRead(p) \/ TableRead(p) \/ ParentWrite(p) \/ NewWrite(p) PROVE DirInv'
  BY <1>0, <1>3, EntryReadStep, TableReadStep, ParentWriteStep, NewWriteStep
<1>4. ASSUME NEW p \in Procs,
             Finish(p) \/ ReleaseOpen(p) \/ FreeBlock(p) \/ FreeInode(p) \/ ZeroWrite(p)
      PROVE DirInv'
  BY <1>0, <1>4, FinishStep, ReleaseOpenStep, FreeBlockStep, FreeInodeStep, ZeroWriteStep
<1>5. ASSUME Crash PROVE DirInv'
  BY <1>0, <1>5, CrashStep
<1> QED
  BY <1>1, <1>2, <1>3, <1>4, <1>5, StartStep DEF DirNext

(* Nothing happens. *)
LEMMA StutterStep ==
    ASSUME DirInv, UNCHANGED dVars PROVE DirInv'
<1>0. UNCHANGED <<ibits, bbits, open, dI, dB, tab, blk, call, made, stopped, crashes>>
  BY DEF dVars
<1>1. /\ \A d : (BeingMade(d)' <=> BeingMade(d)) /\ (Made(d)' <=> Made(d)) /\ (Kept(d)' <=> Kept(d))
      /\ \A d : SizeOf(d)' = SizeOf(d) /\ Holders(d)' = Holders(d) /\ Releasers(d)' = Releasers(d)
      /\ \A s, d : SubAt(s, d)' <=> SubAt(s, d)
      /\ \A b, s : Filled(b, s)' <=> Filled(b, s)
      /\ UnderWay' = UnderWay
  BY <1>0 DEF BeingMade, Made, Kept, SizeOf, Holders, Releasers, SubAt, Filled, UnderWay
<1>2. DirTypeOK' /\ Shapes' /\ NumbersOwned' /\ ChosenFresh' /\ RootKept' /\ ~stopped'
  BY <1>0 DEF DirInv, DirTypeOK, Shapes, NumbersOwned, ChosenFresh, RootKept
<1>3. DirsHeld'
  BY <1>0, <1>1 DEF DirInv, DirsHeld, DirOf
<1>4. ChosenFiles' /\ EntriesOnce' /\ OwnedEntries' /\ Occupied'
  BY <1>0, <1>1 DEF DirInv, ChosenFiles, IsFile, EntriesOnce, OwnedEntries, Occupied
<1>5. KeptDirs' /\ NewBlocks' /\ CountsExact'
  BY <1>0, <1>1 DEF DirInv, KeptDirs, NewBlocks, CountsExact
<1>6. FilesKept' /\ MarkedOnDisk' /\ NoneLeaked'
  BY <1>0, <1>1 DEF DirInv, FilesKept, FileInode, MarkedOnDisk, NoneLeaked
<1>7. MadeThere'
  <2>1. \A path, s, t : (Lies(path, s, t)' <=> Lies(path, s, t)) /\ (Lasts(path, s, t)' <=> Lasts(path, s, t))
    BY <1>0, <1>1 DEF Lies, Lasts, SubBlk
  <2> QED
    BY <1>0, <1>1, <2>1 DEF DirInv, MadeThere, There
<1> QED
  BY <1>2, <1>3, <1>4, <1>5, <1>6, <1>7 DEF DirInv

(* While no call acts on what another has changed since, and no crash has  *)
(* fallen into the window, the invariant of the tree holds.                *)
THEOREM SteadyInvHolds == DirSpec => []SteadyInv
<1>1. DirInit => SteadyInv
  BY InitStep DEF SteadyInv
<1>2. ASSUME SteadyInv, [DirNext]_dVars PROVE SteadyInv'
  <2> SUFFICES ASSUME Steady' PROVE DirInv'
    BY DEF SteadyInv
  <2>1. CASE DirNext
    BY <1>2, <2>1, SteadyBefore, NextStep DEF SteadyInv
  <2>2. CASE UNCHANGED dVars
    <3>1. Steady
      BY <2>2 DEF Steady, dVars
    <3> QED
      BY <1>2, <2>2, <3>1, StutterStep DEF SteadyInv
  <2> QED
    BY <1>2, <2>1, <2>2
<1> QED
  BY <1>1, <1>2, PTL DEF DirSpec

----------------------------------------------------------------------------
(* A directory in memory is one of the tree, and its inode is current. *)
LEMMA MemoryKept ==
    ASSUME DirInv, NEW d \in InMemory
    PROVE  /\ d \in Inos /\ Kept(d) /\ open[d].inode.blk = tab[d].blk /\ tab[d].blk \in Blks
           /\ open[d].inode.size = SizeOf(d)
<1>1. d \in Inos /\ open[d].cnt > 0 /\ Kept(d)
  <2>1. CASE d = 0
    BY <2>1, IdleKnown, CountPositive DEF Kept, Made
  <2>2. CASE d # 0
    <3>1. d \in Inos /\ open[d].cnt > 0 /\ d \in Dirs
      BY <2>2 DEF InMemory, Dirs
    <3>2. \E s \in Slots : SubAt(s, d)
      BY <2>2, <3>1, DirsOnDisk DEF DirInv
    <3>3. ~BeingMade(d)
      BY <3>1, NewNotOpen, StagesNamed, CountPositive
    <3> QED
      BY <3>1, <3>2, <3>3 DEF Kept, Made
  <2> QED
    BY <2>1, <2>2
<1> QED
  BY <1>1 DEF DirInv, KeptDirs, DirTypeOK

(* Nothing is lost while no call is under way and nothing has crashed. *)
LEMMA IdleExact ==
    ASSUME DirInv, crashes = 0, NoCalls
    PROVE  LET all == Entries(blk[0]) \cup UNION {Entries(blk[tab[e.ino].blk]) : e \in SubDirs}
           IN  /\ ibits = {0} \cup {e.ino : e \in all}
               /\ bbits = {0} \cup {tab[e.ino].blk : e \in SubDirs}
<1> DEFINE all == Entries(blk[0]) \cup UNION {Entries(blk[tab[e.ino].blk]) : e \in SubDirs}
<1>0. DirTypeOK /\ EntriesOnce /\ RootKept /\ KeptDirs /\ Occupied /\ NoneLeaked
  BY DEF DirInv
<1>1. AtRest
  BY AllIdle
<1>2. \A q \in Procs : ~Owns(call[q]) /\ ~HasBlock(call[q])
  BY DEF NoCalls, Idle, Owns, Making, Entered, Removed, Freed, HasBlock, New, Deletes
<1>3. 0 \in Inos /\ 0 \in Blks /\ tab[0].blk = 0
  BY <1>0, IdleKnown DEF RootKept
<1>4. \A d : Kept(d) <=> d = 0 \/ \E e \in SubDirs : e.ino = d
  BY <1>0, <1>1, DirsOnDisk DEF AtRest, Dirs
<1>5. \A e \in SubDirs : e.ino \in Inos
  BY <1>0, <1>3, EntryTypes DEF SubDirs, Entries, Filled
<1>6. \A d \in Inos : Kept(d) => tab[d].blk \in Blks /\ tab[d].blk \in bbits
  BY <1>0 DEF KeptDirs, DirTypeOK
<1>7. ASSUME NEW g \in all PROVE g.ino \in ibits
  <2>1. PICK b \in Blks : g \in Entries(blk[b])
    <3>1. CASE g \in Entries(blk[0])
      BY <1>3, <3>1
    <3>2. CASE \E e \in SubDirs : g \in Entries(blk[tab[e.ino].blk])
      BY <1>4, <1>5, <1>6, <3>2
    <3> QED
      BY <3>1, <3>2
  <2> QED
    BY <1>0, <2>1 DEF Entries, EntriesOnce, Filled
<1>8. ASSUME NEW i \in ibits, i # 0 PROVE \E g \in all : g.ino = i
  <2>1. PICK b \in Blks, s \in Slots : Filled(b, s) /\ blk[b][s].ino = i
    BY <1>0, <1>2, <1>8 DEF NoneLeaked
  <2>2. blk[b][s] \in Entries(blk[b])
    BY <2>1 DEF Filled, Entries
  <2>3. PICK d \in Inos : Made(d) /\ tab[d].blk = b
    BY <1>0, <2>1 DEF Occupied
  <2>4. d = 0 \/ \E e \in SubDirs : e.ino = d
    BY <1>4, <2>3 DEF Kept
  <2>5. blk[b][s] \in all
    BY <1>3, <2>2, <2>3, <2>4
  <2> QED
    BY <2>1, <2>5
<1>9. ibits = {0} \cup {e.ino : e \in all}
  <2> HIDE DEF all
  <2> QED
    BY <1>0, <1>7, <1>8 DEF RootKept
<1>10. \A b \in bbits : b = 0 \/ \E e \in SubDirs : tab[e.ino].blk = b
  BY <1>0, <1>2, <1>3, <1>4 DEF NoneLeaked
<1>11. bbits = {0} \cup {tab[e.ino].blk : e \in SubDirs}
  BY <1>0, <1>4, <1>5, <1>6, <1>10 DEF RootKept
<1> QED
  BY <1>9, <1>11

(* However the calls of any number of processes interleave, while none     *)
(* acts on what another has changed since: names and inodes have one entry *)
(* and are marked, sizes count entries, no ASSERT fails and nothing leaks  *)
(* (file_create, sys_mkdir, sys_unlink, sys_rmdir).                        *)
THEOREM TreeConsistentHolds == DirSpec => []TreeConsistent
<1>1. SteadyInv => TreeConsistent
  <2> SUFFICES ASSUME SteadyInv, Steady PROVE TreeConsistent
    BY DEF TreeConsistent
  <2>1. DirInv
    BY DEF SteadyInv
  <2>2. DirTypeOK /\ ~stopped /\ EntriesOnce
    BY <2>1 DEF DirInv
  <2> DEFINE block(d) == blk[open[d].inode.blk]
             entry(w) == block(w[1])[w[2]]
             where == {w \in InMemory \X Slots : entry(w) # NoEntry}
  <2>3. ASSUME NEW w \in where
        PROVE  /\ w[1] \in InMemory /\ w[2] \in Slots /\ w = <<w[1], w[2]>>
               /\ open[w[1]].inode.blk \in Blks /\ Filled(open[w[1]].inode.blk, w[2])
               /\ entry(w) = blk[open[w[1]].inode.blk][w[2]]
    <3>1. w[1] \in InMemory /\ w[2] \in Slots /\ w = <<w[1], w[2]>> /\ entry(w) # NoEntry
      OBVIOUS
    <3>2. open[w[1]].inode.blk \in Blks
      BY <2>1, <3>1, MemoryKept
    <3> QED
      BY <3>1, <3>2 DEF Filled
  <2>4. ASSUME NEW w \in where, NEW v \in where, w # v
        PROVE  entry(w).ino # entry(v).ino /\ (w[1] = v[1] => entry(w).name # entry(v).name)
    <3> PICK d, f, b, c, s, t : /\ d = w[1] /\ f = v[1] /\ b = open[d].inode.blk /\ c = open[f].inode.blk
                                /\ s = w[2] /\ t = v[2]
      OBVIOUS
    <3>1. /\ d \in InMemory /\ f \in InMemory /\ s \in Slots /\ t \in Slots /\ <<d, s>> # <<f, t>>
          /\ b \in Blks /\ c \in Blks /\ Filled(b, s) /\ Filled(c, t)
          /\ entry(w) = blk[b][s] /\ entry(v) = blk[c][t]
      BY <2>3, <2>4
    <3>2. d # f => b # c
      <4>1. /\ d \in Inos /\ Kept(d) /\ b = tab[d].blk
            /\ f \in Inos /\ Kept(f) /\ c = tab[f].blk
        BY <2>1, <3>1, MemoryKept
      <4> QED
        BY <2>1, <4>1 DEF DirInv, KeptDirs
    <3>3. <<b, s>> # <<c, t>>
      BY <3>1, <3>2
    <3>4. blk[b][s].ino # blk[c][t].ino /\ (b = c => blk[b][s].name # blk[c][t].name)
      BY <2>2, <3>1, <3>3 DEF EntriesOnce
    <3> HIDE DEF entry
    <3> QED
      BY <3>1, <3>4
  <2>5. \A w \in where : entry(w).ino \in ibits
    BY <2>2, <2>3 DEF EntriesOnce
  <2>6. \A d \in InMemory : open[d].inode.size = 2 + Cardinality(Entries(block(d)))
    BY <2>1, MemoryKept DEF SizeOf
  <2>7. (crashes = 0 /\ \A p \in Procs : call[p] = Idle) =>
              LET all == Entries(blk[0]) \cup UNION {Entries(blk[tab[e.ino].blk]) : e \in SubDirs}
              IN  /\ ibits = {0} \cup {e.ino : e \in all}
                  /\ bbits = {0} \cup {tab[e.ino].blk : e \in SubDirs}
    BY <2>1, IdleExact DEF NoCalls
  <2> QED
    BY <2>2, <2>4, <2>5, <2>6, <2>7 DEF TreeConsistent
<1> QED
  BY <1>1, SteadyInvHolds, PTL

----------------------------------------------------------------------------
(* A directory that has its entry and is not being made has its inode. *)
LEMMA SubKept ==
    ASSUME DirInv, NEW s \in Slots, blk[0][s].type = "dir", ~BeingMade(blk[0][s].ino)
    PROVE  /\ tab[blk[0][s].ino].no = blk[0][s].ino /\ tab[blk[0][s].ino].blk \in dB
           /\ SubBlk(s) \in Blks /\ SubBlk(s) # 0
<1> PICK d : d = blk[0][s].ino
  OBVIOUS
<1>1. d \in Inos /\ d # 0 /\ Kept(d) /\ SubBlk(s) \in Blks
  BY SubMade
<1>2. 0 \in Inos /\ Kept(0) /\ tab[0].blk = 0 /\ KeptDirs
  BY IdleKnown DEF Kept, Made, DirInv, RootKept
<1> QED
  BY <1>1, <1>2 DEF KeptDirs, SubBlk

(* For every number of processes and crashes: when no entry is being       *)
(* written or made good, the disk is sound, so that a crash does no harm.  *)
THEOREM CrashWindowHolds == DirSpec => []CrashWindow
<1>1. SteadyInv => CrashWindow
  <2> SUFFICES ASSUME SteadyInv, Steady,
                      \A p \in Procs : call[p].pc \notin {"pread", "pwrite", "nread", "nwrite", "isync"}
               PROVE  DiskSound
    BY DEF CrashWindow
  <2>1. DirInv
    BY DEF SteadyInv
  <2>2. DirTypeOK /\ EntriesOnce /\ KeptDirs /\ FilesKept /\ MarkedOnDisk
    BY <2>1 DEF DirInv
  <2>3. \A q \in Procs : ~Entered(call[q]) /\ call[q].pc # "isync" /\ ~Resizing(call[q])
    BY DEF Entered, Resizing
  <2>4. \A d : ~BeingMade(d)
    BY <2>3, StagesNamed
  <2>5. \A d \in Dirs : d \in Inos /\ Kept(d)
    <3>1. \A d : d \in Dirs => Made(d)
      BY <2>2, <2>4, DirsOnDisk DEF Made
    <3>2. \A s \in Slots : \A d : SubAt(s, d) => d \in Inos
      BY <2>2, IdleKnown, EntryTypes DEF SubAt
    <3> QED
      BY <2>2, <3>1, <3>2, IdleKnown, DirsOnDisk DEF Kept
  <2>6. ASSUME NEW d \in Dirs PROVE DirSound(d)
    <3>1. d \in Inos /\ tab[d].blk \in Blks /\ tab[d].blk # NoBlock /\ tab[d].size = SizeOf(d)
      BY <2>2, <2>3, <2>5, IdleKnown DEF KeptDirs, DirTypeOK
    <3>2. ASSUME NEW e \in Entries(blk[tab[d].blk])
          PROVE  /\ e.ino \in dI /\ tab[e.ino].no = e.ino
                 /\ e.type = "dir" => tab[e.ino].blk \in dB
                 /\ e.type = "file" => tab[e.ino].blk = NoBlock
      <4>1. PICK b \in Blks, s \in Slots : b = tab[d].blk /\ e = blk[b][s] /\ Filled(b, s)
        BY <3>1 DEF Entries, Filled
      <4>2. e.ino \in dI
        BY <2>2, <2>3, <4>1 DEF MarkedOnDisk
      <4>3. e.type \in {"file", "dir"}
        BY <2>2, <4>1, EntryTypes
      <4>4. CASE e.type = "file"
        BY <2>2, <2>3, <4>1, <4>2, <4>4 DEF FilesKept, FileInode
      <4>5. CASE e.type = "dir"
        <5>1. b = 0
          BY <2>2, <4>1, <4>5 DEF EntriesOnce
        <5> QED
          BY <2>1, <2>4, <4>1, <4>2, <4>5, <5>1, SubKept
      <4> QED
        BY <4>3, <4>4, <4>5
    <3> QED
      BY <3>1, <3>2 DEF DirSound, SizeOf
  <2> QED
    BY <2>2, <2>5, <2>6 DEF DiskSound, KeptDirs
<1> QED
  BY <1>1, SteadyInvHolds, PTL

(* The call that makes a file whose entry lies in the root. *)
LEMMA MakerInRoot ==
    ASSUME DirInv, NEW q \in Procs, Entered(call[q]), NEW s \in Slots, Filled(0, s),
           blk[0][s].ino = call[q].ino, NEW path \in Paths, Len(path) = 1, blk[0][s].name = path[1]
    PROVE  path \in UnderWay
<1>1. 0 = tab[Parent(call[q])].blk /\ blk[0][s] = EntryOf(call[q])
  BY NewEntry, IdleKnown
<1>2. /\ Parent(call[q]) \in Inos /\ Kept(Parent(call[q]))
      /\ Len(call[q].path) = 2 => Parent(call[q]) # 0
      /\ Len(call[q].path) \in {1, 2} /\ call[q].path \in Paths
  BY ParentKnown DEF Entered
<1>3. Parent(call[q]) = 0
  <2>1. Kept(0) /\ 0 \in Inos /\ tab[0].blk = 0 /\ KeptDirs
    BY IdleKnown DEF Kept, Made, DirInv, RootKept
  <2> QED
    BY <1>1, <1>2, <2>1 DEF KeptDirs
<1>4. Len(call[q].path) = 1 /\ call[q].path[1] = path[1]
  BY <1>1, <1>2, <1>3, EntryOfFields DEF Target
<1>5. call[q].path = path
  BY <1>2, <1>4 DEF Paths
<1> QED
  BY <1>5, StagesNamed DEF Entered

(* The call that makes a file in a directory. *)
LEMMA MakerInDir ==
    ASSUME DirInv, NEW q \in Procs, Entered(call[q]), NEW path \in Paths, Len(path) = 2,
           NEW s \in Slots, NEW t \in Slots, Lies(path, s, t), blk[SubBlk(s)][t].ino = call[q].ino
    PROVE  path \in UnderWay
<1> PICK d, b, f : d = blk[0][s].ino /\ b = SubBlk(s) /\ f = Parent(call[q])
  OBVIOUS
<1>1. /\ blk[0][s].type = "dir" /\ Filled(0, s) /\ blk[0][s].name = path[1]
      /\ Filled(b, t) /\ blk[b][t].name = path[2] /\ ~BeingMade(d)
  BY DEF Lies
<1>2. d \in Inos /\ d # 0 /\ Kept(d) /\ b \in Blks /\ b = tab[d].blk
  BY <1>1, SubMade DEF SubBlk
<1>3. b = tab[f].blk /\ blk[b][t] = EntryOf(call[q])
  <2>1. b \in Blks /\ Filled(b, t) /\ blk[b][t].ino = call[q].ino
    BY <1>1, <1>2
  <2> QED
    BY <2>1, NewEntry
<1>4. /\ f \in Inos /\ Kept(f) /\ (Len(call[q].path) = 1 => f = 0)
      /\ Len(call[q].path) = 2 => \E r \in Slots : SubAt(r, f) /\ blk[0][r].name = call[q].path[1]
      /\ Len(call[q].path) \in {1, 2} /\ call[q].path \in Paths
  BY ParentKnown DEF Entered
<1>5. f = d
  <2>1. KeptDirs
    BY DEF DirInv
  <2>2. \A g, h \in Inos : Kept(g) /\ Kept(h) /\ g # h => tab[g].blk # tab[h].blk
    BY <2>1 DEF KeptDirs
  <2> QED
    BY <1>2, <1>3, <1>4, <2>2
<1>6. Len(call[q].path) = 2
  BY <1>2, <1>4, <1>5
<1>7. PICK r \in Slots : SubAt(r, d) /\ blk[0][r].name = call[q].path[1]
  BY <1>4, <1>5, <1>6
<1>8. r = s
  <2>1. Filled(0, r) /\ blk[0][r].ino = d /\ 0 \in Blks /\ EntriesOnce
    BY <1>7, IdleKnown, EntryTypes DEF SubAt, DirInv
  <2> QED
    BY <1>1, <2>1 DEF EntriesOnce
<1>9. call[q].path[1] = path[1] /\ call[q].path[2] = path[2]
  BY <1>1, <1>3, <1>6, <1>7, <1>8, EntryOfFields DEF Target
<1>10. call[q].path = path
  BY <1>4, <1>6, <1>9 DEF Paths
<1> QED
  BY <1>10, StagesNamed DEF Entered

(* For every number of processes and crashes: what has been created, when  *)
(* its call has returned, is on disk with all that belongs to it           *)
(* (file_create and sys_mkdir write through).                              *)
THEOREM ReturnedOnDiskHolds == DirSpec => []ReturnedOnDisk
<1>1. SteadyInv => ReturnedOnDisk
  <2> SUFFICES ASSUME SteadyInv, Steady, NEW path \in made \ UnderWay PROVE OnDisk(path)
    BY DEF ReturnedOnDisk
  <2>1. DirInv
    BY DEF SteadyInv
  <2>2. DirTypeOK /\ EntriesOnce /\ KeptDirs /\ FilesKept /\ MadeThere /\ 0 \in Blks /\ NoBlock \notin Blks
    BY <2>1, IdleKnown DEF DirInv
  <2>3. path \in Paths /\ Len(path) \in {1, 2}
    BY <2>2 DEF DirTypeOK, Paths
  <2>4. PICK s \in Slots, t \in Slots : Lies(path, s, t) /\ Lasts(path, s, t)
    BY <2>2 DEF MadeThere, There
  <2>5. /\ Filled(0, s) /\ blk[0][s].name = path[1] /\ blk[0][s].ino \in dI
        /\ Len(path) = 2 => /\ blk[0][s].type = "dir" /\ ~BeingMade(blk[0][s].ino)
                            /\ Filled(SubBlk(s), t) /\ blk[SubBlk(s)][t].name = path[2]
                            /\ blk[SubBlk(s)][t].ino \in dI
    BY <2>4 DEF Lies, Lasts
  <2>6. blk[0][s] \in Named(blk[0], path[1])
    BY <2>5 DEF Named, Entries, Filled
  <2>7. Len(path) = 1 => \A q \in Procs : Entered(call[q]) => call[q].ino # blk[0][s].ino
    BY <2>1, <2>3, <2>5, MakerInRoot
  <2>8. tab[blk[0][s].ino].no = blk[0][s].ino
    <3>1. CASE blk[0][s].type = "file"
      <4>1. Len(path) = 1
        BY <2>3, <2>5, <3>1
      <4> QED
        BY <2>2, <2>7, <3>1, <4>1 DEF FilesKept, FileInode
    <3>2. CASE blk[0][s].type = "dir"
      <4>1. ~BeingMade(blk[0][s].ino)
        BY <2>3, <2>5, <2>7, StagesNamed
      <4> QED
        BY <2>1, <3>2, <4>1, SubKept
    <3> QED
      BY <2>2, <2>5, <3>1, <3>2, EntryTypes
  <2>9. ASSUME Len(path) = 2
        PROVE  /\ SubBlk(s) # NoBlock
               /\ blk[SubBlk(s)][t] \in Named(blk[SubBlk(s)], path[2])
               /\ blk[SubBlk(s)][t].ino \in dI
               /\ tab[blk[SubBlk(s)][t].ino].no = blk[SubBlk(s)][t].ino
    <3>1. SubBlk(s) \in Blks /\ SubBlk(s) # 0
      BY <2>1, <2>5, <2>9, SubKept
    <3>2. blk[SubBlk(s)][t] \in Named(blk[SubBlk(s)], path[2])
      BY <2>5, <2>9 DEF Named, Entries, Filled
    <3>3. blk[SubBlk(s)][t].type = "file"
      BY <2>2, <2>5, <2>9, <3>1 DEF EntriesOnce
    <3>4. \A q \in Procs : Entered(call[q]) => call[q].ino # blk[SubBlk(s)][t].ino
      BY <2>1, <2>3, <2>4, <2>9, MakerInDir
    <3>5. tab[blk[SubBlk(s)][t].ino].no = blk[SubBlk(s)][t].ino
      BY <2>2, <3>1, <3>3, <3>4 DEF FilesKept, FileInode
    <3> QED
      BY <2>2, <2>5, <2>9, <3>1, <3>2, <3>5
  <2> QED
    BY <2>5, <2>6, <2>8, <2>9 DEF OnDisk, SubBlk
<1> QED
  BY <1>1, SteadyInvHolds, PTL
=============================================================================
