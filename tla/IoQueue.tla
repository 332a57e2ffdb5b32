------------------------------ MODULE IoQueue ------------------------------
(***************************************************************************)
(* The ring buffer of device/ioqueue.c and its users: sys_read of the      *)
(* keyboard (fs/fs.c), the keyboard handler (device/keyboard.c), pipe_read *)
(* and pipe_write (shell/pipe.c).                                          *)
(*                                                                         *)
(* All of them run with interrupts off, so a thread that is inside a system*)
(* call keeps the processor (`busy') until it returns or sleeps.  The lock *)
(* of the queue is the mutex of module Mutex: a thread that waits for it   *)
(* may take it once it is free, in any order.                              *)
(***************************************************************************)
EXTENDS Integers, Sequences, FiniteSets

CONSTANTS Readers, Writers,
          Bytes,        \* what the keyboard produces and the writers write
          Size,         \* bufsize
          MaxCount,     \* bound: the largest count of one read or write
          None          \* NULL, and no byte

Threads == Readers \cup Writers

ASSUME IoqAssumption ==
    /\ Readers \cap Writers = {}
    /\ Size \in Nat /\ Size >= 2
    /\ MaxCount \in Nat \ {0}
    /\ None \notin Threads \cup Bytes

VARIABLES kind,                 \* "kbd": kbd_buf, "pipe": the page of a pipe
          users,                \* the threads that use this ring
          buf, head, tail,      \* the ring
          producer, consumer,   \* the thread asleep on a full or empty ring
          owner,                \* the holder of ioq.lock
          busy,                 \* the thread that executes a system call
          pc, left,             \* its next statement, the bytes left to do
          got,                  \* the byte a thread read last
          panic

ring == <<buf, head, tail>>
use == <<kind, users>>
ioqVars == <<use, ring, producer, consumer, owner, busy, pc, left, got, panic>>

(* kbd_buf is written by the keyboard handler, a pipe by other threads.    *)
IoqInit ==
    /\ users \in SUBSET Threads /\ users \cap Readers # {}
    /\ kind = IF users \subseteq Readers THEN "kbd" ELSE "pipe"
    /\ buf = [i \in 0 .. Size - 1 |-> None]
    /\ head = 0 /\ tail = 0
    /\ producer = None /\ consumer = None
    /\ owner = None
    /\ busy = None
    /\ pc = [t \in Threads |-> "user"]
    /\ left = [t \in Threads |-> 0]
    /\ got = [t \in Threads |-> None]
    /\ panic = FALSE

NextPos(i) == (i + 1) % Size
IoqFull == NextPos(head) = tail
IoqEmpty == head = tail
IoqLength == IF head >= tail THEN head - tail ELSE Size - (tail - head)
Least(m, n) == IF m < n THEN m ELSE n

----------------------------------------------------------------------------

(* wakeup(&waiter) if there is one: thread_unblock asserts that the thread *)
(* is blocked.  own is pc with the caller's own progress.                  *)
Wakeup(waiter, asleep, woken, own) ==
    IF waiter = None THEN pc' = own /\ panic' = panic
    ELSE pc' = [own EXCEPT ![waiter] = woken] /\ panic' = (pc[waiter] # asleep)

(* A thread has done one byte; after the last one it leaves the kernel.    *)
OneByteLess(t) ==
    /\ left' = [left EXCEPT ![t] = @ - 1]
    /\ busy' = IF left[t] = 1 THEN None ELSE t
Progress(t) == IF left[t] = 1 THEN [pc EXCEPT ![t] = "user"] ELSE pc

(* Mutant: the head moves before the byte is stored. *)
IoqPutOverrun(b, own) ==
    /\ buf' = [buf EXCEPT ![NextPos(head)] = b]
    /\ head' = NextPos(head)
    /\ consumer' = None
    /\ Wakeup(consumer, "getsleep", "getwoken", own)

(* The end of ioq_putchar, when there is room. *)
IoqPut(b, own) ==
    /\ buf' = [buf EXCEPT ![head] = b]
    /\ head' = NextPos(head)
    /\ consumer' = None
    /\ Wakeup(consumer, "getsleep", "getwoken", own)

(* The keyboard handler, when the scan code gave a character: the key is   *)
(* dropped if the ring is full.  It can only come in between system calls. *)
Key(b) ==
    /\ ~panic /\ busy = None /\ kind = "kbd"
    /\ ~IoqFull
    /\ IoqPut(b, pc)
    /\ UNCHANGED <<use, tail, producer, owner, busy, left, got>>

(* sys_read of the standard input. *)
SysReadKbd(t, n) ==
    /\ ~panic /\ busy = None /\ kind = "kbd" /\ pc[t] = "user"
    /\ busy' = t
    /\ left' = [left EXCEPT ![t] = n]
    /\ pc' = [pc EXCEPT ![t] = "get"]
    /\ UNCHANGED <<use, ring, producer, consumer, owner, got, panic>>

(* pipe_read: no more than the ring holds; an empty pipe gives 0 bytes.    *)
PipeRead(t, n) ==
    /\ ~panic /\ busy = None /\ kind = "pipe" /\ pc[t] = "user"
    /\ ~IoqEmpty
    /\ busy' = t
    /\ left' = [left EXCEPT ![t] = Least(IoqLength, n)]
    /\ pc' = [pc EXCEPT ![t] = "get"]
    /\ UNCHANGED <<use, ring, producer, consumer, owner, got, panic>>

(* pipe_write: no more than bufsize minus the length, which is one more    *)
(* than the ring has room for.                                             *)
PipeWrite(t, n) ==
    /\ ~panic /\ busy = None /\ kind = "pipe" /\ pc[t] = "user"
    /\ busy' = t
    /\ left' = [left EXCEPT ![t] = Least(Size - IoqLength, n)]
    /\ pc' = [pc EXCEPT ![t] = "put"]
    /\ UNCHANGED <<use, ring, producer, consumer, owner, got, panic>>

(* Mutants: the loop of sys_read does not count its bytes; ioq_getchar     *)
(* wakes the producer only when it has emptied the ring.                   *)
GetTakeEndless(t) ==
    /\ ~panic /\ busy = t /\ pc[t] = "get"
    /\ ~IoqEmpty
    /\ got' = [got EXCEPT ![t] = buf[tail]]
    /\ tail' = NextPos(tail)
    /\ producer' = None
    /\ Wakeup(producer, "putsleep", "putwoken", IF kind = "kbd" THEN pc ELSE Progress(t))
    /\ IF kind = "kbd" THEN UNCHANGED <<left, busy>> ELSE OneByteLess(t)
    /\ UNCHANGED <<use, buf, head, consumer, owner>>

GetTakeWakesLate(t) ==
    /\ ~panic /\ busy = t /\ pc[t] = "get"
    /\ ~IoqEmpty
    /\ got' = [got EXCEPT ![t] = buf[tail]]
    /\ tail' = NextPos(tail)
    /\ producer' = IF tail' = head THEN None ELSE producer
    /\ Wakeup(IF tail' = head THEN producer ELSE None, "putsleep", "putwoken", Progress(t))
    /\ OneByteLess(t)
    /\ UNCHANGED <<use, buf, head, consumer, owner>>

(* ioq_getchar with a byte in the ring. *)
GetTake(t) ==
    /\ ~panic /\ busy = t /\ pc[t] = "get"
    /\ ~IoqEmpty
    /\ got' = [got EXCEPT ![t] = buf[tail]]
    /\ tail' = NextPos(tail)
    /\ producer' = None
    /\ Wakeup(producer, "putsleep", "putwoken", Progress(t))
    /\ OneByteLess(t)
    /\ UNCHANGED <<use, buf, head, consumer, owner>>

(* ioq_putchar with room in the ring. *)
PutStore(t) ==
    /\ ~panic /\ busy = t /\ pc[t] = "put"
    /\ ~IoqFull
    /\ \E b \in Bytes : IoqPut(b, Progress(t))
    /\ OneByteLess(t)
    /\ UNCHANGED <<use, tail, producer, owner, got>>

(* lock_acquire and ioq_wait, with the lock free: the thread goes to sleep *)
(* with the lock.  ioq_wait asserts that nobody else is registered.        *)
GetSleep(t) ==
    /\ owner' = t /\ consumer' = t
    /\ panic' = (consumer # None)
    /\ pc' = [pc EXCEPT ![t] = "getsleep"]
    /\ busy' = None
    /\ UNCHANGED producer

PutSleep(t) ==
    /\ owner' = t /\ producer' = t
    /\ panic' = (producer # None)
    /\ pc' = [pc EXCEPT ![t] = "putsleep"]
    /\ busy' = None
    /\ UNCHANGED consumer

(* Mutants: the lock is not taken around ioq_wait. *)
GetWaitUnlocked(t) ==
    /\ ~panic /\ busy = t /\ pc[t] = "get"
    /\ IoqEmpty
    /\ GetSleep(t)
    /\ UNCHANGED <<use, ring, left, got>>

PutWaitUnlocked(t) ==
    /\ ~panic /\ busy = t /\ pc[t] = "put"
    /\ IoqFull
    /\ PutSleep(t)
    /\ UNCHANGED <<use, ring, left, got>>

(* The loop bodies of ioq_getchar and ioq_putchar: the thread sleeps on    *)
(* the lock first if somebody else has it.                                 *)
GetWait(t) ==
    /\ ~panic /\ busy = t /\ pc[t] = "get"
    /\ IoqEmpty
    /\ \/ owner = None /\ GetSleep(t)
       \/ /\ owner # None
          /\ pc' = [pc EXCEPT ![t] = "getlock"]
          /\ busy' = None
          /\ UNCHANGED <<producer, consumer, owner, panic>>
    /\ UNCHANGED <<use, ring, left, got>>

PutWait(t) ==
    /\ ~panic /\ busy = t /\ pc[t] = "put"
    /\ IoqFull
    /\ \/ owner = None /\ PutSleep(t)
       \/ /\ owner # None
          /\ pc' = [pc EXCEPT ![t] = "putlock"]
          /\ busy' = None
          /\ UNCHANGED <<producer, consumer, owner, panic>>
    /\ UNCHANGED <<use, ring, left, got>>

(* The lock has become free: it is taken, and the thread sleeps on the     *)
(* ring without looking at it again.                                       *)
LockGranted(t) ==
    /\ ~panic /\ busy = None /\ owner = None
    /\ \/ pc[t] = "getlock" /\ GetSleep(t)
       \/ pc[t] = "putlock" /\ PutSleep(t)
    /\ UNCHANGED <<use, ring, left, got>>

(* Back from thread_block: lock_release, and the test of the loop again.   *)
Woken(t) ==
    /\ ~panic /\ busy = None
    /\ \/ pc[t] = "getwoken" /\ pc' = [pc EXCEPT ![t] = "get"]
       \/ pc[t] = "putwoken" /\ pc' = [pc EXCEPT ![t] = "put"]
    /\ owner' = None
    /\ busy' = t
    /\ UNCHANGED <<use, ring, producer, consumer, left, got, panic>>

Continue(t) == GetTake(t) \/ PutStore(t) \/ GetWait(t) \/ PutWait(t)

IoqNext ==
    \/ \E b \in Bytes : Key(b)
    \/ \E n \in 1 .. MaxCount :
          \/ \E t \in Readers \cap users : SysReadKbd(t, n) \/ PipeRead(t, n)
          \/ \E t \in Writers \cap users : PipeWrite(t, n)
    \/ \E t \in Threads : Continue(t) \/ LockGranted(t) \/ Woken(t)

IoqSpec == IoqInit /\ [][IoqNext]_ioqVars

(* A thread that can run gets the processor (ReadyRuns of module Sched):   *)
(* the one that executes, and the one that was woken, which is unique as   *)
(* it has the lock.  Keys are typed again and again.  Nobody is bound to   *)
(* read a pipe: my_shell runs the reader only after the writer has ended   *)
(* (shell.c:137 and 196).                                                  *)
IoqFairSpec ==
    /\ IoqSpec
    /\ WF_ioqVars(\E t \in Threads : Continue(t))
    /\ SF_ioqVars(\E t \in Threads : Woken(t))
    /\ SF_ioqVars(\E b \in Bytes : Key(b))

----------------------------------------------------------------------------
Asleep == {"getsleep", "putsleep"}
Places == Asleep \cup {"user", "get", "put", "getlock", "putlock",
                       "getwoken", "putwoken"}

IoqTypeOK ==
    /\ kind \in {"kbd", "pipe"} /\ users \subseteq Threads
    /\ buf \in [0 .. Size - 1 -> Bytes \cup {None}]
    /\ head \in 0 .. Size - 1 /\ tail \in 0 .. Size - 1
    /\ {producer, consumer, owner, busy} \subseteq Threads \cup {None}
    /\ pc \in [Threads -> Places]
    /\ left \in [Threads -> 0 .. MaxCount]
    /\ got \in [Threads -> Bytes \cup {None}]
    /\ panic \in BOOLEAN

(* The ASSERTs of ioq_wait and wakeup hold however many threads share the  *)
(* queue: nobody registers over a thread that is still asleep, and only a  *)
(* thread that is asleep is woken.                                         *)
NoIoqPanic == ~panic

(* Every thread asleep on the ring is registered and holds the lock.       *)
SleeperRegistered ==
    \A t \in Threads :
        /\ pc[t] = "getsleep" <=> consumer = t
        /\ pc[t] = "putsleep" <=> producer = t
        /\ pc[t] \in Asleep \cup {"getwoken", "putwoken"} <=> owner = t

(* t has nobody beside it on its side of the ring. *)
SoleReader(t) == users \cap Readers = {t}
SoleWriter(t) == users \cap Writers = {t}

(* With one reader or one writer: it does not sleep while the ring has     *)
(* what it waits for, so no wakeup is lost.                                *)
SleepsForAReason ==
    \A t \in Threads : /\ pc[t] = "getsleep" /\ SoleReader(t) => IoqEmpty
                       /\ pc[t] = "putsleep" /\ SoleWriter(t) => IoqFull

(* The thread that executes is in the loop of ioq_getchar or ioq_putchar,  *)
(* on its own side of the ring, with bytes left to do; a reader of a pipe  *)
(* never sets out to take more than the ring holds.  A thread alone on its *)
(* side never finds the lock taken.                                        *)
CallsExact ==
    /\ kind = "kbd" <=> users \subseteq Readers
    /\ \A t \in Threads :
         /\ busy = t <=> pc[t] \in {"get", "put"}
         /\ pc[t] # "user" => t \in users /\ left[t] > 0
         /\ pc[t] \in {"get", "getlock", "getsleep", "getwoken"} => t \in Readers
         /\ pc[t] \in {"put", "putlock", "putsleep", "putwoken"} => t \in Writers
         /\ kind = "pipe" /\ pc[t] = "get" => left[t] <= IoqLength
         /\ pc[t] = "getlock" => ~SoleReader(t)
         /\ pc[t] = "putlock" => ~SoleWriter(t)

(* A read of the keyboard by its one reader returns as long as keys are    *)
(* typed.                                                                  *)
KbdReadReturns ==
    \A t \in Readers :
        kind = "kbd" /\ SoleReader(t) /\ pc[t] # "user" ~> pc[t] = "user"

(* A write to a pipe by its one writer returns, or the writer sleeps with  *)
(* one byte left and the ring full.  It does sleep: pipe_write limits its  *)
(* count "to avoid blocking" (pipe.c:63), but to one byte more than there  *)
(* is room for, so a write that fills the ring waits for a reader, for     *)
(* ever if there is none.  It never sleeps for more than its last byte,    *)
(* and does not stay asleep once a byte has been taken.                    *)
PipeWriteWaitsFull ==
    \A t \in Writers :
        []<>(\/ ~SoleWriter(t)
             \/ pc[t] = "user"
             \/ pc[t] = "putsleep" /\ IoqFull /\ left[t] = 1)

(* pipe_read: "choose the smaller amount, to avoid blocking" (pipe.c:46).  *)
PipeReadNeverSleeps ==
    kind = "pipe" => \A t \in Readers : pc[t] \in {"user", "get"}

(* However many threads share the ring, ioq_wait, wakeup and the lock of   *)
(* its side agree on who sleeps, and with one thread on a side no wakeup   *)
(* is lost; a reader of a pipe never sleeps.                               *)
RingWaits ==
    /\ IoqTypeOK
    /\ NoIoqPanic
    /\ SleeperRegistered
    /\ SleepsForAReason
    /\ CallsExact
    /\ PipeReadNeverSleeps

(* The bytes in the ring, oldest first. *)
Queue == [i \in 1 .. IoqLength |-> buf[(tail + i - 1) % Size]]

(* The ring is a queue of at most bufsize - 1 bytes: none is lost, doubled *)
(* or reordered, whoever reads and writes it.                              *)
F == INSTANCE Fifo WITH
        Users <- Threads, Bytes <- Bytes, NoByte <- None, Capacity <- Size - 1,
        queue <- Queue, last <- got
ImplementsFifo == F!FifoSpec
=============================================================================
