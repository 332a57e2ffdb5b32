--------------------------- MODULE IoQueueProofs ---------------------------
(***************************************************************************)
(* Proofs about the ring buffer of device/ioqueue.c, for a ring of any     *)
(* size and any number of readers and writers: who sleeps is registered    *)
(* and woken, a reader of a pipe never sleeps, and the ring implements a   *)
(* bounded first-in first-out queue.                                       *)
(***************************************************************************)
EXTENDS IoQueue, TLAPS

USE IoqAssumption

----------------------------------------------------------------------------
(* The arithmetic of the ring.                                             *)

(* Where an index goes that has run past the end of the buffer once. *)
LEMMA Wrap ==
    ASSUME NEW x \in 0 .. 2 * Size - 1
    PROVE  x % Size = IF x < Size THEN x ELSE x - Size
  BY SMT

LEMMA NextPosWraps ==
    ASSUME NEW i \in 0 .. Size - 1
    PROVE  /\ NextPos(i) = IF i = Size - 1 THEN 0 ELSE i + 1
           /\ NextPos(i) \in 0 .. Size - 1
  <1>1. i + 1 \in 0 .. 2 * Size - 1
    OBVIOUS
  <1>2. (i + 1) % Size = IF i + 1 < Size THEN i + 1 ELSE i + 1 - Size
    BY <1>1, Wrap
  <1> QED
    BY <1>2 DEF NextPos

(* ioq_length: one slot stays free, so full and empty can be told apart    *)
(* (ioqueue.c:79).                                                         *)
LEMMA LengthBounds ==
    ASSUME head \in 0 .. Size - 1, tail \in 0 .. Size - 1
    PROVE  /\ IoqLength \in 0 .. Size - 1
           /\ IoqEmpty <=> IoqLength = 0
           /\ IoqFull <=> IoqLength = Size - 1
  BY NextPosWraps DEF IoqLength, IoqEmpty, IoqFull

(* A put makes the ring longer by one. *)
LEMMA LengthAfterPut ==
    ASSUME head \in 0 .. Size - 1, tail \in 0 .. Size - 1, ~IoqFull,
           head' = NextPos(head), tail' = tail
    PROVE  IoqLength' = IoqLength + 1
  BY NextPosWraps DEF IoqLength, IoqFull

(* A get makes it shorter by one. *)
LEMMA LengthAfterGet ==
    ASSUME head \in 0 .. Size - 1, tail \in 0 .. Size - 1, ~IoqEmpty,
           tail' = NextPos(tail), head' = head
    PROVE  IoqLength' = IoqLength - 1
  BY NextPosWraps DEF IoqLength, IoqEmpty

----------------------------------------------------------------------------
(* The invariant.  PipeReadNeverSleeps follows from CallsExact and         *)
(* SleepsForAReason.                                                       *)
IoqInv ==
    /\ IoqTypeOK
    /\ NoIoqPanic
    /\ SleeperRegistered
    /\ SleepsForAReason
    /\ CallsExact
    /\ PipeReadNeverSleeps

LEMMA IoqInitInv == IoqInit => IoqInv
  <1> SUFFICES ASSUME IoqInit PROVE IoqInv
    OBVIOUS
  <1>1. panic \in BOOLEAN /\ ~panic
    BY Zenon DEF IoqInit
  <1>2. IoqTypeOK
    BY <1>1 DEF IoqInit, IoqTypeOK, Places, Asleep
  <1>3. CallsExact
    BY DEF IoqInit, CallsExact, Threads
  <1> QED
    BY <1>1, <1>2, <1>3
    DEF IoqInv, IoqInit, NoIoqPanic, SleeperRegistered, SleepsForAReason,
        PipeReadNeverSleeps, Asleep, Threads

(* A call starts: nobody else executes, and it has at least one byte to do.*)
LEMMA CallInv ==
    ASSUME IoqInv, NEW n \in 1 .. MaxCount, NEW t \in Threads \cap users,
           \/ t \in Readers /\ (SysReadKbd(t, n) \/ PipeRead(t, n))
           \/ t \in Writers /\ PipeWrite(t, n)
    PROVE  IoqInv'
  <1>0. IoqLength \in 0 .. Size - 1 /\ (IoqEmpty <=> IoqLength = 0)
    BY LengthBounds DEF IoqInv, IoqTypeOK
  <1>1. /\ UNCHANGED <<kind, users, buf, head, tail, producer, consumer, owner, got, panic>>
        /\ ~panic /\ busy = None /\ pc[t] = "user" /\ busy' = t
        /\ \/ t \in Readers /\ pc' = [pc EXCEPT ![t] = "get"]
           \/ t \in Writers /\ pc' = [pc EXCEPT ![t] = "put"]
    BY DEF SysReadKbd, PipeRead, PipeWrite, use, ring
  <1>2. PICK m \in 1 .. MaxCount : left' = [left EXCEPT ![t] = m]
    BY <1>0 DEF SysReadKbd, PipeRead, PipeWrite, Least
  <1>3. kind = "pipe" /\ t \in Readers => left'[t] <= IoqLength
    BY <1>0 DEF SysReadKbd, PipeRead, PipeWrite, Least, IoqInv, IoqTypeOK
  <1>4. UNCHANGED <<IoqLength, IoqEmpty, IoqFull>>
    BY <1>1 DEF IoqLength, IoqEmpty, IoqFull
  <1>5. IoqTypeOK'
    BY <1>1, <1>2 DEF IoqInv, IoqTypeOK, Places, Asleep
  <1>6. NoIoqPanic' /\ SleeperRegistered'
    BY <1>1 DEF IoqInv, IoqTypeOK, NoIoqPanic, SleeperRegistered, Asleep
  <1>7. SleepsForAReason' /\ PipeReadNeverSleeps'
    BY <1>1, <1>4
    DEF IoqInv, IoqTypeOK, SleepsForAReason, PipeReadNeverSleeps, SoleReader, SoleWriter,
        Threads
  <1>8. CallsExact'
    BY <1>1, <1>2, <1>3, <1>4
    DEF IoqInv, IoqTypeOK, CallsExact, SoleReader, SoleWriter, Threads
  <1> QED
    BY <1>5, <1>6, <1>7, <1>8 DEF IoqInv

(* A thread goes to sleep on the ring with the lock: whoever was asleep    *)
(* would have it, so nobody is registered.                                 *)
LEMMA SleepInv ==
    ASSUME IoqInv, NEW t \in Threads, owner = None, busy \in {None, t},
           UNCHANGED <<use, ring, left, got>>,
           \/ /\ GetSleep(t) /\ pc[t] \in {"get", "getlock"}
              /\ kind = "kbd" /\ (SoleReader(t) => IoqEmpty)
           \/ /\ PutSleep(t) /\ pc[t] \in {"put", "putlock"}
              /\ SoleWriter(t) => IoqFull
    PROVE  IoqInv'
  <1>0. consumer = None /\ producer = None
    BY DEF IoqInv, IoqTypeOK, SleeperRegistered, Asleep
  <1>1. panic' = FALSE
    BY <1>0, Zenon DEF GetSleep, PutSleep
  <1>2. UNCHANGED <<kind, users, buf, head, tail, left, got>> /\ owner' = t /\ busy' = None
    BY DEF GetSleep, PutSleep, use, ring
  <1>3. UNCHANGED <<IoqLength, IoqEmpty, IoqFull>>
    BY <1>2 DEF IoqLength, IoqEmpty, IoqFull
  <1>4. IoqTypeOK' /\ NoIoqPanic'
    <2>1. panic' \in BOOLEAN
      BY <1>1
    <2> QED
      BY <1>1, <1>2, <2>1
      DEF IoqInv, IoqTypeOK, NoIoqPanic, GetSleep, PutSleep, Places, Asleep
  <1>5. SleeperRegistered'
    BY <1>0, <1>2 DEF IoqInv, IoqTypeOK, SleeperRegistered, GetSleep, PutSleep, Asleep
  <1>6. SleepsForAReason' /\ PipeReadNeverSleeps'
    BY <1>2, <1>3
    DEF IoqInv, IoqTypeOK, SleepsForAReason, PipeReadNeverSleeps, CallsExact, SoleReader,
        SoleWriter, GetSleep, PutSleep, Threads
  <1>7. CallsExact'
    BY <1>2, <1>3
    DEF IoqInv, IoqTypeOK, CallsExact, SoleReader, SoleWriter, GetSleep, PutSleep, Threads
  <1> QED
    BY <1>4, <1>5, <1>6, <1>7 DEF IoqInv

(* A reader of a pipe has bytes to take, so only a reader of the keyboard  *)
(* finds the ring empty.                                                   *)
LEMMA EmptyIsKbd ==
    ASSUME IoqInv, NEW t \in Threads, pc[t] = "get", IoqEmpty PROVE kind = "kbd"
  <1>1. IoqLength = 0
    BY LengthBounds DEF IoqInv, IoqTypeOK
  <1> QED
    BY <1>1 DEF IoqInv, IoqTypeOK, CallsExact

(* The holder of the lock sleeps, or was woken, on the same side as the    *)
(* thread that runs into it, so that thread is not alone there.            *)
LEMMA OwnerBeside ==
    ASSUME IoqInv, NEW t \in Threads, owner # None,
           \/ pc[t] = "get" /\ IoqEmpty
           \/ pc[t] = "put"
    PROVE  IF pc[t] = "get" THEN ~SoleReader(t) ELSE ~SoleWriter(t)
  <1>1. /\ owner \in Threads /\ owner # t /\ owner \in users /\ t \in users
        /\ pc[owner] \in {"getsleep", "putsleep", "getwoken", "putwoken"}
    BY DEF IoqInv, IoqTypeOK, SleeperRegistered, CallsExact, Asleep
  <1>2. CASE pc[t] = "get"
    <2>1. owner \in Readers
      BY <1>1, <1>2, EmptyIsKbd DEF IoqInv, CallsExact
    <2> QED
      BY <1>1, <1>2, <2>1 DEF SoleReader
  <1>3. CASE pc[t] = "put"
    <2>1. t \in Writers /\ kind = "pipe"
      BY <1>1, <1>3 DEF IoqInv, IoqTypeOK, CallsExact
    <2>2. owner \in Writers
      BY <1>1, <2>1 DEF IoqInv, PipeReadNeverSleeps, Threads
    <2> QED
      BY <1>1, <1>3, <2>2 DEF SoleWriter
  <1> QED
    BY <1>2, <1>3

(* The thread that executes goes to sleep, on the ring or on its lock.     *)
LEMMA WaitInv ==
    ASSUME IoqInv, NEW t \in Threads, GetWait(t) \/ PutWait(t)
    PROVE  IoqInv'
  <1>1. CASE owner = None
    <2>1. UNCHANGED <<use, ring, left, got>> /\ busy = t
      BY DEF GetWait, PutWait
    <2>2. CASE GetWait(t)
      BY <1>1, <2>1, <2>2, EmptyIsKbd, SleepInv DEF GetWait
    <2>3. CASE PutWait(t)
      BY <1>1, <2>1, <2>3, SleepInv DEF PutWait
    <2> QED
      BY <2>2, <2>3
  <1>2. CASE owner # None
    <2>1. /\ UNCHANGED <<kind, users, buf, head, tail, left, got, producer, consumer, owner, panic>>
          /\ busy' = None /\ busy = t
          /\ \/ /\ pc[t] = "get" /\ IoqEmpty /\ ~SoleReader(t)
                /\ pc' = [pc EXCEPT ![t] = "getlock"]
             \/ /\ pc[t] = "put" /\ ~SoleWriter(t)
                /\ pc' = [pc EXCEPT ![t] = "putlock"]
      BY <1>2, OwnerBeside DEF GetWait, PutWait, use, ring
    <2>2. UNCHANGED <<IoqLength, IoqEmpty, IoqFull>>
      BY <2>1 DEF IoqLength, IoqEmpty, IoqFull
    <2>3. IoqTypeOK' /\ NoIoqPanic'
      BY <2>1 DEF IoqInv, IoqTypeOK, NoIoqPanic, Places, Asleep
    <2>4. SleeperRegistered'
      BY <2>1 DEF IoqInv, IoqTypeOK, SleeperRegistered, Asleep
    <2>5. SleepsForAReason' /\ CallsExact'
      <3>1. /\ pc \in [Threads -> Places] /\ SleepsForAReason /\ CallsExact
            /\ pc'[t] \in {"getlock", "putlock"} /\ \A q \in Threads \ {t} : pc'[q] = pc[q]
        BY <2>1 DEF IoqInv, IoqTypeOK
      <3>2. \A q \in Threads : (SoleReader(q)' <=> SoleReader(q)) /\ (SoleWriter(q)' <=> SoleWriter(q))
        BY <2>1 DEF SoleReader, SoleWriter
      <3>3. SleepsForAReason'
        BY <2>2, <3>1, <3>2 DEF SleepsForAReason
      <3>4. CallsExact'
        BY <2>1, <2>2, <3>1, <3>2 DEF CallsExact
      <3> QED
        BY <3>3, <3>4
    <2>6. PipeReadNeverSleeps'
      <3>1. pc[t] = "get" => kind = "kbd"
        BY <2>1, EmptyIsKbd
      <3>2. pc[t] = "put" => t \notin Readers
        BY DEF IoqInv, CallsExact
      <3> QED
        BY <2>1, <3>1, <3>2 DEF IoqInv, IoqTypeOK, PipeReadNeverSleeps, Threads
    <2> QED
      BY <2>3, <2>4, <2>5, <2>6 DEF IoqInv
  <1> QED
    BY <1>1, <1>2

(* The thread that gets the lock sleeps without looking at the ring again: *)
(* it is not alone on its side.                                            *)
LEMMA LockGrantedInv ==
    ASSUME IoqInv, NEW t \in Threads, LockGranted(t)
    PROVE  IoqInv'
  <1>1. UNCHANGED <<use, ring, left, got>> /\ busy = None /\ owner = None
    BY DEF LockGranted
  <1>2. CASE pc[t] = "getlock"
    <2>1. kind = "kbd" /\ ~SoleReader(t)
      BY <1>2 DEF IoqInv, IoqTypeOK, CallsExact, PipeReadNeverSleeps
    <2> QED
      BY <1>1, <1>2, <2>1, SleepInv DEF LockGranted
  <1>3. CASE pc[t] # "getlock"
    <2>1. pc[t] = "putlock" /\ ~SoleWriter(t)
      BY <1>3 DEF LockGranted, IoqInv, CallsExact
    <2> QED
      BY <1>1, <2>1, SleepInv DEF LockGranted
  <1> QED
    BY <1>2, <1>3

LEMMA WokenInv ==
    ASSUME IoqInv, NEW t \in Threads, Woken(t)
    PROVE  IoqInv'
  <1>1. /\ UNCHANGED <<kind, users, buf, head, tail, left, got, producer, consumer, panic>>
        /\ busy = None /\ busy' = t /\ owner' = None
        /\ \/ pc[t] = "getwoken" /\ pc' = [pc EXCEPT ![t] = "get"]
           \/ pc[t] = "putwoken" /\ pc' = [pc EXCEPT ![t] = "put"]
    BY DEF Woken, use, ring
  <1>2. UNCHANGED <<IoqLength, IoqEmpty, IoqFull>>
    BY <1>1 DEF IoqLength, IoqEmpty, IoqFull
  <1>3. IoqTypeOK' /\ NoIoqPanic'
    BY <1>1 DEF IoqInv, IoqTypeOK, NoIoqPanic, Places, Asleep
  <1>4. SleeperRegistered'
    BY <1>1 DEF IoqInv, IoqTypeOK, SleeperRegistered, Asleep
  <1>5. pc[t] = "getwoken" => kind = "kbd"
    BY DEF IoqInv, IoqTypeOK, CallsExact, PipeReadNeverSleeps
  <1>6. SleepsForAReason' /\ PipeReadNeverSleeps'
    BY <1>1, <1>2, <1>5
    DEF IoqInv, IoqTypeOK, SleepsForAReason, CallsExact, PipeReadNeverSleeps, SoleReader,
        SoleWriter, Threads
  <1>7. CallsExact'
    BY <1>1, <1>2, <1>5
    DEF IoqInv, IoqTypeOK, CallsExact, SoleReader, SoleWriter, Threads
  <1> QED
    BY <1>3, <1>4, <1>6, <1>7 DEF IoqInv

(* The end of ioq_putchar, from the handler or from a thread at "put" that *)
(* is not the registered consumer: the sleeper is woken, whoever puts.     *)
LEMMA PutWakes ==
    ASSUME IoqInv, NEW b, NEW own, own \in [Threads -> Places],
           consumer # None => own[consumer] = pc[consumer], IoqPut(b, own)
    PROVE  /\ panic' = FALSE /\ consumer' = None
           /\ pc' = [u \in Threads |-> IF u = consumer THEN "getwoken" ELSE own[u]]
  <1>1. CASE consumer = None
    <2>1. pc' = own /\ panic' = panic
      BY <1>1 DEF IoqPut, Wakeup
    <2>2. panic' = FALSE
      BY <2>1, Zenon DEF IoqInv, IoqTypeOK, NoIoqPanic
    <2> QED
      BY <1>1, <2>1, <2>2 DEF IoqPut
  <1>2. CASE consumer # None
    <2>1. consumer \in Threads /\ pc[consumer] = "getsleep"
      BY <1>2 DEF IoqInv, IoqTypeOK, SleeperRegistered
    <2>2. pc' = [own EXCEPT ![consumer] = "getwoken"] /\ panic' = (pc[consumer] # "getsleep")
      BY <1>2 DEF IoqPut, Wakeup
    <2>3. panic' = FALSE
      BY <2>1, <2>2
    <2> QED
      BY <2>1, <2>2, <2>3 DEF IoqPut
  <1> QED
    BY <1>1, <1>2

(* A byte goes in.  t is the thread that puts it, or None for the handler  *)
(* of the keyboard.                                                        *)
LEMMA ByteIn ==
    ASSUME IoqInv, NEW b \in Bytes, NEW t, ~IoqFull,
           buf' = [buf EXCEPT ![head] = b], head' = NextPos(head), tail' = tail,
           panic' = FALSE, consumer' = None,
           pc' = [u \in Threads |-> IF u = consumer THEN "getwoken"
                                    ELSE IF u = t /\ left[t] = 1 THEN "user" ELSE pc[u]],
           UNCHANGED <<use, producer, owner, got>>,
           \/ t = None /\ kind = "kbd" /\ busy = None /\ UNCHANGED <<left, busy>>
           \/ /\ t \in Threads /\ pc[t] = "put" /\ busy = t
              /\ left' = [left EXCEPT ![t] = @ - 1]
              /\ busy' = IF left[t] = 1 THEN None ELSE t
    PROVE  IoqInv'
  <1>0. /\ head \in 0 .. Size - 1 /\ tail \in 0 .. Size - 1
        /\ kind' = kind /\ users' = users
    BY DEF IoqInv, IoqTypeOK, use
  <1>1. head' \in 0 .. Size - 1 /\ IoqLength' = IoqLength + 1 /\ IoqLength \in 0 .. Size - 1
    BY <1>0, NextPosWraps, LengthAfterPut, LengthBounds
  <1>2. t \in Threads => t \in Writers /\ t \in users /\ left[t] > 0 /\ t # consumer
                        /\ kind = "pipe"
    BY DEF IoqInv, IoqTypeOK, CallsExact, SleeperRegistered
  <1>3. IoqTypeOK'
    <2>1. left' \in [Threads -> 0 .. MaxCount] /\ busy' \in Threads \cup {None}
      BY <1>2 DEF IoqInv, IoqTypeOK
    <2>2. pc' \in [Threads -> Places]
      BY DEF IoqInv, IoqTypeOK, Places, Asleep
    <2>3. buf' \in [0 .. Size - 1 -> Bytes \cup {None}]
      BY <1>0 DEF IoqInv, IoqTypeOK
    <2>4. panic' \in BOOLEAN
      OBVIOUS
    <2> QED
      BY <1>0, <1>1, <2>1, <2>2, <2>3, <2>4 DEF IoqInv, IoqTypeOK
  <1>4. NoIoqPanic'
    BY DEF NoIoqPanic
  <1>5. SleeperRegistered'
    BY <1>2 DEF IoqInv, IoqTypeOK, SleeperRegistered, Asleep
  <1>6. SleepsForAReason'
    <2>1. SUFFICES ASSUME NEW u \in Threads
                   PROVE  pc'[u] # "getsleep" /\ (pc'[u] = "putsleep" => ~SoleWriter(u))
      BY <1>0 DEF SleepsForAReason, SoleWriter
    <2>2. pc'[u] # "getsleep"
      BY DEF IoqInv, SleeperRegistered
    <2>3. pc'[u] = "putsleep" => pc[u] = "putsleep"
      OBVIOUS
    <2>4. CASE t \in Threads
      BY <1>2, <2>2, <2>3, <2>4 DEF SoleWriter
    <2>5. CASE t = None
      BY <2>2, <2>3, <2>5 DEF IoqInv, CallsExact, SoleWriter
    <2> QED
      BY <2>4, <2>5
  <1>7. PipeReadNeverSleeps'
    BY <1>0 DEF IoqInv, PipeReadNeverSleeps, SleeperRegistered, Threads
  <1>8. CallsExact'
    <2>1. SUFFICES ASSUME NEW u \in Threads
          PROVE  /\ busy' = u <=> pc'[u] \in {"get", "put"}
                 /\ pc'[u] # "user" => u \in users' /\ left'[u] > 0
                 /\ pc'[u] \in {"get", "getlock", "getsleep", "getwoken"} => u \in Readers
                 /\ pc'[u] \in {"put", "putlock", "putsleep", "putwoken"} => u \in Writers
                 /\ kind' = "pipe" /\ pc'[u] = "get" => left'[u] <= IoqLength'
                 /\ pc'[u] = "getlock" => ~SoleReader(u)'
                 /\ pc'[u] = "putlock" => ~SoleWriter(u)'
      BY <1>0 DEF IoqInv, CallsExact
    <2>2. u = consumer => pc[u] = "getsleep"
      BY DEF IoqInv, SleeperRegistered
    <2>3. /\ busy = u <=> pc[u] \in {"get", "put"}
          /\ pc[u] # "user" => u \in users /\ left[u] > 0
          /\ pc[u] \in {"get", "getlock", "getsleep", "getwoken"} => u \in Readers
          /\ pc[u] \in {"put", "putlock", "putsleep", "putwoken"} => u \in Writers
          /\ kind = "pipe" /\ pc[u] = "get" => left[u] <= IoqLength
          /\ pc[u] = "getlock" => ~SoleReader(u)
          /\ pc[u] = "putlock" => ~SoleWriter(u)
          /\ left[u] \in 0 .. MaxCount
      BY DEF IoqInv, CallsExact, IoqTypeOK
    <2>4. u # t => left'[u] = left[u]
      BY DEF IoqInv, IoqTypeOK
    <2>5. u = t => left'[u] = left[u] - 1
      BY <2>1 DEF IoqInv, IoqTypeOK
    <2>6. SoleReader(u)' = SoleReader(u) /\ SoleWriter(u)' = SoleWriter(u)
      BY <1>0 DEF SoleReader, SoleWriter
    <2>7. CASE u = t
      BY <1>0, <1>1, <1>2, <2>3, <2>5, <2>6, <2>7
    <2>8. CASE u # t
      BY <1>0, <1>1, <1>2, <2>2, <2>3, <2>4, <2>6, <2>8
    <2> QED
      BY <2>7, <2>8
  <1> QED
    BY <1>3, <1>4, <1>5, <1>6, <1>7, <1>8 DEF IoqInv

LEMMA KeyInv == ASSUME IoqInv, NEW b \in Bytes, Key(b) PROVE IoqInv'
  <1>1. /\ panic' = FALSE /\ consumer' = None
        /\ pc' = [u \in Threads |-> IF u = consumer THEN "getwoken" ELSE pc[u]]
    <2>1. pc \in [Threads -> Places] /\ IoqPut(b, pc)
      BY DEF Key, IoqInv, IoqTypeOK
    <2> QED
      BY <2>1, PutWakes
  <1>2. pc' = [u \in Threads |-> IF u = consumer THEN "getwoken"
                                 ELSE IF u = None /\ left[None] = 1 THEN "user" ELSE pc[u]]
    BY <1>1
  <1> QED
    BY <1>1, <1>2, ByteIn DEF Key, IoqPut

LEMMA PutStoreInv == ASSUME IoqInv, NEW t \in Threads, PutStore(t) PROVE IoqInv'
  <1>0. pc \in [Threads -> Places] /\ pc[t] = "put" /\ (consumer # None => consumer # t)
    BY DEF PutStore, IoqInv, IoqTypeOK, SleeperRegistered
  <1>1. PICK b \in Bytes : IoqPut(b, Progress(t))
    BY DEF PutStore
  <1>2. /\ Progress(t) \in [Threads -> Places]
        /\ \A u \in Threads : Progress(t)[u] = IF u = t /\ left[t] = 1 THEN "user" ELSE pc[u]
    BY <1>0 DEF Progress, Places
  <1>3. consumer # None => Progress(t)[consumer] = pc[consumer]
    BY <1>0, <1>2 DEF IoqInv, IoqTypeOK
  <1>4. /\ panic' = FALSE /\ consumer' = None
        /\ pc' = [u \in Threads |-> IF u = consumer THEN "getwoken" ELSE Progress(t)[u]]
    <2>1. PICK own : own = Progress(t)
      OBVIOUS
    <2>2. /\ own \in [Threads -> Places] /\ IoqPut(b, own)
          /\ consumer # None => own[consumer] = pc[consumer]
      BY <1>1, <1>2, <1>3, <2>1, Zenon
    <2>3. /\ panic' = FALSE /\ consumer' = None
          /\ pc' = [u \in Threads |-> IF u = consumer THEN "getwoken" ELSE own[u]]
      BY <2>2, PutWakes
    <2> QED
      BY <2>1, <2>3, Zenon
  <1>5. pc' = [u \in Threads |-> IF u = consumer THEN "getwoken"
                                 ELSE IF u = t /\ left[t] = 1 THEN "user" ELSE pc[u]]
    BY <1>2, <1>4
  <1> QED
    <2>1. /\ ~IoqFull /\ busy = t /\ UNCHANGED <<use, producer, owner, got>> /\ tail' = tail
          /\ left' = [left EXCEPT ![t] = @ - 1]
          /\ busy' = IF left[t] = 1 THEN None ELSE t
      BY DEF PutStore, OneByteLess
    <2>2. buf' = [buf EXCEPT ![head] = b] /\ head' = NextPos(head)
      BY <1>1 DEF IoqPut
    <2> QED
      BY <1>0, <1>4, <1>5, <2>1, <2>2, ByteIn

(* A byte comes out: the producer that sleeps is woken.                    *)
LEMMA GetTakeInv == ASSUME IoqInv, NEW t \in Threads, GetTake(t) PROVE IoqInv'
  <1>0. /\ pc \in [Threads -> Places] /\ pc[t] = "get" /\ busy = t /\ t \in Readers
        /\ t \in users /\ left[t] \in 1 .. MaxCount /\ left \in [Threads -> 0 .. MaxCount]
        /\ head \in 0 .. Size - 1 /\ tail \in 0 .. Size - 1
        /\ producer # None => producer \in Threads /\ pc[producer] = "putsleep"
    BY DEF GetTake, IoqInv, IoqTypeOK, SleeperRegistered, CallsExact
  <1>1. tail' \in 0 .. Size - 1 /\ IoqLength' = IoqLength - 1 /\ IoqLength \in 0 .. Size - 1
    BY <1>0, NextPosWraps, LengthAfterGet, LengthBounds DEF GetTake
  <1>2. /\ Progress(t) \in [Threads -> Places]
        /\ \A u \in Threads : Progress(t)[u] = IF u = t /\ left[t] = 1 THEN "user" ELSE pc[u]
    BY <1>0 DEF Progress, Places
  <1>3. /\ panic' = FALSE
        /\ pc' = [u \in Threads |-> IF u = producer THEN "putwoken" ELSE Progress(t)[u]]
    <2>1. CASE producer = None
      <3>1. pc' = Progress(t) /\ panic' = panic
        BY <2>1 DEF GetTake, Wakeup
      <3>2. panic' = FALSE
        BY <3>1, Zenon DEF IoqInv, IoqTypeOK, NoIoqPanic
      <3> QED
        BY <1>2, <2>1, <3>1, <3>2
    <2>2. CASE producer # None
      <3>1. /\ pc' = [Progress(t) EXCEPT ![producer] = "putwoken"]
            /\ panic' = (pc[producer] # "putsleep")
        BY <2>2 DEF GetTake, Wakeup
      <3> QED
        BY <1>0, <1>2, <2>2, <3>1
    <2> QED
      BY <2>1, <2>2
  <1>4. /\ UNCHANGED <<kind, users, buf, head, consumer, owner>> /\ producer' = None
        /\ left' = [left EXCEPT ![t] = left[t] - 1]
        /\ busy' = IF left[t] = 1 THEN None ELSE t
        /\ got' = [got EXCEPT ![t] = buf[tail]]
    BY <1>0 DEF GetTake, OneByteLess, use
  <1>5. IoqTypeOK'
    <2>1. pc' \in [Threads -> Places]
      BY <1>2, <1>3 DEF Places
    <2>2. panic' \in BOOLEAN
      BY <1>3
    <2>3. left' \in [Threads -> 0 .. MaxCount] /\ got' \in [Threads -> Bytes \cup {None}]
      BY <1>0, <1>4 DEF IoqInv, IoqTypeOK
    <2> QED
      BY <1>0, <1>1, <1>4, <2>1, <2>2, <2>3 DEF IoqInv, IoqTypeOK
  <1>6. NoIoqPanic'
    BY <1>3 DEF NoIoqPanic
  <1>7. SleeperRegistered'
    BY <1>0, <1>2, <1>3, <1>4 DEF IoqInv, IoqTypeOK, SleeperRegistered, Asleep
  <1>8. SleepsForAReason'
    <2>1. SUFFICES ASSUME NEW u \in Threads
                   PROVE  pc'[u] # "putsleep" /\ (pc'[u] = "getsleep" => ~SoleReader(u))
      BY <1>4 DEF SleepsForAReason, SoleReader
    <2>2. pc'[u] # "putsleep"
      BY <1>2, <1>3 DEF IoqInv, SleeperRegistered
    <2>3. pc'[u] = "getsleep" => pc[u] = "getsleep"
      BY <1>2, <1>3
    <2> QED
      BY <1>0, <2>2, <2>3 DEF SoleReader
  <1>9. PipeReadNeverSleeps'
    BY <1>0, <1>2, <1>3, <1>4 DEF IoqInv, PipeReadNeverSleeps, Threads
  <1>10. CallsExact'
    <2>1. SUFFICES ASSUME NEW u \in Threads
          PROVE  /\ busy' = u <=> pc'[u] \in {"get", "put"}
                 /\ pc'[u] # "user" => u \in users' /\ left'[u] > 0
                 /\ pc'[u] \in {"get", "getlock", "getsleep", "getwoken"} => u \in Readers
                 /\ pc'[u] \in {"put", "putlock", "putsleep", "putwoken"} => u \in Writers
                 /\ kind' = "pipe" /\ pc'[u] = "get" => left'[u] <= IoqLength'
                 /\ pc'[u] = "getlock" => ~SoleReader(u)'
                 /\ pc'[u] = "putlock" => ~SoleWriter(u)'
      BY <1>4 DEF IoqInv, CallsExact
    <2>2. /\ busy = u <=> pc[u] \in {"get", "put"}
          /\ pc[u] # "user" => u \in users /\ left[u] > 0
          /\ pc[u] \in {"get", "getlock", "getsleep", "getwoken"} => u \in Readers
          /\ pc[u] \in {"put", "putlock", "putsleep", "putwoken"} => u \in Writers
          /\ kind = "pipe" /\ pc[u] = "get" => left[u] <= IoqLength
          /\ pc[u] = "getlock" => ~SoleReader(u)
          /\ pc[u] = "putlock" => ~SoleWriter(u)
      BY DEF IoqInv, CallsExact
    <2>3. SoleReader(u)' = SoleReader(u) /\ SoleWriter(u)' = SoleWriter(u)
      BY <1>4 DEF SoleReader, SoleWriter
    <2>4. CASE u = t
      BY <1>0, <1>1, <1>2, <1>3, <1>4, <2>2, <2>3, <2>4
    <2>5. CASE u # t
      BY <1>0, <1>2, <1>3, <1>4, <2>2, <2>3, <2>5
    <2> QED
      BY <2>4, <2>5
  <1> QED
    BY <1>5, <1>6, <1>7, <1>8, <1>9, <1>10 DEF IoqInv

LEMMA IoqNextInv == IoqInv /\ [IoqNext]_ioqVars => IoqInv'
  <1> SUFFICES ASSUME IoqInv, [IoqNext]_ioqVars PROVE IoqInv'
    OBVIOUS
  <1>1. ASSUME NEW n \in 1 .. MaxCount,
               \/ \E t \in Readers \cap users : SysReadKbd(t, n) \/ PipeRead(t, n)
               \/ \E t \in Writers \cap users : PipeWrite(t, n)
        PROVE  IoqInv'
    BY <1>1, CallInv DEF Threads
  <1>2. ASSUME NEW t \in Threads, Continue(t) \/ LockGranted(t) \/ Woken(t)
        PROVE  IoqInv'
    BY <1>2, GetTakeInv, PutStoreInv, WaitInv, LockGrantedInv, WokenInv DEF Continue
  <1>3. CASE UNCHANGED ioqVars
    BY <1>3
    DEF ioqVars, use, ring, IoqInv, IoqTypeOK, NoIoqPanic, SleeperRegistered,
        SleepsForAReason, CallsExact, PipeReadNeverSleeps, SoleReader, SoleWriter, IoqLength,
        IoqEmpty, IoqFull
  <1> QED
    BY <1>1, <1>2, <1>3, KeyInv DEF IoqNext

(* However many threads share a ring of whatever size, the ASSERTs of      *)
(* ioq_wait and wakeup hold, no sleeper is forgotten, a thread alone on    *)
(* its side sleeps only while the ring gives it a reason to, and a reader  *)
(* of a pipe never sleeps (ioqueue.c:33, pipe.c:46).                       *)
THEOREM RingKeepsWaits == IoqSpec => []RingWaits
  <1>1. IoqInv => RingWaits
    BY DEF IoqInv, RingWaits
  <1> QED
    BY <1>1, IoqInitInv, IoqNextInv, PTL DEF IoqSpec

----------------------------------------------------------------------------
(* The ring is a queue.                                                    *)

LEMMA SeqEqual ==
    ASSUME NEW S, NEW s \in Seq(S), NEW r \in Seq(S), Len(s) = Len(r),
           \A i \in 1 .. Len(s) : s[i] = r[i]
    PROVE  s = r
  OBVIOUS

LEMMA QueueIsSeq ==
    ASSUME head \in 0 .. Size - 1, tail \in 0 .. Size - 1,
           buf \in [0 .. Size - 1 -> Bytes \cup {None}]
    PROVE  /\ Queue \in Seq(Bytes \cup {None}) /\ Len(Queue) = IoqLength
           /\ \A i \in 1 .. IoqLength : /\ tail + i - 1 \in 0 .. 2 * Size - 1
                                        /\ (tail + i - 1) % Size \in 0 .. Size - 1
                                        /\ Queue[i] = buf[(tail + i - 1) % Size]
  <1>1. IoqLength \in 0 .. Size - 1
    BY LengthBounds
  <1>2. ASSUME NEW i \in 1 .. IoqLength
        PROVE  tail + i - 1 \in 0 .. 2 * Size - 1 /\ (tail + i - 1) % Size \in 0 .. Size - 1
    <2>1. tail + i - 1 \in 0 .. 2 * Size - 1
      BY <1>1
    <2> QED
      BY <2>1, Wrap
  <1>3. Queue \in [1 .. IoqLength -> Bytes \cup {None}]
    BY <1>2 DEF Queue
  <1> QED
    BY <1>1, <1>2, <1>3 DEF Queue

(* A byte is stored behind all others, in a slot that none of them has.    *)
LEMMA PutAppends ==
    ASSUME head \in 0 .. Size - 1, tail \in 0 .. Size - 1,
           buf \in [0 .. Size - 1 -> Bytes \cup {None}],
           NEW b \in Bytes, ~IoqFull,
           buf' = [buf EXCEPT ![head] = b], head' = NextPos(head), tail' = tail
    PROVE  Queue' = Append(Queue, b)
  <1>1. /\ IoqLength \in 0 .. Size - 2 /\ IoqLength' = IoqLength + 1
        /\ head' \in 0 .. Size - 1 /\ buf' \in [0 .. Size - 1 -> Bytes \cup {None}]
    BY LengthBounds, LengthAfterPut, NextPosWraps
  <1>2. /\ Queue' \in Seq(Bytes \cup {None}) /\ Len(Queue') = IoqLength + 1
        /\ \A i \in 1 .. IoqLength + 1 : Queue'[i] = buf'[(tail + i - 1) % Size]
    <2>1. Queue' = [i \in 1 .. IoqLength + 1 |-> buf'[(tail + i - 1) % Size]]
      BY <1>1 DEF Queue
    <2>2. \A i \in 1 .. IoqLength + 1 : (tail + i - 1) % Size \in 0 .. Size - 1
      <3> SUFFICES ASSUME NEW i \in 1 .. IoqLength + 1
                   PROVE  (tail + i - 1) % Size \in 0 .. Size - 1
        OBVIOUS
      <3>1. tail + i - 1 \in 0 .. 2 * Size - 1
        BY <1>1
      <3> QED
        BY <3>1, Wrap
    <2>3. Queue' \in [1 .. IoqLength + 1 -> Bytes \cup {None}]
      BY <1>1, <2>1, <2>2
    <2> QED
      BY <1>1, <2>1, <2>3
  <1>3. ASSUME NEW i \in 1 .. IoqLength + 1
        PROVE  Queue'[i] = IF i = IoqLength + 1 THEN b ELSE Queue[i]
    <2>0. i \in Nat /\ tail + i - 1 \in 0 .. 2 * Size - 1
      BY <1>1
    <2>1. PICK x \in 0 .. 2 * Size - 1 : x = tail + i - 1
      BY <2>0
    <2>a. x % Size = IF x < Size THEN x ELSE x - Size
      BY Wrap
    <2>b. x % Size = head <=> i = IoqLength + 1
      <3>1. CASE head >= tail
        <4>1. IoqLength = head - tail
          BY <3>1 DEF IoqLength
        <4> QED
          BY <1>1, <2>0, <2>1, <2>a, <3>1, <4>1
      <3>2. CASE ~(head >= tail)
        <4>1. IoqLength = Size - (tail - head)
          BY <3>2 DEF IoqLength
        <4> QED
          BY <1>1, <2>0, <2>1, <2>a, <3>2, <4>1
      <3> QED
        BY <3>1, <3>2
    <2>2. (tail + i - 1) % Size = head <=> i = IoqLength + 1
      BY <2>1, <2>b
    <2>3. CASE i = IoqLength + 1
      BY <1>2, <2>2, <2>3
    <2>4. CASE i # IoqLength + 1
      <3>1. i \in 1 .. IoqLength /\ Queue[i] = buf[(tail + i - 1) % Size]
        BY <1>1, <2>0, <2>4, QueueIsSeq
      <3>2. (tail + i - 1) % Size \in 0 .. Size - 1 /\ (tail + i - 1) % Size # head
        BY <2>1, <2>a, <2>2, <2>4
      <3> QED
        BY <1>2, <3>1, <3>2, <2>4
    <2> QED
      BY <2>3, <2>4
  <1>4. /\ Queue \in Seq(Bytes \cup {None}) /\ Len(Queue) = IoqLength
    BY QueueIsSeq
  <1>5. /\ Append(Queue, b) \in Seq(Bytes \cup {None})
        /\ Len(Append(Queue, b)) = IoqLength + 1
        /\ \A i \in 1 .. IoqLength + 1 :
               Append(Queue, b)[i] = IF i = IoqLength + 1 THEN b ELSE Queue[i]
    BY <1>1, <1>4
  <1> QED
    BY <1>1, <1>2, <1>3, <1>5, SeqEqual

(* A get takes the oldest byte and leaves the others in place.             *)
LEMMA GetTakesHead ==
    ASSUME head \in 0 .. Size - 1, tail \in 0 .. Size - 1,
           buf \in [0 .. Size - 1 -> Bytes \cup {None}],
           ~IoqEmpty, buf' = buf, head' = head, tail' = NextPos(tail)
    PROVE  Queue # <<>> /\ Queue' = Tail(Queue) /\ Head(Queue) = buf[tail]
  <1>1. /\ IoqLength \in 1 .. Size - 1 /\ IoqLength' = IoqLength - 1
        /\ tail' \in 0 .. Size - 1
        /\ tail' = IF tail = Size - 1 THEN 0 ELSE tail + 1
    BY LengthBounds, LengthAfterGet, NextPosWraps
  <1>2. /\ Queue \in Seq(Bytes \cup {None}) /\ Len(Queue) = IoqLength
        /\ \A i \in 1 .. IoqLength : Queue[i] = buf[(tail + i - 1) % Size]
    BY QueueIsSeq
  <1>3. Queue[1] = buf[tail]
    <2>1. tail + 1 - 1 = tail /\ tail \in 0 .. 2 * Size - 1
      OBVIOUS
    <2>2. tail % Size = tail
      BY <2>1, Wrap
    <2>3. 1 \in 1 .. IoqLength
      BY <1>1
    <2> QED
      BY <1>2, <2>1, <2>2, <2>3
  <1>4. Queue' = [i \in 1 .. IoqLength - 1 |-> buf[(tail' + i - 1) % Size]]
    BY <1>1 DEF Queue
  <1>5. ASSUME NEW i \in 1 .. IoqLength - 1
        PROVE  Queue'[i] = Queue[i + 1]
    <2>1. /\ tail' + i - 1 \in 0 .. 2 * Size - 1 /\ tail + (i + 1) - 1 \in 0 .. 2 * Size - 1
          /\ i + 1 \in 1 .. IoqLength
      BY <1>1
    <2>2. (tail' + i - 1) % Size = (tail + (i + 1) - 1) % Size
      <3>1. PICK x \in 0 .. 2 * Size - 1 : x = tail' + i - 1
        BY <2>1
      <3>2. PICK y \in 0 .. 2 * Size - 1 : y = tail + (i + 1) - 1
        BY <2>1
      <3>3. /\ x % Size = IF x < Size THEN x ELSE x - Size
            /\ y % Size = IF y < Size THEN y ELSE y - Size
        BY Wrap
      <3>4. x = y \/ (y = x + Size /\ x < Size)
        BY <1>1, <3>1, <3>2
      <3>5. x % Size = y % Size
        BY <3>3, <3>4
      <3> QED
        BY <3>1, <3>2, <3>5
    <2> QED
      BY <1>2, <1>4, <2>1, <2>2
  <1>6. /\ Queue' \in Seq(Bytes \cup {None}) /\ Len(Queue') = IoqLength - 1
    <2>1. \A i \in 1 .. IoqLength - 1 : Queue'[i] \in Bytes \cup {None}
      BY <1>1, <1>2, <1>5
    <2>2. Queue' \in [1 .. IoqLength - 1 -> Bytes \cup {None}]
      BY <1>4, <2>1
    <2> QED
      BY <1>1, <1>4, <2>2
  <1>7. /\ Queue # <<>> /\ Head(Queue) = Queue[1]
        /\ Tail(Queue) \in Seq(Bytes \cup {None}) /\ Len(Tail(Queue)) = IoqLength - 1
        /\ \A i \in 1 .. IoqLength - 1 : Tail(Queue)[i] = Queue[i + 1]
    BY <1>1, <1>2
  <1> QED
    BY <1>1, <1>3, <1>5, <1>6, <1>7, SeqEqual

(* Every step of the ring is a put, a get or no step of the queue. *)
LEMMA RingStepIsFifoStep ==
    IoqInv /\ [IoqNext]_ioqVars => [F!FifoNext]_F!fifoVars
  <1> SUFFICES ASSUME IoqInv, [IoqNext]_ioqVars PROVE [F!FifoNext]_F!fifoVars
    OBVIOUS
  <1>0. /\ head \in 0 .. Size - 1 /\ tail \in 0 .. Size - 1
        /\ buf \in [0 .. Size - 1 -> Bytes \cup {None}]
    BY DEF IoqInv, IoqTypeOK
  <1>1. ASSUME NEW b \in Bytes, NEW own, IoqPut(b, own), ~IoqFull, tail' = tail, got' = got
        PROVE  F!FifoNext
    <2>1. Queue' = Append(Queue, b)
      BY <1>0, <1>1, PutAppends DEF IoqPut
    <2>2. Len(Queue) < Size - 1
      BY <1>0, <1>1, LengthBounds, QueueIsSeq
    <2> QED
      BY <1>1, <2>1, <2>2 DEF F!FifoNext, F!Put
  <1>2. ASSUME NEW b \in Bytes, Key(b) PROVE F!FifoNext
    BY <1>1, <1>2 DEF Key
  <1>3. ASSUME NEW t \in Threads, PutStore(t) PROVE F!FifoNext
    BY <1>1, <1>3 DEF PutStore
  <1>4. ASSUME NEW t \in Threads, GetTake(t) PROVE F!FifoNext
    <2>1. Queue # <<>> /\ Queue' = Tail(Queue) /\ Head(Queue) = buf[tail]
      BY <1>0, <1>4, GetTakesHead DEF GetTake
    <2>2. got' = [got EXCEPT ![t] = Head(Queue)]
      BY <1>4, <2>1 DEF GetTake
    <2> QED
      BY <2>1, <2>2 DEF F!FifoNext, F!Get
  <1>5. ASSUME UNCHANGED <<buf, head, tail, got>> PROVE UNCHANGED F!fifoVars
    BY <1>5 DEF F!fifoVars, Queue, IoqLength
  <1>6. ASSUME NEW t \in Threads, GetWait(t) \/ PutWait(t) \/ LockGranted(t) \/ Woken(t)
        PROVE  UNCHANGED F!fifoVars
    BY <1>5, <1>6 DEF GetWait, PutWait, LockGranted, Woken, ring
  <1>7. ASSUME NEW n \in 1 .. MaxCount, NEW t \in Threads,
               SysReadKbd(t, n) \/ PipeRead(t, n) \/ PipeWrite(t, n)
        PROVE  UNCHANGED F!fifoVars
    BY <1>5, <1>7 DEF SysReadKbd, PipeRead, PipeWrite, ring
  <1>8. CASE UNCHANGED ioqVars
    BY <1>5, <1>8 DEF ioqVars, ring
  <1> QED
    BY <1>2, <1>3, <1>4, <1>6, <1>7, <1>8 DEF IoqNext, Continue, Threads

(* The ring with its head, tail and sleepers implements a bounded queue of *)
(* bufsize - 1 bytes: none is lost, doubled or reordered, for any number   *)
(* of readers and writers (ioq_putchar and ioq_getchar, ioqueue.c:64).     *)
THEOREM RingImplementsFifo == IoqSpec => ImplementsFifo
  <1>1. IoqInit => F!FifoInit
    <2> SUFFICES ASSUME IoqInit PROVE F!FifoInit
      OBVIOUS
    <2>1. IoqLength = 0
      BY DEF IoqInit, IoqLength
    <2>2. Queue = <<>>
      BY <2>1 DEF Queue
    <2> QED
      BY <2>2 DEF IoqInit, F!FifoInit
  <1> QED
    BY <1>1, IoqInitInv, IoqNextInv, RingStepIsFifoStep, PTL
    DEF IoqSpec, ImplementsFifo, F!FifoSpec
=============================================================================
