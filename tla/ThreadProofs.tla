---------------------------- MODULE ThreadProofs ----------------------------
(***************************************************************************)
(* Proofs about threads, for any number of them and any priorities: the    *)
(* scheduler (SchedInv is inductive), the scheduler with sleeping threads, *)
(* which implements it, and the lock on top of it (SyncInv is inductive,   *)
(* and the lock implements the abstract mutex).                            *)
(***************************************************************************)
EXTENDS Sync, Sleep, TLAPS

----------------------------------------------------------------------------
(* The scheduler.                                                          *)

(* list_append: the new element joins at the end, once. *)
LEMMA AppendElems ==
    ASSUME NEW T, NEW s \in Seq(T), NEW e \in T
    PROVE  /\ Append(s, e) \in Seq(T)
           /\ Elems(Append(s, e)) = Elems(s) \cup {e}
           /\ NoRepeats(s) /\ e \notin Elems(s) => NoRepeats(Append(s, e))
  <1>1. /\ Append(s, e) \in Seq(T)
        /\ Len(Append(s, e)) = Len(s) + 1
        /\ \A i \in 1 .. Len(s) : Append(s, e)[i] = s[i]
        /\ Append(s, e)[Len(s) + 1] = e
        /\ Len(s) \in Nat
    OBVIOUS
  <1> DEFINE a == Append(s, e)
  <1>2. Elems(a) = Elems(s) \cup {e}
    <2>1. ASSUME NEW x \in Elems(a) PROVE x \in Elems(s) \cup {e}
      <3>1. PICK i \in 1 .. Len(s) + 1 : x = a[i]
        BY <1>1, <2>1 DEF Elems
      <3>2. CASE i = Len(s) + 1
        BY <1>1, <3>1, <3>2
      <3>3. CASE i \in 1 .. Len(s)
        BY <1>1, <3>1, <3>3 DEF Elems
      <3> QED
        BY <1>1, <3>2, <3>3
    <2>2. ASSUME NEW x \in Elems(s) PROVE x \in Elems(a)
      <3>1. PICK i \in 1 .. Len(s) : x = s[i]
        BY <2>2 DEF Elems
      <3>2. i \in 1 .. Len(a) /\ x = a[i]
        BY <1>1, <3>1
      <3> QED
        BY <3>2 DEF Elems
    <2>3. e \in Elems(a)
      <3>1. Len(s) + 1 \in 1 .. Len(a) /\ e = a[Len(s) + 1]
        BY <1>1
      <3> QED
        BY <3>1 DEF Elems
    <2> QED
      BY <2>1, <2>2, <2>3
  <1>3. ASSUME NoRepeats(s), e \notin Elems(s) PROVE NoRepeats(a)
    <2> SUFFICES ASSUME NEW i \in 1 .. Len(s) + 1, NEW j \in 1 .. Len(s) + 1,
                        a[i] = a[j]
                 PROVE  i = j
      BY <1>1 DEF NoRepeats
    <2>1. \A k \in 1 .. Len(s) : s[k] # e
      BY <1>3 DEF Elems
    <2> QED
      BY <1>1, <1>3, <2>1 DEF NoRepeats
  <1> QED
    BY <1>1, <1>2, <1>3

(* list_push: the new element joins at the front, once. *)
LEMMA PushElems ==
    ASSUME NEW T, NEW s \in Seq(T), NEW e \in T
    PROVE  /\ <<e>> \o s \in Seq(T)
           /\ Elems(<<e>> \o s) = Elems(s) \cup {e}
           /\ NoRepeats(s) /\ e \notin Elems(s) => NoRepeats(<<e>> \o s)
  <1> DEFINE a == <<e>> \o s
  <1>1. /\ a \in Seq(T)
        /\ Len(a) = Len(s) + 1
        /\ a[1] = e
        /\ \A i \in 2 .. Len(s) + 1 : a[i] = s[i - 1]
        /\ Len(s) \in Nat
    OBVIOUS
  <1>2. Elems(a) = Elems(s) \cup {e}
    <2>1. ASSUME NEW x \in Elems(a) PROVE x \in Elems(s) \cup {e}
      <3>1. PICK i \in 1 .. Len(s) + 1 : x = a[i]
        BY <1>1, <2>1 DEF Elems
      <3>2. CASE i = 1
        BY <1>1, <3>1, <3>2
      <3>3. CASE i \in 2 .. Len(s) + 1
        <4>1. i - 1 \in 1 .. Len(s) /\ x = s[i - 1]
          BY <1>1, <3>1, <3>3
        <4> QED
          BY <4>1 DEF Elems
      <3> QED
        BY <1>1, <3>2, <3>3
    <2>2. ASSUME NEW x \in Elems(s) PROVE x \in Elems(a)
      <3>1. PICK i \in 1 .. Len(s) : x = s[i]
        BY <2>2 DEF Elems
      <3>2. i + 1 \in 1 .. Len(a) /\ x = a[i + 1]
        BY <1>1, <3>1
      <3> QED
        BY <3>2 DEF Elems
    <2>3. e \in Elems(a)
      <3>1. 1 \in 1 .. Len(a) /\ e = a[1]
        BY <1>1
      <3> QED
        BY <3>1 DEF Elems
    <2> QED
      BY <2>1, <2>2, <2>3
  <1>3. ASSUME NoRepeats(s), e \notin Elems(s) PROVE NoRepeats(a)
    <2> SUFFICES ASSUME NEW i \in 1 .. Len(s) + 1, NEW j \in 1 .. Len(s) + 1,
                        a[i] = a[j]
                 PROVE  i = j
      BY <1>1 DEF NoRepeats
    <2>1. \A k \in 1 .. Len(s) : s[k] # e
      BY <1>3 DEF Elems
    <2>2. i \in 2 .. Len(s) + 1 => i - 1 \in 1 .. Len(s)
      BY <1>1
    <2>3. j \in 2 .. Len(s) + 1 => j - 1 \in 1 .. Len(s)
      BY <1>1
    <2> QED
      BY <1>1, <1>3, <2>1, <2>2, <2>3 DEF NoRepeats
  <1> QED
    BY <1>1, <1>2, <1>3

(* list_pop: the first element, and only it, leaves the list. *)
LEMMA PopElems ==
    ASSUME NEW T, NEW s \in Seq(T), s # <<>>, NoRepeats(s)
    PROVE  /\ Head(s) \in T
           /\ Head(s) \in Elems(s)
           /\ Tail(s) \in Seq(T)
           /\ Elems(Tail(s)) = Elems(s) \ {Head(s)}
           /\ NoRepeats(Tail(s))
  <1> DEFINE a == Tail(s)
  <1>1. /\ Len(s) \in Nat /\ Len(s) >= 1
        /\ Head(s) = s[1]
        /\ Head(s) \in T
        /\ a \in Seq(T)
        /\ Len(a) = Len(s) - 1
        /\ \A i \in 1 .. Len(s) - 1 : a[i] = s[i + 1]
    OBVIOUS
  <1>2. Head(s) \in Elems(s)
    BY <1>1 DEF Elems
  <1>3. Elems(a) = Elems(s) \ {Head(s)}
    <2>1. ASSUME NEW x \in Elems(a) PROVE x \in Elems(s) \ {Head(s)}
      <3>1. PICK i \in 1 .. Len(s) - 1 : x = a[i]
        BY <1>1, <2>1 DEF Elems
      <3>2. i + 1 \in 1 .. Len(s) /\ x = s[i + 1] /\ i + 1 # 1
        BY <1>1, <3>1
      <3> QED
        BY <1>1, <3>2 DEF Elems, NoRepeats
    <2>2. ASSUME NEW x \in Elems(s) \ {Head(s)} PROVE x \in Elems(a)
      <3>1. PICK i \in 1 .. Len(s) : x = s[i]
        BY <2>2 DEF Elems
      <3>2. i # 1
        BY <1>1, <2>2, <3>1
      <3>3. i - 1 \in 1 .. Len(a) /\ x = a[i - 1]
        BY <1>1, <3>1, <3>2
      <3> QED
        BY <3>3 DEF Elems
    <2> QED
      BY <2>1, <2>2
  <1>4. NoRepeats(a)
    <2> SUFFICES ASSUME NEW i \in 1 .. Len(s) - 1, NEW j \in 1 .. Len(s) - 1,
                        a[i] = a[j]
                 PROVE  i = j
      BY <1>1 DEF NoRepeats
    <2>1. i + 1 \in 1 .. Len(s) /\ j + 1 \in 1 .. Len(s) /\ s[i + 1] = s[j + 1]
      BY <1>1
    <2> QED
      BY <1>1, <2>1 DEF NoRepeats
  <1> QED
    BY <1>1, <1>2, <1>3, <1>4

Runnable == {"TASK_READY", "TASK_RUNNING"}

(* The part of SchedInv that every scheduler operation has to restore.     *)
CoreInv ==
    /\ cur \in Threads
    /\ status \in [Threads -> Statuses]
    /\ ready \in Seq(Threads)
    /\ ReadyListExact
    /\ OneRunning
    /\ IdleAvailable
    /\ panic = FALSE

(* What schedule() establishes once the caller has a status other than     *)
(* TASK_RUNNING and the ready list matches the statuses.                   *)
LEMMA DispatchEstablishes ==
    ASSUME NEW rd \in Seq(Threads), NEW st \in [Threads -> Statuses],
           NoRepeats(rd),
           Elems(rd) = {t \in Threads : st[t] = "TASK_READY"},
           \A t \in Threads : st[t] # "TASK_RUNNING",
           st[Idle] \in {"TASK_READY", "TASK_BLOCKED"},
           Dispatch(rd, st, TRUE)
    PROVE  /\ CoreInv'
           /\ \A t \in Threads : status'[t] = "TASK_DIED" <=> st[t] = "TASK_DIED"
           /\ \A t \in Threads \ {Idle} :
                 status'[t] = st[t] \/ (st[t] = "TASK_READY" /\ status'[t] = "TASK_RUNNING")
  <1> USE SchedAssumption
  <1> DEFINE run == IF rd = <<>> THEN <<Idle>> ELSE rd
  <1>1. /\ cur' = Head(run)
        /\ ready' = Tail(run)
        /\ status' = [st EXCEPT ![Head(run)] = "TASK_RUNNING"]
        /\ panic' = ~(TRUE /\ (rd = <<>> => st[Idle] \in Sleeping))
    BY DEF Dispatch
  <1>2. CASE rd = <<>>
    <2>1. run = <<Idle>> /\ Head(run) = Idle /\ Tail(run) = <<>>
      BY <1>2
    <2>2. Elems(rd) = {} /\ Elems(Tail(run)) = {} /\ NoRepeats(Tail(run))
      BY <1>2, <2>1 DEF Elems, NoRepeats
    <2>3. st[Idle] = "TASK_BLOCKED"
      BY <2>2
    <2>4. panic' = FALSE
      BY <1>1, <2>3 DEF Sleeping
    <2>5. /\ cur' = Idle /\ ready' = <<>>
          /\ status' = [st EXCEPT ![Idle] = "TASK_RUNNING"]
      BY <1>1, <2>1
    <2>6. status' \in [Threads -> Statuses] /\ ready' \in Seq(Threads)
      BY <2>5 DEF Statuses
    <2>7. /\ status'[Idle] = "TASK_RUNNING"
          /\ \A t \in Threads \ {Idle} : status'[t] = st[t]
      BY <2>5
    <2>8. ReadyListExact'
      BY <2>1, <2>2, <2>5, <2>7 DEF ReadyListExact
    <2>9. OneRunning' /\ IdleAvailable'
      BY <2>5, <2>7 DEF OneRunning, IdleAvailable
    <2> QED
      BY <2>3, <2>4, <2>5, <2>6, <2>7, <2>8, <2>9 DEF CoreInv
  <1>3. CASE rd # <<>>
    <2>1. run = rd
      BY <1>3
    <2>2. /\ Head(rd) \in Threads
          /\ Head(rd) \in Elems(rd)
          /\ Tail(rd) \in Seq(Threads)
          /\ Elems(Tail(rd)) = Elems(rd) \ {Head(rd)}
          /\ NoRepeats(Tail(rd))
      BY <1>3, PopElems
    <2>3. /\ cur' = Head(rd) /\ ready' = Tail(rd)
          /\ status' = [st EXCEPT ![Head(rd)] = "TASK_RUNNING"]
          /\ panic' = FALSE
      BY <1>1, <1>3, <2>1
    <2>4. status' \in [Threads -> Statuses]
      BY <2>2, <2>3 DEF Statuses
    <2>5. /\ status'[Head(rd)] = "TASK_RUNNING"
          /\ \A t \in Threads \ {Head(rd)} : status'[t] = st[t]
          /\ st[Head(rd)] = "TASK_READY"
      BY <2>2, <2>3
    <2>6. ReadyListExact'
      BY <2>2, <2>3, <2>5 DEF ReadyListExact
    <2>7. OneRunning' /\ IdleAvailable'
      BY <2>2, <2>3, <2>5 DEF OneRunning, IdleAvailable
    <2> QED
      BY <2>2, <2>3, <2>4, <2>5, <2>6, <2>7 DEF CoreInv
  <1> QED
    BY <1>2, <1>3

(* thread_unblock on a thread that sleeps. *)
LEMMA UnblockEstablishes ==
    ASSUME SchedInv, NEW t \in Threads, status[t] \in Sleeping,
           ThreadUnblock(t, TRUE), UNCHANGED cur
    PROVE  /\ CoreInv'
           /\ \A u \in Threads : status'[u] = "TASK_DIED" <=> status[u] = "TASK_DIED"
  <1> USE SchedAssumption
  <1>1. /\ ready \in Seq(Threads) /\ status \in [Threads -> Statuses]
        /\ NoRepeats(ready)
        /\ Elems(ready) = {u \in Threads : status[u] = "TASK_READY"}
    BY DEF SchedInv, TypeOK, ReadyListExact
  <1>2. t \notin Elems(ready) /\ status[t] # "TASK_RUNNING" /\ status[t] # "TASK_DIED"
    BY <1>1 DEF Sleeping
  <1>3. /\ ready' = <<t>> \o ready
        /\ status' = [status EXCEPT ![t] = "TASK_READY"]
        /\ panic' = FALSE
    BY <1>2 DEF ThreadUnblock
  <1>4. /\ ready' \in Seq(Threads)
        /\ Elems(ready') = Elems(ready) \cup {t}
        /\ NoRepeats(ready')
    BY <1>1, <1>2, <1>3, PushElems
  <1>5. status'[t] = "TASK_READY" /\ \A u \in Threads \ {t} : status'[u] = status[u]
    BY <1>1, <1>3
  <1>6. status' \in [Threads -> Statuses]
    BY <1>1, <1>3 DEF Statuses
  <1>7. ReadyListExact'
    BY <1>1, <1>4, <1>5 DEF ReadyListExact
  <1>8. OneRunning' /\ IdleAvailable'
    BY <1>2, <1>5 DEF SchedInv, OneRunning, IdleAvailable
  <1> QED
    BY <1>2, <1>3, <1>4, <1>5, <1>6, <1>7, <1>8 DEF CoreInv, SchedInv, TypeOK

(* schedule() and thread_yield() of a running thread, and thread_block().  *)
LEMMA RequeueEstablishes ==
    ASSUME SchedInv,
           Dispatch(Append(ready, cur), [status EXCEPT ![cur] = "TASK_READY"],
                    cur \notin Elems(ready))
    PROVE  /\ CoreInv'
           /\ \A u \in Threads : status'[u] = "TASK_DIED" <=> status[u] = "TASK_DIED"
           /\ \A u \in Threads \ {Idle} : \/ status'[u] = status[u]
                                          \/ {status[u], status'[u]} \subseteq Runnable
  <1> USE SchedAssumption
  <1> DEFINE rd == Append(ready, cur)
             st == [status EXCEPT ![cur] = "TASK_READY"]
  <1>1. /\ ready \in Seq(Threads) /\ status \in [Threads -> Statuses]
        /\ cur \in Threads
        /\ NoRepeats(ready)
        /\ Elems(ready) = {u \in Threads : status[u] = "TASK_READY"}
        /\ status[cur] = "TASK_RUNNING"
    BY DEF SchedInv, TypeOK, ReadyListExact, OneRunning
  <1>2. cur \notin Elems(ready)
    BY <1>1
  <1>3. rd \in Seq(Threads) /\ Elems(rd) = Elems(ready) \cup {cur} /\ NoRepeats(rd)
    BY <1>1, <1>2, AppendElems
  <1>4. st \in [Threads -> Statuses]
    BY <1>1 DEF Statuses
  <1>5. st[cur] = "TASK_READY" /\ \A u \in Threads \ {cur} : st[u] = status[u]
    BY <1>1
  <1>6. Elems(rd) = {u \in Threads : st[u] = "TASK_READY"}
    BY <1>1, <1>3, <1>5
  <1>7. \A u \in Threads : st[u] # "TASK_RUNNING"
    BY <1>5 DEF SchedInv, OneRunning
  <1>8. st[Idle] \in {"TASK_READY", "TASK_BLOCKED"}
    BY <1>5, <1>7 DEF SchedInv, IdleAvailable
  <1>9. Dispatch(rd, st, TRUE)
    BY <1>2 DEF Dispatch
  <1> HIDE DEF rd, st
  <1>10. /\ CoreInv'
         /\ \A u \in Threads : status'[u] = "TASK_DIED" <=> st[u] = "TASK_DIED"
         /\ \A u \in Threads \ {Idle} :
              status'[u] = st[u] \/ (st[u] = "TASK_READY" /\ status'[u] = "TASK_RUNNING")
    BY <1>3, <1>4, <1>6, <1>7, <1>8, <1>9, DispatchEstablishes
  <1> QED
    BY <1>1, <1>5, <1>10 DEF Runnable

LEMMA SleepEstablishes ==
    ASSUME SchedInv, NEW stat \in Sleeping,
           cur = Idle => stat = "TASK_BLOCKED",
           Dispatch(ready, [status EXCEPT ![cur] = stat], TRUE)
    PROVE  /\ CoreInv'
           /\ \A u \in Threads : status'[u] = "TASK_DIED" <=> status[u] = "TASK_DIED"
           /\ \A u \in Threads \ {Idle, cur} : \/ status'[u] = status[u]
                                               \/ {status[u], status'[u]} \subseteq Runnable
           /\ cur # Idle => status'[cur] = stat
  <1> USE SchedAssumption
  <1> DEFINE st == [status EXCEPT ![cur] = stat]
  <1>1. /\ ready \in Seq(Threads) /\ status \in [Threads -> Statuses]
        /\ cur \in Threads
        /\ NoRepeats(ready)
        /\ Elems(ready) = {u \in Threads : status[u] = "TASK_READY"}
        /\ status[cur] = "TASK_RUNNING"
    BY DEF SchedInv, TypeOK, ReadyListExact, OneRunning
  <1>2. stat # "TASK_READY" /\ stat # "TASK_RUNNING" /\ stat # "TASK_DIED"
    BY DEF Sleeping
  <1>3. st \in [Threads -> Statuses]
    BY <1>1 DEF Statuses
  <1>4. st[cur] = stat /\ \A u \in Threads \ {cur} : st[u] = status[u]
    BY <1>1
  <1>5. Elems(ready) = {u \in Threads : st[u] = "TASK_READY"}
    BY <1>1, <1>2, <1>4
  <1>6. \A u \in Threads : st[u] # "TASK_RUNNING"
    BY <1>2, <1>4 DEF SchedInv, OneRunning
  <1>7. st[Idle] \in {"TASK_READY", "TASK_BLOCKED"}
    BY <1>1, <1>4, <1>6 DEF SchedInv, IdleAvailable
  <1>8. Dispatch(ready, st, TRUE)
    OBVIOUS
  <1> HIDE DEF st
  <1>9. /\ CoreInv'
        /\ \A u \in Threads : status'[u] = "TASK_DIED" <=> st[u] = "TASK_DIED"
        /\ \A u \in Threads \ {Idle} :
             status'[u] = st[u] \/ (st[u] = "TASK_READY" /\ status'[u] = "TASK_RUNNING")
    BY <1>1, <1>3, <1>5, <1>6, <1>7, <1>8, DispatchEstablishes
  <1> QED
    BY <1>1, <1>2, <1>4, <1>9 DEF Runnable

(* Init: main runs, init and idle are ready. *)
LEMMA InitInv == Init => SchedInv
  <1> SUFFICES ASSUME Init PROVE SchedInv
    OBVIOUS
  <1> USE SchedAssumption
  <1>1. /\ Len(ready) = 2 /\ ready[1] = First /\ ready[2] = Idle
        /\ ready \in Seq(Threads)
    BY DEF Init
  <1>2. Elems(ready) = {First, Idle}
    BY <1>1 DEF Elems
  <1>3. NoRepeats(ready)
    BY <1>1 DEF NoRepeats
  <1>4. TypeOK
    BY <1>1 DEF Init, TypeOK, Statuses, Sleeping
  <1>5. \A t \in Threads : /\ status[t] = "TASK_RUNNING" <=> t = Main
                           /\ status[t] = "TASK_READY" <=> t \in {First, Idle}
                           /\ status[t] = "TASK_DIED" <=> t \notin {First, Idle, Main}
    BY DEF Init
  <1>6. ReadyListExact
    BY <1>2, <1>3, <1>5 DEF ReadyListExact
  <1>7. OneRunning /\ IdleAvailable /\ AllListLive /\ NoPanic
    BY <1>5 DEF Init, OneRunning, IdleAvailable, AllListLive, NoPanic
  <1> QED
    BY <1>4, <1>6, <1>7 DEF SchedInv

(* Every step of the scheduler keeps SchedInv. *)
LEMMA NextInv == SchedInv /\ [Next]_schedVars => SchedInv'
  <1> SUFFICES ASSUME SchedInv, [Next]_schedVars PROVE SchedInv'
    OBVIOUS
  <1> USE SchedAssumption
  <1>0. /\ TypeOK /\ ReadyListExact /\ AllListLive /\ OneRunning /\ IdleAvailable
        /\ panic = FALSE
        /\ CoreInv
    BY DEF SchedInv, TypeOK, NoPanic, CoreInv
  <1>1. CASE Timer
    <2>1. CASE ticks[cur] = 0 /\ SchedulePreempted
      <3>1. /\ CoreInv'
            /\ \A u \in Threads : status'[u] = "TASK_DIED" <=> status[u] = "TASK_DIED"
        BY <2>1, RequeueEstablishes DEF SchedulePreempted
      <3>2. ticks' \in [Threads -> Nat] /\ intr' = intr /\ all' = all
        BY <1>0, <1>1, <2>1 DEF SchedulePreempted, TypeOK, Timer
      <3>3. idlepc' \in {"block", "awake", "hlt"}
        BY <1>0, <1>1 DEF Timer, LeaveHlt, TypeOK
      <3> QED
        BY <1>0, <3>1, <3>2, <3>3 DEF SchedInv, CoreInv, TypeOK, NoPanic, AllListLive
    <2>2. CASE /\ ticks[cur] > 0
               /\ ticks' = [ticks EXCEPT ![cur] = @ - 1]
               /\ UNCHANGED <<cur, status, ready, panic>>
      <3>1. ticks' \in [Threads -> Nat] /\ intr' = intr /\ all' = all
        BY <1>0, <1>1, <2>2 DEF TypeOK, Timer
      <3>2. idlepc' \in {"block", "awake", "hlt"}
        BY <1>0, <1>1 DEF Timer, LeaveHlt, TypeOK
      <3> QED
        BY <1>0, <2>2, <3>1, <3>2
        DEF SchedInv, TypeOK, NoPanic, AllListLive, ReadyListExact, OneRunning,
            IdleAvailable
    <2> QED
      BY <1>1, <2>1, <2>2 DEF Timer
  <1>2. ASSUME NEW t \in Threads, DeviceIntr(t) PROVE SchedInv'
    <2>1. /\ CoreInv'
          /\ \A u \in Threads : status'[u] = "TASK_DIED" <=> status[u] = "TASK_DIED"
      BY <1>2, UnblockEstablishes DEF DeviceIntr, Sleeping
    <2>2. idlepc' \in {"block", "awake", "hlt"}
      BY <1>0, <1>2 DEF DeviceIntr, LeaveHlt, TypeOK
    <2>3. UNCHANGED <<all, ticks, intr>>
      BY <1>2 DEF DeviceIntr
    <2> QED
      BY <1>0, <2>1, <2>2, <2>3 DEF SchedInv, CoreInv, TypeOK, NoPanic, AllListLive
  <1>3. ASSUME NEW t \in Threads, CallUnblock(t) PROVE SchedInv'
    <2>1. /\ CoreInv'
          /\ \A u \in Threads : status'[u] = "TASK_DIED" <=> status[u] = "TASK_DIED"
      BY <1>3, UnblockEstablishes DEF CallUnblock, Sleeping
    <2>2. UNCHANGED <<all, ticks, intr, idlepc>>
      BY <1>3 DEF CallUnblock
    <2> QED
      BY <1>0, <2>1, <2>2 DEF SchedInv, CoreInv, TypeOK, NoPanic, AllListLive
  <1>4. CASE IdleBlock
    <2>1. Dispatch(ready, [status EXCEPT ![cur] = "TASK_BLOCKED"], TRUE)
      BY <1>4 DEF IdleBlock, ThreadBlock, Sleeping
    <2>2. /\ CoreInv'
          /\ \A u \in Threads : status'[u] = "TASK_DIED" <=> status[u] = "TASK_DIED"
      BY <2>1, SleepEstablishes DEF Sleeping
    <2>3. UNCHANGED <<all, intr, ticks>> /\ idlepc' = "awake"
      BY <1>4 DEF IdleBlock, ThreadBlock
    <2> QED
      BY <1>0, <2>2, <2>3 DEF SchedInv, CoreInv, TypeOK, NoPanic, AllListLive
  <1>5. ASSUME NEW stat \in Sleeping, CallBlock(stat) PROVE SchedInv'
    <2>1. Dispatch(ready, [status EXCEPT ![cur] = stat], TRUE) /\ cur # Idle
      BY <1>5 DEF CallBlock, ThreadBlock
    <2>2. /\ CoreInv'
          /\ \A u \in Threads : status'[u] = "TASK_DIED" <=> status[u] = "TASK_DIED"
      BY <2>1, SleepEstablishes
    <2>3. UNCHANGED <<all, intr, ticks, idlepc>>
      BY <1>5 DEF CallBlock, ThreadBlock
    <2> QED
      BY <1>0, <2>2, <2>3 DEF SchedInv, CoreInv, TypeOK, NoPanic, AllListLive
  <1>6. CASE CallYield
    <2>1. /\ CoreInv'
          /\ \A u \in Threads : status'[u] = "TASK_DIED" <=> status[u] = "TASK_DIED"
      BY <1>6, RequeueEstablishes DEF CallYield, ThreadYield
    <2>2. UNCHANGED <<all, intr, ticks, idlepc>>
      BY <1>6 DEF CallYield, ThreadYield
    <2> QED
      BY <1>0, <2>1, <2>2 DEF SchedInv, CoreInv, TypeOK, NoPanic, AllListLive
  <1>7. ASSUME NEW t \in Threads, Start(t) PROVE SchedInv'
    <2>1. t \notin Elems(ready) /\ t # cur
      BY <1>0, <1>7 DEF Start, ReadyListExact, OneRunning
    <2>2. /\ ready' = Append(ready, t)
          /\ status' = [status EXCEPT ![t] = "TASK_READY"]
          /\ panic' = FALSE
          /\ all' = all \cup {t}
          /\ UNCHANGED <<cur, idlepc>>
      BY <1>7, <2>1 DEF Start
    <2>3. ready' \in Seq(Threads) /\ Elems(ready') = Elems(ready) \cup {t} /\ NoRepeats(ready')
      BY <1>0, <2>1, <2>2, AppendElems DEF TypeOK, ReadyListExact
    <2>4. status'[t] = "TASK_READY" /\ \A u \in Threads \ {t} : status'[u] = status[u]
      BY <1>0, <2>2 DEF TypeOK
    <2>5. /\ ticks' \in [Threads -> Nat]
          /\ intr' \in [Threads -> BOOLEAN]
          /\ status' \in [Threads -> Statuses]
      BY <1>0, <1>7 DEF Start, TypeOK, Statuses
    <2>6. TypeOK' /\ NoPanic'
      BY <1>0, <2>2, <2>3, <2>5 DEF TypeOK, NoPanic
    <2>7. ReadyListExact'
      BY <1>0, <2>3, <2>4 DEF ReadyListExact
    <2>8. AllListLive' /\ OneRunning' /\ IdleAvailable'
      BY <1>0, <2>1, <2>2, <2>4 DEF AllListLive, OneRunning, IdleAvailable
    <2> QED
      BY <2>6, <2>7, <2>8 DEF SchedInv
  <1>8. CASE ExitMain
    <2> DEFINE st == [status EXCEPT ![Main] = "TASK_DIED"]
    <2>1. cur = Main /\ status[Main] = "TASK_RUNNING" /\ Main \notin Elems(ready)
      BY <1>0, <1>8 DEF ExitMain, OneRunning, ReadyListExact
    <2>2. Dispatch(ready, st, TRUE)
      BY <1>8, <2>1 DEF ExitMain, RemoveIfFound
    <2>3. st[Main] = "TASK_DIED" /\ \A u \in Threads \ {Main} : st[u] = status[u]
      BY <1>0 DEF TypeOK
    <2>4. st \in [Threads -> Statuses]
      BY <1>0 DEF TypeOK, Statuses
    <2>5. Elems(ready) = {u \in Threads : st[u] = "TASK_READY"} /\ NoRepeats(ready)
      BY <1>0, <2>1, <2>3 DEF ReadyListExact
    <2>6. \A u \in Threads : st[u] # "TASK_RUNNING"
      BY <1>0, <2>1, <2>3 DEF OneRunning
    <2>7. st[Idle] \in {"TASK_READY", "TASK_BLOCKED"}
      BY <1>0, <2>3, <2>6 DEF IdleAvailable
    <2> HIDE DEF st
    <2>8. /\ CoreInv'
          /\ \A u \in Threads : status'[u] = "TASK_DIED" <=> st[u] = "TASK_DIED"
      BY <1>0, <2>2, <2>4, <2>5, <2>6, <2>7, DispatchEstablishes DEF TypeOK
    <2>9. /\ all' = all \ {Main}
          /\ intr' \in [Threads -> BOOLEAN]
          /\ UNCHANGED <<ticks, idlepc>>
      BY <1>0, <1>8 DEF ExitMain, TypeOK
    <2>10. AllListLive'
      BY <1>0, <2>3, <2>8, <2>9 DEF AllListLive
    <2> QED
      BY <1>0, <2>8, <2>9, <2>10 DEF SchedInv, CoreInv, TypeOK, NoPanic
  <1>9. ASSUME NEW t \in Threads, Reap(t) PROVE SchedInv'
    <2>1. t \notin Elems(ready) /\ t # cur /\ t # Idle
      BY <1>0, <1>9 DEF Reap, ReadyListExact, OneRunning, IdleAvailable
    <2>2. /\ status' = [status EXCEPT ![t] = "TASK_DIED"]
          /\ all' = all \ {t}
          /\ UNCHANGED <<cur, ready, ticks, intr, idlepc, panic>>
      BY <1>9, <2>1 DEF Reap, RemoveIfFound
    <2>3. status'[t] = "TASK_DIED" /\ \A u \in Threads \ {t} : status'[u] = status[u]
      BY <1>0, <2>2 DEF TypeOK
    <2>4. TypeOK' /\ NoPanic'
      BY <1>0, <2>2 DEF TypeOK, NoPanic, Statuses
    <2>5. ReadyListExact'
      BY <1>0, <1>9, <2>2, <2>3 DEF ReadyListExact, Reap
    <2>6. AllListLive' /\ OneRunning' /\ IdleAvailable'
      BY <1>0, <2>1, <2>2, <2>3 DEF AllListLive, OneRunning, IdleAvailable
    <2> QED
      BY <2>4, <2>5, <2>6 DEF SchedInv
  <1>10. CASE IdleHalt
    BY <1>0, <1>10 DEF IdleHalt, SchedInv, TypeOK, NoPanic, ReadyListExact, AllListLive,
                       OneRunning, IdleAvailable
  <1>11. CASE EnterKernel \/ LeaveKernel
    <2>1. intr' \in [Threads -> BOOLEAN]
      BY <1>0, <1>11 DEF EnterKernel, LeaveKernel, TypeOK
    <2>2. UNCHANGED <<cur, status, ready, all, ticks, idlepc, panic>>
      BY <1>11 DEF EnterKernel, LeaveKernel
    <2> QED
      BY <1>0, <2>1, <2>2 DEF SchedInv, TypeOK, NoPanic, ReadyListExact, AllListLive,
                              OneRunning, IdleAvailable
  <1>12. CASE UNCHANGED schedVars
    BY <1>0, <1>12 DEF schedVars, SchedInv, TypeOK, NoPanic, ReadyListExact, AllListLive,
                       OneRunning, IdleAvailable
  <1> QED
    BY <1>1, <1>2, <1>3, <1>4, <1>5, <1>6, <1>7, <1>8, <1>9, <1>10, <1>11, <1>12
    DEF Next

(* For any number of threads and any priorities, no ASSERT of the          *)
(* scheduler fails, the ready list is exact and the idle thread can be     *)
(* taken whenever nobody else can run (thread.c:174-243, 334-362).         *)
THEOREM SchedulerInvariant == Spec => []SchedInv
  <1>1. Init => SchedInv
    BY InitInv
  <1>2. SchedInv /\ [Next]_schedVars => SchedInv'
    BY NextInv
  <1> QED
    BY <1>1, <1>2, PTL DEF Spec

(* Type correctness of the scheduler's state. *)
THEOREM SchedulerTypes == Spec => []TypeOK
  <1>1. SchedInv => TypeOK
    BY DEF SchedInv
  <1> QED
    BY <1>1, SchedulerInvariant, PTL

(* schedule(), thread_block, thread_unblock and thread_yield never fail    *)
(* one of their ASSERTs.                                                   *)
THEOREM SchedulerNeverPanics == Spec => []NoPanic
  <1>1. SchedInv => NoPanic
    BY DEF SchedInv
  <1> QED
    BY <1>1, SchedulerInvariant, PTL

(* The ready list holds every ready thread exactly once, and only those.   *)
THEOREM SchedulerReadyList == Spec => []ReadyListExact
  <1>1. SchedInv => ReadyListExact
    BY DEF SchedInv
  <1> QED
    BY <1>1, SchedulerInvariant, PTL

(* thread_all_list holds exactly the threads whose PCB is in use, so the   *)
(* searches over it never read a freed one.                                *)
THEOREM SchedulerAllList == Spec => []AllListLive
  <1>1. SchedInv => AllListLive
    BY DEF SchedInv
  <1> QED
    BY <1>1, SchedulerInvariant, PTL

----------------------------------------------------------------------------
(* mtime_sleep is built from the operations of the scheduler alone, so     *)
(* what is proved of it holds while threads sleep.                         *)

(* Every step of the system with sleeping threads (ticks_to_sleep,         *)
(* timer.c:56) is a step of the scheduler or leaves it alone.              *)
LEMMA SleepStepIsSchedStep == [SleepNext]_sleepVars => [Next]_schedVars
<1> SUFFICES ASSUME [SleepNext]_sleepVars PROVE [Next]_schedVars
  OBVIOUS
<1>1. CASE ClockTick
  BY <1>1 DEF ClockTick, Next
<1>2. CASE SleepYield
  BY <1>2 DEF SleepYield, Next
<1>3. CASE OtherStep
  BY <1>3 DEF OtherStep, Next
<1>4. CASE DeviceStep
  BY <1>4 DEF DeviceStep, Next
<1>5. ASSUME NEW n \in 1 .. MaxSleep, SleepCall(n) PROVE [Next]_schedVars
  BY <1>5 DEF SleepCall
<1>6. CASE UNCHANGED sleepVars
  BY <1>6 DEF sleepVars
<1> QED
  BY <1>1, <1>2, <1>3, <1>4, <1>5, <1>6 DEF SleepNext

(* The scheduler with sleeping threads implements the scheduler alone:     *)
(* mtime_sleep (timer.c:65) needs nothing but thread_yield.                *)
THEOREM SleepImplementsSched == SleepSpec => Spec
<1>1. SleepInit => Init
  BY DEF SleepInit
<1> QED
  BY <1>1, SleepStepIsSchedStep, PTL DEF SleepSpec, Spec

(* The thread lists stay exact and no ASSERT of the scheduler fails while  *)
(* threads sleep.                                                          *)
THEOREM SleepKeepsScheduler == SleepSpec => [](NoPanic /\ ReadyListExact /\ AllListLive)
<1>1. SchedInv => NoPanic /\ ReadyListExact /\ AllListLive
  BY DEF SchedInv
<1> QED
  BY <1>1, SleepImplementsSched, SchedulerInvariant, PTL

----------------------------------------------------------------------------
(* The lock.                                                               *)

(* A step that leaves the lock alone keeps SyncInv when the scheduler's    *)
(* invariant holds after it and threads in the loop of sema_down keep their*)
(* status or stay runnable.                                                *)
LEMMA LockUntouched ==
    ASSUME SyncInv, SchedInv', UNCHANGED <<lockVars, pc>>,
           \A u \in Threads : pc[u] = "retry" =>
               status'[u] = status[u] \/ {status[u], status'[u]} \subseteq Runnable
    PROVE  SyncInv'
  <1>1. UNCHANGED <<value, waiters, holder, repeat, pc>>
    BY DEF lockVars
  <1>2. SyncTypeOK' /\ MutualExclusion' /\ ValueExact' /\ HolderExact' /\ RepeatExact'
    BY <1>1 DEF SyncInv, SchedInv, SyncTypeOK, MutualExclusion, ValueExact, HolderExact,
                RepeatExact
  <1>3. TagInOneList'
    <2>1. NoRepeats(waiters')
      BY <1>1 DEF SyncInv, TagInOneList
    <2>2. ASSUME NEW t \in Elems(waiters)
          PROVE  /\ t \notin Elems(ready')
                 /\ status'[t] = "TASK_BLOCKED"
                 /\ pc'[t] = "retry"
      <3>1. t \in Threads
        BY <2>2 DEF SyncInv, SyncTypeOK, Elems
      <3>2. pc[t] = "retry" /\ status[t] = "TASK_BLOCKED"
        BY DEF SyncInv, TagInOneList
      <3>3. status'[t] = "TASK_BLOCKED"
        BY <3>1, <3>2 DEF Runnable
      <3> QED
        BY <1>1, <3>1, <3>2, <3>3 DEF SchedInv, ReadyListExact
    <2> QED
      BY <1>1, <2>1, <2>2 DEF TagInOneList
  <1>4. RetryRuns'
    BY <1>1 DEF SyncInv, RetryRuns, Runnable
  <1>5. NoLostWakeup'
    BY <1>1 DEF SyncInv, NoLostWakeup, Runnable
  <1> QED
    BY <1>1, <1>2, <1>3, <1>4, <1>5 DEF SyncInv

(* A statement outside the scheduler whose ASSERTs hold. *)
LEMMA StatementKeeps ==
    ASSUME SchedInv, NEW ok, ok, Statement(ok)
    PROVE  SchedInv' /\ UNCHANGED <<cur, status, ready>>
  <1>1. panic' = FALSE /\ UNCHANGED <<cur, status, ready, all, ticks, intr, idlepc>>
    BY DEF Statement
  <1> QED
    BY <1>1 DEF SchedInv, TypeOK, NoPanic, ReadyListExact, AllListLive, OneRunning,
                IdleAvailable

LEMMA SyncInitInv == SyncInit => SyncInv
  <1> SUFFICES ASSUME SyncInit PROVE SyncInv
    OBVIOUS
  <1> USE SchedAssumption, SyncAssumption
  <1>1. SchedInv
    BY InitInv DEF SyncInit
  <1>2. Elems(waiters) = {} /\ NoRepeats(waiters)
    BY DEF SyncInit, Elems, NoRepeats
  <1>3. \A t \in Threads : pc[t] = "out"
    BY DEF SyncInit
  <1>4. SyncTypeOK
    BY <1>1 DEF SyncInit, SyncTypeOK, SchedInv, Places
  <1> QED
    BY <1>1, <1>2, <1>3, <1>4
    DEF SyncInit, SyncInv, MutualExclusion, ValueExact, HolderExact, RepeatExact,
        TagInOneList, RetryRuns, NoLostWakeup, Owning

(* The steps that leave the lock alone. *)
LEMMA OtherStepsInv ==
    ASSUME SyncInv,
           \/ Clock \/ IdleStep \/ WaitForDevice \/ SwitchMode
           \/ \E t \in Threads : DeviceDone(t)
           \/ \E t \in Threads : Spawn(t)
           \/ Hang
           \/ \E t \in Threads : Collect(t)
    PROVE  SyncInv'
  <1> USE SchedAssumption
  <1>0. /\ SchedInv /\ pc[Idle] = "out" /\ cur \in Threads
        /\ status \in [Threads -> Statuses] /\ status[cur] = "TASK_RUNNING"
    BY DEF SyncInv, SchedInv, TypeOK, OneRunning
  <1>1. CASE Clock
    <2>1. SchedInv'
      BY <1>0, <1>1, NextInv DEF Clock, Next
    <2>2. \A u \in Threads \ {Idle} :
              status'[u] = status[u] \/ {status[u], status'[u]} \subseteq Runnable
      BY <1>0, <1>1, RequeueEstablishes DEF Clock, Timer, SchedulePreempted
    <2> QED
      BY <1>0, <1>1, <2>1, <2>2, LockUntouched DEF Clock
  <1>2. CASE IdleStep
    <2>1. SchedInv'
      BY <1>0, <1>2, NextInv DEF IdleStep, Next
    <2>2. ASSUME IdleBlock
          PROVE  \A u \in Threads \ {Idle} :
                     status'[u] = status[u] \/ {status[u], status'[u]} \subseteq Runnable
      <3>1. cur = Idle /\ Dispatch(ready, [status EXCEPT ![cur] = "TASK_BLOCKED"], TRUE)
        BY <2>2 DEF IdleBlock, ThreadBlock, Sleeping
      <3> QED
        BY <1>0, <3>1, SleepEstablishes DEF Sleeping
    <2>3. \A u \in Threads \ {Idle} :
              status'[u] = status[u] \/ {status[u], status'[u]} \subseteq Runnable
      BY <1>2, <2>2 DEF IdleStep, IdleHalt
    <2> QED
      BY <1>0, <1>2, <2>1, <2>3, LockUntouched DEF IdleStep
  <1>3. CASE WaitForDevice
    <2>1. SchedInv'
      BY <1>0, <1>3, NextInv DEF WaitForDevice, Next, Sleeping
    <2>2. pc[cur] = "held" /\ cur # Idle
      BY <1>3 DEF WaitForDevice, At
    <2>3. Dispatch(ready, [status EXCEPT ![cur] = "TASK_BLOCKED"], TRUE)
      BY <1>3 DEF WaitForDevice, CallBlock, ThreadBlock, Sleeping
    <2>4. \A u \in Threads \ {Idle, cur} :
              status'[u] = status[u] \/ {status[u], status'[u]} \subseteq Runnable
      BY <1>0, <2>2, <2>3, SleepEstablishes DEF Sleeping
    <2> QED
      BY <1>0, <1>3, <2>1, <2>2, <2>4, LockUntouched DEF WaitForDevice
  <1>4. CASE SwitchMode
    <2>1. SchedInv'
      BY <1>0, <1>4, NextInv DEF SwitchMode, Next
    <2>2. status' = status
      BY <1>4 DEF SwitchMode, EnterKernel, LeaveKernel
    <2> QED
      BY <1>4, <2>1, <2>2, LockUntouched DEF SwitchMode
  <1>5. ASSUME NEW t \in Threads, DeviceDone(t) PROVE SyncInv'
    <2>1. SchedInv'
      BY <1>0, <1>5, NextInv DEF DeviceDone, Next
    <2>2. pc[t] = "held" /\ status' = [status EXCEPT ![t] = "TASK_READY"]
      BY <1>5 DEF DeviceDone, DeviceIntr, ThreadUnblock
    <2>3. \A u \in Threads \ {t} : status'[u] = status[u]
      BY <1>0, <2>2
    <2> QED
      BY <1>5, <2>1, <2>2, <2>3, LockUntouched DEF DeviceDone
  <1>6. ASSUME NEW t \in Threads, Spawn(t) PROVE SyncInv'
    <2>1. SchedInv'
      BY <1>0, <1>6, NextInv DEF Spawn, Next
    <2>2. /\ status[t] = "TASK_DIED"
          /\ status' = [status EXCEPT ![t] = "TASK_READY"]
          /\ UNCHANGED <<lockVars, pc>>
      BY <1>6 DEF Spawn, Start
    <2>3. pc[t] # "retry"
      <3>1. SUFFICES ASSUME pc[t] = "retry" PROVE FALSE
        OBVIOUS
      <3>2. CASE t \in Elems(waiters)
        BY <2>2, <3>2 DEF SyncInv, TagInOneList
      <3>3. CASE t \notin Elems(waiters)
        BY <2>2, <3>1, <3>3 DEF SyncInv, RetryRuns
      <3> QED
        BY <3>2, <3>3
    <2>4. \A u \in Threads \ {t} : status'[u] = status[u]
      BY <1>0, <2>2
    <2> QED
      BY <2>1, <2>2, <2>3, <2>4, LockUntouched
  <1>7. CASE Hang
    <2>1. SchedInv'
      BY <1>0, <1>7, NextInv DEF Hang, Next, Sleeping
    <2>2. pc[cur] = "out" /\ cur # Idle
      BY <1>7 DEF Hang, At
    <2>3. Dispatch(ready, [status EXCEPT ![cur] = "TASK_HANGING"], TRUE)
      BY <1>7 DEF Hang, CallBlock, ThreadBlock, Sleeping
    <2>4. \A u \in Threads \ {Idle, cur} :
              status'[u] = status[u] \/ {status[u], status'[u]} \subseteq Runnable
      BY <1>0, <2>2, <2>3, SleepEstablishes DEF Sleeping
    <2> QED
      BY <1>0, <1>7, <2>1, <2>2, <2>4, LockUntouched DEF Hang
  <1>8. ASSUME NEW t \in Threads, Collect(t) PROVE SyncInv'
    <2>1. SchedInv'
      BY <1>0, <1>8, NextInv DEF Collect, Next
    <2>2. /\ status[t] = "TASK_HANGING"
          /\ status' = [status EXCEPT ![t] = "TASK_DIED"]
          /\ UNCHANGED <<lockVars, pc>>
      BY <1>8 DEF Collect, Reap
    <2>3. pc[t] # "retry"
      BY <2>2 DEF SyncInv, TagInOneList, RetryRuns
    <2>4. \A u \in Threads \ {t} : status'[u] = status[u]
      BY <1>0, <2>2
    <2> QED
      BY <2>1, <2>2, <2>3, <2>4, LockUntouched
  <1> QED
    BY <1>1, <1>2, <1>3, <1>4, <1>5, <1>6, <1>7, <1>8

(* A step of the thread that runs to another place, which leaves the       *)
(* scheduler and the waiters alone: what stays true by that alone.         *)
LEMMA StepKeepsLists ==
    ASSUME SyncInv, SchedInv', UNCHANGED <<cur, status, ready, waiters>>,
           cur # Idle, NEW place \in Places, pc' = [pc EXCEPT ![cur] = place],
           value' = 1 /\ value = 1 => pc[cur] # "retry",
           value' = 1 => value = 1 \/ waiters = <<>>,
           value' \in Nat, holder' \in Threads \cup {NoThread}, repeat' \in Nat
    PROVE  /\ SyncTypeOK' /\ TagInOneList' /\ RetryRuns' /\ NoLostWakeup'
           /\ pc'[Idle] = "out"
           /\ pc'[cur] = place /\ \A t \in Threads \ {cur} : pc'[t] = pc[t]
  <1> USE SchedAssumption, SyncAssumption
  <1>1. cur \in Threads /\ status[cur] = "TASK_RUNNING" /\ pc \in [Threads -> Places]
    BY DEF SyncInv, SchedInv, TypeOK, OneRunning, SyncTypeOK
  <1>2. pc'[cur] = place /\ \A t \in Threads \ {cur} : pc'[t] = pc[t]
    BY <1>1
  <1>3. SyncTypeOK'
    BY <1>1 DEF SyncInv, SyncTypeOK, SchedInv
  <1>4. Elems(waiters) \subseteq Threads /\ cur \notin Elems(waiters)
    <2>1. waiters \in Seq(Threads) /\ TagInOneList
      BY DEF SyncInv, SyncTypeOK
    <2>2. Elems(waiters) \subseteq Threads
      BY <2>1 DEF Elems
    <2> QED
      BY <1>1, <2>1, <2>2 DEF TagInOneList
  <1>5. TagInOneList'
    BY <1>2, <1>4 DEF SyncInv, TagInOneList
  <1>6. RetryRuns'
    BY <1>1, <1>2 DEF SyncInv, RetryRuns
  <1>7. NoLostWakeup'
    BY <1>1, <1>2, <1>4 DEF SyncInv, NoLostWakeup
  <1>8. pc'[Idle] = "out"
    BY <1>2 DEF SyncInv
  <1> QED
    BY <1>2, <1>3, <1>5, <1>6, <1>7, <1>8

(* Every statement of lock_acquire, lock_release, sema_down and sema_up    *)
(* keeps SyncInv.                                                          *)
LEMMA LockStepInv == SyncInv /\ LockStep => SyncInv'
  <1> SUFFICES ASSUME SyncInv, LockStep PROVE SyncInv'
    OBVIOUS
  <1> USE SchedAssumption, SyncAssumption
  <1>0. /\ SchedInv /\ SyncTypeOK /\ MutualExclusion /\ ValueExact /\ HolderExact
        /\ RepeatExact /\ TagInOneList /\ RetryRuns /\ NoLostWakeup /\ pc[Idle] = "out"
        /\ cur \in Threads /\ status[cur] = "TASK_RUNNING"
        /\ value \in {0, 1} /\ holder \in Threads \cup {NoThread} /\ repeat \in Nat
        /\ pc \in [Threads -> Places] /\ waiters \in Seq(Threads)
    BY DEF SyncInv, SchedInv, TypeOK, OneRunning, SyncTypeOK, ValueExact
  <1> DEFINE Parts == /\ SyncTypeOK' /\ TagInOneList' /\ RetryRuns' /\ NoLostWakeup'
                      /\ pc'[Idle] = "out"
             Moved(place) == pc'[cur] = place /\ \A t \in Threads \ {cur} : pc'[t] = pc[t]
  <1>1. CASE AcquireTest
    <2>1. /\ cur # Idle /\ pc[cur] \in {"out", "held"}
          /\ Statement(TRUE) /\ UNCHANGED <<value, waiters, holder>>
      BY <1>1 DEF AcquireTest, At
    <2>2. SchedInv' /\ UNCHANGED <<cur, status, ready>>
      BY <1>0, <2>1, StatementKeeps
    <2>3. CASE holder # cur /\ Goto("down") /\ UNCHANGED repeat
      <3>1. pc' = [pc EXCEPT ![cur] = "down"] /\ "down" \in Places
        BY <2>3 DEF Goto, Places
      <3>2. pc[cur] = "out"
        BY <1>0, <2>1, <2>3 DEF HolderExact
      <3>3. Parts /\ Moved("down")
        <4>1. /\ value' = value /\ value' \in Nat /\ UNCHANGED waiters
              /\ holder' \in Threads \cup {NoThread} /\ repeat' \in Nat
              /\ pc[cur] # "retry" /\ cur # Idle
          BY <1>0, <2>1, <2>3, <3>2
        <4> QED
          BY <2>2, <3>1, <4>1, StepKeepsLists
      <3> QED
        BY <1>0, <2>1, <2>2, <2>3, <3>2, <3>3
        DEF SyncInv, MutualExclusion, ValueExact, HolderExact, RepeatExact, Owning
    <2>4. CASE holder = cur /\ repeat' = repeat + 1 /\ Goto("held")
      <3>1. pc' = [pc EXCEPT ![cur] = "held"] /\ "held" \in Places /\ repeat' \in Nat
        BY <1>0, <2>4 DEF Goto, Places, Owning
      <3>2. pc[cur] = "held" /\ pc' = pc
        BY <1>0, <2>1, <2>4, <3>1 DEF HolderExact
      <3>3. Parts /\ Moved("held")
        BY <1>0, <2>1, <2>2, <3>1, <3>2, StepKeepsLists
      <3>4. value = 0
        BY <1>0, <3>2 DEF ValueExact, Owning
      <3>5. RepeatExact'
        BY <1>0, <2>1, <2>4, <3>2, <3>4 DEF RepeatExact, MutualExclusion, Owning
      <3> QED
        BY <1>0, <2>1, <2>2, <3>2, <3>3, <3>5
        DEF SyncInv, MutualExclusion, ValueExact, HolderExact
    <2> QED
      BY <1>1, <2>3, <2>4 DEF AcquireTest
  <1>2. CASE SemaDownTake
    <2>1. /\ cur # Idle /\ pc[cur] \in {"down", "retry"}
          /\ value = 1 /\ value' = 0
          /\ pc' = [pc EXCEPT ![cur] = "took"]
          /\ Statement(TRUE) /\ UNCHANGED <<waiters, holder, repeat>>
      BY <1>0, <1>2 DEF SemaDownTake, At, Goto, Statement
    <2>2. SchedInv' /\ UNCHANGED <<cur, status, ready>>
      BY <1>0, <2>1, StatementKeeps
    <2>3. Parts /\ Moved("took")
      BY <1>0, <2>1, <2>2, StepKeepsLists DEF Places, Owning
    <2>4. \A t \in Threads : pc[t] \notin Owning
      BY <1>0, <2>1 DEF ValueExact
    <2>5. MutualExclusion' /\ ValueExact'
      BY <1>0, <2>1, <2>3, <2>4 DEF MutualExclusion, ValueExact, Owning
    <2>6. HolderExact' /\ RepeatExact'
      BY <1>0, <2>1, <2>3, <2>4 DEF HolderExact, RepeatExact, Owning
    <2> QED
      BY <2>2, <2>3, <2>5, <2>6 DEF SyncInv
  <1>3. CASE SemaDownWait
    <2>1. /\ cur # Idle /\ pc[cur] \in {"down", "retry"}
          /\ value = 0
          /\ waiters' = Append(waiters, cur)
          /\ pc' = [pc EXCEPT ![cur] = "retry"]
          /\ UNCHANGED <<all, ticks, intr, idlepc, value, holder, repeat>>
      BY <1>3 DEF SemaDownWait, At, Goto
    <2>2. cur \notin Elems(waiters)
      BY <1>0 DEF TagInOneList
    <2>3. Dispatch(ready, [status EXCEPT ![cur] = "TASK_BLOCKED"], TRUE)
      BY <1>3, <2>2 DEF SemaDownWait
    <2>4. /\ CoreInv'
          /\ \A u \in Threads : status'[u] = "TASK_DIED" <=> status[u] = "TASK_DIED"
          /\ \A u \in Threads \ {Idle, cur} :
                 status'[u] = status[u] \/ {status[u], status'[u]} \subseteq Runnable
          /\ status'[cur] = "TASK_BLOCKED"
      BY <1>0, <2>1, <2>3, SleepEstablishes DEF Sleeping
    <2>5. SchedInv'
      BY <1>0, <2>1, <2>4 DEF SchedInv, CoreInv, TypeOK, NoPanic, AllListLive
    <2>6. /\ waiters' \in Seq(Threads)
          /\ Elems(waiters') = Elems(waiters) \cup {cur}
          /\ NoRepeats(waiters')
      BY <1>0, <2>1, <2>2, AppendElems DEF TagInOneList
    <2>7. pc'[cur] = "retry" /\ \A t \in Threads \ {cur} : pc'[t] = pc[t]
      BY <1>0, <2>1
    <2>8. SyncTypeOK'
      BY <1>0, <2>1, <2>5, <2>6 DEF SyncTypeOK, SchedInv, Places
    <2>9. \A t \in Elems(waiters) :
              /\ t \in Threads \ {Idle, cur}
              /\ status'[t] = "TASK_BLOCKED" /\ pc'[t] = "retry"
      <3>1. SUFFICES ASSUME NEW t \in Elems(waiters)
                     PROVE  /\ t \in Threads \ {Idle, cur}
                            /\ status'[t] = "TASK_BLOCKED" /\ pc'[t] = "retry"
        OBVIOUS
      <3>2. t \in Threads /\ t # cur /\ pc[t] = "retry" /\ status[t] = "TASK_BLOCKED"
        BY <1>0, <2>2 DEF TagInOneList, Elems
      <3> QED
        BY <1>0, <2>4, <2>7, <3>2 DEF Runnable
    <2>10. TagInOneList'
      BY <1>0, <2>4, <2>5, <2>6, <2>7, <2>9 DEF TagInOneList, SchedInv, ReadyListExact
    <2>11. RetryRuns'
      BY <1>0, <2>4, <2>6, <2>7 DEF RetryRuns, Runnable
    <2>12. NoLostWakeup' /\ pc'[Idle] = "out"
      BY <1>0, <2>1, <2>7 DEF NoLostWakeup
    <2>13. MutualExclusion' /\ ValueExact' /\ HolderExact' /\ RepeatExact'
      BY <1>0, <2>1, <2>7 DEF MutualExclusion, ValueExact, HolderExact, RepeatExact, Owning
    <2> QED
      BY <2>5, <2>8, <2>10, <2>11, <2>12, <2>13 DEF SyncInv
  <1>4. CASE AcquireHolder
    <2>1. /\ cur # Idle /\ pc[cur] = "took"
          /\ holder' = cur
          /\ pc' = [pc EXCEPT ![cur] = "named"]
          /\ Statement(TRUE) /\ UNCHANGED <<value, waiters, repeat>>
      BY <1>4 DEF AcquireHolder, At, Goto
    <2>2. SchedInv' /\ UNCHANGED <<cur, status, ready>>
      BY <1>0, <2>1, StatementKeeps
    <2>3. Parts /\ Moved("named")
      BY <1>0, <2>1, <2>2, StepKeepsLists DEF Places, Owning
    <2>4. \A t \in Threads \ {cur} : pc[t] \notin Owning
      BY <1>0, <2>1 DEF MutualExclusion, Owning
    <2>5. MutualExclusion' /\ ValueExact' /\ HolderExact' /\ RepeatExact'
      BY <1>0, <2>1, <2>3, <2>4 DEF MutualExclusion, ValueExact, HolderExact, RepeatExact, Owning
    <2> QED
      BY <2>2, <2>3, <2>5 DEF SyncInv
  <1>5. CASE AcquireRepeat
    <2>1. /\ cur # Idle /\ pc[cur] = "named"
          /\ repeat = 0 /\ repeat' = 1
          /\ pc' = [pc EXCEPT ![cur] = "held"]
          /\ Statement(repeat = 0) /\ UNCHANGED <<value, waiters, holder>>
      BY <1>0, <1>5 DEF AcquireRepeat, At, Goto, RepeatExact
    <2>2. SchedInv' /\ UNCHANGED <<cur, status, ready>>
      BY <1>0, <2>1, StatementKeeps
    <2>3. Parts /\ Moved("held")
      BY <1>0, <2>1, <2>2, StepKeepsLists DEF Places, Owning
    <2>4. (\A t \in Threads \ {cur} : pc[t] \notin Owning) /\ value = 0
      BY <1>0, <2>1 DEF MutualExclusion, ValueExact, Owning
    <2>5. MutualExclusion' /\ ValueExact' /\ HolderExact' /\ RepeatExact'
      BY <1>0, <2>1, <2>3, <2>4 DEF MutualExclusion, ValueExact, HolderExact, RepeatExact, Owning
    <2> QED
      BY <2>2, <2>3, <2>5 DEF SyncInv
  <1>6. CASE ReleaseTest
    <2>1. /\ cur # Idle /\ pc[cur] = "held" /\ holder = cur /\ repeat >= 1
          /\ UNCHANGED <<value, waiters, holder>>
      BY <1>0, <1>6 DEF ReleaseTest, At, HolderExact, RepeatExact
    <2>2. (\A t \in Threads \ {cur} : pc[t] \notin Owning) /\ value = 0
      BY <1>0, <2>1 DEF MutualExclusion, ValueExact, Owning
    <2>3. CASE repeat > 1 /\ repeat' = repeat - 1 /\ Goto("held") /\ Statement(holder = cur)
      <3>1. pc' = [pc EXCEPT ![cur] = "held"] /\ repeat' \in Nat /\ repeat' >= 1
        BY <1>0, <2>3 DEF Goto
      <3>2. SchedInv' /\ UNCHANGED <<cur, status, ready>>
        BY <1>0, <2>1, <2>3, StatementKeeps
      <3>3. Parts /\ Moved("held")
        BY <1>0, <2>1, <3>1, <3>2, StepKeepsLists DEF Places, Owning
      <3>4. MutualExclusion' /\ ValueExact' /\ HolderExact' /\ RepeatExact'
        BY <1>0, <2>1, <2>2, <3>1, <3>3
        DEF MutualExclusion, ValueExact, HolderExact, RepeatExact, Owning
      <3> QED
        BY <3>2, <3>3, <3>4 DEF SyncInv
    <2>4. CASE /\ repeat <= 1 /\ Goto("drop") /\ UNCHANGED repeat
               /\ Statement(holder = cur /\ repeat = 1)
      <3>1. pc' = [pc EXCEPT ![cur] = "drop"] /\ repeat = 1
        BY <1>0, <2>1, <2>4 DEF Goto
      <3>2. SchedInv' /\ UNCHANGED <<cur, status, ready>>
        BY <1>0, <2>1, <2>4, <3>1, StatementKeeps
      <3>3. Parts /\ Moved("drop")
        BY <1>0, <2>1, <2>4, <3>1, <3>2, StepKeepsLists DEF Places, Owning
      <3>4. MutualExclusion' /\ ValueExact' /\ HolderExact' /\ RepeatExact'
        BY <1>0, <2>1, <2>2, <2>4, <3>1, <3>3
        DEF MutualExclusion, ValueExact, HolderExact, RepeatExact, Owning
      <3> QED
        BY <3>2, <3>3, <3>4 DEF SyncInv
    <2> QED
      BY <1>6, <2>3, <2>4 DEF ReleaseTest
  <1>7. CASE ReleaseHolder
    <2>1. /\ cur # Idle /\ pc[cur] = "drop"
          /\ holder' = NoThread
          /\ pc' = [pc EXCEPT ![cur] = "unnamed"]
          /\ Statement(TRUE) /\ UNCHANGED <<value, waiters, repeat>>
      BY <1>7 DEF ReleaseHolder, At, Goto
    <2>2. SchedInv' /\ UNCHANGED <<cur, status, ready>>
      BY <1>0, <2>1, StatementKeeps
    <2>3. Parts /\ Moved("unnamed")
      BY <1>0, <2>1, <2>2, StepKeepsLists DEF Places, Owning
    <2>4. \A t \in Threads \ {cur} : pc[t] \notin Owning
      BY <1>0, <2>1 DEF MutualExclusion, Owning
    <2>5. MutualExclusion' /\ ValueExact' /\ HolderExact' /\ RepeatExact'
      BY <1>0, <2>1, <2>3, <2>4 DEF MutualExclusion, ValueExact, HolderExact, RepeatExact, Owning
    <2> QED
      BY <2>2, <2>3, <2>5 DEF SyncInv
  <1>8. CASE ReleaseRepeat
    <2>1. /\ cur # Idle /\ pc[cur] = "unnamed"
          /\ repeat' = 0
          /\ pc' = [pc EXCEPT ![cur] = "up"]
          /\ Statement(TRUE) /\ UNCHANGED <<value, waiters, holder>>
      BY <1>8 DEF ReleaseRepeat, At, Goto
    <2>2. SchedInv' /\ UNCHANGED <<cur, status, ready>>
      BY <1>0, <2>1, StatementKeeps
    <2>3. Parts /\ Moved("up")
      BY <1>0, <2>1, <2>2, StepKeepsLists DEF Places, Owning
    <2>4. \A t \in Threads \ {cur} : pc[t] \notin Owning
      BY <1>0, <2>1 DEF MutualExclusion, Owning
    <2>5. MutualExclusion' /\ ValueExact' /\ HolderExact' /\ RepeatExact'
      BY <1>0, <2>1, <2>3, <2>4 DEF MutualExclusion, ValueExact, HolderExact, RepeatExact, Owning
    <2> QED
      BY <2>2, <2>3, <2>5 DEF SyncInv
  <1>9. CASE SemaUp
    <2>1. /\ cur # Idle /\ pc[cur] = "up" /\ value = 0 /\ value' = 1
          /\ pc' = [pc EXCEPT ![cur] = "out"] /\ UNCHANGED <<holder, repeat>>
      BY <1>0, <1>9 DEF SemaUp, At, Goto, ValueExact, Owning
    <2>2. /\ \A t \in Threads \ {cur} : pc[t] \notin Owning
          /\ repeat = 0
      BY <1>0, <2>1 DEF MutualExclusion, RepeatExact, Owning
    <2>3. pc'[cur] = "out" /\ \A t \in Threads \ {cur} : pc'[t] = pc[t]
      BY <1>0, <2>1
    <2>4. MutualExclusion' /\ ValueExact' /\ HolderExact' /\ RepeatExact'
      BY <1>0, <2>1, <2>2, <2>3
      DEF MutualExclusion, ValueExact, HolderExact, RepeatExact, Owning
    <2>5. CASE waiters = <<>> /\ Statement(value = 0) /\ UNCHANGED waiters
      <3>1. SchedInv' /\ UNCHANGED <<cur, status, ready>>
        BY <1>0, <2>1, <2>5, StatementKeeps
      <3>2. Parts
        BY <1>0, <2>1, <2>5, <3>1, StepKeepsLists DEF Places
      <3> QED
        BY <2>4, <3>1, <3>2 DEF SyncInv
    <2>6. CASE /\ waiters # <<>>
               /\ waiters' = Tail(waiters)
               /\ ThreadUnblock(Head(waiters), value = 0)
               /\ UNCHANGED <<cur, all, ticks, intr, idlepc>>
      <3> DEFINE first == Head(waiters)
      <3>1. /\ first \in Threads /\ first \in Elems(waiters)
            /\ waiters' \in Seq(Threads)
            /\ Elems(waiters') = Elems(waiters) \ {first}
            /\ NoRepeats(waiters')
        BY <1>0, <2>6, PopElems DEF TagInOneList
      <3>2. /\ status[first] = "TASK_BLOCKED" /\ pc[first] = "retry"
            /\ Elems(waiters) \subseteq Threads
        BY <1>0, <3>1 DEF TagInOneList, Elems
      <3>3. ThreadUnblock(first, TRUE)
        BY <2>1, <2>6 DEF ThreadUnblock
      <3>4. status' = [status EXCEPT ![first] = "TASK_READY"]
        BY <3>3 DEF ThreadUnblock
      <3>5. /\ CoreInv'
            /\ \A u \in Threads : status'[u] = "TASK_DIED" <=> status[u] = "TASK_DIED"
        BY <1>0, <2>6, <3>1, <3>2, <3>3, UnblockEstablishes DEF Sleeping
      <3>6. SchedInv'
        BY <1>0, <2>6, <3>5 DEF SchedInv, CoreInv, TypeOK, NoPanic, AllListLive
      <3>7. status'[first] = "TASK_READY" /\ \A u \in Threads \ {first} : status'[u] = status[u]
        BY <1>0, <3>1, <3>4 DEF SchedInv, TypeOK
      <3>8. first # cur /\ pc'[first] = "retry"
        BY <1>0, <2>3, <3>1, <3>2
      <3>9. SyncTypeOK'
        BY <1>0, <2>1, <3>1, <3>6 DEF SyncTypeOK, SchedInv, Places
      <3>10. TagInOneList'
        <4>1. \A t \in Elems(waiters') : /\ t \in Threads \ {cur}
                                         /\ status'[t] = "TASK_BLOCKED"
                                         /\ pc'[t] = "retry"
          BY <1>0, <2>3, <3>1, <3>2, <3>7 DEF TagInOneList
        <4> QED
          BY <3>1, <3>6, <4>1 DEF TagInOneList, SchedInv, ReadyListExact
      <3>11. RetryRuns'
        BY <1>0, <2>3, <3>1, <3>7 DEF RetryRuns
      <3>12. NoLostWakeup' /\ pc'[Idle] = "out"
        BY <1>0, <2>1, <2>3, <3>1, <3>7, <3>8 DEF NoLostWakeup
      <3> QED
        BY <2>4, <3>6, <3>9, <3>10, <3>11, <3>12 DEF SyncInv
    <2> QED
      BY <1>9, <2>5, <2>6 DEF SemaUp
  <1> QED
    BY <1>1, <1>2, <1>3, <1>4, <1>5, <1>6, <1>7, <1>8, <1>9 DEF LockStep

(* The inductive invariant of the lock. *)
THEOREM LockInvariant == SyncSpec => []SyncInv
  <1>1. SyncInit => SyncInv
    BY SyncInitInv
  <1>2. SyncInv /\ [SyncNext]_syncVars => SyncInv'
    <2>1. SyncInv /\ SyncNext => SyncInv'
      BY LockStepInv, OtherStepsInv DEF SyncNext
    <2>2. SyncInv /\ UNCHANGED syncVars => SyncInv'
      <3> SUFFICES ASSUME SyncInv, UNCHANGED syncVars PROVE SyncInv'
        OBVIOUS
      <3>1. UNCHANGED schedVars /\ UNCHANGED <<lockVars, pc>> /\ status' = status
        BY DEF syncVars, schedVars
      <3>2. SchedInv'
        BY <3>1, NextInv DEF SyncInv
      <3> QED
        BY <3>1, <3>2, LockUntouched
    <2> QED
      BY <2>1, <2>2
  <1> QED
    BY <1>1, <1>2, PTL DEF SyncSpec

(* At most one thread is between its sema_down and its sema_up, although   *)
(* lock_acquire and lock_release can be preempted anywhere.                *)
THEOREM LockExcludes == SyncSpec => []MutualExclusion
  <1>1. SyncInv => MutualExclusion
    BY DEF SyncInv
  <1> QED
    BY <1>1, LockInvariant, PTL

(* A free lock with waiters has a woken thread on its way (sync.c:22-52).  *)
THEOREM LockLosesNoWakeup == SyncSpec => []NoLostWakeup
  <1>1. SyncInv => NoLostWakeup
    BY DEF SyncInv
  <1> QED
    BY <1>1, LockInvariant, PTL

(* No ASSERT of sync.c or of the scheduler under it fails. *)
THEOREM LockNeverPanics == SyncSpec => []NoPanic
  <1>1. SyncInv => NoPanic
    BY DEF SyncInv, SchedInv
  <1> QED
    BY <1>1, LockInvariant, PTL

(* The shared link field is in one list at a time. *)
THEOREM LockTags == SyncSpec => []TagInOneList
  <1>1. SyncInv => TagInOneList
    BY DEF SyncInv
  <1> QED
    BY <1>1, LockInvariant, PTL
----------------------------------------------------------------------------
(* The value of the refinement mapping in a state of the invariant.        *)
LEMMA OwnerIs ==
    ASSUME MutualExclusion
    PROVE  /\ \A t \in Threads : pc[t] \in Owning => OwnerNow = t
           /\ (\A t \in Threads : pc[t] \notin Owning) => OwnerNow = NoThread
  <1>1. ASSUME NEW t \in Threads, pc[t] \in Owning PROVE OwnerNow = t
    <2>1. \E u \in Threads : pc[u] \in Owning
      BY <1>1
    <2>2. OwnerNow = CHOOSE u \in Threads : pc[u] \in Owning
      BY <2>1 DEF OwnerNow
    <2>3. OwnerNow \in Threads /\ pc[OwnerNow] \in Owning
      BY <2>1, <2>2
    <2> QED
      BY <1>1, <2>3 DEF MutualExclusion
  <1>2. (\A t \in Threads : pc[t] \notin Owning) => OwnerNow = NoThread
    BY DEF OwnerNow
  <1> QED
    BY <1>1, <1>2

LEMMA OwnerIsNext ==
    ASSUME MutualExclusion'
    PROVE  /\ \A t \in Threads : pc'[t] \in Owning => OwnerNow' = t
           /\ (\A t \in Threads : pc'[t] \notin Owning) => OwnerNow' = NoThread
  <1>1. ASSUME NEW t \in Threads, pc'[t] \in Owning PROVE OwnerNow' = t
    <2>1. \E u \in Threads : pc'[u] \in Owning
      BY <1>1
    <2>2. OwnerNow' = CHOOSE u \in Threads : pc'[u] \in Owning
      BY <2>1 DEF OwnerNow
    <2>3. OwnerNow' \in Threads /\ pc'[OwnerNow'] \in Owning
      BY <2>1, <2>2
    <2> QED
      BY <1>1, <2>3 DEF MutualExclusion
  <1>2. (\A t \in Threads : pc'[t] \notin Owning) => OwnerNow' = NoThread
    BY DEF OwnerNow
  <1> QED
    BY <1>1, <1>2

(* Every step of the lock is a step of the mutex or leaves it unchanged.   *)
LEMMA StepRefines ==
    SyncInv /\ SyncInv' /\ [SyncNext]_syncVars => [M!MutexNext]_(M!mutexVars)
  <1> SUFFICES ASSUME SyncInv, SyncInv', [SyncNext]_syncVars
               PROVE  [M!MutexNext]_(M!mutexVars)
    OBVIOUS
  <1> USE SchedAssumption, SyncAssumption
  <1>0. /\ MutualExclusion /\ MutualExclusion' /\ ValueExact /\ RepeatExact /\ HolderExact
        /\ cur \in Threads /\ repeat \in Nat
        /\ pc \in [Threads -> Places]
    BY DEF SyncInv, SchedInv, TypeOK, SyncTypeOK
  <1>1. /\ \A t \in Threads : pc[t] \in Owning => OwnerNow = t
        /\ (\A t \in Threads : pc[t] \notin Owning) => OwnerNow = NoThread
    BY <1>0, OwnerIs
  <1>2. /\ \A t \in Threads : pc'[t] \in Owning => OwnerNow' = t
        /\ (\A t \in Threads : pc'[t] \notin Owning) => OwnerNow' = NoThread
    BY <1>0, OwnerIsNext
  <1>3. ASSUME pc' = pc, repeat' = repeat PROVE UNCHANGED M!mutexVars
    <2>1. OwnerNow' = OwnerNow
      BY <1>3 DEF OwnerNow
    <2>2. DepthNow' = DepthNow
      BY <1>3, <2>1 DEF DepthNow
    <2> QED
      BY <2>1, <2>2 DEF M!mutexVars
  <1>4. ASSUME NEW from \in Owning, NEW to \in Owning, pc[cur] = from,
               pc' = [pc EXCEPT ![cur] = to],
               (IF from = "held" THEN repeat ELSE 1) = (IF to = "held" THEN repeat' ELSE 1)
        PROVE  UNCHANGED M!mutexVars
    <2>1. pc'[cur] = to
      BY <1>0, <1>4
    <2>2. OwnerNow = cur /\ OwnerNow' = cur
      BY <1>0, <1>1, <1>2, <1>4, <2>1
    <2>3. DepthNow = IF from = "held" THEN repeat ELSE 1
      BY <1>0, <1>4, <2>2 DEF DepthNow
    <2>4. DepthNow' = IF to = "held" THEN repeat' ELSE 1
      BY <1>0, <2>1, <2>2 DEF DepthNow
    <2> QED
      BY <1>4, <2>2, <2>3, <2>4 DEF M!mutexVars
  <1>5. ASSUME NEW place, place \notin Owning, pc[cur] \notin Owning,
               pc' = [pc EXCEPT ![cur] = place]
        PROVE  UNCHANGED M!mutexVars
    <2>1. pc'[cur] = place /\ \A t \in Threads \ {cur} : pc'[t] = pc[t]
      BY <1>0, <1>5
    <2>2. CASE \E t \in Threads : pc[t] \in Owning
      <3>1. PICK t \in Threads : pc[t] \in Owning
        BY <2>2
      <3>2. t # cur /\ pc'[t] = pc[t] /\ OwnerNow = t /\ OwnerNow' = t
        BY <1>1, <1>2, <1>5, <2>1, <3>1
      <3>3. repeat' = repeat \/ pc[t] # "held"
        BY <1>0, <1>5, <3>1, <3>2
        DEF SyncNext, syncVars, lockVars, LockStep, AcquireTest, SemaDownTake, SemaDownWait,
            AcquireHolder, AcquireRepeat, ReleaseTest, ReleaseHolder, ReleaseRepeat, SemaUp,
            Clock, IdleStep, WaitForDevice, SwitchMode, DeviceDone, Spawn, Hang, Collect, At, Owning,
            HolderExact
      <3> QED
        BY <3>2, <3>3 DEF DepthNow, M!mutexVars
    <2>3. CASE \A t \in Threads : pc[t] \notin Owning
      <3>1. OwnerNow = NoThread /\ OwnerNow' = NoThread
        BY <1>1, <1>2, <1>5, <2>1, <2>3
      <3> QED
        BY <3>1 DEF DepthNow, M!mutexVars
    <2> QED
      BY <2>2, <2>3
  <1>6. CASE AcquireTest
    <2>1. CASE holder # cur /\ Goto("down") /\ UNCHANGED repeat
      <3>1. pc[cur] = "out" /\ pc' = [pc EXCEPT ![cur] = "down"]
        BY <1>0, <1>6, <2>1 DEF AcquireTest, At, Goto, HolderExact
      <3> QED
        BY <1>5, <3>1 DEF Owning
    <2>2. CASE holder = cur /\ repeat' = repeat + 1 /\ Goto("held")
      <3>1. pc[cur] = "held" /\ pc' = pc
        BY <1>0, <1>6, <2>2 DEF AcquireTest, At, Goto, HolderExact
      <3>2. OwnerNow = cur /\ OwnerNow' = cur
        BY <1>0, <1>1, <1>2, <3>1 DEF Owning
      <3>3. DepthNow = repeat /\ DepthNow' = repeat + 1
        BY <1>0, <2>2, <3>1, <3>2 DEF DepthNow
      <3>4. M!TakeAgain(cur)
        BY <3>2, <3>3 DEF M!TakeAgain
      <3> QED
        BY <1>0, <3>4 DEF M!MutexNext
    <2> QED
      BY <1>6, <2>1, <2>2 DEF AcquireTest
  <1>7. CASE SemaDownTake
    <2>1. value = 1 /\ pc' = [pc EXCEPT ![cur] = "took"]
      BY <1>0, <1>7 DEF SemaDownTake, Goto, ValueExact
    <2>2. pc'[cur] = "took" /\ (\A t \in Threads : pc[t] \notin Owning)
      BY <1>0, <2>1 DEF ValueExact
    <2>3. OwnerNow = NoThread /\ OwnerNow' = cur
      BY <1>0, <1>1, <1>2, <2>2 DEF Owning
    <2>4. DepthNow' = 1
      BY <1>0, <2>2, <2>3 DEF DepthNow
    <2>5. M!Take(cur)
      BY <2>3, <2>4 DEF M!Take
    <2> QED
      BY <1>0, <2>5 DEF M!MutexNext
  <1>8. CASE SemaDownWait
    <2>1. pc[cur] \in {"down", "retry"} /\ pc' = [pc EXCEPT ![cur] = "retry"]
      BY <1>8 DEF SemaDownWait, At, Goto
    <2> QED
      BY <1>5, <2>1 DEF Owning
  <1>9. CASE AcquireHolder
    <2>1. pc[cur] = "took" /\ pc' = [pc EXCEPT ![cur] = "named"]
      BY <1>9 DEF AcquireHolder, At, Goto
    <2> QED
      BY <1>4, <2>1 DEF Owning
  <1>10. CASE AcquireRepeat
    <2>1. pc[cur] = "named" /\ pc' = [pc EXCEPT ![cur] = "held"] /\ repeat' = 1
      BY <1>10 DEF AcquireRepeat, At, Goto
    <2> QED
      BY <1>4, <2>1 DEF Owning
  <1>11. CASE ReleaseTest
    <2>1. pc[cur] = "held" /\ repeat >= 1
      BY <1>0, <1>11 DEF ReleaseTest, At, RepeatExact
    <2>2. CASE repeat > 1 /\ repeat' = repeat - 1 /\ Goto("held")
      <3>1. pc' = pc
        BY <1>0, <2>1, <2>2 DEF Goto
      <3>2. OwnerNow = cur /\ OwnerNow' = cur
        BY <1>0, <1>1, <1>2, <2>1, <3>1 DEF Owning
      <3>3. DepthNow = repeat /\ DepthNow' = repeat - 1
        BY <1>0, <2>1, <2>2, <3>1, <3>2 DEF DepthNow
      <3>4. M!Give(cur)
        BY <2>2, <3>2, <3>3 DEF M!Give
      <3> QED
        BY <1>0, <3>4 DEF M!MutexNext
    <2>3. CASE repeat <= 1 /\ Goto("drop")
      <3>1. repeat = 1 /\ pc' = [pc EXCEPT ![cur] = "drop"]
        BY <1>0, <2>1, <2>3 DEF Goto
      <3> QED
        BY <1>4, <2>1, <3>1 DEF Owning
    <2> QED
      BY <1>11, <2>2, <2>3 DEF ReleaseTest
  <1>12. CASE ReleaseHolder
    <2>1. pc[cur] = "drop" /\ pc' = [pc EXCEPT ![cur] = "unnamed"]
      BY <1>12 DEF ReleaseHolder, At, Goto
    <2> QED
      BY <1>4, <2>1 DEF Owning
  <1>13. CASE ReleaseRepeat
    <2>1. pc[cur] = "unnamed" /\ pc' = [pc EXCEPT ![cur] = "up"]
      BY <1>13 DEF ReleaseRepeat, At, Goto
    <2> QED
      BY <1>4, <2>1 DEF Owning
  <1>14. CASE SemaUp
    <2>1. pc[cur] = "up" /\ pc' = [pc EXCEPT ![cur] = "out"]
      BY <1>14 DEF SemaUp, At, Goto
    <2>2. OwnerNow = cur /\ \A t \in Threads \ {cur} : pc[t] \notin Owning
      BY <1>0, <1>1, <2>1 DEF Owning, MutualExclusion
    <2>3. \A t \in Threads : pc'[t] \notin Owning
      BY <1>0, <2>1, <2>2 DEF Owning
    <2>4. OwnerNow' = NoThread
      BY <1>2, <2>3
    <2>5. DepthNow = 1 /\ DepthNow' = 0
      BY <1>0, <2>1, <2>2, <2>4 DEF DepthNow
    <2>6. M!Give(cur)
      BY <2>2, <2>4, <2>5 DEF M!Give
    <2> QED
      BY <1>0, <2>6 DEF M!MutexNext
  <1>15. CASE \/ Clock \/ IdleStep \/ WaitForDevice \/ SwitchMode
              \/ (\E t \in Threads : DeviceDone(t)) \/ (\E t \in Threads : Spawn(t))
              \/ Hang \/ (\E t \in Threads : Collect(t))
              \/ UNCHANGED syncVars
    <2>1. pc' = pc /\ repeat' = repeat
      BY <1>15 DEF Clock, IdleStep, WaitForDevice, SwitchMode, DeviceDone, Spawn, Hang, Collect,
                   syncVars, lockVars
    <2> QED
      BY <1>3, <2>1
  <1> QED
    BY <1>6, <1>7, <1>8, <1>9, <1>10, <1>11, <1>12, <1>13, <1>14, <1>15
    DEF SyncNext, LockStep

(* struct lock implements the abstract reentrant mutex (module Mutex).     *)
THEOREM LockImplementsMutex == SyncSpec => ImplementsMutex
  <1>1. SyncInit => M!MutexInit
    <2> SUFFICES ASSUME SyncInit PROVE M!MutexInit
      OBVIOUS
    <2>1. \A t \in Threads : pc[t] \notin Owning
      BY DEF SyncInit, Owning
    <2>2. OwnerNow = NoThread /\ DepthNow = 0
      BY <2>1 DEF OwnerNow, DepthNow
    <2> QED
      BY <2>2 DEF M!MutexInit
  <1>2. SyncInv /\ SyncInv' /\ [SyncNext]_syncVars => [M!MutexNext]_(M!mutexVars)
    BY StepRefines
  <1> QED
    BY <1>1, <1>2, LockInvariant, PTL DEF SyncSpec, ImplementsMutex, M!MutexSpec
=============================================================================
