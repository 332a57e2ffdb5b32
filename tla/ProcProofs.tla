----------------------------- MODULE ProcProofs -----------------------------
(***************************************************************************)
(* Proofs about module Proc, for any number of processes and pids.         *)
(***************************************************************************)
EXTENDS Proc, TLAPS

(* A list without repetitions, the second half of ListExact. *)
Distinct(s) == \A i, j \in 1 .. Len(s) : s[i] = s[j] => i = j

(* What list_append and list_remove do to the set of members. *)
LEMMA AppendMembers ==
    ASSUME NEW S, NEW s \in Seq(S), NEW c \in S
    PROVE  /\ Append(s, c) \in Seq(S)
           /\ Members(Append(s, c)) = Members(s) \cup {c}
           /\ Distinct(s) /\ c \notin Members(s) => Distinct(Append(s, c))
  <1> DEFINE r == Append(s, c)
  <1>1. /\ r \in Seq(S) /\ Len(r) = Len(s) + 1 /\ Len(s) \in Nat
        /\ \A i \in 1 .. Len(s) : r[i] = s[i]
        /\ r[Len(s) + 1] = c
    OBVIOUS
  <1> HIDE DEF r
  <1>2. Members(r) = Members(s) \cup {c}
    <2>1. ASSUME NEW x \in Members(r) PROVE x \in Members(s) \cup {c}
      BY <1>1, <2>1 DEF Members
    <2>2. ASSUME NEW x \in Members(s) PROVE x \in Members(r)
      BY <1>1, <2>2 DEF Members
    <2>3. c \in Members(r)
      BY <1>1 DEF Members
    <2> QED BY <2>1, <2>2, <2>3
  <1>3. ASSUME Distinct(s), c \notin Members(s),
               NEW i \in 1 .. Len(r), NEW j \in 1 .. Len(r), r[i] = r[j]
        PROVE  i = j
    BY <1>1, <1>3 DEF Members, Distinct
  <1> QED BY <1>1, <1>2, <1>3 DEF r, Distinct

LEMMA RemoveMembers ==
    ASSUME NEW S, NEW s \in Seq(S), NEW k \in 1 .. Len(s),
           Distinct(s)
    PROVE  /\ ListRemove(s, k) \in Seq(S)
           /\ Members(ListRemove(s, k)) = Members(s) \ {s[k]}
           /\ Distinct(ListRemove(s, k))
  <1> DEFINE r == ListRemove(s, k)
  <1>0. Len(s) \in Nat /\ Len(s) - 1 \in Nat
    OBVIOUS
  <1>1. /\ r \in Seq(S) /\ Len(r) = Len(s) - 1
        /\ \A i \in 1 .. Len(r) : r[i] = IF i < k THEN s[i] ELSE s[i + 1]
    <2>1. r = [j \in 1 .. Len(s) - 1 |-> IF j < k THEN s[j] ELSE s[j + 1]]
      BY DEF ListRemove
    <2>2. \A j \in 1 .. Len(s) - 1 : (IF j < k THEN s[j] ELSE s[j + 1]) \in S
      BY <1>0
    <2> QED BY <1>0, <2>1, <2>2
  <1> HIDE DEF r
  <1>2. ASSUME NEW x \in Members(r) PROVE x \in Members(s) /\ x # s[k]
    <2>1. PICK i \in 1 .. Len(r) : x = r[i]
      BY <1>2 DEF Members
    <2> QED BY <1>0, <1>1, <2>1 DEF Members, Distinct
  <1>3. ASSUME NEW x \in Members(s), x # s[k] PROVE x \in Members(r)
    <2>1. PICK i \in 1 .. Len(s) : x = s[i]
      BY <1>3 DEF Members
    <2>2. CASE i < k
      BY <1>0, <1>1, <2>1, <2>2 DEF Members
    <2>3. CASE i > k
      <3>1. i - 1 \in 1 .. Len(r) /\ r[i - 1] = s[i]
        BY <1>0, <1>1, <2>3
      <3> QED BY <2>1, <3>1 DEF Members
    <2> QED BY <1>3, <2>1, <2>2, <2>3
  <1>4. ASSUME NEW i \in 1 .. Len(r), NEW j \in 1 .. Len(r), r[i] = r[j]
        PROVE  i = j
    BY <1>0, <1>1, <1>4 DEF Distinct
  <1> QED BY <1>1, <1>2, <1>3, <1>4 DEF r, Distinct

LEMMA BitmapSizes ==
    BitmapPages \in Int /\ BitmapBytes \div PageSize \in Int
  BY ProcAssumption DEF BitmapPages

(* allocate_pid gives a pid nobody has. *)
LEMMA FreshPid ==
    ASSUME PidFree
    PROVE  AllocatePid \in 1 .. MaxPid /\ AllocatePid \notin pids
  BY DEF PidFree, AllocatePid, FirstFreePid

(* The boot state. *)
LEMMA ProcInitInv == ProcInit => ProcInv
  <1> SUFFICES ASSUME ProcInit PROVE ProcInv
    OBVIOUS
  <1> USE ProcAssumption
  <1>1. ProcTypeOK
    <2>1. status \in [Procs -> Live \cup {"TASK_DIED"}]
      BY DEF ProcInit, Live
    <2>2. pid \in [Procs -> Nat] /\ ppid \in [Procs -> Int] /\ nlen \in [Procs -> Nat]
      BY DEF ProcInit
    <2>3. kpages \in Int
      BY BitmapSizes DEF ProcInit
    <2>4. all \in Seq(Procs) /\ pids \subseteq 1 .. MaxPid
      BY DEF ProcInit
    <2>5. inwait \in [Procs -> BOOLEAN] /\ panic \in BOOLEAN
      BY DEF ProcInit
    <2> QED BY <2>1, <2>2, <2>3, <2>4, <2>5 DEF ProcTypeOK
  <1>2. Members(all) = {InitProc, Shell}
    <2>1. Len(all) = 2 /\ all[1] = InitProc /\ all[2] = Shell
      BY DEF ProcInit
    <2> QED BY <2>1 DEF Members
  <1>3. /\ pid[InitProc] = 1 /\ pid[Shell] = 4 /\ ppid[Shell] = 1
        /\ status[InitProc] = "TASK_READY" /\ status[Shell] = "TASK_READY"
        /\ pids = {1, 3, 4}
        /\ \A p \in Procs : status[p] # "TASK_DIED" <=> p \in {InitProc, Shell}
    BY DEF ProcInit
  <1>4. ListExact
    <2>1. Len(all) = 2 /\ all[1] = InitProc /\ all[2] = Shell
      BY DEF ProcInit
    <2>2. \A i, j \in 1 .. Len(all) : all[i] = all[j] => i = j
      BY <2>1
    <2> QED BY <1>2, <1>3, <2>2 DEF ListExact
  <1>5. PidsUnique /\ ParentLives /\ NoMissedExit /\ InitStays
    BY <1>2, <1>3 DEF PidsUnique, ParentLives, NoMissedExit, InitStays
  <1> QED BY <1>1, <1>4, <1>5 DEF ProcInv

(* sys_fork: the pid of the child is new, and nobody had it as parent.     *)
LEMMA ForkInv ==
    ASSUME ProcInv, NEW p \in Procs, NEW c \in Procs, SysFork(p, c)
    PROVE  ProcInv'
  <1> USE DEF ProcInv, ProcTypeOK, ListExact
  <1>1. /\ status[p] = "TASK_READY" /\ p \in Members(all) /\ c # p
        /\ c \notin Members(all) /\ p # InitProc
    BY DEF SysFork, Calls, Runs
  <1>2. AllocatePid \in 1 .. MaxPid /\ AllocatePid \notin pids
    BY FreshPid DEF SysFork
  <1>3. /\ all' \in Seq(Procs) /\ Members(all') = Members(all) \cup {c}
        /\ Distinct(all')
    <2>1. all \in Seq(Procs) /\ Distinct(all) /\ all' = Append(all, c)
      BY DEF SysFork, Distinct
    <2> QED BY <1>1, <2>1, AppendMembers
  <1>4. /\ \A t \in Procs : t # c => /\ status'[t] = status[t] /\ pid'[t] = pid[t]
                                    /\ ppid'[t] = ppid[t]
        /\ status'[c] = "TASK_READY" /\ pid'[c] = AllocatePid /\ ppid'[c] = pid[p]
        /\ pids' = pids \cup {AllocatePid}
    BY DEF SysFork
  <1>5. Members(all) \subseteq Procs
    BY DEF Members
  <1>6. ProcTypeOK'
    <2>1. status' \in [Procs -> Live \cup {"TASK_DIED"}]
      BY DEF SysFork, Live
    <2>5. pid' \in [Procs -> Nat]
      <3>1. AllocatePid \in Nat
        BY <1>2, ProcAssumption
      <3> QED BY <3>1 DEF SysFork
    <2>6. ppid' \in [Procs -> Int]
      <3>1. pid[p] \in Int
        OBVIOUS
      <3> QED BY <3>1 DEF SysFork
    <2>2. nlen' \in [Procs -> Nat] /\ pids' \subseteq 1 .. MaxPid
      BY <1>2, <1>4 DEF SysFork
    <2>4. kpages' \in Int
      BY BitmapSizes DEF SysFork
    <2>3. inwait' \in [Procs -> BOOLEAN] /\ panic' \in BOOLEAN
      BY DEF SysFork
    <2> QED BY <1>3, <2>1, <2>2, <2>3, <2>4, <2>5, <2>6
  <1>7. ListExact'
    <2>1. \A t \in Procs : t \in Members(all') <=> status'[t] # "TASK_DIED"
      BY <1>3, <1>4
    <2>2. Members(all') \subseteq Procs
      BY <1>3, <1>5
    <2>3. Members(all') = {t \in Procs : status'[t] # "TASK_DIED"}
      BY <2>1, <2>2
    <2> QED BY <1>3, <2>3 DEF Distinct
  <1>8. PidsUnique'
    BY <1>1, <1>2, <1>3, <1>4, <1>5 DEF PidsUnique
  <1>9. ParentLives'
    <2> SUFFICES ASSUME NEW t \in Members(all') \ {InitProc}
                 PROVE  \E q \in Members(all') : /\ q # t /\ pid'[q] = ppid'[t]
                                                 /\ status'[q] # "TASK_HANGING"
      BY DEF ParentLives
    <2>1. CASE t = c
      BY <1>1, <1>3, <1>4, <1>5, <2>1
    <2>2. CASE t # c
      <3>1. t \in Members(all) \ {InitProc}
        BY <1>3, <2>2
      <3>2. PICK q \in Members(all) : q # t /\ pid[q] = ppid[t]
                                      /\ status[q] # "TASK_HANGING"
        BY <3>1 DEF ParentLives
      <3>3. q # c /\ q \in Members(all') /\ q \in Procs /\ t \in Procs
        BY <1>1, <1>3, <1>5, <3>1, <3>2
      <3>4. pid'[q] = pid[q] /\ ppid'[t] = ppid[t] /\ status'[q] = status[q]
        BY <1>4, <2>2, <3>3
      <3> QED BY <3>2, <3>3, <3>4
    <2> QED BY <2>1, <2>2
  <1>10. NoMissedExit'
    <2> SUFFICES ASSUME NEW q \in Members(all'), status'[q] = "TASK_WAITING"
                 PROVE  /\ \E t \in Members(all') : ppid'[t] = pid'[q]
                        /\ q # InitProc => ~FindHangingChild(q)'
      BY DEF NoMissedExit
    <2>1. q \in Members(all) /\ q # c /\ status[q] = "TASK_WAITING" /\ pid'[q] = pid[q]
      BY <1>3, <1>4, <1>5
    <2>2. PICK t \in Members(all) : ppid[t] = pid[q]
      BY <2>1 DEF NoMissedExit
    <2>3. ppid'[t] = pid'[q] /\ t \in Members(all')
      BY <1>1, <1>3, <1>4, <1>5, <2>1, <2>2
    <2>4. ASSUME q # InitProc, NEW u \in Members(all'),
                 ppid'[u] = pid'[q], status'[u] = "TASK_HANGING"
          PROVE  FALSE
      <3>1. u # c
        BY <1>4, <2>4
      <3>2. u \in Members(all) /\ ppid[u] = pid[q] /\ status[u] = "TASK_HANGING"
        BY <1>3, <1>4, <1>5, <2>1, <2>4, <3>1
      <3> QED BY <2>1, <2>4, <3>2 DEF NoMissedExit, FindHangingChild, HangingChild
    <2> QED BY <2>3, <2>4 DEF FindHangingChild, HangingChild
  <1>11. InitStays'
    BY <1>1, <1>3, <1>4, <1>5, ProcAssumption DEF InitStays
  <1> QED BY <1>6, <1>7, <1>8, <1>9, <1>10, <1>11

(* Calls that leave the process tree alone. *)
LEMMA TreeKept ==
    ASSUME ProcInv, UNCHANGED <<status, all, pid, ppid>>,
           pids \subseteq pids', ProcTypeOK'
    PROVE  ProcInv'
  <1>1. ListExact'
    BY DEF ProcInv, ListExact, Members
  <1>2. PidsUnique'
    BY DEF ProcInv, PidsUnique, Members
  <1>3. ParentLives'
    BY DEF ProcInv, ParentLives, Members
  <1>4. NoMissedExit'
    BY DEF ProcInv, NoMissedExit, FindHangingChild, HangingChild, Members
  <1>5. InitStays'
    BY DEF ProcInv, InitStays, Members
  <1> QED BY <1>1, <1>2, <1>3, <1>4, <1>5 DEF ProcInv

(* sys_exit: a child of p gets init as parent, which is another process    *)
(* and does not hang; a parent that waited for p no longer waits.          *)
LEMMA ExitInv ==
    ASSUME ProcInv, NEW p \in Procs, SysExit(p)
    PROVE  ProcInv' /\ ~panic'
  <1> USE DEF ProcInv
  <1>1. /\ status[p] = "TASK_READY" /\ p \in Members(all)
        /\ p # InitProc /\ panic = FALSE
    BY DEF SysExit, Calls, Runs, ListExact, ProcTypeOK
  <1>2. Members(all) \subseteq Procs /\ InitProc \in Procs
    BY ProcAssumption DEF ListExact
  <1>3. UNCHANGED <<all, pid, pids, inwait, nlen>> /\ Members(all') = Members(all)
    BY DEF SysExit, Members
  <1>4. \A t \in Procs :
           ppid'[t] = IF t \in Members(all) /\ ppid[t] = pid[p] THEN 1 ELSE ppid[t]
    BY DEF SysExit
  <1>5. \A t \in Procs :
           status'[t] = IF t = p THEN "TASK_HANGING"
                        ELSE IF /\ t \in Members(all) /\ pid[t] = ppid[p]
                                /\ status[t] = "TASK_WAITING"
                             THEN "TASK_READY" ELSE status[t]
    BY DEF SysExit
  <1>6. /\ InitProc \in Members(all) /\ pid[InitProc] = 1
        /\ status[InitProc] # "TASK_HANGING"
    BY DEF InitStays
  <1>7. PICK parent \in Members(all) : parent # p /\ pid[parent] = ppid[p]
    BY <1>1 DEF ParentLives
  <1>8. ppid[p] # pid[p]
    BY <1>1, <1>7 DEF PidsUnique
  <1>9. ProcTypeOK' /\ ~panic'
    <2>1. status' \in [Procs -> Live \cup {"TASK_DIED"}]
      BY DEF SysExit, Live, ProcTypeOK
    <2>2. ppid' \in [Procs -> Int]
      BY DEF SysExit, ProcTypeOK
    <2>3. kpages' \in Int
      BY BitmapSizes DEF SysExit, ProcTypeOK
    <2>4. panic' = FALSE
      <3>1. pid[parent] \in Nat
        BY <1>2, <1>7 DEF ProcTypeOK
      <3>2. ppid[p] # -1
        BY <1>7, <3>1
      <3>3. parent \in {t \in Members(all) : pid[t] = ppid[p]}
        BY <1>7
      <3> QED BY <3>2, <3>3 DEF SysExit
    <2> QED BY <1>3, <2>1, <2>2, <2>3, <2>4 DEF ProcTypeOK
  <1>10. ListExact'
    <2>1. \A t \in Procs : status'[t] = "TASK_DIED" <=> status[t] = "TASK_DIED"
      BY <1>1, <1>5
    <2>2. {t \in Procs : status'[t] # "TASK_DIED"} = {t \in Procs : status[t] # "TASK_DIED"}
      BY <2>1
    <2> QED BY <1>3, <2>2 DEF ListExact
  <1>11. PidsUnique' /\ InitStays'
    BY <1>1, <1>2, <1>3, <1>5, <1>6 DEF PidsUnique, InitStays
  <1>12. ParentLives'
    <2> SUFFICES ASSUME NEW t \in Members(all) \ {InitProc}
                 PROVE  \E q \in Members(all) : /\ q # t /\ pid[q] = ppid'[t]
                                                /\ status'[q] # "TASK_HANGING"
      BY <1>3 DEF ParentLives
    <2>1. CASE ppid[t] = pid[p]
      BY <1>1, <1>2, <1>4, <1>5, <1>6, <2>1
    <2>2. CASE ppid[t] # pid[p]
      <3>1. PICK q \in Members(all) : /\ q # t /\ pid[q] = ppid[t]
                                      /\ status[q] # "TASK_HANGING"
        BY DEF ParentLives
      <3> QED BY <1>2, <1>4, <1>5, <2>2, <3>1
    <2> QED BY <2>1, <2>2
  <1>13. NoMissedExit'
    <2> SUFFICES ASSUME NEW q \in Members(all), status'[q] = "TASK_WAITING"
                 PROVE  /\ \E t \in Members(all) : ppid'[t] = pid[q]
                        /\ q # InitProc => ~FindHangingChild(q)'
      BY <1>3 DEF NoMissedExit
    <2>1. q # p /\ status[q] = "TASK_WAITING" /\ pid[q] # ppid[p]
      BY <1>2, <1>5
    <2>2. pid[q] # pid[p]
      BY <1>1, <2>1 DEF PidsUnique
    <2>3. \E t \in Members(all) : ppid'[t] = pid[q]
      <3>1. PICK t \in Members(all) : ppid[t] = pid[q]
        BY <2>1 DEF NoMissedExit
      <3> QED BY <1>2, <1>4, <2>2, <3>1
    <2>4. ASSUME q # InitProc, NEW u \in Members(all),
                 ppid'[u] = pid[q], status'[u] = "TASK_HANGING"
          PROVE  FALSE
      <3>1. pid[q] # 1
        BY <1>6, <2>4 DEF PidsUnique
      <3>2. ppid[u] = pid[q]
        BY <1>2, <1>4, <2>4, <3>1
      <3>3. u # p /\ status[u] = "TASK_HANGING"
        BY <1>2, <1>5, <2>1, <2>4, <3>2
      <3> QED BY <2>1, <2>4, <3>2, <3>3 DEF NoMissedExit, FindHangingChild, HangingChild
    <2> QED BY <1>3, <2>3, <2>4 DEF FindHangingChild, HangingChild
  <1> QED BY <1>9, <1>10, <1>11, <1>12, <1>13

(* sys_wait that reaps: the child hangs, so it is nobody's parent, and its *)
(* own parent is p, which does not sleep.                                  *)
LEMMA ReapInv ==
    ASSUME ProcInv, NEW p \in Procs, WaitReap(p)
    PROVE  ProcInv'
  <1> USE DEF ProcInv
  <1>1. PICK i \in 1 .. Len(all) : FirstHangingChild(p, i) /\ ThreadExit(i)
    BY DEF WaitReap
  <1> DEFINE c == all[i]
  <1>2. c \in Procs /\ c \in Members(all)
    BY <1>1 DEF Members, ProcTypeOK
  <1>3. status[c] = "TASK_HANGING" /\ ppid[c] = pid[p]
    BY <1>1 DEF FirstHangingChild, HangingChild
  <1>4. status[p] = "TASK_READY" /\ p \in Members(all) /\ c # p
    BY <1>3 DEF WaitReap, Runs, ListExact
  <1>5. c # InitProc
    BY <1>3 DEF InitStays
  <1>6. Members(all) \subseteq Procs /\ InitProc \in Procs
    BY ProcAssumption DEF ListExact
  <1>7. /\ all' \in Seq(Procs) /\ Members(all') = Members(all) \ {c}
        /\ Distinct(all')
    <2>1. all \in Seq(Procs) /\ Distinct(all) /\ all' = ListRemove(all, i)
      BY <1>1 DEF ProcTypeOK, ListExact, Distinct, ThreadExit
    <2> QED BY <1>1, <2>1, RemoveMembers
  <1>8. /\ \A t \in Procs : t # c => /\ status'[t] = status[t] /\ pid'[t] = pid[t]
                                     /\ ppid'[t] = ppid[t]
        /\ status'[c] = "TASK_DIED" /\ pids' = pids \ {pid[c]}
    BY <1>1, <1>2 DEF ThreadExit, ProcTypeOK
  <1>9. ProcTypeOK'
    <2>1. status' \in [Procs -> Live \cup {"TASK_DIED"}]
      BY <1>1 DEF ThreadExit, ProcTypeOK
    <2>2. pid' \in [Procs -> Nat] /\ nlen' \in [Procs -> Nat]
      BY <1>1 DEF ThreadExit, ProcTypeOK
    <2>3. ppid' \in [Procs -> Int]
      <3>1. -1 \in Int
        OBVIOUS
      <3> QED BY <1>1, <3>1 DEF ThreadExit, ProcTypeOK
    <2>4. kpages' \in Int
      BY <1>1 DEF ThreadExit, ProcTypeOK
    <2>6. pids' \subseteq 1 .. MaxPid
      <3>1. pids' \subseteq pids
        BY <1>8
      <3> QED BY <3>1 DEF ProcTypeOK
    <2>5. inwait' \in [Procs -> BOOLEAN] /\ panic' \in BOOLEAN
      BY DEF WaitReap, ProcTypeOK
    <2> QED BY <1>7, <2>1, <2>2, <2>3, <2>4, <2>5, <2>6 DEF ProcTypeOK
  <1> HIDE DEF c
  <1>10. ListExact'
    <2>1. \A t \in Procs : t \in Members(all') <=> status'[t] # "TASK_DIED"
      BY <1>7, <1>8 DEF ListExact
    <2>2. Members(all') = {t \in Procs : status'[t] # "TASK_DIED"}
      BY <1>6, <1>7, <2>1
    <2> QED BY <1>7, <2>2 DEF ListExact, Distinct
  <1>11. PidsUnique'
    BY <1>2, <1>6, <1>7, <1>8 DEF PidsUnique
  <1>12. ParentLives'
    <2> SUFFICES ASSUME NEW t \in Members(all') \ {InitProc}
                 PROVE  \E q \in Members(all') : /\ q # t /\ pid'[q] = ppid'[t]
                                                 /\ status'[q] # "TASK_HANGING"
      BY DEF ParentLives
    <2>1. PICK q \in Members(all) : /\ q # t /\ pid[q] = ppid[t]
                                    /\ status[q] # "TASK_HANGING"
      BY <1>7 DEF ParentLives
    <2> QED BY <1>3, <1>6, <1>7, <1>8, <2>1
  <1>13. NoMissedExit'
    <2> SUFFICES ASSUME NEW q \in Members(all'), status'[q] = "TASK_WAITING"
                 PROVE  /\ \E t \in Members(all') : ppid'[t] = pid'[q]
                        /\ q # InitProc => ~FindHangingChild(q)'
      BY DEF NoMissedExit
    <2>1. q \in Members(all) /\ status[q] = "TASK_WAITING" /\ pid'[q] = pid[q] /\ q # p
      BY <1>4, <1>6, <1>7, <1>8
    <2>2. PICK t \in Members(all) : ppid[t] = pid[q]
      BY <2>1 DEF NoMissedExit
    <2>3. t # c
      BY <1>3, <1>4, <2>1, <2>2 DEF PidsUnique
    <2>4. t \in Members(all') /\ ppid'[t] = pid'[q]
      BY <1>6, <1>7, <1>8, <2>1, <2>2, <2>3
    <2>5. ASSUME q # InitProc, NEW u \in Members(all'),
                 ppid'[u] = pid'[q], status'[u] = "TASK_HANGING"
          PROVE  FALSE
      <3>1. u \in Members(all) /\ ppid[u] = pid[q] /\ status[u] = "TASK_HANGING"
        BY <1>6, <1>7, <1>8, <2>1, <2>5
      <3> QED BY <2>1, <2>5, <3>1 DEF NoMissedExit, FindHangingChild, HangingChild
    <2> QED BY <2>4, <2>5 DEF FindHangingChild, HangingChild
  <1>14. InitStays'
    BY <1>5, <1>6, <1>7, <1>8 DEF InitStays
  <1> QED BY <1>9, <1>10, <1>11, <1>12, <1>13, <1>14

(* sys_wait that blocks has looked at every child first. *)
LEMMA BlockInv ==
    ASSUME ProcInv, NEW p \in Procs, WaitBlock(p)
    PROVE  ProcInv'
  <1> USE DEF ProcInv
  <1>1. status[p] = "TASK_READY" /\ p \in Members(all)
    BY DEF WaitBlock, Runs, ListExact
  <1>2. Members(all) \subseteq Procs /\ InitProc \in Procs
    BY ProcAssumption DEF ListExact
  <1>3. UNCHANGED <<all, pid, ppid, pids, nlen, kpages, panic>>
        /\ Members(all') = Members(all)
    BY DEF WaitBlock, Members
  <1>4. /\ \A t \in Procs : t # p => status'[t] = status[t]
        /\ status'[p] = "TASK_WAITING"
    BY DEF WaitBlock, ProcTypeOK
  <1>5. ProcTypeOK'
    <2>1. status' \in [Procs -> Live \cup {"TASK_DIED"}]
      BY DEF WaitBlock, ProcTypeOK, Live
    <2>2. inwait' \in [Procs -> BOOLEAN]
      BY DEF WaitBlock, ProcTypeOK
    <2> QED BY <1>3, <2>1, <2>2 DEF ProcTypeOK
  <1>6. ListExact'
    <2>1. {t \in Procs : status'[t] # "TASK_DIED"} = {t \in Procs : status[t] # "TASK_DIED"}
      BY <1>1, <1>4
    <2> QED BY <1>3, <2>1 DEF ListExact
  <1>7. PidsUnique'
    BY <1>3 DEF PidsUnique
  <1>8. ParentLives'
    <2> SUFFICES ASSUME NEW t \in Members(all) \ {InitProc}
                 PROVE  \E q \in Members(all) : /\ q # t /\ pid[q] = ppid[t]
                                                /\ status'[q] # "TASK_HANGING"
      BY <1>3 DEF ParentLives
    <2>1. PICK q \in Members(all) : /\ q # t /\ pid[q] = ppid[t]
                                    /\ status[q] # "TASK_HANGING"
      BY DEF ParentLives
    <2> QED BY <1>2, <1>4, <2>1
  <1>9. NoMissedExit'
    <2> SUFFICES ASSUME NEW q \in Members(all), status'[q] = "TASK_WAITING"
                 PROVE  /\ \E t \in Members(all) : ppid[t] = pid[q]
                        /\ q # InitProc => ~FindHangingChild(q)'
      BY <1>3 DEF NoMissedExit
    <2>1. \A u \in Members(all) : status'[u] = "TASK_HANGING" => status[u] = "TASK_HANGING"
      BY <1>1, <1>2, <1>4
    <2>2. CASE q = p
      <3>1. \E t \in Members(all) : ppid[t] = pid[q]
        BY <2>2 DEF WaitBlock, FindChild
      <3>2. \A u \in Members(all) : ~(ppid[u] = pid[q] /\ status[u] = "TASK_HANGING")
        BY <2>2 DEF WaitBlock, FindHangingChild, HangingChild
      <3> QED BY <1>3, <2>1, <3>1, <3>2 DEF FindHangingChild, HangingChild
    <2>3. CASE q # p
      <3>1. status[q] = "TASK_WAITING"
        BY <1>2, <1>4, <2>3
      <3>2. \E t \in Members(all) : ppid[t] = pid[q]
        BY <3>1 DEF NoMissedExit
      <3>3. q # InitProc => \A u \in Members(all) :
                               ~(ppid[u] = pid[q] /\ status[u] = "TASK_HANGING")
        BY <3>1 DEF NoMissedExit, FindHangingChild, HangingChild
      <3> QED BY <1>3, <2>1, <3>2, <3>3 DEF FindHangingChild, HangingChild
    <2> QED BY <2>2, <2>3
  <1>10. InitStays'
    BY <1>2, <1>3, <1>4 DEF InitStays
  <1> QED BY <1>5, <1>6, <1>7, <1>8, <1>9, <1>10

(* The remaining operations do not touch the tree. *)
LEMMA TreeKeptInv ==
    ASSUME ProcInv, NEW p \in Procs,
           \/ ForkAsserts(p) \/ ForkFails(p) \/ WaitNone(p)
           \/ \E len \in NameLens : SysExecv(p, len)
    PROVE  ProcInv'
  <1>1. UNCHANGED <<status, all, pid, ppid>>
    BY DEF ForkAsserts, ForkFails, WaitNone, SysExecv
  <1>2. pids \subseteq pids' /\ pids' \subseteq 1 .. MaxPid
    <2>1. ASSUME PidFree PROVE AllocatePid \in 1 .. MaxPid
      BY <2>1, FreshPid
    <2>2. pids \subseteq 1 .. MaxPid
      BY DEF ProcInv, ProcTypeOK
    <2> QED BY <2>1, <2>2 DEF ForkAsserts, ForkFails, WaitNone, SysExecv
  <1>3. nlen' \in [Procs -> Nat]
    BY ProcAssumption DEF ForkAsserts, ForkFails, WaitNone, SysExecv, ProcInv, ProcTypeOK
  <1>4. kpages' \in Int
    BY ProcAssumption DEF ForkAsserts, ForkFails, WaitNone, SysExecv, ProcInv, ProcTypeOK
  <1>5. inwait' \in [Procs -> BOOLEAN] /\ panic' \in BOOLEAN
    BY DEF ForkAsserts, ForkFails, WaitNone, SysExecv, ProcInv, ProcTypeOK
  <1>6. ProcTypeOK'
    BY <1>1, <1>2, <1>3, <1>4, <1>5 DEF ProcInv, ProcTypeOK
  <1> QED BY <1>1, <1>2, <1>6, TreeKept

LEMMA ProcStepInv == ProcInv /\ [ProcNext]_procVars => ProcInv'
  <1> SUFFICES ASSUME ProcInv, [ProcNext]_procVars PROVE ProcInv'
    OBVIOUS
  <1>1. CASE ProcNext
    <2>1. PICK p \in Procs :
             \/ \E c \in Procs : SysFork(p, c)
             \/ ForkAsserts(p)
             \/ ForkFails(p)
             \/ \E len \in NameLens : SysExecv(p, len)
             \/ SysExit(p)
             \/ SysWait(p)
      BY <1>1 DEF ProcNext
    <2>2. CASE \E c \in Procs : SysFork(p, c)
      BY <2>2, ForkInv
    <2>3. CASE \/ ForkAsserts(p) \/ ForkFails(p) \/ WaitNone(p)
               \/ \E len \in NameLens : SysExecv(p, len)
      BY <2>3, TreeKeptInv
    <2>4. CASE SysExit(p)
      BY <2>4, ExitInv
    <2>5. CASE WaitReap(p)
      BY <2>5, ReapInv
    <2>6. CASE WaitBlock(p)
      BY <2>6, BlockInv
    <2> QED BY <2>1, <2>2, <2>3, <2>4, <2>5, <2>6 DEF SysWait
  <1>2. CASE UNCHANGED procVars
    <2>1. ProcTypeOK'
      BY <1>2 DEF procVars, ProcInv, ProcTypeOK
    <2> QED BY <1>2, <2>1, TreeKept DEF procVars
  <1> QED BY <1>1, <1>2

----------------------------------------------------------------------------
(* The process table is consistent in every state of every run, whatever   *)
(* the number of processes, pids and pages.                                *)
THEOREM ProcessInvariant == ProcSpec => []ProcInv
  BY ProcInitInv, ProcStepInv, PTL DEF ProcSpec

(* A process always has a living parent, also after pids were reused: the  *)
(* parent_pid sys_exit looks up never dangles.                             *)
THEOREM ProcessParents == ProcSpec => []ParentLives
  BY ProcessInvariant, PTL DEF ProcInv

(* allocate_pid, sys_fork and thread_exit keep the pids of the processes   *)
(* in thread_all_list different.                                           *)
THEOREM ProcessPids == ProcSpec => []PidsUnique
  BY ProcessInvariant, PTL DEF ProcInv

(* thread_all_list holds exactly the processes in use.                     *)
THEOREM ProcessList == ProcSpec => []ListExact
  BY ProcessInvariant, PTL DEF ProcInv

(* sys_exit does not miss a parent other than init that waits for it.      *)
THEOREM ProcessExits == ProcSpec => []NoMissedExit
  BY ProcessInvariant, PTL DEF ProcInv

(* No step but a failed ASSERT of sys_fork stops the machine: sys_exit     *)
(* always finds its parent.                                                *)
THEOREM ProcessStops == ProcSpec => OnlyForkStops
  <1>1. ProcInv /\ [ProcNext]_procVars
          => [panic' /\ ~panic => \E p \in Procs : ForkAsserts(p)]_procVars
    <2> SUFFICES ASSUME ProcInv, ProcNext, panic', ~panic
                 PROVE  \E p \in Procs : ForkAsserts(p)
      BY DEF procVars
    <2>1. PICK p \in Procs :
             \/ \E c \in Procs : SysFork(p, c)
             \/ ForkAsserts(p)
             \/ ForkFails(p)
             \/ \E len \in NameLens : SysExecv(p, len)
             \/ SysExit(p)
             \/ SysWait(p)
      BY DEF ProcNext
    <2>2. ~SysExit(p)
      BY ExitInv
    <2>3. ~SysWait(p) /\ ~ForkFails(p)
      BY DEF SysWait, WaitReap, WaitNone, WaitBlock, ForkFails
    <2>4. ~\E c \in Procs : SysFork(p, c)
      BY DEF SysFork
    <2>5. ~\E len \in NameLens : SysExecv(p, len)
      BY DEF SysExecv
    <2> QED BY <2>1, <2>2, <2>3, <2>4, <2>5
  <1> QED BY <1>1, ProcessInvariant, PTL DEF ProcSpec, OnlyForkStops
=============================================================================
