-------------------------- MODULE FileTableProofs --------------------------
(***************************************************************************)
(* Proofs about the open files: the types, and, as long as no slot was     *)
(* lost and no inode in the heap of a process was used from outside, that  *)
(* the counts of inodes and pipes agree with the descriptors of all        *)
(* processes, files in the making included.                                *)
(***************************************************************************)
EXTENDS FileTable, FiniteSetTheorems, TLAPS

(* The part of the invariant that holds after a slot was lost as well.     *)
FtShape == FtTypeOK /\ SlotsAgree

(* The open counts of all inodes agree with the slots and descriptors.     *)
CountsAgree ==
    \A b \in Blocks : inode[b].cnts = Cardinality(Spare(b)) + Cardinality(Held(b))

PipesAgree ==
    \A s \in Slots : ftab[s].fd_flag = "pipe" /\ Refs(s) # {} =>
        ftab[s].fd_inode = Page /\ ftab[s].fd_pos >= Cardinality(Refs(s))

FtExact == SlotsUsed /\ CreationsAlone /\ CountsAgree /\ PipesAgree /\ panic = FALSE

(* The inductive invariant. *)
FtInv == FtShape /\ (~stale => FtExact)

----------------------------------------------------------------------------
(* A nonempty set of indices has a lowest one: the loops of                *)
(* get_free_slot_in_global and pcb_fd_install end at a free index.         *)
LEMMA LowestIn ==
    ASSUME NEW S \in SUBSET Nat, S # {}
    PROVE  Lowest(S) \in S
<1>1. \E R : IsWellFoundedOn(R, Nat) /\ \A x, y \in Nat : x < y => <<x, y>> \in R
  <2>1. IsWellFoundedOn(OpToRel(<, Nat), Nat)
    BY NatLessThanWellFounded
  <2>2. \A x, y \in Nat : x < y => <<x, y>> \in OpToRel(<, Nat)
    BY Zenon DEF OpToRel
  <2> QED
    BY <2>1, <2>2, Zenon
<1>2. PICK R : IsWellFoundedOn(R, Nat) /\ \A x, y \in Nat : x < y => <<x, y>> \in R
  BY <1>1
<1>3. \E x \in S : \A y \in S : ~ (<<y, x>> \in R)
  <2>1. IsWellFoundedOn(R, Nat)
    BY <1>2
  <2>2. S \subseteq Nat /\ S # {}
    OBVIOUS
  <2> QED
    BY ONLY <2>1, <2>2, WFMin, Zenon
<1>4. PICK x \in S : \A y \in S : ~ (<<y, x>> \in R)
  BY <1>3
<1>5. \A y \in S : x <= y
  <2>1. ASSUME NEW y \in S PROVE ~(y < x)
    BY <1>2, <1>4
  <2> QED
    BY <2>1
<1> QED
  BY <1>5 DEF Lowest

LEMMA FreeSlotFound ==
    ASSUME FreeSlots # {}
    PROVE  /\ Lowest(FreeSlots) \in Slots
           /\ ftab[Lowest(FreeSlots)].fd_inode = NULL
<1>1. FreeSlots \in SUBSET Nat
  BY FileTableAssumption DEF FreeSlots
<1> QED
  BY <1>1, LowestIn DEF FreeSlots

LEMMA FreeFdFound ==
    ASSUME NEW p, FreeFds(p) # {}
    PROVE  /\ Lowest(FreeFds(p)) \in Fds
           /\ fd_table[p][Lowest(FreeFds(p))] = -1
<1>1. FreeFds(p) \in SUBSET Nat
  BY FileTableAssumption DEF FreeFds
<1> QED
  BY <1>1, LowestIn DEF FreeFds

(* Sets of slots and of descriptors are finite. *)
LEMMA Finite ==
    /\ \A T \in SUBSET Slots : IsFiniteSet(T) /\ Cardinality(T) \in Nat
    /\ \A T \in SUBSET Fds : IsFiniteSet(T) /\ Cardinality(T) \in Nat
    /\ \A T \in SUBSET (Procs \X Fds) : IsFiniteSet(T) /\ Cardinality(T) \in Nat
<1>1. IsFiniteSet(Procs \X Fds)
  BY FileTableAssumption, FS_Product
<1> QED
  BY <1>1, FileTableAssumption, FS_Subset, FS_CardinalityType

----------------------------------------------------------------------------
(* The shape is kept by every step.                                        *)
LEMMA ShapeInit == FtInit => FtShape
<1>1. SUFFICES ASSUME FtInit PROVE FtShape
  OBVIOUS
<1>2. FreeSlot \in SlotStates /\ FreeInode \in InodeStates
  BY DEF FreeSlot, FreeInode, SlotStates, InodeStates
<1>3. FtTypeOK
  BY <1>1, <1>2, FileTableAssumption DEF FtInit, FtTypeOK
<1>4. SlotsAgree
  BY <1>1, FileTableAssumption DEF FtInit, SlotsAgree, FreeSlot
<1> QED
  BY <1>3, <1>4 DEF FtShape

LEMMA InstallType ==
    ASSUME FtTypeOK, NEW p \in Procs, NEW s \in Slots, PcbFdInstall(p, s)
    PROVE  fd_table' \in [Procs -> [Fds -> Slots \cup {-1}]]
<1> DEFINE fd == Lowest(FreeFds(p))
<1>1. CASE fd_table' = fd_table
  BY <1>1 DEF FtTypeOK
<1>2. CASE FreeFds(p) # {} /\ fd_table' = [fd_table EXCEPT ![p][fd] = s]
  <2>1. fd \in Fds
    BY <1>2, FreeFdFound
  <2> HIDE DEF fd
  <2> QED
    BY <1>2, <2>1 DEF FtTypeOK
<1> QED
  BY <1>1, <1>2 DEF PcbFdInstall

LEMMA FileOpenShape ==
    ASSUME FtTypeOK, SlotsAgree, NEW p \in Procs, NEW s \in Slots, NEW b \in Blocks,
           NEW count \in InodeStates, NEW mode \in {"r", "w"},
           FileOpen(p, s, b, count, mode)
    PROVE  /\ fd_table' \in [Procs -> [Fds -> Slots \cup {-1}]]
           /\ ftab' \in [Slots -> SlotStates]
           /\ inode' \in [Blocks -> InodeStates]
           /\ \A t \in Slots :
                 /\ ftab'[t].fd_inode \in Blocks => ftab'[t].fd_flag \in {"r", "w"}
                 /\ ftab'[t].fd_inode = Page => ftab'[t].fd_flag = "pipe"
<1> DEFINE new == [fd_inode |-> b, fd_flag |-> mode, fd_pos |-> 0]
<1>1. new \in SlotStates
  BY DEF SlotStates
<1>2. ftab' = [ftab EXCEPT ![s] = new]
  BY DEF FileOpen
<1>3. new.fd_inode = b /\ new.fd_flag = mode
  OBVIOUS
<1> HIDE DEF new
<1>4. ftab' \in [Slots -> SlotStates]
  BY <1>1, <1>2 DEF FtTypeOK
<1>5. fd_table' \in [Procs -> [Fds -> Slots \cup {-1}]]
  <2>1. CASE fd_table' = fd_table
    BY <2>1 DEF FtTypeOK
  <2>2. CASE PcbFdInstall(p, s)
    BY <2>2, InstallType
  <2> QED
    BY <2>1, <2>2 DEF FileOpen
<1>6. [count EXCEPT !.deny = (@ \/ mode = "w")] \in InodeStates
  BY DEF InodeStates
<1>7. inode' \in [Blocks -> InodeStates]
  BY <1>6 DEF FileOpen, FtTypeOK
<1>8. ASSUME NEW t \in Slots
      PROVE  /\ ftab'[t].fd_inode \in Blocks => ftab'[t].fd_flag \in {"r", "w"}
             /\ ftab'[t].fd_inode = Page => ftab'[t].fd_flag = "pipe"
  <2>1. CASE t = s
    BY <2>1, <1>2, <1>3, FileTableAssumption DEF FtTypeOK
  <2>2. CASE t # s
    BY <2>2, <1>2 DEF FtTypeOK, SlotsAgree
  <2> QED
    BY <2>1, <2>2
<1> QED
  BY <1>4, <1>5, <1>7, <1>8

LEMMA InodeCloseType ==
    ASSUME NEW i \in InodeStates
    PROVE  InodeClose([i EXCEPT !.deny = FALSE]) \in InodeStates
<1> DEFINE j == [i EXCEPT !.deny = FALSE]
<1>1. j \in InodeStates
  BY DEF InodeStates
<1>2. FreeInode \in InodeStates
  BY DEF InodeStates, FreeInode
<1> HIDE DEF j
<1>3. [j EXCEPT !.cnts = @ - 1] \in InodeStates
  BY <1>1 DEF InodeStates
<1>4. InodeClose(j) \in InodeStates
  BY <1>2, <1>3 DEF InodeClose
<1> QED
  BY <1>4 DEF j

LEMMA SysCloseShape ==
    ASSUME FtTypeOK, SlotsAgree, NEW p \in Procs, NEW fd \in Fds,
           fd_table[p][fd] # -1, SysClose(p, fd)
    PROVE  /\ fd_table' \in [Procs -> [Fds -> Slots \cup {-1}]]
           /\ ftab' \in [Slots -> SlotStates]
           /\ inode' \in [Blocks -> InodeStates]
           /\ panic' \in BOOLEAN
           /\ \A t \in Slots :
                 /\ ftab'[t].fd_inode \in Blocks => ftab'[t].fd_flag \in {"r", "w"}
                 /\ ftab'[t].fd_inode = Page => ftab'[t].fd_flag = "pipe"
<1> DEFINE s == fd_table[p][fd]
<1>1. s \in Slots
  BY DEF FtTypeOK
<1> HIDE DEF s
<1>2. fd_table' \in [Procs -> [Fds -> Slots \cup {-1}]]
  BY DEF SysClose, FtTypeOK
<1>3. panic' \in BOOLEAN
  BY Zenon DEF SysClose, FtTypeOK
<1>4. inode' \in [Blocks -> InodeStates]
  <2>1. CASE inode' = inode
    BY <2>1 DEF FtTypeOK
  <2>2. CASE inode' = [b \in Blocks |-> IF b # ftab[s].fd_inode THEN inode[b]
                          ELSE InodeClose([inode[b] EXCEPT !.deny = FALSE])]
    BY <2>2, InodeCloseType DEF FtTypeOK
  <2> QED
    BY <2>1, <2>2 DEF SysClose, s
<1>5. \E e \in SlotStates : /\ ftab' = [ftab EXCEPT ![s] = e]
                            /\ e.fd_flag = ftab[s].fd_flag
                            /\ e.fd_inode \in {ftab[s].fd_inode, NULL}
  <2> DEFINE x == IF ftab[s].fd_pos = 1 THEN NULL ELSE ftab[s].fd_inode
             e1 == [fd_inode |-> x, fd_flag |-> "pipe", fd_pos |-> ftab[s].fd_pos - 1]
             e2 == [ftab[s] EXCEPT !.fd_inode = NULL]
  <2>1. ftab[s] \in SlotStates
    BY <1>1 DEF FtTypeOK
  <2>2. /\ e1 \in SlotStates /\ e1.fd_flag = "pipe"
        /\ e1.fd_inode \in {ftab[s].fd_inode, NULL}
    <3>1. x \in Blocks \cup {Page, NULL} /\ x \in {ftab[s].fd_inode, NULL}
      BY <2>1 DEF SlotStates
    <3>2. ftab[s].fd_pos - 1 \in Int
      BY <2>1 DEF SlotStates
    <3> HIDE DEF x
    <3> QED
      BY <3>1, <3>2 DEF SlotStates
  <2>3. /\ e2 \in SlotStates /\ e2.fd_flag = ftab[s].fd_flag
        /\ e2.fd_inode = NULL
    BY <2>1 DEF SlotStates
  <2>4. \/ ftab[s].fd_flag = "pipe" /\ ftab' = [ftab EXCEPT ![s] = e1]
        \/ ftab' = [ftab EXCEPT ![s] = e2]
    BY <1>1 DEF SysClose, FtTypeOK, s
  <2> QED
    BY <2>2, <2>3, <2>4
<1>6. PICK e \in SlotStates : /\ ftab' = [ftab EXCEPT ![s] = e]
                              /\ e.fd_flag = ftab[s].fd_flag
                              /\ e.fd_inode \in {ftab[s].fd_inode, NULL}
  BY <1>5
<1>7. ftab' \in [Slots -> SlotStates]
  BY <1>1, <1>6 DEF FtTypeOK
<1>8. ASSUME NEW t \in Slots
      PROVE  /\ ftab'[t].fd_inode \in Blocks => ftab'[t].fd_flag \in {"r", "w"}
             /\ ftab'[t].fd_inode = Page => ftab'[t].fd_flag = "pipe"
  <2>1. CASE t = s
    BY <2>1, <1>1, <1>6, FileTableAssumption DEF FtTypeOK, SlotsAgree
  <2>2. CASE t # s
    BY <2>2, <1>1, <1>6 DEF FtTypeOK, SlotsAgree
  <2> QED
    BY <2>1, <2>2
<1> QED
  BY <1>2, <1>3, <1>4, <1>7, <1>8

(* The types, and what a slot holds, survive every step.                   *)
LEMMA OpenShape ==
    ASSUME FtShape, NEW p \in Procs, NEW no \in Files, NEW mode \in {"r", "w"},
           stale' \in BOOLEAN,
           OpenCached(p, no, mode) \/ OpenStart(p, no, mode)
    PROVE  FtShape'
<1>0. FtTypeOK /\ SlotsAgree
  BY DEF FtShape
<1>1. CASE OpenCached(p, no, mode)
  <2>1. PICK b \in Blocks :
          FileOpen(p, Lowest(FreeSlots), b, [inode[b] EXCEPT !.cnts = @ + 1], mode)
    BY <1>1 DEF OpenCached, Cached, Listed
  <2>2. Lowest(FreeSlots) \in Slots
    BY <1>1, FreeSlotFound DEF OpenCached
  <2>3. inode[b] \in InodeStates
    BY <1>0 DEF FtTypeOK
  <2>4. [inode[b] EXCEPT !.cnts = @ + 1] \in InodeStates
    BY <2>3 DEF InodeStates
  <2>5. /\ fd_table' \in [Procs -> [Fds -> Slots \cup {-1}]]
        /\ ftab' \in [Slots -> SlotStates]
        /\ inode' \in [Blocks -> InodeStates]
        /\ \A t \in Slots :
              /\ ftab'[t].fd_inode \in Blocks => ftab'[t].fd_flag \in {"r", "w"}
              /\ ftab'[t].fd_inode = Page => ftab'[t].fd_flag = "pipe"
    BY <1>0, <2>1, <2>2, <2>4, FileOpenShape
  <2> QED
    BY <1>0, <1>1, <2>5 DEF FtShape, FtTypeOK, SlotsAgree, OpenCached
<1>2. CASE OpenStart(p, no, mode)
  <2>0. PICK i \in Files \cup {Blank} : opening' = [opening EXCEPT ![p] =
               [s |-> Lowest(FreeSlots), no |-> i, mode |-> mode]]
    BY <1>2 DEF OpenStart
  <2> DEFINE req == [s |-> Lowest(FreeSlots), no |-> i, mode |-> mode]
  <2>1. req \in Requests
    BY <1>2, FreeSlotFound DEF OpenStart, Requests
  <2>2. opening' = [opening EXCEPT ![p] = req] /\ p \in alive /\ exiting = NULL
    BY <1>2, <2>0 DEF OpenStart, Calls, Runs
  <2> HIDE DEF req
  <2>3. FtTypeOK'
    BY <1>0, <1>2, <2>1, <2>2 DEF FtTypeOK, OpenStart
  <2>4. SlotsAgree'
    BY <1>0, <1>2, <2>2, FileTableAssumption DEF SlotsAgree, FtTypeOK, OpenStart
  <2> QED
    BY <2>3, <2>4 DEF FtShape
<1> QED
  BY <1>1, <1>2

LEMMA OpenReadShape ==
    ASSUME FtShape, NEW p \in Procs, stale' \in BOOLEAN, OpenRead(p)
    PROVE  FtShape'
<1>0. FtTypeOK /\ SlotsAgree
  BY DEF FtShape
<1> DEFINE r == opening[p]
           count == [i_no |-> r.no, cnts |-> 1, deny |-> FALSE, own |-> NULL]
<1>1. r \in Requests
  BY <1>0 DEF OpenRead, FtTypeOK
<1>2. r.s \in Slots /\ r.no \in Files \cup {Blank} /\ r.mode \in {"r", "w"}
  BY <1>1 DEF Requests
<1>3. count \in InodeStates
  BY <1>2 DEF InodeStates
<1>4. PICK b \in Blocks : FileOpen(p, r.s, b, count, r.mode)
  BY DEF OpenRead
<1> HIDE DEF count, r
<1>5. /\ fd_table' \in [Procs -> [Fds -> Slots \cup {-1}]]
      /\ ftab' \in [Slots -> SlotStates]
      /\ inode' \in [Blocks -> InodeStates]
      /\ \A t \in Slots :
            /\ ftab'[t].fd_inode \in Blocks => ftab'[t].fd_flag \in {"r", "w"}
            /\ ftab'[t].fd_inode = Page => ftab'[t].fd_flag = "pipe"
  BY <1>0, <1>2, <1>3, <1>4, FileOpenShape
<1> QED
  BY <1>0, <1>5 DEF FtShape, FtTypeOK, SlotsAgree, OpenRead

(* file_create: the new slot and inode, and both given back. *)
LEMMA CreateShape ==
    ASSUME FtShape, NEW p \in Procs, stale' \in BOOLEAN,
           \/ \E no \in Files, mode \in {"r", "w"} : CreateStart(p, no, mode)
           \/ CreateWrite(p) \/ CreateFails(p) \/ CreateEnd(p)
    PROVE  FtShape'
<1>0. FtTypeOK /\ SlotsAgree
  BY DEF FtShape
<1>1. ASSUME NEW no \in Files, NEW mode \in {"r", "w"}, CreateStart(p, no, mode)
      PROVE  FtShape'
  <2> DEFINE s == Lowest(FreeSlots)
  <2>1. PICK b \in Blocks :
          /\ inode' = [inode EXCEPT ![b] = [i_no |-> no, cnts |-> 0, deny |-> FALSE, own |-> p]]
          /\ ftab' = [ftab EXCEPT ![s] = [fd_inode |-> b, fd_flag |-> mode, fd_pos |-> 0]]
          /\ creating' = [creating EXCEPT ![p] = [s |-> s, b |-> b]]
    BY <1>1 DEF CreateStart
  <2>2. s \in Slots
    BY <1>1, FreeSlotFound DEF CreateStart
  <2> HIDE DEF s
  <2> DEFINE new == [fd_inode |-> b, fd_flag |-> mode, fd_pos |-> 0]
             ino == [i_no |-> no, cnts |-> 0, deny |-> FALSE, own |-> p]
             made == [s |-> s, b |-> b]
  <2>3. /\ new \in SlotStates /\ new.fd_inode = b /\ new.fd_flag = mode
        /\ ino \in InodeStates /\ made \in Creations
    BY <2>2 DEF SlotStates, InodeStates, Creations
  <2>4. /\ inode' = [inode EXCEPT ![b] = ino] /\ ftab' = [ftab EXCEPT ![s] = new]
        /\ creating' = [creating EXCEPT ![p] = made]
    BY <2>1
  <2> HIDE DEF new, ino, made
  <2>5. FtTypeOK'
    BY <1>0, <1>1, <2>2, <2>3, <2>4 DEF FtTypeOK, CreateStart
  <2>6. p \in alive /\ exiting = NULL /\ UNCHANGED <<alive, exiting, opening>>
    BY <1>1 DEF CreateStart, Calls, Runs
  <2>7. ASSUME NEW t \in Slots
        PROVE  /\ ftab'[t].fd_inode \in Blocks => ftab'[t].fd_flag \in {"r", "w"}
               /\ ftab'[t].fd_inode = Page => ftab'[t].fd_flag = "pipe"
    <3>1. CASE t = s
      BY <3>1, <1>0, <2>2, <2>3, <2>4, FileTableAssumption DEF FtTypeOK
    <3>2. CASE t # s
      BY <3>2, <1>0, <2>4 DEF FtTypeOK, SlotsAgree
    <3> QED
      BY <3>1, <3>2
  <2>8. SlotsAgree'
    BY <1>0, <2>4, <2>6, <2>7, FileTableAssumption DEF FtTypeOK, SlotsAgree
  <2> QED
    BY <2>5, <2>8 DEF FtShape
<1>2. CASE CreateWrite(p)
  <2>1. disk' \in [Files -> {"none", "entry", "inode"}]
    BY <1>0, <1>2 DEF CreateWrite, FtTypeOK
  <2>2. UNCHANGED <<alive, fd_table, ftab, inode, opening, creating, exiting, panic>>
    BY <1>2 DEF CreateWrite
  <2>3. FtTypeOK'
    BY <1>0, <2>1, <2>2, Zenon DEF FtTypeOK
  <2>4. SlotsAgree'
    BY <1>0, <2>2 DEF SlotsAgree
  <2> QED
    BY <2>3, <2>4 DEF FtShape
<1>3. CASE CreateFails(p)
  <2> DEFINE s == creating[p].s
             b == creating[p].b
  <2>1. /\ inode' = [inode EXCEPT ![b] = FreeInode] /\ ftab' = [ftab EXCEPT ![s] = FreeSlot]
        /\ creating' = [creating EXCEPT ![p] = NULL]
        /\ UNCHANGED <<alive, fd_table, disk, opening, exiting, panic>>
    BY <1>3 DEF CreateFails
  <2>2. FreeSlot \in SlotStates /\ FreeInode \in InodeStates /\ FreeSlot.fd_inode = NULL
    BY DEF FreeSlot, FreeInode, SlotStates, InodeStates
  <2> HIDE DEF s, b
  <2>3. FtTypeOK'
    BY <1>0, <2>1, <2>2 DEF FtTypeOK
  <2>4. ASSUME NEW t \in Slots
        PROVE  /\ ftab'[t].fd_inode \in Blocks => ftab'[t].fd_flag \in {"r", "w"}
               /\ ftab'[t].fd_inode = Page => ftab'[t].fd_flag = "pipe"
    <3>1. CASE t = s
      BY <3>1, <1>0, <2>1, <2>2, FileTableAssumption DEF FtTypeOK
    <3>2. CASE t # s
      BY <3>2, <1>0, <2>1 DEF FtTypeOK, SlotsAgree
    <3> QED
      BY <3>1, <3>2
  <2>5. SlotsAgree'
    BY <1>0, <2>1, <2>4 DEF FtTypeOK, SlotsAgree
  <2> QED
    BY <2>3, <2>5 DEF FtShape
<1>4. CASE CreateEnd(p)
  <2> DEFINE s == creating[p].s
             b == creating[p].b
  <2>1. /\ inode' = [inode EXCEPT ![b].cnts = 1]
        /\ creating' = [creating EXCEPT ![p] = NULL]
        /\ UNCHANGED <<alive, ftab, disk, opening, exiting, panic>>
    BY <1>4 DEF CreateEnd
  <2>2. s \in Slots /\ b \in Blocks
    BY <1>0, <1>4 DEF CreateEnd, FtTypeOK, Creations
  <2>3. PcbFdInstall(p, s)
    BY <1>4 DEF CreateEnd
  <2> HIDE DEF s, b
  <2>4. fd_table' \in [Procs -> [Fds -> Slots \cup {-1}]]
    BY <1>0, <2>2, <2>3, InstallType
  <2>5. inode' \in [Blocks -> InodeStates]
    <3>1. inode[b] \in InodeStates
      BY <1>0, <2>2 DEF FtTypeOK
    <3>2. [inode[b] EXCEPT !.cnts = 1] \in InodeStates
      BY <3>1 DEF InodeStates
    <3> QED
      BY <1>0, <2>1, <2>2, <3>2 DEF FtTypeOK
  <2>6. FtTypeOK'
    BY <1>0, <2>1, <2>4, <2>5 DEF FtTypeOK
  <2>7. SlotsAgree'
    BY <1>0, <2>1 DEF FtTypeOK, SlotsAgree
  <2> QED
    BY <2>6, <2>7 DEF FtShape
<1> QED
  BY <1>1, <1>2, <1>3, <1>4

LEMMA PipeShape ==
    ASSUME FtShape, NEW p \in Procs, stale' \in BOOLEAN, SysPipe(p)
    PROVE  FtShape'
<1>0. FtTypeOK /\ SlotsAgree
  BY DEF FtShape
<1> DEFINE s == Lowest(FreeSlots)
           new == [fd_inode |-> Page, fd_flag |-> "pipe", fd_pos |-> 2]
<1>1. s \in Slots
  BY FreeSlotFound DEF SysPipe
<1>2. new \in SlotStates /\ new.fd_inode = Page /\ new.fd_flag = "pipe"
  BY DEF SlotStates
<1>3. ftab' = [ftab EXCEPT ![s] = new]
  BY DEF SysPipe
<1>4. \E two : fd_table' = [fd_table EXCEPT ![p] = [fd \in Fds |->
                              IF fd \in two THEN s ELSE fd_table[p][fd]]]
  BY DEF SysPipe
<1> HIDE DEF s, new
<1>5. fd_table' \in [Procs -> [Fds -> Slots \cup {-1}]]
  BY <1>0, <1>1, <1>4 DEF FtTypeOK
<1>6. FtTypeOK'
  BY <1>0, <1>1, <1>2, <1>3, <1>5 DEF FtTypeOK, SysPipe
<1>7. SlotsAgree'
  BY <1>0, <1>1, <1>2, <1>3, FileTableAssumption DEF FtTypeOK, SlotsAgree, SysPipe
<1> QED
  BY <1>6, <1>7 DEF FtShape

LEMMA ForkShape ==
    ASSUME FtShape, NEW p \in Procs, NEW c \in Procs, stale' \in BOOLEAN, SysFork(p, c)
    PROVE  FtShape'
<1>0. FtTypeOK /\ SlotsAgree
  BY DEF FtShape
<1> DEFINE refs(s) == Cardinality({fd \in Fds : fd_table[p][fd] = s})
           files(b) == {fd \in Fds : fd_table[p][fd] # -1
                          /\ ftab[fd_table[p][fd]].fd_flag # "pipe"
                          /\ ftab[fd_table[p][fd]].fd_inode = b}
<1>1. \A x : refs(x) \in Nat /\ Cardinality(files(x)) \in Nat
  BY Finite
<1>2. /\ ftab' = [s \in Slots |-> IF ftab[s].fd_flag = "pipe"
                     THEN [ftab[s] EXCEPT !.fd_pos = @ + refs(s)] ELSE ftab[s]]
      /\ inode' = [b \in Blocks |-> [inode[b] EXCEPT !.cnts = @ + Cardinality(files(b))]]
      /\ panic' = (files(NULL) # {})
  BY DEF SysFork
<1> HIDE DEF refs, files
<1>3. ASSUME NEW s \in Slots
      PROVE  /\ ftab'[s] \in SlotStates
             /\ ftab'[s].fd_flag = ftab[s].fd_flag
             /\ ftab'[s].fd_inode = ftab[s].fd_inode
  <2>1. ftab[s] \in SlotStates
    BY <1>0 DEF FtTypeOK
  <2>2. [ftab[s] EXCEPT !.fd_pos = @ + refs(s)] \in SlotStates
    BY <2>1, <1>1 DEF SlotStates
  <2>3. /\ [ftab[s] EXCEPT !.fd_pos = @ + refs(s)].fd_flag = ftab[s].fd_flag
        /\ [ftab[s] EXCEPT !.fd_pos = @ + refs(s)].fd_inode = ftab[s].fd_inode
    BY <2>1 DEF SlotStates
  <2> QED
    BY <1>2, <2>1, <2>2, <2>3
<1>4. ASSUME NEW b \in Blocks PROVE inode'[b] \in InodeStates
  <2>1. inode[b] \in InodeStates
    BY <1>0 DEF FtTypeOK
  <2> QED
    BY <1>1, <1>2, <2>1 DEF InodeStates
<1>5. ftab' \in [Slots -> SlotStates]
  BY <1>2, <1>3
<1>6. inode' \in [Blocks -> InodeStates]
  BY <1>2, <1>4
<1>7. panic' \in BOOLEAN
  BY <1>2, Zenon
<1>8. fd_table' \in [Procs -> [Fds -> Slots \cup {-1}]]
  BY <1>0 DEF FtTypeOK, SysFork
<1>9. FtTypeOK'
  BY <1>0, <1>5, <1>6, <1>7, <1>8 DEF FtTypeOK, SysFork
<1>10. SlotsAgree'
  BY <1>0, <1>3 DEF SlotsAgree, SysFork
<1> QED
  BY <1>9, <1>10 DEF FtShape

LEMMA CloseShape ==
    ASSUME FtShape, NEW p \in Procs, NEW fd \in Fds, stale' \in BOOLEAN, Close(p, fd)
    PROVE  FtShape'
<1>0. FtTypeOK /\ SlotsAgree /\ fd_table[p][fd] # -1 /\ SysClose(p, fd)
  BY DEF FtShape, Close
<1>1. /\ fd_table' \in [Procs -> [Fds -> Slots \cup {-1}]]
      /\ ftab' \in [Slots -> SlotStates]
      /\ inode' \in [Blocks -> InodeStates]
      /\ panic' \in BOOLEAN
      /\ \A t \in Slots :
            /\ ftab'[t].fd_inode \in Blocks => ftab'[t].fd_flag \in {"r", "w"}
            /\ ftab'[t].fd_inode = Page => ftab'[t].fd_flag = "pipe"
  BY <1>0, SysCloseShape
<1> QED
  BY <1>0, <1>1 DEF FtShape, FtTypeOK, SlotsAgree, Close

LEMMA OpenFdFound ==
    ASSUME NEW p, FreeFds(p) # Fds
    PROVE  /\ Lowest(Fds \ FreeFds(p)) \in Fds
           /\ fd_table[p][Lowest(Fds \ FreeFds(p))] # -1
<1>1. Fds \ FreeFds(p) \in SUBSET Nat /\ Fds \ FreeFds(p) # {}
  BY FileTableAssumption DEF FreeFds
<1>2. Lowest(Fds \ FreeFds(p)) \in Fds \ FreeFds(p)
  BY <1>1, LowestIn
<1> QED
  BY <1>2 DEF FreeFds

LEMMA ExitShape ==
    ASSUME FtShape, NEW p \in Procs, stale' \in BOOLEAN, ExitStart(p) \/ ExitClose(p)
    PROVE  FtShape'
<1>0. FtTypeOK /\ SlotsAgree
  BY DEF FtShape
<1>1. CASE ExitStart(p)
  BY <1>0, <1>1, FileTableAssumption DEF FtShape, FtTypeOK, SlotsAgree, ExitStart, Calls, Runs
<1>2. CASE ExitClose(p)
  <2>1. CASE FreeFds(p) # Fds /\ SysClose(p, Lowest(Fds \ FreeFds(p)))
             /\ UNCHANGED <<alive, exiting>>
    <3>1. /\ fd_table' \in [Procs -> [Fds -> Slots \cup {-1}]]
          /\ ftab' \in [Slots -> SlotStates]
          /\ inode' \in [Blocks -> InodeStates]
          /\ panic' \in BOOLEAN
          /\ \A t \in Slots :
                /\ ftab'[t].fd_inode \in Blocks => ftab'[t].fd_flag \in {"r", "w"}
                /\ ftab'[t].fd_inode = Page => ftab'[t].fd_flag = "pipe"
      BY <1>0, <2>1, OpenFdFound, SysCloseShape
    <3> QED
      BY <1>0, <1>2, <2>1, <3>1 DEF FtShape, FtTypeOK, SlotsAgree, ExitClose
  <2>2. CASE /\ FreeFds(p) = Fds
             /\ alive' = alive \ {p} /\ exiting' = NULL
             /\ UNCHANGED <<fd_table, ftab, inode, panic>>
    BY <1>0, <1>2, <2>2, FileTableAssumption DEF FtShape, FtTypeOK, SlotsAgree, ExitClose
  <2> QED
    BY <1>2, <2>1, <2>2 DEF ExitClose
<1> QED
  BY <1>1, <1>2

LEMMA ShapeStep == FtShape /\ [FtNext]_ftVars => FtShape'
<1> SUFFICES ASSUME FtShape, [FtNext]_ftVars PROVE FtShape'
  OBVIOUS
<1>1. CASE UNCHANGED ftVars
  BY <1>1 DEF FtShape, FtTypeOK, SlotsAgree, ftVars
<1>2. CASE FtNext
  <2>1. ASSUME NEW p \in Procs, FtStep(p), stale' = (stale \/ SlotLost \/ HeapLost(p))
        PROVE  FtShape'
    <3>1. stale' \in BOOLEAN
      BY <2>1, Zenon
    <3> QED
      BY <2>1, <3>1, OpenShape, CreateShape, OpenReadShape, PipeShape, ForkShape,
         CloseShape, ExitShape DEF FtStep
  <2>2. ASSUME NEW p \in Procs, SysPipeNoSlot(p)
        PROVE  FtShape'
    <3>1. stale' \in BOOLEAN
      BY <2>2, Zenon DEF SysPipeNoSlot
    <3> QED
      BY <2>2, <3>1 DEF SysPipeNoSlot, FtShape, FtTypeOK, SlotsAgree
  <2> QED
    BY <1>2, <2>1, <2>2 DEF FtNext
<1> QED
  BY <1>1, <1>2

----------------------------------------------------------------------------
(* As long as no slot was lost, the counts agree.                          *)
LEMMA Neg == ASSUME NEW s \in Slots PROVE s # -1
  BY FileTableAssumption

(* One more use of an inode, by a new descriptor or by a slot without one. *)
LEMMA OneMore ==
    ASSUME NEW S, IsFiniteSet(S), NEW x, x \notin S
    PROVE  Cardinality(S \cup {x}) = Cardinality(S) + 1
  BY FS_AddElement

LEMMA SetsFinite ==
    ASSUME NEW b
    PROVE  /\ IsFiniteSet(Spare(b)) /\ Cardinality(Spare(b)) \in Nat
           /\ IsFiniteSet(Held(b)) /\ Cardinality(Held(b)) \in Nat
<1>1. Spare(b) \in SUBSET Slots /\ Held(b) \in SUBSET (Procs \X Fds)
  BY DEF Spare, Held
<1> QED
  BY <1>1, Finite

(* A descriptor installed for slot s, free until now, refers to s alone.   *)
LEMMA InstallRefs ==
    ASSUME FtTypeOK, alive' = alive, NEW p \in Procs, p \in alive,
           NEW s \in Slots, NEW fd \in Fds, fd_table[p][fd] = -1,
           fd_table' = [fd_table EXCEPT ![p][fd] = s]
    PROVE  /\ Refs(s)' = Refs(s) \cup {<<p, fd>>}
           /\ \A t \in Slots : t # s => Refs(t)' = Refs(t)
           /\ \A t \in Slots : <<p, fd>> \notin Refs(t)
<1>1. ASSUME NEW q \in Procs, NEW f \in Fds
      PROVE  fd_table'[q][f] = IF q = p /\ f = fd THEN s ELSE fd_table[q][f]
  BY DEF FtTypeOK
<1>2. \A t \in Slots : <<p, fd>> \notin Refs(t)
  BY Neg DEF Refs
<1>3. ASSUME NEW t \in Slots, t # s
      PROVE  Refs(t)' = Refs(t)
  BY <1>1, <1>3, Neg DEF Refs
<1>4. Refs(s)' = Refs(s) \cup {<<p, fd>>}
  BY <1>1 DEF Refs
<1> QED
  BY <1>2, <1>3, <1>4

(* What is known of a file in the making: its slot holds its inode, nobody *)
(* refers to it, and nothing else uses the inode.                          *)
LEMMA CreationFacts ==
    ASSUME FtTypeOK, CreationsAlone, CountsAgree, NEW p \in Procs, creating[p] # NULL
    PROVE  /\ creating[p].s \in Slots /\ creating[p].b \in Blocks
           /\ ftab[creating[p].s].fd_inode = creating[p].b
           /\ ftab[creating[p].s].fd_inode # NULL
           /\ Refs(creating[p].s) = {}
           /\ inode[creating[p].b].i_no # NULL /\ inode[creating[p].b].cnts = 0
           /\ Spare(creating[p].b) = {} /\ Held(creating[p].b) = {}
           /\ creating[p].s \in Uncounted
<1> DEFINE s == creating[p].s
           b == creating[p].b
<1>1. s \in Slots /\ b \in Blocks /\ b # NULL
  BY FileTableAssumption DEF FtTypeOK, Creations
<1>2. /\ ftab[s].fd_inode = b /\ Refs(s) = {}
      /\ inode[b].i_no # NULL /\ inode[b].cnts = 0
  BY DEF CreationsAlone
<1>3. s \in Uncounted
  BY <1>1 DEF Uncounted
<1> HIDE DEF s, b
<1>4. Cardinality(Spare(b)) = 0 /\ Cardinality(Held(b)) = 0
  BY <1>1, <1>2, SetsFinite DEF CountsAgree
<1>5. Spare(b) = {} /\ Held(b) = {}
  BY <1>4, SetsFinite, FS_EmptySet
<1> QED
  BY <1>1, <1>2, <1>3, <1>5 DEF s, b

(* A call of somebody else leaves a file in the making alone. *)
LEMMA CreationsKept ==
    ASSUME CreationsAlone, creating' = creating,
           \A q \in Procs : creating[q] # NULL =>
              /\ ftab'[creating[q].s].fd_inode = ftab[creating[q].s].fd_inode
              /\ Refs(creating[q].s)' = {}
              /\ inode'[creating[q].b].i_no # NULL
              /\ inode'[creating[q].b].cnts = 0
    PROVE  CreationsAlone' /\ Uncounted' = Uncounted
<1>1. CreationsAlone'
  BY DEF CreationsAlone
<1>2. Uncounted' = Uncounted
  BY DEF Uncounted
<1> QED
  BY <1>1, <1>2

(* What file_open does to the counts, slot s being free: the new use of b  *)
(* is a descriptor, or slot s when no descriptor was free or the file is   *)
(* being written.                                                          *)
LEMMA FileOpenExact ==
    ASSUME FtTypeOK, SlotsUsed, CreationsAlone, CountsAgree, PipesAgree,
           alive' = alive, creating' = creating,
           NEW p \in Procs, p \in alive,
           NEW s \in Slots, ftab[s].fd_inode = NULL,
           NEW b \in Blocks, NEW count \in InodeStates,
           \A q \in Procs : creating[q] # NULL => creating[q].b # b,
           count.i_no # NULL, count.cnts = inode[b].cnts + 1,
           NEW mode \in {"r", "w"}, FileOpen(p, s, b, count, mode)
    PROVE  /\ \A t \in Slots : Refs(t)' # {} => ftab'[t].fd_inode # NULL
           /\ \A d \in Blocks : inode'[d].i_no = NULL => inode'[d].cnts = 0
           /\ CreationsAlone'
           /\ CountsAgree'
           /\ PipesAgree'
<1>1. /\ ftab'[s].fd_inode = b /\ ftab'[s].fd_flag = mode
      /\ \A t \in Slots : t # s => ftab'[t] = ftab[t]
  BY DEF FileOpen, FtTypeOK
<1>2. /\ inode'[b].i_no = count.i_no /\ inode'[b].cnts = inode[b].cnts + 1
      /\ \A d \in Blocks : d # b => inode'[d] = inode[d]
  <2>1. \E v \in InodeStates : /\ v.i_no = count.i_no /\ v.cnts = count.cnts
                               /\ inode' = [inode EXCEPT ![b] = v]
    <3> DEFINE v == [count EXCEPT !.deny = (@ \/ mode = "w")]
    <3>1. v \in InodeStates /\ v.i_no = count.i_no /\ v.cnts = count.cnts
      BY DEF InodeStates
    <3>2. inode' = [inode EXCEPT ![b] = count] \/ inode' = [inode EXCEPT ![b] = v]
      BY DEF FileOpen
    <3> QED
      BY <3>1, <3>2
  <2> QED
    BY <2>1 DEF FtTypeOK
<1>3. Refs(s) = {}
  BY DEF SlotsUsed
<1>4. NULL \notin Blocks /\ b # NULL
  BY FileTableAssumption
<1>5. \A d \in Blocks : inode'[d].i_no = NULL => inode'[d].cnts = 0
  BY <1>2 DEF SlotsUsed
<1>6. inode[b].cnts \in Int
  BY DEF FtTypeOK, InodeStates
<1>9. s \notin Uncounted /\ Uncounted' = Uncounted
  BY CreationFacts DEF Uncounted
<1>10. ASSUME \A t \in Slots : t # s => Refs(t)' = Refs(t)
       PROVE  CreationsAlone'
  <2>1. ASSUME NEW q \in Procs, creating[q] # NULL
        PROVE  /\ ftab'[creating[q].s].fd_inode = ftab[creating[q].s].fd_inode
               /\ Refs(creating[q].s)' = {}
               /\ inode'[creating[q].b].i_no # NULL
               /\ inode'[creating[q].b].cnts = 0
    <3>1. /\ creating[q].s \in Slots /\ creating[q].s # s /\ Refs(creating[q].s) = {}
          /\ creating[q].b \in Blocks /\ creating[q].b # b
          /\ inode[creating[q].b].i_no # NULL /\ inode[creating[q].b].cnts = 0
      BY <1>9, <2>1, CreationFacts
    <3> QED
      BY <1>1, <1>2, <1>10, <3>1
  <2> QED
    BY <2>1, CreationsKept
<1>7. CASE fd_table' = fd_table
  <2>1. \A t \in Slots : Refs(t)' = Refs(t)
    BY <1>7 DEF Refs
  <2>2. \A t \in Slots : Refs(t)' # {} => ftab'[t].fd_inode # NULL
    BY <1>1, <1>3, <2>1 DEF SlotsUsed
  <2>3. PipesAgree'
    BY <1>1, <1>3, <2>1 DEF PipesAgree
  <2>4. ASSUME NEW d \in Blocks
        PROVE  inode'[d].cnts = Cardinality(Spare(d)') + Cardinality(Held(d)')
    <3>1. Held(d)' = Held(d)
      BY <1>1, <1>3, <2>1 DEF Held
    <3>2. CASE d = b
      <4>1. Spare(b)' = Spare(b) \cup {s} /\ s \notin Spare(b)
        BY <1>1, <1>3, <1>4, <1>9, <2>1 DEF Spare
      <4>2. Cardinality(Spare(b)') = Cardinality(Spare(b)) + 1
        BY <4>1, SetsFinite, OneMore
      <4> QED
        BY <1>2, <3>1, <3>2, <4>2, SetsFinite DEF CountsAgree
    <3>3. CASE d # b
      <4>1. Spare(d)' = Spare(d)
        BY <1>1, <1>4, <1>9, <2>1, <3>3 DEF Spare
      <4> QED
        BY <1>2, <3>1, <3>3, <4>1 DEF CountsAgree
    <3> QED
      BY <3>2, <3>3
  <2> QED
    BY <1>5, <1>10, <2>1, <2>2, <2>3, <2>4 DEF CountsAgree
<1>8. CASE FreeFds(p) # {} /\ fd_table' = [fd_table EXCEPT ![p][Lowest(FreeFds(p))] = s]
  <2> DEFINE fd == Lowest(FreeFds(p))
  <2>0. fd \in Fds /\ fd_table[p][fd] = -1 /\ fd_table' = [fd_table EXCEPT ![p][fd] = s]
    BY <1>8, FreeFdFound
  <2> HIDE DEF fd
  <2>1. /\ Refs(s)' = {<<p, fd>>}
        /\ \A t \in Slots : t # s => Refs(t)' = Refs(t)
        /\ \A t \in Slots : <<p, fd>> \notin Refs(t)
    <3>1. /\ Refs(s)' = Refs(s) \cup {<<p, fd>>}
          /\ \A t \in Slots : t # s => Refs(t)' = Refs(t)
          /\ \A t \in Slots : <<p, fd>> \notin Refs(t)
      BY <2>0, InstallRefs
    <3> QED
      BY <1>3, <3>1
  <2>2. \A t \in Slots : Refs(t)' # {} => ftab'[t].fd_inode # NULL
    BY <1>1, <1>4, <2>1 DEF SlotsUsed
  <2>3. PipesAgree'
    BY <1>1, <2>1 DEF PipesAgree
  <2>4. ASSUME NEW d \in Blocks
        PROVE  inode'[d].cnts = Cardinality(Spare(d)') + Cardinality(Held(d)')
    <3>1. Spare(d)' = Spare(d)
      <4>1. ASSUME NEW t \in Slots PROVE t \in Spare(d)' <=> t \in Spare(d)
        <5>1. CASE t = s
          BY <5>1, <1>4, <2>1 DEF Spare
        <5>2. CASE t # s
          BY <5>2, <1>1, <1>9, <2>1 DEF Spare
        <5> QED
          BY <5>1, <5>2
      <4> QED
        BY <4>1 DEF Spare
    <3>2. CASE d = b
      <4>1. Held(b)' = Held(b) \cup {<<p, fd>>} /\ <<p, fd>> \notin Held(b)
        BY <1>1, <1>3, <2>0, <2>1 DEF Held
      <4>2. Cardinality(Held(b)') = Cardinality(Held(b)) + 1
        BY <4>1, SetsFinite, OneMore
      <4> QED
        BY <1>2, <3>1, <3>2, <4>2, SetsFinite DEF CountsAgree
    <3>3. CASE d # b
      <4>1. Held(d)' = Held(d)
        BY <1>1, <1>3, <2>1, <3>3 DEF Held
      <4> QED
        BY <1>2, <3>1, <3>3, <4>1 DEF CountsAgree
    <3> QED
      BY <3>2, <3>3
  <2> QED
    BY <1>5, <1>10, <2>1, <2>2, <2>3, <2>4 DEF CountsAgree
<1> QED
  BY <1>7, <1>8 DEF FileOpen, PcbFdInstall

(* The slot chosen by a sleeping file_open is free, or it was lost.        *)
LEMMA ChosenFree ==
    ASSUME ~SlotLost
    PROVE  \A p \in Procs : opening'[p] # NULL => ftab'[opening'[p].s].fd_inode = NULL
  BY DEF SlotLost

LEMMA OpenCachedExact ==
    ASSUME FtShape, FtExact, ~SlotLost, NEW p \in Procs, NEW no \in Files,
           NEW mode \in {"r", "w"}, OpenCached(p, no, mode)
    PROVE  FtExact'
<1>0. FtTypeOK /\ SlotsUsed /\ CreationsAlone /\ CountsAgree /\ PipesAgree /\ panic = FALSE
  BY DEF FtShape, FtExact
<1> DEFINE s == Lowest(FreeSlots)
           count(b) == [inode[b] EXCEPT !.cnts = @ + 1]
<1>1. PICK b \in Listed : inode[b].i_no = no /\ FileOpen(p, s, b, count(b), mode)
  BY DEF OpenCached, Cached
<1>9. b \in Blocks /\ \A q \in Procs : creating[q] # NULL => creating[q].b # b
  BY DEF Listed
<1>2. s \in Slots /\ ftab[s].fd_inode = NULL
  BY FreeSlotFound DEF OpenCached
<1>3. inode[b] \in InodeStates
  BY <1>0, <1>9 DEF FtTypeOK
<1>4. /\ count(b) \in InodeStates /\ count(b).cnts = inode[b].cnts + 1
      /\ count(b).i_no = no /\ no # NULL
  BY <1>1, <1>3, FileTableAssumption DEF InodeStates
<1>5. p \in alive /\ alive' = alive /\ creating' = creating /\ panic' = FALSE
  BY <1>0, Zenon DEF OpenCached, Calls, Runs
<1> HIDE DEF s, count
<1>6. /\ \A t \in Slots : Refs(t)' # {} => ftab'[t].fd_inode # NULL
      /\ \A d \in Blocks : inode'[d].i_no = NULL => inode'[d].cnts = 0
      /\ CreationsAlone'
      /\ CountsAgree'
      /\ PipesAgree'
  BY <1>0, <1>1, <1>2, <1>4, <1>5, <1>9, FileOpenExact
<1>7. SlotsUsed'
  BY <1>6, ChosenFree DEF SlotsUsed
<1> QED
  BY <1>5, <1>6, <1>7 DEF FtExact

LEMMA OpenReadExact ==
    ASSUME FtShape, FtExact, ~SlotLost, NEW p \in Procs, OpenRead(p)
    PROVE  FtExact'
<1>0. FtTypeOK /\ SlotsUsed /\ CreationsAlone /\ CountsAgree /\ PipesAgree /\ panic = FALSE
  BY DEF FtShape, FtExact
<1> DEFINE r == opening[p]
           count == [i_no |-> r.no, cnts |-> 1, deny |-> FALSE, own |-> NULL]
<1>1. r \in Requests
  BY <1>0 DEF OpenRead, FtTypeOK
<1>2. r.s \in Slots /\ r.no \in Files \cup {Blank} /\ r.mode \in {"r", "w"} /\ r.no # NULL
  BY <1>1, FileTableAssumption DEF Requests
<1>3. ftab[r.s].fd_inode = NULL
  BY <1>0 DEF OpenRead, SlotsUsed
<1>4. PICK b \in Blocks : inode[b].i_no = NULL /\ FileOpen(p, r.s, b, count, r.mode)
  BY DEF OpenRead
<1>5. inode[b].cnts = 0
  BY <1>0, <1>4 DEF SlotsUsed
<1>6. /\ count \in InodeStates /\ count.cnts = inode[b].cnts + 1
      /\ count.i_no # NULL
  BY <1>2, <1>5 DEF InodeStates
<1>7. p \in alive /\ alive' = alive /\ creating' = creating /\ panic' = FALSE
  BY <1>0, Zenon DEF OpenRead, Runs
<1>10. \A q \in Procs : creating[q] # NULL => creating[q].b # b
  BY <1>0, <1>4, CreationFacts
<1> HIDE DEF r, count
<1>8. /\ \A t \in Slots : Refs(t)' # {} => ftab'[t].fd_inode # NULL
      /\ \A d \in Blocks : inode'[d].i_no = NULL => inode'[d].cnts = 0
      /\ CreationsAlone'
      /\ CountsAgree'
      /\ PipesAgree'
  BY <1>0, <1>2, <1>3, <1>4, <1>6, <1>7, <1>10, FileOpenExact
<1>9. SlotsUsed'
  BY <1>8, ChosenFree DEF SlotsUsed
<1> QED
  BY <1>7, <1>8, <1>9 DEF FtExact

(* file_create fills a free slot with an inode that has no count; neither  *)
(* the spare slots nor the descriptors of any inode change (file.c:125).   *)
LEMMA CreateStartExact ==
    ASSUME FtShape, FtExact, ~SlotLost, NEW p \in Procs, NEW no \in Files,
           NEW mode \in {"r", "w"}, CreateStart(p, no, mode)
    PROVE  FtExact'
<1>0. FtTypeOK /\ SlotsUsed /\ CreationsAlone /\ CountsAgree /\ PipesAgree /\ panic = FALSE
  BY DEF FtShape, FtExact
<1> DEFINE s == Lowest(FreeSlots)
<1>1. s \in Slots /\ ftab[s].fd_inode = NULL
  BY FreeSlotFound DEF CreateStart
<1>2. PICK b \in Blocks :
        /\ inode[b].i_no = NULL
        /\ inode' = [inode EXCEPT ![b] = [i_no |-> no, cnts |-> 0, deny |-> FALSE, own |-> p]]
        /\ ftab' = [ftab EXCEPT ![s] = [fd_inode |-> b, fd_flag |-> mode, fd_pos |-> 0]]
        /\ creating' = [creating EXCEPT ![p] = [s |-> s, b |-> b]]
  BY DEF CreateStart
<1>3. creating[p] = NULL /\ panic' = FALSE
  BY <1>0, Zenon DEF CreateStart, Calls
<1>4. \A t \in Slots : Refs(t)' = Refs(t)
  BY DEF CreateStart, Refs
<1> HIDE DEF s
<1>5. /\ ftab'[s].fd_inode = b /\ ftab'[s].fd_flag = mode
      /\ \A t \in Slots : t # s => ftab'[t] = ftab[t]
  BY <1>0, <1>1, <1>2 DEF FtTypeOK
<1>6. /\ inode'[b].i_no = no /\ inode'[b].cnts = 0
      /\ \A d \in Blocks : d # b => inode'[d] = inode[d]
  BY <1>0, <1>2 DEF FtTypeOK
<1>7. /\ creating'[p] = [s |-> s, b |-> b]
      /\ \A q \in Procs : q # p => creating'[q] = creating[q]
  BY <1>0, <1>2 DEF FtTypeOK
<1>8. no # NULL /\ b # NULL /\ NULL \notin Blocks
  BY FileTableAssumption
<1>9. inode[b].cnts = 0 /\ Refs(s) = {}
  BY <1>0, <1>1, <1>2 DEF SlotsUsed
<1>10. ASSUME NEW q \in Procs, q # p, creating[q] # NULL
       PROVE  creating[q].s # s /\ creating[q].b # b /\ creating[q].s \in Slots
              /\ creating[q].b \in Blocks
  BY <1>0, <1>1, <1>2, <1>10, CreationFacts
<1>11. CreationsAlone'
  <2>0. [s |-> s, b |-> b].s = s /\ [s |-> s, b |-> b].b = b
    OBVIOUS
  <2>1. /\ ftab'[creating'[p].s].fd_inode = creating'[p].b
        /\ Refs(creating[p].s)' = {}
        /\ inode'[creating'[p].b].i_no # NULL /\ inode'[creating'[p].b].cnts = 0
        /\ creating'[p].b = b
    BY <1>1, <1>4, <1>5, <1>6, <1>7, <1>8, <1>9, <2>0
  <2>2. ASSUME NEW q \in Procs, q # p, creating'[q] # NULL
        PROVE  /\ ftab'[creating'[q].s].fd_inode = creating'[q].b
               /\ Refs(creating[q].s)' = {}
               /\ inode'[creating'[q].b].i_no # NULL /\ inode'[creating'[q].b].cnts = 0
               /\ creating'[q].b # b
               /\ creating'[q] = creating[q]
    BY <1>0, <1>4, <1>5, <1>6, <1>7, <1>10, <2>2, CreationFacts
  <2>3. ASSUME NEW q \in Procs, creating'[q] # NULL, NEW u \in Procs, u # q,
               creating'[u] # NULL
        PROVE  creating'[u].b # creating'[q].b
    <3>1. CASE q = p \/ u = p
      BY <3>1, <2>1, <2>2, <2>3
    <3>2. CASE q # p /\ u # p
      BY <3>2, <1>0, <1>7, <2>3 DEF CreationsAlone
    <3> QED
      BY <3>1, <3>2
  <2> QED
    BY <2>1, <2>2, <2>3 DEF CreationsAlone
<1>12. Uncounted' = Uncounted \cup {s}
  <2>0. [s |-> s, b |-> b].s = s /\ [s |-> s, b |-> b] # NULL
    BY <1>1, FileTableAssumption
  <2>1. ASSUME NEW t \in Slots PROVE t \in Uncounted' <=> t \in Uncounted \/ t = s
    BY <1>1, <1>3, <1>7, <2>0 DEF Uncounted
  <2> QED
    BY <1>1, <2>1 DEF Uncounted
<1>13. ASSUME NEW d \in Blocks PROVE Spare(d)' = Spare(d) /\ Held(d)' = Held(d)
  <2>1. \A t \in Slots : t \in Spare(d)' <=> t \in Spare(d)
    BY <1>1, <1>4, <1>5, <1>8, <1>12 DEF Spare
  <2>2. Spare(d)' = Spare(d)
    BY <2>1 DEF Spare
  <2>3. Held(d)' = Held(d)
    BY <1>4, <1>5, <1>9 DEF Held
  <2> QED
    BY <2>2, <2>3
<1>14. CountsAgree'
  BY <1>0, <1>6, <1>9, <1>13 DEF CountsAgree
<1>15. PipesAgree'
  BY <1>0, <1>4, <1>5, <1>9 DEF PipesAgree
<1>16. SlotsUsed'
  BY <1>0, <1>4, <1>5, <1>6, <1>8, ChosenFree DEF SlotsUsed
<1> QED
  BY <1>3, <1>11, <1>14, <1>15, <1>16 DEF FtExact

(* The way back, when the directory is full (file.c:166). *)
LEMMA CreateFailsExact ==
    ASSUME FtShape, FtExact, ~SlotLost, NEW p \in Procs, CreateFails(p)
    PROVE  FtExact'
<1>0. FtTypeOK /\ SlotsUsed /\ CreationsAlone /\ CountsAgree /\ PipesAgree /\ panic = FALSE
  BY DEF FtShape, FtExact
<1> DEFINE s == creating[p].s
           b == creating[p].b
<1>1. /\ creating[p] # NULL /\ panic' = FALSE
      /\ ftab' = [ftab EXCEPT ![s] = FreeSlot]
      /\ inode' = [inode EXCEPT ![b] = FreeInode]
      /\ creating' = [creating EXCEPT ![p] = NULL]
  BY <1>0, Zenon DEF CreateFails
<1>2. /\ s \in Slots /\ b \in Blocks /\ Refs(s) = {} /\ ftab[s].fd_inode = b
      /\ inode[b].cnts = 0 /\ Spare(b) = {} /\ Held(b) = {} /\ s \in Uncounted
  BY <1>0, <1>1, CreationFacts
<1>3. \A t \in Slots : Refs(t)' = Refs(t)
  BY DEF CreateFails, Refs
<1>4. ASSUME NEW q \in Procs, q # p, creating[q] # NULL
      PROVE  creating[q].s # s /\ creating[q].b # b /\ creating[q].s \in Slots
             /\ creating[q].b \in Blocks
  BY <1>0, <1>1, <1>2, <1>4, CreationFacts DEF CreationsAlone
<1> HIDE DEF s, b
<1>5. /\ ftab'[s].fd_inode = NULL /\ ftab'[s].fd_flag = "none"
      /\ \A t \in Slots : t # s => ftab'[t] = ftab[t]
  BY <1>0, <1>1, <1>2 DEF FtTypeOK, FreeSlot
<1>6. /\ inode'[b].cnts = 0
      /\ \A d \in Blocks : d # b => inode'[d] = inode[d]
  BY <1>0, <1>1, <1>2 DEF FtTypeOK, FreeInode
<1>7. /\ creating'[p] = NULL
      /\ \A q \in Procs : q # p => creating'[q] = creating[q]
  BY <1>0, <1>1 DEF FtTypeOK
<1>8. CreationsAlone'
  <2>1. ASSUME NEW q \in Procs, creating'[q] # NULL
        PROVE  /\ ftab'[creating'[q].s].fd_inode = creating'[q].b
               /\ Refs(creating[q].s)' = {}
               /\ inode'[creating'[q].b].i_no # NULL /\ inode'[creating'[q].b].cnts = 0
    BY <1>0, <1>3, <1>4, <1>5, <1>6, <1>7, <2>1, CreationFacts
  <2>2. ASSUME NEW q \in Procs, creating'[q] # NULL, NEW u \in Procs, u # q,
               creating'[u] # NULL
        PROVE  creating'[u].b # creating'[q].b
    BY <1>0, <1>7, <2>2 DEF CreationsAlone
  <2> QED
    BY <2>1, <2>2 DEF CreationsAlone
<1>9. Uncounted' = Uncounted \ {s}
  <2>1. ASSUME NEW t \in Slots PROVE t \in Uncounted' <=> t \in Uncounted /\ t # s
    BY <1>1, <1>4, <1>7 DEF Uncounted, s
  <2> QED
    BY <2>1 DEF Uncounted
<1>10. NULL \notin Blocks
  BY FileTableAssumption
<1>11. ASSUME NEW d \in Blocks PROVE Spare(d)' = Spare(d) /\ Held(d)' = Held(d)
  <2>1. \A t \in Slots : t \in Spare(d)' <=> t \in Spare(d)
    BY <1>2, <1>3, <1>5, <1>9, <1>10 DEF Spare
  <2>2. Spare(d)' = Spare(d)
    BY <2>1 DEF Spare
  <2>3. Held(d)' = Held(d)
    BY <1>2, <1>3, <1>5, <1>10 DEF Held
  <2> QED
    BY <2>2, <2>3
<1>12. CountsAgree'
  BY <1>0, <1>2, <1>6, <1>11 DEF CountsAgree
<1>13. PipesAgree'
  BY <1>0, <1>2, <1>3, <1>5 DEF PipesAgree
<1>14. SlotsUsed'
  BY <1>0, <1>2, <1>3, <1>5, <1>6, ChosenFree DEF SlotsUsed
<1> QED
  BY <1>1, <1>8, <1>12, <1>13, <1>14 DEF FtExact

(* The end of file_create: the count is 1, for the descriptor installed or *)
(* for the slot without one (file.c:156).                                  *)
LEMMA CreateEndExact ==
    ASSUME FtShape, FtExact, ~SlotLost, NEW p \in Procs, CreateEnd(p)
    PROVE  FtExact'
<1>0. FtTypeOK /\ SlotsUsed /\ CreationsAlone /\ CountsAgree /\ PipesAgree /\ panic = FALSE
  BY DEF FtShape, FtExact
<1>12. creating[p] # NULL
  BY DEF CreateEnd
<1>13. PICK s \in Slots, b \in Blocks : s = creating[p].s /\ b = creating[p].b
  BY <1>0, <1>12, CreationFacts
<1>1. /\ creating[p] # NULL /\ panic' = FALSE /\ p \in alive
      /\ alive' = alive /\ ftab' = ftab
      /\ inode' = [inode EXCEPT ![b].cnts = 1]
      /\ creating' = [creating EXCEPT ![p] = NULL]
  BY <1>0, <1>13, Zenon DEF CreateEnd, Runs
<1>2. /\ s \in Slots /\ b \in Blocks /\ Refs(s) = {} /\ ftab[s].fd_inode = b
      /\ inode[b].cnts = 0 /\ inode[b].i_no # NULL
      /\ Spare(b) = {} /\ Held(b) = {} /\ s \in Uncounted
  BY <1>0, <1>1, <1>13, CreationFacts
<1>3. ASSUME NEW q \in Procs, q # p, creating[q] # NULL
      PROVE  creating[q].s # s /\ creating[q].b # b /\ creating[q].s \in Slots
             /\ creating[q].b \in Blocks
  BY <1>0, <1>1, <1>2, <1>3, <1>13, CreationFacts DEF CreationsAlone
<1>4. PcbFdInstall(p, s)
  BY <1>13 DEF CreateEnd
<1>5. Uncounted' = Uncounted \ {s}
  <2>1. /\ creating'[p] = NULL
        /\ \A q \in Procs : q # p => creating'[q] = creating[q]
    BY <1>0, <1>1 DEF FtTypeOK
  <2>2. ASSUME NEW t \in Slots PROVE t \in Uncounted' <=> t \in Uncounted /\ t # s
    BY <1>1, <1>3, <1>13, <2>1 DEF Uncounted
  <2> QED
    BY <2>2 DEF Uncounted
<1>6. /\ inode'[b].cnts = 1 /\ inode'[b].i_no = inode[b].i_no
      /\ \A d \in Blocks : d # b => inode'[d] = inode[d]
  <2>1. inode[b] \in InodeStates
    BY <1>0, <1>2 DEF FtTypeOK
  <2> QED
    BY <1>0, <1>1, <1>2, <2>1 DEF FtTypeOK, InodeStates
<1>7. /\ creating'[p] = NULL
      /\ \A q \in Procs : q # p => creating'[q] = creating[q]
  BY <1>0, <1>1 DEF FtTypeOK
<1>8. NULL \notin Blocks
  BY FileTableAssumption
<1>9. ASSUME NEW R, Refs(s)' = R, \A t \in Slots : t # s => Refs(t)' = Refs(t)
      PROVE  SlotsUsed' /\ CreationsAlone' /\ PipesAgree'
  <2>1. SlotsUsed'
    BY <1>0, <1>1, <1>2, <1>6, <1>8, <1>9, ChosenFree DEF SlotsUsed
  <2>2. PipesAgree'
    <3>1. ftab[s].fd_flag # "pipe"
      BY <1>2 DEF FtShape, SlotsAgree
    <3> QED
      BY <1>0, <1>1, <1>2, <1>9, <3>1 DEF PipesAgree
  <2>3. CreationsAlone'
    <3>1. ASSUME NEW q \in Procs, creating'[q] # NULL
          PROVE  /\ ftab'[creating'[q].s].fd_inode = creating'[q].b
                 /\ Refs(creating[q].s)' = {}
                 /\ inode'[creating'[q].b].i_no # NULL /\ inode'[creating'[q].b].cnts = 0
      BY <1>0, <1>1, <1>3, <1>6, <1>7, <1>9, <3>1, CreationFacts
    <3>2. ASSUME NEW q \in Procs, creating'[q] # NULL, NEW u \in Procs, u # q,
                 creating'[u] # NULL
          PROVE  creating'[u].b # creating'[q].b
      BY <1>0, <1>7, <3>2 DEF CreationsAlone
    <3> QED
      BY <3>1, <3>2 DEF CreationsAlone
  <2> QED
    BY <2>1, <2>2, <2>3
<1>10. CASE fd_table' = fd_table
  <2>1. \A t \in Slots : Refs(t)' = Refs(t)
    BY <1>1, <1>10 DEF Refs
  <2>2. ASSUME NEW d \in Blocks
        PROVE  inode'[d].cnts = Cardinality(Spare(d)') + Cardinality(Held(d)')
    <3>1. Held(d)' = Held(d)
      BY <1>1, <2>1 DEF Held
    <3>2. CASE d = b
      <4>1. \A t \in Slots : t \in Spare(b)' <=> t = s
        <5>1. ASSUME NEW t \in Slots, t # s PROVE t \in Spare(b)' <=> t \in Spare(b)
          BY <1>1, <1>5, <2>1, <5>1 DEF Spare
        <5>2. s \in Spare(b)'
          BY <1>1, <1>2, <1>5, <2>1 DEF Spare
        <5> QED
          BY <1>2, <5>1, <5>2
      <4>2. Spare(b)' = {s}
        BY <1>2, <4>1 DEF Spare
      <4>3. Cardinality(Spare(b)') = 1 /\ Cardinality(Held(b)') = 0
        BY <1>2, <3>1, <3>2, <4>2, FS_Singleton, FS_EmptySet
      <4> QED
        BY <1>6, <3>2, <4>3
    <3>3. CASE d # b
      <4>1. Spare(d)' = Spare(d)
        BY <1>1, <1>2, <1>5, <2>1, <3>3 DEF Spare
      <4> QED
        BY <1>0, <1>6, <3>1, <3>3, <4>1 DEF CountsAgree
    <3> QED
      BY <3>2, <3>3
  <2> QED
    BY <1>1, <1>9, <2>1, <2>2 DEF CountsAgree, FtExact
<1>11. CASE FreeFds(p) # {} /\ fd_table' = [fd_table EXCEPT ![p][Lowest(FreeFds(p))] = s]
  <2> DEFINE fd == Lowest(FreeFds(p))
  <2>0. fd \in Fds /\ fd_table[p][fd] = -1 /\ fd_table' = [fd_table EXCEPT ![p][fd] = s]
    BY <1>11, FreeFdFound
  <2> HIDE DEF fd
  <2>1. /\ Refs(s)' = Refs(s) \cup {<<p, fd>>}
        /\ \A t \in Slots : t # s => Refs(t)' = Refs(t)
        /\ \A t \in Slots : <<p, fd>> \notin Refs(t)
    <3>1. FtTypeOK /\ alive' = alive /\ p \in alive /\ s \in Slots
      BY <1>0, <1>1, <1>2
    <3> QED
      BY <2>0, <3>1, InstallRefs
  <2>2. ASSUME NEW d \in Blocks
        PROVE  inode'[d].cnts = Cardinality(Spare(d)') + Cardinality(Held(d)')
    <3>1. Spare(d)' = Spare(d)
      <4>1. ASSUME NEW t \in Slots PROVE t \in Spare(d)' <=> t \in Spare(d)
        <5>1. CASE t = s
          <6>1. Refs(s)' # {}
            BY <2>1
          <6> QED
            BY <5>1, <6>1, <1>2 DEF Spare
        <5>2. CASE t # s
          BY <5>2, <1>1, <1>5, <2>1 DEF Spare
        <5> QED
          BY <5>1, <5>2
      <4> QED
        BY <4>1 DEF Spare
    <3>2. CASE d = b
      <4>1. \A t \in Slots : ftab[t].fd_inode = b => Refs(t)' = IF t = s THEN {<<p, fd>>} ELSE Refs(t)
        BY <1>2, <2>1
      <4>2. Held(b)' = {<<p, fd>>}
        BY <1>1, <1>2, <2>0, <4>1 DEF Held
      <4>3. Cardinality(Held(b)') = 1 /\ Cardinality(Spare(b)') = 0
        BY <1>2, <3>1, <3>2, <4>2, FS_Singleton, FS_EmptySet
      <4> QED
        BY <1>6, <3>2, <4>3
    <3>3. CASE d # b
      <4>1. Held(d)' = Held(d)
        BY <1>1, <1>2, <2>1, <3>3 DEF Held
      <4> QED
        BY <1>0, <1>6, <3>1, <3>3, <4>1 DEF CountsAgree
    <3> QED
      BY <3>2, <3>3
  <2> QED
    BY <1>1, <1>9, <2>1, <2>2 DEF CountsAgree, FtExact
<1> QED
  BY <1>4, <1>10, <1>11 DEF PcbFdInstall

(* A step that changes neither the tables nor the counts. *)
LEMMA TablesKept ==
    ASSUME FtTypeOK, FtExact, ~SlotLost, panic' = FALSE, ftab' = ftab, inode' = inode,
           creating' = creating, \A t \in Slots : Refs(t)' = Refs(t)
    PROVE  FtExact'
<1>5. CreationsAlone' /\ Uncounted' = Uncounted
  BY CreationFacts, CreationsKept DEF FtExact
<1>1. \A d \in Blocks : Spare(d)' = Spare(d) /\ Held(d)' = Held(d)
  BY <1>5 DEF Spare, Held
<1>2. CountsAgree'
  BY <1>1 DEF FtExact, CountsAgree
<1>3. PipesAgree'
  BY DEF FtExact, PipesAgree
<1>4. SlotsUsed'
  BY ChosenFree DEF FtExact, SlotsUsed
<1> QED
  BY <1>2, <1>3, <1>4, <1>5 DEF FtExact

(* sys_pipe counts two descriptors and installs at most two, in one slot   *)
(* (pipe.c:31).                                                            *)
LEMMA PipeExact ==
    ASSUME FtShape, FtExact, ~SlotLost, NEW p \in Procs, SysPipe(p)
    PROVE  FtExact'
<1>0. FtTypeOK /\ SlotsUsed /\ CreationsAlone /\ CountsAgree /\ PipesAgree /\ panic = FALSE
  BY DEF FtShape, FtExact
<1> DEFINE one == Lowest(FreeFds(p))
           other == Lowest(FreeFds(p) \ {one})
           two == IF FreeFds(p) = {} THEN {}
                  ELSE IF FreeFds(p) = {one} THEN {one}
                  ELSE {one, other}
<1>1. PICK s \in Slots : s = Lowest(FreeSlots) /\ ftab[s].fd_inode = NULL
  BY FreeSlotFound DEF SysPipe
<1>2. two \subseteq FreeFds(p) /\ two \subseteq {one, other}
  <2>1. FreeFds(p) \in SUBSET Nat
    BY FileTableAssumption DEF FreeFds
  <2>2. FreeFds(p) # {} => one \in FreeFds(p)
    BY <2>1, LowestIn
  <2> HIDE DEF one
  <2>3. FreeFds(p) # {} /\ FreeFds(p) # {one} => other \in FreeFds(p)
    <3>1. FreeFds(p) \ {one} \in SUBSET Nat
      BY <2>1
    <3> QED
      BY <2>2, <3>1, LowestIn
  <2> QED
    BY <2>2, <2>3
<1>3. fd_table' = [fd_table EXCEPT ![p] = [fd \in Fds |->
                     IF fd \in two THEN s ELSE fd_table[p][fd]]]
  BY <1>1 DEF SysPipe
<1>4. /\ ftab'[s].fd_inode = Page /\ ftab'[s].fd_flag = "pipe" /\ ftab'[s].fd_pos = 2
      /\ \A t \in Slots : t # s => ftab'[t] = ftab[t]
  BY <1>0, <1>1 DEF SysPipe, FtTypeOK
<1> HIDE DEF one, other, two
<1>5. /\ inode' = inode /\ creating' = creating /\ alive' = alive /\ p \in alive
      /\ panic' = FALSE
  BY <1>0, Zenon DEF SysPipe, Calls, Runs
<1>6. Refs(s) = {}
  BY <1>0, <1>1 DEF SlotsUsed
<1>7. ASSUME NEW q \in Procs, NEW f \in Fds
      PROVE  fd_table'[q][f] = IF q = p /\ f \in two THEN s ELSE fd_table[q][f]
  BY <1>0, <1>3 DEF FtTypeOK
<1>8. ASSUME NEW t \in Slots, t # s PROVE Refs(t)' = Refs(t)
  BY <1>2, <1>5, <1>7, <1>8, Neg DEF Refs, FreeFds
<1>9. Refs(s)' \subseteq {<<p, one>>, <<p, other>>}
  <2>1. ASSUME NEW q \in Refs(s)' PROVE q = <<p, one>> \/ q = <<p, other>>
    <3>1. q \in Procs \X Fds /\ q[1] \in alive /\ fd_table'[q[1]][q[2]] = s
      BY <1>5, <2>1 DEF Refs
    <3>2. q \notin Refs(s)
      BY <1>6
    <3>3. q[1] = p /\ q[2] \in two
      BY <1>7, <3>1, <3>2 DEF Refs
    <3> QED
      BY <1>2, <3>1, <3>3
  <2> QED
    BY <2>1
<1>10. Cardinality(Refs(s)') <= 2
  <2> DEFINE A == {<<p, one>>}
             B == A \cup {<<p, other>>}
  <2>1. IsFiniteSet(A) /\ Cardinality(A) = 1
    BY FS_Singleton
  <2>2. Refs(s)' \in SUBSET B
    BY <1>9
  <2> HIDE DEF A
  <2>3. IsFiniteSet(B) /\ Cardinality(B) \in {1, 2}
    <3>1. /\ IsFiniteSet(A \cup {<<p, other>>})
          /\ Cardinality(A \cup {<<p, other>>}) =
               IF <<p, other>> \in A THEN Cardinality(A) ELSE Cardinality(A) + 1
      BY ONLY <2>1, FS_AddElement, Zenon
    <3> QED
      BY <2>1, <3>1
  <2> HIDE DEF B
  <2>4. IsFiniteSet(Refs(s)') /\ Cardinality(Refs(s)') <= Cardinality(B)
    BY <2>2, <2>3, FS_Subset
  <2>5. Cardinality(Refs(s)') \in Nat
    BY <2>4, FS_CardinalityType
  <2> QED
    BY <2>3, <2>4, <2>5
<1>11. NULL \notin Blocks /\ Page \notin Blocks /\ Page # NULL
  BY FileTableAssumption
<1>16. CreationsAlone' /\ Uncounted' = Uncounted
  <2>1. ASSUME NEW q \in Procs, creating[q] # NULL
        PROVE  /\ ftab'[creating[q].s].fd_inode = ftab[creating[q].s].fd_inode
               /\ Refs(creating[q].s)' = {}
               /\ inode'[creating[q].b].i_no # NULL
               /\ inode'[creating[q].b].cnts = 0
    BY <1>0, <1>1, <1>4, <1>5, <1>8, <2>1, CreationFacts
  <2> QED
    BY <1>0, <1>5, <2>1, CreationsKept
<1>12. ASSUME NEW d \in Blocks PROVE Spare(d)' = Spare(d) /\ Held(d)' = Held(d)
  <2>1. \A t \in Slots : t \in Spare(d)' <=> t \in Spare(d)
    BY <1>1, <1>4, <1>8, <1>11, <1>16 DEF Spare
  <2>2. Spare(d)' = Spare(d)
    BY <2>1 DEF Spare
  <2>3. Held(d)' = Held(d)
    BY <1>1, <1>4, <1>8, <1>11 DEF Held
  <2> QED
    BY <2>2, <2>3
<1>13. CountsAgree'
  BY <1>0, <1>5, <1>12 DEF CountsAgree
<1>14. PipesAgree'
  BY <1>0, <1>4, <1>8, <1>10 DEF PipesAgree
<1>15. SlotsUsed'
  BY <1>0, <1>4, <1>5, <1>8, <1>11, ChosenFree DEF SlotsUsed
<1> QED
  BY <1>5, <1>13, <1>14, <1>15, <1>16 DEF FtExact

(* sys_close of a pipe gives up one descriptor and one count; of a file,   *)
(* unless other descriptors share the slot, the only descriptor of the     *)
(* slot, one count of the inode, and the slot.                             *)
LEMMA SysCloseExact ==
    ASSUME FtShape, FtExact, alive' = alive, creating' = creating,
           NEW p \in Procs, p \in alive, NEW fd \in Fds,
           ~SlotLost, ~HeapLost(p),
           fd_table[p][fd] # -1, SysClose(p, fd)
    PROVE  FtExact'
<1>0. FtTypeOK /\ SlotsUsed /\ CreationsAlone /\ CountsAgree /\ PipesAgree /\ panic = FALSE
  BY DEF FtShape, FtExact
<1>1. PICK s \in Slots : s = fd_table[p][fd]
  BY <1>0 DEF FtTypeOK
<1> DEFINE r == <<p, fd>>
<1>2. ASSUME NEW q \in Procs, NEW f \in Fds
      PROVE  fd_table'[q][f] = IF q = p /\ f = fd THEN -1 ELSE fd_table[q][f]
  BY <1>0 DEF FtTypeOK, SysClose
<1>3. r \in Refs(s) /\ \A t \in Slots : t # s => r \notin Refs(t)
  BY <1>1 DEF Refs
<1>4. ASSUME NEW t \in Slots PROVE Refs(t)' = Refs(t) \ {r}
  BY <1>2, Neg DEF Refs
<1>5. \A t \in Slots : t # s => Refs(t)' = Refs(t)
  BY <1>3, <1>4
<1>6. ftab[s].fd_inode # NULL /\ ftab[s] \in SlotStates
  BY <1>0, <1>3 DEF SlotsUsed, FtTypeOK
<1>7. IsFiniteSet(Refs(s)) /\ Cardinality(Refs(s)) \in Nat
  BY Finite DEF Refs
<1>8. /\ Cardinality(Refs(s)') = Cardinality(Refs(s)) - 1
      /\ IsFiniteSet(Refs(s)') /\ Cardinality(Refs(s)') \in Nat
  <2>1. /\ IsFiniteSet(Refs(s)')
        /\ Cardinality(Refs(s)') = Cardinality(Refs(s)) - 1
    BY <1>3, <1>4, <1>7, FS_RemoveElement
  <2> QED
    BY <2>1, FS_CardinalityType
<1> HIDE DEF r
<1>9. NULL \notin Blocks /\ Page \notin Blocks /\ Page # NULL
  BY FileTableAssumption
<1>12. Uncounted' = Uncounted /\ s \notin Uncounted
  BY <1>0, <1>3, CreationFacts DEF Uncounted
<1>10. CASE ftab[s].fd_flag = "pipe"
  <2>1. ftab[s].fd_inode = Page /\ ftab[s].fd_pos >= Cardinality(Refs(s))
    BY <1>0, <1>3, <1>10 DEF PipesAgree
  <2>2. /\ ftab'[s].fd_inode = IF ftab[s].fd_pos = 1 THEN NULL ELSE ftab[s].fd_inode
        /\ ftab'[s].fd_flag = "pipe" /\ ftab'[s].fd_pos = ftab[s].fd_pos - 1
        /\ \A t \in Slots : t # s => ftab'[t] = ftab[t]
        /\ inode' = inode
    BY <1>0, <1>1, <1>10 DEF SysClose, FtTypeOK
  <2>3. panic' = FALSE
    BY <1>0, <1>1, <1>10, Zenon DEF SysClose
  <2>4. ftab[s].fd_pos \in Int
    BY <1>6 DEF SlotStates
  <2>5. Refs(s)' # {} => ftab'[s].fd_inode = Page
    <3>1. ASSUME Refs(s)' # {} PROVE Cardinality(Refs(s)') # 0
      BY <3>1, <1>8, FS_EmptySet
    <3> QED
      BY <1>7, <1>8, <2>1, <2>2, <2>4, <3>1
  <2>6. ftab'[s].fd_pos >= Cardinality(Refs(s)')
    BY <1>7, <1>8, <2>1, <2>2, <2>4
  <2>7. PipesAgree'
    BY <1>0, <1>5, <2>2, <2>5, <2>6 DEF PipesAgree
  <2>8. SlotsUsed'
    BY <1>0, <1>5, <1>9, <2>2, <2>5, ChosenFree DEF SlotsUsed
  <2>9. ASSUME NEW d \in Blocks PROVE Spare(d)' = Spare(d) /\ Held(d)' = Held(d)
    <3>1. \A t \in Slots : t \in Spare(d)' <=> t \in Spare(d)
      BY <1>5, <1>9, <1>12, <2>1, <2>2 DEF Spare
    <3>2. Spare(d)' = Spare(d)
      BY <3>1 DEF Spare
    <3>3. Held(d)' = Held(d)
      BY <1>5, <1>9, <2>1, <2>2 DEF Held
    <3> QED
      BY <3>2, <3>3
  <2>10. CountsAgree'
    BY <1>0, <2>2, <2>9 DEF CountsAgree
  <2>11. CreationsAlone'
    <3>1. ASSUME NEW q \in Procs, creating[q] # NULL
          PROVE  /\ ftab'[creating[q].s].fd_inode = ftab[creating[q].s].fd_inode
                 /\ Refs(creating[q].s)' = {}
                 /\ inode'[creating[q].b].i_no # NULL
                 /\ inode'[creating[q].b].cnts = 0
      BY <1>0, <1>5, <1>12, <2>2, <3>1, CreationFacts
    <3> QED
      BY <1>0, <3>1, CreationsKept
  <2> QED
    BY <2>3, <2>7, <2>8, <2>10, <2>11 DEF FtExact
<1>11. CASE ftab[s].fd_flag # "pipe"
  <2>1. PICK b \in Blocks : b = ftab[s].fd_inode
    BY <1>6, <1>11 DEF FtShape, SlotsAgree, SlotStates
  <2>2. /\ ftab'[s].fd_inode = NULL /\ ftab'[s].fd_flag = ftab[s].fd_flag
        /\ \A t \in Slots : t # s => ftab'[t] = ftab[t]
    <3>1. ftab' = [ftab EXCEPT ![s].fd_inode = NULL]
      BY <1>1, <1>11 DEF SysClose
    <3> QED
      BY <1>0, <1>6, <3>1 DEF FtTypeOK, SlotStates
  <2>4. inode' = [d \in Blocks |-> IF d # b THEN inode[d]
                     ELSE InodeClose([inode[d] EXCEPT !.deny = FALSE])]
    BY <1>1, <1>11, <2>1 DEF SysClose
  <2>3. panic' = FALSE
    <3>1. ~LastOfUser(b)
      <4>1. ASSUME LastOfUser(b) PROVE inode'[b].i_no = NULL
        <5>1. inode[b] \in InodeStates
          BY <1>0 DEF FtTypeOK
        <5>2. [inode[b] EXCEPT !.deny = FALSE].cnts = 1
          BY <4>1, <5>1 DEF LastOfUser, InodeStates
        <5> QED
          BY <2>4, <5>2 DEF InodeClose, FreeInode
      <4> QED
        BY <4>1 DEF HeapLost
    <3>2. panic' = (\/ ftab[s].fd_inode = NULL
                    \/ \E d \in Blocks : LastOfUser(d) /\ d = ftab[s].fd_inode)
      BY <1>1, <1>11, Zenon DEF SysClose
    <3> QED
      BY <1>6, <2>1, <3>1, <3>2, Zenon
  <2>5. ~(Cardinality(Refs(s)) > 1)
    BY <2>1, <2>2 DEF SlotLost
  <2>6. Refs(s)' = {}
    <3>1. Cardinality(Refs(s)') = 0
      BY <1>7, <1>8, <2>5
    <3> QED
      BY <1>8, <3>1, FS_EmptySet
  <2>7. PipesAgree'
    BY <1>0, <1>5, <2>2, <2>6 DEF PipesAgree
  <2>8. ASSUME NEW d \in Blocks PROVE Spare(d)' = Spare(d)
    <3>1. \A t \in Slots : t \in Spare(d)' <=> t \in Spare(d)
      BY <1>3, <1>5, <1>9, <1>12, <2>2 DEF Spare
    <3> QED
      BY <3>1 DEF Spare
  <2>9. Refs(s) = {r}
    BY <1>3, <1>4, <2>6
  <2>10. ASSUME NEW d \in Blocks
         PROVE  /\ d # b => Held(d)' = Held(d)
                /\ d = b => Held(d)' = Held(d) \ {r} /\ r \in Held(d)
    <3>1. CASE d # b
      BY <3>1, <1>5, <1>9, <2>1, <2>2 DEF Held
    <3>2. CASE d = b
      <4>1. r \in Held(d)
        BY <3>2, <1>3, <2>1 DEF Held, Refs
      <4>2. Held(d)' = Held(d) \ {r}
        BY <3>2, <1>3, <1>5, <1>9, <2>1, <2>2, <2>6, <2>9 DEF Held
      <4> QED
        BY <3>2, <4>1, <4>2
    <3> QED
      BY <3>1, <3>2
  <2>11. Cardinality(Held(b)') = Cardinality(Held(b)) - 1
    BY <2>10, SetsFinite, FS_RemoveElement
  <2>12. /\ inode'[b].cnts = inode[b].cnts - 1
         /\ inode'[b].i_no = NULL => inode'[b].cnts = 0
    <3> DEFINE i == [inode[b] EXCEPT !.deny = FALSE]
    <3>1. inode[b] \in InodeStates
      BY <1>0 DEF FtTypeOK
    <3>2. i \in InodeStates /\ i.cnts = inode[b].cnts /\ i.i_no = inode[b].i_no
      BY <3>1 DEF InodeStates
    <3>3. inode'[b] = InodeClose(i)
      BY <2>4
    <3> HIDE DEF i
    <3>4. inode[b].cnts # 0
      BY <1>0, <2>10, <2>11, SetsFinite, FS_EmptySet DEF CountsAgree
    <3>5. CASE i.cnts = 1
      BY <3>2, <3>3, <3>5 DEF InodeClose, FreeInode
    <3>6. CASE i.cnts # 1
      <4>1. inode'[b].cnts = i.cnts - 1 /\ inode'[b].i_no = i.i_no
        BY <3>2, <3>3, <3>6 DEF InodeClose, InodeStates
      <4> QED
        BY <1>0, <3>2, <3>4, <4>1 DEF SlotsUsed
    <3> QED
      BY <3>5, <3>6
  <2>13. CountsAgree'
    <3>1. ASSUME NEW d \in Blocks
          PROVE  inode'[d].cnts = Cardinality(Spare(d)') + Cardinality(Held(d)')
      <4>1. CASE d = b
        BY <4>1, <1>0, <2>8, <2>11, <2>12, SetsFinite DEF CountsAgree
      <4>2. CASE d # b
        BY <4>2, <1>0, <2>4, <2>8, <2>10 DEF CountsAgree
      <4> QED
        BY <4>1, <4>2
    <3> QED
      BY <3>1 DEF CountsAgree
  <2>14. \A d \in Blocks : inode'[d].i_no = NULL => inode'[d].cnts = 0
    BY <1>0, <2>4, <2>12 DEF SlotsUsed
  <2>15. SlotsUsed'
    BY <1>0, <1>5, <2>2, <2>6, <2>14, ChosenFree DEF SlotsUsed
  <2>16. CreationsAlone'
    <3>1. ASSUME NEW q \in Procs, creating[q] # NULL
          PROVE  /\ ftab'[creating[q].s].fd_inode = ftab[creating[q].s].fd_inode
                 /\ Refs(creating[q].s)' = {}
                 /\ inode'[creating[q].b].i_no # NULL
                 /\ inode'[creating[q].b].cnts = 0
      <4>1. creating[q].b # b
        BY <1>0, <2>10, <3>1, CreationFacts
      <4> QED
        BY <1>0, <1>5, <1>12, <2>2, <2>4, <3>1, <4>1, CreationFacts
    <3> QED
      BY <1>0, <3>1, CreationsKept
  <2> QED
    BY <2>3, <2>7, <2>13, <2>15, <2>16 DEF FtExact
<1> QED
  BY <1>10, <1>11

(* The descriptors of a child are as many as those of its parent.          *)
LEMMA ChildCounted ==
    ASSUME NEW S, IsFiniteSet(S), NEW c, NEW X, IsFiniteSet(X),
           \A x : <<c, x>> \notin S
    PROVE  Cardinality(S \cup ({c} \X X)) = Cardinality(S) + Cardinality(X)
<1>1. IsFiniteSet({c}) /\ Cardinality({c}) = 1
  BY FS_Singleton
<1>2. /\ IsFiniteSet({c} \X X)
      /\ Cardinality({c} \X X) = Cardinality({c}) * Cardinality(X)
  BY <1>1, FS_Product
<1>3. S \cap ({c} \X X) = {}
  OBVIOUS
<1>4. Cardinality(S \cap ({c} \X X)) = 0
  BY <1>3, FS_EmptySet
<1>5. Cardinality(S) \in Nat /\ Cardinality(X) \in Nat
  BY FS_CardinalityType
<1>6. Cardinality({c} \X X) = Cardinality(X)
  BY <1>1, <1>2, <1>5
<1>7. Cardinality(S \cup ({c} \X X)) =
        Cardinality(S) + Cardinality({c} \X X) - Cardinality(S \cap ({c} \X X))
  BY <1>2, FS_Union
<1> QED
  BY <1>4, <1>5, <1>6, <1>7

(* update_inode_open_cnts counts the descriptors of the child where they   *)
(* point, and meets no slot without an inode (fork.c:113).                 *)
LEMMA ForkExact ==
    ASSUME FtShape, FtExact, ~SlotLost, NEW p \in Procs, NEW c \in Procs,
           SysFork(p, c)
    PROVE  FtExact'
<1>0. FtTypeOK /\ SlotsAgree /\ SlotsUsed /\ CreationsAlone /\ CountsAgree /\ PipesAgree /\ panic = FALSE
  BY DEF FtShape, FtExact
<1> DEFINE mine(s) == {fd \in Fds : fd_table[p][fd] = s}
           files(b) == {fd \in Fds : fd_table[p][fd] # -1
                          /\ ftab[fd_table[p][fd]].fd_flag # "pipe"
                          /\ ftab[fd_table[p][fd]].fd_inode = b}
<1>1. \A x : /\ IsFiniteSet(mine(x)) /\ IsFiniteSet(files(x))
             /\ Cardinality(mine(x)) \in Nat /\ Cardinality(files(x)) \in Nat
  BY Finite
<1>2. /\ ftab' = [s \in Slots |-> IF ftab[s].fd_flag = "pipe"
                    THEN [ftab[s] EXCEPT !.fd_pos = @ + Cardinality(mine(s))] ELSE ftab[s]]
      /\ inode' = [b \in Blocks |-> [inode[b] EXCEPT !.cnts = @ + Cardinality(files(b))]]
  BY DEF SysFork
<1>3. p \in alive /\ c \notin alive /\ alive' = alive \cup {c} /\ p # c
  BY DEF SysFork, Calls, Runs
<1>4. ASSUME NEW q \in Procs, NEW f \in Fds
      PROVE  fd_table'[q][f] = IF q = c THEN fd_table[p][f] ELSE fd_table[q][f]
  BY <1>0 DEF FtTypeOK, SysFork
<1>5. ASSUME NEW s \in Slots
      PROVE  /\ Refs(s)' = Refs(s) \cup ({c} \X mine(s))
             /\ Refs(s)' # {} <=> Refs(s) # {}
             /\ \A x : <<c, x>> \notin Refs(s)
             /\ mine(s) # {} => Refs(s) # {}
  <2>1. \A x : <<c, x>> \notin Refs(s)
    BY <1>3 DEF Refs
  <2>2. Refs(s)' = Refs(s) \cup ({c} \X mine(s))
    BY <1>3, <1>4 DEF Refs
  <2>3. ASSUME NEW f \in mine(s) PROVE <<p, f>> \in Refs(s)
    BY <1>3 DEF Refs
  <2> QED
    BY <2>1, <2>2, <2>3
<1>6. ASSUME NEW s \in Slots PROVE ftab[s] \in SlotStates
  BY <1>0 DEF FtTypeOK
<1>7. \A fd \in Fds : fd_table[p][fd] # -1 => fd_table[p][fd] \in Slots
  BY <1>0 DEF FtTypeOK
<1>8. files(NULL) = {}
  <2>1. ASSUME NEW fd \in files(NULL) PROVE FALSE
    <3>1. fd_table[p][fd] \in Slots /\ fd \in mine(fd_table[p][fd])
      BY <1>7
    <3> QED
      BY <1>0, <1>5, <3>1 DEF SlotsUsed
  <2> QED
    BY <2>1
<1>9. panic' = FALSE
  BY <1>8, Zenon DEF SysFork
<1>17. creating' = creating /\ Uncounted' = Uncounted
  BY DEF SysFork, Uncounted
<1>10. ASSUME NEW b \in Blocks
       PROVE  /\ Held(b)' = Held(b) \cup ({c} \X files(b))
              /\ \A x : <<c, x>> \notin Held(b)
              /\ files(b) # {} => Held(b) # {}
              /\ Spare(b)' = Spare(b)
  <2>1. ASSUME NEW s \in Slots
        PROVE  ftab'[s].fd_inode = ftab[s].fd_inode
    BY <1>2, <1>6 DEF SlotStates
  <2>2. \A x : <<c, x>> \notin Held(b)
    BY <1>5 DEF Held
  <2>3. Spare(b)' = Spare(b)
    <3>1. \A t \in Slots : t \in Spare(b)' <=> t \in Spare(b)
      BY <1>5, <1>17, <2>1 DEF Spare
    <3> QED
      BY <3>1 DEF Spare
  <2>4. ASSUME NEW fd \in Fds
        PROVE  fd \in files(b) <=> \E s \in Slots : fd \in mine(s) /\ ftab[s].fd_inode = b
    <3>1. ASSUME NEW s \in Slots, fd_table[p][fd] = s, ftab[s].fd_inode = b
          PROVE  ftab[s].fd_flag # "pipe"
      BY <1>0, <3>1 DEF SlotsAgree
    <3> QED
      BY <1>7, <3>1, Neg
  <2> HIDE DEF mine, files
  <2>5. files(b) \subseteq Fds /\ \A s \in Slots : mine(s) \subseteq Fds
    BY DEF mine, files
  <2>6. ASSUME NEW s \in Slots PROVE Refs(s)' = Refs(s) \cup ({c} \X mine(s))
    BY <1>5
  <2>7. ASSUME NEW r \in Procs \X Fds
        PROVE  r \in Held(b)' <=> r \in Held(b) \/ r \in {c} \X files(b)
    <3>1. r \in Held(b)' <=> \E s \in Slots : r \in Refs(s)' /\ ftab[s].fd_inode = b
      BY <2>1 DEF Held
    <3>2. r \in Held(b)' <=> \/ \E s \in Slots : r \in Refs(s) /\ ftab[s].fd_inode = b
                             \/ \E s \in Slots : r \in {c} \X mine(s) /\ ftab[s].fd_inode = b
      BY <3>1, <2>6
    <3>3. r \in Held(b) <=> \E s \in Slots : r \in Refs(s) /\ ftab[s].fd_inode = b
      BY DEF Held
    <3>4. r \in {c} \X files(b) <=>
            \E s \in Slots : r \in {c} \X mine(s) /\ ftab[s].fd_inode = b
      BY <2>4, <2>5
    <3> QED
      BY <3>2, <3>3, <3>4
  <2>8. /\ Held(b)' \subseteq Procs \X Fds /\ Held(b) \subseteq Procs \X Fds
        /\ {c} \X files(b) \subseteq Procs \X Fds
    BY <2>5 DEF Held
  <2>9. Held(b)' = Held(b) \cup ({c} \X files(b))
    BY <2>7, <2>8
  <2>10. ASSUME NEW fd \in files(b) PROVE Held(b) # {}
    <3>1. PICK s \in Slots : fd \in mine(s) /\ ftab[s].fd_inode = b
      BY <2>4, <2>5
    <3>2. <<p, fd>> \in Refs(s)
      BY <1>3, <2>5, <3>1 DEF Refs, mine
    <3> QED
      BY <2>5, <3>1, <3>2 DEF Held
  <2> QED
    BY <2>2, <2>3, <2>9, <2>10
<1> HIDE DEF mine, files
<1>11. ASSUME NEW b \in Blocks
       PROVE  /\ inode'[b].cnts = inode[b].cnts + Cardinality(files(b))
              /\ inode'[b].i_no = inode[b].i_no
  <2>1. inode[b] \in InodeStates
    BY <1>0 DEF FtTypeOK
  <2> QED
    BY <1>2, <2>1 DEF InodeStates
<1>12. CountsAgree'
  <2>1. ASSUME NEW b \in Blocks
        PROVE  inode'[b].cnts = Cardinality(Spare(b)') + Cardinality(Held(b)')
    <3>1. Cardinality(Held(b)') = Cardinality(Held(b)) + Cardinality(files(b))
      <4>1. IsFiniteSet(Held(b)) /\ IsFiniteSet(files(b)) /\ \A x : <<c, x>> \notin Held(b)
        BY <1>1, <1>10, SetsFinite
      <4>2. Cardinality(Held(b) \cup ({c} \X files(b)))
              = Cardinality(Held(b)) + Cardinality(files(b))
        BY ONLY <4>1, ChildCounted, Zenon
      <4> QED
        BY <1>10, <4>2
    <3> QED
      BY <1>0, <1>1, <1>10, <1>11, <3>1, SetsFinite DEF CountsAgree
  <2> QED
    BY <2>1 DEF CountsAgree
<1>13. ASSUME NEW b \in Blocks, inode'[b].i_no = NULL PROVE inode'[b].cnts = 0
  <2>1. inode[b].cnts = 0
    BY <1>0, <1>11, <1>13 DEF SlotsUsed
  <2>2. Cardinality(Held(b)) = 0
    BY <1>0, <2>1, SetsFinite DEF CountsAgree
  <2>3. files(b) = {}
    BY <1>10, <2>2, SetsFinite, FS_EmptySet
  <2>4. Cardinality(files(b)) = 0
    BY <2>3, FS_EmptySet
  <2> QED
    BY <1>11, <2>1, <2>4
<1>14. ASSUME NEW s \in Slots
       PROVE  /\ ftab'[s].fd_inode = ftab[s].fd_inode
              /\ ftab'[s].fd_flag = ftab[s].fd_flag
              /\ ftab[s].fd_flag = "pipe" =>
                   ftab'[s].fd_pos = ftab[s].fd_pos + Cardinality(mine(s))
              /\ ftab[s].fd_pos \in Int
  BY <1>2, <1>6 DEF SlotStates
<1>15. SlotsUsed'
  BY <1>0, <1>5, <1>13, <1>14, ChosenFree DEF SlotsUsed
<1>16. PipesAgree'
  <2>1. ASSUME NEW s \in Slots, ftab'[s].fd_flag = "pipe", Refs(s)' # {}
        PROVE  ftab'[s].fd_inode = Page /\ ftab'[s].fd_pos >= Cardinality(Refs(s)')
    <3>1. ftab[s].fd_inode = Page /\ ftab[s].fd_pos >= Cardinality(Refs(s))
      BY <1>0, <1>5, <1>14, <2>1 DEF PipesAgree
    <3>2. IsFiniteSet(Refs(s)) /\ Cardinality(Refs(s)) \in Nat
      BY Finite DEF Refs
    <3>3. Cardinality(Refs(s)') = Cardinality(Refs(s)) + Cardinality(mine(s))
      <4>1. IsFiniteSet(Refs(s)) /\ IsFiniteSet(mine(s)) /\ \A x : <<c, x>> \notin Refs(s)
        BY <1>1, <1>5, <3>2
      <4>2. Cardinality(Refs(s) \cup ({c} \X mine(s)))
              = Cardinality(Refs(s)) + Cardinality(mine(s))
        BY ONLY <4>1, ChildCounted, Zenon
      <4> QED
        BY <1>5, <4>2
    <3> QED
      BY <1>1, <1>14, <2>1, <3>1, <3>2, <3>3
  <2> QED
    BY <2>1 DEF PipesAgree
<1>18. CreationsAlone'
  <2>1. ASSUME NEW q \in Procs, creating[q] # NULL
        PROVE  /\ ftab'[creating[q].s].fd_inode = ftab[creating[q].s].fd_inode
               /\ Refs(creating[q].s)' = {}
               /\ inode'[creating[q].b].i_no # NULL
               /\ inode'[creating[q].b].cnts = 0
    <3>1. /\ creating[q].s \in Slots /\ creating[q].b \in Blocks
          /\ Refs(creating[q].s) = {} /\ Held(creating[q].b) = {}
          /\ inode[creating[q].b].i_no # NULL /\ inode[creating[q].b].cnts = 0
      BY <1>0, <2>1, CreationFacts
    <3>2. files(creating[q].b) = {}
      BY <1>10, <3>1
    <3>3. Cardinality(files(creating[q].b)) = 0
      BY <3>2, FS_EmptySet
    <3>4. Refs(creating[q].s)' = {}
      BY <1>5, <1>17, <3>1
    <3> QED
      BY <1>11, <1>14, <3>1, <3>3, <3>4
  <2> QED
    BY <1>0, <1>17, <2>1, CreationsKept
<1> QED
  BY <1>9, <1>12, <1>15, <1>16, <1>18 DEF FtExact

LEMMA ExitExact ==
    ASSUME FtShape, FtExact, NEW p \in Procs, ~SlotLost, ~HeapLost(p),
           ExitStart(p) \/ ExitClose(p)
    PROVE  FtExact'
<1>0. panic = FALSE /\ FtTypeOK
  BY DEF FtExact, FtShape
<1>1. CASE ExitStart(p)
  <2>1. panic' = FALSE
    BY <1>0, <1>1, Zenon DEF ExitStart
  <2>2. \A t \in Slots : Refs(t)' = Refs(t)
    BY <1>1 DEF ExitStart, Refs
  <2> QED
    BY <1>0, <1>1, <2>1, <2>2, TablesKept DEF ExitStart
<1>2. CASE ExitClose(p)
  <2>1. CASE FreeFds(p) # Fds /\ SysClose(p, Lowest(Fds \ FreeFds(p)))
             /\ UNCHANGED <<alive, exiting>>
    <3>1. p \in alive
      BY <1>2, FileTableAssumption DEF ExitClose, FtShape, SlotsAgree
    <3>2. creating' = creating
      BY <1>2 DEF ExitClose
    <3> QED
      BY <2>1, <3>1, <3>2, OpenFdFound, SysCloseExact
  <2>2. CASE /\ FreeFds(p) = Fds
             /\ alive' = alive \ {p} /\ exiting' = NULL
             /\ UNCHANGED <<fd_table, ftab, inode, panic>>
    <3>1. panic' = FALSE
      BY <1>0, <2>2, Zenon
    <3>2. \A t \in Slots : Refs(t)' = Refs(t)
      BY <2>2, Neg DEF Refs, FreeFds
    <3>3. creating' = creating
      BY <1>2 DEF ExitClose
    <3> QED
      BY <1>0, <2>2, <3>1, <3>2, <3>3, TablesKept
  <2> QED
    BY <1>2, <2>1, <2>2 DEF ExitClose
<1> QED
  BY <1>1, <1>2

----------------------------------------------------------------------------
LEMMA ExactInit == FtInit => FtExact
<1> SUFFICES ASSUME FtInit PROVE FtExact
  OBVIOUS
<1>1. panic = FALSE
  BY Zenon DEF FtInit
<1>2. \A t \in Slots : Refs(t) = {}
  BY Neg DEF FtInit, Refs
<1>3. ASSUME NEW b \in Blocks PROVE Spare(b) = {} /\ Held(b) = {}
  BY <1>2, FileTableAssumption DEF FtInit, FreeSlot, Spare, Held
<1>4. \A b \in Blocks : inode[b].cnts = 0
  BY DEF FtInit, FreeInode
<1>5. CountsAgree
  <2>1. ASSUME NEW b \in Blocks
        PROVE  Cardinality(Spare(b)) = 0 /\ Cardinality(Held(b)) = 0
    BY <1>3, FS_EmptySet
  <2> QED
    BY <1>4, <2>1 DEF CountsAgree
<1>6. SlotsUsed
  BY <1>2, <1>4 DEF FtInit, SlotsUsed
<1>7. PipesAgree
  BY <1>2 DEF PipesAgree
<1>8. CreationsAlone
  BY DEF FtInit, CreationsAlone
<1> QED
  BY <1>1, <1>5, <1>6, <1>7, <1>8 DEF FtExact

LEMMA ExactStep ==
    ASSUME FtShape, FtExact, NEW p \in Procs, ~SlotLost, ~HeapLost(p), FtStep(p)
    PROVE  FtExact'
<1>0. FtTypeOK
  BY DEF FtShape
<1>1. ASSUME NEW no \in Files, NEW mode \in {"r", "w"}, OpenStart(p, no, mode)
      PROVE  FtExact'
  <2>1. panic' = FALSE
    BY <1>1, Zenon DEF OpenStart, FtExact
  <2>2. \A t \in Slots : Refs(t)' = Refs(t)
    BY <1>1 DEF OpenStart, Refs
  <2> QED
    BY <1>0, <1>1, <2>1, <2>2, TablesKept DEF OpenStart
<1>2. CASE CreateWrite(p)
  <2>1. panic' = FALSE
    BY <1>2, Zenon DEF CreateWrite, FtExact
  <2>2. \A t \in Slots : Refs(t)' = Refs(t)
    BY <1>2 DEF CreateWrite, Refs
  <2> QED
    BY <1>0, <1>2, <2>1, <2>2, TablesKept DEF CreateWrite
<1>3. ASSUME NEW fd \in Fds, Close(p, fd) PROVE FtExact'
  <2>1. /\ p \in alive /\ alive' = alive /\ creating' = creating
        /\ fd_table[p][fd] # -1 /\ SysClose(p, fd)
    BY <1>3 DEF Close, Calls, Runs
  <2> QED
    BY <2>1, SysCloseExact
<1> QED
  BY <1>1, <1>2, <1>3, OpenCachedExact, OpenReadExact, CreateStartExact, CreateFailsExact,
     CreateEndExact, PipeExact, ForkExact, ExitExact DEF FtStep

(* The inductive invariant holds, for any number of processes, slots,      *)
(* descriptors and files.                                                  *)
THEOREM FtInvariant == FtSpec => []FtInv
<1>1. FtInit => FtInv
  BY ShapeInit, ExactInit DEF FtInv
<1>2. FtInv /\ [FtNext]_ftVars => FtInv'
  <2> SUFFICES ASSUME FtInv, [FtNext]_ftVars PROVE FtInv'
    OBVIOUS
  <2>1. FtShape'
    BY ShapeStep DEF FtInv
  <2>2. ASSUME ~stale' PROVE FtExact'
    <3>1. CASE FtNext
      <4>1. \E p \in Procs : ~stale /\ ~SlotLost /\ ~HeapLost(p) /\ FtStep(p)
        BY <2>2, <3>1, Zenon DEF FtNext, SysPipeNoSlot
      <4> QED
        BY <4>1, ExactStep DEF FtInv
    <3>2. CASE UNCHANGED ftVars
      <4>1. FtExact
        BY <2>2, <3>2 DEF FtInv, ftVars
      <4> QED
        <5>1. \A t \in Slots : Refs(t)' = Refs(t)
          BY <3>2 DEF ftVars, Refs
        <5>2. FtTypeOK /\ ~SlotLost /\ panic' = FALSE
          <6>1. FtTypeOK
            BY DEF FtInv, FtShape
          <6>2. ~SlotLost
            BY <3>2, <4>1, <5>1, FileTableAssumption DEF ftVars, SlotLost, FtExact, SlotsUsed
          <6>3. panic' = FALSE
            BY <3>2, <4>1, Zenon DEF ftVars, FtExact
          <6> QED
            BY <6>1, <6>2, <6>3
        <5> QED
          BY <3>2, <4>1, <5>1, <5>2, TablesKept DEF ftVars
    <3> QED
      BY <3>1, <3>2
  <2> QED
    BY <2>1, <2>2 DEF FtInv
<1> QED
  BY <1>1, <1>2, PTL DEF FtSpec

(* A pipe that any process has a descriptor for keeps its page, as long as *)
(* no slot was lost (fs.c:370, fork.c:113).                                *)
THEOREM PipesKeepPage == FtSpec => []PipeKept
<1>1. FtInv => PipeKept
  BY DEF FtInv, FtExact, PipesAgree, PipeKept
<1> QED
  BY <1>1, FtInvariant, PTL

(* The open count of every inode is exact, and no access goes through NULL *)
(* as long as no slot was lost (inode.c:120, file.c:209, fork.c:113).      *)
THEOREM OpenCountsExact == FtSpec => []OpenCountExact
<1>1. FtInv => OpenCountExact
  <2> SUFFICES ASSUME FtInv PROVE OpenCountExact
    OBVIOUS
  <2>1. panic => stale
    BY Zenon DEF FtInv, FtExact
  <2> QED
    BY <2>1 DEF FtInv, FtShape, FtExact, CountsAgree, OpenCountExact
<1> QED
  BY <1>1, FtInvariant, PTL
============================================================================
