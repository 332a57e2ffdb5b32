----------------------------- MODULE FileTable -----------------------------
(***************************************************************************)
(* Open files: the global file_table (fs/file.c), the fd_table of every    *)
(* process, the inodes in memory (open_inodes, fs/inode.c), pipes          *)
(* (shell/pipe.c), and what fork and exit do to them.                      *)
(*                                                                         *)
(* System calls run with interrupts off.  They sleep on the disk in two    *)
(* places: in inode_open, with the slot of file_table chosen and not yet   *)
(* marked, and in file_create, with the slot filled and its inode neither  *)
(* counted nor in open_inodes.  The search of the path before that changes *)
(* nothing here.                                                           *)
(***************************************************************************)
EXTENDS Integers, FiniteSets

CONSTANTS Procs, First,     \* processes, the one that exists at the start
          Slots,            \* indices of file_table from 3 on
          Fds,              \* indices of fd_table from 3 on
          Files,            \* inode numbers of files
          Blocks,           \* memory for inodes
          Pipes,            \* whether pipes are used
          NULL,
          Page,             \* the page of a pipe, in the field fd_inode
          Blank             \* i_no in an inode of the disk that was never written

ASSUME FileTableAssumption ==
    /\ First \in Procs
    /\ IsFiniteSet(Procs) /\ IsFiniteSet(Slots) /\ IsFiniteSet(Fds)
    /\ Slots \subseteq Nat /\ Fds \subseteq Nat
    /\ Pipes \in BOOLEAN
    /\ NULL \notin Blocks \cup Files \cup Procs \cup {Page, Blank}
    /\ Page \notin Blocks
    /\ NULL \notin [s : Slots, b : Blocks]

VARIABLES alive,    \* the processes
          fd_table, \* fd_table[p][fd]: a slot, or -1
          ftab,     \* file_table: fd_inode, fd_flag, fd_pos of every slot
          inode,    \* inode[b]: i_no, i_open_cnts, write_deny, when b is in use,
                    \* and the process whose heap b is in, or NULL for the kernel's
          disk,     \* disk[no]: nothing, an entry in a directory, or the inode too
          opening,  \* opening[p]: what p is about to open, while it reads the disk
          creating, \* creating[p]: slot and inode of the file p is creating
          exiting,  \* the process inside sys_exit
          panic,    \* an access through NULL, or a failed ASSERT
          stale     \* history: a slot was lost to a process that relies on it, or
                    \* an inode in the heap of a process was used from outside

ftVars == <<alive, fd_table, ftab, inode, disk, opening, creating, exiting, panic, stale>>

FreeSlot == [fd_inode |-> NULL, fd_flag |-> "none", fd_pos |-> 0]
FreeInode == [i_no |-> NULL, cnts |-> 0, deny |-> FALSE, own |-> NULL]

FtInit ==
    /\ alive = {First}
    /\ fd_table = [p \in Procs |-> [fd \in Fds |-> -1]]
    /\ ftab = [s \in Slots |-> FreeSlot]
    /\ inode = [b \in Blocks |-> FreeInode]
    /\ disk \in [Files -> {"none", "inode"}]
    /\ opening = [p \in Procs |-> NULL]
    /\ creating = [p \in Procs |-> NULL]
    /\ exiting = NULL
    /\ panic = FALSE
    /\ stale = FALSE

Runs(p) == ~panic /\ exiting = NULL /\ p \in alive
Calls(p) == Runs(p) /\ opening[p] = NULL /\ creating[p] = NULL
Lowest(S) == CHOOSE i \in S : \A j \in S : i <= j

(* get_free_slot_in_global and the loop of pcb_fd_install. *)
FreeSlots == {s \in Slots : ftab[s].fd_inode = NULL}
FreeFds(p) == {fd \in Fds : fd_table[p][fd] = -1}

(* The inodes in open_inodes, those of file no, and whether p would meet   *)
(* there one in the heap of another process, whose pages p does not have.  *)
Listed == {b \in Blocks : inode[b].i_no # NULL
                          /\ \A p \in Procs : creating[p] # NULL => creating[p].b # b}
Cached(no) == {b \in Listed : inode[b].i_no = no}
Foreign(p) == \E b \in Listed : inode[b].own \notin {NULL, p}

----------------------------------------------------------------------------
(* pcb_fd_install(s): without a free descriptor the slot stays as it is.   *)
PcbFdInstall(p, s) ==
    fd_table' = IF FreeFds(p) = {} THEN fd_table
                ELSE [fd_table EXCEPT ![p][Lowest(FreeFds(p))] = s]

(* file_open after inode_open has returned b with the open count set: the  *)
(* slot is filled; a file that is being written cannot be opened for       *)
(* writing again, and then the slot and the count stay as they are.        *)
FileOpen(p, s, b, count, mode) ==
    /\ ftab' = [ftab EXCEPT ![s] = [fd_inode |-> b, fd_flag |-> mode, fd_pos |-> 0]]
    /\ \/ /\ mode = "w" /\ count.deny
          /\ inode' = [inode EXCEPT ![b] = count]
          /\ UNCHANGED fd_table
       \/ /\ mode = "r" \/ ~count.deny
          /\ inode' = [inode EXCEPT ![b] = [count EXCEPT !.deny = (@ \/ mode = "w")]]
          /\ PcbFdInstall(p, s)

(* sys_open of a file whose inode is in memory. *)
OpenCached(p, no, mode) ==
    /\ Calls(p) /\ disk[no] # "none" /\ FreeSlots # {}
    /\ \E b \in Cached(no) :
          FileOpen(p, Lowest(FreeSlots), b, [inode[b] EXCEPT !.cnts = @ + 1], mode)
    /\ UNCHANGED <<alive, disk, opening, creating, exiting, panic>>

(* sys_open of another file: the slot is chosen, and ide_read sleeps.  The *)
(* number comes with the inode: if its creator has not written it yet, the *)
(* disk may give a blank one.                                              *)
OpenStart(p, no, mode) ==
    /\ Calls(p) /\ disk[no] # "none" /\ FreeSlots # {}
    /\ Cached(no) = {}
    /\ \E i \in IF disk[no] = "inode" THEN {no} ELSE {no, Blank} :
          opening' = [opening EXCEPT ![p] = [s |-> Lowest(FreeSlots), no |-> i, mode |-> mode]]
    /\ UNCHANGED <<alive, fd_table, ftab, inode, disk, creating, exiting, panic>>

(* The disk has answered: a new inode, in the kernel's heap, joins         *)
(* open_inodes.                                                            *)
OpenRead(p) ==
    /\ Runs(p) /\ opening[p] # NULL
    /\ \E b \in Blocks :
          /\ inode[b].i_no = NULL
          /\ FileOpen(p, opening[p].s, b,
                      [i_no |-> opening[p].no, cnts |-> 1, deny |-> FALSE, own |-> NULL],
                      opening[p].mode)
    /\ opening' = [opening EXCEPT ![p] = NULL]
    /\ UNCHANGED <<alive, disk, creating, exiting, panic>>

(* sys_open with O_CREAT of a name not found.  file_create takes a number  *)
(* of the bitmap, an inode in the heap of the process and a slot, which it *)
(* fills; without a free slot everything is given back.                    *)
CreateStart(p, no, mode) ==
    /\ Calls(p) /\ disk[no] = "none" /\ FreeSlots # {}
    /\ \A b \in Blocks : inode[b].i_no # no
    /\ \E b \in Blocks :
          /\ inode[b].i_no = NULL
          /\ inode' = [inode EXCEPT ![b] = [i_no |-> no, cnts |-> 0, deny |-> FALSE, own |-> p]]
          /\ ftab' = [ftab EXCEPT ![Lowest(FreeSlots)] =
                        [fd_inode |-> b, fd_flag |-> mode, fd_pos |-> 0]]
          /\ creating' = [creating EXCEPT ![p] = [s |-> Lowest(FreeSlots), b |-> b]]
    /\ UNCHANGED <<alive, fd_table, disk, opening, exiting, panic>>

(* Its disk accesses: sync_dir_entry has written the entry, by which other *)
(* processes find the file; inode_sync has written the inode.              *)
CreateWrite(p) ==
    /\ Runs(p) /\ creating[p] # NULL
    /\ LET no == inode[creating[p].b].i_no
       IN  \/ disk[no] = "none" /\ disk' = [disk EXCEPT ![no] = "entry"]
           \/ disk[no] = "entry" /\ disk' = [disk EXCEPT ![no] = "inode"]
    /\ UNCHANGED <<alive, fd_table, ftab, inode, opening, creating, exiting, panic>>

(* sync_dir_entry has found the directory full: slot, inode and number are *)
(* given back.                                                             *)
CreateFails(p) ==
    /\ Runs(p) /\ creating[p] # NULL
    /\ disk[inode[creating[p].b].i_no] = "none"
    /\ ftab' = [ftab EXCEPT ![creating[p].s] = FreeSlot]
    /\ inode' = [inode EXCEPT ![creating[p].b] = FreeInode]
    /\ creating' = [creating EXCEPT ![p] = NULL]
    /\ UNCHANGED <<alive, fd_table, disk, opening, exiting, panic>>

(* Everything is on disk: the inode joins open_inodes with the count 1.    *)
(* write_deny is not set, whatever the mode.                               *)
CreateEnd(p) ==
    /\ Runs(p) /\ creating[p] # NULL
    /\ disk[inode[creating[p].b].i_no] = "inode"
    /\ inode' = [inode EXCEPT ![creating[p].b].cnts = 1]
    /\ PcbFdInstall(p, creating[p].s)
    /\ creating' = [creating EXCEPT ![p] = NULL]
    /\ UNCHANGED <<alive, ftab, disk, opening, exiting, panic>>

(* sys_pipe without a free slot uses the -1 of get_free_slot_in_global: it *)
(* writes what lies in front of file_table, and installs -1.  Nothing is   *)
(* claimed from there on.                                                  *)
SysPipeNoSlot(p) ==
    /\ Pipes /\ Calls(p) /\ FreeSlots = {}
    /\ stale' = TRUE
    /\ UNCHANGED <<alive, fd_table, ftab, inode, disk, opening, creating, exiting, panic>>

(* sys_pipe: two descriptors for one slot; fd_pos counts descriptors.      *)
SysPipe(p) ==
    /\ Pipes /\ Calls(p) /\ FreeSlots # {}
    /\ LET s == Lowest(FreeSlots)
           one == Lowest(FreeFds(p))
           two == IF FreeFds(p) = {} THEN {}
                  ELSE IF FreeFds(p) = {one} THEN {one}
                  ELSE {one, Lowest(FreeFds(p) \ {one})}
       IN  /\ ftab' = [ftab EXCEPT ![s] = [fd_inode |-> Page, fd_flag |-> "pipe",
                                           fd_pos |-> 2]]
           /\ fd_table' = [fd_table EXCEPT ![p] = [fd \in Fds |->
                              IF fd \in two THEN s ELSE fd_table[p][fd]]]
    /\ UNCHANGED <<alive, inode, disk, opening, creating, exiting, panic>>

(* inode_close: the last one removes the inode from open_inodes.           *)
LastOfUser(b) == inode[b].own # NULL /\ inode[b].cnts = 1
InodeClose(i) == IF i.cnts = 1 THEN FreeInode ELSE [i EXCEPT !.cnts = @ - 1]

(* Mutant: inode_close is forgotten. *)
SysCloseKeepsInode(p, fd) ==
    LET s == fd_table[p][fd]
    IN  /\ fd_table' = [fd_table EXCEPT ![p][fd] = -1]
        /\ ftab' = [ftab EXCEPT ![s].fd_inode = NULL]
        /\ UNCHANGED <<inode, panic>>

(* sys_close.  A pipe loses its page with its last descriptor; file_close  *)
(* clears write_deny, closes the inode and frees the slot.  inode_close    *)
(* gives the memory back to the kernel's heap: for an inode in the heap of *)
(* a process the ASSERT of sys_free fails.                                 *)
SysClose(p, fd) ==
    LET s == fd_table[p][fd]
        e == ftab[s]
    IN  /\ fd_table' = [fd_table EXCEPT ![p][fd] = -1]
        /\ \/ /\ e.fd_flag = "pipe"
              /\ ftab' = [ftab EXCEPT ![s] =
                            [fd_inode |-> IF e.fd_pos = 1 THEN NULL ELSE e.fd_inode,
                             fd_flag |-> "pipe", fd_pos |-> e.fd_pos - 1]]
              /\ UNCHANGED <<inode, panic>>
           \/ /\ e.fd_flag # "pipe"
              /\ ftab' = [ftab EXCEPT ![s].fd_inode = NULL]
              /\ inode' = [b \in Blocks |-> IF b # e.fd_inode THEN inode[b]
                             ELSE InodeClose([inode[b] EXCEPT !.deny = FALSE])]
              /\ panic' = (\/ e.fd_inode = NULL
                           \/ \E b \in Blocks : LastOfUser(b) /\ b = e.fd_inode)

Close(p, fd) ==
    /\ Calls(p) /\ fd_table[p][fd] # -1
    /\ SysClose(p, fd)
    /\ UNCHANGED <<alive, disk, opening, creating, exiting>>

(* Mutant: the descriptors of the child are not counted. *)
SysForkUncounted(p, c) ==
    /\ Calls(p) /\ c \notin alive
    /\ alive' = alive \cup {c}
    /\ fd_table' = [fd_table EXCEPT ![c] = fd_table[p]]
    /\ UNCHANGED <<ftab, inode, disk, opening, creating, exiting, panic>>

(* sys_fork with update_inode_open_cnts: every descriptor of the child is  *)
(* counted, in fd_pos for a pipe, in i_open_cnts for a file.               *)
SysFork(p, c) ==
    LET refs(s) == Cardinality({fd \in Fds : fd_table[p][fd] = s})
        files(b) == {fd \in Fds : fd_table[p][fd] # -1
                       /\ ftab[fd_table[p][fd]].fd_flag # "pipe"
                       /\ ftab[fd_table[p][fd]].fd_inode = b}
    IN  /\ Calls(p) /\ c \notin alive
        /\ alive' = alive \cup {c}
        /\ fd_table' = [fd_table EXCEPT ![c] = fd_table[p]]
        /\ ftab' = [s \in Slots |-> IF ftab[s].fd_flag = "pipe"
                      THEN [ftab[s] EXCEPT !.fd_pos = @ + refs(s)] ELSE ftab[s]]
        /\ inode' = [b \in Blocks |-> [inode[b] EXCEPT !.cnts = @ + Cardinality(files(b))]]
        /\ panic' = (files(NULL) # {})
        /\ UNCHANGED <<disk, opening, creating, exiting>>

(* sys_exit: release_prog_resource closes the descriptors from 3 on, in    *)
(* order and without a break.                                              *)
ExitStart(p) ==
    /\ Calls(p) /\ p # First
    /\ exiting' = p
    /\ UNCHANGED <<alive, fd_table, ftab, inode, disk, opening, creating, panic>>

ExitClose(p) ==
    /\ ~panic /\ exiting = p
    /\ \/ /\ FreeFds(p) # Fds
          /\ SysClose(p, Lowest(Fds \ FreeFds(p)))
          /\ UNCHANGED <<alive, exiting>>
       \/ /\ FreeFds(p) = Fds
          /\ alive' = alive \ {p} /\ exiting' = NULL
          /\ UNCHANGED <<fd_table, ftab, inode, panic>>
    /\ UNCHANGED <<disk, opening, creating>>

(* The descriptors for slot s. *)
Refs(s) == {r \in Procs \X Fds : r[1] \in alive /\ fd_table[r[1]][r[2]] = s}

(* A close frees the slot of a file that other descriptors refer to, or a  *)
(* slot that a file_open chose before it slept is filled by another call.  *)
SlotLost ==
    \/ \E s \in Slots : /\ Cardinality(Refs(s)) > 1
                        /\ ftab[s].fd_inode \in Blocks
                        /\ ftab'[s].fd_inode = NULL
    \/ \E p \in Procs : /\ opening'[p] # NULL
                        /\ ftab'[opening'[p].s].fd_inode # NULL

(* An inode created by a process is in its heap: it cannot be given back   *)
(* through the kernel's, goes with the process, is copied by a fork, and   *)
(* is in the way of another process that walks or changes open_inodes.     *)
HeapLost(p) ==
    \/ \E b \in Blocks : \/ LastOfUser(b) /\ inode'[b].i_no = NULL
                         \/ inode'[b].own \notin alive' \cup {NULL}
    \/ alive' \ alive # {} /\ \E b \in Blocks : inode[b].own = p
    \/ Foreign(p) /\ <<inode', opening'>> # <<inode, opening>>

FtStep(p) ==
    \/ \E no \in Files, mode \in {"r", "w"} :
          \/ OpenCached(p, no, mode)
          \/ OpenStart(p, no, mode)
          \/ CreateStart(p, no, mode)
    \/ OpenRead(p)
    \/ CreateWrite(p) \/ CreateFails(p) \/ CreateEnd(p)
    \/ SysPipe(p)
    \/ \E fd \in Fds : Close(p, fd)
    \/ \E c \in Procs : SysFork(p, c)
    \/ ExitStart(p)
    \/ ExitClose(p)

FtNext ==
    \E p \in Procs :
        \/ FtStep(p) /\ stale' = (stale \/ SlotLost \/ HeapLost(p))
        \/ SysPipeNoSlot(p)

FtSpec == FtInit /\ [][FtNext]_ftVars

----------------------------------------------------------------------------
SlotStates == [fd_inode : Blocks \cup {Page, NULL},
               fd_flag : {"none", "r", "w", "pipe"}, fd_pos : Int]
InodeStates == [i_no : Files \cup {NULL, Blank}, cnts : Int, deny : BOOLEAN,
                own : Procs \cup {NULL}]
Requests == [s : Slots, no : Files \cup {Blank}, mode : {"r", "w"}]
Creations == [s : Slots, b : Blocks]

(* The counts are unsigned: after a lost slot one more close takes them    *)
(* below 0, which stands for the value the code wraps to.                  *)
FtTypeOK ==
    /\ alive \subseteq Procs
    /\ fd_table \in [Procs -> [Fds -> Slots \cup {-1}]]
    /\ ftab \in [Slots -> SlotStates]
    /\ inode \in [Blocks -> InodeStates]
    /\ disk \in [Files -> {"none", "entry", "inode"}]
    /\ opening \in [Procs -> Requests \cup {NULL}]
    /\ creating \in [Procs -> Creations \cup {NULL}]
    /\ exiting \in Procs \cup {NULL}
    /\ panic \in BOOLEAN /\ stale \in BOOLEAN

(* Only a process that exists waits for the disk or exits, and not both; a *)
(* slot holds an inode or a page as its flag says.                         *)
SlotsAgree ==
    /\ \A p \in Procs : opening[p] # NULL \/ creating[p] # NULL =>
                          p \in alive /\ p # exiting
    /\ exiting \in alive \cup {NULL}
    /\ \A s \in Slots :
          /\ ftab[s].fd_inode \in Blocks => ftab[s].fd_flag \in {"r", "w"}
          /\ ftab[s].fd_inode = Page => ftab[s].fd_flag = "pipe"

(* As long as no slot was lost, a pipe keeps its page while any process,   *)
(* forked or not, has a descriptor for it: its count is never below the    *)
(* number of descriptors.                                                  *)
PipeKept ==
    \A s \in Slots : ~stale /\ ftab[s].fd_flag = "pipe" /\ Refs(s) # {} =>
        ftab[s].fd_inode = Page /\ ftab[s].fd_pos >= Cardinality(Refs(s))

(* The slots of inode b that no descriptor refers to, save those that      *)
(* file_create has filled and not counted yet, and the descriptors that    *)
(* refer to b through any slot.                                            *)
Uncounted == {s \in Slots : \E p \in Procs : creating[p] # NULL /\ creating[p].s = s}
Spare(b) == {s \in Slots \ Uncounted : ftab[s].fd_inode = b /\ Refs(s) = {}}
Held(b) == {r \in Procs \X Fds : \E s \in Slots :
               r \in Refs(s) /\ ftab[s].fd_inode = b}

(* The slot of an open descriptor is in use, the slot a sleeping file_open *)
(* has chosen is free, and memory that is no inode has no count.           *)
SlotsUsed ==
    /\ \A s \in Slots : Refs(s) # {} => ftab[s].fd_inode # NULL
    /\ \A p \in Procs : opening[p] # NULL => ftab[opening[p].s].fd_inode = NULL
    /\ \A b \in Blocks : inode[b].i_no = NULL => inode[b].cnts = 0

(* While a file is created its slot stays the creator's, holds the new     *)
(* inode, which has no count and no other creator, and is in nobody's      *)
(* fd_table.                                                               *)
CreationsAlone ==
    \A p \in Procs : creating[p] # NULL =>
        /\ ftab[creating[p].s].fd_inode = creating[p].b
        /\ Refs(creating[p].s) = {}
        /\ inode[creating[p].b].i_no # NULL
        /\ inode[creating[p].b].cnts = 0
        /\ \A q \in Procs : q # p /\ creating[q] # NULL => creating[q].b # creating[p].b

(* As long as no slot was lost and no inode in the heap of a process was   *)
(* used from outside, the open count of an inode is the number of          *)
(* descriptors of its slots, a slot that no descriptor was installed for   *)
(* counting as one, and one that file_create is still filling as none: no  *)
(* close frees the inode too soon, and sys_close, sys_exit and sys_fork    *)
(* access no inode through NULL.                                           *)
OpenCountExact ==
    /\ FtTypeOK /\ SlotsAgree
    /\ ~stale => SlotsUsed /\ CreationsAlone
    /\ \A b \in Blocks : ~stale =>
        inode[b].cnts = Cardinality(Spare(b)) + Cardinality(Held(b))
    /\ panic => stale

(* "so that later reads and writes find the inode through the fd"          *)
(* (file.c:179): the slot of an open descriptor is in use.                 *)
FdFindsInode ==
    \A s \in Slots : Refs(s) # {} => ftab[s].fd_inode # NULL

=============================================================================
