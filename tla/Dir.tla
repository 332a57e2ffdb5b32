--------------------------------- MODULE Dir --------------------------------
(***************************************************************************)
(* Directories on disk and in memory: search_file, file_create, sys_mkdir, *)
(* sys_unlink, sys_rmdir (fs/fs.c, fs/file.c, fs/dir.c), inode_sync and    *)
(* inode_release (fs/inode.c), bitmap_sync (fs/file.c) and what            *)
(* mount_partition finds after a crash.                                    *)
(*                                                                         *)
(* There is no lock over a call.  Every ide_read and ide_write sleeps, and *)
(* between two of them a call runs to itself, interrupts being off: an     *)
(* action is one disk access and the code up to the next.  What a call     *)
(* reads and writes back later is kept in its buffer, so that an old copy  *)
(* overwrites what was written in between.                                 *)
(*                                                                         *)
(* A directory has one block (Blocks has the others), files are empty, and *)
(* directories lie in the root.  Inode 0 and block 0 are the root's.       *)
(***************************************************************************)
EXTENDS Integers, FiniteSets, Sequences

CONSTANTS Procs,    \* processes making calls
          Names,    \* file names
          MaxIno,   \* bound: inodes besides the root's
          MaxBlk,   \* bound: blocks besides the root's
          MaxSlot,  \* bound: entries of a directory besides . and ..
          MaxCrash  \* bound: crashes

ASSUME DirAssumption ==
    /\ \A n \in {MaxIno, MaxBlk, MaxSlot} : n \in Nat \ {0}
    /\ MaxCrash \in Nat
    /\ IsFiniteSet(Procs)

Inos == 0 .. MaxIno
Blks == 0 .. MaxBlk
Slots == 1 .. MaxSlot
Paths == {<<n>> : n \in Names} \cup (Names \X Names)

VARIABLES ibits, bbits, \* inode_bitmap and block_bitmap in memory: what is marked
          open,         \* open_inodes: the inodes in memory, with i_open_cnts
          dI, dB,       \* the bitmaps on disk
          tab,          \* the inode table on disk: one sector
          blk,          \* the directory blocks on disk
          call,         \* call[p]: the call of p
          made,         \* history: the paths created and not removed since
          stopped,      \* an ASSERT has failed
          crashes,      \* bound: crashes so far
          clash,        \* history: a call acted on what another has changed since
          torn          \* history: a crash left the disk unsound

dVars == <<ibits, bbits, open, dI, dB, tab, blk, call, made, stopped, crashes, clash, torn>>

NoEntry == [name |-> "", ino |-> 0, type |-> "unknown"]
NoBlock == -1
ZeroInode == [no |-> 0, size |-> 0, blk |-> NoBlock]
NewInode(op, i, b) == [no |-> i, size |-> IF op = "mkdir" THEN 2 ELSE 0, blk |-> b]
NotOpen == [cnt |-> 0, inode |-> ZeroInode]
EmptyDir == [s \in Slots |-> NoEntry]
Root == [no |-> 0, size |-> 2, blk |-> 0]
Idle == [op |-> "none", path |-> <<>>, pc |-> "idle", dir |-> 0, ino |-> 0, b |-> NoBlock,
         buf |-> <<>>, pure |-> ZeroInode]

(* open_root_dir keeps the root's inode in memory. *)
RootOnly(t) == [i \in Inos |-> IF i = 0 THEN [cnt |-> 1, inode |-> t[0]] ELSE NotOpen]

DirInit ==
    /\ ibits = {0} /\ dI = {0}
    /\ bbits = {0} /\ dB = {0}
    /\ tab = [i \in Inos |-> IF i = 0 THEN Root ELSE ZeroInode]
    /\ open = RootOnly(tab)
    /\ blk = [b \in Blks |-> EmptyDir]
    /\ call = [p \in Procs |-> Idle]
    /\ made = {} /\ stopped = FALSE /\ crashes = 0 /\ clash = FALSE /\ torn = FALSE

----------------------------------------------------------------------------
Lowest(S) == CHOOSE i \in S : \A j \in S : i <= j
Entries(block) == {block[s] : s \in Slots} \ {NoEntry}
Named(block, n) == {e \in Entries(block) : e.name = n}
Target(c) == c.path[Len(c.path)]
Deletes(c) == c.op \in {"unlink", "rmdir"}

PcIs(p, pc) == call[p].pc = pc /\ ~stopped
SetCall(p, c) == call' = [call EXCEPT ![p] = c]

(* inode_open of an inode in memory, and inode_close. *)
Opened(o, i) == [o EXCEPT ![i].cnt = @ + 1]
Closed(o, i) == IF o[i].cnt = 1 THEN [o EXCEPT ![i] = NotOpen] ELSE [o EXCEPT ![i].cnt = @ - 1]

(* The call returns; dir_close of the directory it has opened. *)
Return(p, o) ==
    /\ SetCall(p, Idle)
    /\ open' = IF call[p].dir = 0 THEN o ELSE Closed(o, call[p].dir)

(* A process calls one of the four; a path ending in a directory is one    *)
(* name long.                                                              *)
Start(p, op, path) ==
    /\ PcIs(p, "idle")
    /\ op \in {"mkdir", "rmdir"} => Len(path) = 1
    /\ SetCall(p, [Idle EXCEPT !.op = op, !.path = path, !.pc = "root"])
    /\ UNCHANGED <<ibits, bbits, open, dI, dB, tab, blk, made, stopped, crashes, clash, torn>>

(* inode_bitmap_alloc. *)
Take(i) == ibits' = ibits \cup {i}

(* A file that is being created is in file_table already, and sys_unlink   *)
(* refuses it.  Its creator closes it when it is made.                     *)
InUse(i) == \E q \in Procs : call[q].op = "create" /\ call[q].ino = i
Releasing(i) == \E q \in Procs : Deletes(call[q]) /\ call[q].ino = i
Removable(found) == {e \in found : e.type = "file" /\ ~InUse(e.ino)}

(* The last name of the path has been looked up: the call returns, or      *)
(* makes its decision and goes to its first access for writing.  o is      *)
(* open_inodes by now.  A number is free while its last owner is still in  *)
(* inode_release, in memory, and about to be cleared on disk.              *)
Looked(p, c, found, o) ==
    \/ /\ c.op \in {"create", "mkdir"} /\ found = {}
       /\ Inos \ ibits # {} /\ (c.op = "mkdir" => Blks \ bbits # {})
       /\ clash' = (clash \/ Releasing(Lowest(Inos \ ibits)))
       /\ LET i == Lowest(Inos \ ibits)
              b == IF c.op = "mkdir" THEN Lowest(Blks \ bbits) ELSE NoBlock
          IN  /\ Take(i)
              /\ bbits' = bbits \cup ({b} \ {NoBlock})
              /\ SetCall(p, [c EXCEPT !.ino = i, !.b = b,
                                   !.pc = IF c.op = "mkdir" THEN "bsync" ELSE "eread"])
       /\ open' = o
    \/ /\ c.op = "unlink" /\ Removable(found) # {}
       /\ SetCall(p, [c EXCEPT !.ino = (CHOOSE e \in found : TRUE).ino, !.pc = "eread"])
       /\ open' = o /\ UNCHANGED <<ibits, bbits, clash>>
    \/ /\ \/ c.op \in {"create", "mkdir"} /\ found # {}
          \/ c.op = "unlink" /\ Removable(found) = {}
       /\ Return(p, o) /\ UNCHANGED <<ibits, bbits, clash>>

(* A directory has been opened: it is the parent that search_file goes on  *)
(* with, or the one rmdir removes when dir_is_empty.                       *)
DirOpened(p, c, o) ==
    \/ Len(c.path) = 2 /\ SetCall(p, [c EXCEPT !.pc = "sub"]) /\ open' = o
    \/ Len(c.path) = 1 /\ o[c.dir].inode.size = 2
       /\ SetCall(p, [c EXCEPT !.ino = c.dir, !.pc = "eread"]) /\ open' = o
    \/ Len(c.path) = 1 /\ o[c.dir].inode.size # 2
       /\ SetCall(p, Idle) /\ open' = Closed(o, c.dir)

(* search_file reads the block of the root.  It opens every directory of   *)
(* the path, the last one too, which it closes again at once (rmdir then   *)
(* opens it anew); one access stands for both.  An ordinary file ends the  *)
(* search, whatever names come after it.                                   *)
SearchRoot(p) ==
    LET c == call[p]
        found == Named(blk[0], c.path[1])
        dirs == {e \in found : e.type = "dir"}
        down == Len(c.path) = 2 \/ c.op = "rmdir"
        ends == ~down \/ (c.op # "rmdir" /\ found # {} /\ dirs = {})
        i == (CHOOSE e \in dirs : TRUE).ino
    IN  /\ PcIs(p, "root")
        /\ \/ ends /\ Looked(p, [c EXCEPT !.path = <<c.path[1]>>], found, open)
           \/ /\ down /\ dirs # {}
              /\ \/ open[i].cnt > 0 /\ DirOpened(p, [c EXCEPT !.dir = i], Opened(open, i))
                 \/ open[i].cnt = 0 /\ SetCall(p, [c EXCEPT !.dir = i, !.pc = "open"])
                    /\ UNCHANGED open
              /\ UNCHANGED <<ibits, bbits, clash>>
           \/ ~ends /\ dirs = {} /\ Return(p, open) /\ UNCHANGED <<ibits, bbits, clash>>
        /\ UNCHANGED <<dI, dB, tab, blk, made, stopped, crashes, torn>>

(* inode_open reads the inode of the directory from the table.  If another *)
(* call has read it as well there are now two copies of it in memory; if   *)
(* the directory is just being made its inode may not be there yet.        *)
BeingMade(i) == \E q \in Procs : /\ call[q].op = "mkdir" /\ call[q].ino = i
                                 /\ call[q].pc \in {"pread", "pwrite", "nread", "nwrite"}

OpenDir(p) ==
    LET c == call[p]
    IN  /\ PcIs(p, "open")
        /\ DirOpened(p, c, [open EXCEPT ![c.dir] = [cnt |-> 1, inode |-> tab[c.dir]]])
        /\ clash' = (clash \/ open[c.dir].cnt > 0 \/ BeingMade(c.dir))
        /\ UNCHANGED <<ibits, bbits, dI, dB, tab, blk, made, stopped, crashes, torn>>

(* search_dir_entry reads the block of the subdirectory.  A call that has  *)
(* read an inode without a block is not followed further.                  *)
SearchSub(p) ==
    LET c == call[p]
    IN  /\ PcIs(p, "sub") /\ open[c.dir].inode.blk # NoBlock
        /\ Looked(p, c, Named(blk[open[c.dir].inode.blk], c.path[2]), open)
        /\ UNCHANGED <<dI, dB, tab, blk, made, stopped, crashes, torn>>

----------------------------------------------------------------------------
(* Mutant: the block of a new directory is not marked on disk. *)
BlockSyncForgets(p) == PcIs(p, "bsync") /\ UNCHANGED dB

(* sys_mkdir: bitmap_sync writes the bitmap as it is in memory by then.    *)
BlockSync(p) == PcIs(p, "bsync") /\ dB' = bbits

(* sys_mkdir writes . and .. into the new block. *)
WriteDots(p) == PcIs(p, "dots") /\ blk' = [blk EXCEPT ![call[p].b] = EmptyDir]

MkdirStep(p) ==
    \/ /\ BlockSync(p)
       /\ SetCall(p, [call[p] EXCEPT !.pc = "dots"])
       /\ UNCHANGED <<ibits, bbits, open, dI, tab, blk, made, stopped, crashes, clash, torn>>
    \/ /\ WriteDots(p)
       /\ SetCall(p, [call[p] EXCEPT !.pc = "eread"])
       /\ UNCHANGED <<ibits, bbits, open, dI, dB, tab, made, stopped, crashes, clash, torn>>

(* inode_release of an inode in memory: its block is unmarked, or its      *)
(* number when it has none, and the bitmap is to be written.               *)
Release(p, c, o) ==
    LET b == o[c.ino].inode.blk
    IN  /\ open' = o
        /\ \/ /\ b # NoBlock
              /\ bbits' = bbits \ {b} /\ UNCHANGED ibits
              /\ SetCall(p, [c EXCEPT !.pc = "bfree", !.buf = <<>>, !.pure = ZeroInode])
           \/ /\ b = NoBlock
              /\ ibits' = ibits \ {c.ino} /\ UNCHANGED bbits
              /\ SetCall(p, [c EXCEPT !.pc = "ifree", !.buf = <<>>, !.pure = ZeroInode])

(* inode_open in inode_release: the inode is in memory, or is to be read.  *)
ReleaseStart(p, c) ==
    \/ open[c.ino].cnt > 0 /\ Release(p, c, Opened(open, c.ino))
    \/ /\ open[c.ino].cnt = 0
       /\ SetCall(p, [c EXCEPT !.pc = "ropen", !.buf = <<>>, !.pure = ZeroInode])
       /\ UNCHANGED <<ibits, bbits, open>>

(* sync_dir_entry and delete_dir_entry read the block of the parent.       *)
(* delete_dir_entry asserts that one entry at most has the inode; without  *)
(* one it returns false, and its callers go on to inode_release.           *)
Parent(c) == IF Len(c.path) = 2 THEN c.dir ELSE 0
ParentBlk(c) == open[Parent(c)].inode.blk

EntryRead(p) ==
    LET c == call[p]
        block == blk[ParentBlk(c)]
        mine == {s \in Slots : block[s] # NoEntry /\ block[s].ino = c.ino}
        gone == Deletes(c) /\ mine = {}
    IN  /\ PcIs(p, "eread")
        /\ stopped' = (Deletes(c) /\ Cardinality(mine) > 1)
        /\ clash' = (clash \/ gone)
        /\ \/ gone /\ ReleaseStart(p, c)
           \/ /\ ~gone
              /\ SetCall(p, [c EXCEPT !.pc = "ewrite", !.buf = block])
              /\ UNCHANGED <<ibits, bbits, open>>
        /\ UNCHANGED <<dI, dB, tab, blk, made, crashes, torn>>

(* The buffer with the entry of the call added in the first free place, or *)
(* the one with its inode number cleared.                                  *)
NewBuf(c) ==
    IF Deletes(c)
    THEN [s \in Slots |-> IF c.buf[s] # NoEntry /\ c.buf[s].ino = c.ino THEN NoEntry
                          ELSE c.buf[s]]
    ELSE [c.buf EXCEPT ![Lowest({s \in Slots : c.buf[s] = NoEntry})] =
            [name |-> Target(c), ino |-> c.ino, type |-> IF c.op = "mkdir" THEN "dir" ELSE "file"]]

(* The lookup of the call no longer holds, as another call has created the *)
(* name or removed it, or put something into the directory that rmdir      *)
(* removes; or another call has looked that directory up.                  *)
Outdated(p, c) ==
    \/ c.buf # blk[ParentBlk(c)]
    \/ ~Deletes(c) /\ Named(c.buf, Target(c)) # {}
    \/ Deletes(c) /\ {e \in Entries(c.buf) : e.ino = c.ino} # Named(c.buf, Target(c))
    \/ c.op = "rmdir" /\ \/ open[c.dir].inode.size # 2
                         \/ \E q \in Procs \ {p} : call[q].dir = c.dir

(* Mutant: the size of the directory is not updated. *)
ResizedNot(c) == open

(* dir_inode->i_size after the entry is written. *)
Resized(c) ==
    [open EXCEPT ![Parent(c)].inode.size = IF Deletes(c) THEN @ - 1 ELSE @ + 1]

(* The block goes to disk, then the size changes in memory; inode_sync of  *)
(* the parent starts with a copy of it.                                    *)
EntryWrite(p) ==
    LET c == call[p]
    IN  /\ PcIs(p, "ewrite")
        /\ Deletes(c) \/ \E s \in Slots : c.buf[s] = NoEntry
        /\ blk' = [blk EXCEPT ![ParentBlk(c)] = NewBuf(c)]
        /\ open' = Resized(c)
        /\ SetCall(p, [c EXCEPT !.pc = "pread", !.buf = <<>>, !.pure = open'[Parent(c)].inode])
        /\ made' = IF Deletes(c) THEN made \ {c.path} ELSE made \cup {c.path}
        /\ clash' = (clash \/ Outdated(p, c))
        /\ UNCHANGED <<ibits, bbits, dI, dB, tab, stopped, crashes, torn>>

----------------------------------------------------------------------------
(* inode_sync and inode_delete read the sector of the table, replace one   *)
(* inode in it and write it back.                                          *)
TableRead(p) ==
    /\ ~stopped /\ call[p].pc \in {"pread", "nread", "zread"}
    /\ SetCall(p, [call[p] EXCEPT !.buf = tab,
                   !.pc = CASE @ = "pread" -> "pwrite" [] @ = "nread" -> "nwrite"
                            [] OTHER -> "zwrite"])
    /\ UNCHANGED <<ibits, bbits, open, dI, dB, tab, blk, made, stopped, crashes, clash, torn>>

(* The inode written is the copy made before the sector was read: both may *)
(* be old by now.                                                          *)
TableWrite(p, i, now) ==
    /\ tab' = [call[p].buf EXCEPT ![i] = call[p].pure]
    /\ clash' = (clash \/ call[p].buf # tab \/ call[p].pure # now)

(* The parent's inode is on disk: the new inode is next, or the release of *)
(* the one removed, which rmdir has in memory.                             *)
ParentWrite(p) ==
    LET c == call[p]
    IN  /\ PcIs(p, "pwrite")
        /\ TableWrite(p, Parent(c), open[Parent(c)].inode)
        /\ \/ /\ ~Deletes(c)
              /\ SetCall(p, [c EXCEPT !.pc = "nread", !.buf = <<>>,
                                   !.pure = NewInode(c.op, c.ino, c.b)])
              /\ UNCHANGED <<ibits, bbits, open>>
           \/ Deletes(c) /\ ReleaseStart(p, c)
        /\ UNCHANGED <<dI, dB, blk, made, stopped, crashes, torn>>

NewWrite(p) ==
    /\ PcIs(p, "nwrite")
    /\ TableWrite(p, call[p].ino, call[p].pure)
    /\ SetCall(p, [call[p] EXCEPT !.pc = "isync", !.buf = <<>>, !.pure = ZeroInode])
    /\ UNCHANGED <<ibits, bbits, open, dI, dB, blk, made, stopped, crashes, torn>>

(* Mutant: the number of the new inode is not marked on disk. *)
InodeSyncForgets(p) == PcIs(p, "isync") /\ UNCHANGED dI

(* bitmap_sync of the inode bitmap ends file_create and sys_mkdir. *)
InodeSync(p) == PcIs(p, "isync") /\ dI' = ibits

(* The descriptor of a created file, the count of its inode and its place  *)
(* in open_inodes are in FileTable; here nobody keeps the file open.       *)
Finish(p) ==
    /\ InodeSync(p)
    /\ Return(p, open)
    /\ UNCHANGED <<ibits, bbits, dB, tab, blk, made, stopped, crashes, clash, torn>>

----------------------------------------------------------------------------
(* inode_release reads the inode of a file; its number must be the one     *)
(* asked for.                                                              *)
ReleaseOpen(p) ==
    LET c == call[p]
        i == tab[c.ino]
    IN  /\ PcIs(p, "ropen")
        /\ stopped' = (i.no # c.ino)
        /\ Release(p, c, [open EXCEPT ![c.ino] = [cnt |-> 1, inode |-> i]])
        /\ clash' = (clash \/ open[c.ino].cnt > 0)
        /\ UNCHANGED <<dI, dB, tab, blk, made, crashes, torn>>

(* The block bitmap is written; the number of the inode is unmarked. *)
FreeBlock(p) ==
    /\ PcIs(p, "bfree")
    /\ dB' = bbits
    /\ ibits' = ibits \ {call[p].ino}
    /\ SetCall(p, [call[p] EXCEPT !.pc = "ifree"])
    /\ UNCHANGED <<bbits, open, dI, tab, blk, made, stopped, crashes, clash, torn>>

FreeInode(p) ==
    /\ PcIs(p, "ifree")
    /\ dI' = ibits
    /\ SetCall(p, [call[p] EXCEPT !.pc = "zread"])
    /\ UNCHANGED <<ibits, bbits, open, dB, tab, blk, made, stopped, crashes, clash, torn>>

(* inode_delete clears the inode on disk. *)
ZeroWrite(p) ==
    LET c == call[p]
    IN  /\ PcIs(p, "zwrite")
        /\ tab' = [c.buf EXCEPT ![c.ino] = ZeroInode]
        /\ clash' = (clash \/ c.buf # tab)
        /\ Return(p, Closed(open, c.ino))
        /\ UNCHANGED <<ibits, bbits, dI, dB, blk, made, stopped, crashes, torn>>

----------------------------------------------------------------------------
(* What the next mount needs of a directory on disk: its size counts its   *)
(* entries, and each names an inode that is marked and written, with a     *)
(* marked block if it is a directory.  No two directories have one block.  *)
DirSound(d) ==
    LET es == Entries(blk[tab[d].blk])
    IN  /\ tab[d].blk # NoBlock
        /\ tab[d].size = 2 + Cardinality(es)
        /\ \A e \in es :
              /\ e.ino \in dI /\ tab[e.ino].no = e.ino
              /\ e.type = "dir" => tab[e.ino].blk \in dB
              /\ e.type = "file" => tab[e.ino].blk = NoBlock

(* The paths whose entry is written by a call that has not returned yet. *)
UnderWay == {call[p].path : p \in {q \in Procs :
                call[q].op \in {"create", "mkdir"}
                /\ call[q].pc \in {"pread", "pwrite", "nread", "nwrite", "isync"}}}

SubDirs == {e \in Entries(blk[0]) : e.type = "dir"}
Dirs == {0} \cup {e.ino : e \in SubDirs}
DiskSound ==
    /\ \A d \in Dirs : DirSound(d)
    /\ \A d, f \in Dirs : d # f => tab[d].blk # tab[f].blk

(* The machine stops and starts again: mount_partition reads the bitmaps.  *)
Crash ==
    /\ crashes < MaxCrash
    /\ crashes' = crashes + 1
    /\ ibits' = dI /\ bbits' = dB
    /\ open' = RootOnly(tab)
    /\ call' = [p \in Procs |-> Idle]
    /\ stopped' = FALSE
    /\ torn' = (torn \/ ~DiskSound)
    /\ made' = made \ UnderWay
    /\ UNCHANGED <<dI, dB, tab, blk, clash>>

DirNext ==
    \/ \E p \in Procs, op \in {"create", "mkdir", "unlink", "rmdir"}, path \in Paths :
          Start(p, op, path)
    \/ \E p \in Procs : \/ SearchRoot(p) \/ OpenDir(p) \/ SearchSub(p) \/ MkdirStep(p)
                        \/ EntryRead(p) \/ EntryWrite(p) \/ TableRead(p) \/ ParentWrite(p)
                        \/ NewWrite(p) \/ Finish(p) \/ ReleaseOpen(p) \/ FreeBlock(p)
                        \/ FreeInode(p) \/ ZeroWrite(p)
    \/ Crash

DirSpec == DirInit /\ [][DirNext]_dVars

----------------------------------------------------------------------------
(* Types: what is marked and named are inodes and blocks of the partition, *)
(* and counts do not fall below zero.                                      *)
Inodes == [no : Inos, size : Int, blk : Blks \cup {NoBlock}]
DirBlocks == [Slots -> {NoEntry} \cup [name : Names, ino : Inos \ {0}, type : {"file", "dir"}]]
Pcs == {"idle", "root", "open", "sub", "bsync", "dots", "eread", "ewrite", "pread", "pwrite",
        "nread", "nwrite", "isync", "ropen", "bfree", "ifree", "zread", "zwrite"}
Calls == [op : {"none", "create", "mkdir", "unlink", "rmdir"}, path : {<<>>} \cup Paths,
          pc : Pcs, dir : Inos, ino : Inos, b : Blks \cup {NoBlock},
          buf : {<<>>} \cup DirBlocks \cup [Inos -> Inodes], pure : Inodes]

DirTypeOK ==
    /\ ibits \subseteq Inos /\ dI \subseteq Inos
    /\ bbits \subseteq Blks /\ dB \subseteq Blks
    /\ open \in [Inos -> [cnt : Nat, inode : Inodes]]
    /\ tab \in [Inos -> Inodes]
    /\ blk \in [Blks -> DirBlocks]
    /\ call \in [Procs -> Calls]
    /\ made \subseteq Paths
    /\ crashes \in 0 .. MaxCrash

Steady == ~clash /\ ~torn

(* Calls that do not overtake each other keep the tree in order, however   *)
(* they interleave: a directory holds a name once, an inode has one entry  *)
(* and is marked, a directory in memory counts its entries, no ASSERT      *)
(* fails, and when no call is under way and nothing has crashed no inode   *)
(* and no block is lost (file_create, sys_mkdir, sys_unlink, sys_rmdir).   *)
InMemory == {0} \cup {d \in Inos : open[d].cnt > 0 /\ open[d].inode.blk # NoBlock
                                   /\ \E e \in SubDirs : e.ino = d}

TreeConsistent ==
    Steady =>
        /\ DirTypeOK /\ ~stopped
        /\ LET block(d) == blk[open[d].inode.blk]
               entry(w) == block(w[1])[w[2]]
               where == {w \in InMemory \X Slots : entry(w) # NoEntry}
           IN  /\ \A w, v \in where : w # v =>
                     /\ entry(w).ino # entry(v).ino
                     /\ w[1] = v[1] => entry(w).name # entry(v).name
               /\ \A w \in where : entry(w).ino \in ibits
               /\ \A d \in InMemory : open[d].inode.size = 2 + Cardinality(Entries(block(d)))
        /\ (crashes = 0 /\ \A p \in Procs : call[p] = Idle) =>
              LET all == Entries(blk[0]) \cup UNION {Entries(blk[tab[e.ino].blk]) : e \in SubDirs}
              IN  /\ ibits = {0} \cup {e.ino : e \in all}
                  /\ bbits = {0} \cup {tab[e.ino].blk : e \in SubDirs}

(* A crash hurts in one place only: while a directory's entry is written   *)
(* and what belongs to it is not yet (its parent's size, the new inode,    *)
(* the mark of the new inode).  At every other moment the disk is sound.   *)
CrashWindow ==
    Steady =>
        \/ DiskSound
        \/ \E p \in Procs : call[p].pc \in {"pread", "pwrite", "nread", "nwrite", "isync"}

(* What has been created, when the call has returned and nobody removes    *)
(* it, is on disk with all that belongs to it, so a crash of the machine   *)
(* does not lose it (file_create and sys_mkdir write through).             *)
OnDisk(path) ==
    \E e \in Named(blk[0], path[1]) :
        /\ e.ino \in dI /\ tab[e.ino].no = e.ino
        /\ Len(path) = 2 => /\ tab[e.ino].blk # NoBlock
                            /\ \E g \in Named(blk[tab[e.ino].blk], path[2]) :
                                  g.ino \in dI /\ tab[g.ino].no = g.ino

ReturnedOnDisk == Steady => \A path \in made \ UnderWay : OnDisk(path)

(* file_create says that the entry is on disk when sync_dir_entry returns  *)
(* true: a file that was created and not removed is there.                 *)
NothingLost == ~torn => \A path \in made \ UnderWay : OnDisk(path)
=============================================================================
