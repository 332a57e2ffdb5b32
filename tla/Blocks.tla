------------------------------- MODULE Blocks -------------------------------
(***************************************************************************)
(* The blocks of one partition: file_write, file_read and sys_lseek        *)
(* (fs/file.c, fs/fs.c), the entries of a directory (fs/dir.c),            *)
(* inode_release (fs/inode.c), all allocating from one block_bitmap, and   *)
(* partition_format, which sets it up.                                     *)
(*                                                                         *)
(* One call at a time: what calls do to each other is in Dir.  A block is  *)
(* its sector address counted from the one of the root directory, which is *)
(* 1; 0 is no block.  The byte of file f at offset i is <<"byte", f, i>>,  *)
(* so a byte read tells where it was written.  One descriptor is open at a *)
(* time.                                                                   *)
(***************************************************************************)
EXTENDS Integers, FiniteSets, Sequences

CONSTANTS Files,        \* files that are written
          Others,       \* files that stay empty
          BLOCK_SIZE,   \* bytes of a block
          Direct,       \* direct blocks of an inode (12)
          PerTable,     \* addresses in an indirect block (128)
          PerSector,    \* directory entries in a block
          BitLen,       \* block_bitmap_bit_len: the blocks of the partition
          ByteBits,     \* bits of a byte of the bitmap
          SectorBits,   \* bits of a sector of the bitmap
          Counts,       \* byte counts and offsets passed to read, write and lseek
          Word          \* 2^32: fd_pos wraps

Names == Files \cup Others
Total == Direct + PerTable      \* 140
Lbas == 1 .. SectorBits         \* bit b - 1 of the bitmap is block b
Units == UNION {0 .. (n - 1) : n \in {BLOCK_SIZE, PerTable, PerSector}}

(* A partition has at least the blocks of one byte of its bitmap, and a    *)
(* buffer that is read or written is too small for fd_pos + count to wrap. *)
ASSUME BlocksAssumption ==
    /\ \A c \in {BLOCK_SIZE, Direct, PerTable, BitLen, ByteBits, SectorBits} : c \in Nat \ {0}
    /\ PerSector \in Nat /\ PerSector >= 2
    /\ ByteBits <= BitLen /\ BitLen < SectorBits
    /\ Counts \subseteq Nat /\ Word \in Nat
    /\ Word > BLOCK_SIZE * Total
    /\ \A n \in Counts : n < Word - BLOCK_SIZE * Total
    /\ Names \cap {"dir", "none", ".", ".."} = {}

VARIABLES used,     \* block_bitmap: the blocks marked
          disk,     \* the contents of the blocks
          sec,      \* i_sectors of the inodes; the last is the indirect block
          i_size,   \* i_size; the directory's counts entries
          names,    \* the files there are
          fd,       \* the open descriptor: the file, or "none", and fd_pos
          panic,    \* why the machine stopped
          spilled   \* history: the directory has allocated an indirect block

bVars == <<used, disk, sec, i_size, names, fd, panic, spilled>>

Closed == [file |-> "none", pos |-> 0]
Zero == <<"zero">>
Blank == [u \in Units |-> Zero]
Left == <<"left">>
Old == [u \in Units |-> Left]      \* what a free block was left with
Entry(n) == <<"entry", n>>
Addr(b) == IF b = 0 THEN Zero ELSE <<"addr", b>>
AddrOf(v) == IF v[1] = "addr" THEN v[2] ELSE 0
Byte(f, i) == <<"byte", f, i>>
NoSectors == [i \in 0 .. Direct |-> 0]

----------------------------------------------------------------------------
(* partition_format: the bitmap is marked from the byte of its last bit to *)
(* the end of the sector, then bits 0 to block_bitmap_last_bit of that     *)
(* byte are cleared; bit 0 is the root directory's.                        *)
Formatted ==
    LET lastByte == ByteBits * (BitLen \div ByteBits)
        cleared == {lastByte + i : i \in 0 .. (BitLen % ByteBits)}
    IN  {bit + 1 : bit \in ({0} \cup lastByte .. (SectorBits - 1)) \ cleared}

BlocksInit ==
    /\ used = Formatted
    /\ disk = [b \in Lbas |-> IF b = 1 THEN [Blank EXCEPT ![0] = Entry("."), ![1] = Entry("..")]
                              ELSE Old]
    /\ sec = [o \in Names \cup {"dir"} |-> IF o = "dir" THEN [NoSectors EXCEPT ![0] = 1]
                                           ELSE NoSectors]
    /\ i_size = [o \in Names \cup {"dir"} |-> IF o = "dir" THEN 2 ELSE 0]
    /\ names = {}
    /\ fd = Closed
    /\ panic = "none"
    /\ spilled = FALSE

(* block_bitmap_alloc takes the lowest free bit; the k-th allocation of a  *)
(* call.  When no bit is free the ASSERT of bitmap_scan stops the machine, *)
(* so the returns of -1 in the callers are not reached.                    *)
Free == Lbas \ used
Alloc(k) == IF k > Cardinality(Free) THEN 0
            ELSE CHOOSE b \in Free : Cardinality({c \in Free : c <= b}) = k
Allocs(k) == {Alloc(j) : j \in 1 .. k}

Stop(why) == panic' = why /\ UNCHANGED <<used, disk, sec, i_size, names, fd, spilled>>

(* all_blocks[i] of an inode with sectors s on disk d. *)
BlockAt(s, d, i) ==
    IF i < Direct THEN s[i]
    ELSE IF s[Direct] = 0 THEN 0 ELSE AddrOf(d[s[Direct]][i - Direct])

BlocksOf(s, d) == {BlockAt(s, d, i) : i \in 0 .. (Total - 1)} \ {0}

----------------------------------------------------------------------------
(* Mutant: the block that holds the last bytes is not counted. *)
UsedBlocksShort(size) == IF size = 0 THEN 1 ELSE size \div BLOCK_SIZE

(* file_has_used_blocks, file_will_use_blocks: a file that ends at the end *)
(* of a block already has the next one.                                    *)
UsedBlocks(size) == size \div BLOCK_SIZE + 1

(* Mutant: a file with all its direct blocks gets no indirect block. *)
CrossesLate(has, will) == has < Direct /\ will > Direct

(* The second case of file_write: the indirect block has to be allocated. *)
Crosses(has, will) == has <= Direct /\ will > Direct

(* The i_sectors after file_write of n bytes to f: the first block, then   *)
(* the indirect block when the file crosses into it, then the data blocks. *)
WillSectors(f, n) ==
    LET has == UsedBlocks(i_size[f])
        will == UsedBlocks(i_size[f] + n)
        first == IF sec[f][0] = 0 THEN 1 ELSE 0
        table == IF Crosses(has, will) THEN 1 ELSE 0
    IN  [k |-> first + table + will - has,
         s |-> [i \in 0 .. Direct |->
                  CASE i = 0 /\ first = 1 -> Alloc(1)
                    [] i = Direct /\ table = 1 -> Alloc(first + 1)
                    [] i < Direct /\ i >= has /\ i < will -> Alloc(first + table + i - has + 1)
                    [] OTHER -> sec[f][i]],
         t |-> [u \in Units |->
                  LET i == u + Direct
                  IN  IF i >= has /\ i < will THEN Addr(Alloc(first + table + i - has + 1))
                      ELSE IF table = 1 \/ sec[f][Direct] = 0 THEN Zero
                      ELSE disk[sec[f][Direct]][u]],
         tabled |-> will > has /\ will > Direct]

(* The loop of file_write, with sectors s on disk d: the first sector keeps*)
(* what it held around the new bytes, the others are cleared.              *)
Written(f, n, s, d) ==
    LET size == i_size[f]
        lba(k) == BlockAt(s, d, k)
        first == size \div BLOCK_SIZE
        sectors == IF n = 0 THEN {} ELSE first .. ((size + n - 1) \div BLOCK_SIZE)
    IN  [b \in Lbas |->
           IF ~ \E k \in sectors : lba(k) = b THEN d[b]
           ELSE LET k == CHOOSE k \in sectors : lba(k) = b
                IN  [u \in Units |->
                       IF u < BLOCK_SIZE /\ k * BLOCK_SIZE + u \in size .. (size + n - 1)
                       THEN Byte(f, k * BLOCK_SIZE + u)
                       ELSE IF k = first THEN d[b][u] ELSE Zero]]

(* What stops file_write: the ASSERT that the blocks do not exceed 140,    *)
(* which a file of exactly the size the first check admits fails; no free  *)
(* block; the ASSERTs on the sectors.                                      *)
WriteStops(f, n) ==
    LET has == UsedBlocks(i_size[f])
        will == UsedBlocks(i_size[f] + n)
        w == WillSectors(f, n)
    IN  IF will > Total THEN "limit"
        ELSE IF w.k > Cardinality(Free) THEN "full"
        ELSE IF \/ has > Direct /\ sec[f][Direct] = 0
                \/ Crosses(has, will) /\ sec[f][Direct] # 0
                \/ \E i \in has .. (will - 1) : i < Direct /\ sec[f][i] # 0
                \/ will > has /\ will <= Direct /\ w.s[has - 1] = 0
             THEN "assert"
        ELSE "none"

(* file_write(f, n); fd_pos ends one before the new size, modulo 2^32. *)
FileWrite(f, n) ==
    /\ panic = "none" /\ fd.file = f
    /\ i_size[f] + n <= BLOCK_SIZE * Total
    /\ \/ WriteStops(f, n) # "none" /\ Stop(WriteStops(f, n))
       \/ /\ WriteStops(f, n) = "none"
          /\ LET w == WillSectors(f, n)
                 d == IF w.tabled THEN [disk EXCEPT ![w.s[Direct]] = w.t] ELSE disk
             IN  /\ used' = used \cup Allocs(w.k)
                 /\ sec' = [sec EXCEPT ![f] = w.s]
                 /\ disk' = Written(f, n, w.s, d)
          /\ i_size' = [i_size EXCEPT ![f] = @ + n]
          /\ fd' = [fd EXCEPT !.pos = (i_size[f] + n - 1) % Word]
          /\ UNCHANGED <<names, panic, spilled>>

----------------------------------------------------------------------------

(* The bytes file_read is going to read, modulo 2^32. *)
ReadSize(f, n) ==
    IF (fd.pos + n) % Word > i_size[f] THEN (i_size[f] - fd.pos) % Word ELSE n

ReadRefused(f, n) == (fd.pos + n) % Word > i_size[f] /\ ReadSize(f, n) = 0

(* What stops file_read: the ASSERT that the blocks lie below 139, which   *)
(* the last block of the largest file fails, or a missing indirect block.  *)
ReadStops(f, n) ==
    LET first == fd.pos \div BLOCK_SIZE
        last == ((fd.pos + ReadSize(f, n)) % Word) \div BLOCK_SIZE
    IN  IF first >= Total - 1 \/ last >= Total - 1 THEN "limit"
        ELSE IF first # last /\ last >= Direct /\ sec[f][Direct] = 0 THEN "assert"
        ELSE "none"

(* The bytes that file_read copies: fd_pos walks over the blocks. *)
ReadBytes(f, n) ==
    [j \in 1 .. ReadSize(f, n) |->
        LET p == fd.pos + j - 1
            b == BlockAt(sec[f], disk, p \div BLOCK_SIZE)
        IN  IF b = 0 THEN Zero ELSE disk[b][p % BLOCK_SIZE]]

FileRead(f, n) ==
    /\ panic = "none" /\ fd.file = f
    /\ ~ReadRefused(f, n)
    /\ \/ ReadStops(f, n) # "none" /\ Stop(ReadStops(f, n))
       \/ /\ ReadStops(f, n) = "none"
          /\ fd' = [fd EXCEPT !.pos = (@ + ReadSize(f, n)) % Word]
          /\ UNCHANGED <<used, disk, sec, i_size, names, panic, spilled>>

(* sys_lseek: the offsets it accepts are those of the file's bytes. *)
SysLseek(f, new_pos) ==
    /\ panic = "none" /\ fd.file = f
    /\ new_pos >= 0 /\ new_pos <= i_size[f] - 1
    /\ fd' = [fd EXCEPT !.pos = new_pos]
    /\ UNCHANGED <<used, disk, sec, i_size, names, panic, spilled>>

(* file_open and file_close: fd_pos starts at 0. *)
FileOpen(f) ==
    /\ panic = "none" /\ fd.file = "none" /\ f \in names
    /\ fd' = [file |-> f, pos |-> 0]
    /\ UNCHANGED <<used, disk, sec, i_size, names, panic, spilled>>

FileClose ==
    /\ panic = "none" /\ fd.file # "none"
    /\ fd' = Closed
    /\ UNCHANGED <<used, disk, sec, i_size, names, panic, spilled>>

----------------------------------------------------------------------------
(* Blocks of the directory with a free entry, as sync_dir_entry sees them: *)
(* it has copied the direct addresses only.                                *)
Dir == sec["dir"]
FreeEntries(b) == {u \in 0 .. (PerSector - 1) : disk[b][u] = Zero}
LowestOf(S) == CHOOSE i \in S : \A j \in S : i <= j

(* The first index at which sync_dir_entry stops: no block, or room. *)
EntryIndex == LowestOf({i \in 0 .. Direct : \/ i = Direct
                                            \/ Dir[i] = 0
                                            \/ FreeEntries(Dir[i]) # {}})

(* The size of the directory, its entries in disk blocks and the blocks    *)
(* marked after sync_dir_entry(n).                                         *)
SyncDirEntry(n) ==
    LET i == EntryIndex
        fresh == [Blank EXCEPT ![0] = Entry(n)]
    IN  /\ i_size' = [i_size EXCEPT !["dir"] = @ + 1, ![n] = 0]
        /\ \/ /\ i < Direct /\ Dir[i] # 0
              /\ disk' = [disk EXCEPT ![Dir[i]][LowestOf(FreeEntries(Dir[i]))] = Entry(n)]
              /\ sec' = [sec EXCEPT ![n] = NoSectors]
              /\ UNCHANGED <<used, spilled>>
           \/ /\ i < Direct /\ Dir[i] = 0
              /\ used' = used \cup {Alloc(1)}
              /\ disk' = [disk EXCEPT ![Alloc(1)] = fresh]
              /\ sec' = [sec EXCEPT !["dir"][i] = Alloc(1), ![n] = NoSectors]
              /\ UNCHANGED spilled
           \/ /\ i = Direct
              /\ used' = used \cup {Alloc(1), Alloc(2)}
              /\ disk' = [disk EXCEPT ![Alloc(1)] = [Blank EXCEPT ![0] = Addr(Alloc(2))],
                                      ![Alloc(2)] = fresh]
              /\ sec' = [sec EXCEPT !["dir"][Direct] = Alloc(1), ![n] = NoSectors]
              /\ spilled' = TRUE

(* file_create: inode_init and the entry in the directory; the new file is *)
(* open.  A name whose entry was lost is not created a second time.        *)
FileCreate(n) ==
    /\ panic = "none" /\ fd.file = "none" /\ n \in Names \ names
    /\ LET need == IF EntryIndex = Direct THEN 2 ELSE IF Dir[EntryIndex] = 0 THEN 1 ELSE 0
       IN  \/ need > Cardinality(Free) /\ Stop("full")
           \/ /\ need <= Cardinality(Free)
              /\ SyncDirEntry(n)
              /\ names' = names \cup {n}
              /\ fd' = [file |-> n, pos |-> 0]
              /\ UNCHANGED panic

(* search_dir_entry: is there an entry with the name in any of the blocks? *)
Holds(b, n) == \E u \in 0 .. (PerSector - 1) : disk[b][u] = Entry(n)
SearchDirEntry(n) == \E b \in BlocksOf(Dir, disk) : Holds(b, n)

(* Mutant: the block of the last entry is not given back. *)
SoleEntryNever(b, n) == FALSE

(* delete_dir_entry gives back a block that holds no other entry, unless   *)
(* it is the one with the entry ".".                                       *)
SoleEntry(b, n) ==
    /\ ~Holds(b, ".")
    /\ \A u \in 0 .. (PerSector - 1) : disk[b][u] \in {Zero, Entry(n), Entry("..")}

(* The blocks of an inode, the indirect one with them. *)
InodeBlocks(o) == BlocksOf(sec[o], disk) \cup ({sec[o][Direct]} \ {0})

(* Mutant: inode_release gives back the blocks and not the indirect one. *)
ReleasedData(o) == BlocksOf(sec[o], disk)

(* inode_release gives back all of them; what they hold stays there. *)
Released(o) == InodeBlocks(o)

(* sys_unlink of a file nobody has open: delete_dir_entry, inode_release.  *)
(* The loop that counts indirect blocks does not advance, so giving back   *)
(* an indirect block never ends.                                           *)
SysUnlink(n) ==
    /\ panic = "none" /\ fd.file # n /\ SearchDirEntry(n)
    /\ LET i == LowestOf({j \in 0 .. (Total - 1) :
                            BlockAt(Dir, disk, j) # 0 /\ Holds(BlockAt(Dir, disk, j), n)})
           b == BlockAt(Dir, disk, i)
           u == CHOOSE v \in 0 .. (PerSector - 1) : disk[b][v] = Entry(n)
       IN  \/ SoleEntry(b, n) /\ i >= Direct /\ Stop("loop")
           \/ /\ SoleEntry(b, n) /\ i < Direct
              /\ used' = (used \ {b}) \ Released(n)
              /\ disk' = [c \in Lbas |-> IF c \in {b} \cup Released(n) THEN Old ELSE disk[c]]
              /\ sec' = [sec EXCEPT !["dir"][i] = 0, ![n] = NoSectors]
              /\ UNCHANGED panic
           \/ /\ ~SoleEntry(b, n)
              /\ used' = used \ Released(n)
              /\ disk' = [c \in Lbas |-> IF c \in Released(n) THEN Old
                                         ELSE IF c = b THEN [disk[b] EXCEPT ![u] = Zero]
                                         ELSE disk[c]]
              /\ sec' = [sec EXCEPT ![n] = NoSectors]
              /\ UNCHANGED panic
    /\ IF panic' # "none" THEN TRUE
       ELSE /\ i_size' = [i_size EXCEPT !["dir"] = @ - 1, ![n] = 0]
            /\ names' = names \ {n}
            /\ UNCHANGED <<fd, spilled>>

(* The places with an entry: block i and number u in it, in the order of   *)
(* dir_read; successive calls return as many as i_size allows.             *)
EntryAt(p) == disk[BlockAt(Dir, disk, p[1])][p[2]]
Before(q, p) == q[1] < p[1] \/ (q[1] = p[1] /\ q[2] < p[2])
Entries == {p \in (0 .. (Total - 1)) \X (0 .. (PerSector - 1)) :
                BlockAt(Dir, disk, p[1]) # 0 /\ EntryAt(p) # Zero}
DirRead == {p \in Entries : Cardinality({q \in Entries : Before(q, p)}) < i_size["dir"]}

DirIsEmpty == i_size["dir"] = 2

----------------------------------------------------------------------------
BlocksNext ==
    \/ \E n \in Names : FileCreate(n) \/ SysUnlink(n)
    \/ \E f \in Files : \E c \in Counts : FileWrite(f, c) \/ FileRead(f, c)
    \/ \E f \in Files : \E p \in Counts : SysLseek(f, p)
    \/ \E f \in Files : FileOpen(f)
    \/ FileClose

BlocksSpec == BlocksInit /\ [][BlocksNext]_bVars

----------------------------------------------------------------------------
(* Types: addresses are blocks of the bitmap, positions are 32 bits wide,  *)
(* and no file is larger than its inode can address.                       *)
Cells == {Zero, Left} \cup {Entry(n) : n \in Names \cup {".", ".."}}
         \cup {Addr(b) : b \in Lbas}
         \cup {Byte(f, i) : f \in Files, i \in 0 .. (BLOCK_SIZE * Total - 1)}
BlocksTypeOK ==
    /\ used \subseteq Lbas
    /\ disk \in [Lbas -> [Units -> Cells]]
    /\ sec \in [Names \cup {"dir"} -> [0 .. Direct -> Lbas \cup {0}]]
    /\ i_size \in [Names \cup {"dir"} -> Nat]
    /\ names \subseteq Names /\ IsFiniteSet(names)
    /\ fd \in [file : names \cup {"none"}, pos : 0 .. (Word - 1)]
    /\ spilled \in BOOLEAN

(* Every byte of a file is where file_read looks for it, whatever was      *)
(* written, deleted and written again in between: each read that returns,  *)
(* from the position that writes and seeks have left, returns the bytes    *)
(* from there to the count asked for or the end of the file                *)
(* (file_write, file_read).                                                *)
FileIntact ==
    \A f \in names \cap Files :
        /\ \A i \in 0 .. (i_size[f] - 1) :
              LET b == BlockAt(sec[f], disk, i \div BLOCK_SIZE)
              IN  b # 0 /\ disk[b][i % BLOCK_SIZE] = Byte(f, i)
        /\ \A n \in Counts : (fd.file = f /\ ~ReadRefused(f, n) /\ ReadStops(f, n) = "none") =>
              ReadBytes(f, n) = [j \in 1 .. (IF fd.pos + n <= i_size[f] THEN n
                                             ELSE i_size[f] - fd.pos)
                                   |-> Byte(f, fd.pos + j - 1)]

(* A file that was written has the blocks that its size calls for, and an  *)
(* indirect one when they are more than the direct ones.                   *)
FileShape(f) ==
    /\ UsedBlocks(i_size[f]) <= Total
    /\ sec[f][0] = 0 => i_size[f] = 0 /\ sec[f] = NoSectors
    /\ sec[f][0] # 0 =>
         /\ \A i \in 0 .. (Total - 1) :
               BlockAt(sec[f], disk, i) # 0 <=> i < UsedBlocks(i_size[f])
         /\ sec[f][Direct] # 0 <=> UsedBlocks(i_size[f]) > Direct

(* A block belongs to one inode, once, and is marked; a file has the       *)
(* blocks its size calls for; while the directory keeps to its direct      *)
(* blocks, every marked block belongs to an inode, so none is lost         *)
(* (block_bitmap_alloc against inode_release and delete_dir_entry).        *)
BlocksOnce ==
    LET Owners == names \cup {"dir"}
    IN  /\ BlocksTypeOK
        /\ \A f \in names : FileShape(f)
        /\ \A o \in Owners : InodeBlocks(o) \subseteq used
        /\ \A o, q \in Owners : o # q => InodeBlocks(o) \cap InodeBlocks(q) = {}
        /\ \A o \in Owners : \A i, j \in 0 .. (Total - 1) :
              i # j /\ BlockAt(sec[o], disk, i) # 0 =>
                  BlockAt(sec[o], disk, i) \notin {BlockAt(sec[o], disk, j), sec[o][Direct]}
        /\ ~spilled => used \ Formatted \subseteq UNION {InodeBlocks(o) : o \in Owners}

(* While the directory keeps to its direct blocks: search_dir_entry finds  *)
(* the files there are and no others, dir_read lists each once, i_size     *)
(* tells an empty directory, and an empty directory has one block, as the  *)
(* ASSERT of dir_remove expects.                                           *)
DirExact ==
    ~spilled =>
        /\ \A n \in Names : SearchDirEntry(n) <=> n \in names
        /\ Cardinality(DirRead) = 2 + Cardinality(names)
        /\ {EntryAt(p) : p \in DirRead} = {Entry(n) : n \in names \cup {".", ".."}}
        /\ DirIsEmpty <=> names = {}
        /\ DirIsEmpty => \A i \in 1 .. Direct : Dir[i] = 0

(* The machine stops for want of the blocks of one file, at the size limit *)
(* of a file, or in the loop that frees an indirect block of a directory;  *)
(* the ASSERTs on the sectors of an inode never fail (file_write).         *)
OnlyLimitsStop ==
    /\ panic \in {"none", "full", "limit", "loop"}
    /\ panic = "full" => Cardinality(Free) <= Total
    /\ panic = "loop" => spilled

=============================================================================
