------------------------------- MODULE MemPool -------------------------------
(***************************************************************************)
(* Memory: the two pools of physical pages and their bitmaps, virtual      *)
(* pages and page tables, the heaps of the kernel and of the processes     *)
(* (kernel/memory.c, lib/kernel/bitmap.c), and what creating, forking,     *)
(* replacing and ending a process do to them.                              *)
(*                                                                         *)
(* System calls and the kernel thread main run with interrupts off, so     *)
(* that their calls are single steps.  Not so sys_execv: its load reads    *)
(* the disk, and other tasks run meanwhile.  start_process runs with       *)
(* interrupts on: it holds the lock of the user pool, but takes the page   *)
(* for a page table from the kernel pool without that pool's lock.         *)
(*                                                                         *)
(* The few virtual pages of a process lie under one page table.  Its       *)
(* bitmap is represented by its last page, which release_prog_resource     *)
(* does not give back (it divides 94199 bytes by 4096 without rounding).   *)
(***************************************************************************)
EXTENDS Integers, FiniteSets

CONSTANTS Kernel,           \* the address space of kernel threads
          Procs, First,     \* user processes, and init
          KPages, UPages,   \* physical pages of the two pools
          VPages,           \* virtual pages of a process; the last is its stack
          BlocksPerArena,   \* blocks of the one block size in a page
          LargeSizes,       \* bound: numbers of pages of a large allocation
          MaxImage,         \* bound: pages of a program in its address space
          MaxHeld,          \* bound: allocations that programs hold
          NULL

KBits == 0 .. KPages - 1
UBits == KPages .. KPages + UPages - 1    \* user_pool.phy_addr_start = KPages
Starts == [table : KBits, page : UBits]

(* The first three kernel pages are those that init has from the start.    *)
ASSUME MemAssumption ==
    /\ Kernel \notin Procs /\ First \in Procs
    /\ NULL \notin Procs \cup {Kernel} \cup Starts \cup {"exhausted", "assert"}
    /\ KPages \in Nat /\ KPages >= 3 /\ UPages \in Nat \ {0} /\ VPages \in Nat \ {0}
    /\ BlocksPerArena \in Nat \ {0} /\ LargeSizes \subseteq Nat \ {0} /\ MaxHeld \in Nat
    /\ MaxImage \in 0 .. VPages - 1

VARIABLES kbits, ubits, \* set bits of pool_bitmap of kernel_pool and user_pool
          vbits,        \* vbits[s]: set bits of vaddr_bitmap
          pte,          \* pte[s][v]: the physical page behind v, or -1
          table,        \* table[p]: the physical page of the page table, or -1
          kown,         \* kown[p]: virtual pages of the PCB and the page directory
          arena,        \* arena[s][v]: the header at the start of page v
          free_list,    \* free_list[s]: free blocks, as <<page, index>>
          held,         \* held[s]: what the program of s was given by sys_malloc
          loading,      \* processes in the load of sys_execv
          old,          \* old[s]: pages with a header of the program to be replaced
          starting,     \* the page that start_process has found and not yet taken
          panic,        \* NULL, or why the machine has stopped
          raced,        \* history: that page was taken by another task
          stray         \* history: a heap list and its arenas went apart

memVars == <<kbits, ubits, vbits, pte, table, kown, arena, free_list, held,
             loading, old, starting, panic, raced, stray>>
execVars == <<loading, old>>

Spaces == Procs \cup {Kernel}
NoArena == [desc |-> NULL, large |-> FALSE, cnt |-> 0]
Stack == VPages - 1

(* The vaddr_bitmap of the kernel is as long as that of its pool.          *)
VLen(s) == IF s = Kernel THEN KPages ELSE VPages
VSpace == 0 .. (IF KPages > VPages THEN KPages ELSE VPages)
Blocks(v) == {v} \X (0 .. BlocksPerArena - 1)
Exists(p) == kown[p] # {}

(* The i-th page of a set goes to the i-th free bit: palloc and vaddr_get  *)
(* for single pages take the lowest bit that is clear.                     *)
Rank(x, S) == Cardinality({y \in S : y <= x})
Lowest(free, n) == {x \in free : Rank(x, free) <= n}
Nth(n, free) == CHOOSE x \in free : Rank(x, free) = n
Grant(pages, free) == [v \in pages |-> Nth(Rank(v, pages), free)]

----------------------------------------------------------------------------
(* Mutant: clear bits are counted whether or not they follow each other. *)
NextCountAny(b, free, count) == IF b \in free THEN count + 1 ELSE count

(* One turn of the loop of bitmap_scan: what bit b makes of the count.     *)
NextCount(b, free, count) == IF b \in free THEN count + 1 ELSE 0

(* bitmap_scan(cnt) of a bitmap with a clear bit.  For several bits it     *)
(* counts clear bits from the first one on; its last test is of the bit    *)
(* after the last one: past tells whether that one is clear.               *)
Clear(bits, len, past) == {b \in 0 .. len : b \notin bits /\ (b = len => past)}
Counted(free, start, len) ==
    LET count[b \in start .. len] ==
            IF b = start THEN 1 ELSE NextCount(b, free, count[b - 1])
    IN  count

bitmap_scan(bits, len, cnt, past) ==
    LET free == Clear(bits, len, past)
        start == Nth(1, free)
        found == {b \in start + 1 .. len : Counted(free, start, len)[b] = cnt}
    IN  IF cnt = 1 THEN start
        ELSE IF found = {} THEN -1
        ELSE Nth(1, found) - cnt + 1

(* The bit past the end of the kernel bitmap is not part of any bitmap and *)
(* may have either value; past the end of a process's comes a clear one.   *)
Past(s) == IF s = Kernel THEN BOOLEAN ELSE {TRUE}

----------------------------------------------------------------------------
(* mem_pool_init, process_execute of init, and its start_process, which    *)
(* has not run yet: init has PCB, bitmap and page directory.               *)
MemInit ==
    LET own == {0, 1, 2} IN
    /\ kbits = own /\ ubits = {}
    /\ vbits = [s \in Spaces |-> IF s = Kernel THEN own ELSE {}]
    /\ pte = [s \in Spaces |-> [v \in VSpace |->
                 IF s = Kernel /\ v \in own THEN v ELSE -1]]
    /\ table = [p \in Procs |-> -1]
    /\ kown = [p \in Procs |-> IF p = First THEN {0, 2} ELSE {}]
    /\ arena = [s \in Spaces |-> [v \in VSpace |-> NoArena]]
    /\ free_list = [s \in Spaces |-> {}]
    /\ held = [s \in Spaces |-> {}]
    /\ loading = {} /\ old = [s \in Spaces |-> {}]
    /\ starting = NULL /\ panic = NULL
    /\ raced = FALSE /\ stray = FALSE

FreeK == KBits \ kbits

FreeU == UBits \ ubits

(* A process that is past start_process and not in sys_execv, or the       *)
(* kernel thread.                                                          *)
Runs(s) == panic = NULL /\ s \notin loading /\ (s \in Procs => table[s] # -1)

(* A program asks for memory, within the bound.                            *)
MayAsk == Cardinality(UNION {{s} \X held[s] : s \in Spaces}) < MaxHeld

(* bitmap_scan finds every byte of a bitmap set, and its ASSERT fails.     *)
Exhausted ==
    /\ panic' = "exhausted"
    /\ UNCHANGED <<kbits, ubits, vbits, pte, table, kown, arena, free_list, held,
                   starting, stray>>

(* malloc_page(s, pages): a physical page for every page of the run.       *)
MallocPage(s, run) ==
    LET free == IF s = Kernel THEN FreeK ELSE FreeU
        to == Grant(run, free)
    IN  /\ vbits' = [vbits EXCEPT ![s] = @ \cup run]
        /\ pte' = [pte EXCEPT ![s] = [v \in VSpace |->
                      IF v \in run THEN to[v] ELSE @[v]]]
        /\ kbits' = IF s = Kernel THEN kbits \cup Lowest(free, Cardinality(run)) ELSE kbits
        /\ ubits' = IF s = Kernel THEN ubits ELSE ubits \cup Lowest(free, Cardinality(run))

(* Mutant: the bit stays set. *)
PfreeNothing(bits, frames) == bits

(* pfree and free_a_phy_page clear the bits of physical pages.             *)
Pfree(bits, frames) == bits \ frames

(* mfree_page with pfree, page_table_pte_remove and vaddr_remove.          *)
MfreePage(s, run) ==
    LET frames == {pte[s][v] : v \in run}
    IN  /\ kbits' = Pfree(kbits, frames) /\ ubits' = Pfree(ubits, frames)
        /\ pte' = [pte EXCEPT ![s] = [v \in VSpace |-> IF v \in run THEN -1 ELSE @[v]]]
        /\ vbits' = [vbits EXCEPT ![s] = @ \ run]

VFull(s) == 0 .. VLen(s) - 1 \subseteq vbits[s]

(* What malloc_page finds: whether a bitmap is full, and the runs it may   *)
(* choose, none when no run of cnt pages is free.                          *)
Full(s, cnt) ==
    \/ VFull(s)
    \/ Cardinality(IF s = Kernel THEN FreeK ELSE FreeU) < cnt
Run(s, cnt, past) ==
    LET start == bitmap_scan(vbits[s], VLen(s), cnt, past)
    IN  IF start = -1 THEN {} ELSE start .. start + cnt - 1

----------------------------------------------------------------------------

(* a->cnt-- when a block is given to the program. *)
Taken(a) == [a EXCEPT !.cnt = @ - 1]

(* Mutant: the list is not changed. *)
ListPopKeeps(list, b) == list

(* list_pop; which block it is does not matter here. *)
ListPop(list, b) == list \ {b}

(* sys_malloc of a small block that the free list has. *)
SysMallocBlock(s) ==
    /\ Runs(s) /\ MayAsk
    /\ \E b \in free_list[s] :
          /\ free_list' = [free_list EXCEPT ![s] = ListPop(@, b)]
          /\ held' = [held EXCEPT ![s] = @ \cup {b}]
          /\ arena' = [arena EXCEPT ![s][b[1]] = Taken(@)]
    /\ UNCHANGED <<kbits, ubits, vbits, pte, table, kown, starting, panic, stray>>

(* sys_malloc of a small block from a new arena: the page is split, all    *)
(* its blocks join the list, and one of them leaves it again.              *)
SysMallocArena(s) ==
    /\ Runs(s) /\ MayAsk
    /\ free_list[s] = {}
    /\ IF Full(s, 1) THEN Exhausted
       ELSE LET v == bitmap_scan(vbits[s], VLen(s), 1, FALSE)
            IN  /\ MallocPage(s, {v})
                /\ arena' = [arena EXCEPT ![s][v] =
                       [desc |-> s, large |-> FALSE, cnt |-> BlocksPerArena - 1]]
                /\ \E b \in Blocks(v) :
                      /\ free_list' = [free_list EXCEPT ![s] = Blocks(v) \ {b}]
                      /\ held' = [held EXCEPT ![s] = @ \cup {b}]
                /\ UNCHANGED <<table, kown, starting, panic, stray>>

(* sys_malloc of more than 1024 bytes: whole pages.  A run that is not     *)
(* there makes it return NULL, and nothing changes.                        *)
SysMallocLarge(s) ==
    /\ Runs(s) /\ MayAsk
    /\ \E cnt \in LargeSizes, past \in Past(s) :
          IF VFull(s) THEN Exhausted
          ELSE /\ Run(s, cnt, past) # {}
               /\ IF Full(s, cnt) THEN Exhausted
                  ELSE LET run == Run(s, cnt, past)
                           v == CHOOSE w \in run : w - 1 \notin run
                       IN  /\ MallocPage(s, run)
                           /\ arena' = [arena EXCEPT ![s][v] =
                                  [desc |-> NULL, large |-> TRUE, cnt |-> cnt]]
                           /\ held' = [held EXCEPT ![s] = @ \cup {<<v, -1>>}]
                           /\ UNCHANGED <<table, kown, free_list, starting, panic, stray>>

(* The block that is freed is the last of its arena in use. *)
AllFree(a) == a.cnt + 1 = BlocksPerArena

(* sys_free.  A block goes to the list that its arena names, which after a *)
(* fork is that of the parent; with its last block in use the page is      *)
(* given back, and the ASSERT wants all its blocks in that list.           *)
SysFree(s, b) ==
    LET v == b[1]
        a == arena[s][v]
        list == free_list[a.desc] \cup {b}
    IN  /\ Runs(s) /\ b \in held[s]
        /\ held' = [held EXCEPT ![s] = @ \ {b}]
        /\ stray' = (stray \/ (~a.large /\ a.desc # s))
        /\ \/ /\ a.large
              /\ MfreePage(s, v .. v + a.cnt - 1)
              /\ arena' = [arena EXCEPT ![s][v] = NoArena]
              /\ UNCHANGED <<free_list, panic>>
           \/ /\ ~a.large /\ ~AllFree(a)
              /\ free_list' = [free_list EXCEPT ![a.desc] = list]
              /\ arena' = [arena EXCEPT ![s][v].cnt = @ + 1]
              /\ UNCHANGED <<kbits, ubits, pte, vbits, panic>>
           \/ /\ ~a.large /\ AllFree(a)
              /\ Blocks(v) \subseteq list
              /\ free_list' = [free_list EXCEPT ![a.desc] = list \ Blocks(v)]
              /\ MfreePage(s, {v})
              /\ arena' = [arena EXCEPT ![s][v] = NoArena]
              /\ UNCHANGED panic
           \/ /\ ~a.large /\ AllFree(a)
              /\ ~(Blocks(v) \subseteq list)
              /\ panic' = "assert"
              /\ UNCHANGED <<kbits, ubits, pte, vbits, free_list, arena>>
        /\ UNCHANGED <<table, kown, starting>>

----------------------------------------------------------------------------
(* start_process: get_a_page for the stack takes a user page, and palloc   *)
(* in page_table_add finds a kernel page for the page table...             *)
StartScan ==
    /\ panic = NULL /\ table[First] = -1 /\ starting = NULL /\ Exists(First)
    /\ IF FreeK = {} THEN Exhausted
       ELSE /\ vbits' = [vbits EXCEPT ![First] = @ \cup {Stack}]
            /\ ubits' = ubits \cup Lowest(FreeU, 1)
            /\ starting' = [table |-> Nth(1, FreeK),
                            page |-> Nth(1, FreeU)]
            /\ UNCHANGED <<kbits, pte, table, kown, arena, free_list, held, panic, stray>>

(* ... and after a timer interrupt, perhaps, its bit is set.               *)
StartSet ==
    /\ panic = NULL /\ starting # NULL
    /\ kbits' = kbits \cup {starting.table}
    /\ table' = [table EXCEPT ![First] = starting.table]
    /\ pte' = [pte EXCEPT ![First][Stack] = starting.page]
    /\ starting' = NULL
    /\ UNCHANGED <<ubits, vbits, kown, arena, free_list, held, panic, stray>>

(* copy_pcb_vaddrbitmap_stack0: block_desc_init empties the child's lists, *)
(* but the arenas, which are copied with the pages, name the parent's, or  *)
(* those of an ancestor, whose PCB the child may have been given.          *)
ForkHeap(p, c) ==
    /\ arena' = [arena EXCEPT ![c] = arena[p]]
    /\ free_list' = [free_list EXCEPT ![c] = {}]
    /\ held' = [held EXCEPT ![c] = held[p]]
    /\ stray' = (stray \/ \E v \in VSpace : arena[p][v].desc = c)

(* copy_body_stack3: a page for every set bit of the parent's bitmap.      *)
CopyBodyStack3(p, c, to) == [v \in VSpace |-> IF v \in vbits[p] THEN to[v] ELSE -1]

(* sys_fork: kernel pages for PCB, copying, bitmap and page directory, one *)
(* for the page table, and user pages for the copies; the page for copying *)
(* is given back at the end.                                               *)
SysFork(p, c) ==
    LET fv == (0 .. KPages - 1) \ vbits[Kernel]
        kv == Lowest(fv, 4)                      \* PCB, copying, bitmap, directory
        kf == Grant(kv, FreeK)
        buf == Nth(2, kv)
        tab == Nth(5, FreeK)
        to == Grant(vbits[p], FreeU)
        n == Cardinality(vbits[p])
    IN  /\ p # Kernel /\ Runs(p) /\ ~Exists(c)
        /\ IF Cardinality(fv) < 4 \/ Cardinality(FreeK) < 5 \/ Cardinality(FreeU) < n
           THEN Exhausted
           ELSE /\ kbits' = kbits \cup {kf[v] : v \in kv \ {buf}} \cup {tab}
                /\ ubits' = ubits \cup Lowest(FreeU, n)
                /\ vbits' = [vbits EXCEPT ![Kernel] = @ \cup (kv \ {buf}), ![c] = vbits[p]]
                /\ pte' = [pte EXCEPT
                      ![Kernel] = [v \in VSpace |-> IF v \in kv \ {buf} THEN kf[v] ELSE @[v]],
                      ![c] = CopyBodyStack3(p, c, to)]
                /\ table' = [table EXCEPT ![c] = tab]
                /\ kown' = [kown EXCEPT ![c] = {Nth(1, kv), Nth(4, kv)}]
                /\ ForkHeap(p, c)
                /\ UNCHANGED <<starting, panic>>

----------------------------------------------------------------------------
(* search_file and sys_read have two buffers of different block sizes for  *)
(* a while: p needs two pages more, or one when its list has a block.      *)
Room(p, n) == n <= Cardinality((0 .. VPages - 1) \ vbits[p]) /\ n <= Cardinality(FreeU)
Loads(p) == panic = NULL /\ p \in loading
MayRead(p) == Loads(p) /\ Room(p, IF free_list[p] = {} THEN 2 ELSE 1)

(* sys_execv: the lists are emptied.                                       *)
ExecvBegins(p) ==
    /\ loading' = loading \cup {p}
    /\ old' = [old EXCEPT ![p] = {v \in VSpace : arena[p][v] # NoArena}]

(* sys_open of load finds a file in the root directory, or none at all:    *)
(* what it has allocated it has freed again.                               *)
ExecvOpen(p) ==
    /\ p # Kernel /\ Runs(p) /\ ExecvBegins(p)
    /\ free_list' = [free_list EXCEPT ![p] = {}]
    /\ UNCHANGED <<kbits, ubits, vbits, pte, table, kown, arena, held, starting, panic, stray>>

(* In another directory: the struct dir that search_file has opened is not *)
(* freed.  One block of a new arena is lost, the others are in the list.   *)
ExecvOpenBelow(p) ==
    LET v == bitmap_scan(vbits[p], VLen(p), 1, FALSE)
    IN  /\ p # Kernel /\ Runs(p) /\ ExecvBegins(p)
        /\ Room(p, 2)
        /\ MallocPage(p, {v})
        /\ arena' = [arena EXCEPT ![p][v] =
               [desc |-> p, large |-> FALSE, cnt |-> BlocksPerArena - 1]]
        /\ \E b \in Blocks(v) : free_list' = [free_list EXCEPT ![p] = Blocks(v) \ {b}]
        /\ UNCHANGED <<table, kown, held, starting, panic, stray>>

(* No page for a buffer.                                                   *)
ExecvNoRoom(p) ==
    /\ \/ p # Kernel /\ Runs(p) /\ ~Room(p, 2)
       \/ Loads(p) /\ ~MayRead(p)
    /\ Exhausted

(* segment_load of page v: a page that is there is given back before the   *)
(* new one is taken, and a header on it is gone.  The list may still have  *)
(* blocks of that page when load's own sys_open has put them there.        *)
SegmentLoad(p, v) ==
    LET x == Nth(1, FreeU \cup ({pte[p][v]} \ {-1}))
    IN  /\ MayRead(p)
        /\ ubits' = Pfree(ubits, {pte[p][v]}) \cup {x}
        /\ vbits' = [vbits EXCEPT ![p] = @ \cup {v}]
        /\ pte' = [pte EXCEPT ![p][v] = x]
        /\ arena' = [arena EXCEPT ![p][v] = NoArena]
        /\ held' = [held EXCEPT ![p] = {b \in @ : b[1] # v}]
        /\ stray' = (stray \/ (arena[p][v] # NoArena /\ v \notin old[p]))
        /\ UNCHANGED <<kbits, table, kown, free_list, execVars, starting, panic>>

(* The new program holds nothing of the old heap, whose pages stay mapped. *)
ExecvJumps(p) ==
    /\ MayRead(p)
    /\ loading' = loading \ {p} /\ old' = [old EXCEPT ![p] = {}]
    /\ arena' = [arena EXCEPT ![p] =
           [v \in VSpace |-> IF v \in old[p] THEN NoArena ELSE @[v]]]
    /\ held' = [held EXCEPT ![p] = {}]
    /\ UNCHANGED <<kbits, ubits, vbits, pte, table, kown, free_list, starting, panic, stray>>

(* load fails, before or after some of its pages: -1 to the old program,   *)
(* whose free blocks are in no list and whose pages may be replaced.       *)
ExecvFails(p) ==
    /\ Loads(p)
    /\ loading' = loading \ {p} /\ old' = [old EXCEPT ![p] = {}]
    /\ stray' = (stray \/ \E v \in old[p] :
                    \/ arena[p][v] = NoArena
                    \/ arena[p][v].desc = p /\ arena[p][v].cnt # 0)
    /\ UNCHANGED <<kbits, ubits, vbits, pte, table, kown, arena, free_list, held,
                   starting, panic>>

----------------------------------------------------------------------------
(* release_prog_resource: every page of the tables, and the page table.    *)
ReleaseProgResource(p) ==
    /\ kbits' = Pfree(kbits, {table[p]})
    /\ ubits' = Pfree(ubits, {pte[p][v] : v \in VSpace})
    /\ pte' = [pte EXCEPT ![p] = [v \in VSpace |-> -1]]

(* sys_exit of a process, and the thread_exit of its parent's wait, which  *)
(* gives back the page directory and the PCB.                              *)
SysExit(p) ==
    /\ p # Kernel /\ Runs(p) /\ p # First
    /\ ReleaseProgResource(p)
    /\ vbits' = [vbits EXCEPT ![p] = {}]
    /\ table' = [table EXCEPT ![p] = -1]
    /\ arena' = [arena EXCEPT ![p] = [v \in VSpace |-> NoArena]]
    /\ free_list' = [free_list EXCEPT ![p] = {}]
    /\ held' = [held EXCEPT ![p] = {}]
    /\ UNCHANGED <<kown, starting, panic, stray>>

ThreadExit(p) ==
    /\ panic = NULL /\ p # First /\ table[p] = -1 /\ Exists(p)
    /\ kown' = [kown EXCEPT ![p] = {}]
    /\ MfreePage(Kernel, kown[p])
    /\ UNCHANGED <<table, arena, free_list, held, starting, panic, stray>>

----------------------------------------------------------------------------
(* What calls do to pages and heaps, sys_execv aside.                      *)
CallStep ==
    /\ UNCHANGED execVars
    /\ \/ \E s \in Spaces : \/ SysMallocBlock(s) \/ SysMallocArena(s) \/ SysMallocLarge(s)
                            \/ \E b \in held[s] : SysFree(s, b)
       \/ StartScan \/ StartSet
       \/ \E p \in Procs : \/ \E c \in Procs : SysFork(p, c)
                           \/ ExecvNoRoom(p) \/ SysExit(p) \/ ThreadExit(p)

ExecvStep ==
    \E p \in Procs : \/ ExecvOpen(p) \/ ExecvOpenBelow(p)
                     \/ \E v \in 0 .. MaxImage - 1 : SegmentLoad(p, v)
                     \/ ExecvJumps(p) \/ ExecvFails(p)

(* The page that start_process has found is taken by somebody else.        *)
MemNext ==
    /\ CallStep \/ ExecvStep
    /\ raced' = (raced \/ (starting' # NULL /\ starting'.table \in kbits'))

MemSpec == MemInit /\ [][MemNext]_memVars

----------------------------------------------------------------------------
(* Where physical pages are in use: mappings and page tables.              *)
Uses == {u \in Spaces \X VSpace : pte[u[1]][u[2]] # -1}
        \cup {u \in Procs \X {-1} : table[u[1]] # -1}
FrameOf(u) == IF u[2] = -1 THEN table[u[1]] ELSE pte[u[1]][u[2]]

Arenas == [desc : Spaces \cup {NULL}, large : BOOLEAN, cnt : Int]
Addresses == VSpace \X (-1 .. BlocksPerArena - 1)   \* -1: the start of whole pages

MemTypeOK ==
    /\ kbits \subseteq KBits /\ ubits \subseteq UBits
    /\ vbits \in [Spaces -> SUBSET VSpace]
    /\ pte \in [Spaces -> [VSpace -> KBits \cup UBits \cup {-1}]]
    /\ table \in [Procs -> KBits \cup {-1}]
    /\ kown \in [Procs -> SUBSET KBits]
    /\ arena \in [Spaces -> [VSpace -> Arenas]]
    /\ free_list \in [Spaces -> SUBSET Addresses]
    /\ held \in [Spaces -> SUBSET Addresses]
    /\ loading \subseteq Procs /\ old \in [Spaces -> SUBSET VSpace]
    /\ starting \in Starts \cup {NULL}
    /\ panic \in {NULL, "exhausted", "assert"}
    /\ raced \in BOOLEAN /\ stray \in BOOLEAN

(* The pages of the kernel come from its pool and those of processes from  *)
(* theirs; a process without a page table has no pages; nobody runs before *)
(* init does, and what runs has a PCB; an allocation of several pages ends *)
(* inside its address space.                                               *)
SpacesAgree ==
    /\ \A v \in VSpace : pte[Kernel][v] \in KBits \cup {-1}
    /\ \A p \in Procs : \A v \in VSpace : pte[p][v] \in UBits \cup {-1}
    /\ \A p \in Procs : table[p] = -1 => \A v \in VSpace : pte[p][v] = -1
    /\ \A p \in Procs : table[p] # -1 => Exists(p) /\ table[First] # -1
    /\ Exists(First)
    /\ starting # NULL => table[First] = -1
    /\ starting = NULL /\ table[First] = -1 => ubits = {} /\ ~raced
    /\ \A s \in Spaces : \A v \in VSpace :
          arena[s][v].large => v .. v + arena[s][v].cnt - 1 \subseteq VSpace

(* A physical page serves one purpose: one mapping or one page table.      *)
FrameOnce == \A u, w \in Uses : FrameOf(u) = FrameOf(w) => u = w

(* The virtual bitmap of an address space and its page table agree: what   *)
(* fork copies is what is mapped.                                          *)
VaddrExact ==
    \A s \in Spaces : starting = NULL \/ s # First =>
        vbits[s] = {v \in VSpace : pte[s][v] # -1}

(* Up to the race in start_process no physical page is used twice, and the *)
(* pool bitmaps are exact: the set bits are the pages in use, through      *)
(* fork, execv, exit and partial frees, so that no page leaks and none in  *)
(* use can be handed out.  (A page that start_process has taken and not    *)
(* yet mapped is in use.)                                                  *)
FramesExact ==
    /\ MemTypeOK /\ SpacesAgree
    /\ VaddrExact
    /\ ~raced =>
        /\ FrameOnce
        /\ kbits \cup ubits =
              {FrameOf(u) : u \in Uses} \cup (IF starting = NULL THEN {} ELSE {starting.page})

(* A block is not in the free list while a program holds it, and all of    *)
(* both lie in arenas whose page is mapped.                                *)
BlockOnce ==
    \A s \in Spaces :
        /\ free_list[s] \cap held[s] = {}
        /\ \A b \in free_list[s] \cup held[s] :
              pte[s][b[1]] # -1 /\ arena[s][b[1]] # NoArena

(* "cnt is the number of free mem_blocks" (memory.c:45) in the arenas that *)
(* a heap made itself, and a page whose blocks are all free is given back. *)
(* (The arenas of a program that sys_execv is replacing are of no account: *)
(* they count again when that fails.)                                      *)
ArenaExact ==
    \A s \in Spaces : \A v \in VSpace \ old[s] :
        arena[s][v].desc = s =>
            /\ arena[s][v].cnt = Cardinality(free_list[s] \cap Blocks(v))
            /\ arena[s][v].cnt < BlocksPerArena

(* A block in a list is of an arena that the heap made itself, a block     *)
(* that is held is of an arena or the start of whole pages; the pages of   *)
(* an allocation are mapped and none but the first has a header; the PCB   *)
(* and the page directory of a process are not part of the kernel's heap,  *)
(* nor of another process.                                                 *)
HeapPages ==
    /\ \A s \in Spaces : \A b \in free_list[s] : arena[s][b[1]].desc = s /\ b[2] # -1
    /\ \A s \in Spaces : \A b \in held[s] : arena[s][b[1]].large <=> b[2] = -1
    /\ \A s \in Spaces : \A v \in VSpace :
          LET a == arena[s][v]
          IN  /\ a # NoArena => pte[s][v] # -1
              /\ a.large => a.desc = NULL
              /\ a.large => \A w \in v + 1 .. v + a.cnt - 1 :
                              pte[s][w] # -1 /\ arena[s][w] = NoArena
    /\ \A p \in Procs : \A v \in kown[p] :
          /\ pte[Kernel][v] # -1 /\ arena[Kernel][v] = NoArena
          /\ \A q \in Procs \ {p} : v \notin kown[q]
          /\ \A u \in VSpace : arena[Kernel][u].large =>
                v \notin u + 1 .. u + arena[Kernel][u].cnt - 1

(* As long as fork and execv have not set a heap's lists and its arenas    *)
(* apart: sys_malloc and sys_free keep blocks, lists and counts in step,   *)
(* and the ASSERT of sys_free does not fail.                               *)
HeapExact == ~stray => BlockOnce /\ ArenaExact /\ HeapPages /\ panic # "assert"

(* With the bit past its end set, bitmap_scan returns the lowest run, and  *)
(* -1 only when there is none; with that bit clear it returns the same, or *)
(* a run that ends with the bit past the end.                              *)
ScanFindsRun ==
    \A cnt \in 2 .. 3 : ~VFull(Kernel) =>
        LET runs == {b \in 0 .. KPages - cnt : \A i \in b .. b + cnt - 1 : i \notin vbits[Kernel]}
            low == IF runs = {} THEN -1 ELSE Nth(1, runs)
        IN  /\ bitmap_scan(vbits[Kernel], KPages, cnt, FALSE) = low
            /\ bitmap_scan(vbits[Kernel], KPages, cnt, TRUE) \in
                  IF low = -1 THEN {-1, KPages - cnt + 1} ELSE {low}
=============================================================================
