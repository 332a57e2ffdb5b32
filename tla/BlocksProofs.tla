---------------------------- MODULE BlocksProofs ----------------------------
(***************************************************************************)
(* Proofs about the blocks of a partition, for any size of the partition,  *)
(* of its blocks, inodes and indirect blocks, any files and any counts.    *)
(***************************************************************************)
EXTENDS Blocks, FiniteSetTheorems, TLAPS

----------------------------------------------------------------------------
(* The inductive invariant.                                                *)

Owners == names \cup {"dir"}
At(o, i) == BlockAt(sec[o], disk, i)
Index == 0 .. (Total - 1)
Places == 0 .. (PerSector - 1)

(* fd_pos is in the file or at its end, or wrapped below an empty one.     *)
PosFits ==
    fd.file # "none" =>
        \/ fd.pos <= i_size[fd.file]
        \/ i_size[fd.file] = 0 /\ fd.pos = Word - 1

Shapes == \A f \in names : FileShape(f)
Marked == \A o \in Owners : InodeBlocks(o) \subseteq used
Apart == \A o, q \in Owners : o # q => InodeBlocks(o) \cap InodeBlocks(q) = {}
Distinct ==
    \A o \in Owners : \A i, j \in Index :
        i # j /\ At(o, i) # 0 => At(o, i) \notin {At(o, j), sec[o][Direct]}
NoneLost == ~spilled => used \ Formatted \subseteq UNION {InodeBlocks(o) : o \in Owners}
Spills == Dir[Direct] # 0 => spilled

Bytes ==
    \A f \in names \cap Files : \A i \in 0 .. (i_size[f] - 1) :
        /\ At(f, i \div BLOCK_SIZE) # 0
        /\ disk[At(f, i \div BLOCK_SIZE)][i % BLOCK_SIZE] = Byte(f, i)

(* The blocks of the directory: the first one keeps "." and "..", every    *)
(* entry is that of a file, no two are the same, a block other than the    *)
(* first holds a file, and i_size counts the files.  While the directory   *)
(* keeps to its direct blocks every file has an entry.                     *)
DirBlocks == {i \in Index : At("dir", i) # 0}
DirCell(i, u) == disk[At("dir", i)][u]
DirFirst == 0 \in DirBlocks /\ DirCell(0, 0) = Entry(".") /\ DirCell(0, 1) = Entry("..")
DirKnown ==
    \A i \in DirBlocks : \A u \in Places :
        DirCell(i, u) # Zero => \E n \in names \cup {".", ".."} : DirCell(i, u) = Entry(n)
DirOnce ==
    \A i, j \in DirBlocks : \A u, v \in Places :
        DirCell(i, u) # Zero /\ DirCell(i, u) = DirCell(j, v) => i = j /\ u = v
DirAll ==
    ~spilled => \A n \in names : \E i \in DirBlocks : \E u \in Places : DirCell(i, u) = Entry(n)
DirKept ==
    \A i \in DirBlocks : i # 0 => \E u \in Places : \E n \in names : DirCell(i, u) = Entry(n)
DirInv ==
    /\ DirFirst /\ DirKnown /\ DirOnce /\ DirAll /\ DirKept
    /\ i_size["dir"] = 2 + Cardinality(names)

BlocksInv ==
    /\ BlocksTypeOK /\ PosFits /\ Shapes /\ Marked /\ Apart /\ Distinct /\ NoneLost
    /\ Spills /\ Bytes /\ DirInv /\ OnlyLimitsStop

----------------------------------------------------------------------------
(* The constants, and division by the size of a block.                     *)
LEMMA Consts ==
    /\ BLOCK_SIZE \in Nat /\ BLOCK_SIZE > 0
    /\ Direct \in Nat /\ Direct > 0 /\ PerTable \in Nat /\ PerTable > 0
    /\ Total = Direct + PerTable /\ Total \in Nat /\ Total > 0
    /\ PerSector \in Nat /\ PerSector >= 2
    /\ SectorBits \in Nat /\ SectorBits > 0 /\ Word \in Nat
    /\ BLOCK_SIZE * Total \in Nat /\ BLOCK_SIZE * Total < Word
    /\ \A n \in Counts : n \in Nat /\ n + BLOCK_SIZE * Total < Word
<1>1. /\ BLOCK_SIZE \in Nat /\ BLOCK_SIZE > 0 /\ Direct \in Nat /\ Direct > 0
      /\ PerTable \in Nat /\ PerTable > 0 /\ SectorBits \in Nat /\ SectorBits > 0
  <2>1. \A c \in {BLOCK_SIZE, Direct, PerTable, BitLen, ByteBits, SectorBits} : c \in Nat \ {0}
    BY BlocksAssumption, Zenon
  <2>2. /\ BLOCK_SIZE \in Nat \ {0} /\ Direct \in Nat \ {0}
        /\ PerTable \in Nat \ {0} /\ SectorBits \in Nat \ {0}
    BY <2>1, Zenon
  <2> QED
    BY <2>2
<1>2. Total = Direct + PerTable /\ Total \in Nat /\ Total > 0
  BY <1>1 DEF Total
<1>3. BLOCK_SIZE * Total \in Nat
  BY <1>1, <1>2
<1>4. ASSUME NEW n \in Counts PROVE n \in Nat /\ n + BLOCK_SIZE * Total < Word
  <2>1. n \in Nat /\ Word \in Nat /\ n < Word - BLOCK_SIZE * Total
    BY BlocksAssumption
  <2> DEFINE B == BLOCK_SIZE * Total
  <2>2. B \in Nat /\ n < Word - B
    BY <1>3, <2>1
  <2> HIDE DEF B
  <2>3. n + B < Word
    BY <2>1, <2>2
  <2> QED
    BY <2>1, <2>3 DEF B
<1>5. PerSector \in Nat /\ PerSector >= 2 /\ Word \in Nat /\ Word > BLOCK_SIZE * Total
  BY BlocksAssumption
<1>6. BLOCK_SIZE * Total < Word
  <2> DEFINE B == BLOCK_SIZE * Total
  <2>1. B \in Nat /\ Word > B /\ Word \in Nat
    BY <1>3, <1>5
  <2> HIDE DEF B
  <2>2. B < Word
    BY <2>1
  <2> QED
    BY <2>2 DEF B
<1> QED
  BY <1>1, <1>2, <1>3, <1>4, <1>5, <1>6

LEMMA NamesApart ==
    /\ "dir" \notin Names /\ "none" \notin Names /\ "." \notin Names /\ ".." \notin Names
    /\ Files \subseteq Names
  BY BlocksAssumption DEF Names

LEMMA Div ==
    ASSUME NEW x \in Nat
    PROVE  /\ x \div BLOCK_SIZE \in Nat /\ x % BLOCK_SIZE \in 0 .. (BLOCK_SIZE - 1)
           /\ x = BLOCK_SIZE * (x \div BLOCK_SIZE) + (x % BLOCK_SIZE)
<1>1. BLOCK_SIZE \in Nat /\ BLOCK_SIZE > 0
  BY Consts
<1>2. x \div BLOCK_SIZE \in Int /\ x % BLOCK_SIZE \in 0 .. (BLOCK_SIZE - 1)
  BY <1>1
<1>3. x = BLOCK_SIZE * (x \div BLOCK_SIZE) + (x % BLOCK_SIZE)
  BY <1>1
<1>4. x \div BLOCK_SIZE >= 0
  BY <1>1
<1> QED
  BY <1>2, <1>3, <1>4

(* A place in a block is that of one byte. *)
LEMMA DivOf ==
    ASSUME NEW k \in Nat, NEW u \in 0 .. (BLOCK_SIZE - 1), NEW x \in Nat,
           x = BLOCK_SIZE * k + u
    PROVE  x \div BLOCK_SIZE = k /\ x % BLOCK_SIZE = u
<1> DEFINE q == x \div BLOCK_SIZE
           r == x % BLOCK_SIZE
<1>1. /\ BLOCK_SIZE \in Nat /\ BLOCK_SIZE > 0 /\ q \in Nat /\ r \in 0 .. (BLOCK_SIZE - 1)
      /\ BLOCK_SIZE * q + r = BLOCK_SIZE * k + u
  BY Div, Consts
<1> HIDE DEF q, r
<1>2. q = k
  <2>1. CASE q > k
    <3>1. q >= k + 1
      BY <1>1, <2>1
    <3>2. BLOCK_SIZE * q >= BLOCK_SIZE * (k + 1)
      BY <1>1, <3>1
    <3> QED
      BY <1>1, <3>2
  <2>2. CASE q < k
    <3>1. k >= q + 1
      BY <1>1, <2>2
    <3>2. BLOCK_SIZE * k >= BLOCK_SIZE * (q + 1)
      BY <1>1, <3>1
    <3> QED
      BY <1>1, <3>2
  <2> QED
    BY <1>1, <2>1, <2>2
<1>3. r = u
  BY <1>1, <1>2
<1> QED
  BY <1>2, <1>3 DEF q, r

LEMMA DivMono ==
    ASSUME NEW x \in Nat, NEW y \in Nat, x <= y
    PROVE  x \div BLOCK_SIZE <= y \div BLOCK_SIZE
<1> DEFINE p == x \div BLOCK_SIZE
           q == y \div BLOCK_SIZE
           r == x % BLOCK_SIZE
           s == y % BLOCK_SIZE
<1>1. /\ BLOCK_SIZE \in Nat /\ BLOCK_SIZE > 0 /\ p \in Nat /\ q \in Nat
      /\ r \in 0 .. (BLOCK_SIZE - 1) /\ s \in 0 .. (BLOCK_SIZE - 1)
      /\ BLOCK_SIZE * p + r <= BLOCK_SIZE * q + s
  BY Div, Consts
<1> HIDE DEF p, q, r, s
<1>2. CASE p > q
  <2>1. p >= q + 1
    BY <1>1, <1>2
  <2>2. BLOCK_SIZE * p >= BLOCK_SIZE * (q + 1)
    BY <1>1, <2>1
  <2> QED
    BY <1>1, <2>2
<1>3. p <= q
  BY <1>1, <1>2
<1> QED
  BY <1>3 DEF p, q

(* A size fits the inode when its blocks do.                               *)
LEMMA DivBound ==
    ASSUME NEW x \in Nat, NEW t \in Nat
    PROVE  x \div BLOCK_SIZE + 1 <= t <=> x < BLOCK_SIZE * t
<1> DEFINE q == x \div BLOCK_SIZE
           r == x % BLOCK_SIZE
<1>1. /\ BLOCK_SIZE \in Nat /\ BLOCK_SIZE > 0 /\ q \in Nat /\ r \in 0 .. (BLOCK_SIZE - 1)
      /\ x = BLOCK_SIZE * q + r
  BY Div, Consts
<1> HIDE DEF q, r
<1>2. CASE q + 1 <= t
  <2>1. BLOCK_SIZE * (q + 1) <= BLOCK_SIZE * t
    BY <1>1, <1>2
  <2>2. x < BLOCK_SIZE * t
    BY <1>1, <2>1
  <2> QED
    BY <1>2, <2>2 DEF q
<1>3. CASE ~(q + 1 <= t)
  <2>1. t <= q
    BY <1>1, <1>3
  <2>2. BLOCK_SIZE * t <= BLOCK_SIZE * q
    BY <1>1, <2>1
  <2>3. ~(x < BLOCK_SIZE * t)
    BY <1>1, <2>2
  <2> QED
    BY <1>3, <2>3 DEF q
<1> QED
  BY <1>2, <1>3

----------------------------------------------------------------------------
(* The cells of a block.                                                   *)
LEMMA CellTags ==
    /\ AddrOf(Zero) = 0 /\ AddrOf(Left) = 0 /\ Left # Zero
    /\ \A n : AddrOf(Entry(n)) = 0 /\ Entry(n) # Zero
    /\ \A n, m : Entry(n) = Entry(m) => n = m
    /\ \A f, i : AddrOf(Byte(f, i)) = 0
    /\ \A b : AddrOf(Addr(b)) = b
<1>1. AddrOf(Zero) = 0 /\ AddrOf(Left) = 0 /\ Left # Zero
  BY DEF AddrOf, Zero, Left
<1>2. ASSUME NEW n PROVE AddrOf(Entry(n)) = 0 /\ Entry(n) # Zero
  BY DEF AddrOf, Zero, Entry
<1>3. ASSUME NEW n, NEW m, Entry(n) = Entry(m) PROVE n = m
  BY <1>3 DEF Entry
<1>4. ASSUME NEW f, NEW i PROVE AddrOf(Byte(f, i)) = 0
  BY DEF AddrOf, Byte
<1>5. ASSUME NEW b PROVE AddrOf(Addr(b)) = b
  BY DEF AddrOf, Addr, Zero
<1> QED
  BY <1>1, <1>2, <1>3, <1>4, <1>5

LEMMA CellTypes ==
    /\ Zero \in Cells /\ Left \in Cells /\ Blank \in [Units -> Cells] /\ Old \in [Units -> Cells]
    /\ \A n \in Names \cup {".", ".."} : Entry(n) \in Cells
    /\ \A b \in Lbas \cup {0} : Addr(b) \in Cells
    /\ \A f \in Files : \A i \in 0 .. (BLOCK_SIZE * Total - 1) : Byte(f, i) \in Cells
    /\ \A c \in Cells : AddrOf(c) \in Lbas \cup {0}
<1>1. /\ Zero \in Cells /\ Left \in Cells
      /\ \A n \in Names \cup {".", ".."} : Entry(n) \in Cells
      /\ \A f \in Files : \A i \in 0 .. (BLOCK_SIZE * Total - 1) : Byte(f, i) \in Cells
  BY DEF Cells
<1>2. \A b \in Lbas \cup {0} : Addr(b) \in Cells
  <2>1. Addr(0) = Zero
    BY DEF Addr
  <2> QED
    BY <1>1, <2>1 DEF Cells
<1>3. ASSUME NEW c \in Cells PROVE AddrOf(c) \in Lbas \cup {0}
  BY CellTags DEF Cells
<1>4. Blank \in [Units -> Cells] /\ Old \in [Units -> Cells]
  BY <1>1 DEF Blank, Old
<1> QED
  BY <1>1, <1>2, <1>3, <1>4

LEMMA UnitsHave ==
    /\ 0 .. (BLOCK_SIZE - 1) \subseteq Units /\ 0 .. (PerTable - 1) \subseteq Units
    /\ Places \subseteq Units /\ 0 \in Places /\ 1 \in Places /\ 0 \in Units
    /\ Units \subseteq Nat
<1>1. /\ 0 .. (BLOCK_SIZE - 1) \subseteq Units /\ 0 .. (PerTable - 1) \subseteq Units
      /\ Places \subseteq Units
  BY Zenon DEF Units, Places
<1>2. 0 \in Places /\ 1 \in Places
  BY Consts DEF Places
<1>3. Units \subseteq Nat
  <2>1. ASSUME NEW n \in {BLOCK_SIZE, PerTable, PerSector} PROVE 0 .. (n - 1) \subseteq Nat
    BY Consts
  <2> QED
    BY <2>1, Zenon DEF Units
<1> QED
  BY <1>1, <1>2, <1>3, Zenon

----------------------------------------------------------------------------
(* Allocation: the bits a call takes are free and different.               *)
Rank(x, S) == Cardinality({y \in S : y <= x})
Nth(k, S) == CHOOSE x \in S : Rank(x, S) = k

LEMMA RankType ==
    ASSUME NEW S \in SUBSET Int, IsFiniteSet(S), NEW x \in S
    PROVE  Rank(x, S) \in 1 .. Cardinality(S)
<1> DEFINE A == {y \in S : y <= x}
<1>1. A \in SUBSET S /\ x \in A
  OBVIOUS
<1> HIDE DEF A
<1>2. IsFiniteSet(A) /\ Cardinality(A) <= Cardinality(S)
  BY <1>1, FS_Subset
<1>3. Cardinality(A) \in Nat /\ Cardinality(S) \in Nat
  BY <1>2, FS_CardinalityType
<1>4. Cardinality(A) # 0
  BY <1>1, <1>2, FS_EmptySet
<1> QED
  BY <1>2, <1>3, <1>4 DEF Rank, A

LEMMA RankMono ==
    ASSUME NEW S \in SUBSET Int, IsFiniteSet(S), NEW x \in S, NEW y \in S, x < y
    PROVE  Rank(x, S) < Rank(y, S)
<1> DEFINE A == {z \in S : z <= x}
           B == {z \in S : z <= y}
<1>0. x \in Int /\ y \in Int /\ \A z \in S : z \in Int
  OBVIOUS
<1>1. A \in SUBSET B /\ y \in B /\ y \notin A /\ B \in SUBSET S
  <2>1. ASSUME NEW z \in A PROVE z \in B
    BY <1>0
  <2>2. y \in B /\ y \notin A
    BY <1>0
  <2> QED
    BY <2>1, <2>2
<1> HIDE DEF A, B
<1>2. IsFiniteSet(B)
  BY <1>1, FS_Subset
<1>3. IsFiniteSet(A) /\ Cardinality(A) <= Cardinality(B) /\ Cardinality(A) # Cardinality(B)
  BY <1>1, <1>2, FS_Subset
<1>4. Cardinality(A) \in Nat /\ Cardinality(B) \in Nat
  BY <1>2, <1>3, FS_CardinalityType
<1>5. Cardinality(A) < Cardinality(B)
  BY <1>3, <1>4
<1> QED
  BY <1>5 DEF Rank, A, B

LEMMA RankOnce ==
    ASSUME NEW S \in SUBSET Int, IsFiniteSet(S), NEW x \in S, NEW y \in S,
           Rank(x, S) = Rank(y, S)
    PROVE  x = y
<1>1. Rank(x, S) \in Int /\ Rank(y, S) \in Int
  BY RankType
<1>2. ~(x < y) /\ ~(y < x)
  BY <1>1, RankMono
<1> QED
  BY <1>2

(* Every rank up to the number of elements is taken. *)
LEMMA NthIn ==
    ASSUME NEW S \in SUBSET Int, IsFiniteSet(S), NEW k \in 1 .. Cardinality(S)
    PROVE  Nth(k, S) \in S /\ Rank(Nth(k, S), S) = k
<1> DEFINE n == Cardinality(S)
           T == 1 .. n
           f == [x \in S |-> Rank(x, S)]
<1>1. n \in Nat
  BY FS_CardinalityType
<1>2. IsFiniteSet(T) /\ Cardinality(T) = n
  BY <1>1, FS_Interval
<1>3. f \in [S -> T]
  BY RankType
<1>4. f \in Injection(S, T)
  BY <1>3, RankOnce DEF Injection, IsInjective
<1> HIDE DEF f
<1>5. f \in Surjection(S, T)
  BY <1>2, <1>4, FS_Injection
<1>6. \E x \in S : f[x] = k
  BY <1>5 DEF Surjection
<1>7. \E x \in S : Rank(x, S) = k
  BY <1>6 DEF f
<1> QED
  BY <1>7 DEF Nth

(* What a call that takes n blocks gets.                                   *)
Grants(n) ==
    \A k \in 1 .. n :
        /\ Alloc(k) \in Lbas /\ Alloc(k) \notin used /\ Alloc(k) # 0
        /\ \A j \in 1 .. n : Alloc(j) = Alloc(k) => j = k

LEMMA FreeFinite == Free \in SUBSET Int /\ IsFiniteSet(Free) /\ Cardinality(Free) \in Nat
<1>1. Lbas \in SUBSET Int /\ IsFiniteSet(Lbas)
  BY Consts, FS_Interval DEF Lbas
<1>2. Free \subseteq Lbas
  BY DEF Free
<1>3. IsFiniteSet(Free)
  BY <1>1, <1>2, FS_Subset
<1> QED
  BY <1>1, <1>2, <1>3, FS_CardinalityType

LEMMA AllocGrants ==
    ASSUME NEW n \in Nat, n <= Cardinality(Free)
    PROVE  Grants(n)
<1>0. Free \in SUBSET Int /\ IsFiniteSet(Free) /\ Cardinality(Free) \in Nat
  BY FreeFinite
<1>1. ASSUME NEW k \in 1 .. n PROVE Alloc(k) = Nth(k, Free) /\ k \in 1 .. Cardinality(Free)
  <2>1. k \in 1 .. Cardinality(Free) /\ ~(k > Cardinality(Free))
    BY <1>0
  <2> QED
    BY <2>1 DEF Alloc, Nth, Rank
<1>2. ASSUME NEW k \in 1 .. n PROVE Alloc(k) \in Free /\ Rank(Alloc(k), Free) = k
  <2>1. Nth(k, Free) \in Free /\ Rank(Nth(k, Free), Free) = k
    BY <1>0, <1>1, NthIn
  <2> QED
    BY <1>1, <2>1
<1>3. ASSUME NEW k \in 1 .. n PROVE Alloc(k) \in Lbas /\ Alloc(k) \notin used /\ Alloc(k) # 0
  BY <1>2 DEF Free, Lbas
<1>4. ASSUME NEW k \in 1 .. n, NEW j \in 1 .. n, Alloc(j) = Alloc(k) PROVE j = k
  <2>1. Rank(Alloc(j), Free) = j /\ Rank(Alloc(k), Free) = k
    BY <1>2
  <2> QED
    BY <1>4, <2>1
<1> QED
  BY <1>3, <1>4 DEF Grants

(* A nonempty set of naturals has a least element.                         *)
LEMMA LeastNat ==
    ASSUME NEW S \in SUBSET Nat, S # {}
    PROVE  \E m \in S : \A n \in S : m <= n
<1>1. \E R : IsWellFoundedOn(R, Nat) /\ \A x, y \in Nat : x < y => <<x, y>> \in R
  <2>1. IsWellFoundedOn(OpToRel(<, Nat), Nat)
    BY NatLessThanWellFounded
  <2>2. \A x, y \in Nat : x < y => <<x, y>> \in OpToRel(<, Nat)
    BY Zenon DEF OpToRel
  <2> QED
    BY <2>1, <2>2, Zenon
<1>2. PICK R : IsWellFoundedOn(R, Nat) /\ \A x, y \in Nat : x < y => <<x, y>> \in R
  BY <1>1
<1>3. \E x \in S : \A y \in S : ~ (<<y, x>> \in R)
  <2>1. IsWellFoundedOn(R, Nat)
    BY <1>2
  <2>2. S \subseteq Nat /\ S # {}
    OBVIOUS
  <2> QED
    BY ONLY <2>1, <2>2, WFMin, Zenon
<1>4. PICK x \in S : \A y \in S : ~ (<<y, x>> \in R)
  BY <1>3
<1>5. \A y \in S : x <= y
  <2>1. ASSUME NEW y \in S PROVE ~(y < x)
    BY <1>2, <1>4
  <2> QED
    BY <2>1
<1> QED
  BY <1>5


(* The lowest index of a nonempty set.                                     *)
LEMMA LowestIs ==
    ASSUME NEW S \in SUBSET Nat, S # {}
    PROVE  LowestOf(S) \in S /\ \A j \in S : LowestOf(S) <= j
<1>1. \E i \in S : \A j \in S : i <= j
  BY LeastNat
<1> QED
  BY <1>1 DEF LowestOf

----------------------------------------------------------------------------
(* The blocks of an inode.                                                 *)
LEMMA BlockAtType ==
    ASSUME NEW s \in [0 .. Direct -> Lbas \cup {0}], NEW d \in [Lbas -> [Units -> Cells]],
           NEW i \in Index
    PROVE  BlockAt(s, d, i) \in Lbas \cup {0}
<1>0. i \in Nat /\ i < Direct + PerTable /\ Direct \in Nat /\ PerTable \in Nat
  BY Consts DEF Index
<1>1. CASE i < Direct
  BY <1>0, <1>1 DEF BlockAt
<1>2. CASE ~(i < Direct) /\ s[Direct] = 0
  BY <1>0, <1>2 DEF BlockAt
<1>3. CASE ~(i < Direct) /\ s[Direct] # 0
  <2>1. s[Direct] \in Lbas
    BY <1>0, <1>3
  <2>2. i - Direct \in Units
    BY <1>0, <1>3, UnitsHave
  <2>3. d[s[Direct]][i - Direct] \in Cells
    BY <2>1, <2>2
  <2> QED
    BY <1>3, <2>3, CellTypes DEF BlockAt
<1> QED
  BY <1>1, <1>2, <1>3

LEMMA InodeBlocksIs ==
    ASSUME NEW o
    PROVE  InodeBlocks(o) = {b \in {At(o, i) : i \in Index} \cup {sec[o][Direct]} : b # 0}
  BY DEF InodeBlocks, BlocksOf, At, Index

(* The blocks of an inode that a step leaves alone.                        *)
LEMMA Kept ==
    ASSUME BlocksTypeOK, NEW o \in Names \cup {"dir"}, sec'[o] = sec[o],
           \A c \in InodeBlocks(o) : disk'[c] = disk[c]
    PROVE  /\ \A i \in Index : At(o, i)' = At(o, i)
           /\ InodeBlocks(o)' = InodeBlocks(o)
<1>1. ASSUME NEW i \in Index PROVE At(o, i)' = At(o, i)
  <2>1. CASE i < Direct \/ sec[o][Direct] = 0
    BY <2>1 DEF At, BlockAt
  <2>2. CASE sec[o][Direct] # 0
    <3>1. disk'[sec[o][Direct]] = disk[sec[o][Direct]]
      BY <2>2 DEF InodeBlocks
    <3> QED
      BY <3>1 DEF At, BlockAt
  <2> QED
    BY <2>1, <2>2
<1>2. {At(o, i)' : i \in Index} = {At(o, i) : i \in Index}
  BY <1>1
<1>3. InodeBlocks(o)' = {b \in {At(o, i)' : i \in Index} \cup {sec'[o][Direct]} : b # 0}
  BY DEF InodeBlocks, BlocksOf, At, Index
<1> QED
  BY <1>1, <1>2, <1>3, InodeBlocksIs

LEMMA InodeBlocksType ==
    ASSUME BlocksTypeOK, NEW o \in Names \cup {"dir"}
    PROVE  InodeBlocks(o) \subseteq Lbas /\ \A i \in Index : At(o, i) \in Lbas \cup {0}
<1>1. sec[o] \in [0 .. Direct -> Lbas \cup {0}] /\ disk \in [Lbas -> [Units -> Cells]]
  BY DEF BlocksTypeOK
<1>2. \A i \in Index : At(o, i) \in Lbas \cup {0}
  BY <1>1, BlockAtType DEF At
<1>3. sec[o][Direct] \in Lbas \cup {0}
  BY <1>1, Consts
<1> QED
  BY <1>2, <1>3, InodeBlocksIs

(* Which inode has which blocks.                                           *)
OwnInv == Marked /\ Apart /\ NoneLost

(* An inode g takes the blocks F.  A name that a call creates has none.    *)
LEMMA Grow ==
    ASSUME BlocksTypeOK, OwnInv, NEW g \in Owners, NEW F, F \cap used = {}, F \subseteq Lbas,
           used' = used \cup F,
           names \subseteq names', \A m \in names' \ names : InodeBlocks(m)' = {},
           names' \subseteq Names,
           \A o \in Owners : o # g => sec'[o] = sec[o],
           \A c \in Lbas : c \notin InodeBlocks(g) \cup F => disk'[c] = disk[c],
           InodeBlocks(g)' \subseteq InodeBlocks(g) \cup F,
           ~spilled' => ~spilled /\ InodeBlocks(g) \cup F \subseteq InodeBlocks(g)'
    PROVE  /\ OwnInv'
           /\ \A o \in Owners : o # g => /\ InodeBlocks(o)' = InodeBlocks(o)
                                         /\ \A i \in Index : At(o, i)' = At(o, i)
                                         /\ \A c \in InodeBlocks(o) : disk'[c] = disk[c]
<1>0. Owners \subseteq Names \cup {"dir"}
  BY DEF Owners, BlocksTypeOK
<1>1. ASSUME NEW o \in Owners, o # g
      PROVE  /\ InodeBlocks(o)' = InodeBlocks(o)
             /\ \A i \in Index : At(o, i)' = At(o, i)
             /\ \A c \in InodeBlocks(o) : disk'[c] = disk[c]
  <2>1. ASSUME NEW c \in InodeBlocks(o) PROVE disk'[c] = disk[c]
    <3>1. c \in Lbas /\ c \in used
      BY <1>0, InodeBlocksType DEF OwnInv, Marked
    <3>2. c \notin InodeBlocks(g)
      BY <1>1 DEF OwnInv, Apart
    <3> QED
      BY <3>1, <3>2
  <2> QED
    BY <1>0, <1>1, <2>1, Kept
<1>2. ASSUME NEW o \in Owners'
      PROVE  \/ o = g
             \/ o \in Owners /\ o # g /\ InodeBlocks(o)' = InodeBlocks(o)
             \/ InodeBlocks(o)' = {}
  BY <1>1 DEF Owners
<1>3. InodeBlocks(g) \subseteq used
  BY DEF OwnInv, Marked
<1>4. Marked'
  <2>1. ASSUME NEW o \in Owners' PROVE InodeBlocks(o)' \subseteq used'
    BY <1>2, <1>3 DEF OwnInv, Marked
  <2> QED
    BY <2>1 DEF Marked
<1>5. Apart'
  <2>1. ASSUME NEW o \in Owners, o # g PROVE InodeBlocks(o) \cap (InodeBlocks(g) \cup F) = {}
    <3>1. InodeBlocks(o) \subseteq used /\ InodeBlocks(o) \cap InodeBlocks(g) = {}
      BY <2>1 DEF OwnInv, Marked, Apart
    <3> QED
      BY <3>1
  <2>2. ASSUME NEW o \in Owners', NEW q \in Owners', o # q
        PROVE  InodeBlocks(o)' \cap InodeBlocks(q)' = {}
    <3>1. CASE InodeBlocks(o)' = {} \/ InodeBlocks(q)' = {}
      BY <3>1
    <3>2. CASE o = g /\ q \in Owners /\ q # g /\ InodeBlocks(q)' = InodeBlocks(q)
      BY <2>1, <3>2
    <3>3. CASE q = g /\ o \in Owners /\ o # g /\ InodeBlocks(o)' = InodeBlocks(o)
      BY <2>1, <3>3
    <3>4. CASE /\ o \in Owners /\ o # g /\ InodeBlocks(o)' = InodeBlocks(o)
               /\ q \in Owners /\ q # g /\ InodeBlocks(q)' = InodeBlocks(q)
      BY <2>2, <3>4 DEF OwnInv, Apart
    <3> QED
      BY <1>2, <2>2, <3>1, <3>2, <3>3, <3>4
  <2> QED
    BY <2>2 DEF Apart
<1>6. NoneLost'
  <2>1. ASSUME ~spilled', NEW c \in used' \ Formatted
        PROVE  \E o \in Owners' : c \in InodeBlocks(o)'
    <3>1. g \in Owners' /\ Owners \subseteq Owners'
      BY DEF Owners
    <3>2. CASE c \in F
      BY <2>1, <3>1, <3>2
    <3>3. CASE c \notin F
      <4>1. c \in used \ Formatted
        BY <3>3
      <4>2. PICK o \in Owners : c \in InodeBlocks(o)
        BY <2>1, <4>1 DEF OwnInv, NoneLost
      <4> QED
        BY <1>1, <2>1, <3>1, <4>2
    <3> QED
      BY <3>2, <3>3
  <2>2. ASSUME ~spilled' PROVE (used \ Formatted \subseteq UNION {InodeBlocks(o) : o \in Owners})'
    <3>1. \A c \in used' \ Formatted : c \in UNION {InodeBlocks(o)' : o \in Owners'}
      BY <2>1, <2>2
    <3> QED
      BY <3>1 DEF Formatted
  <2> QED
    BY <2>2 DEF NoneLost
<1> QED
  BY <1>1, <1>4, <1>5, <1>6 DEF OwnInv

----------------------------------------------------------------------------
(* file_write: the blocks before and after.                                *)
Has(f) == UsedBlocks(i_size[f])
Will(f, n) == UsedBlocks(i_size[f] + n)
FirstNew(f) == IF sec[f][0] = 0 THEN 1 ELSE 0
TableNew(f, n) == IF Crosses(Has(f), Will(f, n)) THEN 1 ELSE 0
Got(f, n, i) == Alloc(FirstNew(f) + TableNew(f, n) + i - Has(f) + 1)
Takes(f, n) == FirstNew(f) + TableNew(f, n) + Will(f, n) - Has(f)
NewAt(f, n, i) ==
    IF i = 0 /\ FirstNew(f) = 1 THEN Alloc(1)
    ELSE IF i >= Has(f) /\ i < Will(f, n) THEN Got(f, n, i)
    ELSE At(f, i)

LEMMA NoSectorsAt ==
    ASSUME NEW d, NEW i \in Index
    PROVE  BlockAt(NoSectors, d, i) = 0
<1>1. i \in Nat /\ Direct \in Nat
  BY Consts DEF Index
<1> QED
  BY <1>1 DEF BlockAt, NoSectors

LEMMA Blocked ==
    ASSUME BlocksTypeOK, Shapes, NEW f \in names, NEW n \in Nat
    PROVE  /\ i_size[f] \in Nat /\ i_size[f] < BLOCK_SIZE * Total
           /\ Has(f) \in Nat /\ Has(f) >= 1 /\ Has(f) <= Total
           /\ Will(f, n) \in Nat /\ Has(f) <= Will(f, n)
           /\ FirstNew(f) \in {0, 1} /\ TableNew(f, n) \in {0, 1}
           /\ TableNew(f, n) = 1 <=> Has(f) <= Direct /\ Will(f, n) > Direct
           /\ FirstNew(f) = 1 => Has(f) = 1
           /\ \A i \in Index : At(f, i) # 0 <=> FirstNew(f) = 0 /\ i < Has(f)
           /\ sec[f][Direct] # 0 <=> Has(f) > Direct
           /\ \A i \in 0 .. (Direct - 1) : sec[f][i] = At(f, i)
<1>0. i_size[f] \in Nat /\ i_size[f] + n \in Nat
  BY DEF BlocksTypeOK
<1>1. Has(f) = i_size[f] \div BLOCK_SIZE + 1 /\ Will(f, n) = (i_size[f] + n) \div BLOCK_SIZE + 1
  BY DEF Has, Will, UsedBlocks
<1>2. /\ i_size[f] \div BLOCK_SIZE \in Nat /\ (i_size[f] + n) \div BLOCK_SIZE \in Nat
      /\ i_size[f] \div BLOCK_SIZE <= (i_size[f] + n) \div BLOCK_SIZE
  <2>1. i_size[f] <= i_size[f] + n
    BY <1>0
  <2> QED
    BY <1>0, <2>1, Div, DivMono
<1>3. /\ Has(f) \in Nat /\ Has(f) >= 1 /\ Will(f, n) \in Nat /\ Has(f) <= Will(f, n)
  BY <1>1, <1>2
<1>4. FileShape(f)
  BY DEF Shapes
<1>5. Has(f) <= Total
  BY <1>4 DEF FileShape, Has
<1>6. i_size[f] < BLOCK_SIZE * Total
  BY <1>0, <1>1, <1>5, DivBound, Consts
<1>7. /\ FirstNew(f) \in {0, 1} /\ TableNew(f, n) \in {0, 1}
      /\ TableNew(f, n) = 1 <=> Has(f) <= Direct /\ Will(f, n) > Direct
      /\ FirstNew(f) = 1 <=> sec[f][0] = 0
  BY DEF FirstNew, TableNew, Crosses
<1>8. \A i \in 0 .. (Direct - 1) : sec[f][i] = At(f, i)
  BY Consts DEF At, BlockAt
<1>9. CASE sec[f][0] = 0
  <2>1. i_size[f] = 0 /\ sec[f] = NoSectors
    BY <1>4, <1>9 DEF FileShape
  <2>2. 0 \div BLOCK_SIZE = 0
    <3>1. BLOCK_SIZE \in Nat /\ BLOCK_SIZE > 0
      BY Consts
    <3>2. 0 = BLOCK_SIZE * 0 + 0 /\ 0 \in 0 .. (BLOCK_SIZE - 1)
      BY <3>1
    <3> QED
      BY <3>2, DivOf
  <2>3. Has(f) = 1
    BY <1>1, <2>1, <2>2
  <2>4. \A i \in Index : At(f, i) = 0
    BY <2>1, NoSectorsAt DEF At
  <2>5. sec[f][Direct] = 0 /\ ~(Has(f) > Direct)
    BY <2>1, <2>3, Consts DEF NoSectors
  <2> QED
    BY <1>0, <1>3, <1>5, <1>6, <1>7, <1>8, <1>9, <2>3, <2>4, <2>5
<1>10. CASE sec[f][0] # 0
  <2>1. /\ \A i \in Index : At(f, i) # 0 <=> i < Has(f)
        /\ sec[f][Direct] # 0 <=> Has(f) > Direct
    BY <1>4, <1>10 DEF FileShape, Has, At, Index
  <2> QED
    BY <1>0, <1>3, <1>5, <1>6, <1>7, <1>8, <1>10, <2>1
<1> QED
  BY <1>9, <1>10

(* The sectors that WillSectors computes, one by one.                      *)
LEMMA Sectors ==
    ASSUME BlocksTypeOK, Shapes, NEW f \in names, NEW n \in Nat, Grants(Takes(f, n))
    PROVE  LET w == WillSectors(f, n)
           IN  /\ w.k = Takes(f, n)
               /\ w.tabled <=> Will(f, n) > Has(f) /\ Will(f, n) > Direct
               /\ w.s \in [0 .. Direct -> Lbas \cup {0}]
               /\ w.s[Direct] = IF TableNew(f, n) = 1 THEN Alloc(FirstNew(f) + 1)
                                ELSE sec[f][Direct]
               /\ \A i \in 0 .. (Direct - 1) : w.s[i] = NewAt(f, n, i)
               /\ DOMAIN w.t = Units
               /\ \A u \in Units : w.t[u] =
                     IF u + Direct >= Has(f) /\ u + Direct < Will(f, n)
                     THEN Addr(Got(f, n, u + Direct))
                     ELSE IF TableNew(f, n) = 1 \/ sec[f][Direct] = 0 THEN Zero
                     ELSE disk[sec[f][Direct]][u]
<1> DEFINE has == Has(f)
           will == Will(f, n)
           first == FirstNew(f)
           table == TableNew(f, n)
           w == WillSectors(f, n)
           s == [i \in 0 .. Direct |->
                  CASE i = 0 /\ first = 1 -> Alloc(1)
                    [] i = Direct /\ table = 1 -> Alloc(first + 1)
                    [] i < Direct /\ i >= has /\ i < will -> Alloc(first + table + i - has + 1)
                    [] OTHER -> sec[f][i]]
           t == [u \in Units |->
                  LET i == u + Direct
                  IN  IF i >= has /\ i < will THEN Addr(Alloc(first + table + i - has + 1))
                      ELSE IF table = 1 \/ sec[f][Direct] = 0 THEN Zero
                      ELSE disk[sec[f][Direct]][u]]
<1>1. w = [k |-> first + table + will - has, s |-> s, t |-> t,
           tabled |-> will > has /\ will > Direct]
  BY DEF WillSectors, Has, Will, FirstNew, TableNew
<1>2. w.k = Takes(f, n) /\ w.s = s /\ w.t = t /\ w.tabled = (will > has /\ will > Direct)
  <2> HIDE DEF w, s, t
  <2> QED
    BY <1>1 DEF Takes
<1>3. /\ has \in Nat /\ has >= 1 /\ will \in Nat /\ has <= will
      /\ first \in {0, 1} /\ table \in {0, 1} /\ Direct \in Nat /\ Direct > 0
      /\ \A i \in 0 .. (Direct - 1) : sec[f][i] = At(f, i)
      /\ sec[f] \in [0 .. Direct -> Lbas \cup {0}]
  BY Blocked, Consts DEF BlocksTypeOK
<1>4. \A u \in Units : t[u] = IF u + Direct >= has /\ u + Direct < will
                              THEN Addr(Got(f, n, u + Direct))
                              ELSE IF table = 1 \/ sec[f][Direct] = 0 THEN Zero
                              ELSE disk[sec[f][Direct]][u]
  BY DEF Got
<1>5. \A i \in 0 .. (Direct - 1) : s[i] = NewAt(f, n, i)
  <2> SUFFICES ASSUME NEW i \in 0 .. (Direct - 1) PROVE s[i] = NewAt(f, n, i)
    OBVIOUS
  <2>1. i \in 0 .. Direct /\ i \in Nat /\ i < Direct /\ i # Direct /\ sec[f][i] = At(f, i)
    BY <1>3
  <2> HIDE DEF has, will, first, table
  <2>2. NewAt(f, n, i) = IF i = 0 /\ first = 1 THEN Alloc(1)
                         ELSE IF i >= has /\ i < will THEN Alloc(first + table + i - has + 1)
                         ELSE At(f, i)
    BY DEF NewAt, Got, has, will, first, table
  <2>3. CASE i = 0 /\ first = 1
    BY <1>3, <2>1, <2>2, <2>3
  <2>4. CASE ~(i = 0 /\ first = 1) /\ i >= has /\ i < will
    BY <2>1, <2>2, <2>4
  <2>5. CASE ~(i = 0 /\ first = 1) /\ ~(i >= has /\ i < will)
    BY <2>1, <2>2, <2>5
  <2> QED
    BY <2>3, <2>4, <2>5
<1>6. s[Direct] = IF table = 1 THEN Alloc(first + 1) ELSE sec[f][Direct]
  <2> HIDE DEF has, will, first, table
  <2>1. Direct \in 0 .. Direct /\ Direct # 0 /\ ~(Direct < Direct)
    BY <1>3
  <2>2. CASE table = 1
    BY <2>1, <2>2
  <2>3. CASE table # 1
    BY <2>1, <2>3
  <2> QED
    BY <2>2, <2>3
<1>7. s \in [0 .. Direct -> Lbas \cup {0}]
  <2> SUFFICES ASSUME NEW i \in 0 .. Direct PROVE s[i] \in Lbas \cup {0}
    OBVIOUS
  <2>0. Takes(f, n) = first + table + will - has /\ Takes(f, n) \in Nat
    BY <1>3 DEF Takes
  <2> HIDE DEF has, will, first, table
  <2>1. i = Direct \/ i \in 0 .. (Direct - 1)
    BY <1>3
  <2>2. CASE i = Direct
    <3>1. CASE table = 1
      <4>1. first + 1 \in 1 .. Takes(f, n)
        BY <1>3, <2>0, <3>1
      <4> QED
        BY <1>6, <2>2, <3>1, <4>1 DEF Grants
    <3>2. CASE table # 1
      BY <1>3, <1>6, <2>2, <3>2
    <3> QED
      BY <3>1, <3>2
  <2>3. CASE i \in 0 .. (Direct - 1)
    <3>1. CASE i = 0 /\ first = 1
      <4>1. 1 \in 1 .. Takes(f, n)
        BY <1>3, <2>0, <3>1
      <4>2. s[i] = Alloc(1)
        BY <1>3, <3>1
      <4> QED
        BY <4>1, <4>2 DEF Grants
    <3>2. CASE ~(i = 0 /\ first = 1) /\ i >= has /\ i < will
      <4>1. first + table + i - has + 1 \in 1 .. Takes(f, n)
        BY <1>3, <2>0, <2>3, <3>2
      <4>2. s[i] = Alloc(first + table + i - has + 1)
        BY <1>3, <2>3, <3>2
      <4> QED
        BY <4>1, <4>2 DEF Grants
    <3>3. CASE ~(i = 0 /\ first = 1) /\ ~(i >= has /\ i < will)
      BY <1>3, <2>3, <3>3
    <3> QED
      BY <3>1, <3>2, <3>3
  <2> QED
    BY <2>1, <2>2, <2>3
<1>8. DOMAIN t = Units
  OBVIOUS
<1> HIDE DEF s, t, w
<1>9. w.tabled <=> will > has /\ will > Direct
  BY <1>2, Zenon
<1> QED
  BY <1>2, <1>4, <1>5, <1>6, <1>7, <1>8, <1>9, Zenon DEF w

(* What the blocks after a write are: those of the larger size, and new    *)
(* ones differ from each other and from all that were marked.              *)
LEMMA NewBlocks ==
    ASSUME BlocksTypeOK, Shapes, Marked, Distinct, NEW f \in names, NEW n \in Nat,
           Grants(Takes(f, n)), NEW table,
           table = IF TableNew(f, n) = 1 THEN Alloc(FirstNew(f) + 1) ELSE sec[f][Direct]
    PROVE  /\ Takes(f, n) \in Nat
           /\ \A i \in Index : NewAt(f, n, i) \in Lbas \cup {0}
           /\ \A i \in Index : NewAt(f, n, i) # 0 <=> i < Will(f, n)
           /\ table \in Lbas \cup {0} /\ (table # 0 <=> Will(f, n) > Direct)
           /\ \A i, j \in Index : i # j /\ NewAt(f, n, i) # 0 =>
                  NewAt(f, n, i) \notin {NewAt(f, n, j), table}
           /\ \A i \in Index : At(f, i) # 0 => NewAt(f, n, i) = At(f, i)
           /\ \A i \in Index : NewAt(f, n, i) \in InodeBlocks(f) \cup Allocs(Takes(f, n)) \cup {0}
           /\ table \in InodeBlocks(f) \cup Allocs(Takes(f, n)) \cup {0}
           /\ \A c \in Allocs(Takes(f, n)) : Will(f, n) <= Total =>
                  c = table \/ \E i \in Index : c = NewAt(f, n, i)
           /\ sec[f][Direct] # 0 => table = sec[f][Direct]
<1> DEFINE has == Has(f)
           will == Will(f, n)
           first == FirstNew(f)
           tab == TableNew(f, n)
           K == Takes(f, n)
           New(i) == (i = 0 /\ first = 1) \/ (i >= has /\ i < will)
           Nr(i) == IF i = 0 /\ first = 1 THEN 1 ELSE first + tab + i - has + 1
<1>1. /\ has \in Nat /\ has >= 1 /\ will \in Nat /\ has <= will
      /\ first \in {0, 1} /\ tab \in {0, 1} /\ Direct \in Nat /\ Direct > 0
      /\ tab = 1 <=> has <= Direct /\ will > Direct
      /\ first = 1 => has = 1
      /\ \A i \in Index : At(f, i) # 0 <=> first = 0 /\ i < has
      /\ sec[f][Direct] # 0 <=> has > Direct
  BY Blocked, Consts
<1>2. K = first + tab + will - has /\ K \in Nat
  BY <1>1 DEF Takes
<1>3. f \in Names \cup {"dir"} /\ f \in Owners
  BY DEF BlocksTypeOK, Owners
<1>4. /\ InodeBlocks(f) \subseteq used
      /\ \A i \in Index : At(f, i) # 0 => At(f, i) \in InodeBlocks(f)
      /\ sec[f][Direct] # 0 => sec[f][Direct] \in InodeBlocks(f)
      /\ InodeBlocks(f) \subseteq Lbas
      /\ \A i \in Index : At(f, i) \in Lbas \cup {0}
  BY <1>3, InodeBlocksIs, InodeBlocksType DEF Marked
<1>5. \A i, j \in Index : i # j /\ At(f, i) # 0 => At(f, i) \notin {At(f, j), sec[f][Direct]}
  BY <1>3 DEF Distinct
<1>6. \A i \in Index : i \in Nat
  BY DEF Index
<1>7. \A i \in Index : NewAt(f, n, i) = IF New(i) THEN Alloc(Nr(i)) ELSE At(f, i)
  BY DEF NewAt, Got
<1>8. table = IF tab = 1 THEN Alloc(first + 1) ELSE sec[f][Direct]
  OBVIOUS
<1> HIDE DEF has, will, first, tab, K
<1>9. \A i \in Index : New(i) => Nr(i) \in 1 .. K /\ (tab = 1 => Nr(i) # first + 1)
  BY <1>1, <1>2, <1>6
<1>10. tab = 1 => first + 1 \in 1 .. K
  BY <1>1, <1>2
<1>11. \A i, j \in Index : New(i) /\ New(j) /\ i # j => Nr(i) # Nr(j)
  BY <1>1, <1>6
<1>12. \A i \in Index : New(i) => At(f, i) = 0 /\ i < will
  BY <1>1, <1>6
<1>13. \A i \in Index : ~New(i) => (i < will <=> At(f, i) # 0)
  BY <1>1, <1>6
<1>14. ASSUME NEW c \in 1 .. K, will <= Total
       PROVE  (tab = 1 /\ c = first + 1) \/ \E i \in Index : New(i) /\ c = Nr(i)
  <2>1. CASE first = 1 /\ c = 1
    <3>1. 0 \in Index
      BY Consts DEF Index
    <3> QED
      BY <2>1, <3>1
  <2>2. CASE ~(first = 1 /\ c = 1) /\ ~(tab = 1 /\ c = first + 1)
    <3> DEFINE i == has + c - first - tab - 1
    <3>1. i \in Nat /\ i >= has /\ i < will /\ i # 0 /\ c = first + tab + i - has + 1
      BY <1>1, <1>2, <2>2
    <3>2. i \in Index
      BY <1>1, <1>14, <3>1, Consts DEF Index
    <3> HIDE DEF i
    <3>3. New(i) /\ c = Nr(i)
      BY <3>1
    <3> QED
      BY <3>2, <3>3
  <2> QED
    BY <2>1, <2>2
<1> HIDE DEF New, Nr
<1>15. \A k \in 1 .. K : /\ Alloc(k) \in Lbas /\ Alloc(k) \notin used /\ Alloc(k) # 0
                         /\ \A j \in 1 .. K : Alloc(j) = Alloc(k) => j = k
  BY DEF Grants, K
<1>16. \A i \in Index : New(i) => /\ NewAt(f, n, i) \in Lbas /\ NewAt(f, n, i) \notin used
                                  /\ NewAt(f, n, i) # 0 /\ NewAt(f, n, i) \in Allocs(K)
  BY <1>7, <1>9, <1>15 DEF Allocs
<1>17. \A i \in Index : NewAt(f, n, i) \in Lbas \cup {0}
  BY <1>4, <1>7, <1>16
<1>18. \A i \in Index : NewAt(f, n, i) # 0 <=> i < will
  BY <1>7, <1>12, <1>13, <1>16
<1>19. /\ tab = 1 => table = Alloc(first + 1) /\ table \in Lbas /\ table \notin used /\ table # 0
       /\ tab = 1 => table \in Allocs(K)
       /\ tab # 1 => table = sec[f][Direct]
  BY <1>8, <1>10, <1>15 DEF Allocs
<1>20. table \in Lbas \cup {0} /\ (table # 0 <=> will > Direct)
  <2>1. CASE tab = 1
    BY <1>1, <1>19, <2>1
  <2>2. CASE tab # 1
    <3>1. table = sec[f][Direct] /\ sec[f][Direct] \in Lbas \cup {0}
      BY <1>4, <1>19, <2>2
    <3> QED
      BY <1>1, <2>2, <3>1
  <2> QED
    BY <2>1, <2>2
<1>21. ASSUME NEW i \in Index, NEW j \in Index, i # j, NewAt(f, n, i) # 0
       PROVE  NewAt(f, n, i) # NewAt(f, n, j) /\ NewAt(f, n, i) # table
  <2>1. CASE New(i)
    <3>1. NewAt(f, n, i) = Alloc(Nr(i)) /\ Nr(i) \in 1 .. K /\ NewAt(f, n, i) \notin used
      BY <1>7, <1>9, <1>16, <2>1
    <3>2. CASE New(j)
      <4>1. NewAt(f, n, j) = Alloc(Nr(j)) /\ Nr(j) \in 1 .. K /\ Nr(i) # Nr(j)
        BY <1>7, <1>9, <1>11, <1>21, <2>1, <3>2
      <4> QED
        BY <1>15, <3>1, <4>1, <1>8, <1>9, <1>10, <1>19, <1>4, <1>20, <2>1, <1>21
    <3>3. CASE ~New(j)
      <4>1. NewAt(f, n, j) = At(f, j) /\ (At(f, j) = 0 \/ At(f, j) \in used)
        BY <1>4, <1>7, <3>3
      <4> QED
        BY <1>15, <3>1, <4>1, <1>8, <1>9, <1>10, <1>19, <1>4, <1>20, <2>1, <1>21
    <3> QED
      BY <3>2, <3>3
  <2>2. CASE ~New(i)
    <3>1. NewAt(f, n, i) = At(f, i) /\ At(f, i) # 0 /\ At(f, i) \in used
      BY <1>4, <1>7, <1>21, <2>2
    <3>2. At(f, i) # At(f, j) /\ At(f, i) # sec[f][Direct]
      BY <1>5, <1>21, <3>1
    <3>3. NewAt(f, n, i) # NewAt(f, n, j)
      BY <1>7, <1>16, <3>1, <3>2
    <3> QED
      BY <1>19, <3>1, <3>2, <3>3
  <2> QED
    BY <2>1, <2>2
<1>22. \A i \in Index : At(f, i) # 0 => NewAt(f, n, i) = At(f, i)
  BY <1>7, <1>12
<1>23. \A i \in Index : NewAt(f, n, i) \in InodeBlocks(f) \cup Allocs(K) \cup {0}
  BY <1>4, <1>7, <1>16
<1>24. table \in InodeBlocks(f) \cup Allocs(K) \cup {0}
  BY <1>4, <1>19
<1>25. ASSUME NEW c \in Allocs(K), will <= Total
       PROVE  c = table \/ \E i \in Index : c = NewAt(f, n, i)
  <2>1. PICK k \in 1 .. K : c = Alloc(k)
    BY DEF Allocs
  <2>2. (tab = 1 /\ k = first + 1) \/ \E i \in Index : New(i) /\ k = Nr(i)
    BY <1>14, <1>25
  <2> QED
    BY <1>7, <1>19, <2>1, <2>2
<1>26. sec[f][Direct] # 0 => table = sec[f][Direct]
  BY <1>1, <1>19
<1> QED
  BY <1>2, <1>17, <1>18, <1>20, <1>21, <1>22, <1>23, <1>24, <1>25, <1>26 DEF K, will

(* The disk with the new indirect block, before the data is written.       *)
TableDisk(f, n) ==
    LET w == WillSectors(f, n)
    IN  IF w.tabled THEN [disk EXCEPT ![w.s[Direct]] = w.t] ELSE disk

LEMMA TableWritten ==
    ASSUME BlocksTypeOK, Shapes, Marked, Distinct, NEW f \in names, NEW n \in Nat,
           Grants(Takes(f, n)), Will(f, n) <= Total,
           NEW s, s = WillSectors(f, n).s, NEW d, d = TableDisk(f, n)
    PROVE  /\ s \in [0 .. Direct -> Lbas \cup {0}]
           /\ s[Direct] = IF TableNew(f, n) = 1 THEN Alloc(FirstNew(f) + 1) ELSE sec[f][Direct]
           /\ s[0] = NewAt(f, n, 0)
           /\ d \in [Lbas -> [Units -> Cells]]
           /\ \A i \in Index : BlockAt(s, d, i) = NewAt(f, n, i)
           /\ \A c \in Lbas : c # s[Direct] => d[c] = disk[c]
<1> DEFINE has == Has(f)
           will == Will(f, n)
           tab == TableNew(f, n)
           w == WillSectors(f, n)
           t == w.t
<1>1. /\ has \in Nat /\ has >= 1 /\ will \in Nat /\ has <= will /\ will <= Total
      /\ tab \in {0, 1} /\ Direct \in Nat /\ Direct > 0 /\ PerTable \in Nat
      /\ Total = Direct + PerTable
      /\ tab = 1 <=> has <= Direct /\ will > Direct
      /\ FirstNew(f) \in {0, 1} /\ Takes(f, n) = FirstNew(f) + tab + will - has
      /\ sec[f][Direct] # 0 <=> has > Direct
      /\ \A i \in Index : i \in Nat /\ i < Total
  BY Blocked, Consts DEF Takes, Index
<1>2. /\ w.tabled <=> will > has /\ will > Direct
      /\ s \in [0 .. Direct -> Lbas \cup {0}]
      /\ s[Direct] = IF tab = 1 THEN Alloc(FirstNew(f) + 1) ELSE sec[f][Direct]
      /\ \A i \in 0 .. (Direct - 1) : s[i] = NewAt(f, n, i)
      /\ DOMAIN t = Units
      /\ \A u \in Units : t[u] =
            IF u + Direct >= has /\ u + Direct < will THEN Addr(Got(f, n, u + Direct))
            ELSE IF tab = 1 \/ sec[f][Direct] = 0 THEN Zero
            ELSE disk[sec[f][Direct]][u]
  BY Sectors, Zenon
<1>3. d = IF w.tabled THEN [disk EXCEPT ![s[Direct]] = t] ELSE disk
  BY DEF TableDisk
<1>4. disk \in [Lbas -> [Units -> Cells]] /\ sec[f][Direct] \in Lbas \cup {0}
  <2>1. f \in Names \cup {"dir"} /\ Direct \in 0 .. Direct
    BY <1>1 DEF BlocksTypeOK
  <2> QED
    BY <2>1 DEF BlocksTypeOK
<1>5. /\ s[Direct] # 0 <=> will > Direct
      /\ s[Direct] \in Lbas \cup {0}
  BY <1>2, NewBlocks
<1>6. ASSUME NEW u \in Units, u + Direct >= has, u + Direct < will
      PROVE  Got(f, n, u + Direct) \in Lbas
  <2>1. u \in Nat
    BY UnitsHave
  <2>2. FirstNew(f) + tab + (u + Direct) - has + 1 \in 1 .. Takes(f, n)
    <3> HIDE DEF has, will, tab
    <3> QED BY <1>1, <1>6, <2>1
  <2> QED
    BY <2>2 DEF Got, Grants
<1> HIDE DEF has, will, tab, w, t
<1>7. t \in [Units -> Cells]
  <2> SUFFICES ASSUME NEW u \in Units PROVE t[u] \in Cells
    <3>1. t = [u \in Units |-> t[u]]
      BY <1>2, Sectors DEF t, w, WillSectors
    <3> QED
      BY <3>1
  <2>1. CASE u + Direct >= has /\ u + Direct < will
    BY <1>2, <1>6, <2>1, CellTypes
  <2>2. CASE ~(u + Direct >= has /\ u + Direct < will) /\ (tab = 1 \/ sec[f][Direct] = 0)
    BY <1>2, <2>2, CellTypes
  <2>3. CASE ~(u + Direct >= has /\ u + Direct < will) /\ ~(tab = 1 \/ sec[f][Direct] = 0)
    BY <1>2, <1>4, <2>3
  <2> QED
    BY <2>1, <2>2, <2>3
<1>8. CASE will > has /\ will > Direct
  <2>1. s[Direct] \in Lbas /\ d = [disk EXCEPT ![s[Direct]] = t] /\ s[Direct] # 0
    BY <1>2, <1>3, <1>5, <1>8
  <2>2. d \in [Lbas -> [Units -> Cells]] /\ d[s[Direct]] = t
        /\ \A c \in Lbas : c # s[Direct] => d[c] = disk[c]
    BY <1>4, <1>7, <2>1
  <2>3. ASSUME NEW i \in Index PROVE BlockAt(s, d, i) = NewAt(f, n, i)
    <3>1. CASE i < Direct
      BY <1>1, <1>2, <3>1 DEF BlockAt
    <3>2. CASE ~(i < Direct)
      <4> DEFINE u == i - Direct
      <4>1. u \in Units /\ u + Direct = i /\ i # 0
        BY <1>1, <3>2, UnitsHave
      <4>2. BlockAt(s, d, i) = AddrOf(t[u])
        BY <2>1, <2>2, <3>2 DEF BlockAt
      <4>3. At(f, i) = IF sec[f][Direct] = 0 THEN 0 ELSE AddrOf(disk[sec[f][Direct]][u])
        BY <3>2 DEF At, BlockAt
      <4> HIDE DEF u
      <4>4. CASE i >= has /\ i < will
        <5>1. t[u] = Addr(Got(f, n, i))
          BY <1>2, <4>1, <4>4
        <5>2. NewAt(f, n, i) = Got(f, n, i)
          BY <4>1, <4>4 DEF NewAt, has, will
        <5> QED
          BY <4>2, <5>1, <5>2, CellTags
      <4>5. CASE ~(i >= has /\ i < will)
        <5>1. NewAt(f, n, i) = At(f, i)
          BY <4>1, <4>5 DEF NewAt, has, will
        <5>2. CASE tab = 1 \/ sec[f][Direct] = 0
          <6>1. t[u] = Zero
            BY <1>2, <4>1, <4>5, <5>2
          <6>2. sec[f][Direct] = 0
            BY <1>1, <5>2
          <6> QED
            BY <4>2, <4>3, <5>1, <6>1, <6>2, CellTags
        <5>3. CASE ~(tab = 1 \/ sec[f][Direct] = 0)
          BY <1>2, <4>1, <4>2, <4>3, <4>5, <5>1, <5>3
        <5> QED
          BY <5>2, <5>3
      <4> QED
        BY <4>4, <4>5
    <3> QED
      BY <3>1, <3>2
  <2> QED
    BY <1>1, <1>2, <2>2, <2>3 DEF tab
<1>9. CASE ~(will > has /\ will > Direct)
  <2>1. d = disk /\ tab = 0 /\ s[Direct] = sec[f][Direct]
    BY <1>1, <1>2, <1>3, <1>9
  <2>2. ASSUME NEW i \in Index PROVE BlockAt(s, d, i) = NewAt(f, n, i)
    <3>1. CASE i < Direct
      BY <1>1, <1>2, <3>1 DEF BlockAt
    <3>2. CASE ~(i < Direct)
      <4>1. BlockAt(s, d, i) = At(f, i)
        BY <2>1, <3>2 DEF BlockAt, At
      <4>2. i # 0 /\ ~(i >= has /\ i < will)
        BY <1>1, <1>9, <3>2
      <4> QED
        BY <4>1, <4>2 DEF NewAt, has, will
    <3> QED
      BY <3>1, <3>2
  <2> QED
    BY <1>1, <1>2, <1>4, <2>1, <2>2 DEF tab
<1> QED
  BY <1>8, <1>9

(* The disk after the data is written: a block of the file holds the new   *)
(* bytes and, in front of them, what it held; other blocks are as before.  *)
LEMMA DataWritten ==
    ASSUME BlocksTypeOK, Shapes, Marked, Distinct, NEW f \in names, f \in Files, NEW n \in Nat,
           Grants(Takes(f, n)), Will(f, n) <= Total,
           NEW s, s = WillSectors(f, n).s, NEW d, d = TableDisk(f, n),
           NEW e, e = Written(f, n, s, d)
    PROVE  /\ e \in [Lbas -> [Units -> Cells]]
           /\ \A i \in Index : BlockAt(s, e, i) = NewAt(f, n, i)
           /\ \A c \in Lbas : c \notin InodeBlocks(f) \cup Allocs(Takes(f, n)) => e[c] = disk[c]
           /\ \A x \in 0 .. (i_size[f] + n - 1) :
                 /\ x \div BLOCK_SIZE \in Index
                 /\ NewAt(f, n, x \div BLOCK_SIZE) \in Lbas
                 /\ e[NewAt(f, n, x \div BLOCK_SIZE)][x % BLOCK_SIZE] =
                      IF x >= i_size[f] THEN Byte(f, x)
                      ELSE disk[At(f, x \div BLOCK_SIZE)][x % BLOCK_SIZE]
<1> DEFINE size == i_size[f]
           lba(k) == BlockAt(s, d, k)
           first == size \div BLOCK_SIZE
           last == (size + n - 1) \div BLOCK_SIZE
           sectors == IF n = 0 THEN {} ELSE first .. last
           At1(b) == CHOOSE k \in sectors : lba(k) = b
           cell(b, k) == [u \in Units |->
                            IF u < BLOCK_SIZE /\ k * BLOCK_SIZE + u \in size .. (size + n - 1)
                            THEN Byte(f, k * BLOCK_SIZE + u)
                            ELSE IF k = first THEN d[b][u] ELSE Zero]
<1>1. e = [b \in Lbas |-> IF ~ \E k \in sectors : lba(k) = b THEN d[b] ELSE cell(b, At1(b))]
  BY DEF Written
<1>2. /\ s \in [0 .. Direct -> Lbas \cup {0}]
      /\ s[Direct] = IF TableNew(f, n) = 1 THEN Alloc(FirstNew(f) + 1) ELSE sec[f][Direct]
      /\ d \in [Lbas -> [Units -> Cells]]
      /\ \A i \in Index : BlockAt(s, d, i) = NewAt(f, n, i)
      /\ \A c \in Lbas : c # s[Direct] => d[c] = disk[c]
  BY TableWritten
<1>3. /\ \A i \in Index : NewAt(f, n, i) \in Lbas \cup {0}
      /\ \A i \in Index : NewAt(f, n, i) # 0 <=> i < Will(f, n)
      /\ \A i, j \in Index : i # j /\ NewAt(f, n, i) # 0 =>
             NewAt(f, n, i) \notin {NewAt(f, n, j), s[Direct]}
      /\ \A i \in Index : At(f, i) # 0 => NewAt(f, n, i) = At(f, i)
      /\ \A i \in Index : NewAt(f, n, i) \in InodeBlocks(f) \cup Allocs(Takes(f, n)) \cup {0}
      /\ s[Direct] \in InodeBlocks(f) \cup Allocs(Takes(f, n)) \cup {0}
      /\ s[Direct] \in Lbas \cup {0}
  BY <1>2, NewBlocks
<1>4. size \in Nat /\ size < BLOCK_SIZE * Total /\ Total \in Nat /\ BLOCK_SIZE \in Nat
      /\ Will(f, n) \in Nat /\ Will(f, n) <= Total
      /\ Has(f) = first + 1 /\ Will(f, n) = (size + n) \div BLOCK_SIZE + 1
      /\ first \in Nat
  BY Blocked, Consts, Div DEF Has, Will, UsedBlocks
<1>5. size + n < BLOCK_SIZE * Total
  BY <1>4, DivBound
<1>6. ASSUME NEW x \in 0 .. (size + n - 1)
      PROVE  /\ x \div BLOCK_SIZE \in Index /\ x \div BLOCK_SIZE < Will(f, n)
             /\ x \in Nat /\ x \div BLOCK_SIZE \in Nat
             /\ x % BLOCK_SIZE \in 0 .. (BLOCK_SIZE - 1)
             /\ x = (x \div BLOCK_SIZE) * BLOCK_SIZE + (x % BLOCK_SIZE)
             /\ x \div BLOCK_SIZE <= last /\ n + size > 0
  <2>1. x \in Nat /\ size + n \in Nat /\ x <= size + n /\ size + n - 1 \in Nat /\ x <= size + n - 1
    BY <1>4
  <2>2. x \div BLOCK_SIZE <= (size + n) \div BLOCK_SIZE /\ x \div BLOCK_SIZE <= last
    BY <2>1, DivMono
  <2>3. /\ x \div BLOCK_SIZE \in Nat /\ (size + n) \div BLOCK_SIZE \in Nat
        /\ x % BLOCK_SIZE \in 0 .. (BLOCK_SIZE - 1)
        /\ x = BLOCK_SIZE * (x \div BLOCK_SIZE) + (x % BLOCK_SIZE)
    BY <2>1, Div
  <2>4. BLOCK_SIZE * (x \div BLOCK_SIZE) = (x \div BLOCK_SIZE) * BLOCK_SIZE
    BY <1>4, <2>3
  <2>5. x \div BLOCK_SIZE < Will(f, n)
    BY <1>4, <2>2, <2>3
  <2>6. x \div BLOCK_SIZE \in Index
    BY <1>4, <2>3, <2>5 DEF Index
  <2> QED
    BY <1>4, <2>1, <2>2, <2>3, <2>4, <2>5, <2>6
<1>7. \A k \in sectors : k \in Index /\ k < Will(f, n) /\ lba(k) = NewAt(f, n, k) /\ lba(k) \in Lbas
  <2> SUFFICES ASSUME NEW k \in sectors
               PROVE  k \in Index /\ k < Will(f, n) /\ lba(k) = NewAt(f, n, k) /\ lba(k) \in Lbas
    OBVIOUS
  <2>1. n # 0 /\ k \in first .. last
    OBVIOUS
  <2>2. size + n - 1 \in 0 .. (size + n - 1) /\ last \in Index /\ last < Will(f, n)
    <3>1. size + n - 1 \in 0 .. (size + n - 1)
      BY <1>4, <2>1
    <3> QED
      BY <1>6, <3>1
  <2>3. k \in Index /\ k < Will(f, n)
    BY <1>4, <2>1, <2>2 DEF Index
  <2> QED
    BY <1>2, <1>3, <2>3
<1> HIDE DEF sectors, lba
<1>8. ASSUME NEW k \in sectors PROVE At1(lba(k)) = k
  <2>1. \A j \in sectors : lba(j) = lba(k) => j = k
    <3> SUFFICES ASSUME NEW j \in sectors, lba(j) = lba(k), j # k PROVE FALSE
      OBVIOUS
    <3>1. NewAt(f, n, j) # NewAt(f, n, k)
      BY <1>3, <1>7
    <3> QED
      BY <1>7, <3>1
  <2> QED
    BY <2>1
<1> HIDE DEF At1, cell
<1>9. \A b \in Lbas : (~ \E k \in sectors : lba(k) = b) => e[b] = d[b]
  BY <1>1
<1>10. \A k \in sectors : e[lba(k)] = cell(lba(k), k)
  <2> SUFFICES ASSUME NEW k \in sectors PROVE e[lba(k)] = cell(lba(k), k)
    OBVIOUS
  <2>1. lba(k) \in Lbas /\ At1(lba(k)) = k /\ \E j \in sectors : lba(j) = lba(k)
    BY <1>7, <1>8
  <2> QED
    BY <1>1, <2>1
<1>11. ASSUME NEW k \in sectors PROVE cell(lba(k), k) \in [Units -> Cells]
  <2> SUFFICES ASSUME NEW u \in Units
               PROVE  /\ (u < BLOCK_SIZE /\ k * BLOCK_SIZE + u \in size .. (size + n - 1)) =>
                             Byte(f, k * BLOCK_SIZE + u) \in Cells
                      /\ d[lba(k)][u] \in Cells /\ Zero \in Cells
    BY DEF cell
  <2>1. ASSUME NEW y \in size .. (size + n - 1) PROVE Byte(f, y) \in Cells
    <3> DEFINE B == BLOCK_SIZE * Total
    <3>1. B \in Nat /\ size + n < B
      BY <1>5, Consts
    <3> HIDE DEF B
    <3>2. y \in 0 .. (B - 1)
      BY <1>4, <3>1
    <3> QED
      BY <3>2, CellTypes DEF B
  <2> QED
    BY <1>2, <1>7, <2>1, CellTypes
<1>12. e \in [Lbas -> [Units -> Cells]]
  <2>1. ASSUME NEW b \in Lbas PROVE e[b] \in [Units -> Cells]
    <3>1. CASE \E k \in sectors : lba(k) = b
      BY <1>10, <1>11, <3>1
    <3>2. CASE ~ \E k \in sectors : lba(k) = b
      BY <1>2, <1>9, <3>2
    <3> QED
      BY <3>1, <3>2
  <2>2. e = [b \in Lbas |-> e[b]]
    BY <1>1
  <2> QED
    BY <2>1, <2>2
<1>13. s[Direct] # 0 => e[s[Direct]] = d[s[Direct]]
  <2>1. ASSUME s[Direct] # 0, NEW k \in sectors PROVE lba(k) # s[Direct]
    <3>1. NewAt(f, n, k) # 0 /\ k \in Index
      BY <1>3, <1>7
    <3>2. \E j \in Index : j # k
      <4>1. Total \in Nat /\ Total >= 2
        BY Consts
      <4> QED
        BY <4>1 DEF Index
    <3> QED
      BY <1>3, <1>7, <3>1, <3>2
  <2> QED
    BY <1>3, <1>9, <2>1
<1>14. \A i \in Index : BlockAt(s, e, i) = NewAt(f, n, i)
  <2>1. \A i \in Index : BlockAt(s, e, i) = BlockAt(s, d, i)
    BY <1>13 DEF BlockAt
  <2> QED
    BY <1>2, <2>1
<1>15. ASSUME NEW c \in Lbas, c \notin InodeBlocks(f) \cup Allocs(Takes(f, n)) PROVE e[c] = disk[c]
  <2>1. c # 0
    BY DEF Lbas
  <2>2. c # s[Direct] /\ \A k \in sectors : lba(k) # c
    BY <1>3, <1>7, <1>15, <2>1
  <2> QED
    BY <1>2, <1>9, <2>2
<1>16. ASSUME NEW x \in 0 .. (size + n - 1)
       PROVE  /\ x \div BLOCK_SIZE \in Index
              /\ NewAt(f, n, x \div BLOCK_SIZE) \in Lbas
              /\ e[NewAt(f, n, x \div BLOCK_SIZE)][x % BLOCK_SIZE] =
                   IF x >= size THEN Byte(f, x)
                   ELSE disk[At(f, x \div BLOCK_SIZE)][x % BLOCK_SIZE]
  <2> DEFINE k == x \div BLOCK_SIZE
             u == x % BLOCK_SIZE
             b == NewAt(f, n, k)
  <2>1. /\ k \in Index /\ k < Will(f, n) /\ x \in Nat /\ k \in Nat
        /\ u \in 0 .. (BLOCK_SIZE - 1) /\ x = k * BLOCK_SIZE + u /\ k <= last
    BY <1>6
  <2>2. u \in Units /\ u < BLOCK_SIZE
    BY <1>4, <2>1, UnitsHave
  <2>3. b \in Lbas /\ b # 0
    BY <1>3, <2>1
  <2>4. x < size => At(f, k) # 0 /\ b = At(f, k) /\ k <= first /\ d[b] = disk[b]
    <3> SUFFICES ASSUME x < size PROVE At(f, k) # 0 /\ b = At(f, k) /\ k <= first /\ d[b] = disk[b]
      OBVIOUS
    <3>1. k <= first
      BY <1>4, <2>1, DivMono
    <3>2. k < Has(f) /\ size # 0
      BY <1>4, <2>1, <3>1
    <3>3. FirstNew(f) = 0
      <4>1. sec[f][0] = 0 => size = 0
        BY DEF Shapes, FileShape
      <4> QED
        BY <3>2, <4>1 DEF FirstNew
    <3>4. At(f, k) # 0 /\ b = At(f, k)
      BY <1>3, <2>1, <3>2, <3>3, Blocked
    <3>5. b # s[Direct]
      <4>1. \E j \in Index : j # k
        <5>1. Total \in Nat /\ Total >= 2
          BY Consts
        <5> QED
          BY <5>1 DEF Index
      <4> QED
        BY <1>3, <2>1, <2>3, <4>1
    <3> QED
      BY <1>2, <2>3, <3>1, <3>4, <3>5
  <2> HIDE DEF k, u, b, last
  <2>5. CASE x >= size
    <3>1. n # 0 /\ first <= k
      <4>1. n # 0
        BY <1>4, <2>1, <2>5
      <4>2. first <= k
        BY <1>4, <2>1, <2>5, DivMono DEF k
      <4> QED
        BY <4>1, <4>2
    <3>2. k \in sectors
      BY <1>4, <2>1, <3>1 DEF sectors
    <3>3. lba(k) = b /\ e[b] = cell(b, k)
      BY <1>7, <1>10, <3>2 DEF b
    <3>4. k * BLOCK_SIZE + u \in size .. (size + n - 1)
      BY <1>4, <2>1, <2>5
    <3>5. e[b][u] = Byte(f, k * BLOCK_SIZE + u)
      BY <2>2, <3>3, <3>4 DEF cell
    <3>6. e[b][u] = Byte(f, x)
      BY <2>1, <3>5
    <3> QED
      BY <2>1, <2>3, <2>5, <3>6 DEF k, u, b
  <2>6. CASE ~(x >= size)
    <3>0. x < size
      BY <1>4, <2>1, <2>6
    <3>1. At(f, k) # 0 /\ b = At(f, k) /\ k <= first /\ d[b] = disk[b]
      BY <2>4, <3>0
    <3>2. CASE k \in sectors
      <4>1. k = first
        <5>1. k >= first
          BY <1>4, <2>1, <3>2 DEF sectors
        <5> QED
          BY <1>4, <2>1, <3>1, <5>1
      <4>2. lba(k) = b /\ e[b] = cell(b, k)
        BY <1>7, <1>10, <3>2 DEF b
      <4>3. k * BLOCK_SIZE + u \notin size .. (size + n - 1)
        BY <1>4, <2>1, <3>0
      <4>4. e[b][u] = d[b][u]
        BY <2>2, <4>1, <4>2, <4>3 DEF cell
      <4>5. e[b][u] = disk[At(f, k)][u]
        BY <3>1, <4>4
      <4> QED
        BY <2>1, <2>3, <2>6, <4>5 DEF k, u, b
    <3>3. CASE k \notin sectors
      <4>1. ASSUME NEW j \in sectors PROVE lba(j) # b
        <5>1. j # k /\ j \in Index /\ lba(j) = NewAt(f, n, j)
          BY <1>7, <3>3
        <5>2. NewAt(f, n, k) # NewAt(f, n, j)
          BY <1>3, <2>1, <2>3, <5>1 DEF b
        <5> QED
          BY <5>1, <5>2 DEF b
      <4>2. e[b] = disk[At(f, k)]
        BY <1>9, <2>3, <3>1, <4>1
      <4> QED
        BY <2>1, <2>3, <2>6, <4>2 DEF k, u, b
    <3> QED
      BY <3>2, <3>3
  <2> QED
    BY <2>5, <2>6
<1> QED
  BY <1>12, <1>14, <1>15, <1>16

----------------------------------------------------------------------------
(* Steps that leave the blocks alone.                                      *)
LEMMA Same ==
    ASSUME BlocksInv, UNCHANGED <<used, disk, sec, i_size, names, spilled>>,
           fd' \in [file : names \cup {"none"}, pos : 0 .. (Word - 1)],
           PosFits', OnlyLimitsStop'
    PROVE  BlocksInv'
<1>1. BlocksTypeOK'
  BY DEF BlocksInv, BlocksTypeOK
<1>2. Shapes'
  BY DEF BlocksInv, Shapes, FileShape
<1>3. \A o : InodeBlocks(o)' = InodeBlocks(o)
  BY DEF InodeBlocks, BlocksOf
<1>4. \A o, i : At(o, i)' = At(o, i)
  BY DEF At
<1>5. Owners' = Owners
  BY DEF Owners
<1>6. Marked' /\ Apart'
  BY <1>3, <1>5 DEF BlocksInv, Marked, Apart
<1>7. Distinct'
  BY <1>4, <1>5 DEF BlocksInv, Distinct
<1>8. NoneLost'
  <2>1. {InodeBlocks(o)' : o \in Owners'} = {InodeBlocks(o) : o \in Owners}
    BY <1>3, <1>5
  <2> QED
    BY <2>1 DEF BlocksInv, NoneLost, Formatted
<1>9. Spills' /\ Bytes'
  BY <1>4 DEF BlocksInv, Spills, Bytes, Dir
<1>10. DirInv'
  BY DEF BlocksInv, DirInv, DirFirst, DirKnown, DirOnce, DirAll, DirKept, DirBlocks, DirCell, At
<1> QED
  BY <1>1, <1>2, <1>6, <1>7, <1>8, <1>9, <1>10 DEF BlocksInv

(* The machine stops: nothing else changes.                                *)
LEMMA StopStep ==
    ASSUME BlocksInv, NEW why, Stop(why), why \in {"full", "limit", "loop"},
           why = "full" => Cardinality(Free) <= Total, why = "loop" => spilled
    PROVE  BlocksInv'
<1>1. UNCHANGED <<used, disk, sec, i_size, names, fd, spilled>> /\ panic' = why
  BY DEF Stop
<1>2. Free' = Free
  BY <1>1 DEF Free
<1>3. OnlyLimitsStop'
  BY <1>1, <1>2 DEF OnlyLimitsStop
<1>4. PosFits'
  BY <1>1 DEF BlocksInv, PosFits
<1>5. fd' \in [file : names \cup {"none"}, pos : 0 .. (Word - 1)]
  BY <1>1 DEF BlocksInv, BlocksTypeOK
<1> QED
  BY <1>1, <1>3, <1>4, <1>5, Same

(* A descriptor moves, and the machine does not stop.                      *)
LEMMA MoveStep ==
    ASSUME BlocksInv, UNCHANGED <<used, disk, sec, i_size, names, panic, spilled>>,
           fd' \in [file : names \cup {"none"}, pos : 0 .. (Word - 1)], PosFits'
    PROVE  BlocksInv'
<1>1. Free' = Free
  BY DEF Free
<1>2. OnlyLimitsStop'
  BY <1>1 DEF BlocksInv, OnlyLimitsStop
<1> QED
  BY <1>2, Same

(* The directory when a step leaves its blocks alone.                      *)
LEMMA DirSame ==
    ASSUME BlocksTypeOK, DirInv, Spills, sec'["dir"] = sec["dir"],
           \A c \in InodeBlocks("dir") : disk'[c] = disk[c],
           names' = names, i_size'["dir"] = i_size["dir"], spilled' = spilled
    PROVE  DirInv' /\ Spills'
<1>1. DirBlocks' = DirBlocks /\ Dir' = Dir /\ \A i \in Index : At("dir", i)' = At("dir", i)
  <2>1. \A i \in Index : At("dir", i)' = At("dir", i)
    BY Kept
  <2> QED
    BY <2>1 DEF DirBlocks, Dir
<1>2. \A i \in DirBlocks : At("dir", i) \in InodeBlocks("dir")
  BY InodeBlocksIs DEF DirBlocks
<1>3. \A i \in DirBlocks : \A u : DirCell(i, u)' = DirCell(i, u)
  BY <1>1, <1>2 DEF DirCell, DirBlocks
<1>4. ASSUME DirFirst PROVE DirFirst'
  BY <1>1, <1>3, <1>4 DEF DirFirst
<1>5. ASSUME DirKnown PROVE DirKnown'
  BY <1>1, <1>3, <1>5 DEF DirKnown
<1>6. ASSUME DirOnce PROVE DirOnce'
  BY <1>1, <1>3, <1>6 DEF DirOnce
<1>7. ASSUME DirAll PROVE DirAll'
  BY <1>1, <1>3, <1>7 DEF DirAll
<1>8. ASSUME DirKept PROVE DirKept'
  BY <1>1, <1>3, <1>8 DEF DirKept
<1>9. Spills'
  BY <1>1 DEF Spills
<1> QED
  BY <1>4, <1>5, <1>6, <1>7, <1>8, <1>9 DEF DirInv

----------------------------------------------------------------------------
(* What stops file_write, and what it writes.                              *)
LEMMA TakesIs ==
    ASSUME NEW f, NEW n
    PROVE  WillSectors(f, n).k = Takes(f, n)
  BY DEF WillSectors, Takes, FirstNew, TableNew, Has, Will

LEMMA WriteStopsFor ==
    ASSUME BlocksInv, NEW f \in names, NEW n \in Nat
    PROVE  /\ WriteStops(f, n) \in {"none", "limit", "full"}
           /\ WriteStops(f, n) = "full" => Cardinality(Free) <= Total
           /\ WriteStops(f, n) = "none" => Will(f, n) <= Total /\ Takes(f, n) <= Cardinality(Free)
<1> DEFINE has == Has(f)
           will == Will(f, n)
           w == WillSectors(f, n)
           bad == \/ has > Direct /\ sec[f][Direct] = 0
                  \/ Crosses(has, will) /\ sec[f][Direct] # 0
                  \/ \E i \in has .. (will - 1) : i < Direct /\ sec[f][i] # 0
                  \/ will > has /\ will <= Direct /\ w.s[has - 1] = 0
<1>1. WriteStops(f, n) = IF will > Total THEN "limit"
                         ELSE IF w.k > Cardinality(Free) THEN "full"
                         ELSE IF bad THEN "assert" ELSE "none"
  BY DEF WriteStops, Has, Will
<1>2. BlocksTypeOK /\ Shapes /\ Marked /\ Distinct
  BY DEF BlocksInv
<1>3. /\ has \in Nat /\ has >= 1 /\ will \in Nat /\ has <= will
      /\ FirstNew(f) \in {0, 1} /\ TableNew(f, n) \in {0, 1}
      /\ \A i \in Index : At(f, i) # 0 <=> FirstNew(f) = 0 /\ i < has
      /\ sec[f][Direct] # 0 <=> has > Direct
      /\ \A i \in 0 .. (Direct - 1) : sec[f][i] = At(f, i)
      /\ Direct \in Nat /\ Direct > 0 /\ PerTable \in Nat /\ Total = Direct + PerTable
      /\ Cardinality(Free) \in Nat
      /\ Takes(f, n) = FirstNew(f) + TableNew(f, n) + will - has
      /\ w.k = Takes(f, n)
  BY <1>2, Blocked, Consts, FreeFinite, TakesIs DEF Takes
<1>4. ASSUME ~(will > Total), ~(w.k > Cardinality(Free)) PROVE ~bad
  <2>0. Takes(f, n) \in Nat /\ Takes(f, n) <= Cardinality(Free)
    BY <1>3, <1>4
  <2>1. Grants(Takes(f, n))
    BY <2>0, AllocGrants
  <2>2. ~(has > Direct /\ sec[f][Direct] = 0) /\ ~(Crosses(has, will) /\ sec[f][Direct] # 0)
    BY <1>3 DEF Crosses
  <2>3. ASSUME NEW i \in has .. (will - 1), i < Direct, sec[f][i] # 0 PROVE FALSE
    <3>1. i \in Index /\ i \in 0 .. (Direct - 1) /\ ~(i < has)
      BY <1>3, <2>3 DEF Index
    <3> QED
      BY <1>3, <2>3, <3>1
  <2>4. ASSUME will > has, will <= Direct, w.s[has - 1] = 0 PROVE FALSE
    <3>1. has - 1 \in 0 .. (Direct - 1) /\ has - 1 \in Index /\ has - 1 < will
      BY <1>3, <2>4 DEF Index
    <3>2. w.s[has - 1] = NewAt(f, n, has - 1)
      BY <1>2, <2>1, <3>1, Sectors, Zenon
    <3>3. NewAt(f, n, has - 1) # 0
      <4> DEFINE table == IF TableNew(f, n) = 1 THEN Alloc(FirstNew(f) + 1) ELSE sec[f][Direct]
      <4>1. \A i \in Index : NewAt(f, n, i) # 0 <=> i < will
        BY <1>2, <2>1, NewBlocks
      <4> QED
        BY <3>1, <4>1
    <3> QED
      BY <2>4, <3>2, <3>3
  <2> QED
    BY <2>2, <2>3, <2>4
<1>5. ASSUME ~(will > Total), w.k > Cardinality(Free) PROVE Cardinality(Free) <= Total
  BY <1>3, <1>5
<1> HIDE DEF bad, w, has, will
<1>6. CASE will > Total
  BY <1>1, <1>6
<1>7. CASE ~(will > Total) /\ w.k > Cardinality(Free)
  BY <1>1, <1>5, <1>7
<1>8. CASE ~(will > Total) /\ ~(w.k > Cardinality(Free))
  <2>1. will <= Total /\ Takes(f, n) <= Cardinality(Free)
    BY <1>3, <1>8
  <2>2. WriteStops(f, n) = "none"
    BY <1>1, <1>4, <1>8
  <2> QED
    BY <2>1, <2>2 DEF will
<1> QED
  BY <1>6, <1>7, <1>8

LEMMA FileWriteStep ==
    ASSUME BlocksInv, NEW f \in Files, NEW n \in Counts, FileWrite(f, n)
    PROVE  BlocksInv'
<1>0. BlocksTypeOK /\ Shapes /\ Marked /\ Distinct /\ OwnInv /\ DirInv /\ Spills /\ Bytes
  BY DEF BlocksInv, OwnInv
<1>1. /\ f \in names /\ n \in Nat /\ f # "dir" /\ f \in Names /\ f \in Owners /\ fd.file = f
      /\ fd \in [file : names \cup {"none"}, pos : 0 .. (Word - 1)]
  <2>1. fd \in [file : names \cup {"none"}, pos : 0 .. (Word - 1)] /\ names \subseteq Names
    BY <1>0 DEF BlocksTypeOK
  <2>2. fd.file = f /\ fd.file \in names \cup {"none"} /\ n \in Nat
    BY <2>1, Consts DEF FileWrite
  <2>3. f \in Names /\ f # "none" /\ f # "dir"
    BY NamesApart
  <2> QED
    BY <2>1, <2>2, <2>3 DEF Owners
<1>2. CASE WriteStops(f, n) # "none" /\ Stop(WriteStops(f, n))
  <2>1. /\ WriteStops(f, n) \in {"limit", "full"}
        /\ WriteStops(f, n) = "full" => Cardinality(Free) <= Total
    BY <1>1, <1>2, WriteStopsFor
  <2> QED
    BY <1>2, <2>1, StopStep
<1>3. CASE WriteStops(f, n) = "none"
  <2> DEFINE s == WillSectors(f, n).s
             d == TableDisk(f, n)
             K == Takes(f, n)
             F == Allocs(K)
  <2>1. /\ used' = used \cup Allocs(WillSectors(f, n).k)
        /\ sec' = [sec EXCEPT ![f] = s] /\ disk' = Written(f, n, s, d)
        /\ i_size' = [i_size EXCEPT ![f] = @ + n]
        /\ fd' = [fd EXCEPT !.pos = (i_size[f] + n - 1) % Word]
        /\ UNCHANGED <<names, panic, spilled>>
        /\ i_size[f] + n <= BLOCK_SIZE * Total
    BY <1>3 DEF FileWrite, TableDisk, Stop
  <2>2. Will(f, n) <= Total /\ K <= Cardinality(Free)
    BY <1>1, <1>3, WriteStopsFor
  <2>3. /\ i_size[f] \in Nat /\ Will(f, n) \in Nat /\ Will(f, n) >= 1 /\ K \in Nat
        /\ (FirstNew(f) = 0 <=> sec[f][0] # 0)
    <3>1. /\ i_size[f] \in Nat /\ Has(f) \in Nat /\ Has(f) >= 1
          /\ Will(f, n) \in Nat /\ Has(f) <= Will(f, n)
          /\ FirstNew(f) \in {0, 1} /\ TableNew(f, n) \in {0, 1}
      BY <1>0, <1>1, Blocked
    <3>2. K = FirstNew(f) + TableNew(f, n) + Will(f, n) - Has(f)
      BY DEF Takes
    <3> HIDE DEF K
    <3> QED
      BY <3>1, <3>2 DEF FirstNew
  <2>4. Grants(K)
    BY <2>2, <2>3, AllocGrants
  <2>5. used' = used \cup F
    BY <2>1, TakesIs
  <2>6. F \cap used = {} /\ F \subseteq Lbas
    BY <2>4 DEF Grants, Allocs
  <2> HIDE DEF s, d, K
  <2>7. /\ s \in [0 .. Direct -> Lbas \cup {0}]
        /\ s[Direct] = IF TableNew(f, n) = 1 THEN Alloc(FirstNew(f) + 1) ELSE sec[f][Direct]
        /\ s[0] = NewAt(f, n, 0)
    BY <1>0, <1>1, <2>2, <2>4, TableWritten DEF s, d, K
  <2>8. /\ disk' \in [Lbas -> [Units -> Cells]]
        /\ \A i \in Index : BlockAt(s, disk', i) = NewAt(f, n, i)
        /\ \A c \in Lbas : c \notin InodeBlocks(f) \cup F => disk'[c] = disk[c]
        /\ \A x \in 0 .. (i_size[f] + n - 1) :
              /\ x \div BLOCK_SIZE \in Index
              /\ NewAt(f, n, x \div BLOCK_SIZE) \in Lbas
              /\ disk'[NewAt(f, n, x \div BLOCK_SIZE)][x % BLOCK_SIZE] =
                   IF x >= i_size[f] THEN Byte(f, x)
                   ELSE disk[At(f, x \div BLOCK_SIZE)][x % BLOCK_SIZE]
    <3>1. ASSUME NEW e, e = disk' PROVE e = Written(f, n, s, d)
      BY <2>1, <3>1
    <3> DEFINE e == Written(f, n, s, d)
    <3>2. /\ e \in [Lbas -> [Units -> Cells]]
          /\ \A i \in Index : BlockAt(s, e, i) = NewAt(f, n, i)
          /\ \A c \in Lbas : c \notin InodeBlocks(f) \cup Allocs(Takes(f, n)) => e[c] = disk[c]
          /\ \A x \in 0 .. (i_size[f] + n - 1) :
                /\ x \div BLOCK_SIZE \in Index
                /\ NewAt(f, n, x \div BLOCK_SIZE) \in Lbas
                /\ e[NewAt(f, n, x \div BLOCK_SIZE)][x % BLOCK_SIZE] =
                     IF x >= i_size[f] THEN Byte(f, x)
                     ELSE disk[At(f, x \div BLOCK_SIZE)][x % BLOCK_SIZE]
      BY <1>0, <1>1, <2>2, <2>4, DataWritten DEF s, d, K
    <3> HIDE DEF e
    <3>3. disk' = e
      BY <2>1 DEF e
    <3> QED
      BY <3>2, <3>3 DEF K
  <2>9. /\ \A i \in Index : NewAt(f, n, i) \in Lbas \cup {0}
        /\ \A i \in Index : NewAt(f, n, i) # 0 <=> i < Will(f, n)
        /\ s[Direct] # 0 <=> Will(f, n) > Direct
        /\ \A i, j \in Index : i # j /\ NewAt(f, n, i) # 0 =>
               NewAt(f, n, i) \notin {NewAt(f, n, j), s[Direct]}
        /\ \A i \in Index : At(f, i) # 0 => NewAt(f, n, i) = At(f, i)
        /\ \A i \in Index : NewAt(f, n, i) \in InodeBlocks(f) \cup F \cup {0}
        /\ s[Direct] \in InodeBlocks(f) \cup F \cup {0}
        /\ \A c \in F : c = s[Direct] \/ \E i \in Index : c = NewAt(f, n, i)
        /\ sec[f][Direct] # 0 => s[Direct] = sec[f][Direct]
    BY <1>0, <1>1, <2>2, <2>4, <2>7, NewBlocks DEF K
  <2> HIDE DEF F
  <2>10. /\ sec'[f] = s /\ \A o \in Names \cup {"dir"} : o # f => sec'[o] = sec[o]
         /\ sec' \in [Names \cup {"dir"} -> [0 .. Direct -> Lbas \cup {0}]]
    BY <1>0, <1>1, <2>1, <2>7 DEF BlocksTypeOK
  <2>11. \A i \in Index : At(f, i)' = NewAt(f, n, i)
    BY <2>8, <2>10 DEF At
  <2>12. InodeBlocks(f)' = InodeBlocks(f) \cup F
    <3>1. InodeBlocks(f)' = {b \in {At(f, i)' : i \in Index} \cup {sec'[f][Direct]} : b # 0}
      BY DEF InodeBlocks, BlocksOf, At, Index
    <3>2. InodeBlocks(f) = {b \in {At(f, i) : i \in Index} \cup {sec[f][Direct]} : b # 0}
      BY InodeBlocksIs
    <3>3. \A b \in F : b # 0
      BY <2>6 DEF Lbas
    <3>4. ASSUME NEW b \in InodeBlocks(f)' PROVE b \in InodeBlocks(f) \cup F
      BY <2>9, <2>10, <2>11, <3>1, <3>4
    <3>5. ASSUME NEW b \in InodeBlocks(f) PROVE b \in InodeBlocks(f)'
      BY <2>9, <2>10, <2>11, <3>1, <3>2, <3>5
    <3>6. ASSUME NEW b \in F PROVE b \in InodeBlocks(f)'
      BY <2>9, <2>10, <2>11, <3>1, <3>3, <3>6
    <3> QED
      BY <3>4, <3>5, <3>6
  <2>13. /\ OwnInv'
         /\ \A o \in Owners : o # f => /\ InodeBlocks(o)' = InodeBlocks(o)
                                       /\ \A i \in Index : At(o, i)' = At(o, i)
                                       /\ \A c \in InodeBlocks(o) : disk'[c] = disk[c]
    <3>1. names' = names /\ spilled' = spilled /\ Owners \subseteq Names \cup {"dir"}
          /\ names' \ names = {} /\ names' \subseteq Names
      BY <1>0, <2>1 DEF Owners, BlocksTypeOK
    <3>2. /\ BlocksTypeOK /\ OwnInv /\ f \in Owners /\ F \cap used = {} /\ F \subseteq Lbas
          /\ used' = used \cup F
      BY <1>0, <1>1, <2>5, <2>6
    <3>3. /\ \A o \in Owners : o # f => sec'[o] = sec[o]
          /\ \A c \in Lbas : c \notin InodeBlocks(f) \cup F => disk'[c] = disk[c]
      BY <2>8, <2>10, <3>1
    <3> QED
      BY <2>12, <3>1, <3>2, <3>3, Grow
  <2>14. Owners' = Owners /\ names' = names
    BY <2>1 DEF Owners
  <2>15. i_size'[f] = i_size[f] + n /\ (\A o \in Names \cup {"dir"} : o # f => i_size'[o] = i_size[o])
         /\ i_size' \in [Names \cup {"dir"} -> Nat]
    BY <1>0, <1>1, <2>1, <2>3 DEF BlocksTypeOK
  <2>16. /\ fd' \in [file : names \cup {"none"}, pos : 0 .. (Word - 1)]
         /\ fd'.file = f /\ fd'.pos = (i_size[f] + n - 1) % Word
    BY <1>1, <2>1, <2>3, Consts
  <2>17. BlocksTypeOK'
    <3>1. used' \subseteq Lbas
      BY <1>0, <2>5, <2>6 DEF BlocksTypeOK
    <3> QED
      BY <1>0, <2>1, <2>8, <2>10, <2>15, <2>16, <3>1 DEF BlocksTypeOK
  <2>18. PosFits'
    <3> DEFINE x == i_size[f] + n
    <3>1. x \in Nat /\ x < Word /\ Word \in Nat /\ Word > 0
      <4> DEFINE B == BLOCK_SIZE * Total
      <4>1. B \in Nat /\ B < Word /\ x <= B /\ Word \in Nat
        BY <2>1, Consts
      <4> HIDE DEF B
      <4> QED
        BY <1>1, <2>3, <4>1
    <3>2. x = 0 => (x - 1) % Word = Word - 1
      BY <3>1
    <3>3. x # 0 => (x - 1) % Word = x - 1 /\ x - 1 <= x
      BY <3>1
    <3>4. i_size'[f] = x /\ fd'.file = f /\ fd'.pos = (x - 1) % Word
      <4>1. i_size[f] + n - 1 = x - 1
        BY <1>1, <2>3
      <4> QED
        BY <2>15, <2>16, <4>1, Zenon
    <3> HIDE DEF x
    <3> QED
      BY <3>2, <3>3, <3>4 DEF PosFits
  <2>19. Shapes'
    <3>1. ASSUME NEW g \in names, g # f PROVE FileShape(g)'
      <4>1. g \in Owners /\ g \in Names
        BY <1>0 DEF Owners, BlocksTypeOK
      <4>2. sec'[g] = sec[g] /\ i_size'[g] = i_size[g] /\ \A i \in Index : At(g, i)' = At(g, i)
        BY <2>10, <2>13, <2>15, <3>1, <4>1
      <4>3. FileShape(g)
        BY <1>0 DEF Shapes
      <4>4. UsedBlocks(i_size[g])' = UsedBlocks(i_size[g])
        BY <4>2 DEF UsedBlocks
      <4> QED
        BY <4>2, <4>3, <4>4 DEF FileShape, At, Index, NoSectors
    <3>2. FileShape(f)'
      <4>1. UsedBlocks(i_size[f])' = Will(f, n)
        BY <2>15 DEF UsedBlocks, Will
      <4>2. sec'[f][0] # 0
        <5>1. 0 \in Index /\ 0 < Will(f, n)
          BY <2>3, Consts DEF Index
        <5> QED
          BY <2>7, <2>9, <2>10, <5>1
      <4>3. \A i \in Index : At(f, i)' # 0 <=> i < Will(f, n)
        BY <2>9, <2>11
      <4> QED
        BY <2>2, <2>9, <2>10, <4>1, <4>2, <4>3 DEF FileShape, At, Index
    <3> QED
      BY <2>14, <3>1, <3>2 DEF Shapes
  <2>20. Distinct'
    <3>1. ASSUME NEW o \in Owners, NEW i \in Index, NEW j \in Index, i # j, At(o, i)' # 0
          PROVE  At(o, i)' \notin {At(o, j)', sec'[o][Direct]}
      <4>1. CASE o = f
        BY <2>9, <2>10, <2>11, <3>1, <4>1
      <4>2. CASE o # f
        <5>1. sec'[o] = sec[o] /\ At(o, i)' = At(o, i) /\ At(o, j)' = At(o, j)
          BY <1>0, <2>10, <2>13, <4>2 DEF Owners, BlocksTypeOK
        <5> QED
          BY <1>0, <3>1, <5>1 DEF Distinct
      <4> QED
        BY <4>1, <4>2
    <3> QED
      BY <2>14, <3>1 DEF Distinct
  <2>21. Bytes'
    <3>1. ASSUME NEW g \in names \cap Files, NEW x \in 0 .. (i_size'[g] - 1)
          PROVE  /\ At(g, x \div BLOCK_SIZE)' # 0
                 /\ disk'[At(g, x \div BLOCK_SIZE)'][x % BLOCK_SIZE] = Byte(g, x)
      <4>1. CASE g = f
        <5>1. x \in 0 .. (i_size[f] + n - 1)
          <6>1. i_size'[g] = i_size[f] + n
            BY <2>15, <4>1
          <6> QED
            BY <1>1, <2>3, <6>1
        <5> DEFINE k == x \div BLOCK_SIZE
        <5>2. /\ k \in Index /\ NewAt(f, n, k) \in Lbas
              /\ disk'[NewAt(f, n, k)][x % BLOCK_SIZE] =
                   IF x >= i_size[f] THEN Byte(f, x) ELSE disk[At(f, k)][x % BLOCK_SIZE]
          BY <2>8, <5>1
        <5>3. x < i_size[f] => disk[At(f, k)][x % BLOCK_SIZE] = Byte(f, x)
          <6>1. x < i_size[f] => x \in 0 .. (i_size[f] - 1)
            BY <2>3, <5>1
          <6> QED
            BY <1>0, <3>1, <4>1, <6>1 DEF Bytes
        <5>4. x >= i_size[f] \/ x < i_size[f]
          BY <2>3, <5>1
        <5> HIDE DEF k
        <5>5. At(f, k)' = NewAt(f, n, k) /\ NewAt(f, n, k) # 0
          BY <2>11, <5>2 DEF Lbas
        <5> QED
          BY <4>1, <5>2, <5>3, <5>4, <5>5 DEF k
      <4>2. CASE g # f
        <5>1. g \in Owners /\ g \in Names /\ i_size'[g] = i_size[g] /\ i_size[g] \in Nat
          BY <1>0, <2>15, <4>2 DEF Owners, BlocksTypeOK
        <5> DEFINE k == x \div BLOCK_SIZE
        <5>2. At(g, k) # 0 /\ disk[At(g, k)][x % BLOCK_SIZE] = Byte(g, x)
          BY <1>0, <3>1, <5>1 DEF Bytes
        <5>3. k \in Index
          <6>1. i_size[g] < BLOCK_SIZE * Total /\ x \in Nat /\ x < i_size[g]
            BY <1>0, <3>1, <5>1, Blocked
          <6>2. x < BLOCK_SIZE * Total
            <7> DEFINE B == BLOCK_SIZE * Total
            <7>1. B \in Nat /\ i_size[g] < B
              BY <6>1, Consts
            <7> HIDE DEF B
            <7>2. x < B
              BY <5>1, <6>1, <7>1
            <7> QED
              BY <7>2 DEF B
          <6> QED
            BY <6>1, <6>2, Div, DivBound, Consts DEF Index
        <5> HIDE DEF k
        <5>4. At(g, k)' = At(g, k) /\ At(g, k) \in InodeBlocks(g)
          BY <2>13, <4>2, <5>1, <5>2, <5>3, InodeBlocksIs
        <5>5. disk'[At(g, k)] = disk[At(g, k)]
          BY <2>13, <4>2, <5>1, <5>4
        <5> QED
          BY <5>2, <5>4, <5>5 DEF k
      <4> QED
        BY <4>1, <4>2
    <3> QED
      BY <2>14, <3>1 DEF Bytes
  <2>22. DirInv' /\ Spills'
    <3>1. "dir" \in Owners /\ "dir" # f
      BY <1>1 DEF Owners
    <3>2. /\ sec'["dir"] = sec["dir"] /\ i_size'["dir"] = i_size["dir"]
          /\ \A c \in InodeBlocks("dir") : disk'[c] = disk[c]
      BY <2>10, <2>13, <2>15, <3>1
    <3> QED
      BY <1>0, <2>1, <3>2, DirSame
  <2>23. OnlyLimitsStop'
    <3>1. panic' = "none"
      BY <2>1 DEF FileWrite
    <3> QED
      BY <3>1 DEF OnlyLimitsStop
  <2> QED
    BY <2>13, <2>17, <2>18, <2>19, <2>20, <2>21, <2>22, <2>23 DEF BlocksInv, OwnInv
<1> QED
  BY <1>2, <1>3 DEF FileWrite

----------------------------------------------------------------------------
(* file_read, sys_lseek, file_open and file_close.                         *)

(* What is read lies in the file, or fd_pos had wrapped and the ASSERT on  *)
(* the blocks stops the read.                                              *)
LEMMA ReadFits ==
    ASSUME BlocksInv, NEW f \in names, fd.file = f, NEW n \in Counts
    PROVE  \/ /\ ReadSize(f, n) = (IF fd.pos + n <= i_size[f] THEN n ELSE i_size[f] - fd.pos)
              /\ ReadSize(f, n) \in Nat /\ fd.pos + ReadSize(f, n) <= i_size[f]
              /\ (fd.pos + ReadSize(f, n)) % Word = fd.pos + ReadSize(f, n)
           \/ ReadStops(f, n) = "limit"
<1> DEFINE pos == fd.pos
           size == i_size[f]
           B == BLOCK_SIZE * Total
           rs == ReadSize(f, n)
<1>1. /\ pos \in Nat /\ pos < Word /\ size \in Nat /\ size < B /\ B \in Nat /\ B < Word
      /\ Word \in Nat /\ n \in Nat /\ n + B < Word
      /\ pos <= size \/ (size = 0 /\ pos = Word - 1)
  <2>1. fd \in [file : names \cup {"none"}, pos : 0 .. (Word - 1)] /\ f \in Names
        /\ BlocksTypeOK /\ Shapes /\ PosFits
    BY DEF BlocksInv, BlocksTypeOK
  <2>2. pos \in 0 .. (Word - 1) /\ f # "none"
    BY <2>1, NamesApart
  <2>3. pos <= size \/ (size = 0 /\ pos = Word - 1)
    BY <2>1, <2>2 DEF PosFits
  <2>4. size \in Nat /\ size < B
    BY <2>1, Blocked, Consts
  <2> QED
    BY <2>2, <2>3, <2>4, Consts
<1>2. rs = IF (pos + n) % Word > size THEN (size - pos) % Word ELSE n
  BY DEF ReadSize
<1> HIDE DEF pos, size, B, rs
<1>3. CASE pos <= size
  <2>1. pos + n \in Nat /\ pos + n < Word /\ Word > 0
    BY <1>1, <1>3
  <2>2. (pos + n) % Word = pos + n
    BY <1>1, <2>1
  <2>3. size - pos \in Nat /\ size - pos < Word
    BY <1>1, <1>3
  <2>4. (size - pos) % Word = size - pos
    BY <1>1, <2>3
  <2>5. rs = IF pos + n <= size THEN n ELSE size - pos
    BY <1>1, <1>2, <2>1, <2>2, <2>4
  <2>6. rs \in Nat /\ pos + rs <= size
    BY <1>1, <1>3, <2>5
  <2>7. pos + rs \in Nat /\ pos + rs < Word
    BY <1>1, <2>6
  <2>8. (pos + rs) % Word = pos + rs
    BY <1>1, <2>7
  <2> QED
    BY <2>5, <2>6, <2>8 DEF pos, size, rs
<1>4. CASE size = 0 /\ pos = Word - 1
  <2>1. ReadStops(f, n) = "limit"
    <3>1. ~(pos < B)
      BY <1>1, <1>4
    <3>2. ~(pos \div BLOCK_SIZE + 1 <= Total)
      BY <1>1, <3>1, DivBound, Consts DEF B
    <3>3. pos \div BLOCK_SIZE >= Total - 1
      <4>1. pos \div BLOCK_SIZE \in Nat
        BY <1>1, Div
      <4> QED
        BY <3>2, <4>1, Consts
    <3> QED
      BY <3>3 DEF ReadStops, pos
  <2> QED
    BY <2>1
<1> QED
  BY <1>1, <1>3, <1>4

LEMMA ReadStopsFor ==
    ASSUME BlocksInv, NEW f \in names, fd.file = f, NEW n \in Counts
    PROVE  ReadStops(f, n) \in {"none", "limit"}
<1> DEFINE first == fd.pos \div BLOCK_SIZE
           end == fd.pos + ReadSize(f, n)
           last == (end % Word) \div BLOCK_SIZE
<1>0. /\ fd.pos \in Nat /\ i_size[f] \in Nat /\ Direct \in Nat
      /\ sec[f][Direct] # 0 <=> Has(f) > Direct
  <2>1. /\ fd \in [file : names \cup {"none"}, pos : 0 .. (Word - 1)]
        /\ BlocksTypeOK /\ Shapes
    BY DEF BlocksInv, BlocksTypeOK
  <2>2. 0 \in Nat
    OBVIOUS
  <2>3. i_size[f] \in Nat /\ (sec[f][Direct] # 0 <=> Has(f) > Direct)
    BY <2>1, <2>2, Blocked
  <2> QED
    BY <2>1, <2>3, Consts
<1>1. ReadStops(f, n) = IF first >= Total - 1 \/ last >= Total - 1 THEN "limit"
                        ELSE IF first # last /\ last >= Direct /\ sec[f][Direct] = 0
                        THEN "assert" ELSE "none"
  BY DEF ReadStops
<1>2. CASE ReadSize(f, n) \in Nat /\ end <= i_size[f] /\ end % Word = end
  <2>1. end \in Nat /\ last = end \div BLOCK_SIZE
    BY <1>0, <1>2
  <2>2. last <= i_size[f] \div BLOCK_SIZE /\ last \in Nat /\ i_size[f] \div BLOCK_SIZE \in Nat
    <3> HIDE DEF end, last
    <3> QED BY <1>0, <1>2, <2>1, DivMono, Div
  <2>3. Has(f) = i_size[f] \div BLOCK_SIZE + 1
    BY DEF Has, UsedBlocks
  <2>4. last >= Direct => sec[f][Direct] # 0
    <3> HIDE DEF last
    <3> QED BY <1>0, <2>2, <2>3
  <2> HIDE DEF first, last
  <2> QED
    BY <1>1, <2>4
<1>3. CASE ReadStops(f, n) = "limit"
  BY <1>3
<1> QED
  BY <1>2, <1>3, ReadFits

LEMMA FileReadStep ==
    ASSUME BlocksInv, NEW f \in Files, NEW n \in Counts, FileRead(f, n)
    PROVE  BlocksInv'
<1>1. fd \in [file : names \cup {"none"}, pos : 0 .. (Word - 1)] /\ names \subseteq Names
      /\ i_size \in [Names \cup {"dir"} -> Nat]
  BY DEF BlocksInv, BlocksTypeOK
<1>2. f \in names /\ fd.file = f
  <2>1. f \in Names /\ f # "none"
    BY NamesApart
  <2>2. fd.file = f
    BY DEF FileRead
  <2> QED
    BY <1>1, <2>1, <2>2
<1>3. CASE ReadStops(f, n) # "none" /\ Stop(ReadStops(f, n))
  <2>1. ReadStops(f, n) = "limit"
    BY <1>2, <1>3, ReadStopsFor
  <2> QED
    BY <1>3, <2>1, StopStep
<1>4. CASE /\ ReadStops(f, n) = "none"
           /\ fd' = [fd EXCEPT !.pos = (@ + ReadSize(f, n)) % Word]
           /\ UNCHANGED <<used, disk, sec, i_size, names, panic, spilled>>
  <2>1. /\ ReadSize(f, n) \in Nat /\ fd.pos + ReadSize(f, n) <= i_size[f]
        /\ (fd.pos + ReadSize(f, n)) % Word = fd.pos + ReadSize(f, n)
    BY <1>2, <1>4, ReadFits
  <2>2. fd' = [fd EXCEPT !.pos = fd.pos + ReadSize(f, n)]
    BY <1>4, <2>1
  <2>3. fd.pos + ReadSize(f, n) \in 0 .. (Word - 1)
    <3>1. fd.pos \in Nat /\ Word \in Nat /\ Word > 0
      BY <1>1, Consts
    <3>2. fd.pos + ReadSize(f, n) \in Int
      BY <2>1, <3>1
    <3>3. (fd.pos + ReadSize(f, n)) % Word \in 0 .. (Word - 1)
      BY <3>1, <3>2
    <3> QED
      BY <2>1, <3>3
  <2>4. fd' \in [file : names \cup {"none"}, pos : 0 .. (Word - 1)]
    BY <1>1, <2>2, <2>3
  <2>5. fd'.pos = fd.pos + ReadSize(f, n) /\ fd'.file = f
    BY <1>1, <1>2, <2>2
  <2>6. PosFits'
    BY <1>4, <2>1, <2>5 DEF PosFits
  <2> QED
    BY <1>4, <2>4, <2>6, MoveStep
<1> QED
  BY <1>3, <1>4 DEF FileRead

LEMMA SeekOpenCloseStep ==
    ASSUME BlocksInv,
           \/ \E f \in Files : \E p \in Counts : SysLseek(f, p)
           \/ \E f \in Files : FileOpen(f)
           \/ FileClose
    PROVE  BlocksInv'
<1>0. /\ fd \in [file : names \cup {"none"}, pos : 0 .. (Word - 1)]
      /\ i_size \in [Names \cup {"dir"} -> Nat] /\ Word \in Nat /\ Word > 0 /\ names \subseteq Names
      /\ BlocksTypeOK /\ Shapes
  BY Consts DEF BlocksInv, BlocksTypeOK
<1>1. ASSUME NEW f \in Files, NEW p \in Counts, SysLseek(f, p) PROVE BlocksInv'
  <2>1. /\ fd.file = f /\ p <= i_size[f] - 1 /\ fd' = [fd EXCEPT !.pos = p]
        /\ UNCHANGED <<used, disk, sec, i_size, names, panic, spilled>>
    BY <1>1 DEF SysLseek
  <2>2. p \in Nat /\ p + BLOCK_SIZE * Total < Word /\ BLOCK_SIZE * Total \in Nat
    BY Consts
  <2>3. p \in 0 .. (Word - 1)
    <3> DEFINE B == BLOCK_SIZE * Total
    <3>1. p \in Nat /\ p + B < Word /\ B \in Nat
      BY <2>2
    <3> HIDE DEF B
    <3> QED
      BY <1>0, <3>1
  <2>4. fd' \in [file : names \cup {"none"}, pos : 0 .. (Word - 1)] /\ fd'.pos = p /\ fd'.file = f
    BY <1>0, <2>1, <2>3
  <2>5. i_size[f] \in Nat
    BY <1>0, NamesApart
  <2>6. p <= i_size[f]
    BY <2>1, <2>2, <2>5
  <2>7. PosFits'
    BY <2>1, <2>4, <2>6 DEF PosFits
  <2> QED
    BY <2>1, <2>4, <2>7, MoveStep
<1>2. ASSUME NEW f \in Files, FileOpen(f) PROVE BlocksInv'
  <2>1. /\ f \in names /\ fd' = [file |-> f, pos |-> 0]
        /\ UNCHANGED <<used, disk, sec, i_size, names, panic, spilled>>
    BY <1>2 DEF FileOpen
  <2>2. fd' \in [file : names \cup {"none"}, pos : 0 .. (Word - 1)] /\ fd'.pos = 0 /\ fd'.file = f
    BY <1>0, <2>1
  <2>3. i_size[f] \in Nat
    BY <1>0, <2>1
  <2>4. PosFits'
    BY <2>1, <2>2, <2>3 DEF PosFits
  <2> QED
    BY <2>1, <2>2, <2>4, MoveStep
<1>3. CASE FileClose
  <2>1. fd' = Closed /\ UNCHANGED <<used, disk, sec, i_size, names, panic, spilled>>
    BY <1>3 DEF FileClose
  <2>2. fd' \in [file : names \cup {"none"}, pos : 0 .. (Word - 1)] /\ fd'.file = "none"
    BY <1>0, <2>1 DEF Closed
  <2>3. PosFits'
    BY <2>2 DEF PosFits
  <2> QED
    BY <2>1, <2>2, <2>3, MoveStep
<1> QED
  BY <1>1, <1>2, <1>3

----------------------------------------------------------------------------
(* The entries of the directory when one is added or removed.              *)
LEMMA DirAdd ==
    ASSUME BlocksTypeOK, DirInv, NEW n \in Names, n \notin names, names' = names \cup {n},
           i_size'["dir"] = i_size["dir"] + 1,
           NEW k \in DirBlocks', NEW w \in Places, DirCell(k, w)' = Entry(n),
           \A i \in DirBlocks' : i # k =>
               i \in DirBlocks /\ \A u \in Places : DirCell(i, u)' = DirCell(i, u),
           \A u \in Places : u # w =>
               \/ DirCell(k, u)' = Zero
               \/ k \in DirBlocks /\ DirCell(k, u)' = DirCell(k, u),
           0 \in DirBlocks',
           \A u \in Places : DirCell(0, u) # Zero => DirCell(0, u)' = DirCell(0, u),
           ~spilled' =>
               /\ ~spilled
               /\ \A i \in DirBlocks : /\ i \in DirBlocks'
                                       /\ \A u \in Places :
                                            DirCell(i, u) # Zero => DirCell(i, u)' = DirCell(i, u)
    PROVE  DirInv'
<1>1. DirFirst /\ DirKnown /\ DirOnce /\ DirAll /\ DirKept /\ i_size["dir"] = 2 + Cardinality(names)
  BY DEF DirInv
<1>2. n # "." /\ n # ".."
  BY NamesApart
<1>3. DirFirst'
  BY <1>1, CellTags, UnitsHave DEF DirFirst
<1>4. ASSUME NEW i \in DirBlocks', NEW u \in Places
      PROVE  \/ DirCell(i, u)' = Zero
             \/ i = k /\ u = w /\ DirCell(i, u)' = Entry(n)
             \/ i \in DirBlocks /\ DirCell(i, u)' = DirCell(i, u) /\ DirCell(i, u)' # Entry(n)
  <2>1. CASE i = k /\ u = w
    BY <2>1
  <2>2. CASE ~(i = k /\ u = w)
    <3>1. \/ DirCell(i, u)' = Zero
          \/ i \in DirBlocks /\ DirCell(i, u)' = DirCell(i, u)
      BY <2>2
    <3>2. ASSUME i \in DirBlocks, DirCell(i, u) = Entry(n) PROVE FALSE
      <4>1. PICK m \in names \cup {".", ".."} : DirCell(i, u) = Entry(m)
        BY <1>1, <3>2, CellTags DEF DirKnown
      <4> QED
        BY <1>2, <3>2, <4>1, CellTags
    <3> QED
      BY <3>1, <3>2
  <2> QED
    BY <2>1, <2>2
<1>5. DirKnown'
  <2>1. ASSUME NEW i \in DirBlocks', NEW u \in Places, DirCell(i, u)' # Zero
        PROVE  \E m \in names' \cup {".", ".."} : DirCell(i, u)' = Entry(m)
    <3>1. CASE DirCell(i, u)' = Entry(n)
      BY <3>1
    <3>2. CASE i \in DirBlocks /\ DirCell(i, u)' = DirCell(i, u)
      <4>1. PICK m \in names \cup {".", ".."} : DirCell(i, u) = Entry(m)
        BY <1>1, <2>1, <3>2 DEF DirKnown
      <4> QED
        BY <3>2, <4>1
    <3> QED
      BY <1>4, <2>1, <3>1, <3>2
  <2> QED
    BY <2>1 DEF DirKnown
<1>6. DirOnce'
  <2>1. ASSUME NEW i \in DirBlocks', NEW j \in DirBlocks', NEW u \in Places, NEW v \in Places,
               DirCell(i, u)' # Zero, DirCell(i, u)' = DirCell(j, v)'
        PROVE  i = j /\ u = v
    <3>1. CASE DirCell(i, u)' = Entry(n)
      <4>1. Entry(n) # Zero
        BY CellTags
      <4>2. i = k /\ u = w
        BY <1>4, <3>1, <4>1
      <4>3. DirCell(j, v)' = Entry(n)
        BY <2>1, <3>1
      <4>4. j = k /\ v = w
        BY <1>4, <4>1, <4>3
      <4> QED
        BY <4>2, <4>4
    <3>2. CASE /\ i \in DirBlocks /\ DirCell(i, u)' = DirCell(i, u)
               /\ j \in DirBlocks /\ DirCell(j, v)' = DirCell(j, v)
      <4>1. DirCell(i, u) # Zero /\ DirCell(i, u) = DirCell(j, v)
        BY <2>1, <3>2
      <4> QED
        BY <1>1, <3>2, <4>1 DEF DirOnce
    <3> QED
      BY <1>4, <2>1, <3>1, <3>2
  <2> QED
    BY <2>1 DEF DirOnce
<1>7. DirAll'
  <2>1. ASSUME ~spilled', NEW m \in names'
        PROVE  \E i \in DirBlocks' : \E u \in Places : DirCell(i, u)' = Entry(m)
    <3>1. CASE m = n
      BY <3>1
    <3>2. CASE m # n
      <4>1. m \in names /\ ~spilled
        BY <2>1, <3>2
      <4>2. PICK i \in DirBlocks : \E u \in Places : DirCell(i, u) = Entry(m)
        BY <1>1, <4>1 DEF DirAll
      <4>3. PICK u \in Places : DirCell(i, u) = Entry(m)
        BY <4>2
      <4>4. DirCell(i, u) # Zero
        BY <4>3, CellTags
      <4>5. i \in DirBlocks' /\ DirCell(i, u)' = Entry(m)
        BY <2>1, <4>3, <4>4
      <4> QED
        BY <4>5
    <3> QED
      BY <3>1, <3>2
  <2> QED
    BY <2>1 DEF DirAll
<1>8. DirKept'
  <2>1. ASSUME NEW i \in DirBlocks', i # 0
        PROVE  \E u \in Places : \E m \in names' : DirCell(i, u)' = Entry(m)
    <3>1. CASE i = k
      BY <3>1
    <3>2. CASE i # k
      <4>1. i \in DirBlocks /\ \A u \in Places : DirCell(i, u)' = DirCell(i, u)
        BY <3>2
      <4>2. \E u \in Places : \E m \in names : DirCell(i, u) = Entry(m)
        BY <1>1, <2>1, <4>1 DEF DirKept
      <4> QED
        BY <4>1, <4>2
    <3> QED
      BY <3>1, <3>2
  <2> QED
    BY <2>1 DEF DirKept
<1>9. i_size'["dir"] = 2 + Cardinality(names')
  <2>1. IsFiniteSet(names)
    BY DEF BlocksTypeOK
  <2>2. Cardinality(names \cup {n}) = Cardinality(names) + 1 /\ Cardinality(names) \in Nat
    BY <2>1, FS_AddElement, FS_CardinalityType
  <2> QED
    BY <1>1, <2>2
<1> QED
  BY <1>3, <1>5, <1>6, <1>7, <1>8, <1>9 DEF DirInv

LEMMA DirDrop ==
    ASSUME BlocksTypeOK, DirInv, NEW n \in names, names' = names \ {n},
           i_size'["dir"] = i_size["dir"] - 1, spilled' = spilled,
           NEW k \in DirBlocks, NEW w \in Places, DirCell(k, w) = Entry(n),
           \A i \in DirBlocks' : i \in DirBlocks,
           \A i \in DirBlocks : i # k => i \in DirBlocks',
           k \in DirBlocks' <=> ~SoleEntry(At("dir", k), n),
           \A i \in DirBlocks' : \A u \in Places :
               DirCell(i, u)' = IF i = k /\ u = w THEN Zero ELSE DirCell(i, u)
    PROVE  DirInv'
<1>1. DirFirst /\ DirKnown /\ DirOnce /\ DirAll /\ DirKept /\ i_size["dir"] = 2 + Cardinality(names)
  BY DEF DirInv
<1>2. n # "." /\ n # ".." /\ n \in Names /\ "." \notin names /\ ".." \notin names
  BY NamesApart DEF BlocksTypeOK
<1>3. \A i \in DirBlocks, u \in Places : DirCell(i, u) = Entry(n) => i = k /\ u = w
  BY <1>1, CellTags DEF DirOnce
<1>4. \A u \in Places : DirCell(k, u) = Entry(".") => k = 0
  <2>1. 0 \in DirBlocks /\ 0 \in Places /\ DirCell(0, 0) = Entry(".")
    BY <1>1, UnitsHave DEF DirFirst
  <2> QED
    BY <1>1, <2>1, CellTags DEF DirOnce
<1>5. SoleEntry(At("dir", k), n) <=>
         /\ \A u \in Places : DirCell(k, u) # Entry(".")
         /\ \A u \in Places : DirCell(k, u) \in {Zero, Entry(n), Entry("..")}
  BY DEF SoleEntry, Holds, DirCell, Places
<1>6. DirFirst'
  <2>1. 0 \in DirBlocks /\ DirCell(0, 0) = Entry(".") /\ DirCell(0, 1) = Entry("..")
        /\ 0 \in Places /\ 1 \in Places
    BY <1>1, UnitsHave DEF DirFirst
  <2>2. 0 \in DirBlocks'
    BY <1>5, <2>1
  <2>3. DirCell(0, 0)' = DirCell(0, 0) /\ DirCell(0, 1)' = DirCell(0, 1)
    BY <1>2, <2>1, <2>2, CellTags
  <2> QED
    BY <2>1, <2>2, <2>3 DEF DirFirst
<1>7. DirKnown'
  <2>1. ASSUME NEW i \in DirBlocks', NEW u \in Places, DirCell(i, u)' # Zero
        PROVE  \E m \in names' \cup {".", ".."} : DirCell(i, u)' = Entry(m)
    <3>1. i \in DirBlocks /\ ~(i = k /\ u = w) /\ DirCell(i, u)' = DirCell(i, u)
      BY <2>1
    <3>2. PICK m \in names \cup {".", ".."} : DirCell(i, u) = Entry(m)
      BY <1>1, <2>1, <3>1 DEF DirKnown
    <3>3. m # n
      BY <1>3, <3>1, <3>2
    <3> QED
      BY <3>1, <3>2, <3>3
  <2> QED
    BY <2>1 DEF DirKnown
<1>8. DirOnce'
  <2>1. ASSUME NEW i \in DirBlocks', NEW j \in DirBlocks', NEW u \in Places, NEW v \in Places,
               DirCell(i, u)' # Zero, DirCell(i, u)' = DirCell(j, v)'
        PROVE  i = j /\ u = v
    <3>1. /\ i \in DirBlocks /\ DirCell(i, u)' = DirCell(i, u)
          /\ j \in DirBlocks /\ DirCell(j, v)' = DirCell(j, v)
      BY <2>1
    <3> QED
      BY <1>1, <2>1, <3>1 DEF DirOnce
  <2> QED
    BY <2>1 DEF DirOnce
<1>9. DirAll'
  <2>1. ASSUME ~spilled', NEW m \in names'
        PROVE  \E i \in DirBlocks' : \E u \in Places : DirCell(i, u)' = Entry(m)
    <3>1. m \in names /\ m # n /\ ~spilled
      BY <2>1
    <3>2. PICK i \in DirBlocks : \E u \in Places : DirCell(i, u) = Entry(m)
      BY <1>1, <3>1 DEF DirAll
    <3>3. PICK u \in Places : DirCell(i, u) = Entry(m)
      BY <3>2
    <3>4. i \in DirBlocks'
      <4>1. CASE i # k
        BY <4>1
      <4>2. CASE i = k
        <5>1. m # ".."
          BY <1>2, <3>1
        <5>2. DirCell(k, u) \notin {Zero, Entry(n), Entry("..")}
          BY <3>1, <3>3, <4>2, <5>1, CellTags
        <5> QED
          BY <1>5, <4>2, <5>2
      <4> QED
        BY <4>1, <4>2
    <3>5. ~(i = k /\ u = w)
      BY <3>1, <3>3, CellTags
    <3>6. DirCell(i, u)' = Entry(m)
      BY <3>3, <3>4, <3>5
    <3> QED
      BY <3>4, <3>6
  <2> QED
    BY <2>1 DEF DirAll
<1>10. DirKept'
  <2>1. ASSUME NEW i \in DirBlocks', i # 0
        PROVE  \E u \in Places : \E m \in names' : DirCell(i, u)' = Entry(m)
    <3>1. i \in DirBlocks
      OBVIOUS
    <3>2. CASE i # k
      <4>1. PICK u \in Places : \E m \in names : DirCell(i, u) = Entry(m)
        BY <1>1, <2>1, <3>1 DEF DirKept
      <4>2. PICK m \in names : DirCell(i, u) = Entry(m)
        BY <4>1
      <4>3. m # n
        BY <1>3, <3>1, <3>2, <4>2
      <4>4. DirCell(i, u)' = Entry(m) /\ m \in names'
        BY <3>2, <4>2, <4>3
      <4> QED
        BY <4>4
    <3>3. CASE i = k
      <4>1. ~SoleEntry(At("dir", k), n)
        BY <3>3
      <4>2. PICK u \in Places : DirCell(k, u) \notin {Zero, Entry(n), Entry("..")}
        BY <1>4, <1>5, <2>1, <3>3, <4>1
      <4>3. PICK m \in names \cup {".", ".."} : DirCell(k, u) = Entry(m)
        BY <1>1, <4>2 DEF DirKnown
      <4>4. m # n /\ m # ".." /\ m # "."
        BY <1>4, <2>1, <3>3, <4>2, <4>3
      <4>5. u # w
        BY <4>2
      <4>6. DirCell(i, u)' = Entry(m) /\ m \in names'
        BY <3>3, <4>3, <4>4, <4>5
      <4> QED
        BY <4>6
    <3> QED
      BY <3>2, <3>3
  <2> QED
    BY <2>1 DEF DirKept
<1>11. i_size'["dir"] = 2 + Cardinality(names')
  <2>1. IsFiniteSet(names)
    BY DEF BlocksTypeOK
  <2>2. Cardinality(names \ {n}) = Cardinality(names) - 1 /\ Cardinality(names) \in Nat
    BY <2>1, FS_RemoveElement, FS_CardinalityType
  <2> QED
    BY <1>1, <2>2
<1> QED
  BY <1>6, <1>7, <1>8, <1>9, <1>10, <1>11 DEF DirInv

----------------------------------------------------------------------------
(* file_create: what holds whatever block the entry goes to.               *)
LEMMA NoneFor ==
    ASSUME NEW o, sec'[o] = NoSectors
    PROVE  InodeBlocks(o)' = {} /\ \A i \in Index : At(o, i)' = 0
<1>1. \A i \in Index : At(o, i)' = 0
  BY NoSectorsAt DEF At
<1>2. sec'[o][Direct] = 0
  BY Consts DEF NoSectors
<1>3. InodeBlocks(o)' = {b \in {At(o, i)' : i \in Index} \cup {sec'[o][Direct]} : b # 0}
  BY DEF InodeBlocks, BlocksOf, At, Index
<1> QED
  BY <1>1, <1>2, <1>3

LEMMA UsedBlocksZero == UsedBlocks(0) = 1
<1>1. BLOCK_SIZE \in Nat /\ BLOCK_SIZE > 0
  BY Consts
<1>2. 0 = BLOCK_SIZE * 0 + 0 /\ 0 \in 0 .. (BLOCK_SIZE - 1)
  BY <1>1
<1>3. 0 \div BLOCK_SIZE = 0
  BY <1>2, DivOf
<1> QED
  BY <1>3 DEF UsedBlocks

(* A file that a step leaves alone keeps its shape and its bytes.          *)
LEMMA FileKept ==
    ASSUME BlocksInv, NEW f \in names, sec'[f] = sec[f], i_size'[f] = i_size[f],
           \A c \in InodeBlocks(f) : disk'[c] = disk[c]
    PROVE  /\ FileShape(f)'
           /\ f \in Files => \A x \in 0 .. (i_size'[f] - 1) :
                 /\ At(f, x \div BLOCK_SIZE)' # 0
                 /\ disk'[At(f, x \div BLOCK_SIZE)'][x % BLOCK_SIZE] = Byte(f, x)
<1>0. BlocksTypeOK /\ Shapes /\ Bytes /\ f \in Names
  BY DEF BlocksInv, BlocksTypeOK
<1>1. \A i \in Index : At(f, i)' = At(f, i)
  BY <1>0, Kept
<1>2. FileShape(f)'
  <2>1. FileShape(f)
    BY <1>0 DEF Shapes
  <2>2. UsedBlocks(i_size[f])' = UsedBlocks(i_size[f])
    BY DEF UsedBlocks
  <2> QED
    BY <1>1, <2>1, <2>2 DEF FileShape, At, Index, NoSectors
<1>3. ASSUME f \in Files, NEW x \in 0 .. (i_size'[f] - 1)
      PROVE  /\ At(f, x \div BLOCK_SIZE)' # 0
             /\ disk'[At(f, x \div BLOCK_SIZE)'][x % BLOCK_SIZE] = Byte(f, x)
  <2> DEFINE k == x \div BLOCK_SIZE
  <2>1. At(f, k) # 0 /\ disk[At(f, k)][x % BLOCK_SIZE] = Byte(f, x)
    BY <1>0, <1>3 DEF Bytes
  <2>2. k \in Index
    <3> DEFINE B == BLOCK_SIZE * Total
    <3>0. 0 \in Nat
      OBVIOUS
    <3>1. i_size[f] \in Nat /\ i_size[f] < B /\ B \in Nat
      BY <1>0, <3>0, Blocked, Consts
    <3> HIDE DEF B
    <3>2. x \in Nat /\ x < B
      BY <3>1
    <3> QED
      BY <3>2, Div, DivBound, Consts DEF Index, B
  <2> HIDE DEF k
  <2>3. At(f, k)' = At(f, k) /\ At(f, k) \in InodeBlocks(f)
    BY <1>1, <2>1, <2>2, InodeBlocksIs
  <2> QED
    BY <2>1, <2>3 DEF k
<1> QED
  BY <1>2, <1>3

LEMMA CreateFrame ==
    ASSUME BlocksInv, NEW n \in Names, n \notin names, panic = "none", panic' = "none",
           names' = names \cup {n}, fd' = [file |-> n, pos |-> 0],
           i_size' = [i_size EXCEPT !["dir"] = @ + 1, ![n] = 0],
           NEW F, F \cap used = {}, F \subseteq Lbas, used' = used \cup F,
           disk' \in [Lbas -> [Units -> Cells]],
           \A c \in Lbas : c \notin InodeBlocks("dir") \cup F => disk'[c] = disk[c],
           sec' \in [Names \cup {"dir"} -> [0 .. Direct -> Lbas \cup {0}]],
           sec'[n] = NoSectors, \A o \in names : sec'[o] = sec[o],
           InodeBlocks("dir")' \subseteq InodeBlocks("dir") \cup F,
           ~spilled' => ~spilled /\ InodeBlocks("dir") \cup F \subseteq InodeBlocks("dir")',
           spilled' \in BOOLEAN, Spills', DirInv',
           \A i, j \in Index : i # j /\ At("dir", i)' # 0 =>
               At("dir", i)' # At("dir", j)' /\ At("dir", i)' # sec'["dir"][Direct]
    PROVE  BlocksInv'
<1>0. /\ BlocksTypeOK /\ Shapes /\ Bytes /\ Distinct /\ OwnInv
  BY DEF BlocksInv, OwnInv
<1>1. n # "dir" /\ n # "none" /\ "dir" \in Owners /\ Owners \subseteq Names \cup {"dir"}
      /\ "dir" \notin names /\ "dir" \notin Names
  BY <1>0, NamesApart DEF Owners, BlocksTypeOK
<1>2. InodeBlocks(n)' = {} /\ \A i \in Index : At(n, i)' = 0
  BY NoneFor
<1>3. /\ i_size'[n] = 0 /\ \A o \in names : i_size'[o] = i_size[o]
      /\ i_size' \in [Names \cup {"dir"} -> Nat]
  <2>1. i_size \in [Names \cup {"dir"} -> Nat] /\ names \subseteq Names
    BY <1>0 DEF BlocksTypeOK
  <2> QED
    BY <1>1, <2>1
<1>4. BlocksTypeOK'
  <2>1. used' \subseteq Lbas
    BY <1>0 DEF BlocksTypeOK
  <2>2. names' \subseteq Names /\ IsFiniteSet(names')
    BY <1>0, FS_AddElement DEF BlocksTypeOK
  <2>3. fd' \in [file : names' \cup {"none"}, pos : 0 .. (Word - 1)]
    <3> DEFINE B == BLOCK_SIZE * Total
    <3>1. Word \in Nat /\ B \in Nat /\ B < Word
      BY Consts
    <3> HIDE DEF B
    <3>2. 0 \in 0 .. (Word - 1)
      BY <3>1
    <3> QED
      BY <3>2
  <2> QED
    BY <1>3, <2>1, <2>2, <2>3 DEF BlocksTypeOK
<1>5. /\ OwnInv'
      /\ \A o \in names : \A i \in Index : At(o, i)' = At(o, i)
      /\ \A o \in names : \A c \in InodeBlocks(o) : disk'[c] = disk[c]
  <2>1. \A m \in names' \ names : InodeBlocks(m)' = {}
    BY <1>2
  <2>2. \A o \in Owners : o # "dir" => sec'[o] = sec[o]
    BY DEF Owners
  <2>3. names' \subseteq Names /\ names \subseteq names'
    BY <1>0 DEF BlocksTypeOK
  <2>4. /\ OwnInv'
        /\ \A o \in Owners : o # "dir" => /\ InodeBlocks(o)' = InodeBlocks(o)
                                          /\ \A i \in Index : At(o, i)' = At(o, i)
                                          /\ \A c \in InodeBlocks(o) : disk'[c] = disk[c]
    BY <1>0, <1>1, <2>1, <2>2, <2>3, Grow
  <2> QED
    BY <1>1, <2>4 DEF Owners
<1>6. PosFits'
  <2>1. fd'.file = n /\ fd'.pos = 0
    OBVIOUS
  <2> QED
    BY <1>3, <2>1 DEF PosFits
<1>7. ASSUME NEW f \in names
      PROVE  /\ FileShape(f)'
             /\ f \in Files => \A x \in 0 .. (i_size'[f] - 1) :
                 /\ At(f, x \div BLOCK_SIZE)' # 0
                 /\ disk'[At(f, x \div BLOCK_SIZE)'][x % BLOCK_SIZE] = Byte(f, x)
  BY <1>3, <1>5, FileKept
<1>8. Shapes'
  <2>1. FileShape(n)'
    <3>1. UsedBlocks(i_size[n])' = 1
      <4>1. UsedBlocks(i_size[n])' = UsedBlocks(0)
        BY <1>3 DEF UsedBlocks
      <4> QED
        BY <4>1, UsedBlocksZero
    <3>2. sec'[n][0] = 0 /\ sec'[n] = NoSectors'
      BY Consts DEF NoSectors
    <3> QED
      BY <1>3, <3>1, <3>2, Consts DEF FileShape
  <2> QED
    BY <1>7, <2>1 DEF Shapes
<1>9. Bytes'
  <2>1. ASSUME NEW f \in names', f \in Files, NEW x \in 0 .. (i_size'[f] - 1)
        PROVE  /\ At(f, x \div BLOCK_SIZE)' # 0
               /\ disk'[At(f, x \div BLOCK_SIZE)'][x % BLOCK_SIZE] = Byte(f, x)
    <3>1. CASE f = n
      BY <1>3, <2>1, <3>1
    <3>2. CASE f # n
      BY <1>7, <2>1, <3>2
    <3> QED
      BY <3>1, <3>2
  <2> QED
    BY <2>1 DEF Bytes
<1>10. Distinct'
  <2>1. ASSUME NEW o \in Owners', NEW i \in Index, NEW j \in Index, i # j, At(o, i)' # 0
        PROVE  At(o, i)' \notin {At(o, j)', sec'[o][Direct]}
    <3>1. CASE o = "dir"
      BY <2>1, <3>1
    <3>2. CASE o = n
      BY <1>2, <2>1, <3>2
    <3>3. CASE o \in names
      <4>1. o \in Owners /\ At(o, i)' = At(o, i) /\ At(o, j)' = At(o, j) /\ sec'[o] = sec[o]
        BY <1>5, <3>3 DEF Owners
      <4> QED
        BY <1>0, <2>1, <4>1 DEF Distinct
    <3> QED
      BY <3>1, <3>2, <3>3 DEF Owners
  <2> QED
    BY <2>1 DEF Distinct, Index, Total
<1>11. OnlyLimitsStop'
  BY DEF OnlyLimitsStop
<1> QED
  BY <1>4, <1>5, <1>6, <1>8, <1>9, <1>10, <1>11 DEF BlocksInv, OwnInv

LEMMA EntryIndexIs ==
    ASSUME BlocksTypeOK, DirInv
    PROVE  /\ EntryIndex \in 0 .. Direct
           /\ EntryIndex < Direct => \/ Dir[EntryIndex] = 0 /\ EntryIndex # 0
                                     \/ /\ Dir[EntryIndex] # 0
                                        /\ LowestOf(FreeEntries(Dir[EntryIndex])) \in Places
                                        /\ disk[Dir[EntryIndex]][LowestOf(FreeEntries(Dir[EntryIndex]))]
                                             = Zero
<1> DEFINE S == {i \in 0 .. Direct : i = Direct \/ Dir[i] = 0 \/ FreeEntries(Dir[i]) # {}}
           b == Dir[EntryIndex]
<1>1. S \in SUBSET Nat /\ Direct \in S
  BY Consts
<1>2. EntryIndex \in S
  <2>1. EntryIndex = LowestOf(S)
    BY DEF EntryIndex
  <2> HIDE DEF S
  <2> QED
    BY <1>1, <2>1, LowestIs
<1>3. EntryIndex \in 0 .. Direct /\ (EntryIndex < Direct => b = 0 \/ FreeEntries(b) # {})
  <2>1. Direct \in Nat
    BY Consts
  <2> QED
    BY <1>2, <2>1
<1>4. Dir[0] # 0
  <2>1. 0 \in Index /\ At("dir", 0) = Dir[0]
    BY Consts DEF Index, At, BlockAt, Dir
  <2> QED
    BY <2>1 DEF DirInv, DirFirst, DirBlocks
<1>5. ASSUME FreeEntries(b) # {}
      PROVE  LowestOf(FreeEntries(b)) \in Places /\ disk[b][LowestOf(FreeEntries(b))] = Zero
  <2> HIDE DEF b
  <2>1. FreeEntries(b) \in SUBSET Nat
    BY Consts DEF FreeEntries
  <2>2. LowestOf(FreeEntries(b)) \in FreeEntries(b)
    BY <1>5, <2>1, LowestIs
  <2> QED
    BY <2>2 DEF FreeEntries, Places
<1> QED
  BY <1>3, <1>4, <1>5

(* The directory's blocks and where a direct one is.                       *)
LEMMA DirAt ==
    ASSUME BlocksInv
    PROVE  /\ Dir \in [0 .. Direct -> Lbas \cup {0}] /\ disk \in [Lbas -> [Units -> Cells]]
           /\ \A i \in 0 .. (Direct - 1) : i \in Index /\ At("dir", i) = Dir[i]
           /\ \A i \in Index : At("dir", i) \in Lbas \cup {0}
           /\ \A i \in Index : At("dir", i) # 0 => /\ At("dir", i) \in InodeBlocks("dir")
                                                   /\ At("dir", i) \in used
                                                   /\ At("dir", i) # Dir[Direct]
           /\ \A i, j \in Index : i # j /\ At("dir", i) # 0 => At("dir", i) # At("dir", j)
           /\ Dir[Direct] # 0 => Dir[Direct] \in used
           /\ InodeBlocks("dir") \subseteq used /\ InodeBlocks("dir") \subseteq Lbas
<1>1. BlocksTypeOK /\ Distinct /\ Marked /\ "dir" \in Owners /\ Dir = sec["dir"]
  BY DEF BlocksInv, Owners, Dir
<1>2. Dir \in [0 .. Direct -> Lbas \cup {0}] /\ disk \in [Lbas -> [Units -> Cells]]
  BY <1>1 DEF BlocksTypeOK
<1>3. \A i \in 0 .. (Direct - 1) : i \in Index /\ At("dir", i) = Dir[i]
  BY Consts DEF Index, At, BlockAt, Dir
<1>4. \A i \in Index : At("dir", i) \in Lbas \cup {0}
  BY <1>1, InodeBlocksType
<1>5. InodeBlocks("dir") \subseteq used /\ InodeBlocks("dir") \subseteq Lbas
  BY <1>1, InodeBlocksType DEF Marked
<1>6. \A i, j \in Index : i # j /\ At("dir", i) # 0 =>
          At("dir", i) # At("dir", j) /\ At("dir", i) # Dir[Direct]
  BY <1>1 DEF Distinct
<1>7. \A i \in Index : At("dir", i) # 0 => At("dir", i) # Dir[Direct]
  <2>1. ASSUME NEW i \in Index PROVE \E j \in Index : j # i
    <3>1. 0 \in Index /\ 1 \in Index
      BY Consts DEF Index
    <3> QED
      BY <3>1
  <2> QED
    BY <1>6, <2>1
<1>8. /\ \A i \in Index : At("dir", i) # 0 => At("dir", i) \in InodeBlocks("dir")
      /\ Dir[Direct] # 0 => Dir[Direct] \in InodeBlocks("dir")
  BY <1>1, InodeBlocksIs
<1> QED
  BY <1>2, <1>3, <1>4, <1>5, <1>6, <1>7, <1>8

(* The entry goes to a block with room.                                    *)
LEMMA CreateInRoom ==
    ASSUME BlocksInv, NEW n \in Names, n \notin names, panic = "none", panic' = "none",
           names' = names \cup {n}, fd' = [file |-> n, pos |-> 0],
           i_size' = [i_size EXCEPT !["dir"] = @ + 1, ![n] = 0],
           NEW k \in 0 .. (Direct - 1), Dir[k] # 0, NEW w \in Places, disk[Dir[k]][w] = Zero,
           disk' = [disk EXCEPT ![Dir[k]][w] = Entry(n)],
           sec' = [sec EXCEPT ![n] = NoSectors], UNCHANGED <<used, spilled>>
    PROVE  BlocksInv'
<1>0. BlocksTypeOK /\ DirInv /\ Spills /\ sec \in [Names \cup {"dir"} -> [0 .. Direct -> Lbas \cup {0}]]
      /\ spilled \in BOOLEAN /\ i_size \in [Names \cup {"dir"} -> Nat]
  BY DEF BlocksInv, BlocksTypeOK
<1>1. n # "dir" /\ "dir" \notin Names
  BY NamesApart
<1> DEFINE b == Dir[k]
<1>2. /\ b \in Lbas /\ k \in Index /\ At("dir", k) = b /\ b # Dir[Direct] /\ b \in InodeBlocks("dir")
      /\ disk \in [Lbas -> [Units -> Cells]] /\ w \in Units /\ Entry(n) \in Cells
  <2>1. At("dir", k) = b /\ k \in Index /\ b # 0
    BY DirAt
  <2> QED
    BY <2>1, DirAt, UnitsHave, CellTypes
<1> HIDE DEF b
<1>3. /\ disk' \in [Lbas -> [Units -> Cells]] /\ \A c \in Lbas : c # b => disk'[c] = disk[c]
      /\ \A u \in Units : disk'[b][u] = IF u = w THEN Entry(n) ELSE disk[b][u]
  <2>1. PICK row : row = [disk[b] EXCEPT ![w] = Entry(n)] /\ disk' = [disk EXCEPT ![b] = row]
    BY DEF b
  <2>2. row \in [Units -> Cells] /\ \A u \in Units : row[u] = IF u = w THEN Entry(n) ELSE disk[b][u]
    BY <1>2, <2>1
  <2>3. disk' \in [Lbas -> [Units -> Cells]] /\ disk'[b] = row
    <3>1. row \in [Units -> Cells] /\ disk' = [disk EXCEPT ![b] = row]
      BY <2>1, <2>2
    <3>2. b \in Lbas /\ disk \in [Lbas -> [Units -> Cells]]
      BY <1>2
    <3> QED
      BY <3>1, <3>2
  <2>4. \A c \in Lbas : c # b => disk'[c] = disk[c]
    BY <1>2, <2>1
  <2> QED
    BY <2>2, <2>3, <2>4
<1>4. /\ sec' \in [Names \cup {"dir"} -> [0 .. Direct -> Lbas \cup {0}]] /\ sec'[n] = NoSectors
      /\ sec'["dir"] = Dir /\ (\A o \in names : sec'[o] = sec[o])
  <2>1. NoSectors \in [0 .. Direct -> Lbas \cup {0}]
    BY DEF NoSectors
  <2> QED
    BY <1>0, <1>1, <2>1 DEF Dir, BlocksTypeOK
<1>5. \A i \in Index : At("dir", i)' = At("dir", i)
  <2>1. CASE Dir[Direct] = 0
    BY <1>4, <2>1 DEF At, BlockAt, Dir
  <2>2. CASE Dir[Direct] # 0
    <3>1. Dir[Direct] \in Lbas
      BY <2>2, DirAt, Consts
    <3>2. disk'[Dir[Direct]] = disk[Dir[Direct]]
      BY <1>2, <1>3, <3>1
    <3>3. sec'["dir"] = sec["dir"] /\ disk'[sec["dir"][Direct]] = disk[sec["dir"][Direct]]
      BY <1>4, <3>2 DEF Dir
    <3> QED
      BY <3>3 DEF At, BlockAt
  <2> QED
    BY <2>1, <2>2
<1>6. InodeBlocks("dir")' = InodeBlocks("dir")
  <2>1. {At("dir", i)' : i \in Index} = {At("dir", i) : i \in Index}
    BY <1>5
  <2>2. InodeBlocks("dir")' = {c \in {At("dir", i)' : i \in Index} \cup {sec'["dir"][Direct]} : c # 0}
    BY DEF InodeBlocks, BlocksOf, At, Index
  <2> QED
    BY <1>4, <2>1, <2>2, InodeBlocksIs DEF Dir
<1>7. DirBlocks' = DirBlocks /\ k \in DirBlocks
  BY <1>2, <1>5 DEF DirBlocks, b
<1>8. \A i \in DirBlocks : \A u \in Places :
          DirCell(i, u)' = IF i = k /\ u = w THEN Entry(n) ELSE DirCell(i, u)
  <2> SUFFICES ASSUME NEW i \in DirBlocks, NEW u \in Places
               PROVE  DirCell(i, u)' = IF i = k /\ u = w THEN Entry(n) ELSE DirCell(i, u)
    OBVIOUS
  <2>1. i \in Index /\ At("dir", i)' = At("dir", i) /\ At("dir", i) # 0 /\ u \in Units
    BY <1>5, UnitsHave DEF DirBlocks
  <2>2. CASE i = k
    BY <1>2, <1>3, <2>1, <2>2 DEF DirCell
  <2>3. CASE i # k
    <3>1. At("dir", i) # b /\ At("dir", i) \in Lbas
      BY <1>2, <2>1, <2>3, DirAt
    <3> QED
      BY <1>3, <2>1, <2>3, <3>1 DEF DirCell
  <2> QED
    BY <2>2, <2>3
<1>9. DirInv'
  <2>1. DirCell(k, w) = Zero
    BY <1>2 DEF DirCell, b
  <2>2. \A i \in DirBlocks : \A u \in Places : DirCell(i, u) # Zero => DirCell(i, u)' = DirCell(i, u)
    BY <1>8, <2>1
  <2>3. 0 \in DirBlocks
    BY <1>0 DEF DirInv, DirFirst
  <2>4. DirCell(k, w)' = Entry(n)
    BY <1>7, <1>8
  <2>5. i_size'["dir"] = i_size["dir"] + 1
    BY <1>0, <1>1
  <2> QED
    BY <1>0, <1>7, <1>8, <2>2, <2>3, <2>4, <2>5, DirAdd
<1>10. Spills'
  BY <1>0, <1>4 DEF Spills, Dir
<1>11. \A i, j \in Index : i # j /\ At("dir", i)' # 0 =>
          At("dir", i)' # At("dir", j)' /\ At("dir", i)' # sec'["dir"][Direct]
  <2> SUFFICES ASSUME NEW i \in Index, NEW j \in Index, i # j, At("dir", i)' # 0
               PROVE  At("dir", i)' # At("dir", j)' /\ At("dir", i)' # sec'["dir"][Direct]
    OBVIOUS
  <2>1. At("dir", i)' = At("dir", i) /\ At("dir", j)' = At("dir", j)
    BY <1>5
  <2>2. At("dir", i) # At("dir", j) /\ At("dir", i) # Dir[Direct]
    BY <2>1, DirAt
  <2> QED
    BY <1>4, <2>1, <2>2
<1> DEFINE F == {}
<1>12. /\ F \cap used = {} /\ F \subseteq Lbas /\ used' = used \cup F
       /\ \A c \in Lbas : c \notin InodeBlocks("dir") \cup F => disk'[c] = disk[c]
       /\ InodeBlocks("dir")' \subseteq InodeBlocks("dir") \cup F
       /\ ~spilled' => ~spilled /\ InodeBlocks("dir") \cup F \subseteq InodeBlocks("dir")'
       /\ spilled' \in BOOLEAN
  BY <1>0, <1>2, <1>3, <1>6
<1> HIDE DEF F
<1> QED
  BY <1>3, <1>4, <1>9, <1>10, <1>11, <1>12, CreateFrame

(* The entry of n is the first of the block c, which is one of the blocks  *)
(* F that the call allocates and becomes block k of the directory.         *)
InNew(n, F, c, k) ==
    /\ F \cap used = {} /\ F \subseteq Lbas /\ used' = used \cup F /\ c \in F
    /\ disk' \in [Lbas -> [Units -> Cells]]
    /\ \A u \in Units : disk'[c][u] = IF u = 0 THEN Entry(n) ELSE Zero
    /\ \A x \in Lbas : x \notin F => disk'[x] = disk[x]
    /\ sec' \in [Names \cup {"dir"} -> [0 .. Direct -> Lbas \cup {0}]]
    /\ sec'[n] = NoSectors /\ \A o \in names : sec'[o] = sec[o]
    /\ At("dir", k)' = c /\ At("dir", 0)' = At("dir", 0)
    /\ \A i \in Index : i # k /\ At("dir", i)' # 0 => At("dir", i)' = At("dir", i)
    /\ sec'["dir"][Direct] # c
    /\ sec'["dir"][Direct] = Dir[Direct] \/ sec'["dir"][Direct] \in F
    /\ spilled' \in BOOLEAN /\ Spills'
    /\ ~spilled' => /\ ~spilled /\ At("dir", k) = 0 /\ F = {c}
                    /\ sec'["dir"][Direct] = Dir[Direct]
                    /\ \A i \in Index : i # k => At("dir", i)' = At("dir", i)

LEMMA CreateInNew ==
    ASSUME BlocksInv, NEW n \in Names, n \notin names, panic = "none", panic' = "none",
           names' = names \cup {n}, fd' = [file |-> n, pos |-> 0],
           i_size' = [i_size EXCEPT !["dir"] = @ + 1, ![n] = 0],
           NEW F, NEW c, NEW k \in Index, k # 0, InNew(n, F, c, k)
    PROVE  BlocksInv'
<1> USE DEF InNew
<1>0. BlocksTypeOK /\ DirInv /\ i_size \in [Names \cup {"dir"} -> Nat]
  BY DEF BlocksInv, BlocksTypeOK
<1>1. n # "dir" /\ "dir" \notin Names /\ c \in Lbas /\ c # 0 /\ c \notin used
  <2>1. c \in Lbas /\ c \notin used
    OBVIOUS
  <2>2. c # 0
    BY <2>1, Consts DEF Lbas
  <2> QED
    BY <2>1, <2>2, NamesApart
<1>2. ASSUME NEW i \in Index, At("dir", i) # 0
      PROVE  /\ At("dir", i) \in InodeBlocks("dir") /\ At("dir", i) \in Lbas
             /\ At("dir", i) \notin F /\ disk'[At("dir", i)] = disk[At("dir", i)]
             /\ At("dir", i) # c /\ At("dir", i) # sec'["dir"][Direct]
  <2>1. /\ At("dir", i) \in InodeBlocks("dir") /\ At("dir", i) \in Lbas
        /\ At("dir", i) \in used /\ At("dir", i) # Dir[Direct]
    BY <1>2, DirAt
  <2>2. At("dir", i) \notin F
    BY <2>1
  <2> QED
    BY <2>1, <2>2
<1>3. \A i, j \in Index : i # j /\ At("dir", i)' # 0 =>
          At("dir", i)' # At("dir", j)' /\ At("dir", i)' # sec'["dir"][Direct]
  <2> SUFFICES ASSUME NEW i \in Index, NEW j \in Index, i # j, At("dir", i)' # 0
               PROVE  At("dir", i)' # At("dir", j)' /\ At("dir", i)' # sec'["dir"][Direct]
    OBVIOUS
  <2>1. CASE i = k
    <3>1. At("dir", j)' = 0 \/ At("dir", j)' = At("dir", j)
      BY <2>1
    <3>2. At("dir", j)' # c
      BY <1>1, <1>2, <3>1
    <3> QED
      BY <2>1, <3>2
  <2>2. CASE i # k
    <3>1. At("dir", i)' = At("dir", i) /\ At("dir", i) # 0
      BY <2>2
    <3>2. CASE j = k
      BY <1>2, <3>1, <3>2
    <3>3. CASE j # k
      <4>1. At("dir", j)' = 0 \/ At("dir", j)' = At("dir", j)
        BY <3>3
      <4>2. At("dir", i) # At("dir", j)
        BY <3>1, DirAt
      <4> QED
        BY <1>2, <3>1, <4>1, <4>2
    <3> QED
      BY <3>2, <3>3
  <2> QED
    BY <2>1, <2>2
<1>4. InodeBlocks("dir")' = {b \in {At("dir", i)' : i \in Index} \cup {sec'["dir"][Direct]} : b # 0}
  BY DEF InodeBlocks, BlocksOf, At, Index
<1>5. InodeBlocks("dir")' \subseteq InodeBlocks("dir") \cup F
  <2>1. ASSUME NEW i \in Index, At("dir", i)' # 0
        PROVE  At("dir", i)' \in InodeBlocks("dir") \cup F
    <3>1. CASE i = k
      BY <3>1
    <3>2. CASE i # k
      BY <1>2, <2>1, <3>2
    <3> QED
      BY <3>1, <3>2
  <2>2. sec'["dir"][Direct] # 0 => sec'["dir"][Direct] \in InodeBlocks("dir") \cup F
    BY DEF InodeBlocks, Dir
  <2> QED
    BY <1>4, <2>1, <2>2
<1>6. ASSUME ~spilled' PROVE InodeBlocks("dir") \cup F \subseteq InodeBlocks("dir")'
  <2>1. /\ At("dir", k) = 0 /\ F = {c} /\ sec'["dir"][Direct] = Dir[Direct]
        /\ \A i \in Index : i # k => At("dir", i)' = At("dir", i)
    BY <1>6
  <2>2. c \in InodeBlocks("dir")'
    BY <1>1, <1>4
  <2>3. ASSUME NEW i \in Index, At("dir", i) # 0 PROVE At("dir", i) \in InodeBlocks("dir")'
    <3>1. At("dir", i)' = At("dir", i)
      BY <2>1, <2>3
    <3> QED
      BY <1>4, <2>3, <3>1
  <2>4. Dir[Direct] # 0 => Dir[Direct] \in InodeBlocks("dir")'
    BY <1>4, <2>1
  <2>5. InodeBlocks("dir") = {b \in {At("dir", i) : i \in Index} \cup {Dir[Direct]} : b # 0}
    BY InodeBlocksIs DEF Dir
  <2> QED
    BY <2>1, <2>2, <2>3, <2>4, <2>5
<1>7. DirInv'
  <2>1. k \in DirBlocks' /\ 0 \in Places
    BY <1>1, UnitsHave DEF DirBlocks
  <2>2. \A u \in Places : DirCell(k, u)' = IF u = 0 THEN Entry(n) ELSE Zero
    <3>1. \A u \in Places : u \in Units
      BY UnitsHave
    <3> QED
      BY <3>1 DEF DirCell
  <2>3. ASSUME NEW i \in DirBlocks', i # k
        PROVE  i \in DirBlocks /\ \A u \in Places : DirCell(i, u)' = DirCell(i, u)
    <3>1. i \in Index /\ At("dir", i)' # 0
      BY DEF DirBlocks
    <3>2. At("dir", i)' = At("dir", i) /\ At("dir", i) # 0
      BY <2>3, <3>1
    <3>3. disk'[At("dir", i)] = disk[At("dir", i)]
      BY <1>2, <3>1, <3>2
    <3> QED
      BY <3>1, <3>2, <3>3 DEF DirBlocks, DirCell
  <2>4. 0 \in DirBlocks' /\ 0 \in DirBlocks
    <3>1. 0 \in Index /\ At("dir", 0) # 0
      BY <1>0 DEF DirInv, DirFirst, DirBlocks
    <3> QED
      BY <3>1 DEF DirBlocks
  <2>5. \A u \in Places : DirCell(0, u) # Zero => DirCell(0, u)' = DirCell(0, u)
    BY <2>3, <2>4
  <2>6. ASSUME ~spilled', NEW i \in DirBlocks
        PROVE  /\ i \in DirBlocks'
               /\ \A u \in Places : DirCell(i, u) # Zero => DirCell(i, u)' = DirCell(i, u)
    <3>1. i \in Index /\ At("dir", i) # 0
      BY DEF DirBlocks
    <3>2. i # k /\ At("dir", i)' = At("dir", i)
      BY <2>6, <3>1
    <3>3. i \in DirBlocks'
      BY <3>1, <3>2 DEF DirBlocks
    <3> QED
      BY <2>3, <3>2, <3>3
  <2>7. i_size'["dir"] = i_size["dir"] + 1
    BY <1>0, <1>1
  <2>8. DirCell(k, 0)' = Entry(n) /\ \A u \in Places : u # 0 => DirCell(k, u)' = Zero
    BY <2>1, <2>2
  <2> QED
    BY <1>0, <2>1, <2>3, <2>4, <2>5, <2>6, <2>7, <2>8, DirAdd
<1>8. \A x \in Lbas : x \notin InodeBlocks("dir") \cup F => disk'[x] = disk[x]
  OBVIOUS
<1>9. ~spilled' => ~spilled /\ InodeBlocks("dir") \cup F \subseteq InodeBlocks("dir")'
  BY <1>6
<1> QED
  BY <1>3, <1>5, <1>7, <1>8, <1>9, CreateFrame

LEMMA FreshType ==
    ASSUME NEW n \in Names
    PROVE  /\ [Blank EXCEPT ![0] = Entry(n)] \in [Units -> Cells]
           /\ \A b \in Lbas : /\ [Blank EXCEPT ![0] = Addr(b)] \in [Units -> Cells]
                              /\ \A u \in Units : AddrOf([Blank EXCEPT ![0] = Addr(b)][u])
                                                    = IF u = 0 THEN b ELSE 0
<1>1. Blank \in [Units -> Cells] /\ Entry(n) \in Cells /\ \A b \in Lbas : Addr(b) \in Cells
  BY CellTypes
<1>2. \A u \in Units : Blank[u] = Zero
  BY DEF Blank
<1> QED
  BY <1>1, <1>2, CellTags

LEMMA CreateDirect ==
    ASSUME BlocksInv, NEW n \in Names, n \notin names, panic = "none", panic' = "none",
           names' = names \cup {n}, fd' = [file |-> n, pos |-> 0],
           i_size' = [i_size EXCEPT !["dir"] = @ + 1, ![n] = 0],
           NEW k \in 0 .. (Direct - 1), Dir[k] = 0, k # 0, Grants(1),
           used' = used \cup {Alloc(1)},
           disk' = [disk EXCEPT ![Alloc(1)] = [Blank EXCEPT ![0] = Entry(n)]],
           sec' = [sec EXCEPT !["dir"][k] = Alloc(1), ![n] = NoSectors],
           UNCHANGED spilled
    PROVE  BlocksInv'
<1>p. PICK c : c = Alloc(1)
  OBVIOUS
<1> DEFINE F == {c}
<1>0. BlocksTypeOK /\ Spills /\ sec \in [Names \cup {"dir"} -> [0 .. Direct -> Lbas \cup {0}]]
      /\ spilled \in BOOLEAN /\ names \subseteq Names
  BY DEF BlocksInv, BlocksTypeOK
<1>1. /\ n # "dir" /\ "dir" \notin Names /\ c \in Lbas /\ c \notin used /\ c # 0
      /\ k \in Index /\ At("dir", k) = 0 /\ Direct \in Nat
      /\ disk \in [Lbas -> [Units -> Cells]]
  BY <1>p, NamesApart, DirAt, Consts DEF Grants
<1>2. /\ disk' \in [Lbas -> [Units -> Cells]]
      /\ \A u \in Units : disk'[c][u] = IF u = 0 THEN Entry(n) ELSE Zero
      /\ \A x \in Lbas : x \notin F => disk'[x] = disk[x]
  <2> DEFINE fresh == [Blank EXCEPT ![0] = Entry(n)]
  <2>1. fresh \in [Units -> Cells]
    BY FreshType
  <2> HIDE DEF fresh
  <2>2. disk' = [disk EXCEPT ![c] = fresh]
    BY <1>p DEF fresh
  <2>3. disk' \in [Lbas -> [Units -> Cells]] /\ disk'[c] = fresh
        /\ \A x \in Lbas : x \notin F => disk'[x] = disk[x]
    BY <1>1, <2>1, <2>2
  <2>4. \A u \in Units : fresh[u] = IF u = 0 THEN Entry(n) ELSE Zero
    BY DEF fresh, Blank
  <2> QED
    BY <2>3, <2>4
<1>3. /\ sec' \in [Names \cup {"dir"} -> [0 .. Direct -> Lbas \cup {0}]] /\ sec'[n] = NoSectors
      /\ \A o \in names : sec'[o] = sec[o]
      /\ \A i \in 0 .. Direct : sec'["dir"][i] = IF i = k THEN c ELSE Dir[i]
  <2>1. NoSectors \in [0 .. Direct -> Lbas \cup {0}]
    BY DEF NoSectors
  <2>2. [Dir EXCEPT ![k] = c] \in [0 .. Direct -> Lbas \cup {0}]
    BY <1>1, DirAt
  <2>3. sec' = [sec EXCEPT !["dir"] = [Dir EXCEPT ![k] = c], ![n] = NoSectors]
    BY <1>p DEF Dir
  <2>4. sec'["dir"] = [Dir EXCEPT ![k] = c] /\ sec'[n] = NoSectors
        /\ sec' \in [Names \cup {"dir"} -> [0 .. Direct -> Lbas \cup {0}]]
        /\ \A o \in names : sec'[o] = sec[o]
    <3> PICK D : D = [Dir EXCEPT ![k] = c]
      OBVIOUS
    <3>1. sec' = [o \in Names \cup {"dir"} |-> IF o = n THEN NoSectors
                                             ELSE IF o = "dir" THEN D ELSE sec[o]]
      BY <1>0, <1>1, <2>3
    <3>2. sec'["dir"] = D /\ sec'[n] = NoSectors /\ \A o \in names : sec'[o] = sec[o]
      BY <1>0, <1>1, <3>1 DEF BlocksTypeOK
    <3>3. sec' \in [Names \cup {"dir"} -> [0 .. Direct -> Lbas \cup {0}]]
      BY <1>0, <2>1, <2>2, <3>1
    <3> QED
      BY <3>2, <3>3
  <2> QED
    BY <2>4, DirAt
<1>4. sec'["dir"][Direct] = Dir[Direct] /\ Dir[Direct] # c
  <2>1. Direct \in 0 .. Direct /\ Direct # k
    BY <1>1
  <2>2. Dir[Direct] # c
    BY <1>1, DirAt
  <2> QED
    BY <1>3, <2>1, <2>2
<1>5. ASSUME NEW i \in Index
      PROVE  At("dir", i)' = IF i = k THEN c ELSE At("dir", i)
  <2>1. At("dir", i)' = BlockAt(sec'["dir"], disk', i) /\ At("dir", i) = BlockAt(Dir, disk, i)
    BY DEF At, Dir
  <2>2. CASE i < Direct
    <3>1. i \in 0 .. Direct /\ i < Direct
      BY <1>1, <2>2, Consts DEF Index
    <3> QED
      BY <1>3, <2>1, <3>1 DEF BlockAt
  <2>3. CASE ~(i < Direct)
    <3>1. i # k
      BY <1>1, <2>3
    <3>2. CASE Dir[Direct] = 0
      BY <1>4, <2>1, <2>3, <3>1, <3>2 DEF BlockAt
    <3>3. CASE Dir[Direct] # 0
      <4>1. Dir[Direct] \in Lbas /\ Dir[Direct] \notin F
        BY <1>1, <1>4, <3>3, DirAt
      <4>2. disk'[Dir[Direct]] = disk[Dir[Direct]]
        BY <1>2, <4>1
      <4> QED
        BY <1>4, <2>1, <2>3, <3>1, <4>2 DEF BlockAt
    <3> QED
      BY <3>2, <3>3
  <2> QED
    BY <2>2, <2>3
<1>6. Spills'
  BY <1>0, <1>4 DEF Spills, Dir
<1>7. /\ F \cap used = {} /\ F \subseteq Lbas /\ used' = used \cup F /\ c \in F
      /\ spilled' \in BOOLEAN /\ spilled' = spilled
  BY <1>0, <1>1, <1>p
<1>8. 0 \in Index
  BY Consts DEF Index
<1> HIDE DEF F
<1>9. ~spilled' => ~spilled /\ F = {c}
  BY <1>7 DEF F
<1>10. /\ At("dir", k)' = c /\ At("dir", 0)' = At("dir", 0)
       /\ \A i \in Index : i # k => At("dir", i)' = At("dir", i)
  BY <1>1, <1>5, <1>8
<1>11. \A i \in Index : i # k /\ At("dir", i)' # 0 => At("dir", i)' = At("dir", i)
  BY <1>10
<1>12. sec'["dir"][Direct] # c /\ (sec'["dir"][Direct] = Dir[Direct] \/ sec'["dir"][Direct] \in F)
  BY <1>4
<1>13. ~spilled' => /\ ~spilled /\ At("dir", k) = 0 /\ F = {c}
                    /\ sec'["dir"][Direct] = Dir[Direct]
                    /\ \A i \in Index : i # k => At("dir", i)' = At("dir", i)
  BY <1>1, <1>4, <1>9, <1>10
<1>14. InNew(n, F, c, k)
  BY <1>2, <1>3, <1>6, <1>7, <1>10, <1>11, <1>12, <1>13 DEF InNew
<1> QED
  BY <1>1, <1>14, CreateInNew

LEMMA CreateSpill ==
    ASSUME BlocksInv, NEW n \in Names, n \notin names, panic = "none", panic' = "none",
           names' = names \cup {n}, fd' = [file |-> n, pos |-> 0],
           i_size' = [i_size EXCEPT !["dir"] = @ + 1, ![n] = 0],
           Grants(2), used' = used \cup {Alloc(1), Alloc(2)},
           disk' = [disk EXCEPT ![Alloc(1)] = [Blank EXCEPT ![0] = Addr(Alloc(2))],
                                ![Alloc(2)] = [Blank EXCEPT ![0] = Entry(n)]],
           sec' = [sec EXCEPT !["dir"][Direct] = Alloc(1), ![n] = NoSectors],
           spilled' = TRUE
    PROVE  BlocksInv'
<1>p. PICK a, c : a = Alloc(1) /\ c = Alloc(2)
  OBVIOUS
<1> DEFINE F == {a, c}
           fresh == [Blank EXCEPT ![0] = Entry(n)]
           table == [Blank EXCEPT ![0] = Addr(c)]
<1>0. BlocksTypeOK /\ sec \in [Names \cup {"dir"} -> [0 .. Direct -> Lbas \cup {0}]]
      /\ names \subseteq Names
  BY DEF BlocksInv, BlocksTypeOK
<1>1. /\ n # "dir" /\ "dir" \notin Names /\ a \in Lbas /\ a \notin used /\ a # 0
      /\ c \in Lbas /\ c \notin used /\ c # 0 /\ a # c
      /\ disk \in [Lbas -> [Units -> Cells]]
  BY <1>p, NamesApart, DirAt DEF Grants
<1>2. Direct \in Index /\ 0 \in Index /\ Direct # 0 /\ Direct \in 0 .. Direct /\ Direct \in Nat
  BY Consts DEF Index
<1>3. /\ fresh \in [Units -> Cells] /\ table \in [Units -> Cells]
      /\ \A u \in Units : fresh[u] = IF u = 0 THEN Entry(n) ELSE Zero
      /\ \A u \in Units : AddrOf(table[u]) = IF u = 0 THEN c ELSE 0
  <2>1. \A u \in Units : fresh[u] = IF u = 0 THEN Entry(n) ELSE Zero
    BY DEF Blank
  <2> QED
    BY <1>1, <2>1, FreshType
<1>4. disk' = [disk EXCEPT ![a] = table, ![c] = fresh]
  BY <1>p
<1> HIDE DEF fresh, table
<1>5. /\ disk' \in [Lbas -> [Units -> Cells]] /\ disk'[a] = table
      /\ \A u \in Units : disk'[c][u] = IF u = 0 THEN Entry(n) ELSE Zero
      /\ \A x \in Lbas : x \notin F => disk'[x] = disk[x]
  BY <1>1, <1>3, <1>4
<1>6. /\ sec' \in [Names \cup {"dir"} -> [0 .. Direct -> Lbas \cup {0}]] /\ sec'[n] = NoSectors
      /\ \A o \in names : sec'[o] = sec[o]
      /\ \A i \in 0 .. Direct : sec'["dir"][i] = IF i = Direct THEN a ELSE Dir[i]
  <2>1. NoSectors \in [0 .. Direct -> Lbas \cup {0}]
    BY DEF NoSectors
  <2> DEFINE D == [Dir EXCEPT ![Direct] = a]
  <2>2. D \in [0 .. Direct -> Lbas \cup {0}]
    BY <1>1, DirAt
  <2>3. sec' = [sec EXCEPT !["dir"] = D, ![n] = NoSectors]
    BY <1>p DEF Dir
  <2> HIDE DEF D
  <2>4. sec'["dir"] = D /\ sec'[n] = NoSectors
        /\ sec' \in [Names \cup {"dir"} -> [0 .. Direct -> Lbas \cup {0}]]
        /\ \A o \in names : sec'[o] = sec[o]
    BY <1>0, <1>1, <2>1, <2>2, <2>3
  <2> QED
    BY <2>4, DirAt DEF D
<1>7. sec'["dir"][Direct] = a
  BY <1>2, <1>6
<1>8. ASSUME NEW i \in Index
      PROVE  At("dir", i)' = IF i < Direct THEN At("dir", i) ELSE IF i = Direct THEN c ELSE 0
  <2>1. At("dir", i)' = BlockAt(sec'["dir"], disk', i) /\ At("dir", i) = BlockAt(Dir, disk, i)
    BY DEF At, Dir
  <2>2. CASE i < Direct
    <3>1. i \in 0 .. Direct /\ i # Direct
      BY <1>2, <2>2, Consts DEF Index
    <3> QED
      BY <1>6, <2>1, <2>2, <3>1 DEF BlockAt
  <2>3. CASE ~(i < Direct)
    <3>1. i - Direct \in Units /\ (i - Direct = 0 <=> i = Direct)
      <4>1. i - Direct \in 0 .. (PerTable - 1) /\ (i - Direct = 0 <=> i = Direct)
        BY <2>3, Consts DEF Index
      <4> QED
        BY <4>1, UnitsHave
    <3>2. BlockAt(sec'["dir"], disk', i) = AddrOf(table[i - Direct])
      BY <1>1, <1>5, <1>7, <2>3 DEF BlockAt
    <3> QED
      BY <1>3, <2>1, <2>3, <3>1, <3>2
  <2> QED
    BY <2>2, <2>3
<1>9. /\ At("dir", Direct)' = c /\ At("dir", 0)' = At("dir", 0)
      /\ \A i \in Index : i # Direct /\ At("dir", i)' # 0 => At("dir", i)' = At("dir", i)
  <2>1. ~(Direct < Direct) /\ 0 < Direct
    BY Consts
  <2> QED
    BY <1>2, <1>8, <2>1
<1>10. Spills' /\ spilled' \in BOOLEAN /\ spilled'
  BY Zenon DEF Spills
<1>11. /\ F \cap used = {} /\ F \subseteq Lbas /\ used' = used \cup F /\ c \in F
       /\ sec'["dir"][Direct] # c /\ sec'["dir"][Direct] \in F
  BY <1>1, <1>7, <1>p
<1> HIDE DEF F
<1>12. InNew(n, F, c, Direct)
  BY <1>5, <1>6, <1>9, <1>10, <1>11 DEF InNew
<1> QED
  BY <1>2, <1>12, CreateInNew

LEMMA FileCreateStep ==
    ASSUME BlocksInv, NEW n \in Names, FileCreate(n)
    PROVE  BlocksInv'
<1> DEFINE i == EntryIndex
           need == IF i = Direct THEN 2 ELSE IF Dir[i] = 0 THEN 1 ELSE 0
<1>0. BlocksTypeOK /\ DirInv /\ Cardinality(Free) \in Nat
  BY FreeFinite DEF BlocksInv
<1>1. n \notin names /\ panic = "none"
  BY DEF FileCreate
<1>2. need \in {0, 1, 2}
  OBVIOUS
<1>3. \/ need > Cardinality(Free) /\ Stop("full")
      \/ /\ need <= Cardinality(Free) /\ SyncDirEntry(n) /\ names' = names \cup {n}
         /\ fd' = [file |-> n, pos |-> 0] /\ panic' = panic
  BY DEF FileCreate
<1>4. CASE need > Cardinality(Free) /\ Stop("full")
  <2> HIDE DEF need
  <2>1. Cardinality(Free) <= Total
    BY <1>0, <1>2, <1>4, Consts
  <2> QED
    BY <1>4, <2>1, StopStep
<1>5. CASE /\ need <= Cardinality(Free) /\ SyncDirEntry(n) /\ names' = names \cup {n}
           /\ fd' = [file |-> n, pos |-> 0] /\ panic' = panic
  <2>1. i \in 0 .. Direct /\ Direct \in Nat
    BY <1>0, EntryIndexIs, Consts
  <2>2. i_size' = [i_size EXCEPT !["dir"] = @ + 1, ![n] = 0] /\ panic' = "none"
    BY <1>1, <1>5 DEF SyncDirEntry
  <2>p. PICK k, w : k = EntryIndex /\ w = LowestOf(FreeEntries(Dir[EntryIndex]))
    OBVIOUS
  <2>3. CASE /\ i < Direct /\ Dir[i] # 0
             /\ disk' = [disk EXCEPT ![Dir[i]][LowestOf(FreeEntries(Dir[i]))] = Entry(n)]
             /\ sec' = [sec EXCEPT ![n] = NoSectors]
             /\ UNCHANGED <<used, spilled>>
    <3>1. k \in 0 .. (Direct - 1) /\ Dir[k] # 0 /\ w \in Places /\ disk[Dir[k]][w] = Zero
      BY <1>0, <2>1, <2>3, <2>p, EntryIndexIs
    <3>2. disk' = [disk EXCEPT ![Dir[k]][w] = Entry(n)]
      BY <2>3, <2>p
    <3> QED
      BY <1>1, <1>5, <2>2, <2>3, <3>1, <3>2, CreateInRoom
  <2>4. CASE /\ i < Direct /\ Dir[i] = 0
             /\ used' = used \cup {Alloc(1)}
             /\ disk' = [disk EXCEPT ![Alloc(1)] = [Blank EXCEPT ![0] = Entry(n)]]
             /\ sec' = [sec EXCEPT !["dir"][i] = Alloc(1), ![n] = NoSectors]
             /\ UNCHANGED spilled
    <3>1. k \in 0 .. (Direct - 1) /\ Dir[k] = 0 /\ k # 0
      BY <1>0, <2>1, <2>4, <2>p, EntryIndexIs
    <3>2. 1 <= Cardinality(Free)
      <4>1. need = 1
        BY <2>1, <2>4
      <4> QED
        BY <1>5, <4>1
    <3>3. Grants(1)
      BY <3>2, AllocGrants
    <3>4. sec' = [sec EXCEPT !["dir"][k] = Alloc(1), ![n] = NoSectors]
      BY <2>4, <2>p
    <3> QED
      BY <1>1, <1>5, <2>2, <2>4, <3>1, <3>3, <3>4, CreateDirect
  <2>5. CASE /\ i = Direct
             /\ used' = used \cup {Alloc(1), Alloc(2)}
             /\ disk' = [disk EXCEPT ![Alloc(1)] = [Blank EXCEPT ![0] = Addr(Alloc(2))],
                                     ![Alloc(2)] = [Blank EXCEPT ![0] = Entry(n)]]
             /\ sec' = [sec EXCEPT !["dir"][Direct] = Alloc(1), ![n] = NoSectors]
             /\ spilled' = TRUE
    <3>1. 2 <= Cardinality(Free)
      <4>1. need = 2
        BY <2>5
      <4> QED
        BY <1>5, <4>1
    <3>2. Grants(2)
      BY <3>1, AllocGrants
    <3> QED
      BY <1>1, <1>5, <2>2, <2>5, <3>2, CreateSpill
  <2> QED
    BY <1>5, <2>3, <2>4, <2>5 DEF SyncDirEntry
<1> QED
  BY <1>3, <1>4, <1>5

----------------------------------------------------------------------------
(* sys_unlink: the entry that delete_dir_entry finds is that of a file.    *)
LEMMA EntryFound ==
    ASSUME BlocksInv, NEW n \in Names, SearchDirEntry(n)
    PROVE  LET i == LowestOf({j \in 0 .. (Total - 1) :
                            BlockAt(Dir, disk, j) # 0 /\ Holds(BlockAt(Dir, disk, j), n)})
               b == BlockAt(Dir, disk, i)
               u == CHOOSE v \in 0 .. (PerSector - 1) : disk[b][v] = Entry(n)
           IN  /\ i \in DirBlocks /\ b = At("dir", i) /\ b # 0
               /\ u \in Places /\ disk[b][u] = Entry(n) /\ DirCell(i, u) = Entry(n)
               /\ n \in names
<1> DEFINE S == {j \in 0 .. (Total - 1) :
                    BlockAt(Dir, disk, j) # 0 /\ Holds(BlockAt(Dir, disk, j), n)}
           i == LowestOf(S)
           b == BlockAt(Dir, disk, i)
           u == CHOOSE v \in 0 .. (PerSector - 1) : disk[b][v] = Entry(n)
<1>1. S \in SUBSET Nat /\ S # {}
  BY Consts DEF SearchDirEntry, BlocksOf
<1>2. i \in S
  <2> HIDE DEF S
  <2> QED
    BY <1>1, LowestIs
<1>3. i \in Index /\ b # 0 /\ Holds(b, n) /\ b = At("dir", i)
  BY <1>2 DEF Index, At, Dir
<1> HIDE DEF i, b
<1>4. u \in Places /\ disk[b][u] = Entry(n)
  BY <1>3 DEF Holds, Places
<1> HIDE DEF u
<1>5. i \in DirBlocks /\ DirCell(i, u) = Entry(n)
  BY <1>3, <1>4 DEF DirBlocks, DirCell
<1>6. n \in names
  <2>1. PICK m \in names \cup {".", ".."} : DirCell(i, u) = Entry(m)
    BY <1>4, <1>5, CellTags DEF BlocksInv, DirInv, DirKnown
  <2>2. m = n /\ n # "." /\ n # ".."
    BY <1>5, <2>1, CellTags, NamesApart
  <2> QED
    BY <2>1, <2>2
<1> QED
  BY <1>3, <1>4, <1>5, <1>6 DEF u, b, i

(* What holds whether the block of the entry is given back or not.         *)
LEMMA UnlinkFrame ==
    ASSUME BlocksInv, NEW n \in names, fd.file # n, panic' = "none", fd' = fd,
           spilled' = spilled, names' = names \ {n},
           i_size' = [i_size EXCEPT !["dir"] = @ - 1, ![n] = 0],
           NEW G, G \subseteq InodeBlocks("dir"), used' = (used \ G) \ InodeBlocks(n),
           disk' \in [Lbas -> [Units -> Cells]],
           \A c \in Lbas : c \notin InodeBlocks("dir") \cup InodeBlocks(n) => disk'[c] = disk[c],
           sec' \in [Names \cup {"dir"} -> [0 .. Direct -> Lbas \cup {0}]],
           \A o \in names \ {n} : sec'[o] = sec[o],
           InodeBlocks("dir")' = InodeBlocks("dir") \ G, Spills', DirInv',
           \A i, j \in Index : i # j /\ At("dir", i)' # 0 =>
               At("dir", i)' # At("dir", j)' /\ At("dir", i)' # sec'["dir"][Direct]
    PROVE  BlocksInv'
<1>0. /\ BlocksTypeOK /\ PosFits /\ Shapes /\ Bytes /\ Distinct /\ Marked /\ Apart /\ NoneLost
      /\ DirInv
  BY DEF BlocksInv
<1>1. /\ n \in Owners /\ n # "dir" /\ "dir" \in Owners /\ Owners \subseteq Names \cup {"dir"}
      /\ names \subseteq Names /\ "dir" \notin names /\ "none" \notin names
      /\ Owners' = (names \ {n}) \cup {"dir"}
  BY <1>0, NamesApart DEF Owners, BlocksTypeOK
<1>2. i_size["dir"] - 1 \in Nat
  <2>1. Cardinality(names) \in Nat
    BY <1>0, FS_CardinalityType DEF BlocksTypeOK
  <2> QED
    BY <1>0, <2>1 DEF DirInv
<1>3. /\ \A o \in names \ {n} : i_size'[o] = i_size[o]
      /\ i_size' \in [Names \cup {"dir"} -> Nat]
  <2>1. i_size \in [Names \cup {"dir"} -> Nat]
    BY <1>0 DEF BlocksTypeOK
  <2> QED
    BY <1>1, <1>2, <2>1
<1>4. fd' \in [file : names' \cup {"none"}, pos : 0 .. (Word - 1)]
  BY <1>0 DEF BlocksTypeOK
<1>5. BlocksTypeOK'
  <2>1. used' \subseteq Lbas
    BY <1>0 DEF BlocksTypeOK
  <2>2. names' \subseteq Names /\ IsFiniteSet(names')
    BY <1>0, FS_RemoveElement DEF BlocksTypeOK
  <2>3. spilled' \in BOOLEAN
    BY <1>0, Zenon DEF BlocksTypeOK
  <2> QED
    BY <1>3, <1>4, <2>1, <2>2, <2>3 DEF BlocksTypeOK
<1>6. ASSUME NEW o \in names \ {n}
      PROVE  /\ InodeBlocks(o) \cap InodeBlocks("dir") = {} /\ InodeBlocks(o) \cap InodeBlocks(n) = {}
             /\ \A c \in InodeBlocks(o) : disk'[c] = disk[c]
             /\ \A i \in Index : At(o, i)' = At(o, i)
             /\ InodeBlocks(o)' = InodeBlocks(o) /\ InodeBlocks(o) \subseteq used
  <2>1. o \in Owners /\ o # "dir" /\ o # n /\ o \in Names \cup {"dir"}
    BY <1>1 DEF Owners
  <2>2. InodeBlocks(o) \cap InodeBlocks("dir") = {} /\ InodeBlocks(o) \cap InodeBlocks(n) = {}
        /\ InodeBlocks(o) \subseteq used
    BY <1>0, <1>1, <2>1 DEF Apart, Marked
  <2>3. InodeBlocks(o) \subseteq Lbas
    BY <1>0, <2>1, InodeBlocksType
  <2>4. \A c \in InodeBlocks(o) : disk'[c] = disk[c]
    BY <2>2, <2>3
  <2> QED
    BY <1>0, <2>1, <2>2, <2>4, Kept
<1>7. InodeBlocks("dir") \cap InodeBlocks(n) = {} /\ InodeBlocks("dir") \subseteq used
  BY <1>0, <1>1 DEF Apart, Marked
<1>8. Marked'
  <2>1. ASSUME NEW o \in Owners' PROVE InodeBlocks(o)' \subseteq used'
    <3>1. CASE o = "dir"
      BY <1>7, <3>1
    <3>2. CASE o \in names \ {n}
      BY <1>6, <3>2
    <3> QED
      BY <1>1, <3>1, <3>2
  <2> QED
    BY <2>1 DEF Marked
<1>9. Apart'
  <2>1. ASSUME NEW o \in Owners', NEW q \in Owners', o # q
        PROVE  InodeBlocks(o)' \cap InodeBlocks(q)' = {}
    <3>1. CASE o = "dir" /\ q \in names \ {n}
      BY <1>6, <3>1
    <3>2. CASE q = "dir" /\ o \in names \ {n}
      BY <1>6, <3>2
    <3>3. CASE o \in names \ {n} /\ q \in names \ {n}
      <4>1. o \in Owners /\ q \in Owners
        BY <3>3 DEF Owners
      <4>2. InodeBlocks(o) \cap InodeBlocks(q) = {}
        BY <1>0, <2>1, <4>1 DEF Apart
      <4> QED
        BY <1>6, <3>3, <4>2
    <3> QED
      BY <1>1, <2>1, <3>1, <3>2, <3>3
  <2> QED
    BY <2>1 DEF Apart
<1>10. NoneLost'
  <2>1. ASSUME ~spilled', NEW c \in used' \ Formatted
        PROVE  \E o \in Owners' : c \in InodeBlocks(o)'
    <3>1. c \in used \ Formatted /\ c \notin G /\ c \notin InodeBlocks(n)
      OBVIOUS
    <3>2. PICK o \in Owners : c \in InodeBlocks(o)
      BY <1>0, <2>1, <3>1 DEF NoneLost
    <3>3. CASE o = "dir"
      BY <1>1, <3>1, <3>2, <3>3
    <3>4. CASE o # "dir"
      <4>1. o \in names \ {n}
        BY <3>1, <3>2, <3>4 DEF Owners
      <4> QED
        BY <1>1, <1>6, <3>2, <4>1
    <3> QED
      BY <3>3, <3>4
  <2>2. ASSUME ~spilled' PROVE (used \ Formatted \subseteq UNION {InodeBlocks(o) : o \in Owners})'
    <3>1. \A c \in used' \ Formatted : c \in UNION {InodeBlocks(o)' : o \in Owners'}
      BY <2>1, <2>2
    <3> QED
      BY <3>1 DEF Formatted
  <2> QED
    BY <2>2 DEF NoneLost
<1>11. PosFits'
  <2>1. fd \in [file : names \cup {"none"}, pos : 0 .. (Word - 1)]
    BY <1>0 DEF BlocksTypeOK
  <2>2. fd.file # "none" => i_size'[fd.file] = i_size[fd.file]
    BY <1>3, <2>1
  <2> QED
    BY <1>0, <2>2 DEF PosFits
<1>12. ASSUME NEW f \in names \ {n}
       PROVE  /\ FileShape(f)'
              /\ f \in Files => \A x \in 0 .. (i_size'[f] - 1) :
                  /\ At(f, x \div BLOCK_SIZE)' # 0
                  /\ disk'[At(f, x \div BLOCK_SIZE)'][x % BLOCK_SIZE] = Byte(f, x)
  BY <1>3, <1>6, FileKept
<1>13. Shapes'
  BY <1>12 DEF Shapes
<1>14. Bytes'
  BY <1>12 DEF Bytes
<1>15. Distinct'
  <2>1. ASSUME NEW o \in Owners', NEW i \in Index, NEW j \in Index, i # j, At(o, i)' # 0
        PROVE  At(o, i)' \notin {At(o, j)', sec'[o][Direct]}
    <3>1. CASE o = "dir"
      BY <2>1, <3>1
    <3>2. CASE o \in names \ {n}
      <4>1. o \in Owners /\ At(o, i)' = At(o, i) /\ At(o, j)' = At(o, j) /\ sec'[o] = sec[o]
        BY <1>6, <3>2 DEF Owners
      <4> QED
        BY <1>0, <2>1, <4>1 DEF Distinct
    <3> QED
      BY <1>1, <3>1, <3>2
  <2> QED
    BY <2>1 DEF Distinct, Index, Total
<1>16. OnlyLimitsStop'
  BY DEF OnlyLimitsStop
<1> QED
  BY <1>5, <1>8, <1>9, <1>10, <1>11, <1>13, <1>14, <1>15, <1>16 DEF BlocksInv

(* The block b of the entry holds no other and is given back.              *)
LEMMA UnlinkSole ==
    ASSUME BlocksInv, NEW n \in names, fd.file # n, panic' = "none", fd' = fd,
           spilled' = spilled, names' = names \ {n},
           i_size' = [i_size EXCEPT !["dir"] = @ - 1, ![n] = 0],
           NEW k \in DirBlocks, k < Direct, NEW w \in Places, DirCell(k, w) = Entry(n),
           NEW b, b = At("dir", k), SoleEntry(b, n),
           used' = (used \ {b}) \ InodeBlocks(n),
           disk' = [c \in Lbas |-> IF c \in {b} \cup InodeBlocks(n) THEN Old ELSE disk[c]],
           sec' = [sec EXCEPT !["dir"][k] = 0, ![n] = NoSectors]
    PROVE  BlocksInv'
<1>0. /\ BlocksTypeOK /\ DirInv /\ Spills /\ Apart
      /\ sec \in [Names \cup {"dir"} -> [0 .. Direct -> Lbas \cup {0}]]
      /\ names \subseteq Names /\ i_size \in [Names \cup {"dir"} -> Nat]
  BY DEF BlocksInv, BlocksTypeOK
<1>1. /\ n # "dir" /\ "dir" \notin Names /\ "dir" \in Owners /\ n \in Owners
      /\ k \in Index /\ k \in 0 .. (Direct - 1) /\ Direct \in Nat /\ b # 0
  BY <1>0, NamesApart, Consts DEF DirBlocks, Index, Owners
<1>2. /\ b \in InodeBlocks("dir") /\ b \in Lbas /\ b # Dir[Direct]
      /\ disk \in [Lbas -> [Units -> Cells]] /\ InodeBlocks("dir") \subseteq Lbas
      /\ InodeBlocks("dir") \cap InodeBlocks(n) = {}
  BY <1>0, <1>1, DirAt DEF Apart
<1>3. /\ disk' \in [Lbas -> [Units -> Cells]]
      /\ \A c \in Lbas : c \notin InodeBlocks("dir") \cup InodeBlocks(n) => disk'[c] = disk[c]
      /\ \A c \in InodeBlocks("dir") : c # b => disk'[c] = disk[c]
  BY <1>2, CellTypes
<1>4. /\ sec' \in [Names \cup {"dir"} -> [0 .. Direct -> Lbas \cup {0}]]
      /\ \A o \in names \ {n} : sec'[o] = sec[o]
      /\ \A i \in 0 .. Direct : sec'["dir"][i] = IF i = k THEN 0 ELSE Dir[i]
  <2>1. NoSectors \in [0 .. Direct -> Lbas \cup {0}]
    BY DEF NoSectors
  <2> DEFINE D == [Dir EXCEPT ![k] = 0]
  <2>2. D \in [0 .. Direct -> Lbas \cup {0}]
    BY <1>1, DirAt
  <2>3. sec' = [sec EXCEPT !["dir"] = D, ![n] = NoSectors]
    BY DEF Dir
  <2> HIDE DEF D
  <2>4. sec'["dir"] = D
        /\ sec' \in [Names \cup {"dir"} -> [0 .. Direct -> Lbas \cup {0}]]
        /\ \A o \in names \ {n} : sec'[o] = sec[o]
    <3>1. sec' = [o \in Names \cup {"dir"} |-> IF o = n THEN NoSectors
                                             ELSE IF o = "dir" THEN D ELSE sec[o]]
      BY <1>0, <1>1, <2>3
    <3>2. sec'["dir"] = D /\ \A o \in names \ {n} : sec'[o] = sec[o]
      BY <1>0, <1>1, <3>1
    <3>3. sec' \in [Names \cup {"dir"} -> [0 .. Direct -> Lbas \cup {0}]]
      BY <1>0, <2>1, <2>2, <3>1
    <3> QED
      BY <3>2, <3>3
  <2> QED
    BY <2>4, DirAt DEF D
<1>5. sec'["dir"][Direct] = Dir[Direct]
  <2>1. Direct \in 0 .. Direct /\ Direct # k
    BY <1>1
  <2> QED
    BY <1>4, <2>1
<1>6. ASSUME NEW i \in Index
      PROVE  At("dir", i)' = IF i = k THEN 0 ELSE At("dir", i)
  <2>1. At("dir", i)' = BlockAt(sec'["dir"], disk', i) /\ At("dir", i) = BlockAt(Dir, disk, i)
    BY DEF At, Dir
  <2>2. CASE i < Direct
    <3>1. i \in 0 .. Direct
      BY <1>1, <2>2, Consts DEF Index
    <3> QED
      BY <1>4, <2>1, <2>2, <3>1 DEF BlockAt
  <2>3. CASE ~(i < Direct)
    <3>1. i # k
      BY <2>3
    <3>2. CASE Dir[Direct] = 0
      BY <1>5, <2>1, <2>3, <3>1, <3>2 DEF BlockAt
    <3>3. CASE Dir[Direct] # 0
      <4>1. Dir[Direct] \in InodeBlocks("dir")
        BY <3>3 DEF InodeBlocks, Dir
      <4>2. disk'[Dir[Direct]] = disk[Dir[Direct]]
        BY <1>2, <1>3, <4>1
      <4> QED
        BY <1>5, <2>1, <2>3, <3>1, <4>2 DEF BlockAt
    <3> QED
      BY <3>2, <3>3
  <2> QED
    BY <2>2, <2>3
<1>7. \A i, j \in Index : i # j /\ At("dir", i)' # 0 =>
          At("dir", i)' # At("dir", j)' /\ At("dir", i)' # sec'["dir"][Direct]
  <2> SUFFICES ASSUME NEW i \in Index, NEW j \in Index, i # j, At("dir", i)' # 0
               PROVE  At("dir", i)' # At("dir", j)' /\ At("dir", i)' # sec'["dir"][Direct]
    OBVIOUS
  <2>1. At("dir", i)' = At("dir", i) /\ At("dir", i) # 0
        /\ (At("dir", j)' = At("dir", j) \/ At("dir", j)' = 0)
    BY <1>6
  <2>2. At("dir", i) # At("dir", j) /\ At("dir", i) # Dir[Direct]
    BY <2>1, DirAt
  <2> QED
    BY <1>5, <2>1, <2>2
<1>8. InodeBlocks("dir")' = InodeBlocks("dir") \ {b}
  <2>1. InodeBlocks("dir")' = {c \in {At("dir", i)' : i \in Index} \cup {Dir[Direct]} : c # 0}
    BY <1>5 DEF InodeBlocks, BlocksOf, At, Index
  <2>2. InodeBlocks("dir") = {c \in {At("dir", i) : i \in Index} \cup {Dir[Direct]} : c # 0}
    BY InodeBlocksIs DEF Dir
  <2>3. ASSUME NEW c \in InodeBlocks("dir")' PROVE c \in InodeBlocks("dir") \ {b}
    <3>1. CASE c = Dir[Direct]
      BY <1>2, <2>1, <2>2, <2>3, <3>1
    <3>2. CASE c # Dir[Direct]
      <4>1. PICK i \in Index : c = At("dir", i)' /\ c # 0
        BY <2>1, <2>3, <3>2
      <4>2. i # k /\ c = At("dir", i)
        BY <1>6, <4>1
      <4>3. c # b
        BY <1>1, <4>1, <4>2, DirAt
      <4> QED
        BY <2>2, <4>1, <4>2, <4>3
    <3> QED
      BY <3>1, <3>2
  <2>4. ASSUME NEW c \in InodeBlocks("dir"), c # b PROVE c \in InodeBlocks("dir")'
    <3>1. CASE c = Dir[Direct]
      BY <2>1, <2>2, <2>4, <3>1
    <3>2. CASE c # Dir[Direct]
      <4>1. PICK i \in Index : c = At("dir", i) /\ c # 0
        BY <2>2, <2>4, <3>2
      <4>2. c = At("dir", i)'
        BY <1>6, <2>4, <4>1
      <4> QED
        BY <2>1, <4>1, <4>2
    <3> QED
      BY <3>1, <3>2
  <2> QED
    BY <2>3, <2>4
<1>9. DirInv'
  <2>1. DirBlocks' = DirBlocks \ {k}
    BY <1>6 DEF DirBlocks
  <2>2. ASSUME NEW i \in DirBlocks', NEW u \in Places
        PROVE  DirCell(i, u)' = IF i = k /\ u = w THEN Zero ELSE DirCell(i, u)
    <3>1. i \in Index /\ i # k /\ At("dir", i) # 0
      BY <2>1 DEF DirBlocks
    <3>2. At("dir", i) # b /\ At("dir", i) \in InodeBlocks("dir")
      BY <1>1, <3>1, DirAt
    <3>3. disk'[At("dir", i)] = disk[At("dir", i)] /\ At("dir", i)' = At("dir", i)
      BY <1>3, <1>6, <3>1, <3>2
    <3> QED
      BY <3>1, <3>3 DEF DirCell
  <2>3. k \in DirBlocks' <=> ~SoleEntry(At("dir", k), n)
    BY <2>1
  <2>4. i_size'["dir"] = i_size["dir"] - 1
    BY <1>0, <1>1
  <2> QED
    BY <1>0, <2>1, <2>2, <2>3, <2>4, DirDrop
<1>10. Spills'
  BY <1>0, <1>5 DEF Spills, Dir
<1>11. {b} \subseteq InodeBlocks("dir")
  BY <1>2
<1> QED
  BY <1>3, <1>4, <1>7, <1>8, <1>9, <1>10, <1>11, UnlinkFrame

(* The block b of the entry holds others too and stays.                    *)
Zeroed(n, b, w) ==
    disk' = [c \in Lbas |-> IF c \in InodeBlocks(n) THEN Old
                            ELSE IF c = b THEN [disk[b] EXCEPT ![w] = Zero] ELSE disk[c]]

LEMMA UnlinkShared ==
    ASSUME BlocksInv, NEW n \in names, fd.file # n, panic' = "none", fd' = fd,
           spilled' = spilled, names' = names \ {n},
           i_size' = [i_size EXCEPT !["dir"] = @ - 1, ![n] = 0],
           NEW k \in DirBlocks, NEW w \in Places, DirCell(k, w) = Entry(n),
           NEW b, b = At("dir", k), ~SoleEntry(b, n),
           used' = used \ InodeBlocks(n),
           Zeroed(n, b, w),
           sec' = [sec EXCEPT ![n] = NoSectors]
    PROVE  BlocksInv'
<1>0. /\ BlocksTypeOK /\ DirInv /\ Spills /\ Apart
      /\ sec \in [Names \cup {"dir"} -> [0 .. Direct -> Lbas \cup {0}]]
      /\ names \subseteq Names /\ i_size \in [Names \cup {"dir"} -> Nat]
  BY DEF BlocksInv, BlocksTypeOK
<1>1. /\ n # "dir" /\ "dir" \notin Names /\ "dir" \in Owners /\ n \in Owners
      /\ k \in Index /\ b # 0 /\ Zero \in Cells /\ Old \in [Units -> Cells] /\ w \in Units
  BY <1>0, NamesApart, CellTypes, UnitsHave DEF DirBlocks, Owners
<1>2. /\ b \in InodeBlocks("dir") /\ b \in Lbas /\ b # Dir[Direct]
      /\ disk \in [Lbas -> [Units -> Cells]] /\ InodeBlocks("dir") \subseteq Lbas
      /\ InodeBlocks("dir") \cap InodeBlocks(n) = {}
  BY <1>0, <1>1, DirAt DEF Apart
<1>3. /\ disk' \in [Lbas -> [Units -> Cells]]
      /\ \A c \in Lbas : c \notin InodeBlocks("dir") \cup InodeBlocks(n) => disk'[c] = disk[c]
      /\ \A c \in InodeBlocks("dir") : c # b => disk'[c] = disk[c]
      /\ \A u \in Units : disk'[b][u] = IF u = w THEN Zero ELSE disk[b][u]
  <2> DEFINE e == [disk[b] EXCEPT ![w] = Zero]
  <2>1. e \in [Units -> Cells] /\ \A u \in Units : e[u] = IF u = w THEN Zero ELSE disk[b][u]
    BY <1>1, <1>2
  <2>2. disk' = [c \in Lbas |-> IF c \in InodeBlocks(n) THEN Old
                                ELSE IF c = b THEN e ELSE disk[c]]
    BY DEF Zeroed
  <2> HIDE DEF e
  <2>3. b \notin InodeBlocks(n)
    BY <1>2
  <2>4. disk'[b] = e
    BY <1>2, <2>2, <2>3
  <2> QED
    BY <1>1, <1>2, <2>1, <2>2, <2>4
<1>4. /\ sec' \in [Names \cup {"dir"} -> [0 .. Direct -> Lbas \cup {0}]]
      /\ (\A o \in names \ {n} : sec'[o] = sec[o]) /\ sec'["dir"] = sec["dir"]
  <2>1. NoSectors \in [0 .. Direct -> Lbas \cup {0}]
    BY DEF NoSectors
  <2> QED
    BY <1>0, <1>1, <2>1
<1>5. \A i \in Index : At("dir", i)' = At("dir", i)
  <2> SUFFICES ASSUME NEW i \in Index PROVE At("dir", i)' = At("dir", i)
    OBVIOUS
  <2>1. CASE sec["dir"][Direct] = 0
    BY <1>4, <2>1 DEF At, BlockAt
  <2>2. CASE sec["dir"][Direct] # 0
    <3>1. sec["dir"][Direct] \in InodeBlocks("dir") /\ sec["dir"][Direct] # b
      BY <1>2, <2>2 DEF InodeBlocks, Dir
    <3>2. disk'[sec["dir"][Direct]] = disk[sec["dir"][Direct]] /\ sec'["dir"] = sec["dir"]
      BY <1>3, <1>4, <3>1
    <3> QED
      BY ONLY <3>2 DEF At, BlockAt
  <2> QED
    BY <2>1, <2>2
<1>6. \A i, j \in Index : i # j /\ At("dir", i)' # 0 =>
          At("dir", i)' # At("dir", j)' /\ At("dir", i)' # sec'["dir"][Direct]
  <2> SUFFICES ASSUME NEW i \in Index, NEW j \in Index, i # j, At("dir", i)' # 0
               PROVE  At("dir", i)' # At("dir", j)' /\ At("dir", i)' # sec'["dir"][Direct]
    OBVIOUS
  <2>1. At("dir", i)' = At("dir", i) /\ At("dir", j)' = At("dir", j)
    BY <1>5
  <2>2. At("dir", i) # At("dir", j) /\ At("dir", i) # sec["dir"][Direct]
    BY <2>1, DirAt DEF Dir
  <2> QED
    BY <1>4, <2>1, <2>2
<1> DEFINE G == {}
<1>7. InodeBlocks("dir")' = InodeBlocks("dir") \ G
  <2>1. {At("dir", i)' : i \in Index} = {At("dir", i) : i \in Index}
    BY <1>5
  <2>2. InodeBlocks("dir")' = {c \in {At("dir", i)' : i \in Index} \cup {sec'["dir"][Direct]} : c # 0}
    BY DEF InodeBlocks, BlocksOf, At, Index
  <2> QED
    BY <1>4, <2>1, <2>2, InodeBlocksIs
<1>8. DirInv'
  <2>1. DirBlocks' = DirBlocks
    BY <1>5 DEF DirBlocks
  <2>2. ASSUME NEW i \in DirBlocks', NEW u \in Places
        PROVE  DirCell(i, u)' = IF i = k /\ u = w THEN Zero ELSE DirCell(i, u)
    <3>1. i \in Index /\ At("dir", i) # 0 /\ At("dir", i)' = At("dir", i) /\ u \in Units
      BY <1>5, <2>1, UnitsHave DEF DirBlocks
    <3>2. CASE i = k
      BY <1>3, <3>1, <3>2 DEF DirCell
    <3>3. CASE i # k
      <4>1. At("dir", i) # b /\ At("dir", i) \in InodeBlocks("dir")
        BY <1>1, <3>1, <3>3, DirAt
      <4>2. disk'[At("dir", i)] = disk[At("dir", i)]
        BY <1>3, <4>1
      <4> QED
        BY ONLY <3>1, <3>3, <4>2 DEF DirCell
    <3> QED
      BY <3>2, <3>3
  <2>3. k \in DirBlocks' <=> ~SoleEntry(At("dir", k), n)
    BY <2>1
  <2>4. i_size'["dir"] = i_size["dir"] - 1
    BY <1>0, <1>1
  <2> QED
    BY <1>0, <2>1, <2>2, <2>3, <2>4, DirDrop
<1>9. Spills'
  BY <1>0, <1>4 DEF Spills, Dir
<1>10. G \subseteq InodeBlocks("dir") /\ used' = (used \ G) \ InodeBlocks(n)
  OBVIOUS
<1> HIDE DEF G
<1> QED
  BY <1>3, <1>4, <1>6, <1>7, <1>8, <1>9, <1>10, UnlinkFrame

LEMMA SysUnlinkStep ==
    ASSUME BlocksInv, NEW n \in Names, SysUnlink(n)
    PROVE  BlocksInv'
<1>0. panic = "none" /\ fd.file # n /\ SearchDirEntry(n)
  BY DEF SysUnlink
<1>p. PICK k, b, w :
        /\ k = LowestOf({j \in 0 .. (Total - 1) :
                            BlockAt(Dir, disk, j) # 0 /\ Holds(BlockAt(Dir, disk, j), n)})
        /\ b = BlockAt(Dir, disk, k)
        /\ w = CHOOSE v \in 0 .. (PerSector - 1) : disk[b][v] = Entry(n)
  OBVIOUS
<1>1. /\ k \in DirBlocks /\ b = At("dir", k) /\ b # 0 /\ w \in Places /\ DirCell(k, w) = Entry(n)
      /\ n \in names
  BY <1>0, <1>p, EntryFound
<1>2. \/ SoleEntry(b, n) /\ k >= Direct /\ Stop("loop")
      \/ /\ SoleEntry(b, n) /\ k < Direct
         /\ used' = (used \ {b}) \ InodeBlocks(n)
         /\ disk' = [c \in Lbas |-> IF c \in {b} \cup InodeBlocks(n) THEN Old ELSE disk[c]]
         /\ sec' = [sec EXCEPT !["dir"][k] = 0, ![n] = NoSectors]
         /\ panic' = panic
      \/ /\ ~SoleEntry(b, n)
         /\ used' = used \ InodeBlocks(n)
         /\ disk' = [c \in Lbas |-> IF c \in InodeBlocks(n) THEN Old
                                    ELSE IF c = b THEN [disk[b] EXCEPT ![w] = Zero]
                                    ELSE disk[c]]
         /\ sec' = [sec EXCEPT ![n] = NoSectors]
         /\ panic' = panic
  <2> DEFINE i == LowestOf({j \in 0 .. (Total - 1) :
                            BlockAt(Dir, disk, j) # 0 /\ Holds(BlockAt(Dir, disk, j), n)})
             c0 == BlockAt(Dir, disk, i)
             u == CHOOSE v \in 0 .. (PerSector - 1) : disk[c0][v] = Entry(n)
  <2>1. k = i /\ b = c0 /\ w = u
    BY <1>p
  <2>2. \/ SoleEntry(c0, n) /\ i >= Direct /\ Stop("loop")
        \/ /\ SoleEntry(c0, n) /\ i < Direct
           /\ used' = (used \ {c0}) \ InodeBlocks(n)
           /\ disk' = [c \in Lbas |-> IF c \in {c0} \cup InodeBlocks(n) THEN Old ELSE disk[c]]
           /\ sec' = [sec EXCEPT !["dir"][i] = 0, ![n] = NoSectors]
           /\ panic' = panic
        \/ /\ ~SoleEntry(c0, n)
           /\ used' = used \ InodeBlocks(n)
           /\ disk' = [c \in Lbas |-> IF c \in InodeBlocks(n) THEN Old
                                      ELSE IF c = c0 THEN [disk[c0] EXCEPT ![u] = Zero]
                                      ELSE disk[c]]
           /\ sec' = [sec EXCEPT ![n] = NoSectors]
           /\ panic' = panic
    BY Zenon DEF SysUnlink, Released
  <2> HIDE DEF i, c0, u
  <2> QED
    BY <2>1, <2>2, Zenon
<1>3. CASE Stop("loop") /\ k >= Direct
  <2>1. Dir[Direct] # 0
    <3>1. k \in Int /\ ~(k < Direct) /\ b = BlockAt(Dir, disk, k)
      BY <1>1, <1>3, <1>p, Consts DEF DirBlocks, Index
    <3> QED
      BY <1>1, <3>1 DEF BlockAt
  <2>2. spilled
    BY <2>1 DEF BlocksInv, Spills
  <2> QED
    BY <1>3, <2>2, StopStep
<1>4. ASSUME panic' = panic
      PROVE  /\ panic' = "none" /\ fd' = fd /\ spilled' = spilled /\ names' = names \ {n}
             /\ i_size' = [i_size EXCEPT !["dir"] = @ - 1, ![n] = 0]
  BY <1>0, <1>4 DEF SysUnlink
<1>5. CASE /\ SoleEntry(b, n) /\ k < Direct
           /\ used' = (used \ {b}) \ InodeBlocks(n)
           /\ disk' = [c \in Lbas |-> IF c \in {b} \cup InodeBlocks(n) THEN Old ELSE disk[c]]
           /\ sec' = [sec EXCEPT !["dir"][k] = 0, ![n] = NoSectors]
           /\ panic' = panic
  BY <1>0, <1>1, <1>4, <1>5, UnlinkSole
<1>6. CASE /\ ~SoleEntry(b, n)
           /\ used' = used \ InodeBlocks(n)
           /\ disk' = [c \in Lbas |-> IF c \in InodeBlocks(n) THEN Old
                                      ELSE IF c = b THEN [disk[b] EXCEPT ![w] = Zero]
                                      ELSE disk[c]]
           /\ sec' = [sec EXCEPT ![n] = NoSectors]
           /\ panic' = panic
  <2>1. Zeroed(n, b, w)
    BY <1>6 DEF Zeroed
  <2>2. ~SoleEntry(b, n) /\ used' = used \ InodeBlocks(n) /\ sec' = [sec EXCEPT ![n] = NoSectors]
    BY <1>6
  <2>3. /\ panic' = "none" /\ fd' = fd /\ spilled' = spilled /\ names' = names \ {n}
        /\ i_size' = [i_size EXCEPT !["dir"] = @ - 1, ![n] = 0] /\ fd.file # n /\ BlocksInv
    BY <1>0, <1>4, <1>6
  <2> QED
    BY <1>1, <2>1, <2>2, <2>3, UnlinkShared
<1> QED
  BY <1>2, <1>3, <1>5, <1>6

----------------------------------------------------------------------------
(* partition_format leaves the root directory's bit marked, and every bit  *)
(* it marks is one of the bitmap's.                                        *)
LEMMA FormattedIs == 1 \in Formatted /\ Formatted \subseteq Lbas /\ 1 \in Lbas
<1> DEFINE q == BitLen \div ByteBits
           r == BitLen % ByteBits
           lastByte == ByteBits * q
           cleared == {lastByte + i : i \in 0 .. r}
<1>1. /\ BitLen \in Nat /\ ByteBits \in Nat /\ ByteBits > 0 /\ ByteBits <= BitLen
      /\ SectorBits \in Nat /\ SectorBits > 0
  <2>1. \A c \in {BLOCK_SIZE, Direct, PerTable, BitLen, ByteBits, SectorBits} : c \in Nat \ {0}
    BY BlocksAssumption, Zenon
  <2>2. BitLen \in Nat \ {0} /\ ByteBits \in Nat \ {0} /\ SectorBits \in Nat \ {0}
    BY <2>1, Zenon
  <2>3. ByteBits <= BitLen
    BY BlocksAssumption
  <2> QED
    BY <2>2, <2>3
<1>2. q \in Int /\ r \in 0 .. (ByteBits - 1) /\ BitLen = ByteBits * q + r
  BY <1>1
<1> HIDE DEF q, r
<1>3. q >= 1
  <2>1. CASE q <= 0
    <3>1. ByteBits * q <= 0
      BY <1>1, <1>2, <2>1
    <3> QED
      BY <1>1, <1>2, <3>1
  <2> QED
    BY <1>2, <2>1
<1>4. lastByte \in Int /\ lastByte > 0
  BY <1>1, <1>2, <1>3
<1> HIDE DEF lastByte
<1>5. 0 \notin cleared
  BY <1>1, <1>2, <1>4
<1>6. Formatted = {bit + 1 : bit \in ({0} \cup lastByte .. (SectorBits - 1)) \ cleared}
  BY DEF Formatted, lastByte, q, r
<1>7. 1 \in Formatted
  <2> HIDE DEF cleared
  <2> QED
    BY <1>5, <1>6
<1>8. Formatted \subseteq Lbas
  <2> HIDE DEF cleared
  <2> QED
    BY <1>1, <1>4, <1>6 DEF Lbas
<1> QED
  BY <1>7, <1>8

LEMMA BlocksInitInv ==
    ASSUME BlocksInit
    PROVE  BlocksInv
<1> DEFINE D == [NoSectors EXCEPT ![0] = 1]
           first == [Blank EXCEPT ![0] = Entry("."), ![1] = Entry("..")]
<1>0. /\ Direct \in Nat /\ Direct > 0 /\ 0 \in Index /\ 1 \in Lbas /\ "dir" \notin Names
      /\ 0 \in Units /\ 1 \in Units /\ 0 \in Places /\ 1 \in Places
      /\ "." \notin Names /\ ".." \notin Names
  BY Consts, UnitsHave, FormattedIs, NamesApart DEF Index
<1>1. /\ D \in [0 .. Direct -> Lbas \cup {0}] /\ NoSectors \in [0 .. Direct -> Lbas \cup {0}]
      /\ \A i \in 0 .. Direct : D[i] = IF i = 0 THEN 1 ELSE 0
  BY <1>0 DEF NoSectors
<1>2. /\ first \in [Units -> Cells]
      /\ \A u \in Units : first[u] = IF u = 0 THEN Entry(".") ELSE IF u = 1 THEN Entry("..") ELSE Zero
  <2>1. Blank \in [Units -> Cells] /\ Entry(".") \in Cells /\ Entry("..") \in Cells
    BY CellTypes
  <2>2. \A u \in Units : Blank[u] = Zero
    BY DEF Blank
  <2> QED
    BY <1>0, <2>1, <2>2
<1> HIDE DEF D, first
<1>3. /\ names = {} /\ used = Formatted /\ panic = "none" /\ spilled = FALSE
      /\ fd = [file |-> "none", pos |-> 0]
      /\ disk = [b \in Lbas |-> IF b = 1 THEN first ELSE Old]
      /\ sec = [o \in Names \cup {"dir"} |-> IF o = "dir" THEN D ELSE NoSectors]
      /\ i_size = [o \in Names \cup {"dir"} |-> IF o = "dir" THEN 2 ELSE 0]
  BY DEF BlocksInit, Closed, D, first
<1>4. sec["dir"] = D /\ disk[1] = first /\ i_size["dir"] = 2 /\ Owners = {"dir"}
  BY <1>0, <1>3 DEF Owners
<1>5. BlocksTypeOK
  <2>1. disk \in [Lbas -> [Units -> Cells]]
    BY <1>2, <1>3, CellTypes
  <2>2. sec \in [Names \cup {"dir"} -> [0 .. Direct -> Lbas \cup {0}]]
    BY <1>1, <1>3
  <2>3. IsFiniteSet(names)
    BY <1>3, FS_EmptySet
  <2>4. fd \in [file : names \cup {"none"}, pos : 0 .. (Word - 1)]
    <3> DEFINE B == BLOCK_SIZE * Total
    <3>1. Word \in Nat /\ B \in Nat /\ B < Word
      BY Consts
    <3> HIDE DEF B
    <3>2. 0 \in 0 .. (Word - 1)
      BY <3>1
    <3> QED
      BY <1>3, <3>2
  <2>5. spilled \in BOOLEAN
    BY <1>3, Zenon
  <2>6. i_size \in [Names \cup {"dir"} -> Nat] /\ used \subseteq Lbas /\ names \subseteq Names
    BY <1>3, FormattedIs
  <2> QED
    BY <2>1, <2>2, <2>3, <2>4, <2>5, <2>6 DEF BlocksTypeOK
<1>6. \A i \in Index : At("dir", i) = IF i = 0 THEN 1 ELSE 0
  <2> SUFFICES ASSUME NEW i \in Index PROVE At("dir", i) = IF i = 0 THEN 1 ELSE 0
    OBVIOUS
  <2>1. At("dir", i) = BlockAt(D, disk, i)
    BY <1>4 DEF At
  <2>2. D[Direct] = 0 /\ i \in Nat
    BY <1>0, <1>1, Consts DEF Index
  <2>3. CASE i < Direct
    BY <1>0, <1>1, <2>1, <2>2, <2>3 DEF BlockAt
  <2>4. CASE ~(i < Direct)
    BY <1>0, <2>1, <2>2, <2>4 DEF BlockAt
  <2> QED
    BY <2>3, <2>4
<1>7. sec["dir"][Direct] = 0
  BY <1>0, <1>1, <1>4
<1>8. InodeBlocks("dir") = {1}
  BY <1>0, <1>6, <1>7, InodeBlocksIs
<1>9. PosFits /\ Shapes /\ Bytes
  BY <1>3 DEF PosFits, Shapes, Bytes
<1>10. Marked /\ Apart
  BY <1>3, <1>4, <1>8, FormattedIs DEF Marked, Apart
<1>11. Distinct
  BY <1>4, <1>6, <1>7 DEF Distinct
<1>12. NoneLost /\ Spills
  BY <1>3, <1>7 DEF NoneLost, Spills, Dir
<1>13. DirInv
  <2>1. DirBlocks = {0}
    BY <1>0, <1>6 DEF DirBlocks
  <2>2. \A u \in Places : DirCell(0, u) = IF u = 0 THEN Entry(".")
                                         ELSE IF u = 1 THEN Entry("..") ELSE Zero
    <3>1. At("dir", 0) = 1 /\ \A u \in Places : u \in Units
      BY <1>0, <1>6, UnitsHave
    <3> QED
      BY <1>2, <1>4, <3>1 DEF DirCell
  <2>3. DirFirst
    BY <1>0, <2>1, <2>2 DEF DirFirst
  <2>4. DirKnown
    BY <2>1, <2>2 DEF DirKnown
  <2>5. DirOnce
    <3>1. Entry(".") # Entry("..")
      BY CellTags
    <3>2. ASSUME NEW u \in Places, NEW v \in Places, DirCell(0, u) # Zero,
                 DirCell(0, u) = DirCell(0, v)
          PROVE  u = v
      BY <2>2, <3>1, <3>2
    <3> QED
      BY <2>1, <3>2 DEF DirOnce
  <2>6. DirAll /\ DirKept
    BY <1>3, <2>1 DEF DirAll, DirKept
  <2>7. i_size["dir"] = 2 + Cardinality(names)
    BY <1>3, <1>4, FS_EmptySet
  <2> QED
    BY <2>3, <2>4, <2>5, <2>6, <2>7 DEF DirInv
<1>14. OnlyLimitsStop
  BY <1>3 DEF OnlyLimitsStop
<1> QED
  BY <1>5, <1>9, <1>10, <1>11, <1>12, <1>13, <1>14 DEF BlocksInv

(* The inductive invariant holds in every state.                           *)
THEOREM BlocksInvHolds == BlocksSpec => []BlocksInv
<1>1. BlocksInit => BlocksInv
  BY BlocksInitInv
<1>2. BlocksInv /\ [BlocksNext]_bVars => BlocksInv'
  <2> SUFFICES ASSUME BlocksInv, [BlocksNext]_bVars PROVE BlocksInv'
    OBVIOUS
  <2>1. ASSUME NEW n \in Names, FileCreate(n) PROVE BlocksInv'
    BY <2>1, FileCreateStep
  <2>2. ASSUME NEW n \in Names, SysUnlink(n) PROVE BlocksInv'
    BY <2>2, SysUnlinkStep
  <2>3. ASSUME NEW f \in Files, NEW c \in Counts, FileWrite(f, c) PROVE BlocksInv'
    BY <2>3, FileWriteStep
  <2>4. ASSUME NEW f \in Files, NEW c \in Counts, FileRead(f, c) PROVE BlocksInv'
    BY <2>4, FileReadStep
  <2>5. CASE \/ \E f \in Files : \E p \in Counts : SysLseek(f, p)
             \/ \E f \in Files : FileOpen(f)
             \/ FileClose
    BY <2>5, SeekOpenCloseStep
  <2>6. CASE UNCHANGED bVars
    <3>1. UNCHANGED <<used, disk, sec, i_size, names, panic, spilled>> /\ fd' = fd
      BY <2>6 DEF bVars
    <3>2. fd' \in [file : names \cup {"none"}, pos : 0 .. (Word - 1)]
      BY <3>1 DEF BlocksInv, BlocksTypeOK
    <3>3. PosFits'
      BY <3>1 DEF BlocksInv, PosFits
    <3> QED
      BY <3>1, <3>2, <3>3, MoveStep
  <2> QED
    BY <2>1, <2>2, <2>3, <2>4, <2>5, <2>6 DEF BlocksNext
<1> QED
  BY <1>1, <1>2, PTL DEF BlocksSpec

(* The machine stops only at one of the limits: the ASSERTs on the sectors *)
(* of an inode in file_write and file_read never fail.                     *)
THEOREM OnlyLimitsStopHolds == BlocksSpec => []OnlyLimitsStop
<1>1. BlocksInv => OnlyLimitsStop
  BY DEF BlocksInv
<1> QED
  BY <1>1, BlocksInvHolds, PTL

(* A block belongs to one inode, once, and is marked, a file has the       *)
(* blocks its size calls for, and none is lost while the directory keeps   *)
(* to its direct blocks (block_bitmap_alloc, inode_release,                *)
(* delete_dir_entry).                                                      *)
THEOREM BlocksOnceHolds == BlocksSpec => []BlocksOnce
<1>1. BlocksInv => BlocksOnce
  BY DEF BlocksInv, BlocksOnce, Owners, Shapes, Marked, Apart, Distinct, NoneLost, At, Index
<1> QED
  BY <1>1, BlocksInvHolds, PTL

(* Every byte of a file is where file_read looks for it, and each read     *)
(* that returns hands over the bytes from fd_pos on (file_write,           *)
(* file_read, sys_lseek).                                                  *)
THEOREM FileIntactHolds == BlocksSpec => []FileIntact
<1>1. BlocksInv => FileIntact
  <2> SUFFICES ASSUME BlocksInv PROVE FileIntact
    OBVIOUS
  <2>1. Bytes /\ BlocksTypeOK
    BY DEF BlocksInv
  <2>2. ASSUME NEW f \in names \cap Files, NEW i \in 0 .. (i_size[f] - 1)
        PROVE  /\ BlockAt(sec[f], disk, i \div BLOCK_SIZE) # 0
               /\ disk[BlockAt(sec[f], disk, i \div BLOCK_SIZE)][i % BLOCK_SIZE] = Byte(f, i)
    BY <2>1 DEF Bytes, At
  <2>3. ASSUME NEW f \in names \cap Files, NEW n \in Counts, fd.file = f, ReadStops(f, n) = "none"
        PROVE  ReadBytes(f, n) = [j \in 1 .. (IF fd.pos + n <= i_size[f] THEN n
                                              ELSE i_size[f] - fd.pos)
                                    |-> Byte(f, fd.pos + j - 1)]
    <3>1. /\ ReadSize(f, n) = (IF fd.pos + n <= i_size[f] THEN n ELSE i_size[f] - fd.pos)
          /\ ReadSize(f, n) \in Nat /\ fd.pos + ReadSize(f, n) <= i_size[f]
      BY <2>3, ReadFits
    <3>2. fd.pos \in Nat /\ i_size[f] \in Nat
      BY <2>1, Consts DEF BlocksTypeOK
    <3>3. ASSUME NEW j \in 1 .. ReadSize(f, n)
          PROVE  LET p == fd.pos + j - 1
                     b == BlockAt(sec[f], disk, p \div BLOCK_SIZE)
                 IN  (IF b = 0 THEN Zero ELSE disk[b][p % BLOCK_SIZE]) = Byte(f, fd.pos + j - 1)
      <4>1. fd.pos + j - 1 \in 0 .. (i_size[f] - 1)
        BY <3>1, <3>2
      <4> QED
        BY <2>2, <4>1
    <3> QED
      BY <3>1, <3>3 DEF ReadBytes
  <2> QED
    BY <2>2, <2>3 DEF FileIntact
<1> QED
  BY <1>1, BlocksInvHolds, PTL

----------------------------------------------------------------------------
(* The places of the entries are as many as the files, with "." and "..".  *)
Listed == names \cup {".", ".."}

LEMMA EntriesAre ==
    ASSUME BlocksInv
    PROVE  /\ Entries = {p \in Index \X Places : p[1] \in DirBlocks /\ DirCell(p[1], p[2]) # Zero}
           /\ \A p \in Entries : /\ EntryAt(p) = DirCell(p[1], p[2])
                                 /\ \E n \in Listed : EntryAt(p) = Entry(n)
           /\ \A p, q \in Entries : EntryAt(p) = EntryAt(q) => p = q
           /\ ~spilled => \A n \in Listed : \E p \in Entries : EntryAt(p) = Entry(n)
<1>0. DirFirst /\ DirKnown /\ DirOnce /\ DirAll
  BY DEF BlocksInv, DirInv
<1>1. \A i : BlockAt(Dir, disk, i) = At("dir", i)
  BY DEF At, Dir
<1>2. \A p : EntryAt(p) = DirCell(p[1], p[2])
  BY <1>1 DEF EntryAt, DirCell
<1>3. Entries = {p \in Index \X Places : p[1] \in DirBlocks /\ DirCell(p[1], p[2]) # Zero}
  BY <1>1, <1>2 DEF Entries, Index, Places, DirBlocks
<1>4. ASSUME NEW p \in Entries PROVE \E n \in Listed : EntryAt(p) = Entry(n)
  BY <1>0, <1>2, <1>3 DEF DirKnown, Listed
<1>5. ASSUME NEW p \in Entries, NEW q \in Entries, EntryAt(p) = EntryAt(q) PROVE p = q
  <2>1. p \in Index \X Places /\ q \in Index \X Places
    BY <1>3
  <2>2. p[1] = q[1] /\ p[2] = q[2]
    BY <1>0, <1>2, <1>3, <1>5 DEF DirOnce
  <2> QED
    BY <2>1, <2>2
<1>6. ASSUME ~spilled, NEW n \in Listed PROVE \E p \in Entries : EntryAt(p) = Entry(n)
  <2>1. \E i \in DirBlocks : \E u \in Places : DirCell(i, u) = Entry(n)
    <3>1. CASE n \in names
      BY <1>0, <1>6, <3>1 DEF DirAll
    <3>2. CASE n \in {".", ".."}
      BY <1>0, <3>2, UnitsHave DEF DirFirst
    <3> QED
      BY <3>1, <3>2 DEF Listed
  <2>2. PICK i \in DirBlocks, u \in Places : DirCell(i, u) = Entry(n)
    BY <2>1
  <2>3. <<i, u>> \in Entries
    BY <1>3, <2>2, CellTags DEF DirBlocks
  <2>4. EntryAt(<<i, u>>) = Entry(n)
    BY <1>2, <2>2
  <2> QED
    BY <2>3, <2>4
<1> QED
  BY <1>2, <1>3, <1>4, <1>5, <1>6

LEMMA EntriesCount ==
    ASSUME BlocksInv, ~spilled
    PROVE  /\ IsFiniteSet(Entries) /\ Cardinality(Entries) = 2 + Cardinality(names)
           /\ Cardinality(names) \in Nat
<1> DEFINE g == [n \in Listed |-> CHOOSE p \in Entries : EntryAt(p) = Entry(n)]
<1>1. \A n \in Listed : g[n] \in Entries /\ EntryAt(g[n]) = Entry(n)
  BY EntriesAre
<1>2. g \in [Listed -> Entries]
  BY <1>1
<1> HIDE DEF g
<1>3. \A n, m \in Listed : g[n] = g[m] => n = m
  BY <1>1, CellTags
<1>4. \A p \in Entries : \E n \in Listed : g[n] = p
  <2> SUFFICES ASSUME NEW p \in Entries PROVE \E n \in Listed : g[n] = p
    OBVIOUS
  <2>1. PICK n \in Listed : EntryAt(p) = Entry(n)
    BY EntriesAre
  <2>2. g[n] \in Entries /\ EntryAt(g[n]) = EntryAt(p)
    BY <1>1, <2>1
  <2>3. g[n] = p
    BY <2>2, EntriesAre
  <2> QED
    BY <2>3
<1>5. g \in Bijection(Listed, Entries)
  BY <1>2, <1>3, <1>4 DEF Bijection, Injection, Surjection, IsInjective
<1>6. /\ IsFiniteSet(Listed) /\ Cardinality(Listed) = 2 + Cardinality(names)
      /\ Cardinality(names) \in Nat
  <2>1. IsFiniteSet(names) /\ "." \notin names /\ ".." \notin names /\ Cardinality(names) \in Nat
    BY NamesApart, FS_CardinalityType DEF BlocksInv, BlocksTypeOK
  <2> DEFINE A == names \cup {"."}
  <2>2. IsFiniteSet(A) /\ Cardinality(A) = Cardinality(names) + 1 /\ ".." \notin A
    BY <2>1, FS_AddElement
  <2>3. Listed = A \cup {".."}
    BY DEF Listed
  <2> HIDE DEF A
  <2>4. IsFiniteSet(A \cup {".."}) /\ Cardinality(A \cup {".."}) = Cardinality(A) + 1
    BY <2>2, FS_AddElement
  <2> QED
    BY <2>1, <2>2, <2>3, <2>4
<1>7. ExistsBijection(Listed, Entries)
  BY <1>5 DEF ExistsBijection
<1>8. IsFiniteSet(Entries) /\ Cardinality(Entries) = Cardinality(Listed)
  BY <1>6, <1>7, FS_Bijection
<1> QED
  BY <1>6, <1>8

(* dir_read reaches every entry before i_size stops it.                    *)
LEMMA DirReadAll ==
    ASSUME BlocksInv, ~spilled
    PROVE  DirRead = Entries
<1>1. /\ IsFiniteSet(Entries) /\ Cardinality(Entries) = i_size["dir"]
      /\ Cardinality(Entries) \in Nat
  <2>1. i_size["dir"] = 2 + Cardinality(names)
    BY DEF BlocksInv, DirInv
  <2> QED
    BY <2>1, EntriesCount
<1>2. ASSUME NEW p \in Entries
      PROVE  Cardinality({q \in Entries : Before(q, p)}) < i_size["dir"]
  <2> DEFINE E == {q \in Entries : Before(q, p)}
  <2>1. E \subseteq Entries
    OBVIOUS
  <2>2. ~Before(p, p)
    <3>1. p[1] \in Int /\ p[2] \in Int
      <4>1. p \in Index \X Places
        BY EntriesAre
      <4> QED
        BY <4>1, Consts DEF Index, Places
    <3> QED
      BY <3>1 DEF Before
  <2>3. E # Entries
    BY <2>2
  <2> HIDE DEF E
  <2>4. IsFiniteSet(E) /\ Cardinality(E) <= Cardinality(Entries) /\ Cardinality(E) # Cardinality(Entries)
    BY <1>1, <2>1, <2>3, FS_Subset
  <2>5. Cardinality(E) \in Nat
    BY <2>4, FS_CardinalityType
  <2>6. Cardinality(E) < i_size["dir"]
    BY <1>1, <2>4, <2>5
  <2> QED
    BY <2>6 DEF E
<1> QED
  BY <1>2 DEF DirRead

(* While the directory keeps to its direct blocks, search_dir_entry,       *)
(* dir_read and i_size agree with the files there are, and an empty        *)
(* directory has one block.                                                *)
THEOREM DirExactHolds == BlocksSpec => []DirExact
<1>1. BlocksInv => DirExact
  <2> SUFFICES ASSUME BlocksInv, ~spilled PROVE DirExact
    BY DEF DirExact
  <2>0. /\ DirKnown /\ DirAll /\ DirKept /\ Spills /\ BlocksTypeOK
        /\ i_size["dir"] = 2 + Cardinality(names)
    BY DEF BlocksInv, DirInv
  <2>1. ASSUME NEW n \in Names PROVE SearchDirEntry(n) <=> n \in names
    <3>1. ASSUME SearchDirEntry(n) PROVE n \in names
      BY <3>1, EntryFound
    <3>2. ASSUME n \in names PROVE SearchDirEntry(n)
      <4>1. PICK i \in DirBlocks : \E u \in Places : DirCell(i, u) = Entry(n)
        BY <2>0, <3>2 DEF DirAll
      <4>2. i \in Index /\ At("dir", i) # 0 /\ Holds(At("dir", i), n)
        BY <4>1 DEF DirBlocks, Holds, DirCell, Places
      <4>3. At("dir", i) \in BlocksOf(Dir, disk)
        BY <4>2 DEF BlocksOf, At, Dir, Index
      <4> QED
        BY <4>2, <4>3 DEF SearchDirEntry
    <3> QED
      BY <3>1, <3>2
  <2>2. Cardinality(DirRead) = 2 + Cardinality(names) /\ Cardinality(names) \in Nat
    BY EntriesCount, DirReadAll
  <2>3. {EntryAt(p) : p \in DirRead} = {Entry(n) : n \in names \cup {".", ".."}}
    <3>1. {EntryAt(p) : p \in Entries} = {Entry(n) : n \in Listed}
      BY EntriesAre
    <3> QED
      BY <3>1, DirReadAll DEF Listed
  <2>4. DirIsEmpty <=> names = {}
    <3>1. DirIsEmpty <=> Cardinality(names) = 0
      BY <2>0, <2>2 DEF DirIsEmpty
    <3>2. Cardinality(names) = 0 <=> names = {}
      BY <2>0, FS_EmptySet DEF BlocksTypeOK
    <3> QED
      BY <3>1, <3>2
  <2>5. ASSUME DirIsEmpty, NEW i \in 1 .. Direct PROVE Dir[i] = 0
    <3>1. CASE i = Direct
      BY <2>0, <3>1 DEF Spills
    <3>2. CASE i # Direct
      <4>1. i \in 0 .. (Direct - 1) /\ i # 0
        BY <3>2, Consts
      <4>2. i \in Index /\ At("dir", i) = Dir[i]
        BY <4>1, DirAt
      <4>3. i \notin DirBlocks
        BY <2>0, <2>4, <2>5, <4>1 DEF DirKept
      <4> QED
        BY <4>2, <4>3 DEF DirBlocks
    <3> QED
      BY <3>1, <3>2
  <2> QED
    BY <2>1, <2>2, <2>3, <2>4, <2>5 DEF DirExact
<1> QED
  BY <1>1, BlocksInvHolds, PTL
============================================================================
