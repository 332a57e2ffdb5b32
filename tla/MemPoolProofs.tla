--------------------------- MODULE MemPoolProofs ---------------------------
(***************************************************************************)
(* Proofs about memory, for any number of pages and processes: the pool    *)
(* bitmaps and the page tables agree, and a heap, its lists and its arenas *)
(* do.                                                                     *)
(***************************************************************************)
EXTENDS MemPool, FiniteSetTheorems, TLAPS

----------------------------------------------------------------------------
(* Ranks: how the i-th page of a set finds the i-th free bit.              *)
LEMMA RankType ==
    ASSUME NEW S \in SUBSET Int, IsFiniteSet(S), NEW x \in S
    PROVE  Rank(x, S) \in 1 .. Cardinality(S)
<1> DEFINE A == {y \in S : y <= x}
<1>1. A \in SUBSET S /\ x \in A
  OBVIOUS
<1> HIDE DEF A
<1>2. IsFiniteSet(A) /\ Cardinality(A) <= Cardinality(S)
  BY <1>1, FS_Subset
<1>3. Cardinality(A) \in Nat /\ Cardinality(S) \in Nat
  BY <1>2, FS_CardinalityType
<1>4. Cardinality(A) # 0
  BY <1>1, <1>2, FS_EmptySet
<1> QED
  BY <1>2, <1>3, <1>4 DEF Rank, A

LEMMA RankMono ==
    ASSUME NEW S \in SUBSET Int, IsFiniteSet(S), NEW x \in S, NEW y \in S, x < y
    PROVE  Rank(x, S) < Rank(y, S)
<1> DEFINE A == {z \in S : z <= x}
           B == {z \in S : z <= y}
<1>0. x \in Int /\ y \in Int /\ \A z \in S : z \in Int
  OBVIOUS
<1>1. A \in SUBSET B /\ y \in B /\ y \notin A /\ B \in SUBSET S
  <2>1. ASSUME NEW z \in A PROVE z \in B
    BY <1>0
  <2>2. y \in B /\ y \notin A
    BY <1>0
  <2> QED
    BY <2>1, <2>2
<1> HIDE DEF A, B
<1>2. IsFiniteSet(B)
  BY <1>1, FS_Subset
<1>3. IsFiniteSet(A) /\ Cardinality(A) <= Cardinality(B) /\ Cardinality(A) # Cardinality(B)
  BY <1>1, <1>2, FS_Subset
<1>4. Cardinality(A) \in Nat /\ Cardinality(B) \in Nat
  BY <1>2, <1>3, FS_CardinalityType
<1>5. Cardinality(A) < Cardinality(B)
  BY <1>3, <1>4
<1> QED
  BY <1>5 DEF Rank, A, B

LEMMA RankOnce ==
    ASSUME NEW S \in SUBSET Int, IsFiniteSet(S), NEW x \in S, NEW y \in S,
           Rank(x, S) = Rank(y, S)
    PROVE  x = y
<1>1. Rank(x, S) \in Int /\ Rank(y, S) \in Int
  BY RankType
<1>2. ~(x < y) /\ ~(y < x)
  BY <1>1, RankMono
<1> QED
  BY <1>2

(* Every rank up to the number of elements is taken. *)
LEMMA NthIn ==
    ASSUME NEW S \in SUBSET Int, IsFiniteSet(S), NEW k \in 1 .. Cardinality(S)
    PROVE  Nth(k, S) \in S /\ Rank(Nth(k, S), S) = k
<1> DEFINE n == Cardinality(S)
           T == 1 .. n
           f == [x \in S |-> Rank(x, S)]
<1>1. n \in Nat
  BY FS_CardinalityType
<1>2. IsFiniteSet(T) /\ Cardinality(T) = n
  BY <1>1, FS_Interval
<1>3. f \in [S -> T]
  BY RankType
<1>4. f \in Injection(S, T)
  BY <1>3, RankOnce DEF Injection, IsInjective
<1> HIDE DEF f
<1>5. f \in Surjection(S, T)
  BY <1>2, <1>4, FS_Injection
<1>6. \E x \in S : f[x] = k
  BY <1>5 DEF Surjection
<1>7. \E x \in S : Rank(x, S) = k
  BY <1>6 DEF f
<1> QED
  BY <1>7 DEF Nth

(* palloc takes the lowest clear bit. *)
LEMMA FirstIsLeast ==
    ASSUME NEW S \in SUBSET Int, IsFiniteSet(S), S # {}
    PROVE  Nth(1, S) \in S /\ \A y \in S : Nth(1, S) <= y
<1>1. Cardinality(S) \in Nat /\ Cardinality(S) # 0
  BY FS_CardinalityType, FS_EmptySet
<1>2. 1 \in 1 .. Cardinality(S)
  BY <1>1
<1>3. Nth(1, S) \in S /\ Rank(Nth(1, S), S) = 1
  BY <1>2, NthIn
<1>4. ASSUME NEW y \in S, y < Nth(1, S) PROVE FALSE
  <2>1. Rank(y, S) < 1
    BY <1>3, <1>4, RankMono
  <2>2. Rank(y, S) \in 1 .. Cardinality(S)
    BY RankType
  <2> QED
    BY <1>1, <2>1, <2>2
<1>5. Nth(1, S) \in Int /\ \A y \in S : y \in Int
  BY <1>3
<1> QED
  BY <1>3, <1>4, <1>5

(* The pages of a run get different bits, and those are the lowest ones.   *)
LEMMA GrantExact ==
    ASSUME NEW run \in SUBSET Int, IsFiniteSet(run),
           NEW free \in SUBSET Int, IsFiniteSet(free),
           Cardinality(run) <= Cardinality(free)
    PROVE  /\ \A v \in run : Grant(run, free)[v] \in free
           /\ \A v, w \in run : Grant(run, free)[v] = Grant(run, free)[w] => v = w
           /\ \A v \in run : Rank(Grant(run, free)[v], free) = Rank(v, run)
           /\ Lowest(free, Cardinality(run)) = {Grant(run, free)[v] : v \in run}
<1>1. Cardinality(run) \in Nat /\ Cardinality(free) \in Nat
  BY FS_CardinalityType
<1>2. ASSUME NEW v \in run
      PROVE  /\ Grant(run, free)[v] \in free
             /\ Rank(Grant(run, free)[v], free) = Rank(v, run)
             /\ Rank(v, run) \in 1 .. Cardinality(run)
  <2>1. Rank(v, run) \in 1 .. Cardinality(run)
    BY RankType
  <2>2. Rank(v, run) \in 1 .. Cardinality(free)
    BY <1>1, <2>1
  <2>3. /\ Nth(Rank(v, run), free) \in free
        /\ Rank(Nth(Rank(v, run), free), free) = Rank(v, run)
    BY <2>2, NthIn
  <2> QED
    BY <2>1, <2>3 DEF Grant
<1>3. ASSUME NEW v \in run, NEW w \in run, Grant(run, free)[v] = Grant(run, free)[w]
      PROVE  v = w
  <2>1. Rank(v, run) = Rank(w, run)
    BY <1>2, <1>3
  <2> QED
    BY <2>1, RankOnce
<1>4. ASSUME NEW x \in Lowest(free, Cardinality(run))
      PROVE  \E v \in run : x = Grant(run, free)[v]
  <2>1. x \in free /\ Rank(x, free) <= Cardinality(run)
    BY DEF Lowest
  <2>2. Rank(x, free) \in 1 .. Cardinality(free)
    BY <2>1, RankType
  <2>3. Rank(x, free) \in 1 .. Cardinality(run)
    BY <1>1, <2>1, <2>2
  <2>4. PICK v \in run : Rank(v, run) = Rank(x, free)
    BY <2>3, NthIn
  <2>5. Grant(run, free)[v] \in free /\ Rank(Grant(run, free)[v], free) = Rank(x, free)
    BY <1>2, <2>4
  <2>6. x = Grant(run, free)[v]
    BY <2>1, <2>5, RankOnce
  <2> QED
    BY <2>6
<1>5. ASSUME NEW v \in run PROVE Grant(run, free)[v] \in Lowest(free, Cardinality(run))
  <2>1. Rank(Grant(run, free)[v], free) <= Cardinality(run)
    BY <1>1, <1>2
  <2> QED
    BY <1>2, <2>1 DEF Lowest
<1>6. Lowest(free, Cardinality(run)) = {Grant(run, free)[v] : v \in run}
  BY <1>4, <1>5
<1> QED
  BY <1>2, <1>3, <1>6

(* The n lowest elements are n. *)
LEMMA LowestCount ==
    ASSUME NEW S \in SUBSET Int, IsFiniteSet(S), NEW n \in 0 .. Cardinality(S)
    PROVE  /\ IsFiniteSet(Lowest(S, n)) /\ Lowest(S, n) \subseteq S
           /\ Cardinality(Lowest(S, n)) = n
<1> DEFINE R == 1 .. n
<1>0. n \in Nat /\ Cardinality(S) \in Nat
  BY FS_CardinalityType
<1>1. R \in SUBSET Int /\ IsFiniteSet(R) /\ Cardinality(R) = n
  BY <1>0, FS_Interval
<1> HIDE DEF R
<1> DEFINE f == Grant(R, S)
<1>2. /\ \A v \in R : f[v] \in S
      /\ \A v, w \in R : f[v] = f[w] => v = w
      /\ Lowest(S, n) = {f[v] : v \in R}
  BY <1>0, <1>1, GrantExact
<1>3. DOMAIN f = R /\ f = [v \in R |-> f[v]]
  BY DEF Grant
<1> HIDE DEF f
<1>4. f \in Bijection(R, Lowest(S, n))
  <2>1. f \in [R -> Lowest(S, n)]
    BY <1>2, <1>3
  <2>2. f \in Injection(R, Lowest(S, n))
    BY <1>2, <1>3, <2>1 DEF Injection, IsInjective
  <2>3. f \in Surjection(R, Lowest(S, n))
    BY <1>2, <2>1 DEF Surjection
  <2> QED
    BY <2>2, <2>3 DEF Bijection
<1>5. IsFiniteSet(Lowest(S, n)) /\ Cardinality(Lowest(S, n)) = n
  <2>1. ExistsBijection(R, Lowest(S, n))
    BY <1>4 DEF ExistsBijection
  <2> QED
    BY <1>1, <2>1, FS_Bijection
<1> QED
  BY <1>5 DEF Lowest

----------------------------------------------------------------------------
(* A nonempty set of naturals has a least element.                         *)
LEMMA LeastNat ==
    ASSUME NEW S \in SUBSET Nat, S # {}
    PROVE  \E m \in S : \A n \in S : m <= n
<1>1. \E R : IsWellFoundedOn(R, Nat) /\ \A x, y \in Nat : x < y => <<x, y>> \in R
  <2>1. IsWellFoundedOn(OpToRel(<, Nat), Nat)
    BY NatLessThanWellFounded
  <2>2. \A x, y \in Nat : x < y => <<x, y>> \in OpToRel(<, Nat)
    BY Zenon DEF OpToRel
  <2> QED
    BY <2>1, <2>2, Zenon
<1>2. PICK R : IsWellFoundedOn(R, Nat) /\ \A x, y \in Nat : x < y => <<x, y>> \in R
  BY <1>1
<1>3. \E x \in S : \A y \in S : ~ (<<y, x>> \in R)
  <2>1. IsWellFoundedOn(R, Nat)
    BY <1>2
  <2>2. S \subseteq Nat /\ S # {}
    OBVIOUS
  <2> QED
    BY ONLY <2>1, <2>2, WFMin, Zenon
<1>4. PICK x \in S : \A y \in S : ~ (<<y, x>> \in R)
  BY <1>3
<1>5. \A y \in S : x <= y
  <2>1. ASSUME NEW y \in S PROVE ~(y < x)
    BY <1>2, <1>4
  <2> QED
    BY <2>1
<1> QED
  BY <1>5

(* The counts of bitmap_scan exist: the recursion goes back to start. *)
LEMMA CountedDef ==
    ASSUME NEW free, NEW start \in Nat, NEW len \in Nat, start <= len
    PROVE  Counted(free, start, len) = [b \in start .. len |->
              IF b = start THEN 1 ELSE NextCount(b, free, Counted(free, start, len)[b - 1])]
<1> DEFINE Step(g, n) == [b \in start .. start + n |->
                            IF b = start THEN 1 ELSE NextCount(b, free, g[b - 1])]
           Bad == {n \in Nat : ~ \E g : g = Step(g, n)}
<1>1. ASSUME Bad # {} PROVE FALSE
  <2>1. PICK m \in Bad : \A n \in Bad : m <= n
    BY <1>1, LeastNat
  <2>2. m # 0
    <3> DEFINE g == [b \in start .. start + 0 |-> 1]
    <3>1. g = Step(g, 0)
      OBVIOUS
    <3>2. \E h : h = Step(h, 0)
      BY <3>1
    <3> QED
      BY <2>1, <3>2
  <2>3. m - 1 \in Nat /\ m - 1 \notin Bad /\ m \in Nat
    <3>1. m \in Nat
      BY <2>1
    <3>2. ~(m <= m - 1) /\ m - 1 \in Nat
      BY <2>2, <3>1
    <3> HIDE DEF Bad
    <3> QED
      BY <2>1, <3>1, <3>2
  <2>4. PICK g : g = Step(g, m - 1)
    BY <2>3
  <2> DEFINE h == [b \in start .. start + m |->
                     IF b = start + m THEN NextCount(b, free, g[b - 1]) ELSE g[b]]
  <2>5. ASSUME NEW b \in start .. start + m
        PROVE  h[b] = IF b = start THEN 1 ELSE NextCount(b, free, h[b - 1])
    <3>1. CASE b = start + m
      <4>1. b # start /\ b - 1 \in start .. start + m /\ b - 1 # start + m
        BY <2>3, <3>1, <2>2
      <4>2. h[b] = NextCount(b, free, g[b - 1]) /\ h[b - 1] = g[b - 1]
        BY <3>1, <4>1
      <4> QED
        BY <4>1, <4>2
    <3>2. CASE b # start + m
      <4>1. b \in start .. start + (m - 1) /\ h[b] = g[b]
        BY <2>3, <3>2
      <4>2. g[b] = IF b = start THEN 1 ELSE NextCount(b, free, g[b - 1])
        BY <2>4, <4>1
      <4>3. b # start => h[b - 1] = g[b - 1]
        BY <2>3, <4>1
      <4> QED
        BY <4>1, <4>2, <4>3
    <3> QED
      BY <3>1, <3>2
  <2>6. h = Step(h, m)
    BY <2>5
  <2>7. \E k : k = Step(k, m)
    BY <2>6
  <2> QED
    BY <2>1, <2>7
<1>2. \E g : g = Step(g, len - start)
  <2>1. len - start \in Nat
    OBVIOUS
  <2> QED
    BY <1>1, <2>1
<1>3. \E g : g = [b \in start .. len |-> IF b = start THEN 1 ELSE NextCount(b, free, g[b - 1])]
  <2>1. start + (len - start) = len
    OBVIOUS
  <2> QED
    BY <1>2, <2>1
<1> QED
  BY <1>3 DEF Counted

(* The count at a bit is the length of the stretch of clear bits that ends *)
(* there, as far as start, and on the way it was every smaller number.     *)
CountRight(c, free, start, b) ==
    /\ c[b] \in 0 .. (b - start + 1)
    /\ \A i \in (b - c[b] + 1) .. b : i \in free
    /\ c[b] = b - start + 1 \/ b - c[b] \notin free
    /\ \A k \in 1 .. c[b] : c[b - c[b] + k] = k

LEMMA CountsRight ==
    ASSUME NEW free, NEW start \in Nat, NEW len \in Nat, start <= len, start \in free
    PROVE  \A b \in start .. len : CountRight(Counted(free, start, len), free, start, b)
<1> DEFINE c == Counted(free, start, len)
           Bad == {b \in Nat : b \in start .. len /\ ~CountRight(c, free, start, b)}
<1>0. c = [b \in start .. len |-> IF b = start THEN 1 ELSE NextCount(b, free, c[b - 1])]
  BY CountedDef
<1> HIDE DEF c
<1>1. \A b \in start .. len : c[b] = IF b = start THEN 1 ELSE NextCount(b, free, c[b - 1])
  BY <1>0
<1>2. ASSUME Bad # {} PROVE FALSE
  <2>1. PICK m \in Bad : \A n \in Bad : m <= n
    BY <1>2, LeastNat
  <2>2. m \in Nat /\ m \in start .. len /\ ~CountRight(c, free, start, m)
    BY <2>1
  <2>3. CASE m = start
    <3>1. c[m] = 1
      BY <1>1, <2>2, <2>3
    <3> QED
      BY <2>2, <2>3, <3>1 DEF CountRight
  <2>4. CASE m # start
    <3>1. m - 1 \in Nat /\ m - 1 \in start .. len /\ ~(m <= m - 1)
      BY <2>2, <2>4
    <3>2. m - 1 \notin Bad
      <4> HIDE DEF Bad
      <4> QED
        BY <2>1, <3>1
    <3>3. CountRight(c, free, start, m - 1)
      BY <3>1, <3>2
    <3>4. c[m - 1] \in 0 .. (m - start) /\ c[m - 1] \in Int
      BY <2>2, <3>3 DEF CountRight
    <3>5. CASE m \in free
      <4>1. c[m] = c[m - 1] + 1
        BY <1>1, <2>2, <2>4, <3>5 DEF NextCount
      <4>2. m - c[m] = m - 1 - c[m - 1]
        BY <2>2, <3>4, <4>1
      <4>3. c[m] \in 0 .. (m - start + 1)
        BY <2>2, <3>4, <4>1
      <4>4. ASSUME NEW i \in (m - c[m] + 1) .. m PROVE i \in free
        <5>1. i = m \/ i \in (m - 1 - c[m - 1] + 1) .. (m - 1)
          BY <2>2, <3>4, <4>2
        <5> QED
          BY <3>3, <3>5, <5>1 DEF CountRight
      <4>5. c[m] = m - start + 1 \/ m - c[m] \notin free
        <5>1. c[m - 1] = m - 1 - start + 1 \/ m - 1 - c[m - 1] \notin free
          BY <3>3 DEF CountRight
        <5>2. CASE m - 1 - c[m - 1] \notin free
          BY <5>2, <4>2
        <5>3. CASE c[m - 1] = m - 1 - start + 1
          BY <5>3, <2>2, <4>1
        <5> QED
          BY <5>1, <5>2, <5>3
      <4>6. ASSUME NEW k \in 1 .. c[m] PROVE c[m - c[m] + k] = k
        <5>1. CASE k = c[m]
          <6>1. m - c[m] + k = m
            BY <5>1, <2>2, <4>3
          <6> QED
            BY <5>1, <6>1
        <5>2. CASE k # c[m]
          <6>1. k \in 1 .. c[m - 1]
            BY <5>2, <3>4, <4>1
          <6>2. c[m - 1 - c[m - 1] + k] = k
            BY <3>3, <6>1 DEF CountRight
          <6> QED
            BY <4>2, <6>2
        <5> QED
          BY <5>1, <5>2
      <4> QED
        BY <2>2, <4>3, <4>4, <4>5, <4>6 DEF CountRight
    <3>6. CASE m \notin free
      <4>1. c[m] = 0
        BY <1>1, <2>2, <2>4, <3>6 DEF NextCount
      <4>2. m - c[m] = m
        BY <2>2, <4>1
      <4> QED
        BY <2>2, <3>6, <4>1, <4>2 DEF CountRight
    <3> QED
      BY <3>5, <3>6
  <2> QED
    BY <2>3, <2>4
<1>3. ASSUME NEW b \in start .. len PROVE CountRight(c, free, start, b)
  BY <1>2
<1> QED
  BY <1>3 DEF c

LEMMA ClearFinite ==
    ASSUME NEW bits, NEW len \in Nat, NEW past
    PROVE  /\ Clear(bits, len, past) \in SUBSET Int
           /\ IsFiniteSet(Clear(bits, len, past))
           /\ Clear(bits, len, past) \subseteq 0 .. len
<1>1. IsFiniteSet(0 .. len)
  BY FS_Interval
<1>2. Clear(bits, len, past) \in SUBSET (0 .. len)
  BY DEF Clear
<1>3. IsFiniteSet(Clear(bits, len, past))
  BY <1>1, <1>2, FS_Subset
<1> QED
  BY <1>2, <1>3

(* What bitmap_scan finds is clear; and it finds the lowest run there is.  *)
LEMMA ScanSound ==
    ASSUME NEW bits, NEW len \in Nat, NEW past, NEW cnt \in Nat \ {0},
           Clear(bits, len, past) # {},
           bitmap_scan(bits, len, cnt, past) # -1
    PROVE  /\ bitmap_scan(bits, len, cnt, past) \in Nat
           /\ \A i \in bitmap_scan(bits, len, cnt, past)
                        .. (bitmap_scan(bits, len, cnt, past) + cnt - 1) :
                 i \in Clear(bits, len, past)
<1> DEFINE free == Clear(bits, len, past)
           start == Nth(1, free)
           c == Counted(free, start, len)
           found == {b \in start + 1 .. len : c[b] = cnt}
           r == bitmap_scan(bits, len, cnt, past)
<1>1. free \in SUBSET Int /\ IsFiniteSet(free) /\ free \subseteq 0 .. len
  BY ClearFinite
<1>2. r = IF cnt = 1 THEN start ELSE IF found = {} THEN -1 ELSE Nth(1, found) - cnt + 1
  BY DEF bitmap_scan
<1>a. free # {} /\ r # -1
  OBVIOUS
<1> HIDE DEF free, r
<1>3. start \in free /\ start \in Nat /\ start <= len
  <2>1. start \in free
    BY <1>1, <1>a, FirstIsLeast
  <2>2. start \in 0 .. len
    BY <1>1, <2>1
  <2> HIDE DEF start
  <2> QED
    BY <2>1, <2>2
<1> HIDE DEF start
<1>4. \A b \in start .. len : CountRight(c, free, start, b)
  BY <1>3, CountsRight
<1> HIDE DEF c
<1>5. CASE cnt = 1
  <2>1. r = start
    BY <1>2, <1>5
  <2>2. \A i \in r .. r + cnt - 1 : i \in free
    BY <1>3, <1>5, <2>1
  <2> QED
    BY <1>3, <2>1, <2>2 DEF r, free
<1>6. CASE cnt # 1
  <2>1. found # {} /\ r = Nth(1, found) - cnt + 1
    BY <1>2, <1>6, <1>a
  <2>2. found \in SUBSET Int /\ IsFiniteSet(found)
    <3>1. IsFiniteSet(start + 1 .. len) /\ found \in SUBSET (start + 1 .. len)
      BY <1>3, FS_Interval
    <3>2. IsFiniteSet(found)
      BY <3>1, FS_Subset
    <3>3. found \in SUBSET Int
      BY <1>3
    <3> QED
      BY <3>2, <3>3
  <2>3. Nth(1, found) \in found
    BY <2>1, <2>2, FirstIsLeast
  <2>4. PICK b \in start .. len : b = Nth(1, found) /\ c[b] = cnt
    <3>1. \A d \in found : d \in start .. len /\ c[d] = cnt
      BY <1>3
    <3> HIDE DEF found
    <3> QED
      BY <2>3, <3>1
  <2>5. CountRight(c, free, start, b)
    BY <1>4
  <2>6. cnt <= b - start + 1 /\ r = b - cnt + 1 /\ b - cnt + 1 + cnt - 1 = b
    BY <1>3, <2>1, <2>4, <2>5 DEF CountRight
  <2>7. r \in Nat
    BY <1>3, <2>6
  <2>8. \A i \in r .. r + cnt - 1 : i \in free
    BY <2>4, <2>5, <2>6 DEF CountRight
  <2> QED
    BY <2>7, <2>8 DEF r, free
<1> QED
  BY <1>5, <1>6

LEMMA ScanLowest ==
    ASSUME NEW bits, NEW len \in Nat, NEW past, NEW cnt \in Nat, cnt >= 2,
           NEW q \in Nat, \A i \in q .. (q + cnt - 1) : i \in Clear(bits, len, past)
    PROVE  /\ bitmap_scan(bits, len, cnt, past) # -1
           /\ bitmap_scan(bits, len, cnt, past) <= q
<1> DEFINE free == Clear(bits, len, past)
           start == Nth(1, free)
           c == Counted(free, start, len)
           found == {b \in start + 1 .. len : c[b] = cnt}
           e == q + cnt - 1
           b == e - c[e] + cnt
<1>1. free \in SUBSET Int /\ IsFiniteSet(free) /\ free \subseteq 0 .. len
  BY ClearFinite
<1>2. \A i \in q .. e : i \in free
  OBVIOUS
<1>3. q \in free /\ e \in free /\ e \in Nat /\ q <= e
  BY <1>2
<1>4. bitmap_scan(bits, len, cnt, past)
        = IF found = {} THEN -1 ELSE Nth(1, found) - cnt + 1
  BY DEF bitmap_scan
<1> HIDE DEF free
<1>5. start \in free /\ start \in Nat /\ start <= len /\ start <= q /\ e <= len
  <2>1. start \in free /\ start <= q
    BY <1>1, <1>3, FirstIsLeast
  <2>2. start \in 0 .. len /\ e \in 0 .. len
    BY <1>1, <1>3, <2>1
  <2> HIDE DEF start
  <2> QED
    BY <2>1, <2>2
<1> HIDE DEF start
<1>6. \A d \in start .. len : CountRight(c, free, start, d)
  BY <1>5, CountsRight
<1> HIDE DEF c
<1>7. e \in start .. len /\ CountRight(c, free, start, e)
  BY <1>3, <1>5, <1>6
<1>8. c[e] \in Nat /\ c[e] <= e - start + 1 /\ c[e] >= cnt
  <2>1. c[e] \in 0 .. (e - start + 1)
    BY <1>7 DEF CountRight
  <2>2. ASSUME c[e] < cnt PROVE FALSE
    <3>1. e - c[e] \in q .. e /\ c[e] # e - start + 1
      BY <1>3, <1>5, <2>1, <2>2
    <3>2. e - c[e] \notin free
      BY <1>7, <3>1 DEF CountRight
    <3> QED
      BY <1>2, <3>1, <3>2
  <2> QED
    BY <1>3, <1>5, <2>1, <2>2
<1>9. b \in start + 1 .. len /\ b <= e /\ c[b] = cnt
  <2>1. cnt \in 1 .. c[e]
    BY <1>8
  <2>2. c[b] = cnt
    BY <1>7, <2>1 DEF CountRight
  <2> QED
    BY <1>3, <1>5, <1>8, <2>2
<1> HIDE DEF b
<1>10. b \in found
  BY <1>9
<1>11. found \in SUBSET Int /\ IsFiniteSet(found)
  <2>0. start + 1 \in Int /\ len \in Int
    BY <1>5
  <2>1. IsFiniteSet(start + 1 .. len) /\ found \in SUBSET (start + 1 .. len)
    BY <2>0, FS_Interval
  <2>2. IsFiniteSet(found)
    BY <2>1, FS_Subset
  <2>3. found \in SUBSET Int
    BY <1>5
  <2> QED
    BY <2>2, <2>3
<1>12. Nth(1, found) \in start + 1 .. len /\ Nth(1, found) <= b
  <2>1. Nth(1, found) \in found /\ Nth(1, found) <= b
    BY <1>10, <1>11, FirstIsLeast
  <2> QED
    BY <2>1
<1>13. c[Nth(1, found)] = cnt
  BY <1>10, <1>11, FirstIsLeast
<1>14. cnt <= Nth(1, found) - start + 1
  BY <1>5, <1>6, <1>12, <1>13 DEF CountRight
<1>15. found # {}
  BY <1>10
<1> HIDE DEF found
<1> QED
  BY <1>3, <1>4, <1>5, <1>9, <1>12, <1>14, <1>15

(* bitmap_scan against its reference, for any bitmap and any count: the    *)
(* lowest run of clear bits, up to the bit past the end.                   *)
ClearRuns(bits, len, cnt) ==
    {b \in 0 .. len - cnt : \A i \in b .. b + cnt - 1 : i \notin bits}
LowestRun(bits, len, cnt) ==
    IF ClearRuns(bits, len, cnt) = {} THEN -1 ELSE Nth(1, ClearRuns(bits, len, cnt))

LEMMA ScanExact ==
    ASSUME NEW bits, NEW len \in Nat \ {0}, NEW cnt \in Nat, cnt >= 2,
           ~(0 .. len - 1 \subseteq bits)
    PROVE  /\ bitmap_scan(bits, len, cnt, FALSE) = LowestRun(bits, len, cnt)
           /\ bitmap_scan(bits, len, cnt, TRUE) \in
                 IF LowestRun(bits, len, cnt) = -1 THEN {-1, len - cnt + 1}
                 ELSE {LowestRun(bits, len, cnt)}
<1>0. PICK runs : runs = {b \in 0 .. len - cnt : \A i \in b .. b + cnt - 1 : i \notin bits}
  OBVIOUS
<1>a. PICK low : low = IF runs = {} THEN -1 ELSE Nth(1, runs)
  OBVIOUS
<1>b. low = LowestRun(bits, len, cnt)
  BY <1>0, <1>a DEF LowestRun, ClearRuns
<1>1. runs \in SUBSET Int /\ IsFiniteSet(runs) /\ \A b \in runs : b \in Nat
  <2>0. 0 \in Int /\ len - cnt \in Int
    OBVIOUS
  <2>1. IsFiniteSet(0 .. len - cnt)
    BY <2>0, FS_Interval
  <2>2. IsFiniteSet(runs)
    <3>1. runs \in SUBSET (0 .. len - cnt)
      BY <1>0
    <3> QED
      BY <2>1, <3>1, FS_Subset
  <2>3. runs \in SUBSET Int /\ \A b \in runs : b \in Nat
    BY <1>0
  <2> QED
    BY <2>2, <2>3
<1>2. runs # {} => low \in runs /\ low \in Nat /\ \A b \in runs : low <= b
  BY <1>1, <1>a, FirstIsLeast
<1>3. ASSUME NEW past \in BOOLEAN
      PROVE  /\ Clear(bits, len, past) # {}
             /\ \A q \in Nat : q \in runs => \A i \in q .. q + cnt - 1 : i \in Clear(bits, len, past)
  <2>1. \A i \in 0 .. len - 1 : i \notin bits => i \in Clear(bits, len, past)
    BY DEF Clear
  <2>2. Clear(bits, len, past) # {}
    BY <2>1
  <2>3. ASSUME NEW q \in Nat, q \in runs, NEW i \in q .. q + cnt - 1
        PROVE  i \in Clear(bits, len, past)
    <3>1. i \in 0 .. len - 1 /\ i \notin bits
      BY <1>0, <2>3
    <3> QED
      BY <2>1, <3>1
  <2> QED
    BY <2>2, <2>3
<1>4. ASSUME NEW past \in BOOLEAN, runs # {}
      PROVE  bitmap_scan(bits, len, cnt, past) # -1 /\ bitmap_scan(bits, len, cnt, past) <= low
  <2>1. low \in Nat /\ \A i \in low .. low + cnt - 1 : i \in Clear(bits, len, past)
    BY <1>2, <1>3, <1>4
  <2> QED
    BY <2>1, ScanLowest
<1>5. ASSUME NEW past \in BOOLEAN, bitmap_scan(bits, len, cnt, past) # -1
      PROVE  /\ bitmap_scan(bits, len, cnt, past) \in Nat
             /\ \/ bitmap_scan(bits, len, cnt, past) \in runs
                \/ past /\ bitmap_scan(bits, len, cnt, past) = len - cnt + 1
  <2>0. PICK r : r = bitmap_scan(bits, len, cnt, past)
    OBVIOUS
  <2>1. r \in Nat /\ \A i \in r .. r + cnt - 1 : i \in Clear(bits, len, past)
    <3>1. cnt \in Nat \ {0} /\ Clear(bits, len, past) # {}
      BY <1>3
    <3> QED
      BY <2>0, <3>1, <1>5, ScanSound
  <2>2. \A i \in r .. r + cnt - 1 : i \in 0 .. len /\ i \notin bits /\ (i = len => past)
    BY <2>1 DEF Clear
  <2>3. r + cnt - 1 \in 0 .. len
    BY <2>1, <2>2
  <2>4. CASE r + cnt - 1 = len
    <3>1. r + cnt - 1 \in r .. r + cnt - 1
      BY <2>1
    <3>2. past
      BY <2>2, <2>4, <3>1
    <3>3. r = len - cnt + 1
      BY <2>1, <2>4
    <3> QED
      BY <2>0, <2>1, <3>2, <3>3, Zenon
  <2>5. CASE r + cnt - 1 # len
    BY <1>0, <2>0, <2>1, <2>2, <2>3, <2>5
  <2> QED
    BY <2>4, <2>5
<1>6. CASE runs = {}
  <2>1. low = -1
    BY <1>6, <1>a
  <2>2. bitmap_scan(bits, len, cnt, FALSE) = -1
    BY <1>5, <1>6
  <2>3. bitmap_scan(bits, len, cnt, TRUE) \in {-1, len - cnt + 1}
    BY <1>5, <1>6
  <2> QED
    BY <1>b, <2>1, <2>2, <2>3
<1>7. CASE runs # {}
  <2>1. low \in Nat /\ low # -1 /\ low <= len - cnt
    BY <1>0, <1>2, <1>7
  <2>2. ASSUME NEW past \in BOOLEAN PROVE bitmap_scan(bits, len, cnt, past) = low
    <3>0. PICK r : r = bitmap_scan(bits, len, cnt, past)
      OBVIOUS
    <3>1. r # -1 /\ r <= low
      BY <3>0, <1>4, <1>7
    <3>2. r \in Nat /\ (r \in runs \/ r = len - cnt + 1)
      BY <3>0, <3>1, <1>5
    <3>3. r \in runs
      BY <2>1, <3>1, <3>2
    <3> QED
      BY <3>0, <3>1, <3>2, <3>3, <1>2, <1>7, <2>1
  <2> QED
    BY <1>b, <2>1, <2>2
<1> QED
  BY <1>6, <1>7

(* For every bitmap of the kernel's addresses: bitmap_scan returns the     *)
(* lowest run of clear bits that is long enough (or, when the bit past the *)
(* end happens to be clear, the run that ends with it).                    *)
THEOREM ScanIsLowest == MemSpec => []ScanFindsRun
<1>1. ScanFindsRun
  <2>1. ASSUME NEW cnt \in 2 .. 3, ~VFull(Kernel)
        PROVE  /\ bitmap_scan(vbits[Kernel], KPages, cnt, FALSE)
                     = LowestRun(vbits[Kernel], KPages, cnt)
               /\ bitmap_scan(vbits[Kernel], KPages, cnt, TRUE) \in
                     IF LowestRun(vbits[Kernel], KPages, cnt) = -1 THEN {-1, KPages - cnt + 1}
                     ELSE {LowestRun(vbits[Kernel], KPages, cnt)}
    <3>1. cnt \in Nat /\ cnt >= 2 /\ KPages \in Nat \ {0}
      BY MemAssumption
    <3>2. ~(0 .. KPages - 1 \subseteq vbits[Kernel])
      BY <2>1 DEF VFull, VLen
    <3> QED
      BY <3>1, <3>2, ScanExact
  <2> QED
    BY <2>1, Zenon DEF ScanFindsRun, LowestRun, ClearRuns
<1> QED
  BY <1>1, PTL

----------------------------------------------------------------------------
(* The page part of the state, page by page.  What the bitmaps say and     *)
(* what the tables say is compared bit by bit, for each pool of its own.   *)
PageTypes ==
    /\ kbits \subseteq KBits /\ ubits \subseteq UBits
    /\ vbits \in [Spaces -> SUBSET VSpace]
    /\ pte \in [Spaces -> [VSpace -> KBits \cup UBits \cup {-1}]]
    /\ table \in [Procs -> KBits \cup {-1}]
    /\ kown \in [Procs -> SUBSET KBits]
    /\ starting \in Starts \cup {NULL}
    /\ raced \in BOOLEAN

PagesAgree ==
    /\ \A v \in VSpace : pte[Kernel][v] \in KBits \cup {-1}
    /\ \A p \in Procs : \A v \in VSpace : pte[p][v] \in UBits \cup {-1}
    /\ \A p \in Procs : table[p] = -1 => \A v \in VSpace : pte[p][v] = -1
    /\ \A p \in Procs : table[p] # -1 => Exists(p) /\ table[First] # -1
    /\ Exists(First)
    /\ starting # NULL => table[First] = -1 /\ vbits[First] = {Stack}
    /\ starting = NULL /\ table[First] = -1 => ubits = {} /\ ~raced

KernelExact ==
    /\ \A v, w \in VSpace : pte[Kernel][v] # -1 /\ pte[Kernel][v] = pte[Kernel][w] => v = w
    /\ \A p, q \in Procs : table[p] # -1 /\ table[p] = table[q] => p = q
    /\ \A p \in Procs : \A v \in VSpace : table[p] # -1 => table[p] # pte[Kernel][v]
    /\ \A f \in KBits : f \in kbits <=> \/ \E v \in VSpace : pte[Kernel][v] = f
                                        \/ \E p \in Procs : table[p] = f
    /\ starting # NULL => starting.table \notin kbits

UserExact ==
    /\ \A p, q \in Procs : \A v, w \in VSpace :
          pte[p][v] # -1 /\ pte[p][v] = pte[q][w] => p = q /\ v = w
    /\ \A f \in UBits : f \in ubits <=> \/ \E p \in Procs : \E v \in VSpace : pte[p][v] = f
                                        \/ starting # NULL /\ starting.page = f

PageInv == PageTypes /\ PagesAgree /\ VaddrExact /\ (~raced => KernelExact /\ UserExact)

(* The rest of the state.                                                  *)
HeapTypes ==
    /\ arena \in [Spaces -> [VSpace -> Arenas]]
    /\ free_list \in [Spaces -> SUBSET Addresses]
    /\ held \in [Spaces -> SUBSET Addresses]
    /\ panic \in {NULL, "exhausted", "assert"}
    /\ stray \in BOOLEAN

LargeInside ==
    \A s \in Spaces : \A v \in VSpace :
        arena[s][v].large => v .. v + arena[s][v].cnt - 1 \subseteq VSpace

MemInv == PageInv /\ HeapTypes /\ LargeInside

(* Which processes are in sys_execv: of the others no page is an old one.  *)
LoadInv ==
    /\ loading \subseteq Procs /\ old \in [Spaces -> SUBSET VSpace]
    /\ \A s \in Spaces : s \notin loading => old[s] = {}
    /\ \A p \in loading : table[p] # -1

(* What raced records. *)
Races == raced' = (raced \/ (starting' # NULL /\ starting'.table \in kbits'))

LEMMA RacesKept ==
    ASSUME raced \in BOOLEAN, Races
    PROVE  /\ raced' \in BOOLEAN
           /\ ~raced' => ~raced /\ (starting' # NULL => starting'.table \notin kbits')
<1>1. raced' = (raced \/ (starting' # NULL /\ starting'.table \in kbits'))
  BY DEF Races
<1> QED
  BY <1>1, Zenon

(* Kernel pages and user pages are different, and -1 is none. *)
LEMMA BitsApart ==
    /\ KBits \in SUBSET Int /\ UBits \in SUBSET Int /\ KBits \cap UBits = {}
    /\ -1 \notin KBits /\ -1 \notin UBits
    /\ IsFiniteSet(KBits) /\ IsFiniteSet(UBits) /\ IsFiniteSet(VSpace)
    /\ VSpace \in SUBSET Int /\ KBits \subseteq VSpace /\ UBits # {}
    /\ Stack \in VSpace /\ 0 \in VSpace
<1>0. KPages \in Nat /\ KPages >= 3 /\ UPages \in Nat \ {0} /\ VPages \in Nat \ {0}
  BY MemAssumption
<1>1. KPages - 1 \in Int /\ KPages + UPages - 1 \in Int /\ KPages \in Int
  BY <1>0
<1>2. (IF KPages > VPages THEN KPages ELSE VPages) \in Int
  BY <1>0
<1>3. IsFiniteSet(KBits) /\ IsFiniteSet(UBits)
  BY <1>1, FS_Interval DEF KBits, UBits
<1>4. IsFiniteSet(VSpace)
  BY <1>2, FS_Interval DEF VSpace
<1>5. KBits \in SUBSET Int /\ UBits \in SUBSET Int /\ KBits \cap UBits = {}
  BY <1>0 DEF KBits, UBits
<1>6. -1 \notin KBits /\ -1 \notin UBits
  BY <1>0 DEF KBits, UBits
<1>7. VSpace \in SUBSET Int /\ KBits \subseteq VSpace
  BY <1>0 DEF KBits, VSpace
<1>8. KPages \in UBits
  BY <1>0 DEF UBits
<1>9. Stack \in VSpace /\ 0 \in VSpace
  BY <1>0 DEF Stack, VSpace
<1> QED
  BY <1>3, <1>4, <1>5, <1>6, <1>7, <1>8, <1>9

----------------------------------------------------------------------------
(* malloc_page, for a run that is free. *)
LEMMA MallocPageKeeps ==
    ASSUME PageInv, NEW s \in Spaces, NEW run \in SUBSET VSpace, run \cap vbits[s] = {},
           Cardinality(run) <= Cardinality(IF s = Kernel THEN FreeK ELSE FreeU),
           s \in Procs => table[s] # -1,
           MallocPage(s, run), UNCHANGED <<table, kown, starting>>, Races
    PROVE  PageInv' /\ (\A v \in run : pte'[s][v] # -1)
<1>1. PICK free : free = IF s = Kernel THEN FreeK ELSE FreeU
  OBVIOUS
<1>2. PICK to : to = Grant(run, free)
  OBVIOUS
<1>3. /\ PageTypes /\ PagesAgree /\ VaddrExact /\ (~raced => KernelExact /\ UserExact)
      /\ Kernel \in Spaces /\ Kernel \notin Procs /\ First \in Procs
      /\ Spaces = Procs \cup {Kernel}
  BY MemAssumption DEF PageInv, Spaces
<1>4. free \subseteq (IF s = Kernel THEN KBits ELSE UBits) /\ IsFiniteSet(free) /\ free \in SUBSET Int
  <2>1. free \in SUBSET (IF s = Kernel THEN KBits ELSE UBits)
    BY <1>1 DEF FreeK, FreeU
  <2>2. IsFiniteSet(IF s = Kernel THEN KBits ELSE UBits)
    BY BitsApart
  <2>3. IsFiniteSet(free)
    BY <2>1, <2>2, FS_Subset
  <2> QED
    BY <2>1, <2>3, BitsApart
<1>5. run \in SUBSET Int /\ IsFiniteSet(run)
  BY BitsApart, FS_Subset
<1>6. /\ \A v \in run : to[v] \in free
      /\ \A v, w \in run : to[v] = to[w] => v = w
      /\ Lowest(free, Cardinality(run)) = {to[v] : v \in run}
  BY <1>1, <1>2, <1>4, <1>5, GrantExact
<1>7. /\ vbits' = [vbits EXCEPT ![s] = vbits[s] \cup run]
      /\ pte' = [pte EXCEPT ![s] = [v \in VSpace |-> IF v \in run THEN to[v] ELSE pte[s][v]]]
      /\ kbits' = IF s = Kernel THEN kbits \cup {to[v] : v \in run} ELSE kbits
      /\ ubits' = IF s = Kernel THEN ubits ELSE ubits \cup {to[v] : v \in run}
  BY <1>1, <1>2, <1>6 DEF MallocPage
<1>8. table' = table /\ kown' = kown /\ starting' = starting
  OBVIOUS
<1>9. /\ \A u \in Spaces : u # s => vbits'[u] = vbits[u] /\ pte'[u] = pte[u]
      /\ vbits'[s] = vbits[s] \cup run
      /\ \A v \in VSpace : pte'[s][v] = IF v \in run THEN to[v] ELSE pte[s][v]
  BY <1>3, <1>7 DEF PageTypes
<1>10. \A v \in run : to[v] \in (IF s = Kernel THEN FreeK ELSE FreeU) /\ to[v] # -1
  BY <1>1, <1>4, <1>6, BitsApart
<1>11. s # Kernel => s \in Procs /\ starting = NULL /\ table[First] # -1
  BY <1>3 DEF PagesAgree
<1>12. raced' \in BOOLEAN /\ (~raced' => ~raced /\ (starting' # NULL => starting'.table \notin kbits'))
  BY <1>3, RacesKept DEF PageTypes
<1>13. PageTypes'
  <2>1. kbits' \subseteq KBits /\ ubits' \subseteq UBits
    BY <1>3, <1>7, <1>10 DEF PageTypes, FreeK, FreeU
  <2>2. vbits' \in [Spaces -> SUBSET VSpace]
    BY <1>3, <1>7 DEF PageTypes
  <2>3. \A v \in VSpace : (IF v \in run THEN to[v] ELSE pte[s][v]) \in KBits \cup UBits \cup {-1}
    BY <1>3, <1>10 DEF PageTypes, FreeK, FreeU
  <2>4. pte' \in [Spaces -> [VSpace -> KBits \cup UBits \cup {-1}]]
    BY <1>3, <1>7, <2>3 DEF PageTypes
  <2> QED
    BY <1>3, <1>8, <1>12, <2>1, <2>2, <2>4 DEF PageTypes
<1>14. PagesAgree'
  <2>1. \A v \in VSpace : pte'[Kernel][v] \in KBits \cup {-1}
    BY <1>3, <1>9, <1>10 DEF PagesAgree, FreeK
  <2>2. \A p \in Procs : \A v \in VSpace : pte'[p][v] \in UBits \cup {-1}
    BY <1>3, <1>9, <1>10 DEF PagesAgree, FreeU
  <2>3. \A p \in Procs : table'[p] = -1 => \A v \in VSpace : pte'[p][v] = -1
    BY <1>3, <1>8, <1>9 DEF PagesAgree
  <2>4. \A p \in Procs : table'[p] # -1 => Exists(p)' /\ table'[First] # -1
    BY <1>3, <1>8 DEF PagesAgree, Exists
  <2>5. Exists(First)' /\ (starting' # NULL => table'[First] = -1 /\ vbits'[First] = {Stack})
    BY <1>3, <1>8, <1>9, <1>11 DEF PagesAgree, Exists
  <2>6. ASSUME starting' = NULL, table'[First] = -1 PROVE ubits' = {} /\ ~raced'
    <3>1. s = Kernel /\ starting = NULL /\ ubits = {} /\ ~raced
      BY <1>3, <1>8, <1>11, <2>6 DEF PagesAgree
    <3>2. ~raced'
      <4>1. raced' = (raced \/ (starting' # NULL /\ starting'.table \in kbits'))
        BY DEF Races
      <4> QED
        BY <4>1, <3>1, <2>6, Zenon
    <3> QED
      BY <3>1, <3>2, <1>7
  <2> QED
    BY <2>1, <2>2, <2>3, <2>4, <2>5, <2>6 DEF PagesAgree
<1>15. VaddrExact'
  <2>1. ASSUME NEW u \in Spaces, starting' = NULL \/ u # First
        PROVE  vbits'[u] = {v \in VSpace : pte'[u][v] # -1}
    <3>1. vbits[u] = {v \in VSpace : pte[u][v] # -1}
      BY <1>3, <1>8, <2>1 DEF VaddrExact
    <3>2. CASE u # s
      BY <3>1, <3>2, <1>9
    <3>3. CASE u = s
      BY <3>1, <3>3, <1>9, <1>10
    <3> QED
      BY <3>2, <3>3
  <2> QED
    BY <2>1 DEF VaddrExact
<1>16. \A v \in run : pte[s][v] = -1
  <2>1. starting = NULL \/ s # First
    BY <1>3, <1>11
  <2>2. vbits[s] = {v \in VSpace : pte[s][v] # -1}
    BY <1>3, <2>1 DEF VaddrExact
  <2> QED
    BY <2>2
<1>17. ASSUME ~raced' PROVE KernelExact'
  <2>0. KernelExact /\ (starting' # NULL => starting'.table \notin kbits')
    BY <1>3, <1>12, <1>17
  <2>1. CASE s # Kernel
    <3>1. pte'[Kernel] = pte[Kernel] /\ kbits' = kbits
      BY <1>3, <1>7, <1>9, <2>1
    <3> QED
      BY <2>0, <1>8, <3>1 DEF KernelExact
  <2>2. CASE s = Kernel
    <3>1. /\ \A v \in VSpace : pte'[Kernel][v] = IF v \in run THEN to[v] ELSE pte[Kernel][v]
          /\ kbits' = kbits \cup {to[v] : v \in run}
          /\ \A v \in run : to[v] \in KBits /\ to[v] \notin kbits
          /\ \A v \in VSpace : pte[Kernel][v] \in KBits \cup {-1}
          /\ \A p \in Procs : table[p] \in KBits \cup {-1}
      BY <1>3, <1>7, <1>9, <1>10, <2>2 DEF FreeK, PagesAgree, PageTypes
    <3>2. \A v \in run : (\A w \in VSpace : pte[Kernel][w] # to[v]) /\ \A p \in Procs : table[p] # to[v]
      BY <2>0, <3>1 DEF KernelExact
    <3>3. \A v, w \in VSpace : pte'[Kernel][v] # -1 /\ pte'[Kernel][v] = pte'[Kernel][w] => v = w
      <4>1. ASSUME NEW v \in VSpace, NEW w \in VSpace,
                   pte'[Kernel][v] # -1, pte'[Kernel][v] = pte'[Kernel][w]
            PROVE  v = w
        <5>1. CASE v \in run /\ w \in run
          BY <5>1, <4>1, <3>1, <1>6
        <5>2. CASE v \in run /\ w \notin run
          BY <5>2, <4>1, <3>1, <3>2
        <5>3. CASE v \notin run /\ w \in run
          BY <5>3, <4>1, <3>1, <3>2
        <5>4. CASE v \notin run /\ w \notin run
          BY <5>4, <4>1, <3>1, <2>0 DEF KernelExact
        <5> QED
          BY <5>1, <5>2, <5>3, <5>4
      <4> QED
        BY <4>1
    <3>4. \A p, q \in Procs : table'[p] # -1 /\ table'[p] = table'[q] => p = q
      BY <1>8, <2>0 DEF KernelExact
    <3>5. \A p \in Procs : \A v \in VSpace : table'[p] # -1 => table'[p] # pte'[Kernel][v]
      BY <1>8, <2>0, <3>1, <3>2 DEF KernelExact
    <3>6. ASSUME NEW f \in KBits
          PROVE  f \in kbits' <=> \/ \E v \in VSpace : pte'[Kernel][v] = f
                                  \/ \E p \in Procs : table'[p] = f
      <4>0. f \in kbits <=> \/ \E v \in VSpace : pte[Kernel][v] = f
                            \/ \E p \in Procs : table[p] = f
        BY <2>0 DEF KernelExact
      <4>1. ASSUME f \in kbits' PROVE \/ \E v \in VSpace : pte'[Kernel][v] = f
                                      \/ \E p \in Procs : table'[p] = f
        <5>1. CASE f \in kbits
          <6>1. ASSUME NEW v \in VSpace, pte[Kernel][v] = f PROVE pte'[Kernel][v] = f
            BY <6>1, <3>1, <1>16, <2>2, BitsApart
          <6> QED
            BY <5>1, <4>0, <6>1, <1>8
        <5>2. CASE f \notin kbits
          BY <5>2, <4>1, <3>1
        <5> QED
          BY <5>1, <5>2
      <4>2. ASSUME NEW v \in VSpace, pte'[Kernel][v] = f PROVE f \in kbits'
        BY <4>2, <3>1, <4>0
      <4>3. ASSUME NEW p \in Procs, table'[p] = f PROVE f \in kbits'
        BY <4>3, <3>1, <4>0, <1>8
      <4> QED
        BY <4>1, <4>2, <4>3
    <3> QED
      BY <2>0, <3>3, <3>4, <3>5, <3>6 DEF KernelExact
  <2> QED
    BY <2>1, <2>2
<1>18. ASSUME ~raced' PROVE UserExact'
  <2>0. UserExact
    BY <1>3, <1>12, <1>18
  <2>1. CASE s = Kernel
    <3>1. (\A p \in Procs : pte'[p] = pte[p]) /\ ubits' = ubits
      BY <1>3, <1>7, <1>9, <2>1
    <3> QED
      BY <2>0, <1>8, <3>1 DEF UserExact
  <2>2. CASE s # Kernel
    <3>1. /\ s \in Procs /\ starting' = NULL
          /\ \A v \in VSpace : pte'[s][v] = IF v \in run THEN to[v] ELSE pte[s][v]
          /\ \A p \in Procs : p # s => pte'[p] = pte[p]
          /\ ubits' = ubits \cup {to[v] : v \in run}
          /\ \A v \in run : to[v] \in UBits /\ to[v] \notin ubits
          /\ \A p \in Procs : \A v \in VSpace : pte[p][v] \in UBits \cup {-1}
      BY <1>3, <1>7, <1>8, <1>9, <1>10, <1>11, <2>2 DEF FreeU, PagesAgree
    <3>2. \A v \in run : \A q \in Procs : \A w \in VSpace : pte[q][w] # to[v]
      BY <2>0, <3>1 DEF UserExact
    <3>3. ASSUME NEW p \in Procs, NEW q \in Procs, NEW v \in VSpace, NEW w \in VSpace,
                 pte'[p][v] # -1, pte'[p][v] = pte'[q][w]
          PROVE  p = q /\ v = w
      <4>1. CASE p = s /\ v \in run /\ q = s /\ w \in run
        BY <4>1, <3>3, <3>1, <1>6
      <4>2. CASE p = s /\ v \in run /\ ~(q = s /\ w \in run)
        BY <4>2, <3>3, <3>1, <3>2
      <4>3. CASE ~(p = s /\ v \in run) /\ q = s /\ w \in run
        BY <4>3, <3>3, <3>1, <3>2
      <4>4. CASE ~(p = s /\ v \in run) /\ ~(q = s /\ w \in run)
        <5>1. pte'[p][v] = pte[p][v] /\ pte'[q][w] = pte[q][w]
          BY <4>4, <3>1
        <5>2. pte[p][v] # -1 /\ pte[p][v] = pte[q][w]
          BY <5>1, <3>3
        <5>3. \A a, b \in Procs : \A x, y \in VSpace :
                 pte[a][x] # -1 /\ pte[a][x] = pte[b][y] => a = b /\ x = y
          BY <2>0 DEF UserExact
        <5> QED
          BY <5>2, <5>3
      <4> QED
        BY <4>1, <4>2, <4>3, <4>4
    <3>4. ASSUME NEW f \in UBits
          PROVE  f \in ubits' <=> \/ \E p \in Procs : \E v \in VSpace : pte'[p][v] = f
                                  \/ starting' # NULL /\ starting'.page = f
      <4>0. f \in ubits <=> \E p \in Procs : \E v \in VSpace : pte[p][v] = f
        BY <2>0, <3>1, <1>8 DEF UserExact
      <4>1. ASSUME f \in ubits' PROVE \E p \in Procs : \E v \in VSpace : pte'[p][v] = f
        <5>1. CASE f \in ubits
          <6>1. PICK p \in Procs, v \in VSpace : pte[p][v] = f
            BY <5>1, <4>0
          <6>2. pte'[p][v] = f
            BY <6>1, <3>1, <1>16, BitsApart
          <6> QED
            BY <6>2
        <5>2. CASE f \notin ubits
          BY <5>2, <4>1, <3>1
        <5> QED
          BY <5>1, <5>2
      <4>2. ASSUME NEW p \in Procs, NEW v \in VSpace, pte'[p][v] = f PROVE f \in ubits'
        <5>1. CASE p = s /\ v \in run
          BY <5>1, <4>2, <3>1
        <5>2. CASE ~(p = s /\ v \in run)
          <6>1. pte[p][v] = f
            BY <5>2, <4>2, <3>1
          <6> QED
            BY <6>1, <4>0, <3>1
        <5> QED
          BY <5>1, <5>2
      <4> QED
        BY <4>1, <4>2, <3>1
    <3> QED
      BY <3>3, <3>4 DEF UserExact
  <2> QED
    BY <2>1, <2>2
<1> QED
  BY <1>9, <1>10, <1>13, <1>14, <1>15, <1>17, <1>18 DEF PageInv

(* mfree_page, for any pages: those that are not mapped stay so. *)
LEMMA MfreePageKeeps ==
    ASSUME PageInv, NEW s \in Spaces, NEW run \in SUBSET VSpace,
           s \in Procs => table[s] # -1,
           MfreePage(s, run), UNCHANGED <<table, starting>>, Races,
           kown' \in [Procs -> SUBSET KBits], kown'[First] # {},
           \A p \in Procs : table[p] # -1 => kown'[p] # {}
    PROVE  /\ PageInv'
           /\ \A u \in Spaces : \A v \in VSpace :
                 pte'[u][v] = IF u = s /\ v \in run THEN -1 ELSE pte[u][v]
<1>1. /\ PageTypes /\ PagesAgree /\ VaddrExact /\ (~raced => KernelExact /\ UserExact)
      /\ Kernel \in Spaces /\ Kernel \notin Procs /\ First \in Procs
      /\ Spaces = Procs \cup {Kernel}
  BY MemAssumption DEF PageInv, Spaces
<1>2. PICK frames : frames = {pte[s][v] : v \in run}
  OBVIOUS
<1>3. /\ kbits' = kbits \ frames /\ ubits' = ubits \ frames
      /\ pte' = [pte EXCEPT ![s] = [v \in VSpace |-> IF v \in run THEN -1 ELSE pte[s][v]]]
      /\ vbits' = [vbits EXCEPT ![s] = vbits[s] \ run]
  BY <1>2 DEF MfreePage, Pfree
<1>4. table' = table /\ starting' = starting
  OBVIOUS
<1>5. /\ \A u \in Spaces : \A v \in VSpace :
            pte'[u][v] = IF u = s /\ v \in run THEN -1 ELSE pte[u][v]
      /\ \A u \in Spaces : u # s => vbits'[u] = vbits[u] /\ pte'[u] = pte[u]
      /\ vbits'[s] = vbits[s] \ run
  BY <1>1, <1>3 DEF PageTypes
<1>6. s # Kernel => s \in Procs /\ starting = NULL /\ table[First] # -1
  BY <1>1 DEF PagesAgree
<1>7. raced' \in BOOLEAN /\ (~raced' => ~raced /\ (starting' # NULL => starting'.table \notin kbits'))
  BY <1>1, RacesKept DEF PageTypes
<1>8. frames \subseteq IF s = Kernel THEN KBits \cup {-1} ELSE UBits \cup {-1}
  BY <1>1, <1>2 DEF PagesAgree
<1>9. (s # Kernel => kbits' = kbits) /\ (s = Kernel => ubits' = ubits)
  <2>1. kbits \subseteq KBits /\ ubits \subseteq UBits
    BY <1>1 DEF PageTypes
  <2>2. \A f : f \in KBits => f \notin UBits /\ f # -1
    BY BitsApart
  <2>3. \A f : f \in UBits => f \notin KBits /\ f # -1
    BY BitsApart
  <2>4. CASE s = Kernel
    <3>1. \A f \in ubits : f \notin frames
      BY <1>8, <2>1, <2>3, <2>4
    <3> QED
      BY <1>3, <2>4, <3>1
  <2>5. CASE s # Kernel
    <3>1. \A f \in kbits : f \notin frames
      BY <1>8, <2>1, <2>2, <2>5
    <3> QED
      BY <1>3, <2>5, <3>1
  <2> QED
    BY <2>4, <2>5
<1>10. PageTypes'
  <2>1. kbits' \subseteq KBits /\ ubits' \subseteq UBits /\ vbits' \in [Spaces -> SUBSET VSpace]
    BY <1>1, <1>3 DEF PageTypes
  <2>2. \A v \in VSpace : (IF v \in run THEN -1 ELSE pte[s][v]) \in KBits \cup UBits \cup {-1}
    BY <1>1 DEF PageTypes
  <2>3. pte' \in [Spaces -> [VSpace -> KBits \cup UBits \cup {-1}]]
    BY <1>1, <1>3, <2>2 DEF PageTypes
  <2> QED
    BY <1>1, <1>4, <1>7, <2>1, <2>3 DEF PageTypes
<1>11. PagesAgree'
  <2>1. /\ \A v \in VSpace : pte'[Kernel][v] \in KBits \cup {-1}
        /\ \A p \in Procs : \A v \in VSpace : pte'[p][v] \in UBits \cup {-1}
    BY <1>1, <1>5 DEF PagesAgree
  <2>2. \A p \in Procs : table'[p] = -1 => \A v \in VSpace : pte'[p][v] = -1
    BY <1>1, <1>4, <1>5 DEF PagesAgree
  <2>3. \A p \in Procs : table'[p] # -1 => Exists(p)' /\ table'[First] # -1
    BY <1>1, <1>4 DEF PagesAgree, Exists
  <2>4. Exists(First)' /\ (starting' # NULL => table'[First] = -1 /\ vbits'[First] = {Stack})
    BY <1>1, <1>4, <1>5, <1>6 DEF PagesAgree, Exists
  <2>5. ASSUME starting' = NULL, table'[First] = -1 PROVE ubits' = {} /\ ~raced'
    <3>1. starting = NULL /\ ubits = {} /\ ~raced
      BY <1>1, <1>4, <2>5 DEF PagesAgree
    <3>2. ~raced'
      <4>1. raced' = (raced \/ (starting' # NULL /\ starting'.table \in kbits'))
        BY DEF Races
      <4> QED
        BY <4>1, <3>1, <2>5, Zenon
    <3> QED
      BY <3>1, <3>2, <1>3
  <2> QED
    BY <2>1, <2>2, <2>3, <2>4, <2>5 DEF PagesAgree
<1>12. VaddrExact'
  <2>1. ASSUME NEW u \in Spaces, starting' = NULL \/ u # First
        PROVE  vbits'[u] = {v \in VSpace : pte'[u][v] # -1}
    <3>1. vbits[u] = {v \in VSpace : pte[u][v] # -1}
      BY <1>1, <1>4, <2>1 DEF VaddrExact
    <3>2. CASE u # s
      BY <3>1, <3>2, <1>5
    <3>3. CASE u = s
      BY <3>1, <3>3, <1>5
    <3> QED
      BY <3>2, <3>3
  <2> QED
    BY <2>1 DEF VaddrExact
<1>13. ASSUME ~raced' PROVE KernelExact'
  <2>0. KernelExact /\ (starting' # NULL => starting'.table \notin kbits')
    BY <1>1, <1>7, <1>13
  <2>1. CASE s # Kernel
    <3>1. pte'[Kernel] = pte[Kernel] /\ kbits' = kbits
      BY <1>1, <1>5, <1>9, <2>1
    <3> QED
      BY <2>0, <1>4, <3>1 DEF KernelExact
  <2>2. CASE s = Kernel
    <3>1. \A v \in VSpace : pte'[Kernel][v] = IF v \in run THEN -1 ELSE pte[Kernel][v]
      BY <1>1, <1>5, <2>2
    <3>2. /\ \A v, w \in VSpace : pte'[Kernel][v] # -1 /\ pte'[Kernel][v] = pte'[Kernel][w] => v = w
          /\ \A p, q \in Procs : table'[p] # -1 /\ table'[p] = table'[q] => p = q
          /\ \A p \in Procs : \A v \in VSpace : table'[p] # -1 => table'[p] # pte'[Kernel][v]
      BY <1>4, <2>0, <3>1 DEF KernelExact
    <3>3. ASSUME NEW f \in KBits
          PROVE  f \in kbits' <=> \/ \E v \in VSpace : pte'[Kernel][v] = f
                                  \/ \E p \in Procs : table'[p] = f
      <4>0. f \in kbits <=> \/ \E v \in VSpace : pte[Kernel][v] = f
                            \/ \E p \in Procs : table[p] = f
        BY <2>0 DEF KernelExact
      <4>1. f \in kbits' <=> f \in kbits /\ \A v \in run : pte[Kernel][v] # f
        BY <1>2, <1>3, <2>2
      <4>2. f # -1
        BY BitsApart
      <4>3. ASSUME f \in kbits' PROVE \/ \E v \in VSpace : pte'[Kernel][v] = f
                                      \/ \E p \in Procs : table'[p] = f
        BY <4>0, <4>1, <4>3, <3>1, <1>4
      <4>4. ASSUME NEW v \in VSpace, pte'[Kernel][v] = f PROVE f \in kbits'
        <5>1. v \notin run /\ pte[Kernel][v] = f
          BY <4>2, <4>4, <3>1
        <5>2. \A w \in run : pte[Kernel][w] # f
          BY <5>1, <4>2, <2>0 DEF KernelExact
        <5> QED
          BY <5>1, <5>2, <4>0, <4>1
      <4>5. ASSUME NEW p \in Procs, table'[p] = f PROVE f \in kbits'
        <5>1. \A w \in run : pte[Kernel][w] # f
          BY <4>5, <4>2, <1>4, <2>0 DEF KernelExact
        <5> QED
          BY <5>1, <4>5, <1>4, <4>0, <4>1
      <4> QED
        BY <4>3, <4>4, <4>5
    <3> QED
      BY <2>0, <3>2, <3>3 DEF KernelExact
  <2> QED
    BY <2>1, <2>2
<1>14. ASSUME ~raced' PROVE UserExact'
  <2>0. UserExact
    BY <1>1, <1>7, <1>14
  <2>a. \A a, b \in Procs : \A x, y \in VSpace :
           pte[a][x] # -1 /\ pte[a][x] = pte[b][y] => a = b /\ x = y
    BY <2>0 DEF UserExact
  <2>1. CASE s = Kernel
    <3>1. (\A p \in Procs : pte'[p] = pte[p]) /\ ubits' = ubits
      BY <1>1, <1>5, <1>9, <2>1
    <3> QED
      BY <2>0, <1>4, <3>1 DEF UserExact
  <2>2. CASE s # Kernel
    <3>0. s \in Procs /\ starting = NULL
      BY <1>6, <2>2
    <3>1. \A p \in Procs : \A v \in VSpace :
             pte'[p][v] = IF p = s /\ v \in run THEN -1 ELSE pte[p][v]
      BY <1>1, <1>5
    <3>2. ASSUME NEW p \in Procs, NEW q \in Procs, NEW v \in VSpace, NEW w \in VSpace,
                 pte'[p][v] # -1, pte'[p][v] = pte'[q][w]
          PROVE  p = q /\ v = w
      <4>1. pte[p][v] # -1 /\ pte[p][v] = pte[q][w]
        BY <3>1, <3>2
      <4> QED
        BY <4>1, <2>a
    <3>3. ASSUME NEW f \in UBits
          PROVE  f \in ubits' <=> \/ \E p \in Procs : \E v \in VSpace : pte'[p][v] = f
                                  \/ starting' # NULL /\ starting'.page = f
      <4>0. f \in ubits <=> \E p \in Procs : \E v \in VSpace : pte[p][v] = f
        BY <2>0, <3>0 DEF UserExact
      <4>1. f \in ubits' <=> f \in ubits /\ \A v \in run : pte[s][v] # f
        BY <1>2, <1>3
      <4>2. f # -1
        BY BitsApart
      <4>3. ASSUME f \in ubits' PROVE \E p \in Procs : \E v \in VSpace : pte'[p][v] = f
        BY <4>0, <4>1, <4>3, <3>1
      <4>4. ASSUME NEW p \in Procs, NEW v \in VSpace, pte'[p][v] = f PROVE f \in ubits'
        <5>1. ~(p = s /\ v \in run) /\ pte[p][v] = f
          BY <4>2, <4>4, <3>1
        <5>2. \A w \in run : pte[s][w] # f
          BY <5>1, <4>2, <2>a, <3>0
        <5> QED
          BY <5>1, <5>2, <4>0, <4>1
      <4> QED
        BY <4>3, <4>4, <3>0, <1>4
    <3> QED
      BY <3>2, <3>3 DEF UserExact
  <2> QED
    BY <2>1, <2>2
<1> QED
  BY <1>5, <1>10, <1>11, <1>12, <1>13, <1>14 DEF PageInv

(* A step that leaves all pages alone. *)
LEMMA SamePages ==
    ASSUME PageInv, UNCHANGED <<kbits, ubits, vbits, pte, table, kown, starting>>, Races
    PROVE  PageInv'
<1>1. PageTypes /\ PagesAgree /\ VaddrExact /\ (~raced => KernelExact /\ UserExact)
  BY DEF PageInv
<1>2. raced' \in BOOLEAN /\ (~raced' => ~raced)
  BY <1>1, RacesKept DEF PageTypes
<1>3. PageTypes'
  BY <1>1, <1>2 DEF PageTypes
<1>4. PagesAgree'
  <2>1. ASSUME starting' = NULL, table'[First] = -1 PROVE ubits' = {} /\ ~raced'
    <3>1. ubits = {} /\ ~raced
      BY <1>1, <2>1 DEF PagesAgree
    <3>2. ~raced'
      <4>1. raced' = (raced \/ (starting' # NULL /\ starting'.table \in kbits'))
        BY DEF Races
      <4> QED
        BY <4>1, <3>1, <2>1, Zenon
    <3> QED
      BY <3>1, <3>2
  <2> QED
    BY <1>1, <2>1 DEF PagesAgree, Exists
<1>5. VaddrExact'
  BY <1>1 DEF VaddrExact
<1>6. ASSUME ~raced' PROVE KernelExact' /\ UserExact'
  BY <1>1, <1>2, <1>6 DEF KernelExact, UserExact
<1> QED
  BY <1>3, <1>4, <1>5, <1>6 DEF PageInv

(* start_process finds a page, and nothing of a process is mapped yet. *)
LEMMA StartScanKeeps ==
    ASSUME PageInv, StartScan, Races
    PROVE  PageInv'
<1>1. /\ PageTypes /\ PagesAgree /\ VaddrExact /\ (~raced => KernelExact /\ UserExact)
      /\ Kernel \in Spaces /\ Kernel \notin Procs /\ First \in Procs
      /\ Spaces = Procs \cup {Kernel} /\ First \in Spaces /\ First # Kernel
  BY MemAssumption DEF PageInv, Spaces
<1>2. table[First] = -1 /\ starting = NULL /\ ubits = {} /\ ~raced /\ Exists(First)
  BY <1>1 DEF StartScan, PagesAgree
<1>3. CASE FreeK = {}
  <2>1. UNCHANGED <<kbits, ubits, vbits, pte, table, kown, starting>>
    BY <1>3 DEF StartScan, Exhausted
  <2> QED
    BY <2>1, SamePages
<1>4. CASE FreeK # {}
  <2>1. /\ vbits' = [vbits EXCEPT ![First] = vbits[First] \cup {Stack}]
        /\ ubits' = ubits \cup Lowest(FreeU, 1)
        /\ starting' = [table |-> Nth(1, FreeK), page |-> Nth(1, FreeU)]
        /\ UNCHANGED <<kbits, pte, table, kown>>
    BY <1>4 DEF StartScan
  <2>2. Nth(1, FreeK) \in FreeK
    <3>1. FreeK \in SUBSET KBits
      BY DEF FreeK
    <3>2. IsFiniteSet(FreeK) /\ FreeK \in SUBSET Int
      BY <3>1, BitsApart, FS_Subset
    <3> QED
      BY <3>2, <1>4, FirstIsLeast
  <2>3. FreeU = UBits /\ Nth(1, FreeU) \in UBits /\ Lowest(FreeU, 1) = {Nth(1, FreeU)}
    <3>1. FreeU = UBits /\ UBits \in SUBSET Int /\ IsFiniteSet(UBits) /\ UBits # {}
      BY <1>2, BitsApart DEF FreeU
    <3>2. Cardinality(UBits) \in Nat /\ Cardinality(UBits) # 0
      BY <3>1, FS_CardinalityType, FS_EmptySet
    <3>3. 1 \in 1 .. Cardinality(UBits)
      BY <3>2
    <3>4. Nth(1, UBits) \in UBits /\ Rank(Nth(1, UBits), UBits) = 1
      BY <3>1, <3>3, NthIn
    <3>5. \A x \in UBits : Rank(x, UBits) \in 1 .. Cardinality(UBits)
      BY <3>1, RankType
    <3>6. \A x \in UBits : Rank(x, UBits) <= 1 => x = Nth(1, UBits)
      <4>1. ASSUME NEW x \in UBits, Rank(x, UBits) <= 1 PROVE x = Nth(1, UBits)
        <5>1. Rank(x, UBits) = Rank(Nth(1, UBits), UBits)
          BY <3>2, <3>4, <3>5, <4>1
        <5> QED
          BY <5>1, <3>1, <3>4, RankOnce
      <4> QED
        BY <4>1
    <3>7. Lowest(UBits, 1) = {Nth(1, UBits)}
      BY <3>4, <3>6 DEF Lowest
    <3> QED
      BY <3>1, <3>4, <3>7
  <2>4. PICK t \in KBits, g \in UBits :
           /\ starting' = [table |-> t, page |-> g] /\ t \notin kbits /\ ubits' = {g}
    <3>1. Nth(1, FreeK) \in KBits /\ Nth(1, FreeK) \notin kbits
      BY <2>2 DEF FreeK
    <3>2. ubits' = {Nth(1, FreeU)}
      BY <2>1, <2>3, <1>2
    <3> QED
      BY <2>1, <2>3, <3>1, <3>2
  <2>5. /\ starting' \in Starts /\ starting' # NULL
        /\ starting'.table = t /\ starting'.page = g
    <3>1. starting' \in Starts
      BY <2>4 DEF Starts
    <3>2. NULL \notin Starts
      BY MemAssumption
    <3> QED
      BY <2>4, <3>1, <3>2
  <2>6. kbits' = kbits /\ pte' = pte /\ table' = table /\ kown' = kown
    BY <2>1
  <2>7. raced' \in BOOLEAN
    BY <1>1, RacesKept DEF PageTypes
  <2>8. PageTypes'
    BY <1>1, <2>1, <2>4, <2>5, <2>6, <2>7, BitsApart DEF PageTypes
  <2>9. PagesAgree'
    <3>1. \A v \in VSpace : pte[First][v] = -1
      BY <1>1, <1>2 DEF PagesAgree
    <3>2. vbits[First] = {v \in VSpace : pte[First][v] # -1}
      BY <1>1, <1>2 DEF VaddrExact
    <3>3. vbits'[First] = {Stack}
      BY <1>1, <2>1, <3>1, <3>2 DEF PageTypes
    <3> QED
      BY <1>1, <1>2, <2>5, <2>6, <3>3 DEF PagesAgree, Exists
  <2>10. VaddrExact'
    <3>1. ASSUME NEW u \in Spaces, u # First
          PROVE  vbits'[u] = {v \in VSpace : pte'[u][v] # -1}
      <4>1. vbits'[u] = vbits[u]
        BY <1>1, <2>1, <3>1 DEF PageTypes
      <4> QED
        BY <4>1, <1>1, <2>6, <3>1 DEF VaddrExact
    <3> QED
      BY <3>1, <2>5 DEF VaddrExact
  <2>11. KernelExact'
    BY <1>1, <1>2, <2>4, <2>5, <2>6 DEF KernelExact
  <2>12. UserExact'
    <3>1. \A p \in Procs : \A v \in VSpace : pte'[p][v] = -1
      BY <1>1, <1>2, <2>6 DEF PagesAgree
    <3> QED
      BY <3>1, <2>4, <2>5, BitsApart DEF UserExact
  <2> QED
    BY <2>8, <2>9, <2>10, <2>11, <2>12 DEF PageInv
<1> QED
  BY <1>3, <1>4

LEMMA StartSetKeeps ==
    ASSUME PageInv, StartSet, Races
    PROVE  PageInv'
<1>1. /\ PageTypes /\ PagesAgree /\ VaddrExact /\ (~raced => KernelExact /\ UserExact)
      /\ Kernel \in Spaces /\ Kernel \notin Procs /\ First \in Procs
      /\ Spaces = Procs \cup {Kernel} /\ First \in Spaces /\ First # Kernel
  BY MemAssumption DEF PageInv, Spaces
<1>2. starting # NULL /\ table[First] = -1
  BY <1>1 DEF StartSet, PagesAgree
<1>3. PICK t \in KBits, g \in UBits : starting.table = t /\ starting.page = g
  BY <1>1, <1>2 DEF PageTypes, Starts
<1>4. /\ kbits' = kbits \cup {t} /\ ubits' = ubits /\ vbits' = vbits /\ kown' = kown
      /\ table' = [table EXCEPT ![First] = t]
      /\ pte' = [pte EXCEPT ![First] = [pte[First] EXCEPT ![Stack] = g]]
      /\ starting' = NULL
  BY <1>3 DEF StartSet
<1>5. /\ \A p \in Procs : table'[p] = IF p = First THEN t ELSE -1
      /\ \A p \in Procs : \A v \in VSpace :
            pte'[p][v] = IF p = First /\ v = Stack THEN g ELSE -1
      /\ pte'[Kernel] = pte[Kernel]
      /\ \A p \in Procs : table[p] = -1 /\ \A v \in VSpace : pte[p][v] = -1
  <2>1. \A p \in Procs : table[p] = -1
    BY <1>1, <1>2 DEF PagesAgree
  <2>2. \A p \in Procs : \A v \in VSpace : pte[p][v] = -1
    BY <1>1, <2>1 DEF PagesAgree
  <2>3. \A p \in Procs : table'[p] = IF p = First THEN t ELSE -1
    BY <1>1, <1>4, <2>1 DEF PageTypes
  <2>4. pte'[Kernel] = pte[Kernel] /\ \A p \in Procs : p # First => pte'[p] = pte[p]
    BY <1>1, <1>4 DEF PageTypes
  <2>5. \A v \in VSpace : pte'[First][v] = IF v = Stack THEN g ELSE -1
    <3>1. pte'[First] = [pte[First] EXCEPT ![Stack] = g]
      BY <1>1, <1>4 DEF PageTypes
    <3>2. pte[First] \in [VSpace -> KBits \cup UBits \cup {-1}]
      BY <1>1 DEF PageTypes
    <3> QED
      BY <1>1, <2>2, <3>1, <3>2
  <2> QED
    BY <2>1, <2>2, <2>3, <2>4, <2>5
<1>6. t # -1 /\ g # -1 /\ Stack \in VSpace
  BY BitsApart
<1>7. raced' \in BOOLEAN /\ (~raced' => ~raced)
  BY <1>1, RacesKept DEF PageTypes
<1>8. PageTypes'
  <2>1. pte' \in [Spaces -> [VSpace -> KBits \cup UBits \cup {-1}]]
    <3>1. [pte[First] EXCEPT ![Stack] = g] \in [VSpace -> KBits \cup UBits \cup {-1}]
      BY <1>1 DEF PageTypes
    <3> QED
      BY <1>1, <1>4, <3>1 DEF PageTypes
  <2> QED
    BY <1>1, <1>4, <1>7, <2>1 DEF PageTypes
<1>9. PagesAgree'
  BY <1>1, <1>4, <1>5, <1>6 DEF PagesAgree, Exists
<1>10. VaddrExact'
  <2>1. ASSUME NEW u \in Spaces, u # First
        PROVE  vbits'[u] = {v \in VSpace : pte'[u][v] # -1}
    <3>1. pte'[u] = pte[u]
      BY <1>1, <1>4, <2>1 DEF PageTypes
    <3> QED
      BY <3>1, <1>1, <1>4, <2>1 DEF VaddrExact
  <2>2. vbits'[First] = {v \in VSpace : pte'[First][v] # -1}
    <3>1. vbits'[First] = {Stack}
      BY <1>1, <1>2, <1>4 DEF PagesAgree
    <3> QED
      BY <3>1, <1>1, <1>5, <1>6
  <2> QED
    BY <2>1, <2>2 DEF VaddrExact
<1>11. ASSUME ~raced' PROVE KernelExact'
  <2>0. KernelExact
    BY <1>1, <1>7, <1>11
  <2>1. t \notin kbits /\ \A v \in VSpace : pte[Kernel][v] # t
    BY <2>0, <1>2, <1>3 DEF KernelExact
  <2>2. ASSUME NEW f \in KBits
        PROVE  f \in kbits' <=> \/ \E v \in VSpace : pte'[Kernel][v] = f
                                \/ \E p \in Procs : table'[p] = f
    <3>1. f \in kbits <=> \E v \in VSpace : pte[Kernel][v] = f
      BY <2>0, <1>5, BitsApart DEF KernelExact
    <3>2. (\E p \in Procs : table'[p] = f) <=> f = t
      BY <1>1, <1>5, BitsApart
    <3> QED
      BY <1>4, <1>5, <3>1, <3>2
  <2> QED
    BY <2>0, <2>1, <2>2, <1>4, <1>5 DEF KernelExact
<1>12. ASSUME ~raced' PROVE UserExact'
  <2>0. UserExact
    BY <1>1, <1>7, <1>12
  <2>1. ASSUME NEW f \in UBits
        PROVE  f \in ubits' <=> \E p \in Procs : \E v \in VSpace : pte'[p][v] = f
    <3>1. f \in ubits <=> f = g
      BY <2>0, <1>2, <1>3, <1>5, BitsApart DEF UserExact
    <3>2. (\E p \in Procs : \E v \in VSpace : pte'[p][v] = f) <=> f = g
      BY <1>1, <1>5, <1>6, BitsApart
    <3> QED
      BY <1>4, <3>1, <3>2
  <2>2. ASSUME NEW p \in Procs, NEW q \in Procs, NEW v \in VSpace, NEW w \in VSpace,
               pte'[p][v] # -1, pte'[p][v] = pte'[q][w]
        PROVE  p = q /\ v = w
    BY <1>5, <1>6, <2>2
  <2> QED
    BY <2>1, <2>2, <1>4 DEF UserExact
<1> QED
  BY <1>8, <1>9, <1>10, <1>11, <1>12 DEF PageInv

(* release_prog_resource and what sys_exit does to the pages. *)
LEMMA SysExitKeeps ==
    ASSUME PageInv, NEW p \in Procs, SysExit(p), Races
    PROVE  PageInv'
<1>1. /\ PageTypes /\ PagesAgree /\ VaddrExact /\ (~raced => KernelExact /\ UserExact)
      /\ Kernel \in Spaces /\ Kernel \notin Procs /\ First \in Procs
      /\ Spaces = Procs \cup {Kernel} /\ p \in Spaces /\ p # Kernel
  BY MemAssumption DEF PageInv, Spaces
<1>2. p # First /\ table[p] # -1 /\ table[First] # -1 /\ starting = NULL
  BY <1>1 DEF SysExit, Runs, PagesAgree
<1>3. /\ kbits' = kbits \ {table[p]} /\ ubits' = ubits \ {pte[p][v] : v \in VSpace}
      /\ pte' = [pte EXCEPT ![p] = [v \in VSpace |-> -1]]
      /\ vbits' = [vbits EXCEPT ![p] = {}]
      /\ table' = [table EXCEPT ![p] = -1]
      /\ kown' = kown /\ starting' = starting
  BY DEF SysExit, ReleaseProgResource, Pfree
<1>4. /\ \A q \in Procs : table'[q] = IF q = p THEN -1 ELSE table[q]
      /\ \A u \in Spaces : \A v \in VSpace : pte'[u][v] = IF u = p THEN -1 ELSE pte[u][v]
      /\ \A u \in Spaces : u # p => pte'[u] = pte[u] /\ vbits'[u] = vbits[u]
      /\ vbits'[p] = {}
  BY <1>1, <1>3 DEF PageTypes
<1>5. raced' \in BOOLEAN /\ (~raced' => ~raced)
  BY <1>1, RacesKept DEF PageTypes
<1>6. PageTypes'
  BY <1>1, <1>3, <1>5 DEF PageTypes
<1>7. PagesAgree'
  BY <1>1, <1>2, <1>3, <1>4 DEF PagesAgree, Exists
<1>8. VaddrExact'
  <2>1. ASSUME NEW u \in Spaces PROVE vbits'[u] = {v \in VSpace : pte'[u][v] # -1}
    <3>1. CASE u = p
      BY <3>1, <1>4
    <3>2. CASE u # p
      BY <3>2, <1>1, <1>2, <1>4 DEF VaddrExact
    <3> QED
      BY <3>1, <3>2
  <2> QED
    BY <2>1 DEF VaddrExact
<1>9. ASSUME ~raced' PROVE KernelExact'
  <2>0. KernelExact
    BY <1>1, <1>5, <1>9
  <2>1. pte'[Kernel] = pte[Kernel]
    BY <1>1, <1>4
  <2>2. ASSUME NEW f \in KBits
        PROVE  f \in kbits' <=> \/ \E v \in VSpace : pte'[Kernel][v] = f
                                \/ \E q \in Procs : table'[q] = f
    <3>1. f \in kbits <=> \/ \E v \in VSpace : pte[Kernel][v] = f
                          \/ \E q \in Procs : table[q] = f
      BY <2>0 DEF KernelExact
    <3>2. (\E q \in Procs : table'[q] = f) <=> (\E q \in Procs : table[q] = f) /\ f # table[p]
      BY <2>0, <1>2, <1>4, BitsApart DEF KernelExact
    <3>3. f = table[p] => \A v \in VSpace : pte[Kernel][v] # f
      BY <2>0, <1>2 DEF KernelExact
    <3> QED
      BY <1>3, <2>1, <3>1, <3>2, <3>3
  <2>3. /\ \A q, r \in Procs : table'[q] # -1 /\ table'[q] = table'[r] => q = r
        /\ \A q \in Procs : \A v \in VSpace : table'[q] # -1 => table'[q] # pte'[Kernel][v]
    BY <2>0, <2>1, <1>4 DEF KernelExact
  <2> QED
    BY <2>0, <2>1, <2>2, <2>3, <1>2, <1>3 DEF KernelExact
<1>10. ASSUME ~raced' PROVE UserExact'
  <2>0. UserExact
    BY <1>1, <1>5, <1>10
  <2>1. \A a, b \in Procs : \A x, y \in VSpace :
           pte[a][x] # -1 /\ pte[a][x] = pte[b][y] => a = b /\ x = y
    BY <2>0 DEF UserExact
  <2>2. \A q \in Procs : \A v \in VSpace : pte'[q][v] = IF q = p THEN -1 ELSE pte[q][v]
    BY <1>1, <1>4
  <2>3. ASSUME NEW a \in Procs, NEW b \in Procs, NEW x \in VSpace, NEW y \in VSpace,
               pte'[a][x] # -1, pte'[a][x] = pte'[b][y]
        PROVE  a = b /\ x = y
    <3>1. pte[a][x] # -1 /\ pte[a][x] = pte[b][y]
      BY <2>2, <2>3
    <3> QED
      BY <3>1, <2>1
  <2>4. ASSUME NEW f \in UBits
        PROVE  f \in ubits' <=> \E q \in Procs : \E v \in VSpace : pte'[q][v] = f
    <3>1. f \in ubits <=> \E q \in Procs : \E v \in VSpace : pte[q][v] = f
      BY <2>0, <1>2 DEF UserExact
    <3>2. f \in ubits' <=> f \in ubits /\ \A v \in VSpace : pte[p][v] # f
      BY <1>3
    <3>3. ASSUME f \in ubits' PROVE \E q \in Procs : \E v \in VSpace : pte'[q][v] = f
      <4>1. PICK q \in Procs, v \in VSpace : pte[q][v] = f
        BY <3>1, <3>2, <3>3
      <4>2. q # p
        BY <4>1, <3>2, <3>3
      <4> QED
        BY <4>1, <4>2, <2>2
    <3>4. ASSUME NEW q \in Procs, NEW v \in VSpace, pte'[q][v] = f PROVE f \in ubits'
      <4>1. q # p /\ pte[q][v] = f /\ f # -1
        BY <3>4, <2>2, BitsApart
      <4>2. \A w \in VSpace : pte[p][w] # f
        BY <4>1, <2>1
      <4> QED
        BY <4>1, <4>2, <3>1, <3>2
    <3> QED
      BY <3>3, <3>4
  <2> QED
    BY <2>3, <2>4, <1>2, <1>3 DEF UserExact
<1> QED
  BY <1>6, <1>7, <1>8, <1>9, <1>10 DEF PageInv

(* A process that has room for a buffer finds a page for something else.   *)
LEMMA RoomPage ==
    ASSUME NEW p \in Procs, NEW n \in {1, 2}, Room(p, n)
    PROVE  FreeU # {} /\ ~Full(p, 1)
<1>1. p # Kernel /\ VLen(p) = VPages
  BY MemAssumption DEF VLen
<1>2. PICK V : V = (0 .. VPages - 1) \ vbits[p]
  OBVIOUS
<1>3. n <= Cardinality(V) /\ n <= Cardinality(FreeU)
  BY <1>2 DEF Room
<1>4. Cardinality({}) = 0
  BY FS_EmptySet
<1>5. V # {} /\ FreeU # {}
  BY <1>3, <1>4
<1>6. Cardinality(FreeU) \in Nat
  BY BitsApart, FS_Subset, FS_CardinalityType DEF FreeU
<1>7. ~(Cardinality(FreeU) < 1)
  BY <1>3, <1>6
<1> QED
  BY <1>1, <1>2, <1>5, <1>7 DEF Full, VFull

(* segment_load of execv: the old page goes, and the lowest free one comes.*)
LEMMA SegmentLoadKeeps ==
    ASSUME PageInv, NEW p \in Procs, table[p] # -1, NEW z \in VSpace, SegmentLoad(p, z), Races
    PROVE  PageInv' /\ \A u \in Spaces : \A v \in VSpace : pte[u][v] # -1 => pte'[u][v] # -1
<1>0. p \in Procs
  OBVIOUS
<1>1. /\ PageTypes /\ PagesAgree /\ VaddrExact /\ (~raced => KernelExact /\ UserExact)
      /\ Kernel \in Spaces /\ Kernel \notin Procs /\ First \in Procs
      /\ Spaces = Procs \cup {Kernel} /\ p \in Spaces /\ p # Kernel
  BY MemAssumption DEF PageInv, Spaces
<1>2. table[First] # -1 /\ starting = NULL
  BY <1>1 DEF PagesAgree
<1>3. PICK was : was = pte[p][z]
  OBVIOUS
<1>4. PICK free : free = FreeU \cup ({was} \ {-1})
  OBVIOUS
<1>5. PICK x : x = Nth(1, free)
  OBVIOUS
<1>6. was \in UBits \cup {-1}
  BY <1>1, <1>3, BitsApart DEF PagesAgree
<1>7. x \in free /\ x \in UBits /\ x # -1
  <2>0. FreeU # {}
    BY <1>0, RoomPage DEF SegmentLoad, MayRead
  <2>1. free \in SUBSET UBits /\ free # {}
    BY <1>3, <1>4, <1>6, <2>0 DEF FreeU
  <2>2. free \in SUBSET Int /\ IsFiniteSet(free)
    BY <2>1, BitsApart, FS_Subset
  <2>3. x \in free
    BY <1>5, <2>1, <2>2, FirstIsLeast
  <2> QED
    BY <2>1, <2>3, BitsApart
<1>8. /\ ubits' = (ubits \ {was}) \cup {x}
      /\ vbits' = [vbits EXCEPT ![p] = vbits[p] \cup {z}]
      /\ pte' = [pte EXCEPT ![p] = [pte[p] EXCEPT ![z] = x]]
      /\ kbits' = kbits /\ table' = table /\ kown' = kown /\ starting' = starting
  BY <1>3, <1>4, <1>5 DEF SegmentLoad, Pfree
<1>9. /\ \A u \in Spaces : u # p => pte'[u] = pte[u] /\ vbits'[u] = vbits[u]
      /\ vbits'[p] = vbits[p] \cup {z}
      /\ \A v \in VSpace : pte'[p][v] = IF v = z THEN x ELSE pte[p][v]
  <2>1. pte'[p] = [pte[p] EXCEPT ![z] = x] /\ pte[p] \in [VSpace -> KBits \cup UBits \cup {-1}]
    BY <1>1, <1>8 DEF PageTypes
  <2> QED
    BY <1>1, <1>8, <2>1 DEF PageTypes
<1>10. raced' \in BOOLEAN /\ (~raced' => ~raced)
  BY <1>1, RacesKept DEF PageTypes
<1>11. PageTypes'
  <2>1. [pte[p] EXCEPT ![z] = x] \in [VSpace -> KBits \cup UBits \cup {-1}]
    BY <1>1, <1>7 DEF PageTypes
  <2>2. ubits' \subseteq UBits
    BY <1>1, <1>7, <1>8 DEF PageTypes
  <2> QED
    BY <1>1, <1>6, <1>8, <1>10, <2>1, <2>2 DEF PageTypes
<1>12. PagesAgree'
  <2>1. /\ \A v \in VSpace : pte'[Kernel][v] \in KBits \cup {-1}
        /\ \A q \in Procs : \A v \in VSpace : pte'[q][v] \in UBits \cup {-1}
    BY <1>1, <1>7, <1>9 DEF PagesAgree
  <2>2. \A q \in Procs : table'[q] = -1 => \A v \in VSpace : pte'[q][v] = -1
    BY <1>1, <1>8, <1>9 DEF PagesAgree
  <2> QED
    BY <2>1, <2>2, <1>1, <1>2, <1>8 DEF PagesAgree, Exists
<1>13. VaddrExact'
  <2>1. ASSUME NEW u \in Spaces PROVE vbits'[u] = {v \in VSpace : pte'[u][v] # -1}
    <3>0. vbits[u] = {v \in VSpace : pte[u][v] # -1}
      BY <1>1, <1>2 DEF VaddrExact
    <3>1. CASE u = p
      BY <3>0, <3>1, <1>6, <1>7, <1>9
    <3>2. CASE u # p
      BY <3>0, <3>2, <1>9
    <3> QED
      BY <3>1, <3>2
  <2> QED
    BY <2>1 DEF VaddrExact
<1>14. ASSUME ~raced' PROVE KernelExact'
  <2>1. KernelExact /\ pte'[Kernel] = pte[Kernel]
    BY <1>1, <1>9, <1>10, <1>14
  <2> QED
    BY <2>1, <1>2, <1>8 DEF KernelExact
<1>15. ASSUME ~raced' PROVE UserExact'
  <2>0. UserExact
    BY <1>1, <1>10, <1>15
  <2>1. \A a, b \in Procs : \A v, w \in VSpace :
           pte[a][v] # -1 /\ pte[a][v] = pte[b][w] => a = b /\ v = w
    BY <2>0 DEF UserExact
  <2>2. \A q \in Procs : \A v \in VSpace :
           pte'[q][v] = IF q = p /\ v = z THEN x ELSE pte[q][v]
    BY <1>1, <1>9
  <2>3. \A f \in UBits : f \in ubits <=> \E q \in Procs : \E v \in VSpace : pte[q][v] = f
    BY <2>0, <1>2 DEF UserExact
  <2>4. \A q \in Procs : \A v \in VSpace : pte[q][v] = x => q = p /\ v = z
    <3>1. ASSUME NEW q \in Procs, NEW v \in VSpace, pte[q][v] = x PROVE q = p /\ v = z
      <4>1. x \in ubits
        BY <3>1, <1>7, <2>3
      <4>2. x = pte[p][z]
        BY <4>1, <1>3, <1>4, <1>7 DEF FreeU
      <4> QED
        BY <4>2, <3>1, <2>1, <1>6, <1>7
    <3> QED
      BY <3>1
  <2>5. ASSUME NEW a \in Procs, NEW b \in Procs, NEW v \in VSpace, NEW w \in VSpace,
               pte'[a][v] # -1, pte'[a][v] = pte'[b][w]
        PROVE  a = b /\ v = w
    <3>1. CASE (a = p /\ v = z) /\ (b = p /\ w = z)
      BY <3>1
    <3>2. CASE (a = p /\ v = z) /\ ~(b = p /\ w = z)
      BY <3>2, <2>2, <2>4, <2>5
    <3>3. CASE ~(a = p /\ v = z) /\ (b = p /\ w = z)
      BY <3>3, <2>2, <2>4, <2>5
    <3>4. CASE ~(a = p /\ v = z) /\ ~(b = p /\ w = z)
      <4>1. pte[a][v] # -1 /\ pte[a][v] = pte[b][w]
        BY <3>4, <2>2, <2>5
      <4> QED
        BY <4>1, <2>1
    <3> QED
      BY <3>1, <3>2, <3>3, <3>4
  <2>6. ASSUME NEW f \in UBits
        PROVE  f \in ubits' <=> \E q \in Procs : \E v \in VSpace : pte'[q][v] = f
    <3>1. CASE f = x
      <4>1. f \in ubits' /\ pte'[p][z] = f
        BY <3>1, <1>6, <1>8, <2>2
      <4> QED
        BY <4>1, <1>6
    <3>2. CASE f # x
      <4>1. ASSUME f \in ubits' PROVE \E q \in Procs : \E v \in VSpace : pte'[q][v] = f
        <5>1. f \in ubits /\ f # was
          BY <3>2, <4>1, <1>8
        <5>2. PICK q \in Procs, v \in VSpace : pte[q][v] = f
          BY <5>1, <2>3
        <5>3. pte'[q][v] = f
          BY <5>1, <5>2, <1>3, <2>2
        <5> QED
          BY <5>3
      <4>2. ASSUME NEW q \in Procs, NEW v \in VSpace, pte'[q][v] = f PROVE f \in ubits'
        <5>1. ~(q = p /\ v = z) /\ pte[q][v] = f
          BY <3>2, <4>2, <2>2
        <5>2. f # was
          BY <5>1, <1>3, <1>6, <2>1, BitsApart
        <5> QED
          BY <5>1, <5>2, <1>8, <2>3
      <4> QED
        BY <4>1, <4>2
    <3> QED
      BY <3>1, <3>2
  <2> QED
    BY <2>5, <2>6, <1>2, <1>8 DEF UserExact
<1>16. \A u \in Spaces : \A v \in VSpace : pte[u][v] # -1 => pte'[u][v] # -1
  BY <1>7, <1>9
<1> QED
  BY <1>11, <1>12, <1>13, <1>14, <1>15, <1>16 DEF PageInv

(* What sys_fork does to the pages: new kernel pages for PCB, bitmap and   *)
(* page directory, another page for the page table, and a user page for    *)
(* every page of the parent, all of them free and no two the same.         *)
Forked(p, c, new, own, kf, tab, to) ==
    /\ new \cap vbits[Kernel] = {} /\ own \subseteq new /\ own # {}
    /\ tab \in FreeK
    /\ \A v \in new : kf[v] \in FreeK /\ kf[v] # tab
    /\ \A v, w \in new : kf[v] = kf[w] => v = w
    /\ \A v \in vbits[p] : to[v] \in FreeU
    /\ \A v, w \in vbits[p] : to[v] = to[w] => v = w
    /\ kbits' = kbits \cup {kf[v] : v \in new} \cup {tab}
    /\ ubits' = ubits \cup {to[v] : v \in vbits[p]}
    /\ vbits' = [vbits EXCEPT ![Kernel] = @ \cup new, ![c] = vbits[p]]
    /\ pte' = [pte EXCEPT ![Kernel] = [v \in VSpace |-> IF v \in new THEN kf[v] ELSE @[v]],
                          ![c] = [v \in VSpace |-> IF v \in vbits[p] THEN to[v] ELSE -1]]
    /\ table' = [table EXCEPT ![c] = tab]
    /\ kown' = [kown EXCEPT ![c] = own]
    /\ ForkHeap(p, c)
    /\ starting' = starting /\ panic' = panic

LEMMA ForkPages ==
    ASSUME PageInv, NEW p \in Procs, NEW c \in Procs, SysFork(p, c)
    PROVE  \/ Exhausted
           \/ \E new \in SUBSET KBits : \E own, kf, tab, to :
                 Forked(p, c, new, own, kf, tab, to)
<1>1. PageTypes /\ p \in Spaces /\ Kernel \in Spaces /\ 0 .. KPages - 1 = KBits
  BY DEF PageInv, Spaces, KBits
<1> DEFINE fv == (0 .. KPages - 1) \ vbits[Kernel]
           kv == Lowest(fv, 4)
           kf == Grant(kv, FreeK)
           buf == Nth(2, kv)
           tab == Nth(5, FreeK)
           to == Grant(vbits[p], FreeU)
           n == Cardinality(vbits[p])
           new == kv \ {buf}
           own == {Nth(1, kv), Nth(4, kv)}
<1>11. IF Cardinality(fv) < 4 \/ Cardinality(FreeK) < 5 \/ Cardinality(FreeU) < n
       THEN Exhausted
       ELSE /\ kbits' = kbits \cup {kf[v] : v \in new} \cup {tab}
            /\ ubits' = ubits \cup Lowest(FreeU, n)
            /\ vbits' = [vbits EXCEPT ![Kernel] = @ \cup new, ![c] = vbits[p]]
            /\ pte' = [pte EXCEPT
                  ![Kernel] = [v \in VSpace |-> IF v \in new THEN kf[v] ELSE @[v]],
                  ![c] = [v \in VSpace |-> IF v \in vbits[p] THEN to[v] ELSE -1]]
            /\ table' = [table EXCEPT ![c] = tab]
            /\ kown' = [kown EXCEPT ![c] = own]
            /\ ForkHeap(p, c)
            /\ UNCHANGED <<starting, panic>>
  BY Zenon DEF SysFork, CopyBodyStack3
<1>2. fv = KBits \ vbits[Kernel]
  BY <1>1
<1>3. /\ kv = Lowest(fv, 4) /\ kf = Grant(kv, FreeK) /\ buf = Nth(2, kv)
      /\ tab = Nth(5, FreeK) /\ to = Grant(vbits[p], FreeU)
      /\ n = Cardinality(vbits[p]) /\ new = kv \ {buf}
      /\ own = {Nth(1, kv), Nth(4, kv)}
  OBVIOUS
<1> HIDE DEF fv, kv, kf, buf, tab, to, n, new, own
<1>12. CASE Cardinality(fv) < 4 \/ Cardinality(FreeK) < 5 \/ Cardinality(FreeU) < n
  BY <1>11, <1>12
<1>13. CASE ~(Cardinality(fv) < 4 \/ Cardinality(FreeK) < 5 \/ Cardinality(FreeU) < n)
  <2>1. /\ fv \in SUBSET Int /\ IsFiniteSet(fv) /\ Cardinality(fv) \in Nat
        /\ FreeK \in SUBSET Int /\ IsFiniteSet(FreeK) /\ Cardinality(FreeK) \in Nat
        /\ FreeU \in SUBSET Int /\ IsFiniteSet(FreeU) /\ Cardinality(FreeU) \in Nat
        /\ vbits[p] \in SUBSET Int /\ IsFiniteSet(vbits[p]) /\ n \in Nat
    <3>1. fv \in SUBSET KBits /\ FreeK \in SUBSET KBits /\ FreeU \in SUBSET UBits
          /\ vbits[p] \in SUBSET VSpace
      BY <1>1, <1>2 DEF FreeK, FreeU, PageTypes
    <3>2. IsFiniteSet(fv) /\ IsFiniteSet(FreeK) /\ IsFiniteSet(FreeU) /\ IsFiniteSet(vbits[p])
      BY <3>1, BitsApart, FS_Subset
    <3>3. /\ Cardinality(fv) \in Nat /\ Cardinality(FreeK) \in Nat
          /\ Cardinality(FreeU) \in Nat /\ n \in Nat
      BY <3>2, <1>3, FS_CardinalityType
    <3> QED
      BY <3>1, <3>2, <3>3, BitsApart
  <2>2. 4 \in 0 .. Cardinality(fv) /\ 5 \in 1 .. Cardinality(FreeK) /\ n <= Cardinality(FreeU)
    BY <1>13, <2>1
  <2>3. IsFiniteSet(kv) /\ kv \in SUBSET fv /\ kv \in SUBSET Int /\ Cardinality(kv) = 4
    BY <1>3, <2>1, <2>2, LowestCount
  <2>4. /\ \A v \in kv : kf[v] \in FreeK
        /\ \A v, w \in kv : kf[v] = kf[w] => v = w
        /\ \A v \in kv : Rank(kf[v], FreeK) = Rank(v, kv)
    <3>1. Cardinality(kv) <= Cardinality(FreeK)
      BY <2>1, <2>2, <2>3
    <3> QED
      BY <1>3, <2>1, <2>3, <3>1, GrantExact
  <2>5. tab \in FreeK /\ Rank(tab, FreeK) = 5
    BY <1>3, <2>1, <2>2, NthIn
  <2>6. \A v \in kv : Rank(v, kv) \in 1 .. 4
    BY <2>3, RankType
  <2>7. \A v \in kv : kf[v] # tab
    BY <2>4, <2>5, <2>6
  <2>8. own \subseteq new /\ own # {}
    <3>1. 1 \in 1 .. Cardinality(kv) /\ 2 \in 1 .. Cardinality(kv) /\ 4 \in 1 .. Cardinality(kv)
      BY <2>3
    <3>2. /\ Nth(1, kv) \in kv /\ Rank(Nth(1, kv), kv) = 1
          /\ buf \in kv /\ Rank(buf, kv) = 2
          /\ Nth(4, kv) \in kv /\ Rank(Nth(4, kv), kv) = 4
      BY <1>3, <2>3, <3>1, NthIn
    <3>3. Nth(1, kv) # buf /\ Nth(4, kv) # buf
      BY <3>2
    <3> QED
      BY <1>3, <3>2, <3>3
  <2>9. /\ \A v \in vbits[p] : to[v] \in FreeU
        /\ \A v, w \in vbits[p] : to[v] = to[w] => v = w
        /\ Lowest(FreeU, n) = {to[v] : v \in vbits[p]}
    BY <1>3, <2>1, <2>2, GrantExact
  <2>10. new \in SUBSET KBits /\ new \cap vbits[Kernel] = {} /\ new \subseteq kv
    BY <1>2, <1>3, <2>3
  <2>11. /\ \A v \in new : kf[v] \in FreeK /\ kf[v] # tab
         /\ \A v, w \in new : kf[v] = kf[w] => v = w
    BY <2>4, <2>7, <2>10
  <2>12. Forked(p, c, new, own, kf, tab, to)
    BY <1>11, <1>13, <2>5, <2>8, <2>9, <2>10, <2>11 DEF Forked
  <2> QED
    BY <2>10, <2>12
<1> QED
  BY <1>12, <1>13

LEMMA ForkedKeeps ==
    ASSUME PageInv, NEW p \in Procs, NEW c \in Procs, Runs(p), ~Exists(c),
           NEW new \in SUBSET KBits, NEW own, NEW kf, NEW tab, NEW to,
           Forked(p, c, new, own, kf, tab, to), Races
    PROVE  PageInv'
<1>1. /\ PageTypes /\ PagesAgree /\ VaddrExact /\ (~raced => KernelExact /\ UserExact)
      /\ Kernel \in Spaces /\ Kernel \notin Procs /\ First \in Procs
      /\ Spaces = Procs \cup {Kernel} /\ p \in Spaces /\ p # Kernel /\ c \in Spaces /\ c # Kernel
  BY MemAssumption DEF PageInv, Spaces
<1>2. /\ table[p] # -1 /\ table[First] # -1 /\ starting = NULL /\ table[c] = -1
      /\ c # p /\ c # First /\ \A v \in VSpace : pte[c][v] = -1
  BY <1>1 DEF Runs, PagesAgree
<1>3. new \cap vbits[Kernel] = {} /\ own \subseteq new /\ own # {}
  BY DEF Forked
<1>4. /\ tab \in KBits /\ tab \notin kbits
      /\ \A v \in new : kf[v] \in KBits /\ kf[v] \notin kbits /\ kf[v] # tab
      /\ \A v, w \in new : kf[v] = kf[w] => v = w
      /\ \A v \in vbits[p] : to[v] \in UBits /\ to[v] \notin ubits
      /\ \A v, w \in vbits[p] : to[v] = to[w] => v = w
  BY DEF Forked, FreeK, FreeU
<1>5. /\ kbits' = kbits \cup {kf[v] : v \in new} \cup {tab}
      /\ ubits' = ubits \cup {to[v] : v \in vbits[p]}
      /\ table' = [table EXCEPT ![c] = tab]
      /\ kown' = [kown EXCEPT ![c] = own]
      /\ starting' = NULL
  BY <1>2 DEF Forked
<1>6. vbits' = [vbits EXCEPT ![Kernel] = vbits[Kernel] \cup new, ![c] = vbits[p]]
  BY DEF Forked
<1>7. pte' = [pte EXCEPT ![Kernel] = [v \in VSpace |-> IF v \in new THEN kf[v] ELSE pte[Kernel][v]],
                         ![c] = [v \in VSpace |-> IF v \in vbits[p] THEN to[v] ELSE -1]]
  BY DEF Forked
<1>8. /\ vbits'[Kernel] = vbits[Kernel] \cup new /\ vbits'[c] = vbits[p]
      /\ \A u \in Spaces : u # Kernel /\ u # c => vbits'[u] = vbits[u]
  BY <1>1, <1>6 DEF PageTypes
<1>9. /\ \A v \in VSpace : pte'[Kernel][v] = IF v \in new THEN kf[v] ELSE pte[Kernel][v]
      /\ \A v \in VSpace : pte'[c][v] = IF v \in vbits[p] THEN to[v] ELSE -1
      /\ \A u \in Spaces : u # Kernel /\ u # c => pte'[u] = pte[u]
  BY <1>1, <1>7 DEF PageTypes
<1>10. /\ \A q \in Procs : table'[q] = IF q = c THEN tab ELSE table[q]
       /\ \A q \in Procs : kown'[q] = IF q = c THEN own ELSE kown[q]
  BY <1>1, <1>5 DEF PageTypes
<1>11. raced' \in BOOLEAN /\ (~raced' => ~raced)
  BY <1>1, RacesKept DEF PageTypes
<1>12. \A v \in VSpace : v \in vbits[p] <=> pte[p][v] # -1
  BY <1>1, <1>2 DEF VaddrExact
<1>13. vbits[p] \subseteq VSpace /\ new \subseteq VSpace
  BY <1>1, BitsApart DEF PageTypes
<1>14. PageTypes'
  <2>1. kbits' \subseteq KBits /\ ubits' \subseteq UBits
    BY <1>1, <1>4, <1>5 DEF PageTypes
  <2>2. vbits' \in [Spaces -> SUBSET VSpace]
    BY <1>1, <1>6, <1>13 DEF PageTypes
  <2>3. /\ [v \in VSpace |-> IF v \in new THEN kf[v] ELSE pte[Kernel][v]]
              \in [VSpace -> KBits \cup UBits \cup {-1}]
        /\ [v \in VSpace |-> IF v \in vbits[p] THEN to[v] ELSE -1]
              \in [VSpace -> KBits \cup UBits \cup {-1}]
    BY <1>1, <1>4 DEF PageTypes
  <2>4. pte' \in [Spaces -> [VSpace -> KBits \cup UBits \cup {-1}]]
    BY <1>1, <1>7, <2>3 DEF PageTypes
  <2>5. table' \in [Procs -> KBits \cup {-1}] /\ kown' \in [Procs -> SUBSET KBits]
    BY <1>1, <1>3, <1>4, <1>5 DEF PageTypes
  <2> QED
    BY <1>5, <1>11, <2>1, <2>2, <2>4, <2>5 DEF PageTypes
<1>15. PagesAgree'
  <2>1. \A v \in VSpace : pte'[Kernel][v] \in KBits \cup {-1}
    BY <1>1, <1>4, <1>9 DEF PagesAgree
  <2>2. \A q \in Procs : \A v \in VSpace : pte'[q][v] \in UBits \cup {-1}
    BY <1>1, <1>4, <1>9 DEF PagesAgree
  <2>3. \A q \in Procs : table'[q] = -1 => \A v \in VSpace : pte'[q][v] = -1
    BY <1>1, <1>4, <1>9, <1>10, BitsApart DEF PagesAgree
  <2>4. table'[First] # -1 /\ Exists(First)'
    BY <1>1, <1>2, <1>10 DEF PagesAgree, Exists
  <2>5. \A q \in Procs : table'[q] # -1 => Exists(q)'
    BY <1>1, <1>3, <1>10 DEF PagesAgree, Exists
  <2> QED
    BY <1>5, <2>1, <2>2, <2>3, <2>4, <2>5 DEF PagesAgree
<1>16. VaddrExact'
  <2>1. ASSUME NEW u \in Spaces PROVE vbits'[u] = {v \in VSpace : pte'[u][v] # -1}
    <3>1. vbits[u] = {v \in VSpace : pte[u][v] # -1}
      BY <1>1, <1>2 DEF VaddrExact
    <3>0. (\A v \in new : kf[v] # -1) /\ (\A v \in vbits[p] : to[v] # -1)
      BY <1>4, BitsApart
    <3>2. CASE u = Kernel
      BY <3>0, <3>1, <3>2, <1>8, <1>9, <1>13
    <3>3. CASE u = c
      BY <3>0, <3>3, <1>8, <1>9, <1>13
    <3>4. CASE u # Kernel /\ u # c
      BY <3>1, <3>4, <1>8, <1>9
    <3> QED
      BY <3>2, <3>3, <3>4
  <2> QED
    BY <2>1 DEF VaddrExact
<1>17. ASSUME ~raced' PROVE KernelExact'
  <2>0. KernelExact
    BY <1>1, <1>11, <1>17
  <2>1. /\ \A v \in VSpace : pte[Kernel][v] \in KBits \cup {-1}
        /\ \A q \in Procs : table[q] \in KBits \cup {-1}
        /\ \A v \in new : pte[Kernel][v] = -1
    BY <1>1, <1>2, <1>3, <1>13 DEF PagesAgree, PageTypes, VaddrExact
  <2>2. /\ \A w \in VSpace : pte[Kernel][w] # tab /\ \A v \in new : pte[Kernel][w] # kf[v]
        /\ \A q \in Procs : table[q] # tab /\ \A v \in new : table[q] # kf[v]
    BY <2>0, <1>4 DEF KernelExact
  <2>3. ASSUME NEW v \in VSpace, NEW w \in VSpace,
               pte'[Kernel][v] # -1, pte'[Kernel][v] = pte'[Kernel][w]
        PROVE  v = w
    <3>1. CASE v \in new /\ w \in new
      BY <3>1, <2>3, <1>4, <1>9
    <3>2. CASE v \in new /\ w \notin new
      BY <3>2, <2>3, <2>2, <1>9
    <3>3. CASE v \notin new /\ w \in new
      BY <3>3, <2>3, <2>2, <1>9
    <3>4. CASE v \notin new /\ w \notin new
      BY <3>4, <2>3, <2>0, <1>9 DEF KernelExact
    <3> QED
      BY <3>1, <3>2, <3>3, <3>4
  <2>4. \A q, r \in Procs : table'[q] # -1 /\ table'[q] = table'[r] => q = r
    BY <2>0, <2>2, <1>10 DEF KernelExact
  <2>5. ASSUME NEW q \in Procs, NEW v \in VSpace, table'[q] # -1 PROVE table'[q] # pte'[Kernel][v]
    <3>1. CASE v \in new
      BY <3>1, <2>2, <1>4, <1>9, <1>10
    <3>2. CASE v \notin new
      BY <3>2, <2>5, <2>0, <2>2, <1>9, <1>10 DEF KernelExact
    <3> QED
      BY <3>1, <3>2
  <2>6. ASSUME NEW f \in KBits
        PROVE  f \in kbits' <=> \/ \E v \in VSpace : pte'[Kernel][v] = f
                                \/ \E q \in Procs : table'[q] = f
    <3>1. f \in kbits <=> \/ \E v \in VSpace : pte[Kernel][v] = f
                          \/ \E q \in Procs : table[q] = f
      BY <2>0 DEF KernelExact
    <3>2. f \in kbits' <=> f \in kbits \/ f = tab \/ \E v \in new : kf[v] = f
      BY <1>5
    <3>3. f # -1
      BY BitsApart
    <3>4. (\E v \in VSpace : pte'[Kernel][v] = f)
             <=> (\E v \in VSpace : pte[Kernel][v] = f) \/ \E v \in new : kf[v] = f
      <4>1. ASSUME NEW v \in VSpace, pte[Kernel][v] = f PROVE pte'[Kernel][v] = f
        BY <4>1, <3>3, <2>1, <1>9
      <4>2. ASSUME NEW v \in new, kf[v] = f PROVE v \in VSpace /\ pte'[Kernel][v] = f
        BY <4>2, <1>9, <1>13
      <4>3. ASSUME NEW v \in VSpace, pte'[Kernel][v] = f
            PROVE  pte[Kernel][v] = f \/ (v \in new /\ kf[v] = f)
        BY <4>3, <1>9
      <4> QED
        BY <4>1, <4>2, <4>3
    <3>5. (\E q \in Procs : table'[q] = f) <=> (\E q \in Procs : table[q] = f) \/ f = tab
      <4>1. ASSUME NEW q \in Procs, table[q] = f PROVE table'[q] = f
        BY <4>1, <3>3, <1>2, <1>10
      <4>2. table'[c] = tab
        BY <1>10
      <4>3. ASSUME NEW q \in Procs, table'[q] = f PROVE table[q] = f \/ f = tab
        BY <4>3, <1>10
      <4> QED
        BY <4>1, <4>2, <4>3
    <3> QED
      BY <3>1, <3>2, <3>4, <3>5
  <2> QED
    BY <2>3, <2>4, <2>5, <2>6, <1>5 DEF KernelExact
<1>18. ASSUME ~raced' PROVE UserExact'
  <2>0. UserExact
    BY <1>1, <1>11, <1>18
  <2>1. \A a, b \in Procs : \A v, w \in VSpace :
           pte[a][v] # -1 /\ pte[a][v] = pte[b][w] => a = b /\ v = w
    BY <2>0 DEF UserExact
  <2>2. \A q \in Procs : \A v \in VSpace :
           pte'[q][v] = IF q = c THEN (IF v \in vbits[p] THEN to[v] ELSE -1) ELSE pte[q][v]
    BY <1>1, <1>9
  <2>3. \A f \in UBits : f \in ubits <=> \E q \in Procs : \E v \in VSpace : pte[q][v] = f
    BY <2>0, <1>2 DEF UserExact
  <2>4. \A v \in vbits[p] : \A q \in Procs : \A w \in VSpace : pte[q][w] # to[v]
    BY <2>3, <1>4
  <2>5. ASSUME NEW a \in Procs, NEW b \in Procs, NEW v \in VSpace, NEW w \in VSpace,
               pte'[a][v] # -1, pte'[a][v] = pte'[b][w]
        PROVE  a = b /\ v = w
    <3>1. CASE a = c /\ b = c
      BY <3>1, <2>2, <2>5, <1>4
    <3>2. CASE a = c /\ b # c
      BY <3>2, <2>2, <2>4, <2>5
    <3>3. CASE a # c /\ b = c
      BY <3>3, <2>2, <2>4, <2>5
    <3>4. CASE a # c /\ b # c
      <4>1. pte[a][v] # -1 /\ pte[a][v] = pte[b][w]
        BY <3>4, <2>2, <2>5
      <4> QED
        BY <4>1, <2>1
    <3> QED
      BY <3>1, <3>2, <3>3, <3>4
  <2>6. ASSUME NEW f \in UBits
        PROVE  f \in ubits' <=> \E q \in Procs : \E v \in VSpace : pte'[q][v] = f
    <3>1. f \in ubits' <=> f \in ubits \/ \E v \in vbits[p] : to[v] = f
      BY <1>5
    <3>2. f # -1
      BY BitsApart
    <3>3. ASSUME NEW q \in Procs, NEW v \in VSpace, pte[q][v] = f PROVE pte'[q][v] = f
      BY <3>2, <3>3, <2>2, <1>2
    <3>4. ASSUME NEW v \in vbits[p], to[v] = f PROVE v \in VSpace /\ pte'[c][v] = f
      BY <3>4, <2>2, <1>13
    <3>5. ASSUME NEW q \in Procs, NEW v \in VSpace, pte'[q][v] = f
          PROVE  pte[q][v] = f \/ (v \in vbits[p] /\ to[v] = f)
      BY <3>2, <3>5, <2>2
    <3>6. (\E q \in Procs : \E v \in VSpace : pte'[q][v] = f)
             <=> (\E q \in Procs : \E v \in VSpace : pte[q][v] = f) \/ \E v \in vbits[p] : to[v] = f
      BY <3>3, <3>4, <3>5
    <3> QED
      BY <3>1, <3>6, <2>3
  <2> QED
    BY <2>5, <2>6, <1>5 DEF UserExact
<1> QED
  BY <1>14, <1>15, <1>16, <1>17, <1>18 DEF PageInv

----------------------------------------------------------------------------
(* The rest of a step: headers, lists and what programs hold.              *)
LEMMA AddressParts ==
    ASSUME NEW b \in Addresses
    PROVE  b[1] \in VSpace /\ b[2] \in -1 .. BlocksPerArena - 1
BY DEF Addresses

LEMMA BlocksAddresses ==
    ASSUME NEW v \in VSpace
    PROVE  Blocks(v) \in SUBSET Addresses
BY MemAssumption DEF Blocks, Addresses

LEMMA NoArenaType == NoArena \in Arenas /\ ~NoArena.large
BY DEF NoArena, Arenas

(* A header is written. *)
LEMMA ArenaSet ==
    ASSUME HeapTypes, LargeInside, NEW s \in Spaces, NEW v \in VSpace, NEW a \in Arenas,
           a.large => v .. v + a.cnt - 1 \subseteq VSpace,
           arena' = [arena EXCEPT ![s] = [arena[s] EXCEPT ![v] = a]]
    PROVE  /\ arena' \in [Spaces -> [VSpace -> Arenas]]
           /\ LargeInside'
           /\ \A u \in Spaces : \A w \in VSpace :
                 arena'[u][w] = IF u = s /\ w = v THEN a ELSE arena[u][w]
<1>1. arena \in [Spaces -> [VSpace -> Arenas]]
  BY DEF HeapTypes
<1>2. arena[s] \in [VSpace -> Arenas]
  BY <1>1
<1>3. [arena[s] EXCEPT ![v] = a] \in [VSpace -> Arenas]
  BY <1>2
<1>4. arena' \in [Spaces -> [VSpace -> Arenas]]
  BY <1>1, <1>3
<1>5. ASSUME NEW u \in Spaces, NEW w \in VSpace
      PROVE  arena'[u][w] = IF u = s /\ w = v THEN a ELSE arena[u][w]
  BY <1>1, <1>2
<1>6. LargeInside'
  BY <1>5 DEF LargeInside
<1> QED
  BY <1>4, <1>5, <1>6

(* The runs that bitmap_scan chooses are free and inside the space. *)
LEMMA ScanRun ==
    ASSUME PageTypes, NEW s \in Spaces, ~VFull(s), NEW cnt \in Nat \ {0}, NEW past,
           NEW r, r = bitmap_scan(vbits[s], VLen(s), cnt, past), r # -1 \/ cnt = 1
    PROVE  r \in Nat /\ r .. r + cnt - 1 \in SUBSET VSpace /\ (r .. r + cnt - 1) \cap vbits[s] = {}
<1>0. VLen(s) \in Nat \ {0} /\ 0 .. VLen(s) \subseteq VSpace
  BY MemAssumption DEF VLen, VSpace
<1>1. PICK free : free = Clear(vbits[s], VLen(s), past)
  OBVIOUS
<1>2. free # {} /\ free \subseteq VSpace /\ free \cap vbits[s] = {}
  <2>1. ~(0 .. VLen(s) - 1 \subseteq vbits[s])
    BY DEF VFull
  <2>2. \A b \in 0 .. VLen(s) - 1 : b \notin vbits[s] => b \in free
    BY <1>0, <1>1 DEF Clear
  <2>3. free # {}
    BY <2>1, <2>2
  <2> QED
    BY <1>0, <1>1, <2>3 DEF Clear
<1>3. r # -1
  <2>1. CASE cnt = 1
    <3>1. r = Nth(1, free)
      BY <1>1, <2>1 DEF bitmap_scan
    <3>2. free \in SUBSET Int /\ IsFiniteSet(free) /\ free \subseteq 0 .. VLen(s)
      BY <1>0, <1>1, ClearFinite
    <3>3. Nth(1, free) \in free
      BY <1>2, <3>2, FirstIsLeast
    <3>4. r \in 0 .. VLen(s)
      BY <3>1, <3>2, <3>3
    <3> QED
      BY <3>4
  <2> QED
    BY <2>1
<1>4. r \in Nat /\ \A i \in r .. r + cnt - 1 : i \in free
  BY <1>0, <1>1, <1>2, <1>3, ScanSound
<1> QED
  BY <1>2, <1>4

LEMMA SysMallocBlockKeeps ==
    ASSUME MemInv, NEW s \in Spaces, SysMallocBlock(s), Races
    PROVE  MemInv'
<1>1. PageInv /\ HeapTypes /\ LargeInside
  BY DEF MemInv
<1>2. PICK b \in free_list[s] :
         /\ free_list' = [free_list EXCEPT ![s] = free_list[s] \ {b}]
         /\ held' = [held EXCEPT ![s] = held[s] \cup {b}]
         /\ arena' = [arena EXCEPT ![s] = [arena[s] EXCEPT ![b[1]] = Taken(arena[s][b[1]])]]
  BY DEF SysMallocBlock, ListPop
<1>3. /\ UNCHANGED <<kbits, ubits, vbits, pte, table, kown, starting>>
      /\ UNCHANGED <<panic, stray>>
  BY DEF SysMallocBlock
<1>4. PageInv'
  BY <1>1, <1>3, SamePages
<1>5. b \in Addresses /\ b[1] \in VSpace
  BY <1>1, AddressParts DEF HeapTypes
<1>6. PICK a : a = arena[s][b[1]]
  OBVIOUS
<1>7. a \in Arenas
  BY <1>1, <1>5, <1>6 DEF HeapTypes
<1>8. Taken(a) \in Arenas /\ (Taken(a).large => a.large) /\ Taken(a).cnt = a.cnt - 1 /\ a.cnt \in Int
  BY <1>7 DEF Taken, Arenas
<1>9. Taken(a).large => b[1] .. b[1] + Taken(a).cnt - 1 \subseteq VSpace
  <2>1. a.large => b[1] .. b[1] + a.cnt - 1 \subseteq VSpace
    BY <1>1, <1>5, <1>6 DEF LargeInside
  <2>2. b[1] \in Int
    BY <1>5, BitsApart
  <2>3. b[1] .. b[1] + Taken(a).cnt - 1 \subseteq b[1] .. b[1] + a.cnt - 1
    BY <1>8, <2>2
  <2> QED
    BY <1>8, <2>1, <2>3
<1>10. arena' \in [Spaces -> [VSpace -> Arenas]] /\ LargeInside'
  BY <1>1, <1>2, <1>5, <1>6, <1>8, <1>9, ArenaSet
<1>11. HeapTypes'
  BY <1>1, <1>2, <1>3, <1>5, <1>10 DEF HeapTypes
<1> QED
  BY <1>4, <1>10, <1>11 DEF MemInv

(* What a step that finds a bitmap full leaves as it was. *)
LEMMA ExhaustedKeeps ==
    ASSUME MemInv, Exhausted, Races
    PROVE  MemInv'
<1>1. PageInv /\ HeapTypes /\ LargeInside
  BY DEF MemInv
<1>2. /\ UNCHANGED <<kbits, ubits, vbits, pte, table, kown, starting>>
      /\ UNCHANGED <<arena, free_list, held, stray>> /\ panic' = "exhausted"
  BY DEF Exhausted
<1>3. PageInv'
  BY <1>1, <1>2, SamePages
<1> QED
  BY <1>1, <1>2, <1>3 DEF MemInv, HeapTypes, LargeInside

LEMMA FreeCount ==
    ASSUME NEW s
    PROVE  Cardinality(IF s = Kernel THEN FreeK ELSE FreeU) \in Nat
<1>1. (IF s = Kernel THEN FreeK ELSE FreeU) \in SUBSET (KBits \cup UBits)
  BY DEF FreeK, FreeU
<1>2. IsFiniteSet(KBits \cup UBits)
  BY BitsApart, FS_Union
<1> QED
  BY <1>1, <1>2, FS_Subset, FS_CardinalityType

(* The page that a new arena gets. *)
LEMMA ArenaPage ==
    ASSUME PageTypes, NEW s \in Spaces, ~Full(s, 1),
           NEW v, v = bitmap_scan(vbits[s], VLen(s), 1, FALSE)
    PROVE  /\ v \in VSpace /\ v \notin vbits[s]
           /\ Cardinality({v}) <= Cardinality(IF s = Kernel THEN FreeK ELSE FreeU)
<1>1. v \in VSpace /\ v \notin vbits[s]
  <2>1. ~VFull(s)
    BY DEF Full
  <2>2. PICK n \in Nat \ {0} : n = 1
    OBVIOUS
  <2>3. v = bitmap_scan(vbits[s], VLen(s), n, FALSE)
    BY <2>2
  <2>4. v \in Nat /\ v .. v + n - 1 \in SUBSET VSpace /\ (v .. v + n - 1) \cap vbits[s] = {}
    BY <2>1, <2>2, <2>3, ScanRun
  <2>5. v \in v .. v + n - 1
    <3>1. v \in Nat /\ n = 1
      BY <2>2, <2>4
    <3> QED
      BY ONLY <3>1
  <2> QED
    BY <2>4, <2>5
<1>2. Cardinality({v}) <= Cardinality(IF s = Kernel THEN FreeK ELSE FreeU)
  <2>1. ~(Cardinality(IF s = Kernel THEN FreeK ELSE FreeU) < 1)
    BY DEF Full
  <2>2. Cardinality({v}) = 1
    BY FS_Singleton
  <2> QED
    BY <2>1, <2>2, FreeCount
<1> QED
  BY <1>1, <1>2

LEMMA SysMallocArenaKeeps ==
    ASSUME MemInv, NEW s \in Spaces, SysMallocArena(s), Races
    PROVE  MemInv'
<1>1. PageInv /\ PageTypes /\ HeapTypes /\ LargeInside
  BY DEF MemInv, PageInv
<1>2. CASE Full(s, 1)
  <2>1. Exhausted
    BY <1>2 DEF SysMallocArena
  <2> QED
    BY <2>1, ExhaustedKeeps
<1>3. CASE ~Full(s, 1)
  <2>1. PICK v : v = bitmap_scan(vbits[s], VLen(s), 1, FALSE)
    OBVIOUS
  <2>2. PICK a : a = [desc |-> s, large |-> FALSE, cnt |-> BlocksPerArena - 1]
    OBVIOUS
  <2>3. /\ MallocPage(s, {v})
        /\ arena' = [arena EXCEPT ![s] = [arena[s] EXCEPT ![v] = a]]
        /\ \E b \in Blocks(v) :
              /\ free_list' = [free_list EXCEPT ![s] = Blocks(v) \ {b}]
              /\ held' = [held EXCEPT ![s] = held[s] \cup {b}]
        /\ UNCHANGED <<table, kown, starting>> /\ UNCHANGED <<panic, stray>>
    BY <1>3, <2>1, <2>2 DEF SysMallocArena
  <2>4. v \in VSpace /\ v \notin vbits[s]
    BY <1>1, <1>3, <2>1, ArenaPage
  <2>5. Cardinality({v}) <= Cardinality(IF s = Kernel THEN FreeK ELSE FreeU)
    BY <1>1, <1>3, <2>1, ArenaPage
  <2>6. PageInv'
    <3>1. {v} \in SUBSET VSpace /\ {v} \cap vbits[s] = {} /\ (s \in Procs => table[s] # -1)
      BY <2>4 DEF SysMallocArena, Runs
    <3> QED
      BY <1>1, <2>3, <2>5, <3>1, MallocPageKeeps
  <2>7. a \in Arenas /\ ~a.large
    BY <2>2, MemAssumption DEF Arenas
  <2>8. arena' \in [Spaces -> [VSpace -> Arenas]] /\ LargeInside'
    BY <1>1, <2>3, <2>4, <2>7, ArenaSet
  <2>9. HeapTypes'
    <3>1. PICK b \in Blocks(v) :
              /\ free_list' = [free_list EXCEPT ![s] = Blocks(v) \ {b}]
              /\ held' = [held EXCEPT ![s] = held[s] \cup {b}]
      BY <2>3
    <3>2. Blocks(v) \subseteq Addresses
      BY <2>4, BlocksAddresses
    <3> QED
      BY <1>1, <2>3, <2>8, <3>1, <3>2 DEF HeapTypes
  <2> QED
    BY <2>6, <2>8, <2>9 DEF MemInv
<1> QED
  BY <1>2, <1>3

(* The run that a large allocation gets, and its first page. *)
LEMMA LargeRun ==
    ASSUME PageTypes, NEW s \in Spaces, NEW cnt \in LargeSizes, NEW past, ~VFull(s),
           Run(s, cnt, past) # {}, ~Full(s, cnt)
    PROVE  \E v \in VSpace :
              /\ Run(s, cnt, past) = v .. v + cnt - 1
              /\ v .. v + cnt - 1 \in SUBSET VSpace
              /\ (v .. v + cnt - 1) \cap vbits[s] = {}
              /\ Cardinality(v .. v + cnt - 1) <= Cardinality(IF s = Kernel THEN FreeK ELSE FreeU)
              /\ v = CHOOSE w \in Run(s, cnt, past) : w - 1 \notin Run(s, cnt, past)
<1>0. cnt \in Nat \ {0} /\ cnt \in Int
  BY MemAssumption
<1>1. PICK v : v = bitmap_scan(vbits[s], VLen(s), cnt, past)
  OBVIOUS
<1>2. v # -1 /\ Run(s, cnt, past) = v .. v + cnt - 1
  BY <1>1 DEF Run
<1>3. v \in Nat /\ v .. v + cnt - 1 \in SUBSET VSpace /\ (v .. v + cnt - 1) \cap vbits[s] = {}
  BY <1>0, <1>1, <1>2, ScanRun
<1>4. v \in v .. v + cnt - 1
  BY <1>0, <1>3
<1>5. v \in VSpace
  BY <1>3, <1>4
<1>6. Cardinality(v .. v + cnt - 1) = cnt
  <2>1. PICK w : w = v + cnt - 1
    OBVIOUS
  <2>2. v \in Int /\ w \in Int /\ ~(v > w) /\ w - v + 1 = cnt
    BY <1>0, <1>3, <2>1
  <2>3. Cardinality(v .. w) = w - v + 1
    BY <2>2, FS_Interval
  <2> QED
    BY <2>1, <2>2, <2>3
<1>7. cnt <= Cardinality(IF s = Kernel THEN FreeK ELSE FreeU)
  <2>1. ~(Cardinality(IF s = Kernel THEN FreeK ELSE FreeU) < cnt)
    BY DEF Full
  <2> QED
    BY <1>0, <2>1, FreeCount
<1>8. \A w : w \in v .. v + cnt - 1 /\ w - 1 \notin v .. v + cnt - 1 <=> w = v
  <2>1. v \in v .. v + cnt - 1 /\ v - 1 \notin v .. v + cnt - 1
    BY <1>0, <1>3
  <2>2. ASSUME NEW w \in v .. v + cnt - 1, w - 1 \notin v .. v + cnt - 1 PROVE w = v
    BY <1>0, <1>3, <2>2
  <2> QED
    BY <2>1, <2>2
<1>9. v = CHOOSE w \in v .. v + cnt - 1 : w - 1 \notin v .. v + cnt - 1
  BY <1>8
<1> QED
  BY <1>2, <1>3, <1>5, <1>6, <1>7, <1>9

LEMMA SysMallocLargeKeeps ==
    ASSUME MemInv, NEW s \in Spaces, SysMallocLarge(s), Races
    PROVE  MemInv'
<1>1. PageInv /\ PageTypes /\ HeapTypes /\ LargeInside
  BY DEF MemInv, PageInv
<1>2. ASSUME Exhausted PROVE MemInv'
  BY <1>2, ExhaustedKeeps
<1>3. ASSUME NEW cnt \in LargeSizes, NEW past \in Past(s), ~VFull(s),
             Run(s, cnt, past) # {}, ~Full(s, cnt),
             LET run == Run(s, cnt, past)
                 v == CHOOSE w \in run : w - 1 \notin run
             IN  /\ MallocPage(s, run)
                 /\ arena' = [arena EXCEPT ![s][v] = [desc |-> NULL, large |-> TRUE, cnt |-> cnt]]
                 /\ held' = [held EXCEPT ![s] = @ \cup {<<v, -1>>}]
                 /\ UNCHANGED <<table, kown, free_list, starting, panic, stray>>
      PROVE  MemInv'
  <2>1. PICK v \in VSpace :
              /\ Run(s, cnt, past) = v .. v + cnt - 1
              /\ v .. v + cnt - 1 \in SUBSET VSpace
              /\ (v .. v + cnt - 1) \cap vbits[s] = {}
              /\ Cardinality(v .. v + cnt - 1) <= Cardinality(IF s = Kernel THEN FreeK ELSE FreeU)
              /\ v = CHOOSE w \in Run(s, cnt, past) : w - 1 \notin Run(s, cnt, past)
    BY <1>1, <1>3, LargeRun
  <2>2. PICK a : a = [desc |-> NULL, large |-> TRUE, cnt |-> cnt]
    OBVIOUS
  <2>3. /\ MallocPage(s, v .. v + cnt - 1)
        /\ arena' = [arena EXCEPT ![s] = [arena[s] EXCEPT ![v] = a]]
        /\ held' = [held EXCEPT ![s] = held[s] \cup {<<v, -1>>}]
        /\ UNCHANGED <<table, kown, starting>> /\ UNCHANGED <<free_list, panic, stray>>
    BY <1>3, <2>1, <2>2
  <2>4. PageInv'
    <3>1. s \in Procs => table[s] # -1
      BY DEF SysMallocLarge, Runs
    <3> QED
      BY <1>1, <2>1, <2>3, <3>1, MallocPageKeeps
  <2>5. a \in Arenas /\ a.cnt = cnt
    BY <2>2, MemAssumption DEF Arenas
  <2>6. arena' \in [Spaces -> [VSpace -> Arenas]] /\ LargeInside'
    BY <1>1, <2>1, <2>3, <2>5, ArenaSet
  <2>7. <<v, -1>> \in Addresses
    BY MemAssumption DEF Addresses
  <2>8. HeapTypes'
    BY <1>1, <2>3, <2>6, <2>7 DEF HeapTypes
  <2> QED
    BY <2>4, <2>6, <2>8 DEF MemInv
<1> QED
  BY <1>2, <1>3, Zenon DEF SysMallocLarge

(* mfree_page when PCBs and page directories stay. *)
LEMMA MfreePageSimple ==
    ASSUME PageInv, NEW s \in Spaces, NEW run \in SUBSET VSpace,
           s \in Procs => table[s] # -1,
           MfreePage(s, run), UNCHANGED <<table, kown, starting>>, Races
    PROVE  /\ PageInv'
           /\ \A u \in Spaces : \A v \in VSpace :
                 pte'[u][v] = IF u = s /\ v \in run THEN -1 ELSE pte[u][v]
<1>1. /\ kown' \in [Procs -> SUBSET KBits] /\ kown'[First] # {}
      /\ \A p \in Procs : table[p] # -1 => kown'[p] # {}
  BY DEF PageInv, PageTypes, PagesAgree, Exists
<1> QED
  BY <1>1, MfreePageKeeps

LEMMA SysFreeKeeps ==
    ASSUME MemInv, NEW s \in Spaces, NEW b \in held[s], SysFree(s, b), Races
    PROVE  MemInv'
<1>1. PageInv /\ HeapTypes /\ LargeInside
  BY DEF MemInv
<1>2. PICK v : v = b[1]
  OBVIOUS
<1>3. PICK a : a = arena[s][v]
  OBVIOUS
<1>4. PICK list : list = free_list[a.desc] \cup {b}
  OBVIOUS
<1>5. b \in Addresses /\ v \in VSpace
  BY <1>1, <1>2, AddressParts DEF HeapTypes
<1>6. a \in Arenas
  BY <1>1, <1>3, <1>5 DEF HeapTypes
<1>7. /\ s \in Procs => table[s] # -1
      /\ held' = [held EXCEPT ![s] = held[s] \ {b}]
      /\ stray' = (stray \/ (~a.large /\ a.desc # s))
      /\ UNCHANGED <<table, kown, starting>>
  BY <1>2, <1>3 DEF SysFree, Runs
<1>8. \/ /\ a.large /\ MfreePage(s, v .. v + a.cnt - 1)
         /\ arena' = [arena EXCEPT ![s] = [arena[s] EXCEPT ![v] = NoArena]]
         /\ UNCHANGED <<free_list, panic>>
      \/ /\ ~a.large
         /\ free_list' = [free_list EXCEPT ![a.desc] = list]
         /\ arena' = [arena EXCEPT ![s] = [arena[s] EXCEPT ![v] = [a EXCEPT !.cnt = a.cnt + 1]]]
         /\ UNCHANGED <<kbits, ubits, pte, vbits, panic>>
      \/ /\ free_list' = [free_list EXCEPT ![a.desc] = list \ Blocks(v)]
         /\ MfreePage(s, {v})
         /\ arena' = [arena EXCEPT ![s] = [arena[s] EXCEPT ![v] = NoArena]]
         /\ UNCHANGED panic
      \/ /\ panic' = "assert"
         /\ UNCHANGED <<kbits, ubits, pte, vbits, free_list, arena>>
  BY <1>2, <1>3, <1>4 DEF SysFree
<1>9. stray' \in BOOLEAN /\ held' \in [Spaces -> SUBSET Addresses]
  <2>1. stray' \in BOOLEAN
    BY <1>7, Zenon
  <2> QED
    BY <2>1, <1>1, <1>7 DEF HeapTypes
<1>10. ASSUME NEW l, l \in SUBSET (free_list[a.desc] \cup {b}),
              free_list' = [free_list EXCEPT ![a.desc] = l]
       PROVE  free_list' \in [Spaces -> SUBSET Addresses]
  <2>1. CASE a.desc \in Spaces
    BY <2>1, <1>1, <1>5, <1>10 DEF HeapTypes
  <2>2. CASE a.desc \notin Spaces
    BY <2>2, <1>1, <1>10 DEF HeapTypes
  <2> QED
    BY <2>1, <2>2
<1>11. CASE /\ a.large /\ MfreePage(s, v .. v + a.cnt - 1)
            /\ arena' = [arena EXCEPT ![s] = [arena[s] EXCEPT ![v] = NoArena]]
            /\ UNCHANGED <<free_list, panic>>
  <2>1. v .. v + a.cnt - 1 \in SUBSET VSpace
    BY <1>1, <1>3, <1>5, <1>11 DEF LargeInside
  <2>2. PageInv'
    BY <1>1, <1>7, <1>11, <2>1, MfreePageSimple
  <2>3. arena' \in [Spaces -> [VSpace -> Arenas]] /\ LargeInside'
    BY <1>1, <1>5, <1>11, NoArenaType, ArenaSet
  <2> QED
    BY <1>1, <1>9, <1>11, <2>2, <2>3 DEF MemInv, HeapTypes
<1>12. CASE /\ ~a.large
            /\ free_list' = [free_list EXCEPT ![a.desc] = list]
            /\ arena' = [arena EXCEPT ![s] = [arena[s] EXCEPT ![v] = [a EXCEPT !.cnt = a.cnt + 1]]]
            /\ UNCHANGED <<kbits, ubits, pte, vbits, panic>>
  <2>1. PageInv'
    BY <1>1, <1>7, <1>12, SamePages
  <2>2. [a EXCEPT !.cnt = a.cnt + 1] \in Arenas /\ ~[a EXCEPT !.cnt = a.cnt + 1].large
    BY <1>6, <1>12 DEF Arenas
  <2>3. arena' \in [Spaces -> [VSpace -> Arenas]] /\ LargeInside'
    BY <1>1, <1>5, <1>12, <2>2, ArenaSet
  <2>4. free_list' \in [Spaces -> SUBSET Addresses]
    BY <1>4, <1>10, <1>12
  <2> QED
    BY <1>1, <1>9, <1>12, <2>1, <2>3, <2>4 DEF MemInv, HeapTypes
<1>13. CASE /\ free_list' = [free_list EXCEPT ![a.desc] = list \ Blocks(v)]
            /\ MfreePage(s, {v})
            /\ arena' = [arena EXCEPT ![s] = [arena[s] EXCEPT ![v] = NoArena]]
            /\ UNCHANGED panic
  <2>1. PageInv'
    <3>1. {v} \in SUBSET VSpace
      BY <1>5
    <3> QED
      BY <1>1, <1>7, <1>13, <3>1, MfreePageSimple
  <2>2. arena' \in [Spaces -> [VSpace -> Arenas]] /\ LargeInside'
    BY <1>1, <1>5, <1>13, NoArenaType, ArenaSet
  <2>3. free_list' \in [Spaces -> SUBSET Addresses]
    <3>1. list \ Blocks(v) \in SUBSET (free_list[a.desc] \cup {b})
      BY <1>4
    <3> QED
      BY <3>1, <1>10, <1>13
  <2> QED
    BY <1>1, <1>9, <1>13, <2>1, <2>2, <2>3 DEF MemInv, HeapTypes
<1>14. CASE /\ panic' = "assert"
            /\ UNCHANGED <<kbits, ubits, pte, vbits, free_list, arena>>
  <2>1. PageInv'
    BY <1>1, <1>7, <1>14, SamePages
  <2>2. LargeInside'
    BY <1>1, <1>14 DEF LargeInside
  <2> QED
    BY <1>1, <1>9, <1>14, <2>1, <2>2 DEF MemInv, HeapTypes
<1> QED
  BY <1>8, <1>11, <1>12, <1>13, <1>14

(* A step that leaves the heaps alone. *)
LEMMA SameHeaps ==
    ASSUME HeapTypes, LargeInside, UNCHANGED <<arena, free_list, held, panic, stray>>
    PROVE  HeapTypes' /\ LargeInside'
BY DEF HeapTypes, LargeInside

(* The heap of one process is emptied. *)
LEMMA EmptyHeap ==
    ASSUME HeapTypes, LargeInside, NEW p \in Spaces,
           arena' = [arena EXCEPT ![p] = [v \in VSpace |-> NoArena]],
           free_list' = [free_list EXCEPT ![p] = {}],
           held' = [held EXCEPT ![p] = {}], UNCHANGED <<panic, stray>>
    PROVE  /\ HeapTypes' /\ LargeInside'
           /\ \A v \in VSpace : arena'[p][v] = NoArena
           /\ free_list'[p] = {} /\ held'[p] = {}
           /\ \A u \in Spaces : u # p => /\ arena'[u] = arena[u]
                                         /\ free_list'[u] = free_list[u] /\ held'[u] = held[u]
<1>1. [v \in VSpace |-> NoArena] \in [VSpace -> Arenas]
  BY NoArenaType
<1>2. HeapTypes'
  BY <1>1 DEF HeapTypes
<1>3. /\ \A v \in VSpace : arena'[p][v] = NoArena
      /\ free_list'[p] = {} /\ held'[p] = {}
      /\ \A u \in Spaces : u # p => /\ arena'[u] = arena[u]
                                    /\ free_list'[u] = free_list[u] /\ held'[u] = held[u]
  BY DEF HeapTypes
<1>4. LargeInside'
  BY <1>3, NoArenaType DEF LargeInside
<1> QED
  BY <1>2, <1>3, <1>4

LEMMA ForkHeapKeeps ==
    ASSUME HeapTypes, LargeInside, NEW p \in Procs, NEW c \in Procs, ForkHeap(p, c), panic' = panic
    PROVE  /\ HeapTypes' /\ LargeInside'
           /\ arena'[c] = arena[p] /\ free_list'[c] = {} /\ held'[c] = held[p]
           /\ \A u \in Spaces : u # c => /\ arena'[u] = arena[u]
                                         /\ free_list'[u] = free_list[u] /\ held'[u] = held[u]
           /\ ~stray' => ~stray /\ \A v \in VSpace : arena[p][v].desc # c
<1>0. p \in Spaces /\ c \in Spaces
  BY DEF Spaces
<1>1. stray' = (stray \/ \E v \in VSpace : arena[p][v].desc = c)
  BY DEF ForkHeap
<1>2. stray' \in BOOLEAN /\ (~stray' => ~stray /\ \A v \in VSpace : arena[p][v].desc # c)
  BY <1>1, Zenon
<1>3. /\ arena' = [arena EXCEPT ![c] = arena[p]]
      /\ free_list' = [free_list EXCEPT ![c] = {}]
      /\ held' = [held EXCEPT ![c] = held[p]]
  BY DEF ForkHeap
<1>4. HeapTypes'
  BY <1>0, <1>2, <1>3 DEF HeapTypes
<1>5. /\ arena'[c] = arena[p] /\ free_list'[c] = {} /\ held'[c] = held[p]
      /\ \A u \in Spaces : u # c => /\ arena'[u] = arena[u]
                                    /\ free_list'[u] = free_list[u] /\ held'[u] = held[u]
  BY <1>0, <1>3 DEF HeapTypes
<1>6. LargeInside'
  BY <1>0, <1>5 DEF LargeInside
<1> QED
  BY <1>2, <1>4, <1>5, <1>6

----------------------------------------------------------------------------
LEMMA MemInitially ==
    ASSUME MemInit PROVE MemInv
<1>0. /\ Kernel \in Spaces /\ Kernel \notin Procs /\ First \in Procs
      /\ Spaces = Procs \cup {Kernel}
  BY MemAssumption DEF Spaces
<1>1. {0, 1, 2} \subseteq KBits /\ KBits \subseteq VSpace /\ {0, 2} \subseteq KBits /\ -1 \notin KBits
  <2>1. {0, 1, 2} \subseteq KBits
    BY MemAssumption DEF KBits
  <2> QED
    BY <2>1, BitsApart
<1>2. PICK own : own = {0, 1, 2}
  OBVIOUS
<1>3. /\ kbits = own /\ ubits = {} /\ starting = NULL /\ raced = FALSE
      /\ vbits = [s \in Spaces |-> IF s = Kernel THEN own ELSE {}]
      /\ pte = [s \in Spaces |-> [v \in VSpace |-> IF s = Kernel /\ v \in own THEN v ELSE -1]]
      /\ table = [p \in Procs |-> -1]
      /\ kown = [p \in Procs |-> IF p = First THEN {0, 2} ELSE {}]
  BY <1>2 DEF MemInit
<1>4. /\ \A v \in VSpace : pte[Kernel][v] = IF v \in own THEN v ELSE -1
      /\ \A p \in Procs : table[p] = -1 /\ \A v \in VSpace : pte[p][v] = -1
      /\ kown[First] # {}
  BY <1>0, <1>3
<1>5. PageTypes
  BY <1>1, <1>2, <1>3 DEF PageTypes
<1>6. PagesAgree
  BY <1>0, <1>1, <1>2, <1>3, <1>4 DEF PagesAgree, Exists
<1>7. VaddrExact
  <2>1. ASSUME NEW s \in Spaces PROVE vbits[s] = {v \in VSpace : pte[s][v] # -1}
    <3>1. CASE s = Kernel
      <4>1. \A v \in own : v \in VSpace /\ v # -1
        BY <1>1, <1>2
      <4>2. vbits[s] = own
        BY <1>0, <1>3, <3>1
      <4> QED
        BY <1>4, <3>1, <4>1, <4>2
    <3>2. CASE s # Kernel
      <4>1. s \in Procs /\ vbits[s] = {}
        BY <1>0, <1>3, <3>2
      <4> QED
        BY <1>4, <4>1
    <3> QED
      BY <3>1, <3>2
  <2> QED
    BY <2>1 DEF VaddrExact
<1>8. KernelExact
  <2>1. own \subseteq VSpace /\ own \subseteq KBits
    BY <1>1, <1>2
  <2>2. \A f \in KBits : f \in kbits <=> \/ \E v \in VSpace : pte[Kernel][v] = f
                                         \/ \E p \in Procs : table[p] = f
    <3>1. ASSUME NEW f \in KBits, f \in kbits PROVE \E v \in VSpace : pte[Kernel][v] = f
      <4>1. f \in own /\ f \in VSpace
        BY <1>3, <2>1, <3>1
      <4>2. pte[Kernel][f] = f
        BY <1>4, <4>1
      <4> QED
        BY <4>1, <4>2
    <3>2. ASSUME NEW f \in KBits, NEW v \in VSpace, pte[Kernel][v] = f PROVE f \in kbits
      BY <1>1, <1>3, <1>4, <3>2
    <3>3. ASSUME NEW f \in KBits, NEW p \in Procs, table[p] = f PROVE FALSE
      BY <1>1, <1>4, <3>3
    <3> QED
      BY <3>1, <3>2, <3>3
  <2>3. \A v, w \in VSpace : pte[Kernel][v] # -1 /\ pte[Kernel][v] = pte[Kernel][w] => v = w
    BY <1>4
  <2>4. \A p \in Procs : table[p] = -1
    BY <1>4
  <2>5. starting = NULL
    BY <1>3
  <2> QED
    BY <2>2, <2>3, <2>4, <2>5 DEF KernelExact
<1>9. UserExact
  BY <1>3, <1>4, BitsApart DEF UserExact
<1>10. HeapTypes
  <2>1. /\ arena = [s \in Spaces |-> [v \in VSpace |-> NoArena]]
        /\ free_list = [s \in Spaces |-> {}] /\ held = [s \in Spaces |-> {}]
        /\ panic = NULL /\ stray = FALSE
    BY DEF MemInit
  <2> QED
    BY <2>1, NoArenaType DEF HeapTypes
<1>11. LargeInside
  <2>1. \A s \in Spaces : \A v \in VSpace : arena[s][v] = NoArena
    BY DEF MemInit
  <2> QED
    BY <2>1, NoArenaType DEF LargeInside
<1> QED
  BY <1>5, <1>6, <1>7, <1>8, <1>9, <1>10, <1>11 DEF MemInv, PageInv

LEMMA ProcessStepKeeps ==
    ASSUME MemInv, NEW p \in Procs, Races,
           \/ \E c \in Procs : SysFork(p, c)
           \/ ExecvNoRoom(p) \/ SysExit(p) \/ ThreadExit(p)
    PROVE  MemInv'
<1>1. PageInv /\ PageTypes /\ PagesAgree /\ HeapTypes /\ LargeInside
  BY DEF MemInv, PageInv
<1>2. p \in Spaces /\ Kernel \in Spaces /\ Kernel \notin Procs
  BY MemAssumption DEF Spaces
<1>3. ASSUME NEW c \in Procs, SysFork(p, c) PROVE MemInv'
  <2>1. CASE Exhausted
    BY <2>1, ExhaustedKeeps
  <2>2. ASSUME NEW new \in SUBSET KBits, NEW own, NEW kf, NEW tab, NEW to,
               Forked(p, c, new, own, kf, tab, to)
        PROVE  MemInv'
    <3>1. Runs(p) /\ ~Exists(c)
      BY <1>3 DEF SysFork
    <3>2. PageInv'
      BY <1>1, <2>2, <3>1, ForkedKeeps
    <3>3. ForkHeap(p, c) /\ panic' = panic
      BY <2>2 DEF Forked
    <3>4. HeapTypes' /\ LargeInside'
      BY <1>1, <3>3, ForkHeapKeeps
    <3> QED
      BY <3>2, <3>4 DEF MemInv
  <2> QED
    BY <1>1, <1>3, <2>1, <2>2, ForkPages
<1>4. CASE ExecvNoRoom(p)
  BY <1>4, ExhaustedKeeps DEF ExecvNoRoom
<1>5. CASE SysExit(p)
  <2>1. PageInv'
    BY <1>1, <1>5, SysExitKeeps
  <2>2. HeapTypes' /\ LargeInside'
    BY <1>1, <1>2, <1>5, EmptyHeap DEF SysExit
  <2> QED
    BY <2>1, <2>2 DEF MemInv
<1>6. CASE ThreadExit(p)
  <2>1. /\ p # First /\ table[p] = -1
        /\ kown' = [kown EXCEPT ![p] = {}]
        /\ MfreePage(Kernel, kown[p])
        /\ UNCHANGED <<table, starting>> /\ UNCHANGED <<arena, free_list, held, panic, stray>>
    BY <1>6 DEF ThreadExit
  <2>2. kown[p] \in SUBSET VSpace
    BY <1>1, BitsApart DEF PageTypes
  <2>3. /\ kown' \in [Procs -> SUBSET KBits] /\ kown'[First] # {}
        /\ \A q \in Procs : table[q] # -1 => kown'[q] # {}
    BY <1>1, <2>1, MemAssumption DEF PageTypes, PagesAgree, Exists
  <2>4. PageInv'
    BY <1>1, <1>2, <2>1, <2>2, <2>3, MfreePageKeeps
  <2>5. HeapTypes' /\ LargeInside'
    BY <1>1, <2>1, SameHeaps
  <2> QED
    BY <2>4, <2>5 DEF MemInv
<1> QED
  BY <1>3, <1>4, <1>5, <1>6

LEMMA ExecvStepKeeps ==
    ASSUME MemInv, LoadInv, NEW p \in Procs, Races,
           \/ ExecvOpen(p) \/ ExecvOpenBelow(p) \/ ExecvJumps(p) \/ ExecvFails(p)
           \/ \E v \in 0 .. MaxImage - 1 : SegmentLoad(p, v)
    PROVE  MemInv'
<1>1. PageInv /\ PageTypes /\ HeapTypes /\ LargeInside
  BY DEF MemInv, PageInv
<1>2. p \in Spaces /\ p # Kernel
  BY MemAssumption DEF Spaces
<1>3. CASE ExecvOpen(p)
  <2>1. /\ UNCHANGED <<kbits, ubits, vbits, pte, table, kown, starting>>
        /\ UNCHANGED <<arena, held, panic, stray>>
        /\ free_list' = [free_list EXCEPT ![p] = {}]
    BY <1>3 DEF ExecvOpen
  <2>2. PageInv'
    BY <1>1, <2>1, SamePages
  <2> QED
    BY <1>1, <2>1, <2>2 DEF MemInv, HeapTypes, LargeInside
<1>4. CASE ExecvOpenBelow(p)
  <2>1. PICK v : v = bitmap_scan(vbits[p], VLen(p), 1, FALSE)
    OBVIOUS
  <2>2. PICK a : a = [desc |-> p, large |-> FALSE, cnt |-> BlocksPerArena - 1]
    OBVIOUS
  <2>3. /\ MallocPage(p, {v}) /\ Room(p, 2) /\ table[p] # -1
        /\ arena' = [arena EXCEPT ![p] = [arena[p] EXCEPT ![v] = a]]
        /\ \E b \in Blocks(v) : free_list' = [free_list EXCEPT ![p] = Blocks(v) \ {b}]
        /\ UNCHANGED <<table, kown, starting>> /\ UNCHANGED <<held, panic, stray>>
    BY <1>4, <2>1, <2>2 DEF ExecvOpenBelow, Runs
  <2>4. ~Full(p, 1)
    BY <2>3, RoomPage
  <2>5. /\ v \in VSpace /\ v \notin vbits[p]
        /\ Cardinality({v}) <= Cardinality(IF p = Kernel THEN FreeK ELSE FreeU)
    BY <1>1, <1>2, <2>1, <2>4, ArenaPage
  <2>6. PageInv'
    <3>1. {v} \in SUBSET VSpace /\ {v} \cap vbits[p] = {}
      BY <2>5
    <3> QED
      BY <1>1, <1>2, <2>3, <2>5, <3>1, MallocPageKeeps
  <2>7. a \in Arenas /\ ~a.large
    BY <1>2, <2>2, MemAssumption DEF Arenas
  <2>8. arena' \in [Spaces -> [VSpace -> Arenas]] /\ LargeInside'
    BY <1>1, <1>2, <2>3, <2>5, <2>7, ArenaSet
  <2>9. Blocks(v) \subseteq Addresses
    BY <2>5, BlocksAddresses
  <2>10. HeapTypes'
    BY <1>1, <2>3, <2>8, <2>9 DEF HeapTypes
  <2> QED
    BY <2>6, <2>8, <2>10 DEF MemInv
<1>5. CASE ExecvJumps(p)
  <2>1. PICK kept : kept = [v \in VSpace |-> IF v \in old[p] THEN NoArena ELSE arena[p][v]]
    OBVIOUS
  <2>2. /\ UNCHANGED <<kbits, ubits, vbits, pte, table, kown, starting>>
        /\ UNCHANGED <<free_list, panic, stray>>
        /\ arena' = [arena EXCEPT ![p] = kept]
        /\ held' = [held EXCEPT ![p] = {}]
    BY <1>5, <2>1 DEF ExecvJumps
  <2>3. PageInv'
    BY <1>1, <2>2, SamePages
  <2>4. kept \in [VSpace -> Arenas]
    BY <1>1, <1>2, <2>1, NoArenaType DEF HeapTypes
  <2>5. HeapTypes'
    BY <1>1, <2>2, <2>4 DEF HeapTypes
  <2>6. \A u \in Spaces : \A v \in VSpace : arena'[u][v] \in {arena[u][v], NoArena}
    BY <1>1, <2>1, <2>2 DEF HeapTypes
  <2>7. LargeInside'
    BY <1>1, <2>6, NoArenaType DEF LargeInside
  <2> QED
    BY <2>3, <2>5, <2>7 DEF MemInv
<1>6. CASE ExecvFails(p)
  <2>1. /\ UNCHANGED <<kbits, ubits, vbits, pte, table, kown, starting>>
        /\ UNCHANGED <<arena, free_list, held, panic>>
    BY <1>6 DEF ExecvFails
  <2>2. PageInv'
    BY <1>1, <2>1, SamePages
  <2>3. stray' \in BOOLEAN
    BY <1>6, Zenon DEF ExecvFails
  <2> QED
    BY <1>1, <2>1, <2>2, <2>3 DEF MemInv, HeapTypes, LargeInside
<1>7. ASSUME NEW z \in 0 .. MaxImage - 1, SegmentLoad(p, z) PROVE MemInv'
  <2>1. z \in VSpace
    BY MemAssumption DEF VSpace
  <2>2. table[p] # -1
    BY <1>7 DEF SegmentLoad, MayRead, Loads, LoadInv
  <2>3. PageInv'
    BY <1>1, <1>7, <2>1, <2>2, SegmentLoadKeeps
  <2>4. /\ arena' = [arena EXCEPT ![p] = [arena[p] EXCEPT ![z] = NoArena]]
        /\ held' = [held EXCEPT ![p] = {b \in held[p] : b[1] # z}]
        /\ UNCHANGED <<free_list, panic>>
    BY <1>7 DEF SegmentLoad
  <2>5. stray' \in BOOLEAN
    BY <1>7, Zenon DEF SegmentLoad
  <2>6. arena' \in [Spaces -> [VSpace -> Arenas]] /\ LargeInside'
    BY <1>1, <1>2, <2>1, <2>4, NoArenaType, ArenaSet
  <2>7. HeapTypes'
    BY <1>1, <1>2, <2>4, <2>5, <2>6 DEF HeapTypes
  <2> QED
    BY <2>3, <2>6, <2>7 DEF MemInv
<1> QED
  BY <1>3, <1>4, <1>5, <1>6, <1>7

(* Who is in sys_execv. *)
LEMMA LoadKeeps ==
    ASSUME MemInv, LoadInv, [MemNext]_memVars
    PROVE  LoadInv'
<1>1. /\ PageTypes /\ loading \subseteq Procs /\ old \in [Spaces -> SUBSET VSpace]
      /\ \A s \in Spaces : s \notin loading => old[s] = {}
      /\ \A p \in loading : table[p] # -1
  BY DEF MemInv, PageInv, LoadInv
<1>2. ASSUME UNCHANGED execVars, \A p \in loading : table'[p] # -1 PROVE LoadInv'
  BY <1>1, <1>2 DEF LoadInv, execVars
<1>3. ASSUME UNCHANGED execVars, table' = table PROVE LoadInv'
  BY <1>1, <1>2, <1>3
<1>4. ASSUME NEW p \in Procs, loading' = loading \ {p}, old' = [old EXCEPT ![p] = {}], table' = table
      PROVE  LoadInv'
  BY <1>1, <1>4 DEF LoadInv
<1>5. ASSUME NEW p \in Procs, ExecvBegins(p), Runs(p), table' = table PROVE LoadInv'
  <2>1. /\ loading' = loading \cup {p} /\ table[p] # -1
        /\ old' = [old EXCEPT ![p] = {v \in VSpace : arena[p][v] # NoArena}]
    BY <1>5 DEF ExecvBegins, Runs
  <2> QED
    BY <1>1, <1>5, <2>1 DEF LoadInv
<1>6. CASE UNCHANGED memVars
  BY <1>3, <1>6 DEF memVars, execVars
<1>7. CASE MemNext /\ CallStep
  <2>1. UNCHANGED execVars
    BY <1>7 DEF CallStep
  <2>2. ASSUME NEW s \in Spaces, SysMallocBlock(s) \/ SysMallocArena(s) \/ SysMallocLarge(s)
        PROVE  table' = table
    BY <2>2 DEF SysMallocBlock, SysMallocArena, SysMallocLarge, Exhausted
  <2>3. ASSUME NEW s \in Spaces, NEW b \in held[s], SysFree(s, b) PROVE table' = table
    BY <2>3 DEF SysFree
  <2>4. CASE StartScan
    BY <1>3, <2>1, <2>4 DEF StartScan, Exhausted
  <2>5. CASE StartSet
    <3>1. starting \in Starts /\ table' = [table EXCEPT ![First] = starting.table]
      BY <1>1, <2>5 DEF StartSet, PageTypes
    <3>2. starting.table # -1
      BY <3>1, BitsApart DEF Starts
    <3>3. PICK t : t = starting.table
      OBVIOUS
    <3>4. \A p \in loading : table'[p] # -1
      BY <1>1, <3>1, <3>2, <3>3 DEF PageTypes
    <3> QED
      BY <1>2, <2>1, <3>4
  <2>6. ASSUME NEW p \in Procs, NEW c \in Procs, SysFork(p, c) PROVE LoadInv'
    <3>1. CASE Exhausted
      BY <1>3, <2>1, <3>1 DEF Exhausted
    <3>2. ASSUME NEW new \in SUBSET KBits, NEW own, NEW kf, NEW tab, NEW to,
                 Forked(p, c, new, own, kf, tab, to)
          PROVE  LoadInv'
      <4>1. tab # -1 /\ table' = [table EXCEPT ![c] = tab]
        BY <3>2, BitsApart DEF Forked, FreeK
      <4>2. \A q \in loading : table'[q] # -1
        BY <1>1, <4>1 DEF PageTypes
      <4> QED
        BY <1>2, <2>1, <4>2
    <3> QED
      BY <2>6, <3>1, <3>2, ForkPages DEF MemInv
  <2>7. ASSUME NEW p \in Procs, ExecvNoRoom(p) \/ ThreadExit(p) PROVE table' = table
    BY <2>7 DEF ExecvNoRoom, Exhausted, ThreadExit
  <2>8. ASSUME NEW p \in Procs, SysExit(p) PROVE LoadInv'
    <3>1. p \notin loading /\ table' = [table EXCEPT ![p] = -1]
      BY <2>8 DEF SysExit, Runs
    <3>2. \A q \in loading : table'[q] # -1
      BY <1>1, <3>1 DEF PageTypes
    <3> QED
      BY <1>2, <2>1, <3>2
  <2> QED
    BY <1>3, <1>7, <2>1, <2>2, <2>3, <2>4, <2>5, <2>6, <2>7, <2>8 DEF CallStep
<1>8. CASE MemNext /\ ExecvStep
  <2>1. PICK p \in Procs : \/ ExecvOpen(p) \/ ExecvOpenBelow(p) \/ ExecvJumps(p) \/ ExecvFails(p)
                           \/ \E v \in 0 .. MaxImage - 1 : SegmentLoad(p, v)
    BY <1>8 DEF ExecvStep
  <2>2. CASE ExecvOpen(p) \/ ExecvOpenBelow(p)
    BY <1>5, <2>2 DEF ExecvOpen, ExecvOpenBelow
  <2>3. CASE ExecvJumps(p) \/ ExecvFails(p)
    BY <1>4, <2>3 DEF ExecvJumps, ExecvFails
  <2>4. ASSUME NEW v \in 0 .. MaxImage - 1, SegmentLoad(p, v) PROVE LoadInv'
    BY <1>3, <2>4 DEF SegmentLoad
  <2> QED
    BY <2>1, <2>2, <2>3, <2>4
<1> QED
  BY <1>6, <1>7, <1>8 DEF MemNext

LEMMA StartKeeps ==
    ASSUME MemInv, StartScan \/ StartSet, Races
    PROVE  MemInv'
<1>1. PageInv /\ HeapTypes /\ LargeInside
  BY DEF MemInv
<1>2. PageInv'
  BY <1>1, StartScanKeeps, StartSetKeeps
<1>3. UNCHANGED <<arena, free_list, held, stray>> /\ panic' \in {panic, "exhausted"}
  BY DEF StartScan, StartSet, Exhausted
<1>4. HeapTypes' /\ LargeInside'
  BY <1>1, <1>3 DEF HeapTypes, LargeInside
<1> QED
  BY <1>2, <1>4 DEF MemInv

LEMMA MemStepKeeps ==
    ASSUME MemInv, LoadInv, [MemNext]_memVars
    PROVE  MemInv'
<1>1. CASE MemNext
  <2>1. Races
    BY <1>1 DEF MemNext, Races
  <2>2. CallStep \/ ExecvStep
    BY <1>1 DEF MemNext
  <2>3. ASSUME NEW s \in Spaces, SysMallocBlock(s) \/ SysMallocArena(s) \/ SysMallocLarge(s)
        PROVE  MemInv'
    BY <2>1, <2>3, SysMallocBlockKeeps, SysMallocArenaKeeps, SysMallocLargeKeeps
  <2>4. ASSUME NEW s \in Spaces, NEW b \in held[s], SysFree(s, b) PROVE MemInv'
    BY <2>1, <2>4, SysFreeKeeps
  <2>5. CASE StartScan \/ StartSet
    BY <2>1, <2>5, StartKeeps
  <2>6. ASSUME NEW p \in Procs,
               \/ \E c \in Procs : SysFork(p, c)
               \/ ExecvNoRoom(p) \/ SysExit(p) \/ ThreadExit(p)
        PROVE  MemInv'
    BY <2>1, <2>6, ProcessStepKeeps
  <2>7. ASSUME NEW p \in Procs,
               \/ ExecvOpen(p) \/ ExecvOpenBelow(p) \/ ExecvJumps(p) \/ ExecvFails(p)
               \/ \E v \in 0 .. MaxImage - 1 : SegmentLoad(p, v)
        PROVE  MemInv'
    BY <2>1, <2>7, ExecvStepKeeps
  <2>8. CASE CallStep
    BY <2>3, <2>4, <2>5, <2>6, <2>8 DEF CallStep
  <2>9. CASE ExecvStep
    BY <2>7, <2>9 DEF ExecvStep
  <2> QED
    BY <2>2, <2>8, <2>9
<1>2. CASE UNCHANGED memVars
  <2>1. PageInv' = PageInv
    BY <1>2 DEF memVars, PageInv, PageTypes, PagesAgree, VaddrExact, KernelExact, UserExact, Exists
  <2>2. HeapTypes' /\ LargeInside'
    BY <1>2 DEF memVars, MemInv, HeapTypes, LargeInside
  <2> QED
    BY <2>1, <2>2 DEF MemInv
<1> QED
  BY <1>1, <1>2

(* The invariant of the memory manager: types, agreement of the virtual    *)
(* bitmaps with the page tables, and, while start_process has not lost its *)
(* page to another task, of the pool bitmaps with what is mapped.          *)
THEOREM MemInvariant == MemSpec => [](MemInv /\ LoadInv)
<1>1. MemInit => MemInv /\ LoadInv
  <2>1. MemInit => LoadInv
    BY DEF MemInit, LoadInv
  <2> QED
    BY <2>1, MemInitially
<1>2. MemInv /\ LoadInv /\ [MemNext]_memVars => MemInv' /\ LoadInv'
  BY MemStepKeeps, LoadKeeps
<1> QED
  BY <1>1, <1>2, PTL DEF MemSpec

(* A use of a page: of the kernel, of a process, or as a page table. *)
LEMMA UseCases ==
    ASSUME NEW u \in Uses
    PROVE  \/ /\ u[1] = Kernel /\ u[2] \in VSpace /\ pte[Kernel][u[2]] # -1
              /\ u = <<Kernel, u[2]>> /\ FrameOf(u) = pte[Kernel][u[2]]
           \/ /\ u[1] \in Procs /\ u[2] \in VSpace /\ pte[u[1]][u[2]] # -1
              /\ u = <<u[1], u[2]>> /\ FrameOf(u) = pte[u[1]][u[2]]
           \/ /\ u[1] \in Procs /\ u[2] = -1 /\ table[u[1]] # -1
              /\ u = <<u[1], -1>> /\ FrameOf(u) = table[u[1]]
<1>0. -1 \notin VSpace
  BY MemAssumption DEF VSpace
<1>1. CASE u \in Spaces \X VSpace /\ pte[u[1]][u[2]] # -1
  <2>1. u[1] \in Spaces /\ u[2] \in VSpace /\ u = <<u[1], u[2]>>
    BY <1>1
  <2>2. FrameOf(u) = pte[u[1]][u[2]]
    BY <1>0, <2>1 DEF FrameOf
  <2> QED
    BY <1>1, <2>1, <2>2 DEF Spaces
<1>2. CASE u \in Procs \X {-1} /\ table[u[1]] # -1
  BY <1>2 DEF FrameOf
<1> QED
  BY <1>1, <1>2 DEF Uses

LEMMA UseOf ==
    /\ \A s \in Spaces : \A v \in VSpace :
          pte[s][v] # -1 => <<s, v>> \in Uses /\ FrameOf(<<s, v>>) = pte[s][v]
    /\ \A p \in Procs : table[p] # -1 => <<p, -1>> \in Uses /\ FrameOf(<<p, -1>>) = table[p]
<1>0. -1 \notin VSpace
  BY MemAssumption DEF VSpace
<1>1. ASSUME NEW s \in Spaces, NEW v \in VSpace, pte[s][v] # -1
      PROVE  <<s, v>> \in Uses /\ FrameOf(<<s, v>>) = pte[s][v]
  BY <1>0, <1>1 DEF Uses, FrameOf
<1>2. ASSUME NEW p \in Procs, table[p] # -1
      PROVE  <<p, -1>> \in Uses /\ FrameOf(<<p, -1>>) = table[p]
  BY <1>2 DEF Uses, FrameOf
<1> QED
  BY <1>1, <1>2

LEMMA FramesFollow ==
    ASSUME MemInv, LoadInv PROVE FramesExact
<1>1. /\ PageTypes /\ PagesAgree /\ VaddrExact /\ HeapTypes /\ LargeInside
      /\ (~raced => KernelExact /\ UserExact)
      /\ Kernel \in Spaces /\ Procs \subseteq Spaces
  BY DEF MemInv, PageInv, Spaces
<1>2. MemTypeOK
  BY <1>1 DEF PageTypes, HeapTypes, LoadInv, MemTypeOK
<1>3. SpacesAgree
  BY <1>1 DEF PagesAgree, LargeInside, SpacesAgree
<1>4. /\ \A v \in VSpace : pte[Kernel][v] \in KBits \cup {-1}
      /\ \A p \in Procs : \A v \in VSpace : pte[p][v] \in UBits \cup {-1}
      /\ \A p \in Procs : table[p] \in KBits \cup {-1}
      /\ kbits \subseteq KBits /\ ubits \subseteq UBits
  BY <1>1 DEF PagesAgree, PageTypes
<1>5. ASSUME ~raced, NEW u \in Uses, NEW w \in Uses, FrameOf(u) = FrameOf(w) PROVE u = w
  <2>0. KernelExact /\ UserExact
    BY <1>1, <1>5
  <2>1. \A a, b \in Procs : \A x, y \in VSpace :
           pte[a][x] # -1 /\ pte[a][x] = pte[b][y] => a = b /\ x = y
    BY <2>0 DEF UserExact
  <2>2. /\ \A x, y \in VSpace : pte[Kernel][x] # -1 /\ pte[Kernel][x] = pte[Kernel][y] => x = y
        /\ \A p, q \in Procs : table[p] # -1 /\ table[p] = table[q] => p = q
        /\ \A p \in Procs : \A v \in VSpace : table[p] # -1 => table[p] # pte[Kernel][v]
    BY <2>0 DEF KernelExact
  <2>3. \A f : f \in KBits => f \notin UBits
    BY BitsApart
  <2>4. CASE u[1] = Kernel /\ u[2] \in VSpace /\ pte[Kernel][u[2]] # -1
             /\ u = <<Kernel, u[2]>> /\ FrameOf(u) = pte[Kernel][u[2]]
    <3>1. FrameOf(u) \in KBits
      BY <1>4, <2>4
    <3>2. CASE w[2] \in VSpace /\ w = <<Kernel, w[2]>> /\ FrameOf(w) = pte[Kernel][w[2]]
      <4>1. PICK x \in VSpace : u = <<Kernel, x>> /\ FrameOf(u) = pte[Kernel][x] /\ pte[Kernel][x] # -1
        BY <2>4
      <4>2. PICK y \in VSpace : w = <<Kernel, y>> /\ FrameOf(w) = pte[Kernel][y]
        BY <3>2
      <4> QED
        BY <1>5, <2>2, <4>1, <4>2
    <3>3. CASE w[1] \in Procs /\ table[w[1]] # -1 /\ FrameOf(w) = table[w[1]]
      BY <1>5, <2>2, <2>4, <3>3
    <3>4. CASE w[1] \in Procs /\ w[2] \in VSpace /\ pte[w[1]][w[2]] # -1
               /\ FrameOf(w) = pte[w[1]][w[2]]
      BY <1>4, <1>5, <2>3, <3>1, <3>4
    <3> QED
      BY <3>2, <3>3, <3>4, UseCases
  <2>5. CASE u[1] \in Procs /\ u[2] \in VSpace /\ pte[u[1]][u[2]] # -1
             /\ u = <<u[1], u[2]>> /\ FrameOf(u) = pte[u[1]][u[2]]
    <3>1. FrameOf(u) \in UBits
      BY <1>4, <2>5
    <3>2. w[1] \in Procs /\ w[2] \in VSpace /\ w = <<w[1], w[2]>> /\ FrameOf(w) = pte[w[1]][w[2]]
      BY <1>4, <1>5, <2>3, <3>1, UseCases
    <3>3. PICK a \in Procs, x \in VSpace :
             u = <<a, x>> /\ FrameOf(u) = pte[a][x] /\ pte[a][x] # -1
      BY <2>5
    <3>4. PICK b \in Procs, y \in VSpace : w = <<b, y>> /\ FrameOf(w) = pte[b][y]
      BY <3>2
    <3>5. a = b /\ x = y
      BY <1>5, <2>1, <3>3, <3>4
    <3> QED
      BY <3>3, <3>4, <3>5
  <2>6. CASE u[1] \in Procs /\ u[2] = -1 /\ table[u[1]] # -1
             /\ u = <<u[1], -1>> /\ FrameOf(u) = table[u[1]]
    <3>1. FrameOf(u) \in KBits
      BY <1>4, <2>6
    <3>2. CASE w[2] \in VSpace /\ FrameOf(w) = pte[Kernel][w[2]]
      BY <1>5, <2>2, <2>6, <3>2
    <3>3. CASE w[1] \in Procs /\ w = <<w[1], -1>> /\ FrameOf(w) = table[w[1]]
      <4>1. PICK a \in Procs : u = <<a, -1>> /\ FrameOf(u) = table[a] /\ table[a] # -1
        BY <2>6
      <4>2. PICK b \in Procs : w = <<b, -1>> /\ FrameOf(w) = table[b]
        BY <3>3
      <4> QED
        BY <1>5, <2>2, <4>1, <4>2
    <3>4. CASE w[1] \in Procs /\ w[2] \in VSpace /\ pte[w[1]][w[2]] # -1
               /\ FrameOf(w) = pte[w[1]][w[2]]
      BY <1>4, <1>5, <2>3, <3>1, <3>4
    <3> QED
      BY <3>2, <3>3, <3>4, UseCases
  <2> QED
    BY <2>4, <2>5, <2>6, UseCases
<1>6. ASSUME ~raced
      PROVE  kbits \cup ubits =
                {FrameOf(u) : u \in Uses} \cup (IF starting = NULL THEN {} ELSE {starting.page})
  <2>0. KernelExact /\ UserExact
    BY <1>1, <1>6
  <2>1. /\ \A f \in KBits : f \in kbits <=> \/ \E v \in VSpace : pte[Kernel][v] = f
                                            \/ \E p \in Procs : table[p] = f
        /\ \A f \in UBits : f \in ubits <=> \/ \E p \in Procs : \E v \in VSpace : pte[p][v] = f
                                            \/ starting # NULL /\ starting.page = f
    BY <2>0 DEF KernelExact, UserExact
  <2>2. \A f \in KBits \cup UBits : f # -1
    BY BitsApart
  <2>3. ASSUME NEW f \in kbits PROVE \E u \in Uses : FrameOf(u) = f
    <3>1. CASE \E v \in VSpace : pte[Kernel][v] = f
      <4>1. PICK v \in VSpace : pte[Kernel][v] = f
        BY <3>1
      <4>2. <<Kernel, v>> \in Uses /\ FrameOf(<<Kernel, v>>) = f
        BY <4>1, <1>1, <1>4, <2>2, UseOf
      <4> QED
        BY <4>2
    <3>2. CASE \E p \in Procs : table[p] = f
      <4>1. PICK p \in Procs : table[p] = f
        BY <3>2
      <4>2. <<p, -1>> \in Uses /\ FrameOf(<<p, -1>>) = f
        BY <4>1, <1>4, <2>2, UseOf
      <4> QED
        BY <4>2
    <3> QED
      BY <1>4, <2>1, <3>1, <3>2
  <2>4. ASSUME NEW f \in ubits
        PROVE  (\E u \in Uses : FrameOf(u) = f) \/ (starting # NULL /\ starting.page = f)
    <3>1. CASE \E p \in Procs : \E v \in VSpace : pte[p][v] = f
      <4>1. PICK p \in Procs, v \in VSpace : pte[p][v] = f
        BY <3>1
      <4>2. <<p, v>> \in Uses /\ FrameOf(<<p, v>>) = f
        BY <4>1, <1>1, <1>4, <2>2, UseOf
      <4> QED
        BY <4>2
    <3> QED
      BY <1>4, <2>1, <3>1
  <2>5. ASSUME NEW u \in Uses PROVE FrameOf(u) \in kbits \cup ubits
    <3>1. CASE u[1] = Kernel /\ u[2] \in VSpace /\ pte[Kernel][u[2]] # -1
               /\ FrameOf(u) = pte[Kernel][u[2]]
      BY <3>1, <1>4, <2>1
    <3>2. CASE u[1] \in Procs /\ u[2] \in VSpace /\ pte[u[1]][u[2]] # -1
               /\ FrameOf(u) = pte[u[1]][u[2]]
      BY <3>2, <1>4, <2>1
    <3>3. CASE u[1] \in Procs /\ table[u[1]] # -1 /\ FrameOf(u) = table[u[1]]
      BY <3>3, <1>4, <2>1
    <3> QED
      BY <3>1, <3>2, <3>3, UseCases
  <2>6. ASSUME starting # NULL PROVE starting.page \in ubits
    <3>1. starting.page \in UBits
      BY <1>1, <2>6 DEF PageTypes, Starts
    <3> QED
      BY <2>1, <2>6, <3>1
  <2> QED
    BY <2>3, <2>4, <2>5, <2>6
<1> QED
  BY <1>1, <1>2, <1>3, <1>5, <1>6 DEF FramesExact, FrameOnce

(* No page of memory is used twice and none is lost, whatever programs     *)
(* allocate, free, fork, execute and leave behind, up to the race of       *)
(* start_process: its page for a page table is found and taken in two      *)
(* steps (memory.c:119, 122) without the lock of the kernel pool.          *)
THEOREM PagesExact == MemSpec => []FramesExact
<1>1. MemInv /\ LoadInv => FramesExact
  BY FramesFollow
<1> QED
  BY <1>1, MemInvariant, PTL

----------------------------------------------------------------------------
(* The heap of an address space: its lists, its headers and what programs  *)
(* hold of it agree; and the kernel pages of processes are not part of it. *)
(* What is left of a program that sys_execv is about to replace is mapped, *)
(* but its counts are not those of the list, which has none of its blocks. *)
HeapOf(s) ==
    /\ free_list[s] \cap held[s] = {}
    /\ \A b \in free_list[s] : arena[s][b[1]].desc = s /\ b[2] # -1 /\ b[1] \notin old[s]
    /\ \A b \in held[s] : arena[s][b[1]] # NoArena /\ (arena[s][b[1]].large <=> b[2] = -1)
    /\ \A v \in VSpace \ old[s] : arena[s][v].desc = s =>
          /\ arena[s][v].cnt = Cardinality(free_list[s] \cap Blocks(v))
          /\ arena[s][v].cnt < BlocksPerArena
    /\ \A v \in VSpace : arena[s][v] # NoArena => pte[s][v] # -1
    /\ \A v \in VSpace : arena[s][v].large =>
          /\ arena[s][v].desc = NULL
          /\ \A w \in v + 1 .. v + arena[s][v].cnt - 1 : pte[s][w] # -1 /\ arena[s][w] = NoArena

KownApart ==
    \A p \in Procs : \A v \in kown[p] :
        /\ pte[Kernel][v] # -1 /\ arena[Kernel][v] = NoArena
        /\ \A q \in Procs \ {p} : v \notin kown[q]
        /\ \A u \in VSpace : arena[Kernel][u].large =>
              v \notin u + 1 .. u + arena[Kernel][u].cnt - 1

HeapInv == ~stray => (\A s \in Spaces : HeapOf(s)) /\ KownApart /\ panic # "assert"

(* A heap that a step does not touch, while its space may grow. *)
LEMMA HeapUntouched ==
    ASSUME LargeInside, NEW s \in Spaces, HeapOf(s),
           old'[s] = old[s], arena'[s] = arena[s], free_list'[s] = free_list[s], held'[s] = held[s],
           \A v \in VSpace : pte[s][v] # -1 => pte'[s][v] # -1
    PROVE  HeapOf(s)'
<1>1. /\ free_list'[s] \cap held'[s] = {}
      /\ \A b \in free_list'[s] : arena'[s][b[1]].desc = s /\ b[2] # -1 /\ b[1] \notin old'[s]
      /\ \A b \in held'[s] : arena'[s][b[1]] # NoArena /\ (arena'[s][b[1]].large <=> b[2] = -1)
  BY DEF HeapOf
<1>2. \A v \in VSpace \ old'[s] : arena'[s][v].desc = s =>
          /\ arena'[s][v].cnt = Cardinality(free_list'[s] \cap Blocks(v))
          /\ arena'[s][v].cnt < BlocksPerArena
  BY DEF HeapOf
<1>3. \A v \in VSpace : arena'[s][v] # NoArena => pte'[s][v] # -1
  BY DEF HeapOf
<1>4. ASSUME NEW v \in VSpace, arena'[s][v].large
      PROVE  /\ arena'[s][v].desc = NULL
             /\ \A w \in v + 1 .. v + arena'[s][v].cnt - 1 :
                   pte'[s][w] # -1 /\ arena'[s][w] = NoArena
  <2>1. \A w \in v + 1 .. v + arena[s][v].cnt - 1 : w \in VSpace
    <3>1. v .. v + arena[s][v].cnt - 1 \subseteq VSpace
      BY <1>4 DEF LargeInside
    <3>2. \A w \in v + 1 .. v + arena[s][v].cnt - 1 : w \in v .. v + arena[s][v].cnt - 1
      BY BitsApart
    <3> QED
      BY <3>1, <3>2
  <2> QED
    BY <1>4, <2>1 DEF HeapOf
<1> QED
  BY <1>1, <1>2, <1>3, <1>4 DEF HeapOf, NoArena, Blocks

LEMMA KownUntouched ==
    ASSUME PageTypes, KownApart, kown' = kown, arena'[Kernel] = arena[Kernel],
           \A v \in VSpace : pte[Kernel][v] # -1 => pte'[Kernel][v] # -1
    PROVE  KownApart'
<1>1. \A p \in Procs : \A v \in kown[p] : v \in VSpace
  BY BitsApart DEF PageTypes
<1> QED
  BY <1>1 DEF KownApart, NoArena

(* A header of the kernel is written at a page that no process has. *)
LEMMA KownHeader ==
    ASSUME PageTypes, KownApart, kown' = kown,
           \A v \in VSpace : pte[Kernel][v] # -1 => pte'[Kernel][v] # -1,
           NEW x \in VSpace, NEW a, \A p \in Procs : x \notin kown[p],
           \A w \in VSpace : arena'[Kernel][w] = IF w = x THEN a ELSE arena[Kernel][w],
           a.large => \A p \in Procs : \A v \in kown[p] : v \notin x + 1 .. x + a.cnt - 1
    PROVE  KownApart'
<1>1. \A p \in Procs : \A v \in kown[p] : v \in VSpace /\ v # x
  BY BitsApart DEF PageTypes
<1>2. ASSUME NEW p \in Procs, NEW v \in kown'[p]
      PROVE  /\ pte'[Kernel][v] # -1 /\ arena'[Kernel][v] = NoArena
             /\ \A q \in Procs \ {p} : v \notin kown'[q]
             /\ \A u \in VSpace : arena'[Kernel][u].large =>
                   v \notin u + 1 .. u + arena'[Kernel][u].cnt - 1
  <2>1. v \in kown[p] /\ v \in VSpace /\ v # x
    BY <1>1, <1>2
  <2>2. /\ pte[Kernel][v] # -1 /\ arena[Kernel][v] = NoArena
        /\ \A q \in Procs \ {p} : v \notin kown[q]
        /\ \A u \in VSpace : arena[Kernel][u].large =>
              v \notin u + 1 .. u + arena[Kernel][u].cnt - 1
    BY <2>1 DEF KownApart
  <2>3. \A u \in VSpace : arena'[Kernel][u].large =>
              v \notin u + 1 .. u + arena'[Kernel][u].cnt - 1
    BY <2>1, <2>2
  <2> QED
    BY <2>1, <2>2, <2>3
<1> QED
  BY <1>2 DEF KownApart, NoArena

(* The blocks of a page. *)
LEMMA BlockCount ==
    ASSUME NEW v
    PROVE  IsFiniteSet(Blocks(v)) /\ Cardinality(Blocks(v)) = BlocksPerArena
<1>0. BlocksPerArena \in Nat \ {0} /\ 0 \in Int /\ BlocksPerArena - 1 \in Int
  BY MemAssumption
<1>1. PICK I : I = 0 .. BlocksPerArena - 1
  OBVIOUS
<1>2. IsFiniteSet(I) /\ Cardinality(I) = BlocksPerArena
  <2>1. ~(0 > BlocksPerArena - 1) /\ BlocksPerArena - 1 - 0 + 1 = BlocksPerArena
    BY <1>0
  <2> QED
    BY <1>0, <1>1, <2>1, FS_Interval
<1>3. IsFiniteSet({v}) /\ Cardinality({v}) = 1
  BY FS_Singleton
<1>4. IsFiniteSet({v} \X I) /\ Cardinality({v} \X I) = 1 * BlocksPerArena
  BY <1>2, <1>3, FS_Product
<1>5. 1 * BlocksPerArena = BlocksPerArena
  BY <1>0
<1> QED
  BY <1>1, <1>4, <1>5 DEF Blocks

(* A block of the list, and the pages of blocks. *)
LEMMA BlockPage ==
    ASSUME NEW b \in Addresses, b[2] # -1, NEW v
    PROVE  b \in Blocks(v) <=> b[1] = v
<1>1. PICK x \in VSpace, i \in -1 .. BlocksPerArena - 1 : b = <<x, i>>
  BY DEF Addresses
<1>2. i \in 0 .. BlocksPerArena - 1
  BY <1>1, MemAssumption
<1> QED
  BY <1>1, <1>2 DEF Blocks

LEMMA HeapAfterBlock ==
    ASSUME MemInv, LoadInv, HeapInv, NEW s \in Spaces, SysMallocBlock(s), UNCHANGED execVars
    PROVE  HeapInv'
<1>0. SUFFICES ASSUME ~stray PROVE (\A u \in Spaces : HeapOf(u)') /\ KownApart' /\ panic' # "assert"
  BY DEF SysMallocBlock, HeapInv
<1>1. /\ PageTypes /\ HeapTypes /\ LargeInside /\ KownApart /\ panic # "assert" /\ HeapOf(s)
      /\ \A u \in Spaces : HeapOf(u)
      /\ old[s] = {} /\ old' = old
  BY <1>0 DEF MemInv, PageInv, HeapInv, SysMallocBlock, Runs, LoadInv, execVars
<1>2. PICK b \in free_list[s] :
         /\ free_list' = [free_list EXCEPT ![s] = free_list[s] \ {b}]
         /\ held' = [held EXCEPT ![s] = held[s] \cup {b}]
         /\ arena' = [arena EXCEPT ![s] = [arena[s] EXCEPT ![b[1]] = Taken(arena[s][b[1]])]]
  BY DEF SysMallocBlock, ListPop
<1>3. pte' = pte /\ kown' = kown /\ panic' = panic
  BY DEF SysMallocBlock
<1>4. b \in Addresses /\ b[1] \in VSpace
  BY <1>1, AddressParts DEF HeapTypes
<1>5. PICK x \in VSpace : x = b[1]
  BY <1>4
<1>6. PICK a \in Arenas : a = arena[s][x]
  BY <1>1, <1>5 DEF HeapTypes
<1>7. a.desc = s /\ b[2] # -1 /\ s # NULL /\ ~a.large
  BY <1>1, <1>5, <1>6, MemAssumption DEF HeapOf, Spaces
<1>8. /\ Taken(a).desc = s /\ ~Taken(a).large /\ Taken(a).cnt = a.cnt - 1 /\ a.cnt \in Int
      /\ Taken(a) # NoArena
  BY <1>6, <1>7 DEF Taken, Arenas, NoArena
<1>9. \A u \in Spaces : \A w \in VSpace :
         arena'[u][w] = IF u = s /\ w = x THEN Taken(a) ELSE arena[u][w]
  BY <1>1, <1>2, <1>5, <1>6 DEF HeapTypes
<1>10. /\ free_list'[s] = free_list[s] \ {b} /\ held'[s] = held[s] \cup {b}
       /\ \A u \in Spaces : u # s => /\ free_list'[u] = free_list[u] /\ held'[u] = held[u]
                                     /\ arena'[u] = arena[u]
  BY <1>1, <1>2 DEF HeapTypes
<1>11. HeapOf(s)'
  <2>1. /\ free_list'[s] \cap held'[s] = {}
        /\ \A d \in free_list'[s] : arena'[s][d[1]].desc = s /\ d[2] # -1
    <3>1. \A d \in free_list[s] : d[1] \in VSpace
      BY <1>1, AddressParts DEF HeapTypes
    <3> QED
      BY <1>1, <1>8, <1>9, <1>10, <3>1 DEF HeapOf
  <2>2. ASSUME NEW d \in held'[s]
        PROVE  arena'[s][d[1]] # NoArena /\ (arena'[s][d[1]].large <=> d[2] = -1)
    <3>1. CASE d = b
      BY <3>1, <1>4, <1>5, <1>7, <1>8, <1>9
    <3>2. CASE d # b
      <4>1. d \in held[s] /\ d[1] \in VSpace
        BY <3>2, <2>2, <1>1, <1>10, AddressParts DEF HeapTypes
      <4>2. arena[s][d[1]] # NoArena /\ (arena[s][d[1]].large <=> d[2] = -1)
        BY <4>1, <1>1 DEF HeapOf
      <4>3. CASE d[1] = x
        BY <4>1, <4>2, <4>3, <1>6, <1>7, <1>8, <1>9
      <4>4. CASE d[1] # x
        BY <4>1, <4>2, <4>4, <1>9
      <4> QED
        BY <4>3, <4>4
    <3> QED
      BY <3>1, <3>2
  <2>3. ASSUME NEW v \in VSpace, arena'[s][v].desc = s
        PROVE  /\ arena'[s][v].cnt = Cardinality(free_list'[s] \cap Blocks(v))
               /\ arena'[s][v].cnt < BlocksPerArena
    <3>1. CASE v # x
      <4>1. arena'[s][v] = arena[s][v]
        BY <3>1, <1>9
      <4>2. b \notin Blocks(v)
        BY <3>1, <1>4, <1>5, <1>7, BlockPage
      <4>3. free_list'[s] \cap Blocks(v) = free_list[s] \cap Blocks(v)
        BY <4>2, <1>10
      <4>4. arena[s][v].desc = s
        BY <2>3, <4>1
      <4>5. /\ arena[s][v].cnt = Cardinality(free_list[s] \cap Blocks(v))
            /\ arena[s][v].cnt < BlocksPerArena
        BY <4>4, <1>1 DEF HeapOf
      <4> QED
        BY <4>1, <4>3, <4>5
    <3>2. CASE v = x
      <4>1. PICK S : S = free_list[s] \cap Blocks(v)
        OBVIOUS
      <4>2. a.cnt = Cardinality(S) /\ a.cnt < BlocksPerArena
        BY <3>2, <4>1, <1>1, <1>6, <1>7 DEF HeapOf
      <4>3. IsFiniteSet(S) /\ b \in S
        <5>1. IsFiniteSet(Blocks(v)) /\ S \in SUBSET Blocks(v)
          BY <4>1, BlockCount
        <5>2. b \in Blocks(v)
          BY <3>2, <1>4, <1>5, <1>7, BlockPage
        <5> QED
          BY <5>1, <5>2, <4>1, FS_Subset
      <4>4. Cardinality(S \ {b}) = Cardinality(S) - 1
        BY <4>3, FS_RemoveElement
      <4>5. free_list'[s] \cap Blocks(v) = S \ {b}
        BY <4>1, <1>10
      <4>6. arena'[s][v].cnt = a.cnt - 1
        BY <3>2, <1>8, <1>9
      <4>7. a.cnt - 1 < BlocksPerArena
        BY <4>2, <1>8, MemAssumption
      <4>8. Cardinality(free_list'[s] \cap Blocks(v)) = a.cnt - 1
        BY <4>2, <4>4, <4>5
      <4> QED
        BY <4>6, <4>7, <4>8
    <3> QED
      BY <3>1, <3>2
  <2>4. ASSUME NEW v \in VSpace, arena'[s][v] # NoArena PROVE pte'[s][v] # -1
    <3>1. arena[s][v] # NoArena
      <4>1. CASE v = x
        <5>1. NoArena.desc = NULL
          BY DEF NoArena
        <5> QED
          BY <4>1, <5>1, <1>6, <1>7
      <4>2. CASE v # x
        BY <4>2, <2>4, <1>9
      <4> QED
        BY <4>1, <4>2
    <3> QED
      BY <3>1, <1>1, <1>3 DEF HeapOf
  <2>5. ASSUME NEW v \in VSpace, arena'[s][v].large
        PROVE  /\ arena'[s][v].desc = NULL
               /\ \A w \in v + 1 .. v + arena'[s][v].cnt - 1 : pte'[s][w] # -1 /\ arena'[s][w] = NoArena
    <3>1. v # x /\ arena'[s][v] = arena[s][v]
      BY <2>5, <1>8, <1>9
    <3>2. /\ arena[s][v].desc = NULL
          /\ \A w \in v + 1 .. v + arena[s][v].cnt - 1 : pte[s][w] # -1 /\ arena[s][w] = NoArena
      BY <2>5, <3>1, <1>1 DEF HeapOf
    <3>3. \A w \in v + 1 .. v + arena[s][v].cnt - 1 : w \in VSpace /\ w # x
      <4>1. v .. v + arena[s][v].cnt - 1 \subseteq VSpace
        BY <2>5, <3>1, <1>1 DEF LargeInside
      <4>2. \A w \in v + 1 .. v + arena[s][v].cnt - 1 : w \in v .. v + arena[s][v].cnt - 1
        BY BitsApart
      <4>3. arena[s][x] # NoArena
        BY <1>6, <1>7, MemAssumption DEF NoArena
      <4> QED
        BY <3>2, <4>1, <4>2, <4>3
    <3> QED
      BY <3>1, <3>2, <3>3, <1>3, <1>9
  <2> QED
    BY <1>1, <2>1, <2>2, <2>3, <2>4, <2>5 DEF HeapOf, NoArena, Blocks
<1>12. ASSUME NEW u \in Spaces PROVE HeapOf(u)'
  <2>1. CASE u = s
    BY <1>11, <2>1
  <2>2. CASE u # s
    <3>1. /\ arena'[u] = arena[u] /\ free_list'[u] = free_list[u] /\ held'[u] = held[u]
          /\ \A v \in VSpace : pte[u][v] # -1 => pte'[u][v] # -1
      BY <2>2, <1>3, <1>10
    <3> QED
      BY <3>1, <1>1, HeapUntouched
  <2> QED
    BY <2>1, <2>2
<1>13. KownApart'
  <2>1. CASE s # Kernel
    BY <2>1, <1>1, <1>3, <1>10, KownUntouched DEF Spaces
  <2>2. CASE s = Kernel
    <3>1. \A p \in Procs : x \notin kown[p]
      BY <2>2, <1>1, <1>6, <1>7, MemAssumption DEF KownApart, NoArena
    <3> QED
      BY <2>2, <3>1, <1>1, <1>3, <1>8, <1>9, KownHeader
  <2> QED
    BY <2>1, <2>2
<1> QED
  BY <1>1, <1>3, <1>12, <1>13

(* malloc_page maps pages that were not mapped and leaves the others. *)
LEMMA MallocPageGrows ==
    ASSUME PageInv, NEW s \in Spaces, NEW run \in SUBSET VSpace, run \cap vbits[s] = {},
           s \in Procs => table[s] # -1, MallocPage(s, run)
    PROVE  /\ \A v \in run : pte[s][v] = -1
           /\ \A u \in Spaces : \A v \in VSpace : pte[u][v] # -1 => pte'[u][v] # -1
<1>1. PageTypes /\ PagesAgree /\ VaddrExact
  BY DEF PageInv
<1>2. starting = NULL \/ s # First
  BY <1>1, MemAssumption DEF PagesAgree
<1>3. \A v \in run : pte[s][v] = -1
  BY <1>1, <1>2 DEF VaddrExact
<1>4. PICK to : pte' = [pte EXCEPT ![s] = [v \in VSpace |-> IF v \in run THEN to[v] ELSE pte[s][v]]]
  BY DEF MallocPage
<1>5. \A u \in Spaces : \A v \in VSpace : pte[u][v] # -1 => pte'[u][v] # -1
  BY <1>1, <1>3, <1>4 DEF PageTypes
<1> QED
  BY <1>3, <1>5

(* A header is written at the first of some pages that were not mapped,    *)
(* and the block d behind it given to the program.                         *)
Fresh(s, run, x, a, d) ==
    /\ \A v \in run : pte[s][v] = -1 /\ pte'[s][v] # -1
    /\ \A v \in VSpace : pte[s][v] # -1 => pte'[s][v] # -1
    /\ a # NoArena
    /\ \A w \in VSpace : arena'[s][w] = IF w = x THEN a ELSE arena[s][w]
    /\ a.large => a.desc = NULL /\ \A w \in x + 1 .. x + a.cnt - 1 : w \in run /\ w # x
    /\ d[1] = x /\ (a.large <=> d[2] = -1) /\ held'[s] \subseteq held[s] \cup {d}

LEMMA FreshHeader ==
    ASSUME HeapTypes, LargeInside, NEW s \in Spaces, HeapOf(s),
           NEW run \in SUBSET VSpace, NEW x \in run, NEW a, NEW d, Fresh(s, run, x, a, d)
    PROVE  /\ \A v \in run : arena[s][v] = NoArena
           /\ \A b \in free_list[s] \cup held[s] : b[1] \notin run
           /\ \A b \in held'[s] :
                 arena'[s][b[1]] # NoArena /\ (arena'[s][b[1]].large <=> b[2] = -1)
           /\ \A v \in VSpace : arena'[s][v] # NoArena => pte'[s][v] # -1
           /\ \A v \in VSpace : arena'[s][v].large =>
                 /\ arena'[s][v].desc = NULL
                 /\ \A w \in v + 1 .. v + arena'[s][v].cnt - 1 :
                       pte'[s][w] # -1 /\ arena'[s][w] = NoArena
<1>0. /\ \A v \in run : pte[s][v] = -1 /\ pte'[s][v] # -1
      /\ \A v \in VSpace : pte[s][v] # -1 => pte'[s][v] # -1
      /\ a # NoArena
      /\ \A w \in VSpace : arena'[s][w] = IF w = x THEN a ELSE arena[s][w]
      /\ a.large => a.desc = NULL /\ \A w \in x + 1 .. x + a.cnt - 1 : w \in run /\ w # x
      /\ d[1] = x /\ (a.large <=> d[2] = -1) /\ held'[s] \subseteq held[s] \cup {d}
  BY DEF Fresh
<1>1. \A v \in run : arena[s][v] = NoArena
  BY <1>0 DEF HeapOf
<1>2. \A b \in free_list[s] \cup held[s] : b[1] \in VSpace /\ arena[s][b[1]] # NoArena
  <2>1. ASSUME NEW b \in free_list[s] PROVE b[1] \in VSpace /\ arena[s][b[1]] # NoArena
    <3>1. b[1] \in VSpace
      BY AddressParts DEF HeapTypes
    <3>2. arena[s][b[1]].desc = s /\ s # NULL /\ NoArena.desc = NULL
      BY MemAssumption DEF HeapOf, Spaces, NoArena
    <3> QED
      BY <3>1, <3>2
  <2>2. ASSUME NEW b \in held[s] PROVE b[1] \in VSpace /\ arena[s][b[1]] # NoArena
    <3>1. b[1] \in VSpace
      BY AddressParts DEF HeapTypes
    <3> QED
      BY <3>1 DEF HeapOf
  <2> QED
    BY <2>1, <2>2
<1>3. \A b \in free_list[s] \cup held[s] : b[1] \notin run
  BY <1>1, <1>2
<1>4. ASSUME NEW b \in held'[s]
      PROVE  arena'[s][b[1]] # NoArena /\ (arena'[s][b[1]].large <=> b[2] = -1)
  <2>1. CASE b \in held[s]
    <3>1. b[1] \in VSpace /\ b[1] # x
      BY <2>1, <1>2, <1>3
    <3>2. arena'[s][b[1]] = arena[s][b[1]]
      BY <1>0, <3>1
    <3>3. arena[s][b[1]] # NoArena /\ (arena[s][b[1]].large <=> b[2] = -1)
      BY <2>1 DEF HeapOf
    <3> QED
      BY <3>2, <3>3
  <2>2. CASE b = d
    <3>1. arena'[s][b[1]] = a
      BY <1>0, <2>2
    <3> QED
      BY <1>0, <2>2, <3>1
  <2> QED
    BY <1>0, <2>1, <2>2, <1>4
<1>5. ASSUME NEW v \in VSpace, arena'[s][v] # NoArena PROVE pte'[s][v] # -1
  <2>1. CASE v = x
    BY <1>0, <2>1
  <2>2. CASE v # x
    BY <1>0, <2>2, <1>5 DEF HeapOf
  <2> QED
    BY <2>1, <2>2
<1>6. ASSUME NEW v \in VSpace, arena'[s][v].large
      PROVE  /\ arena'[s][v].desc = NULL
             /\ \A w \in v + 1 .. v + arena'[s][v].cnt - 1 :
                   pte'[s][w] # -1 /\ arena'[s][w] = NoArena
  <2>1. CASE v = x
    <3>1. arena'[s][v] = a
      BY <1>0, <2>1
    <3>2. a.desc = NULL /\ \A w \in x + 1 .. x + a.cnt - 1 : w \in run /\ w # x
      BY <1>0, <3>1, <1>6
    <3>3. \A w \in x + 1 .. x + a.cnt - 1 : pte'[s][w] # -1 /\ arena'[s][w] = NoArena
      BY <1>0, <3>2, <1>1
    <3> QED
      BY <2>1, <3>1, <3>2, <3>3
  <2>2. CASE v # x
    <3>1. arena'[s][v] = arena[s][v]
      BY <1>0, <2>2
    <3>2. /\ arena[s][v].desc = NULL
          /\ \A w \in v + 1 .. v + arena[s][v].cnt - 1 : pte[s][w] # -1 /\ arena[s][w] = NoArena
      BY <3>1, <1>6 DEF HeapOf
    <3>3. \A w \in v + 1 .. v + arena[s][v].cnt - 1 : w \in VSpace
      <4>1. v .. v + arena[s][v].cnt - 1 \subseteq VSpace
        BY <3>1, <1>6 DEF LargeInside
      <4>2. \A w \in v + 1 .. v + arena[s][v].cnt - 1 : w \in v .. v + arena[s][v].cnt - 1
        BY BitsApart
      <4> QED
        BY <4>1, <4>2
    <3>4. \A w \in v + 1 .. v + arena[s][v].cnt - 1 : w # x
      BY <1>0, <3>2
    <3>5. \A w \in v + 1 .. v + arena[s][v].cnt - 1 : pte'[s][w] # -1 /\ arena'[s][w] = NoArena
      BY <1>0, <3>2, <3>3, <3>4
    <3> QED
      BY <3>1, <3>2, <3>5
  <2> QED
    BY <2>1, <2>2
<1> QED
  BY <1>1, <1>3, <1>4, <1>5, <1>6

(* The pages of a fresh run are not those of a process. *)
LEMMA KownNotFresh ==
    ASSUME KownApart, NEW run, \A v \in run : pte[Kernel][v] = -1
    PROVE  \A p \in Procs : \A v \in kown[p] : v \notin run
BY DEF KownApart

(* All heaps and the pages of processes after a step on the heap of s. *)
LEMMA OtherHeaps ==
    ASSUME MemInv, \A u \in Spaces : HeapOf(u), KownApart, NEW s \in Spaces, HeapOf(s)',
           kown' = kown, \A u \in Spaces : u # s => old'[u] = old[u],
           \A u \in Spaces : u # s => /\ arena'[u] = arena[u]
                                      /\ free_list'[u] = free_list[u] /\ held'[u] = held[u],
           \A u \in Spaces : \A v \in VSpace : u # s /\ pte[u][v] # -1 => pte'[u][v] # -1,
           s = Kernel => KownApart'
    PROVE  (\A u \in Spaces : HeapOf(u)') /\ KownApart'
<1>1. LargeInside /\ PageTypes
  BY DEF MemInv, PageInv
<1>2. ASSUME NEW u \in Spaces PROVE HeapOf(u)'
  <2>1. CASE u = s
    BY <2>1
  <2>2. CASE u # s
    <3>1. /\ HeapOf(u) /\ old'[u] = old[u] /\ arena'[u] = arena[u] /\ free_list'[u] = free_list[u] /\ held'[u] = held[u]
          /\ \A v \in VSpace : pte[u][v] # -1 => pte'[u][v] # -1
      BY <2>2
    <3> QED
      BY <1>1, <3>1, HeapUntouched
  <2> QED
    BY <2>1, <2>2
<1>3. KownApart'
  <2>1. CASE s # Kernel
    <3>1. Kernel \in Spaces
      BY DEF Spaces
    <3>2. arena'[Kernel] = arena[Kernel] /\ \A v \in VSpace : pte[Kernel][v] # -1 => pte'[Kernel][v] # -1
      BY <2>1, <3>1
    <3> QED
      BY <1>1, <3>2, KownUntouched
  <2> QED
    BY <2>1
<1> QED
  BY <1>2, <1>3

LEMMA HeapAfterArena ==
    ASSUME MemInv, LoadInv, HeapInv, NEW s \in Spaces, SysMallocArena(s), Races,
           UNCHANGED execVars
    PROVE  HeapInv'
<1>0. SUFFICES ASSUME ~stray PROVE (\A u \in Spaces : HeapOf(u)') /\ KownApart' /\ panic' # "assert"
  BY DEF SysMallocArena, Exhausted, HeapInv
<1>1. /\ PageInv /\ PageTypes /\ HeapTypes /\ LargeInside /\ KownApart /\ panic # "assert"
      /\ HeapOf(s) /\ \A u \in Spaces : HeapOf(u)
      /\ old[s] = {} /\ old' = old
  BY <1>0 DEF MemInv, PageInv, HeapInv, SysMallocArena, Runs, LoadInv, execVars
<1>2. CASE Full(s, 1)
  <2>1. UNCHANGED <<arena, free_list, held, pte, kown>> /\ panic' = "exhausted"
    BY <1>2 DEF SysMallocArena, Exhausted
  <2>2. ASSUME NEW u \in Spaces PROVE HeapOf(u)'
    BY <1>1, <2>1, HeapUntouched
  <2>3. KownApart'
    BY <1>1, <2>1, KownUntouched
  <2> QED
    BY <2>1, <2>2, <2>3
<1>3. CASE ~Full(s, 1)
  <2>1. PICK x : x = bitmap_scan(vbits[s], VLen(s), 1, FALSE)
    OBVIOUS
  <2>2. PICK a : a = [desc |-> s, large |-> FALSE, cnt |-> BlocksPerArena - 1]
    OBVIOUS
  <2>3. /\ MallocPage(s, {x})
        /\ arena' = [arena EXCEPT ![s] = [arena[s] EXCEPT ![x] = a]]
        /\ \E b \in Blocks(x) :
              /\ free_list' = [free_list EXCEPT ![s] = Blocks(x) \ {b}]
              /\ held' = [held EXCEPT ![s] = held[s] \cup {b}]
        /\ UNCHANGED <<table, kown, starting>> /\ UNCHANGED <<panic, stray>>
    BY <1>3, <2>1, <2>2 DEF SysMallocArena
  <2>4. /\ x \in VSpace /\ x \notin vbits[s]
        /\ Cardinality({x}) <= Cardinality(IF s = Kernel THEN FreeK ELSE FreeU)
    BY <1>1, <1>3, <2>1, ArenaPage
  <2>5. PICK d \in Blocks(x) :
              /\ free_list' = [free_list EXCEPT ![s] = Blocks(x) \ {d}]
              /\ held' = [held EXCEPT ![s] = held[s] \cup {d}]
    BY <2>3
  <2>6. free_list[s] = {} /\ (s \in Procs => table[s] # -1)
    BY DEF SysMallocArena, Runs
  <2>7. PICK run \in SUBSET VSpace : run = {x}
    BY <2>4
  <2>8. /\ \A v \in run : pte[s][v] = -1 /\ pte'[s][v] # -1
        /\ \A u \in Spaces : \A v \in VSpace : pte[u][v] # -1 => pte'[u][v] # -1
    <3>1. run \cap vbits[s] = {} /\ MallocPage(s, run)
          /\ Cardinality(run) <= Cardinality(IF s = Kernel THEN FreeK ELSE FreeU)
      BY <2>3, <2>4, <2>7
    <3>2. /\ \A v \in run : pte[s][v] = -1
          /\ \A u \in Spaces : \A v \in VSpace : pte[u][v] # -1 => pte'[u][v] # -1
      BY <1>1, <2>6, <3>1, MallocPageGrows
    <3>3. \A v \in run : pte'[s][v] # -1
      BY <1>1, <2>3, <2>6, <3>1, MallocPageKeeps
    <3> QED
      BY <3>2, <3>3
  <2>9. /\ a.desc = s /\ ~a.large /\ a.cnt = BlocksPerArena - 1 /\ a # NoArena
    BY <2>2, MemAssumption DEF NoArena, Spaces
  <2>10. /\ \A w \in VSpace : arena'[s][w] = IF w = x THEN a ELSE arena[s][w]
         /\ \A u \in Spaces : u # s => arena'[u] = arena[u]
    BY <1>1, <2>3, <2>4 DEF HeapTypes
  <2>11. /\ free_list'[s] = Blocks(x) \ {d} /\ held'[s] = held[s] \cup {d}
         /\ \A u \in Spaces : u # s => free_list'[u] = free_list[u] /\ held'[u] = held[u]
    BY <1>1, <2>5 DEF HeapTypes
  <2>12. \A b \in Blocks(x) : b[1] = x /\ b[2] # -1
    BY MemAssumption DEF Blocks
  <2>13. d[1] = x /\ d[2] # -1
    BY <2>12
  <2>14. /\ \A v \in run : arena[s][v] = NoArena
         /\ \A b \in free_list[s] \cup held[s] : b[1] \notin run
         /\ \A b \in held'[s] :
               arena'[s][b[1]] # NoArena /\ (arena'[s][b[1]].large <=> b[2] = -1)
         /\ \A v \in VSpace : arena'[s][v] # NoArena => pte'[s][v] # -1
         /\ \A v \in VSpace : arena'[s][v].large =>
               /\ arena'[s][v].desc = NULL
               /\ \A w \in v + 1 .. v + arena'[s][v].cnt - 1 :
                     pte'[s][w] # -1 /\ arena'[s][w] = NoArena
    <3>1. x \in run /\ (a.large <=> d[2] = -1)
      BY <2>7, <2>9, <2>13
    <3>2. \A v \in VSpace : pte[s][v] # -1 => pte'[s][v] # -1
      BY <2>8
    <3>3. a.large => a.desc = NULL /\ \A w \in x + 1 .. x + a.cnt - 1 : w \in run /\ w # x
      BY <2>9
    <3>4. Fresh(s, run, x, a, d)
      BY <2>8, <2>9, <2>10, <2>11, <2>13, <3>1, <3>2, <3>3 DEF Fresh
    <3> QED
      BY <1>1, <3>1, <3>4, FreshHeader
  <2>15. ASSUME NEW v \in VSpace, arena'[s][v].desc = s
         PROVE  /\ arena'[s][v].cnt = Cardinality(free_list'[s] \cap Blocks(v))
                /\ arena'[s][v].cnt < BlocksPerArena
    <3>1. CASE v = x
      <4>1. IsFiniteSet(Blocks(x)) /\ Cardinality(Blocks(x)) = BlocksPerArena
        BY BlockCount
      <4>2. Cardinality(Blocks(x) \ {d}) = BlocksPerArena - 1
        BY <4>1, FS_RemoveElement
      <4>3. free_list'[s] \cap Blocks(v) = Blocks(x) \ {d}
        BY <3>1, <2>11
      <4>4. arena'[s][v].cnt = BlocksPerArena - 1
        BY <3>1, <2>9, <2>10
      <4>5. BlocksPerArena - 1 < BlocksPerArena
        BY MemAssumption
      <4> QED
        BY <4>2, <4>3, <4>4, <4>5
    <3>2. CASE v # x
      <4>1. arena'[s][v] = arena[s][v]
        BY <3>2, <2>10
      <4>2. /\ arena[s][v].cnt = Cardinality(free_list[s] \cap Blocks(v))
            /\ arena[s][v].cnt < BlocksPerArena
        <5>1. arena[s][v].desc = s
          BY <4>1, <2>15
        <5> QED
          BY <5>1, <1>1 DEF HeapOf
      <4>3. free_list[s] \cap Blocks(v) = {}
        BY <2>6
      <4>4. free_list'[s] \cap Blocks(v) = {}
        <5>1. \A b \in Blocks(v) : b[1] = v
          BY DEF Blocks
        <5> QED
          BY <3>2, <5>1, <2>11, <2>12
      <4> QED
        BY <4>1, <4>2, <4>3, <4>4
    <3> QED
      BY <3>1, <3>2
  <2>16. free_list'[s] \cap held'[s] = {}
    <3>1. ASSUME NEW b \in free_list'[s], b \in held'[s] PROVE FALSE
      <4>1. b \in Blocks(x) /\ b # d /\ b \in held[s]
        BY <3>1, <2>11
      <4>2. b[1] \in run
        BY <4>1, <2>7, <2>12
      <4> QED
        BY <4>1, <4>2, <2>14
    <3> QED
      BY <3>1
  <2>17. \A b \in free_list'[s] : arena'[s][b[1]].desc = s /\ b[2] # -1
    BY <2>4, <2>9, <2>10, <2>11, <2>12
  <2>18. HeapOf(s)'
    BY <1>1, <2>14, <2>15, <2>16, <2>17 DEF HeapOf, NoArena, Blocks
  <2>19. s = Kernel => KownApart'
    <3>1. ASSUME s = Kernel PROVE KownApart'
      <4>1. \A p \in Procs : x \notin kown[p]
        BY <1>1, <2>7, <2>8, <3>1, KownNotFresh
      <4>2. \A v \in VSpace : pte[Kernel][v] # -1 => pte'[Kernel][v] # -1
        BY <2>8, <3>1
      <4> QED
        BY <1>1, <2>3, <2>4, <2>9, <2>10, <3>1, <4>1, <4>2, KownHeader
    <3> QED
      BY <3>1
  <2>20. (\A u \in Spaces : HeapOf(u)') /\ KownApart'
    BY <1>1, <2>3, <2>8, <2>10, <2>11, <2>18, <2>19, OtherHeaps
  <2> QED
    BY <1>1, <2>3, <2>20
<1> QED
  BY <1>2, <1>3

(* A step after which the machine has stopped, or on no heap at all. *)
LEMMA HeapsUntouched ==
    ASSUME MemInv, \A u \in Spaces : HeapOf(u), KownApart,
           UNCHANGED <<old, arena, free_list, held, kown>>,
           \A u \in Spaces : \A v \in VSpace : pte[u][v] # -1 => pte'[u][v] # -1
    PROVE  (\A u \in Spaces : HeapOf(u)') /\ KownApart'
<1>1. LargeInside /\ PageTypes /\ Kernel \in Spaces
  BY DEF MemInv, PageInv, Spaces
<1>2. ASSUME NEW u \in Spaces PROVE HeapOf(u)'
  BY <1>1, HeapUntouched
<1>3. KownApart'
  BY <1>1, KownUntouched
<1> QED
  BY <1>2, <1>3

LEMMA HeapAfterExhausted ==
    ASSUME MemInv, HeapInv, Exhausted, UNCHANGED execVars
    PROVE  HeapInv'
<1>1. UNCHANGED <<old, arena, free_list, held, kown>> /\ pte' = pte /\ stray' = stray
      /\ panic' = "exhausted"
  BY DEF Exhausted, execVars
<1>2. ASSUME ~stray PROVE (\A u \in Spaces : HeapOf(u)') /\ KownApart'
  BY <1>1, <1>2, HeapsUntouched DEF HeapInv
<1> QED
  BY <1>1, <1>2 DEF HeapInv

LEMMA HeapAfterLarge ==
    ASSUME MemInv, LoadInv, HeapInv, NEW s \in Spaces, SysMallocLarge(s), Races,
           UNCHANGED execVars
    PROVE  HeapInv'
<1>1. ASSUME Exhausted PROVE HeapInv'
  BY <1>1, HeapAfterExhausted
<1>2. ASSUME NEW cnt \in LargeSizes, NEW past \in Past(s), ~VFull(s),
             Run(s, cnt, past) # {}, ~Full(s, cnt),
             LET run == Run(s, cnt, past)
                 v == CHOOSE w \in run : w - 1 \notin run
             IN  /\ MallocPage(s, run)
                 /\ arena' = [arena EXCEPT ![s][v] = [desc |-> NULL, large |-> TRUE, cnt |-> cnt]]
                 /\ held' = [held EXCEPT ![s] = @ \cup {<<v, -1>>}]
                 /\ UNCHANGED <<table, kown, free_list, starting, panic, stray>>
      PROVE  HeapInv'
  <2>0. /\ PageInv /\ PageTypes /\ HeapTypes /\ LargeInside
        /\ (s \in Procs => table[s] # -1) /\ old[s] = {} /\ old' = old
    BY DEF MemInv, PageInv, SysMallocLarge, Runs, LoadInv, execVars
  <2>1. PICK x \in VSpace :
              /\ Run(s, cnt, past) = x .. x + cnt - 1
              /\ x .. x + cnt - 1 \in SUBSET VSpace
              /\ (x .. x + cnt - 1) \cap vbits[s] = {}
              /\ Cardinality(x .. x + cnt - 1) <= Cardinality(IF s = Kernel THEN FreeK ELSE FreeU)
              /\ x = CHOOSE w \in Run(s, cnt, past) : w - 1 \notin Run(s, cnt, past)
    BY <2>0, <1>2, LargeRun
  <2>2. PICK a : a = [desc |-> NULL, large |-> TRUE, cnt |-> cnt]
    OBVIOUS
  <2>3. PICK run \in SUBSET VSpace : run = x .. x + cnt - 1
    BY <2>1
  <2>4. PICK d : d = <<x, -1>>
    OBVIOUS
  <2>5. /\ MallocPage(s, run)
        /\ arena' = [arena EXCEPT ![s] = [arena[s] EXCEPT ![x] = a]]
        /\ held' = [held EXCEPT ![s] = held[s] \cup {d}]
        /\ UNCHANGED <<table, kown, starting>> /\ UNCHANGED <<free_list, panic, stray>>
    BY <1>2, <2>1, <2>2, <2>3, <2>4
  <2>6. SUFFICES ASSUME ~stray
                 PROVE  (\A u \in Spaces : HeapOf(u)') /\ KownApart' /\ panic' # "assert"
    BY <2>5 DEF HeapInv
  <2>7. KownApart /\ panic # "assert" /\ HeapOf(s) /\ \A u \in Spaces : HeapOf(u)
    BY <2>6 DEF HeapInv
  <2>8. /\ \A v \in run : pte[s][v] = -1 /\ pte'[s][v] # -1
        /\ \A u \in Spaces : \A v \in VSpace : pte[u][v] # -1 => pte'[u][v] # -1
    <3>1. run \cap vbits[s] = {}
          /\ Cardinality(run) <= Cardinality(IF s = Kernel THEN FreeK ELSE FreeU)
      BY <2>1, <2>3
    <3>2. /\ \A v \in run : pte[s][v] = -1
          /\ \A u \in Spaces : \A v \in VSpace : pte[u][v] # -1 => pte'[u][v] # -1
      BY <2>0, <2>5, <3>1, MallocPageGrows
    <3>3. \A v \in run : pte'[s][v] # -1
      BY <2>0, <2>5, <3>1, MallocPageKeeps
    <3> QED
      BY <3>2, <3>3
  <2>9. a.desc = NULL /\ a.large /\ a.cnt = cnt /\ a # NoArena
    BY <2>2 DEF NoArena
  <2>10. /\ \A w \in VSpace : arena'[s][w] = IF w = x THEN a ELSE arena[s][w]
         /\ \A u \in Spaces : u # s => arena'[u] = arena[u]
    BY <2>0, <2>5 DEF HeapTypes
  <2>11. /\ free_list' = free_list /\ held'[s] = held[s] \cup {d}
         /\ \A u \in Spaces : u # s => held'[u] = held[u]
    BY <2>0, <2>5 DEF HeapTypes
  <2>12. x \in run /\ \A w \in x + 1 .. x + a.cnt - 1 : w \in run /\ w # x
    <3>1. x \in Int /\ cnt \in Int /\ cnt >= 1
      BY BitsApart, MemAssumption
    <3> QED
      BY <3>1, <2>3, <2>9
  <2>13. Fresh(s, run, x, a, d)
    <3>1. d[1] = x /\ d[2] = -1
      BY <2>4
    <3> QED
      BY <2>8, <2>9, <2>10, <2>11, <2>12, <3>1 DEF Fresh
  <2>14. /\ \A v \in run : arena[s][v] = NoArena
         /\ \A b \in free_list[s] \cup held[s] : b[1] \notin run
         /\ \A b \in held'[s] :
               arena'[s][b[1]] # NoArena /\ (arena'[s][b[1]].large <=> b[2] = -1)
         /\ \A v \in VSpace : arena'[s][v] # NoArena => pte'[s][v] # -1
         /\ \A v \in VSpace : arena'[s][v].large =>
               /\ arena'[s][v].desc = NULL
               /\ \A w \in v + 1 .. v + arena'[s][v].cnt - 1 :
                     pte'[s][w] # -1 /\ arena'[s][w] = NoArena
    BY <2>0, <2>7, <2>12, <2>13, FreshHeader
  <2>15. ASSUME NEW v \in VSpace, arena'[s][v].desc = s
         PROVE  /\ arena'[s][v].cnt = Cardinality(free_list'[s] \cap Blocks(v))
                /\ arena'[s][v].cnt < BlocksPerArena
    <3>1. v # x
      BY <2>9, <2>10, <2>15, MemAssumption DEF Spaces
    <3>2. arena'[s][v] = arena[s][v]
      BY <3>1, <2>10
    <3>3. arena[s][v].desc = s
      BY <2>15, <3>2
    <3>4. /\ arena[s][v].cnt = Cardinality(free_list[s] \cap Blocks(v))
          /\ arena[s][v].cnt < BlocksPerArena
      BY <3>3, <2>0, <2>7 DEF HeapOf
    <3> QED
      BY <3>2, <3>4, <2>11
  <2>16. free_list'[s] \cap held'[s] = {}
    <3>1. \A b \in free_list[s] : b # d
      BY <2>4, <2>7 DEF HeapOf
    <3> QED
      BY <3>1, <2>7, <2>11 DEF HeapOf
  <2>17. ASSUME NEW b \in free_list'[s] PROVE arena'[s][b[1]].desc = s /\ b[2] # -1
    <3>1. b \in free_list[s] /\ b[1] \in VSpace /\ b[1] # x
      BY <2>0, <2>11, <2>12, <2>14, <2>17, AddressParts DEF HeapTypes
    <3>2. arena'[s][b[1]] = arena[s][b[1]]
      BY <3>1, <2>10
    <3> QED
      BY <3>1, <3>2, <2>7 DEF HeapOf
  <2>18. HeapOf(s)'
    BY <2>0, <2>14, <2>15, <2>16, <2>17 DEF HeapOf, NoArena, Blocks
  <2>19. s = Kernel => KownApart'
    <3>1. ASSUME s = Kernel PROVE KownApart'
      <4>1. \A p \in Procs : \A v \in kown[p] : v \notin run
        BY <2>7, <2>8, <3>1, KownNotFresh
      <4>2. \A p \in Procs : x \notin kown[p]
        BY <4>1, <2>12
      <4>3. \A p \in Procs : \A v \in kown[p] : v \notin x + 1 .. x + a.cnt - 1
        BY <4>1, <2>12
      <4>4. \A v \in VSpace : pte[Kernel][v] # -1 => pte'[Kernel][v] # -1
        BY <2>8, <3>1
      <4>5. \A w \in VSpace : arena'[Kernel][w] = IF w = x THEN a ELSE arena[Kernel][w]
        BY <2>10, <3>1
      <4> QED
        BY <2>0, <2>5, <2>7, <4>2, <4>3, <4>4, <4>5, KownHeader
    <3> QED
      BY <3>1
  <2>20. (\A u \in Spaces : HeapOf(u)') /\ KownApart'
    BY <2>0, <2>5, <2>7, <2>8, <2>10, <2>11, <2>18, <2>19, OtherHeaps
  <2> QED
    BY <2>5, <2>7, <2>20
<1> QED
  BY <1>1, <1>2, Zenon DEF SysMallocLarge

(* The pages of an allocation, n pages with the header in the first, are   *)
(* unmapped: no other allocation has one of them.                          *)
Freed(s, x, n) ==
    /\ arena[s][x] # NoArena
    /\ \A w \in x + 1 .. x + n - 1 : arena[s][w] = NoArena
    /\ \A w \in VSpace : arena'[s][w] = IF w = x THEN NoArena ELSE arena[s][w]
    /\ \A w \in VSpace : pte'[s][w] = IF w \in x .. x + n - 1 THEN -1 ELSE pte[s][w]

LEMMA FreedPages ==
    ASSUME HeapTypes, LargeInside, NEW s \in Spaces, HeapOf(s),
           NEW x \in VSpace, NEW n \in Int, Freed(s, x, n)
    PROVE  /\ \A v \in VSpace : arena'[s][v] # NoArena => pte'[s][v] # -1
           /\ \A v \in VSpace : arena'[s][v].large =>
                 /\ arena'[s][v].desc = NULL
                 /\ \A w \in v + 1 .. v + arena'[s][v].cnt - 1 :
                       pte'[s][w] # -1 /\ arena'[s][w] = NoArena
<1>0. /\ arena[s][x] # NoArena
      /\ \A w \in x + 1 .. x + n - 1 : arena[s][w] = NoArena
      /\ \A w \in VSpace : arena'[s][w] = IF w = x THEN NoArena ELSE arena[s][w]
      /\ \A w \in VSpace : pte'[s][w] = IF w \in x .. x + n - 1 THEN -1 ELSE pte[s][w]
  BY DEF Freed
<1>1. x \in Int /\ \A v \in VSpace : v \in Int
  BY BitsApart
<1>2. \A w : w \in x .. x + n - 1 /\ w # x => w \in x + 1 .. x + n - 1
  BY <1>1
<1>3. ASSUME NEW v \in VSpace, arena'[s][v] # NoArena PROVE pte'[s][v] # -1
  <2>1. v # x /\ arena[s][v] # NoArena
    BY <1>0, <1>3
  <2>2. v \notin x .. x + n - 1
    BY <1>0, <1>2, <2>1
  <2> QED
    BY <1>0, <2>1, <2>2 DEF HeapOf
<1>4. ASSUME NEW v \in VSpace, arena'[s][v].large
      PROVE  /\ arena'[s][v].desc = NULL
             /\ \A w \in v + 1 .. v + arena'[s][v].cnt - 1 :
                   pte'[s][w] # -1 /\ arena'[s][w] = NoArena
  <2>1. v # x /\ arena'[s][v] = arena[s][v]
    BY <1>0, <1>4, NoArenaType
  <2>2. /\ arena[s][v].large /\ arena[s][v].desc = NULL
        /\ \A w \in v + 1 .. v + arena[s][v].cnt - 1 : pte[s][w] # -1 /\ arena[s][w] = NoArena
    BY <1>4, <2>1 DEF HeapOf
  <2>3. arena[s][v] \in Arenas
    BY DEF HeapTypes
  <2>4. PICK m \in Int : m = arena[s][v].cnt
    BY <2>3 DEF Arenas
  <2>a. v \in Int /\ x \in Int
    BY <1>1
  <2>5. ASSUME NEW w \in v + 1 .. v + m - 1
        PROVE  pte'[s][w] # -1 /\ arena'[s][w] = NoArena
    <3>1. w \in Int /\ v < w /\ w <= v + m - 1
      BY ONLY <2>a, m \in Int, w \in v + 1 .. v + m - 1
    <3>2. w \in VSpace
      <4>1. v .. v + arena[s][v].cnt - 1 \subseteq VSpace
        BY <2>2 DEF LargeInside
      <4>2. w \in v .. v + m - 1
        BY <2>a, <3>1
      <4> QED
        BY <2>4, <4>1, <4>2
    <3>3. pte[s][w] # -1 /\ arena[s][w] = NoArena /\ w # x
      BY <1>0, <2>2, <2>4
    <3>4. ASSUME w \in x .. x + n - 1 PROVE FALSE
      <4>1. x < w /\ w <= x + n - 1
        BY <2>a, <3>1, <3>3, <3>4
      <4>2. CASE v < x
        <5>1. x \in v + 1 .. v + m - 1
          BY <2>a, <3>1, <4>1, <4>2
        <5> QED
          BY <5>1, <1>0, <2>2, <2>4
      <4>3. CASE x < v
        <5>1. v \in x + 1 .. x + n - 1
          BY <2>a, <3>1, <4>1, <4>3
        <5> QED
          BY <5>1, <1>0, <2>2, NoArenaType
      <4> QED
        BY <2>a, <2>1, <4>2, <4>3
    <3> QED
      BY <1>0, <3>2, <3>3, <3>4
  <2> QED
    BY <2>1, <2>2, <2>4, <2>5
<1> QED
  BY <1>3, <1>4

LEMMA FreedKown ==
    ASSUME PageTypes, KownApart, kown' = kown, NEW x \in VSpace, NEW n \in Int,
           Freed(Kernel, x, n),
           \A p \in Procs : \A v \in kown[p] : v \notin x + 1 .. x + n - 1
    PROVE  KownApart'
<1>0. /\ arena[Kernel][x] # NoArena
      /\ \A w \in VSpace : arena'[Kernel][w] = IF w = x THEN NoArena ELSE arena[Kernel][w]
      /\ \A w \in VSpace : pte'[Kernel][w] = IF w \in x .. x + n - 1 THEN -1 ELSE pte[Kernel][w]
  BY DEF Freed
<1>1. ASSUME NEW p \in Procs, NEW v \in kown'[p]
      PROVE  /\ pte'[Kernel][v] # -1 /\ arena'[Kernel][v] = NoArena
             /\ \A q \in Procs \ {p} : v \notin kown'[q]
             /\ \A u \in VSpace : arena'[Kernel][u].large =>
                   v \notin u + 1 .. u + arena'[Kernel][u].cnt - 1
  <2>1. v \in kown[p] /\ v \in VSpace
    BY <1>1, BitsApart DEF PageTypes
  <2>2. /\ pte[Kernel][v] # -1 /\ arena[Kernel][v] = NoArena
        /\ \A q \in Procs \ {p} : v \notin kown[q]
        /\ \A u \in VSpace : arena[Kernel][u].large =>
              v \notin u + 1 .. u + arena[Kernel][u].cnt - 1
    BY <2>1 DEF KownApart
  <2>3. v \notin x .. x + n - 1
    <3>1. v # x /\ v \notin x + 1 .. x + n - 1
      BY <1>0, <2>1, <2>2
    <3>2. x \in Int /\ v \in Int
      BY <2>1, BitsApart
    <3> QED
      BY <3>1, <3>2
  <2>4. \A u \in VSpace : arena'[Kernel][u].large =>
              v \notin u + 1 .. u + arena'[Kernel][u].cnt - 1
    BY <1>0, <2>2, NoArenaType
  <2> QED
    BY <1>0, <2>1, <2>2, <2>3, <2>4
<1> QED
  BY <1>1 DEF KownApart, NoArena

(* sys_free of whole pages. *)
LEMMA HeapAfterFreeLarge ==
    ASSUME MemInv, NEW s \in Spaces, NEW b \in held[s], Races,
           KownApart, \A u \in Spaces : HeapOf(u), old[s] = {}, old' = old, s \in Procs => table[s] # -1,
           NEW x \in VSpace, x = b[1], NEW a \in Arenas, a = arena[s][x], a.large,
           held' = [held EXCEPT ![s] = held[s] \ {b}], UNCHANGED <<table, kown, starting>>,
           MfreePage(s, x .. x + a.cnt - 1),
           arena' = [arena EXCEPT ![s] = [arena[s] EXCEPT ![x] = NoArena]],
           free_list' = free_list
    PROVE  (\A u \in Spaces : HeapOf(u)') /\ KownApart'
<1>1. PageInv /\ PageTypes /\ HeapTypes /\ LargeInside /\ HeapOf(s)
  BY DEF MemInv, PageInv
<1>2. PICK n \in Int : n = a.cnt
  BY DEF Arenas
<1>3. PICK run \in SUBSET VSpace : run = x .. x + n - 1
  BY <1>1, <1>2 DEF LargeInside
<1>4. \A u \in Spaces : \A v \in VSpace :
         pte'[u][v] = IF u = s /\ v \in run THEN -1 ELSE pte[u][v]
  <2>1. MfreePage(s, run)
    BY <1>2, <1>3
  <2> QED
    BY <1>1, <2>1, MfreePageSimple
<1>5. /\ a # NoArena /\ a.desc = NULL
      /\ \A w \in x + 1 .. x + n - 1 : arena[s][w] = NoArena
  BY <1>1, <1>2, NoArenaType DEF HeapOf
<1>6. /\ \A w \in VSpace : arena'[s][w] = IF w = x THEN NoArena ELSE arena[s][w]
      /\ held'[s] = held[s] \ {b}
      /\ \A u \in Spaces : u # s => /\ arena'[u] = arena[u]
                                    /\ free_list'[u] = free_list[u] /\ held'[u] = held[u]
  BY <1>1 DEF HeapTypes
<1>7. Freed(s, x, n)
  BY <1>3, <1>4, <1>5, <1>6 DEF Freed
<1>8. /\ \A v \in VSpace : arena'[s][v] # NoArena => pte'[s][v] # -1
      /\ \A v \in VSpace : arena'[s][v].large =>
            /\ arena'[s][v].desc = NULL
            /\ \A w \in v + 1 .. v + arena'[s][v].cnt - 1 :
                  pte'[s][w] # -1 /\ arena'[s][w] = NoArena
  BY <1>1, <1>7, FreedPages
<1>9. ASSUME NEW d \in free_list'[s] PROVE arena'[s][d[1]].desc = s /\ d[2] # -1
  <2>1. d \in free_list[s] /\ d[1] \in VSpace
    BY <1>1, <1>9, AddressParts DEF HeapTypes
  <2>2. arena[s][d[1]].desc = s /\ d[2] # -1 /\ s # NULL
    BY <1>1, <2>1, MemAssumption DEF HeapOf, Spaces
  <2>3. d[1] # x
    BY <1>5, <2>2
  <2> QED
    BY <1>6, <2>1, <2>2, <2>3
<1>10. ASSUME NEW d \in held'[s]
       PROVE  arena'[s][d[1]] # NoArena /\ (arena'[s][d[1]].large <=> d[2] = -1)
  <2>1. d \in held[s] /\ d # b /\ d \in Addresses /\ b \in Addresses /\ d[1] \in VSpace
    BY <1>1, <1>6, <1>10, AddressParts DEF HeapTypes
  <2>2. arena[s][d[1]] # NoArena /\ (arena[s][d[1]].large <=> d[2] = -1)
    BY <1>1, <2>1 DEF HeapOf
  <2>3. d[1] # x
    <3>1. ASSUME d[1] = x PROVE FALSE
      <4>1. d[2] = -1 /\ b[2] = -1
        BY <1>1, <2>2, <3>1 DEF HeapOf
      <4>2. d = <<d[1], d[2]>> /\ b = <<b[1], b[2]>>
        BY <2>1 DEF Addresses
      <4> QED
        BY <2>1, <3>1, <4>1, <4>2
    <3> QED
      BY <3>1
  <2> QED
    BY <1>6, <2>1, <2>2, <2>3
<1>11. ASSUME NEW v \in VSpace, arena'[s][v].desc = s
       PROVE  /\ arena'[s][v].cnt = Cardinality(free_list'[s] \cap Blocks(v))
              /\ arena'[s][v].cnt < BlocksPerArena
  <2>1. v # x
    <3>1. NoArena.desc = NULL /\ s # NULL
      BY MemAssumption DEF NoArena, Spaces
    <3> QED
      BY <1>6, <1>11, <3>1
  <2>2. arena'[s][v] = arena[s][v]
    BY <1>6, <2>1
  <2>3. arena[s][v].desc = s
    BY <1>11, <2>2
  <2>4. /\ arena[s][v].cnt = Cardinality(free_list[s] \cap Blocks(v))
        /\ arena[s][v].cnt < BlocksPerArena
    BY <1>1, <2>3 DEF HeapOf
  <2> QED
    BY <2>2, <2>4
<1>12. free_list'[s] \cap held'[s] = {}
  BY <1>1, <1>6 DEF HeapOf
<1>13. HeapOf(s)'
  BY <1>8, <1>9, <1>10, <1>11, <1>12 DEF HeapOf, NoArena, Blocks
<1>14. s = Kernel => KownApart'
  <2>1. ASSUME s = Kernel PROVE KownApart'
    <3>1. \A p \in Procs : \A v \in kown[p] : v \notin x + 1 .. x + n - 1
      BY <1>2, <2>1 DEF KownApart
    <3>2. Freed(Kernel, x, n)
      BY <1>7, <2>1
    <3> QED
      BY <1>1, <3>1, <3>2, FreedKown
  <2> QED
    BY <2>1
<1>15. \A u \in Spaces : \A v \in VSpace : u # s /\ pte[u][v] # -1 => pte'[u][v] # -1
  BY <1>4
<1> QED
  BY <1>6, <1>13, <1>14, <1>15, OtherHeaps

(* sys_free of a block, the last one of its page. *)
LEMMA HeapAfterFreeLast ==
    ASSUME MemInv, NEW s \in Spaces, NEW b \in held[s], Races,
           KownApart, \A u \in Spaces : HeapOf(u), old[s] = {}, old' = old, s \in Procs => table[s] # -1,
           NEW x \in VSpace, x = b[1], NEW a \in Arenas, a = arena[s][x],
           ~a.large, a.desc = s, Blocks(x) \subseteq free_list[s] \cup {b},
           held' = [held EXCEPT ![s] = held[s] \ {b}], UNCHANGED <<table, kown, starting>>,
           MfreePage(s, {x}),
           arena' = [arena EXCEPT ![s] = [arena[s] EXCEPT ![x] = NoArena]],
           free_list' = [free_list EXCEPT ![s] = (free_list[s] \cup {b}) \ Blocks(x)]
    PROVE  (\A u \in Spaces : HeapOf(u)') /\ KownApart'
<1>1. PageInv /\ PageTypes /\ HeapTypes /\ LargeInside /\ HeapOf(s)
  BY DEF MemInv, PageInv
<1>2. PICK n \in Int : n = 1
  OBVIOUS
<1>3. x .. x + n - 1 = {x} /\ x + 1 .. x + n - 1 = {}
  <2>1. x \in Int
    BY BitsApart
  <2> QED
    BY ONLY <2>1, <1>2
<1>4. \A u \in Spaces : \A v \in VSpace :
         pte'[u][v] = IF u = s /\ v \in {x} THEN -1 ELSE pte[u][v]
  <2>1. {x} \in SUBSET VSpace
    OBVIOUS
  <2> QED
    BY <1>1, <2>1, MfreePageSimple
<1>5. a # NoArena /\ s # NULL
  <2>1. s # NULL /\ NoArena.desc = NULL
    BY MemAssumption DEF NoArena, Spaces
  <2> QED
    BY <2>1
<1>6. /\ \A w \in VSpace : arena'[s][w] = IF w = x THEN NoArena ELSE arena[s][w]
      /\ held'[s] = held[s] \ {b}
      /\ free_list'[s] = (free_list[s] \cup {b}) \ Blocks(x)
      /\ \A u \in Spaces : u # s => /\ arena'[u] = arena[u]
                                    /\ free_list'[u] = free_list[u] /\ held'[u] = held[u]
  BY <1>1 DEF HeapTypes
<1>7. Freed(s, x, n)
  BY <1>3, <1>4, <1>5, <1>6 DEF Freed
<1>8. /\ \A v \in VSpace : arena'[s][v] # NoArena => pte'[s][v] # -1
      /\ \A v \in VSpace : arena'[s][v].large =>
            /\ arena'[s][v].desc = NULL
            /\ \A w \in v + 1 .. v + arena'[s][v].cnt - 1 :
                  pte'[s][w] # -1 /\ arena'[s][w] = NoArena
  BY <1>1, <1>7, FreedPages
<1>9. b \in Blocks(x) /\ b \in Addresses /\ b[2] # -1
  <2>1. b \in Addresses
    BY <1>1 DEF HeapTypes
  <2>2. b[2] # -1
    BY <1>1 DEF HeapOf
  <2> QED
    BY <2>1, <2>2, BlockPage
<1>10. free_list'[s] = free_list[s] \ Blocks(x)
  BY <1>6, <1>9
<1>11. ASSUME NEW d \in free_list'[s] PROVE arena'[s][d[1]].desc = s /\ d[2] # -1
  <2>1. d \in free_list[s] /\ d \in Addresses /\ d[1] \in VSpace /\ d \notin Blocks(x)
    BY <1>1, <1>10, <1>11, AddressParts DEF HeapTypes
  <2>2. arena[s][d[1]].desc = s /\ d[2] # -1
    BY <1>1, <2>1 DEF HeapOf
  <2>3. d[1] # x
    BY <2>1, <2>2, BlockPage
  <2> QED
    BY <1>6, <2>1, <2>2, <2>3
<1>12. ASSUME NEW d \in held'[s]
       PROVE  arena'[s][d[1]] # NoArena /\ (arena'[s][d[1]].large <=> d[2] = -1)
  <2>1. d \in held[s] /\ d # b /\ d \in Addresses /\ d[1] \in VSpace
    BY <1>1, <1>6, <1>12, AddressParts DEF HeapTypes
  <2>2. arena[s][d[1]] # NoArena /\ (arena[s][d[1]].large <=> d[2] = -1)
    BY <1>1, <2>1 DEF HeapOf
  <2>3. d[1] # x
    <3>1. ASSUME d[1] = x PROVE FALSE
      <4>1. d[2] # -1
        BY <2>2, <3>1
      <4>2. d \in Blocks(x)
        BY <2>1, <3>1, <4>1, BlockPage
      <4>3. d \in free_list[s]
        BY <2>1, <4>2
      <4> QED
        BY <1>1, <2>1, <4>3 DEF HeapOf
    <3> QED
      BY <3>1
  <2> QED
    BY <1>6, <2>1, <2>2, <2>3
<1>13. ASSUME NEW v \in VSpace, arena'[s][v].desc = s
       PROVE  /\ arena'[s][v].cnt = Cardinality(free_list'[s] \cap Blocks(v))
              /\ arena'[s][v].cnt < BlocksPerArena
  <2>1. v # x
    <3>1. NoArena.desc = NULL
      BY DEF NoArena
    <3> QED
      BY <1>5, <1>6, <1>13, <3>1
  <2>2. arena'[s][v] = arena[s][v]
    BY <1>6, <2>1
  <2>3. arena[s][v].desc = s
    BY <1>13, <2>2
  <2>4. /\ arena[s][v].cnt = Cardinality(free_list[s] \cap Blocks(v))
        /\ arena[s][v].cnt < BlocksPerArena
    BY <1>1, <2>3 DEF HeapOf
  <2>5. free_list'[s] \cap Blocks(v) = free_list[s] \cap Blocks(v)
    <3>1. (\A d \in Blocks(v) : d[1] = v) /\ \A d \in Blocks(x) : d[1] = x
      BY DEF Blocks
    <3> QED
      BY <1>10, <2>1, <3>1
  <2> QED
    BY <2>2, <2>4, <2>5
<1>14. free_list'[s] \cap held'[s] = {}
  BY <1>1, <1>6, <1>10 DEF HeapOf
<1>15. HeapOf(s)'
  BY <1>8, <1>11, <1>12, <1>13, <1>14 DEF HeapOf, NoArena, Blocks
<1>16. s = Kernel => KownApart'
  <2>1. ASSUME s = Kernel PROVE KownApart'
    <3>1. \A p \in Procs : \A v \in kown[p] : v \notin x + 1 .. x + n - 1
      BY <1>3
    <3>2. Freed(Kernel, x, n)
      BY <1>7, <2>1
    <3> QED
      BY <1>1, <3>1, <3>2, FreedKown
  <2> QED
    BY <2>1
<1>17. \A u \in Spaces : \A v \in VSpace : u # s /\ pte[u][v] # -1 => pte'[u][v] # -1
  BY <1>4
<1> QED
  BY <1>6, <1>15, <1>16, <1>17, OtherHeaps

(* A block that is freed is not in the list: one more is there. *)
LEMMA FreedBlockCount ==
    ASSUME HeapTypes, NEW s \in Spaces, HeapOf(s), old[s] = {}, NEW b \in held[s],
           NEW x \in VSpace, x = b[1], ~arena[s][x].large, arena[s][x].desc = s
    PROVE  /\ b \in Blocks(x)
           /\ arena[s][x].cnt \in Nat /\ arena[s][x].cnt < BlocksPerArena
           /\ Cardinality((free_list[s] \cup {b}) \cap Blocks(x)) = arena[s][x].cnt + 1
<1>1. b \in Addresses /\ b[2] # -1 /\ b \notin free_list[s]
  BY DEF HeapTypes, HeapOf
<1>2. b \in Blocks(x)
  BY <1>1, BlockPage
<1>3. PICK S : S = free_list[s] \cap Blocks(x)
  OBVIOUS
<1>4. arena[s][x].cnt = Cardinality(S) /\ arena[s][x].cnt < BlocksPerArena
  BY <1>3 DEF HeapOf
<1>5. IsFiniteSet(S) /\ b \notin S
  <2>1. IsFiniteSet(Blocks(x)) /\ S \in SUBSET Blocks(x)
    BY <1>3, BlockCount
  <2> QED
    BY <2>1, <1>1, <1>3, FS_Subset
<1>6. Cardinality(S \cup {b}) = Cardinality(S) + 1 /\ Cardinality(S) \in Nat
  BY <1>5, FS_AddElement, FS_CardinalityType
<1>7. (free_list[s] \cup {b}) \cap Blocks(x) = S \cup {b}
  BY <1>2, <1>3
<1> QED
  BY <1>2, <1>4, <1>6, <1>7

(* With the count at its end, all blocks of the page are in the list: the  *)
(* ASSERT of sys_free holds.                                               *)
LEMMA AllInList ==
    ASSUME HeapTypes, NEW s \in Spaces, HeapOf(s), old[s] = {}, NEW b \in held[s],
           NEW x \in VSpace, x = b[1], ~arena[s][x].large, arena[s][x].desc = s,
           AllFree(arena[s][x])
    PROVE  Blocks(x) \subseteq free_list[s] \cup {b}
<1>1. PICK S : S = (free_list[s] \cup {b}) \cap Blocks(x)
  OBVIOUS
<1>2. Cardinality(S) = BlocksPerArena
  BY <1>1, FreedBlockCount DEF AllFree
<1>3. IsFiniteSet(Blocks(x)) /\ Cardinality(Blocks(x)) = BlocksPerArena /\ S \in SUBSET Blocks(x)
  BY <1>1, BlockCount
<1>4. S = Blocks(x)
  BY <1>2, <1>3, FS_Subset
<1> QED
  BY <1>1, <1>4

LEMMA HeapAfterFreeBlock ==
    ASSUME MemInv, NEW s \in Spaces, NEW b \in held[s],
           KownApart, \A u \in Spaces : HeapOf(u), old[s] = {}, old' = old,
           NEW x \in VSpace, x = b[1], NEW a \in Arenas, a = arena[s][x],
           ~a.large, a.desc = s, ~AllFree(a),
           held' = [held EXCEPT ![s] = held[s] \ {b}], kown' = kown, pte' = pte,
           arena' = [arena EXCEPT ![s] = [arena[s] EXCEPT ![x] = [a EXCEPT !.cnt = a.cnt + 1]]],
           free_list' = [free_list EXCEPT ![s] = free_list[s] \cup {b}]
    PROVE  (\A u \in Spaces : HeapOf(u)') /\ KownApart'
<1>1. PageTypes /\ HeapTypes /\ LargeInside /\ HeapOf(s)
  BY DEF MemInv, PageInv
<1>2. PICK e : e = [a EXCEPT !.cnt = a.cnt + 1]
  OBVIOUS
<1>3. e.desc = s /\ ~e.large /\ e.cnt = a.cnt + 1 /\ a.cnt \in Int
  BY <1>2 DEF Arenas
<1>4. s # NULL /\ NoArena.desc = NULL /\ a # NoArena /\ e # NoArena
  <2>1. s # NULL /\ NoArena.desc = NULL
    BY MemAssumption DEF NoArena, Spaces
  <2> QED
    BY <2>1, <1>3
<1>5. /\ \A w \in VSpace : arena'[s][w] = IF w = x THEN e ELSE arena[s][w]
      /\ held'[s] = held[s] \ {b} /\ free_list'[s] = free_list[s] \cup {b}
      /\ \A u \in Spaces : u # s => /\ arena'[u] = arena[u]
                                    /\ free_list'[u] = free_list[u] /\ held'[u] = held[u]
  BY <1>1, <1>2 DEF HeapTypes
<1>6. /\ b \in Blocks(x) /\ a.cnt \in Nat /\ a.cnt < BlocksPerArena
      /\ Cardinality((free_list[s] \cup {b}) \cap Blocks(x)) = a.cnt + 1
  BY <1>1, FreedBlockCount
<1>7. ASSUME NEW d \in free_list'[s] PROVE arena'[s][d[1]].desc = s /\ d[2] # -1
  <2>1. CASE d = b
    <3>1. b[2] # -1
      BY <1>1 DEF HeapOf
    <3> QED
      BY <2>1, <3>1, <1>3, <1>5
  <2>2. CASE d # b
    <3>1. d \in free_list[s] /\ d[1] \in VSpace
      BY <2>2, <1>1, <1>5, <1>7, AddressParts DEF HeapTypes
    <3>2. arena[s][d[1]].desc = s /\ d[2] # -1
      BY <3>1, <1>1 DEF HeapOf
    <3> QED
      BY <3>1, <3>2, <1>3, <1>5
  <2> QED
    BY <2>1, <2>2
<1>8. ASSUME NEW d \in held'[s]
      PROVE  arena'[s][d[1]] # NoArena /\ (arena'[s][d[1]].large <=> d[2] = -1)
  <2>1. d \in held[s] /\ d[1] \in VSpace
    BY <1>1, <1>5, <1>8, AddressParts DEF HeapTypes
  <2>2. arena[s][d[1]] # NoArena /\ (arena[s][d[1]].large <=> d[2] = -1)
    BY <1>1, <2>1 DEF HeapOf
  <2>3. CASE d[1] = x
    BY <2>1, <2>2, <2>3, <1>3, <1>4, <1>5
  <2>4. CASE d[1] # x
    BY <2>1, <2>2, <2>4, <1>5
  <2> QED
    BY <2>3, <2>4
<1>9. ASSUME NEW v \in VSpace, arena'[s][v].desc = s
      PROVE  /\ arena'[s][v].cnt = Cardinality(free_list'[s] \cap Blocks(v))
             /\ arena'[s][v].cnt < BlocksPerArena
  <2>1. CASE v = x
    <3>1. arena'[s][v].cnt = a.cnt + 1
      BY <2>1, <1>3, <1>5
    <3>2. a.cnt + 1 < BlocksPerArena
      <4>1. a.cnt + 1 # BlocksPerArena
        BY DEF AllFree
      <4> QED
        BY <4>1, <1>6, MemAssumption
    <3>3. Cardinality(free_list'[s] \cap Blocks(v)) = a.cnt + 1
      BY <2>1, <1>5, <1>6
    <3> QED
      BY <3>1, <3>2, <3>3
  <2>2. CASE v # x
    <3>1. arena'[s][v] = arena[s][v]
      BY <2>2, <1>5
    <3>2. arena[s][v].desc = s
      BY <3>1, <1>9
    <3>3. /\ arena[s][v].cnt = Cardinality(free_list[s] \cap Blocks(v))
          /\ arena[s][v].cnt < BlocksPerArena
      BY <3>2, <1>1 DEF HeapOf
    <3>4. b \notin Blocks(v)
      BY <2>2 DEF Blocks
    <3>5. free_list'[s] \cap Blocks(v) = free_list[s] \cap Blocks(v)
      BY <3>4, <1>5
    <3> QED
      BY <3>1, <3>3, <3>5
  <2> QED
    BY <2>1, <2>2
<1>10. free_list'[s] \cap held'[s] = {}
  BY <1>1, <1>5 DEF HeapOf
<1>11. ASSUME NEW v \in VSpace, arena'[s][v] # NoArena PROVE pte'[s][v] # -1
  <2>1. arena[s][v] # NoArena
    BY <1>4, <1>5, <1>11
  <2> QED
    BY <2>1, <1>1 DEF HeapOf
<1>12. ASSUME NEW v \in VSpace, arena'[s][v].large
       PROVE  /\ arena'[s][v].desc = NULL
              /\ \A w \in v + 1 .. v + arena'[s][v].cnt - 1 : pte'[s][w] # -1 /\ arena'[s][w] = NoArena
  <2>1. v # x /\ arena'[s][v] = arena[s][v]
    BY <1>3, <1>5, <1>12
  <2>2. /\ arena[s][v].desc = NULL
        /\ \A w \in v + 1 .. v + arena[s][v].cnt - 1 : pte[s][w] # -1 /\ arena[s][w] = NoArena
    BY <1>12, <2>1, <1>1 DEF HeapOf
  <2>3. \A w \in v + 1 .. v + arena[s][v].cnt - 1 : w \in VSpace /\ w # x
    <3>1. v .. v + arena[s][v].cnt - 1 \subseteq VSpace
      BY <1>12, <2>1, <1>1 DEF LargeInside
    <3>2. \A w \in v + 1 .. v + arena[s][v].cnt - 1 : w \in v .. v + arena[s][v].cnt - 1
      BY BitsApart
    <3> QED
      BY <2>2, <3>1, <3>2, <1>4
  <2> QED
    BY <2>1, <2>2, <2>3, <1>5
<1>13. HeapOf(s)'
  BY <1>7, <1>8, <1>9, <1>10, <1>11, <1>12 DEF HeapOf, NoArena, Blocks
<1>14. s = Kernel => KownApart'
  <2>1. ASSUME s = Kernel PROVE KownApart'
    <3>1. \A p \in Procs : x \notin kown[p]
      BY <1>4, <2>1 DEF KownApart
    <3>2. \A w \in VSpace : arena'[Kernel][w] = IF w = x THEN e ELSE arena[Kernel][w]
      BY <1>5, <2>1
    <3> QED
      BY <1>1, <1>3, <3>1, <3>2, KownHeader
  <2> QED
    BY <2>1
<1> QED
  BY <1>5, <1>13, <1>14, OtherHeaps

LEMMA HeapAfterFree ==
    ASSUME MemInv, LoadInv, HeapInv, NEW s \in Spaces, NEW b \in held[s], SysFree(s, b), Races,
           UNCHANGED execVars
    PROVE  HeapInv'
<1>0. PageInv /\ HeapTypes /\ LargeInside
  BY DEF MemInv
<1>1. b[1] \in VSpace
  BY <1>0, AddressParts DEF HeapTypes
<1>2. PICK x \in VSpace : x = b[1]
  BY <1>1
<1>3. PICK a \in Arenas : a = arena[s][x]
  BY <1>0 DEF HeapTypes
<1>4. /\ s \in Procs => table[s] # -1
      /\ held' = [held EXCEPT ![s] = held[s] \ {b}]
      /\ stray' = (stray \/ (~a.large /\ a.desc # s))
      /\ UNCHANGED <<table, kown, starting>> /\ old[s] = {} /\ old' = old
  BY <1>2, <1>3 DEF SysFree, Runs, LoadInv, execVars
<1>5. \/ /\ a.large /\ MfreePage(s, x .. x + a.cnt - 1)
         /\ arena' = [arena EXCEPT ![s] = [arena[s] EXCEPT ![x] = NoArena]]
         /\ UNCHANGED <<free_list, panic>>
      \/ /\ ~a.large /\ ~AllFree(a)
         /\ free_list' = [free_list EXCEPT ![a.desc] = free_list[a.desc] \cup {b}]
         /\ arena' = [arena EXCEPT ![s] = [arena[s] EXCEPT ![x] = [a EXCEPT !.cnt = a.cnt + 1]]]
         /\ UNCHANGED <<pte, panic>>
      \/ /\ ~a.large /\ AllFree(a) /\ Blocks(x) \subseteq free_list[a.desc] \cup {b}
         /\ free_list' = [free_list EXCEPT ![a.desc] = (free_list[a.desc] \cup {b}) \ Blocks(x)]
         /\ MfreePage(s, {x})
         /\ arena' = [arena EXCEPT ![s] = [arena[s] EXCEPT ![x] = NoArena]]
         /\ UNCHANGED panic
      \/ ~a.large /\ AllFree(a) /\ ~(Blocks(x) \subseteq free_list[a.desc] \cup {b})
  BY <1>2, <1>3 DEF SysFree
<1>6. SUFFICES ASSUME ~stray'
               PROVE  (\A u \in Spaces : HeapOf(u)') /\ KownApart' /\ panic' # "assert"
  BY DEF HeapInv
<1>7. ~stray /\ (a.large \/ a.desc = s)
  BY <1>4, <1>6, Zenon
<1>8. KownApart /\ panic # "assert" /\ HeapOf(s) /\ \A u \in Spaces : HeapOf(u)
  BY <1>7 DEF HeapInv
<1>9. CASE a.large /\ MfreePage(s, x .. x + a.cnt - 1)
           /\ arena' = [arena EXCEPT ![s] = [arena[s] EXCEPT ![x] = NoArena]]
           /\ UNCHANGED <<free_list, panic>>
  <2>1. (\A u \in Spaces : HeapOf(u)') /\ KownApart'
    BY <1>2, <1>3, <1>4, <1>8, <1>9, HeapAfterFreeLarge
  <2> QED
    BY <2>1, <1>8, <1>9
<1>10. CASE ~a.large /\ ~AllFree(a)
            /\ free_list' = [free_list EXCEPT ![a.desc] = free_list[a.desc] \cup {b}]
            /\ arena' = [arena EXCEPT ![s] = [arena[s] EXCEPT ![x] = [a EXCEPT !.cnt = a.cnt + 1]]]
            /\ UNCHANGED <<pte, panic>>
  <2>0. a.desc = s
    BY <1>7, <1>10
  <2>1. free_list' = [free_list EXCEPT ![s] = free_list[s] \cup {b}]
    BY <1>10, <2>0
  <2>2. (\A u \in Spaces : HeapOf(u)') /\ KownApart'
    BY <1>2, <1>3, <1>4, <1>8, <1>10, <2>0, <2>1, HeapAfterFreeBlock
  <2> QED
    BY <2>2, <1>8, <1>10
<1>11. CASE ~a.large /\ AllFree(a) /\ Blocks(x) \subseteq free_list[a.desc] \cup {b}
            /\ free_list' = [free_list EXCEPT ![a.desc] = (free_list[a.desc] \cup {b}) \ Blocks(x)]
            /\ MfreePage(s, {x})
            /\ arena' = [arena EXCEPT ![s] = [arena[s] EXCEPT ![x] = NoArena]]
            /\ UNCHANGED panic
  <2>0. a.desc = s
    BY <1>7, <1>11
  <2>1. /\ free_list' = [free_list EXCEPT ![s] = (free_list[s] \cup {b}) \ Blocks(x)]
        /\ Blocks(x) \subseteq free_list[s] \cup {b}
    BY <1>11, <2>0
  <2>2. (\A u \in Spaces : HeapOf(u)') /\ KownApart'
    BY <1>2, <1>3, <1>4, <1>8, <1>11, <2>0, <2>1, HeapAfterFreeLast
  <2> QED
    BY <2>2, <1>8, <1>11
<1>12. CASE ~a.large /\ AllFree(a) /\ ~(Blocks(x) \subseteq free_list[a.desc] \cup {b})
  <2>1. a.desc = s
    BY <1>7, <1>12
  <2>2. Blocks(x) \subseteq free_list[s] \cup {b}
    BY <1>0, <1>2, <1>3, <1>4, <1>8, <1>12, <2>1, AllInList
  <2> QED
    BY <1>12, <2>1, <2>2
<1> QED
  BY <1>5, <1>9, <1>10, <1>11, <1>12

LEMMA HeapAfterStart ==
    ASSUME MemInv, HeapInv, StartScan \/ StartSet, UNCHANGED execVars
    PROVE  HeapInv'
<1>1. CASE Exhausted
  BY <1>1, HeapAfterExhausted
<1>2. CASE ~Exhausted
  <2>1. UNCHANGED <<old, arena, free_list, held, kown>> /\ stray' = stray /\ panic' = panic
    BY <1>2 DEF StartScan, StartSet, execVars
  <2>2. \A u \in Spaces : \A v \in VSpace : pte[u][v] # -1 => pte'[u][v] # -1
    <3>1. CASE pte' = pte
      BY <3>1
    <3>2. CASE pte' # pte
      <4>1. starting # NULL /\ pte' = [pte EXCEPT ![First][Stack] = starting.page]
        BY <1>2, <3>2 DEF StartScan, StartSet
      <4>2. PICK y : y = starting.page
        OBVIOUS
      <4>3. y # -1 /\ pte \in [Spaces -> [VSpace -> KBits \cup UBits \cup {-1}]]
        BY <4>1, <4>2, BitsApart DEF MemInv, PageInv, PageTypes, Starts
      <4> QED
        BY <4>1, <4>2, <4>3
    <3> QED
      BY <3>1, <3>2
  <2>3. ASSUME ~stray PROVE (\A u \in Spaces : HeapOf(u)') /\ KownApart'
    BY <2>1, <2>2, <2>3, HeapsUntouched DEF HeapInv
  <2> QED
    BY <2>1, <2>3 DEF HeapInv
<1> QED
  BY <1>1, <1>2

(* The heap of a process is emptied. *)
LEMMA HeapAfterEmptied ==
    ASSUME MemInv, HeapInv, NEW p \in Procs, kown' = kown, old' = old,
           arena' = [arena EXCEPT ![p] = [v \in VSpace |-> NoArena]],
           free_list' = [free_list EXCEPT ![p] = {}],
           held' = [held EXCEPT ![p] = {}], UNCHANGED <<panic, stray>>,
           \A u \in Spaces : \A v \in VSpace : u # p /\ pte[u][v] # -1 => pte'[u][v] # -1
    PROVE  HeapInv'
<1>1. HeapTypes /\ LargeInside /\ p \in Spaces /\ p # Kernel /\ p # NULL
  BY MemAssumption DEF MemInv, Spaces
<1>2. /\ \A v \in VSpace : arena'[p][v] = NoArena
      /\ free_list'[p] = {} /\ held'[p] = {}
      /\ \A u \in Spaces : u # p => /\ arena'[u] = arena[u]
                                    /\ free_list'[u] = free_list[u] /\ held'[u] = held[u]
  BY <1>1, EmptyHeap
<1>3. HeapOf(p)'
  <2>1. ~NoArena.large /\ NoArena.desc # p
    BY <1>1 DEF NoArena
  <2> QED
    BY <1>2, <2>1 DEF HeapOf, NoArena, Blocks
<1>4. ASSUME ~stray PROVE (\A u \in Spaces : HeapOf(u)') /\ KownApart'
  <2>1. (\A u \in Spaces : HeapOf(u)) /\ KownApart
    BY <1>4 DEF HeapInv
  <2> QED
    BY <1>1, <1>2, <1>3, <2>1, OtherHeaps
<1> QED
  BY <1>4 DEF HeapInv

LEMMA HeapAfterExit ==
    ASSUME MemInv, HeapInv, NEW p \in Procs, SysExit(p), UNCHANGED execVars
    PROVE  HeapInv'
<1>1. /\ free_list' = [free_list EXCEPT ![p] = {}]
      /\ arena' = [arena EXCEPT ![p] = [v \in VSpace |-> NoArena]]
      /\ held' = [held EXCEPT ![p] = {}]
      /\ kown' = kown /\ old' = old /\ UNCHANGED <<panic, stray>>
      /\ pte' = [pte EXCEPT ![p] = [v \in VSpace |-> -1]]
  BY DEF SysExit, ReleaseProgResource, execVars
<1>2. \A u \in Spaces : \A v \in VSpace : u # p /\ pte[u][v] # -1 => pte'[u][v] # -1
  BY <1>1 DEF MemInv, PageInv, PageTypes
<1> QED
  BY <1>1, <1>2, HeapAfterEmptied

(* thread_exit gives back pages that have no header and lie behind none.   *)
LEMMA HeapAfterThreadExit ==
    ASSUME MemInv, HeapInv, NEW p \in Procs, ThreadExit(p), Races, UNCHANGED execVars
    PROVE  HeapInv'
<1>1. /\ PageInv /\ PageTypes /\ PagesAgree /\ HeapTypes /\ LargeInside
      /\ Kernel \in Spaces /\ Kernel \notin Procs
  BY MemAssumption DEF MemInv, PageInv, Spaces
<1>2. /\ p # First /\ table[p] = -1 /\ kown' = [kown EXCEPT ![p] = {}]
      /\ MfreePage(Kernel, kown[p])
      /\ UNCHANGED <<table, starting>> /\ UNCHANGED <<old, arena, free_list, held, panic, stray>>
  BY DEF ThreadExit, execVars
<1>3. PICK gone \in SUBSET VSpace : gone = kown[p]
  BY <1>1, BitsApart DEF PageTypes
<1>4. \A u \in Spaces : \A v \in VSpace :
         pte'[u][v] = IF u = Kernel /\ v \in gone THEN -1 ELSE pte[u][v]
  <2>1. /\ kown' \in [Procs -> SUBSET KBits] /\ kown'[First] # {}
        /\ \A q \in Procs : table[q] # -1 => kown'[q] # {}
    BY <1>1, <1>2, MemAssumption DEF PageTypes, PagesAgree, Exists
  <2> QED
    BY <1>1, <1>2, <1>3, <2>1, MfreePageKeeps
<1>5. SUFFICES ASSUME ~stray
               PROVE  (\A u \in Spaces : HeapOf(u)') /\ KownApart' /\ panic' # "assert"
  BY <1>2 DEF HeapInv
<1>6. (\A u \in Spaces : HeapOf(u)) /\ KownApart /\ panic # "assert"
  BY <1>5 DEF HeapInv
<1>7. /\ \A v \in gone : arena[Kernel][v] = NoArena
      /\ \A v \in gone : \A u \in VSpace : arena[Kernel][u].large =>
            v \notin u + 1 .. u + arena[Kernel][u].cnt - 1
      /\ \A q \in Procs : q # p => gone \cap kown[q] = {}
  BY <1>3, <1>6 DEF KownApart
<1>8. ASSUME NEW u \in Spaces, u # Kernel PROVE HeapOf(u)'
  <2>1. \A v \in VSpace : pte[u][v] # -1 => pte'[u][v] # -1
    BY <1>4, <1>8
  <2> QED
    BY <1>1, <1>2, <1>6, <2>1, HeapUntouched
<1>9. HeapOf(Kernel)'
  <2>1. \A v \in VSpace : arena[Kernel][v] # NoArena => pte'[Kernel][v] # -1
    BY <1>1, <1>4, <1>6, <1>7 DEF HeapOf
  <2>2. ASSUME NEW v \in VSpace, arena[Kernel][v].large
        PROVE  \A w \in v + 1 .. v + arena[Kernel][v].cnt - 1 : pte'[Kernel][w] # -1
    <3>1. \A w \in v + 1 .. v + arena[Kernel][v].cnt - 1 : w \in VSpace
      <4>1. v .. v + arena[Kernel][v].cnt - 1 \subseteq VSpace
        BY <1>1, <2>2 DEF LargeInside
      <4>2. \A w \in v + 1 .. v + arena[Kernel][v].cnt - 1 : w \in v .. v + arena[Kernel][v].cnt - 1
        BY BitsApart
      <4> QED
        BY <4>1, <4>2
    <3>2. \A w \in v + 1 .. v + arena[Kernel][v].cnt - 1 : pte[Kernel][w] # -1 /\ w \notin gone
      BY <1>1, <1>6, <1>7, <2>2 DEF HeapOf
    <3> QED
      BY <1>1, <1>4, <3>1, <3>2
  <2>3. HeapOf(Kernel)
    BY <1>1, <1>6
  <2> QED
    BY <1>2, <2>1, <2>2, <2>3 DEF HeapOf, NoArena, Blocks
<1>10. KownApart'
  <2>1. ASSUME NEW q \in Procs, NEW v \in kown'[q]
        PROVE  /\ pte'[Kernel][v] # -1 /\ arena'[Kernel][v] = NoArena
               /\ \A r \in Procs \ {q} : v \notin kown'[r]
               /\ \A u \in VSpace : arena'[Kernel][u].large =>
                     v \notin u + 1 .. u + arena'[Kernel][u].cnt - 1
    <3>1. /\ q # p /\ v \in kown[q] /\ v \in VSpace
          /\ \A r \in Procs : kown'[r] \subseteq kown[r]
      BY <1>1, <1>2, <2>1, BitsApart DEF PageTypes
    <3>2. v \notin gone
      BY <1>7, <3>1
    <3>3. /\ pte[Kernel][v] # -1 /\ arena[Kernel][v] = NoArena
          /\ \A r \in Procs \ {q} : v \notin kown[r]
          /\ \A u \in VSpace : arena[Kernel][u].large =>
                v \notin u + 1 .. u + arena[Kernel][u].cnt - 1
      BY <1>6, <3>1 DEF KownApart
    <3> QED
      BY <1>1, <1>2, <1>4, <3>1, <3>2, <3>3
  <2> QED
    BY <2>1 DEF KownApart, NoArena
<1>11. panic' # "assert"
  BY <1>2, <1>6
<1> QED
  BY <1>8, <1>9, <1>10, <1>11

(* sys_fork: the child has the parent's headers and holds what it holds,   *)
(* but none of the headers names the child, whose list is empty.           *)
LEMMA HeapAfterForked ==
    ASSUME MemInv, HeapInv, NEW p \in Procs, NEW c \in Procs, Runs(p), ~Exists(c), old' = old,
           NEW new \in SUBSET KBits, NEW own, NEW kf, NEW tab, NEW to,
           Forked(p, c, new, own, kf, tab, to)
    PROVE  HeapInv'
<1>1. /\ PageTypes /\ PagesAgree /\ VaddrExact /\ HeapTypes /\ LargeInside
      /\ Kernel \in Spaces /\ p \in Spaces /\ c \in Spaces /\ p # Kernel /\ c # Kernel
      /\ c # NULL /\ new \subseteq VSpace
  BY MemAssumption, BitsApart DEF MemInv, PageInv, Spaces
<1>2. c # p /\ starting = NULL
  BY <1>1 DEF Runs, PagesAgree
<1>3. ForkHeap(p, c) /\ panic' = panic
  BY DEF Forked
<1>4. /\ arena'[c] = arena[p] /\ free_list'[c] = {} /\ held'[c] = held[p]
      /\ \A u \in Spaces : u # c => /\ arena'[u] = arena[u]
                                    /\ free_list'[u] = free_list[u] /\ held'[u] = held[u]
      /\ ~stray' => ~stray /\ \A v \in VSpace : arena[p][v].desc # c
  BY <1>1, <1>3, ForkHeapKeeps
<1>5. SUFFICES ASSUME ~stray'
               PROVE  (\A u \in Spaces : HeapOf(u)') /\ KownApart' /\ panic' # "assert"
  BY DEF HeapInv
<1>6. /\ \A v \in VSpace : arena[p][v].desc # c
      /\ (\A u \in Spaces : HeapOf(u)) /\ HeapOf(p) /\ KownApart /\ panic # "assert"
  BY <1>1, <1>4, <1>5 DEF HeapInv
<1>7. /\ \A v \in new : kf[v] # -1
      /\ \A v \in vbits[p] : to[v] # -1
      /\ own \subseteq new /\ new \cap vbits[Kernel] = {}
  BY BitsApart DEF Forked, FreeK, FreeU
<1>8. /\ \A v \in VSpace : pte'[Kernel][v] = IF v \in new THEN kf[v] ELSE pte[Kernel][v]
      /\ \A v \in VSpace : pte'[c][v] = IF v \in vbits[p] THEN to[v] ELSE -1
      /\ \A u \in Spaces : u # c /\ u # Kernel => pte'[u] = pte[u]
      /\ kown' = [kown EXCEPT ![c] = own]
  BY <1>1 DEF Forked, PageTypes
<1>9. /\ \A v \in new : pte[Kernel][v] = -1 /\ pte'[Kernel][v] # -1
      /\ \A u \in Spaces : \A v \in VSpace : u # c /\ pte[u][v] # -1 => pte'[u][v] # -1
      /\ \A v \in VSpace : pte[p][v] # -1 => pte'[c][v] # -1
  <2>1. /\ vbits[Kernel] = {v \in VSpace : pte[Kernel][v] # -1}
        /\ vbits[p] = {v \in VSpace : pte[p][v] # -1}
    BY <1>1, <1>2 DEF VaddrExact
  <2>2. \A v \in new : pte[Kernel][v] = -1 /\ pte'[Kernel][v] # -1
    BY <1>1, <1>7, <1>8, <2>1
  <2>3. \A v \in VSpace : pte[Kernel][v] # -1 => pte'[Kernel][v] # -1
    BY <1>8, <2>2
  <2>4. \A v \in VSpace : pte[p][v] # -1 => pte'[c][v] # -1
    BY <1>7, <1>8, <2>1
  <2> QED
    BY <1>8, <2>2, <2>3, <2>4
<1>10. ASSUME NEW u \in Spaces, u # c PROVE HeapOf(u)'
  <2>1. \A v \in VSpace : pte[u][v] # -1 => pte'[u][v] # -1
    BY <1>9, <1>10
  <2> QED
    BY <1>1, <1>4, <1>6, <1>10, <2>1, HeapUntouched
<1>11. HeapOf(c)'
  <2>1. \A v \in VSpace : arena[p][v] # NoArena => pte'[c][v] # -1
    BY <1>6, <1>9 DEF HeapOf
  <2>2. ASSUME NEW v \in VSpace, arena[p][v].large
        PROVE  /\ arena[p][v].desc = NULL
               /\ \A w \in v + 1 .. v + arena[p][v].cnt - 1 :
                     pte'[c][w] # -1 /\ arena[p][w] = NoArena
    <3>1. \A w \in v + 1 .. v + arena[p][v].cnt - 1 : w \in VSpace
      <4>1. v .. v + arena[p][v].cnt - 1 \subseteq VSpace
        BY <1>1, <2>2 DEF LargeInside
      <4>2. \A w \in v + 1 .. v + arena[p][v].cnt - 1 : w \in v .. v + arena[p][v].cnt - 1
        BY BitsApart
      <4> QED
        BY <4>1, <4>2
    <3>2. /\ arena[p][v].desc = NULL
          /\ \A w \in v + 1 .. v + arena[p][v].cnt - 1 :
                pte[p][w] # -1 /\ arena[p][w] = NoArena
      BY <1>6, <2>2 DEF HeapOf
    <3> QED
      BY <1>9, <3>1, <3>2
  <2>3. \A b \in held[p] : arena[p][b[1]] # NoArena /\ (arena[p][b[1]].large <=> b[2] = -1)
    BY <1>6 DEF HeapOf
  <2>4. free_list'[c] = {} /\ \A v \in VSpace : arena'[c][v].desc # c
    BY <1>4, <1>6
  <2>5. /\ \A v \in VSpace : arena'[c][v] # NoArena => pte'[c][v] # -1
        /\ \A b \in held'[c] :
              arena'[c][b[1]] # NoArena /\ (arena'[c][b[1]].large <=> b[2] = -1)
    BY <1>4, <2>1, <2>3
  <2>6. \A v \in VSpace : arena'[c][v].large =>
           /\ arena'[c][v].desc = NULL
           /\ \A w \in v + 1 .. v + arena'[c][v].cnt - 1 :
                 pte'[c][w] # -1 /\ arena'[c][w] = NoArena
    BY <1>4, <2>2
  <2> QED
    BY <2>4, <2>5, <2>6 DEF HeapOf, NoArena, Blocks
<1>12. KownApart'
  <2>0. arena'[Kernel] = arena[Kernel]
    BY <1>1, <1>4
  <2>1. \A v \in new : /\ arena[Kernel][v] = NoArena
                       /\ \A q \in Procs : v \notin kown[q]
                       /\ \A u \in VSpace : arena[Kernel][u].large =>
                             v \notin u + 1 .. u + arena[Kernel][u].cnt - 1
    <3>1. HeapOf(Kernel)
      BY <1>1, <1>6
    <3>2. \A v \in new : /\ arena[Kernel][v] = NoArena
                         /\ \A u \in VSpace : arena[Kernel][u].large =>
                               v \notin u + 1 .. u + arena[Kernel][u].cnt - 1
      BY <1>1, <1>9, <3>1 DEF HeapOf
    <3>3. \A v \in new : \A q \in Procs : v \notin kown[q]
      BY <1>6, <1>9 DEF KownApart
    <3> QED
      BY <3>2, <3>3
  <2>2. /\ kown'[c] = own /\ \A q \in Procs : q # c => kown'[q] = kown[q]
        /\ \A q \in Procs : \A v \in kown[q] : v \in VSpace
    BY <1>1, <1>8, BitsApart DEF PageTypes
  <2>3. ASSUME NEW q \in Procs, NEW v \in kown'[q]
        PROVE  /\ pte'[Kernel][v] # -1 /\ arena'[Kernel][v] = NoArena
               /\ \A r \in Procs \ {q} : v \notin kown'[r]
               /\ \A u \in VSpace : arena'[Kernel][u].large =>
                     v \notin u + 1 .. u + arena'[Kernel][u].cnt - 1
    <3>1. CASE q = c
      <4>1. v \in new
        BY <1>7, <2>2, <2>3, <3>1
      <4> QED
        BY <1>9, <2>0, <2>1, <2>2, <3>1, <4>1
    <3>2. CASE q # c
      <4>1. v \in kown[q] /\ v \in VSpace
        BY <2>2, <2>3, <3>2
      <4>2. /\ pte[Kernel][v] # -1 /\ arena[Kernel][v] = NoArena
            /\ \A r \in Procs \ {q} : v \notin kown[r]
            /\ \A u \in VSpace : arena[Kernel][u].large =>
                  v \notin u + 1 .. u + arena[Kernel][u].cnt - 1
        BY <1>6, <4>1 DEF KownApart
      <4>3. v \notin own
        BY <1>7, <2>1, <4>1
      <4>4. pte'[Kernel][v] # -1
        BY <1>1, <1>9, <4>1, <4>2
      <4>5. \A r \in Procs \ {q} : v \notin kown'[r]
        BY <2>2, <4>2, <4>3
      <4> QED
        BY <2>0, <4>2, <4>4, <4>5
    <3> QED
      BY <3>1, <3>2
  <2> QED
    BY <2>3 DEF KownApart, NoArena
<1> QED
  BY <1>3, <1>6, <1>10, <1>11, <1>12

LEMMA HeapAfterFork ==
    ASSUME MemInv, HeapInv, NEW p \in Procs, NEW c \in Procs, SysFork(p, c), UNCHANGED execVars
    PROVE  HeapInv'
<1>1. PageInv /\ Runs(p) /\ ~Exists(c) /\ old' = old
  BY DEF MemInv, SysFork, execVars
<1>2. CASE Exhausted
  BY <1>2, HeapAfterExhausted
<1>3. ASSUME NEW new \in SUBSET KBits, NEW own, NEW kf, NEW tab, NEW to,
             Forked(p, c, new, own, kf, tab, to)
      PROVE  HeapInv'
  BY <1>1, <1>3, HeapAfterForked
<1> QED
  BY <1>1, <1>2, <1>3, ForkPages

(* sys_execv empties the list: the headers that are there are old ones.    *)
LEMMA HeapAfterOpen ==
    ASSUME MemInv, LoadInv, HeapInv, NEW p \in Procs, ExecvOpen(p)
    PROVE  HeapInv'
<1>1. /\ p \in Spaces /\ p # Kernel /\ p # NULL /\ HeapTypes
      /\ old' = [old EXCEPT ![p] = {v \in VSpace : arena[p][v] # NoArena}]
      /\ free_list' = [free_list EXCEPT ![p] = {}]
      /\ UNCHANGED <<arena, held, kown, stray>> /\ pte' = pte /\ panic' = panic
      /\ old \in [Spaces -> SUBSET VSpace]
  BY MemAssumption DEF MemInv, Spaces, ExecvOpen, ExecvBegins, LoadInv
<1>2. SUFFICES ASSUME ~stray
               PROVE  (\A u \in Spaces : HeapOf(u)') /\ KownApart' /\ panic' # "assert"
  BY <1>1 DEF HeapInv
<1>3. (\A u \in Spaces : HeapOf(u)) /\ HeapOf(p) /\ KownApart /\ panic # "assert"
  BY <1>1, <1>2 DEF HeapInv
<1>4. /\ old'[p] = {v \in VSpace : arena[p][v] # NoArena} /\ free_list'[p] = {}
      /\ \A u \in Spaces : u # p => old'[u] = old[u] /\ free_list'[u] = free_list[u]
  BY <1>1 DEF HeapTypes
<1>5. HeapOf(p)'
  <2>0. arena' = arena /\ held' = held
    BY <1>1
  <2>1. \A v \in VSpace \ old'[p] : arena'[p][v].desc # p
    <3>1. \A v \in VSpace \ old'[p] : arena[p][v] = NoArena
      BY <1>4
    <3>2. NoArena.desc # p
      BY <1>1 DEF NoArena
    <3> QED
      BY <2>0, <3>1, <3>2
  <2>2. \A b \in held[p] : arena[p][b[1]] # NoArena /\ (arena[p][b[1]].large <=> b[2] = -1)
    BY <1>3 DEF HeapOf
  <2>3. \A v \in VSpace : arena[p][v] # NoArena => pte[p][v] # -1
    BY <1>3 DEF HeapOf
  <2>4. \A v \in VSpace : arena[p][v].large =>
           /\ arena[p][v].desc = NULL
           /\ \A w \in v + 1 .. v + arena[p][v].cnt - 1 : pte[p][w] # -1 /\ arena[p][w] = NoArena
    BY <1>3 DEF HeapOf
  <2>5. /\ \A b \in held'[p] : arena'[p][b[1]] # NoArena /\ (arena'[p][b[1]].large <=> b[2] = -1)
        /\ \A v \in VSpace : arena'[p][v] # NoArena => pte'[p][v] # -1
        /\ \A v \in VSpace : arena'[p][v].large =>
              /\ arena'[p][v].desc = NULL
              /\ \A w \in v + 1 .. v + arena'[p][v].cnt - 1 :
                    pte'[p][w] # -1 /\ arena'[p][w] = NoArena
    BY <1>1, <2>0, <2>2, <2>3, <2>4
  <2>6. /\ free_list'[p] \cap held'[p] = {}
        /\ \A b \in free_list'[p] :
              arena'[p][b[1]].desc = p /\ b[2] # -1 /\ b[1] \notin old'[p]
    BY <1>4
  <2> QED
    BY <2>1, <2>5, <2>6 DEF HeapOf, NoArena, Blocks
<1>6. (\A u \in Spaces : HeapOf(u)') /\ KownApart'
  BY <1>1, <1>3, <1>4, <1>5, OtherHeaps
<1> QED
  BY <1>1, <1>3, <1>6

(* The arena of the struct dir that sys_open leaves behind is not an old   *)
(* one: its blocks, except for the lost one, are those of the list.        *)
LEMMA HeapAfterOpenBelow ==
    ASSUME MemInv, LoadInv, HeapInv, NEW p \in Procs, ExecvOpenBelow(p), Races
    PROVE  HeapInv'
<1>1. /\ p \in Spaces /\ p # Kernel /\ p # NULL
      /\ PageInv /\ PageTypes /\ HeapTypes /\ LargeInside
      /\ old \in [Spaces -> SUBSET VSpace]
  BY MemAssumption DEF MemInv, PageInv, Spaces, LoadInv
<1>2. PICK x : x = bitmap_scan(vbits[p], VLen(p), 1, FALSE)
  OBVIOUS
<1>3. PICK a : a = [desc |-> p, large |-> FALSE, cnt |-> BlocksPerArena - 1]
  OBVIOUS
<1>4. /\ MallocPage(p, {x}) /\ Room(p, 2) /\ table[p] # -1
      /\ old' = [old EXCEPT ![p] = {v \in VSpace : arena[p][v] # NoArena}]
      /\ arena' = [arena EXCEPT ![p] = [arena[p] EXCEPT ![x] = a]]
      /\ \E b \in Blocks(x) : free_list' = [free_list EXCEPT ![p] = Blocks(x) \ {b}]
      /\ UNCHANGED <<table, kown, starting>> /\ UNCHANGED <<held, panic, stray>>
  BY <1>2, <1>3 DEF ExecvOpenBelow, ExecvBegins, Runs
<1>5. PICK d \in Blocks(x) : free_list' = [free_list EXCEPT ![p] = Blocks(x) \ {d}]
  BY <1>4
<1>6. SUFFICES ASSUME ~stray
               PROVE  (\A u \in Spaces : HeapOf(u)') /\ KownApart' /\ panic' # "assert"
  BY <1>4 DEF HeapInv
<1>7. (\A u \in Spaces : HeapOf(u)) /\ HeapOf(p) /\ KownApart /\ panic # "assert"
  BY <1>1, <1>6 DEF HeapInv
<1>8. /\ x \in VSpace /\ x \notin vbits[p]
      /\ Cardinality({x}) <= Cardinality(IF p = Kernel THEN FreeK ELSE FreeU)
  <2>1. ~Full(p, 1)
    BY <1>4, RoomPage
  <2> QED
    BY <1>1, <1>2, <2>1, ArenaPage
<1>9. PICK run \in SUBSET VSpace : run = {x}
  BY <1>8
<1>10. /\ \A v \in run : pte[p][v] = -1 /\ pte'[p][v] # -1
       /\ \A u \in Spaces : \A v \in VSpace : pte[u][v] # -1 => pte'[u][v] # -1
  <2>1. run \cap vbits[p] = {} /\ MallocPage(p, run)
        /\ Cardinality(run) <= Cardinality(IF p = Kernel THEN FreeK ELSE FreeU)
    BY <1>4, <1>8, <1>9
  <2>2. /\ \A v \in run : pte[p][v] = -1
        /\ \A u \in Spaces : \A v \in VSpace : pte[u][v] # -1 => pte'[u][v] # -1
    BY <1>1, <1>4, <2>1, MallocPageGrows
  <2>3. \A v \in run : pte'[p][v] # -1
    BY <1>1, <1>4, <2>1, MallocPageKeeps
  <2> QED
    BY <2>2, <2>3
<1>11. a.desc = p /\ ~a.large /\ a.cnt = BlocksPerArena - 1 /\ a # NoArena
  BY <1>1, <1>3 DEF NoArena
<1>12. /\ \A w \in VSpace : arena'[p][w] = IF w = x THEN a ELSE arena[p][w]
       /\ free_list'[p] = Blocks(x) \ {d} /\ held' = held
       /\ old'[p] = {v \in VSpace : arena[p][v] # NoArena}
       /\ \A u \in Spaces : u # p => /\ old'[u] = old[u] /\ arena'[u] = arena[u]
                                     /\ free_list'[u] = free_list[u]
  BY <1>1, <1>4, <1>5, <1>8 DEF HeapTypes
<1>13. (\A b \in Blocks(x) : b[1] = x /\ b[2] # -1) /\ d[1] = x /\ d[2] # -1
  BY MemAssumption DEF Blocks
<1>14. /\ \A v \in run : arena[p][v] = NoArena
       /\ \A b \in free_list[p] \cup held[p] : b[1] \notin run
       /\ \A b \in held'[p] :
             arena'[p][b[1]] # NoArena /\ (arena'[p][b[1]].large <=> b[2] = -1)
       /\ \A v \in VSpace : arena'[p][v] # NoArena => pte'[p][v] # -1
       /\ \A v \in VSpace : arena'[p][v].large =>
             /\ arena'[p][v].desc = NULL
             /\ \A w \in v + 1 .. v + arena'[p][v].cnt - 1 :
                   pte'[p][w] # -1 /\ arena'[p][w] = NoArena
  <2>1. x \in run /\ (a.large <=> d[2] = -1)
    BY <1>9, <1>11, <1>13
  <2>2. Fresh(p, run, x, a, d)
    BY <1>1, <1>10, <1>11, <1>12, <1>13, <2>1 DEF Fresh
  <2> QED
    BY <1>1, <1>7, <2>1, <2>2, FreshHeader
<1>15. x \notin old'[p]
  BY <1>9, <1>12, <1>14
<1>16. ASSUME NEW v \in VSpace \ old'[p], arena'[p][v].desc = p
       PROVE  /\ arena'[p][v].cnt = Cardinality(free_list'[p] \cap Blocks(v))
              /\ arena'[p][v].cnt < BlocksPerArena
  <2>1. v = x
    BY <1>1, <1>12, <1>16 DEF NoArena
  <2>2. IsFiniteSet(Blocks(x)) /\ Cardinality(Blocks(x)) = BlocksPerArena
    BY BlockCount
  <2>3. Cardinality(Blocks(x) \ {d}) = BlocksPerArena - 1
    BY <2>2, FS_RemoveElement
  <2>4. free_list'[p] \cap Blocks(v) = Blocks(x) \ {d}
    BY <1>12, <2>1
  <2>5. arena'[p][v].cnt = BlocksPerArena - 1
    BY <1>11, <1>12, <2>1
  <2>6. BlocksPerArena - 1 < BlocksPerArena
    BY MemAssumption
  <2> QED
    BY <2>3, <2>4, <2>5, <2>6
<1>17. free_list'[p] \cap held'[p] = {}
  <2>1. ASSUME NEW b \in free_list'[p], b \in held'[p] PROVE FALSE
    <3>1. b \in Blocks(x) /\ b \in held[p]
      BY <1>12, <2>1
    <3>2. b[1] \in run
      BY <1>9, <1>13, <3>1
    <3> QED
      BY <1>14, <3>1, <3>2
  <2> QED
    BY <2>1
<1>18. \A b \in free_list'[p] : arena'[p][b[1]].desc = p /\ b[2] # -1 /\ b[1] \notin old'[p]
  BY <1>8, <1>11, <1>12, <1>13, <1>15
<1>19. HeapOf(p)'
  BY <1>14, <1>16, <1>17, <1>18 DEF HeapOf, NoArena, Blocks
<1>20. (\A u \in Spaces : HeapOf(u)') /\ KownApart'
  BY <1>1, <1>4, <1>7, <1>10, <1>12, <1>19, OtherHeaps
<1> QED
  BY <1>4, <1>7, <1>20

(* A page of the new program replaces one without a header, or an old one. *)
LEMMA HeapAfterSegment ==
    ASSUME MemInv, LoadInv, HeapInv, NEW p \in Procs, NEW z \in 0 .. MaxImage - 1,
           SegmentLoad(p, z), Races
    PROVE  HeapInv'
<1>1. /\ p \in Spaces /\ p # Kernel /\ p # NULL /\ z \in VSpace
      /\ PageInv /\ HeapTypes /\ LargeInside /\ table[p] # -1
  BY MemAssumption DEF MemInv, Spaces, VSpace, LoadInv, SegmentLoad, MayRead, Loads
<1>2. /\ arena' = [arena EXCEPT ![p] = [arena[p] EXCEPT ![z] = NoArena]]
      /\ held' = [held EXCEPT ![p] = {b \in held[p] : b[1] # z}]
      /\ old' = old /\ free_list' = free_list /\ kown' = kown /\ panic' = panic
      /\ stray' = (stray \/ (arena[p][z] # NoArena /\ z \notin old[p]))
  BY DEF SegmentLoad, execVars
<1>3. \A u \in Spaces : \A v \in VSpace : pte[u][v] # -1 => pte'[u][v] # -1
  BY <1>1, SegmentLoadKeeps
<1>4. SUFFICES ASSUME ~stray'
               PROVE  (\A u \in Spaces : HeapOf(u)') /\ KownApart' /\ panic' # "assert"
  BY DEF HeapInv
<1>5. ~stray /\ (arena[p][z] = NoArena \/ z \in old[p])
  BY <1>2, <1>4, Zenon
<1>6. (\A u \in Spaces : HeapOf(u)) /\ HeapOf(p) /\ KownApart /\ panic # "assert"
  BY <1>1, <1>5 DEF HeapInv
<1>7. /\ \A w \in VSpace : arena'[p][w] = IF w = z THEN NoArena ELSE arena[p][w]
      /\ held'[p] = {b \in held[p] : b[1] # z}
      /\ \A u \in Spaces : u # p => arena'[u] = arena[u] /\ held'[u] = held[u]
  BY <1>1, <1>2 DEF HeapTypes
<1>8. NoArena.desc = NULL /\ ~NoArena.large
  BY DEF NoArena
<1>9. ASSUME NEW b \in free_list[p]
      PROVE  arena'[p][b[1]].desc = p /\ b[2] # -1 /\ b[1] \notin old[p]
  <2>1. b[1] \in VSpace /\ arena[p][b[1]].desc = p /\ b[2] # -1 /\ b[1] \notin old[p]
    BY <1>1, <1>6, AddressParts DEF HeapTypes, HeapOf
  <2>2. b[1] # z
    BY <1>1, <1>5, <1>8, <2>1
  <2> QED
    BY <1>7, <2>1, <2>2
<1>10. ASSUME NEW b \in held'[p]
       PROVE  arena'[p][b[1]] # NoArena /\ (arena'[p][b[1]].large <=> b[2] = -1)
  <2>1. b \in held[p] /\ b[1] # z /\ b[1] \in VSpace
    BY <1>1, <1>7, <1>10, AddressParts DEF HeapTypes
  <2> QED
    BY <1>6, <1>7, <2>1 DEF HeapOf
<1>11. ASSUME NEW v \in VSpace \ old[p], arena'[p][v].desc = p
       PROVE  /\ arena'[p][v].cnt = Cardinality(free_list[p] \cap Blocks(v))
              /\ arena'[p][v].cnt < BlocksPerArena
  <2>1. arena'[p][v] = arena[p][v]
    BY <1>1, <1>7, <1>8, <1>11
  <2> QED
    BY <1>6, <1>11, <2>1 DEF HeapOf
<1>12. \A v \in VSpace : arena'[p][v] # NoArena => pte'[p][v] # -1
  BY <1>1, <1>3, <1>6, <1>7 DEF HeapOf
<1>13. ASSUME NEW v \in VSpace, arena'[p][v].large
       PROVE  /\ arena'[p][v].desc = NULL
              /\ \A w \in v + 1 .. v + arena'[p][v].cnt - 1 :
                    pte'[p][w] # -1 /\ arena'[p][w] = NoArena
  <2>1. arena'[p][v] = arena[p][v]
    BY <1>7, <1>8, <1>13
  <2>2. /\ arena[p][v].desc = NULL
        /\ \A w \in v + 1 .. v + arena[p][v].cnt - 1 : pte[p][w] # -1 /\ arena[p][w] = NoArena
    BY <1>6, <1>13, <2>1 DEF HeapOf
  <2>3. \A w \in v + 1 .. v + arena[p][v].cnt - 1 : w \in VSpace
    <3>1. v .. v + arena[p][v].cnt - 1 \subseteq VSpace
      BY <1>1, <1>13, <2>1 DEF LargeInside
    <3>2. \A w \in v + 1 .. v + arena[p][v].cnt - 1 : w \in v .. v + arena[p][v].cnt - 1
      BY BitsApart
    <3> QED
      BY <3>1, <3>2
  <2> QED
    BY <1>1, <1>3, <1>7, <2>1, <2>2, <2>3
<1>14. free_list'[p] \cap held'[p] = {}
  BY <1>2, <1>6, <1>7 DEF HeapOf
<1>15. HeapOf(p)'
  BY <1>2, <1>9, <1>10, <1>11, <1>12, <1>13, <1>14 DEF HeapOf, NoArena, Blocks
<1>16. (\A u \in Spaces : HeapOf(u)') /\ KownApart'
  BY <1>1, <1>2, <1>3, <1>6, <1>7, <1>15, OtherHeaps
<1> QED
  BY <1>2, <1>6, <1>16

(* The new program: the old headers and what was held are gone.            *)
LEMMA HeapAfterJump ==
    ASSUME MemInv, LoadInv, HeapInv, NEW p \in Procs, ExecvJumps(p)
    PROVE  HeapInv'
<1>1. /\ p \in Spaces /\ p # Kernel /\ p # NULL /\ HeapTypes /\ LargeInside
      /\ old \in [Spaces -> SUBSET VSpace]
      /\ old' = [old EXCEPT ![p] = {}]
      /\ held' = [held EXCEPT ![p] = {}]
      /\ arena' = [arena EXCEPT ![p] =
             [v \in VSpace |-> IF v \in old[p] THEN NoArena ELSE arena[p][v]]]
      /\ UNCHANGED <<free_list, kown, panic, stray>> /\ pte' = pte
  BY MemAssumption DEF MemInv, Spaces, ExecvJumps, LoadInv
<1>2. SUFFICES ASSUME ~stray
               PROVE  (\A u \in Spaces : HeapOf(u)') /\ KownApart' /\ panic' # "assert"
  BY <1>1 DEF HeapInv
<1>3. (\A u \in Spaces : HeapOf(u)) /\ HeapOf(p) /\ KownApart /\ panic # "assert"
  BY <1>1, <1>2 DEF HeapInv
<1>4. /\ \A v \in VSpace : arena'[p][v] = IF v \in old[p] THEN NoArena ELSE arena[p][v]
      /\ old'[p] = {} /\ held'[p] = {}
      /\ \A u \in Spaces : u # p => /\ old'[u] = old[u] /\ arena'[u] = arena[u]
                                    /\ held'[u] = held[u]
  BY <1>1 DEF HeapTypes
<1>5. NoArena.desc = NULL /\ ~NoArena.large
  BY DEF NoArena
<1>6. ASSUME NEW b \in free_list[p] PROVE arena'[p][b[1]].desc = p /\ b[2] # -1
  <2>1. b[1] \in VSpace /\ arena[p][b[1]].desc = p /\ b[2] # -1 /\ b[1] \notin old[p]
    BY <1>1, <1>3, AddressParts DEF HeapTypes, HeapOf
  <2> QED
    BY <1>4, <2>1
<1>7. ASSUME NEW v \in VSpace, arena'[p][v].desc = p
      PROVE  /\ arena'[p][v].cnt = Cardinality(free_list[p] \cap Blocks(v))
             /\ arena'[p][v].cnt < BlocksPerArena
  <2>1. v \notin old[p] /\ arena'[p][v] = arena[p][v]
    BY <1>1, <1>4, <1>5, <1>7
  <2> QED
    BY <1>3, <1>7, <2>1 DEF HeapOf
<1>8. \A v \in VSpace : arena'[p][v] # NoArena => pte[p][v] # -1
  BY <1>3, <1>4 DEF HeapOf
<1>9. ASSUME NEW v \in VSpace, arena'[p][v].large
      PROVE  /\ arena'[p][v].desc = NULL
             /\ \A w \in v + 1 .. v + arena'[p][v].cnt - 1 :
                   pte[p][w] # -1 /\ arena'[p][w] = NoArena
  <2>1. arena'[p][v] = arena[p][v]
    BY <1>4, <1>5, <1>9
  <2>2. /\ arena[p][v].desc = NULL
        /\ \A w \in v + 1 .. v + arena[p][v].cnt - 1 : pte[p][w] # -1 /\ arena[p][w] = NoArena
    BY <1>3, <1>9, <2>1 DEF HeapOf
  <2>3. \A w \in v + 1 .. v + arena[p][v].cnt - 1 : w \in VSpace
    <3>1. v .. v + arena[p][v].cnt - 1 \subseteq VSpace
      BY <1>1, <1>9, <2>1 DEF LargeInside
    <3>2. \A w \in v + 1 .. v + arena[p][v].cnt - 1 : w \in v .. v + arena[p][v].cnt - 1
      BY BitsApart
    <3> QED
      BY <3>1, <3>2
  <2> QED
    BY <1>4, <2>1, <2>2, <2>3
<1>10. HeapOf(p)'
  <2>0. free_list' = free_list /\ pte' = pte
    BY <1>1
  <2>1. /\ free_list'[p] \cap held'[p] = {}
        /\ \A b \in free_list'[p] :
              arena'[p][b[1]].desc = p /\ b[2] # -1 /\ b[1] \notin old'[p]
        /\ \A b \in held'[p] : arena'[p][b[1]] # NoArena /\ (arena'[p][b[1]].large <=> b[2] = -1)
    BY <1>4, <1>6, <2>0
  <2>2. \A v \in VSpace \ old'[p] : arena'[p][v].desc = p =>
           /\ arena'[p][v].cnt = Cardinality(free_list'[p] \cap Blocks(v))
           /\ arena'[p][v].cnt < BlocksPerArena
    BY <1>7, <2>0
  <2>3. /\ \A v \in VSpace : arena'[p][v] # NoArena => pte'[p][v] # -1
        /\ \A v \in VSpace : arena'[p][v].large =>
              /\ arena'[p][v].desc = NULL
              /\ \A w \in v + 1 .. v + arena'[p][v].cnt - 1 :
                    pte'[p][w] # -1 /\ arena'[p][w] = NoArena
    BY <1>8, <1>9, <2>0
  <2> QED
    BY <2>1, <2>2, <2>3 DEF HeapOf, NoArena, Blocks
<1>11. (\A u \in Spaces : HeapOf(u)') /\ KownApart'
  BY <1>1, <1>3, <1>4, <1>10, OtherHeaps
<1> QED
  BY <1>1, <1>3, <1>11

(* Back to the old program: when none of its blocks was free and none of   *)
(* its headers is gone, its counts are right again.                        *)
LEMMA HeapAfterFailure ==
    ASSUME MemInv, LoadInv, HeapInv, NEW p \in Procs, ExecvFails(p)
    PROVE  HeapInv'
<1>1. /\ p \in Spaces /\ p # Kernel /\ HeapTypes
      /\ old \in [Spaces -> SUBSET VSpace]
      /\ old' = [old EXCEPT ![p] = {}]
      /\ stray' = (stray \/ \E v \in old[p] :
                      \/ arena[p][v] = NoArena
                      \/ arena[p][v].desc = p /\ arena[p][v].cnt # 0)
      /\ UNCHANGED <<arena, free_list, held, kown, panic>> /\ pte' = pte
  BY MemAssumption DEF MemInv, Spaces, ExecvFails, LoadInv
<1>2. SUFFICES ASSUME ~stray'
               PROVE  (\A u \in Spaces : HeapOf(u)') /\ KownApart' /\ panic' # "assert"
  BY DEF HeapInv
<1>3. ~stray /\ \A v \in old[p] : ~(arena[p][v].desc = p /\ arena[p][v].cnt # 0)
  BY <1>1, <1>2, Zenon
<1>4. (\A u \in Spaces : HeapOf(u)) /\ HeapOf(p) /\ KownApart /\ panic # "assert"
  BY <1>1, <1>3 DEF HeapInv
<1>5. old'[p] = {} /\ \A u \in Spaces : u # p => old'[u] = old[u]
  BY <1>1
<1>6. ASSUME NEW v \in VSpace, arena[p][v].desc = p
      PROVE  /\ arena[p][v].cnt = Cardinality(free_list[p] \cap Blocks(v))
             /\ arena[p][v].cnt < BlocksPerArena
  <2>1. CASE v \notin old[p]
    BY <1>4, <1>6, <2>1 DEF HeapOf
  <2>2. CASE v \in old[p]
    <3>1. arena[p][v].cnt = 0
      BY <1>3, <1>6, <2>2
    <3>2. free_list[p] \cap Blocks(v) = {}
      <4>1. \A b \in Blocks(v) : b[1] = v
        BY DEF Blocks
      <4>2. \A b \in free_list[p] : b[1] \notin old[p]
        BY <1>4 DEF HeapOf
      <4> QED
        BY <2>2, <4>1, <4>2
    <3>3. Cardinality({}) = 0 /\ 0 < BlocksPerArena
      BY FS_EmptySet, MemAssumption
    <3> QED
      BY <3>1, <3>2, <3>3
  <2> QED
    BY <2>1, <2>2
<1>7. HeapOf(p)'
  <2>0. arena' = arena /\ held' = held /\ free_list' = free_list
    BY <1>1
  <2>1. /\ free_list'[p] \cap held'[p] = {}
        /\ \A b \in free_list'[p] :
              arena'[p][b[1]].desc = p /\ b[2] # -1 /\ b[1] \notin old'[p]
    BY <1>4, <1>5, <2>0 DEF HeapOf
  <2>2. /\ \A b \in held'[p] : arena'[p][b[1]] # NoArena /\ (arena'[p][b[1]].large <=> b[2] = -1)
        /\ \A v \in VSpace : arena'[p][v] # NoArena => pte'[p][v] # -1
        /\ \A v \in VSpace : arena'[p][v].large =>
              /\ arena'[p][v].desc = NULL
              /\ \A w \in v + 1 .. v + arena'[p][v].cnt - 1 :
                    pte'[p][w] # -1 /\ arena'[p][w] = NoArena
    BY <1>1, <1>4, <2>0 DEF HeapOf
  <2>3. \A v \in VSpace \ old'[p] : arena'[p][v].desc = p =>
           /\ arena'[p][v].cnt = Cardinality(free_list'[p] \cap Blocks(v))
           /\ arena'[p][v].cnt < BlocksPerArena
    BY <1>6, <2>0
  <2> QED
    BY <2>1, <2>2, <2>3 DEF HeapOf, NoArena, Blocks
<1>8. (\A u \in Spaces : HeapOf(u)') /\ KownApart'
  BY <1>1, <1>4, <1>5, <1>7, OtherHeaps
<1> QED
  BY <1>1, <1>4, <1>8

LEMMA HeapInitially ==
    ASSUME MemInit PROVE HeapInv
<1>1. /\ \A s \in Spaces : \A v \in VSpace : arena[s][v] = NoArena
      /\ \A s \in Spaces : free_list[s] = {} /\ held[s] = {}
      /\ panic = NULL /\ old = [s \in Spaces |-> {}]
      /\ kown = [p \in Procs |-> IF p = First THEN {0, 2} ELSE {}]
      /\ pte = [s \in Spaces |-> [v \in VSpace |->
                   IF s = Kernel /\ v \in {0, 1, 2} THEN v ELSE -1]]
  BY DEF MemInit
<1>2. Kernel \in Spaces /\ 0 \in VSpace /\ 2 \in VSpace
  <2>1. 0 \in KBits /\ 2 \in KBits
    BY MemAssumption DEF KBits
  <2> QED
    BY <2>1, BitsApart DEF Spaces
<1>3. ASSUME NEW s \in Spaces PROVE HeapOf(s)
  <2>1. ~NoArena.large /\ NoArena.desc # s
    BY MemAssumption DEF NoArena, Spaces
  <2> QED
    BY <1>1, <2>1 DEF HeapOf
<1>4. KownApart
  <2>1. ASSUME NEW p \in Procs, NEW v \in kown[p]
        PROVE  /\ p = First /\ v \in VSpace /\ pte[Kernel][v] # -1
               /\ \A q \in Procs \ {p} : v \notin kown[q]
    <3>1. p = First /\ v \in {0, 2}
      BY <1>1, <2>1
    <3>2. v \in VSpace /\ pte[Kernel][v] = v /\ v # -1
      BY <1>1, <1>2, <3>1
    <3> QED
      BY <1>1, <3>1, <3>2
  <2>2. \A v \in VSpace : arena[Kernel][v] = NoArena /\ ~arena[Kernel][v].large
    BY <1>1, <1>2, NoArenaType
  <2> QED
    BY <2>1, <2>2 DEF KownApart
<1>5. panic # "assert"
  BY <1>1, MemAssumption
<1> QED
  BY <1>3, <1>4, <1>5 DEF HeapInv

LEMMA HeapStepKeeps ==
    ASSUME MemInv, LoadInv, HeapInv, [MemNext]_memVars
    PROVE  HeapInv'
<1>1. CASE MemNext
  <2>1. Races
    BY <1>1 DEF MemNext, Races
  <2>2. CASE CallStep
    <3>0. UNCHANGED execVars
      BY <2>2 DEF CallStep
    <3>1. ASSUME NEW s \in Spaces, SysMallocBlock(s) \/ SysMallocArena(s) \/ SysMallocLarge(s)
          PROVE  HeapInv'
      BY <2>1, <3>0, <3>1, HeapAfterBlock, HeapAfterArena, HeapAfterLarge
    <3>2. ASSUME NEW s \in Spaces, NEW b \in held[s], SysFree(s, b) PROVE HeapInv'
      BY <2>1, <3>0, <3>2, HeapAfterFree
    <3>3. CASE StartScan \/ StartSet
      BY <3>0, <3>3, HeapAfterStart
    <3>4. ASSUME NEW p \in Procs, NEW c \in Procs, SysFork(p, c) PROVE HeapInv'
      BY <3>0, <3>4, HeapAfterFork
    <3>5. ASSUME NEW p \in Procs, SysExit(p) \/ ThreadExit(p) PROVE HeapInv'
      BY <2>1, <3>0, <3>5, HeapAfterExit, HeapAfterThreadExit
    <3>6. ASSUME NEW p \in Procs, ExecvNoRoom(p) PROVE HeapInv'
      BY <3>0, <3>6, HeapAfterExhausted DEF ExecvNoRoom
    <3> QED
      BY <2>2, <3>1, <3>2, <3>3, <3>4, <3>5, <3>6 DEF CallStep
  <2>3. CASE ExecvStep
    <3>1. ASSUME NEW p \in Procs, ExecvOpen(p) \/ ExecvOpenBelow(p) PROVE HeapInv'
      BY <2>1, <3>1, HeapAfterOpen, HeapAfterOpenBelow
    <3>2. ASSUME NEW p \in Procs, NEW v \in 0 .. MaxImage - 1, SegmentLoad(p, v) PROVE HeapInv'
      BY <2>1, <3>2, HeapAfterSegment
    <3>3. ASSUME NEW p \in Procs, ExecvJumps(p) \/ ExecvFails(p) PROVE HeapInv'
      BY <3>3, HeapAfterJump, HeapAfterFailure
    <3> QED
      BY <2>3, <3>1, <3>2, <3>3 DEF ExecvStep
  <2> QED
    BY <1>1, <2>2, <2>3 DEF MemNext
<1>2. CASE UNCHANGED memVars
  <2>1. /\ UNCHANGED <<old, arena, free_list, held, kown>> /\ pte' = pte
        /\ stray' = stray /\ panic' = panic
    BY <1>2 DEF memVars
  <2>2. ASSUME ~stray PROVE (\A u \in Spaces : HeapOf(u)') /\ KownApart'
    BY <2>1, <2>2, HeapsUntouched DEF HeapInv
  <2> QED
    BY <2>1, <2>2 DEF HeapInv
<1> QED
  BY <1>1, <1>2

(* The invariant of the heaps, beside that of the pages: while no list and *)
(* its arenas are apart, every header counts the blocks that its list has  *)
(* of its page, whole pages are mapped and have one header, and nothing    *)
(* that a heap owns is a PCB or a page directory.                          *)
THEOREM HeapsInvariant == MemSpec => [](MemInv /\ LoadInv /\ HeapInv)
<1>1. MemInit => HeapInv
  BY HeapInitially
<1>2. (MemInv /\ LoadInv) /\ HeapInv /\ [MemNext]_memVars => HeapInv'
  BY HeapStepKeeps
<1> QED
  BY <1>1, <1>2, MemInvariant, PTL DEF MemSpec

LEMMA HeapFollows ==
    ASSUME MemInv, HeapInv
    PROVE  HeapExact
<1>1. SUFFICES ASSUME ~stray
               PROVE  BlockOnce /\ ArenaExact /\ HeapPages /\ panic # "assert"
  BY DEF HeapExact
<1>2. HeapTypes /\ (\A s \in Spaces : HeapOf(s)) /\ KownApart /\ panic # "assert"
  BY <1>1 DEF HeapInv, MemInv
<1>3. BlockOnce
  <2>1. ASSUME NEW s \in Spaces, NEW b \in free_list[s] \cup held[s]
        PROVE  pte[s][b[1]] # -1 /\ arena[s][b[1]] # NoArena
    <3>1. HeapOf(s) /\ b[1] \in VSpace
      BY <1>2, <2>1, AddressParts DEF HeapTypes
    <3>2. arena[s][b[1]] # NoArena
      <4>1. NoArena.desc # s
        BY MemAssumption DEF NoArena, Spaces
      <4> QED
        BY <2>1, <3>1, <4>1 DEF HeapOf
    <3> QED
      BY <3>1, <3>2 DEF HeapOf
  <2>2. \A s \in Spaces : free_list[s] \cap held[s] = {}
    BY <1>2 DEF HeapOf
  <2> QED
    BY <2>1, <2>2 DEF BlockOnce
<1>4. ArenaExact
  BY <1>2 DEF HeapOf, ArenaExact
<1>5. HeapPages
  <2>1. /\ \A s \in Spaces : \A b \in free_list[s] : arena[s][b[1]].desc = s /\ b[2] # -1
        /\ \A s \in Spaces : \A b \in held[s] : arena[s][b[1]].large <=> b[2] = -1
    BY <1>2 DEF HeapOf
  <2>2. \A s \in Spaces : \A v \in VSpace :
           /\ arena[s][v] # NoArena => pte[s][v] # -1
           /\ arena[s][v].large => arena[s][v].desc = NULL
           /\ arena[s][v].large => \A w \in v + 1 .. v + arena[s][v].cnt - 1 :
                                      pte[s][w] # -1 /\ arena[s][w] = NoArena
    BY <1>2 DEF HeapOf
  <2> QED
    BY <1>2, <2>1, <2>2 DEF HeapPages, KownApart
<1> QED
  BY <1>2, <1>3, <1>4, <1>5

(* As long as no list and its arenas are apart, no block is free and held  *)
(* at once or lies in a page that is not mapped, cnt is the number of free *)
(* blocks of an arena, and the ASSERT of sys_free (memory.c:528) does not  *)
(* fail, however many processes fork, run other programs and exit.         *)
THEOREM HeapsExact == MemSpec => []HeapExact
<1>1. MemInv /\ HeapInv => HeapExact
  BY HeapFollows
<1> QED
  BY <1>1, HeapsInvariant, PTL
============================================================================
