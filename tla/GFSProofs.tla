------------------------------ MODULE GFSProofs ------------------------------
(***************************************************************************)
(* Invariants of the file system, and that it implements a tree of names,  *)
(* for every number of inodes and blocks, every size of blocks and entries *)
(* and every depth of paths.                                               *)
(***************************************************************************)
EXTENDS GFS, TLAPS, WellFoundedInduction, SequenceTheorems, FiniteSetTheorems
-----------------------------------------------------------------------------
(***************************************************************************)
(* The specification writes loops as functions defined by recursion.  What *)
(* proofs about them need: induction over the natural numbers stated with  *)
(* a set, and that a step repeated a number of times is defined.           *)
(***************************************************************************)
\* A set of natural numbers has a least one.
LEMMA LeastNatural ==
  ASSUME NEW T \in SUBSET Nat, T # {}
  PROVE  \E m \in T : \A n \in T : m <= n
<1>1. IsWellFoundedOn(OpToRel(<, Nat), Nat)
  BY NatLessThanWellFounded
<1>2. PICK m \in T : \A n \in T : ~(<<n, m>> \in OpToRel(<, Nat))
  BY <1>1, WFMin
<1>3. \A n \in T : ~(n < m)
  BY <1>2 DEF OpToRel
<1> QED
  BY <1>3

LEMMA SetInduction ==
  ASSUME NEW T, 0 \in T, \A n \in Nat : n \in T => n + 1 \in T
  PROVE  \A n \in Nat : n \in T
<1> DEFINE Rest == Nat \ T
<1> SUFFICES ASSUME Rest # {} PROVE FALSE
  OBVIOUS
<1>1. PICK m \in Rest : \A n \in Rest : m <= n
  <2>1. Rest \in SUBSET Nat
    OBVIOUS
  <2> HIDE DEF Rest
  <2> QED
    BY <2>1, LeastNatural
<1>2. m # 0 /\ m - 1 \in Nat
  OBVIOUS
<1>3. m - 1 \in T
  BY <1>1, <1>2
<1> QED
  BY <1>2, <1>3

\* The n-th step takes f[n - 1] to g of n and that.
Iterates(f, x, g, L) == f[0] = x /\ \A n \in 1 .. L : f[n] = g[<<n, f[n - 1]>>]

LEMMA IterationExists ==
  ASSUME NEW X, NEW x \in X, NEW L \in Nat, NEW g \in [(1 .. L) \X X -> X]
  PROVE  \E f \in [0 .. L -> X] : Iterates(f, x, g, L)
<1> DEFINE T == {n \in Nat : n <= L => \E f \in [0 .. n -> X] : Iterates(f, x, g, n)}
<1>1. 0 \in T
  <2>1. /\ [i \in 0 .. 0 |-> x] \in [0 .. 0 -> X]
        /\ Iterates([i \in 0 .. 0 |-> x], x, g, 0)
    BY DEF Iterates
  <2> QED
    BY <2>1
<1>2. ASSUME NEW n \in Nat, n \in T PROVE n + 1 \in T
  <2> SUFFICES ASSUME n + 1 <= L
               PROVE  \E f \in [0 .. n + 1 -> X] : Iterates(f, x, g, n + 1)
    OBVIOUS
  <2>1. PICK f \in [0 .. n -> X] : Iterates(f, x, g, n)
    BY <1>2
  <2> DEFINE e == [i \in 0 .. n + 1 |-> IF i = n + 1 THEN g[<<n + 1, f[n]>>] ELSE f[i]]
  <2>2. e \in [0 .. n + 1 -> X]
    <3>1. g[<<n + 1, f[n]>>] \in X
      OBVIOUS
    <3> QED
      BY <3>1
  <2>3. e[n + 1] = g[<<n + 1, f[n]>>] /\ \A i \in 0 .. n : e[i] = f[i]
    OBVIOUS
  <2> HIDE DEF e
  <2>4. e[0] = x
    BY <2>1, <2>3 DEF Iterates
  <2>5. ASSUME NEW i \in 1 .. n + 1 PROVE e[i] = g[<<i, e[i - 1]>>]
    <3>1. CASE i = n + 1
      <4>1. i - 1 = n /\ e[n] = f[n]
        BY <2>3, <3>1
      <4> QED
        BY <2>3, <3>1, <4>1
    <3>2. CASE i # n + 1
      <4>1. i \in 1 .. n /\ e[i] = f[i] /\ e[i - 1] = f[i - 1]
        BY <2>3, <3>2
      <4>2. f[i] = g[<<i, f[i - 1]>>]
        BY <2>1, <4>1 DEF Iterates
      <4> QED
        BY <4>1, <4>2
    <3> QED
      BY <3>1, <3>2
  <2>6. Iterates(e, x, g, n + 1)
    BY <2>4, <2>5, Zenon DEF Iterates
  <2> QED
    BY <2>2, <2>6
<1>3. L \in T
  <2> HIDE DEF T
  <2> QED
    BY <1>1, <1>2, SetInduction
<1> QED
  BY <1>3
-----------------------------------------------------------------------------
(***************************************************************************)
(* Sizes and numbers of blocks.                                            *)
(***************************************************************************)
LEMMA Constants ==
  /\ BlockSize \in Nat \ {0} /\ EntrySize \in Nat \ {0} /\ PerBlock \in Nat \ {0}
  /\ BlockSize = PerBlock * EntrySize
  /\ INODE_DIRECT_BLOCKS \in Nat \ {0} /\ Inodes \subseteq Nat /\ 0 \in Inodes
<1>1. /\ BlockSize \in Nat \ {0} /\ EntrySize \in Nat \ {0} /\ BlockSize % EntrySize = 0
      /\ INODE_DIRECT_BLOCKS \in Nat \ {0} /\ InodeCount \in Nat \ {0}
  BY ConstantsAssumption
<1>2. PerBlock \in Nat \ {0} /\ BlockSize = PerBlock * EntrySize
  BY <1>1 DEF PerBlock
<1> QED
  BY <1>1, <1>2 DEF Inodes

LEMMA Multiples ==
  ASSUME NEW p \in Nat \ {0}, NEW x \in Int, NEW y \in Int
  PROVE  /\ x <= y => x * p <= y * p
         /\ x * p < y * p => x < y
         /\ x < y => x * p + p <= y * p
<1>1. ASSUME NEW a \in Int, NEW b \in Int, a <= b PROVE a * p <= b * p
  <2>1. PICK c \in Nat : b = a + c
    <3>1. b - a \in Nat /\ b = a + (b - a)
      BY <1>1
    <3> QED
      BY <3>1
  <2>2. b * p = a * p + c * p /\ c * p >= 0
    BY <2>1
  <2>3. a * p \in Int /\ c * p \in Int /\ b * p \in Int
    BY <2>1
  <2> QED
    BY <2>2, <2>3
<1>2. x * p < y * p => x < y
  <2>1. y <= x => y * p <= x * p
    BY <1>1
  <2>2. x * p \in Int /\ y * p \in Int
    OBVIOUS
  <2> QED
    BY <2>1, <2>2
<1>3. x < y => x * p + p <= y * p
  <2>1. x < y => (x + 1) * p <= y * p
    BY <1>1
  <2>2. (x + 1) * p = x * p + p
    OBVIOUS
  <2> QED
    BY <2>1, <2>2
<1> QED
  BY <1>1, <1>2, <1>3

LEMMA DivisionIs ==
  ASSUME NEW p \in Nat \ {0}, NEW n \in Nat
  PROVE  /\ n \div p \in Nat /\ n % p \in Nat /\ n % p < p
         /\ n = (n \div p) * p + (n % p)
  OBVIOUS

LEMMA DivisionUnique ==
  ASSUME NEW p \in Nat \ {0}, NEW q \in Nat, NEW r \in Nat, r < p
  PROVE  (q * p + r) \div p = q /\ (q * p + r) % p = r
<1> DEFINE n == q * p + r
           d == n \div p
           m == n % p
<1>1. n \in Nat /\ q * p \in Nat
  OBVIOUS
<1> HIDE DEF n
<1>2. d \in Nat /\ m \in Nat /\ m < p /\ n = d * p + m
  BY <1>1, DivisionIs
<1> HIDE DEF d, m
<1>3. n = q * p + r /\ d * p \in Nat
  BY <1>2 DEF n
<1>4. ~(d < q)
  <2>1. d < q => d * p + p <= q * p
    BY <1>2, Multiples
  <2> QED
    BY <1>1, <1>2, <1>3, <2>1
<1>5. ~(q < d)
  <2>1. q < d => q * p + p <= d * p
    BY <1>2, Multiples
  <2> QED
    BY <1>1, <1>2, <1>3, <2>1
<1>6. d = q /\ m = r
  <2>1. d = q
    BY <1>2, <1>4, <1>5
  <2> QED
    BY <1>1, <1>2, <1>3, <2>1
<1> QED
  BY <1>6 DEF d, m, n

LEMMA BlocksOfIs ==
  ASSUME NEW n \in Nat
  PROVE  BlocksOf(n) = n \div BlockSize + (IF n % BlockSize = 0 THEN 0 ELSE 1)
<1> DEFINE q == n \div BlockSize
           r == n % BlockSize
<1>0. /\ BlockSize \in Nat \ {0} /\ q \in Nat /\ r \in Nat /\ r < BlockSize
      /\ n = q * BlockSize + r
  BY Constants, DivisionIs
<1>1. BlocksOf(n) = (n + BlockSize - 1) \div BlockSize
  BY DEF BlocksOf
<1> HIDE DEF q, r
<1>2. CASE r = 0
  <2>1. n + BlockSize - 1 = q * BlockSize + (BlockSize - 1)
    BY <1>0, <1>2
  <2>2. (q * BlockSize + (BlockSize - 1)) \div BlockSize = q
    BY <1>0, DivisionUnique
  <2> QED
    BY <1>0, <1>1, <1>2, <2>1, <2>2 DEF q, r
<1>3. CASE r # 0
  <2>1. n + BlockSize - 1 = (q + 1) * BlockSize + (r - 1)
    BY <1>0, <1>3
  <2>2. ((q + 1) * BlockSize + (r - 1)) \div BlockSize = q + 1
    BY <1>0, <1>3, DivisionUnique
  <2> QED
    BY <1>0, <1>1, <1>3, <2>1, <2>2 DEF q, r
<1> QED
  BY <1>2, <1>3

LEMMA DivisionMonotone ==
  ASSUME NEW p \in Nat \ {0}, NEW a \in Nat, NEW b \in Nat, a <= b
  PROVE  a \div p <= b \div p
<1> DEFINE x == a \div p
           y == b \div p
<1>1. /\ x \in Nat /\ y \in Nat /\ x * p \in Nat /\ y * p \in Nat
      /\ x * p <= a /\ b < y * p + p
  <2>1. /\ x \in Nat /\ a % p \in Nat /\ a = x * p + (a % p)
        /\ y \in Nat /\ b % p \in Nat /\ b % p < p /\ b = y * p + (b % p)
    BY DivisionIs
  <2> HIDE DEF x, y
  <2>2. x * p \in Nat /\ y * p \in Nat
    BY <2>1
  <2> QED
    BY <2>1, <2>2
<1> HIDE DEF x, y
<1>2. ~(y < x)
  <2>1. y < x => y * p + p <= x * p
    BY <1>1, Multiples
  <2> QED
    BY <1>1, <2>1
<1> QED
  BY <1>1, <1>2 DEF x, y

LEMMA BlocksOfWhole ==
  ASSUME NEW n \in Nat
  PROVE  BlocksOf(n * BlockSize) = n
<1>1. n * BlockSize + 0 = n * BlockSize /\ n * BlockSize \in Nat
  BY Constants
<1>2. (n * BlockSize) \div BlockSize = n /\ (n * BlockSize) % BlockSize = 0
  <2>1. (n * BlockSize + 0) \div BlockSize = n /\ (n * BlockSize + 0) % BlockSize = 0
    <3>1. BlockSize \in Nat \ {0} /\ 0 \in Nat /\ 0 < BlockSize
      BY Constants
    <3> QED
      BY <3>1, DivisionUnique
  <2> QED
    BY <1>1, <2>1
<1> QED
  BY <1>1, <1>2, BlocksOfIs

LEMMA BlocksOfMonotone ==
  ASSUME NEW a \in Nat, NEW b \in Nat, a <= b
  PROVE  BlocksOf(a) <= BlocksOf(b) /\ BlocksOf(a) \in Nat /\ BlocksOf(b) \in Nat
<1>1. /\ a + BlockSize - 1 \in Nat /\ b + BlockSize - 1 \in Nat
      /\ a + BlockSize - 1 <= b + BlockSize - 1
  BY Constants
<1> QED
  BY <1>1, Constants, DivisionMonotone, DivisionIs DEF BlocksOf

LEMMA BlocksOfBound ==
  ASSUME NEW n \in 0 .. INODE_DIRECT_BLOCKS * BlockSize
  PROVE  /\ BlocksOf(n) \in Nat /\ BlocksOf(n) <= INODE_DIRECT_BLOCKS
         /\ n \div BlockSize \in Nat
         /\ n \div BlockSize <= BlocksOf(n) /\ BlocksOf(n) <= n \div BlockSize + 1
         /\ n % BlockSize = 0 => BlocksOf(n) = n \div BlockSize
         /\ n % BlockSize # 0 => BlocksOf(n) = n \div BlockSize + 1
<1>1. INODE_DIRECT_BLOCKS * BlockSize \in Nat /\ n \in Nat
  BY Constants
<1>2. BlocksOf(n) <= INODE_DIRECT_BLOCKS /\ BlocksOf(n) \in Nat
  BY <1>1, Constants, BlocksOfMonotone, BlocksOfWhole
<1>3. n \div BlockSize \in Nat
  BY <1>1, Constants, DivisionIs
<1>4. BlocksOf(n) = n \div BlockSize + (IF n % BlockSize = 0 THEN 0 ELSE 1)
  BY <1>1, BlocksOfIs
<1> DEFINE q == n \div BlockSize
<1> HIDE DEF q
<1> QED
  BY <1>2, <1>3, <1>4 DEF q

\* The size of a directory is a number of entries; one more stays in the block.
LEMMA DirectorySizes ==
  ASSUME NEW size \in Nat, size % EntrySize = 0
  PROVE  /\ (size % BlockSize) \div EntrySize \in Slots
         /\ BlocksOf(size + EntrySize) = size \div BlockSize + 1
         /\ (size + EntrySize) % EntrySize = 0
         /\ size \div BlockSize < INODE_DIRECT_BLOCKS
              => size + EntrySize <= INODE_DIRECT_BLOCKS * BlockSize
         /\ size # 0 => /\ size - EntrySize \in Nat
                        /\ (size - EntrySize) % EntrySize = 0
                        /\ BlocksOf(size - EntrySize) <= BlocksOf(size)
<1> DEFINE m == size \div EntrySize
           q == size \div BlockSize
           r == size % BlockSize
           j == m - q * PerBlock
<1>0. /\ BlockSize \in Nat \ {0} /\ EntrySize \in Nat \ {0} /\ PerBlock \in Nat \ {0}
      /\ INODE_DIRECT_BLOCKS \in Nat \ {0} /\ BlockSize = PerBlock * EntrySize
  BY Constants
<1>1. m \in Nat /\ size = m * EntrySize
  <2>1. m \in Nat /\ size = m * EntrySize + (size % EntrySize)
    BY <1>0, DivisionIs
  <2> HIDE DEF m
  <2>2. m * EntrySize \in Nat
    BY <1>0, <2>1
  <2> QED
    BY <2>1, <2>2
<1>2. q \in Nat /\ r \in Nat /\ r < BlockSize /\ size = q * BlockSize + r
  BY <1>0, DivisionIs
<1> HIDE DEF m, q, r
<1>3. j \in Int /\ r = j * EntrySize
  <2>1. q * BlockSize = (q * PerBlock) * EntrySize
    BY <1>0, <1>2
  <2>2. j * EntrySize = m * EntrySize - (q * PerBlock) * EntrySize
    BY <1>0, <1>1, <1>2
  <2>3. q * BlockSize \in Nat /\ m * EntrySize \in Nat /\ q * PerBlock \in Nat
    BY <1>0, <1>1, <1>2
  <2>4. j \in Int
    BY <1>1, <2>3
  <2> HIDE DEF j
  <2> QED
    BY <1>1, <1>2, <2>1, <2>2, <2>3, <2>4
<1> HIDE DEF j
<1>4. j < PerBlock /\ r + EntrySize <= BlockSize
  <2>1. j * EntrySize < PerBlock * EntrySize
    BY <1>0, <1>2, <1>3
  <2>2. j < PerBlock
    BY <1>0, <1>3, <2>1, Multiples
  <2>3. j * EntrySize + EntrySize <= PerBlock * EntrySize
    BY <1>0, <1>3, <2>2, Multiples
  <2> QED
    BY <1>0, <1>3, <2>2, <2>3
<1>5. j >= 0
  <2>1. j < 0 => j * EntrySize + EntrySize <= 0 * EntrySize
    BY <1>0, <1>3, Multiples
  <2>2. 0 * EntrySize = 0
    BY <1>0
  <2> QED
    BY <1>0, <1>2, <1>3, <2>1, <2>2
<1>6. r \div EntrySize \in Slots
  <2>1. (j * EntrySize + 0) \div EntrySize = j
    BY <1>0, <1>3, <1>5, DivisionUnique
  <2>2. r \div EntrySize = j
    BY <1>2, <1>3, <2>1
  <2> QED
    BY <1>0, <1>3, <1>4, <1>5, <2>2 DEF Slots
<1>7. BlocksOf(size + EntrySize) = q + 1
  <2>0. q * BlockSize \in Nat /\ (q + 1) * BlockSize = q * BlockSize + BlockSize
    BY <1>0, <1>2
  <2>1. CASE r + EntrySize < BlockSize
    <3> DEFINE n == size + EntrySize
    <3>1. n = q * BlockSize + (r + EntrySize) /\ n \in Nat
      BY <1>0, <1>2, <2>0
    <3>2. n \div BlockSize = q /\ n % BlockSize = r + EntrySize
      BY <1>0, <1>2, <2>1, <3>1, DivisionUnique
    <3>3. BlocksOf(n) = n \div BlockSize + (IF n % BlockSize = 0 THEN 0 ELSE 1)
      BY <3>1, BlocksOfIs
    <3> HIDE DEF n
    <3> QED
      BY <1>0, <1>2, <3>2, <3>3 DEF n
  <2>2. CASE r + EntrySize = BlockSize
    <3>1. size + EntrySize = (q + 1) * BlockSize
      BY <1>0, <1>2, <2>0, <2>2
    <3> QED
      BY <1>2, <3>1, BlocksOfWhole
  <2> QED
    BY <1>0, <1>2, <1>4, <2>1, <2>2
<1>8. (size + EntrySize) % EntrySize = 0
  <2>1. ((m + 1) * EntrySize + 0) % EntrySize = 0
    BY <1>0, <1>1, DivisionUnique
  <2>2. (m + 1) * EntrySize = m * EntrySize + EntrySize /\ m * EntrySize \in Nat
    BY <1>0, <1>1
  <2>3. size + EntrySize = (m + 1) * EntrySize + 0
    BY <1>0, <1>1, <2>2
  <2> QED
    BY <2>1, <2>3
<1>9. q < INODE_DIRECT_BLOCKS => size + EntrySize <= INODE_DIRECT_BLOCKS * BlockSize
  <2>1. q < INODE_DIRECT_BLOCKS => q * BlockSize + BlockSize <= INODE_DIRECT_BLOCKS * BlockSize
    BY <1>0, <1>2, Multiples
  <2>2. q * BlockSize \in Nat /\ INODE_DIRECT_BLOCKS * BlockSize \in Nat
    BY <1>0, <1>2
  <2> QED
    BY <1>0, <1>2, <1>4, <2>1, <2>2
<1>10. ASSUME size # 0
       PROVE  /\ size - EntrySize \in Nat /\ (size - EntrySize) % EntrySize = 0
              /\ BlocksOf(size - EntrySize) <= BlocksOf(size)
  <2>1. m # 0
    BY <1>0, <1>1, <1>10
  <2>2. m - 1 \in Nat /\ (m - 1) * EntrySize = m * EntrySize - EntrySize
        /\ (m - 1) * EntrySize \in Nat /\ m * EntrySize \in Nat
    BY <1>0, <1>1, <2>1
  <2>3. size - EntrySize = (m - 1) * EntrySize + 0 /\ size - EntrySize \in Nat
        /\ size - EntrySize <= size
    BY <1>0, <1>1, <2>2
  <2>4. ((m - 1) * EntrySize + 0) % EntrySize = 0
    BY <1>0, <2>2, DivisionUnique
  <2>5. BlocksOf(size - EntrySize) <= BlocksOf(size)
    BY <2>3, BlocksOfMonotone
  <2> QED
    BY <2>3, <2>4, <2>5
<1> QED
  BY <1>6, <1>7, <1>8, <1>9, <1>10 DEF q, r

\* A text that fits ends in the block it begins in.
LEMMA FileSizes ==
  ASSUME NEW size \in Nat, NEW len \in Nat, size \div BlockSize < INODE_DIRECT_BLOCKS,
         (SizeWithMark(size) % BlockSize) + len <= BlockSize
  PROVE  /\ SizeWithMark(size) + len \in 0 .. INODE_DIRECT_BLOCKS * BlockSize
         /\ BlocksOf(SizeWithMark(size) + len) <= size \div BlockSize + 1
<1> DEFINE q == size \div BlockSize
           r == size % BlockSize
           n == SizeWithMark(size) + len
<1>0. /\ BlockSize \in Nat \ {0, 1} /\ INODE_DIRECT_BLOCKS \in Nat \ {0}
      /\ q \in Nat /\ r \in Nat /\ r < BlockSize /\ size = q * BlockSize + r
      /\ q < INODE_DIRECT_BLOCKS
  BY Constants, ConstantsAssumption, DivisionIs
<1>1. n \in Nat /\ n <= q * BlockSize + BlockSize
  <2>0. q * BlockSize \in Nat
    BY <1>0
  <2>1. CASE size = 0
    <3>1. 1 % BlockSize = 1
      <4>1. (0 * BlockSize + 1) % BlockSize = 1
        BY <1>0, DivisionUnique
      <4>2. 0 * BlockSize + 1 = 1
        BY <1>0
      <4> QED
        BY <4>1, <4>2
    <3>2. SizeWithMark(size) = 1 /\ 1 + len <= BlockSize
      BY <2>1, <3>1 DEF SizeWithMark
    <3> HIDE DEF q
    <3> QED
      BY <1>0, <2>0, <3>2
  <2>2. CASE size # 0
    <3>1. SizeWithMark(size) = size /\ r + len <= BlockSize
      BY <2>2 DEF SizeWithMark
    <3> HIDE DEF q, r
    <3> QED
      BY <1>0, <2>0, <3>1
  <2> QED
    BY <2>1, <2>2
<1> HIDE DEF q, r, n
<1>2. q * BlockSize + BlockSize <= INODE_DIRECT_BLOCKS * BlockSize
  BY <1>0, Multiples
<1>3. q * BlockSize \in Nat /\ INODE_DIRECT_BLOCKS * BlockSize \in Nat
  BY <1>0
<1>4. (q + 1) * BlockSize = q * BlockSize + BlockSize /\ (q + 1) * BlockSize \in Nat
  BY <1>0
<1>5. BlocksOf(n) <= BlocksOf((q + 1) * BlockSize) /\ BlocksOf((q + 1) * BlockSize) = q + 1
  BY <1>0, <1>1, <1>4, BlocksOfMonotone, BlocksOfWhole
<1>6. n \in 0 .. INODE_DIRECT_BLOCKS * BlockSize
  BY <1>0, <1>1, <1>2, <1>3
<1> QED
  BY <1>5, <1>6 DEF n, q
-----------------------------------------------------------------------------
(***************************************************************************)
(* The blocks of an inode are numbered from 0 to the last one its size     *)
(* reaches into.                                                           *)
(***************************************************************************)
Numbers(size) == 0 .. BlocksOf(size) - 1

Sizes == 0 .. INODE_DIRECT_BLOCKS * BlockSize

LEMMA NumbersOfEntries ==
  ASSUME NEW size \in Sizes, size % EntrySize = 0
  PROVE  /\ (size % BlockSize) \div EntrySize \in Slots
         /\ size \div BlockSize < INODE_DIRECT_BLOCKS
              => /\ size + EntrySize \in Sizes /\ (size + EntrySize) % EntrySize = 0
                 /\ Numbers(size + EntrySize) = Numbers(size) \cup {size \div BlockSize}
         /\ size % BlockSize = 0 <=> size \div BlockSize \notin Numbers(size)
         /\ size # 0 => /\ size - EntrySize \in Sizes /\ (size - EntrySize) % EntrySize = 0
                        /\ Numbers(size - EntrySize) \subseteq Numbers(size)
<1> DEFINE q == size \div BlockSize
           r == size % BlockSize
           max == INODE_DIRECT_BLOCKS * BlockSize
<1>1. /\ size \in Nat /\ size <= max /\ max \in Nat /\ EntrySize \in Nat \ {0}
      /\ q \in Nat /\ BlocksOf(size) \in Nat /\ q <= BlocksOf(size) /\ BlocksOf(size) <= q + 1
      /\ r = 0 => BlocksOf(size) = q
      /\ r # 0 => BlocksOf(size) = q + 1
  <2>1. /\ q \in Nat /\ BlocksOf(size) \in Nat /\ q <= BlocksOf(size) /\ BlocksOf(size) <= q + 1
        /\ r = 0 => BlocksOf(size) = q
        /\ r # 0 => BlocksOf(size) = q + 1
    BY BlocksOfBound DEF Sizes
  <2>2. max \in Nat /\ EntrySize \in Nat \ {0}
    BY Constants
  <2> HIDE DEF max, q, r
  <2>3. size \in 0 .. max
    BY DEF Sizes, max
  <2> QED
    BY <2>1, <2>2, <2>3
<1>2. /\ r \div EntrySize \in Slots
      /\ BlocksOf(size + EntrySize) = q + 1
      /\ (size + EntrySize) % EntrySize = 0
      /\ q < INODE_DIRECT_BLOCKS => size + EntrySize <= max
      /\ size # 0 => /\ size - EntrySize \in Nat
                     /\ (size - EntrySize) % EntrySize = 0
                     /\ BlocksOf(size - EntrySize) <= BlocksOf(size)
  BY <1>1, DirectorySizes
<1>3. size # 0 => BlocksOf(size - EntrySize) \in Nat
  BY <1>1, <1>2, BlocksOfMonotone
<1> HIDE DEF q, r, max
<1>4. q < INODE_DIRECT_BLOCKS
        => size + EntrySize \in 0 .. max /\ Numbers(size + EntrySize) = Numbers(size) \cup {q}
  BY <1>1, <1>2 DEF Numbers
<1>5. r = 0 <=> q \notin Numbers(size)
  BY <1>1 DEF Numbers
<1>6. size # 0 => /\ size - EntrySize \in 0 .. max
                  /\ Numbers(size - EntrySize) \subseteq Numbers(size)
  BY <1>1, <1>2, <1>3 DEF Numbers
<1> QED
  BY <1>2, <1>4, <1>5, <1>6 DEF q, r, max, Sizes

LEMMA NumbersOfText ==
  ASSUME NEW size \in Sizes, NEW len \in Nat, size \div BlockSize < INODE_DIRECT_BLOCKS,
         (SizeWithMark(size) % BlockSize) + len <= BlockSize
  PROVE  /\ SizeWithMark(size) + len \in Sizes
         /\ Numbers(SizeWithMark(size) + len) \subseteq Numbers(size) \cup {size \div BlockSize}
         /\ size % BlockSize = 0 <=> size \div BlockSize \notin Numbers(size)
<1> DEFINE q == size \div BlockSize
           r == size % BlockSize
           n == SizeWithMark(size) + len
<1>1. /\ size \in Nat /\ INODE_DIRECT_BLOCKS * BlockSize \in Nat
      /\ q \in Nat /\ BlocksOf(size) \in Nat /\ q <= BlocksOf(size) /\ BlocksOf(size) <= q + 1
      /\ r = 0 => BlocksOf(size) = q
      /\ r # 0 => BlocksOf(size) = q + 1
  BY Constants, BlocksOfBound DEF Sizes
<1>2. n \in Sizes /\ BlocksOf(n) <= q + 1
  BY <1>1, FileSizes DEF Sizes
<1>3. BlocksOf(n) \in Nat
  BY <1>2, BlocksOfBound DEF Sizes
<1> HIDE DEF q, r, n
<1>4. Numbers(n) \subseteq Numbers(size) \cup {q}
  BY <1>1, <1>2, <1>3 DEF Numbers
<1>5. r = 0 <=> q \notin Numbers(size)
  BY <1>1 DEF Numbers
<1> QED
  BY <1>2, <1>4, <1>5 DEF q, r, n

\* What is written past the start of a block belongs to that block.
LEMMA NumbersReached ==
  ASSUME NEW size \in Sizes, NEW len \in Nat, size \div BlockSize < INODE_DIRECT_BLOCKS,
         (SizeWithMark(size) % BlockSize) + len <= BlockSize,
         (SizeWithMark(size) % BlockSize) # 0 \/ len # 0
  PROVE  Numbers(SizeWithMark(size) + len) = Numbers(size) \cup {size \div BlockSize}
<1> DEFINE q == size \div BlockSize
           r == size % BlockSize
           n == SizeWithMark(size) + len
<1>1. /\ BlockSize \in Nat \ {0, 1} /\ INODE_DIRECT_BLOCKS * BlockSize \in Nat /\ size \in Nat
      /\ q \in Nat /\ r \in Nat /\ size = q * BlockSize + r
  <2>1. size \in Nat /\ INODE_DIRECT_BLOCKS * BlockSize \in Nat
    BY Constants DEF Sizes
  <2> QED
    BY <2>1, Constants, ConstantsAssumption, DivisionIs
<1>2. BlocksOf(size) \in Nat /\ q <= BlocksOf(size) /\ BlocksOf(size) <= q + 1
  BY BlocksOfBound DEF Sizes
<1>3. BlocksOf(n) <= q + 1
  BY <1>1, FileSizes
<1>4. n \in Nat /\ q * BlockSize + 1 <= n
  <2>1. CASE size = 0
    <3>1. n = 1 + len /\ q = 0
      <4>1. (0 * BlockSize + 0) \div BlockSize = 0 /\ 0 * BlockSize + 0 = 0
        BY <1>1, DivisionUnique
      <4> QED
        BY <2>1, <4>1 DEF SizeWithMark
    <3> QED
      BY <1>1, <3>1
  <2>2. CASE size # 0
    <3>1. n = size + len /\ (r # 0 \/ len # 0)
      BY <2>2 DEF SizeWithMark
    <3> HIDE DEF n, q, r
    <3>2. q * BlockSize \in Nat
      BY <1>1
    <3> QED
      BY <1>1, <3>1, <3>2
  <2> QED
    BY <2>1, <2>2
<1>5. BlocksOf(q * BlockSize + 1) = q + 1
  <2>0. 1 \in Nat /\ 1 < BlockSize /\ BlockSize \in Nat \ {0} /\ q \in Nat
    BY <1>1
  <2> HIDE DEF q
  <2>1. q * BlockSize + 1 \in Nat
    BY <2>0
  <2>2. (q * BlockSize + 1) \div BlockSize = q /\ (q * BlockSize + 1) % BlockSize = 1
    BY <2>0, DivisionUnique
  <2> QED
    BY <2>0, <2>1, <2>2, BlocksOfIs
<1>6. BlocksOf(n) \in Nat /\ q + 1 <= BlocksOf(n)
  <2>1. q * BlockSize + 1 \in Nat
    BY <1>1
  <2> HIDE DEF q, n
  <2> QED
    BY <1>4, <1>5, <2>1, BlocksOfMonotone
<1> HIDE DEF q, r, n
<1>7. Numbers(n) = Numbers(size) \cup {q}
  BY <1>1, <1>2, <1>3, <1>6 DEF Numbers
<1> QED
  BY <1>7 DEF q, n

LEMMA NumbersBound ==
  /\ 0 \in Sizes /\ 0 % EntrySize = 0 /\ Numbers(0) = {}
  /\ \A size \in Sizes : Numbers(size) \subseteq 0 .. INODE_DIRECT_BLOCKS - 1
  /\ \A size \in Sizes : Numbers(size) # {} => size # 0
  /\ \A size \in Sizes : size \div BlockSize \in Nat
<1>1. BlocksOf(0) = 0 /\ 0 \in Sizes /\ 0 % EntrySize = 0
  <2>1. 0 * BlockSize = 0 /\ INODE_DIRECT_BLOCKS * BlockSize \in Nat
    BY Constants
  <2>2. BlocksOf(0 * BlockSize) = 0
    BY BlocksOfWhole
  <2>3. (0 * EntrySize + 0) % EntrySize = 0 /\ 0 * EntrySize + 0 = 0
    BY Constants, DivisionUnique
  <2> QED
    BY <2>1, <2>2, <2>3 DEF Sizes
<1>2. ASSUME NEW size \in Sizes
      PROVE  /\ Numbers(size) \subseteq 0 .. INODE_DIRECT_BLOCKS - 1
             /\ size \div BlockSize \in Nat
  <2>1. /\ BlocksOf(size) \in Nat /\ BlocksOf(size) <= INODE_DIRECT_BLOCKS
        /\ size \div BlockSize \in Nat
    BY BlocksOfBound DEF Sizes
  <2> QED
    BY <2>1, Constants DEF Numbers
<1>3. Numbers(0) = {}
  BY <1>1 DEF Numbers
<1> QED
  BY <1>1, <1>2, <1>3

\* A place of an entry is the number of a block and a slot in it.
LEMMA PlacesArePairs ==
  ASSUME NEW node, node.Size \in Sizes
  PROVE  /\ Places(node) \subseteq Nat
         /\ \A n \in Places(node) : n \div PerBlock \in Numbers(node.Size) /\ n % PerBlock \in Slots
         /\ \A k \in Numbers(node.Size), s \in Slots :
              k * PerBlock + s \in Places(node)
                /\ (k * PerBlock + s) \div PerBlock = k /\ (k * PerBlock + s) % PerBlock = s
<1> DEFINE blocks == BlocksOf(node.Size)
<1>1. PerBlock \in Nat \ {0} /\ blocks \in Nat
  BY Constants, BlocksOfBound DEF Sizes
<1>2. Places(node) = 0 .. blocks * PerBlock - 1 /\ Numbers(node.Size) = 0 .. blocks - 1
  BY DEF Places, Numbers
<1> HIDE DEF blocks
<1>3. blocks * PerBlock \in Nat
  BY <1>1
<1>4. ASSUME NEW n \in Places(node)
      PROVE  n \div PerBlock \in Numbers(node.Size) /\ n % PerBlock \in Slots
  <2> DEFINE k == n \div PerBlock
             s == n % PerBlock
  <2>1. n \in Nat /\ n < blocks * PerBlock
    BY <1>2, <1>3
  <2>2. k \in Nat /\ s \in Nat /\ s < PerBlock /\ n = k * PerBlock + s
    BY <1>1, <2>1, DivisionIs
  <2> HIDE DEF k, s
  <2>3. k * PerBlock < blocks * PerBlock
    <3>1. k * PerBlock \in Nat
      BY <1>1, <2>2
    <3> QED
      BY <1>3, <2>1, <2>2, <3>1
  <2>4. k < blocks
    BY <1>1, <2>2, <2>3, Multiples
  <2>5. k \in Numbers(node.Size) /\ s \in Slots
    BY <1>1, <1>2, <2>2, <2>4 DEF Slots
  <2> QED
    BY <2>5 DEF k, s
<1>5. ASSUME NEW k \in Numbers(node.Size), NEW s \in Slots
      PROVE  /\ k * PerBlock + s \in Places(node)
             /\ (k * PerBlock + s) \div PerBlock = k /\ (k * PerBlock + s) % PerBlock = s
  <2>1. k \in Nat /\ k < blocks /\ s \in Nat /\ s < PerBlock
    BY <1>1, <1>2 DEF Slots
  <2>2. k * PerBlock + PerBlock <= blocks * PerBlock
    BY <1>1, <2>1, Multiples
  <2>3. k * PerBlock \in Nat
    BY <1>1, <2>1
  <2>4. k * PerBlock + s \in Places(node)
    BY <1>1, <1>2, <1>3, <2>1, <2>2, <2>3
  <2> QED
    BY <1>1, <2>1, <2>4, DivisionUnique
<1>6. Places(node) \subseteq Nat
  BY <1>2, <1>3
<1> QED
  BY <1>4, <1>5, <1>6
-----------------------------------------------------------------------------
(***************************************************************************)
(* What is true of every disk the system can leave.  It is said of all the *)
(* inodes, of those that are not in use too: one that rm -r left keeps its *)
(* blocks and its entries, and may still be the current directory.         *)
(***************************************************************************)
NodeTypes == [Type : {"FT_UNKNOWN", "FT_FILE", "FT_DIRECTORY"},
              Size : Sizes,
              DirectBlock : [0 .. INODE_DIRECT_BLOCKS - 1 -> Blocks \cup {0}]]

\* The entry of a removed file has no name.
EntryTypes == {e \in [InodeID : Inodes \cup {-1}, Name : Names \cup {""}] :
                 e.InodeID = -1 => e.Name = ""}

\* The disks with given texts in their blocks.
DisksWith(text) ==
  [InodeBitMap : SUBSET Inodes, DataBitMap : SUBSET Blocks, Inode : [Inodes -> NodeTypes],
   Data : [Blocks -> [Slots -> EntryTypes]], Text : {text}]

IsDirectory(d, i) == d.Inode[i].Type = "FT_DIRECTORY"

\* The numbers of the blocks of inode i, and what is in a place there.
NumbersAt(d, i) == Numbers(d.Inode[i].Size)
BlockAt(d, i, k) == d.Inode[i].DirectBlock[k]
EntryIn(d, i, k, s) == d.Data[d.Inode[i].DirectBlock[k]][s]

Sound(d) ==
  /\ d \in DisksWith(d.Text)
  /\ \A i \in Inodes : IsDirectory(d, i) => d.Inode[i].Size % EntrySize = 0
  /\ \A i \in Inodes : \A k \in NumbersAt(d, i) : BlockAt(d, i, k) \in d.DataBitMap
  /\ \A i, j \in Inodes : \A k \in NumbersAt(d, i), l \in NumbersAt(d, j) :
       BlockAt(d, i, k) = BlockAt(d, j, l) => i = j /\ k = l
  /\ \A b \in Blocks : b \notin d.DataBitMap => d.Data[b] = Zeros

\* The places in the blocks of directories that hold a name.
HasName(d, i, k, s) ==
  /\ i \in Inodes /\ IsDirectory(d, i) /\ k \in NumbersAt(d, i) /\ s \in Slots
  /\ EntryIn(d, i, k, s).Name \in Names

NamesSound(d) ==
  /\ 0 \in d.InodeBitMap
  /\ \A i \in Inodes, s \in Slots : \A k \in NumbersAt(d, i) :
       HasName(d, i, k, s) => EntryIn(d, i, k, s).InodeID \in d.InodeBitMap \ {0}
  /\ \A i \in Inodes, s, t \in Slots : \A k, l \in NumbersAt(d, i) :
       /\ HasName(d, i, k, s) /\ HasName(d, i, l, t)
       /\ EntryIn(d, i, k, s).Name = EntryIn(d, i, l, t).Name
       => k = l /\ s = t
  /\ \A i, j \in Inodes, s, t \in Slots : \A k \in NumbersAt(d, i), l \in NumbersAt(d, j) :
       /\ HasName(d, i, k, s) /\ HasName(d, j, l, t)
       /\ EntryIn(d, i, k, s).InodeID = EntryIn(d, j, l, t).InodeID
       => i = j /\ k = l /\ s = t

(***************************************************************************)
(* What is true besides as long as nothing is removed: nothing is lost.    *)
(* That a new entry overwrites no other is because no entry is behind the  *)
(* size of its directory.                                                  *)
(***************************************************************************)
InodesNamed(d) ==
  \A id \in d.InodeBitMap \ {0} : \E i \in d.InodeBitMap : \E k, s :
    HasName(d, i, k, s) /\ EntryIn(d, i, k, s).InodeID = id

NamesCounted(d) ==
  \A i, k, s : HasName(d, i, k, s) => k * BlockSize + s * EntrySize < d.Inode[i].Size

BlocksOwned(d) ==
  \A b \in d.DataBitMap : \E i \in d.InodeBitMap : \E k \in NumbersAt(d, i) : BlockAt(d, i, k) = b

Full(d) == InodesNamed(d) /\ NamesCounted(d) /\ BlocksOwned(d)

SoundInv == Sound(disk) /\ currentDirectoryInodeID \in Inodes

NamesInv == SoundInv /\ NamesSound(disk)

LEMMA NodeSizes ==
  ASSUME NEW d, d \in DisksWith(d.Text), NEW i \in Inodes
  PROVE  /\ d.Inode[i] \in NodeTypes
         /\ d.Inode[i].Size \in Sizes
         /\ NumbersAt(d, i) \subseteq 0 .. INODE_DIRECT_BLOCKS - 1
         /\ d.Inode[i].Size \div BlockSize \in Nat
<1>1. d.Inode[i] \in NodeTypes
  BY DEF DisksWith
<1>2. d.Inode[i].Size \in Sizes
  BY <1>1 DEF NodeTypes
<1> QED
  BY <1>1, <1>2, NumbersBound DEF NumbersAt

\* An entry, where there is one, is one of the types.
LEMMA EntryHasType ==
  ASSUME NEW d, Sound(d), NEW i \in Inodes, NEW k \in NumbersAt(d, i), NEW s \in Slots
  PROVE  BlockAt(d, i, k) \in Blocks /\ EntryIn(d, i, k, s) \in EntryTypes
<1>1. d \in DisksWith(d.Text) /\ BlockAt(d, i, k) \in d.DataBitMap
  BY DEF Sound
<1>2. d.DataBitMap \subseteq Blocks /\ d.Data \in [Blocks -> [Slots -> EntryTypes]]
  BY <1>1 DEF DisksWith
<1> QED
  BY <1>1, <1>2 DEF EntryIn, BlockAt

LEMMA FirstIs ==
  ASSUME NEW S \in SUBSET Nat, S # {}
  PROVE  First(S) \in S /\ \A y \in S : First(S) <= y
<1>1. \E x \in S : \A y \in S : x <= y
  BY LeastNatural
<1> QED
  BY <1>1 DEF First

\* Find returns the inode of an entry of that name; 0, when names are sound,
\* only if there is none.
LEMMA FindIs ==
  ASSUME NEW d, Sound(d), NEW i \in Inodes, NEW name, PlacesOf(d, i, name) # {}
  PROVE  /\ IsDirectory(d, i)
         /\ First(PlacesOf(d, i, name)) \in PlacesOf(d, i, name)
         /\ \E k \in NumbersAt(d, i), s \in Slots :
              /\ k = First(PlacesOf(d, i, name)) \div PerBlock
              /\ s = First(PlacesOf(d, i, name)) % PerBlock
              /\ EntryIn(d, i, k, s).Name = name
              /\ EntryIn(d, i, k, s).InodeID = Find(d, i, name)
<1> DEFINE S == PlacesOf(d, i, name)
           n == First(S)
           k == n \div PerBlock
           s == n % PerBlock
<1>1. d.Inode[i].Size \in Sizes
  BY NodeSizes DEF Sound
<1>2. S \subseteq Places(d.Inode[i]) /\ S \subseteq Nat
  BY <1>1, PlacesArePairs DEF PlacesOf
<1>3. n \in S
  BY <1>2, FirstIs
<1>4. IsDirectory(d, i) /\ n \in Places(d.Inode[i]) /\ EntryAt(d, d.Inode[i], n).Name = name
  BY <1>3 DEF PlacesOf, IsDirectory
<1>5. Find(d, i, name) = EntryAt(d, d.Inode[i], n).InodeID
  BY Zenon DEF Find, First
<1>6. k \in NumbersAt(d, i) /\ s \in Slots
  BY <1>1, <1>4, PlacesArePairs DEF NumbersAt
<1>7. EntryAt(d, d.Inode[i], n) = EntryIn(d, i, k, s)
  BY DEF EntryAt, EntryIn, BlockOf
<1> QED
  BY <1>3, <1>4, <1>5, <1>6, <1>7

LEMMA FindHasType ==
  ASSUME NEW d, Sound(d), NEW i \in Inodes, NEW name \in Names
  PROVE  Find(d, i, name) \in Inodes
<1>1. CASE PlacesOf(d, i, name) = {}
  <2>1. Find(d, i, name) = 0
    BY <1>1, Zenon DEF Find
  <2> QED
    BY <2>1, Constants
<1>2. CASE PlacesOf(d, i, name) # {}
  <2>1. PICK k \in NumbersAt(d, i), s \in Slots :
           EntryIn(d, i, k, s).Name = name /\ EntryIn(d, i, k, s).InodeID = Find(d, i, name)
    BY <1>2, FindIs
  <2>2. EntryIn(d, i, k, s) \in EntryTypes
    BY EntryHasType
  <2>3. name # ""
    BY ConstantsAssumption
  <2> QED
    BY <2>1, <2>2, <2>3 DEF EntryTypes
<1> QED
  BY <1>1, <1>2

LEMMA NotFound ==
  ASSUME NEW d, Sound(d), NamesSound(d), NEW i \in Inodes, NEW name \in Names,
         Find(d, i, name) = 0,
         NEW k, NEW s, HasName(d, i, k, s)
  PROVE  EntryIn(d, i, k, s).Name # name
<1> SUFFICES ASSUME EntryIn(d, i, k, s).Name = name PROVE FALSE
  OBVIOUS
<1>1. k \in NumbersAt(d, i) /\ s \in Slots /\ IsDirectory(d, i)
  BY DEF HasName
<1>2. d.Inode[i].Size \in Sizes
  BY NodeSizes DEF Sound
<1> DEFINE n == k * PerBlock + s
<1>3. n \in Places(d.Inode[i]) /\ n \div PerBlock = k /\ n % PerBlock = s
  BY <1>1, <1>2, PlacesArePairs DEF NumbersAt
<1> HIDE DEF n
<1>4. EntryAt(d, d.Inode[i], n) = EntryIn(d, i, k, s)
  BY <1>3 DEF EntryAt, EntryIn, BlockOf
<1>5. n \in PlacesOf(d, i, name)
  BY <1>1, <1>3, <1>4 DEF PlacesOf, IsDirectory
<1>6. PICK l \in NumbersAt(d, i), t \in Slots :
         EntryIn(d, i, l, t).Name = name /\ EntryIn(d, i, l, t).InodeID = 0
  <2>1. PlacesOf(d, i, name) # {}
    BY <1>5
  <2> QED
    BY <2>1, FindIs
<1>7. HasName(d, i, l, t)
  BY <1>1, <1>6 DEF HasName
<1> QED
  BY <1>6, <1>7 DEF NamesSound

\* Every block an inode uses in e was its in d, but for number k of inode i.
OneNewBlock(d, e, i, k, block) ==
  \A j \in Inodes : \A l \in NumbersAt(e, j) :
    \/ /\ l \in NumbersAt(d, j)
       /\ BlockAt(e, j, l) = BlockAt(d, j, l)
       /\ BlockAt(d, j, l) \in e.DataBitMap
    \/ /\ i = j /\ k = l
       /\ BlockAt(e, j, l) = block
       /\ block \notin d.DataBitMap

(***************************************************************************)
(* What keeps a disk sound: every block an inode uses was its before, or   *)
(* was free and is the only new one.                                       *)
(***************************************************************************)
LEMMA StaysSound ==
  ASSUME NEW d, Sound(d), NEW e, e \in DisksWith(e.Text),
         \A i \in Inodes : IsDirectory(e, i) => e.Inode[i].Size % EntrySize = 0,
         \A b \in Blocks : b \notin e.DataBitMap => e.Data[b] = Zeros,
         NEW i, NEW k, NEW block, block \in e.DataBitMap,
         OneNewBlock(d, e, i, k, block)
  PROVE  Sound(e)
<1>1. ASSUME NEW j \in Inodes, NEW l \in NumbersAt(e, j)
      PROVE  BlockAt(e, j, l) \in e.DataBitMap
  BY <1>1 DEF OneNewBlock
<1>2. ASSUME NEW j \in Inodes, NEW l \in NumbersAt(e, j), NEW m \in Inodes,
             NEW n \in NumbersAt(e, m), BlockAt(e, j, l) = BlockAt(e, m, n)
      PROVE  j = m /\ l = n
  <2>1. \A h \in Inodes : \A g \in NumbersAt(d, h) : BlockAt(d, h, g) \in d.DataBitMap
    BY DEF Sound
  <2>2. CASE /\ l \in NumbersAt(d, j) /\ BlockAt(e, j, l) = BlockAt(d, j, l)
             /\ n \in NumbersAt(d, m) /\ BlockAt(e, m, n) = BlockAt(d, m, n)
    <3>1. BlockAt(d, j, l) = BlockAt(d, m, n)
      BY <1>2, <2>2
    <3>2. \A h, o \in Inodes : \A f \in NumbersAt(d, h), g \in NumbersAt(d, o) :
             BlockAt(d, h, f) = BlockAt(d, o, g) => h = o /\ f = g
      BY DEF Sound
    <3> QED
      BY <2>2, <3>1, <3>2
  <2> QED
    BY <1>2, <2>1, <2>2 DEF OneNewBlock
<1> QED
  BY <1>1, <1>2 DEF Sound

(***************************************************************************)
(* What keeps names sound: every name was there before, for an inode that  *)
(* is still in use, or is the only new one, new in its directory, for an   *)
(* inode that had none.                                                    *)
(***************************************************************************)
LEMMA NamesStaySound ==
  ASSUME NEW d, NamesSound(d), NEW e, 0 \in e.InodeBitMap,
         NEW i, NEW k, NEW s, NEW id, NEW name,
         \A j \in Inodes : \A l \in NumbersAt(e, j), t \in Slots : HasName(e, j, l, t) =>
           \/ /\ HasName(d, j, l, t)
              /\ EntryIn(e, j, l, t) = EntryIn(d, j, l, t)
              /\ EntryIn(d, j, l, t).InodeID \in e.InodeBitMap
           \/ /\ i = j /\ k = l /\ s = t
              /\ EntryIn(e, j, l, t).InodeID = id
              /\ EntryIn(e, j, l, t).Name = name
              /\ id \in e.InodeBitMap \ {0}
              /\ \A h \in Inodes : \A m \in NumbersAt(d, h), u \in Slots :
                   HasName(d, h, m, u) => EntryIn(d, h, m, u).InodeID # id
              /\ \A m \in NumbersAt(d, i), u \in Slots :
                   HasName(d, i, m, u) => EntryIn(d, i, m, u).Name # name
  PROVE  NamesSound(e)
<1> DEFINE Old(j, l, t) == /\ HasName(d, j, l, t)
                           /\ EntryIn(e, j, l, t) = EntryIn(d, j, l, t)
                           /\ EntryIn(d, j, l, t).InodeID \in e.InodeBitMap
           New(j, l, t) == /\ i = j /\ k = l /\ s = t
                           /\ EntryIn(e, j, l, t).InodeID = id
                           /\ EntryIn(e, j, l, t).Name = name
                           /\ id \in e.InodeBitMap \ {0}
           Fresh == /\ \A h \in Inodes : \A m \in NumbersAt(d, h), u \in Slots :
                         HasName(d, h, m, u) => EntryIn(d, h, m, u).InodeID # id
                    /\ \A m \in NumbersAt(d, i), u \in Slots :
                         HasName(d, i, m, u) => EntryIn(d, i, m, u).Name # name
<1>1. \A j \in Inodes : \A l \in NumbersAt(e, j), t \in Slots :
         HasName(e, j, l, t) => Old(j, l, t) \/ (New(j, l, t) /\ Fresh)
  OBVIOUS
<1>2. \A j, l, t : Old(j, l, t) => /\ j \in Inodes /\ l \in NumbersAt(d, j) /\ t \in Slots
                                   /\ HasName(d, j, l, t)
                                   /\ EntryIn(e, j, l, t) = EntryIn(d, j, l, t)
                                   /\ EntryIn(d, j, l, t).InodeID \in e.InodeBitMap
                                   /\ EntryIn(d, j, l, t).InodeID # 0
  BY DEF HasName, NamesSound
<1>3. \A j, l, t : New(j, l, t) => /\ i = j /\ k = l /\ s = t
                                   /\ EntryIn(e, j, l, t).InodeID = id
                                   /\ EntryIn(e, j, l, t).Name = name
                                   /\ id \in e.InodeBitMap \ {0}
  OBVIOUS
<1>4. Fresh => /\ \A h \in Inodes : \A m \in NumbersAt(d, h), u \in Slots :
                    HasName(d, h, m, u) => EntryIn(d, h, m, u).InodeID # id
               /\ \A m \in NumbersAt(d, i), u \in Slots :
                    HasName(d, i, m, u) => EntryIn(d, i, m, u).Name # name
  OBVIOUS
<1> HIDE DEF Old, New, Fresh
<1>5. ASSUME NEW j \in Inodes, NEW l \in NumbersAt(e, j), NEW t \in Slots, HasName(e, j, l, t)
      PROVE  EntryIn(e, j, l, t).InodeID \in e.InodeBitMap \ {0}
  BY <1>1, <1>2, <1>3, <1>5
<1>6. ASSUME NEW j \in Inodes, NEW l \in NumbersAt(e, j), NEW t \in Slots, HasName(e, j, l, t),
             NEW m \in NumbersAt(e, j), NEW u \in Slots, HasName(e, j, m, u),
             EntryIn(e, j, l, t).Name = EntryIn(e, j, m, u).Name
      PROVE  l = m /\ t = u
  <2>1. CASE Old(j, l, t) /\ Old(j, m, u)
    BY <1>2, <1>6, <2>1 DEF NamesSound
  <2>2. CASE Old(j, l, t) /\ New(j, m, u) /\ Fresh
    BY <1>2, <1>3, <1>4, <1>6, <2>2
  <2>3. CASE New(j, l, t) /\ Fresh /\ Old(j, m, u)
    BY <1>2, <1>3, <1>4, <1>6, <2>3
  <2>4. CASE New(j, l, t) /\ New(j, m, u)
    BY <1>3, <2>4
  <2> QED
    BY <1>1, <1>6, <2>1, <2>2, <2>3, <2>4
<1>7. ASSUME NEW j \in Inodes, NEW l \in NumbersAt(e, j), NEW t \in Slots, HasName(e, j, l, t),
             NEW h \in Inodes, NEW m \in NumbersAt(e, h), NEW u \in Slots, HasName(e, h, m, u),
             EntryIn(e, j, l, t).InodeID = EntryIn(e, h, m, u).InodeID
      PROVE  j = h /\ l = m /\ t = u
  <2>1. CASE Old(j, l, t) /\ Old(h, m, u)
    BY <1>2, <1>7, <2>1 DEF NamesSound
  <2>2. CASE Old(j, l, t) /\ New(h, m, u) /\ Fresh
    BY <1>2, <1>3, <1>4, <1>7, <2>2
  <2>3. CASE New(j, l, t) /\ Fresh /\ Old(h, m, u)
    BY <1>2, <1>3, <1>4, <1>7, <2>3
  <2>4. CASE New(j, l, t) /\ New(h, m, u)
    BY <1>3, <2>4
  <2> QED
    BY <1>1, <1>7, <2>1, <2>2, <2>3, <2>4
<1> QED
  BY <1>5, <1>6, <1>7 DEF NamesSound
-----------------------------------------------------------------------------
(***************************************************************************)
(* CreateFile, and the disks its writes leave one after the other.         *)
(***************************************************************************)
IsOutcome(o) == o = [disk |-> o.disk, id |-> o.id, panic |-> o.panic, torn |-> o.torn]

LEMMA OutcomeIs ==
  ASSUME NEW o, NEW torn, NEW d, NEW id, NEW message, o = Outcome(torn, d, id, message)
  PROVE  /\ o.disk = d /\ o.id = id /\ o.panic = message /\ o.torn \subseteq torn
         /\ IsOutcome(o)
BY DEF Outcome, IsOutcome

BlockTaken(d, block) == [d EXCEPT !.DataBitMap = @ \cup {block}]

InodeTaken(d, block, id) == [BlockTaken(d, block) EXCEPT !.InodeBitMap = @ \cup {id}]

SlotOf(d, i) == (d.Inode[i].Size % BlockSize) \div EntrySize

NumberOf(d, i) == d.Inode[i].Size \div BlockSize

NameWritten(d, i, block, id, name) ==
  [InodeTaken(d, block, id) EXCEPT !.Data[block][SlotOf(d, i)] = Entry(id, name)]

InodeMade(d, i, block, id, name, type) ==
  [NameWritten(d, i, block, id, name) EXCEPT !.Inode[id] = newEmptyDiskInode(type)]

LargerNode(d, i, block) ==
  [d.Inode[i] EXCEPT !.DirectBlock[NumberOf(d, i)] = block, !.Size = @ + EntrySize]

EntryAdded(d, i, block, id, name, type) ==
  [InodeMade(d, i, block, id, name, type) EXCEPT !.Inode[i] = LargerNode(d, i, block)]

LEMMA AddEntryIs ==
  ASSUME NEW d, NEW i, NEW block, NEW id, NEW name, NEW type,
         NEW o, o = AddEntry(d, i, block, id, name, type)
  PROVE  /\ o.disk = EntryAdded(d, i, block, id, name, type)
         /\ o.id = id /\ o.panic = "none" /\ IsOutcome(o)
         /\ o.torn \subseteq {BlockTaken(d, block), InodeTaken(d, block, id),
                              NameWritten(d, i, block, id, name),
                              InodeMade(d, i, block, id, name, type)}
<1>1. o = Outcome({BlockTaken(d, block), InodeTaken(d, block, id),
                   NameWritten(d, i, block, id, name),
                   InodeMade(d, i, block, id, name, type)},
                  EntryAdded(d, i, block, id, name, type), id, "none")
  BY Zenon DEF AddEntry, BlockTaken, InodeTaken, NameWritten, InodeMade, EntryAdded, LargerNode,
               SlotOf, NumberOf
<1> QED
  BY <1>1, OutcomeIs

\* Where the new entry goes, and the inode it is for.
CanAdd(d, i, block, id) ==
  /\ IsDirectory(d, i) /\ NumberOf(d, i) < INODE_DIRECT_BLOCKS
  /\ NeedsBlock(d, i) => block \in Blocks /\ block \notin d.DataBitMap
  /\ ~NeedsBlock(d, i) => block = BlockAt(d, i, NumberOf(d, i))
  /\ id \in Inodes /\ id \notin d.InodeBitMap

LEMMA CreateFileIs ==
  ASSUME NEW d, Sound(d), NEW i \in Inodes, NEW name, NEW type
  PROVE  LET o == CreateFile(d, i, name, type)
         IN  \/ o.disk = d /\ o.id = -1 /\ o.torn = {} /\ IsOutcome(o)
             \/ \E block : /\ o.disk = BlockTaken(d, block) /\ o.id = -1 /\ o.torn = {}
                           /\ o.panic # "none" /\ IsOutcome(o)
                           /\ block \in Blocks
             \/ \E block, id : /\ CanAdd(d, i, block, id) /\ Find(d, i, name) = 0
                               /\ o = AddEntry(d, i, block, id, name, type)
<1> DEFINE o == CreateFile(d, i, name, type)
           size == d.Inode[i].Size
           block == IF NeedsBlock(d, i) THEN First(Blocks \ d.DataBitMap)
                                        ELSE d.Inode[i].DirectBlock[size \div BlockSize]
           id == First(Inodes \ d.InodeBitMap)
<1>0. /\ d.DataBitMap \subseteq Blocks /\ d.InodeBitMap \subseteq Inodes
      /\ size \in Sizes /\ Blocks \subseteq Nat /\ Inodes \subseteq Nat
      /\ IsDirectory(d, i) => size % EntrySize = 0
  BY NodeSizes, Constants DEF Sound, DisksWith, Blocks
<1>1. CASE d.Inode[i].Type # "FT_DIRECTORY"
  <2>1. \E m : o = Outcome({}, d, -1, m)
    BY <1>1, Zenon DEF CreateFile
  <2> HIDE DEF o
  <2>2. o.disk = d /\ o.id = -1 /\ o.torn \subseteq {} /\ IsOutcome(o)
    BY <2>1, OutcomeIs
  <2> QED
    BY <2>2 DEF o
<1>2. CASE d.Inode[i].Type = "FT_DIRECTORY" /\ Find(d, i, name) # 0
  <2>1. \E m : o = Outcome({}, d, -1, m)
    BY <1>2, Zenon DEF CreateFile
  <2> HIDE DEF o
  <2>2. o.disk = d /\ o.id = -1 /\ o.torn \subseteq {} /\ IsOutcome(o)
    BY <2>1, OutcomeIs
  <2> QED
    BY <2>2 DEF o
<1>3. CASE d.Inode[i].Type = "FT_DIRECTORY" /\ Find(d, i, name) = 0
  <2>1. CASE size \div BlockSize >= INODE_DIRECT_BLOCKS
    <3>1. \E m : o = Outcome({}, d, -1, m)
      BY <1>3, <2>1, Zenon DEF CreateFile
    <3> HIDE DEF o
    <3>2. o.disk = d /\ o.id = -1 /\ o.torn \subseteq {} /\ IsOutcome(o)
      BY <3>1, OutcomeIs
    <3> QED
      BY <3>2 DEF o
  <2>2. CASE ~(size \div BlockSize >= INODE_DIRECT_BLOCKS)
             /\ NeedsBlock(d, i) /\ d.DataBitMap = Blocks
    <3>1. \E m : o = Outcome({}, d, -1, m)
      BY <1>3, <2>2, Zenon DEF CreateFile
    <3> HIDE DEF o
    <3>2. o.disk = d /\ o.id = -1 /\ o.torn \subseteq {} /\ IsOutcome(o)
      BY <3>1, OutcomeIs
    <3> QED
      BY <3>2 DEF o
  <2>3. CASE ~(size \div BlockSize >= INODE_DIRECT_BLOCKS)
             /\ ~(NeedsBlock(d, i) /\ d.DataBitMap = Blocks)
    <3>1. /\ NeedsBlock(d, i) => block \in Blocks /\ block \notin d.DataBitMap
          /\ ~NeedsBlock(d, i) => block = BlockAt(d, i, NumberOf(d, i)) /\ block \in Blocks
      <4>1. CASE NeedsBlock(d, i)
        <5>1. Blocks \ d.DataBitMap # {} /\ Blocks \ d.DataBitMap \subseteq Nat
          BY <1>0, <2>3, <4>1
        <5>2. block = First(Blocks \ d.DataBitMap)
          BY <4>1
        <5>3. First(Blocks \ d.DataBitMap) \in Blocks \ d.DataBitMap
          BY <5>1, FirstIs
        <5> QED
          BY <4>1, <5>2, <5>3
      <4>2. CASE ~NeedsBlock(d, i)
        <5>1. block = BlockAt(d, i, NumberOf(d, i))
          BY <4>2, Zenon DEF BlockAt, NumberOf
        <5>2. NumberOf(d, i) \in NumbersAt(d, i)
          BY <1>0, <1>3, <4>2, NumbersOfEntries
            DEF NumberOf, NumbersAt, NeedsBlock, IsDirectory
        <5>3. BlockAt(d, i, NumberOf(d, i)) \in d.DataBitMap
          BY <5>2 DEF Sound
        <5> QED
          BY <1>0, <4>2, <5>1, <5>3
      <4> QED
        BY <4>1, <4>2
    <3>2. CASE d.InodeBitMap = Inodes
      <4>1. \E m : m # "none" /\ o = Outcome({}, BlockTaken(d, block), -1, m)
        BY <1>3, <2>3, <3>2, Zenon DEF CreateFile, BlockTaken
      <4> HIDE DEF o, block
      <4>2. PICK m : m # "none" /\ o = Outcome({}, BlockTaken(d, block), -1, m)
        BY <4>1
      <4>3. o.disk = BlockTaken(d, block) /\ o.id = -1 /\ o.torn \subseteq {} /\ o.panic = m
           /\ IsOutcome(o)
        BY <4>2, OutcomeIs
      <4> QED
        BY <3>1, <4>2, <4>3 DEF o
    <3>3. CASE d.InodeBitMap # Inodes
      <4>1. o = AddEntry(d, i, block, id, name, type)
        BY <1>3, <2>3, <3>3, Zenon DEF CreateFile
      <4>2. id \in Inodes \ d.InodeBitMap
        <5>1. Inodes \ d.InodeBitMap # {} /\ Inodes \ d.InodeBitMap \subseteq Nat
          BY <1>0, <3>3
        <5> QED
          BY <5>1, FirstIs
      <4>3. NumberOf(d, i) < INODE_DIRECT_BLOCKS
        <5>1. NumberOf(d, i) \in Nat /\ ~(NumberOf(d, i) >= INODE_DIRECT_BLOCKS)
          BY <1>0, <2>3, NumbersBound DEF NumberOf
        <5> QED
          BY <5>1, Constants
      <4> HIDE DEF o, block, id
      <4>4. CanAdd(d, i, block, id)
        BY <1>3, <3>1, <4>2, <4>3 DEF CanAdd, IsDirectory
      <4> QED
        BY <1>3, <4>1, <4>4, Zenon DEF o
    <3> QED
      BY <3>2, <3>3
  <2> QED
    BY <2>1, <2>2, <2>3, Zenon
<1> QED
  BY <1>1, <1>2, <1>3, Zenon
\* The fields of a disk.
FieldsAre(e, text, inodeBits, dataBits, inode, data) ==
  /\ e.InodeBitMap = inodeBits /\ e.DataBitMap = dataBits /\ e.Inode = inode /\ e.Data = data
  /\ e.Text = text /\ e \in DisksWith(text)

LEMMA FieldsOf ==
  ASSUME NEW text, NEW d, d \in DisksWith(text),
         NEW S \in SUBSET Inodes, NEW T \in SUBSET Blocks,
         NEW inode \in [Inodes -> NodeTypes], NEW data \in [Blocks -> [Slots -> EntryTypes]]
  PROVE  /\ FieldsAre(d, text, d.InodeBitMap, d.DataBitMap, d.Inode, d.Data)
         /\ FieldsAre([d EXCEPT !.InodeBitMap = S], text, S, d.DataBitMap, d.Inode, d.Data)
         /\ FieldsAre([d EXCEPT !.DataBitMap = T], text, d.InodeBitMap, T, d.Inode, d.Data)
         /\ FieldsAre([d EXCEPT !.Inode = inode], text, d.InodeBitMap, d.DataBitMap, inode, d.Data)
         /\ FieldsAre([d EXCEPT !.Data = data], text, d.InodeBitMap, d.DataBitMap, d.Inode, data)
BY DEF FieldsAre, DisksWith

LEMMA EmptyNode ==
  ASSUME NEW type \in {"FT_UNKNOWN", "FT_FILE", "FT_DIRECTORY"}
  PROVE  /\ newEmptyDiskInode(type) \in NodeTypes
         /\ newEmptyDiskInode(type).Size = 0
         /\ newEmptyDiskInode(type).Type = type
BY NumbersBound DEF newEmptyDiskInode, NodeTypes

LEMMA CanAddIs ==
  ASSUME NEW d, Sound(d), NEW i \in Inodes, NEW block, NEW id, CanAdd(d, i, block, id)
  PROVE  /\ block \in Blocks /\ SlotOf(d, i) \in Slots
         /\ NumberOf(d, i) \in 0 .. INODE_DIRECT_BLOCKS - 1
         /\ LargerNode(d, i, block) \in NodeTypes
         /\ LargerNode(d, i, block).Size % EntrySize = 0
         /\ LargerNode(d, i, block).Type = "FT_DIRECTORY"
         /\ Numbers(LargerNode(d, i, block).Size) = NumbersAt(d, i) \cup {NumberOf(d, i)}
         /\ LargerNode(d, i, block).DirectBlock[NumberOf(d, i)] = block
         /\ \A k \in 0 .. INODE_DIRECT_BLOCKS - 1 :
              k # NumberOf(d, i) => LargerNode(d, i, block).DirectBlock[k] = BlockAt(d, i, k)
         /\ NeedsBlock(d, i) => /\ NumberOf(d, i) \notin NumbersAt(d, i)
                                /\ block \notin d.DataBitMap
         /\ ~NeedsBlock(d, i) => /\ NumberOf(d, i) \in NumbersAt(d, i)
                                 /\ block = BlockAt(d, i, NumberOf(d, i))
<1> DEFINE size == d.Inode[i].Size
           q == NumberOf(d, i)
           node == LargerNode(d, i, block)
<1>1. /\ d.Inode[i] \in NodeTypes /\ size \in Sizes /\ NumberOf(d, i) \in Nat
      /\ d.Inode[i].Type = "FT_DIRECTORY" /\ d.DataBitMap \subseteq Blocks
      /\ q \in Nat /\ q < INODE_DIRECT_BLOCKS
  BY NodeSizes DEF Sound, CanAdd, DisksWith, IsDirectory, NumberOf
<1>2. size % EntrySize = 0
  BY DEF Sound, CanAdd
<1>3. /\ SlotOf(d, i) \in Slots
      /\ size + EntrySize \in Sizes /\ (size + EntrySize) % EntrySize = 0
      /\ Numbers(size + EntrySize) = NumbersAt(d, i) \cup {q}
      /\ NeedsBlock(d, i) <=> q \notin NumbersAt(d, i)
  BY <1>1, <1>2, NumbersOfEntries DEF SlotOf, NumberOf, NeedsBlock, NumbersAt
<1>4. block \in Blocks
  <2>1. CASE ~NeedsBlock(d, i)
    <3>1. q \in NumbersAt(d, i) /\ block = BlockAt(d, i, q)
      BY <1>3, <2>1 DEF CanAdd
    <3>2. BlockAt(d, i, q) \in d.DataBitMap
      BY <3>1 DEF Sound
    <3> QED
      BY <1>1, <3>1, <3>2
  <2> QED
    BY <2>1 DEF CanAdd
<1>5. q \in 0 .. INODE_DIRECT_BLOCKS - 1
  BY <1>1, Constants
<1> HIDE DEF q
<1>6. node = [d.Inode[i] EXCEPT !.DirectBlock = [@ EXCEPT ![q] = block], !.Size = @ + EntrySize]
  BY Zenon DEF LargerNode, q
<1> HIDE DEF node
<1>7. /\ node.Size = size + EntrySize
      /\ node.Type = "FT_DIRECTORY"
      /\ node.DirectBlock = [d.Inode[i].DirectBlock EXCEPT ![q] = block]
      /\ node \in NodeTypes
  BY <1>1, <1>3, <1>4, <1>5, <1>6 DEF NodeTypes
<1>8. d.Inode[i].DirectBlock \in [0 .. INODE_DIRECT_BLOCKS - 1 -> Blocks \cup {0}]
  BY <1>1 DEF NodeTypes
<1>9. /\ node.DirectBlock[q] = block
      /\ \A k \in 0 .. INODE_DIRECT_BLOCKS - 1 : k # q => node.DirectBlock[k] = BlockAt(d, i, k)
  BY <1>5, <1>7, <1>8 DEF BlockAt
<1> QED
  BY <1>3, <1>4, <1>5, <1>7, <1>9 DEF CanAdd, node, q

DataWritten(d, i, block, id, name) ==
  [d.Data EXCEPT ![block] = [@ EXCEPT ![SlotOf(d, i)] = Entry(id, name)]]

InodesMade(d, id, type) == [d.Inode EXCEPT ![id] = newEmptyDiskInode(type)]

InodesLarger(d, i, block, id, type) ==
  [InodesMade(d, id, type) EXCEPT ![i] = LargerNode(d, i, block)]

LEMMA AddEntryFields ==
  ASSUME NEW d, Sound(d), NEW i \in Inodes, NEW block, NEW id, CanAdd(d, i, block, id),
         NEW name \in Names, NEW type \in {"FT_UNKNOWN", "FT_FILE", "FT_DIRECTORY"},
         NEW e \in {BlockTaken(d, block), InodeTaken(d, block, id),
                    NameWritten(d, i, block, id, name),
                    InodeMade(d, i, block, id, name, type),
                    EntryAdded(d, i, block, id, name, type)}
  PROVE  LET dataBits == d.DataBitMap \cup {block}
             inodeBits == d.InodeBitMap \cup {id}
             data == DataWritten(d, i, block, id, name)
             larger == InodesLarger(d, i, block, id, type)
         IN  /\ \/ FieldsAre(e, d.Text, d.InodeBitMap, dataBits, d.Inode, d.Data)
                \/ FieldsAre(e, d.Text, inodeBits, dataBits, d.Inode, d.Data)
                \/ FieldsAre(e, d.Text, inodeBits, dataBits, d.Inode, data)
                \/ FieldsAre(e, d.Text, inodeBits, dataBits, InodesMade(d, id, type), data)
                \/ FieldsAre(e, d.Text, inodeBits, dataBits, larger, data)
             /\ e = EntryAdded(d, i, block, id, name, type) =>
                  FieldsAre(e, d.Text, inodeBits, dataBits, larger, data)
<1> DEFINE dataBits == d.DataBitMap \cup {block}
           inodeBits == d.InodeBitMap \cup {id}
           data == DataWritten(d, i, block, id, name)
           inode == InodesMade(d, id, type)
           larger == InodesLarger(d, i, block, id, type)
           e1 == BlockTaken(d, block)
           e2 == InodeTaken(d, block, id)
           e3 == NameWritten(d, i, block, id, name)
           e4 == InodeMade(d, i, block, id, name, type)
           e5 == EntryAdded(d, i, block, id, name, type)
<1>1. /\ d \in DisksWith(d.Text) /\ block \in Blocks /\ id \in Inodes /\ SlotOf(d, i) \in Slots
      /\ LargerNode(d, i, block) \in NodeTypes
  BY CanAddIs DEF Sound, CanAdd
<1>2. /\ d.InodeBitMap \in SUBSET Inodes /\ d.DataBitMap \in SUBSET Blocks
      /\ d.Inode \in [Inodes -> NodeTypes] /\ d.Data \in [Blocks -> [Slots -> EntryTypes]]
  BY <1>1 DEF DisksWith
<1>3. Entry(id, name) \in EntryTypes
  <2>1. id # -1
    BY <1>1, Constants
  <2>2. /\ Entry(id, name) \in [InodeID : Inodes \cup {-1}, Name : Names \cup {""}]
        /\ Entry(id, name).InodeID = id
    BY <1>1 DEF Entry
  <2> QED
    BY <2>1, <2>2 DEF EntryTypes
<1>4. dataBits \in SUBSET Blocks /\ inodeBits \in SUBSET Inodes
  BY <1>1, <1>2
<1>5. data \in [Blocks -> [Slots -> EntryTypes]]
  BY <1>1, <1>2, <1>3 DEF DataWritten
<1>6. inode \in [Inodes -> NodeTypes]
  BY <1>1, <1>2, EmptyNode DEF InodesMade
<1>7. larger \in [Inodes -> NodeTypes]
  <2>1. larger = [inode EXCEPT ![i] = LargerNode(d, i, block)]
    BY Zenon DEF InodesLarger
  <2> HIDE DEF inode, larger
  <2> QED
    BY <1>1, <1>6, <2>1
<1>8. /\ e1 = [d EXCEPT !.DataBitMap = dataBits]
      /\ e2 = [e1 EXCEPT !.InodeBitMap = e1.InodeBitMap \cup {id}]
      /\ e3 = [e2 EXCEPT !.Data = [e2.Data EXCEPT
                 ![block] = [@ EXCEPT ![SlotOf(d, i)] = Entry(id, name)]]]
      /\ e4 = [e3 EXCEPT !.Inode = [e3.Inode EXCEPT ![id] = newEmptyDiskInode(type)]]
      /\ e5 = [e4 EXCEPT !.Inode = [e4.Inode EXCEPT ![i] = LargerNode(d, i, block)]]
  BY Zenon DEF BlockTaken, InodeTaken, NameWritten, InodeMade, EntryAdded
<1> HIDE DEF dataBits, e1, e2, e3, e4, e5
<1>9. FieldsAre(e1, d.Text, d.InodeBitMap, dataBits, d.Inode, d.Data)
  BY <1>1, <1>2, <1>4, <1>8, FieldsOf
<1>10. FieldsAre(e2, d.Text, inodeBits, dataBits, d.Inode, d.Data)
  <2>1. /\ e1.InodeBitMap = d.InodeBitMap /\ e1.DataBitMap = dataBits /\ e1.Inode = d.Inode
        /\ e1.Data = d.Data /\ e1 \in DisksWith(d.Text)
    BY <1>9 DEF FieldsAre
  <2> HIDE DEF inodeBits
  <2>2. e2 = [e1 EXCEPT !.InodeBitMap = inodeBits]
    BY <1>8, <2>1 DEF inodeBits
  <2> QED
    BY <1>4, <2>1, <2>2 DEF FieldsAre, DisksWith
<1> HIDE DEF inodeBits
<1>11. FieldsAre(e3, d.Text, inodeBits, dataBits, d.Inode, data)
  <2>1. /\ e2.InodeBitMap = inodeBits /\ e2.DataBitMap = dataBits /\ e2.Inode = d.Inode
        /\ e2.Data = d.Data /\ e2 \in DisksWith(d.Text)
    BY <1>10 DEF FieldsAre
  <2>2. e3 = [e2 EXCEPT !.Data = data]
    BY <1>8, <2>1 DEF DataWritten
  <2> HIDE DEF data
  <2> QED
    BY <1>5, <2>1, <2>2 DEF FieldsAre, DisksWith
<1> HIDE DEF data
<1>12. FieldsAre(e4, d.Text, inodeBits, dataBits, inode, data)
  <2>1. /\ e3.InodeBitMap = inodeBits /\ e3.DataBitMap = dataBits /\ e3.Inode = d.Inode
        /\ e3.Data = data /\ e3 \in DisksWith(d.Text)
    BY <1>11 DEF FieldsAre
  <2>2. e4 = [e3 EXCEPT !.Inode = inode]
    BY <1>8, <2>1 DEF InodesMade
  <2> HIDE DEF inode
  <2> QED
    BY <1>6, <2>1, <2>2 DEF FieldsAre, DisksWith
<1> HIDE DEF inode
<1>13. FieldsAre(e5, d.Text, inodeBits, dataBits, larger, data)
  <2>1. /\ e4.InodeBitMap = inodeBits /\ e4.DataBitMap = dataBits /\ e4.Inode = inode
        /\ e4.Data = data /\ e4 \in DisksWith(d.Text)
    BY <1>12 DEF FieldsAre
  <2>2. e5 = [e4 EXCEPT !.Inode = larger]
    BY <1>8, <2>1 DEF InodesLarger, inode, larger
  <2> HIDE DEF larger
  <2> QED
    BY <1>7, <2>1, <2>2 DEF FieldsAre, DisksWith
<1>14. e = e1 \/ e = e2 \/ e = e3 \/ e = e4 \/ e = e5
  BY Zenon DEF e1, e2, e3, e4, e5
<1>15. \/ FieldsAre(e, d.Text, d.InodeBitMap, dataBits, d.Inode, d.Data)
       \/ FieldsAre(e, d.Text, inodeBits, dataBits, d.Inode, d.Data)
       \/ FieldsAre(e, d.Text, inodeBits, dataBits, d.Inode, data)
       \/ FieldsAre(e, d.Text, inodeBits, dataBits, inode, data)
       \/ FieldsAre(e, d.Text, inodeBits, dataBits, larger, data)
  BY <1>9, <1>10, <1>11, <1>12, <1>13, <1>14
<1>16. e = e5 => FieldsAre(e, d.Text, inodeBits, dataBits, larger, data)
  BY <1>13, Zenon
<1> QED
  BY <1>15, <1>16, Zenon DEF dataBits, inodeBits, data, inode, larger, e5

\* What is in the block of the new entry, whether it is linked or not.
LEMMA WrittenIs ==
  ASSUME NEW d, Sound(d), NEW i \in Inodes, NEW block, NEW id, CanAdd(d, i, block, id),
         NEW name \in Names
  PROVE  /\ DataWritten(d, i, block, id, name)[block][SlotOf(d, i)] = Entry(id, name)
         /\ \A t \in Slots : t # SlotOf(d, i) => DataWritten(d, i, block, id, name)[block][t] = d.Data[block][t]
         /\ \A b \in Blocks : b # block => DataWritten(d, i, block, id, name)[b] = d.Data[b]
<1>1. block \in Blocks /\ SlotOf(d, i) \in Slots
  BY CanAddIs
<1>2. d.Data \in [Blocks -> [Slots -> EntryTypes]]
  BY DEF Sound, DisksWith
<1> QED
  BY <1>1, <1>2 DEF DataWritten

LEMMA AddEntrySound ==
  ASSUME NEW d, Sound(d), NEW i \in Inodes, NEW block, NEW id, CanAdd(d, i, block, id),
         NEW name \in Names, NEW type \in {"FT_UNKNOWN", "FT_FILE", "FT_DIRECTORY"},
         NEW e \in {BlockTaken(d, block), InodeTaken(d, block, id),
                    NameWritten(d, i, block, id, name),
                    InodeMade(d, i, block, id, name, type),
                    EntryAdded(d, i, block, id, name, type)}
  PROVE  Sound(e) /\ e.Text = d.Text
<1> DEFINE data == DataWritten(d, i, block, id, name)
           made == InodesMade(d, id, type)
           larger == InodesLarger(d, i, block, id, type)
           dataBits == d.DataBitMap \cup {block}
           inodeBits == d.InodeBitMap \cup {id}
<1>1. /\ e \in DisksWith(d.Text) /\ e.Text = d.Text
      /\ e.DataBitMap = d.DataBitMap \cup {block}
      /\ e.Data = d.Data \/ e.Data = data
      /\ e.Inode = d.Inode \/ e.Inode = made \/ e.Inode = larger
  <2>1. \/ FieldsAre(e, d.Text, d.InodeBitMap, dataBits, d.Inode, d.Data)
        \/ FieldsAre(e, d.Text, inodeBits, dataBits, d.Inode, d.Data)
        \/ FieldsAre(e, d.Text, inodeBits, dataBits, d.Inode, data)
        \/ FieldsAre(e, d.Text, inodeBits, dataBits, made, data)
        \/ FieldsAre(e, d.Text, inodeBits, dataBits, larger, data)
    BY AddEntryFields, Zenon
  <2> HIDE DEF data, made, larger
  <2> QED
    BY <2>1 DEF FieldsAre
<1>2. /\ block \in Blocks /\ id \in Inodes /\ d.Inode \in [Inodes -> NodeTypes]
  BY CanAddIs DEF Sound, CanAdd, DisksWith
<1>3. \A b \in Blocks : b # block => data[b] = d.Data[b]
  BY WrittenIs
<1>4. ASSUME NEW b \in Blocks, b \notin e.DataBitMap PROVE e.Data[b] = Zeros
  <2> HIDE DEF data
  <2>1. b # block /\ b \notin d.DataBitMap
    BY <1>1, <1>4
  <2>2. d.Data[b] = Zeros
    BY <2>1 DEF Sound
  <2>3. CASE e.Data = d.Data
    BY <2>2, <2>3
  <2>4. CASE e.Data = data
    BY <1>3, <2>1, <2>2, <2>4
  <2> QED
    BY <1>1, <2>3, <2>4
<1> HIDE DEF data
<1>5. /\ \A j \in Inodes : j # id => made[j] = d.Inode[j]
      /\ made[id] = newEmptyDiskInode(type)
      /\ DOMAIN made = Inodes
  BY <1>2 DEF InodesMade
<1> HIDE DEF made
<1>6. /\ \A j \in Inodes : j # i => larger[j] = made[j]
      /\ larger[i] = LargerNode(d, i, block)
  BY <1>5 DEF InodesLarger, made
<1> HIDE DEF larger
<1>7. ASSUME NEW j \in Inodes
      PROVE  \/ e.Inode[j] = d.Inode[j]
             \/ e.Inode[j] = newEmptyDiskInode(type)
             \/ j = i /\ e.Inode[j] = LargerNode(d, i, block)
  BY <1>1, <1>5, <1>6
<1>8. ASSUME NEW j \in Inodes, IsDirectory(e, j) PROVE e.Inode[j].Size % EntrySize = 0
  <2>1. CASE e.Inode[j] = d.Inode[j]
    BY <1>8, <2>1 DEF Sound, IsDirectory
  <2>2. CASE e.Inode[j] = newEmptyDiskInode(type)
    BY <2>2, EmptyNode, NumbersBound
  <2>3. CASE j = i /\ e.Inode[j] = LargerNode(d, i, block)
    BY <2>3, CanAddIs
  <2> QED
    BY <1>7, <2>1, <2>2, <2>3
<1>9. ASSUME NEW j \in Inodes, NEW l \in NumbersAt(e, j)
      PROVE  \/ /\ l \in NumbersAt(d, j)
                /\ BlockAt(e, j, l) = BlockAt(d, j, l)
                /\ BlockAt(d, j, l) \in e.DataBitMap
             \/ /\ i = j /\ NumberOf(d, i) = l
                /\ BlockAt(e, j, l) = block
                /\ block \notin d.DataBitMap
  <2>0. \A k \in NumbersAt(d, j) : BlockAt(d, j, k) \in e.DataBitMap
    BY <1>1 DEF Sound
  <2>1. CASE e.Inode[j] = d.Inode[j]
    BY <2>0, <2>1 DEF NumbersAt, BlockAt
  <2>2. CASE e.Inode[j] = newEmptyDiskInode(type)
    BY <2>2, EmptyNode, NumbersBound DEF NumbersAt
  <2>3. CASE j = i /\ e.Inode[j] = LargerNode(d, i, block)
    <3>1. l \in NumbersAt(d, i) \cup {NumberOf(d, i)} /\ BlockAt(e, j, l) = LargerNode(d, i, block).DirectBlock[l]
      BY <2>3, CanAddIs DEF NumbersAt, BlockAt
    <3>2. NumbersAt(d, i) \subseteq 0 .. INODE_DIRECT_BLOCKS - 1
      BY NodeSizes DEF Sound
    <3>3. CASE l = NumberOf(d, i)
      <4>1. BlockAt(e, j, l) = block
        BY <3>1, <3>3, CanAddIs
      <4> QED
        BY <2>0, <2>3, <3>3, <4>1, CanAddIs
    <3>4. CASE l # NumberOf(d, i)
      <4>1. l \in NumbersAt(d, i) /\ BlockAt(e, j, l) = BlockAt(d, i, l)
        BY <3>1, <3>2, <3>4, CanAddIs
      <4> QED
        BY <2>0, <2>3, <4>1
    <3> QED
      BY <3>3, <3>4
  <2> QED
    BY <1>7, <2>1, <2>2, <2>3
<1>10. block \in e.DataBitMap
  BY <1>1
<1>11. e \in DisksWith(e.Text)
  BY <1>1
<1>12. Sound(e)
  <2>1. OneNewBlock(d, e, i, NumberOf(d, i), block)
    BY <1>9 DEF OneNewBlock
  <2> QED
    BY <1>4, <1>8, <1>10, <1>11, <2>1, StaysSound
<1> QED
  BY <1>1, <1>12

\* The names of a disk with the new entry, in every state of the inodes, are
\* those there were and the new one.
LEMMA NewNameOnly ==
  ASSUME NEW d, Sound(d), NEW i \in Inodes, NEW block, NEW id, CanAdd(d, i, block, id),
         NEW name \in Names, NEW type \in {"FT_UNKNOWN", "FT_FILE", "FT_DIRECTORY"}, NEW e,
         e.Data = DataWritten(d, i, block, id, name),
         \/ e.Inode = d.Inode \/ e.Inode = InodesMade(d, id, type)
         \/ e.Inode = InodesLarger(d, i, block, id, type),
         NEW j \in Inodes, NEW l \in NumbersAt(e, j), NEW t \in Slots, HasName(e, j, l, t)
  PROVE  \/ /\ HasName(d, j, l, t)
            /\ EntryIn(e, j, l, t) = EntryIn(d, j, l, t)
         \/ /\ i = j /\ NumberOf(d, i) = l /\ SlotOf(d, i) = t
            /\ EntryIn(e, j, l, t).InodeID = id
            /\ EntryIn(e, j, l, t).Name = name
<1> DEFINE data == DataWritten(d, i, block, id, name)
           made == InodesMade(d, id, type)
           larger == InodesLarger(d, i, block, id, type)
<1>0. e.Data = data /\ (e.Inode = d.Inode \/ e.Inode = made \/ e.Inode = larger)
  BY Zenon
<1>1. /\ block \in Blocks /\ id \in Inodes /\ d.Inode \in [Inodes -> NodeTypes]
      /\ id \notin d.InodeBitMap /\ SlotOf(d, i) \in Slots
  BY CanAddIs DEF Sound, CanAdd, DisksWith
<1>2. /\ data[block][SlotOf(d, i)] = Entry(id, name)
      /\ \A u \in Slots : u # SlotOf(d, i) => data[block][u] = d.Data[block][u]
      /\ \A b \in Blocks : b # block => data[b] = d.Data[b]
  BY WrittenIs
<1> HIDE DEF data
<1>3. /\ \A h \in Inodes : h # id => made[h] = d.Inode[h]
      /\ made[id] = newEmptyDiskInode(type)
      /\ DOMAIN made = Inodes
  BY <1>1 DEF InodesMade
<1> HIDE DEF made
<1>4. /\ \A h \in Inodes : h # i => larger[h] = made[h]
      /\ larger[i] = LargerNode(d, i, block)
  BY <1>3 DEF InodesLarger, made
<1> HIDE DEF larger
<1>5. /\ Entry(id, name).InodeID = id /\ Entry(id, name).Name = name
      /\ \A u \in Slots : Zeros[u].Name \notin Names
  BY ConstantsAssumption DEF Entry, Zeros
<1>6. \/ e.Inode[j] = d.Inode[j]
      \/ e.Inode[j] = newEmptyDiskInode(type)
      \/ j = i /\ e.Inode[j] = LargerNode(d, i, block)
  BY <1>0, <1>3, <1>4
<1>7. ASSUME l \in NumbersAt(d, j), BlockAt(e, j, l) = BlockAt(d, j, l), IsDirectory(d, j)
      PROVE  \/ /\ HasName(d, j, l, t)
                /\ EntryIn(e, j, l, t) = EntryIn(d, j, l, t)
             \/ /\ i = j /\ NumberOf(d, i) = l /\ SlotOf(d, i) = t
                /\ EntryIn(e, j, l, t) = Entry(id, name)
  <2>1. /\ EntryIn(e, j, l, t) = data[BlockAt(d, j, l)][t]
        /\ EntryIn(d, j, l, t) = d.Data[BlockAt(d, j, l)][t]
    BY <1>0, <1>7, Zenon DEF EntryIn, BlockAt
  <2>2. BlockAt(d, j, l) \in d.DataBitMap /\ BlockAt(d, j, l) \in Blocks
    BY <1>7, EntryHasType DEF Sound
  <2>3. ASSUME EntryIn(e, j, l, t) = EntryIn(d, j, l, t) PROVE HasName(d, j, l, t)
    BY <1>7, <2>3 DEF HasName
  <2>4. CASE BlockAt(d, j, l) # block \/ t # SlotOf(d, i)
    <3>1. EntryIn(e, j, l, t) = EntryIn(d, j, l, t)
      BY <1>2, <2>1, <2>2, <2>4
    <3> QED
      BY <2>3, <3>1
  <2>5. CASE BlockAt(d, j, l) = block /\ t = SlotOf(d, i)
    <3>1. ~NeedsBlock(d, i)
      BY <2>2, <2>5, CanAddIs
    <3>2. NumberOf(d, i) \in NumbersAt(d, i) /\ block = BlockAt(d, i, NumberOf(d, i))
      BY <3>1, CanAddIs
    <3>3. j = i /\ l = NumberOf(d, i)
      <4>1. BlockAt(d, j, l) = BlockAt(d, i, NumberOf(d, i))
        BY <2>5, <3>2
      <4>2. \A h, o \in Inodes : \A f \in NumbersAt(d, h), g \in NumbersAt(d, o) :
              BlockAt(d, h, f) = BlockAt(d, o, g) => h = o /\ f = g
        BY DEF Sound
      <4> QED
        BY <1>7, <3>2, <4>1, <4>2
    <3>4. EntryIn(e, j, l, t) = Entry(id, name)
      BY <1>2, <2>1, <2>5
    <3> QED
      BY <2>5, <3>3, <3>4
  <2> QED
    BY <2>4, <2>5
<1>8. CASE e.Inode[j] = d.Inode[j]
  <2>1. l \in NumbersAt(d, j) /\ BlockAt(e, j, l) = BlockAt(d, j, l) /\ IsDirectory(d, j)
    BY <1>8 DEF NumbersAt, BlockAt, IsDirectory, HasName
  <2> QED
    BY <1>5, <1>7, <2>1
<1>9. CASE e.Inode[j] = newEmptyDiskInode(type)
  BY <1>9, EmptyNode, NumbersBound DEF NumbersAt
<1>10. CASE j = i /\ e.Inode[j] = LargerNode(d, i, block)
  <2>1. /\ l \in NumbersAt(d, i) \cup {NumberOf(d, i)}
        /\ BlockAt(e, j, l) = LargerNode(d, i, block).DirectBlock[l]
    BY <1>10, CanAddIs DEF NumbersAt, BlockAt
  <2>2. NumbersAt(d, i) \subseteq 0 .. INODE_DIRECT_BLOCKS - 1
    BY NodeSizes DEF Sound
  <2>3. IsDirectory(d, i)
    BY DEF CanAdd
  <2>4. CASE l \in NumbersAt(d, i)
    <3>1. BlockAt(e, j, l) = BlockAt(d, j, l)
      BY <1>10, <2>1, <2>2, <2>4, CanAddIs
    <3> QED
      BY <1>5, <1>7, <1>10, <2>3, <2>4, <3>1
  <2>5. CASE l \notin NumbersAt(d, i)
    <3>1. l = NumberOf(d, i) /\ NeedsBlock(d, i)
      BY <2>1, <2>5, CanAddIs
    <3>2. BlockAt(e, j, l) = block /\ block \notin d.DataBitMap
      BY <2>1, <3>1, CanAddIs
    <3>3. EntryIn(e, j, l, t) = data[block][t]
      BY <1>0, <3>2, Zenon DEF EntryIn, BlockAt
    <3>4. d.Data[block] = Zeros
      BY <1>1, <3>2 DEF Sound
    <3>5. EntryIn(e, j, l, t).Name \in Names
      BY DEF HasName
    <3>6. t = SlotOf(d, i)
      <4>1. t # SlotOf(d, i) => EntryIn(e, j, l, t) = Zeros[t]
        BY <1>2, <3>3, <3>4
      <4> QED
        BY <1>5, <3>5, <4>1
    <3>7. EntryIn(e, j, l, t) = Entry(id, name)
      BY <1>2, <3>3, <3>6
    <3> QED
      BY <1>5, <1>10, <3>1, <3>6, <3>7
  <2> QED
    BY <2>4, <2>5
<1> QED
  BY <1>6, <1>8, <1>9, <1>10

\* Seen from the names, nothing changes but for one place.
LEMMA AddEntryNames ==
  ASSUME NEW d, Sound(d), NamesSound(d),
         NEW i \in Inodes, NEW block, NEW id, CanAdd(d, i, block, id),
         NEW name \in Names, Find(d, i, name) = 0,
         NEW type \in {"FT_UNKNOWN", "FT_FILE", "FT_DIRECTORY"},
         NEW e \in {BlockTaken(d, block), InodeTaken(d, block, id),
                    NameWritten(d, i, block, id, name),
                    InodeMade(d, i, block, id, name, type),
                    EntryAdded(d, i, block, id, name, type)}
  PROVE  NamesSound(e)
<1> DEFINE data == DataWritten(d, i, block, id, name)
           made == InodesMade(d, id, type)
           larger == InodesLarger(d, i, block, id, type)
           dataBits == d.DataBitMap \cup {block}
           inodeBits == d.InodeBitMap \cup {id}
<1>1. \/ e.Data = d.Data /\ e.Inode = d.Inode /\ d.InodeBitMap \subseteq e.InodeBitMap
      \/ /\ e.Data = data /\ (e.Inode = d.Inode \/ e.Inode = made \/ e.Inode = larger)
         /\ e.InodeBitMap = inodeBits
  <2>1. \/ FieldsAre(e, d.Text, d.InodeBitMap, dataBits, d.Inode, d.Data)
        \/ FieldsAre(e, d.Text, inodeBits, dataBits, d.Inode, d.Data)
        \/ FieldsAre(e, d.Text, inodeBits, dataBits, d.Inode, data)
        \/ FieldsAre(e, d.Text, inodeBits, dataBits, made, data)
        \/ FieldsAre(e, d.Text, inodeBits, dataBits, larger, data)
    BY AddEntryFields, Zenon
  <2> HIDE DEF data, made, larger
  <2> QED
    BY <2>1 DEF FieldsAre
<1>2. /\ block \in Blocks /\ id \in Inodes /\ d.Inode \in [Inodes -> NodeTypes]
      /\ id \notin d.InodeBitMap /\ SlotOf(d, i) \in Slots
  BY CanAddIs DEF Sound, CanAdd, DisksWith
<1>3. /\ data[block][SlotOf(d, i)] = Entry(id, name)
      /\ \A t \in Slots : t # SlotOf(d, i) => data[block][t] = d.Data[block][t]
      /\ \A b \in Blocks : b # block => data[b] = d.Data[b]
  BY WrittenIs
<1> HIDE DEF data
<1>4. /\ \A j \in Inodes : j # id => made[j] = d.Inode[j]
      /\ made[id] = newEmptyDiskInode(type)
      /\ DOMAIN made = Inodes
  BY <1>2 DEF InodesMade
<1> HIDE DEF made
<1>5. /\ \A j \in Inodes : j # i => larger[j] = made[j]
      /\ larger[i] = LargerNode(d, i, block)
  BY <1>4 DEF InodesLarger, made
<1> HIDE DEF larger
<1>6. /\ Entry(id, name).InodeID = id /\ Entry(id, name).Name = name
      /\ \A t \in Slots : Zeros[t].Name \notin Names
  BY ConstantsAssumption DEF Entry, Zeros
<1>7. /\ 0 \in d.InodeBitMap /\ 0 \in e.InodeBitMap
      /\ \A h \in Inodes : \A m \in NumbersAt(d, h), u \in Slots :
           HasName(d, h, m, u) => /\ EntryIn(d, h, m, u).InodeID \in d.InodeBitMap
                                  /\ EntryIn(d, h, m, u).InodeID # id
      /\ \A m \in NumbersAt(d, i), u \in Slots :
           HasName(d, i, m, u) => EntryIn(d, i, m, u).Name # name
  BY <1>1, <1>2, NotFound DEF NamesSound
<1>8. CASE e.Data = d.Data /\ e.Inode = d.Inode /\ d.InodeBitMap \subseteq e.InodeBitMap
  <2>1. ASSUME NEW j \in Inodes, NEW l \in NumbersAt(e, j), NEW t \in Slots, HasName(e, j, l, t)
        PROVE  /\ HasName(d, j, l, t)
               /\ EntryIn(e, j, l, t) = EntryIn(d, j, l, t)
               /\ EntryIn(d, j, l, t).InodeID \in e.InodeBitMap
    <3>1. EntryIn(e, j, l, t) = EntryIn(d, j, l, t) /\ NumbersAt(e, j) = NumbersAt(d, j)
      BY <1>8 DEF EntryIn, NumbersAt
    <3>2. HasName(d, j, l, t)
      BY <1>8, <2>1, <3>1 DEF HasName, IsDirectory
    <3> QED
      BY <1>7, <1>8, <3>1, <3>2
  <2> QED
    BY <1>7, <2>1, NamesStaySound
<1>9. CASE /\ e.Data = data /\ (e.Inode = d.Inode \/ e.Inode = made \/ e.Inode = larger)
           /\ e.InodeBitMap = inodeBits
  <2>1. ASSUME NEW j \in Inodes, NEW l \in NumbersAt(e, j), NEW t \in Slots, HasName(e, j, l, t)
        PROVE  \/ /\ HasName(d, j, l, t)
                  /\ EntryIn(e, j, l, t) = EntryIn(d, j, l, t)
               \/ /\ i = j /\ NumberOf(d, i) = l /\ SlotOf(d, i) = t
                  /\ EntryIn(e, j, l, t).InodeID = id
                  /\ EntryIn(e, j, l, t).Name = name
    <3>1. e.Data = DataWritten(d, i, block, id, name)
      BY <1>9, Zenon DEF data
    <3>2. \/ e.Inode = d.Inode \/ e.Inode = InodesMade(d, id, type)
          \/ e.Inode = InodesLarger(d, i, block, id, type)
      BY <1>9, Zenon DEF made, larger
    <3> QED
      BY <2>1, <3>1, <3>2, NewNameOnly
  <2>2. \A x : x \in e.InodeBitMap <=> x \in d.InodeBitMap \/ x = id
    BY <1>9
  <2>3. id \in e.InodeBitMap \ {0}
    BY <1>2, <1>7, <2>2
  <2>4. ASSUME NEW j \in Inodes, NEW l \in NumbersAt(e, j), NEW t \in Slots, HasName(e, j, l, t)
        PROVE  \/ /\ HasName(d, j, l, t)
                  /\ EntryIn(e, j, l, t) = EntryIn(d, j, l, t)
                  /\ EntryIn(d, j, l, t).InodeID \in e.InodeBitMap
               \/ /\ i = j /\ NumberOf(d, i) = l /\ SlotOf(d, i) = t
                  /\ EntryIn(e, j, l, t).InodeID = id
                  /\ EntryIn(e, j, l, t).Name = name
    <3>1. HasName(d, j, l, t) => EntryIn(d, j, l, t).InodeID \in d.InodeBitMap
      BY <1>7 DEF HasName
    <3> QED
      BY <2>1, <2>2, <2>4, <3>1
  <2> QED
    BY <1>7, <2>3, <2>4, NamesStaySound
<1> QED
  BY <1>1, <1>8, <1>9
\* What a call may leave, whether it does all its writes or not.
LeavesSound(o, text) ==
  /\ IsOutcome(o) /\ Sound(o.disk) /\ o.disk.Text = text /\ o.id \in Inodes \cup {-1}
  /\ \A e \in o.torn : Sound(e) /\ e.Text = text

LeavesNames(o) == NamesSound(o.disk) /\ \A e \in o.torn : NamesSound(e)

LEMMA BlockTakenSound ==
  ASSUME NEW d, Sound(d), NEW block \in Blocks
  PROVE  /\ Sound(BlockTaken(d, block)) /\ BlockTaken(d, block).Text = d.Text
         /\ NamesSound(d) => NamesSound(BlockTaken(d, block))
<1> DEFINE e == BlockTaken(d, block)
<1>1. FieldsAre(e, d.Text, d.InodeBitMap, d.DataBitMap \cup {block}, d.Inode, d.Data)
  <2> DEFINE dataBits == d.DataBitMap \cup {block}
  <2>1. d \in DisksWith(d.Text)
    BY DEF Sound
  <2>2. dataBits \in SUBSET Blocks
    BY <2>1 DEF DisksWith
  <2>3. e = [d EXCEPT !.DataBitMap = dataBits]
    BY Zenon DEF BlockTaken
  <2> HIDE DEF dataBits, e
  <2>4. FieldsAre(e, d.Text, d.InodeBitMap, dataBits, d.Inode, d.Data)
    BY <2>1, <2>2, <2>3 DEF FieldsAre, DisksWith
  <2> QED
    BY <2>4, Zenon DEF dataBits
<1> HIDE DEF e
<1>2. /\ e \in DisksWith(e.Text) /\ e.Inode = d.Inode /\ e.Data = d.Data /\ e.Text = d.Text
      /\ block \in e.DataBitMap /\ d.DataBitMap \subseteq e.DataBitMap
      /\ d.InodeBitMap = e.InodeBitMap
  BY <1>1 DEF FieldsAre
<1>3. Sound(e)
  BY <1>2 DEF Sound, IsDirectory, NumbersAt, BlockAt
<1>4. ASSUME NamesSound(d) PROVE NamesSound(e)
  <2>1. \A j, l, t : /\ EntryIn(e, j, l, t) = EntryIn(d, j, l, t)
                     /\ NumbersAt(e, j) = NumbersAt(d, j)
                     /\ IsDirectory(e, j) <=> IsDirectory(d, j)
    BY <1>2 DEF EntryIn, NumbersAt, IsDirectory
  <2>2. ASSUME NEW j \in Inodes, NEW l \in NumbersAt(e, j), NEW t \in Slots, HasName(e, j, l, t)
        PROVE  /\ HasName(d, j, l, t)
               /\ EntryIn(e, j, l, t) = EntryIn(d, j, l, t)
               /\ EntryIn(d, j, l, t).InodeID \in e.InodeBitMap
    <3>1. HasName(d, j, l, t)
      BY <2>1, <2>2 DEF HasName
    <3>2. EntryIn(d, j, l, t).InodeID \in d.InodeBitMap
      BY <1>4, <3>1 DEF NamesSound, HasName
    <3> QED
      BY <1>2, <2>1, <3>1, <3>2
  <2>3. 0 \in e.InodeBitMap
    BY <1>2, <1>4 DEF NamesSound
  <2> QED
    BY <1>4, <2>2, <2>3, NamesStaySound
<1> QED
  BY <1>2, <1>3, <1>4 DEF e

LEMMA CreateFileSafe ==
  ASSUME NEW d, Sound(d), NEW i \in Inodes, NEW name \in Names,
         NEW type \in {"FT_UNKNOWN", "FT_FILE", "FT_DIRECTORY"}
  PROVE  /\ LeavesSound(CreateFile(d, i, name, type), d.Text)
         /\ NamesSound(d) => LeavesNames(CreateFile(d, i, name, type))
<1> DEFINE o == CreateFile(d, i, name, type)
<1>1. \/ o.disk = d /\ o.id = -1 /\ o.torn = {} /\ IsOutcome(o)
      \/ \E block : /\ o.disk = BlockTaken(d, block) /\ o.id = -1 /\ o.torn = {}
                    /\ IsOutcome(o) /\ block \in Blocks
      \/ \E block, id : /\ CanAdd(d, i, block, id) /\ Find(d, i, name) = 0
                        /\ o = AddEntry(d, i, block, id, name, type)
  BY CreateFileIs
<1> HIDE DEF o
<1>2. CASE o.disk = d /\ o.id = -1 /\ o.torn = {} /\ IsOutcome(o)
  BY <1>2 DEF LeavesSound, LeavesNames, o
<1>3. CASE \E block : /\ o.disk = BlockTaken(d, block) /\ o.id = -1 /\ o.torn = {}
                      /\ IsOutcome(o) /\ block \in Blocks
  BY <1>3, BlockTakenSound DEF LeavesSound, LeavesNames, o
<1>4. CASE \E block, id : /\ CanAdd(d, i, block, id) /\ Find(d, i, name) = 0
                          /\ o = AddEntry(d, i, block, id, name, type)
  <2>1. PICK block, id : /\ CanAdd(d, i, block, id) /\ Find(d, i, name) = 0
                         /\ o = AddEntry(d, i, block, id, name, type)
    BY <1>4
  <2> DEFINE torn == {BlockTaken(d, block), InodeTaken(d, block, id),
                      NameWritten(d, i, block, id, name),
                      InodeMade(d, i, block, id, name, type)}
             all == {BlockTaken(d, block), InodeTaken(d, block, id),
                     NameWritten(d, i, block, id, name),
                     InodeMade(d, i, block, id, name, type),
                     EntryAdded(d, i, block, id, name, type)}
  <2>2. /\ o.disk = EntryAdded(d, i, block, id, name, type) /\ o.id = id /\ IsOutcome(o)
        /\ o.torn \subseteq torn
    BY <2>1, AddEntryIs
  <2>3. torn \subseteq all /\ EntryAdded(d, i, block, id, name, type) \in all
    OBVIOUS
  <2>4. \A e \in all : Sound(e) /\ e.Text = d.Text
    BY <2>1, AddEntrySound
  <2>5. NamesSound(d) => \A e \in all : NamesSound(e)
    BY <2>1, AddEntryNames
  <2>6. id \in Inodes
    BY <2>1 DEF CanAdd
  <2> HIDE DEF torn, all
  <2> QED
    BY <2>2, <2>3, <2>4, <2>5, <2>6 DEF LeavesSound, LeavesNames, o
<1> QED
  BY <1>1, <1>2, <1>3, <1>4
-----------------------------------------------------------------------------
(***************************************************************************)
(* Nothing is lost by CreateFile: the place of the new entry, which the    *)
(* size of the directory points to, held no name.                          *)
(***************************************************************************)
LEMMA SizeIsPlace ==
  ASSUME NEW size \in Nat, size % EntrySize = 0
  PROVE  (size \div BlockSize) * BlockSize
           + ((size % BlockSize) \div EntrySize) * EntrySize = size
<1> DEFINE m == size \div EntrySize
           q == size \div BlockSize
           r == size % BlockSize
           j == m - q * PerBlock
<1>0. /\ BlockSize \in Nat \ {0} /\ EntrySize \in Nat \ {0} /\ PerBlock \in Nat \ {0}
      /\ BlockSize = PerBlock * EntrySize
  BY Constants
<1>1. m \in Nat /\ size = m * EntrySize
  <2>1. m \in Nat /\ size = m * EntrySize + (size % EntrySize)
    BY <1>0, DivisionIs
  <2> HIDE DEF m
  <2>2. m * EntrySize \in Nat
    BY <1>0, <2>1
  <2> QED
    BY <2>1, <2>2
<1>2. q \in Nat /\ r \in Nat /\ size = q * BlockSize + r
  BY <1>0, DivisionIs
<1> HIDE DEF m, q, r
<1>3. q * BlockSize = (q * PerBlock) * EntrySize
  BY <1>0, <1>2
<1>4. j \in Int /\ r = j * EntrySize
  <2>1. q * PerBlock \in Int
    BY <1>0, <1>2
  <2>2. j * EntrySize = m * EntrySize - (q * PerBlock) * EntrySize
    BY <1>0, <1>1, <2>1
  <2>3. m * EntrySize \in Int /\ (q * PerBlock) * EntrySize \in Int
    BY <1>0, <1>1, <2>1
  <2>4. r = m * EntrySize - (q * PerBlock) * EntrySize
    BY <1>1, <1>2, <1>3, <2>3
  <2> QED
    BY <1>1, <2>1, <2>2, <2>4
<1> HIDE DEF j
<1>5. j \in Nat
  <2>1. j < 0 => j * EntrySize + EntrySize <= 0 * EntrySize
    BY <1>0, <1>4, Multiples
  <2>2. 0 * EntrySize = 0 /\ j * EntrySize \in Int
    BY <1>0, <1>4
  <2> QED
    BY <1>0, <1>2, <1>4, <2>1, <2>2
<1>6. r \div EntrySize = j
  <2>1. (j * EntrySize + 0) \div EntrySize = j
    BY <1>0, <1>5, DivisionUnique
  <2>2. j * EntrySize + 0 = r
    BY <1>2, <1>4
  <2> QED
    BY <2>1, <2>2
<1> QED
  BY <1>2, <1>4, <1>6 DEF q, r

LEMMA AddEntryFull ==
  ASSUME NEW d, Sound(d), Full(d), NEW i \in d.InodeBitMap, NEW block, NEW id,
         CanAdd(d, i, block, id),
         NEW name \in Names, NEW type \in {"FT_UNKNOWN", "FT_FILE", "FT_DIRECTORY"},
         NEW e, e = EntryAdded(d, i, block, id, name, type)
  PROVE  Full(e) /\ e.InodeBitMap = d.InodeBitMap \cup {id}
<1> DEFINE data == DataWritten(d, i, block, id, name)
           made == InodesMade(d, id, type)
           larger == InodesLarger(d, i, block, id, type)
           dataBits == d.DataBitMap \cup {block}
           inodeBits == d.InodeBitMap \cup {id}
           q == NumberOf(d, i)
           slot == SlotOf(d, i)
           size == d.Inode[i].Size
           node == LargerNode(d, i, block)
<1>0. /\ d.InodeBitMap \subseteq Inodes /\ i \in Inodes /\ d.Inode \in [Inodes -> NodeTypes]
      /\ d.DataBitMap \subseteq Blocks
  BY DEF Sound, DisksWith
<1>1. /\ e.InodeBitMap = inodeBits /\ e.DataBitMap = dataBits
      /\ e.Data = data /\ e.Inode = larger
  <2>1. FieldsAre(e, d.Text, inodeBits, dataBits, larger, data)
    BY <1>0, AddEntryFields, Zenon
  <2> HIDE DEF data, larger, inodeBits, dataBits
  <2> QED
    BY <2>1 DEF FieldsAre
<1>2. /\ block \in Blocks /\ id \in Inodes /\ id \notin d.InodeBitMap /\ id # i
      /\ slot \in Slots /\ IsDirectory(d, i)
      /\ q \in 0 .. INODE_DIRECT_BLOCKS - 1
  BY <1>0, CanAddIs DEF CanAdd
<1>3. /\ data[block][slot] = Entry(id, name)
      /\ \A t \in Slots : t # slot => data[block][t] = d.Data[block][t]
      /\ \A b \in Blocks : b # block => data[b] = d.Data[b]
  BY <1>0, WrittenIs
<1>4. /\ \A j \in Inodes : j # id /\ j # i => larger[j] = d.Inode[j]
      /\ larger[id] = newEmptyDiskInode(type)
      /\ larger[i] = node
  <2>1. /\ \A j \in Inodes : j # id => made[j] = d.Inode[j]
        /\ made[id] = newEmptyDiskInode(type)
        /\ DOMAIN made = Inodes
    BY <1>0, <1>2 DEF InodesMade
  <2> HIDE DEF made
  <2>2. larger = [made EXCEPT ![i] = node]
    BY Zenon DEF InodesLarger, made
  <2> HIDE DEF larger, node
  <2> QED
    BY <1>0, <1>2, <2>1, <2>2
<1>5. /\ node.Type = "FT_DIRECTORY"
      /\ Numbers(node.Size) = NumbersAt(d, i) \cup {q}
      /\ node.DirectBlock[q] = block
      /\ \A k \in 0 .. INODE_DIRECT_BLOCKS - 1 : k # q => node.DirectBlock[k] = BlockAt(d, i, k)
      /\ q \notin NumbersAt(d, i) => block \notin d.DataBitMap
      /\ q \in NumbersAt(d, i) => block = BlockAt(d, i, q)
  BY <1>0, CanAddIs
<1>6. /\ node.Size = size + EntrySize /\ size \in Nat
      /\ q * BlockSize + slot * EntrySize = size
  <2>1. size \in Nat /\ size % EntrySize = 0
    BY <1>0, <1>2, NodeSizes, Constants DEF Sound, Sizes
  <2>2. q * BlockSize + slot * EntrySize = size
    BY <2>1, SizeIsPlace DEF NumberOf, SlotOf
  <2>3. d.Inode[i] \in NodeTypes
    BY <1>0
  <2>4. node.Size = size + EntrySize
    BY <2>3 DEF LargerNode, NodeTypes
  <2> QED
    BY <2>1, <2>2, <2>4
<1> HIDE DEF data, larger, node, q, slot, size
<1>7. Entry(id, name).InodeID = id /\ Entry(id, name).Name = name
  BY DEF Entry
\* The blocks that were there stay where they are.
<1>8. ASSUME NEW j \in Inodes, j # id, NEW k \in NumbersAt(d, j)
      PROVE  k \in NumbersAt(e, j) /\ BlockAt(e, j, k) = BlockAt(d, j, k)
  <2>1. CASE j # i
    <3>1. e.Inode[j] = d.Inode[j]
      BY <1>1, <1>4, <1>8, <2>1
    <3> QED
      BY <1>8, <3>1 DEF NumbersAt, BlockAt
  <2>2. CASE j = i
    <3>1. e.Inode[j] = node
      BY <1>1, <1>4, <2>2
    <3>2. k \in 0 .. INODE_DIRECT_BLOCKS - 1 /\ k \in NumbersAt(d, i)
      BY <1>0, <1>8, <2>2, NodeSizes DEF Sound
    <3>3. node.DirectBlock[k] = BlockAt(d, i, k)
      BY <1>5, <3>2
    <3>4. k \in Numbers(node.Size)
      BY <1>5, <3>2
    <3> QED
      BY <2>2, <3>1, <3>3, <3>4 DEF NumbersAt, BlockAt
  <2> QED
    BY <2>1, <2>2
<1>9. q \in NumbersAt(e, i) /\ BlockAt(e, i, q) = block /\ IsDirectory(e, i)
  BY <1>0, <1>1, <1>4, <1>5 DEF NumbersAt, BlockAt, IsDirectory
\* So do the names.
<1>10. ASSUME NEW j \in Inodes, j # id, NEW k, NEW s, HasName(d, j, k, s)
       PROVE  HasName(e, j, k, s) /\ EntryIn(e, j, k, s) = EntryIn(d, j, k, s)
  <2>1. /\ k \in NumbersAt(d, j) /\ s \in Slots /\ IsDirectory(d, j)
        /\ EntryIn(d, j, k, s).Name \in Names
    BY <1>10 DEF HasName
  <2>2. k \in NumbersAt(e, j) /\ BlockAt(e, j, k) = BlockAt(d, j, k)
    BY <1>8, <1>10, <2>1
  <2>3. BlockAt(d, j, k) \in Blocks /\ BlockAt(d, j, k) \in d.DataBitMap
    BY <2>1, EntryHasType DEF Sound
  <2>4. ~(BlockAt(d, j, k) = block /\ s = slot)
    <3> SUFFICES ASSUME BlockAt(d, j, k) = block, s = slot PROVE FALSE
      OBVIOUS
    <3>1. q \in NumbersAt(d, i) /\ block = BlockAt(d, i, q)
      BY <1>5, <2>3
    <3>2. \A h, o \in Inodes : \A f \in NumbersAt(d, h), g \in NumbersAt(d, o) :
            BlockAt(d, h, f) = BlockAt(d, o, g) => h = o /\ f = g
      BY DEF Sound
    <3>3. j = i /\ k = q
      BY <1>0, <2>1, <3>1, <3>2
    <3>4. q * BlockSize + slot * EntrySize < size
      BY <1>10, <3>3 DEF Full, NamesCounted, size
    <3> QED
      BY <1>6, <3>4
  <2>5. data[BlockAt(d, j, k)][s] = d.Data[BlockAt(d, j, k)][s]
    BY <1>3, <2>1, <2>3, <2>4
  <2>6. EntryIn(e, j, k, s) = EntryIn(d, j, k, s)
    BY <1>1, <2>2, <2>5, Zenon DEF EntryIn, BlockAt
  <2>7. IsDirectory(e, j)
    BY <1>1, <1>4, <1>9, <1>10, <2>1 DEF IsDirectory
  <2> QED
    BY <2>1, <2>2, <2>6, <2>7 DEF HasName
<1>11. HasName(e, i, q, slot) /\ EntryIn(e, i, q, slot).InodeID = id
  <2>1. EntryIn(e, i, q, slot) = Entry(id, name)
    <3>1. EntryIn(e, i, q, slot) = data[block][slot]
      BY <1>1, <1>9, Zenon DEF EntryIn, BlockAt
    <3> QED
      BY <1>3, <3>1
  <2> QED
    BY <1>0, <1>2, <1>7, <1>9, <2>1 DEF HasName
<1>12. InodesNamed(e)
  <2> SUFFICES ASSUME NEW x \in e.InodeBitMap \ {0}
               PROVE  \E j \in e.InodeBitMap : \E k, s :
                        HasName(e, j, k, s) /\ EntryIn(e, j, k, s).InodeID = x
    BY DEF InodesNamed
  <2>1. CASE x = id
    BY <1>1, <1>11, <2>1
  <2>2. CASE x # id
    <3>1. x \in d.InodeBitMap \ {0}
      BY <1>1, <2>2
    <3>2. PICK j \in d.InodeBitMap : \E k, s : HasName(d, j, k, s) /\ EntryIn(d, j, k, s).InodeID = x
      BY <3>1 DEF Full, InodesNamed
    <3>3. PICK k, s : HasName(d, j, k, s) /\ EntryIn(d, j, k, s).InodeID = x
      BY <3>2
    <3>4. j \in Inodes /\ j # id /\ j \in e.InodeBitMap
      BY <1>0, <1>1, <1>2
    <3>5. HasName(e, j, k, s) /\ EntryIn(e, j, k, s) = EntryIn(d, j, k, s)
      BY <1>10, <3>3, <3>4
    <3> QED
      BY <3>3, <3>4, <3>5
  <2> QED
    BY <2>1, <2>2
<1>13. NamesCounted(e)
  <2> SUFFICES ASSUME NEW j, NEW k, NEW s, HasName(e, j, k, s)
               PROVE  k * BlockSize + s * EntrySize < e.Inode[j].Size
    BY DEF NamesCounted
  <2>1. j \in Inodes /\ k \in NumbersAt(e, j) /\ s \in Slots
    BY DEF HasName
  <2>2. \/ HasName(d, j, k, s)
        \/ i = j /\ q = k /\ slot = s
    <3>1. e.Data = DataWritten(d, i, block, id, name) /\ e.Inode = InodesLarger(d, i, block, id, type)
      BY <1>1, Zenon DEF data, larger
    <3>2. \/ HasName(d, j, k, s)
          \/ i = j /\ NumberOf(d, i) = k /\ SlotOf(d, i) = s
      BY <1>0, <2>1, <3>1, NewNameOnly
    <3> QED
      BY <3>2 DEF q, slot
  <2>3. j # id
    BY <1>1, <1>4, <2>1, EmptyNode, NumbersBound DEF NumbersAt
  <2>4. CASE i = j /\ q = k /\ slot = s
    <3>1. e.Inode[j].Size = size + EntrySize
      BY <1>1, <1>4, <1>6, <2>4
    <3>2. k * BlockSize + s * EntrySize = size
      BY <1>6, <2>4
    <3> QED
      BY <1>6, <3>1, <3>2, Constants
  <2>5. CASE HasName(d, j, k, s)
    <3>1. k * BlockSize + s * EntrySize < d.Inode[j].Size
      BY <2>5 DEF Full, NamesCounted
    <3>2. CASE j # i
      BY <1>1, <1>4, <2>1, <2>3, <3>1, <3>2
    <3>3. CASE j = i
      <4>1. e.Inode[j].Size = size + EntrySize /\ d.Inode[j].Size = size
        BY <1>1, <1>4, <1>6, <3>3 DEF size
      <4>2. k * BlockSize + s * EntrySize \in Int
        <5>1. NumbersAt(e, j) \subseteq Int /\ Slots \subseteq Int
          BY <1>1, <1>4, <3>3, <1>5, <1>2, NodeSizes, <1>0 DEF NumbersAt, Slots, Sound
        <5>2. k \in Int /\ s \in Int
          BY <2>1, <5>1
        <5> QED
          BY <5>2, Constants
      <4> DEFINE place == k * BlockSize + s * EntrySize
      <4> HIDE DEF place
      <4>3. place < size /\ place \in Int
        BY <3>1, <4>1, <4>2 DEF place
      <4>4. place < size + EntrySize
        BY <1>6, <4>3, Constants
      <4> QED
        BY <4>1, <4>4 DEF place
    <3> QED
      BY <3>2, <3>3
  <2> QED
    BY <2>2, <2>4, <2>5
<1>14. BlocksOwned(e)
  <2> SUFFICES ASSUME NEW b \in e.DataBitMap
               PROVE  \E j \in e.InodeBitMap : \E k \in NumbersAt(e, j) : BlockAt(e, j, k) = b
    BY DEF BlocksOwned
  <2>1. CASE b = block
    BY <1>1, <1>9, <2>1
  <2>2. CASE b # block
    <3>1. b \in d.DataBitMap
      BY <1>1, <2>2
    <3>2. PICK j \in d.InodeBitMap : \E k \in NumbersAt(d, j) : BlockAt(d, j, k) = b
      BY <3>1 DEF Full, BlocksOwned
    <3>3. PICK k \in NumbersAt(d, j) : BlockAt(d, j, k) = b
      BY <3>2
    <3>4. j \in Inodes /\ j # id /\ j \in e.InodeBitMap
      BY <1>0, <1>1, <1>2
    <3>5. k \in NumbersAt(e, j) /\ BlockAt(e, j, k) = b
      BY <1>8, <3>3, <3>4
    <3> QED
      BY <3>4, <3>5
  <2> QED
    BY <2>1, <2>2
<1> QED
  BY <1>1, <1>12, <1>13, <1>14 DEF Full

\* What a call leaves when nothing may be lost: a directory it did not find or
\* make is not worked on, and a panic ends the call.
LeavesFull(o, inodes) ==
  /\ o.panic = "none" => /\ Full(o.disk) /\ inodes \subseteq o.disk.InodeBitMap
                         /\ o.id # -1 => o.id \in o.disk.InodeBitMap
  /\ o.panic # "none" => o.id = -1

LEMMA CreateFileFull ==
  ASSUME NEW d, Sound(d), Full(d), NEW i \in d.InodeBitMap, NEW name \in Names,
         NEW type \in {"FT_UNKNOWN", "FT_FILE", "FT_DIRECTORY"}
  PROVE  LeavesFull(CreateFile(d, i, name, type), d.InodeBitMap)
<1> DEFINE o == CreateFile(d, i, name, type)
<1>0. i \in Inodes
  BY DEF Sound, DisksWith
<1>1. \/ o.disk = d /\ o.id = -1
      \/ o.panic # "none" /\ o.id = -1
      \/ \E block, id : CanAdd(d, i, block, id) /\ o = AddEntry(d, i, block, id, name, type)
  BY <1>0, CreateFileIs
<1> HIDE DEF o
<1>2. CASE o.disk = d /\ o.id = -1
  BY <1>2 DEF LeavesFull, o
<1>3. CASE o.panic # "none" /\ o.id = -1
  BY <1>3 DEF LeavesFull, o
<1>4. CASE \E block, id : CanAdd(d, i, block, id) /\ o = AddEntry(d, i, block, id, name, type)
  <2>1. PICK block, id : CanAdd(d, i, block, id) /\ o = AddEntry(d, i, block, id, name, type)
    BY <1>4
  <2>2. o.disk = EntryAdded(d, i, block, id, name, type) /\ o.id = id /\ o.panic = "none"
    BY <2>1, AddEntryIs
  <2>3. Full(o.disk) /\ o.disk.InodeBitMap = d.InodeBitMap \cup {id}
    BY <2>1, <2>2, AddEntryFull
  <2>4. o.id \in o.disk.InodeBitMap /\ d.InodeBitMap \subseteq o.disk.InodeBitMap
    BY <2>2, <2>3
  <2> QED
    BY <2>2, <2>3, <2>4 DEF LeavesFull, o
<1> QED
  BY <1>1, <1>2, <1>3, <1>4

\* The power going is no panic of a call.
PowerLost(message) == message = "power lost"

LEMMA NotLost == ~PowerLost("none")
  BY Zenon DEF PowerLost

LEMMA CreateFilePanic ==
  ASSUME NEW d, NEW i, NEW name, NEW type
  PROVE  ~PowerLost(CreateFile(d, i, name, type).panic)
<1> DEFINE o == CreateFile(d, i, name, type)
<1>1. \E torn, e, id, m : ~PowerLost(m) /\ o = Outcome(torn, e, id, m)
  <2>1. CASE d.Inode[i].Type # "FT_DIRECTORY"
    BY <2>1, Zenon DEF CreateFile, PowerLost
  <2>2. CASE d.Inode[i].Type = "FT_DIRECTORY" /\ Find(d, i, name) # 0
    BY <2>2, Zenon DEF CreateFile, PowerLost
  <2>3. CASE d.Inode[i].Type = "FT_DIRECTORY" /\ Find(d, i, name) = 0
    BY <2>3, Zenon DEF CreateFile, AddEntry, PowerLost
  <2> QED
    BY <2>1, <2>2, <2>3, Zenon
<1> HIDE DEF o
<1>2. ~PowerLost(o.panic)
  BY <1>1, OutcomeIs
<1> QED
  BY <1>2 DEF o

\* What is found is in use.
LEMMA FindInUse ==
  ASSUME NEW d, Sound(d), NamesSound(d), NEW i \in Inodes, NEW name \in Names,
         Find(d, i, name) # 0
  PROVE  Find(d, i, name) \in d.InodeBitMap
<1>1. PlacesOf(d, i, name) # {}
  BY Zenon DEF Find
<1>2. PICK k \in NumbersAt(d, i), s \in Slots :
         EntryIn(d, i, k, s).Name = name /\ EntryIn(d, i, k, s).InodeID = Find(d, i, name)
  BY <1>1, FindIs
<1>3. IsDirectory(d, i)
  BY <1>1, FindIs
<1>4. HasName(d, i, k, s)
  BY <1>2, <1>3 DEF HasName
<1> QED
  BY <1>2, <1>4 DEF NamesSound
-----------------------------------------------------------------------------
(***************************************************************************)
(* The loops over the names of a path: what each turn keeps, the path      *)
(* keeps.                                                                  *)
(***************************************************************************)
Turn(d, i, name) ==
  LET next == IF i = -1 THEN 0 ELSE Find(d, i, name)
  IN  IF next = 0 THEN -1 ELSE next

LEMMA WalkStays ==
  ASSUME NEW d, NEW X, NEW i \in X, NEW path \in Paths,
         \A j \in X, name \in Names : Turn(d, j, name) \in X
  PROVE  Walk(d, i, path) \in X
<1> DEFINE L == Len(path)
           step == [a \in (1 .. L) \X X |-> Turn(d, a[2], path[a[1]])]
           IsReached(f) == f = [n \in 0 .. L |-> IF n = 0 THEN i ELSE Turn(d, f[n - 1], path[n])]
           Way == CHOOSE f : IsReached(f)
<1>1. L \in Nat /\ \A n \in 1 .. L : path[n] \in Names
  <2>1. PICK n \in 0 .. MaxDepth : path \in [1 .. n -> Names]
    BY DEF Paths
  <2>2. MaxDepth \in Nat
    BY ConstantsAssumption
  <2> QED
    BY <2>1, <2>2
<1>2. Walk(d, i, path) = Way[L]
  BY Zenon DEF Walk, Turn
<1> HIDE DEF L
<1>3. step \in [(1 .. L) \X X -> X]
  BY <1>1
<1>4. \A n \in 1 .. L, j \in X : step[<<n, j>>] = Turn(d, j, path[n])
  OBVIOUS
<1> HIDE DEF step
<1>5. PICK f \in [0 .. L -> X] : Iterates(f, i, step, L)
  BY <1>1, <1>3, IterationExists
<1>6. f[0] = i /\ \A n \in 1 .. L : f[n] = Turn(d, f[n - 1], path[n])
  <2>1. f[0] = i /\ \A n \in 1 .. L : f[n] = step[<<n, f[n - 1]>>]
    BY <1>5 DEF Iterates
  <2>2. \A n \in 1 .. L : f[n - 1] \in X
    BY <1>1
  <2> QED
    BY <1>4, <2>1, <2>2
<1>7. IsReached(f)
  <2>1. \A n \in 0 .. L : f[n] = IF n = 0 THEN i ELSE Turn(d, f[n - 1], path[n])
    BY <1>1, <1>6
  <2> QED
    BY <2>1
<1> HIDE DEF IsReached
<1>8. IsReached(Way)
  BY <1>7, Zenon
<1> HIDE DEF Way
<1>9. Way[0] = i /\ \A n \in 1 .. L : Way[n] = Turn(d, Way[n - 1], path[n])
  BY <1>1, <1>8 DEF IsReached
<1> DEFINE T == {n \in Nat : n <= L => Way[n] \in X}
<1>10. 0 \in T
  BY <1>9
<1>11. ASSUME NEW n \in Nat, n \in T PROVE n + 1 \in T
  <2> SUFFICES ASSUME n + 1 <= L PROVE Way[n + 1] \in X
    OBVIOUS
  <2>1. n + 1 \in 1 .. L /\ (n + 1) - 1 = n /\ Way[n] \in X
    BY <1>1, <1>11
  <2>2. Way[n + 1] = Turn(d, Way[n], path[n + 1]) /\ path[n + 1] \in Names
    BY <1>1, <1>9, <2>1
  <2> QED
    BY <2>1, <2>2
<1> HIDE DEF T
<1>12. L \in T
  BY <1>1, <1>10, <1>11, SetInduction
<1> QED
  BY <1>1, <1>2, <1>12 DEF T

\* One turn of MakeDirectory: how it goes on from outcome o.
Enter(o, name) == [o EXCEPT !.id = Find(o.disk, o.id, name)]

Make(o, name) ==
  [CreateFile(o.disk, o.id, name, "FT_DIRECTORY") EXCEPT
     !.torn = @ \cup o.torn \cup {o.disk}]

Fail(o) == [o EXCEPT !.id = -1]

MakeTurn(o, name, creates) ==
  IF o.id = -1 THEN o
  ELSE IF Find(o.disk, o.id, name) # 0 THEN Enter(o, name)
  ELSE IF creates THEN Make(o, name) ELSE Fail(o)

LEMMA MakeDirectoryStays ==
  ASSUME NEW d, NEW X, Outcome({}, d, 0, "none") \in X,
         \A o \in X, name \in Names, creates \in BOOLEAN : MakeTurn(o, name, creates) \in X,
         NEW path \in Paths, NEW create \in BOOLEAN, NEW slash \in BOOLEAN
  PROVE  MakeDirectory(d, path, create, slash) \in X
<1> DEFINE L == Len(path)
           x == Outcome({}, d, 0, "none")
           Creates(n) == IF n = Len(path) THEN ~slash ELSE create
           step == [a \in (1 .. L) \X X |-> MakeTurn(a[2], path[a[1]], Creates(a[1]))]
           IsAfter(f) ==
             f = [n \in 0 .. L |-> IF n = 0 THEN x ELSE MakeTurn(f[n - 1], path[n], Creates(n))]
           Way == CHOOSE f : IsAfter(f)
<1>1. L \in Nat /\ \A n \in 1 .. L : path[n] \in Names
  <2>1. PICK n \in 0 .. MaxDepth : path \in [1 .. n -> Names]
    BY DEF Paths
  <2>2. MaxDepth \in Nat
    BY ConstantsAssumption
  <2> QED
    BY <2>1, <2>2
<1>2. MakeDirectory(d, path, create, slash) = Way[L]
  BY Zenon DEF MakeDirectory, MakeTurn, Enter, Make, Fail
<1>3. \A n \in 1 .. L : Creates(n) \in BOOLEAN
  OBVIOUS
<1> HIDE DEF Creates, L, x
<1>4. x \in X
  BY DEF x
<1>5. step \in [(1 .. L) \X X -> X]
  BY <1>1, <1>3
<1>6. \A n \in 1 .. L, j \in X : step[<<n, j>>] = MakeTurn(j, path[n], Creates(n))
  OBVIOUS
<1> HIDE DEF step
<1>7. PICK f \in [0 .. L -> X] : Iterates(f, x, step, L)
  BY <1>1, <1>4, <1>5, IterationExists
<1>8. f[0] = x /\ \A n \in 1 .. L : f[n] = MakeTurn(f[n - 1], path[n], Creates(n))
  <2>1. f[0] = x /\ \A n \in 1 .. L : f[n] = step[<<n, f[n - 1]>>]
    BY <1>7 DEF Iterates
  <2>2. \A n \in 1 .. L : f[n - 1] \in X
    BY <1>1
  <2> QED
    BY <1>6, <2>1, <2>2
<1>9. IsAfter(f)
  <2>1. \A n \in 0 .. L : f[n] = IF n = 0 THEN x ELSE MakeTurn(f[n - 1], path[n], Creates(n))
    BY <1>1, <1>8
  <2> QED
    BY <2>1
<1> HIDE DEF IsAfter
<1>10. IsAfter(Way)
  BY <1>9, Zenon
<1> HIDE DEF Way
<1>11. Way[0] = x /\ \A n \in 1 .. L : Way[n] = MakeTurn(Way[n - 1], path[n], Creates(n))
  BY <1>1, <1>10 DEF IsAfter
<1> DEFINE T == {n \in Nat : n <= L => Way[n] \in X}
<1>12. 0 \in T
  BY <1>4, <1>11
<1>13. ASSUME NEW n \in Nat, n \in T PROVE n + 1 \in T
  <2> SUFFICES ASSUME n + 1 <= L PROVE Way[n + 1] \in X
    OBVIOUS
  <2>1. n + 1 \in 1 .. L /\ (n + 1) - 1 = n /\ Way[n] \in X
    BY <1>1, <1>13
  <2>2. /\ Way[n + 1] = MakeTurn(Way[n], path[n + 1], Creates(n + 1))
        /\ path[n + 1] \in Names /\ Creates(n + 1) \in BOOLEAN
    BY <1>1, <1>3, <1>11, <2>1
  <2> QED
    BY <2>1, <2>2
<1> HIDE DEF T
<1>14. L \in T
  BY <1>1, <1>12, <1>13, SetInduction
<1> QED
  BY <1>1, <1>2, <1>14 DEF T

LEMMA MakeDirectorySafe ==
  ASSUME NEW d, Sound(d), NEW path \in Paths, NEW create \in BOOLEAN, NEW slash \in BOOLEAN
  PROVE  /\ LeavesSound(MakeDirectory(d, path, create, slash), d.Text)
         /\ NamesSound(d) => LeavesNames(MakeDirectory(d, path, create, slash))
         /\ NamesSound(d) /\ Full(d)
              => LeavesFull(MakeDirectory(d, path, create, slash), d.InodeBitMap)
         /\ ~PowerLost(MakeDirectory(d, path, create, slash).panic)
<1> DEFINE Messages == {"none"} \cup {CreateFile(e, j, name, "FT_DIRECTORY").panic :
                                        e \in DisksWith(d.Text), j \in Inodes, name \in Names}
           Outcomes == [disk : DisksWith(d.Text), id : Inodes \cup {-1},
                        panic : Messages, torn : SUBSET DisksWith(d.Text)]
           full == NamesSound(d) /\ Full(d)
           X == {o \in Outcomes : /\ LeavesSound(o, d.Text) /\ (NamesSound(d) => LeavesNames(o))
                                  /\ full => LeavesFull(o, d.InodeBitMap)}
<1>0. \A m \in Messages : ~PowerLost(m)
  BY CreateFilePanic, NotLost
<1>1. "none" \in Messages
  OBVIOUS
<1>2. \A e \in DisksWith(d.Text), j \in Inodes, name \in Names :
         CreateFile(e, j, name, "FT_DIRECTORY").panic \in Messages
  OBVIOUS
<1> HIDE DEF Messages
<1>3. \A o \in X : /\ IsOutcome(o) /\ o.panic \in Messages /\ o.torn \subseteq DisksWith(d.Text)
                   /\ LeavesSound(o, d.Text) /\ (NamesSound(d) => LeavesNames(o))
                   /\ full => LeavesFull(o, d.InodeBitMap)
  BY DEF LeavesSound
<1>4. ASSUME NEW o, LeavesSound(o, d.Text), NamesSound(d) => LeavesNames(o), o.panic \in Messages,
             full => LeavesFull(o, d.InodeBitMap)
      PROVE  o \in X
  <2>1. /\ o = [disk |-> o.disk, id |-> o.id, panic |-> o.panic, torn |-> o.torn]
        /\ o.disk \in DisksWith(d.Text) /\ o.id \in Inodes \cup {-1}
        /\ o.torn \subseteq DisksWith(d.Text)
    BY <1>4 DEF LeavesSound, IsOutcome, Sound
  <2>2. o \in Outcomes
    BY <1>4, <2>1
  <2> QED
    BY <1>4, <2>2
<1> HIDE DEF X, full
<1>5. Outcome({}, d, 0, "none") \in X
  <2> DEFINE o == Outcome({}, d, 0, "none")
  <2>1. o.disk = d /\ o.id = 0 /\ o.panic = "none" /\ o.torn \subseteq {} /\ IsOutcome(o)
    BY OutcomeIs
  <2> HIDE DEF o
  <2>2. LeavesSound(o, d.Text) /\ (NamesSound(d) => LeavesNames(o)) /\ o.panic \in Messages
    BY <1>1, <2>1, Constants DEF LeavesSound, LeavesNames
  <2>3. full => LeavesFull(o, d.InodeBitMap)
    BY <2>1 DEF LeavesFull, NamesSound, full
  <2>4. o \in X
    BY <1>4, <2>2, <2>3
  <2> QED
    BY <2>4 DEF o
<1>6. ASSUME NEW o \in X, NEW name \in Names, NEW creates \in BOOLEAN
      PROVE  MakeTurn(o, name, creates) \in X
  <2> DEFINE r == MakeTurn(o, name, creates)
             i == o.id
             e == o.disk
  <2>1. /\ IsOutcome(o) /\ o.panic \in Messages
        /\ LeavesSound(o, d.Text) /\ (NamesSound(d) => LeavesNames(o))
        /\ Sound(e) /\ e.Text = d.Text /\ i \in Inodes \cup {-1} /\ e \in DisksWith(d.Text)
    BY <1>3 DEF LeavesSound, Sound
  <2>0. /\ NamesSound(d) => NamesSound(e)
        /\ full => LeavesFull(o, d.InodeBitMap)
        /\ full /\ i # -1 => /\ o.panic = "none" /\ i \in e.InodeBitMap /\ Full(e)
                             /\ d.InodeBitMap \subseteq e.InodeBitMap
    BY <1>3 DEF LeavesNames, LeavesFull
  <2>2. ASSUME NEW id \in Inodes \cup {-1}, NEW p, p = [o EXCEPT !.id = id],
               full /\ id # -1 => i # -1 /\ id \in e.InodeBitMap
        PROVE  p \in X
    <3>1. /\ p.disk = o.disk /\ p.id = id /\ p.panic = o.panic /\ p.torn = o.torn
          /\ IsOutcome(p)
      BY <2>1, <2>2 DEF IsOutcome
    <3>2. full => LeavesFull(p, d.InodeBitMap)
      BY <2>0, <2>2, <3>1 DEF LeavesFull
    <3>3. LeavesSound(p, d.Text) /\ (NamesSound(d) => LeavesNames(p)) /\ p.panic \in Messages
      BY <2>1, <3>1 DEF LeavesSound, LeavesNames
    <3> QED
      BY <1>4, <3>2, <3>3
  <2>3. CASE i = -1
    <3>1. r = o
      BY <2>3, Zenon DEF MakeTurn
    <3> QED
      BY <3>1
  <2>4. CASE i # -1 /\ Find(e, i, name) # 0
    <3>1. r = Enter(o, name)
      BY <2>4, Zenon DEF MakeTurn
    <3>2. Find(e, i, name) \in Inodes
      BY <2>1, <2>4, FindHasType
    <3> HIDE DEF r
    <3>3. r = [o EXCEPT !.id = Find(e, i, name)]
      BY <3>1, Zenon DEF Enter
    <3>4. full => Find(e, i, name) \in e.InodeBitMap
      BY <2>0, <2>1, <2>4, FindInUse DEF full
    <3>5. r \in X
      BY <2>2, <2>4, <3>2, <3>3, <3>4
    <3> QED
      BY <3>5 DEF r
  <2>5. CASE i # -1 /\ Find(e, i, name) = 0 /\ creates
    <3> DEFINE c == CreateFile(e, i, name, "FT_DIRECTORY")
    <3>1. r = Make(o, name)
      BY <2>5, Zenon DEF MakeTurn
    <3>2. i \in Inodes
      BY <2>1, <2>5
    <3>3. LeavesSound(c, e.Text) /\ (NamesSound(e) => LeavesNames(c)) /\ c.panic \in Messages
      BY <1>2, <2>1, <3>2, CreateFileSafe
    <3>9. full => LeavesFull(c, d.InodeBitMap)
      <4>1. full => LeavesFull(c, e.InodeBitMap)
        BY <2>0, <2>1, <2>5, CreateFileFull
      <4> HIDE DEF c
      <4> QED
        BY <2>0, <2>5, <4>1 DEF LeavesFull
    <3>4. r = [c EXCEPT !.torn = c.torn \cup o.torn \cup {o.disk}]
      BY <3>1, Zenon DEF Make
    <3> HIDE DEF r, c, e
    <3>5. /\ r.disk = c.disk /\ r.id = c.id /\ r.panic = c.panic
          /\ r.torn = c.torn \cup o.torn \cup {o.disk} /\ IsOutcome(r)
      BY <3>3, <3>4 DEF LeavesSound, IsOutcome
    <3>6. LeavesSound(r, d.Text)
      BY <2>1, <3>3, <3>5 DEF LeavesSound, e
    <3>7. NamesSound(d) => LeavesNames(r)
      BY <2>1, <3>3, <3>5 DEF LeavesNames, e
    <3>10. full => LeavesFull(r, d.InodeBitMap)
      BY <3>5, <3>9 DEF LeavesFull
    <3>11. r \in X
      BY <1>4, <3>3, <3>5, <3>6, <3>7, <3>10
    <3> QED
      BY <3>11 DEF r
  <2>6. CASE i # -1 /\ Find(e, i, name) = 0 /\ ~creates
    <3>1. r = Fail(o)
      BY <2>6, Zenon DEF MakeTurn
    <3> HIDE DEF r
    <3>2. r = [o EXCEPT !.id = -1]
      BY <3>1, Zenon DEF Fail
    <3>3. r \in X
      BY <2>2, <3>2
    <3> QED
      BY <3>3 DEF r
  <2> QED
    BY <2>3, <2>4, <2>5, <2>6
<1>7. MakeDirectory(d, path, create, slash) \in X
  BY <1>5, <1>6, MakeDirectoryStays, Zenon
<1> QED
  BY <1>0, <1>3, <1>7 DEF full

LEMMA WalkHasType ==
  ASSUME NEW d, Sound(d), NEW i \in Inodes, NEW path \in Paths
  PROVE  Walk(d, i, path) \in Inodes \cup {-1}
<1>1. ASSUME NEW j \in Inodes \cup {-1}, NEW name \in Names
      PROVE  Turn(d, j, name) \in Inodes \cup {-1}
  <2>1. CASE j = -1
    BY <2>1 DEF Turn
  <2>2. CASE j # -1
    <3>1. Find(d, j, name) \in Inodes
      BY <2>2, FindHasType
    <3> QED
      BY <2>2, <3>1 DEF Turn
  <2> QED
    BY <2>1, <2>2
<1> QED
  BY <1>1, WalkStays, Zenon
\* A path from an inode in use leads to inodes in use.
LEMMA WalkInUse ==
  ASSUME NEW d, Sound(d), NamesSound(d), NEW i \in d.InodeBitMap, NEW path \in Paths
  PROVE  Walk(d, i, path) \in d.InodeBitMap \cup {-1}
<1> DEFINE X == d.InodeBitMap \cup {-1}
<1>0. d.InodeBitMap \subseteq Inodes
  BY DEF Sound, DisksWith
<1>1. ASSUME NEW j \in X, NEW name \in Names PROVE Turn(d, j, name) \in X
  <2>1. CASE j = -1
    BY <2>1 DEF Turn
  <2>2. CASE j # -1
    <3>1. Find(d, j, name) # 0 => Find(d, j, name) \in d.InodeBitMap
      BY <1>0, <2>2, FindInUse
    <3> QED
      BY <2>2, <3>1 DEF Turn
  <2> QED
    BY <2>1, <2>2
<1>2. i \in X
  OBVIOUS
<1> QED
  BY <1>1, <1>2, WalkStays, Zenon
-----------------------------------------------------------------------------
(***************************************************************************)
(* Clear gives back the blocks of a file and leaves a directory alone.     *)
(***************************************************************************)
BlocksUsedBy(d, i) == {BlockAt(d, i, k) : k \in NumbersAt(d, i)}

TextsLeft(d, i) == [b \in Blocks |-> IF b \in BlocksUsedBy(d, i) THEN NoText ELSE d.Text[b]]

Cleared(d, i, e) ==
  \/ d.Inode[i].Type # "FT_FILE" /\ e = d
  \/ /\ d.Inode[i].Type = "FT_FILE"
     /\ e \in DisksWith(e.Text)
     /\ e.InodeBitMap = d.InodeBitMap /\ e.DataBitMap = d.DataBitMap \ BlocksUsedBy(d, i)
     /\ \A j \in Inodes : j # i => e.Inode[j] = d.Inode[j]
     /\ e.Inode[i].Type = "FT_FILE" /\ e.Inode[i].Size = 0
     /\ \A b \in Blocks : e.Data[b] = IF b \in BlocksUsedBy(d, i) THEN Zeros ELSE d.Data[b]
     /\ e.Text = TextsLeft(d, i)

LEMMA ClearIs ==
  ASSUME NEW d, Sound(d), NEW i \in Inodes
  PROVE  Cleared(d, i, Clear(d, i).disk)
<1> DEFINE c == Clear(d, i)
           e == c.disk
           node == d.Inode[i]
           n == BlocksOf(node.Size)
           blocks(m) == {node.DirectBlock[k] : k \in 0 .. m - 1}
           S == BlocksUsedBy(d, i)
           direct == [k \in DOMAIN node.DirectBlock |-> IF k < n THEN 0 ELSE node.DirectBlock[k]]
           data == [b \in Blocks |-> IF b \in S THEN Zeros ELSE d.Data[b]]
           text == [b \in Blocks |-> IF b \in S THEN NoText ELSE d.Text[b]]
           cleared == [node EXCEPT !.Size = 0, !.DirectBlock = direct]
           inode == [d.Inode EXCEPT ![i] = cleared]
<1>1. CASE node.Type # "FT_FILE"
  <2>1. c = Outcome({}, d, i, "none")
    BY <1>1, Zenon DEF Clear
  <2> HIDE DEF c
  <2>2. c.disk = d
    BY <2>1, OutcomeIs
  <2> QED
    BY <1>1, <2>2 DEF c, Cleared
<1>2. CASE node.Type = "FT_FILE"
  <2> DEFINE f == Freed(d, blocks(n))
             cut == [k \in DOMAIN f.Inode[i].DirectBlock |->
                       IF k < n THEN 0 ELSE node.DirectBlock[k]]
  <2>0. \E torn : c = Outcome(torn, [f EXCEPT !.Inode[i].Size = 0, !.Inode[i].DirectBlock = cut],
                              i, "none")
    BY <1>2, Zenon DEF Clear
  <2>1. \E torn : c = Outcome(torn, [f EXCEPT !.Inode[i].Size = 0, !.Inode[i].DirectBlock = direct],
                              i, "none")
    <3>1. f.Inode = d.Inode
      <4> HIDE DEF blocks
      <4> QED
        BY DEF Freed, Wiped, Sound, DisksWith
    <3>2. cut = direct
      BY <3>1
    <3> HIDE DEF cut, direct, f, c
    <3> QED
      BY <2>0, <3>2
  <2>2. S = blocks(n)
    BY Zenon DEF BlocksUsedBy, BlockAt, NumbersAt, Numbers
  <2> HIDE DEF c
  <2>3. e = [Freed(d, S) EXCEPT !.Inode[i].Size = 0, !.Inode[i].DirectBlock = direct]
    <3> HIDE DEF blocks, direct, n, S
    <3>1. e = [Freed(d, blocks(n)) EXCEPT !.Inode[i].Size = 0, !.Inode[i].DirectBlock = direct]
      BY <2>1, OutcomeIs
    <3> QED
      BY <2>2, <3>1, Zenon
  <2>4. /\ d \in DisksWith(d.Text) /\ node \in NodeTypes
        /\ NumbersAt(d, i) \subseteq 0 .. INODE_DIRECT_BLOCKS - 1
        /\ d.Inode \in [Inodes -> NodeTypes] /\ d.Data \in [Blocks -> [Slots -> EntryTypes]]
        /\ d.DataBitMap \in SUBSET Blocks
    BY NodeSizes DEF Sound, DisksWith
  <2>5. Zeros \in [Slots -> EntryTypes]
    <3>1. Entry(0, "") \in EntryTypes
      BY Constants DEF Entry, EntryTypes
    <3> QED
      BY <3>1 DEF Zeros
  <2>6. data \in [Blocks -> [Slots -> EntryTypes]]
    <3> HIDE DEF S
    <3> QED
      BY <2>4, <2>5
  <2>7. direct \in [0 .. INODE_DIRECT_BLOCKS - 1 -> Blocks \cup {0}]
    BY <2>4 DEF NodeTypes
  <2>8. /\ cleared \in NodeTypes /\ cleared.Type = "FT_FILE" /\ cleared.Size = 0
    <3> HIDE DEF direct, node
    <3> QED
      BY <1>2, <2>4, <2>7, NumbersBound DEF NodeTypes
  <2>9. inode \in [Inodes -> NodeTypes]
    <3> HIDE DEF cleared
    <3> QED
      BY <2>4, <2>8
  <2>10. Freed(d, S) = [d EXCEPT !.Data = data, !.Text = text, !.DataBitMap = d.DataBitMap \ S]
    <3> DEFINE w == Wiped(d, S)
    <3>1. w = [d EXCEPT !.Data = data, !.Text = text]
      BY Zenon DEF Wiped
    <3>2. Freed(d, S) = [w EXCEPT !.DataBitMap = w.DataBitMap \ S]
      BY Zenon DEF Freed
    <3> HIDE DEF data, text, S, w
    <3> QED
      BY <2>4, <3>1, <3>2 DEF DisksWith
  <2>11. e = [Freed(d, S) EXCEPT !.Inode =
                [Freed(d, S).Inode EXCEPT ![i] =
                   [Freed(d, S).Inode[i] EXCEPT !.Size = 0, !.DirectBlock = direct]]]
    <3> DEFINE g == Freed(d, S)
    <3> HIDE DEF direct, g
    <3>1. e = [g EXCEPT !.Inode[i].Size = 0, !.Inode[i].DirectBlock = direct]
      BY <2>3 DEF g
    <3>2. g \in DisksWith(text)
      <4> HIDE DEF S, data, text
      <4> QED
        BY <2>4, <2>6, <2>10 DEF g, DisksWith
    <3> HIDE DEF text, e
    <3>3. g.Inode \in [Inodes -> NodeTypes] /\ g.Inode[i] \in NodeTypes
      BY <3>2 DEF DisksWith
    <3>4. e = [g EXCEPT !.Inode =
                [g.Inode EXCEPT ![i] = [g.Inode[i] EXCEPT !.Size = 0, !.DirectBlock = direct]]]
      BY <3>1, <3>2, <3>3 DEF DisksWith, NodeTypes
    <3> QED
      BY <3>4 DEF e, g
  <2> HIDE DEF S, data, text, direct, cleared, inode, e
  <2>12. Freed(d, S).Inode = d.Inode
    BY <2>4, <2>10 DEF DisksWith
  <2>13. /\ e.InodeBitMap = d.InodeBitMap /\ e.DataBitMap = d.DataBitMap \ S
         /\ e.Data = data /\ e.Inode = inode /\ e.Text = text
         /\ e \in DisksWith(text)
    <3>1. e = [Freed(d, S) EXCEPT !.Inode = inode]
      BY <2>11, <2>12 DEF inode, cleared
    <3> QED
      BY <2>4, <2>6, <2>9, <2>10, <3>1 DEF DisksWith
  <2>14. inode[i] = cleared /\ \A j \in Inodes : j # i => inode[j] = d.Inode[j]
    BY <2>4 DEF inode
  <2>15. \A b \in Blocks : data[b] = IF b \in S THEN Zeros ELSE d.Data[b]
    BY DEF data
  <2> QED
    BY <1>2, <2>8, <2>13, <2>14, <2>15 DEF e, c, S, text, TextsLeft, Cleared
<1> QED
  BY <1>1, <1>2

LEMMA ClearSafe ==
  ASSUME NEW d, Sound(d), NEW i \in Inodes
  PROVE  /\ Sound(Clear(d, i).disk)
         /\ NamesSound(d) => NamesSound(Clear(d, i).disk)
<1> DEFINE e == Clear(d, i).disk
           S == BlocksUsedBy(d, i)
<1>1. \/ e = d
      \/ /\ d.Inode[i].Type = "FT_FILE"
         /\ e \in DisksWith(e.Text)
         /\ e.InodeBitMap = d.InodeBitMap /\ e.DataBitMap = d.DataBitMap \ S
         /\ \A j \in Inodes : j # i => e.Inode[j] = d.Inode[j]
         /\ e.Inode[i].Type = "FT_FILE" /\ e.Inode[i].Size = 0
         /\ \A b \in Blocks : e.Data[b] = IF b \in S THEN Zeros ELSE d.Data[b]
  BY ClearIs DEF Cleared
<1> HIDE DEF e
<1>2. CASE e = d
  BY <1>2 DEF e
<1>3. CASE e # d
  <2>0. \A b : b \in S <=> \E k \in NumbersAt(d, i) : b = BlockAt(d, i, k)
    BY DEF BlocksUsedBy
  <2> HIDE DEF S
  <2>1. ASSUME NEW j \in Inodes, NEW l \in NumbersAt(e, j)
        PROVE  /\ j # i /\ l \in NumbersAt(d, j) /\ BlockAt(e, j, l) = BlockAt(d, j, l)
               /\ BlockAt(d, j, l) \in e.DataBitMap
               /\ BlockAt(d, j, l) \notin S
    <3>1. j # i
      BY <1>1, <1>3, <2>1, NumbersBound DEF NumbersAt
    <3>2. l \in NumbersAt(d, j) /\ BlockAt(e, j, l) = BlockAt(d, j, l)
      BY <1>1, <1>3, <2>1, <3>1 DEF NumbersAt, BlockAt
    <3>3. BlockAt(d, j, l) \in d.DataBitMap
      BY <3>2 DEF Sound
    <3>4. \A h, o \in Inodes : \A f \in NumbersAt(d, h), g \in NumbersAt(d, o) :
             BlockAt(d, h, f) = BlockAt(d, o, g) => h = o /\ f = g
      BY DEF Sound
    <3>5. BlockAt(d, j, l) \notin S
      BY <2>0, <3>1, <3>2, <3>4
    <3> QED
      BY <1>1, <1>3, <3>1, <3>2, <3>3, <3>5
  <2>2. ASSUME NEW b \in Blocks, b \notin e.DataBitMap PROVE e.Data[b] = Zeros
    <3>1. b \notin d.DataBitMap => d.Data[b] = Zeros
      BY DEF Sound
    <3>2. b \in S \/ b \notin d.DataBitMap
      BY <1>1, <1>3, <2>2
    <3> QED
      BY <1>1, <1>3, <3>1, <3>2
  <2>3. Sound(e)
    <3>1. \A j \in Inodes : IsDirectory(e, j) => e.Inode[j].Size % EntrySize = 0
      BY <1>1, <1>3 DEF Sound, IsDirectory
    <3>2. ASSUME NEW j \in Inodes, NEW l \in NumbersAt(e, j), NEW h \in Inodes,
                 NEW m \in NumbersAt(e, h), BlockAt(e, j, l) = BlockAt(e, h, m)
          PROVE  j = h /\ l = m
      <4>1. /\ l \in NumbersAt(d, j) /\ BlockAt(e, j, l) = BlockAt(d, j, l)
            /\ m \in NumbersAt(d, h) /\ BlockAt(e, h, m) = BlockAt(d, h, m)
        BY <2>1
      <4>2. BlockAt(d, j, l) = BlockAt(d, h, m)
        BY <3>2, <4>1
      <4>3. \A a, o \in Inodes : \A f \in NumbersAt(d, a), g \in NumbersAt(d, o) :
             BlockAt(d, a, f) = BlockAt(d, o, g) => a = o /\ f = g
        BY DEF Sound
      <4> QED
        BY <4>1, <4>2, <4>3
    <3>3. \A j \in Inodes : \A l \in NumbersAt(e, j) : BlockAt(e, j, l) \in e.DataBitMap
      BY <2>1
    <3>4. e \in DisksWith(e.Text)
      BY <1>1, <1>3
    <3> QED
      BY <2>2, <3>1, <3>2, <3>3, <3>4 DEF Sound
  <2>4. ASSUME NamesSound(d) PROVE NamesSound(e)
    <3>1. ASSUME NEW j \in Inodes, NEW l \in NumbersAt(e, j), NEW t \in Slots, HasName(e, j, l, t)
          PROVE  /\ HasName(d, j, l, t)
                 /\ EntryIn(e, j, l, t) = EntryIn(d, j, l, t)
                 /\ EntryIn(d, j, l, t).InodeID \in e.InodeBitMap
      <4>1. /\ j # i /\ l \in NumbersAt(d, j) /\ BlockAt(e, j, l) = BlockAt(d, j, l)
            /\ BlockAt(d, j, l) \in Blocks /\ BlockAt(d, j, l) \notin S
        BY <2>1, EntryHasType
      <4>2. EntryIn(e, j, l, t) = EntryIn(d, j, l, t)
        BY <1>1, <1>3, <4>1 DEF EntryIn, BlockAt
      <4>3. HasName(d, j, l, t)
        BY <1>1, <1>3, <3>1, <4>1, <4>2 DEF HasName, IsDirectory
      <4>4. EntryIn(d, j, l, t).InodeID \in d.InodeBitMap
        BY <2>4, <4>1, <4>3 DEF NamesSound
      <4> QED
        BY <1>1, <1>3, <4>2, <4>3, <4>4
    <3>2. 0 \in e.InodeBitMap
      BY <1>1, <1>3, <2>4 DEF NamesSound
    <3> QED
      BY <2>4, <3>1, <3>2, NamesStaySound
  <2> QED
    BY <2>3, <2>4 DEF e
<1> QED
  BY <1>2, <1>3

\* The directories of e, and what is in their blocks, are those of d.
SameDirectories(d, e) ==
  /\ e.InodeBitMap = d.InodeBitMap
  /\ \A j \in Inodes : IsDirectory(d, j) => e.Inode[j] = d.Inode[j]
  /\ \A j \in Inodes : IsDirectory(e, j) => IsDirectory(d, j)
  /\ \A j \in Inodes : \A k \in NumbersAt(d, j) :
       IsDirectory(d, j) => e.Data[BlockAt(d, j, k)] = d.Data[BlockAt(d, j, k)]

LEMMA SameNames ==
  ASSUME NEW d, NEW e, SameDirectories(d, e), d.InodeBitMap \subseteq Inodes,
         InodesNamed(d), NamesCounted(d)
  PROVE  InodesNamed(e) /\ NamesCounted(e)
<1>1. ASSUME NEW j \in Inodes, IsDirectory(d, j)
      PROVE  /\ IsDirectory(e, j) /\ NumbersAt(e, j) = NumbersAt(d, j)
             /\ e.Inode[j].Size = d.Inode[j].Size
             /\ \A k \in NumbersAt(d, j) : \A s : EntryIn(e, j, k, s) = EntryIn(d, j, k, s)
  BY <1>1 DEF SameDirectories, IsDirectory, NumbersAt, EntryIn, BlockAt
<1>2. ASSUME NEW j, NEW k, NEW s
      PROVE  /\ HasName(e, j, k, s) <=> HasName(d, j, k, s)
             /\ HasName(d, j, k, s) => /\ EntryIn(e, j, k, s) = EntryIn(d, j, k, s)
                                       /\ e.Inode[j].Size = d.Inode[j].Size
  BY <1>1 DEF HasName, SameDirectories
<1>3. InodesNamed(e)
  BY <1>2 DEF InodesNamed, SameDirectories
<1>4. NamesCounted(e)
  BY <1>2 DEF NamesCounted
<1> QED
  BY <1>3, <1>4

LEMMA ClearFull ==
  ASSUME NEW d, Sound(d), Full(d), NEW i \in Inodes
  PROVE  Full(Clear(d, i).disk) /\ Clear(d, i).disk.InodeBitMap = d.InodeBitMap
<1> DEFINE e == Clear(d, i).disk
           S == BlocksUsedBy(d, i)
<1>1. \/ e = d
      \/ /\ d.Inode[i].Type = "FT_FILE"
         /\ e.InodeBitMap = d.InodeBitMap /\ e.DataBitMap = d.DataBitMap \ S
         /\ \A j \in Inodes : j # i => e.Inode[j] = d.Inode[j]
         /\ e.Inode[i].Type = "FT_FILE"
         /\ \A b \in Blocks : e.Data[b] = IF b \in S THEN Zeros ELSE d.Data[b]
  BY ClearIs DEF Cleared
<1> HIDE DEF e
<1>2. CASE e = d
  BY <1>2 DEF e
<1>3. CASE e # d
  <2>0. /\ \A b : b \in S <=> \E k \in NumbersAt(d, i) : b = BlockAt(d, i, k)
        /\ d.InodeBitMap \subseteq Inodes
    BY DEF BlocksUsedBy, Sound, DisksWith
  <2> HIDE DEF S
  <2>1. ASSUME NEW j \in Inodes, j # i, NEW k \in NumbersAt(d, j)
        PROVE  BlockAt(d, j, k) \in Blocks /\ BlockAt(d, j, k) \notin S
    <3>1. \A h, o \in Inodes : \A f \in NumbersAt(d, h), g \in NumbersAt(d, o) :
             BlockAt(d, h, f) = BlockAt(d, o, g) => h = o /\ f = g
      BY DEF Sound
    <3>2. BlockAt(d, j, k) \in Blocks
      BY Constants, <2>1 DEF Sound, DisksWith
    <3> QED
      BY <2>0, <2>1, <3>1, <3>2
  <2>2. SameDirectories(d, e)
    <3>1. \A j \in Inodes : IsDirectory(d, j) => j # i
      BY <1>1, <1>3 DEF IsDirectory
    <3>2. \A j \in Inodes : IsDirectory(d, j) => e.Inode[j] = d.Inode[j]
      BY <1>1, <1>3, <3>1
    <3>3. \A j \in Inodes : IsDirectory(e, j) => IsDirectory(d, j)
      BY <1>1, <1>3 DEF IsDirectory
    <3>4. \A j \in Inodes : \A k \in NumbersAt(d, j) :
             IsDirectory(d, j) => e.Data[BlockAt(d, j, k)] = d.Data[BlockAt(d, j, k)]
      BY <1>1, <1>3, <2>1, <3>1
    <3> QED
      BY <1>1, <1>3, <3>2, <3>3, <3>4 DEF SameDirectories
  <2>3. BlocksOwned(e)
    <3> SUFFICES ASSUME NEW b \in e.DataBitMap
                 PROVE  \E j \in e.InodeBitMap : \E k \in NumbersAt(e, j) : BlockAt(e, j, k) = b
      BY DEF BlocksOwned
    <3>1. b \in d.DataBitMap /\ b \notin S
      BY <1>1, <1>3
    <3>2. PICK j \in d.InodeBitMap : \E k \in NumbersAt(d, j) : BlockAt(d, j, k) = b
      BY <3>1 DEF Full, BlocksOwned
    <3>3. PICK k \in NumbersAt(d, j) : BlockAt(d, j, k) = b
      BY <3>2
    <3>4. j # i
      BY <2>0, <3>1, <3>3
    <3>5. e.Inode[j] = d.Inode[j] /\ j \in e.InodeBitMap
      BY <1>1, <1>3, <2>0, <3>4
    <3>6. k \in NumbersAt(e, j) /\ BlockAt(e, j, k) = b
      BY <3>3, <3>5 DEF NumbersAt, BlockAt
    <3> QED
      BY <3>5, <3>6
  <2> QED
    BY <1>1, <1>3, <2>0, <2>2, <2>3, SameNames DEF Full, e
<1> QED
  BY <1>2, <1>3
-----------------------------------------------------------------------------
(***************************************************************************)
(* WriteFileContent changes one file; what it leaves when the power goes   *)
(* is sound unless it was to clear the file first.                         *)
(***************************************************************************)
AppendedNode(e, i, block, len) ==
  [e.Inode[i] EXCEPT !.DirectBlock[NumberOf(e, i)] = block,
                     !.Size = SizeWithMark(e.Inode[i].Size) + len]

InodeLinked(d, i, block, len) == [d.Inode EXCEPT ![i] = AppendedNode(d, i, block, len)]

\* f differs from d in one block, what texts hold, and the inode of a file.
Appends(d, f, i, block, len) ==
  /\ f = [d EXCEPT !.DataBitMap = f.DataBitMap, !.Text = f.Text, !.Inode = f.Inode]
  /\ f.DataBitMap = d.DataBitMap \cup {block}
  /\ \/ f.Inode = d.Inode
     \/ f.Inode = InodeLinked(d, i, block, len)

LEMMA AppendedNodeIs ==
  ASSUME NEW d, Sound(d), NEW i \in Inodes, d.Inode[i].Type = "FT_FILE",
         NumberOf(d, i) < INODE_DIRECT_BLOCKS,
         NEW len \in Nat, (SizeWithMark(d.Inode[i].Size) % BlockSize) + len <= BlockSize,
         NEW block,
         NeedsBlock(d, i) => block \in Blocks /\ block \notin d.DataBitMap,
         ~NeedsBlock(d, i) => block = BlockAt(d, i, NumberOf(d, i))
  PROVE  LET node == AppendedNode(d, i, block, len)
         IN  /\ block \in Blocks /\ NumberOf(d, i) \in 0 .. INODE_DIRECT_BLOCKS - 1
             /\ node \in NodeTypes /\ node.Type = "FT_FILE"
             /\ node.Size = SizeWithMark(d.Inode[i].Size) + len
             /\ Numbers(node.Size) \subseteq NumbersAt(d, i) \cup {NumberOf(d, i)}
             /\ (SizeWithMark(d.Inode[i].Size) % BlockSize) # 0 \/ len # 0
                  => Numbers(node.Size) = NumbersAt(d, i) \cup {NumberOf(d, i)}
             /\ NeedsBlock(d, i) <=> NumberOf(d, i) \notin NumbersAt(d, i)
             /\ node.DirectBlock[NumberOf(d, i)] = block
             /\ \A k \in 0 .. INODE_DIRECT_BLOCKS - 1 :
                  k # NumberOf(d, i) => node.DirectBlock[k] = BlockAt(d, i, k)
<1> DEFINE size == d.Inode[i].Size
           q == NumberOf(d, i)
           node == AppendedNode(d, i, block, len)
<1>1. /\ d.Inode[i] \in NodeTypes /\ size \in Sizes /\ d.DataBitMap \in SUBSET Blocks
      /\ d \in DisksWith(d.Text) /\ d.Inode \in [Inodes -> NodeTypes]
      /\ q \in Nat /\ q < INODE_DIRECT_BLOCKS
      /\ NumbersAt(d, i) \subseteq 0 .. INODE_DIRECT_BLOCKS - 1
  BY NodeSizes DEF Sound, DisksWith, NumberOf
<1>2. /\ SizeWithMark(size) + len \in Sizes
      /\ Numbers(SizeWithMark(size) + len) \subseteq NumbersAt(d, i) \cup {q}
      /\ NeedsBlock(d, i) <=> q \notin NumbersAt(d, i)
  BY <1>1, NumbersOfText DEF NumberOf, NeedsBlock, NumbersAt
<1>3. block \in Blocks
  <2>1. CASE ~NeedsBlock(d, i)
    <3>1. q \in NumbersAt(d, i) /\ block = BlockAt(d, i, q)
      BY <1>2, <2>1
    <3>2. BlockAt(d, i, q) \in d.DataBitMap
      BY <3>1 DEF Sound
    <3> QED
      BY <1>1, <3>1, <3>2
  <2> QED
    BY <2>1
<1>4. q \in 0 .. INODE_DIRECT_BLOCKS - 1
  BY <1>1, Constants
<1> HIDE DEF q
<1>5. /\ node.Size = SizeWithMark(size) + len
      /\ node.Type = "FT_FILE"
      /\ node.DirectBlock = [d.Inode[i].DirectBlock EXCEPT ![q] = block]
      /\ node \in NodeTypes
  <2>1. node = [d.Inode[i] EXCEPT !.DirectBlock = [@ EXCEPT ![q] = block],
                                  !.Size = SizeWithMark(size) + len]
    BY Zenon DEF AppendedNode, q
  <2> HIDE DEF node
  <2> QED
    BY <1>1, <1>2, <1>3, <1>4, <2>1 DEF NodeTypes
<1> HIDE DEF node
<1>6. /\ node.DirectBlock[q] = block
      /\ \A k \in 0 .. INODE_DIRECT_BLOCKS - 1 : k # q => node.DirectBlock[k] = BlockAt(d, i, k)
  <2>1. d.Inode[i].DirectBlock \in [0 .. INODE_DIRECT_BLOCKS - 1 -> Blocks \cup {0}]
    BY <1>1 DEF NodeTypes
  <2> QED
    BY <1>4, <1>5, <2>1 DEF BlockAt
<1>7. (SizeWithMark(size) % BlockSize) # 0 \/ len # 0
        => Numbers(SizeWithMark(size) + len) = NumbersAt(d, i) \cup {q}
  BY <1>1, NumbersReached DEF NumberOf, NumbersAt, q
<1> QED
  BY <1>2, <1>3, <1>4, <1>5, <1>6, <1>7 DEF node, q

LEMMA AppendSafe ==
  ASSUME NEW d, Sound(d), NEW i \in Inodes, d.Inode[i].Type = "FT_FILE",
         NumberOf(d, i) < INODE_DIRECT_BLOCKS,
         NEW len \in Nat, (SizeWithMark(d.Inode[i].Size) % BlockSize) + len <= BlockSize,
         NEW block,
         NeedsBlock(d, i) => block \in Blocks /\ block \notin d.DataBitMap,
         ~NeedsBlock(d, i) => block = BlockAt(d, i, NumberOf(d, i)),
         NEW e, Appends(d, e, i, block, len)
  PROVE  /\ Sound(e) /\ (NamesSound(d) => NamesSound(e))
         /\ e.InodeBitMap = d.InodeBitMap /\ e.Data = d.Data
<1> DEFINE size == d.Inode[i].Size
           q == NumberOf(d, i)
           node == AppendedNode(d, i, block, len)
<1>1. /\ d.DataBitMap \in SUBSET Blocks
      /\ d \in DisksWith(d.Text) /\ d.Inode \in [Inodes -> NodeTypes]
      /\ NumbersAt(d, i) \subseteq 0 .. INODE_DIRECT_BLOCKS - 1
  BY NodeSizes DEF Sound, DisksWith
<1>2. /\ block \in Blocks /\ node \in NodeTypes /\ node.Type = "FT_FILE"
      /\ Numbers(node.Size) \subseteq NumbersAt(d, i) \cup {q}
      /\ NeedsBlock(d, i) <=> q \notin NumbersAt(d, i)
      /\ node.DirectBlock[q] = block
      /\ \A k \in 0 .. INODE_DIRECT_BLOCKS - 1 : k # q => node.DirectBlock[k] = BlockAt(d, i, k)
  BY AppendedNodeIs
<1> HIDE DEF q, node
<1>3. /\ \A j \in Inodes : j # i => e.Inode[j] = d.Inode[j]
      /\ e.Inode[i] = d.Inode[i] \/ e.Inode[i] = node
      /\ e.Inode \in [Inodes -> NodeTypes]
  BY <1>1, <1>2 DEF node, Appends, InodeLinked
<1>4. /\ e.InodeBitMap = d.InodeBitMap /\ e.Data = d.Data /\ e \in DisksWith(e.Text)
  <2>1. e.DataBitMap \in SUBSET Blocks
    BY <1>1, <1>2 DEF Appends
  <2> DEFINE inode == e.Inode
             text == e.Text
             dataBits == e.DataBitMap
  <2>2. e = [d EXCEPT !.DataBitMap = dataBits, !.Text = text, !.Inode = inode]
    BY Zenon DEF Appends
  <2>3. inode \in [Inodes -> NodeTypes] /\ dataBits \in SUBSET Blocks
    BY <1>3, <2>1
  <2> HIDE DEF inode, text, dataBits
  <2>4. e.InodeBitMap = d.InodeBitMap /\ e.Data = d.Data /\ e \in DisksWith(text)
    BY <1>1, <2>2, <2>3 DEF DisksWith
  <2> QED
    BY <2>4 DEF text
<1>5. ASSUME NEW j \in Inodes, NEW l \in NumbersAt(e, j)
      PROVE  \/ /\ l \in NumbersAt(d, j)
                /\ BlockAt(e, j, l) = BlockAt(d, j, l)
                /\ BlockAt(d, j, l) \in e.DataBitMap
             \/ /\ i = j /\ q = l
                /\ BlockAt(e, j, l) = block
                /\ block \notin d.DataBitMap
  <2>0. \A k \in NumbersAt(d, j) : BlockAt(d, j, k) \in e.DataBitMap
    BY DEF Sound, Appends
  <2>1. CASE e.Inode[j] = d.Inode[j]
    BY <2>0, <2>1 DEF NumbersAt, BlockAt
  <2>2. CASE j = i /\ e.Inode[j] = node
    <3>1. l \in NumbersAt(d, i) \cup {q} /\ BlockAt(e, j, l) = node.DirectBlock[l]
      BY <1>2, <2>2 DEF NumbersAt, BlockAt
    <3>2. CASE l = q
      BY <1>2, <2>0, <2>2, <3>1, <3>2 DEF q
    <3>3. CASE l # q
      BY <1>1, <1>2, <2>0, <2>2, <3>1, <3>3
    <3> QED
      BY <3>2, <3>3
  <2> QED
    BY <1>3, <2>1, <2>2
<1>6. \A j \in Inodes : IsDirectory(e, j) =>
          /\ IsDirectory(d, j) /\ j # i /\ e.Inode[j] = d.Inode[j]
  <2>1. e.Inode[i].Type = "FT_FILE"
    BY <1>2, <1>3
  <2> QED
    BY <1>3, <2>1 DEF IsDirectory
<1>7. Sound(e)
  <2>1. \A j \in Inodes : IsDirectory(e, j) => e.Inode[j].Size % EntrySize = 0
    BY <1>6 DEF Sound
  <2>2. \A b \in Blocks : b \notin e.DataBitMap => e.Data[b] = Zeros
    <3>1. \A b \in d.DataBitMap : b \in e.DataBitMap
      BY DEF Appends
    <3> QED
      BY <1>4, <3>1 DEF Sound
  <2>3. block \in e.DataBitMap /\ e \in DisksWith(e.Text)
    BY <1>4 DEF Appends
  <2>4. OneNewBlock(d, e, i, q, block)
    BY <1>5 DEF OneNewBlock
  <2> QED
    BY <2>1, <2>2, <2>3, <2>4, StaysSound
<1>8. ASSUME NamesSound(d) PROVE NamesSound(e)
  <2>1. ASSUME NEW j \in Inodes, NEW l \in NumbersAt(e, j), NEW t \in Slots, HasName(e, j, l, t)
        PROVE  /\ HasName(d, j, l, t)
               /\ EntryIn(e, j, l, t) = EntryIn(d, j, l, t)
               /\ EntryIn(d, j, l, t).InodeID \in e.InodeBitMap
    <3>1. IsDirectory(d, j) /\ e.Inode[j] = d.Inode[j]
      BY <1>6, <2>1 DEF HasName
    <3>2. EntryIn(e, j, l, t) = EntryIn(d, j, l, t) /\ l \in NumbersAt(d, j)
      BY <1>4, <3>1, <2>1 DEF EntryIn, NumbersAt
    <3>3. HasName(d, j, l, t)
      BY <2>1, <3>1, <3>2 DEF HasName
    <3>4. EntryIn(d, j, l, t).InodeID \in d.InodeBitMap
      BY <1>8, <3>2, <3>3 DEF NamesSound
    <3> QED
      BY <1>4, <3>2, <3>3, <3>4
  <2>2. 0 \in e.InodeBitMap
    BY <1>4, <1>8 DEF NamesSound
  <2> QED
    BY <1>8, <2>1, <2>2, NamesStaySound
<1> QED
  BY <1>4, <1>7, <1>8

\* Nothing is lost when the inode names the block that was taken.
LEMMA AppendFull ==
  ASSUME NEW d, Sound(d), Full(d), NEW i \in d.InodeBitMap, d.Inode[i].Type = "FT_FILE",
         NumberOf(d, i) < INODE_DIRECT_BLOCKS,
         NEW len \in Nat, (SizeWithMark(d.Inode[i].Size) % BlockSize) + len <= BlockSize,
         (SizeWithMark(d.Inode[i].Size) % BlockSize) # 0 \/ len # 0,
         NEW block,
         NeedsBlock(d, i) => block \in Blocks /\ block \notin d.DataBitMap,
         ~NeedsBlock(d, i) => block = BlockAt(d, i, NumberOf(d, i)),
         NEW e, e.InodeBitMap = d.InodeBitMap, e.Data = d.Data,
         e.DataBitMap = d.DataBitMap \cup {block},
         e.Inode = InodeLinked(d, i, block, len)
  PROVE  Full(e)
<1> DEFINE q == NumberOf(d, i)
           node == AppendedNode(d, i, block, len)
<1>1. /\ i \in Inodes /\ d.InodeBitMap \subseteq Inodes /\ d.Inode \in [Inodes -> NodeTypes]
  BY DEF Sound, DisksWith
<1>2. NumbersAt(d, i) \subseteq 0 .. INODE_DIRECT_BLOCKS - 1
  BY <1>1, NodeSizes DEF Sound
<1>3. /\ node.Type = "FT_FILE"
      /\ Numbers(node.Size) = NumbersAt(d, i) \cup {q}
      /\ NeedsBlock(d, i) <=> q \notin NumbersAt(d, i)
      /\ node.DirectBlock[q] = block
      /\ \A k \in 0 .. INODE_DIRECT_BLOCKS - 1 : k # q => node.DirectBlock[k] = BlockAt(d, i, k)
  BY <1>1, AppendedNodeIs
<1>4. ~NeedsBlock(d, i) => block = BlockAt(d, i, q)
  OBVIOUS
<1> HIDE DEF q, node
<1>5. e.Inode[i] = node /\ \A j \in Inodes : j # i => e.Inode[j] = d.Inode[j]
  <2>1. e.Inode = [d.Inode EXCEPT ![i] = node]
    BY Zenon DEF node, InodeLinked
  <2> QED
    BY <1>1, <2>1
<1>6. SameDirectories(d, e)
  <2>1. \A j \in Inodes : IsDirectory(d, j) \/ IsDirectory(e, j) => j # i
    BY <1>3, <1>5 DEF IsDirectory
  <2> QED
    BY <1>5, <2>1 DEF SameDirectories, IsDirectory
<1>7. ASSUME NEW j \in Inodes, NEW k \in NumbersAt(d, j)
      PROVE  k \in NumbersAt(e, j) /\ BlockAt(e, j, k) = BlockAt(d, j, k)
  <2>1. CASE j # i
    BY <1>5, <2>1 DEF NumbersAt, BlockAt
  <2>2. CASE j = i
    <3>1. k \in Numbers(node.Size) /\ k \in 0 .. INODE_DIRECT_BLOCKS - 1
      BY <1>2, <1>3, <2>2
    <3>2. node.DirectBlock[k] = BlockAt(d, i, k)
      BY <1>3, <1>4, <2>2, <3>1
    <3> QED
      BY <1>5, <2>2, <3>1, <3>2 DEF NumbersAt, BlockAt
  <2> QED
    BY <2>1, <2>2
<1>8. q \in NumbersAt(e, i) /\ BlockAt(e, i, q) = block
  BY <1>3, <1>5 DEF NumbersAt, BlockAt
<1>9. BlocksOwned(e)
  <2> SUFFICES ASSUME NEW b \in e.DataBitMap
               PROVE  \E j \in e.InodeBitMap : \E k \in NumbersAt(e, j) : BlockAt(e, j, k) = b
    BY DEF BlocksOwned
  <2>1. CASE b = block
    BY <1>8, <2>1
  <2>2. CASE b # block
    <3>1. b \in d.DataBitMap
      BY <2>2
    <3>2. PICK j \in d.InodeBitMap : \E k \in NumbersAt(d, j) : BlockAt(d, j, k) = b
      BY <3>1 DEF Full, BlocksOwned
    <3>3. PICK k \in NumbersAt(d, j) : BlockAt(d, j, k) = b
      BY <3>2
    <3>4. j \in e.InodeBitMap /\ k \in NumbersAt(e, j) /\ BlockAt(e, j, k) = b
      BY <1>1, <1>7, <3>3
    <3> QED
      BY <3>4
  <2> QED
    BY <2>1, <2>2
<1> QED
  BY <1>1, <1>6, <1>9, SameNames DEF Full

\* The disks an append goes through.
TextWritten(d, i, block, text) ==
  [BlockTaken(d, block) EXCEPT !.Text[block] = Marked(@, d.Inode[i].Size, text)]

TextLinked(d, i, block, text) ==
  [TextWritten(d, i, block, text) EXCEPT
     !.Inode[i].DirectBlock[NumberOf(d, i)] = block,
     !.Inode[i].Size = SizeWithMark(d.Inode[i].Size) + Len(text)]

Appended(d, i, block, text) ==
  {BlockTaken(d, block), TextWritten(d, i, block, text), TextLinked(d, i, block, text)}

LEMMA AppendDisks ==
  ASSUME NEW d, Sound(d), NEW i \in Inodes, NEW block \in Blocks, NEW text,
         NEW e \in Appended(d, i, block, text)
  PROVE  /\ Appends(d, e, i, block, Len(text))
         /\ e = TextLinked(d, i, block, text)
              => e.Inode = InodeLinked(d, i, block, Len(text))
<1> DEFINE bits == d.DataBitMap \cup {block}
           e1 == BlockTaken(d, block)
           e2 == TextWritten(d, i, block, text)
           e3 == TextLinked(d, i, block, text)
           texts == [e1.Text EXCEPT ![block] = Marked(@, d.Inode[i].Size, text)]
           node == AppendedNode(d, i, block, Len(text))
           inode == [d.Inode EXCEPT ![i] = node]
<1>1. d \in DisksWith(d.Text) /\ d.Inode \in [Inodes -> NodeTypes] /\ d.Inode[i] \in NodeTypes
  BY DEF Sound, DisksWith
<1>2. e1 = [d EXCEPT !.DataBitMap = bits]
  BY Zenon DEF BlockTaken
<1>3. e2 = [e1 EXCEPT !.Text = texts]
  BY Zenon DEF TextWritten
<1>4. e3 = [e2 EXCEPT !.Inode = [e2.Inode EXCEPT ![i] =
               [e2.Inode[i] EXCEPT !.DirectBlock[NumberOf(d, i)] = block,
                                   !.Size = SizeWithMark(d.Inode[i].Size) + Len(text)]]]
  <2> DEFINE n == SizeWithMark(d.Inode[i].Size) + Len(text)
             q == NumberOf(d, i)
  <2>1. e3 = [e2 EXCEPT !.Inode[i].DirectBlock[q] = block, !.Inode[i].Size = n]
    BY Zenon DEF TextLinked
  <2> HIDE DEF texts, bits, n, q, e1, e2, e3
  <2>2. e2.Inode = d.Inode /\ DOMAIN e2 = DOMAIN d
    BY <1>1, <1>2, <1>3 DEF DisksWith
  <2>3. e3 = [e2 EXCEPT !.Inode = [e2.Inode EXCEPT ![i] =
                [e2.Inode[i] EXCEPT !.DirectBlock[q] = block, !.Size = n]]]
    BY <1>1, <2>1, <2>2 DEF DisksWith, NodeTypes
  <2> QED
    BY <2>3 DEF n, q, e2, e3
<1> HIDE DEF e1, e2, e3, texts, bits
<1>5. /\ e1.DataBitMap = bits /\ e1.Inode = d.Inode
      /\ e1 = [d EXCEPT !.DataBitMap = e1.DataBitMap, !.Text = e1.Text, !.Inode = e1.Inode]
  BY <1>1, <1>2 DEF DisksWith
<1>6. /\ e2.DataBitMap = bits /\ e2.Inode = d.Inode
      /\ e2 = [d EXCEPT !.DataBitMap = e2.DataBitMap, !.Text = e2.Text, !.Inode = e2.Inode]
  BY <1>1, <1>2, <1>3 DEF DisksWith
<1>7. e3 = [e2 EXCEPT !.Inode = inode]
  BY <1>4, <1>6 DEF AppendedNode
<1> HIDE DEF inode
<1>8. /\ e3.DataBitMap = bits /\ e3.Inode = inode
      /\ e3 = [d EXCEPT !.DataBitMap = e3.DataBitMap, !.Text = e3.Text, !.Inode = e3.Inode]
  BY <1>1, <1>2, <1>3, <1>7 DEF DisksWith
<1>9. e = e1 \/ e = e2 \/ e = e3
  BY Zenon DEF e1, e2, e3, Appended
<1>10. /\ e.DataBitMap = bits /\ (e.Inode = d.Inode \/ e.Inode = inode)
       /\ e = [d EXCEPT !.DataBitMap = e.DataBitMap, !.Text = e.Text, !.Inode = e.Inode]
  BY <1>5, <1>6, <1>8, <1>9, Zenon
<1>11. Appends(d, e, i, block, Len(text))
  BY <1>10, Zenon DEF Appends, bits, inode, InodeLinked
<1>12. e = TextLinked(d, i, block, text) => e.Inode = inode
  BY <1>8, Zenon DEF e3
<1> QED
  BY <1>11, <1>12, Zenon DEF inode, InodeLinked

LEMMA TextHasLength ==
  ASSUME NEW text \in Texts
  PROVE  Len(text) \in Nat
<1>1. text \in Seq(STRING \ {"0", "EOF"})
  BY ConstantsAssumption
<1> QED
  BY <1>1

LEMMA WriteSafe ==
  ASSUME NEW d, Sound(d), NEW i \in Inodes, d.Inode[i].Type = "FT_FILE",
         NEW text \in Texts, NEW trunc \in BOOLEAN,
         Fits(IF trunc THEN 0 ELSE d.Inode[i].Size, text)
  PROVE  LET o == WriteFileContent(d, i, text, trunc)
         IN  /\ Sound(o.disk) /\ (NamesSound(d) => NamesSound(o.disk))
             /\ ~trunc => \A e \in o.torn : Sound(e) /\ (NamesSound(d) => NamesSound(e))
             /\ ~PowerLost(o.panic)
             /\ Full(d) /\ i \in d.InodeBitMap /\ (Overrun => Len(text) # 0)
                  => Full(o.disk) /\ o.disk.InodeBitMap = d.InodeBitMap
<1> DEFINE o == WriteFileContent(d, i, text, trunc)
           cleared == IF trunc THEN Clear(d, i) ELSE Outcome({}, d, i, "none")
           e == cleared.disk
           block == IF NeedsBlock(e, i) THEN First(Blocks \ e.DataBitMap)
                                        ELSE BlockAt(e, i, NumberOf(e, i))
           disks == Appended(e, i, block, text)
           full == Full(d) /\ i \in d.InodeBitMap /\ (Overrun => Len(text) # 0)
<1>1. /\ Sound(e) /\ (NamesSound(d) => NamesSound(e))
      /\ e.Inode[i].Type = "FT_FILE"
      /\ e.Inode[i].Size = IF trunc THEN 0 ELSE d.Inode[i].Size
      /\ ~trunc => cleared.torn \subseteq {}
      /\ full => Full(e) /\ e.InodeBitMap = d.InodeBitMap
  <2>1. CASE trunc
    <3>1. e = Clear(d, i).disk
      BY <2>1
    <3>2. e.Inode[i].Type = "FT_FILE" /\ e.Inode[i].Size = 0
      BY <3>1, ClearIs DEF Cleared
    <3>3. Sound(e) /\ (NamesSound(d) => NamesSound(e))
      BY <3>1, ClearSafe
    <3>4. full => Full(e) /\ e.InodeBitMap = d.InodeBitMap
      BY <3>1, ClearFull
    <3> QED
      BY <2>1, <3>2, <3>3, <3>4
  <2>2. CASE ~trunc
    <3>1. cleared = Outcome({}, d, i, "none")
      BY <2>2
    <3> DEFINE c == cleared
    <3> HIDE DEF c
    <3>2. c = Outcome({}, d, i, "none")
      BY <3>1, Zenon DEF c
    <3>3. c.disk = d /\ c.torn \subseteq {}
      BY <3>2, OutcomeIs
    <3> QED
      BY <2>2, <3>3 DEF c
  <2> QED
    BY <2>1, <2>2
<1>2. \/ \E m : ~PowerLost(m) /\ o = Outcome(cleared.torn, e, -1, m)
      \/ /\ ~(NeedsBlock(e, i) /\ e.DataBitMap = Blocks)
         /\ o = Outcome(cleared.torn \cup {e, BlockTaken(e, block), TextWritten(e, i, block, text)},
                        TextLinked(e, i, block, text), i, "none")
  BY Zenon DEF WriteFileContent, TextLinked, TextWritten, BlockTaken, NeedsBlock, NumberOf, BlockAt,
               PowerLost
<1> HIDE DEF o, e, cleared, full
<1>3. CASE \E m : ~PowerLost(m) /\ o = Outcome(cleared.torn, e, -1, m)
  <2>1. o.disk = e /\ o.torn \subseteq cleared.torn /\ ~PowerLost(o.panic)
    BY <1>3, OutcomeIs
  <2> QED
    BY <1>1, <2>1 DEF o, full
<1>4. CASE /\ ~(NeedsBlock(e, i) /\ e.DataBitMap = Blocks)
           /\ o = Outcome(cleared.torn \cup {e, BlockTaken(e, block), TextWritten(e, i, block, text)},
                          TextLinked(e, i, block, text), i, "none")
  <2>1. /\ NumberOf(e, i) < INODE_DIRECT_BLOCKS
        /\ (SizeWithMark(e.Inode[i].Size) % BlockSize) # 0 \/ Overrun
        /\ (SizeWithMark(e.Inode[i].Size) % BlockSize) + Len(text) <= BlockSize
        /\ Len(text) \in Nat
    BY <1>1, TextHasLength DEF Fits, NumberOf
  <2>2. /\ NeedsBlock(e, i) => block \in Blocks /\ block \notin e.DataBitMap
        /\ ~NeedsBlock(e, i) => block = BlockAt(e, i, NumberOf(e, i))
        /\ block \in Blocks
    <3>1. e.DataBitMap \subseteq Blocks /\ e.Inode[i].Size \in Sizes /\ Blocks \subseteq Nat
      BY <1>1, NodeSizes DEF Sound, DisksWith, Blocks
    <3>2. CASE NeedsBlock(e, i)
      <4>0. e.DataBitMap # Blocks
        BY <1>4, <3>2, Zenon
      <4>1. Blocks \ e.DataBitMap # {} /\ Blocks \ e.DataBitMap \subseteq Nat
        BY <3>1, <4>0
      <4>2. block = First(Blocks \ e.DataBitMap)
        BY <3>2
      <4>3. First(Blocks \ e.DataBitMap) \in Blocks \ e.DataBitMap
        BY <4>1, FirstIs
      <4> QED
        BY <3>2, <4>2, <4>3
    <3>3. CASE ~NeedsBlock(e, i)
      <4>1. block = BlockAt(e, i, NumberOf(e, i))
        BY <3>3
      <4>2. e.Inode[i].Size % BlockSize = 0
              <=> e.Inode[i].Size \div BlockSize \notin Numbers(e.Inode[i].Size)
        BY <2>1, <3>1, NumbersOfText DEF NumberOf
      <4>3. NumberOf(e, i) \in NumbersAt(e, i)
        BY <3>3, <4>2 DEF NeedsBlock, NumberOf, NumbersAt
      <4>4. BlockAt(e, i, NumberOf(e, i)) \in e.DataBitMap
        BY <1>1, <4>3 DEF Sound
      <4> QED
        BY <3>1, <3>3, <4>1, <4>4
    <3> QED
      BY <3>2, <3>3
  <2> HIDE DEF block
  <2>3. ASSUME NEW f \in disks PROVE Sound(f) /\ (NamesSound(e) => NamesSound(f))
    <3>1. Appends(e, f, i, block, Len(text))
      <4>1. Sound(e) /\ block \in Blocks
        BY <1>1, <2>2
      <4> QED
        BY <4>1, AppendDisks, Zenon
    <3> QED
      BY <1>1, <2>1, <2>2, <3>1, AppendSafe
  <2>4. /\ o.disk = TextLinked(e, i, block, text)
        /\ ~PowerLost(o.panic)
        /\ o.torn \subseteq cleared.torn \cup
                              {e, BlockTaken(e, block), TextWritten(e, i, block, text)}
    BY <1>4, OutcomeIs, NotLost
  <2>5. /\ TextLinked(e, i, block, text) \in disks
        /\ BlockTaken(e, block) \in disks /\ TextWritten(e, i, block, text) \in disks
    BY DEF Appended
  <2>7. full => Full(o.disk) /\ o.disk.InodeBitMap = d.InodeBitMap
    <3> SUFFICES ASSUME full PROVE Full(o.disk) /\ o.disk.InodeBitMap = d.InodeBitMap
      OBVIOUS
    <3> DEFINE f == TextLinked(e, i, block, text)
    <3>0. Sound(e) /\ block \in Blocks /\ f \in disks
      BY <1>1, <2>2 DEF Appended
    <3>1. Appends(e, f, i, block, Len(text))
      BY <3>0, AppendDisks, Zenon
    <3>2. f.Inode = InodeLinked(e, i, block, Len(text))
      BY <3>0, AppendDisks, Zenon
    <3> HIDE DEF f
    <3>3. f.InodeBitMap = e.InodeBitMap /\ f.Data = e.Data
      BY <1>1, <2>1, <2>2, <3>1, AppendSafe
    <3>4. f.DataBitMap = e.DataBitMap \cup {block}
      BY <3>1, Zenon DEF Appends
    <3>5. i \in e.InodeBitMap /\ ((SizeWithMark(e.Inode[i].Size) % BlockSize) # 0 \/ Len(text) # 0)
      BY <1>1, <2>1 DEF full
    <3>6. Full(e)
      BY <1>1
    <3>7. Full(f)
      BY <1>1, <2>1, <2>2, <3>2, <3>3, <3>4, <3>5, <3>6, AppendFull
    <3>8. o.disk = f
      BY <2>4, Zenon DEF f
    <3> QED
      BY <1>1, <3>3, <3>7, <3>8
  <2> HIDE DEF disks
  <2>6. o.disk \in disks /\ (~trunc => \A f \in o.torn : f = e \/ f \in disks)
    BY <1>1, <2>4, <2>5
  <2> QED
    BY <1>1, <2>3, <2>4, <2>6, <2>7 DEF o, full
<1> QED
  BY <1>2, <1>3, <1>4
-----------------------------------------------------------------------------
(***************************************************************************)
(* removeInodeByNameFromDirectory: the name goes with the inode.           *)
(***************************************************************************)
Removes(d, i, name, id, k, s, c, e) ==
  /\ IsDirectory(d, i)
  /\ EntryIn(d, i, k, s).Name = name /\ EntryIn(d, i, k, s).InodeID = id
  /\ e \in DisksWith(e.Text)
  /\ e.InodeBitMap = d.InodeBitMap \ {id} /\ e.DataBitMap = c.DataBitMap /\ e.Text = c.Text
  /\ \A j \in Inodes : j # i => e.Inode[j] = c.Inode[j]
  /\ IsDirectory(e, i) /\ e.Inode[i].Size % EntrySize = 0
  /\ e.Inode[i].DirectBlock = d.Inode[i].DirectBlock
  /\ NumbersAt(e, i) \subseteq NumbersAt(d, i)
  /\ \A b \in Blocks : b # BlockAt(d, i, k) => e.Data[b] = c.Data[b]
  /\ \A t \in Slots : t # s => e.Data[BlockAt(d, i, k)][t] = c.Data[BlockAt(d, i, k)][t]
  /\ e.Data[BlockAt(d, i, k)][s] = Entry(-1, "")

LEMMA RemoveIs ==
  ASSUME NEW d, Sound(d), NEW i \in Inodes, NEW name \in Names \cup {""},
         PlacesOf(d, i, name) # {}, Find(d, i, name) # -1
  PROVE  \E id \in Inodes, k \in NumbersAt(d, i), s \in Slots :
           /\ id = Find(d, i, name)
           /\ Removes(d, i, name, id, k, s, Clear(d, id).disk, RemoveInode(d, i, name).disk)
<1> DEFINE place == First(PlacesOf(d, i, name))
           id == Find(d, i, name)
           k == place \div PerBlock
           s == place % PerBlock
           o == RemoveInode(d, i, name)
           c == Clear(d, id).disk
           e == o.disk
           b == BlockAt(d, i, k)
           bits == c.InodeBitMap \ {id}
           data == [c.Data EXCEPT ![b] = [@ EXCEPT ![s] = Entry(-1, "")]]
           node == [c.Inode[i] EXCEPT !.Size = @ - EntrySize]
           inode == [c.Inode EXCEPT ![i] = node]
<1>1. /\ IsDirectory(d, i) /\ k \in NumbersAt(d, i) /\ s \in Slots
      /\ EntryIn(d, i, k, s).Name = name /\ EntryIn(d, i, k, s).InodeID = id
  <2>1. PICK l \in NumbersAt(d, i), t \in Slots :
           /\ l = First(PlacesOf(d, i, name)) \div PerBlock
           /\ t = First(PlacesOf(d, i, name)) % PerBlock
           /\ EntryIn(d, i, l, t).Name = name
           /\ EntryIn(d, i, l, t).InodeID = Find(d, i, name)
    BY FindIs
  <2>3. l = k /\ t = s /\ id = Find(d, i, name)
    BY <2>1
  <2>2. IsDirectory(d, i)
    BY FindIs
  <2> HIDE DEF k, s, id
  <2> QED
    BY <2>1, <2>2, <2>3
<1>2. id \in Inodes /\ b \in Blocks
  <2>1. EntryIn(d, i, k, s) \in EntryTypes /\ b \in Blocks
    BY <1>1, EntryHasType
  <2>2. EntryIn(d, i, k, s).InodeID \in Inodes \cup {-1}
    BY <2>1 DEF EntryTypes
  <2> HIDE DEF id
  <2> QED
    BY <1>1, <2>1, <2>2 DEF id
<1> DEFINE left == [[[c EXCEPT !.InodeBitMap = @ \ {id}] EXCEPT !.Data[b][s] = Entry(-1, "")]
                      EXCEPT !.Inode[i].Size = @ - EntrySize]
<1>3. \E torn : o = Outcome(torn, left, id, "none")
  BY Zenon DEF RemoveInode, BlockOf, BlockAt
<1> HIDE DEF o, id, k, s, c, b, left
<1>4. e = left
  <2>1. PICK torn : o = Outcome(torn, left, id, "none")
    BY <1>3
  <2>2. o.disk = left
    BY <2>1 DEF Outcome
  <2> QED
    BY <2>2
<1>5. /\ Sound(c) /\ c.InodeBitMap = d.InodeBitMap
      /\ c.Inode[i] = d.Inode[i]
  <2>1. Sound(c)
    BY <1>2, ClearSafe DEF c
  <2>2. \/ c = d
        \/ /\ d.Inode[id].Type = "FT_FILE"
           /\ c \in DisksWith(c.Text)
           /\ c.InodeBitMap = d.InodeBitMap
           /\ c.DataBitMap = d.DataBitMap \ BlocksUsedBy(d, id)
           /\ \A j \in Inodes : j # id => c.Inode[j] = d.Inode[j]
    <3>1. Cleared(d, id, c)
      BY <1>2, ClearIs DEF c
    <3> QED
      BY <3>1 DEF Cleared
  <2>3. d.Inode[id].Type = "FT_FILE" => i # id
    BY <1>1 DEF IsDirectory
  <2> QED
    BY <2>1, <2>2, <2>3
<1>6. /\ c \in DisksWith(c.Text) /\ c.Inode \in [Inodes -> NodeTypes]
      /\ c.Data \in [Blocks -> [Slots -> EntryTypes]] /\ c.InodeBitMap \in SUBSET Inodes
      /\ d.Inode[i] \in NodeTypes /\ d.Inode[i].Size \in Sizes
  BY <1>5, NodeSizes DEF Sound, DisksWith
<1>7. /\ d.Inode[i].Size - EntrySize \in Sizes
      /\ (d.Inode[i].Size - EntrySize) % EntrySize = 0
      /\ Numbers(d.Inode[i].Size - EntrySize) \subseteq NumbersAt(d, i)
  <2>1. d.Inode[i].Size % EntrySize = 0
    BY <1>1 DEF Sound
  <2>2. d.Inode[i].Size # 0
    BY <1>1, NumbersBound DEF NumbersAt
  <2> QED
    BY <1>6, <2>1, <2>2, NumbersOfEntries DEF NumbersAt
<1>8. /\ node \in NodeTypes /\ node.Type = "FT_DIRECTORY"
      /\ node.Size = d.Inode[i].Size - EntrySize
      /\ node.DirectBlock = d.Inode[i].DirectBlock
  <2>1. c.Inode[i].Type = "FT_DIRECTORY"
    BY <1>1, <1>5 DEF IsDirectory
  <2> QED
    BY <1>5, <1>6, <1>7, <2>1 DEF NodeTypes
<1>9. Entry(-1, "") \in EntryTypes
  BY DEF Entry, EntryTypes
<1>10. data \in [Blocks -> [Slots -> EntryTypes]]
  BY <1>1, <1>2, <1>6, <1>9
<1>11. /\ data[b][s] = Entry(-1, "")
       /\ \A t \in Slots : t # s => data[b][t] = c.Data[b][t]
       /\ \A a \in Blocks : a # b => data[a] = c.Data[a]
  BY <1>1, <1>2, <1>6
<1> HIDE DEF node
<1>12. /\ inode \in [Inodes -> NodeTypes] /\ inode[i] = node
       /\ \A j \in Inodes : j # i => inode[j] = c.Inode[j]
  BY <1>6, <1>8
<1>13. e = [c EXCEPT !.InodeBitMap = bits, !.Data = data, !.Inode = inode]
  <2> DEFINE f == [c EXCEPT !.InodeBitMap = bits]
             g == [f EXCEPT !.Data = [f.Data EXCEPT ![b] = [f.Data[b] EXCEPT ![s] = Entry(-1, "")]]]
             h == [g EXCEPT !.Inode = [g.Inode EXCEPT ![i] = [g.Inode[i] EXCEPT !.Size = @ - EntrySize]]]
  <2>1. e = h
    BY <1>4, Zenon DEF left
  <2> HIDE DEF f, g, h, bits
  <2>2. f.Data = c.Data /\ f.Inode = c.Inode /\ f = [c EXCEPT !.InodeBitMap = bits]
    BY <1>6 DEF DisksWith, f
  <2>3. g = [f EXCEPT !.Data = data]
    BY <2>2 DEF g
  <2> HIDE DEF data
  <2>4. g.Inode = c.Inode
    BY <1>6, <2>2, <2>3 DEF DisksWith
  <2>5. h = [g EXCEPT !.Inode = inode]
    BY <2>4 DEF h, node
  <2> HIDE DEF inode, e
  <2>6. h = [c EXCEPT !.InodeBitMap = bits, !.Data = data, !.Inode = inode]
    BY <1>6, <2>2, <2>3, <2>5 DEF DisksWith
  <2> QED
    BY <2>1, <2>6, Zenon
<1>14. bits \in SUBSET Inodes /\ bits = d.InodeBitMap \ {id}
  BY <1>5, <1>6
<1> HIDE DEF data, inode, bits, e
<1>15. /\ e.InodeBitMap = bits /\ e.DataBitMap = c.DataBitMap /\ e.Data = data
       /\ e.Inode = inode /\ e.Text = c.Text /\ e \in DisksWith(c.Text)
  BY <1>6, <1>10, <1>12, <1>13, <1>14 DEF DisksWith
<1>16. /\ e \in DisksWith(e.Text)
       /\ e.InodeBitMap = d.InodeBitMap \ {id} /\ e.DataBitMap = c.DataBitMap /\ e.Text = c.Text
       /\ \A j \in Inodes : j # i => e.Inode[j] = c.Inode[j]
       /\ IsDirectory(e, i) /\ e.Inode[i].Size % EntrySize = 0
       /\ e.Inode[i].DirectBlock = d.Inode[i].DirectBlock
       /\ NumbersAt(e, i) \subseteq NumbersAt(d, i)
       /\ \A a \in Blocks : a # b => e.Data[a] = c.Data[a]
       /\ \A t \in Slots : t # s => e.Data[b][t] = c.Data[b][t]
       /\ e.Data[b][s] = Entry(-1, "")
  BY <1>7, <1>8, <1>11, <1>12, <1>14, <1>15 DEF IsDirectory, NumbersAt
<1>17. Removes(d, i, name, id, k, s, c, e)
  BY <1>1, <1>16, Zenon DEF Removes, b
<1> QED
  BY <1>1, <1>2, <1>17, Zenon DEF id, k, s, c, e, o
\* c: the file is cleared.  Directory i is as it was, for it is not a file.
LEMMA RemoveSafe ==
  ASSUME NEW d, Sound(d), NEW i \in Inodes, NEW name \in Names \cup {""},
         PlacesOf(d, i, name) # {}, Find(d, i, name) # -1
  PROVE  /\ Sound(RemoveInode(d, i, name).disk)
         /\ NamesSound(d) /\ name \in Names => NamesSound(RemoveInode(d, i, name).disk)
<1> DEFINE e == RemoveInode(d, i, name).disk
<1>0. PICK id \in Inodes, k \in NumbersAt(d, i), s \in Slots :
           Removes(d, i, name, id, k, s, Clear(d, id).disk, e)
  BY RemoveIs
<1> DEFINE c == Clear(d, id).disk
           b == BlockAt(d, i, k)
<1>1. /\ IsDirectory(d, i)
      /\ EntryIn(d, i, k, s).Name = name /\ EntryIn(d, i, k, s).InodeID = id
  BY <1>0, Zenon DEF Removes
<1>2. Sound(c) /\ (NamesSound(d) => NamesSound(c))
  BY ClearSafe
<1> HIDE DEF e
<1>8. /\ e \in DisksWith(e.Text)
      /\ e.InodeBitMap = d.InodeBitMap \ {id} /\ e.DataBitMap = c.DataBitMap
      /\ \A j \in Inodes : j # i => e.Inode[j] = c.Inode[j]
      /\ IsDirectory(e, i) /\ e.Inode[i].Size % EntrySize = 0
      /\ e.Inode[i].DirectBlock = d.Inode[i].DirectBlock
      /\ NumbersAt(e, i) \subseteq NumbersAt(d, i)
      /\ \A a \in Blocks : a # b => e.Data[a] = c.Data[a]
      /\ \A t \in Slots : t # s => e.Data[b][t] = c.Data[b][t]
      /\ e.Data[b][s] = Entry(-1, "")
  BY <1>0, Zenon DEF Removes
<1> HIDE DEF c
<1>3. \/ c = d
      \/ /\ d.Inode[id].Type = "FT_FILE"
         /\ c.InodeBitMap = d.InodeBitMap
         /\ \A j \in Inodes : j # id => c.Inode[j] = d.Inode[j]
         /\ \A a \in Blocks : c.Data[a] = IF a \in BlocksUsedBy(d, id) THEN Zeros ELSE d.Data[a]
  <2>1. Cleared(d, id, c)
    BY ClearIs DEF c
  <2> QED
    BY <2>1 DEF Cleared
<1>4. b \in Blocks
  BY EntryHasType
<1>5. c.Inode[i] = d.Inode[i] /\ c.InodeBitMap = d.InodeBitMap
  <2>1. d.Inode[id].Type = "FT_FILE" => i # id
    BY <1>1 DEF IsDirectory
  <2> QED
    BY <1>3, <2>1
<1>6. k \in NumbersAt(c, i) /\ BlockAt(c, i, k) = b /\ b \in c.DataBitMap
  <2>1. k \in NumbersAt(c, i) /\ BlockAt(c, i, k) = b
    BY <1>5 DEF NumbersAt, BlockAt
  <2>2. BlockAt(c, i, k) \in c.DataBitMap
    BY <1>2, <2>1 DEF Sound
  <2> QED
    BY <2>1, <2>2
<1>7. c.Data[b] = d.Data[b]
  <2>1. CASE c # d
    <3>1. i # id
      BY <1>1, <1>3, <2>1 DEF IsDirectory
    <3>2. \A h, o \in Inodes : \A f \in NumbersAt(d, h), g \in NumbersAt(d, o) :
             BlockAt(d, h, f) = BlockAt(d, o, g) => h = o /\ f = g
      BY DEF Sound
    <3>3. b \notin BlocksUsedBy(d, id)
      BY <3>1, <3>2 DEF BlocksUsedBy
    <3> QED
      BY <1>3, <1>4, <2>1, <3>3
  <2> QED
    BY <2>1
<1> HIDE DEF b
<1>9. ASSUME NEW j \in Inodes, NEW l \in NumbersAt(e, j)
      PROVE  /\ l \in NumbersAt(c, j) /\ BlockAt(e, j, l) = BlockAt(c, j, l)
             /\ BlockAt(c, j, l) \in e.DataBitMap
  <2>1. l \in NumbersAt(c, j) /\ BlockAt(e, j, l) = BlockAt(c, j, l)
    <3>1. CASE j = i
      BY <1>5, <1>8, <3>1 DEF NumbersAt, BlockAt
    <3>2. CASE j # i
      BY <1>8, <3>2 DEF NumbersAt, BlockAt
    <3> QED
      BY <3>1, <3>2
  <2>2. BlockAt(c, j, l) \in c.DataBitMap
    BY <1>2, <2>1 DEF Sound
  <2> QED
    BY <1>8, <2>1, <2>2
<1>10. Sound(e)
  <2>1. \A j \in Inodes : IsDirectory(e, j) => e.Inode[j].Size % EntrySize = 0
    <3>1. \A j \in Inodes : IsDirectory(c, j) => c.Inode[j].Size % EntrySize = 0
      BY <1>2 DEF Sound
    <3>2. \A j \in Inodes : j # i => (IsDirectory(e, j) <=> IsDirectory(c, j))
      BY <1>8 DEF IsDirectory
    <3>3. ASSUME NEW j \in Inodes, j # i, IsDirectory(e, j) PROVE e.Inode[j].Size % EntrySize = 0
      <4>1. e.Inode[j] = c.Inode[j]
        BY <1>8, <3>3
      <4>2. c.Inode[j].Size % EntrySize = 0
        BY <3>1, <3>2, <3>3, Zenon
      <4> QED
        BY <4>1, <4>2, Zenon
    <3>4. e.Inode[i].Size % EntrySize = 0
      BY <1>8
    <3> QED
      BY <3>3, <3>4
  <2>2. \A a \in Blocks : a \notin e.DataBitMap => e.Data[a] = Zeros
    <3>1. \A a \in Blocks : a \notin c.DataBitMap => c.Data[a] = Zeros
      BY <1>2 DEF Sound
    <3> QED
      BY <1>6, <1>8, <3>1
  <2>3. OneNewBlock(c, e, i, k, b)
    BY <1>9 DEF OneNewBlock
  <2>4. b \in e.DataBitMap /\ e \in DisksWith(e.Text)
    BY <1>6, <1>8
  <2> QED
    BY <1>2, <2>1, <2>2, <2>3, <2>4, StaysSound
<1>11. ASSUME NamesSound(d), name \in Names PROVE NamesSound(e)
  <2>1. /\ HasName(c, i, k, s) /\ EntryIn(c, i, k, s).InodeID = id
    <3>1. EntryIn(c, i, k, s) = EntryIn(d, i, k, s)
      BY <1>5, <1>7 DEF EntryIn, BlockAt, b
    <3>2. IsDirectory(c, i)
      BY <1>1, <1>5, Zenon DEF IsDirectory
    <3>3. EntryIn(d, i, k, s).Name = name /\ EntryIn(d, i, k, s).InodeID = id
      BY <1>1, Zenon
    <3> QED
      BY <1>6, <1>11, <3>1, <3>2, <3>3 DEF HasName
  <2>2. NamesSound(c)
    BY <1>2, <1>11
  <2>3. \A g, h \in Inodes, t, u \in Slots : \A m \in NumbersAt(c, g), l \in NumbersAt(c, h) :
          /\ HasName(c, g, m, t) /\ HasName(c, h, l, u)
          /\ EntryIn(c, g, m, t).InodeID = EntryIn(c, h, l, u).InodeID
          => g = h /\ m = l /\ t = u
    BY <2>2 DEF NamesSound
  <2>4. id # 0
    BY <1>6, <2>1, <2>2 DEF NamesSound
  <2>5. 0 \in e.InodeBitMap
    BY <1>5, <1>8, <2>2, <2>4 DEF NamesSound
  <2>6. ASSUME NEW j \in Inodes, NEW l \in NumbersAt(e, j), NEW t \in Slots, HasName(e, j, l, t)
        PROVE  /\ HasName(c, j, l, t)
               /\ EntryIn(e, j, l, t) = EntryIn(c, j, l, t)
               /\ EntryIn(c, j, l, t).InodeID \in e.InodeBitMap
    <3>1. l \in NumbersAt(c, j) /\ BlockAt(e, j, l) = BlockAt(c, j, l) /\ BlockAt(c, j, l) \in Blocks
      BY <1>2, <1>9, EntryHasType
    <3>2. ~(i = j /\ k = l /\ s = t)
      <4>1. EntryIn(e, i, k, s) = e.Data[b][s]
        BY <1>8 DEF EntryIn, BlockAt, b
      <4>2. EntryIn(e, i, k, s).Name \notin Names
        <5>1. "" \notin Names
          BY ConstantsAssumption
        <5>2. Entry(-1, "").Name = ""
          BY DEF Entry
        <5>3. e.Data[b][s] = Entry(-1, "")
          BY <1>8
        <5> QED
          BY <4>1, <5>1, <5>2, <5>3
      <4> QED
        BY <2>6, <4>2 DEF HasName
    <3>3. EntryIn(e, j, l, t) = EntryIn(c, j, l, t)
      <4>0. /\ EntryIn(e, j, l, t) = e.Data[BlockAt(c, j, l)][t]
            /\ EntryIn(c, j, l, t) = c.Data[BlockAt(c, j, l)][t]
        BY <3>1 DEF EntryIn, BlockAt
      <4>1. CASE BlockAt(c, j, l) = b
        <5>1. \A h, o \in Inodes : \A f \in NumbersAt(c, h), g \in NumbersAt(c, o) :
                 BlockAt(c, h, f) = BlockAt(c, o, g) => h = o /\ f = g
          BY <1>2 DEF Sound
        <5>2. i = j /\ k = l
          <6>1. /\ k \in NumbersAt(c, i) /\ l \in NumbersAt(c, j)
                /\ BlockAt(c, i, k) = BlockAt(c, j, l)
            BY <1>6, <3>1, <4>1
          <6>2. \A f \in NumbersAt(c, i), g \in NumbersAt(c, j) :
                   BlockAt(c, i, f) = BlockAt(c, j, g) => i = j /\ f = g
            BY <5>1, Zenon
          <6> QED
            BY <6>1, <6>2, Zenon
        <5> QED
          BY <1>8, <3>2, <4>0, <4>1, <5>2
      <4>2. CASE BlockAt(c, j, l) # b
        BY <1>8, <3>1, <4>0, <4>2
      <4> QED
        BY <4>1, <4>2
    <3>4. HasName(c, j, l, t)
      <4>1. IsDirectory(c, j)
        <5>1. CASE j = i
          BY <2>1, <5>1 DEF HasName
        <5>2. CASE j # i
          BY <1>8, <2>6, <5>2 DEF HasName, IsDirectory
        <5> QED
          BY <5>1, <5>2
      <4> QED
        BY <2>6, <3>1, <3>3, <4>1 DEF HasName
    <3>5. EntryIn(c, j, l, t).InodeID \in c.InodeBitMap
      BY <2>2, <3>1, <3>4 DEF NamesSound
    <3>6. EntryIn(c, j, l, t).InodeID # id
      BY <1>6, <2>1, <2>3, <3>1, <3>2, <3>4
    <3> QED
      BY <1>5, <1>8, <3>3, <3>4, <3>5, <3>6
  <2> QED
    BY <2>2, <2>5, <2>6, NamesStaySound
<1> QED
  BY <1>10, <1>11 DEF e
-----------------------------------------------------------------------------
(***************************************************************************)
(* InitializeFileSystem makes an empty directory of an inode that is free. *)
(***************************************************************************)
IsFile(d, i) == d.Inode[i].Type = "FT_FILE"

\* No block was written to, and no file became longer.
FilesKept(d, e) ==
  /\ e.Text = d.Text
  /\ \A i \in Inodes : IsFile(e, i) /\ e.Inode[i].Size # 0 => e.Inode[i] = d.Inode[i]

LEMMA RootSafe ==
  ASSUME NEW d, Sound(d), NEW id \in Inodes, NEW e,
         NEW inode \in {d.Inode, InodesMade(d, id, "FT_DIRECTORY")},
         FieldsAre(e, d.Text, d.InodeBitMap \cup {id}, d.DataBitMap, inode, d.Data)
  PROVE  Sound(e) /\ (NamesSound(d) => NamesSound(e)) /\ FilesKept(d, e)
<1>1. /\ e.InodeBitMap = d.InodeBitMap \cup {id} /\ e.DataBitMap = d.DataBitMap
      /\ e.Inode = inode /\ e.Data = d.Data /\ e \in DisksWith(e.Text)
  BY DEF FieldsAre
<1>2. d.Inode \in [Inodes -> NodeTypes]
  BY DEF Sound, DisksWith
<1>3. ASSUME NEW j \in Inodes
      PROVE  \/ e.Inode[j] = d.Inode[j]
             \/ e.Inode[j].Size = 0
  <2>1. CASE inode = d.Inode
    BY <1>1, <2>1
  <2>2. CASE inode = InodesMade(d, id, "FT_DIRECTORY")
    <3> DEFINE new == newEmptyDiskInode("FT_DIRECTORY")
    <3>1. new.Size = 0
      BY EmptyNode
    <3>2. inode = [d.Inode EXCEPT ![id] = new]
      BY <2>2, Zenon DEF InodesMade
    <3> HIDE DEF new
    <3> QED
      BY <1>1, <1>2, <3>1, <3>2
  <2> QED
    BY <2>1, <2>2
<1>4. ASSUME NEW j \in Inodes, NEW l \in NumbersAt(e, j)
      PROVE  e.Inode[j] = d.Inode[j] /\ l \in NumbersAt(d, j) /\ BlockAt(e, j, l) = BlockAt(d, j, l)
  BY <1>3, <1>4, NumbersBound DEF NumbersAt, BlockAt
<1>5. Sound(e)
  <2>1. ASSUME NEW j \in Inodes, IsDirectory(e, j) PROVE e.Inode[j].Size % EntrySize = 0
    BY <1>3, <2>1, NumbersBound DEF Sound, IsDirectory
  <2>2. ASSUME NEW j \in Inodes, NEW l \in NumbersAt(e, j)
        PROVE  BlockAt(e, j, l) \in e.DataBitMap
    BY <1>1, <1>4, <2>2 DEF Sound
  <2>3. ASSUME NEW j \in Inodes, NEW l \in NumbersAt(e, j), NEW h \in Inodes,
               NEW m \in NumbersAt(e, h), BlockAt(e, j, l) = BlockAt(e, h, m)
        PROVE  j = h /\ l = m
    <3>1. /\ l \in NumbersAt(d, j) /\ m \in NumbersAt(d, h)
          /\ BlockAt(d, j, l) = BlockAt(d, h, m)
      BY <1>4, <2>3
    <3>2. \A a, o \in Inodes : \A f \in NumbersAt(d, a), g \in NumbersAt(d, o) :
             BlockAt(d, a, f) = BlockAt(d, o, g) => a = o /\ f = g
      BY DEF Sound
    <3> QED
      BY <3>1, <3>2
  <2>4. \A b \in Blocks : b \notin e.DataBitMap => e.Data[b] = Zeros
    BY <1>1 DEF Sound
  <2> QED
    BY <1>1, <2>1, <2>2, <2>3, <2>4 DEF Sound
<1>6. ASSUME NamesSound(d) PROVE NamesSound(e)
  <2>1. ASSUME NEW j \in Inodes, NEW l \in NumbersAt(e, j), NEW t \in Slots, HasName(e, j, l, t)
        PROVE  /\ HasName(d, j, l, t)
               /\ EntryIn(e, j, l, t) = EntryIn(d, j, l, t)
               /\ EntryIn(d, j, l, t).InodeID \in e.InodeBitMap
    <3>1. l \in NumbersAt(d, j) /\ e.Inode[j] = d.Inode[j]
      BY <1>4
    <3>2. EntryIn(e, j, l, t) = EntryIn(d, j, l, t)
      BY <1>1, <3>1 DEF EntryIn
    <3>3. HasName(d, j, l, t)
      BY <2>1, <3>1, <3>2 DEF HasName, IsDirectory
    <3>4. EntryIn(d, j, l, t).InodeID \in d.InodeBitMap
      BY <1>6, <3>1, <3>3 DEF NamesSound
    <3> QED
      BY <1>1, <3>2, <3>3, <3>4
  <2>2. 0 \in e.InodeBitMap
    BY <1>1, <1>6 DEF NamesSound
  <2> QED
    BY <1>6, <2>1, <2>2, NamesStaySound
<1>7. FilesKept(d, e)
  BY <1>3 DEF FilesKept, FieldsAre
<1> QED
  BY <1>5, <1>6, <1>7

\* It makes a directory of an inode that is free, or nothing.
LEMMA InitializeIs ==
  ASSUME NEW d, Sound(d)
  PROVE  LET o == InitializeFileSystem(d)
         IN  \/ o.disk = d /\ o.id = currentDirectoryInodeID /\ o.torn \subseteq {}
             \/ \E id \in Inodes \ d.InodeBitMap :
                  /\ o.id = id
                  /\ \A e \in o.torn \cup {o.disk} :
                       \E inode \in {d.Inode, InodesMade(d, id, "FT_DIRECTORY")} :
                         FieldsAre(e, d.Text, d.InodeBitMap \cup {id}, d.DataBitMap, inode, d.Data)
<1> DEFINE o == InitializeFileSystem(d)
           id == First(Inodes \ d.InodeBitMap)
           inodeBits == d.InodeBitMap \cup {id}
           taken == [d EXCEPT !.InodeBitMap = inodeBits]
           inode == InodesMade(d, id, "FT_DIRECTORY")
           made == [taken EXCEPT !.Inode = [taken.Inode EXCEPT ![id] = newEmptyDiskInode("FT_DIRECTORY")]]
<1>1. CASE d.InodeBitMap = Inodes
  <2>1. \E m : o = Outcome({}, d, currentDirectoryInodeID, m)
    BY <1>1, Zenon DEF InitializeFileSystem
  <2> HIDE DEF o
  <2>2. o.disk = d /\ o.id = currentDirectoryInodeID /\ o.torn \subseteq {}
    BY <2>1, OutcomeIs
  <2> QED
    BY <2>2 DEF o
<1>2. CASE d.InodeBitMap # Inodes
  <2>1. o = Outcome({taken}, made, id, "none")
    BY <1>2, Zenon DEF InitializeFileSystem
  <2>2. /\ d \in DisksWith(d.Text) /\ d.Inode \in [Inodes -> NodeTypes]
        /\ d.InodeBitMap \in SUBSET Inodes
    BY DEF Sound, DisksWith
  <2>3. id \in Inodes \ d.InodeBitMap
    <3>1. Inodes \ d.InodeBitMap # {} /\ Inodes \ d.InodeBitMap \in SUBSET Nat
      BY <1>2, <2>2, Constants
    <3> QED
      BY <3>1, FirstIs
  <2>4. inodeBits \in SUBSET Inodes /\ inode \in [Inodes -> NodeTypes]
    BY <2>2, <2>3, EmptyNode DEF InodesMade
  <2> HIDE DEF o, id, inodeBits, inode, taken, made
  <2>5. FieldsAre(taken, d.Text, inodeBits, d.DataBitMap, d.Inode, d.Data)
    BY <2>2, <2>4 DEF FieldsAre, DisksWith, taken
  <2>6. FieldsAre(made, d.Text, inodeBits, d.DataBitMap, inode, d.Data)
    <3>1. /\ taken.InodeBitMap = inodeBits /\ taken.DataBitMap = d.DataBitMap
          /\ taken.Inode = d.Inode /\ taken.Data = d.Data /\ taken \in DisksWith(d.Text)
      BY <2>5 DEF FieldsAre
    <3>2. made = [taken EXCEPT !.Inode = inode]
      BY <3>1 DEF made, inode, InodesMade
    <3> QED
      BY <2>4, <3>1, <3>2 DEF FieldsAre, DisksWith
  <2>7. /\ o.disk = made /\ o.id = id /\ o.torn \subseteq {taken}
    BY <2>1, OutcomeIs
  <2>8. ASSUME NEW e \in o.torn \cup {o.disk}
        PROVE  \E node \in {d.Inode, inode} :
                 FieldsAre(e, d.Text, inodeBits, d.DataBitMap, node, d.Data)
    BY <2>5, <2>6, <2>7
  <2> QED
    BY <2>3, <2>7, <2>8, Zenon DEF o, inodeBits, inode
<1> QED
  BY <1>1, <1>2

LEMMA InitializeSafe ==
  ASSUME NEW d, Sound(d), currentDirectoryInodeID \in Inodes
  PROVE  LET o == InitializeFileSystem(d)
         IN  /\ o.id \in Inodes /\ Sound(o.disk) /\ (NamesSound(d) => NamesSound(o.disk))
             /\ \A e \in o.torn : Sound(e) /\ (NamesSound(d) => NamesSound(e))
             /\ \A e \in o.torn \cup {o.disk} : FilesKept(d, e)
<1> DEFINE o == InitializeFileSystem(d)
           Is(e, id) == \E inode \in {d.Inode, InodesMade(d, id, "FT_DIRECTORY")} :
                          FieldsAre(e, d.Text, d.InodeBitMap \cup {id}, d.DataBitMap, inode, d.Data)
<1>1. \/ o.disk = d /\ o.id = currentDirectoryInodeID /\ o.torn \subseteq {}
      \/ \E id \in Inodes \ d.InodeBitMap :
           o.id = id /\ \A e \in o.torn \cup {o.disk} : Is(e, id)
  BY InitializeIs
<1>2. \A e, id : id \in Inodes /\ Is(e, id) =>
        Sound(e) /\ (NamesSound(d) => NamesSound(e)) /\ FilesKept(d, e)
  BY RootSafe
<1>3. FilesKept(d, d)
  BY DEF FilesKept
<1> HIDE DEF o, Is
<1> QED
  BY <1>1, <1>2, <1>3 DEF o

\* A call that does all its writes, or some of them before the power goes.
LEMMA BecomesIs ==
  ASSUME NEW o, NEW call, NEW directory, Becomes(o, call, directory)
  PROVE  \/ disk' = o.disk /\ currentDirectoryInodeID' = directory
                           /\ panic' = o.panic /\ clean' = clean
         \/ /\ call \in Interruptible
            /\ disk' \in o.torn /\ currentDirectoryInodeID' = 0 /\ clean' = FALSE
  BY Zenon DEF Becomes
-----------------------------------------------------------------------------
(***************************************************************************)
(* The invariants.                                                         *)
(***************************************************************************)
LEMMA InitNames == Init => NamesInv
<1> SUFFICES ASSUME Init PROVE NamesInv
  OBVIOUS
<1> DEFINE inode == [i \in Inodes |->
                       newEmptyDiskInode(IF i = 0 THEN "FT_DIRECTORY" ELSE "FT_UNKNOWN")]
           data == [b \in Blocks |-> Zeros]
           text == [b \in Blocks |-> NoText]
<1>1. disk = [InodeBitMap |-> {0}, DataBitMap |-> {}, Inode |-> inode, Data |-> data, Text |-> text]
  BY Zenon DEF Init
<1>2. currentDirectoryInodeID = 0 /\ 0 \in Inodes
  BY Constants DEF Init
<1>3. inode \in [Inodes -> NodeTypes] /\ \A i \in Inodes : inode[i].Size = 0
  BY EmptyNode
<1>4. data \in [Blocks -> [Slots -> EntryTypes]] /\ \A b \in Blocks : data[b] = Zeros
  <2>1. Entry(0, "") \in EntryTypes
    BY Constants DEF Entry, EntryTypes
  <2>2. Zeros \in [Slots -> EntryTypes]
    BY <2>1 DEF Zeros
  <2> QED
    BY <2>2
<1> HIDE DEF inode, data, text
<1>5. /\ disk \in DisksWith(disk.Text) /\ disk.InodeBitMap = {0}
      /\ disk.Inode = inode /\ disk.Data = data
  BY <1>1, <1>2, <1>3, <1>4 DEF DisksWith
<1>6. \A i \in Inodes : disk.Inode[i].Size = 0 /\ NumbersAt(disk, i) = {}
  BY <1>3, <1>5, NumbersBound DEF NumbersAt
<1>7. Sound(disk)
  BY <1>4, <1>5, <1>6, NumbersBound DEF Sound
<1>8. NamesSound(disk)
  BY <1>5, <1>6 DEF NamesSound
<1> QED
  BY <1>2, <1>7, <1>8 DEF NamesInv, SoundInv

LEMMA DiskKeeps ==
  ASSUME NEW d, Sound(disk'), currentDirectoryInodeID' \in Inodes,
         NamesSound(d) => NamesSound(disk')
  PROVE  SoundInv' /\ (NamesSound(d) => NamesSound(disk)')
BY DEF SoundInv, Sound, DisksWith, IsDirectory, NumbersAt, BlockAt, NamesSound, HasName, EntryIn

LEMMA CallKeeps ==
  ASSUME NEW d, NEW o, NEW call, NEW directory \in Inodes,
         Becomes(o, call, directory),
         Sound(o.disk) /\ (NamesSound(d) => NamesSound(o.disk)),
         call \in Interruptible => \A e \in o.torn : Sound(e) /\ (NamesSound(d) => NamesSound(e))
  PROVE  SoundInv' /\ (NamesSound(d) => NamesSound(disk)')
<1>1. /\ currentDirectoryInodeID' \in Inodes
      /\ Sound(disk') /\ (NamesSound(d) => NamesSound(disk'))
  BY BecomesIs, Constants
<1> QED
  BY <1>1, DiskKeeps

LEMMA ReachedHasType ==
  ASSUME SoundInv, NEW i \in Inodes
  PROVE  Reached(disk, i) \subseteq Inodes
<1>1. \A path \in Paths : Walk(disk, i, path) \in Inodes \cup {-1}
  BY WalkHasType DEF SoundInv
<1> QED
  BY <1>1 DEF Reached

LEMMA NamedHasType ==
  ASSUME SoundInv
  PROVE  Named \subseteq Inodes
<1>1. Reached(disk, 0) \subseteq Inodes
  BY ReachedHasType, Constants
<1>2. \A name \in Names : Find(disk, currentDirectoryInodeID, name) \in Inodes
  BY FindHasType DEF SoundInv
<1> QED
  BY <1>1, <1>2 DEF Named

LEMMA StepKeeps ==
  ASSUME Interruptible \subseteq {"create", "append", "boot"},
         SoundInv, [Next]_vars
  PROVE  SoundInv' /\ ("" \notin Removable /\ NamesSound(disk) => NamesSound(disk)')
<1>0. /\ Sound(disk) /\ currentDirectoryInodeID \in Inodes
      /\ "truncate" \notin Interruptible /\ "remove" \notin Interruptible
  BY DEF SoundInv
<1>1. ASSUME NEW name \in Names, Touch(name) PROVE SoundInv' /\ (NamesSound(disk) => NamesSound(disk)')
  <2> DEFINE o == CreateFile(disk, currentDirectoryInodeID, name, "FT_FILE")
  <2>1. /\ LeavesSound(o, disk.Text) /\ (NamesSound(disk) => LeavesNames(o))
    BY <1>0, CreateFileSafe
  <2>2. Becomes(o, "create", currentDirectoryInodeID)
    BY <1>1 DEF Touch
  <2> HIDE DEF o
  <2>3. /\ Sound(o.disk) /\ (NamesSound(disk) => NamesSound(o.disk))
        /\ \A e \in o.torn : Sound(e) /\ (NamesSound(disk) => NamesSound(e))
    BY <2>1 DEF LeavesSound, LeavesNames
  <2> QED
    BY <1>0, <2>2, <2>3, CallKeeps
<1>2. ASSUME NEW path \in Paths, NEW create \in BOOLEAN, NEW slash \in BOOLEAN,
             Mkdir(path, create, slash)
      PROVE  SoundInv' /\ (NamesSound(disk) => NamesSound(disk)')
  <2> DEFINE o == MakeDirectory(disk, path, create, slash)
  <2>1. /\ LeavesSound(o, disk.Text) /\ (NamesSound(disk) => LeavesNames(o))
    BY <1>0, MakeDirectorySafe
  <2>2. Becomes(o, "create", currentDirectoryInodeID)
    BY <1>2 DEF Mkdir
  <2> HIDE DEF o
  <2>3. /\ Sound(o.disk) /\ (NamesSound(disk) => NamesSound(o.disk))
        /\ \A e \in o.torn : Sound(e) /\ (NamesSound(disk) => NamesSound(e))
    BY <2>1 DEF LeavesSound, LeavesNames
  <2> QED
    BY <1>0, <2>2, <2>3, CallKeeps
<1>3. ASSUME NEW i \in Named, NEW text \in Texts, NEW trunc \in BOOLEAN, Write(i, text, trunc)
      PROVE  SoundInv' /\ (NamesSound(disk) => NamesSound(disk)')
  <2> DEFINE o == WriteFileContent(disk, i, text, trunc)
             call == IF trunc THEN "truncate" ELSE "append"
  <2>1. i \in Inodes
    BY NamedHasType
  <2>2. /\ disk.Inode[i].Type = "FT_FILE" /\ Fits(IF trunc THEN 0 ELSE disk.Inode[i].Size, text)
        /\ Becomes(o, call, currentDirectoryInodeID)
    BY <1>3 DEF Write
  <2>3. /\ Sound(o.disk) /\ (NamesSound(disk) => NamesSound(o.disk))
        /\ ~trunc => \A e \in o.torn : Sound(e) /\ (NamesSound(disk) => NamesSound(e))
    BY <1>0, <2>1, <2>2, WriteSafe
  <2>4. call \in Interruptible => ~trunc
    BY <1>0
  <2> HIDE DEF o, call
  <2> QED
    BY <1>0, <2>2, <2>3, <2>4, CallKeeps
<1>4. ASSUME NEW i \in Reached(disk, 0), NEW name \in Removable, NEW deleteDir \in BOOLEAN,
             RemoveFile(i, name, deleteDir)
      PROVE  SoundInv' /\ ("" \notin Removable /\ NamesSound(disk) => NamesSound(disk)')
  <2> DEFINE o == RemoveInode(disk, i, name)
             names == "" \notin Removable /\ NamesSound(disk)
  <2>1. i \in Inodes /\ name \in Names \cup {""}
    BY ReachedHasType, Constants, ConstantsAssumption
  <2>2. PlacesOf(disk, i, name) # {} /\ Find(disk, i, name) # -1
    BY <1>4 DEF RemoveFile
  <2>3. Becomes(o, "remove", currentDirectoryInodeID)
    BY <1>4 DEF RemoveFile
  <2>4. Sound(o.disk) /\ (NamesSound(disk) /\ name \in Names => NamesSound(o.disk))
    BY <1>0, <2>1, <2>2, RemoveSafe
  <2>5. "" \notin Removable => name \in Names
    BY <2>1
  <2> HIDE DEF o
  <2>6. ASSUME "" \notin Removable PROVE SoundInv' /\ (NamesSound(disk) => NamesSound(disk)')
    BY <1>0, <2>3, <2>4, <2>5, <2>6, CallKeeps
  <2>7. SoundInv'
    <3>1. /\ currentDirectoryInodeID' \in Inodes /\ Sound(disk')
      BY <1>0, <2>3, <2>4, BecomesIs
    <3> QED
      BY <3>1 DEF SoundInv, Sound, DisksWith, IsDirectory, NumbersAt, BlockAt
  <2> QED
    BY <2>6, <2>7
<1>5. ASSUME NEW id \in Reached(disk, 0) \cup Reached(disk, currentDirectoryInodeID),
             ChangeDirectory(id)
      PROVE  SoundInv' /\ (NamesSound(disk) => NamesSound(disk)')
  <2>1. id \in Inodes
    BY <1>0, ReachedHasType, Constants
  <2>2. disk' = disk /\ currentDirectoryInodeID' = id
    BY <1>5 DEF ChangeDirectory
  <2>3. Sound(disk') /\ (NamesSound(disk) => NamesSound(disk'))
    BY <1>0, <2>2, Zenon
  <2> QED
    BY <2>1, <2>2, <2>3, DiskKeeps
<1>6. ASSUME Reboot PROVE SoundInv' /\ (NamesSound(disk) => NamesSound(disk)')
  <2> DEFINE o == InitializeFileSystem(disk)
  <2>1. Becomes(o, "boot", o.id)
    BY <1>6, Zenon DEF Reboot
  <2>2. /\ o.id \in Inodes /\ Sound(o.disk) /\ (NamesSound(disk) => NamesSound(o.disk))
        /\ \A e \in o.torn : Sound(e) /\ (NamesSound(disk) => NamesSound(e))
    BY <1>0, InitializeSafe
  <2> HIDE DEF o
  <2> QED
    BY <2>1, <2>2, CallKeeps
<1>7. ASSUME UNCHANGED vars PROVE SoundInv' /\ (NamesSound(disk) => NamesSound(disk)')
  <2>1. disk' = disk /\ currentDirectoryInodeID' = currentDirectoryInodeID
    BY <1>7 DEF vars
  <2>2. Sound(disk') /\ (NamesSound(disk) => NamesSound(disk'))
    BY <1>0, <2>1, Zenon
  <2> QED
    BY <1>0, <2>1, <2>2, DiskKeeps
<1> QED
  BY <1>1, <1>2, <1>3, <1>4, <1>5, <1>6, <1>7 DEF Next, Halted
-----------------------------------------------------------------------------
\* A place where a block is in use is a block of an inode.
LEMMA UseIs ==
  ASSUME Sound(disk), NEW u \in Uses
  PROVE  /\ u = <<u[1], u[2]>> /\ u[1] \in Inodes /\ u[2] \in NumbersAt(disk, u[1])
         /\ BlockUsed(u) = BlockAt(disk, u[1], u[2])
<1>0. disk.InodeBitMap \subseteq Inodes
  BY DEF Sound, DisksWith
<1>1. /\ u = <<u[1], u[2]>> /\ u[1] \in Inodes /\ u[2] \in 0 .. INODE_DIRECT_BLOCKS - 1
      /\ u[2] < BlocksOf(disk.Inode[u[1]].Size)
  BY <1>0 DEF Uses
<1>2. INODE_DIRECT_BLOCKS \in Nat
  BY Constants
<1>3. disk.Inode[u[1]].Size \in Sizes
  BY <1>1, NodeSizes DEF Sound
<1>4. BlocksOf(disk.Inode[u[1]].Size) \in Nat
  BY <1>3, BlocksOfBound DEF Sizes
<1>5. u[2] \in NumbersAt(disk, u[1])
  BY <1>1, <1>2, <1>4 DEF NumbersAt, Numbers
<1> QED
  BY <1>1, <1>5 DEF BlockUsed, BlockAt

(***************************************************************************)
(* Unless the power goes while a file is cleared or removed, no block is   *)
(* in two files, or in a file and free: through full disks, rm -r and      *)
(* every start of the system on what is left (BlocksPrivate).              *)
(***************************************************************************)
THEOREM BlocksStayPrivate ==
  ASSUME Interruptible \subseteq {"create", "append", "boot"}
  PROVE  Spec => []BlocksPrivate
<1>1. Init => SoundInv
  BY InitNames DEF NamesInv
<1>2. SoundInv /\ [Next]_vars => SoundInv'
  BY StepKeeps
<1>3. SoundInv => BlocksPrivate
  <2> SUFFICES ASSUME SoundInv PROVE BlocksPrivate
    OBVIOUS
  <2>1. Sound(disk) /\ disk.InodeBitMap \in SUBSET Inodes
    BY DEF SoundInv, Sound, DisksWith
  <2>2. ASSUME NEW u \in Uses
        PROVE  /\ u = <<u[1], u[2]>> /\ u[1] \in Inodes /\ u[2] \in NumbersAt(disk, u[1])
               /\ BlockUsed(u) = BlockAt(disk, u[1], u[2])
    BY <2>1, UseIs
  <2>3. ASSUME NEW u \in Uses PROVE BlockUsed(u) \in disk.DataBitMap
    BY <2>1, <2>2 DEF Sound
  <2>4. ASSUME NEW u \in Uses, NEW v \in Uses, BlockUsed(u) = BlockUsed(v) PROVE u = v
    <3>1. /\ u = <<u[1], u[2]>> /\ u[1] \in Inodes /\ u[2] \in NumbersAt(disk, u[1])
          /\ v = <<v[1], v[2]>> /\ v[1] \in Inodes /\ v[2] \in NumbersAt(disk, v[1])
          /\ BlockAt(disk, u[1], u[2]) = BlockAt(disk, v[1], v[2])
      BY <2>2, <2>4
    <3>2. u[1] = v[1] /\ u[2] = v[2]
      BY <2>1, <3>1 DEF Sound
    <3> QED
      BY <3>1, <3>2, Zenon
  <2> QED
    BY <2>3, <2>4 DEF BlocksPrivate
<1> QED
  BY <1>1, <1>2, <1>3, PTL DEF Spec

\* The name in a place, as Listing has it.
Lists(d, e, i, k, s) ==
  /\ HasName(d, i, k, s)
  /\ e = [Dir |-> i, Name |-> EntryIn(d, i, k, s).Name, File |-> EntryIn(d, i, k, s).InodeID]

\* A name that can be found is in a block of its directory.
LEMMA ListingIs ==
  ASSUME NEW d, Sound(d), NEW e \in Listing(d)
  PROVE  \E i \in Inodes, k \in 0 .. INODE_DIRECT_BLOCKS - 1, s \in Slots :
           k \in NumbersAt(d, i) /\ Lists(d, e, i, k, s)
<1>1. \E i \in d.InodeBitMap : \E n \in Places(d.Inode[i]) :
        /\ d.Inode[i].Type = "FT_DIRECTORY"
        /\ EntryAt(d, d.Inode[i], n).Name \in Names
        /\ e = [Dir |-> i, Name |-> EntryAt(d, d.Inode[i], n).Name,
                           File |-> EntryAt(d, d.Inode[i], n).InodeID]
  BY DEF Listing, NamesIn
<1>0. PICK i \in d.InodeBitMap : \E n \in Places(d.Inode[i]) :
        /\ d.Inode[i].Type = "FT_DIRECTORY"
        /\ EntryAt(d, d.Inode[i], n).Name \in Names
        /\ e = [Dir |-> i, Name |-> EntryAt(d, d.Inode[i], n).Name,
                           File |-> EntryAt(d, d.Inode[i], n).InodeID]
  BY <1>1
<1>2. PICK n \in Places(d.Inode[i]) :
        /\ d.Inode[i].Type = "FT_DIRECTORY"
        /\ EntryAt(d, d.Inode[i], n).Name \in Names
        /\ e = [Dir |-> i, Name |-> EntryAt(d, d.Inode[i], n).Name,
                           File |-> EntryAt(d, d.Inode[i], n).InodeID]
  BY <1>0
<1> DEFINE k == n \div PerBlock
           s == n % PerBlock
<1>3. i \in Inodes
  BY DEF Sound, DisksWith
<1>4. d.Inode[i].Size \in Sizes
  BY <1>3, NodeSizes DEF Sound
<1>5. k \in NumbersAt(d, i) /\ s \in Slots
  BY <1>4, PlacesArePairs DEF NumbersAt
<1>6. EntryAt(d, d.Inode[i], n) = EntryIn(d, i, k, s)
  BY DEF EntryAt, EntryIn, BlockOf
<1> HIDE DEF k, s
<1>7. /\ d.Inode[i].Type = "FT_DIRECTORY" /\ EntryIn(d, i, k, s).Name \in Names
      /\ e = [Dir |-> i, Name |-> EntryIn(d, i, k, s).Name, File |-> EntryIn(d, i, k, s).InodeID]
  BY <1>2, <1>6, Zenon
<1>8. HasName(d, i, k, s)
  BY <1>3, <1>5, <1>7, Zenon DEF HasName, IsDirectory
<1>9. Lists(d, e, i, k, s)
  BY <1>7, <1>8, Zenon DEF Lists
<1>10. k \in 0 .. INODE_DIRECT_BLOCKS - 1
  BY <1>3, <1>5, NodeSizes DEF Sound
<1> QED
  BY <1>3, <1>5, <1>9, <1>10, Zenon

\* When names are sound, the name or the inode of an entry tells where it is.
LEMMA ListedOnce ==
  ASSUME NEW d, Sound(d), NamesSound(d), NEW e \in Listing(d), NEW f \in Listing(d)
  PROVE  /\ e.File \in d.InodeBitMap
         /\ (e.Dir = f.Dir /\ e.Name = f.Name) \/ e.File = f.File => e = f
<1>1. PICK i \in Inodes, k \in 0 .. INODE_DIRECT_BLOCKS - 1, s \in Slots :
         k \in NumbersAt(d, i) /\ Lists(d, e, i, k, s)
  BY ListingIs
<1>2. PICK j \in Inodes, l \in 0 .. INODE_DIRECT_BLOCKS - 1, t \in Slots :
         l \in NumbersAt(d, j) /\ Lists(d, f, j, l, t)
  BY ListingIs
<1>3. /\ HasName(d, i, k, s) /\ e.Dir = i /\ e.Name = EntryIn(d, i, k, s).Name
      /\ e.File = EntryIn(d, i, k, s).InodeID
  BY <1>1 DEF Lists
<1>4. /\ HasName(d, j, l, t) /\ f.Dir = j /\ f.Name = EntryIn(d, j, l, t).Name
      /\ f.File = EntryIn(d, j, l, t).InodeID
  BY <1>2 DEF Lists
<1>5. e.File \in d.InodeBitMap
  BY <1>1, <1>3 DEF NamesSound
<1>6. i = j /\ k = l /\ s = t => e = f
  BY <1>1, <1>2, Zenon DEF Lists
<1>7. CASE e.Dir = f.Dir /\ e.Name = f.Name
  <2>1. i = j /\ HasName(d, i, l, t) /\ l \in NumbersAt(d, i)
        /\ EntryIn(d, i, k, s).Name = EntryIn(d, i, l, t).Name
    BY <1>2, <1>3, <1>4, <1>7
  <2>2. k = l /\ s = t
    BY <1>1, <1>3, <2>1 DEF NamesSound
  <2> QED
    BY <1>5, <1>6, <2>1, <2>2
<1>8. CASE e.File = f.File
  <2>1. EntryIn(d, i, k, s).InodeID = EntryIn(d, j, l, t).InodeID
    BY <1>3, <1>4, <1>8
  <2>2. i = j /\ k = l /\ s = t
    BY <1>1, <1>2, <1>3, <1>4, <2>1 DEF NamesSound
  <2> QED
    BY <1>5, <1>6, <2>2
<1> QED
  BY <1>5, <1>7, <1>8

(***************************************************************************)
(* Unless ./ is removed, or the power goes while a file is cleared or      *)
(* removed, every name stands for an inode that is in use, no two names    *)
(* for the same one, and no directory has a name twice                     *)
(* (NamesStandForInodes).                                                  *)
(***************************************************************************)
THEOREM NamesAlwaysStandForInodes ==
  ASSUME Interruptible \subseteq {"create", "append", "boot"}, "" \notin Removable
  PROVE  Spec => []NamesStandForInodes
<1>1. Init => NamesInv
  BY InitNames
<1>2. NamesInv /\ [Next]_vars => NamesInv'
  BY StepKeeps DEF NamesInv
<1>3. NamesInv => NamesStandForInodes
  <2> SUFFICES ASSUME NamesInv PROVE NamesStandForInodes
    OBVIOUS
  <2>1. Sound(disk) /\ NamesSound(disk)
    BY DEF NamesInv, SoundInv
  <2>2. \A e, f \in Listing(disk) :
          /\ e.File \in disk.InodeBitMap
          /\ (e.Dir = f.Dir /\ e.Name = f.Name) \/ e.File = f.File => e = f
    BY <2>1, ListedOnce
  <2>3. 0 \in disk.InodeBitMap
    BY <2>1 DEF NamesSound
  <2> QED
    BY <2>2, <2>3, Zenon DEF NamesStandForInodes
<1> QED
  BY <1>1, <1>2, <1>3, PTL DEF Spec
-----------------------------------------------------------------------------
(***************************************************************************)
(* Nothing is lost, as long as nothing is removed and the power never goes *)
(* during a call.  A panic may lose a block: CreateFile takes one and then *)
(* finds no inode; the system is halted then.                              *)
(***************************************************************************)
Kept(d, directory, message, whole) ==
  /\ PowerLost(message) => ~whole
  /\ whole => Sound(d) /\ NamesSound(d) /\ directory \in Inodes
  /\ whole /\ message = "none" => Full(d) /\ directory \in d.InodeBitMap

KeptInv == Kept(disk, currentDirectoryInodeID, panic, clean)

LEMMA InitKept == Init => KeptInv
<1> SUFFICES ASSUME Init PROVE KeptInv
  OBVIOUS
<1>1. Sound(disk) /\ NamesSound(disk) /\ currentDirectoryInodeID \in Inodes
  BY InitNames DEF NamesInv, SoundInv
<1>2. panic = "none" /\ currentDirectoryInodeID = 0
  BY DEF Init
<1>3. disk.InodeBitMap = {0} /\ disk.DataBitMap = {}
  <2> DEFINE inode == [i \in Inodes |->
                         newEmptyDiskInode(IF i = 0 THEN "FT_DIRECTORY" ELSE "FT_UNKNOWN")]
             data == [b \in Blocks |-> Zeros]
             text == [b \in Blocks |-> NoText]
  <2>1. disk = [InodeBitMap |-> {0}, DataBitMap |-> {}, Inode |-> inode, Data |-> data,
                Text |-> text]
    BY Zenon DEF Init
  <2> HIDE DEF inode, data, text
  <2> QED
    BY <2>1
<1>4. \A i, k, s : ~HasName(disk, i, k, s)
  BY <1>1, <1>3 DEF HasName, Sound
<1>5. Full(disk)
  BY <1>3, <1>4 DEF Full, InodesNamed, NamesCounted, BlocksOwned
<1>6. ~PowerLost(panic)
  BY <1>2, NotLost
<1>7. currentDirectoryInodeID \in disk.InodeBitMap
  BY <1>2, <1>3
<1> QED
  BY <1>1, <1>5, <1>6, <1>7 DEF KeptInv, Kept

\* A call that leaves everything there, when it does all its writes.
LEMMA CallLosesNothing ==
  ASSUME NEW o, NEW call, Becomes(o, call, currentDirectoryInodeID),
         ~PowerLost(o.panic),
         clean => Sound(o.disk) /\ NamesSound(o.disk) /\ currentDirectoryInodeID \in Inodes,
         clean /\ o.panic = "none" => Full(o.disk) /\ currentDirectoryInodeID \in o.disk.InodeBitMap
  PROVE  KeptInv'
<1>1. \/ disk' = o.disk /\ currentDirectoryInodeID' = currentDirectoryInodeID
                        /\ panic' = o.panic /\ clean' = clean
      \/ clean' = FALSE
  BY BecomesIs
<1>2. Kept(o.disk, currentDirectoryInodeID, o.panic, clean)
  BY DEF Kept
<1>3. Kept(disk', currentDirectoryInodeID', panic', clean')
  <2>1. CASE clean' = FALSE
    <3>1. ~clean'
      BY <2>1, Zenon
    <3> QED
      BY <3>1, Zenon DEF Kept
  <2>2. CASE disk' = o.disk /\ currentDirectoryInodeID' = currentDirectoryInodeID
                            /\ panic' = o.panic /\ clean' = clean
    BY <1>2, <2>2, Zenon
  <2> QED
    BY <1>1, <2>1, <2>2
<1> QED
  BY <1>3, Zenon DEF KeptInv

\* Once the power has gone during a call, nothing more is said.
LEMMA LostStays ==
  ASSUME NEW o, NEW call, NEW directory, Becomes(o, call, directory), ~clean
  PROVE  KeptInv'
<1>1. clean' = clean \/ clean' = FALSE
  BY BecomesIs
<1>2. ~clean'
  BY <1>1, Zenon
<1>3. Kept(disk', currentDirectoryInodeID', panic', clean')
  BY <1>2, Zenon DEF Kept
<1> QED
  BY <1>3, Zenon DEF KeptInv

LEMMA ReachedInUse ==
  ASSUME Sound(disk), NamesSound(disk), NEW i \in disk.InodeBitMap
  PROVE  Reached(disk, i) \subseteq disk.InodeBitMap
<1>1. \A path \in Paths : Walk(disk, i, path) \in disk.InodeBitMap \cup {-1}
  BY WalkInUse
<1> QED
  BY <1>1 DEF Reached

LEMMA NamedInUse ==
  ASSUME Sound(disk), NamesSound(disk), currentDirectoryInodeID \in disk.InodeBitMap
  PROVE  Named \subseteq disk.InodeBitMap
<1>1. 0 \in disk.InodeBitMap /\ currentDirectoryInodeID \in Inodes
  BY DEF NamesSound, Sound, DisksWith
<1>2. Reached(disk, 0) \subseteq disk.InodeBitMap
  BY <1>1, ReachedInUse
<1>3. \A name \in Names : Find(disk, currentDirectoryInodeID, name) \in disk.InodeBitMap
  BY <1>1, FindInUse
<1> QED
  BY <1>2, <1>3 DEF Named

LEMMA StepLosesNothing ==
  ASSUME Removable = {}, ~Rebooting, Overrun => \A text \in Texts : Len(text) # 0,
         KeptInv, [Next]_vars
  PROVE  KeptInv'
<1> DEFINE i0 == currentDirectoryInodeID
           Safe == Sound(disk) /\ NamesSound(disk) /\ i0 \in Inodes
           Whole == Safe /\ Full(disk) /\ i0 \in disk.InodeBitMap /\ 0 \in disk.InodeBitMap
                    /\ disk.InodeBitMap \subseteq Inodes
<1>0. /\ clean => Safe
      /\ Running /\ clean => Whole
      /\ PowerLost(panic) => ~clean
  <2>1. clean => Sound(disk) /\ NamesSound(disk) /\ i0 \in Inodes
    BY DEF KeptInv, Kept
  <2>2. Running /\ clean => Full(disk) /\ i0 \in disk.InodeBitMap
    BY DEF KeptInv, Kept, Running
  <2>3. Sound(disk) => disk.InodeBitMap \subseteq Inodes
    BY DEF Sound, DisksWith
  <2>4. NamesSound(disk) => 0 \in disk.InodeBitMap
    BY DEF NamesSound
  <2>5. PowerLost(panic) => ~clean
    BY DEF KeptInv, Kept
  <2> QED
    BY <2>1, <2>2, <2>3, <2>4, <2>5
<1> HIDE DEF i0
<1>1. ASSUME NEW name \in Names, Touch(name) PROVE KeptInv'
  <2> DEFINE o == CreateFile(disk, i0, name, "FT_FILE")
  <2>1. Running /\ Becomes(o, "create", i0)
    BY <1>1 DEF Touch, i0
  <2>2. ~PowerLost(o.panic)
    BY CreateFilePanic
  <2>3. clean => Sound(o.disk) /\ NamesSound(o.disk)
    BY <1>0, CreateFileSafe DEF LeavesSound, LeavesNames
  <2>4. clean => LeavesFull(o, disk.InodeBitMap)
    BY <1>0, <2>1, CreateFileFull
  <2> HIDE DEF o
  <2>5. clean /\ o.panic = "none" => Full(o.disk) /\ i0 \in o.disk.InodeBitMap
    BY <1>0, <2>1, <2>4 DEF LeavesFull
  <2> QED
    BY <1>0, <2>1, <2>2, <2>3, <2>5, CallLosesNothing DEF i0
<1>2. ASSUME NEW path \in Paths, NEW create \in BOOLEAN, NEW slash \in BOOLEAN,
             Mkdir(path, create, slash)
      PROVE  KeptInv'
  <2> DEFINE o == MakeDirectory(disk, path, create, slash)
  <2>1. Running /\ Becomes(o, "create", i0)
    BY <1>2 DEF Mkdir, i0
  <2>2. CASE ~clean
    BY <2>1, <2>2, LostStays
  <2>3. CASE clean
    <3>1. /\ LeavesSound(o, disk.Text) /\ LeavesNames(o) /\ LeavesFull(o, disk.InodeBitMap)
          /\ ~PowerLost(o.panic)
      BY <1>0, <2>1, <2>3, MakeDirectorySafe
    <3> HIDE DEF o
    <3>2. Sound(o.disk) /\ NamesSound(o.disk)
      BY <3>1 DEF LeavesSound, LeavesNames
    <3>3. o.panic = "none" => Full(o.disk) /\ i0 \in o.disk.InodeBitMap
      BY <1>0, <2>1, <2>3, <3>1 DEF LeavesFull
    <3> QED
      BY <1>0, <2>1, <2>3, <3>1, <3>2, <3>3, CallLosesNothing DEF i0
  <2> QED
    BY <2>2, <2>3
<1>3. ASSUME NEW i \in Named, NEW text \in Texts, NEW trunc \in BOOLEAN, Write(i, text, trunc)
      PROVE  KeptInv'
  <2> DEFINE o == WriteFileContent(disk, i, text, trunc)
             call == IF trunc THEN "truncate" ELSE "append"
  <2>1. /\ Running /\ Becomes(o, call, i0)
        /\ disk.Inode[i].Type = "FT_FILE" /\ Fits(IF trunc THEN 0 ELSE disk.Inode[i].Size, text)
    BY <1>3 DEF Write, i0
  <2> HIDE DEF call
  <2>2. CASE ~clean
    BY <2>1, <2>2, LostStays
  <2>3. CASE clean
    <3>1. i \in disk.InodeBitMap /\ i \in Inodes
      BY <1>0, <2>1, <2>3, NamedInUse DEF i0
    <3>2. /\ Sound(o.disk) /\ NamesSound(o.disk) /\ ~PowerLost(o.panic)
          /\ Full(o.disk) /\ o.disk.InodeBitMap = disk.InodeBitMap
      BY <1>0, <2>1, <2>3, <3>1, WriteSafe
    <3> HIDE DEF o
    <3> QED
      BY <1>0, <2>1, <2>3, <3>2, CallLosesNothing DEF i0
  <2> QED
    BY <2>2, <2>3
<1>4. ASSUME NEW id \in Reached(disk, 0) \cup Reached(disk, i0), ChangeDirectory(id)
      PROVE  KeptInv'
  <2>1. /\ Running /\ disk' = disk /\ currentDirectoryInodeID' = id
        /\ panic' = panic /\ clean' = clean
    BY <1>4 DEF ChangeDirectory
  <2>2. clean => id \in disk.InodeBitMap /\ id \in Inodes
    BY <1>0, <2>1, ReachedInUse
  <2>3. Kept(disk, id, panic, clean)
    BY <1>0, <2>1, <2>2 DEF Kept, Running
  <2>4. Kept(disk', currentDirectoryInodeID', panic', clean')
    BY <2>1, <2>3, Zenon
  <2> QED
    BY <2>4, Zenon DEF KeptInv
<1>5. ASSUME Reboot PROVE KeptInv'
  <2>1. ~clean
    BY <1>0, <1>5 DEF Reboot, PowerLost
  <2>2. PICK o : Becomes(o, "boot", o.id)
    BY <1>5, Zenon DEF Reboot
  <2> QED
    BY <2>1, <2>2, LostStays
<1>6. ASSUME UNCHANGED vars PROVE KeptInv'
  <2>1. /\ disk' = disk /\ currentDirectoryInodeID' = currentDirectoryInodeID
        /\ panic' = panic /\ clean' = clean
    BY <1>6 DEF vars
  <2>2. Kept(disk', currentDirectoryInodeID', panic', clean')
    BY <2>1, Zenon DEF KeptInv
  <2> QED
    BY <2>2, Zenon DEF KeptInv
<1> QED
  BY <1>1, <1>2, <1>3, <1>4, <1>5, <1>6 DEF Next, Halted, i0

\* A name in a block of a directory in use can be found.
LEMMA IsListed ==
  ASSUME NEW d, Sound(d), NEW i \in d.InodeBitMap, NEW k, NEW s, HasName(d, i, k, s)
  PROVE  \E e \in Listing(d) : e.File = EntryIn(d, i, k, s).InodeID
<1> DEFINE n == k * PerBlock + s
           e == [Dir |-> i, Name |-> EntryAt(d, d.Inode[i], n).Name,
                 File |-> EntryAt(d, d.Inode[i], n).InodeID]
<1>1. /\ i \in Inodes /\ k \in NumbersAt(d, i) /\ s \in Slots /\ d.Inode[i].Type = "FT_DIRECTORY"
      /\ EntryIn(d, i, k, s).Name \in Names
  BY DEF HasName, IsDirectory
<1>2. d.Inode[i].Size \in Sizes
  BY <1>1, NodeSizes DEF Sound
<1>3. n \in Places(d.Inode[i]) /\ n \div PerBlock = k /\ n % PerBlock = s
  BY <1>1, <1>2, PlacesArePairs DEF NumbersAt
<1> HIDE DEF n
<1>4. EntryAt(d, d.Inode[i], n) = EntryIn(d, i, k, s)
  BY <1>3 DEF EntryAt, EntryIn, BlockOf
<1>5. e \in Listing(d)
  <2> DEFINE f == EntryAt(d, d.Inode[i], n)
             found == {EntryAt(d, d.Inode[i], m) : m \in Places(d.Inode[i])}
             here == {[Dir |-> i, Name |-> g.Name, File |-> g.InodeID] :
                        g \in {h \in found : h.Name \in Names}}
  <2>1. f \in found /\ f.Name \in Names
    BY <1>1, <1>3, <1>4, Zenon
  <2>2. e \in here
    BY <2>1, Zenon
  <2>3. here \subseteq Listing(d)
    BY <1>1, Zenon DEF Listing, NamesIn
  <2> QED
    BY <2>2, <2>3, Zenon
<1>6. e.File = EntryIn(d, i, k, s).InodeID
  BY <1>4
<1> QED
  BY <1>5, <1>6

(***************************************************************************)
(* Nothing is lost, whatever the calls the power may go in: every inode in *)
(* use but the root has a name, every block in use belongs to a file, as   *)
(* long as the system runs, nothing is removed and every call does all its *)
(* writes.  An empty text is not appended to a file that ends with its     *)
(* block: it takes a block that the size does not count (NothingLost).     *)
(***************************************************************************)
THEOREM NothingIsLost ==
  ASSUME Removable = {}, ~Rebooting, Overrun => \A text \in Texts : Len(text) # 0
  PROVE  Spec => []NothingLost
<1>1. KeptInv /\ [Next]_vars => KeptInv'
  BY StepLosesNothing
<1>2. KeptInv => NothingLost
  <2> SUFFICES ASSUME KeptInv, Running, clean
               PROVE  /\ disk.InodeBitMap \ {0} = {e.File : e \in Listing(disk)}
                      /\ disk.DataBitMap = {BlockUsed(u) : u \in Uses}
    BY DEF NothingLost
  <2>1. Sound(disk) /\ NamesSound(disk) /\ Full(disk) /\ disk.InodeBitMap \subseteq Inodes
    BY DEF KeptInv, Kept, Running, Sound, DisksWith
  <2>2. ASSUME NEW id \in disk.InodeBitMap \ {0}
        PROVE  \E e \in Listing(disk) : e.File = id
    <3>1. PICK i \in disk.InodeBitMap : \E k, s :
             HasName(disk, i, k, s) /\ EntryIn(disk, i, k, s).InodeID = id
      BY <2>1 DEF Full, InodesNamed
    <3> QED
      BY <2>1, <3>1, IsListed
  <2>3. ASSUME NEW e \in Listing(disk)
        PROVE  e.File \in disk.InodeBitMap \ {0}
    <3>1. PICK i \in Inodes, k \in 0 .. INODE_DIRECT_BLOCKS - 1, s \in Slots :
             k \in NumbersAt(disk, i) /\ Lists(disk, e, i, k, s)
      BY <2>1, ListingIs
    <3>2. HasName(disk, i, k, s) /\ e.File = EntryIn(disk, i, k, s).InodeID
      BY <3>1 DEF Lists
    <3> QED
      BY <2>1, <3>1, <3>2 DEF NamesSound
  <2>4. ASSUME NEW b \in disk.DataBitMap
        PROVE  \E u \in Uses : BlockUsed(u) = b
    <3>1. PICK i \in disk.InodeBitMap : \E k \in NumbersAt(disk, i) : BlockAt(disk, i, k) = b
      BY <2>1 DEF Full, BlocksOwned
    <3>2. PICK k \in NumbersAt(disk, i) : BlockAt(disk, i, k) = b
      BY <3>1
    <3>3. disk.Inode[i].Size \in Sizes /\ k \in 0 .. INODE_DIRECT_BLOCKS - 1
      BY <2>1, NodeSizes DEF Sound
    <3>4. BlocksOf(disk.Inode[i].Size) \in Nat
      BY <3>3, BlocksOfBound DEF Sizes
    <3>5. k < BlocksOf(disk.Inode[i].Size)
      BY <3>4 DEF NumbersAt, Numbers
    <3>6. <<i, k>> \in Uses /\ BlockUsed(<<i, k>>) = b
      BY <3>2, <3>3, <3>5 DEF Uses, BlockUsed, BlockAt
    <3> QED
      BY <3>6
  <2>5. ASSUME NEW u \in Uses PROVE BlockUsed(u) \in disk.DataBitMap
    BY <2>1, UseIs DEF Sound
  <2> QED
    BY <2>2, <2>3, <2>4, <2>5
<1> QED
  BY InitKept, <1>1, <1>2, PTL DEF Spec
-----------------------------------------------------------------------------
\* The first k elements of a sequence.
LEMMA FrontIs ==
  ASSUME NEW S, NEW s \in Seq(S), NEW m \in 0 .. Len(s)
  PROVE  /\ SubSeq(s, 1, m) \in Seq(S) /\ Len(SubSeq(s, 1, m)) = m
         /\ \A k \in 1 .. m : SubSeq(s, 1, m)[k] = s[k]
<1>1. Len(s) \in Nat /\ \A k \in 1 .. Len(s) : s[k] \in S
  OBVIOUS
<1>2. \A k \in 1 .. m : s[k] \in S
  BY <1>1
<1> QED
  BY <1>1, <1>2, SubSeqProperties

LEMMA FrontOfFront ==
  ASSUME NEW S, NEW s \in Seq(S), NEW m \in 0 .. Len(s), NEW k \in 0 .. m
  PROVE  SubSeq(SubSeq(s, 1, m), 1, k) = SubSeq(s, 1, k)
<1> DEFINE t == SubSeq(s, 1, m)
           u == SubSeq(t, 1, k)
           v == SubSeq(s, 1, k)
<1>1. t \in Seq(S) /\ Len(t) = m /\ \A j \in 1 .. m : t[j] = s[j]
  BY FrontIs
<1>2. k \in 0 .. Len(s)
  OBVIOUS
<1>3. v \in Seq(S) /\ Len(v) = k /\ \A j \in 1 .. k : v[j] = s[j]
  BY <1>2, FrontIs
<1> HIDE DEF t, v
<1>4. u \in Seq(S) /\ Len(u) = k /\ \A j \in 1 .. k : u[j] = t[j]
  BY <1>1, FrontIs
<1> HIDE DEF u
<1>5. \A j \in 1 .. k : u[j] = v[j]
  BY <1>1, <1>3, <1>4
<1>6. u = v
  BY <1>3, <1>4, <1>5, SeqEqual
<1> QED
  BY <1>6 DEF u, v, t

\* A front of a sequence is a prefix of every longer one.
LEMMA FrontIsPrefix ==
  ASSUME NEW S, NEW s \in Seq(S), NEW m \in 0 .. Len(s), NEW k \in 0 .. m
  PROVE  Seqs!IsPrefix(SubSeq(s, 1, k), SubSeq(s, 1, m))
<1>1. k \in 0 .. Len(s)
  OBVIOUS
<1>2. /\ Len(SubSeq(s, 1, k)) = k /\ Len(SubSeq(s, 1, m)) = m
  BY <1>1, FrontIs
<1>3. k \in 0 .. k
  OBVIOUS
<1>4. SubSeq(SubSeq(s, 1, m), 1, k) = SubSeq(s, 1, k)
  BY FrontOfFront
<1>5. SubSeq(SubSeq(s, 1, k), 1, k) = SubSeq(s, 1, k)
  BY <1>1, <1>3, FrontOfFront
<1>6. k <= m
  OBVIOUS
<1> QED
  BY <1>2, <1>4, <1>5, <1>6 DEF Seqs!IsPrefix

\* The lines of a text: a front of it that ends where a newline is the n-th.
Newline(s, k, n) == s[k] = "\n" /\ Cardinality({j \in 1 .. k : s[j] = "\n"}) = n

LEMMA LinesAre ==
  ASSUME NEW S, NEW s \in Seq(S), NEW n
  PROVE  \E k \in 0 .. Len(s) :
           /\ Lines(s, n) = SubSeq(s, 1, k)
           /\ \A j \in 1 .. Len(s) : Newline(s, j, n) => k <= j
           /\ k = Len(s) \/ (k # 0 /\ Newline(s, k, n))
<1> DEFINE ends == {k \in DOMAIN s : s[k] = "\n" /\ Cardinality({j \in 1 .. k : s[j] = "\n"}) = n}
<1>1. DOMAIN s = 1 .. Len(s) /\ Len(s) \in Nat
  OBVIOUS
<1>2. \A k : k \in ends <=> k \in 1 .. Len(s) /\ Newline(s, k, n)
  BY <1>1 DEF Newline
<1>3. Lines(s, n) = IF ends = {} THEN s ELSE SubSeq(s, 1, First(ends))
  BY Zenon DEF Lines
<1> HIDE DEF ends
<1>4. CASE ends = {}
  <2>0. SubSeq(s, 1, Len(s)) = s
    BY SubSeqFull
  <2>1. Lines(s, n) = SubSeq(s, 1, Len(s))
    BY <1>3, <1>4, <2>0
  <2>2. \A j \in 1 .. Len(s) : ~Newline(s, j, n)
    BY <1>2, <1>4
  <2>3. Len(s) \in 0 .. Len(s)
    BY <1>1
  <2> QED
    BY <2>1, <2>2, <2>3
<1>5. CASE ends # {}
  <2>1. ends \subseteq Nat
    BY <1>1, <1>2
  <2>2. First(ends) \in ends /\ \A j \in ends : First(ends) <= j
    BY <1>5, <2>1, FirstIs
  <2>3. First(ends) \in 1 .. Len(s) /\ Newline(s, First(ends), n)
    BY <1>2, <2>2
  <2>4. \A j \in 1 .. Len(s) : Newline(s, j, n) => First(ends) <= j
    BY <1>2, <2>2
  <2> DEFINE k == First(ends)
  <2>5. Lines(s, n) = SubSeq(s, 1, k)
    BY <1>3, <1>5
  <2> HIDE DEF k
  <2>6. k \in 0 .. Len(s) /\ k # 0
    BY <1>1, <2>3 DEF k
  <2> QED
    BY <2>3, <2>4, <2>5, <2>6 DEF k
<1> QED
  BY <1>4, <1>5

(***************************************************************************)
(* The first n lines of the front of a text are a front of its first n     *)
(* lines.                                                                  *)
(***************************************************************************)
LEMMA LinesOfFront ==
  ASSUME NEW S, NEW s \in Seq(S), NEW m \in 0 .. Len(s), NEW n
  PROVE  Seqs!IsPrefix(Lines(SubSeq(s, 1, m), n), Lines(s, n))
<1> DEFINE t == SubSeq(s, 1, m)
<1>1. t \in Seq(S) /\ Len(t) = m /\ \A k \in 1 .. m : t[k] = s[k]
  BY FrontIs
<1>2. Len(s) \in Nat /\ m \in Nat /\ m <= Len(s)
  OBVIOUS
<1>3. PICK k \in 0 .. Len(s) :
         /\ Lines(s, n) = SubSeq(s, 1, k)
         /\ \A j \in 1 .. Len(s) : Newline(s, j, n) => k <= j
         /\ k = Len(s) \/ (k # 0 /\ Newline(s, k, n))
  BY LinesAre
<1> HIDE DEF t
<1>4. PICK l \in 0 .. Len(t) :
         /\ Lines(t, n) = SubSeq(t, 1, l)
         /\ \A j \in 1 .. Len(t) : Newline(t, j, n) => l <= j
         /\ l = Len(t) \/ (l # 0 /\ Newline(t, l, n))
  BY <1>1, LinesAre
<1>5. \A j \in 1 .. m : Newline(t, j, n) <=> Newline(s, j, n)
  <2> SUFFICES ASSUME NEW j \in 1 .. m PROVE Newline(t, j, n) <=> Newline(s, j, n)
    OBVIOUS
  <2>1. \A i \in 1 .. j : t[i] = s[i]
    BY <1>1, <1>2
  <2>2. {i \in 1 .. j : t[i] = "\n"} = {i \in 1 .. j : s[i] = "\n"}
    BY <2>1
  <2>3. t[j] = s[j]
    BY <1>1
  <2> QED
    BY <2>2, <2>3 DEF Newline
<1>6. l <= k
  BY <1>1, <1>2, <1>3, <1>4, <1>5
<1>7. Lines(t, n) = SubSeq(s, 1, l)
  BY <1>1, <1>4, FrontOfFront DEF t
<1>8. Seqs!IsPrefix(SubSeq(s, 1, l), SubSeq(s, 1, k))
  BY <1>1, <1>3, <1>4, <1>6, FrontIsPrefix
<1> QED
  BY <1>3, <1>7, <1>8 DEF t
-----------------------------------------------------------------------------
(***************************************************************************)
(* What is in the blocks of a file: no end mark before the place its size  *)
(* says, and one there as long as the power never went during a call.      *)
(***************************************************************************)
CellAt(d, i, p) == d.Text[BlockAt(d, i, (p - 1) \div BlockSize)][(p - 1) % BlockSize]

\* What a cell can hold.
Chars == STRING \cup {"0", "EOF"}

BlockTexts == [0 .. BlockSize - 1 -> Chars]

TextSound(d, whole) ==
  /\ d.Text \in [Blocks -> BlockTexts]
  /\ \A i \in Inodes : IsFile(d, i) => \A p \in 1 .. d.Inode[i].Size :
       /\ p < d.Inode[i].Size => CellAt(d, i, p) # "EOF"
       /\ p = d.Inode[i].Size /\ whole => CellAt(d, i, p) = "EOF"

\* The cells of as many blocks as a size takes are in these blocks.
LEMMA CellNumbers ==
  ASSUME NEW size \in Sizes, NEW p \in Nat \ {0}
  PROVE  /\ (p - 1) \div BlockSize \in Nat /\ (p - 1) % BlockSize \in 0 .. BlockSize - 1
         /\ p - 1 = ((p - 1) \div BlockSize) * BlockSize + ((p - 1) % BlockSize)
         /\ p <= BlocksOf(size) * BlockSize => (p - 1) \div BlockSize \in Numbers(size)
         /\ p <= size => (p - 1) \div BlockSize \in Numbers(size)
         /\ BlocksOf(size) \in Nat /\ size <= BlocksOf(size) * BlockSize
<1> DEFINE k == (p - 1) \div BlockSize
           r == (p - 1) % BlockSize
           n == BlocksOf(size)
           m == size \div BlockSize
           l == size % BlockSize
<1>1. /\ BlockSize \in Nat \ {0} /\ p - 1 \in Nat /\ size \in Nat
  BY Constants DEF Sizes
<1>2. k \in Nat /\ r \in Nat /\ r < BlockSize /\ p - 1 = k * BlockSize + r
  BY <1>1, DivisionIs
<1>3. m \in Nat /\ l \in Nat /\ l < BlockSize /\ size = m * BlockSize + l
  BY <1>1, DivisionIs
<1>4. n \in Nat /\ (l = 0 => n = m) /\ (l # 0 => n = m + 1)
  BY BlocksOfBound DEF Sizes
<1> HIDE DEF k, r, n, m, l
<1>5. size <= n * BlockSize /\ n * BlockSize \in Nat
  <2>1. CASE l = 0
    BY <1>1, <1>3, <1>4, <2>1
  <2>2. CASE l # 0
    <3>1. n * BlockSize = m * BlockSize + BlockSize
      BY <1>1, <1>3, <1>4, <2>2
    <3> QED
      BY <1>1, <1>3, <1>4, <3>1
  <2> QED
    BY <2>1, <2>2
<1>6. ASSUME p <= n * BlockSize PROVE k \in Numbers(size)
  <2>1. k * BlockSize < n * BlockSize
    BY <1>1, <1>2, <1>5, <1>6
  <2>2. k < n
    BY <1>1, <1>2, <1>4, <2>1, Multiples
  <2> QED
    BY <1>2, <1>4, <2>2 DEF Numbers, n
<1>7. ASSUME p <= size PROVE k \in Numbers(size)
  BY <1>1, <1>5, <1>6, <1>7
<1> QED
  BY <1>1, <1>2, <1>4, <1>5, <1>6, <1>7 DEF k, r, n

\* Cells are where CellAt says.
LEMMA CellsAre ==
  ASSUME NEW d, Sound(d), d.Text \in [Blocks -> BlockTexts], NEW i \in Inodes
  PROVE  /\ Cells(d, i) \in Seq(Chars)
         /\ Len(Cells(d, i)) = BlocksOf(d.Inode[i].Size) * BlockSize
         /\ d.Inode[i].Size <= Len(Cells(d, i))
         /\ \A p \in 1 .. Len(Cells(d, i)) : Cells(d, i)[p] = CellAt(d, i, p)
<1> DEFINE size == d.Inode[i].Size
           n == BlocksOf(size) * BlockSize
<1>1. size \in Sizes /\ d.DataBitMap \subseteq Blocks
  BY NodeSizes DEF Sound, DisksWith
<1>2. n \in Nat /\ size <= n
  BY <1>1, CellNumbers, Constants
<1>3. Cells(d, i) = [p \in 1 .. n |-> CellAt(d, i, p)]
  BY DEF Cells, CellAt, BlockAt
<1>4. ASSUME NEW p \in 1 .. n PROVE CellAt(d, i, p) \in Chars
  <2>1. /\ (p - 1) \div BlockSize \in NumbersAt(d, i)
        /\ (p - 1) % BlockSize \in 0 .. BlockSize - 1
    BY <1>1, <1>2, <1>4, CellNumbers DEF NumbersAt
  <2>2. BlockAt(d, i, (p - 1) \div BlockSize) \in Blocks
    BY <1>1, <2>1 DEF Sound
  <2> QED
    BY <2>1, <2>2 DEF CellAt, BlockTexts
<1> HIDE DEF n
<1>5. Cells(d, i) \in [1 .. n -> Chars]
  BY <1>3, <1>4
<1>6. Cells(d, i) \in Seq(Chars) /\ Len(Cells(d, i)) = n
  BY <1>2, <1>5
<1> QED
  BY <1>2, <1>3, <1>6 DEF n

(***************************************************************************)
(* Files that are empty or as they were keep their texts.                  *)
(***************************************************************************)
SameFiles(d, e) ==
  /\ e.Text \in [Blocks -> BlockTexts]
  /\ \A i \in Inodes : IsFile(e, i) /\ e.Inode[i].Size # 0 =>
       /\ e.Inode[i] = d.Inode[i]
       /\ \A k \in NumbersAt(d, i) : e.Text[BlockAt(d, i, k)] = d.Text[BlockAt(d, i, k)]

LEMMA SameTexts ==
  ASSUME NEW d, Sound(d), NEW e, Sound(e), SameFiles(d, e), NEW whole, TextSound(d, whole)
  PROVE  TextSound(e, whole)
<1> SUFFICES ASSUME NEW i \in Inodes, IsFile(e, i), NEW p \in 1 .. e.Inode[i].Size
             PROVE  /\ p < e.Inode[i].Size => CellAt(e, i, p) # "EOF"
                    /\ p = e.Inode[i].Size /\ whole => CellAt(e, i, p) = "EOF"
  BY DEF TextSound, SameFiles
<1>1. e.Inode[i].Size \in Sizes /\ e.Inode[i].Size \in Nat
  BY NodeSizes, Constants DEF Sound, Sizes
<1>2. e.Inode[i].Size # 0
  BY <1>1
<1>3. IsFile(d, i) /\ e.Inode[i] = d.Inode[i]
  BY <1>2 DEF SameFiles, IsFile
<1>4. (p - 1) \div BlockSize \in NumbersAt(d, i)
  BY <1>1, <1>3, CellNumbers DEF NumbersAt
<1>5. CellAt(e, i, p) = CellAt(d, i, p)
  BY <1>2, <1>3, <1>4 DEF SameFiles, CellAt, BlockAt
<1> QED
  BY <1>3, <1>5 DEF TextSound

\* What Marked writes, from the old mark on.
LEMMA MarkedIs ==
  ASSUME NEW cells \in BlockTexts, NEW size \in Nat, NEW text \in Texts, NEW start \in Nat,
         start = (SizeWithMark(size) % BlockSize) - 1
  PROVE  LET new == Marked(cells, size, text)
         IN  /\ new \in BlockTexts /\ Len(text) \in Nat
             /\ \A p \in 0 .. BlockSize - 1 :
                  /\ p < start => new[p] = cells[p]
                  /\ start <= p /\ p < start + Len(text) => new[p] # "EOF"
                  /\ p = start + Len(text) => new[p] = "EOF"
<1> DEFINE new == Marked(cells, size, text)
<1>1. /\ text \in Seq(STRING \ {"0", "EOF"}) /\ BlockSize \in Nat
  BY ConstantsAssumption, Constants
<1>2. /\ Len(text) \in Nat /\ DOMAIN text = 1 .. Len(text)
      /\ \A k \in 1 .. Len(text) : text[k] \in STRING /\ text[k] # "EOF"
  BY <1>1
<1>3. new = [p \in 0 .. BlockSize - 1 |->
               IF p - start + 1 \in DOMAIN text THEN text[p - start + 1]
               ELSE IF p = start + Len(text) THEN "EOF" ELSE cells[p]]
  BY DEF Marked, BlockTexts
<1> HIDE DEF new
<1>4. new \in BlockTexts
  <2>1. "EOF" \in Chars /\ \A k \in 1 .. Len(text) : text[k] \in Chars
    BY <1>2 DEF Chars
  <2>2. \A p \in 0 .. BlockSize - 1 : cells[p] \in Chars
    BY DEF BlockTexts
  <2> QED
    BY <1>2, <1>3, <2>1, <2>2 DEF BlockTexts
<1>5. ASSUME NEW p \in 0 .. BlockSize - 1
      PROVE  /\ p < start => new[p] = cells[p]
             /\ start <= p /\ p < start + Len(text) => new[p] # "EOF"
             /\ p = start + Len(text) => new[p] = "EOF"
  <2>1. p - start + 1 \in DOMAIN text <=> start <= p /\ p < start + Len(text)
    BY <1>1, <1>2
  <2>2. p - start + 1 \in DOMAIN text => text[p - start + 1] # "EOF"
    BY <1>2
  <2>3. new[p] = IF p - start + 1 \in DOMAIN text THEN text[p - start + 1]
                 ELSE IF p = start + Len(text) THEN "EOF" ELSE cells[p]
    BY <1>3
  <2> QED
    BY <1>1, <1>2, <2>1, <2>2, <2>3
<1> QED
  BY <1>2, <1>4, <1>5 DEF new

\* Where the old mark is, if it is not at the end of a block.
LEMMA MarkAt ==
  ASSUME NEW size \in Nat, (SizeWithMark(size) % BlockSize) # 0
  PROVE  LET start == (SizeWithMark(size) % BlockSize) - 1
             q == size \div BlockSize
         IN  /\ start \in Nat /\ q \in Nat /\ SizeWithMark(size) \in Nat
             /\ SizeWithMark(size) = q * BlockSize + start + 1
             /\ size = 0 => start = 0 /\ q = 0
             /\ size # 0 => size = SizeWithMark(size) /\ size % BlockSize # 0
<1>1. BlockSize \in Nat \ {0, 1}
  BY ConstantsAssumption
<1>2. CASE size = 0
  <2>1. SizeWithMark(size) = 1 /\ 1 % BlockSize = 1 /\ 0 \div BlockSize = 0
    BY <1>1, <1>2 DEF SizeWithMark
  <2> QED
    BY <1>1, <1>2, <2>1
<1>3. CASE size # 0
  <2>1. SizeWithMark(size) = size
    BY <1>3 DEF SizeWithMark
  <2>2. /\ size \div BlockSize \in Nat /\ size % BlockSize \in Nat
        /\ size = (size \div BlockSize) * BlockSize + (size % BlockSize)
    BY <1>1, DivisionIs
  <2> QED
    BY <1>1, <1>3, <2>1, <2>2
<1> QED
  BY <1>2, <1>3

\* The texts of the disks an append goes through.
LEMMA AppendedTexts ==
  ASSUME NEW d, Sound(d), d.Text \in [Blocks -> BlockTexts], NEW i \in Inodes,
         NEW block \in Blocks, NEW text
  PROVE  LET marked == [d.Text EXCEPT ![block] = Marked(@, d.Inode[i].Size, text)]
         IN  /\ BlockTaken(d, block).Text = d.Text
             /\ BlockTaken(d, block).Inode = d.Inode
             /\ TextWritten(d, i, block, text).Text = marked
             /\ TextWritten(d, i, block, text).Inode = d.Inode
             /\ TextLinked(d, i, block, text).Text = marked
<1> DEFINE e1 == BlockTaken(d, block)
           e2 == TextWritten(d, i, block, text)
           e3 == TextLinked(d, i, block, text)
           bits == d.DataBitMap \cup {block}
           marked == [d.Text EXCEPT ![block] = Marked(@, d.Inode[i].Size, text)]
           q == NumberOf(d, i)
           n == SizeWithMark(d.Inode[i].Size) + Len(text)
           \* The text as the disk on which it is written has it.
           texts == [e1.Text EXCEPT ![block] = Marked(@, d.Inode[i].Size, text)]
<1>1. d \in DisksWith(d.Text)
  BY DEF Sound
<1>2. e1 = [d EXCEPT !.DataBitMap = bits]
  BY Zenon DEF BlockTaken
<1>3. e2 = [e1 EXCEPT !.Text = texts]
  BY Zenon DEF TextWritten
<1>4. e3 = [e2 EXCEPT !.Inode[i].DirectBlock[q] = block, !.Inode[i].Size = n]
  BY Zenon DEF TextLinked
<1> HIDE DEF e1, e2, e3, bits, q, n
<1>5. e1.Text = d.Text /\ e1.Inode = d.Inode /\ DOMAIN e1 = DOMAIN d
  BY <1>1, <1>2 DEF DisksWith
<1>6. texts = marked
  BY <1>5
<1> HIDE DEF texts, marked
<1>7. e2.Text = marked /\ e2.Inode = d.Inode /\ DOMAIN e2 = DOMAIN d
  BY <1>1, <1>3, <1>5, <1>6 DEF DisksWith
<1>8. e3.Text = marked
  BY <1>1, <1>4, <1>7 DEF DisksWith
<1> QED
  BY <1>5, <1>7, <1>8 DEF e1, e2, e3, marked

\* No other place of a disk uses the block an append writes to.
LEMMA OnlyThere ==
  ASSUME NEW d, Sound(d), NEW i \in Inodes, NEW block,
         NeedsBlock(d, i) => block \notin d.DataBitMap,
         ~NeedsBlock(d, i) => /\ block = BlockAt(d, i, NumberOf(d, i))
                              /\ NumberOf(d, i) \in NumbersAt(d, i),
         NEW j \in Inodes, NEW k \in NumbersAt(d, j), BlockAt(d, j, k) = block
  PROVE  j = i /\ k = NumberOf(d, i)
<1>1. BlockAt(d, j, k) \in d.DataBitMap
  BY DEF Sound
<1>2. ~NeedsBlock(d, i)
  BY <1>1
<1> QED
  BY <1>2 DEF Sound

(***************************************************************************)
(* An append writes its text behind the old one and a mark behind that.    *)
(* Before the inode is written with the new size, the old text is there    *)
(* but not its mark.                                                       *)
(***************************************************************************)
LEMMA AppendTexts ==
  ASSUME NEW d, Sound(d), NEW i \in Inodes, IsFile(d, i), NumberOf(d, i) < INODE_DIRECT_BLOCKS,
         NEW text \in Texts, Fits(d.Inode[i].Size, text), ~Overrun,
         NEW block \in Blocks,
         NeedsBlock(d, i) => block \notin d.DataBitMap,
         ~NeedsBlock(d, i) => block = BlockAt(d, i, NumberOf(d, i)),
         NEW whole, TextSound(d, whole)
  PROVE  /\ TextSound(BlockTaken(d, block), whole)
         /\ TextSound(TextWritten(d, i, block, text), FALSE)
         /\ TextSound(TextLinked(d, i, block, text), whole)
<1> DEFINE size == d.Inode[i].Size
           q == NumberOf(d, i)
           start == (SizeWithMark(size) % BlockSize) - 1
           len == Len(text)
           node == AppendedNode(d, i, block, len)
           cells == Marked(d.Text[block], size, text)
           marked == [d.Text EXCEPT ![block] = Marked(@, size, text)]
<1>1. /\ d.Text \in [Blocks -> BlockTexts] /\ size \in Sizes /\ size \in Nat
      /\ d.Inode \in [Inodes -> NodeTypes] /\ NumbersAt(d, i) \subseteq 0 .. INODE_DIRECT_BLOCKS - 1
  BY NodeSizes, Constants DEF TextSound, Sound, DisksWith, Sizes
<1>2. /\ (SizeWithMark(size) % BlockSize) + len <= BlockSize
      /\ (SizeWithMark(size) % BlockSize) # 0
  BY DEF Fits
<1>3. /\ start \in Nat /\ q \in Nat
      /\ SizeWithMark(size) = q * BlockSize + start + 1
      /\ size = 0 => start = 0 /\ q = 0
      /\ size # 0 => size = SizeWithMark(size) /\ size % BlockSize # 0
  BY <1>1, <1>2, MarkAt DEF NumberOf
<1>4. /\ cells \in BlockTexts /\ len \in Nat
      /\ \A p \in 0 .. BlockSize - 1 :
           /\ p < start => cells[p] = d.Text[block][p]
           /\ start <= p /\ p < start + len => cells[p] # "EOF"
           /\ p = start + len => cells[p] = "EOF"
  <2>1. d.Text[block] \in BlockTexts
    BY <1>1
  <2> HIDE DEF cells, size, len
  <2> QED
    BY <1>1, <1>3, <2>1, MarkedIs DEF cells, len
<1>5. /\ node.Type = "FT_FILE" /\ node.Size = SizeWithMark(size) + len
      /\ NeedsBlock(d, i) <=> q \notin NumbersAt(d, i)
      /\ node.DirectBlock[q] = block
      /\ \A k \in 0 .. INODE_DIRECT_BLOCKS - 1 : k # q => node.DirectBlock[k] = BlockAt(d, i, k)
      /\ Numbers(node.Size) \subseteq NumbersAt(d, i) \cup {q}
      /\ node.Size \in Sizes
  <2>1. node \in NodeTypes
    BY <1>1, <1>2, <1>4, AppendedNodeIs DEF IsFile
  <2>2. node.Size \in Sizes
    BY <2>1 DEF NodeTypes
  <2> HIDE DEF node
  <2> QED
    BY <1>1, <1>2, <1>4, <2>2, AppendedNodeIs DEF IsFile, node
<1>6. marked \in [Blocks -> BlockTexts] /\ \A b \in Blocks : marked[b] = IF b = block THEN cells ELSE d.Text[b]
  BY <1>1, <1>4
<1>7. \A j \in Inodes : \A k \in NumbersAt(d, j) : BlockAt(d, j, k) = block => j = i /\ k = q
  BY <1>5, OnlyThere
<1>8. d.DataBitMap \subseteq Blocks
  BY DEF Sound, DisksWith
<1>0. /\ TextWritten(d, i, block, text).Text = marked /\ TextWritten(d, i, block, text).Inode = d.Inode
      /\ TextLinked(d, i, block, text).Text = marked
  BY <1>1, AppendedTexts
<1> HIDE DEF start, len, node, cells, marked
\* A cell of a file at a place that the append does not change.
<1>9. ASSUME NEW e, e.Text = marked, NEW j \in Inodes, NEW p \in 1 .. d.Inode[j].Size,
             \/ j # i
             \/ (p - 1) \div BlockSize # q
             \/ (p - 1) % BlockSize < start,
             BlockAt(e, j, (p - 1) \div BlockSize) = BlockAt(d, j, (p - 1) \div BlockSize)
      PROVE  CellAt(e, j, p) = CellAt(d, j, p)
  <2> DEFINE k == (p - 1) \div BlockSize
             r == (p - 1) % BlockSize
             b == BlockAt(d, j, k)
  <2>0. d.Inode[j].Size \in Sizes /\ d.Inode[j].Size \in Nat
    BY NodeSizes, Constants DEF Sound, Sizes
  <2>1. k \in NumbersAt(d, j) /\ r \in 0 .. BlockSize - 1
    BY <2>0, CellNumbers DEF NumbersAt
  <2>2. b \in Blocks
    BY <1>8, <2>1 DEF Sound
  <2>3. CellAt(e, j, p) = marked[b][r] /\ CellAt(d, j, p) = d.Text[b][r]
    BY <1>9 DEF CellAt
  <2> HIDE DEF k, r, b
  <2>4. b # block \/ r < start
    BY <1>7, <1>9, <2>1 DEF b, k, r
  <2> QED
    BY <1>4, <1>6, <2>1, <2>2, <2>3, <2>4
<1>10. ASSUME NEW j \in Inodes, IsFile(d, j), NEW p \in 1 .. d.Inode[j].Size
       PROVE  /\ p < d.Inode[j].Size => CellAt(d, j, p) # "EOF"
              /\ p = d.Inode[j].Size /\ whole => CellAt(d, j, p) = "EOF"
  BY <1>10 DEF TextSound
<1>11. ASSUME NEW p \in 1 .. size, p < size, (p - 1) \div BlockSize = q
       PROVE  (p - 1) % BlockSize < start
  <2>1. p - 1 = q * BlockSize + ((p - 1) % BlockSize) /\ (p - 1) % BlockSize \in 0 .. BlockSize - 1
    BY <1>1, <1>11, CellNumbers
  <2>3. size # 0
    BY <1>1, <1>11
  <2>4. q * BlockSize \in Nat
    BY <1>3, Constants
  <2>2. size = q * BlockSize + start + 1 /\ q * BlockSize \in Nat
    BY <1>3, <2>3, <2>4
  <2> QED
    BY <1>1, <1>3, <1>11, <2>1, <2>2, Constants<1>12. TextSound(BlockTaken(d, block), whole)
  <2>1. BlockTaken(d, block).Text = d.Text /\ BlockTaken(d, block).Inode = d.Inode
    BY <1>1, AppendedTexts
  <2> QED
    BY <2>1 DEF TextSound, CellAt, BlockAt, IsFile
<1>13. TextSound(TextWritten(d, i, block, text), FALSE)
  <2> DEFINE e == TextWritten(d, i, block, text)
  <2>1. e.Text = marked /\ e.Inode = d.Inode
    BY <1>0
  <2> HIDE DEF e
  <2>2. ASSUME NEW j \in Inodes, IsFile(e, j), NEW p \in 1 .. e.Inode[j].Size, p < e.Inode[j].Size
        PROVE  CellAt(e, j, p) # "EOF"
    <3>1. /\ IsFile(d, j) /\ p \in 1 .. d.Inode[j].Size /\ p < d.Inode[j].Size
          /\ \A k : BlockAt(e, j, k) = BlockAt(d, j, k)
      BY <2>1, <2>2 DEF IsFile, BlockAt
    <3>2. j # i \/ (p - 1) \div BlockSize # q \/ (p - 1) % BlockSize < start
      BY <1>11, <3>1
    <3>3. CellAt(e, j, p) = CellAt(d, j, p)
      BY <1>9, <2>1, <3>1, <3>2
    <3> QED
      BY <1>10, <3>1, <3>3
  <2>3. TextSound(e, FALSE)
    BY <1>6, <2>1, <2>2 DEF TextSound
  <2> QED
    BY <2>3 DEF e
<1>14. TextSound(TextLinked(d, i, block, text), whole)
  <2> DEFINE e == TextLinked(d, i, block, text)
  <2>1. e.Text = marked
    BY <1>0
  <2>2. e.Inode = [d.Inode EXCEPT ![i] = node]
    <3>1. e \in Appended(d, i, block, text)
      BY DEF Appended
    <3>2. e.Inode = InodeLinked(d, i, block, Len(text))
      BY <3>1, AppendDisks
    <3> QED
      BY <3>2 DEF InodeLinked, node, len
  <2> HIDE DEF e
  <2>3. e.Inode[i] = node /\ \A j \in Inodes : j # i => e.Inode[j] = d.Inode[j]
    BY <1>1, <2>2
  <2>4. ASSUME NEW j \in Inodes, j # i, IsFile(e, j), NEW p \in 1 .. e.Inode[j].Size
        PROVE  /\ p < e.Inode[j].Size => CellAt(e, j, p) # "EOF"
               /\ p = e.Inode[j].Size /\ whole => CellAt(e, j, p) = "EOF"
    <3>1. /\ IsFile(d, j) /\ p \in 1 .. d.Inode[j].Size /\ e.Inode[j] = d.Inode[j]
          /\ \A k : BlockAt(e, j, k) = BlockAt(d, j, k)
      BY <2>3, <2>4 DEF IsFile, BlockAt
    <3>2. CellAt(e, j, p) = CellAt(d, j, p)
      BY <1>9, <2>1, <2>4, <3>1
    <3> QED
      BY <1>10, <3>1, <3>2
  <2>5. ASSUME NEW p \in 1 .. node.Size
        PROVE  /\ p < node.Size => CellAt(e, i, p) # "EOF"
               /\ p = node.Size /\ whole => CellAt(e, i, p) = "EOF"
    <3> DEFINE k == (p - 1) \div BlockSize
               r == (p - 1) % BlockSize
    <3>0. node.Size \in Nat /\ p \in Nat \ {0} /\ p <= node.Size /\ BlockSize \in Nat
      BY <1>5, Constants DEF Sizes
    <3>1. /\ k \in Numbers(node.Size) /\ k \in Nat /\ r \in 0 .. BlockSize - 1
          /\ p - 1 = k * BlockSize + r
      BY <1>5, <3>0, CellNumbers
    <3>2. \A l : BlockAt(e, i, l) = node.DirectBlock[l]
      BY <2>3 DEF BlockAt
    <3>3. CellAt(e, i, p) = marked[node.DirectBlock[k]][r]
      BY <2>1, <3>2 DEF CellAt
    <3> HIDE DEF k, r
    <3>4. CASE k # q
      <4>1. k \in NumbersAt(d, i) /\ node.DirectBlock[k] = BlockAt(d, i, k)
        BY <1>1, <1>5, <3>1, <3>4
      <4>2. k < q
        <5>1. BlocksOf(size) <= q + 1 /\ BlocksOf(size) \in Nat
          BY <1>1, BlocksOfBound DEF NumberOf, Sizes
        <5> QED
          BY <1>3, <3>1, <3>4, <4>1, <5>1 DEF NumbersAt, Numbers
      <4>3. k * BlockSize + BlockSize <= q * BlockSize
        BY <1>3, <3>1, <4>2, Multiples, Constants
      <4>4. p < SizeWithMark(size) /\ size # 0
        BY <1>3, <3>0, <3>1, <4>2, <4>3
      <4>5. p \in 1 .. size /\ p < size /\ p < node.Size
        BY <1>1, <1>3, <1>4, <1>5, <3>0, <4>4
      <4>6. BlockAt(e, i, k) = BlockAt(d, i, k)
        BY <3>2, <4>1
      <4>7. CellAt(e, i, p) = CellAt(d, i, p)
        BY <1>9, <2>1, <3>4, <4>5, <4>6 DEF k
      <4> QED
        BY <1>10, <3>0, <4>5, <4>7
    <3>5. CASE k = q
      <4>1. CellAt(e, i, p) = cells[r]
        BY <1>5, <1>6, <3>3, <3>5
      <4>2. /\ p - 1 = q * BlockSize + r /\ q * BlockSize \in Nat
            /\ node.Size = q * BlockSize + start + 1 + len
        BY <1>3, <1>4, <1>5, <3>0, <3>1, <3>5
      <4>3. r <= start + len /\ (p = node.Size <=> r = start + len)
        BY <1>3, <1>4, <3>0, <3>1, <4>2
      <4>4. CASE r < start
        <5>1. size # 0 /\ p < size /\ p \in 1 .. size
          BY <1>1, <1>3, <3>0, <3>1, <4>2, <4>4
        <5>2. ~NeedsBlock(d, i)
          BY <1>3, <5>1 DEF NeedsBlock
        <5>3. CellAt(d, i, p) = d.Text[block][r]
          BY <3>5, <5>2 DEF CellAt, k, r
        <5>4. cells[r] = d.Text[block][r]
          BY <1>4, <3>1, <4>4
        <5> QED
          BY <1>4, <1>10, <3>1, <4>1, <4>3, <4>4, <5>1, <5>3, <5>4
      <4>5. CASE start <= r
        BY <1>3, <1>4, <3>0, <3>1, <4>1, <4>3, <4>5
      <4> QED
        BY <1>3, <3>1, <4>4, <4>5
    <3> QED
      BY <3>4, <3>5
  <2>6. TextSound(e, whole)
    BY <1>6, <2>1, <2>3, <2>4, <2>5 DEF TextSound
  <2> QED
    BY <2>6 DEF e
<1> QED
  BY <1>12, <1>13, <1>14

LEMMA KeptTexts ==
  ASSUME NEW d, Sound(d), NEW e, Sound(e), FilesKept(d, e), NEW whole, TextSound(d, whole)
  PROVE  TextSound(e, whole)
<1>1. SameFiles(d, e)
  BY DEF SameFiles, FilesKept, TextSound
<1> QED
  BY <1>1, SameTexts

\* Every disk a call leaves, whether the power goes or not.
LeavesTexts(o, whole) == TextSound(o.disk, whole) /\ \A e \in o.torn : TextSound(e, whole)

LEMMA CreateFileTexts ==
  ASSUME NEW d, Sound(d), NEW whole, TextSound(d, whole), NEW i \in Inodes, NEW name \in Names,
         NEW type \in {"FT_UNKNOWN", "FT_FILE", "FT_DIRECTORY"}
  PROVE  LeavesTexts(CreateFile(d, i, name, type), whole)
<1> DEFINE o == CreateFile(d, i, name, type)
<1>1. \/ o.disk = d /\ o.torn = {}
      \/ \E block \in Blocks : o.disk = BlockTaken(d, block) /\ o.torn = {}
      \/ \E block, id : CanAdd(d, i, block, id) /\ o = AddEntry(d, i, block, id, name, type)
  BY CreateFileIs
<1> HIDE DEF o
<1>2. CASE o.disk = d /\ o.torn = {}
  BY <1>2 DEF LeavesTexts, o
<1>3. ASSUME NEW block \in Blocks, o.disk = BlockTaken(d, block), o.torn = {}
      PROVE  LeavesTexts(o, whole)
  <2> DEFINE e == BlockTaken(d, block)
  <2>1. d.Text \in [Blocks -> BlockTexts]
    BY DEF TextSound
  <2>2. e.Text = d.Text /\ e.Inode = d.Inode
    BY <2>1, AppendedTexts
  <2>3. Sound(e)
    BY BlockTakenSound
  <2> HIDE DEF e
  <2>4. TextSound(e, whole)
    BY <2>2, <2>3, KeptTexts DEF FilesKept
  <2> QED
    BY <1>3, <2>4 DEF e, LeavesTexts
<1>4. ASSUME NEW block, NEW id, CanAdd(d, i, block, id),
             o = AddEntry(d, i, block, id, name, type)
      PROVE  LeavesTexts(o, whole)
  <2> DEFINE torn == {BlockTaken(d, block), InodeTaken(d, block, id),
                      NameWritten(d, i, block, id, name),
                      InodeMade(d, i, block, id, name, type)}
             all == {BlockTaken(d, block), InodeTaken(d, block, id),
                     NameWritten(d, i, block, id, name),
                     InodeMade(d, i, block, id, name, type),
                     EntryAdded(d, i, block, id, name, type)}
  <2>1. o.disk = EntryAdded(d, i, block, id, name, type) /\ o.torn \subseteq torn
    BY <1>4, AddEntryIs
  <2>2. torn \subseteq all /\ EntryAdded(d, i, block, id, name, type) \in all
    OBVIOUS
  <2>3. ASSUME NEW e \in all PROVE TextSound(e, whole)
    <3> DEFINE new == newEmptyDiskInode(type)
               made == InodesMade(d, id, type)
               larger == InodesLarger(d, i, block, id, type)
               node == LargerNode(d, i, block)
    <3>1. Sound(e)
      BY <1>4, AddEntrySound
    <3>2. e.Text = d.Text /\ (e.Inode = d.Inode \/ e.Inode = made \/ e.Inode = larger)
      BY <1>4, AddEntryFields DEF FieldsAre
    <3>3. new.Size = 0 /\ node.Type = "FT_DIRECTORY" /\ d.Inode \in [Inodes -> NodeTypes]
      BY <1>4, EmptyNode, CanAddIs DEF Sound, DisksWith
    <3>4. made = [d.Inode EXCEPT ![id] = new] /\ larger = [made EXCEPT ![i] = node]
      BY Zenon DEF InodesMade, InodesLarger
    <3> HIDE DEF new, made, larger, node, all
    <3>5. FilesKept(d, e)
      BY <3>2, <3>3, <3>4 DEF FilesKept, IsFile
    <3> QED
      BY <3>1, <3>5, KeptTexts
  <2> HIDE DEF torn, all
  <2> QED
    BY <2>1, <2>2, <2>3 DEF LeavesTexts
<1> QED
  BY <1>1, <1>2, <1>3, <1>4 DEF o

LEMMA MakeDirectoryTexts ==
  ASSUME NEW d, Sound(d), NEW whole, TextSound(d, whole),
         NEW path \in Paths, NEW create \in BOOLEAN, NEW slash \in BOOLEAN
  PROVE  LeavesTexts(MakeDirectory(d, path, create, slash), whole)
<1> DEFINE Messages == {"none"} \cup {CreateFile(e, j, name, "FT_DIRECTORY").panic :
                                        e \in DisksWith(d.Text), j \in Inodes, name \in Names}
           Outcomes == [disk : DisksWith(d.Text), id : Inodes \cup {-1},
                        panic : Messages, torn : SUBSET DisksWith(d.Text)]
           X == {o \in Outcomes : LeavesSound(o, d.Text) /\ LeavesTexts(o, whole)}
<1>1. "none" \in Messages
  OBVIOUS
<1>2. \A e \in DisksWith(d.Text), j \in Inodes, name \in Names :
         CreateFile(e, j, name, "FT_DIRECTORY").panic \in Messages
  OBVIOUS
<1> HIDE DEF Messages
<1>3. \A o \in X : /\ o.panic \in Messages
                   /\ LeavesSound(o, d.Text) /\ LeavesTexts(o, whole)
  OBVIOUS
<1>4. ASSUME NEW o, LeavesSound(o, d.Text), LeavesTexts(o, whole), o.panic \in Messages
      PROVE  o \in X
  <2>1. /\ o = [disk |-> o.disk, id |-> o.id, panic |-> o.panic, torn |-> o.torn]
        /\ o.disk \in DisksWith(d.Text) /\ o.id \in Inodes \cup {-1}
        /\ o.torn \subseteq DisksWith(d.Text)
    BY <1>4 DEF LeavesSound, IsOutcome, Sound
  <2>2. o \in Outcomes
    BY <1>4, <2>1
  <2> QED
    BY <1>4, <2>2
<1> HIDE DEF X
<1>5. Outcome({}, d, 0, "none") \in X
  <2> DEFINE o == Outcome({}, d, 0, "none")
  <2>1. o.disk = d /\ o.id = 0 /\ o.panic = "none" /\ o.torn \subseteq {} /\ IsOutcome(o)
    BY OutcomeIs
  <2> HIDE DEF o
  <2>2. LeavesSound(o, d.Text) /\ LeavesTexts(o, whole) /\ o.panic \in Messages
    BY <1>1, <2>1, Constants DEF LeavesSound, LeavesTexts
  <2>3. o \in X
    BY <1>4, <2>2
  <2> QED
    BY <2>3 DEF o
<1>6. ASSUME NEW o \in X, NEW name \in Names, NEW creates \in BOOLEAN
      PROVE  MakeTurn(o, name, creates) \in X
  <2> DEFINE r == MakeTurn(o, name, creates)
             i == o.id
             e == o.disk
  <2>1. /\ IsOutcome(o) /\ o.panic \in Messages
        /\ LeavesSound(o, d.Text) /\ LeavesTexts(o, whole)
        /\ Sound(e) /\ e.Text = d.Text /\ i \in Inodes \cup {-1} /\ e \in DisksWith(d.Text)
        /\ TextSound(e, whole)
    BY <1>3 DEF LeavesSound, LeavesTexts, Sound
  <2>2. ASSUME NEW id \in Inodes \cup {-1}, NEW p, p = [o EXCEPT !.id = id]
        PROVE  p \in X
    <3>1. /\ p.disk = o.disk /\ p.id = id /\ p.panic = o.panic /\ p.torn = o.torn
          /\ IsOutcome(p)
      BY <2>1, <2>2 DEF IsOutcome
    <3>2. LeavesSound(p, d.Text) /\ LeavesTexts(p, whole) /\ p.panic \in Messages
      BY <2>1, <3>1 DEF LeavesSound, LeavesTexts
    <3> QED
      BY <1>4, <3>2
  <2>3. CASE i = -1
    <3>1. r = o
      BY <2>3, Zenon DEF MakeTurn
    <3> QED
      BY <3>1
  <2>4. CASE i # -1 /\ Find(e, i, name) # 0
    <3>1. r = Enter(o, name)
      BY <2>4, Zenon DEF MakeTurn
    <3>2. Find(e, i, name) \in Inodes
      BY <2>1, <2>4, FindHasType
    <3> HIDE DEF r
    <3>3. r = [o EXCEPT !.id = Find(e, i, name)]
      BY <3>1, Zenon DEF Enter
    <3>4. r \in X
      BY <2>2, <3>2, <3>3
    <3> QED
      BY <3>4 DEF r
  <2>5. CASE i # -1 /\ Find(e, i, name) = 0 /\ creates
    <3> DEFINE c == CreateFile(e, i, name, "FT_DIRECTORY")
    <3>1. r = Make(o, name)
      BY <2>5, Zenon DEF MakeTurn
    <3>2. i \in Inodes
      BY <2>1, <2>5
    <3>3. LeavesSound(c, e.Text) /\ LeavesTexts(c, whole) /\ c.panic \in Messages
      BY <1>2, <2>1, <3>2, CreateFileSafe, CreateFileTexts
    <3>4. r = [c EXCEPT !.torn = c.torn \cup o.torn \cup {o.disk}]
      BY <3>1, Zenon DEF Make
    <3> HIDE DEF r, c, e
    <3>5. /\ r.disk = c.disk /\ r.id = c.id /\ r.panic = c.panic
          /\ r.torn = c.torn \cup o.torn \cup {o.disk} /\ IsOutcome(r)
      BY <3>3, <3>4 DEF LeavesSound, IsOutcome
    <3>6. LeavesSound(r, d.Text) /\ LeavesTexts(r, whole)
      BY <2>1, <3>3, <3>5 DEF LeavesSound, LeavesTexts, e
    <3>7. r \in X
      BY <1>4, <3>3, <3>5, <3>6
    <3> QED
      BY <3>7 DEF r
  <2>6. CASE i # -1 /\ Find(e, i, name) = 0 /\ ~creates
    <3>1. r = Fail(o)
      BY <2>6, Zenon DEF MakeTurn
    <3> HIDE DEF r
    <3>2. r = [o EXCEPT !.id = -1]
      BY <3>1, Zenon DEF Fail
    <3>3. r \in X
      BY <2>2, <3>2
    <3> QED
      BY <3>3 DEF r
  <2> QED
    BY <2>3, <2>4, <2>5, <2>6
<1>7. MakeDirectory(d, path, create, slash) \in X
  BY <1>5, <1>6, MakeDirectoryStays, Zenon
<1> QED
  BY <1>3, <1>7

LEMMA InitializeTexts ==
  ASSUME NEW d, Sound(d), currentDirectoryInodeID \in Inodes, NEW whole, TextSound(d, whole)
  PROVE  LeavesTexts(InitializeFileSystem(d), whole)
<1> DEFINE o == InitializeFileSystem(d)
<1>1. \A e \in o.torn \cup {o.disk} : Sound(e) /\ FilesKept(d, e)
  BY InitializeSafe
<1> HIDE DEF o
<1>2. \A e \in o.torn \cup {o.disk} : TextSound(e, whole)
  BY <1>1, KeptTexts
<1> QED
  BY <1>2 DEF o, LeavesTexts

(***************************************************************************)
(* Clearing a file wipes its own blocks, and no others.                    *)
(***************************************************************************)
LEMMA ClearTexts ==
  ASSUME NEW d, Sound(d), NEW i \in Inodes, NEW whole, TextSound(d, whole)
  PROVE  TextSound(Clear(d, i).disk, whole)
<1> DEFINE e == Clear(d, i).disk
           S == BlocksUsedBy(d, i)
<1>1. Sound(e) /\ Cleared(d, i, e)
  BY ClearSafe, ClearIs
<1> HIDE DEF e
<1>2. CASE e = d
  BY <1>2 DEF e
<1>3. CASE e # d
  <2>1. /\ \A j \in Inodes : j # i => e.Inode[j] = d.Inode[j]
        /\ e.Inode[i].Size = 0 /\ e.Text = TextsLeft(d, i)
    BY <1>1, <1>3 DEF Cleared
  <2>2. d.Text \in [Blocks -> BlockTexts] /\ d.DataBitMap \subseteq Blocks
    BY DEF TextSound, Sound, DisksWith
  <2>3. NoText \in BlockTexts
    <3>1. "0" \in Chars
      BY DEF Chars
    <3> QED
      BY <3>1 DEF NoText, BlockTexts
  <2> HIDE DEF S
  <2>4. e.Text = [b \in Blocks |-> IF b \in S THEN NoText ELSE d.Text[b]]
    BY <2>1 DEF TextsLeft, S
  <2>5. e.Text \in [Blocks -> BlockTexts]
    BY <2>2, <2>3, <2>4
  <2>6. ASSUME NEW j \in Inodes, j # i, NEW k \in NumbersAt(d, j)
        PROVE  e.Text[BlockAt(d, j, k)] = d.Text[BlockAt(d, j, k)]
    <3>1. BlockAt(d, j, k) \in Blocks
      BY <2>2 DEF Sound
    <3>2. BlockAt(d, j, k) \notin S
      BY <2>6 DEF S, BlocksUsedBy, Sound
    <3> QED
      BY <2>4, <3>1, <3>2
  <2>7. SameFiles(d, e)
    BY <2>1, <2>5, <2>6 DEF SameFiles
  <2>8. TextSound(e, whole)
    BY <1>1, <2>7, SameTexts
  <2> QED
    BY <2>8 DEF e
<1> QED
  BY <1>2, <1>3

LEMMA RemoveTexts ==
  ASSUME NEW d, Sound(d), NEW whole, TextSound(d, whole), NEW i \in Inodes,
         NEW name \in Names \cup {""}, PlacesOf(d, i, name) # {}, Find(d, i, name) # -1
  PROVE  TextSound(RemoveInode(d, i, name).disk, whole)
<1> DEFINE e == RemoveInode(d, i, name).disk
<1>1. PICK id \in Inodes, k \in NumbersAt(d, i), s \in Slots :
         Removes(d, i, name, id, k, s, Clear(d, id).disk, e)
  BY RemoveIs
<1> DEFINE c == Clear(d, id).disk
<1>2. Sound(c) /\ TextSound(c, whole) /\ Sound(e)
  BY ClearSafe, ClearTexts, RemoveSafe
<1> HIDE DEF c, e
<1>3. /\ \A j \in Inodes : j # i => e.Inode[j] = c.Inode[j]
      /\ e.Inode[i].Type = "FT_DIRECTORY" /\ e.Text = c.Text
  BY <1>1 DEF Removes, IsDirectory, c
<1>4. FilesKept(c, e)
  BY <1>3 DEF FilesKept, IsFile
<1>5. TextSound(e, whole)
  BY <1>2, <1>4, KeptTexts
<1> QED
  BY <1>5 DEF e

LEMMA WriteTexts ==
  ASSUME NEW d, Sound(d), NEW whole, TextSound(d, whole), NEW i \in Inodes, IsFile(d, i),
         NEW text \in Texts, NEW trunc \in BOOLEAN,
         Fits(IF trunc THEN 0 ELSE d.Inode[i].Size, text), ~Overrun
  PROVE  LET o == WriteFileContent(d, i, text, trunc)
         IN  /\ TextSound(o.disk, whole)
             /\ ~trunc => \A e \in o.torn : TextSound(e, FALSE)
<1> DEFINE o == WriteFileContent(d, i, text, trunc)
           cleared == IF trunc THEN Clear(d, i) ELSE Outcome({}, d, i, "none")
           e == cleared.disk
           block == IF NeedsBlock(e, i) THEN First(Blocks \ e.DataBitMap)
                                        ELSE BlockAt(e, i, NumberOf(e, i))
           e1 == BlockTaken(e, block)
           e2 == TextWritten(e, i, block, text)
           e3 == TextLinked(e, i, block, text)
<1>1. /\ Sound(e) /\ TextSound(e, whole) /\ IsFile(e, i)
      /\ e.Inode[i].Size = IF trunc THEN 0 ELSE d.Inode[i].Size
      /\ ~trunc => cleared.torn \subseteq {}
  <2>1. CASE trunc
    <3>1. e = Clear(d, i).disk
      BY <2>1
    <3>2. e.Inode[i].Type = "FT_FILE" /\ e.Inode[i].Size = 0
      BY <3>1, ClearIs DEF Cleared, IsFile
    <3> QED
      BY <2>1, <3>1, <3>2, ClearSafe, ClearTexts DEF IsFile
  <2>2. CASE ~trunc
    <3>1. cleared = Outcome({}, d, i, "none")
      BY <2>2
    <3> DEFINE c == cleared
    <3> HIDE DEF c
    <3>2. c = Outcome({}, d, i, "none")
      BY <3>1, Zenon DEF c
    <3>3. c.disk = d /\ c.torn \subseteq {}
      BY <3>2, OutcomeIs
    <3> QED
      BY <2>2, <3>3 DEF c
  <2> QED
    BY <2>1, <2>2
<1>2. \/ \E m : o = Outcome(cleared.torn, e, -1, m)
      \/ /\ ~(NeedsBlock(e, i) /\ e.DataBitMap = Blocks)
         /\ o = Outcome(cleared.torn \cup {e, e1, e2}, e3, i, "none")
  BY Zenon DEF WriteFileContent, TextLinked, TextWritten, BlockTaken, NeedsBlock, NumberOf, BlockAt
<1> HIDE DEF o, e, cleared, e1, e2, e3
<1>3. CASE \E m : o = Outcome(cleared.torn, e, -1, m)
  <2>1. o.disk = e /\ o.torn \subseteq cleared.torn
    BY <1>3, OutcomeIs
  <2> QED
    BY <1>1, <2>1 DEF o
<1>4. CASE /\ ~(NeedsBlock(e, i) /\ e.DataBitMap = Blocks)
           /\ o = Outcome(cleared.torn \cup {e, e1, e2}, e3, i, "none")
  <2>1. /\ NumberOf(e, i) < INODE_DIRECT_BLOCKS /\ Fits(e.Inode[i].Size, text)
        /\ e.DataBitMap \subseteq Blocks /\ Blocks \subseteq Nat
        /\ e.Inode[i].Size \in Sizes
    BY <1>1, NodeSizes DEF Fits, NumberOf, Sound, DisksWith, Blocks
  <2>2. /\ block \in Blocks
        /\ NeedsBlock(e, i) => block \notin e.DataBitMap
        /\ ~NeedsBlock(e, i) => block = BlockAt(e, i, NumberOf(e, i))
    <3>1. CASE NeedsBlock(e, i)
      <4>1. e.DataBitMap # Blocks
        BY <1>4, <3>1, Zenon
      <4>2. Blocks \ e.DataBitMap # {} /\ Blocks \ e.DataBitMap \subseteq Nat
        BY <2>1, <4>1
      <4>3. block = First(Blocks \ e.DataBitMap)
        BY <3>1
      <4>4. First(Blocks \ e.DataBitMap) \in Blocks \ e.DataBitMap
        BY <4>2, FirstIs
      <4> QED
        BY <3>1, <4>3, <4>4
    <3>2. CASE ~NeedsBlock(e, i)
      <4>1. block = BlockAt(e, i, NumberOf(e, i))
        BY <3>2
      <4>2. NumberOf(e, i) \in NumbersAt(e, i)
        <5>1. (SizeWithMark(e.Inode[i].Size) % BlockSize) + Len(text) <= BlockSize
          BY <2>1 DEF Fits
        <5> QED
          BY <2>1, <3>2, <5>1, NumbersOfText, TextHasLength DEF NeedsBlock, NumberOf, NumbersAt
      <4>3. BlockAt(e, i, NumberOf(e, i)) \in e.DataBitMap
        BY <1>1, <4>2 DEF Sound
      <4> QED
        BY <2>1, <3>2, <4>1, <4>3
    <3> QED
      BY <3>1, <3>2
  <2> HIDE DEF block
  <2>3. TextSound(e1, whole) /\ TextSound(e2, FALSE) /\ TextSound(e3, whole)
    BY <1>1, <2>1, <2>2, AppendTexts DEF e1, e2, e3
  <2>4. o.disk = e3 /\ o.torn \subseteq cleared.torn \cup {e, e1, e2}
    BY <1>4, OutcomeIs
  <2>5. \A f \in {e, e1, e2} : TextSound(f, FALSE)
    BY <1>1, <2>3 DEF TextSound
  <2> QED
    BY <1>1, <2>3, <2>4, <2>5 DEF o
<1> QED
  BY <1>2, <1>3, <1>4
-----------------------------------------------------------------------------
TextInv == SoundInv /\ TextSound(disk, clean)

LEMMA InitTexts == Init => TextSound(disk, clean)
<1> SUFFICES ASSUME Init PROVE TextSound(disk, clean)
  OBVIOUS
<1>1. disk.Text = [b \in Blocks |-> NoText]
  BY DEF Init
<1>2. \A i \in Inodes : disk.Inode[i].Size = 0
  <2> DEFINE inode == [i \in Inodes |->
                         newEmptyDiskInode(IF i = 0 THEN "FT_DIRECTORY" ELSE "FT_UNKNOWN")]
  <2>1. disk.Inode = inode
    BY DEF Init
  <2>2. \A i \in Inodes : inode[i].Size = 0
    BY EmptyNode
  <2> QED
    BY <2>1, <2>2
<1>3. NoText \in BlockTexts
  <2>1. "0" \in Chars
    BY DEF Chars
  <2> QED
    BY <2>1 DEF NoText, BlockTexts
<1>4. disk.Text \in [Blocks -> BlockTexts]
  BY <1>1, <1>3
<1> QED
  BY <1>2, <1>4 DEF TextSound

LEMMA TextsKept ==
  ASSUME TextSound(disk', clean')
  PROVE  TextSound(disk, clean)'
BY DEF TextSound, BlockTexts, IsFile, CellAt, BlockAt

LEMMA CallKeepsTexts ==
  ASSUME NEW o, NEW call, NEW directory, Becomes(o, call, directory),
         TextSound(o.disk, clean),
         call \in Interruptible => \A e \in o.torn : TextSound(e, FALSE)
  PROVE  TextSound(disk, clean)'
<1>1. TextSound(disk', clean')
  BY BecomesIs
<1> QED
  BY <1>1, TextsKept

LEMMA LeavesKeep ==
  ASSUME NEW o, NEW call, NEW directory, Becomes(o, call, directory), LeavesTexts(o, clean)
  PROVE  TextSound(disk, clean)'
<1>1. TextSound(o.disk, clean) /\ \A e \in o.torn : TextSound(e, FALSE)
  BY DEF LeavesTexts, TextSound
<1> QED
  BY <1>1, CallKeepsTexts

LEMMA StepKeepsTexts ==
  ASSUME Interruptible \subseteq {"create", "append", "boot"}, ~Overrun,
         TextInv, [Next]_vars
  PROVE  TextSound(disk, clean)'
<1>0. /\ Sound(disk) /\ currentDirectoryInodeID \in Inodes /\ TextSound(disk, clean)
      /\ SoundInv /\ "truncate" \notin Interruptible /\ "remove" \notin Interruptible
  BY DEF TextInv, SoundInv
<1>1. ASSUME NEW name \in Names, Touch(name) PROVE TextSound(disk, clean)'
  <2> DEFINE o == CreateFile(disk, currentDirectoryInodeID, name, "FT_FILE")
  <2>1. LeavesTexts(o, clean)
    BY <1>0, CreateFileTexts
  <2>2. Becomes(o, "create", currentDirectoryInodeID)
    BY <1>1 DEF Touch
  <2> HIDE DEF o
  <2> QED
    BY <2>1, <2>2, LeavesKeep
<1>2. ASSUME NEW path \in Paths, NEW create \in BOOLEAN, NEW slash \in BOOLEAN,
             Mkdir(path, create, slash)
      PROVE  TextSound(disk, clean)'
  <2> DEFINE o == MakeDirectory(disk, path, create, slash)
  <2>1. LeavesTexts(o, clean)
    BY <1>0, MakeDirectoryTexts
  <2>2. Becomes(o, "create", currentDirectoryInodeID)
    BY <1>2 DEF Mkdir
  <2> HIDE DEF o
  <2> QED
    BY <2>1, <2>2, LeavesKeep
<1>3. ASSUME NEW i \in Named, NEW text \in Texts, NEW trunc \in BOOLEAN, Write(i, text, trunc)
      PROVE  TextSound(disk, clean)'
  <2> DEFINE o == WriteFileContent(disk, i, text, trunc)
             call == IF trunc THEN "truncate" ELSE "append"
  <2>1. i \in Inodes
    BY <1>0, NamedHasType
  <2>2. /\ IsFile(disk, i) /\ Fits(IF trunc THEN 0 ELSE disk.Inode[i].Size, text)
        /\ Becomes(o, call, currentDirectoryInodeID)
    BY <1>3 DEF Write, IsFile
  <2>3. /\ TextSound(o.disk, clean)
        /\ ~trunc => \A e \in o.torn : TextSound(e, FALSE)
    BY <1>0, <2>1, <2>2, WriteTexts
  <2>4. call \in Interruptible => ~trunc
    BY <1>0
  <2> HIDE DEF o, call
  <2> QED
    BY <2>2, <2>3, <2>4, CallKeepsTexts
<1>4. ASSUME NEW i \in Reached(disk, 0), NEW name \in Removable, NEW deleteDir \in BOOLEAN,
             RemoveFile(i, name, deleteDir)
      PROVE  TextSound(disk, clean)'
  <2> DEFINE o == RemoveInode(disk, i, name)
  <2>1. i \in Inodes /\ name \in Names \cup {""}
    BY <1>0, ReachedHasType, Constants, ConstantsAssumption
  <2>2. /\ PlacesOf(disk, i, name) # {} /\ Find(disk, i, name) # -1
        /\ Becomes(o, "remove", currentDirectoryInodeID)
    BY <1>4 DEF RemoveFile
  <2>3. TextSound(o.disk, clean)
    BY <1>0, <2>1, <2>2, RemoveTexts
  <2> HIDE DEF o
  <2> QED
    BY <1>0, <2>2, <2>3, CallKeepsTexts
<1>5. ASSUME disk' = disk, clean' = clean PROVE TextSound(disk, clean)'
  <2>1. TextSound(disk', clean')
    BY <1>0, <1>5, Zenon
  <2> QED
    BY <2>1, TextsKept
<1>6. ASSUME Reboot PROVE TextSound(disk, clean)'
  <2> DEFINE o == InitializeFileSystem(disk)
  <2>1. Becomes(o, "boot", o.id)
    BY <1>6, Zenon DEF Reboot
  <2>2. LeavesTexts(o, clean)
    BY <1>0, InitializeTexts
  <2> HIDE DEF o
  <2> QED
    BY <2>1, <2>2, LeavesKeep
<1> QED
  BY <1>1, <1>2, <1>3, <1>4, <1>5, <1>6 DEF Next, ChangeDirectory, Halted, vars
\* What is before the first end mark, and how much of it there is at least.
LEMMA UnmarkedIs ==
  ASSUME NEW S, NEW s \in Seq(S), NEW m \in 0 .. Len(s),
         \A k \in 1 .. m : s[k] # "EOF"
  PROVE  \E u \in m .. Len(s) :
           /\ Unmarked(s) = SubSeq(s, 1, u)
           /\ m = Len(s) \/ s[m + 1] = "EOF" => u = m
<1> DEFINE L == Len(s)
           marks == {k \in DOMAIN s : s[k] = "EOF"}
<1>1. DOMAIN s = 1 .. Len(s) /\ Len(s) \in Nat
  OBVIOUS
<1>2. \A k : k \in marks <=> k \in 1 .. Len(s) /\ s[k] = "EOF"
  BY <1>1
<1>3. Unmarked(s) = IF marks = {} THEN s ELSE SubSeq(s, 1, First(marks) - 1)
  BY Zenon DEF Unmarked
<1> HIDE DEF marks, L
<1>4. L \in Nat /\ m \in Nat /\ m <= L
  BY <1>1 DEF L
<1>5. \A k : k \in marks <=> k \in 1 .. L /\ s[k] = "EOF"
  BY <1>2 DEF L
<1>6. CASE marks = {}
  <2>1. Unmarked(s) = SubSeq(s, 1, L)
    BY <1>3, <1>6, SubSeqFull DEF L
  <2>2. m = L \/ s[m + 1] = "EOF" => L = m
    BY <1>4, <1>5, <1>6
  <2>3. L \in m .. L
    BY <1>4
  <2> QED
    BY <2>1, <2>2, <2>3 DEF L
<1>7. CASE marks # {}
  <2> DEFINE f == First(marks)
  <2>1. marks \subseteq Nat
    BY <1>4, <1>5
  <2>2. f \in marks /\ \A k \in marks : f <= k
    BY <1>7, <2>1, FirstIs
  <2>3. Unmarked(s) = SubSeq(s, 1, f - 1)
    BY <1>3, <1>7
  <2> HIDE DEF f
  <2>4. f \in 1 .. L /\ s[f] = "EOF"
    BY <1>5, <2>2
  <2>5. f - 1 \in m .. L
    BY <1>4, <2>4
  <2>6. m = L \/ s[m + 1] = "EOF" => f - 1 = m
    BY <1>4, <1>5, <2>2, <2>4, <2>5
  <2> QED
    BY <2>3, <2>5, <2>6 DEF L
<1> QED
  BY <1>6, <1>7

(***************************************************************************)
(* cat prints what was written and no more, for every file, through all    *)
(* that is created, written and removed, and whenever the system is        *)
(* started again; only what was being appended when the power went may     *)
(* show behind the text (CatPrintsText).                                   *)
(***************************************************************************)
THEOREM CatPrintsWhatWasWritten ==
  ASSUME Interruptible \subseteq {"create", "append", "boot"}, ~Overrun
  PROVE  Spec => []CatPrintsText
<1>1. Init => TextInv
  BY InitNames, InitTexts DEF NamesInv, TextInv
<1>2. TextInv /\ [Next]_vars => TextInv'
  BY StepKeeps, StepKeepsTexts DEF TextInv
<1>3. TextInv => CatPrintsText
  <2> SUFFICES ASSUME TextInv, NEW i \in disk.InodeBitMap, IsFile(disk, i), NEW n
               PROVE  /\ Seqs!IsPrefix(Lines(TextOf(disk, i), n), PrintFileContent(disk, i, n))
                      /\ clean => PrintFileContent(disk, i, n) = Lines(TextOf(disk, i), n)
    BY DEF CatPrintsText, IsFile
  <2> DEFINE size == disk.Inode[i].Size
             cells == Cells(disk, i)
             m == IF size = 0 THEN 0 ELSE size - 1
  <2>1. /\ Sound(disk) /\ TextSound(disk, clean) /\ i \in Inodes
        /\ disk.Text \in [Blocks -> BlockTexts]
    BY DEF TextInv, SoundInv, TextSound, Sound, DisksWith
  <2>2. size \in Nat /\ size \in Sizes
    BY <2>1, NodeSizes, Constants DEF Sound, Sizes
  <2>3. /\ cells \in Seq(Chars) /\ Len(cells) \in Nat
        /\ Len(cells) = BlocksOf(size) * BlockSize /\ size <= Len(cells)
        /\ \A p \in 1 .. Len(cells) : cells[p] = CellAt(disk, i, p)
    BY <2>1, CellsAre
  <2>4. size = 0 => Len(cells) = 0
    BY <2>3, BlocksOfWhole, Constants
  <2>5. TextOf(disk, i) = SubSeq(cells, 1, m)
    <3>1. CASE size = 0
      <4>1. TextOf(disk, i) = SubSeq(cells, 1, -1)
        BY <2>2, <3>1 DEF TextOf
      <4>2. SubSeq(cells, 1, -1) = <<>> /\ SubSeq(cells, 1, 0) = <<>>
        BY <2>3, SubSeqEmpty
      <4> QED
        BY <3>1, <4>1, <4>2
    <3>2. CASE size # 0
      BY <3>2 DEF TextOf
    <3> QED
      BY <3>1, <3>2
  <2> HIDE DEF cells
  <2>6. m \in 0 .. Len(cells)
    BY <2>2, <2>3
  <2>7. \A k \in 1 .. m : cells[k] # "EOF"
    BY <2>1, <2>2, <2>3 DEF TextSound
  <2>8. PICK u \in m .. Len(cells) :
           /\ Unmarked(cells) = SubSeq(cells, 1, u)
           /\ m = Len(cells) \/ cells[m + 1] = "EOF" => u = m
    BY <2>3, <2>6, <2>7, UnmarkedIs
  <2>9. clean => u = m
    <3>1. CASE size = 0
      BY <2>4, <2>8, <3>1
    <3>2. CASE size # 0
      <4>1. size \in 1 .. size /\ size \in 1 .. Len(cells)
        BY <2>2, <2>3, <3>2
      <4>2. clean => CellAt(disk, i, size) = "EOF"
        BY <2>1, <2>2, <4>1 DEF TextSound
      <4> QED
        BY <2>2, <2>3, <2>8, <3>2, <4>1, <4>2
    <3> QED
      BY <3>1, <3>2
  <2> HIDE DEF m
  <2> DEFINE s == SubSeq(cells, 1, u)
  <2>10. u \in 0 .. Len(cells) /\ m \in 0 .. u
    BY <2>3, <2>6, <2>8
  <2>11. s \in Seq(Chars) /\ Len(s) = u /\ SubSeq(s, 1, m) = SubSeq(cells, 1, m)
    BY <2>3, <2>10, FrontIs, FrontOfFront
  <2>12. PrintFileContent(disk, i, n) = Lines(s, n)
    BY <2>8 DEF PrintFileContent, cells
  <2> HIDE DEF s
  <2>13. Seqs!IsPrefix(Lines(SubSeq(s, 1, m), n), Lines(s, n))
    BY <2>10, <2>11, LinesOfFront
  <2>14. clean => s = SubSeq(cells, 1, m)
    BY <2>9 DEF s
  <2> QED
    BY <2>5, <2>11, <2>12, <2>13, <2>14
<1> QED
  BY <1>1, <1>2, <1>3, PTL DEF Spec
-----------------------------------------------------------------------------
(***************************************************************************)
(* The tree that the names make: what is reached from the root over them.  *)
(***************************************************************************)
IsDown(down, named) ==
  down = [n \in 0 .. InodeCount - 1 |->
            IF n = 0 THEN {0}
            ELSE down[n - 1] \cup {e.File : e \in {o \in named : o.Dir \in down[n - 1]}}]

Below(named) == (CHOOSE down : IsDown(down, named))[InodeCount - 1]

Closed(named, R) == \A e \in named : e.Dir \in R => e.File \in R

\* One turn of the loop.
Lower(named, R) == R \cup {e.File : e \in {o \in named : o.Dir \in R}}

(***************************************************************************)
(* As many turns as there are inodes but one reach all: a turn that finds  *)
(* nothing new is the last one that could.                                 *)
(***************************************************************************)
LEMMA BelowIs ==
  ASSUME NEW named, \A e \in named : e.File \in Inodes
  PROVE  /\ 0 \in Below(named) /\ Below(named) \subseteq Inodes /\ Closed(named, Below(named))
         /\ \A R : 0 \in R /\ Closed(named, R) => Below(named) \subseteq R
<1> DEFINE L == InodeCount - 1
           X == SUBSET Inodes
           step == [a \in (1 .. L) \X X |-> Lower(named, a[2])]
           Way == CHOOSE down : IsDown(down, named)
<1>1. L \in Nat /\ InodeCount \in Nat /\ {0} \in X
  <2>1. InodeCount \in Nat \ {0} /\ 0 \in Inodes
    BY ConstantsAssumption, Constants
  <2>2. {0} \subseteq Inodes
    BY <2>1
  <2> QED
    BY <2>1, <2>2
<1>2. Below(named) = Way[L]
  BY DEF Below
<1>3. \A R \in X : Lower(named, R) \in X
  BY DEF Lower
<1>4. step \in [(1 .. L) \X X -> X]
  BY <1>3
<1>5. \A n \in 1 .. L, R \in X : step[<<n, R>>] = Lower(named, R)
  OBVIOUS
<1> HIDE DEF step, L, X
<1>6. PICK f \in [0 .. L -> X] : Iterates(f, {0}, step, L)
  BY <1>1, <1>4, IterationExists
<1>7. f[0] = {0} /\ \A n \in 1 .. L : f[n] = Lower(named, f[n - 1])
  <2>1. f[0] = {0} /\ \A n \in 1 .. L : f[n] = step[<<n, f[n - 1]>>]
    BY <1>6 DEF Iterates
  <2>2. \A n \in 1 .. L : f[n - 1] \in X
    BY <1>1
  <2> QED
    BY <1>5, <2>1, <2>2
<1>8. IsDown(f, named)
  <2>1. \A n \in 0 .. L : f[n] = IF n = 0 THEN {0} ELSE Lower(named, f[n - 1])
    BY <1>1, <1>7
  <2>2. f = [n \in 0 .. L |-> IF n = 0 THEN {0} ELSE Lower(named, f[n - 1])]
    BY <2>1
  <2> QED
    BY <2>2 DEF IsDown, Lower, L
<1>9. IsDown(Way, named)
  BY <1>8, Zenon
<1> HIDE DEF Way
<1>10. Way[0] = {0} /\ \A n \in 1 .. L : Way[n] = Lower(named, Way[n - 1])
  <2>1. Way = [n \in 0 .. L |-> IF n = 0 THEN {0} ELSE Lower(named, Way[n - 1])]
    BY <1>9, Zenon DEF IsDown, Lower, L
  <2>2. \A n \in 0 .. L : Way[n] = IF n = 0 THEN {0} ELSE Lower(named, Way[n - 1])
    BY <2>1, Zenon
  <2> QED
    BY <1>1, <2>2
<1> DEFINE Bound(n) == Closed(named, Way[n]) \/ n + 1 <= Cardinality(Way[n])
           Least(n) == \A R : 0 \in R /\ Closed(named, R) => Way[n] \subseteq R
           T == {n \in Nat : n <= L => Way[n] \in X /\ 0 \in Way[n] /\ Bound(n) /\ Least(n)}
<1>11. 0 \in T
  <2>1. Cardinality({0}) = 1
    BY FS_Singleton
  <2>2. Bound(0)
    BY <1>10, <2>1
  <2>3. Least(0)
    BY <1>10
  <2> HIDE DEF Bound, Least
  <2> QED
    BY <1>1, <1>10, <2>2, <2>3
<1>12. ASSUME NEW n \in Nat, n \in T PROVE n + 1 \in T
  <2> SUFFICES ASSUME n + 1 <= L
               PROVE  Way[n + 1] \in X /\ 0 \in Way[n + 1] /\ Bound(n + 1) /\ Least(n + 1)
    OBVIOUS
  <2> HIDE DEF T
  <2>1. Way[n] \in X /\ 0 \in Way[n] /\ Bound(n) /\ Least(n)
    BY <1>1, <1>12 DEF T
  <2>2. Way[n + 1] = Lower(named, Way[n])
    BY <1>1, <1>10
  <2>3. Way[n + 1] \in X /\ Way[n] \subseteq Way[n + 1] /\ 0 \in Way[n + 1]
    BY <1>3, <2>1, <2>2 DEF Lower
  <2>4. Least(n + 1)
    BY <2>1, <2>2 DEF Lower, Closed
  <2>5. Bound(n + 1)
    <3>1. CASE Closed(named, Way[n])
      <4>1. Way[n + 1] = Way[n]
        BY <2>2, <3>1 DEF Lower, Closed
      <4> QED
        BY <3>1, <4>1
    <3>2. CASE ~Closed(named, Way[n])
      <4>1. PICK e \in named : e.Dir \in Way[n] /\ e.File \notin Way[n]
        BY <3>2 DEF Closed
      <4>2. e.File \in Way[n + 1]
        BY <2>2, <4>1 DEF Lower
      <4>3. n + 1 <= Cardinality(Way[n])
        BY <2>1, <3>2
      <4>4. IsFiniteSet(Inodes)
        BY <1>1, FS_Interval DEF Inodes, L
      <4>5. IsFiniteSet(Way[n + 1]) /\ IsFiniteSet(Way[n])
        BY <2>1, <2>3, <4>4, FS_Subset DEF X
      <4>6. /\ Cardinality(Way[n + 1]) \in Nat /\ Cardinality(Way[n]) \in Nat
            /\ Cardinality(Way[n]) < Cardinality(Way[n + 1])
        BY <2>3, <4>1, <4>2, <4>5, FS_CardinalityType, FS_Subset
      <4> HIDE DEF X
      <4>7. n + 1 + 1 <= Cardinality(Way[n + 1])
        BY <4>3, <4>6
      <4> QED
        BY <4>7
    <3> QED
      BY <3>1, <3>2
  <2> QED
    BY <2>3, <2>4, <2>5
<1>13. L \in T
  <2> HIDE DEF T
  <2> QED
    BY <1>1, <1>11, <1>12, SetInduction
<1>14. Way[L] \in X /\ 0 \in Way[L] /\ Bound(L) /\ Least(L)
  BY <1>1, <1>13
<1>15. Closed(named, Way[L])
  <2> SUFFICES ASSUME L + 1 <= Cardinality(Way[L]) PROVE Closed(named, Way[L])
    BY <1>14
  <2>1. Inodes = 0 .. L /\ IsFiniteSet(Inodes) /\ Cardinality(Inodes) = L + 1
    BY <1>1, FS_Interval DEF Inodes, L
  <2>2. Way[L] \subseteq Inodes
    BY <1>14 DEF X
  <2>3. Cardinality(Way[L]) \in Nat
    BY <2>1, <2>2, FS_Subset, FS_CardinalityType
  <2>4. Way[L] = Inodes
    BY <1>1, <2>1, <2>2, <2>3, FS_Subset
  <2> QED
    BY <2>4 DEF Closed
<1> QED
  BY <1>2, <1>14, <1>15 DEF X
-----------------------------------------------------------------------------
Part(d, named, reached) ==
  [entries |-> {e \in named : e.Dir \in reached},
   directories |-> {i \in reached : d.Inode[i].Type = "FT_DIRECTORY"},
   files |-> {i \in reached : d.Inode[i].Type = "FT_FILE"},
   text |-> [i \in Inodes |->
     IF i \in reached /\ d.Inode[i].Type = "FT_FILE" THEN TextOf(d, i) ELSE <<>>]]

CommittedIn(d, i) == {n \in Places(d.Inode[i]) : n * EntrySize < d.Inode[i].Size}

NamedIn(d) == NamesIn(d, d.InodeBitMap, LAMBDA i : CommittedIn(d, i))

TreeIn(d) == Part(d, NamedIn(d), Below(NamedIn(d)))

LEMMA TreeIs == Tree = TreeIn(disk)
<1>1. NamesIn(disk, disk.InodeBitMap, Committed) = NamedIn(disk)
  BY DEF NamedIn, Committed, CommittedIn, NamesIn
<1>2. TreeOf(NamedIn(disk)) = {TreeIn(disk)}
  BY DEF TreeOf, TreeIn, Part, Below, IsDown
<1>3. UNION {TreeOf(named) : named \in {NamesIn(disk, disk.InodeBitMap, Committed)}} = {TreeIn(disk)}
  BY <1>1, <1>2
<1> QED
  BY <1>3 DEF Tree

LEMMA NextTreeIs == Tree' = TreeIn(disk')
<1>1. (Tree = TreeIn(disk))'
  BY TreeIs, PTL
<1> QED
  BY <1>1
-----------------------------------------------------------------------------
(***************************************************************************)
(* The names that are counted, as pairs of a block and a slot.             *)
(***************************************************************************)
Counted(d, i, k, s) == HasName(d, i, k, s) /\ k * BlockSize + s * EntrySize < d.Inode[i].Size

NameAt(d, i, k, s) ==
  [Dir |-> i, Name |-> EntryIn(d, i, k, s).Name, File |-> EntryIn(d, i, k, s).InodeID]

NamedAt(d, e) ==
  \E i \in d.InodeBitMap : \E k \in NumbersAt(d, i), s \in Slots :
    Counted(d, i, k, s) /\ e = NameAt(d, i, k, s)

LEMMA NamedInIs ==
  ASSUME NEW d, Sound(d), NEW e
  PROVE  e \in NamedIn(d) <=> NamedAt(d, e)
<1> DEFINE In(i, n) ==
             /\ d.Inode[i].Type = "FT_DIRECTORY"
             /\ n * EntrySize < d.Inode[i].Size
             /\ EntryAt(d, d.Inode[i], n).Name \in Names
             /\ e = [Dir |-> i, Name |-> EntryAt(d, d.Inode[i], n).Name,
                                File |-> EntryAt(d, d.Inode[i], n).InodeID]
<1>1. e \in NamedIn(d) <=> \E i \in d.InodeBitMap : \E n \in Places(d.Inode[i]) : In(i, n)
  BY DEF NamedIn, NamesIn, CommittedIn
<1>2. \A i \in d.InodeBitMap : i \in Inodes /\ d.Inode[i].Size \in Sizes
  BY NodeSizes DEF Sound, DisksWith
<1>3. ASSUME NEW i \in d.InodeBitMap, NEW k \in NumbersAt(d, i), NEW s \in Slots,
             NEW n, n = k * PerBlock + s
      PROVE  In(i, n) <=> Counted(d, i, k, s) /\ e = NameAt(d, i, k, s)
  <2>1. n \div PerBlock = k /\ n % PerBlock = s
    BY <1>2, <1>3, PlacesArePairs DEF NumbersAt
  <2>2. EntryAt(d, d.Inode[i], n) = EntryIn(d, i, k, s)
    BY <2>1 DEF EntryAt, EntryIn, BlockOf
  <2>3. n * EntrySize = k * BlockSize + s * EntrySize
    <3>1. k \in Nat /\ s \in Nat
      BY <1>2, NumbersBound DEF NumbersAt, Slots, Numbers
    <3>2. /\ PerBlock \in Nat /\ EntrySize \in Nat /\ BlockSize = PerBlock * EntrySize
      BY Constants
    <3> QED
      BY <1>3, <3>1, <3>2
  <2> QED
    BY <1>2, <2>2, <2>3 DEF Counted, HasName, IsDirectory, NameAt
<1> HIDE DEF In
<1>4. ASSUME NEW i \in d.InodeBitMap, NEW n \in Places(d.Inode[i]), In(i, n)
      PROVE  NamedAt(d, e)
  <2> DEFINE k == n \div PerBlock
             s == n % PerBlock
  <2>1. k \in NumbersAt(d, i) /\ s \in Slots
    BY <1>2, PlacesArePairs DEF NumbersAt
  <2>2. n = k * PerBlock + s
    <3>1. n \in Nat /\ PerBlock \in Nat \ {0}
      BY <1>2, PlacesArePairs, Constants
    <3> QED
      BY <3>1, DivisionIs
  <2> HIDE DEF k, s
  <2> QED
    BY <1>3, <1>4, <2>1, <2>2 DEF NamedAt
<1>5. ASSUME NEW i \in d.InodeBitMap, NEW k \in NumbersAt(d, i), NEW s \in Slots,
             Counted(d, i, k, s), e = NameAt(d, i, k, s)
      PROVE  \E n \in Places(d.Inode[i]) : In(i, n)
  <2>1. k * PerBlock + s \in Places(d.Inode[i])
    BY <1>2, PlacesArePairs DEF NumbersAt
  <2> QED
    BY <1>3, <1>5, <2>1
<1> QED
  BY <1>1, <1>4, <1>5 DEF NamedAt

(***************************************************************************)
(* Names that are sound: each for an inode in use that is not the root,    *)
(* and none twice.                                                         *)
(***************************************************************************)
LEMMA NamedAreSound ==
  ASSUME NEW d, Sound(d), NamesSound(d), NEW e \in NamedIn(d)
  PROVE  /\ e.Dir \in d.InodeBitMap /\ IsDirectory(d, e.Dir)
         /\ e.File \in d.InodeBitMap /\ e.File \in Inodes /\ e.File # 0
         /\ \A f \in NamedIn(d) :
              (e.Dir = f.Dir /\ e.Name = f.Name) \/ e.File = f.File => e = f
<1>0. d.InodeBitMap \subseteq Inodes
  BY DEF Sound, DisksWith
<1>1. PICK i \in d.InodeBitMap : \E k \in NumbersAt(d, i), s \in Slots :
         Counted(d, i, k, s) /\ e = NameAt(d, i, k, s)
  BY NamedInIs DEF NamedAt
<1>2. PICK k \in NumbersAt(d, i), s \in Slots : Counted(d, i, k, s) /\ e = NameAt(d, i, k, s)
  BY <1>1
<1>3. /\ HasName(d, i, k, s) /\ e.Dir = i /\ e.Name = EntryIn(d, i, k, s).Name
      /\ e.File = EntryIn(d, i, k, s).InodeID /\ i \in Inodes
  BY <1>0, <1>2 DEF Counted, NameAt
<1>4. e.File \in d.InodeBitMap \ {0}
  BY <1>3 DEF NamesSound
<1>5. ASSUME NEW f \in NamedIn(d), (e.Dir = f.Dir /\ e.Name = f.Name) \/ e.File = f.File
      PROVE  e = f
  <2>1. PICK j \in d.InodeBitMap : \E l \in NumbersAt(d, j), t \in Slots :
           Counted(d, j, l, t) /\ f = NameAt(d, j, l, t)
    BY NamedInIs DEF NamedAt
  <2>2. PICK l \in NumbersAt(d, j), t \in Slots : Counted(d, j, l, t) /\ f = NameAt(d, j, l, t)
    BY <2>1
  <2>3. /\ HasName(d, j, l, t) /\ f.Dir = j /\ f.Name = EntryIn(d, j, l, t).Name
        /\ f.File = EntryIn(d, j, l, t).InodeID /\ j \in Inodes
    BY <1>0, <2>2 DEF Counted, NameAt
  <2>4. i = j /\ k = l /\ s = t
    <3>1. CASE e.File = f.File
      <4>1. EntryIn(d, i, k, s).InodeID = EntryIn(d, j, l, t).InodeID
        BY <1>3, <2>3, <3>1
      <4> QED
        BY <1>3, <2>3, <4>1 DEF NamesSound
    <3>2. CASE e.Dir = f.Dir /\ e.Name = f.Name
      <4>1. /\ i = j /\ HasName(d, i, l, t) /\ l \in NumbersAt(d, i)
            /\ EntryIn(d, i, k, s).Name = EntryIn(d, i, l, t).Name
        BY <1>3, <2>3, <3>2
      <4> QED
        BY <1>3, <4>1 DEF NamesSound
    <3> QED
      BY <1>5, <3>1, <3>2
  <2> QED
    BY <1>2, <2>2, <2>4
<1> QED
  BY <1>0, <1>3, <1>4, <1>5 DEF HasName

Reaches(d) == Below(NamedIn(d))

LEMMA ReachesIs ==
  ASSUME NEW d, Sound(d), NamesSound(d)
  PROVE  /\ 0 \in Reaches(d) /\ Reaches(d) \subseteq d.InodeBitMap /\ Reaches(d) \subseteq Inodes
         /\ Closed(NamedIn(d), Reaches(d))
         /\ \A R : 0 \in R /\ Closed(NamedIn(d), R) => Reaches(d) \subseteq R
<1>1. \A e \in NamedIn(d) : e.File \in Inodes /\ e.File \in d.InodeBitMap
  BY NamedAreSound
<1>2. Closed(NamedIn(d), d.InodeBitMap) /\ 0 \in d.InodeBitMap
  BY <1>1 DEF Closed, NamesSound
<1> QED
  BY <1>1, <1>2, BelowIs DEF Reaches

LEMMA SameReaches ==
  ASSUME NEW d, Sound(d), NamesSound(d), NEW e, Sound(e), NamesSound(e),
         \A x : x.Dir \in Reaches(d) => (x \in NamedIn(e) <=> x \in NamedIn(d))
  PROVE  Reaches(e) = Reaches(d)
<1>1. Reaches(e) \subseteq Reaches(d)
  <2>1. Closed(NamedIn(e), Reaches(d)) /\ 0 \in Reaches(d)
    BY ReachesIs DEF Closed
  <2> QED
    BY <2>1, ReachesIs
<1>2. Reaches(d) \subseteq Reaches(e)
  <2>1. Closed(NamedIn(d), Reaches(e)) /\ 0 \in Reaches(e)
    BY <1>1, ReachesIs DEF Closed
  <2> QED
    BY <2>1, ReachesIs
<1> QED
  BY <1>1, <1>2

LEMMA MoreReaches ==
  ASSUME NEW d, Sound(d), NamesSound(d), NEW e, Sound(e), NamesSound(e),
         NEW x, x.Dir \in Reaches(d),
         \A y : y.Dir \in Reaches(d) => (y \in NamedIn(e) <=> y \in NamedIn(d) \/ y = x),
         \A y \in NamedIn(e) : y.Dir # x.File
  PROVE  Reaches(e) = Reaches(d) \cup {x.File}
<1>1. Reaches(e) \subseteq Reaches(d) \cup {x.File}
  <2>1. /\ Closed(NamedIn(e), Reaches(d) \cup {x.File})
        /\ 0 \in Reaches(d) \cup {x.File}
    BY ReachesIs DEF Closed
  <2> QED
    BY <2>1, ReachesIs
<1>2. Reaches(d) \subseteq Reaches(e)
  <2> DEFINE S == Reaches(d) \cap Reaches(e)
  <2>1. Closed(NamedIn(d), S) /\ 0 \in S
    BY ReachesIs DEF Closed
  <2>2. Reaches(d) \subseteq S
    BY <2>1, ReachesIs
  <2> QED
    BY <2>2
<1>3. x \in NamedIn(e) /\ x.Dir \in Reaches(e)
  BY <1>2
<1>4. x.File \in Reaches(e)
  BY <1>3, ReachesIs DEF Closed
<1> QED
  BY <1>1, <1>2, <1>4
-----------------------------------------------------------------------------
(***************************************************************************)
(* What a new entry changes of the names that are counted: nothing before  *)
(* the size of its directory is written, and then it is one of them.       *)
(***************************************************************************)
NamesAt(d, j, y) ==
  \E k \in NumbersAt(d, j), s \in Slots : Counted(d, j, k, s) /\ y = NameAt(d, j, k, s)

LEMMA NamedByDirectory ==
  ASSUME NEW d, Sound(d), NEW y, y.Dir \in d.InodeBitMap
  PROVE  y \in NamedIn(d) <=> NamesAt(d, y.Dir, y)
<1>1. \A i, k, s : NameAt(d, i, k, s).Dir = i
  BY DEF NameAt
<1> QED
  BY <1>1, NamedInIs DEF NamedAt, NamesAt

\* The places there were, while an entry is added.
LEMMA OldPlaces ==
  ASSUME NEW d, Sound(d), NEW i \in Inodes, NEW block, NEW id, CanAdd(d, i, block, id), i # id,
         NEW name \in Names, NEW type \in {"FT_UNKNOWN", "FT_FILE", "FT_DIRECTORY"}, NEW e,
         e.Data = d.Data \/ e.Data = DataWritten(d, i, block, id, name),
         \/ e.Inode = d.Inode \/ e.Inode = InodesMade(d, id, type)
         \/ e.Inode = InodesLarger(d, i, block, id, type),
         NEW j \in Inodes, j # id
  PROVE  /\ j # i => e.Inode[j] = d.Inode[j]
         /\ e.Inode # InodesLarger(d, i, block, id, type) => e.Inode[j] = d.Inode[j]
         /\ \A k \in NumbersAt(d, j), s \in Slots :
              /\ k \in NumbersAt(e, j) /\ BlockAt(e, j, k) = BlockAt(d, j, k)
              /\ EntryIn(e, j, k, s) = EntryIn(d, j, k, s)
                   \/ (j = i /\ k = NumberOf(d, i) /\ s = SlotOf(d, i))
<1> DEFINE data == DataWritten(d, i, block, id, name)
           made == InodesMade(d, id, type)
           larger == InodesLarger(d, i, block, id, type)
           node == LargerNode(d, i, block)
           q == NumberOf(d, i)
           slot == SlotOf(d, i)
<1>0. /\ id \in Inodes /\ d.Inode \in [Inodes -> NodeTypes] /\ d.DataBitMap \subseteq Blocks
      /\ q \in 0 .. INODE_DIRECT_BLOCKS - 1 /\ slot \in Slots /\ block \in Blocks
  BY CanAddIs DEF Sound, CanAdd, DisksWith
<1>1. /\ data[block][slot] = Entry(id, name)
      /\ \A t \in Slots : t # slot => data[block][t] = d.Data[block][t]
      /\ \A b \in Blocks : b # block => data[b] = d.Data[b]
  BY WrittenIs
<1> HIDE DEF data
<1>2. /\ \A h \in Inodes : h # id => made[h] = d.Inode[h]
      /\ DOMAIN made = Inodes
  BY <1>0 DEF InodesMade
<1> HIDE DEF made
<1>3. /\ \A h \in Inodes : h # i => larger[h] = made[h]
      /\ larger[i] = node
  BY <1>2 DEF InodesLarger, made
<1>4. /\ Numbers(node.Size) = NumbersAt(d, i) \cup {q}
      /\ node.DirectBlock[q] = block
      /\ \A k \in 0 .. INODE_DIRECT_BLOCKS - 1 : k # q => node.DirectBlock[k] = BlockAt(d, i, k)
      /\ q \notin NumbersAt(d, i) => block \notin d.DataBitMap
      /\ q \in NumbersAt(d, i) => block = BlockAt(d, i, q)
  BY CanAddIs
<1> HIDE DEF larger, node, q, slot
<1>5. /\ e.Data = d.Data \/ e.Data = data
      /\ e.Inode = d.Inode \/ e.Inode = made \/ e.Inode = larger
  BY Zenon DEF data, made, larger
<1>6. /\ e.Inode[j] = d.Inode[j] \/ (j = i /\ e.Inode[j] = node)
      /\ e.Inode # larger => e.Inode[j] = d.Inode[j]
  BY <1>2, <1>3, <1>5
<1>7. ASSUME NEW k \in NumbersAt(d, j)
      PROVE  k \in NumbersAt(e, j) /\ BlockAt(e, j, k) = BlockAt(d, j, k)
  <2>1. CASE e.Inode[j] = d.Inode[j]
    BY <1>7, <2>1 DEF NumbersAt, BlockAt
  <2>2. CASE j = i /\ e.Inode[j] = node
    <3>1. k \in 0 .. INODE_DIRECT_BLOCKS - 1 /\ k \in NumbersAt(d, i)
      BY <1>7, <2>2, NodeSizes DEF Sound
    <3>2. node.DirectBlock[k] = BlockAt(d, i, k) /\ k \in Numbers(node.Size)
      BY <1>4, <3>1
    <3> QED
      BY <2>2, <3>2 DEF NumbersAt, BlockAt
  <2> QED
    BY <1>6, <2>1, <2>2
<1>8. ASSUME NEW k \in NumbersAt(d, j), NEW s \in Slots, ~(j = i /\ k = q /\ s = slot)
      PROVE  EntryIn(e, j, k, s) = EntryIn(d, j, k, s)
  <2>1. BlockAt(d, j, k) \in Blocks /\ BlockAt(d, j, k) \in d.DataBitMap
    BY EntryHasType DEF Sound
  <2>2. /\ EntryIn(e, j, k, s) = e.Data[BlockAt(d, j, k)][s]
        /\ EntryIn(d, j, k, s) = d.Data[BlockAt(d, j, k)][s]
    BY <1>7, Zenon DEF EntryIn, BlockAt
  <2>3. ~(BlockAt(d, j, k) = block /\ s = slot)
    <3> SUFFICES ASSUME BlockAt(d, j, k) = block, s = slot PROVE FALSE
      OBVIOUS
    <3>1. q \in NumbersAt(d, i) /\ block = BlockAt(d, i, q)
      BY <1>4, <2>1
    <3>2. \A h, o \in Inodes : \A f \in NumbersAt(d, h), g \in NumbersAt(d, o) :
            BlockAt(d, h, f) = BlockAt(d, o, g) => h = o /\ f = g
      BY DEF Sound
    <3> QED
      BY <1>8, <3>1, <3>2
  <2>4. data[BlockAt(d, j, k)][s] = d.Data[BlockAt(d, j, k)][s]
    BY <1>1, <2>1, <2>3
  <2> QED
    BY <1>5, <2>2, <2>4
<1>9. j # i => e.Inode[j] = d.Inode[j]
  BY <1>6
<1> QED
  BY <1>6, <1>7, <1>8, <1>9 DEF larger, q, slot

\* The place of the new entry is behind those that are counted.
LEMMA NewPlace ==
  ASSUME NEW d, Sound(d), NEW i \in Inodes, NEW block, NEW id, CanAdd(d, i, block, id)
  PROVE  /\ d.Inode[i].Size \in Nat
         /\ NumberOf(d, i) * BlockSize + SlotOf(d, i) * EntrySize = d.Inode[i].Size
         /\ ~Counted(d, i, NumberOf(d, i), SlotOf(d, i))
<1> DEFINE size == d.Inode[i].Size
<1>1. size \in Nat /\ size % EntrySize = 0
  BY NodeSizes, Constants DEF Sound, Sizes, CanAdd
<1>2. NumberOf(d, i) * BlockSize + SlotOf(d, i) * EntrySize = size
  BY <1>1, SizeIsPlace DEF NumberOf, SlotOf
<1> HIDE DEF size
<1>3. ~(size < size)
  BY <1>1
<1> QED
  BY <1>1, <1>2, <1>3 DEF Counted, size

LEMMA UnlinkedNames ==
  ASSUME NEW d, Sound(d), NEW i \in Inodes, NEW block, NEW id, CanAdd(d, i, block, id), i # id,
         NEW name \in Names, NEW type \in {"FT_UNKNOWN", "FT_FILE", "FT_DIRECTORY"}, NEW e,
         e.Data = d.Data \/ e.Data = DataWritten(d, i, block, id, name),
         e.Inode = d.Inode \/ e.Inode = InodesMade(d, id, type),
         NEW j \in Inodes, j # id, NEW y
  PROVE  NamesAt(e, j, y) <=> NamesAt(d, j, y)
<1>1. e.Inode[j] = d.Inode[j]
  <2>1. d.Inode \in [Inodes -> NodeTypes] /\ id \in Inodes
    BY DEF Sound, DisksWith, CanAdd
  <2>2. InodesMade(d, id, type)[j] = d.Inode[j]
    BY <2>1 DEF InodesMade
  <2> QED
    BY <2>2
<1>2. NumbersAt(e, j) = NumbersAt(d, j) /\ IsDirectory(e, j) = IsDirectory(d, j)
  BY <1>1 DEF NumbersAt, IsDirectory
<1>3. ASSUME NEW k \in NumbersAt(d, j), NEW s \in Slots
      PROVE  /\ Counted(e, j, k, s) <=> Counted(d, j, k, s)
             /\ Counted(d, j, k, s) => NameAt(e, j, k, s) = NameAt(d, j, k, s)
  <2>1. CASE EntryIn(e, j, k, s) = EntryIn(d, j, k, s)
    BY <1>1, <1>2, <2>1 DEF Counted, HasName, NameAt
  <2>2. CASE j = i /\ k = NumberOf(d, i) /\ s = SlotOf(d, i)
    <3>1. ~(k * BlockSize + s * EntrySize < d.Inode[j].Size)
      BY <2>2, NewPlace
    <3> QED
      BY <1>1, <3>1 DEF Counted
  <2> QED
    BY <2>1, <2>2, OldPlaces
<1> QED
  BY <1>2, <1>3 DEF NamesAt

LEMMA PlaceBefore ==
  ASSUME NEW k \in Nat, NEW l \in Nat, NEW s \in Slots, NEW t \in Slots,
         k * BlockSize + s * EntrySize < l * BlockSize + t * EntrySize + EntrySize
  PROVE  (k = l /\ s = t) \/ k * BlockSize + s * EntrySize < l * BlockSize + t * EntrySize
<1> DEFINE n == k * PerBlock + s
           m == l * PerBlock + t
<1>0. /\ EntrySize \in Nat \ {0} /\ PerBlock \in Nat \ {0} /\ BlockSize = PerBlock * EntrySize
      /\ s \in Nat /\ t \in Nat /\ s < PerBlock /\ t < PerBlock
  BY Constants DEF Slots
<1>1. /\ n \in Nat /\ m \in Nat
      /\ n \div PerBlock = k /\ n % PerBlock = s /\ m \div PerBlock = l /\ m % PerBlock = t
  BY <1>0, DivisionUnique
<1>2. n * EntrySize = k * BlockSize + s * EntrySize /\ m * EntrySize = l * BlockSize + t * EntrySize
  BY <1>0
<1> HIDE DEF n, m
<1>3. n * EntrySize \in Nat /\ m * EntrySize \in Nat
  BY <1>0, <1>1
<1>4. n = m => k = l /\ s = t
  BY <1>1
<1>5. m < n => m * EntrySize + EntrySize <= n * EntrySize
  BY <1>0, <1>1, Multiples
<1>6. n < m => n * EntrySize + EntrySize <= m * EntrySize
  BY <1>0, <1>1, Multiples
<1>7. n = m \/ m < n \/ n < m
  BY <1>1
<1> QED
  BY <1>0, <1>2, <1>3, <1>4, <1>5, <1>6, <1>7

NewName(i, name, id) == [Dir |-> i, Name |-> name, File |-> id]

LEMMA LinkedNames ==
  ASSUME NEW d, Sound(d), NEW i \in Inodes, NEW block, NEW id, CanAdd(d, i, block, id), i # id,
         NEW name \in Names, NEW type \in {"FT_UNKNOWN", "FT_FILE", "FT_DIRECTORY"}, NEW e,
         e.Data = DataWritten(d, i, block, id, name),
         e.Inode = InodesLarger(d, i, block, id, type),
         NEW j \in Inodes, NEW y
  PROVE  /\ j # id => (NamesAt(e, j, y) <=> NamesAt(d, j, y) \/ (j = i /\ y = NewName(i, name, id)))
         /\ ~NamesAt(e, id, y)
         /\ e.Inode[i].Type = d.Inode[i].Type
         /\ e.Inode[id] = newEmptyDiskInode(type)
<1> DEFINE larger == InodesLarger(d, i, block, id, type)
           made == InodesMade(d, id, type)
           node == LargerNode(d, i, block)
           q == NumberOf(d, i)
           slot == SlotOf(d, i)
           size == d.Inode[i].Size
<1>0. /\ id \in Inodes /\ d.Inode \in [Inodes -> NodeTypes] /\ IsDirectory(d, i)
      /\ q \in 0 .. INODE_DIRECT_BLOCKS - 1 /\ slot \in Slots /\ block \in Blocks
  BY CanAddIs DEF Sound, CanAdd, DisksWith
<1>1. /\ DOMAIN made = Inodes /\ made[id] = newEmptyDiskInode(type)
  BY <1>0 DEF InodesMade
<1> HIDE DEF made
<1>2. larger[i] = node /\ larger[id] = newEmptyDiskInode(type)
  BY <1>0, <1>1 DEF InodesLarger, made
<1>3. /\ node.Type = "FT_DIRECTORY" /\ Numbers(node.Size) = NumbersAt(d, i) \cup {q}
      /\ node.DirectBlock[q] = block
  BY CanAddIs
<1>4. node.Size = size + EntrySize
  <2>1. d.Inode[i] \in NodeTypes
    BY <1>0
  <2> QED
    BY <2>1 DEF LargerNode, NodeTypes
<1> HIDE DEF larger, node
<1>5. e.Inode[i] = node /\ e.Inode[id] = newEmptyDiskInode(type)
  BY <1>2 DEF larger
<1>6. ~NamesAt(e, id, y)
  BY <1>5, EmptyNode, NumbersBound DEF NumbersAt, NamesAt
<1>7. ASSUME j # id, j # i
      PROVE  NamesAt(e, j, y) <=> NamesAt(d, j, y)
  <2>1. e.Inode[j] = d.Inode[j]
    BY <1>7, OldPlaces
  <2>2. NumbersAt(e, j) = NumbersAt(d, j) /\ IsDirectory(e, j) = IsDirectory(d, j)
    BY <2>1 DEF NumbersAt, IsDirectory
  <2>3. \A k \in NumbersAt(d, j), s \in Slots : EntryIn(e, j, k, s) = EntryIn(d, j, k, s)
    BY <1>7, OldPlaces
  <2>4. \A k \in NumbersAt(d, j), s \in Slots :
          /\ Counted(e, j, k, s) <=> Counted(d, j, k, s)
          /\ NameAt(e, j, k, s) = NameAt(d, j, k, s)
    BY <2>1, <2>2, <2>3 DEF Counted, HasName, NameAt
  <2> QED
    BY <2>2, <2>4 DEF NamesAt
<1>8. /\ size \in Nat /\ q * BlockSize + slot * EntrySize = size
      /\ ~Counted(d, i, q, slot)
  BY NewPlace
<1> HIDE DEF q, slot, size
<1>9. q \in NumbersAt(e, i) /\ IsDirectory(e, i) /\ BlockAt(e, i, q) = block
  BY <1>3, <1>5 DEF NumbersAt, IsDirectory, BlockAt
<1>10. EntryIn(e, i, q, slot).InodeID = id /\ EntryIn(e, i, q, slot).Name = name
  <2>1. EntryIn(e, i, q, slot) = DataWritten(d, i, block, id, name)[block][slot]
    BY <1>9, Zenon DEF EntryIn, BlockAt
  <2>2. EntryIn(e, i, q, slot) = Entry(id, name)
    BY <2>1, WrittenIs DEF slot
  <2> QED
    BY <2>2 DEF Entry
<1>11. Counted(e, i, q, slot) /\ NameAt(e, i, q, slot) = NewName(i, name, id)
  <2>1. size < e.Inode[i].Size
    BY <1>4, <1>5, <1>8, Constants
  <2> QED
    BY <1>0, <1>8, <1>9, <1>10, <2>1 DEF Counted, HasName, NameAt, NewName
<1>12. ASSUME NEW k \in NumbersAt(e, i), NEW s \in Slots, Counted(e, i, k, s)
       PROVE  \/ k = q /\ s = slot
              \/ /\ k \in NumbersAt(d, i) /\ Counted(d, i, k, s)
                 /\ NameAt(e, i, k, s) = NameAt(d, i, k, s)
  <2>1. HasName(e, i, k, s) /\ k * BlockSize + s * EntrySize < size + EntrySize
    BY <1>4, <1>5, <1>12 DEF Counted
  <2>2. k \in Nat /\ q \in Nat
    BY <1>0, <1>3, <1>5, NodeSizes DEF NumbersAt, Sound
  <2>3. (k = q /\ s = slot) \/ k * BlockSize + s * EntrySize < size
    BY <1>0, <1>8, <2>1, <2>2, PlaceBefore
  <2>4. \/ HasName(d, i, k, s) /\ EntryIn(e, i, k, s) = EntryIn(d, i, k, s)
        \/ k = q /\ s = slot
    BY <2>1, NewNameOnly DEF q, slot
  <2> QED
    BY <2>3, <2>4 DEF Counted, HasName, NameAt, size
<1>13. ASSUME NEW k \in NumbersAt(d, i), NEW s \in Slots, Counted(d, i, k, s)
       PROVE  /\ k \in NumbersAt(e, i) /\ Counted(e, i, k, s)
              /\ NameAt(e, i, k, s) = NameAt(d, i, k, s)
  <2>1. ~(k = q /\ s = slot)
    BY <1>8, <1>13
  <2>2. k \in NumbersAt(e, i) /\ EntryIn(e, i, k, s) = EntryIn(d, i, k, s)
    BY <2>1, OldPlaces DEF q, slot
  <2>3. k * BlockSize + s * EntrySize < size
    BY <1>13 DEF Counted, size
  <2> DEFINE place == k * BlockSize + s * EntrySize
  <2>4. place \in Nat
    <3>1. k \in Nat /\ s \in Nat
      BY NodeSizes DEF Slots, Sound
    <3> QED
      BY <3>1, Constants
  <2> HIDE DEF place
  <2>5. place < size + EntrySize
    BY <1>8, <2>3, <2>4, Constants DEF place
  <2> QED
    BY <1>4, <1>5, <1>9, <1>13, <2>2, <2>5 DEF Counted, HasName, NameAt, place
<1>14. NamesAt(e, i, y) <=> NamesAt(d, i, y) \/ y = NewName(i, name, id)
  <2>1. ASSUME NamesAt(e, i, y) PROVE NamesAt(d, i, y) \/ y = NewName(i, name, id)
    BY <1>11, <1>12, <2>1 DEF NamesAt
  <2>2. ASSUME NamesAt(d, i, y) PROVE NamesAt(e, i, y)
    BY <1>13, <2>2 DEF NamesAt
  <2>3. ASSUME y = NewName(i, name, id) PROVE NamesAt(e, i, y)
    BY <1>0, <1>9, <1>11, <2>3 DEF NamesAt
  <2> QED
    BY <2>1, <2>2, <2>3
<1> QED
  BY <1>0, <1>3, <1>5, <1>6, <1>7, <1>14 DEF IsDirectory
-----------------------------------------------------------------------------
(***************************************************************************)
(* Disks with the same tree, and with one name more.                       *)
(***************************************************************************)
TextsTyped(d) == d.Text \in [Blocks -> BlockTexts]

LEMMA TextOfIs ==
  ASSUME NEW d, Sound(d), TextsTyped(d), NEW i \in Inodes, NEW n,
         n = IF d.Inode[i].Size = 0 THEN 0 ELSE d.Inode[i].Size - 1
  PROVE  /\ TextOf(d, i) \in Seq(Chars) /\ Len(TextOf(d, i)) = n /\ n \in Nat
         /\ \A p \in 1 .. n : TextOf(d, i)[p] = CellAt(d, i, p)
<1> DEFINE size == d.Inode[i].Size
           cells == Cells(d, i)
<1>1. size \in Nat
  BY NodeSizes, Constants DEF Sound, Sizes
<1>2. /\ cells \in Seq(Chars) /\ Len(cells) \in Nat /\ size <= Len(cells)
      /\ \A p \in 1 .. Len(cells) : cells[p] = CellAt(d, i, p)
  BY CellsAre DEF TextsTyped
<1>3. TextOf(d, i) = SubSeq(cells, 1, size - 1)
  BY DEF TextOf
<1> HIDE DEF cells
<1>4. TextOf(d, i) = SubSeq(cells, 1, n)
  <2>1. CASE size = 0
    <3>1. TextOf(d, i) = SubSeq(cells, 1, -1)
      BY <1>3, <2>1
    <3>2. SubSeq(cells, 1, -1) = <<>> /\ SubSeq(cells, 1, 0) = <<>>
      BY <1>2, SubSeqEmpty
    <3> QED
      BY <2>1, <3>1, <3>2
  <2>2. CASE size # 0
    BY <1>3, <2>2
  <2> QED
    BY <2>1, <2>2
<1>5. n \in 0 .. Len(cells)
  BY <1>1, <1>2
<1> HIDE DEF size
<1>6. /\ SubSeq(cells, 1, n) \in Seq(Chars) /\ Len(SubSeq(cells, 1, n)) = n
      /\ \A k \in 1 .. n : SubSeq(cells, 1, n)[k] = cells[k]
  BY <1>2, <1>5, FrontIs
<1> QED
  BY <1>2, <1>4, <1>5, <1>6

LEMMA EmptyText ==
  ASSUME NEW d, Sound(d), TextsTyped(d), NEW i \in Inodes, d.Inode[i].Size = 0
  PROVE  TextOf(d, i) = <<>>
<1>1. TextOf(d, i) \in Seq(Chars) /\ Len(TextOf(d, i)) = 0
  BY TextOfIs
<1> QED
  BY <1>1

LEMMA KeptText ==
  ASSUME NEW d, NEW e, NEW i, e.Text = d.Text, e.Inode[i] = d.Inode[i]
  PROVE  TextOf(e, i) = TextOf(d, i)
BY Zenon DEF TextOf, Cells

\* Seen from the tree, nothing changes of inode j itself.
SameAt(d, e, j) ==
  /\ e.Inode[j].Type = d.Inode[j].Type
  /\ d.Inode[j].Type = "FT_FILE" => TextOf(e, j) = TextOf(d, j)

LEMMA SameTree ==
  ASSUME NEW d, Sound(d), NamesSound(d), NEW e, Sound(e), NamesSound(e),
         \A j \in Reaches(d) : SameAt(d, e, j),
         \A j \in Reaches(d) : j \in e.InodeBitMap,
         \A j \in Reaches(d) : \A y : NamesAt(e, j, y) <=> NamesAt(d, j, y)
  PROVE  TreeIn(e) = TreeIn(d)
<1>1. \A y : y.Dir \in Reaches(d) => (y \in NamedIn(e) <=> y \in NamedIn(d))
  BY NamedByDirectory, ReachesIs
<1>2. Reaches(e) = Reaches(d)
  BY <1>1, SameReaches
<1> DEFINE R == Reaches(d)
<1>3. /\ {y \in NamedIn(e) : y.Dir \in R} = {y \in NamedIn(d) : y.Dir \in R}
      /\ {i \in R : e.Inode[i].Type = "FT_DIRECTORY"} = {i \in R : d.Inode[i].Type = "FT_DIRECTORY"}
      /\ {i \in R : e.Inode[i].Type = "FT_FILE"} = {i \in R : d.Inode[i].Type = "FT_FILE"}
  BY <1>1 DEF SameAt
<1>4. [i \in Inodes |-> IF i \in R /\ e.Inode[i].Type = "FT_FILE" THEN TextOf(e, i) ELSE <<>>]
      = [i \in Inodes |-> IF i \in R /\ d.Inode[i].Type = "FT_FILE" THEN TextOf(d, i) ELSE <<>>]
  BY DEF SameAt
<1> HIDE DEF R
<1>5. Part(e, NamedIn(e), R) = Part(d, NamedIn(d), R)
  BY <1>3, <1>4 DEF Part
<1> QED
  BY <1>2, <1>5 DEF TreeIn, Reaches, R

\* Tree t has name x more than s, of a directory or a file that is empty.
OneMore(s, t, x, type) ==
  /\ x \notin s.entries /\ t.entries = s.entries \cup {x}
  /\ t.directories = s.directories \cup (IF type = "FT_DIRECTORY" THEN {x.File} ELSE {})
  /\ t.files = s.files \cup (IF type = "FT_FILE" THEN {x.File} ELSE {})
  /\ t.text = s.text

LEMMA OneMoreTree ==
  ASSUME NEW d, Sound(d), NamesSound(d), NEW e, Sound(e), NamesSound(e), TextsTyped(e),
         \A j \in Reaches(d) : SameAt(d, e, j),
         \A j \in Reaches(d) : j \in e.InodeBitMap,
         NEW x, x.Dir \in Reaches(d), x.File \in Inodes, x.File \notin d.InodeBitMap,
         \A j \in Reaches(d) : \A y :
           y.Dir = j => (NamesAt(e, j, y) <=> NamesAt(d, j, y) \/ y = x),
         \A y : ~NamesAt(e, x.File, y),
         NEW type \in {"FT_FILE", "FT_DIRECTORY"}, e.Inode[x.File] = newEmptyDiskInode(type)
  PROVE  OneMore(TreeIn(d), TreeIn(e), x, type)
<1> DEFINE R == Reaches(d)
           S == R \cup {x.File}
<1>1. R \subseteq d.InodeBitMap /\ R \subseteq Inodes
  BY ReachesIs
<1>2. \A y : y.Dir \in R => (y \in NamedIn(e) <=> y \in NamedIn(d) \/ y = x)
  BY <1>1, NamedByDirectory
<1>3. \A y \in NamedIn(e) : y.Dir # x.File
  <2> SUFFICES ASSUME NEW y \in NamedIn(e), y.Dir = x.File PROVE FALSE
    OBVIOUS
  <2>1. y.Dir \in e.InodeBitMap
    BY NamedAreSound
  <2> QED
    BY <2>1, NamedByDirectory
<1>4. Reaches(e) = S
  BY <1>2, <1>3, MoreReaches
<1>5. /\ e.Inode[x.File].Type = type /\ TextOf(e, x.File) = <<>> /\ x.File \notin R
  BY <1>1, EmptyNode, EmptyText
<1>6. x \notin NamedIn(d)
  BY NamedAreSound
<1>7. {y \in NamedIn(e) : y.Dir \in S} = {y \in NamedIn(d) : y.Dir \in R} \cup {x}
  BY <1>2, <1>3
<1>8. /\ {i \in S : e.Inode[i].Type = "FT_DIRECTORY"}
           = {i \in R : d.Inode[i].Type = "FT_DIRECTORY"}
               \cup (IF type = "FT_DIRECTORY" THEN {x.File} ELSE {})
      /\ {i \in S : e.Inode[i].Type = "FT_FILE"}
           = {i \in R : d.Inode[i].Type = "FT_FILE"}
               \cup (IF type = "FT_FILE" THEN {x.File} ELSE {})
  BY <1>5 DEF SameAt
<1>9. [i \in Inodes |-> IF i \in S /\ e.Inode[i].Type = "FT_FILE" THEN TextOf(e, i) ELSE <<>>]
      = [i \in Inodes |-> IF i \in R /\ d.Inode[i].Type = "FT_FILE" THEN TextOf(d, i) ELSE <<>>]
  BY <1>5 DEF SameAt
<1> HIDE DEF R, S
<1>10. TreeIn(d) = Part(d, NamedIn(d), R) /\ TreeIn(e) = Part(e, NamedIn(e), S)
  BY <1>4 DEF TreeIn, Reaches, R
<1> QED
  BY <1>6, <1>7, <1>8, <1>9, <1>10 DEF Part, OneMore
-----------------------------------------------------------------------------
(***************************************************************************)
(* CreateFile adds a name to the tree or leaves it, and so does every disk *)
(* its writes leave: the name is in the tree once it is counted.           *)
(***************************************************************************)
LEMMA SameNodesTree ==
  ASSUME NEW d, Sound(d), NamesSound(d), NEW e, Sound(e), NamesSound(e),
         e.Inode = d.Inode, e.Data = d.Data, e.Text = d.Text,
         d.InodeBitMap \subseteq e.InodeBitMap
  PROVE  TreeIn(e) = TreeIn(d)
<1>1. Reaches(d) \subseteq d.InodeBitMap
  BY ReachesIs
<1>2. \A j : SameAt(d, e, j)
  BY KeptText DEF SameAt
<1>3. \A j, y : NamesAt(e, j, y) <=> NamesAt(d, j, y)
  <2>1. \A j, k, s : /\ NumbersAt(e, j) = NumbersAt(d, j) /\ IsDirectory(e, j) = IsDirectory(d, j)
                     /\ EntryIn(e, j, k, s) = EntryIn(d, j, k, s)
    BY DEF NumbersAt, IsDirectory, EntryIn
  <2>2. \A j, k, s : /\ Counted(e, j, k, s) = Counted(d, j, k, s)
                     /\ NameAt(e, j, k, s) = NameAt(d, j, k, s)
    BY <2>1 DEF Counted, HasName, NameAt
  <2> QED
    BY <2>1, <2>2 DEF NamesAt
<1> QED
  BY <1>1, <1>2, <1>3, SameTree

LEMMA AddEntryTree ==
  ASSUME NEW d, Sound(d), NamesSound(d), TextsTyped(d),
         NEW i \in Inodes, NEW block, NEW id, CanAdd(d, i, block, id),
         NEW name \in Names, Find(d, i, name) = 0,
         NEW type \in {"FT_FILE", "FT_DIRECTORY"},
         NEW e \in {BlockTaken(d, block), InodeTaken(d, block, id),
                    NameWritten(d, i, block, id, name),
                    InodeMade(d, i, block, id, name, type),
                    EntryAdded(d, i, block, id, name, type)}
  PROVE  \/ TreeIn(e) = TreeIn(d)
         \/ OneMore(TreeIn(d), TreeIn(e), NewName(i, name, id), type)
<1> DEFINE data == DataWritten(d, i, block, id, name)
           made == InodesMade(d, id, type)
           larger == InodesLarger(d, i, block, id, type)
           dataBits == d.DataBitMap \cup {block}
           inodeBits == d.InodeBitMap \cup {id}
           x == NewName(i, name, id)
           R == Reaches(d)
<1>1. Sound(e) /\ e.Text = d.Text /\ NamesSound(e) /\ TextsTyped(e)
  BY AddEntrySound, AddEntryNames DEF TextsTyped
<1>2. /\ d.InodeBitMap \subseteq e.InodeBitMap
      /\ \/ /\ e.Data = d.Data \/ e.Data = data
            /\ e.Inode = d.Inode \/ e.Inode = made
         \/ e.Data = data /\ e.Inode = larger
  <2>1. \/ FieldsAre(e, d.Text, d.InodeBitMap, dataBits, d.Inode, d.Data)
        \/ FieldsAre(e, d.Text, inodeBits, dataBits, d.Inode, d.Data)
        \/ FieldsAre(e, d.Text, inodeBits, dataBits, d.Inode, data)
        \/ FieldsAre(e, d.Text, inodeBits, dataBits, made, data)
        \/ FieldsAre(e, d.Text, inodeBits, dataBits, larger, data)
    BY AddEntryFields, Zenon
  <2> HIDE DEF data, made, larger
  <2> QED
    BY <2>1 DEF FieldsAre
<1>3. /\ R \subseteq d.InodeBitMap /\ R \subseteq Inodes /\ id \notin R
      /\ id \in Inodes /\ id \notin d.InodeBitMap /\ IsDirectory(d, i)
  BY ReachesIs DEF CanAdd
<1>4. \A j \in R : j \in e.InodeBitMap
  BY <1>2, <1>3
<1>5. ASSUME NEW j \in R, j # i PROVE e.Inode[j] = d.Inode[j]
  <2>1. made[j] = d.Inode[j] /\ larger[j] = made[j]
    <3>1. d.Inode \in [Inodes -> NodeTypes]
      BY DEF Sound, DisksWith
    <3>2. made[j] = d.Inode[j] /\ DOMAIN made = Inodes
      BY <1>3, <3>1 DEF InodesMade
    <3> HIDE DEF made
    <3>3. larger[j] = made[j]
      BY <1>3, <1>5, <3>2 DEF InodesLarger, made
    <3> QED
      BY <3>2, <3>3
  <2> HIDE DEF made, larger
  <2> QED
    BY <1>2, <2>1
\* The new entry is out of reach of the root.
<1>6. CASE i = id
  <2>1. ASSUME NEW j \in R PROVE e.Inode[j] = d.Inode[j]
    BY <1>3, <1>5, <1>6
  <2>2. \A j \in R : SameAt(d, e, j)
    BY <1>1, <2>1, KeptText DEF SameAt
  <2>3. ASSUME NEW j \in R, NEW y PROVE NamesAt(e, j, y) <=> NamesAt(d, j, y)
    <3>1. NumbersAt(e, j) = NumbersAt(d, j) /\ IsDirectory(e, j) = IsDirectory(d, j)
      BY <2>1 DEF NumbersAt, IsDirectory
    <3>2. ASSUME NEW k \in NumbersAt(d, j), NEW s \in Slots
          PROVE  EntryIn(e, j, k, s) = EntryIn(d, j, k, s)
      <4>1. BlockAt(d, j, k) \in Blocks /\ BlockAt(d, j, k) \in d.DataBitMap
        BY <1>3, EntryHasType DEF Sound
      <4>2. BlockAt(d, j, k) # block
        <5>1. CASE NeedsBlock(d, i)
          BY <4>1, <5>1 DEF CanAdd
        <5>2. CASE ~NeedsBlock(d, i)
          <6>1. NumberOf(d, i) \in NumbersAt(d, i) /\ block = BlockAt(d, i, NumberOf(d, i))
            BY <5>2, CanAddIs
          <6>2. j # i /\ j \in Inodes
            BY <1>3, <1>6
          <6> QED
            BY <6>1, <6>2 DEF Sound
        <5> QED
          BY <5>1, <5>2
      <4>3. data[BlockAt(d, j, k)] = d.Data[BlockAt(d, j, k)]
        BY <4>1, <4>2, WrittenIs
      <4>4. e.Data[BlockAt(d, j, k)] = d.Data[BlockAt(d, j, k)]
        BY <1>2, <4>3, Zenon
      <4> QED
        BY <2>1, <4>4, Zenon DEF EntryIn, BlockAt
    <3>3. \A k \in NumbersAt(d, j), s \in Slots :
            /\ Counted(e, j, k, s) <=> Counted(d, j, k, s)
            /\ NameAt(e, j, k, s) = NameAt(d, j, k, s)
      BY <2>1, <3>1, <3>2 DEF Counted, HasName, NameAt
    <3> QED
      BY <3>1, <3>3 DEF NamesAt
  <2> HIDE DEF R
  <2> QED
    BY <1>1, <1>4, <2>2, <2>3, SameTree DEF R
<1>7. CASE /\ i # id
           /\ e.Data = d.Data \/ e.Data = data
           /\ e.Inode = d.Inode \/ e.Inode = made
  <2>1. \A j \in R : \A y : NamesAt(e, j, y) <=> NamesAt(d, j, y)
    BY <1>3, <1>7, UnlinkedNames
  <2>2. ASSUME NEW j \in R PROVE e.Inode[j] = d.Inode[j]
    <3>1. d.Inode \in [Inodes -> NodeTypes]
      BY DEF Sound, DisksWith
    <3>2. made[j] = d.Inode[j]
      BY <1>3, <3>1 DEF InodesMade
    <3> HIDE DEF made
    <3> QED
      BY <1>7, <3>2
  <2>3. \A j \in R : SameAt(d, e, j)
    BY <1>1, <2>2, KeptText DEF SameAt
  <2> HIDE DEF R
  <2> QED
    BY <1>1, <1>4, <2>1, <2>3, SameTree DEF R
<1>8. CASE i # id /\ e.Data = data /\ e.Inode = larger
  <2>1. ASSUME NEW j \in Inodes, NEW y
        PROVE  /\ j # id => (NamesAt(e, j, y) <=> NamesAt(d, j, y) \/ (j = i /\ y = x))
               /\ ~NamesAt(e, id, y)
               /\ e.Inode[i].Type = d.Inode[i].Type
               /\ e.Inode[id] = newEmptyDiskInode(type)
    BY <1>8, LinkedNames
  <2>2. x.Dir = i /\ x.File = id
    BY DEF NewName
  <2>3. \A j \in R : SameAt(d, e, j)
    <3>1. \A j \in R : j # i => SameAt(d, e, j)
      BY <1>1, <1>5, KeptText DEF SameAt
    <3>2. SameAt(d, e, i)
      BY <1>3, <2>1 DEF SameAt, IsDirectory
    <3> QED
      BY <3>1, <3>2
  <2> HIDE DEF R, x
  <2>4. CASE i \notin R
    <3>1. \A j \in R : \A y : NamesAt(e, j, y) <=> NamesAt(d, j, y)
      BY <1>3, <2>1, <2>4
    <3> QED
      BY <1>1, <1>4, <2>3, <3>1, SameTree DEF R
  <2>5. CASE i \in R
    <3>1. \A j \in R : \A y :
            y.Dir = j => (NamesAt(e, j, y) <=> NamesAt(d, j, y) \/ y = x)
      BY <1>3, <2>1, <2>2
    <3>2. /\ \A y : ~NamesAt(e, x.File, y)
          /\ e.Inode[x.File] = newEmptyDiskInode(type)
          /\ x.Dir \in R /\ x.File \in Inodes /\ x.File \notin d.InodeBitMap
      BY <1>3, <2>1, <2>2, <2>5
    <3>3. OneMore(TreeIn(d), TreeIn(e), x, type)
      BY <1>1, <1>4, <2>3, <3>1, <3>2, OneMoreTree DEF R
    <3> QED
      BY <3>3 DEF x
  <2> QED
    BY <2>4, <2>5
<1> QED
  BY <1>2, <1>6, <1>7, <1>8

LEMMA CreateFileTree ==
  ASSUME NEW d, Sound(d), NamesSound(d), TextsTyped(d), NEW i \in Inodes, NEW name \in Names,
         NEW type \in {"FT_FILE", "FT_DIRECTORY"},
         NEW e \in CreateFile(d, i, name, type).torn \cup {CreateFile(d, i, name, type).disk}
  PROVE  TreeIn(e) = TreeIn(d) \/ \E x : OneMore(TreeIn(d), TreeIn(e), x, type)
<1> DEFINE o == CreateFile(d, i, name, type)
<1>1. \/ o.disk = d /\ o.torn = {}
      \/ \E block \in Blocks : o.disk = BlockTaken(d, block) /\ o.torn = {}
      \/ \E block, id : /\ CanAdd(d, i, block, id) /\ Find(d, i, name) = 0
                        /\ o = AddEntry(d, i, block, id, name, type)
  BY CreateFileIs
<1>2. e \in o.torn \cup {o.disk}
  OBVIOUS
<1> HIDE DEF o
<1>3. CASE o.disk = d /\ o.torn = {}
  BY <1>2, <1>3
<1>4. ASSUME NEW block \in Blocks, o.disk = BlockTaken(d, block), o.torn = {}
      PROVE  TreeIn(e) = TreeIn(d)
  <2>1. e = BlockTaken(d, block)
    BY <1>2, <1>4
  <2>2. Sound(e) /\ NamesSound(e)
    BY <2>1, BlockTakenSound
  <2>3. e.Inode = d.Inode /\ e.Data = d.Data /\ e.Text = d.Text /\ e.InodeBitMap = d.InodeBitMap
    <3>1. d \in DisksWith(d.Text)
      BY DEF Sound
    <3> QED
      BY <2>1, <3>1 DEF BlockTaken, DisksWith
  <2> QED
    BY <2>2, <2>3, SameNodesTree
<1>5. ASSUME NEW block, NEW id, CanAdd(d, i, block, id), Find(d, i, name) = 0,
             o = AddEntry(d, i, block, id, name, type)
      PROVE  TreeIn(e) = TreeIn(d) \/ \E x : OneMore(TreeIn(d), TreeIn(e), x, type)
  <2>1. /\ o.disk = EntryAdded(d, i, block, id, name, type)
        /\ o.torn \subseteq {BlockTaken(d, block), InodeTaken(d, block, id),
                             NameWritten(d, i, block, id, name),
                             InodeMade(d, i, block, id, name, type)}
    BY <1>5, AddEntryIs
  <2>2. e \in {BlockTaken(d, block), InodeTaken(d, block, id),
               NameWritten(d, i, block, id, name),
               InodeMade(d, i, block, id, name, type),
               EntryAdded(d, i, block, id, name, type)}
    BY <1>2, <2>1
  <2>3. \/ TreeIn(e) = TreeIn(d)
        \/ OneMore(TreeIn(d), TreeIn(e), NewName(i, name, id), type)
    BY <1>5, <2>2, AddEntryTree
  <2> QED
    BY <2>3
<1> QED
  BY <1>1, <1>3, <1>4, <1>5

(***************************************************************************)
(* MakeDirectory adds as many directories as it comes to.                  *)
(***************************************************************************)
Grown(s, t) ==
  /\ s.entries \subseteq t.entries
  /\ t.directories = s.directories \cup {x.File : x \in t.entries \ s.entries}
  /\ t.files = s.files /\ t.text = s.text

LEMMA GrowsOn ==
  ASSUME NEW s, NEW t, Grown(s, t), NEW u,
         u = t \/ \E x : OneMore(t, u, x, "FT_DIRECTORY")
  PROVE  Grown(s, u)
<1>1. ASSUME NEW x, OneMore(t, u, x, "FT_DIRECTORY") PROVE Grown(s, u)
  <2>1. /\ x \notin t.entries /\ u.entries = t.entries \cup {x}
        /\ u.directories = t.directories \cup {x.File}
        /\ u.files = t.files /\ u.text = t.text
    BY <1>1 DEF OneMore
  <2>2. u.entries \ s.entries = (t.entries \ s.entries) \cup {x}
    BY <2>1 DEF Grown
  <2>3. {y.File : y \in u.entries \ s.entries} = {y.File : y \in t.entries \ s.entries} \cup {x.File}
    BY <2>2
  <2> QED
    BY <2>1, <2>3 DEF Grown
<1> QED
  BY <1>1

\* Every disk a call leaves, whether the power goes or not.
LeavesGrown(o, s) == Grown(s, TreeIn(o.disk)) /\ \A e \in o.torn : Grown(s, TreeIn(e))

LEMMA MakeDirectoryTree ==
  ASSUME NEW d, Sound(d), NamesSound(d), TextsTyped(d),
         NEW path \in Paths, NEW create \in BOOLEAN, NEW slash \in BOOLEAN
  PROVE  LeavesGrown(MakeDirectory(d, path, create, slash), TreeIn(d))
<1> DEFINE Messages == {"none"} \cup {CreateFile(e, j, name, "FT_DIRECTORY").panic :
                                        e \in DisksWith(d.Text), j \in Inodes, name \in Names}
           Outcomes == [disk : DisksWith(d.Text), id : Inodes \cup {-1},
                        panic : Messages, torn : SUBSET DisksWith(d.Text)]
           Good(o) == LeavesSound(o, d.Text) /\ LeavesNames(o) /\ LeavesGrown(o, TreeIn(d))
           X == {o \in Outcomes : Good(o)}
<1>1. "none" \in Messages
  OBVIOUS
<1>2. \A e \in DisksWith(d.Text), j \in Inodes, name \in Names :
         CreateFile(e, j, name, "FT_DIRECTORY").panic \in Messages
  OBVIOUS
<1> HIDE DEF Messages
<1>3. \A o \in X : o.panic \in Messages /\ Good(o)
  OBVIOUS
<1>4. ASSUME NEW o, Good(o), o.panic \in Messages
      PROVE  o \in X
  <2>1. /\ o = [disk |-> o.disk, id |-> o.id, panic |-> o.panic, torn |-> o.torn]
        /\ o.disk \in DisksWith(d.Text) /\ o.id \in Inodes \cup {-1}
        /\ o.torn \subseteq DisksWith(d.Text)
    BY <1>4 DEF LeavesSound, IsOutcome, Sound
  <2>2. o \in Outcomes
    BY <1>4, <2>1
  <2> QED
    BY <1>4, <2>2
<1> HIDE DEF X
<1>5. Outcome({}, d, 0, "none") \in X
  <2> DEFINE o == Outcome({}, d, 0, "none")
  <2>1. o.disk = d /\ o.id = 0 /\ o.panic = "none" /\ o.torn \subseteq {} /\ IsOutcome(o)
    BY OutcomeIs
  <2> HIDE DEF o
  <2>2. Grown(TreeIn(d), TreeIn(d))
    BY DEF Grown, TreeIn, Part
  <2>3. Good(o) /\ o.panic \in Messages
    BY <1>1, <2>1, <2>2, Constants DEF LeavesSound, LeavesNames, LeavesGrown
  <2>4. o \in X
    BY <1>4, <2>3
  <2> QED
    BY <2>4 DEF o
<1>6. ASSUME NEW o \in X, NEW name \in Names, NEW creates \in BOOLEAN
      PROVE  MakeTurn(o, name, creates) \in X
  <2> DEFINE r == MakeTurn(o, name, creates)
             i == o.id
             e == o.disk
  <2>1. /\ IsOutcome(o) /\ o.panic \in Messages
        /\ LeavesSound(o, d.Text) /\ LeavesNames(o) /\ LeavesGrown(o, TreeIn(d))
        /\ Sound(e) /\ e.Text = d.Text /\ i \in Inodes \cup {-1} /\ e \in DisksWith(d.Text)
        /\ NamesSound(e) /\ TextsTyped(e) /\ Grown(TreeIn(d), TreeIn(e))
    BY <1>3 DEF LeavesSound, LeavesNames, LeavesGrown, Sound, TextsTyped
  <2>2. ASSUME NEW id \in Inodes \cup {-1}, NEW p, p = [o EXCEPT !.id = id]
        PROVE  p \in X
    <3>1. /\ p.disk = o.disk /\ p.id = id /\ p.panic = o.panic /\ p.torn = o.torn
          /\ IsOutcome(p)
      BY <2>1, <2>2 DEF IsOutcome
    <3>2. Good(p) /\ p.panic \in Messages
      BY <2>1, <3>1 DEF LeavesSound, LeavesNames, LeavesGrown
    <3> QED
      BY <1>4, <3>2
  <2>3. CASE i = -1
    <3>1. r = o
      BY <2>3, Zenon DEF MakeTurn
    <3> QED
      BY <3>1
  <2>4. CASE i # -1 /\ Find(e, i, name) # 0
    <3>1. r = Enter(o, name)
      BY <2>4, Zenon DEF MakeTurn
    <3>2. Find(e, i, name) \in Inodes
      BY <2>1, <2>4, FindHasType
    <3> HIDE DEF r
    <3>3. r = [o EXCEPT !.id = Find(e, i, name)]
      BY <3>1, Zenon DEF Enter
    <3>4. r \in X
      BY <2>2, <3>2, <3>3
    <3> QED
      BY <3>4 DEF r
  <2>5. CASE i # -1 /\ Find(e, i, name) = 0 /\ creates
    <3> DEFINE c == CreateFile(e, i, name, "FT_DIRECTORY")
    <3>1. r = Make(o, name)
      BY <2>5, Zenon DEF MakeTurn
    <3>2. i \in Inodes
      BY <2>1, <2>5
    <3>3. LeavesSound(c, e.Text) /\ LeavesNames(c) /\ c.panic \in Messages
      BY <1>2, <2>1, <3>2, CreateFileSafe
    <3>4. r = [c EXCEPT !.torn = c.torn \cup o.torn \cup {o.disk}]
      BY <3>1, Zenon DEF Make
    <3>5. \A f \in c.torn \cup {c.disk} :
            TreeIn(f) = TreeIn(e) \/ \E x : OneMore(TreeIn(e), TreeIn(f), x, "FT_DIRECTORY")
      BY <2>1, <3>2, CreateFileTree
    <3>6. \A f \in c.torn \cup {c.disk} : Grown(TreeIn(d), TreeIn(f))
      BY <2>1, <3>5, GrowsOn
    <3> HIDE DEF r, c, e
    <3>7. /\ r.disk = c.disk /\ r.id = c.id /\ r.panic = c.panic
          /\ r.torn = c.torn \cup o.torn \cup {o.disk} /\ IsOutcome(r)
      BY <3>3, <3>4 DEF LeavesSound, IsOutcome
    <3>8. Good(r)
      BY <2>1, <3>3, <3>6, <3>7 DEF LeavesSound, LeavesNames, LeavesGrown, e
    <3>9. r \in X
      BY <1>4, <3>3, <3>7, <3>8
    <3> QED
      BY <3>9 DEF r
  <2>6. CASE i # -1 /\ Find(e, i, name) = 0 /\ ~creates
    <3>1. r = Fail(o)
      BY <2>6, Zenon DEF MakeTurn
    <3> HIDE DEF r
    <3>2. r = [o EXCEPT !.id = -1]
      BY <3>1, Zenon DEF Fail
    <3>3. r \in X
      BY <2>2, <3>2
    <3> QED
      BY <3>3 DEF r
  <2> QED
    BY <2>3, <2>4, <2>5, <2>6
<1>7. MakeDirectory(d, path, create, slash) \in X
  BY <1>5, <1>6, MakeDirectoryStays, Zenon
<1> QED
  BY <1>3, <1>7
-----------------------------------------------------------------------------
(***************************************************************************)
(* What the tree becomes is what the abstract one may become.              *)
(***************************************************************************)
LEMMA TreeNames ==
  ASSUME NEW d, Sound(d), NamesSound(d), NEW e \in TreeIn(d).entries
  PROVE  /\ e.File # 0 /\ e.Dir \in TreeIn(d).directories
         /\ \A f \in TreeIn(d).entries :
              (e.Dir = f.Dir /\ e.Name = f.Name) \/ e.File = f.File => e = f
<1> DEFINE R == Reaches(d)
<1>1. /\ TreeIn(d).entries = {y \in NamedIn(d) : y.Dir \in R}
      /\ TreeIn(d).directories = {i \in R : d.Inode[i].Type = "FT_DIRECTORY"}
  BY DEF TreeIn, Part, Reaches
<1> HIDE DEF R
<1>2. e \in NamedIn(d) /\ e.Dir \in R
  BY <1>1
<1>3. \A f \in TreeIn(d).entries : f \in NamedIn(d)
  BY <1>1
<1> QED
  BY <1>1, <1>2, <1>3, NamedAreSound DEF IsDirectory

LEMMA OneMoreIsAdded ==
  ASSUME NEW d, NEW e, Sound(e), NamesSound(e), NEW x,
         OneMore(TreeIn(d), TreeIn(e), x, "FT_FILE")
  PROVE  FT!Add(TreeIn(d), TreeIn(e))
<1> DEFINE s == TreeIn(d)
           t == TreeIn(e)
           N == t.entries \ s.entries
<1>1. /\ x \notin s.entries /\ t.entries = s.entries \cup {x}
      /\ t.directories = s.directories /\ t.files = s.files \cup {x.File} /\ t.text = s.text
  BY DEF OneMore
<1>2. \A y \in t.entries :
        /\ y.File # 0 /\ y.Dir \in t.directories
        /\ \A f \in t.entries : (y.Dir = f.Dir /\ y.Name = f.Name) \/ y.File = f.File => y = f
  BY TreeNames
<1> HIDE DEF s, t
<1>3. N = {x} /\ {y.File : y \in N} = {x.File} /\ Cardinality(N) = 1
  BY <1>1, FS_Singleton
<1>4. FT!Fresh(N, s, t)
  BY <1>1, <1>2, <1>3 DEF FT!Fresh
<1>5. FT!Cardinality(N) = Cardinality(N)
  BY Zenon DEF FT!Cardinality, Cardinality
<1>6. FT!Add(s, t)
  BY <1>1, <1>3, <1>4, <1>5 DEF FT!Add
<1> QED
  BY <1>6 DEF s, t

LEMMA GrownIsAdded ==
  ASSUME NEW d, NEW e, Sound(e), NamesSound(e), Grown(TreeIn(d), TreeIn(e))
  PROVE  TreeIn(e) = TreeIn(d) \/ FT!Add(TreeIn(d), TreeIn(e))
<1> DEFINE s == TreeIn(d)
           t == TreeIn(e)
           N == t.entries \ s.entries
<1>1. /\ s.entries \subseteq t.entries
      /\ t.directories = s.directories \cup {x.File : x \in N}
      /\ t.files = s.files /\ t.text = s.text
  BY DEF Grown
<1>2. \A y \in t.entries :
        /\ y.File # 0 /\ y.Dir \in t.directories
        /\ \A f \in t.entries : (y.Dir = f.Dir /\ y.Name = f.Name) \/ y.File = f.File => y = f
  BY TreeNames
<1>3. /\ s = [entries |-> s.entries, directories |-> s.directories,
              files |-> s.files, text |-> s.text]
      /\ t = [entries |-> t.entries, directories |-> t.directories,
              files |-> t.files, text |-> t.text]
  BY DEF TreeIn, Part
<1> HIDE DEF s, t
<1>4. CASE N = {}
  <2>1. t.entries = s.entries /\ t.directories = s.directories
    BY <1>1, <1>4
  <2>2. t = s
    BY <1>1, <1>3, <2>1
  <2> QED
    BY <2>2 DEF s, t
<1>5. CASE N # {}
  <2>1. \A y \in N : y.Dir \in s.directories \/ \E o \in N : o.File = y.Dir
    BY <1>1, <1>2
  <2>2. FT!Fresh(N, s, t)
    BY <1>1, <1>2, <2>1 DEF FT!Fresh
  <2>3. FT!Add(s, t)
    BY <1>1, <1>5, <2>2 DEF FT!Add
  <2> QED
    BY <2>3 DEF s, t
<1> QED
  BY <1>4, <1>5
-----------------------------------------------------------------------------
(***************************************************************************)
(* Disks that differ in what one file is, and in no block of another.      *)
(***************************************************************************)
OneFile(d, e, i) ==
  /\ e.InodeBitMap = d.InodeBitMap /\ IsFile(d, i) /\ IsFile(e, i)
  /\ \A j \in Inodes : j # i =>
       /\ e.Inode[j] = d.Inode[j]
       /\ \A k \in NumbersAt(d, j) : /\ e.Data[BlockAt(d, j, k)] = d.Data[BlockAt(d, j, k)]
                                     /\ e.Text[BlockAt(d, j, k)] = d.Text[BlockAt(d, j, k)]

LEMMA OneFileStill ==
  ASSUME NEW d, NEW e, NEW f, NEW i, OneFile(d, e, i), OneFile(e, f, i)
  PROVE  OneFile(d, f, i)
<1>1. \A j \in Inodes : j # i => /\ e.Inode[j] = d.Inode[j] /\ NumbersAt(e, j) = NumbersAt(d, j)
                                 /\ \A k : BlockAt(e, j, k) = BlockAt(d, j, k)
  BY DEF OneFile, NumbersAt, BlockAt
<1> QED
  BY <1>1 DEF OneFile

LEMMA OtherTexts ==
  ASSUME NEW d, Sound(d), TextsTyped(d), NEW e, NEW i, OneFile(d, e, i), NEW j \in Inodes, j # i
  PROVE  TextOf(e, j) = TextOf(d, j)
<1> DEFINE size == d.Inode[j].Size
           n == BlocksOf(size) * BlockSize
<1>1. size \in Sizes /\ e.Inode[j] = d.Inode[j]
  BY NodeSizes DEF Sound, OneFile
<1>2. n \in Nat
  <2>1. 1 \in Nat \ {0} /\ BlockSize \in Nat
    BY Constants
  <2>2. BlocksOf(size) \in Nat
    BY <1>1, <2>1, CellNumbers
  <2> QED
    BY <2>1, <2>2
<1>3. ASSUME NEW p \in 1 .. n
      PROVE  CellAt(e, j, p) = CellAt(d, j, p)
  <2>1. (p - 1) \div BlockSize \in NumbersAt(d, j)
    BY <1>1, <1>2, <1>3, CellNumbers DEF NumbersAt
  <2>2. BlockAt(e, j, (p - 1) \div BlockSize) = BlockAt(d, j, (p - 1) \div BlockSize)
    BY <1>1 DEF BlockAt
  <2> QED
    BY <2>1, <2>2 DEF CellAt, OneFile
<1>4. /\ Cells(e, j) = [p \in 1 .. n |-> CellAt(e, j, p)]
      /\ Cells(d, j) = [p \in 1 .. n |-> CellAt(d, j, p)]
  BY <1>1 DEF Cells, CellAt, BlockAt
<1>5. Cells(e, j) = Cells(d, j)
  BY <1>3, <1>4
<1> QED
  BY <1>1, <1>5, Zenon DEF TextOf

LEMMA OneFileNames ==
  ASSUME NEW d, NEW e, NEW i, OneFile(d, e, i), NEW j \in Inodes, NEW y
  PROVE  NamesAt(e, j, y) <=> NamesAt(d, j, y)
<1>1. CASE j = i
  BY <1>1 DEF NamesAt, Counted, HasName, IsDirectory, OneFile, IsFile
<1>2. CASE j # i
  <2>1. /\ e.Inode[j] = d.Inode[j] /\ NumbersAt(e, j) = NumbersAt(d, j)
        /\ IsDirectory(e, j) = IsDirectory(d, j)
    BY <1>2 DEF OneFile, NumbersAt, IsDirectory
  <2>2. \A k \in NumbersAt(d, j), s \in Slots : EntryIn(e, j, k, s) = EntryIn(d, j, k, s)
    BY <1>2, <2>1 DEF OneFile, EntryIn, BlockAt
  <2>3. \A k \in NumbersAt(d, j), s \in Slots :
          /\ Counted(e, j, k, s) <=> Counted(d, j, k, s)
          /\ NameAt(e, j, k, s) = NameAt(d, j, k, s)
    BY <2>1, <2>2 DEF Counted, HasName, NameAt
  <2> QED
    BY <2>1, <2>3 DEF NamesAt
<1> QED
  BY <1>1, <1>2

\* Only the text of file i is another one.
NewText(s, t, i, text) ==
  /\ i \in s.files /\ t.text = [s.text EXCEPT ![i] = text]
  /\ t.entries = s.entries /\ t.directories = s.directories /\ t.files = s.files

LEMMA OneFileTree ==
  ASSUME NEW d, Sound(d), NamesSound(d), TextsTyped(d), NEW e, Sound(e), NamesSound(e),
         NEW i \in Inodes, OneFile(d, e, i)
  PROVE  /\ TextOf(e, i) = TextOf(d, i) => TreeIn(e) = TreeIn(d)
         /\ \/ TreeIn(e) = TreeIn(d)
            \/ NewText(TreeIn(d), TreeIn(e), i, TextOf(e, i)) /\ TreeIn(d).text[i] = TextOf(d, i)
<1> DEFINE R == Reaches(d)
<1>1. R \subseteq d.InodeBitMap /\ R \subseteq Inodes
  BY ReachesIs
<1>2. \A j \in R : \A y : NamesAt(e, j, y) <=> NamesAt(d, j, y)
  BY <1>1, OneFileNames
<1>3. \A j \in Inodes : j # i => SameAt(d, e, j)
  BY OtherTexts DEF SameAt, OneFile
<1>4. e.InodeBitMap = d.InodeBitMap /\ d.Inode[i].Type = "FT_FILE" /\ e.Inode[i].Type = "FT_FILE"
  BY DEF OneFile, IsFile
<1> HIDE DEF R
<1>5. ASSUME i \notin R \/ TextOf(e, i) = TextOf(d, i) PROVE TreeIn(e) = TreeIn(d)
  <2>1. \A j \in R : SameAt(d, e, j) /\ j \in e.InodeBitMap
    BY <1>1, <1>3, <1>4, <1>5 DEF SameAt
  <2> QED
    BY <1>2, <2>1, SameTree DEF R
<1>6. ASSUME i \in R
      PROVE  NewText(TreeIn(d), TreeIn(e), i, TextOf(e, i)) /\ TreeIn(d).text[i] = TextOf(d, i)
  <2>1. \A y : y.Dir \in R => (y \in NamedIn(e) <=> y \in NamedIn(d))
    BY <1>1, <1>2, <1>4, NamedByDirectory
  <2>2. Reaches(e) = R
    BY <2>1, SameReaches DEF R
  <2>3. TreeIn(d) = Part(d, NamedIn(d), R) /\ TreeIn(e) = Part(e, NamedIn(e), R)
    BY <2>2 DEF TreeIn, Reaches, R
  <2>4. /\ {y \in NamedIn(e) : y.Dir \in R} = {y \in NamedIn(d) : y.Dir \in R}
        /\ {j \in R : e.Inode[j].Type = "FT_DIRECTORY"} = {j \in R : d.Inode[j].Type = "FT_DIRECTORY"}
        /\ {j \in R : e.Inode[j].Type = "FT_FILE"} = {j \in R : d.Inode[j].Type = "FT_FILE"}
    BY <1>1, <1>3, <1>4, <2>1 DEF SameAt
  <2> DEFINE old == [j \in Inodes |-> IF j \in R /\ d.Inode[j].Type = "FT_FILE" THEN TextOf(d, j) ELSE <<>>]
             new == [j \in Inodes |-> IF j \in R /\ e.Inode[j].Type = "FT_FILE" THEN TextOf(e, j) ELSE <<>>]
  <2>5. new = [old EXCEPT ![i] = TextOf(e, i)] /\ old[i] = TextOf(d, i)
    BY <1>3, <1>4, <1>6 DEF SameAt
  <2>6. i \in {j \in R : d.Inode[j].Type = "FT_FILE"}
    BY <1>4, <1>6
  <2> QED
    BY <2>3, <2>4, <2>5, <2>6 DEF Part, NewText
<1> QED
  BY <1>5, <1>6

LEMMA NewTextIsWritten ==
  ASSUME NEW d, NEW e, NEW i \in Inodes, NEW text \in Texts, NEW new,
         new = text \/ new = TreeIn(d).text[i] \o text, NewText(TreeIn(d), TreeIn(e), i, new)
  PROVE  FT!Write(TreeIn(d), TreeIn(e))
<1> DEFINE s == TreeIn(d)
           t == TreeIn(e)
<1> HIDE DEF s, t
<1>1. /\ i \in s.files /\ t.text = [s.text EXCEPT ![i] = new]
      /\ t.entries = s.entries /\ t.directories = s.directories /\ t.files = s.files
      /\ new = text \/ new = s.text[i] \o text
  BY DEF s, t, NewText
<1>2. \A part \in {"entries", "directories", "files"} : t[part] = s[part]
  BY <1>1
<1>3. \/ t.text = [s.text EXCEPT ![i] = text]
      \/ t.text = [s.text EXCEPT ![i] = @ \o text]
  BY <1>1
<1>4. FT!Write(s, t)
  BY <1>1, <1>2, <1>3 DEF FT!Write
<1> QED
  BY <1>4 DEF s, t
-----------------------------------------------------------------------------
(***************************************************************************)
(* Clearing and appending change one file; the text of it is empty then,   *)
(* and has one more at its end when the size is written, not before.       *)
(***************************************************************************)
LEMMA ClearOneFile ==
  ASSUME NEW d, Sound(d), NEW whole, TextSound(d, whole), NEW i \in Inodes, IsFile(d, i),
         NEW e, e = Clear(d, i).disk
  PROVE  /\ OneFile(d, e, i) /\ Sound(e) /\ TextSound(e, whole)
         /\ e.Inode[i].Size = 0 /\ TextOf(e, i) = <<>>
<1>1. Sound(e) /\ TextSound(e, whole) /\ Cleared(d, i, e)
  BY ClearSafe, ClearTexts, ClearIs
<1>2. /\ e.InodeBitMap = d.InodeBitMap /\ IsFile(e, i) /\ e.Inode[i].Size = 0
      /\ \A j \in Inodes : j # i => e.Inode[j] = d.Inode[j]
      /\ \A b \in Blocks : b \notin BlocksUsedBy(d, i) => e.Data[b] = d.Data[b] /\ e.Text[b] = d.Text[b]
  BY <1>1 DEF Cleared, IsFile, TextsLeft
<1>3. ASSUME NEW j \in Inodes, j # i, NEW k \in NumbersAt(d, j)
      PROVE  BlockAt(d, j, k) \in Blocks /\ BlockAt(d, j, k) \notin BlocksUsedBy(d, i)
  BY <1>3 DEF Sound, DisksWith, BlocksUsedBy
<1>4. OneFile(d, e, i)
  BY <1>2, <1>3 DEF OneFile
<1>5. TextOf(e, i) = <<>>
  BY <1>1, <1>2, EmptyText DEF TextSound, TextsTyped
<1> QED
  BY <1>1, <1>2, <1>4, <1>5

LEMMA AppendOneFile ==
  ASSUME NEW d, Sound(d), TextsTyped(d), NEW i \in Inodes, IsFile(d, i),
         NumberOf(d, i) < INODE_DIRECT_BLOCKS,
         NEW text \in Texts, Fits(d.Inode[i].Size, text), NEW block \in Blocks,
         NeedsBlock(d, i) => block \notin d.DataBitMap,
         ~NeedsBlock(d, i) => block = BlockAt(d, i, NumberOf(d, i)),
         NEW f \in Appended(d, i, block, text)
  PROVE  OneFile(d, f, i)
<1> DEFINE len == Len(text)
           node == AppendedNode(d, i, block, len)
           q == NumberOf(d, i)
           marked == [d.Text EXCEPT ![block] = Marked(@, d.Inode[i].Size, text)]
<1>1. len \in Nat /\ (SizeWithMark(d.Inode[i].Size) % BlockSize) + len <= BlockSize
  BY TextHasLength DEF Fits
<1>2. Appends(d, f, i, block, len)
  BY AppendDisks
<1>3. /\ node.Type = "FT_FILE"
      /\ NeedsBlock(d, i) <=> q \notin NumbersAt(d, i)
  BY <1>1, AppendedNodeIs DEF IsFile
<1>4. f.InodeBitMap = d.InodeBitMap /\ f.Data = d.Data
  BY <1>1, <1>2, AppendSafe DEF IsFile
<1>5. f.Text = d.Text \/ f.Text = marked
  BY AppendedTexts DEF TextsTyped, Appended
<1> HIDE DEF node, marked, len
<1>6. /\ \A j \in Inodes : j # i => f.Inode[j] = d.Inode[j]
      /\ f.Inode[i] = d.Inode[i] \/ f.Inode[i] = node
  <2>1. d.Inode \in [Inodes -> NodeTypes]
    BY DEF Sound, DisksWith
  <2>2. f.Inode = d.Inode \/ f.Inode = [d.Inode EXCEPT ![i] = node]
    BY <1>2, Zenon DEF Appends, InodeLinked, node
  <2> QED
    BY <2>1, <2>2
<1>7. IsFile(f, i)
  BY <1>3, <1>6 DEF IsFile
<1>8. ASSUME NEW j \in Inodes, j # i, NEW k \in NumbersAt(d, j)
      PROVE  f.Text[BlockAt(d, j, k)] = d.Text[BlockAt(d, j, k)]
  <2>1. BlockAt(d, j, k) # block
    BY <1>3, <1>8, OnlyThere DEF q
  <2>2. BlockAt(d, j, k) \in Blocks
    BY DEF Sound, DisksWith
  <2> QED
    BY <1>5, <2>1, <2>2 DEF marked, TextsTyped
<1> QED
  BY <1>4, <1>6, <1>7, <1>8 DEF OneFile

\* What Marked writes.
LEMMA MarkedText ==
  ASSUME NEW cells \in BlockTexts, NEW size \in Nat, NEW text \in Texts, NEW start \in Nat,
         start = (SizeWithMark(size) % BlockSize) - 1, NEW k \in 1 .. Len(text),
         start + k - 1 \in 0 .. BlockSize - 1
  PROVE  Marked(cells, size, text)[start + k - 1] = text[k]
<1>1. text \in Seq(STRING \ {"0", "EOF"}) /\ BlockSize \in Nat
  BY ConstantsAssumption, Constants
<1>2. Len(text) \in Nat /\ DOMAIN text = 1 .. Len(text)
  BY <1>1
<1>3. Marked(cells, size, text) =
        [p \in 0 .. BlockSize - 1 |->
               IF p - start + 1 \in DOMAIN text THEN text[p - start + 1]
               ELSE IF p = start + Len(text) THEN "EOF" ELSE cells[p]]
  BY DEF Marked, BlockTexts
<1>4. (start + k - 1) - start + 1 = k
  BY <1>2
<1> QED
  BY <1>2, <1>3, <1>4

LEMMA AppendedText ==
  ASSUME NEW d, Sound(d), TextsTyped(d), NEW i \in Inodes, IsFile(d, i),
         NumberOf(d, i) < INODE_DIRECT_BLOCKS,
         NEW text \in Texts, Fits(d.Inode[i].Size, text), ~Overrun, NEW block \in Blocks,
         NeedsBlock(d, i) => block \notin d.DataBitMap,
         ~NeedsBlock(d, i) => block = BlockAt(d, i, NumberOf(d, i)),
         NEW e2, e2 = TextWritten(d, i, block, text), Sound(e2), TextsTyped(e2),
         NEW e3, e3 = TextLinked(d, i, block, text), Sound(e3), TextsTyped(e3)
  PROVE  /\ TextOf(BlockTaken(d, block), i) = TextOf(d, i)
         /\ TextOf(e2, i) = TextOf(d, i)
         /\ TextOf(e3, i) = TextOf(d, i) \o text
<1> DEFINE size == d.Inode[i].Size
           q == NumberOf(d, i)
           start == (SizeWithMark(size) % BlockSize) - 1
           len == Len(text)
           node == AppendedNode(d, i, block, len)
           cells == Marked(d.Text[block], size, text)
           marked == [d.Text EXCEPT ![block] = Marked(@, size, text)]
           old == TextOf(d, i)
           n == IF size = 0 THEN 0 ELSE size - 1
<1>1. /\ d.Text \in [Blocks -> BlockTexts] /\ size \in Sizes /\ size \in Nat
      /\ d.Inode \in [Inodes -> NodeTypes] /\ NumbersAt(d, i) \subseteq 0 .. INODE_DIRECT_BLOCKS - 1
  <2>1. size \in Sizes /\ NumbersAt(d, i) \subseteq 0 .. INODE_DIRECT_BLOCKS - 1
    BY NodeSizes DEF Sound
  <2>2. size \in Nat
    BY <2>1, Constants DEF Sizes
  <2>3. d.Inode \in [Inodes -> NodeTypes]
    BY DEF Sound, DisksWith
  <2> QED
    BY <2>1, <2>2, <2>3 DEF TextsTyped
<1>2. /\ (SizeWithMark(size) % BlockSize) + len <= BlockSize
      /\ (SizeWithMark(size) % BlockSize) # 0
      /\ text \in Seq(Chars) /\ len \in Nat /\ len = Len(text)
  <2>1. text \in Seq(STRING \ {"0", "EOF"})
    BY ConstantsAssumption
  <2> QED
    BY <2>1 DEF Fits, Chars
<1>3. /\ start \in Nat /\ q \in Nat /\ SizeWithMark(size) = q * BlockSize + start + 1
      /\ size = 0 => start = 0 /\ q = 0
      /\ size # 0 => size = SizeWithMark(size) /\ size % BlockSize # 0
      /\ start + 1 + len <= BlockSize
  <2> DEFINE l == SizeWithMark(size) % BlockSize
  <2>1. /\ start \in Nat /\ q \in Nat /\ SizeWithMark(size) = q * BlockSize + start + 1
        /\ SizeWithMark(size) \in Nat
        /\ size = 0 => start = 0 /\ q = 0
        /\ size # 0 => size = SizeWithMark(size) /\ size % BlockSize # 0
    BY <1>1, <1>2, MarkAt DEF NumberOf
  <2>2. l \in Nat /\ BlockSize \in Nat \ {0}
    BY <2>1, Constants
  <2>3. start = l - 1 /\ l + len <= BlockSize
    BY <1>2
  <2>4. len \in Nat
    BY <1>2
  <2> HIDE DEF l, start, len, size
  <2>5. start + 1 + len <= BlockSize
    BY <2>2, <2>3, <2>4
  <2> QED
    BY <2>1, <2>5
<1>4. n \in Nat /\ n = q * BlockSize + start /\ SizeWithMark(size) = n + 1
  <2>1. q * BlockSize \in Nat
    <3>1. q \in Nat
      BY <1>3
    <3> QED
      BY <3>1, Constants
  <2>2. CASE size = 0
    BY <1>3, <2>1, <2>2, Constants
  <2>3. CASE size # 0
    BY <1>1, <1>3, <2>1, <2>3
  <2> QED
    BY <2>2, <2>3
<1>5. /\ node.Type = "FT_FILE" /\ node.Size = SizeWithMark(size) + len
      /\ NeedsBlock(d, i) <=> q \notin NumbersAt(d, i)
      /\ node.DirectBlock[q] = block
      /\ \A k \in 0 .. INODE_DIRECT_BLOCKS - 1 : k # q => node.DirectBlock[k] = BlockAt(d, i, k)
  BY <1>1, <1>2, AppendedNodeIs DEF IsFile
<1>6. \A b \in Blocks : marked[b] = IF b = block THEN cells ELSE d.Text[b]
  BY <1>1
<1>7. /\ cells \in BlockTexts
      /\ \A r \in 0 .. BlockSize - 1 : r < start => cells[r] = d.Text[block][r]
  <2>1. d.Text[block] \in BlockTexts
    BY <1>1
  <2> HIDE DEF cells, size
  <2> QED
    BY <1>1, <1>3, <2>1, MarkedIs DEF cells
<1>8. ASSUME NEW k \in 1 .. len PROVE cells[start + k - 1] = text[k]
  <2>1. start + k - 1 \in 0 .. BlockSize - 1 /\ d.Text[block] \in BlockTexts
    <3> HIDE DEF start, len
    <3>1. start + k - 1 \in 0 .. BlockSize - 1
      BY <1>2, <1>3, <1>8, Constants
    <3> QED
      BY <1>1, <3>1
  <2> HIDE DEF size
  <2> QED
    BY <1>1, <1>3, <1>8, <2>1, MarkedText
<1>9. /\ e2.Text = marked /\ e2.Inode = d.Inode /\ e3.Text = marked
  BY <1>1, AppendedTexts
<1>10. e3.Inode[i] = node
  <2>1. e3 \in Appended(d, i, block, text)
    BY DEF Appended
  <2>2. e3.Inode = InodeLinked(d, i, block, len)
    BY <2>1, AppendDisks
  <2> HIDE DEF node
  <2>3. e3.Inode = [d.Inode EXCEPT ![i] = node]
    BY <2>2 DEF InodeLinked, node
  <2> QED
    BY <1>1, <2>3
<1> HIDE DEF start, len, node, cells, marked, n
\* What is before the old mark, in whichever inode it is read by.
<1>11. ASSUME NEW e, e.Text = marked, NEW p \in 1 .. n,
              \A k \in NumbersAt(d, i) : BlockAt(e, i, k) = BlockAt(d, i, k)
       PROVE  CellAt(e, i, p) = CellAt(d, i, p)
  <2> DEFINE k == (p - 1) \div BlockSize
             r == (p - 1) % BlockSize
             b == BlockAt(d, i, k)
  <2>1. p \in 1 .. size /\ p < size /\ size # 0
    BY <1>1 DEF n
  <2>2. /\ k \in NumbersAt(d, i) /\ r \in 0 .. BlockSize - 1 /\ k \in Nat
        /\ p - 1 = k * BlockSize + r
    BY <1>1, <2>1, CellNumbers DEF NumbersAt
  <2>3. b \in Blocks
    BY <2>2 DEF Sound, DisksWith
  <2>4. CellAt(e, i, p) = marked[b][r] /\ CellAt(d, i, p) = d.Text[b][r]
    BY <1>11, <2>2 DEF CellAt
  <2>5. b = block => k = q
    BY <1>5, <2>2, OnlyThere
  <2> HIDE DEF k, r, b
  <2>6. b # block \/ r < start
    <3>1. CASE k = q
      <4>1. q * BlockSize \in Nat
        BY <1>3, Constants
      <4>2. p - 1 = q * BlockSize + r /\ p <= n
        BY <1>4, <2>2, <3>1
      <4> QED
        BY <1>3, <1>4, <2>2, <4>1, <4>2, Constants
    <3> QED
      BY <2>5, <3>1
  <2> QED
    BY <1>6, <1>7, <2>2, <2>3, <2>4, <2>6
<1>12. /\ old \in Seq(Chars) /\ Len(old) = n /\ \A p \in 1 .. n : old[p] = CellAt(d, i, p)
  BY <1>1, TextOfIs DEF n
<1> HIDE DEF old
<1>13. TextOf(BlockTaken(d, block), i) = old
  BY <1>1, AppendedTexts, KeptText DEF old
<1>14. TextOf(e2, i) = old
  <2>1. /\ TextOf(e2, i) \in Seq(Chars) /\ Len(TextOf(e2, i)) = n
        /\ \A p \in 1 .. n : TextOf(e2, i)[p] = CellAt(e2, i, p)
    BY <1>1, <1>9, TextOfIs DEF n
  <2>2. \A p \in 1 .. n : CellAt(e2, i, p) = CellAt(d, i, p)
    BY <1>9, <1>11 DEF BlockAt
  <2> QED
    BY <1>12, <2>1, <2>2
<1>15. TextOf(e3, i) = old \o text
  <2> DEFINE new == TextOf(e3, i)
  <2>1. e3.Inode[i].Size = n + 1 + len
    BY <1>4, <1>5, <1>10
  <2>2. /\ new \in Seq(Chars) /\ Len(new) = n + len
        /\ \A p \in 1 .. n + len : new[p] = CellAt(e3, i, p)
    <3>1. n + len = IF e3.Inode[i].Size = 0 THEN 0 ELSE e3.Inode[i].Size - 1
      BY <1>2, <1>4, <2>1
    <3> HIDE DEF new
    <3> QED
      BY <3>1, TextOfIs DEF new
  <2>3. \A k : BlockAt(e3, i, k) = node.DirectBlock[k]
    BY <1>10 DEF BlockAt
  <2>4. \A k \in NumbersAt(d, i) : BlockAt(e3, i, k) = BlockAt(d, i, k)
    <3>1. q \in NumbersAt(d, i) => BlockAt(d, i, q) = block
      BY <1>5
    <3> QED
      BY <1>1, <1>5, <2>3, <3>1
  <2>5. \A p \in 1 .. n : CellAt(e3, i, p) = CellAt(d, i, p)
    BY <1>9, <1>11, <2>4
  <2>10. len \in Nat /\ n \in Nat /\ start \in Nat /\ start + 1 + len <= BlockSize
    BY <1>2, <1>3, <1>4
  <2>6. ASSUME NEW k \in 1 .. len PROVE CellAt(e3, i, n + k) = text[k]
    <3> DEFINE r == start + k - 1
    <3>1. r \in Nat /\ r < BlockSize /\ r \in 0 .. BlockSize - 1
      BY <2>6, <2>10, Constants
    <3>2. (n + k) - 1 = q * BlockSize + r
      <4>1. q * BlockSize \in Nat
        BY <1>3, Constants
      <4> QED
        BY <1>4, <2>6, <2>10, <4>1
    <3> HIDE DEF r
    <3>3. ((n + k) - 1) \div BlockSize = q /\ ((n + k) - 1) % BlockSize = r
      <4>1. q \in Nat /\ BlockSize \in Nat \ {0}
        BY <1>3, Constants
      <4>2. (q * BlockSize + r) \div BlockSize = q /\ (q * BlockSize + r) % BlockSize = r
        BY <3>1, <4>1, DivisionUnique
      <4> QED
        BY <3>2, <4>2, Zenon
    <3>4. CellAt(e3, i, n + k) = marked[block][r]
      <4>1. CellAt(e3, i, n + k) = e3.Text[BlockAt(e3, i, q)][r]
        BY <3>3, Zenon DEF CellAt
      <4> QED
        BY <1>5, <1>9, <2>3, <4>1, Zenon
    <3> QED
      BY <1>6, <1>8, <2>6, <3>4 DEF r
  <2> HIDE DEF new
  <2>7. old \o text \in Seq(Chars) /\ Len(old \o text) = n + len
    BY <1>2, <1>12
  <2>8. ASSUME NEW p \in 1 .. n + len PROVE new[p] = (old \o text)[p]
    <3>1. CASE p <= n
      BY <1>2, <1>4, <1>12, <2>2, <2>5, <3>1 
    <3>2. CASE n < p
      <4> DEFINE k == p - n
      <4>1. k \in 1 .. len /\ p = n + k
        BY <1>2, <1>4, <3>2
      <4>2. (old \o text)[p] = text[k]
        BY <1>2, <1>4, <1>12, <3>2 
      <4> HIDE DEF k
      <4> QED
        BY <2>2, <2>6, <4>1, <4>2
    <3>3. p <= n \/ n < p
      BY <2>8, <2>10
    <3> QED
      BY <3>1, <3>2, <3>3
  <2>9. new = old \o text
    BY <2>2, <2>7, <2>8
  <2> QED
    BY <2>9 DEF new
<1> QED
  BY <1>13, <1>14, <1>15 DEF old
-----------------------------------------------------------------------------
\* The tree stays, or becomes what the abstract one may become.
TreeStep(s, t) == t = s \/ FT!Add(s, t) \/ FT!Write(s, t)

LEMMA AppendTree ==
  ASSUME NEW d, Sound(d), NamesSound(d), NEW whole, TextSound(d, whole),
         NEW i \in Inodes, IsFile(d, i), NumberOf(d, i) < INODE_DIRECT_BLOCKS,
         NEW text \in Texts, Fits(d.Inode[i].Size, text), ~Overrun, NEW block \in Blocks,
         NeedsBlock(d, i) => block \notin d.DataBitMap,
         ~NeedsBlock(d, i) => block = BlockAt(d, i, NumberOf(d, i)),
         NEW f \in Appended(d, i, block, text)
  PROVE  /\ OneFile(d, f, i) /\ Sound(f) /\ NamesSound(f)
         /\ f \in {BlockTaken(d, block), TextWritten(d, i, block, text)}
              => TextOf(f, i) = TextOf(d, i)
         /\ f = TextLinked(d, i, block, text) => TextOf(f, i) = TextOf(d, i) \o text
<1>1. TextsTyped(d) /\ Len(text) \in Nat
      /\ (SizeWithMark(d.Inode[i].Size) % BlockSize) + Len(text) <= BlockSize
  BY TextHasLength DEF TextSound, TextsTyped, Fits
<1>2. ASSUME NEW g \in Appended(d, i, block, text) PROVE Sound(g) /\ NamesSound(g)
  <2>1. Appends(d, g, i, block, Len(text))
    BY AppendDisks
  <2> QED
    BY <1>1, <2>1, AppendSafe DEF IsFile
<1>3. OneFile(d, f, i)
  BY <1>1, AppendOneFile
<1> DEFINE e1 == BlockTaken(d, block)
           e2 == TextWritten(d, i, block, text)
           e3 == TextLinked(d, i, block, text)
<1>4. Sound(e2) /\ Sound(e3)
  BY <1>2 DEF Appended
<1>5. TextsTyped(e2) /\ TextsTyped(e3)
  BY AppendTexts DEF TextSound, TextsTyped
<1>6. TextOf(e1, i) = TextOf(d, i) /\ TextOf(e2, i) = TextOf(d, i) /\ TextOf(e3, i) = TextOf(d, i) \o text
  BY <1>1, <1>4, <1>5, AppendedText
<1>7. f = e1 \/ f = e2 \/ f = e3
  BY Zenon DEF Appended
<1> HIDE DEF e1, e2, e3
<1> QED
  BY <1>2, <1>3, <1>6, <1>7 DEF e1, e2, e3

(***************************************************************************)
(* WriteFileContent changes one text, with the size: a block for it is     *)
(* there, after the file was cleared, if its text was not empty.           *)
(***************************************************************************)
LEMMA WriteTree ==
  ASSUME NEW d, Sound(d), NamesSound(d), NEW whole, TextSound(d, whole),
         NEW i \in Inodes, IsFile(d, i), NEW text \in Texts, NEW trunc \in BOOLEAN,
         Fits(IF trunc THEN 0 ELSE d.Inode[i].Size, text), ~Overrun
  PROVE  LET o == WriteFileContent(d, i, text, trunc)
         IN  /\ TreeStep(TreeIn(d), TreeIn(o.disk))
             /\ ~trunc => \A f \in o.torn : TreeIn(f) = TreeIn(d)
<1> DEFINE o == WriteFileContent(d, i, text, trunc)
           cleared == IF trunc THEN Clear(d, i) ELSE Outcome({}, d, i, "none")
           e == cleared.disk
           block == IF NeedsBlock(e, i) THEN First(Blocks \ e.DataBitMap)
                                        ELSE BlockAt(e, i, NumberOf(e, i))
           e1 == BlockTaken(e, block)
           e2 == TextWritten(e, i, block, text)
           e3 == TextLinked(e, i, block, text)
<1>1. /\ OneFile(d, e, i) /\ Sound(e) /\ NamesSound(e) /\ TextSound(e, whole) /\ IsFile(e, i)
      /\ e.Inode[i].Size = IF trunc THEN 0 ELSE d.Inode[i].Size
      /\ TextOf(e, i) = IF trunc THEN <<>> ELSE TextOf(d, i)
      /\ trunc => e.DataBitMap = d.DataBitMap \ BlocksUsedBy(d, i)
      /\ ~trunc => e = d /\ cleared.torn \subseteq {}
  <2>1. CASE trunc
    <3>1. e = Clear(d, i).disk
      BY <2>1
    <3> HIDE DEF e, cleared
    <3>2. /\ OneFile(d, e, i) /\ Sound(e) /\ TextSound(e, whole)
          /\ e.Inode[i].Size = 0 /\ TextOf(e, i) = <<>>
      BY <3>1, ClearOneFile
    <3>3. e.DataBitMap = d.DataBitMap \ BlocksUsedBy(d, i)
      BY <3>1, ClearIs DEF Cleared, IsFile
    <3>4. NamesSound(e)
      BY <3>1, ClearSafe
    <3> QED
      BY <2>1, <3>2, <3>3, <3>4 DEF OneFile
  <2>2. CASE ~trunc
    <3>1. cleared = Outcome({}, d, i, "none")
      BY <2>2
    <3> DEFINE c == cleared
    <3> HIDE DEF c
    <3>2. c = Outcome({}, d, i, "none")
      BY <3>1, Zenon DEF c
    <3>3. c.disk = d /\ c.torn \subseteq {}
      BY <3>2, OutcomeIs
    <3>4. OneFile(d, d, i)
      BY DEF OneFile
    <3> QED
      BY <2>2, <3>3, <3>4 DEF c
  <2> QED
    BY <2>1, <2>2
<1>2. \/ /\ NeedsBlock(e, i) /\ e.DataBitMap = Blocks
         /\ \E m : o = Outcome(cleared.torn, e, -1, m)
      \/ /\ ~(NeedsBlock(e, i) /\ e.DataBitMap = Blocks)
         /\ o = Outcome(cleared.torn \cup {e, e1, e2}, e3, i, "none")
  BY Zenon DEF WriteFileContent, TextLinked, TextWritten, BlockTaken, NeedsBlock, NumberOf, BlockAt
<1> HIDE DEF o, e, cleared, e1, e2, e3
<1>3. CASE /\ NeedsBlock(e, i) /\ e.DataBitMap = Blocks
           /\ \E m : o = Outcome(cleared.torn, e, -1, m)
  <2>1. o.disk = e /\ o.torn \subseteq cleared.torn
    BY <1>3, OutcomeIs
  <2>2. TextOf(e, i) = TextOf(d, i)
    <3>1. CASE ~trunc
      BY <1>1, <3>1
    <3>2. CASE trunc /\ d.Inode[i].Size = 0
      BY <1>1, <3>2, EmptyText DEF TextSound, TextsTyped
    <3>3. CASE trunc /\ d.Inode[i].Size # 0
      <4>1. d.Inode[i].Size \in Sizes /\ d.Inode[i].Size \in Nat /\ d.DataBitMap \subseteq Blocks
        BY NodeSizes, Constants DEF Sound, DisksWith, Sizes
      <4>2. 1 \in Nat \ {0} /\ 1 <= d.Inode[i].Size
        BY <3>3, <4>1
      <4>3. PICK k \in NumbersAt(d, i) : TRUE
        BY <4>1, <4>2, CellNumbers DEF NumbersAt
      <4>4. BlockAt(d, i, k) \in BlocksUsedBy(d, i) /\ BlockAt(d, i, k) \in Blocks
        BY <4>1 DEF Sound, BlocksUsedBy
      <4> QED
        BY <1>1, <1>3, <3>3, <4>4
    <3> QED
      BY <3>1, <3>2, <3>3
  <2>3. TreeIn(e) = TreeIn(d)
    BY <1>1, <2>2, OneFileTree DEF TextSound, TextsTyped
  <2> QED
    BY <1>1, <2>1, <2>3 DEF o, TreeStep
<1>4. CASE /\ ~(NeedsBlock(e, i) /\ e.DataBitMap = Blocks)
           /\ o = Outcome(cleared.torn \cup {e, e1, e2}, e3, i, "none")
  <2>1. /\ NumberOf(e, i) < INODE_DIRECT_BLOCKS /\ Fits(e.Inode[i].Size, text)
        /\ e.DataBitMap \subseteq Blocks /\ Blocks \subseteq Nat
        /\ e.Inode[i].Size \in Sizes
    BY <1>1, NodeSizes DEF Fits, NumberOf, Sound, DisksWith, Blocks
  <2>2. /\ block \in Blocks
        /\ NeedsBlock(e, i) => block \notin e.DataBitMap
        /\ ~NeedsBlock(e, i) => block = BlockAt(e, i, NumberOf(e, i))
    <3>1. CASE NeedsBlock(e, i)
      <4>1. e.DataBitMap # Blocks
        BY <1>4, <3>1, Zenon
      <4>2. Blocks \ e.DataBitMap # {} /\ Blocks \ e.DataBitMap \subseteq Nat
        BY <2>1, <4>1
      <4>3. block = First(Blocks \ e.DataBitMap)
        BY <3>1
      <4>4. First(Blocks \ e.DataBitMap) \in Blocks \ e.DataBitMap
        BY <4>2, FirstIs
      <4> QED
        BY <3>1, <4>3, <4>4
    <3>2. CASE ~NeedsBlock(e, i)
      <4>1. block = BlockAt(e, i, NumberOf(e, i))
        BY <3>2
      <4>2. NumberOf(e, i) \in NumbersAt(e, i)
        <5>1. (SizeWithMark(e.Inode[i].Size) % BlockSize) + Len(text) <= BlockSize
          BY <2>1 DEF Fits
        <5> QED
          BY <2>1, <3>2, <5>1, NumbersOfText, TextHasLength DEF NeedsBlock, NumberOf, NumbersAt
      <4>3. BlockAt(e, i, NumberOf(e, i)) \in e.DataBitMap
        BY <1>1, <4>2 DEF Sound
      <4> QED
        BY <2>1, <3>2, <4>1, <4>3
    <3> QED
      BY <3>1, <3>2
  <2> HIDE DEF block
  <2>3. ASSUME NEW f \in {e1, e2, e3}
        PROVE  /\ OneFile(d, f, i) /\ Sound(f) /\ NamesSound(f)
               /\ f \in {e1, e2} => TextOf(f, i) = TextOf(e, i)
               /\ f = e3 => TextOf(f, i) = TextOf(e, i) \o text
    <3>1. f \in Appended(e, i, block, text)
      BY DEF Appended, e1, e2, e3
    <3>2. /\ OneFile(e, f, i) /\ Sound(f) /\ NamesSound(f)
          /\ f \in {e1, e2} => TextOf(f, i) = TextOf(e, i)
          /\ f = e3 => TextOf(f, i) = TextOf(e, i) \o text
      <4>1. /\ OneFile(e, f, i) /\ Sound(f) /\ NamesSound(f)
            /\ f \in {BlockTaken(e, block), TextWritten(e, i, block, text)}
                 => TextOf(f, i) = TextOf(e, i)
            /\ f = TextLinked(e, i, block, text) => TextOf(f, i) = TextOf(e, i) \o text
        BY <1>1, <2>1, <2>2, <3>1, AppendTree
      <4> QED
        BY <4>1, Zenon DEF e1, e2, e3
    <3> QED
      BY <1>1, <3>2, OneFileStill
  <2>4. o.disk = e3 /\ o.torn \subseteq cleared.torn \cup {e, e1, e2}
    BY <1>4, OutcomeIs
  <2>5. TreeStep(TreeIn(d), TreeIn(e3))
    <3>1. \/ TreeIn(e3) = TreeIn(d)
          \/ /\ NewText(TreeIn(d), TreeIn(e3), i, TextOf(e3, i))
             /\ TreeIn(d).text[i] = TextOf(d, i)
      BY <2>3, OneFileTree DEF TextSound, TextsTyped
    <3>2. TextOf(e3, i) = text \/ TextOf(e3, i) = TextOf(d, i) \o text
      <4>1. text \in Seq(STRING \ {"0", "EOF"})
        BY ConstantsAssumption
      <4>2. <<>> \o text = text
        BY <4>1
      <4> QED
        BY <1>1, <2>3, <4>2
    <3> QED
      BY <3>1, <3>2, NewTextIsWritten DEF TreeStep
  <2>6. ASSUME ~trunc, NEW f \in o.torn PROVE TreeIn(f) = TreeIn(d)
    <3>1. f \in {e1, e2} \/ f = d
      BY <1>1, <2>4, <2>6
    <3>2. CASE f \in {e1, e2}
      <4>1. TextOf(f, i) = TextOf(d, i)
        BY <1>1, <2>3, <2>6, <3>2
      <4> QED
        BY <2>3, <3>2, <4>1, OneFileTree DEF TextSound, TextsTyped
    <3> QED
      BY <3>1, <3>2
  <2> QED
    BY <2>4, <2>5, <2>6 DEF o
<1> QED
  BY <1>2, <1>3, <1>4
-----------------------------------------------------------------------------
(***************************************************************************)
(* A new root is out of reach of the old one.                              *)
(***************************************************************************)
LEMMA RootTree ==
  ASSUME NEW d, Sound(d), NamesSound(d), NEW id \in Inodes \ d.InodeBitMap, NEW e,
         NEW inode \in {d.Inode, InodesMade(d, id, "FT_DIRECTORY")},
         FieldsAre(e, d.Text, d.InodeBitMap \cup {id}, d.DataBitMap, inode, d.Data)
  PROVE  TreeIn(e) = TreeIn(d)
<1>1. Sound(e) /\ NamesSound(e)
  BY RootSafe
<1>2. /\ e.InodeBitMap = d.InodeBitMap \cup {id} /\ e.Inode = inode
      /\ e.Data = d.Data /\ e.Text = d.Text
  BY DEF FieldsAre, DisksWith
<1>3. Reaches(d) \subseteq d.InodeBitMap /\ Reaches(d) \subseteq Inodes
  BY ReachesIs
<1>4. ASSUME NEW j \in Reaches(d) PROVE e.Inode[j] = d.Inode[j]
  <2>1. d.Inode \in [Inodes -> NodeTypes] /\ j \in Inodes /\ j # id
    BY <1>3 DEF Sound, DisksWith
  <2> QED
    BY <1>2, <2>1 DEF InodesMade
<1>5. \A j \in Reaches(d) : SameAt(d, e, j)
  BY <1>2, <1>4, KeptText DEF SameAt
<1>6. ASSUME NEW j \in Reaches(d), NEW y PROVE NamesAt(e, j, y) <=> NamesAt(d, j, y)
  <2>1. NumbersAt(e, j) = NumbersAt(d, j) /\ IsDirectory(e, j) = IsDirectory(d, j)
    BY <1>4 DEF NumbersAt, IsDirectory
  <2>2. \A k, s : EntryIn(e, j, k, s) = EntryIn(d, j, k, s)
    BY <1>2, <1>4 DEF EntryIn
  <2>3. \A k, s : /\ Counted(e, j, k, s) <=> Counted(d, j, k, s)
                  /\ NameAt(e, j, k, s) = NameAt(d, j, k, s)
    BY <1>4, <2>1, <2>2 DEF Counted, HasName, NameAt
  <2> QED
    BY <2>1, <2>3 DEF NamesAt
<1> QED
  BY <1>1, <1>2, <1>3, <1>5, <1>6, SameTree

LEMMA InitializeTree ==
  ASSUME NEW d, Sound(d), NamesSound(d),
         NEW e \in InitializeFileSystem(d).torn \cup {InitializeFileSystem(d).disk}
  PROVE  TreeIn(e) = TreeIn(d)
<1> DEFINE o == InitializeFileSystem(d)
<1>1. \/ o.disk = d /\ o.torn \subseteq {}
      \/ \E id \in Inodes \ d.InodeBitMap :
           \E inode \in {d.Inode, InodesMade(d, id, "FT_DIRECTORY")} :
             FieldsAre(e, d.Text, d.InodeBitMap \cup {id}, d.DataBitMap, inode, d.Data)
  BY InitializeIs
<1> HIDE DEF o
<1>2. CASE o.disk = d /\ o.torn \subseteq {}
  BY <1>2 DEF o
<1> QED
  BY <1>1, <1>2, RootTree

\* An empty disk is an empty tree.
LEMMA InitTree ==
  ASSUME Init
  PROVE  FT!Init
<1>1. Sound(disk) /\ NamesSound(disk)
  BY InitNames DEF NamesInv, SoundInv
<1>2. /\ 0 \in Inodes /\ disk.Inode[0].Type = "FT_DIRECTORY"
      /\ \A i \in Inodes : disk.Inode[i].Size = 0
  <2> DEFINE inode == [i \in Inodes |->
                         newEmptyDiskInode(IF i = 0 THEN "FT_DIRECTORY" ELSE "FT_UNKNOWN")]
  <2>1. disk.Inode = inode
    BY DEF Init
  <2>2. 0 \in Inodes
    BY Constants
  <2>3. \A i \in Inodes : inode[i].Size = 0
    BY EmptyNode
  <2>4. inode[0].Type = "FT_DIRECTORY"
    BY <2>2, EmptyNode
  <2> QED
    BY <2>1, <2>2, <2>3, <2>4
<1>3. NamedIn(disk) = {}
  <2>1. \A i \in disk.InodeBitMap : NumbersAt(disk, i) = {}
    BY <1>1, <1>2, NumbersBound DEF NumbersAt, Sound, DisksWith
  <2>2. \A e : ~NamedAt(disk, e)
    BY <2>1 DEF NamedAt
  <2> QED
    BY <1>1, <2>2, NamedInIs
<1>4. Reaches(disk) = {0}
  <2>1. Closed(NamedIn(disk), {0})
    BY <1>3 DEF Closed
  <2> QED
    BY <1>1, <2>1, ReachesIs
<1>5. TreeIn(disk) = Part(disk, {}, {0})
  BY <1>3, <1>4 DEF TreeIn, Reaches
<1>6. TreeIn(disk) = [entries |-> {}, directories |-> {0}, files |-> {},
                      text |-> [i \in Inodes |-> <<>>]]
  BY <1>2, <1>5 DEF Part
<1> QED
  BY <1>6, TreeIs DEF FT!Init
-----------------------------------------------------------------------------
\* Every disk that a call leaves, whether it does all its writes or not, has a
\* tree that the abstract one may become.
LEMMA CallTree ==
  ASSUME NEW o, NEW call, NEW directory, Becomes(o, call, directory),
         TreeStep(TreeIn(disk), TreeIn(o.disk)),
         call \in Interruptible => \A e \in o.torn : TreeStep(TreeIn(disk), TreeIn(e))
  PROVE  TreeStep(Tree, Tree')
<1>1. TreeStep(TreeIn(disk), TreeIn(disk'))
  BY BecomesIs
<1> QED
  BY <1>1, TreeIs, NextTreeIs

LEMMA StepTree ==
  ASSUME Removable = {}, Interruptible \subseteq {"create", "append", "boot"}, ~Overrun,
         TextInv, NamesSound(disk), [Next]_vars
  PROVE  TreeStep(Tree, Tree')
<1>0. /\ Sound(disk) /\ NamesSound(disk) /\ currentDirectoryInodeID \in Inodes
      /\ TextSound(disk, clean) /\ TextsTyped(disk)
      /\ SoundInv /\ "truncate" \notin Interruptible
  BY DEF TextInv, SoundInv, TextSound, TextsTyped
<1>1. ASSUME NEW name \in Names, Touch(name) PROVE TreeStep(Tree, Tree')
  <2> DEFINE o == CreateFile(disk, currentDirectoryInodeID, name, "FT_FILE")
  <2>1. LeavesSound(o, disk.Text) /\ LeavesNames(o)
    BY <1>0, CreateFileSafe
  <2>2. \A e \in o.torn \cup {o.disk} : Sound(e) /\ NamesSound(e)
    BY <2>1 DEF LeavesSound, LeavesNames
  <2>3. \A e \in o.torn \cup {o.disk} :
          \/ TreeIn(e) = TreeIn(disk)
          \/ \E x : OneMore(TreeIn(disk), TreeIn(e), x, "FT_FILE")
    BY <1>0, CreateFileTree
  <2>4. Becomes(o, "create", currentDirectoryInodeID)
    BY <1>1 DEF Touch
  <2> HIDE DEF o
  <2>5. \A e \in o.torn \cup {o.disk} : TreeStep(TreeIn(disk), TreeIn(e))
    BY <2>2, <2>3, OneMoreIsAdded DEF TreeStep
  <2> QED
    BY <2>4, <2>5, CallTree
<1>2. ASSUME NEW path \in Paths, NEW create \in BOOLEAN, NEW slash \in BOOLEAN,
             Mkdir(path, create, slash)
      PROVE  TreeStep(Tree, Tree')
  <2> DEFINE o == MakeDirectory(disk, path, create, slash)
  <2>1. LeavesSound(o, disk.Text) /\ LeavesNames(o) /\ LeavesGrown(o, TreeIn(disk))
    BY <1>0, MakeDirectorySafe, MakeDirectoryTree
  <2>2. Becomes(o, "create", currentDirectoryInodeID)
    BY <1>2 DEF Mkdir
  <2> HIDE DEF o
  <2>3. \A e \in o.torn \cup {o.disk} :
          Sound(e) /\ NamesSound(e) /\ Grown(TreeIn(disk), TreeIn(e))
    BY <2>1 DEF LeavesSound, LeavesNames, LeavesGrown
  <2>4. \A e \in o.torn \cup {o.disk} : TreeStep(TreeIn(disk), TreeIn(e))
    BY <2>3, GrownIsAdded DEF TreeStep
  <2> QED
    BY <2>2, <2>4, CallTree
<1>3. ASSUME NEW i \in Named, NEW text \in Texts, NEW trunc \in BOOLEAN, Write(i, text, trunc)
      PROVE  TreeStep(Tree, Tree')
  <2> DEFINE o == WriteFileContent(disk, i, text, trunc)
             call == IF trunc THEN "truncate" ELSE "append"
  <2>1. i \in Inodes
    BY <1>0, NamedHasType
  <2>2. /\ IsFile(disk, i) /\ Fits(IF trunc THEN 0 ELSE disk.Inode[i].Size, text)
        /\ Becomes(o, call, currentDirectoryInodeID)
    BY <1>3 DEF Write, IsFile
  <2>3. /\ TreeStep(TreeIn(disk), TreeIn(o.disk))
        /\ ~trunc => \A e \in o.torn : TreeIn(e) = TreeIn(disk)
    BY <1>0, <2>1, <2>2, WriteTree
  <2>4. call \in Interruptible => ~trunc
    BY <1>0
  <2> HIDE DEF o, call
  <2>5. call \in Interruptible => \A e \in o.torn : TreeStep(TreeIn(disk), TreeIn(e))
    BY <2>3, <2>4 DEF TreeStep
  <2> QED
    BY <2>2, <2>3, <2>5, CallTree
<1>4. ASSUME Reboot PROVE TreeStep(Tree, Tree')
  <2> DEFINE o == InitializeFileSystem(disk)
  <2>1. Becomes(o, "boot", o.id)
    BY <1>4, Zenon DEF Reboot
  <2>2. \A e \in o.torn \cup {o.disk} : TreeIn(e) = TreeIn(disk)
    BY <1>0, InitializeTree
  <2> HIDE DEF o
  <2>3. \A e \in o.torn \cup {o.disk} : TreeStep(TreeIn(disk), TreeIn(e))
    BY <2>2 DEF TreeStep
  <2> QED
    BY <2>1, <2>3, CallTree
<1>5. ASSUME disk' = disk PROVE TreeStep(Tree, Tree')
  BY <1>5, TreeIs, NextTreeIs, Zenon DEF TreeStep
<1> QED
  BY <1>1, <1>2, <1>3, <1>4, <1>5 DEF Next, ChangeDirectory, Halted, vars

(***************************************************************************)
(* As long as nothing is removed, the disk is a tree of named files with   *)
(* texts, and every call changes the tree as the abstract one may be       *)
(* changed, or not at all: also a call during which the power goes, and    *)
(* the start after it (ImplementsFileTree).                                *)
(***************************************************************************)
THEOREM DiskIsFileTree ==
  ASSUME Removable = {}, Interruptible \subseteq {"create", "append", "boot"}, ~Overrun
  PROVE  Spec => ImplementsFileTree
<1> DEFINE Inv == TextInv /\ NamesSound(disk)
<1>1. Init => Inv /\ FT!Init
  BY InitNames, InitTexts, InitTree DEF NamesInv, TextInv
<1>2. Inv /\ [Next]_vars => Inv'
  BY StepKeeps, StepKeepsTexts DEF TextInv
<1>3. Inv /\ [Next]_vars => [FT!Next]_Tree
  BY StepTree DEF TreeStep, FT!Next
<1> HIDE DEF Inv
<1> QED
  BY <1>1, <1>2, <1>3, PTL DEF Spec, ImplementsFileTree, FT!Spec
=============================================================================
