-------------------------- MODULE KernelMemoryProofs --------------------------
(***************************************************************************)
(* Invariants of the two allocators, for every memory map, every number of *)
(* frames and every size of the heap.                                      *)
(***************************************************************************)
EXTENDS KernelMemory, TLAPS, WellFoundedInduction, FiniteSetTheorems

USE DEF F!vars, B!vars, frameVars, heapVars

-----------------------------------------------------------------------------
(***************************************************************************)
(* The specification writes loops as functions defined by recursion.  What *)
(* proofs about them need: induction over the natural numbers stated with  *)
(* a set, and that a step repeated a number of times is defined.           *)
(***************************************************************************)
\* A set of natural numbers has a least one.
LEMMA LeastNatural ==
  ASSUME NEW T \in SUBSET Nat, T # {}
  PROVE  \E m \in T : \A n \in T : m <= n
<1>1. IsWellFoundedOn(OpToRel(<, Nat), Nat)
  BY NatLessThanWellFounded
<1>2. PICK m \in T : \A n \in T : ~(<<n, m>> \in OpToRel(<, Nat))
  BY <1>1, WFMin
<1>3. \A n \in T : ~(n < m)
  BY <1>2 DEF OpToRel
<1> QED
  BY <1>3

LEMMA SetInduction ==
  ASSUME NEW T, 0 \in T, \A n \in Nat : n \in T => n + 1 \in T
  PROVE  \A n \in Nat : n \in T
<1> DEFINE Rest == Nat \ T
<1> SUFFICES ASSUME Rest # {} PROVE FALSE
  OBVIOUS
<1>1. PICK m \in Rest : \A n \in Rest : m <= n
  <2>1. Rest \in SUBSET Nat
    OBVIOUS
  <2> HIDE DEF Rest
  <2> QED
    BY <2>1, LeastNatural
<1>2. m # 0 /\ m - 1 \in Nat
  OBVIOUS
<1>3. m - 1 \in T
  BY <1>1, <1>2
<1> QED
  BY <1>2, <1>3

\* The n-th step takes f[n - 1] to g of n and that.
Iterates(f, x, g, L) == f[0] = x /\ \A n \in 1 .. L : f[n] = g[<<n, f[n - 1]>>]

LEMMA IterationExists ==
  ASSUME NEW X, NEW x \in X, NEW L \in Nat, NEW g \in [(1 .. L) \X X -> X]
  PROVE  \E f \in [0 .. L -> X] : Iterates(f, x, g, L)
<1> DEFINE T == {n \in Nat : n <= L => \E f \in [0 .. n -> X] : Iterates(f, x, g, n)}
<1>1. 0 \in T
  <2>1. /\ [i \in 0 .. 0 |-> x] \in [0 .. 0 -> X]
        /\ Iterates([i \in 0 .. 0 |-> x], x, g, 0)
    BY DEF Iterates
  <2> QED
    BY <2>1
<1>2. ASSUME NEW n \in Nat, n \in T PROVE n + 1 \in T
  <2> SUFFICES ASSUME n + 1 <= L
               PROVE  \E f \in [0 .. n + 1 -> X] : Iterates(f, x, g, n + 1)
    OBVIOUS
  <2>1. PICK f \in [0 .. n -> X] : Iterates(f, x, g, n)
    BY <1>2
  <2> DEFINE e == [i \in 0 .. n + 1 |-> IF i = n + 1 THEN g[<<n + 1, f[n]>>] ELSE f[i]]
  <2>2. e \in [0 .. n + 1 -> X]
    <3>1. g[<<n + 1, f[n]>>] \in X
      OBVIOUS
    <3> QED
      BY <3>1
  <2>3. e[n + 1] = g[<<n + 1, f[n]>>] /\ \A i \in 0 .. n : e[i] = f[i]
    OBVIOUS
  <2> HIDE DEF e
  <2>4. e[0] = x
    BY <2>1, <2>3 DEF Iterates
  <2>5. ASSUME NEW i \in 1 .. n + 1 PROVE e[i] = g[<<i, e[i - 1]>>]
    <3>1. CASE i = n + 1
      <4>1. i - 1 = n /\ e[n] = f[n]
        BY <2>3, <3>1
      <4> QED
        BY <2>3, <3>1, <4>1
    <3>2. CASE i # n + 1
      <4>1. i \in 1 .. n /\ e[i] = f[i] /\ e[i - 1] = f[i - 1]
        BY <2>3, <3>2
      <4>2. f[i] = g[<<i, f[i - 1]>>]
        BY <2>1, <4>1 DEF Iterates
      <4> QED
        BY <4>1, <4>2
    <3> QED
      BY <3>1, <3>2
  <2>6. Iterates(e, x, g, n + 1)
    BY <2>4, <2>5, Zenon DEF Iterates
  <2> QED
    BY <2>2, <2>6
<1>3. L \in T
  <2> HIDE DEF T
  <2> QED
    BY <1>1, <1>2, SetInduction
<1> QED
  BY <1>3

-----------------------------------------------------------------------------
(***************************************************************************)
(* The frames.  Bit 0 of a byte comes and goes, bit 1 stays; the free      *)
(* frames are what the counters count.                                     *)
(***************************************************************************)
Usable == UNION {F!FreedBy(d) : d \in MemoryMap}

KernelFrames == {ppn \in F!FreeFrames : F!InKernel(ppn)}

FrameTypeOK ==
  /\ Pages \in [F!PPNs -> 0 .. 3]
  /\ heap \in F!PPNs
  /\ frames \subseteq F!PPNs
  /\ booted \in BOOLEAN /\ noFrame \in BOOLEAN

FrameInv ==
  /\ FrameTypeOK
  /\ ~booted => F!FreeFrames = {} /\ frames = {} /\ heap = 0
  /\ F!FramesPartitioned
  /\ F!CountersExact

\* The cardinality of FiniteSets, as FrameAllocator has it.
LEMMA SameCardinality == ASSUME NEW S PROVE F!Cardinality(S) = Cardinality(S)
  BY DEF F!Cardinality, Cardinality

LEMMA FramesFinite ==
  /\ IsFiniteSet(F!PPNs)
  /\ IsFiniteSet(F!FreeFrames) /\ F!FreeFrames \subseteq F!PPNs
  /\ IsFiniteSet(KernelFrames) /\ KernelFrames \subseteq F!FreeFrames
<1>1. IsFiniteSet(F!PPNs)
  <2>1. 0 \in Int /\ MAX_PAGE_COUNT - 1 \in Int
    BY MemoryAssumption DEF F!ConstantsAssumption
  <2> QED
    BY <2>1, FS_Interval DEF F!PPNs
<1>2. F!FreeFrames \subseteq F!PPNs /\ KernelFrames \subseteq F!FreeFrames
  BY DEF F!FreeFrames, KernelFrames
<1> QED
  BY <1>1, <1>2, FS_Subset

LEMMA BytesFreed ==
  ASSUME Pages \in [F!PPNs -> 0 .. 3], NEW S \in SUBSET F!PPNs, Pages' = F!SetFree(S)
  PROVE  /\ Pages' \in [F!PPNs -> 0 .. 3]
         /\ F!FreeFrames' = F!FreeFrames \cup S
         /\ \A ppn \in F!PPNs : F!InKernel(ppn)' <=> F!InKernel(ppn)
<1>1. ASSUME NEW ppn \in F!PPNs
      PROVE  /\ Pages'[ppn] \in 0 .. 3
             /\ Pages'[ppn] \div 2 = Pages[ppn] \div 2
             /\ Pages'[ppn] % 2 = IF ppn \in S THEN 0 ELSE Pages[ppn] % 2
  <2>1. Pages[ppn] \in {0, 1, 2, 3}
    OBVIOUS
  <2>2. Pages'[ppn] = IF ppn \in S THEN (Pages[ppn] \div 2) * 2 ELSE Pages[ppn]
    BY DEF F!SetFree
  <2> QED
    BY <2>1, <2>2
<1>2. Pages' \in [F!PPNs -> 0 .. 3]
  BY <1>1 DEF F!SetFree
<1>3. \A ppn \in F!PPNs : F!InKernel(ppn)' <=> F!InKernel(ppn)
  BY <1>1 DEF F!InKernel
<1>4. F!FreeFrames' = F!FreeFrames \cup S
  BY <1>1 DEF F!FreeFrames, F!isFree
<1> QED
  BY <1>2, <1>3, <1>4

LEMMA BytesUsed ==
  ASSUME Pages \in [F!PPNs -> 0 .. 3], NEW S \in SUBSET F!PPNs, Pages' = F!SetUsed(S)
  PROVE  /\ Pages' \in [F!PPNs -> 0 .. 3]
         /\ F!FreeFrames' = F!FreeFrames \ S
         /\ \A ppn \in F!PPNs : F!InKernel(ppn)' <=> F!InKernel(ppn)
<1>1. ASSUME NEW ppn \in F!PPNs
      PROVE  /\ Pages'[ppn] \in 0 .. 3
             /\ Pages'[ppn] \div 2 = Pages[ppn] \div 2
             /\ Pages'[ppn] % 2 = IF ppn \in S THEN 1 ELSE Pages[ppn] % 2
  <2>1. Pages[ppn] \in {0, 1, 2, 3}
    OBVIOUS
  <2>2. Pages'[ppn] = IF ppn \in S THEN (Pages[ppn] \div 2) * 2 + 1 ELSE Pages[ppn]
    BY DEF F!SetUsed
  <2> QED
    BY <2>1, <2>2
<1>2. Pages' \in [F!PPNs -> 0 .. 3]
  BY <1>1 DEF F!SetUsed
<1>3. \A ppn \in F!PPNs : F!InKernel(ppn)' <=> F!InKernel(ppn)
  BY <1>1 DEF F!InKernel
<1>4. F!FreeFrames' = F!FreeFrames \ S
  BY <1>1 DEF F!FreeFrames, F!isFree
<1> QED
  BY <1>2, <1>3, <1>4

LEMMA CountersMean ==
  F!CountersExact <=> /\ TotalFreePageCount = Cardinality(F!FreeFrames)
                      /\ KernelFreePageCount = Cardinality(KernelFrames)
  BY SameCardinality DEF F!CountersExact, KernelFrames

\* Taking free frames of one mode keeps both counters exact.
LEMMA TakeCounts ==
  ASSUME FrameTypeOK, F!CountersExact, NEW S \in SUBSET F!FreeFrames, NEW mode,
         \A ppn \in S : F!isSpecifiedMode(ppn, mode), F!Take(S, mode)
  PROVE  /\ Pages' \in [F!PPNs -> 0 .. 3]
         /\ F!FreeFrames' = F!FreeFrames \ S
         /\ F!CountersExact'
<1>1. /\ S \in SUBSET F!PPNs
      /\ Pages' = F!SetUsed(S)
      /\ TotalFreePageCount' = TotalFreePageCount - Cardinality(S)
      /\ KernelFreePageCount' = KernelFreePageCount
                                  - (IF mode = "KernelMode" THEN Cardinality(S) ELSE 0)
  BY FramesFinite, SameCardinality DEF F!Take
<1>2. /\ Pages' \in [F!PPNs -> 0 .. 3]
      /\ F!FreeFrames' = F!FreeFrames \ S
      /\ \A ppn \in F!PPNs : F!InKernel(ppn)' <=> F!InKernel(ppn)
  BY <1>1, BytesUsed DEF FrameTypeOK
<1>3. KernelFrames' = KernelFrames \ S
  BY <1>2, FramesFinite DEF KernelFrames
<1>4. Cardinality(F!FreeFrames \ S) = Cardinality(F!FreeFrames) - Cardinality(S)
  <2>1. F!FreeFrames \cap S = S
    OBVIOUS
  <2>2. Cardinality(F!FreeFrames \ S)
          = Cardinality(F!FreeFrames) - Cardinality(F!FreeFrames \cap S)
    BY FramesFinite, FS_Difference
  <2> QED
    BY <2>1, <2>2, Zenon
<1>5. Cardinality(KernelFrames \ S)
        = Cardinality(KernelFrames) - Cardinality(KernelFrames \cap S)
  BY FramesFinite, FS_Difference
<1>6. mode = "KernelMode" => KernelFrames \cap S = S
  BY DEF F!isSpecifiedMode, KernelFrames
<1>7. mode # "KernelMode" => KernelFrames \cap S = {}
  BY DEF F!isSpecifiedMode, KernelFrames
<1>8. Cardinality(KernelFrames \cap S)
        = IF mode = "KernelMode" THEN Cardinality(S) ELSE 0
  BY <1>6, <1>7, FS_EmptySet, Zenon
<1>9. Cardinality(F!FreeFrames') = Cardinality(F!FreeFrames \ S)
      /\ Cardinality(KernelFrames') = Cardinality(KernelFrames \ S)
  BY <1>2, <1>3, Zenon
<1>10. /\ TotalFreePageCount' = Cardinality(F!FreeFrames')
       /\ KernelFreePageCount' = Cardinality(KernelFrames')
  <2>1. /\ TotalFreePageCount = Cardinality(F!FreeFrames)
        /\ KernelFreePageCount = Cardinality(KernelFrames)
    BY CountersMean
  <2> QED
    BY <1>1, <1>4, <1>5, <1>8, <1>9, <2>1
<1>11. F!CountersExact'
  <2>1. (F!CountersExact <=> /\ TotalFreePageCount = Cardinality(F!FreeFrames)
                             /\ KernelFreePageCount = Cardinality(KernelFrames))'
    BY CountersMean, PTL
  <2> QED
    BY <1>10, <2>1
<1> QED
  BY <1>2, <1>11

LEMMA InitFrameInv == F!Init => FrameInv
<1> SUFFICES ASSUME F!Init PROVE FrameInv
  OBVIOUS
<1>1. FrameTypeOK
  <2>1. 0 \in F!PPNs
    BY MemoryAssumption DEF F!ConstantsAssumption, F!PPNs
  <2>2. Pages \in [F!PPNs -> 0 .. 3]
    <3>1. \A ppn \in F!PPNs : (IF ppn < KernelPages THEN 3 ELSE 1) \in 0 .. 3
      OBVIOUS
    <3> QED
      BY <3>1 DEF F!Init
  <2> QED
    BY <2>1, <2>2 DEF F!Init, FrameTypeOK
<1>2. F!FreeFrames = {}
  <2>1. \A ppn \in F!PPNs : Pages[ppn] \in {1, 3}
    BY DEF F!Init
  <2> QED
    BY <2>1 DEF F!FreeFrames, F!isFree
<1>3. F!CountersExact
  <2>1. KernelFrames = {}
    BY <1>2 DEF KernelFrames
  <2>2. Cardinality(F!FreeFrames) = 0 /\ Cardinality(KernelFrames) = 0
    BY <1>2, <2>1, FS_EmptySet, Zenon
  <2> QED
    BY <2>2, CountersMean DEF F!Init
<1> QED
  BY <1>1, <1>2, <1>3 DEF F!Init, FrameInv, F!FramesPartitioned

LEMMA CheckoutFrameInv == ASSUME FrameInv, F!MemoryCheckout PROVE FrameInv'
<1>1. /\ FrameTypeOK /\ F!FreeFrames = {} /\ frames = {} /\ heap = 0
      /\ Pages \in [F!PPNs -> 0 .. 3]
      /\ booted' = TRUE /\ UNCHANGED <<heap, frames, noFrame>>
      /\ Pages' = F!SetFree(Usable)
      /\ TotalFreePageCount' = Cardinality(Usable)
      /\ KernelFreePageCount' = Cardinality({ppn \in Usable : F!InKernel(ppn)})
  BY SameCardinality DEF FrameInv, FrameTypeOK, F!MemoryCheckout, Usable
<1>2. Usable \in SUBSET F!PPNs
  BY MemoryAssumption DEF Usable, F!ConstantsAssumption
<1>3. /\ Pages' \in [F!PPNs -> 0 .. 3]
      /\ F!FreeFrames' = Usable
      /\ \A ppn \in F!PPNs : F!InKernel(ppn)' <=> F!InKernel(ppn)
  BY <1>1, <1>2, BytesFreed
<1>4. KernelFrames' = {ppn \in Usable : F!InKernel(ppn)}
  BY <1>2, <1>3 DEF KernelFrames
<1>5. F!CountersExact'
  <2>1. /\ Cardinality(F!FreeFrames') = Cardinality(Usable)
        /\ Cardinality(KernelFrames') = Cardinality({ppn \in Usable : F!InKernel(ppn)})
    BY <1>3, <1>4, Zenon
  <2>2. (F!CountersExact <=> /\ TotalFreePageCount = Cardinality(F!FreeFrames)
                             /\ KernelFreePageCount = Cardinality(KernelFrames))'
    BY CountersMean, PTL
  <2> QED
    BY <1>1, <2>1, <2>2
<1>6. F!FramesPartitioned'
  BY <1>1, <1>3 DEF F!FramesPartitioned, F!HeapFrames, Usable
<1> QED
  BY <1>1, <1>3, <1>5, <1>6 DEF FrameInv, FrameTypeOK

\* The frames of a run are free and of the mode.
LEMMA RunIsFree ==
  ASSUME NEW ppn, NEW n, NEW mode, F!IsFirstRun(ppn, n, mode)
  PROVE  /\ ppn .. ppn + n - 1 \in SUBSET F!FreeFrames
         /\ \A i \in ppn .. ppn + n - 1 : F!isSpecifiedMode(i, mode)
  BY DEF F!IsFirstRun, F!HasPages, F!FreeFrames

LEMMA FailsFrameInv ==
  ASSUME FrameInv, NEW n, NEW mode, F!Fails(n, mode), UNCHANGED booted
  PROVE  FrameInv'
  BY SameCardinality
     DEF F!Fails, FrameInv, FrameTypeOK, F!FramesPartitioned, F!HeapFrames,
         F!FreeFrames, F!isFree, F!CountersExact, F!InKernel

LEMMA OnePageFrameInv ==
  ASSUME FrameInv, NEW mode, F!AllocateOnePage(mode) PROVE FrameInv'
<1>1. CASE F!Fails(1, mode)
  BY <1>1, FailsFrameInv DEF F!AllocateOnePage
<1>2. ASSUME NEW ppn \in FirstPage .. MAX_PAGE_COUNT - 1,
             F!IsFirstRun(ppn, 1, mode), F!Take({ppn}, mode),
             frames' = frames \cup {ppn}, UNCHANGED <<heap, noFrame>>
      PROVE  FrameInv'
  <2>1. booted /\ UNCHANGED booted /\ FrameTypeOK /\ F!CountersExact
        /\ F!FramesPartitioned
    BY DEF F!AllocateOnePage, FrameInv
  <2>2. {ppn} \in SUBSET F!FreeFrames /\ \A i \in {ppn} : F!isSpecifiedMode(i, mode)
    <3>1. ppn \in ppn .. ppn + 1 - 1
      BY MemoryAssumption DEF F!ConstantsAssumption
    <3> QED
      BY <1>2, <3>1, RunIsFree
  <2>3. /\ Pages' \in [F!PPNs -> 0 .. 3]
        /\ F!FreeFrames' = F!FreeFrames \ {ppn}
        /\ F!CountersExact'
    BY <1>2, <2>1, <2>2, TakeCounts
  <2>4. FrameTypeOK'
    BY <1>2, <2>1, <2>2, <2>3, FramesFinite DEF FrameTypeOK
  <2>5. F!HeapFrames' = F!HeapFrames
    BY <1>2 DEF F!HeapFrames
  <2>6. F!FramesPartitioned'
    BY <1>2, <2>1, <2>2, <2>3, <2>5 DEF F!FramesPartitioned
  <2> QED
    BY <2>1, <2>3, <2>4, <2>6 DEF FrameInv
<1> QED
  BY <1>1, <1>2 DEF F!AllocateOnePage

LEMMA HeapFrameInv == ASSUME FrameInv, F!AllocatePagesContinuously PROVE FrameInv'
<1>1. CASE F!Fails(HeapPages, "KernelMode")
  BY <1>1, FailsFrameInv DEF F!AllocatePagesContinuously
<1>2. ASSUME NEW ppn \in FirstPage .. MAX_PAGE_COUNT - 1,
             F!IsFirstRun(ppn, HeapPages, "KernelMode"),
             F!Take(ppn .. ppn + HeapPages - 1, "KernelMode"),
             heap' = ppn, UNCHANGED <<frames, noFrame>>
      PROVE  FrameInv'
  <2> DEFINE Run == ppn .. ppn + HeapPages - 1
  <2>1. booted /\ UNCHANGED booted /\ FrameTypeOK /\ F!CountersExact
        /\ F!FramesPartitioned /\ heap = 0
    BY DEF F!AllocatePagesContinuously, FrameInv
  <2>2. Run \in SUBSET F!FreeFrames /\ \A i \in Run : F!isSpecifiedMode(i, "KernelMode")
    BY <1>2, RunIsFree
  <2>3. ppn # 0 /\ ppn \in F!PPNs
    BY MemoryAssumption DEF F!ConstantsAssumption, F!PPNs
  <2>4. F!HeapFrames = {} /\ F!HeapFrames' = Run
    BY <1>2, <2>1, <2>3 DEF F!HeapFrames
  <2>5. F!Take(Run, "KernelMode")
    BY <1>2
  <2> HIDE DEF Run
  <2>6. /\ Pages' \in [F!PPNs -> 0 .. 3]
        /\ F!FreeFrames' = F!FreeFrames \ Run
        /\ F!CountersExact'
    BY <2>1, <2>2, <2>5, TakeCounts
  <2>7. FrameTypeOK'
    BY <1>2, <2>1, <2>3, <2>6 DEF FrameTypeOK
  <2>8. F!FramesPartitioned'
    BY <1>2, <2>1, <2>2, <2>4, <2>6 DEF F!FramesPartitioned
  <2> QED
    BY <2>1, <2>6, <2>7, <2>8 DEF FrameInv
<1> QED
  BY <1>1, <1>2 DEF F!AllocatePagesContinuously

LEMMA FreeFrameInv ==
  ASSUME FrameInv, NEW ppn \in F!PPNs, F!FreeOnePage(ppn) PROVE FrameInv'
<1>1. /\ booted /\ ppn \in frames /\ FrameTypeOK /\ F!FramesPartitioned
      /\ Pages \in [F!PPNs -> 0 .. 3]
      /\ Pages' = F!SetFree({ppn})
      /\ TotalFreePageCount' = TotalFreePageCount + 1
      /\ KernelFreePageCount' = KernelFreePageCount + (IF F!InKernel(ppn) THEN 1 ELSE 0)
      /\ frames' = frames \ {ppn}
      /\ UNCHANGED <<heap, booted, noFrame>>
  BY DEF FrameInv, FrameTypeOK, F!FreeOnePage
<1>2. /\ Pages' \in [F!PPNs -> 0 .. 3]
      /\ F!FreeFrames' = F!FreeFrames \cup {ppn}
      /\ \A i \in F!PPNs : F!InKernel(i)' <=> F!InKernel(i)
  <2>1. {ppn} \in SUBSET F!PPNs
    OBVIOUS
  <2> QED
    BY <1>1, <2>1, BytesFreed
<1>3. ppn \notin F!FreeFrames /\ ppn \notin F!HeapFrames
  BY <1>1 DEF F!FramesPartitioned
<1>4. /\ F!InKernel(ppn) => KernelFrames' = KernelFrames \cup {ppn}
      /\ ~F!InKernel(ppn) => KernelFrames' = KernelFrames
  BY <1>2, FramesFinite DEF KernelFrames
<1>5. F!CountersExact'
  <2>1. /\ TotalFreePageCount = Cardinality(F!FreeFrames)
        /\ KernelFreePageCount = Cardinality(KernelFrames)
    BY CountersMean DEF FrameInv
  <2>2. Cardinality(F!FreeFrames \cup {ppn}) = Cardinality(F!FreeFrames) + 1
    BY <1>3, FramesFinite, FS_AddElement
  <2>3. Cardinality(KernelFrames \cup {ppn}) = Cardinality(KernelFrames) + 1
    BY <1>3, FramesFinite, FS_AddElement
  <2>4. Cardinality(F!FreeFrames') = Cardinality(F!FreeFrames \cup {ppn})
    BY <1>2, Zenon
  <2>5. /\ F!InKernel(ppn) => Cardinality(KernelFrames') = Cardinality(KernelFrames \cup {ppn})
        /\ ~F!InKernel(ppn) => Cardinality(KernelFrames') = Cardinality(KernelFrames)
    BY <1>4, Zenon
  <2>6. Cardinality(KernelFrames) \in Nat
    BY FramesFinite, FS_CardinalityType
  <2>7. (F!CountersExact <=> /\ TotalFreePageCount = Cardinality(F!FreeFrames)
                             /\ KernelFreePageCount = Cardinality(KernelFrames))'
    BY CountersMean, PTL
  <2> QED
    BY <1>1, <2>1, <2>2, <2>3, <2>4, <2>5, <2>6, <2>7
<1>6. F!HeapFrames' = F!HeapFrames
  BY <1>1 DEF F!HeapFrames
<1>7. F!FramesPartitioned'
  BY <1>1, <1>2, <1>3, <1>6 DEF F!FramesPartitioned
<1>8. FrameTypeOK'
  BY <1>1, <1>2 DEF FrameTypeOK
<1> QED
  BY <1>1, <1>5, <1>7, <1>8 DEF FrameInv

LEMMA FrameStutter == ASSUME FrameInv, UNCHANGED frameVars PROVE FrameInv'
  BY SameCardinality
     DEF FrameInv, FrameTypeOK, F!FramesPartitioned, F!HeapFrames,
         F!FreeFrames, F!isFree, F!CountersExact, F!InKernel

LEMMA NextFrameInv == FrameInv /\ F!Next => FrameInv'
<1> SUFFICES ASSUME FrameInv, F!Next PROVE FrameInv'
  OBVIOUS
<1>1. CASE F!Halted
  BY <1>1, FrameStutter DEF F!Halted
<1> QED
  BY <1>1, CheckoutFrameInv, OnePageFrameInv, HeapFrameInv, FreeFrameInv DEF F!Next
-----------------------------------------------------------------------------
(***************************************************************************)
(* The sizes of blocks: halving a power of two leaves no rest, and every   *)
(* size that is halved was the double of the next.                         *)
(***************************************************************************)
Powers == {B!Power[n] : n \in 0 .. Order}

LEMMA PowerRecursion ==
  /\ B!Power[0] = 1
  /\ \A n \in 1 .. Order : B!Power[n] = 2 * B!Power[n - 1]
<1> DEFINE IsPower(f) == f = [n \in 0 .. Order |-> IF n = 0 THEN 1 ELSE 2 * f[n - 1]]
           twice == [m \in (1 .. Order) \X Nat |-> 2 * m[2]]
<1>0. Order \in Nat
  BY MemoryAssumption DEF B!ConstantsAssumption
<1>1. \E f : IsPower(f)
  <2>1. twice \in [(1 .. Order) \X Nat -> Nat]
    OBVIOUS
  <2>2. PICK f \in [0 .. Order -> Nat] : Iterates(f, 1, twice, Order)
    <3>1. 1 \in Nat
      OBVIOUS
    <3> HIDE DEF twice
    <3> QED
      BY <1>0, <2>1, <3>1, IterationExists, Zenon
  <2>3. \A n \in 1 .. Order : f[n] = 2 * f[n - 1]
    <3>1. \A n \in 1 .. Order : f[n - 1] \in Nat
      BY <1>0
    <3> QED
      BY <2>2, <3>1 DEF Iterates
  <2>4. IsPower(f)
    BY <1>0, <2>2, <2>3 DEF Iterates
  <2> QED
    BY <2>4
<1>2. B!Power = CHOOSE f : IsPower(f)
  BY DEF B!Power
<1>3. IsPower(B!Power)
  <2> HIDE DEF IsPower
  <2> QED
    BY <1>1, <1>2
<1> QED
  BY <1>0, <1>3

LEMMA PowersAre ==
  /\ \A p \in Powers : p \in Nat \ {0}
  /\ \A p \in Powers : p >= 2 => p \div 2 \in Powers /\ p = 2 * (p \div 2)
  /\ \A p \in Powers : 2 * p <= B!HeapSize => 2 * p \in Powers
  /\ B!HeapSize \in Powers
<1>0. Order \in Nat
  BY MemoryAssumption DEF B!ConstantsAssumption
<1> DEFINE T == {n \in Nat : n <= Order => B!Power[n] \in Nat \ {0}}
<1>1. \A n \in Nat : n \in T
  <2>1. 0 \in T
    BY PowerRecursion
  <2>2. ASSUME NEW n \in Nat, n \in T PROVE n + 1 \in T
    BY <1>0, <2>2, PowerRecursion
  <2> HIDE DEF T
  <2> QED
    BY <2>1, <2>2, SetInduction
<1>2. \A n \in 0 .. Order : B!Power[n] \in Nat \ {0}
  BY <1>0, <1>1
<1>3. ASSUME NEW p \in Powers, p >= 2
      PROVE  p \div 2 \in Powers /\ p = 2 * (p \div 2)
  <2>1. PICK n \in 0 .. Order : p = B!Power[n]
    BY DEF Powers
  <2>2. n # 0 /\ n - 1 \in 0 .. Order
    BY <1>0, <1>3, <2>1, PowerRecursion
  <2>3. p = 2 * B!Power[n - 1] /\ B!Power[n - 1] \in Nat
    BY <1>0, <1>2, <2>1, <2>2, PowerRecursion
  <2>4. p \div 2 = B!Power[n - 1]
    BY <2>3
  <2> QED
    BY <2>2, <2>3, <2>4 DEF Powers
<1>4. ASSUME NEW p \in Powers, 2 * p <= B!HeapSize PROVE 2 * p \in Powers
  <2>1. PICK n \in 0 .. Order : p = B!Power[n]
    BY DEF Powers
  <2>2. n # Order
    BY <1>0, <1>2, <1>4, <2>1 DEF B!HeapSize
  <2>3. n + 1 \in 1 .. Order
    BY <1>0, <2>1, <2>2
  <2>4. 2 * p = B!Power[n + 1]
    BY <1>0, <2>1, <2>3, PowerRecursion
  <2> QED
    BY <1>0, <2>3, <2>4 DEF Powers
<1> QED
  BY <1>0, <1>2, <1>3, <1>4 DEF Powers, B!HeapSize

LEMMA HalvedRecursion ==
  ASSUME NEW b, b.Size \in Nat
  PROVE  /\ B!Halved(b)[0] = b.Size
         /\ \A n \in 1 .. Order : B!Halved(b)[n] = B!Halved(b)[n - 1] \div 2
<1> DEFINE IsHalved(f) ==
             f = [n \in 0 .. Order |-> IF n = 0 THEN b.Size ELSE f[n - 1] \div 2]
           half == [m \in (1 .. Order) \X Nat |-> m[2] \div 2]
<1>0. Order \in Nat
  BY MemoryAssumption DEF B!ConstantsAssumption
<1>1. \E f : IsHalved(f)
  <2>1. half \in [(1 .. Order) \X Nat -> Nat]
    OBVIOUS
  <2>2. PICK f \in [0 .. Order -> Nat] : Iterates(f, b.Size, half, Order)
    <3> HIDE DEF half
    <3> QED
      BY <1>0, <2>1, IterationExists, Zenon
  <2>3. \A n \in 1 .. Order : f[n] = f[n - 1] \div 2
    <3>1. \A n \in 1 .. Order : f[n - 1] \in Nat
      BY <1>0
    <3> QED
      BY <2>2, <3>1 DEF Iterates
  <2>4. IsHalved(f)
    BY <1>0, <2>2, <2>3 DEF Iterates
  <2> QED
    BY <2>4
<1>2. B!Halved(b) = CHOOSE f : IsHalved(f)
  BY DEF B!Halved
<1>3. IsHalved(B!Halved(b))
  <2> HIDE DEF IsHalved
  <2> QED
    BY <1>1, <1>2
<1> QED
  BY <1>0, <1>3

LEMMA HalvingsAreExact ==
  ASSUME NEW b, b.Size \in Powers, NEW size \in Nat \ {0}, b.Size >= size,
         NEW h \in 0 .. Order, B!IsHalvings(h, b, size)
  PROVE  /\ \A i \in 0 .. h : B!Halved(b)[i] \in Powers
         /\ \A i \in 1 .. h : B!Halved(b)[i - 1] = 2 * B!Halved(b)[i]
         /\ size <= B!Halved(b)[h] /\ B!Halved(b)[h] < 2 * size
<1> DEFINE half == B!Halved(b)
           T == {n \in Nat : n <= h => half[n] \in Powers}
<1>0. Order \in Nat /\ b.Size \in Nat
  BY MemoryAssumption, PowersAre DEF B!ConstantsAssumption
<1>1. /\ half[0] = b.Size
      /\ \A n \in 1 .. Order : half[n] = half[n - 1] \div 2
  BY <1>0, HalvedRecursion
<1>2. half[h] < 2 * size /\ \A i \in 0 .. h - 1 : half[i] >= 2 * size
  BY DEF B!IsHalvings
<1> HIDE DEF half
<1>3. ASSUME NEW n \in Nat, n + 1 <= h, half[n] \in Powers
      PROVE  half[n + 1] \in Powers /\ half[n] = 2 * half[n + 1]
  <2>1. half[n] >= 2 * size /\ half[n] \in Nat
    BY <1>0, <1>2, <1>3, PowersAre
  <2>2. half[n + 1] = half[n] \div 2
    BY <1>0, <1>1, <1>3
  <2>3. half[n] >= 2
    BY <2>1
  <2> QED
    BY <1>3, <2>2, <2>3, PowersAre
<1>4. \A n \in Nat : n \in T
  <2>1. 0 \in T
    BY <1>1
  <2>2. ASSUME NEW n \in Nat, n \in T PROVE n + 1 \in T
    BY <1>0, <1>3, <2>2
  <2> HIDE DEF T
  <2> QED
    BY <2>1, <2>2, SetInduction
<1>5. \A i \in 0 .. h : half[i] \in Powers
  BY <1>0, <1>4
<1>6. \A i \in 1 .. h : half[i - 1] = 2 * half[i]
  <2> SUFFICES ASSUME NEW i \in 1 .. h PROVE half[i - 1] = 2 * half[i]
    OBVIOUS
  <2>1. i - 1 \in Nat /\ (i - 1) + 1 = i /\ i - 1 \in 0 .. h /\ i <= h
    BY <1>0
  <2> QED
    BY <1>3, <1>5, <2>1
<1>7. size <= half[h]
  <2>1. CASE h = 0
    BY <1>1, <2>1
  <2>2. CASE h # 0
    <3>1. half[h - 1] = 2 * half[h] /\ half[h - 1] >= 2 * size /\ half[h] \in Nat
      BY <1>0, <1>2, <1>5, <1>6, <2>2, PowersAre
    <3> QED
      BY <3>1
  <2> QED
    BY <2>1, <2>2
<1> QED
  BY <1>2, <1>5, <1>6, <1>7 DEF half
-----------------------------------------------------------------------------
(***************************************************************************)
(* Tilings.  The blocks of s follow each other from lo to hi; inUse is     *)
(* what matters to the clients.                                            *)
(***************************************************************************)
BlockType == [Base : Nat, Size : Powers, Used : BOOLEAN]

Tiles(s, lo, hi) ==
  /\ s \in Seq(BlockType) /\ Len(s) >= 1
  /\ s[1].Base = lo
  /\ \A k \in 1 .. Len(s) - 1 : s[k + 1].Base = s[k].Base + s[k].Size
  /\ s[Len(s)].Base + s[Len(s)].Size = hi

InUse(s) == {b \in BlockType : b.Used /\ \E k \in 1 .. Len(s) : s[k] = b}

LEMMA BlocksAreTyped ==
  ASSUME NEW s \in Seq(BlockType), NEW k \in 1 .. Len(s)
  PROVE  /\ s[k] \in BlockType
         /\ s[k].Base \in Nat /\ s[k].Size \in Powers /\ s[k].Used \in BOOLEAN
         /\ s[k].Size \in Nat \ {0}
<1>1. s[k] \in BlockType
  OBVIOUS
<1>2. s[k].Base \in Nat /\ s[k].Size \in Powers /\ s[k].Used \in BOOLEAN
  BY <1>1 DEF BlockType
<1> QED
  BY <1>1, <1>2, PowersAre

LEMMA BlocksInOrder ==
  ASSUME NEW s, NEW lo, NEW hi, Tiles(s, lo, hi)
  PROVE  /\ \A i, j \in 1 .. Len(s) : i < j => s[i].Base + s[i].Size <= s[j].Base
         /\ \A i, j \in 1 .. Len(s) : s[i].Base = s[j].Base => i = j
         /\ \A i \in 1 .. Len(s) : lo <= s[i].Base /\ s[i].Base + s[i].Size <= hi
<1>0. /\ s \in Seq(BlockType) /\ Len(s) \in Nat /\ Len(s) >= 1
      /\ \A k \in 1 .. Len(s) - 1 : s[k + 1].Base = s[k].Base + s[k].Size
  BY DEF Tiles
<1>a. \A k \in 1 .. Len(s) : s[k].Base \in Nat /\ s[k].Size \in Nat \ {0}
  BY <1>0, BlocksAreTyped
<1>1. ASSUME NEW i \in 1 .. Len(s), NEW j \in 1 .. Len(s), i < j
      PROVE  s[i].Base + s[i].Size <= s[j].Base
  <2> DEFINE T == {n \in Nat : i + 1 + n <= Len(s) =>
                                 s[i].Base + s[i].Size <= s[i + 1 + n].Base}
  <2>1. 0 \in T
    <3>1. i + 1 <= Len(s) => s[i + 1].Base = s[i].Base + s[i].Size
      BY <1>0
    <3>2. i + 1 + 0 = i + 1
      OBVIOUS
    <3> QED
      BY <1>a, <3>1, <3>2
  <2>2. ASSUME NEW n \in Nat, n \in T PROVE n + 1 \in T
    <3> SUFFICES ASSUME i + 1 + (n + 1) <= Len(s)
                 PROVE  s[i].Base + s[i].Size <= s[i + 1 + (n + 1)].Base
      OBVIOUS
    <3> DEFINE m == i + 1 + n
    <3>1. m \in 1 .. Len(s) - 1 /\ m \in 1 .. Len(s) /\ m + 1 = i + 1 + (n + 1)
      BY <1>0
    <3>2. s[i].Base + s[i].Size <= s[m].Base
      BY <2>2, <3>1
    <3> HIDE DEF m
    <3>3. s[m + 1].Base = s[m].Base + s[m].Size
      BY <1>0, <3>1
    <3>4. s[m].Base \in Nat /\ s[m].Size \in Nat /\ s[i].Base + s[i].Size \in Nat
      BY <1>a, <3>1
    <3>5. s[i].Base + s[i].Size <= s[m + 1].Base
      BY <3>2, <3>3, <3>4
    <3> QED
      BY <3>1, <3>5
  <2>3. j - i - 1 \in T
    <3>1. j - i - 1 \in Nat
      BY <1>1
    <3> HIDE DEF T
    <3> QED
      BY <2>1, <2>2, <3>1, SetInduction
  <2>4. i + 1 + (j - i - 1) = j
    BY <1>0
  <2> QED
    BY <2>3, <2>4
<1>2. ASSUME NEW i \in 1 .. Len(s), NEW j \in 1 .. Len(s), s[i].Base = s[j].Base
      PROVE  i = j
  <2>1. CASE i < j
    BY <1>1, <1>2, <1>a, <2>1
  <2>2. CASE j < i
    BY <1>1, <1>2, <1>a, <2>2
  <2> QED
    BY <2>1, <2>2
<1>3. ASSUME NEW i \in 1 .. Len(s)
      PROVE  lo <= s[i].Base /\ s[i].Base + s[i].Size <= hi
  <2>1. 1 \in 1 .. Len(s) /\ Len(s) \in 1 .. Len(s)
    BY <1>0
  <2>2. lo = s[1].Base /\ hi = s[Len(s)].Base + s[Len(s)].Size
    BY DEF Tiles
  <2>3. lo <= s[i].Base
    BY <1>1, <1>a, <2>1, <2>2
  <2>4. s[i].Base + s[i].Size <= hi
    <3>1. CASE i = Len(s)
      BY <1>a, <2>2, <3>1
    <3>2. CASE i < Len(s)
      BY <1>1, <1>a, <2>1, <2>2, <3>2, SMTT(30)
    <3> QED
      BY <3>1, <3>2
  <2> QED
    BY <2>3, <2>4
<1> QED
  BY <1>1, <1>2, <1>3

\* A block of s replaced by the blocks of t.
Inserted(s, k, t) == SubSeq(s, 1, k - 1) \o t \o SubSeq(s, k + 1, Len(s))

LEMMA ConcatenationIs ==
  ASSUME NEW a \in Seq(BlockType), NEW b \in Seq(BlockType)
  PROVE  /\ a \o b \in Seq(BlockType) /\ Len(a \o b) = Len(a) + Len(b)
         /\ \A i \in 1 .. Len(a) : (a \o b)[i] = a[i]
         /\ \A j \in 1 .. Len(b) : (a \o b)[Len(a) + j] = b[j]
<1>1. Len(a) \in Nat /\ Len(b) \in Nat
  OBVIOUS
<1>2. a \o b \in Seq(BlockType) /\ Len(a \o b) = Len(a) + Len(b)
  OBVIOUS
<1>3. \A i \in 1 .. Len(a) : (a \o b)[i] = a[i]
  BY <1>1
<1>4. ASSUME NEW j \in 1 .. Len(b) PROVE (a \o b)[Len(a) + j] = b[j]
  <2>1. Len(a) + j \in 1 .. Len(a) + Len(b) /\ ~(Len(a) + j <= Len(a))
        /\ (Len(a) + j) - Len(a) = j
    BY <1>1
  <2> QED
    BY <1>1, <2>1
<1> QED
  BY <1>2, <1>3, <1>4

LEMMA InsertedIs ==
  ASSUME NEW s \in Seq(BlockType), NEW t \in Seq(BlockType), NEW k \in 1 .. Len(s)
  PROVE  /\ Inserted(s, k, t) \in Seq(BlockType)
         /\ Len(Inserted(s, k, t)) = k - 1 + Len(t) + (Len(s) - k)
         /\ \A i \in 1 .. k - 1 : Inserted(s, k, t)[i] = s[i]
         /\ \A j \in 1 .. Len(t) : Inserted(s, k, t)[k - 1 + j] = t[j]
         /\ \A j \in 1 .. Len(s) - k : Inserted(s, k, t)[k - 1 + Len(t) + j] = s[k + j]
<1> DEFINE u == SubSeq(s, 1, k - 1)
           v == SubSeq(s, k + 1, Len(s))
           w == u \o t
<1>0. Len(s) \in Nat /\ Len(t) \in Nat
  OBVIOUS
<1>1. /\ u \in Seq(BlockType) /\ Len(u) = k - 1
      /\ \A i \in 1 .. k - 1 : u[i] = s[i]
  BY <1>0
<1>2. /\ v \in Seq(BlockType) /\ Len(v) = Len(s) - k
      /\ \A i \in 1 .. Len(s) - k : v[i] = s[k + i]
  BY <1>0
<1>3. Inserted(s, k, t) = w \o v
  BY DEF Inserted
<1> HIDE DEF u, v
<1>4. /\ w \in Seq(BlockType) /\ Len(w) = Len(u) + Len(t)
      /\ \A i \in 1 .. Len(u) : w[i] = u[i]
      /\ \A j \in 1 .. Len(t) : w[Len(u) + j] = t[j]
  <2> HIDE DEF w
  <2>1. /\ u \o t \in Seq(BlockType) /\ Len(u \o t) = Len(u) + Len(t)
        /\ \A i \in 1 .. Len(u) : (u \o t)[i] = u[i]
        /\ \A j \in 1 .. Len(t) : (u \o t)[Len(u) + j] = t[j]
    BY <1>1, ConcatenationIs
  <2> QED
    BY <2>1, Zenon DEF w
<1> HIDE DEF w
<1>5. /\ w \o v \in Seq(BlockType) /\ Len(w \o v) = Len(w) + Len(v)
      /\ \A i \in 1 .. Len(w) : (w \o v)[i] = w[i]
      /\ \A j \in 1 .. Len(v) : (w \o v)[Len(w) + j] = v[j]
  BY <1>2, <1>4, ConcatenationIs
<1>6. Len(w) = k - 1 + Len(t)
  BY <1>1, <1>4
<1>7. \A i \in 1 .. k - 1 : (w \o v)[i] = s[i]
  BY <1>0, <1>1, <1>4, <1>5, <1>6
<1>8. ASSUME NEW j \in 1 .. Len(t) PROVE (w \o v)[k - 1 + j] = t[j]
  <2>1. k - 1 + j \in 1 .. Len(w)
    BY <1>0, <1>6
  <2>2. w[k - 1 + j] = t[j]
    BY <1>1, <1>4
  <2> QED
    BY <1>5, <2>1, <2>2
<1>9. \A j \in 1 .. Len(s) - k : (w \o v)[k - 1 + Len(t) + j] = s[k + j]
  BY <1>2, <1>5, <1>6
<1> QED
  BY <1>2, <1>3, <1>5, <1>6, <1>7, <1>8, <1>9

LEMMA InsertedTiles ==
  ASSUME NEW s, NEW t, NEW lo, NEW hi, Tiles(s, lo, hi), NEW k \in 1 .. Len(s),
         Tiles(t, s[k].Base, s[k].Base + s[k].Size), ~s[k].Used
  PROVE  /\ Tiles(Inserted(s, k, t), lo, hi)
         /\ InUse(Inserted(s, k, t)) = InUse(s) \cup InUse(t)
<1> DEFINE r == Inserted(s, k, t)
           n == Len(t)
           m == Len(s)
<1>0. /\ s \in Seq(BlockType) /\ m \in Nat /\ m >= 1 /\ k \in 1 .. m
      /\ t \in Seq(BlockType) /\ n \in Nat /\ n >= 1
  BY DEF Tiles
<1>1. r \in Seq(BlockType) /\ Len(r) = k - 1 + n + (m - k)
  BY <1>0, InsertedIs
<1>2. /\ \A i \in 1 .. k - 1 : r[i] = s[i]
      /\ \A j \in 1 .. n : r[k - 1 + j] = t[j]
      /\ \A j \in 1 .. m - k : r[k - 1 + n + j] = s[k + j]
  BY <1>0, InsertedIs
<1>3. /\ s[1].Base = lo /\ s[m].Base + s[m].Size = hi
      /\ \A i \in 1 .. m - 1 : s[i + 1].Base = s[i].Base + s[i].Size
      /\ t[1].Base = s[k].Base /\ t[n].Base + t[n].Size = s[k].Base + s[k].Size
      /\ \A i \in 1 .. n - 1 : t[i + 1].Base = t[i].Base + t[i].Size
  BY DEF Tiles
<1> HIDE DEF r, n, m
<1>4. \A i \in 1 .. Len(r) : \/ i \in 1 .. k - 1
                             \/ \E j \in 1 .. n : i = k - 1 + j
                             \/ \E j \in 1 .. m - k : i = k - 1 + n + j
  <2> TAKE i \in 1 .. Len(r)
  <2>a. /\ i \in Int /\ k \in Int /\ n \in Int /\ m \in Int
        /\ 1 <= i /\ i <= k - 1 + n + (m - k)
    BY <1>0, <1>1
  <2>1. \/ i \in 1 .. k - 1
        \/ i - (k - 1) \in 1 .. n
        \/ i - (k - 1 + n) \in 1 .. m - k
    BY <2>a
  <2>2. i = k - 1 + (i - (k - 1)) /\ i = k - 1 + n + (i - (k - 1 + n))
    BY <1>0, <1>1
  <2> QED
    BY <2>1, <2>2, Zenon
<1>5. r[1].Base = lo
  <2>1. CASE k = 1
    <3>1. 1 \in 1 .. n /\ k - 1 + 1 = 1
      BY <1>0, <2>1
    <3>2. r[1] = t[1]
      BY <1>2, <3>1
    <3> QED
      BY <1>3, <2>1, <3>2
  <2>2. CASE k # 1
    <3>1. 1 \in 1 .. k - 1
      BY <1>0, <2>2
    <3> QED
      BY <1>2, <1>3, <3>1
  <2> QED
    BY <2>1, <2>2
<1>6. r[Len(r)].Base + r[Len(r)].Size = hi
  <2>1. CASE k = m
    <3>1. n \in 1 .. n /\ Len(r) = k - 1 + n
      BY <1>0, <1>1, <2>1
    <3>2. r[Len(r)] = t[n]
      BY <1>2, <3>1
    <3> QED
      BY <1>3, <2>1, <3>2
  <2>2. CASE k # m
    <3>1. m - k \in 1 .. m - k /\ k + (m - k) = m
      BY <1>0, <2>2
    <3>2. r[Len(r)] = s[m]
      BY <1>1, <1>2, <3>1
    <3> QED
      BY <1>3, <3>2
  <2> QED
    BY <2>1, <2>2
<1>7. ASSUME NEW i \in 1 .. Len(r) - 1 PROVE r[i + 1].Base = r[i].Base + r[i].Size
  <2>1. ASSUME i + 1 \in 1 .. k - 1 PROVE r[i + 1].Base = r[i].Base + r[i].Size
    <3>1. i \in 1 .. k - 1 /\ i \in 1 .. m - 1
      BY <1>0, <1>1, <2>1
    <3> QED
      BY <1>2, <1>3, <2>1, <3>1
  <2>2. ASSUME i + 1 = k PROVE r[i + 1].Base = r[i].Base + r[i].Size
    <3>1. i \in 1 .. k - 1 /\ i \in 1 .. m - 1 /\ 1 \in 1 .. n /\ k - 1 + 1 = k
      BY <1>0, <1>1, <2>2
    <3>2. r[i] = s[i] /\ r[k] = t[1]
      BY <1>2, <3>1
    <3> QED
      BY <1>3, <2>2, <3>1, <3>2
  <2>3. ASSUME NEW j \in 1 .. n - 1, i = k - 1 + j
        PROVE  r[i + 1].Base = r[i].Base + r[i].Size
    <3>1. j \in 1 .. n /\ j + 1 \in 1 .. n /\ i + 1 = k - 1 + (j + 1)
      BY <1>0, <2>3
    <3>2. r[i] = t[j] /\ r[i + 1] = t[j + 1]
      BY <1>2, <2>3, <3>1
    <3> QED
      BY <1>3, <3>2
  <2>4. ASSUME i = k - 1 + n PROVE r[i + 1].Base = r[i].Base + r[i].Size
    <3>1. n \in 1 .. n /\ 1 \in 1 .. m - k /\ i + 1 = k - 1 + n + 1 /\ k \in 1 .. m - 1
      BY <1>0, <1>1, <2>4
    <3>2. r[i] = t[n] /\ r[i + 1] = s[k + 1]
      BY <1>2, <2>4, <3>1
    <3> QED
      BY <1>3, <3>1, <3>2
  <2>5. ASSUME NEW j \in 1 .. m - k - 1, i = k - 1 + n + j
        PROVE  r[i + 1].Base = r[i].Base + r[i].Size
    <3>1. j \in 1 .. m - k /\ j + 1 \in 1 .. m - k /\ i + 1 = k - 1 + n + (j + 1)
      BY <1>0, <2>5
    <3>2. k + j \in 1 .. m - 1 /\ k + (j + 1) = (k + j) + 1
      BY <1>0
    <3>3. r[i] = s[k + j] /\ r[i + 1] = s[k + (j + 1)]
      BY <1>2, <2>5, <3>1
    <3>4. s[(k + j) + 1].Base = s[k + j].Base + s[k + j].Size
      BY <1>3, <3>2
    <3> QED
      BY <3>2, <3>3, <3>4
  <2>6. \/ i + 1 \in 1 .. k - 1 \/ i + 1 = k \/ i = k - 1 + n
        \/ i - (k - 1) \in 1 .. n - 1
        \/ i - (k - 1 + n) \in 1 .. m - k - 1
    BY <1>0, <1>1
  <2>7. i = k - 1 + (i - (k - 1)) /\ i = k - 1 + n + (i - (k - 1 + n))
    BY <1>0, <1>1
  <2> QED
    BY <2>1, <2>2, <2>3, <2>4, <2>5, <2>6, <2>7
<1>8. Tiles(r, lo, hi)
  <2>1. Len(r) >= 1
    BY <1>0, <1>1
  <2> QED
    BY <1>1, <1>5, <1>6, <1>7, <2>1 DEF Tiles
<1>9. \A b : (\E i \in 1 .. Len(r) : r[i] = b) =>
               (\E i \in 1 .. m : s[i] = b) \/ \E i \in 1 .. n : t[i] = b
  <2> SUFFICES ASSUME NEW i \in 1 .. Len(r)
               PROVE  (\E j \in 1 .. m : s[j] = r[i]) \/ \E j \in 1 .. n : t[j] = r[i]
    OBVIOUS
  <2>1. ASSUME i \in 1 .. k - 1 PROVE \E j \in 1 .. m : s[j] = r[i]
    <3>1. i \in 1 .. m
      BY <1>0, <2>1
    <3> QED
      BY <1>2, <2>1, <3>1
  <2>2. ASSUME NEW j \in 1 .. n, i = k - 1 + j PROVE \E x \in 1 .. n : t[x] = r[i]
    BY <1>2, <2>2
  <2>3. ASSUME NEW j \in 1 .. m - k, i = k - 1 + n + j PROVE \E x \in 1 .. m : s[x] = r[i]
    <3>1. k + j \in 1 .. m
      BY <1>0
    <3> QED
      BY <1>2, <2>3, <3>1
  <2> QED
    BY <1>4, <2>1, <2>2, <2>3
<1>10. \A b : (\E i \in 1 .. n : t[i] = b) => \E i \in 1 .. Len(r) : r[i] = b
  <2> SUFFICES ASSUME NEW j \in 1 .. n PROVE \E i \in 1 .. Len(r) : r[i] = t[j]
    OBVIOUS
  <2>1. k - 1 + j \in 1 .. Len(r)
    BY <1>0, <1>1
  <2> QED
    BY <1>2, <2>1
<1>11. \A b : b.Used /\ (\E i \in 1 .. m : s[i] = b) => \E i \in 1 .. Len(r) : r[i] = b
  <2> SUFFICES ASSUME NEW j \in 1 .. m, s[j].Used
               PROVE  \E i \in 1 .. Len(r) : r[i] = s[j]
    OBVIOUS
  <2>1. j # k
    OBVIOUS
  <2>2. CASE j < k
    <3>1. j \in 1 .. k - 1 /\ j \in 1 .. Len(r)
      BY <1>0, <1>1, <2>2
    <3> QED
      BY <1>2, <3>1
  <2>3. CASE j > k
    <3>1. j - k \in 1 .. m - k /\ k + (j - k) = j
      BY <1>0, <2>3
    <3>2. k - 1 + n + (j - k) \in 1 .. Len(r)
      BY <1>0, <1>1, <3>1
    <3>3. r[k - 1 + n + (j - k)] = s[j]
      BY <1>2, <3>1
    <3> QED
      BY <3>2, <3>3
  <2> QED
    BY <1>0, <2>1, <2>2, <2>3
<1>12. InUse(r) = InUse(s) \cup InUse(t)
  BY <1>9, <1>10, <1>11 DEF InUse, n, m
<1> QED
  BY <1>8, <1>12 DEF r
-----------------------------------------------------------------------------
(***************************************************************************)
(* What Malloc makes of a free block covers what the block covered, and    *)
(* the first piece is in use.                                              *)
(***************************************************************************)
LEMMA HalvesTile ==
  ASSUME NEW b \in BlockType, NEW size \in Nat \ {0}, b.Size >= size,
         NEW h \in 0 .. Order, B!IsHalvings(h, b, size)
  PROVE  /\ Tiles(B!Halves(b, h), b.Base, b.Base + b.Size)
         /\ InUse(B!Halves(b, h)) = {B!Block(b.Base, B!Halved(b)[h], TRUE)}
         /\ size <= B!Halved(b)[h] /\ B!Halved(b)[h] < 2 * size
<1> DEFINE half == B!Halved(b)
           t == B!Halves(b, h)
<1>0. /\ Order \in Nat /\ h \in Nat /\ b.Base \in Nat /\ b.Size \in Powers
      /\ b.Size \in Nat
  BY MemoryAssumption, PowersAre DEF B!ConstantsAssumption, BlockType
<1>1. /\ \A i \in 0 .. h : half[i] \in Powers /\ half[i] \in Nat
      /\ \A i \in 1 .. h : half[i - 1] = 2 * half[i]
      /\ size <= half[h] /\ half[h] < 2 * size
  BY <1>0, HalvingsAreExact, PowersAre
<1>2. half[0] = b.Size
  BY <1>0, HalvedRecursion
<1>3. t = [j \in 1 .. h + 1 |->
             IF j = 1 THEN B!Block(b.Base, half[h], TRUE)
             ELSE B!Block(b.Base + half[h - j + 2], half[h - j + 2], FALSE)]
  BY DEF B!Halves
<1> HIDE DEF half, t
<1>4. t[1] = B!Block(b.Base, half[h], TRUE) /\ t[1] \in BlockType
  <2>1. 1 \in 1 .. h + 1 /\ h \in 0 .. h
    BY <1>0
  <2>2. t[1] = B!Block(b.Base, half[h], TRUE)
    BY <1>3, <2>1
  <2> QED
    BY <1>0, <1>1, <2>1, <2>2 DEF B!Block, BlockType
<1>5. ASSUME NEW j \in 2 .. h + 1
      PROVE  /\ h - j + 2 \in 1 .. h
             /\ t[j] = B!Block(b.Base + half[h - j + 2], half[h - j + 2], FALSE)
             /\ t[j] \in BlockType
  <2>1. j \in 1 .. h + 1 /\ j # 1 /\ h - j + 2 \in 1 .. h /\ h - j + 2 \in 0 .. h
    BY <1>0
  <2>2. t[j] = B!Block(b.Base + half[h - j + 2], half[h - j + 2], FALSE)
    BY <1>3, <2>1
  <2>3. b.Base + half[h - j + 2] \in Nat
    BY <1>0, <1>1, <2>1
  <2> QED
    BY <1>1, <2>1, <2>2, <2>3 DEF B!Block, BlockType
<1>6. t \in Seq(BlockType) /\ Len(t) = h + 1
  <2>1. \A j \in 1 .. h + 1 : t[j] \in BlockType
    <3>1. \A j \in 1 .. h + 1 : j = 1 \/ j \in 2 .. h + 1
      BY <1>0
    <3> QED
      BY <1>4, <1>5, <3>1
  <2>2. t \in [1 .. h + 1 -> BlockType]
    BY <1>3, <2>1
  <2> QED
    BY <1>0, <2>2
<1>7. ASSUME NEW j \in 1 .. Len(t) - 1
      PROVE  t[j + 1].Base = t[j].Base + t[j].Size
  <2>1. j + 1 \in 2 .. h + 1 /\ h - (j + 1) + 2 = h - j + 1
    BY <1>0, <1>6
  <2>2. t[j + 1].Base = b.Base + half[h - j + 1]
    <3>1. t[j + 1] = B!Block(b.Base + half[h - (j + 1) + 2], half[h - (j + 1) + 2], FALSE)
      BY <1>5, <2>1
    <3> QED
      BY <2>1, <3>1 DEF B!Block
  <2>3. CASE j = 1
    BY <1>0, <1>4, <2>2, <2>3 DEF B!Block
  <2>4. CASE j # 1
    <3>1. j \in 2 .. h + 1 /\ (h - j + 2) - 1 = h - j + 1
      BY <1>0, <1>6, <2>4
    <3>2. h - j + 2 \in 1 .. h /\ h - j + 2 \in 0 .. h
      BY <1>0, <3>1
    <3>3. half[h - j + 1] = 2 * half[h - j + 2] /\ half[h - j + 2] \in Nat
      BY <1>1, <3>1, <3>2
    <3>4. t[j].Base = b.Base + half[h - j + 2] /\ t[j].Size = half[h - j + 2]
      <4>1. t[j] = B!Block(b.Base + half[h - j + 2], half[h - j + 2], FALSE)
        BY <1>5, <3>1
      <4> QED
        BY <4>1 DEF B!Block
    <3> QED
      BY <1>0, <2>2, <3>3, <3>4
  <2> QED
    BY <2>3, <2>4
<1>8. t[Len(t)].Base + t[Len(t)].Size = b.Base + b.Size
  <2>1. CASE h = 0
    BY <1>0, <1>2, <1>4, <1>6, <2>1 DEF B!Block
  <2>2. CASE h # 0
    <3>1. h + 1 \in 2 .. h + 1 /\ h - (h + 1) + 2 = 1 /\ 1 \in 1 .. h /\ 1 \in 0 .. h /\ 1 - 1 = 0
      BY <1>0, <2>2
    <3>2. half[0] = 2 * half[1] /\ half[1] \in Nat
      BY <1>1, <3>1
    <3>3. t[h + 1].Base = b.Base + half[1] /\ t[h + 1].Size = half[1]
      <4>1. t[h + 1] = B!Block(b.Base + half[h - (h + 1) + 2], half[h - (h + 1) + 2], FALSE)
        BY <1>5, <3>1
      <4> QED
        BY <3>1, <4>1 DEF B!Block
    <3> QED
      BY <1>0, <1>2, <1>6, <3>2, <3>3
  <2> QED
    BY <2>1, <2>2
<1>9. Tiles(t, b.Base, b.Base + b.Size)
  <2>1. t[1].Base = b.Base /\ Len(t) >= 1
    BY <1>0, <1>4, <1>6 DEF B!Block
  <2> QED
    BY <1>6, <1>7, <1>8, <2>1 DEF Tiles
<1>10. InUse(t) = {B!Block(b.Base, half[h], TRUE)}
  <2>1. t[1].Used /\ 1 \in 1 .. Len(t)
    BY <1>0, <1>4, <1>6 DEF B!Block
  <2>2. \A j \in 1 .. Len(t) : j # 1 => ~t[j].Used
    <3>1. \A j \in 1 .. Len(t) : j # 1 => j \in 2 .. h + 1
      BY <1>0, <1>6
    <3>3. ASSUME NEW j \in 2 .. h + 1 PROVE ~t[j].Used
      <4>1. t[j] = B!Block(b.Base + half[h - j + 2], half[h - j + 2], FALSE)
        BY <1>5
      <4> QED
        BY <4>1 DEF B!Block
    <3> QED
      BY <3>1, <3>3
  <2>3. InUse(t) = {t[1]}
    BY <1>4, <2>1, <2>2 DEF InUse
  <2> QED
    BY <1>4, <2>3
<1> QED
  BY <1>1, <1>9, <1>10 DEF half, t

(***************************************************************************)
(* A merge leaves one block less, covers the same and keeps what is in     *)
(* use.                                                                    *)
(***************************************************************************)
LEMMA MergeTiles ==
  ASSUME NEW s, NEW k \in 1 .. Len(s), Tiles(s, 0, B!HeapSize), B!Mergeable(s, k)
  PROVE  /\ Tiles(B!MergeAt(s, k), 0, B!HeapSize)
         /\ InUse(B!MergeAt(s, k)) = InUse(s)
         /\ Len(B!MergeAt(s, k)) = Len(s) - 1
<1> DEFINE n == Len(s)
           c == [s[k] EXCEPT !.Size = 2 * @]
           u == SubSeq(s, 1, k - 1)
           v == SubSeq(s, k + 2, n)
           r == B!MergeAt(s, k)
<1>0. /\ s \in Seq(BlockType) /\ n \in Nat /\ k \in 1 .. n - 1 /\ k + 1 \in 1 .. n /\ k \in 1 .. n
      /\ ~s[k].Used /\ ~s[k + 1].Used /\ s[k].Size = s[k + 1].Size
      /\ \A i \in 1 .. n - 1 : s[i + 1].Base = s[i].Base + s[i].Size
      /\ s[1].Base = 0 /\ s[n].Base + s[n].Size = B!HeapSize
  BY DEF Tiles, B!Mergeable
<1>a. \A i \in 1 .. n : s[i] \in BlockType /\ s[i].Base \in Nat /\ s[i].Size \in Powers /\ s[i].Size \in Nat \ {0}
  BY <1>0, BlocksAreTyped
<1>1. /\ c \in BlockType /\ c.Base = s[k].Base /\ c.Size = 2 * s[k].Size /\ ~c.Used
  <2>1. 2 * s[k].Size \in Powers
    <3>1. s[k + 1].Base + s[k + 1].Size <= B!HeapSize
      BY <1>0, BlocksInOrder
    <3>2. s[k + 1].Base = s[k].Base + s[k].Size
      BY <1>0
    <3>3. 2 * s[k].Size <= B!HeapSize
      <4>1. B!HeapSize \in Nat
        BY PowersAre
      <4>2. s[k].Base \in Nat /\ s[k].Size \in Nat /\ s[k + 1].Size = s[k].Size
        BY <1>0, <1>a
      <4> HIDE DEF n
      <4> QED
        BY <3>1, <3>2, <4>1, <4>2, SMTT(30)
    <3> QED
      BY <1>0, <1>a, <3>3, PowersAre
  <2>2. s[k] \in [Base : Nat, Size : Powers, Used : BOOLEAN]
    BY <1>0, <1>a DEF BlockType
  <2>3. c = [Base |-> s[k].Base, Size |-> 2 * s[k].Size, Used |-> s[k].Used]
    BY <2>2
  <2> HIDE DEF c
  <2> QED
    BY <1>0, <1>a, <2>1, <2>2, <2>3 DEF BlockType
<1>2. u \in Seq(BlockType) /\ Len(u) = k - 1 /\ \A i \in 1 .. k - 1 : u[i] = s[i]
  BY <1>0
<1>3. /\ v \in Seq(BlockType) /\ Len(v) = n - k - 1
      /\ \A i \in 1 .. n - k - 1 : v[i] = s[k + 1 + i]
  BY <1>0
<1>4. r = (u \o <<c>>) \o v
  BY DEF B!MergeAt
<1> HIDE DEF c, u, v, r
<1>5. /\ u \o <<c>> \in Seq(BlockType) /\ Len(u \o <<c>>) = k
      /\ (u \o <<c>>)[k] = c
      /\ \A i \in 1 .. k - 1 : (u \o <<c>>)[i] = s[i]
  <2>1. <<c>> \in Seq(BlockType) /\ Len(<<c>>) = 1 /\ <<c>>[1] = c
    BY <1>1
  <2>2. /\ u \o <<c>> \in Seq(BlockType) /\ Len(u \o <<c>>) = Len(u) + 1
        /\ \A i \in 1 .. Len(u) : (u \o <<c>>)[i] = u[i]
        /\ (u \o <<c>>)[Len(u) + 1] = c
    BY <1>2, <2>1, ConcatenationIs
  <2>3. k - 1 + 1 = k
    BY <1>0
  <2> QED
    BY <1>2, <2>2, <2>3
<1> DEFINE w == u \o <<c>>
<1> HIDE DEF w
<1>6. /\ w \o v \in Seq(BlockType) /\ Len(w \o v) = Len(w) + Len(v)
      /\ \A i \in 1 .. Len(w) : (w \o v)[i] = w[i]
      /\ \A j \in 1 .. Len(v) : (w \o v)[Len(w) + j] = v[j]
  <2>1. w \in Seq(BlockType)
    BY <1>5 DEF w
  <2> QED
    BY <1>3, <2>1, ConcatenationIs
<1>7. /\ r \in Seq(BlockType) /\ Len(r) = n - 1
      /\ \A i \in 1 .. k - 1 : r[i] = s[i]
      /\ r[k] = c
      /\ \A j \in 1 .. n - k - 1 : r[k + j] = s[k + 1 + j]
  <2>1. r = w \o v /\ Len(w) = k /\ w[k] = c /\ \A i \in 1 .. k - 1 : w[i] = s[i]
    <3>1. r = w \o v
      BY <1>4, Zenon DEF w
    <3>2. Len(w) = k /\ w[k] = c /\ \A i \in 1 .. k - 1 : w[i] = s[i]
      BY <1>5, Zenon DEF w
    <3> QED
      BY <3>1, <3>2, Zenon
  <2>2. Len(r) = n - 1
    <3>1. Len(r) = Len(w) + Len(v)
      BY <1>6, <2>1, Zenon
    <3>2. n \in Int /\ k \in Int /\ Len(w) = k /\ Len(v) = n - k - 1
      BY <1>0, <1>3, <2>1
    <3> QED
      BY <3>1, <3>2
  <2>3. \A i \in 1 .. k - 1 : r[i] = s[i]
    BY <1>0, <1>6, <2>1
  <2>4. r[k] = c
    BY <1>0, <1>6, <2>1
  <2>5. \A j \in 1 .. n - k - 1 : r[k + j] = s[k + 1 + j]
    BY <1>3, <1>6, <2>1
  <2> QED
    BY <1>6, <2>1, <2>2, <2>3, <2>4, <2>5
<1> HIDE DEF n
<1>8. r[1].Base = 0
  <2>1. CASE k = 1
    BY <1>0, <1>1, <1>7, <2>1
  <2>2. CASE k # 1
    <3>1. 1 \in 1 .. k - 1
      BY <1>0, <2>2
    <3> QED
      BY <1>0, <1>7, <3>1
  <2> QED
    BY <2>1, <2>2
<1>b. s[k + 1].Base = s[k].Base + s[k].Size
  BY <1>0
<1>c. c.Base + c.Size = s[k + 1].Base + s[k + 1].Size
  <2>1. s[k].Base \in Nat /\ s[k].Size \in Nat
    BY <1>0, <1>a
  <2> QED
    BY <1>0, <1>1, <1>b, <2>1
<1>9. r[n - 1].Base + r[n - 1].Size = B!HeapSize
  <2>1. CASE k = n - 1
    <3>1. r[n - 1] = c /\ k + 1 = n
      BY <1>0, <1>7, <2>1
    <3> QED
      BY <1>0, <1>c, <3>1
  <2>2. CASE k # n - 1
    <3>a. n \in Int /\ k \in Int /\ 1 <= k /\ k < n - 1
      BY <1>0, <2>2
    <3>1. n - k - 1 \in 1 .. n - k - 1 /\ k + (n - k - 1) = n - 1 /\ k + 1 + (n - k - 1) = n
      BY <3>a
    <3>2. r[n - 1] = s[n]
      BY <1>7, <3>1
    <3> QED
      BY <1>0, <3>2
  <2> QED
    BY <2>1, <2>2
<1>10. ASSUME NEW i \in 1 .. n - 2 PROVE r[i + 1].Base = r[i].Base + r[i].Size
  <2>1. ASSUME i + 1 \in 1 .. k - 1 PROVE r[i + 1].Base = r[i].Base + r[i].Size
    <3>1. i \in 1 .. k - 1 /\ i \in 1 .. n - 1
      BY <1>0, <2>1, SMTT(30)
    <3> QED
      BY <1>0, <1>7, <2>1, <3>1
  <2>2. ASSUME i + 1 = k PROVE r[i + 1].Base = r[i].Base + r[i].Size
    <3>1. i \in 1 .. k - 1 /\ i \in 1 .. n - 1
      BY <1>0, <2>2
    <3>2. r[i] = s[i] /\ r[i + 1] = c
      BY <1>7, <2>2, <3>1
    <3> QED
      BY <1>0, <1>1, <2>2, <3>1, <3>2
  <2>3. ASSUME i = k PROVE r[i + 1].Base = r[i].Base + r[i].Size
    <3>1. 1 \in 1 .. n - k - 1 /\ k + 1 \in 1 .. n - 1
      BY <1>0, <2>3
    <3>2. r[k + 1] = s[k + 1 + 1]
      BY <1>7, <3>1
    <3>3. s[k + 1 + 1].Base = s[k + 1].Base + s[k + 1].Size
      BY <1>0, <3>1
    <3> QED
      BY <1>7, <1>c, <2>3, <3>2, <3>3
  <2>4. ASSUME NEW j \in 1 .. n - k - 2, i = k + j
        PROVE  r[i + 1].Base = r[i].Base + r[i].Size
    <3>1. j \in 1 .. n - k - 1 /\ j + 1 \in 1 .. n - k - 1 /\ i + 1 = k + (j + 1)
      BY <1>0, <2>4
    <3>2. k + 1 + j \in 1 .. n - 1 /\ k + 1 + (j + 1) = (k + 1 + j) + 1
      BY <1>0
    <3>3. r[i] = s[k + 1 + j] /\ r[i + 1] = s[k + 1 + (j + 1)]
      BY <1>7, <2>4, <3>1
    <3>4. s[(k + 1 + j) + 1].Base = s[k + 1 + j].Base + s[k + 1 + j].Size
      BY <1>0, <3>2
    <3> QED
      BY <3>2, <3>3, <3>4
  <2>5. \/ i + 1 \in 1 .. k - 1 \/ i + 1 = k \/ i = k \/ i - k \in 1 .. n - k - 2
    BY <1>0, SMTT(30)
  <2>6. i = k + (i - k)
    BY <1>0
  <2> QED
    BY <2>1, <2>2, <2>3, <2>4, <2>5, <2>6
<1>11. Tiles(r, 0, B!HeapSize)
  <2>1. Len(r) >= 1 /\ Len(r) - 1 = n - 2
    BY <1>0, <1>7
  <2> QED
    BY <1>7, <1>8, <1>9, <1>10, <2>1 DEF Tiles
<1>12. \A b : b.Used /\ (\E i \in 1 .. Len(r) : r[i] = b) => \E i \in 1 .. n : s[i] = b
  <2> SUFFICES ASSUME NEW i \in 1 .. n - 1, r[i].Used
               PROVE  \E j \in 1 .. n : s[j] = r[i]
    BY <1>7
  <2>1. i # k
    BY <1>1, <1>7
  <2>2. CASE i < k
    <3>1. i \in 1 .. k - 1 /\ i \in 1 .. n
      BY <1>0, <2>2
    <3> QED
      BY <1>7, <3>1
  <2>3. CASE i > k
    <3>a. n \in Int /\ k \in Int /\ i \in Int /\ 1 <= k /\ k < i /\ i <= n - 2 + 1
      BY <1>0, <2>3
    <3>1. i - k \in 1 .. n - k - 1 /\ k + (i - k) = i /\ k + 1 + (i - k) \in 1 .. n
      BY <3>a
    <3>2. r[i] = s[k + 1 + (i - k)]
      BY <1>7, <3>1
    <3> QED
      BY <3>1, <3>2
  <2> QED
    BY <1>0, <2>1, <2>2, <2>3
<1>13. \A b : b.Used /\ (\E i \in 1 .. n : s[i] = b) => \E i \in 1 .. Len(r) : r[i] = b
  <2> SUFFICES ASSUME NEW j \in 1 .. n, s[j].Used
               PROVE  \E i \in 1 .. n - 1 : r[i] = s[j]
    BY <1>7
  <2>1. j # k /\ j # k + 1
    BY <1>0
  <2>2. CASE j < k
    <3>1. j \in 1 .. k - 1 /\ j \in 1 .. n - 1
      BY <1>0, <2>2
    <3> QED
      BY <1>7, <3>1
  <2>3. CASE j > k + 1
    <3>1. /\ j - k - 1 \in 1 .. n - k - 1 /\ k + 1 + (j - k - 1) = j
          /\ k + (j - k - 1) \in 1 .. n - 1
      BY <1>0, <2>3
    <3>2. r[k + (j - k - 1)] = s[j]
      BY <1>7, <3>1
    <3> QED
      BY <3>1, <3>2
  <2> QED
    BY <1>0, <2>1, <2>2, <2>3
<1>14. InUse(r) = InUse(s)
  BY <1>12, <1>13 DEF InUse, n
<1> QED
  BY <1>7, <1>11, <1>14 DEF r, n
-----------------------------------------------------------------------------
(***************************************************************************)
(* mergeBuddy.  Every merge leaves one block less, so after as many of     *)
(* them as there were blocks there is nothing to merge.                    *)
(***************************************************************************)
Tilings == {s \in Seq(BlockType) : Tiles(s, 0, B!HeapSize)}

LEMMA MergeFirstTiles ==
  ASSUME NEW s \in Tilings
  PROVE  /\ B!MergeFirst(s) \in Tilings
         /\ InUse(B!MergeFirst(s)) = InUse(s)
         /\ \/ Len(B!MergeFirst(s)) = Len(s) - 1
            \/ /\ B!MergeFirst(s) = s
               /\ \A k \in 1 .. Len(s) : ~B!Mergeable(s, k)
<1> DEFINE First(k) == B!Mergeable(s, k) /\ \A i \in 1 .. k - 1 : ~B!Mergeable(s, i)
<1>0. s \in Seq(BlockType) /\ Tiles(s, 0, B!HeapSize) /\ DOMAIN s = 1 .. Len(s) /\ Len(s) \in Nat
  BY DEF Tilings
<1>1. CASE \E k \in DOMAIN s : B!Mergeable(s, k)
  <2> DEFINE S == {k \in Nat : k \in 1 .. Len(s) /\ B!Mergeable(s, k)}
             k0 == CHOOSE k \in DOMAIN s : First(k)
  <2>1. PICK m \in S : \A i \in S : m <= i
    <3>1. S \subseteq Nat /\ S # {}
      BY <1>0, <1>1
    <3> HIDE DEF S
    <3> QED
      BY <3>1, LeastNatural
  <2>2. m \in DOMAIN s /\ First(m)
    BY <1>0, <2>1
  <2>3. k0 \in DOMAIN s /\ First(k0)
    <3> HIDE DEF First
    <3> QED
      BY <2>2
  <2>4. B!MergeFirst(s) = B!MergeAt(s, k0)
    BY <1>1 DEF B!MergeFirst
  <2> HIDE DEF k0
  <2>5. /\ Tiles(B!MergeAt(s, k0), 0, B!HeapSize)
        /\ InUse(B!MergeAt(s, k0)) = InUse(s)
        /\ Len(B!MergeAt(s, k0)) = Len(s) - 1
    BY <1>0, <2>3, MergeTiles
  <2>6. B!MergeAt(s, k0) \in Seq(BlockType)
    BY <2>5 DEF Tiles
  <2> QED
    BY <2>4, <2>5, <2>6, Zenon DEF Tilings
<1>2. CASE ~\E k \in DOMAIN s : B!Mergeable(s, k)
  BY <1>0, <1>2 DEF B!MergeFirst
<1> QED
  BY <1>1, <1>2

LEMMA MergedTiles ==
  ASSUME NEW s, Tiles(s, 0, B!HeapSize)
  PROVE  /\ Tiles(B!Merged(s), 0, B!HeapSize)
         /\ InUse(B!Merged(s)) = InUse(s)
         /\ \A k \in 1 .. Len(B!Merged(s)) : ~B!Mergeable(B!Merged(s), k)
<1> DEFINE L == Len(s)
           merge == [m \in (1 .. L) \X Tilings |-> B!MergeFirst(m[2])]
           IsAfter(f) == f = [n \in 0 .. L |-> IF n = 0 THEN s ELSE B!MergeFirst(f[n - 1])]
           after == CHOOSE f : IsAfter(f)
           Unmergeable(t) == \A k \in 1 .. Len(t) : ~B!Mergeable(t, k)
           T == {n \in Nat : n <= L => /\ after[n] \in Tilings
                                       /\ InUse(after[n]) = InUse(s)
                                       /\ Len(after[n]) <= L - n \/ Unmergeable(after[n])}
<1>0. s \in Tilings /\ L \in Nat /\ L >= 1
  BY DEF Tilings, Tiles
<1>1. \E f : IsAfter(f)
  <2>1. merge \in [(1 .. L) \X Tilings -> Tilings]
    BY MergeFirstTiles
  <2>2. PICK f \in [0 .. L -> Tilings] : Iterates(f, s, merge, L)
    <3> HIDE DEF merge, L
    <3> QED
      BY <1>0, <2>1, IterationExists, Zenon
  <2>3. \A n \in 1 .. L : f[n] = B!MergeFirst(f[n - 1])
    <3>1. \A n \in 1 .. L : f[n - 1] \in Tilings
      BY <1>0
    <3> QED
      BY <2>2, <3>1 DEF Iterates
  <2>4. IsAfter(f)
    BY <1>0, <2>2, <2>3 DEF Iterates
  <2> QED
    BY <2>4
<1>2. B!Merged(s) = after[L]
  BY DEF B!Merged
<1>3. IsAfter(after)
  <2> HIDE DEF IsAfter
  <2> QED
    BY <1>1
<1> HIDE DEF after
<1>4. after[0] = s /\ \A n \in 1 .. L : after[n] = B!MergeFirst(after[n - 1])
  BY <1>0, <1>3
<1> HIDE DEF L
<1>5. 0 \in T
  BY <1>0, <1>4 DEF L
<1>6. ASSUME NEW n \in Nat, n \in T PROVE n + 1 \in T
  <2> SUFFICES ASSUME n + 1 <= L
               PROVE  /\ after[n + 1] \in Tilings
                      /\ InUse(after[n + 1]) = InUse(s)
                      /\ Len(after[n + 1]) <= L - (n + 1) \/ Unmergeable(after[n + 1])
    OBVIOUS
  <2>1. /\ after[n] \in Tilings /\ InUse(after[n]) = InUse(s)
        /\ Len(after[n]) <= L - n \/ Unmergeable(after[n])
    BY <1>0, <1>6
  <2>2. after[n + 1] = B!MergeFirst(after[n])
    BY <1>0, <1>4
  <2>3. /\ after[n + 1] \in Tilings /\ InUse(after[n + 1]) = InUse(after[n])
        /\ \/ Len(after[n + 1]) = Len(after[n]) - 1
           \/ after[n + 1] = after[n] /\ Unmergeable(after[n])
    BY <2>1, <2>2, MergeFirstTiles
  <2>4. Len(after[n]) \in Nat
    BY <2>1 DEF Tilings
  <2>5. CASE after[n + 1] = after[n] /\ Unmergeable(after[n])
    <3> HIDE DEF Unmergeable
    <3> QED
      BY <2>1, <2>5
  <2>6. CASE Len(after[n + 1]) = Len(after[n]) - 1 /\ Len(after[n]) <= L - n
    BY <1>0, <2>1, <2>3, <2>4, <2>6
  <2>7. CASE Unmergeable(after[n])
    <3>1. ~\E k \in DOMAIN after[n] : B!Mergeable(after[n], k)
      BY <2>1, <2>7 DEF Tilings
    <3>2. after[n + 1] = after[n]
      BY <2>2, <3>1 DEF B!MergeFirst
    <3> HIDE DEF Unmergeable
    <3> QED
      BY <2>1, <2>7, <3>2
  <2> HIDE DEF Unmergeable
  <2> QED
    BY <2>1, <2>3, <2>5, <2>6, <2>7
<1>7. L \in T
  <2> HIDE DEF T
  <2> QED
    BY <1>0, <1>5, <1>6, SetInduction
<1>8. /\ after[L] \in Tilings /\ InUse(after[L]) = InUse(s)
      /\ Len(after[L]) <= 0 \/ Unmergeable(after[L])
  BY <1>0, <1>7
<1>9. Tiles(after[L], 0, B!HeapSize) /\ Len(after[L]) >= 1 /\ Len(after[L]) \in Nat
  BY <1>8 DEF Tilings, Tiles
<1> QED
  BY <1>2, <1>8, <1>9
-----------------------------------------------------------------------------
(***************************************************************************)
(* The heap.  Every block in use is held for exactly one range, and every  *)
(* range has one.                                                          *)
(***************************************************************************)
Holds(b, r) == r.Base = b.Base /\ r.Size <= b.Size /\ b.Size < 2 * r.Size

HeapInv ==
  /\ Tiles(blocks, 0, B!HeapSize)
  /\ ranges \subseteq [Base : Nat, Size : Nat \ {0}]
  /\ \A b \in InUse(blocks) : \E r \in ranges : Holds(b, r)
  /\ \A r \in ranges : \E b \in InUse(blocks) : Holds(b, r)
  /\ \A r, o \in ranges : r.Base = o.Base => r = o

LEMMA InitHeapInv == B!Init => HeapInv
<1> SUFFICES ASSUME B!Init PROVE HeapInv
  OBVIOUS
<1>1. blocks = <<B!Block(0, B!HeapSize, FALSE)>> /\ ranges = {}
  BY DEF B!Init
<1>2. B!HeapSize \in Powers /\ B!HeapSize \in Nat
  BY PowersAre
<1>3. B!Block(0, B!HeapSize, FALSE) \in BlockType
  BY <1>2 DEF B!Block, BlockType
<1>4. /\ blocks \in Seq(BlockType) /\ Len(blocks) = 1
      /\ blocks[1] = B!Block(0, B!HeapSize, FALSE)
  <2> DEFINE b == B!Block(0, B!HeapSize, FALSE)
  <2> HIDE DEF b
  <2>1. b \in BlockType /\ blocks = <<b>>
    BY <1>1, <1>3 DEF b
  <2>2. blocks \in Seq(BlockType) /\ Len(blocks) = 1 /\ blocks[1] = b
    BY <2>1
  <2> QED
    BY <2>2 DEF b
<1>5. Tiles(blocks, 0, B!HeapSize)
  BY <1>2, <1>4 DEF Tiles, B!Block
<1>6. InUse(blocks) = {}
  BY <1>4 DEF InUse, B!Block
<1> QED
  BY <1>1, <1>5, <1>6 DEF HeapInv

\* Blocks in use that start at the same address are the same block.
LEMMA OneBlockPerAddress ==
  ASSUME NEW s, Tiles(s, 0, B!HeapSize), NEW k \in 1 .. Len(s),
         NEW b \in InUse(s), b.Base = s[k].Base
  PROVE  b = s[k]
<1>1. PICK j \in 1 .. Len(s) : s[j] = b
  BY DEF InUse
<1>2. j = k
  BY <1>1, BlocksInOrder
<1> QED
  BY <1>1, <1>2

LEMMA MallocHeapInv ==
  ASSUME HeapInv, NEW size \in Sizes, B!Malloc(size)
  PROVE  HeapInv'
<1>0. /\ Tiles(blocks, 0, B!HeapSize) /\ blocks \in Seq(BlockType)
      /\ size \in Nat \ {0} /\ DOMAIN blocks = 1 .. Len(blocks)
  BY MemoryAssumption DEF HeapInv, Tiles, B!ConstantsAssumption
<1>1. PICK k \in 1 .. Len(blocks), h \in 0 .. Order :
        /\ ~blocks[k].Used /\ blocks[k].Size >= size
        /\ B!IsHalvings(h, blocks[k], size)
        /\ blocks' = B!Replaced(k, B!Halves(blocks[k], h))
        /\ ranges' = ranges \cup {[Base |-> blocks[k].Base, Size |-> size]}
  BY <1>0 DEF B!Malloc, B!IsFirstFit, B!Fits
<1> DEFINE b == blocks[k]
           t == B!Halves(b, h)
           new == B!Block(b.Base, B!Halved(b)[h], TRUE)
           r == [Base |-> b.Base, Size |-> size]
<1>2. b \in BlockType /\ b.Base \in Nat
  BY <1>0, BlocksAreTyped
<1>3. /\ Tiles(t, b.Base, b.Base + b.Size) /\ InUse(t) = {new}
      /\ size <= B!Halved(b)[h] /\ B!Halved(b)[h] < 2 * size
  BY <1>0, <1>1, <1>2, HalvesTile
<1>4. blocks' = Inserted(blocks, k, t)
  <2>1. blocks' = B!Replaced(k, t)
    BY <1>1
  <2>2. B!Replaced(k, t) = Inserted(blocks, k, t)
    BY Zenon DEF B!Replaced, Inserted
  <2> QED
    BY <2>1, <2>2
<1>5. Tiles(blocks', 0, B!HeapSize) /\ InUse(blocks') = InUse(blocks) \cup InUse(t)
  <2>1. Tiles(t, blocks[k].Base, blocks[k].Base + blocks[k].Size) /\ ~blocks[k].Used
    BY <1>1, <1>3
  <2> HIDE DEF b, t
  <2>2. /\ Tiles(Inserted(blocks, k, t), 0, B!HeapSize)
        /\ InUse(Inserted(blocks, k, t)) = InUse(blocks) \cup InUse(t)
    BY <1>0, <2>1, InsertedTiles
  <2> QED
    BY <1>4, <2>2, Zenon
<1>6. Holds(new, r)
  BY <1>3 DEF Holds, B!Block
<1>7. r \in [Base : Nat, Size : Nat \ {0}]
  BY <1>0, <1>2
<1>8. \A o \in ranges : o.Base # b.Base
  <2> SUFFICES ASSUME NEW o \in ranges, o.Base = b.Base PROVE FALSE
    OBVIOUS
  <2>1. PICK c \in InUse(blocks) : Holds(c, o)
    BY DEF HeapInv
  <2>2. c.Base = b.Base
    BY <2>1 DEF Holds
  <2>3. c = b
    BY <1>0, <1>1, <2>2, OneBlockPerAddress
  <2> QED
    BY <1>1, <2>3 DEF InUse
<1>9. r.Base = b.Base /\ ranges' = ranges \cup {r}
  BY <1>1
<1> HIDE DEF b, t, new, r
<1>10. \A c \in InUse(blocks') : \E o \in ranges' : Holds(c, o)
  BY <1>3, <1>5, <1>6, <1>9 DEF HeapInv
<1>11. \A o \in ranges' : \E c \in InUse(blocks') : Holds(c, o)
  BY <1>3, <1>5, <1>6, <1>9 DEF HeapInv
<1>12. \A q, o \in ranges' : q.Base = o.Base => q = o
  BY <1>8, <1>9 DEF HeapInv
<1>13. ranges' \subseteq [Base : Nat, Size : Nat \ {0}]
  BY <1>7, <1>9 DEF HeapInv
<1>14. Tiles(blocks, 0, B!HeapSize)' /\ InUse(blocks)' = InUse(blocks')
  BY <1>5 DEF Tiles, InUse, BlockType, Powers
<1> QED
  BY <1>10, <1>11, <1>12, <1>13, <1>14 DEF HeapInv

LEMMA FreeHeapInv ==
  ASSUME HeapInv, NEW r \in ranges, B!Free(r)
  PROVE  /\ HeapInv'
         /\ \A k \in DOMAIN blocks' : ~B!Mergeable(blocks', k)
<1>0. /\ Tiles(blocks, 0, B!HeapSize) /\ blocks \in Seq(BlockType)
      /\ DOMAIN blocks = 1 .. Len(blocks) /\ Len(blocks) \in Nat
  BY DEF HeapInv, Tiles
<1>1. PICK k \in 1 .. Len(blocks) :
        /\ blocks[k].Base = r.Base
        /\ blocks' = B!Merged([blocks EXCEPT ![k].Used = FALSE])
        /\ ranges' = ranges \ {r}
  BY <1>0 DEF B!Free
<1> DEFINE s == [blocks EXCEPT ![k].Used = FALSE]
<1>2. PICK b \in InUse(blocks) : Holds(b, r)
  BY DEF HeapInv
<1>3. b = blocks[k] /\ b \in BlockType
  <2>1. b.Base = blocks[k].Base
    BY <1>1, <1>2 DEF Holds
  <2> QED
    BY <1>0, <2>1, OneBlockPerAddress DEF InUse
<1>4. /\ [blocks[k] EXCEPT !.Used = FALSE] \in BlockType
      /\ [blocks[k] EXCEPT !.Used = FALSE].Base = blocks[k].Base
      /\ [blocks[k] EXCEPT !.Used = FALSE].Size = blocks[k].Size
      /\ ~[blocks[k] EXCEPT !.Used = FALSE].Used
  BY <1>3 DEF BlockType
<1>5. /\ s \in Seq(BlockType) /\ Len(s) = Len(blocks)
      /\ \A i \in 1 .. Len(blocks) :
           s[i] = IF i = k THEN [blocks[k] EXCEPT !.Used = FALSE] ELSE blocks[i]
  BY <1>0, <1>4
<1> HIDE DEF s
<1>6. \A i \in 1 .. Len(blocks) :
        /\ s[i].Base = blocks[i].Base /\ s[i].Size = blocks[i].Size
        /\ s[i].Used => i # k /\ s[i] = blocks[i]
        /\ i # k => s[i] = blocks[i]
  BY <1>4, <1>5
<1>7. Tiles(s, 0, B!HeapSize)
  <2>1. /\ Len(blocks) >= 1 /\ blocks[1].Base = 0
        /\ \A i \in 1 .. Len(blocks) - 1 : blocks[i + 1].Base = blocks[i].Base + blocks[i].Size
        /\ blocks[Len(blocks)].Base + blocks[Len(blocks)].Size = B!HeapSize
    BY <1>0 DEF Tiles
  <2>2. /\ 1 \in 1 .. Len(blocks) /\ Len(blocks) \in 1 .. Len(blocks)
        /\ \A i \in 1 .. Len(blocks) - 1 : i \in 1 .. Len(blocks) /\ i + 1 \in 1 .. Len(blocks)
    BY <1>0, <2>1
  <2> QED
    BY <1>5, <1>6, <2>1, <2>2 DEF Tiles
<1>8. InUse(s) = InUse(blocks) \ {b}
  <2>1. ASSUME NEW i \in 1 .. Len(blocks), i # k PROVE blocks[i] # b
    BY <1>0, <1>3, <2>1, BlocksInOrder
  <2> QED
    BY <1>3, <1>5, <1>6, <2>1 DEF InUse
<1>9. /\ Tiles(blocks', 0, B!HeapSize) /\ InUse(blocks') = InUse(s)
      /\ \A i \in 1 .. Len(blocks') : ~B!Mergeable(blocks', i)
  BY <1>1, <1>7, MergedTiles DEF s
<1>10. \A c \in InUse(blocks') : \E o \in ranges' : Holds(c, o)
  <2> SUFFICES ASSUME NEW c \in InUse(blocks), c # b
               PROVE  \E o \in ranges' : Holds(c, o)
    BY <1>8, <1>9
  <2>1. PICK o \in ranges : Holds(c, o)
    BY DEF HeapInv
  <2>2. o # r
    <3> SUFFICES ASSUME o = r PROVE FALSE
      OBVIOUS
    <3>1. c.Base = blocks[k].Base
      BY <1>1, <2>1 DEF Holds
    <3> QED
      BY <1>0, <1>3, <3>1, OneBlockPerAddress
  <2> QED
    BY <1>1, <2>1, <2>2
<1>11. \A o \in ranges' : \E c \in InUse(blocks') : Holds(c, o)
  <2> SUFFICES ASSUME NEW o \in ranges, o # r
               PROVE  \E c \in InUse(blocks) \ {b} : Holds(c, o)
    BY <1>1, <1>8, <1>9
  <2>1. PICK c \in InUse(blocks) : Holds(c, o)
    BY DEF HeapInv
  <2>2. c # b
    BY <1>2, <2>1 DEF Holds, HeapInv
  <2> QED
    BY <2>1, <2>2
<1>12. ranges' \subseteq ranges
  BY <1>1
<1>13. Tiles(blocks, 0, B!HeapSize)' /\ InUse(blocks)' = InUse(blocks')
  BY <1>9 DEF Tiles, InUse, BlockType, Powers
<1>14. HeapInv'
  BY <1>9, <1>10, <1>11, <1>12, <1>13 DEF HeapInv
<1>15. DOMAIN blocks' = 1 .. Len(blocks')
  BY <1>9 DEF Tiles
<1> QED
  BY <1>9, <1>14, <1>15

LEMMA HeapStutter == ASSUME HeapInv, blocks' = blocks, ranges' = ranges PROVE HeapInv'
  BY DEF HeapInv, Tiles, InUse, BlockType, Powers

LEMMA NextHeapInv == HeapInv /\ B!Next => HeapInv'
<1> SUFFICES ASSUME HeapInv, B!Next PROVE HeapInv'
  OBVIOUS
<1>1. ASSUME NEW size \in Sizes, B!MallocFails(size) PROVE HeapInv'
  <2>1. <<blocks, ranges>>' = <<blocks, ranges>>
    BY <1>1, Zenon DEF B!MallocFails
  <2> QED
    BY <2>1, HeapStutter
<1>2. CASE B!Halted
  BY <1>2, HeapStutter DEF B!Halted
<1> QED
  BY <1>1, <1>2, MallocHeapInv, FreeHeapInv DEF B!Next
-----------------------------------------------------------------------------
(***************************************************************************)
(* Both together.  There is no range before there is a heap.               *)
(***************************************************************************)
MemoryInv == FrameInv /\ HeapInv /\ (ranges # {} => heap # 0)

LEMMA HeapStays == heap # 0 /\ F!Next => heap' = heap
<1> SUFFICES ASSUME heap # 0, F!Next PROVE heap' = heap
  OBVIOUS
<1> QED
  BY Zenon DEF F!Next, F!MemoryCheckout, F!AllocateOnePage, F!AllocatePagesContinuously,
               F!FreeOnePage, F!Fails, F!Halted

LEMMA MemoryInvHolds == Spec => []MemoryInv
<1>1. Init => MemoryInv
  <2>1. B!Init => ranges = {}
    BY Zenon DEF B!Init
  <2> QED
    BY <2>1, InitFrameInv, InitHeapInv DEF Init, MemoryInv
<1>2. MemoryInv /\ [Next]_<<frameVars, heapVars>> => MemoryInv'
  <2> SUFFICES ASSUME MemoryInv, [Next]_<<frameVars, heapVars>> PROVE MemoryInv'
    OBVIOUS
  <2>1. CASE F!Next /\ UNCHANGED heapVars
    <3>1. FrameInv' /\ HeapInv'
      BY <2>1, NextFrameInv, HeapStutter DEF MemoryInv
    <3>2. ranges' # {} => heap' # 0
      BY <2>1, HeapStays DEF MemoryInv
    <3> QED
      BY <3>1, <3>2 DEF MemoryInv
  <2>2. CASE heap # 0 /\ B!Next /\ UNCHANGED frameVars
    <3>1. FrameInv' /\ HeapInv'
      BY <2>2, NextHeapInv, FrameStutter DEF MemoryInv
    <3> QED
      BY <2>2, <3>1 DEF MemoryInv
  <2>3. CASE UNCHANGED <<frameVars, heapVars>>
    <3>1. FrameInv' /\ HeapInv'
      BY <2>3, HeapStutter, FrameStutter DEF MemoryInv
    <3> QED
      BY <2>3, <3>1 DEF MemoryInv
  <2> QED
    BY <2>1, <2>2, <2>3, Zenon DEF Next
<1> QED
  BY <1>1, <1>2, PTL DEF Spec

(***************************************************************************)
(* Both counters of frames say what the bytes of the frames say.           *)
(***************************************************************************)
THEOREM CountersMatch == Spec => []CountersExact
<1>1. MemoryInv => CountersExact
  BY DEF MemoryInv, FrameInv, CountersExact
<1> QED
  BY <1>1, MemoryInvHolds, PTL

(***************************************************************************)
(* The blocks cover the heap, whatever is split and merged.                *)
(***************************************************************************)
THEOREM HeapIsTiled == Spec => []BlocksTileHeap
<1>1. MemoryInv => BlocksTileHeap
  BY DEF MemoryInv, HeapInv, Tiles, BlocksTileHeap, B!BlocksTileHeap
<1> QED
  BY <1>1, MemoryInvHolds, PTL

-----------------------------------------------------------------------------
\* Ranges lie in the heap, one after the other.
LEMMA RangesApart ==
  ASSUME HeapInv, NEW r \in ranges
  PROVE  /\ r.Base \in Nat /\ r.Size \in Nat \ {0}
         /\ r.Base + r.Size <= B!HeapSize
         /\ \A o \in ranges : o # r => \/ r.Base + r.Size <= o.Base
                                       \/ o.Base + o.Size <= r.Base
<1>0. Tiles(blocks, 0, B!HeapSize) /\ blocks \in Seq(BlockType) /\ B!HeapSize \in Nat
  BY PowersAre DEF HeapInv, Tiles
<1>1. \A o \in ranges : o.Base \in Nat /\ o.Size \in Nat \ {0}
  BY DEF HeapInv
<1>2. ASSUME NEW o \in ranges
      PROVE  \E k \in 1 .. Len(blocks) :
               /\ blocks[k].Base = o.Base /\ o.Size <= blocks[k].Size
               /\ blocks[k].Size \in Nat
  <2>1. PICK b \in InUse(blocks) : Holds(b, o)
    BY DEF HeapInv
  <2>2. PICK k \in 1 .. Len(blocks) : blocks[k] = b
    BY DEF InUse
  <2>3. blocks[k].Size \in Nat
    BY <1>0, BlocksAreTyped
  <2> QED
    BY <2>1, <2>2, <2>3 DEF Holds
<1>3. PICK k \in 1 .. Len(blocks) :
        blocks[k].Base = r.Base /\ r.Size <= blocks[k].Size /\ blocks[k].Size \in Nat
  BY <1>2
<1>4. r.Base + r.Size <= B!HeapSize
  <2>1. blocks[k].Base + blocks[k].Size <= B!HeapSize
    BY <1>0, BlocksInOrder
  <2> QED
    BY <1>0, <1>1, <1>3, <2>1
<1>5. ASSUME NEW o \in ranges, o # r
      PROVE  r.Base + r.Size <= o.Base \/ o.Base + o.Size <= r.Base
  <2>1. PICK j \in 1 .. Len(blocks) :
          blocks[j].Base = o.Base /\ o.Size <= blocks[j].Size /\ blocks[j].Size \in Nat
    BY <1>2
  <2>2. j # k
    BY <1>3, <1>5, <2>1 DEF HeapInv
  <2>3. \/ blocks[k].Base + blocks[k].Size <= blocks[j].Base
        \/ blocks[j].Base + blocks[j].Size <= blocks[k].Base
    <3>1. j < k \/ k < j
      BY <2>2
    <3> QED
      BY <1>0, <3>1, BlocksInOrder
  <2>4. /\ r.Base \in Nat /\ r.Size \in Nat /\ o.Base \in Nat /\ o.Size \in Nat
    BY <1>1
  <2> QED
    BY <1>3, <2>1, <2>3, <2>4, SMTT(30)
<1> QED
  BY <1>1, <1>4, <1>5

RangesAreApart ==
  \A q \in ranges :
    /\ q.Base \in Nat /\ q.Size \in Nat \ {0}
    /\ q.Base + q.Size <= B!HeapSize
    /\ \A o \in ranges : o # q => \/ q.Base + q.Size <= o.Base
                                   \/ o.Base + o.Size <= q.Base

LEMMA InUseAreOwned == HeapInv => B!BlocksInUseAreOwned
<1> SUFFICES ASSUME HeapInv PROVE B!BlocksInUseAreOwned
  OBVIOUS
<1>0. /\ Tiles(blocks, 0, B!HeapSize) /\ blocks \in Seq(BlockType)
      /\ DOMAIN blocks = 1 .. Len(blocks)
  BY DEF HeapInv, Tiles
<1>1. ASSUME NEW k \in 1 .. Len(blocks), blocks[k].Used
      PROVE  \E r \in ranges : Holds(blocks[k], r)
  <2>1. blocks[k] \in InUse(blocks)
    BY <1>0, <1>1, BlocksAreTyped DEF InUse
  <2> QED
    BY <2>1 DEF HeapInv
<1>2. ASSUME NEW k \in 1 .. Len(blocks), NEW r \in ranges, r.Base = blocks[k].Base
      PROVE  blocks[k].Used
  <2>1. PICK b \in InUse(blocks) : Holds(b, r)
    BY DEF HeapInv
  <2>2. b = blocks[k]
    BY <1>0, <1>2, <2>1, OneBlockPerAddress DEF Holds
  <2> QED
    BY <2>2 DEF InUse
<1>3. ASSUME NEW r \in ranges PROVE \E k \in 1 .. Len(blocks) : blocks[k].Base = r.Base
  BY DEF HeapInv, InUse, Holds
<1>4. ASSUME NEW k \in 1 .. Len(blocks)
      PROVE  blocks[k].Used <=>
               \E r \in ranges : /\ r.Base = blocks[k].Base
                                 /\ r.Size <= blocks[k].Size
                                 /\ blocks[k].Size < 2 * r.Size
  <2>1. blocks[k].Used \in BOOLEAN
    BY <1>0, BlocksAreTyped
  <2> QED
    BY <1>1, <1>2, <2>1 DEF Holds
<1> QED
  BY <1>0, <1>3, <1>4 DEF B!BlocksInUseAreOwned, HeapInv

\* An address between the first and the last byte of some frames lies in one.
LEMMA FrameOfAddress ==
  ASSUME NEW p \in Nat \ {0}, NEW first \in Nat, NEW n \in Nat, NEW a \in Nat,
         first * p <= a, a < (first + n) * p
  PROVE  \E ppn \in first .. first + n - 1 : a \in ppn * p .. (ppn + 1) * p - 1
<1> DEFINE q == a \div p
<1>1. q \in Nat /\ q * p <= a /\ a < (q + 1) * p
  OBVIOUS
<1>2. \A x, y \in Nat : x <= y => x * p <= y * p
  OBVIOUS
<1> HIDE DEF q
<1>3. ~(q + 1 <= first) /\ ~(first + n <= q)
  <2>1. /\ q + 1 \in Nat /\ first + n \in Nat
        /\ q * p \in Nat /\ (q + 1) * p \in Nat
        /\ first * p \in Nat /\ (first + n) * p \in Nat
    BY <1>1
  <2>2. q + 1 <= first => (q + 1) * p <= first * p
    BY <1>2, <2>1
  <2>3. first + n <= q => (first + n) * p <= q * p
    BY <1>1, <1>2, <2>1
  <2> QED
    BY <1>1, <2>1, <2>2, <2>3
<1>4. q \in first .. first + n - 1
  BY <1>1, <1>3
<1>5. a \in q * p .. (q + 1) * p - 1
  <2>1. q * p \in Nat /\ (q + 1) * p \in Nat
    BY <1>1
  <2> QED
    BY <1>1, <2>1
<1> QED
  BY <1>4, <1>5

(***************************************************************************)
(* No byte is given out twice and none is lost.                            *)
(***************************************************************************)
THEOREM NoByteTwice == Spec => []MemoryPartitioned
<1>1. ASSUME MemoryInv PROVE MemoryPartitioned
  <2>0. /\ HeapPages \in Nat /\ PageSize \in Nat \ {0} /\ heap \in Nat
        /\ HeapPages * PageSize = B!HeapSize /\ B!HeapSize \in Nat
    <3>1. heap \in Nat
      BY <1>1, MemoryAssumption
      DEF MemoryInv, FrameInv, FrameTypeOK, F!PPNs, F!ConstantsAssumption
    <3> QED
      BY <3>1, MemoryAssumption, PowersAre DEF F!ConstantsAssumption
  <2>1. F!FramesPartitioned /\ B!BlocksInUseAreOwned
    BY <1>1, InUseAreOwned DEF MemoryInv, FrameInv
  <2>2. ASSUME NEW r \in ranges
        PROVE  AddressesOf(r) \subseteq UNION {BytesOf(ppn) : ppn \in F!HeapFrames}
    <3>1. /\ r.Base \in Nat /\ r.Size \in Nat \ {0} /\ r.Base + r.Size <= B!HeapSize
          /\ heap # 0
      BY <1>1, RangesApart DEF MemoryInv
    <3>2. F!HeapFrames = heap .. heap + HeapPages - 1
      BY <3>1 DEF F!HeapFrames
    <3> SUFFICES ASSUME NEW a \in AddressesOf(r)
                 PROVE  \E ppn \in F!HeapFrames : a \in BytesOf(ppn)
      OBVIOUS
    <3>3. heap * PageSize \in Nat /\ (heap + HeapPages) * PageSize = heap * PageSize + B!HeapSize
      BY <2>0
    <3>4. a \in Nat /\ heap * PageSize <= a /\ a < (heap + HeapPages) * PageSize
      <4>1. a \in heap * PageSize + r.Base .. heap * PageSize + r.Base + r.Size - 1
        BY DEF AddressesOf
      <4> QED
        BY <2>0, <3>1, <3>3, <4>1
    <3>5. \E ppn \in heap .. heap + HeapPages - 1 :
            a \in ppn * PageSize .. (ppn + 1) * PageSize - 1
      BY <2>0, <3>4, FrameOfAddress
    <3> QED
      BY <3>2, <3>5 DEF BytesOf
  <2>3. ASSUME NEW r \in ranges, NEW o \in ranges, r # o
        PROVE  AddressesOf(r) \cap AddressesOf(o) = {}
    <3>1. /\ r.Base \in Nat /\ r.Size \in Nat /\ o.Base \in Nat /\ o.Size \in Nat
          /\ r.Base + r.Size <= o.Base \/ o.Base + o.Size <= r.Base
      BY <1>1, <2>3, RangesApart DEF MemoryInv
    <3>2. heap * PageSize \in Nat
      BY <2>0
    <3> QED
      BY <3>1, <3>2 DEF AddressesOf
  <2> QED
    BY <2>1, <2>2, <2>3 DEF MemoryPartitioned
<1> QED
  BY <1>1, MemoryInvHolds, PTL
-----------------------------------------------------------------------------
(***************************************************************************)
(* A client that frees memory gets a heap in which no two free neighbours  *)
(* could have been merged: mergeBuddy starts over after every merge, and a *)
(* merge of one pair can make another pair mergeable.                      *)
(***************************************************************************)
THEOREM FreeLeavesNothingToMerge == Spec => FreeMergesAll
<1> DEFINE Gives == ranges' \subseteq ranges /\ ranges' # ranges
           Clean == \A k \in DOMAIN blocks' : ~B!Mergeable(blocks', k)
<1>1. MemoryInv /\ [Next]_<<frameVars, heapVars>> => [Gives => Clean]_B!vars
  <2> SUFFICES ASSUME MemoryInv, [Next]_<<frameVars, heapVars>>, Gives PROVE Clean
    OBVIOUS
  <2>1. ranges' # ranges /\ ranges' \subseteq ranges
    OBVIOUS
  <2> HIDE DEF Clean
  <2>2. B!Next
    BY <2>1, Zenon DEF Next
  <2>3. ASSUME NEW size \in Sizes, B!Malloc(size) PROVE FALSE
    BY <2>1, <2>3 DEF B!Malloc
  <2>4. ASSUME NEW size \in Sizes, B!MallocFails(size) PROVE FALSE
    BY <2>1, <2>4, Zenon DEF B!MallocFails
  <2>5. ASSUME NEW r \in ranges, B!Free(r) PROVE Clean
    BY <2>5, FreeHeapInv DEF MemoryInv, Clean
  <2>6. ~B!Halted
    BY <2>1, Zenon DEF B!Halted
  <2> QED
    BY <2>2, <2>3, <2>4, <2>5, <2>6, Zenon DEF B!Next
<1>2. Spec => [][Gives => Clean]_B!vars
  <2> HIDE DEF Gives, Clean
  <2> QED
    BY <1>1, MemoryInvHolds, PTL DEF Spec
<1> QED
  BY <1>2 DEF FreeMergesAll, B!FreeMergesAll

(***************************************************************************)
(* The buddy allocator in its frames is a heap: Malloc takes a range that  *)
(* was free, Free gives back one that was not, and all else leaves the     *)
(* ranges alone.                                                           *)
(***************************************************************************)
THEOREM BuddyIsHeap == Spec => ImplementsHeap
<1>0. MemoryInv => RangesAreApart
  BY RangesApart DEF MemoryInv, RangesAreApart
<1>1. Init => H!Init
  BY Zenon DEF Init, B!Init, H!Init
<1>2. RangesAreApart' /\ [Next]_<<frameVars, heapVars>> => [H!Next]_ranges
  <2> SUFFICES ASSUME RangesAreApart', [Next]_<<frameVars, heapVars>>, ranges' # ranges
               PROVE  H!Next
    OBVIOUS
  <2>1. B!Next
    BY Zenon DEF Next
  <2>2. ASSUME NEW size \in Sizes, B!Malloc(size) PROVE H!Next
    <3>0. size \in Nat \ {0} /\ HeapPages * PageSize = B!HeapSize /\ B!HeapSize \in Nat
      BY MemoryAssumption, PowersAre DEF B!ConstantsAssumption
    <3>1. PICK base : ranges' = ranges \cup {[Base |-> base, Size |-> size]}
      BY <2>2 DEF B!Malloc
    <3> DEFINE r == [Base |-> base, Size |-> size]
    <3>2. r \in ranges' /\ r \notin ranges
      BY <3>1
    <3>3. \A q \in ranges' :
            /\ q.Base \in Nat /\ q.Size \in Nat \ {0}
            /\ q.Base + q.Size <= B!HeapSize
            /\ \A o \in ranges' : o # q => \/ q.Base + q.Size <= o.Base
                                           \/ o.Base + o.Size <= q.Base
      BY DEF RangesAreApart
    <3>4. /\ base \in Nat /\ base + size <= B!HeapSize
          /\ \A o \in ranges : \/ base + size <= o.Base \/ o.Base + o.Size <= base
          /\ \A o \in ranges : o.Base \in Nat /\ o.Size \in Nat
      BY <3>1, <3>2, <3>3
    <3>5. base \in 0 .. HeapPages * PageSize /\ size \in 0 .. HeapPages * PageSize /\ size > 0
      BY <3>0, <3>4
    <3>6. H!Range(r) \subseteq 0 .. HeapPages * PageSize - 1
      BY <3>0, <3>4 DEF H!Range
    <3>7. ASSUME NEW o \in ranges PROVE H!Range(o) \cap H!Range(r) = {}
      <4>1. /\ o.Base \in Nat /\ o.Size \in Nat
            /\ base + size <= o.Base \/ o.Base + o.Size <= base
        BY <3>4
      <4> QED
        BY <3>0, <3>4, <4>1 DEF H!Range
    <3>8. H!Allocate(base, size)
      BY <3>1, <3>6, <3>7 DEF H!Allocate
    <3> QED
      BY <3>5, <3>8 DEF H!Next
  <2>3. ASSUME NEW size \in Sizes, B!MallocFails(size) PROVE FALSE
    BY <2>3, Zenon DEF B!MallocFails
  <2>4. ASSUME NEW r \in ranges, B!Free(r) PROVE H!Next
    BY <2>4, Zenon DEF B!Free, H!Next, H!Release
  <2>5. ~B!Halted
    BY Zenon DEF B!Halted
  <2> QED
    BY <2>1, <2>2, <2>3, <2>4, <2>5, Zenon DEF B!Next
<1> QED
  BY <1>0, <1>1, <1>2, MemoryInvHolds, PTL DEF Spec, ImplementsHeap, H!Spec
=============================================================================
