--------------------------- MODULE FrameAllocator ---------------------------
(***************************************************************************)
(* The allocator of physical frames, memory/frame.c: one byte per frame,   *)
(* two counters, and the memory map of the BIOS from which the boot code   *)
(* fills them.  Addresses are numbers, a frame is PageSize of them.        *)
(*                                                                         *)
(* Who asks for frames is not modelled: AddressSpace and ProcessManager    *)
(* do that with the frames as sets.  Here owned records what was handed    *)
(* out, and only that is given back.                                       *)
(***************************************************************************)
EXTENDS Integers, FiniteSets

CONSTANTS
  MAX_PAGE_COUNT,   \* frames the allocator knows, 8192
  FirstPage,        \* the first it hands out, 256: above 1 MB
  KernelPages,      \* frames below this one are the kernel's, 1024: 4 MB
  PageSize,         \* 4096
  MemoryMap,        \* the descriptors of the BIOS: Base, Length, Type
  HeapPages         \* length of the heap, BUDDY_PAGES

PPNs == 0 .. MAX_PAGE_COUNT - 1

CeilPPN(address) == (address + PageSize - 1) \div PageSize

\* The frames MemoryCheckout frees for descriptor d: the base is rounded up.
FreedBy(d) ==
  IF d.Type = 1 /\ d.Base >= FirstPage * PageSize
  THEN CeilPPN(d.Base) .. CeilPPN(d.Base) + CeilPPN(d.Length) - 1
  ELSE {}

(***************************************************************************)
(* Module KernelMemory assumes this.  The makefile gives the machine 32    *)
(* MB, MAX_PAGE_COUNT frames: MemoryCheckout does not test that the memory *)
(* ends there, nor that the descriptors do not overlap.                    *)
(***************************************************************************)
ConstantsAssumption ==
  /\ MAX_PAGE_COUNT \in Nat /\ PageSize \in Nat \ {0}
  /\ FirstPage \in 1 .. KernelPages /\ KernelPages \in 1 .. MAX_PAGE_COUNT
  /\ HeapPages \in Nat \ {0, 1}
  /\ \A d \in MemoryMap : FreedBy(d) \subseteq PPNs
  /\ \A d, e \in MemoryMap : d # e => FreedBy(d) \cap FreedBy(e) = {}

VARIABLES
  Pages,            \* bit 0 of Pages[ppn]: used; bit 1: the kernel's
  TotalFreePageCount,
  KernelFreePageCount,
  heap,             \* the first frame of the heap, 0 before it is allocated
  owned,            \* the frames handed out one by one
  booted,           \* whether MemoryCheckout has run
  panic

vars == <<Pages, TotalFreePageCount, KernelFreePageCount, heap, owned, booted, panic>>

isFree(ppn) == Pages[ppn] % 2 = 0

InKernel(ppn) == (Pages[ppn] \div 2) % 2 = 1

isSpecifiedMode(ppn, mode) == IF mode = "KernelMode" THEN InKernel(ppn) ELSE ~InKernel(ppn)

SetFree(S) == [ppn \in PPNs |-> IF ppn \in S THEN (Pages[ppn] \div 2) * 2 ELSE Pages[ppn]]
SetUsed(S) == [ppn \in PPNs |-> IF ppn \in S THEN (Pages[ppn] \div 2) * 2 + 1 ELSE Pages[ppn]]

\* globalFrameAllocatorInit: everything is used until the memory map is read.
Init ==
  /\ Pages = [ppn \in PPNs |-> IF ppn < KernelPages THEN 3 ELSE 1]
  /\ TotalFreePageCount = 0
  /\ KernelFreePageCount = 0
  /\ heap = 0
  /\ owned = {}
  /\ booted = FALSE
  /\ panic = FALSE

-----------------------------------------------------------------------------
MemoryCheckout ==
  /\ ~booted
  /\ LET S == UNION {FreedBy(d) : d \in MemoryMap}
     IN  /\ Pages' = SetFree(S)
         /\ TotalFreePageCount' = Cardinality(S)
         /\ KernelFreePageCount' = Cardinality({ppn \in S : InKernel(ppn)})
  /\ booted' = TRUE
  /\ UNCHANGED <<heap, owned, panic>>

\* Mutant: the kernel's frames are not counted apart.
TakeFromTotal(S, mode) ==
  /\ Pages' = SetUsed(S)
  /\ TotalFreePageCount' = TotalFreePageCount - Cardinality(S)
  /\ UNCHANGED KernelFreePageCount

Take(S, mode) ==
  /\ Pages' = SetUsed(S)
  /\ TotalFreePageCount' = TotalFreePageCount - Cardinality(S)
  /\ KernelFreePageCount' = KernelFreePageCount
                              - (IF mode = "KernelMode" THEN Cardinality(S) ELSE 0)

\* Mutant: the run is tested at its first frame only.
FirstOfRun(ppn, n, mode) == n > 0 /\ isFree(ppn) /\ isSpecifiedMode(ppn, mode)

\* A run of n free frames of the mode from ppn on.
HasPages(ppn, n, mode) ==
  \A i \in ppn .. ppn + n - 1 : i \in PPNs /\ isFree(i) /\ isSpecifiedMode(i, mode)

IsFirstRun(ppn, n, mode) ==
  /\ HasPages(ppn, n, mode)
  /\ \A i \in FirstPage .. ppn - 1 : ~HasPages(i, n, mode)

Fails(n, mode) ==
  /\ ~ \E ppn \in FirstPage .. MAX_PAGE_COUNT - 1 : HasPages(ppn, n, mode)
  /\ panic' = TRUE
  /\ UNCHANGED <<Pages, TotalFreePageCount, KernelFreePageCount, heap, owned>>

AllocateOnePage(mode) ==
  /\ booted /\ ~panic /\ UNCHANGED booted
  /\ \/ \E ppn \in FirstPage .. MAX_PAGE_COUNT - 1 :
          /\ IsFirstRun(ppn, 1, mode)
          /\ Take({ppn}, mode)
          /\ owned' = owned \cup {ppn}
          /\ UNCHANGED <<heap, panic>>
     \/ Fails(1, mode)

\* The one call of AllocatePagesContinuously is for the kernel's heap.
AllocatePagesContinuously ==
  /\ booted /\ ~panic /\ heap = 0 /\ UNCHANGED booted
  /\ \/ \E ppn \in FirstPage .. MAX_PAGE_COUNT - 1 :
          /\ IsFirstRun(ppn, HeapPages, "KernelMode")
          /\ Take(ppn .. ppn + HeapPages - 1, "KernelMode")
          /\ heap' = ppn
          /\ UNCHANGED <<owned, panic>>
     \/ Fails(HeapPages, "KernelMode")

FreeOnePage(ppn) ==
  /\ booted /\ ~panic /\ ppn \in owned
  /\ Pages' = SetFree({ppn})
  /\ TotalFreePageCount' = TotalFreePageCount + 1
  /\ KernelFreePageCount' = KernelFreePageCount + (IF InKernel(ppn) THEN 1 ELSE 0)
  /\ owned' = owned \ {ppn}
  /\ UNCHANGED <<heap, booted, panic>>

Halted == panic /\ UNCHANGED vars

Next ==
  \/ MemoryCheckout
  \/ \E mode \in {"KernelMode", "UserMode"} : AllocateOnePage(mode)
  \/ AllocatePagesContinuously
  \/ \E ppn \in PPNs : FreeOnePage(ppn)
  \/ Halted

Spec == Init /\ [][Next]_vars
-----------------------------------------------------------------------------
FreeFrames == {ppn \in PPNs : isFree(ppn)}
HeapFrames == IF heap = 0 THEN {} ELSE heap .. heap + HeapPages - 1

\* A frame that lies in available memory from its first byte to its last.
Available(ppn) ==
  \E d \in MemoryMap :
    /\ d.Type = 1
    /\ d.Base <= ppn * PageSize /\ (ppn + 1) * PageSize <= d.Base + d.Length

(***************************************************************************)
(* The heap, the frames handed out and the free frames do not overlap, and *)
(* together they are the same frames after boot, whatever comes and goes.  *)
(***************************************************************************)
FramesPartitioned ==
  booted =>
    /\ owned \cap HeapFrames = {}
    /\ FreeFrames \cap (owned \cup HeapFrames) = {}
    /\ FreeFrames \cup owned \cup HeapFrames = UNION {FreedBy(d) : d \in MemoryMap}

(***************************************************************************)
(* Both counters say what the bytes say, in either mode.                   *)
(***************************************************************************)
CountersExact ==
  /\ TotalFreePageCount = Cardinality(FreeFrames)
  /\ KernelFreePageCount = Cardinality({ppn \in FreeFrames : InKernel(ppn)})

(***************************************************************************)
(* frame.c:85-87, what MemoryCheckout frees is available memory, aligned   *)
(* to frames: so every free frame lies in a range the BIOS called usable.  *)
(* The rounding of the base keeps that only if usable memory begins at a   *)
(* frame: then what is rounded off at the start is not added at the end.   *)
(***************************************************************************)
FreeFramesAreAvailable == \A ppn \in FreeFrames : Available(ppn)

(***************************************************************************)
(* memory/type.h:10, bit 0 of a frame's byte: 1 means free, 0 means used.  *)
(***************************************************************************)
BitZeroSaysFree == \A ppn \in owned : Pages[ppn] % 2 = 0
=============================================================================
