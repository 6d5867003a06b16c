---------------------------- MODULE KernelMemory ----------------------------
(***************************************************************************)
(* The two allocators of the kernel together: memory/frame.c hands out     *)
(* frames, one by one and at boot a run of them for the heap, in which     *)
(* memory/buddy.c hands out ranges.  Everything the kernel and the         *)
(* processes keep lies in memory one of the two gave out; both work in one *)
(* address space, where a frame that is handed out twice or a heap that    *)
(* reaches over its end shows only much later.                             *)
(***************************************************************************)
EXTENDS Integers, FiniteSets, Sequences

CONSTANTS
  MAX_PAGE_COUNT, FirstPage, KernelPages, PageSize, MemoryMap, HeapPages,
  Order, BUDDY_BLOCKS, Sizes

VARIABLES
  Pages, TotalFreePageCount, KernelFreePageCount, heap, booted,
  frames,       \* the frames handed out one by one
  noFrame,      \* whether the kernel stopped for want of a frame
  blocks,
  ranges,       \* the ranges Malloc returned and nobody freed yet
  noRange       \* why Malloc stopped the kernel

F == INSTANCE FrameAllocator WITH owned <- frames, panic <- noFrame

B == INSTANCE BuddyAllocator WITH owned <- ranges, panic <- noRange

ASSUME MemoryAssumption ==
  /\ F!ConstantsAssumption /\ B!ConstantsAssumption
  /\ HeapPages * PageSize = B!HeapSize

frameVars == <<Pages, TotalFreePageCount, KernelFreePageCount, heap, booted, frames, noFrame>>
heapVars == <<blocks, ranges, noRange>>

Init == F!Init /\ B!Init

\* The heap is there from globalBuddyAllocatorInit on; a kernel that stopped
\* for want of the one asks for nothing of the other.
Next ==
  \/ noRange = "none" /\ F!Next /\ UNCHANGED heapVars
  \/ heap # 0 /\ ~noFrame /\ B!Next /\ UNCHANGED frameVars
  \/ (noFrame \/ noRange # "none") /\ UNCHANGED <<frameVars, heapVars>>

Spec == Init /\ [][Next]_<<frameVars, heapVars>>
-----------------------------------------------------------------------------
\* Addresses of a frame, and of a range of the heap.
BytesOf(ppn) == ppn * PageSize .. (ppn + 1) * PageSize - 1

AddressesOf(r) == heap * PageSize + r.Base .. heap * PageSize + r.Base + r.Size - 1

(***************************************************************************)
(* No byte is given out twice and none is lost: what Malloc returned lies  *)
(* in the frames of the heap, no two ranges overlap, and no block is in    *)
(* use but for one of them; these frames, the free ones and those handed   *)
(* out are apart, and together they are always the same, however calls of  *)
(* both kinds and their frees follow each other.                           *)
(***************************************************************************)
MemoryPartitioned ==
  /\ F!FramesPartitioned
  /\ B!BlocksInUseAreOwned
  /\ \A r \in ranges : AddressesOf(r) \subseteq UNION {BytesOf(ppn) : ppn \in F!HeapFrames}
  /\ \A r, o \in ranges : r # o => AddressesOf(r) \cap AddressesOf(o) = {}

(***************************************************************************)
(* Both counters of frames say what the bytes of the frames say, in either *)
(* mode, the run for the heap included.                                    *)
(***************************************************************************)
CountersExact == F!CountersExact

(***************************************************************************)
(* The blocks cover the heap without gap or overlap, whatever is split and *)
(* merged in whatever order.                                               *)
(***************************************************************************)
BlocksTileHeap == B!BlocksTileHeap

(***************************************************************************)
(* A client that frees memory gets a heap in which no two free neighbours  *)
(* could have been merged: mergeBuddy starts over after every merge.       *)
(***************************************************************************)
FreeMergesAll == B!FreeMergesAll

H == INSTANCE Heap WITH HeapSize <- HeapPages * PageSize, owned <- ranges

(***************************************************************************)
(* The buddy allocator in its frames is a heap that hands out ranges which *)
(* do not overlap.                                                         *)
(***************************************************************************)
ImplementsHeap == H!Spec
=============================================================================
