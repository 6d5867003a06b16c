--------------------------- MODULE BuddyAllocator ---------------------------
(***************************************************************************)
(* The kernel's heap, memory/buddy.c.  The descriptors of the array Blocks *)
(* form a list, by Next, of the blocks of the heap in the order of their   *)
(* addresses; blocks is that list without its head, Blocks[0], which names *)
(* the whole heap.  Which descriptor a block has is left out, but not that *)
(* their number is limited.  Addresses count from the start of the heap.   *)
(***************************************************************************)
EXTENDS Integers, Sequences

CONSTANTS
  Order,            \* the heap is 2^Order units long
  BUDDY_BLOCKS,     \* descriptors, 1024, the head of the list included
  Sizes             \* the sizes asked for, never 0

Power[n \in 0 .. Order] == IF n = 0 THEN 1 ELSE 2 * Power[n - 1]

HeapSize == Power[Order]

\* Module KernelMemory assumes this.
ConstantsAssumption ==
  Order \in Nat /\ BUDDY_BLOCKS \in Nat \ {0, 1} /\ Sizes \subseteq 1 .. HeapSize

VARIABLES
  blocks,           \* the list of blocks: Base, Size, Used
  owned,            \* what Malloc returned and nobody freed yet
  panic

vars == <<blocks, owned, panic>>

Block(base, size, used) == [Base |-> base, Size |-> size, Used |-> used]

Init ==
  /\ blocks = <<Block(0, HeapSize, FALSE)>>
  /\ owned = {}
  /\ panic = "none"

-----------------------------------------------------------------------------
\* Mutant: the first free block, if it is large enough or not.
FirstFree(k, size) == ~blocks[k].Used /\ size > 0

Fits(k, size) == ~blocks[k].Used /\ blocks[k].Size >= size

IsFirstFit(k, size) ==
  Fits(k, size) /\ \A i \in 1 .. k - 1 : ~Fits(i, size)

\* The size of what is left of block b after so many halvings.
Halved(b) ==
  LET size[i \in 0 .. Order] == IF i = 0 THEN b.Size ELSE size[i - 1] \div 2
  IN  size

\* How often Malloc halves block b: as long as a half is large enough.
IsHalvings(h, b, size) ==
  /\ Halved(b)[h] < 2 * size
  /\ \A i \in 0 .. h - 1 : Halved(b)[i] >= 2 * size

\* Mutant: the second halves have the size of the whole.
HalvesTooLong(b, h) ==
  [j \in 1 .. h + 1 |->
     IF j = 1 THEN Block(b.Base, Halved(b)[h], TRUE)
     ELSE Block(b.Base + Halved(b)[h - j + 2], Halved(b)[h - j + 1], FALSE)]

\* The blocks b becomes: the one in use, then the second halves, the last one
\* of the first halving.
Halves(b, h) ==
  [j \in 1 .. h + 1 |->
     IF j = 1 THEN Block(b.Base, Halved(b)[h], TRUE)
     ELSE Block(b.Base + Halved(b)[h - j + 2], Halved(b)[h - j + 2], FALSE)]

(***************************************************************************)
(* A halving takes two descriptors and gives one back after that, so the   *)
(* last of them needs one more descriptor than there are blocks at the end.*)
(***************************************************************************)
EnoughDescriptors(h) == h = 0 \/ 1 + Len(blocks) + h + 1 <= BUDDY_BLOCKS

Replaced(k, s) == SubSeq(blocks, 1, k - 1) \o s \o SubSeq(blocks, k + 1, Len(blocks))

Malloc(size) ==
  /\ panic = "none"
  /\ \E k \in DOMAIN blocks :
       /\ IsFirstFit(k, size)
       /\ \E h \in 0 .. Order :
            /\ IsHalvings(h, blocks[k], size)
            /\ EnoughDescriptors(h)
            /\ blocks' = Replaced(k, Halves(blocks[k], h))
            /\ owned' = owned \cup {[Base |-> blocks[k].Base, Size |-> size]}
  /\ UNCHANGED panic

MallocFails(size) ==
  /\ panic = "none"
  /\ \/ /\ \A k \in DOMAIN blocks : ~Fits(k, size)
        /\ panic' = "No enough memory"
     \/ /\ \E k \in DOMAIN blocks, h \in 0 .. Order :
             /\ IsFirstFit(k, size) /\ IsHalvings(h, blocks[k], size)
             /\ ~EnoughDescriptors(h)
        /\ panic' = "No free block"
  /\ UNCHANGED <<blocks, owned>>

-----------------------------------------------------------------------------
\* The condition of mergeBuddy for the k-th block and the one after it.
Mergeable(s, k) ==
  /\ k < Len(s)
  /\ ~s[k].Used /\ ~s[k + 1].Used
  /\ s[k].Base % s[k + 1].Size = 0
  /\ s[k].Size = s[k + 1].Size

MergeAt(s, k) ==
  SubSeq(s, 1, k - 1) \o <<[s[k] EXCEPT !.Size = 2 * @]>> \o SubSeq(s, k + 2, Len(s))

\* One merge, of the first pair there is.  Also the mutant that stops there.
MergeFirst(s) ==
  IF \E k \in DOMAIN s : Mergeable(s, k)
  THEN MergeAt(s, CHOOSE k \in DOMAIN s :
                    Mergeable(s, k) /\ \A i \in 1 .. k - 1 : ~Mergeable(s, i))
  ELSE s

(***************************************************************************)
(* mergeBuddy: merge the first pair there is and start again from the      *)
(* beginning, until there is none.  Every merge leaves one block less.     *)
(***************************************************************************)
Merged(s) ==
  LET after[n \in 0 .. Len(s)] == IF n = 0 THEN s ELSE MergeFirst(after[n - 1])
  IN  after[Len(s)]

\* Free looks the address up; the clients free what Malloc gave them.
Free(r) ==
  /\ panic = "none" /\ r \in owned
  /\ \E k \in DOMAIN blocks :
       /\ blocks[k].Base = r.Base
       /\ \A i \in 1 .. k - 1 : blocks[i].Base # r.Base
       /\ blocks' = Merged([blocks EXCEPT ![k].Used = FALSE])
  /\ owned' = owned \ {r}
  /\ UNCHANGED panic

Halted == panic # "none" /\ UNCHANGED vars

Next ==
  \/ \E size \in Sizes : Malloc(size)
  \/ \E size \in Sizes : MallocFails(size)
  \/ \E r \in owned : Free(r)
  \/ Halted

Spec == Init /\ [][Next]_vars
-----------------------------------------------------------------------------
(***************************************************************************)
(* The blocks cover the heap without gap or overlap, whatever is split and *)
(* merged in whatever order.                                               *)
(***************************************************************************)
BlocksTileHeap ==
  /\ blocks[1].Base = 0
  /\ \A k \in 1 .. Len(blocks) - 1 :
       blocks[k + 1].Base = blocks[k].Base + blocks[k].Size
  /\ blocks[Len(blocks)].Base + blocks[Len(blocks)].Size = HeapSize

(***************************************************************************)
(* The blocks in use are those of the clients: each holds what one client  *)
(* asked for and less than half of it is wasted.                           *)
(***************************************************************************)
BlocksInUseAreOwned ==
  /\ \A k \in DOMAIN blocks :
       blocks[k].Used <=>
         \E r \in owned : /\ r.Base = blocks[k].Base
                          /\ r.Size <= blocks[k].Size /\ blocks[k].Size < 2 * r.Size
  /\ \A r \in owned : \E k \in DOMAIN blocks : blocks[k].Base = r.Base
  /\ \A r, o \in owned : r.Base = o.Base => r = o

(***************************************************************************)
(* A client that frees memory gets a heap in which no two free neighbours  *)
(* could have been merged: mergeBuddy starts over after every merge.       *)
(***************************************************************************)
FreeMergesAll ==
  [][owned' \subseteq owned /\ owned' # owned
       => \A k \in DOMAIN blocks' : ~Mergeable(blocks', k)]_vars

H == INSTANCE Heap

(***************************************************************************)
(* The buddy allocator is a heap: no two clients share memory.             *)
(***************************************************************************)
ImplementsHeap == H!Spec

(***************************************************************************)
(* src/README.md:4 calls the allocator a buddy system.  In a buddy system  *)
(* each block is merged with its buddy, the other half of the block it was *)
(* split from, and a heap that is freed altogether is one block again.     *)
(***************************************************************************)
FreedHeapIsOneBlock == owned = {} => Len(blocks) = 1
=============================================================================
