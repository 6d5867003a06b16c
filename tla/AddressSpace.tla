---------------------------- MODULE AddressSpace ----------------------------
(***************************************************************************)
(* The paged memory of user processes: the page fault handler and MapPage, *)
(* the copy of the page tables by fork, their release by exit, and the     *)
(* user half of the frame allocator they all take frames from.             *)
(*                                                                         *)
(* Virtual memory is divided into regions of 4 MB.  Region 0 is the        *)
(* kernel's, mapped one to one by a single second-level table that all     *)
(* processes share; only its page 0, left unmapped as the null page, can   *)
(* change.  In every other region a process has a second-level table and   *)
(* data pages of its own, all in user frames.  An entry <<i, j>> is the    *)
(* table of region i when j = 0 and its j-th page otherwise.               *)
(*                                                                         *)
(* The handlers run with interrupts off and one at a time.  Which process  *)
(* runs when is the matter of ProcessManager; here any living one may.     *)
(***************************************************************************)
EXTENDS Integers, FiniteSets

CONSTANTS
  Processes,        \* the processes, by PCB
  Regions,          \* regions of user memory, 1 .. 1023
  PageIndices,      \* the pages of a region in use, from 1 on
  Frames,           \* the user frames, by number
  Values, Zero      \* what a page can hold, and a page full of zeros

ASSUME ConstantsAssumption ==
  /\ Regions \subseteq Nat \ {0} /\ IsFiniteSet(Regions)
  /\ PageIndices \subseteq Nat \ {0} /\ IsFiniteSet(PageIndices)
  /\ Frames \subseteq Nat \ {0} /\ IsFiniteSet(Frames)
  /\ Zero \in Values

NoFrame == 0
Tables == Regions \X {0}
Pages == Regions \X PageIndices
Entries == Tables \cup Pages

\* The order in which the entries are visited: a table, then its pages.
Before(d, e) == d[1] < e[1] \/ (d[1] = e[1] /\ d[2] < e[2])

TableOf(e) == <<e[1], 0>>

VARIABLES
  live,             \* the processes that have a root page table
  space,            \* space[p][e], the frame an entry points to, or NoFrame
  nullPage,         \* the frame mapped at the shared null page, or NoFrame
  free,             \* the user frames whose bit says free
  TotalFreePageCount,   \* the allocator's count, its user part
  content,          \* what each frame holds
  panic             \* whether the kernel stopped

vars == <<live, space, nullPage, free, TotalFreePageCount, content, panic>>

Unmapped == [e \in Entries |-> NoFrame]

Init ==
  /\ live = {}
  /\ space = [p \in Processes |-> Unmapped]
  /\ nullPage = NoFrame
  /\ free = Frames
  /\ TotalFreePageCount = Cardinality(Frames)
  /\ content \in [Frames -> Values]
  /\ panic = FALSE

Mapped(p) == {e \in Entries : space[p][e] # NoFrame}
FramesOf(p) == {space[p][e] : e \in Mapped(p)}

-----------------------------------------------------------------------------
(***************************************************************************)
(* Frames handed out by a series of AllocateOnePage(UserMode): f says who  *)
(* gets which.  The lowest go first, in the order of the entries.          *)
(***************************************************************************)
Allotments(S) ==
  {f \in [S -> free] :
     /\ \A d, e \in S : Before(d, e) => f[d] < f[e]
     /\ \A e \in S : \A x \in free : x < f[e] => \E d \in S : f[d] = x}

Take(S) ==
  /\ free' = free \ S
  /\ TotalFreePageCount' = TotalFreePageCount - Cardinality(S)

\* Mutant: the second-level tables are not given back.
GivePagesBack(p) ==
  /\ free' = free \cup {space[p][e] : e \in Mapped(p) \cap Pages}
  /\ TotalFreePageCount' = TotalFreePageCount + Cardinality(Mapped(p) \cap Pages)

\* freePageTableRecursion: one FreeOnePage for each entry that is present.
GiveBack(p) ==
  /\ free' = free \cup FramesOf(p)
  /\ TotalFreePageCount' = TotalFreePageCount + Cardinality(Mapped(p))

OutOfMemory(S) ==
  /\ Cardinality(S) > Cardinality(free)
  /\ panic' = TRUE
  /\ UNCHANGED <<live, space, nullPage, free, TotalFreePageCount, content>>

-----------------------------------------------------------------------------
\* CreateUserProcess copies the root table, which maps the kernel only.
CreateUserProcess(p) ==
  /\ ~panic /\ p \notin live
  /\ live' = live \cup {p}
  /\ UNCHANGED <<space, nullPage, free, TotalFreePageCount, content, panic>>

\* Mutant: no second-level table is allocated.
MissingPageOnly(p, e) == {e} \ Mapped(p)

\* What findPTECreate has to allocate to map page e.
Missing(p, e) == {TableOf(e), e} \ Mapped(p)

\* Mutant: the new page keeps what the frame held.
MapWithoutClearing(p, e) ==
  /\ ~panic /\ p \in live /\ space[p][e] = NoFrame
  /\ \E f \in Allotments(Missing(p, e)) :
       /\ space' = [space EXCEPT ![p] =
                      [d \in Entries |-> IF d \in Missing(p, e) THEN f[d] ELSE @[d]]]
       /\ Take({f[d] : d \in Missing(p, e)})
  /\ UNCHANGED <<live, nullPage, content, panic>>

(***************************************************************************)
(* pageFaultHandler for an address in a user page: MapPage adds the page,  *)
(* and before it the table if that is missing; AllocateOnePage fills both  *)
(* with zeros.                                                             *)
(***************************************************************************)
MapPage(p, e) ==
  /\ ~panic /\ p \in live /\ space[p][e] = NoFrame
  /\ \E f \in Allotments(Missing(p, e)) :
       LET taken == {f[d] : d \in Missing(p, e)}
       IN  /\ space' = [space EXCEPT ![p] =
                          [d \in Entries |-> IF d \in Missing(p, e) THEN f[d] ELSE @[d]]]
           /\ Take(taken)
           /\ content' = [x \in Frames |-> IF x \in taken THEN Zero ELSE content[x]]
  /\ UNCHANGED <<live, nullPage, panic>>

MapPageFails(p, e) ==
  /\ ~panic /\ p \in live /\ space[p][e] = NoFrame
  /\ OutOfMemory(Missing(p, e))

(***************************************************************************)
(* A fault in the null page.  The handler stops the kernel for address 0   *)
(* and maps the page for any other, in the table all processes share.      *)
(***************************************************************************)
AccessNull ==
  /\ ~panic /\ live # {} /\ nullPage = NoFrame
  /\ panic' = TRUE
  /\ UNCHANGED <<live, space, nullPage, free, TotalFreePageCount, content>>

MapNullPage ==
  /\ ~panic /\ live # {} /\ nullPage = NoFrame
  /\ \E x \in free :
       /\ \A y \in free : x <= y
       /\ nullPage' = x
       /\ Take({x})
       /\ content' = [content EXCEPT ![x] = Zero]
  /\ UNCHANGED <<live, space, panic>>

\* A program writes to a page it has; otherwise it faults first.
Write(p, e, v) ==
  /\ ~panic /\ p \in live
  /\ space[p][e] # NoFrame
  /\ content' = [content EXCEPT ![space[p][e]] = v]
  /\ UNCHANGED <<live, space, nullPage, free, TotalFreePageCount, panic>>

-----------------------------------------------------------------------------
\* Mutant: the child's tables point to the parent's pages.
ForkSharingPages(p, c) ==
  /\ ~panic /\ p \in live /\ c \notin live
  /\ \E f \in Allotments(Mapped(p) \cap Tables) :
       /\ space' = [space EXCEPT ![c] =
                      [e \in Entries |-> IF e \in Mapped(p) \cap Tables
                                         THEN f[e] ELSE space[p][e]]]
       /\ Take({f[e] : e \in Mapped(p) \cap Tables})
  /\ live' = live \cup {c}
  /\ UNCHANGED <<nullPage, content, panic>>

\* copyPageTableRecursion: a copy of every table and of every page.
ForkProcess(p, c) ==
  /\ ~panic /\ p \in live /\ c \notin live
  /\ \E f \in Allotments(Mapped(p)) :
       /\ space' = [space EXCEPT ![c] =
                      [e \in Entries |-> IF e \in Mapped(p) THEN f[e] ELSE NoFrame]]
       /\ Take({f[e] : e \in Mapped(p)})
       /\ content' = [x \in Frames |->
                        IF \E e \in Mapped(p) : f[e] = x
                        THEN content[space[p][CHOOSE e \in Mapped(p) : f[e] = x]]
                        ELSE content[x]]
  /\ live' = live \cup {c}
  /\ UNCHANGED <<nullPage, panic>>

ForkFails(p) ==
  /\ ~panic /\ p \in live
  /\ OutOfMemory(Mapped(p))

ExitProcess(p) ==
  /\ ~panic /\ p \in live
  /\ live' = live \ {p}
  /\ space' = [space EXCEPT ![p] = Unmapped]
  /\ GiveBack(p)
  /\ UNCHANGED <<nullPage, content, panic>>

Halted == panic /\ UNCHANGED vars

Next ==
  \/ \E p \in Processes : CreateUserProcess(p)
  \/ \E p \in Processes, e \in Pages : MapPage(p, e)
  \/ \E p \in Processes, e \in Pages : MapPageFails(p, e)
  \/ AccessNull
  \/ MapNullPage
  \/ \E p \in Processes, e \in Pages, v \in Values : Write(p, e, v)
  \/ \E p, c \in Processes : ForkProcess(p, c)
  \/ \E p \in Processes : ForkFails(p)
  \/ \E p \in Processes : ExitProcess(p)
  \/ Halted

Spec == Init /\ [][Next]_vars
-----------------------------------------------------------------------------
(***************************************************************************)
(* Every variable holds a value of its C type.                             *)
(***************************************************************************)
TypeOK ==
  /\ live \in SUBSET Processes
  /\ space \in [Processes -> [Entries -> Frames \cup {NoFrame}]]
  /\ nullPage \in Frames \cup {NoFrame}
  /\ free \in SUBSET Frames
  /\ TotalFreePageCount \in 0 .. Cardinality(Frames)
  /\ content \in [Frames -> Values]
  /\ panic \in BOOLEAN

(***************************************************************************)
(* No two entries of any page tables point to the same frame: a process    *)
(* never sees another's pages nor uses a page as a table.                  *)
(***************************************************************************)
FramesPrivate ==
  \A p, q \in Processes, d, e \in Entries :
    space[p][d] = space[q][e] /\ space[p][d] # NoFrame => p = q /\ d = e

(***************************************************************************)
(* Every user frame is free or in use, never both and never neither, and   *)
(* the allocator's count is exact: fork and exit, which walk the tables    *)
(* entry by entry, leak no frame and free none twice.                      *)
(***************************************************************************)
InUse == (UNION {FramesOf(p) : p \in live}) \cup ({nullPage} \ {NoFrame})

FramesAccounted ==
  free = Frames \ InUse /\ TotalFreePageCount = Cardinality(free)

(***************************************************************************)
(* A page is reached through the table of its region, and only living      *)
(* processes have any: what exit looks for is all there is to free.        *)
(***************************************************************************)
ReachableByExit ==
  \A p \in Processes, e \in Pages :
    space[p][e] # NoFrame => p \in live /\ space[p][TableOf(e)] # NoFrame

\* What p reads in page e; a page it has not touched reads as zeros.
Seen(p) ==
  [e \in Pages |-> IF space[p][e] = NoFrame THEN Zero ELSE content[space[p][e]]]

PM == INSTANCE PrivateMemory WITH
        Addresses <- Pages, alive <- live, memory <- [p \in Processes |-> Seen(p)]

(***************************************************************************)
(* Paging gives each process a private memory: every step of the handlers  *)
(* is a step of PrivateMemory or is invisible to programs.                 *)
(***************************************************************************)
ImplementsPrivateMemory == PM!Spec

(***************************************************************************)
(* Nothing but its own writes changes what a living process sees: not a    *)
(* page fault, which turns an untouched page into a frame somebody else    *)
(* used before, nor the births and deaths of other processes.              *)
(***************************************************************************)
OnlyWritesAreSeen ==
  [][\A p \in live \cap live' :
       Seen(p)' # Seen(p) => \E e \in Pages, v \in Values : Write(p, e, v)]_vars

(***************************************************************************)
(* memory_mapping.c:45 calls virtual page 0 the null pointer, which is not *)
(* mapped: so every access to it is caught.                                *)
(***************************************************************************)
NullPageUnmapped == nullPage = NoFrame
=============================================================================
