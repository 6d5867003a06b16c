------------------------ MODULE AddressSpaceProofs ------------------------
(***************************************************************************)
(* Invariants of paging, and that it gives each process a private memory,  *)
(* for any processes, regions, pages, frames and contents.                 *)
(***************************************************************************)
EXTENDS AddressSpace, TLAPS, FiniteSetTheorems

-----------------------------------------------------------------------------
(***************************************************************************)
(* The invariant.  That frames are private needs that a free one is in no  *)
(* page table, and the exact count that the entries of a process and their *)
(* frames are equally many, which is privacy again.                        *)
(***************************************************************************)
Used(x) == x = nullPage \/ \E p \in Processes, e \in Entries : space[p][e] = x

FreeOrUsed == \A x \in Frames : x \in free <=> ~Used(x)

NullPagePrivate ==
  nullPage = NoFrame \/ \A p \in Processes, e \in Entries : space[p][e] # nullPage

DeadMapNothing ==
  \A p \in Processes, e \in Entries : space[p][e] # NoFrame => p \in live

PagesHaveTables ==
  \A p \in Processes, e \in Pages :
    space[p][e] # NoFrame => space[p][TableOf(e)] # NoFrame

CountExact == TotalFreePageCount = Cardinality(free)

SpaceInv == FramesPrivate /\ NullPagePrivate /\ FreeOrUsed

TableInv == DeadMapNothing /\ PagesHaveTables

IInv == TypeOK /\ SpaceInv /\ TableInv /\ CountExact

-----------------------------------------------------------------------------
\* Frame numbers start above NoFrame.
LEMMA NoFrameIsNone == NoFrame \notin Frames
  BY ConstantsAssumption DEF NoFrame

LEMMA EntryTypes ==
  /\ Tables \subseteq Entries /\ Pages \subseteq Entries
  /\ Tables \cap Pages = {}
  /\ \A e \in Pages : TableOf(e) \in Tables
  /\ \A e \in Entries : e[1] \in Nat /\ e[2] \in Nat /\ e = <<e[1], e[2]>>
<1>1. Tables \subseteq Entries /\ Pages \subseteq Entries
  BY DEF Entries
<1>2. Tables \cap Pages = {}
  BY ConstantsAssumption DEF Tables, Pages
<1>3. \A e \in Pages : TableOf(e) \in Tables
  BY DEF Pages, Tables, TableOf
<1>4. ASSUME NEW e \in Entries
      PROVE  e[1] \in Nat /\ e[2] \in Nat /\ e = <<e[1], e[2]>>
  <2>1. PICK i \in Regions, j \in PageIndices \cup {0} : e = <<i, j>>
    BY DEF Entries, Tables, Pages
  <2>2. i \in Nat /\ j \in Nat
    BY ConstantsAssumption
  <2> QED
    BY <2>1, <2>2
<1> QED
  BY <1>1, <1>2, <1>3, <1>4

LEMMA FreeIsFinite ==
  ASSUME TypeOK
  PROVE  /\ IsFiniteSet(free) /\ Cardinality(free) \in Nat
         /\ Cardinality(free) <= Cardinality(Frames)
         /\ IsFiniteSet(Frames) /\ Cardinality(Frames) \in Nat
<1>1. IsFiniteSet(Frames) /\ free \in SUBSET Frames
  BY ConstantsAssumption DEF TypeOK
<1> QED
  BY <1>1, FS_Subset, FS_CardinalityType

\* A series of allocations gives every entry a frame of its own, a free one.
LEMMA AllotmentIsInjective ==
  ASSUME TypeOK, NEW S \in SUBSET Entries, NEW f \in Allotments(S)
  PROVE  /\ f \in [S -> free]
         /\ \A d, e \in S : f[d] = f[e] => d = e
<1>1. f \in [S -> free] /\ \A d, e \in S : Before(d, e) => f[d] < f[e]
  BY DEF Allotments
<1>2. \A d, e \in S : d = e \/ Before(d, e) \/ Before(e, d)
  BY EntryTypes DEF Before
<1>3. free \subseteq Nat
  BY ConstantsAssumption DEF TypeOK
<1>4. ASSUME NEW d \in S, NEW e \in S, f[d] = f[e], d # e
      PROVE  FALSE
  <2>1. f[d] \in Nat /\ f[e] \in Nat
    BY <1>1, <1>3
  <2>2. f[d] < f[e] \/ f[e] < f[d]
    BY <1>1, <1>2, <1>4
  <2> QED
    BY <2>1, <2>2, <1>4
<1> QED
  BY <1>1, <1>4

\* Taking free frames keeps the count exact.
LEMMA TakeCounts ==
  ASSUME TypeOK, CountExact, NEW S \in SUBSET free, Take(S)
  PROVE  /\ free' = free \ S /\ free' \in SUBSET Frames
         /\ CountExact'
         /\ TotalFreePageCount' \in 0 .. Cardinality(Frames)
<1>1. free' = free \ S /\ TotalFreePageCount' = Cardinality(free) - Cardinality(S)
  BY DEF Take, CountExact
<1>2. IsFiniteSet(free) /\ IsFiniteSet(S)
  BY FreeIsFinite, FS_Subset
<1>3. /\ Cardinality(free) \in Nat /\ Cardinality(S) \in Nat
      /\ Cardinality(S) <= Cardinality(free)
      /\ Cardinality(free) <= Cardinality(Frames) /\ Cardinality(Frames) \in Nat
  BY <1>2, FreeIsFinite, FS_Subset, FS_CardinalityType
<1>4. Cardinality(free \ S) = Cardinality(free) - Cardinality(free \cap S)
  BY <1>2, FS_Difference
<1>5. free \cap S = S
  OBVIOUS
<1>6. free' \in SUBSET Frames
  BY <1>1 DEF TypeOK
<1>7. TotalFreePageCount' \in 0 .. Cardinality(Frames)
  BY <1>1, <1>3
<1> QED
  BY <1>1, <1>4, <1>5, <1>6, <1>7 DEF CountExact

-----------------------------------------------------------------------------
\* What a fault or a fork does to the page tables: entries S of process p, which
\* pointed to nothing, get the frames f, and nothing else changes.
SpaceGrows(p, S, f) ==
  /\ space' \in [Processes -> [Entries -> Frames \cup {NoFrame}]]
  /\ \A q \in Processes, d \in Entries :
       space'[q][d] = IF q = p /\ d \in S THEN f[d] ELSE space[q][d]
  /\ \A d \in S : space[p][d] = NoFrame
  /\ free' = free \ {f[d] : d \in S}
  /\ UNCHANGED nullPage

LEMMA GrowthKeepsSpace ==
  ASSUME TypeOK, SpaceInv, NEW p \in Processes, NEW S \in SUBSET Entries,
         NEW f \in Allotments(S), SpaceGrows(p, S, f)
  PROVE  SpaceInv'
<1>1. f \in [S -> free] /\ \A d, e \in S : f[d] = f[e] => d = e
  BY AllotmentIsInjective
<1>2. \A q \in Processes, d \in Entries :
        space'[q][d] = IF q = p /\ d \in S THEN f[d] ELSE space[q][d]
  BY DEF SpaceGrows
<1>3. free \subseteq Frames /\ NoFrame \notin Frames
  BY NoFrameIsNone DEF TypeOK
<1>4. \A d \in S : f[d] \in free /\ f[d] \in Frames /\ ~Used(f[d])
  BY <1>1, <1>3 DEF SpaceInv, FreeOrUsed
<1>5. FramesPrivate'
  <2> SUFFICES ASSUME NEW q \in Processes, NEW r \in Processes,
                      NEW d \in Entries, NEW e \in Entries,
                      space'[q][d] = space'[r][e], space'[q][d] # NoFrame
               PROVE  q = r /\ d = e
    BY DEF FramesPrivate
  <2>1. CASE (q = p /\ d \in S) /\ (r = p /\ e \in S)
    BY <1>1, <1>2, <2>1
  <2>2. CASE (q = p /\ d \in S) /\ ~(r = p /\ e \in S)
    BY <1>2, <1>4, <2>2 DEF Used
  <2>3. CASE ~(q = p /\ d \in S) /\ (r = p /\ e \in S)
    BY <1>2, <1>4, <2>3 DEF Used
  <2>4. CASE ~(q = p /\ d \in S) /\ ~(r = p /\ e \in S)
    BY <1>2, <2>4 DEF SpaceInv, FramesPrivate
  <2> QED
    BY <2>1, <2>2, <2>3, <2>4
<1>6. NullPagePrivate'
  BY <1>2, <1>4 DEF SpaceInv, NullPagePrivate, SpaceGrows, Used
<1>7. FreeOrUsed'
  <2> SUFFICES ASSUME NEW x \in Frames
               PROVE  x \in free' <=> ~Used(x)'
    BY DEF FreeOrUsed
  <2>1. x \in free <=> ~Used(x)
    BY DEF SpaceInv, FreeOrUsed
  <2>2. x \in free' <=> x \in free /\ \A d \in S : f[d] # x
    BY DEF SpaceGrows
  <2>3. Used(x)' <=> Used(x) \/ \E d \in S : f[d] = x
    <3>1. ASSUME NEW d \in S, f[d] = x
          PROVE  Used(x)'
      BY <1>2, <3>1 DEF Used
    <3>2. ASSUME Used(x) PROVE Used(x)'
      <4>1. CASE x = nullPage
        BY <4>1 DEF Used, SpaceGrows
      <4>2. ASSUME NEW q \in Processes, NEW d \in Entries, space[q][d] = x
            PROVE  Used(x)'
        <5>1. space'[q][d] = x
          BY <1>2, <1>3, <4>2 DEF SpaceGrows
        <5> QED
          BY <5>1 DEF Used
      <4> QED
        BY <3>2, <4>1, <4>2 DEF Used
    <3>3. ASSUME Used(x)', ~Used(x)
          PROVE  \E d \in S : f[d] = x
      BY <1>2, <3>3 DEF Used, SpaceGrows
    <3> QED
      BY <3>1, <3>2, <3>3
  <2> QED
    BY <2>1, <2>2, <2>3
<1> QED
  BY <1>5, <1>6, <1>7 DEF SpaceInv

-----------------------------------------------------------------------------
LEMMA InitIInv == Init => IInv
<1> SUFFICES ASSUME Init PROVE IInv
  OBVIOUS
<1>1. \A p \in Processes, e \in Entries : space[p][e] = NoFrame
  BY DEF Init, Unmapped
<1>2. TypeOK
  <2>1. Cardinality(Frames) \in 0 .. Cardinality(Frames)
    BY ConstantsAssumption, FS_CardinalityType
  <2>2. space \in [Processes -> [Entries -> Frames \cup {NoFrame}]]
    BY DEF Init, Unmapped
  <2> QED
    BY <2>1, <2>2 DEF Init, TypeOK
<1>3. SpaceInv
  BY <1>1, NoFrameIsNone DEF Init, SpaceInv, FramesPrivate, NullPagePrivate, FreeOrUsed, Used
<1>4. TableInv
  BY <1>1, EntryTypes DEF TableInv, DeadMapNothing, PagesHaveTables
<1> QED
  BY <1>2, <1>3, <1>4 DEF IInv, CountExact, Init

\* A fault in a user page.
LEMMA MapPageKeeps ==
  ASSUME IInv, NEW p \in Processes, NEW e \in Pages, MapPage(p, e)
  PROVE  IInv'
<1> DEFINE S == Missing(p, e)
<1>1. PICK f \in Allotments(S) :
        /\ space' = [space EXCEPT ![p] = [d \in Entries |-> IF d \in S THEN f[d] ELSE @[d]]]
        /\ Take({f[d] : d \in S})
        /\ content' = [x \in Frames |-> IF x \in {f[d] : d \in S} THEN Zero ELSE content[x]]
  BY DEF MapPage
<1>2. /\ TypeOK /\ S \subseteq Entries /\ e \in Entries /\ TableOf(e) \in Entries
      /\ \A d \in S : space[p][d] = NoFrame
  BY EntryTypes DEF IInv, Missing, Mapped
<1> HIDE DEF S
<1>3. f \in [S -> free] /\ {f[d] : d \in S} \in SUBSET free
  BY <1>2, AllotmentIsInjective
<1>4. /\ free' = free \ {f[d] : d \in S} /\ free' \in SUBSET Frames
      /\ CountExact' /\ TotalFreePageCount' \in 0 .. Cardinality(Frames)
  BY <1>1, <1>2, <1>3, TakeCounts DEF IInv
<1>5. /\ \A q \in Processes, d \in Entries :
           space'[q][d] = IF q = p /\ d \in S THEN f[d] ELSE space[q][d]
      /\ space' \in [Processes -> [Entries -> Frames \cup {NoFrame}]]
  BY <1>1, <1>2, <1>3 DEF TypeOK
<1>6. SpaceGrows(p, S, f)
  BY <1>2, <1>4, <1>5 DEF SpaceGrows, MapPage
<1>7. SpaceInv'
  BY <1>2, <1>6, GrowthKeepsSpace DEF IInv
<1>8. content' \in [Frames -> Values]
  BY <1>1, <1>2, ConstantsAssumption DEF TypeOK
<1>9. TypeOK'
  BY <1>2, <1>4, <1>5, <1>8 DEF TypeOK, MapPage
<1>10. DeadMapNothing'
  BY <1>5 DEF DeadMapNothing, IInv, TableInv, MapPage
<1>11. PagesHaveTables'
  <2> SUFFICES ASSUME NEW q \in Processes, NEW d \in Pages, space'[q][d] # NoFrame
               PROVE  space'[q][TableOf(d)] # NoFrame
    BY DEF PagesHaveTables
  <2>1. d \in Entries /\ TableOf(d) \in Entries /\ TableOf(d) \notin Pages
    BY EntryTypes
  <2>2. \A c \in S : f[c] # NoFrame
    BY <1>2, <1>3, NoFrameIsNone DEF TypeOK
  <2>3. CASE q = p /\ d \in S
    <3>1. d = e
      BY <2>1, <2>3, EntryTypes DEF S, Missing
    <3>2. TableOf(e) \in S \/ space[p][TableOf(e)] # NoFrame
      BY <1>2 DEF S, Missing, Mapped
    <3> QED
      BY <1>5, <2>1, <2>2, <2>3, <3>1, <3>2
  <2>4. CASE ~(q = p /\ d \in S)
    <3>1. space[q][TableOf(d)] # NoFrame
      BY <1>5, <2>1, <2>4 DEF IInv, TableInv, PagesHaveTables
    <3> QED
      BY <1>5, <2>1, <2>2, <3>1
  <2> QED
    BY <2>3, <2>4
<1> QED
  BY <1>4, <1>7, <1>9, <1>10, <1>11 DEF IInv, TableInv

\* A fault in the null page, for another address than 0.
LEMMA MapNullPageKeeps ==
  ASSUME IInv, MapNullPage
  PROVE  IInv'
<1>1. PICK x \in free :
        nullPage' = x /\ Take({x}) /\ content' = [content EXCEPT ![x] = Zero]
  BY DEF MapNullPage
<1>2. TypeOK /\ x \in Frames /\ x # NoFrame /\ {x} \in SUBSET free /\ ~Used(x)
  BY <1>1, NoFrameIsNone DEF IInv, TypeOK, SpaceInv, FreeOrUsed
<1>3. /\ free' = free \ {x} /\ free' \in SUBSET Frames
      /\ CountExact' /\ TotalFreePageCount' \in 0 .. Cardinality(Frames)
  BY <1>1, <1>2, TakeCounts DEF IInv
<1>4. UNCHANGED <<live, space, panic>> /\ nullPage = NoFrame
  BY DEF MapNullPage
<1>5. content' \in [Frames -> Values]
  BY <1>1, <1>2, ConstantsAssumption DEF TypeOK
<1>6. TypeOK'
  BY <1>1, <1>2, <1>3, <1>4, <1>5 DEF TypeOK
<1>7. FramesPrivate' /\ NullPagePrivate'
  BY <1>1, <1>2, <1>4 DEF IInv, SpaceInv, FramesPrivate, NullPagePrivate, Used
<1>8. FreeOrUsed'
  <2> SUFFICES ASSUME NEW y \in Frames PROVE y \in free' <=> ~Used(y)'
    BY DEF FreeOrUsed
  <2>1. y \in free <=> ~Used(y)
    BY DEF IInv, SpaceInv, FreeOrUsed
  <2>2. Used(y)' <=> Used(y) \/ y = x
    BY <1>1, <1>2, <1>4, NoFrameIsNone DEF Used
  <2> QED
    BY <1>3, <2>1, <2>2
<1>9. TableInv'
  BY <1>4 DEF IInv, TableInv, DeadMapNothing, PagesHaveTables
<1> QED
  BY <1>3, <1>6, <1>7, <1>8, <1>9 DEF IInv, SpaceInv

\* A fork copies every table and every page of the parent.
LEMMA ForkKeeps ==
  ASSUME IInv, NEW p \in Processes, NEW c \in Processes, ForkProcess(p, c)
  PROVE  IInv'
<1> DEFINE S == Mapped(p)
<1>1. PICK f \in Allotments(S) :
        /\ space' = [space EXCEPT ![c] = [e \in Entries |-> IF e \in S THEN f[e] ELSE NoFrame]]
        /\ Take({f[e] : e \in S})
        /\ content' = [x \in Frames |->
                         IF \E e \in S : f[e] = x
                         THEN content[space[p][CHOOSE e \in S : f[e] = x]]
                         ELSE content[x]]
  BY DEF ForkProcess
<1>2. /\ TypeOK /\ S \subseteq Entries
      /\ \A d \in Entries : space[c][d] = NoFrame
      /\ \A d \in S : space[p][d] \in Frames
  BY DEF IInv, TableInv, DeadMapNothing, ForkProcess, Mapped, TypeOK
<1>3. S = {d \in Entries : space[p][d] # NoFrame}
  BY DEF Mapped
<1> HIDE DEF S
<1>4. f \in [S -> free] /\ {f[d] : d \in S} \in SUBSET free
  BY <1>2, AllotmentIsInjective
<1>5. /\ free' = free \ {f[d] : d \in S} /\ free' \in SUBSET Frames
      /\ CountExact' /\ TotalFreePageCount' \in 0 .. Cardinality(Frames)
  BY <1>1, <1>2, <1>4, TakeCounts DEF IInv
<1>6. /\ \A q \in Processes, d \in Entries :
           space'[q][d] = IF q = c /\ d \in S THEN f[d] ELSE space[q][d]
      /\ space' \in [Processes -> [Entries -> Frames \cup {NoFrame}]]
  BY <1>1, <1>2, <1>4 DEF TypeOK
<1>7. SpaceGrows(c, S, f)
  BY <1>2, <1>5, <1>6 DEF SpaceGrows, ForkProcess
<1>8. SpaceInv'
  BY <1>2, <1>7, GrowthKeepsSpace DEF IInv
<1>9. content' \in [Frames -> Values]
  <2> SUFFICES ASSUME NEW x \in Frames PROVE content'[x] \in Values
    BY <1>1
  <2>1. CASE \E e \in S : f[e] = x
    <3>1. (CHOOSE e \in S : f[e] = x) \in S
      BY <2>1
    <3> QED
      BY <1>1, <1>2, <2>1, <3>1 DEF TypeOK
  <2>2. CASE ~ \E e \in S : f[e] = x
    BY <1>1, <1>2, <2>2 DEF TypeOK
  <2> QED
    BY <2>1, <2>2
<1>10. TypeOK'
  BY <1>2, <1>5, <1>6, <1>9 DEF TypeOK, ForkProcess
<1>11. DeadMapNothing'
  BY <1>6 DEF DeadMapNothing, IInv, TableInv, ForkProcess
<1>12. PagesHaveTables'
  <2> SUFFICES ASSUME NEW q \in Processes, NEW d \in Pages, space'[q][d] # NoFrame
               PROVE  space'[q][TableOf(d)] # NoFrame
    BY DEF PagesHaveTables
  <2>1. d \in Entries /\ TableOf(d) \in Entries
    BY EntryTypes
  <2>2. CASE q = c
    <3>1. d \in S
      BY <1>2, <1>6, <2>1, <2>2
    <3>2. TableOf(d) \in S
      BY <1>3, <2>1, <3>1 DEF IInv, TableInv, PagesHaveTables
    <3>3. f[TableOf(d)] # NoFrame
      BY <1>2, <1>4, <3>2, NoFrameIsNone DEF TypeOK
    <3> QED
      BY <1>6, <2>1, <2>2, <3>2, <3>3
  <2>3. CASE q # c
    BY <1>6, <2>1, <2>3 DEF IInv, TableInv, PagesHaveTables
  <2> QED
    BY <2>2, <2>3
<1> QED
  BY <1>5, <1>8, <1>10, <1>11, <1>12 DEF IInv, TableInv

\* A process has as many frames as entries: what exit counts one by one.
LEMMA FramesOfCounts ==
  ASSUME TypeOK, FramesPrivate, NEW p \in Processes
  PROVE  /\ FramesOf(p) \subseteq Frames /\ IsFiniteSet(FramesOf(p))
         /\ Cardinality(FramesOf(p)) = Cardinality(Mapped(p))
<1>1. FramesOf(p) \subseteq Frames /\ IsFiniteSet(FramesOf(p))
  <2>1. FramesOf(p) \in SUBSET Frames
    BY DEF FramesOf, Mapped, TypeOK
  <2> QED
    BY <2>1, FreeIsFinite, FS_Subset
<1>2. IsFiniteSet(Mapped(p))
  <2>1. IsFiniteSet(Tables) /\ IsFiniteSet(Pages)
    BY ConstantsAssumption, FS_Product, FS_Singleton DEF Tables, Pages
  <2>2. IsFiniteSet(Entries) /\ Mapped(p) \in SUBSET Entries
    BY <2>1, FS_Union DEF Entries, Mapped
  <2> QED
    BY <2>2, FS_Subset
<1> DEFINE g == [e \in Mapped(p) |-> space[p][e]]
<1>3. g \in Bijection(Mapped(p), FramesOf(p))
  <2>1. g \in [Mapped(p) -> FramesOf(p)]
    BY DEF FramesOf
  <2>2. ASSUME NEW d \in Mapped(p), NEW e \in Mapped(p), g[d] = g[e]
        PROVE  d = e
    BY <2>2 DEF FramesPrivate, Mapped
  <2>3. \A x \in FramesOf(p) : \E e \in Mapped(p) : g[e] = x
    BY DEF FramesOf
  <2> QED
    BY <2>1, <2>2, <2>3 DEF Bijection, Injection, Surjection, IsInjective
<1> QED
  BY <1>1, <1>2, <1>3, FS_Bijection DEF ExistsBijection

LEMMA ExitKeeps ==
  ASSUME IInv, NEW p \in Processes, ExitProcess(p)
  PROVE  IInv'
<1>1. /\ TypeOK /\ FramesPrivate /\ NullPagePrivate /\ FreeOrUsed /\ CountExact
      /\ free' = free \cup FramesOf(p)
      /\ TotalFreePageCount' = TotalFreePageCount + Cardinality(Mapped(p))
      /\ UNCHANGED <<nullPage, content, panic>> /\ live' = live \ {p}
  BY DEF IInv, SpaceInv, ExitProcess, GiveBack
<1>2. /\ \A q \in Processes, d \in Entries :
           space'[q][d] = IF q = p THEN NoFrame ELSE space[q][d]
      /\ space' \in [Processes -> [Entries -> Frames \cup {NoFrame}]]
  BY <1>1 DEF ExitProcess, Unmapped, TypeOK
<1>3. \A x \in FramesOf(p) : /\ x \in Frames /\ x # NoFrame /\ x # nullPage
                             /\ \E d \in Entries : space[p][d] = x
  BY <1>1, NoFrameIsNone DEF FramesOf, Mapped, TypeOK, NullPagePrivate
<1>4. free \cap FramesOf(p) = {}
  BY <1>1, <1>3 DEF FreeOrUsed, Used
<1>5. CountExact' /\ free' \in SUBSET Frames
  <2>1. /\ IsFiniteSet(FramesOf(p)) /\ IsFiniteSet(free)
        /\ Cardinality(FramesOf(p)) = Cardinality(Mapped(p))
    BY <1>1, FramesOfCounts, FreeIsFinite
  <2>2. /\ Cardinality(free \cup FramesOf(p))
             = Cardinality(free) + Cardinality(FramesOf(p)) - Cardinality({})
        /\ Cardinality({}) = 0
    BY <1>4, <2>1, FS_Union, FS_EmptySet
  <2>3. Cardinality(free) \in Nat /\ Cardinality(FramesOf(p)) \in Nat
    BY <2>1, FS_CardinalityType
  <2>4. free' \in SUBSET Frames
    BY <1>1, <1>3 DEF TypeOK
  <2> QED
    BY <1>1, <2>1, <2>2, <2>3, <2>4 DEF CountExact
<1>6. TotalFreePageCount' \in 0 .. Cardinality(Frames)
  <2>1. IsFiniteSet(Frames) /\ Cardinality(Frames) \in Nat
    BY <1>1, FreeIsFinite
  <2>2. Cardinality(free') \in Nat /\ Cardinality(free') <= Cardinality(Frames)
    BY <1>5, <2>1, FS_Subset, FS_CardinalityType
  <2> QED
    BY <1>5, <2>1, <2>2 DEF CountExact
<1>7. TypeOK'
  BY <1>1, <1>2, <1>5, <1>6 DEF TypeOK
<1>8. FramesPrivate' /\ NullPagePrivate'
  BY <1>1, <1>2 DEF FramesPrivate, NullPagePrivate, NoFrame
<1>9. FreeOrUsed'
  <2> SUFFICES ASSUME NEW x \in Frames PROVE x \in free' <=> ~Used(x)'
    BY DEF FreeOrUsed
  <2>1. x \in free <=> ~Used(x)
    BY <1>1 DEF FreeOrUsed
  <2>2. x # NoFrame
    BY NoFrameIsNone
  <2>3. CASE x \in FramesOf(p)
    <3>1. \A q \in Processes, d \in Entries : space[q][d] = x => q = p
      BY <1>1, <1>3, <2>2, <2>3 DEF FramesPrivate
    <3> QED
      BY <1>1, <1>2, <1>3, <2>2, <2>3, <3>1 DEF Used
  <2>4. CASE x \notin FramesOf(p)
    <3>1. \A d \in Entries : space[p][d] # x
      BY <2>2, <2>4 DEF FramesOf, Mapped
    <3>2. Used(x)' <=> Used(x)
      BY <1>1, <1>2, <2>2, <3>1 DEF Used
    <3> QED
      BY <1>1, <2>1, <2>4, <3>2
  <2> QED
    BY <2>3, <2>4
<1>10. TableInv'
  BY <1>1, <1>2, EntryTypes DEF IInv, TableInv, DeadMapNothing, PagesHaveTables
<1> QED
  BY <1>5, <1>7, <1>8, <1>9, <1>10 DEF IInv, SpaceInv

LEMMA NextIInv == IInv /\ [Next]_vars => IInv'
<1> SUFFICES ASSUME IInv, [Next]_vars PROVE IInv'
  OBVIOUS
<1>1. CASE UNCHANGED <<space, nullPage, free, TotalFreePageCount, content>>
           /\ live \subseteq live' /\ live' \subseteq Processes /\ panic' \in BOOLEAN
  <2>1. TypeOK'
    BY <1>1 DEF IInv, TypeOK
  <2>2. SpaceInv' /\ CountExact'
    BY <1>1 DEF IInv, SpaceInv, FramesPrivate, NullPagePrivate, FreeOrUsed, Used, CountExact
  <2>3. TableInv'
    BY <1>1 DEF IInv, TableInv, DeadMapNothing, PagesHaveTables
  <2> QED
    BY <2>1, <2>2, <2>3 DEF IInv
<1>2. ASSUME NEW p \in Processes, CreateUserProcess(p) PROVE IInv'
  BY <1>1, <1>2 DEF CreateUserProcess, IInv, TypeOK
<1>3. ASSUME NEW p \in Processes, NEW e \in Pages, MapPage(p, e) PROVE IInv'
  BY <1>3, MapPageKeeps
<1>4. ASSUME NEW S, OutOfMemory(S) PROVE IInv'
  BY <1>1, <1>4 DEF OutOfMemory, IInv, TypeOK
<1>5. CASE AccessNull
  BY <1>1, <1>5 DEF AccessNull, IInv, TypeOK
<1>6. CASE MapNullPage
  BY <1>6, MapNullPageKeeps
<1>7. ASSUME NEW p \in Processes, NEW e \in Pages, NEW v \in Values, Write(p, e, v)
      PROVE  IInv'
  <2>1. /\ UNCHANGED <<live, space, nullPage, free, TotalFreePageCount, panic>>
        /\ content' \in [Frames -> Values]
    BY <1>7 DEF Write, IInv, TypeOK
  <2>2. TypeOK'
    BY <2>1 DEF IInv, TypeOK
  <2>3. SpaceInv' /\ CountExact'
    BY <2>1 DEF IInv, SpaceInv, FramesPrivate, NullPagePrivate, FreeOrUsed, Used, CountExact
  <2>4. TableInv'
    BY <2>1 DEF IInv, TableInv, DeadMapNothing, PagesHaveTables
  <2> QED
    BY <2>2, <2>3, <2>4 DEF IInv
<1>8. ASSUME NEW p \in Processes, NEW c \in Processes, ForkProcess(p, c) PROVE IInv'
  BY <1>8, ForkKeeps
<1>9. ASSUME NEW p \in Processes, ExitProcess(p) PROVE IInv'
  BY <1>9, ExitKeeps
<1>10. CASE UNCHANGED vars
  BY <1>1, <1>10 DEF vars, IInv, TypeOK
<1> QED
  BY <1>2, <1>3, <1>4, <1>5, <1>6, <1>7, <1>8, <1>9, <1>10
     DEF Next, MapPageFails, ForkFails, Halted

LEMMA Invariance == Spec => []IInv
  BY InitIInv, NextIInv, PTL DEF Spec

-----------------------------------------------------------------------------
(***************************************************************************)
(* No two entries of any page tables point to the same frame, however      *)
(* faults, forks and exits follow each other.                              *)
(***************************************************************************)
THEOREM FramesArePrivate == Spec => []FramesPrivate
<1>1. IInv => FramesPrivate
  BY DEF IInv, SpaceInv
<1> QED
  BY <1>1, Invariance, PTL

(***************************************************************************)
(* freePageTableRecursion and copyPageTableRecursion leak no frame and     *)
(* free none twice: a frame is free or in use, and the count is exact.     *)
(***************************************************************************)
THEOREM FramesAreAccounted == Spec => []FramesAccounted
<1>1. IInv => FramesAccounted
  <2> SUFFICES ASSUME IInv PROVE FramesAccounted
    OBVIOUS
  <2>1. /\ TypeOK /\ FreeOrUsed /\ DeadMapNothing
        /\ TotalFreePageCount = Cardinality(free)
    BY DEF IInv, SpaceInv, TableInv, CountExact
  <2>2. ASSUME NEW x \in Frames
        PROVE  Used(x) <=> x \in InUse
    <3>1. x # NoFrame
      BY NoFrameIsNone
    <3>2. (x = nullPage) <=> x \in {nullPage} \ {NoFrame}
      BY <3>1
    <3>3. Used(x) <=> x = nullPage \/ \E p \in live : x \in FramesOf(p)
      BY <2>1, <3>1 DEF Used, FramesOf, Mapped, DeadMapNothing, TypeOK
    <3>4. (\E p \in live : x \in FramesOf(p)) <=> x \in UNION {FramesOf(p) : p \in live}
      OBVIOUS
    <3> QED
      BY <3>2, <3>3, <3>4 DEF InUse
  <2>3. free = Frames \ InUse
    BY <2>1, <2>2 DEF FreeOrUsed, TypeOK
  <2> QED
    BY <2>1, <2>3 DEF FramesAccounted
<1> QED
  BY <1>1, Invariance, PTL

(***************************************************************************)
(* What exit walks over is all there is: every page of a living process    *)
(* hangs on a table, and a dead one has none.                              *)
(***************************************************************************)
THEOREM ExitReachesEverything == Spec => []ReachableByExit
<1>1. IInv => ReachableByExit
  BY EntryTypes DEF IInv, TableInv, DeadMapNothing, PagesHaveTables, ReachableByExit
<1> QED
  BY <1>1, Invariance, PTL

-----------------------------------------------------------------------------
(***************************************************************************)
(* Paging implements private memories.  A step that keeps space and        *)
(* content where a process has pages is invisible to it.                   *)
(***************************************************************************)
\* What p reads in page e.
Read(p, e) == IF space[p][e] = NoFrame THEN Zero ELSE content[space[p][e]]

LEMMA SeenIsRead ==
  ASSUME NEW p
  PROVE  /\ Seen(p) = [e \in Pages |-> Read(p, e)]
         /\ Seen(p)' = [e \in Pages |-> Read(p, e)']
  BY DEF Seen, Read

\* A new page reads as the zeros that the untouched page read as.
LEMMA MapPageInvisible ==
  ASSUME IInv, NEW p \in Processes, NEW e \in Pages, MapPage(p, e),
         NEW q \in Processes
  PROVE  Seen(q)' = Seen(q)
<1> DEFINE S == Missing(p, e)
<1>1. PICK f \in Allotments(S) :
        /\ space' = [space EXCEPT ![p] = [d \in Entries |-> IF d \in S THEN f[d] ELSE @[d]]]
        /\ content' = [x \in Frames |-> IF x \in {f[d] : d \in S} THEN Zero ELSE content[x]]
  BY DEF MapPage
<1>2. /\ TypeOK /\ FreeOrUsed /\ S \subseteq Entries
      /\ \A d \in S : space[p][d] = NoFrame
  BY EntryTypes DEF IInv, SpaceInv, Missing, Mapped
<1> HIDE DEF S
<1>3. f \in [S -> free] /\ free \subseteq Frames /\ NoFrame \notin Frames
  BY <1>2, AllotmentIsInjective, NoFrameIsNone DEF TypeOK
<1>4. ASSUME NEW d \in Pages
      PROVE  Read(q, d)' = Read(q, d)
  <2>1. d \in Entries
    BY EntryTypes
  <2>2. CASE q = p /\ d \in S
    <3>1. space'[q][d] = f[d] /\ f[d] \in Frames /\ f[d] # NoFrame
      BY <1>1, <1>2, <1>3, <2>1, <2>2 DEF TypeOK
    <3>2. content'[f[d]] = Zero
      BY <1>1, <2>2, <3>1
    <3> QED
      BY <1>2, <2>2, <3>1, <3>2 DEF Read
  <2>3. CASE ~(q = p /\ d \in S)
    <3>1. space'[q][d] = space[q][d]
      BY <1>1, <1>2, <2>1, <2>3 DEF TypeOK
    <3>2. space[q][d] # NoFrame => space[q][d] \in Frames /\ space[q][d] \notin free
      BY <1>2, <2>1 DEF TypeOK, FreeOrUsed, Used
    <3>3. space[q][d] # NoFrame => content'[space[q][d]] = content[space[q][d]]
      BY <1>1, <1>3, <3>2
    <3> QED
      BY <3>1, <3>3 DEF Read
  <2> QED
    BY <2>2, <2>3
<1> QED
  BY <1>4, SeenIsRead

LEMMA MapNullPageInvisible ==
  ASSUME IInv, MapNullPage, NEW q \in Processes
  PROVE  Seen(q)' = Seen(q)
<1>1. PICK x \in free : content' = [content EXCEPT ![x] = Zero] /\ UNCHANGED space
  BY DEF MapNullPage
<1>2. ASSUME NEW d \in Pages
      PROVE  Read(q, d)' = Read(q, d)
  <2>1. d \in Entries
    BY EntryTypes
  <2>2. space[q][d] # NoFrame => space[q][d] \in Frames /\ space[q][d] # x
    BY <2>1 DEF IInv, SpaceInv, TypeOK, FreeOrUsed, Used
  <2> QED
    BY <1>1, <2>2 DEF Read, IInv, TypeOK
<1> QED
  BY <1>2, SeenIsRead

\* The child reads what the parent reads, and nobody else notices.
LEMMA ForkCopies ==
  ASSUME IInv, NEW p \in Processes, NEW c \in Processes, ForkProcess(p, c),
         NEW q \in Processes
  PROVE  Seen(q)' = IF q = c THEN Seen(p) ELSE Seen(q)
<1> DEFINE S == Mapped(p)
<1>1. PICK f \in Allotments(S) :
        /\ space' = [space EXCEPT ![c] = [e \in Entries |-> IF e \in S THEN f[e] ELSE NoFrame]]
        /\ content' = [x \in Frames |->
                         IF \E e \in S : f[e] = x
                         THEN content[space[p][CHOOSE e \in S : f[e] = x]]
                         ELSE content[x]]
  BY DEF ForkProcess
<1>2. /\ TypeOK /\ FreeOrUsed /\ S \subseteq Entries
      /\ \A d \in Entries : d \in S <=> space[p][d] # NoFrame
  BY DEF IInv, SpaceInv, Mapped
<1> HIDE DEF S
<1>3. /\ f \in [S -> free] /\ \A d, e \in S : f[d] = f[e] => d = e
      /\ free \subseteq Frames /\ NoFrame \notin Frames
  BY <1>2, AllotmentIsInjective, NoFrameIsNone DEF TypeOK
<1>4. CASE q = c
  <2>1. ASSUME NEW d \in Pages
        PROVE  Read(c, d)' = Read(p, d)
    <3>1. d \in Entries
      BY EntryTypes
    <3>2. CASE d \in S
      <4>1. space'[c][d] = f[d] /\ f[d] \in Frames /\ f[d] # NoFrame
        BY <1>1, <1>2, <1>3, <3>1, <3>2 DEF TypeOK
      <4>2. (CHOOSE e \in S : f[e] = f[d]) = d
        BY <1>3, <3>2
      <4>3. content'[f[d]] = content[space[p][d]]
        BY <1>1, <3>2, <4>1, <4>2
      <4> QED
        BY <1>2, <3>1, <3>2, <4>1, <4>3 DEF Read
    <3>3. CASE d \notin S
      BY <1>1, <1>2, <3>1, <3>3 DEF Read, TypeOK
    <3> QED
      BY <3>2, <3>3
  <2> QED
    BY <1>4, <2>1, SeenIsRead
<1>5. CASE q # c
  <2>1. ASSUME NEW d \in Pages
        PROVE  Read(q, d)' = Read(q, d)
    <3>1. d \in Entries
      BY EntryTypes
    <3>2. space'[q][d] = space[q][d]
      BY <1>1, <1>2, <1>5, <3>1 DEF TypeOK
    <3>3. space[q][d] # NoFrame => space[q][d] \in Frames /\ space[q][d] \notin free
      BY <1>2, <3>1 DEF TypeOK, FreeOrUsed, Used
    <3>4. space[q][d] # NoFrame => content'[space[q][d]] = content[space[q][d]]
      BY <1>1, <1>3, <3>3
    <3> QED
      BY <3>2, <3>4 DEF Read
  <2> QED
    BY <1>5, <2>1, SeenIsRead
<1> QED
  BY <1>4, <1>5

LEMMA ExitClears ==
  ASSUME IInv, NEW p \in Processes, ExitProcess(p), NEW q \in Processes
  PROVE  Seen(q)' = IF q = p THEN PM!Blank ELSE Seen(q)
<1>1. /\ UNCHANGED content
      /\ \A d \in Entries : space'[q][d] = IF q = p THEN NoFrame ELSE space[q][d]
  BY DEF ExitProcess, Unmapped, IInv, TypeOK
<1>2. \A d \in Pages : Read(q, d)' = IF q = p THEN Zero ELSE Read(q, d)
  BY <1>1, EntryTypes DEF Read
<1> QED
  BY <1>2, SeenIsRead DEF PM!Blank

LEMMA WriteWrites ==
  ASSUME IInv, NEW p \in Processes, NEW e \in Pages, NEW v \in Values,
         Write(p, e, v), NEW q \in Processes
  PROVE  Seen(q)' = IF q = p THEN [Seen(p) EXCEPT ![e] = v] ELSE Seen(q)
<1>1. /\ UNCHANGED space /\ content' = [content EXCEPT ![space[p][e]] = v]
      /\ space[p][e] # NoFrame
  BY DEF Write
<1>2. ASSUME NEW d \in Pages
      PROVE  Read(q, d)' = IF q = p /\ d = e THEN v ELSE Read(q, d)
  <2>1. d \in Entries /\ e \in Entries
    BY EntryTypes
  <2>2. space[p][e] \in Frames /\ (space[q][d] # NoFrame => space[q][d] \in Frames)
    BY <1>1, <2>1 DEF IInv, TypeOK
  <2>3. space[q][d] = space[p][e] => q = p /\ d = e
    BY <1>1, <2>1 DEF IInv, SpaceInv, FramesPrivate
  <2> QED
    BY <1>1, <2>2, <2>3 DEF Read, IInv, TypeOK
<1> QED
  BY <1>2, SeenIsRead

LEMMA InitImplements == Init => PM!Init
<1> SUFFICES ASSUME Init PROVE PM!Init
  OBVIOUS
<1>1. \A p \in Processes : Seen(p) = PM!Blank
  BY EntryTypes DEF Init, Unmapped, Seen, PM!Blank
<1> QED
  BY <1>1 DEF Init, PM!Init

LEMMA NextImplements == IInv /\ [Next]_vars => [PM!Next]_(PM!pmVars)
<1> SUFFICES ASSUME IInv, [Next]_vars PROVE [PM!Next]_(PM!pmVars)
  OBVIOUS
<1> DEFINE Memory == [p \in Processes |-> Seen(p)]
<1>1. CASE UNCHANGED live /\ \A q \in Processes : Seen(q)' = Seen(q)
  BY <1>1 DEF PM!pmVars
<1>2. ASSUME NEW p \in Processes, CreateUserProcess(p)
      PROVE  PM!Create(p)
  <2>1. \A q \in Processes : Seen(q)' = Seen(q)
    BY <1>2 DEF CreateUserProcess, Seen
  <2> QED
    BY <1>2, <2>1 DEF CreateUserProcess, PM!Create
<1>3. ASSUME NEW p \in Processes, NEW e \in Pages, MapPage(p, e)
      PROVE  [PM!Next]_(PM!pmVars)
  BY <1>1, <1>3, MapPageInvisible DEF MapPage
<1>4. ASSUME UNCHANGED <<live, space, content>>
      PROVE  [PM!Next]_(PM!pmVars)
  BY <1>1, <1>4 DEF Seen
<1>5. CASE MapNullPage
  BY <1>1, <1>5, MapNullPageInvisible DEF MapNullPage
<1>6. ASSUME NEW p \in Processes, NEW e \in Pages, NEW v \in Values, Write(p, e, v)
      PROVE  PM!Write(p, e, v)
  <2>1. \A q \in Processes : Seen(q)' = IF q = p THEN [Seen(p) EXCEPT ![e] = v] ELSE Seen(q)
    BY <1>6, WriteWrites
  <2>2. Memory' = [Memory EXCEPT ![p][e] = v]
    BY <2>1
  <2> QED
    BY <1>6, <2>2 DEF Write, PM!Write
<1>7. ASSUME NEW p \in Processes, NEW c \in Processes, ForkProcess(p, c)
      PROVE  PM!Fork(p, c)
  <2>1. \A q \in Processes : Seen(q)' = IF q = c THEN Seen(p) ELSE Seen(q)
    BY <1>7, ForkCopies
  <2>2. Memory' = [Memory EXCEPT ![c] = Memory[p]]
    BY <2>1
  <2> QED
    BY <1>7, <2>2 DEF ForkProcess, PM!Fork
<1>8. ASSUME NEW p \in Processes, ExitProcess(p)
      PROVE  PM!Exit(p)
  <2>1. \A q \in Processes : Seen(q)' = IF q = p THEN PM!Blank ELSE Seen(q)
    BY <1>8, ExitClears
  <2>2. Memory' = [Memory EXCEPT ![p] = PM!Blank]
    BY <2>1
  <2> QED
    BY <1>8, <2>2 DEF ExitProcess, PM!Exit
<1> HIDE DEF Memory
<1>9. CASE UNCHANGED vars
  BY <1>4, <1>9 DEF vars
<1>10. CASE Next
  <2>1. ASSUME NEW S, OutOfMemory(S) PROVE UNCHANGED <<live, space, content>>
    BY <2>1 DEF OutOfMemory
  <2> QED
    BY <1>2, <1>3, <1>4, <1>5, <1>6, <1>7, <1>8, <1>9, <1>10, <2>1
       DEF Next, MapPageFails, ForkFails, AccessNull, Halted, PM!Next
<1> QED
  BY <1>9, <1>10

(***************************************************************************)
(* Paging gives each process a private memory: every step of the handlers  *)
(* is a step of PrivateMemory or changes nothing a program can read.       *)
(***************************************************************************)
THEOREM MemoryIsPrivate == Spec => ImplementsPrivateMemory
  BY Invariance, InitImplements, NextImplements, PTL
     DEF Spec, ImplementsPrivateMemory, PM!Spec

(***************************************************************************)
(* A living process sees nothing change but by its own writes: not by a    *)
(* fault, that takes a frame somebody used before, nor by the births and   *)
(* deaths of others.                                                       *)
(***************************************************************************)
THEOREM OnlyOwnWritesShow == Spec => OnlyWritesAreSeen
<1> DEFINE A == \A p \in live \cap live' :
                  Seen(p)' # Seen(p) => \E e \in Pages, v \in Values : Write(p, e, v)
<1>1. IInv /\ [Next]_vars => [A]_vars
  <2> SUFFICES ASSUME IInv, Next, NEW p \in live \cap live', Seen(p)' # Seen(p)
               PROVE  \E e \in Pages, v \in Values : Write(p, e, v)
    OBVIOUS
  <2>1. p \in Processes
    BY DEF IInv, TypeOK
  <2>2. ~ UNCHANGED <<space, content>>
    BY DEF Seen
  <2>3. ASSUME NEW q \in Processes, NEW e \in Pages, NEW v \in Values, Write(q, e, v)
        PROVE  Write(p, e, v)
    BY <2>1, <2>3, WriteWrites
  <2>4. ASSUME NEW q \in Processes, NEW c \in Processes PROVE ~ForkProcess(q, c)
    BY <2>1, ForkCopies DEF ForkProcess
  <2>5. ASSUME NEW q \in Processes PROVE ~ExitProcess(q)
    BY <2>1, ExitClears DEF ExitProcess
  <2>6. ~MapNullPage /\ \A q \in Processes, e \in Pages : ~MapPage(q, e)
    BY <2>1, MapPageInvisible, MapNullPageInvisible
  <2> QED
    BY <2>2, <2>3, <2>4, <2>5, <2>6
       DEF Next, CreateUserProcess, MapPageFails, ForkFails, AccessNull, Halted,
           OutOfMemory, vars
<1> QED
  BY <1>1, Invariance, PTL DEF Spec, OnlyWritesAreSeen

=============================================================================
