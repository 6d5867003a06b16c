------------------------ MODULE ProcessManagerProofs ------------------------
(***************************************************************************)
(* Invariants of the process manager, for any number of slots, PCBs,       *)
(* frames and boot processes.                                              *)
(***************************************************************************)
EXTENDS ProcessRoundRobin, TLAPS, FiniteSetTheorems

-----------------------------------------------------------------------------
(***************************************************************************)
(* What the operations of the circular queue preserve, for every size.     *)
(***************************************************************************)
\* A queue of elements of S whose array holds elements between Front and Rear
\* and NULL elsewhere.
QueueOf(S, q) ==
  /\ q \in [Slots : [Indices -> S \cup {NULL}], Front : Indices, Rear : Indices]
  /\ \A i \in Indices : q.Slots[i] # NULL <=> InRegion(q, i)

\* Going to the next slot is adding one, except at the end of the array.
LEMMA SuccCases ==
  ASSUME NEW i \in Indices
  PROVE  /\ Succ(i) \in Indices
         /\ Succ(i) = IF i = MAX_PROCESS_COUNT - 1 THEN 0 ELSE i + 1
<1>1. MAX_PROCESS_COUNT \in Nat /\ MAX_PROCESS_COUNT > 1
  BY SizeAssumption
<1>2. CASE i = MAX_PROCESS_COUNT - 1
  BY <1>1, <1>2 DEF Succ, Indices
<1>3. CASE i # MAX_PROCESS_COUNT - 1
  BY <1>1, <1>3 DEF Succ, Indices
<1> QED
  BY <1>2, <1>3

LEMMA EmptyQueueOf ==
  ASSUME NEW S, NEW i \in Indices
  PROVE  QueueOf(S, EmptyQueueAt(i))
  BY SizeAssumption DEF QueueOf, EmptyQueueAt, Indices, InRegion

\* AddProcess on a queue that is not full.
LEMMA PushQueueOf ==
  ASSUME NEW S, NEW q, NEW p \in S, NULL \notin S, QueueOf(S, q), ~IsFull(q)
  PROVE  QueueOf(S, Push(q, p))
<1>1. /\ q.Rear \in Indices /\ q.Front \in Indices
      /\ Succ(q.Rear) \in Indices
      /\ Succ(q.Rear) = IF q.Rear = MAX_PROCESS_COUNT - 1 THEN 0 ELSE q.Rear + 1
  BY SuccCases DEF QueueOf
<1>2. /\ Push(q, p) \in [Slots : [Indices -> S \cup {NULL}],
                         Front : Indices, Rear : Indices]
      /\ Push(q, p).Front = q.Front
      /\ Push(q, p).Rear = Succ(q.Rear)
      /\ \A i \in Indices :
           Push(q, p).Slots[i] = IF i = q.Rear THEN p ELSE q.Slots[i]
  BY <1>1 DEF QueueOf, Push
<1>3. ASSUME NEW i \in Indices
      PROVE  InRegion(Push(q, p), i) <=> i = q.Rear \/ InRegion(q, i)
  BY <1>1, <1>2, SizeAssumption DEF InRegion, IsFull, Indices
<1> QED
  BY <1>2, <1>3 DEF QueueOf

\* fetchProcess on a queue that is not empty.
LEMMA FetchQueueOf ==
  ASSUME NEW S, NEW q, NULL \notin S, QueueOf(S, q), ~IsEmpty(q)
  PROVE  FrontOf(q) \in S /\ QueueOf(S, Fetch(q))
<1>1. /\ q.Rear \in Indices /\ q.Front \in Indices
      /\ Succ(q.Front) \in Indices
      /\ Succ(q.Front) = IF q.Front = MAX_PROCESS_COUNT - 1 THEN 0 ELSE q.Front + 1
  BY SuccCases DEF QueueOf
<1>2. /\ Fetch(q) \in [Slots : [Indices -> S \cup {NULL}],
                       Front : Indices, Rear : Indices]
      /\ Fetch(q).Front = Succ(q.Front)
      /\ Fetch(q).Rear = q.Rear
      /\ \A i \in Indices :
           Fetch(q).Slots[i] = IF i = q.Front THEN NULL ELSE q.Slots[i]
  BY <1>1 DEF QueueOf, Fetch
<1>3. InRegion(q, q.Front)
  BY <1>1, SizeAssumption DEF InRegion, IsEmpty, Indices
<1>4. ASSUME NEW i \in Indices
      PROVE  InRegion(Fetch(q), i) <=> i # q.Front /\ InRegion(q, i)
  BY <1>1, <1>2, SizeAssumption DEF InRegion, IsEmpty, Indices
<1>5. FrontOf(q) \in S
  BY <1>1, <1>3 DEF QueueOf, FrontOf
<1> QED
  BY <1>2, <1>4, <1>5 DEF QueueOf

-----------------------------------------------------------------------------
\* The elements of the array, and the array without repetitions.
Holds(q, x) == \E i \in Indices : q.Slots[i] = x

Distinct(q) ==
  \A i, j \in Indices : q.Slots[i] = q.Slots[j] /\ q.Slots[i] # NULL => i = j

\* What is between Front and Rear is what the array holds.
LEMMA QueuedHolds ==
  ASSUME NEW S, NEW q, NEW x \in S, NULL \notin S, QueueOf(S, q)
  PROVE  x \in Queued(q) <=> Holds(q, x)
  BY DEF Queued, Holds, QueueOf

\* AddProcess adds its argument and keeps the rest.
LEMMA PushContents ==
  ASSUME NEW S, NEW q, NEW p \in S, NULL \notin S, QueueOf(S, q), ~IsFull(q)
  PROVE  /\ \A x \in S : Holds(Push(q, p), x) <=> x = p \/ Holds(q, x)
         /\ Distinct(q) /\ ~Holds(q, p) => Distinct(Push(q, p))
<1>1. /\ q.Rear \in Indices
      /\ \A i \in Indices :
           Push(q, p).Slots[i] = IF i = q.Rear THEN p ELSE q.Slots[i]
  BY DEF QueueOf, Push
<1>2. ~InRegion(q, q.Rear)
  BY <1>1, SizeAssumption DEF InRegion, Indices, QueueOf
<1>3. q.Slots[q.Rear] = NULL
  BY <1>1, <1>2 DEF QueueOf
<1> QED
  BY <1>1, <1>3 DEF Holds, Distinct

\* fetchProcess takes away the process it returns and no other.
LEMMA FetchContents ==
  ASSUME NEW S, NEW q, NULL \notin S, QueueOf(S, q), ~IsEmpty(q), Distinct(q)
  PROVE  /\ Holds(q, FrontOf(q))
         /\ \A x \in S : Holds(Fetch(q), x) <=> x # FrontOf(q) /\ Holds(q, x)
         /\ Distinct(Fetch(q))
<1>1. /\ q.Front \in Indices
      /\ FrontOf(q) = q.Slots[q.Front] /\ FrontOf(q) \in S
      /\ \A i \in Indices :
           Fetch(q).Slots[i] = IF i = q.Front THEN NULL ELSE q.Slots[i]
  BY FetchQueueOf DEF QueueOf, Fetch, FrontOf
<1>2. Distinct(Fetch(q))
  BY <1>1 DEF Distinct
<1>3. \A x \in S : Holds(Fetch(q), x) <=> x # FrontOf(q) /\ Holds(q, x)
  BY <1>1 DEF Distinct, Holds
<1> QED
  BY <1>1, <1>2, <1>3 DEF Holds

LEMMA EmptyQueueContents ==
  ASSUME NEW S, NEW i \in Indices, NULL \notin S
  PROVE  Distinct(EmptyQueueAt(i)) /\ \A x \in S : ~Holds(EmptyQueueAt(i), x)
  BY DEF Distinct, Holds, EmptyQueueAt

(***************************************************************************)
(* A queue is never full for an element it does not hold, if all elements  *)
(* there are fit into it: a full one has all slots but one in use.         *)
(***************************************************************************)
LEMMA RoomForOneMore ==
  ASSUME NEW S, NEW q, NEW p \in S, NULL \notin S, QueueOf(S, q), Distinct(q),
         ~Holds(q, p), IsFiniteSet(S), Cardinality(S) < MAX_PROCESS_COUNT
  PROVE  ~IsFull(q)
<1> SUFFICES ASSUME IsFull(q) PROVE FALSE
  OBVIOUS
<1> DEFINE g == [i \in Indices |-> IF i = q.Rear THEN p ELSE q.Slots[i]]
<1>0. q.Front \in Indices /\ q.Rear \in Indices /\ q.Front = Succ(q.Rear)
  BY DEF QueueOf, IsFull
<1>1. q.Front = IF q.Rear = MAX_PROCESS_COUNT - 1 THEN 0 ELSE q.Rear + 1
  BY <1>0, SuccCases
<1>2. \A i \in Indices : i # q.Rear => InRegion(q, i)
  BY <1>0, <1>1, SizeAssumption DEF InRegion, Indices
<1>3. \A i \in Indices : i # q.Rear => q.Slots[i] # NULL /\ q.Slots[i] \in S /\ q.Slots[i] # p
  BY <1>2 DEF QueueOf, Holds
<1>4. g \in [Indices -> S]
  BY <1>3
<1>5. \A i, j \in Indices : g[i] = g[j] => i = j
  BY <1>3 DEF Distinct
<1>6. g \in Injection(Indices, S)
  BY <1>4, <1>5 DEF Injection, IsInjective
<1>7. Cardinality(Indices) <= Cardinality(S)
  BY <1>6, FS_Injection
<1>8. Cardinality(Indices) = MAX_PROCESS_COUNT
  BY SizeAssumption, FS_Interval DEF Indices
<1>9. Cardinality(S) \in Nat
  BY FS_CardinalityType
<1> QED
  BY <1>7, <1>8, <1>9, SizeAssumption

\* Elements with distinct numbers from 1 to the last slot fit into a queue.
LEMMA NumberedElementsFit ==
  ASSUME NEW S, NEW f \in [S -> Indices \ {0}], \A x, y \in S : f[x] = f[y] => x = y
  PROVE  IsFiniteSet(S) /\ Cardinality(S) < MAX_PROCESS_COUNT
<1>1. MAX_PROCESS_COUNT \in Nat /\ 1 <= MAX_PROCESS_COUNT - 1
  BY SizeAssumption
<1>2. Indices \ {0} = 1 .. MAX_PROCESS_COUNT - 1
  BY <1>1 DEF Indices
<1>3. IsFiniteSet(Indices \ {0}) /\ Cardinality(Indices \ {0}) = MAX_PROCESS_COUNT - 1
  <2>1. 1 \in Int /\ MAX_PROCESS_COUNT - 1 \in Int
    BY <1>1
  <2>2. /\ IsFiniteSet(1 .. MAX_PROCESS_COUNT - 1)
        /\ Cardinality(1 .. MAX_PROCESS_COUNT - 1)
             = IF 1 > MAX_PROCESS_COUNT - 1 THEN 0 ELSE MAX_PROCESS_COUNT - 1 - 1 + 1
    BY <2>1, FS_Interval
  <2>3. /\ IsFiniteSet(1 .. MAX_PROCESS_COUNT - 1)
        /\ Cardinality(1 .. MAX_PROCESS_COUNT - 1) = MAX_PROCESS_COUNT - 1
    BY <1>1, <2>2
  <2> QED
    BY <1>2, <2>3, Zenon
<1>4. f \in Injection(S, Indices \ {0})
  BY DEF Injection, IsInjective
<1>5. IsFiniteSet(S) /\ Cardinality(S) <= MAX_PROCESS_COUNT - 1
  BY <1>3, <1>4, FS_Injection
<1> QED
  BY <1>1, <1>5, FS_CardinalityType

-----------------------------------------------------------------------------
(***************************************************************************)
(* Type correctness.  Schedule() reads the fields of the process it takes  *)
(* from the queue, so it needs that the head of the queue is not NULL: the *)
(* invariant is TypeOK with the shape of the ready queue.                  *)
(***************************************************************************)
ReadyQueueShape == QueueOf(PCBs, ready)

TypeInv == TypeOK /\ ReadyQueueShape

\* What a caller of Schedule(q, st) hands over.
Handover(q, st) ==
  /\ SchedulerTypeOK
  /\ QueueOf(PCBs, q)
  /\ st \in [PCBs -> States]
  /\ KernelStack' \in [PCBs -> Pages \cup {0}]
  /\ RootPPN' \in [PCBs -> Pages \cup {0}]
  /\ ID' \in [PCBs -> Indices]

LEMMA DispatchType ==
  ASSUME NEW q, NEW st, Handover(q, st), Dispatch(q, st),
         ZombieProcesses' \in [Indices -> PCBs \cup {NULL}]
  PROVE  SchedulerTypeOK' /\ ReadyQueueShape'
<1>1. CASE IsEmpty(q)
  <2>1. /\ ready' = q /\ Status' = st /\ panic' = "Queue is empty"
        /\ UNCHANGED <<Current, cr3, esp0>>
    BY <1>1 DEF Dispatch, Panic
  <2>2. ready' \in QueueType /\ ReadyQueueShape'
    BY <2>1 DEF Handover, ReadyQueueShape, QueueOf, QueueType
  <2>3. panic' \in PanicMessages \cup {"none"}
    BY <2>1 DEF PanicMessages
  <2> QED
    BY <2>1, <2>2, <2>3 DEF Handover, SchedulerTypeOK
<1>2. CASE ~IsEmpty(q)
  <2>1. FrontOf(q) \in PCBs /\ QueueOf(PCBs, Fetch(q))
    BY <1>2, PCBAssumption, FetchQueueOf DEF Handover
  <2>2. /\ ready' = Fetch(q)
        /\ Status' = [st EXCEPT ![FrontOf(q)] = "RUNNING"]
        /\ Current' = FrontOf(q)
        /\ esp0' = KernelStack'[FrontOf(q)]
        /\ cr3' = SwitchedRoot(FrontOf(q))
        /\ UNCHANGED panic
    BY <1>2 DEF Dispatch
  <2>3. cr3' \in Pages \cup {0} /\ esp0' \in Pages \cup {0}
    BY <2>1, <2>2 DEF SwitchedRoot, Handover, SchedulerTypeOK
  <2>4. Status' \in [PCBs -> States]
    BY <2>1, <2>2 DEF Handover, States
  <2>5. ready' \in QueueType /\ ReadyQueueShape'
    BY <2>1, <2>2 DEF QueueOf, QueueType, ReadyQueueShape
  <2> QED
    BY <2>1, <2>2, <2>3, <2>4, <2>5 DEF Handover, SchedulerTypeOK
<1> QED
  BY <1>1, <1>2

\* Whatever its caller did to the queue and to the statuses, Schedule() leaves
\* a well-formed state behind.
LEMMA ScheduleType ==
  ASSUME NEW q, NEW st, Handover(q, st), Schedule(q, st)
  PROVE  SchedulerTypeOK' /\ ReadyQueueShape'
<1>1. CASE Current = NULL /\ IsEmpty(q) /\ ready' = q /\ Status' = st
           /\ UNCHANGED <<Current, ZombieProcesses, cr3, esp0, panic>>
  <2>1. ready' \in QueueType /\ ReadyQueueShape'
    BY <1>1 DEF Handover, ReadyQueueShape, QueueOf, QueueType
  <2> QED
    BY <1>1, <2>1 DEF Handover, SchedulerTypeOK
<1>2. CASE UNCHANGED ZombieProcesses /\ Dispatch(q, st)
  BY <1>2, DispatchType DEF Handover, SchedulerTypeOK
<1>3. CASE Current # NULL /\ Requeues(st) /\ RequeueThenDispatch(q, st)
  <2>1. Current \in PCBs
    BY <1>3 DEF Handover, SchedulerTypeOK
  <2> DEFINE st2 == [st EXCEPT ![Current] = "RUNNABLE"]
  <2>2. st2 \in [PCBs -> States]
    BY <2>1 DEF Handover, States
  <2>3. CASE IsFull(q)
    <3>1. /\ UNCHANGED <<Current, ZombieProcesses, cr3, esp0>>
          /\ panic' = "Queue is full" /\ ready' = q /\ Status' = st2
      BY <1>3, <2>3 DEF RequeueThenDispatch, Panic
    <3>2. ready' \in QueueType /\ ReadyQueueShape'
      BY <3>1 DEF Handover, ReadyQueueShape, QueueOf, QueueType
    <3>3. panic' \in PanicMessages \cup {"none"}
      BY <3>1 DEF PanicMessages
    <3> HIDE DEF st2
    <3> QED
      BY <2>2, <3>1, <3>2, <3>3 DEF Handover, SchedulerTypeOK
  <2>4. CASE ~IsFull(q)
    <3>1. QueueOf(PCBs, Push(q, Current))
      BY <2>1, <2>4, PCBAssumption, PushQueueOf DEF Handover
    <3>2. Handover(Push(q, Current), st2)
      BY <3>1, <2>2 DEF Handover
    <3>3. Dispatch(Push(q, Current), st2) /\ UNCHANGED ZombieProcesses
      BY <1>3, <2>4 DEF RequeueThenDispatch
    <3>4. ZombieProcesses' \in [Indices -> PCBs \cup {NULL}]
      BY <3>3 DEF Handover, SchedulerTypeOK
    <3> HIDE DEF st2
    <3> QED
      BY <3>2, <3>3, <3>4, DispatchType
  <2> QED
    BY <2>3, <2>4
<1>4. CASE Current # NULL /\ Buries(st) /\ BuryThenDispatch(q, st)
  <2>1. Current \in PCBs
    BY <1>4 DEF Handover, SchedulerTypeOK
  <2>2. CASE /\ Panic("The zombie process queue is full")
             /\ ready' = q /\ Status' = st
             /\ UNCHANGED <<Current, ZombieProcesses, cr3, esp0>>
    <3>1. ready' \in QueueType /\ ReadyQueueShape'
      BY <2>2 DEF Handover, ReadyQueueShape, QueueOf, QueueType
    <3>2. panic' \in PanicMessages \cup {"none"}
      BY <2>2 DEF Panic, PanicMessages
    <3> QED
      BY <2>2, <3>1, <3>2 DEF Handover, SchedulerTypeOK
  <2>3. ASSUME NEW i \in Indices,
               ZombieProcesses' = [ZombieProcesses EXCEPT ![i] = Current],
               Dispatch(q, st)
        PROVE  SchedulerTypeOK' /\ ReadyQueueShape'
    <3>1. ZombieProcesses' \in [Indices -> PCBs \cup {NULL}]
      BY <2>1, <2>3 DEF Handover, SchedulerTypeOK
    <3> QED
      BY <2>3, <3>1, DispatchType
  <2> QED
    BY <1>4, <2>2, <2>3 DEF BuryThenDispatch
<1> QED
  BY <1>1, <1>2, <1>3, <1>4 DEF Schedule

\* A new PCB has PIDs and frames in its fields.
LEMMA NewPCBType ==
  ASSUME TypeOK, NEW p \in PCBs, NEW parent \in PIDs, NewPCB(p, parent)
  PROVE  /\ ID' \in [PCBs -> Indices]
         /\ ParentID' \in [PCBs -> PIDs]
         /\ KernelStack' \in [PCBs -> Pages \cup {0}]
         /\ RootPPN' \in [PCBs -> Pages \cup {0}]
         /\ Bitmap' \in SUBSET PIDs
         /\ freePages' \in SUBSET Pages
<1>1. PICK pid \in PIDs, stack \in Pages, root \in Pages :
        /\ AllocatePID(pid)
        /\ AllocateFrames(stack, root)
        /\ ID' = [ID EXCEPT ![p] = pid]
        /\ ParentID' = [ParentID EXCEPT ![p] = parent]
        /\ KernelStack' = [KernelStack EXCEPT ![p] = stack]
        /\ RootPPN' = [RootPPN EXCEPT ![p] = root]
  BY DEF NewPCB
<1>2. Bitmap' \in SUBSET PIDs
  BY <1>1 DEF AllocatePID, TypeOK
<1>3. freePages' \in SUBSET Pages
  BY <1>1 DEF AllocateFrames, TypeOK
<1>4. ID' \in [PCBs -> Indices] /\ ParentID' \in [PCBs -> PIDs]
  BY <1>1 DEF TypeOK, SchedulerTypeOK, PIDs, Indices
<1>5. KernelStack' \in [PCBs -> Pages \cup {0}] /\ RootPPN' \in [PCBs -> Pages \cup {0}]
  BY <1>1 DEF TypeOK, SchedulerTypeOK
<1> QED
  BY <1>2, <1>3, <1>4, <1>5

-----------------------------------------------------------------------------
(***************************************************************************)
(* The invariant.  While the kernel runs, every PCB the heap handed out is *)
(* in one place, the living processes have PIDs of their own that are set  *)
(* in the bitmap, and frames of their own that are not free.  The number   *)
(* of PIDs in use determines the number of free frames: it is what rules   *)
(* out that AllocatePID finds its bitmap full, and so that a process gets  *)
(* the PID of another one or of idle.                                      *)
(***************************************************************************)
IsZombie(p) == \E i \in Indices : ZombieProcesses[i] = p

PlaceInv ==
  /\ Distinct(ready)
  /\ \A i, j \in Indices :
       ZombieProcesses[i] = ZombieProcesses[j] /\ ZombieProcesses[i] # NULL => i = j
  /\ \A p \in PCBs :
       /\ Status[p] # "FREE" =>
            Current = p \/ Holds(ready, p) \/ IsZombie(p) \/ creating = p
       /\ Current = p => Status[p] = "RUNNING"
       /\ Holds(ready, p) => /\ Status[p] \in {"RUNNABLE", "RUNNING"}
                             /\ p # Current
       /\ IsZombie(p) => Status[p] = "ZOMBIE"
       /\ creating = p => /\ Status[p] = "RUNNABLE"
                          /\ ~Holds(ready, p)

PIDInv ==
  /\ 0 \in Bitmap
  /\ \A p \in PCBs : Live(p) => ID[p] \in Bitmap \ {0}
  /\ \A p, q \in PCBs : Live(p) /\ Live(q) /\ ID[p] = ID[q] => p = q
  /\ \A pid \in Bitmap : pid = 0 \/ \E p \in PCBs : Live(p) /\ ID[p] = pid

FrameInv ==
  /\ \A p \in PCBs : Live(p) =>
       /\ KernelStack[p] \in Pages \ freePages
       /\ RootPPN[p] \in Pages \ freePages
       /\ KernelStack[p] # RootPPN[p]
  /\ \A p, q \in PCBs : Live(p) /\ Live(q) /\ p # q =>
       /\ KernelStack[p] # KernelStack[q] /\ RootPPN[p] # RootPPN[q]
       /\ KernelStack[p] # RootPPN[q]
  /\ \A f \in Pages : f \in freePages
       \/ \E p \in PCBs : Live(p) /\ (KernelStack[p] = f \/ RootPPN[p] = f)

CountInv == 2 * Cardinality(Bitmap) + Cardinality(freePages) = KernelPages + 2

IInv == TypeInv /\ (Running => PlaceInv /\ PIDInv /\ FrameInv /\ CountInv)

LEMMA AllFinite ==
  ASSUME TypeOK
  PROVE  /\ IsFiniteSet(PIDs) /\ Cardinality(PIDs) = MAX_PROCESS_COUNT
         /\ IsFiniteSet(Pages) /\ Cardinality(Pages) = KernelPages
         /\ IsFiniteSet(Bitmap) /\ Cardinality(Bitmap) \in Nat
         /\ IsFiniteSet(freePages) /\ Cardinality(freePages) \in Nat
<1>1. IsFiniteSet(PIDs) /\ Cardinality(PIDs) = MAX_PROCESS_COUNT
  BY FS_Interval, SizeAssumption DEF PIDs
<1>2. IsFiniteSet(Pages) /\ Cardinality(Pages) = KernelPages
  BY FS_Interval, KernelPagesAssumption DEF Pages
<1>3. IsFiniteSet(Bitmap) /\ IsFiniteSet(freePages)
  BY <1>1, <1>2, FS_Subset DEF TypeOK
<1> QED
  BY <1>1, <1>2, <1>3, FS_CardinalityType

\* Two frames are free, so a PID is free as well.
LEMMA AllocationSucceeds ==
  ASSUME TypeOK, CountInv,
         NEW pid \in PIDs, NEW stack \in Pages, NEW root \in Pages,
         AllocatePID(pid), AllocateFrames(stack, root)
  PROVE  /\ pid \in PIDs \ Bitmap /\ Bitmap' = Bitmap \cup {pid}
         /\ stack \in freePages /\ root \in freePages /\ stack # root
         /\ freePages' = freePages \ {stack, root}
         /\ CountInv'
<1>1. /\ stack \in freePages /\ root \in freePages /\ stack # root
      /\ freePages' = (freePages \ {stack}) \ {root}
  BY DEF AllocateFrames, IsLowest
<1>2. /\ IsFiniteSet(freePages \ {stack})
      /\ Cardinality(freePages \ {stack}) = Cardinality(freePages) - 1
  BY <1>1, AllFinite, FS_RemoveElement
<1>3. Cardinality(freePages') = Cardinality(freePages) - 2
  <2>1. Cardinality((freePages \ {stack}) \ {root})
          = Cardinality(freePages \ {stack}) - 1
    BY <1>1, <1>2, FS_RemoveElement
  <2> QED
    BY <1>1, <1>2, <2>1, AllFinite
<1>4. Cardinality(freePages') \in Nat
  BY <1>1, <1>2, FS_RemoveElement, FS_CardinalityType
<1>5. ~(PIDs \subseteq Bitmap)
  <2>1. SUFFICES ASSUME PIDs \subseteq Bitmap PROVE FALSE
    OBVIOUS
  <2>2. Bitmap = PIDs
    BY <2>1 DEF TypeOK
  <2> QED
    BY <1>3, <1>4, <2>2, AllFinite, CapacityAssumption, KernelPagesAssumption,
       SizeAssumption DEF CountInv
<1>6. pid \in PIDs \ Bitmap /\ Bitmap' = Bitmap \cup {pid}
  BY <1>5 DEF AllocatePID, IsLowest
<1>7. Cardinality(Bitmap') = Cardinality(Bitmap) + 1
  BY <1>6, AllFinite, FS_AddElement
<1>8. CountInv'
  BY <1>3, <1>7, AllFinite, KernelPagesAssumption DEF CountInv
<1> QED
  BY <1>1, <1>6, <1>8

\* A process that is added gets a PID and frames nobody else has.
LEMMA ProcessAdded ==
  ASSUME TypeInv, PIDInv, FrameInv, CountInv,
         NEW p \in PCBs, NEW parent, NewPCB(p, parent), ~Live(p),
         \A q \in PCBs : Live(q)' <=> Live(q) \/ q = p
  PROVE  PIDInv' /\ FrameInv' /\ CountInv'
<1>1. PICK pid \in PIDs, stack \in Pages, root \in Pages :
        /\ AllocatePID(pid)
        /\ AllocateFrames(stack, root)
        /\ ID' = [ID EXCEPT ![p] = pid]
        /\ KernelStack' = [KernelStack EXCEPT ![p] = stack]
        /\ RootPPN' = [RootPPN EXCEPT ![p] = root]
  BY DEF NewPCB
<1>2. /\ pid \in PIDs \ Bitmap /\ Bitmap' = Bitmap \cup {pid}
      /\ stack \in freePages /\ root \in freePages /\ stack # root
      /\ freePages' = freePages \ {stack, root}
      /\ CountInv'
  BY <1>1, AllocationSucceeds DEF TypeInv
<1>3. /\ ID'[p] = pid /\ KernelStack'[p] = stack /\ RootPPN'[p] = root
      /\ \A q \in PCBs : q # p =>
           /\ ID'[q] = ID[q]
           /\ KernelStack'[q] = KernelStack[q] /\ RootPPN'[q] = RootPPN[q]
  BY <1>1 DEF TypeInv, TypeOK, SchedulerTypeOK
<1> HIDE DEF Live
<1>4. PIDInv'
  BY <1>2, <1>3 DEF PIDInv
<1>5. FrameInv'
  BY <1>2, <1>3 DEF FrameInv
<1> QED
  BY <1>2, <1>4, <1>5

\* A process that exits gives back its own PID and frames and no others.
LEMMA ProcessRemoved ==
  ASSUME TypeInv, PIDInv, FrameInv, CountInv,
         NEW p \in PCBs, Live(p),
         Bitmap' = Bitmap \ {ID[p]},
         freePages' = freePages \cup {KernelStack[p], RootPPN[p]},
         UNCHANGED <<ID, KernelStack, RootPPN>>,
         \A q \in PCBs : Live(q)' <=> Live(q) /\ q # p
  PROVE  PIDInv' /\ FrameInv' /\ CountInv'
<1>1. PIDInv'
  BY DEF PIDInv
<1>2. FrameInv'
  BY DEF FrameInv
<1>3. Cardinality(Bitmap') = Cardinality(Bitmap) - 1
  BY AllFinite, FS_RemoveElement DEF PIDInv, TypeInv
<1>4. Cardinality(freePages') = Cardinality(freePages) + 2
  <2>1. /\ KernelStack[p] \notin freePages
        /\ RootPPN[p] \notin freePages \cup {KernelStack[p]}
        /\ freePages' = (freePages \cup {KernelStack[p]}) \cup {RootPPN[p]}
    BY DEF FrameInv
  <2>2. /\ IsFiniteSet(freePages \cup {KernelStack[p]})
        /\ Cardinality(freePages \cup {KernelStack[p]}) = Cardinality(freePages) + 1
    BY <2>1, AllFinite, FS_AddElement DEF TypeInv
  <2> DEFINE F == freePages \cup {KernelStack[p]}
  <2>3. Cardinality(freePages') = Cardinality(freePages \cup {KernelStack[p]}) + 1
    <3>1. IsFiniteSet(F) /\ RootPPN[p] \notin F /\ freePages' = F \cup {RootPPN[p]}
      BY <2>1, <2>2
    <3> HIDE DEF F
    <3>2. Cardinality(F \cup {RootPPN[p]}) = Cardinality(F) + 1
      BY <3>1, FS_AddElement
    <3> QED
      BY <3>1, <3>2 DEF F
  <2> QED
    BY <2>2, <2>3, AllFinite DEF TypeInv
<1>5. CountInv'
  BY <1>3, <1>4, AllFinite, KernelPagesAssumption DEF CountInv, TypeInv
<1> QED
  BY <1>1, <1>2, <1>5

\* Nothing changes when the living processes keep what they have.
LEMMA ProcessesKept ==
  ASSUME PIDInv, FrameInv, CountInv,
         UNCHANGED <<Bitmap, freePages>>,
         \A q \in PCBs : Live(q)' <=> Live(q),
         \A q \in PCBs : Live(q) => /\ ID'[q] = ID[q]
                                    /\ KernelStack'[q] = KernelStack[q]
                                    /\ RootPPN'[q] = RootPPN[q]
  PROVE  PIDInv' /\ FrameInv' /\ CountInv'
  BY DEF PIDInv, FrameInv, CountInv

-----------------------------------------------------------------------------
(***************************************************************************)
(* Where Schedule() puts the processes.                                    *)
(***************************************************************************)

\* The state Schedule(q, st) is called in: its caller may have queued a child
\* or made the current process a zombie.
Placed(q, st) ==
  /\ Distinct(q)
  /\ \A i, j \in Indices :
       ZombieProcesses[i] = ZombieProcesses[j] /\ ZombieProcesses[i] # NULL => i = j
  /\ \A p \in PCBs :
       /\ st[p] # "FREE" =>
            Current = p \/ Holds(q, p) \/ IsZombie(p) \/ creating = p
       /\ Current = p => /\ st[p] \in {"RUNNING", "ZOMBIE"} /\ ID[p] # 0
                         /\ ~Holds(q, p) /\ ~IsZombie(p)
       /\ Holds(q, p) => st[p] \in {"RUNNABLE", "RUNNING"}
       /\ IsZombie(p) => st[p] = "ZOMBIE"
       /\ creating = p => st[p] = "RUNNABLE" /\ ~Holds(q, p)

\* The state in which the current process has been put away.
PutAway(q, st) ==
  /\ QueueOf(PCBs, q) /\ Distinct(q) /\ st \in [PCBs -> States]
  /\ \A i, j \in Indices :
       ZombieProcesses'[i] = ZombieProcesses'[j] /\ ZombieProcesses'[i] # NULL => i = j
  /\ \A p \in PCBs :
       /\ st[p] # "FREE" => Holds(q, p) \/ IsZombie(p)' \/ creating = p
       /\ Holds(q, p) => st[p] \in {"RUNNABLE", "RUNNING"}
       /\ IsZombie(p)' => st[p] = "ZOMBIE"
       /\ creating = p => st[p] = "RUNNABLE" /\ ~Holds(q, p)

\* Who was alive stays alive.
SameLife(st) ==
  \A p \in PCBs : /\ Live(p)' <=> st[p] \notin {"FREE", "ZOMBIE"}
                  /\ Allocated(p)' <=> st[p] # "FREE"

LEMMA DispatchPlaces ==
  ASSUME NEW q, NEW st, PutAway(q, st), Dispatch(q, st), panic' = "none",
         creating' = creating
  PROVE  PlaceInv' /\ SameLife(st)
<1>1. /\ ~IsEmpty(q)
      /\ ready' = Fetch(q)
      /\ Status' = [st EXCEPT ![FrontOf(q)] = "RUNNING"]
      /\ Current' = FrontOf(q)
  BY DEF Dispatch, Panic
<1>2. /\ Current' \in PCBs /\ Holds(q, Current')
      /\ Distinct(ready')
      /\ \A p \in PCBs : Holds(ready', p) <=> p # Current' /\ Holds(q, p)
  BY <1>1, PCBAssumption, FetchQueueOf, FetchContents DEF PutAway
<1>3. \A p \in PCBs : Status'[p] = IF p = Current' THEN "RUNNING" ELSE st[p]
  BY <1>1, <1>2 DEF PutAway
<1>4. SameLife(st)
  BY <1>2, <1>3 DEF SameLife, Live, Allocated, PutAway
<1>5. ASSUME NEW p \in PCBs
      PROVE  /\ Status'[p] # "FREE" =>
                  Current' = p \/ Holds(ready', p) \/ IsZombie(p)' \/ creating' = p
             /\ Current' = p => Status'[p] = "RUNNING"
             /\ Holds(ready', p) => /\ Status'[p] \in {"RUNNABLE", "RUNNING"}
                                    /\ p # Current'
             /\ IsZombie(p)' => Status'[p] = "ZOMBIE"
             /\ creating' = p => /\ Status'[p] = "RUNNABLE"
                                 /\ ~Holds(ready', p)
  BY <1>2, <1>3 DEF PutAway
<1>6. PlaceInv'
  BY <1>2, <1>5 DEF PlaceInv, PutAway, Distinct, Holds
<1> QED
  BY <1>4, <1>6

\* Unless it panics, Schedule() leaves every process in its one place.
LEMMA SchedulePlaces ==
  ASSUME NEW q, NEW st, Handover(q, st), Placed(q, st), Schedule(q, st),
         panic' = "none", creating' = creating
  PROVE  PlaceInv' /\ SameLife(st)
<1>1. CASE Current = NULL /\ IsEmpty(q)
  <2>1. ready' = q /\ Status' = st /\ Current' = Current
        /\ ZombieProcesses' = ZombieProcesses
    BY <1>1, PCBAssumption DEF Schedule, Dispatch, Panic
  <2> QED
    BY <1>1, <2>1, PCBAssumption
       DEF Placed, PlaceInv, SameLife, Live, Allocated, Distinct, Holds, IsZombie
<1>2. CASE Current = NULL /\ ~IsEmpty(q)
  <2>1. Dispatch(q, st) /\ ZombieProcesses' = ZombieProcesses
    BY <1>2 DEF Schedule
  <2>2. PutAway(q, st)
    BY <1>2, <2>1, PCBAssumption DEF PutAway, Placed, Handover, IsZombie
  <2> QED
    BY <2>1, <2>2, DispatchPlaces
<1>3. CASE Current # NULL /\ Requeues(st)
  <2> DEFINE st2 == [st EXCEPT ![Current] = "RUNNABLE"]
             q2 == Push(q, Current)
  <2>1. Current \in PCBs /\ st[Current] = "RUNNING" /\ ~Holds(q, Current)
    BY <1>3 DEF Requeues, Handover, SchedulerTypeOK, Placed
  <2>2. ~IsFull(q) /\ Dispatch(q2, st2) /\ ZombieProcesses' = ZombieProcesses
    BY <1>3 DEF Schedule, Requeues, Buries, RequeueThenDispatch, Panic
  <2>3. /\ QueueOf(PCBs, q2) /\ Distinct(q2)
        /\ \A p \in PCBs : Holds(q2, p) <=> p = Current \/ Holds(q, p)
    BY <2>1, <2>2, PCBAssumption, PushQueueOf, PushContents DEF Handover, Placed
  <2>4. /\ st2 \in [PCBs -> States]
        /\ \A p \in PCBs : st2[p] = IF p = Current THEN "RUNNABLE" ELSE st[p]
    BY <2>1 DEF Handover, States
  <2>5. PutAway(q2, st2)
    <3> HIDE DEF q2, st2
    <3> QED
      BY <2>1, <2>2, <2>3, <2>4 DEF PutAway, Placed, IsZombie
  <2>6. PlaceInv' /\ SameLife(st2)
    <3> HIDE DEF q2, st2
    <3> QED
      BY <2>2, <2>5, DispatchPlaces
  <2>7. SameLife(st)
    <3> HIDE DEF st2
    <3> QED
      BY <2>1, <2>4, <2>6 DEF SameLife
  <2> QED
    BY <2>6, <2>7
<1>4. CASE Current # NULL /\ Buries(st)
  <2>1. Current \in PCBs /\ st[Current] = "ZOMBIE" /\ ~Holds(q, Current)
    BY <1>4 DEF Buries, Handover, SchedulerTypeOK, Placed
  <2>2. PICK i \in Indices :
          /\ FirstFreeSlot(i)
          /\ ZombieProcesses' = [ZombieProcesses EXCEPT ![i] = Current]
          /\ Dispatch(q, st)
    BY <1>4, <2>1 DEF Schedule, Requeues, Buries, BuryThenDispatch, Panic
  <2>3. /\ ZombieProcesses[i] = NULL
        /\ \A j \in Indices :
             ZombieProcesses'[j] = IF j = i THEN Current ELSE ZombieProcesses[j]
    BY <2>2 DEF FirstFreeSlot, Handover, SchedulerTypeOK
  <2>4. \A p \in PCBs : IsZombie(p)' <=> p = Current \/ IsZombie(p)
    BY <2>3, PCBAssumption DEF IsZombie
  <2>5. \A j, k \in Indices :
          ZombieProcesses'[j] = ZombieProcesses'[k] /\ ZombieProcesses'[j] # NULL => j = k
    BY <2>1, <2>3 DEF Placed, IsZombie
  <2>6. PutAway(q, st)
    BY <2>1, <2>4, <2>5 DEF PutAway, Placed, Handover
  <2> QED
    BY <2>2, <2>6, DispatchPlaces
<1>5. CASE Current # NULL /\ ~Requeues(st) /\ ~Buries(st)
  BY <1>5 DEF Requeues, Buries, Handover, SchedulerTypeOK, Placed
<1> QED
  BY <1>1, <1>2, <1>3, <1>4, <1>5

-----------------------------------------------------------------------------
LEMMA InitTypeInv == Init => TypeInv
<1> SUFFICES ASSUME Init PROVE TypeInv
  OBVIOUS
<1>1. 0 \in Indices /\ Succ(0) \in Indices
  <2>1. 0 \in Indices
    BY SizeAssumption DEF Indices
  <2> QED
    BY <2>1, SuccCases
<1>2. ReadyQueueShape
  BY <1>1, EmptyQueueOf DEF Init, ReadyQueueShape
<1>3. SchedulerTypeOK
  BY <1>1, <1>2 DEF Init, SchedulerTypeOK, ReadyQueueShape, QueueOf, QueueType, States
<1>4. TypeOK
  BY <1>1, <1>3, BootProcessesAssumption DEF Init, TypeOK, PIDs, Indices
<1> QED
  BY <1>2, <1>4 DEF TypeInv

LEMMA NextTypeInv == IInv /\ [Next]_vars => TypeInv'
<1> SUFFICES ASSUME IInv, [Next]_vars PROVE TypeInv'
  OBVIOUS
<1> USE DEF TypeInv
<1>0. TypeOK /\ ReadyQueueShape
  BY DEF IInv
<1> USE <1>0
<1>1. ASSUME NEW p \in PCBs, BeginCreateUserProcess(p) PROVE TypeInv'
  <2>1. 0 \in PIDs
    BY SizeAssumption DEF PIDs
  <2>2. NewPCB(p, 0) /\ UNCHANGED <<Current, ready, ZombieProcesses, cr3, esp0,
                                    panic, forked>>
    BY <1>1 DEF BeginCreateUserProcess
  <2>3. Status' \in [PCBs -> States] /\ creating' \in PCBs /\ boot' \in 0 .. BootProcesses
    BY <1>1, BootProcessesAssumption
       DEF BeginCreateUserProcess, TypeOK, SchedulerTypeOK, States
  <2> QED
    BY <2>1, <2>2, <2>3, NewPCBType DEF TypeOK, SchedulerTypeOK, ReadyQueueShape
<1>2. CASE EndCreateUserProcess
  <2>1. CASE IsFull(ready)
    BY <1>2, <2>1 DEF EndCreateUserProcess, TypeOK, SchedulerTypeOK,
         ReadyQueueShape, Panic, PanicMessages
  <2>2. CASE ~IsFull(ready)
    <3>1. QueueOf(PCBs, Push(ready, creating))
      BY <1>2, <2>2, PCBAssumption, PushQueueOf
         DEF EndCreateUserProcess, TypeOK, ReadyQueueShape
    <3>2. ready' = Push(ready, creating) /\ creating' = NULL /\ UNCHANGED panic
      BY <1>2, <2>2 DEF EndCreateUserProcess
    <3>3. ReadyQueueShape' /\ ready' \in QueueType
      BY <3>1, <3>2 DEF ReadyQueueShape, QueueOf, QueueType
    <3> QED
      BY <1>2, <3>2, <3>3 DEF EndCreateUserProcess, TypeOK, SchedulerTypeOK
  <2> QED
    BY <2>1, <2>2
<1>3. CASE Tick \/ Yield
  <2>1. /\ UNCHANGED <<ID, KernelStack, RootPPN, ParentID, Bitmap, freePages,
                       forked, creating, boot>>
        /\ Schedule(ready, Status)
    BY <1>3 DEF Tick, Yield
  <2>2. Handover(ready, Status)
    BY <2>1 DEF Handover, TypeOK, SchedulerTypeOK, ReadyQueueShape
  <2> QED
    BY <2>1, <2>2, ScheduleType DEF TypeOK
<1>4. ASSUME NEW child \in PCBs, ForkProcess(child) PROVE TypeInv'
  <2> DEFINE st == [Status EXCEPT ![child] = Status[Current]]
  <2>1. /\ Current \in PCBs
        /\ NewPCB(child, ID[Current])
        /\ forked' = [forked EXCEPT ![Current] = child]
        /\ UNCHANGED <<creating, boot>>
        /\ IF IsFull(ready)
           THEN /\ Panic("Queue is full") /\ Status' = st
                /\ UNCHANGED <<Current, ready, ZombieProcesses, cr3, esp0>>
           ELSE Schedule(Push(ready, child), st)
    BY <1>4 DEF ForkProcess, InUserMode, TypeOK, SchedulerTypeOK
  <2>2. st \in [PCBs -> States]
    BY <2>1 DEF TypeOK, SchedulerTypeOK
  <2>3. ID[Current] \in PIDs
    BY <2>1 DEF TypeOK, SchedulerTypeOK, PIDs, Indices
  <2>4. /\ ID' \in [PCBs -> Indices]
        /\ ParentID' \in [PCBs -> PIDs]
        /\ KernelStack' \in [PCBs -> Pages \cup {0}]
        /\ RootPPN' \in [PCBs -> Pages \cup {0}]
        /\ Bitmap' \in SUBSET PIDs
        /\ freePages' \in SUBSET Pages
    BY <2>1, <2>3, NewPCBType
  <2>5. forked' \in [PCBs -> PCBs \cup {NULL}]
    BY <2>1 DEF TypeOK
  <2>6. SchedulerTypeOK' /\ ReadyQueueShape'
    <3>1. CASE IsFull(ready)
      BY <2>1, <2>2, <2>4, <3>1 DEF TypeOK, SchedulerTypeOK, ReadyQueueShape,
                                    Panic, PanicMessages
    <3>2. CASE ~IsFull(ready)
      <4>1. QueueOf(PCBs, Push(ready, child))
        BY <3>2, PCBAssumption, PushQueueOf DEF ReadyQueueShape
      <4>2. Handover(Push(ready, child), st)
        BY <2>2, <2>4, <4>1 DEF Handover, TypeOK
      <4>3. Schedule(Push(ready, child), st)
        BY <2>1, <3>2
      <4> HIDE DEF st
      <4> QED
        BY <4>2, <4>3, ScheduleType
    <3> QED
      BY <3>1, <3>2
  <2> QED
    BY <2>1, <2>4, <2>5, <2>6 DEF TypeOK
<1>5. CASE ForkOutOfMemory
  BY <1>5 DEF ForkOutOfMemory, TypeOK, SchedulerTypeOK, ReadyQueueShape,
              Panic, PanicMessages
<1>6. CASE ForkReturn
  <2>1. UNCHANGED <<schedVars, ParentID, Bitmap, freePages, creating, boot>>
    BY <1>6 DEF ForkReturn
  <2>2. forked' \in [PCBs -> PCBs \cup {NULL}]
    BY <1>6 DEF ForkReturn, TypeOK
  <2> QED
    BY <2>1, <2>2 DEF schedVars, TypeOK, SchedulerTypeOK, ReadyQueueShape
<1>7. CASE ExitProcess
  <2> DEFINE st == [Status EXCEPT ![Current] = "ZOMBIE"]
  <2>1. /\ Current \in PCBs
        /\ UNCHANGED <<ID, KernelStack, RootPPN, forked, creating, boot>>
        /\ Bitmap' = Bitmap \ {ID[Current]}
        /\ freePages' = freePages \cup {KernelStack[Current], RootPPN[Current]}
        /\ RedirectParentOfChildren
        /\ Schedule(ready, st)
    BY <1>7 DEF ExitProcess, InUserMode, FreePID, FreeFrames, TypeOK, SchedulerTypeOK
  <2>2. ParentID' \in [PCBs -> PIDs]
    BY <2>1 DEF RedirectParentOfChildren, Redirected, TypeOK
  <2>3. Handover(ready, st)
    BY <2>1 DEF Handover, TypeOK, SchedulerTypeOK, ReadyQueueShape, States
  <2>5. freePages' \in SUBSET Pages
    BY <1>7, <2>1 DEF ExitProcess, InUserMode, Live, Allocated, IInv, PlaceInv,
                      FrameInv, TypeOK
  <2>4. SchedulerTypeOK' /\ ReadyQueueShape'
    <3>1. Schedule(ready, st)
      BY <2>1
    <3> HIDE DEF st
    <3> QED
      BY <2>3, <3>1, ScheduleType
  <2> QED
    BY <2>1, <2>2, <2>4, <2>5 DEF TypeOK
<1>8. ASSUME NEW pid, WaitProcess(pid) PROVE TypeInv'
  BY <1>8, SizeAssumption
     DEF WaitProcess, IsFirstZombie, IsChild, TypeOK, SchedulerTypeOK,
         ReadyQueueShape, States, PIDs, Indices
<1>9. CASE Halted \/ UNCHANGED vars
  BY <1>9 DEF Halted, vars, schedVars, TypeOK, SchedulerTypeOK, ReadyQueueShape
<1> QED
  BY <1>1, <1>2, <1>3, <1>4, <1>5, <1>6, <1>7, <1>8, <1>9 DEF Next

LEMMA InitIInv == Init => IInv
<1> SUFFICES ASSUME Init PROVE IInv
  OBVIOUS
<1>1. TypeInv
  BY InitTypeInv
<1>2. Succ(0) \in Indices
  <2>1. 0 \in Indices
    BY SizeAssumption DEF Indices
  <2> QED
    BY <2>1, SuccCases
<1>3. PlaceInv
  <2>1. Distinct(ready) /\ \A p \in PCBs : ~Holds(ready, p)
    BY <1>2, PCBAssumption, EmptyQueueContents DEF Init
  <2> QED
    BY <2>1, PCBAssumption DEF Init, PlaceInv, IsZombie
<1>4. PIDInv /\ FrameInv
  BY DEF Init, PIDInv, FrameInv, Live, Allocated
<1>5. CountInv
  <2>1. Cardinality(Bitmap) = 1
    BY FS_Singleton DEF Init
  <2>2. Cardinality(freePages) = KernelPages
    BY <1>1, AllFinite DEF Init, TypeInv
  <2> QED
    BY <2>1, <2>2, KernelPagesAssumption DEF CountInv
<1> QED
  BY <1>1, <1>3, <1>4, <1>5 DEF IInv

-----------------------------------------------------------------------------
\* The current process is alive and nowhere else.
LEMMA CurrentIsAlive ==
  ASSUME IInv, Running, Current # NULL
  PROVE  /\ Current \in PCBs /\ Status[Current] = "RUNNING"
         /\ Live(Current) /\ ID[Current] # 0
         /\ ~Holds(ready, Current) /\ ~IsZombie(Current) /\ creating # Current
<1>1. Current \in PCBs /\ PlaceInv /\ PIDInv
  BY DEF IInv, TypeInv, TypeOK, SchedulerTypeOK
<1>2. Status[Current] = "RUNNING" /\ ~Holds(ready, Current)
  BY <1>1 DEF PlaceInv
<1>3. ~IsZombie(Current) /\ creating # Current
  BY <1>1, <1>2 DEF PlaceInv
<1>4. Live(Current)
  BY <1>2 DEF Live, Allocated
<1>5. ID[Current] # 0
  BY <1>1, <1>4 DEF PIDInv
<1> QED
  BY <1>1, <1>2, <1>3, <1>4, <1>5

\* A clock interrupt or a yield moves nobody out of a place or into life.
LEMMA YieldPlaces ==
  ASSUME IInv, Running, panic' = "none", Tick \/ Yield
  PROVE  PlaceInv' /\ SameLife(Status)
<1>1. /\ TypeOK /\ SchedulerTypeOK /\ QueueOf(PCBs, ready) /\ PlaceInv
  BY DEF IInv, TypeInv, TypeOK, ReadyQueueShape
<1>2. /\ UNCHANGED <<ID, KernelStack, RootPPN, creating>>
      /\ Schedule(ready, Status)
  BY DEF Tick, Yield
<1>3. Handover(ready, Status)
  BY <1>1, <1>2 DEF Handover, SchedulerTypeOK
<1>4. Placed(ready, Status)
  BY <1>1, CurrentIsAlive, PCBAssumption DEF Placed, PlaceInv
<1> QED
  BY <1>2, <1>3, <1>4, SchedulePlaces

\* A fork brings the child to life and nobody else.
LEMMA ForkPlaces ==
  ASSUME IInv, Running, panic' = "none", NEW child \in PCBs, ForkProcess(child)
  PROVE  /\ PlaceInv'
         /\ \A x \in PCBs : /\ Live(x)' <=> Live(x) \/ x = child
                            /\ Allocated(x)' <=> Allocated(x) \/ x = child
<1> DEFINE st == [Status EXCEPT ![child] = Status[Current]]
           q == Push(ready, child)
<1>0. /\ TypeOK /\ SchedulerTypeOK /\ QueueOf(PCBs, ready) /\ PlaceInv
      /\ Status \in [PCBs -> States]
  BY DEF IInv, TypeInv, TypeOK, ReadyQueueShape, SchedulerTypeOK
<1>1. /\ Current # NULL /\ Status[child] = "FREE"
      /\ NewPCB(child, ID[Current])
      /\ creating' = creating
      /\ ~IsFull(ready) /\ Schedule(q, st)
  BY DEF ForkProcess, InUserMode, Panic
<1>2. ~Holds(ready, child) /\ ~IsZombie(child) /\ child # creating /\ child # Current
  BY <1>0, <1>1, CurrentIsAlive DEF PlaceInv
<1>3. /\ QueueOf(PCBs, q) /\ Distinct(q)
      /\ \A x \in PCBs : Holds(q, x) <=> x = child \/ Holds(ready, x)
  BY <1>0, <1>1, <1>2, PCBAssumption, PushQueueOf, PushContents DEF PlaceInv
<1>4. /\ st \in [PCBs -> States]
      /\ \A x \in PCBs : st[x] = IF x = child THEN "RUNNING" ELSE Status[x]
  BY <1>0, <1>1, CurrentIsAlive
<1>5. Handover(q, st)
  <2>1. ID[Current] \in PIDs
    BY <1>0, <1>1, CurrentIsAlive DEF SchedulerTypeOK, PIDs, Indices
  <2> HIDE DEF q, st
  <2> QED
    BY <1>0, <1>1, <1>3, <1>4, <2>1, NewPCBType DEF Handover
<1>6. Placed(q, st)
  <2> HIDE DEF q, st
  <2> QED
    BY <1>0, <1>1, <1>2, <1>3, <1>4, CurrentIsAlive DEF Placed, PlaceInv
<1> HIDE DEF q, st
<1>7. PlaceInv' /\ SameLife(st)
  BY <1>1, <1>5, <1>6, SchedulePlaces
<1> QED
  BY <1>4, <1>7 DEF SameLife, Live, Allocated

\* An exit ends the life of the current process and of nobody else.
LEMMA ExitPlaces ==
  ASSUME IInv, Running, panic' = "none", ExitProcess
  PROVE  /\ Current \in PCBs /\ Live(Current)
         /\ PlaceInv'
         /\ \A x \in PCBs : /\ Live(x)' <=> Live(x) /\ x # Current
                            /\ Allocated(x)' <=> Allocated(x)
<1> DEFINE st == [Status EXCEPT ![Current] = "ZOMBIE"]
<1>0. /\ TypeOK /\ SchedulerTypeOK /\ QueueOf(PCBs, ready) /\ PlaceInv
      /\ Status \in [PCBs -> States]
  BY DEF IInv, TypeInv, TypeOK, ReadyQueueShape, SchedulerTypeOK
<1>1. /\ Current # NULL
      /\ UNCHANGED <<ID, KernelStack, RootPPN, creating>>
      /\ Schedule(ready, st)
  BY DEF ExitProcess, InUserMode
<1>2. /\ st \in [PCBs -> States]
      /\ \A x \in PCBs : st[x] = IF x = Current THEN "ZOMBIE" ELSE Status[x]
  BY <1>0, <1>1, CurrentIsAlive DEF States
<1> HIDE DEF st
<1>3. Handover(ready, st) /\ Placed(ready, st)
  BY <1>0, <1>1, <1>2, CurrentIsAlive
     DEF Handover, SchedulerTypeOK, Placed, PlaceInv
<1>4. PlaceInv' /\ SameLife(st)
  BY <1>1, <1>3, SchedulePlaces
<1> QED
  BY <1>1, <1>2, <1>4, CurrentIsAlive DEF SameLife, Live, Allocated

LEMMA NextIInv == IInv /\ [Next]_vars => IInv'
<1> SUFFICES ASSUME IInv, [Next]_vars, Running, Running',
                    TypeInv', PlaceInv, PIDInv, FrameInv, CountInv
             PROVE  PlaceInv' /\ PIDInv' /\ FrameInv' /\ CountInv'
  BY NextTypeInv DEF IInv, Next, Halted, BeginCreateUserProcess,
     EndCreateUserProcess, Tick, Yield, ForkProcess, ForkOutOfMemory,
     ForkReturn, ExitProcess, WaitProcess, InUserMode, vars, schedVars, Running
<1>0. TypeInv /\ TypeOK /\ ReadyQueueShape /\ SchedulerTypeOK
      /\ panic = "none" /\ panic' = "none"
  BY DEF IInv, TypeInv, TypeOK, Running
<1>a. QueueOf(PCBs, ready) /\ Status \in [PCBs -> States]
  BY <1>0 DEF ReadyQueueShape, SchedulerTypeOK
<1>1. ASSUME NEW p \in PCBs, BeginCreateUserProcess(p)
      PROVE  PlaceInv' /\ PIDInv' /\ FrameInv' /\ CountInv'
  <2>1. /\ Current = NULL /\ creating = NULL /\ Status[p] = "FREE"
        /\ NewPCB(p, 0)
        /\ Status' = [Status EXCEPT ![p] = "RUNNABLE"] /\ creating' = p
        /\ UNCHANGED <<Current, ready, ZombieProcesses>>
    BY <1>1 DEF BeginCreateUserProcess
  <2>2. \A q \in PCBs : Status'[q] = IF q = p THEN "RUNNABLE" ELSE Status[q]
    BY <1>a, <2>1
  <2>3. \A q \in PCBs : Live(q)' <=> Live(q) \/ q = p
    BY <2>2 DEF Live, Allocated
  <2>4. ~Live(p)
    BY <2>1 DEF Live, Allocated
  <2>5. PIDInv' /\ FrameInv' /\ CountInv'
    BY <1>0, <2>1, <2>3, <2>4, ProcessAdded
  <2>6. PlaceInv'
    BY <1>a, <2>1, <2>2, PCBAssumption DEF PlaceInv, Holds, Distinct, IsZombie
  <2> QED
    BY <2>5, <2>6
<1>2. CASE EndCreateUserProcess
  <2>1. /\ creating \in PCBs /\ ~IsFull(ready)
        /\ ready' = Push(ready, creating) /\ creating' = NULL
        /\ UNCHANGED <<Current, ZombieProcesses, Status, ID, KernelStack,
                       RootPPN, Bitmap, freePages>>
    BY <1>0, <1>2 DEF EndCreateUserProcess, TypeOK, Panic
  <2>2. /\ Distinct(ready')
        /\ \A x \in PCBs : Holds(ready', x) <=> x = creating \/ Holds(ready, x)
    BY <1>a, <2>1, PCBAssumption, PushContents DEF PlaceInv
  <2>3. Current = NULL
    BY <1>2 DEF EndCreateUserProcess
  <2>4. PlaceInv'
    BY <2>1, <2>2, <2>3, PCBAssumption DEF PlaceInv, IsZombie
  <2>5. \A q \in PCBs : Live(q)' <=> Live(q)
    BY <2>1 DEF Live, Allocated
  <2> QED
    BY <2>1, <2>4, <2>5, ProcessesKept
<1>3. CASE Tick \/ Yield
  <2>1. UNCHANGED <<ID, KernelStack, RootPPN, Bitmap, freePages>>
    BY <1>3 DEF Tick, Yield
  <2>2. PlaceInv' /\ SameLife(Status)
    BY <1>0, <1>3, YieldPlaces
  <2>3. \A q \in PCBs : Live(q)' <=> Live(q)
    BY <2>2 DEF SameLife, Live, Allocated
  <2> QED
    BY <2>1, <2>2, <2>3, ProcessesKept
<1>4. ASSUME NEW child \in PCBs, ForkProcess(child)
      PROVE  PlaceInv' /\ PIDInv' /\ FrameInv' /\ CountInv'
  <2>1. NewPCB(child, ID[Current]) /\ Status[child] = "FREE"
    BY <1>4 DEF ForkProcess
  <2>2. /\ PlaceInv'
        /\ \A x \in PCBs : Live(x)' <=> Live(x) \/ x = child
    BY <1>0, <1>4, ForkPlaces
  <2>3. ~Live(child)
    BY <2>1 DEF Live, Allocated
  <2>4. PIDInv' /\ FrameInv' /\ CountInv'
    BY <1>0, <2>1, <2>2, <2>3, ProcessAdded
  <2> QED
    BY <2>2, <2>4
<1>5. CASE ForkOutOfMemory
  BY <1>0, <1>5 DEF ForkOutOfMemory, Panic
<1>6. CASE ForkReturn \/ UNCHANGED vars
  <2>1. UNCHANGED <<schedVars, Bitmap, freePages, creating>>
    BY <1>6 DEF ForkReturn, vars
  <2>2. PlaceInv'
    BY <2>1 DEF schedVars, PlaceInv, IsZombie
  <2>3. \A x \in PCBs : Live(x)' <=> Live(x)
    BY <2>1 DEF schedVars, Live, Allocated
  <2> QED
    BY <2>1, <2>2, <2>3, ProcessesKept DEF schedVars
<1>7. CASE ExitProcess
  <2>1. /\ Bitmap' = Bitmap \ {ID[Current]}
        /\ freePages' = freePages \cup {KernelStack[Current], RootPPN[Current]}
        /\ UNCHANGED <<ID, KernelStack, RootPPN>>
    BY <1>7 DEF ExitProcess, FreePID, FreeFrames
  <2>2. /\ Current \in PCBs /\ Live(Current)
        /\ PlaceInv'
        /\ \A x \in PCBs : Live(x)' <=> Live(x) /\ x # Current
    BY <1>0, <1>7, ExitPlaces
  <2>3. PIDInv' /\ FrameInv' /\ CountInv'
    BY <1>0, <2>1, <2>2, ProcessRemoved
  <2> QED
    BY <2>2, <2>3
<1>8. ASSUME NEW pid, WaitProcess(pid)
      PROVE  PlaceInv' /\ PIDInv' /\ FrameInv' /\ CountInv'
  <2>1. PICK i \in Indices :
          /\ IsFirstZombie(i, pid)
          /\ ZombieProcesses' = [ZombieProcesses EXCEPT ![i] = NULL]
          /\ Status' = [Status EXCEPT ![ZombieProcesses[i]] = "FREE"]
          /\ ID' = [ID EXCEPT ![ZombieProcesses[i]] = 0]
          /\ KernelStack' = [KernelStack EXCEPT ![ZombieProcesses[i]] = 0]
          /\ RootPPN' = [RootPPN EXCEPT ![ZombieProcesses[i]] = 0]
    BY <1>8 DEF WaitProcess
  <2>2. UNCHANGED <<Current, ready, Bitmap, freePages, creating>>
    BY <1>8 DEF WaitProcess
  <2> DEFINE z == ZombieProcesses[i]
  <2>3. z \in PCBs
    BY <1>0, <2>1 DEF IsFirstZombie, IsChild, SchedulerTypeOK
  <2>4. Status[z] = "ZOMBIE"
    BY <2>3 DEF PlaceInv, IsZombie
  <2>5. /\ \A x \in PCBs : Status'[x] = IF x = z THEN "FREE" ELSE Status[x]
        /\ \A x \in PCBs : x # z => /\ ID'[x] = ID[x]
                                    /\ KernelStack'[x] = KernelStack[x]
                                    /\ RootPPN'[x] = RootPPN[x]
    BY <1>0, <2>1 DEF SchedulerTypeOK
  <2>6. \A j \in Indices :
          ZombieProcesses'[j] = IF j = i THEN NULL ELSE ZombieProcesses[j]
    BY <1>0, <2>1 DEF SchedulerTypeOK
  <2>7. \A x \in PCBs : IsZombie(x)' <=> x # z /\ IsZombie(x)
    BY <2>6, PCBAssumption DEF IsZombie, PlaceInv
  <2>8. PlaceInv'
    <3>1. \A j, k \in Indices :
            ZombieProcesses'[j] = ZombieProcesses'[k] /\ ZombieProcesses'[j] # NULL
              => j = k
      BY <2>6 DEF PlaceInv
    <3> HIDE DEF z
    <3> QED
      BY <2>2, <2>4, <2>5, <2>7, <3>1 DEF PlaceInv
  <2>9. \A x \in PCBs : Live(x)' <=> Live(x)
    BY <2>4, <2>5 DEF Live, Allocated
  <2>10. \A x \in PCBs : Live(x) => x # z
    BY <2>4 DEF Live
  <2> QED
    BY <2>2, <2>5, <2>8, <2>9, <2>10, ProcessesKept
<1>9. CASE Halted
  BY <1>0, <1>9 DEF Halted, Running
<1> QED
  BY <1>1, <1>2, <1>3, <1>4, <1>5, <1>6, <1>7, <1>8, <1>9 DEF Next

LEMMA Invariance == Spec => []IInv
  BY InitIInv, NextIInv, PTL DEF Spec

-----------------------------------------------------------------------------
(***************************************************************************)
(* Every variable stays in its type.                                       *)
(***************************************************************************)
THEOREM TypeCorrect == Spec => []TypeOK
<1>1. IInv => TypeOK
  BY DEF IInv, TypeInv
<1> QED
  BY <1>1, Invariance, PTL

(***************************************************************************)
(* The ready queue is sound: fetchProcess never returns NULL.              *)
(***************************************************************************)
THEOREM ReadyQueueIsSound == Spec => []ReadyQueueSound
<1>1. IInv => ReadyQueueSound
  BY DEF IInv, TypeInv, ReadyQueueShape, QueueOf, PlaceInv, Distinct, ReadyQueueSound
<1> QED
  BY <1>1, Invariance, PTL

(***************************************************************************)
(* No process is lost, queued twice, reaped while it runs or left in a     *)
(* queue after its PCB was freed.                                          *)
(***************************************************************************)
THEOREM OnePlace == Spec => []EachProcessInOnePlace
<1>1. IInv => EachProcessInOnePlace
  <2> SUFFICES ASSUME IInv, Running PROVE EachProcessInOnePlace
    BY DEF EachProcessInOnePlace
  <2>1. PlaceInv /\ QueueOf(PCBs, ready) /\ ZombieProcesses \in [Indices -> PCBs \cup {NULL}]
    BY DEF IInv, TypeInv, ReadyQueueShape, TypeOK, SchedulerTypeOK
  <2>2. \A p \in PCBs : /\ p \in Queued(ready) <=> Holds(ready, p)
                        /\ p \in Zombies <=> IsZombie(p)
    BY <2>1, PCBAssumption, QueuedHolds DEF Zombies, IsZombie
  <2>3. creating \in PCBs \cup {NULL} /\ Current \in PCBs \cup {NULL}
    BY DEF IInv, TypeInv, TypeOK, SchedulerTypeOK
  <2>4. \A p \in PCBs : Status[p] = "ZOMBIE" => IsZombie(p)
    BY <2>1 DEF PlaceInv
  <2> QED
    BY <2>1, <2>2, <2>4 DEF EachProcessInOnePlace, PlaceInv, Allocated
<1> QED
  BY <1>1, Invariance, PTL

(***************************************************************************)
(* The bitmap holds the PIDs of the living processes, each once.           *)
(***************************************************************************)
THEOREM PIDsAreExact == Spec => []PIDsExact
<1>1. IInv => PIDsExact
  BY DEF IInv, PIDInv, PIDsExact
<1> QED
  BY <1>1, Invariance, PTL

(***************************************************************************)
(* No kernel frame is lost, and none belongs to two processes or is free   *)
(* while a living process owns it.                                         *)
(***************************************************************************)
THEOREM FramesAreExact == Spec => []FramesExact
<1>1. IInv => FramesExact
  <2> SUFFICES ASSUME IInv, Running PROVE FramesExact
    BY DEF FramesExact
  <2>1. FrameInv /\ freePages \in SUBSET Pages
    BY DEF IInv, TypeInv, TypeOK
  <2>2. freePages = Pages \ UNION {Frames(p) : p \in {q \in PCBs : Live(q)}}
    BY <2>1 DEF FrameInv, Frames
  <2> QED
    BY <2>1, <2>2 DEF FrameInv, FramesExact, Frames
<1> QED
  BY <1>1, Invariance, PTL
-----------------------------------------------------------------------------
(***************************************************************************)
(* The processor's registers.                                              *)
(***************************************************************************)
CpuInv ==
  Running /\ Current # NULL =>
    cr3 = RootPPN[Current] /\ esp0 = KernelStack[Current]

\* Schedule() loads the registers of the process it switches to.
LEMMA ScheduleLoads ==
  ASSUME NEW q, NEW st, CpuInv, Running, Schedule(q, st), panic' = "none",
         Current # NULL => RootPPN'[Current] = RootPPN[Current]
  PROVE  CpuInv'
<1>1. CASE Current = NULL /\ IsEmpty(q)
  BY <1>1 DEF Schedule, Dispatch, Panic, CpuInv
<1>2. ASSUME NEW q2, NEW st2, Dispatch(q2, st2) PROVE CpuInv'
  BY <1>2 DEF Dispatch, Panic, CpuInv, SwitchedRoot
<1>3. CASE ~(Current = NULL /\ IsEmpty(q))
  <2>1. \E q2, st2 : Dispatch(q2, st2)
    BY <1>3 DEF Schedule, RequeueThenDispatch, BuryThenDispatch, Panic
  <2> QED
    BY <1>2, <2>1
<1> QED
  BY <1>1, <1>3

LEMMA NextCpuInv == IInv /\ CpuInv /\ [Next]_vars => CpuInv'
<1> SUFFICES ASSUME IInv, CpuInv, [Next]_vars, Running' PROVE CpuInv'
  BY DEF CpuInv
<1>0. TypeOK /\ SchedulerTypeOK /\ panic' = "none"
  BY DEF IInv, TypeInv, TypeOK, Running
<1>1. ASSUME NEW p \in PCBs, BeginCreateUserProcess(p) PROVE CpuInv'
  BY <1>1 DEF BeginCreateUserProcess, CpuInv
<1>2. CASE EndCreateUserProcess
  BY <1>2 DEF EndCreateUserProcess, CpuInv
<1>3. CASE Tick \/ Yield
  <2>1. Schedule(ready, Status) /\ UNCHANGED RootPPN /\ Running
    BY <1>3 DEF Tick, Yield, InUserMode
  <2> QED
    BY <1>0, <2>1, ScheduleLoads
<1>4. ASSUME NEW child \in PCBs, ForkProcess(child) PROVE CpuInv'
  <2> DEFINE st == [Status EXCEPT ![child] = Status[Current]]
  <2>1. /\ Running /\ Current # NULL /\ Status[child] = "FREE"
        /\ NewPCB(child, ID[Current])
        /\ Schedule(Push(ready, child), st)
    BY <1>0, <1>4 DEF ForkProcess, InUserMode, Panic
  <2>2. Current \in PCBs /\ Current # child
    BY <1>0, <2>1 DEF IInv, PlaceInv, SchedulerTypeOK
  <2>3. RootPPN'[Current] = RootPPN[Current]
    BY <1>0, <2>1, <2>2 DEF NewPCB, SchedulerTypeOK
  <2> HIDE DEF st
  <2> QED
    BY <1>0, <2>1, <2>3, ScheduleLoads
<1>5. CASE ForkOutOfMemory
  BY <1>0, <1>5 DEF ForkOutOfMemory, Panic
<1>6. CASE ForkReturn \/ UNCHANGED vars
  <2>1. UNCHANGED schedVars
    BY <1>6 DEF ForkReturn, vars
  <2> QED
    BY <2>1 DEF schedVars, CpuInv, Running
<1>7. CASE ExitProcess
  <2>1. /\ Schedule(ready, [Status EXCEPT ![Current] = "ZOMBIE"])
        /\ UNCHANGED RootPPN /\ Running
    BY <1>7 DEF ExitProcess, InUserMode
  <2> QED
    BY <1>0, <2>1, ScheduleLoads
<1>8. ASSUME NEW pid, WaitProcess(pid) PROVE CpuInv'
  <2>1. PICK i \in Indices :
          /\ IsFirstZombie(i, pid)
          /\ KernelStack' = [KernelStack EXCEPT ![ZombieProcesses[i]] = 0]
          /\ RootPPN' = [RootPPN EXCEPT ![ZombieProcesses[i]] = 0]
    BY <1>8 DEF WaitProcess
  <2>2. Running /\ Current # NULL /\ UNCHANGED <<Current, cr3, esp0>>
    BY <1>8 DEF WaitProcess, InUserMode
  <2>3. Current \in PCBs /\ ZombieProcesses[i] \in PCBs
    BY <1>0, <2>1, <2>2 DEF SchedulerTypeOK, IsFirstZombie, IsChild
  <2>4. Status[Current] = "RUNNING" /\ Status[ZombieProcesses[i]] = "ZOMBIE"
    BY <2>2, <2>3 DEF IInv, PlaceInv, IsZombie
  <2> QED
    BY <1>0, <2>1, <2>2, <2>3, <2>4 DEF CpuInv, SchedulerTypeOK
<1>9. CASE Halted
  BY <1>0, <1>9 DEF Halted, vars, schedVars, Running
<1> QED
  BY <1>1, <1>2, <1>3, <1>4, <1>5, <1>6, <1>7, <1>8, <1>9 DEF Next

(***************************************************************************)
(* The processor never runs on a stack or a page table that was freed.     *)
(***************************************************************************)
THEOREM RunsOnOwnFramesAlways == Spec => []RunsOnOwnFrames
<1>1. Init => CpuInv
  BY DEF Init, CpuInv
<1>2. IInv /\ CpuInv => RunsOnOwnFrames
  <2> SUFFICES ASSUME IInv, CpuInv, Running, Current # NULL PROVE RunsOnOwnFrames
    BY DEF RunsOnOwnFrames
  <2>1. Current \in PCBs /\ Live(Current)
    BY DEF IInv, TypeInv, TypeOK, SchedulerTypeOK, PlaceInv, Live, Allocated
  <2> QED
    BY <2>1 DEF IInv, FrameInv, CpuInv, RunsOnOwnFrames
<1> QED
  BY <1>1, <1>2, Invariance, NextCpuInv, PTL DEF Spec

-----------------------------------------------------------------------------
(***************************************************************************)
(* Pending forks.  A parent cannot lose the child it just made: only a     *)
(* process with the PID in ParentID can reap it, no other living process   *)
(* has that PID, and the parent has not run since.                         *)
(***************************************************************************)
ForkInv ==
  \A p \in PCBs : forked[p] # NULL =>
    Live(p) /\ Allocated(forked[p]) /\ ParentID[forked[p]] = ID[p]

LEMMA NextForkInv ==
  ASSUME IInv, Running, Running', ForkInv, [Next]_vars
  PROVE  ForkInv'
<1>0. /\ TypeOK /\ SchedulerTypeOK /\ panic' = "none"
      /\ PlaceInv /\ PIDInv
      /\ Status \in [PCBs -> States] /\ ID \in [PCBs -> Indices]
      /\ ParentID \in [PCBs -> PIDs]
      /\ forked \in [PCBs -> PCBs \cup {NULL}]
  BY DEF IInv, TypeInv, TypeOK, SchedulerTypeOK, Running
\* What can make a pending fork lose its child.
<1>1. ASSUME /\ \A p \in PCBs : forked'[p] # NULL =>
                   /\ forked[p] # NULL /\ forked'[p] = forked[p]
             /\ \A p \in PCBs : forked[p] # NULL =>
                   /\ Live(p)' /\ ID'[p] = ID[p]
                   /\ Allocated(forked[p])'
                   /\ ParentID'[forked[p]] = ParentID[forked[p]]
      PROVE  ForkInv'
  BY <1>1 DEF ForkInv
<1>2. ASSUME NEW p \in PCBs, BeginCreateUserProcess(p) PROVE ForkInv'
  <2>1. /\ Status[p] = "FREE" /\ NewPCB(p, 0)
        /\ Status' = [Status EXCEPT ![p] = "RUNNABLE"]
        /\ forked' = forked
    BY <1>2 DEF BeginCreateUserProcess
  <2>2. /\ ID' \in [PCBs -> Indices]
        /\ \A x \in PCBs : x # p => ID'[x] = ID[x] /\ ParentID'[x] = ParentID[x]
    BY <1>0, <2>1 DEF NewPCB, PIDs, Indices
  <2>3. \A x \in PCBs : Allocated(x) => x # p /\ Status'[x] = Status[x]
    BY <1>0, <2>1 DEF Allocated
  <2> QED
    BY <1>0, <1>1, <2>1, <2>2, <2>3 DEF ForkInv, Live, Allocated
<1>3. CASE EndCreateUserProcess
  BY <1>0, <1>1, <1>3 DEF EndCreateUserProcess, ForkInv, Live, Allocated
<1>4. CASE Tick \/ Yield
  <2>1. SameLife(Status) /\ UNCHANGED <<ID, ParentID, forked>>
    BY <1>0, <1>4, YieldPlaces DEF Tick, Yield
  <2> QED
    BY <1>0, <1>1, <2>1 DEF SameLife, ForkInv, Live, Allocated
<1>5. ASSUME NEW child \in PCBs, ForkProcess(child) PROVE ForkInv'
  <2>1. /\ Current \in PCBs /\ Live(Current)
        /\ Status[child] = "FREE" /\ NewPCB(child, ID[Current])
        /\ forked' = [forked EXCEPT ![Current] = child]
    BY <1>5, CurrentIsAlive DEF ForkProcess, InUserMode
  <2>2. \A x \in PCBs : /\ Live(x)' <=> Live(x) \/ x = child
                        /\ Allocated(x)' <=> Allocated(x) \/ x = child
    BY <1>0, <1>5, ForkPlaces
  <2>3. /\ ParentID'[child] = ID[Current]
        /\ \A x \in PCBs : x # child => ID'[x] = ID[x] /\ ParentID'[x] = ParentID[x]
    BY <1>0, <2>1 DEF NewPCB
  <2>4. /\ \A x \in PCBs : Allocated(x) => x # child
        /\ \A x \in PCBs : Live(x) => Allocated(x)
    BY <2>1 DEF Allocated, Live
  <2>a. \A x \in PCBs : Status'[x] # "FREE" <=> Allocated(x) \/ x = child
    BY <2>2 DEF Allocated
  <2>5. ASSUME NEW p \in PCBs, forked'[p] # NULL
        PROVE  /\ Live(p)' /\ Status'[forked'[p]] # "FREE"
               /\ ParentID'[forked'[p]] = ID'[p]
    <3>1. CASE p = Current
      <4>1. forked'[p] = child /\ ID'[p] = ID[p] /\ Live(p)'
        BY <1>0, <2>1, <2>2, <2>3, <2>4, <3>1
      <4> QED
        BY <2>a, <2>3, <3>1, <4>1
    <3>2. CASE p # Current
      <4>1. forked'[p] = forked[p] /\ forked[p] \in PCBs
        BY <1>0, <2>1, <2>5, <3>2
      <4>2. Live(p) /\ Allocated(forked[p]) /\ ParentID[forked[p]] = ID[p]
        BY <2>5, <4>1 DEF ForkInv
      <4> QED
        BY <2>a, <2>2, <2>3, <2>4, <4>1, <4>2
    <3> QED
      BY <3>1, <3>2
  <2> QED
    BY <2>5 DEF ForkInv, Allocated
<1>6. CASE ForkOutOfMemory
  BY <1>0, <1>6 DEF ForkOutOfMemory, Panic
<1>7. CASE ForkReturn
  <2>1. /\ Current \in PCBs
        /\ forked' = [forked EXCEPT ![Current] = NULL]
        /\ UNCHANGED <<Status, ID, ParentID>>
    BY <1>7, CurrentIsAlive DEF ForkReturn, schedVars
  <2>2. \A p \in PCBs : forked'[p] # NULL => forked'[p] = forked[p]
    BY <1>0, <2>1
  <2> QED
    BY <1>1, <2>1, <2>2 DEF ForkInv, Live, Allocated
<1>8. CASE ExitProcess
  <2>1. /\ Current \in PCBs /\ Live(Current) /\ forked[Current] = NULL
        /\ UNCHANGED <<ID, forked>>
        /\ RedirectParentOfChildren
    BY <1>8, CurrentIsAlive DEF ExitProcess, InUserMode
  <2>2. \A x \in PCBs : /\ Live(x)' <=> Live(x) /\ x # Current
                        /\ Allocated(x)' <=> Allocated(x)
    BY <1>0, <1>8, ExitPlaces
  <2>3. \A c \in PCBs : ParentID[c] # ID[Current] => ParentID'[c] = ParentID[c]
    BY <2>1 DEF RedirectParentOfChildren, Redirected
  <2>4. \A p \in PCBs : forked[p] # NULL => p # Current /\ ID[p] # ID[Current]
    BY <1>0, <2>1 DEF ForkInv, PIDInv
  <2> QED
    BY <1>0, <1>1, <2>1, <2>2, <2>3, <2>4 DEF ForkInv
<1>9. ASSUME NEW pid, WaitProcess(pid) PROVE ForkInv'
  <2>1. PICK i \in Indices :
          /\ IsFirstZombie(i, pid)
          /\ Status' = [Status EXCEPT ![ZombieProcesses[i]] = "FREE"]
          /\ ID' = [ID EXCEPT ![ZombieProcesses[i]] = 0]
          /\ ParentID' = [ParentID EXCEPT ![ZombieProcesses[i]] = 0]
    BY <1>9 DEF WaitProcess
  <2> DEFINE z == ZombieProcesses[i]
  <2>2. /\ Current \in PCBs /\ Live(Current) /\ forked[Current] = NULL
        /\ forked' = forked
    BY <1>9, CurrentIsAlive DEF WaitProcess, InUserMode
  <2>3. z \in PCBs /\ ParentID[z] = ID[Current] /\ Status[z] = "ZOMBIE"
    BY <1>0, <2>1 DEF IsFirstZombie, IsChild, SchedulerTypeOK, PlaceInv, IsZombie
  <2>4. \A x \in PCBs : x # z => /\ Status'[x] = Status[x] /\ ID'[x] = ID[x]
                                 /\ ParentID'[x] = ParentID[x]
    BY <1>0, <2>1, <2>3
  <2>5. \A p \in PCBs : forked[p] # NULL => p # z /\ forked[p] # z
    <3> SUFFICES ASSUME NEW p \in PCBs, forked[p] # NULL
                 PROVE  p # z /\ forked[p] # z
      OBVIOUS
    <3>1. Live(p) /\ ParentID[forked[p]] = ID[p] /\ p # Current
      BY <2>2 DEF ForkInv
    <3>2. ID[p] # ID[Current]
      BY <2>2, <3>1, <1>0 DEF PIDInv
    <3> QED
      BY <2>3, <3>1, <3>2 DEF Live
  <2> HIDE DEF z
  <2> QED
    BY <1>0, <1>1, <2>2, <2>4, <2>5 DEF ForkInv, Live, Allocated
<1>10. CASE Halted \/ UNCHANGED vars
  BY <1>1, <1>10 DEF Halted, vars, schedVars, ForkInv, Live, Allocated
<1> QED
  BY <1>2, <1>3, <1>4, <1>5, <1>6, <1>7, <1>8, <1>9, <1>10 DEF Next

(***************************************************************************)
(* A parent finds its own child when ForkProcess() resumes.                *)
(***************************************************************************)
THEOREM ForkFindsItsChild == Spec => []ForkReturnsItsChild
<1> DEFINE Pending == Running => ForkInv
<1>1. Init => Pending
  BY DEF Init, ForkInv
<1>2. IInv /\ Pending /\ [Next]_vars => Pending'
  <2>1. Running' /\ [Next]_vars => Running
    BY DEF Next, Halted, BeginCreateUserProcess, EndCreateUserProcess, Tick,
       Yield, ForkProcess, ForkOutOfMemory, ForkReturn, ExitProcess,
       WaitProcess, InUserMode, vars, schedVars, Running
  <2> QED
    BY <2>1, NextForkInv
<1>3. Pending => ForkReturnsItsChild
  BY DEF ForkInv, ForkReturnsItsChild
<1> QED
  BY <1>1, <1>2, <1>3, Invariance, PTL DEF Spec
-----------------------------------------------------------------------------
(***************************************************************************)
(* Capacity.  Processes that are alive have numbers of their own, from 1   *)
(* to MAX_PROCESS_COUNT - 1, so they fit into the ready queue.             *)
(***************************************************************************)
NoOverflow == panic \notin {"Queue is full", "The zombie process queue is full"}

LEMMA LivingFitTheQueue ==
  ASSUME NEW q, QueueOf(PCBs, q), Distinct(q), NEW p \in PCBs, ~Holds(q, p),
         NEW S \in SUBSET PCBs, p \in S, \A x \in PCBs : Holds(q, x) => x \in S,
         NEW f \in [S -> Indices \ {0}], \A x, y \in S : f[x] = f[y] => x = y
  PROVE  ~IsFull(q)
<1>1. NULL \notin S
  BY PCBAssumption
<1>2. QueueOf(S, q)
  <2>1. /\ q \in [Slots : [Indices -> PCBs \cup {NULL}], Front : Indices, Rear : Indices]
        /\ \A i \in Indices : q.Slots[i] # NULL <=> InRegion(q, i)
    BY DEF QueueOf
  <2>2. \A i \in Indices : q.Slots[i] \in S \cup {NULL}
    BY <2>1 DEF Holds
  <2>3. q \in [Slots : [Indices -> S \cup {NULL}], Front : Indices, Rear : Indices]
    BY <2>1, <2>2
  <2> QED
    BY <2>1, <2>3 DEF QueueOf
<1>3. IsFiniteSet(S) /\ Cardinality(S) < MAX_PROCESS_COUNT
  BY NumberedElementsFit
<1> QED
  BY <1>1, <1>2, <1>3, RoomForOneMore

\* The slots of the table of zombies do not run out either: they would hold
\* all blocks the heap can hand out, and the process that exits has one too.
LEMMA ZombiesFit ==
  ASSUME TypeOK, PlaceInv, Current \in PCBs, ~IsZombie(Current)
  PROVE  ~ \A i \in Indices : ZombieProcesses[i] # NULL
<1> SUFFICES ASSUME \A i \in Indices : ZombieProcesses[i] # NULL PROVE FALSE
  OBVIOUS
<1> DEFINE Others == PCBs \ {Current}
<1>1. ZombieProcesses \in [Indices -> Others]
  BY DEF TypeOK, SchedulerTypeOK, IsZombie
<1>2. ZombieProcesses \in Injection(Indices, Others)
  BY <1>1 DEF Injection, IsInjective, PlaceInv
<1>3. /\ IsFiniteSet(Others)
      /\ Cardinality(Others) = Cardinality(PCBs) - 1
  BY CapacityAssumption, FS_RemoveElement
<1>4. Cardinality(Indices) = MAX_PROCESS_COUNT
  BY SizeAssumption, FS_Interval DEF Indices
<1>5. Cardinality(Indices) <= Cardinality(Others)
  BY <1>2, <1>3, FS_Injection
<1>6. Cardinality(PCBs) \in Nat
  BY CapacityAssumption, FS_CardinalityType
<1> QED
  BY <1>3, <1>4, <1>5, <1>6, CapacityAssumption, SizeAssumption

\* Schedule() overflows nothing when the living processes, S, have numbers.
LEMMA ScheduleFits ==
  ASSUME TypeOK, PlaceInv, NoOverflow, NEW q, NEW st, Schedule(q, st),
         QueueOf(PCBs, q), Distinct(q),
         Current # NULL => ~Holds(q, Current) /\ ~IsZombie(Current),
         NEW S \in SUBSET PCBs, Current # NULL => Current \in S,
         \A x \in PCBs : Holds(q, x) => x \in S,
         NEW f \in [S -> Indices \ {0}], \A x, y \in S : f[x] = f[y] => x = y
  PROVE  NoOverflow'
<1>1. Current # NULL => ~IsFull(q)
  <2>1. Current # NULL => Current \in PCBs
    BY DEF TypeOK, SchedulerTypeOK
  <2> QED
    BY <2>1, LivingFitTheQueue
<1>2. Current # NULL => ~ \A i \in Indices : ZombieProcesses[i] # NULL
  BY ZombiesFit DEF TypeOK, SchedulerTypeOK
<1>3. ASSUME NEW q2, NEW st2, Dispatch(q2, st2) PROVE NoOverflow'
  BY <1>3 DEF Dispatch, Panic, NoOverflow
<1>4. CASE Current = NULL
  BY <1>3, <1>4 DEF Schedule, NoOverflow
<1>5. CASE Current # NULL /\ Requeues(st)
  BY <1>1, <1>3, <1>5 DEF Schedule, RequeueThenDispatch, Requeues, Buries
<1>6. CASE Current # NULL /\ Buries(st)
  BY <1>2, <1>3, <1>6 DEF Schedule, BuryThenDispatch, Requeues, Buries
<1>7. CASE Current # NULL /\ ~Requeues(st) /\ ~Buries(st)
  BY <1>3, <1>7 DEF Schedule
<1> QED
  BY <1>4, <1>5, <1>6, <1>7

LEMMA NextNoOverflow == IInv /\ NoOverflow /\ [Next]_vars => NoOverflow'
<1> SUFFICES ASSUME IInv, NoOverflow, [Next]_vars PROVE NoOverflow'
  OBVIOUS
<1> DEFINE S == {x \in PCBs : Live(x)}
           f == [x \in S |-> ID[x]]
<1>0. TypeOK /\ QueueOf(PCBs, ready) /\ Status \in [PCBs -> States]
      /\ ID \in [PCBs -> Indices]
  BY DEF IInv, TypeInv, ReadyQueueShape, TypeOK, SchedulerTypeOK
<1>1. ASSUME Running
      PROVE  /\ PlaceInv /\ PIDInv /\ CountInv /\ Distinct(ready)
             /\ \A x \in PCBs : Holds(ready, x) => x \in S
             /\ f \in [S -> Indices \ {0}]
             /\ \A x, y \in S : f[x] = f[y] => x = y
  BY <1>0, <1>1 DEF IInv, PlaceInv, PIDInv, Live, Allocated
<1>2. CASE EndCreateUserProcess
  <2>1. Running /\ creating \in PCBs
    BY <1>0, <1>2 DEF EndCreateUserProcess, TypeOK
  <2>2. ~Holds(ready, creating) /\ creating \in S
    BY <1>1, <2>1 DEF PlaceInv, Live, Allocated
  <2>3. ~IsFull(ready)
    <3> HIDE DEF S, f
    <3> QED
      BY <1>0, <1>1, <2>1, <2>2, LivingFitTheQueue DEF S
  <2> QED
    BY <1>2, <2>3 DEF EndCreateUserProcess, NoOverflow
<1>3. CASE Tick \/ Yield
  <2>1. Running /\ Schedule(ready, Status)
    BY <1>3 DEF Tick, Yield, InUserMode
  <2>2. Current # NULL => ~Holds(ready, Current) /\ ~IsZombie(Current) /\ Current \in S
    BY <2>1, CurrentIsAlive
  <2>3. S \in SUBSET PCBs
    OBVIOUS
  <2> HIDE DEF S, f
  <2> QED
    BY <1>0, <1>1, <2>1, <2>2, <2>3, ScheduleFits
<1>4. ASSUME NEW child \in PCBs, ForkProcess(child) PROVE NoOverflow'
  <2> DEFINE S2 == S \cup {child}
             f2 == [x \in S2 |-> ID'[x]]
             q == Push(ready, child)
             st == [Status EXCEPT ![child] = Status[Current]]
  <2>1. /\ Running /\ Current # NULL /\ Status[child] = "FREE"
        /\ NewPCB(child, ID[Current])
        /\ IF IsFull(ready) THEN panic' = "Queue is full" ELSE Schedule(q, st)
    BY <1>4 DEF ForkProcess, InUserMode, Panic
  <2>2. PlaceInv /\ PIDInv /\ CountInv /\ child \notin S
    BY <1>1, <2>1 DEF Live, Allocated
  <2>3. ~Holds(ready, child) /\ child # Current
    BY <2>1, <2>2, CurrentIsAlive DEF PlaceInv
  <2>4. PICK pid \in PIDs \ Bitmap : ID' = [ID EXCEPT ![child] = pid]
    BY <1>0, <2>1, <2>2, AllocationSucceeds DEF NewPCB
  <2>5. /\ pid \in Indices \ {0}
        /\ \A x \in S : ID'[x] = ID[x] /\ ID[x] # pid /\ ID[x] \in Indices \ {0}
        /\ ID'[child] = pid
    BY <1>0, <2>2, <2>4 DEF PIDInv, PIDs, Indices
  <2>6. /\ f2 \in [S2 -> Indices \ {0}]
        /\ \A x, y \in S2 : f2[x] = f2[y] => x = y
    BY <2>2, <2>5 DEF PIDInv
  <2>7. S2 \in SUBSET PCBs /\ child \in S2 /\ \A x \in S : x \in S2
    OBVIOUS
  <2> HIDE DEF S2, f2
  <2>8. ~IsFull(ready)
    BY <1>0, <1>1, <2>1, <2>3, <2>6, <2>7, LivingFitTheQueue
  <2>9. /\ QueueOf(PCBs, q) /\ Distinct(q)
        /\ \A x \in PCBs : Holds(q, x) <=> x = child \/ Holds(ready, x)
    BY <1>0, <1>1, <2>1, <2>3, <2>8, PCBAssumption, PushQueueOf, PushContents
  <2>10. ~Holds(q, Current) /\ ~IsZombie(Current) /\ Current \in S2
    BY <2>1, <2>3, <2>7, <2>9, CurrentIsAlive
  <2>11. \A x \in PCBs : Holds(q, x) => x \in S2
    BY <1>1, <2>1, <2>7, <2>9
  <2>12. Schedule(q, st)
    BY <2>1, <2>8
  <2> HIDE DEF q, st
  <2> QED
    BY <1>0, <2>2, <2>6, <2>7, <2>9, <2>10, <2>11, <2>12, ScheduleFits
<1>5. CASE ForkOutOfMemory
  BY <1>5 DEF ForkOutOfMemory, Panic, NoOverflow
<1>6. CASE ExitProcess
  <2> DEFINE st == [Status EXCEPT ![Current] = "ZOMBIE"]
  <2>1. Running /\ Current # NULL /\ Schedule(ready, st)
    BY <1>6 DEF ExitProcess, InUserMode
  <2>2. ~Holds(ready, Current) /\ ~IsZombie(Current) /\ Current \in S
    BY <2>1, CurrentIsAlive
  <2>3. S \in SUBSET PCBs
    OBVIOUS
  <2> HIDE DEF S, f, st
  <2> QED
    BY <1>0, <1>1, <2>1, <2>2, <2>3, ScheduleFits
<1>7. CASE UNCHANGED panic
  BY <1>7 DEF NoOverflow
<1> QED
  BY <1>2, <1>3, <1>4, <1>5, <1>6, <1>7
     DEF Next, BeginCreateUserProcess, ForkReturn, WaitProcess, Halted, vars, schedVars

(***************************************************************************)
(* The ready queue and the table of zombies never overflow, and the bitmap *)
(* never runs out while a process could still get its two frames.          *)
(***************************************************************************)
THEOREM CapacityHolds == Spec => []CapacityNeverExceeded
<1>1. Init => NoOverflow
  BY DEF Init, NoOverflow
<1>2. IInv /\ NoOverflow => CapacityNeverExceeded
  <2> SUFFICES ASSUME IInv, NoOverflow, Running, PIDs \subseteq Bitmap,
                      Cardinality(freePages) >= 2
               PROVE  FALSE
    BY DEF CapacityNeverExceeded, NoOverflow
  <2>1. TypeOK /\ CountInv
    BY DEF IInv, TypeInv
  <2>2. Bitmap = PIDs
    BY <2>1 DEF TypeOK
  <2>3. Cardinality(Bitmap) = MAX_PROCESS_COUNT
    BY <2>1, <2>2, AllFinite
  <2> QED
    BY <2>1, <2>3, AllFinite, CapacityAssumption, KernelPagesAssumption,
       SizeAssumption DEF CountInv
<1> QED
  BY <1>1, <1>2, NextNoOverflow, Invariance, PTL DEF Spec

-----------------------------------------------------------------------------
(***************************************************************************)
(* Boot.  Once a process is in the queue, the clock may take the processor *)
(* away from the boot code for good: by then it must have nothing left to  *)
(* create.                                                                 *)
(***************************************************************************)
BootInv ==
  /\ boot > 0 => creating = NULL /\ Current = NULL /\ IsEmpty(ready)
  /\ Current # NULL => creating = NULL
  /\ boot \in {0, 1}
  /\ ~IsEmpty(ready) => creating = NULL

LEMMA NextBootInv == IInv /\ BootInv /\ [Next]_vars => BootInv'
<1> SUFFICES ASSUME IInv, BootInv, [Next]_vars PROVE BootInv'
  OBVIOUS
<1>1. ASSUME NEW p \in PCBs, BeginCreateUserProcess(p) PROVE BootInv'
  BY <1>1, PCBAssumption DEF BeginCreateUserProcess, BootInv
<1>2. CASE EndCreateUserProcess
  BY <1>2 DEF EndCreateUserProcess, BootInv
<1>3. CASE Tick
  <2>1. CASE Current = NULL /\ IsEmpty(ready)
    BY <1>3, <2>1 DEF Tick, Schedule, BootInv
  <2>2. CASE Current # NULL \/ ~IsEmpty(ready)
    BY <1>3, <2>2 DEF Tick, BootInv
  <2> QED
    BY <2>1, <2>2
<1>4. CASE UNCHANGED vars
  BY <1>4 DEF vars, schedVars, BootInv
<1>5. CASE Current # NULL /\ UNCHANGED <<boot, creating>>
  BY <1>5 DEF BootInv
<1>6. CASE Halted
  BY <1>4, <1>6 DEF Halted
<1> QED
  BY <1>1, <1>2, <1>3, <1>4, <1>5, <1>6
     DEF Next, Yield, ForkProcess, ForkOutOfMemory, ForkReturn, ExitProcess,
         WaitProcess, InUserMode

(***************************************************************************)
(* With at most one process to create at boot, as in shell.c, the boot     *)
(* code is done before it loses the processor.                             *)
(***************************************************************************)
THEOREM BootIsDone == ASSUME BootProcesses \in {0, 1} PROVE Spec => []BootCompletes
<1>1. Init => BootInv
  <2>1. Init => IsEmpty(ready)
    BY DEF Init, IsEmpty, EmptyQueueAt
  <2> QED
    BY <2>1 DEF Init, BootInv
<1>2. BootInv => BootCompletes
  BY DEF BootInv, BootCompletes
<1> QED
  BY <1>1, <1>2, NextBootInv, Invariance, PTL DEF Spec
-----------------------------------------------------------------------------
(***************************************************************************)
(* The round-robin discipline.  The ready queue, read from Front round the *)
(* end of the array to Rear, is a sequence: AddProcess appends to it,      *)
(* fetchProcess takes its head.                                            *)
(***************************************************************************)
Place(q, k) == (q.Front + k - 1) % MAX_PROCESS_COUNT

LEMMA RoundTheEnd ==
  ASSUME NEW x \in Nat, x < 2 * MAX_PROCESS_COUNT
  PROVE  x % MAX_PROCESS_COUNT = IF x < MAX_PROCESS_COUNT THEN x ELSE x - MAX_PROCESS_COUNT
<1>1. MAX_PROCESS_COUNT \in Nat /\ MAX_PROCESS_COUNT > 1
  BY SizeAssumption
<1>2. CASE x < MAX_PROCESS_COUNT
  BY <1>1, <1>2
<1>3. CASE ~(x < MAX_PROCESS_COUNT)
  <2> DEFINE y == x - MAX_PROCESS_COUNT
  <2>1. y \in Nat /\ y < MAX_PROCESS_COUNT /\ x = MAX_PROCESS_COUNT + y
    BY <1>1, <1>3
  <2> HIDE DEF y
  <2>2. (MAX_PROCESS_COUNT + y) % MAX_PROCESS_COUNT = y
    BY <1>1, <2>1
  <2> QED
    BY <1>3, <2>1, <2>2 DEF y
<1> QED
  BY <1>2, <1>3

LEMMA LengthIs ==
  ASSUME NEW q, q.Front \in Indices, q.Rear \in Indices
  PROVE  /\ QueueLength(q) = IF q.Front <= q.Rear THEN q.Rear - q.Front
                             ELSE q.Rear + MAX_PROCESS_COUNT - q.Front
         /\ QueueLength(q) \in Nat /\ QueueLength(q) < MAX_PROCESS_COUNT
         /\ QueueLength(q) = 0 <=> q.Front = q.Rear
<1> DEFINE x == q.Rear + MAX_PROCESS_COUNT - q.Front
<1>1. /\ MAX_PROCESS_COUNT \in Nat /\ q.Front \in Nat /\ q.Front < MAX_PROCESS_COUNT
      /\ q.Rear \in Nat /\ q.Rear < MAX_PROCESS_COUNT
  BY SizeAssumption DEF Indices
<1>2. x \in Nat /\ x < 2 * MAX_PROCESS_COUNT
  BY <1>1
<1>3. QueueLength(q) = IF x < MAX_PROCESS_COUNT THEN x ELSE x - MAX_PROCESS_COUNT
  BY <1>2, RoundTheEnd DEF QueueLength
<1> QED
  BY <1>1, <1>3

LEMMA PlaceIs ==
  ASSUME NEW q, q.Front \in Indices, q.Rear \in Indices, NEW k \in 1 .. QueueLength(q) + 1
  PROVE  /\ Place(q, k) = IF q.Front + k - 1 < MAX_PROCESS_COUNT THEN q.Front + k - 1
                          ELSE q.Front + k - 1 - MAX_PROCESS_COUNT
         /\ Place(q, k) \in Indices
         /\ k <= QueueLength(q) => InRegion(q, Place(q, k))
         /\ Place(q, k) = q.Rear <=> k = QueueLength(q) + 1
         /\ Place(q, k) = q.Front <=> k = 1
<1> DEFINE x == q.Front + k - 1
<1>1. /\ MAX_PROCESS_COUNT \in Nat /\ q.Front \in Nat /\ q.Front < MAX_PROCESS_COUNT
      /\ q.Rear \in Nat /\ q.Rear < MAX_PROCESS_COUNT
  BY SizeAssumption DEF Indices
<1>2. /\ QueueLength(q) \in Nat /\ QueueLength(q) < MAX_PROCESS_COUNT
      /\ QueueLength(q) = IF q.Front <= q.Rear THEN q.Rear - q.Front
                          ELSE q.Rear + MAX_PROCESS_COUNT - q.Front
  BY LengthIs
<1>3. x \in Nat /\ x < 2 * MAX_PROCESS_COUNT /\ k \in Nat /\ k >= 1 /\ k <= QueueLength(q) + 1
  BY <1>1, <1>2
<1>4. Place(q, k) = IF x < MAX_PROCESS_COUNT THEN x ELSE x - MAX_PROCESS_COUNT
  BY <1>3, RoundTheEnd DEF Place
<1>5. Place(q, k) \in Indices
  BY <1>1, <1>2, <1>3, <1>4 DEF Indices
<1> QED
  BY <1>1, <1>2, <1>3, <1>4, <1>5 DEF InRegion

\* The elements between Front and Rear as a sequence.
LEMMA SequenceIs ==
  ASSUME NEW S, NEW q, NULL \notin S, QueueOf(S, q)
  PROVE  /\ q.Front \in Indices /\ q.Rear \in Indices /\ QueueLength(q) \in Nat
         /\ QueueSequence(q) \in Seq(S) /\ Len(QueueSequence(q)) = QueueLength(q)
         /\ \A k \in 1 .. QueueLength(q) :
              /\ Place(q, k) \in Indices
              /\ QueueSequence(q)[k] = q.Slots[Place(q, k)]
              /\ Holds(q, QueueSequence(q)[k])
         /\ QueueSequence(q) = <<>> <=> IsEmpty(q)
<1> DEFINE L == QueueLength(q)
           s == QueueSequence(q)
<1>1. q.Front \in Indices /\ q.Rear \in Indices
  BY DEF QueueOf
<1>2. L \in Nat /\ (L = 0 <=> IsEmpty(q))
  BY <1>1, LengthIs DEF IsEmpty
<1>3. s = [k \in 1 .. L |-> q.Slots[Place(q, k)]]
  BY DEF QueueSequence, Place
<1>4. ASSUME NEW k \in 1 .. L PROVE Place(q, k) \in Indices /\ InRegion(q, Place(q, k))
  <2>1. k \in 1 .. L + 1 /\ k <= L
    BY <1>2
  <2> QED
    BY <1>1, <2>1, PlaceIs
<1> HIDE DEF L, s
<1>5. \A k \in 1 .. L : q.Slots[Place(q, k)] \in S /\ Holds(q, q.Slots[Place(q, k)])
  BY <1>4 DEF QueueOf, Holds
<1>6. s \in [1 .. L -> S]
  BY <1>3, <1>5
<1>7. s \in Seq(S) /\ Len(s) = L
  BY <1>2, <1>6
<1>8. s = <<>> <=> L = 0
  BY <1>7
<1>9. \A k \in 1 .. L : s[k] = q.Slots[Place(q, k)]
  BY <1>3
<1> QED
  BY <1>1, <1>2, <1>4, <1>5, <1>7, <1>8, <1>9 DEF L, s
LEMMA PushAppends ==
  ASSUME NEW S, NEW q, NEW p \in S, NULL \notin S, QueueOf(S, q), ~IsFull(q)
  PROVE  QueueSequence(Push(q, p)) = Append(QueueSequence(q), p)
<1> DEFINE r == Push(q, p)
           L == QueueLength(q)
           s == QueueSequence(q)
           t == QueueSequence(r)
           u == Append(s, p)
<1>1. /\ q.Front \in Indices /\ q.Rear \in Indices /\ L \in Nat
      /\ s \in Seq(S) /\ Len(s) = L
      /\ \A k \in 1 .. L : Place(q, k) \in Indices /\ s[k] = q.Slots[Place(q, k)]
  BY SequenceIs
<1>2. QueueOf(S, r)
  BY PushQueueOf
<1>3. /\ r.Front = q.Front /\ r.Rear = Succ(q.Rear) /\ r.Front \in Indices
      /\ r.Rear \in Indices
      /\ \A i \in Indices : r.Slots[i] = IF i = q.Rear THEN p ELSE q.Slots[i]
  BY <1>1, <1>2 DEF QueueOf, Push
<1>4. /\ t \in Seq(S) /\ Len(t) = QueueLength(r)
      /\ \A k \in 1 .. QueueLength(r) : t[k] = r.Slots[Place(r, k)]
  BY <1>2, SequenceIs
<1>5. QueueLength(r) = L + 1
  <2>1. /\ MAX_PROCESS_COUNT \in Nat /\ q.Front \in Nat /\ q.Front < MAX_PROCESS_COUNT
        /\ q.Rear \in Nat /\ q.Rear < MAX_PROCESS_COUNT
    BY <1>1, SizeAssumption DEF Indices
  <2>2. r.Rear = (IF q.Rear = MAX_PROCESS_COUNT - 1 THEN 0 ELSE q.Rear + 1)
        /\ r.Rear # q.Front
    BY <1>1, <1>3, SuccCases DEF IsFull
  <2>3. L = IF q.Front <= q.Rear THEN q.Rear - q.Front
            ELSE q.Rear + MAX_PROCESS_COUNT - q.Front
    BY <1>1, LengthIs
  <2>4. QueueLength(r) = IF q.Front <= r.Rear THEN r.Rear - q.Front
                         ELSE r.Rear + MAX_PROCESS_COUNT - q.Front
    BY <1>3, LengthIs
  <2> HIDE DEF r, L
  <2> QED
    BY <2>1, <2>2, <2>3, <2>4
<1>6. \A k \in 1 .. L + 1 : Place(r, k) = Place(q, k)
  BY <1>3 DEF Place
<1>7. /\ Place(q, L + 1) = q.Rear
      /\ \A k \in 1 .. L : Place(q, k) # q.Rear
  <2>1. \A k \in 1 .. L + 1 : Place(q, k) = q.Rear <=> k = L + 1
    BY <1>1, PlaceIs
  <2> HIDE DEF L
  <2> QED
    BY <1>1, <2>1
<1> HIDE DEF r, L, s, t
<1>8. u \in Seq(S) /\ Len(u) = L + 1 /\ u[L + 1] = p /\ \A k \in 1 .. L : u[k] = s[k]
  BY <1>1
<1>9. ASSUME NEW k \in 1 .. L + 1 PROVE t[k] = u[k]
  <2>1. t[k] = r.Slots[Place(q, k)]
    BY <1>4, <1>5, <1>6
  <2>2. CASE k = L + 1
    BY <1>1, <1>3, <1>7, <1>8, <2>1, <2>2
  <2>3. CASE k # L + 1
    <3>1. k \in 1 .. L
      BY <1>1, <2>3
    <3> QED
      BY <1>1, <1>3, <1>7, <1>8, <2>1, <3>1
  <2> QED
    BY <2>2, <2>3
<1> HIDE DEF u
<1>10. t = u
  BY <1>1, <1>4, <1>5, <1>8, <1>9
<1> QED
  BY <1>10 DEF r, s, t, u

LEMMA FetchTakesHead ==
  ASSUME NEW S, NEW q, NULL \notin S, QueueOf(S, q), ~IsEmpty(q)
  PROVE  /\ Head(QueueSequence(q)) = FrontOf(q)
         /\ Tail(QueueSequence(q)) = QueueSequence(Fetch(q))
<1> DEFINE r == Fetch(q)
           L == QueueLength(q)
           s == QueueSequence(q)
           t == QueueSequence(r)
           u == Tail(s)
<1>1. /\ q.Front \in Indices /\ q.Rear \in Indices /\ L \in Nat
      /\ s \in Seq(S) /\ Len(s) = L /\ s # <<>>
      /\ \A k \in 1 .. L : Place(q, k) \in Indices /\ s[k] = q.Slots[Place(q, k)]
  BY SequenceIs
<1>2. QueueOf(S, r)
  BY FetchQueueOf
<1>3. /\ r.Front = Succ(q.Front) /\ r.Rear = q.Rear /\ r.Front \in Indices
      /\ \A i \in Indices : r.Slots[i] = IF i = q.Front THEN NULL ELSE q.Slots[i]
  BY <1>1, <1>2 DEF QueueOf, Fetch
<1>4. /\ t \in Seq(S) /\ Len(t) = QueueLength(r)
      /\ \A k \in 1 .. QueueLength(r) : t[k] = r.Slots[Place(r, k)]
  BY <1>2, SequenceIs
<1>5. /\ MAX_PROCESS_COUNT \in Nat /\ q.Front \in Nat /\ q.Front < MAX_PROCESS_COUNT
      /\ q.Rear \in Nat /\ q.Rear < MAX_PROCESS_COUNT
      /\ r.Front = (IF q.Front = MAX_PROCESS_COUNT - 1 THEN 0 ELSE q.Front + 1)
      /\ q.Front # q.Rear
  BY <1>1, <1>3, SizeAssumption, SuccCases DEF Indices, IsEmpty
<1>6. L = IF q.Front <= q.Rear THEN q.Rear - q.Front
          ELSE q.Rear + MAX_PROCESS_COUNT - q.Front
  BY <1>1, LengthIs
<1>7. QueueLength(r) = IF r.Front <= q.Rear THEN q.Rear - r.Front
                       ELSE q.Rear + MAX_PROCESS_COUNT - r.Front
  BY <1>1, <1>3, LengthIs
<1>8. QueueLength(r) = L - 1 /\ L >= 1
  <2> HIDE DEF r, L
  <2> QED
    BY <1>5, <1>6, <1>7
<1>9. \A k \in 1 .. L + 1 :
        /\ Place(q, k) = IF q.Front + k - 1 < MAX_PROCESS_COUNT THEN q.Front + k - 1
                         ELSE q.Front + k - 1 - MAX_PROCESS_COUNT
        /\ Place(q, k) = q.Front <=> k = 1
  BY <1>1, PlaceIs
<1>10. \A k \in 1 .. QueueLength(r) + 1 :
         Place(r, k) = IF r.Front + k - 1 < MAX_PROCESS_COUNT THEN r.Front + k - 1
                       ELSE r.Front + k - 1 - MAX_PROCESS_COUNT
  BY <1>1, <1>3, PlaceIs
<1>11. FrontOf(q) = q.Slots[q.Front]
  BY DEF FrontOf
<1> HIDE DEF r, L, s, t
<1>12. Head(s) = FrontOf(q)
  <2>1. Head(s) = s[1] /\ 1 \in 1 .. L /\ 1 \in 1 .. L + 1
    BY <1>1, <1>8
  <2> QED
    BY <1>1, <1>9, <1>11, <2>1
<1>13. u \in Seq(S) /\ Len(u) = L - 1 /\ \A k \in 1 .. L - 1 : u[k] = s[k + 1]
  BY <1>1, <1>8
<1>14. ASSUME NEW k \in 1 .. L - 1 PROVE t[k] = u[k]
  <2>1. k \in Nat /\ k + 1 \in 1 .. L /\ k + 1 \in 1 .. L + 1 /\ k + 1 # 1 /\ k \in 1 .. L
    BY <1>1
  <2>2. t[k] = r.Slots[Place(r, k)]
    BY <1>4, <1>8
  <2>3. Place(r, k) = Place(q, k + 1)
    <3>1. Place(q, k + 1) = IF q.Front + (k + 1) - 1 < MAX_PROCESS_COUNT
                            THEN q.Front + (k + 1) - 1
                            ELSE q.Front + (k + 1) - 1 - MAX_PROCESS_COUNT
      BY <1>9, <2>1, Zenon
    <3>2. k \in 1 .. QueueLength(r) + 1
      BY <1>1, <1>8, <2>1
    <3>3. Place(r, k) = IF r.Front + k - 1 < MAX_PROCESS_COUNT THEN r.Front + k - 1
                        ELSE r.Front + k - 1 - MAX_PROCESS_COUNT
      BY <1>10, <3>2, Zenon
    <3>4. q.Front + (k + 1) - 1 = q.Front + k
      BY <1>5, <2>1
    <3> DEFINE x == q.Front
               y == r.Front
               m == Place(q, k + 1)
               n == Place(r, k)
    <3> HIDE DEF x, y, m, n
    <3>5. /\ x \in Nat /\ x < MAX_PROCESS_COUNT /\ MAX_PROCESS_COUNT \in Nat
          /\ y = IF x = MAX_PROCESS_COUNT - 1 THEN 0 ELSE x + 1
      BY <1>5 DEF x, y
    <3>6. m = IF x + k < MAX_PROCESS_COUNT THEN x + k ELSE x + k - MAX_PROCESS_COUNT
      BY <3>1, <3>4 DEF x, m
    <3>7. n = IF y + k - 1 < MAX_PROCESS_COUNT THEN y + k - 1 ELSE y + k - 1 - MAX_PROCESS_COUNT
      BY <3>3 DEF y, n
    <3>8. k < MAX_PROCESS_COUNT
      BY <1>1, <1>5, <1>6, <2>1 DEF L
    <3>9. n = m
      BY <2>1, <3>5, <3>6, <3>7, <3>8
    <3> QED
      BY <3>9 DEF m, n
  <2>4. Place(q, k + 1) # q.Front /\ Place(q, k + 1) \in Indices
    BY <1>1, <1>9, <2>1
  <2> QED
    BY <1>1, <1>3, <1>13, <2>1, <2>2, <2>3, <2>4
<1> HIDE DEF u
<1>15. t = u
  BY <1>1, <1>4, <1>8, <1>13, <1>14
<1> QED
  BY <1>12, <1>15 DEF r, s, t, u

LEMMA AppendTwo ==
  ASSUME NEW S, NEW s \in Seq(S), NEW a \in S, NEW b \in S
  PROVE  s \o <<a, b>> = Append(Append(s, a), b)
<1> DEFINE t == s \o <<a, b>>
           u == Append(Append(s, a), b)
           L == Len(s)
<1>1. L \in Nat
  OBVIOUS
<1>2. t \in Seq(S) /\ Len(t) = L + 2
  OBVIOUS
<1>3. t[L + 1] = a /\ t[L + 2] = b /\ \A k \in 1 .. L : t[k] = s[k]
  OBVIOUS
<1>4. /\ u \in Seq(S) /\ Len(u) = L + 2 /\ u[L + 1] = a /\ u[L + 2] = b
      /\ \A k \in 1 .. L : u[k] = s[k]
  OBVIOUS
<1> HIDE DEF t, u, L
<1>5. t = u
  <2>1. \A k \in 1 .. L + 2 : k \in 1 .. L \/ k = L + 1 \/ k = L + 2
    BY <1>1
  <2> QED
    BY <1>2, <1>3, <1>4, <2>1
<1> QED
  BY <1>5 DEF t, u
\* The head of the queue gets the processor.
LEMMA DispatchSwitches ==
  ASSUME NEW q, NEW st, QueueOf(PCBs, q), ~IsEmpty(q), Dispatch(q, st)
  PROVE  RR!SwitchTo(QueueSequence(q))
<1>1. Current' = FrontOf(q) /\ ready' = Fetch(q)
  BY DEF Dispatch
<1>2. /\ Head(QueueSequence(q)) = FrontOf(q)
      /\ Tail(QueueSequence(q)) = QueueSequence(Fetch(q))
  BY PCBAssumption, FetchTakesHead
<1>3. QueueSequence(ready)' = QueueSequence(Fetch(q))
  <2>1. QueueSequence(ready') = QueueSequence(Fetch(q))
    BY <1>1, Zenon
  <2> QED
    BY <2>1
<1> QED
  BY <1>1, <1>2, <1>3, Zenon DEF RR!SwitchTo

\* What the abstract variables are in a state of the process manager.
LEMMA AbstractState ==
  ASSUME IInv, Running
  PROVE  /\ QueueSequence(ready) \in Seq(PCBs)
         /\ IsEmpty(ready) <=> QueueSequence(ready) = <<>>
         /\ \A p \in PCBs : p \in Zombies <=> IsZombie(p)
         /\ \A p \in PCBs : RR!Known(p) => p = Current \/ IsZombie(p) \/ Holds(ready, p)
         /\ Current # NULL => RR!Active
<1>1. QueueOf(PCBs, ready) /\ PlaceInv /\ ZombieProcesses \in [Indices -> PCBs \cup {NULL}]
  BY DEF IInv, TypeInv, ReadyQueueShape, TypeOK, SchedulerTypeOK
<1>2. /\ QueueSequence(ready) \in Seq(PCBs)
      /\ QueueSequence(ready) = <<>> <=> IsEmpty(ready)
      /\ \A k \in 1 .. QueueLength(ready) : Holds(ready, QueueSequence(ready)[k])
      /\ Len(QueueSequence(ready)) = QueueLength(ready)
  BY <1>1, PCBAssumption, SequenceIs
<1>3. \A p \in PCBs : p \in Zombies <=> IsZombie(p)
  BY PCBAssumption DEF Zombies, IsZombie
<1>4. ASSUME NEW p \in PCBs, RR!Known(p)
      PROVE  p = Current \/ IsZombie(p) \/ Holds(ready, p)
  <2>1. \/ p = Current \/ p \in Zombies
        \/ \E k \in DOMAIN QueueSequence(ready) : QueueSequence(ready)[k] = p
    BY <1>4 DEF RR!Known
  <2>2. DOMAIN QueueSequence(ready) = 1 .. QueueLength(ready)
    BY <1>2
  <2> QED
    BY <1>2, <1>3, <2>1, <2>2
<1>5. ASSUME Current # NULL PROVE RR!Active
  <2>1. Current \in PCBs /\ ~IsZombie(Current)
    BY <1>5, CurrentIsAlive
  <2> QED
    BY <1>3, <1>5, <2>1 DEF RR!Active
<1> QED
  BY <1>2, <1>3, <1>4, <1>5

\* The queue gets as long as the state it is in says.
LEMMA AbstractPush ==
  ASSUME NEW q, NEW p \in PCBs, QueueOf(PCBs, q), ~IsFull(q)
  PROVE  /\ QueueOf(PCBs, Push(q, p)) /\ ~IsEmpty(Push(q, p))
         /\ QueueSequence(Push(q, p)) = Append(QueueSequence(q), p)
         /\ QueueSequence(q) \in Seq(PCBs)
<1>1. /\ QueueOf(PCBs, Push(q, p)) /\ QueueSequence(q) \in Seq(PCBs)
      /\ QueueSequence(Push(q, p)) = Append(QueueSequence(q), p)
  BY PCBAssumption, PushQueueOf, PushAppends, SequenceIs
<1>2. q.Front \in Indices /\ q.Rear \in Indices
  BY DEF QueueOf
<1>3. Push(q, p).Front = q.Front /\ Push(q, p).Rear = Succ(q.Rear)
  BY DEF Push
<1>4. ~IsEmpty(Push(q, p))
  BY <1>3 DEF IsEmpty, IsFull
<1> QED
  BY <1>1, <1>4

\* Schedule() with a current process that goes on running, called with the queue
\* as it is after what the caller put there.
LEMMA RequeueSwitches ==
  ASSUME IInv, Running, NEW q, NEW st, QueueOf(PCBs, q), Schedule(q, st), NoOverflow',
         Current # NULL, st[Current] = "RUNNING"
  PROVE  /\ RR!SwitchTo(Append(QueueSequence(q), Current))
         /\ Zombies' = Zombies
<1>1. Current \in PCBs /\ ID[Current] # 0
  BY CurrentIsAlive
<1>2. RequeueThenDispatch(q, st)
  BY <1>1 DEF Schedule, Requeues, Buries
<1>3. ~IsFull(q)
  BY <1>2 DEF RequeueThenDispatch, Panic, NoOverflow
<1>4. PICK st2 : Dispatch(Push(q, Current), st2) /\ ZombieProcesses' = ZombieProcesses
  BY <1>2, <1>3 DEF RequeueThenDispatch
<1>5. /\ QueueOf(PCBs, Push(q, Current)) /\ ~IsEmpty(Push(q, Current))
      /\ QueueSequence(Push(q, Current)) = Append(QueueSequence(q), Current)
  BY <1>1, <1>3, AbstractPush
<1>6. RR!SwitchTo(QueueSequence(Push(q, Current)))
  BY <1>4, <1>5, DispatchSwitches
<1>7. RR!SwitchTo(Append(QueueSequence(q), Current))
  BY <1>5, <1>6, Zenon
<1> QED
  BY <1>4, <1>7 DEF Zombies

LEMMA AbstractArrive ==
  ASSUME IInv, EndCreateUserProcess, ready' # ready
  PROVE  RR!Arrive(creating)
<1>1. /\ Running /\ Current = NULL /\ creating # NULL
      /\ UNCHANGED <<Current, ZombieProcesses>>
      /\ ~IsFull(ready) /\ ready' = Push(ready, creating)
  BY DEF EndCreateUserProcess
<1>2. creating \in PCBs /\ PlaceInv /\ QueueOf(PCBs, ready)
  BY <1>1 DEF IInv, TypeInv, ReadyQueueShape, TypeOK
<1>3. ~Holds(ready, creating) /\ ~IsZombie(creating)
  BY <1>2 DEF PlaceInv
<1>4. ~RR!Known(creating)
  BY <1>1, <1>2, <1>3, AbstractState
<1>5. QueueSequence(Push(ready, creating)) = Append(QueueSequence(ready), creating)
  BY <1>1, <1>2, AbstractPush
<1>6. QueueSequence(ready)' = Append(QueueSequence(ready), creating)
  <2>1. QueueSequence(ready') = Append(QueueSequence(ready), creating)
    BY <1>1, <1>5, Zenon
  <2> QED
    BY <2>1
<1>7. Zombies' = Zombies
  BY <1>1 DEF Zombies
<1> QED
  BY <1>1, <1>4, <1>6, <1>7, Zenon DEF RR!Arrive

\* The clock and yield.
LEMMA AbstractRotate ==
  ASSUME IInv, NoOverflow', Tick \/ Yield
  PROVE  RR!Start \/ RR!Rotate \/ UNCHANGED RR!rrVars
<1>1. Running /\ Schedule(ready, Status) /\ QueueOf(PCBs, ready)
  BY DEF Tick, Yield, InUserMode, IInv, TypeInv, ReadyQueueShape
<1>2. CASE Current # NULL
  <2>1. Status[Current] = "RUNNING" /\ RR!Active
    BY <1>1, <1>2, CurrentIsAlive, AbstractState
  <2>2. RR!SwitchTo(Append(QueueSequence(ready), Current)) /\ Zombies' = Zombies
    BY <1>1, <1>2, <2>1, RequeueSwitches
  <2> QED
    BY <2>1, <2>2, Zenon DEF RR!Rotate
<1>3. CASE Current = NULL /\ IsEmpty(ready)
  <2>1. UNCHANGED <<Current, ready, ZombieProcesses>>
    BY <1>1, <1>3 DEF Schedule
  <2> QED
    BY <2>1 DEF RR!rrVars, Zombies
<1>4. CASE Current = NULL /\ ~IsEmpty(ready)
  <2>1. Dispatch(ready, Status) /\ ZombieProcesses' = ZombieProcesses
    BY <1>1, <1>4 DEF Schedule
  <2>2. RR!SwitchTo(QueueSequence(ready)) /\ QueueSequence(ready) # <<>>
    BY <1>1, <1>4, <2>1, DispatchSwitches, AbstractState
  <2>3. Zombies' = Zombies
    BY <2>1 DEF Zombies
  <2> QED
    BY <1>4, <2>2, <2>3, Zenon DEF RR!Start
<1> QED
  BY <1>2, <1>3, <1>4
\* The fork puts the child in line ahead of its parent.
LEMMA AbstractSpawn ==
  ASSUME IInv, NoOverflow', NEW child \in PCBs, ForkProcess(child)
  PROVE  RR!Spawn(child)
<1> DEFINE st == [Status EXCEPT ![child] = Status[Current]]
           q == Push(ready, child)
<1>1. /\ Running /\ Current # NULL /\ Status[child] = "FREE"
      /\ IF IsFull(ready) THEN panic' = "Queue is full" ELSE Schedule(q, st)
  BY DEF ForkProcess, InUserMode, Panic
<1>2. ~IsFull(ready) /\ Schedule(q, st)
  BY <1>1 DEF NoOverflow
<1>3. /\ PlaceInv /\ QueueOf(PCBs, ready) /\ Status \in [PCBs -> States]
  BY <1>1 DEF IInv, TypeInv, ReadyQueueShape, TypeOK, SchedulerTypeOK
<1>4. /\ Current \in PCBs /\ Status[Current] = "RUNNING"
  BY <1>1, CurrentIsAlive
<1>5. ~Holds(ready, child) /\ ~IsZombie(child) /\ child # Current
  BY <1>1, <1>3, <1>4 DEF PlaceInv
<1>6. ~RR!Known(child) /\ RR!Active
  BY <1>1, <1>5, AbstractState
<1>7. /\ QueueOf(PCBs, q) /\ QueueSequence(q) = Append(QueueSequence(ready), child)
      /\ QueueSequence(ready) \in Seq(PCBs)
  BY <1>2, <1>3, AbstractPush
<1>8. st[Current] = "RUNNING"
  BY <1>3, <1>4, <1>5
<1> HIDE DEF q, st
<1>9. RR!SwitchTo(Append(QueueSequence(q), Current)) /\ Zombies' = Zombies
  BY <1>1, <1>2, <1>7, <1>8, RequeueSwitches
<1>10. Append(QueueSequence(q), Current) = QueueSequence(ready) \o <<child, Current>>
  <2>1. Append(Append(QueueSequence(ready), child), Current)
          = QueueSequence(ready) \o <<child, Current>>
    BY <1>4, <1>7, AppendTwo
  <2> QED
    BY <1>7, <2>1, Zenon
<1> QED
  BY <1>6, <1>9, <1>10, Zenon DEF RR!Spawn

\* The exit moves the current process to the zombies and runs the next one.
LEMMA AbstractRetire ==
  ASSUME IInv, NoOverflow', ExitProcess
  PROVE  RR!Retire
<1> DEFINE st == [Status EXCEPT ![Current] = "ZOMBIE"]
<1>1. Running /\ Current # NULL /\ Schedule(ready, st)
  BY DEF ExitProcess, InUserMode
<1>2. /\ Current \in PCBs /\ ID[Current] # 0 /\ RR!Active
      /\ Status \in [PCBs -> States] /\ QueueOf(PCBs, ready)
      /\ ZombieProcesses \in [Indices -> PCBs \cup {NULL}]
  BY <1>1, CurrentIsAlive, AbstractState
     DEF IInv, TypeInv, ReadyQueueShape, TypeOK, SchedulerTypeOK
<1>3. st[Current] = "ZOMBIE"
  BY <1>2
<1> HIDE DEF st
<1>4. PICK i \in Indices :
        /\ FirstFreeSlot(i)
        /\ ZombieProcesses' = [ZombieProcesses EXCEPT ![i] = Current]
        /\ Dispatch(ready, st)
  BY <1>1, <1>2, <1>3 DEF Schedule, Requeues, Buries, BuryThenDispatch, Panic, NoOverflow
<1>5. /\ ZombieProcesses[i] = NULL
      /\ \A j \in Indices :
           ZombieProcesses'[j] = IF j = i THEN Current ELSE ZombieProcesses[j]
  BY <1>2, <1>4 DEF FirstFreeSlot
<1>6. Zombies' = Zombies \cup {Current}
  <2>1. Zombies' = {ZombieProcesses'[j] : j \in Indices} \ {NULL}
    BY DEF Zombies
  <2>2. \A x : x \in Zombies' <=> x \in Zombies \cup {Current}
    BY <1>1, <1>5, <2>1 DEF Zombies
  <2> QED
    BY <2>2
<1>7. CASE IsEmpty(ready)
  <2>1. Current' = Current /\ ready' = ready
    BY <1>4, <1>7 DEF Dispatch
  <2>2. QueueSequence(ready)' = QueueSequence(ready)
    BY <2>1
  <2>3. QueueSequence(ready) = <<>>
    BY <1>1, <1>7, AbstractState
  <2> QED
    BY <1>2, <1>6, <2>1, <2>2, <2>3, Zenon DEF RR!Retire
<1>8. CASE ~IsEmpty(ready)
  <2>1. RR!SwitchTo(QueueSequence(ready)) /\ QueueSequence(ready) # <<>>
    BY <1>1, <1>2, <1>4, <1>8, DispatchSwitches, AbstractState
  <2> QED
    BY <1>2, <1>6, <2>1, Zenon DEF RR!Retire
<1> QED
  BY <1>7, <1>8

\* waitpid takes one process off the list of those that ended.
LEMMA AbstractCollect ==
  ASSUME IInv, NEW pid \in PIDs \cup {AnyChild}, WaitProcess(pid)
  PROVE  \E p \in PCBs : RR!Collect(p)
<1>1. PICK i \in Indices :
        /\ IsFirstZombie(i, pid)
        /\ ZombieProcesses' = [ZombieProcesses EXCEPT ![i] = NULL]
  BY DEF WaitProcess
<1>2. Running /\ Current # NULL /\ Current' = Current /\ ready' = ready
  BY DEF WaitProcess, InUserMode
<1>3. ZombieProcesses \in [Indices -> PCBs \cup {NULL}] /\ PlaceInv
  BY <1>2 DEF IInv, TypeInv, TypeOK, SchedulerTypeOK
<1> DEFINE p == ZombieProcesses[i]
<1>4. p \in PCBs
  BY <1>1, <1>3 DEF IsFirstZombie, IsChild
<1>5. p \in Zombies /\ p # NULL
  BY <1>4, PCBAssumption DEF Zombies
<1>6. \A j \in Indices : ZombieProcesses'[j] = IF j = i THEN NULL ELSE ZombieProcesses[j]
  BY <1>1, <1>3
<1>7. Zombies' = Zombies \ {p}
  <2>1. Zombies' = {ZombieProcesses'[j] : j \in Indices} \ {NULL}
    BY DEF Zombies
  <2>2. \A j \in Indices : ZombieProcesses[j] = p => j = i
    BY <1>3, <1>5 DEF PlaceInv
  <2> HIDE DEF p
  <2>3. p = ZombieProcesses[i]
    BY DEF p
  <2>4. \A x : x \in Zombies' <=> x \in Zombies \ {p}
    BY <1>6, <2>1, <2>2, <2>3 DEF Zombies
  <2> QED
    BY <2>4
<1>8. QueueSequence(ready)' = QueueSequence(ready)
  BY <1>2
<1>9. RR!Active
  BY <1>2, AbstractState
<1> HIDE DEF p
<1>10. RR!Collect(p)
  BY <1>2, <1>5, <1>7, <1>8, <1>9, Zenon DEF RR!Collect
<1> QED
  BY <1>4, <1>10

LEMMA AbstractStep ==
  ASSUME IInv, NoOverflow', [Next]_vars
  PROVE  [RR!Next]_RR!rrVars
<1>1. CASE UNCHANGED <<Current, ready, ZombieProcesses>>
  BY <1>1 DEF RR!rrVars, Zombies
<1>2. CASE EndCreateUserProcess
  <2>1. CASE ready' # ready
    <3>1. RR!Arrive(creating) /\ creating \in PCBs
      BY <1>2, <2>1, AbstractArrive DEF EndCreateUserProcess, IInv, TypeInv, TypeOK
    <3> QED
      BY <3>1 DEF RR!Next
  <2>2. CASE ready' = ready
    BY <1>1, <1>2, <2>2 DEF EndCreateUserProcess
  <2> QED
    BY <2>1, <2>2
<1>3. CASE Tick \/ Yield
  BY <1>3, AbstractRotate DEF RR!Next
<1>4. ASSUME NEW child \in PCBs, ForkProcess(child) PROVE RR!Next
  BY <1>4, AbstractSpawn DEF RR!Next
<1>5. CASE ExitProcess
  BY <1>5, AbstractRetire DEF RR!Next
<1>6. ASSUME NEW pid \in PIDs \cup {AnyChild}, WaitProcess(pid) PROVE RR!Next
  BY <1>6, AbstractCollect DEF RR!Next
<1> QED
  BY <1>1, <1>2, <1>3, <1>4, <1>5, <1>6
     DEF Next, BeginCreateUserProcess, ForkOutOfMemory, ForkReturn, Halted, vars, schedVars

LEMMA AbstractInit == Init => RR!Init
<1> SUFFICES ASSUME Init PROVE RR!Init
  OBVIOUS
<1>1. Current = NULL /\ ready = EmptyQueueAt(Succ(0)) /\ Zombies = {}
  BY DEF Init, Zombies
<1>2. QueueOf(PCBs, ready) /\ IsEmpty(ready)
  BY <1>1, InitTypeInv DEF TypeInv, ReadyQueueShape, IsEmpty, EmptyQueueAt
<1>3. QueueSequence(ready) = <<>>
  BY <1>2, PCBAssumption, SequenceIs
<1> QED
  BY <1>1, <1>3 DEF RR!Init

(***************************************************************************)
(* The scheduler is round robin: for every number of processes and every   *)
(* size of the array each step of the kernel starts, rotates, spawns,      *)
(* retires or collects as the discipline says, or changes nothing in it.   *)
(***************************************************************************)
THEOREM ServesInTurn == Spec => ImplementsRoundRobin
<1>1. Init => NoOverflow
  BY DEF Init, NoOverflow
<1>2. IInv /\ NoOverflow /\ [Next]_vars => [RR!Next]_RR!rrVars
  BY NextNoOverflow, AbstractStep
<1> QED
  BY <1>1, <1>2, AbstractInit, NextNoOverflow, Invariance, PTL
     DEF Spec, ImplementsRoundRobin, RR!Spec
=============================================================================
