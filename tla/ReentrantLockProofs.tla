------------------------ MODULE ReentrantLockProofs ------------------------
(***************************************************************************)
(* The locks of system calls, which run with interrupts off: invariants of *)
(* the locks and of the scheduler under them, and that the kernel never    *)
(* comes to a state where all processes wait, for any processes and locks. *)
(***************************************************************************)
EXTENDS ReentrantLock, TLAPS, FiniteSetTheorems, SequenceTheorems, WellFoundedInduction

-----------------------------------------------------------------------------
(***************************************************************************)
(* What the operations of the circular queue preserve, for every size,     *)
(* which ProcessManagerProofs states for its own ring.                     *)
(***************************************************************************)
\* A queue of elements of S whose array holds elements between Front and Rear
\* and NULL elsewhere.
QueueOf(S, q) ==
  /\ q \in [Slots : [Indices -> S \cup {NULL}], Front : Indices, Rear : Indices]
  /\ \A i \in Indices : q.Slots[i] # NULL <=> InRegion(q, i)

\* Going to the next slot is adding one, except at the end of the array.
LEMMA SuccCases ==
  ASSUME NEW i \in Indices
  PROVE  /\ Succ(i) \in Indices
         /\ Succ(i) = IF i = MAX_PROCESS_COUNT - 1 THEN 0 ELSE i + 1
<1>1. MAX_PROCESS_COUNT \in Nat /\ MAX_PROCESS_COUNT > 1
  BY SizeAssumption
<1>2. CASE i = MAX_PROCESS_COUNT - 1
  BY <1>1, <1>2 DEF Succ, Indices
<1>3. CASE i # MAX_PROCESS_COUNT - 1
  BY <1>1, <1>3 DEF Succ, Indices
<1> QED
  BY <1>2, <1>3

\* AddProcess on a queue that is not full.
LEMMA PushQueueOf ==
  ASSUME NEW S, NEW q, NEW p \in S, NULL \notin S, QueueOf(S, q), ~IsFull(q)
  PROVE  QueueOf(S, Push(q, p))
<1>1. /\ q.Rear \in Indices /\ q.Front \in Indices
      /\ Succ(q.Rear) \in Indices
      /\ Succ(q.Rear) = IF q.Rear = MAX_PROCESS_COUNT - 1 THEN 0 ELSE q.Rear + 1
  BY SuccCases DEF QueueOf
<1>2. /\ Push(q, p) \in [Slots : [Indices -> S \cup {NULL}],
                         Front : Indices, Rear : Indices]
      /\ Push(q, p).Front = q.Front
      /\ Push(q, p).Rear = Succ(q.Rear)
      /\ \A i \in Indices :
           Push(q, p).Slots[i] = IF i = q.Rear THEN p ELSE q.Slots[i]
  BY <1>1 DEF QueueOf, Push
<1>3. ASSUME NEW i \in Indices
      PROVE  InRegion(Push(q, p), i) <=> i = q.Rear \/ InRegion(q, i)
  BY <1>1, <1>2, SizeAssumption DEF InRegion, IsFull, Indices
<1> QED
  BY <1>2, <1>3 DEF QueueOf

\* fetchProcess on a queue that is not empty.
LEMMA FetchQueueOf ==
  ASSUME NEW S, NEW q, NULL \notin S, QueueOf(S, q), ~IsEmpty(q)
  PROVE  FrontOf(q) \in S /\ QueueOf(S, Fetch(q))
<1>1. /\ q.Rear \in Indices /\ q.Front \in Indices
      /\ Succ(q.Front) \in Indices
      /\ Succ(q.Front) = IF q.Front = MAX_PROCESS_COUNT - 1 THEN 0 ELSE q.Front + 1
  BY SuccCases DEF QueueOf
<1>2. /\ Fetch(q) \in [Slots : [Indices -> S \cup {NULL}],
                       Front : Indices, Rear : Indices]
      /\ Fetch(q).Front = Succ(q.Front)
      /\ Fetch(q).Rear = q.Rear
      /\ \A i \in Indices :
           Fetch(q).Slots[i] = IF i = q.Front THEN NULL ELSE q.Slots[i]
  BY <1>1 DEF QueueOf, Fetch
<1>3. InRegion(q, q.Front)
  BY <1>1, SizeAssumption DEF InRegion, IsEmpty, Indices
<1>4. ASSUME NEW i \in Indices
      PROVE  InRegion(Fetch(q), i) <=> i # q.Front /\ InRegion(q, i)
  BY <1>1, <1>2, SizeAssumption DEF InRegion, IsEmpty, Indices
<1>5. FrontOf(q) \in S
  BY <1>1, <1>3 DEF QueueOf, FrontOf
<1> QED
  BY <1>2, <1>4, <1>5 DEF QueueOf

-----------------------------------------------------------------------------
\* The elements of the array, and the array without repetitions.
Holds(q, x) == \E i \in Indices : q.Slots[i] = x

Distinct(q) ==
  \A i, j \in Indices : q.Slots[i] = q.Slots[j] /\ q.Slots[i] # NULL => i = j

\* What is between Front and Rear is what the array holds.
LEMMA QueuedHolds ==
  ASSUME NEW S, NEW q, NEW x \in S, NULL \notin S, QueueOf(S, q)
  PROVE  x \in Queued(q) <=> Holds(q, x)
  BY DEF Queued, Holds, QueueOf

\* AddProcess adds its argument and keeps the rest.
LEMMA PushContents ==
  ASSUME NEW S, NEW q, NEW p \in S, NULL \notin S, QueueOf(S, q), ~IsFull(q)
  PROVE  /\ \A x \in S : Holds(Push(q, p), x) <=> x = p \/ Holds(q, x)
         /\ Distinct(q) /\ ~Holds(q, p) => Distinct(Push(q, p))
<1>1. /\ q.Rear \in Indices
      /\ \A i \in Indices :
           Push(q, p).Slots[i] = IF i = q.Rear THEN p ELSE q.Slots[i]
  BY DEF QueueOf, Push
<1>2. ~InRegion(q, q.Rear)
  BY <1>1, SizeAssumption DEF InRegion, Indices, QueueOf
<1>3. q.Slots[q.Rear] = NULL
  BY <1>1, <1>2 DEF QueueOf
<1> QED
  BY <1>1, <1>3 DEF Holds, Distinct

\* fetchProcess takes away the process it returns and no other.
LEMMA FetchContents ==
  ASSUME NEW S, NEW q, NULL \notin S, QueueOf(S, q), ~IsEmpty(q), Distinct(q)
  PROVE  /\ Holds(q, FrontOf(q))
         /\ \A x \in S : Holds(Fetch(q), x) <=> x # FrontOf(q) /\ Holds(q, x)
         /\ Distinct(Fetch(q))
<1>1. /\ q.Front \in Indices
      /\ FrontOf(q) = q.Slots[q.Front] /\ FrontOf(q) \in S
      /\ \A i \in Indices :
           Fetch(q).Slots[i] = IF i = q.Front THEN NULL ELSE q.Slots[i]
  BY FetchQueueOf DEF QueueOf, Fetch, FrontOf
<1>2. Distinct(Fetch(q))
  BY <1>1 DEF Distinct
<1>3. \A x \in S : Holds(Fetch(q), x) <=> x # FrontOf(q) /\ Holds(q, x)
  BY <1>1 DEF Distinct, Holds
<1> QED
  BY <1>1, <1>2, <1>3 DEF Holds

\* A queue that is empty holds nothing.
LEMMA EmptyHoldsNothing ==
  ASSUME NEW S, NEW q, NULL \notin S, QueueOf(S, q), IsEmpty(q)
  PROVE  \A x \in S : ~Holds(q, x)
  BY SizeAssumption DEF QueueOf, IsEmpty, InRegion, Holds, Indices

(***************************************************************************)
(* A queue is never full for an element it does not hold, if all elements  *)
(* there are fit into it: a full one has all slots but one in use.         *)
(***************************************************************************)
LEMMA RoomForOneMore ==
  ASSUME NEW S, NEW q, NEW p \in S, NULL \notin S, QueueOf(S, q), Distinct(q),
         ~Holds(q, p), IsFiniteSet(S), Cardinality(S) < MAX_PROCESS_COUNT
  PROVE  ~IsFull(q)
<1> SUFFICES ASSUME IsFull(q) PROVE FALSE
  OBVIOUS
<1> DEFINE g == [i \in Indices |-> IF i = q.Rear THEN p ELSE q.Slots[i]]
<1>0. q.Front \in Indices /\ q.Rear \in Indices /\ q.Front = Succ(q.Rear)
  BY DEF QueueOf, IsFull
<1>1. q.Front = IF q.Rear = MAX_PROCESS_COUNT - 1 THEN 0 ELSE q.Rear + 1
  BY <1>0, SuccCases
<1>2. \A i \in Indices : i # q.Rear => InRegion(q, i)
  BY <1>0, <1>1, SizeAssumption DEF InRegion, Indices
<1>3. \A i \in Indices : i # q.Rear => q.Slots[i] # NULL /\ q.Slots[i] \in S /\ q.Slots[i] # p
  BY <1>2 DEF QueueOf, Holds
<1>4. g \in [Indices -> S]
  BY <1>3
<1>5. \A i, j \in Indices : g[i] = g[j] => i = j
  BY <1>3 DEF Distinct
<1>6. g \in Injection(Indices, S)
  BY <1>4, <1>5 DEF Injection, IsInjective
<1>7. Cardinality(Indices) <= Cardinality(S)
  BY <1>6, FS_Injection
<1>8. Cardinality(Indices) = MAX_PROCESS_COUNT
  BY SizeAssumption, FS_Interval DEF Indices
<1>9. Cardinality(S) \in Nat
  BY FS_CardinalityType
<1> QED
  BY <1>7, <1>8, <1>9, SizeAssumption

\* Elements with distinct numbers from 1 to the last slot fit into a queue.
LEMMA NumberedElementsFit ==
  ASSUME NEW S, NEW f \in [S -> Indices \ {0}], \A x, y \in S : f[x] = f[y] => x = y
  PROVE  IsFiniteSet(S) /\ Cardinality(S) < MAX_PROCESS_COUNT
<1>1. MAX_PROCESS_COUNT \in Nat /\ 1 <= MAX_PROCESS_COUNT - 1
  BY SizeAssumption
<1>2. Indices \ {0} = 1 .. MAX_PROCESS_COUNT - 1
  BY <1>1 DEF Indices
<1>3. IsFiniteSet(Indices \ {0}) /\ Cardinality(Indices \ {0}) = MAX_PROCESS_COUNT - 1
  <2>1. 1 \in Int /\ MAX_PROCESS_COUNT - 1 \in Int
    BY <1>1
  <2>2. /\ IsFiniteSet(1 .. MAX_PROCESS_COUNT - 1)
        /\ Cardinality(1 .. MAX_PROCESS_COUNT - 1)
             = IF 1 > MAX_PROCESS_COUNT - 1 THEN 0 ELSE MAX_PROCESS_COUNT - 1 - 1 + 1
    BY <2>1, FS_Interval
  <2>3. /\ IsFiniteSet(1 .. MAX_PROCESS_COUNT - 1)
        /\ Cardinality(1 .. MAX_PROCESS_COUNT - 1) = MAX_PROCESS_COUNT - 1
    BY <1>1, <2>2
  <2> QED
    BY <1>2, <2>3, Zenon
<1>4. f \in Injection(S, Indices \ {0})
  BY DEF Injection, IsInjective
<1>5. IsFiniteSet(S) /\ Cardinality(S) <= MAX_PROCESS_COUNT - 1
  BY <1>3, <1>4, FS_Injection
<1> QED
  BY <1>1, <1>5, FS_CardinalityType

-----------------------------------------------------------------------------
(***************************************************************************)
(* The invariant.  The scheduler needs its queue well formed, the queues   *)
(* need the processes to have numbers of their own.  A process that is     *)
(* about to take a lock is the current one and found the lock free: that   *)
(* is where interrupts have to be off.  A process inside Lock() holds only *)
(* locks that come before the one it wants, which rules out a circle.      *)
(***************************************************************************)
SchedInv ==
  /\ QueueOf(PCBs, ready) /\ Distinct(ready)
  /\ panic = "none"
  /\ \A p \in PCBs : ID[p] # 0 /\ Status[p] \in {"RUNNABLE", "RUNNING", "BLOCKED"}
  /\ \A p, q \in PCBs : ID[p] = ID[q] => p = q

RecordInv ==
  /\ RecordAgreesWithCallers
  /\ \A l \in Locks : Locked[l] => EntrantCount[l] > 0

CallInv ==
  \A p \in PCBs :
    /\ pc[p] = "out" <=> wanted[p] = NoLock
    /\ pc[p] = "take" => p = Current /\ ~Locked[wanted[p]]
    /\ \A k \in Locks : held[p][k] > 0 /\ pc[p] # "out" => k < wanted[p]

PlaceInv ==
  /\ \A p \in PCBs :
       /\ Status[p] = "BLOCKED" <=> \E l \in Locks : Waits(p, l)
       /\ Status[p] = "BLOCKED" <=> p # Current /\ ~Holds(ready, p)
       /\ p = Current => ~Holds(ready, p)
       /\ \A l \in Locks : Waits(p, l) => wanted[p] = l /\ pc[p] = "test"
  /\ \A l \in Locks : \A i, j \in DOMAIN WaitQueue[l] :
       WaitQueue[l][i] = WaitQueue[l][j] => i = j

WakeInv ==
  \A l \in Locks :
    \/ WaitQueue[l] = <<>>
    \/ Locked[l]
    \/ \E p \in PCBs : wanted[p] = l /\ Status[p] # "BLOCKED"

IInv == TypeOK /\ SchedInv /\ RecordInv /\ CallInv /\ PlaceInv /\ WakeInv

-----------------------------------------------------------------------------
(***************************************************************************)
(* Facts about numbers and sequences.                                      *)
(***************************************************************************)
LEMMA LeastNatural ==
  ASSUME NEW T \in SUBSET Nat, T # {}
  PROVE  \E m \in T : \A n \in T : m <= n
<1>1. \E m \in T : \A n \in T : ~(<<n, m>> \in OpToRel(<, Nat))
  BY NatLessThanWellFounded, WFMin
<1>2. PICK m \in T : \A n \in T : ~(<<n, m>> \in OpToRel(<, Nat))
  BY <1>1
<1>3. \A n \in T : ~(n < m)
  BY <1>2 DEF OpToRel
<1> QED
  BY <1>3

\* By induction on the size of the set.
LEMMA GreatestOfFinite ==
  ASSUME NEW S \in SUBSET Nat, IsFiniteSet(S), S # {}
  PROVE  \E m \in S : \A n \in S : n <= m
<1> DEFINE HasGreatest(U) == \E m \in U : \A n \in U : n <= m
           Sizes == {k \in Nat : \E U \in SUBSET Nat :
                       IsFiniteSet(U) /\ U # {} /\ Cardinality(U) = k /\ ~HasGreatest(U)}
<1> SUFFICES ASSUME ~HasGreatest(S) PROVE FALSE
  OBVIOUS
<1>1. Cardinality(S) \in Sizes
  BY FS_CardinalityType
<1>2. PICK k \in Sizes : \A j \in Sizes : k <= j
  <2>1. Sizes \in SUBSET Nat /\ Sizes # {}
    BY <1>1
  <2> HIDE DEF Sizes
  <2> QED
    BY <2>1, LeastNatural
<1>3. PICK U \in SUBSET Nat :
        IsFiniteSet(U) /\ U # {} /\ Cardinality(U) = k /\ ~HasGreatest(U)
  OBVIOUS
<1>4. PICK x \in U : TRUE
  BY <1>3
<1>5. IsFiniteSet(U \ {x}) /\ Cardinality(U \ {x}) = k - 1 /\ k - 1 \in Nat
  <2>1. IsFiniteSet(U \ {x}) /\ Cardinality(U \ {x}) = Cardinality(U) - 1
    BY <1>3, <1>4, FS_RemoveElement
  <2>2. Cardinality(U \ {x}) \in Nat
    BY <2>1, FS_CardinalityType
  <2> QED
    BY <1>3, <2>1, <2>2
<1>6. CASE U \ {x} = {}
  BY <1>3, <1>4, <1>6
<1>7. CASE U \ {x} # {}
  <2>1. HasGreatest(U \ {x})
    <3>1. k - 1 \notin Sizes
      BY <1>2, <1>5
    <3> QED
      BY <1>3, <1>5, <1>7, <3>1
  <2>2. PICK m \in U \ {x} : \A n \in U \ {x} : n <= m
    BY <2>1
  <2>3. m \in Nat /\ x \in Nat
    BY <1>3, <1>4
  <2>4. CASE x <= m
    BY <1>3, <1>4, <2>2, <2>4
  <2>5. CASE m <= x
    <3>1. \A n \in U : n <= x
      BY <1>3, <2>2, <2>3, <2>5
    <3> QED
      BY <1>3, <1>4, <3>1
  <2> QED
    BY <2>3, <2>4, <2>5
<1> QED
  BY <1>6, <1>7

-----------------------------------------------------------------------------
(***************************************************************************)
(* The scheduler.                                                          *)
(***************************************************************************)
\* There are fewer processes than slots in a queue.
LEMMA ProcessesFit ==
  ASSUME TypeOK, SchedInv
  PROVE  IsFiniteSet(PCBs) /\ Cardinality(PCBs) < MAX_PROCESS_COUNT
<1>1. ID \in [PCBs -> Indices \ {0}] /\ \A x, y \in PCBs : ID[x] = ID[y] => x = y
  BY DEF TypeOK, SchedulerTypeOK, SchedInv
<1> QED
  BY <1>1, NumberedElementsFit

\* What a switch to next leaves behind: queue q without next, statuses st with
\* next running.
SwitchedTo(next, q, st) ==
  /\ next \in PCBs /\ Holds(q, next)
  /\ Current' = next
  /\ Status' = [st EXCEPT ![next] = "RUNNING"]
  /\ QueueOf(PCBs, ready') /\ Distinct(ready')
  /\ \A x \in PCBs : Holds(ready', x) <=> x # next /\ Holds(q, x)

LEMMA DispatchSwitches ==
  ASSUME NEW q, NEW st, QueueOf(PCBs, q), Distinct(q), ~IsEmpty(q), Dispatch(q, st),
         st \in [PCBs -> States], SchedulerTypeOK, panic = "none",
         UNCHANGED <<ZombieProcesses, pcbVars>>
  PROVE  SchedulerTypeOK' /\ panic' = "none" /\ \E next \in PCBs : SwitchedTo(next, q, st)
<1> DEFINE next == FrontOf(q)
<1>1. /\ ready' = Fetch(q) /\ Status' = [st EXCEPT ![next] = "RUNNING"]
      /\ Current' = next /\ esp0' = KernelStack'[next] /\ cr3' = SwitchedRoot(next)
      /\ UNCHANGED panic
  BY DEF Dispatch
<1>2. next \in PCBs /\ QueueOf(PCBs, ready') /\ Distinct(ready') /\ Holds(q, next)
  BY <1>1, PCBAssumption, FetchQueueOf, FetchContents
<1>3. \A x \in PCBs : Holds(ready', x) <=> x # next /\ Holds(q, x)
  BY <1>1, PCBAssumption, FetchContents
<1> HIDE DEF next
<1>4. SwitchedTo(next, q, st)
  BY <1>1, <1>2, <1>3 DEF SwitchedTo
<1>5. Status' \in [PCBs -> States]
  BY <1>1, <1>2 DEF States
<1>6. cr3' \in Pages \cup {0} /\ esp0' \in Pages \cup {0}
  BY <1>1, <1>2 DEF SwitchedRoot, SchedulerTypeOK, pcbVars
<1>7. SchedulerTypeOK'
  BY <1>1, <1>2, <1>5, <1>6 DEF SchedulerTypeOK, pcbVars, QueueOf, QueueType
<1> QED
  BY <1>1, <1>2, <1>4, <1>7

LEMMA NotEmptyIfHeld ==
  ASSUME NEW q, NEW x \in PCBs, QueueOf(PCBs, q), Holds(q, x)
  PROVE  ~IsEmpty(q)
  BY PCBAssumption, EmptyHoldsNothing

\* The clock: the current process, if there is one, goes to the end of the queue.
LEMMA TickSwitches ==
  ASSUME IInv, Schedule(ready, Status), UNCHANGED pcbVars
  PROVE  /\ SchedulerTypeOK' /\ panic' = "none"
         /\ \/ UNCHANGED <<Current, ready, Status>>
            \/ \E next \in PCBs, q \in QueueType :
                 /\ SwitchedTo(next, q, IF Current = NULL THEN Status
                                        ELSE [Status EXCEPT ![Current] = "RUNNABLE"])
                 /\ \A x \in PCBs : Holds(q, x) <=> Holds(ready, x) \/ x = Current
<1>1. /\ SchedulerTypeOK /\ SchedInv /\ QueueOf(PCBs, ready) /\ Distinct(ready)
      /\ ready \in QueueType /\ Status \in [PCBs -> States] /\ panic = "none"
  BY DEF IInv, TypeOK, SchedInv, SchedulerTypeOK
<1>2. CASE Current = NULL
  <2>1. UNCHANGED <<Current, ready, Status, ZombieProcesses, cr3, esp0, panic>>
          \/ (~IsEmpty(ready) /\ UNCHANGED ZombieProcesses /\ Dispatch(ready, Status))
    BY <1>2 DEF Schedule
  <2>2. CASE UNCHANGED <<Current, ready, Status, ZombieProcesses, cr3, esp0, panic>>
    BY <1>1, <2>2 DEF SchedulerTypeOK, pcbVars
  <2>3. CASE ~IsEmpty(ready) /\ UNCHANGED ZombieProcesses /\ Dispatch(ready, Status)
    <3>1. /\ SchedulerTypeOK' /\ panic' = "none"
          /\ \E next \in PCBs : SwitchedTo(next, ready, Status)
      BY <1>1, <2>3, DispatchSwitches
    <3>2. \A x \in PCBs : x # Current
      BY <1>2, PCBAssumption
    <3> QED
      BY <1>1, <1>2, <3>1, <3>2
  <2> QED
    BY <2>1, <2>2, <2>3
<1>3. CASE Current # NULL
  <2> DEFINE st == [Status EXCEPT ![Current] = "RUNNABLE"]
             q == Push(ready, Current)
  <2>1. Current \in PCBs /\ ~Holds(ready, Current)
    BY <1>1, <1>3 DEF SchedulerTypeOK, IInv, PlaceInv
  <2>2. Status[Current] \notin {"BLOCKED", "ZOMBIE"} /\ ID[Current] # 0
    BY <1>1, <2>1 DEF SchedInv, IInv, PlaceInv
  <2>3. RequeueThenDispatch(ready, Status)
    BY <1>3, <2>2 DEF Schedule, Requeues, Buries
  <2>4. ~IsFull(ready)
    BY <1>1, <2>1, PCBAssumption, ProcessesFit, RoomForOneMore DEF IInv
  <2>5. UNCHANGED ZombieProcesses /\ Dispatch(q, st)
    BY <2>3, <2>4 DEF RequeueThenDispatch
  <2>6. QueueOf(PCBs, q) /\ q \in QueueType
    BY <1>1, <2>1, <2>4, PCBAssumption, PushQueueOf DEF QueueOf, QueueType
  <2>7. /\ \A x \in PCBs : Holds(q, x) <=> x = Current \/ Holds(ready, x)
        /\ Distinct(q)
    BY <1>1, <2>1, <2>4, PCBAssumption, PushContents
  <2>8. st \in [PCBs -> States]
    BY <1>1, <2>1 DEF States
  <2> HIDE DEF st, q
  <2>9. ~IsEmpty(q)
    BY <2>1, <2>6, <2>7, NotEmptyIfHeld
  <2>10. /\ SchedulerTypeOK' /\ panic' = "none"
         /\ \E next \in PCBs : SwitchedTo(next, q, st)
    BY <1>1, <2>5, <2>6, <2>7, <2>8, <2>9, DispatchSwitches
  <2> QED
    BY <1>3, <2>6, <2>7, <2>10 DEF st
<1> QED
  BY <1>2, <1>3

(***************************************************************************)
(* Not everybody waits.  If all did, take the last lock in the order that  *)
(* somebody wants: it is held, since nobody awake is on his way into it,   *)
(* and its owner wants a lock that comes after it.                         *)
(***************************************************************************)
LEMMA SomebodyIsReady ==
  ASSUME IInv, Current \in PCBs, pc[Current] = "test", Locked[wanted[Current]]
  PROVE  \E p \in PCBs : Holds(ready, p)
<1> SUFFICES ASSUME \A p \in PCBs : ~Holds(ready, p) PROVE FALSE
  OBVIOUS
<1> DEFINE Wanted == {k \in Locks : \E p \in PCBs : wanted[p] = k}
           All == {wanted[p] : p \in PCBs}
<1>1. /\ TypeOK /\ Locks \subseteq Nat /\ NoLock \notin Locks
      /\ \A p \in PCBs : wanted[p] \in Locks \cup {NoLock} /\ (pc[p] = "test" => wanted[p] \in Locks)
  BY LocksAssumption DEF IInv, TypeOK, CallInv, NoLock
<1>2. IsFiniteSet(Wanted)
  <2>1. IsFiniteSet(PCBs)
    BY ProcessesFit DEF IInv
  <2>2. [p \in PCBs |-> wanted[p]] \in Surjection(PCBs, All)
    BY DEF Surjection
  <2>3. IsFiniteSet(All)
    BY <2>1, <2>2, FS_Surjection
  <2>4. Wanted \in SUBSET All
    OBVIOUS
  <2> QED
    BY <2>3, <2>4, FS_Subset
<1>3. wanted[Current] \in Wanted
  BY <1>1
<1>4. PICK m \in Wanted : \A n \in Wanted : n <= m
  <2>1. Wanted \in SUBSET Nat /\ Wanted # {}
    BY <1>1, <1>3
  <2> HIDE DEF Wanted
  <2> QED
    BY <1>2, <2>1, GreatestOfFinite
<1>5. ASSUME NEW p \in PCBs, p # Current
      PROVE  /\ Status[p] = "BLOCKED" /\ pc[p] = "test"
             /\ wanted[p] \in Wanted /\ Waits(p, wanted[p])
  <2>1. Status[p] = "BLOCKED"
    BY <1>5 DEF IInv, PlaceInv
  <2>2. PICK l \in Locks : Waits(p, l)
    BY <2>1 DEF IInv, PlaceInv
  <2>3. wanted[p] = l /\ pc[p] = "test"
    BY <2>2 DEF IInv, PlaceInv
  <2> QED
    BY <2>1, <2>2, <2>3
<1>6. Locked[m]
  <2>1. CASE m = wanted[Current]
    BY <2>1
  <2>2. CASE m # wanted[Current]
    <3>1. PICK p \in PCBs : wanted[p] = m /\ p # Current
      BY <2>2
    <3>2. WaitQueue[m] # <<>>
      BY <1>5, <3>1 DEF Waits
    <3>3. \A r \in PCBs : wanted[r] = m => Status[r] = "BLOCKED"
      BY <1>5, <2>2
    <3> QED
      BY <3>2, <3>3 DEF IInv, WakeInv
  <2> QED
    BY <2>1, <2>2
<1>7. Owner[m] \in PCBs /\ held[Owner[m]][m] > 0
  BY <1>1, <1>6 DEF IInv, RecordInv, RecordAgreesWithCallers, TypeOK
<1>8. m < wanted[Owner[m]] /\ wanted[Owner[m]] \in Wanted
  <2>1. CASE Owner[m] = Current
    BY <1>3, <1>7, <2>1 DEF IInv, CallInv
  <2>2. CASE Owner[m] # Current
    BY <1>5, <1>7, <2>2 DEF IInv, CallInv
  <2> QED
    BY <2>1, <2>2
<1>9. wanted[Owner[m]] \in Nat /\ m \in Nat /\ wanted[Owner[m]] <= m
  BY <1>1, <1>4, <1>8
<1> QED
  BY <1>8, <1>9

-----------------------------------------------------------------------------
(***************************************************************************)
(* The steps.                                                              *)
(***************************************************************************)
LEMMA InitIInv == Init => IInv
<1> SUFFICES ASSUME Init PROVE IInv
  OBVIOUS
<1>1. /\ ready \in QueueType /\ QueueOf(PCBs, ready) /\ Distinct(ready)
  BY DEF Init, QueueOf, QueueType, Distinct
<1>2. ID \in [PCBs -> Indices \ {0}] /\ \A p, q \in PCBs : ID[p] = ID[q] => p = q
  BY DEF Init
<1>3. \A p \in PCBs : Holds(ready, p)
  <2>1. Queued(ready) = PCBs
    BY DEF Init
  <2> QED
    BY <1>1, <2>1, PCBAssumption, QueuedHolds
<1>4. TypeOK
  <2>1. SchedulerTypeOK
    BY <1>1, <1>2 DEF Init, SchedulerTypeOK, States
  <2>2. 0 \in 0 .. MaxDepth
    BY LocksAssumption
  <2> QED
    BY <2>1, <2>2 DEF Init, TypeOK
<1>5. SchedInv
  BY <1>1, <1>2 DEF Init, SchedInv
<1>6. RecordInv
  BY PCBAssumption DEF Init, RecordInv, RecordAgreesWithCallers
<1>7. CallInv
  BY DEF Init, CallInv
<1>8. PlaceInv
  BY <1>3, PCBAssumption DEF Init, PlaceInv, Waits
<1>9. WakeInv
  BY DEF Init, WakeInv
<1> QED
  BY <1>4, <1>5, <1>6, <1>7, <1>8, <1>9 DEF IInv

\* What At() says of the current process.
LEMMA CurrentAt ==
  ASSUME IInv, NEW label, At(label)
  PROVE  /\ Current \in PCBs /\ pc[Current] = label
         /\ Status[Current] # "BLOCKED" /\ ~Holds(ready, Current)
         /\ \A l \in Locks : ~Waits(Current, l)
<1>1. Current \in PCBs
  BY DEF At, IInv, TypeOK, SchedulerTypeOK
<1> QED
  BY <1>1 DEF At, IInv, PlaceInv

\* A lock whose owner enters it again.
LEMMA LockAgainKeeps ==
  ASSUME IInv, NEW l \in Locks, LockAgain(l)
  PROVE  IInv'
<1>1. /\ UNCHANGED <<schedVars, Locked, Owner, WaitQueue, pc, wanted>>
      /\ Owner[l] = Current /\ MayEnter(Current, l)
      /\ EntrantCount' = [EntrantCount EXCEPT ![l] = @ + 1]
      /\ held' = [held EXCEPT ![Current][l] = @ + 1]
  BY DEF LockAgain
<1>2. Current \in PCBs /\ pc[Current] = "out"
  BY CurrentAt DEF LockAgain
<1>3. held[Current][l] = EntrantCount[l] /\ held[Current][l] < MaxDepth /\ MaxDepth \in Nat
  BY <1>1, <1>2, LocksAssumption DEF IInv, RecordInv, RecordAgreesWithCallers, MayEnter
<1>4. TypeOK'
  <2>1. SchedulerTypeOK'
    BY <1>1 DEF IInv, TypeOK, SchedulerTypeOK, schedVars
  <2>2. EntrantCount' \in [Locks -> 0 .. MaxDepth] /\ held' \in [PCBs -> [Locks -> 0 .. MaxDepth]]
    BY <1>1, <1>2, <1>3 DEF IInv, TypeOK
  <2> QED
    BY <1>1, <2>1, <2>2 DEF IInv, TypeOK
<1>5. SchedInv' /\ PlaceInv' /\ WakeInv'
  BY <1>1 DEF IInv, SchedInv, PlaceInv, WakeInv, Waits, schedVars
<1>6. RecordInv'
  BY <1>1, <1>2, <1>3 DEF IInv, RecordInv, RecordAgreesWithCallers, TypeOK, schedVars
<1>7. CallInv'
  BY <1>1, <1>2 DEF IInv, CallInv, TypeOK, schedVars
<1> QED
  BY <1>4, <1>5, <1>6, <1>7 DEF IInv

LEMMA LockCallKeeps ==
  ASSUME IInv, NEW l \in Locks, LockCall(l)
  PROVE  IInv'
<1>1. /\ UNCHANGED <<schedVars, Locked, Owner, EntrantCount, WaitQueue, held>>
      /\ Owner[l] # Current /\ MayEnter(Current, l)
      /\ pc' = [pc EXCEPT ![Current] = "test"]
      /\ wanted' = [wanted EXCEPT ![Current] = l]
  BY DEF LockCall
<1>2. /\ Current \in PCBs /\ pc[Current] = "out" /\ Status[Current] # "BLOCKED"
      /\ \A k \in Locks : ~Waits(Current, k)
  BY CurrentAt DEF LockCall
<1>3. l # NoLock /\ \A k \in Locks : held[Current][k] > 0 => k < l
  <2>1. held[Current][l] = 0
    BY <1>1, <1>2 DEF IInv, RecordInv, RecordAgreesWithCallers
  <2> QED
    BY <1>1, <2>1, LocksAssumption DEF MayEnter, NoLock
<1>4. TypeOK'
  <2>1. SchedulerTypeOK'
    BY <1>1 DEF IInv, TypeOK, SchedulerTypeOK, schedVars
  <2> QED
    BY <1>1, <1>2, <2>1 DEF IInv, TypeOK
<1>5. SchedInv' /\ RecordInv'
  BY <1>1 DEF IInv, SchedInv, RecordInv, RecordAgreesWithCallers, schedVars
<1>6. CallInv'
  BY <1>1, <1>2, <1>3 DEF IInv, CallInv, TypeOK, schedVars
<1>7. PlaceInv'
  <2>1. \A p \in PCBs, k \in Locks : Waits(p, k)' <=> Waits(p, k)
    BY <1>1 DEF Waits
  <2>2. \A p \in PCBs, k \in Locks :
          Waits(p, k) => p # Current /\ wanted'[p] = wanted[p] /\ pc'[p] = pc[p]
    BY <1>1, <1>2 DEF IInv, TypeOK
  <2> QED
    BY <1>1, <2>1, <2>2 DEF IInv, PlaceInv, schedVars
<1>8. WakeInv'
  <2>1. wanted[Current] \notin Locks
    BY <1>2, LocksAssumption DEF IInv, CallInv, NoLock
  <2> QED
    BY <1>1, <1>2, <2>1 DEF IInv, WakeInv, TypeOK, schedVars
<1> QED
  BY <1>4, <1>5, <1>6, <1>7, <1>8 DEF IInv

LEMMA LockFreeKeeps ==
  ASSUME IInv, NEW l \in Locks, LockFree(l)
  PROVE  IInv'
<1>1. /\ UNCHANGED <<schedVars, Locked, Owner, EntrantCount, WaitQueue, wanted, held>>
      /\ wanted[Current] = l /\ ~Locked[l]
      /\ pc' = [pc EXCEPT ![Current] = "take"]
  BY DEF LockFree
<1>2. /\ Current \in PCBs /\ pc[Current] = "test"
      /\ \A k \in Locks : ~Waits(Current, k)
  BY CurrentAt DEF LockFree
<1>3. TypeOK'
  <2>1. SchedulerTypeOK'
    BY <1>1 DEF IInv, TypeOK, SchedulerTypeOK, schedVars
  <2> QED
    BY <1>1, <1>2, <2>1 DEF IInv, TypeOK
<1>4. SchedInv' /\ RecordInv' /\ WakeInv'
  BY <1>1 DEF IInv, SchedInv, RecordInv, RecordAgreesWithCallers, WakeInv, schedVars
<1>5. CallInv'
  BY <1>1, <1>2 DEF IInv, CallInv, TypeOK, schedVars
<1>6. PlaceInv'
  <2>1. \A p \in PCBs, k \in Locks : Waits(p, k)' <=> Waits(p, k)
    BY <1>1 DEF Waits
  <2>2. \A p \in PCBs, k \in Locks :
          Waits(p, k) => p # Current /\ wanted'[p] = wanted[p] /\ pc'[p] = pc[p]
    BY <1>1, <1>2 DEF IInv, TypeOK
  <2> QED
    BY <1>1, <2>1, <2>2 DEF IInv, PlaceInv, schedVars
<1> QED
  BY <1>3, <1>4, <1>5, <1>6 DEF IInv

LEMMA LockTakeKeeps ==
  ASSUME IInv, NEW l \in Locks, LockTake(l)
  PROVE  IInv'
<1>1. /\ UNCHANGED <<schedVars, WaitQueue>>
      /\ wanted[Current] = l
      /\ Locked' = [Locked EXCEPT ![l] = TRUE]
      /\ Owner' = [Owner EXCEPT ![l] = Current]
      /\ EntrantCount' = [EntrantCount EXCEPT ![l] = 1]
      /\ pc' = [pc EXCEPT ![Current] = "out"]
      /\ wanted' = [wanted EXCEPT ![Current] = NoLock]
      /\ held' = [held EXCEPT ![Current][l] = 1]
  BY DEF LockTake
<1>2. /\ Current \in PCBs /\ pc[Current] = "take" /\ Current # NULL
      /\ \A k \in Locks : ~Waits(Current, k)
  BY CurrentAt, PCBAssumption DEF LockTake
<1>3. ~Locked[l] /\ Owner[l] = NULL /\ 1 \in 0 .. MaxDepth
  BY <1>1, <1>2, LocksAssumption DEF IInv, CallInv, RecordInv, RecordAgreesWithCallers
<1>4. TypeOK'
  <2>1. SchedulerTypeOK'
    BY <1>1 DEF IInv, TypeOK, SchedulerTypeOK, schedVars
  <2> QED
    BY <1>1, <1>2, <1>3, <2>1 DEF IInv, TypeOK
<1>5. SchedInv'
  BY <1>1 DEF IInv, SchedInv, schedVars
<1>6. RecordInv'
  <2>1. \A p \in PCBs : held[p][l] = 0
    BY <1>3, PCBAssumption DEF IInv, RecordInv, RecordAgreesWithCallers
  <2> QED
    BY <1>1, <1>2, <2>1 DEF IInv, RecordInv, RecordAgreesWithCallers, TypeOK
<1>7. CallInv'
  BY <1>1, <1>2 DEF IInv, CallInv, TypeOK, schedVars
<1>8. PlaceInv'
  <2>1. \A p \in PCBs, k \in Locks : Waits(p, k)' <=> Waits(p, k)
    BY <1>1 DEF Waits
  <2>2. \A p \in PCBs, k \in Locks :
          Waits(p, k) => p # Current /\ wanted'[p] = wanted[p] /\ pc'[p] = pc[p]
    BY <1>1, <1>2 DEF IInv, TypeOK
  <2> QED
    BY <1>1, <2>1, <2>2 DEF IInv, PlaceInv, schedVars
<1>9. WakeInv'
  BY <1>1, <1>2 DEF IInv, WakeInv, TypeOK, schedVars
<1> QED
  BY <1>4, <1>5, <1>6, <1>7, <1>8, <1>9 DEF IInv

\* What follows for the scheduler from a switch among the processes of q.
LEMMA TickKeeps ==
  ASSUME IInv, ~Preemptible, Tick
  PROVE  IInv'
<1>1. /\ UNCHANGED <<pcbVars, lockVars>> /\ Schedule(ready, Status)
      /\ SchedulerTypeOK' /\ panic' = "none"
  BY TickSwitches DEF Tick
<1>2. \A p \in PCBs : pc[p] # "take"
  <2>1. Current = NULL \/ pc[Current] = "out"
    BY DEF Tick, At
  <2> QED
    BY <2>1, PCBAssumption DEF IInv, CallInv
<1>3. TypeOK' /\ RecordInv' /\ CallInv'
  BY <1>1, <1>2 DEF IInv, TypeOK, RecordInv, RecordAgreesWithCallers, CallInv, lockVars
<1>4. CASE UNCHANGED <<Current, ready, Status>>
  BY <1>1, <1>3, <1>4 DEF IInv, SchedInv, PlaceInv, WakeInv, Waits, lockVars, pcbVars
<1>5. ASSUME NEW next \in PCBs, NEW q \in QueueType,
             SwitchedTo(next, q, IF Current = NULL THEN Status
                                 ELSE [Status EXCEPT ![Current] = "RUNNABLE"]),
             \A x \in PCBs : Holds(q, x) <=> Holds(ready, x) \/ x = Current
      PROVE  IInv'
  <2>1. /\ Current' = next
        /\ Holds(ready, next) \/ next = Current
        /\ \A x \in PCBs : Holds(ready', x) <=> x # next /\ (Holds(ready, x) \/ x = Current)
        /\ QueueOf(PCBs, ready') /\ Distinct(ready')
    BY <1>5 DEF SwitchedTo
  <2>2. \A x \in PCBs : Status'[x] = IF x = next THEN "RUNNING"
                                     ELSE IF x = Current THEN "RUNNABLE" ELSE Status[x]
    <3>1. CASE Current = NULL
      BY <1>5, <3>1, PCBAssumption DEF SwitchedTo, IInv, TypeOK, SchedulerTypeOK
    <3>2. CASE Current # NULL
      BY <1>5, <3>2 DEF SwitchedTo, IInv, TypeOK, SchedulerTypeOK
    <3> QED
      BY <3>1, <3>2
  <2>3. \A x \in PCBs : Status'[x] = "BLOCKED" <=> Status[x] = "BLOCKED"
    BY <2>1, <2>2 DEF IInv, PlaceInv
  <2>4. SchedInv'
    BY <1>1, <2>1, <2>2 DEF IInv, SchedInv, pcbVars
  <2>5. PlaceInv'
    BY <1>1, <2>1, <2>3 DEF IInv, PlaceInv, Waits, lockVars
  <2>6. WakeInv'
    BY <1>1, <2>3 DEF IInv, WakeInv, lockVars
  <2> QED
    BY <1>3, <2>4, <2>5, <2>6 DEF IInv
<1> QED
  BY <1>1, <1>4, <1>5, TickSwitches

\* There is room for the current process among the waiters.
LEMMA WaitersFit ==
  ASSUME IInv, Current \in PCBs, NEW l \in Locks, ~Waits(Current, l)
  PROVE  Len(WaitQueue[l]) # MAX_PROCESS_COUNT - 1
<1> DEFINE w == WaitQueue[l]
           n == Len(w) + 1
           g == [i \in 1 .. n |-> IF i = n THEN Current ELSE w[i]]
<1>1. w \in Seq(PCBs) /\ Len(w) \in Nat /\ DOMAIN w = 1 .. Len(w)
  BY DEF IInv, TypeOK
<1>2. \A i \in 1 .. Len(w) : w[i] \in PCBs /\ w[i] # Current
  BY <1>1 DEF Waits
<1>3. \A i, j \in 1 .. Len(w) : w[i] = w[j] => i = j
  BY <1>1 DEF IInv, PlaceInv
<1> HIDE DEF w
<1>4. n \in Nat /\ g \in [1 .. n -> PCBs]
  BY <1>1, <1>2
<1>5. \A i, j \in 1 .. n : g[i] = g[j] => i = j
  BY <1>1, <1>2, <1>3
<1>6. g \in Injection(1 .. n, PCBs)
  BY <1>4, <1>5 DEF Injection, IsInjective
<1>7. IsFiniteSet(PCBs) /\ Cardinality(PCBs) < MAX_PROCESS_COUNT
  BY ProcessesFit DEF IInv
<1>8. Cardinality(1 .. n) <= Cardinality(PCBs)
  BY <1>6, <1>7, FS_Injection
<1>9. Cardinality(1 .. n) = n /\ Cardinality(PCBs) \in Nat
  <2>1. 1 \in Int /\ n \in Int /\ ~(1 > n)
    BY <1>1
  <2>2. Cardinality(1 .. n) = n - 1 + 1
    BY <2>1, FS_Interval
  <2> HIDE DEF n
  <2> QED
    BY <1>4, <1>7, <2>2, FS_CardinalityType
<1>10. n < MAX_PROCESS_COUNT
  <2> HIDE DEF n
  <2> QED
    BY <1>4, <1>7, <1>8, <1>9, SizeAssumption
<1> QED
  BY <1>1, <1>10, SizeAssumption DEF w

\* A lock that is held: the process waits and another one runs.
LEMMA LockWaitKeeps ==
  ASSUME IInv, NEW l \in Locks, LockWait(l)
  PROVE  IInv'
<1> DEFINE st == [Status EXCEPT ![Current] = "BLOCKED"]
<1>1. /\ UNCHANGED <<pcbVars, Locked, Owner, EntrantCount, pc, wanted, held>>
      /\ wanted[Current] = l /\ Locked[l]
  BY DEF LockWait
<1>2. /\ Current \in PCBs /\ pc[Current] = "test" /\ Current # NULL
      /\ ~Holds(ready, Current) /\ \A k \in Locks : ~Waits(Current, k)
  BY CurrentAt, PCBAssumption DEF LockWait
<1>3. /\ SchedulerTypeOK /\ SchedInv /\ QueueOf(PCBs, ready) /\ Distinct(ready)
      /\ Status \in [PCBs -> States] /\ panic = "none"
  BY DEF IInv, TypeOK, SchedInv, SchedulerTypeOK
<1>4. /\ WaitQueue' = [WaitQueue EXCEPT ![l] = Append(@, Current)]
      /\ Schedule(ready, st)
  BY <1>2, WaitersFit DEF LockWait
<1>5. st \in [PCBs -> States] /\ st[Current] = "BLOCKED"
  BY <1>2, <1>3 DEF States
<1>6. UNCHANGED ZombieProcesses /\ Dispatch(ready, st)
  BY <1>2, <1>4, <1>5 DEF Schedule, Requeues, Buries
<1>7. ~IsEmpty(ready)
  BY <1>1, <1>2, <1>3, SomebodyIsReady, NotEmptyIfHeld
<1>8. SchedulerTypeOK' /\ panic' = "none" /\ \E next \in PCBs : SwitchedTo(next, ready, st)
  BY <1>1, <1>3, <1>5, <1>6, <1>7, DispatchSwitches
<1>9. PICK next \in PCBs : SwitchedTo(next, ready, st)
  BY <1>8
<1>10. /\ Current' = next /\ Holds(ready, next) /\ next # Current
       /\ \A x \in PCBs : Holds(ready', x) <=> x # next /\ Holds(ready, x)
       /\ QueueOf(PCBs, ready') /\ Distinct(ready')
       /\ \A x \in PCBs : Status'[x] = IF x = next THEN "RUNNING"
                                       ELSE IF x = Current THEN "BLOCKED" ELSE Status[x]
  BY <1>2, <1>3, <1>5, <1>9 DEF SwitchedTo
<1> DEFINE w == WaitQueue[l]
<1>11. /\ w \in Seq(PCBs) /\ Len(w) \in Nat /\ DOMAIN w = 1 .. Len(w)
       /\ WaitQueue' \in [Locks -> Seq(PCBs)]
       /\ \A k \in Locks : k # l => WaitQueue'[k] = WaitQueue[k]
       /\ WaitQueue'[l] = Append(w, Current)
  BY <1>2, <1>4 DEF IInv, TypeOK
<1>12. /\ DOMAIN WaitQueue'[l] = 1 .. Len(w) + 1
       /\ \A i \in 1 .. Len(w) : WaitQueue'[l][i] = w[i]
       /\ WaitQueue'[l][Len(w) + 1] = Current
  <2> HIDE DEF w
  <2> QED
    BY <1>2, <1>11
<1>13. \A x \in PCBs, k \in Locks : Waits(x, k)' <=> Waits(x, k) \/ (x = Current /\ k = l)
  <2>1. ASSUME NEW x \in PCBs, NEW k \in Locks, k # l
        PROVE  Waits(x, k)' <=> Waits(x, k)
    BY <1>11, <2>1 DEF Waits
  <2>2. ASSUME NEW x \in PCBs
        PROVE  Waits(x, l)' <=> Waits(x, l) \/ x = Current
    <3>1. Waits(x, l)' <=> \E i \in 1 .. Len(w) + 1 : WaitQueue'[l][i] = x
      BY <1>12 DEF Waits
    <3>2. Waits(x, l) <=> \E i \in 1 .. Len(w) : w[i] = x
      BY <1>11 DEF Waits
    <3> HIDE DEF w
    <3> QED
      BY <1>11, <1>12, <3>1, <3>2
  <2> QED
    BY <2>1, <2>2
<1> HIDE DEF st, w
<1>14. TypeOK' /\ RecordInv'
  BY <1>1, <1>8, <1>11 DEF IInv, TypeOK, RecordInv, RecordAgreesWithCallers
<1>15. SchedInv'
  BY <1>1, <1>8, <1>10 DEF IInv, SchedInv, pcbVars
<1>16. CallInv'
  BY <1>1, <1>2, <1>10 DEF IInv, CallInv
<1>17. PlaceInv'
  <2>1. \A x \in PCBs :
          /\ Status'[x] = "BLOCKED" <=> Status[x] = "BLOCKED" \/ x = Current
          /\ Status'[x] = "BLOCKED" <=> x # Current' /\ ~Holds(ready', x)
          /\ x = Current' => ~Holds(ready', x)
    BY <1>2, <1>10 DEF IInv, PlaceInv
  <2>2. \A x \in PCBs : Status'[x] = "BLOCKED" <=> \E k \in Locks : Waits(x, k)'
    BY <1>13, <2>1 DEF IInv, PlaceInv
  <2>3. \A x \in PCBs, k \in Locks : Waits(x, k)' => wanted'[x] = k /\ pc'[x] = "test"
    BY <1>1, <1>2, <1>13 DEF IInv, PlaceInv
  <2>4. ASSUME NEW k \in Locks, NEW i \in DOMAIN WaitQueue'[k], NEW j \in DOMAIN WaitQueue'[k],
               WaitQueue'[k][i] = WaitQueue'[k][j]
        PROVE  i = j
    <3>1. CASE k # l
      BY <1>11, <2>4, <3>1 DEF IInv, PlaceInv
    <3>2. CASE k = l
      <4>1. \A a, b \in 1 .. Len(w) : w[a] = w[b] => a = b
        BY <1>11 DEF IInv, PlaceInv, w
      <4>2. \A a \in 1 .. Len(w) : w[a] # Current
        BY <1>2, <1>11 DEF Waits, w
      <4> QED
        BY <1>11, <1>12, <2>4, <3>2, <4>1, <4>2
    <3> QED
      BY <3>1, <3>2
  <2> QED
    BY <2>1, <2>2, <2>3, <2>4 DEF PlaceInv
<1>18. WakeInv'
  <2> SUFFICES ASSUME NEW k \in Locks, WaitQueue'[k] # <<>>, ~Locked'[k]
               PROVE  \E p \in PCBs : wanted'[p] = k /\ Status'[p] # "BLOCKED"
    BY DEF WakeInv
  <2>1. k # l /\ WaitQueue[k] # <<>> /\ ~Locked[k]
    BY <1>1, <1>11
  <2>2. PICK p \in PCBs : wanted[p] = k /\ Status[p] # "BLOCKED"
    BY <2>1 DEF IInv, WakeInv
  <2> QED
    BY <1>1, <1>10, <2>1, <2>2
<1> QED
  BY <1>14, <1>15, <1>16, <1>17, <1>18 DEF IInv

\* An Unlock() that leaves the lock held, by the same process.
LEMMA InnerUnlockKeeps ==
  ASSUME IInv, NEW l \in Locks, Unlock(l), EntrantCount[l] # 1
  PROVE  IInv'
<1>1. Current \in PCBs /\ held[Current][l] > 0
  BY CurrentAt DEF Unlock
<1>2. Owner[l] = Current /\ held[Current][l] = EntrantCount[l]
  BY <1>1 DEF IInv, RecordInv, RecordAgreesWithCallers
<1>3. /\ UNCHANGED <<schedVars, pc, wanted, Locked, Owner, WaitQueue>>
      /\ EntrantCount' = [EntrantCount EXCEPT ![l] = @ - 1]
      /\ held' = [held EXCEPT ![Current][l] = @ - 1]
  BY <1>2 DEF Unlock, schedVars, pcbVars
<1>4. EntrantCount[l] \in 0 .. MaxDepth /\ EntrantCount[l] - 1 \in 0 .. MaxDepth
      /\ EntrantCount[l] - 1 > 0
  BY <1>1, <1>2, LocksAssumption DEF IInv, TypeOK
<1>5. TypeOK'
  <2>1. SchedulerTypeOK'
    BY <1>3 DEF IInv, TypeOK, SchedulerTypeOK, schedVars
  <2>2. EntrantCount' \in [Locks -> 0 .. MaxDepth] /\ held' \in [PCBs -> [Locks -> 0 .. MaxDepth]]
    BY <1>1, <1>2, <1>3, <1>4 DEF IInv, TypeOK
  <2> QED
    BY <1>3, <2>1, <2>2 DEF IInv, TypeOK
<1>6. SchedInv' /\ PlaceInv' /\ WakeInv'
  BY <1>3 DEF IInv, SchedInv, PlaceInv, WakeInv, Waits, schedVars
<1>7. RecordInv'
  BY <1>1, <1>2, <1>3, <1>4 DEF IInv, RecordInv, RecordAgreesWithCallers, TypeOK
<1>8. CallInv'
  <2>1. \A p \in PCBs, k \in Locks : held'[p][k] > 0 => held[p][k] > 0
    BY <1>1, <1>2, <1>3, <1>4 DEF IInv, TypeOK
  <2> QED
    BY <1>3, <2>1 DEF IInv, CallInv, schedVars
<1> QED
  BY <1>5, <1>6, <1>7, <1>8 DEF IInv

\* What the last Unlock() does to the lock and to its caller.
Frees(l) ==
  /\ UNCHANGED <<pcbVars, Current, ZombieProcesses, cr3, esp0, pc, wanted>>
  /\ Current \in PCBs /\ pc[Current] = "out" /\ Owner[l] = Current /\ EntrantCount[l] = 1
  /\ EntrantCount' = [EntrantCount EXCEPT ![l] = @ - 1]
  /\ held' = [held EXCEPT ![Current][l] = @ - 1]
  /\ Locked' = [Locked EXCEPT ![l] = FALSE]
  /\ Owner' = [Owner EXCEPT ![l] = NULL]
  /\ WakeFirst(l)

LEMMA FreeingKeepsRecord ==
  ASSUME IInv, NEW l \in Locks, Frees(l)
  PROVE  /\ RecordInv' /\ CallInv'
         /\ Locked' \in [Locks -> BOOLEAN] /\ Owner' \in [Locks -> PCBs \cup {NULL}]
         /\ EntrantCount' \in [Locks -> 0 .. MaxDepth]
         /\ held' \in [PCBs -> [Locks -> 0 .. MaxDepth]]
<1>1. /\ UNCHANGED <<Current, pc, wanted>>
      /\ Current \in PCBs /\ Current # NULL /\ pc[Current] = "out"
      /\ held[Current][l] = 1 /\ EntrantCount[l] = 1
      /\ \A p \in PCBs : p # Current => held[p][l] = 0
  BY PCBAssumption DEF Frees, IInv, RecordInv, RecordAgreesWithCallers
<1>2. /\ EntrantCount' \in [Locks -> 0 .. MaxDepth]
      /\ \A k \in Locks : EntrantCount'[k] = IF k = l THEN 0 ELSE EntrantCount[k]
  BY <1>1, LocksAssumption DEF Frees, IInv, TypeOK
<1>3. /\ held' \in [PCBs -> [Locks -> 0 .. MaxDepth]]
      /\ \A p \in PCBs, k \in Locks :
           held'[p][k] = IF p = Current /\ k = l THEN 0 ELSE held[p][k]
  BY <1>1, LocksAssumption DEF Frees, IInv, TypeOK
<1>4. /\ Locked' \in [Locks -> BOOLEAN] /\ Owner' \in [Locks -> PCBs \cup {NULL}]
      /\ \A k \in Locks : /\ Locked'[k] = IF k = l THEN FALSE ELSE Locked[k]
                          /\ Owner'[k] = IF k = l THEN NULL ELSE Owner[k]
  BY DEF Frees, IInv, TypeOK
<1>5. RecordInv'
  <2>1. \A k \in Locks : Locked'[k] <=> Owner'[k] # NULL
    BY <1>4 DEF IInv, RecordInv, RecordAgreesWithCallers
  <2>2. \A k \in Locks : Locked'[k] => EntrantCount'[k] > 0
    BY <1>2, <1>4 DEF IInv, RecordInv
  <2>3. ASSUME NEW k \in Locks, NEW p \in PCBs
        PROVE  held'[p][k] = IF Owner'[k] = p THEN EntrantCount'[k] ELSE 0
    <3>1. CASE k = l
      BY <1>1, <1>3, <1>4, <3>1, PCBAssumption
    <3>2. CASE k # l
      <4>1. held'[p][k] = held[p][k] /\ Owner'[k] = Owner[k]
            /\ EntrantCount'[k] = EntrantCount[k]
        BY <1>2, <1>3, <1>4, <3>2
      <4>2. held[p][k] = IF Owner[k] = p THEN EntrantCount[k] ELSE 0
        BY DEF IInv, RecordInv, RecordAgreesWithCallers
      <4> QED
        BY <4>1, <4>2
    <3> QED
      BY <3>1, <3>2
  <2> QED
    BY <2>1, <2>2, <2>3 DEF RecordInv, RecordAgreesWithCallers
<1>6. CallInv'
  <2> SUFFICES ASSUME NEW p \in PCBs
               PROVE  /\ pc'[p] = "out" <=> wanted'[p] = NoLock
                      /\ pc'[p] = "take" => p = Current' /\ ~Locked'[wanted'[p]]
                      /\ \A k \in Locks : held'[p][k] > 0 /\ pc'[p] # "out" => k < wanted'[p]
    BY DEF CallInv
  <2>1. pc[p] # "out" => wanted[p] \in Locks
    BY DEF IInv, CallInv, TypeOK
  <2> QED
    BY <1>1, <1>3, <1>4, <2>1 DEF IInv, CallInv
<1> QED
  BY <1>2, <1>3, <1>4, <1>5, <1>6

\* The last Unlock() when nobody waits.
LEMMA UnlockNobodyKeeps ==
  ASSUME IInv, NEW l \in Locks, Frees(l), WaitQueue[l] = <<>>
  PROVE  IInv'
<1>1. UNCHANGED <<schedVars, WaitQueue, pc, wanted>>
  BY DEF Frees, WakeFirst, schedVars, pcbVars
<1>2. TypeOK'
  <2>1. SchedulerTypeOK'
    BY <1>1 DEF IInv, TypeOK, SchedulerTypeOK, schedVars
  <2> QED
    BY <1>1, <2>1, FreeingKeepsRecord DEF IInv, TypeOK
<1>3. SchedInv' /\ PlaceInv'
  BY <1>1 DEF IInv, SchedInv, PlaceInv, Waits, schedVars
<1>4. WakeInv'
  <2>1. \A k \in Locks : k # l => Locked'[k] = Locked[k]
    BY DEF Frees, IInv, TypeOK
  <2> QED
    BY <1>1, <2>1 DEF IInv, WakeInv, schedVars
<1> QED
  BY <1>2, <1>3, <1>4, FreeingKeepsRecord DEF IInv

\* The last Unlock() when somebody waits: the first waiter becomes ready.
LEMMA UnlockSomebodyKeeps ==
  ASSUME IInv, NEW l \in Locks, Frees(l), WaitQueue[l] # <<>>
  PROVE  IInv'
<1> DEFINE w == WaitQueue[l]
           h == Head(w)
<1>1. /\ w \in Seq(PCBs) /\ w # <<>>
      /\ WaitQueue' = [WaitQueue EXCEPT ![l] = Tail(@)]
      /\ Status' = [Status EXCEPT ![h] = "RUNNABLE"]
  BY DEF Frees, WakeFirst, IInv, TypeOK
<1>2. /\ Len(w) \in Nat /\ Len(w) > 0 /\ DOMAIN w = 1 .. Len(w)
      /\ h = w[1] /\ h \in PCBs
      /\ Tail(w) \in Seq(PCBs) /\ DOMAIN Tail(w) = 1 .. Len(w) - 1
      /\ \A i \in 1 .. Len(w) - 1 : Tail(w)[i] = w[i + 1]
  <2> HIDE DEF w
  <2> QED
    BY <1>1
<1>3. \A i, j \in 1 .. Len(w) : w[i] = w[j] => i = j
  BY <1>2 DEF IInv, PlaceInv
<1>4. /\ WaitQueue' \in [Locks -> Seq(PCBs)] /\ WaitQueue'[l] = Tail(w)
      /\ \A k \in Locks : k # l => WaitQueue'[k] = WaitQueue[k]
  BY <1>1, <1>2 DEF IInv, TypeOK
<1>5. Waits(h, l)
  BY <1>2 DEF Waits
<1>6. /\ Status[h] = "BLOCKED" /\ h # Current /\ ~Holds(ready, h)
      /\ wanted[h] = l /\ pc[h] = "test"
      /\ \A k \in Locks : Waits(h, k) => k = l
  BY <1>2, <1>5 DEF IInv, PlaceInv
<1> HIDE DEF h
<1>7. \A x \in PCBs, k \in Locks : Waits(x, k)' <=> Waits(x, k) /\ x # h
  <2>1. ASSUME NEW x \in PCBs, NEW k \in Locks, k # l
        PROVE  Waits(x, k)' <=> Waits(x, k) /\ x # h
    <3>1. Waits(x, k)' <=> Waits(x, k)
      BY <1>4, <2>1 DEF Waits
    <3> QED
      BY <1>6, <2>1, <3>1
  <2>2. ASSUME NEW x \in PCBs
        PROVE  Waits(x, l)' <=> Waits(x, l) /\ x # h
    <3>1. Waits(x, l)' <=> \E i \in 1 .. Len(w) - 1 : w[i + 1] = x
      BY <1>2, <1>4 DEF Waits
    <3>2. Waits(x, l) <=> \E i \in 1 .. Len(w) : w[i] = x
      BY <1>2 DEF Waits
    <3> HIDE DEF w
    <3>3. ASSUME NEW i \in 1 .. Len(w) - 1, w[i + 1] = x
          PROVE  i + 1 \in 1 .. Len(w) /\ x # h
      BY <1>2, <1>3, <3>3
    <3>4. ASSUME NEW i \in 1 .. Len(w), w[i] = x, x # h
          PROVE  i - 1 \in 1 .. Len(w) - 1 /\ w[(i - 1) + 1] = x
      BY <1>2, <3>4
    <3> QED
      BY <3>1, <3>2, <3>3, <3>4
  <2> QED
    BY <2>1, <2>2
<1>8. /\ QueueOf(PCBs, ready) /\ Distinct(ready) /\ panic = "none"
  BY DEF IInv, SchedInv
<1>9. ~IsFull(ready)
  BY <1>2, <1>6, <1>8, PCBAssumption, ProcessesFit, RoomForOneMore DEF IInv
<1>10. ready' = Push(ready, h) /\ panic' = "none"
  BY <1>1, <1>8, <1>9 DEF Frees, WakeFirst, h
<1>11. /\ QueueOf(PCBs, ready') /\ Distinct(ready')
       /\ \A x \in PCBs : Holds(ready', x) <=> x = h \/ Holds(ready, x)
  BY <1>2, <1>6, <1>8, <1>9, <1>10, PCBAssumption, PushQueueOf, PushContents
<1>12. \A x \in PCBs : Status'[x] = IF x = h THEN "RUNNABLE" ELSE Status[x]
  BY <1>1, <1>2 DEF IInv, TypeOK, SchedulerTypeOK
<1>13. UNCHANGED <<pcbVars, Current, ZombieProcesses, cr3, esp0, pc, wanted>>
  BY DEF Frees
<1>14. TypeOK'
  <2>1. Status' \in [PCBs -> States] /\ ready' \in QueueType
    BY <1>1, <1>2, <1>11 DEF IInv, TypeOK, SchedulerTypeOK, States, QueueOf, QueueType
  <2>2. SchedulerTypeOK'
    BY <1>10, <1>13, <2>1 DEF IInv, TypeOK, SchedulerTypeOK, pcbVars
  <2> QED
    BY <1>4, <1>13, <2>2, FreeingKeepsRecord DEF IInv, TypeOK
<1>15. SchedInv'
  BY <1>10, <1>11, <1>12, <1>13 DEF IInv, SchedInv, pcbVars
<1>16. PlaceInv'
  <2>1. \A x \in PCBs :
          /\ Status'[x] = "BLOCKED" <=> Status[x] = "BLOCKED" /\ x # h
          /\ Status'[x] = "BLOCKED" <=> x # Current' /\ ~Holds(ready', x)
          /\ x = Current' => ~Holds(ready', x)
    BY <1>6, <1>11, <1>12, <1>13 DEF IInv, PlaceInv
  <2>2. \A x \in PCBs : Status'[x] = "BLOCKED" <=> \E k \in Locks : Waits(x, k)'
    BY <1>7, <2>1 DEF IInv, PlaceInv
  <2>3. \A x \in PCBs, k \in Locks : Waits(x, k)' => wanted'[x] = k /\ pc'[x] = "test"
    BY <1>7, <1>13 DEF IInv, PlaceInv
  <2>4. ASSUME NEW k \in Locks, NEW i \in DOMAIN WaitQueue'[k], NEW j \in DOMAIN WaitQueue'[k],
               WaitQueue'[k][i] = WaitQueue'[k][j]
        PROVE  i = j
    <3>1. CASE k # l
      BY <1>4, <2>4, <3>1 DEF IInv, PlaceInv
    <3>2. CASE k = l
      <4>1. i \in 1 .. Len(w) - 1 /\ j \in 1 .. Len(w) - 1 /\ w[i + 1] = w[j + 1]
        BY <1>2, <1>4, <2>4, <3>2
      <4> HIDE DEF w
      <4> QED
        BY <1>2, <1>3, <4>1
    <3> QED
      BY <3>1, <3>2
  <2> QED
    BY <2>1, <2>2, <2>3, <2>4 DEF PlaceInv
<1>17. WakeInv'
  <2> SUFFICES ASSUME NEW k \in Locks, WaitQueue'[k] # <<>>, ~Locked'[k]
               PROVE  \E p \in PCBs : wanted'[p] = k /\ Status'[p] # "BLOCKED"
    BY DEF WakeInv
  <2>1. CASE k = l
    BY <1>2, <1>6, <1>12, <1>13, <2>1
  <2>2. CASE k # l
    <3>1. WaitQueue[k] # <<>> /\ ~Locked[k]
      BY <1>4, <2>2 DEF Frees, IInv, TypeOK
    <3>2. PICK p \in PCBs : wanted[p] = k /\ Status[p] # "BLOCKED"
      BY <3>1 DEF IInv, WakeInv
    <3> QED
      BY <1>12, <1>13, <3>2
  <2> QED
    BY <2>1, <2>2
<1> QED
  BY <1>14, <1>15, <1>16, <1>17, FreeingKeepsRecord DEF IInv

LEMMA UnlockKeeps ==
  ASSUME IInv, NEW l \in Locks, Unlock(l)
  PROVE  IInv'
<1>1. Current \in PCBs /\ held[Current][l] > 0 /\ pc[Current] = "out"
  BY CurrentAt DEF Unlock
<1>2. Owner[l] = Current
  BY <1>1 DEF IInv, RecordInv, RecordAgreesWithCallers
<1>3. EntrantCount[l] = 1 => Frees(l)
  BY <1>1, <1>2 DEF Unlock, Frees
<1> QED
  BY <1>3, InnerUnlockKeeps, UnlockNobodyKeeps, UnlockSomebodyKeeps

LEMMA NextIInv == ~Preemptible /\ IInv /\ [Next]_vars => IInv'
<1> SUFFICES ASSUME ~Preemptible, IInv, [Next]_vars PROVE IInv'
  OBVIOUS
<1>1. CASE UNCHANGED vars
  <2>1. TypeOK'
    BY <1>1 DEF IInv, TypeOK, SchedulerTypeOK, vars, schedVars, lockVars
  <2> QED
    BY <1>1, <2>1 DEF IInv, SchedInv, RecordInv, RecordAgreesWithCallers, CallInv, PlaceInv,
                      WakeInv, Waits, vars, schedVars, lockVars
<1> QED
  BY <1>1, LockAgainKeeps, LockCallKeeps, LockWaitKeeps, LockFreeKeeps, LockTakeKeeps,
     UnlockKeeps, TickKeeps DEF Next

LEMMA Invariance == ASSUME ~Preemptible PROVE Spec => []IInv
<1>1. IInv /\ [Next]_vars => IInv'
  BY NextIInv
<1> QED
  BY <1>1, InitIInv, PTL DEF Spec

-----------------------------------------------------------------------------
(***************************************************************************)
(* disk.c:33 calls the lock a mutex, and it is one for callers that run    *)
(* with interrupts off: of two processes one at most is between Lock()     *)
(* and Unlock().                                                           *)
(***************************************************************************)
THEOREM LocksExclude == ASSUME ~Preemptible PROVE Spec => []MutualExclusion
<1>1. IInv => MutualExclusion
  <2> SUFFICES ASSUME IInv, NEW l \in Locks, NEW p \in PCBs, NEW q \in PCBs,
                      held[p][l] > 0, held[q][l] > 0
               PROVE  p = q
    BY DEF MutualExclusion
  <2>1. \A x \in PCBs : held[x][l] = IF Owner[l] = x THEN EntrantCount[l] ELSE 0
    BY DEF IInv, RecordInv, RecordAgreesWithCallers
  <2> QED
    BY <2>1
<1> QED
  BY <1>1, Invariance, PTL

(***************************************************************************)
(* Locked, Owner and EntrantCount say who is inside and how deep: the      *)
(* assertion of Unlock() holds whenever it is evaluated.                   *)
(***************************************************************************)
THEOREM RecordAgrees == ASSUME ~Preemptible PROVE Spec => []RecordAgreesWithCallers
<1>1. IInv => RecordAgreesWithCallers
  BY DEF IInv, RecordInv
<1> QED
  BY <1>1, Invariance, PTL

(***************************************************************************)
(* A process is in the queue its Status says, and in no other, although    *)
(* the locks move processes between queues behind the scheduler's back.    *)
(***************************************************************************)
THEOREM QueuesAgree == ASSUME ~Preemptible PROVE Spec => []BlockedWhereItWaits
<1>1. IInv => BlockedWhereItWaits
  <2> SUFFICES ASSUME IInv PROVE BlockedWhereItWaits
    OBVIOUS
  <2>1. \A p \in PCBs : p \in Queued(ready) <=> Holds(ready, p)
    BY PCBAssumption, QueuedHolds DEF IInv, SchedInv
  <2> QED
    BY <2>1 DEF IInv, PlaceInv, BlockedWhereItWaits
<1> QED
  BY <1>1, Invariance, PTL

(***************************************************************************)
(* No wake-up is lost, although Unlock() does not keep the lock for the    *)
(* waiter it wakes.                                                        *)
(***************************************************************************)
THEOREM WaitersAreWoken == ASSUME ~Preemptible PROVE Spec => []NoStrandedWaiter
<1>1. IInv => NoStrandedWaiter
  BY DEF IInv, WakeInv, NoStrandedWaiter
<1> QED
  BY <1>1, Invariance, PTL

(***************************************************************************)
(* The locks never stop the kernel: whatever the processes lock, some      *)
(* process can run, because they nest locks in one order, and no queue     *)
(* overflows.                                                              *)
(***************************************************************************)
THEOREM NoDeadlock == ASSUME ~Preemptible PROVE Spec => []KernelKeepsRunning
<1>1. IInv => KernelKeepsRunning
  BY DEF IInv, SchedInv, KernelKeepsRunning
<1> QED
  BY <1>1, Invariance, PTL

=============================================================================
