--------------------------- MODULE ReentrantLock ---------------------------
(***************************************************************************)
(* The reentrant locks of ds/lock.c on top of the scheduler: processes     *)
(* that lock and unlock while the clock switches between them.             *)
(*                                                                         *)
(* The kernel has one lock per IDE controller, taken around each transfer  *)
(* of disk.c, and one for the file system, under which fs.c reads and      *)
(* writes the disk.  Locks are numbered in the order in which the code     *)
(* nests them.  A system call runs with interrupts off, so a process can   *)
(* only lose the processor in Lock() where Lock() calls Schedule(); with   *)
(* Preemptible the caller is a kernel process that runs with interrupts on *)
(* (CreateKernelProcess), and the clock can come between any two steps.    *)
(*                                                                         *)
(* At boot there is no current process and Lock() and Unlock() return at   *)
(* once, so nothing but the clock does anything before the first switch.   *)
(* A WaitQueue is the ring of ds/queue.c, here the sequence of what it     *)
(* holds: like the ready queue it is full with one slot to spare.          *)
(***************************************************************************)
EXTENDS Scheduler, Sequences

CONSTANTS
  Locks,            \* the locks, numbered in the order they are nested
  MaxDepth,         \* bound: how often a process enters a lock it holds
  Preemptible       \* whether the callers of Lock() run with interrupts on

ASSUME LocksAssumption ==
  Locks \subseteq Nat /\ MaxDepth \in Nat \ {0} /\ Preemptible \in BOOLEAN

NoLock == -1

VARIABLES
  Locked,           \* Locked[l]
  Owner,            \* Owner[l], a process or NULL
  EntrantCount,     \* EntrantCount[l]
  WaitQueue,        \* WaitQueue[l], the processes blocked on l
  pc,               \* where in Lock() a process is: out, test or take
  wanted,           \* the lock whose Lock() a process is in
  held              \* held[p][l]: calls of Lock(l) less calls of Unlock(l)

lockVars == <<Locked, Owner, EntrantCount, WaitQueue, pc, wanted, held>>
vars == <<schedVars, lockVars>>

\* What scheduling a process that does not exit leaves alone.
pcbVars == <<ID, KernelStack, RootPPN>>

Init ==
  /\ Current = NULL
  /\ ready \in {q \in QueueType :
                  /\ \A i \in Indices : q.Slots[i] # NULL <=> InRegion(q, i)
                  /\ q.Front = Succ(0) /\ Queued(q) = PCBs
                  /\ \A i, j \in Indices :
                       q.Slots[i] = q.Slots[j] /\ q.Slots[i] # NULL => i = j}
  /\ ZombieProcesses = [i \in Indices |-> NULL]
  /\ Status = [p \in PCBs |-> "RUNNABLE"]
  /\ ID \in {f \in [PCBs -> Indices \ {0}] :
               \A p, q \in PCBs : f[p] = f[q] => p = q}
  /\ KernelStack = [p \in PCBs |-> 0]
  /\ RootPPN = [p \in PCBs |-> 0]
  /\ cr3 = 0
  /\ esp0 = 0
  /\ panic = "none"
  /\ Locked = [l \in Locks |-> FALSE]
  /\ Owner = [l \in Locks |-> NULL]
  /\ EntrantCount = [l \in Locks |-> 0]
  /\ WaitQueue = [l \in Locks |-> <<>>]
  /\ pc = [p \in PCBs |-> "out"]
  /\ wanted = [p \in PCBs |-> NoLock]
  /\ held = [p \in PCBs |-> [l \in Locks |-> 0]]

At(label) == Running /\ Current # NULL /\ pc[Current] = label

-----------------------------------------------------------------------------
(***************************************************************************)
(* A caller takes a lock it holds again, or one that comes later in the    *)
(* order than all it holds.                                                *)
(***************************************************************************)
MayEnter(p, l) ==
  /\ held[p][l] < MaxDepth
  /\ held[p][l] > 0 \/ \A k \in Locks : held[p][k] > 0 => k < l

\* The owner enters once more.
LockAgain(l) ==
  /\ At("out") /\ MayEnter(Current, l)
  /\ Owner[l] = Current
  /\ EntrantCount' = [EntrantCount EXCEPT ![l] = @ + 1]
  /\ held' = [held EXCEPT ![Current][l] = @ + 1]
  /\ UNCHANGED <<schedVars, Locked, Owner, WaitQueue, pc, wanted>>

\* Another process calls Lock(), up to the test of its loop.
LockCall(l) ==
  /\ At("out") /\ MayEnter(Current, l)
  /\ Owner[l] # Current
  /\ pc' = [pc EXCEPT ![Current] = "test"]
  /\ wanted' = [wanted EXCEPT ![Current] = l]
  /\ UNCHANGED <<schedVars, Locked, Owner, EntrantCount, WaitQueue, held>>

\* Mutant: the process waits in the ready queue, without being blocked.
WaitRunnable(l) ==
  /\ At("test") /\ wanted[Current] = l /\ Locked[l]
  /\ WaitQueue' = [WaitQueue EXCEPT ![l] = Append(@, Current)]
  /\ UNCHANGED <<pcbVars, Locked, Owner, EntrantCount, pc, wanted, held>>
  /\ Schedule(ready, Status)

\* Mutant: the process that blocks is not put in the queue of waiters.
BlockUnqueued(l) ==
  /\ At("test") /\ wanted[Current] = l /\ Locked[l]
  /\ UNCHANGED <<pcbVars, Locked, Owner, EntrantCount, WaitQueue, pc, wanted, held>>
  /\ Schedule(ready, [Status EXCEPT ![Current] = "BLOCKED"])

\* Mutant: if instead of while, a woken process does not test again.
WaitOnce(l) ==
  /\ At("test") /\ wanted[Current] = l /\ Locked[l]
  /\ WaitQueue' = [WaitQueue EXCEPT ![l] = Append(@, Current)]
  /\ pc' = [pc EXCEPT ![Current] = "take"]
  /\ UNCHANGED <<pcbVars, Locked, Owner, EntrantCount, wanted, held>>
  /\ Schedule(ready, [Status EXCEPT ![Current] = "BLOCKED"])

\* The body of the loop: wait in the queue, blocked, then test again.
LockWait(l) ==
  /\ At("test") /\ wanted[Current] = l /\ Locked[l]
  /\ UNCHANGED <<pcbVars, Locked, Owner, EntrantCount, pc, wanted, held>>
  /\ IF Len(WaitQueue[l]) = MAX_PROCESS_COUNT - 1
     THEN /\ Panic("Queue is full")
          /\ UNCHANGED <<Current, ready, ZombieProcesses, Status, cr3, esp0, WaitQueue>>
     ELSE /\ WaitQueue' = [WaitQueue EXCEPT ![l] = Append(@, Current)]
          /\ Schedule(ready, [Status EXCEPT ![Current] = "BLOCKED"])

\* The test of the loop finds the lock free.
LockFree(l) ==
  /\ At("test") /\ wanted[Current] = l /\ ~Locked[l]
  /\ pc' = [pc EXCEPT ![Current] = "take"]
  /\ UNCHANGED <<schedVars, Locked, Owner, EntrantCount, WaitQueue, wanted, held>>

\* Mutant: the count is not reset for a new owner.
TakeWithoutCount(l) ==
  /\ At("take") /\ wanted[Current] = l
  /\ Locked' = [Locked EXCEPT ![l] = TRUE]
  /\ Owner' = [Owner EXCEPT ![l] = Current]
  /\ pc' = [pc EXCEPT ![Current] = "out"]
  /\ wanted' = [wanted EXCEPT ![Current] = NoLock]
  /\ held' = [held EXCEPT ![Current][l] = 1]
  /\ UNCHANGED <<schedVars, EntrantCount, WaitQueue>>

\* The three assignments after the loop.
LockTake(l) ==
  /\ At("take") /\ wanted[Current] = l
  /\ Locked' = [Locked EXCEPT ![l] = TRUE]
  /\ Owner' = [Owner EXCEPT ![l] = Current]
  /\ EntrantCount' = [EntrantCount EXCEPT ![l] = 1]
  /\ pc' = [pc EXCEPT ![Current] = "out"]
  /\ wanted' = [wanted EXCEPT ![Current] = NoLock]
  /\ held' = [held EXCEPT ![Current][l] = 1]
  /\ UNCHANGED <<schedVars, WaitQueue>>

-----------------------------------------------------------------------------
\* Mutant: nobody is woken.
WakeNobody(l) == UNCHANGED <<WaitQueue, Status, ready, panic>>

\* The first waiter, if there is one, goes to the ready queue.
WakeFirst(l) ==
  IF WaitQueue[l] = <<>>
  THEN UNCHANGED <<WaitQueue, Status, ready, panic>>
  ELSE /\ WaitQueue' = [WaitQueue EXCEPT ![l] = Tail(@)]
       /\ Status' = [Status EXCEPT ![Head(WaitQueue[l])] = "RUNNABLE"]
       /\ IF IsFull(ready)
          THEN Panic("Queue is full") /\ UNCHANGED ready
          ELSE ready' = Push(ready, Head(WaitQueue[l])) /\ UNCHANGED panic

Unlock(l) ==
  /\ At("out") /\ held[Current][l] > 0
  /\ UNCHANGED <<Current, ZombieProcesses, pcbVars, cr3, esp0, pc, wanted>>
  /\ \/ /\ Owner[l] # Current
        /\ Panic("Assertion failed")
        /\ UNCHANGED <<ready, Status, Locked, Owner, EntrantCount, WaitQueue, held>>
     \/ /\ Owner[l] = Current
        /\ EntrantCount' = [EntrantCount EXCEPT ![l] = @ - 1]
        /\ held' = [held EXCEPT ![Current][l] = @ - 1]
        /\ IF EntrantCount[l] = 1
           THEN /\ Locked' = [Locked EXCEPT ![l] = FALSE]
                /\ Owner' = [Owner EXCEPT ![l] = NULL]
                /\ WakeFirst(l)
           ELSE UNCHANGED <<ready, Status, Locked, Owner, WaitQueue, panic>>

\* The clock interrupts user code, and Lock() only with interrupts on.
Tick ==
  /\ Running
  /\ Current = NULL \/ At("out") \/ Preemptible
  /\ UNCHANGED <<pcbVars, lockVars>>
  /\ Schedule(ready, Status)

Next ==
  \/ \E l \in Locks : LockAgain(l)
  \/ \E l \in Locks : LockCall(l)
  \/ \E l \in Locks : LockWait(l)
  \/ \E l \in Locks : LockFree(l)
  \/ \E l \in Locks : LockTake(l)
  \/ \E l \in Locks : Unlock(l)
  \/ Tick

Spec == Init /\ [][Next]_vars

(***************************************************************************)
(* The clock goes on, and so does a process inside Lock().  A critical     *)
(* section is a few transfers long: a process that is given the processor  *)
(* again and again reaches its Unlock().                                   *)
(***************************************************************************)
Fairness ==
  /\ WF_vars(Tick)
  /\ \A l \in Locks :
       /\ WF_vars(LockWait(l)) /\ WF_vars(LockFree(l)) /\ WF_vars(LockTake(l))
       /\ \A p \in PCBs : SF_vars(Current = p /\ Unlock(l))

FairSpec == Spec /\ Fairness
-----------------------------------------------------------------------------
(***************************************************************************)
(* Every variable holds a value of its C type.                             *)
(***************************************************************************)
TypeOK ==
  /\ SchedulerTypeOK
  /\ Locked \in [Locks -> BOOLEAN]
  /\ Owner \in [Locks -> PCBs \cup {NULL}]
  /\ EntrantCount \in [Locks -> 0 .. MaxDepth]
  /\ WaitQueue \in [Locks -> Seq(PCBs)]
  /\ pc \in [PCBs -> {"out", "test", "take"}]
  /\ wanted \in [PCBs -> Locks \cup {NoLock}]
  /\ held \in [PCBs -> [Locks -> 0 .. MaxDepth]]

(***************************************************************************)
(* disk.c:33 and disk/type.h:60 call the lock a mutex: of two processes,   *)
(* one at most is between Lock() and Unlock().                             *)
(***************************************************************************)
MutualExclusion ==
  \A l \in Locks, p, q \in PCBs : held[p][l] > 0 /\ held[q][l] > 0 => p = q

(***************************************************************************)
(* The lock's record agrees with what its callers did: Locked, Owner and   *)
(* EntrantCount say who is inside and how deep, also after the lock went   *)
(* to a process that had to wait for it.  So the assertion of Unlock()     *)
(* never fails and the last Unlock() is the one that frees the lock.       *)
(***************************************************************************)
RecordAgreesWithCallers ==
  \A l \in Locks :
    /\ Locked[l] <=> Owner[l] # NULL
    /\ \A p \in PCBs :
         held[p][l] = IF Owner[l] = p THEN EntrantCount[l] ELSE 0

Waits(p, l) == \E k \in DOMAIN WaitQueue[l] : WaitQueue[l][k] = p

(***************************************************************************)
(* A process is in one queue at a time, and in the queue its Status says:  *)
(* blocked with the waiters of the lock it wants, or ready, or running.    *)
(* The lock moves processes between queues behind the scheduler's back.    *)
(***************************************************************************)
BlockedWhereItWaits ==
  Running =>
    \A p \in PCBs :
      /\ Status[p] = "BLOCKED" <=> \E l \in Locks : Waits(p, l)
      /\ Status[p] = "BLOCKED" <=> p # Current /\ p \notin Queued(ready)
      /\ p = Current => p \notin Queued(ready)
      /\ \A l \in Locks : Waits(p, l) => wanted[p] = l /\ pc[p] = "test"
      /\ \A l \in Locks : \A i, j \in DOMAIN WaitQueue[l] :
           WaitQueue[l][i] = WaitQueue[l][j] => i = j

(***************************************************************************)
(* No wake-up is lost: while a process waits for a lock, the lock is held, *)
(* or somebody awake is on his way into it, and will wake the next when he *)
(* leaves.  Unlock() wakes one waiter and does not keep the lock for it.   *)
(***************************************************************************)
NoStrandedWaiter ==
  Running =>
    \A l \in Locks :
      WaitQueue[l] = <<>> \/ Locked[l]
        \/ \E p \in PCBs : wanted[p] = l /\ Status[p] # "BLOCKED"

(***************************************************************************)
(* The locks never stop the kernel: they never leave the scheduler without *)
(* a process to run, because all wait for each other, nor overflow a queue.*)
(***************************************************************************)
KernelKeepsRunning == panic = "none"

(***************************************************************************)
(* Who waits for a lock is woken some time.                                *)
(***************************************************************************)
EveryWaiterIsWoken ==
  \A l \in Locks, p \in PCBs : Waits(p, l) ~> ~Waits(p, l)
=============================================================================
