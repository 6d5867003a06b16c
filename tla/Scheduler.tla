----------------------------- MODULE Scheduler -----------------------------
(***************************************************************************)
(* The round-robin scheduler of process/process.c: the current process,    *)
(* the ready queue, the table of zombies, and Schedule(), which every      *)
(* handler that gives up the processor ends with.                          *)
(*                                                                         *)
(* Handlers run with interrupts off, so a handler is one step.  Most of    *)
(* them change the ready queue or a Status before they call Schedule();    *)
(* Schedule therefore takes the queue and the statuses as its caller left  *)
(* them, and reads RootPPN and KernelStack, which it never writes, primed. *)
(***************************************************************************)
EXTENDS RingQueue

CONSTANTS
  PCBs,             \* the process control blocks the heap can hand out
  KernelPages       \* kernel frames left for processes after boot, about 750

ASSUME PCBAssumption == NULL \notin PCBs

ASSUME KernelPagesAssumption == KernelPages \in Nat

Pages == 1 .. KernelPages

VARIABLES
  Current,          \* processManager.Current
  ready,            \* RunnableProcesses, Front and Rear
  ZombieProcesses,  \* the table of processes that exited and are not reaped
  Status,           \* PCB.Status; "FREE" when the heap holds the block
  ID,               \* PCB.ID
  KernelStack,      \* the frame PCB.KernelStackPointer points into
  RootPPN,          \* PCB.RootPPN
  cr3,              \* the root page table the processor uses
  esp0,             \* the kernel stack the TSS names
  panic             \* why the kernel stopped, "none" while it runs

schedVars == <<Current, ready, ZombieProcesses, Status, ID, KernelStack,
               RootPPN, cr3, esp0, panic>>

Running == panic = "none"

\* Panic prints its message and halts the processor for good.
Panic(why) == panic' = why

\* Mutant: the zombie always goes to the first slot.
AnySlotIsFree(i) == i = 0

(***************************************************************************)
(* AddProcessToZombie fills the first slot that is NULL.                   *)
(***************************************************************************)
FirstFreeSlot(i) ==
  /\ ZombieProcesses[i] = NULL
  /\ \A j \in 0 .. i - 1 : ZombieProcesses[j] # NULL

\* A process with ID 0 is the idle process, which is never queued again.
Requeues(st) == ID[Current] # 0 /\ st[Current] \notin {"BLOCKED", "ZOMBIE"}
Buries(st) == ID[Current] # 0 /\ st[Current] = "ZOMBIE"

\* Mutant: the page table is switched for the first process only.
RootNotSwitched(next) == IF Current = NULL THEN RootPPN'[next] ELSE cr3

\* The CR3 register after a switch to next: runFirstProcess always loads it.
SwitchedRoot(next) ==
  IF Current = NULL \/ RootPPN'[next] # RootPPN'[Current]
  THEN RootPPN'[next]
  ELSE cr3

(***************************************************************************)
(* The part of Schedule() after the current process has been put away, and *)
(* all of runFirstProcess(): take the head of the queue and switch to it.  *)
(***************************************************************************)
Dispatch(q, st) ==
  \/ /\ IsEmpty(q)
     /\ Panic("Queue is empty")
     /\ ready' = q
     /\ Status' = st
     /\ UNCHANGED <<Current, cr3, esp0>>
  \/ /\ ~IsEmpty(q)
     /\ ready' = Fetch(q)
     /\ Status' = [st EXCEPT ![FrontOf(q)] = "RUNNING"]
     /\ Current' = FrontOf(q)
     /\ esp0' = KernelStack'[FrontOf(q)]
     /\ cr3' = SwitchedRoot(FrontOf(q))
     /\ UNCHANGED panic

\* The current process goes to the back of the queue.
RequeueThenDispatch(q, st) ==
  LET st2 == [st EXCEPT ![Current] = "RUNNABLE"]
  IN  /\ UNCHANGED ZombieProcesses
      /\ \/ /\ IsFull(q)
            /\ Panic("Queue is full")
            /\ ready' = q
            /\ Status' = st2
            /\ UNCHANGED <<Current, cr3, esp0>>
         \/ /\ ~IsFull(q)
            /\ Dispatch(Push(q, Current), st2)

\* Mutant: the block of a process that exits is freed at once.
FreeThenDispatch(q, st) ==
  UNCHANGED ZombieProcesses /\ Dispatch(q, [st EXCEPT ![Current] = "FREE"])

\* The current process goes to the table of zombies.
BuryThenDispatch(q, st) ==
  \/ /\ \A i \in Indices : ZombieProcesses[i] # NULL
     /\ Panic("The zombie process queue is full")
     /\ ready' = q
     /\ Status' = st
     /\ UNCHANGED <<Current, ZombieProcesses, cr3, esp0>>
  \/ \E i \in Indices :
        /\ FirstFreeSlot(i)
        /\ ZombieProcesses' = [ZombieProcesses EXCEPT ![i] = Current]
        /\ Dispatch(q, st)

(***************************************************************************)
(* Schedule().  Before the first process exists it returns at once.        *)
(***************************************************************************)
Schedule(q, st) ==
  \/ /\ Current = NULL /\ IsEmpty(q)
     /\ ready' = q
     /\ Status' = st
     /\ UNCHANGED <<Current, ZombieProcesses, cr3, esp0, panic>>
  \/ /\ Current = NULL /\ ~IsEmpty(q)
     /\ UNCHANGED ZombieProcesses
     /\ Dispatch(q, st)
  \/ /\ Current # NULL /\ Requeues(st)
     /\ RequeueThenDispatch(q, st)
  \/ /\ Current # NULL /\ Buries(st)
     /\ BuryThenDispatch(q, st)
  \/ /\ Current # NULL /\ ~Requeues(st) /\ ~Buries(st)
     /\ UNCHANGED ZombieProcesses
     /\ Dispatch(q, st)

-----------------------------------------------------------------------------
States == {"FREE", "RUNNABLE", "RUNNING", "BLOCKED", "ZOMBIE"}

PanicMessages ==
  {"Queue is empty", "Queue is full", "The zombie process queue is full",
   "No free memory", "Assertion failed"}

QueueType == [Slots : [Indices -> PCBs \cup {NULL}],
              Front : Indices, Rear : Indices]

SchedulerTypeOK ==
  /\ Current \in PCBs \cup {NULL}
  /\ ready \in QueueType
  /\ ZombieProcesses \in [Indices -> PCBs \cup {NULL}]
  /\ Status \in [PCBs -> States]
  /\ ID \in [PCBs -> Indices]
  /\ KernelStack \in [PCBs -> Pages \cup {0}]
  /\ RootPPN \in [PCBs -> Pages \cup {0}]
  /\ cr3 \in Pages \cup {0}
  /\ esp0 \in Pages \cup {0}
  /\ panic \in PanicMessages \cup {"none"}
=============================================================================
