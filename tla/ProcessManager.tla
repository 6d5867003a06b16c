--------------------------- MODULE ProcessManager ---------------------------
(***************************************************************************)
(* The life of a process: process/create.c on top of the scheduler, with   *)
(* the PID bitmap of process/process.c and the kernel frames each process  *)
(* is given.  The actions are the system calls fork, exit, waitpid and     *)
(* yield, the clock interrupt, and CreateUserProcess at boot.              *)
(*                                                                         *)
(* System calls and interrupts enter the kernel with interrupts off, so    *)
(* each of them is one step up to the switch of Schedule().  What the code *)
(* does after Schedule() returns is a step of its own, taken when the      *)
(* process is resumed: only ForkProcess does something there, it reads     *)
(* child->ID.  The boot code runs with interrupts on, so the clock can     *)
(* interrupt CreateUserProcess before it queues the process.               *)
(*                                                                         *)
(* Frames of user memory, exit codes and the contents of stacks are left   *)
(* out.  The idle process that InitializeProcessManager makes is here only *)
(* as the bit it takes in the bitmap and the slot it used in the queue.    *)
(***************************************************************************)
EXTENDS Scheduler, FiniteSets

CONSTANT
  BootProcesses     \* calls of CreateUserProcess at boot, 1 in shell.c

ASSUME BootProcessesAssumption == BootProcesses \in Nat

(***************************************************************************)
(* A process takes two kernel frames and the kernel has 768, so it runs    *)
(* out of frames long before MAX_PROCESS_COUNT (1024) processes are alive. *)
(* The heap has 1024 block descriptors, and the idle process and the       *)
(* drivers hold some: fewer than 1024 PCBs ever exist.                     *)
(***************************************************************************)
ASSUME CapacityAssumption ==
  /\ KernelPages < 2 * MAX_PROCESS_COUNT
  /\ IsFiniteSet(PCBs) /\ Cardinality(PCBs) <= MAX_PROCESS_COUNT

PIDs == 0 .. MAX_PROCESS_COUNT - 1
AnyChild == -1          \* the pid with which a parent waits for any child

VARIABLES
  ParentID,         \* PCB.ParentID
  Bitmap,           \* pidAllocator.Bitmap: the PIDs in use
  freePages,        \* the free frames of the kernel's part of memory
  forked,           \* the child whose ID a ForkProcess() call will return
  creating,         \* the process CreateUserProcess has not queued yet
  boot              \* calls of CreateUserProcess the boot code has to make

vars == <<schedVars, ParentID, Bitmap, freePages, forked, creating, boot>>

Allocated(p) == Status[p] # "FREE"
Zombies == {ZombieProcesses[i] : i \in Indices} \ {NULL}

Init ==
  /\ Current = NULL
  /\ ready = EmptyQueueAt(Succ(0))
  /\ ZombieProcesses = [i \in Indices |-> NULL]
  /\ Status = [p \in PCBs |-> "FREE"]
  /\ ID = [p \in PCBs |-> 0]
  /\ ParentID = [p \in PCBs |-> 0]
  /\ KernelStack = [p \in PCBs |-> 0]
  /\ RootPPN = [p \in PCBs |-> 0]
  /\ cr3 = 0
  /\ esp0 = 0
  /\ panic = "none"
  /\ Bitmap = {0}
  /\ freePages = Pages
  /\ forked = [p \in PCBs |-> NULL]
  /\ creating = NULL
  /\ boot = BootProcesses

(***************************************************************************)
(* The allocators.  Both take the first free entry.  AllocatePID has no    *)
(* return statement after its loop: with a full bitmap it returns whatever *)
(* is in the register.                                                     *)
(***************************************************************************)
IsLowest(x, S) == x \in S /\ \A y \in S : x <= y

AllocatePID(pid) ==
  \/ IsLowest(pid, PIDs \ Bitmap) /\ Bitmap' = Bitmap \cup {pid}
  \/ PIDs \subseteq Bitmap /\ pid \in PIDs /\ UNCHANGED Bitmap

\* Mutant: the PID of a process that exits is never given back.
KeepPID(pid) == UNCHANGED Bitmap

FreePID(pid) == Bitmap' = Bitmap \ {pid}

\* Mutant: one frame serves as stack and as page table.
AllocateOneFrame(stack, root) ==
  IsLowest(stack, freePages) /\ root = stack /\ freePages' = freePages \ {stack}

\* The kernel stack first, the root page table second.
AllocateFrames(stack, root) ==
  /\ IsLowest(stack, freePages)
  /\ IsLowest(root, freePages \ {stack})
  /\ freePages' = freePages \ {stack, root}

\* Mutant: the root page table is not freed.
FreeStackOnly(p) == freePages' = freePages \cup {KernelStack[p]}

FreeFrames(p) == freePages' = freePages \cup {KernelStack[p], RootPPN[p]}

\* Malloc hands out a block filled with zeros, and the caller fills it in.
NewPCB(p, parent) ==
  \E pid \in PIDs, stack, root \in Pages :
    /\ AllocatePID(pid)
    /\ AllocateFrames(stack, root)
    /\ ID' = [ID EXCEPT ![p] = pid]
    /\ ParentID' = [ParentID EXCEPT ![p] = parent]
    /\ KernelStack' = [KernelStack EXCEPT ![p] = stack]
    /\ RootPPN' = [RootPPN EXCEPT ![p] = root]

-----------------------------------------------------------------------------
(***************************************************************************)
(* Boot.  KernelMain runs with interrupts on; once the clock has switched  *)
(* to a process nothing ever switches back to it.                          *)
(***************************************************************************)
\* Mutant: the process is queued before it is complete.
QueueIncompleteProcess(p) ==
  /\ Running /\ Current = NULL
  /\ creating = NULL /\ boot > 0
  /\ Status[p] = "FREE" /\ ~IsFull(ready)
  /\ NewPCB(p, 0)
  /\ Status' = [Status EXCEPT ![p] = "RUNNABLE"]
  /\ ready' = Push(ready, p)
  /\ creating' = p
  /\ boot' = boot - 1
  /\ UNCHANGED <<Current, ZombieProcesses, cr3, esp0, panic, forked>>

BeginCreateUserProcess(p) ==
  /\ Running /\ Current = NULL
  /\ creating = NULL /\ boot > 0
  /\ Status[p] = "FREE"
  /\ NewPCB(p, 0)
  /\ Status' = [Status EXCEPT ![p] = "RUNNABLE"]
  /\ creating' = p
  /\ boot' = boot - 1
  /\ UNCHANGED <<Current, ready, ZombieProcesses, cr3, esp0, panic, forked>>

EndCreateUserProcess ==
  /\ Running /\ Current = NULL
  /\ creating # NULL
  /\ IF IsFull(ready)
     THEN Panic("Queue is full") /\ UNCHANGED <<ready, creating>>
     ELSE ready' = Push(ready, creating) /\ creating' = NULL /\ UNCHANGED panic
  /\ UNCHANGED <<Current, ZombieProcesses, Status, ID, KernelStack, RootPPN,
                 cr3, esp0, ParentID, Bitmap, freePages, forked, boot>>

-----------------------------------------------------------------------------
(***************************************************************************)
(* A process that runs user code: it takes interrupts and makes calls.     *)
(***************************************************************************)
InUserMode == Running /\ Current # NULL /\ forked[Current] = NULL

\* clockInterruptHandler.  At boot it finds nothing to run.
Tick ==
  /\ InUserMode \/ (Running /\ Current = NULL)
  /\ UNCHANGED <<ID, KernelStack, RootPPN, ParentID, Bitmap, freePages,
                 forked, creating, boot>>
  /\ Schedule(ready, Status)

Yield ==
  /\ InUserMode
  /\ UNCHANGED <<ID, KernelStack, RootPPN, ParentID, Bitmap, freePages,
                 forked, creating, boot>>
  /\ Schedule(ready, Status)

\* The child is queued with its parent's Status, which is RUNNING.
ForkProcess(child) ==
  /\ InUserMode
  /\ Status[child] = "FREE"
  /\ NewPCB(child, ID[Current])
  /\ forked' = [forked EXCEPT ![Current] = child]
  /\ LET st == [Status EXCEPT ![child] = Status[Current]]
     IN  IF IsFull(ready)
         THEN /\ Panic("Queue is full")
              /\ Status' = st
              /\ UNCHANGED <<Current, ready, ZombieProcesses, cr3, esp0>>
         ELSE Schedule(Push(ready, child), st)
  /\ UNCHANGED <<creating, boot>>

(***************************************************************************)
(* Malloc and AllocateOnePage stop the kernel when nothing is left.  The   *)
(* copy of the parent's user memory takes frames this module does not      *)
(* count, so any fork can end so; what it had already allocated is         *)
(* never looked at again.                                                  *)
(***************************************************************************)
ForkOutOfMemory ==
  /\ InUserMode
  /\ Panic("No free memory")
  /\ UNCHANGED <<Current, ready, ZombieProcesses, Status, ID, KernelStack,
                 RootPPN, cr3, esp0, ParentID, Bitmap, freePages, forked,
                 creating, boot>>

\* The parent, resumed inside ForkProcess(), reads child->ID and returns it.
ForkReturn ==
  /\ Running /\ Current # NULL
  /\ forked[Current] # NULL
  /\ forked' = [forked EXCEPT ![Current] = NULL]
  /\ UNCHANGED <<schedVars, ParentID, Bitmap, freePages, creating, boot>>

-----------------------------------------------------------------------------
(***************************************************************************)
(* The loops over the ready queue run from Front while i < Rear: on a      *)
(* queue that has gone round the end of the array they visit no slot.      *)
(***************************************************************************)
Scanned(q) ==
  {q.Slots[i] : i \in {j \in Indices : q.Front <= j /\ j < q.Rear}} \ {NULL}

\* Every child of p among the processes S is given to p's own parent.
Redirected(p, S) ==
  [c \in PCBs |-> IF c \in S /\ ParentID[c] = ID[p] THEN ParentID[p]
                                                    ELSE ParentID[c]]

RedirectParentOfChildren ==
  ParentID' = Redirected(Current, Scanned(ready) \cup Zombies)

\* The processor still uses the stack and the page table while they are freed.
ExitProcess ==
  /\ InUserMode
  /\ FreePID(ID[Current])
  /\ FreeFrames(Current)
  /\ RedirectParentOfChildren
  /\ UNCHANGED <<ID, KernelStack, RootPPN, forked, creating, boot>>
  /\ Schedule(ready, [Status EXCEPT ![Current] = "ZOMBIE"])

IsChild(p, pid) ==
  p # NULL /\ ParentID[p] = ID[Current] /\ (ID[p] = pid \/ pid = AnyChild)

ActivatedChildren(pid) == {p \in Scanned(ready) : IsChild(p, pid)}

\* The first slot of the table whose zombie matches.
IsFirstZombie(i, pid) ==
  /\ IsChild(ZombieProcesses[i], pid)
  /\ \A j \in 0 .. i - 1 : ~IsChild(ZombieProcesses[j], pid)

WaitResult(pid) ==
  IF \E i \in Indices : IsChild(ZombieProcesses[i], pid) THEN "reaped"
  ELSE IF ActivatedChildren(pid) = {} THEN "no such child"        \* -1
  ELSE "still running"                                            \* -2

(***************************************************************************)
(* WaitProcess(pid) when it finds a zombie: the PCB goes back to the heap. *)
(* The results -1 and -2 change nothing.                                   *)
(***************************************************************************)
WaitProcess(pid) ==
  /\ InUserMode
  /\ \E i \in Indices :
       /\ IsFirstZombie(i, pid)
       /\ ZombieProcesses' = [ZombieProcesses EXCEPT ![i] = NULL]
       /\ LET p == ZombieProcesses[i]
          IN  /\ Status' = [Status EXCEPT ![p] = "FREE"]
              /\ ID' = [ID EXCEPT ![p] = 0]
              /\ ParentID' = [ParentID EXCEPT ![p] = 0]
              /\ KernelStack' = [KernelStack EXCEPT ![p] = 0]
              /\ RootPPN' = [RootPPN EXCEPT ![p] = 0]
  /\ UNCHANGED <<Current, ready, cr3, esp0, panic, Bitmap, freePages, forked,
                 creating, boot>>

\* After a panic the processor executes hlt for ever.
Halted == ~Running /\ UNCHANGED vars

Next ==
  \/ \E p \in PCBs : BeginCreateUserProcess(p)
  \/ EndCreateUserProcess
  \/ Tick
  \/ Yield
  \/ \E child \in PCBs : ForkProcess(child)
  \/ ForkOutOfMemory
  \/ ForkReturn
  \/ ExitProcess
  \/ \E pid \in PIDs \cup {AnyChild} : WaitProcess(pid)
  \/ Halted

Spec == Init /\ [][Next]_vars

(***************************************************************************)
(* The clock never stops, and the boot code and a resumed ForkProcess()    *)
(* just go on.  Nothing forces a process to make a system call.            *)
(***************************************************************************)
Fairness ==
  /\ WF_vars(Tick)
  /\ WF_vars(ForkReturn)
  /\ WF_vars(\E p \in PCBs : BeginCreateUserProcess(p))
  /\ WF_vars(EndCreateUserProcess)

FairSpec == Spec /\ Fairness
-----------------------------------------------------------------------------
(***************************************************************************)
(* Every variable holds a value of its C type: no PCB field, queue slot or *)
(* register takes a value from outside its range.                          *)
(***************************************************************************)
TypeOK ==
  /\ SchedulerTypeOK
  /\ ParentID \in [PCBs -> PIDs]
  /\ Bitmap \in SUBSET PIDs
  /\ freePages \in SUBSET Pages
  /\ forked \in [PCBs -> PCBs \cup {NULL}]
  /\ creating \in PCBs \cup {NULL}
  /\ boot \in 0 .. BootProcesses

Live(p) == Allocated(p) /\ Status[p] # "ZOMBIE"

(***************************************************************************)
(* The array of the ready queue holds a process exactly between Front and  *)
(* Rear, and no process twice: AddProcess, fetchProcess and the wrap-around*)
(* of their indices agree, so fetchProcess never returns NULL.             *)
(***************************************************************************)
ReadyQueueSound ==
  Running =>
    /\ \A i \in Indices : ready.Slots[i] # NULL <=> InRegion(ready, i)
    /\ \A i, j \in Indices :
         ready.Slots[i] = ready.Slots[j] /\ ready.Slots[i] # NULL => i = j

(***************************************************************************)
(* Every PCB the heap has handed out is in exactly one place: it runs, it  *)
(* is queued, it is among the zombies or it is still being created.  A     *)
(* block that was freed is in none: no queue keeps a dangling pointer.     *)
(***************************************************************************)
EachProcessInOnePlace ==
  Running =>
    /\ \A p \in PCBs :
         /\ Allocated(p) <=>
              Current = p \/ p \in Queued(ready) \/ p \in Zombies \/ creating = p
         /\ p \in Queued(ready) => p \notin Zombies \cup {Current, creating}
         /\ p \in Zombies => p \notin {Current, creating}
         /\ creating = p => Current # p
         /\ p \in Zombies <=> Status[p] = "ZOMBIE"
    /\ \A i, j \in Indices :
         ZombieProcesses[i] = ZombieProcesses[j] /\ ZombieProcesses[i] # NULL
           => i = j

(***************************************************************************)
(* The bitmap has exactly the PIDs of the living processes and of idle,    *)
(* and no two of them share one, although ExitProcess gives its PID back   *)
(* while it still runs and a zombie keeps the number it had.               *)
(***************************************************************************)
PIDsExact ==
  Running =>
    /\ Bitmap = {0} \cup {ID[p] : p \in {q \in PCBs : Live(q)}}
    /\ \A p \in PCBs : Live(p) => ID[p] # 0
    /\ \A p, q \in PCBs : Live(p) /\ Live(q) /\ ID[p] = ID[q] => p = q

(***************************************************************************)
(* The kernel frames are all accounted for: a frame is free or it is the   *)
(* stack or the root page table of one living process, never of two.       *)
(***************************************************************************)
Frames(p) == {KernelStack[p], RootPPN[p]}

FramesExact ==
  Running =>
    /\ freePages = Pages \ UNION {Frames(p) : p \in {q \in PCBs : Live(q)}}
    /\ \A p \in PCBs : Live(p) => KernelStack[p] # RootPPN[p]
    /\ \A p, q \in PCBs :
         Live(p) /\ Live(q) /\ p # q => Frames(p) \cap Frames(q) = {}

(***************************************************************************)
(* The processor runs on the frames of the current process, which are not  *)
(* free: Schedule() may skip loading CR3 only when it is right already,    *)
(* also after the process that exits has given its frames back.            *)
(***************************************************************************)
RunsOnOwnFrames ==
  Running /\ Current # NULL =>
    /\ cr3 = RootPPN[Current] /\ cr3 \notin freePages
    /\ esp0 = KernelStack[Current] /\ esp0 \notin freePages

(***************************************************************************)
(* When ForkProcess() reads child->ID after the switch, the PCB is still   *)
(* that child: nobody can have reaped and freed it, whatever ran meanwhile,*)
(* not even a process that got a recycled PID.                             *)
(***************************************************************************)
ForkReturnsItsChild ==
  Running =>
    \A p \in PCBs : forked[p] # NULL =>
      /\ Live(p)
      /\ Allocated(forked[p])
      /\ ParentID[forked[p]] = ID[p]

(***************************************************************************)
(* The frames of the kernel run out before the ready queue, the PID bitmap *)
(* or the table of zombies does, so those never overflow.                  *)
(***************************************************************************)
CapacityNeverExceeded ==
  /\ panic \notin {"Queue is full", "The zombie process queue is full"}
  /\ Running => ~(PIDs \subseteq Bitmap /\ Cardinality(freePages) >= 2)

(***************************************************************************)
(* When the first process is dispatched the boot code has no more          *)
(* processes to create: it never gets the processor back.                  *)
(***************************************************************************)
BootCompletes == Current # NULL => boot = 0 /\ creating = NULL

(***************************************************************************)
(* Every queued process gets the processor, unless the kernel stops.       *)
(***************************************************************************)
EveryReadyProcessRuns ==
  \A p \in PCBs : p \in Queued(ready) ~> (Current = p \/ ~Running)

-----------------------------------------------------------------------------
(***************************************************************************)
(* What the comments of the source and its tests say and the code does not *)
(* do; each is refuted by a run.                                           *)
(***************************************************************************)

(***************************************************************************)
(* process.c:107, RedirectParentOfChildren gives all children, "Ready and  *)
(* Zombie", of an exiting process to its parent: so no process is left     *)
(* with the PID of a dead process as its ParentID.                         *)
(***************************************************************************)
NoOrphans ==
  Running =>
    \A c \in PCBs : Allocated(c) =>
      \/ ParentID[c] = 0
      \/ \E p \in PCBs : Live(p) /\ ID[p] = ParentID[c]

(***************************************************************************)
(* create.c:144, WaitProcess returns -1 when neither the ready queue nor   *)
(* the zombies hold such a child: so never while one is in the queue.      *)
(***************************************************************************)
WaitFindsRunnableChildren ==
  InUserMode =>
    \A pid \in PIDs \cup {AnyChild} :
      WaitResult(pid) = "no such child"
        => ~ \E c \in Queued(ready) : IsChild(c, pid)

(***************************************************************************)
(* create.c:145-146, WaitProcess answers from the zombies when the process *)
(* with that PID has exited and says -2 while it is found runnable: so a   *)
(* wait for one PID reaps no zombie while a queued child has that PID.     *)
(***************************************************************************)
ReapedPIDHasExited ==
  InUserMode =>
    \A pid \in PIDs :
      WaitResult(pid) = "reaped" => ActivatedChildren(pid) = {}
=============================================================================
