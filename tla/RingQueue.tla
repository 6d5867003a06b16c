----------------------------- MODULE RingQueue -----------------------------
(***************************************************************************)
(* The bounded circular queue of ready processes that process.c keeps in   *)
(* RunnableProcesses, Front and Rear.  It has MAX_PROCESS_COUNT slots and  *)
(* holds one element less, because Front = Rear means empty.  A queue is a *)
(* record; the operations are functions of it, so that a caller that       *)
(* changes the queue and then calls Schedule() can pass the queue on.      *)
(***************************************************************************)
EXTENDS Integers

CONSTANTS
  MAX_PROCESS_COUNT,    \* slots of a queue, 1024 in process/type.h
  NULL                  \* the null pointer

ASSUME SizeAssumption == MAX_PROCESS_COUNT \in Nat \ {0, 1}

Indices == 0 .. MAX_PROCESS_COUNT - 1

EmptyQueueAt(i) == [Slots |-> [j \in Indices |-> NULL], Front |-> i, Rear |-> i]

\* Mutant: the index is not taken modulo the size.
SuccWithoutWrap(i) == i + 1

Succ(i) == (i + 1) % MAX_PROCESS_COUNT

IsEmpty(q) == q.Front = q.Rear
IsFull(q) == Succ(q.Rear) = q.Front

FrontOf(q) == q.Slots[q.Front]

\* Mutant: the element jumps the line.
PushAtFront(q, p) ==
  LET f == (q.Front + MAX_PROCESS_COUNT - 1) % MAX_PROCESS_COUNT
  IN  [Slots |-> [q.Slots EXCEPT ![f] = p], Front |-> f, Rear |-> q.Rear]

\* AddProcess and Queue.Push after their test for a full queue.
Push(q, p) ==
  [Slots |-> [q.Slots EXCEPT ![q.Rear] = p], Front |-> q.Front, Rear |-> Succ(q.Rear)]

\* Mutant: fetchProcess forgets to clear the slot.
FetchWithoutClearing(q) == [q EXCEPT !.Front = Succ(q.Front)]

\* fetchProcess on a queue that is not empty: the slot is cleared.
Fetch(q) ==
  [Slots |-> [q.Slots EXCEPT ![q.Front] = NULL], Front |-> Succ(q.Front), Rear |-> q.Rear]

(***************************************************************************)
(* The positions that hold an element: from Front up to Rear, going round  *)
(* the end of the array.                                                   *)
(***************************************************************************)
InRegion(q, i) ==
  IF q.Front <= q.Rear THEN q.Front <= i /\ i < q.Rear
                       ELSE q.Front <= i \/ i < q.Rear

Queued(q) == {q.Slots[i] : i \in {j \in Indices : InRegion(q, j)}}
=============================================================================
