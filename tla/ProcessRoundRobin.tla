-------------------------- MODULE ProcessRoundRobin --------------------------
(***************************************************************************)
(* The process manager implements the round-robin discipline: the line of  *)
(* RoundRobin is the content of the ready queue, read from Front round the *)
(* end of the array to Rear.                                               *)
(***************************************************************************)
EXTENDS ProcessManager, Sequences

QueueLength(q) == (q.Rear + MAX_PROCESS_COUNT - q.Front) % MAX_PROCESS_COUNT

QueueSequence(q) ==
  [k \in 1 .. QueueLength(q) |-> q.Slots[(q.Front + k - 1) % MAX_PROCESS_COUNT]]

RR == INSTANCE RoundRobin WITH
        running <- Current, line <- QueueSequence(ready), exited <- Zombies

(***************************************************************************)
(* Every step of the kernel is a step of the round-robin discipline or     *)
(* changes nothing in it: Schedule(), AddProcess and fetchProcess overtake *)
(* nobody, lose nobody and run nobody twice, wherever Front and Rear are.  *)
(***************************************************************************)
ImplementsRoundRobin == RR!Spec
=============================================================================
