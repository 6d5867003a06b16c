--------------------------- MODULE MCKernelMemory ---------------------------
EXTENDS KernelMemory

\* Usable memory begins and ends at a frame, as QEMU reports it: four frames
\* of the kernel, two of the processes.
SmallMap ==
  {[Base |-> 0, Length |-> 8, Type |-> 1], [Base |-> 8, Length |-> 24, Type |-> 1],
   [Base |-> 32, Length |-> 4, Type |-> 2]}
=============================================================================
