------------------------- MODULE MCFrameAllocator -------------------------
EXTENDS FrameAllocator

LowMemory == [Base |-> 0, Length |-> 8, Type |-> 1]
Reserved == [Base |-> 44, Length |-> 4, Type |-> 2]

\* The map QEMU reports: usable memory begins and ends at a frame.
AlignedMap == {LowMemory, [Base |-> 8, Length |-> 32, Type |-> 1], Reserved}

\* Usable memory begins in the middle of a frame.
UnalignedMap == {LowMemory, [Base |-> 10, Length |-> 28, Type |-> 1], Reserved}
=============================================================================
