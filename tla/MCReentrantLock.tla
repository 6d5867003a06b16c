--------------------------- MODULE MCReentrantLock ---------------------------
EXTENDS ReentrantLock, TLC

CONSTANTS p1, p2, p3

TwoPCBs == {p1, p2}
ThreePCBs == {p1, p2, p3}

\* The file system's lock, and the disk controller's taken under it.
FsThenDisk == {0, 1}
OneLock == {0}

\* No operator chooses between PCBs, so they are interchangeable.
Symmetry == Permutations(ThreePCBs)
=============================================================================
