-------------------------- MODULE MCProcessManager --------------------------
EXTENDS ProcessRoundRobin, TLC

CONSTANTS p1, p2, p3, p4

ThreePCBs == {p1, p2, p3}
FourPCBs == {p1, p2, p3, p4}

\* No operator chooses between PCBs, so they are interchangeable.
Symmetry3 == Permutations(ThreePCBs)
Symmetry4 == Permutations(FourPCBs)
=============================================================================
