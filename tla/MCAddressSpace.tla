-------------------------- MODULE MCAddressSpace --------------------------
EXTENDS AddressSpace, TLC

CONSTANTS p1, p2

TwoProcesses == {p1, p2}

\* No operator chooses between processes, so they are interchangeable.
Symmetry == Permutations(TwoProcesses)
=============================================================================
