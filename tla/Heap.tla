-------------------------------- MODULE Heap --------------------------------
(***************************************************************************)
(* What a heap promises: it hands out ranges of its memory of the size     *)
(* asked for, which do not overlap until they are given back.  It may fail *)
(* to find one.                                                            *)
(***************************************************************************)
EXTENDS Integers

CONSTANT HeapSize
VARIABLE owned      \* the ranges in use, records with Base and Size

Range(r) == r.Base .. r.Base + r.Size - 1

Init == owned = {}

Allocate(base, size) ==
  LET r == [Base |-> base, Size |-> size]
  IN  /\ Range(r) \subseteq 0 .. HeapSize - 1
      /\ \A o \in owned : Range(o) \cap Range(r) = {}
      /\ owned' = owned \cup {r}

Release(r) == r \in owned /\ owned' = owned \ {r}

Next ==
  \/ \E base, size \in 0 .. HeapSize : size > 0 /\ Allocate(base, size)
  \/ \E r \in owned : Release(r)

Spec == Init /\ [][Next]_owned
=============================================================================
