--------------------------- MODULE PrivateMemory ---------------------------
(***************************************************************************)
(* What paging promises to user programs: every process has a memory of    *)
(* its own, zero until it is written, which a fork copies.                 *)
(***************************************************************************)
CONSTANTS
  Processes,
  Addresses,        \* the pages of user virtual memory
  Values, Zero      \* what a page can hold, and what it holds at first

VARIABLES
  alive,            \* the processes that exist
  memory            \* memory[p][a], what p reads at a

pmVars == <<alive, memory>>

Blank == [a \in Addresses |-> Zero]

Init == alive = {} /\ memory = [p \in Processes |-> Blank]

Create(p) ==
  /\ p \notin alive
  /\ alive' = alive \cup {p}
  /\ UNCHANGED memory

Write(p, a, v) ==
  /\ p \in alive
  /\ memory' = [memory EXCEPT ![p][a] = v]
  /\ UNCHANGED alive

Fork(p, c) ==
  /\ p \in alive /\ c \notin alive
  /\ alive' = alive \cup {c}
  /\ memory' = [memory EXCEPT ![c] = memory[p]]

Exit(p) ==
  /\ p \in alive
  /\ alive' = alive \ {p}
  /\ memory' = [memory EXCEPT ![p] = Blank]

Next ==
  \/ \E p \in Processes : Create(p) \/ Exit(p)
  \/ \E p \in Processes, a \in Addresses, v \in Values : Write(p, a, v)
  \/ \E p, c \in Processes : Fork(p, c)

Spec == Init /\ [][Next]_pmVars
=============================================================================
