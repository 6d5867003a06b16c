----------------------------- MODULE RoundRobin -----------------------------
(***************************************************************************)
(* What the scheduler promises, without arrays, PIDs or memory: one        *)
(* process runs, the others wait in line, and whoever gives up the         *)
(* processor goes to the end of the line.  A fork puts the child in line   *)
(* just ahead of its parent.  A process that exits stays on a list until   *)
(* its parent collects it; when nobody is left in line everything stops.   *)
(***************************************************************************)
EXTENDS Sequences

CONSTANTS PCBs, NULL

VARIABLES
  running,      \* the process that has the processor, or NULL
  line,         \* the processes that wait for it, the next one first
  exited        \* the processes that ended and were not collected

rrVars == <<running, line, exited>>

Known(p) ==
  p = running \/ p \in exited \/ \E k \in DOMAIN line : line[k] = p

Init == running = NULL /\ line = <<>> /\ exited = {}

Active == running # NULL /\ running \notin exited

\* The head of q gets the processor, the rest of q stays in line.
SwitchTo(q) == running' = Head(q) /\ line' = Tail(q)

Arrive(p) ==
  /\ running = NULL /\ ~Known(p)
  /\ line' = Append(line, p)
  /\ UNCHANGED <<running, exited>>

Start ==
  /\ running = NULL /\ line # <<>>
  /\ SwitchTo(line)
  /\ UNCHANGED exited

Rotate ==
  /\ Active
  /\ SwitchTo(Append(line, running))
  /\ UNCHANGED exited

Spawn(c) ==
  /\ Active /\ ~Known(c)
  /\ SwitchTo(line \o <<c, running>>)
  /\ UNCHANGED exited

Retire ==
  /\ Active
  /\ exited' = exited \cup {running}
  /\ IF line = <<>> THEN UNCHANGED <<running, line>> ELSE SwitchTo(line)

Collect(p) ==
  /\ Active /\ p \in exited
  /\ exited' = exited \ {p}
  /\ UNCHANGED <<running, line>>

Next ==
  \/ Start \/ Rotate \/ Retire
  \/ \E p \in PCBs : Arrive(p) \/ Spawn(p) \/ Collect(p)

Spec == Init /\ [][Next]_rrVars
=============================================================================
