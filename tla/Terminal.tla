------------------------------ MODULE Terminal ------------------------------
(***************************************************************************)
(* What a program that prints may rely on: a window of Height rows and     *)
(* Width columns with a cursor.  Characters appear at the cursor, a line   *)
(* feed or a full row goes to the next row, and behind the last row the    *)
(* window moves up by one, which shows a new row at the bottom.  The new   *)
(* row is blank in its first Clean columns.                                *)
(*                                                                         *)
(* One message at a time is printed with interrupts on.  It appears when   *)
(* it ends, unless something else is printed before that: then the         *)
(* terminal promises nothing any more.                                     *)
(***************************************************************************)
EXTENDS Naturals, Sequences

CONSTANTS Width, Height, Tab, Clean, Letters, Blank, Texts, Messages, Colors

VARIABLES
  terminal,     \* [rows, row, col]
  message,      \* the message that is being printed, or <<>>
  garbled

Columns == 0 .. Width - 1

Rows == 0 .. Height - 1

BlankRow == [c \in Columns |-> Blank]

Init ==
  /\ terminal = [rows |-> [r \in Rows |-> BlankRow], row |-> 0, col |-> 0]
  /\ message = <<>>
  /\ garbled = FALSE

NewRows == {line \in [Columns -> Letters \cup {Blank}] : \A c \in Columns : c < Clean => line[c] = Blank}

\* The cursor goes from behind the last column to the next row.
Wrapped(t) == IF t.col < Width THEN t ELSE [t EXCEPT !.col = 0, !.row = @ + 1]

MovedUp(t, line) ==
  [t EXCEPT !.row = @ - 1,
            !.rows = [r \in Rows |-> IF r = Height - 1 THEN line ELSE @[r + 1]]]

\* The terminals t becomes when the cursor has gone past the last column or
\* row.
Settled(t) ==
  LET u == Wrapped(t) IN
  IF u.row < Height THEN {u} ELSE {MovedUp(u, line) : line \in NewRows}

After(t, ch) ==
  CASE ch = "BS" -> {IF t.col = 0 THEN t
                     ELSE [t EXCEPT !.col = @ - 1, !.rows[t.row][t.col - 1] = Blank]}
    [] ch = "HT" -> {[t EXCEPT !.col = IF @ + Tab < Width THEN @ + Tab ELSE Width - 1]}
    [] ch = "LF" -> Settled([t EXCEPT !.row = @ + 1, !.col = 0])
    [] ch = "CR" -> {[t EXCEPT !.col = 0]}
    [] OTHER -> Settled([t EXCEPT !.rows[t.row][t.col] = ch, !.col = @ + 1])

\* What the terminals in start become.
AfterEach(start, text) ==
  LET after[n \in 0 .. Len(text)] ==
        IF n = 0 THEN start ELSE UNION {After(t, text[n]) : t \in after[n - 1]}
  IN  after[Len(text)]

\* Messages in other colours than those of plain text begin a row.
Aligned(t, color) ==
  IF color \in {"WHITE", "LIGHT_BLUE"} \/ t.col = 0 THEN {t} ELSE After(t, "LF")

Write(text, color) ==
  /\ message = <<>> /\ ~garbled
  /\ terminal' \in AfterEach(Aligned(terminal, color), text)
  /\ UNCHANGED <<message, garbled>>

BeginMessage(text) ==
  /\ message = <<>> /\ ~garbled
  /\ message' = text
  /\ UNCHANGED <<terminal, garbled>>

EndMessage ==
  /\ message # <<>> /\ ~garbled
  /\ terminal' \in AfterEach(Aligned(terminal, "RED"), message)
  /\ message' = <<>>
  /\ UNCHANGED garbled

Garble ==
  /\ message # <<>> \/ garbled
  /\ garbled'

Next ==
  \/ \E text \in Texts, color \in Colors : Write(text, color)
  \/ \E text \in Messages : BeginMessage(text)
  \/ EndMessage
  \/ Garble

Spec == Init /\ [][Next]_<<terminal, message, garbled>>
=============================================================================
