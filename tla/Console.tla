------------------------------- MODULE Console -------------------------------
(***************************************************************************)
(* console/console.c: text on a window of the video memory.  The registers *)
(* of the display controller hold where the window begins and where the    *)
(* cursor is, as offsets in the memory.  When the window reaches its last  *)
(* row it moves down the memory by a row, and at the end of the memory its *)
(* text is copied back to the beginning and the rest is cleared.           *)
(*                                                                         *)
(* Addresses count cells of two bytes from MonitorBaseAddress on; of a     *)
(* cell only the character is kept, as a colour matters for where a        *)
(* message begins and for nothing else.                                    *)
(*                                                                         *)
(* console.c and print.c leave the interrupt flag as it is.  The handler   *)
(* of the keyboard and the system calls print with interrupts off, and     *)
(* such a call is one action.  ReadLine prints its message after it has    *)
(* enabled interrupts: that call is taken in steps, one for each access to *)
(* a port and for each cell, and other calls come between them, from a key *)
(* or from the process that the clock switches to.  One process at a time  *)
(* prints the message.                                                     *)
(***************************************************************************)
EXTENDS Integers, Sequences

CONSTANTS
  ScreenWidth,
  ScreenHigh,
  MonitorSize,  \* cells that are cleared at boot and when the window goes back
  Tab,          \* 4 in the code
  ByteSize,     \* values of a register: 256
  WordSize,     \* an address wraps round: 2^31 cells
  Letters,      \* characters that show
  Blank,        \* a cell that shows nothing: a space or a zero
  Texts,        \* what is printed, sequences of Letters, BS, HT, LF and CR
  Messages,     \* what ReadLine prints about a line that is too long
  Colors

ScreenSize == ScreenWidth * ScreenHigh

Offsets == ByteSize * ByteSize

\* 0x4000 bytes are 102 rows of 80 and a part of one.
ASSUME ConsoleAssumption ==
  /\ ScreenWidth \in Nat \ {0} /\ ScreenHigh \in Nat \ {0}
  /\ MonitorSize \in Nat /\ ScreenSize + ScreenWidth <= MonitorSize /\ Tab \in Nat
  /\ ByteSize \in Nat \ {0} /\ MonitorSize + ScreenWidth <= Offsets
  /\ WordSize \in Nat /\ Offsets <= WordSize
  /\ Texts \subseteq Seq(Letters \cup {"BS", "HT", "LF", "CR"})
  /\ Messages \subseteq Seq(Letters \cup {"BS", "HT", "LF", "CR"}) \ {<<>>}

\* What an offset in the registers reaches, and the window behind it.
Cells == 0 .. Offsets + ScreenSize - 1

Halves == {"ScreenAddress", "CursorAddress"} \X {"High", "Low"}

VARIABLES
  memory,       \* the video memory
  registers,    \* of the display controller: its bytes, for each of Halves
  index,        \* MonitorAddressRegister: the register that the data port means
  call,         \* the local variables of the call that prints ReadLine's message
  garbled,      \* another call came between its steps (not in the code)
  before        \* the console when that call began (not in the code)

vars == <<memory, registers, index, call, garbled, before>>

Value(name) == registers[<<name, "High">>] * ByteSize + registers[<<name, "Low">>]

screen == Value("ScreenAddress")

cursor == Value("CursorAddress")

Byte(value, half) == (IF half = "High" THEN value \div ByteSize ELSE value) % ByteSize

Row(offset) == (offset % WordSize) \div ScreenWidth

Col(offset) == (offset % WordSize) % ScreenWidth

\* Console states [memory, screen, row, col]: the registers and, while a call
\* runs, its local variables.
Current == [memory |-> memory, screen |-> screen,
            row |-> Row(cursor - screen), col |-> Col(cursor - screen)]

CellAt(screenAddress, row, col) == (screenAddress + row * ScreenWidth + col) % WordSize

Address(s) == CellAt(s.screen, s.row, s.col)

Cleared == [memory |-> [a \in Cells |-> Blank], screen |-> 0, row |-> 0, col |-> 0]

NoCall == [stage |-> "none", step |-> 0, high |-> 0, address |-> 0, position |-> 0,
           row |-> 0, col |-> 0, n |-> 1, cell |-> 0, nested |-> FALSE, message |-> <<>>]

\* InitializeConsole, on a memory the firmware has cleared.
Init ==
  /\ memory = Cleared.memory
  /\ registers = [h \in Halves |-> 0]
  /\ index = <<"CursorAddress", "Low">>
  /\ call = NoCall
  /\ garbled = FALSE
  /\ before = Cleared
-----------------------------------------------------------------------------
Written(s, ch) ==
  CASE ch = "BS" -> IF s.col > 0
                    THEN [s EXCEPT !.col = @ - 1, !.memory[Address(s) - 1] = Blank]
                    ELSE s
    [] ch = "HT" -> [s EXCEPT !.col = IF @ + Tab >= ScreenWidth THEN ScreenWidth - 1 ELSE @ + Tab]
    [] ch = "LF" -> [s EXCEPT !.row = @ + 1, !.col = 0]
    [] ch = "CR" -> [s EXCEPT !.col = 0]
    [] OTHER -> [s EXCEPT !.memory[Address(s)] = ch, !.col = @ + 1]

Wrapped(s) == IF s.col >= ScreenWidth THEN [s EXCEPT !.col = 0, !.row = @ + 1] ELSE s

\* Mutant: without MemoryFree.
CopiedUncleared(s) ==
  [a \in Cells |-> IF a < ScreenSize THEN s.memory[s.screen + a] ELSE s.memory[a]]

\* The text of the window at the beginning of the memory, the rest cleared up
\* to MonitorSize.
CopiedBack(s) ==
  [a \in Cells |-> IF a < ScreenSize THEN s.memory[s.screen + a]
                   ELSE IF a < MonitorSize THEN Blank
                   ELSE s.memory[a]]

Scrolled(s) ==
  IF s.row < ScreenHigh THEN s
  ELSE IF s.screen + ScreenSize >= MonitorSize
  THEN [s EXCEPT !.memory = CopiedBack(s), !.screen = ScreenWidth, !.row = @ - 1]
  ELSE [s EXCEPT !.screen = @ + ScreenWidth, !.row = @ - 1]

PutChar(s, ch) == Scrolled(Wrapped(Written(s, ch)))

ConsoleAlignLine(s) == IF s.col # 0 THEN PutChar(s, "LF") ELSE s

Printed(s, text) ==
  LET after[n \in 0 .. Len(text)] == IF n = 0 THEN s ELSE PutChar(after[n - 1], text[n])
  IN  after[Len(text)]

\* A call with interrupts off: an echo of the keyboard or a system call.
ConsoleWriteWithColor(text, color) ==
  LET aligned == IF color \notin {"WHITE", "LIGHT_BLUE"} THEN ConsoleAlignLine(Current) ELSE Current
      s == Printed(aligned, text)
      address == [ScreenAddress |-> s.screen, CursorAddress |-> Address(s)] IN
  /\ memory' = s.memory
  /\ registers' = [h \in Halves |-> Byte(address[h[1]], h[2])]
  /\ index' = <<"CursorAddress", "Low">>
  /\ garbled' = (garbled \/ call.stage # "none")
  /\ UNCHANGED <<call, before>>
-----------------------------------------------------------------------------
(***************************************************************************)
(* The call that prints ReadLine's message, in steps.  The stages in which *)
(* it reads or writes an address take four each: select the high register, *)
(* read or write it, select the low one, read or write it.                 *)
(***************************************************************************)
PrintWithColor(text) ==
  /\ call.stage = "none"
  /\ call' = [NoCall EXCEPT !.stage = "alignCursor", !.message = text]
  /\ before' = Current
  /\ UNCHANGED <<memory, registers, index, garbled>>

\* getCursorAddress, getCursor (both its reads) and getScreenAddress.
CursorReads == {"alignCursor", "position", "rowCursor", "columnCursor"}

ScreenReads == {"alignScreen", "rowScreen", "columnScreen", "scroll", "locate", "place"}

\* setScreenAddress and the end of setCursor.
Writes == {"move", "setCursor"}

SelectRegister ==
  /\ call.stage \in CursorReads \cup ScreenReads \cup Writes /\ call.step \in {0, 2}
  /\ index' = <<IF call.stage \in CursorReads \cup {"setCursor"} THEN "CursorAddress"
                ELSE "ScreenAddress",
                IF call.step = 0 THEN "High" ELSE "Low">>
  /\ call' = [call EXCEPT !.step = @ + 1]
  /\ UNCHANGED <<memory, registers, garbled, before>>

ReadHigh ==
  /\ call.stage \in CursorReads \cup ScreenReads /\ call.step = 1
  /\ call' = [call EXCEPT !.step = 2, !.high = registers[index]]
  /\ UNCHANGED <<memory, registers, index, garbled, before>>

\* What is printed: the newline that goes before a message, or the message.
Text == IF call.nested THEN <<"LF">> ELSE call.message

\* The local variables when the call has read an address.
Fetched(address) ==
  LET offset == call.address - address IN
  CASE call.stage = "alignCursor"  -> [call EXCEPT !.stage = "alignScreen", !.address = address]
    [] call.stage = "alignScreen"  -> [call EXCEPT !.stage = "position", !.nested = Col(offset) # 0]
    [] call.stage = "position"      -> [call EXCEPT !.stage = "rowCursor", !.position = address]
    [] call.stage = "rowCursor"    -> [call EXCEPT !.stage = "rowScreen", !.address = address]
    [] call.stage = "rowScreen"    -> [call EXCEPT !.stage = "columnCursor", !.row = Row(offset)]
    [] call.stage = "columnCursor" -> [call EXCEPT !.stage = "columnScreen", !.address = address]
    [] call.stage = "columnScreen" -> [call EXCEPT !.stage = "write", !.col = Col(offset)]
    [] call.stage = "scroll" ->
         IF address + ScreenSize >= MonitorSize
         THEN [call EXCEPT !.stage = "copy", !.address = address, !.cell = 0]
         ELSE [call EXCEPT !.stage = "move", !.address = address + ScreenWidth]
    [] call.stage = "locate" ->
         [call EXCEPT !.stage = IF call.n = Len(Text) THEN "place" ELSE "write", !.n = @ + 1,
                      !.position = CellAt(address, call.row, call.col)]
    [] call.stage = "place" ->
         [call EXCEPT !.stage = "setCursor", !.address = CellAt(address, call.row, call.col)]

ReadLow ==
  /\ call.stage \in CursorReads \cup ScreenReads /\ call.step = 3
  /\ call' = [Fetched(call.high * ByteSize + registers[index]) EXCEPT !.step = 0]
  /\ UNCHANGED <<memory, registers, index, garbled, before>>

\* currentPosition is the cell at row and col of a window that begins here.
Local == [memory |-> memory, screen |-> call.position - (call.row * ScreenWidth + call.col),
          row |-> call.row, col |-> call.col]

PutCharacter ==
  LET s == Wrapped(Written(Local, Text[call.n])) IN
  /\ call.stage = "write"
  /\ memory' = s.memory
  /\ call' = [call EXCEPT !.stage = IF s.row >= ScreenHigh THEN "scroll" ELSE "locate",
                          !.row = s.row, !.col = s.col]
  /\ UNCHANGED <<registers, index, garbled, before>>

\* MemoryCopy to the beginning of the memory.
CopyCell ==
  /\ call.stage = "copy"
  /\ memory' = [memory EXCEPT ![call.cell] = memory[call.address + call.cell]]
  /\ call' = [call EXCEPT !.cell = @ + 1,
                          !.stage = IF call.cell + 1 = ScreenSize THEN "clear" ELSE @]
  /\ UNCHANGED <<registers, index, garbled, before>>

\* MemoryFree of the rest.
ClearCell ==
  /\ call.stage = "clear"
  /\ memory' = [memory EXCEPT ![call.cell] = Blank]
  /\ call' = IF call.cell + 1 = MonitorSize
             THEN [call EXCEPT !.cell = 0, !.stage = "move", !.address = ScreenWidth]
             ELSE [call EXCEPT !.cell = @ + 1]
  /\ UNCHANGED <<registers, index, garbled, before>>

WriteHigh ==
  /\ call.stage \in Writes /\ call.step = 1
  /\ registers' = [registers EXCEPT ![index] = Byte(call.address, "High")]
  /\ call' = [call EXCEPT !.step = 2]
  /\ UNCHANGED <<memory, index, garbled, before>>

WriteLow ==
  /\ call.stage \in Writes /\ call.step = 3
  /\ registers' = [registers EXCEPT ![index] = Byte(call.address, "Low")]
  /\ UNCHANGED <<memory, index, garbled>>

\* Mutant: without row--.
WriteScreenKeepingRow ==
  /\ call.stage = "move" /\ WriteLow
  /\ call' = [call EXCEPT !.stage = "locate", !.step = 0]
  /\ UNCHANGED before

\* After setScreenAddress the call goes on with the row above.
WriteScreen ==
  /\ call.stage = "move" /\ WriteLow
  /\ call' = [call EXCEPT !.stage = "locate", !.step = 0, !.row = @ - 1]
  /\ UNCHANGED before

\* The nested call returns, and ConsoleWriteWithColor goes on with the message.
WriteCursorOfNewline ==
  /\ call.stage = "setCursor" /\ call.nested /\ WriteLow
  /\ call' = [NoCall EXCEPT !.stage = "position", !.message = call.message]
  /\ UNCHANGED before

WriteCursor ==
  /\ call.stage = "setCursor" /\ ~call.nested /\ WriteLow
  /\ call' = NoCall
  /\ before' = Cleared

MessageStep ==
  \/ SelectRegister \/ ReadHigh \/ ReadLow \/ PutCharacter \/ CopyCell \/ ClearCell
  \/ WriteHigh \/ WriteScreen \/ WriteCursorOfNewline \/ WriteCursor

Next ==
  \/ \E text \in Texts, color \in Colors : ConsoleWriteWithColor(text, color)
  \/ \E text \in Messages : PrintWithColor(text)
  \/ MessageStep

Spec == Init /\ [][Next]_vars
-----------------------------------------------------------------------------
Shown(s) ==
  [rows |-> [r \in 0 .. ScreenHigh - 1 |->
               [c \in 0 .. ScreenWidth - 1 |-> s.memory[s.screen + r * ScreenWidth + c]]],
   row |-> s.row,
   col |-> s.col]

\* A message that is being printed has not been shown yet.  The last window
\* ends behind MonitorSize unless that is a number of rows, and what is behind
\* it is never cleared.
T == INSTANCE Terminal
     WITH Width <- ScreenWidth, Height <- ScreenHigh,
          terminal <- Shown(IF call.stage = "none" THEN Current ELSE before),
          message <- call.message,
          Clean <- IF MonitorSize % ScreenWidth = 0 THEN ScreenWidth ELSE MonitorSize % ScreenWidth

(***************************************************************************)
(* The window on the video memory behaves as a terminal whatever is        *)
(* printed: no text is lost or changed when the window moves, also not     *)
(* when it goes back to the beginning of the memory, the cursor stays in   *)
(* the window, and new rows are blank in the columns that MonitorSize      *)
(* reaches.  ReadLine's message, which takes many accesses with interrupts *)
(* on, appears as a call in one step would show it if no other call comes  *)
(* between them.  If one does, the console shows anything from then on.    *)
(***************************************************************************)
ImplementsTerminal == T!Spec

C == INSTANCE Terminal
     WITH Width <- ScreenWidth, Height <- ScreenHigh,
          terminal <- Shown(IF call.stage = "none" THEN Current ELSE before),
          message <- call.message, Clean <- ScreenWidth

(***************************************************************************)
(* New rows are blank.  They are not the second time the window comes to   *)
(* the end of the memory and this is violated: columns 32 to 79 of the row *)
(* show what was printed there the first time.                             *)
(***************************************************************************)
ImplementsCleanTerminal == C!Spec

(***************************************************************************)
(* "If the current row has been written to, go to the next row"            *)
(* (console.c:19): the message begins at the first column.  A key that is  *)
(* pressed while it is being printed is echoed into its row between        *)
(* ConsoleAlignLine's look at the cursor and that of the call itself.      *)
(***************************************************************************)
MessageBeginsRow ==
  call.stage = "write" /\ ~call.nested /\ call.n = 1 => call.col = 0
=============================================================================
