------------------------------ MODULE Keyboard ------------------------------
(***************************************************************************)
(* The keyboard, int/key_board.c: the interrupt handler, and a process     *)
(* that reads characters and lines with ReadChar() and ReadLine().  Both   *)
(* poll with interrupts on, so the handler and the clock come between any  *)
(* two of their accesses to what the handler changes: each is an action.   *)
(*                                                                         *)
(* A key is <<code, ext>>: the scan code that the right-hand twin of a key *)
(* shares with it, and 3 if its bytes have the prefix 0xe0, or else 2, the *)
(* column of keymap that says whether it is down.                          *)
(***************************************************************************)
EXTENDS Integers, Sequences, FiniteSets

CONSTANTS
  Keys,             \* the keys in use, pairs as above
  LineLength,       \* the parameter len of ReadLine
  Before,           \* what the byte before the caller's buffer holds
  MaxLength,        \* bound: characters typed for one line
  MaxPressed,       \* bound: keys that are down at once
  Patient           \* whether the user waits after Enter till the line is read

KeyCodes == {"KEY_A", "KEY_ENTER", "KEY_BACKSPACE", "KEY_SHIFT_L", "KEY_CTRL_L"}

NULL_CHAR == ""
LF == "LF"
BS == "BS"

\* Of the byte before the buffer only matters whether it is a newline.
ASSUME KeysAssumption ==
  /\ Keys \subseteq KeyCodes \X {2, 3}
  /\ LineLength \in Nat /\ MaxLength \in Nat /\ MaxPressed \in Nat /\ Patient \in BOOLEAN
  /\ Before \in {NULL_CHAR, LF}

\* Columns 0 and 1 of keymap: the character of a key and the one with shift.
keymap ==
  [KEY_A |-> <<"a", "A">>, KEY_ENTER |-> <<LF, LF>>, KEY_BACKSPACE |-> <<BS, BS>>,
   KEY_SHIFT_L |-> <<NULL_CHAR, NULL_CHAR>>, KEY_CTRL_L |-> <<NULL_CHAR, NULL_CHAR>>]

IsLower(ch) == ch = "a"

VARIABLES
  pressed,              \* the keys that are down
  port,                 \* the bytes the controller has not handed over
  down,                 \* columns 2 and 3 of keymap: the keys seen down
  extcodeState,
  globalBuffer,         \* whether it points to the reader's buffer
  globalBufferLength,
  globalChar,
  current,              \* whose memory is mapped
  buffer,               \* what is at that address in the reader's memory, from 1 on
  pc,                   \* what the reader is about to do
  index,                \* the length that it has read for its next access
  result,               \* what its call is about to return
  typed,                \* history: the characters since ReadLine() began
  undisturbed,          \* history: the reader kept the processor since then
  taken                 \* history: globalChar has been returned

keyVars == <<pressed, port>>
handlerVars == <<down, extcodeState>>
bufferVars == <<globalBuffer, globalBufferLength, buffer>>
histories == <<typed, undisturbed, taken>>
vars == <<keyVars, handlerVars, bufferVars, globalChar, current, pc, index, result, histories>>

Init ==
  /\ pressed = {} /\ port = <<>>
  /\ down = {} /\ extcodeState = FALSE
  /\ globalBuffer = FALSE /\ globalBufferLength = 0
  /\ globalChar = NULL_CHAR
  /\ current = "reader"
  /\ buffer = [i \in 0 .. MaxLength |-> IF i = 0 THEN Before ELSE NULL_CHAR]
  /\ pc = "out" /\ index = 0 /\ result = <<>>
  /\ typed = <<>> /\ undisturbed = TRUE /\ taken = FALSE

-----------------------------------------------------------------------------
\* The user.
Prefix(key) == IF key[2] = 3 THEN <<[prefix |-> TRUE]>> ELSE <<>>

Bytes(key, breakcode) ==
  Append(Prefix(key), [prefix |-> FALSE, code |-> key[1], break |-> breakcode])

\* ReadLine() is in its loop.
Polling == pc \in {"line", "index", "character"}

\* It is between the test that finds the newline and its last use.
Ending == pc \in {"check", "cut", "terminate", "length"}

EndOfLine == globalBufferLength > 0 /\ buffer[globalBufferLength] = LF

\* The key goes down, or repeats.
Press(key) ==
  /\ port = <<>>
  /\ globalBufferLength < MaxLength /\ Len(typed) < MaxLength
  /\ Patient => ~Ending /\ ~(Polling /\ EndOfLine)
  /\ Cardinality(pressed \cup {key}) <= MaxPressed
  /\ pressed' = pressed \cup {key}
  /\ port' = Bytes(key, FALSE)
  /\ UNCHANGED <<handlerVars, bufferVars, globalChar, current, pc, index, result, histories>>

Release(key) ==
  /\ port = <<>> /\ key \in pressed
  /\ pressed' = pressed \ {key}
  /\ port' = Bytes(key, TRUE)
  /\ UNCHANGED <<handlerVars, bufferVars, globalChar, current, pc, index, result, histories>>

Reading == Polling \/ Ending \/ pc = "detach"

\* The clock switches to another process or back.
Tick ==
  /\ current' = IF current = "reader" THEN "other" ELSE "reader"
  /\ undisturbed' = (undisturbed /\ ~Reading)
  /\ UNCHANGED <<keyVars, handlerVars, bufferVars, globalChar, pc, index, result, typed, taken>>

-----------------------------------------------------------------------------
(***************************************************************************)
(* keyboardHandler.  Caps lock stays off: nothing sets it.                 *)
(***************************************************************************)
CtrlState == <<"KEY_CTRL_L", 2>> \in down' \/ <<"KEY_CTRL_L", 3>> \in down'
shiftState == <<"KEY_SHIFT_L", 2>> \in down'

CharOf(key) == keymap[key[1]][IF key[2] = 3 \/ shiftState THEN 2 ELSE 1]

HandlePrefix ==
  /\ Head(port).prefix
  /\ port' = Tail(port)
  /\ extcodeState' = TRUE
  /\ UNCHANGED <<down, bufferVars, globalChar, typed, taken>>

\* The key the byte stands for, with the prefix that came before it.
KeyOf(byte) == <<byte.code, IF extcodeState THEN 3 ELSE 2>>

\* Mutant: the prefix stays in force.
HandleBreakKeepingPrefix ==
  /\ ~Head(port).prefix /\ Head(port).break
  /\ port' = Tail(port)
  /\ down' = down \ {KeyOf(Head(port))}
  /\ UNCHANGED <<extcodeState, bufferVars, globalChar, typed, taken>>

HandleBreak ==
  /\ ~Head(port).prefix /\ Head(port).break
  /\ port' = Tail(port)
  /\ extcodeState' = FALSE
  /\ down' = down \ {KeyOf(Head(port))}
  /\ UNCHANGED <<bufferVars, globalChar, typed, taken>>

(***************************************************************************)
(* The address is that of the reader's buffer, the memory is that of the   *)
(* process that runs.  With nothing to delete a backspace is stored.       *)
(***************************************************************************)
Store(ch) ==
  IF ch = BS /\ globalBufferLength >= 1
  THEN globalBufferLength' = globalBufferLength - 1 /\ UNCHANGED buffer
  ELSE /\ globalBufferLength' = globalBufferLength + 1
       /\ buffer' = IF current = "reader"
                    THEN [buffer EXCEPT ![globalBufferLength + 1] = ch]
                    ELSE buffer

HandleMake ==
  /\ ~Head(port).prefix /\ ~Head(port).break
  /\ port' = Tail(port)
  /\ extcodeState' = FALSE
  /\ down' = down \cup {KeyOf(Head(port))}
  /\ LET ch == CharOf(KeyOf(Head(port)))
     IN  IF ch = NULL_CHAR \/ (CtrlState /\ IsLower(ch))
         THEN UNCHANGED <<bufferVars, globalChar, typed, taken>>
         ELSE /\ IF globalBuffer
                 THEN Store(ch)
                 ELSE UNCHANGED <<globalBufferLength, buffer>>
              /\ globalChar' = ch
              /\ taken' = FALSE
              /\ typed' = IF Polling THEN Append(typed, ch) ELSE typed
              /\ UNCHANGED globalBuffer

keyboardHandler ==
  /\ port # <<>>
  /\ HandlePrefix \/ HandleBreak \/ HandleMake
  /\ UNCHANGED <<pressed, current, pc, index, result, undisturbed>>

-----------------------------------------------------------------------------
At(label) == current = "reader" /\ pc = label

Goto(label) == pc' = label

\* The reader goes on without changing anything else.
OnlyGoto(label) ==
  /\ Goto(label)
  /\ UNCHANGED <<keyVars, handlerVars, bufferVars, globalChar, current, index, result, histories>>

\* ReadChar(): poll, copy, clear.
CallReadChar == At("out") /\ OnlyGoto("poll")

CharSeen == At("poll") /\ globalChar # NULL_CHAR /\ OnlyGoto("copy")

CharCopied ==
  /\ At("copy") /\ Goto("clear")
  /\ result' = <<globalChar>>
  /\ taken' = TRUE
  /\ UNCHANGED <<keyVars, handlerVars, bufferVars, globalChar, current, index, typed,
                 undisturbed>>

\* Mutant: the character stays.
CharKept == At("clear") /\ OnlyGoto("out")

CharCleared ==
  /\ At("clear") /\ Goto("out")
  /\ globalChar' = NULL_CHAR
  /\ result' = <<>>
  /\ UNCHANGED <<keyVars, handlerVars, bufferVars, current, index, histories>>

-----------------------------------------------------------------------------
LINE_LIMIT == 1024

(***************************************************************************)
(* ReadLine() sets the buffer; so it does again after a line that is too   *)
(* long.  For a length above the limit it returns 0 and does nothing.      *)
(***************************************************************************)
CallReadLine ==
  /\ At("out") \/ At("again")
  /\ LineLength <= LINE_LIMIT
  /\ Goto("line")
  /\ globalBuffer' = TRUE
  /\ typed' = <<>> /\ undisturbed' = TRUE
  /\ UNCHANGED <<keyVars, handlerVars, globalBufferLength, buffer, globalChar,
                 current, index, result, taken>>

(***************************************************************************)
(* The test of the loop reads the length, and if that is not 0 once more   *)
(* to find the last character: a backspace between the two may have made   *)
(* it 0, and the byte before the buffer is looked at.                      *)
(***************************************************************************)
LengthSeen == At("line") /\ globalBufferLength # 0 /\ OnlyGoto("index")

\* For the test, and later for the terminator.
IndexRead ==
  /\ At("index") \/ At("cut")
  /\ Goto(IF pc = "index" THEN "character" ELSE "terminate")
  /\ index' = globalBufferLength
  /\ UNCHANGED <<keyVars, handlerVars, bufferVars, globalChar, current, result, histories>>

CharacterRead ==
  /\ At("character")
  /\ Goto(IF buffer[index] = LF THEN "check" ELSE "line")
  /\ index' = 0
  /\ UNCHANGED <<keyVars, handlerVars, bufferVars, globalChar, current, result, histories>>

LengthChecked == At("check") /\ OnlyGoto(IF globalBufferLength > LineLength THEN "retry" ELSE "cut")

\* The string's terminator goes over the newline.
LineCut ==
  /\ At("terminate") /\ Goto("length")
  /\ buffer' = [buffer EXCEPT ![index] = NULL_CHAR]
  /\ index' = 0
  /\ UNCHANGED <<keyVars, handlerVars, globalBuffer, globalBufferLength, globalChar,
                 current, result, histories>>

\* The first n characters of the buffer.
Written(n) == [i \in 1 .. n |-> buffer[i]]

\* The length that is returned says how much of the buffer is the line; it may be -1.
LineTaken ==
  /\ At("length") /\ Goto("detach")
  /\ result' = IF globalBufferLength = 0 THEN -1 ELSE Written(globalBufferLength - 1)
  /\ UNCHANGED <<keyVars, handlerVars, bufferVars, globalChar, current, index, histories>>

BufferDetached ==
  /\ At("detach") \/ At("retry")
  /\ Goto(IF pc = "detach" THEN "empty" ELSE "restart")
  /\ globalBuffer' = FALSE
  /\ result' = <<>> /\ typed' = <<>>
  /\ UNCHANGED <<keyVars, handlerVars, globalBufferLength, buffer, globalChar, current, index,
                 undisturbed, taken>>

\* Mutant: the next line starts behind this one.
LengthKept == (At("empty") \/ At("restart")) /\ OnlyGoto(IF pc = "empty" THEN "out" ELSE "again")

LengthReset ==
  /\ At("empty") \/ At("restart")
  /\ Goto(IF pc = "empty" THEN "out" ELSE "again")
  /\ globalBufferLength' = 0
  /\ UNCHANGED <<keyVars, handlerVars, globalBuffer, buffer, globalChar, current, index,
                 result, histories>>

Reader ==
  \/ CallReadChar \/ CharSeen \/ CharCopied \/ CharCleared
  \/ CallReadLine \/ LengthSeen \/ IndexRead \/ CharacterRead
  \/ LengthChecked \/ LineCut \/ LineTaken
  \/ BufferDetached \/ LengthReset

Next ==
  \/ \E key \in Keys : Press(key)
  \/ \E key \in Keys : Release(key)
  \/ Tick
  \/ keyboardHandler
  \/ Reader

Spec == Init /\ [][Next]_vars

(***************************************************************************)
(* The handler runs for each byte, and a process that keeps the processor  *)
(* gets on with its system call.  Neither the user nor the clock need do   *)
(* anything.                                                               *)
(***************************************************************************)
FairSpec == Spec /\ WF_vars(keyboardHandler) /\ WF_vars(Reader)
-----------------------------------------------------------------------------
(***************************************************************************)
(* When the handler has seen all bytes it knows exactly the keys that are  *)
(* down, a key apart from its twin on the right: no shift or control key   *)
(* hangs after it was released.                                            *)
(***************************************************************************)
KeysTracked == port = <<>> => down = pressed /\ ~extcodeState

(***************************************************************************)
(* ReadChar() returns a character, and none that it returned before,       *)
(* wherever the handler comes between its steps.                           *)
(***************************************************************************)
CharacterIsNew == pc = "copy" => globalChar # NULL_CHAR /\ ~taken

\* What is left of the first n characters of s: a backspace takes the one
\* before it away, and is kept where there is none.
Edited(s) ==
  LET after[n \in 0 .. Len(s)] ==
        IF n = 0 THEN <<>>
        ELSE IF s[n] = BS /\ after[n - 1] # <<>>
             THEN SubSeq(after[n - 1], 1, Len(after[n - 1]) - 1)
             ELSE Append(after[n - 1], s[n])
  IN  after[Len(s)]

(***************************************************************************)
(* The line ReadLine() returns is what was typed since it began, edited,   *)
(* without the Enter, whatever was read before and wherever the handler    *)
(* comes between its reads of the length and of the buffer, if the user    *)
(* waits for it, no other process gets the processor and the byte before   *)
(* the buffer is no newline.                                               *)
(***************************************************************************)
LineAsTyped ==
  Patient /\ Before # LF /\ pc = "detach" /\ undisturbed => Append(result, LF) = Edited(typed)

(***************************************************************************)
(* "Enter ends the reading" (key_board.c:325): once a newline is the last  *)
(* character in the buffer, ReadLine() leaves its loop, if no other        *)
(* process gets the processor.  It does not if the user types on: the      *)
(* newline is then no longer the last character when the loop looks, and   *)
(* it polls on.                                                            *)
(***************************************************************************)
EnterEndsReading == (Polling /\ EndOfLine) ~> ~(Polling /\ undisturbed)

(***************************************************************************)
(* "Enter ends the reading" (key_board.c:325), and nothing else does: the  *)
(* loop is left when the last key was Enter.  With a newline in the byte   *)
(* before the buffer it is left on a backspace, which comes between the    *)
(* two reads of the length; ReadLine() then writes before the buffer and   *)
(* returns -1.                                                             *)
(***************************************************************************)
OnlyEnterEndsReading ==
  Patient /\ undisturbed /\ pc = "check" => typed # <<>> /\ typed[Len(typed)] = LF
=============================================================================
