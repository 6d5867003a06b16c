--------------------------- MODULE KeyboardProofs ---------------------------
(***************************************************************************)
(* Invariants of the keyboard, for every set of keys, every length of      *)
(* lines and any number of keys that are down at once.                     *)
(***************************************************************************)
EXTENDS Keyboard, TLAPS, WellFoundedInduction

Chars == {"a", "A", LF, BS, NULL_CHAR}

-----------------------------------------------------------------------------
(***************************************************************************)
(* The specification writes loops as functions defined by recursion.  What *)
(* proofs about them need: induction over the natural numbers stated with  *)
(* a set, and that a step repeated a number of times is defined.           *)
(***************************************************************************)
\* A set of natural numbers has a least one.
LEMMA LeastNatural ==
  ASSUME NEW T \in SUBSET Nat, T # {}
  PROVE  \E m \in T : \A n \in T : m <= n
<1>1. IsWellFoundedOn(OpToRel(<, Nat), Nat)
  BY NatLessThanWellFounded
<1>2. PICK m \in T : \A n \in T : ~(<<n, m>> \in OpToRel(<, Nat))
  BY <1>1, WFMin
<1>3. \A n \in T : ~(n < m)
  BY <1>2 DEF OpToRel
<1> QED
  BY <1>3

LEMMA SetInduction ==
  ASSUME NEW T, 0 \in T, \A n \in Nat : n \in T => n + 1 \in T
  PROVE  \A n \in Nat : n \in T
<1> DEFINE Rest == Nat \ T
<1> SUFFICES ASSUME Rest # {} PROVE FALSE
  OBVIOUS
<1>1. PICK m \in Rest : \A n \in Rest : m <= n
  <2>1. Rest \in SUBSET Nat
    OBVIOUS
  <2> HIDE DEF Rest
  <2> QED
    BY <2>1, LeastNatural
<1>2. m # 0 /\ m - 1 \in Nat
  OBVIOUS
<1>3. m - 1 \in T
  BY <1>1, <1>2
<1> QED
  BY <1>2, <1>3

\* The n-th step takes f[n - 1] to g of n and that.
Iterates(f, x, g, L) == f[0] = x /\ \A n \in 1 .. L : f[n] = g[<<n, f[n - 1]>>]

LEMMA IterationExists ==
  ASSUME NEW X, NEW x \in X, NEW L \in Nat, NEW g \in [(1 .. L) \X X -> X]
  PROVE  \E f \in [0 .. L -> X] : Iterates(f, x, g, L)
<1> DEFINE T == {n \in Nat : n <= L => \E f \in [0 .. n -> X] : Iterates(f, x, g, n)}
<1>1. 0 \in T
  <2>1. /\ [i \in 0 .. 0 |-> x] \in [0 .. 0 -> X]
        /\ Iterates([i \in 0 .. 0 |-> x], x, g, 0)
    BY DEF Iterates
  <2> QED
    BY <2>1
<1>2. ASSUME NEW n \in Nat, n \in T PROVE n + 1 \in T
  <2> SUFFICES ASSUME n + 1 <= L
               PROVE  \E f \in [0 .. n + 1 -> X] : Iterates(f, x, g, n + 1)
    OBVIOUS
  <2>1. PICK f \in [0 .. n -> X] : Iterates(f, x, g, n)
    BY <1>2
  <2> DEFINE e == [i \in 0 .. n + 1 |-> IF i = n + 1 THEN g[<<n + 1, f[n]>>] ELSE f[i]]
  <2>2. e \in [0 .. n + 1 -> X]
    <3>1. g[<<n + 1, f[n]>>] \in X
      OBVIOUS
    <3> QED
      BY <3>1
  <2>3. e[n + 1] = g[<<n + 1, f[n]>>] /\ \A i \in 0 .. n : e[i] = f[i]
    OBVIOUS
  <2> HIDE DEF e
  <2>4. e[0] = x
    BY <2>1, <2>3 DEF Iterates
  <2>5. ASSUME NEW i \in 1 .. n + 1 PROVE e[i] = g[<<i, e[i - 1]>>]
    <3>1. CASE i = n + 1
      <4>1. i - 1 = n /\ e[n] = f[n]
        BY <2>3, <3>1
      <4> QED
        BY <2>3, <3>1, <4>1
    <3>2. CASE i # n + 1
      <4>1. i \in 1 .. n /\ e[i] = f[i] /\ e[i - 1] = f[i - 1]
        BY <2>3, <3>2
      <4>2. f[i] = g[<<i, f[i - 1]>>]
        BY <2>1, <4>1 DEF Iterates
      <4> QED
        BY <4>1, <4>2
    <3> QED
      BY <3>1, <3>2
  <2>6. Iterates(e, x, g, n + 1)
    BY <2>4, <2>5, Zenon DEF Iterates
  <2> QED
    BY <2>2, <2>6
<1>3. L \in T
  <2> HIDE DEF T
  <2> QED
    BY <1>1, <1>2, SetInduction
<1> QED
  BY <1>3

-----------------------------------------------------------------------------
(***************************************************************************)
(* The bytes of a key.                                                     *)
(***************************************************************************)
LastByte(key, breakcode) == [prefix |-> FALSE, code |-> key[1], break |-> breakcode]

LEMMA AppendPair ==
  ASSUME NEW a, NEW b
  PROVE  Append(<<a>>, b) = <<a, b>>
<1> DEFINE s == Append(<<a>>, b)
           t == <<a, b>>
<1>1. <<a>> \in Seq({a, b})
  OBVIOUS
<1>2. s \in Seq({a, b}) /\ Len(s) = 2 /\ s[1] = a /\ s[2] = b
  BY <1>1
<1>3. t \in Seq({a, b}) /\ Len(t) = 2 /\ t[1] = a /\ t[2] = b
  OBVIOUS
<1> HIDE DEF s, t
<1>4. s = t
  BY <1>2, <1>3
<1> QED
  BY <1>4 DEF s, t

LEMMA BytesAre ==
  ASSUME NEW key \in Keys, NEW breakcode \in BOOLEAN
  PROVE  LET all == Bytes(key, breakcode)
             last == LastByte(key, breakcode)
         IN  /\ all # <<>> /\ key = <<key[1], key[2]>> /\ key[2] \in {2, 3}
             /\ key[1] \in KeyCodes
             /\ key[2] = 2 => all = <<last>>
             /\ key[2] = 3 => Tail(all) = <<last>> /\ Head(all).prefix
             /\ Head(<<last>>) = last /\ Tail(<<last>>) = <<>>
             /\ ~last.prefix /\ last.break = breakcode /\ last.code = key[1]
<1>1. key = <<key[1], key[2]>> /\ key[2] \in {2, 3} /\ key[1] \in KeyCodes
  BY KeysAssumption
<1> DEFINE last == LastByte(key, breakcode)
           all == Bytes(key, breakcode)
<1>2. ~last.prefix /\ last.break = breakcode /\ last.code = key[1]
  BY DEF LastByte
<1>3. all = Append(Prefix(key), last)
  BY DEF Bytes, LastByte
<1>4. /\ key[2] = 2 => Prefix(key) = <<>>
      /\ key[2] = 3 => \E first : first.prefix /\ Prefix(key) = <<first>>
  <2>1. [prefix |-> TRUE].prefix
    OBVIOUS
  <2>2. key[2] = 3 => Prefix(key) = <<[prefix |-> TRUE]>>
    BY DEF Prefix
  <2>3. key[2] = 3 => \E first : first.prefix /\ Prefix(key) = <<first>>
    BY <2>1, <2>2, Zenon
  <2>4. key[2] = 2 => Prefix(key) = <<>>
    BY DEF Prefix
  <2> QED
    BY <2>3, <2>4
<1> HIDE DEF last, all
<1>5. Head(<<last>>) = last /\ Tail(<<last>>) = <<>> /\ <<last>> # <<>>
  OBVIOUS
<1>6. key[2] = 2 => all = <<last>>
  BY <1>3, <1>4
<1>7. ASSUME key[2] = 3 PROVE Tail(all) = <<last>> /\ Head(all).prefix /\ all # <<>>
  <2>1. PICK first : first.prefix /\ Prefix(key) = <<first>>
    BY <1>4, <1>7
  <2>2. Append(<<first>>, last) = <<first, last>>
    BY AppendPair
  <2>3. all = <<first, last>>
    BY <1>3, <2>1, <2>2, Zenon
  <2>4. /\ Tail(<<first, last>>) = <<last>> /\ Head(<<first, last>>) = first
        /\ <<first, last>> # <<>>
    OBVIOUS
  <2> QED
    BY <2>1, <2>3, <2>4, Zenon
<1>8. key[2] = 2 => all # <<>>
  BY <1>5, <1>6
<1>9. all # <<>>
  BY <1>1, <1>7, <1>8
<1>10. /\ all # <<>> /\ key = <<key[1], key[2]>> /\ key[2] \in {2, 3} /\ key[1] \in KeyCodes
       /\ key[2] = 2 => all = <<last>>
       /\ key[2] = 3 => Tail(all) = <<last>> /\ Head(all).prefix
       /\ Head(<<last>>) = last /\ Tail(<<last>>) = <<>>
       /\ ~last.prefix /\ last.break = breakcode /\ last.code = key[1]
  BY <1>1, <1>2, <1>5, <1>6, <1>7, <1>9, Zenon
<1> QED
  BY <1>10 DEF last, all

-----------------------------------------------------------------------------
(***************************************************************************)
(* What is on its way from the controller: all bytes of one key, or the    *)
(* last one, when the prefix has been seen.                                *)
(***************************************************************************)
Sent(key, breakcode) ==
  /\ \/ port = Bytes(key, breakcode) /\ extcodeState = FALSE
     \/ port = <<LastByte(key, breakcode)>> /\ key[2] = 3 /\ extcodeState = TRUE
  /\ pressed = IF breakcode THEN down \ {key} ELSE down \cup {key}

KeysInv ==
  \/ port = <<>> /\ down = pressed /\ extcodeState = FALSE
  \/ \E key \in Keys, breakcode \in BOOLEAN : Sent(key, breakcode)

\* What the first byte can be.
LEMMA HeadIs ==
  ASSUME NEW key \in Keys, NEW breakcode \in BOOLEAN, Sent(key, breakcode)
  PROVE  \/ /\ Head(port).prefix
            /\ key[2] = 3 /\ Tail(port) = <<LastByte(key, breakcode)>>
         \/ /\ ~Head(port).prefix /\ Head(port).break = breakcode
            /\ KeyOf(Head(port)) = key /\ key[1] \in KeyCodes /\ Tail(port) = <<>>
<1> DEFINE last == LastByte(key, breakcode)
           all == Bytes(key, breakcode)
           first == [prefix |-> TRUE]
<1>1. /\ key = <<key[1], key[2]>> /\ key[2] \in {2, 3} /\ key[1] \in KeyCodes
      /\ key[2] = 2 => all = <<last>>
      /\ key[2] = 3 => Tail(all) = <<last>> /\ Head(all).prefix
      /\ Head(<<last>>) = last /\ Tail(<<last>>) = <<>>
      /\ ~last.prefix /\ last.break = breakcode /\ last.code = key[1]
  BY BytesAre
<1>2. \/ port = all /\ extcodeState = FALSE
      \/ port = <<last>> /\ key[2] = 3 /\ extcodeState = TRUE
  BY DEF Sent
<1> HIDE DEF last, all
<1>3. CASE port = all /\ key[2] = 3
  BY <1>1, <1>3 DEF last
<1>4. CASE port = <<last>> /\ (extcodeState <=> key[2] = 3)
  <2>1. Head(port) = last /\ Tail(port) = <<>>
    BY <1>1, <1>4
  <2>2. KeyOf(last) = <<key[1], key[2]>>
    BY <1>1, <1>4 DEF KeyOf
  <2> QED
    BY <1>1, <2>1, <2>2
<1> QED
  BY <1>1, <1>2, <1>3, <1>4

LEMMA KeysStep ==
  ASSUME KeysInv, [Next]_vars
  PROVE  KeysInv'
<1>1. ASSUME NEW key \in Keys, NEW breakcode \in BOOLEAN,
             port = <<>>, port' = Bytes(key, breakcode),
             down' = down, extcodeState' = extcodeState,
             IF breakcode THEN key \in pressed /\ pressed' = pressed \ {key}
                          ELSE pressed' = pressed \cup {key}
      PROVE  KeysInv'
  <2>1. \A k \in Keys, b \in BOOLEAN : ~Sent(k, b)
    <3>1. ASSUME NEW k \in Keys, NEW b \in BOOLEAN, Sent(k, b) PROVE FALSE
      <4>1. port # <<>>
        BY <3>1, BytesAre DEF Sent
      <4> QED
        BY <1>1, <4>1
    <3> QED
      BY <3>1
  <2>2. down = pressed /\ extcodeState = FALSE
    BY <2>1 DEF KeysInv
  <2>3. Sent(key, breakcode)'
    BY <1>1, <2>2 DEF Sent
  <2> QED
    BY <2>3 DEF KeysInv
<1>2. ASSUME NEW key \in Keys, Press(key) PROVE KeysInv'
  BY <1>1, <1>2 DEF Press, handlerVars
<1>3. ASSUME NEW key \in Keys, Release(key) PROVE KeysInv'
  BY <1>1, <1>3 DEF Release, handlerVars
<1>4. ASSUME keyboardHandler PROVE KeysInv'
  <2>1. port # <<>> /\ pressed' = pressed /\ (HandlePrefix \/ HandleBreak \/ HandleMake)
    BY <1>4 DEF keyboardHandler
  <2>2. PICK key \in Keys, breakcode \in BOOLEAN : Sent(key, breakcode)
    BY <2>1 DEF KeysInv
  <2>3. \/ /\ Head(port).prefix
           /\ key[2] = 3 /\ Tail(port) = <<LastByte(key, breakcode)>>
        \/ /\ ~Head(port).prefix /\ Head(port).break = breakcode
           /\ KeyOf(Head(port)) = key /\ Tail(port) = <<>>
    BY <2>2, HeadIs
  <2>4. pressed = IF breakcode THEN down \ {key} ELSE down \cup {key}
    BY <2>2 DEF Sent
  <2>5. CASE HandlePrefix
    <3>1. Sent(key, breakcode)'
      BY <2>1, <2>3, <2>4, <2>5 DEF HandlePrefix, Sent, LastByte
    <3> QED
      BY <3>1 DEF KeysInv
  <2>6. CASE HandleBreak
    BY <2>1, <2>3, <2>4, <2>6 DEF HandleBreak, KeysInv
  <2>7. CASE HandleMake
    <3>1. /\ ~Head(port).prefix /\ ~Head(port).break /\ port' = Tail(port)
          /\ extcodeState' = FALSE /\ down' = down \cup {KeyOf(Head(port))}
      BY <2>7 DEF HandleMake
    <3> QED
      BY <2>1, <2>3, <2>4, <3>1 DEF KeysInv
  <2> QED
    BY <2>1, <2>5, <2>6, <2>7
<1>5. ASSUME UNCHANGED <<keyVars, handlerVars>> PROVE KeysInv'
  <2>1. port' = port /\ pressed' = pressed /\ down' = down /\ extcodeState' = extcodeState
    BY <1>5 DEF keyVars, handlerVars
  <2> QED
    BY <2>1 DEF KeysInv, Sent
<1>6. ASSUME Tick \/ Reader PROVE UNCHANGED <<keyVars, handlerVars>>
  BY <1>6 DEF Tick, Reader, CallReadChar, CharSeen, CharCopied, CharCleared, CallReadLine,
              LengthSeen, IndexRead, CharacterRead, LengthChecked, LineCut, LineTaken,
              BufferDetached, LengthReset, OnlyGoto
<1>7. CASE UNCHANGED vars
  BY <1>5, <1>7 DEF vars
<1> QED
  BY <1>2, <1>3, <1>4, <1>5, <1>6, <1>7 DEF Next

(***************************************************************************)
(* When the handler has seen all bytes it knows exactly the keys that are  *)
(* down, a key apart from its twin (KeysTracked).                          *)
(***************************************************************************)
THEOREM KeysAreTracked == Spec => []KeysTracked
<1>1. Init => KeysInv
  BY DEF Init, KeysInv
<1>2. KeysInv => KeysTracked
  <2> SUFFICES ASSUME KeysInv, port = <<>> PROVE down = pressed /\ ~extcodeState
    BY DEF KeysTracked
  <2>1. ASSUME NEW k \in Keys, NEW b \in BOOLEAN, Sent(k, b) PROVE FALSE
    BY <2>1, BytesAre DEF Sent
  <2> QED
    BY <2>1 DEF KeysInv
<1> QED
  BY <1>1, <1>2, KeysStep, PTL DEF Spec
-----------------------------------------------------------------------------
(***************************************************************************)
(* A character that was returned stays in globalChar only until it is      *)
(* cleared, or until the handler puts another one there.                   *)
(***************************************************************************)
CharInv ==
  /\ taken \in BOOLEAN
  /\ taken /\ globalChar # NULL_CHAR => pc = "clear"
  /\ pc = "copy" => globalChar # NULL_CHAR /\ ~taken

LEMMA CharStep ==
  ASSUME CharInv, [Next]_vars
  PROVE  CharInv'
<1>1. ASSUME UNCHANGED <<globalChar, taken>>, pc' = pc PROVE CharInv'
  BY <1>1 DEF CharInv
<1>2. ASSUME NEW key \in Keys, Press(key) \/ Release(key) PROVE CharInv'
  BY <1>1, <1>2 DEF Press, Release, histories
<1>3. CASE Tick
  BY <1>1, <1>3 DEF Tick
<1>4. CASE keyboardHandler
  <2>1. pc' = pc
    BY <1>4 DEF keyboardHandler
  <2>2. \/ UNCHANGED <<globalChar, taken>>
        \/ globalChar' # NULL_CHAR /\ taken' = FALSE
    <3>1. CASE HandlePrefix \/ HandleBreak
      BY <3>1 DEF HandlePrefix, HandleBreak
    <3>2. CASE HandleMake
      <4>1. \/ UNCHANGED <<globalChar, taken>>
            \/ /\ CharOf(KeyOf(Head(port))) # NULL_CHAR
               /\ globalChar' = CharOf(KeyOf(Head(port))) /\ taken' = FALSE
        BY <3>2, Zenon DEF HandleMake
      <4> QED
        BY <4>1
    <3> QED
      BY <1>4, <3>1, <3>2 DEF keyboardHandler
  <2>3. CASE UNCHANGED <<globalChar, taken>>
    BY <1>1, <2>1, <2>3
  <2>4. CASE globalChar' # NULL_CHAR /\ taken' = FALSE
    BY <2>4 DEF CharInv
  <2> QED
    BY <2>2, <2>3, <2>4
<1>5. CASE CharSeen
  BY <1>5 DEF CharSeen, At, OnlyGoto, Goto, histories, CharInv
<1>6. CASE CharCopied
  BY <1>6 DEF CharCopied, At, Goto, CharInv
<1>7. CASE CharCleared
  BY <1>7 DEF CharCleared, At, Goto, histories, CharInv
<1>8. ASSUME UNCHANGED <<globalChar, taken>>, pc' # "copy", pc # "clear" PROVE CharInv'
  BY <1>8 DEF CharInv
<1>9. CASE CallReadChar \/ LengthSeen \/ LengthChecked \/ LineCut \/ LineTaken
  BY <1>8, <1>9 DEF CallReadChar, LengthSeen, LengthChecked, LineCut, LineTaken, At, OnlyGoto,
                    Goto, histories
<1>10. CASE CallReadLine \/ IndexRead \/ CharacterRead \/ BufferDetached \/ LengthReset
  BY <1>8, <1>10 DEF CallReadLine, IndexRead, CharacterRead, BufferDetached, LengthReset, At,
                     Goto, histories
<1>11. CASE UNCHANGED vars
  BY <1>1, <1>11 DEF vars, histories
<1> QED
  BY <1>2, <1>3, <1>4, <1>5, <1>6, <1>7, <1>9, <1>10, <1>11 DEF Next, Reader

(***************************************************************************)
(* ReadChar() returns a character, and none twice (CharacterIsNew).        *)
(***************************************************************************)
THEOREM CharactersAreNew == Spec => []CharacterIsNew
<1>1. Init => CharInv
  BY DEF Init, CharInv
<1>2. CharInv => CharacterIsNew
  BY DEF CharInv, CharacterIsNew
<1> QED
  BY <1>1, <1>2, CharStep, PTL DEF Spec
-----------------------------------------------------------------------------
(***************************************************************************)
(* Edited takes the characters of a sequence one after the other.          *)
(***************************************************************************)
Edit(line, ch) ==
  IF ch = BS /\ line # <<>> THEN SubSeq(line, 1, Len(line) - 1) ELSE Append(line, ch)

LEMMA EditHasType ==
  ASSUME NEW line \in Seq(Chars), NEW ch \in Chars
  PROVE  Edit(line, ch) \in Seq(Chars)
<1>1. line # <<>> => SubSeq(line, 1, Len(line) - 1) \in Seq(Chars)
  OBVIOUS
<1> QED
  BY <1>1 DEF Edit

IsEdit(f, s) == f = [n \in 0 .. Len(s) |-> IF n = 0 THEN <<>> ELSE Edit(f[n - 1], s[n])]

EditOf(s) == CHOOSE f : IsEdit(f, s)

LEMMA EditOfIs ==
  ASSUME NEW s \in Seq(Chars)
  PROVE  /\ Edited(s) = EditOf(s)[Len(s)]
         /\ EditOf(s)[0] = <<>>
         /\ \A n \in 1 .. Len(s) : EditOf(s)[n] = Edit(EditOf(s)[n - 1], s[n])
<1> DEFINE L == Len(s)
           step == [a \in (1 .. L) \X Seq(Chars) |-> Edit(a[2], s[a[1]])]
<1>1. L \in Nat /\ <<>> \in Seq(Chars) /\ \A n \in 1 .. L : s[n] \in Chars
  OBVIOUS
<1>2. Edited(s) = EditOf(s)[L]
  BY Zenon DEF Edited, EditOf, IsEdit, Edit
<1> HIDE DEF L
<1>3. step \in [(1 .. L) \X Seq(Chars) -> Seq(Chars)]
  BY <1>1, EditHasType
<1>4. \A n \in 1 .. L, line \in Seq(Chars) : step[<<n, line>>] = Edit(line, s[n])
  OBVIOUS
<1> HIDE DEF step
<1>5. PICK f \in [0 .. L -> Seq(Chars)] : Iterates(f, <<>>, step, L)
  BY <1>1, <1>3, IterationExists
<1>6. f[0] = <<>> /\ \A n \in 1 .. L : f[n] = Edit(f[n - 1], s[n])
  <2>1. f[0] = <<>> /\ \A n \in 1 .. L : f[n] = step[<<n, f[n - 1]>>]
    BY <1>5 DEF Iterates
  <2>2. \A n \in 1 .. L : f[n - 1] \in Seq(Chars)
    BY <1>1
  <2> QED
    BY <1>4, <2>1, <2>2
<1>7. IsEdit(f, s)
  <2>1. \A n \in 0 .. L : f[n] = IF n = 0 THEN <<>> ELSE Edit(f[n - 1], s[n])
    BY <1>1, <1>6
  <2>2. f = [n \in 0 .. L |-> IF n = 0 THEN <<>> ELSE Edit(f[n - 1], s[n])]
    BY <2>1
  <2> QED
    BY <2>2, Zenon DEF IsEdit, L
<1>8. IsEdit(EditOf(s), s)
  BY <1>7, Zenon DEF EditOf
<1> DEFINE Way == EditOf(s)
<1> HIDE DEF Way
<1>9. Way = [n \in 0 .. L |-> IF n = 0 THEN <<>> ELSE Edit(Way[n - 1], s[n])]
  BY <1>8, Zenon DEF Way, IsEdit, L
<1>10. Way[0] = <<>> /\ \A n \in 1 .. L : Way[n] = Edit(Way[n - 1], s[n])
  BY <1>1, <1>9
<1> QED
  BY <1>2, <1>10 DEF Way, L

LEMMA EditedAppend ==
  ASSUME NEW s \in Seq(Chars), NEW ch \in Chars
  PROVE  Edited(Append(s, ch)) = Edit(Edited(s), ch)
<1> DEFINE L == Len(s)
           t == Append(s, ch)
           T == {n \in Nat : n <= L => EditOf(t)[n] = EditOf(s)[n]}
<1>1. /\ L \in Nat /\ t \in Seq(Chars) /\ Len(t) = L + 1 /\ t[L + 1] = ch
      /\ \A n \in 1 .. L : t[n] = s[n]
  OBVIOUS
<1>2. /\ Edited(s) = EditOf(s)[L] /\ EditOf(s)[0] = <<>>
      /\ \A n \in 1 .. L : EditOf(s)[n] = Edit(EditOf(s)[n - 1], s[n])
  BY EditOfIs
<1> HIDE DEF L, t
<1>3. /\ Edited(t) = EditOf(t)[L + 1] /\ EditOf(t)[0] = <<>>
      /\ \A n \in 1 .. L + 1 : EditOf(t)[n] = Edit(EditOf(t)[n - 1], t[n])
  BY <1>1, EditOfIs
<1>4. 0 \in T
  BY <1>2, <1>3
<1>5. ASSUME NEW n \in Nat, n \in T PROVE n + 1 \in T
  <2> SUFFICES ASSUME n + 1 <= L PROVE EditOf(t)[n + 1] = EditOf(s)[n + 1]
    OBVIOUS
  <2>1. /\ n + 1 \in 1 .. L /\ n + 1 \in 1 .. L + 1 /\ (n + 1) - 1 = n
        /\ EditOf(t)[n] = EditOf(s)[n]
    BY <1>1, <1>5
  <2> QED
    BY <1>1, <1>2, <1>3, <2>1
<1> HIDE DEF T
<1>6. L \in T
  BY <1>1, <1>4, <1>5, SetInduction
<1>7. EditOf(t)[L] = EditOf(s)[L]
  BY <1>1, <1>6 DEF T
<1>8. EditOf(t)[L + 1] = Edit(EditOf(t)[L], t[L + 1])
  BY <1>1, <1>3
<1>9. Edited(t) = Edit(Edited(s), ch)
  BY <1>1, <1>2, <1>3, <1>7, <1>8
<1> QED
  BY <1>9 DEF t

LEMMA EditedNothing == Edited(<<>>) = <<>>
<1>1. <<>> \in Seq(Chars) /\ Len(<<>>) = 0
  OBVIOUS
<1> QED
  BY <1>1, EditOfIs
-----------------------------------------------------------------------------
(***************************************************************************)
(* The line.  What is in the buffer up to globalBufferLength is what was   *)
(* typed, edited, as long as the reader polls; from the test that finds    *)
(* the newline on it is that with the newline, which must be the last      *)
(* character and stay so: a user who waits sends no further character,     *)
(* and so none is on its way then.                                         *)
(***************************************************************************)
Labels ==
  {"out", "poll", "copy", "clear", "line", "index", "character", "check", "cut", "terminate",
   "length", "detach", "retry", "empty", "restart", "again"}

Attached ==
  pc \in {"line", "index", "character", "check", "cut", "terminate", "length", "detach", "retry"}

LineTypes ==
  /\ globalBufferLength \in 0 .. MaxLength /\ index \in 0 .. MaxLength
  /\ buffer \in [0 .. MaxLength -> Chars]
  /\ typed \in Seq(Chars)
  /\ pc \in Labels
  /\ globalBuffer = Attached
  /\ pc \in {"out", "poll", "copy", "clear", "again"} => globalBufferLength = 0
  /\ Before # LF => buffer[0] # LF

\* The user waits, and no newline is before the buffer.
Waits == Patient /\ Before # LF

CharAhead == port # <<>> /\ ~port[Len(port)].break

CharAheadFits ==
  CharAhead =>
    /\ globalBufferLength < MaxLength
    /\ Waits => ~Ending /\ ~(Polling /\ EndOfLine)

(***************************************************************************)
(* Between its reads of the length and of the buffer the handler may edit  *)
(* the line, but what the reader then finds at the old place is a newline  *)
(* only if that is the last character again.                               *)
(***************************************************************************)
IndexIs ==
  /\ Ending => globalBufferLength > 0
  /\ pc = "character" /\ buffer[index] = LF => EndOfLine /\ index = globalBufferLength
  /\ pc = "terminate" => index = globalBufferLength

LineIs ==
  /\ Polling => Written(globalBufferLength) = Edited(typed)
  /\ Ending => Append(Written(globalBufferLength - 1), LF) = Edited(typed)
  /\ pc = "detach" => Append(result, LF) = Edited(typed)

LineInv ==
  /\ LineTypes
  /\ CharAheadFits
  /\ Waits => IndexIs
  /\ undisturbed \in BOOLEAN
  /\ undisturbed /\ Reading => current = "reader"
  /\ Waits /\ undisturbed => LineIs

\* The start of the buffer as a sequence.
LEMMA StartIs ==
  ASSUME NEW b \in [0 .. MaxLength -> Chars], NEW n \in 0 .. MaxLength
  PROVE  /\ [i \in 1 .. n |-> b[i]] \in Seq(Chars) /\ Len([i \in 1 .. n |-> b[i]]) = n
         /\ \A i \in 1 .. n : [k \in 1 .. n |-> b[k]][i] = b[i]
<1>1. MaxLength \in Nat /\ n \in Nat /\ \A i \in 1 .. n : b[i] \in Chars
  BY KeysAssumption
<1> QED
  BY <1>1

\* It is a character longer.
LEMMA OneMore ==
  ASSUME NEW b \in [0 .. MaxLength -> Chars], NEW c \in [0 .. MaxLength -> Chars],
         NEW n \in 1 .. MaxLength, \A i \in 1 .. n - 1 : c[i] = b[i]
  PROVE  /\ [i \in 1 .. n |-> c[i]] = Append([i \in 1 .. n - 1 |-> b[i]], c[n])
         /\ SubSeq([i \in 1 .. n |-> b[i]], 1, n - 1) = [i \in 1 .. n - 1 |-> b[i]]
<1> DEFINE long == [i \in 1 .. n |-> c[i]]
           whole == [i \in 1 .. n |-> b[i]]
           short == [i \in 1 .. n - 1 |-> b[i]]
           more == Append(short, c[n])
           back == SubSeq(whole, 1, n - 1)
<1>1. n \in 0 .. MaxLength /\ n - 1 \in 0 .. MaxLength /\ n \in Nat /\ c[n] \in Chars
  BY KeysAssumption
<1>2. long \in Seq(Chars) /\ Len(long) = n /\ \A i \in 1 .. n : long[i] = c[i]
  BY <1>1, StartIs
<1>3. whole \in Seq(Chars) /\ Len(whole) = n /\ \A i \in 1 .. n : whole[i] = b[i]
  BY <1>1, StartIs
<1>4. short \in Seq(Chars) /\ Len(short) = n - 1 /\ \A i \in 1 .. n - 1 : short[i] = b[i]
  BY <1>1, StartIs
<1> HIDE DEF long, whole, short
<1>5. /\ more \in Seq(Chars) /\ Len(more) = n /\ more[n] = c[n]
      /\ \A i \in 1 .. n - 1 : more[i] = b[i]
  BY <1>1, <1>4
<1>6. back \in Seq(Chars) /\ Len(back) = n - 1 /\ \A i \in 1 .. n - 1 : back[i] = b[i]
  BY <1>1, <1>3
<1> HIDE DEF more, back
<1>7. long = more
  BY <1>1, <1>2, <1>5
<1>8. back = short
  BY <1>1, <1>4, <1>6
<1> QED
  BY <1>7, <1>8 DEF long, whole, short, more, back

\* Whether a byte that stores a character is on its way.
LEMMA AheadIs ==
  ASSUME NEW key \in Keys, NEW breakcode \in BOOLEAN
  PROVE  /\ port = Bytes(key, breakcode) => (CharAhead <=> ~breakcode)
         /\ port = <<LastByte(key, breakcode)>> => (CharAhead <=> ~breakcode)
<1> DEFINE last == LastByte(key, breakcode)
<1>1. last.break = breakcode
  BY DEF LastByte
<1>2. ASSUME port = Bytes(key, breakcode) PROVE port # <<>> /\ port[Len(port)] = last
  <2>1. port = Append(Prefix(key), last)
    BY <1>2 DEF Bytes, LastByte
  <2>2. Prefix(key) = <<>> \/ \E first : Prefix(key) = <<first>>
    BY Zenon DEF Prefix
  <2> HIDE DEF last
  <2>3. CASE Prefix(key) = <<>>
    BY <2>1, <2>3
  <2>4. ASSUME NEW first, Prefix(key) = <<first>> PROVE port # <<>> /\ port[Len(port)] = last
    <3>1. port = <<first, last>>
      BY <2>1, <2>4, AppendPair, Zenon
    <3> QED
      BY <3>1
  <2> QED
    BY <2>2, <2>3, <2>4
<1>3. ASSUME port = <<last>> PROVE port # <<>> /\ port[Len(port)] = last
  <2> HIDE DEF last
  <2> QED
    BY <1>3
<1>4. ASSUME port # <<>>, port[Len(port)] = last PROVE CharAhead <=> ~breakcode
  BY <1>1, <1>4, Zenon DEF CharAhead
<1> QED
  BY <1>2, <1>3, <1>4
(***************************************************************************)
(* A character is stored in a line the reader polls for.                   *)
(***************************************************************************)
LEMMA StoreSafe ==
  ASSUME LineTypes, NEW ch \in Chars, Store(ch), globalBufferLength < MaxLength
  PROVE  /\ globalBufferLength' \in 0 .. MaxLength /\ buffer' \in [0 .. MaxLength -> Chars]
         /\ buffer'[0] = buffer[0]
         /\ \A i \in 0 .. MaxLength :
              buffer[i] # LF /\ buffer'[i] = LF => EndOfLine' /\ i = globalBufferLength'
         /\ current = "reader" =>
              Written(globalBufferLength)' = Edit(Written(globalBufferLength), ch)
<1> DEFINE g == globalBufferLength
<1>1. /\ MaxLength \in Nat /\ g \in Nat /\ g < MaxLength /\ g \in 0 .. MaxLength
      /\ buffer \in [0 .. MaxLength -> Chars]
  BY KeysAssumption DEF LineTypes
<1>2. Written(g) \in Seq(Chars) /\ Len(Written(g)) = g
  BY <1>1, StartIs DEF Written
<1>3. CASE ch = BS /\ g >= 1
  <2>1. globalBufferLength' = g - 1 /\ buffer' = buffer
    BY <1>3 DEF Store
  <2>2. g \in 1 .. MaxLength /\ g - 1 \in 0 .. MaxLength
    BY <1>1, <1>3
  <2>3. SubSeq(Written(g), 1, g - 1) = Written(g - 1)
    BY <1>1, <2>2, OneMore DEF Written
  <2>4. Edit(Written(g), ch) = SubSeq(Written(g), 1, g - 1)
    <3>1. Written(g) # <<>>
      BY <1>2, <1>3
    <3> QED
      BY <1>2, <1>3, <3>1 DEF Edit
  <2>5. Written(g)' = Written(g - 1)
    BY <2>1 DEF Written
  <2> QED
    BY <1>1, <2>1, <2>2, <2>3, <2>4, <2>5
<1>4. CASE ~(ch = BS /\ g >= 1)
  <2>1. /\ globalBufferLength' = g + 1
        /\ buffer' = IF current = "reader" THEN [buffer EXCEPT ![g + 1] = ch] ELSE buffer
    BY <1>4 DEF Store
  <2>2. g + 1 \in 0 .. MaxLength /\ g + 1 \in 1 .. MaxLength
    BY <1>1
  <2>3. /\ buffer' \in [0 .. MaxLength -> Chars]
        /\ \A i \in 0 .. MaxLength : i # g + 1 => buffer'[i] = buffer[i]
    BY <1>1, <2>1, <2>2
  <2>4. buffer'[0] = buffer[0]
    BY <1>1, <2>3
  <2>5. ASSUME NEW i \in 0 .. MaxLength, buffer[i] # LF, buffer'[i] = LF
        PROVE  EndOfLine' /\ i = globalBufferLength'
    <3>1. i = g + 1
      BY <2>3, <2>5
    <3> QED
      BY <1>1, <2>1, <2>5, <3>1 DEF EndOfLine
  <2>6. ASSUME current = "reader" PROVE Written(g)' = Edit(Written(g), ch)
    <3>1. buffer'[g + 1] = ch /\ (g + 1) - 1 = g /\ \A i \in 1 .. g : buffer'[i] = buffer[i]
      BY <1>1, <2>1, <2>2, <2>6
    <3>2. [i \in 1 .. g + 1 |-> buffer'[i]] = Append([i \in 1 .. g |-> buffer[i]], ch)
      <4> DEFINE b == buffer
                 c == buffer'
                 n == g + 1
      <4>1. /\ b \in [0 .. MaxLength -> Chars] /\ c \in [0 .. MaxLength -> Chars]
            /\ n \in 1 .. MaxLength /\ n - 1 = g /\ c[n] = ch
            /\ \A i \in 1 .. n - 1 : c[i] = b[i]
        BY <1>1, <2>2, <2>3, <3>1
      <4> HIDE DEF b, c, n
      <4>2. [i \in 1 .. n |-> c[i]] = Append([i \in 1 .. n - 1 |-> b[i]], c[n])
        BY <4>1, OneMore
      <4>3. [i \in 1 .. n |-> c[i]] = Append([i \in 1 .. g |-> b[i]], ch)
        BY <4>1, <4>2
      <4> QED
        BY <4>3 DEF b, c, n
    <3>3. Edit(Written(g), ch) = Append(Written(g), ch)
      <4>1. ~(ch = BS /\ Written(g) # <<>>)
        BY <1>1, <1>2, <1>4
      <4> QED
        BY <4>1, Zenon DEF Edit
    <3>4. Written(g)' = [i \in 1 .. g + 1 |-> buffer'[i]]
      BY <2>1 DEF Written
    <3> QED
      BY <3>2, <3>3, <3>4 DEF Written
  <2> QED
    BY <2>1, <2>2, <2>3, <2>4, <2>5, <2>6
<1> QED
  BY <1>3, <1>4

\* All that the invariant of the line speaks of.
LEMMA LineKept ==
  ASSUME LineInv, UNCHANGED <<globalBufferLength, buffer, typed, pc, globalBuffer,
                              current, index, result, undisturbed>>,
         CharAhead' => CharAhead
  PROVE  LineInv'
<1>1. /\ LineTypes' /\ CharAheadFits' /\ LineIs' = LineIs /\ IndexIs' = IndexIs
      /\ Reading' = Reading
  BY DEF LineInv, LineTypes, CharAheadFits, LineIs, IndexIs, Ending, Polling, Reading, Written,
         Attached, EndOfLine
<1> QED
  BY <1>1 DEF LineInv

\* What keymap holds are characters.
LEMMA KeymapIs ==
  ASSUME NEW code \in KeyCodes, NEW column \in {1, 2}
  PROVE  keymap[code][column] \in Chars
<1>1. ASSUME NEW a \in Chars, NEW b \in Chars PROVE <<a, b>>[column] \in Chars
  BY <1>1
<1>2. \E a, b \in Chars : keymap[code] = <<a, b>>
  <2>1. "a" \in Chars /\ "A" \in Chars /\ LF \in Chars /\ BS \in Chars /\ NULL_CHAR \in Chars
    BY DEF Chars
  <2>2. \/ keymap[code] = <<"a", "A">> \/ keymap[code] = <<LF, LF>>
        \/ keymap[code] = <<BS, BS>> \/ keymap[code] = <<NULL_CHAR, NULL_CHAR>>
    BY DEF KeyCodes, keymap
  <2> QED
    BY <2>1, <2>2, Zenon
<1>3. PICK a \in Chars, b \in Chars : keymap[code] = <<a, b>>
  BY <1>2
<1> QED
  BY <1>1, <1>3, Zenon

LEMMA LineHandled ==
  ASSUME LineInv, KeysInv, keyboardHandler
  PROVE  LineInv'
<1>1. /\ port # <<>> /\ UNCHANGED <<current, pc, index, result, undisturbed>>
      /\ HandlePrefix \/ HandleBreak \/ HandleMake
  BY DEF keyboardHandler
<1>2. PICK key \in Keys, breakcode \in BOOLEAN : Sent(key, breakcode)
  BY <1>1 DEF KeysInv
<1>3. \/ /\ Head(port).prefix
         /\ key[2] = 3 /\ Tail(port) = <<LastByte(key, breakcode)>>
      \/ /\ ~Head(port).prefix /\ Head(port).break = breakcode
         /\ KeyOf(Head(port)) = key /\ key[1] \in KeyCodes /\ Tail(port) = <<>>
  BY <1>2, HeadIs
<1>4. CharAhead <=> ~breakcode
  BY <1>2, AheadIs DEF Sent
<1>5. CASE HandlePrefix
  <2>1. /\ UNCHANGED <<globalBufferLength, buffer, globalBuffer, typed>>
        /\ port' = <<LastByte(key, breakcode)>>
    BY <1>3, <1>5 DEF HandlePrefix, bufferVars
  <2> DEFINE last == LastByte(key, breakcode)
  <2>2. last.break = breakcode
    BY DEF LastByte
  <2> HIDE DEF last
  <2>3. port' # <<>> /\ port'[Len(port')] = last
    BY <2>1 DEF last
  <2>4. CharAhead' <=> ~breakcode
    BY <2>2, <2>3, Zenon DEF CharAhead
  <2> QED
    BY <1>1, <1>4, <2>1, <2>4, LineKept
<1>6. CASE HandleBreak
  <2>1. UNCHANGED <<globalBufferLength, buffer, globalBuffer, typed>> /\ port' = <<>>
    BY <1>3, <1>6 DEF HandleBreak, bufferVars
  <2>2. ~CharAhead'
    BY <2>1 DEF CharAhead
  <2> QED
    BY <1>1, <2>1, <2>2, LineKept
<1>7. CASE HandleMake
  <2> DEFINE ch == CharOf(KeyOf(Head(port)))
  <2>1. port' = <<>> /\ ~breakcode /\ key[1] \in KeyCodes /\ KeyOf(Head(port)) = key
    BY <1>3, <1>7 DEF HandleMake
  <2>2. ~CharAhead'
    BY <2>1 DEF CharAhead
  <2>3. ch \in Chars
    <3>1. CharOf(key) \in Chars
      BY <2>1, KeymapIs, Zenon DEF CharOf
    <3> QED
      BY <2>1, <3>1, Zenon
  <2>4. \/ UNCHANGED <<globalBufferLength, buffer, globalBuffer, typed>>
        \/ /\ IF globalBuffer THEN Store(ch) ELSE UNCHANGED <<globalBufferLength, buffer>>
           /\ typed' = IF Polling THEN Append(typed, ch) ELSE typed
           /\ globalBuffer' = globalBuffer
    BY <1>7, Zenon DEF HandleMake, bufferVars
  <2> HIDE DEF ch
  <2>5. CASE UNCHANGED <<globalBufferLength, buffer, globalBuffer, typed>>
    BY <1>1, <2>2, <2>5, LineKept
  <2>6. CASE /\ IF globalBuffer THEN Store(ch) ELSE UNCHANGED <<globalBufferLength, buffer>>
             /\ typed' = IF Polling THEN Append(typed, ch) ELSE typed
             /\ globalBuffer' = globalBuffer
    <3>1. /\ globalBufferLength < MaxLength
          /\ Waits => ~Ending /\ ~(Polling /\ EndOfLine)
      BY <1>4, <2>1 DEF LineInv, CharAheadFits
    <3>2. LineTypes
      BY DEF LineInv
    <3>3. globalBuffer = Attached /\ typed \in Seq(Chars) /\ index \in 0 .. MaxLength
      BY <3>2 DEF LineTypes
    <3>4. /\ globalBufferLength' \in 0 .. MaxLength /\ buffer' \in [0 .. MaxLength -> Chars]
          /\ buffer'[0] = buffer[0]
          /\ \A i \in 0 .. MaxLength :
               buffer[i] # LF /\ buffer'[i] = LF => EndOfLine' /\ i = globalBufferLength'
          /\ ~Attached => globalBufferLength' = globalBufferLength
          /\ Attached /\ current = "reader" =>
               Written(globalBufferLength)' = Edit(Written(globalBufferLength), ch)
      <4>1. CASE globalBuffer
        BY <2>3, <2>6, <3>1, <3>2, <3>3, <4>1, StoreSafe
      <4>2. CASE ~globalBuffer
        BY <2>6, <3>2, <3>3, <4>2 DEF LineTypes
      <4> QED
        BY <4>1, <4>2
    <3>5. typed' \in Seq(Chars)
      BY <2>3, <2>6, <3>3
    <3>6. LineTypes'
      <4>1. pc \in {"out", "poll", "copy", "clear", "again"} => ~Attached
        BY DEF Attached
      <4>2. Attached' = Attached
        BY <1>1 DEF Attached
      <4> QED
        BY <1>1, <2>6, <3>2, <3>4, <3>5, <4>1, <4>2 DEF LineTypes
    <3>7. CharAheadFits'
      BY <2>2 DEF CharAheadFits
    <3>8. Ending' = Ending /\ Polling' = Polling /\ Reading' = Reading
      BY <1>1 DEF Ending, Polling, Reading
    <3>9. ASSUME Waits PROVE IndexIs'
      <4>1. ~Ending' /\ pc' # "terminate"
        BY <1>1, <3>1, <3>8, <3>9 DEF Waits, Ending
      <4>2. ASSUME pc' = "character", (buffer[index] = LF)'
            PROVE  (EndOfLine /\ index = globalBufferLength)'
        <5>1. pc = "character" /\ Polling /\ index' = index /\ buffer'[index] = LF
          BY <1>1, <4>2 DEF Polling
        <5>2. buffer[index] # LF
          BY <3>1, <3>9, <5>1 DEF Waits, LineInv, IndexIs
        <5> QED
          BY <3>3, <3>4, <5>1, <5>2
      <4> QED
        BY <4>1, <4>2 DEF IndexIs
    <3>10. ASSUME Waits, undisturbed' PROVE LineIs'
      <4>1. LineIs /\ (Polling => current = "reader") /\ ~Ending'
        BY <1>1, <3>1, <3>8, <3>10 DEF LineInv, Reading, Waits
      <4>2. ASSUME Polling PROVE Written(globalBufferLength)' = Edited(typed)'
        <5>1. typed' = Append(typed, ch) /\ Written(globalBufferLength) = Edited(typed)
          BY <2>6, <4>1, <4>2 DEF LineIs
        <5>2. Edited(Append(typed, ch)) = Edit(Edited(typed), ch)
          BY <2>3, <3>3, EditedAppend
        <5>3. Written(globalBufferLength)' = Edit(Written(globalBufferLength), ch)
          BY <3>4, <4>1, <4>2 DEF Attached, Polling
        <5>4. Edited(typed') = Edit(Edited(typed), ch)
          BY <5>1, <5>2, Zenon
        <5> QED
          BY <5>1, <5>3, <5>4, Zenon
      <4>3. ASSUME pc = "detach" PROVE Append(result, LF)' = Edited(typed)'
        <5>1. typed' = typed
          BY <2>6, <4>3 DEF Polling
        <5> QED
          BY <1>1, <4>1, <4>3, <5>1 DEF LineIs
      <4> QED
        BY <1>1, <3>8, <4>1, <4>2, <4>3 DEF LineIs
    <3> QED
      BY <1>1, <3>6, <3>7, <3>8, <3>9, <3>10 DEF LineInv
  <2> QED
    BY <2>4, <2>5, <2>6
<1> QED
  BY <1>1, <1>5, <1>6, <1>7

\* A step of the reader that goes past the places of LineIs and IndexIs.
LEMMA LineLeft ==
  ASSUME LineInv, LineTypes', CharAheadFits', ~Ending', undisturbed' = undisturbed,
         ~Reading'
  PROVE  LineInv'
<1>1. ~Polling' /\ pc' # "detach" /\ pc' # "character" /\ pc' # "terminate"
  BY DEF Reading, Polling, Ending
<1>2. LineIs' /\ IndexIs'
  BY <1>1 DEF LineIs, IndexIs
<1> QED
  BY <1>2 DEF LineInv

LEMMA LineStep ==
  ASSUME LineInv, KeysInv, [Next]_vars
  PROVE  LineInv'
<1> DEFINE g == globalBufferLength
<1>1. LineTypes /\ CharAheadFits
  BY DEF LineInv
<1>2. /\ MaxLength \in Nat /\ g \in 0 .. MaxLength /\ buffer \in [0 .. MaxLength -> Chars]
      /\ typed \in Seq(Chars) /\ pc \in Labels /\ index \in 0 .. MaxLength
      /\ (Before # LF => buffer[0] # LF)
      /\ (pc \in {"out", "poll", "copy", "clear", "again"} => g = 0)
  BY <1>1, KeysAssumption DEF LineTypes
<1>3. ASSUME NEW key \in Keys, Press(key) PROVE LineInv'
  <2>1. /\ g < MaxLength /\ (Patient => ~Ending /\ ~(Polling /\ EndOfLine))
        /\ UNCHANGED <<globalBufferLength, buffer, typed, pc, globalBuffer, current, index,
                       result, undisturbed>>
    BY <1>3 DEF Press, bufferVars, histories
  <2>2. LineTypes' /\ LineIs' = LineIs /\ IndexIs' = IndexIs /\ Reading' = Reading
    BY <1>1, <2>1 DEF LineTypes, LineIs, IndexIs, Ending, Polling, Reading, Written, Attached,
                      EndOfLine
  <2>3. CharAheadFits'
    BY <2>1 DEF CharAheadFits, Waits, Ending, Polling, EndOfLine
  <2> QED
    BY <2>1, <2>2, <2>3 DEF LineInv
<1>4. ASSUME NEW key \in Keys, Release(key) PROVE LineInv'
  <2>1. /\ port' = Bytes(key, TRUE)
        /\ UNCHANGED <<globalBufferLength, buffer, typed, pc, globalBuffer, current, index,
                       result, undisturbed>>
    BY <1>4 DEF Release, bufferVars, histories
  <2>2. ~CharAhead'
    <3>1. \E last : last.break = TRUE /\ port' = Append(Prefix(key), last)
      <4>1. LastByte(key, TRUE).break = TRUE /\ port' = Append(Prefix(key), LastByte(key, TRUE))
        BY <2>1 DEF LastByte, Bytes
      <4> QED
        BY <4>1, Zenon
    <3>2. PICK last : last.break = TRUE /\ port' = Append(Prefix(key), last)
      BY <3>1
    <3>3. port' # <<>> /\ port'[Len(port')] = last
      <4>1. Prefix(key) = <<>> \/ \E first : Prefix(key) = <<first>>
        BY Zenon DEF Prefix
      <4>2. CASE Prefix(key) = <<>>
        BY <3>2, <4>2
      <4>3. ASSUME NEW first, Prefix(key) = <<first>>
            PROVE  port' # <<>> /\ port'[Len(port')] = last
        <5>1. port' = <<first, last>>
          BY <3>2, <4>3, AppendPair, Zenon
        <5> QED
          BY <5>1
      <4> QED
        BY <4>1, <4>2, <4>3
    <3> QED
      BY <3>2, <3>3, Zenon DEF CharAhead
  <2> QED
    BY <2>1, <2>2, LineKept
<1>5. CASE Tick
  <2>1. /\ UNCHANGED <<globalBufferLength, buffer, typed, pc, globalBuffer, index, result, port>>
        /\ undisturbed' = (undisturbed /\ ~Reading)
    BY <1>5 DEF Tick, bufferVars, keyVars
  <2>2. /\ LineTypes' /\ CharAheadFits' /\ LineIs' = LineIs /\ IndexIs' = IndexIs
        /\ Reading' = Reading
    BY <1>1, <2>1 DEF LineTypes, CharAheadFits, CharAhead, LineIs, IndexIs, Ending, Polling,
                      Reading, Written, Attached, EndOfLine
  <2> QED
    BY <2>1, <2>2 DEF LineInv
<1>6. CASE keyboardHandler
  BY <1>6, LineHandled
<1>7. CASE CallReadChar \/ CharSeen \/ CharCopied \/ CharCleared
  <2>1. /\ UNCHANGED <<globalBufferLength, buffer, typed, globalBuffer, port, index, undisturbed>>
        /\ pc \in {"out", "poll", "copy", "clear"} /\ pc' \in {"out", "poll", "copy", "clear"}
    BY <1>7 DEF CallReadChar, CharSeen, CharCopied, CharCleared, At, OnlyGoto, Goto, bufferVars,
                keyVars, histories
  <2>2. LineTypes'
    BY <1>1, <2>1 DEF LineTypes, Attached, Labels
  <2>3. ~Ending' /\ ~Reading' /\ ~Polling'
    BY <2>1 DEF Ending, Reading, Polling
  <2>4. CharAheadFits'
    BY <1>1, <2>1, <2>3 DEF CharAheadFits, CharAhead
  <2> QED
    BY <2>1, <2>2, <2>3, <2>4, LineLeft
<1>8. CASE CallReadLine
  <2>1. /\ UNCHANGED <<globalBufferLength, buffer, port, current, index>>
        /\ pc' = "line" /\ globalBuffer' = TRUE /\ typed' = <<>> /\ undisturbed' = TRUE
        /\ current = "reader" /\ pc \in {"out", "again"}
    BY <1>8 DEF CallReadLine, At, Goto, keyVars
  <2>2. g = 0
    BY <1>2, <2>1
  <2>3. LineTypes'
    <3>1. typed' \in Seq(Chars)
      BY <2>1
    <3>2. globalBuffer' = Attached'
      BY <2>1 DEF Attached
    <3>3. pc' \in Labels /\ ~(pc' \in {"out", "poll", "copy", "clear", "again"})
      BY <2>1 DEF Labels
    <3>4. g' = g /\ buffer' = buffer /\ index' = index
      BY <2>1
    <3> QED
      BY <1>2, <3>1, <3>2, <3>3, <3>4 DEF LineTypes
  <2>4. ~Ending' /\ ~EndOfLine' /\ pc' # "detach" /\ pc' # "character" /\ pc' # "terminate"
    BY <2>1, <2>2 DEF Ending, EndOfLine
  <2>5. CharAheadFits'
    BY <1>1, <2>1, <2>4 DEF CharAheadFits, CharAhead
  <2>6. LineIs'
    <3>1. Written(g)' = <<>>
      <4>1. Written(g)' = [i \in 1 .. 0 |-> buffer[i]]
        BY <2>1, <2>2 DEF Written
      <4> QED
        BY <4>1
    <3>2. Edited(typed)' = <<>>
      <4>1. Edited(typed') = <<>>
        BY <2>1, EditedNothing, Zenon
      <4> QED
        BY <4>1
    <3> QED
      BY <2>4, <3>1, <3>2, Zenon DEF LineIs
  <2>7. IndexIs'
    BY <2>4 DEF IndexIs
  <2> QED
    BY <2>1, <2>3, <2>5, <2>6, <2>7 DEF LineInv
<1>9. ASSUME EndOfLine PROVE Written(g) = Append(Written(g - 1), LF) /\ g \in 1 .. MaxLength
  <2>1. g \in 1 .. MaxLength /\ buffer[g] = LF
    BY <1>2, <1>9 DEF EndOfLine
  <2> QED
    BY <1>2, <2>1, OneMore DEF Written
<1>10. CASE LengthSeen
  <2>1. /\ UNCHANGED <<globalBufferLength, buffer, typed, globalBuffer, port, current, index,
                       undisturbed>>
        /\ pc = "line" /\ pc' = "index"
    BY <1>10 DEF LengthSeen, At, OnlyGoto, Goto, bufferVars, keyVars, histories
  <2>2. LineTypes'
    BY <1>1, <2>1 DEF LineTypes, Attached, Labels
  <2>3. /\ Polling /\ ~Ending' /\ Reading /\ EndOfLine' = EndOfLine
        /\ pc' # "detach" /\ pc' # "character" /\ pc' # "terminate"
    BY <2>1 DEF Polling, Ending, Reading, EndOfLine
  <2>4. CharAheadFits'
    BY <1>1, <2>1, <2>3 DEF CharAheadFits, CharAhead
  <2>5. LineIs => LineIs'
    BY <2>1, <2>3 DEF LineIs, Written
  <2>6. IndexIs'
    BY <2>3 DEF IndexIs
  <2> QED
    BY <2>1, <2>2, <2>3, <2>4, <2>5, <2>6 DEF LineInv
<1>11. CASE IndexRead
  <2>1. /\ UNCHANGED <<globalBufferLength, buffer, typed, globalBuffer, port, current,
                       undisturbed>>
        /\ \/ pc = "index" /\ pc' = "character"
           \/ pc = "cut" /\ pc' = "terminate"
        /\ index' = g
    BY <1>11 DEF IndexRead, At, Goto, bufferVars, keyVars, histories
  <2>2. LineTypes'
    BY <1>1, <1>2, <2>1 DEF LineTypes, Attached, Labels
  <2>3. /\ Polling' = Polling /\ Ending' = Ending /\ Reading /\ EndOfLine' = EndOfLine
        /\ pc' # "detach"
    BY <2>1 DEF Polling, Ending, Reading, EndOfLine
  <2>4. CharAheadFits'
    BY <1>1, <2>1, <2>3 DEF CharAheadFits, CharAhead
  <2>5. LineIs => LineIs'
    BY <2>1, <2>3 DEF LineIs, Written
  <2>6. ASSUME Waits, IndexIs PROVE IndexIs'
    <3>1. Ending' => g' > 0
      BY <2>1, <2>3, <2>6 DEF IndexIs
    <3>2. (buffer[index] = LF)' => (EndOfLine /\ index = globalBufferLength)'
      BY <1>2, <2>1, <2>6 DEF Waits, EndOfLine
    <3> QED
      BY <2>1, <3>1, <3>2 DEF IndexIs
  <2> QED
    BY <2>1, <2>2, <2>3, <2>4, <2>5, <2>6 DEF LineInv
<1>12. CASE CharacterRead
  <2>1. /\ UNCHANGED <<globalBufferLength, buffer, typed, globalBuffer, port, current,
                       undisturbed>>
        /\ pc = "character" /\ pc' = IF buffer[index] = LF THEN "check" ELSE "line"
        /\ index' = 0
    BY <1>12 DEF CharacterRead, At, Goto, bufferVars, keyVars, histories
  <2>2. LineTypes'
    <3>1. 0 \in 0 .. MaxLength /\ pc' \in {"check", "line"} /\ pc' \in Labels /\ Attached
      BY <1>2, <2>1 DEF Labels, Attached
    <3>2. Attached'
      BY <3>1 DEF Attached
    <3> QED
      BY <1>1, <2>1, <3>1, <3>2 DEF LineTypes
  <2>3. /\ Polling /\ ~Ending /\ Reading /\ EndOfLine' = EndOfLine
        /\ pc' # "detach" /\ pc' # "character" /\ pc' # "terminate"
    BY <2>1 DEF Polling, Ending, Reading, EndOfLine
  <2>4. CASE buffer[index] # LF
    <3>1. Polling' /\ ~Ending'
      BY <2>1, <2>4 DEF Polling, Ending
    <3>2. CharAheadFits'
      BY <1>1, <2>1, <2>3, <3>1 DEF CharAheadFits, CharAhead
    <3>3. (LineIs => LineIs') /\ IndexIs'
      BY <2>1, <2>3, <3>1 DEF LineIs, IndexIs, Written
    <3> QED
      BY <2>1, <2>2, <2>3, <3>2, <3>3 DEF LineInv
  <2>5. CASE buffer[index] = LF
    <3>1. ~Polling' /\ Ending'
      BY <2>1, <2>5 DEF Polling, Ending
    <3>2. ASSUME Waits PROVE EndOfLine /\ IndexIs'
      <4>1. EndOfLine
        BY <2>1, <2>5, <3>2 DEF LineInv, IndexIs
      <4> QED
        BY <2>1, <2>3, <4>1 DEF EndOfLine, IndexIs
    <3>3. ASSUME Waits, LineIs PROVE LineIs'
      <4>1. Written(g) = Append(Written(g - 1), LF) /\ Written(g - 1)' = Written(g - 1)
        BY <1>9, <2>1, <3>2, <3>3 DEF Written
      <4> QED
        BY <2>1, <2>3, <3>1, <3>3, <4>1 DEF LineIs
    <3>4. CharAheadFits'
      BY <1>1, <2>1, <2>3, <3>1, <3>2 DEF CharAheadFits, CharAhead
    <3> QED
      BY <2>1, <2>2, <2>3, <3>2, <3>3, <3>4 DEF LineInv
  <2> QED
    BY <2>4, <2>5
<1>13. CASE LengthChecked
  <2>1. /\ UNCHANGED <<globalBufferLength, buffer, typed, globalBuffer, port, current, index,
                       undisturbed>>
        /\ pc = "check" /\ pc' \in {"retry", "cut"}
    BY <1>13 DEF LengthChecked, At, OnlyGoto, Goto, bufferVars, keyVars, histories
  <2>2. LineTypes'
    BY <1>1, <2>1 DEF LineTypes, Attached, Labels
  <2>3. /\ Ending /\ Reading /\ ~Polling'
        /\ pc' # "detach" /\ pc' # "character" /\ pc' # "terminate"
    BY <2>1 DEF Ending, Reading, Polling
  <2>4. CharAheadFits'
    BY <1>1, <2>1, <2>3 DEF CharAheadFits, CharAhead
  <2>5. (LineIs => LineIs') /\ (IndexIs => IndexIs')
    BY <2>1, <2>3 DEF LineIs, IndexIs, Written
  <2> QED
    BY <2>1, <2>2, <2>3, <2>4, <2>5 DEF LineInv
<1>14. CASE LineCut
  <2>1. /\ UNCHANGED <<globalBufferLength, typed, globalBuffer, port, current, undisturbed>>
        /\ pc = "terminate" /\ pc' = "length" /\ buffer' = [buffer EXCEPT ![index] = NULL_CHAR]
        /\ index' = 0
    BY <1>14 DEF LineCut, At, Goto, keyVars, histories
  <2>2. NULL_CHAR \in Chars /\ NULL_CHAR # LF /\ 0 \in 0 .. MaxLength
    <3>1. NULL_CHAR # LF
      BY DEF NULL_CHAR, LF
    <3> QED
      BY <1>2, <3>1 DEF Chars
  <2>3. /\ buffer' \in [0 .. MaxLength -> Chars]
        /\ \A i \in 0 .. MaxLength : buffer'[i] = IF i = index THEN NULL_CHAR ELSE buffer[i]
    BY <1>2, <2>1, <2>2
  <2>4. LineTypes'
    <3>1. pc' \in Labels /\ Attached /\ Attached'
      BY <2>1 DEF Labels, Attached
    <3>2. (Before # LF => buffer[0] # LF)'
      BY <1>2, <2>2, <2>3
    <3> QED
      BY <1>1, <2>1, <2>2, <2>3, <3>1, <3>2 DEF LineTypes
  <2>5. /\ Ending /\ Ending' /\ Reading /\ ~Polling'
        /\ pc' # "detach" /\ pc' # "character" /\ pc' # "terminate"
    BY <2>1 DEF Ending, Reading, Polling
  <2>6. CharAheadFits'
    BY <1>1, <2>1, <2>5 DEF CharAheadFits, CharAhead
  <2>7. ASSUME Waits, IndexIs PROVE IndexIs' /\ (LineIs => LineIs')
    <3>1. g > 0 /\ index = g
      BY <2>1, <2>5, <2>7 DEF IndexIs
    <3>2. \A i \in 1 .. g - 1 : buffer'[i] = buffer[i]
      BY <1>2, <2>3, <3>1
    <3>3. Written(g - 1)' = Written(g - 1)
      BY <2>1, <3>2 DEF Written
    <3> QED
      BY <2>1, <2>5, <3>1, <3>3 DEF IndexIs, LineIs
  <2> QED
    BY <2>1, <2>4, <2>5, <2>6, <2>7 DEF LineInv
<1>15. CASE LineTaken
  <2>1. /\ UNCHANGED <<globalBufferLength, buffer, typed, globalBuffer, port, current, index,
                       undisturbed>>
        /\ pc = "length" /\ pc' = "detach" /\ (g > 0 => result' = Written(g - 1))
    BY <1>15 DEF LineTaken, At, Goto, bufferVars, keyVars, histories
  <2>2. LineTypes'
    BY <1>1, <2>1 DEF LineTypes, Attached, Labels
  <2>3. Ending /\ Reading /\ ~Ending' /\ ~Polling' /\ pc' # "character" /\ pc' # "terminate"
    BY <2>1 DEF Ending, Reading, Polling
  <2>4. CharAheadFits'
    BY <1>1, <2>1, <2>3 DEF CharAheadFits, CharAhead
  <2>5. IndexIs /\ LineIs => LineIs'
    BY <2>1, <2>3 DEF LineIs, IndexIs
  <2>6. IndexIs'
    BY <2>3 DEF IndexIs
  <2> QED
    BY <2>1, <2>2, <2>3, <2>4, <2>5, <2>6 DEF LineInv
<1>16. CASE BufferDetached
  <2>1. /\ UNCHANGED <<globalBufferLength, buffer, port, index, undisturbed>>
        /\ pc' \in {"empty", "restart"} /\ globalBuffer' = FALSE /\ typed' = <<>>
    BY <1>16 DEF BufferDetached, At, Goto, keyVars
  <2>2. typed' \in Seq(Chars)
    BY <2>1
  <2>3. LineTypes'
    <3>1. globalBuffer' = Attached'
      <4>1. Attached' = FALSE
        BY <2>1 DEF Attached
      <4> QED
        BY <2>1, <4>1, Zenon
    <3>2. pc' \in Labels /\ ~(pc' \in {"out", "poll", "copy", "clear", "again"})
      BY <2>1 DEF Labels
    <3>3. g' = g /\ buffer' = buffer /\ index' = index
      BY <2>1
    <3> QED
      BY <1>2, <2>2, <3>1, <3>2, <3>3 DEF LineTypes
  <2>4. ~Ending' /\ ~Reading' /\ ~Polling'
    BY <2>1 DEF Ending, Reading, Polling
  <2>5. CharAheadFits'
    BY <1>1, <2>1, <2>4 DEF CharAheadFits, CharAhead
  <2> QED
    BY <2>1, <2>3, <2>4, <2>5, LineLeft
<1>17. CASE LengthReset
  <2>1. /\ UNCHANGED <<globalBuffer, buffer, typed, port, index, undisturbed>>
        /\ pc \in {"empty", "restart"} /\ pc' \in {"out", "again"} /\ g' = 0
    BY <1>17 DEF LengthReset, At, Goto, keyVars, histories
  <2>2. g' \in 0 .. MaxLength
    BY <1>2, <2>1
  <2>3. LineTypes'
    <3>1. Attached' = Attached
      BY <2>1 DEF Attached
    <3>2. pc' \in Labels
      BY <2>1 DEF Labels
    <3>3. globalBuffer' = Attached'
      <4>1. globalBuffer = Attached
        BY <1>1 DEF LineTypes
      <4> QED
        BY <2>1, <3>1, <4>1, Zenon
    <3> QED
      BY <1>2, <2>1, <2>2, <3>2, <3>3 DEF LineTypes
  <2>4. ~Ending' /\ ~Reading' /\ ~Polling'
    BY <2>1 DEF Ending, Reading, Polling
  <2>5. CharAheadFits'
    BY <1>1, <1>2, <2>1, <2>4 DEF CharAheadFits, CharAhead
  <2> QED
    BY <2>1, <2>3, <2>4, <2>5, LineLeft
<1>18. CASE UNCHANGED vars
  BY <1>18, LineKept DEF vars, bufferVars, keyVars, histories, CharAhead
<1> QED
  BY <1>3, <1>4, <1>5, <1>6, <1>7, <1>8, <1>10, <1>11, <1>12, <1>13, <1>14, <1>15, <1>16, <1>17,
     <1>18
  DEF Next, Reader

(***************************************************************************)
(* The line ReadLine() returns to a user who waits for it, and from whom   *)
(* no other process took the processor, is what was typed, edited, for     *)
(* every length of lines and every order of keys, also if the handler      *)
(* comes between its reads of the length and of the buffer (LineAsTyped).  *)
(***************************************************************************)
THEOREM LinesAreAsTyped == Spec => []LineAsTyped
<1>1. Init => KeysInv
  BY DEF Init, KeysInv
<1>2. Init => LineInv
  <2> SUFFICES ASSUME Init PROVE LineInv
    OBVIOUS
  <2>1. LineTypes
    <3>1. /\ 0 \in 0 .. MaxLength /\ buffer \in [0 .. MaxLength -> Chars]
          /\ buffer[0] = Before /\ index = 0
      <4>1. NULL_CHAR \in Chars /\ LF \in Chars
        BY DEF Chars
      <4> QED
        BY <4>1, KeysAssumption DEF Init
    <3>2. typed \in Seq(Chars)
      BY DEF Init
    <3>3. pc \in Labels /\ globalBuffer = Attached /\ globalBufferLength = 0
      <4>1. pc \in Labels /\ Attached = FALSE
        BY DEF Init, Labels, Attached
      <4> QED
        BY <4>1, Zenon DEF Init
    <3> QED
      BY <3>1, <3>2, <3>3 DEF LineTypes
  <2>2. /\ ~CharAhead /\ ~Ending /\ ~Reading /\ ~Polling
        /\ pc # "detach" /\ pc # "character" /\ pc # "terminate"
    BY DEF Init, CharAhead, Ending, Reading, Polling
  <2> QED
    BY <2>1, <2>2 DEF Init, LineInv, CharAheadFits, LineIs, IndexIs
<1>3. LineInv => LineAsTyped
  BY DEF LineInv, LineIs, LineAsTyped, Waits
<1>4. KeysInv /\ [Next]_vars => KeysInv'
  BY KeysStep
<1>5. KeysInv /\ LineInv /\ [Next]_vars => LineInv'
  BY LineStep
<1> QED
  BY <1>1, <1>2, <1>3, <1>4, <1>5, PTL DEF Spec
=============================================================================
