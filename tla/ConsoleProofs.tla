---------------------------- MODULE ConsoleProofs ----------------------------
(***************************************************************************)
(* The console implements a terminal, for every size of the screen and of  *)
(* the memory and for texts of any length.                                 *)
(***************************************************************************)
EXTENDS Console, TLAPS, WellFoundedInduction

-----------------------------------------------------------------------------
(***************************************************************************)
(* The specification writes loops as functions defined by recursion.  What *)
(* proofs about them need: induction over the natural numbers stated with  *)
(* a set, and that a step repeated a number of times is defined.           *)
(***************************************************************************)
\* A set of natural numbers has a least one.
LEMMA LeastNatural ==
  ASSUME NEW S \in SUBSET Nat, S # {}
  PROVE  \E m \in S : \A n \in S : m <= n
<1>1. IsWellFoundedOn(OpToRel(<, Nat), Nat)
  BY NatLessThanWellFounded
<1>2. PICK m \in S : \A n \in S : ~(<<n, m>> \in OpToRel(<, Nat))
  BY <1>1, WFMin
<1>3. \A n \in S : ~(n < m)
  BY <1>2 DEF OpToRel
<1> QED
  BY <1>3

LEMMA SetInduction ==
  ASSUME NEW S, 0 \in S, \A n \in Nat : n \in S => n + 1 \in S
  PROVE  \A n \in Nat : n \in S
<1> DEFINE Rest == Nat \ S
<1> SUFFICES ASSUME Rest # {} PROVE FALSE
  OBVIOUS
<1>1. PICK m \in Rest : \A n \in Rest : m <= n
  <2>1. Rest \in SUBSET Nat
    OBVIOUS
  <2> HIDE DEF Rest
  <2> QED
    BY <2>1, LeastNatural
<1>2. m # 0 /\ m - 1 \in Nat
  OBVIOUS
<1>3. m - 1 \in S
  BY <1>1, <1>2
<1> QED
  BY <1>2, <1>3

\* The n-th step takes f[n - 1] to g of n and that.
Iterates(f, x, g, L) == f[0] = x /\ \A n \in 1 .. L : f[n] = g[<<n, f[n - 1]>>]

LEMMA IterationExists ==
  ASSUME NEW X, NEW x \in X, NEW L \in Nat, NEW g \in [(1 .. L) \X X -> X]
  PROVE  \E f \in [0 .. L -> X] : Iterates(f, x, g, L)
<1> DEFINE S == {n \in Nat : n <= L => \E f \in [0 .. n -> X] : Iterates(f, x, g, n)}
<1>1. 0 \in S
  <2>1. /\ [i \in 0 .. 0 |-> x] \in [0 .. 0 -> X]
        /\ Iterates([i \in 0 .. 0 |-> x], x, g, 0)
    BY DEF Iterates
  <2> QED
    BY <2>1
<1>2. ASSUME NEW n \in Nat, n \in S PROVE n + 1 \in S
  <2> SUFFICES ASSUME n + 1 <= L
               PROVE  \E f \in [0 .. n + 1 -> X] : Iterates(f, x, g, n + 1)
    OBVIOUS
  <2>1. PICK f \in [0 .. n -> X] : Iterates(f, x, g, n)
    BY <1>2
  <2> DEFINE e == [i \in 0 .. n + 1 |-> IF i = n + 1 THEN g[<<n + 1, f[n]>>] ELSE f[i]]
  <2>2. e \in [0 .. n + 1 -> X]
    <3>1. g[<<n + 1, f[n]>>] \in X
      OBVIOUS
    <3> QED
      BY <3>1
  <2>3. e[n + 1] = g[<<n + 1, f[n]>>] /\ \A i \in 0 .. n : e[i] = f[i]
    OBVIOUS
  <2> HIDE DEF e
  <2>4. e[0] = x
    BY <2>1, <2>3 DEF Iterates
  <2>5. ASSUME NEW i \in 1 .. n + 1 PROVE e[i] = g[<<i, e[i - 1]>>]
    <3>1. CASE i = n + 1
      <4>1. i - 1 = n /\ e[n] = f[n]
        BY <2>3, <3>1
      <4> QED
        BY <2>3, <3>1, <4>1
    <3>2. CASE i # n + 1
      <4>1. i \in 1 .. n /\ e[i] = f[i] /\ e[i - 1] = f[i - 1]
        BY <2>3, <3>2
      <4>2. f[i] = g[<<i, f[i - 1]>>]
        BY <2>1, <4>1 DEF Iterates
      <4> QED
        BY <4>1, <4>2
    <3> QED
      BY <3>1, <3>2
  <2>6. Iterates(e, x, g, n + 1)
    BY <2>4, <2>5, Zenon DEF Iterates
  <2> QED
    BY <2>2, <2>6
<1>3. L \in S
  <2> HIDE DEF S
  <2> QED
    BY <1>1, <1>2, SetInduction
<1> QED
  BY <1>3

-----------------------------------------------------------------------------
(***************************************************************************)
(* Rows and columns.                                                       *)
(***************************************************************************)
LEMMA Sizes ==
  /\ ScreenWidth \in Nat \ {0} /\ ScreenHigh \in Nat \ {0} /\ MonitorSize \in Nat /\ Tab \in Nat
  /\ ScreenSize \in Nat /\ ScreenSize = ScreenWidth * ScreenHigh
  /\ ScreenSize = ScreenHigh * ScreenWidth /\ ScreenSize + ScreenWidth <= MonitorSize
  /\ ByteSize \in Nat \ {0} /\ Offsets \in Nat /\ Offsets = ByteSize * ByteSize
  /\ MonitorSize + ScreenWidth <= Offsets /\ WordSize \in Nat /\ Offsets <= WordSize
<1>1. ScreenWidth \in Nat /\ ScreenHigh \in Nat /\ ByteSize \in Nat
  BY ConsoleAssumption
<1>2. \A a, b \in Nat : a * b \in Nat /\ a * b = b * a
  OBVIOUS
<1>3. Offsets \in Nat /\ Offsets = ByteSize * ByteSize
  BY <1>1, <1>2 DEF Offsets
<1> QED
  BY <1>1, <1>2, <1>3, ConsoleAssumption DEF ScreenSize

LEMMA InCells ==
  /\ \A a \in Cells : a \in Nat
  /\ \A a \in Nat : a < MonitorSize + ScreenWidth => a \in Cells
  /\ ScreenWidth \in Nat /\ ScreenWidth > 0 /\ MonitorSize \in Nat
  /\ ScreenSize \in Nat /\ ScreenSize + ScreenWidth <= MonitorSize
  BY Sizes DEF Cells

LEMMA Multiples ==
  ASSUME NEW p \in Nat \ {0}, NEW x \in Int, NEW y \in Int
  PROVE  x * p \in Int /\ (x < y => x * p + p <= y * p) /\ (x <= y => x * p <= y * p)
<1>1. ASSUME NEW a \in Int, NEW b \in Int, a <= b PROVE a * p <= b * p
  <2>1. PICK c \in Nat : b = a + c
    <3>1. b - a \in Nat /\ b = a + (b - a)
      BY <1>1
    <3> QED
      BY <3>1
  <2>2. b * p = a * p + c * p /\ c * p >= 0
    BY <2>1
  <2>3. a * p \in Int /\ c * p \in Int /\ b * p \in Int
    BY <2>1
  <2> QED
    BY <2>2, <2>3
<1>2. x < y => (x + 1) * p <= y * p
  BY <1>1
<1>3. (x + 1) * p = x * p + p
  OBVIOUS
<1> QED
  BY <1>1, <1>2, <1>3

LEMMA DivisionUnique ==
  ASSUME NEW p \in Nat \ {0}, NEW q \in Nat, NEW r \in Nat, r < p
  PROVE  (q * p + r) \div p = q /\ (q * p + r) % p = r
<1> DEFINE n == q * p + r
           d == n \div p
           m == n % p
<1>1. n \in Nat /\ q * p \in Nat
  OBVIOUS
<1> HIDE DEF n
<1>2. d \in Nat /\ m \in Nat /\ m < p /\ n = d * p + m
  BY <1>1
<1> HIDE DEF d, m
<1>3. n = q * p + r /\ d * p \in Nat
  BY <1>2 DEF n
<1>4. ~(d < q) /\ ~(q < d)
  <2>1. (d < q => d * p + p <= q * p) /\ (q < d => q * p + p <= d * p)
    BY <1>2, Multiples
  <2> QED
    BY <1>1, <1>2, <1>3, <2>1
<1>5. d = q /\ m = r
  <2>1. d = q
    BY <1>2, <1>4
  <2> QED
    BY <1>1, <1>2, <1>3, <2>1
<1> QED
  BY <1>5 DEF d, m, n

\* The place of a cell in the window.
Place(r, c) == r * ScreenWidth + c

LEMMA PlaceIs ==
  ASSUME NEW r \in Nat, NEW c \in Nat, c < ScreenWidth
  PROVE  /\ Place(r, c) \in Nat
         /\ Place(r, c) \div ScreenWidth = r /\ Place(r, c) % ScreenWidth = c
         /\ Place(r + 1, c) = Place(r, c) + ScreenWidth
         /\ r < ScreenHigh => Place(r, c) < ScreenSize
         /\ r < ScreenHigh - 1 => Place(r, c) + ScreenWidth < ScreenSize
         /\ r = ScreenHigh - 1 => Place(r, c) + ScreenWidth = ScreenSize + c
<1> DEFINE x == r * ScreenWidth
<1>1. x \in Nat /\ ScreenWidth \in Nat \ {0} /\ ScreenHigh \in Nat \ {0}
  BY Sizes
<1>2. Place(r, c) \div ScreenWidth = r /\ Place(r, c) % ScreenWidth = c
  BY <1>1, DivisionUnique DEF Place
<1>3. (r + 1) * ScreenWidth = x + ScreenWidth
  BY <1>1
<1>4. r < ScreenHigh => x + ScreenWidth <= ScreenSize
  BY <1>1, Sizes, Multiples
<1>5. r < ScreenHigh - 1 => x + ScreenWidth + ScreenWidth <= ScreenSize
  <2>1. r + 1 < ScreenHigh => (r + 1) * ScreenWidth + ScreenWidth <= ScreenSize
    BY <1>1, Sizes, Multiples
  <2>2. r < ScreenHigh - 1 => r + 1 < ScreenHigh
    BY <1>1
  <2> QED
    BY <1>1, <1>3, <2>1, <2>2
<1>6. r = ScreenHigh - 1 => x + ScreenWidth = ScreenSize
  <2>1. r = ScreenHigh - 1 => r + 1 = ScreenHigh
    BY <1>1
  <2> QED
    BY <1>3, <2>1, Sizes
<1>7. Place(r, c) = x + c /\ Place(r + 1, c) = (r + 1) * ScreenWidth + c
  BY DEF Place
<1> HIDE DEF x
<1> QED
  BY <1>1, <1>2, <1>3, <1>4, <1>5, <1>6, <1>7, Sizes

LEMMA SamePlace ==
  ASSUME NEW r \in Nat, NEW c \in Nat, c < ScreenWidth,
         NEW q \in Nat, NEW e \in Nat, e < ScreenWidth, Place(r, c) = Place(q, e)
  PROVE  r = q /\ c = e
<1>1. Place(r, c) \div ScreenWidth = r /\ Place(r, c) % ScreenWidth = c
  BY PlaceIs
<1>2. Place(q, e) \div ScreenWidth = q /\ Place(q, e) % ScreenWidth = e
  BY PlaceIs
<1> QED
  BY <1>1, <1>2

\* The columns of the new row that MonitorSize reaches.
Reach == IF MonitorSize % ScreenWidth = 0 THEN ScreenWidth ELSE MonitorSize % ScreenWidth

LEMMA Reached ==
  ASSUME NEW k \in Nat, k * ScreenWidth + ScreenSize < MonitorSize, NEW c \in Nat,
         c < Reach, c < ScreenWidth
  PROVE  k * ScreenWidth + ScreenSize + c < MonitorSize
<1> DEFINE p == ScreenWidth
           q == MonitorSize \div p
           m == MonitorSize % p
           n == k + ScreenHigh
<1>1. p \in Nat \ {0} /\ MonitorSize \in Nat /\ ScreenHigh \in Nat /\ k * p \in Nat
  BY Sizes
<1>2. q \in Nat /\ m \in Nat /\ m < p /\ MonitorSize = q * p + m
  BY <1>1
<1>3. n \in Nat /\ n * p = k * p + ScreenSize
  <2>1. (k + ScreenHigh) * p = k * p + ScreenHigh * p
    BY <1>1
  <2> QED
    BY <1>1, <2>1, Sizes
<1>4. c < (IF m = 0 THEN p ELSE m)
  BY DEF Reach
<1> HIDE DEF n, q, m
<1>5. /\ n < q => n * p + p <= q * p
      /\ q < n => q * p + p <= n * p
      /\ n * p \in Int /\ q * p \in Int
  BY <1>1, <1>2, <1>3, Multiples
<1>6. n * p < q * p + m
  BY <1>2, <1>3
<1>7. CASE n < q
  BY <1>1, <1>2, <1>3, <1>5, <1>7
<1>8. CASE n = q
  BY <1>1, <1>2, <1>3, <1>4, <1>5, <1>6, <1>8
<1>9. CASE q < n
  BY <1>1, <1>2, <1>3, <1>5, <1>6, <1>9
<1> QED
  BY <1>2, <1>3, <1>7, <1>8, <1>9
-----------------------------------------------------------------------------
(***************************************************************************)
(* What the window of a console state shows.                               *)
(***************************************************************************)
Characters == Letters \cup {Blank}

States == [memory : [Cells -> Characters], screen : Nat, row : Nat, col : Nat]

\* The window begins with a row and ends before Cells do; behind it everything
\* up to MonitorSize is blank.
Window(s) ==
  /\ s \in States
  /\ \E k \in Nat : s.screen = k * ScreenWidth
  /\ s.screen + ScreenSize < MonitorSize + ScreenWidth
  /\ \A a \in Cells : s.screen + ScreenSize <= a /\ a < MonitorSize => s.memory[a] = Blank

Good(s) == Window(s) /\ s.row < ScreenHigh /\ s.col < ScreenWidth

ShowRows(s) ==
  [r \in 0 .. ScreenHigh - 1 |->
     [c \in 0 .. ScreenWidth - 1 |-> s.memory[s.screen + Place(r, c)]]]

Term(R, i, k) == [rows |-> R, row |-> i, col |-> k]

\* A character at row i and column k.
Put(R, i, k, ch) == [R EXCEPT ![i][k] = ch]

Show(s) == Term(ShowRows(s), s.row, s.col)

LEMMA InWindow ==
  ASSUME NEW s, Window(s), NEW r \in 0 .. ScreenHigh - 1, NEW c \in 0 .. ScreenWidth - 1
  PROVE  /\ Place(r, c) \in Nat /\ Place(r, c) < ScreenSize
         /\ s.screen + Place(r, c) \in Cells /\ s.screen + Place(r, c) < s.screen + ScreenSize
<1>1. r \in Nat /\ c \in Nat /\ c < ScreenWidth /\ r < ScreenHigh
  BY Sizes
<1>2. Place(r, c) \in Nat /\ Place(r, c) < ScreenSize
  BY <1>1, PlaceIs
<1>3. s.screen \in Nat /\ s.screen + ScreenSize < MonitorSize + ScreenWidth
  BY DEF Window, States
<1> DEFINE p == Place(r, c)
<1> HIDE DEF p
<1>4. p \in Nat /\ p < ScreenSize
  BY <1>2 DEF p
<1>5. s.screen + p \in Cells /\ s.screen + p < s.screen + ScreenSize
  BY <1>3, <1>4, Sizes DEF Cells
<1> QED
  BY <1>2, <1>5 DEF p

\* A character that is written in the window shows there and nowhere else.
LEMMA CellChanged ==
  ASSUME NEW s, Window(s), NEW r \in 0 .. ScreenHigh - 1, NEW c \in 0 .. ScreenWidth - 1,
         NEW ch \in Characters, NEW w, w \in States, w.screen = s.screen,
         w.memory = [s.memory EXCEPT ![s.screen + Place(r, c)] = ch]
  PROVE  Window(w) /\ ShowRows(w) = [ShowRows(s) EXCEPT ![r][c] = ch]
<1> DEFINE here == s.screen + Place(r, c)
<1>1. s.memory \in [Cells -> Characters] /\ s.screen \in Nat /\ s.screen + ScreenSize \in Nat
  BY Sizes DEF Window, States
<1>2. here \in Cells /\ here < s.screen + ScreenSize
  BY InWindow
<1>3. /\ w.memory[here] = ch
      /\ \A a \in Cells : a # here => w.memory[a] = s.memory[a]
  <2> HIDE DEF here
  <2>1. w.memory = [s.memory EXCEPT ![here] = ch]
    BY DEF here
  <2> QED
    BY <1>1, <1>2, <2>1
<1>4. Window(w)
  <2>1. ASSUME NEW a \in Cells, w.screen + ScreenSize <= a, a < MonitorSize
        PROVE  w.memory[a] = Blank
    <3>1. a # here
      <4> HIDE DEF here
      <4>1. here \in Nat /\ a \in Nat
        BY <1>2, Sizes DEF Cells
      <4> QED
        BY <1>1, <1>2, <2>1, <4>1
    <3> QED
      BY <1>3, <2>1, <3>1 DEF Window
  <2> QED
    BY <2>1 DEF Window
<1>5. ASSUME NEW q \in 0 .. ScreenHigh - 1, NEW e \in 0 .. ScreenWidth - 1
      PROVE  w.memory[w.screen + Place(q, e)] =
               IF q = r /\ e = c THEN ch ELSE s.memory[s.screen + Place(q, e)]
  <2>1. s.screen + Place(q, e) \in Cells /\ Place(q, e) \in Nat /\ Place(r, c) \in Nat
    BY InWindow
  <2>2. ~(q = r /\ e = c) => s.screen + Place(q, e) # here
    <3>1. /\ q \in Nat /\ e \in Nat /\ e < ScreenWidth
          /\ r \in Nat /\ c \in Nat /\ c < ScreenWidth
      BY Sizes
    <3>2. Place(q, e) = Place(r, c) => q = r /\ e = c
      BY <3>1, SamePlace
    <3>3. \A x, y \in Nat : s.screen + x = s.screen + y => x = y
      BY <1>1
    <3> QED
      BY <2>1, <3>2, <3>3
  <2> QED
    BY <1>3, <2>1, <2>2
<1> DEFINE R == [ShowRows(s) EXCEPT ![r][c] = ch]
           P == [q \in 0 .. ScreenHigh - 1 |->
                  [e \in 0 .. ScreenWidth - 1 |->
                     IF q = r /\ e = c THEN ch ELSE s.memory[s.screen + Place(q, e)]]]
<1>6. ShowRows(w) = P
  BY <1>5 DEF ShowRows
<1>7. R = P
  BY DEF ShowRows
<1> QED
  BY <1>4, <1>6, <1>7

LEMMA SameWindow ==
  ASSUME NEW s, Window(s), NEW w, w \in States, w.screen = s.screen, w.memory = s.memory
  PROVE  Window(w) /\ ShowRows(w) = ShowRows(s)
BY DEF Window, ShowRows

\* An address in the window does not wrap round.
LEMMA AddressIs ==
  ASSUME NEW s, Good(s)
  PROVE  /\ Address(s) \in Nat /\ Address(s) < Offsets /\ Place(s.row, s.col) \in Nat
         /\ Address(s) = s.screen + Place(s.row, s.col)
<1>1. /\ s.screen \in Nat /\ s.row \in Nat /\ s.col \in Nat /\ Window(s)
      /\ s.row < ScreenHigh /\ s.col < ScreenWidth
      /\ s.screen + ScreenSize < MonitorSize + ScreenWidth
  BY DEF Good, Window, States
<1>2. s.row \in 0 .. ScreenHigh - 1 /\ s.col \in 0 .. ScreenWidth - 1
  BY <1>1, Sizes
<1>3. Place(s.row, s.col) \in Nat /\ Place(s.row, s.col) < ScreenSize
  BY <1>1, <1>2, InWindow
<1>4. s.row * ScreenWidth \in Nat
  BY <1>1, Sizes
<1>5. s.screen + s.row * ScreenWidth + s.col = s.screen + Place(s.row, s.col)
  BY <1>1, <1>4 DEF Place
<1> DEFINE a == s.screen + Place(s.row, s.col)
<1>6. a \in Nat /\ a < Offsets
  <2> DEFINE q == Place(s.row, s.col)
  <2>1. q \in Nat /\ q < ScreenSize /\ a = s.screen + q
    BY <1>3
  <2> HIDE DEF q, a
  <2> QED
    BY <1>1, <2>1, Sizes
<1> HIDE DEF a
<1>7. a % WordSize = a
  BY <1>6, Sizes
<1> QED
  BY <1>3, <1>5, <1>6, <1>7 DEF Address, CellAt, a

Controls == {"BS", "HT", "LF", "CR"}

\* What each character does to a terminal, in full.
LEMMA AfterBS ==
  ASSUME NEW R, NEW i \in Nat, NEW k \in Nat
  PROVE  T!After(Term(R, i, k), "BS") =
           IF k = 0 THEN {Term(R, i, k)} ELSE {Term(Put(R, i, k - 1, Blank), i, k - 1)}
<1> DEFINE t == Term(R, i, k)
<1>0. t = [rows |-> R, row |-> i, col |-> k]
  BY DEF Term
<1> HIDE DEF t
<1>1. t.rows = R /\ t.row = i /\ t.col = k
  BY <1>0
<1>2. CASE k = 0
  BY <1>1, <1>2 DEF T!After, t
<1>3. CASE k # 0
  <2>1. T!After(t, "BS") = {[t EXCEPT !.col = k - 1, !.rows[i][k - 1] = Blank]}
    BY <1>1, <1>3 DEF T!After
  <2>2. [t EXCEPT !.col = k - 1, !.rows[i][k - 1] = Blank] =
          [f \in DOMAIN t |-> IF f = "col" THEN k - 1
                              ELSE IF f = "rows" THEN [t.rows EXCEPT ![i][k - 1] = Blank]
                              ELSE t[f]]
    BY Zenon
  <2>3. [t EXCEPT !.col = k - 1, !.rows[i][k - 1] = Blank] = Term(Put(R, i, k - 1, Blank), i, k - 1)
    BY <1>0, <1>1, <2>2 DEF Term, Put
  <2> QED
    BY <1>3, <2>1, <2>3 DEF t
<1> QED
  BY <1>2, <1>3

LEMMA AfterHT ==
  ASSUME NEW R, NEW i \in Nat, NEW k \in Nat
  PROVE  T!After(Term(R, i, k), "HT") =
           {Term(R, i, IF k + Tab < ScreenWidth THEN k + Tab ELSE ScreenWidth - 1)}
<1> DEFINE t == Term(R, i, k)
<1>0. t = [rows |-> R, row |-> i, col |-> k]
  BY DEF Term
<1> HIDE DEF t
<1>1. t.rows = R /\ t.row = i /\ t.col = k
  BY <1>0
<1> DEFINE e == IF k + Tab < ScreenWidth THEN k + Tab ELSE ScreenWidth - 1
<1>2. T!After(t, "HT") = {[t EXCEPT !.col = e]}
  BY <1>1 DEF T!After
<1>3. [t EXCEPT !.col = e] = Term(R, i, e)
  BY <1>0 DEF Term
<1> QED
  BY <1>2, <1>3 DEF t

LEMMA AfterCR ==
  ASSUME NEW R, NEW i \in Nat, NEW k \in Nat
  PROVE  T!After(Term(R, i, k), "CR") = {Term(R, i, 0)}
<1> DEFINE t == Term(R, i, k)
<1>0. t = [rows |-> R, row |-> i, col |-> k]
  BY DEF Term
<1> HIDE DEF t
<1>1. t.rows = R /\ t.row = i /\ t.col = k
  BY <1>0
<1>2. T!After(t, "CR") = {[t EXCEPT !.col = 0]}
  BY <1>1 DEF T!After
<1>3. [t EXCEPT !.col = 0] = Term(R, i, 0)
  BY <1>0 DEF Term
<1> QED
  BY <1>2, <1>3 DEF t

LEMMA AfterLF ==
  ASSUME NEW R, NEW i \in Nat, NEW k \in Nat
  PROVE  T!After(Term(R, i, k), "LF") = T!Settled(Term(R, i + 1, 0))
<1> DEFINE t == Term(R, i, k)
<1>0. t = [rows |-> R, row |-> i, col |-> k]
  BY DEF Term
<1> HIDE DEF t
<1>1. t.rows = R /\ t.row = i /\ t.col = k
  BY <1>0
<1>2. T!After(t, "LF") = T!Settled([t EXCEPT !.row = i + 1, !.col = 0])
  BY <1>1 DEF T!After
<1>3. [t EXCEPT !.row = i + 1, !.col = 0] =
        [f \in DOMAIN t |-> IF f = "col" THEN 0 ELSE IF f = "row" THEN i + 1 ELSE t[f]]
  BY Zenon
<1>4. [t EXCEPT !.row = i + 1, !.col = 0] = Term(R, i + 1, 0)
  BY <1>0, <1>3 DEF Term
<1> QED
  BY <1>2, <1>4 DEF t

LEMMA AfterLetter ==
  ASSUME NEW R, NEW i \in Nat, NEW k \in Nat, NEW ch, ch \notin Controls
  PROVE  T!After(Term(R, i, k), ch) = T!Settled(Term(Put(R, i, k, ch), i, k + 1))
<1> DEFINE t == Term(R, i, k)
<1>0. t = [rows |-> R, row |-> i, col |-> k]
  BY DEF Term
<1> HIDE DEF t
<1>1. t.rows = R /\ t.row = i /\ t.col = k
  BY <1>0
<1>2. T!After(t, ch) = T!Settled([t EXCEPT !.rows[i][k] = ch, !.col = k + 1])
  BY <1>1 DEF T!After, Controls
<1>3. [t EXCEPT !.rows[i][k] = ch, !.col = k + 1] =
        [f \in DOMAIN t |-> IF f = "col" THEN k + 1
                            ELSE IF f = "rows" THEN [t.rows EXCEPT ![i][k] = ch]
                            ELSE t[f]]
  BY Zenon
<1>4. [t EXCEPT !.rows[i][k] = ch, !.col = k + 1] = Term(Put(R, i, k, ch), i, k + 1)
  BY <1>0, <1>1, <1>3 DEF Term, Put
<1> QED
  BY <1>2, <1>4 DEF t

\* What a character does before the cursor goes to the next row, here and to a
\* terminal.
LEMMA WrittenShows ==
  ASSUME NEW s, Good(s), NEW ch \in Letters \cup Controls
  PROVE  /\ ch \in {"BS", "HT", "CR"} =>
              Good(Written(s, ch)) /\ T!After(Show(s), ch) = {Show(Written(s, ch))}
         /\ ch \notin {"BS", "HT", "CR"} =>
              /\ Window(Written(s, ch)) /\ Written(s, ch).col <= ScreenWidth
              /\ \/ Written(s, ch).row < ScreenHigh
                 \/ Written(s, ch).row = ScreenHigh /\ Written(s, ch).col = 0
              /\ T!After(Show(s), ch) = T!Settled(Show(Written(s, ch)))
<1> DEFINE w == Written(s, ch)
<1>1. /\ s \in States /\ Window(s) /\ s.row < ScreenHigh /\ s.col < ScreenWidth
      /\ s.memory \in [Cells -> Characters] /\ s.screen \in Nat /\ s.row \in Nat /\ s.col \in Nat
      /\ s = [memory |-> s.memory, screen |-> s.screen, row |-> s.row, col |-> s.col]
  BY DEF Good, Window, States
<1>2. s.row \in 0 .. ScreenHigh - 1 /\ s.col \in 0 .. ScreenWidth - 1
  BY <1>1, Sizes
<1>3. Address(s) = s.screen + Place(s.row, s.col)
  BY AddressIs
<1>4. Show(s) = Term(ShowRows(s), s.row, s.col) /\ s.row \in Nat /\ s.col \in Nat
  BY <1>1 DEF Show
<1>5. CASE ch = "BS" /\ s.col = 0
  <2>1. w = s
    BY <1>1, <1>5 DEF Written
  <2>2. T!After(Show(s), ch) = {Show(s)}
    BY <1>4, <1>5, AfterBS
  <2> QED
    BY <1>5, <2>1, <2>2
<1>6. CASE ch = "BS" /\ s.col # 0
  <2>1. s.col > 0 /\ s.col - 1 \in 0 .. ScreenWidth - 1 /\ s.col - 1 < ScreenWidth
    BY <1>1, <1>2, <1>6, Sizes
  <2>2. Address(s) - 1 = s.screen + Place(s.row, s.col - 1)
    <3>1. s.row * ScreenWidth \in Nat
      BY <1>1, Sizes
    <3> QED
      BY <1>1, <1>3, <3>1 DEF Place
  <2>3. /\ w.screen = s.screen /\ w.row = s.row /\ w.col = s.col - 1
        /\ w.memory = [s.memory EXCEPT ![s.screen + Place(s.row, s.col - 1)] = Blank]
        /\ w = [memory |-> w.memory, screen |-> w.screen, row |-> w.row, col |-> w.col]
    BY <1>1, <1>6, <2>1, <2>2 DEF Written
  <2>4. w \in States
    <3>1. w.memory \in [Cells -> Characters]
      BY <1>1, <2>3 DEF Characters
    <3>2. w.col \in Nat
      BY <2>1, <2>3
    <3> HIDE DEF w
    <3> QED
      BY <1>1, <2>3, <3>1, <3>2 DEF States
  <2> HIDE DEF w
  <2>5. Window(w) /\ ShowRows(w) = [ShowRows(s) EXCEPT ![s.row][s.col - 1] = Blank]
    <3>1. Blank \in Characters
      BY DEF Characters
    <3> QED
      BY <1>1, <1>2, <2>1, <2>3, <2>4, <3>1, CellChanged
  <2>6. Good(w)
    BY <1>1, <2>1, <2>3, <2>5 DEF Good
  <2>7. T!After(Show(s), ch) = {Show(w)}
    <3>1. T!After(Show(s), ch) =
            {Term(Put(ShowRows(s), s.row, s.col - 1, Blank), s.row, s.col - 1)}
      BY <1>4, <1>6, AfterBS
    <3> QED
      BY <2>3, <2>5, <3>1 DEF Show, Put
  <2> QED
    BY <1>6, <2>6, <2>7 DEF w
<1>7. CASE ch = "HT"
  <2> DEFINE k == IF s.col + Tab >= ScreenWidth THEN ScreenWidth - 1 ELSE s.col + Tab
  <2>1. k \in Nat /\ k < ScreenWidth
    BY <1>1, Sizes
  <2>2. /\ w.screen = s.screen /\ w.row = s.row /\ w.col = k /\ w.memory = s.memory
        /\ w = [memory |-> w.memory, screen |-> w.screen, row |-> w.row, col |-> w.col]
    BY <1>1, <1>7 DEF Written
  <2> HIDE DEF w
  <2>3. w \in States
    BY <1>1, <2>1, <2>2 DEF States
  <2>4. Window(w) /\ ShowRows(w) = ShowRows(s)
    BY <1>1, <2>2, <2>3, SameWindow
  <2>5. Good(w)
    BY <1>1, <2>1, <2>2, <2>4 DEF Good
  <2>6. T!After(Show(s), ch) = {Show(w)}
    <3>1. (IF s.col + Tab < ScreenWidth THEN s.col + Tab ELSE ScreenWidth - 1) = k
      BY <1>1, Sizes
    <3>2. T!After(Show(s), ch) = {Term(ShowRows(s), s.row, k)}
      <4>1. T!After(Show(s), ch) =
              {Term(ShowRows(s), s.row,
                    IF s.col + Tab < ScreenWidth THEN s.col + Tab ELSE ScreenWidth - 1)}
        BY <1>4, <1>7, AfterHT
      <4> QED
        BY <3>1, <4>1
    <3> QED
      BY <2>2, <2>4, <3>2 DEF Show
  <2> QED
    BY <1>7, <2>5, <2>6 DEF w
<1>8. CASE ch = "CR"
  <2>1. /\ w.screen = s.screen /\ w.row = s.row /\ w.col = 0 /\ w.memory = s.memory
        /\ w = [memory |-> w.memory, screen |-> w.screen, row |-> w.row, col |-> w.col]
    BY <1>1, <1>8 DEF Written
  <2> HIDE DEF w
  <2>2. w \in States
    BY <1>1, <2>1 DEF States
  <2>3. Window(w) /\ ShowRows(w) = ShowRows(s)
    BY <1>1, <2>1, <2>2, SameWindow
  <2>4. Good(w)
    BY <1>1, <2>1, <2>3, Sizes DEF Good
  <2>5. T!After(Show(s), ch) = {Show(w)}
    <3>1. T!After(Show(s), ch) = {Term(ShowRows(s), s.row, 0)}
      BY <1>4, <1>8, AfterCR
    <3> QED
      BY <2>1, <2>3, <3>1 DEF Show
  <2> QED
    BY <1>8, <2>4, <2>5 DEF w
<1>9. CASE ch = "LF"
  <2>1. /\ w.screen = s.screen /\ w.row = s.row + 1 /\ w.col = 0 /\ w.memory = s.memory
        /\ w = [memory |-> w.memory, screen |-> w.screen, row |-> w.row, col |-> w.col]
    BY <1>1, <1>9 DEF Written
  <2> HIDE DEF w
  <2>2. w \in States
    BY <1>1, <2>1 DEF States
  <2>3. Window(w) /\ ShowRows(w) = ShowRows(s)
    BY <1>1, <2>1, <2>2, SameWindow
  <2>4. T!After(Show(s), ch) = T!Settled(Show(w))
    <3>1. T!After(Show(s), ch) = T!Settled(Term(ShowRows(s), s.row + 1, 0))
      BY <1>4, <1>9, AfterLF
    <3> QED
      BY <2>1, <2>3, <3>1 DEF Show
  <2>5. w.col <= ScreenWidth /\ (w.row < ScreenHigh \/ w.row = ScreenHigh)
    BY <1>1, <2>1, Sizes
  <2> QED
    BY <1>9, <2>1, <2>3, <2>4, <2>5 DEF w
<1>10. CASE ch \notin Controls
  <2>1. /\ w.screen = s.screen /\ w.row = s.row /\ w.col = s.col + 1
        /\ w.memory = [s.memory EXCEPT ![s.screen + Place(s.row, s.col)] = ch]
        /\ w = [memory |-> w.memory, screen |-> w.screen, row |-> w.row, col |-> w.col]
    BY <1>1, <1>3, <1>10 DEF Written, Controls
  <2>2. ch \in Characters
    BY <1>10 DEF Characters
  <2>3. w \in States
    <3>1. w.memory \in [Cells -> Characters]
      BY <1>1, <2>1, <2>2
    <3> HIDE DEF w
    <3> QED
      BY <1>1, <2>1, <3>1 DEF States
  <2> HIDE DEF w
  <2>4. Window(w) /\ ShowRows(w) = [ShowRows(s) EXCEPT ![s.row][s.col] = ch]
    BY <1>1, <1>2, <2>1, <2>2, <2>3, CellChanged
  <2>5. T!After(Show(s), ch) = T!Settled(Show(w))
    <3>1. T!After(Show(s), ch) =
            T!Settled(Term(Put(ShowRows(s), s.row, s.col, ch), s.row, s.col + 1))
      BY <1>4, <1>10, AfterLetter
    <3> QED
      BY <2>1, <2>4, <3>1 DEF Show, Put
  <2>6. w.col <= ScreenWidth /\ w.row < ScreenHigh
    BY <1>1, <2>1, Sizes
  <2>7. ch \notin {"BS", "HT", "CR"}
    BY <1>10 DEF Controls
  <2> QED
    BY <2>4, <2>5, <2>6, <2>7 DEF w
<1> QED
  BY <1>5, <1>6, <1>7, <1>8, <1>9, <1>10 DEF Controls
\* The terminal's two steps to the next row, in full.
LEMMA WrappedIs ==
  ASSUME NEW R, NEW i \in Nat, NEW k \in Nat,
         NEW t, t = [rows |-> R, row |-> i, col |-> k]
  PROVE  T!Wrapped(t) = [rows |-> R, row |-> IF k < ScreenWidth THEN i ELSE i + 1,
                         col |-> IF k < ScreenWidth THEN k ELSE 0]
<1>1. [t EXCEPT !.col = 0, !.row = t.row + 1] =
        [f \in DOMAIN t |-> IF f = "row" THEN t.row + 1 ELSE IF f = "col" THEN 0 ELSE t[f]]
  BY Zenon
<1>2. [t EXCEPT !.col = 0, !.row = t.row + 1] = [rows |-> R, row |-> i + 1, col |-> 0]
  BY <1>1
<1>3. T!Wrapped(t) = IF t.col < ScreenWidth THEN t
                     ELSE [t EXCEPT !.col = 0, !.row = t.row + 1]
  BY DEF T!Wrapped
<1>4. T!Wrapped(t) = IF t.col < ScreenWidth THEN t ELSE [rows |-> R, row |-> i + 1, col |-> 0]
  BY <1>2, <1>3, Zenon
<1> QED
  BY <1>4

Up(R, line) == [r \in 0 .. ScreenHigh - 1 |-> IF r = ScreenHigh - 1 THEN line ELSE R[r + 1]]

LEMMA MovedUpIs ==
  ASSUME NEW R, NEW i \in Nat, NEW k \in Nat, NEW line
  PROVE  T!MovedUp(Term(R, i, k), line) = Term(Up(R, line), i - 1, k)
<1> DEFINE t == Term(R, i, k)
<1>0. t = [rows |-> R, row |-> i, col |-> k]
  BY DEF Term
<1> HIDE DEF t
<1> DEFINE Q == [r \in 0 .. ScreenHigh - 1 |-> IF r = ScreenHigh - 1 THEN line ELSE t.rows[r + 1]]
<1>1. T!MovedUp(t, line) = [t EXCEPT !.row = t.row - 1, !.rows = Q]
  BY Zenon DEF T!MovedUp, T!Rows
<1>2. [t EXCEPT !.row = t.row - 1, !.rows = Q] =
        [f \in DOMAIN t |-> IF f = "rows" THEN Q ELSE IF f = "row" THEN t.row - 1 ELSE t[f]]
  <2> HIDE DEF Q
  <2> QED
    BY Zenon
<1>3. Q = Up(R, line)
  BY <1>0 DEF Up
<1> HIDE DEF Q
<1>4. T!MovedUp(t, line) = Term(Up(R, line), i - 1, k)
  BY <1>0, <1>1, <1>2, <1>3 DEF Term
<1> QED
  BY <1>4 DEF t
-----------------------------------------------------------------------------
(***************************************************************************)
(* The window moves down the memory, or goes back to its beginning, and    *)
(* the terminal shows a row more.                                          *)
(***************************************************************************)
\* The cursor is in the window, or at the beginning of the row behind it.
Behind(s) == Window(s) /\ s.row <= ScreenHigh /\ s.col < ScreenWidth

\* What the window shows after it has moved.
LEMMA MovedShows ==
  ASSUME NEW s, Behind(s), s.row = ScreenHigh, NEW v, Good(v),
         v.row = s.row - 1, v.col = s.col,
         \A r \in 0 .. ScreenHigh - 1, c \in 0 .. ScreenWidth - 1 :
           r + 1 < ScreenHigh =>
             v.memory[v.screen + Place(r, c)] = s.memory[s.screen + Place(r + 1, c)],
         \A c \in 0 .. ScreenWidth - 1 :
           c < Reach => v.memory[v.screen + Place(ScreenHigh - 1, c)] = Blank
  PROVE  \E line \in T!NewRows : Show(v) = T!MovedUp(Show(s), line)
<1> DEFINE line == [c \in 0 .. ScreenWidth - 1 |->
                      v.memory[v.screen + Place(ScreenHigh - 1, c)]]
<1>1. /\ Window(v) /\ Window(s) /\ v.memory \in [Cells -> Characters]
      /\ s.row \in Nat /\ s.col \in Nat
  BY DEF Good, Behind, Window, States
<1>2. line \in T!NewRows
  <2>1. ScreenHigh - 1 \in 0 .. ScreenHigh - 1
    BY Sizes
  <2>2. ASSUME NEW c \in 0 .. ScreenWidth - 1
        PROVE  line[c] \in Characters /\ (c < Reach => line[c] = Blank)
    BY <1>1, <2>1, <2>2, InWindow
  <2>3. line \in [0 .. ScreenWidth - 1 -> Letters \cup {Blank}]
    BY <2>2 DEF Characters
  <2> HIDE DEF line
  <2> QED
    BY <2>2, <2>3 DEF T!NewRows, T!Columns, Reach
<1>3. ShowRows(v) = Up(ShowRows(s), line)
  <2>1. ASSUME NEW r \in 0 .. ScreenHigh - 1
        PROVE  ShowRows(v)[r] = IF r = ScreenHigh - 1 THEN line ELSE ShowRows(s)[r + 1]
    <3>1. ShowRows(v)[r] = [c \in 0 .. ScreenWidth - 1 |-> v.memory[v.screen + Place(r, c)]]
      BY DEF ShowRows
    <3>2. CASE r = ScreenHigh - 1
      BY <3>1, <3>2
    <3>3. CASE r # ScreenHigh - 1
      <4>1. r + 1 \in 0 .. ScreenHigh - 1 /\ r + 1 < ScreenHigh
        BY <3>3, Sizes
      <4>2. ShowRows(s)[r + 1] =
              [c \in 0 .. ScreenWidth - 1 |-> s.memory[s.screen + Place(r + 1, c)]]
        BY <4>1 DEF ShowRows
      <4> QED
        BY <3>1, <3>3, <4>1, <4>2
    <3> QED
      BY <3>2, <3>3
  <2>2. ShowRows(v) = [r \in 0 .. ScreenHigh - 1 |-> ShowRows(v)[r]]
    BY DEF ShowRows
  <2> HIDE DEF line
  <2> QED
    BY <2>1, <2>2 DEF Up
<1> HIDE DEF line
<1>4. T!MovedUp(Show(s), line) = Term(Up(ShowRows(s), line), s.row - 1, s.col)
  BY <1>1, MovedUpIs DEF Show
<1>5. Show(v) = Term(ShowRows(v), s.row - 1, s.col)
  BY DEF Show
<1> QED
  BY <1>2, <1>3, <1>4, <1>5

\* Scrolled, field by field.
LEMMA ScrolledIs ==
  ASSUME NEW s \in States
  PROVE  /\ s.row < ScreenHigh => Scrolled(s) = s
         /\ s.row >= ScreenHigh /\ s.screen + ScreenSize >= MonitorSize =>
              Scrolled(s) =
                [memory |-> CopiedBack(s), screen |-> ScreenWidth, row |-> s.row - 1, col |-> s.col]
         /\ s.row >= ScreenHigh /\ s.screen + ScreenSize < MonitorSize =>
              Scrolled(s) = [memory |-> s.memory, screen |-> s.screen + ScreenWidth,
                             row |-> s.row - 1, col |-> s.col]
<1> DEFINE v == Scrolled(s)
<1>1. /\ s.screen \in Nat /\ s.row \in Nat /\ s.screen + ScreenSize \in Nat
      /\ s = [memory |-> s.memory, screen |-> s.screen, row |-> s.row, col |-> s.col]
  BY Sizes DEF States
<1>2. s.row < ScreenHigh => v = s
  BY DEF Scrolled
<1>3. CASE s.row >= ScreenHigh /\ s.screen + ScreenSize >= MonitorSize
  <2>1. v = [memory |-> CopiedBack(s), screen |-> ScreenWidth, row |-> s.row - 1, col |-> s.col]
    <3>1. v = [s EXCEPT !.memory = CopiedBack(s), !.screen = ScreenWidth, !.row = s.row - 1]
      BY <1>1, <1>3, Sizes DEF Scrolled
    <3>2. [s EXCEPT !.memory = CopiedBack(s), !.screen = ScreenWidth, !.row = s.row - 1] =
            [f \in DOMAIN s |-> IF f = "row" THEN s.row - 1
                                ELSE IF f = "screen" THEN ScreenWidth
                                ELSE IF f = "memory" THEN CopiedBack(s)
                                ELSE s[f]]
      BY Zenon
    <3>3. [f \in DOMAIN s |-> IF f = "row" THEN s.row - 1
                              ELSE IF f = "screen" THEN ScreenWidth
                              ELSE IF f = "memory" THEN CopiedBack(s)
                              ELSE s[f]] =
            [memory |-> CopiedBack(s), screen |-> ScreenWidth, row |-> s.row - 1, col |-> s.col]
      BY <1>1
    <3> HIDE DEF v
    <3> QED
      BY <3>1, <3>2, <3>3
  <2> QED
    BY <1>1, <1>3, <2>1, Sizes
<1>4. CASE s.row >= ScreenHigh /\ s.screen + ScreenSize < MonitorSize
  <2>1. v = [memory |-> s.memory, screen |-> s.screen + ScreenWidth, row |-> s.row - 1, col |-> s.col]
    <3>1. v = [s EXCEPT !.screen = s.screen + ScreenWidth, !.row = s.row - 1]
      BY <1>1, <1>4, Sizes DEF Scrolled
    <3>2. [s EXCEPT !.screen = s.screen + ScreenWidth, !.row = s.row - 1] =
            [f \in DOMAIN s |-> IF f = "row" THEN s.row - 1
                                ELSE IF f = "screen" THEN s.screen + ScreenWidth
                                ELSE s[f]]
      BY Zenon
    <3>3. [f \in DOMAIN s |-> IF f = "row" THEN s.row - 1
                              ELSE IF f = "screen" THEN s.screen + ScreenWidth
                              ELSE s[f]] =
            [memory |-> s.memory, screen |-> s.screen + ScreenWidth, row |-> s.row - 1, col |-> s.col]
      BY <1>1
    <3> HIDE DEF v
    <3> QED
      BY <3>1, <3>2, <3>3
  <2> QED
    BY <1>1, <1>4, <2>1, Sizes
<1>5. CASE s.row < ScreenHigh
  BY <1>1, <1>2, <1>5, Sizes
<1> QED
  BY <1>1, <1>3, <1>4, <1>5, Sizes

LEMMA ScrolledShows ==
  ASSUME NEW s, Behind(s)
  PROVE  /\ Good(Scrolled(s))
         /\ s.row < ScreenHigh => Scrolled(s) = s
         /\ s.row = ScreenHigh =>
              \E line \in T!NewRows : Show(Scrolled(s)) = T!MovedUp(Show(s), line)
<1> DEFINE v == Scrolled(s)
<1>1. /\ s \in States /\ Window(s) /\ s.memory \in [Cells -> Characters]
      /\ s.screen \in Nat /\ s.row \in Nat /\ s.col \in Nat /\ s.col < ScreenWidth
      /\ s.screen + ScreenSize < MonitorSize + ScreenWidth
      /\ s = [memory |-> s.memory, screen |-> s.screen, row |-> s.row, col |-> s.col]
  BY DEF Behind, Window, States
<1>2. CASE s.row < ScreenHigh
  <2>1. v = s
    BY <1>2 DEF Scrolled
  <2> QED
    BY <1>1, <1>2, <2>1 DEF Good
<1>3. ASSUME s.row = ScreenHigh, s.screen + ScreenSize >= MonitorSize
      PROVE  Good(v) /\ \E line \in T!NewRows : Show(v) = T!MovedUp(Show(s), line)
  <2>1. v = [memory |-> CopiedBack(s), screen |-> ScreenWidth, row |-> s.row - 1, col |-> s.col]
    BY <1>1, <1>3, ScrolledIs, Sizes
  <2> HIDE DEF v
  <2>2. /\ v.memory = CopiedBack(s) /\ v.screen = ScreenWidth /\ v.row = s.row - 1 /\ v.col = s.col
        /\ v.row \in Nat /\ v.row < ScreenHigh
    BY <1>3, <2>1, Sizes
  <2>3. ASSUME NEW a \in Cells
        PROVE  /\ v.memory[a] \in Characters
               /\ a < ScreenSize => v.memory[a] = s.memory[s.screen + a]
               /\ ScreenSize <= a /\ a < MonitorSize => v.memory[a] = Blank
    <3>1. v.memory[a] = IF a < ScreenSize THEN s.memory[s.screen + a]
                        ELSE IF a < MonitorSize THEN Blank
                        ELSE s.memory[a]
      BY <2>2 DEF CopiedBack
    <3>2. a \in Nat /\ (a < ScreenSize => s.screen + a \in Cells)
      BY <1>1, InCells
    <3> QED
      BY <1>1, <3>1, <3>2, Sizes DEF Characters
  <2>4. v \in States
    <3>1. v.memory \in [Cells -> Characters]
      <4>1. v.memory = [a \in Cells |-> v.memory[a]]
        BY <2>2 DEF CopiedBack
      <4> QED
        BY <2>3, <4>1
    <3> QED
      BY <1>1, <2>1, <2>2, <3>1, Sizes DEF States
  <2>5. Window(v)
    <3>1. \E k \in Nat : v.screen = k * ScreenWidth
      <4>1. 1 \in Nat /\ v.screen = 1 * ScreenWidth
        BY <2>2, Sizes
      <4> QED
        BY <4>1
    <3>2. v.screen + ScreenSize < MonitorSize + ScreenWidth
      BY <2>2, Sizes
    <3>3. ASSUME NEW a \in Cells, v.screen + ScreenSize <= a, a < MonitorSize
          PROVE  v.memory[a] = Blank
      <4>1. ScreenSize <= a
        BY <2>2, <3>3, Sizes DEF Cells
      <4> QED
        BY <2>3, <3>3, <4>1
    <3> QED
      BY <2>4, <3>1, <3>2, <3>3 DEF Window
  <2>6. Good(v)
    BY <1>1, <2>2, <2>5 DEF Good
  <2>7. ASSUME NEW r \in 0 .. ScreenHigh - 1, NEW c \in 0 .. ScreenWidth - 1, r + 1 < ScreenHigh
        PROVE  v.memory[v.screen + Place(r, c)] = s.memory[s.screen + Place(r + 1, c)]
    <3>1. r \in Nat /\ r + 1 \in Nat /\ c \in Nat /\ c < ScreenWidth /\ r + 1 \in 0 .. ScreenHigh - 1
      BY <2>7, Sizes
    <3>2. Place(r, c) \in Nat /\ Place(r + 1, c) = Place(r, c) + ScreenWidth
      BY <3>1, PlaceIs
    <3>3. Place(r + 1, c) \in Nat /\ Place(r + 1, c) < ScreenSize
      BY <3>1, <2>7, PlaceIs
    <3>4. v.screen + Place(r, c) = Place(r + 1, c)
      BY <2>2, <3>2, Sizes
    <3>5. Place(r + 1, c) \in Cells
      BY <3>3, Sizes DEF Cells
    <3> QED
      BY <2>3, <3>3, <3>4, <3>5
  <2>8. ASSUME NEW c \in 0 .. ScreenWidth - 1
        PROVE  v.memory[v.screen + Place(ScreenHigh - 1, c)] = Blank
    <3>1. ScreenHigh - 1 \in Nat /\ c \in Nat /\ c < ScreenWidth
      BY Sizes
    <3>2. /\ Place(ScreenHigh - 1, c) \in Nat
          /\ Place(ScreenHigh - 1, c) + ScreenWidth = ScreenSize + c
      BY <3>1, PlaceIs
    <3>3. v.screen + Place(ScreenHigh - 1, c) = ScreenSize + c
      BY <2>2, <3>2, Sizes
    <3>4. ScreenSize + c \in Cells /\ ScreenSize <= ScreenSize + c /\ ScreenSize + c < MonitorSize
      BY <3>1, Sizes DEF Cells
    <3> QED
      BY <2>3, <3>3, <3>4
  <2> QED
    BY <1>3, <2>2, <2>6, <2>7, <2>8, MovedShows
<1>4. ASSUME s.row = ScreenHigh, s.screen + ScreenSize < MonitorSize
      PROVE  Good(v) /\ \E line \in T!NewRows : Show(v) = T!MovedUp(Show(s), line)
  <2>1. v = [memory |-> s.memory, screen |-> s.screen + ScreenWidth, row |-> s.row - 1, col |-> s.col]
    BY <1>1, <1>4, ScrolledIs, Sizes
  <2> HIDE DEF v
  <2>2. /\ v.memory = s.memory /\ v.screen = s.screen + ScreenWidth /\ v.row = s.row - 1
        /\ v.col = s.col /\ v.row \in Nat /\ v.row < ScreenHigh /\ v.screen \in Nat
    BY <1>1, <1>4, <2>1, Sizes
  <2>3. v \in States
    BY <1>1, <2>1, <2>2 DEF States
  <2>4. PICK k \in Nat : s.screen = k * ScreenWidth
    BY <1>1 DEF Window
  <2>5. Window(v)
    <3>1. k + 1 \in Nat /\ v.screen = (k + 1) * ScreenWidth
      BY <2>2, <2>4, Sizes
    <3>2. v.screen + ScreenSize < MonitorSize + ScreenWidth
      BY <1>1, <1>4, <2>2, Sizes
    <3>3. ASSUME NEW a \in Cells, v.screen + ScreenSize <= a, a < MonitorSize
          PROVE  v.memory[a] = Blank
      <4>1. s.screen + ScreenSize <= a
        BY <1>1, <2>2, <3>3, InCells
      <4> QED
        BY <1>1, <2>2, <3>3, <4>1 DEF Window
    <3> QED
      BY <2>3, <3>1, <3>2, <3>3 DEF Window
  <2>6. Good(v)
    BY <1>1, <2>2, <2>5 DEF Good
  <2>7. ASSUME NEW r \in 0 .. ScreenHigh - 1, NEW c \in 0 .. ScreenWidth - 1, r + 1 < ScreenHigh
        PROVE  v.memory[v.screen + Place(r, c)] = s.memory[s.screen + Place(r + 1, c)]
    <3>1. r \in Nat /\ c \in Nat /\ c < ScreenWidth
      BY Sizes
    <3>2. Place(r, c) \in Nat /\ Place(r + 1, c) = Place(r, c) + ScreenWidth
      BY <3>1, PlaceIs
    <3>3. v.screen + Place(r, c) = s.screen + Place(r + 1, c)
      BY <1>1, <2>2, <3>2, Sizes
    <3> QED
      BY <2>2, <3>3
  <2>8. ASSUME NEW c \in 0 .. ScreenWidth - 1, c < Reach
        PROVE  v.memory[v.screen + Place(ScreenHigh - 1, c)] = Blank
    <3>1. ScreenHigh - 1 \in Nat /\ c \in Nat /\ c < ScreenWidth
      BY Sizes
    <3>2. /\ Place(ScreenHigh - 1, c) \in Nat
          /\ Place(ScreenHigh - 1, c) + ScreenWidth = ScreenSize + c
      BY <3>1, PlaceIs
    <3>3. v.screen + Place(ScreenHigh - 1, c) = s.screen + ScreenSize + c
      BY <1>1, <2>2, <3>2, Sizes
    <3>4. s.screen + ScreenSize + c < MonitorSize
      BY <1>4, <2>4, <2>8, <3>1, Reached
    <3>5. /\ s.screen + ScreenSize + c \in Cells
          /\ s.screen + ScreenSize <= s.screen + ScreenSize + c
      BY <1>1, <3>1, <3>4, InCells
    <3> QED
      BY <1>1, <2>2, <3>3, <3>4, <3>5 DEF Window
  <2> QED
    BY <1>4, <2>2, <2>6, <2>7, <2>8, MovedShows
<1>5. s.row < ScreenHigh \/ s.row = ScreenHigh
  BY <1>1, Sizes DEF Behind
<1>6. s.screen + ScreenSize < MonitorSize \/ s.screen + ScreenSize >= MonitorSize
  BY <1>1, Sizes
<1>7. s.row < ScreenHigh => s.row # ScreenHigh
  BY <1>1, Sizes
<1> HIDE DEF v
<1>8. CASE s.row < ScreenHigh
  BY <1>2, <1>7, <1>8 DEF v
<1>9. CASE s.row = ScreenHigh
  BY <1>3, <1>4, <1>6, <1>7, <1>9 DEF v
<1> QED
  BY <1>5, <1>8, <1>9
LEMMA WrappedShows ==
  ASSUME NEW s, Window(s), s.col <= ScreenWidth,
         s.row < ScreenHigh \/ (s.row = ScreenHigh /\ s.col = 0)
  PROVE  /\ Behind(Wrapped(s))
         /\ Show(Wrapped(s)) = T!Wrapped(Show(s))
         /\ Good(s) => Wrapped(s) = s
<1> DEFINE v == Wrapped(s)
<1>1. /\ s \in States /\ s.memory \in [Cells -> Characters]
      /\ s.screen \in Nat /\ s.row \in Nat /\ s.col \in Nat
      /\ s = [memory |-> s.memory, screen |-> s.screen, row |-> s.row, col |-> s.col]
  BY DEF Window, States
<1>2. ScreenWidth \in Nat /\ ScreenWidth > 0 /\ ScreenHigh \in Nat
  BY Sizes
<1>3. T!Wrapped(Show(s)) =
        [rows |-> ShowRows(s), row |-> IF s.col < ScreenWidth THEN s.row ELSE s.row + 1,
         col |-> IF s.col < ScreenWidth THEN s.col ELSE 0]
  BY <1>1, WrappedIs DEF Show, Term
<1>4. CASE s.col < ScreenWidth
  <2>1. v = s
    BY <1>1, <1>2, <1>4 DEF Wrapped
  <2>2. s.row <= ScreenHigh
    BY <1>1, <1>2
  <2>3. Show(s) = T!Wrapped(Show(s))
    BY <1>3, <1>4 DEF Show, Term
  <2> QED
    BY <1>4, <2>1, <2>2, <2>3 DEF Behind
<1>5. CASE ~(s.col < ScreenWidth)
  <2>1. v = [memory |-> s.memory, screen |-> s.screen, row |-> s.row + 1, col |-> 0]
    <3>1. v = [s EXCEPT !.col = 0, !.row = s.row + 1]
      BY <1>1, <1>2, <1>5 DEF Wrapped
    <3>2. [s EXCEPT !.col = 0, !.row = s.row + 1] =
            [f \in DOMAIN s |-> IF f = "row" THEN s.row + 1 ELSE IF f = "col" THEN 0 ELSE s[f]]
      BY Zenon
    <3>3. [f \in DOMAIN s |-> IF f = "row" THEN s.row + 1 ELSE IF f = "col" THEN 0 ELSE s[f]] =
            [memory |-> s.memory, screen |-> s.screen, row |-> s.row + 1, col |-> 0]
      BY <1>1
    <3> HIDE DEF v
    <3> QED
      BY <3>1, <3>2, <3>3
  <2> HIDE DEF v
  <2>2. /\ v.memory = s.memory /\ v.screen = s.screen /\ v.row = s.row + 1 /\ v.col = 0
        /\ v \in States
    BY <1>1, <2>1 DEF States
  <2>3. Window(v) /\ ShowRows(v) = ShowRows(s)
    BY <2>2, SameWindow
  <2>4. v.row <= ScreenHigh /\ v.col < ScreenWidth
    BY <1>1, <1>2, <1>5, <2>2
  <2>5. Show(v) = T!Wrapped(Show(s))
    BY <1>3, <1>5, <2>2, <2>3 DEF Show, Term
  <2> QED
    BY <1>5, <2>3, <2>4, <2>5 DEF v, Behind, Good
<1> QED
  BY <1>4, <1>5

LEMMA ScreenStays ==
  ASSUME NEW s, Good(s), NEW ch \in Letters \cup Controls
  PROVE  Wrapped(Written(s, ch)).screen = s.screen
<1>1. s = [memory |-> s.memory, screen |-> s.screen, row |-> s.row, col |-> s.col]
  BY DEF Good, Window, States
<1> DEFINE w == Written(s, ch)
<1>2. /\ w.screen = s.screen
      /\ w = [memory |-> w.memory, screen |-> w.screen, row |-> w.row, col |-> w.col]
  BY <1>1 DEF Written
<1> HIDE DEF w
<1>3. Wrapped(w).screen = w.screen
  BY <1>2 DEF Wrapped
<1> QED
  BY <1>2, <1>3 DEF w

\* A character that is put on the window appears on the terminal.
LEMMA PutCharShows ==
  ASSUME NEW s, Good(s), NEW ch \in Letters \cup Controls
  PROVE  /\ Behind(Wrapped(Written(s, ch)))
         /\ Good(PutChar(s, ch)) /\ Show(PutChar(s, ch)) \in T!After(Show(s), ch)
<1> DEFINE w == Written(s, ch)
           x == Wrapped(w)
           v == Scrolled(x)
<1>1. PutChar(s, ch) = v
  BY DEF PutChar
<1>2. CASE ch \in {"BS", "HT", "CR"}
  <2>1. Good(w) /\ T!After(Show(s), ch) = {Show(w)}
    BY <1>2, WrittenShows
  <2>2. /\ Window(w) /\ w.col <= ScreenWidth /\ w.row < ScreenHigh /\ w.col < ScreenWidth
        /\ w.row <= ScreenHigh
    <3>1. w.col \in Nat /\ w.row \in Nat
      BY <2>1 DEF Good, Window, States
    <3> HIDE DEF w
    <3> QED
      BY <2>1, <3>1, Sizes DEF Good
  <2>3. x = w
    BY <2>1, <2>2, WrappedShows
  <2>4. v = w /\ Behind(x)
    <3>1. Behind(w)
      BY <2>2 DEF Behind
    <3> QED
      BY <2>2, <2>3, <3>1, ScrolledShows
  <2> HIDE DEF w, x, v
  <2> QED
    BY <1>1, <2>1, <2>4 DEF w, x
<1>3. CASE ch \notin {"BS", "HT", "CR"}
  <2>1. /\ Window(w) /\ w.col <= ScreenWidth
        /\ w.row < ScreenHigh \/ (w.row = ScreenHigh /\ w.col = 0)
        /\ T!After(Show(s), ch) = T!Settled(Show(w))
    BY <1>3, WrittenShows
  <2> HIDE DEF w
  <2>2. Behind(x) /\ Show(x) = T!Wrapped(Show(w))
    BY <2>1, WrappedShows
  <2>3. T!Settled(Show(w)) =
          IF Show(x).row < ScreenHigh THEN {Show(x)}
          ELSE {T!MovedUp(Show(x), line) : line \in T!NewRows}
    BY <2>2, Zenon DEF T!Settled
  <2>4. Show(x).row = x.row
    BY DEF Show, Term
  <2> HIDE DEF x
  <2>5. /\ Good(v)
        /\ x.row < ScreenHigh => v = x
        /\ x.row = ScreenHigh => \E line \in T!NewRows : Show(v) = T!MovedUp(Show(x), line)
    BY <2>2, ScrolledShows
  <2>6. x.row < ScreenHigh \/ (x.row = ScreenHigh /\ ~(x.row < ScreenHigh))
    <3>1. x.row \in Nat /\ x.row <= ScreenHigh
      BY <2>2 DEF Behind, Window, States
    <3> QED
      BY <3>1, Sizes
  <2> HIDE DEF v
  <2>7. Show(v) \in T!Settled(Show(w))
    BY <2>3, <2>4, <2>5, <2>6
  <2> QED
    BY <1>1, <2>1, <2>2, <2>5, <2>7 DEF w, x
<1> QED
  BY <1>2, <1>3
-----------------------------------------------------------------------------
(***************************************************************************)
(* What a terminal may become is a terminal.                               *)
(***************************************************************************)
Lines == [0 .. ScreenHigh - 1 -> [0 .. ScreenWidth - 1 -> Characters]]

Terminals == [rows : Lines, row : 0 .. ScreenHigh - 1, col : 0 .. ScreenWidth - 1]

LEMMA TerminalIs ==
  /\ \A t \in Terminals :
       t = Term(t.rows, t.row, t.col) /\ t.rows \in Lines /\ t.row \in Nat /\ t.col \in Nat
       /\ t.row < ScreenHigh /\ t.col < ScreenWidth
  /\ \A R \in Lines, i, k \in Nat : i < ScreenHigh /\ k < ScreenWidth => Term(R, i, k) \in Terminals
<1>1. ScreenHigh \in Nat /\ ScreenWidth \in Nat
  BY Sizes
<1>2. ASSUME NEW t \in Terminals
      PROVE  /\ t = Term(t.rows, t.row, t.col) /\ t.rows \in Lines /\ t.row \in Nat /\ t.col \in Nat
             /\ t.row < ScreenHigh /\ t.col < ScreenWidth
  BY <1>1, <1>2 DEF Terminals, Term
<1>3. ASSUME NEW R \in Lines, NEW i \in Nat, NEW k \in Nat, i < ScreenHigh, k < ScreenWidth
      PROVE  Term(R, i, k) \in Terminals
  <2>1. i \in 0 .. ScreenHigh - 1 /\ k \in 0 .. ScreenWidth - 1
    BY <1>1, <1>3
  <2> QED
    BY <2>1 DEF Terminals, Term
<1> QED
  BY <1>2, <1>3

LEMMA SettledTyped ==
  ASSUME NEW R \in Lines, NEW i \in Nat, NEW k \in Nat, k <= ScreenWidth,
         i < ScreenHigh \/ (i = ScreenHigh /\ k = 0)
  PROVE  T!Settled(Term(R, i, k)) \subseteq Terminals
<1> DEFINE e == IF k < ScreenWidth THEN i ELSE i + 1
           d == IF k < ScreenWidth THEN k ELSE 0
           u == Term(R, e, d)
<1>1. T!Wrapped(Term(R, i, k)) = u
  BY WrappedIs DEF Term
<1>2. /\ ScreenHigh \in Nat /\ ScreenHigh > 0 /\ ScreenWidth \in Nat
      /\ e \in Nat /\ d \in Nat /\ d < ScreenWidth /\ e <= ScreenHigh
  BY Sizes
<1>3. u.row = e
  BY DEF Term
<1> HIDE DEF e, d
<1>4. T!Settled(Term(R, i, k)) =
        IF u.row < ScreenHigh THEN {u} ELSE {T!MovedUp(u, line) : line \in T!NewRows}
  <2> HIDE DEF u
  <2> QED
    BY <1>1, Zenon DEF T!Settled
<1>5. CASE e < ScreenHigh
  <2>1. u \in Terminals
    BY <1>2, <1>5, TerminalIs
  <2> QED
    BY <1>3, <1>4, <1>5, <2>1
<1>6. CASE e = ScreenHigh
  <2>1. ASSUME NEW line \in T!NewRows PROVE T!MovedUp(u, line) \in Terminals
    <3> DEFINE Q == Up(R, line)
    <3>1. T!MovedUp(u, line) = Term(Q, e - 1, d)
      BY <1>2, MovedUpIs
    <3>2. Q \in Lines
      <4>1. line \in [0 .. ScreenWidth - 1 -> Characters]
        BY DEF T!NewRows, T!Columns, Characters
      <4>2. ASSUME NEW r \in 0 .. ScreenHigh - 1, r # ScreenHigh - 1
            PROVE  R[r + 1] \in [0 .. ScreenWidth - 1 -> Characters]
        <5>1. r + 1 \in 0 .. ScreenHigh - 1
          BY <1>2, <4>2
        <5> QED
          BY <5>1 DEF Lines
      <4> QED
        BY <4>1, <4>2 DEF Lines, Up
    <3>3. e - 1 \in Nat /\ e - 1 < ScreenHigh
      BY <1>2, <1>6
    <3> HIDE DEF Q
    <3> QED
      BY <1>2, <3>1, <3>2, <3>3, TerminalIs
  <2>2. ~(u.row < ScreenHigh)
    BY <1>2, <1>3, <1>6
  <2> HIDE DEF u
  <2> QED
    BY <1>4, <2>1, <2>2
<1> QED
  BY <1>2, <1>5, <1>6

LEMMA AfterTyped ==
  ASSUME NEW t \in Terminals, NEW ch \in Letters \cup Controls
  PROVE  T!After(t, ch) \subseteq Terminals
<1> DEFINE R == t.rows
           i == t.row
           k == t.col
<1>1. /\ t = Term(R, i, k) /\ R \in Lines /\ i \in Nat /\ k \in Nat
      /\ i < ScreenHigh /\ k < ScreenWidth
  BY TerminalIs
<1>2. ScreenWidth \in Nat /\ ScreenWidth > 0 /\ ScreenHigh \in Nat /\ Tab \in Nat
  BY Sizes
<1> HIDE DEF R, i, k
<1>3. ASSUME NEW c \in Nat, c < ScreenWidth, NEW x \in Characters PROVE Put(R, i, c, x) \in Lines
  <2>1. c \in 0 .. ScreenWidth - 1 /\ i \in 0 .. ScreenHigh - 1
    BY <1>1, <1>2, <1>3
  <2>2. R[i] \in [0 .. ScreenWidth - 1 -> Characters]
    BY <1>1, <2>1 DEF Lines
  <2>3. [R[i] EXCEPT ![c] = x] \in [0 .. ScreenWidth - 1 -> Characters]
    BY <2>1, <2>2
  <2> DEFINE line == [R[i] EXCEPT ![c] = x]
  <2>4. Put(R, i, c, x) = [R EXCEPT ![i] = line]
    BY DEF Put
  <2> HIDE DEF line
  <2>5. line \in [0 .. ScreenWidth - 1 -> Characters]
    BY <2>3 DEF line
  <2> QED
    BY <1>1, <2>1, <2>4, <2>5 DEF Lines
<1>4. CASE ch = "BS" /\ k = 0
  <2>1. T!After(t, ch) = {t}
    BY <1>1, <1>4, AfterBS
  <2> QED
    BY <2>1
<1>5. CASE ch = "BS" /\ k # 0
  <2>1. k - 1 \in Nat /\ k - 1 < ScreenWidth /\ Blank \in Characters
    BY <1>1, <1>2, <1>5 DEF Characters
  <2>2. T!After(t, ch) = {Term(Put(R, i, k - 1, Blank), i, k - 1)}
    BY <1>1, <1>5, AfterBS
  <2>3. Put(R, i, k - 1, Blank) \in Lines
    BY <1>3, <2>1
  <2> QED
    BY <1>1, <2>1, <2>2, <2>3, TerminalIs
<1>6. CASE ch = "HT"
  <2> DEFINE e == IF k + Tab < ScreenWidth THEN k + Tab ELSE ScreenWidth - 1
  <2>1. e \in Nat /\ e < ScreenWidth
    BY <1>1, <1>2
  <2>2. T!After(t, ch) = {Term(R, i, e)}
    BY <1>1, <1>6, AfterHT
  <2> HIDE DEF e
  <2> QED
    BY <1>1, <2>1, <2>2, TerminalIs
<1>7. CASE ch = "CR"
  <2>1. T!After(t, ch) = {Term(R, i, 0)}
    BY <1>1, <1>7, AfterCR
  <2> QED
    BY <1>1, <1>2, <2>1, TerminalIs
<1>8. CASE ch = "LF"
  <2>1. T!After(t, ch) = T!Settled(Term(R, i + 1, 0))
    BY <1>1, <1>8, AfterLF
  <2>2. i + 1 \in Nat /\ 0 <= ScreenWidth /\ (i + 1 < ScreenHigh \/ i + 1 = ScreenHigh)
    BY <1>1, <1>2
  <2> QED
    BY <1>1, <2>1, <2>2, SettledTyped
<1>9. CASE ch \notin Controls
  <2>1. T!After(t, ch) = T!Settled(Term(Put(R, i, k, ch), i, k + 1))
    BY <1>1, <1>9, AfterLetter
  <2>2. k + 1 \in Nat /\ k + 1 <= ScreenWidth
    BY <1>1, <1>2
  <2>3. Put(R, i, k, ch) \in Lines
    <3>1. ch \in Characters
      BY <1>9 DEF Characters
    <3> QED
      BY <1>1, <1>3, <3>1
  <2> QED
    BY <1>1, <2>1, <2>2, <2>3, SettledTyped
<1> QED
  BY <1>4, <1>5, <1>6, <1>7, <1>8, <1>9 DEF Controls
-----------------------------------------------------------------------------
(***************************************************************************)
(* A text is put on the window character by character, and appears on the  *)
(* terminal so.                                                            *)
(***************************************************************************)
\* The state after the first n characters of a text.
Way(s, text, n) ==
  LET after[m \in 0 .. Len(text)] == IF m = 0 THEN s ELSE PutChar(after[m - 1], text[m])
  IN  after[n]

LEMMA PrintedSteps ==
  ASSUME NEW s, Good(s),
         NEW text \in Seq(Letters \cup Controls)
  PROVE  /\ Way(s, text, 0) = s
         /\ \A n \in 1 .. Len(text) : Way(s, text, n) = PutChar(Way(s, text, n - 1), text[n])
         /\ Printed(s, text) = Way(s, text, Len(text))
<1> DEFINE L == Len(text)
           X == {w \in States : Good(w)}
           Next1(n, w) == PutChar(w, text[n])
           step == [a \in (1 .. L) \X X |-> Next1(a[1], a[2])]
           IsWay(f) == f = [n \in 0 .. L |-> IF n = 0 THEN s ELSE Next1(n, f[n - 1])]
           W == CHOOSE f : IsWay(f)
<1>1. L \in Nat /\ \A n \in 1 .. L : text[n] \in Letters \cup Controls
  OBVIOUS
<1>2. Printed(s, text) = W[L] /\ \A n : Way(s, text, n) = W[n]
  BY Zenon DEF Printed, Way
<1>3. s \in X
  BY DEF Good, Window
<1>4. ASSUME NEW n \in 1 .. L, NEW w \in X PROVE Next1(n, w) \in X
  <2>1. Good(PutChar(w, text[n]))
    BY <1>1, PutCharShows
  <2> QED
    BY <2>1 DEF Good, Window
<1> HIDE DEF X, Next1, L
<1>5. step \in [(1 .. L) \X X -> X]
  <2>1. ASSUME NEW a \in (1 .. L) \X X PROVE Next1(a[1], a[2]) \in X
    BY <1>4
  <2> QED
    BY <2>1
<1>6. \A n \in 1 .. L, w \in X : step[<<n, w>>] = Next1(n, w)
  OBVIOUS
<1> HIDE DEF step
<1>7. PICK f \in [0 .. L -> X] : Iterates(f, s, step, L)
  BY <1>1, <1>3, <1>5, IterationExists
<1>8. f[0] = s /\ \A n \in 1 .. L : f[n] = Next1(n, f[n - 1])
  <2>1. f[0] = s /\ \A n \in 1 .. L : f[n] = step[<<n, f[n - 1]>>]
    BY <1>7 DEF Iterates
  <2>2. \A n \in 1 .. L : f[n - 1] \in X
    BY <1>1
  <2> QED
    BY <1>6, <2>1, <2>2
<1>9. IsWay(f)
  <2>1. \A n \in 0 .. L : f[n] = IF n = 0 THEN s ELSE Next1(n, f[n - 1])
    BY <1>1, <1>8
  <2> QED
    BY <2>1
<1> HIDE DEF IsWay
<1>10. IsWay(W)
  BY <1>9, Zenon
<1> HIDE DEF W
<1>11. W[0] = s /\ \A n \in 1 .. L : W[n] = Next1(n, W[n - 1])
  <2>1. \A n \in 0 .. L : W[n] = IF n = 0 THEN s ELSE Next1(n, W[n - 1])
    BY <1>10, Zenon DEF IsWay
  <2>2. 0 \in 0 .. L /\ \A n \in 1 .. L : n \in 0 .. L /\ n # 0
    BY <1>1
  <2> QED
    BY <2>1, <2>2, Zenon
<1> QED
  BY <1>2, <1>11, Zenon DEF Next1, L

LEMMA AfterEachSteps ==
  ASSUME NEW start \in SUBSET Terminals,
         NEW text \in Seq(Letters \cup Controls)
  PROVE  \E f : /\ f[0] = start
                /\ \A n \in 1 .. Len(text) : f[n] = UNION {T!After(t, text[n]) : t \in f[n - 1]}
                /\ T!AfterEach(start, text) = f[Len(text)]
<1> DEFINE L == Len(text)
           X == SUBSET Terminals
           Next1(n, W) == UNION {T!After(t, text[n]) : t \in W}
           step == [a \in (1 .. L) \X X |-> Next1(a[1], a[2])]
           IsWay(f) == f = [n \in 0 .. L |-> IF n = 0 THEN start ELSE Next1(n, f[n - 1])]
           V == CHOOSE f : IsWay(f)
<1>1. L \in Nat /\ \A n \in 1 .. L : text[n] \in Letters \cup Controls
  OBVIOUS
<1>2. T!AfterEach(start, text) = V[L]
  BY Zenon DEF T!AfterEach
<1>3. start \in X
  OBVIOUS
<1>4. ASSUME NEW n \in 1 .. L, NEW W \in X PROVE Next1(n, W) \in X
  <2>1. \A t \in W : T!After(t, text[n]) \subseteq Terminals
    BY <1>1, AfterTyped
  <2> QED
    BY <2>1
<1> HIDE DEF X, Next1, L
<1>5. step \in [(1 .. L) \X X -> X]
  <2>1. ASSUME NEW a \in (1 .. L) \X X PROVE Next1(a[1], a[2]) \in X
    BY <1>4
  <2> QED
    BY <2>1
<1>6. \A n \in 1 .. L, W \in X : step[<<n, W>>] = Next1(n, W)
  OBVIOUS
<1> HIDE DEF step
<1>7. PICK f \in [0 .. L -> X] : Iterates(f, start, step, L)
  BY <1>1, <1>3, <1>5, IterationExists
<1>8. f[0] = start /\ \A n \in 1 .. L : f[n] = Next1(n, f[n - 1])
  <2>1. f[0] = start /\ \A n \in 1 .. L : f[n] = step[<<n, f[n - 1]>>]
    BY <1>7 DEF Iterates
  <2>2. \A n \in 1 .. L : f[n - 1] \in X
    BY <1>1
  <2> QED
    BY <1>6, <2>1, <2>2
<1>9. IsWay(f)
  <2>1. \A n \in 0 .. L : f[n] = IF n = 0 THEN start ELSE Next1(n, f[n - 1])
    BY <1>1, <1>8
  <2> QED
    BY <2>1
<1> HIDE DEF IsWay
<1>10. IsWay(V)
  BY <1>9, Zenon
<1> HIDE DEF V
<1>11. V[0] = start /\ \A n \in 1 .. L : V[n] = Next1(n, V[n - 1])
  <2>1. \A n \in 0 .. L : V[n] = IF n = 0 THEN start ELSE Next1(n, V[n - 1])
    BY <1>10, Zenon DEF IsWay
  <2>2. 0 \in 0 .. L /\ \A n \in 1 .. L : n \in 0 .. L /\ n # 0
    BY <1>1
  <2> QED
    BY <2>1, <2>2, Zenon
<1> QED
  BY <1>2, <1>11, Zenon DEF Next1, L

LEMMA WayIsGood ==
  ASSUME NEW s, Good(s), NEW text \in Seq(Letters \cup Controls), NEW n \in 0 .. Len(text)
  PROVE  Good(Way(s, text, n))
<1>1. Len(text) \in Nat /\ \A m \in 1 .. Len(text) : text[m] \in Letters \cup Controls
  OBVIOUS
<1> DEFINE Z == {m \in Nat : m <= Len(text) => Good(Way(s, text, m))}
<1>2. 0 \in Z
  BY PrintedSteps
<1>3. ASSUME NEW m \in Nat, m \in Z PROVE m + 1 \in Z
  <2> SUFFICES ASSUME m + 1 <= Len(text) PROVE Good(Way(s, text, m + 1))
    OBVIOUS
  <2>1. m + 1 \in 1 .. Len(text) /\ (m + 1) - 1 = m /\ Good(Way(s, text, m))
    BY <1>1, <1>3
  <2>2. Way(s, text, m + 1) = PutChar(Way(s, text, m), text[m + 1])
    BY <2>1, PrintedSteps
  <2> QED
    BY <1>1, <2>1, <2>2, PutCharShows
<1> HIDE DEF Z
<1>4. \A m \in Nat : m \in Z
  BY <1>2, <1>3, SetInduction
<1> QED
  BY <1>1, <1>4 DEF Z

LEMMA ShowIsTerminal ==
  ASSUME NEW s, Good(s)
  PROVE  Show(s) \in Terminals
<1>1. /\ s.memory \in [Cells -> Characters] /\ s.row \in Nat /\ s.col \in Nat /\ Window(s)
      /\ s.row < ScreenHigh /\ s.col < ScreenWidth
  BY DEF Good, Window, States
<1>2. ShowRows(s) \in Lines
  <2>1. \A r \in 0 .. ScreenHigh - 1, c \in 0 .. ScreenWidth - 1 :
          s.memory[s.screen + Place(r, c)] \in Characters
    BY <1>1, InWindow
  <2> QED
    BY <2>1 DEF ShowRows, Lines
<1> QED
  BY <1>1, <1>2, TerminalIs DEF Show

LEMMA PrintedShows ==
  ASSUME NEW s, Good(s), NEW text \in Seq(Letters \cup Controls),
         NEW start \in SUBSET Terminals, Show(s) \in start
  PROVE  Good(Printed(s, text)) /\ Show(Printed(s, text)) \in T!AfterEach(start, text)
<1>1. Len(text) \in Nat /\ \A n \in 1 .. Len(text) : text[n] \in Letters \cup Controls
  OBVIOUS
<1> DEFINE f(n) == Way(s, text, n)
<1>2. /\ f(0) = s
      /\ \A n \in 1 .. Len(text) : f(n) = PutChar(f(n - 1), text[n])
      /\ Printed(s, text) = f(Len(text))
  BY PrintedSteps
<1> HIDE DEF f
<1>3. PICK g : /\ g[0] = start
               /\ \A n \in 1 .. Len(text) : g[n] = UNION {T!After(t, text[n]) : t \in g[n - 1]}
               /\ T!AfterEach(start, text) = g[Len(text)]
  BY AfterEachSteps
<1> DEFINE Z == {n \in Nat : n <= Len(text) => Good(f(n)) /\ Show(f(n)) \in g[n]}
<1>4. 0 \in Z
  BY <1>2, <1>3
<1>5. ASSUME NEW n \in Nat, n \in Z PROVE n + 1 \in Z
  <2> SUFFICES ASSUME n + 1 <= Len(text) PROVE Good(f(n + 1)) /\ Show(f(n + 1)) \in g[n + 1]
    OBVIOUS
  <2>1. n + 1 \in 1 .. Len(text) /\ (n + 1) - 1 = n /\ Good(f(n)) /\ Show(f(n)) \in g[n]
    BY <1>1, <1>5
  <2>2. /\ f(n + 1) = PutChar(f(n), text[n + 1])
        /\ g[n + 1] = UNION {T!After(t, text[n + 1]) : t \in g[n]}
    BY <1>2, <1>3, <2>1
  <2>3. Good(f(n + 1)) /\ Show(f(n + 1)) \in T!After(Show(f(n)), text[n + 1])
    BY <1>1, <2>1, <2>2, PutCharShows
  <2> QED
    BY <2>1, <2>2, <2>3
<1> HIDE DEF Z
<1>6. \A n \in Nat : n \in Z
  BY <1>4, <1>5, SetInduction
<1>7. Good(f(Len(text))) /\ Show(f(Len(text))) \in g[Len(text)]
  BY <1>1, <1>6 DEF Z
<1> QED
  BY <1>2, <1>3, <1>7
\* A message in another colour begins a row, on the window and on the terminal.
LEMMA AlignedShows ==
  ASSUME NEW s, Good(s), NEW color
  PROVE  LET a == IF color \notin {"WHITE", "LIGHT_BLUE"} THEN ConsoleAlignLine(s) ELSE s IN
         /\ Good(a) /\ Show(a) \in T!Aligned(Show(s), color)
         /\ T!Aligned(Show(s), color) \subseteq Terminals
<1>1. Show(s).col = s.col /\ "LF" \in Letters \cup Controls /\ Show(s) \in Terminals
  BY ShowIsTerminal DEF Show, Term, Controls
<1>2. Good(PutChar(s, "LF")) /\ Show(PutChar(s, "LF")) \in T!After(Show(s), "LF")
  BY <1>1, PutCharShows
<1>3. T!After(Show(s), "LF") \subseteq Terminals
  BY <1>1, AfterTyped
<1>4. T!Aligned(Show(s), color) = IF color \in {"WHITE", "LIGHT_BLUE"} \/ s.col = 0
                                  THEN {Show(s)} ELSE T!After(Show(s), "LF")
  BY <1>1 DEF T!Aligned
<1> QED
  BY <1>1, <1>2, <1>3, <1>4 DEF ConsoleAlignLine

-----------------------------------------------------------------------------
(***************************************************************************)
(* The invariant.  As long as nothing has come between the steps of a      *)
(* message, the registers between calls are those of a good console state, *)
(* and in each stage of the message they, the memory and the local         *)
(* variables make up the state that the text has led to so far.            *)
(***************************************************************************)
Ports == CursorReads \cup ScreenReads \cup Writes

Stages == Ports \cup {"none", "write", "copy", "clear"}

Register(stage) == IF stage \in CursorReads \cup {"setCursor"} THEN "CursorAddress" ELSE "ScreenAddress"

Typed(c) ==
  /\ DOMAIN c = {"stage", "step", "high", "address", "position", "row", "col", "n", "cell",
                 "nested", "message"}
  /\ c.stage \in Stages /\ c.step \in 0 .. 3 /\ c.high \in Int /\ c.address \in Int
  /\ c.position \in Int /\ c.row \in Int /\ c.col \in Int /\ c.n \in Nat /\ c.cell \in Nat
  /\ c.nested \in BOOLEAN /\ c.message \in Messages \cup {<<>>}

\* What has been read or written of an address.
PortsOK ==
  /\ call.stage \notin Ports => call.step = 0
  /\ call.step = 1 => index = <<Register(call.stage), "High">>
  /\ call.step = 3 => index = <<Register(call.stage), "Low">>
  /\ call.step \in {2, 3} /\ call.stage \in CursorReads \cup ScreenReads =>
       call.high = registers[<<Register(call.stage), "High">>]
  /\ call.step \in {2, 3} /\ call.stage \in Writes =>
       registers[<<Register(call.stage), "High">>] = Byte(call.address, "High")

\* Where the text begins.
Base == IF call.nested THEN before ELSE ConsoleAlignLine(before)

Sofar(n) == Way(Base, Text, n)

\* After the next character, before the window moves.
Unscrolled == Wrapped(Written(Sofar(call.n - 1), Text[call.n]))

\* The state that the registers and the local variables make up.
Here == [memory |-> memory, screen |-> screen, row |-> call.row, col |-> call.col]

BeginOK ==
  /\ call.stage \in {"alignCursor", "alignScreen"} => Current = before /\ ~call.nested
  /\ call.stage = "alignScreen" => call.address = cursor

LocalsOK ==
  /\ call.stage \in {"position", "rowCursor", "rowScreen", "columnCursor", "columnScreen"} =>
       Current = Base
  /\ call.stage \in {"rowCursor", "rowScreen", "columnCursor", "columnScreen"} =>
       call.position = cursor
  /\ call.stage \in {"rowScreen", "columnScreen"} => call.address = cursor
  /\ call.stage \in {"columnCursor", "columnScreen"} => call.row = Current.row

\* The memory when the rest of the window has been copied, and cleared.
RestCopied ==
  [a \in Cells |-> IF a < call.cell THEN memory[a]
                   ELSE IF a < ScreenSize THEN memory[call.address + a]
                   ELSE IF a < MonitorSize THEN Blank
                   ELSE memory[a]]

RestCleared ==
  [a \in Cells |-> IF a < call.cell THEN memory[a]
                   ELSE IF a < MonitorSize THEN Blank
                   ELSE memory[a]]

WriteOK ==
  /\ call.stage = "write" => Here = Sofar(call.n - 1) /\ call.position = Address(Here)
  /\ call.stage = "scroll" => Here = Unscrolled /\ call.row >= ScreenHigh

ScrollOK ==
  /\ call.stage \in {"copy", "clear"} =>
       /\ Unscrolled.row >= ScreenHigh /\ Unscrolled.screen + ScreenSize >= MonitorSize
       /\ call.row = Unscrolled.row /\ call.col = Unscrolled.col
  /\ call.stage = "copy" =>
       /\ call.address = Unscrolled.screen /\ call.cell < ScreenSize
       /\ RestCopied = CopiedBack(Unscrolled)
  /\ call.stage = "clear" =>
       /\ ScreenSize <= call.cell /\ call.cell < MonitorSize
       /\ RestCleared = CopiedBack(Unscrolled)
  /\ call.stage = "move" =>
       [memory |-> memory, screen |-> call.address, row |-> call.row - 1, col |-> call.col] = Sofar(call.n)

EndOK ==
  /\ call.stage = "locate" => Here = Sofar(call.n)
  /\ call.stage \in {"place", "setCursor"} => Here = Sofar(Len(Text))
  /\ call.stage = "setCursor" => call.address = Address(Here)

CountOK ==
  /\ call.stage \notin {"none", "place", "setCursor"} => call.n \in 1 .. Len(Text)
  /\ call.stage \in CursorReads \cup {"alignScreen", "rowScreen", "columnScreen"} => call.n = 1

TypesOK ==
  /\ registers \in [Halves -> 0 .. ByteSize - 1]
  /\ memory \in [Cells -> Characters]
  /\ Typed(call)
  /\ call.stage = "none" <=> call.message = <<>>
  /\ call.stage = "none" => Good(Current) /\ ~call.nested
  /\ call.stage # "none" => Good(before)
  /\ call.nested => before.col # 0

Undisturbed ==
  TypesOK /\ PortsOK /\ BeginOK /\ LocalsOK /\ WriteOK /\ ScrollOK /\ EndOK /\ CountOK

Inv == garbled \in BOOLEAN /\ (garbled \/ Undisturbed)

LEMMA ValueIs ==
  ASSUME registers \in [Halves -> 0 .. ByteSize - 1],
         NEW name \in {"ScreenAddress", "CursorAddress"}
  PROVE  /\ Value(name) \in Nat /\ Value(name) < Offsets
         /\ registers[<<name, "High">>] \in Nat /\ registers[<<name, "Low">>] \in Nat
<1> DEFINE h == registers[<<name, "High">>]
           l == registers[<<name, "Low">>]
<1>1. <<name, "High">> \in Halves /\ <<name, "Low">> \in Halves
  BY DEF Halves
<1>2. h \in 0 .. ByteSize - 1 /\ l \in 0 .. ByteSize - 1
  BY <1>1
<1>3. Value(name) = h * ByteSize + l
  BY DEF Value
<1> HIDE DEF h, l
<1>4. h \in Nat /\ l \in Nat /\ l < ByteSize /\ h < ByteSize /\ ByteSize \in Nat \ {0}
  BY <1>2, Sizes
<1>5. h * ByteSize + ByteSize <= ByteSize * ByteSize /\ h * ByteSize \in Nat
  BY <1>4, Multiples
<1>6. Value(name) \in Nat /\ Value(name) < Offsets
  BY <1>3, <1>4, <1>5, Sizes
<1> QED
  BY <1>4, <1>6 DEF h, l

LEMMA RegistersAre ==
  ASSUME registers \in [Halves -> 0 .. ByteSize - 1]
  PROVE  screen \in Nat /\ screen < Offsets /\ cursor \in Nat /\ cursor < Offsets
BY ValueIs DEF screen, cursor

LEMMA Modulo ==
  ASSUME NEW w \in Nat \ {0}, NEW a \in Nat, a < w, NEW b \in Nat, b < w
  PROVE  (a + ((b - a) % w)) % w = b /\ (b - a) % w \in Nat
<1> DEFINE d == b - a
<1>1. d \in Int /\ d < w /\ -w < d
  OBVIOUS
<1> HIDE DEF d
<1>2. CASE d >= 0
  <2>1. d % w = d
    BY <1>1, <1>2
  <2>2. b % w = b
    OBVIOUS
  <2> QED
    BY <2>1, <2>2, <1>2 DEF d
<1>3. CASE d < 0
  <2>1. d % w = d + w
    BY <1>1, <1>3
  <2>2. (b + w) % w = b
    <3>1. (1 * w + b) % w = b
      BY DivisionUnique
    <3> QED
      BY <3>1
  <2>3. a + (d + w) = b + w
    BY DEF d
  <2> QED
    BY <1>1, <1>3, <2>1, <2>2, <2>3 DEF d
<1> QED
  BY <1>1, <1>2, <1>3

\* The place of the cursor is where the state of the registers has it.
LEMMA CursorIs ==
  ASSUME registers \in [Halves -> 0 .. ByteSize - 1]
  PROVE  Address(Current) = cursor
<1> DEFINE x == (cursor - screen) % WordSize
<1>1. /\ screen \in Nat /\ screen < WordSize /\ cursor \in Nat /\ cursor < WordSize
      /\ WordSize \in Nat \ {0}
  BY RegistersAre, Sizes
<1>2. (screen + x) % WordSize = cursor /\ x \in Nat
  BY <1>1, Modulo
<1>3. Current.screen = screen /\ Current.row = x \div ScreenWidth /\ Current.col = x % ScreenWidth
  BY DEF Current, Row, Col
<1> HIDE DEF x
<1> DEFINE q == x \div ScreenWidth
           r == x % ScreenWidth
<1>4. q \in Nat /\ r \in Nat /\ x = q * ScreenWidth + r
  BY <1>2, Sizes
<1>5. q * ScreenWidth \in Nat
  BY <1>4, Sizes
<1>6. Current.row = q /\ Current.col = r
  BY <1>3
<1> HIDE DEF q, r
<1>7. screen + q * ScreenWidth + r = screen + x
  BY <1>1, <1>4, <1>5
<1> QED
  BY <1>2, <1>3, <1>6, <1>7 DEF Address, CellAt

LEMMA StagesAre ==
  /\ {"none", "alignCursor", "alignScreen", "position", "rowCursor", "rowScreen",
      "columnCursor", "columnScreen", "write", "scroll"} \subseteq Stages
  /\ {"copy", "clear", "move", "locate", "place", "setCursor"} \subseteq Stages
BY DEF Stages, Ports, CursorReads, ScreenReads, Writes

LEMMA MessageIs ==
  ASSUME NEW m \in Messages
  PROVE  m \in Seq(Letters \cup Controls) /\ m # <<>> /\ Len(m) \in Nat \ {0}
<1>1. m \in Seq(Letters \cup Controls) /\ m # <<>>
  BY ConsoleAssumption, Zenon DEF Controls
<1> QED
  BY <1>1

LEMMA NewlineIs ==
  <<"LF">> \in Seq(Letters \cup Controls) /\ <<"LF">> # <<>> /\ Len(<<"LF">>) = 1
<1>1. "LF" \in Letters \cup Controls
  BY DEF Controls
<1> QED
  BY <1>1

LEMMA SameRegisters ==
  ASSUME memory' = memory, registers' = registers
  PROVE  screen' = screen /\ cursor' = cursor /\ Current' = Current
<1>1. screen' = screen /\ cursor' = cursor
  BY DEF screen, cursor, Value
<1> QED
  BY <1>1 DEF Current

\* A step that only selects or reads the high register.
LEMMA Selected ==
  ASSUME Undisturbed, memory' = memory, registers' = registers, before' = before,
         Typed(call'), call.stage \in Ports,
         call'.stage = call.stage, call'.address = call.address, call'.position = call.position,
         call'.row = call.row, call'.col = call.col, call'.n = call.n, call'.cell = call.cell,
         call'.nested = call.nested, call'.message = call.message
  PROVE  TypesOK' /\ BeginOK' /\ LocalsOK' /\ WriteOK' /\ ScrollOK' /\ EndOK' /\ CountOK'
<1>1. screen' = screen /\ cursor' = cursor /\ Current' = Current
  BY SameRegisters
<1>2. Base' = Base /\ Text' = Text
  BY DEF Base, Text
<1>3. \A n : Way(Base', Text', n) = Way(Base, Text, n)
  BY <1>2
<1>4. /\ Sofar(call.n)' = Sofar(call.n) /\ Sofar(Len(Text))' = Sofar(Len(Text))
      /\ Sofar(call.n - 1)' = Sofar(call.n - 1)
  BY <1>2, <1>3 DEF Sofar
<1>5. Unscrolled' = Unscrolled
  BY <1>2, <1>4 DEF Unscrolled
<1>6. Here' = Here
  BY <1>1 DEF Here
<1>7. TypesOK'
  BY <1>1 DEF Undisturbed, TypesOK
<1>8. BeginOK' /\ LocalsOK'
  BY <1>1, <1>2 DEF Undisturbed, BeginOK, LocalsOK
<1>9. WriteOK' /\ EndOK'
  BY <1>2, <1>4, <1>5, <1>6 DEF Undisturbed, WriteOK, EndOK
<1>10. CountOK'
  BY <1>2 DEF Undisturbed, CountOK
<1>11. ScrollOK'
  BY <1>4 DEF Undisturbed, ScrollOK, Ports, CursorReads, ScreenReads, Writes
<1> QED
  BY <1>7, <1>8, <1>9, <1>10, <1>11

LEMMA SelectKeeps ==
  ASSUME Undisturbed, SelectRegister
  PROVE  Undisturbed'
<1>1. /\ Typed(call) /\ call.stage \in Ports /\ call.step \in {0, 2}
      /\ memory' = memory /\ registers' = registers /\ before' = before
      /\ call' = [call EXCEPT !.step = @ + 1]
      /\ index' = <<Register(call.stage), IF call.step = 0 THEN "High" ELSE "Low">>
  BY DEF Undisturbed, TypesOK, SelectRegister, Ports, Register
<1>2. /\ Typed(call') /\ call'.step = call.step + 1 /\ call'.high = call.high
      /\ call'.stage = call.stage /\ call'.address = call.address /\ call'.position = call.position
      /\ call'.row = call.row /\ call'.col = call.col /\ call'.n = call.n /\ call'.cell = call.cell
      /\ call'.nested = call.nested /\ call'.message = call.message
  BY <1>1 DEF Typed
<1>3. PortsOK'
  BY <1>1, <1>2 DEF Undisturbed, PortsOK
<1> QED
  BY <1>1, <1>2, <1>3, Selected DEF Undisturbed

LEMMA RegisterIs ==
  ASSUME NEW stage, NEW half \in {"High", "Low"}
  PROVE  Register(stage) \in {"ScreenAddress", "CursorAddress"} /\ <<Register(stage), half>> \in Halves
<1>1. Register(stage) \in {"ScreenAddress", "CursorAddress"}
  BY DEF Register
<1> QED
  BY <1>1 DEF Halves

LEMMA ReadHighKeeps ==
  ASSUME Undisturbed, ReadHigh
  PROVE  Undisturbed'
<1> DEFINE v == registers[index]
<1>1. /\ Typed(call) /\ call.stage \in CursorReads \cup ScreenReads /\ call.step = 1
      /\ call.stage \in Ports /\ call.stage \notin Writes
      /\ memory' = memory /\ registers' = registers /\ before' = before /\ index' = index
  BY DEF Undisturbed, TypesOK, ReadHigh, Ports, CursorReads, ScreenReads, Writes
<1>2. call' = [call EXCEPT !.step = 2, !.high = v]
  BY DEF ReadHigh
<1>3. index = <<Register(call.stage), "High">>
  BY <1>1 DEF Undisturbed, PortsOK
<1>4. index \in Halves
  BY <1>3, RegisterIs
<1>5. v \in Int
  BY <1>4, Sizes DEF Undisturbed, TypesOK
<1>6. v = registers[<<Register(call.stage), "High">>]
  BY <1>3
<1> HIDE DEF v
<1>7. /\ Typed(call') /\ call'.step = 2 /\ call'.high = v
      /\ call'.stage = call.stage /\ call'.address = call.address /\ call'.position = call.position
      /\ call'.row = call.row /\ call'.col = call.col /\ call'.n = call.n /\ call'.cell = call.cell
      /\ call'.nested = call.nested /\ call'.message = call.message
  BY <1>1, <1>2, <1>5 DEF Typed
<1>8. PortsOK'
  BY <1>1, <1>6, <1>7 DEF PortsOK
<1> QED
  BY <1>1, <1>7, <1>8, Selected DEF Undisturbed

\* The text and the states that it leads to.
LEMMA TextIs ==
  ASSUME Undisturbed, call.stage # "none"
  PROVE  /\ Text \in Seq(Letters \cup Controls) /\ Len(Text) \in Nat \ {0}
         /\ \A n \in 1 .. Len(Text) : Text[n] \in Letters \cup Controls
         /\ Good(Base) /\ Sofar(0) = Base
         /\ Sofar(Len(Text)) = Printed(Base, Text)
         /\ \A n \in 0 .. Len(Text) : Good(Sofar(n))
         /\ \A n \in 1 .. Len(Text) : Sofar(n) = PutChar(Sofar(n - 1), Text[n])
<1>1. Good(before) /\ call.message # <<>> /\ call.message \in Messages
  BY DEF Undisturbed, TypesOK, Typed
<1>2. Text \in Seq(Letters \cup Controls) /\ Text # <<>>
  BY <1>1, MessageIs, NewlineIs, Zenon DEF Text
<1>3. Good(Base)
  <2>1. Good(PutChar(before, "LF"))
    BY <1>1, PutCharShows DEF Controls
  <2> QED
    BY <1>1, <2>1 DEF Base, ConsoleAlignLine
<1>4. Len(Text) \in Nat \ {0} /\ \A n \in 1 .. Len(Text) : Text[n] \in Letters \cup Controls
  BY <1>2
<1>5. /\ Sofar(0) = Base /\ Sofar(Len(Text)) = Printed(Base, Text)
      /\ \A n \in 1 .. Len(Text) : Sofar(n) = PutChar(Sofar(n - 1), Text[n])
  BY <1>2, <1>3, PrintedSteps DEF Sofar
<1>6. \A n \in 0 .. Len(Text) : Good(Sofar(n))
  BY <1>2, <1>3, WayIsGood DEF Sofar
<1> QED
  BY <1>2, <1>3, <1>4, <1>5, <1>6

LEMMA UnscrolledIs ==
  ASSUME Undisturbed, call.stage # "none", call.n \in 1 .. Len(Text)
  PROVE  /\ Behind(Unscrolled) /\ Unscrolled.screen = Sofar(call.n - 1).screen
         /\ Sofar(call.n) = Scrolled(Unscrolled)
<1>1. call.n - 1 \in 0 .. Len(Text) /\ Text[call.n] \in Letters \cup Controls
  BY TextIs
<1>2. Good(Sofar(call.n - 1)) /\ Sofar(call.n) = PutChar(Sofar(call.n - 1), Text[call.n])
  BY <1>1, TextIs
<1> QED
  BY <1>1, <1>2, PutCharShows, ScreenStays DEF Unscrolled, PutChar

\* What ReadLow reads.
LEMMA ReadIs ==
  ASSUME Undisturbed, ReadLow
  PROVE  /\ call' = [Fetched(IF call.stage \in CursorReads THEN cursor ELSE screen) EXCEPT !.step = 0]
         /\ memory' = memory /\ registers' = registers /\ before' = before
         /\ screen' = screen /\ cursor' = cursor /\ Current' = Current
         /\ screen \in Nat /\ cursor \in Nat
         /\ call.stage \in CursorReads \cup ScreenReads /\ call.stage # "none"
         /\ Typed(call) /\ TypesOK
<1>1. /\ call.stage \in CursorReads \cup ScreenReads /\ call.step = 3
      /\ call.stage # "none"
      /\ memory' = memory /\ registers' = registers /\ before' = before
      /\ call' = [Fetched(call.high * ByteSize + registers[index]) EXCEPT !.step = 0]
  BY DEF ReadLow, CursorReads, ScreenReads
<1>2. /\ call.high = registers[<<Register(call.stage), "High">>]
      /\ index = <<Register(call.stage), "Low">>
  BY <1>1 DEF Undisturbed, PortsOK
<1>3. call.high * ByteSize + registers[index] = Value(Register(call.stage))
  BY <1>2 DEF Value
<1>4. Value(Register(call.stage)) = IF call.stage \in CursorReads THEN cursor ELSE screen
  BY <1>1 DEF screen, cursor, Register, CursorReads, ScreenReads
<1> QED
  BY <1>1, <1>3, <1>4, SameRegisters, RegistersAre DEF Undisturbed, TypesOK

\* The states of the text depend on nothing but these.
LEMMA SameText ==
  ASSUME before' = before, call'.nested = call.nested, call'.message = call.message
  PROVE  /\ Base' = Base /\ Text' = Text
         /\ Sofar(call.n)' = Way(Base, Text, call'.n) /\ Sofar(call.n - 1)' = Way(Base, Text, call'.n - 1)
         /\ Sofar(Len(Text))' = Sofar(Len(Text))
         /\ call'.n = call.n => Sofar(call.n)' = Sofar(call.n) /\ Unscrolled' = Unscrolled
<1>1. Base' = Base /\ Text' = Text
  BY DEF Base, Text
<1>2. /\ Sofar(call.n)' = Way(Base, Text, call'.n) /\ Sofar(call.n - 1)' = Way(Base, Text, call'.n - 1)
      /\ Sofar(Len(Text))' = Way(Base, Text, Len(Text))
  BY <1>1 DEF Sofar
<1>3. ASSUME call'.n = call.n
      PROVE  Sofar(call.n)' = Sofar(call.n) /\ Sofar(call.n - 1)' = Sofar(call.n - 1)
  BY <1>2, <1>3 DEF Sofar
<1>4. call'.n = call.n => Unscrolled' = Unscrolled
  BY <1>1, <1>3 DEF Unscrolled
<1> QED
  BY <1>1, <1>2, <1>3, <1>4 DEF Sofar

\* getCursor in ConsoleAlignLine.
LEMMA AlignKeeps ==
  ASSUME Undisturbed, ReadLow, call.stage \in {"alignCursor", "alignScreen"}
  PROVE  Undisturbed'
<1>0. call' = [Fetched(IF call.stage \in CursorReads THEN cursor ELSE screen) EXCEPT !.step = 0]
  BY ReadIs
<1>1. /\ memory' = memory /\ registers' = registers /\ before' = before
      /\ cursor' = cursor /\ Current' = Current /\ cursor \in Nat
      /\ Typed(call) /\ TypesOK
  BY ReadIs
<1>2. Current = before /\ ~call.nested /\ call.n = 1
  BY DEF Undisturbed, BeginOK, CountOK, CursorReads
<1>3. CASE call.stage = "alignCursor"
  <2>1. call' = [[call EXCEPT !.stage = "alignScreen", !.address = cursor] EXCEPT !.step = 0]
    BY <1>0, <1>3 DEF Fetched, CursorReads
  <2>2. /\ Typed(call') /\ call'.stage = "alignScreen" /\ call'.address = cursor /\ call'.step = 0
        /\ call'.n = call.n /\ call'.nested = call.nested /\ call'.message = call.message
    BY <1>1, <2>1, StagesAre DEF Typed
  <2>3. Text' = Text /\ 1 \in 1 .. Len(Text)
    BY <1>1, <1>3, <2>2, SameText, TextIs
  <2>4. TypesOK' /\ PortsOK' /\ BeginOK' /\ CountOK'
    BY <1>1, <1>2, <1>3, <2>2, <2>3 DEF TypesOK, PortsOK, BeginOK, CountOK
  <2>5. LocalsOK' /\ WriteOK' /\ ScrollOK' /\ EndOK'
    BY <2>2 DEF LocalsOK, WriteOK, ScrollOK, EndOK
  <2> QED
    BY <2>4, <2>5 DEF Undisturbed
<1>4. CASE call.stage = "alignScreen"
  <2>1. call.address = cursor
    BY <1>4 DEF Undisturbed, BeginOK
  <2> DEFINE b == Col(cursor - screen) # 0
  <2>2. call' = [[call EXCEPT !.stage = "position", !.nested = b] EXCEPT !.step = 0]
    BY <1>0, <1>4, <2>1 DEF Fetched, CursorReads
  <2>3. b = (before.col # 0)
    BY <1>2 DEF Current
  <2>4. b \in BOOLEAN
    OBVIOUS
  <2> HIDE DEF b
  <2>5. /\ Typed(call') /\ call'.stage = "position" /\ call'.step = 0
        /\ call'.n = call.n /\ call'.nested = b /\ call'.message = call.message
    BY <1>1, <2>2, <2>4, StagesAre DEF Typed
  <2>6. Base' = before
    BY <1>1, <2>3, <2>5 DEF Base, ConsoleAlignLine
  <2>7. Len(Text)' \in Nat /\ 1 \in 1 .. Len(Text)'
    <3>1. call.message # <<>> /\ call.message \in Messages
      BY <1>1, <1>4 DEF TypesOK, Typed
    <3>2. Text' = IF b THEN <<"LF">> ELSE call.message
      BY <2>5 DEF Text
    <3>3. Len(Text') \in Nat \ {0}
      BY <3>1, <3>2, MessageIs, NewlineIs
    <3> QED
      BY <3>3
  <2>8. TypesOK'
    BY <1>1, <1>4, <2>3, <2>5 DEF TypesOK
  <2>10. PortsOK'
    BY <2>5 DEF PortsOK, Ports, CursorReads
  <2>11. LocalsOK'
    BY <1>1, <1>2, <2>5, <2>6 DEF LocalsOK
  <2>12. BeginOK' /\ CountOK'
    BY <1>2, <2>5, <2>7 DEF BeginOK, CountOK
  <2>9. WriteOK' /\ ScrollOK' /\ EndOK'
    BY <2>5 DEF WriteOK, ScrollOK, EndOK
  <2> QED
    BY <2>8, <2>9, <2>10, <2>11, <2>12 DEF Undisturbed
<1> QED
  BY <1>3, <1>4

\* A text begins: getCursorAddress and the two calls of getCursor.
LEMMA BeginKeeps ==
  ASSUME Undisturbed, ReadLow,
         call.stage \in {"position", "rowCursor", "rowScreen", "columnCursor", "columnScreen"}
  PROVE  Undisturbed'
<1>1. call' = [Fetched(IF call.stage \in CursorReads THEN cursor ELSE screen) EXCEPT !.step = 0]
  BY ReadIs
<1>2. /\ memory' = memory /\ registers' = registers /\ before' = before
      /\ screen' = screen /\ cursor' = cursor /\ Current' = Current /\ cursor \in Nat
      /\ Typed(call) /\ TypesOK
  BY ReadIs
<1>3. Current = Base /\ call.n = 1 /\ 1 \in 1 .. Len(Text) /\ Good(Current) /\ Sofar(0) = Base
  BY TextIs DEF Undisturbed, LocalsOK, CountOK, CursorReads
<1>4. Row(cursor - screen) = Current.row /\ Col(cursor - screen) = Current.col
  BY DEF Current
<1>5. Current.row \in Int /\ Current.col \in Int
  BY <1>3 DEF Good, Window, States
<1>6. ASSUME Typed(call'), call'.step = 0, call'.n = call.n, call'.nested = call.nested,
             call'.message = call.message, call'.stage \notin {"none", "alignCursor", "alignScreen"}
      PROVE  /\ TypesOK' /\ PortsOK' /\ BeginOK' /\ Base' = Base /\ Text' = Text
             /\ call'.stage \notin {"place", "setCursor"} => CountOK'
  <2>1. Base' = Base /\ Text' = Text
    BY <1>2, <1>6, SameText
  <2>2. call.stage # "none"
    OBVIOUS
  <2>3. TypesOK'
    BY <1>2, <1>6, <2>2 DEF TypesOK
  <2>4. PortsOK' /\ BeginOK'
    BY <1>6 DEF PortsOK, BeginOK
  <2>5. call'.stage \notin {"place", "setCursor"} => CountOK'
    BY <1>3, <1>6, <2>1 DEF CountOK
  <2> QED
    BY <2>1, <2>3, <2>4, <2>5
<1>7. CASE call.stage = "position"
  <2>1. call' = [[call EXCEPT !.stage = "rowCursor", !.position = cursor] EXCEPT !.step = 0]
    BY <1>1, <1>7 DEF Fetched, CursorReads
  <2>2. /\ Typed(call') /\ call'.stage = "rowCursor" /\ call'.position = cursor /\ call'.step = 0
        /\ call'.n = call.n /\ call'.nested = call.nested /\ call'.message = call.message
    BY <1>2, <2>1, StagesAre DEF Typed
  <2>3. LocalsOK'
    BY <1>2, <1>3, <1>6, <2>2 DEF LocalsOK
  <2>4. WriteOK' /\ ScrollOK' /\ EndOK'
    BY <2>2 DEF WriteOK, ScrollOK, EndOK
  <2> QED
    BY <1>6, <2>2, <2>3, <2>4 DEF Undisturbed
<1>8. CASE call.stage = "rowCursor"
  <2>1. call' = [[call EXCEPT !.stage = "rowScreen", !.address = cursor] EXCEPT !.step = 0]
    BY <1>1, <1>8 DEF Fetched, CursorReads
  <2>2. /\ Typed(call') /\ call'.stage = "rowScreen" /\ call'.address = cursor /\ call'.step = 0
        /\ call'.n = call.n /\ call'.nested = call.nested /\ call'.message = call.message
        /\ call'.position = call.position
    BY <1>2, <2>1, StagesAre DEF Typed
  <2>3. LocalsOK'
    BY <1>2, <1>3, <1>6, <1>8, <2>2 DEF LocalsOK, Undisturbed
  <2>4. WriteOK' /\ ScrollOK' /\ EndOK'
    BY <2>2 DEF WriteOK, ScrollOK, EndOK
  <2> QED
    BY <1>6, <2>2, <2>3, <2>4 DEF Undisturbed
<1>9. CASE call.stage = "rowScreen"
  <2>1. call.address = cursor
    BY <1>9 DEF Undisturbed, LocalsOK
  <2>2. call' = [[call EXCEPT !.stage = "columnCursor", !.row = Current.row] EXCEPT !.step = 0]
    BY <1>1, <1>4, <1>9, <2>1 DEF Fetched, CursorReads
  <2>3. /\ Typed(call') /\ call'.stage = "columnCursor" /\ call'.row = Current.row /\ call'.step = 0
        /\ call'.n = call.n /\ call'.nested = call.nested /\ call'.message = call.message
        /\ call'.position = call.position
    BY <1>2, <1>5, <2>2, StagesAre DEF Typed
  <2>4. LocalsOK'
    BY <1>2, <1>3, <1>6, <1>9, <2>3 DEF LocalsOK, Undisturbed
  <2>5. WriteOK' /\ ScrollOK' /\ EndOK'
    BY <2>3 DEF WriteOK, ScrollOK, EndOK
  <2> QED
    BY <1>6, <2>3, <2>4, <2>5 DEF Undisturbed
<1>10. CASE call.stage = "columnCursor"
  <2>1. call' = [[call EXCEPT !.stage = "columnScreen", !.address = cursor] EXCEPT !.step = 0]
    BY <1>1, <1>10 DEF Fetched, CursorReads
  <2>2. /\ Typed(call') /\ call'.stage = "columnScreen" /\ call'.address = cursor /\ call'.step = 0
        /\ call'.n = call.n /\ call'.nested = call.nested /\ call'.message = call.message
        /\ call'.position = call.position /\ call'.row = call.row
    BY <1>2, <2>1, StagesAre DEF Typed
  <2>3. LocalsOK'
    BY <1>2, <1>3, <1>6, <1>10, <2>2 DEF LocalsOK, Undisturbed
  <2>4. WriteOK' /\ ScrollOK' /\ EndOK'
    BY <2>2 DEF WriteOK, ScrollOK, EndOK
  <2> QED
    BY <1>6, <2>2, <2>3, <2>4 DEF Undisturbed
<1>11. CASE call.stage = "columnScreen"
  <2>1. call.address = cursor /\ call.position = cursor /\ call.row = Current.row
    BY <1>11 DEF Undisturbed, LocalsOK
  <2>2. call' = [[call EXCEPT !.stage = "write", !.col = Current.col] EXCEPT !.step = 0]
    BY <1>1, <1>4, <1>11, <2>1 DEF Fetched, CursorReads
  <2>3. /\ Typed(call') /\ call'.stage = "write" /\ call'.col = Current.col /\ call'.step = 0
        /\ call'.n = call.n /\ call'.nested = call.nested /\ call'.message = call.message
        /\ call'.position = call.position /\ call'.row = call.row
    BY <1>2, <1>5, <2>2, StagesAre DEF Typed
  <2>4. Here' = Current
    BY <1>2, <2>1, <2>3 DEF Here, Current
  <2>5. Sofar(call.n - 1)' = Base
    <3>1. call.n - 1 = 0 /\ call'.n - 1 = 0
      BY <1>3, <2>3
    <3>2. Way(Base, Text, 0) = Base
      BY <1>3 DEF Sofar
    <3> QED
      BY <1>2, <2>3, <3>1, <3>2, SameText
  <2>6. Address(Here)' = cursor
    <3>1. Address(Here)' = Address(Here')
      BY DEF Address
    <3> QED
      BY <1>2, <2>4, <3>1, CursorIs DEF TypesOK
  <2>7. WriteOK'
    BY <1>3, <2>1, <2>3, <2>4, <2>5, <2>6 DEF WriteOK
  <2>8. LocalsOK' /\ ScrollOK' /\ EndOK'
    BY <2>3 DEF LocalsOK, ScrollOK, EndOK
  <2> QED
    BY <1>6, <2>3, <2>7, <2>8 DEF Undisturbed
<1> QED
  BY <1>7, <1>8, <1>9, <1>10, <1>11

\* Within the text the registers and the memory are of the types they have.
LEMMA MiddleKeeps ==
  ASSUME Undisturbed, call.stage \notin {"none", "alignCursor", "alignScreen"},
         registers' \in [Halves -> 0 .. ByteSize - 1], memory' \in [Cells -> Characters],
         before' = before, Typed(call'), call'.nested = call.nested, call'.message = call.message,
         call'.stage \in {"write", "scroll", "copy", "clear", "move", "locate", "place", "setCursor"}
  PROVE  TypesOK' /\ BeginOK' /\ LocalsOK' /\ Base' = Base /\ Text' = Text
<1>1. Base' = Base /\ Text' = Text
  BY DEF Base, Text
<1>2. TypesOK'
  BY DEF Undisturbed, TypesOK
<1>3. BeginOK' /\ LocalsOK'
  BY DEF BeginOK, LocalsOK
<1> QED
  BY <1>1, <1>2, <1>3

\* getScreenAddress after the last row, after each character and in setCursor.
LEMMA LocateKeeps ==
  ASSUME Undisturbed, ReadLow, call.stage \in {"scroll", "locate", "place"}
  PROVE  Undisturbed'
<1>1. call' = [Fetched(IF call.stage \in CursorReads THEN cursor ELSE screen) EXCEPT !.step = 0]
  BY ReadIs
<1>2. /\ memory' = memory /\ registers' = registers /\ before' = before
      /\ screen' = screen /\ screen \in Nat
      /\ Typed(call) /\ registers \in [Halves -> 0 .. ByteSize - 1] /\ memory \in [Cells -> Characters]
  BY ReadIs DEF TypesOK
<1>3. Fetched(IF call.stage \in CursorReads THEN cursor ELSE screen) = Fetched(screen)
  BY DEF CursorReads
<1>4. call.row \in Int /\ call.col \in Int /\ call.n \in Nat
  BY <1>2 DEF Typed
<1>5. Address(Here) = CellAt(screen, call.row, call.col)
  BY DEF Address, Here
<1>6. CASE call.stage = "scroll"
  <2> DEFINE u == Unscrolled
             a == screen + ScreenWidth
  <2>1. Here = u /\ call.row >= ScreenHigh /\ call.n \in 1 .. Len(Text)
    BY <1>6 DEF Undisturbed, WriteOK, CountOK
  <2>2. Behind(u) /\ Sofar(call.n) = Scrolled(u)
    BY <1>6, <2>1, UnscrolledIs
  <2>3. u.memory = memory /\ u.screen = screen /\ u.row = call.row /\ u.col = call.col
    BY <2>1 DEF Here
  <2>4. u \in States
    BY <2>2 DEF Behind, Window
  <2>5. ScreenSize \in Nat \ {0} /\ MonitorSize \in Nat /\ ScreenWidth \in Nat \ {0}
        /\ ScreenHigh \in Nat
    <3>1. ScreenWidth <= ScreenSize
      <4>1. 1 * ScreenWidth <= ScreenHigh * ScreenWidth
        BY Sizes, Multiples
      <4> QED
        BY <4>1, Sizes
    <3> QED
      BY <3>1, Sizes
  <2> HIDE DEF u
  <2>6. CASE screen + ScreenSize >= MonitorSize
    <3>1. call' = [[call EXCEPT !.stage = "copy", !.address = screen, !.cell = 0] EXCEPT !.step = 0]
      BY <1>1, <1>3, <1>6, <2>6 DEF Fetched
    <3>2. /\ Typed(call') /\ call'.stage = "copy" /\ call'.address = screen /\ call'.step = 0
          /\ call'.cell = 0 /\ call'.n = call.n /\ call'.nested = call.nested
          /\ call'.message = call.message /\ call'.row = call.row /\ call'.col = call.col
      BY <1>2, <3>1, StagesAre DEF Typed
    <3>3. Unscrolled' = u /\ Text' = Text
      BY <1>2, <3>2, SameText DEF u
    <3>4. RestCopied' = CopiedBack(u)
      <4>1. \A b \in Cells : ~(b < 0)
        BY InCells
      <4> QED
        BY <1>2, <2>3, <3>2, <4>1 DEF RestCopied, CopiedBack
    <3>5. CopiedBack(Unscrolled)' = CopiedBack(u)
      BY <3>3 DEF CopiedBack
    <3>6. ScrollOK'
      BY <1>2, <2>1, <2>3, <2>5, <2>6, <3>2, <3>3, <3>4, <3>5 DEF ScrollOK
    <3>7. TypesOK' /\ BeginOK' /\ LocalsOK'
      BY <1>2, <1>6, <3>2, MiddleKeeps
    <3>8. PortsOK' /\ WriteOK' /\ EndOK' /\ CountOK'
      BY <2>1, <3>2, <3>3 DEF PortsOK, WriteOK, EndOK, CountOK, CursorReads
    <3> QED
      BY <3>6, <3>7, <3>8 DEF Undisturbed
  <2>7. CASE ~(screen + ScreenSize >= MonitorSize)
    <3>1. call' = [[call EXCEPT !.stage = "move", !.address = a] EXCEPT !.step = 0]
      BY <1>1, <1>3, <1>6, <2>7 DEF Fetched
    <3>2. a \in Int
      BY <1>2, <2>5
    <3> HIDE DEF a
    <3>3. /\ Typed(call') /\ call'.stage = "move" /\ call'.address = a /\ call'.step = 0
          /\ call'.n = call.n /\ call'.nested = call.nested
          /\ call'.message = call.message /\ call'.row = call.row /\ call'.col = call.col
      BY <1>2, <3>1, <3>2, StagesAre DEF Typed
    <3>4. Text' = Text /\ Sofar(call.n)' = Sofar(call.n)
      BY <1>2, <3>3, SameText
    <3>5. Scrolled(u) = [memory |-> memory, screen |-> a, row |-> call.row - 1, col |-> call.col]
      <4>1. u.row >= ScreenHigh /\ u.screen + ScreenSize < MonitorSize
        BY <1>2, <2>1, <2>3, <2>5, <2>7
      <4> QED
        BY <2>3, <2>4, <4>1, ScrolledIs DEF a
    <3>6. ScrollOK'
      BY <1>2, <2>2, <3>3, <3>4, <3>5 DEF ScrollOK
    <3>7. TypesOK' /\ BeginOK' /\ LocalsOK'
      BY <1>2, <1>6, <3>3, MiddleKeeps
    <3>8. PortsOK' /\ WriteOK' /\ EndOK' /\ CountOK'
      BY <2>1, <3>3, <3>4 DEF PortsOK, WriteOK, EndOK, CountOK, CursorReads
    <3> QED
      BY <3>6, <3>7, <3>8 DEF Undisturbed
  <2> QED
    BY <2>6, <2>7
<1>7. CASE call.stage = "locate"
  <2> DEFINE p == CellAt(screen, call.row, call.col)
             t == IF call.n = Len(Text) THEN "place" ELSE "write"
  <2>1. Here = Sofar(call.n) /\ call.n \in 1 .. Len(Text) /\ Len(Text) \in Nat
    BY <1>7, TextIs DEF Undisturbed, EndOK, CountOK
  <2>2. call' = [[call EXCEPT !.stage = t, !.n = call.n + 1, !.position = p] EXCEPT !.step = 0]
    BY <1>1, <1>3, <1>7 DEF Fetched
  <2>3. p \in Int /\ p = Address(Here) /\ t \in Stages
    <3>1. Good(Here)
      BY <2>1, TextIs
    <3> QED
      BY <1>5, <3>1, AddressIs, StagesAre
  <2>4. t \in {"place", "write"} /\ (t = "place" <=> call.n = Len(Text))
    OBVIOUS
  <2> HIDE DEF p, t
  <2>5. /\ Typed(call') /\ call'.stage = t /\ call'.step = 0 /\ call'.position = p
        /\ call'.n = call.n + 1 /\ call'.nested = call.nested
        /\ call'.message = call.message /\ call'.row = call.row /\ call'.col = call.col
    BY <1>2, <2>2, <2>3 DEF Typed
  <2>6. Here' = Here /\ Address(Here)' = Address(Here)
    BY <1>2, <2>5 DEF Here, Address, CellAt
  <2>7. Text' = Text /\ Sofar(call.n - 1)' = Way(Base, Text, call'.n - 1)
        /\ Sofar(Len(Text))' = Sofar(Len(Text))
    BY <1>2, <2>5, SameText
  <2>8. Sofar(call.n - 1)' = Sofar(call.n)
    <3>1. call'.n - 1 = call.n
      BY <2>1, <2>5
    <3> QED
      BY <2>7, <3>1 DEF Sofar
  <2>9. WriteOK' /\ EndOK'
    BY <2>1, <2>3, <2>4, <2>5, <2>6, <2>7, <2>8 DEF WriteOK, EndOK
  <2>10. TypesOK' /\ BeginOK' /\ LocalsOK'
    BY <1>2, <1>7, <2>4, <2>5, MiddleKeeps
  <2>11. CountOK'
    BY <2>1, <2>4, <2>5, <2>7 DEF CountOK, CursorReads
  <2>12. PortsOK' /\ ScrollOK'
    BY <2>4, <2>5 DEF PortsOK, ScrollOK
  <2> QED
    BY <2>9, <2>10, <2>11, <2>12 DEF Undisturbed
<1>8. CASE call.stage = "place"
  <2> DEFINE p == CellAt(screen, call.row, call.col)
  <2>1. Here = Sofar(Len(Text)) /\ Len(Text) \in Nat
    BY <1>8, TextIs DEF Undisturbed, EndOK
  <2>2. call' = [[call EXCEPT !.stage = "setCursor", !.address = p] EXCEPT !.step = 0]
    BY <1>1, <1>3, <1>8 DEF Fetched
  <2>3. p \in Int /\ p = Address(Here)
    <3>1. Good(Here)
      BY <1>8, <2>1, TextIs
    <3> QED
      BY <1>5, <3>1, AddressIs
  <2> HIDE DEF p
  <2>4. /\ Typed(call') /\ call'.stage = "setCursor" /\ call'.step = 0 /\ call'.address = p
        /\ call'.n = call.n /\ call'.nested = call.nested
        /\ call'.message = call.message /\ call'.row = call.row /\ call'.col = call.col
    BY <1>2, <2>2, <2>3, StagesAre DEF Typed
  <2>5. Here' = Here /\ Address(Here)' = Address(Here)
    BY <1>2, <2>4 DEF Here, Address, CellAt
  <2>6. Text' = Text /\ Sofar(Len(Text))' = Sofar(Len(Text))
    BY <1>2, <2>4, SameText
  <2>7. EndOK'
    BY <2>1, <2>3, <2>4, <2>5, <2>6 DEF EndOK
  <2>8. TypesOK' /\ BeginOK' /\ LocalsOK'
    BY <1>2, <1>8, <2>4, MiddleKeeps
  <2>9. PortsOK' /\ WriteOK' /\ ScrollOK' /\ CountOK'
    BY <2>4 DEF PortsOK, WriteOK, ScrollOK, CountOK, CursorReads
  <2> QED
    BY <2>7, <2>8, <2>9 DEF Undisturbed
<1> QED
  BY <1>6, <1>7, <1>8

LEMMA ReadLowKeeps ==
  ASSUME Undisturbed, ReadLow
  PROVE  Undisturbed'
<1>1. call.stage \in CursorReads \cup ScreenReads
  BY ReadIs
<1>2. \/ call.stage \in {"alignCursor", "alignScreen"}
      \/ call.stage \in {"position", "rowCursor", "rowScreen", "columnCursor", "columnScreen"}
      \/ call.stage \in {"scroll", "locate", "place"}
  BY <1>1 DEF CursorReads, ScreenReads
<1> QED
  BY <1>2, AlignKeeps, BeginKeeps, LocateKeeps

\* The cell at currentPosition is the one at the row and the column.
LEMMA PutCharacterKeeps ==
  ASSUME Undisturbed, PutCharacter
  PROVE  Undisturbed'
<1> DEFINE u == Unscrolled
           t == IF u.row >= ScreenHigh THEN "scroll" ELSE "locate"
<1>1. /\ call.stage = "write" /\ registers' = registers /\ before' = before
      /\ call.n \in 1 .. Len(Text) /\ Typed(call)
      /\ Here = Sofar(call.n - 1) /\ call.position = Address(Here)
      /\ registers \in [Halves -> 0 .. ByteSize - 1]
  BY DEF PutCharacter, Undisturbed, CountOK, WriteOK, TypesOK
<1>2. Good(Here) /\ call.n - 1 \in 0 .. Len(Text)
  BY <1>1, TextIs
<1>3. Local = Here
  <2>1. /\ Here.screen = screen /\ Here.row = call.row /\ Here.col = call.col
        /\ screen \in Nat /\ Place(call.row, call.col) \in Nat
        /\ Address(Here) = screen + Place(call.row, call.col)
    BY <1>1, <1>2, AddressIs, RegistersAre DEF Here
  <2>2. call.position - Place(call.row, call.col) = screen
    BY <1>1, <2>1
  <2>3. call.row * ScreenWidth + call.col = Place(call.row, call.col)
    BY DEF Place
  <2> QED
    BY <2>2, <2>3 DEF Local, Here
<1>4. Wrapped(Written(Local, Text[call.n])) = u
  BY <1>1, <1>3 DEF Unscrolled
<1>5. memory' = u.memory /\ call' = [call EXCEPT !.stage = t, !.row = u.row, !.col = u.col]
  BY <1>4 DEF PutCharacter
<1>6. Behind(u) /\ u.screen = Sofar(call.n - 1).screen /\ Sofar(call.n) = Scrolled(u)
  BY <1>1, UnscrolledIs
<1>7. t \in {"scroll", "locate"} /\ (t = "scroll" <=> u.row >= ScreenHigh)
  OBVIOUS
<1> HIDE DEF u, t
<1>8. /\ u \in States /\ u.memory \in [Cells -> Characters] /\ u.row \in Nat /\ u.col \in Nat
      /\ u.screen = screen
      /\ u = [memory |-> u.memory, screen |-> u.screen, row |-> u.row, col |-> u.col]
  BY <1>1, <1>6 DEF Behind, Window, States, Here
<1>9. /\ Typed(call') /\ call'.stage = t /\ call'.step = call.step /\ call'.n = call.n
      /\ call'.nested = call.nested /\ call'.message = call.message
      /\ call'.row = u.row /\ call'.col = u.col
  BY <1>1, <1>5, <1>7, <1>8, StagesAre DEF Typed
<1>10. Here' = u
  <2>1. screen' = screen
    BY <1>1 DEF screen, Value
  <2> QED
    BY <1>5, <1>8, <1>9, <2>1 DEF Here
<1>11. Text' = Text /\ Unscrolled' = Unscrolled /\ Sofar(call.n)' = Sofar(call.n)
  BY <1>1, <1>9, SameText
<1>12. WriteOK'
  BY <1>7, <1>9, <1>10, <1>11 DEF WriteOK, u
<1>13. EndOK'
  <2>1. t = "locate" => u.row < ScreenHigh
    BY <1>7, <1>8, Sizes
  <2>2. t = "locate" => Sofar(call.n) = u
    BY <1>6, <1>8, <2>1, ScrolledIs
  <2> QED
    BY <1>7, <1>9, <1>10, <1>11, <2>2 DEF EndOK
<1>14. TypesOK' /\ BeginOK' /\ LocalsOK'
  BY <1>1, <1>5, <1>7, <1>8, <1>9, MiddleKeeps
<1>15. call.step = 0
  BY <1>1 DEF Undisturbed, PortsOK, Ports, CursorReads, ScreenReads, Writes
<1>16. PortsOK' /\ CountOK'
  BY <1>1, <1>7, <1>9, <1>11, <1>15 DEF PortsOK, CountOK, CursorReads
<1>17. ScrollOK'
  BY <1>7, <1>9 DEF ScrollOK
<1> QED
  BY <1>12, <1>13, <1>14, <1>16, <1>17 DEF Undisturbed

\* What MemoryCopy has still to read is behind what it has written.
LEMMA CopyCellKeeps ==
  ASSUME Undisturbed, CopyCell
  PROVE  Undisturbed'
<1> DEFINE u == Unscrolled
           a == call.address
           i == call.cell
           t == IF i + 1 = ScreenSize THEN "clear" ELSE "copy"
<1>1. /\ call.stage = "copy" /\ registers' = registers /\ before' = before
      /\ call.n \in 1 .. Len(Text) /\ Typed(call) /\ memory \in [Cells -> Characters]
      /\ registers \in [Halves -> 0 .. ByteSize - 1]
      /\ u.row >= ScreenHigh /\ u.screen + ScreenSize >= MonitorSize
      /\ call.row = u.row /\ call.col = u.col /\ a = u.screen /\ i < ScreenSize
      /\ RestCopied = CopiedBack(u) /\ i \in Nat
  BY DEF CopyCell, Undisturbed, CountOK, ScrollOK, TypesOK, Typed
<1>2. memory' = [memory EXCEPT ![i] = memory[a + i]]
  BY DEF CopyCell
<1>3. call' = [call EXCEPT !.cell = i + 1, !.stage = t]
  BY <1>1 DEF CopyCell
<1>4. u.screen \in Nat /\ u.screen + ScreenSize < MonitorSize + ScreenWidth
  BY <1>1, UnscrolledIs DEF Behind, Window, States
<1>5. t \in {"copy", "clear"} /\ (t = "clear" <=> i + 1 = ScreenSize)
  OBVIOUS
<1> HIDE DEF u, t
<1>6. /\ Typed(call') /\ call'.stage = t /\ call'.step = call.step /\ call'.n = call.n
      /\ call'.nested = call.nested /\ call'.message = call.message /\ call'.cell = i + 1
      /\ call'.row = call.row /\ call'.col = call.col /\ call'.address = a
  BY <1>1, <1>3, <1>5, StagesAre DEF Typed
<1> HIDE DEF a, i
<1>7. i \in Cells /\ \A b \in Nat : b < ScreenSize => a + b \in Cells /\ a + b \in Nat
  <2>1. a \in Nat /\ a + ScreenSize < MonitorSize + ScreenWidth
    BY <1>1, <1>4
  <2>2. i < MonitorSize + ScreenWidth /\ i \in Nat
    BY <1>1, InCells
  <2>3. \A b \in Nat : b < ScreenSize => a + b \in Nat /\ a + b < MonitorSize + ScreenWidth
    BY <2>1, InCells
  <2> QED
    BY <2>2, <2>3, InCells
<1>8. memory[a + i] \in Characters /\ memory' \in [Cells -> Characters]
  BY <1>1, <1>2, <1>7
<1>9. memory'[i] = memory[a + i] /\ \A b \in Cells : b # i => memory'[b] = memory[b]
  BY <1>1, <1>2, <1>7
<1>10. ASSUME NEW b \in Cells
       PROVE  (IF b < i + 1 THEN memory'[b]
               ELSE IF b < ScreenSize THEN memory'[a + b]
               ELSE IF b < MonitorSize THEN Blank
               ELSE memory'[b]) = RestCopied[b]
  <2>1. RestCopied[b] = IF b < i THEN memory[b]
                        ELSE IF b < ScreenSize THEN memory[a + b]
                        ELSE IF b < MonitorSize THEN Blank
                        ELSE memory[b]
    BY DEF RestCopied, a, i
  <2>2. b \in Nat /\ a \in Nat /\ MonitorSize \in Nat /\ ScreenSize \in Nat
    BY <1>1, <1>4, InCells
  <2>3. CASE b < i
    BY <1>1, <1>9, <2>1, <2>2, <2>3
  <2>4. CASE b = i
    BY <1>1, <1>9, <2>1, <2>2, <2>4
  <2>5. CASE b > i /\ b < ScreenSize
    <3>1. a + b \in Cells /\ a + b # i
      BY <1>1, <1>7, <2>2, <2>5
    <3> QED
      BY <1>1, <1>9, <2>1, <2>2, <2>5, <3>1
  <2>6. CASE b >= ScreenSize
    BY <1>1, <1>9, <2>1, <2>2, <2>6
  <2> QED
    BY <1>1, <2>2, <2>3, <2>4, <2>5, <2>6
<1>11. RestCopied' = RestCopied
  <2>1. RestCopied' = [b \in Cells |-> IF b < i + 1 THEN memory'[b]
                                       ELSE IF b < ScreenSize THEN memory'[a + b]
                                       ELSE IF b < MonitorSize THEN Blank
                                       ELSE memory'[b]]
    BY <1>6 DEF RestCopied
  <2>2. RestCopied = [b \in Cells |-> RestCopied[b]]
    BY DEF RestCopied
  <2> QED
    BY <1>10, <2>1, <2>2, Zenon
<1>12. i + 1 = ScreenSize => RestCleared' = RestCopied
  <2> SUFFICES ASSUME i + 1 = ScreenSize PROVE RestCleared' = RestCopied
    OBVIOUS
  <2>1. RestCleared' = [b \in Cells |-> IF b < i + 1 THEN memory'[b]
                                        ELSE IF b < MonitorSize THEN Blank
                                        ELSE memory'[b]]
    BY <1>6 DEF RestCleared
  <2>2. \A b \in Cells : RestCopied[b] = IF b < i + 1 THEN memory'[b]
                                         ELSE IF b < MonitorSize THEN Blank
                                         ELSE memory'[b]
    <3> TAKE b \in Cells
    <3>1. b < ScreenSize \/ ~(b < ScreenSize)
      OBVIOUS
    <3> QED
      BY <1>10, <3>1
  <2>3. RestCopied = [b \in Cells |-> RestCopied[b]]
    BY DEF RestCopied
  <2> QED
    BY <2>1, <2>2, <2>3, Zenon
<1>13. Text' = Text /\ Unscrolled' = u
  BY <1>1, <1>6, SameText DEF u
<1>14. CopiedBack(Unscrolled)' = CopiedBack(u)
  BY <1>13 DEF CopiedBack
<1>15. ScrollOK'
  <2>1. i + 1 \in Nat /\ ScreenSize \in Nat /\ ScreenSize < MonitorSize
    BY <1>1, Sizes
  <2>2. t = "copy" => i + 1 < ScreenSize
    BY <1>1, <1>5, <2>1
  <2>3. t = "clear" => ScreenSize <= i + 1 /\ i + 1 < MonitorSize /\ RestCleared' = CopiedBack(u)
    BY <1>1, <1>5, <1>12, <2>1
  <2>4. RestCopied' = CopiedBack(u)
    BY <1>1, <1>11
  <2> QED
    BY <1>1, <1>5, <1>6, <1>13, <1>14, <2>2, <2>3, <2>4 DEF ScrollOK
<1>16. TypesOK' /\ BeginOK' /\ LocalsOK'
  BY <1>1, <1>5, <1>6, <1>8, MiddleKeeps
<1>17. call.step = 0
  BY <1>1 DEF Undisturbed, PortsOK, Ports, CursorReads, ScreenReads, Writes
<1>18. PortsOK' /\ CountOK'
  BY <1>1, <1>5, <1>6, <1>13, <1>17 DEF PortsOK, CountOK, CursorReads
<1>19. WriteOK' /\ EndOK'
  BY <1>5, <1>6 DEF WriteOK, EndOK
<1> QED
  BY <1>15, <1>16, <1>18, <1>19 DEF Undisturbed

LEMMA ClearCellKeeps ==
  ASSUME Undisturbed, ClearCell
  PROVE  Undisturbed'
<1> DEFINE u == Unscrolled
           i == call.cell
           after(b) == IF b < i + 1 THEN memory'[b]
                       ELSE IF b < MonitorSize THEN Blank
                       ELSE memory'[b]
<1>1. /\ call.stage = "clear" /\ registers' = registers /\ before' = before
      /\ call.n \in 1 .. Len(Text) /\ Typed(call) /\ memory \in [Cells -> Characters]
      /\ registers \in [Halves -> 0 .. ByteSize - 1]
      /\ u.row >= ScreenHigh /\ u.screen + ScreenSize >= MonitorSize
      /\ call.row = u.row /\ call.col = u.col /\ ScreenSize <= i /\ i < MonitorSize
      /\ RestCleared = CopiedBack(u) /\ i \in Nat
      /\ memory' = [memory EXCEPT ![i] = Blank]
  BY DEF ClearCell, Undisturbed, CountOK, ScrollOK, TypesOK, Typed
<1>2. u \in States /\ Sofar(call.n) = Scrolled(u)
  BY <1>1, UnscrolledIs DEF Behind, Window
<1>3. i \in Cells
  BY <1>1, InCells
<1>4. memory' \in [Cells -> Characters]
  BY <1>1, <1>3 DEF Characters
<1>5. memory'[i] = Blank /\ \A b \in Cells : b # i => memory'[b] = memory[b]
  BY <1>1, <1>3
<1>6. \A b \in Cells : RestCleared[b] = after(b)
  <2> TAKE b \in Cells
  <2>1. RestCleared[b] = IF b < i THEN memory[b] ELSE IF b < MonitorSize THEN Blank ELSE memory[b]
    BY DEF RestCleared
  <2>2. b \in Nat /\ MonitorSize \in Nat
    BY InCells
  <2> HIDE DEF i
  <2> QED
    BY <1>1, <1>5, <2>1, <2>2
<1>7. RestCleared = [b \in Cells |-> after(b)]
  <2>1. RestCleared = [b \in Cells |-> RestCleared[b]]
    BY DEF RestCleared
  <2> HIDE DEF after
  <2> QED
    BY <1>6, <2>1, Zenon
<1>8. call.step = 0
  BY <1>1 DEF Undisturbed, PortsOK, Ports, CursorReads, ScreenReads, Writes
<1>9. CASE i + 1 # MonitorSize
  <2>1. call' = [call EXCEPT !.cell = i + 1]
    BY <1>9 DEF ClearCell
  <2>2. /\ Typed(call') /\ call'.stage = "clear" /\ call'.step = call.step /\ call'.n = call.n
        /\ call'.nested = call.nested /\ call'.message = call.message /\ call'.cell = i + 1
        /\ call'.row = call.row /\ call'.col = call.col
    BY <1>1, <2>1 DEF Typed
  <2>3. RestCleared' = RestCleared
    <3>1. RestCleared' = [b \in Cells |-> after(b)]
      BY <2>2 DEF RestCleared
    <3> QED
      BY <1>7, <3>1, Zenon
  <2>4. Text' = Text /\ Unscrolled' = u
    BY <1>1, <2>2, SameText
  <2>5. CopiedBack(Unscrolled)' = CopiedBack(u)
    BY <2>4 DEF CopiedBack
  <2> HIDE DEF u
  <2>6. ScrollOK'
    <3>1. ScreenSize <= i + 1 /\ i + 1 < MonitorSize
      <4>1. i \in Nat /\ ScreenSize \in Nat /\ MonitorSize \in Nat /\ ScreenSize <= i /\ i < MonitorSize
        BY <1>1, InCells
      <4> HIDE DEF i
      <4> QED
        BY <1>9, <4>1
    <3> QED
      BY <1>1, <2>2, <2>3, <2>4, <2>5, <3>1 DEF ScrollOK
  <2>7. TypesOK' /\ BeginOK' /\ LocalsOK'
    BY <1>1, <1>4, <2>2, MiddleKeeps
  <2>8. PortsOK' /\ CountOK'
    BY <1>1, <1>8, <2>2, <2>4 DEF PortsOK, CountOK, CursorReads
  <2>9. WriteOK' /\ EndOK'
    BY <2>2 DEF WriteOK, EndOK
  <2> QED
    BY <2>6, <2>7, <2>8, <2>9 DEF Undisturbed
<1>10. CASE i + 1 = MonitorSize
  <2>1. call' = [call EXCEPT !.cell = 0, !.stage = "move", !.address = ScreenWidth]
    BY <1>10 DEF ClearCell
  <2>2. /\ Typed(call') /\ call'.stage = "move" /\ call'.step = call.step /\ call'.n = call.n
        /\ call'.nested = call.nested /\ call'.message = call.message
        /\ call'.address = ScreenWidth /\ call'.row = call.row /\ call'.col = call.col
    <3>1. ScreenWidth \in Int /\ Typed(call)
      BY <1>1, InCells
    <3> QED
      BY <2>1, <3>1, StagesAre DEF Typed
  <2>3. memory' = CopiedBack(u)
    <3>1. memory' = [b \in Cells |-> memory'[b]]
      BY <1>4
    <3>2. \A b \in Cells : after(b) = memory'[b]
      BY <1>10
    <3> HIDE DEF after
    <3> QED
      BY <1>1, <1>7, <3>1, <3>2, Zenon
  <2>4. Text' = Text /\ Sofar(call.n)' = Sofar(call.n)
    BY <1>1, <2>2, SameText
  <2> HIDE DEF u
  <2>5. Scrolled(u) = [memory |-> CopiedBack(u), screen |-> ScreenWidth,
                       row |-> call.row - 1, col |-> call.col]
    BY <1>1, <1>2, ScrolledIs
  <2>6. ScrollOK'
    BY <1>2, <2>2, <2>3, <2>4, <2>5 DEF ScrollOK
  <2>7. TypesOK' /\ BeginOK' /\ LocalsOK'
    BY <1>1, <1>4, <2>2, MiddleKeeps
  <2>8. PortsOK' /\ CountOK'
    BY <1>1, <1>8, <2>2, <2>4 DEF PortsOK, CountOK, CursorReads
  <2>9. WriteOK' /\ EndOK'
    BY <2>2 DEF WriteOK, EndOK
  <2> QED
    BY <2>6, <2>7, <2>8, <2>9 DEF Undisturbed
<1> QED
  BY <1>9, <1>10

\* The two halves of an address.
LEMMA ByteIs ==
  ASSUME NEW v \in Int
  PROVE  /\ Byte(v, "High") \in 0 .. ByteSize - 1 /\ Byte(v, "Low") \in 0 .. ByteSize - 1
         /\ v \in Nat /\ v < Offsets => Byte(v, "High") * ByteSize + Byte(v, "Low") = v
<1> DEFINE q == v \div ByteSize
           r == v % ByteSize
<1>1. ByteSize \in Nat \ {0}
  BY Sizes
<1>2. q \in Int /\ r \in 0 .. ByteSize - 1 /\ v = q * ByteSize + r
  BY <1>1
<1>3. Byte(v, "High") = q % ByteSize /\ Byte(v, "Low") = r
  BY DEF Byte
<1> HIDE DEF q, r
<1>4. q % ByteSize \in 0 .. ByteSize - 1
  BY <1>1, <1>2
<1>5. v \in Nat /\ v < Offsets => q % ByteSize = q
  <2> SUFFICES ASSUME v \in Nat, v < Offsets PROVE q % ByteSize = q
    OBVIOUS
  <2>1. q \in Nat
    BY <1>1 DEF q
  <2>2. q < ByteSize
    <3>1. ByteSize <= q => ByteSize * ByteSize <= q * ByteSize
      BY <1>1, <2>1, Multiples
    <3>2. q * ByteSize \in Nat /\ r \in Nat /\ Offsets = ByteSize * ByteSize /\ Offsets \in Nat
      BY <1>1, <1>2, <2>1, Sizes
    <3> QED
      BY <1>1, <1>2, <2>1, <3>1, <3>2
  <2> QED
    BY <1>1, <2>1, <2>2
<1> QED
  BY <1>2, <1>3, <1>4, <1>5

LEMMA WriteHighKeeps ==
  ASSUME Undisturbed, WriteHigh
  PROVE  Undisturbed'
<1> DEFINE h == Byte(call.address, "High")
           high == <<Register(call.stage), "High">>
<1>1. /\ call.stage \in {"move", "setCursor"} /\ call.step = 1
      /\ registers' = [registers EXCEPT ![index] = h] /\ call' = [call EXCEPT !.step = 2]
      /\ memory' = memory /\ index' = index /\ before' = before
      /\ Typed(call) /\ memory \in [Cells -> Characters]
      /\ registers \in [Halves -> 0 .. ByteSize - 1] /\ index = high
  BY DEF WriteHigh, Writes, Undisturbed, TypesOK, PortsOK
<1>2. h \in 0 .. ByteSize - 1
  BY <1>1, ByteIs DEF Typed
<1>3. high \in Halves
  BY RegisterIs
<1> HIDE DEF h
<1>4. registers' \in [Halves -> 0 .. ByteSize - 1] /\ registers'[high] = h
      /\ \A x \in Halves : x # high => registers'[x] = registers[x]
  <2> HIDE DEF high
  <2> QED
    BY <1>1, <1>2, <1>3
<1>5. /\ Typed(call') /\ call'.stage = call.stage /\ call'.step = 2 /\ call'.n = call.n
      /\ call'.nested = call.nested /\ call'.message = call.message
      /\ call'.row = call.row /\ call'.col = call.col /\ call'.address = call.address
  BY <1>1 DEF Typed
<1>6. Text' = Text /\ Sofar(call.n)' = Sofar(call.n) /\ Sofar(Len(Text))' = Sofar(Len(Text))
  BY <1>1, <1>5, SameText
<1>7. TypesOK' /\ BeginOK' /\ LocalsOK'
  BY <1>1, <1>4, <1>5, MiddleKeeps
<1>8. PortsOK'
  <2>1. Register(call'.stage) = Register(call.stage) /\ call'.stage \in Ports
        /\ call'.stage \notin CursorReads \cup ScreenReads
    BY <1>1, <1>5 DEF Ports, Writes, CursorReads, ScreenReads
  <2> QED
    BY <1>4, <1>5, <2>1 DEF PortsOK, h
<1>9. ScrollOK'
  BY <1>1, <1>5, <1>6 DEF Undisturbed, ScrollOK
<1>10. EndOK'
  <2>1. CASE call.stage = "setCursor"
    <3>1. <<"ScreenAddress", "High">> \in Halves /\ <<"ScreenAddress", "Low">> \in Halves
          /\ <<"ScreenAddress", "High">> # high /\ <<"ScreenAddress", "Low">> # high
      BY <2>1 DEF Halves, Register
    <3>2. screen' = screen
      BY <1>4, <3>1 DEF screen, Value
    <3>3. Here' = Here /\ Address(Here)' = Address(Here)
      BY <1>1, <1>5, <3>2 DEF Here, Address, CellAt
    <3> QED
      BY <1>5, <1>6, <2>1, <3>3 DEF Undisturbed, EndOK
  <2>2. CASE call.stage = "move"
    BY <1>5, <2>2 DEF EndOK
  <2> QED
    BY <1>1, <2>1, <2>2
<1>11. WriteOK' /\ CountOK'
  BY <1>1, <1>5, <1>6 DEF WriteOK, CountOK, Undisturbed, CursorReads
<1> QED
  BY <1>7, <1>8, <1>9, <1>10, <1>11 DEF Undisturbed

\* An address is in a register when both its halves have been written.
LEMMA WriteLowIs ==
  ASSUME Undisturbed, WriteLow, call.address \in Nat, call.address < Offsets
  PROVE  /\ registers' \in [Halves -> 0 .. ByteSize - 1]
         /\ memory' = memory
         /\ call.stage = "move" => screen' = call.address
         /\ call.stage = "setCursor" => screen' = screen /\ cursor' = call.address
<1> DEFINE l == Byte(call.address, "Low")
           h == Byte(call.address, "High")
           high == <<Register(call.stage), "High">>
           low == <<Register(call.stage), "Low">>
<1>1. /\ call.stage \in {"move", "setCursor"} /\ call.step = 3
      /\ registers' = [registers EXCEPT ![index] = l]
      /\ memory' = memory /\ index = low /\ registers[high] = h
      /\ registers \in [Halves -> 0 .. ByteSize - 1]
  BY DEF WriteLow, Writes, Undisturbed, TypesOK, PortsOK
<1>2. l \in 0 .. ByteSize - 1 /\ h * ByteSize + l = call.address
  BY ByteIs
<1>3. high \in Halves /\ low \in Halves /\ high # low
  BY RegisterIs
<1> HIDE DEF h, l
<1>4. registers' \in [Halves -> 0 .. ByteSize - 1] /\ registers'[low] = l /\ registers'[high] = h
      /\ \A x \in Halves : x # low => registers'[x] = registers[x]
  <2> HIDE DEF high, low
  <2> QED
    BY <1>1, <1>2, <1>3
<1>5. CASE call.stage = "move"
  <2>1. screen' = registers'[high] * ByteSize + registers'[low]
    BY <1>5 DEF screen, Value, Register, CursorReads
  <2> QED
    BY <1>1, <1>2, <1>4, <1>5, <2>1
<1>6. CASE call.stage = "setCursor"
  <2>1. cursor' = registers'[high] * ByteSize + registers'[low]
    BY <1>6 DEF cursor, Value, Register
  <2>2. <<"ScreenAddress", "High">> \in Halves /\ <<"ScreenAddress", "Low">> \in Halves
        /\ <<"ScreenAddress", "High">> # low /\ <<"ScreenAddress", "Low">> # low
    BY <1>6 DEF Halves, Register
  <2>3. screen' = screen
    BY <1>4, <2>2 DEF screen, Value
  <2> QED
    BY <1>1, <1>2, <1>4, <1>6, <2>1, <2>3
<1> QED
  BY <1>1, <1>5, <1>6

LEMMA WriteScreenKeeps ==
  ASSUME Undisturbed, WriteScreen
  PROVE  Undisturbed'
<1> DEFINE s == [memory |-> memory, screen |-> call.address, row |-> call.row - 1, col |-> call.col]
           i == call.row - 1
<1>1. /\ call.stage = "move" /\ WriteLow /\ before' = before
      /\ call.n \in 1 .. Len(Text) /\ s = Sofar(call.n)
      /\ Typed(call) /\ memory \in [Cells -> Characters]
  BY DEF WriteScreen, Undisturbed, TypesOK, CountOK, ScrollOK
<1>2. Good(s) /\ s.screen = call.address
  BY <1>1, TextIs
<1>3. call.address \in Nat /\ call.address < Offsets
  <2>1. s.screen \in Nat /\ s.screen + ScreenSize < MonitorSize + ScreenWidth
    BY <1>2 DEF Good, Window, States
  <2> HIDE DEF s
  <2> QED
    BY <1>2, <2>1, Sizes
<1>4. registers' \in [Halves -> 0 .. ByteSize - 1] /\ memory' = memory /\ screen' = call.address
  BY <1>1, <1>3, WriteLowIs
<1>5. call' = [call EXCEPT !.stage = "locate", !.step = 0, !.row = i]
  BY DEF WriteScreen
<1>6. i \in Int
  BY <1>1 DEF Typed
<1> HIDE DEF i
<1>7. /\ Typed(call') /\ call'.stage = "locate" /\ call'.step = 0 /\ call'.n = call.n
      /\ call'.nested = call.nested /\ call'.message = call.message
      /\ call'.row = i /\ call'.col = call.col
  BY <1>1, <1>5, <1>6, StagesAre DEF Typed
<1>8. Here' = s
  BY <1>4, <1>7 DEF Here, i
<1>9. Text' = Text /\ Sofar(call.n)' = Sofar(call.n)
  BY <1>1, <1>7, SameText
<1> HIDE DEF s
<1>10. EndOK'
  BY <1>1, <1>7, <1>8, <1>9 DEF EndOK
<1>11. TypesOK' /\ BeginOK' /\ LocalsOK'
  BY <1>1, <1>4, <1>7, MiddleKeeps
<1>12. PortsOK' /\ CountOK' /\ WriteOK' /\ ScrollOK'
  BY <1>1, <1>7, <1>9 DEF PortsOK, CountOK, WriteOK, ScrollOK, CursorReads
<1> QED
  BY <1>10, <1>11, <1>12 DEF Undisturbed

\* Whoever reads the registers finds the state that was left in them.
LEMMA NextFindsState ==
  ASSUME NEW s, Good(s), memory' = s.memory, screen' = s.screen, cursor' = Address(s)
  PROVE  Current' = s
<1>1. /\ s.screen \in Nat /\ s.row \in Nat /\ s.col \in Nat /\ s.col < ScreenWidth
      /\ s = [memory |-> s.memory, screen |-> s.screen, row |-> s.row, col |-> s.col]
  BY DEF Good, Window, States
<1>2. ScreenWidth \in Nat \ {0} /\ Place(s.row, s.col) \in Nat /\ Address(s) < Offsets
      /\ Address(s) = s.screen + Place(s.row, s.col)
  BY Sizes, AddressIs
<1>3. Address(s) - s.screen = Place(s.row, s.col)
  BY <1>1, <1>2
<1>4. Place(s.row, s.col) < WordSize
  <2> DEFINE p == Place(s.row, s.col)
  <2>1. p \in Nat /\ s.screen + p < Offsets
    BY <1>2
  <2> HIDE DEF p
  <2>2. p < WordSize
    BY <1>1, <2>1, Sizes
  <2> QED
    BY <2>2 DEF p
<1>5. Place(s.row, s.col) % WordSize = Place(s.row, s.col)
  BY <1>2, <1>4, Sizes
<1>6. Place(s.row, s.col) \div ScreenWidth = s.row /\ Place(s.row, s.col) % ScreenWidth = s.col
  BY <1>1, PlaceIs
<1>7. Row(Address(s) - s.screen) = s.row /\ Col(Address(s) - s.screen) = s.col
  BY <1>3, <1>5, <1>6 DEF Row, Col
<1>8. Current' = [memory |-> memory', screen |-> screen',
                  row |-> Row(cursor' - screen'), col |-> Col(cursor' - screen')]
  BY DEF Current, Row, Col
<1> QED
  BY <1>1, <1>7, <1>8

\* setCursor leaves the state that the text has led to.
LEMMA CursorSet ==
  ASSUME Undisturbed, WriteLow, call.stage = "setCursor"
  PROVE  /\ Current' = Printed(Base, Text) /\ Good(Current')
         /\ registers' \in [Halves -> 0 .. ByteSize - 1] /\ memory' \in [Cells -> Characters]
         /\ cursor' \in Nat
<1>1. /\ Here = Sofar(Len(Text)) /\ call.address = Address(Here) /\ Len(Text) \in Nat
      /\ Sofar(Len(Text)) = Printed(Base, Text) /\ Good(Here)
      /\ Here.memory = memory /\ Here.screen = screen
      /\ memory \in [Cells -> Characters]
  <2>1. Here = Sofar(Len(Text)) /\ call.address = Address(Here) /\ memory \in [Cells -> Characters]
    BY DEF Undisturbed, EndOK, TypesOK
  <2> QED
    BY <2>1, TextIs DEF Here
<1>2. call.address \in Nat /\ call.address < Offsets
  BY <1>1, AddressIs
<1>3. /\ registers' \in [Halves -> 0 .. ByteSize - 1] /\ memory' = memory
      /\ screen' = screen /\ cursor' = call.address
  BY <1>2, WriteLowIs
<1>4. Current' = Here
  BY <1>1, <1>3, NextFindsState
<1> QED
  BY <1>1, <1>2, <1>3, <1>4

LEMMA WriteCursorOfNewlineKeeps ==
  ASSUME Undisturbed, WriteCursorOfNewline
  PROVE  Undisturbed'
<1>1. /\ call.stage = "setCursor" /\ call.nested /\ WriteLow /\ before' = before
      /\ call' = [NoCall EXCEPT !.stage = "position", !.message = call.message]
      /\ call.message \in Messages /\ call.message # <<>> /\ Good(before) /\ before.col # 0
  BY DEF WriteCursorOfNewline, Undisturbed, TypesOK, Typed
<1>2. /\ Current' = Printed(Base, Text)
      /\ registers' \in [Halves -> 0 .. ByteSize - 1] /\ memory' \in [Cells -> Characters]
  BY <1>1, CursorSet
<1>3. /\ Typed(call') /\ call'.stage = "position" /\ call'.step = 0 /\ call'.n = 1
      /\ ~call'.nested /\ call'.message = call.message
  BY <1>1, StagesAre DEF Typed, NoCall
<1>4. Current' = Base'
  <2>1. Text = <<"LF">> /\ Base = before
    BY <1>1 DEF Text, Base
  <2>2. Len(Text) = 1 /\ Text[1] = "LF"
    BY <2>1
  <2>3. Current' = PutChar(before, "LF")
    <3>1. 1 \in 1 .. Len(Text) /\ 1 - 1 = 0
      BY <2>2
    <3>2. Sofar(1) = PutChar(Sofar(0), Text[1]) /\ Sofar(0) = Base /\ Sofar(Len(Text)) = Printed(Base, Text)
      BY <1>1, <3>1, TextIs
    <3> QED
      BY <1>2, <2>1, <2>2, <3>2
  <2>4. Base' = ConsoleAlignLine(before)
    BY <1>1, <1>3 DEF Base
  <2> QED
    BY <1>1, <2>3, <2>4 DEF ConsoleAlignLine
<1>5. Len(Text)' \in Nat /\ 1 \in 1 .. Len(Text)'
  <2>1. Text' = call.message
    BY <1>3 DEF Text
  <2>2. Len(call.message) \in Nat \ {0}
    BY <1>1, MessageIs
  <2>3. Len(Text') = Len(call.message)
    BY <2>1
  <2> QED
    BY <2>2, <2>3
<1>6. TypesOK'
  BY <1>1, <1>2, <1>3 DEF TypesOK
<1>7. BeginOK' /\ LocalsOK' /\ WriteOK' /\ ScrollOK' /\ EndOK'
  BY <1>3, <1>4 DEF BeginOK, LocalsOK, WriteOK, ScrollOK, EndOK
<1>8. PortsOK' /\ CountOK'
  BY <1>3, <1>5 DEF PortsOK, CountOK
<1> QED
  BY <1>6, <1>7, <1>8 DEF Undisturbed
-----------------------------------------------------------------------------
(***************************************************************************)
(* The steps of the console as those of a terminal.                        *)
(***************************************************************************)
Showing == Shown(IF call.stage = "none" THEN Current ELSE before)

LEMMA ShownIs ==
  ASSUME NEW s, Good(s)
  PROVE  Shown(s) = Show(s)
<1>1. s.screen \in Nat
  BY DEF Good, Window, States
<1>2. ASSUME NEW r \in 0 .. ScreenHigh - 1, NEW c \in 0 .. ScreenWidth - 1
      PROVE  s.memory[s.screen + r * ScreenWidth + c] = s.memory[s.screen + Place(r, c)]
  <2>1. r * ScreenWidth \in Nat /\ c \in Nat
    BY Sizes
  <2>2. s.screen + r * ScreenWidth + c = s.screen + Place(r, c)
    BY <1>1, <2>1 DEF Place
  <2> QED
    BY <2>2
<1>3. [r \in 0 .. ScreenHigh - 1 |->
         [c \in 0 .. ScreenWidth - 1 |-> s.memory[s.screen + r * ScreenWidth + c]]] = ShowRows(s)
  BY <1>2 DEF ShowRows
<1> QED
  BY <1>3 DEF Shown, Show, Term

LEMMA StartIsGood ==
  ASSUME Init
  PROVE  Inv /\ T!Init
<1>1. /\ ScreenWidth \in Nat /\ ScreenWidth > 0 /\ ScreenHigh \in Nat /\ ScreenHigh > 0
      /\ ScreenSize \in Nat /\ MonitorSize \in Nat /\ ScreenSize + ScreenWidth <= MonitorSize
      /\ ByteSize \in Nat \ {0} /\ WordSize \in Nat \ {0}
  BY Sizes
<1>2. 0 * ScreenWidth = 0 /\ 0 \div ScreenWidth = 0 /\ 0 % ScreenWidth = 0 /\ 0 % WordSize = 0
  <2>1. 0 * ScreenWidth + 0 = 0 /\ 0 * ScreenWidth = 0
    BY <1>1
  <2>2. (0 * ScreenWidth + 0) \div ScreenWidth = 0 /\ (0 * ScreenWidth + 0) % ScreenWidth = 0
    BY <1>1, DivisionUnique
  <2> QED
    BY <1>1, <2>1, <2>2
<1>3. /\ memory = [a \in Cells |-> Blank] /\ call = NoCall /\ garbled = FALSE
      /\ registers \in [Halves -> 0 .. ByteSize - 1]
      /\ \A h \in Halves : registers[h] = 0
  BY <1>1 DEF Init, Cleared
<1>4. screen = 0 /\ cursor = 0 /\ cursor - screen = 0
  <2>1. \A name \in {"ScreenAddress", "CursorAddress"} : Value(name) = 0 * ByteSize + 0
    BY <1>3 DEF Value, Halves
  <2> QED
    BY <1>1, <2>1 DEF screen, cursor
<1>5. Current = [memory |-> memory, screen |-> 0, row |-> 0, col |-> 0]
  BY <1>2, <1>4 DEF Current, Row, Col
<1>6. Current \in States /\ Current.memory = memory /\ memory \in [Cells -> Characters]
  BY <1>3, <1>5 DEF States, Characters
<1>7. Good(Current)
  <2>1. \E k \in Nat : Current.screen = k * ScreenWidth
    <3>1. 0 \in Nat /\ Current.screen = 0 * ScreenWidth
      BY <1>2, <1>5
    <3> QED
      BY <3>1
  <2>2. Current.screen + ScreenSize < MonitorSize + ScreenWidth
    BY <1>1, <1>5
  <2>3. \A a \in Cells : Current.memory[a] = Blank
    BY <1>3, <1>6
  <2> QED
    BY <1>1, <1>5, <1>6, <2>1, <2>2, <2>3 DEF Good, Window
<1>8. /\ call.stage = "none" /\ call.step = 0 /\ call.message = <<>> /\ ~call.nested
      /\ Typed(call)
  BY <1>3, StagesAre DEF NoCall, Typed
<1>9. Inv
  <2>1. TypesOK
    BY <1>3, <1>6, <1>7, <1>8 DEF TypesOK
  <2>2. PortsOK /\ BeginOK /\ LocalsOK /\ WriteOK /\ ScrollOK /\ EndOK /\ CountOK
    BY <1>8 DEF PortsOK, BeginOK, LocalsOK, WriteOK, ScrollOK, EndOK, CountOK, CursorReads
  <2> QED
    BY <1>3, <2>1, <2>2 DEF Inv, Undisturbed
<1>10. Showing = Term(ShowRows(Current), 0, 0)
  BY <1>5, <1>7, <1>8, ShownIs DEF Show, Showing
<1>11. ShowRows(Current) = [r \in 0 .. ScreenHigh - 1 |-> [c \in 0 .. ScreenWidth - 1 |-> Blank]]
  <2>1. \A r \in 0 .. ScreenHigh - 1, c \in 0 .. ScreenWidth - 1 :
          Current.screen + Place(r, c) \in Cells
    BY <1>7, InWindow DEF Good
  <2>2. \A r \in 0 .. ScreenHigh - 1, c \in 0 .. ScreenWidth - 1 :
          Current.memory[Current.screen + Place(r, c)] = Blank
    BY <1>3, <1>6, <2>1
  <2> QED
    BY <2>2 DEF ShowRows
<1>12. T!Init
  BY <1>3, <1>8, <1>10, <1>11 DEF Term, Showing, T!Init, T!Rows, T!Columns, T!BlankRow
<1> QED
  BY <1>9, <1>12

\* Between calls nothing is left to be said of the call.
LEMMA NoCallKeeps ==
  ASSUME Typed(call'), call'.stage = "none", call'.step = 0, call'.message = <<>>, ~call'.nested,
         registers' \in [Halves -> 0 .. ByteSize - 1], memory' \in [Cells -> Characters],
         Good(Current')
  PROVE  Undisturbed'
<1>1. TypesOK'
  <2>1. (Good(Current))'
    OBVIOUS
  <2> QED
    BY <2>1 DEF TypesOK
<1>2. PortsOK' /\ BeginOK' /\ LocalsOK' /\ WriteOK' /\ ScrollOK' /\ EndOK' /\ CountOK'
  BY DEF PortsOK, BeginOK, LocalsOK, WriteOK, ScrollOK, EndOK, CountOK, CursorReads
<1> QED
  BY <1>1, <1>2 DEF Undisturbed

\* A call with interrupts off that nothing is in the way of.
LEMMA CallShows ==
  ASSUME Undisturbed, garbled = FALSE, call.stage = "none",
         NEW text \in Texts, NEW color \in Colors, ConsoleWriteWithColor(text, color)
  PROVE  Undisturbed' /\ T!Write(text, color)
<1> DEFINE a == IF color \notin {"WHITE", "LIGHT_BLUE"} THEN ConsoleAlignLine(Current) ELSE Current
           start == T!Aligned(Show(Current), color)
           s == Printed(a, text)
           address == [ScreenAddress |-> s.screen, CursorAddress |-> Address(s)]
<1>1. Good(Current) /\ call.message = <<>> /\ Typed(call) /\ call.step = 0 /\ ~call.nested
  <2>1. Good(Current) /\ call.message = <<>> /\ Typed(call) /\ ~call.nested
    BY DEF Undisturbed, TypesOK
  <2>2. call.step = 0
    <3>1. call.stage \notin Ports
      BY DEF Ports, CursorReads, ScreenReads, Writes
    <3> QED
      BY <3>1 DEF Undisturbed, PortsOK
  <2> QED
    BY <2>1, <2>2
<1>2. Good(a) /\ Show(a) \in start /\ start \in SUBSET Terminals
  BY <1>1, AlignedShows
<1>3. text \in Seq(Letters \cup Controls)
  BY ConsoleAssumption DEF Controls
<1>4. /\ memory' = s.memory /\ call' = call /\ garbled' = garbled
      /\ registers' = [h \in Halves |-> Byte(address[h[1]], h[2])]
  <2>1. memory' = s.memory /\ registers' = [h \in Halves |-> Byte(address[h[1]], h[2])]
    BY Zenon DEF ConsoleWriteWithColor
  <2>2. call' = call /\ garbled' = (garbled \/ call.stage # "none")
    BY DEF ConsoleWriteWithColor
  <2> HIDE DEF s, address
  <2> QED
    BY <2>1, <2>2
<1>5. Good(s) /\ Show(s) \in T!AfterEach(start, text)
  <2> HIDE DEF a, start
  <2> QED
    BY <1>2, <1>3, PrintedShows
<1> HIDE DEF s, start
<1>6. /\ s.screen \in Nat /\ s.screen < Offsets /\ s.memory \in [Cells -> Characters]
      /\ Address(s) \in Nat /\ Address(s) < Offsets
  <2>1. s.screen \in Nat /\ s.screen + ScreenSize < MonitorSize + ScreenWidth
        /\ s.memory \in [Cells -> Characters]
    BY <1>5 DEF Good, Window, States
  <2> QED
    BY <1>5, <2>1, AddressIs, Sizes
<1>7. registers' \in [Halves -> 0 .. ByteSize - 1] /\ screen' = s.screen /\ cursor' = Address(s)
  <2>1. address["ScreenAddress"] = s.screen /\ address["CursorAddress"] = Address(s)
    OBVIOUS
  <2> HIDE DEF address
  <2>2. \A name \in {"ScreenAddress", "CursorAddress"} : address[name] \in Int
    BY <1>6, <2>1
  <2>3. \A h \in Halves : h[1] \in {"ScreenAddress", "CursorAddress"} /\ h[2] \in {"High", "Low"}
    BY DEF Halves
  <2>4. \A h \in Halves : Byte(address[h[1]], h[2]) \in 0 .. ByteSize - 1
    BY <2>2, <2>3, ByteIs
  <2>5. registers' \in [Halves -> 0 .. ByteSize - 1]
    BY <1>4, <2>4
  <2>6. ASSUME NEW name \in {"ScreenAddress", "CursorAddress"}
        PROVE  registers'[<<name, "High">>] * ByteSize + registers'[<<name, "Low">>] = 
                 Byte(address[name], "High") * ByteSize + Byte(address[name], "Low")
    <3>1. <<name, "High">> \in Halves /\ <<name, "Low">> \in Halves
      BY DEF Halves
    <3> QED
      BY <1>4, <3>1
  <2>7. screen' = Byte(s.screen, "High") * ByteSize + Byte(s.screen, "Low")
        /\ cursor' = Byte(Address(s), "High") * ByteSize + Byte(Address(s), "Low")
    BY <2>1, <2>6 DEF screen, cursor, Value
  <2> QED
    BY <1>6, <2>5, <2>7, ByteIs
<1>8. Current' = s
  BY <1>4, <1>5, <1>7, NextFindsState
<1>9. Undisturbed'
  BY <1>1, <1>4, <1>5, <1>6, <1>7, <1>8, NoCallKeeps
<1>10. Showing = Show(Current) /\ Showing' = Show(s)
  <2>1. Shown(Current)' = Shown(Current')
    BY DEF Shown
  <2>2. Showing = Shown(Current) /\ Showing' = Shown(Current')
    BY <1>4, <2>1 DEF Showing
  <2> QED
    BY <1>1, <1>5, <1>8, <2>2, ShownIs
<1>11. Showing' \in T!AfterEach(T!Aligned(Showing, color), text)
  BY <1>5, <1>10 DEF start
<1> QED
  BY <1>1, <1>4, <1>9, <1>11 DEF T!Write, Showing

\* ReadLine's message begins.
LEMMA MessageBegins ==
  ASSUME Undisturbed, garbled = FALSE, NEW text \in Messages, PrintWithColor(text)
  PROVE  Undisturbed' /\ T!BeginMessage(text)
<1>1. /\ call.stage = "none" /\ before' = Current /\ memory' = memory /\ registers' = registers
      /\ garbled' = garbled /\ index' = index
      /\ call' = [NoCall EXCEPT !.stage = "alignCursor", !.message = text]
      /\ Good(Current) /\ call.message = <<>> /\ TypesOK
  BY DEF PrintWithColor, Undisturbed, TypesOK
<1>2. text # <<>> /\ Len(text) \in Nat \ {0}
  BY MessageIs
<1>3. /\ Typed(call') /\ call'.stage = "alignCursor" /\ call'.step = 0 /\ call'.n = 1
      /\ ~call'.nested /\ call'.message = text
  BY <1>1, StagesAre DEF Typed, NoCall
<1>4. Current' = Current
  BY <1>1, SameRegisters
<1>5. TypesOK'
  BY <1>1, <1>2, <1>3, <1>4 DEF TypesOK
<1>6. BeginOK' /\ LocalsOK' /\ WriteOK' /\ ScrollOK' /\ EndOK'
  BY <1>1, <1>3, <1>4 DEF BeginOK, LocalsOK, WriteOK, ScrollOK, EndOK
<1>7. PortsOK' /\ CountOK'
  <2>1. Text' = text
    BY <1>3 DEF Text
  <2>2. 1 \in 1 .. Len(text)
    BY <1>2
  <2>3. Len(Text)' = Len(text)
    BY <2>1
  <2> QED
    BY <1>3, <2>2, <2>3 DEF PortsOK, CountOK
<1>8. Showing' = Showing
  <2>1. Shown(before)' = Shown(before')
    BY DEF Shown
  <2> QED
    BY <1>1, <1>3, <2>1 DEF Showing
<1> QED
  BY <1>1, <1>3, <1>5, <1>6, <1>7, <1>8 DEF Undisturbed, T!BeginMessage, Showing

\* ReadLine's message ends.
LEMMA MessageEnds ==
  ASSUME Undisturbed, garbled = FALSE, WriteCursor
  PROVE  Undisturbed' /\ T!EndMessage
<1> DEFINE a == ConsoleAlignLine(before)
           start == T!Aligned(Show(before), "RED")
           s == Printed(a, call.message)
<1>1. /\ call.stage = "setCursor" /\ ~call.nested /\ WriteLow /\ call' = NoCall
      /\ garbled' = garbled
      /\ call.message \in Messages /\ call.message # <<>> /\ Good(before)
  BY DEF WriteCursor, WriteLow, Undisturbed, TypesOK, Typed
<1>2. /\ Current' = s /\ Good(Current')
      /\ registers' \in [Halves -> 0 .. ByteSize - 1] /\ memory' \in [Cells -> Characters]
  BY <1>1, CursorSet DEF Base, Text
<1>3. Good(a) /\ Show(a) \in start /\ start \in SUBSET Terminals
  BY <1>1, AlignedShows
<1>4. call.message \in Seq(Letters \cup Controls)
  BY <1>1, MessageIs
<1>5. Show(s) \in T!AfterEach(start, call.message)
  <2> HIDE DEF a, start
  <2> QED
    BY <1>3, <1>4, PrintedShows
<1>6. /\ Typed(call') /\ call'.stage = "none" /\ call'.step = 0 /\ call'.message = <<>>
      /\ ~call'.nested
  BY <1>1, StagesAre DEF Typed, NoCall
<1>7. Undisturbed'
  BY <1>2, <1>6, NoCallKeeps
<1>8. Showing = Show(before) /\ Showing' = Show(s)
  <2>1. Shown(Current)' = Shown(Current')
    BY DEF Shown
  <2>2. Showing = Shown(before) /\ Showing' = Shown(Current')
    BY <1>1, <1>6, <2>1 DEF Showing
  <2> QED
    BY <1>1, <1>2, <2>2, ShownIs
<1> HIDE DEF s
<1>9. Showing' \in T!AfterEach(T!Aligned(Showing, "RED"), call.message)
  BY <1>5, <1>8
<1> QED
  BY <1>1, <1>6, <1>7, <1>9 DEF T!EndMessage, Showing

LEMMA NothingChanges ==
  ASSUME Undisturbed, UNCHANGED vars
  PROVE  Undisturbed' /\ Showing' = Showing
<1>1. /\ memory' = memory /\ registers' = registers /\ index' = index /\ call' = call
      /\ before' = before
  BY DEF vars
<1>2. screen' = screen /\ cursor' = cursor /\ Current' = Current
  BY <1>1, SameRegisters
<1>3. /\ Base' = Base /\ Text' = Text /\ Unscrolled' = Unscrolled
      /\ Sofar(call.n)' = Sofar(call.n) /\ Sofar(Len(Text))' = Sofar(Len(Text))
      /\ Sofar(call.n - 1)' = Sofar(call.n - 1)
  BY <1>1, SameText DEF Sofar
<1>4. Here' = Here
  BY <1>1, <1>2 DEF Here
<1>5. TypesOK' /\ PortsOK' /\ BeginOK' /\ LocalsOK' /\ CountOK'
  BY <1>1, <1>2, <1>3 DEF Undisturbed, TypesOK, PortsOK, BeginOK, LocalsOK, CountOK
<1>6. WriteOK' /\ EndOK'
  BY <1>1, <1>3, <1>4 DEF Undisturbed, WriteOK, EndOK
<1>7. ScrollOK'
  <2>1. RestCopied' = RestCopied /\ RestCleared' = RestCleared
        /\ CopiedBack(Unscrolled)' = CopiedBack(Unscrolled)
    BY <1>1, <1>3 DEF RestCopied, RestCleared, CopiedBack
  <2> QED
    BY <1>1, <1>3, <2>1 DEF Undisturbed, ScrollOK
<1>8. Showing' = Showing
  BY <1>1, <1>2 DEF Showing, Shown
<1> QED
  BY <1>5, <1>6, <1>7, <1>8 DEF Undisturbed

\* The steps between do not show on the terminal.
LEMMA MessageGoesOn ==
  ASSUME Undisturbed, MessageStep, ~WriteCursor
  PROVE  /\ Undisturbed'
         /\ Showing' = Showing /\ call'.message = call.message /\ garbled' = garbled
<1>1. Undisturbed'
  BY SelectKeeps, ReadHighKeeps, ReadLowKeeps, PutCharacterKeeps, CopyCellKeeps, ClearCellKeeps,
     WriteHighKeeps, WriteScreenKeeps, WriteCursorOfNewlineKeeps DEF MessageStep
<1>2. Typed(call)
  BY DEF Undisturbed, TypesOK
<1>3. call.stage # "none" /\ before' = before /\ garbled' = garbled
  BY DEF MessageStep, SelectRegister, ReadHigh, ReadLow, PutCharacter, CopyCell, ClearCell,
         WriteHigh, WriteLow, WriteScreen, WriteCursorOfNewline, WriteCursor,
         CursorReads, ScreenReads, Writes
<1>4. call'.message = call.message
  <2>1. CASE SelectRegister \/ ReadHigh
    BY <1>2, <2>1 DEF SelectRegister, ReadHigh, Typed
  <2>2. CASE ReadLow
    <3> DEFINE address == IF call.stage \in CursorReads THEN cursor ELSE screen
    <3>1. call' = [Fetched(address) EXCEPT !.step = 0] /\ call.stage \in CursorReads \cup ScreenReads
      BY <2>2, ReadIs
    <3> HIDE DEF address
    <3>2. Fetched(address).message = call.message
      BY <1>2, <3>1 DEF Fetched, Typed, CursorReads, ScreenReads
    <3> QED
      BY <3>1, <3>2
  <2>3. CASE PutCharacter \/ CopyCell \/ ClearCell
    BY <1>2, <2>3 DEF PutCharacter, CopyCell, ClearCell, Typed
  <2>4. CASE WriteHigh \/ WriteScreen \/ WriteCursorOfNewline
    BY <1>2, <2>4 DEF WriteHigh, WriteScreen, WriteCursorOfNewline, NoCall, Typed
  <2> QED
    BY <2>1, <2>2, <2>3, <2>4 DEF MessageStep
<1>5. call'.stage # "none"
  BY <1>1, <1>3, <1>4 DEF Undisturbed, TypesOK
<1>6. Showing' = Showing
  <2>1. Shown(before)' = Shown(before')
    BY DEF Shown
  <2> QED
    BY <1>3, <1>5, <2>1 DEF Showing
<1> QED
  BY <1>1, <1>3, <1>4, <1>6

(***************************************************************************)
(* The window on the video memory behaves as a terminal whatever is        *)
(* printed, for every size of the screen, of the memory and of the         *)
(* registers that hold its addresses, and for texts of any length: each    *)
(* call of ConsoleWriteWithColor with interrupts off shows what a call of  *)
(* a terminal may show, also when the window reaches its last row or the   *)
(* end of the memory on the way.  ReadLine's message, which it prints with *)
(* interrupts on, one access to a port or to a cell at a time, does so as  *)
(* well when it ends, unless something else has been printed before that.  *)
(***************************************************************************)
THEOREM ConsoleIsTerminal == Spec => ImplementsTerminal
<1>1. Init => Inv /\ T!Init
  BY StartIsGood
<1>2. Inv /\ [Next]_vars => Inv' /\ [T!Next]_<<Showing, call.message, garbled>>
  <2> SUFFICES ASSUME Inv, [Next]_vars
               PROVE  Inv' /\ [T!Next]_<<Showing, call.message, garbled>>
    OBVIOUS
  <2>1. garbled' = garbled \/ garbled' = (garbled \/ call.stage # "none")
    BY DEF vars, Next, MessageStep, ConsoleWriteWithColor, PrintWithColor, SelectRegister, ReadHigh,
           ReadLow, PutCharacter, CopyCell, ClearCell, WriteHigh, WriteLow, WriteScreen,
           WriteCursorOfNewline, WriteCursor
  <2>2. garbled' \in BOOLEAN
    BY <2>1 DEF Inv
  <2>3. CASE garbled
    <3>1. garbled'
      BY <2>1, <2>3
    <3> QED
      BY <2>2, <2>3, <3>1 DEF Inv, T!Next, T!Garble
  <2>4. CASE ~garbled
    <3>1. Undisturbed /\ garbled = FALSE
      BY <2>4 DEF Inv
    <3>2. ASSUME NEW text \in Texts, NEW color \in Colors, ConsoleWriteWithColor(text, color)
          PROVE  Inv' /\ T!Next
      <4>1. CASE call.stage = "none"
        BY <2>2, <3>1, <3>2, <4>1, CallShows DEF Inv, T!Next
      <4>2. CASE call.stage # "none"
        <5>1. garbled' /\ call.message # <<>>
          BY <3>1, <3>2, <4>2 DEF ConsoleWriteWithColor, Undisturbed, TypesOK
        <5> QED
          BY <2>2, <5>1 DEF Inv, T!Next, T!Garble
      <4> QED
        BY <4>1, <4>2
    <3>3. ASSUME NEW text \in Messages, PrintWithColor(text)
          PROVE  Inv' /\ T!Next
      BY <2>2, <3>1, <3>3, MessageBegins DEF Inv, T!Next
    <3>4. CASE WriteCursor
      BY <2>2, <3>1, <3>4, MessageEnds DEF Inv, T!Next
    <3>5. CASE MessageStep /\ ~WriteCursor
      BY <2>2, <3>1, <3>5, MessageGoesOn DEF Inv
    <3>6. CASE UNCHANGED vars
      BY <2>2, <3>1, <3>6, NothingChanges DEF Inv, vars
    <3> QED
      BY <3>2, <3>3, <3>4, <3>5, <3>6 DEF Next, MessageStep
  <2> QED
    BY <2>3, <2>4
<1> QED
  BY <1>1, <1>2, PTL DEF Spec, ImplementsTerminal, T!Spec, Showing
=============================================================================
