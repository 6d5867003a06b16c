----------------------- MODULE WorkingDirectoryProofs -----------------------
(***************************************************************************)
(* Invariants of the current directory, for every set of inodes, names and *)
(* paths that are typed, of any length.                                    *)
(***************************************************************************)
EXTENDS WorkingDirectory, TLAPS, WellFoundedInduction, SequenceTheorems, FiniteSetTheorems

-----------------------------------------------------------------------------
(***************************************************************************)
(* The specification writes loops as functions defined by recursion.  What *)
(* proofs about them need: induction over the natural numbers stated with  *)
(* a set, and that a step repeated a number of times is defined.           *)
(***************************************************************************)
\* A set of natural numbers has a least one.
LEMMA LeastNatural ==
  ASSUME NEW T \in SUBSET Nat, T # {}
  PROVE  \E m \in T : \A n \in T : m <= n
<1>1. IsWellFoundedOn(OpToRel(<, Nat), Nat)
  BY NatLessThanWellFounded
<1>2. PICK m \in T : \A n \in T : ~(<<n, m>> \in OpToRel(<, Nat))
  BY <1>1, WFMin
<1>3. \A n \in T : ~(n < m)
  BY <1>2 DEF OpToRel
<1> QED
  BY <1>3

LEMMA SetInduction ==
  ASSUME NEW T, 0 \in T, \A n \in Nat : n \in T => n + 1 \in T
  PROVE  \A n \in Nat : n \in T
<1> DEFINE Rest == Nat \ T
<1> SUFFICES ASSUME Rest # {} PROVE FALSE
  OBVIOUS
<1>1. PICK m \in Rest : \A n \in Rest : m <= n
  <2>1. Rest \in SUBSET Nat
    OBVIOUS
  <2> HIDE DEF Rest
  <2> QED
    BY <2>1, LeastNatural
<1>2. m # 0 /\ m - 1 \in Nat
  OBVIOUS
<1>3. m - 1 \in T
  BY <1>1, <1>2
<1> QED
  BY <1>2, <1>3

\* The n-th step takes f[n - 1] to g of n and that.
Iterates(f, x, g, L) == f[0] = x /\ \A n \in 1 .. L : f[n] = g[<<n, f[n - 1]>>]

LEMMA IterationExists ==
  ASSUME NEW X, NEW x \in X, NEW L \in Nat, NEW g \in [(1 .. L) \X X -> X]
  PROVE  \E f \in [0 .. L -> X] : Iterates(f, x, g, L)
<1> DEFINE T == {n \in Nat : n <= L => \E f \in [0 .. n -> X] : Iterates(f, x, g, n)}
<1>1. 0 \in T
  <2>1. /\ [i \in 0 .. 0 |-> x] \in [0 .. 0 -> X]
        /\ Iterates([i \in 0 .. 0 |-> x], x, g, 0)
    BY DEF Iterates
  <2> QED
    BY <2>1
<1>2. ASSUME NEW n \in Nat, n \in T PROVE n + 1 \in T
  <2> SUFFICES ASSUME n + 1 <= L
               PROVE  \E f \in [0 .. n + 1 -> X] : Iterates(f, x, g, n + 1)
    OBVIOUS
  <2>1. PICK f \in [0 .. n -> X] : Iterates(f, x, g, n)
    BY <1>2
  <2> DEFINE e == [i \in 0 .. n + 1 |-> IF i = n + 1 THEN g[<<n + 1, f[n]>>] ELSE f[i]]
  <2>2. e \in [0 .. n + 1 -> X]
    <3>1. g[<<n + 1, f[n]>>] \in X
      OBVIOUS
    <3> QED
      BY <3>1
  <2>3. e[n + 1] = g[<<n + 1, f[n]>>] /\ \A i \in 0 .. n : e[i] = f[i]
    OBVIOUS
  <2> HIDE DEF e
  <2>4. e[0] = x
    BY <2>1, <2>3 DEF Iterates
  <2>5. ASSUME NEW i \in 1 .. n + 1 PROVE e[i] = g[<<i, e[i - 1]>>]
    <3>1. CASE i = n + 1
      <4>1. i - 1 = n /\ e[n] = f[n]
        BY <2>3, <3>1
      <4> QED
        BY <2>3, <3>1, <4>1
    <3>2. CASE i # n + 1
      <4>1. i \in 1 .. n /\ e[i] = f[i] /\ e[i - 1] = f[i - 1]
        BY <2>3, <3>2
      <4>2. f[i] = g[<<i, f[i - 1]>>]
        BY <2>1, <4>1 DEF Iterates
      <4> QED
        BY <4>1, <4>2
    <3> QED
      BY <3>1, <3>2
  <2>6. Iterates(e, x, g, n + 1)
    BY <2>4, <2>5, Zenon DEF Iterates
  <2> QED
    BY <2>2, <2>6
<1>3. L \in T
  <2> HIDE DEF T
  <2> QED
    BY <1>1, <1>2, SetInduction
<1> QED
  BY <1>3

-----------------------------------------------------------------------------
(***************************************************************************)
(* Induction over sequences, and two loops that do the same.               *)
(***************************************************************************)
LEMMA SequenceInduction ==
  ASSUME NEW S, NEW T, <<>> \in T, \A s \in Seq(S), c \in S : s \in T => Append(s, c) \in T
  PROVE  \A s \in Seq(S) : s \in T
<1> DEFINE N == {n \in Nat : \A s \in Seq(S) : Len(s) = n => s \in T}
<1>1. 0 \in N
  BY EmptySeq
<1>2. ASSUME NEW n \in Nat, n \in N PROVE n + 1 \in N
  <2> SUFFICES ASSUME NEW s \in Seq(S), Len(s) = n + 1 PROVE s \in T
    OBVIOUS
  <2>1. s # <<>>
    BY EmptySeq
  <2>2. PICK t \in Seq(S), c \in S : s = Append(t, c)
    BY <2>1, SequenceEmptyOrAppend
  <2>3. Len(t) = n
    BY <2>2, AppendProperties, LenProperties
  <2> QED
    BY <1>2, <2>2, <2>3
<1> HIDE DEF N
<1>3. \A n \in Nat : n \in N
  BY <1>1, <1>2, SetInduction
<1> QED
  BY <1>3, LenProperties DEF N

LEMMA SameLoop ==
  \A N \in Nat : \A f, h :
    f[0] = h[0] /\ (\A n \in 1 .. N : f[n - 1] = h[n - 1] => f[n] = h[n])
      => \A n \in 0 .. N : f[n] = h[n]
<1> SUFFICES ASSUME NEW N \in Nat, NEW f, NEW h, f[0] = h[0],
                    \A n \in 1 .. N : f[n - 1] = h[n - 1] => f[n] = h[n]
             PROVE  \A n \in 0 .. N : f[n] = h[n]
  OBVIOUS
<1> DEFINE T == {n \in Nat : n <= N => f[n] = h[n]}
<1>1. 0 \in T
  OBVIOUS
<1>2. ASSUME NEW n \in Nat, n \in T PROVE n + 1 \in T
  <2> SUFFICES ASSUME n + 1 <= N PROVE f[n + 1] = h[n + 1]
    OBVIOUS
  <2>1. n + 1 \in 1 .. N /\ (n + 1) - 1 = n /\ f[n] = h[n]
    BY <1>2
  <2> QED
    BY <2>1
<1> HIDE DEF T
<1>3. \A n \in Nat : n \in T
  BY <1>1, <1>2, SetInduction
<1> QED
  BY <1>3 DEF T

-----------------------------------------------------------------------------
(***************************************************************************)
(* Where the names of a path lead.                                         *)
(***************************************************************************)
Turn(E, i, name) ==
  LET next == IF i = -1 THEN 0 ELSE Find(E, i, name)
  IN  IF next = 0 THEN -1 ELSE next

LEMMA TurnIn ==
  ASSUME NEW E, NEW i, NEW name
  PROVE  Turn(E, i, name) \in {-1} \cup {e.File : e \in E}
<1>1. CASE i # -1 /\ \E e \in E : e.Dir = i /\ e.Name = name
  <2>1. (CHOOSE e \in E : e.Dir = i /\ e.Name = name) \in E
    BY <1>1
  <2> QED
    BY <1>1, <2>1 DEF Turn, Find
<1>2. CASE ~(i # -1 /\ \E e \in E : e.Dir = i /\ e.Name = name)
  BY <1>2 DEF Turn, Find
<1> QED
  BY <1>1, <1>2

IsWalk(E, i, names, f) ==
  /\ f[0] = i
  /\ \A n \in 1 .. Len(names) : f[n] = Turn(E, f[n - 1], names[n])

LEMMA WalkIs ==
  ASSUME NEW E, NEW i, NEW S, NEW names \in Seq(S)
  PROVE  \E f : IsWalk(E, i, names, f) /\ Walk(E, i, names) = f[Len(names)]
<1> DEFINE L == Len(names)
           X == {i} \cup {-1} \cup {e.File : e \in E}
           step == [a \in (1 .. L) \X X |-> Turn(E, a[2], names[a[1]])]
           IsReached(f) == f = [n \in 0 .. L |-> IF n = 0 THEN i ELSE Turn(E, f[n - 1], names[n])]
           Way == CHOOSE f : IsReached(f)
<1>1. L \in Nat
  BY LenProperties
<1>2. Walk(E, i, names) = Way[L]
  BY Zenon DEF Walk, Turn
<1>3. \A j, name : Turn(E, j, name) \in X
  BY TurnIn
<1>4. i \in X
  OBVIOUS
<1> HIDE DEF L, X
<1>5. step \in [(1 .. L) \X X -> X]
  BY <1>3
<1>6. \A n \in 1 .. L, j \in X : step[<<n, j>>] = Turn(E, j, names[n])
  OBVIOUS
<1> HIDE DEF step
<1>7. PICK f \in [0 .. L -> X] : Iterates(f, i, step, L)
  BY <1>1, <1>4, <1>5, IterationExists
<1>8. f[0] = i /\ \A n \in 1 .. L : f[n] = Turn(E, f[n - 1], names[n])
  <2>1. f[0] = i /\ \A n \in 1 .. L : f[n] = step[<<n, f[n - 1]>>]
    BY <1>7 DEF Iterates
  <2>2. \A n \in 1 .. L : f[n - 1] \in X
    BY <1>1
  <2> QED
    BY <1>6, <2>1, <2>2
<1>9. IsReached(f)
  <2>1. \A n \in 0 .. L : f[n] = IF n = 0 THEN i ELSE Turn(E, f[n - 1], names[n])
    BY <1>1, <1>8
  <2> QED
    BY <2>1
<1> HIDE DEF IsReached
<1>10. IsReached(Way)
  BY <1>9, Zenon
<1> HIDE DEF Way
<1>11. Way[0] = i /\ \A n \in 1 .. L : Way[n] = Turn(E, Way[n - 1], names[n])
  BY <1>1, <1>10 DEF IsReached
<1> QED
  BY <1>2, <1>11 DEF IsWalk, L

LEMMA WalkEmpty ==
  ASSUME NEW E, NEW i
  PROVE  Walk(E, i, <<>>) = i
<1>1. <<>> \in Seq({})
  BY EmptySeq
<1>2. PICK f : IsWalk(E, i, <<>>, f) /\ Walk(E, i, <<>>) = f[Len(<<>>)]
  BY <1>1, WalkIs
<1> QED
  BY <1>2 DEF IsWalk

LEMMA WalkAppend ==
  ASSUME NEW E, NEW i, NEW S, NEW names \in Seq(S), NEW name \in S
  PROVE  Walk(E, i, Append(names, name)) = Turn(E, Walk(E, i, names), name)
<1> DEFINE more == Append(names, name)
           L == Len(names)
<1>1. /\ more \in Seq(S) /\ Len(more) = L + 1 /\ L \in Nat
      /\ (\A n \in 1 .. L : more[n] = names[n]) /\ more[L + 1] = name
  BY AppendProperties, LenProperties
<1>2. PICK f : IsWalk(E, i, names, f) /\ Walk(E, i, names) = f[L]
  BY WalkIs
<1>3. PICK h : IsWalk(E, i, more, h) /\ Walk(E, i, more) = h[Len(more)]
  BY <1>1, WalkIs
<1> HIDE DEF more
<1>4. f[0] = h[0] /\ \A n \in 1 .. L : f[n - 1] = h[n - 1] => f[n] = h[n]
  <2>1. \A n \in 1 .. L : n \in 1 .. Len(more) /\ n \in 1 .. Len(names)
    BY <1>1
  <2> QED
    BY <1>1, <1>2, <1>3, <2>1 DEF IsWalk
<1>5. \A n \in 0 .. L : f[n] = h[n]
  <2>1. L \in Nat
    BY <1>1
  <2> HIDE DEF L
  <2> QED
    BY <1>4, <2>1, SameLoop, ZenonT(40)
<1>6. h[L + 1] = Turn(E, h[L], name)
  <2>1. L + 1 \in 1 .. Len(more) /\ (L + 1) - 1 = L
    BY <1>1
  <2> QED
    BY <1>1, <1>3, <2>1 DEF IsWalk
<1> QED
  BY <1>1, <1>2, <1>3, <1>5, <1>6 DEF more

\* The names of two paths one after the other.
LEMMA WalkOn ==
  ASSUME NEW E, NEW i, NEW S, NEW a \in Seq(S), NEW b \in Seq(S)
  PROVE  Walk(E, i, a \o b) = Walk(E, Walk(E, i, a), b)
<1> DEFINE T == {t \in Seq(S) : Walk(E, i, a \o t) = Walk(E, Walk(E, i, a), t)}
<1>1. <<>> \in T
  BY EmptySeq, ConcatEmptySeq, WalkEmpty
<1>2. ASSUME NEW t \in Seq(S), NEW c \in S, t \in T PROVE Append(t, c) \in T
  <2>1. a \o Append(t, c) = Append(a \o t, c)
    <3>1. Append(t, c) = t \o <<c>> /\ Append(a \o t, c) = (a \o t) \o <<c>>
      BY AppendIsConcat, ConcatProperties
    <3>2. <<c>> \in Seq(S)
      OBVIOUS
    <3> QED
      BY <3>1, <3>2, ConcatAssociative
  <2>2. a \o t \in Seq(S) /\ Append(t, c) \in Seq(S)
    BY ConcatProperties, AppendProperties
  <2>3. Walk(E, i, Append(a \o t, c)) = Turn(E, Walk(E, i, a \o t), c)
    <3>1. \A names \in Seq(S) : Walk(E, i, Append(names, c)) = Turn(E, Walk(E, i, names), c)
      BY WalkAppend
    <3> QED
      BY <2>2, <3>1, Zenon
  <2>4. Walk(E, Walk(E, i, a), Append(t, c)) = Turn(E, Walk(E, Walk(E, i, a), t), c)
    BY WalkAppend
  <2> QED
    BY <1>2, <2>1, <2>2, <2>3, <2>4
<1> HIDE DEF T
<1>3. b \in T
  BY <1>1, <1>2, SequenceInduction
<1> QED
  BY <1>3 DEF T
-----------------------------------------------------------------------------
(***************************************************************************)
(* The names in a path.                                                    *)
(***************************************************************************)
\* What a path is made of.
Chars == STRING \cup {"/", "."}

Readings == [names : Seq(Seq(Chars)), name : Seq(Chars)]

ReadChar(r, c) ==
  IF c = "/" THEN [names |-> Append(r.names, r.name), name |-> <<>>]
  ELSE [r EXCEPT !.name = Append(@, c)]

Start == [names |-> <<>>, name |-> <<>>]

LEMMA StartIs == Start \in Readings
<1>1. <<>> \in Seq(Chars) /\ <<>> \in Seq(Seq(Chars))
  BY EmptySeq
<1> QED
  BY <1>1 DEF Start, Readings

LEMMA ReadCharIs ==
  ASSUME NEW r \in Readings, NEW c \in Chars
  PROVE  ReadChar(r, c) \in Readings
<1>1. /\ Append(r.names, r.name) \in Seq(Seq(Chars)) /\ <<>> \in Seq(Chars)
      /\ Append(r.name, c) \in Seq(Chars)
  BY EmptySeq, AppendProperties DEF Readings
<1> QED
  BY <1>1 DEF ReadChar, Readings

IsRead(s, f) ==
  /\ f[0] = Start
  /\ \A n \in 1 .. Len(s) : f[n] = ReadChar(f[n - 1], s[n])

LEMMA ReadIs ==
  ASSUME NEW s \in Seq(Chars)
  PROVE  \E f \in [0 .. Len(s) -> Readings] : IsRead(s, f) /\ Read(s) = f[Len(s)]
<1> DEFINE L == Len(s)
           step == [a \in (1 .. L) \X Readings |-> ReadChar(a[2], s[a[1]])]
           Reads(f) == f = [n \in 0 .. L |-> IF n = 0 THEN Start ELSE ReadChar(f[n - 1], s[n])]
           Way == CHOOSE f : Reads(f)
<1>1. L \in Nat /\ \A n \in 1 .. L : s[n] \in Chars
  BY LenProperties
<1>2. Read(s) = Way[L]
  BY Zenon DEF Read, ReadChar, Start
<1> HIDE DEF L
<1>3. step \in [(1 .. L) \X Readings -> Readings]
  BY <1>1, ReadCharIs
<1>4. \A n \in 1 .. L, r \in Readings : step[<<n, r>>] = ReadChar(r, s[n])
  OBVIOUS
<1> HIDE DEF step
<1>5. PICK f \in [0 .. L -> Readings] : Iterates(f, Start, step, L)
  BY <1>1, <1>3, StartIs, IterationExists
<1>6. f[0] = Start /\ \A n \in 1 .. L : f[n] = ReadChar(f[n - 1], s[n])
  <2>1. f[0] = Start /\ \A n \in 1 .. L : f[n] = step[<<n, f[n - 1]>>]
    BY <1>5 DEF Iterates
  <2>2. \A n \in 1 .. L : f[n - 1] \in Readings
    BY <1>1
  <2> QED
    BY <1>4, <2>1, <2>2
<1>7. Reads(f)
  <2>1. \A n \in 0 .. L : f[n] = IF n = 0 THEN Start ELSE ReadChar(f[n - 1], s[n])
    BY <1>1, <1>6
  <2> QED
    BY <2>1
<1> HIDE DEF Reads
<1>8. Reads(Way)
  BY <1>7, Zenon
<1> HIDE DEF Way
<1>9. Way[0] = Start /\ \A n \in 1 .. L : Way[n] = ReadChar(Way[n - 1], s[n])
  BY <1>1, <1>8 DEF Reads
<1>10. \A n \in 0 .. L : f[n] = Way[n]
  <2>1. L \in Nat /\ f[0] = Way[0] /\ \A n \in 1 .. L : f[n - 1] = Way[n - 1] => f[n] = Way[n]
    BY <1>1, <1>6, <1>9
  <2>2. \A h, k : h[0] = k[0] /\ (\A n \in 1 .. L : h[n - 1] = k[n - 1] => h[n] = k[n])
                  => \A n \in 0 .. L : h[n] = k[n]
    BY <2>1, SameLoop
  <2> QED
    BY <2>1, <2>2, Zenon
<1>11. IsRead(s, f)
  BY <1>6 DEF IsRead, L
<1> QED
  BY <1>1, <1>2, <1>10, <1>11 DEF L

LEMMA ReadEmpty == Read(<<>>) = Start
<1>1. <<>> \in Seq(Chars)
  BY EmptySeq
<1>2. PICK f : IsRead(<<>>, f) /\ Read(<<>>) = f[Len(<<>>)]
  BY <1>1, ReadIs
<1> QED
  BY <1>2 DEF IsRead

LEMMA ReadType ==
  ASSUME NEW s \in Seq(Chars)
  PROVE  Read(s) \in Readings
<1>1. PICK f \in [0 .. Len(s) -> Readings] : Read(s) = f[Len(s)]
  BY ReadIs
<1>2. Len(s) \in 0 .. Len(s)
  BY LenProperties
<1> QED
  BY <1>1, <1>2

LEMMA ReadAppend ==
  ASSUME NEW s \in Seq(Chars), NEW c \in Chars
  PROVE  Read(Append(s, c)) = ReadChar(Read(s), c)
<1> DEFINE more == Append(s, c)
           L == Len(s)
<1>1. /\ more \in Seq(Chars) /\ Len(more) = L + 1 /\ L \in Nat
      /\ (\A n \in 1 .. L : more[n] = s[n]) /\ more[L + 1] = c
  BY AppendProperties, LenProperties
<1>2. PICK f : IsRead(s, f) /\ Read(s) = f[L]
  BY ReadIs
<1>3. PICK h : IsRead(more, h) /\ Read(more) = h[Len(more)]
  BY <1>1, ReadIs
<1> HIDE DEF more
<1>4. f[0] = h[0] /\ \A n \in 1 .. L : f[n - 1] = h[n - 1] => f[n] = h[n]
  <2>1. \A n \in 1 .. L : n \in 1 .. Len(more) /\ n \in 1 .. Len(s)
    BY <1>1
  <2> QED
    BY <1>1, <1>2, <1>3, <2>1 DEF IsRead
<1>5. \A n \in 0 .. L : f[n] = h[n]
  <2>1. L \in Nat
    BY <1>1
  <2> HIDE DEF L
  <2> QED
    BY <1>4, <2>1, SameLoop, ZenonT(40)
<1>6. h[L + 1] = ReadChar(h[L], c)
  <2>1. L + 1 \in 1 .. Len(more) /\ (L + 1) - 1 = L
    BY <1>1
  <2> QED
    BY <1>1, <1>3, <2>1 DEF IsRead
<1> QED
  BY <1>1, <1>2, <1>3, <1>5, <1>6 DEF more

LEMMA NamesType ==
  ASSUME NEW s \in Seq(Chars)
  PROVE  NamesOf(s) \in Seq(Seq(Chars))
<1>1. Read(s) \in Readings
  BY ReadType
<1> QED
  BY <1>1, AppendProperties DEF Readings, NamesOf

\* A path that is empty or ends in a slash leaves nothing to be read on.
LEMMA NothingLeft ==
  ASSUME NEW s \in Seq(Chars)
  PROVE  Read(s).name = <<>> <=> s = <<>> \/ EndsInSlash(s)
<1>1. CASE s = <<>>
  BY <1>1, ReadEmpty DEF Start
<1>2. CASE s # <<>>
  <2>1. PICK t \in Seq(Chars), c \in Chars : s = Append(t, c)
    BY <1>2, SequenceEmptyOrAppend
  <2>2. Read(s) = ReadChar(Read(t), c) /\ Read(t) \in Readings
    BY <2>1, ReadAppend, ReadType
  <2>3. s[Len(s)] = c
    BY <2>1, AppendProperties
  <2>4. Append(Read(t).name, c) # <<>>
    BY <2>2, AppendProperties DEF Readings
  <2> QED
    BY <1>2, <2>2, <2>3, <2>4 DEF ReadChar, EndsInSlash, Readings
<1> QED
  BY <1>1, <1>2

LEMMA Together ==
  \A x, y, z \in Seq(Seq(Chars)) : (x \o y) \o z = x \o (y \o z)
<1> DEFINE S == Seq(Chars)
<1> SUFFICES \A x, y, z \in Seq(S) : (x \o y) \o z = x \o (y \o z)
  OBVIOUS
<1> HIDE DEF S
<1> QED
  BY ConcatAssociative

\* After such a path reading begins again.
LEMMA ReadOn ==
  ASSUME NEW s \in Seq(Chars), Read(s).name = <<>>, NEW t \in Seq(Chars)
  PROVE  Read(s \o t) = [names |-> Read(s).names \o Read(t).names, name |-> Read(t).name]
<1> DEFINE Both(u) == [names |-> Read(s).names \o Read(u).names, name |-> Read(u).name]
           T == {u \in Seq(Chars) : Read(s \o u) = Both(u)}
<1>0. Read(s) \in Readings /\ Read(s).names \in Seq(Seq(Chars))
  BY ReadType DEF Readings
<1>1. <<>> \in T
  <2>1. s \o <<>> = s /\ <<>> \in Seq(Chars)
    BY EmptySeq, ConcatEmptySeq
  <2>2. Read(s).names \o <<>> = Read(s).names
    BY <1>0, ConcatEmptySeq
  <2>3. Read(s) = [names |-> Read(s).names, name |-> Read(s).name]
    BY <1>0 DEF Readings
  <2>4. Read(<<>>).names = <<>> /\ Read(<<>>).name = <<>>
    BY ReadEmpty DEF Start
  <2>5. Both(<<>>) = [names |-> Read(s).names, name |-> Read(s).name]
    BY <2>2, <2>4
  <2>6. Read(s \o <<>>) = Both(<<>>)
    BY <2>1, <2>3, <2>5
  <2> QED
    BY <2>1, <2>6
<1>2. ASSUME NEW u \in Seq(Chars), NEW c \in Chars, u \in T PROVE Append(u, c) \in T
  <2>1. s \o Append(u, c) = Append(s \o u, c)
    <3>1. Append(u, c) = u \o <<c>> /\ Append(s \o u, c) = (s \o u) \o <<c>>
      BY AppendIsConcat, ConcatProperties
    <3>2. <<c>> \in Seq(Chars)
      OBVIOUS
    <3> QED
      BY <3>1, <3>2, ConcatAssociative
  <2>2. s \o u \in Seq(Chars) /\ Append(u, c) \in Seq(Chars)
    BY ConcatProperties, AppendProperties
  <2>3. Read(s \o Append(u, c)) = ReadChar(Both(u), c)
    <3>1. \A w \in Seq(Chars) : Read(Append(w, c)) = ReadChar(Read(w), c)
      BY ReadAppend
    <3>2. Read(s \o u) = Both(u)
      BY <1>2
    <3> HIDE DEF Both
    <3> QED
      BY <2>1, <2>2, <3>1, <3>2, Zenon
  <2>4. Read(Append(u, c)) = ReadChar(Read(u), c) /\ Read(u) \in Readings
    BY ReadAppend, ReadType
  <2>5. Append(Read(s).names \o Read(u).names, Read(u).name)
          = Read(s).names \o Append(Read(u).names, Read(u).name)
    <3> DEFINE a == Read(s).names
               b == Read(u).names
               d == Read(u).name
    <3>1. a \in Seq(Seq(Chars)) /\ b \in Seq(Seq(Chars)) /\ d \in Seq(Chars)
      BY <1>0, <2>4 DEF Readings
    <3> HIDE DEF a, b, d
    <3>2. a \o b \in Seq(Seq(Chars)) /\ <<d>> \in Seq(Seq(Chars))
      BY <3>1, ConcatProperties
    <3>3. Append(b, d) = b \o <<d>> /\ Append(a \o b, d) = (a \o b) \o <<d>>
      BY <3>1, <3>2, AppendIsConcat
    <3>4. (a \o b) \o <<d>> = a \o (b \o <<d>>)
      BY <3>1, <3>2, Together, Zenon
    <3> QED
      BY <3>3, <3>4 DEF a, b, d
  <2>6. ReadChar(Both(u), c) = Both(Append(u, c))
    <3>1. CASE c = "/"
      <4>1. ReadChar(Read(u), c) = [names |-> Append(Read(u).names, Read(u).name), name |-> <<>>]
        BY <3>1 DEF ReadChar
      <4>2. ReadChar(Both(u), c)
              = [names |-> Append(Read(s).names \o Read(u).names, Read(u).name), name |-> <<>>]
        BY <3>1 DEF ReadChar
      <4> QED
        BY <2>4, <2>5, <4>1, <4>2
    <3>2. CASE c # "/"
      BY <2>4, <3>2 DEF ReadChar, Readings
    <3> QED
      BY <3>1, <3>2
  <2> QED
    BY <2>2, <2>3, <2>6
<1> HIDE DEF T
<1>3. t \in T
  BY <1>1, <1>2, SequenceInduction
<1> QED
  BY <1>3 DEF T

LEMMA NamesOn ==
  ASSUME NEW s \in Seq(Chars), s = <<>> \/ EndsInSlash(s), NEW t \in Seq(Chars)
  PROVE  NamesOf(s \o t) = NamesOf(s) \o NamesOf(t)
<1>1. /\ Read(s).name = <<>>
      /\ Read(s \o t) = [names |-> Read(s).names \o Read(t).names, name |-> Read(t).name]
  BY NothingLeft, ReadOn
<1> DEFINE a == Read(s).names
           b == Read(t).names
           d == Read(t).name
<1>2. a \in Seq(Seq(Chars)) /\ b \in Seq(Seq(Chars)) /\ d \in Seq(Chars)
  BY ReadType DEF Readings
<1>3. NamesOf(s) = a /\ NamesOf(t) = IF d = <<>> THEN b ELSE Append(b, d)
  BY <1>1 DEF NamesOf
<1>4. NamesOf(s \o t) = IF d = <<>> THEN a \o b ELSE Append(a \o b, d)
  BY <1>1 DEF NamesOf
<1> HIDE DEF a, b, d
<1>5. a \o b \in Seq(Seq(Chars)) /\ <<d>> \in Seq(Seq(Chars))
  BY <1>2, ConcatProperties
<1>6. Append(b, d) = b \o <<d>> /\ Append(a \o b, d) = (a \o b) \o <<d>>
  BY <1>2, <1>5, AppendIsConcat
<1>7. (a \o b) \o <<d>> = a \o (b \o <<d>>)
  BY <1>2, <1>5, Together, Zenon
<1> QED
  BY <1>3, <1>4, <1>6, <1>7

\* A slash behind a name changes nothing.
LEMMA SlashBehind ==
  ASSUME NEW s \in Seq(Chars)
  PROVE  /\ NamesOf(Append(s, "/")) = Append(Read(s).names, Read(s).name)
         /\ s # <<>> /\ ~EndsInSlash(s) => NamesOf(Append(s, "/")) = NamesOf(s)
<1>1. "/" \in Chars
  BY DEF Chars
<1>2. Read(Append(s, "/")) = ReadChar(Read(s), "/")
  BY <1>1, ReadAppend
<1> DEFINE t == Append(s, "/")
<1>3. Read(t).names = Append(Read(s).names, Read(s).name) /\ Read(t).name = <<>>
  BY <1>2 DEF ReadChar
<1> HIDE DEF t
<1>4. NamesOf(t) = Append(Read(s).names, Read(s).name)
  BY <1>3 DEF NamesOf
<1>5. s # <<>> /\ ~EndsInSlash(s) => NamesOf(s) = Append(Read(s).names, Read(s).name)
  BY NothingLeft DEF NamesOf
<1> QED
  BY <1>4, <1>5 DEF t

\* A path without a slash is one name.
LEMMA OneName ==
  ASSUME NEW s \in Seq(Chars), s # <<>>, \A k \in 1 .. Len(s) : s[k] # "/"
  PROVE  NamesOf(s) = <<s>>
<1> DEFINE T == {t \in Seq(Chars) :
                   (\A k \in 1 .. Len(t) : t[k] # "/") => Read(t) = [names |-> <<>>, name |-> t]}
<1>1. <<>> \in T
  BY EmptySeq, ReadEmpty DEF Start
<1>2. ASSUME NEW t \in Seq(Chars), NEW c \in Chars, t \in T PROVE Append(t, c) \in T
  <2>1. /\ Append(t, c) \in Seq(Chars) /\ Len(Append(t, c)) = Len(t) + 1 /\ Len(t) \in Nat
        /\ (\A n \in 1 .. Len(t) : Append(t, c)[n] = t[n]) /\ Append(t, c)[Len(t) + 1] = c
    BY AppendProperties, LenProperties
  <2> SUFFICES ASSUME \A k \in 1 .. Len(Append(t, c)) : Append(t, c)[k] # "/"
               PROVE  Read(Append(t, c)) = [names |-> <<>>, name |-> Append(t, c)]
    BY <2>1
  <2>2. c # "/" /\ \A k \in 1 .. Len(t) : t[k] # "/"
    <3>1. Len(t) + 1 \in 1 .. Len(t) + 1
      BY <2>1
    <3>2. \A k \in 1 .. Len(t) : k \in 1 .. Len(t) + 1
      BY <2>1
    <3> QED
      BY <2>1, <3>1, <3>2
  <2>3. Read(t) = [names |-> <<>>, name |-> t]
    BY <1>2, <2>2
  <2>4. Read(Append(t, c)) = ReadChar(Read(t), c)
    BY ReadAppend
  <2>5. ReadChar([names |-> <<>>, name |-> t], c) = [names |-> <<>>, name |-> Append(t, c)]
    BY <2>2 DEF ReadChar
  <2> QED
    BY <2>3, <2>4, <2>5
<1> HIDE DEF T
<1>3. s \in T
  BY <1>1, <1>2, SequenceInduction
<1>4. Read(s) = [names |-> <<>>, name |-> s]
  BY <1>3 DEF T
<1> QED
  BY <1>4 DEF NamesOf
-----------------------------------------------------------------------------
(***************************************************************************)
(* Characters at the beginning, in the middle and at the end of a path.    *)
(***************************************************************************)
LEMMA Characters ==
  "/" \in Chars /\ "." \in Chars
  BY DEF Chars

LEMMA StartsWith ==
  ASSUME NEW s \in Seq(Chars), NEW t \in Seq(Chars)
  PROVE  StringStartWith(s, t) <=> Len(t) <= Len(s) /\ \A k \in 1 .. Len(t) : s[k] = t[k]
<1> DEFINE m == Len(t)
<1>1. m \in Nat /\ Len(s) \in Nat
  BY LenProperties
<1>2. StringStartWith(s, t) <=> m <= Len(s) /\ SubSeq(t, 1, m) = SubSeq(s, 1, m)
  BY DEF StringStartWith, IsPrefix
<1>3. SubSeq(t, 1, m) = t
  BY SubSeqFull
<1>4. m <= Len(s) =>
        /\ SubSeq(s, 1, m) \in Seq(Chars) /\ Len(SubSeq(s, 1, m)) = m
        /\ \A k \in 1 .. m : SubSeq(s, 1, m)[k] = s[k]
  <2> SUFFICES ASSUME m <= Len(s)
               PROVE  /\ SubSeq(s, 1, m) \in Seq(Chars) /\ Len(SubSeq(s, 1, m)) = m
                      /\ \A k \in 1 .. m : SubSeq(s, 1, m)[k] = s[k]
    OBVIOUS
  <2>1. \A k \in 1 .. m : s[k] \in Chars
    BY <1>1, LenProperties
  <2> HIDE DEF m
  <2> QED
    BY <1>1, <2>1, SubSeqProperties
<1>5. m <= Len(s) /\ (\A k \in 1 .. m : s[k] = t[k]) => t = SubSeq(s, 1, m)
  BY <1>4, SeqEqual
<1> QED
  BY <1>2, <1>3, <1>4, <1>5

LEMMA StartsWithSlash ==
  ASSUME NEW s \in Seq(Chars)
  PROVE  StringStartWith(s, <<"/">>) <=> s # <<>> /\ s[1] = "/"
<1>1. <<"/">> \in Seq(Chars) /\ Len(<<"/">>) = 1 /\ <<"/">>[1] = "/"
  BY Characters
<1>2. StringStartWith(s, <<"/">>) <=> 1 <= Len(s) /\ \A k \in 1 .. 1 : s[k] = <<"/">>[k]
  BY <1>1, StartsWith
<1>3. 1 <= Len(s) <=> s # <<>>
  BY EmptySeq
<1> QED
  BY <1>1, <1>2, <1>3

LEMMA StartsWithTwo ==
  ASSUME NEW s \in Seq(Chars), NEW a \in Chars, NEW b \in Chars
  PROVE  StringStartWith(s, <<a, b>>) <=> Len(s) >= 2 /\ s[1] = a /\ s[2] = b
<1> DEFINE t == <<a, b>>
<1>1. t \in Seq(Chars) /\ Len(t) = 2 /\ t[1] = a /\ t[2] = b
  OBVIOUS
<1> HIDE DEF t
<1>2. StringStartWith(s, t) <=> 2 <= Len(s) /\ \A k \in 1 .. 2 : s[k] = t[k]
  BY <1>1, StartsWith
<1>3. Len(s) \in Nat
  BY LenProperties
<1>4. (\A k \in 1 .. 2 : s[k] = t[k]) <=> s[1] = t[1] /\ s[2] = t[2]
  OBVIOUS
<1> QED
  BY <1>1, <1>2, <1>3, <1>4 DEF t

LEMMA SuffixIs ==
  ASSUME NEW s \in Seq(Chars), NEW k \in Nat \ {0}
  PROVE  /\ Suffix(s, k) \in Seq(Chars)
         /\ Len(Suffix(s, k)) = IF k <= Len(s) THEN Len(s) - k + 1 ELSE 0
         /\ \A n \in 1 .. Len(s) - k + 1 : Suffix(s, k)[n] = s[n + k - 1]
<1> DEFINE L == Len(s)
<1>1. L \in Nat /\ \A n \in 1 .. L : s[n] \in Chars
  BY LenProperties
<1> HIDE DEF L
<1>2. \A n \in k .. L : s[n] \in Chars
  BY <1>1
<1>3. /\ SubSeq(s, k, L) \in Seq(Chars)
      /\ Len(SubSeq(s, k, L)) = IF k <= L THEN L - k + 1 ELSE 0
      /\ \A n \in 1 .. L - k + 1 : SubSeq(s, k, L)[n] = s[k + n - 1]
  BY <1>1, <1>2, SubSeqProperties
<1> QED
  BY <1>1, <1>3 DEF Suffix, L

LEMMA SuffixWhole ==
  ASSUME NEW s \in Seq(Chars)
  PROVE  Suffix(s, 1) = s
  BY SubSeqFull DEF Suffix

\* ./ in front of a path.
LEMMA WithoutDotIs ==
  ASSUME NEW s \in Seq(Chars)
  PROVE  /\ WithoutDot(s) \in Seq(Chars)
         /\ WithoutDot(s) = s \/ s = <<".", "/">> \o WithoutDot(s)
<1>1. CASE ~StringStartWith(s, <<".", "/">>)
  BY <1>1 DEF WithoutDot
<1>2. CASE StringStartWith(s, <<".", "/">>)
  <2> DEFINE t == <<".", "/">>
  <2>1. Len(s) >= 2 /\ Len(s) \in Nat
    BY <1>2, Characters, StartsWithTwo, LenProperties
  <2>2. t \in Seq(Chars) /\ Len(t) = 2
    BY Characters
  <2> HIDE DEF t
  <2>3. SubSeq(t, 1, 2) = t
    BY <2>2, SubSeqFull
  <2>4. SubSeq(t, 1, 2) = SubSeq(s, 1, 2)
    BY <1>2, <2>2 DEF StringStartWith, IsPrefix, t
  <2>5. SubSeq(s, 1, 2) \o SubSeq(s, 3, Len(s)) = SubSeq(s, 1, Len(s))
    <3> DEFINE L == Len(s)
    <3>1. 1 \in 1 .. L + 1 /\ 2 \in 1 - 1 .. L /\ L \in 2 .. L /\ 2 + 1 = 3
      BY <2>1
    <3> HIDE DEF L
    <3>2. SubSeq(s, 1, 2) \o SubSeq(s, 2 + 1, L) = SubSeq(s, 1, L)
      <4>1. \A m \in 1 .. Len(s) + 1 : \A k \in m - 1 .. Len(s) : \A n \in k .. Len(s) :
              SubSeq(s, m, k) \o SubSeq(s, k + 1, n) = SubSeq(s, m, n)
        BY ConcatAdjacentSubSeq
      <4> QED
        BY <3>1, <4>1 DEF L
    <3> QED
      BY <3>1, <3>2 DEF L
  <2>6. SubSeq(s, 1, Len(s)) = s
    BY SubSeqFull
  <2>7. WithoutDot(s) = SubSeq(s, 3, Len(s))
    BY <1>2 DEF WithoutDot, Suffix
  <2>8. Suffix(s, 3) \in Seq(Chars)
    BY SuffixIs
  <2> QED
    BY <2>3, <2>4, <2>5, <2>6, <2>7, <2>8 DEF t, Suffix
<1> QED
  BY <1>1, <1>2

LEMMA NoneCounted ==
  ASSUME NEW s \in Seq(Chars), NEW ch
  PROVE  CharCount(s, ch) = 0 <=> \A k \in 1 .. Len(s) : s[k] # ch
<1> DEFINE places == {k \in DOMAIN s : s[k] = ch}
<1>1. DOMAIN s = 1 .. Len(s) /\ Len(s) \in Nat
  BY LenProperties
<1>2. IsFiniteSet(1 .. Len(s)) /\ places \subseteq 1 .. Len(s)
  BY <1>1, FS_Interval
<1>3. IsFiniteSet(places)
  BY <1>2, FS_Subset
<1>4. Cardinality(places) = 0 <=> places = {}
  BY <1>3, FS_EmptySet
<1> QED
  BY <1>1, <1>4 DEF CharCount

-----------------------------------------------------------------------------
(***************************************************************************)
(* Paths from the root, and what cd puts together.                         *)
(***************************************************************************)
RootPath(p) == p \in Seq(Chars) /\ p # <<>> /\ p[1] = "/"

\* As cd leaves them: no slash at the end.
Trim(p) == RootPath(p) /\ (Len(p) > 1 => ~EndsInSlash(p))

RootWalk(E, p) == Walk(E, 0, NamesOf(Tail(p)))

Named(E) == \A e \in E : e.Name # <<>>

LEMMA TailIs ==
  ASSUME NEW p, RootPath(p)
  PROVE  /\ Tail(p) \in Seq(Chars) /\ Len(p) \in Nat \ {0} /\ Len(Tail(p)) = Len(p) - 1
         /\ \A k \in 1 .. Len(p) - 1 : Tail(p)[k] = p[k + 1]
         /\ Len(p) > 1 => (EndsInSlash(Tail(p)) <=> EndsInSlash(p)) /\ Tail(p) # <<>>
         /\ Len(p) = 1 => Tail(p) = <<>> /\ p = <<"/">>
<1>1. p \in Seq(Chars) /\ p # <<>> /\ p[1] = "/"
  BY DEF RootPath
<1>2. Len(p) \in Nat \ {0}
  BY <1>1, EmptySeq
<1>3. /\ Tail(p) \in Seq(Chars) /\ Len(Tail(p)) = Len(p) - 1
      /\ \A k \in 1 .. Len(p) - 1 : Tail(p)[k] = p[k + 1]
  BY <1>1, HeadTailProperties
<1>4. ASSUME Len(p) > 1 PROVE (EndsInSlash(Tail(p)) <=> EndsInSlash(p)) /\ Tail(p) # <<>>
  <2>1. Tail(p) # <<>>
    <3>1. Len(Tail(p)) # 0
      <4>1. \A n \in Nat : n > 1 => n - 1 # 0
        OBVIOUS
      <4>2. Len(p) \in Nat /\ Len(p) > 1 /\ Len(Tail(p)) = Len(p) - 1
        BY <1>2, <1>3, <1>4
      <4> QED
        BY <4>1, <4>2, Zenon
    <3> QED
      BY <3>1, EmptySeq
  <2>2. Len(p) - 1 \in 1 .. Len(p) - 1 /\ (Len(p) - 1) + 1 = Len(p)
    BY <1>2, <1>4
  <2>3. Tail(p)[Len(Tail(p))] = p[Len(p)]
    BY <1>3, <2>2
  <2> QED
    BY <1>1, <2>1, <2>3 DEF EndsInSlash
<1>5. ASSUME Len(p) = 1 PROVE Tail(p) = <<>> /\ p = <<"/">>
  <2>1. Tail(p) = <<>>
    <3>1. Len(Tail(p)) = 0
      BY <1>3, <1>5
    <3> QED
      BY <1>3, <3>1, EmptySeq
  <2>2. <<"/">> \in Seq(Chars) /\ Len(<<"/">>) = 1 /\ <<"/">>[1] = "/"
    BY Characters
  <2>3. \A k \in 1 .. 1 : p[k] = <<"/">>[k]
    BY <1>1, <2>2
  <2>4. p = <<"/">>
    BY <1>1, <1>5, <2>2, <2>3, SeqEqual
  <2> QED
    BY <2>1, <2>4
<1> QED
  BY <1>2, <1>3, <1>4, <1>5

LEMMA TailOfJoined ==
  ASSUME NEW p, RootPath(p), NEW r \in Seq(Chars)
  PROVE  RootPath(p \o r) /\ Tail(p \o r) = Tail(p) \o r
<1>1. p \in Seq(Chars) /\ p # <<>> /\ p[1] = "/" /\ Len(p) \in Nat \ {0} /\ Len(r) \in Nat
  BY TailIs, LenProperties DEF RootPath
<1> DEFINE w == p \o r
           L == Len(p) + Len(r)
<1>2. /\ w \in Seq(Chars) /\ Len(w) = L
      /\ \A k \in 1 .. L : w[k] = IF k <= Len(p) THEN p[k] ELSE r[k - Len(p)]
  BY <1>1, ConcatProperties
<1>3. L \in Nat \ {0}
  BY <1>1
<1>4. RootPath(w)
  BY <1>1, <1>2, <1>3, EmptySeq DEF RootPath
<1>5. /\ Tail(w) \in Seq(Chars) /\ Len(Tail(w)) = L - 1
      /\ \A k \in 1 .. L - 1 : Tail(w)[k] = w[k + 1]
  BY <1>2, <1>4, TailIs
<1>6. /\ Tail(p) \in Seq(Chars) /\ Len(Tail(p)) = Len(p) - 1
      /\ \A k \in 1 .. Len(p) - 1 : Tail(p)[k] = p[k + 1]
  BY TailIs
<1> DEFINE v == Tail(p) \o r
<1>7. /\ v \in Seq(Chars) /\ Len(v) = L - 1
      /\ \A k \in 1 .. L - 1 : v[k] = IF k <= Len(p) - 1 THEN Tail(p)[k] ELSE r[k - (Len(p) - 1)]
  <2>1. /\ v \in Seq(Chars) /\ Len(v) = Len(Tail(p)) + Len(r)
        /\ \A k \in 1 .. Len(Tail(p)) + Len(r) :
             v[k] = IF k <= Len(Tail(p)) THEN Tail(p)[k] ELSE r[k - Len(Tail(p))]
    BY <1>6, ConcatProperties
  <2>2. Len(Tail(p)) + Len(r) = L - 1
    BY <1>1, <1>6
  <2> QED
    BY <1>6, <2>1, <2>2
<1> HIDE DEF w, v
<1>8. ASSUME NEW k \in 1 .. L - 1 PROVE Tail(w)[k] = v[k]
  <2>1. k + 1 \in 1 .. L /\ Tail(w)[k] = w[k + 1]
    BY <1>3, <1>5
  <2>2. CASE k <= Len(p) - 1
    <3>1. k \in 1 .. Len(p) - 1 /\ k + 1 <= Len(p)
      BY <1>1, <2>2
    <3> QED
      BY <1>2, <1>6, <1>7, <2>1, <3>1
  <2>3. CASE k > Len(p) - 1
    <3>1. ~(k <= Len(p) - 1) /\ ~(k + 1 <= Len(p)) /\ k - (Len(p) - 1) = (k + 1) - Len(p)
      BY <1>1, <2>3
    <3> QED
      BY <1>2, <1>7, <2>1, <3>1
  <2>4. k <= Len(p) - 1 \/ k > Len(p) - 1
    BY <1>1, <1>3
  <2> QED
    BY <2>2, <2>3, <2>4
<1>9. Tail(w) = v
  BY <1>5, <1>7, <1>8, SeqEqual
<1> QED
  BY <1>4, <1>9 DEF w, v

LEMMA RootWalkOfRoot ==
  ASSUME NEW E
  PROVE  RootPath(<<"/">>) /\ Trim(<<"/">>) /\ RootWalk(E, <<"/">>) = 0
<1>1. <<"/">> \in Seq(Chars) /\ Len(<<"/">>) = 1 /\ <<"/">>[1] = "/" /\ <<"/">> # <<>>
  BY Characters
<1>2. RootPath(<<"/">>) /\ Trim(<<"/">>)
  BY <1>1 DEF RootPath, Trim
<1>3. Tail(<<"/">>) = <<>>
  BY <1>1, <1>2, TailIs
<1>4. NamesOf(<<>>) = <<>>
  BY ReadEmpty DEF NamesOf, Start
<1> QED
  BY <1>2, <1>3, <1>4, WalkEmpty DEF RootWalk

LEMMA SlashAtEnd ==
  ASSUME NEW s \in Seq(Chars)
  PROVE  Append(s, "/") \in Seq(Chars) /\ EndsInSlash(Append(s, "/"))
  BY Characters, AppendProperties DEF EndsInSlash

Whole(p, r) == (IF Len(p) > 1 THEN WithSlash(p) ELSE p) \o r

\* A path behind another one: it leads on from where that leads.
LEMMA WalkJoined ==
  ASSUME NEW E, NEW p, Trim(p), NEW r \in Seq(Chars)
  PROVE  RootPath(Whole(p, r)) /\ RootWalk(E, Whole(p, r)) = Walk(E, RootWalk(E, p), NamesOf(r))
<1>1. RootPath(p) /\ p \in Seq(Chars) /\ Len(p) \in Nat \ {0}
  BY TailIs DEF Trim, RootPath
<1>2. CASE Len(p) = 1
  <2>1. p = <<"/">>
    BY <1>1, <1>2, TailIs
  <2>2. RootPath(p \o r) /\ Tail(p \o r) = Tail(p) \o r /\ Tail(p) = <<>>
    BY <1>1, <1>2, TailIs, TailOfJoined
  <2>3. Tail(p \o r) = r
    BY <2>2, ConcatEmptySeq
  <2>4. RootWalk(E, p) = 0
    BY <2>1, RootWalkOfRoot
  <2>5. Whole(p, r) = p \o r
    BY <1>2 DEF Whole
  <2> QED
    BY <2>2, <2>3, <2>4, <2>5 DEF RootWalk
<1>3. CASE Len(p) > 1
  <2> DEFINE q == Append(p, "/")
             t == Tail(p)
  <2>1. ~EndsInSlash(p) /\ WithSlash(p) = q
    BY <1>3 DEF Trim, WithSlash
  <2>2. q \in Seq(Chars) /\ EndsInSlash(q) /\ q # <<>> /\ q[1] = "/"
    <3>1. /\ q \in Seq(Chars) /\ q # <<>>
          /\ \A k \in 1 .. Len(p) : q[k] = p[k]
      BY <1>1, Characters, AppendProperties
    <3>2. 1 \in 1 .. Len(p) /\ p[1] = "/"
      BY <1>1 DEF RootPath
    <3> QED
      BY <1>1, <3>1, <3>2, SlashAtEnd
  <2>3. RootPath(q)
    BY <2>2 DEF RootPath
  <2>4. Tail(q) = Append(t, "/")
    BY <1>1, HeadTailAppend DEF RootPath
  <2>5. t \in Seq(Chars) /\ t # <<>> /\ ~EndsInSlash(t)
    BY <1>1, <1>3, <2>1, TailIs
  <2>6. NamesOf(Append(t, "/")) = NamesOf(t)
    BY <2>5, SlashBehind
  <2>7. NamesOf(Append(t, "/") \o r) = NamesOf(t) \o NamesOf(r)
    <3>1. Append(t, "/") \in Seq(Chars) /\ EndsInSlash(Append(t, "/"))
      BY <2>5, SlashAtEnd
    <3>2. NamesOf(Append(t, "/") \o r) = NamesOf(Append(t, "/")) \o NamesOf(r)
      BY <3>1, NamesOn
    <3> QED
      BY <2>6, <3>2
  <2>8. RootPath(q \o r) /\ Tail(q \o r) = Append(t, "/") \o r
    BY <2>3, <2>4, TailOfJoined
  <2>9. NamesOf(t) \in Seq(Seq(Chars)) /\ NamesOf(r) \in Seq(Seq(Chars))
    BY <2>5, NamesType
  <2>10. Walk(E, 0, NamesOf(t) \o NamesOf(r)) = Walk(E, Walk(E, 0, NamesOf(t)), NamesOf(r))
    BY <2>9, WalkOn
  <2> HIDE DEF q, t
  <2>11. RootWalk(E, q \o r) = Walk(E, Walk(E, 0, NamesOf(t)), NamesOf(r))
    BY <2>7, <2>8, <2>10 DEF RootWalk
  <2>12. Whole(p, r) = q \o r
    BY <1>3, <2>1 DEF Whole, q
  <2>13. RootWalk(E, p) = Walk(E, 0, NamesOf(t))
    BY DEF RootWalk, t
  <2> QED
    BY <2>8, <2>11, <2>12, <2>13
<1>4. Len(p) = 1 \/ Len(p) > 1
  <2>1. \A n \in Nat \ {0} : n = 1 \/ n > 1
    OBVIOUS
  <2> QED
    BY <1>1, <2>1, Zenon
<1> QED
  BY <1>2, <1>3, <1>4

\* The slash at the end of a path that leads somewhere.
LEMMA WalkTrimmed ==
  ASSUME NEW E, Named(E), NEW p, RootPath(p), RootWalk(E, p) # -1, Len(p) > 1, EndsInSlash(p)
  PROVE  Trim(Front(p)) /\ RootWalk(E, Front(p)) = RootWalk(E, p)
<1>1. PICK q \in Seq(Chars), c \in Chars : p = Append(q, c)
  BY SequenceEmptyOrAppend DEF RootPath
<1>2. /\ Len(p) = Len(q) + 1 /\ Len(q) \in Nat /\ p[Len(q) + 1] = c
      /\ \A k \in 1 .. Len(q) : p[k] = q[k]
  BY <1>1, AppendProperties, LenProperties
<1>3. c = "/" /\ Len(q) >= 1
  BY <1>2 DEF EndsInSlash
<1>4. q # <<>> /\ q[1] = "/"
  <2>1. 1 \in 1 .. Len(q)
    BY <1>2, <1>3
  <2> QED
    BY <1>2, <2>1, EmptySeq DEF RootPath
<1>5. RootPath(q)
  BY <1>4 DEF RootPath
<1>6. Front(p) = q
  <2>1. /\ SubSeq(p, 1, Len(q)) \in Seq(Chars) /\ Len(SubSeq(p, 1, Len(q))) = Len(q)
        /\ \A k \in 1 .. Len(q) : SubSeq(p, 1, Len(q))[k] = p[k]
    <3> DEFINE n == Len(q)
    <3>1. n \in Nat /\ n >= 1 /\ \A k \in 1 .. n : p[k] \in Chars
      BY <1>2, <1>3, LenProperties
    <3> HIDE DEF n
    <3>2. /\ SubSeq(p, 1, n) \in Seq(Chars) /\ Len(SubSeq(p, 1, n)) = n
          /\ \A k \in 1 .. n : SubSeq(p, 1, n)[k] = p[k]
      BY <3>1, SubSeqProperties
    <3> QED
      BY <3>2 DEF n
  <2>2. \A k \in 1 .. Len(q) : SubSeq(p, 1, Len(q))[k] = q[k]
    BY <1>2, <2>1
  <2>3. SubSeq(p, 1, Len(q)) = q
    BY <2>1, <2>2, SeqEqual
  <2>4. Len(p) - 1 = Len(q)
    BY <1>2
  <2> QED
    BY <2>3, <2>4 DEF Front
<1> DEFINE t == Tail(q)
<1>7. t \in Seq(Chars) /\ Read(t) \in Readings
  BY <1>5, TailIs, ReadType
<1>8. Tail(p) = Append(t, "/")
  BY <1>1, <1>3, <1>4, HeadTailAppend
<1>9. NamesOf(Tail(p)) = Append(Read(t).names, Read(t).name)
  BY <1>7, <1>8, SlashBehind
<1>10. Read(t).names \in Seq(Seq(Chars)) /\ Read(t).name \in Seq(Chars)
  BY <1>7 DEF Readings
<1>11. RootWalk(E, p) = Turn(E, Walk(E, 0, Read(t).names), Read(t).name)
  <2>1. \A a \in Seq(Seq(Chars)), x \in Seq(Chars) :
          Walk(E, 0, Append(a, x)) = Turn(E, Walk(E, 0, a), x)
    BY WalkAppend
  <2> HIDE DEF t
  <2> QED
    BY <1>9, <1>10, <2>1 DEF RootWalk
<1>12. Read(t).name # <<>>
  BY <1>11 DEF Turn, Find, Named
<1>13. t # <<>> /\ ~EndsInSlash(t)
  BY <1>7, <1>12, NothingLeft
<1>14. NamesOf(Tail(p)) = NamesOf(t)
  BY <1>7, <1>8, <1>13, SlashBehind
<1>15. Len(q) > 1 => ~EndsInSlash(q)
  BY <1>5, <1>13, TailIs
<1> QED
  BY <1>5, <1>6, <1>14, <1>15 DEF Trim, RootWalk
-----------------------------------------------------------------------------
(***************************************************************************)
(* The tree of names: no name twice in a directory, and nothing has the    *)
(* number of the root.  What a path led to it leads to afterwards, as long *)
(* as the names on the way stay.                                           *)
(***************************************************************************)
Unique(E) == \A e, f \in E : e.Dir = f.Dir /\ e.Name = f.Name => e = f

Sane(E, D, F) ==
  /\ E \subseteq [Dir : D, Name : Names, File : D \cup F]
  /\ D \cup F \subseteq Inodes /\ D \cap F = {} /\ 0 \in D
  /\ Unique(E) /\ \A e \in E : e.File # 0

LEMMA NamesAre ==
  /\ Names \subseteq Seq(Chars) /\ <<>> \notin Names
  /\ Inputs \subseteq Seq(Chars) /\ HeapBytes \subseteq Seq(Chars)
  /\ Inodes \subseteq Nat /\ -1 \notin Inodes
<1>1. Seq(STRING) \subseteq Seq(Chars)
  BY SeqMonotonic DEF Chars
<1> QED
  BY <1>1, PathsAssumption

LEMMA SaneNamed ==
  ASSUME NEW E, NEW D, NEW F, Sane(E, D, F)
  PROVE  Named(E) /\ \A e \in E : e.Dir \in D /\ e.File \in D \cup F /\ e.Name \in Names
  BY NamesAre DEF Sane, Named

LEMMA FindIs ==
  ASSUME NEW E, Unique(E), NEW e \in E
  PROVE  Find(E, e.Dir, e.Name) = e.File
<1>1. \E f \in E : f.Dir = e.Dir /\ f.Name = e.Name
  OBVIOUS
<1> DEFINE f == CHOOSE f \in E : f.Dir = e.Dir /\ f.Name = e.Name
<1>2. f \in E /\ f.Dir = e.Dir /\ f.Name = e.Name
  BY <1>1
<1> HIDE DEF f
<1>3. f = e
  BY <1>2 DEF Unique
<1>4. Find(E, e.Dir, e.Name) = f.File
  BY <1>1 DEF Find, f
<1> QED
  BY <1>3, <1>4

LEMMA Found ==
  ASSUME NEW E, NEW i, NEW name, Find(E, i, name) # 0
  PROVE  \E e \in E : e.Dir = i /\ e.Name = name /\ e.File = Find(E, i, name)
<1>1. \E e \in E : e.Dir = i /\ e.Name = name
  BY DEF Find
<1> DEFINE e == CHOOSE e \in E : e.Dir = i /\ e.Name = name
<1>2. e \in E /\ e.Dir = i /\ e.Name = name
  BY <1>1
<1>3. Find(E, i, name) = e.File
  BY <1>1 DEF Find
<1> QED
  BY <1>2, <1>3

LEMMA TurnFound ==
  ASSUME NEW E, NEW i, NEW name, Turn(E, i, name) # -1
  PROVE  /\ i # -1
         /\ \E e \in E : e.Dir = i /\ e.Name = name /\ e.File # 0 /\ e.File = Turn(E, i, name)
<1>1. i # -1 /\ Find(E, i, name) # 0 /\ Turn(E, i, name) = Find(E, i, name)
  BY DEF Turn
<1> QED
  BY <1>1, Found

\* The names on the way to somewhere in S are in F too.
LEMMA WalkSame ==
  ASSUME NEW E, NEW F, Unique(F), NEW S, -1 \notin S,
         \A e \in E : e.File \in S => e \in F /\ e.Dir \in S,
         NEW i, NEW names \in Seq(Seq(Chars)), Walk(E, i, names) \in S
  PROVE  Walk(F, i, names) = Walk(E, i, names)
<1> DEFINE C == Seq(Chars)
           T == {a \in Seq(C) : Walk(E, i, a) \in S => Walk(F, i, a) = Walk(E, i, a)}
<1>1. <<>> \in T
  BY EmptySeq, WalkEmpty
<1>2. ASSUME NEW a \in Seq(C), NEW x \in C, a \in T PROVE Append(a, x) \in T
  <2> DEFINE j == Walk(E, i, a)
  <2>1. Append(a, x) \in Seq(C)
    BY AppendProperties
  <2>2. Walk(E, i, Append(a, x)) = Turn(E, j, x) /\ Walk(F, i, Append(a, x)) = Turn(F, Walk(F, i, a), x)
    <3>1. \A G : Walk(G, i, Append(a, x)) = Turn(G, Walk(G, i, a), x)
      BY WalkAppend
    <3> QED
      BY <3>1
  <2> SUFFICES ASSUME Turn(E, j, x) \in S PROVE Turn(F, Walk(F, i, a), x) = Turn(E, j, x)
    BY <2>1, <2>2
  <2>3. PICK e \in E : e.Dir = j /\ e.Name = x /\ e.File # 0 /\ e.File = Turn(E, j, x)
    BY TurnFound
  <2>4. e \in F /\ j \in S /\ j # -1
    BY <2>3
  <2>5. Walk(F, i, a) = j
    BY <1>2, <2>4
  <2>6. Find(F, j, x) = e.File
    BY <2>3, <2>4, FindIs
  <2> HIDE DEF j
  <2> QED
    BY <2>3, <2>4, <2>5, <2>6 DEF Turn
<1> HIDE DEF T
<1>3. \A a \in Seq(C) : a \in T
  BY <1>1, <1>2, SequenceInduction
<1> QED
  BY <1>3 DEF T

\* A path leads to an inode that is in use.
LEMMA WalkIn ==
  ASSUME NEW E, NEW D, NEW F, Sane(E, D, F), NEW i \in D \cup F,
         NEW names \in Seq(Seq(Chars)), Walk(E, i, names) # -1
  PROVE  Walk(E, i, names) \in D \cup F
<1>1. CASE names = <<>>
  BY <1>1, WalkEmpty
<1>2. CASE names # <<>>
  <2>1. PICK a \in Seq(Seq(Chars)), x \in Seq(Chars) : names = Append(a, x)
    BY <1>2, SequenceEmptyOrAppend
  <2>2. Walk(E, i, names) = Turn(E, Walk(E, i, a), x)
    BY <2>1, WalkAppend
  <2>3. PICK e \in E : e.File = Walk(E, i, names)
    BY <2>2, TurnFound
  <2> QED
    BY <2>3, SaneNamed
<1> QED
  BY <1>1, <1>2

\* More names: what was found is found.
LEMMA WalkGrows ==
  ASSUME NEW E, NEW D, NEW F, Sane(E, D, F), NEW G, E \subseteq G, Unique(G),
         NEW i \in D \cup F, NEW names \in Seq(Seq(Chars)), Walk(E, i, names) # -1
  PROVE  Walk(G, i, names) = Walk(E, i, names)
<1>1. -1 \notin D \cup F
  BY NamesAre DEF Sane
<1>2. Walk(E, i, names) \in D \cup F
  BY WalkIn
<1>3. \A e \in E : e.File \in D \cup F => e \in G /\ e.Dir \in D \cup F
  BY SaneNamed
<1> DEFINE S == D \cup F
<1> HIDE DEF S
<1>4. -1 \notin S /\ Walk(E, i, names) \in S /\ \A e \in E : e.File \in S => e \in G /\ e.Dir \in S
  BY <1>1, <1>2, <1>3 DEF S
<1> QED
  BY <1>4, WalkSame

LEMMA TailNames ==
  ASSUME NEW p, RootPath(p)
  PROVE  NamesOf(Tail(p)) \in Seq(Seq(Chars))
  BY TailIs, NamesType

-----------------------------------------------------------------------------
(***************************************************************************)
(* The invariant: as long as the path is sound it leads to the current     *)
(* directory, and has no slash at its end, so that what cd, ls and the     *)
(* others put behind it is one path.                                       *)
(***************************************************************************)
Leads(E, i, p) == Trim(p) /\ RootWalk(E, p) = i

DirectoryInv ==
  /\ Sane(entries, directories, files)
  /\ currentDirectoryInodeID \in directories \cup files
  /\ currentPath \in Seq(Chars) /\ Len(currentPath) <= MaxLength
  /\ sound \in BOOLEAN
  /\ sound => Leads(entries, currentDirectoryInodeID, currentPath)

LEMMA InitDirectory == Init => DirectoryInv
<1> SUFFICES ASSUME Init PROVE DirectoryInv
  OBVIOUS
<1>1. Sane(entries, directories, files)
  BY PathsAssumption DEF Init, Sane, Unique
<1>2. RootPath(<<"/">>) /\ Leads(entries, 0, <<"/">>)
  BY RootWalkOfRoot DEF Leads
<1>3. Len(<<"/">>) <= MaxLength
  BY PathsAssumption
<1> QED
  BY <1>1, <1>2, <1>3 DEF Init, DirectoryInv, RootPath

LEMMA WalkPathIs ==
  \A p : WalkPath(p) = RootWalk(entries, p)
  BY DEF WalkPath, RootWalk

\* What changes the tree only.
LEMMA TreeChanges ==
  ASSUME DirectoryInv, Sane(entries', directories', files'),
         directories \cup files \subseteq directories' \cup files',
         UNCHANGED <<currentDirectoryInodeID, currentPath>>,
         sound' \in BOOLEAN,
         sound' => sound /\ (Leads(entries, currentDirectoryInodeID, currentPath)
                               => Leads(entries', currentDirectoryInodeID, currentPath))
  PROVE  DirectoryInv'
  BY DEF DirectoryInv

LEMMA LeadsStill ==
  ASSUME NEW E, NEW D, NEW F, Sane(E, D, F), NEW G, E \subseteq G, Unique(G),
         NEW i \in D \cup F, NEW p, Leads(E, i, p)
  PROVE  Leads(G, i, p)
<1>1. RootPath(p) /\ Walk(E, 0, NamesOf(Tail(p))) = i
  BY DEF Leads, Trim, RootWalk
<1>2. i # -1 /\ 0 \in D \cup F
  BY NamesAre DEF Sane
<1>3. NamesOf(Tail(p)) \in Seq(Seq(Chars))
  BY <1>1, TailNames
<1>4. Walk(G, 0, NamesOf(Tail(p))) = i
  BY <1>1, <1>2, <1>3, WalkGrows
<1> QED
  BY <1>4 DEF Leads, RootWalk
-----------------------------------------------------------------------------
(***************************************************************************)
(* cd: every state it goes through has the path lead to the inode, or is   *)
(* not sound.                                                              *)
(***************************************************************************)
Places == [inode : directories \cup files, path : Seq(Chars), sound : BOOLEAN]

GoodPlaces == {s \in Places : s.sound => Leads(entries, s.inode, s.path)}

RootedPlaces == {s \in GoodPlaces : RootPath(s.path)}

LEMMA FrontType ==
  ASSUME NEW p \in Seq(Chars)
  PROVE  Front(p) \in Seq(Chars)
<1> DEFINE n == Len(p) - 1
<1>1. Len(p) \in Nat /\ \A k \in 1 .. Len(p) : p[k] \in Chars
  BY LenProperties
<1>2. n \in Int /\ \A k \in 1 .. n : k \in 1 .. Len(p)
  BY <1>1
<1> HIDE DEF n
<1>3. SubSeq(p, 1, n) \in Seq(Chars)
  BY <1>1, <1>2, SubSeqProperties
<1> QED
  BY <1>3 DEF Front, n

LEMMA RollBackGood ==
  ASSUME DirectoryInv, NEW s \in Places, NEW t \in RollBack(s)
  PROVE  /\ (s.sound => Leads(entries, s.inode, s.path)) => t \in GoodPlaces
         /\ RootPath(s.path) => RootPath(t.path)
<1>1. PICK bytes \in HeapBytes :
        t = [s EXCEPT !.path = @ \o bytes, !.sound = @ /\ bytes = <<>>]
  BY DEF RollBack
<1>2. bytes \in Seq(Chars) /\ s.path \in Seq(Chars)
  BY NamesAre DEF Places
<1>3. s.path \o bytes \in Seq(Chars) /\ s.path \o <<>> = s.path
  BY <1>2, ConcatProperties, ConcatEmptySeq
<1>4. /\ t.path = s.path \o bytes /\ t.inode = s.inode
      /\ t.sound = (s.sound /\ bytes = <<>>) /\ t \in Places
  BY <1>1, <1>3 DEF Places
<1>5. RootPath(s.path) => RootPath(s.path \o bytes)
  BY <1>2, TailOfJoined
<1> QED
  BY <1>3, <1>4, <1>5 DEF GoodPlaces

LEMMA CdAbsoluteGood ==
  ASSUME DirectoryInv, NEW s \in GoodPlaces, NEW path, RootPath(path), NEW t \in CdAbsolute(s, path)
  PROVE  t \in GoodPlaces /\ (RootPath(s.path) => RootPath(t.path))
<1> DEFINE i == WalkPath(path)
           p == IF Len(path) > 1 /\ EndsInSlash(path) THEN Front(path) ELSE path
<1>1. CASE Reaches(i, path)
  <2>1. t = At(i, p, TRUE)
    BY <1>1 DEF CdAbsolute
  <2>2. i # -1 /\ i = RootWalk(entries, path)
    BY <1>1, WalkPathIs DEF Reaches
  <2>3. Sane(entries, directories, files) /\ Named(entries) /\ 0 \in directories \cup files
    BY SaneNamed DEF DirectoryInv, Sane
  <2>4. NamesOf(Tail(path)) \in Seq(Seq(Chars))
    BY TailNames
  <2>5. i \in directories \cup files
    BY <2>2, <2>3, <2>4, WalkIn DEF RootWalk
  <2>6. Trim(p) /\ RootWalk(entries, p) = i
    <3>1. CASE Len(path) > 1 /\ EndsInSlash(path)
      BY <2>2, <2>3, <3>1, WalkTrimmed
    <3>2. CASE ~(Len(path) > 1 /\ EndsInSlash(path))
      BY <2>2, <3>2 DEF Trim
    <3> QED
      BY <3>1, <3>2
  <2> HIDE DEF i, p
  <2>7. RootPath(p) /\ p \in Seq(Chars)
    BY <2>6 DEF Trim, RootPath
  <2>8. Leads(entries, i, p)
    BY <2>6 DEF Leads
  <2> QED
    BY <2>1, <2>5, <2>7, <2>8 DEF At, GoodPlaces, Places
<1>2. CASE ~Reaches(i, path)
  <2>1. t \in RollBack(s)
    BY <1>2 DEF CdAbsolute
  <2> QED
    BY <2>1, RollBackGood DEF GoodPlaces
<1> QED
  BY <1>1, <1>2

LEMMA CdUpGood ==
  ASSUME DirectoryInv, NEW s \in RootedPlaces, NEW t \in CdUp(s)
  PROVE  t \in RootedPlaces
<1> DEFINE slash == IF EndsInSlash(s.path) THEN Len(s.path) ELSE LastSlash(s.path)
           above == IF slash <= 1 THEN <<"/">> ELSE SubSeq(s.path, 1, slash - 1)
           r == [s EXCEPT !.path = above, !.sound = FALSE]
<1>1. CASE s.inode = 0
  BY <1>1 DEF CdUp
<1>2. CASE s.inode # 0
  <2>1. t \in CdAbsolute(r, above)
    BY <1>2 DEF CdUp
  <2>2. s \in Places /\ RootPath(s.path) /\ s.path \in Seq(Chars) /\ Len(s.path) \in Nat
    BY LenProperties DEF RootedPlaces, GoodPlaces, Places
  <2>3. slash \in 0 .. Len(s.path)
    <3> DEFINE places == {k \in DOMAIN s.path : s.path[k] = "/" /\ k < Len(s.path)}
    <3>1. DOMAIN s.path = 1 .. Len(s.path)
      BY <2>2, LenProperties
    <3>2. LastSlash(s.path) \in 0 .. Len(s.path)
      <4>1. CASE places = {}
        BY <2>2, <4>1 DEF LastSlash
      <4>2. CASE places # {}
        <5>1. \E k \in places : \A j \in places : j <= k
          <6> DEFINE L == Len(s.path)
                     B == {b \in Nat : \A j \in places : j <= b}
          <6>1. places \subseteq 1 .. L /\ L \in Nat
            BY <2>2, <3>1
          <6>2. PICK x \in places : TRUE
            BY <4>2
          <6>3. L \in B
            BY <6>1
          <6>4. B \in SUBSET Nat /\ B # {}
            BY <6>3
          <6> HIDE DEF B, places
          <6>5. PICK m \in B : \A b \in B : m <= b
            BY <6>4, LeastNatural
          <6>6. m \in Nat /\ \A j \in places : j <= m
            BY <6>5 DEF B
          <6>7. m \in places
            <7> SUFFICES ASSUME m \notin places PROVE FALSE
              OBVIOUS
            <7>1. \A j \in places : j \in Nat /\ j <= m - 1
              BY <6>1, <6>6
            <7>2. x <= m - 1 /\ x \in Nat /\ x >= 1
              BY <6>1, <6>2, <7>1
            <7>3. m - 1 \in Nat
              BY <6>6, <7>2
            <7>4. m - 1 \in B
              BY <7>1, <7>3 DEF B
            <7>5. m <= m - 1
              BY <6>5, <7>4
            <7> QED
              BY <6>6, <7>5
          <6> QED
            BY <6>6, <6>7
        <5>2. (CHOOSE k \in places : \A j \in places : j <= k) \in places
          <6> HIDE DEF places
          <6> QED
            BY <5>1, Zenon
        <5>3. LastSlash(s.path) \in places
          BY <4>2, <5>2 DEF LastSlash
        <5> QED
          BY <2>2, <3>1, <5>3
      <4> QED
        BY <4>1, <4>2
    <3> QED
      BY <2>2, <3>2
  <2> HIDE DEF slash
  <2>4. RootPath(above)
    <3>1. CASE slash <= 1
      BY <3>1, RootWalkOfRoot
    <3>2. CASE slash > 1
      <4> DEFINE n == slash - 1
                 u == SubSeq(s.path, 1, n)
      <4>1. n \in Nat /\ 1 <= n /\ n <= Len(s.path)
        BY <2>2, <2>3, <3>2
      <4>2. \A k \in 1 .. n : s.path[k] \in Chars
        BY <2>2, <4>1, LenProperties
      <4> HIDE DEF n
      <4>3. u \in Seq(Chars) /\ Len(u) = n /\ \A k \in 1 .. n : u[k] = s.path[k]
        BY <4>1, <4>2, SubSeqProperties
      <4>4. u # <<>> /\ u[1] = "/"
        <5>1. 1 \in 1 .. n /\ Len(u) # 0
          BY <4>1, <4>3
        <5> HIDE DEF u
        <5> QED
          BY <2>2, <4>3, <5>1, EmptySeq DEF RootPath
      <4>5. RootPath(u)
        BY <4>3, <4>4 DEF RootPath
      <4> QED
        BY <2>3, <3>2, <4>5 DEF n
    <3> QED
      BY <2>3, <3>1, <3>2
  <2> HIDE DEF above
  <2>5. r \in GoodPlaces /\ r.path = above
    BY <2>2, <2>4 DEF GoodPlaces, Places, RootPath
  <2> HIDE DEF r
  <2> QED
    BY <2>1, <2>4, <2>5, CdAbsoluteGood DEF RootedPlaces
<1> QED
  BY <1>1, <1>2

LEMMA CdRelativeGood ==
  ASSUME DirectoryInv, NEW s \in RootedPlaces, NEW path \in Seq(Chars), NEW t \in CdRelative(s, path)
  PROVE  t \in GoodPlaces
<1> DEFINE rest == WithoutDot(path)
           i == Walk(entries, s.inode, NamesOf(rest))
           w == Whole(s.path, rest)
           q == Joined(s.path, rest)
<1>1. rest \in Seq(Chars)
  BY WithoutDotIs
<1> HIDE DEF rest
<1>2. s \in Places /\ s \in GoodPlaces /\ RootPath(s.path) /\ s.path \in Seq(Chars)
  BY DEF RootedPlaces, GoodPlaces, Places
<1>3. CASE Reaches(i, rest)
  <2>1. t = At(i, q, s.sound /\ q # <<>>)
    BY <1>3 DEF CdRelative, rest
  <2>2. Sane(entries, directories, files) /\ Named(entries)
    BY SaneNamed DEF DirectoryInv
  <2>3. s.inode \in directories \cup files /\ s.sound \in BOOLEAN
    BY <1>2 DEF Places
  <2>4. NamesOf(rest) \in Seq(Seq(Chars))
    BY <1>1, NamesType
  <2>5. i # -1
    BY <1>3 DEF Reaches
  <2>6. i \in directories \cup files
    BY <2>2, <2>3, <2>4, <2>5, WalkIn
  <2>7. q = IF EndsInSlash(w) THEN Front(w) ELSE w
    BY DEF Joined, Whole
  <2>8. w \in Seq(Chars)
    <3>1. WithSlash(s.path) \in Seq(Chars)
      BY <1>2, SlashAtEnd DEF WithSlash
    <3> QED
      BY <1>1, <1>2, <3>1, ConcatProperties DEF Whole
  <2>9. q \in Seq(Chars)
    BY <2>7, <2>8, FrontType
  <2>10. ASSUME s.sound, q # <<>> PROVE Leads(entries, i, q)
    <3>1. Trim(s.path) /\ RootWalk(entries, s.path) = s.inode
      BY <1>2, <2>10 DEF GoodPlaces, Leads
    <3>2. RootPath(w) /\ RootWalk(entries, w) = i
      BY <1>1, <3>1, WalkJoined
    <3> HIDE DEF w, i
    <3>3. CASE Len(w) > 1 /\ EndsInSlash(w)
      BY <2>2, <2>5, <2>7, <3>2, <3>3, WalkTrimmed DEF Leads
    <3>4. CASE ~(Len(w) > 1 /\ EndsInSlash(w))
      <4>1. ~EndsInSlash(w)
        <5> SUFFICES ASSUME EndsInSlash(w) PROVE FALSE
          OBVIOUS
        <5>1. Len(w) = 1
          <6>1. Len(w) \in Nat \ {0} /\ ~(Len(w) > 1)
            BY <3>2, <3>4, TailIs
          <6>2. \A n \in Nat \ {0} : ~(n > 1) => n = 1
            OBVIOUS
          <6> QED
            BY <6>1, <6>2, Zenon
        <5>2. w = <<"/">> /\ q = Front(w)
          BY <2>7, <3>2, <5>1, TailIs
        <5>3. Front(<<"/">>) = <<>>
          <6>1. Len(<<"/">>) - 1 = 0
            OBVIOUS
          <6>2. SubSeq(<<"/">>, 1, 0) = <<>>
            BY SubSeqEmpty
          <6> QED
            BY <6>1, <6>2 DEF Front
        <5> QED
          BY <2>10, <5>2, <5>3
      <4> QED
        BY <2>7, <3>2, <4>1 DEF Leads, Trim
    <3> QED
      BY <3>3, <3>4
  <2> HIDE DEF i, q
  <2> QED
    BY <2>1, <2>3, <2>6, <2>9, <2>10 DEF At, GoodPlaces, Places
<1>4. CASE ~Reaches(i, rest)
  <2>1. t \in RollBack(s)
    BY <1>4 DEF CdRelative, rest
  <2> QED
    BY <1>2, <2>1, RollBackGood DEF GoodPlaces
<1> QED
  BY <1>3, <1>4

LEMMA CdOnceGood ==
  ASSUME DirectoryInv, NEW s \in GoodPlaces, NEW path \in Seq(Chars), NEW t \in CdOnce(s, path),
         RootPath(s.path) \/ path = <<>> \/ path[1] = "/"
  PROVE  t \in GoodPlaces
<1>1. CASE path = <<>>
  <2>1. t = At(0, <<"/">>, TRUE)
    BY <1>1 DEF CdOnce
  <2>2. Leads(entries, 0, <<"/">>) /\ <<"/">> \in Seq(Chars) /\ 0 \in directories
    BY RootWalkOfRoot DEF Leads, RootPath, DirectoryInv, Sane
  <2> QED
    BY <2>1, <2>2 DEF At, GoodPlaces, Places
<1>2. CASE path # <<>> /\ path[1] = "/"
  <2>1. RootPath(path) /\ t \in CdAbsolute(s, path)
    BY <1>2 DEF RootPath, CdOnce
  <2> QED
    BY <2>1, CdAbsoluteGood
<1>3. CASE path # <<>> /\ path[1] # "/"
  <2>1. s \in RootedPlaces
    BY <1>3 DEF RootedPlaces
  <2>2. t \in CdUp(s) \/ t \in CdRelative(s, path)
    BY <1>3 DEF CdOnce
  <2> QED
    BY <2>1, <2>2, CdUpGood, CdRelativeGood DEF RootedPlaces
<1> QED
  BY <1>1, <1>2, <1>3

\* What the calls of cd .. lead through.
Ups(s, n) ==
  LET up[k \in 0 .. n] == IF k = 0 THEN {s} ELSE UNION {CdUp(t) : t \in up[k - 1]}
  IN  up[n]

LEMMA UpsStay ==
  ASSUME NEW s, NEW n \in Nat, NEW G, s \in G, n # 0 => \A t \in G : CdUp(t) \subseteq G
  PROVE  Ups(s, n) \subseteq G
<1> DEFINE Up(W) == UNION {CdUp(t) : t \in W}
           X == SUBSET G
           step == [a \in (1 .. n) \X X |-> Up(a[2])]
           IsUp(f) == f = [k \in 0 .. n |-> IF k = 0 THEN {s} ELSE Up(f[k - 1])]
           Way == CHOOSE f : IsUp(f)
<1>1. Ups(s, n) = Way[n]
  BY Zenon DEF Ups
<1>2. {s} \in X
  OBVIOUS
<1>3. ASSUME n # 0, NEW W \in X PROVE Up(W) \in X
  BY <1>3
<1> HIDE DEF X, Up
<1>4. step \in [(1 .. n) \X X -> X]
  <2>1. ASSUME NEW a \in (1 .. n) \X X PROVE Up(a[2]) \in X
    <3>1. n # 0 /\ a[2] \in X
      OBVIOUS
    <3> QED
      BY <1>3, <3>1
  <2> QED
    BY <2>1
<1>5. \A k \in 1 .. n, W \in X : step[<<k, W>>] = Up(W)
  OBVIOUS
<1> HIDE DEF step
<1>6. PICK f \in [0 .. n -> X] : Iterates(f, {s}, step, n)
  BY <1>2, <1>4, IterationExists
<1>7. f[0] = {s} /\ \A k \in 1 .. n : f[k] = Up(f[k - 1])
  <2>1. f[0] = {s} /\ \A k \in 1 .. n : f[k] = step[<<k, f[k - 1]>>]
    BY <1>6 DEF Iterates
  <2>2. \A k \in 1 .. n : f[k - 1] \in X
    OBVIOUS
  <2> QED
    BY <1>5, <2>1, <2>2
<1>8. IsUp(f)
  <2>1. \A k \in 0 .. n : f[k] = IF k = 0 THEN {s} ELSE Up(f[k - 1])
    BY <1>7
  <2> QED
    BY <2>1
<1> HIDE DEF IsUp
<1>9. IsUp(Way)
  BY <1>8, Zenon
<1> HIDE DEF Way
<1>10. Way[0] = {s} /\ \A k \in 1 .. n : Way[k] = Up(Way[k - 1])
  <2>1. \A k \in 0 .. n : Way[k] = IF k = 0 THEN {s} ELSE Up(Way[k - 1])
    BY <1>9, Zenon DEF IsUp
  <2>2. 0 \in 0 .. n /\ \A k \in 1 .. n : k \in 0 .. n /\ k # 0
    OBVIOUS
  <2> QED
    BY <2>1, <2>2, Zenon
<1> DEFINE T == {k \in Nat : k <= n => Way[k] \in X}
<1>11. 0 \in T
  BY <1>2, <1>10
<1>12. ASSUME NEW k \in Nat, k \in T PROVE k + 1 \in T
  <2> SUFFICES ASSUME k + 1 <= n PROVE Way[k + 1] \in X
    OBVIOUS
  <2>1. k + 1 \in 1 .. n /\ (k + 1) - 1 = k /\ Way[k] \in X /\ n # 0
    BY <1>12
  <2> QED
    BY <1>3, <1>10, <2>1
<1> HIDE DEF T
<1>13. n \in T
  BY <1>11, <1>12, SetInduction
<1> QED
  BY <1>1, <1>13 DEF T, X

LEMMA GoesUpStarts ==
  ASSUME NEW path \in Seq(Chars), GoesUp(path)
  PROVE  Len(path) >= 2 /\ path[1] = "." /\ path[1] # "/"
  BY Characters, StartsWithTwo DEF GoesUp

LEMMA TurnsOfCd ==
  ASSUME NEW path \in Seq(Chars)
  PROVE  /\ Turns(path, GoesUp, 3) \in Nat
         /\ ~GoesUp(path) => Turns(path, GoesUp, 3) = 0
<1> DEFINE L == Len(path)
           Ends(n) == /\ ~GoesUp(Suffix(path, n * 3 + 1))
                      /\ \A k \in 0 .. n - 1 : GoesUp(Suffix(path, k * 3 + 1))
           S == {n \in Nat : ~GoesUp(Suffix(path, n * 3 + 1))}
<1>1. L \in Nat
  BY LenProperties
<1>2. L \in S
  <2>1. L * 3 + 1 \in Nat \ {0} /\ ~(L * 3 + 1 <= L)
    BY <1>1
  <2>2. Suffix(path, L * 3 + 1) \in Seq(Chars) /\ Len(Suffix(path, L * 3 + 1)) = 0
    BY <2>1, SuffixIs
  <2>3. ~GoesUp(Suffix(path, L * 3 + 1))
    BY <2>2, GoesUpStarts
  <2> QED
    BY <1>1, <2>3
<1>3. PICK m \in S : \A n \in S : m <= n
  <2>1. S \in SUBSET Nat /\ S # {}
    BY <1>2
  <2> HIDE DEF S
  <2> QED
    BY <2>1, LeastNatural
<1>4. m \in 0 .. L /\ Ends(m)
  <2>1. m \in Nat /\ m <= L /\ ~GoesUp(Suffix(path, m * 3 + 1))
    BY <1>1, <1>2, <1>3
  <2>2. ASSUME NEW k \in 0 .. m - 1 PROVE GoesUp(Suffix(path, k * 3 + 1))
    <3>1. k \in Nat /\ ~(m <= k)
      BY <2>1
    <3>2. k \notin S
      BY <1>3, <3>1
    <3> QED
      BY <3>1, <3>2
  <2> QED
    BY <1>1, <2>1, <2>2
<1> DEFINE N == CHOOSE n \in 0 .. L : Ends(n)
<1>5. Turns(path, GoesUp, 3) = N
  BY DEF Turns
<1>6. N \in 0 .. L /\ Ends(N)
  <2> HIDE DEF Ends, L
  <2> QED
    BY <1>4, Zenon
<1> HIDE DEF N
<1>7. N \in Nat
  BY <1>1, <1>6
<1>8. ASSUME ~GoesUp(path), N # 0 PROVE FALSE
  <2>1. 0 \in 0 .. N - 1 /\ 0 * 3 + 1 = 1
    BY <1>7, <1>8
  <2>2. GoesUp(Suffix(path, 0 * 3 + 1))
    BY <1>6, <2>1
  <2> QED
    BY <1>8, <2>1, <2>2, SuffixWhole
<1> QED
  BY <1>5, <1>7, <1>8

LEMMA CdGood ==
  ASSUME DirectoryInv, NEW s \in GoodPlaces, NEW path \in Seq(Chars), NEW t \in Cd(s, path),
         RootPath(s.path) \/ path = <<>> \/ path[1] = "/"
  PROVE  t \in GoodPlaces
<1> DEFINE n == Turns(path, GoesUp, 3)
           rest == Suffix(path, n * 3 + 1)
<1>1. n \in Nat /\ (~GoesUp(path) => n = 0)
  BY TurnsOfCd
<1>2. PICK u \in Ups(s, n) : t \in CdOnce(u, rest)
  BY DEF Cd, Ups
<1> HIDE DEF n
<1>3. rest \in Seq(Chars)
  <2>1. n * 3 + 1 \in Nat \ {0}
    BY <1>1
  <2> QED
    BY <2>1, SuffixIs
<1>4. CASE RootPath(s.path)
  <2>1. s \in RootedPlaces /\ \A v \in RootedPlaces : CdUp(v) \subseteq RootedPlaces
    BY <1>4, CdUpGood DEF RootedPlaces
  <2>2. u \in RootedPlaces
    BY <1>1, <1>2, <2>1, UpsStay
  <2> QED
    BY <1>2, <1>3, <2>2, CdOnceGood DEF RootedPlaces
<1>5. CASE path = <<>> \/ path[1] = "/"
  <2>1. ~GoesUp(path)
    BY <1>5, GoesUpStarts, EmptySeq
  <2>2. n = 0 /\ rest = path
    BY <1>1, <2>1, SuffixWhole
  <2>3. u \in {s}
    BY <1>1, <1>2, <2>2, UpsStay
  <2> QED
    BY <1>2, <1>5, <2>2, <2>3, CdOnceGood
<1> QED
  BY <1>4, <1>5

LEMMA ChangeDirectoryKeeps ==
  ASSUME DirectoryInv, NEW path \in Inputs, ChangeDirectory(path)
  PROVE  DirectoryInv'
<1>1. path \in Seq(Chars)
  BY NamesAre
<1>2. Here \in GoodPlaces
  BY DEF Here, At, GoodPlaces, Places, DirectoryInv
<1>3. RootPath(Here.path) \/ path = <<>> \/ path[1] = "/"
  <2>1. Rooted \/ path = <<>> \/ StringStartWith(path, <<"/">>)
    BY DEF ChangeDirectory
  <2>2. Rooted => RootPath(currentPath)
    BY StartsWithSlash DEF Rooted, RootPath, DirectoryInv
  <2> QED
    BY <1>1, <2>1, <2>2, StartsWithSlash DEF Here, At
<1>4. PICK s \in Cd(Here, path) :
        /\ Len(s.path) <= MaxLength
        /\ currentDirectoryInodeID' = s.inode /\ currentPath' = s.path /\ sound' = s.sound
  BY DEF ChangeDirectory
<1>5. s \in GoodPlaces
  BY <1>1, <1>2, <1>3, <1>4, CdGood
<1>6. UNCHANGED <<entries, directories, files>>
  BY DEF ChangeDirectory, tree
<1> QED
  BY <1>4, <1>5, <1>6 DEF DirectoryInv, GoodPlaces, Places
-----------------------------------------------------------------------------
(***************************************************************************)
(* touch, mkdir and rm.                                                    *)
(***************************************************************************)
SaneTree(t) == Sane(t.entries, t.directories, t.files)

Free(t) == Inodes \ (t.directories \cup t.files)

LEMMA NothingFound ==
  ASSUME NEW E, NEW D, NEW F, Sane(E, D, F), NEW i, NEW name, Find(E, i, name) = 0
  PROVE  \A e \in E : ~(e.Dir = i /\ e.Name = name)
<1> SUFFICES ASSUME NEW e \in E, e.Dir = i, e.Name = name PROVE FALSE
  OBVIOUS
<1>1. Find(E, e.Dir, e.Name) = e.File
  BY FindIs DEF Sane
<1> QED
  BY <1>1 DEF Sane

LEMMA CreateFileSane ==
  ASSUME NEW t, SaneTree(t), NEW i \in t.directories, NEW name \in Names,
         Find(t.entries, i, name) = 0, Free(t) # {}, NEW type \in {"FT_DIRECTORY", "FT_FILE"}
  PROVE  LET u == CreateFile(t, i, name, type)
         IN  /\ u = [entries |-> u.entries, directories |-> u.directories, files |-> u.files, id |-> u.id]
             /\ SaneTree(u) /\ u.id \in Free(t) /\ Free(u) = Free(t) \ {u.id}
             /\ t.entries \subseteq u.entries
             /\ u.directories \cup u.files = t.directories \cup t.files \cup {u.id}
<1> DEFINE id == CHOOSE k \in Inodes \ (t.directories \cup t.files) :
                   \A j \in Inodes \ (t.directories \cup t.files) : k <= j
           e == [Dir |-> i, Name |-> name, File |-> id]
           D == IF type = "FT_DIRECTORY" THEN t.directories \cup {id} ELSE t.directories
           F == IF type = "FT_FILE" THEN t.files \cup {id} ELSE t.files
           u == CreateFile(t, i, name, type)
<1>1. id \in Free(t)
  <2> DEFINE S == Inodes \ (t.directories \cup t.files)
  <2>1. S \in SUBSET Nat /\ S # {}
    BY NamesAre DEF Free
  <2> HIDE DEF S
  <2>2. \E k \in S : \A j \in S : k <= j
    BY <2>1, LeastNatural
  <2>3. (CHOOSE k \in S : \A j \in S : k <= j) \in S
    BY <2>2, Zenon
  <2> QED
    BY <2>3 DEF S, Free
<1>2. u = [entries |-> t.entries \cup {e}, directories |-> D, files |-> F, id |-> id]
  BY DEF CreateFile
<1> HIDE DEF id
<1>3. D \cup F = t.directories \cup t.files \cup {id} /\ D \cap F = {} /\ t.directories \subseteq D
  <2>1. type = "FT_DIRECTORY" \/ type = "FT_FILE"
    OBVIOUS
  <2> QED
    BY <1>1, <2>1 DEF Free, SaneTree, Sane
<1> HIDE DEF D, F
<1>4. id \in Inodes /\ id # 0 /\ id \notin t.directories \cup t.files
  BY <1>1 DEF Free, SaneTree, Sane
<1>5. t.entries \cup {e} \subseteq [Dir : D, Name : Names, File : D \cup F]
  BY <1>3 DEF SaneTree, Sane
<1>6. Unique(t.entries \cup {e})
  <2>1. \A f \in t.entries : ~(f.Dir = i /\ f.Name = name)
    BY NothingFound DEF SaneTree
  <2>2. Unique(t.entries)
    BY DEF SaneTree, Sane
  <2> QED
    BY <2>1, <2>2 DEF Unique
<1>7. Sane(t.entries \cup {e}, D, F)
  BY <1>3, <1>4, <1>5, <1>6 DEF SaneTree, Sane
<1> HIDE DEF u, e
<1>8. u.entries = t.entries \cup {e} /\ u.directories = D /\ u.files = F /\ u.id = id
  BY <1>2
<1>9. Free(u) = Free(t) \ {id}
  BY <1>3, <1>8 DEF Free
<1> QED
  BY <1>1, <1>2, <1>3, <1>7, <1>8, <1>9 DEF u, SaneTree

LEMMA RoomLeft ==
  ASSUME NEW S \in SUBSET Inodes
  PROVE  IsFiniteSet(S) /\ Cardinality(S) \in Nat /\ (S = {} => Cardinality(S) = 0)
<1>1. IsFiniteSet(S)
  BY PathsAssumption, FS_Subset
<1> QED
  BY <1>1, FS_CardinalityType, FS_EmptySet

LEMMA TouchKeeps ==
  ASSUME DirectoryInv, NEW name \in Names, Touch(name)
  PROVE  DirectoryInv'
<1> DEFINE t == Tree(0)
           u == CreateFile(t, currentDirectoryInodeID, name, "FT_FILE")
<1>1. /\ currentDirectoryInodeID \in directories
      /\ Find(entries, currentDirectoryInodeID, name) = 0
      /\ Cardinality(Inodes \ (directories \cup files)) >= 1
      /\ entries' = u.entries /\ directories' = u.directories /\ files' = u.files
      /\ UNCHANGED <<currentDirectoryInodeID, currentPath, sound>>
  BY DEF Touch, Space, Becomes
<1>2. SaneTree(t) /\ t.entries = entries /\ t.directories = directories /\ t.files = files
  BY DEF Tree, SaneTree, DirectoryInv
<1>3. Free(t) # {}
  <2>1. Free(t) = Inodes \ (directories \cup files)
    BY <1>2 DEF Free
  <2>2. Free(t) \in SUBSET Inodes
    BY DEF Free
  <2> QED
    BY <1>1, <2>1, <2>2, RoomLeft
<1> HIDE DEF t
<1>4. /\ SaneTree(u) /\ t.entries \subseteq u.entries
      /\ u.directories \cup u.files = t.directories \cup t.files \cup {u.id}
  BY <1>1, <1>2, <1>3, CreateFileSane
<1> HIDE DEF u
<1>5. /\ Sane(entries', directories', files') /\ entries \subseteq entries'
      /\ directories \cup files \subseteq directories' \cup files'
  BY <1>1, <1>2, <1>4 DEF SaneTree
<1>6. Leads(entries, currentDirectoryInodeID, currentPath)
        => Leads(entries', currentDirectoryInodeID, currentPath)
  <2>1. /\ Sane(entries, directories, files) /\ currentDirectoryInodeID \in directories \cup files
        /\ Unique(entries')
    BY <1>5 DEF DirectoryInv, Sane
  <2> QED
    BY <1>5, <2>1, LeadsStill
<1> QED
  BY <1>1, <1>5, <1>6, TreeChanges DEF DirectoryInv

\* ls and mkdir make a path absolute.
LEMMA AbsoluteIs ==
  ASSUME DirectoryInv, Rooted, NEW path \in Seq(Chars)
  PROVE  /\ RootPath(Absolute(path))
         /\ RootPath(path) => Absolute(path) = path
         /\ ~RootPath(path) /\ currentDirectoryInodeID = 0
              => Absolute(path) = Whole(<<"/">>, WithoutDot(path))
         /\ ~RootPath(path) /\ currentDirectoryInodeID # 0 /\ sound
              => Absolute(path) = Whole(currentPath, WithoutDot(path))
<1>1. StringStartWith(path, <<"/">>) <=> RootPath(path)
  BY StartsWithSlash DEF RootPath
<1>2. RootPath(currentPath) /\ currentPath \in Seq(Chars) /\ Len(currentPath) \in Nat \ {0}
  BY StartsWithSlash, TailIs DEF Rooted, RootPath, DirectoryInv
<1>3. CASE RootPath(path)
  BY <1>1, <1>3 DEF Absolute
<1> DEFINE r == WithoutDot(path)
<1>4. r \in Seq(Chars)
  BY WithoutDotIs
<1>5. CASE ~RootPath(path) /\ currentDirectoryInodeID = 0
  <2>1. SubSeq(currentPath, 1, 1) = <<"/">>
    <3> DEFINE one == SubSeq(currentPath, 1, 1)
    <3>1. currentPath[1] = "/" /\ \A k \in 1 .. 1 : currentPath[k] \in Chars
      BY <1>2, Characters DEF RootPath
    <3>2. one \in Seq(Chars) /\ Len(one) = 1 /\ one[1] = "/"
      <4>1. /\ one \in Seq(Chars) /\ Len(one) = IF 1 <= 1 THEN 1 - 1 + 1 ELSE 0
            /\ \A k \in 1 .. 1 - 1 + 1 : one[k] = currentPath[1 + k - 1]
        BY <3>1, SubSeqProperties
      <4> QED
        BY <3>1, <4>1
    <3>3. RootPath(one)
      <4> HIDE DEF one
      <4>1. one # <<>>
        BY <3>2, EmptySeq
      <4> QED
        BY <3>2, <4>1 DEF RootPath
    <3> QED
      BY <3>2, <3>3, TailIs
  <2>2. Absolute(path) = <<"/">> \o r
    BY <1>1, <1>5, <2>1 DEF Absolute
  <2>3. Len(<<"/">>) = 1
    OBVIOUS
  <2>4. Whole(<<"/">>, r) = <<"/">> \o r
    BY <2>3 DEF Whole
  <2>5. RootPath(<<"/">> \o r)
    BY <1>4, RootWalkOfRoot, TailOfJoined
  <2> QED
    BY <1>5, <2>2, <2>4, <2>5
<1>6. CASE ~RootPath(path) /\ currentDirectoryInodeID # 0
  <2>1. Absolute(path) = WithSlash(currentPath) \o r
    BY <1>1, <1>6 DEF Absolute
  <2>2. RootPath(WithSlash(currentPath))
    <3>1. CASE EndsInSlash(currentPath)
      BY <1>2, <3>1 DEF WithSlash
    <3>2. CASE ~EndsInSlash(currentPath)
      <4>1. Append(currentPath, "/") = currentPath \o <<"/">> /\ <<"/">> \in Seq(Chars)
        BY <1>2, Characters, AppendIsConcat
      <4> QED
        BY <1>2, <3>2, <4>1, TailOfJoined DEF WithSlash
    <3> QED
      BY <3>1, <3>2
  <2>3. RootPath(Absolute(path))
    BY <1>4, <2>1, <2>2, TailOfJoined
  <2>4. ASSUME sound PROVE Whole(currentPath, r) = WithSlash(currentPath) \o r
    <3>1. Len(currentPath) # 1
      <4>1. currentPath # <<"/">>
        BY <1>6, <2>4, RootWalkOfRoot DEF DirectoryInv, Leads
      <4> QED
        BY <1>2, <4>1, TailIs
    <3>2. Len(currentPath) > 1
      <4>1. \A n \in Nat \ {0} : n # 1 => n > 1
        OBVIOUS
      <4> QED
        BY <1>2, <3>1, <4>1, Zenon
    <3> QED
      BY <3>2 DEF Whole
  <2> QED
    BY <1>6, <2>1, <2>3, <2>4
<1> QED
  BY <1>3, <1>5, <1>6

\* One turn of mkdir; stops says that it makes no directory there.
MakeTurn(t, name, stops) ==
  LET next == Find(t.entries, t.id, name)
  IN  IF t.id < 0 THEN t
      ELSE IF next # 0 THEN [t EXCEPT !.id = next]
      ELSE IF stops THEN [t EXCEPT !.id = -1]
      ELSE IF t.id \in t.files THEN [t EXCEPT !.id = -2]
      ELSE CreateFile(t, t.id, name, "FT_DIRECTORY")

Made(names, ends, create) ==
  LET after[n \in 0 .. Len(names)] ==
        IF n = 0 THEN Tree(0)
        ELSE MakeTurn(after[n - 1], names[n], IF n = Len(names) THEN ends ELSE ~create)
  IN  after[Len(names)]

\* What mkdir makes of the tree.
GrownTrees ==
  {t \in [entries : SUBSET [Dir : Inodes, Name : Names, File : Inodes],
          directories : SUBSET Inodes, files : SUBSET Inodes, id : Inodes \cup {-1, -2}] :
     /\ SaneTree(t) /\ entries \subseteq t.entries
     /\ directories \cup files \subseteq t.directories \cup t.files
     /\ t.id >= 0 => t.id \in t.directories \cup t.files}

LEMMA MakeTurnGrows ==
  ASSUME NEW t \in GrownTrees, NEW name \in Names, NEW stops \in BOOLEAN, Free(t) # {}
  PROVE  /\ MakeTurn(t, name, stops) \in GrownTrees
         /\ Cardinality(Free(MakeTurn(t, name, stops))) >= Cardinality(Free(t)) - 1
<1> DEFINE next == Find(t.entries, t.id, name)
           u == CreateFile(t, t.id, name, "FT_DIRECTORY")
           m == MakeTurn(t, name, stops)
<1>1. SaneTree(t) /\ t.id \in Inodes \cup {-1, -2}
  BY DEF GrownTrees
<1>2. ASSUME NEW k \in Inodes \cup {-1, -2}, k >= 0 => k \in t.directories \cup t.files,
             m = [t EXCEPT !.id = k]
      PROVE  m \in GrownTrees /\ Cardinality(Free(m)) >= Cardinality(Free(t)) - 1
  <2>1. /\ m.entries = t.entries /\ m.directories = t.directories /\ m.files = t.files /\ m.id = k
        /\ m \in [entries : SUBSET [Dir : Inodes, Name : Names, File : Inodes],
                  directories : SUBSET Inodes, files : SUBSET Inodes, id : Inodes \cup {-1, -2}]
    BY <1>2 DEF GrownTrees
  <2> HIDE DEF m
  <2>2. m \in GrownTrees
    BY <1>2, <2>1 DEF GrownTrees, SaneTree
  <2>3. Free(m) = Free(t)
    BY <2>1 DEF Free
  <2>4. Cardinality(Free(t)) \in Nat
    BY RoomLeft DEF Free
  <2> QED
    BY <2>2, <2>3, <2>4
<1>3. CASE t.id < 0
  <2>1. m = t
    BY <1>3 DEF MakeTurn
  <2>2. Cardinality(Free(t)) \in Nat
    BY RoomLeft DEF Free
  <2> QED
    BY <2>1, <2>2
<1>4. CASE ~(t.id < 0) /\ next # 0
  <2>1. PICK e \in t.entries : e.File = next
    BY <1>4, Found
  <2>2. next \in t.directories \cup t.files /\ next \in Inodes
    BY <1>1, <2>1, SaneNamed DEF SaneTree, Sane
  <2>3. m = [t EXCEPT !.id = next]
    BY <1>4 DEF MakeTurn
  <2> QED
    BY <1>2, <2>2, <2>3
<1>5. CASE ~(t.id < 0) /\ next = 0 /\ stops
  <2>1. m = [t EXCEPT !.id = -1]
    BY <1>5 DEF MakeTurn
  <2> QED
    BY <1>2, <2>1
<1>6. CASE ~(t.id < 0) /\ next = 0 /\ ~stops /\ t.id \in t.files
  <2>1. m = [t EXCEPT !.id = -2]
    BY <1>6 DEF MakeTurn
  <2> QED
    BY <1>2, <2>1
<1>7. CASE ~(t.id < 0) /\ next = 0 /\ ~stops /\ t.id \notin t.files
  <2>1. m = u
    BY <1>7 DEF MakeTurn
  <2>2. t.id \in t.directories
    <3>1. t.id >= 0
      <4>1. \A k \in Inodes \cup {-1, -2} : ~(k < 0) => k >= 0
        BY NamesAre
      <4> QED
        BY <1>1, <1>7, <4>1, Zenon
    <3> QED
      BY <1>7, <3>1 DEF GrownTrees
  <2>3. /\ u = [entries |-> u.entries, directories |-> u.directories, files |-> u.files, id |-> u.id]
        /\ SaneTree(u) /\ u.id \in Free(t) /\ Free(u) = Free(t) \ {u.id}
        /\ t.entries \subseteq u.entries
        /\ u.directories \cup u.files = t.directories \cup t.files \cup {u.id}
    BY <1>1, <1>7, <2>2, CreateFileSane
  <2> HIDE DEF u, m
  <2>4. u \in GrownTrees
    <3>1. u.directories \cup u.files \subseteq Inodes /\ u.id \in Inodes
      BY <2>3 DEF SaneTree, Sane, Free
    <3>2. u.entries \subseteq [Dir : Inodes, Name : Names, File : Inodes]
      BY <2>3, <3>1 DEF SaneTree, Sane
    <3>3. u \in [entries : SUBSET [Dir : Inodes, Name : Names, File : Inodes],
                 directories : SUBSET Inodes, files : SUBSET Inodes, id : Inodes \cup {-1, -2}]
      BY <2>3, <3>1, <3>2
    <3> QED
      BY <2>3, <3>3 DEF GrownTrees
  <2>5. Cardinality(Free(u)) = Cardinality(Free(t)) - 1
    <3>1. IsFiniteSet(Free(t)) /\ Cardinality(Free(t)) \in Nat
      BY RoomLeft DEF Free
    <3> QED
      BY <2>3, <3>1, FS_RemoveElement
  <2>6. Cardinality(Free(t)) \in Nat
    BY RoomLeft DEF Free
  <2>7. m \in GrownTrees /\ Cardinality(Free(m)) >= Cardinality(Free(t)) - 1
    BY <2>1, <2>4, <2>5, <2>6
  <2> QED
    BY <2>7 DEF m
<1> QED
  BY <1>3, <1>4, <1>5, <1>6, <1>7

LEMMA MadeGrows ==
  ASSUME DirectoryInv, NEW names \in Seq(Seq(Chars)), \A n \in DOMAIN names : names[n] \in Names,
         Space(Len(names)), NEW ends \in BOOLEAN, NEW create \in BOOLEAN
  PROVE  Made(names, ends, create) \in GrownTrees
<1> DEFINE L == Len(names)
           X == GrownTrees
           Stops(n) == IF n = Len(names) THEN ends ELSE ~create
           M(n, t) == MakeTurn(t, names[n], Stops(n))
           step == [a \in (1 .. L) \X X |-> IF M(a[1], a[2]) \in X THEN M(a[1], a[2]) ELSE a[2]]
           IsAfter(f) == f = [n \in 0 .. L |-> IF n = 0 THEN Tree(0) ELSE M(n, f[n - 1])]
           Way == CHOOSE f : IsAfter(f)
<1>1. L \in Nat /\ \A n \in 1 .. L : names[n] \in Names
  BY LenProperties
<1>2. Made(names, ends, create) = Way[L]
  BY Zenon DEF Made
<1>3. \A n \in 1 .. L : Stops(n) \in BOOLEAN
  OBVIOUS
<1>4. Tree(0) \in X
  <2>1. /\ Tree(0).entries = entries /\ Tree(0).directories = directories
        /\ Tree(0).files = files /\ Tree(0).id = 0
    BY DEF Tree
  <2>2. Sane(entries, directories, files)
    BY DEF DirectoryInv
  <2>3. entries \subseteq [Dir : Inodes, Name : Names, File : Inodes] /\ 0 \in Inodes
    BY <2>2 DEF Sane
  <2>4. Tree(0) \in [entries : SUBSET [Dir : Inodes, Name : Names, File : Inodes],
                     directories : SUBSET Inodes, files : SUBSET Inodes, id : Inodes \cup {-1, -2}]
    BY <2>2, <2>3 DEF Tree, Sane
  <2> QED
    BY <2>1, <2>2, <2>4 DEF GrownTrees, SaneTree, Sane
<1>5. Cardinality(Free(Tree(0))) >= L
  BY DEF Space, Free, Tree
<1>6. ASSUME NEW n \in 1 .. L, NEW t \in X, Free(t) # {}
      PROVE  M(n, t) \in X /\ Cardinality(Free(M(n, t))) >= Cardinality(Free(t)) - 1
  BY <1>1, <1>3, <1>6, MakeTurnGrows
<1> HIDE DEF L, Stops, M
<1>7. step \in [(1 .. L) \X X -> X]
  OBVIOUS
<1>8. \A n \in 1 .. L, t \in X : step[<<n, t>>] = IF M(n, t) \in X THEN M(n, t) ELSE t
  OBVIOUS
<1> HIDE DEF step
<1>9. PICK f \in [0 .. L -> X] : Iterates(f, Tree(0), step, L)
  BY <1>1, <1>4, <1>7, IterationExists
<1>10. f[0] = Tree(0) /\ \A n \in 1 .. L : f[n] = IF M(n, f[n - 1]) \in X THEN M(n, f[n - 1]) ELSE f[n - 1]
  <2>1. f[0] = Tree(0) /\ \A n \in 1 .. L : f[n] = step[<<n, f[n - 1]>>]
    BY <1>9 DEF Iterates
  <2>2. \A n \in 1 .. L : f[n - 1] \in X
    BY <1>1
  <2> QED
    BY <1>8, <2>1, <2>2
<1> DEFINE T == {n \in Nat : n <= L => /\ Cardinality(Free(f[n])) >= L - n
                                       /\ n # 0 => f[n] = M(n, f[n - 1])}
<1>11. \A t : Cardinality(Free(t)) \in Nat /\ (Free(t) = {} => Cardinality(Free(t)) = 0)
  BY RoomLeft DEF Free
<1>12. 0 \in T
  BY <1>1, <1>5, <1>10
<1>13. ASSUME NEW n \in Nat, n \in T PROVE n + 1 \in T
  <2> SUFFICES ASSUME n + 1 <= L
               PROVE  Cardinality(Free(f[n + 1])) >= L - (n + 1) /\ f[n + 1] = M(n + 1, f[n])
    OBVIOUS
  <2>1. n + 1 \in 1 .. L /\ (n + 1) - 1 = n /\ f[n] \in X /\ Cardinality(Free(f[n])) >= L - n
    BY <1>1, <1>13
  <2>2. Free(f[n]) # {}
    BY <1>1, <1>11, <2>1
  <2>3. /\ M(n + 1, f[n]) \in X
        /\ Cardinality(Free(M(n + 1, f[n]))) >= Cardinality(Free(f[n])) - 1
    BY <1>6, <2>1, <2>2
  <2>4. f[n + 1] = M(n + 1, f[n])
    <3>1. f[n + 1] = IF M(n + 1, f[(n + 1) - 1]) \in X THEN M(n + 1, f[(n + 1) - 1]) ELSE f[(n + 1) - 1]
      BY <1>10, <2>1
    <3> QED
      BY <2>1, <2>3, <3>1
  <2> QED
    BY <1>1, <1>11, <2>1, <2>3, <2>4
<1> HIDE DEF T
<1>14. \A n \in Nat : n \in T
  BY <1>12, <1>13, SetInduction
<1>15. \A n \in 1 .. L : f[n] = M(n, f[n - 1])
  BY <1>1, <1>14 DEF T
<1>16. IsAfter(f)
  <2>1. \A n \in 0 .. L : f[n] = IF n = 0 THEN Tree(0) ELSE M(n, f[n - 1])
    BY <1>1, <1>10, <1>15
  <2> QED
    BY <2>1
<1> HIDE DEF IsAfter
<1>17. IsAfter(Way)
  BY <1>16, Zenon
<1> HIDE DEF Way
<1>18. Way[0] = Tree(0) /\ \A n \in 1 .. L : Way[n] = M(n, Way[n - 1])
  BY <1>1, <1>17 DEF IsAfter
<1>19. \A n \in 0 .. L : f[n] = Way[n]
  <2>1. f[0] = Way[0] /\ \A n \in 1 .. L : f[n - 1] = Way[n - 1] => f[n] = Way[n]
    BY <1>10, <1>15, <1>18
  <2>2. \A h, k : h[0] = k[0] /\ (\A n \in 1 .. L : h[n - 1] = k[n - 1] => h[n] = k[n])
                  => \A n \in 0 .. L : h[n] = k[n]
    BY <1>1, SameLoop
  <2> QED
    BY <2>1, <2>2, Zenon
<1> QED
  BY <1>1, <1>2, <1>19

LEMMA MakeDirectoryKeeps ==
  ASSUME DirectoryInv, NEW path \in Inputs, NEW create \in BOOLEAN, MakeDirectory(path, create)
  PROVE  DirectoryInv'
<1> DEFINE whole == Absolute(path)
           names == NamesOf(Tail(whole))
           t == Made(names, EndsInSlash(whole), create)
<1>1. /\ Rooted /\ (\A n \in DOMAIN names : names[n] \in Names) /\ Space(Len(names))
      /\ entries' = t.entries /\ directories' = t.directories /\ files' = t.files
      /\ UNCHANGED <<currentDirectoryInodeID, currentPath, sound>>
  BY Zenon DEF MakeDirectory, Made, MakeTurn, Becomes
<1>2. path \in Seq(Chars)
  BY NamesAre
<1>3. RootPath(whole)
  BY <1>1, <1>2, AbsoluteIs
<1>4. names \in Seq(Seq(Chars)) /\ EndsInSlash(whole) \in BOOLEAN
  BY <1>3, TailNames DEF EndsInSlash
<1> HIDE DEF names
<1>5. t \in GrownTrees
  BY <1>1, <1>4, MadeGrows
<1> HIDE DEF t
<1>6. /\ Sane(entries', directories', files') /\ entries \subseteq entries'
      /\ directories \cup files \subseteq directories' \cup files'
  BY <1>1, <1>5 DEF GrownTrees, SaneTree
<1>7. Leads(entries, currentDirectoryInodeID, currentPath)
        => Leads(entries', currentDirectoryInodeID, currentPath)
  <2>1. /\ Sane(entries, directories, files) /\ currentDirectoryInodeID \in directories \cup files
        /\ Unique(entries')
    BY <1>6 DEF DirectoryInv, Sane
  <2> QED
    BY <1>6, <2>1, LeadsStill
<1> QED
  BY <1>1, <1>6, <1>7, TreeChanges DEF DirectoryInv

LEMMA RemoveFileKeeps ==
  ASSUME DirectoryInv, NEW path, NEW deleteDir, NEW bytes, RemoveFile(path, deleteDir, bytes)
  PROVE  DirectoryInv'
<1> DEFINE name == NameToRemove(path)
           dir == pathToInodeID(preDir(path), bytes)
           id == Find(entries, dir, name)
           gone == [Dir |-> dir, Name |-> name, File |-> id]
<1>1. /\ id # 0 /\ entries' = entries \ {gone} /\ sound' = (sound /\ id \notin Above)
      /\ UNCHANGED <<directories, files, currentDirectoryInodeID, currentPath>>
  BY DEF RemoveFile
<1>2. PICK e \in entries : e.File = id
  BY <1>1, Found
<1> HIDE DEF id, dir, name
<1>3. Sane(entries, directories, files) /\ id \in Inodes
  BY <1>2, SaneNamed DEF DirectoryInv, Sane
<1>4. Sane(entries', directories', files')
  BY <1>1, <1>3 DEF Sane, Unique
<1>5. ASSUME sound' PROVE Leads(entries', currentDirectoryInodeID, currentPath)
  <2>1. sound /\ id \notin Above /\ Leads(entries, currentDirectoryInodeID, currentPath)
    BY <1>1, <1>5 DEF DirectoryInv
  <2>2. PICK S \in SUBSET Inodes :
          /\ currentDirectoryInodeID \in S /\ \A f \in entries : f.File \in S => f.Dir \in S
          /\ id \notin S
    BY <1>3, <2>1 DEF Above
  <2>3. -1 \notin S
    BY <2>2, NamesAre
  <2>4. \A f \in entries : f.File \in S => f \in entries' /\ f.Dir \in S
    BY <1>1, <2>2
  <2>5. Unique(entries')
    BY <1>4 DEF Sane
  <2>6. /\ RootPath(currentPath) /\ Trim(currentPath)
        /\ Walk(entries, 0, NamesOf(Tail(currentPath))) = currentDirectoryInodeID
    BY <2>1 DEF Leads, Trim, RootWalk
  <2>7. NamesOf(Tail(currentPath)) \in Seq(Seq(Chars))
    BY <2>6, TailNames
  <2> DEFINE E == entries'
             names == NamesOf(Tail(currentPath))
  <2>8. Walk(E, 0, names) = Walk(entries, 0, names)
    <3> HIDE DEF E, names
    <3> QED
      BY <2>2, <2>3, <2>4, <2>5, <2>6, <2>7, WalkSame DEF E, names
  <2> QED
    BY <2>6, <2>8 DEF Leads, RootWalk
<1>6. sound' \in BOOLEAN
  BY <1>1 DEF DirectoryInv
<1> QED
  BY <1>1, <1>4, <1>5, <1>6, TreeChanges

LEMMA StepKeeps ==
  ASSUME DirectoryInv, [Next]_vars
  PROVE  DirectoryInv'
<1>1. ASSUME NEW path \in Inputs, ChangeDirectory(path) PROVE DirectoryInv'
  BY <1>1, ChangeDirectoryKeeps
<1>2. ASSUME NEW name \in Names, Touch(name) PROVE DirectoryInv'
  BY <1>2, TouchKeeps
<1>3. ASSUME NEW path \in Inputs, NEW create \in BOOLEAN, MakeDirectory(path, create)
      PROVE  DirectoryInv'
  BY <1>3, MakeDirectoryKeeps
<1>4. ASSUME NEW path \in Inputs, NEW deleteDir \in BOOLEAN, NEW bytes \in StackBytes,
             RemoveFile(path, deleteDir, bytes)
      PROVE  DirectoryInv'
  BY <1>4, RemoveFileKeeps
<1>5. CASE UNCHANGED vars
  BY <1>5 DEF vars, DirectoryInv
<1> QED
  BY <1>1, <1>2, <1>3, <1>4, <1>5 DEF Next
-----------------------------------------------------------------------------
(***************************************************************************)
(* What a path means to the others.                                        *)
(***************************************************************************)
StartsUp(path) == StringStartWith(path, <<".", ".">>)

LEMMA StartsUpIs ==
  ASSUME NEW path \in Seq(Chars)
  PROVE  /\ StartsUp(path) <=> Len(path) >= 2 /\ path[1] = "." /\ path[2] = "."
         /\ RootPath(path) => ~StartsUp(path)
<1>1. StartsUp(path) <=> Len(path) >= 2 /\ path[1] = "." /\ path[2] = "."
  BY Characters, StartsWithTwo DEF StartsUp
<1> QED
  BY <1>1 DEF RootPath

\* A path that does not begin with .. is taken as it is.
LEMMA NotUp ==
  ASSUME NEW path \in Seq(Chars), ~StartsUp(path)
  PROVE  Suffix(path, Turns(path, UpFromRoot, 2) * 2 + 1) = path
<1> DEFINE L == Len(path)
           Ends(n) == /\ ~UpFromRoot(Suffix(path, n * 2 + 1))
                      /\ \A k \in 0 .. n - 1 : UpFromRoot(Suffix(path, k * 2 + 1))
           N == CHOOSE n \in 0 .. L : Ends(n)
<1>1. 0 * 2 + 1 = 1 /\ Suffix(path, 1) = path /\ ~UpFromRoot(path)
  BY SuffixWhole DEF StartsUp, UpFromRoot
<1>2. 0 \in 0 .. L /\ Ends(0)
  <2>1. L \in Nat
    BY LenProperties
  <2>2. ~UpFromRoot(Suffix(path, 0 * 2 + 1))
    BY <1>1
  <2> QED
    BY <2>1, <2>2
<1>3. Turns(path, UpFromRoot, 2) = N
  BY DEF Turns
<1>4. N \in 0 .. L /\ Ends(N)
  <2> HIDE DEF Ends, L
  <2> QED
    BY <1>2, Zenon
<1> HIDE DEF N
<1>5. N = 0
  <2> SUFFICES ASSUME N # 0 PROVE FALSE
    OBVIOUS
  <2>1. 0 \in 0 .. N - 1
    <3>1. N \in Nat
      BY <1>4, LenProperties
    <3> QED
      BY <3>1
  <2>2. UpFromRoot(Suffix(path, 0 * 2 + 1))
    BY <1>4, <2>1
  <2> QED
    BY <1>1, <2>2
<1> QED
  BY <1>1, <1>3, <1>5

LEMMA StackOfZeros ==
  ASSUME NEW p, RootPath(p)
  PROVE  WalkFromStack(p, <<>>) = RootWalk(entries, p)
<1> DEFINE names == NamesOf(Tail(p))
<1>1. names \in Seq(Seq(Chars))
  BY TailNames
<1>2. WalkFromStack(p, <<>>) =
        Walk(entries, 0, IF names = <<>> THEN <<>> ELSE <<Head(names) \o <<>> >> \o Tail(names))
  BY DEF WalkFromStack
<1>3. RootWalk(entries, p) = Walk(entries, 0, names)
  BY DEF RootWalk
<1> HIDE DEF names
<1>4. CASE names = <<>>
  BY <1>2, <1>3, <1>4
<1>5. CASE names # <<>>
  <2>1. Head(names) \in Seq(Chars) /\ Tail(names) \in Seq(Seq(Chars))
    BY <1>1, <1>5, HeadTailProperties
  <2>2. Head(names) \o <<>> = Head(names)
    BY <2>1, ConcatEmptySeq
  <2>3. <<Head(names)>> \o Tail(names) = names
    BY <1>1, <1>5
  <2> QED
    BY <1>2, <1>3, <1>5, <2>2, <2>3
<1> QED
  BY <1>4, <1>5

LEMMA SomeCounted ==
  ASSUME NEW s \in Seq(Chars), NEW k \in 1 .. Len(s)
  PROVE  CharCount(s, s[k]) # 0
  BY NoneCounted

LEMMA InodeOfRootPath ==
  ASSUME NEW p, RootPath(p)
  PROVE  pathToInodeID(p, <<>>) = RootWalk(entries, p)
<1>1. p \in Seq(Chars) /\ p # <<>> /\ p[1] = "/" /\ ~StartsUp(p) /\ Len(p) \in Nat \ {0}
  BY StartsUpIs, TailIs DEF RootPath
<1>2. Suffix(p, Turns(p, UpFromRoot, 2) * 2 + 1) = p
  BY <1>1, NotUp
<1>3. p \notin {<<".">>, <<".", "/">>}
  BY <1>1
<1>4. CharCount(p, "/") # 0
  <2>1. 1 \in 1 .. Len(p)
    BY <1>1
  <2> QED
    BY <1>1, <2>1, SomeCounted
<1>5. StringStartWith(p, <<"/">>)
  BY <1>1, StartsWithSlash
<1> QED
  BY <1>2, <1>3, <1>4, <1>5, StackOfZeros DEF pathToInodeID

\* A sound path, and what is put behind it.
LEMMA BehindCurrent ==
  ASSUME DirectoryInv, sound
  PROVE  /\ RootPath(currentPath) /\ currentPath \in Seq(Chars)
         /\ RootWalk(entries, currentPath) = currentDirectoryInodeID
         /\ \A r \in Seq(Chars) :
              /\ Whole(currentPath, r) = IF currentPath = <<"/">> THEN <<"/">> \o r
                                         ELSE currentPath \o (<<"/">> \o r)
              /\ RootPath(Whole(currentPath, r))
              /\ RootWalk(entries, Whole(currentPath, r)) =
                   Walk(entries, currentDirectoryInodeID, NamesOf(r))
<1>1. /\ Trim(currentPath) /\ RootPath(currentPath) /\ currentPath \in Seq(Chars)
      /\ RootWalk(entries, currentPath) = currentDirectoryInodeID
  BY DEF DirectoryInv, Leads, Trim
<1>2. ASSUME NEW r \in Seq(Chars)
      PROVE  Whole(currentPath, r) = IF currentPath = <<"/">> THEN <<"/">> \o r
                                     ELSE currentPath \o (<<"/">> \o r)
  <2>1. CASE currentPath = <<"/">>
    <3>1. Len(currentPath) = 1
      BY <2>1
    <3> QED
      BY <2>1, <3>1 DEF Whole
  <2>2. CASE currentPath # <<"/">>
    <3>1. Len(currentPath) \in Nat \ {0} /\ Len(currentPath) # 1
      BY <1>1, <2>2, TailIs
    <3>2. Len(currentPath) > 1
      <4>1. \A n \in Nat \ {0} : n # 1 => n > 1
        OBVIOUS
      <4> QED
        BY <3>1, <4>1, Zenon
    <3>3. WithSlash(currentPath) = Append(currentPath, "/")
      BY <1>1, <3>2 DEF Trim, WithSlash
    <3>4. <<"/">> \in Seq(Chars) /\ Append(currentPath, "/") = currentPath \o <<"/">>
      BY <1>1, Characters, AppendIsConcat
    <3>5. (currentPath \o <<"/">>) \o r = currentPath \o (<<"/">> \o r)
      BY <1>1, <3>4, ConcatAssociative
    <3> QED
      BY <2>2, <3>2, <3>3, <3>4, <3>5 DEF Whole
  <2> QED
    BY <2>1, <2>2
<1> QED
  BY <1>1, <1>2, WalkJoined
LEMMA DotSlash ==
  ASSUME NEW r \in Seq(Chars), NEW path, path = <<".", "/">> \o r
  PROVE  /\ path \in Seq(Chars) /\ Len(path) = Len(r) + 2 /\ path[1] = "." /\ path[2] = "/"
         /\ \A k \in 1 .. Len(r) : path[k + 2] = r[k]
         /\ Suffix(path, 3) = r /\ Suffix(path, 2) = <<"/">> \o r /\ WithoutDot(path) = r
         /\ ~StartsUp(path) /\ CharCount(path, "/") # 0
<1> DEFINE dot == <<".", "/">>
<1>1. dot \in Seq(Chars) /\ Len(dot) = 2 /\ dot[1] = "." /\ dot[2] = "/" /\ Len(r) \in Nat
  BY Characters, LenProperties
<1>2. path \in Seq(Chars) /\ Len(path) = Len(r) + 2 /\ path[1] = "." /\ path[2] = "/"
  <2> HIDE DEF dot
  <2>1. /\ path \in Seq(Chars) /\ Len(path) = Len(dot) + Len(r)
        /\ \A k \in 1 .. Len(dot) + Len(r) : path[k] = IF k <= Len(dot) THEN dot[k] ELSE r[k - Len(dot)]
    BY <1>1, ConcatProperties DEF dot
  <2> QED
    BY <1>1, <2>1
<1>3. \A k \in 1 .. Len(r) : path[k + 2] = r[k]
  <2>1. \A k \in 1 .. Len(dot) + Len(r) : path[k] = IF k <= Len(dot) THEN dot[k] ELSE r[k - Len(dot)]
    BY <1>1, ConcatProperties
  <2> SUFFICES ASSUME NEW k \in 1 .. Len(r) PROVE path[k + 2] = r[k]
    OBVIOUS
  <2> HIDE DEF dot
  <2>2. k + 2 \in 1 .. Len(dot) + Len(r) /\ ~(k + 2 <= Len(dot)) /\ (k + 2) - Len(dot) = k
    BY <1>1
  <2> QED
    BY <2>1, <2>2
<1> HIDE DEF dot
<1>4. Suffix(path, 3) = r
  <2> DEFINE t == Suffix(path, 3)
  <2>1. t \in Seq(Chars) /\ Len(t) = Len(r) /\ \A n \in 1 .. Len(r) : t[n] = path[n + 2]
    <3>1. /\ t \in Seq(Chars) /\ Len(t) = IF 3 <= Len(path) THEN Len(path) - 3 + 1 ELSE 0
          /\ \A n \in 1 .. Len(path) - 3 + 1 : t[n] = path[n + 3 - 1]
      <4>1. \A k \in Nat \ {0} :
              /\ Suffix(path, k) \in Seq(Chars)
              /\ Len(Suffix(path, k)) = IF k <= Len(path) THEN Len(path) - k + 1 ELSE 0
              /\ \A n \in 1 .. Len(path) - k + 1 : Suffix(path, k)[n] = path[n + k - 1]
        BY <1>2, SuffixIs
      <4>2. 3 \in Nat \ {0}
        OBVIOUS
      <4> QED
        BY <4>1, <4>2, Zenon
    <3> HIDE DEF t
    <3>2. Len(path) - 3 + 1 = Len(r) /\ (~(3 <= Len(path)) => Len(r) = 0)
      BY <1>1, <1>2
    <3>3. \A n \in 1 .. Len(r) : n + 3 - 1 = n + 2
      BY <1>1
    <3> QED
      BY <3>1, <3>2, <3>3
  <2> HIDE DEF t
  <2>2. \A n \in 1 .. Len(r) : t[n] = r[n]
    BY <1>3, <2>1
  <2>3. t = r
    BY <2>1, <2>2, SeqEqual
  <2> QED
    BY <2>3 DEF t
<1>5. Suffix(path, 2) = <<"/">> \o r
  <2> DEFINE t == Suffix(path, 2)
             w == <<"/">> \o r
             one == <<"/">>
  <2>1. t \in Seq(Chars) /\ Len(t) = Len(r) + 1 /\ \A n \in 1 .. Len(r) + 1 : t[n] = path[n + 1]
    <3>1. /\ t \in Seq(Chars) /\ Len(t) = IF 2 <= Len(path) THEN Len(path) - 2 + 1 ELSE 0
          /\ \A n \in 1 .. Len(path) - 2 + 1 : t[n] = path[n + 2 - 1]
      <4>1. \A k \in Nat \ {0} :
              /\ Suffix(path, k) \in Seq(Chars)
              /\ Len(Suffix(path, k)) = IF k <= Len(path) THEN Len(path) - k + 1 ELSE 0
              /\ \A n \in 1 .. Len(path) - k + 1 : Suffix(path, k)[n] = path[n + k - 1]
        BY <1>2, SuffixIs
      <4>2. 2 \in Nat \ {0}
        OBVIOUS
      <4> QED
        BY <4>1, <4>2, Zenon
    <3> HIDE DEF t
    <3>2. Len(path) - 2 + 1 = Len(r) + 1 /\ 2 <= Len(path)
      BY <1>1, <1>2
    <3>3. \A n \in 1 .. Len(r) + 1 : n + 2 - 1 = n + 1
      BY <1>1
    <3> QED
      BY <3>1, <3>2, <3>3
  <2>2. one \in Seq(Chars) /\ Len(one) = 1 /\ one[1] = "/"
    BY Characters
  <2> HIDE DEF one
  <2>3. /\ w \in Seq(Chars) /\ Len(w) = Len(one) + Len(r)
        /\ \A k \in 1 .. Len(one) + Len(r) : w[k] = IF k <= Len(one) THEN one[k] ELSE r[k - Len(one)]
    BY <2>2, ConcatProperties DEF one
  <2> HIDE DEF t, w
  <2>4. w \in Seq(Chars) /\ Len(w) = Len(r) + 1
    BY <1>1, <2>2, <2>3
  <2>5. ASSUME NEW n \in 1 .. Len(r) + 1 PROVE t[n] = w[n]
    <3>1. CASE n = 1
      <4>1. w[1] = "/"
        BY <1>1, <2>2, <2>3
      <4> QED
        BY <1>2, <2>1, <3>1, <4>1
    <3>2. CASE n # 1
      <4>1. n - 1 \in 1 .. Len(r) /\ (n - 1) + 2 = n + 1 /\ ~(n <= 1) /\ n \in 1 .. 1 + Len(r)
        BY <1>1, <3>2
      <4>2. w[n] = r[n - 1]
        BY <2>2, <2>3, <4>1
      <4>3. path[n + 1] = r[n - 1]
        BY <1>3, <4>1
      <4> QED
        BY <2>1, <4>2, <4>3
    <3> QED
      BY <3>1, <3>2
  <2>6. t = w
    BY <2>1, <2>4, <2>5, SeqEqual
  <2> QED
    BY <2>6 DEF t, w
<1>6. Len(path) >= 2
  BY <1>1, <1>2
<1>7. WithoutDot(path) = r
  <2>1. StringStartWith(path, <<".", "/">>)
    BY <1>2, <1>6, Characters, StartsWithTwo
  <2> QED
    BY <1>4, <2>1 DEF WithoutDot
<1>8. ~StartsUp(path)
  BY <1>2, StartsUpIs
<1>9. CharCount(path, "/") # 0
  <2>1. 2 \in 1 .. Len(path)
    BY <1>1, <1>2
  <2> QED
    BY <1>2, <2>1, SomeCounted
<1> QED
  BY <1>2, <1>3, <1>4, <1>5, <1>7, <1>8, <1>9

\* Where a path that does not begin with a slash leads.
Onward(path) == Walk(entries, currentDirectoryInodeID, NamesOf(WithoutDot(path)))

LEMMA ListFilesIs ==
  ASSUME DirectoryInv, sound, NEW path \in Seq(Chars), path # <<>>
  PROVE  ListFiles(path) = IF path = <<".">> THEN currentDirectoryInodeID
                           ELSE IF path[1] = "/" THEN RootWalk(entries, path) ELSE Onward(path)
<1>1. Rooted /\ RootWalk(entries, currentPath) = currentDirectoryInodeID
  BY BehindCurrent, StartsWithSlash DEF Rooted, RootPath
<1>2. CASE path = <<".">>
  BY <1>1, <1>2, WalkPathIs DEF ListFiles
<1> DEFINE r == WithoutDot(path)
<1>3. r \in Seq(Chars)
  BY WithoutDotIs
<1>4. CASE path # <<".">>
  <2>1. ListFiles(path) = RootWalk(entries, Absolute(path))
    BY <1>4, WalkPathIs DEF ListFiles
  <2>2. path[1] = "/" <=> RootPath(path)
    BY DEF RootPath
  <2>3. CASE RootPath(path)
    BY <1>1, <1>4, <2>1, <2>2, <2>3, AbsoluteIs
  <2>4. CASE ~RootPath(path) /\ currentDirectoryInodeID = 0
    <3>1. Absolute(path) = Whole(<<"/">>, r)
      BY <1>1, <2>4, AbsoluteIs
    <3>2. RootWalk(entries, Whole(<<"/">>, r)) = Walk(entries, RootWalk(entries, <<"/">>), NamesOf(r))
      BY <1>3, RootWalkOfRoot, WalkJoined
    <3> QED
      BY <1>4, <2>1, <2>2, <2>4, <3>1, <3>2, RootWalkOfRoot DEF Onward
  <2>5. CASE ~RootPath(path) /\ currentDirectoryInodeID # 0
    <3>1. Absolute(path) = Whole(currentPath, r)
      BY <1>1, <2>5, AbsoluteIs
    <3>2. RootWalk(entries, Whole(currentPath, r)) = Walk(entries, currentDirectoryInodeID, NamesOf(r))
      BY <1>3, BehindCurrent
    <3> QED
      BY <1>4, <2>1, <2>2, <2>5, <3>1, <3>2 DEF Onward
  <2> QED
    BY <2>3, <2>4, <2>5
<1> QED
  BY <1>2, <1>4

\* A name is looked up where a walk of one name leads, but 0 is nothing there.
LEMMA NameLooked ==
  ASSUME DirectoryInv, NEW i, i # -1, NEW name \in Seq(Chars), name # <<>>, CharCount(name, "/") = 0
  PROVE  Walk(entries, i, NamesOf(name)) =
           IF Find(entries, i, name) = 0 THEN -1 ELSE Find(entries, i, name)
<1>1. NamesOf(name) = <<name>>
  BY NoneCounted, OneName
<1>2. <<>> \in Seq(Seq(Chars)) /\ Append(<<>>, name) = <<name>>
  OBVIOUS
<1>3. Walk(entries, i, Append(<<>>, name)) = Turn(entries, Walk(entries, i, <<>>), name)
  <2>1. \A a \in Seq(Seq(Chars)), x \in Seq(Chars) :
          Walk(entries, i, Append(a, x)) = Turn(entries, Walk(entries, i, a), x)
    BY WalkAppend
  <2> QED
    BY <1>2, <2>1, Zenon
<1>4. Walk(entries, i, <<>>) = i
  BY WalkEmpty
<1> QED
  BY <1>1, <1>2, <1>3, <1>4 DEF Turn
LEMMA PlainIs ==
  ASSUME NEW path \in Seq(Chars), Plain(path)
  PROVE  /\ path # <<>>
         /\ \/ path = <<".">>
            \/ path[1] # "." /\ WithoutDot(path) = path
            \/ path = <<".", "/">> \o WithoutDot(path)
<1>1. CASE path = <<".">>
  BY <1>1
<1>2. CASE path # <<>> /\ "." \notin Range(WithoutDot(path))
  <2>1. CASE WithoutDot(path) = path
    <3>1. path[1] \in Range(path)
      <4>1. 1 \in DOMAIN path
        BY <1>2
      <4> QED
        BY <4>1 DEF Range
    <3> QED
      BY <1>2, <2>1, <3>1
  <2> QED
    BY <1>2, <2>1, WithoutDotIs
<1> QED
  BY <1>1, <1>2 DEF Plain

LEMMA MeaningIs ==
  ASSUME NEW path
  PROVE  Meaning(path) = IF path[1] = "/" THEN RootWalk(entries, path)
                         ELSE IF path = <<".">> THEN currentDirectoryInodeID ELSE Onward(path)
BY WalkPathIs DEF Meaning, Onward

LEMMA InodeOfPath ==
  ASSUME DirectoryInv, sound, NEW path \in Seq(Chars), Plain(path)
  PROVE  \/ pathToInodeID(path, <<>>) = Meaning(path)
         \/ Meaning(path) = -1 /\ pathToInodeID(path, <<>>) = 0
<1> DEFINE r == WithoutDot(path)
           here == currentDirectoryInodeID
           to == pathToInodeID(path, <<>>)
<1>1. path # <<>> /\ r \in Seq(Chars) /\ here # -1
  <2>1. here \in Inodes
    BY DEF DirectoryInv, Sane
  <2> QED
    BY <2>1, PlainIs, WithoutDotIs, NamesAre
<1>2. CASE path = <<".">>
  <2>1. ~StartsUp(path)
    <3>1. Len(path) = 1
      BY <1>2
    <3> QED
      BY <3>1, StartsUpIs
  <2>2. to = here
    BY <1>2, <2>1, NotUp DEF pathToInodeID
  <2>3. path[1] # "/"
    BY <1>2
  <2> QED
    BY <1>2, <2>2, <2>3, MeaningIs
<1>3. CASE path[1] = "/"
  <2>1. RootPath(path)
    BY <1>1, <1>3 DEF RootPath
  <2> QED
    BY <1>3, <2>1, InodeOfRootPath, MeaningIs
<1>4. CASE path[1] # "/" /\ path[1] # "." /\ r = path
  <2>1. ~StartsUp(path) /\ path \notin {<<".">>, <<".", "/">>}
    BY <1>4, StartsUpIs
  <2>2. Suffix(path, Turns(path, UpFromRoot, 2) * 2 + 1) = path
    BY <2>1, NotUp
  <2>3. Meaning(path) = Walk(entries, here, NamesOf(path))
    BY <1>4, <2>1, MeaningIs DEF Onward
  <2>4. CASE CharCount(path, "/") = 0
    <3>1. to = Find(entries, here, path)
      BY <2>1, <2>2, <2>4 DEF pathToInodeID
    <3>2. /\ Find(entries, here, path) = 0 => Meaning(path) = -1
          /\ Find(entries, here, path) # 0 => Meaning(path) = Find(entries, here, path)
      BY <1>1, <2>3, <2>4, NameLooked
    <3> QED
      BY <3>1, <3>2, Zenon
  <2>5. CASE CharCount(path, "/") # 0
    <3> DEFINE w == IF currentPath = <<"/">> THEN <<"/">> \o path ELSE currentPath \o <<"/">> \o path
    <3>1. ~StringStartWith(path, <<"/">>) /\ ~StringStartWith(path, <<".">>)
      <4>1. /\ StringStartWith(path, <<".">>) => path[1] = "."
            /\ StringStartWith(path, <<"/">>) => path[1] = "/"
        <5>1. /\ <<".">> \in Seq(Chars) /\ <<"/">> \in Seq(Chars)
              /\ \A k \in {1} : k \in 1 .. Len(<<".">>) /\ k \in 1 .. Len(<<"/">>)
              /\ <<".">>[1] = "." /\ <<"/">>[1] = "/"
          BY Characters
        <5>2. /\ StringStartWith(path, <<".">>) =>
                   Len(<<".">>) <= Len(path) /\ \A k \in 1 .. Len(<<".">>) : path[k] = <<".">>[k]
              /\ StringStartWith(path, <<"/">>) =>
                   Len(<<"/">>) <= Len(path) /\ \A k \in 1 .. Len(<<"/">>) : path[k] = <<"/">>[k]
          BY <5>1, StartsWith
        <5> QED
          BY <5>1, <5>2, Zenon
      <4> QED
        BY <1>4, <4>1
    <3>2. ~StringStartWith(path, <<".", ".">>)
      BY <2>1 DEF StartsUp
    <3>3. to = WalkFromStack(w, <<>>)
      BY <2>1, <2>2, <2>5, <3>1, <3>2 DEF pathToInodeID
    <3>4. w = Whole(currentPath, path)
      <4>1. currentPath \o <<"/">> \o path = currentPath \o (<<"/">> \o path)
        BY Characters, BehindCurrent, ConcatAssociative
      <4> QED
        BY <4>1, BehindCurrent
    <3> HIDE DEF w
    <3>5. RootPath(w) /\ RootWalk(entries, w) = Walk(entries, here, NamesOf(path))
      BY <3>4, BehindCurrent
    <3> QED
      BY <2>3, <3>3, <3>5, StackOfZeros
  <2> QED
    BY <2>4, <2>5
<1>5. CASE path = <<".", "/">> \o r
  <2>1. /\ path[1] = "." /\ Len(path) = Len(r) + 2 /\ ~StartsUp(path) /\ CharCount(path, "/") # 0
        /\ Suffix(path, 3) = r /\ Suffix(path, 2) = <<"/">> \o r
    BY <1>1, <1>5, DotSlash
  <2>2. path # <<".">> /\ path[1] # "/"
    <3>1. Len(r) + 2 # 1
      <4>1. Len(r) \in Nat
        BY <1>1, LenProperties
      <4> HIDE DEF r
      <4> QED
        BY <4>1
    <3>2. path = <<".">> => Len(path) = 1
      OBVIOUS
    <3>3. "." # "/"
      OBVIOUS
    <3> QED
      BY <2>1, <3>1, <3>2, <3>3, Zenon
  <2>3. Suffix(path, Turns(path, UpFromRoot, 2) * 2 + 1) = path
    BY <2>1, NotUp
  <2>4. Meaning(path) = Walk(entries, here, NamesOf(r))
    BY <2>2, MeaningIs DEF Onward
  <2>5. CASE path = <<".", "/">>
    <3>1. to = here
      BY <2>3, <2>5 DEF pathToInodeID
    <3>2. r = <<>>
      <4>1. Len(<<".", "/">>) = 2
        OBVIOUS
      <4>2. Len(r) = 0
        BY <1>1, <2>1, <2>5, <4>1, LenProperties
      <4> QED
        BY <1>1, <4>2, EmptySeq
    <3>3. NamesOf(r) = <<>>
      BY <3>2, ReadEmpty DEF NamesOf, Start
    <3> QED
      BY <2>4, <3>1, <3>3, WalkEmpty
  <2>6. CASE path # <<".", "/">>
    <3> DEFINE w == IF currentPath = <<"/">> THEN <<"/">> \o Suffix(path, 3)
                                             ELSE currentPath \o Suffix(path, 2)
    <3>1. ~StringStartWith(path, <<"/">>) /\ StringStartWith(path, <<".">>)
      <4>1. StringStartWith(path, <<".">>)
        <5>1. <<".">> \in Seq(Chars) /\ Len(<<".">>) = 1 /\ <<".">>[1] = "."
          BY Characters
        <5>2. 1 <= Len(path)
          BY <1>1, <2>1, LenProperties
        <5>3. \A k \in 1 .. 1 : path[k] = <<".">>[k]
          BY <2>1, <5>1
        <5> QED
          BY <5>1, <5>2, <5>3, StartsWith
      <4> QED
        BY <2>2, <4>1, StartsWithSlash
    <3>2. ~StringStartWith(path, <<".", ".">>)
      BY <2>1 DEF StartsUp
    <3>3. to = WalkFromStack(w, <<>>)
      BY <2>1, <2>2, <2>3, <2>6, <3>1, <3>2 DEF pathToInodeID
    <3>4. w = Whole(currentPath, r)
      BY <1>1, <2>1, BehindCurrent
    <3> HIDE DEF w
    <3>5. RootPath(w) /\ RootWalk(entries, w) = Walk(entries, here, NamesOf(r))
      BY <1>1, <3>4, BehindCurrent
    <3> QED
      BY <2>4, <3>3, <3>5, StackOfZeros
  <2> QED
    BY <2>5, <2>6
<1> QED
  BY <1>2, <1>3, <1>4, <1>5, PlainIs

LEMMA LeadsSafe ==
  ASSUME DirectoryInv
  PROVE  PathLeadsThere
<1> SUFFICES ASSUME sound PROVE Rooted /\ WalkPath(currentPath) = currentDirectoryInodeID
  BY DEF PathLeadsThere
<1> QED
  BY BehindCurrent, StartsWithSlash, WalkPathIs DEF Rooted, RootPath

LEMMA OneMeaningSafe ==
  ASSUME DirectoryInv
  PROVE  OneMeaning
<1> SUFFICES ASSUME sound, NEW path \in Inputs, Plain(path)
             PROVE  /\ ListFiles(path) = Meaning(path)
                    /\ \/ pathToInodeID(path, <<>>) = Meaning(path)
                       \/ Meaning(path) = -1 /\ pathToInodeID(path, <<>>) = 0
  BY DEF OneMeaning
<1>1. path \in Seq(Chars) /\ path # <<>>
  BY NamesAre, PlainIs
<1>2. path = <<".">> => path[1] # "/"
  OBVIOUS
<1> QED
  BY <1>1, <1>2, ListFilesIs, InodeOfPath, MeaningIs
-----------------------------------------------------------------------------
(***************************************************************************)
(* rm of a name.                                                           *)
(***************************************************************************)
LEMMA NameAlone ==
  ASSUME NEW name \in Names
  PROVE  /\ name \in Seq(Chars) /\ name # <<>> /\ CharCount(name, "/") = 0
         /\ Len(name) \in Nat \ {0} /\ \A k \in 1 .. Len(name) : name[k] # "/"
         /\ LastSlash(name) = 0 /\ ~EndsInSlash(name) /\ SubSeq(name, 1, Len(name)) = name
         /\ WithoutDot(name) = name
<1>1. name \in Seq(Chars) /\ name # <<>> /\ CharCount(name, "/") = 0
  BY NamesAre, PathsAssumption
<1>2. \A k \in 1 .. Len(name) : name[k] # "/"
  BY <1>1, NoneCounted
<1>3. Len(name) \in Nat \ {0}
  BY <1>1, EmptySeq, LenProperties
<1>4. LastSlash(name) = 0
  <2>1. {k \in DOMAIN name : name[k] = "/" /\ k < Len(name)} = {}
    BY <1>1, <1>2, LenProperties
  <2> QED
    BY <2>1 DEF LastSlash
<1>5. ~EndsInSlash(name)
  <2>1. Len(name) \in 1 .. Len(name)
    BY <1>3
  <2> QED
    BY <1>2, <2>1 DEF EndsInSlash
<1>6. SubSeq(name, 1, Len(name)) = name
  BY <1>1, SubSeqFull
<1>7. WithoutDot(name) = name
  <2>1. CASE name = <<".", "/">> \o WithoutDot(name)
    <3>1. CharCount(name, "/") # 0
      BY <1>1, <2>1, WithoutDotIs, DotSlash
    <3> QED
      BY <1>1, <3>1
  <2> QED
    BY <1>1, <2>1, WithoutDotIs
<1> QED
  BY <1>1, <1>2, <1>3, <1>4, <1>5, <1>6, <1>7

LEMMA NameInRoot ==
  ASSUME NEW name \in Names, NEW path, path = <<"/">> \o name
  PROVE  /\ RootPath(path) /\ Tail(path) = name /\ path # <<"/">>
         /\ NameToRemove(path) = name /\ preDir(path) = <<"/">>
<1>1. /\ name \in Seq(Chars) /\ name # <<>> /\ Len(name) \in Nat \ {0}
      /\ \A k \in 1 .. Len(name) : name[k] # "/"
  BY NameAlone
<1>2. RootPath(path) /\ Tail(path) = name
  <2>1. RootPath(<<"/">>) /\ Tail(<<"/">>) = <<>>
    BY RootWalkOfRoot, TailIs
  <2>2. RootPath(path) /\ Tail(path) = Tail(<<"/">>) \o name
    BY <1>1, <2>1, TailOfJoined
  <2>3. <<>> \o name = name
    BY <1>1, ConcatEmptySeq
  <2> QED
    BY <2>1, <2>2, <2>3
<1>3. /\ path \in Seq(Chars) /\ path[1] = "/" /\ path # <<>>
      /\ Len(path) \in Nat \ {0} /\ Len(name) = Len(path) - 1
      /\ \A k \in 1 .. Len(path) - 1 : name[k] = path[k + 1]
  BY <1>2, TailIs DEF RootPath
<1>4. Len(path) > 1
  BY <1>1, <1>3
<1>5. \A k \in 1 .. Len(path) : path[k] = "/" => k = 1
  <2> SUFFICES ASSUME NEW k \in 1 .. Len(path), k # 1 PROVE path[k] # "/"
    OBVIOUS
  <2>1. k - 1 \in 1 .. Len(path) - 1 /\ (k - 1) + 1 = k
    BY <1>3
  <2> QED
    BY <1>1, <1>3, <2>1
<1>6. DOMAIN path = 1 .. Len(path) /\ 1 \in 1 .. Len(path)
  BY <1>3
<1>7. CharCount(path, "/") = 1
  <2>1. {k \in DOMAIN path : path[k] = "/"} = {1}
    BY <1>3, <1>5, <1>6
  <2> QED
    BY <2>1, FS_Singleton DEF CharCount
<1>8. LastSlash(path) = 1
  <2> DEFINE places == {k \in DOMAIN path : path[k] = "/" /\ k < Len(path)}
  <2>1. places = {1}
    BY <1>3, <1>4, <1>5, <1>6
  <2>2. (CHOOSE k \in {1} : \A j \in {1} : j <= k) = 1
    OBVIOUS
  <2>3. LastSlash(path) = IF places = {} THEN 0 ELSE CHOOSE k \in places : \A j \in places : j <= k
    BY DEF LastSlash
  <2> HIDE DEF places
  <2> QED
    BY <2>1, <2>2, <2>3
<1>9. ~EndsInSlash(path)
  <2>1. Len(path) \in 1 .. Len(path)
    BY <1>3
  <2> QED
    BY <1>4, <1>5, <2>1 DEF EndsInSlash
<1>10. Suffix(path, 2) = name
  <2> DEFINE t == Suffix(path, 2)
  <2>1. /\ t \in Seq(Chars) /\ Len(t) = IF 2 <= Len(path) THEN Len(path) - 2 + 1 ELSE 0
        /\ \A n \in 1 .. Len(path) - 2 + 1 : t[n] = path[n + 2 - 1]
    <3>1. \A k \in Nat \ {0} :
            /\ Suffix(path, k) \in Seq(Chars)
            /\ Len(Suffix(path, k)) = IF k <= Len(path) THEN Len(path) - k + 1 ELSE 0
            /\ \A n \in 1 .. Len(path) - k + 1 : Suffix(path, k)[n] = path[n + k - 1]
      BY <1>3, SuffixIs
    <3>2. 2 \in Nat \ {0}
      OBVIOUS
    <3> QED
      BY <3>1, <3>2, Zenon
  <2> HIDE DEF t
  <2>2. Len(path) - 2 + 1 = Len(name) /\ 2 <= Len(path)
    BY <1>3, <1>4
  <2>3. \A n \in 1 .. Len(name) : n + 2 - 1 = n + 1 /\ t[n] = path[n + 2 - 1] /\ path[n + 1] = name[n]
    BY <1>3, <2>1, <2>2
  <2>4. t \in Seq(Chars) /\ Len(t) = Len(name) /\ \A n \in 1 .. Len(name) : t[n] = name[n]
    BY <2>1, <2>2, <2>3
  <2>5. t = name
    BY <1>1, <2>4, SeqEqual
  <2> QED
    BY <2>5 DEF t
<1>11. NameToRemove(path) = name
  <2>1. NameToRemove(path) = SubSeq(path, 1 + 1, Len(path))
    BY <1>3, <1>8, <1>9 DEF NameToRemove
  <2>2. 1 + 1 = 2
    OBVIOUS
  <2> QED
    BY <1>10, <2>1, <2>2 DEF Suffix
<1>12. path # <<"/">>
  <2>1. Len(<<"/">>) = 1
    OBVIOUS
  <2> QED
    BY <1>4, <2>1
<1>13. preDir(path) = <<"/">>
  <2>1. ~StringStartWith(path, <<".", "/">>)
    BY <1>3, Characters, StartsWithTwo
  <2>2. preDir(path) = SubSeq(path, 1, 1)
    BY <1>3, <1>7, <1>12, <2>1 DEF preDir, pathBackStep
  <2> DEFINE one == SubSeq(path, 1, 1)
  <2>3. one \in Seq(Chars) /\ Len(one) = 1 /\ one[1] = "/"
    <3>1. \A k \in 1 .. 1 : path[k] \in Chars
      BY <1>3, Characters
    <3>2. /\ one \in Seq(Chars) /\ Len(one) = IF 1 <= 1 THEN 1 - 1 + 1 ELSE 0
          /\ \A k \in 1 .. 1 - 1 + 1 : one[k] = path[1 + k - 1]
      BY <3>1, SubSeqProperties
    <3> QED
      BY <1>3, <3>2
  <2> HIDE DEF one
  <2>4. RootPath(one)
    <3>1. one # <<>>
      <4>1. one = <<>> => Len(one) = 0
        OBVIOUS
      <4> QED
        BY <2>3, <4>1
    <3> QED
      BY <2>3, <3>1 DEF RootPath
  <2>5. one = <<"/">>
    BY <2>3, <2>4, TailIs
  <2> QED
    BY <2>2, <2>5 DEF one
<1> QED
  BY <1>2, <1>11, <1>12, <1>13

LEMMA RemovesIt ==
  ASSUME DirectoryInv, sound, NEW name \in Names,
         NEW path \in {name, <<".", "/">> \o name, <<"/">> \o name},
         RemoveFile(path, TRUE, <<>>), NEW e \in entries \ entries'
  PROVE  e.File = Meaning(path)
<1> DEFINE dir == pathToInodeID(preDir(path), <<>>)
           here == currentDirectoryInodeID
           id == Find(entries, dir, NameToRemove(path))
<1>1. path # <<".">> /\ id # 0 /\ dir # -1 /\ e.File = id
  BY DEF RemoveFile
<1>2. /\ name \in Seq(Chars) /\ name # <<>> /\ CharCount(name, "/") = 0
      /\ 1 \in 1 .. Len(name) /\ name[1] # "/"
      /\ LastSlash(name) = 0 /\ ~EndsInSlash(name) /\ SubSeq(name, 1, Len(name)) = name
      /\ WithoutDot(name) = name
  <2>1. 1 \in 1 .. Len(name)
    BY NameAlone
  <2> QED
    BY <2>1, NameAlone
<1>3. RootPath(currentPath) /\ RootWalk(entries, currentPath) = here
  BY BehindCurrent
<1>4. pathToInodeID(currentPath, <<>>) = here
  BY <1>3, InodeOfRootPath
<1>5. NameToRemove(path) = name /\ Meaning(path) = Walk(entries, dir, NamesOf(name))
  <2>1. CASE path = name
    <3>1. NameToRemove(path) = name
      BY <1>2, <2>1 DEF NameToRemove
    <3>2. preDir(path) = currentPath
      BY <1>2, <2>1 DEF preDir
    <3>3. Meaning(path) = Walk(entries, here, NamesOf(name))
      BY <1>1, <1>2, <2>1, MeaningIs DEF Onward
    <3> QED
      BY <1>4, <3>1, <3>2, <3>3
  <2>2. CASE path = <<".", "/">> \o name
    <3>1. path[1] = "." /\ WithoutDot(path) = name
      BY <1>2, <2>2, DotSlash
    <3>2. path[1] # "/"
      BY <3>1
    <3>3. NameToRemove(path) = name
      BY <1>2, <3>1, <3>2 DEF NameToRemove
    <3>4. preDir(path) = currentPath
      BY <1>2, <3>1, <3>2 DEF preDir
    <3>5. Meaning(path) = Walk(entries, here, NamesOf(name))
      BY <1>1, <3>1, <3>2, MeaningIs DEF Onward
    <3> QED
      BY <1>4, <3>3, <3>4, <3>5
  <2>3. CASE path = <<"/">> \o name
    <3>1. /\ RootPath(path) /\ Tail(path) = name /\ NameToRemove(path) = name
          /\ preDir(path) = <<"/">>
      BY <2>3, NameInRoot
    <3>2. dir = 0
      BY <3>1, InodeOfRootPath, RootWalkOfRoot
    <3>3. Meaning(path) = Walk(entries, 0, NamesOf(name))
      BY <3>1, MeaningIs DEF RootPath, RootWalk
    <3> QED
      BY <3>1, <3>2, <3>3
  <2> QED
    BY <2>1, <2>2, <2>3
<1> HIDE DEF dir
<1>6. Walk(entries, dir, NamesOf(name)) =
        IF Find(entries, dir, name) = 0 THEN -1 ELSE Find(entries, dir, name)
  BY <1>1, <1>2, NameLooked
<1> QED
  BY <1>1, <1>5, <1>6

LEMMA TypesSafe ==
  ASSUME DirectoryInv
  PROVE  TypeOK
<1>1. /\ Sane(entries, directories, files) /\ currentDirectoryInodeID \in directories \cup files
      /\ Len(currentPath) <= MaxLength /\ sound \in BOOLEAN
  BY DEF DirectoryInv
<1> QED
  BY <1>1 DEF Sane, TypeOK

-----------------------------------------------------------------------------
(***************************************************************************)
(* Every variable has its type: a name is in a directory and names         *)
(* something that was made, mkdir and touch give a new inode that was not  *)
(* in use, and cd ends in an inode that was made.                          *)
(***************************************************************************)
THEOREM TypeCorrect == Spec => []TypeOK
<1>1. Spec => []DirectoryInv
  BY InitDirectory, StepKeeps, PTL DEF Spec
<1> QED
  BY <1>1, TypesSafe, PTL

(***************************************************************************)
(* The path the shell shows leads to the current directory, whatever cd    *)
(* was given, mkdir and touch made and rm took away, as long as no cd      *)
(* failed or met with a directory that is gone.                            *)
(***************************************************************************)
THEOREM PathAlwaysLeadsThere == Spec => []PathLeadsThere
<1>1. Spec => []DirectoryInv
  BY InitDirectory, StepKeeps, PTL DEF Spec
<1> QED
  BY <1>1, LeadsSafe, PTL

(***************************************************************************)
(* cd, which goes by the number of the current directory, ls, which goes   *)
(* by its path, and the calls that take a file, which do either, find the  *)
(* same inode under every path without .. or a name that begins with a     *)
(* dot.                                                                    *)
(***************************************************************************)
THEOREM AllMeanOne == Spec => []OneMeaning
<1>1. Spec => []DirectoryInv
  BY InitDirectory, StepKeeps, PTL DEF Spec
<1> QED
  BY <1>1, OneMeaningSafe, PTL

(***************************************************************************)
(* rm name, rm ./name and rm /name take away the name they are given, in   *)
(* the directory it is given for, and no other.                            *)
(***************************************************************************)
THEOREM RmRemovesThatName == Spec => RemovesName
<1>1. Spec => []DirectoryInv
  BY InitDirectory, StepKeeps, PTL DEF Spec
<1> DEFINE Step ==
      sound /\ entries \ entries' # {} =>
        \A name \in Names : \A path \in {name, <<".", "/">> \o name, <<"/">> \o name} :
          RemoveFile(path, TRUE, <<>>) => \A e \in entries \ entries' : e.File = Meaning(path)
<1>2. DirectoryInv => [Step]_vars
  BY RemovesIt
<1> QED
  BY <1>1, <1>2, PTL DEF RemovesName
=============================================================================
