----------------------------- MODULE PathNames -----------------------------
(***************************************************************************)
(* Paths as sequences of characters, and what fs/fs.c and common/utils.c   *)
(* do with them.                                                           *)
(***************************************************************************)
EXTENDS Integers, Sequences, FiniteSets, SequencesExt

StringStartWith(s, start) == IsPrefix(start, s)

Suffix(s, from) == SubSeq(s, from, Len(s))

CharCount(s, ch) == Cardinality({k \in DOMAIN s : s[k] = ch})

EndsInSlash(s) == s # <<>> /\ s[Len(s)] = "/"

\* The loops over a path: a slash ends a name.
Read(s) ==
  LET read[n \in 0 .. Len(s)] ==
        IF n = 0 THEN [names |-> <<>>, name |-> <<>>]
        ELSE IF s[n] = "/"
          THEN [names |-> Append(read[n - 1].names, read[n - 1].name), name |-> <<>>]
        ELSE [read[n - 1] EXCEPT !.name = Append(@, s[n])]
  IN  read[Len(s)]

\* The names they find: the end of the path ends one too, unless it is empty.
NamesOf(s) ==
  IF Read(s).name = <<>> THEN Read(s).names ELSE Append(Read(s).names, Read(s).name)

\* The last slash that has something behind it, 0 if there is none.
LastSlash(s) ==
  LET places == {k \in DOMAIN s : s[k] = "/" /\ k < Len(s)}
  IN  IF places = {} THEN 0 ELSE CHOOSE k \in places : \A j \in places : j <= k

\* How many times by characters are taken off a path, as long as what is left
\* is to go on.
Turns(s, GoesOn(_), by) ==
  CHOOSE n \in 0 .. Len(s) : /\ ~GoesOn(Suffix(s, n * by + 1))
                              /\ \A k \in 0 .. n - 1 : GoesOn(Suffix(s, k * by + 1))

(***************************************************************************)
(* pathBackStep: len - path[len-1] == '/' compares the difference, which   *)
(* is 47 for no path of usual length, so that the loop begins at the       *)
(* second character and goes down.  Where neither of the first two is a    *)
(* slash it leaves the buffer; the path stays as it is.                    *)
(***************************************************************************)
pathBackStep(s) ==
  IF StringStartWith(s, <<".", "/">>) \/ s = <<"/">> THEN s
  ELSE IF CharCount(s, "/") = 1 THEN SubSeq(s, 1, 1)
  ELSE IF s[2] = "/" THEN SubSeq(s, 1, 1)
  ELSE IF s[1] = "/" THEN <<>>
  ELSE s
=============================================================================
