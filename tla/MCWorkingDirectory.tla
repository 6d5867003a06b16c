------------------------- MODULE MCWorkingDirectory -------------------------
EXTENDS WorkingDirectory

TwoNames == {<<"a">>, <<"a", "a">>}
ThreeInodes == 0 .. 3

\* The paths up to this many characters, without names that hold a dot next to
\* a letter or a third one.
Typed(length) ==
  {s \in UNION {[1 .. n -> {"a", "/", "."}] : n \in 0 .. length} :
     \A k \in 1 .. Len(s) - 1 :
        /\ {s[k], s[k + 1]} # {"a", "."}
        /\ k > 1 => {s[k - 1], s[k], s[k + 1]} # {"."}}
FourCharacters == Typed(4)
FiveCharacters == Typed(5)

MayFollow == {<<>>, <<"a">>}
Nothing == {<<>>}
=============================================================================
