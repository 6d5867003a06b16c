------------------------------- MODULE MCGFS -------------------------------
EXTENDS GFS

CONSTANTS a, b, c

TwoNames == {a, b}
ThreeNames == {a, b, c}
TwoAndNone == {a, b, ""}

OneText == {<<"y", "y", "y">>}
TwoTexts == {<<"x">>, <<"y", "\n", "y">>}
=============================================================================
