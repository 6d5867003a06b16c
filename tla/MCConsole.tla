------------------------------ MODULE MCConsole ------------------------------
EXTENDS Console

ShortTexts ==
  {<<"x">>, <<"BS">>, <<"HT">>, <<"LF">>, <<"CR">>,
   <<"x", "x">>, <<"x", "LF">>, <<"LF", "LF">>, <<"BS", "x">>}

ShortMessages == {<<"x", "LF">>, <<"x", "x">>}

OneCharacter == {<<"x">>, <<"LF">>}

Echoes == {<<"x">>}

NoMessages == {}

\* A console that was garbled promises nothing and is not followed.
Followed == ~garbled
=============================================================================
