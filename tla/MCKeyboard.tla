----------------------------- MODULE MCKeyboard -----------------------------
EXTENDS Keyboard

\* A letter, Enter, backspace and both control keys.
FiveKeys ==
  {<<"KEY_A", 2>>, <<"KEY_ENTER", 2>>, <<"KEY_BACKSPACE", 2>>, <<"KEY_CTRL_L", 2>>,
   <<"KEY_CTRL_L", 3>>}

LineKeys == {<<"KEY_A", 2>>, <<"KEY_ENTER", 2>>}
=============================================================================
