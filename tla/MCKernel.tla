------------------------------- MODULE MCKernel ------------------------------
EXTENDS Kernel

\* A printing key, and the release of a key.
PrintingKeys == {<<"char">>, <<>>}

\* Also a modifier key (one NUL) and BACKSPACE or Ctrl-C (two appends).
AllKeys == PrintingKeys \cup {<<NUL>>, <<"char", NUL>>, <<"char", "char">>}
=============================================================================
