------------------------------ MODULE Keyboard ------------------------------
(***************************************************************************)
(* What keyboard_handler_c makes of a scan code: the two tables of         *)
(* scancode.h and the decoding of drivers/keyboard.c.  A character is a    *)
(* string; NUL is the empty one.                                           *)
(***************************************************************************)
EXTENDS Naturals, Sequences

NUL == ""
LF == "LF"
BS == "BS"
CANCEL == "CANCEL"
CLEAR == "CLEAR"

BACKSPACE == 14
LCTRL == 29
LSHIFT == 42
RSHIFT == 54

normal_scan_code_table == [code \in 0 .. 127 |->
    IF code > 57 THEN NUL ELSE
    << NUL, NUL, "1", "2", "3", "4", "5", "6", "7", "8", "9", "0", "-", "=", NUL, NUL,
       "q", "w", "e", "r", "t", "y", "u", "i", "o", "p", "[", "]", LF, NUL, "a", "s",
       "d", "f", "g", "h", "j", "k", "l", ";", "'", "backquote", NUL, "backslash", "z", "x", "c", "v",
       "b", "n", "m", ",", ".", "/", NUL, NUL, NUL, " " >>[code + 1]]

shift_scan_code_table == [code \in 0 .. 127 |->
    IF code > 57 THEN NUL ELSE
    << NUL, NUL, "!", "@", "#", "$", "%", "^", "&", "star", "open", "close", "_", "+", NUL, NUL,
       "Q", "W", "E", "R", "T", "Y", "U", "I", "O", "P", "{", "}", LF, NUL, "A", "S",
       "D", "F", "G", "H", "J", "K", "L", ":", "quote", "~", NUL, "|", "Z", "X", "C", "V",
       "B", "N", "M", "<", ">", "?", NUL, NUL, NUL, " " >>[code + 1]]

Pressed(scancode) == scancode < 128

Code(scancode) == scancode % 128

\* The character the handler appends before the one of the tables, if any.
Command(code, pressed) ==
    CASE code = BACKSPACE -> <<BS>>
      [] LCTRL \in pressed /\ normal_scan_code_table[code] = "c" -> <<CANCEL>>
      [] LCTRL \in pressed /\ normal_scan_code_table[code] = "l" -> <<CLEAR>>
      [] OTHER -> <<>>

TableChar(code, pressed) ==
    IF {LSHIFT, RSHIFT} \cap pressed # {} THEN shift_scan_code_table[code]
    ELSE normal_scan_code_table[code]

isgraph(c) == c \notin {NUL, LF, BS, CANCEL, CLEAR, " "}
=============================================================================
