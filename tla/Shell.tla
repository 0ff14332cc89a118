------------------------------- MODULE Shell --------------------------------
(***************************************************************************)
(* From the keys to the command line of userland/shell.c.  A key enters    *)
(* keyboard_handler_c, which may append two characters with a yield after  *)
(* each; the timer's EOI lets the next key in before the second one.  The  *)
(* shell takes the characters from the buffer one by one and edits its     *)
(* line.  The buffer itself, its reader and the scheduler are in Kernel.   *)
(***************************************************************************)
EXTENDS Keyboard

CONSTANTS Scancodes,        \* what the controller may send, in 0 .. 255
          KDB_BUFFER_SIZE,
          LINE,             \* 127, the most characters of a line
          HISTORY,          \* 100, the rows of history_buffer
          EXIT,             \* the line "exit"
          MaxLate           \* bound: handlers waiting for their second character

VARIABLES key_pressed,      \* the pressed ones of the keys the handler asks for
          late,             \* keys whose handler has yet to append the table's character
          kdb_queue, input_buffer, index, history_buffer,
          status,           \* "running"; "exited"; "overrun": strcpy went past history_buffer
          typed             \* ghost: what the keys pressed so far should have made

shellVars == <<key_pressed, late, kdb_queue, input_buffer, index, history_buffer, status, typed>>

Modifiers == {LCTRL, LSHIFT, RSHIFT}

Blank == [cell \in 0 .. LINE |-> NUL]

\* main's clear_buffer on a zeroed buffer.
ShellInit ==
    /\ key_pressed = {}
    /\ late = <<>>
    /\ kdb_queue = <<>>
    /\ input_buffer = Blank
    /\ index = 0
    /\ history_buffer = <<>>
    /\ status = "running"
    /\ typed = [line |-> <<>>, entered |-> <<>>, exact |-> TRUE]

\* The C string at the start of the buffer.
Line == LET n == CHOOSE n \in 0 .. LINE :
                     /\ input_buffer[n] = NUL \/ n = LINE
                     /\ \A k \in 0 .. n - 1 : input_buffer[k] # NUL
        IN [k \in 1 .. n |-> input_buffer[k - 1]]

append_to_input_buffer(c) ==
    kdb_queue' = IF Len(kdb_queue) < KDB_BUFFER_SIZE THEN Append(kdb_queue, c) ELSE kdb_queue

-----------------------------------------------------------------------------
(* What a key means to the person who presses it: the reference.  Space is *)
(* not isgraph, so a line has none; the letter of Ctrl-C and of Ctrl-L     *)
(* starts the next line, because the handler appends it too.               *)

KEY_C == 46
KEY_L == 38

\* A line nothing is promised about: no line has a NUL.
ANY == <<NUL>>

AfterChar(t, c) ==
    CASE c = LF -> [t EXCEPT !.line = <<>>, !.entered = Append(@, t.line)]
      [] isgraph(c) /\ t.line # ANY /\ Len(t.line) < LINE -> [t EXCEPT !.line = Append(@, c)]
      [] OTHER -> t

AfterKey(t, code, pressed) ==
    IF code = BACKSPACE
    THEN [t EXCEPT !.line = IF @ = ANY THEN ANY ELSE SubSeq(@, 1, Len(@) - 1)]
    ELSE AfterChar([t EXCEPT !.line = IF LCTRL \in pressed /\ code \in {KEY_C, KEY_L}
                                      THEN <<>> ELSE @],
                   IF LSHIFT \in pressed \/ RSHIFT \in pressed
                   THEN shift_scan_code_table[code] ELSE normal_scan_code_table[code])

Unknown == [line |-> ANY, entered |-> <<>>, exact |-> FALSE]

\* The reference ends once a character was dropped.
Judge(t) == IF t.exact /\ Len(kdb_queue) < KDB_BUFFER_SIZE THEN t ELSE Unknown

\* A key that overtakes the letter of Ctrl-C or Ctrl-L moves it, into this line or a
\* later one, or changes its case.
Overtaken(t) ==
    IF \E k \in DOMAIN late : late[k] # BACKSPACE THEN [t EXCEPT !.line = ANY] ELSE t

-----------------------------------------------------------------------------
(* keyboard_handler_c. *)

Release(scancode) ==
    /\ ~Pressed(scancode)
    /\ key_pressed' = key_pressed \ {Code(scancode)}
    /\ typed' = Overtaken(typed)
    /\ UNCHANGED <<late, kdb_queue, input_buffer, index, history_buffer, status>>

\* Up to the first kernel_yield: the command if there is one, else the table's
\* character, which is the last.
Press(scancode) ==
    LET code == Code(scancode)
        pressed == key_pressed \cup ({code} \cap Modifiers)
        first == Command(code, pressed)
    IN /\ Pressed(scancode)
       /\ first # <<>> => Len(late) < MaxLate
       /\ key_pressed' = pressed
       /\ append_to_input_buffer(IF first = <<>> THEN TableChar(code, pressed) ELSE Head(first))
       /\ late' = IF first = <<>> THEN late ELSE Append(late, code)
       /\ typed' = Judge(Overtaken(AfterKey(Overtaken(typed), code, pressed)))
       /\ UNCHANGED <<input_buffer, index, history_buffer, status>>

\* After that yield: the table's character, by the keys that are pressed now.
Finish(k) ==
    /\ append_to_input_buffer(TableChar(late[k], key_pressed))
    /\ late' = SubSeq(late, 1, k - 1) \o SubSeq(late, k + 1, Len(late))
    /\ typed' = Judge(typed)
    /\ UNCHANGED <<key_pressed, input_buffer, index, history_buffer, status>>

-----------------------------------------------------------------------------
(* The shell's loop: one getchar and what follows it. *)

\* Faulty variant: the cell under the cursor is skipped.
clear_buffer_short ==
    /\ input_buffer' = [cell \in 0 .. LINE |-> IF cell < index - 1 THEN NUL ELSE input_buffer[cell]]
    /\ index' = 0

clear_buffer ==
    /\ input_buffer' = [cell \in 0 .. LINE |-> IF cell <= index THEN NUL ELSE input_buffer[cell]]
    /\ index' = 0

\* The line goes to the history, is executed unless empty, and is cleared.  Nothing
\* keeps history_index below the number of rows.
EnterLine ==
    \/ /\ Len(history_buffer) < HISTORY
       /\ history_buffer' = Append(history_buffer, Line)
       /\ status' = IF index > 0 /\ Line = EXIT THEN "exited" ELSE "running"
       /\ IF index = 0 THEN UNCHANGED <<input_buffer, index>> ELSE clear_buffer
    \/ /\ Len(history_buffer) = HISTORY
       /\ status' = "overrun"
       /\ UNCHANGED <<history_buffer, input_buffer, index>>

Erase ==
    /\ IF index > 0
       THEN /\ index' = index - 1
            /\ input_buffer' = [input_buffer EXCEPT ![index - 1] = NUL]
       ELSE UNCHANGED <<input_buffer, index>>
    /\ UNCHANGED <<history_buffer, status>>

Insert(c) ==
    /\ IF index < LINE /\ isgraph(c)
       THEN /\ input_buffer' = [input_buffer EXCEPT ![index] = c]
            /\ index' = index + 1
       ELSE UNCHANGED <<input_buffer, index>>
    /\ UNCHANGED <<history_buffer, status>>

Getchar ==
    /\ status = "running"
    /\ kdb_queue # <<>>
    /\ kdb_queue' = Tail(kdb_queue)
    /\ LET c == Head(kdb_queue) IN
         \/ c = LF /\ EnterLine
         \/ c = BS /\ Erase
         \/ c \in {CLEAR, CANCEL} /\ clear_buffer /\ UNCHANGED <<history_buffer, status>>
         \/ c \notin {LF, BS, CLEAR, CANCEL} /\ Insert(c)
    /\ UNCHANGED <<key_pressed, late, typed>>

\* Behind an overrun the shell's own variables hold anything.
ShellNext ==
    /\ status # "overrun"
    /\ \/ \E scancode \in Scancodes : Press(scancode) \/ Release(scancode)
       \/ \E k \in DOMAIN late : Finish(k)
       \/ Getchar

ShellSpec == ShellInit /\ [][ShellNext]_shellVars

-----------------------------------------------------------------------------

Meant(line, reference) == reference = ANY \/ line = reference

\* Once the shell has taken every character, its line and its history are the
\* ones the keys made (shell.c:59-87 against keyboard.c:37-87), unless the buffer
\* was full.  A key that overtakes the second half of another (keyboard.c:70, 76)
\* damages no line but those typed between the two halves and the one the second half
\* falls into, and adds no line and loses none; a late backspace damages nothing.
\* strcpy leaves history_buffer (shell.c:64) only at a line that was typed behind its
\* last row.  The cells behind the line are always zero: strcpy and strcmp
\* (shell.c:42-46, 64) take input_buffer for a C string although nothing terminates it
\* when a character is added.
LineAsTyped ==
    /\ \A cell \in index .. LINE : input_buffer[cell] = NUL
    /\ typed.exact /\ late = <<>> /\ kdb_queue = <<>> /\ status = "running" =>
         /\ Meant(Line, typed.line)
         /\ Len(history_buffer) = Len(typed.entered)
         /\ \A k \in DOMAIN history_buffer : Meant(history_buffer[k], typed.entered[k])
    /\ typed.exact /\ status = "overrun" => Len(typed.entered) > HISTORY
=============================================================================
