------------------------------- MODULE Screen -------------------------------
(***************************************************************************)
(* Text output (src/video.c): put_char with wrapping, scrolling, tabs and  *)
(* backspace, the cursor bar it hides and draws, and update_cursor, which  *)
(* the timer calls to blink the bar. console_write holds interrupts off,   *)
(* so a character is one step. Positions are character cells; row max_line *)
(* is the last that fits on the screen. Bars below the screen are kept     *)
(* too, though put_pixel drops their pixels.                               *)
(***************************************************************************)
EXTENDS Integers

CONSTANTS
    max_col,    \* columns
    max_line,   \* index of the last row
    tab_space,  \* columns of a tab
    MaxDown,    \* bound on rows below the screen
    MaxRight    \* bound on columns beside it, where tabs lead

VARIABLES
    scr,     \* the screen: col, line, cursor_visible, the cells with a bar, and
             \* the row of the last glyph (-1 before the first)
    breaks   \* line breaks (and wraps) since the last glyph, and the most ever

screenVars == <<scr, breaks>>

Pos(s) == <<s.col, s.line>>

-----------------------------------------------------------------------------
(* The functions of video.c, from one screen to the next *)

hide_cursor(s) ==
    [s EXCEPT !.cursor_visible = FALSE,
              !.bars = IF s.cursor_visible THEN @ \ {Pos(s)} ELSE @]

draw_cursor(s) ==
    [s EXCEPT !.cursor_visible = TRUE,
              !.bars = IF s.cursor_visible THEN @ ELSE @ \union {Pos(s)}]

_newline(s) == draw_cursor([hide_cursor(s) EXCEPT !.line = @ + 1, !.col = 0])

move_cursor_right(s) ==
    draw_cursor([hide_cursor(s) EXCEPT !.col = IF @ < max_col THEN @ + 1 ELSE @])

move_cursor_left(s) ==
    draw_cursor([hide_cursor(s) EXCEPT !.col = IF @ > 0 THEN @ - 1 ELSE @])

\* Mutant of _scroll_up: the line number stays behind.
_scroll_up_line(s) == [s EXCEPT !.bars = {<<b[1], b[2] - 1>> : b \in {c \in @ : c[2] > 0}}]

\* _scroll_up, and the line that put_char takes off after it: everything on
\* the screen moves up a row.
_scroll_up(s) ==
    [s EXCEPT !.bars = {<<b[1], b[2] - 1>> : b \in {c \in @ : c[2] > 0}}, !.line = @ - 1]

\* put_char's tests before it draws a glyph.
Wrapped(s) == IF s.col >= max_col THEN _newline(s) ELSE s
Scrolled(s) == IF s.line >= max_line THEN _scroll_up(s) ELSE s

\* A glyph fills its cell, and any bar in it.
PutGlyph(s) ==
    LET t == Scrolled(Wrapped(s))
    IN  move_cursor_right([t EXCEPT !.bars = @ \ {Pos(t)}, !.at = Pos(t)])

put_char(s, c) ==
    LET t == hide_cursor(s)
    IN  CASE c = "newline"   -> _newline(t)
          [] c = "tab"       -> [t EXCEPT !.col = (@ - (@ % tab_space)) + tab_space]
          [] c = "backspace" -> move_cursor_left(PutGlyph(hide_cursor(move_cursor_left(t))))
          [] OTHER           -> PutGlyph(t)

-----------------------------------------------------------------------------

\* init_fb
ScreenInit ==
    /\ scr = [col |-> 0, line |-> 0, cursor_visible |-> FALSE, bars |-> {}, at |-> <<0, -1>>]
    /\ breaks = [now |-> 0, most |-> 0]

\* console_write of one character.
PutChar(c) ==
    LET break == \/ c = "newline"
                 \/ c = "glyph" /\ scr.col >= max_col
                 \/ c = "backspace" /\ scr.col > max_col
        now == breaks.now + (IF break THEN 1 ELSE 0)
    IN  /\ put_char(scr, c).line <= max_line + MaxDown
        /\ put_char(scr, c).col <= max_col + MaxRight
        /\ scr' = put_char(scr, c)
        /\ breaks' = [now |-> IF c \in {"newline", "tab"} THEN now ELSE 0,
                       most |-> IF now > breaks.most THEN now ELSE breaks.most]

\* update_cursor, at every 50th tick.
Blink ==
    /\ scr' = IF scr.cursor_visible THEN hide_cursor(scr) ELSE draw_cursor(scr)
    /\ UNCHANGED breaks

\* clear_screen forgets the bar but not that it is visible.
ClearScreen ==
    /\ scr' = [scr EXCEPT !.col = 0, !.line = 0, !.bars = {}]
    /\ breaks' = [breaks EXCEPT !.now = 0]

ScreenNext ==
    \/ \E c \in {"glyph", "newline", "tab", "backspace"} : PutChar(c)
    \/ Blink
    \/ ClearScreen

ScreenSpec == ScreenInit /\ [][ScreenNext]_screenVars

-----------------------------------------------------------------------------
(* Properties *)

\* No cursor bar is left behind: whatever is printed, scrolled, blinked or
\* cleared, the only bar on the screen is at the place of the next character,
\* and there is none when cursor_visible says so.
NoGhostCursor ==
    /\ scr.bars \subseteq {Pos(scr)}
    /\ ~scr.cursor_visible => scr.bars = {}

\* Glyphs are drawn inside the columns and, as long as a text has no empty line,
\* inside the rows; col and line, which are unsigned, never wrap. (put_char
\* scrolls one row for a glyph and none for a line break, so empty lines lead
\* below the screen.)
TextOnScreen ==
    /\ scr.col >= 0 /\ scr.line >= 0
    /\ scr.at[1] < max_col
    /\ breaks.most <= 1 => scr.at[2] <= max_line

\* put_char, update_cursor and clear_screen leave no cursor bar behind and draw
\* text without empty lines inside the screen.
ScreenSound == NoGhostCursor /\ TextOnScreen
=============================================================================
