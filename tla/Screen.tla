-------------------------------- MODULE Screen ------------------------------
(***************************************************************************)
(* The text screen of display/display.c as a value: the cells of video     *)
(* memory in reading order and the cursor, with what kputc makes of them.  *)
(***************************************************************************)
EXTENDS Integers

CONSTANTS
    VGA_WIDTH, VGA_HEIGHT,
    Glyph,      \* characters from ' ' up, the ones kputc draws
    Space,      \* ' '
    Newline,    \* '\n'
    Backspace   \* '\b'

ASSUME ScreenAssumption ==
    /\ VGA_WIDTH \in Nat \ {0}
    /\ VGA_HEIGHT \in Nat \ {0}
    /\ Space \in Glyph
    /\ Newline \notin Glyph /\ Backspace \notin Glyph
    /\ Newline # Backspace

Cells == 0 .. VGA_WIDTH * VGA_HEIGHT - 1

Screens ==
    [ vga : [Cells -> Glyph],
      cursor_x : 0 .. VGA_WIDTH - 1,
      cursor_y : 0 .. VGA_HEIGHT - 1 ]

At(x, y) == y * VGA_WIDTH + x

\* The cell under the cursor.
Cursor(scr) == At(scr.cursor_x, scr.cursor_y)

\* kclean_display
Clean == [vga |-> [c \in Cells |-> Space], cursor_x |-> 0, cursor_y |-> 0]

\* Mutant: the last row is copied up but not blanked.
ScrolledUp_KeepLast(scr) ==
    [vga |-> [c \in Cells |->
                IF c < At(0, VGA_HEIGHT - 1) THEN scr.vga[c + VGA_WIDTH]
                                             ELSE scr.vga[c]],
     cursor_x |-> scr.cursor_x,
     cursor_y |-> VGA_HEIGHT - 1]

\* kscroll_up
ScrolledUp(scr) ==
    [vga |-> [c \in Cells |->
                IF c < At(0, VGA_HEIGHT - 1) THEN scr.vga[c + VGA_WIDTH]
                                             ELSE Space],
     cursor_x |-> scr.cursor_x,
     cursor_y |-> VGA_HEIGHT - 1]

\* The three kinds of character kputc acts on; any other is ignored.
Placed(scr, c) ==
    IF c = Newline THEN
        [scr EXCEPT !.cursor_x = 0, !.cursor_y = @ + 1]
    ELSE IF c = Backspace THEN
        IF scr.cursor_x > 0 THEN
            [scr EXCEPT !.cursor_x = @ - 1, !.vga[Cursor(scr) - 1] = Space]
        ELSE IF scr.cursor_y > 0 THEN
            [scr EXCEPT !.cursor_x = VGA_WIDTH - 1, !.cursor_y = @ - 1,
                        !.vga[Cursor(scr) - 1] = Space]
        ELSE scr
    ELSE IF c \in Glyph THEN
        [scr EXCEPT !.cursor_x = @ + 1, !.vga[Cursor(scr)] = c]
    ELSE scr

Wrapped(scr) ==
    IF scr.cursor_x >= VGA_WIDTH
       THEN [scr EXCEPT !.cursor_x = 0, !.cursor_y = @ + 1] ELSE scr

kputc(scr, c) ==
    LET next == Wrapped(Placed(scr, c)) IN
    IF next.cursor_y >= VGA_HEIGHT THEN ScrolledUp(next) ELSE next
=============================================================================
