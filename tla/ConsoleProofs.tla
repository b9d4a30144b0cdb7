---------------------------- MODULE ConsoleProofs ---------------------------
(***************************************************************************)
(* Proofs about Console, for every screen on which a line fits, every      *)
(* keyboard table and every size of the controller's buffer.               *)
(***************************************************************************)
EXTENDS Console, SequenceTheorems, WellFoundedInduction, TLAPS

-----------------------------------------------------------------------------
(***************************************************************************)
(* What kputc does to the cells before the cursor and to those from it on. *)
(***************************************************************************)

\* Nothing stands at the cursor or behind it.
Blank(scr) == \A c \in Cells : c >= Cursor(scr) => scr.vga[c] = Space

Size == VGA_WIDTH * VGA_HEIGHT

LEMMA SizeFacts ==
    /\ VGA_WIDTH \in Nat /\ VGA_WIDTH > 0
    /\ VGA_HEIGHT \in Nat /\ VGA_HEIGHT > 0
    /\ MAX_COMMAND_LEN \in Nat /\ MAX_COMMAND_LEN > 0
    /\ Size \in Nat /\ VGA_WIDTH + MAX_COMMAND_LEN + 2 <= Size
    /\ Cells = 0 .. Size - 1
  BY ScreenAssumption, ConsoleAssumption DEF Size, Cells

\* The cursor stands on a cell, on the last one only at the end of the last
\* row.
LEMMA CursorCell ==
    ASSUME NEW x \in 0 .. VGA_WIDTH - 1, NEW y \in 0 .. VGA_HEIGHT - 1
    PROVE  /\ At(x, y) \in Cells
           /\ At(x, y) = Size - 1 <=> x = VGA_WIDTH - 1 /\ y = VGA_HEIGHT - 1
           /\ At(x, y) = 0 <=> x = 0 /\ y = 0
           /\ y > 0 => At(VGA_WIDTH - 1, y - 1) = At(0, y) - 1
           /\ At(0, y + 1) = At(VGA_WIDTH - 1, y) + 1
           /\ At(x + 1, y) = At(x, y) + 1
           /\ At(x - 1, y) = At(x, y) - 1
           /\ At(x, y) <= At(VGA_WIDTH - 1, y)
           /\ At(x, y) \in Nat
           /\ At(0, VGA_HEIGHT - 1) = Size - VGA_WIDTH
  <1>1. y * VGA_WIDTH \in Nat /\ y * VGA_WIDTH <= (VGA_HEIGHT - 1) * VGA_WIDTH
    BY SizeFacts
  <1>2. (VGA_HEIGHT - 1) * VGA_WIDTH = Size - VGA_WIDTH
    BY SizeFacts DEF Size
  <1>3. y < VGA_HEIGHT - 1 => y * VGA_WIDTH <= (VGA_HEIGHT - 1) * VGA_WIDTH - VGA_WIDTH
    <2> SUFFICES ASSUME y < VGA_HEIGHT - 1
                 PROVE  y * VGA_WIDTH <= (VGA_HEIGHT - 1) * VGA_WIDTH - VGA_WIDTH
      OBVIOUS
    <2>1. (y + 1) * VGA_WIDTH <= (VGA_HEIGHT - 1) * VGA_WIDTH
      BY SizeFacts
    <2> QED  BY <2>1, SizeFacts
  <1>4. y > 0 => y * VGA_WIDTH >= VGA_WIDTH
    BY SizeFacts
  <1>5. (y + 1) * VGA_WIDTH = y * VGA_WIDTH + VGA_WIDTH
        /\ (y - 1) * VGA_WIDTH = y * VGA_WIDTH - VGA_WIDTH
    BY SizeFacts
  <1>6. /\ At(x, y) = y * VGA_WIDTH + x
        /\ At(0, y) = y * VGA_WIDTH
        /\ At(VGA_WIDTH - 1, y) = y * VGA_WIDTH + VGA_WIDTH - 1
        /\ At(0, y + 1) = y * VGA_WIDTH + VGA_WIDTH
        /\ At(x + 1, y) = y * VGA_WIDTH + x + 1
        /\ At(x - 1, y) = y * VGA_WIDTH + x - 1
        /\ At(VGA_WIDTH - 1, y - 1) = y * VGA_WIDTH - 1
        /\ At(0, VGA_HEIGHT - 1) = Size - VGA_WIDTH
    BY <1>1, <1>2, <1>5, SizeFacts DEF At
  <1> DEFINE row == y * VGA_WIDTH
  <1>7. row \in Nat /\ row <= Size - VGA_WIDTH
        /\ (y < VGA_HEIGHT - 1 => row <= Size - VGA_WIDTH - VGA_WIDTH)
        /\ (y > 0 => row >= VGA_WIDTH)
        /\ (y = VGA_HEIGHT - 1 => row = Size - VGA_WIDTH)
        /\ (y = 0 => row = 0)
    BY <1>1, <1>2, <1>3, <1>4, SizeFacts
  <1>8. /\ At(x, y) = row + x
        /\ At(0, y) = row
        /\ At(VGA_WIDTH - 1, y) = row + VGA_WIDTH - 1
        /\ At(0, y + 1) = row + VGA_WIDTH
        /\ At(x + 1, y) = row + x + 1
        /\ At(x - 1, y) = row + x - 1
        /\ At(VGA_WIDTH - 1, y - 1) = row - 1
        /\ At(0, VGA_HEIGHT - 1) = Size - VGA_WIDTH
    BY <1>6
  <1> HIDE DEF row
  <1>9. At(x, y) \in Nat /\ At(x, y) <= Size - 1
    BY <1>7, <1>8, SizeFacts
  <1>10. At(x, y) = Size - 1 <=> x = VGA_WIDTH - 1 /\ y = VGA_HEIGHT - 1
    <2>1. y < VGA_HEIGHT - 1 => At(x, y) <= Size - VGA_WIDTH - VGA_WIDTH + x
      BY <1>7, <1>8, SizeFacts
    <2>2. y = VGA_HEIGHT - 1 => At(x, y) = Size - VGA_WIDTH + x
      BY <1>7, <1>8
    <2>3. y < VGA_HEIGHT - 1 \/ y = VGA_HEIGHT - 1
      BY SizeFacts
    <2> QED  BY <1>9, <2>1, <2>2, <2>3, SizeFacts
  <1>11. At(x, y) = 0 <=> x = 0 /\ y = 0
    <2>1. y > 0 => At(x, y) >= VGA_WIDTH + x
      BY <1>7, <1>8, SizeFacts
    <2>2. y = 0 => At(x, y) = x
      BY <1>7, <1>8
    <2> QED  BY <1>9, <2>1, <2>2, SizeFacts
  <1> QED
    BY <1>7, <1>8, <1>9, <1>10, <1>11, SizeFacts

LEMMA ScreenFields ==
    ASSUME NEW scr \in Screens
    PROVE  /\ scr.cursor_x \in 0 .. VGA_WIDTH - 1
           /\ scr.cursor_y \in 0 .. VGA_HEIGHT - 1
           /\ scr.vga \in [Cells -> Glyph]
           /\ Cursor(scr) \in Cells
           /\ Cursor(scr) \in Nat
           /\ Cursor(scr) <= Size - 1
  <1>1. /\ scr.cursor_x \in 0 .. VGA_WIDTH - 1
        /\ scr.cursor_y \in 0 .. VGA_HEIGHT - 1
        /\ scr.vga \in [Cells -> Glyph]
    BY DEF Screens
  <1>2. Cursor(scr) \in Cells
    BY <1>1, CursorCell DEF Cursor
  <1> QED  BY <1>1, <1>2, SizeFacts

LEMMA NewScreen ==
    ASSUME NEW vga \in [Cells -> Glyph],
           NEW x \in 0 .. VGA_WIDTH - 1, NEW y \in 0 .. VGA_HEIGHT - 1,
           NEW scr, scr = [vga |-> vga, cursor_x |-> x, cursor_y |-> y]
    PROVE  scr \in Screens /\ scr.vga = vga /\ Cursor(scr) = At(x, y)
  BY DEF Screens, Cursor

\* What becomes of a cursor that has moved to the beginning of the next row:
\* behind the last row all moves up by one.
LEMMA RowEnds ==
    ASSUME NEW vga \in [Cells -> Glyph], NEW y \in 1 .. VGA_HEIGHT,
           NEW next, next = [vga |-> vga, cursor_x |-> 0, cursor_y |-> y],
           NEW after,
           after = IF next.cursor_y >= VGA_HEIGHT THEN ScrolledUp(next) ELSE next,
           NEW up, up = IF y = VGA_HEIGHT THEN VGA_WIDTH ELSE 0
    PROVE  /\ after \in Screens
           /\ Cursor(after) = At(0, y) - up
           /\ \A p \in Cells :
                 after.vga[p] = IF p + up < Size THEN vga[p + up] ELSE Space
  <1>1. /\ next.cursor_y = y /\ next.vga = vga
        /\ 0 \in 0 .. VGA_WIDTH - 1 /\ VGA_HEIGHT - 1 \in 0 .. VGA_HEIGHT - 1
    BY SizeFacts
  <1>2. CASE y < VGA_HEIGHT
    <2>1. after = next /\ up = 0 /\ y \in 0 .. VGA_HEIGHT - 1
      BY <1>1, <1>2, SizeFacts
    <2>2. after \in Screens /\ after.vga = vga /\ Cursor(after) = At(0, y)
      BY <1>1, <2>1, NewScreen
    <2>3. At(0, y) \in Int
      BY SizeFacts DEF At
    <2> QED  BY <2>1, <2>2, <2>3, SizeFacts
  <1>3. CASE y = VGA_HEIGHT
    <2> DEFINE moved == [p \in Cells |-> IF p < At(0, VGA_HEIGHT - 1)
                                           THEN vga[p + VGA_WIDTH] ELSE Space]
    <2>1. after = ScrolledUp(next) /\ up = VGA_WIDTH
      BY <1>1, <1>3, SizeFacts
    <2>2. after = [vga |-> moved, cursor_x |-> 0, cursor_y |-> VGA_HEIGHT - 1]
      BY <2>1 DEF ScrolledUp
    <2>3. At(0, VGA_HEIGHT - 1) = Size - VGA_WIDTH
      BY <1>1, CursorCell
    <2>4. moved \in [Cells -> Glyph]
      <3>1. \A p \in Cells : p < Size - VGA_WIDTH => p + VGA_WIDTH \in Cells
        BY SizeFacts
      <3> QED  BY <2>3, <3>1, ScreenAssumption
    <2>5. \A p \in Cells : moved[p] = IF p < Size - VGA_WIDTH
                                        THEN vga[p + VGA_WIDTH] ELSE Space
      BY <2>3
    <2> HIDE DEF moved
    <2>6. /\ after \in Screens /\ after.vga = moved
          /\ Cursor(after) = At(0, VGA_HEIGHT - 1)
      BY <1>1, <2>2, <2>4, NewScreen
    <2>7. At(0, y) = Size
      BY <1>3, SizeFacts DEF At, Size
    <2> QED  BY <2>1, <2>3, <2>5, <2>6, <2>7, SizeFacts
  <1> QED  BY <1>2, <1>3, SizeFacts

\* A character that is drawn goes to the cursor, the cursor moves on by one,
\* and at the end of the screen all moves up by a row.
LEMMA PutGlyph ==
    ASSUME NEW scr \in Screens, Blank(scr), NEW c \in Glyph,
           NEW after, after = kputc(scr, c),
           NEW up, up = IF Cursor(scr) = Size - 1 THEN VGA_WIDTH ELSE 0
    PROVE  /\ after \in Screens /\ Blank(after)
           /\ Cursor(after) = Cursor(scr) + 1 - up
           /\ \A p \in 0 .. Cursor(scr) - up :
                 after.vga[p] = IF p + up = Cursor(scr) THEN c ELSE scr.vga[p + up]
  <1> DEFINE x == scr.cursor_x
             y == scr.cursor_y
             drawn == [scr.vga EXCEPT ![Cursor(scr)] = c]
             next == Wrapped(Placed(scr, c))
  <1>1. /\ x \in 0 .. VGA_WIDTH - 1 /\ y \in 0 .. VGA_HEIGHT - 1
        /\ scr.vga \in [Cells -> Glyph]
        /\ Cursor(scr) \in Cells /\ Cursor(scr) = At(x, y)
    BY ScreenFields DEF Cursor
  <1>2. Placed(scr, c) = [vga |-> drawn, cursor_x |-> x + 1, cursor_y |-> y]
    BY ScreenAssumption DEF Placed, Screens
  <1>3. /\ drawn \in [Cells -> Glyph] /\ drawn[Cursor(scr)] = c
        /\ \A p \in Cells : p # Cursor(scr) => drawn[p] = scr.vga[p]
    BY <1>1
  <1>4. \A p \in Cells : p > Cursor(scr) => drawn[p] = Space
    BY <1>1, <1>3, SizeFacts DEF Blank
  <1>8. /\ At(x, y) = Size - 1 <=> x = VGA_WIDTH - 1 /\ y = VGA_HEIGHT - 1
        /\ At(0, y + 1) = At(VGA_WIDTH - 1, y) + 1
        /\ At(x + 1, y) = At(x, y) + 1
    BY <1>1, CursorCell
  <1>9. Cursor(scr) \in Nat /\ Cursor(scr) <= Size - 1
    BY <1>1, SizeFacts
  <1>5. after = IF next.cursor_y >= VGA_HEIGHT THEN ScrolledUp(next) ELSE next
    BY DEF kputc
  <1> HIDE DEF drawn
  <1>6. CASE x + 1 < VGA_WIDTH
    <2>1. next = [vga |-> drawn, cursor_x |-> x + 1, cursor_y |-> y]
      BY <1>1, <1>2, <1>6, SizeFacts DEF Wrapped
    <2> HIDE DEF next
    <2>2. after = next /\ x + 1 \in 0 .. VGA_WIDTH - 1
      BY <1>1, <1>5, <1>6, <2>1, SizeFacts
    <2>3. after \in Screens /\ after.vga = drawn /\ Cursor(after) = Cursor(scr) + 1
      BY <1>1, <1>3, <1>8, <2>1, <2>2, NewScreen
    <2>4. up = 0
      BY <1>1, <1>6, <1>8, SizeFacts
    <2>5. Blank(after)
      BY <1>1, <1>4, <2>3, SizeFacts DEF Blank
    <2>6. \A p \in 0 .. Cursor(scr) - up :
              after.vga[p] = IF p + up = Cursor(scr) THEN c ELSE scr.vga[p + up]
      BY <1>3, <1>9, <2>3, <2>4, SizeFacts
    <2>7. Cursor(after) = Cursor(scr) + 1 - up
      BY <1>9, <2>3, <2>4
    <2> QED  BY <2>3, <2>5, <2>6, <2>7
  <1>7. CASE x + 1 = VGA_WIDTH
    <2>1. next = [vga |-> drawn, cursor_x |-> 0, cursor_y |-> y + 1]
      <3>1. Placed(scr, c).cursor_x >= VGA_WIDTH
        BY <1>2, <1>7, SizeFacts
      <3>2. next = [[vga |-> drawn, cursor_x |-> x + 1, cursor_y |-> y]
                        EXCEPT !.cursor_x = 0, !.cursor_y = @ + 1]
        BY <1>2, <3>1, Zenon DEF Wrapped
      <3> QED  BY <3>2
    <2> HIDE DEF next
    <2>2. y + 1 \in 1 .. VGA_HEIGHT /\ x = VGA_WIDTH - 1
      <3>1. x + 1 = VGA_WIDTH
        BY <1>7
      <3>2. /\ x \in 0 .. VGA_WIDTH - 1 /\ y \in 0 .. VGA_HEIGHT - 1
            /\ VGA_WIDTH \in Nat /\ VGA_HEIGHT \in Nat
        BY <1>1, SizeFacts, Zenon
      <3> HIDE DEF x, y
      <3> QED  BY <3>1, <3>2
    <2>3. At(0, y + 1) = Cursor(scr) + 1
      BY <1>1, <1>8, <2>2
    <2>4. up = IF y + 1 = VGA_HEIGHT THEN VGA_WIDTH ELSE 0
      BY <1>1, <1>8, <2>2, SizeFacts
    <2>5. /\ after \in Screens
          /\ Cursor(after) = At(0, y + 1) - up
          /\ \A p \in Cells :
                after.vga[p] = IF p + up < Size THEN drawn[p + up] ELSE Space
      BY <1>3, <1>5, <2>1, <2>2, <2>4, RowEnds
    <2>6. up \in {0, VGA_WIDTH}
      BY <2>4
    <2>7. Blank(after)
      <3> SUFFICES ASSUME NEW p \in Cells, p >= Cursor(after)
                   PROVE  after.vga[p] = Space
        BY DEF Blank
      <3>1. p + up < Size => p + up \in Cells /\ p + up > Cursor(scr)
        BY <1>9, <2>3, <2>5, <2>6, SizeFacts
      <3>2. after.vga[p] = IF p + up < Size THEN drawn[p + up] ELSE Space
        BY <2>5
      <3> QED  BY <1>4, <3>1, <3>2
    <2>8. \A p \in 0 .. Cursor(scr) - up :
              after.vga[p] = IF p + up = Cursor(scr) THEN c ELSE scr.vga[p + up]
      <3> SUFFICES ASSUME NEW p \in 0 .. Cursor(scr) - up
                   PROVE  after.vga[p] = IF p + up = Cursor(scr) THEN c
                                         ELSE scr.vga[p + up]
        OBVIOUS
      <3>1. p \in Cells /\ p + up \in Cells /\ p + up < Size
        BY <1>9, <2>6, SizeFacts
      <3>2. after.vga[p] = drawn[p + up]
        BY <2>5, <3>1
      <3> QED  BY <1>3, <3>1, <3>2
    <2>9. Cursor(after) = Cursor(scr) + 1 - up
      BY <1>9, <2>3, <2>5, <2>6, SizeFacts
    <2> QED  BY <2>5, <2>7, <2>8, <2>9
  <1>10. x + 1 < VGA_WIDTH \/ x + 1 = VGA_WIDTH
    <2>1. x \in 0 .. VGA_WIDTH - 1 /\ VGA_WIDTH \in Nat
      BY <1>1, SizeFacts, Zenon
    <2> HIDE DEF x
    <2> QED  BY <2>1
  <1> QED  BY <1>6, <1>7, <1>10, Zenon

LEMMA PutNewline ==
    ASSUME NEW scr \in Screens, Blank(scr)
    PROVE  kputc(scr, Newline) \in Screens /\ Blank(kputc(scr, Newline))
  <1> DEFINE y == scr.cursor_y
             next == [vga |-> scr.vga, cursor_x |-> 0, cursor_y |-> y + 1]
             after == kputc(scr, Newline)
             up == IF y + 1 = VGA_HEIGHT THEN VGA_WIDTH ELSE 0
  <1>1. /\ y + 1 \in 1 .. VGA_HEIGHT /\ scr.vga \in [Cells -> Glyph]
        /\ scr.cursor_x \in 0 .. VGA_WIDTH - 1 /\ y \in 0 .. VGA_HEIGHT - 1
    BY ScreenFields, SizeFacts
  <1>2. Placed(scr, Newline) = next
    BY DEF Placed, Screens
  <1>3. Wrapped(next) = next
    BY SizeFacts DEF Wrapped
  <1>4. after = IF next.cursor_y >= VGA_HEIGHT THEN ScrolledUp(next) ELSE next
    BY <1>2, <1>3 DEF kputc
  <1>5. /\ At(0, y + 1) = At(VGA_WIDTH - 1, y) + 1
        /\ At(VGA_WIDTH - 1, y) >= Cursor(scr)
        /\ At(VGA_WIDTH - 1, y) \in Nat
    <2>1. VGA_WIDTH - 1 \in 0 .. VGA_WIDTH - 1
      BY SizeFacts
    <2>2. At(VGA_WIDTH - 1, y) \in Nat
      BY <1>1, <2>1, CursorCell
    <2>3. /\ At(0, y + 1) = At(VGA_WIDTH - 1, y) + 1
          /\ At(VGA_WIDTH - 1, y) >= At(scr.cursor_x, y)
          /\ At(scr.cursor_x, y) \in Nat
      BY <1>1, CursorCell
    <2> QED  BY <2>2, <2>3 DEF Cursor
  <1>6. up \in {0, VGA_WIDTH} /\ up \in Nat
    BY SizeFacts
  <1> HIDE DEF next, after, up
  <1>7. next = [vga |-> scr.vga, cursor_x |-> 0, cursor_y |-> y + 1]
    BY DEF next
  <1>8. up = IF y + 1 = VGA_HEIGHT THEN VGA_WIDTH ELSE 0
    BY DEF up
  <1>9. /\ after \in Screens
        /\ Cursor(after) = At(0, y + 1) - up
        /\ \A p \in Cells :
              after.vga[p] = IF p + up < Size THEN scr.vga[p + up] ELSE Space
    BY <1>1, <1>4, <1>7, <1>8, RowEnds
  <1>10. Blank(after)
    <2> SUFFICES ASSUME NEW p \in Cells, p >= Cursor(after)
                 PROVE  after.vga[p] = Space
      BY DEF Blank
    <2>0. Cursor(scr) \in Nat /\ p \in Nat /\ Cursor(after) = At(VGA_WIDTH - 1, y) + 1 - up
      <3>1. Cursor(scr) \in Nat /\ p \in Nat
        BY ScreenFields, SizeFacts
      <3> QED  BY <3>1, <1>5, <1>6, <1>9
    <2>1. p + up > Cursor(scr)
      BY <1>5, <1>6, <2>0, SizeFacts
    <2>2. p + up < Size => scr.vga[p + up] = Space
      BY <1>6, <2>1, ScreenFields, SizeFacts DEF Blank
    <2> QED  BY <1>9, <2>2
  <1> QED  BY <1>9, <1>10 DEF after

\* A backspace steps back onto the cell before the cursor and blanks it.
LEMMA PutBackspace ==
    ASSUME NEW scr \in Screens, Blank(scr),
           NEW after, after = kputc(scr, Backspace)
    PROVE  /\ after \in Screens /\ Blank(after)
           /\ Cursor(after) = IF Cursor(scr) = 0 THEN 0 ELSE Cursor(scr) - 1
           /\ \A p \in 0 .. Cursor(after) - 1 : after.vga[p] = scr.vga[p]
  <1> DEFINE x == scr.cursor_x
             y == scr.cursor_y
             wiped == [scr.vga EXCEPT ![Cursor(scr) - 1] = Space]
  <1>1. /\ x \in 0 .. VGA_WIDTH - 1 /\ y \in 0 .. VGA_HEIGHT - 1
        /\ scr.vga \in [Cells -> Glyph]
        /\ Cursor(scr) \in Nat /\ Cursor(scr) <= Size - 1 /\ Cursor(scr) = At(x, y)
        /\ Space \in Glyph
        /\ scr = [vga |-> scr.vga, cursor_x |-> x, cursor_y |-> y]
    BY ScreenFields, ScreenAssumption DEF Cursor, Screens
  <1>2. wiped \in [Cells -> Glyph]
    BY <1>1
  <1>3. /\ \A p \in 0 .. Cursor(scr) - 2 : wiped[p] = scr.vga[p]
        /\ \A p \in Cells : p >= Cursor(scr) - 1 => wiped[p] = Space
    <2>1. \A p \in Cells : p # Cursor(scr) - 1 => wiped[p] = scr.vga[p]
      BY <1>1
    <2>2. Cursor(scr) - 1 \in Cells => wiped[Cursor(scr) - 1] = Space
      BY <1>1
    <2>3. \A p \in Cells : p >= Cursor(scr) => scr.vga[p] = Space
      BY DEF Blank
    <2> HIDE DEF wiped, x, y
    <2>4. Cursor(scr) \in Nat /\ Cursor(scr) <= Size - 1
      BY <1>1
    <2>5. \A p \in 0 .. Cursor(scr) - 2 : p \in Cells /\ p # Cursor(scr) - 1
      BY <2>4, SizeFacts
    <2>6. ASSUME NEW p \in Cells, p >= Cursor(scr) - 1 PROVE wiped[p] = Space
      <3>1. p = Cursor(scr) - 1 \/ p >= Cursor(scr)
        BY <2>4, <2>6, SizeFacts
      <3>2. p >= Cursor(scr) => p # Cursor(scr) - 1
        BY <2>4, SizeFacts
      <3> QED  BY <2>1, <2>2, <2>3, <3>1, <3>2
    <2> QED  BY <2>1, <2>5, <2>6
  <1>4. /\ At(x, y) = 0 <=> x = 0 /\ y = 0
        /\ y > 0 => At(VGA_WIDTH - 1, y - 1) = At(0, y) - 1
    BY <1>1, CursorCell
  <1>5. /\ Newline # Backspace
        /\ after = IF Wrapped(Placed(scr, Backspace)).cursor_y >= VGA_HEIGHT
                      THEN ScrolledUp(Wrapped(Placed(scr, Backspace)))
                      ELSE Wrapped(Placed(scr, Backspace))
    BY ScreenAssumption DEF kputc
  <1> HIDE DEF wiped
  <1>6. ASSUME NEW nx \in 0 .. VGA_WIDTH - 1, NEW ny \in 0 .. VGA_HEIGHT - 1,
               Placed(scr, Backspace) = [vga |-> wiped, cursor_x |-> nx, cursor_y |-> ny],
               At(nx, ny) = Cursor(scr) - 1, Cursor(scr) > 0
        PROVE  /\ after \in Screens /\ Blank(after)
               /\ Cursor(after) = Cursor(scr) - 1
               /\ \A p \in 0 .. Cursor(after) - 1 : after.vga[p] = scr.vga[p]
    <2>1. after = [vga |-> wiped, cursor_x |-> nx, cursor_y |-> ny]
      BY <1>5, <1>6, SizeFacts DEF Wrapped
    <2>2. after \in Screens /\ after.vga = wiped /\ Cursor(after) = Cursor(scr) - 1
      BY <1>2, <1>6, <2>1, NewScreen
    <2> QED  BY <1>1, <1>3, <2>2 DEF Blank
  <1>7. CASE x > 0
    <2>1. Placed(scr, Backspace) = [vga |-> wiped, cursor_x |-> x - 1, cursor_y |-> y]
      BY <1>5, <1>7 DEF Placed, Screens, wiped
    <2>2. At(x - 1, y) = Cursor(scr) - 1 /\ Cursor(scr) > 0
      <3>1. At(x - 1, y) = At(x, y) - 1
        BY <1>1, CursorCell
      <3> QED  BY <1>1, <1>4, <1>7, <3>1
    <2>3. x - 1 \in 0 .. VGA_WIDTH - 1
      BY <1>1, <1>7, SizeFacts
    <2> QED  BY <1>1, <1>6, <2>1, <2>2, <2>3
  <1>8. CASE x = 0 /\ y > 0
    <2>1. Placed(scr, Backspace) =
              [vga |-> wiped, cursor_x |-> VGA_WIDTH - 1, cursor_y |-> y - 1]
      <3>1. Placed(scr, Backspace) =
                [scr EXCEPT !.cursor_x = VGA_WIDTH - 1, !.cursor_y = @ - 1,
                            !.vga[Cursor(scr) - 1] = Space]
        BY <1>1, <1>5, <1>8 DEF Placed
      <3> QED  BY <3>1 DEF Screens, wiped
    <2>2. At(VGA_WIDTH - 1, y - 1) = Cursor(scr) - 1 /\ Cursor(scr) > 0
      BY <1>1, <1>4, <1>8
    <2>3. VGA_WIDTH - 1 \in 0 .. VGA_WIDTH - 1 /\ y - 1 \in 0 .. VGA_HEIGHT - 1
      BY <1>1, <1>8, SizeFacts
    <2> QED  BY <1>1, <1>6, <2>1, <2>2, <2>3
  <1>9. CASE x = 0 /\ y = 0
    <2>1. Placed(scr, Backspace) = scr
      BY <1>5, <1>9 DEF Placed
    <2>2. after = scr
      BY <1>1, <1>5, <1>9, <2>1, SizeFacts DEF Wrapped
    <2> QED  BY <1>1, <1>4, <1>9, <2>2
  <1>10. x > 0 \/ (x = 0 /\ y > 0) \/ (x = 0 /\ y = 0)
    BY <1>1
  <1> HIDE DEF x, y
  <1> QED  BY <1>7, <1>8, <1>9, <1>10

\* Any other character leaves the screen alone.
LEMMA PutOther ==
    ASSUME NEW scr \in Screens, NEW c,
           c \notin Glyph, c # Newline, c # Backspace
    PROVE  kputc(scr, c) = scr
  <1>1. scr.cursor_x < VGA_WIDTH /\ scr.cursor_y < VGA_HEIGHT
    BY ScreenFields, SizeFacts
  <1>2. scr.cursor_x \in Int /\ scr.cursor_y \in Int
    BY ScreenFields
  <1>3. Placed(scr, c) = scr
    BY DEF Placed
  <1>4. Wrapped(scr) = scr
    BY <1>1, <1>2, SizeFacts DEF Wrapped
  <1> QED  BY <1>1, <1>2, <1>3, <1>4, SizeFacts DEF kputc

LEMMA PutKeepsBlank ==
    ASSUME NEW scr \in Screens, Blank(scr), NEW c
    PROVE  kputc(scr, c) \in Screens /\ Blank(kputc(scr, c))
  BY PutGlyph, PutNewline, PutBackspace, PutOther

LEMMA CleanBlank == Clean \in Screens /\ Blank(Clean)
  BY SizeFacts, ScreenAssumption DEF Clean, Screens, Blank

\* A rubout takes back the last character drawn, also across the beginning of
\* a row.
LEMMA RuboutKeeps ==
    ASSUME NEW scr \in Screens, Blank(scr), NEW after, after = Rubout(scr)
    PROVE  /\ after \in Screens /\ Blank(after)
           /\ Cursor(after) = IF Cursor(scr) = 0 THEN 0 ELSE Cursor(scr) - 1
           /\ \A p \in 0 .. Cursor(after) - 1 : after.vga[p] = scr.vga[p]
  <1> DEFINE back == kputc(scr, Backspace)
             space == kputc(back, Space)
  <1>0. Cursor(scr) \in Nat /\ Cursor(scr) <= Size - 1 /\ Size > 1
    BY ScreenFields, SizeFacts
  <1>1. /\ back \in Screens /\ Blank(back)
        /\ Cursor(back) = IF Cursor(scr) = 0 THEN 0 ELSE Cursor(scr) - 1
        /\ \A p \in 0 .. Cursor(back) - 1 : back.vga[p] = scr.vga[p]
    BY PutBackspace
  <1> HIDE DEF back
  <1>2. Cursor(back) # Size - 1 /\ Cursor(back) \in Nat /\ Cursor(back) < Size
    <2>1. Cursor(back) = IF Cursor(scr) = 0 THEN 0 ELSE Cursor(scr) - 1
      BY <1>1
    <2> QED  BY <1>0, <2>1, SizeFacts
  <1>3. /\ space \in Screens /\ Blank(space)
        /\ Cursor(space) = Cursor(back) + 1 - 0
        /\ \A p \in 0 .. Cursor(back) - 0 :
              space.vga[p] = IF p + 0 = Cursor(back) THEN Space ELSE back.vga[p + 0]
    BY <1>1, <1>2, PutGlyph, ScreenAssumption
  <1>4. after = kputc(space, Backspace)
    BY DEF Rubout, back
  <1> HIDE DEF space
  <1>5. /\ after \in Screens /\ Blank(after)
        /\ Cursor(after) = IF Cursor(space) = 0 THEN 0 ELSE Cursor(space) - 1
        /\ \A p \in 0 .. Cursor(after) - 1 : after.vga[p] = space.vga[p]
    BY <1>3, <1>4, PutBackspace
  <1>6. Cursor(after) = Cursor(back)
    BY <1>2, <1>3, <1>5
  <1>7. \A p \in 0 .. Cursor(after) - 1 : after.vga[p] = back.vga[p]
    BY <1>2, <1>3, <1>5, <1>6
  <1> QED  BY <1>1, <1>5, <1>6, <1>7

-----------------------------------------------------------------------------
(***************************************************************************)
(* The invariant.                                                          *)
(***************************************************************************)

Scancode == [code : Code, press : BOOLEAN]

Types ==
    /\ held \in SUBSET Shift
    /\ fifo \in Seq(Scancode)
    /\ shift_state \in BOOLEAN
    /\ line \in Seq(Char) /\ Len(line) < MAX_COMMAND_LEN
    /\ unseen \in BOOLEAN
    /\ screen \in Screens
    /\ pc \in {"poll", "command"}

\* The last shift scancode on its way, or the kernel if there is none, tells
\* whether a shift key is down.
ShiftTold ==
    agrees =>
        /\ (\A j \in 1 .. Len(fifo) : fifo[j].code \notin Shift) =>
              (shift_state <=> held # {})
        /\ \A i \in 1 .. Len(fifo) :
              /\ fifo[i].code \in Shift
              /\ \A j \in i + 1 .. Len(fifo) : fifo[j].code \notin Shift
              => (fifo[i].press <=> held # {})

\* The prompt and the line stand before the cursor of a screen.
Stands(text, scr) ==
    /\ Len(text) <= Cursor(scr)
    /\ \A j \in 1 .. Len(text) : scr.vga[Cursor(scr) - Len(text) + j - 1] = text[j]

LineStands ==
    /\ Blank(screen)
    /\ pc = "poll" /\ ~unseen => Stands(PromptAndLine, screen)

IInv == Types /\ ShiftTold /\ LineStands

LEMMA GetcharFacts ==
    ASSUME NEW e \in Scancode
    PROVE  /\ Getchar(e) \in Char
           /\ Getchar(e) # Nul => e.code \notin Shift
  <1>1. e.code \in Code
    BY DEF Scancode
  <1> QED  BY <1>1, ConsoleAssumption DEF Getchar

\* The text before the cursor stays before it when a character is drawn: it
\* never scrolls off, since a line and its prompt fit on the screen.
LEMMA DrawnStands ==
    ASSUME NEW scr \in Screens, Blank(scr), NEW c \in Glyph,
           NEW text \in Seq(Glyph \cup Char), Stands(text, scr),
           Len(text) <= MAX_COMMAND_LEN
    PROVE  Stands(Append(text, c), kputc(scr, c))
  <1> DEFINE after == kputc(scr, c)
             up == IF Cursor(scr) = Size - 1 THEN VGA_WIDTH ELSE 0
             n == Len(text)
             longer == Append(text, c)
  <1>1. /\ after \in Screens
        /\ Cursor(after) = Cursor(scr) + 1 - up
        /\ \A p \in 0 .. Cursor(scr) - up :
              after.vga[p] = IF p + up = Cursor(scr) THEN c ELSE scr.vga[p + up]
    BY PutGlyph
  <1>2. Cursor(scr) \in Nat /\ Cursor(scr) <= Size - 1 /\ n \in Nat
    BY ScreenFields
  <1>3. /\ n <= Cursor(scr)
        /\ \A j \in 1 .. n : scr.vga[Cursor(scr) - n + j - 1] = text[j]
    BY DEF Stands
  <1>4. n <= Cursor(scr) - up /\ up \in Nat
    BY <1>2, <1>3, SizeFacts
  <1> HIDE DEF after, up
  <1>5. /\ Len(longer) = n + 1 /\ longer[n + 1] = c
        /\ \A j \in 1 .. n : longer[j] = text[j]
    OBVIOUS
  <1> HIDE DEF n, longer
  <1>6. ASSUME NEW j \in 1 .. n + 1
        PROVE  after.vga[Cursor(after) - (n + 1) + j - 1] = longer[j]
    <2> DEFINE p == Cursor(after) - (n + 1) + j - 1
    <2>1. p \in 0 .. Cursor(scr) - up /\ p + up = Cursor(scr) - n + j - 1
      BY <1>1, <1>2, <1>4
    <2>2. after.vga[p] = IF p + up = Cursor(scr) THEN c ELSE scr.vga[p + up]
      BY <1>1, <2>1
    <2>3. CASE j = n + 1
      BY <1>2, <1>5, <2>1, <2>2, <2>3
    <2>4. CASE j \in 1 .. n
      <3>1. p + up # Cursor(scr)
        BY <1>2, <2>1, <2>4
      <3> QED  BY <1>3, <1>5, <2>1, <2>2, <2>4, <3>1
    <2> QED  BY <1>2, <2>3, <2>4
  <1>7. n + 1 <= Cursor(after)
    BY <1>1, <1>2, <1>4
  <1> QED  BY <1>5, <1>6, <1>7 DEF Stands, after, n, longer

LEMMA RuboutStands ==
    ASSUME NEW scr \in Screens, Blank(scr),
           NEW text \in Seq(Glyph \cup Char), NEW last \in Glyph \cup Char,
           Stands(Append(text, last), scr)
    PROVE  Stands(text, Rubout(scr))
  <1> DEFINE after == Rubout(scr)
             n == Len(text)
             longer == Append(text, last)
  <1>1. /\ Cursor(after) = IF Cursor(scr) = 0 THEN 0 ELSE Cursor(scr) - 1
        /\ \A p \in 0 .. Cursor(after) - 1 : after.vga[p] = scr.vga[p]
    BY RuboutKeeps
  <1>2. /\ Len(longer) = n + 1 /\ n \in Nat
        /\ \A j \in 1 .. n : longer[j] = text[j]
    OBVIOUS
  <1>3. /\ n + 1 <= Cursor(scr)
        /\ \A j \in 1 .. n + 1 : scr.vga[Cursor(scr) - (n + 1) + j - 1] = longer[j]
    BY <1>2 DEF Stands
  <1>4. Cursor(scr) \in Nat
    BY ScreenFields
  <1> HIDE DEF after, n, longer
  <1>5. Cursor(after) = Cursor(scr) - 1
    BY <1>1, <1>2, <1>3, <1>4
  <1>6. ASSUME NEW j \in 1 .. n
        PROVE  after.vga[Cursor(after) - n + j - 1] = text[j]
    <2>1. Cursor(after) - n + j - 1 = Cursor(scr) - (n + 1) + j - 1
      BY <1>2, <1>4, <1>5
    <2>2. Cursor(after) - n + j - 1 \in 0 .. Cursor(after) - 1
      BY <1>2, <1>3, <1>4, <1>5
    <2>3. j \in 1 .. n + 1
      BY <1>2
    <2> QED  BY <1>1, <1>2, <1>3, <2>1, <2>2, <2>3
  <1>7. n <= Cursor(after)
    BY <1>2, <1>3, <1>4, <1>5
  <1> QED  BY <1>6, <1>7 DEF Stands, after, n

LEMMA PromptedStands ==
    ASSUME NEW scr \in Screens, Blank(scr)
    PROVE  /\ Prompted(scr) \in Screens /\ Blank(Prompted(scr))
           /\ Stands(<<Angle, Space>>, Prompted(scr))
  <1>1. Angle \in Glyph /\ Space \in Glyph
    BY ConsoleAssumption, ScreenAssumption
  <1>2. kputc(scr, Angle) \in Screens /\ Blank(kputc(scr, Angle))
    BY PutKeepsBlank
  <1>3. Stands(<<>>, scr)
    BY ScreenFields DEF Stands
  <1>4. Stands(Append(<<>>, Angle), kputc(scr, Angle))
    <2>1. <<>> \in Seq(Glyph \cup Char) /\ Len(<<>>) = 0
      OBVIOUS
    <2>2. Len(<<>>) <= MAX_COMMAND_LEN
      BY <2>1, SizeFacts
    <2> QED  BY <1>1, <1>3, <2>1, <2>2, DrawnStands
  <1>5. Stands(Append(<<Angle>>, Space), kputc(kputc(scr, Angle), Space))
    <2>1. <<Angle>> \in Seq(Glyph \cup Char) /\ Len(<<Angle>>) = 1
      BY <1>1
    <2>2. Len(<<Angle>>) <= MAX_COMMAND_LEN
      BY <2>1, SizeFacts
    <2>3. Append(<<>>, Angle) = <<Angle>>
      OBVIOUS
    <2> QED  BY <1>1, <1>2, <1>4, <2>1, <2>2, <2>3, DrawnStands
  <1>6. Stands(<<Angle, Space>>, kputc(kputc(scr, Angle), Space))
    <2> DEFINE text == Append(<<Angle>>, Space)
    <2>1. Len(text) = 2 /\ text[1] = Angle /\ text[2] = Space
      OBVIOUS
    <2>2. Stands(text, kputc(kputc(scr, Angle), Space))
      BY <1>5
    <2> HIDE DEF text
    <2> QED  BY <2>1, <2>2 DEF Stands
  <1> QED  BY <1>1, <1>2, <1>6, PutKeepsBlank DEF Prompted

\* Two spellings of the same text.
LEMMA SameStands ==
    ASSUME NEW scr, NEW text, NEW other,
           Stands(text, scr), Len(text) = Len(other),
           \A j \in 1 .. Len(text) : text[j] = other[j]
    PROVE  Stands(other, scr)
  BY DEF Stands

\* The prompt and the line as a sequence.
LEMMA PromptAndLineFacts ==
    ASSUME NEW text \in Seq(Char)
    PROVE  LET whole == <<Angle, Space>> \o text IN
           /\ whole \in Seq(Glyph \cup Char)
           /\ Len(whole) = Len(text) + 2
           /\ whole[1] = Angle /\ whole[2] = Space
           /\ \A j \in 3 .. Len(text) + 2 : whole[j] = text[j - 2]
  BY ConsoleAssumption, ScreenAssumption

\* The prompt, the line and one more character, put together in either order.
LEMMA SameLine ==
    ASSUME NEW text \in Seq(Char), NEW c \in Char
    PROVE  /\ Len(Append(<<Angle, Space>> \o text, c))
                  = Len(<<Angle, Space>> \o Append(text, c))
           /\ \A j \in 1 .. Len(Append(<<Angle, Space>> \o text, c)) :
                 Append(<<Angle, Space>> \o text, c)[j]
                     = (<<Angle, Space>> \o Append(text, c))[j]
  <1> DEFINE left == Append(<<Angle, Space>> \o text, c)
             right == <<Angle, Space>> \o Append(text, c)
             whole == <<Angle, Space>> \o text
  <1>1. /\ whole \in Seq(Glyph \cup Char) /\ Len(whole) = Len(text) + 2
        /\ whole[1] = Angle /\ whole[2] = Space
        /\ \A j \in 3 .. Len(text) + 2 : whole[j] = text[j - 2]
    BY PromptAndLineFacts
  <1>2. /\ Append(text, c) \in Seq(Char) /\ Len(Append(text, c)) = Len(text) + 1
        /\ \A j \in 1 .. Len(text) : Append(text, c)[j] = text[j]
        /\ Append(text, c)[Len(text) + 1] = c
        /\ Len(text) \in Nat
    OBVIOUS
  <1>3. /\ Len(right) = Len(text) + 3
        /\ right[1] = Angle /\ right[2] = Space
        /\ \A j \in 3 .. Len(text) + 3 : right[j] = Append(text, c)[j - 2]
    <2> DEFINE more == Append(text, c)
    <2>1. more \in Seq(Char) /\ Len(more) = Len(text) + 1
      BY <1>2
    <2> HIDE DEF more
    <2>2. /\ Len(<<Angle, Space>> \o more) = Len(more) + 2
          /\ (<<Angle, Space>> \o more)[1] = Angle
          /\ (<<Angle, Space>> \o more)[2] = Space
          /\ \A j \in 3 .. Len(more) + 2 : (<<Angle, Space>> \o more)[j] = more[j - 2]
      BY <2>1, PromptAndLineFacts
    <2> QED  BY <1>2, <2>1, <2>2 DEF more
  <1>4. /\ Len(left) = Len(text) + 3 /\ left[Len(text) + 3] = c
        /\ \A j \in 1 .. Len(text) + 2 : left[j] = whole[j]
    <2> HIDE DEF whole
    <2> QED  BY <1>1, <1>2 DEF whole
  <1> HIDE DEF left, right, whole
  <1>5. \A j \in 1 .. Len(left) : left[j] = right[j]
    <2> SUFFICES ASSUME NEW j \in 1 .. Len(text) + 3 PROVE left[j] = right[j]
      BY <1>4
    <2>1. CASE j \in 1 .. 2
      BY <1>1, <1>2, <1>3, <1>4, <2>1
    <2>2. CASE j \in 3 .. Len(text) + 2
      <3>1. left[j] = text[j - 2] /\ right[j] = Append(text, c)[j - 2]
        BY <1>1, <1>2, <1>3, <1>4, <2>2
      <3>2. j - 2 \in 1 .. Len(text)
        BY <1>2, <2>2
      <3> QED  BY <1>2, <3>1, <3>2
    <2>3. CASE j = Len(text) + 3
      <3>1. right[j] = Append(text, c)[Len(text) + 1]
        BY <1>2, <1>3, <2>3
      <3> QED  BY <1>2, <1>4, <2>3, <3>1
    <2> QED  BY <1>2, <2>1, <2>2, <2>3
  <1> QED  BY <1>3, <1>4, <1>5 DEF left, right

\* A character taken into the line, and the last one taken out of it.
LEMMA LineGrows ==
    ASSUME NEW text \in Seq(Char), NEW c \in Char, NEW scr,
           Stands(Append(<<Angle, Space>> \o text, c), scr)
    PROVE  Stands(<<Angle, Space>> \o Append(text, c), scr)
  BY SameLine, SameStands

LEMMA LineShrinks ==
    ASSUME NEW text \in Seq(Char), text # <<>>, NEW scr \in Screens, Blank(scr),
           Stands(<<Angle, Space>> \o text, scr)
    PROVE  /\ SubSeq(text, 1, Len(text) - 1) \in Seq(Char)
           /\ Len(SubSeq(text, 1, Len(text) - 1)) = Len(text) - 1
           /\ Stands(<<Angle, Space>> \o SubSeq(text, 1, Len(text) - 1), Rubout(scr))
  <1> DEFINE short == SubSeq(text, 1, Len(text) - 1)
             last == text[Len(text)]
  <1>1. Len(text) \in Nat \ {0} /\ last \in Char
    OBVIOUS
  <1>2. /\ short \in Seq(Char) /\ Len(short) = Len(text) - 1
        /\ \A j \in 1 .. Len(text) - 1 : short[j] = text[j]
    <2> DEFINE n == Len(text) - 1
    <2>1. n \in Nat /\ \A i \in 1 .. n : text[i] \in Char
      BY <1>1
    <2> HIDE DEF n
    <2>2. /\ SubSeq(text, 1, n) \in Seq(Char)
          /\ Len(SubSeq(text, 1, n)) = IF 1 <= n THEN n - 1 + 1 ELSE 0
          /\ \A i \in 1 .. n - 1 + 1 : SubSeq(text, 1, n)[i] = text[1 + i - 1]
      BY <2>1, SubSeqProperties
    <2>3. /\ Len(SubSeq(text, 1, n)) = n
          /\ \A i \in 1 .. n : SubSeq(text, 1, n)[i] = text[i]
      BY <2>1, <2>2
    <2> QED  BY <2>2, <2>3 DEF n
  <1>3. Append(short, last) = text
    <2> HIDE DEF short
    <2>1. Append(short, last) \in Seq(Char) /\ Len(Append(short, last)) = Len(text)
      BY <1>1, <1>2
    <2>2. \A j \in 1 .. Len(text) : Append(short, last)[j] = text[j]
      BY <1>1, <1>2
    <2> QED  BY <2>1, <2>2, SeqEqual
  <1> HIDE DEF short, last
  <1>4. /\ <<Angle, Space>> \o short \in Seq(Glyph \cup Char)
        /\ last \in Glyph \cup Char
    BY <1>1, <1>2, PromptAndLineFacts
  <1>5. Stands(Append(<<Angle, Space>> \o short, last), scr)
    <2> DEFINE left == Append(<<Angle, Space>> \o short, last)
               right == <<Angle, Space>> \o Append(short, last)
    <2>1. Stands(right, scr)
      BY <1>3
    <2>2. Len(right) = Len(left) /\ \A j \in 1 .. Len(right) : right[j] = left[j]
      BY <1>1, <1>2, SameLine
    <2> HIDE DEF left, right
    <2>3. Stands(left, scr)
      BY <2>1, <2>2, SameStands
    <2> QED  BY <2>3 DEF left
  <1>6. Stands(<<Angle, Space>> \o short, Rubout(scr))
    BY <1>4, <1>5, RuboutStands
  <1> QED  BY <1>1, <1>2, <1>6 DEF short

-----------------------------------------------------------------------------
(***************************************************************************)
(* Every step keeps the invariant.                                         *)
(***************************************************************************)

LEMMA InitInv == Init => IInv
  <1> SUFFICES ASSUME Init PROVE IInv
    OBVIOUS
  <1>1. Types
    <2>1. \A S : <<>> \in Seq(S) /\ Len(<<>>) = 0
      OBVIOUS
    <2>2. Len(<<>>) < MAX_COMMAND_LEN
      BY <2>1, SizeFacts
    <2> QED  BY <2>1, <2>2, CleanBlank DEF Init, Types
  <1>2. ShiftTold
    BY DEF Init, ShiftTold
  <1>3. LineStands
    BY CleanBlank DEF Init, LineStands
  <1> QED  BY <1>1, <1>2, <1>3 DEF IInv

\* A sequence that has grown by one, or lost its first element.
LEMMA Appended ==
    ASSUME NEW S, NEW seq \in Seq(S), NEW e \in S
    PROVE  /\ Append(seq, e) \in Seq(S)
           /\ Len(Append(seq, e)) = Len(seq) + 1
           /\ \A i \in 1 .. Len(seq) : Append(seq, e)[i] = seq[i]
           /\ Append(seq, e)[Len(seq) + 1] = e
           /\ Len(seq) \in Nat
  OBVIOUS

LEMMA HeadTaken ==
    ASSUME NEW S, NEW seq \in Seq(S), seq # <<>>
    PROVE  /\ Head(seq) = seq[1] /\ Head(seq) \in S
           /\ Tail(seq) \in Seq(S)
           /\ Len(Tail(seq)) = Len(seq) - 1
           /\ \A i \in 1 .. Len(seq) - 1 : Tail(seq)[i] = seq[i + 1]
           /\ Len(seq) \in Nat /\ Len(seq) >= 1
  BY HeadTailProperties

LEMMA KeyKeeps ==
    ASSUME IInv, NEW code \in Keys, NEW press \in BOOLEAN, Key(code, press)
    PROVE  IInv'
  <1> DEFINE e == [code |-> code, press |-> press]
  <1>1. UNCHANGED <<shift_state, line, unseen, screen, pc>>
    BY DEF Key
  <1>2. e \in Scancode /\ e.code = code /\ e.press = press
    BY ConsoleAssumption DEF Scancode
  <1> HIDE DEF e
  <1>3. /\ fifo \in Seq(Scancode)
        /\ fifo' = IF Len(fifo) < FifoSize THEN Append(fifo, e) ELSE fifo
    BY DEF IInv, Types, Key, Arrive, e
  <1>4. Types'
    <2>1. fifo' \in Seq(Scancode)
      BY <1>2, <1>3
    <2>2. held' \in SUBSET Shift
      BY DEF IInv, Types, Key
    <2> QED  BY <1>1, <2>1, <2>2 DEF IInv, Types
  <1>5. ShiftTold'
    <2> SUFFICES ASSUME agrees' PROVE ShiftTold'
      BY DEF ShiftTold
    <2>1. CASE code \in Shift
      <3>1. fifo' = Append(fifo, e) /\ (press <=> held' # {})
        BY <1>3, <2>1 DEF Key
      <3>2. /\ Len(fifo') = Len(fifo) + 1 /\ fifo'[Len(fifo) + 1] = e
            /\ Len(fifo) \in Nat
        BY <1>2, <1>3, <3>1, Appended
      <3>3. ASSUME NEW i \in 1 .. Len(fifo'), fifo'[i].code \in Shift,
                   \A j \in i + 1 .. Len(fifo') : fifo'[j].code \notin Shift
            PROVE  fifo'[i].press <=> held' # {}
        <4>1. i = Len(fifo) + 1
          BY <1>2, <2>1, <3>2, <3>3
        <4> QED  BY <1>2, <3>1, <3>2, <4>1
      <3>4. ~ \A j \in 1 .. Len(fifo') : fifo'[j].code \notin Shift
        BY <1>2, <2>1, <3>2
      <3> QED  BY <3>3, <3>4 DEF ShiftTold
    <2>2. CASE code \notin Shift
      <3>1. agrees /\ held' = held
        BY <2>2 DEF Key
      <3>2. CASE fifo' = fifo
        BY <1>1, <3>1, <3>2 DEF IInv, ShiftTold
      <3>3. CASE fifo' = Append(fifo, e)
        <4>1. /\ Len(fifo') = Len(fifo) + 1 /\ fifo'[Len(fifo) + 1] = e
              /\ Len(fifo) \in Nat
              /\ \A i \in 1 .. Len(fifo) : fifo'[i] = fifo[i]
          BY <1>2, <1>3, <3>3, Appended
        <4>2. fifo'[Len(fifo')].code \notin Shift
          BY <1>2, <2>2, <4>1
        <4>3. ASSUME \A j \in 1 .. Len(fifo') : fifo'[j].code \notin Shift
              PROVE  shift_state' <=> held' # {}
          <5>1. \A j \in 1 .. Len(fifo) : fifo[j].code \notin Shift
            BY <4>1, <4>3
          <5> QED  BY <1>1, <3>1, <5>1 DEF IInv, ShiftTold
        <4>4. ASSUME NEW i \in 1 .. Len(fifo'), fifo'[i].code \in Shift,
                     \A j \in i + 1 .. Len(fifo') : fifo'[j].code \notin Shift
              PROVE  fifo'[i].press <=> held' # {}
          <5>1. i \in 1 .. Len(fifo)
            BY <4>1, <4>2, <4>4
          <5>2. /\ fifo[i].code \in Shift
                /\ \A j \in i + 1 .. Len(fifo) : fifo[j].code \notin Shift
            BY <4>1, <4>4, <5>1
          <5>3. fifo[i].press <=> held # {}
            BY <3>1, <5>1, <5>2 DEF IInv, ShiftTold
          <5> QED  BY <3>1, <4>1, <5>1, <5>3
        <4> QED  BY <4>3, <4>4 DEF ShiftTold
      <3> QED  BY <1>3, <3>2, <3>3
    <2> QED  BY <2>1, <2>2
  <1>6. LineStands'
    BY <1>1 DEF IInv, LineStands, PromptAndLine
  <1> QED  BY <1>4, <1>5, <1>6 DEF IInv

\* getchar takes the oldest scancode and keeps track of shift.
LEMMA TakeKeeps ==
    ASSUME Types, ShiftTold, fifo # <<>>, fifo' = Tail(fifo),
           shift_state' = ShiftAfter(Head(fifo)), UNCHANGED <<held, agrees>>
    PROVE  fifo' \in Seq(Scancode) /\ shift_state' \in BOOLEAN /\ ShiftTold'
  <1>1. /\ Head(fifo) = fifo[1] /\ Head(fifo) \in Scancode
        /\ fifo' \in Seq(Scancode)
        /\ Len(fifo') = Len(fifo) - 1
        /\ \A i \in 1 .. Len(fifo) - 1 : fifo'[i] = fifo[i + 1]
        /\ Len(fifo) \in Nat /\ Len(fifo) >= 1
    BY HeadTaken DEF Types
  <1>2. shift_state' \in BOOLEAN
    BY <1>1 DEF Types, ShiftAfter, Scancode
  <1>3. ASSUME agrees', \A j \in 1 .. Len(fifo') : fifo'[j].code \notin Shift
        PROVE  shift_state' <=> held' # {}
    <2>1. \A j \in 2 .. Len(fifo) : fifo[j].code \notin Shift
      <3> SUFFICES ASSUME NEW j \in 2 .. Len(fifo) PROVE fifo[j].code \notin Shift
        OBVIOUS
      <3>1. j - 1 \in 1 .. Len(fifo') /\ fifo'[j - 1] = fifo[j]
        BY <1>1
      <3> QED  BY <1>3, <3>1
    <2>2. CASE fifo[1].code \in Shift
      <3>1. fifo[1].press <=> held # {}
        <4>1. 1 \in 1 .. Len(fifo) /\ 1 + 1 = 2
          BY <1>1
        <4> QED  BY <1>3, <2>1, <2>2, <4>1 DEF ShiftTold
      <3> QED  BY <1>1, <2>2, <3>1 DEF ShiftAfter
    <2>3. CASE fifo[1].code \notin Shift
      <3>1. \A j \in 1 .. Len(fifo) : fifo[j].code \notin Shift
        BY <1>1, <2>1, <2>3
      <3>2. shift_state <=> held # {}
        BY <1>3, <3>1 DEF ShiftTold
      <3> QED  BY <1>1, <2>3, <3>2 DEF ShiftAfter
    <2> QED  BY <2>2, <2>3
  <1>4. ASSUME agrees', NEW i \in 1 .. Len(fifo'), fifo'[i].code \in Shift,
               \A j \in i + 1 .. Len(fifo') : fifo'[j].code \notin Shift
        PROVE  fifo'[i].press <=> held' # {}
    <2>1. i + 1 \in 1 .. Len(fifo) /\ fifo'[i] = fifo[i + 1]
      BY <1>1
    <2>2. \A j \in (i + 1) + 1 .. Len(fifo) : fifo[j].code \notin Shift
      <3> SUFFICES ASSUME NEW j \in (i + 1) + 1 .. Len(fifo)
                   PROVE  fifo[j].code \notin Shift
        OBVIOUS
      <3>1. j - 1 \in i + 1 .. Len(fifo') /\ j - 1 \in 1 .. Len(fifo) - 1
        BY <1>1
      <3>2. fifo'[j - 1] = fifo[j]
        BY <1>1, <3>1
      <3> QED  BY <1>4, <3>1, <3>2
    <2> QED  BY <1>4, <2>1, <2>2 DEF ShiftTold
  <1> QED  BY <1>1, <1>2, <1>3, <1>4 DEF ShiftTold

\* Kill is in neither table, so it never reaches the editor.
LEMMA EditKeeps ==
    ASSUME IInv, pc = "poll", NEW c \in Char, Edit(c),
           unseen' = (unseen \/ (Len(line') > Len(line) /\ c \notin Glyph))
    PROVE  /\ line' \in Seq(Char) /\ Len(line') < MAX_COMMAND_LEN
           /\ screen' \in Screens /\ Blank(screen')
           /\ ~unseen' => Stands(<<Angle, Space>> \o line', screen')
  <1>1. /\ line \in Seq(Char) /\ Len(line) \in Nat /\ Len(line) < MAX_COMMAND_LEN
        /\ screen \in Screens /\ Blank(screen)
        /\ ~unseen => Stands(<<Angle, Space>> \o line, screen)
    BY DEF IInv, Types, LineStands, PromptAndLine
  <1>2. ASSUME line' = line, screen' = screen
        PROVE  /\ line' \in Seq(Char) /\ Len(line') < MAX_COMMAND_LEN
               /\ screen' \in Screens /\ Blank(screen')
               /\ ~unseen' => Stands(<<Angle, Space>> \o line', screen')
    BY <1>1, <1>2
  <1>3. CASE c = Backspace /\ line # <<>>
    <2>1. /\ line' = SubSeq(line, 1, Len(line) - 1)
          /\ screen' = Rubout(screen)
      BY <1>3 DEF Edit
    <2>2. /\ line' \in Seq(Char) /\ Len(line') = Len(line) - 1
      <3> DEFINE n == Len(line) - 1
      <3>1. n \in Nat /\ \A i \in 1 .. n : line[i] \in Char
        BY <1>1, <1>3
      <3> HIDE DEF n
      <3>2. /\ SubSeq(line, 1, n) \in Seq(Char)
            /\ Len(SubSeq(line, 1, n)) = IF 1 <= n THEN n - 1 + 1 ELSE 0
        BY <3>1, SubSeqProperties
      <3>3. Len(SubSeq(line, 1, n)) = n
        BY <3>1, <3>2
      <3> QED  BY <2>1, <3>2, <3>3 DEF n
    <2>3. screen' \in Screens /\ Blank(screen')
      BY <1>1, <2>1, RuboutKeeps
    <2>4. ~unseen' => Stands(<<Angle, Space>> \o line', screen')
      BY <1>1, <1>3, <2>1, LineShrinks
    <2> QED  BY <1>1, <2>2, <2>3, <2>4, SizeFacts
  <1>4. CASE c # Backspace /\ Len(line) < MAX_COMMAND_LEN - 1
    <2>1. line' = Append(line, c) /\ screen' = kputc(screen, c)
      BY <1>4, ConsoleAssumption DEF Edit
    <2>2. line' \in Seq(Char) /\ Len(line') = Len(line) + 1
      BY <1>1, <2>1, Appended
    <2>3. screen' \in Screens /\ Blank(screen')
      BY <1>1, <2>1, PutKeepsBlank
    <2>4. ASSUME ~unseen'
          PROVE  Stands(<<Angle, Space>> \o line', screen')
      <3>1. ~unseen /\ c \in Glyph
        <4>1. Len(line') > Len(line)
          BY <1>1, <2>2
        <4> QED  BY <2>4, <4>1, Zenon
      <3>2. /\ <<Angle, Space>> \o line \in Seq(Glyph \cup Char)
            /\ Len(<<Angle, Space>> \o line) = Len(line) + 2
        BY <1>1, PromptAndLineFacts
      <3>3. Len(<<Angle, Space>> \o line) <= MAX_COMMAND_LEN
        BY <1>1, <1>4, <3>2, SizeFacts
      <3>4. Stands(Append(<<Angle, Space>> \o line, c), kputc(screen, c))
        BY <1>1, <3>1, <3>2, <3>3, DrawnStands
      <3> QED  BY <1>1, <2>1, <3>4, LineGrows
    <2> QED  BY <1>1, <1>4, <2>2, <2>3, <2>4, SizeFacts
  <1>5. CASE \/ c = Backspace /\ line = <<>>
             \/ c # Backspace /\ ~(Len(line) < MAX_COMMAND_LEN - 1)
    BY <1>2, <1>5, ConsoleAssumption DEF Edit
  <1> QED  BY <1>3, <1>4, <1>5

LEMMA PollKeeps ==
    ASSUME IInv, Poll
    PROVE  IInv'
  <1> DEFINE c == Getchar(Head(fifo))
  <1>1. /\ Types /\ ShiftTold /\ fifo # <<>> /\ pc = "poll"
        /\ fifo' = Tail(fifo) /\ shift_state' = ShiftAfter(Head(fifo))
        /\ UNCHANGED <<held, agrees, pc>>
        /\ IF c = Nul THEN UNCHANGED <<line, screen>> ELSE Edit(c)
        /\ unseen' = (unseen \/ (Len(line') > Len(line) /\ c \notin Glyph))
    BY DEF IInv, Poll
  <1>2. fifo' \in Seq(Scancode) /\ shift_state' \in BOOLEAN /\ ShiftTold'
    BY <1>1, TakeKeeps
  <1>3. c \in Char
    <2>1. fifo \in Seq(Scancode)
      BY <1>1 DEF Types
    <2>2. Head(fifo) \in Scancode
      BY <1>1, <2>1, HeadTaken
    <2> QED  BY <2>2, GetcharFacts
  <1> HIDE DEF c
  <1>4. /\ line' \in Seq(Char) /\ Len(line') < MAX_COMMAND_LEN
        /\ screen' \in Screens /\ Blank(screen')
        /\ ~unseen' => Stands(<<Angle, Space>> \o line', screen')
    <2>1. CASE c = Nul
      <3>1. line' = line /\ screen' = screen
        BY <1>1, <2>1
      <3>2. unseen <=> unseen'
        <4>1. Len(line) \in Nat
          BY <1>1 DEF Types
        <4>2. ~ (Len(line') > Len(line))
          BY <3>1, <4>1
        <4> QED  BY <1>1, <4>2, Zenon
      <3> QED  BY <1>1, <3>1, <3>2 DEF IInv, Types, LineStands, PromptAndLine
    <2>2. CASE c # Nul
      BY <1>1, <1>3, <2>2, EditKeeps
    <2> QED  BY <2>1, <2>2
  <1>5. Types'
    BY <1>1, <1>2, <1>4 DEF Types
  <1>6. LineStands'
    BY <1>4 DEF LineStands, PromptAndLine
  <1> QED  BY <1>2, <1>5, <1>6 DEF IInv

LEMMA EnterKeeps ==
    ASSUME IInv, Enter
    PROVE  IInv'
  <1>1. /\ Types /\ ShiftTold /\ fifo # <<>>
        /\ fifo' = Tail(fifo) /\ pc' = "command" /\ screen' = kputc(screen, Newline)
        /\ UNCHANGED <<held, agrees, shift_state, line, unseen>>
    BY DEF IInv, Enter
  <1>2. shift_state' = ShiftAfter(Head(fifo))
    <2>1. fifo \in Seq(Scancode)
      BY <1>1 DEF Types
    <2>2. Head(fifo) \in Scancode
      BY <1>1, <2>1, HeadTaken
    <2>3. Getchar(Head(fifo)) # Nul
      BY ConsoleAssumption DEF Enter
    <2>4. Head(fifo).code \notin Shift
      BY <2>2, <2>3, GetcharFacts
    <2> QED  BY <1>1, <2>4 DEF ShiftAfter
  <1>3. fifo' \in Seq(Scancode) /\ shift_state' \in BOOLEAN /\ ShiftTold'
    BY <1>1, <1>2, TakeKeeps
  <1>4. screen' \in Screens /\ Blank(screen')
    BY <1>1, PutKeepsBlank DEF IInv, Types, LineStands
  <1>5. Types'
    BY <1>1, <1>3, <1>4 DEF Types
  <1>6. LineStands'
    BY <1>1, <1>4 DEF LineStands
  <1> QED  BY <1>3, <1>5, <1>6 DEF IInv

LEMMA CommandOutputKeeps ==
    ASSUME IInv, CommandOutput
    PROVE  IInv'
  <1>1. /\ pc = "command"
        /\ UNCHANGED <<held, fifo, agrees, shift_state, line, unseen, pc>>
    BY DEF CommandOutput
  <1>2. screen' \in Screens /\ Blank(screen')
    <2>1. screen \in Screens /\ Blank(screen)
      BY DEF IInv, Types, LineStands
    <2>2. screen' = Clean \/ \E c \in OutputChar : screen' = kputc(screen, c)
      BY DEF CommandOutput
    <2> QED  BY <2>1, <2>2, CleanBlank, PutKeepsBlank
  <1>3. Types'
    BY <1>1, <1>2 DEF IInv, Types
  <1>4. ShiftTold'
    BY <1>1 DEF IInv, ShiftTold
  <1>5. LineStands'
    BY <1>1, <1>2 DEF LineStands
  <1> QED  BY <1>3, <1>4, <1>5 DEF IInv

LEMMA CommandEndKeeps ==
    ASSUME IInv, CommandEnd
    PROVE  IInv'
  <1>1. /\ line' = <<>> /\ screen' = Prompted(screen) /\ pc' = "poll"
        /\ unseen' = FALSE
        /\ UNCHANGED <<held, fifo, agrees, shift_state>>
    BY DEF CommandEnd
  <1>2. /\ screen' \in Screens /\ Blank(screen')
        /\ Stands(<<Angle, Space>>, screen')
    BY <1>1, PromptedStands DEF IInv, Types, LineStands
  <1>3. line' \in Seq(Char) /\ Len(line') < MAX_COMMAND_LEN
    <2>1. <<>> \in Seq(Char) /\ Len(<<>>) = 0
      OBVIOUS
    <2> QED  BY <1>1, <2>1, SizeFacts
  <1>4. <<Angle, Space>> \o line' = <<Angle, Space>>
    BY <1>1
  <1>5. Types'
    BY <1>1, <1>2, <1>3 DEF IInv, Types
  <1>6. ShiftTold'
    BY <1>1 DEF IInv, ShiftTold
  <1>7. LineStands'
    BY <1>2, <1>4 DEF LineStands, PromptAndLine
  <1> QED  BY <1>5, <1>6, <1>7 DEF IInv

LEMMA NextInv == IInv /\ [Next]_vars => IInv'
  <1> SUFFICES ASSUME IInv, [Next]_vars PROVE IInv'
    OBVIOUS
  <1>1. ASSUME NEW code \in Keys, NEW press \in BOOLEAN, Key(code, press)
        PROVE  IInv'
    BY <1>1, KeyKeeps
  <1>2. CASE Poll
    BY <1>2, PollKeeps
  <1>3. CASE Enter
    BY <1>3, EnterKeeps
  <1>4. CASE CommandOutput
    BY <1>4, CommandOutputKeeps
  <1>5. CASE CommandEnd
    BY <1>5, CommandEndKeeps
  <1>6. CASE UNCHANGED vars
    BY <1>6 DEF vars, IInv, Types, ShiftTold, LineStands, PromptAndLine
  <1> QED  BY <1>1, <1>2, <1>3, <1>4, <1>5, <1>6 DEF Next

LEMMA SpecInv == Spec => []IInv
  BY InitInv, NextInv, PTL DEF Spec

-----------------------------------------------------------------------------
\* What the user sees is what the shell will get: kputc and the line editor of
\* kinput.c keep the prompt and the line right before the cursor, and all
\* behind it blank, on every screen that holds a line.
THEOREM LineStaysOnScreen == Spec => []LineOnScreen
  <1>1. IInv => LineOnScreen
    <2> SUFFICES ASSUME IInv PROVE LineOnScreen
      OBVIOUS
    <2>1. \A c \in Cells : c >= Cursor(screen) => screen.vga[c] = Space
      BY DEF IInv, LineStands, Blank
    <2>2. ASSUME pc = "poll", ~unseen
          PROVE  /\ Len(PromptAndLine) <= Cursor(screen)
                 /\ \A j \in 1 .. Len(PromptAndLine) :
                       screen.vga[Cursor(screen) - Len(PromptAndLine) + j - 1]
                           = PromptAndLine[j]
      BY <2>2 DEF IInv, LineStands, Stands
    <2> QED  BY <2>1, <2>2, Zenon DEF LineOnScreen
  <1> QED  BY <1>1, SpecInv, PTL

\* Once getchar has read all that the keyboard sent, the kernel's shift state
\* is that of the keys if the last shift scancode arrived and told it.
THEOREM ShiftStaysInStep == Spec => []ShiftInStep
  <1>1. IInv => ShiftInStep
    <2> SUFFICES ASSUME IInv, fifo = <<>>, agrees
                 PROVE  shift_state = (held # {})
      BY DEF ShiftInStep
    <2>1. \A j \in 1 .. Len(fifo) : fifo[j].code \notin Shift
      OBVIOUS
    <2>2. shift_state <=> held # {}
      BY <2>1 DEF IInv, ShiftTold
    <2>3. shift_state \in BOOLEAN
      BY DEF IInv, Types
    <2> QED  BY <2>2, <2>3
  <1> QED  BY <1>1, SpecInv, PTL

-----------------------------------------------------------------------------
(***************************************************************************)
(* What the shell makes of a line.                                         *)
(***************************************************************************)

LEMMA LeastIs ==
    ASSUME NEW S, S \subseteq Nat, S # {}
    PROVE  Least(S) \in S /\ \A j \in S : Least(S) <= j
  <1>1. \E x \in S : \A y \in S : ~ (<<y, x>> \in OpToRel(<, Nat))
    BY WFMin, NatLessThanWellFounded, Zenon
  <1>2. PICK x \in S : \A y \in S : ~ (<<y, x>> \in OpToRel(<, Nat))
    BY <1>1, Zenon
  <1>3. \A y \in S : ~ (y < x)
    BY <1>2, Zenon DEF OpToRel
  <1>4. \A y \in S : x <= y
    BY <1>3
  <1> QED  BY <1>4, Zenon DEF Least

\* A buffer that holds a text and its end.
Holds(buffer, text) ==
    /\ text \in Seq(Glyph) /\ Len(text) < MAX_COMMAND_LEN
    /\ DOMAIN buffer = 0 .. MAX_COMMAND_LEN - 1
    /\ \A i \in 0 .. Len(text) - 1 : buffer[i] = text[i + 1]
    /\ buffer[Len(text)] = Nul

LEMMA FirstIs ==
    ASSUME NEW b, DOMAIN b = 0 .. MAX_COMMAND_LEN - 1, NEW chars,
           NEW i \in Nat, NEW k \in 0 .. MAX_COMMAND_LEN - 1, i <= k,
           b[k] \in chars, \A j \in i .. k - 1 : b[j] \notin chars
    PROVE  FirstOf(b, i, chars) = k
  <1> DEFINE P(x) == /\ x >= i /\ b[x] \in chars
                     /\ \A j \in i .. x - 1 : b[j] \notin chars
  <1>1. P(k)
    BY SizeFacts
  <1>2. ASSUME NEW x \in DOMAIN b, P(x) PROVE x = k
    <2>1. x \in Nat /\ k \in Nat
      BY SizeFacts
    <2>2. ~(x < k)
      <3> SUFFICES ASSUME x < k PROVE FALSE
        OBVIOUS
      <3>1. x \in i .. k - 1
        BY <1>2, <2>1
      <3> QED  BY <1>2, <3>1
    <2>3. ~(k < x)
      <3> SUFFICES ASSUME k < x PROVE FALSE
        OBVIOUS
      <3>1. k \in i .. x - 1
        BY <2>1
      <3> QED  BY <1>2, <3>1
    <2> QED  BY <2>1, <2>2, <2>3
  <1> HIDE DEF P
  <1>3. (CHOOSE x \in DOMAIN b : P(x)) = k
    BY <1>1, <1>2
  <1> QED  BY <1>3, Zenon DEF FirstOf, P

\* The string that starts at i, when the buffer holds the text there and a
\* Nul at e.
LEMMA StringIs ==
    ASSUME NEW text \in Seq(Glyph), NEW e \in 0 .. Len(text), NEW i \in 0 .. e,
           Len(text) < MAX_COMMAND_LEN,
           NEW b, DOMAIN b = 0 .. MAX_COMMAND_LEN - 1,
           b[e] = Nul, \A j \in i .. e - 1 : b[j] = text[j + 1]
    PROVE  String(b, i) = SubSeq(text, i + 1, e)
  <1>1. Len(text) \in Nat /\ i \in Nat /\ e \in Nat /\ e <= Len(text)
    BY LenProperties
  <1>2. FirstOf(b, i, {Nul}) = e
    <2>1. \A j \in i .. e - 1 : b[j] \notin {Nul}
      <3> TAKE j \in i .. e - 1
      <3>1. j + 1 \in 1 .. Len(text)
        BY <1>1
      <3>2. text[j + 1] \in Glyph
        BY <3>1, ElementOfSeq, Zenon
      <3> QED  BY <3>2, ConsoleAssumption
    <2>2. e \in 0 .. MAX_COMMAND_LEN - 1 /\ i <= e
      BY <1>1, SizeFacts
    <2>3. b[e] \in {Nul}
      OBVIOUS
    <2> DEFINE C == {Nul}
    <2> HIDE DEF C
    <2>4. FirstOf(b, i, C) = e
      <3>1. b[e] \in C /\ \A j \in i .. e - 1 : b[j] \notin C
        BY <2>1, <2>3 DEF C
      <3> QED  BY <1>1, <2>2, <3>1, FirstIs, Zenon
    <2> QED  BY <2>4 DEF C
  <1> DEFINE n == e - i
             s == [k \in 1 .. n |-> b[i + k - 1]]
             t == SubSeq(text, i + 1, e)
  <1>3. String(b, i) = s
    BY <1>2, Zenon DEF String
  <1>4. \A k \in 1 .. n : b[i + k - 1] = text[i + k] /\ text[i + k] \in Glyph
    <2> TAKE k \in 1 .. n
    <2>1. i + k - 1 \in i .. e - 1 /\ (i + k - 1) + 1 = i + k /\ i + k \in 1 .. Len(text)
      BY <1>1
    <2>2. b[i + k - 1] = text[(i + k - 1) + 1]
      BY <2>1, Zenon
    <2>3. text[i + k] \in Glyph
      BY <2>1, ElementOfSeq, Zenon
    <2> QED  BY <2>1, <2>2, <2>3, Zenon
  <1>5. n \in Nat
    BY <1>1
  <1> HIDE DEF n
  <1>6. s \in Seq(Glyph) /\ Len(s) = n /\ \A k \in 1 .. n : s[k] = text[i + k]
    <2>1. \A k \in 1 .. n : s[k] = text[i + k] /\ s[k] \in Glyph
      BY <1>4, Zenon
    <2>2. s = [k \in 1 .. n |-> s[k]]
      OBVIOUS
    <2> HIDE DEF s
    <2>3. s \in [1 .. n -> Glyph]
      BY <2>1, <2>2, Zenon
    <2>4. s \in Seq(Glyph) /\ Len(s) = n
      BY <1>5, <2>3
    <2> QED  BY <2>1, <2>4
  <1> HIDE DEF s
  <1>7. t \in Seq(Glyph) /\ Len(t) = n /\ \A k \in 1 .. n : t[k] = text[i + k]
    <2>1. \A j \in i + 1 .. e : text[j] \in Glyph
      <3> TAKE j \in i + 1 .. e
      <3>1. j \in 1 .. Len(text)
        BY <1>1
      <3> QED  BY <3>1, ElementOfSeq, Zenon
    <2>2. i + 1 \in Int /\ e \in Int
      BY <1>1
    <2>3. /\ t \in Seq(Glyph)
          /\ Len(t) = IF i + 1 <= e THEN e - (i + 1) + 1 ELSE 0
          /\ \A k \in 1 .. e - (i + 1) + 1 : t[k] = text[(i + 1) + k - 1]
      BY <2>1, <2>2, SubSeqProperties
    <2> HIDE DEF t
    <2>4. Len(t) = n
      BY <1>1, <2>3 DEF n
    <2>5. \A k \in 1 .. n : t[k] = text[i + k]
      <3> TAKE k \in 1 .. n
      <3>1. k \in 1 .. e - (i + 1) + 1 /\ (i + 1) + k - 1 = i + k
        BY <1>1 DEF n
      <3> QED  BY <2>3, <3>1
    <2> QED  BY <2>3, <2>4, <2>5
  <1> HIDE DEF t
  <1>8. s = t
    BY <1>6, <1>7, SeqEqual
  <1> QED  BY <1>3, <1>8 DEF t

\* The places of a text that are no space and lie behind place n.
Rest(text, n) == {k \in DOMAIN text : k > n /\ text[k] # Space}

LEMMA HeldText ==
    ASSUME NEW b, NEW text, Holds(b, text)
    PROVE  /\ text \in Seq(Glyph) /\ Len(text) \in Nat /\ DOMAIN text = 1 .. Len(text)
           /\ Len(text) < MAX_COMMAND_LEN
           /\ DOMAIN b = 0 .. MAX_COMMAND_LEN - 1
           /\ b[Len(text)] = Nul /\ Nul # Space
           /\ \A k \in 1 .. Len(text) :
                 /\ text[k] \in Glyph /\ text[k] # Nul
                 /\ k - 1 \in 0 .. Len(text) - 1 /\ b[k - 1] = text[k]
           /\ \A j \in 0 .. Len(text) - 1 :
                 b[j] = text[j + 1] /\ j + 1 \in 1 .. Len(text) /\ b[j] # Nul
  <1>1. text \in Seq(Glyph) /\ Len(text) \in Nat /\ DOMAIN text = 1 .. Len(text)
    BY LenProperties DEF Holds
  <1>2. /\ Len(text) < MAX_COMMAND_LEN /\ DOMAIN b = 0 .. MAX_COMMAND_LEN - 1
        /\ b[Len(text)] = Nul
        /\ \A j \in 0 .. Len(text) - 1 : b[j] = text[j + 1]
    BY Zenon DEF Holds
  <1>3. Nul # Space /\ \A c \in Glyph : c # Nul
    BY ConsoleAssumption, ScreenAssumption
  <1>4. ASSUME NEW k \in 1 .. Len(text)
        PROVE  /\ text[k] \in Glyph /\ text[k] # Nul
               /\ k - 1 \in 0 .. Len(text) - 1 /\ b[k - 1] = text[k]
    <2>1. text[k] \in Glyph
      BY <1>1, ElementOfSeq, Zenon
    <2>2. k - 1 \in 0 .. Len(text) - 1 /\ (k - 1) + 1 = k
      BY <1>1
    <2>3. b[k - 1] = text[(k - 1) + 1]
      BY <1>2, <2>2, Zenon
    <2> QED  BY <1>3, <2>1, <2>2, <2>3, Zenon
  <1>5. ASSUME NEW j \in 0 .. Len(text) - 1
        PROVE  b[j] = text[j + 1] /\ j + 1 \in 1 .. Len(text) /\ b[j] # Nul
    <2>1. j + 1 \in 1 .. Len(text)
      BY <1>1
    <2> QED  BY <1>2, <1>4, <2>1, Zenon
  <1> QED  BY <1>1, <1>2, <1>3, <1>4, <1>5, Zenon

\* parse finds the arguments behind the spaces that follow the name.
LEMMA ArgsAre ==
    ASSUME NEW b, NEW text, Holds(b, text), NEW i \in 0 .. Len(text) - 1,
           text[i + 1] = Space
    PROVE  Args(b, i) = IF Rest(text, i) = {} THEN NoArgs
                        ELSE SubSeq(text, Least(Rest(text, i)), Len(text))
  <1> DEFINE n == Len(text)
             rest == Rest(text, i)
             P(k) == k > i /\ b[k] # Space /\ \A j \in i .. k - 1 : b[j] = Space
  <1>1. /\ text \in Seq(Glyph) /\ n \in Nat /\ DOMAIN text = 1 .. n
        /\ n < MAX_COMMAND_LEN
        /\ DOMAIN b = 0 .. MAX_COMMAND_LEN - 1
        /\ b[n] = Nul /\ Nul # Space
        /\ \A k \in 1 .. n : text[k] # Nul /\ b[k - 1] = text[k]
        /\ \A j \in 0 .. n - 1 : b[j] = text[j + 1] /\ b[j] # Nul
    BY HeldText
  <1> HIDE DEF n
  <1>2. i \in Nat /\ i < n /\ MAX_COMMAND_LEN \in Nat
    BY <1>1, SizeFacts DEF n
  <1>3. \A k \in 1 .. n : k \in rest <=> k > i /\ text[k] # Space
    BY <1>1, Zenon DEF Rest
  <1>4. rest \subseteq 1 .. n
    BY <1>1, Zenon DEF Rest
  <1> HIDE DEF rest
  <1>5. ASSUME NEW k \in 0 .. MAX_COMMAND_LEN - 1, P(k)
        PROVE  (CHOOSE x \in DOMAIN b : P(x)) = k
    <2>1. ASSUME NEW x \in DOMAIN b, P(x) PROVE x = k
      <3>1. x \in Nat /\ k \in Nat
        BY <1>1, <1>2
      <3>2. ~(x < k)
        <4> SUFFICES ASSUME x < k PROVE FALSE
          OBVIOUS
        <4>1. x \in i .. k - 1
          BY <1>2, <2>1, <3>1
        <4> QED  BY <1>5, <2>1, <4>1
      <3>3. ~(k < x)
        <4> SUFFICES ASSUME k < x PROVE FALSE
          OBVIOUS
        <4>1. k \in i .. x - 1
          BY <1>2, <1>5, <3>1
        <4> QED  BY <1>5, <2>1, <4>1
      <3> QED  BY <3>1, <3>2, <3>3
    <2> HIDE DEF P
    <2> QED  BY <1>1, <1>5, <2>1
  <1>6. CASE rest = {}
    <2>1. P(n)
      <3>1. ASSUME NEW j \in i .. n - 1 PROVE b[j] = Space
        <4>1. j \in 0 .. n - 1 /\ j + 1 \in 1 .. n /\ j + 1 > i
          BY <1>1, <1>2
        <4>2. text[j + 1] = Space
          BY <1>3, <1>6, <4>1
        <4> QED  BY <1>1, <4>1, <4>2
      <3> QED  BY <1>1, <1>2, <3>1
    <2>2. n \in 0 .. MAX_COMMAND_LEN - 1
      BY <1>1, <1>2
    <2>3. (CHOOSE x \in DOMAIN b : P(x)) = n
      BY <1>5, <2>1, <2>2
    <2> QED  BY <1>1, <1>6, <2>3, Zenon DEF Args, rest
  <1>7. CASE rest # {}
    <2> DEFINE m == Least(rest)
    <2>1. m \in rest /\ \A j \in rest : m <= j
      <3>1. rest \subseteq Nat
        BY <1>4
      <3> QED  BY <1>7, <3>1, LeastIs, Zenon
    <2> HIDE DEF m
    <2>2. m \in 1 .. n /\ m > i /\ text[m] # Space /\ m - 1 \in 0 .. n - 1
      BY <1>1, <1>3, <1>4, <2>1
    <2>3. m - 1 > i
      <3>1. m # i + 1
        BY <2>2
      <3> QED  BY <1>2, <2>2, <3>1
    <2>4. P(m - 1)
      <3>1. ASSUME NEW j \in i .. (m - 1) - 1 PROVE b[j] = Space
        <4>1. j \in 0 .. n - 1 /\ j + 1 \in 1 .. n /\ j + 1 > i /\ ~(m <= j + 1)
          BY <1>1, <1>2, <2>2
        <4>2. text[j + 1] = Space
          BY <1>3, <2>1, <4>1
        <4> QED  BY <1>1, <4>1, <4>2
      <3>2. b[m - 1] # Space
        BY <1>1, <2>2
      <3> QED  BY <2>3, <3>1, <3>2
    <2>5. m - 1 \in 0 .. MAX_COMMAND_LEN - 1
      BY <1>1, <1>2, <2>2
    <2>6. (CHOOSE x \in DOMAIN b : P(x)) = m - 1
      BY <1>5, <2>4, <2>5
    <2>7. b[m - 1] # Nul
      BY <1>1, <2>2
    <2>8. Args(b, i) = String(b, m - 1)
      BY <2>6, <2>7, Zenon DEF Args
    <2>9. String(b, m - 1) = SubSeq(text, (m - 1) + 1, n)
      <3>1. n \in 0 .. Len(text) /\ m - 1 \in 0 .. n /\ Len(text) < MAX_COMMAND_LEN
        BY <1>1, <2>2 DEF n
      <3>2. \A j \in m - 1 .. n - 1 : b[j] = text[j + 1]
        BY <1>1, <2>2
      <3> QED  BY <1>1, <3>1, <3>2, StringIs
    <2>10. (m - 1) + 1 = m
      BY <2>2
    <2> QED  BY <1>7, <2>8, <2>9, <2>10, Zenon DEF m, rest, n
  <1> QED  BY <1>6, <1>7

\* parse: the name ends at the first space, or with the line.
LEMMA NameAndArgs ==
    ASSUME NEW b, NEW text, Holds(b, text)
    PROVE  LET spaces == {k \in DOMAIN text : text[k] = Space}
               n == IF spaces = {} THEN Len(text) ELSE Least(spaces) - 1
               args == IF Rest(text, n) = {} THEN NoArgs
                       ELSE SubSeq(text, Least(Rest(text, n)), Len(text))
           IN  parse(b) = [name |-> SubSeq(text, 1, n), args |-> args]
  <1> DEFINE spaces == {k \in DOMAIN text : text[k] = Space}
             N == Len(text)
             n == IF spaces = {} THEN N ELSE Least(spaces) - 1
             ends == {Space, Nul}
  <1>1. /\ text \in Seq(Glyph) /\ N \in Nat /\ DOMAIN text = 1 .. N
        /\ N < MAX_COMMAND_LEN
        /\ DOMAIN b = 0 .. MAX_COMMAND_LEN - 1
        /\ b[N] = Nul /\ Nul # Space
        /\ \A k \in 1 .. N : text[k] # Nul /\ b[k - 1] = text[k]
        /\ \A j \in 0 .. N - 1 : b[j] = text[j + 1] /\ b[j] # Nul
    BY HeldText
  <1> HIDE DEF N
  <1>2. \A k \in 1 .. N : k \in spaces <=> text[k] = Space
    BY <1>1, Zenon
  <1>3. spaces \subseteq 1 .. N
    BY <1>1, Zenon
  <1> HIDE DEF spaces
  <1>4. CASE spaces = {}
    <2>1. n = N
      BY <1>4
    <2>2. \A j \in 0 .. N - 1 : b[j] = text[j + 1] /\ b[j] # Nul /\ b[j] # Space
      <3> TAKE j \in 0 .. N - 1
      <3>1. j + 1 \in 1 .. N
        BY <1>1
      <3>2. text[j + 1] # Space
        BY <1>2, <1>4, <3>1
      <3> QED  BY <1>1, <3>2
    <2>3. FirstOf(b, 0, ends) = N
      <3>1. b[N] \in ends /\ \A j \in 0 .. N - 1 : b[j] \notin ends
        BY <1>1, <2>2
      <3>2. 0 \in Nat /\ N \in 0 .. MAX_COMMAND_LEN - 1 /\ 0 <= N
        BY <1>1, SizeFacts
      <3> HIDE DEF ends
      <3> QED  BY <1>1, <3>1, <3>2, FirstIs, Zenon
    <2>4. parse(b) = [name |-> String(b, 0), args |-> NoArgs]
      BY <1>1, <2>3, Zenon DEF parse
    <2>5. String(b, 0) = SubSeq(text, 1, N)
      <3>1. N \in 0 .. Len(text) /\ 0 \in 0 .. N /\ Len(text) < MAX_COMMAND_LEN
        BY <1>1 DEF N
      <3>2. 0 + 1 = 1
        OBVIOUS
      <3>3. \A j \in 0 .. N - 1 : b[j] = text[j + 1]
        BY <2>2, Zenon
      <3>4. String(b, 0) = SubSeq(text, 0 + 1, N)
        BY <1>1, <3>1, <3>3, StringIs, Zenon
      <3> QED  BY <3>2, <3>4, Zenon
    <2>6. Rest(text, N) = {}
      BY <1>1 DEF Rest
    <2> QED  BY <2>1, <2>4, <2>5, <2>6, Zenon DEF spaces, N
  <1>5. CASE spaces # {}
    <2> DEFINE m == Least(spaces)
    <2>1. m \in spaces /\ \A j \in spaces : m <= j
      <3>1. spaces \subseteq Nat
        BY <1>3
      <3> QED  BY <1>5, <3>1, LeastIs, Zenon
    <2> HIDE DEF m
    <2>2. m \in 1 .. N /\ text[m] = Space /\ m - 1 \in 0 .. N - 1 /\ (m - 1) + 1 = m
      BY <1>1, <1>2, <1>3, <2>1
    <2> DEFINE i == m - 1
    <2>3. n = i
      BY <1>5 DEF m
    <2>4. b[i] = Space
      BY <1>1, <2>2
    <2> HIDE DEF i, n
    <2>5. i \in 0 .. N - 1 /\ text[i + 1] = Space /\ i \in Nat
      BY <2>2 DEF i
    <2>6. \A j \in 0 .. i - 1 : b[j] = text[j + 1] /\ b[j] # Nul /\ b[j] # Space
      <3> TAKE j \in 0 .. i - 1
      <3>1. j + 1 \in 1 .. N /\ j \in 0 .. N - 1 /\ ~(m <= j + 1)
        BY <1>1, <2>2, <2>5 DEF i
      <3>2. text[j + 1] # Space
        BY <1>2, <2>1, <3>1
      <3> QED  BY <1>1, <3>1, <3>2
    <2>7. FirstOf(b, 0, ends) = i
      <3>1. b[i] \in ends /\ \A j \in 0 .. i - 1 : b[j] \notin ends
        BY <2>4, <2>6
      <3>2. 0 \in Nat /\ i \in 0 .. MAX_COMMAND_LEN - 1 /\ 0 <= i
        BY <1>1, <2>5, SizeFacts
      <3> HIDE DEF ends
      <3> QED  BY <1>1, <3>1, <3>2, FirstIs, Zenon
    <2> DEFINE b2 == [b EXCEPT ![i] = Nul]
    <2>8. parse(b) = [name |-> String(b2, 0), args |-> Args(b, i)]
      BY <2>4, <2>7, Zenon DEF parse
    <2>9. /\ DOMAIN b2 = 0 .. MAX_COMMAND_LEN - 1 /\ b2[i] = Nul
          /\ \A j \in 0 .. i - 1 : b2[j] = text[j + 1]
      <3>1. i \in DOMAIN b
        BY <1>1, <2>5, SizeFacts
      <3>2. \A j \in 0 .. i - 1 : j \in DOMAIN b /\ j # i
        BY <1>1, <2>5, SizeFacts
      <3> QED  BY <1>1, <2>6, <3>1, <3>2
    <2> HIDE DEF b2
    <2>10. String(b2, 0) = SubSeq(text, 1, i)
      <3>1. i \in 0 .. Len(text) /\ 0 \in 0 .. i /\ Len(text) < MAX_COMMAND_LEN
        BY <1>1, <2>5 DEF N
      <3>2. 0 + 1 = 1
        OBVIOUS
      <3>3. String(b2, 0) = SubSeq(text, 0 + 1, i)
        BY <1>1, <2>9, <3>1, StringIs, Zenon
      <3> QED  BY <3>2, <3>3, Zenon
    <2>11. Args(b, i) = IF Rest(text, i) = {} THEN NoArgs
                        ELSE SubSeq(text, Least(Rest(text, i)), Len(text))
      <3>1. i \in 0 .. Len(text) - 1
        BY <2>5 DEF N
      <3> QED  BY <2>5, <3>1, ArgsAre, Zenon
    <2>12. parse(b) = [name |-> SubSeq(text, 1, n),
                       args |-> IF Rest(text, n) = {} THEN NoArgs
                                ELSE SubSeq(text, Least(Rest(text, n)), Len(text))]
      BY <2>3, <2>8, <2>10, <2>11, Zenon
    <2> QED  BY <2>12, Zenon DEF n, spaces, N
  <1> QED  BY <1>4, <1>5

\* handle_command does what the line means to its reader.
LEMMA CallsWhatIsMeant ==
    ASSUME NEW b, NEW text, Holds(b, text)
    PROVE  handle_command(b) = Meaning(text)
  <1> DEFINE spaces == {k \in DOMAIN text : text[k] = Space}
             n == IF spaces = {} THEN Len(text) ELSE Least(spaces) - 1
             rest == {k \in DOMAIN text : k > n /\ text[k] # Space}
             args == IF rest = {} THEN NoArgs
                     ELSE SubSeq(text, Least(rest), Len(text))
             name == SubSeq(text, 1, n)
             named == {k \in DOMAIN Commands : Commands[k].name = name}
             c == Least(named)
  <1>1. Meaning(text) =
           IF text = <<>> THEN Nothing
           ELSE IF named = {} THEN [command |-> "not found", args |-> NoArgs]
           ELSE IF args = NoArgs /\ Commands[c].kind = "file"
           THEN [command |-> "usage", args |-> NoArgs]
           ELSE [command |-> Commands[c].fn,
                 args |-> IF args = NoArgs /\ Commands[c].kind = "cd"
                             THEN <<Slash>> ELSE args]
    BY Zenon DEF Meaning
  <1>2. parse(b) = [name |-> name, args |-> args]
    BY NameAndArgs, Zenon DEF Rest
  <1> HIDE DEF args, name
  <1>3. parse(b).name = name /\ parse(b).args = args
    BY <1>2
  <1>4. handle_command(b) =
           IF b[0] = Nul THEN Nothing
           ELSE IF named = {} THEN [command |-> "not found", args |-> NoArgs]
           ELSE Call(c, args)
    <2> DEFINE found == {k \in DOMAIN Commands : Commands[k].name = parse(b).name}
    <2>1. found = named
      BY <1>3
    <2>2. handle_command(b) =
             IF b[0] = Nul THEN Nothing
             ELSE IF found = {} THEN [command |-> "not found", args |-> NoArgs]
             ELSE Call(Least(found), parse(b).args)
      BY Zenon DEF handle_command, Matches, Least
    <2> HIDE DEF found, named
    <2> QED  BY <1>3, <2>1, <2>2, Zenon
  <1>5. b[0] = Nul <=> text = <<>>
    <2>1. /\ text \in Seq(Glyph) /\ Len(text) \in Nat /\ b[Len(text)] = Nul
          /\ \A k \in 1 .. Len(text) : text[k] # Nul /\ b[k - 1] = text[k]
      BY HeldText
    <2>2. CASE text = <<>>
      BY <2>1, <2>2
    <2>3. CASE text # <<>>
      <3>1. 1 \in 1 .. Len(text) /\ 1 - 1 = 0
        BY <2>1, <2>3
      <3>2. b[0] # Nul
        BY <2>1, <3>1
      <3> QED  BY <2>3, <3>2
    <2> QED  BY <2>2, <2>3
  <1>6. ASSUME named # {}
        PROVE  Call(c, args) =
                  IF args = NoArgs /\ Commands[c].kind = "file"
                  THEN [command |-> "usage", args |-> NoArgs]
                  ELSE [command |-> Commands[c].fn,
                        args |-> IF args = NoArgs /\ Commands[c].kind = "cd"
                                    THEN <<Slash>> ELSE args]
    <2>1. named \subseteq Nat /\ named \subseteq DOMAIN Commands
      BY ConsoleAssumption
    <2> HIDE DEF named
    <2>2. c \in DOMAIN Commands
      BY <1>6, <2>1, LeastIs
    <2> HIDE DEF c
    <2>3. Commands[c].kind \in {"plain", "file", "cd"}
      BY <2>2, ConsoleAssumption DEF Kinds
    <2> DEFINE kind == Commands[c].kind
               fn == Commands[c].fn
    <2>4. Call(c, args) =
             IF args # NoArgs \/ kind = "plain" THEN [command |-> fn, args |-> args]
             ELSE IF kind = "file" THEN [command |-> "usage", args |-> NoArgs]
             ELSE [command |-> fn, args |-> <<Slash>>]
      BY Zenon DEF Call
    <2> HIDE DEF kind, fn
    <2>5. kind \in {"plain", "file", "cd"}
      BY <2>3 DEF kind
    <2>6. Call(c, args) =
             IF args = NoArgs /\ kind = "file"
             THEN [command |-> "usage", args |-> NoArgs]
             ELSE [command |-> fn,
                   args |-> IF args = NoArgs /\ kind = "cd"
                               THEN <<Slash>> ELSE args]
      <3>1. CASE args # NoArgs \/ kind = "plain"
        <4>1. Call(c, args) = [command |-> fn, args |-> args]
          BY <2>4, <3>1
        <4>2. ~(args = NoArgs /\ kind = "file") /\ ~(args = NoArgs /\ kind = "cd")
          BY <3>1
        <4> QED  BY <4>1, <4>2, Zenon
      <3>2. CASE args = NoArgs /\ kind = "file"
        <4>1. Call(c, args) = [command |-> "usage", args |-> NoArgs]
          BY <2>4, <3>2
        <4> QED  BY <3>2, <4>1, Zenon
      <3>3. CASE args = NoArgs /\ kind = "cd"
        <4>1. Call(c, args) = [command |-> fn, args |-> <<Slash>>]
          BY <2>4, <3>3
        <4>2. kind # "file"
          BY <3>3
        <4> QED  BY <3>3, <4>1, <4>2, Zenon
      <3> QED  BY <2>5, <3>1, <3>2, <3>3
    <2> QED  BY <2>6, Zenon DEF kind, fn
  <1> HIDE DEF named, c
  <1>7. CASE text = <<>>
    <2>1. handle_command(b) = Nothing
      BY <1>4, <1>5, <1>7
    <2> QED  BY <1>1, <1>7, <2>1
  <1>8. CASE text # <<>> /\ named = {}
    <2>1. b[0] # Nul
      BY <1>5, <1>8
    <2>2. handle_command(b) = [command |-> "not found", args |-> NoArgs]
      BY <1>4, <1>8, <2>1, Zenon
    <2>3. Meaning(text) = [command |-> "not found", args |-> NoArgs]
      BY <1>1, <1>8, Zenon
    <2> QED  BY <2>2, <2>3
  <1>9. CASE text # <<>> /\ named # {}
    <2>1. b[0] # Nul
      BY <1>5, <1>9
    <2>2. handle_command(b) = Call(c, args)
      BY <1>4, <1>9, <2>1, Zenon
    <2> DEFINE called_for ==
                  IF args = NoArgs /\ Commands[c].kind = "file"
                  THEN [command |-> "usage", args |-> NoArgs]
                  ELSE [command |-> Commands[c].fn,
                        args |-> IF args = NoArgs /\ Commands[c].kind = "cd"
                                    THEN <<Slash>> ELSE args]
    <2>3. Meaning(text) = called_for
      BY <1>1, <1>9, Zenon
    <2>4. Call(c, args) = called_for
      BY <1>6, <1>9
    <2> HIDE DEF called_for
    <2> QED  BY <2>2, <2>3, <2>4
  <1> QED  BY <1>7, <1>8, <1>9

\* The line stands on the screen, and the buffer holds it.
LEMMA LineIsShown ==
    ASSUME IInv, pc = "poll", ~unseen, NEW stale
    PROVE  Shown = line /\ Holds(Buffer(stale), line)
  <1> DEFINE n == Len(line)
             b == Buffer(stale)
             v == screen.vga
             C == Cursor(screen)
  <1>1. /\ line \in Seq(Char) /\ n \in Nat /\ n < MAX_COMMAND_LEN
        /\ screen \in Screens
    BY LenProperties DEF IInv, Types
  <1>2. /\ Len(PromptAndLine) <= C
        /\ \A j \in 1 .. Len(PromptAndLine) :
              v[C - Len(PromptAndLine) + j - 1] = PromptAndLine[j]
    BY Zenon DEF IInv, LineStands, Stands
  <1>3. Len(PromptAndLine) = n + 2 /\ \A j \in 1 .. n : PromptAndLine[j + 2] = line[j]
    BY <1>1 DEF PromptAndLine
  <1>4. v \in [Cells -> Glyph] /\ C \in Cells
    BY <1>1, ScreenFields
  <1> HIDE DEF v, C
  <1>5. ASSUME NEW j \in 1 .. n PROVE v[C - n + j - 1] = line[j] /\ line[j] \in Glyph
    <2>1. /\ j + 2 \in 1 .. Len(PromptAndLine)
          /\ C - Len(PromptAndLine) + (j + 2) - 1 = C - n + j - 1
          /\ C - n + j - 1 \in Cells
      <3> DEFINE m == Len(PromptAndLine)
      <3>1. m = n + 2 /\ m <= C /\ n \in Nat
        BY <1>1, <1>2, <1>3
      <3> HIDE DEF m, n
      <3>2. C \in Int /\ 0 <= C - n + j - 1 /\ C - n + j - 1 <= C
        BY <1>4, <3>1, SizeFacts
      <3>3. C - n + j - 1 \in Cells
        BY <1>4, <3>1, <3>2, SizeFacts
      <3>4. j + 2 \in 1 .. m /\ C - m + (j + 2) - 1 = C - n + j - 1
        BY <3>1, <3>2
      <3> QED  BY <3>3, <3>4 DEF m
    <2>2. v[C - Len(PromptAndLine) + (j + 2) - 1] = PromptAndLine[j + 2]
      BY <1>2, <2>1, Zenon
    <2>3. v[C - n + j - 1] = line[j]
      BY <1>3, <2>1, <2>2, Zenon
    <2>4. v[C - n + j - 1] \in Glyph
      BY <1>4, <2>1
    <2> QED  BY <2>3, <2>4
  <1>6. Shown = line
    <2> DEFINE s == [j \in 1 .. n |-> v[C - n + j - 1]]
    <2>1. Shown = s
      BY DEF Shown, v, C
    <2>2. line = [j \in 1 .. n |-> line[j]]
      BY <1>1
    <2>3. s = line
      BY <1>5, <2>2, Zenon
    <2> QED  BY <2>1, <2>3
  <1>7. line \in Seq(Glyph)
    <2>1. line = [j \in 1 .. n |-> line[j]]
      BY <1>1
    <2>2. line \in [1 .. n -> Glyph]
      BY <1>5, <2>1, Zenon
    <2> QED  BY <1>1, <2>2
  <1>8. b = [i \in 0 .. MAX_COMMAND_LEN - 1 |->
               IF i < n THEN line[i + 1] ELSE IF i = n THEN Nul ELSE stale]
    BY DEF Buffer
  <1> HIDE DEF b
  <1>9. /\ DOMAIN b = 0 .. MAX_COMMAND_LEN - 1
        /\ b[n] = Nul
        /\ \A i \in 0 .. n - 1 : b[i] = line[i + 1]
    <2>1. /\ n \in 0 .. MAX_COMMAND_LEN - 1 /\ ~(n < n)
          /\ \A i \in 0 .. n - 1 : i \in 0 .. MAX_COMMAND_LEN - 1 /\ i < n
      BY <1>1, SizeFacts
    <2> QED  BY <1>8, <2>1, Zenon
  <1> QED  BY <1>1, <1>6, <1>7, <1>9, Zenon DEF Holds, b

\* What stands behind the prompt when Enter is taken is what is called: the
\* line editor, the screen, the buffer with what earlier lines left in it,
\* and parse agree, for every table of commands.
THEOREM ShownLineRuns == Spec => RunsWhatIsShown
  <1>1. IInv /\ [Next]_vars
           => [pc = "poll" /\ pc' = "command" /\ ~unseen => called' = Meaning(Shown)]_vars
    <2> SUFFICES ASSUME IInv, Next, pc = "poll", pc' = "command", ~unseen
                 PROVE  called' = Meaning(Shown)
      OBVIOUS
    <2>1. Enter
      <3>1. ~ (\E code \in Keys, press \in BOOLEAN : Key(code, press))
        BY DEF Key
      <3>2. ~Poll /\ ~CommandOutput /\ ~CommandEnd
        BY DEF Poll, CommandOutput, CommandEnd
      <3> QED  BY <3>1, <3>2 DEF Next
    <2>2. PICK stale \in Char : called' = handle_command(Buffer(stale))
      BY <2>1, Zenon DEF Enter
    <2>3. Shown = line /\ Holds(Buffer(stale), line)
      BY LineIsShown
    <2>4. handle_command(Buffer(stale)) = Meaning(line)
      BY <2>3, CallsWhatIsMeant
    <2> QED  BY <2>2, <2>3, <2>4, Zenon
  <1> QED  BY <1>1, SpecInv, PTL DEF Spec, RunsWhatIsShown
=============================================================================
