--------------------------------- MODULE Screen80 ---------------------------------
(***************************************************************************)
(* The 80-column screen as the firmware keeps it (screen80.c): the video   *)
(* page, the cursor, the scroll region, the attribute, the save area of    *)
(* the alternate screen, and the cursor overlay.  Every scr_ function is   *)
(* an operator from screen to screen.                                      *)
(*                                                                         *)
(* The two memory banks of the page appear as one page of cells, and a     *)
(* display code as its character and whether it is inverse.                *)
(***************************************************************************)
EXTENDS Integers

CONSTANTS
  Rows, Cols,  \* SCR_ROWS, SCR_COLS
  Chars,       \* printable characters
  Upper        \* the character whose inverse code a character shares

Byte == 256
Row == 0 .. Rows - 1
Col == 0 .. Cols - 1
Glyph == [ch : Chars, inv : BOOLEAN]
Page  == [Row -> [Col -> Glyph]]

ASSUME ScreenAssumption ==
  /\ Rows \in 2 .. Byte - 1 /\ Cols \in 2 .. Byte - 1
  /\ " " \in Chars /\ Upper \in [Chars -> Chars]

Blank     == [ch |-> " ", inv |-> FALSE]
BlankRow  == [c \in Col |-> Blank]
BlankPage == [r \in Row |-> BlankRow]

\* Min and Max of two
Lower(m, n)  == IF m < n THEN m ELSE n
AtLeast(m, n) == IF m < n THEN n ELSE m

--------------------------------------------------------------------------------
(***************************************************************************)
(* Cells and rows.                                                         *)
(***************************************************************************)
CellPut(s, c, r, g) == [s EXCEPT !.cell[r][c] = g]

\* row_copy, bank by bank, and a blank row where the region opens
RegionUp(cell, top, bot, n) ==
  [r \in Row |-> IF r < top \/ r > bot THEN cell[r]
                 ELSE IF r + n <= bot THEN cell[r + n] ELSE BlankRow]
RegionDown(cell, top, bot, n) ==
  [r \in Row |-> IF r < top \/ r > bot THEN cell[r]
                 ELSE IF r - n >= top THEN cell[r - n] ELSE BlankRow]

\* the current row alone is rewritten, by f
EditRow(s, f) == [s EXCEPT !.cell[s.row] = f]

BlankWhere(s, Erased(_, _)) ==
  [s EXCEPT !.cell = [r \in Row |-> [c \in Col |-> IF Erased(r, c) THEN Blank ELSE s.cell[r][c]]]]

--------------------------------------------------------------------------------
(***************************************************************************)
(* Cursor motion and scrolling.                                            *)
(***************************************************************************)
Gotoxy(s, c, r) == [s EXCEPT !.col = Lower(c, Cols - 1), !.row = Lower(r, Rows - 1)]
Cr(s) == [s EXCEPT !.col = 0]
Bs(s) == IF s.col # 0 THEN [s EXCEPT !.col = @ - 1] ELSE s

\* Deviation: a line feed at the margin scrolls the whole screen.
ScrollUp_All(s) == [s EXCEPT !.cell = RegionUp(@, 0, s.bot, 1)]

ScrollUp(s)   == [s EXCEPT !.cell = RegionUp(@, s.top, s.bot, 1)]
ScrollDown(s) == [s EXCEPT !.cell = RegionDown(@, s.top, s.bot, 1)]

Lf(s) ==
  IF s.row = s.bot THEN ScrollUp(s)
  ELSE IF s.row < Rows - 1 THEN [s EXCEPT !.row = @ + 1] ELSE s

Ri(s) ==
  IF s.row = s.top THEN ScrollDown(s)
  ELSE IF s.row # 0 THEN [s EXCEPT !.row = @ - 1] ELSE s

\* Deviation: a region of one row is taken.
Inverted(top, bot) == top > bot

\* an empty or inverted region is the whole screen
Unusable(top, bot) == top >= bot

SetRegion(s, top, bot) ==
  LET last  == Lower(bot, Rows - 1)
      whole == Unusable(top, last)
  IN  [s EXCEPT !.top = IF whole THEN 0 ELSE top, !.bot = IF whole THEN Rows - 1 ELSE last,
                !.col = 0, !.row = 0]

--------------------------------------------------------------------------------
(***************************************************************************)
(* Editing.                                                                *)
(***************************************************************************)
InRegion(s) == s.row >= s.top /\ s.row <= s.bot
InsertLines(s, n) == IF InRegion(s) THEN [s EXCEPT !.cell = RegionDown(@, s.row, s.bot, n)] ELSE s
DeleteLines(s, n) == IF InRegion(s) THEN [s EXCEPT !.cell = RegionUp(@, s.row, s.bot, n)] ELSE s

InsertChars(s, count) ==
  LET n   == Lower(AtLeast(count, 1), Cols - s.col)
      old == s.cell[s.row]
  IN  EditRow(s, [c \in Col |-> IF c < s.col THEN old[c]
                                ELSE IF c < s.col + n THEN Blank ELSE old[c - n]])

DeleteChars(s, count) ==
  LET n   == AtLeast(count, 1)
      old == s.cell[s.row]
  IN  EditRow(s, [c \in Col |-> IF c < s.col THEN old[c]
                                ELSE IF c + n < Cols THEN old[c + n] ELSE Blank])

EraseChars(s, count) ==
  LET n == AtLeast(count, 1)
  IN  EditRow(s, [c \in Col |-> IF c >= s.col /\ c < s.col + n THEN Blank ELSE s.cell[s.row][c]])

\* in inverse, the code of the upper-case letter
Ink(ch, inverse) == [ch |-> IF inverse THEN Upper[ch] ELSE ch, inv |-> inverse]

\* a character moves the cursor on, at the edge to a new line
Put(s, ch) ==
  LET t == CellPut(s, s.col, s.row, Ink(ch, s.attr))
  IN  IF s.col + 1 >= Cols THEN Lf(Cr(t)) ELSE [t EXCEPT !.col = @ + 1]

SetAttr(s, inverse) == [s EXCEPT !.attr = inverse]

ClearEol(s)  == BlankWhere(s, LAMBDA r, c : r = s.row /\ c >= s.col)
ClearBol(s)  == BlankWhere(s, LAMBDA r, c : r = s.row /\ c <= s.col)
ClearLine(s) == BlankWhere(s, LAMBDA r, c : r = s.row)
ClearBop(s)  == BlankWhere(s, LAMBDA r, c : r < s.row \/ (r = s.row /\ c <= s.col))
ClearEop(s)  == BlankWhere(s, LAMBDA r, c : r > s.row \/ (r = s.row /\ c >= s.col))
ClearAll(s)  == [s EXCEPT !.cell = BlankPage, !.col = 0, !.row = 0]

--------------------------------------------------------------------------------
(***************************************************************************)
(* The alternate screen's save area.                                       *)
(***************************************************************************)
SaveScreen(s)    == [s EXCEPT !.area = s.cell, !.area_col = s.col, !.area_row = s.row]

RestoreScreen(s) == [s EXCEPT !.cell = s.area, !.col = s.area_col, !.row = s.area_row]

--------------------------------------------------------------------------------
(***************************************************************************)
(* The cursor overlay, its stores one by one.                              *)
(***************************************************************************)
CursorGlyph(g) == IF g.inv THEN [g EXCEPT !.inv = FALSE] ELSE Ink(g.ch, TRUE)

KeepUnder(s) == [s EXCEPT !.under = s.cell[s.row][s.col], !.at_col = s.col, !.at_row = s.row]
Mark(s)      == [s EXCEPT !.shown = TRUE]
Invert(s)    == CellPut(s, s.at_col, s.at_row, CursorGlyph(s.under))
Uninvert(s)  == CellPut(s, s.at_col, s.at_row, s.under)
\* Deviation: the overlay is still marked shown.
StillMarked(s) == s

Unmark(s)    == [s EXCEPT !.shown = FALSE]
CursorErase(s) == IF s.shown THEN Unmark(Uninvert(s)) ELSE s

\* hiding erases at once
SetCursorVisible(s, on) ==
  LET t == [s EXCEPT !.visible = on] IN IF on THEN t ELSE CursorErase(t)

\* what a reader of memory takes for the screen
Stripped(s) == IF s.shown THEN [s.cell EXCEPT ![s.at_row][s.at_col] = s.under] ELSE s.cell

\* scr_init; the save area holds what memory holds, here some page
Start(memory) ==
  [cell |-> BlankPage, col |-> 0, row |-> 0, top |-> 0, bot |-> Rows - 1, attr |-> FALSE,
   area |-> memory, area_col |-> 0, area_row |-> 0,
   visible |-> TRUE, shown |-> FALSE, at_col |-> 0, at_row |-> 0, under |-> Blank]

Screens ==
  [cell : Page, col : Col, row : Row, top : Row, bot : Row, attr : BOOLEAN,
   area : Page, area_col : Col, area_row : Row,
   visible : BOOLEAN, shown : BOOLEAN, at_col : Col, at_row : Row, under : Glyph]

\* the cursor is on the screen and the region has at least two rows
ScreenOK(s) == s \in Screens /\ s.top < s.bot

================================================================================
