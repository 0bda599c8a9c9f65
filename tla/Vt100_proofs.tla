-------------------------------- MODULE Vt100_proofs --------------------------------
(***************************************************************************)
(* Theorems about the terminal, for a screen of any size, any characters   *)
(* and any input: the cursor and the scroll region stay on the screen, the *)
(* cursor overlay can always be taken off it, whatever is fed and between  *)
(* any two stores, and a control sequence of any length does what its      *)
(* bytes say.                                                              *)
(***************************************************************************)
EXTENDS Vt100, WellFoundedInduction, SequenceTheorems, TLAPS

\* A screen has at least two rows and two columns.
LEMMA Sizes == Rows \in Nat /\ Rows >= 2 /\ Cols \in Nat /\ Cols >= 2
  <1>1. Rows \in 2 .. Byte - 1 /\ Cols \in 2 .. Byte - 1 BY ScreenAssumption
  <1> QED BY <1>1 DEF Byte

(***************************************************************************)
(* The screen.  A byte is rendered on a screen without the overlay, and    *)
(* every function that renders it leaves such a screen.                    *)
(***************************************************************************)
Fine(x) == ScreenOK(x) /\ ~x.shown

\* what two screens have in common: the save areas, the pages with their cursors, or the
\* page of one and the save area of the other
SameArea(y, x)  == y.area = x.area /\ y.area_col = x.area_col /\ y.area_row = x.area_row
SamePlace(y, x) == y.cell = x.cell /\ y.col = x.col /\ y.row = x.row
AreaHolds(y, x) == y.area = x.cell /\ y.area_col = x.col /\ y.area_row = x.row
FromArea(y, x)  == y.cell = x.area /\ y.col = x.area_col /\ y.row = x.area_row
USE DEF SameArea, SamePlace, AreaHolds, FromArea

\* y is a screen a function that leaves the attribute and the save area may make of x
From(y, x) == Fine(y) /\ y.attr = x.attr /\ SameArea(y, x)

\* Replacing the page, or moving the cursor, leaves a screen as fine as it was.
LEMMA SetCell ==
  ASSUME NEW x, Fine(x), NEW cell \in Page
  PROVE  From([x EXCEPT !.cell = cell], x)
  BY DEF From, Fine, ScreenOK, Screens

LEMMA SetCursor ==
  ASSUME NEW x, Fine(x), NEW c \in Col, NEW r \in Row
  PROVE  From([x EXCEPT !.col = c, !.row = r], x)
  BY DEF From, Fine, ScreenOK, Screens

LEMMA SetColumn ==
  ASSUME NEW x, Fine(x), NEW c \in Col
  PROVE  From([x EXCEPT !.col = c], x)
  BY DEF From, Fine, ScreenOK, Screens

LEMMA SetRow ==
  ASSUME NEW x, Fine(x), NEW r \in Row
  PROVE  From([x EXCEPT !.row = r], x)
  BY DEF From, Fine, ScreenOK, Screens

LEMMA FineFields ==
  ASSUME NEW x, Fine(x)
  PROVE  /\ x.cell \in Page /\ x.area \in Page /\ x.under \in Glyph /\ x.attr \in BOOLEAN
         /\ x.col \in Col /\ x.row \in Row /\ x.area_col \in Col /\ x.area_row \in Row
         /\ x.top \in Row /\ x.bot \in Row /\ x.top < x.bot /\ From(x, x)
  BY DEF From, Fine, ScreenOK, Screens

LEMMA BlankIsPage == Blank \in Glyph /\ BlankRow \in [Col -> Glyph] /\ BlankPage \in Page
  BY ScreenAssumption DEF Blank, BlankRow, BlankPage, Page, Glyph

LEMMA RegionIsPage ==
  ASSUME NEW cell \in Page, NEW top \in Row, NEW bot \in Row, NEW n \in Nat
  PROVE  RegionUp(cell, top, bot, n) \in Page /\ RegionDown(cell, top, bot, n) \in Page
  <1>1. \A r \in Row : r + n <= bot => r + n \in Row
    BY Sizes DEF Row
  <1>2. \A r \in Row : r - n >= top => r - n \in Row
    BY Sizes DEF Row
  <1> QED BY <1>1, <1>2, BlankIsPage DEF RegionUp, RegionDown, Page

\* scr_gotoxy clamps.
LEMMA GotoxyFine ==
  ASSUME NEW x, Fine(x), NEW c \in Nat, NEW r \in Nat
  PROVE  From(Gotoxy(x, c, r), x)
  <1>1. Lower(c, Cols - 1) \in Col /\ Lower(r, Rows - 1) \in Row
    BY Sizes DEF Lower, Col, Row
  <1> QED BY <1>1, SetCursor DEF Gotoxy

LEMMA CrFine == ASSUME NEW x, Fine(x) PROVE From(Cr(x), x)
  <1>1. 0 \in Col BY Sizes DEF Col
  <1> QED BY <1>1, SetColumn DEF Cr

LEMMA BsFine == ASSUME NEW x, Fine(x) PROVE From(Bs(x), x)
  <1>1. x.col # 0 => x.col - 1 \in Col BY FineFields, Sizes DEF Col
  <1> QED BY <1>1, SetColumn, FineFields DEF Bs

LEMMA LfFine == ASSUME NEW x, Fine(x) PROVE From(Lf(x), x)
  <1>1. RegionUp(x.cell, x.top, x.bot, 1) \in Page BY FineFields, RegionIsPage
  <1>2. From(ScrollUp(x), x) BY <1>1, SetCell DEF ScrollUp
  <1>3. x.row < Rows - 1 => x.row + 1 \in Row BY FineFields, Sizes DEF Row
  <1> QED BY <1>2, <1>3, SetRow, FineFields DEF Lf

LEMMA RiFine == ASSUME NEW x, Fine(x) PROVE From(Ri(x), x)
  <1>1. RegionDown(x.cell, x.top, x.bot, 1) \in Page BY FineFields, RegionIsPage
  <1>2. From(ScrollDown(x), x) BY <1>1, SetCell DEF ScrollDown
  <1>3. x.row # 0 => x.row - 1 \in Row BY FineFields, Sizes DEF Row
  <1> QED BY <1>2, <1>3, SetRow, FineFields DEF Ri

\* scr_set_region rejects what is not at least two rows.
LEMMA SetRegionFine ==
  ASSUME NEW x, Fine(x), NEW top \in Nat, NEW bot \in Nat
  PROVE  From(SetRegion(x, top, bot), x)
  <1> DEFINE last  == Lower(bot, Rows - 1)
             whole == Unusable(top, last)
             t == IF whole THEN 0 ELSE top
             b == IF whole THEN Rows - 1 ELSE last
  <1>1. t \in Row /\ b \in Row /\ t < b /\ 0 \in Row /\ 0 \in Col
    BY Sizes DEF Lower, Unusable, Row, Col
  <1>2. SetRegion(x, top, bot) = [x EXCEPT !.top = t, !.bot = b, !.col = 0, !.row = 0]
    BY DEF SetRegion
  <1> HIDE DEF t, b
  <1> QED BY <1>1, <1>2 DEF From, Fine, ScreenOK, Screens

\* scr_putc inks one cell and moves on.
LEMMA PutFine ==
  ASSUME NEW x, Fine(x), NEW ch \in Chars
  PROVE  From(Put(x, ch), x)
  <1> DEFINE g == Ink(ch, x.attr)
             t == CellPut(x, x.col, x.row, g)
  <1>1. g \in Glyph BY FineFields, ScreenAssumption DEF Ink, Glyph
  <1>2. [x.cell EXCEPT ![x.row][x.col] = g] \in Page
    BY <1>1, FineFields DEF Page
  <1>3. t = [x EXCEPT !.cell = [x.cell EXCEPT ![x.row][x.col] = g]]
    BY FineFields DEF CellPut, Fine, ScreenOK, Screens
  <1>4. From(t, x) BY <1>2, <1>3, SetCell
  <1> HIDE DEF t
  <1>5. Fine(t) /\ Fine(Cr(t)) BY <1>4, CrFine DEF From
  <1>6. From(Lf(Cr(t)), x) BY <1>4, <1>5, CrFine, LfFine DEF From
  <1>7. t.col = x.col BY <1>3, FineFields DEF Fine, ScreenOK, Screens
  <1>8. x.col + 1 < Cols => x.col + 1 \in Col BY FineFields, Sizes DEF Col
  <1>9. x.col + 1 < Cols => From([t EXCEPT !.col = x.col + 1], x)
    BY <1>4, <1>5, <1>8, SetColumn DEF From
  <1>10. Put(x, ch) = IF x.col + 1 >= Cols THEN Lf(Cr(t)) ELSE [t EXCEPT !.col = x.col + 1]
    BY <1>7 DEF Put, t, g
  <1> QED BY <1>6, <1>9, <1>10, FineFields, Sizes DEF Col

\* Editing rewrites the current row, or rows of the region.
LEMMA RowIsPage ==
  ASSUME NEW x, Fine(x), NEW f \in [Col -> Glyph]
  PROVE  From(EditRow(x, f), x)
  <1>1. [x.cell EXCEPT ![x.row] = f] \in Page BY FineFields DEF Page
  <1>2. EditRow(x, f) = [x EXCEPT !.cell = [x.cell EXCEPT ![x.row] = f]]
    BY FineFields DEF EditRow, Fine, ScreenOK, Screens
  <1> QED BY <1>1, <1>2, SetCell

LEMMA InsertCharsFine ==
  ASSUME NEW x, Fine(x), NEW k \in Nat
  PROVE  From(InsertChars(x, k), x)
  <1> DEFINE n   == Lower(AtLeast(k, 1), Cols - x.col)
             old == x.cell[x.row]
             f   == [c \in Col |-> IF c < x.col THEN old[c]
                                   ELSE IF c < x.col + n THEN Blank ELSE old[c - n]]
  <1>1. n \in Nat /\ n >= 1 BY FineFields, Sizes DEF Lower, AtLeast, Col
  <1> HIDE DEF n
  <1>2. old \in [Col -> Glyph] BY FineFields DEF Page
  <1>3. \A c \in Col : ~(c < x.col + n) => c - n \in Col BY <1>1, FineFields, Sizes DEF Col
  <1>4. f \in [Col -> Glyph] BY <1>2, <1>3, BlankIsPage
  <1> HIDE DEF f
  <1>5. From(EditRow(x, f), x) BY <1>4, RowIsPage
  <1> QED BY <1>5 DEF InsertChars, f, n

LEMMA DeleteCharsFine ==
  ASSUME NEW x, Fine(x), NEW k \in Nat
  PROVE  From(DeleteChars(x, k), x)
  <1> DEFINE n   == AtLeast(k, 1)
             old == x.cell[x.row]
             f   == [c \in Col |-> IF c < x.col THEN old[c]
                                   ELSE IF c + n < Cols THEN old[c + n] ELSE Blank]
  <1>1. n \in Nat BY DEF AtLeast
  <1> HIDE DEF n
  <1>2. old \in [Col -> Glyph] BY FineFields DEF Page
  <1>3. \A c \in Col : c + n < Cols => c + n \in Col BY <1>1, Sizes DEF Col
  <1>4. f \in [Col -> Glyph] BY <1>2, <1>3, BlankIsPage
  <1> HIDE DEF f
  <1>5. From(EditRow(x, f), x) BY <1>4, RowIsPage
  <1> QED BY <1>5 DEF DeleteChars, f, n

LEMMA EraseCharsFine ==
  ASSUME NEW x, Fine(x), NEW k \in Nat
  PROVE  From(EraseChars(x, k), x)
  <1> DEFINE f == [c \in Col |-> IF c >= x.col /\ c < x.col + AtLeast(k, 1)
                                 THEN Blank ELSE x.cell[x.row][c]]
  <1>1. f \in [Col -> Glyph] BY FineFields, BlankIsPage DEF Page
  <1>2. From(EditRow(x, f), x) BY <1>1, RowIsPage
  <1> QED BY <1>2 DEF EraseChars

LEMMA LinesFine ==
  ASSUME NEW x, Fine(x), NEW n \in Nat
  PROVE  From(InsertLines(x, n), x) /\ From(DeleteLines(x, n), x)
  <1>1. /\ RegionDown(x.cell, x.row, x.bot, n) \in Page
        /\ RegionUp(x.cell, x.row, x.bot, n) \in Page
    BY FineFields, RegionIsPage
  <1> QED BY <1>1, FineFields, SetCell DEF InsertLines, DeleteLines

LEMMA ClearsFine ==
  ASSUME NEW x, Fine(x)
  PROVE  /\ From(ClearEol(x), x) /\ From(ClearBol(x), x) /\ From(ClearLine(x), x)
         /\ From(ClearBop(x), x) /\ From(ClearEop(x), x) /\ From(ClearAll(x), x)
  <1> USE FineFields, BlankIsPage, SetCell
  <1>1. From(ClearEol(x), x)
    <2> DEFINE cell == [r \in Row |-> [c \in Col |-> IF r = x.row /\ c >= x.col THEN Blank ELSE x.cell[r][c]]]
    <2>1. cell \in Page BY DEF Page
    <2>2. ClearEol(x) = [x EXCEPT !.cell = cell] BY DEF ClearEol, BlankWhere
    <2> HIDE DEF cell
    <2> QED BY <2>1, <2>2
  <1>2. From(ClearBol(x), x)
    <2> DEFINE cell == [r \in Row |-> [c \in Col |-> IF r = x.row /\ c <= x.col THEN Blank ELSE x.cell[r][c]]]
    <2>1. cell \in Page BY DEF Page
    <2>2. ClearBol(x) = [x EXCEPT !.cell = cell] BY DEF ClearBol, BlankWhere
    <2> HIDE DEF cell
    <2> QED BY <2>1, <2>2
  <1>3. From(ClearLine(x), x)
    <2> DEFINE cell == [r \in Row |-> [c \in Col |-> IF r = x.row THEN Blank ELSE x.cell[r][c]]]
    <2>1. cell \in Page BY DEF Page
    <2>2. ClearLine(x) = [x EXCEPT !.cell = cell] BY DEF ClearLine, BlankWhere
    <2> HIDE DEF cell
    <2> QED BY <2>1, <2>2
  <1>4. From(ClearBop(x), x)
    <2> DEFINE cell == [r \in Row |-> [c \in Col |-> IF r < x.row \/ (r = x.row /\ c <= x.col) THEN Blank ELSE x.cell[r][c]]]
    <2>1. cell \in Page BY DEF Page
    <2>2. ClearBop(x) = [x EXCEPT !.cell = cell] BY DEF ClearBop, BlankWhere
    <2> HIDE DEF cell
    <2> QED BY <2>1, <2>2
  <1>5. From(ClearEop(x), x)
    <2> DEFINE cell == [r \in Row |-> [c \in Col |-> IF r > x.row \/ (r = x.row /\ c >= x.col) THEN Blank ELSE x.cell[r][c]]]
    <2>1. cell \in Page BY DEF Page
    <2>2. ClearEop(x) = [x EXCEPT !.cell = cell] BY DEF ClearEop, BlankWhere
    <2> HIDE DEF cell
    <2> QED BY <2>1, <2>2
  <1>6. 0 \in Col /\ 0 \in Row BY Sizes DEF Col, Row
  <1>7. From(ClearAll(x), x) BY <1>6 DEF ClearAll, From, Fine, ScreenOK, Screens
  <1> QED BY <1>1, <1>2, <1>3, <1>4, <1>5, <1>7

\* The attribute, the cursor's visibility and the save area.
LEMMA AttrFine ==
  ASSUME NEW x, Fine(x), NEW on \in BOOLEAN
  PROVE  /\ Fine(SetAttr(x, on)) /\ SetAttr(x, on).attr = on /\ SameArea(SetAttr(x, on), x)
         /\ SamePlace(SetAttr(x, on), x)
  BY DEF SetAttr, Fine, ScreenOK, Screens

LEMMA VisibleFine ==
  ASSUME NEW x, Fine(x), NEW on \in BOOLEAN
  PROVE  From(SetCursorVisible(x, on), x)
  <1> DEFINE y == [x EXCEPT !.visible = on]
  <1>1. From(y, x) /\ ~y.shown BY DEF From, Fine, ScreenOK, Screens
  <1> HIDE DEF y
  <1>2. CursorErase(y) = y BY <1>1 DEF CursorErase
  <1>3. SetCursorVisible(x, on) = y BY <1>2 DEF SetCursorVisible, y
  <1> QED BY <1>1, <1>3

LEMMA AlternateFine ==
  ASSUME NEW x, Fine(x)
  PROVE  /\ Fine(EnterAlternate(x)) /\ EnterAlternate(x).attr = x.attr
         /\ AreaHolds(EnterAlternate(x), x)
         /\ From(RestoreScreen(x), x) /\ FromArea(RestoreScreen(x), x)
  <1>1. Fine(SaveScreen(x)) /\ SaveScreen(x).attr = x.attr /\ AreaHolds(SaveScreen(x), x)
    BY DEF SaveScreen, Fine, ScreenOK, Screens
  <1>2. From(ClearAll(SaveScreen(x)), SaveScreen(x)) BY <1>1, ClearsFine
  <1>3. From(RestoreScreen(x), x) /\ FromArea(RestoreScreen(x), x)
    BY DEF RestoreScreen, From, Fine, ScreenOK, Screens
  <1> QED BY <1>1, <1>2, <1>3 DEF EnterAlternate, From

(***************************************************************************)
(* The parser.                                                             *)
(***************************************************************************)
Sound(t) ==
  /\ t = Term(t.s, t.p, t.out)
  /\ Fine(t.s) /\ t.p \in Parsers /\ t.p.inverse = t.s.attr

LEMMA TermExcept ==
  ASSUME NEW t, t = Term(t.s, t.p, t.out), NEW y, NEW q
  PROVE  /\ [t EXCEPT !.s = y] = Term(y, t.p, t.out)
         /\ [t EXCEPT !.p = q] = Term(t.s, q, t.out)
         /\ [t EXCEPT !.p = q, !.s = y] = Term(y, q, t.out)
  <1>1. [t EXCEPT !.s = y] = Term(y, t.p, t.out) BY DEF Term
  <1>2. [t EXCEPT !.p = q] = Term(t.s, q, t.out) BY DEF Term
  <1>3. \A r : [Term(t.s, q, t.out) EXCEPT !.s = r] = Term(r, q, t.out) BY DEF Term
  <1> QED BY <1>1, <1>2, <1>3

LEMMA TermFields ==
  ASSUME NEW y, NEW q, NEW o
  PROVE  Term(y, q, o).s = y /\ Term(y, q, o).p = q /\ Term(y, q, o).out = o
  BY DEF Term

\* u is what a byte that leaves the save area alone makes of t
Kept(u, t) == Sound(u) /\ SameArea(u.s, t.s)

LEMMA KeptItself == ASSUME NEW t, Sound(t) PROVE Kept(t, t)
  BY DEF Kept

LEMMA ScreenKept ==
  ASSUME NEW t, Sound(t), NEW y, From(y, t.s)
  PROVE  Kept(OnScreen(t, y), t) /\ OnScreen(t, y).p = t.p /\ OnScreen(t, y).s = y
  <1>1. OnScreen(t, y) = Term(y, t.p, t.out) BY DEF Sound, OnScreen, Term
  <1> QED BY <1>1 DEF Kept, Sound, Term, From

LEMMA ParserKept ==
  ASSUME NEW t, Sound(t), NEW q \in Parsers, q.inverse = t.p.inverse
  PROVE  Kept([t EXCEPT !.p = q], t)
  <1>1. [t EXCEPT !.p = q] = Term(t.s, q, t.out) BY DEF Sound, Term
  <1> QED BY <1>1 DEF Kept, Sound, Term

LEMMA SayKept ==
  ASSUME NEW t, Sound(t), NEW reply
  PROVE  Kept(Say(t, reply), t)
  <1>1. Say(t, reply) = Term(t.s, t.p, Append(t.out, reply)) BY DEF Sound, Term, Say
  <1> QED BY <1>1 DEF Kept, Sound, Term

States == {"normal", "esc", "charset", "csi", "str", "str_esc"}
LEMMA GoKept ==
  ASSUME NEW t, Sound(t), NEW state \in States
  PROVE  Kept(Go(t, state), t)
  <1>1. [t.p EXCEPT !.state = state] \in Parsers BY DEF Sound, Parsers, States
  <1>2. [t.p EXCEPT !.state = state].inverse = t.p.inverse BY DEF Sound, Parsers
  <1>3. Go(t, state) = [t EXCEPT !.p = [t.p EXCEPT !.state = state]]
    BY DEF Go, Sound, Term
  <1> QED BY <1>1, <1>2, <1>3, ParserKept

LEMMA GoAfter ==
  ASSUME NEW t, NEW u, Kept(u, t), NEW state \in States
  PROVE  Kept(Go(u, state), t)
  BY GoKept DEF Kept

\* A parameter is a number, and narrowing makes it a smaller one.
LEMMA WordSize == Word \in Nat /\ Word >= 10 BY DEF Word

LEMMA GetpRange ==
  ASSUME NEW q \in Parsers, NEW i \in 0 .. 3
  PROVE  Getp(q, i) \in Nat
  <1>1. q.nparam \in 0 .. 3 /\ q.param \in [0 .. 3 -> 0 .. Word - 1] BY DEF Parsers, MaxParam
  <1>2. q.param[i] \in Nat BY <1>1, WordSize
  <1> QED BY <1>2 DEF Getp

LEMMA Or1Range == ASSUME NEW n \in Nat PROVE Or1(n) \in Nat \ {0}
  BY DEF Or1

LEMMA NarrowRange == ASSUME NEW n \in Nat PROVE Narrow(n) \in Nat
  BY DEF Narrow, Byte

LEMMA WordRange == ASSUME NEW n \in Nat PROVE n % Word \in Nat
  BY DEF Word

\* Cursor motion.
LEMMA MotionFine ==
  ASSUME NEW x, Fine(x), NEW f \in Motions,
         NEW n \in Nat \ {0}, NEW rr \in Nat \ {0}, NEW cc \in Nat \ {0}
  PROVE  From(Motion(x, f, n, rr, cc), x)
  <1> USE GotoxyFine
  <1>1. x.col \in Nat /\ x.row \in Nat BY FineFields, Sizes DEF Col, Row
  <1>2. n \in Nat /\ rr - 1 \in Nat /\ cc - 1 \in Nat OBVIOUS
  <1>3. /\ AtLeast(x.row - n, 0) \in Nat /\ AtLeast(x.col - n, 0) \in Nat
    BY <1>1, <1>2 DEF AtLeast
  <1>4. (x.row + n) % Word \in Nat /\ (x.col + n) % Word \in Nat
    BY <1>1, <1>2, WordRange
  <1>5. /\ Lower((x.row + n) % Word, Rows - 1) \in Nat
        /\ Lower((x.col + n) % Word, Cols - 1) \in Nat
    BY <1>4, Sizes DEF Lower
  <1>6. Narrow(rr - 1) \in Nat /\ Narrow(cc - 1) \in Nat BY <1>2, NarrowRange
  <1>7. Lower(n, Cols) - 1 \in Nat /\ Lower(n, Rows) - 1 \in Nat BY Sizes DEF Lower
  <1>8. CASE f = "A" BY <1>1, <1>3, <1>8 DEF Motion
  <1>9. CASE f = "B" BY <1>1, <1>5, <1>9 DEF Motion
  <1>10. CASE f = "C" BY <1>1, <1>5, <1>10 DEF Motion
  <1>11. CASE f = "D" BY <1>1, <1>3, <1>11 DEF Motion
  <1>12. CASE f \in {"H", "f"} BY <1>6, <1>12 DEF Motion
  <1>13. CASE f \in {"G", "HPA"} BY <1>1, <1>7, <1>13 DEF Motion
  <1>14. CASE f = "d" BY <1>1, <1>7, <1>14 DEF Motion
  <1>15. CASE f = "E" BY <1>5, <1>15 DEF Motion
  <1>16. CASE f = "F" BY <1>3, <1>16 DEF Motion
  <1> QED BY <1>8, <1>9, <1>10, <1>11, <1>12, <1>13, <1>14, <1>15, <1>16 DEF Motions

\* Erasing, inserting and deleting.
LEMMA EditFine ==
  ASSUME NEW x, Fine(x), NEW f \in Edits, NEW ps, NEW n \in Nat \ {0}
  PROVE  From(Edit(x, f, ps, n), x)
  <1>1. Narrow(n) \in Nat BY NarrowRange
  <1>2. From(EraseInPlace(x), x)
    <2>1. x.col \in Nat /\ x.row \in Nat BY FineFields, Sizes DEF Col, Row
    <2>2. From(ClearAll(x), x) BY ClearsFine
    <2>3. From(Gotoxy(ClearAll(x), x.col, x.row), ClearAll(x)) BY <2>1, <2>2, GotoxyFine DEF From
    <2> QED BY <2>2, <2>3 DEF EraseInPlace, From
  <1>3. CASE f = "J" BY <1>2, <1>3, ClearsFine DEF Edit
  <1>4. CASE f = "K" BY <1>4, ClearsFine DEF Edit
  <1>5. CASE f \in {"L", "M"} BY <1>1, <1>5, LinesFine DEF Edit
  <1>6. CASE f = "@" BY <1>1, <1>6, InsertCharsFine DEF Edit
  <1>7. CASE f = "P" BY <1>1, <1>7, DeleteCharsFine DEF Edit
  <1>8. CASE f = "X" BY <1>1, <1>8, EraseCharsFine DEF Edit
  <1> QED BY <1>3, <1>4, <1>5, <1>6, <1>7, <1>8 DEF Edits

\* The attribute and the parser's copy of it change together.
LEMMA InverseKept ==
  ASSUME NEW t, Sound(t), NEW on \in BOOLEAN
  PROVE  Kept(SetInverse(t, on), t) /\ SamePlace(SetInverse(t, on).s, t.s)
  <1> DEFINE q == [t.p EXCEPT !.inverse = on]
             x == SetAttr(t.s, on)
  <1>1. q \in Parsers /\ q.inverse = on BY DEF Sound, Parsers
  <1>2. Fine(x) /\ x.attr = on /\ SameArea(x, t.s) /\ SamePlace(x, t.s) BY AttrFine DEF Sound
  <1>3. SetInverse(t, on) = [t EXCEPT !.p = q, !.s = x] BY TermExcept, TermFields DEF SetInverse, Sound
  <1> HIDE DEF q, x
  <1>4. SetInverse(t, on) = Term(x, q, t.out) BY <1>3, TermExcept DEF Sound
  <1> QED BY <1>1, <1>2, <1>4, TermFields DEF Kept, Sound

LEMMA LookBoolean ==
  ASSUME NEW q \in Parsers, NEW k \in 0 .. 3, NEW r \in [on : BOOLEAN, next : Int]
  PROVE  Look(q, k, r) \in [on : BOOLEAN, next : Int]
  <1>1. Skip(q, k) \in Int BY DEF Skip
  <1>2. \A j \in Int, on \in BOOLEAN :
          /\ [r EXCEPT !.next = j] \in [on : BOOLEAN, next : Int]
          /\ [on |-> on, next |-> j] \in [on : BOOLEAN, next : Int]
    OBVIOUS
  <1>3. k + Skip(q, k) \in Int /\ k + 1 \in Int BY <1>1
  <1> QED BY <1>2, <1>3 DEF Look

LEMMA SgrBoolean == ASSUME NEW q \in Parsers PROVE Sgr(q) \in BOOLEAN
  <1>1. [on |-> q.inverse, next |-> 0] \in [on : BOOLEAN, next : Int] BY DEF Parsers
  <1>2. \A k \in 0 .. 3, r \in [on : BOOLEAN, next : Int] : Look(q, k, r) \in [on : BOOLEAN, next : Int]
    BY LookBoolean
  <1>3. Look(q, 3, Look(q, 2, Look(q, 1, Look(q, 0, [on |-> q.inverse, next |-> 0]))))
          \in [on : BOOLEAN, next : Int]
    BY <1>1, <1>2
  <1> QED BY <1>3 DEF Sgr

LEMMA ResetKept ==
  ASSUME NEW t, Sound(t)
  PROVE  Kept(Reset(t), t)
  <1> DEFINE q == [t.p EXCEPT !.app = FALSE, !.inverse = FALSE, !.g0 = FALSE, !.g1 = FALSE,
                              !.g1_active = FALSE]
             x == SetCursorVisible(SetAttr(t.s, FALSE), TRUE)
             y == SetRegion(x, 0, Rows - 1)
  <1>1. q \in Parsers /\ q.inverse = FALSE BY DEF Sound, Parsers
  <1>2. /\ Fine(SetAttr(t.s, FALSE)) /\ SetAttr(t.s, FALSE).attr = FALSE
        /\ SameArea(SetAttr(t.s, FALSE), t.s)
    BY AttrFine DEF Sound
  <1>3. From(x, SetAttr(t.s, FALSE)) BY <1>2, VisibleFine
  <1>4. 0 \in Nat /\ Rows - 1 \in Nat BY Sizes
  <1>5. From(y, x) BY <1>3, <1>4, SetRegionFine DEF From
  <1>6. Fine(y) /\ y.attr = FALSE /\ SameArea(y, t.s) BY <1>2, <1>3, <1>5 DEF From
  <1>7. Reset(t) = [t EXCEPT !.p = q, !.s = y] BY TermExcept, TermFields DEF Reset, Sound
  <1> HIDE DEF q, y
  <1>8. Reset(t) = Term(y, q, t.out) BY <1>7, TermExcept DEF Sound
  <1>9. q.inverse = y.attr BY <1>1, <1>6
  <1> QED BY <1>1, <1>6, <1>8, <1>9, TermFields DEF Kept, Sound

\* The parser is about to dispatch a mode that switches between the screens.
Switching(q) == PrivateMode(q) \in Alternates

SwitchClause(u, t, on) ==
  /\ on => AreaHolds(u.s, t.s)
  /\ ~on => SameArea(u.s, t.s) /\ FromArea(u.s, t.s)

LEMMA SetModeKept ==
  ASSUME NEW t, Sound(t), NEW on \in BOOLEAN
  PROVE  /\ Sound(SetMode(t, on))
         /\ ~Switching(t.p) => Kept(SetMode(t, on), t)
         /\ Switching(t.p) => SwitchClause(SetMode(t, on), t, on)
  <1> DEFINE mode == PrivateMode(t.p)
  <1>1. mode \in Nat BY GetpRange DEF Sound, Parsers, PrivateMode
  <1> HIDE DEF mode
  <1>2. CASE mode = 1
    <2> DEFINE q == [t.p EXCEPT !.app = on]
    <2>1. q \in Parsers /\ q.inverse = t.p.inverse BY DEF Sound, Parsers
    <2>2. SetMode(t, on) = [t EXCEPT !.p = q] BY <1>1, <1>2 DEF SetMode, Alternates, mode
    <2> HIDE DEF q
    <2> QED BY <1>2, <2>1, <2>2, ParserKept DEF Kept, Switching, Alternates, mode
  <1>3. CASE mode = 25
    <2> DEFINE x == SetCursorVisible(t.s, on)
    <2>1. SetMode(t, on) = OnScreen(t, x) BY <1>1, <1>3 DEF SetMode, Alternates, mode
    <2>2. From(x, t.s) BY VisibleFine DEF Sound
    <2> HIDE DEF x
    <2> QED BY <1>3, <2>1, <2>2, ScreenKept DEF Kept, Switching, Alternates, mode, Sound
  <1>4. CASE mode \in Alternates
    <2> DEFINE x == IF on THEN EnterAlternate(t.s) ELSE RestoreScreen(t.s)
               u == OnScreen(t, x)
    <2>1. /\ Fine(x) /\ x.attr = t.s.attr
          /\ on => AreaHolds(x, t.s)
          /\ ~on => SameArea(x, t.s) /\ FromArea(x, t.s)
      BY AlternateFine DEF Sound, From
    <2>2. SetMode(t, on) = SetInverse(u, FALSE) BY <1>4 DEF SetMode, Alternates, mode
    <2> HIDE DEF x
    <2>3. u = Term(x, t.p, t.out) BY TermExcept DEF Sound, OnScreen
    <2> HIDE DEF u
    <2>4. Sound(u) /\ u.s = x BY <2>1, <2>3, TermFields DEF Sound
    <2>5. Kept(SetInverse(u, FALSE), u) /\ SamePlace(SetInverse(u, FALSE).s, u.s)
      BY <2>4, InverseKept
    <2> QED BY <1>4, <2>1, <2>2, <2>4, <2>5 DEF Kept, Switching, SwitchClause, mode
  <1>5. CASE mode \notin {1, 25} \cup Alternates
    <2>0. mode # 1 /\ mode # 25 /\ mode \notin Alternates BY <1>5
    <2>1. SetMode(t, on) = t BY <2>0, Zenon DEF SetMode, mode
    <2> QED BY <1>5, <2>1, KeptItself DEF Kept, Switching, mode
  <1> QED BY <1>2, <1>3, <1>4, <1>5

\* What a final byte does.
LEMMA DispatchKept ==
  ASSUME NEW t, Sound(t), NEW f \in Chars
  PROVE  /\ Sound(Dispatch(t, f))
         /\ ~(t.p.mid = "none" /\ f \in {"h", "l"} /\ Switching(t.p)) => Kept(Dispatch(t, f), t)
         /\ t.p.mid = "none" /\ f \in {"h", "l"} /\ Switching(t.p)
              => SwitchClause(Dispatch(t, f), t, f = "h")
  <1> DEFINE ps == Getp(t.p, 0)
             second == Getp(t.p, 1)
  <1>0. /\ t.p \in Parsers /\ Fine(t.s) /\ Kept(t, t)
        /\ t.p.priv \in BOOLEAN
    BY KeptItself DEF Sound, Parsers
  <1>1. ps \in Nat /\ second \in Nat BY <1>0, GetpRange
  <1>2. Or1(ps) \in Nat \ {0} /\ Or1(second) \in Nat \ {0} BY <1>1, Or1Range
  <1> HIDE DEF ps, second
  <1>3. CASE t.p.mid # "none"
    <2>1. Dispatch(t, f) = IF t.p.mid = "!" /\ f = "p" THEN Reset(t) ELSE t BY <1>3 DEF Dispatch
    <2> QED BY <1>0, <1>3, <2>1, ResetKept DEF Kept
  <1>4. CASE t.p.mid = "none" /\ f \in Motions
    <2>3. /\ f \notin {"h", "l"} /\ f \notin Edits
          /\ f # "n" /\ f # "c" /\ f # "s" /\ f # "u" /\ f # "m" /\ f # "r"
      BY <1>4 DEF Motions, Edits
    <2>1. Dispatch(t, f) = OnScreen(t, Motion(t.s, f, Or1(ps), Or1(ps), Or1(second)))
      BY <1>4, <2>3, Zenon DEF Dispatch, ps, second
    <2>2. From(Motion(t.s, f, Or1(ps), Or1(ps), Or1(second)), t.s) BY <1>0, <1>2, <1>4, MotionFine
    <2> QED BY <2>1, <2>2, <2>3, ScreenKept DEF Kept
  <1>5. CASE t.p.mid = "none" /\ f \in Edits
    <2>1. f \notin {"h", "l"} /\ f \notin Motions BY <1>5 DEF Edits, Motions
    <2>2. Dispatch(t, f) = OnScreen(t, Edit(t.s, f, ps, Or1(ps)))
      BY <1>5, <2>1, Zenon DEF Dispatch, Edits, Motions, ps
    <2>3. From(Edit(t.s, f, ps, Or1(ps)), t.s) BY <1>0, <1>2, <1>5, EditFine
    <2> QED BY <2>1, <2>2, <2>3, ScreenKept DEF Kept
  <1>6. CASE t.p.mid = "none" /\ f = "n"
    <2>1. \/ Dispatch(t, f) = Say(t, <<"cpr", t.s.row + 1, t.s.col + 1>>)
          \/ Dispatch(t, f) = Say(t, <<"ready">>)
          \/ Dispatch(t, f) = t
      BY <1>6 DEF Dispatch, Edits, Motions
    <2> QED BY <1>0, <1>6, <2>1, SayKept DEF Kept
  <1>7. CASE t.p.mid = "none" /\ f = "c"
    <2>1. \/ Dispatch(t, f) = Say(t, <<"da1">>)
          \/ Dispatch(t, f) = Say(t, <<"da2">>)
          \/ Dispatch(t, f) = t
      BY <1>7 DEF Dispatch, Edits, Motions
    <2> QED BY <1>0, <1>7, <2>1, SayKept DEF Kept
  <1>8. CASE t.p.mid = "none" /\ f = "s"
    <2> DEFINE q == [t.p EXCEPT !.col = t.s.col, !.row = t.s.row]
    <2>1. t.s.col \in Col /\ t.s.row \in Row BY <1>0, FineFields
    <2>2. q \in Parsers /\ q.inverse = t.p.inverse BY <1>0, <2>1 DEF Parsers
    <2>3. Dispatch(t, f) = [t EXCEPT !.p.col = t.s.col, !.p.row = t.s.row]
      BY <1>8 DEF Dispatch, Edits, Motions
    <2>4. Dispatch(t, f) = [t EXCEPT !.p = q] BY <2>3, TermExcept, TermFields DEF Sound
    <2> HIDE DEF q
    <2>5. Kept(Dispatch(t, f), t) BY <2>2, <2>4, ParserKept
    <2> QED BY <1>8, <2>5 DEF Kept
  <1>9. CASE t.p.mid = "none" /\ f = "u"
    <2>1. Dispatch(t, f) = OnScreen(t, Gotoxy(t.s, t.p.col, t.p.row))
      BY <1>9 DEF Dispatch, Edits, Motions
    <2>2. t.p.col \in Nat /\ t.p.row \in Nat BY <1>0, Sizes DEF Parsers, Col, Row
    <2>3. From(Gotoxy(t.s, t.p.col, t.p.row), t.s) BY <1>0, <2>2, GotoxyFine
    <2> QED BY <1>9, <2>1, <2>3, ScreenKept DEF Kept
  <1>10. CASE t.p.mid = "none" /\ f \in {"h", "l"}
    <2>1. Dispatch(t, f) = SetMode(t, f = "h") BY <1>10 DEF Dispatch, Edits, Motions
    <2>2. (f = "h") \in BOOLEAN OBVIOUS
    <2> DEFINE u == SetMode(t, f = "h")
    <2>3. /\ Sound(u) /\ (~Switching(t.p) => Kept(u, t))
          /\ Switching(t.p) => SwitchClause(u, t, f = "h")
      BY <2>2, SetModeKept
    <2> HIDE DEF u
    <2> QED BY <1>10, <2>1, <2>3 DEF u
  <1>11. CASE t.p.mid = "none" /\ f = "m"
    <2>1. Dispatch(t, f) = SetInverse(t, Sgr(t.p)) BY <1>11 DEF Dispatch, Edits, Motions
    <2> QED BY <1>0, <1>11, <2>1, SgrBoolean, InverseKept DEF Kept
  <1>12. CASE t.p.mid = "none" /\ f = "r"
    <2> DEFINE bot == IF second = 0 THEN Rows ELSE second
    <2>1. \/ Dispatch(t, f) = OnScreen(t, SetRegion(t.s, Narrow(Or1(ps) - 1), Narrow(bot - 1)))
          \/ Dispatch(t, f) = t
      BY <1>12 DEF Dispatch, Edits, Motions, ps, second
    <2>2. Or1(ps) - 1 \in Nat /\ bot - 1 \in Nat BY <1>1, <1>2, Sizes
    <2>3. Narrow(Or1(ps) - 1) \in Nat /\ Narrow(bot - 1) \in Nat BY <2>2, NarrowRange
    <2> HIDE DEF bot
    <2>4. From(SetRegion(t.s, Narrow(Or1(ps) - 1), Narrow(bot - 1)), t.s)
      BY <1>0, <2>3, SetRegionFine
    <2> QED BY <1>0, <1>12, <2>1, <2>4, ScreenKept DEF Kept
  <1>13. CASE /\ t.p.mid = "none" /\ f \notin Motions /\ f \notin Edits
              /\ f \notin {"n", "c", "s", "u", "h", "l", "m", "r"}
    <2>0. /\ f # "n" /\ f # "c" /\ f # "s" /\ f # "u" /\ f # "m" /\ f # "r"
          /\ f \notin {"h", "l"}
      BY <1>13
    <2>1. Dispatch(t, f) = t BY <1>13, <2>0, Zenon DEF Dispatch
    <2> QED BY <1>0, <2>0, <2>1 DEF Kept
  <1> QED BY <1>3, <1>4, <1>5, <1>6, <1>7, <1>8, <1>9, <1>10, <1>11, <1>12, <1>13

\* Bytes of the states of the parser.
LEMMA GraphicsPrintable == \A b \in Chars : Graphics[b] \in Chars
  <1>1. "-" \in Chars /\ "|" \in Chars /\ "+" \in Chars BY InputAssumption
  <1> QED BY <1>1 DEF Graphics

LEMMA NormalKept ==
  ASSUME NEW t, Sound(t), NEW b \in Bytes
  PROVE  Kept(Normal(t, b), t)
  <1> DEFINE ch == IF (IF t.p.g1_active THEN t.p.g1 ELSE t.p.g0) THEN Graphics[b] ELSE b
             tab == (t.s.col \div 8) * 8 + 8
  <1>0. Fine(t.s) BY DEF Sound
  <1>1. t.s.col \in Nat /\ t.s.row \in Nat BY <1>0, FineFields, Sizes DEF Col, Row
  <1>2. From(Cr(t.s), t.s) /\ From(Lf(t.s), t.s) /\ From(Bs(t.s), t.s)
    BY <1>0, CrFine, LfFine, BsFine
  <1>3. From(Gotoxy(t.s, Lower(tab, Cols - 1), t.s.row), t.s)
    <2>1. tab \in Nat BY <1>1
    <2> HIDE DEF tab
    <2>2. Lower(tab, Cols - 1) \in Nat BY <2>1, Sizes DEF Lower
    <2> QED BY <1>0, <1>1, <2>2, GotoxyFine
  <1>4. b \in Chars => From(Put(t.s, ch), t.s)
    <2>1. b \in Chars => ch \in Chars BY GraphicsPrintable
    <2> HIDE DEF ch
    <2> QED BY <1>0, <2>1, PutFine
  <1> HIDE DEF ch, tab
  <1>5. CASE b \in Chars
    <2>1. /\ b # "ESC" /\ b # "CR" /\ b # "LF" /\ b # "BS" /\ b # "HT" /\ b # "ENQ"
      BY <1>5, InputAssumption DEF Controls
    <2>2. Normal(t, b) = OnScreen(t, Put(t.s, ch)) BY <1>5, <2>1, Zenon DEF Normal, ch
    <2> QED BY <1>4, <1>5, <2>2, ScreenKept
  <1>6. CASE b \notin Chars /\ b \in {"ESC", "CR", "LF", "BS"}
    <2>1. CASE b = "ESC" BY <1>6, <2>1, GoKept DEF Normal, States
    <2>2. CASE b = "CR" BY <1>2, <1>6, <2>2, ScreenKept DEF Normal
    <2>3. CASE b = "LF" BY <1>2, <1>6, <2>3, ScreenKept DEF Normal
    <2>4. CASE b = "BS" BY <1>2, <1>6, <2>4, ScreenKept DEF Normal
    <2> QED BY <1>6, <2>1, <2>2, <2>3, <2>4
  <1>7. CASE b \notin Chars /\ b = "HT"
    <2>1. Normal(t, b) = OnScreen(t, Gotoxy(t.s, Lower(tab, Cols - 1), t.s.row))
      BY <1>7 DEF Normal, tab
    <2> QED BY <1>3, <2>1, ScreenKept
  <1>8. CASE b \notin Chars /\ b = "ENQ" BY <1>8, SayKept DEF Normal
  <1>9. CASE b \notin Chars /\ b \notin {"ESC", "CR", "LF", "BS", "HT", "ENQ"}
    <2>1. /\ b # "ESC" /\ b # "CR" /\ b # "LF" /\ b # "BS" /\ b # "HT" /\ b # "ENQ"
      BY <1>9
    <2>2. Normal(t, b) = t BY <1>9, <2>1, Zenon DEF Normal
    <2> QED BY <2>2, KeptItself
  <1> QED BY <1>5, <1>6, <1>7, <1>8, <1>9

LEMMA EscapeKept ==
  ASSUME NEW t, Sound(t), NEW b \in Bytes
  PROVE  Kept(Escape(t, b), t)
  <1>0. Fine(t.s) /\ t.p \in Parsers BY DEF Sound
  <1>1. CASE b = "["
    <2> DEFINE q == [t.p EXCEPT !.state = "csi", !.param = Idle.param, !.nparam = 0,
                                !.priv = FALSE, !.gt = "none", !.mid = "none"]
    <2>1. 0 \in 0 .. Word - 1 BY WordSize
    <2>2. Idle.param \in [0 .. MaxParam - 1 -> 0 .. Word - 1] /\ 0 \in 0 .. MaxParam - 1
      BY <2>1 DEF Idle, MaxParam
    <2>3. q \in Parsers /\ q.inverse = t.p.inverse BY <1>0, <2>2 DEF Parsers
    <2>4. Escape(t, b) = [t EXCEPT !.p = q] BY <1>1, TermExcept, TermFields DEF Escape, Sound
    <2> HIDE DEF q
    <2> QED BY <2>3, <2>4, ParserKept
  <1>2. CASE b \in {"(", ")"}
    <2> DEFINE q == [t.p EXCEPT !.state = "charset", !.to_g0 = (b = "(")]
    <2>1. q \in Parsers /\ q.inverse = t.p.inverse BY <1>0 DEF Parsers
    <2>2. Escape(t, b) = [t EXCEPT !.p = q] BY <1>2, TermExcept, TermFields DEF Escape, Sound
    <2> HIDE DEF q
    <2> QED BY <2>1, <2>2, ParserKept
  <1>3. CASE b \in {"]", "P", "^", "_"} BY <1>3, GoKept DEF Escape, States
  <1>4. CASE b = "D"
    <2>1. Kept(OnScreen(t, Lf(t.s)), t) BY <1>0, LfFine, ScreenKept
    <2>2. Escape(t, b) = Go(OnScreen(t, Lf(t.s)), "normal") BY <1>4 DEF Escape
    <2> QED BY <2>1, <2>2, GoAfter DEF States
  <1>5. CASE b = "M"
    <2>1. Kept(OnScreen(t, Ri(t.s)), t) BY <1>0, RiFine, ScreenKept
    <2>2. Escape(t, b) = Go(OnScreen(t, Ri(t.s)), "normal") BY <1>5 DEF Escape
    <2> QED BY <2>1, <2>2, GoAfter DEF States
  <1>6. CASE b = "E"
    <2>1. From(Lf(Cr(t.s)), t.s) BY <1>0, CrFine, LfFine DEF From
    <2>2. Kept(OnScreen(t, Lf(Cr(t.s))), t) BY <2>1, ScreenKept
    <2>3. Escape(t, b) = Go(OnScreen(t, Lf(Cr(t.s))), "normal") BY <1>6 DEF Escape
    <2> QED BY <2>2, <2>3, GoAfter DEF States
  <1>7. CASE b = "c"
    <2> DEFINE r == Reset(t)
               q == [r.p EXCEPT !.state = "normal", !.col = 0, !.row = 0]
               x == ClearAll(r.s)
    <2>1. Kept(r, t) BY ResetKept
    <2>2. Escape(t, b) = [r EXCEPT !.p.state = "normal", !.p.col = 0, !.p.row = 0, !.s = ClearAll(@)]
      BY <1>7 DEF Escape
    <2> HIDE DEF r
    <2>3. Escape(t, b) = [r EXCEPT !.p = q, !.s = x]
      BY <2>1, <2>2, TermExcept, TermFields DEF Kept, Sound
    <2>4. 0 \in Col /\ 0 \in Row BY Sizes DEF Col, Row
    <2>5. q \in Parsers /\ q.inverse = r.p.inverse BY <2>1, <2>4 DEF Kept, Sound, Parsers
    <2>6. From(x, r.s) BY <2>1, ClearsFine DEF Kept, Sound
    <2> HIDE DEF q, x
    <2>7. Escape(t, b) = Term(x, q, r.out) BY <2>1, <2>3, TermExcept DEF Kept, Sound
    <2> QED BY <2>1, <2>5, <2>6, <2>7, TermFields DEF Kept, Sound, From
  <1>8. CASE b \notin {"[", "(", ")", "]", "P", "^", "_", "D", "M", "E", "c"}
    <2>1. /\ b # "[" /\ b \notin {"(", ")"} /\ b \notin {"]", "P", "^", "_"}
          /\ b # "D" /\ b # "M" /\ b # "E" /\ b # "c"
      BY <1>8
    <2>2. Escape(t, b) = Go(t, "normal") BY <2>1, Zenon DEF Escape
    <2> QED BY <2>2, GoKept DEF States
  <1> QED BY <1>1, <1>2, <1>3, <1>4, <1>5, <1>6, <1>7, <1>8

LEMMA CharsetKept ==
  ASSUME NEW t, Sound(t), NEW b \in Bytes
  PROVE  Kept(Charset(t, b), t)
  <1> DEFINE on == CASE b = "0" -> TRUE [] b = "B" -> FALSE
                     [] OTHER -> IF t.p.to_g0 THEN t.p.g0 ELSE t.p.g1
             q == [t.p EXCEPT !.g0 = on]
             r == [t.p EXCEPT !.g1 = on]
  <1>0. t.p \in Parsers BY DEF Sound
  <1>1. on \in BOOLEAN
    <2>1. t.p.g0 \in BOOLEAN /\ t.p.g1 \in BOOLEAN BY <1>0 DEF Parsers
    <2>2. b = "0" => on = TRUE OBVIOUS
    <2>3. b = "B" => on = FALSE OBVIOUS
    <2>4. b # "0" /\ b # "B" => on = IF t.p.to_g0 THEN t.p.g0 ELSE t.p.g1 BY Zenon
    <2> HIDE DEF on
    <2> QED BY <2>1, <2>2, <2>3, <2>4
  <1>2. Charset(t, b) = Go(IF t.p.to_g0 THEN [t EXCEPT !.p = q] ELSE [t EXCEPT !.p = r], "normal")
    BY DEF Charset
  <1> HIDE DEF on
  <1>3. q \in Parsers /\ r \in Parsers /\ q.inverse = t.p.inverse /\ r.inverse = t.p.inverse
    BY <1>0, <1>1 DEF Parsers
  <1> HIDE DEF q, r
  <1>4. Kept([t EXCEPT !.p = q], t) /\ Kept([t EXCEPT !.p = r], t) BY <1>3, ParserKept
  <1> QED BY <1>2, <1>4, GoAfter DEF States

LEMMA AccumulateRange ==
  ASSUME NEW n \in Nat, NEW d \in Range(Digits)
  PROVE  Accumulate(n, d) \in 0 .. Word - 1
  <1>1. DOMAIN Digits = 1 .. 10 BY DEF Digits
  <1>2. \E i \in DOMAIN Digits : Digits[i] = d BY DEF Range
  <1> DEFINE i == CHOOSE i \in DOMAIN Digits : Digits[i] = d
  <1>3. i \in 1 .. 10 BY <1>1, <1>2
  <1>4. Number(d) = i - 1 BY DEF Number
  <1> HIDE DEF i
  <1>5. n * 10 + Number(d) \in Nat BY <1>3, <1>4
  <1> QED BY <1>5, WordSize DEF Accumulate

\* A byte of a control sequence: a parameter, a marker, or the final byte.
LEMMA CsiKept ==
  ASSUME NEW t, Sound(t), NEW b \in Bytes
  PROVE  /\ Sound(Csi(t, b))
         /\ ~(t.p.mid = "none" /\ b \in {"h", "l"} /\ Switching(t.p)) => Kept(Csi(t, b), t)
         /\ t.p.mid = "none" /\ b \in {"h", "l"} /\ Switching(t.p)
              => SwitchClause(Csi(t, b), t, b = "h")
  <1>0. t.p \in Parsers /\ t = Term(t.s, t.p, t.out) BY DEF Sound
  <1>1. t.p.nparam \in 0 .. MaxParam - 1 /\ t.p.param[t.p.nparam] \in Nat
    <2>1. t.p.nparam \in 0 .. MaxParam - 1 /\ t.p.param \in [0 .. MaxParam - 1 -> 0 .. Word - 1]
      BY <1>0 DEF Parsers
    <2>2. t.p.param[t.p.nparam] \in 0 .. Word - 1 BY <2>1
    <2> QED BY <2>1, <2>2, WordSize
  <1>2. Range(Digits) = {"0", "1", "2", "3", "4", "5", "6", "7", "8", "9"} BY DEF Digits, Range
  <1>3. CASE b \in Range(Digits)
    <2> DEFINE n == Accumulate(t.p.param[t.p.nparam], b)
               r == [t.p EXCEPT !.param[t.p.nparam] = n]
    <2>1. n \in 0 .. Word - 1 BY <1>1, <1>3, AccumulateRange
    <2>2. Csi(t, b) = [t EXCEPT !.p = r]
      BY <1>2, <1>3 DEF Csi, Markers, Intermediates, Finals
    <2> HIDE DEF n
    <2>3. r \in Parsers /\ r.inverse = t.p.inverse BY <1>0, <1>1, <2>1 DEF Parsers
    <2> HIDE DEF r
    <2>4. Kept(Csi(t, b), t) BY <2>2, <2>3, ParserKept
    <2>5. b \notin {"h", "l"} BY <1>2, <1>3
    <2> QED BY <2>4, <2>5 DEF Kept
  <1>4. CASE b = ";"
    <2> DEFINE n == Lower(t.p.nparam + 1, MaxParam - 1)
               r == [t.p EXCEPT !.nparam = n]
    <2>1. n \in 0 .. MaxParam - 1 BY <1>1 DEF Lower, MaxParam
    <2>2. Csi(t, b) = [t EXCEPT !.p = r] BY <1>2, <1>4 DEF Csi, Markers, Intermediates, Finals
    <2> HIDE DEF n
    <2>3. r \in Parsers /\ r.inverse = t.p.inverse BY <1>0, <2>1 DEF Parsers
    <2> HIDE DEF r
    <2>4. Kept(Csi(t, b), t) BY <2>2, <2>3, ParserKept
    <2> QED BY <1>4, <2>4 DEF Kept
  <1>5. CASE b = "?"
    <2> DEFINE r == [t.p EXCEPT !.priv = TRUE]
    <2>1. Csi(t, b) = [t EXCEPT !.p = r] BY <1>2, <1>5 DEF Csi, Markers, Intermediates, Finals
    <2>2. r \in Parsers /\ r.inverse = t.p.inverse BY <1>0 DEF Parsers
    <2> HIDE DEF r
    <2>3. Kept(Csi(t, b), t) BY <2>1, <2>2, ParserKept
    <2> QED BY <1>5, <2>3 DEF Kept
  <1>6. CASE b \in Markers
    <2> DEFINE r == [t.p EXCEPT !.gt = b]
    <2>1. Csi(t, b) = [t EXCEPT !.p = r] BY <1>2, <1>6 DEF Csi, Markers, Intermediates, Finals
    <2>2. r \in Parsers /\ r.inverse = t.p.inverse BY <1>0, <1>6 DEF Parsers
    <2> HIDE DEF r
    <2>3. Kept(Csi(t, b), t) BY <2>1, <2>2, ParserKept
    <2>4. b \notin {"h", "l"} BY <1>6 DEF Markers
    <2> QED BY <2>3, <2>4 DEF Kept
  <1>7. CASE b \in Intermediates
    <2> DEFINE m == IF t.p.mid = "none" THEN b ELSE "many"
               r == [t.p EXCEPT !.mid = m]
    <2>1. Csi(t, b) = [t EXCEPT !.p = r]
      <3>1. b \notin Range(Digits) /\ b # ";" /\ b # "?" /\ b \notin Markers /\ b \notin Finals
        BY <1>2, <1>7 DEF Markers, Intermediates, Finals
      <3> QED BY <1>7, <3>1, Zenon DEF Csi
    <2>2. m \in Intermediates \cup {"none", "many"} BY <1>7
    <2> HIDE DEF m
    <2>3. r \in Parsers /\ r.inverse = t.p.inverse BY <1>0, <2>2 DEF Parsers
    <2> HIDE DEF r
    <2>4. Kept(Csi(t, b), t) BY <2>1, <2>3, ParserKept
    <2>5. b \notin {"h", "l"} BY <1>7 DEF Intermediates
    <2> QED BY <2>4, <2>5 DEF Kept
  <1>8. CASE b \in Finals
    <2> DEFINE d == Dispatch(t, b)
    <2>1. Csi(t, b) = Go(d, "normal")
      <3>1. b \notin Range(Digits) /\ b # ";" /\ b # "?" /\ b \notin Markers /\ b \notin Intermediates
        BY <1>8 DEF Finals
      <3> QED BY <1>8, <3>1, Zenon DEF Csi, d
    <2>2. b \in Chars BY <1>8 DEF Finals
    <2>3. /\ Sound(d)
          /\ ~(t.p.mid = "none" /\ b \in {"h", "l"} /\ Switching(t.p)) => Kept(d, t)
          /\ t.p.mid = "none" /\ b \in {"h", "l"} /\ Switching(t.p) => SwitchClause(d, t, b = "h")
      BY <2>2, DispatchKept
    <2> HIDE DEF d
    <2>4. Sound(Go(d, "normal")) BY <2>3, GoKept DEF States, Kept
    <2>5. Go(d, "normal").s = d.s
      <3>1. Go(d, "normal") = [d EXCEPT !.p = [d.p EXCEPT !.state = "normal"]] BY DEF Go
      <3>2. Go(d, "normal") = Term(d.s, [d.p EXCEPT !.state = "normal"], d.out)
        BY <2>3, <3>1, TermExcept DEF Sound
      <3> QED BY <3>2, TermFields
    <2> QED BY <2>1, <2>3, <2>4, <2>5 DEF Kept, SwitchClause
  <1>9. CASE b \notin Range(Digits) \cup {";", "?"} \cup Markers \cup Intermediates \cup Finals
    <2>1. b \notin Range(Digits) /\ b # ";" /\ b # "?" /\ b \notin Markers /\ b \notin Intermediates
          /\ b \notin Finals
      BY <1>9
    <2>2. Csi(t, b) = t BY <2>1, Zenon DEF Csi
    <2>3. b \notin Chars \/ b \in {":", "<"} BY <2>1 DEF Finals
    <2>4. b \notin {"h", "l"} BY <2>3 DEF Bytes, Controls
    <2> QED BY <2>2, <2>4, KeptItself DEF Kept
  <1> QED BY <1>3, <1>4, <1>5, <1>6, <1>7, <1>8, <1>9

LEMMA FeedKept ==
  ASSUME NEW t, Sound(t), NEW b \in Bytes
  PROVE  LET switch == t.p.state = "csi" /\ t.p.mid = "none" /\ b \in {"h", "l"} /\ Switching(t.p)
         IN  /\ Sound(Feed(t, b))
             /\ ~switch => Kept(Feed(t, b), t)
             /\ switch => SwitchClause(Feed(t, b), t, b = "h")
  <1> DEFINE switch == t.p.state = "csi" /\ t.p.mid = "none" /\ b \in {"h", "l"} /\ Switching(t.p)
  <1>0. t.p \in Parsers /\ t.p.state \in States BY DEF Sound, Parsers, States
  <1>1. CASE b \in {"SO", "SI"} /\ t.p.state \notin {"str", "str_esc"}
    <2> DEFINE q == [t.p EXCEPT !.g1_active = (b = "SO")]
    <2>1. q \in Parsers /\ q.inverse = t.p.inverse BY <1>0 DEF Parsers
    <2>2. Feed(t, b) = [t EXCEPT !.p = q] BY <1>1 DEF Feed, Shift
    <2> HIDE DEF q
    <2>3. Kept(Feed(t, b), t) BY <2>1, <2>2, ParserKept
    <2> QED BY <1>1, <2>3 DEF Kept
  <1> DEFINE plain == ~(b \in {"SO", "SI"} /\ t.p.state \notin {"str", "str_esc"})
  <1>2. CASE plain /\ t.p.state = "normal"
    <2>1. Feed(t, b) = Normal(t, b) BY <1>2 DEF Feed
    <2> QED BY <1>2, <2>1, NormalKept DEF Kept
  <1>3. CASE plain /\ t.p.state = "esc"
    <2>1. Feed(t, b) = Escape(t, b) BY <1>3 DEF Feed
    <2> QED BY <1>3, <2>1, EscapeKept DEF Kept
  <1>4. CASE plain /\ t.p.state = "charset"
    <2>1. Feed(t, b) = Charset(t, b) BY <1>4 DEF Feed
    <2> QED BY <1>4, <2>1, CharsetKept DEF Kept
  <1>5. CASE plain /\ t.p.state = "csi"
    <2>1. Feed(t, b) = Csi(t, b) BY <1>5 DEF Feed
    <2> QED BY <1>5, <2>1, CsiKept
  <1>6. CASE plain /\ t.p.state = "str"
    <2>1. Feed(t, b) = String(t, b) BY <1>6 DEF Feed
    <2>2. Kept(String(t, b), t) BY GoKept, KeptItself DEF String, States
    <2> QED BY <1>6, <2>1, <2>2 DEF Kept
  <1>7. CASE plain /\ t.p.state = "str_esc"
    <2>1. Feed(t, b) = Go(t, "normal") BY <1>7 DEF Feed
    <2>2. Kept(Go(t, "normal"), t) BY GoKept DEF States
    <2> QED BY <1>7, <2>1, <2>2 DEF Kept
  <1> QED BY <1>0, <1>1, <1>2, <1>3, <1>4, <1>5, <1>6, <1>7 DEF States

(***************************************************************************)
(* The main loop.  The inductive invariant adds to the properties when the *)
(* overlay is shown, that what is under it was read from the page, and     *)
(* that the save area holds the screen the alternate one was entered from. *)
(***************************************************************************)
Overlay ==
  /\ pc \in {"mark", "feed"} => ~s.shown
  /\ pc \in {"invert", "restore", "unmark"} => s.shown
  /\ pc \in {"mark", "invert", "restore", "unmark"} => s.under = page[s.at_row][s.at_col]
  /\ pc = "unmark" => s.cell = page
  /\ pc \in {"restore", "unmark"} => rest # <<>>

Behind == s.area = primary.page /\ s.area_col = primary.col /\ s.area_row = primary.row
Saved ==
  /\ primary \in [page : Page, col : Col, row : Row, depth : 0 .. 2]
  /\ primary.depth = 1 => Behind

TInv == TypeOK /\ LogicalSnapshot /\ Overlay /\ Saved

LEMMA SoundTerm ==
  ASSUME NEW x, Fine(x), NEW q \in Parsers, q.inverse = x.attr, NEW o
  PROVE  Sound(Term(x, q, o))
  BY TermFields DEF Sound

\* On a screen without the overlay the logical screen is the screen.
LEMMA LogicalIsScreen == ASSUME TInv, pc = "feed" PROVE Logical = s /\ Fine(s)
  <1>1. Fine(s) /\ Stripped(s) = page BY DEF TInv, LogicalSnapshot, TypeOK, Fine
  <1>2. ~s.shown /\ s.cell = page BY <1>1 DEF Fine, Stripped
  <1>3. [s EXCEPT !.cell = s.cell, !.shown = s.shown] = s BY <1>1 DEF Fine, ScreenOK, Screens
  <1>4. s.shown = FALSE BY <1>1, <1>2 DEF Fine, ScreenOK, Screens
  <1> QED BY <1>1, <1>2, <1>3, <1>4 DEF Logical

LEMMA InputTypes ==
  ASSUME NEW k \in Sessions
  PROVE  MaxInputs[k] \in Nat /\ MaxInputs[k] >= 1 /\ (\A i \in Inputs[k] : i \in Seq(Bytes))
  BY InputAssumption

LEMMA TypeInit == Init => TInv
  <1> SUFFICES ASSUME Init PROVE TInv OBVIOUS
  <1> USE DEF Init
  <1>1. PICK memory \in Memory : s = Start(memory) OBVIOUS
  <1>2. memory \in Page BY InputAssumption
  <1>3. 0 \in Row /\ Rows - 1 \in Row /\ 0 \in Col /\ 0 < Rows - 1 BY Sizes DEF Row, Col
  <1>4. ScreenOK(s) /\ s.cell = BlankPage /\ ~s.shown /\ s.attr = FALSE
    BY <1>1, <1>2, <1>3, BlankIsPage DEF Start, ScreenOK, Screens
  <1>5. Idle \in Parsers /\ Idle.inverse = FALSE
    <2>1. [i \in 0 .. MaxParam - 1 |-> 0] \in [0 .. MaxParam - 1 -> 0 .. Word - 1] BY WordSize
    <2>2. 0 \in 0 .. MaxParam - 1 BY DEF MaxParam
    <2> QED BY <1>3, <2>1, <2>2 DEF Idle, Parsers
  <1>6. count \in 0 .. MaxInputs[session] BY InputTypes
  <1>7. p.inverse = s.attr BY <1>4, <1>5
  <1>8. rest \in Seq(Bytes) OBVIOUS
  <1>9. TypeOK BY <1>4, <1>5, <1>6, <1>7, <1>8, BlankIsPage DEF TypeOK
  <1>10. LogicalSnapshot BY <1>4 DEF LogicalSnapshot, Stripped
  <1>11. Overlay /\ Saved BY <1>3, BlankIsPage DEF Overlay, Saved
  <1> QED BY <1>9, <1>10, <1>11 DEF TInv

\* The host's sending touches nothing the terminal has.
LEMMA SendKeeps == TInv /\ Send => TInv'
  <1> SUFFICES ASSUME TInv, Send PROVE TInv' OBVIOUS
  <1> USE DEF TInv, TypeOK, Send
  <1>1. rest' \in Seq(Bytes) BY InputTypes
  <1>2. count' \in 0 .. MaxInputs[session]' BY InputTypes
  <1>3. pc \notin {"feed", "restore", "unmark"} BY DEF Overlay
  <1>4. TypeOK' BY <1>1, <1>2, <1>3
  <1>5. LogicalSnapshot' BY DEF LogicalSnapshot
  <1>6. Overlay' BY <1>3 DEF Overlay
  <1>7. Saved' BY DEF Saved, Behind
  <1> QED BY <1>4, <1>5, <1>6, <1>7

\* Writing one cell twice is writing it once, and writing what it holds is nothing.
LEMMA CellTwice ==
  ASSUME NEW cell \in Page, NEW r \in Row, NEW c \in Col, NEW g \in Glyph, NEW u \in Glyph
  PROVE  /\ [cell EXCEPT ![r][c] = g] \in Page
         /\ [cell EXCEPT ![r][c] = g][r][c] = g
         /\ [[cell EXCEPT ![r][c] = g] EXCEPT ![r][c] = u] = [cell EXCEPT ![r][c] = u]
         /\ cell[r][c] = u => [cell EXCEPT ![r][c] = u] = cell
  BY DEF Page

\* Writing into a cell what it holds changes nothing.
LEMMA CellKept ==
  ASSUME NEW cell \in Page, NEW r \in Row, NEW c \in Col, NEW u, u = cell[r][c]
  PROVE  [cell EXCEPT ![r][c] = u] = cell
  BY DEF Page

LEMMA CursorGlyphType == ASSUME NEW g \in Glyph PROVE CursorGlyph(g) \in Glyph
  BY ScreenAssumption DEF CursorGlyph, Ink, Glyph

\* While the overlay is shown, what is under it is what the page has there.
LEMMA UnderPage == TInv /\ s.shown => s.under = page[s.at_row][s.at_col]
  <1> DEFINE cell == s.cell
             r == s.at_row
             c == s.at_col
             u == s.under
  <1> SUFFICES ASSUME TInv, s.shown PROVE u = page[r][c] OBVIOUS
  <1>1. cell \in Page /\ r \in Row /\ c \in Col
    BY DEF TInv, TypeOK, ScreenOK, Screens
  <1>2. page = [cell EXCEPT ![r][c] = u] BY DEF TInv, LogicalSnapshot, Stripped
  <1> HIDE DEF cell, r, c, u
  <1>3. page[r][c] = u BY ONLY <1>1, <1>2, SMT DEF Page
  <1> QED BY <1>3

\* What the loop stores keeps the invariant if the screen stays one and, stripped, the page.
LEMMA StoreKeeps ==
  ASSUME TInv, NEW x, NEW step \in {"loop", "mark", "invert", "restore", "unmark", "feed"},
         Store(step, x), ScreenOK(x), x.attr = s.attr, SameArea(x, s), Stripped(x) = page,
         step \in {"mark", "feed"} => ~x.shown,
         step \in {"invert", "restore", "unmark"} => x.shown,
         step \in {"mark", "invert", "restore", "unmark"} => x.under = page[x.at_row][x.at_col],
         step = "unmark" => x.cell = page,
         step \in {"restore", "unmark", "feed"} => rest # <<>>
  PROVE  TInv'
  <1> USE DEF TInv, Store
  <1>1. TypeOK' BY DEF TypeOK
  <1>2. LogicalSnapshot' BY DEF LogicalSnapshot
  <1>3. Overlay' BY DEF Overlay
  <1>4. Saved' BY DEF Saved, Behind
  <1> QED BY <1>1, <1>2, <1>3, <1>4

\* Painting: what is under the cursor is kept, the overlay marked, the cell inverted.
LEMMA PaintKeeps == TInv /\ (PaintSaves \/ PaintMarks \/ PaintInverts) => TInv'
  <1> SUFFICES ASSUME TInv, PaintSaves \/ PaintMarks \/ PaintInverts PROVE TInv' OBVIOUS
  <1>0. /\ ScreenOK(s) /\ Stripped(s) = page
        /\ s.cell \in Page /\ s.under \in Glyph /\ s.col \in Col /\ s.row \in Row
        /\ s.at_col \in Col /\ s.at_row \in Row
    BY DEF TInv, TypeOK, LogicalSnapshot, ScreenOK, Screens
  <1>1. CASE PaintSaves
    <2> DEFINE x == KeepUnder(s)
    <2>1. pc = "loop" /\ ~s.shown /\ Store("mark", x) BY <1>1 DEF PaintSaves
    <2>2. s.cell[s.row][s.col] \in Glyph BY <1>0 DEF Page
    <2>3. /\ ScreenOK(x) /\ x.attr = s.attr /\ SameArea(x, s) /\ ~x.shown /\ x.cell = s.cell
          /\ x.under = s.cell[x.at_row][x.at_col]
      BY <1>0, <2>1, <2>2 DEF KeepUnder, ScreenOK, Screens
    <2> HIDE DEF x
    <2>4. s.cell = page BY <1>0, <2>1 DEF Stripped
    <2>5. Stripped(x) = page BY <2>3, <2>4 DEF Stripped
    <2> QED BY <2>1, <2>3, <2>4, <2>5, StoreKeeps
  <1>2. CASE PaintMarks
    <2> DEFINE x == Mark(s)
    <2>1. pc = "mark" /\ Store("invert", x) BY <1>2 DEF PaintMarks
    <2>2. /\ ScreenOK(x) /\ x.attr = s.attr /\ SameArea(x, s) /\ x.shown /\ x.cell = s.cell
          /\ x.under = s.under /\ x.at_row = s.at_row /\ x.at_col = s.at_col
      BY <1>0 DEF Mark, ScreenOK, Screens
    <2> HIDE DEF x
    <2>3. ~s.shown /\ s.under = page[s.at_row][s.at_col] BY <2>1 DEF TInv, Overlay
    <2>4. s.cell = page BY <1>0, <2>3 DEF Stripped
    <2>5. Stripped(x) = [page EXCEPT ![s.at_row][s.at_col] = s.under] BY <2>2, <2>4 DEF Stripped
    <2>6. page \in Page BY DEF TInv, TypeOK
    <2>7. [page EXCEPT ![s.at_row][s.at_col] = s.under] = page
      BY ONLY <1>0, <2>3, <2>6, CellKept
    <2>8. Stripped(x) = page BY <2>5, <2>7
    <2> QED BY <2>1, <2>2, <2>3, <2>8, StoreKeeps
  <1>3. CASE PaintInverts
    <2> DEFINE g == CursorGlyph(s.under)
               x == Invert(s)
    <2>1. pc = "invert" /\ Store("loop", x) BY <1>3 DEF PaintInverts
    <2>2. g \in Glyph BY <1>0, CursorGlyphType
    <2>3. x = [s EXCEPT !.cell = [s.cell EXCEPT ![s.at_row][s.at_col] = g]]
      BY <1>0 DEF Invert, CellPut, ScreenOK, Screens
    <2> HIDE DEF g, x
    <2>4. [s.cell EXCEPT ![s.at_row][s.at_col] = g] \in Page BY <1>0, <2>2, CellTwice
    <2>5. /\ ScreenOK(x) /\ x.attr = s.attr /\ SameArea(x, s) /\ x.shown = s.shown
          /\ x.cell = [s.cell EXCEPT ![s.at_row][s.at_col] = g]
          /\ x.under = s.under /\ x.at_row = s.at_row /\ x.at_col = s.at_col
      BY <1>0, <2>3, <2>4 DEF ScreenOK, Screens
    <2>6. s.shown BY <2>1 DEF TInv, Overlay
    <2>7. Stripped(x) = [s.cell EXCEPT ![s.at_row][s.at_col] = s.under]
      BY <1>0, <2>2, <2>5, <2>6, CellTwice DEF Stripped
    <2>8. Stripped(x) = page BY <1>0, <2>6, <2>7 DEF Stripped
    <2> QED BY <2>1, <2>5, <2>8, StoreKeeps
  <1> QED BY <1>1, <1>2, <1>3

\* Erasing: the cell is put back before the overlay is unmarked.
LEMMA EraseKeeps == TInv /\ (ByteReady \/ EraseRestores \/ EraseUnmarks) => TInv'
  <1> SUFFICES ASSUME TInv, ByteReady \/ EraseRestores \/ EraseUnmarks PROVE TInv' OBVIOUS
  <1>0. /\ ScreenOK(s) /\ Stripped(s) = page
        /\ s.cell \in Page /\ s.under \in Glyph
        /\ s.at_col \in Col /\ s.at_row \in Row /\ s.shown \in BOOLEAN
    BY DEF TInv, TypeOK, LogicalSnapshot, ScreenOK, Screens
  <1>1. CASE ByteReady
    <2>1. pc = "loop" /\ rest # <<>> /\ Store(IF s.shown THEN "restore" ELSE "feed", s)
      BY <1>1 DEF ByteReady
    <2>2. s.shown => s.under = page[s.at_row][s.at_col] BY UnderPage
    <2>3. CASE s.shown
      <3>1. Store("restore", s) BY <2>1, <2>3
      <3> QED BY <1>0, <2>1, <2>2, <2>3, <3>1, StoreKeeps
    <2>4. CASE ~s.shown
      <3>1. Store("feed", s) BY <2>1, <2>4
      <3> QED BY <1>0, <2>1, <2>4, <3>1, StoreKeeps
    <2> QED BY <2>3, <2>4
  <1>2. CASE EraseRestores
    <2> DEFINE x == Uninvert(s)
    <2>1. pc = "restore" /\ Store("unmark", x) BY <1>2 DEF EraseRestores
    <2>2. s.shown /\ rest # <<>> /\ s.under = page[s.at_row][s.at_col] BY <2>1 DEF TInv, Overlay
    <2>3. [s.cell EXCEPT ![s.at_row][s.at_col] = s.under] = page BY <1>0, <2>2 DEF Stripped
    <2>4. x = [s EXCEPT !.cell = [s.cell EXCEPT ![s.at_row][s.at_col] = s.under]]
      BY <1>0 DEF Uninvert, CellPut, ScreenOK, Screens
    <2> HIDE DEF x
    <2>5. page \in Page BY DEF TInv, TypeOK
    <2>6. /\ ScreenOK(x) /\ x.attr = s.attr /\ SameArea(x, s) /\ x.shown = s.shown /\ x.cell = page
          /\ x.under = s.under /\ x.at_row = s.at_row /\ x.at_col = s.at_col
      BY <1>0, <2>3, <2>4, <2>5 DEF ScreenOK, Screens
    <2>7. Stripped(x) = [page EXCEPT ![s.at_row][s.at_col] = s.under] BY <2>2, <2>6 DEF Stripped
    <2>8. [page EXCEPT ![s.at_row][s.at_col] = s.under] = page
      BY ONLY <1>0, <2>2, <2>5, CellKept
    <2>9. Stripped(x) = page BY <2>7, <2>8
    <2> QED BY <2>1, <2>2, <2>6, <2>9, StoreKeeps
  <1>3. CASE EraseUnmarks
    <2> DEFINE x == Unmark(s)
    <2>1. pc = "unmark" /\ Store("feed", x) BY <1>3 DEF EraseUnmarks
    <2>2. rest # <<>> /\ s.cell = page BY <2>1 DEF TInv, Overlay
    <2>3. ScreenOK(x) /\ x.attr = s.attr /\ SameArea(x, s) /\ ~x.shown /\ x.cell = s.cell
      BY <1>0 DEF Unmark, ScreenOK, Screens
    <2> HIDE DEF x
    <2>4. Stripped(x) = page BY <2>2, <2>3 DEF Stripped
    <2> QED BY <2>1, <2>2, <2>3, <2>4, StoreKeeps
  <1> QED BY <1>1, <1>2, <1>3

\* A byte is rendered alike on the screen and on the page, and leaves the screen behind
\* the alternate one alone unless it switches.
LEMMA FeedKeeps == TInv /\ FeedByte => TInv' /\ (Leaves /\ primary.depth = 1 => PrimaryBack)
  <1> SUFFICES ASSUME TInv, FeedByte
               PROVE  TInv' /\ (Leaves /\ primary.depth = 1 => PrimaryBack)
    OBVIOUS
  <1> DEFINE b == Head(rest)
             t == Term(s, p, out)
             u == Feed(t, b)
  <1>1. pc = "feed" /\ rest # <<>> /\ rest \in Seq(Bytes) BY DEF FeedByte, TInv, TypeOK
  <1>2. b \in Bytes /\ Tail(rest) \in Seq(Bytes) BY <1>1
  <1>3. Logical = s /\ Fine(s) BY <1>1, LogicalIsScreen
  <1>4. s.cell = page BY <1>3 DEF TInv, LogicalSnapshot, Stripped, Fine
  <1>5. p \in Parsers /\ p.inverse = s.attr /\ page \in Page BY DEF TInv, TypeOK
  <1>6. Sound(t) /\ t.s = s /\ t.p = p BY <1>3, <1>5, SoundTerm, TermFields
  <1>7. /\ s' = u.s /\ p' = u.p /\ page' = u.s.cell /\ rest' = Tail(rest) /\ pc' = "loop"
        /\ UNCHANGED <<session, count>>
    BY <1>3 DEF FeedByte
  <1>8. primary' = IF ~Switches(b) THEN primary
                   ELSE IF b = "l" THEN [primary EXCEPT !.depth = 0]
                   ELSE IF primary.depth > 0 THEN [primary EXCEPT !.depth = 2]
                   ELSE [page |-> page, col |-> s.col, row |-> s.row, depth |-> 1]
    BY DEF FeedByte
  <1> HIDE DEF b
  <1>9. /\ Sound(u)
        /\ ~Switches(b) => Kept(u, t)
        /\ Switches(b) => SwitchClause(u, t, b = "h") /\ b \in {"h", "l"}
    BY <1>2, <1>6, FeedKept DEF Switches, Switching
  <1> HIDE DEF t, u
  <1>10. Fine(s') /\ p' \in Parsers /\ p'.inverse = s'.attr BY <1>7, <1>9 DEF Sound
  <1>11. page' = s'.cell /\ page' \in Page BY <1>7, <1>10, FineFields
  <1>12. TypeOK' BY <1>2, <1>7, <1>10, <1>11 DEF TInv, TypeOK, Fine
  <1>13. LogicalSnapshot' BY <1>7, <1>10, <1>11 DEF LogicalSnapshot, Stripped, Fine
  <1>14. Overlay' BY <1>7 DEF Overlay
  <1>15. /\ primary \in [page : Page, col : Col, row : Row, depth : 0 .. 2]
         /\ primary.depth = 1 => Behind
         /\ s.col \in Col /\ s.row \in Row
    BY <1>3, FineFields DEF TInv, Saved
  <1>16. Saved'
    <2>1. CASE ~Switches(b)
      <3>1. SameArea(s', s) BY <1>6, <1>7, <1>9, <2>1 DEF Kept
      <3> QED BY <1>8, <1>15, <2>1, <3>1 DEF Saved, Behind
    <2>2. CASE Switches(b) /\ b = "l"
      <3>1. primary' = [primary EXCEPT !.depth = 0] BY <1>8, <2>2
      <3> QED BY <1>15, <3>1 DEF Saved
    <2>3. CASE Switches(b) /\ b = "h" /\ primary.depth > 0
      <3>1. primary' = [primary EXCEPT !.depth = 2] BY <1>8, <2>3
      <3> QED BY <1>15, <3>1 DEF Saved
    <2>4. CASE Switches(b) /\ b = "h" /\ ~(primary.depth > 0)
      <3>1. AreaHolds(s', s) BY <1>6, <1>7, <1>9, <2>4 DEF SwitchClause
      <3>2. primary' = [page |-> page, col |-> s.col, row |-> s.row, depth |-> 1] BY <1>8, <2>4
      <3> QED BY <1>4, <1>5, <1>15, <3>1, <3>2 DEF Saved, Behind
    <2> QED BY <1>9, <2>1, <2>2, <2>3, <2>4
  <1>17. Leaves /\ primary.depth = 1 => PrimaryBack
    <2> SUFFICES ASSUME Leaves, primary.depth = 1 PROVE PrimaryBack OBVIOUS
    <2>1. Switches(b) /\ b = "l" BY DEF Leaves, b
    <2>2. FromArea(s', s) BY <1>6, <1>7, <1>9, <2>1 DEF SwitchClause
    <2> QED BY <1>11, <1>15, <2>2 DEF Behind, PrimaryBack
  <1> QED BY <1>12, <1>13, <1>14, <1>16, <1>17 DEF TInv

LEMMA NextKeeps == TInv /\ [Next]_vars => TInv'
  <1> SUFFICES ASSUME TInv, [Next]_vars PROVE TInv' OBVIOUS
  <1>1. CASE Loop BY <1>1, PaintKeeps, EraseKeeps, FeedKeeps DEF Loop
  <1>2. CASE Send BY <1>2, SendKeeps
  <1>3. CASE UNCHANGED vars
    BY <1>3 DEF vars, TInv, TypeOK, LogicalSnapshot, Overlay, Saved, Behind, Stripped
  <1> QED BY <1>1, <1>2, <1>3 DEF Next

(***************************************************************************)
(* Scrolling.                                                              *)
(***************************************************************************)
\* y has the rows of x, except the cursor's and those of the region
Steady(y, x) == \A r \in Row \ (x.top .. x.bot \cup {x.row}) : y.cell[r] = x.cell[r]

LEMMA RegionSteady ==
  ASSUME NEW x, Fine(x), NEW top \in Row, top >= x.top, NEW n \in Nat,
         NEW y, y.cell \in {RegionUp(x.cell, top, x.bot, n), RegionDown(x.cell, top, x.bot, n)}
  PROVE  Steady(y, x)
  <1> SUFFICES ASSUME NEW r \in Row, r \notin x.top .. x.bot PROVE y.cell[r] = x.cell[r]
    BY DEF Steady
  <1>1. x.top \in Int /\ x.bot \in Int /\ top \in Int /\ r \in Int
    BY FineFields, Sizes DEF Row
  <1>2. r < top \/ r > x.bot BY <1>1
  <1> QED BY <1>2 DEF RegionUp, RegionDown

LEMMA LfSteady == ASSUME NEW x, Fine(x) PROVE Steady(Lf(x), x)
  <1>1. x.top \in Row /\ x.top >= x.top BY FineFields, Sizes DEF Row
  <1>2. ScrollUp(x).cell = RegionUp(x.cell, x.top, x.bot, 1)
    BY DEF ScrollUp, Fine, ScreenOK, Screens
  <1>3. Steady(ScrollUp(x), x) BY <1>1, <1>2, RegionSteady
  <1>4. [x EXCEPT !.row = x.row + 1].cell = x.cell BY DEF Fine, ScreenOK, Screens
  <1> QED BY <1>3, <1>4 DEF Lf, Steady

LEMMA RiSteady == ASSUME NEW x, Fine(x) PROVE Steady(Ri(x), x)
  <1>1. x.top \in Row /\ x.top >= x.top BY FineFields, Sizes DEF Row
  <1>2. ScrollDown(x).cell = RegionDown(x.cell, x.top, x.bot, 1)
    BY DEF ScrollDown, Fine, ScreenOK, Screens
  <1>3. Steady(ScrollDown(x), x) BY <1>1, <1>2, RegionSteady
  <1>4. [x EXCEPT !.row = x.row - 1].cell = x.cell BY DEF Fine, ScreenOK, Screens
  <1> QED BY <1>3, <1>4 DEF Ri, Steady

LEMMA CrSteady ==
  ASSUME NEW x, Fine(x)
  PROVE  /\ Cr(x).cell = x.cell /\ Cr(x).top = x.top /\ Cr(x).bot = x.bot /\ Cr(x).row = x.row
         /\ Fine(Cr(x))
  <1>1. Fine(Cr(x)) BY CrFine DEF From
  <1> QED BY <1>1 DEF Cr, Fine, ScreenOK, Screens

\* scr_putc writes in the cursor's row before it may feed a line.
LEMMA PutSteady == ASSUME NEW x, Fine(x), NEW ch \in Chars PROVE Steady(Put(x, ch), x)
  <1> DEFINE g == Ink(ch, x.attr)
             cell == [x.cell EXCEPT ![x.row][x.col] = g]
             t == CellPut(x, x.col, x.row, g)
  <1>1. g \in Glyph BY FineFields, ScreenAssumption DEF Ink, Glyph
  <1>2. cell \in Page BY <1>1, FineFields DEF Page
  <1>3. \A r \in Row : r # x.row => cell[r] = x.cell[r] BY <1>1, FineFields DEF Page
  <1>4. t = [x EXCEPT !.cell = cell] BY FineFields DEF CellPut, Fine, ScreenOK, Screens
  <1> HIDE DEF cell
  <1>5. Fine(t) BY <1>2, <1>4, SetCell DEF From
  <1>6. t.cell = cell /\ t.top = x.top /\ t.bot = x.bot /\ t.row = x.row
    BY <1>4 DEF Fine, ScreenOK, Screens
  <1>7. Put(x, ch) = IF x.col + 1 >= Cols THEN Lf(Cr(t)) ELSE [t EXCEPT !.col = @ + 1]
    BY DEF Put, t, g
  <1> HIDE DEF t
  <1>8. Steady(t, x) BY <1>3, <1>6 DEF Steady
  <1>9. Steady(Lf(Cr(t)), Cr(t)) BY <1>5, CrSteady, LfSteady
  <1>10. Steady(Lf(Cr(t)), x) BY <1>5, <1>6, <1>8, <1>9, CrSteady DEF Steady
  <1>11. [t EXCEPT !.col = @ + 1].cell = t.cell BY <1>5 DEF Fine, ScreenOK, Screens
  <1> QED BY <1>7, <1>8, <1>10, <1>11 DEF Steady

LEMMA LinesSteady ==
  ASSUME NEW x, Fine(x), NEW n \in Nat
  PROVE  Steady(InsertLines(x, n), x) /\ Steady(DeleteLines(x, n), x)
  <1>1. CASE InRegion(x)
    <2>1. x.row \in Row /\ x.row >= x.top BY <1>1, FineFields DEF InRegion
    <2>2. /\ InsertLines(x, n).cell = RegionDown(x.cell, x.row, x.bot, n)
          /\ DeleteLines(x, n).cell = RegionUp(x.cell, x.row, x.bot, n)
      BY <1>1 DEF InsertLines, DeleteLines, Fine, ScreenOK, Screens
    <2> QED BY <2>1, <2>2, RegionSteady
  <1>2. CASE ~InRegion(x) BY <1>2 DEF InsertLines, DeleteLines, Steady
  <1> QED BY <1>1, <1>2

\* On a terminal, what a step renders is a screen, a parser, or both.
LEMMA OnScreenIs ==
  ASSUME NEW t, Sound(t), NEW y
  PROVE  OnScreen(t, y).s = y /\ Sound(t) /\ OnScreen(t, y) = Term(y, t.p, t.out)
  <1>1. OnScreen(t, y) = Term(y, t.p, t.out) BY TermExcept DEF Sound, OnScreen
  <1> QED BY <1>1, TermFields

LEMMA GoIs ==
  ASSUME NEW t, t = Term(t.s, t.p, t.out), NEW state
  PROVE  Go(t, state).s = t.s
  <1>1. Go(t, state) = [t EXCEPT !.p = [t.p EXCEPT !.state = state]] BY DEF Go
  <1>2. Go(t, state) = Term(t.s, [t.p EXCEPT !.state = state], t.out) BY <1>1, TermExcept
  <1> QED BY <1>2, TermFields

LEMMA ParserIs ==
  ASSUME NEW t, t = Term(t.s, t.p, t.out), NEW q
  PROVE  [t EXCEPT !.p = q].s = t.s
  <1>1. [t EXCEPT !.p = q] = Term(t.s, q, t.out) BY TermExcept
  <1> QED BY <1>1, TermFields

LEMMA SteadyItself == ASSUME NEW x PROVE Steady(x, x) BY DEF Steady

LEMMA NormalSteady ==
  ASSUME NEW t, Sound(t), NEW b \in Bytes
  PROVE  Steady(Normal(t, b).s, t.s)
  <1> DEFINE ch == IF (IF t.p.g1_active THEN t.p.g1 ELSE t.p.g0) THEN Graphics[b] ELSE b
  <1>0. Fine(t.s) /\ t = Term(t.s, t.p, t.out) BY DEF Sound
  <1>1. CASE b \in Chars
    <2>1. /\ b # "ESC" /\ b # "CR" /\ b # "LF" /\ b # "BS" /\ b # "HT" /\ b # "ENQ"
      BY <1>1, InputAssumption DEF Controls
    <2>2. Normal(t, b) = OnScreen(t, Put(t.s, ch)) BY <1>1, <2>1, Zenon DEF Normal, ch
    <2>3. ch \in Chars BY <1>1, GraphicsPrintable
    <2> HIDE DEF ch
    <2> QED BY <1>0, <2>2, <2>3, OnScreenIs, PutSteady
  <1>2. CASE b \notin Chars /\ b = "LF"
    <2>1. Normal(t, b) = OnScreen(t, Lf(t.s)) BY <1>2 DEF Normal
    <2> QED BY <1>0, <2>1, OnScreenIs, LfSteady
  <1>3. CASE b \notin Chars /\ b = "CR"
    <2>1. Normal(t, b) = OnScreen(t, Cr(t.s)) BY <1>3 DEF Normal
    <2> QED BY <1>0, <2>1, OnScreenIs, CrSteady DEF Steady
  <1>4. CASE b \notin Chars /\ b = "BS"
    <2>1. Normal(t, b) = OnScreen(t, Bs(t.s)) BY <1>4 DEF Normal
    <2>2. Bs(t.s).cell = t.s.cell BY <1>0 DEF Bs, Fine, ScreenOK, Screens
    <2> QED BY <2>1, <2>2, OnScreenIs DEF Steady
  <1>5. CASE b \notin Chars /\ b = "HT"
    <2> DEFINE y == Gotoxy(t.s, Lower((t.s.col \div 8) * 8 + 8, Cols - 1), t.s.row)
    <2>1. Normal(t, b) = OnScreen(t, y) BY <1>5 DEF Normal
    <2>2. y.cell = t.s.cell BY <1>0 DEF Gotoxy, Fine, ScreenOK, Screens
    <2> HIDE DEF y
    <2> QED BY <2>1, <2>2, OnScreenIs DEF Steady
  <1>6. CASE b \notin Chars /\ b = "ESC"
    <2>1. Normal(t, b) = Go(t, "esc") BY <1>6 DEF Normal
    <2> QED BY <1>0, <2>1, GoIs, SteadyItself
  <1>7. CASE b \notin Chars /\ b = "ENQ"
    <2>1. Normal(t, b) = Say(t, <<"answerback">>) BY <1>7 DEF Normal
    <2>2. Say(t, <<"answerback">>).s = t.s BY <1>0 DEF Say, Term
    <2> QED BY <2>1, <2>2, SteadyItself
  <1>8. CASE b \notin Chars /\ b \notin {"ESC", "CR", "LF", "BS", "HT", "ENQ"}
    <2>1. /\ b # "ESC" /\ b # "CR" /\ b # "LF" /\ b # "BS" /\ b # "HT" /\ b # "ENQ"
      BY <1>8
    <2>2. Normal(t, b) = t BY <1>8, <2>1, Zenon DEF Normal
    <2> QED BY <2>2, SteadyItself
  <1> QED BY <1>1, <1>2, <1>3, <1>4, <1>5, <1>6, <1>7, <1>8

LEMMA EscapeSteady ==
  ASSUME NEW t, Sound(t), NEW b \in Bytes, b # "c"
  PROVE  Steady(Escape(t, b).s, t.s)
  <1>0. Fine(t.s) /\ t = Term(t.s, t.p, t.out) BY DEF Sound
  <1>1. \A y : Go(OnScreen(t, y), "normal").s = y
    BY OnScreenIs, GoIs, TermFields
  <1>2. CASE b = "D"
    <2>1. Escape(t, b) = Go(OnScreen(t, Lf(t.s)), "normal") BY <1>2 DEF Escape
    <2> QED BY <1>0, <1>1, <2>1, LfSteady
  <1>3. CASE b = "M"
    <2>1. Escape(t, b) = Go(OnScreen(t, Ri(t.s)), "normal") BY <1>3 DEF Escape
    <2> QED BY <1>0, <1>1, <2>1, RiSteady
  <1>4. CASE b = "E"
    <2>1. Escape(t, b) = Go(OnScreen(t, Lf(Cr(t.s))), "normal") BY <1>4 DEF Escape
    <2>2. Steady(Lf(Cr(t.s)), Cr(t.s)) BY <1>0, CrSteady, LfSteady
    <2>3. Steady(Lf(Cr(t.s)), t.s) BY <1>0, <2>2, CrSteady DEF Steady
    <2> QED BY <1>1, <2>1, <2>3
  <1>5. CASE b \in {"[", "(", ")"}
    <2>1. \E q : Escape(t, b) = [t EXCEPT !.p = q]
      <3>1. CASE b = "["
        <4> DEFINE q == [t.p EXCEPT !.state = "csi", !.param = Idle.param, !.nparam = 0,
                                    !.priv = FALSE, !.gt = "none", !.mid = "none"]
        <4>1. Escape(t, b) = [t EXCEPT !.p = q] BY <1>0, <3>1, TermExcept, TermFields DEF Escape
        <4> QED BY <4>1
      <3>2. CASE b \in {"(", ")"}
        <4> DEFINE q == [t.p EXCEPT !.state = "charset", !.to_g0 = (b = "(")]
        <4>1. Escape(t, b) = [t EXCEPT !.p = q] BY <1>0, <3>2, TermExcept, TermFields DEF Escape
        <4> QED BY <4>1
      <3> QED BY <1>5, <3>1, <3>2
    <2>2. \A q : [t EXCEPT !.p = q].s = t.s BY <1>0, ParserIs
    <2> QED BY <2>1, <2>2, SteadyItself
  <1>6. CASE b \in {"]", "P", "^", "_"}
    <2>1. Escape(t, b) = Go(t, "str") BY <1>6 DEF Escape
    <2> QED BY <1>0, <2>1, GoIs, SteadyItself
  <1>7. CASE b \notin {"[", "(", ")", "]", "P", "^", "_", "D", "M", "E", "c"}
    <2>1. /\ b # "[" /\ b \notin {"(", ")"} /\ b \notin {"]", "P", "^", "_"}
          /\ b # "D" /\ b # "M" /\ b # "E" /\ b # "c"
      BY <1>7
    <2>2. Escape(t, b) = Go(t, "normal") BY <2>1, Zenon DEF Escape
    <2> QED BY <1>0, <2>2, GoIs, SteadyItself
  <1> QED BY <1>2, <1>3, <1>4, <1>5, <1>6, <1>7

LEMMA LinesDispatched ==
  ASSUME NEW t, Sound(t), NEW b \in {"L", "M"}
  PROVE  Steady(Dispatch(t, b).s, t.s)
  <1> DEFINE ps == Getp(t.p, 0)
             n == Or1(ps)
  <1>0. Fine(t.s) /\ t.p \in Parsers BY DEF Sound
  <1>1. CASE t.p.mid # "none"
    <2>1. Dispatch(t, b) = t BY <1>1 DEF Dispatch
    <2> QED BY <2>1, SteadyItself
  <1>2. CASE t.p.mid = "none"
    <2>1. b \in Edits /\ b \notin Motions BY DEF Edits, Motions
    <2>2. Dispatch(t, b) = OnScreen(t, Edit(t.s, b, ps, n))
      BY <1>2, <2>1, Zenon DEF Dispatch, ps, n
    <2>3. ps \in Nat BY <1>0, GetpRange
    <2>4. n \in Nat BY <2>3, Or1Range
    <2>5. Narrow(n) \in Nat BY <2>4, NarrowRange
    <2> HIDE DEF ps, n
    <2>6. Edit(t.s, b, ps, n) \in {InsertLines(t.s, Narrow(n)), DeleteLines(t.s, Narrow(n))}
      BY DEF Edit
    <2> QED BY <1>0, <2>2, <2>5, <2>6, OnScreenIs, LinesSteady
  <1> QED BY <1>1, <1>2

\* The bytes that may scroll, except RIS, and except what only erases.
LEMMA FeedSteady ==
  ASSUME NEW t, Sound(t), NEW b \in Bytes,
         \/ t.p.state = "normal"
         \/ t.p.state = "esc" /\ b # "c"
         \/ t.p.state = "csi" /\ b \in {"L", "M"}
  PROVE  Steady(Feed(t, b).s, t.s)
  <1>0. t = Term(t.s, t.p, t.out) BY DEF Sound
  <1>1. CASE b \in {"SO", "SI"}
    <2>1. Feed(t, b) = [t EXCEPT !.p = [t.p EXCEPT !.g1_active = (b = "SO")]]
      BY <1>1 DEF Feed, Shift
    <2>2. Feed(t, b).s = t.s BY <1>0, <2>1, ParserIs
    <2> QED BY <2>2, SteadyItself
  <1>2. CASE b \notin {"SO", "SI"} /\ t.p.state = "normal"
    <2>1. Feed(t, b) = Normal(t, b) BY <1>2 DEF Feed
    <2> QED BY <2>1, NormalSteady
  <1>3. CASE b \notin {"SO", "SI"} /\ t.p.state = "esc" /\ b # "c"
    <2>1. Feed(t, b) = Escape(t, b) BY <1>3 DEF Feed
    <2> QED BY <1>3, <2>1, EscapeSteady
  <1>4. CASE b \notin {"SO", "SI"} /\ t.p.state = "csi" /\ b \in {"L", "M"}
    <2>1. Feed(t, b) = Csi(t, b) BY <1>4 DEF Feed
    <2>2. b \in Chars /\ Range(Digits) = {"0", "1", "2", "3", "4", "5", "6", "7", "8", "9"}
      BY <1>4 DEF Bytes, Controls, Digits, Range
    <2>3. /\ b \notin Range(Digits) /\ b # ";" /\ b # "?" /\ b \notin Markers
          /\ b \notin Intermediates /\ b \in Finals
      BY <1>4, <2>2 DEF Markers, Intermediates, Finals
    <2>4. Csi(t, b) = Go(Dispatch(t, b), "normal") BY <2>3, Zenon DEF Csi
    <2>5. Sound(Dispatch(t, b)) BY <2>2, DispatchKept
    <2>6. Go(Dispatch(t, b), "normal").s = Dispatch(t, b).s BY <2>5, GoIs DEF Sound
    <2> QED BY <1>4, <2>1, <2>4, <2>6, LinesDispatched
  <1> QED BY <1>1, <1>2, <1>3, <1>4

(***************************************************************************)
(* The theorems.                                                           *)
(***************************************************************************)
THEOREM Invariant == Spec => []TInv
  <1>1. Init => TInv BY TypeInit
  <1>2. TInv /\ [Next]_vars => TInv' BY NextKeeps
  <1> QED BY <1>1, <1>2, PTL DEF Spec

\* Whatever is sent to the terminal, the cursor stays on the screen, and the scroll
\* region keeps at least two of its rows.
THEOREM TypeCorrect == Spec => []TypeOK
  <1>1. TInv => TypeOK BY DEF TInv
  <1> QED BY <1>1, Invariant, PTL

\* Between any two stores a reader that strips the overlay sees the screen as if there
\* had never been one, and no byte is rendered on a screen with it.
THEOREM LogicalSnapshotCorrect == Spec => []LogicalSnapshot
  <1>1. TInv => LogicalSnapshot BY DEF TInv
  <1> QED BY <1>1, Invariant, PTL

\* A program that enters the alternate screen once and leaves it finds the screen
\* behind it and the cursor on it as they were.
THEOREM AlternateRestoresCorrect == Spec => AlternateRestores
  <1>1. TInv /\ [Next]_vars => [Leaves /\ primary.depth = 1 => PrimaryBack]_vars
    <2> SUFFICES ASSUME TInv, [Next]_vars, Leaves, primary.depth = 1
                 PROVE  PrimaryBack \/ UNCHANGED vars
      OBVIOUS
    <2>1. pc = "feed" /\ rest # <<>> BY DEF Leaves, TInv, TypeOK
    <2>2. CASE FeedByte BY <2>2, FeedKeeps
    <2>3. FeedByte \/ UNCHANGED vars
      BY <2>1 DEF Next, Loop, Send, PaintSaves, PaintMarks, PaintInverts, ByteReady,
                  EraseRestores, EraseUnmarks
    <2> QED BY <2>2, <2>3
  <1> QED BY <1>1, Invariant, PTL DEF Spec, AlternateRestores

\* Scrolling, wherever it comes from, moves only rows of the region; of the others at
\* most the cursor's changes.
THEOREM OnlyRegionScrollsCorrect == Spec => OnlyRegionScrolls
  <1> DEFINE Outside == \A r \in Row \ (s.top .. s.bot \cup {s.row}) : page'[r] = page[r]
  <1>1. TInv /\ [Next]_vars => [Scrolls => Outside]_vars
    <2> SUFFICES ASSUME TInv, [Next]_vars, Scrolls PROVE Outside \/ UNCHANGED vars
      OBVIOUS
    <2>1. pc = "feed" /\ rest # <<>> /\ rest \in Seq(Bytes) BY DEF Scrolls, TInv, TypeOK
    <2>2. FeedByte \/ UNCHANGED vars
      BY <2>1 DEF Next, Loop, Send, PaintSaves, PaintMarks, PaintInverts, ByteReady,
                  EraseRestores, EraseUnmarks
    <2>3. CASE FeedByte
      <3> DEFINE b == Head(rest)
                 t == Term(s, p, out)
      <3>1. Logical = s /\ Fine(s) BY <2>1, LogicalIsScreen
      <3>2. s.cell = page BY <3>1 DEF TInv, LogicalSnapshot, Stripped, Fine
      <3>3. p \in Parsers /\ p.inverse = s.attr BY DEF TInv, TypeOK
      <3>4. Sound(t) /\ t.s = s /\ t.p = p BY <3>1, <3>3, SoundTerm, TermFields
      <3>5. b \in Bytes BY <2>1
      <3>6. page' = Feed(t, b).s.cell BY <2>3, <3>1 DEF FeedByte
      <3>7. \/ p.state = "normal"
            \/ p.state = "esc" /\ b # "c"
            \/ p.state = "csi" /\ b \in {"L", "M"}
        <4>1. CASE p.state = "normal" BY <4>1
        <4>2. CASE p.state = "esc" BY <4>2 DEF Scrolls
        <4>3. CASE p.state = "csi" BY <4>3 DEF Scrolls
        <4>4. ~(p.state # "normal" /\ p.state # "esc" /\ p.state # "csi") BY Zenon DEF Scrolls
        <4> QED BY <4>1, <4>2, <4>3, <4>4
      <3> HIDE DEF b, t
      <3>8. Steady(Feed(t, b).s, t.s) BY <3>4, <3>5, <3>7, FeedSteady
      <3> QED BY <3>2, <3>4, <3>6, <3>8 DEF Steady
    <2> QED BY <2>2, <2>3
  <1> QED BY <1>1, Invariant, PTL DEF Spec, OnlyRegionScrolls

(***************************************************************************)
(* Two terminals that differ only in what no dispatch looks at do alike.   *)
(***************************************************************************)
\* what the properties see of a screen, and what else its functions read
Looks(x, y) ==
  /\ x.cell = y.cell /\ x.col = y.col /\ x.row = y.row /\ x.top = y.top /\ x.bot = y.bot
  /\ x.attr = y.attr
Alike(x, y) ==
  Looks(x, y) /\ x.area = y.area /\ x.area_col = y.area_col /\ x.area_row = y.area_row

\* the parsers agree but for the shift
Agree(q, r) ==
  /\ q.state = r.state /\ q.param = r.param /\ q.nparam = r.nparam /\ q.priv = r.priv
  /\ q.gt = r.gt /\ q.mid = r.mid /\ q.inverse = r.inverse
  /\ q.col = r.col /\ q.row = r.row

LEMMA LooksSet ==
  ASSUME NEW x, Fine(x), NEW y, Fine(y), Looks(x, y)
  PROVE  /\ \A cell : Looks([x EXCEPT !.cell = cell], [y EXCEPT !.cell = cell])
         /\ \A c, r : Looks([x EXCEPT !.col = c, !.row = r], [y EXCEPT !.col = c, !.row = r])
         /\ \A c : Looks([x EXCEPT !.col = c], [y EXCEPT !.col = c])
         /\ \A r : Looks([x EXCEPT !.row = r], [y EXCEPT !.row = r])
  BY DEF Looks, Fine, ScreenOK, Screens

LEMMA CellLooks ==
  ASSUME NEW x, Fine(x), NEW y, Fine(y), Looks(x, y), NEW cell
  PROVE  Looks([x EXCEPT !.cell = cell], [y EXCEPT !.cell = cell])
  BY LooksSet

LEMMA GotoxyLooks ==
  ASSUME NEW x, Fine(x), NEW y, Fine(y), Looks(x, y), NEW c, NEW r
  PROVE  Looks(Gotoxy(x, c, r), Gotoxy(y, c, r))
  BY LooksSet DEF Gotoxy

LEMMA MotionLooks ==
  ASSUME NEW x, Fine(x), NEW y, Fine(y), Looks(x, y), NEW f \in Motions, NEW n, NEW rr, NEW cc
  PROVE  Looks(Motion(x, f, n, rr, cc), Motion(y, f, n, rr, cc))
  <1> USE GotoxyLooks
  <1>1. x.col = y.col /\ x.row = y.row BY DEF Looks
  <1>2. \E c, r : Motion(x, f, n, rr, cc) = Gotoxy(x, c, r) /\ Motion(y, f, n, rr, cc) = Gotoxy(y, c, r)
    <2>1. CASE f = "A" BY <1>1, <2>1 DEF Motion
    <2>2. CASE f = "B" BY <1>1, <2>2 DEF Motion
    <2>3. CASE f = "C" BY <1>1, <2>3 DEF Motion
    <2>4. CASE f = "D" BY <1>1, <2>4 DEF Motion
    <2>5. CASE f \in {"H", "f"} BY <1>1, <2>5 DEF Motion
    <2>6. CASE f \in {"G", "HPA"} BY <1>1, <2>6 DEF Motion
    <2>7. CASE f = "d" BY <1>1, <2>7 DEF Motion
    <2>8. CASE f = "E" BY <1>1, <2>8 DEF Motion
    <2>9. CASE f = "F" BY <1>1, <2>9 DEF Motion
    <2> QED BY <2>1, <2>2, <2>3, <2>4, <2>5, <2>6, <2>7, <2>8, <2>9 DEF Motions
  <1> QED BY <1>2

\* An erasing function blanks the cells it chooses by the cursor.
LEMMA ClearsLook ==
  ASSUME NEW x, Fine(x), NEW y, Fine(y), Looks(x, y)
  PROVE  /\ Looks(ClearEol(x), ClearEol(y)) /\ Looks(ClearBol(x), ClearBol(y))
         /\ Looks(ClearLine(x), ClearLine(y)) /\ Looks(ClearBop(x), ClearBop(y))
         /\ Looks(ClearEop(x), ClearEop(y))
  <1>0. x.cell = y.cell /\ x.col = y.col /\ x.row = y.row BY DEF Looks
  <1>1. Looks(ClearEol(x), ClearEol(y))
    <2> DEFINE Cell(z) == [r \in Row |-> [c \in Col |-> IF r = z.row /\ c >= z.col THEN Blank ELSE z.cell[r][c]]]
    <2>1. ClearEol(x) = [x EXCEPT !.cell = Cell(x)] BY DEF ClearEol, BlankWhere
    <2>2. ClearEol(y) = [y EXCEPT !.cell = Cell(y)] BY DEF ClearEol, BlankWhere
    <2>3. Cell(x) = Cell(y) BY <1>0, Zenon
    <2> HIDE DEF Cell
    <2> QED BY <2>1, <2>2, <2>3, CellLooks
  <1>2. Looks(ClearBol(x), ClearBol(y))
    <2> DEFINE Cell(z) == [r \in Row |-> [c \in Col |-> IF r = z.row /\ c <= z.col THEN Blank ELSE z.cell[r][c]]]
    <2>1. ClearBol(x) = [x EXCEPT !.cell = Cell(x)] BY DEF ClearBol, BlankWhere
    <2>2. ClearBol(y) = [y EXCEPT !.cell = Cell(y)] BY DEF ClearBol, BlankWhere
    <2>3. Cell(x) = Cell(y) BY <1>0, Zenon
    <2> HIDE DEF Cell
    <2> QED BY <2>1, <2>2, <2>3, CellLooks
  <1>3. Looks(ClearLine(x), ClearLine(y))
    <2> DEFINE Cell(z) == [r \in Row |-> [c \in Col |-> IF r = z.row THEN Blank ELSE z.cell[r][c]]]
    <2>1. ClearLine(x) = [x EXCEPT !.cell = Cell(x)] BY DEF ClearLine, BlankWhere
    <2>2. ClearLine(y) = [y EXCEPT !.cell = Cell(y)] BY DEF ClearLine, BlankWhere
    <2>3. Cell(x) = Cell(y) BY <1>0, Zenon
    <2> HIDE DEF Cell
    <2> QED BY <2>1, <2>2, <2>3, CellLooks
  <1>4. Looks(ClearBop(x), ClearBop(y))
    <2> DEFINE Cell(z) == [r \in Row |-> [c \in Col |-> IF r < z.row \/ (r = z.row /\ c <= z.col) THEN Blank ELSE z.cell[r][c]]]
    <2>1. ClearBop(x) = [x EXCEPT !.cell = Cell(x)] BY DEF ClearBop, BlankWhere
    <2>2. ClearBop(y) = [y EXCEPT !.cell = Cell(y)] BY DEF ClearBop, BlankWhere
    <2>3. Cell(x) = Cell(y) BY <1>0, Zenon
    <2> HIDE DEF Cell
    <2> QED BY <2>1, <2>2, <2>3, CellLooks
  <1>5. Looks(ClearEop(x), ClearEop(y))
    <2> DEFINE Cell(z) == [r \in Row |-> [c \in Col |-> IF r > z.row \/ (r = z.row /\ c >= z.col) THEN Blank ELSE z.cell[r][c]]]
    <2>1. ClearEop(x) = [x EXCEPT !.cell = Cell(x)] BY DEF ClearEop, BlankWhere
    <2>2. ClearEop(y) = [y EXCEPT !.cell = Cell(y)] BY DEF ClearEop, BlankWhere
    <2>3. Cell(x) = Cell(y) BY <1>0, Zenon
    <2> HIDE DEF Cell
    <2> QED BY <2>1, <2>2, <2>3, CellLooks
  <1> QED BY <1>1, <1>2, <1>3, <1>4, <1>5

\* An editing function rewrites the page out of what is looked at, or does nothing.
LEMMA EditLooks ==
  ASSUME NEW x, Fine(x), NEW y, Fine(y), Looks(x, y), NEW f \in Edits, NEW ps, NEW n
  PROVE  Looks(Edit(x, f, ps, n), Edit(y, f, ps, n))
  <1>1. x.cell = y.cell /\ x.col = y.col /\ x.row = y.row /\ x.top = y.top /\ x.bot = y.bot BY DEF Looks
  <1>2. /\ Looks(ClearEol(x), ClearEol(y)) /\ Looks(ClearBol(x), ClearBol(y))
        /\ Looks(ClearLine(x), ClearLine(y)) /\ Looks(ClearBop(x), ClearBop(y))
        /\ Looks(ClearEop(x), ClearEop(y))
    BY ClearsLook
  <1>3. Looks(EraseInPlace(x), EraseInPlace(y))
    <2>1. Fine(ClearAll(x)) /\ Fine(ClearAll(y)) BY ClearsFine DEF From
    <2>2. Looks(ClearAll(x), ClearAll(y)) BY <1>1 DEF ClearAll, Looks, Fine, ScreenOK, Screens
    <2> QED BY <1>1, <2>1, <2>2, GotoxyLooks DEF EraseInPlace
  <1>4. /\ Looks(InsertLines(x, Narrow(n)), InsertLines(y, Narrow(n)))
        /\ Looks(DeleteLines(x, Narrow(n)), DeleteLines(y, Narrow(n)))
    BY <1>1, LooksSet DEF InsertLines, DeleteLines, InRegion
  <1>5. \A g : Looks(EditRow(x, g), EditRow(y, g))
    BY <1>1 DEF EditRow, Looks, Fine, ScreenOK, Screens
  <1>6. /\ Looks(InsertChars(x, Narrow(n)), InsertChars(y, Narrow(n)))
        /\ Looks(DeleteChars(x, Narrow(n)), DeleteChars(y, Narrow(n)))
        /\ Looks(EraseChars(x, Narrow(n)), EraseChars(y, Narrow(n)))
    BY <1>1, <1>5, Zenon DEF InsertChars, DeleteChars, EraseChars
  <1>7. CASE f = "J" BY <1>2, <1>3, <1>7 DEF Edit
  <1>8. CASE f = "K" BY <1>2, <1>8 DEF Edit
  <1>9. CASE f \in {"L", "M"} BY <1>4, <1>9 DEF Edit
  <1>10. CASE f \in {"@", "P", "X"} BY <1>6, <1>10 DEF Edit
  <1> QED BY <1>7, <1>8, <1>9, <1>10 DEF Edits

LEMMA GetpAgrees ==
  ASSUME NEW q, NEW r, Agree(q, r)
  PROVE  /\ \A i : Getp(q, i) = Getp(r, i)
         /\ PrivateMode(q) = PrivateMode(r)
  BY DEF Agree, Getp, PrivateMode

LEMMA SgrAgrees == ASSUME NEW q, NEW r, Agree(q, r) PROVE Sgr(q) = Sgr(r)
  <1>1. q.nparam = r.nparam /\ q.inverse = r.inverse BY DEF Agree
  <1>2. \A k : Getp(q, k) = Getp(r, k) BY GetpAgrees
  <1>3. \A k : Skip(q, k) = Skip(r, k) BY <1>2, Zenon DEF Skip
  <1>4. ASSUME NEW k, NEW x PROVE Look(q, k, x) = Look(r, k, x)
    <2>1. q.nparam = r.nparam /\ Getp(q, k) = Getp(r, k) /\ Skip(q, k) = Skip(r, k) BY <1>1, <1>2, <1>3
    <2> QED BY <2>1 DEF Look
  <1>5. ASSUME NEW x PROVE /\ Look(q, 0, x) = Look(r, 0, x) /\ Look(q, 1, x) = Look(r, 1, x)
                           /\ Look(q, 2, x) = Look(r, 2, x) /\ Look(q, 3, x) = Look(r, 3, x)
    BY <1>4
  <1> QED BY <1>1, <1>5 DEF Sgr

LEMMA ResetLooks ==
  ASSUME NEW t, Sound(t), NEW u, Sound(u), Alike(t.s, u.s)
  PROVE  Looks(Reset(t).s, Reset(u).s)
  <1>1. ASSUME NEW v, Sound(v)
        PROVE  Reset(v).s = SetRegion([SetAttr(v.s, FALSE) EXCEPT !.visible = TRUE], 0, Rows - 1)
    <2> DEFINE q == [v.p EXCEPT !.app = FALSE, !.inverse = FALSE, !.g0 = FALSE, !.g1 = FALSE,
                                !.g1_active = FALSE]
               z == SetRegion(SetCursorVisible(SetAttr(v.s, FALSE), TRUE), 0, Rows - 1)
    <2>3. v = Term(v.s, v.p, v.out) BY <1>1 DEF Sound
    <2>4. Reset(v) = [v EXCEPT !.p = q, !.s = z] BY <2>3, TermExcept, TermFields DEF Reset
    <2> HIDE DEF q, z
    <2>5. Reset(v) = Term(z, q, v.out) BY <2>3, <2>4, TermExcept
    <2>6. Reset(v).s = z BY <2>5, TermFields
    <2>1. Reset(v).s = SetRegion(SetCursorVisible(SetAttr(v.s, FALSE), TRUE), 0, Rows - 1)
      BY <2>6 DEF z
    <2> QED BY <2>1 DEF SetCursorVisible
  <1>2. Looks([SetAttr(t.s, FALSE) EXCEPT !.visible = TRUE], [SetAttr(u.s, FALSE) EXCEPT !.visible = TRUE])
    BY DEF Looks, Alike, SetAttr, Sound, Fine, ScreenOK, Screens
  <1>3. \A v : Sound(v) => [SetAttr(v.s, FALSE) EXCEPT !.visible = TRUE] \in Screens
    BY DEF SetAttr, Sound, Fine, ScreenOK, Screens
  <1>4. \A x, y \in Screens : Looks(x, y) => Looks(SetRegion(x, 0, Rows - 1), SetRegion(y, 0, Rows - 1))
    BY DEF SetRegion, Looks, Screens
  <1> DEFINE W(v) == [SetAttr(v.s, FALSE) EXCEPT !.visible = TRUE]
  <1>5. Looks(SetRegion(W(t), 0, Rows - 1), SetRegion(W(u), 0, Rows - 1)) BY <1>2, <1>3, <1>4
  <1>6. Reset(t).s = SetRegion(W(t), 0, Rows - 1) BY <1>1
  <1>7. Reset(u).s = SetRegion(W(u), 0, Rows - 1) BY <1>1
  <1> HIDE DEF W
  <1> QED BY <1>5, <1>6, <1>7

LEMMA ModeLooks ==
  ASSUME NEW t, Sound(t), NEW u, Sound(u), Alike(t.s, u.s), Agree(t.p, u.p), NEW on \in BOOLEAN
  PROVE  Looks(SetMode(t, on).s, SetMode(u, on).s)
  <1> DEFINE mode == PrivateMode(t.p)
  <1>1. mode = PrivateMode(u.p) BY GetpAgrees
  <1>2. Looks(t.s, u.s) BY DEF Alike
  <1>3. Fine(t.s) /\ Fine(u.s) BY DEF Sound
  <1>4. CASE mode \in Alternates
    <2> DEFINE New(x) == IF on THEN EnterAlternate(x) ELSE RestoreScreen(x)
    <2>1. \A v : Sound(v) => OnScreen(v, New(v.s)).s = New(v.s) BY DEF Sound, Term, OnScreen
    <2>3. ASSUME NEW v, Sound(v), PrivateMode(v.p) = mode
          PROVE  SetMode(v, on).s = SetAttr(New(v.s), FALSE)
      <3>1. mode # 1 /\ mode # 25 BY <1>4 DEF Alternates
      <3>2. SetMode(v, on) = SetInverse(OnScreen(v, New(v.s)), FALSE) BY <1>4, <2>3, <3>1 DEF SetMode
      <3>3. OnScreen(v, New(v.s)) = Term(New(v.s), v.p, v.out) BY <2>3, TermExcept DEF Sound, OnScreen
      <3>4. SetInverse(Term(New(v.s), v.p, v.out), FALSE).s = SetAttr(New(v.s), FALSE)
        <4> HIDE DEF New
        <4> QED BY DEF SetInverse, Term
      <3> QED BY <3>2, <3>3, <3>4
    <2>4. Looks(New(t.s), New(u.s))
      BY <1>3 DEF Alike, Looks, EnterAlternate, RestoreScreen, SaveScreen, ClearAll, Fine, ScreenOK, Screens
    <2>5. Fine(New(t.s)) /\ Fine(New(u.s)) BY <1>3, AlternateFine DEF From
    <2> HIDE DEF New
    <2>6. Looks(SetAttr(New(t.s), FALSE), SetAttr(New(u.s), FALSE))
      BY <2>4, <2>5 DEF Looks, SetAttr, Fine, ScreenOK, Screens
    <2>7. SetMode(t, on).s = SetAttr(New(t.s), FALSE) BY <2>3
    <2>8. SetMode(u, on).s = SetAttr(New(u.s), FALSE) BY <1>1, <2>3
    <2> QED BY <2>6, <2>7, <2>8
  <1>5. CASE mode = 25
    <2>1. ASSUME NEW v, Sound(v), PrivateMode(v.p) = mode PROVE SetMode(v, on).s = SetCursorVisible(v.s, on)
      BY <1>5, <2>1 DEF SetMode, Alternates, Sound, Term, OnScreen
    <2>2. ASSUME NEW v, Fine(v) PROVE Looks(SetCursorVisible(v, on), v)
      <3>1. SetCursorVisible(v, on) = [v EXCEPT !.visible = on]
        BY <2>2 DEF SetCursorVisible, CursorErase, Fine, ScreenOK, Screens
      <3> QED BY <2>2, <3>1 DEF Looks, Fine, ScreenOK, Screens
    <2> QED BY <1>1, <1>2, <1>3, <2>1, <2>2 DEF Looks
  <1>6. CASE mode \notin Alternates \cup {25}
    <2>1. ASSUME NEW v, Sound(v), PrivateMode(v.p) = mode PROVE SetMode(v, on).s = v.s
      <3>1. \/ SetMode(v, on) = [v EXCEPT !.p.app = on]
            \/ SetMode(v, on) = v
        BY <1>6, <2>1 DEF SetMode
      <3> QED BY <2>1, <3>1 DEF Sound, Term
    <2> QED BY <1>1, <1>2, <2>1
  <1> QED BY <1>4, <1>5, <1>6

LEMMA DispatchLooks ==
  ASSUME NEW t, Sound(t), NEW u, Sound(u), Alike(t.s, u.s), Agree(t.p, u.p), NEW f \in Chars
  PROVE  Looks(Dispatch(t, f).s, Dispatch(u, f).s)
  <1> DEFINE ps == Getp(t.p, 0)
             second == Getp(t.p, 1)
  <1>1. ps = Getp(u.p, 0) /\ second = Getp(u.p, 1) BY GetpAgrees
  <1>2. t.p.mid = u.p.mid /\ t.p.priv = u.p.priv /\ t.p.col = u.p.col /\ t.p.row = u.p.row BY DEF Agree
  <1>3. Looks(t.s, u.s) /\ Fine(t.s) /\ Fine(u.s) BY DEF Alike, Sound
  <1>4. \A v, x : Sound(v) => OnScreen(v, x).s = x BY DEF Sound, Term, OnScreen
  <1> HIDE DEF ps, second
  <1>5. CASE t.p.mid # "none"
    BY <1>2, <1>3, <1>5, ResetLooks DEF Dispatch
  <1>6. CASE t.p.mid = "none" /\ f \in Motions
    <2>1. /\ Dispatch(t, f) = OnScreen(t, Motion(t.s, f, Or1(ps), Or1(ps), Or1(second)))
          /\ Dispatch(u, f) = OnScreen(u, Motion(u.s, f, Or1(ps), Or1(ps), Or1(second)))
      <3>1. /\ f \notin {"h", "l"} /\ f \notin Edits
            /\ f # "n" /\ f # "c" /\ f # "s" /\ f # "u" /\ f # "m" /\ f # "r"
        BY <1>6 DEF Motions, Edits
      <3>2. u.p.mid = "none" BY <1>2, <1>6
      <3> QED BY <1>1, <1>6, <3>1, <3>2, Zenon DEF Dispatch, ps, second
    <2> QED BY <1>3, <1>4, <1>6, <2>1, MotionLooks
  <1>7. CASE t.p.mid = "none" /\ f \in Edits
    <2>1. /\ Dispatch(t, f) = OnScreen(t, Edit(t.s, f, ps, Or1(ps)))
          /\ Dispatch(u, f) = OnScreen(u, Edit(u.s, f, ps, Or1(ps)))
      <3>1. f \notin {"h", "l"} /\ f \notin Motions BY <1>7 DEF Edits, Motions
      <3>2. u.p.mid = "none" BY <1>2, <1>7
      <3> QED BY <1>1, <1>7, <3>1, <3>2, Zenon DEF Dispatch, Edits, Motions, ps
    <2> QED BY <1>3, <1>4, <1>7, <2>1, EditLooks
  <1>8. CASE t.p.mid = "none" /\ f \in {"n", "c", "s"}
    <2>1. ASSUME NEW v, Sound(v), v.p.mid = "none" PROVE Dispatch(v, f).s = v.s
      BY <1>8, <2>1 DEF Dispatch, Edits, Motions, Sound, Term, Say
    <2> QED BY <1>2, <1>3, <1>8, <2>1
  <1>9. CASE t.p.mid = "none" /\ f = "u"
    <2>1. /\ Dispatch(t, f) = OnScreen(t, Gotoxy(t.s, t.p.col, t.p.row))
          /\ Dispatch(u, f) = OnScreen(u, Gotoxy(u.s, t.p.col, t.p.row))
      BY <1>2, <1>9 DEF Dispatch, Edits, Motions
    <2> QED BY <1>3, <1>4, <2>1, GotoxyLooks
  <1>10. CASE t.p.mid = "none" /\ f \in {"h", "l"}
    <2>1. Dispatch(t, f) = SetMode(t, f = "h") /\ Dispatch(u, f) = SetMode(u, f = "h")
      BY <1>2, <1>10 DEF Dispatch, Edits, Motions
    <2>2. (f = "h") \in BOOLEAN OBVIOUS
    <2> QED BY <2>1, <2>2, ModeLooks
  <1>11. CASE t.p.mid = "none" /\ f = "m"
    <2>1. ASSUME NEW v, Sound(v), v.p.mid = "none" PROVE Dispatch(v, f).s = SetAttr(v.s, Sgr(v.p))
      <3>1. Dispatch(v, f) = SetInverse(v, Sgr(v.p)) BY <1>11, <2>1 DEF Dispatch, Edits, Motions
      <3>2. SetInverse(v, Sgr(v.p)).s = SetAttr(v.s, Sgr(v.p)) BY <2>1 DEF SetInverse, Sound, Term
      <3> QED BY <3>1, <3>2
    <2>2. Dispatch(t, f).s = SetAttr(t.s, Sgr(t.p)) BY <1>11, <2>1
    <2>3. Dispatch(u, f).s = SetAttr(u.s, Sgr(t.p)) BY <1>2, <1>11, <2>1, SgrAgrees
    <2>4. \A on : Looks(SetAttr(t.s, on), SetAttr(u.s, on))
      BY <1>3 DEF Looks, SetAttr, Fine, ScreenOK, Screens
    <2> QED BY <2>2, <2>3, <2>4
  <1>12. CASE t.p.mid = "none" /\ f = "r"
    <2> DEFINE top == Narrow(Or1(ps) - 1)
               bot == Narrow((IF second = 0 THEN Rows ELSE second) - 1)
    <2>1. \/ Dispatch(t, f) = t /\ Dispatch(u, f) = u
          \/ /\ Dispatch(t, f) = OnScreen(t, SetRegion(t.s, top, bot))
             /\ Dispatch(u, f) = OnScreen(u, SetRegion(u.s, top, bot))
      BY <1>1, <1>2, <1>12 DEF Dispatch, Edits, Motions, ps, second
    <2> HIDE DEF top, bot
    <2>2. Looks(SetRegion(t.s, top, bot), SetRegion(u.s, top, bot))
      BY <1>3 DEF SetRegion, Looks, Fine, ScreenOK, Screens
    <2> QED BY <1>3, <1>4, <2>1, <2>2
  <1>13. CASE /\ t.p.mid = "none" /\ f \notin Motions /\ f \notin Edits
              /\ f \notin {"n", "c", "s", "u", "h", "l", "m", "r"}
    <2>1. ASSUME NEW v, v.p.mid = "none" PROVE Dispatch(v, f) = v
      <3>1. /\ f # "n" /\ f # "c" /\ f # "s" /\ f # "u" /\ f # "m" /\ f # "r" /\ f \notin {"h", "l"}
        BY <1>13
      <3> QED BY <1>13, <2>1, <3>1, Zenon DEF Dispatch
    <2> QED BY <1>2, <1>3, <1>13, <2>1
  <1> QED BY <1>5, <1>6, <1>7, <1>8, <1>9, <1>10, <1>11, <1>12, <1>13

(***************************************************************************)
(* Induction.  The library states it for a predicate given as a parameter, *)
(* which the provers cannot instantiate; for a set it follows from there   *)
(* being a least counterexample.                                           *)
(***************************************************************************)
LEMMA Least ==
  ASSUME NEW T \in SUBSET Nat, T # {}
  PROVE  \E x \in T : \A y \in T : x <= y
  <1> DEFINE R == OpToRel(<, Nat)
  <1>1. IsWellFoundedOn(R, Nat) BY NatLessThanWellFounded
  <1>2. \A x, y \in Nat : <<x, y>> \in R <=> x < y BY DEF OpToRel
  <1> HIDE DEF R
  <1>3. PICK x \in T : \A y \in T : ~ (<<y, x>> \in R) BY <1>1, WFMin
  <1>4. x \in Nat /\ \A y \in T : y \in Nat OBVIOUS
  <1>5. \A y \in T : ~ (y < x) BY <1>2, <1>3, <1>4
  <1> QED BY <1>4, <1>5

LEMMA Induction ==
  ASSUME NEW S, 0 \in S, \A n \in Nat : n \in S => n + 1 \in S
  PROVE  Nat \subseteq S
  <1> SUFFICES ASSUME NEW k \in Nat, k \notin S PROVE FALSE OBVIOUS
  <1>1. Nat \ S # {} OBVIOUS
  <1>2. PICK x \in Nat \ S : \A y \in Nat \ S : x <= y BY <1>1, Least
  <1>3. x # 0 /\ x - 1 \in Nat /\ x - 1 < x BY <1>2
  <1>4. x - 1 \in S BY <1>2, <1>3
  <1>5. (x - 1) + 1 \in S BY <1>3, <1>4
  <1> QED BY <1>2, <1>5

(***************************************************************************)
(* The recursive functions of the properties, and that there are such.     *)
(***************************************************************************)
\* the terminal after each of bytes when the shifts are passed over
Passed(t, b) == IF b \in {"SO", "SI"} THEN t ELSE Feed(t, b)
RunStep(g, t, bytes, i) ==
  IF i = 0 THEN t ELSE IF bytes[i] \in {"SO", "SI"} THEN g[i - 1] ELSE Feed(g[i - 1], bytes[i])
Runs(g, t, bytes, n) == g = [i \in 0 .. n |-> RunStep(g, t, bytes, i)]
Plain(t, bytes) == CHOOSE g : Runs(g, t, bytes, Len(bytes))

LEMMA PlainExists ==
  ASSUME NEW t, NEW bytes, NEW k \in Nat
  PROVE  \E g : Runs(g, t, bytes, k)
  <1> DEFINE S == {n \in Nat : \E g : Runs(g, t, bytes, n)}
  <1>1. 0 \in S
    <2> DEFINE g == [i \in 0 .. 0 |-> t]
    <2>1. Runs(g, t, bytes, 0) BY DEF RunStep, Runs
    <2> QED BY <2>1
  <1>2. ASSUME NEW n \in Nat, n \in S PROVE n + 1 \in S
    <2>1. PICK g : Runs(g, t, bytes, n) BY <1>2
    <2> DEFINE h == [i \in 0 .. n + 1 |-> IF i <= n THEN g[i] ELSE RunStep(g, t, bytes, i)]
    <2>2. \A i \in 0 .. n : g[i] = RunStep(g, t, bytes, i) BY <2>1 DEF Runs
    <2>3. ASSUME NEW i \in 0 .. n + 1 PROVE RunStep(h, t, bytes, i) = RunStep(g, t, bytes, i)
      <3>1. i # 0 => i - 1 \in 0 .. n + 1 /\ i - 1 <= n OBVIOUS
      <3>2. i # 0 => h[i - 1] = g[i - 1] BY <3>1
      <3> QED BY <3>2 DEF RunStep
    <2>4. ASSUME NEW i \in 0 .. n + 1 PROVE h[i] = RunStep(h, t, bytes, i)
      <3>1. CASE i <= n BY <3>1, <2>2, <2>3
      <3>2. CASE ~(i <= n) BY <3>2, <2>3
      <3> QED BY <3>1, <3>2
    <2>5. h = [i \in 0 .. n + 1 |-> RunStep(h, t, bytes, i)] BY <2>4
    <2> HIDE DEF h
    <2> QED BY <2>5 DEF Runs
  <1> HIDE DEF S
  <1>3. k \in S BY <1>1, <1>2, Induction
  <1> QED BY <1>3 DEF S

LEMMA PlainIs ==
  ASSUME NEW t, NEW bytes \in Seq(Bytes)
  PROVE  /\ Plain(t, bytes)[0] = t
         /\ \A i \in 1 .. Len(bytes) :
              Plain(t, bytes)[i] = Passed(Plain(t, bytes)[i - 1], bytes[i])
         /\ Unshifted(t, bytes) = Plain(t, bytes)[Len(bytes)]
  <1> DEFINE n == Len(bytes)
             r == Plain(t, bytes)
  <1>1. n \in Nat OBVIOUS
  <1>2. Unshifted(t, bytes) = r[n] BY Zenon DEF Unshifted, Plain, Runs, RunStep
  <1> HIDE DEF n
  <1>3. \E g : Runs(g, t, bytes, n) BY <1>1, PlainExists
  <1>4. Runs(r, t, bytes, n) BY <1>3, Zenon DEF Plain, n
  <1> HIDE DEF r
  <1>5. \A i \in 0 .. n : r[i] = RunStep(r, t, bytes, i) BY <1>4, Zenon DEF Runs
  <1>6. r[0] = t BY <1>1, <1>5 DEF RunStep
  <1>7. \A i \in 1 .. n : i \in 0 .. n /\ i # 0 BY <1>1
  <1>8. \A i \in 1 .. n : r[i] = Passed(r[i - 1], bytes[i])
    BY <1>5, <1>7, Zenon DEF RunStep, Passed
  <1> QED BY <1>2, <1>6, <1>8 DEF r, n

\* the numbers read off the first bytes of a body
TallyStep(g, body, i) ==
  IF i = 0 THEN <<0>>
  ELSE IF body[i] = ";" THEN Append(g[i - 1], 0)
  ELSE [g[i - 1] EXCEPT ![Len(g[i - 1])] = @ * 10 + Number(body[i])]
Tally(body) == CHOOSE g : g = [i \in 0 .. Len(body) |-> TallyStep(g, body, i)]
ReadOn(numbers, b) ==
  IF b = ";" THEN Append(numbers, 0)
  ELSE [numbers EXCEPT ![Len(numbers)] = @ * 10 + Number(b)]

LEMMA TallyExists ==
  ASSUME NEW body, NEW k \in Nat
  PROVE  \E g : g = [i \in 0 .. k |-> TallyStep(g, body, i)]
  <1> DEFINE Run(g, n) == g = [i \in 0 .. n |-> TallyStep(g, body, i)]
             S == {n \in Nat : \E g : Run(g, n)}
  <1>1. 0 \in S
    <2> DEFINE g == [i \in 0 .. 0 |-> <<0>>]
    <2>1. \A i \in 0 .. 0 : TallyStep(g, body, i) = <<0>> BY DEF TallyStep
    <2>2. Run(g, 0) BY <2>1, Zenon
    <2> QED BY <2>2
  <1>2. ASSUME NEW n \in Nat, n \in S PROVE n + 1 \in S
    <2>1. PICK g : Run(g, n) BY <1>2
    <2> DEFINE h == [i \in 0 .. n + 1 |-> IF i <= n THEN g[i] ELSE TallyStep(g, body, i)]
    <2>2. \A i \in 0 .. n : g[i] = TallyStep(g, body, i) BY <2>1
    <2>3. ASSUME NEW i \in 0 .. n + 1 PROVE TallyStep(h, body, i) = TallyStep(g, body, i)
      <3>1. i # 0 => i - 1 \in 0 .. n + 1 /\ i - 1 <= n OBVIOUS
      <3>2. i # 0 => h[i - 1] = g[i - 1] BY <3>1
      <3> HIDE DEF h
      <3> QED BY <3>2, Zenon DEF TallyStep
    <2>4. ASSUME NEW i \in 0 .. n + 1 PROVE h[i] = TallyStep(h, body, i)
      <3>1. CASE i <= n BY <3>1, <2>2, <2>3
      <3>2. CASE ~(i <= n) BY <3>2, <2>3
      <3> QED BY <3>1, <3>2
    <2>5. h = [i \in 0 .. n + 1 |-> TallyStep(h, body, i)] BY <2>4, Zenon
    <2> HIDE DEF h
    <2> QED BY <2>5
  <1> HIDE DEF S
  <1>3. k \in S BY <1>1, <1>2, Induction
  <1> QED BY <1>3 DEF S

LEMMA TallyIs ==
  ASSUME NEW body \in Seq(Bytes)
  PROVE  /\ Tally(body)[0] = <<0>>
         /\ \A i \in 1 .. Len(body) : Tally(body)[i] = ReadOn(Tally(body)[i - 1], body[i])
  <1> DEFINE n == Len(body)
             r == Tally(body)
  <1>1. n \in Nat OBVIOUS
  <1> HIDE DEF n
  <1>3. \E g : g = [i \in 0 .. n |-> TallyStep(g, body, i)] BY <1>1, TallyExists, Zenon
  <1>4. r = [i \in 0 .. n |-> TallyStep(r, body, i)] BY <1>3, Zenon DEF Tally, n
  <1> HIDE DEF r
  <1>5. \A i \in 0 .. n : r[i] = TallyStep(r, body, i) BY <1>4, Zenon
  <1>6. r[0] = <<0>>
    <2>1. 0 \in 0 .. n BY <1>1
    <2> QED BY <1>5, <2>1, Zenon DEF TallyStep
  <1>7. \A i \in 1 .. n : i \in 0 .. n /\ i # 0 BY <1>1
  <1>8. \A i \in 1 .. n : r[i] = ReadOn(r[i - 1], body[i])
    BY <1>5, <1>7, Zenon DEF TallyStep, ReadOn
  <1> QED BY <1>6, <1>8 DEF r, n

LEMMA NumbersAre == Numbers = Tally(Body)[Len(Body)]
  BY Zenon DEF Numbers, Tally, TallyStep

(***************************************************************************)
(* The bytes of a control sequence, on two terminals that are alike.       *)
(***************************************************************************)
CsiParser(q, b) ==
  CASE b \in Range(Digits) -> [q EXCEPT !.param[q.nparam] = Accumulate(@, b)]
    [] b = ";" -> [q EXCEPT !.nparam = Lower(@ + 1, MaxParam - 1)]
    [] b = "?" -> [q EXCEPT !.priv = TRUE]
    [] b \in Markers -> [q EXCEPT !.gt = b]
    [] b \in Intermediates -> [q EXCEPT !.mid = IF @ = "none" THEN b ELSE "many"]
    [] OTHER -> q

LEMMA DigitsAre == Range(Digits) = {"0", "1", "2", "3", "4", "5", "6", "7", "8", "9"}
  BY DEF Digits, Range

\* The bytes the parser tells apart in a control sequence.
LEMMA CsiForm ==
  ASSUME NEW t, Sound(t), NEW b \in Bytes \ Finals
  PROVE  Csi(t, b) = Term(t.s, CsiParser(t.p, b), t.out)
  <1>0. t = Term(t.s, t.p, t.out) BY DEF Sound
  <1> SUFFICES Csi(t, b) = [t EXCEPT !.p = CsiParser(t.p, b)] BY <1>0, TermExcept
  <1>1. CASE b \in Range(Digits)
    <2>1. Csi(t, b) = [t EXCEPT !.p.param[t.p.nparam] = Accumulate(@, b)]
      BY <1>1, DigitsAre DEF Csi, Markers, Intermediates, Finals
    <2>2. CsiParser(t.p, b) = [t.p EXCEPT !.param[t.p.nparam] = Accumulate(@, b)]
      BY <1>1, DigitsAre DEF CsiParser, Markers, Intermediates
    <2> QED BY <1>0, <2>1, <2>2 DEF Term
  <1>2. CASE b = ";"
    <2>1. Csi(t, b) = [t EXCEPT !.p.nparam = Lower(@ + 1, MaxParam - 1)]
      BY <1>2, DigitsAre DEF Csi, Markers, Intermediates, Finals
    <2>2. CsiParser(t.p, b) = [t.p EXCEPT !.nparam = Lower(@ + 1, MaxParam - 1)]
      BY <1>2, DigitsAre DEF CsiParser, Markers, Intermediates
    <2> QED BY <1>0, <2>1, <2>2 DEF Term
  <1>3. CASE b = "?"
    <2>1. Csi(t, b) = [t EXCEPT !.p.priv = TRUE]
      BY <1>3, DigitsAre DEF Csi, Markers, Intermediates, Finals
    <2>2. CsiParser(t.p, b) = [t.p EXCEPT !.priv = TRUE]
      BY <1>3, DigitsAre DEF CsiParser, Markers, Intermediates
    <2> QED BY <1>0, <2>1, <2>2 DEF Term
  <1>4. CASE b \in Markers
    <2>1. Csi(t, b) = [t EXCEPT !.p.gt = b]
      BY <1>4, DigitsAre DEF Csi, Markers, Intermediates, Finals
    <2>2. CsiParser(t.p, b) = [t.p EXCEPT !.gt = b]
      BY <1>4, DigitsAre DEF CsiParser, Markers, Intermediates
    <2> QED BY <1>0, <2>1, <2>2 DEF Term
  <1>5. CASE b \in Intermediates
    <2>0. b \notin Range(Digits) /\ b # ";" /\ b # "?" /\ b \notin Markers /\ b \notin Finals
      BY <1>5, DigitsAre DEF Markers, Intermediates, Finals
    <2>1. Csi(t, b) = [t EXCEPT !.p.mid = IF @ = "none" THEN b ELSE "many"]
      BY <1>5, <2>0, Zenon DEF Csi
    <2>2. CsiParser(t.p, b) = [t.p EXCEPT !.mid = IF @ = "none" THEN b ELSE "many"]
      BY <1>5, <2>0, Zenon DEF CsiParser
    <2> QED BY <1>0, <2>1, <2>2 DEF Term
  <1>6. CASE b \notin Range(Digits) \cup {";", "?"} \cup Markers \cup Intermediates
    <2>0. b \notin Range(Digits) /\ b # ";" /\ b # "?" /\ b \notin Markers /\ b \notin Intermediates
          /\ b \notin Finals
      BY <1>6
    <2>1. Csi(t, b) = t BY <2>0, Zenon DEF Csi
    <2>2. CsiParser(t.p, b) = t.p BY <2>0, Zenon DEF CsiParser
    <2>3. [t EXCEPT !.p = t.p] = t BY <1>0 DEF Term
    <2> QED BY <2>1, <2>2, <2>3
  <1> QED BY <1>1, <1>2, <1>3, <1>4, <1>5, <1>6

LEMMA CsiAgrees ==
  ASSUME NEW q \in Parsers, NEW r \in Parsers, Agree(q, r), NEW b
  PROVE  Agree(CsiParser(q, b), CsiParser(r, b)) /\ CsiParser(q, b).state = q.state
  <1>0. /\ q.param = r.param /\ q.nparam = r.nparam /\ q.mid = r.mid BY DEF Agree
  <1>1. CASE b \in Range(Digits)
    <2> DEFINE param == [q.param EXCEPT ![q.nparam] = Accumulate(@, b)]
    <2>1. CsiParser(q, b) = [q EXCEPT !.param = param] /\ CsiParser(r, b) = [r EXCEPT !.param = param]
      BY <1>0, <1>1, DigitsAre DEF CsiParser, Parsers, Markers, Intermediates
    <2> HIDE DEF param
    <2> QED BY <2>1 DEF Agree, Parsers
  <1>2. CASE b = ";"
    <2> DEFINE n == Lower(q.nparam + 1, MaxParam - 1)
    <2>1. CsiParser(q, b) = [q EXCEPT !.nparam = n] /\ CsiParser(r, b) = [r EXCEPT !.nparam = n]
      BY <1>0, <1>2, DigitsAre DEF CsiParser, Parsers, Markers, Intermediates
    <2> HIDE DEF n
    <2> QED BY <2>1 DEF Agree, Parsers
  <1>3. CASE b = "?"
    <2>1. CsiParser(q, b) = [q EXCEPT !.priv = TRUE] /\ CsiParser(r, b) = [r EXCEPT !.priv = TRUE]
      BY <1>3, DigitsAre DEF CsiParser, Markers, Intermediates
    <2> QED BY <2>1 DEF Agree, Parsers
  <1>4. CASE b \in Markers
    <2>1. CsiParser(q, b) = [q EXCEPT !.gt = b] /\ CsiParser(r, b) = [r EXCEPT !.gt = b]
      BY <1>4, DigitsAre DEF CsiParser, Markers, Intermediates
    <2> QED BY <2>1 DEF Agree, Parsers
  <1>5. CASE b \in Intermediates
    <2>0. b \notin Range(Digits) /\ b # ";" /\ b # "?" /\ b \notin Markers
      BY <1>5, DigitsAre DEF Markers, Intermediates
    <2> DEFINE m == IF q.mid = "none" THEN b ELSE "many"
    <2>1. CsiParser(q, b) = [q EXCEPT !.mid = IF @ = "none" THEN b ELSE "many"]
      BY <1>5, <2>0, Zenon DEF CsiParser
    <2>2. CsiParser(r, b) = [r EXCEPT !.mid = IF @ = "none" THEN b ELSE "many"]
      BY <1>5, <2>0, Zenon DEF CsiParser
    <2>3. CsiParser(q, b) = [q EXCEPT !.mid = m] /\ CsiParser(r, b) = [r EXCEPT !.mid = m]
      BY <1>0, <2>1, <2>2 DEF Parsers
    <2> HIDE DEF m
    <2> QED BY <2>3 DEF Agree, Parsers
  <1>6. CASE b \notin Range(Digits) /\ b # ";" /\ b # "?" /\ b \notin Markers /\ b \notin Intermediates
    <2>1. CsiParser(q, b) = q /\ CsiParser(r, b) = r BY <1>6, Zenon DEF CsiParser
    <2> QED BY <2>1
  <1> QED BY <1>1, <1>2, <1>3, <1>4, <1>5, <1>6

\* What a byte of a control sequence makes of a terminal: the parser in state, and all else
\* as it was; the final byte, what is dispatched.
LEMMA EscByte ==
  ASSUME NEW t, Sound(t), t.p.state = "normal"
  PROVE  Feed(t, "ESC") = Term(t.s, [t.p EXCEPT !.state = "esc"], t.out)
  <1>0. t = Term(t.s, t.p, t.out) BY DEF Sound
  <1>1. Feed(t, "ESC") = Normal(t, "ESC") /\ Normal(t, "ESC") = Go(t, "esc")
    <2>1. "ESC" \notin Chars BY InputAssumption DEF Controls
    <2> QED BY <2>1 DEF Feed, Normal
  <1>2. Go(t, "esc") = [t EXCEPT !.p = [t.p EXCEPT !.state = "esc"]] BY DEF Go
  <1> QED BY <1>0, <1>1, <1>2, TermExcept

Opened(q) == [q EXCEPT !.state = "csi", !.param = Idle.param, !.nparam = 0,
                       !.priv = FALSE, !.gt = "none", !.mid = "none"]

LEMMA BracketByte ==
  ASSUME NEW t, Sound(t), t.p.state = "esc"
  PROVE  Feed(t, "[") = Term(t.s, Opened(t.p), t.out)
  <1>0. t = Term(t.s, t.p, t.out) BY DEF Sound
  <1>1. Feed(t, "[") = Escape(t, "[") BY DEF Feed
  <1>2. Escape(t, "[") = [t EXCEPT !.p = Opened(t.p)] BY <1>0, TermExcept, TermFields DEF Escape, Opened
  <1> QED BY <1>0, <1>1, <1>2, TermExcept

LEMMA ShiftByte ==
  ASSUME NEW t, Sound(t), t.p.state = "csi", NEW b \in {"SO", "SI"}
  PROVE  Feed(t, b) = Term(t.s, [t.p EXCEPT !.g1_active = (b = "SO")], t.out)
  <1>0. t = Term(t.s, t.p, t.out) BY DEF Sound
  <1>1. Feed(t, b) = [t EXCEPT !.p = [t.p EXCEPT !.g1_active = (b = "SO")]] BY DEF Feed, Shift
  <1> QED BY <1>0, <1>1, TermExcept

LEMMA BodyByte ==
  ASSUME NEW t, Sound(t), t.p.state = "csi", NEW b \in Bytes \ Finals, b \notin {"SO", "SI"}
  PROVE  Feed(t, b) = Term(t.s, CsiParser(t.p, b), t.out)
  <1>1. Feed(t, b) = Csi(t, b) BY DEF Feed
  <1> QED BY <1>1, CsiForm

LEMMA FinalByte ==
  ASSUME NEW t, Sound(t), t.p.state = "csi", NEW b \in Finals
  PROVE  /\ Passed(t, b) = Feed(t, b) /\ Feed(t, b).s = Dispatch(t, b).s /\ b \in Chars
  <1>1. b \in Chars /\ b \notin {"SO", "SI"} BY InputAssumption DEF Finals, Controls
  <1>2. Feed(t, b) = Csi(t, b) BY <1>1 DEF Feed
  <1>3. Csi(t, b) = Go(Dispatch(t, b), "normal")
    <2>1. b \notin Range(Digits) /\ b # ";" /\ b # "?" /\ b \notin Markers /\ b \notin Intermediates
      BY DEF Finals
    <2> QED BY <2>1, Zenon DEF Csi
  <1>4. Sound(Dispatch(t, b)) BY <1>1, DispatchKept
  <1>5. Go(Dispatch(t, b), "normal").s = Dispatch(t, b).s BY <1>4, GoIs DEF Sound
  <1> QED BY <1>1, <1>2, <1>3, <1>5 DEF Passed

\* A byte before the final one leaves two terminals alike that were, whether the second
\* passes over the shifts or not.
Level(t, u, state) ==
  /\ Sound(t) /\ Sound(u) /\ Agree(t.p, u.p) /\ t.p.state = state

LEMMA ByteLevel ==
  ASSUME NEW t, NEW u, NEW state, Level(t, u, state), NEW b \in Bytes,
         NEW next, \/ state = "normal" /\ b = "ESC" /\ next = "esc"
                   \/ state = "esc" /\ b = "[" /\ next = "csi"
                   \/ state = "csi" /\ b \notin Finals /\ next = "csi"
  PROVE  /\ Level(Feed(t, b), Passed(u, b), next)
         /\ Feed(t, b).s = t.s /\ Passed(u, b).s = u.s
  <1>0. /\ Sound(t) /\ Sound(u) /\ Agree(t.p, u.p) /\ t.p.state = state /\ u.p.state = state
        /\ t.p \in Parsers /\ u.p \in Parsers
    BY DEF Level, Sound, Agree
  <1>1. Sound(Feed(t, b)) /\ Sound(Feed(u, b)) BY <1>0, FeedKept
  <1>2. CASE state = "normal" /\ b = "ESC" /\ next = "esc"
    <2>1. /\ Feed(t, b) = Term(t.s, [t.p EXCEPT !.state = "esc"], t.out)
          /\ Feed(u, b) = Term(u.s, [u.p EXCEPT !.state = "esc"], u.out)
      BY <1>0, <1>2, EscByte
    <2>2. Passed(u, b) = Feed(u, b) BY <1>2 DEF Passed
    <2>3. Agree([t.p EXCEPT !.state = "esc"], [u.p EXCEPT !.state = "esc"])
          /\ [t.p EXCEPT !.state = "esc"].state = "esc"
      BY <1>0 DEF Agree, Parsers
    <2>4. /\ Feed(t, b).s = t.s /\ Feed(t, b).p = [t.p EXCEPT !.state = "esc"]
          /\ Feed(u, b).s = u.s /\ Feed(u, b).p = [u.p EXCEPT !.state = "esc"]
      BY <2>1, TermFields
    <2> QED BY <1>1, <1>2, <2>2, <2>3, <2>4 DEF Level
  <1>3. CASE state = "esc" /\ b = "[" /\ next = "csi"
    <2>1. Feed(t, b) = Term(t.s, Opened(t.p), t.out) /\ Feed(u, b) = Term(u.s, Opened(u.p), u.out)
      BY <1>0, <1>3, BracketByte
    <2>2. Passed(u, b) = Feed(u, b) BY <1>3 DEF Passed
    <2>3. Agree(Opened(t.p), Opened(u.p)) /\ Opened(t.p).state = "csi"
      BY <1>0 DEF Agree, Parsers, Opened
    <2> QED BY <1>1, <1>3, <2>1, <2>2, <2>3, TermFields DEF Level
  <1>4. CASE state = "csi" /\ b \in {"SO", "SI"} /\ next = "csi"
    <2> DEFINE q == [t.p EXCEPT !.g1_active = (b = "SO")]
    <2>1. Feed(t, b) = Term(t.s, q, t.out) BY <1>0, <1>4, ShiftByte
    <2>2. Passed(u, b) = u BY <1>4 DEF Passed
    <2>3. Agree(q, u.p) /\ q.state = "csi" BY <1>0, <1>4 DEF Agree, Parsers
    <2> HIDE DEF q
    <2> QED BY <1>0, <1>1, <1>4, <2>1, <2>2, <2>3, TermFields DEF Level
  <1>5. CASE state = "csi" /\ b \notin Finals /\ b \notin {"SO", "SI"} /\ next = "csi"
    <2>1. /\ Feed(t, b) = Term(t.s, CsiParser(t.p, b), t.out)
          /\ Feed(u, b) = Term(u.s, CsiParser(u.p, b), u.out)
      BY <1>0, <1>5, BodyByte
    <2>2. Passed(u, b) = Feed(u, b) BY <1>5 DEF Passed
    <2>3. Agree(CsiParser(t.p, b), CsiParser(u.p, b)) /\ CsiParser(t.p, b).state = "csi"
      BY <1>0, <1>5, CsiAgrees
    <2> QED BY <1>1, <1>5, <2>1, <2>2, <2>3, TermFields DEF Level
  <1> QED BY <1>2, <1>3, <1>4, <1>5

\* The final byte does the same to what is seen of them.
LEMMA FinalLooks ==
  ASSUME NEW t, NEW u, Level(t, u, "csi"), Alike(t.s, u.s), NEW b \in Finals
  PROVE  Looks(Feed(t, b).s, Passed(u, b).s)
  <1>1. Sound(t) /\ Sound(u) /\ Agree(t.p, u.p) /\ t.p.state = "csi" /\ u.p.state = "csi"
    BY DEF Level, Agree
  <1>2. /\ Feed(t, b).s = Dispatch(t, b).s /\ Passed(u, b).s = Dispatch(u, b).s /\ b \in Chars
    BY <1>1, FinalByte
  <1>3. Looks(Dispatch(t, b).s, Dispatch(u, b).s) BY <1>1, <1>2, DispatchLooks
  <1> QED BY <1>2, <1>3

(***************************************************************************)
(* The numbers of a sequence, as the parser keeps them and as they are     *)
(* read off the bytes.                                                     *)
(***************************************************************************)
Counted(numbers) == numbers \in Seq(Nat) /\ Len(numbers) >= 1
Small(numbers) == \A j \in 1 .. Len(numbers) : numbers[j] < Word
Params(numbers) == [i \in 0 .. MaxParam - 1 |-> IF i < Len(numbers) THEN numbers[i + 1] ELSE 0]
\* the last slot takes the digits of all numbers from the fourth on
Reads(q, numbers) ==
  /\ Counted(numbers) /\ q.mid = "none"
  /\ Small(numbers) => /\ q.nparam = Lower(Len(numbers), MaxParam) - 1
                       /\ Len(numbers) <= MaxParam => q.param = Params(numbers)
                       /\ \A i \in 0 .. MaxParam - 2 : q.param[i] = Params(numbers)[i]

LEMMA WordFits == ASSUME NEW x \in Nat, x < Word PROVE x % Word = x
  BY DEF Word

LEMMA NumberRange == ASSUME NEW d \in Range(Digits) PROVE Number(d) \in 0 .. 9
  <1>1. DOMAIN Digits = 1 .. 10 BY DEF Digits
  <1>2. \E i \in DOMAIN Digits : Digits[i] = d BY DEF Range
  <1> DEFINE i == CHOOSE i \in DOMAIN Digits : Digits[i] = d
  <1>3. i \in 1 .. 10 BY <1>1, <1>2
  <1>4. Number(d) = i - 1 BY DEF Number
  <1> HIDE DEF i
  <1> QED BY <1>3, <1>4

LEMMA OpenedReads == ASSUME NEW q \in Parsers PROVE Reads(Opened(q), <<0>>)
  <1>1. Opened(q).mid = "none" /\ Opened(q).nparam = 0 /\ Opened(q).param = Idle.param
    BY DEF Opened, Parsers
  <1>2. Idle.param = [i \in 0 .. MaxParam - 1 |-> 0] BY DEF Idle
  <1>3. Params(<<0>>) = [i \in 0 .. MaxParam - 1 |-> 0] BY DEF Params, MaxParam
  <1>4. Counted(<<0>>) /\ Len(<<0>>) = 1 BY DEF Counted
  <1>5. Opened(q).param = Params(<<0>>) BY <1>1, <1>2, <1>3
  <1>6. Lower(Len(<<0>>), MaxParam) - 1 = 0 BY <1>4 DEF Lower, MaxParam
  <1> QED BY <1>1, <1>4, <1>5, <1>6 DEF Reads

\* A digit makes the last number larger, a semicolon begins one.
LEMMA DigitReads ==
  ASSUME NEW q \in Parsers, NEW numbers, Reads(q, numbers), NEW d \in Range(Digits)
  PROVE  Reads(CsiParser(q, d), ReadOn(numbers, d))
  <1> DEFINE n == Len(numbers)
             last == numbers[n] * 10 + Number(d)
             more == [numbers EXCEPT ![n] = last]
  <1>1. numbers \in Seq(Nat) /\ n \in Nat /\ n >= 1 /\ n \in 1 .. n /\ q.mid = "none" BY DEF Reads, Counted
  <1> HIDE DEF n
  <1>2. Number(d) \in 0 .. 9 BY NumberRange
  <1>3. numbers[n] \in Nat BY <1>1, ElementOfSeq DEF n
  <1>4. last \in Nat /\ last >= numbers[n] BY <1>2, <1>3
  <1>5. ReadOn(numbers, d) = more BY DigitsAre DEF ReadOn, n
  <1> HIDE DEF last
  <1>6. /\ more \in Seq(Nat) /\ Len(more) = n
        /\ \A j \in 1 .. n : more[j] = IF j = n THEN last ELSE numbers[j]
    BY <1>1, <1>4, ExceptSeq DEF n
  <1> HIDE DEF more
  <1>7. Counted(more) BY <1>1, <1>6 DEF Counted
  <1>8. CsiParser(q, d) = [q EXCEPT !.param[q.nparam] = Accumulate(@, d)]
    BY DigitsAre DEF CsiParser, Markers, Intermediates
  <1>9. CsiParser(q, d).mid = "none" /\ CsiParser(q, d).nparam = q.nparam BY <1>1, <1>8 DEF Parsers
  <1>10. ASSUME Small(more)
         PROVE  /\ q.nparam = Lower(n, MaxParam) - 1
                /\ n <= MaxParam => CsiParser(q, d).param = Params(more)
                /\ \A i \in 0 .. MaxParam - 2 : CsiParser(q, d).param[i] = Params(more)[i]
    <2>1. last < Word /\ \A j \in 1 .. n : j # n => numbers[j] < Word
      BY <1>1, <1>6, <1>10 DEF Small
    <2>2. numbers[n] < Word BY <1>3, <1>4, <2>1, WordSize
    <2>3. Small(numbers) BY <1>1, <2>1, <2>2 DEF Small, n
    <2>4. /\ q.nparam = Lower(n, MaxParam) - 1
          /\ n <= MaxParam => q.param = Params(numbers)
          /\ \A i \in 0 .. MaxParam - 2 : q.param[i] = Params(numbers)[i]
      BY <2>3 DEF Reads, n
    <2>5. Params(more) = [i \in 0 .. 3 |-> IF i < n THEN (IF i + 1 = n THEN last ELSE numbers[i + 1]) ELSE 0]
      BY <1>1, <1>6 DEF Params, MaxParam
    <2>6. Params(numbers) = [i \in 0 .. 3 |-> IF i < n THEN numbers[i + 1] ELSE 0] BY DEF Params, MaxParam, n
    <2>7. CASE n <= MaxParam
      <3>1. q.nparam = n - 1 /\ q.param = Params(numbers) BY <1>1, <2>4, <2>7 DEF Lower, MaxParam
      <3>2. n - 1 \in 0 .. 3 /\ n - 1 < n /\ (n - 1) + 1 = n BY <1>1, <2>7 DEF MaxParam
      <3>3. q.param[n - 1] = numbers[n] BY <2>6, <3>1, <3>2
      <3>4. Accumulate(numbers[n], d) = last
        <4>1. Accumulate(numbers[n], d) = last % Word BY DEF Accumulate, last
        <4> QED BY <1>4, <2>1, <4>1, WordFits
      <3>5. CsiParser(q, d).param = [q.param EXCEPT ![n - 1] = last]
        BY <1>8, <3>1, <3>3, <3>4 DEF Parsers
      <3>6. [Params(numbers) EXCEPT ![n - 1] = last] = Params(more) BY <1>1, <2>5, <2>6, <3>2
      <3> QED BY <2>4, <3>1, <3>5, <3>6
    <2>8. CASE ~(n <= MaxParam)
      <3>1. q.nparam = 3 /\ n > 4 BY <1>1, <2>4, <2>8 DEF Lower, MaxParam
      <3>2. CsiParser(q, d).param = [q.param EXCEPT ![3] = Accumulate(@, d)]
        BY <1>8, <3>1 DEF Parsers
      <3>3. q.param \in [0 .. 3 -> 0 .. Word - 1] BY DEF Parsers, MaxParam
      <3>4. \A i \in 0 .. 2 : CsiParser(q, d).param[i] = q.param[i] BY <3>2, <3>3
      <3>5. \A i \in 0 .. 2 : Params(more)[i] = Params(numbers)[i] BY <1>1, <2>5, <2>6, <3>1
      <3> QED BY <2>4, <2>8, <3>4, <3>5 DEF MaxParam
    <2> QED BY <2>7, <2>8
  <1> QED BY <1>5, <1>6, <1>7, <1>9, <1>10 DEF Reads

LEMMA SemicolonReads ==
  ASSUME NEW q \in Parsers, NEW numbers, Reads(q, numbers)
  PROVE  Reads(CsiParser(q, ";"), ReadOn(numbers, ";"))
  <1> DEFINE n == Len(numbers)
             more == Append(numbers, 0)
  <1>1. numbers \in Seq(Nat) /\ n \in Nat /\ n >= 1 /\ q.mid = "none" BY DEF Reads, Counted
  <1> HIDE DEF n
  <1>2. ReadOn(numbers, ";") = more BY DEF ReadOn
  <1>3. /\ more \in Seq(Nat) /\ Len(more) = n + 1
        /\ \A j \in 1 .. n + 1 : more[j] = IF j = n + 1 THEN 0 ELSE numbers[j]
    BY <1>1 DEF n
  <1> HIDE DEF more
  <1>4. Counted(more) BY <1>1, <1>3 DEF Counted
  <1>5. CsiParser(q, ";") = [q EXCEPT !.nparam = Lower(@ + 1, MaxParam - 1)]
    BY DigitsAre DEF CsiParser, Markers, Intermediates
  <1>6. /\ CsiParser(q, ";").mid = "none" /\ CsiParser(q, ";").param = q.param
        /\ CsiParser(q, ";").nparam = Lower(q.nparam + 1, MaxParam - 1)
    BY <1>1, <1>5 DEF Parsers
  <1>7. ASSUME Small(more)
        PROVE  /\ Lower(q.nparam + 1, MaxParam - 1) = Lower(n + 1, MaxParam) - 1
               /\ n + 1 <= MaxParam => q.param = Params(more)
               /\ \A i \in 0 .. MaxParam - 2 : q.param[i] = Params(more)[i]
    <2>1. \A j \in 1 .. n : numbers[j] < Word BY <1>1, <1>3, <1>7 DEF Small
    <2>2. Small(numbers) BY <1>1, <2>1 DEF Small, n
    <2>3. /\ q.nparam = Lower(n, MaxParam) - 1
          /\ n <= MaxParam => q.param = Params(numbers)
          /\ \A i \in 0 .. MaxParam - 2 : q.param[i] = Params(numbers)[i]
      BY <2>2 DEF Reads, n
    <2>4. Lower(q.nparam + 1, MaxParam - 1) = Lower(n + 1, MaxParam) - 1
      BY <1>1, <2>3 DEF Lower, MaxParam
    <2>5. Params(more) = [i \in 0 .. 3 |-> IF i < n + 1 THEN (IF i + 1 = n + 1 THEN 0 ELSE numbers[i + 1]) ELSE 0]
      BY <1>1, <1>3 DEF Params, MaxParam
    <2>6. Params(numbers) = [i \in 0 .. 3 |-> IF i < n THEN numbers[i + 1] ELSE 0] BY DEF Params, MaxParam, n
    <2>7. \A i \in 0 .. 2 : Params(numbers)[i] = Params(more)[i] BY <1>1, <2>5, <2>6
    <2>8. n + 1 <= MaxParam => Params(numbers) = Params(more) BY <1>1, <2>5, <2>6
    <2>9. n + 1 <= MaxParam => n <= MaxParam BY <1>1 DEF MaxParam
    <2> QED BY <2>3, <2>4, <2>7, <2>8, <2>9 DEF MaxParam
  <1>8. Len(more) = n + 1 BY <1>3
  <1> QED BY <1>2, <1>4, <1>6, <1>7, <1>8 DEF Reads

(***************************************************************************)
(* Which numbers of an SGR sequence belong to a colour.                    *)
(***************************************************************************)
Open(g, k) == \A j \in 1 .. k - 1 : g[j] => j + Takes(j) <= k
Starting(g, n) == g = [k \in 1 .. n |-> Numbers[k] \in {38, 48} /\ Open(g, k)]

LEMMA StartingExists == ASSUME NEW k \in Nat PROVE \E g : Starting(g, k)
  <1> DEFINE S == {n \in Nat : \E g : Starting(g, n)}
  <1>1. 0 \in S
    <2> DEFINE g == [k0 \in 1 .. 0 |-> TRUE]
    <2>1. Starting(g, 0) BY DEF Starting
    <2> QED BY <2>1
  <1>2. ASSUME NEW n \in Nat, n \in S PROVE n + 1 \in S
    <2>1. PICK g : Starting(g, n) BY <1>2
    <2> DEFINE Begins(f, i) == Numbers[i] \in {38, 48} /\ Open(f, i)
               h == [i \in 1 .. n + 1 |-> IF i <= n THEN g[i] ELSE Begins(g, i)]
    <2>2. \A i \in 1 .. n : g[i] = Begins(g, i) BY <2>1 DEF Starting
    <2>3. ASSUME NEW i \in 1 .. n + 1 PROVE Begins(h, i) = Begins(g, i)
      <3>1. \A j \in 1 .. i - 1 : j \in 1 .. n + 1 /\ j <= n OBVIOUS
      <3>2. \A j \in 1 .. i - 1 : h[j] = g[j] BY <3>1
      <3> HIDE DEF h
      <3>3. Open(h, i) = Open(g, i) BY <3>2 DEF Open
      <3> QED BY <3>3
    <2> HIDE DEF Begins
    <2>4. ASSUME NEW i \in 1 .. n + 1 PROVE h[i] = Begins(h, i)
      <3>1. CASE i <= n BY <3>1, <2>2, <2>3
      <3>2. CASE ~(i <= n) BY <3>2, <2>3
      <3> QED BY <3>1, <3>2
    <2>5. h = [i \in 1 .. n + 1 |-> Begins(h, i)] BY <2>4, Zenon
    <2> HIDE DEF h
    <2>6. Starting(h, n + 1) BY <2>5, Zenon DEF Starting, Begins
    <2> QED BY <2>6
  <1> HIDE DEF S
  <1>3. k \in S BY <1>1, <1>2, Induction
  <1> QED BY <1>3 DEF S

\* No colour that began before reaches number k.
Uncovered(k) == \A c \in Colour : c < k => c + Takes(c) <= k

LEMMA ColourIs ==
  ASSUME Counted(Numbers)
  PROVE  /\ Colour \subseteq 1 .. Len(Numbers)
         /\ \A k \in 1 .. Len(Numbers) : k \in Colour <=> Numbers[k] \in {38, 48} /\ Uncovered(k)
  <1> DEFINE n == Len(Numbers)
             r == CHOOSE g : Starting(g, n)
  <1>1. n \in Nat /\ DOMAIN Numbers = 1 .. n BY DEF Counted
  <1>2. Colour = {k \in 1 .. n : r[k]} BY <1>1, Zenon DEF Colour, Starting, Open
  <1> HIDE DEF n
  <1>3. Starting(r, n) BY <1>1, StartingExists, Zenon DEF n
  <1> HIDE DEF r
  <1>4. \A k \in 1 .. n : r[k] = (Numbers[k] \in {38, 48} /\ Open(r, k)) BY <1>3 DEF Starting
  <1>5. ASSUME NEW k \in 1 .. n PROVE Open(r, k) <=> Uncovered(k)
    <2>1. \A j : j \in 1 .. k - 1 <=> j \in 1 .. n /\ j < k BY <1>1
    <2> QED BY <1>2, <2>1, Zenon DEF Open, Uncovered
  <1>6. \A k \in 1 .. n : k \in Colour <=> r[k] BY <1>2
  <1>7. \A k \in 1 .. n : k \in Colour <=> Numbers[k] \in {38, 48} /\ Uncovered(k)
    BY <1>4, <1>5, <1>6
  <1>8. Colour \subseteq 1 .. n BY <1>2
  <1> QED BY <1>7, <1>8 DEF n

LEMMA AttributesAre ==
  ASSUME Counted(Numbers)
  PROVE  /\ Attributes \subseteq 1 .. Len(Numbers)
         /\ \A k \in 1 .. Len(Numbers) : k \in Attributes <=> Numbers[k] \in {0, 7, 27} /\ Uncovered(k)
  <1> DEFINE n == Len(Numbers)
  <1>1. n \in Nat /\ DOMAIN Numbers = 1 .. n BY DEF Counted
  <1>2. Attributes = {k \in 1 .. n : Numbers[k] \in {0, 7, 27}
                                      /\ \A j \in Colour : k < j \/ j + Takes(j) <= k}
    BY <1>1 DEF Attributes
  <1>3. Colour \subseteq 1 .. n /\ \A k \in 1 .. n : k \in Colour => Numbers[k] \in {38, 48} BY ColourIs
  <1>4. ASSUME NEW k \in 1 .. n, Numbers[k] \in {0, 7, 27}
        PROVE  (\A j \in Colour : k < j \/ j + Takes(j) <= k) <=> Uncovered(k)
    <2>1. k \notin Colour BY <1>3, <1>4
    <2>2. \A j \in Colour : j # k /\ (k < j <=> ~(j < k)) BY <1>1, <1>3, <2>1
    <2> QED BY <2>2, Zenon DEF Uncovered
  <1> HIDE DEF n
  <1>5. Attributes \subseteq 1 .. n BY <1>2
  <1>6. \A k \in 1 .. n : k \in Attributes <=> Numbers[k] \in {0, 7, 27} /\ Uncovered(k)
    BY <1>2, <1>4, Zenon
  <1> QED BY <1>5, <1>6 DEF n

(***************************************************************************)
(* The passes of the loop over the parameters.                             *)
(***************************************************************************)
\* what the attributes among the first m numbers say, where there are none the old one
Judged(on, m, old) ==
  \/ \E a \in Attributes : /\ a <= m /\ on = (Numbers[a] = 7)
                           /\ \A j \in Attributes : j <= m => j <= a
  \/ (\A j \in Attributes : j > m) /\ on = old

\* no colour of the first m numbers reaches number k
Reached(m, k) == \E c \in Colour : c <= m /\ c + Takes(c) > k

\* after m passes the loop looks next behind the colours so far
After(r, m, old) ==
  /\ r \in [on : BOOLEAN, next : Int] /\ (m <= Len(Numbers) => r.next >= m)
  /\ \A k \in 1 .. Len(Numbers) : k > m /\ k <= MaxParam => (Reached(m, k) <=> k <= r.next)
  /\ Judged(r.on, m, old)

Skipping == \A k \in Colour : k < Len(Numbers) /\ Numbers[k + 1] \in {2, 5}

LEMMA PassReads ==
  ASSUME NEW q, Reads(q, Numbers), Small(Numbers), Fits, Skipping,
         NEW m \in 0 .. 3, NEW r, NEW old, After(r, m, old)
  PROVE  After(Look(q, m, r), m + 1, old)
  <1> DEFINE n == Len(Numbers)
             k == m + 1
  <1>1. /\ Numbers \in Seq(Nat) /\ n \in Nat /\ n >= 1
        /\ q.nparam = IF n <= 4 THEN n - 1 ELSE 3
        /\ n <= 4 => q.param = Params(Numbers)
        /\ \A i \in 0 .. 2 : q.param[i] = Params(Numbers)[i]
    BY DEF Reads, Counted, MaxParam, Lower
  <1>2. \A i \in 0 .. 3 : i < n /\ (i <= 2 \/ n <= 4) => Getp(q, i) = Numbers[i + 1]
    BY <1>1 DEF Getp, Params, MaxParam
  <1>3. /\ Colour \subseteq 1 .. n /\ Attributes \subseteq 1 .. n
        /\ \A i \in 1 .. n : i \in Colour <=> Numbers[i] \in {38, 48} /\ Uncovered(i)
        /\ \A i \in 1 .. n : i \in Attributes <=> Numbers[i] \in {0, 7, 27} /\ Uncovered(i)
    BY ColourIs, AttributesAre DEF Reads
  <1>4. /\ r \in [on : BOOLEAN, next : Int] /\ (m <= n => r.next >= m)
        /\ \A i \in 1 .. n : i > m /\ i <= 4 => (Reached(m, i) <=> i <= r.next)
        /\ Judged(r.on, m, old)
    BY DEF After, MaxParam
  <1>5. k \in Nat /\ k >= 1 /\ k = m + 1 OBVIOUS
  <1>6. \A c \in Colour : c \in Int /\ Takes(c) \in {3, 5} BY <1>3 DEF Takes
  <1>7. \A i \in Attributes : i \in Int BY <1>3
  <1>13. n > 4 => Reached(3, 4)
    <2> SUFFICES ASSUME n > 4 PROVE Reached(3, 4) OBVIOUS
    <2>1. PICK c \in Colour : c < 4 /\ c + Takes(c) > n BY <1>1 DEF Fits, MaxParam
    <2> QED BY <1>1, <1>6, <2>1 DEF Reached
  <1> HIDE DEF n, k
  <1>8. k \in 1 .. n => (Uncovered(k) <=> ~Reached(m, k))
    BY <1>5, <1>6 DEF Uncovered, Reached
  \* number k is no attribute: nothing new is said
  <1>9. k \notin Attributes => Judged(r.on, k, old)
    <2> SUFFICES ASSUME k \notin Attributes PROVE Judged(r.on, k, old) OBVIOUS
    <2>1. \A a \in Attributes : (a <= k <=> a <= m) /\ (a > m <=> a > k) BY <1>5, <1>7
    <2> QED BY <1>4, <2>1 DEF Judged
  \* it is none and no colour either
  <1>10. k \notin Colour => \A i \in 1 .. n : Reached(k, i) <=> Reached(m, i)
    <2> SUFFICES ASSUME k \notin Colour PROVE \A i \in 1 .. n : Reached(k, i) <=> Reached(m, i) OBVIOUS
    <2>1. \A c \in Colour : c <= k <=> c <= m BY <1>5, <1>6
    <2> QED BY <2>1, Zenon DEF Reached
  <1>11. CASE k > n \/ k <= r.next
    <2>1. Look(q, m, r) = r
      <3>1. m # r.next \/ m > q.nparam BY <1>1, <1>4, <1>5, <1>11
      <3> QED BY <3>1 DEF Look
    <2>2. k \notin Colour /\ k \notin Attributes
      <3>1. CASE k > n BY <1>1, <1>3, <1>5, <3>1
      <3>2. CASE k \in 1 .. n /\ k <= r.next
        <4>1. Reached(m, k) BY <1>4, <1>5, <3>2
        <4> QED BY <1>3, <1>8, <3>2, <4>1
      <3> QED BY <1>1, <1>5, <1>11, <3>1, <3>2
    <2>3. \A i \in 1 .. n : i > k /\ i <= 4 => (Reached(k, i) <=> i <= r.next) BY <1>4, <1>5, <1>10, <2>2
    <2>4. k <= n => r.next >= k BY <1>1, <1>4, <1>5, <1>11
    <2>5. Judged(r.on, k, old) BY <1>9, <2>2
    <2> QED BY <1>4, <2>1, <2>3, <2>4, <2>5 DEF After, MaxParam, k, n
  <1>12. CASE k \in 1 .. n /\ k > r.next
    <2>1. r.next = m /\ m <= q.nparam BY <1>1, <1>4, <1>5, <1>12
    <2>8. m <= 2 \/ n <= 4
      <3>1. ASSUME m = 3, n > 4 PROVE FALSE BY <1>4, <1>5, <1>12, <1>13, <3>1
      <3> QED BY <1>1, <3>1
    <2>2. Getp(q, m) = Numbers[k] BY <1>1, <1>2, <1>5, <1>12, <2>8
    <2>7. Look(q, m, r) = CASE Numbers[k] \in {38, 48} -> [r EXCEPT !.next = m + Skip(q, m)]
                            [] Numbers[k] \in {0, 27} -> [on |-> FALSE, next |-> m + 1]
                            [] Numbers[k] = 7 -> [on |-> TRUE, next |-> m + 1]
                            [] OTHER -> [r EXCEPT !.next = m + 1]
      <3>1. ~(m # r.next \/ m > q.nparam) BY <1>1, <2>1
      <3> QED BY <2>2, <3>1, Zenon DEF Look
    <2>3. Uncovered(k) BY <1>4, <1>8, <1>5, <1>12
    <2>4. \A i \in 1 .. n : i > k => ~Reached(m, i)
      <3>1. ~Reached(m, k) BY <1>8, <1>12, <2>3
      <3> QED BY <1>5, <1>6, <1>12, <3>1 DEF Reached
    <2>5. CASE Numbers[k] \in {38, 48}
      <3>1. k \in Colour /\ k \notin Attributes BY <1>3, <1>12, <2>3, <2>5
      <3>2. k < n /\ Numbers[k + 1] \in {2, 5} BY <3>1 DEF Skipping, n
      <3> DEFINE skip == Skip(q, m)
      <3>6. Takes(k) \in {3, 5} /\ skip \in {2, 3, 5} BY <1>6, <3>1 DEF Skip
      \* the selector of a colour in the last slot but one may be lost among later digits
      <3>4. skip = Takes(k) \/ m = 2
        <4>1. ASSUME m # 2 PROVE skip = Takes(k)
          <5>1. m + 1 <= 2 \/ n <= 4 BY <1>1, <2>8, <4>1
          <5>2. m + 1 \in 0 .. 3 /\ m + 1 < n BY <1>1, <1>5, <3>2, <4>1, <5>1
          <5>3. Getp(q, m + 1) = Numbers[k + 1] BY <1>2, <1>5, <5>1, <5>2
          <5> QED BY <3>2, <5>3 DEF Skip, Takes, n
        <4> QED BY <4>1
      <3>5. Look(q, m, r) = [r EXCEPT !.next = m + skip] BY <2>5, <2>7
      <3> HIDE DEF skip
      <3>7. ASSUME NEW i \in 1 .. n, i > k, i <= 4 PROVE Reached(k, i) <=> i <= m + skip
        <4>1. ASSUME NEW c \in Colour, c <= k, c + Takes(c) > i PROVE c = k
          <5>1. ~(c <= m) BY <2>4, <3>7, <4>1 DEF Reached
          <5> QED BY <1>5, <1>6, <4>1, <5>1
        <4>2. Reached(k, i) <=> k + Takes(k) > i BY <1>5, <3>1, <4>1 DEF Reached
        <4> QED BY <1>5, <3>4, <3>6, <3>7, <4>2
      <3>8. Judged(r.on, k, old) BY <1>9, <3>1
      <3>9. /\ [r EXCEPT !.next = m + skip] \in [on : BOOLEAN, next : Int]
            /\ [r EXCEPT !.next = m + skip].next = m + skip
            /\ [r EXCEPT !.next = m + skip].on = r.on
        BY <1>4, <3>6
      <3>10. m + skip >= k BY <1>5, <3>6
      <3> QED BY <3>5, <3>7, <3>8, <3>9, <3>10 DEF After, MaxParam, k, n
    <2>6. CASE Numbers[k] \notin {38, 48}
      <3> DEFINE y == Look(q, m, r)
      <3>1. k \notin Colour BY <1>3, <1>12, <2>6
      <3>2. /\ y \in [on : BOOLEAN, next : Int] /\ y.next = k
            /\ y.on = IF Numbers[k] \in {0, 7, 27} THEN Numbers[k] = 7 ELSE r.on
        <4>1. CASE Numbers[k] \in {0, 27}
          <5>1. y = [on |-> FALSE, next |-> m + 1] BY <2>7, <4>1
          <5> HIDE DEF y
          <5>2. y \in [on : BOOLEAN, next : Int] /\ y.next = k /\ y.on = FALSE BY <1>5, <5>1
          <5>3. (Numbers[k] = 7) = FALSE /\ Numbers[k] \in {0, 7, 27} BY <4>1
          <5>4. (IF Numbers[k] \in {0, 7, 27} THEN Numbers[k] = 7 ELSE r.on) = FALSE BY <5>3, Zenon
          <5> QED BY <5>2, <5>4, Zenon
        <4>2. CASE Numbers[k] = 7
          <5>1. y = [on |-> TRUE, next |-> m + 1] BY <2>7, <4>2
          <5> HIDE DEF y
          <5>2. y \in [on : BOOLEAN, next : Int] /\ y.next = k /\ y.on = TRUE BY <1>5, <5>1
          <5>3. (Numbers[k] = 7) = TRUE /\ Numbers[k] \in {0, 7, 27} BY <4>2
          <5>4. (IF Numbers[k] \in {0, 7, 27} THEN Numbers[k] = 7 ELSE r.on) = TRUE BY <5>3, Zenon
          <5> QED BY <5>2, <5>4, Zenon
        <4>3. CASE Numbers[k] \notin {0, 7, 27}
          <5>0. Numbers[k] # 7 /\ Numbers[k] \notin {0, 27} BY <4>3
          <5>1. y = [r EXCEPT !.next = m + 1] BY <2>6, <2>7, <5>0, Zenon
          <5> HIDE DEF y
          <5> QED BY <1>4, <1>5, <4>3, <5>1
        <4> QED BY <4>1, <4>2, <4>3
      <3> HIDE DEF y
      <3>3. \A i \in 1 .. n : i > k /\ i <= 4 => (Reached(k, i) <=> i <= y.next)
        BY <1>5, <1>10, <2>4, <3>1, <3>2
      <3>4. Judged(y.on, k, old)
        <4>1. CASE Numbers[k] \in {0, 7, 27}
          <5>1. k \in Attributes BY <1>3, <1>12, <2>3, <4>1
          <5>2. y.on = (Numbers[k] = 7) BY <3>2, <4>1
          <5> QED BY <1>5, <5>1, <5>2 DEF Judged
        <4>2. CASE Numbers[k] \notin {0, 7, 27}
          <5>1. k \notin Attributes /\ y.on = r.on BY <1>3, <1>12, <3>2, <4>2
          <5> QED BY <1>9, <5>1
        <4> QED BY <4>1, <4>2
      <3>5. y.next >= k BY <1>5, <3>2
      <3> QED BY <3>2, <3>3, <3>4, <3>5 DEF After, MaxParam, k, n, y
    <2> QED BY <2>5, <2>6
  <1> QED BY <1>1, <1>4, <1>5, <1>11, <1>12

\* Of the numbers of a sequence those that belong to a colour are passed over, and the
\* last of the others that says so decides.
LEMMA SgrReads ==
  ASSUME NEW q \in Parsers, Reads(q, Numbers), WellFormed
  PROVE  Sgr(q) = IF Attributes = {} THEN q.inverse
                  ELSE Numbers[CHOOSE k \in Attributes : \A j \in Attributes : j <= k] = 7
  <1> DEFINE n == Len(Numbers)
             start == [on |-> q.inverse, next |-> 0]
             r1 == Look(q, 0, start)
             r2 == Look(q, 1, r1)
             r3 == Look(q, 2, r2)
             r4 == Look(q, 3, r3)
  <1>1. Numbers \in Seq(Nat) /\ n \in Nat /\ n >= 1 /\ DOMAIN Numbers = 1 .. n BY DEF Reads, Counted
  <1>2. Small(Numbers) /\ Skipping /\ Fits
    BY <1>1 DEF WellFormed, Small, Skipping
  <1>3. Attributes \subseteq 1 .. n /\ Colour \subseteq 1 .. n BY ColourIs, AttributesAre DEF Reads
  <1>4. After(start, 0, q.inverse)
    <2>1. start \in [on : BOOLEAN, next : Int] BY DEF Parsers
    <2>2. \A k \in 1 .. n : ~Reached(0, k) /\ ~(k <= 0) BY <1>3 DEF Reached
    <2>3. Judged(start.on, 0, q.inverse) BY <1>3 DEF Judged
    <2> QED BY <2>1, <2>2, <2>3 DEF After
  <1> HIDE DEF start
  <1>5. After(r1, 1, q.inverse) BY <1>2, <1>4, PassReads
  <1> HIDE DEF r1
  <1>6. After(r2, 2, q.inverse) BY <1>2, <1>5, PassReads
  <1> HIDE DEF r2
  <1>7. After(r3, 3, q.inverse) BY <1>2, <1>6, PassReads
  <1> HIDE DEF r3
  <1>8. After(r4, 4, q.inverse) BY <1>2, <1>7, PassReads
  <1>9. Sgr(q) = r4.on BY DEF Sgr, start, r1, r2, r3
  <1> HIDE DEF r4
  <1>10. Judged(Sgr(q), 4, q.inverse) BY <1>8, <1>9 DEF After
  <1>11. ASSUME NEW a \in Attributes PROVE a \in Int /\ a <= 4
    <2>1. a \in 1 .. n BY <1>3
    <2>2. ASSUME a > 4 PROVE FALSE
      <3>1. PICK c \in Colour : c < 4 /\ c + Takes(c) > n BY <1>1, <1>2, <2>1, <2>2 DEF Fits, MaxParam
      <3>2. Uncovered(a) BY <2>1, AttributesAre DEF Reads
      <3>3. c \in 1 .. n /\ Takes(c) \in {3, 5} BY <1>3 DEF Takes
      <3>4. c < a BY <2>1, <2>2, <3>1, <3>3
      <3>5. c + Takes(c) <= a BY <3>2, <3>4 DEF Uncovered
      <3> QED BY <1>1, <2>1, <3>1, <3>3, <3>5
    <2> QED BY <2>1, <2>2
  <1>12. CASE Attributes = {} BY <1>10, <1>12 DEF Judged
  <1>13. CASE Attributes # {}
    <2>1. PICK a \in Attributes : Sgr(q) = (Numbers[a] = 7) /\ \A j \in Attributes : j <= a
      BY <1>10, <1>11, <1>13 DEF Judged
    <2>2. \A b \in Attributes : (\A j \in Attributes : j <= b) => b = a BY <1>11, <2>1
    <2>3. (CHOOSE k \in Attributes : \A j \in Attributes : j <= k) = a BY <2>1, <2>2
    <2> QED BY <1>13, <2>1, <2>3
  <1> QED BY <1>12, <1>13

(***************************************************************************)
(* A control sequence on its way.  Beside the terminal t goes its twin,    *)
(* which passes over the shifts; until the final byte both look as they    *)
(* did when the sequence began, and t's parser holds the numbers read.     *)
(***************************************************************************)
Control(bytes) ==
  /\ Len(bytes) > 2 /\ bytes[1] = "ESC" /\ bytes[2] = "["
  /\ \A i \in 3 .. Len(bytes) : bytes[i] \in Finals <=> i = Len(bytes)
BodyOf(bytes) == SubSeq(bytes, 3, Len(bytes) - 1)
Plainly(bytes) == Range(BodyOf(bytes)) \subseteq Range(Digits) \cup {";"}
StateAt(k) == IF k = 0 THEN "normal" ELSE IF k = 1 THEN "esc" ELSE "csi"

Underway(t, t0, bytes, k) ==
  /\ Level(t, Plain(t0, bytes)[k], StateAt(k))
  /\ Alike(t.s, t0.s) /\ Plain(t0, bytes)[k].s = t0.s
  /\ k >= 2 /\ Plainly(bytes) => Reads(t.p, Tally(BodyOf(bytes))[k - 2])

Over(t, t0, bytes) ==
  /\ Looks(t.s, Plain(t0, bytes)[Len(bytes)].s)
  /\ bytes[Len(bytes)] = "m" /\ Plainly(bytes) =>
       \E q \in Parsers : /\ q.inverse = t0.s.attr /\ t.s.attr = Sgr(q)
                          /\ Reads(q, Tally(BodyOf(bytes))[Len(BodyOf(bytes))])

Follows(t, t0, bytes, k) ==
  Control(bytes) /\ t0.p.state = "normal" =>
    /\ k < Len(bytes) => Underway(t, t0, bytes, k)
    /\ k = Len(bytes) => Over(t, t0, bytes)

LEMMA BodyIs ==
  ASSUME NEW bytes \in Seq(Bytes), Len(bytes) > 2
  PROVE  /\ BodyOf(bytes) \in Seq(Bytes) /\ Len(BodyOf(bytes)) = Len(bytes) - 3
         /\ \A i \in 1 .. Len(bytes) - 3 : BodyOf(bytes)[i] = bytes[i + 2]
                                           /\ bytes[i + 2] \in Range(BodyOf(bytes))
  <1> DEFINE n == Len(bytes)
             body == BodyOf(bytes)
  <1>1. n \in Nat /\ n > 2 OBVIOUS
  <1>2. \A i \in 3 .. n - 1 : bytes[i] \in Bytes BY <1>1
  <1>3. /\ body \in Seq(Bytes) /\ Len(body) = IF 3 <= n - 1 THEN (n - 1) - 3 + 1 ELSE 0
        /\ \A i \in 1 .. (n - 1) - 3 + 1 : body[i] = bytes[3 + i - 1]
    BY <1>1, <1>2, SubSeqProperties DEF BodyOf
  <1> HIDE DEF n, body
  <1>4. Len(body) = n - 3 BY <1>1, <1>3
  <1>5. ASSUME NEW i \in 1 .. n - 3 PROVE body[i] = bytes[i + 2]
    <2>1. i \in 1 .. (n - 1) - 3 + 1 /\ 3 + i - 1 = i + 2 BY <1>1
    <2> QED BY <1>3, <2>1
  <1>6. DOMAIN body = 1 .. n - 3 BY <1>3, <1>4
  <1>7. \A i \in 1 .. n - 3 : body[i] \in Range(body) BY <1>6 DEF Range
  <1> QED BY <1>3, <1>4, <1>5, <1>7 DEF n, body

\* At its beginning.
LEMMA FollowsFirst ==
  ASSUME NEW t, Sound(t), NEW t0, Sound(t0), t.s = t0.s, t.p = t0.p, NEW bytes \in Seq(Bytes)
  PROVE  Follows(t, t0, bytes, 0)
  <1> SUFFICES ASSUME Control(bytes), t0.p.state = "normal"
               PROVE  Underway(t, t0, bytes, 0) /\ 0 # Len(bytes)
    BY DEF Follows
  <1>1. Plain(t0, bytes)[0] = t0 BY PlainIs
  <1>2. Level(t, t0, "normal") BY DEF Level, Agree
  <1>3. Alike(t.s, t0.s) BY DEF Alike, Looks
  <1> QED BY <1>1, <1>2, <1>3 DEF Underway, StateAt, Control

\* What the overlay does is not seen.
LEMMA FollowsAlike ==
  ASSUME NEW t, NEW u, Sound(u), u.p = t.p, Alike(u.s, t.s), NEW t0, NEW bytes, NEW k,
         Follows(t, t0, bytes, k)
  PROVE  Follows(u, t0, bytes, k)
  <1>1. \A v, state : Level(t, v, state) => Level(u, v, state) BY DEF Level
  <1>2. \A x : Alike(t.s, x) => Alike(u.s, x) BY DEF Alike, Looks
  <1>3. \A x : Looks(t.s, x) => Looks(u.s, x) BY DEF Alike, Looks
  <1>4. u.s.attr = t.s.attr BY DEF Alike, Looks
  <1>5. Underway(t, t0, bytes, k) => Underway(u, t0, bytes, k) BY <1>1, <1>2 DEF Underway
  <1>6. Over(t, t0, bytes) => Over(u, t0, bytes) BY <1>3, <1>4 DEF Over
  <1> QED BY <1>5, <1>6 DEF Follows

\* A byte before the last.
LEMMA FollowsByte ==
  ASSUME NEW t, NEW t0, NEW bytes \in Seq(Bytes), Control(bytes), NEW k \in Nat, k + 1 < Len(bytes),
         Underway(t, t0, bytes, k)
  PROVE  Underway(Feed(t, bytes[k + 1]), t0, bytes, k + 1)
  <1> DEFINE b == bytes[k + 1]
             n == Len(bytes)
             u == Plain(t0, bytes)[k]
  <1>1. n \in Nat /\ k + 1 \in 1 .. n /\ k + 1 < n /\ n > 2 BY DEF Control
  <1>2. b \in Bytes BY <1>1
  <1>3. (k + 1) - 1 = k OBVIOUS
  <1>4. Plain(t0, bytes)[k + 1] = Passed(u, b) BY <1>1, <1>3, PlainIs
  <1>5. Level(t, u, StateAt(k)) /\ Alike(t.s, t0.s) /\ u.s = t0.s BY DEF Underway
  <1>6. /\ k = 0 => b = "ESC"
        /\ k = 1 => b = "["
        /\ k >= 2 => b \notin Finals
    BY <1>1 DEF Control
  <1>7. \/ StateAt(k) = "normal" /\ b = "ESC" /\ StateAt(k + 1) = "esc"
        \/ StateAt(k) = "esc" /\ b = "[" /\ StateAt(k + 1) = "csi"
        \/ StateAt(k) = "csi" /\ b \notin Finals /\ StateAt(k + 1) = "csi"
    BY <1>6 DEF StateAt
  <1> HIDE DEF b, n, u
  <1>8. /\ Level(Feed(t, b), Passed(u, b), StateAt(k + 1))
        /\ Feed(t, b).s = t.s /\ Passed(u, b).s = u.s
    BY <1>2, <1>5, <1>7, ByteLevel
  <1>9. ASSUME k + 1 >= 2, Plainly(bytes)
        PROVE  Reads(Feed(t, b).p, Tally(BodyOf(bytes))[(k + 1) - 2])
    <2>0. Sound(t) /\ t.p \in Parsers /\ t.p.state = StateAt(k) BY <1>5 DEF Level, Sound
    <2>1. /\ BodyOf(bytes) \in Seq(Bytes) /\ Len(BodyOf(bytes)) = n - 3
          /\ \A i \in 1 .. n - 3 : BodyOf(bytes)[i] = bytes[i + 2] /\ bytes[i + 2] \in Range(BodyOf(bytes))
      BY <1>1, BodyIs DEF n
    <2>2. CASE k = 1
      <3>1. Feed(t, b) = Term(t.s, Opened(t.p), t.out) BY <1>6, <2>0, <2>2, BracketByte DEF StateAt
      <3>2. Feed(t, b).p = Opened(t.p) BY <3>1, TermFields
      <3>3. (k + 1) - 2 = 0 BY <2>2
      <3>4. Tally(BodyOf(bytes))[0] = <<0>> BY <2>1, TallyIs
      <3> QED BY <2>0, <3>2, <3>3, <3>4, OpenedReads
    <2>3. CASE k >= 2
      <3>1. (k + 1) - 2 = k - 1 /\ (k - 1) - 1 = k - 2 /\ (k - 1) + 2 = k + 1 /\ k - 1 \in 1 .. n - 3
        BY <1>1, <2>3
      <3>2. BodyOf(bytes)[k - 1] = b /\ b \in Range(BodyOf(bytes)) BY <2>1, <3>1 DEF b
      <3>3. Tally(BodyOf(bytes))[k - 1] = ReadOn(Tally(BodyOf(bytes))[k - 2], b)
        BY <2>1, <3>1, <3>2, TallyIs
      <3>4. b \in Range(Digits) \cup {";"} BY <1>9, <3>2 DEF Plainly
      <3>5. b \notin {"SO", "SI"} BY <3>4, DigitsAre
      <3>6. Feed(t, b) = Term(t.s, CsiParser(t.p, b), t.out)
        BY <1>2, <1>6, <2>0, <2>3, <3>5, BodyByte DEF StateAt
      <3>7. Feed(t, b).p = CsiParser(t.p, b) BY <3>6, TermFields
      <3>8. Reads(t.p, Tally(BodyOf(bytes))[k - 2]) BY <1>9, <2>3 DEF Underway
      <3>9. Reads(CsiParser(t.p, b), ReadOn(Tally(BodyOf(bytes))[k - 2], b))
        BY <2>0, <3>4, <3>8, DigitReads, SemicolonReads
      <3> QED BY <3>1, <3>3, <3>7, <3>9
    <2> QED BY <1>9, <2>2, <2>3
  <1> QED BY <1>4, <1>5, <1>8, <1>9 DEF Underway, b

\* The last byte.
LEMMA FollowsLast ==
  ASSUME NEW t, NEW t0, NEW bytes \in Seq(Bytes), Control(bytes), NEW k \in Nat, k + 1 = Len(bytes),
         Underway(t, t0, bytes, k)
  PROVE  Over(Feed(t, bytes[k + 1]), t0, bytes)
  <1> DEFINE b == bytes[k + 1]
             n == Len(bytes)
             u == Plain(t0, bytes)[k]
  <1>1. n \in Nat /\ k + 1 \in 1 .. n /\ k + 1 = n /\ n > 2 /\ k >= 2 BY DEF Control
  <1>2. b \in Finals BY <1>1 DEF Control
  <1>3. (k + 1) - 1 = k OBVIOUS
  <1>4. Plain(t0, bytes)[n] = Passed(u, b) BY <1>1, <1>3, PlainIs
  <1>5. Level(t, u, "csi") /\ Alike(t.s, t0.s) /\ u.s = t0.s BY <1>1 DEF Underway, StateAt
  <1> HIDE DEF b, n, u
  <1>6. Looks(Feed(t, b).s, Passed(u, b).s) BY <1>2, <1>5, FinalLooks
  <1>7. ASSUME b = "m", Plainly(bytes)
        PROVE  \E q \in Parsers : /\ q.inverse = t0.s.attr /\ Feed(t, b).s.attr = Sgr(q)
                                  /\ Reads(q, Tally(BodyOf(bytes))[Len(BodyOf(bytes))])
    <2>1. Sound(t) /\ t.p \in Parsers /\ t.p.state = "csi" /\ t.p.inverse = t.s.attr BY <1>5 DEF Level, Sound
    <2>2. t.s.attr = t0.s.attr BY <1>5 DEF Alike, Looks
    <2>3. Len(BodyOf(bytes)) = k - 2 BY <1>1, BodyIs DEF n
    <2>4. Reads(t.p, Tally(BodyOf(bytes))[k - 2]) BY <1>1, <1>7 DEF Underway
    <2>5. Feed(t, b).s = Dispatch(t, b).s BY <1>2, <2>1, FinalByte
    <2>6. Dispatch(t, b) = SetInverse(t, Sgr(t.p))
      <3>1. t.p.mid = "none" BY <2>4 DEF Reads
      <3> QED BY <1>7, <3>1 DEF Dispatch, Edits, Motions
    <2>7. SetInverse(t, Sgr(t.p)).s = SetAttr(t.s, Sgr(t.p)) BY <2>1 DEF SetInverse, Sound, Term
    <2>8. SetAttr(t.s, Sgr(t.p)).attr = Sgr(t.p) BY <2>1, SgrBoolean, AttrFine DEF Sound
    <2> QED BY <2>1, <2>2, <2>3, <2>4, <2>5, <2>6, <2>7, <2>8
  <1> QED BY <1>1, <1>4, <1>6, <1>7 DEF Over, b, n

LEMMA FollowsFeed ==
  ASSUME NEW t, NEW t0, NEW bytes \in Seq(Bytes), NEW k \in Nat, k < Len(bytes),
         Follows(t, t0, bytes, k)
  PROVE  Follows(Feed(t, bytes[k + 1]), t0, bytes, k + 1)
  <1> SUFFICES ASSUME Control(bytes), t0.p.state = "normal"
               PROVE  /\ k + 1 < Len(bytes) => Underway(Feed(t, bytes[k + 1]), t0, bytes, k + 1)
                      /\ k + 1 = Len(bytes) => Over(Feed(t, bytes[k + 1]), t0, bytes)
    BY DEF Follows
  <1>1. Underway(t, t0, bytes, k) BY DEF Follows
  <1> QED BY <1>1, FollowsByte, FollowsLast

(***************************************************************************)
(* The invariant.                                                          *)
(***************************************************************************)
Now == Term(Logical, p, out)
Fed == Len(input) - Len(rest)
Track ==
  /\ input \in Seq(Bytes) /\ Len(rest) <= Len(input)
  /\ \A i \in 1 .. Len(rest) : rest[i] = input[Fed + i]
  /\ Sound(begun) /\ Follows(Now, begun, input, Fed)

LEMMA NowSound == TInv => Sound(Now) /\ Now.s = Logical /\ Now.p = p
  <1> SUFFICES ASSUME TInv PROVE Sound(Now) /\ Now.s = Logical /\ Now.p = p OBVIOUS
  <1>1. s \in Screens /\ s.top < s.bot /\ page \in Page /\ p \in Parsers
        /\ p.inverse = s.attr
    BY DEF TInv, TypeOK, ScreenOK
  <1>2. Fine(Logical) /\ Logical.attr = s.attr BY <1>1 DEF Logical, Fine, ScreenOK, Screens
  <1> QED BY <1>1, <1>2, SoundTerm, TermFields DEF Now

LEMMA NowSoundNext == TInv' => Sound(Now') /\ Now'.s = Logical' /\ Now'.p = p'
  <1> SUFFICES ASSUME TInv' PROVE Sound(Now') /\ Now'.s = Logical' /\ Now'.p = p' OBVIOUS
  <1>1. s' \in Screens /\ s'.top < s'.bot /\ page' \in Page /\ p' \in Parsers
        /\ p'.inverse = s'.attr
    BY DEF TInv, TypeOK, ScreenOK
  <1>2. Fine(Logical') /\ Logical'.attr = s'.attr BY <1>1 DEF Logical, Fine, ScreenOK, Screens
  <1> QED BY <1>1, <1>2, SoundTerm, TermFields DEF Now

LEMMA TrackInit == Init => Track
  <1> SUFFICES ASSUME Init PROVE Track OBVIOUS
  <1>1. TInv BY TypeInit
  <1>2. input = <<>> /\ rest = <<>> /\ begun = Term(s, p, <<>>) BY DEF Init
  <1>3. Fine(s) /\ p \in Parsers /\ p.inverse = s.attr
    <2>1. TypeOK BY <1>1 DEF TInv
    <2>2. ~s.shown BY DEF Init, Start
    <2> QED BY <2>1, <2>2 DEF TypeOK, Fine
  <1>4. Sound(begun) BY <1>2, <1>3, SoundTerm
  <1>5. ~Control(input) BY <1>2 DEF Control
  <1> QED BY <1>2, <1>4, <1>5 DEF Track, Follows, Fed

LEMMA SendTracks == TInv /\ TInv' /\ Track /\ Send => Track'
  <1> SUFFICES ASSUME TInv, TInv', Send PROVE Track' OBVIOUS
  <1>1. /\ rest' = input' /\ begun' = Term(Logical, p, <<>>) /\ UNCHANGED <<s, p, out, page>>
        /\ \E i \in Inputs[session] : input' = i
    BY DEF Send
  <1>2. input' \in Seq(Bytes) BY <1>1, InputTypes DEF TInv, TypeOK
  <1>3. Sound(Now') /\ Now'.s = Logical' /\ Now'.p = p' BY NowSoundNext
  <1>4. Logical' = Logical BY <1>1 DEF Logical
  <1>5. Sound(Now) BY NowSound
  <1>6. Fine(Logical) /\ p \in Parsers /\ p.inverse = Logical.attr BY <1>5, NowSound DEF Sound
  <1>7. Sound(begun') /\ begun'.s = Logical /\ begun'.p = p BY <1>1, <1>6, SoundTerm, TermFields
  <1>8. Follows(Now', begun', input', 0) BY <1>1, <1>2, <1>3, <1>4, <1>7, FollowsFirst
  <1>9. Fed' = 0 BY <1>1, <1>2 DEF Fed
  <1>10. \A i \in 1 .. Len(rest)' : rest'[i] = input'[Fed' + i] BY <1>1, <1>2, <1>9
  <1> QED BY <1>1, <1>2, <1>7, <1>8, <1>9, <1>10 DEF Track

\* The overlay's stores change nothing else of the screen.
Overlays(x) ==
  /\ x.col = s.col /\ x.row = s.row /\ x.top = s.top /\ x.bot = s.bot /\ x.attr = s.attr
  /\ x.area = s.area /\ x.area_col = s.area_col /\ x.area_row = s.area_row

LEMMA StoreTracks ==
  ASSUME TInv, TInv', Track, NEW step, NEW x, Store(step, x), Overlays(x)
  PROVE  Track'
  <1>1. s' = x /\ UNCHANGED <<p, out, rest, page, input, begun>> BY DEF Store
  <1>2. Sound(Now') /\ Now'.s = Logical' /\ Now'.p = p' BY NowSoundNext
  <1>3. Sound(Now) /\ Now.s = Logical /\ Now.p = p BY NowSound
  <1>4. s \in Screens /\ s' \in Screens BY DEF TInv, TypeOK, ScreenOK
  <1>5. Alike(Logical', Logical)
    BY <1>1, <1>4 DEF Logical, Alike, Looks, Overlays, Screens
  <1>6. Follows(Now, begun, input, Fed) BY DEF Track
  <1>7. Follows(Now', begun, input, Fed) BY <1>1, <1>2, <1>3, <1>5, <1>6, FollowsAlike
  <1>8. Fed' = Fed BY <1>1 DEF Fed
  <1> QED BY <1>1, <1>7, <1>8 DEF Track

LEMMA FeedTracks == TInv /\ TInv' /\ Track /\ FeedByte => Track'
  <1> SUFFICES ASSUME TInv, TInv', Track, FeedByte PROVE Track' OBVIOUS
  <1> DEFINE b == Head(rest)
             t == Term(s, p, out)
             n == Len(input)
             m == Len(rest)
             k == n - m
  <1>1. pc = "feed" /\ rest # <<>> /\ rest \in Seq(Bytes) BY DEF FeedByte, TInv, TypeOK
  <1>2. Logical = s /\ Fine(s) BY <1>1, LogicalIsScreen
  <1>3. /\ s' = Feed(t, b).s /\ p' = Feed(t, b).p /\ out' = Feed(t, b).out
        /\ page' = Feed(t, b).s.cell /\ rest' = Tail(rest) /\ UNCHANGED <<input, begun>>
    BY <1>2 DEF FeedByte
  <1>4. Sound(t) /\ Now = t BY <1>2, NowSound DEF Now
  <1>5. b \in Bytes /\ m \in Nat /\ m >= 1 /\ b = rest[1] BY <1>1
  <1>6. /\ input \in Seq(Bytes) /\ n \in Nat /\ m <= n /\ Fed = k
        /\ \A i \in 1 .. m : rest[i] = input[k + i]
        /\ Sound(begun) /\ Follows(t, begun, input, k)
    BY <1>4 DEF Track, Fed
  <1>7. /\ Len(rest') = m - 1 /\ \A i \in 1 .. m - 1 : rest'[i] = rest[i + 1]
    BY <1>1, <1>3
  <1> HIDE DEF b, t, n, m
  <1>8. k \in Nat /\ k < n BY <1>5, <1>6
  <1>9. b = input[k + 1] BY <1>5, <1>6
  <1>10. Sound(Feed(t, b)) BY <1>4, <1>5, FeedKept
  <1>11. Now' = Feed(t, b)
    <2>1. s' \in Screens /\ ~s'.shown /\ page' = s'.cell BY <1>3, <1>10 DEF Sound, Fine, ScreenOK
    <2>2. Logical' = s' BY <2>1 DEF Logical, Screens
    <2> QED BY <1>3, <1>10, <2>2 DEF Now, Sound
  <1>12. Fed' = k + 1
    <2>1. Len(input') = n BY <1>3 DEF n
    <2> QED BY <1>5, <1>6, <1>7, <2>1 DEF Fed
  <1>13. Follows(Feed(t, b), begun, input, k + 1) BY <1>6, <1>8, <1>9, FollowsFeed DEF n
  <1>14. ASSUME NEW i \in 1 .. m - 1 PROVE rest'[i] = input[(k + 1) + i]
    <2>1. i + 1 \in 1 .. m /\ k + (i + 1) = (k + 1) + i BY <1>5, <1>6
    <2> QED BY <1>6, <1>7, <2>1
  <1>15. m - 1 <= n BY <1>5, <1>6
  <1> HIDE DEF k
  <1> QED BY <1>3, <1>6, <1>7, <1>11, <1>12, <1>13, <1>14, <1>15 DEF Track, n

LEMMA OverlayStores ==
  ASSUME TInv
  PROVE  /\ Overlays(s) /\ Overlays(KeepUnder(s)) /\ Overlays(Mark(s)) /\ Overlays(Invert(s))
         /\ Overlays(Uninvert(s)) /\ Overlays(Unmark(s))
  <1>1. s \in Screens BY DEF TInv, TypeOK, ScreenOK
  <1> QED BY <1>1 DEF Overlays, KeepUnder, Mark, Invert, Uninvert, Unmark, CellPut, Screens

LEMMA NextTracks == TInv /\ Track /\ [Next]_vars => Track'
  <1> SUFFICES ASSUME TInv, Track, [Next]_vars PROVE Track' OBVIOUS
  <1>1. TInv' BY NextKeeps
  <1>2. CASE Send BY <1>1, <1>2, SendTracks
  <1>3. CASE FeedByte BY <1>1, <1>3, FeedTracks
  <1>4. CASE PaintSaves \/ PaintMarks \/ PaintInverts \/ ByteReady \/ EraseRestores \/ EraseUnmarks
    BY <1>1, <1>4, OverlayStores, StoreTracks
       DEF PaintSaves, PaintMarks, PaintInverts, ByteReady, EraseRestores, EraseUnmarks
  <1>5. CASE UNCHANGED vars
    BY <1>5 DEF vars, Track, Now, Fed, Logical
  <1> QED BY <1>2, <1>3, <1>4, <1>5 DEF Next, Loop

\* What a control sequence says is what it does: a locking shift inside it leaves what it
\* does to the screen and the attribute alone, and of the numbers of an SGR sequence of
\* whole colours those that belong to a colour are passed over, as long as the parser's four
\* slots, or a colour begun in the first three, hold them all.
THEOREM SequencesUnderstoodCorrect == Spec => []SequencesUnderstood
  <1>1. TInv /\ Track => SequencesUnderstood
    <2> SUFFICES ASSUME TInv, Track, Done PROVE SequencesUnderstood
      BY DEF SequencesUnderstood, ShiftsTransparent, ColoursNeverMisread
    <2>1. Control(input) /\ begun.p.state = "normal" /\ rest = <<>> /\ input \in Seq(Bytes)
      BY DEF Done, ControlSequence, Control, Track
    <2>2. Fed = Len(input) BY <2>1 DEF Fed
    <2>3. Over(Now, begun, input) BY <2>1, <2>2 DEF Track, Follows
    <2>4. Now.s = Logical BY NowSound
    <2>5. /\ Logical.cell = page /\ Logical.col = s.col /\ Logical.row = s.row
          /\ Logical.top = s.top /\ Logical.bot = s.bot /\ Logical.attr = s.attr
      BY DEF Logical, TInv, TypeOK, ScreenOK, Screens
    <2>6. Unshifted(begun, input) = Plain(begun, input)[Len(input)] BY <2>1, PlainIs
    <2>7. ShiftsTransparent
      <3>1. Looks(Logical, Unshifted(begun, input).s) BY <2>3, <2>4, <2>6 DEF Over
      <3> QED BY <2>5, <3>1 DEF ShiftsTransparent, Looks
    <2>8. ASSUME Last(input) = "m", WellFormed
          PROVE  s.attr = IF Attributes = {} THEN begun.s.attr
                          ELSE Numbers[CHOOSE k \in Attributes : \A j \in Attributes : j <= k] = 7
      <3>1. Plainly(input) /\ BodyOf(input) = Body BY <2>8 DEF WellFormed, Plainly, BodyOf, Body
      <3>2. input[Len(input)] = "m" BY <2>8 DEF Last
      <3>3. Numbers = Tally(BodyOf(input))[Len(BodyOf(input))] BY <3>1, NumbersAre
      <3>4. PICK q \in Parsers : /\ q.inverse = begun.s.attr /\ Now.s.attr = Sgr(q)
                                 /\ Reads(q, Numbers)
        BY <2>3, <3>1, <3>2, <3>3 DEF Over
      <3> QED BY <2>4, <2>5, <2>8, <3>4, SgrReads
    <2> QED BY <2>7, <2>8 DEF SequencesUnderstood, ColoursNeverMisread
  <1>2. Init => TInv /\ Track BY TypeInit, TrackInit
  <1>3. TInv /\ Track /\ [Next]_vars => TInv' /\ Track' BY NextKeeps, NextTracks
  <1> QED BY <1>1, <1>2, <1>3, PTL DEF Spec
================================================================================
