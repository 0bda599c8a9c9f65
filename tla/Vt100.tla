----------------------------------- MODULE Vt100 -----------------------------------
(***************************************************************************)
(* The terminal: the parser of vt100.c on the screen of screen80.c, in the *)
(* main loop of term.c, which takes the cursor off the screen before every *)
(* byte and puts it back when nothing comes.                               *)
(*                                                                         *)
(* A byte is a character or the name of a control.  The host sends up to   *)
(* MaxInputs inputs, whole sequences of bytes; the loop may find the next  *)
(* byte late at any point.                                                 *)
(***************************************************************************)
EXTENDS Screen80, Sequences, SequencesExt

CONSTANTS
  Sessions,    \* kinds of sessions
  Inputs,      \* for each kind, the sequences of bytes the host may send
  MaxInputs,   \* and how many of them it sends
  Memory       \* what the save area may hold at power-up

Controls == {"ESC", "BEL", "BS", "HT", "LF", "CR", "ENQ", "SO", "SI"}
Bytes == Controls \cup Chars
ASSUME InputAssumption ==
  /\ MaxInputs \in [Sessions -> Nat \ {0}] /\ Memory \subseteq Page /\ Memory # {}
  /\ {"-", "|", "+"} \subseteq Chars /\ Controls \cap Chars = {}
  /\ \A k \in Sessions : \A i \in Inputs[k] : i \in Seq(Bytes)

VARIABLES
  session,     \* the kind of this session
  pc,          \* the main loop: "loop", then the stores of painting or erasing, and "feed"
  s,           \* the screen
  p,           \* the parser
  out,         \* replies, in order
  rest, count, \* bytes of the input still to come, inputs sent
  page,        \* history: the screen without any overlay
  input, begun, \* history: the last input, and the terminal when it began
  primary      \* history: the screen and cursor the alternate one was entered from, how often since

vars == <<session, pc, s, p, out, rest, count, page, input, begun, primary>>

Word == 65536
MaxParam == 4
Digits == <<"0", "1", "2", "3", "4", "5", "6", "7", "8", "9">>
Number(d) == (CHOOSE i \in DOMAIN Digits : Digits[i] = d) - 1
Intermediates == {" ", "!", "dquote", "#", "$", "%", "&", "'", "(", ")", "*", "+", ",", "-", ".", "/"}
Markers == {">", "="}
Finals == Chars \ (Range(Digits) \cup Intermediates \cup Markers \cup {":", ";", "<", "?"})
Graphics == [ch \in Chars |->
  CASE ch = "q" -> "-" [] ch = "x" -> "|"
    [] ch \in {"j", "k", "l", "m", "n", "t", "u", "v", "w"} -> "+" [] OTHER -> ch]

Idle == [state |-> "normal", param |-> [i \in 0 .. MaxParam - 1 |-> 0], nparam |-> 0, priv |-> FALSE,
         gt |-> "none", mid |-> "none", app |-> FALSE, inverse |-> FALSE,
         to_g0 |-> TRUE, g0 |-> FALSE, g1 |-> FALSE, g1_active |-> FALSE,
         col |-> 0, row |-> 0]

Parsers ==
  [state : {"normal", "esc", "charset", "csi", "str", "str_esc"},
   param : [0 .. MaxParam - 1 -> 0 .. Word - 1], nparam : 0 .. MaxParam - 1, priv : BOOLEAN,
   gt : Markers \cup {"none"}, mid : Intermediates \cup {"none", "many"}, app : BOOLEAN,
   inverse : BOOLEAN, to_g0 : BOOLEAN, g0 : BOOLEAN, g1 : BOOLEAN, g1_active : BOOLEAN,
   col : Col, row : Row]

\* the part of a terminal a byte can change
Term(scr, parser, replies) == [s |-> scr, p |-> parser, out |-> replies]
OnScreen(t, scr) == [t EXCEPT !.s = scr]
Say(t, reply) == [t EXCEPT !.out = Append(@, reply)]

--------------------------------------------------------------------------------
(***************************************************************************)
(* csi_dispatch.                                                           *)
(***************************************************************************)
Getp(q, i) == IF i <= q.nparam THEN q.param[i] ELSE 0
Or1(n) == IF n = 0 THEN 1 ELSE n
Narrow(n) == n % Byte

\* Deviation: a colour by its index skips one argument.
SkipShort(q, k) == IF Getp(q, k + 1) = 2 THEN 5 ELSE 2

\* what a colour selector and its arguments take
Skip(q, k) ==
  CASE Getp(q, k + 1) = 2 -> 5 [] Getp(q, k + 1) = 5 -> 3 [] OTHER -> 2

\* one pass of the loop over the parameters: the attribute, and the next one looked at
Look(q, k, r) ==
  LET n == Getp(q, k)
  IN  IF k # r.next \/ k > q.nparam THEN r
      ELSE CASE n \in {38, 48} -> [r EXCEPT !.next = k + Skip(q, k)]
             [] n \in {0, 27}  -> [on |-> FALSE, next |-> k + 1]
             [] n = 7          -> [on |-> TRUE, next |-> k + 1]
             [] OTHER          -> [r EXCEPT !.next = k + 1]

\* the MaxParam passes
Sgr(q) ==
  LET start == [on |-> q.inverse, next |-> 0]
  IN  Look(q, 3, Look(q, 2, Look(q, 1, Look(q, 0, start)))).on

SetInverse(t, on) == [t EXCEPT !.p.inverse = on, !.s = SetAttr(@, on)]

\* DECSTR and RIS
Reset(t) ==
  [t EXCEPT !.p.app = FALSE, !.p.inverse = FALSE, !.p.g0 = FALSE, !.p.g1 = FALSE,
            !.p.g1_active = FALSE,
            !.s = SetRegion(SetCursorVisible(SetAttr(@, FALSE), TRUE), 0, Rows - 1)]

\* Deviation: the screen is cleared before it is saved.
ClearThenSave(scr) == SaveScreen(ClearAll(scr))

\* the screen is saved, then cleared
EnterAlternate(scr) == ClearAll(SaveScreen(scr))

Alternates == {47, 1047, 1049}
PrivateMode(q) == IF q.priv THEN Getp(q, 0) ELSE 0
SetMode(t, on) ==
  LET mode == PrivateMode(t.p)
  IN  CASE mode = 1 -> [t EXCEPT !.p.app = on]
        [] mode = 25 -> OnScreen(t, SetCursorVisible(t.s, on))
        [] mode \in Alternates ->
             SetInverse(OnScreen(t, IF on THEN EnterAlternate(t.s) ELSE RestoreScreen(t.s)), FALSE)
        [] OTHER -> t

\* the cursor stays
EraseInPlace(scr) == Gotoxy(ClearAll(scr), scr.col, scr.row)

Motion(scr, f, n, rr, cc) ==
  CASE f = "A" -> Gotoxy(scr, scr.col, AtLeast(scr.row - n, 0))
    [] f = "B" -> Gotoxy(scr, scr.col, Lower((scr.row + n) % Word, Rows - 1))
    [] f = "C" -> Gotoxy(scr, Lower((scr.col + n) % Word, Cols - 1), scr.row)
    [] f = "D" -> Gotoxy(scr, AtLeast(scr.col - n, 0), scr.row)
    [] f \in {"H", "f"} -> Gotoxy(scr, Narrow(cc - 1), Narrow(rr - 1))
    [] f \in {"G", "HPA"} -> Gotoxy(scr, Lower(n, Cols) - 1, scr.row)
    [] f = "d" -> Gotoxy(scr, scr.col, Lower(n, Rows) - 1)
    [] f = "E" -> Gotoxy(scr, 0, Lower((scr.row + n) % Word, Rows - 1))
    [] f = "F" -> Gotoxy(scr, 0, AtLeast(scr.row - n, 0))

Edit(scr, f, ps, n) ==
  CASE f = "J" /\ ps = 1 -> ClearBop(scr)
    [] f = "J" /\ ps = 2 -> EraseInPlace(scr)
    [] f = "J" /\ ps \notin {1, 2} -> ClearEop(scr)
    [] f = "K" /\ ps = 1 -> ClearBol(scr)
    [] f = "K" /\ ps = 2 -> ClearLine(scr)
    [] f = "K" /\ ps \notin {1, 2} -> ClearEol(scr)
    [] f = "L" -> InsertLines(scr, Narrow(n))
    [] f = "M" -> DeleteLines(scr, Narrow(n))
    [] f = "@" -> InsertChars(scr, Narrow(n))
    [] f = "P" -> DeleteChars(scr, Narrow(n))
    [] f = "X" -> EraseChars(scr, Narrow(n))

Motions == {"A", "B", "C", "D", "H", "f", "G", "HPA", "d", "E", "F"}
Edits   == {"J", "K", "L", "M", "@", "P", "X"}

Dispatch(t, f) ==
  LET q  == t.p
      ps == Getp(q, 0)
  IN  IF q.mid # "none" THEN IF q.mid = "!" /\ f = "p" THEN Reset(t) ELSE t
      ELSE CASE f \in Motions -> OnScreen(t, Motion(t.s, f, Or1(ps), Or1(ps), Or1(Getp(q, 1))))
             [] f \in Edits   -> OnScreen(t, Edit(t.s, f, ps, Or1(ps)))
             [] f = "n" /\ ps = 6 -> Say(t, <<"cpr", t.s.row + 1, t.s.col + 1>>)
             [] f = "n" /\ ps = 5 -> Say(t, <<"ready">>)
             [] f = "c" /\ q.gt = ">" -> Say(t, <<"da2">>)
             [] f = "c" /\ q.gt = "none" -> Say(t, <<"da1">>)
             [] f = "s" -> [t EXCEPT !.p.col = t.s.col, !.p.row = t.s.row]
             [] f = "u" -> OnScreen(t, Gotoxy(t.s, q.col, q.row))
             [] f \in {"h", "l"} -> SetMode(t, f = "h")
             [] f = "m" -> SetInverse(t, Sgr(q))
             [] f = "r" /\ ~q.priv ->
                  LET bot == IF Getp(q, 1) = 0 THEN Rows ELSE Getp(q, 1)
                  IN  OnScreen(t, SetRegion(t.s, Narrow(Or1(ps) - 1), Narrow(bot - 1)))
             [] OTHER -> t

--------------------------------------------------------------------------------
(***************************************************************************)
(* vt100_feed.                                                             *)
(***************************************************************************)
Go(t, state) == [t EXCEPT !.p.state = state]

Normal(t, b) ==
  CASE b = "ESC" -> Go(t, "esc")
    [] b = "CR"  -> OnScreen(t, Cr(t.s))
    [] b = "LF"  -> OnScreen(t, Lf(t.s))
    [] b = "BS"  -> OnScreen(t, Bs(t.s))
    [] b = "HT"  -> OnScreen(t, Gotoxy(t.s, Lower((t.s.col \div 8) * 8 + 8, Cols - 1), t.s.row))
    [] b = "ENQ" -> Say(t, <<"answerback">>)
    [] b \in Chars ->
         OnScreen(t, Put(t.s, IF (IF t.p.g1_active THEN t.p.g1 ELSE t.p.g0) THEN Graphics[b] ELSE b))
    [] OTHER -> t

Escape(t, b) ==
  CASE b = "[" -> [t EXCEPT !.p.state = "csi", !.p.param = Idle.param, !.p.nparam = 0,
                            !.p.priv = FALSE, !.p.gt = "none", !.p.mid = "none"]
    [] b \in {"(", ")"} -> [t EXCEPT !.p.state = "charset", !.p.to_g0 = (b = "(")]
    [] b \in {"]", "P", "^", "_"} -> Go(t, "str")
    [] b = "D" -> Go(OnScreen(t, Lf(t.s)), "normal")
    [] b = "M" -> Go(OnScreen(t, Ri(t.s)), "normal")
    [] b = "E" -> Go(OnScreen(t, Lf(Cr(t.s))), "normal")
    [] b = "c" -> LET r == Reset(t)
                  IN  [r EXCEPT !.p.state = "normal", !.p.col = 0, !.p.row = 0, !.s = ClearAll(@)]
    [] OTHER -> Go(t, "normal")

Charset(t, b) ==
  LET on == CASE b = "0" -> TRUE [] b = "B" -> FALSE
              [] OTHER -> IF t.p.to_g0 THEN t.p.g0 ELSE t.p.g1
  IN  Go(IF t.p.to_g0 THEN [t EXCEPT !.p.g0 = on] ELSE [t EXCEPT !.p.g1 = on], "normal")

\* sixteen bits
Accumulate(n, d) == (n * 10 + Number(d)) % Word

Csi(t, b) ==
  CASE b \in Range(Digits) -> [t EXCEPT !.p.param[t.p.nparam] = Accumulate(@, b)]
    [] b = ";" -> [t EXCEPT !.p.nparam = Lower(@ + 1, MaxParam - 1)]
    [] b = "?" -> [t EXCEPT !.p.priv = TRUE]
    [] b \in Markers -> [t EXCEPT !.p.gt = b]
    [] b \in Intermediates -> [t EXCEPT !.p.mid = IF @ = "none" THEN b ELSE "many"]
    [] b \in Finals -> Go(Dispatch(t, b), "normal")
    [] OTHER -> t

String(t, b) == IF b = "BEL" THEN Go(t, "normal") ELSE IF b = "ESC" THEN Go(t, "str_esc") ELSE t

\* a locking shift takes effect inside a sequence, which goes on
Shift(t, b) == [t EXCEPT !.p.g1_active = (b = "SO")]

Feed(t, b) ==
  IF b \in {"SO", "SI"} /\ t.p.state \notin {"str", "str_esc"} THEN Shift(t, b)
  ELSE CASE t.p.state = "normal"  -> Normal(t, b)
         [] t.p.state = "esc"     -> Escape(t, b)
         [] t.p.state = "charset" -> Charset(t, b)
         [] t.p.state = "csi"     -> Csi(t, b)
         [] t.p.state = "str"     -> String(t, b)
         [] t.p.state = "str_esc" -> Go(t, "normal")

--------------------------------------------------------------------------------
(***************************************************************************)
(* The main loop of term.c.                                                *)
(***************************************************************************)
Logical == [s EXCEPT !.cell = page, !.shown = FALSE]

Init ==
  /\ session \in Sessions
  /\ pc = "loop" /\ p = Idle /\ out = <<>> /\ rest = <<>> /\ count = 0
  /\ \E memory \in Memory : s = Start(memory)
  /\ page = BlankPage /\ input = <<>> /\ begun = Term(s, p, <<>>)
  /\ primary = [page |-> BlankPage, col |-> 0, row |-> 0, depth |-> 0]

\* the host sends
Send ==
  /\ rest = <<>> /\ count < MaxInputs[session] /\ count' = count + 1
  /\ \E i \in Inputs[session] : rest' = i /\ input' = i
  /\ begun' = Term(Logical, p, <<>>)
  /\ UNCHANGED <<session, pc, s, p, out, page, primary>>

Store(step, screen) ==
  s' = screen /\ pc' = step /\ UNCHANGED <<session, p, out, rest, count, page, input, begun, primary>>

\* scr_cursor_paint, when the loop has been idle for long
PaintSaves == pc = "loop" /\ s.visible /\ ~s.shown /\ Store("mark", KeepUnder(s))
\* Deviation: the cell is inverted before the flag is set.
PaintMarks_Late == pc = "mark" /\ Store("invert", Invert(s))

PaintMarks == pc = "mark" /\ Store("invert", Mark(s))
PaintInverts == pc = "invert" /\ Store("loop", Invert(s))

\* serial_rx_ready, then scr_cursor_erase
ByteReady == pc = "loop" /\ rest # <<>> /\ Store(IF s.shown THEN "restore" ELSE "feed", s)
EraseRestores == pc = "restore" /\ Store("unmark", Uninvert(s))
EraseUnmarks == pc = "unmark" /\ Store("feed", Unmark(s))

\* the byte switches between the screens
Switches(b) ==
  p.state = "csi" /\ b \in {"h", "l"} /\ p.mid = "none" /\ PrivateMode(p) \in Alternates

FeedByte ==
  /\ pc = "feed" /\ pc' = "loop"
  /\ LET b == Head(rest)
         t == Feed(Term(s, p, out), b)
     IN  /\ s' = t.s /\ p' = t.p /\ out' = t.out /\ rest' = Tail(rest)
         /\ page' = Feed(Term(Logical, p, out), b).s.cell
         /\ primary' = IF ~Switches(b) THEN primary
                       ELSE IF b = "l" THEN [primary EXCEPT !.depth = 0]
                       ELSE IF primary.depth > 0 THEN [primary EXCEPT !.depth = 2]
                       ELSE [page |-> page, col |-> s.col, row |-> s.row, depth |-> 1]
  /\ UNCHANGED <<session, count, input, begun>>

Loop == PaintSaves \/ PaintMarks \/ PaintInverts \/ ByteReady \/ EraseRestores \/ EraseUnmarks \/ FeedByte
Next == Loop \/ Send
Spec == Init /\ [][Next]_vars /\ WF_vars(Loop)

--------------------------------------------------------------------------------
(***************************************************************************)
(* Properties.                                                             *)
(***************************************************************************)
\* Every variable stays within its type; the cursor never leaves the screen and the
\* scroll region keeps at least two rows.
TypeOK ==
  /\ session \in Sessions /\ count \in 0 .. MaxInputs[session]
  /\ pc \in {"loop", "mark", "invert", "restore", "unmark", "feed"} /\ rest \in Seq(Bytes)
  /\ ScreenOK(s) /\ page \in Page /\ p \in Parsers /\ p.inverse = s.attr
  /\ pc = "feed" => rest # <<>>

\* "A snapshot taken mid-update is always self-consistent": between any two stores a
\* reader that strips the overlay sees the screen as if there had never been one, and
\* every byte is rendered on a screen without it.
LogicalSnapshot == Stripped(s) = page /\ (pc = "feed" => ~s.shown)

\* When the host falls silent the cursor appears where it is, unless it is hidden.
Silent == rest = <<>> /\ count = MaxInputs[session]
CursorReturns ==
  Silent ~> (~s.visible \/ (s.shown /\ s.at_col = s.col /\ s.at_row = s.row))

\* Scrolling, wherever it comes from, moves only rows of the region; of the others at
\* most the cursor's changes.
Scrolls ==
  pc = "feed" /\ CASE p.state = "normal" -> TRUE
                   [] p.state = "esc" -> Head(rest) # "c"
                   [] p.state = "csi" -> Head(rest) \in {"L", "M"}
                   [] OTHER -> FALSE
OnlyRegionScrolls ==
  [][Scrolls => \A r \in Row \ (s.top .. s.bot \cup {s.row}) : page'[r] = page[r]]_vars

\* A program that enters the alternate screen once and leaves it finds the screen
\* behind it and the cursor on it as they were.
Leaves == pc = "feed" /\ Switches(Head(rest)) /\ Head(rest) = "l"
PrimaryBack == page' = primary.page /\ s'.col = primary.col /\ s'.row = primary.row
AlternateRestores == [][Leaves /\ primary.depth = 1 => PrimaryBack]_vars

\* The input is one control sequence and has been processed whole.
ControlSequence ==
  /\ Len(input) > 2 /\ input[1] = "ESC" /\ input[2] = "["
  /\ \A i \in 3 .. Len(input) : input[i] \in Finals <=> i = Len(input)
Done == ControlSequence /\ begun.p.state = "normal" /\ rest = <<>> /\ pc = "loop"

\* what would have come of bytes without the shifts among them
Unshifted(t, bytes) ==
  LET run[i \in 0 .. Len(bytes)] ==
        IF i = 0 THEN t
        ELSE IF bytes[i] \in {"SO", "SI"} THEN run[i - 1] ELSE Feed(run[i - 1], bytes[i])
  IN  run[Len(bytes)]

\* A locking shift inside a control sequence leaves what that does to the screen and to
\* the attribute alone.
ShiftsTransparent ==
  Done => LET plain == Unshifted(begun, input).s
          IN  /\ page = plain.cell /\ s.attr = plain.attr
              /\ <<s.col, s.row, s.top, s.bot>> = <<plain.col, plain.row, plain.top, plain.bot>>

\* the numbers of a control sequence, read off its bytes
Body == SubSeq(input, 3, Len(input) - 1)
Numbers ==
  LET read[i \in 0 .. Len(Body)] ==
        IF i = 0 THEN <<0>>
        ELSE IF Body[i] = ";" THEN Append(read[i - 1], 0)
        ELSE [read[i - 1] EXCEPT ![Len(read[i - 1])] = @ * 10 + Number(Body[i])]
  IN  read[Len(Body)]

\* a colour starts at number k: 38 or 48, not itself an argument of an earlier colour
Takes(k) == IF k < Len(Numbers) /\ Numbers[k + 1] = 2 THEN 5 ELSE 3
Colour == LET starts[k \in DOMAIN Numbers] ==
                Numbers[k] \in {38, 48} /\ \A j \in 1 .. k - 1 : starts[j] => j + Takes(j) <= k
          IN  {k \in DOMAIN Numbers : starts[k]}

\* The parser keeps four numbers; from the fifth on all belong to a colour that starts
\* among the first three, as in 38;2;R;G;B.
Fits ==
  \/ Len(Numbers) <= MaxParam
  \/ \E k \in Colour : k < MaxParam /\ k + Takes(k) > Len(Numbers)
WellFormed ==
  /\ Range(Body) \subseteq Range(Digits) \cup {";"}
  /\ Fits /\ \A k \in DOMAIN Numbers : Numbers[k] < Word
  /\ \A k \in Colour : k < Len(Numbers) /\ Numbers[k + 1] \in {2, 5}

\* Of the numbers of an SGR sequence those that belong to a colour are passed over, and
\* the last of the others that says so decides: inverse on for 7, off for 0 and 27.
Attributes ==
  {k \in DOMAIN Numbers :
     Numbers[k] \in {0, 7, 27} /\ \A j \in Colour : k < j \/ j + Takes(j) <= k}
ColoursNeverMisread ==
  Done /\ Last(input) = "m" /\ WellFormed =>
    s.attr = IF Attributes = {} THEN begun.s.attr
             ELSE Numbers[CHOOSE k \in Attributes : \A j \in Attributes : j <= k] = 7

\* What a sequence says is what it does: shifts inside it and the arguments of its
\* colours are told from the rest.
SequencesUnderstood == ShiftsTransparent /\ ColoursNeverMisread

================================================================================
