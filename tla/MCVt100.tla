---------------------------------- MODULE MCVt100 ----------------------------------
(***************************************************************************)
(* A terminal of three rows and four columns, and what is sent to it in    *)
(* sessions of three kinds.                                                *)
(***************************************************************************)
EXTENDS Vt100

MCChars == Range(Digits) \cup Intermediates \cup
  {"a", "A", "|", "q", "B", "C", "D", "E", "H", "J", "K", "L", "M", "P", "X", "[", ";", "?", ">",
   "c", "h", "l", "m", "n", "p", "r", "s", "u", "]", "@", "Q", "HPA", "J", "f", "G", "d", "F"}
MCUpper == [ch \in MCChars |-> CASE ch = "a" -> "A" [] ch = "q" -> "Q" [] OTHER -> ch]

Csi_(body) == <<"ESC", "[">> \o body
Priv(mode, f) == Csi_(<<"?">> \o mode \o <<f>>)
Alt(f) == Priv(<<"1", "0", "4", "9">>, f)
MCMemory == {BlankPage}

\* text, scrolling, regions and editing
EditInputs ==
  { <<"a", "A">>, <<"CR", "LF">>, <<"BS">>, <<"ESC", "M">>, <<"ESC", "E">>,
    Csi_(<<"2", ";", "3", "r">>) \o Csi_(<<"3", ";", "4", "H">>),
    Csi_(<<"1", ";", "2", "r">>), Csi_(<<"2", ";", "2", "r">>),
    Csi_(<<"3", ";", "4", "H">>), Csi_(<<"L">>), Csi_(<<"2", "M">>), Csi_(<<"@">>), Csi_(<<"P">>),
    Csi_(<<"1", "J">>), Csi_(<<"2", "J">>), Csi_(<<"K">>), Csi_(<<"2", "X">>), Csi_(<<"7", "m">>),
    Csi_(<<"2", "B">>) \o Csi_(<<"C">>), Csi_(<<"E">>) \o Csi_(<<"D">>), Csi_(<<"F">>) \o <<"HT">>,
    Csi_(<<"4", "HPA">>) \o Csi_(<<"A">>), Csi_(<<"3", "d">>) \o Csi_(<<"2", "G">>) }

\* screens, modes, cursors and shifts
ModeInputs ==
  { <<"a", "CR", "LF">>, <<"q">>, Alt("h"), Alt("l"), Priv(<<"2", "5">>, "l"), Priv(<<"2", "5">>, "h"),
    <<"ESC", "c">>, Csi_(<<"!", "p">>), Csi_(<<"7", "m">>), Csi_(<<"s">>), Csi_(<<"u">>),
    Csi_(<<"2", "B">>), <<"ESC", "(", "0">>, <<"ESC", ")", "0">>, <<"SO">>,
    Csi_(<<"2", "SO", "J">>), <<"ESC", "]", "0", ";", "a", "BEL">>, Csi_(<<"6", "n">>) }

Join(fields) == FlattenSeq([i \in DOMAIN fields |-> (IF i = 1 THEN <<>> ELSE <<";">>) \o fields[i]])
Attrs == {<<"0">>, <<"7">>, <<"3", "8">>, <<"5">>, <<"2">>}
Lead(n) == UNION {[1 .. i -> {<<"0">>, <<"7">>, <<>>}] : i \in 0 .. n}
TrueColours == {<<<<"3", "8">>, <<"2">>, r, <<"7">>, b>> : r \in {<<"7">>, <<"4", "8">>}, b \in {<<>>, <<"7">>}}
ColourInputs ==
  \* up to four numbers
  UNION {{Csi_(Join(f) \o <<"m">>) : f \in [1 .. n -> Attrs]} : n \in 1 .. 4}
  \* whole colours, behind up to two attributes
  \cup {Csi_(Join(f \o c) \o <<"m">>) : f \in Lead(2), c \in TrueColours}
  \cup {Csi_(Join(f \o <<<<"4", "8">>, <<"5">>, <<"7">>>>) \o <<"m">>) : f \in Lead(2)}
  \* attributes with a shift among them
  \cup {Csi_(Join(f) \o <<shift, "m">>) : f \in Lead(2), shift \in {"SO", "SI"}}
  \cup {Csi_(<<shift>> \o Join(f) \o <<"m">>) : f \in Lead(2), shift \in {"SO", "SI"}}

MCSessions  == {"editing", "modes", "colours"}
MCInputs    == [k \in MCSessions |-> CASE k = "editing" -> EditInputs [] k = "modes" -> ModeInputs
                                       [] k = "colours" -> ColourInputs]
MCMaxInputs == [k \in MCSessions |-> IF k = "colours" THEN 1 ELSE 3]
================================================================================
