------------------------------ MODULE MCMameTarget ------------------------------
(***************************************************************************)
(* Inputs for the model of a conformance run; windows of six bytes.        *)
(***************************************************************************)
EXTENDS MameTarget

\* nothing; glyphs over two windows; an answer that is no position; the position
\* asked for at the end
WholeInputs ==
  { <<>>, <<"x", "x", "x", "x", "x", "x", "x">>, <<"esc", "[", "c", "x">>,
    <<"x", "esc", "[", "n">> }
\* ends inside a control sequence, inside a string; a query ending a string
OpenInputs == { <<"x", "esc", "[">>, <<"x", "esc", "]">>, <<"esc", "]", "esc", "[", "n">> }
\* a sequence over a window boundary
CutInputs  == { <<"x", "x", "x", "x", "esc", "[", "m">> }

\* two reports, the position before the end
EarlyInputs == { <<"esc", "[", "c", "esc", "[", "n">> }

CaseInputs  == WholeInputs \cup OpenInputs \cup CutInputs \cup EarlyInputs
================================================================================
