------------------------------ MODULE MCConformance ------------------------------
(***************************************************************************)
(* A program of the harness from its start: the corpus is loaded from a    *)
(* small directory, each record with at most one mistake, and if it loads  *)
(* the program runs on cases of every kind.  What a case expects and what  *)
(* a record looks like do not depend on each other, so the cases that run  *)
(* are not those of the directory.                                         *)
(***************************************************************************)
EXTENDS Harness, TLC

Case(id, cat, st, ba, ex) ==
  [id |-> id, category |-> cat, status |-> st, basis |-> ba, expect |-> ex, shaped |-> TRUE]
Screen(g, i, c, r, s) ==
  [glyphs |-> g, inverse |-> i, cursor |-> c, reports |-> r, state |-> s]

Expects ==
  { <<>>, "rows" :> "A", "absent" :> "B", "cursor" :> "c1", "attr" :> "1", "state" :> "s1",
    "report" :> <<"da">>, "report" :> <<"cpr">>, "report_absent" :> "da",
    "cursor" :> "c1" @@ "report" :> <<"cpr">>, "has" :> "A" @@ "attr" :> "1" }
\* a record whose expectation has the wrong shape
Malformed == [Case("any", "sgr", "supported", "spec", "rows" :> "A") EXCEPT !.shaped = FALSE]

FewCases ==
  { Case("any", "sgr", "supported", "spec", "rows" :> "A"), Malformed,
    Case("any", "reports", "supported", "tolerance", "report" :> <<"da">>),
    Case("any", "sgr", "partial", "unobservable", "state" :> "s1"),
    Case("cur-vt100-nel", "cursor-motion", "supported", "spec", "cursor" :> "c1") }
AllCases ==
  FewCases \cup {Case("any", "alt-screen", "supported", "spec", "rows" :> "A")} \cup
  {Case("any", "sgr", st, ba, ex) : st \in {"supported", "partial"}, ba \in Bases, ex \in Expects}

FewFw  == {Screen("A", "1", "c1", <<"da", "cpr">>, "s1"), Screen("B", "0", "c2", <<"cpr">>, "s1")}
AllFw ==
  {Screen(g, i, c, r, s) :
     g \in {"A", "B"}, i \in {"0", "1"}, c \in {None, "c1", "c2"},
     r \in {<<>>, <<"cpr">>, <<"da">>, <<"da", "cpr">>, <<"cpr", "cpr">>}, s \in {None, "s1"}}
FewRef == {Screen("A", "0", "c1", <<>>, None), Screen("B", "1", "c2", <<>>, None)}
AllRef == {Screen(g, i, c, <<>>, None) : g \in {"A", "B"}, i \in {"0", "1"}, c \in {"c1", "c2"}}

--------------------------------------------------------------------------------
Good(id) == [kind |-> "object", id |-> id, category |-> 3 - id, status |-> "supported", basis |-> "spec",
             missing |-> FALSE, input |-> "fine", expect |-> "report" :> "fine" @@ "attr" :> "inverse"]
MCRecords ==
  { Good(1), Good(2), Good(0),
    [Good(1) EXCEPT !.missing = TRUE],
    [Good(2) EXCEPT !.status = "suported"],
    [Good(2) EXCEPT !.input = "badescape"],
    [Good(2) EXCEPT !.expect = "attr" :> "bold"],
    [Good(2) EXCEPT !.expect = "raport" :> "fine"],
    [Good(2) EXCEPT !.expect = "report_absent" :> "badescape"],
    [Good(2) EXCEPT !.kind = "other"],
    [Good(2) EXCEPT !.category = -1],
    [Good(2) EXCEPT !.input = "misshapen"],
    [Good(2) EXCEPT !.expect = "report" :> "misshapen"],
    [Good(2) EXCEPT !.expect = "attr" :> "misshapen"],
    [Good(2) EXCEPT !.expect = "attr" :> "mistyped"],
    [Good(2) EXCEPT !.expect = "rows" :> "misshapen"] }

\* which program it is matters once the corpus is there
MCInit == Ld!Init /\ mode = None /\ strict = FALSE /\ seen = <<>> /\ results = <<>> /\ exit = "running"

Load == mode = None /\ Ld!Next /\ UNCHANGED vars

Start ==
  /\ mode = None /\ pc = "loaded"
  /\ mode' \in Modes /\ strict' \in BOOLEAN
  /\ files' = <<>> /\ loaded' = <<>> /\ ids' = {} /\ at' = 0 /\ rec' = 0 /\ errors' = {} /\ pc' = "run"
  /\ UNCHANGED <<seen, results, exit>>

\* one case of any kind, or several of a few
Few(s) == s.case \in FewCases /\ s.fw \in FewFw \cup {Raises} /\ s.ref \in FewRef
First  == seen = <<>> /\ \E c \in Cases, fw \in FwScreens \cup {Raises}, ref \in RefScreens : RunOne(c, fw, ref)
Later  == /\ seen # <<>> /\ \A s \in Range(seen) : Few(s)
          /\ \E c \in FewCases, fw \in FewFw \cup {Raises}, ref \in FewRef : RunOne(c, fw, ref)
Run    == mode # None /\ (First \/ Later \/ Other) /\ UNCHANGED loader

MCSpec == MCInit /\ [][Load \/ Start \/ Run]_<<vars, loader>>
================================================================================
