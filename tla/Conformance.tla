------------------------------- MODULE Conformance -------------------------------
(***************************************************************************)
(* What a conformance run concludes: the runner's verdict on a case, the   *)
(* audit of the corpus against the reference terminal (pyte) and the       *)
(* differential of the firmware against it, their summaries and exit       *)
(* codes.  How the firmware's screen is obtained is MameTarget.            *)
(*                                                                         *)
(* A plane of a screen is one value, an expectation the value wanted; the  *)
(* wire is a sequence of reports.  A case is run on any screen the         *)
(* firmware and the reference could show, or the target raises.            *)
(***************************************************************************)
EXTENDS Integers, Sequences, SequencesExt, Functions, FiniteSets

CONSTANTS
  Cases,          \* corpus records: id, category, status, basis, expect, shaped
  FwScreens,      \* screens the firmware target may return
  RefScreens,     \* screens the reference may return
  MaxCases        \* cases in a run

Channels == {"glyphs", "inverse", "cursor", "reports", "state"}
Keys     == {"cursor", "rows", "cells", "has", "absent", "attr", "state", "report", "report_absent"}
Statuses == {"supported", "partial", "unsupported"}
Bases    == {"spec", "profile", "tolerance", "degenerate", "unobservable"}
Modes    == {"runner", "audit", "differential"}
Raises   == [raises |-> TRUE]
None     == "none"

ASSUME SizeAssumption == MaxCases \in Nat \ {0}
\* the records of a loaded corpus; a cursor that is expected is a position
ASSUME CaseAssumption ==
  \A c \in Cases :
    /\ DOMAIN c = {"id", "category", "status", "basis", "expect", "shaped"}
    /\ c.status \in Statuses /\ c.basis \in Bases /\ c.shaped \in BOOLEAN
    /\ DOMAIN c.expect \subseteq Keys
    /\ "cursor" \in DOMAIN c.expect => c.expect["cursor"] # None
\* both targets return both planes; the reference a cursor, but neither reports nor state
ASSUME ScreenAssumption == \A s \in FwScreens \cup RefScreens : None \notin {s.glyphs, s.inverse}
ASSUME RefAssumption ==
  \A r \in RefScreens : r.cursor # None /\ r.reports = <<>> /\ r.state = None

VARIABLES
  mode, strict,   \* the program and its --strict option
  seen,           \* history: the cases run and what each side showed
  results,        \* a row per case
  exit            \* how the program ended

vars == <<mode, strict, seen, results, exit>>

--------------------------------------------------------------------------------
(***************************************************************************)
(* Checking an expectation.                                                *)
(***************************************************************************)
Capability ==
  [k \in Keys |-> CASE k = "cursor" -> "cursor"
                    [] k = "attr"   -> "inverse"
                    [] k = "state"  -> "state"
                    [] k \in {"report", "report_absent"} -> "reports"
                    [] OTHER        -> "glyphs"]

\* MameTarget (and FakeTarget by default) see everything, PyteTarget only the screen
FullCaps == Channels
PyteCaps == {"glyphs", "inverse", "cursor"}

CheckableExpect(expect, caps) ==
  Restrict(expect, {k \in DOMAIN expect : Capability[k] \in caps})

EndsInCpr(s) == s # <<>> /\ Last(s) = "cpr"

\* exactly the reply, or with one position report behind a reply that is none
ReportOk(want, got) ==
  \/ got = want
  \/ ~EndsInCpr(want) /\ EndsInCpr(got) /\ Front(got) = want

Meets(key, want, screen) ==
  CASE key = "cursor" -> screen.cursor = want
    [] key \in {"rows", "cells", "has"} -> screen.glyphs = want
    [] key = "absent" -> screen.glyphs # want
    [] key = "attr"   -> screen.inverse = want
    [] key = "state"  -> screen.state = want
    [] key = "report" -> ReportOk(want, screen.reports)
    [] key = "report_absent" -> ~\E i \in DOMAIN screen.reports : screen.reports[i] = want

\* the expectations a screen fails
Check(screen, expect) == {k \in DOMAIN expect : ~Meets(k, expect[k], screen)}

Classify(status, fails, checked) ==
  CASE checked = {} -> "SKIP"
    [] checked # {} /\ status = "supported" -> IF fails = {} THEN "PASS" ELSE "REGRESSION"
    [] OTHER -> IF fails = {} THEN "UNEXPECTED_PASS" ELSE "XFAIL"

--------------------------------------------------------------------------------
(***************************************************************************)
(* A case in each of the three programs.                                   *)
(***************************************************************************)
Row(c, outcome) == [status |-> c.status, basis |-> c.basis, outcome |-> outcome]

\* run_case
RunCase(c, fw) ==
  LET expect == CheckableExpect(c.expect, FullCaps)
  IN  Row(c, IF c.basis = "unobservable" THEN "SKIP"
             ELSE IF fw = Raises THEN "ERROR"
             ELSE Classify(c.status, Check(fw, expect), DOMAIN expect))

QuirkCategories == {"alt-screen", "charset-linedraw", "dcs-strings"}
QuirkIds == { "cur-vt100-nel", "esc-nel-next-line", "cur-vt100-hpa", "cur-hpa-clamps-right",
              "cur-hpa-default-column-one", "cur-desc-decrc-csi-s-u", "cur-vt100-save-restore",
              "scroll-su-pan-unsupported", "scroll-sd-pan-unsupported",
              "report-da3-tertiary-consumed" }
\* where the reference itself is wrong
Quirk(c) == c.category \in QuirkCategories \/ c.id \in QuirkIds

ClassifyAudit(basis, agrees) ==
  CASE basis = "profile" -> IF agrees THEN "profile-coincides" ELSE "profile-divergence"
    [] basis = "tolerance" -> IF agrees THEN "tolerance-ok" ELSE "tolerance-divergence"
    [] basis = "degenerate" -> IF agrees THEN "degenerate-ok" ELSE "degenerate-divergence"
    [] OTHER -> IF agrees THEN "spec-confirmed" ELSE "spec-suspect"

\* run_audit, one case
AuditCase(c, ref) ==
  LET expect == CheckableExpect(c.expect, PyteCaps)
  IN  Row(c, IF c.basis = "unobservable" THEN "skip-unobservable"
             ELSE IF Quirk(c) THEN "pyte-quirk"
             ELSE IF DOMAIN expect = {} THEN "skip-unobservable"
             ELSE ClassifyAudit(c.basis, Check(ref, expect) = {}))

\* Deviation: the inverse planes are not compared.
GlyphDiffScreens(fw, ref) ==
  {ch \in {"glyphs", "cursor"} : fw[ch] # ref[ch] /\ None \notin {fw[ch], ref[ch]}}

\* the planes both screens carry and on which they differ
DiffScreens(fw, ref) ==
  {ch \in {"glyphs", "inverse", "cursor"} : fw[ch] # ref[ch] /\ None \notin {fw[ch], ref[ch]}}

\* run_differential_case
DifferentialCase(c, fw, ref) ==
  LET expect == CheckableExpect(c.expect, PyteCaps)
  IN  Row(c, IF c.basis = "unobservable" \/ Quirk(c) \/ DOMAIN expect = {} THEN "SKIP"
             ELSE IF fw = Raises THEN "ERROR"
             ELSE Classify(c.status, DiffScreens(fw, ref), DOMAIN expect))

--------------------------------------------------------------------------------
(***************************************************************************)
(* Summaries.                                                              *)
(***************************************************************************)
\* how many rows at these places have one of the outcomes
CountOf(rows, places, outcomes) == Cardinality({i \in places : rows[i].outcome \in outcomes})

\* conf: the places of the rows a percentage is taken over
Scored(rows) ==
  {i \in DOMAIN rows : rows[i].outcome # "SKIP" /\ rows[i].basis # "unobservable"}

\* Deviation: only what the corpus claims counts as compatible.
PassOnly == {"PASS"}

\* the right behaviour, whatever the corpus claims
Compatible == {"PASS", "UNEXPECTED_PASS"}

\* summarize: passes and totals of each figure
Summarize(rows) ==
  LET conf    == Scored(rows)
      spec    == {i \in conf : rows[i].basis = "spec"}
      profile == {i \in conf : rows[i].basis \in {"spec", "profile"}}
      support == {i \in conf : rows[i].status = "supported"}
  IN  [ behavioral   |-> <<CountOf(rows, conf, Compatible), Cardinality(conf)>>,
        spec         |-> <<CountOf(rows, spec, {"PASS"}), Cardinality(spec)>>,
        profile      |-> <<CountOf(rows, profile, {"PASS"}), Cardinality(profile)>>,
        completeness |-> <<Cardinality(support), Cardinality(conf)>>,
        correctness  |-> <<CountOf(rows, support, {"PASS"}), Cardinality(support)>> ]

\* summarize_audit
SummarizeAudit(rows) ==
  LET spec == {i \in DOMAIN rows : rows[i].basis = "spec"}
  IN  [ checked      |-> CountOf(rows, DOMAIN rows, {"spec-confirmed", "spec-suspect"}),
        total        |-> Cardinality(spec),
        quirked      |-> CountOf(rows, spec, {"pyte-quirk"}),
        unobservable |-> CountOf(rows, spec, {"skip-unobservable"}) ]

--------------------------------------------------------------------------------
(***************************************************************************)
(* The programs.                                                           *)
(***************************************************************************)
Init ==
  /\ mode \in Modes /\ strict \in BOOLEAN
  /\ seen = <<>> /\ results = <<>> /\ exit = "running"

\* the firmware target cannot be opened: differential reports it, the runner raises
OpenFails ==
  /\ exit = "running" /\ seen = <<>> /\ mode # "audit"
  /\ exit' = IF mode = "runner" THEN "crashed" ELSE "fail"
  /\ UNCHANGED <<mode, strict, seen, results>>

\* load_corpus and -k leave nothing
NoCases ==
  /\ exit = "running" /\ seen = <<>>
  /\ exit' = "usage"
  /\ UNCHANGED <<mode, strict, seen, results>>

RowOf(c, fw, ref) ==
  CASE mode = "runner"       -> RunCase(c, fw)
    [] mode = "audit"        -> AuditCase(c, ref)
    [] mode = "differential" -> DifferentialCase(c, fw, ref)

\* An expectation of the wrong shape passes the loader and raises in check, outside
\* the try; the differential never reads it.
CheckRaises(c, fw) ==
  /\ ~c.shaped /\ c.basis # "unobservable"
  /\ \/ mode = "runner" /\ fw # Raises
     \/ mode = "audit" /\ ~Quirk(c)

RunOne(c, fw, ref) ==
  /\ exit = "running" /\ Len(results) < MaxCases
  /\ seen' = Append(seen, [case |-> c, fw |-> fw, ref |-> ref])
  /\ IF CheckRaises(c, fw)
     THEN exit' = "crashed" /\ UNCHANGED results
     ELSE results' = Append(results, RowOf(c, fw, ref)) /\ UNCHANGED exit
  /\ UNCHANGED <<mode, strict>>

\* Deviation: only a regression fails the run.
LaxFailing(rows) ==
  \/ CountOf(rows, DOMAIN rows, {"REGRESSION"}) > 0
  \/ strict /\ CountOf(rows, DOMAIN rows, {"UNEXPECTED_PASS", "spec-suspect"}) > 0

\* the outcomes that make the exit code 1
Failing(rows) ==
  \/ CountOf(rows, DOMAIN rows, {"REGRESSION", "ERROR"}) > 0
  \/ strict /\ CountOf(rows, DOMAIN rows, {"UNEXPECTED_PASS", "spec-suspect"}) > 0

Finish ==
  /\ exit = "running" /\ results # <<>>
  /\ exit' = IF Failing(results) THEN "fail" ELSE "ok"
  /\ UNCHANGED <<mode, strict, seen, results>>

Stop == exit # "running" /\ UNCHANGED vars
Other == OpenFails \/ NoCases \/ Finish \/ Stop
Next  ==
  \/ Other
  \/ \E c \in Cases, fw \in FwScreens \cup {Raises}, ref \in RefScreens : RunOne(c, fw, ref)
Spec  == Init /\ [][Next]_vars

--------------------------------------------------------------------------------
(***************************************************************************)
(* Properties.                                                             *)
(***************************************************************************)
\* A run that exits with success rendered every supported case it could observe and
\* the screens meet all that is expected of them; the differential's agree with the
\* reference on every plane.
SuccessMeansConformance ==
  exit = "ok" => \A s \in Range(seen) :
    s.case.status = "supported" /\ s.case.basis # "unobservable" =>
      /\ mode = "runner" => s.fw # Raises /\ Check(s.fw, s.case.expect) = {}
      /\ mode = "differential" /\ ~Quirk(s.case)
           /\ DOMAIN s.case.expect \intersect {"cursor", "rows", "absent", "attr"} # {} =>
           s.fw # Raises /\ s.fw.glyphs = s.ref.glyphs /\ s.fw.inverse = s.ref.inverse

\* The behavioural figure depends on what was seen only: it is the same whatever
\* status the corpus claims for each case.
RelabelInvariant ==
  mode # "audit" => \A i \in DOMAIN results, st \in Statuses :
    LET s == seen[i]
        relabelled == [results EXCEPT ![i] = RowOf([s.case EXCEPT !.status = st], s.fw, s.ref)]
    IN  exit # "crashed" => Summarize(relabelled).behavioral = Summarize(results).behavioral

\* The three comparisons fit together: where the firmware meets the corpus and the
\* reference does not, the differential shows the difference between the two.
DisagreementShows ==
  \A s \in Range(seen) :
    /\ s.case.shaped /\ s.fw # Raises
    /\ RunCase(s.case, s.fw).outcome = "PASS"
    /\ AuditCase(s.case, s.ref).outcome \in
         {"spec-suspect", "profile-divergence", "tolerance-divergence", "degenerate-divergence"}
    => DifferentialCase(s.case, s.fw, s.ref).outcome = "REGRESSION"

\* Every row of a run is in one place of its summary, and each figure is a part of
\* its total.
AllAccounted ==
  IF mode = "audit"
  THEN LET s == SummarizeAudit(results) IN s.checked + s.quirked + s.unobservable = s.total
  ELSE /\ Summarize(results).behavioral[2] + CountOf(results, DOMAIN results, {"SKIP"}) = Len(results)
       /\ \A f \in DOMAIN Summarize(results) :
            Summarize(results)[f][1] <= Summarize(results)[f][2]

\* The figures a run publishes mean what they say: they hang on what was seen, not
\* on what the corpus claims, and no row is lost or counted twice.
FiguresSound == RelabelInvariant /\ AllAccounted

================================================================================
