--------------------------- MODULE Conformance_proofs ---------------------------
(***************************************************************************)
(* What a run of the three programs concludes, for any corpus, any screens *)
(* the targets return and any number of cases: success means conformance,  *)
(* the comparisons fit together, and the figures account for every row.    *)
(* Then, of the emulated target a run looks at, that it does not look at a *)
(* stale screen and that a case is judged on what its own bytes do; and of *)
(* the corpus it runs, that it was loaded whole.                           *)
(***************************************************************************)
EXTENDS Harness, MameTarget, FiniteSetTheorems, SequenceTheorems, WellFoundedInduction, TLAPS

Fw  == FwScreens \cup {Raises}
Run == [case : Cases, fw : Fw, ref : RefScreens]

Rows ==
  {RunCase(s.case, s.fw) : s \in Run} \cup {AuditCase(s.case, s.ref) : s \in Run}
    \cup {DifferentialCase(s.case, s.fw, s.ref) : s \in Run}

\* A row per case, and it is the row of what the two sides showed; only a case that
\* raised in check has none.
RowsInv ==
  /\ mode \in Modes /\ seen \in Seq(Run) /\ results \in Seq(Rows) /\ Len(results) <= Len(seen)
  /\ exit # "crashed" => Len(results) = Len(seen)
  /\ \A i \in DOMAIN results : results[i] = RowOf(seen[i].case, seen[i].fw, seen[i].ref)

\* Success is what the rows say.
ExitInv == exit = "ok" => ~Failing(results)

CInv == RowsInv /\ ExitInv

--------------------------------------------------------------------------------
(***************************************************************************)
(* One row.                                                                *)
(***************************************************************************)
\* The runner can check every expectation.
LEMMA FullExpect ==
  ASSUME NEW c \in Cases
  PROVE  /\ DOMAIN CheckableExpect(c.expect, FullCaps) = DOMAIN c.expect
         /\ \A screen : Check(screen, CheckableExpect(c.expect, FullCaps)) = Check(screen, c.expect)
  <1> DEFINE e == CheckableExpect(c.expect, FullCaps)
  <1>1. \A k \in Keys : Capability[k] \in FullCaps
    BY DEF Capability, Keys, FullCaps, Channels
  <1>2. DOMAIN c.expect \subseteq Keys BY CaseAssumption
  <1>3. DOMAIN e = DOMAIN c.expect /\ \A k \in DOMAIN c.expect : e[k] = c.expect[k]
    BY <1>1, <1>2 DEF CheckableExpect, Restrict
  <1> QED BY <1>3 DEF Check

\* What the reference can be asked for.
LEMMA PyteExpect ==
  ASSUME NEW c \in Cases
  PROVE  LET e == CheckableExpect(c.expect, PyteCaps)
         IN  /\ DOMAIN e = DOMAIN c.expect \ {"state", "report", "report_absent"}
             /\ \A k \in DOMAIN e : e[k] = c.expect[k]
  <1>1. \A k \in Keys : Capability[k] \in PyteCaps <=> k \notin {"state", "report", "report_absent"}
    BY DEF Capability, Keys, PyteCaps
  <1>2. DOMAIN c.expect \subseteq Keys BY CaseAssumption
  <1> QED BY <1>1, <1>2 DEF CheckableExpect, Restrict

\* A supported case that is neither skipped nor a failure meets all of its expectations.
LEMMA SupportedPasses ==
  ASSUME NEW fails, NEW checked, Classify("supported", fails, checked) \notin {"REGRESSION", "SKIP"}
  PROVE  fails = {} /\ checked # {}
  BY DEF Classify

\* A claim changes neither whether a row is skipped nor whether it is compatible.
LEMMA ClaimLabels ==
  ASSUME NEW s \in Statuses, NEW t \in Statuses, NEW fails, NEW checked
  PROVE  /\ Classify(s, fails, checked) = "SKIP" <=> Classify(t, fails, checked) = "SKIP"
         /\ Classify(s, fails, checked) \in Compatible <=> Classify(t, fails, checked) \in Compatible
         /\ Classify(s, fails, checked) # "ERROR" /\ Classify(t, fails, checked) # "ERROR"
  BY DEF Classify, Compatible

\* A supported case that does not fail a run was rendered, and its screen meets all of
\* its expectations.
LEMMA RunnerSound ==
  ASSUME NEW c \in Cases, NEW fw, c.status = "supported", c.basis # "unobservable",
         RunCase(c, fw).outcome \notin {"REGRESSION", "ERROR"}
  PROVE  fw # Raises /\ Check(fw, c.expect) = {}
  <1> DEFINE e == CheckableExpect(c.expect, FullCaps)
  <1>1. DOMAIN e = DOMAIN c.expect /\ Check(fw, e) = Check(fw, c.expect) BY FullExpect
  <1>2. fw # Raises BY DEF RunCase, Row
  <1>3. RunCase(c, fw).outcome = Classify("supported", Check(fw, e), DOMAIN e)
    BY <1>2 DEF RunCase, Row
  <1>4. CASE Classify("supported", Check(fw, e), DOMAIN e) = "SKIP"
    <2>1. DOMAIN e = {} BY <1>4 DEF Classify
    <2> QED BY <1>1, <1>2, <2>1 DEF Check
  <1>5. CASE Classify("supported", Check(fw, e), DOMAIN e) # "SKIP"
    <2>1. Check(fw, e) = {} BY <1>3, <1>5, SupportedPasses
    <2> QED BY <1>1, <1>2, <2>1
  <1> QED BY <1>4, <1>5

LEMMA DifferentialSound ==
  ASSUME NEW c \in Cases, NEW fw \in Fw, NEW ref \in RefScreens,
         c.status = "supported", c.basis # "unobservable", ~Quirk(c),
         DOMAIN c.expect \intersect {"cursor", "rows", "absent", "attr"} # {},
         DifferentialCase(c, fw, ref).outcome \notin {"REGRESSION", "ERROR"}
  PROVE  fw # Raises /\ fw.glyphs = ref.glyphs /\ fw.inverse = ref.inverse
  <1> DEFINE e == CheckableExpect(c.expect, PyteCaps)
  <1>1. DOMAIN e # {} BY PyteExpect
  <1>2. fw # Raises BY <1>1 DEF DifferentialCase, Row
  <1>3. DifferentialCase(c, fw, ref).outcome = Classify("supported", DiffScreens(fw, ref), DOMAIN e)
    BY <1>1, <1>2 DEF DifferentialCase, Row
  <1>4. Classify("supported", DiffScreens(fw, ref), DOMAIN e) # "SKIP" BY <1>1 DEF Classify
  <1>5. DiffScreens(fw, ref) = {} BY <1>3, <1>4, SupportedPasses
  <1>6. None \notin {fw.glyphs, ref.glyphs, fw.inverse, ref.inverse}
    BY <1>2, ScreenAssumption DEF Fw
  <1> QED BY <1>2, <1>5, <1>6 DEF DiffScreens

\* An expectation the firmware meets and the reference does not is a difference
\* between the planes the two carry.
LEMMA FailureDiffers ==
  ASSUME NEW c \in Cases, NEW fw \in FwScreens, NEW ref \in RefScreens,
         NEW k \in DOMAIN c.expect, k \notin {"state", "report", "report_absent"},
         Meets(k, c.expect[k], fw), ~Meets(k, c.expect[k], ref)
  PROVE  DiffScreens(fw, ref) # {}
  <1>1. k \in Keys /\ None \notin {fw.glyphs, ref.glyphs, fw.inverse, ref.inverse} /\ ref.cursor # None
    BY CaseAssumption, ScreenAssumption, RefAssumption
  <1>2. CASE k = "cursor"
    <2>1. fw.cursor = c.expect["cursor"] /\ ref.cursor # c.expect["cursor"] BY <1>2 DEF Meets
    <2>2. fw.cursor # None BY <1>2, <2>1, CaseAssumption
    <2> QED BY <1>1, <2>1, <2>2 DEF DiffScreens
  <1>3. CASE k \in {"rows", "cells", "has", "absent"}
    <2>1. fw.glyphs # ref.glyphs BY <1>3 DEF Meets
    <2> QED BY <1>1, <2>1 DEF DiffScreens
  <1>4. CASE k = "attr"
    <2>1. fw.inverse # ref.inverse BY <1>4 DEF Meets
    <2> QED BY <1>1, <2>1 DEF DiffScreens
  <1> QED BY <1>1, <1>2, <1>3, <1>4 DEF Keys

LEMMA ComparisonsFit ==
  ASSUME NEW s \in Run, s.fw # Raises,
         RunCase(s.case, s.fw).outcome = "PASS",
         AuditCase(s.case, s.ref).outcome \in
           {"spec-suspect", "profile-divergence", "tolerance-divergence", "degenerate-divergence"}
  PROVE  DifferentialCase(s.case, s.fw, s.ref).outcome = "REGRESSION"
  <1> DEFINE c == s.case
             full == CheckableExpect(c.expect, FullCaps)
             e == CheckableExpect(c.expect, PyteCaps)
  <1>1. c \in Cases /\ s.fw \in FwScreens /\ s.ref \in RefScreens BY DEF Run, Fw
  <1>2. /\ DOMAIN e = DOMAIN c.expect \ {"state", "report", "report_absent"}
        /\ \A k \in DOMAIN e : e[k] = c.expect[k]
    BY <1>1, PyteExpect
  <1>3. c.basis # "unobservable" /\ ~Quirk(c) /\ DOMAIN e # {}
    BY DEF AuditCase, Row
  <1>4. AuditCase(c, s.ref).outcome = ClassifyAudit(c.basis, Check(s.ref, e) = {})
    BY <1>3 DEF AuditCase, Row
  <1>5. Check(s.ref, e) # {} BY <1>4 DEF ClassifyAudit
  <1>6. Classify(c.status, Check(s.fw, full), DOMAIN full) = "PASS"
    BY <1>3 DEF RunCase, Row
  <1>7. c.status = "supported" /\ Check(s.fw, c.expect) = {}
    <2>1. c.status = "supported" /\ Check(s.fw, full) = {} BY <1>6 DEF Classify
    <2> QED BY <1>1, <2>1, FullExpect
  <1>8. PICK k \in DOMAIN e : ~Meets(k, e[k], s.ref) BY <1>5 DEF Check
  <1>9. Meets(k, c.expect[k], s.fw) BY <1>2, <1>7 DEF Check
  <1>10. DiffScreens(s.fw, s.ref) # {}
    <2>1. k \in DOMAIN c.expect /\ k \notin {"state", "report", "report_absent"} /\ e[k] = c.expect[k]
      BY <1>2
    <2> HIDE DEF c, e
    <2> QED BY <1>1, <1>8, <1>9, <2>1, FailureDiffers
  <1>11. DifferentialCase(c, s.fw, s.ref).outcome
           = Classify("supported", DiffScreens(s.fw, s.ref), DOMAIN e)
    BY <1>3, <1>7 DEF DifferentialCase, Row
  <1> QED BY <1>3, <1>10, <1>11 DEF Classify

--------------------------------------------------------------------------------
(***************************************************************************)
(* The figures.                                                            *)
(***************************************************************************)
\* The status a case claims decides neither whether its row is scored nor whether it
\* counts as compatible.
LEMMA Relabelled ==
  ASSUME NEW s \in Run, NEW st \in Statuses, mode \in {"runner", "differential"}
  PROVE  LET a == RowOf(s.case, s.fw, s.ref)
             b == RowOf([s.case EXCEPT !.status = st], s.fw, s.ref)
         IN  /\ a.basis = b.basis
             /\ a.outcome = "SKIP" <=> b.outcome = "SKIP"
             /\ a.outcome \in Compatible <=> b.outcome \in Compatible
  <1> DEFINE c == s.case
             d == [c EXCEPT !.status = st]
  <1>1. c \in Cases /\ c.status \in Statuses BY CaseAssumption DEF Run
  <1>2. /\ d.status = st /\ d.basis = c.basis /\ d.expect = c.expect
        /\ d.category = c.category /\ d.id = c.id
    BY <1>1, CaseAssumption
  <1>3. Quirk(d) <=> Quirk(c) BY <1>2 DEF Quirk
  <1> HIDE DEF c, d
  <1>4. CASE mode = "runner"
    <2> DEFINE e == CheckableExpect(c.expect, FullCaps)
               f == Check(s.fw, e)
    <2>1. /\ RunCase(c, s.fw).basis = c.basis /\ RunCase(d, s.fw).basis = c.basis
          /\ RunCase(c, s.fw).outcome = IF c.basis = "unobservable" THEN "SKIP"
               ELSE IF s.fw = Raises THEN "ERROR" ELSE Classify(c.status, f, DOMAIN e)
          /\ RunCase(d, s.fw).outcome = IF c.basis = "unobservable" THEN "SKIP"
               ELSE IF s.fw = Raises THEN "ERROR" ELSE Classify(st, f, DOMAIN e)
      BY <1>2 DEF RunCase, Row
    <2>2. RowOf(c, s.fw, s.ref) = RunCase(c, s.fw) /\ RowOf(d, s.fw, s.ref) = RunCase(d, s.fw)
      BY <1>4 DEF RowOf
    <2> HIDE DEF e, f
    <2> QED BY <1>1, <2>1, <2>2, ClaimLabels DEF c, d
  <1>5. CASE mode = "differential"
    <2> DEFINE e == CheckableExpect(c.expect, PyteCaps)
               f == DiffScreens(s.fw, s.ref)
               skip == c.basis = "unobservable" \/ Quirk(c) \/ DOMAIN e = {}
    <2>1. /\ DifferentialCase(c, s.fw, s.ref).basis = c.basis
          /\ DifferentialCase(d, s.fw, s.ref).basis = c.basis
          /\ DifferentialCase(c, s.fw, s.ref).outcome = IF skip THEN "SKIP"
               ELSE IF s.fw = Raises THEN "ERROR" ELSE Classify(c.status, f, DOMAIN e)
          /\ DifferentialCase(d, s.fw, s.ref).outcome = IF skip THEN "SKIP"
               ELSE IF s.fw = Raises THEN "ERROR" ELSE Classify(st, f, DOMAIN e)
      BY <1>2, <1>3 DEF DifferentialCase, Row
    <2>2. /\ RowOf(c, s.fw, s.ref) = DifferentialCase(c, s.fw, s.ref)
          /\ RowOf(d, s.fw, s.ref) = DifferentialCase(d, s.fw, s.ref)
      BY <1>5 DEF RowOf
    <2> HIDE DEF e, f, skip
    <2> QED BY <1>1, <2>1, <2>2, ClaimLabels DEF c, d
  <1> QED BY <1>4, <1>5

LEMMA LabelsDoNotCount == CInv => RelabelInvariant
  <1> SUFFICES ASSUME CInv, mode # "audit", NEW i \in DOMAIN results, NEW st \in Statuses
               PROVE  LET s == seen[i]
                          r == [results EXCEPT ![i] = RowOf([s.case EXCEPT !.status = st], s.fw, s.ref)]
                      IN  Summarize(r).behavioral = Summarize(results).behavioral
    BY DEF RelabelInvariant
  <1> DEFINE s == seen[i]
             new == RowOf([s.case EXCEPT !.status = st], s.fw, s.ref)
             r == [results EXCEPT ![i] = new]
  <1>1. s \in Run /\ results[i] = RowOf(s.case, s.fw, s.ref) /\ mode \in {"runner", "differential"}
    BY DEF CInv, RowsInv, Modes
  <1>2. /\ results[i].basis = new.basis
        /\ results[i].outcome = "SKIP" <=> new.outcome = "SKIP"
        /\ results[i].outcome \in Compatible <=> new.outcome \in Compatible
    BY <1>1, Relabelled
  <1>3. DOMAIN r = DOMAIN results /\ r[i] = new /\ \A j \in DOMAIN results \ {i} : r[j] = results[j]
    OBVIOUS
  <1> HIDE DEF r, new, s
  <1>4. Scored(r) = Scored(results) BY <1>2, <1>3 DEF Scored
  <1>5. {j \in Scored(r) : r[j].outcome \in Compatible}
          = {j \in Scored(results) : results[j].outcome \in Compatible}
    <2>1. Scored(r) \subseteq DOMAIN r BY DEF Scored
    <2> QED BY <1>2, <1>3, <1>4, <2>1
  <1>6. CountOf(r, Scored(r), Compatible) = CountOf(results, Scored(results), Compatible)
    BY <1>5 DEF CountOf
  <1> QED BY <1>4, <1>6 DEF Summarize, r, new, s

\* A part of the rows is no more than all of them.
LEMMA PartOf ==
  ASSUME NEW rows, NEW n \in Nat, NEW places \in SUBSET (1 .. n), NEW outcomes
  PROVE  /\ IsFiniteSet(places) /\ Cardinality(places) \in Nat
         /\ CountOf(rows, places, outcomes) \in Nat
         /\ CountOf(rows, places, outcomes) <= Cardinality(places)
  <1> DEFINE part == {i \in places : rows[i].outcome \in outcomes}
  <1>1. IsFiniteSet(1 .. n) BY FS_Interval
  <1>2. IsFiniteSet(places) BY <1>1, FS_Subset
  <1>3. part \in SUBSET places OBVIOUS
  <1> HIDE DEF part
  <1>4. IsFiniteSet(part) /\ Cardinality(part) <= Cardinality(places) BY <1>2, <1>3, FS_Subset
  <1> QED BY <1>2, <1>4, FS_CardinalityType DEF CountOf, part

\* Two sets that share nothing add up.
LEMMA Disjoint ==
  ASSUME NEW A, NEW B, IsFiniteSet(A), IsFiniteSet(B), A \cap B = {}
  PROVE  IsFiniteSet(A \cup B) /\ Cardinality(A \cup B) = Cardinality(A) + Cardinality(B)
  <1>1. Cardinality(A \cap B) = 0 BY FS_EmptySet
  <1>2. IsFiniteSet(A \cup B) /\ Cardinality(A \cup B) = Cardinality(A) + Cardinality(B) - Cardinality(A \cap B)
    BY FS_Union
  <1>3. Cardinality(A) \in Nat /\ Cardinality(B) \in Nat BY FS_CardinalityType
  <1> QED BY <1>1, <1>2, <1>3

\* An unobservable case is skipped by each of the programs.
LEMMA Skipped ==
  ASSUME NEW s \in Run, mode \in Modes
  PROVE  LET r == RowOf(s.case, s.fw, s.ref)
         IN  /\ r.basis = s.case.basis /\ r.basis \in Bases
             /\ mode # "audit" /\ r.basis = "unobservable" => r.outcome = "SKIP"
             /\ mode = "audit" /\ r.basis = "spec" =>
                  r.outcome \in {"skip-unobservable", "pyte-quirk", "spec-confirmed", "spec-suspect"}
             /\ mode = "audit" /\ r.basis # "spec" => r.outcome \notin {"spec-confirmed", "spec-suspect"}
  <1>1. s.case.basis \in Bases BY CaseAssumption DEF Run
  <1>2. CASE mode = "runner" BY <1>1, <1>2 DEF RowOf, RunCase, Row
  <1>3. CASE mode = "differential" BY <1>1, <1>3 DEF RowOf, DifferentialCase, Row
  <1>4. CASE mode = "audit"
    <2> DEFINE o == AuditCase(s.case, s.ref).outcome
               b == s.case.basis
               agrees == Check(s.ref, CheckableExpect(s.case.expect, PyteCaps)) = {}
    <2>1. AuditCase(s.case, s.ref).basis = b /\ RowOf(s.case, s.fw, s.ref) = AuditCase(s.case, s.ref)
      BY <1>4 DEF RowOf, AuditCase, Row
    <2>2. \/ o \in {"skip-unobservable", "pyte-quirk"}
          \/ b # "unobservable" /\ o = ClassifyAudit(b, agrees)
      BY DEF AuditCase, Row
    <2>3. b = "spec" => ClassifyAudit(b, agrees) \in {"spec-confirmed", "spec-suspect"}
      BY DEF ClassifyAudit
    <2>4. b \in {"profile", "tolerance", "degenerate"} =>
            ClassifyAudit(b, agrees) \notin {"spec-confirmed", "spec-suspect"}
      BY DEF ClassifyAudit
    <2> HIDE DEF b, o, agrees
    <2> QED BY <1>1, <1>4, <2>1, <2>2, <2>3, <2>4 DEF Bases, b, o
  <1> QED BY <1>2, <1>3, <1>4 DEF Modes

LEMMA RowsOfSeen ==
  ASSUME CInv
  PROVE  /\ Len(results) \in Nat /\ DOMAIN results = 1 .. Len(results)
         /\ \A i \in DOMAIN results : seen[i] \in Run /\ results[i] = RowOf(seen[i].case, seen[i].fw, seen[i].ref)
  BY DEF CInv, RowsInv

LEMMA AuditAccounts == CInv /\ mode = "audit" => AllAccounted
  <1> SUFFICES ASSUME CInv, mode = "audit" PROVE AllAccounted OBVIOUS
  <1> DEFINE spec == {i \in DOMAIN results : results[i].basis = "spec"}
             A == {i \in DOMAIN results : results[i].outcome \in {"spec-confirmed", "spec-suspect"}}
             B == {i \in spec : results[i].outcome \in {"pyte-quirk"}}
             C == {i \in spec : results[i].outcome \in {"skip-unobservable"}}
  <1>1. \A i \in DOMAIN results :
          /\ results[i].basis = "spec" =>
               results[i].outcome \in {"skip-unobservable", "pyte-quirk", "spec-confirmed", "spec-suspect"}
          /\ results[i].basis # "spec" => results[i].outcome \notin {"spec-confirmed", "spec-suspect"}
    <2> SUFFICES ASSUME NEW i \in DOMAIN results
                 PROVE  /\ results[i].basis = "spec" => results[i].outcome \in
                             {"skip-unobservable", "pyte-quirk", "spec-confirmed", "spec-suspect"}
                        /\ results[i].basis # "spec" =>
                             results[i].outcome \notin {"spec-confirmed", "spec-suspect"}
      OBVIOUS
    <2>1. seen[i] \in Run /\ results[i] = RowOf(seen[i].case, seen[i].fw, seen[i].ref) BY RowsOfSeen
    <2> QED BY <2>1, Skipped DEF Modes
  <1>2. spec = A \cup (B \cup C) /\ A \cap (B \cup C) = {} /\ B \cap C = {} BY <1>1
  <1>3. /\ A \in SUBSET (1 .. Len(results)) /\ B \in SUBSET (1 .. Len(results))
        /\ C \in SUBSET (1 .. Len(results)) /\ Len(results) \in Nat
    BY RowsOfSeen
  <1> HIDE DEF spec, A, B, C
  <1>4. /\ IsFiniteSet(A) /\ Cardinality(A) \in Nat
        /\ IsFiniteSet(B) /\ Cardinality(B) \in Nat
        /\ IsFiniteSet(C) /\ Cardinality(C) \in Nat
    BY <1>3, PartOf
  <1>5. IsFiniteSet(B \cup C) /\ Cardinality(B \cup C) = Cardinality(B) + Cardinality(C)
    BY <1>2, <1>4, Disjoint
  <1>6. Cardinality(A \cup (B \cup C)) = Cardinality(A) + Cardinality(B \cup C)
    BY <1>2, <1>4, <1>5, Disjoint
  <1>7. Cardinality(spec) = Cardinality(A) + Cardinality(B) + Cardinality(C)
    BY <1>2, <1>4, <1>5, <1>6
  <1>8. /\ SummarizeAudit(results).checked = Cardinality(A) /\ SummarizeAudit(results).total = Cardinality(spec)
        /\ SummarizeAudit(results).quirked = Cardinality(B)
        /\ SummarizeAudit(results).unobservable = Cardinality(C)
    BY DEF SummarizeAudit, CountOf, spec, A, B, C
  <1>9. AllAccounted <=> SummarizeAudit(results).checked + SummarizeAudit(results).quirked
                           + SummarizeAudit(results).unobservable = SummarizeAudit(results).total
    BY DEF AllAccounted
  <1> QED BY <1>4, <1>7, <1>8, <1>9

LEMMA ScoresAccount == CInv /\ mode # "audit" => AllAccounted
  <1> SUFFICES ASSUME CInv, mode # "audit" PROVE AllAccounted OBVIOUS
  <1> DEFINE n == Len(results)
             conf == Scored(results)
             skip == {i \in DOMAIN results : results[i].outcome \in {"SKIP"}}
             spec == {i \in conf : results[i].basis = "spec"}
             profile == {i \in conf : results[i].basis \in {"spec", "profile"}}
             support == {i \in conf : results[i].status = "supported"}
             S == Summarize(results)
  <1>1. n \in Nat /\ DOMAIN results = 1 .. n BY RowsOfSeen
  <1>2. \A i \in DOMAIN results : results[i].basis = "unobservable" => results[i].outcome = "SKIP"
    <2> SUFFICES ASSUME NEW i \in DOMAIN results, results[i].basis = "unobservable"
                 PROVE  results[i].outcome = "SKIP"
      OBVIOUS
    <2>1. seen[i] \in Run /\ results[i] = RowOf(seen[i].case, seen[i].fw, seen[i].ref) BY RowsOfSeen
    <2> QED BY <2>1, Skipped DEF CInv, RowsInv
  <1>3. conf \cup skip = 1 .. n /\ conf \cap skip = {} BY <1>1, <1>2 DEF Scored
  <1>4. /\ conf \in SUBSET (1 .. n) /\ skip \in SUBSET (1 .. n)
        /\ spec \in SUBSET (1 .. n) /\ profile \in SUBSET (1 .. n) /\ support \in SUBSET (1 .. n)
        /\ support = {i \in conf : results[i].status \in {"supported"}} /\ support \in SUBSET conf
    BY <1>1 DEF Scored
  <1> HIDE DEF n, conf, skip, spec, profile, support
  <1>5. Cardinality(conf) + CountOf(results, DOMAIN results, {"SKIP"}) = n
    <2>1. IsFiniteSet(conf) /\ IsFiniteSet(skip) BY <1>1, <1>4, PartOf
    <2>2. Cardinality(conf \cup skip) = Cardinality(conf) + Cardinality(skip)
      BY <1>3, <2>1, Disjoint
    <2>3. Cardinality(1 .. n) = n BY <1>1, FS_Interval
    <2> QED BY <1>3, <2>2, <2>3 DEF CountOf, skip
  <1>6. CountOf(results, conf, Compatible) <= Cardinality(conf) BY <1>1, <1>4, PartOf
  <1>7. CountOf(results, spec, {"PASS"}) <= Cardinality(spec) BY <1>1, <1>4, PartOf
  <1>8. CountOf(results, profile, {"PASS"}) <= Cardinality(profile) BY <1>1, <1>4, PartOf
  <1>9. CountOf(results, support, {"PASS"}) <= Cardinality(support) BY <1>1, <1>4, PartOf
  <1>10. Cardinality(support) <= Cardinality(conf)
    <2>1. IsFiniteSet(conf) BY <1>1, <1>4, PartOf
    <2> QED BY <1>4, <2>1, FS_Subset
  <1>11. S = [ behavioral   |-> <<CountOf(results, conf, Compatible), Cardinality(conf)>>,
               spec         |-> <<CountOf(results, spec, {"PASS"}), Cardinality(spec)>>,
               profile      |-> <<CountOf(results, profile, {"PASS"}), Cardinality(profile)>>,
               completeness |-> <<Cardinality(support), Cardinality(conf)>>,
               correctness  |-> <<CountOf(results, support, {"PASS"}), Cardinality(support)>> ]
    BY DEF Summarize, conf, spec, profile, support
  <1> HIDE DEF S
  <1>12. S.behavioral[2] + CountOf(results, DOMAIN results, {"SKIP"}) = n BY <1>5, <1>11
  <1>13. \A f \in DOMAIN S : S[f][1] <= S[f][2]
    <2>1. DOMAIN S = {"behavioral", "spec", "profile", "completeness", "correctness"} BY <1>11
    <2>2. S["behavioral"][1] <= S["behavioral"][2] /\ S["spec"][1] <= S["spec"][2]
      BY <1>6, <1>7, <1>11
    <2>3. S["profile"][1] <= S["profile"][2] /\ S["completeness"][1] <= S["completeness"][2]
      BY <1>8, <1>10, <1>11
    <2>4. S["correctness"][1] <= S["correctness"][2] BY <1>9, <1>11
    <2> QED BY <2>1, <2>2, <2>3, <2>4
  <1> QED BY <1>12, <1>13 DEF AllAccounted, S, n

--------------------------------------------------------------------------------
(***************************************************************************)
(* A run.                                                                  *)
(***************************************************************************)
\* Without a failing row no outcome of the rows is one of those.
LEMMA NoFailing ==
  ASSUME CInv, ~Failing(results), NEW i \in DOMAIN results
  PROVE  results[i].outcome \notin {"REGRESSION", "ERROR"}
  <1> DEFINE bad == {j \in DOMAIN results : results[j].outcome \in {"REGRESSION", "ERROR"}}
  <1>1. IsFiniteSet(bad) /\ Cardinality(bad) \in Nat
    <2>1. bad \in SUBSET (1 .. Len(results)) /\ Len(results) \in Nat BY RowsOfSeen
    <2> HIDE DEF bad
    <2> QED BY <2>1, PartOf
  <1>2. ~(Cardinality(bad) > 0) BY DEF Failing, CountOf
  <1> HIDE DEF bad
  <1>3. bad = {} BY <1>1, <1>2, FS_EmptySet
  <1> QED BY <1>3 DEF bad

LEMMA SuccessSound == CInv => SuccessMeansConformance
  <1> SUFFICES ASSUME CInv, exit = "ok", NEW s \in Range(seen),
                      s.case.status = "supported", s.case.basis # "unobservable"
               PROVE  /\ mode = "runner" => s.fw # Raises /\ Check(s.fw, s.case.expect) = {}
                      /\ mode = "differential" /\ ~Quirk(s.case)
                           /\ DOMAIN s.case.expect \intersect {"cursor", "rows", "absent", "attr"} # {} =>
                           s.fw # Raises /\ s.fw.glyphs = s.ref.glyphs /\ s.fw.inverse = s.ref.inverse
    BY DEF SuccessMeansConformance
  <1>1. PICK i \in DOMAIN seen : s = seen[i] BY DEF Range
  <1>2. i \in DOMAIN results BY <1>1 DEF CInv, RowsInv
  <1>3. s \in Run /\ results[i] = RowOf(s.case, s.fw, s.ref) BY <1>1, <1>2, RowsOfSeen
  <1>4. results[i].outcome \notin {"REGRESSION", "ERROR"} BY <1>2, NoFailing DEF CInv, ExitInv
  <1>5. s.case \in Cases /\ s.fw \in Fw /\ s.ref \in RefScreens BY <1>3 DEF Run
  <1>6. CASE mode = "runner"
    <2>1. RunCase(s.case, s.fw).outcome \notin {"REGRESSION", "ERROR"} BY <1>3, <1>4, <1>6 DEF RowOf
    <2> QED BY <1>5, <1>6, <2>1, RunnerSound
  <1>7. CASE mode = "differential"
    <2>1. DifferentialCase(s.case, s.fw, s.ref).outcome \notin {"REGRESSION", "ERROR"}
      BY <1>3, <1>4, <1>7 DEF RowOf
    <2> QED BY <1>5, <1>7, <2>1, DifferentialSound
  <1> QED BY <1>6, <1>7

LEMMA CInvInit == Init => CInv
  BY DEF Init, CInv, RowsInv, ExitInv

\* A case adds its row, or raises and adds none.
LEMMA RunOneKeeps ==
  ASSUME RowsInv, NEW c \in Cases, NEW fw \in Fw, NEW ref \in RefScreens, RunOne(c, fw, ref)
  PROVE  RowsInv'
  <1> DEFINE s == [case |-> c, fw |-> fw, ref |-> ref]
             n == Len(results)
  <1>1. s \in Run /\ seen' = Append(seen, s) /\ mode' = mode /\ exit = "running"
    BY DEF RunOne, Run
  <1>2. n = Len(seen) /\ n \in Nat BY <1>1 DEF RowsInv
  <1>3. /\ seen' \in Seq(Run) /\ Len(seen') = n + 1
        /\ seen'[n + 1] = s /\ \A i \in 1 .. n : seen'[i] = seen[i]
    BY <1>1, <1>2 DEF RowsInv
  <1>4. RowOf(c, fw, ref) \in Rows
    <2>1. mode \in Modes BY DEF RowsInv
    <2>2. s.case = c /\ s.fw = fw /\ s.ref = ref OBVIOUS
    <2>3. {RunCase(c, fw), AuditCase(c, ref), DifferentialCase(c, fw, ref)} \subseteq Rows
      BY <1>1, <2>2 DEF Rows
    <2>4. RowOf(c, fw, ref) \in {RunCase(c, fw), AuditCase(c, ref), DifferentialCase(c, fw, ref)}
      BY <2>1 DEF RowOf, Modes
    <2> QED BY <2>3, <2>4
  <1>5. \A i \in DOMAIN results :
          results[i] = RowOf(seen'[i].case, seen'[i].fw, seen'[i].ref)
    BY <1>2, <1>3 DEF RowsInv
  <1>6. CASE exit' = "crashed" /\ results' = results
    <2>1. \A i \in DOMAIN results' :
            results'[i] = RowOf(seen'[i].case, seen'[i].fw, seen'[i].ref)
      BY <1>5, <1>6
    <2>2. \A i \in DOMAIN results' :
            results'[i] = RowOf(seen[i].case, seen[i].fw, seen[i].ref)'
      BY <1>1, <2>1 DEF RowOf
    <2> QED BY <1>1, <1>2, <1>3, <1>6, <2>2 DEF RowsInv
  <1>7. CASE results' = Append(results, RowOf(c, fw, ref)) /\ exit' = exit
    <2>1. /\ results' \in Seq(Rows) /\ Len(results') = n + 1
          /\ results'[n + 1] = RowOf(c, fw, ref) /\ \A i \in 1 .. n : results'[i] = results[i]
      BY <1>2, <1>4, <1>7 DEF RowsInv
    <2>2. \A i \in 1 .. n + 1 :
            results'[i] = RowOf(seen'[i].case, seen'[i].fw, seen'[i].ref)
      <3> SUFFICES ASSUME NEW i \in 1 .. n + 1
                   PROVE  results'[i] = RowOf(seen'[i].case, seen'[i].fw, seen'[i].ref)
        OBVIOUS
      <3>1. CASE i = n + 1 BY <1>3, <2>1, <3>1
      <3>2. CASE i # n + 1
        <4>1. i \in DOMAIN results BY <1>2, <3>2 DEF RowsInv
        <4> QED BY <1>2, <1>5, <2>1, <3>2, <4>1
      <3> QED BY <3>1, <3>2
    <2>3. \A i \in DOMAIN results' :
            results'[i] = RowOf(seen'[i].case, seen'[i].fw, seen'[i].ref)
      BY <1>2, <2>1, <2>2
    <2>4. \A i \in DOMAIN results' :
            results'[i] = RowOf(seen[i].case, seen[i].fw, seen[i].ref)'
      BY <1>1, <2>3 DEF RowOf
    <2> QED BY <1>1, <1>2, <1>3, <1>7, <2>1, <2>4 DEF RowsInv
  <1> QED BY <1>6, <1>7 DEF RunOne

LEMMA CInvStep == CInv /\ [Next]_vars => CInv'
  <1> SUFFICES ASSUME CInv, [Next]_vars PROVE CInv' OBVIOUS
  <1>1. CASE UNCHANGED <<mode, strict, seen, results>> /\ (exit = "crashed" => exit' = "crashed")
             /\ (exit' = "ok" => exit = "ok" \/ ~Failing(results))
    <2>1. (\A i \in DOMAIN results : results[i] = RowOf(seen[i].case, seen[i].fw, seen[i].ref))'
      BY <1>1 DEF CInv, RowsInv, RowOf
    <2>2. RowsInv' BY <1>1, <2>1 DEF CInv, RowsInv
    <2>3. exit' = "ok" => ~Failing(results) BY <1>1 DEF CInv, ExitInv
    <2>4. ExitInv' BY <1>1, <2>3 DEF ExitInv, Failing, CountOf
    <2> QED BY <2>2, <2>4 DEF CInv
  <1>2. CASE OpenFails \/ NoCases \/ Finish \/ Stop \/ UNCHANGED vars
    <2>1. UNCHANGED <<mode, strict, seen, results>> /\ (exit = "crashed" => exit' = "crashed")
          /\ (exit' = "ok" => exit = "ok" \/ ~Failing(results))
      BY <1>2 DEF OpenFails, NoCases, Finish, Stop, vars
    <2> QED BY <1>1, <2>1
  <1>3. ASSUME NEW c \in Cases, NEW fw \in Fw, NEW ref \in RefScreens, RunOne(c, fw, ref)
        PROVE  CInv'
    <2>1. RowsInv' BY <1>3, RunOneKeeps DEF CInv
    <2>2. exit' # "ok" BY <1>3 DEF RunOne
    <2> QED BY <2>1, <2>2 DEF CInv, ExitInv
  <1> QED BY <1>2, <1>3 DEF Next, Other, Fw

LEMMA CInvCorrect == Spec => []CInv
  BY CInvInit, CInvStep, PTL DEF Spec

\* A run that exits with success has rendered every supported case it could observe,
\* and its screens meet what the corpus, or the reference, says.
THEOREM SuccessMeansConformanceCorrect == Spec => []SuccessMeansConformance
  BY CInvCorrect, SuccessSound, PTL

\* Where the firmware meets the corpus and the reference does not, the differential
\* shows it.
THEOREM DisagreementShowsCorrect == Spec => []DisagreementShows
  <1>1. CInv => DisagreementShows
    <2> SUFFICES ASSUME CInv, NEW s \in Range(seen), s.case.shaped, s.fw # Raises,
                        RunCase(s.case, s.fw).outcome = "PASS",
                        AuditCase(s.case, s.ref).outcome \in {"spec-suspect", "profile-divergence",
                          "tolerance-divergence", "degenerate-divergence"}
                 PROVE  DifferentialCase(s.case, s.fw, s.ref).outcome = "REGRESSION"
      BY DEF DisagreementShows
    <2>1. s \in Run BY DEF CInv, RowsInv, Range
    <2> QED BY <2>1, ComparisonsFit
  <1> QED BY <1>1, CInvCorrect, PTL

\* What a run publishes hangs on what was seen and accounts for every row.
THEOREM FiguresSoundCorrect == Spec => []FiguresSound
  <1>1. CInv => FiguresSound
    BY LabelsDoNotCount, AuditAccounts, ScoresAccount DEF FiguresSound
  <1> QED BY <1>1, CInvCorrect, PTL

--------------------------------------------------------------------------------
(***************************************************************************)
(* The target behind the runner: MameTarget for any corpus, any windows    *)
(* and any number of snapshots; first with waits hasty or not.             *)
(***************************************************************************)
\* a terminal of the model: its four fields, whatever is on its screen
States == {"normal", "esc", "csi", "str", "stresc"}
Shaped(t) ==
  /\ t = [state |-> t.state, scr |-> t.scr, effects |-> t.effects, replies |-> t.replies]
  /\ t.state \in States /\ t.effects \in Nat
Grown(t, u) == Shaped(u) /\ u.effects >= t.effects

LEMMA Updated ==
  ASSUME NEW t, Shaped(t), NEW x, NEW u, u = [t EXCEPT !.scr = x, !.effects = t.effects + 1]
  PROVE  u = [state |-> t.state, scr |-> x, effects |-> t.effects + 1, replies |-> t.replies]
  BY DEF Shaped

LEMMA PartsGrow ==
  ASSUME NEW t, Shaped(t)
  PROVE  /\ Grown(t, t)
         /\ \A s \in States : Grown(t, Go(t, s))
         /\ \A what : Grown(t, Put(t, what))
         /\ \A kind, q : Grown(t, Reply(t, kind, q))
         /\ Grown(t, [t EXCEPT !.scr = <<>>, !.effects = @ + 1])
         /\ Grown(t, [t EXCEPT !.replies = <<>>])
  <1>1. Grown(t, t) BY DEF Shaped, Grown
  <1>2. ASSUME NEW s \in States PROVE Grown(t, Go(t, s))
    <2>1. Go(t, s) = [state |-> s, scr |-> t.scr, effects |-> t.effects, replies |-> t.replies]
      BY DEF Shaped, Go
    <2> QED BY <2>1 DEF Shaped, Grown
  <1>3. ASSUME NEW what PROVE Grown(t, Put(t, what))
    <2> DEFINE s == Append(t.scr, what)
    <2>1. Put(t, what) = [t EXCEPT !.scr = s, !.effects = t.effects + 1] BY DEF Put
    <2> HIDE DEF s
    <2>2. Put(t, what) = [state |-> t.state, scr |-> s, effects |-> t.effects + 1,
                                 replies |-> t.replies]
      BY <2>1, Updated
    <2> QED BY <2>2 DEF Shaped, Grown
  <1>4. ASSUME NEW kind, NEW q PROVE Grown(t, Reply(t, kind, q))
    <2> DEFINE r == Append(t.replies, [kind |-> kind, at |-> Len(t.scr), for |-> q])
    <2>1. Reply(t, kind, q) = [t EXCEPT !.replies = r] BY DEF Reply
    <2> HIDE DEF r
    <2>2. Reply(t, kind, q) = [state |-> t.state, scr |-> t.scr, effects |-> t.effects,
                                      replies |-> r]
      BY <2>1 DEF Shaped
    <2> QED BY <2>2 DEF Shaped, Grown
  <1>5. Grown(t, [t EXCEPT !.scr = <<>>, !.effects = @ + 1])
    <2> DEFINE r == [t EXCEPT !.scr = <<>>, !.effects = @ + 1]
    <2>1. r = [state |-> t.state, scr |-> <<>>, effects |-> t.effects + 1, replies |-> t.replies]
      BY Updated, Zenon
    <2> QED BY <2>1 DEF Shaped, Grown
  <1>6. Grown(t, [t EXCEPT !.replies = <<>>])
    <2> DEFINE r == [t EXCEPT !.replies = <<>>]
    <2>1. r = [state |-> t.state, scr |-> t.scr, effects |-> t.effects, replies |-> <<>>]
      BY DEF Shaped
    <2> QED BY <2>1 DEF Shaped, Grown
  <1> QED BY <1>1, <1>2, <1>3, <1>4, <1>5, <1>6

LEMMA GrownFurther ==
  ASSUME NEW t, NEW u, NEW w, Shaped(t), Grown(t, u), Grown(u, w) PROVE Grown(t, w)
  BY DEF Shaped, Grown

\* No byte undoes what the terminal has done.
LEMMA FeedGrows ==
  ASSUME NEW t, Shaped(t), NEW b, NEW q PROVE Grown(t, Feed(t, b, q))
  <1> DEFINE u == Feed(t, b, q)
  <1> USE PartsGrow DEF States
  <1>1. CASE t.state = "normal"
    <2>1. u = IF b = "esc" THEN Go(t, "esc") ELSE Put(t, b) BY <1>1 DEF Feed
    <2> QED BY <2>1
  <1>2. CASE t.state = "esc"
    <2>1. u = CASE b = "[" -> Go(t, "csi")
                [] b = "]" -> Go(t, "str")
                [] b = "c" -> [Go(t, "normal") EXCEPT !.scr = <<>>, !.effects = @ + 1]
                [] OTHER   -> Go(t, "normal")
      BY <1>2 DEF Feed
    <2>2. Grown(t, [Go(t, "normal") EXCEPT !.scr = <<>>, !.effects = @ + 1])
      <3> DEFINE g == Go(t, "normal")
                 r == [g EXCEPT !.scr = <<>>, !.effects = @ + 1]
      <3>1. Grown(t, g) /\ Shaped(g) BY PartsGrow DEF Grown
      <3> HIDE DEF g
      <3>2. Grown(g, r) BY <3>1, PartsGrow, Zenon
      <3> HIDE DEF r
      <3>3. Grown(t, r) BY <3>1, <3>2, GrownFurther
      <3> QED BY <3>3 DEF g, r
    <2> QED BY <2>1, <2>2, Zenon
  <1>3. CASE t.state = "csi"
    <2>1. u = CASE b = "esc" -> t
                [] b = "n"   -> Go(Reply(t, "cpr", q), "normal")
                [] b = "c"   -> Go(Reply(t, "da", q), "normal")
                [] b = "m"   -> Go(Put(t, "sgr"), "normal")
                [] OTHER     -> Go(t, "normal")
      BY <1>3 DEF Feed
    <2>2. ASSUME NEW w, Grown(t, w) PROVE Grown(t, Go(w, "normal"))
      <3>1. Shaped(w) BY <2>2 DEF Grown
      <3>2. Grown(w, Go(w, "normal")) BY <3>1, PartsGrow
      <3> QED BY <2>2, <3>2, GrownFurther
    <2> QED BY <2>1, <2>2, Zenon
  <1>4. CASE t.state = "str"
    <2>1. u = IF b = "esc" THEN Go(t, "stresc") ELSE t BY <1>4 DEF Feed
    <2> QED BY <2>1
  <1>5. CASE t.state = "stresc"
    <2>1. u = Go(t, "normal") BY <1>5 DEF Feed
    <2> QED BY <2>1
  <1> QED BY <1>1, <1>2, <1>3, <1>4, <1>5 DEF Shaped

\* The file and the machine.  A file being written holds the machine, so it shows what the
\* machine has done; of a whole one it is known only that the machine has done no less.
FileInv ==
  /\ file = Absent \/
       /\ file = [st |-> file.st, seq |-> file.seq, scr |-> file.scr, effects |-> file.effects]
       /\ file.st \in {"ok", "busy"} /\ file.effects \in Int /\ file.effects <= term.effects
       /\ file.seq = IF stage = "open" THEN 0 ELSE seq
       /\ file.st = "busy" => stage # "open" /\ file.effects = term.effects
  /\ seq \in Nat /\ (stage = "open" => seq = 0)

\* Once render has looked, a later number means a later snapshot.
LookInv ==
  stage = "fresh" =>
    /\ looked \in Nat /\ after \in Int /\ looked <= term.effects
    /\ after < 0 \/ after <= seq
    /\ file # Absent /\ file.seq > after => file.effects >= looked

TargetInv == Shaped(term) /\ FileInv /\ LookInv

LEMMA TargetStarts == TargetInit => TargetInv
  BY DEF TargetInit, TargetInv, Shaped, States, FileInv, LookInv, Absent,
         Leftover, Blank

\* Most steps touch neither machine nor file, and do not look.
LEMMA Elsewhere ==
  ASSUME TargetInv, UNCHANGED <<term, file, seq>>, stage # "open", stage' # "open",
         stage' # "fresh" \/ UNCHANGED <<stage, after, looked>>
  PROVE  TargetInv'
  BY DEF TargetInv, Shaped, FileInv, LookInv

LEMMA LookKeeps == ASSUME TargetInv, Look PROVE TargetInv'
  <1>1. /\ UNCHANGED <<term, file, seq>> /\ stage # "open" /\ stage' = "fresh"
        /\ looked' = term.effects
        /\ after' = IF file.st = "ok" THEN file.seq ELSE 0 - 1
    BY DEF Look, CurrentSeq, Valid, machine, probe
  <1>2. Shaped(term)' /\ FileInv' BY <1>1 DEF TargetInv, Shaped, FileInv
  <1>3. LookInv' BY <1>1 DEF TargetInv, Shaped, FileInv, LookInv, Absent
  <1> QED BY <1>2, <1>3 DEF TargetInv

LEMMA ProcessKeeps == ASSUME TargetInv, Process PROVE TargetInv'
  <1> DEFINE t == IF up THEN Feed(term, Head(pipe).b, Head(pipe).for) ELSE term
  <1>1. /\ term' = [t EXCEPT !.replies = <<>>] /\ file.st # "busy"
        /\ UNCHANGED <<stage, after, looked, file, seq>>
    BY DEF Process, Running, harness, peeked, probe
  <1>2. Grown(term, t) /\ Shaped(t) BY FeedGrows, PartsGrow DEF TargetInv, Grown
  <1> HIDE DEF t
  <1>3. Grown(t, term') BY <1>1, <1>2, PartsGrow
  <1>4. Grown(term, term') BY <1>2, <1>3, GrownFurther DEF TargetInv
  <1> HIDE DEF t
  <1>5. FileInv' BY <1>1, <1>4 DEF TargetInv, Shaped, Grown, FileInv
  <1>6. LookInv' BY <1>1, <1>4 DEF TargetInv, Shaped, Grown, LookInv
  <1> QED BY <1>4, <1>5, <1>6 DEF TargetInv, Grown

LEMMA SnapshotKeeps ==
  ASSUME TargetInv, SnapshotBegins \/ SnapshotEnds
  PROVE  TargetInv'
  <1>1. UNCHANGED <<stage, after, looked, term>>
    BY DEF SnapshotBegins, SnapshotEnds, harness, peeked, machine
  <1>2. CASE SnapshotBegins
    <2>1. /\ stage # "open" /\ seq' = seq + 1
          /\ file' = [st |-> "busy", seq |-> seq', scr |-> term.scr, effects |-> term.effects]
      BY <1>2 DEF SnapshotBegins
    <2>2. FileInv' BY <1>1, <2>1 DEF TargetInv, Shaped, FileInv
    <2>3. LookInv' BY <1>1, <2>1 DEF TargetInv, Shaped, FileInv, LookInv
    <2> QED BY <1>1, <2>2, <2>3 DEF TargetInv, Shaped
  <1>3. CASE SnapshotEnds
    <2>1. seq' = seq /\ file.st = "busy" /\ file' = [file EXCEPT !.st = "ok"]
      BY <1>3 DEF SnapshotEnds, machine
    <2>2. file # Absent BY <2>1 DEF Absent
    <2>3. file' = [st |-> "ok", seq |-> file.seq, scr |-> file.scr, effects |-> file.effects]
      BY <2>1, <2>2 DEF TargetInv, FileInv
    <2>4. FileInv' BY <1>1, <2>1, <2>2, <2>3 DEF TargetInv, Shaped, FileInv
    <2>5. LookInv' BY <1>1, <2>1, <2>2, <2>3 DEF TargetInv, Shaped, FileInv, LookInv
    <2> QED BY <1>1, <2>4, <2>5 DEF TargetInv, Shaped
  <1> QED BY <1>2, <1>3

LEMMA TargetInductive == TargetInv /\ [TargetNext]_target => TargetInv'
  <1> SUFFICES ASSUME TargetInv, [TargetNext]_target PROVE TargetInv' OBVIOUS
  <1> USE DEF machine, probe, harness, peeked, reader,
              SendOnly, Send
  <1>1. CASE Open
    <2>1. /\ file' = Absent /\ UNCHANGED <<term, seq>> /\ stage = "open"
          /\ stage' \in {"ready", "failed"}
      BY <1>1 DEF Open
    <2> QED BY <2>1 DEF TargetInv, Shaped, FileInv, LookInv
  <1>2. CASE Look BY <1>2, LookKeeps
  <1>3. CASE Process BY <1>3, ProcessKeeps
  <1>4. CASE SnapshotBegins \/ SnapshotEnds BY <1>4, SnapshotKeeps
  <1>5. CASE UNCHANGED target \/ Finished \/ Receive \/ Eof
             \/ Boot \/ Exit
    <2>1. UNCHANGED <<stage, after, looked, term, file, seq>>
      BY <1>5 DEF target, Finished, Receive, Eof, Boot, Exit
    <2> QED BY <2>1 DEF TargetInv, Shaped, FileInv, LookInv
  <1>6. CASE \/ AskReady \/ Ready \/ NotReady \/ WaitProbe
             \/ AskFails \/ Reset \/ Sync
    <2>1. UNCHANGED <<term, file, seq>> /\ stage # "open" /\ stage' \notin {"open", "fresh"}
      BY <1>6 DEF AskReady, Ready, NotReady, WaitProbe,
                  AskFails, Reset, Sync
    <2> QED BY <2>1, Elsewhere
  <1>7. CASE \/ SendWindow \/ Acked \/ Unacked \/ Poll
             \/ NoReply \/ Take \/ CaseFails
    <2>1. UNCHANGED <<term, file, seq>> /\ stage # "open" /\ stage' \notin {"open", "fresh"}
      BY <1>7 DEF SendWindow, Acked, Unacked, Poll,
                  NoReply, Take, CaseFails, Record
    <2> QED BY <2>1, Elsewhere
  <1> QED BY <1>1, <1>2, <1>3, <1>4, <1>5, <1>6, <1>7 DEF TargetNext, Harness

\* A snapshot that _wait_fresh accepts shows all the terminal had drawn when render
\* looked, also when the file was half written at that moment and its number unknown:
\* for any corpus, any windows and any number of snapshots between two looks.
THEOREM SnapshotNotOlderCorrect == TargetSpec => SnapshotNotOlder
  <1>1. TargetInv => [Take => file.effects >= looked]_target
    BY DEF TargetInv, FileInv, LookInv, Take, Fresh, Valid, Absent
  <1> QED BY <1>1, TargetStarts, TargetInductive, PTL DEF TargetSpec, SnapshotNotOlder

--------------------------------------------------------------------------------
(***************************************************************************)
(* Induction over the length of what is on the wire, through sets of       *)
(* naturals.                                                               *)
(***************************************************************************)
LEMMA Least ==
  ASSUME NEW T \in SUBSET Nat, T # {}
  PROVE  \E x \in T : \A y \in T : x <= y
  <1> DEFINE R == OpToRel(<, Nat)
  <1>1. IsWellFoundedOn(R, Nat) BY NatLessThanWellFounded
  <1>2. \A x, y \in Nat : <<x, y>> \in R <=> x < y BY DEF OpToRel
  <1> HIDE DEF R
  <1>3. PICK x \in T : \A y \in T : ~ (<<y, x>> \in R) BY <1>1, WFMin
  <1>4. x \in Nat /\ \A y \in T : y \in Nat OBVIOUS
  <1>5. \A y \in T : ~ (y < x) BY <1>2, <1>3, <1>4
  <1> QED BY <1>4, <1>5

LEMMA Induction ==
  ASSUME NEW S, 0 \in S, \A n \in Nat : n \in S => n + 1 \in S
  PROVE  Nat \subseteq S
  <1> SUFFICES ASSUME NEW k \in Nat, k \notin S PROVE FALSE OBVIOUS
  <1>1. Nat \ S # {} OBVIOUS
  <1>2. PICK x \in Nat \ S : \A y \in Nat \ S : x <= y BY <1>1, Least
  <1>3. x # 0 /\ x - 1 \in Nat /\ x - 1 < x BY <1>2
  <1>4. x - 1 \in S BY <1>2, <1>3
  <1>5. (x - 1) + 1 \in S BY <1>3, <1>4
  <1> QED BY <1>2, <1>5

--------------------------------------------------------------------------------
(***************************************************************************)
(* The target behind the runner: the terminal, a byte at a time.           *)
(***************************************************************************)
Shown == Bytes \cup {"sgr"}
Report == [kind : {"cpr", "da"}, at : Nat, for : Nat]
Terms == [state : States, scr : Seq(Shown), effects : Nat, replies : Seq(Report)]
Wire == [b : Bytes, for : Nat]

\* what a byte does to the state, to the screen, and what it is answered with
Then(s, b) ==
  CASE s = "normal" -> IF b = "esc" THEN "esc" ELSE "normal"
    [] s = "esc"    -> IF b = "[" THEN "csi" ELSE IF b = "]" THEN "str" ELSE "normal"
    [] s = "csi"    -> IF b = "esc" THEN "csi" ELSE "normal"
    [] s = "str"    -> IF b = "esc" THEN "stresc" ELSE "str"
    [] s = "stresc" -> "normal"
Drawn(s, x, b) ==
  IF s = "esc" /\ b = "c" THEN <<>>
  ELSE IF s = "normal" /\ b # "esc" THEN Append(x, b)
  ELSE IF s = "csi" /\ b = "m" THEN Append(x, "sgr") ELSE x
Answer(s, x, b, q) ==
  IF s = "csi" /\ b \in {"n", "c"}
  THEN <<[kind |-> IF b = "n" THEN "cpr" ELSE "da", at |-> Len(x), for |-> q]>> ELSE <<>>

LEMMA Fields ==
  ASSUME NEW t, t = [state |-> t.state, scr |-> t.scr, effects |-> t.effects, replies |-> t.replies],
         NEW s, NEW x, NEW e, NEW r
  PROVE  /\ [t EXCEPT !.state = s] = [state |-> s, scr |-> t.scr, effects |-> t.effects, replies |-> t.replies]
         /\ [t EXCEPT !.scr = x, !.effects = e] = [state |-> t.state, scr |-> x, effects |-> e, replies |-> t.replies]
         /\ [t EXCEPT !.replies = r] = [state |-> t.state, scr |-> t.scr, effects |-> t.effects, replies |-> r]
  <1>1. [t EXCEPT !.state = s] = [state |-> s, scr |-> t.scr, effects |-> t.effects, replies |-> t.replies]
    OBVIOUS
  <1>2. [t EXCEPT !.scr = x, !.effects = e] = [state |-> t.state, scr |-> x, effects |-> e, replies |-> t.replies]
    <2> DEFINE u == [t EXCEPT !.scr = x, !.effects = e]
    <2>1. DOMAIN u = DOMAIN t OBVIOUS
    <2>2. DOMAIN t = {"state", "scr", "effects", "replies"} OBVIOUS
    <2>3. u.state = t.state /\ u.scr = x /\ u.effects = e /\ u.replies = t.replies BY <2>2
    <2>4. u = [f \in {"state", "scr", "effects", "replies"} |-> u[f]] BY <2>1, <2>2
    <2> HIDE DEF u
    <2>5. u = [state |-> t.state, scr |-> x, effects |-> e, replies |-> t.replies] BY <2>3, <2>4
    <2> QED BY <2>5 DEF u
  <1>3. [t EXCEPT !.replies = r] = [state |-> t.state, scr |-> t.scr, effects |-> t.effects, replies |-> r]
    OBVIOUS
  <1> QED BY <1>1, <1>2, <1>3

LEMMA FeedIs ==
  ASSUME NEW t \in Terms, NEW b \in Bytes, NEW q \in Nat
  PROVE  LET u == Feed(t, b, q)
         IN  /\ u \in Terms
             /\ u.state = Then(t.state, b) /\ u.scr = Drawn(t.state, t.scr, b)
             /\ u.replies = t.replies \o Answer(t.state, t.scr, b, q)
  <1> DEFINE u == Feed(t, b, q)
             Is(s, x, e, r) == u = [state |-> s, scr |-> x, effects |-> e, replies |-> r]
             Claim == /\ u \in Terms
                      /\ u.state = Then(t.state, b) /\ u.scr = Drawn(t.state, t.scr, b)
                      /\ u.replies = t.replies \o Answer(t.state, t.scr, b, q)
  <1>t. /\ t = [state |-> t.state, scr |-> t.scr, effects |-> t.effects, replies |-> t.replies]
        /\ t.state \in States /\ t.scr \in Seq(Shown) /\ t.effects \in Nat /\ t.replies \in Seq(Report)
    BY DEF Terms
  <1>e. t.replies \o <<>> = t.replies /\ t.effects + 1 \in Nat BY <1>t
  <1>d. Append(t.scr, b) \in Seq(Shown) /\ Append(t.scr, "sgr") \in Seq(Shown) BY <1>t DEF Shown
  <1>f. <<>> \in Seq(Shown) OBVIOUS
  <1>0. ASSUME NEW s \in States, NEW x \in Seq(Shown), NEW e \in Nat, NEW r \in Seq(Report), Is(s, x, e, r),
               s = Then(t.state, b), x = Drawn(t.state, t.scr, b), r = t.replies \o Answer(t.state, t.scr, b, q)
        PROVE  Claim
    <2> HIDE DEF u
    <2>1. u \in Terms BY <1>0 DEF Terms
    <2> QED BY <1>0, <2>1
  <1> DEFINE Drew(c) == [state |-> t.state, scr |-> Append(t.scr, c), effects |-> t.effects + 1, replies |-> t.replies]
             Went(s) == [state |-> s, scr |-> t.scr, effects |-> t.effects, replies |-> t.replies]
             Answers(k) == Append(t.replies, [kind |-> k, at |-> Len(t.scr), for |-> q])
             Replied(k) == [state |-> t.state, scr |-> t.scr, effects |-> t.effects, replies |-> Answers(k)]
  <1>go. \A s : Go(t, s) = Went(s) BY <1>t, Fields DEF Go
  <1>put. \A c : Put(t, c) = Drew(c)
    <2> TAKE c
    <2> DEFINE x == Append(t.scr, c)
               e == t.effects + 1
    <2>1. Put(t, c) = [t EXCEPT !.scr = x, !.effects = e] BY DEF Put
    <2> HIDE DEF x, e
    <2>2. Put(t, c) = [state |-> t.state, scr |-> x, effects |-> e, replies |-> t.replies]
      BY <2>1, <1>t, Fields
    <2> QED BY <2>2 DEF x, e
  <1>re. \A k : Reply(t, k, q) = Replied(k)
    <2> TAKE k
    <2> DEFINE r == Answers(k)
    <2>1. Reply(t, k, q) = [t EXCEPT !.replies = r] BY DEF Reply
    <2> HIDE DEF r
    <2>2. Reply(t, k, q) = [state |-> t.state, scr |-> t.scr, effects |-> t.effects, replies |-> r]
      BY <2>1, <1>t, Fields
    <2> QED BY <2>2 DEF r
  <1>gp. Go(Put(t, "sgr"), "normal") =
           [state |-> "normal", scr |-> Append(t.scr, "sgr"), effects |-> t.effects + 1, replies |-> t.replies]
    <2> DEFINE x == Append(t.scr, "sgr")
               e == t.effects + 1
               p == Drew("sgr")
    <2>1. p = [state |-> t.state, scr |-> x, effects |-> e, replies |-> t.replies] OBVIOUS
    <2> HIDE DEF x, e, p
    <2>2. Go(p, "normal") = [state |-> "normal", scr |-> x, effects |-> e, replies |-> t.replies]
      BY <2>1 DEF Go
    <2> QED BY <2>2, <1>put DEF x, e, p
  <1>gr. \A k : Go(Reply(t, k, q), "normal") =
           [state |-> "normal", scr |-> t.scr, effects |-> t.effects, replies |-> Answers(k)]
    <2> TAKE k
    <2> DEFINE r == Answers(k)
               p == Replied(k)
    <2>1. p = [state |-> t.state, scr |-> t.scr, effects |-> t.effects, replies |-> r] OBVIOUS
    <2> HIDE DEF r, p
    <2>2. Go(p, "normal") = [state |-> "normal", scr |-> t.scr, effects |-> t.effects, replies |-> r]
      BY <2>1 DEF Go
    <2> QED BY <2>2, <1>re DEF r, p
  <1>1. CASE t.state = "normal"
    <2>1. u = IF b = "esc" THEN Go(t, "esc") ELSE Put(t, b) BY <1>1 DEF Feed
    <2>2. CASE b = "esc"
      <3>1. Is("esc", t.scr, t.effects, t.replies) BY <2>1, <2>2, <1>go
      <3> QED BY <3>1, <1>0, <1>t, <1>e, <2>2, <1>1 DEF Then, Drawn, Answer, States
    <2>3. CASE b # "esc"
      <3>1. Is("normal", Append(t.scr, b), t.effects + 1, t.replies) BY <2>1, <2>3, <1>put, <1>1
      <3> QED BY <3>1, <1>0, <1>t, <1>e, <1>d, <2>3, <1>1 DEF Then, Drawn, Answer, States
    <2> QED BY <2>2, <2>3
  <1>2. CASE t.state = "esc"
    <2>1. u = CASE b = "[" -> Go(t, "csi")
                [] b = "]" -> Go(t, "str")
                [] b = "c" -> [Go(t, "normal") EXCEPT !.scr = <<>>, !.effects = @ + 1]
                [] OTHER   -> Go(t, "normal")
      BY <1>2 DEF Feed
    <2>2. CASE b = "c"
      <3> DEFINE g == Went("normal")
      <3>0. /\ g = [state |-> g.state, scr |-> g.scr, effects |-> g.effects, replies |-> g.replies]
            /\ g.state = "normal" /\ g.effects = t.effects /\ g.replies = t.replies
        OBVIOUS
      <3>1. u = [g EXCEPT !.scr = <<>>, !.effects = g.effects + 1] BY <2>1, <2>2, <1>go
      <3> HIDE DEF g, u
      <3>2. u = [state |-> "normal", scr |-> <<>>, effects |-> t.effects + 1, replies |-> t.replies]
        BY <3>0, <3>1, Fields
      <3>3. Is("normal", <<>>, t.effects + 1, t.replies) BY <3>2
      <3> HIDE DEF Claim, Is
      <3>4. Claim BY <3>3, <1>0, <1>t, <1>e, <1>f, <2>2, <1>2 DEF Then, Drawn, Answer, States
      <3> QED BY <3>4 DEF Claim, u
    <2>3. CASE b # "c"
      <3>1. Is(Then("esc", b), t.scr, t.effects, t.replies) BY <2>1, <2>3, <1>go DEF Then
      <3> QED BY <3>1, <1>0, <1>t, <1>e, <2>3, <1>2 DEF Then, Drawn, Answer, States
    <2> QED BY <2>2, <2>3
  <1>3. CASE t.state = "csi"
    <2>1. u = CASE b = "esc" -> t
                [] b = "n"   -> Go(Reply(t, "cpr", q), "normal")
                [] b = "c"   -> Go(Reply(t, "da", q), "normal")
                [] b = "m"   -> Go(Put(t, "sgr"), "normal")
                [] OTHER     -> Go(t, "normal")
      BY <1>3 DEF Feed
    <2>2. ASSUME NEW k \in {"cpr", "da"}, b = IF k = "cpr" THEN "n" ELSE "c" PROVE Claim
      <3> DEFINE r == [kind |-> k, at |-> Len(t.scr), for |-> q]
                 rs == Append(t.replies, r)
      <3>1. Is("normal", t.scr, t.effects, Answers(k)) BY <2>1, <2>2, <1>gr
      <3>2. r \in Report BY <1>t DEF Report
      <3>3. Answers(k) = rs /\ Answer("csi", t.scr, b, q) = <<r>> BY <2>2 DEF Answer
      <3> HIDE DEF r
      <3>4. rs \in Seq(Report) /\ rs = t.replies \o <<r>> BY <1>t, <3>2
      <3> HIDE DEF rs, Is, Claim, u, Answers
      <3>5. Then("csi", b) = "normal" /\ Drawn("csi", t.scr, b) = t.scr /\ "normal" \in States
        BY <2>2 DEF Then, Drawn, States
      <3>6. Is("normal", t.scr, t.effects, rs) BY <3>1, <3>3
      <3>7. /\ "normal" = Then(t.state, b) /\ t.scr = Drawn(t.state, t.scr, b)
            /\ rs = t.replies \o Answer(t.state, t.scr, b, q)
        BY <3>3, <3>4, <3>5, <1>3
      <3> QED BY <3>4, <3>5, <3>6, <3>7, <1>0, <1>t
    <2>3. CASE b = "m"
      <3>1. Is("normal", Append(t.scr, "sgr"), t.effects + 1, t.replies) BY <2>1, <2>3, <1>gp
      <3> QED BY <3>1, <1>0, <1>t, <1>e, <1>d, <2>3, <1>3 DEF Then, Drawn, Answer, States
    <2>4. CASE b \notin {"n", "c", "m"}
      <3>1. Is(Then("csi", b), t.scr, t.effects, t.replies)
        BY <2>1, <2>4, <1>go, <1>t, <1>3 DEF Then
      <3> QED BY <3>1, <1>0, <1>t, <1>e, <2>4, <1>3 DEF Then, Drawn, Answer, States
    <2> QED BY <2>2, <2>3, <2>4
  <1>4. CASE t.state \in {"str", "stresc"}
    <2>1. Is(Then(t.state, b), t.scr, t.effects, t.replies)
      <3>1. CASE t.state = "str" BY <3>1, <1>go, <1>t DEF Feed, Then
      <3>2. CASE t.state = "stresc" BY <3>2, <1>go, <1>t DEF Feed, Then
      <3> QED BY <3>1, <3>2, <1>4
    <2> QED BY <2>1, <1>0, <1>t, <1>e, <1>4 DEF Then, Drawn, Answer, States
  <1>5. Claim BY <1>1, <1>2, <1>3, <1>4, <1>t DEF States
  <1> QED BY <1>5

\* the function Fed defines, and that there is one
FeedStep(g, t, w, n) == IF n = 0 THEN t ELSE Feed(g[n - 1], w[n].b, w[n].for)
Feeds(g, t, w, k) == g = [n \in 0 .. k |-> FeedStep(g, t, w, n)]
Feeding(t, w) == CHOOSE g : Feeds(g, t, w, Len(w))

LEMMA FeedsExist ==
  ASSUME NEW t, NEW w, NEW k \in Nat
  PROVE  \E g : Feeds(g, t, w, k)
  <1> DEFINE S == {n \in Nat : \E g : Feeds(g, t, w, n)}
  <1>1. 0 \in S
    <2> DEFINE g == [n \in 0 .. 0 |-> t]
    <2>1. \A n \in 0 .. 0 : n = 0 OBVIOUS
    <2>2. Feeds(g, t, w, 0) BY <2>1 DEF Feeds, FeedStep
    <2> QED BY <2>2
  <1>2. ASSUME NEW n \in Nat, n \in S PROVE n + 1 \in S
    <2>1. PICK g : Feeds(g, t, w, n) BY <1>2
    <2> DEFINE h == [i \in 0 .. n + 1 |-> IF i <= n THEN g[i] ELSE FeedStep(g, t, w, i)]
    <2>2. \A i \in 0 .. n : g[i] = FeedStep(g, t, w, i) BY <2>1 DEF Feeds
    <2>3. ASSUME NEW i \in 0 .. n + 1 PROVE FeedStep(h, t, w, i) = FeedStep(g, t, w, i)
      <3>1. i # 0 => i - 1 \in 0 .. n + 1 /\ i - 1 <= n OBVIOUS
      <3>2. i # 0 => h[i - 1] = g[i - 1] BY <3>1
      <3> QED BY <3>2 DEF FeedStep
    <2>4. ASSUME NEW i \in 0 .. n + 1 PROVE h[i] = FeedStep(h, t, w, i)
      <3>1. CASE i <= n BY <3>1, <2>2, <2>3
      <3>2. CASE ~(i <= n) BY <3>2, <2>3
      <3> QED BY <3>1, <3>2
    <2>5. h = [i \in 0 .. n + 1 |-> FeedStep(h, t, w, i)] BY <2>4
    <2> HIDE DEF h
    <2> QED BY <2>5 DEF Feeds
  <1> HIDE DEF S
  <1>3. k \in S BY <1>1, <1>2, Induction
  <1> QED BY <1>3 DEF S

LEMMA FedIs ==
  ASSUME NEW t, NEW w \in Seq(Wire)
  PROVE  /\ Feeding(t, w)[0] = t
         /\ \A n \in 1 .. Len(w) : Feeding(t, w)[n] = Feed(Feeding(t, w)[n - 1], w[n].b, w[n].for)
         /\ Fed(t, w) = Feeding(t, w)[Len(w)]
  <1> DEFINE k == Len(w)
             f == Feeding(t, w)
  <1>1. k \in Nat OBVIOUS
  <1>2. Fed(t, w) = f[k] BY Zenon DEF Fed, Feeding, Feeds, FeedStep
  <1> HIDE DEF k
  <1>3. \E g : Feeds(g, t, w, k) BY <1>1, FeedsExist
  <1>4. Feeds(f, t, w, k) BY <1>3, Zenon DEF Feeding, k
  <1> HIDE DEF f
  <1>5. \A n \in 0 .. k : f[n] = FeedStep(f, t, w, n) BY <1>4, Zenon DEF Feeds
  <1>6. f[0] = t BY <1>1, <1>5 DEF FeedStep
  <1>7. \A n \in 1 .. k : n \in 0 .. k /\ n # 0 BY <1>1
  <1>8. \A n \in 1 .. k : f[n] = Feed(f[n - 1], w[n].b, w[n].for)
    BY <1>5, <1>7, Zenon DEF FeedStep
  <1> QED BY <1>2, <1>6, <1>8 DEF f, k

\* Nothing fed does nothing; one byte more is one Feed more.
LEMMA FedNothing == ASSUME NEW t PROVE Fed(t, <<>>) = t
  <1> DEFINE w == <<>>
  <1>1. w \in Seq(Wire) /\ Len(w) = 0 OBVIOUS
  <1> HIDE DEF w
  <1>2. Feeding(t, w)[0] = t /\ Fed(t, w) = Feeding(t, w)[Len(w)] BY <1>1, FedIs
  <1> QED BY <1>1, <1>2 DEF w

LEMMA FedMore ==
  ASSUME NEW t, NEW w \in Seq(Wire), NEW e \in Wire
  PROVE  Fed(t, Append(w, e)) = Feed(Fed(t, w), e.b, e.for)
  <1> DEFINE v == Append(w, e)
             k == Len(w)
             f == Feeding(t, w)
             g == Feeding(t, v)
             S == {n \in Nat : n <= k => g[n] = f[n]}
  <1>1. k \in Nat /\ v \in Seq(Wire) /\ Len(v) = k + 1 /\ v[k + 1] = e /\ \A n \in 1 .. k : v[n] = w[n]
    OBVIOUS
  <1>f. /\ f[0] = t /\ Fed(t, w) = f[k]
        /\ \A n \in 1 .. k : f[n] = Feed(f[n - 1], w[n].b, w[n].for)
    BY FedIs
  <1>g. /\ g[0] = t /\ Fed(t, v) = g[k + 1]
        /\ \A n \in 1 .. k + 1 : g[n] = Feed(g[n - 1], v[n].b, v[n].for)
    <2> HIDE DEF v, k
    <2> QED BY <1>1, FedIs
  <1> HIDE DEF v, k, f, g
  <1>2. 0 \in S BY <1>f, <1>g
  <1>3. ASSUME NEW n \in Nat, n \in S PROVE n + 1 \in S
    <2>1. CASE n + 1 <= k
      <3> DEFINE m == n + 1
      <3>1. m \in 1 .. k /\ m \in 1 .. k + 1 /\ m - 1 = n /\ n <= k BY <2>1, <1>1
      <3>2. g[n] = f[n] BY <1>3, <3>1
      <3> HIDE DEF m
      <3>3. g[m] = f[m] BY <3>1, <3>2, <1>1, <1>f, <1>g
      <3> QED BY <3>3 DEF m
    <2> QED BY <2>1
  <1> HIDE DEF S
  <1>4. \A n \in Nat : n \in S BY <1>2, <1>3, Induction
  <1>5. g[k] = f[k] BY <1>4, <1>1 DEF S
  <1>6. k + 1 \in 1 .. k + 1 /\ (k + 1) - 1 = k BY <1>1
  <1>7. g[k + 1] = Feed(g[k], e.b, e.for) BY <1>1, <1>6, <1>g
  <1> QED BY <1>5, <1>7, <1>f, <1>g DEF v

LEMMA FedOne == ASSUME NEW t, NEW e \in Wire PROVE Fed(t, <<e>>) = Feed(t, e.b, e.for)
  <1>1. <<>> \in Seq(Wire) /\ Append(<<>>, e) = <<e>> OBVIOUS
  <1>2. Fed(t, Append(<<>>, e)) = Feed(Fed(t, <<>>), e.b, e.for)
    BY <1>1, FedMore
  <1> QED BY <1>1, <1>2, FedNothing

\* Two pieces one after the other.
LEMMA LastApart ==
  ASSUME NEW B, NEW u \in Seq(B), NEW n \in Nat, Len(u) = n + 1
  PROVE  /\ SubSeq(u, 1, n) \in Seq(B) /\ u[n + 1] \in B /\ Len(SubSeq(u, 1, n)) = n
         /\ u = Append(SubSeq(u, 1, n), u[n + 1])
  OBVIOUS

LEMMA FedBoth ==
  ASSUME NEW t, NEW v \in Seq(Wire), NEW w \in Seq(Wire)
  PROVE  Fed(t, v \o w) = Fed(Fed(t, v), w)
  <1> DEFINE S == {n \in Nat : \A u \in Seq(Wire) : Len(u) = n => Fed(t, v \o u) = Fed(Fed(t, v), u)}
  <1>1. 0 \in S
    <2>1. \A u \in Seq(Wire) : Len(u) = 0 => u = <<>> OBVIOUS
    <2>2. v \o <<>> = v OBVIOUS
    <2>3. \A x : Fed(x, <<>>) = x BY FedNothing
    <2> QED BY <2>1, <2>2, <2>3
  <1>2. ASSUME NEW n \in Nat, n \in S PROVE n + 1 \in S
    <2> SUFFICES ASSUME NEW u \in Seq(Wire), Len(u) = n + 1
                 PROVE  Fed(t, v \o u) = Fed(Fed(t, v), u)
      OBVIOUS
    <2> DEFINE p == SubSeq(u, 1, n)
               e == u[n + 1]
    <2>1. p \in Seq(Wire) /\ e \in Wire /\ Len(p) = n /\ u = Append(p, e) BY LastApart
    <2> HIDE DEF p, e
    <2>2. v \o u = Append(v \o p, e) /\ v \o p \in Seq(Wire) BY <2>1
    <2>3. Fed(t, v \o p) = Fed(Fed(t, v), p) BY <2>1, <1>2
    <2>4. Fed(t, v \o u) = Feed(Fed(t, v \o p), e.b, e.for)
      <3> DEFINE q == v \o p
      <3>1. q \in Seq(Wire) /\ v \o u = Append(q, e) BY <2>2
      <3> HIDE DEF q
      <3>2. Fed(t, Append(q, e)) = Feed(Fed(t, q), e.b, e.for)
        BY <2>1, <3>1, FedMore
      <3> QED BY <3>1, <3>2 DEF q
    <2>5. Fed(Fed(t, v), u) = Feed(Fed(Fed(t, v), p), e.b, e.for)
      BY <2>1, FedMore
    <2> QED BY <2>3, <2>4, <2>5
  <1> HIDE DEF S
  <1>3. Len(w) \in S BY <1>1, <1>2, Induction
  <1> QED BY <1>3 DEF S

\* What each byte keeps, between two terminals fed the same bytes, feeding keeps.
SameBytes(v, w) == Len(v) = Len(w) /\ \A n \in 1 .. Len(v) : v[n].b = w[n].b

LEMMA FedKeeps ==
  ASSUME NEW R, NEW t, NEW u, <<t, u>> \in R, NEW v \in Seq(Wire), NEW w \in Seq(Wire), SameBytes(v, w),
         \A x, y : <<x, y>> \in R =>
           \A n \in 1 .. Len(v) : <<Feed(x, v[n].b, v[n].for), Feed(y, w[n].b, w[n].for)>> \in R
  PROVE  <<Fed(t, v), Fed(u, w)>> \in R
  <1> DEFINE k == Len(v)
             f == Feeding(t, v)
             g == Feeding(u, w)
             S == {n \in Nat : n <= k => <<f[n], g[n]>> \in R}
  <1>1. k \in Nat /\ k = Len(w) BY DEF SameBytes
  <1>f. /\ f[0] = t /\ Fed(t, v) = f[k]
        /\ \A n \in 1 .. k : f[n] = Feed(f[n - 1], v[n].b, v[n].for)
    BY FedIs
  <1>g. /\ g[0] = u /\ Fed(u, w) = g[k]
        /\ \A n \in 1 .. k : g[n] = Feed(g[n - 1], w[n].b, w[n].for)
    BY <1>1, FedIs
  <1>h. \A x, y : <<x, y>> \in R =>
           \A n \in 1 .. k : <<Feed(x, v[n].b, v[n].for), Feed(y, w[n].b, w[n].for)>> \in R
    OBVIOUS
  <1> HIDE DEF k, f, g
  <1>2. 0 \in S BY <1>f, <1>g
  <1>3. ASSUME NEW n \in Nat, n \in S PROVE n + 1 \in S
    <2>1. CASE n + 1 <= k
      <3> DEFINE m == n + 1
      <3>1. m \in 1 .. k /\ m - 1 = n /\ n <= k BY <2>1, <1>1
      <3>2. <<f[n], g[n]>> \in R BY <1>3, <3>1
      <3> HIDE DEF m
      <3>3. <<Feed(f[n], v[m].b, v[m].for), Feed(g[n], w[m].b, w[m].for)>> \in R
        BY <3>1, <3>2, <1>h
      <3>4. <<f[m], g[m]>> \in R BY <3>1, <3>3, <1>f, <1>g
      <3> QED BY <3>4 DEF m
    <2> QED BY <2>1
  <1> HIDE DEF S
  <1>4. k \in S BY <1>1, <1>2, <1>3, Induction
  <1> QED BY <1>4, <1>1, <1>f, <1>g DEF S

LEMMA WireAt ==
  ASSUME NEW w \in Seq(Wire), NEW n \in 1 .. Len(w)
  PROVE  w[n] \in Wire /\ w[n].b \in Bytes /\ w[n].for \in Nat
  <1>1. w[n] \in Wire OBVIOUS
  <1> QED BY <1>1 DEF Wire

Retag(s, q) == [j \in DOMAIN s |-> [s[j] EXCEPT !.for = q]]

LEMMA FedType == ASSUME NEW t \in Terms, NEW w \in Seq(Wire) PROVE Fed(t, w) \in Terms
  <1> DEFINE R == Terms \X Terms
  <1>1. SameBytes(w, w) /\ <<t, t>> \in R BY DEF SameBytes
  <1>2. ASSUME NEW x, NEW y, <<x, y>> \in R, NEW n \in 1 .. Len(w)
        PROVE  <<Feed(x, w[n].b, w[n].for), Feed(y, w[n].b, w[n].for)>> \in R
    <2>1. w[n].b \in Bytes /\ w[n].for \in Nat /\ x \in Terms /\ y \in Terms BY <1>2, WireAt
    <2> QED BY <2>1, FeedIs
  <1> HIDE DEF R
  <1>3. <<Fed(t, w), Fed(t, w)>> \in R BY <1>1, <1>2, FedKeeps
  <1> QED BY <1>3 DEF R

LEMMA RetagIs ==
  ASSUME NEW s \in Seq(Report), NEW q \in Nat
  PROVE  /\ Retag(s, q) \in Seq(Report) /\ Len(Retag(s, q)) = Len(s)
         /\ \A k \in 1 .. Len(s) :
              Retag(s, q)[k] = [kind |-> s[k].kind, at |-> s[k].at, for |-> q]
  <1> DEFINE e(k) == [kind |-> s[k].kind, at |-> s[k].at, for |-> q]
  <1>1. ASSUME NEW k \in DOMAIN s PROVE [s[k] EXCEPT !.for = q] = e(k) /\ e(k) \in Report
    <2>1. s[k] \in Report OBVIOUS
    <2> DEFINE z == s[k]
    <2>2. z \in Report BY <2>1
    <2> HIDE DEF z
    <2>3. [z EXCEPT !.for = q] = [kind |-> z.kind, at |-> z.at, for |-> q] BY <2>2 DEF Report
    <2>4. [kind |-> z.kind, at |-> z.at, for |-> q] \in Report BY <2>2 DEF Report
    <2> QED BY <2>3, <2>4 DEF z
  <1>2. DOMAIN s = 1 .. Len(s) /\ Len(s) \in Nat OBVIOUS
  <1> HIDE DEF e
  <1>3. Retag(s, q) = [k \in 1 .. Len(s) |-> e(k)] BY <1>1, <1>2 DEF Retag
  <1>4. [k \in 1 .. Len(s) |-> e(k)] \in Seq(Report) BY <1>1, <1>2
  <1> QED BY <1>2, <1>3, <1>4 DEF e

LEMMA AnswerIs ==
  ASSUME NEW s, NEW x \in Seq(Shown), NEW b, NEW q \in Nat
  PROVE  /\ Answer(s, x, b, q) \in Seq(Report) /\ Len(Answer(s, x, b, q)) \in 0 .. 1
         /\ Len(Answer(s, x, b, q)) = 1 <=> s = "csi" /\ b \in {"n", "c"}
         /\ Len(Answer(s, x, b, q)) = 1 =>
              Answer(s, x, b, q)[1] = [kind |-> IF b = "n" THEN "cpr" ELSE "da", at |-> Len(x), for |-> q]
  <1> DEFINE a == Answer(s, x, b, q)
             r == [kind |-> IF b = "n" THEN "cpr" ELSE "da", at |-> Len(x), for |-> q]
  <1>1. r \in Report BY DEF Report
  <1>2. a = IF s = "csi" /\ b \in {"n", "c"} THEN <<r>> ELSE <<>> BY DEF Answer
  <1> HIDE DEF a, r
  <1>3. /\ a \in Seq(Report) /\ Len(a) \in 0 .. 1 /\ (Len(a) = 1 <=> s = "csi" /\ b \in {"n", "c"})
        /\ Len(a) = 1 => a[1] = r
    BY <1>1, <1>2
  <1> QED BY <1>3 DEF a, r

LEMMA RetagAnswer ==
  ASSUME NEW s, NEW x \in Seq(Shown), NEW b, NEW p \in Nat, NEW q \in Nat
  PROVE  Retag(Answer(s, x, b, p), q) = Answer(s, x, b, q)
  <1> DEFINE a == Answer(s, x, b, p)
             c == Answer(s, x, b, q)
             d == Retag(a, q)
             k == IF b = "n" THEN "cpr" ELSE "da"
             h == s = "csi" /\ b \in {"n", "c"}
  <1>1. /\ a \in Seq(Report) /\ Len(a) \in 0 .. 1 /\ (Len(a) = 1 <=> h)
        /\ Len(a) = 1 => a[1] = [kind |-> k, at |-> Len(x), for |-> p]
    BY AnswerIs
  <1>2. /\ c \in Seq(Report) /\ Len(c) \in 0 .. 1 /\ (Len(c) = 1 <=> h)
        /\ Len(c) = 1 => c[1] = [kind |-> k, at |-> Len(x), for |-> q]
    BY AnswerIs
  <1> HIDE DEF a, c, k, h
  <1>3. /\ d \in Seq(Report) /\ Len(d) = Len(a)
        /\ \A j \in 1 .. Len(a) : d[j] = [kind |-> a[j].kind, at |-> a[j].at, for |-> q]
    BY <1>1, RetagIs
  <1> HIDE DEF d
  <1>4. Len(d) = Len(c) BY <1>1, <1>2, <1>3
  <1>5. Len(d) = 1 => d[1] = c[1]
    <2> SUFFICES ASSUME Len(d) = 1 PROVE d[1] = c[1] OBVIOUS
    <2>1. a[1] = [kind |-> k, at |-> Len(x), for |-> p] BY <1>1, <1>3
    <2>3. a[1].kind = k /\ a[1].at = Len(x) BY <2>1
    <2>6. Len(a) = 1 BY <1>3
    <2>4. 1 \in 1 .. Len(a)
      <3>1. 1 \in 1 .. 1 OBVIOUS
      <3> QED BY <2>6, <3>1, Zenon
    <2>5. d[1] = [kind |-> a[1].kind, at |-> a[1].at, for |-> q] BY <2>4, <1>3
    <2>2. d[1] = [kind |-> k, at |-> Len(x), for |-> q] BY <2>3, <2>5
    <2> QED BY <2>2, <1>2, <1>4
  <1>6. d = c BY <1>1, <1>2, <1>3, <1>4, <1>5
  <1> QED BY <1>6 DEF d, a, c

\* two terminals in the same state answer alike
AlikeReplies(r, s) == Len(r) = Len(s) /\ \A k \in 1 .. Len(r) : r[k].kind = s[k].kind

LEMMA AlikeCat ==
  ASSUME NEW l \in Seq(Report), NEW m \in Seq(Report), NEW a \in Seq(Report), NEW c \in Seq(Report),
         AlikeReplies(l, m), Len(a) = Len(c), Len(a) \in 0 .. 1, Len(a) = 1 => a[1].kind = c[1].kind
  PROVE  AlikeReplies(l \o a, m \o c)
  <1> DEFINE la == l \o a
             mc == m \o c
  <1>1. /\ la \in Seq(Report) /\ Len(la) = Len(l) + Len(a)
        /\ \A k \in 1 .. Len(l) + Len(a) : la[k] = IF k <= Len(l) THEN l[k] ELSE a[k - Len(l)]
    BY ConcatProperties
  <1>2. /\ mc \in Seq(Report) /\ Len(mc) = Len(m) + Len(c)
        /\ \A k \in 1 .. Len(m) + Len(c) : mc[k] = IF k <= Len(m) THEN m[k] ELSE c[k - Len(m)]
    BY ConcatProperties
  <1>3. Len(l) \in Nat /\ Len(m) = Len(l) /\ \A k \in 1 .. Len(l) : l[k].kind = m[k].kind
    BY DEF AlikeReplies
  <1> HIDE DEF la, mc
  <1>4. Len(la) = Len(mc) BY <1>1, <1>2, <1>3
  <1>5. ASSUME NEW k \in 1 .. Len(la) PROVE la[k].kind = mc[k].kind
    <2>1. k \in 1 .. Len(l) + Len(a) /\ k \in 1 .. Len(m) + Len(c) BY <1>1, <1>3
    <2>2. CASE k <= Len(l)
      <3>1. k \in 1 .. Len(l) /\ la[k] = l[k] /\ mc[k] = m[k] BY <2>1, <2>2, <1>1, <1>2, <1>3
      <3> QED BY <3>1, <1>3
    <2>3. CASE ~(k <= Len(l))
      <3>1. k - Len(l) = 1 /\ k - Len(m) = 1 /\ Len(a) = 1
        <4>1. Len(l) \in Nat /\ Len(m) = Len(l) BY <1>3
        <4>2. Len(a) \in 0 .. 1 OBVIOUS
        <4> DEFINE i == Len(l)
                   j == Len(a)
                   h == Len(m)
        <4>3. i \in Nat /\ h = i /\ j \in 0 .. 1 /\ k \in 1 .. i + j /\ ~(k <= i)
          BY <4>1, <4>2,
             <2>1, <2>3
        <4> HIDE DEF i, j, h
        <4>4. k - i = 1 /\ k - h = 1 /\ j = 1 BY <4>3
        <4> QED BY <4>4 DEF i, j, h
      <3>2. la[k] = a[1] /\ mc[k] = c[1] BY <2>1, <2>3, <3>1, <1>1, <1>2, <1>3
      <3> QED BY <3>1, <3>2
    <2> QED BY <2>2, <2>3
  <1> QED BY <1>4, <1>5 DEF la, mc, AlikeReplies

LEMMA FedAlike ==
  ASSUME NEW t \in Terms, NEW u \in Terms, t.state = u.state, t.replies = <<>>, u.replies = <<>>,
         NEW v \in Seq(Wire), NEW w \in Seq(Wire), SameBytes(v, w)
  PROVE  /\ Fed(t, v).state = Fed(u, w).state
         /\ AlikeReplies(Fed(t, v).replies, Fed(u, w).replies)
  <1> DEFINE Rel(x, y) == x \in Terms /\ y \in Terms /\ x.state = y.state /\ AlikeReplies(x.replies, y.replies)
             R == {p \in Terms \X Terms : Rel(p[1], p[2])}
  <1>1. \A x, y : <<x, y>> \in R <=> Rel(x, y) OBVIOUS
  <1>2. Rel(t, u) BY DEF AlikeReplies
  <1>3. ASSUME NEW x, NEW y, Rel(x, y), NEW n \in 1 .. Len(v)
        PROVE  Rel(Feed(x, v[n].b, v[n].for), Feed(y, w[n].b, w[n].for))
    <2> DEFINE b == v[n].b  p == v[n].for  q == w[n].for
               f == Feed(x, b, p)  g == Feed(y, b, q)
               s == x.state
               a == Answer(s, x.scr, b, p)  c == Answer(s, y.scr, b, q)
               l == x.replies  m == y.replies
    <2>1. b \in Bytes /\ p \in Nat /\ q \in Nat /\ w[n].b = b BY WireAt DEF SameBytes
    <2>t. x.scr \in Seq(Shown) /\ y.scr \in Seq(Shown) /\ l \in Seq(Report) /\ m \in Seq(Report)
      BY <1>3 DEF Terms
    <2> HIDE DEF b, p, q
    <2>x. x \in Terms /\ y \in Terms /\ y.state = s BY <1>3
    <2>2. f \in Terms /\ f.state = Then(s, b) /\ f.replies = l \o a BY <2>x, <2>1, FeedIs
    <2>y. g \in Terms /\ g.state = Then(y.state, b) /\ g.replies = m \o Answer(y.state, y.scr, b, q)
      BY <2>x, <2>1, FeedIs
    <2>3. g \in Terms /\ g.state = Then(s, b) /\ g.replies = m \o c
      <3> HIDE DEF s, g, m
      <3> QED BY <2>x, <2>y
    <2>a. /\ a \in Seq(Report) /\ Len(a) \in 0 .. 1 /\ (Len(a) = 1 <=> s = "csi" /\ b \in {"n", "c"})
          /\ Len(a) = 1 => a[1] = [kind |-> IF b = "n" THEN "cpr" ELSE "da", at |-> Len(x.scr), for |-> p]
      BY <2>1, <2>t, AnswerIs
    <2>c. /\ c \in Seq(Report) /\ Len(c) \in 0 .. 1 /\ (Len(c) = 1 <=> s = "csi" /\ b \in {"n", "c"})
          /\ Len(c) = 1 => c[1] = [kind |-> IF b = "n" THEN "cpr" ELSE "da", at |-> Len(y.scr), for |-> q]
      BY <2>1, <2>t, AnswerIs
    <2>5. AlikeReplies(l, m) BY <1>3
    <2> HIDE DEF a, c, f, g, l, m
    <2>4. /\ a \in Seq(Report) /\ c \in Seq(Report) /\ Len(a) = Len(c) /\ Len(a) \in 0 .. 1
          /\ Len(a) = 1 => a[1].kind = c[1].kind
      BY <2>a, <2>c
    <2>6. AlikeReplies(l \o a, m \o c) BY <2>t, <2>4, <2>5, AlikeCat
    <2> QED BY <2>1, <2>2, <2>3, <2>6 DEF f, g, b, p, q
  <1> HIDE DEF R, Rel
  <1>4. <<Fed(t, v), Fed(u, w)>> \in R BY <1>1, <1>2, <1>3, FedKeeps
  <1>5. Rel(Fed(t, v), Fed(u, w)) BY <1>1, <1>4
  <1> QED BY <1>5 DEF Rel

LEMMA RetagCat ==
  ASSUME NEW l \in Seq(Report), NEW a \in Seq(Report), NEW q \in Nat
  PROVE  Retag(l \o a, q) = Retag(l, q) \o Retag(a, q)
  <1> DEFINE la == l \o a
             x == Retag(la, q)
             y == Retag(l, q)
             z == Retag(a, q)
             yz == y \o z
             n == Len(l)
             m == Len(a)
             e(r) == [kind |-> r.kind, at |-> r.at, for |-> q]
  <1>1. /\ la \in Seq(Report) /\ Len(la) = n + m
        /\ \A k \in 1 .. n + m : la[k] = IF k <= n THEN l[k] ELSE a[k - n]
    BY ConcatProperties
  <1>y. y \in Seq(Report) /\ Len(y) = n /\ \A k \in 1 .. n : y[k] = e(l[k]) BY RetagIs
  <1>z. z \in Seq(Report) /\ Len(z) = m /\ \A k \in 1 .. m : z[k] = e(a[k]) BY RetagIs
  <1>n. n \in Nat /\ m \in Nat OBVIOUS
  <1> HIDE DEF la
  <1>x. x \in Seq(Report) /\ Len(x) = Len(la) /\ \A k \in 1 .. Len(la) : x[k] = e(la[k])
    BY <1>1, RetagIs
  <1> HIDE DEF n, m, x, y, z
  <1>2. /\ yz \in Seq(Report) /\ Len(yz) = Len(y) + Len(z)
        /\ \A k \in 1 .. Len(y) + Len(z) : yz[k] = IF k <= Len(y) THEN y[k] ELSE z[k - Len(y)]
    BY <1>y, <1>z, ConcatProperties
  <1>a. Len(y) = n /\ Len(z) = m BY <1>y, <1>z
  <1> HIDE DEF yz
  <1>3. yz \in Seq(Report) /\ Len(yz) = n + m /\ \A k \in 1 .. n + m : yz[k] = IF k <= n THEN y[k] ELSE z[k - n]
    BY <1>2, <1>a, Zenon
  <1>b. Len(la) = n + m BY <1>1
  <1>4. Len(x) = n + m /\ \A k \in 1 .. n + m : x[k] = e(la[k]) BY <1>x, <1>b, Zenon
  <1> HIDE DEF e
  <1>5. ASSUME NEW k \in 1 .. n + m PROVE x[k] = yz[k]
    <2>1. x[k] = e(la[k]) BY <1>4
    <2>2. CASE k <= n
      <3>1. k \in 1 .. n BY <2>2, <1>n
      <3>2. la[k] = l[k] /\ yz[k] = y[k] BY <2>2, <1>1, <1>3
      <3> QED BY <2>1, <3>1, <3>2, <1>y
    <2>3. CASE ~(k <= n)
      <3>1. k - n \in 1 .. m BY <2>3, <1>n
      <3>2. la[k] = a[k - n] /\ yz[k] = z[k - n] BY <2>3, <1>1, <1>3
      <3> QED BY <2>1, <3>1, <3>2, <1>z
    <2> QED BY <2>2, <2>3
  <1>6. x = yz BY <1>x, <1>3, <1>4, <1>5
  <1> QED BY <1>6 DEF x, yz, la, y, z

LEMMA RetagNothing == ASSUME NEW q \in Nat PROVE Retag(<<>>, q) = <<>>
  <1> DEFINE z == <<>>
  <1>1. z \in Seq(Report) /\ Len(z) = 0 OBVIOUS
  <1> HIDE DEF z
  <1>2. Retag(z, q) \in Seq(Report) /\ Len(Retag(z, q)) = 0 BY <1>1, RetagIs
  <1>3. Retag(z, q) = <<>> BY <1>2
  <1> QED BY <1>3 DEF z

\* Fed the same, two terminals with the same screen in the same state do the same.
LEMMA FedSame ==
  ASSUME NEW t \in Terms, NEW u \in Terms, t.state = u.state, t.scr = u.scr, t.replies = <<>>, u.replies = <<>>,
         NEW v \in Seq(Wire), NEW w \in Seq(Wire), SameBytes(v, w), NEW q \in Nat,
         \A n \in 1 .. Len(w) : w[n].for = q
  PROVE  /\ Fed(t, v).state = Fed(u, w).state /\ Fed(t, v).scr = Fed(u, w).scr
         /\ Fed(u, w).replies = Retag(Fed(t, v).replies, q)
  <1> DEFINE Rel(x, y) == /\ x \in Terms /\ y \in Terms /\ x.state = y.state /\ x.scr = y.scr
                          /\ y.replies = Retag(x.replies, q)
             R == {p \in Terms \X Terms : Rel(p[1], p[2])}
  <1>1. \A x, y : <<x, y>> \in R <=> Rel(x, y) OBVIOUS
  <1>2. Rel(t, u) BY RetagNothing
  <1>3. ASSUME NEW x, NEW y, Rel(x, y), NEW n \in 1 .. Len(v)
        PROVE  Rel(Feed(x, v[n].b, v[n].for), Feed(y, w[n].b, w[n].for))
    <2> DEFINE b == v[n].b  p == v[n].for
               f == Feed(x, b, p)  g == Feed(y, b, q)
               s == x.state  z == x.scr
               a == Answer(s, z, b, p)  c == Answer(s, z, b, q)
               l == x.replies  m == y.replies
    <2>1. b \in Bytes /\ p \in Nat /\ w[n].for = q /\ w[n].b = b BY WireAt DEF SameBytes
    <2>t. z \in Seq(Shown) /\ l \in Seq(Report) /\ m \in Seq(Report) BY <1>3 DEF Terms
    <2>x. x \in Terms /\ y \in Terms /\ y.state = s /\ y.scr = z /\ m = Retag(l, q) BY <1>3
    <2> HIDE DEF b, p
    <2>2. f \in Terms /\ f.state = Then(s, b) /\ f.scr = Drawn(s, z, b) /\ f.replies = l \o a
      BY <2>x, <2>1, FeedIs
    <2>y. /\ g \in Terms /\ g.state = Then(y.state, b) /\ g.scr = Drawn(y.state, y.scr, b)
          /\ g.replies = m \o Answer(y.state, y.scr, b, q)
      BY <2>x, <2>1, FeedIs
    <2>3. g \in Terms /\ g.state = Then(s, b) /\ g.scr = Drawn(s, z, b) /\ g.replies = m \o c
      <3> HIDE DEF s, z, g, m
      <3> QED BY <2>x, <2>y
    <2>4. a \in Seq(Report) /\ c = Retag(a, q)
      <3> HIDE DEF s, z
      <3>1. a \in Seq(Report) BY <2>1, <2>t, AnswerIs
      <3>2. c = Retag(a, q) BY <2>1, <2>t, RetagAnswer
      <3> QED BY <3>1, <3>2
    <2> HIDE DEF a, c, f, g, l, m, s, z
    <2>5. m \o c = Retag(l \o a, q) BY <2>t, <2>x, <2>4, RetagCat
    <2>6. Rel(f, g) BY <2>2, <2>3, <2>5
    <2> QED BY <2>1, <2>6 DEF f, g, b, p
  <1> HIDE DEF R, Rel
  <1>4. <<Fed(t, v), Fed(u, w)>> \in R BY <1>1, <1>2, <1>3, FedKeeps
  <1>5. Rel(Fed(t, v), Fed(u, w)) BY <1>1, <1>4
  <1> QED BY <1>5 DEF Rel

\* What was answered before stays in front.
LEMMA FedAfter ==
  ASSUME NEW t \in Terms, NEW u \in Terms, t.state = u.state, t.scr = u.scr, u.replies = <<>>,
         NEW w \in Seq(Wire)
  PROVE  /\ Fed(t, w).state = Fed(u, w).state /\ Fed(t, w).scr = Fed(u, w).scr
         /\ Fed(t, w).replies = t.replies \o Fed(u, w).replies
  <1> DEFINE o == t.replies
             Rel(x, y) == /\ x \in Terms /\ y \in Terms /\ x.state = y.state /\ x.scr = y.scr
                          /\ x.replies = o \o y.replies
             R == {p \in Terms \X Terms : Rel(p[1], p[2])}
  <1>1. \A x, y : <<x, y>> \in R <=> Rel(x, y) OBVIOUS
  <1>o. o \in Seq(Report) BY DEF Terms
  <1>2. Rel(t, u)
    <2>1. o \o <<>> = o BY <1>o
    <2> QED BY <2>1
  <1> HIDE DEF o
  <1>3. ASSUME NEW x, NEW y, Rel(x, y), NEW n \in 1 .. Len(w)
        PROVE  Rel(Feed(x, w[n].b, w[n].for), Feed(y, w[n].b, w[n].for))
    <2> DEFINE b == w[n].b  p == w[n].for
               f == Feed(x, b, p)  g == Feed(y, b, p)
               s == y.state  z == y.scr
               a == Answer(s, z, b, p)
               l == x.replies  m == y.replies
    <2>1. b \in Bytes /\ p \in Nat BY WireAt
    <2>t. z \in Seq(Shown) /\ l \in Seq(Report) /\ m \in Seq(Report) BY <1>3 DEF Terms
    <2>x. x \in Terms /\ y \in Terms /\ x.state = s /\ x.scr = z /\ l = o \o m BY <1>3
    <2> HIDE DEF b, p
    <2>2. g \in Terms /\ g.state = Then(s, b) /\ g.scr = Drawn(s, z, b) /\ g.replies = m \o a
      BY <2>x, <2>1, FeedIs
    <2>y. /\ f \in Terms /\ f.state = Then(x.state, b) /\ f.scr = Drawn(x.state, x.scr, b)
          /\ f.replies = l \o Answer(x.state, x.scr, b, p)
      BY <2>x, <2>1, FeedIs
    <2>3. f \in Terms /\ f.state = Then(s, b) /\ f.scr = Drawn(s, z, b) /\ f.replies = l \o a
      <3> HIDE DEF s, z, f, l
      <3> QED BY <2>x, <2>y
    <2>4. a \in Seq(Report) BY <2>1, <2>t, AnswerIs
    <2> HIDE DEF a, f, g, l, m, s, z
    <2>5. l \o a = o \o (m \o a) BY <2>t, <2>x, <2>4, <1>o
    <2>6. Rel(f, g) BY <2>2, <2>3, <2>5
    <2> QED BY <2>1, <2>6 DEF f, g, b, p
  <1>s. SameBytes(w, w) BY DEF SameBytes
  <1> HIDE DEF R, Rel
  <1>4. <<Fed(t, w), Fed(u, w)>> \in R BY <1>1, <1>2, <1>3, <1>s, FedKeeps
  <1>5. Rel(Fed(t, w), Fed(u, w)) BY <1>1, <1>4
  <1> QED BY <1>5 DEF Rel, o

--------------------------------------------------------------------------------
(***************************************************************************)
(* Bytes on the wire.                                                      *)
(***************************************************************************)
LEMMA WireIs ==
  ASSUME NEW x \in Seq(Bytes), NEW q \in Nat
  PROVE  /\ OnWire(x, q) \in Seq(Wire) /\ Len(OnWire(x, q)) = Len(x)
         /\ \A k \in 1 .. Len(x) : OnWire(x, q)[k] = [b |-> x[k], for |-> q]
  <1> DEFINE e(k) == [b |-> x[k], for |-> q]
  <1>1. \A k \in 1 .. Len(x) : x[k] \in Bytes OBVIOUS
  <1>2. \A k \in 1 .. Len(x) : e(k) \in Wire BY <1>1 DEF Wire
  <1>3. DOMAIN x = 1 .. Len(x) /\ Len(x) \in Nat OBVIOUS
  <1>4. OnWire(x, q) = [k \in 1 .. Len(x) |-> e(k)] BY <1>3 DEF OnWire
  <1> HIDE DEF e
  <1>5. [k \in 1 .. Len(x) |-> e(k)] \in Seq(Wire) BY <1>2, <1>3
  <1> QED BY <1>3, <1>4, <1>5 DEF e

LEMMA WireMore ==
  ASSUME NEW x \in Seq(Bytes), NEW b \in Bytes, NEW q \in Nat
  PROVE  OnWire(Append(x, b), q) = Append(OnWire(x, q), [b |-> b, for |-> q])
  <1> DEFINE y == Append(x, b)
             e == [b |-> b, for |-> q]
             w == OnWire(x, q)
             v == OnWire(y, q)
             n == Len(x)
  <1>1. y \in Seq(Bytes) /\ Len(y) = n + 1 /\ y[n + 1] = b /\ (\A k \in 1 .. n : y[k] = x[k]) /\ n \in Nat
    OBVIOUS
  <1>2. w \in Seq(Wire) /\ Len(w) = n /\ \A k \in 1 .. n : w[k] = [b |-> x[k], for |-> q] BY WireIs
  <1> HIDE DEF y, n
  <1>3. v \in Seq(Wire) /\ Len(v) = Len(y) /\ \A k \in 1 .. Len(y) : v[k] = [b |-> y[k], for |-> q]
    BY <1>1, WireIs
  <1>e. e \in Wire BY DEF Wire
  <1> HIDE DEF w, v, e
  <1>4. Append(w, e) \in Seq(Wire) /\ Len(Append(w, e)) = n + 1 /\ Append(w, e)[n + 1] = e
        /\ \A k \in 1 .. n : Append(w, e)[k] = w[k]
    BY <1>1, <1>2, <1>e
  <1> DEFINE z == Append(w, e)
  <1> HIDE DEF z
  <1>5. ASSUME NEW k \in 1 .. n + 1 PROVE v[k] = z[k]
    <2>1. v[k] = [b |-> y[k], for |-> q] BY <1>1, <1>3
    <2>2. CASE k = n + 1 BY <2>1, <2>2, <1>1, <1>4 DEF z, e
    <2>3. CASE k # n + 1
      <3>1. k \in 1 .. n BY <2>3, <1>1
      <3> QED BY <2>1, <3>1, <1>1, <1>2, <1>4 DEF z
    <2> QED BY <2>2, <2>3
  <1>6. v = z BY <1>1, <1>3, <1>4, <1>5 DEF z
  <1> QED BY <1>6 DEF v, z, w, e, y

LEMMA WireBoth ==
  ASSUME NEW x \in Seq(Bytes), NEW y \in Seq(Bytes), NEW q \in Nat
  PROVE  OnWire(x \o y, q) = OnWire(x, q) \o OnWire(y, q)
  <1> DEFINE xy == x \o y
             v == OnWire(x, q)
             w == OnWire(y, q)
             vw == v \o w
             o == OnWire(xy, q)
             n == Len(x)
             m == Len(y)
  <1>n. n \in Nat /\ m \in Nat OBVIOUS
  <1>1. /\ xy \in Seq(Bytes) /\ Len(xy) = n + m
        /\ \A k \in 1 .. n + m : xy[k] = IF k <= n THEN x[k] ELSE y[k - n]
    BY ConcatProperties
  <1>v. v \in Seq(Wire) /\ Len(v) = n /\ \A k \in 1 .. n : v[k] = [b |-> x[k], for |-> q] BY WireIs
  <1>w. w \in Seq(Wire) /\ Len(w) = m /\ \A k \in 1 .. m : w[k] = [b |-> y[k], for |-> q] BY WireIs
  <1> HIDE DEF xy, n, m
  <1>o. o \in Seq(Wire) /\ Len(o) = Len(xy) /\ \A k \in 1 .. Len(xy) : o[k] = [b |-> xy[k], for |-> q]
    BY <1>1, WireIs
  <1> HIDE DEF v, w, o
  <1>2. /\ vw \in Seq(Wire) /\ Len(vw) = Len(v) + Len(w)
        /\ \A k \in 1 .. Len(v) + Len(w) : vw[k] = IF k <= Len(v) THEN v[k] ELSE w[k - Len(v)]
    BY <1>v, <1>w, ConcatProperties
  <1>a. Len(v) = n /\ Len(w) = m /\ Len(xy) = n + m BY <1>v, <1>w, <1>1
  <1> HIDE DEF vw
  <1>3. /\ vw \in Seq(Wire) /\ Len(vw) = n + m
        /\ \A k \in 1 .. n + m : vw[k] = IF k <= n THEN v[k] ELSE w[k - n]
    BY <1>2, <1>a, Zenon
  <1>4. Len(o) = n + m /\ \A k \in 1 .. n + m : o[k] = [b |-> xy[k], for |-> q] BY <1>o, <1>a, Zenon
  <1>5. ASSUME NEW k \in 1 .. n + m PROVE o[k] = vw[k]
    <2>1. o[k] = [b |-> xy[k], for |-> q] BY <1>4
    <2>2. CASE k <= n
      <3>1. k \in 1 .. n BY <2>2, <1>n
      <3>2. xy[k] = x[k] /\ vw[k] = v[k] BY <2>2, <1>1, <1>3
      <3> QED BY <2>1, <3>1, <3>2, <1>v
    <2>3. CASE ~(k <= n)
      <3>1. k - n \in 1 .. m BY <2>3, <1>n
      <3>2. xy[k] = y[k - n] /\ vw[k] = w[k - n] BY <2>3, <1>1, <1>3
      <3> QED BY <2>1, <3>1, <3>2, <1>w
    <2> QED BY <2>2, <2>3
  <1>6. o = vw BY <1>o, <1>3, <1>4, <1>5
  <1> QED BY <1>6 DEF o, vw, xy, v, w

LEMMA WireNothing == ASSUME NEW q PROVE OnWire(<<>>, q) = <<>> BY DEF OnWire

\* the terminal t, sent x for the case q
Typed(t, x, q) == Fed(t, OnWire(x, q))

LEMMA TypedNothing == ASSUME NEW t, NEW q PROVE Typed(t, <<>>, q) = t
  BY WireNothing, FedNothing DEF Typed

LEMMA TypedType ==
  ASSUME NEW t \in Terms, NEW x \in Seq(Bytes), NEW q \in Nat PROVE Typed(t, x, q) \in Terms
  BY WireIs, FedType DEF Typed

LEMMA TypedMore ==
  ASSUME NEW t \in Terms, NEW x \in Seq(Bytes), NEW b \in Bytes, NEW q \in Nat
  PROVE  LET u == Typed(t, x, q)
             v == Typed(t, Append(x, b), q)
         IN  /\ u \in Terms /\ v \in Terms /\ v.state = Then(u.state, b) /\ v.scr = Drawn(u.state, u.scr, b)
             /\ v.replies = u.replies \o Answer(u.state, u.scr, b, q)
  <1> DEFINE w == OnWire(x, q)
             e == [b |-> b, for |-> q]
             u == Typed(t, x, q)
             v == Typed(t, Append(x, b), q)
  <1>1. w \in Seq(Wire) /\ e \in Wire /\ e.b = b /\ e.for = q BY WireIs DEF Wire
  <1>2. OnWire(Append(x, b), q) = Append(w, e) BY WireMore
  <1> HIDE DEF w, e
  <1>3. u = Fed(t, w) BY DEF Typed, w
  <1>4. v = Fed(t, Append(w, e)) BY <1>2 DEF Typed
  <1> HIDE DEF u, v
  <1>5. u \in Terms BY <1>1, <1>3, FedType
  <1>6. v = Feed(u, b, q) BY <1>1, <1>3, <1>4, FedMore
  <1>7. /\ u \in Terms /\ v \in Terms /\ v.state = Then(u.state, b) /\ v.scr = Drawn(u.state, u.scr, b)
        /\ v.replies = u.replies \o Answer(u.state, u.scr, b, q)
    BY <1>5, <1>6, FeedIs
  <1> QED BY <1>7 DEF u, v

LEMMA TypedBoth ==
  ASSUME NEW t, NEW x \in Seq(Bytes), NEW y \in Seq(Bytes), NEW q \in Nat
  PROVE  Typed(t, x \o y, q) = Typed(Typed(t, x, q), y, q)
  <1> DEFINE v == OnWire(x, q)
             w == OnWire(y, q)
  <1>1. v \in Seq(Wire) /\ w \in Seq(Wire) BY WireIs
  <1>2. OnWire(x \o y, q) = v \o w BY WireBoth
  <1> HIDE DEF v, w
  <1>3. Fed(t, v \o w) = Fed(Fed(t, v), w) BY <1>1, FedBoth
  <1>4. Fed(t, OnWire(x \o y, q)) = Fed(Fed(t, v), w) BY <1>2, <1>3
  <1> QED BY <1>4 DEF Typed, v, w

\* what the case is does not matter, but for whom the answers are
LEMMA TypedSame ==
  ASSUME NEW t \in Terms, NEW u \in Terms, t.state = u.state, t.scr = u.scr, t.replies = <<>>, u.replies = <<>>,
         NEW x \in Seq(Bytes), NEW p \in Nat, NEW q \in Nat
  PROVE  /\ Typed(t, x, p).state = Typed(u, x, q).state /\ Typed(t, x, p).scr = Typed(u, x, q).scr
         /\ Typed(u, x, q).replies = Retag(Typed(t, x, p).replies, q)
  <1> DEFINE v == OnWire(x, p)
             w == OnWire(x, q)
  <1>1. v \in Seq(Wire) /\ Len(v) = Len(x) /\ \A k \in 1 .. Len(x) : v[k] = [b |-> x[k], for |-> p]
    BY WireIs
  <1>2. w \in Seq(Wire) /\ Len(w) = Len(x) /\ \A k \in 1 .. Len(x) : w[k] = [b |-> x[k], for |-> q]
    BY WireIs
  <1> HIDE DEF v, w
  <1>3. SameBytes(v, w)
    <2>1. ASSUME NEW k \in 1 .. Len(x) PROVE v[k].b = w[k].b
      <3>1. v[k] = [b |-> x[k], for |-> p] BY <1>1
      <3>2. w[k] = [b |-> x[k], for |-> q] BY <1>2
      <3> QED BY <3>1, <3>2
    <2> QED BY <1>1, <1>2, <2>1 DEF SameBytes
  <1>4. ASSUME NEW k \in 1 .. Len(w) PROVE w[k].for = q
    <2>1. k \in 1 .. Len(x) BY <1>2
    <2>2. w[k] = [b |-> x[k], for |-> q] BY <1>2, <2>1
    <2> QED BY <2>2
  <1>5. /\ Fed(t, v).state = Fed(u, w).state /\ Fed(t, v).scr = Fed(u, w).scr
        /\ Fed(u, w).replies = Retag(Fed(t, v).replies, q)
    BY <1>1, <1>2, <1>3, <1>4, FedSame
  <1> QED BY <1>5 DEF Typed, v, w

LEMMA TypedAlike ==
  ASSUME NEW t \in Terms, NEW u \in Terms, t.state = u.state, t.replies = <<>>, u.replies = <<>>,
         NEW x \in Seq(Bytes), NEW p \in Nat, NEW q \in Nat
  PROVE  AlikeReplies(Typed(t, x, p).replies, Typed(u, x, q).replies)
  <1> DEFINE v == OnWire(x, p)
             w == OnWire(x, q)
  <1>1. v \in Seq(Wire) /\ Len(v) = Len(x) /\ \A k \in 1 .. Len(x) : v[k] = [b |-> x[k], for |-> p]
    BY WireIs
  <1>2. w \in Seq(Wire) /\ Len(w) = Len(x) /\ \A k \in 1 .. Len(x) : w[k] = [b |-> x[k], for |-> q]
    BY WireIs
  <1> HIDE DEF v, w
  <1>3. SameBytes(v, w)
    <2>1. ASSUME NEW k \in 1 .. Len(x) PROVE v[k].b = w[k].b
      <3>1. v[k] = [b |-> x[k], for |-> p] BY <1>1
      <3>2. w[k] = [b |-> x[k], for |-> q] BY <1>2
      <3> QED BY <3>1, <3>2
    <2> QED BY <1>1, <1>2, <2>1 DEF SameBytes
  <1>5. AlikeReplies(Fed(t, v).replies, Fed(u, w).replies)
    BY <1>1, <1>2, <1>3, FedAlike
  <1> QED BY <1>5 DEF Typed, v, w

--------------------------------------------------------------------------------
(***************************************************************************)
(* The sender's own bytes.                                                 *)
(***************************************************************************)
Esc   == <<"esc">>
Half  == <<"esc", "[">>
St    == <<"esc", "\\">>
StEsc == <<"esc", "\\", "esc">>
Clear == <<"esc", "\\", "esc", "c">>
Place(x, q) == [kind |-> "cpr", at |-> Len(x), for |-> q]

LEMMA BytesAre ==
  /\ "esc" \in Bytes /\ "[" \in Bytes /\ "n" \in Bytes /\ "c" \in Bytes
  /\ "\\" \in Bytes
  BY DEF Bytes

LEMMA Further ==
  ASSUME NEW B, NEW s \in Seq(B), NEW e \in B, NEW n \in Nat, Len(s) = n
  PROVE  /\ Append(s, e) \in Seq(B) /\ Len(Append(s, e)) = n + 1 /\ Append(s, e)[n + 1] = e
         /\ \A k \in 1 .. n : Append(s, e)[k] = s[k]
  <1>1. Append(s, e) \in Seq(B) OBVIOUS
  <1>2. Len(Append(s, e)) = Len(s) + 1 OBVIOUS
  <1>3. Append(s, e)[Len(s) + 1] = e OBVIOUS
  <1>4. \A k \in 1 .. Len(s) : Append(s, e)[k] = s[k] OBVIOUS
  <1> QED BY <1>1, <1>2, <1>3, <1>4

LEMMA Two ==
  ASSUME NEW B, NEW a \in B, NEW b \in B
  PROVE  Append(<<a>>, b) = <<a, b>>
  <1> DEFINE s == <<a>>  t == <<a, b>>  r == Append(s, b)
  <1>1. s \in Seq(B) /\ Len(s) = 1 /\ s[1] = a OBVIOUS
  <1>2. t \in Seq(B) /\ Len(t) = 2 /\ t[1] = a /\ t[2] = b OBVIOUS
  <1> HIDE DEF s, t
  <1>3. r \in Seq(B) /\ Len(r) = 1 + 1 /\ r[1 + 1] = b /\ \A k \in 1 .. 1 : r[k] = s[k]
    BY <1>1, Further
  <1> HIDE DEF r
  <1>4. r \in Seq(B) /\ Len(r) = 2 /\ r[2] = b /\ r[1] = s[1] BY <1>3
  <1>5. \A k \in 1 .. 2 : k = 1 \/ k = 2 OBVIOUS
  <1>6. r = t BY <1>1, <1>2, <1>4, <1>5
  <1> QED BY <1>6 DEF r, s, t

LEMMA Three ==
  ASSUME NEW B, NEW a \in B, NEW b \in B, NEW c \in B
  PROVE  Append(<<a, b>>, c) = <<a, b, c>>
  <1> DEFINE s == <<a, b>>  t == <<a, b, c>>  r == Append(s, c)
  <1>1. s \in Seq(B) /\ Len(s) = 2 /\ s[1] = a /\ s[2] = b OBVIOUS
  <1>2. t \in Seq(B) /\ Len(t) = 3 /\ t[1] = a /\ t[2] = b /\ t[3] = c OBVIOUS
  <1> HIDE DEF s, t
  <1>3. r \in Seq(B) /\ Len(r) = 2 + 1 /\ r[2 + 1] = c /\ \A k \in 1 .. 2 : r[k] = s[k]
    BY <1>1, Further
  <1> HIDE DEF r
  <1>4. r \in Seq(B) /\ Len(r) = 3 /\ r[3] = c /\ r[1] = s[1] /\ r[2] = s[2] BY <1>3
  <1>5. \A k \in 1 .. 3 : k = 1 \/ k = 2 \/ k = 3 OBVIOUS
  <1>6. r = t BY <1>1, <1>2, <1>4, <1>5
  <1> QED BY <1>6 DEF r, s, t

LEMMA Four ==
  ASSUME NEW B, NEW a \in B, NEW b \in B, NEW c \in B, NEW d \in B
  PROVE  Append(<<a, b, c>>, d) = <<a, b, c, d>>
  <1> DEFINE s == <<a, b, c>>  t == <<a, b, c, d>>  r == Append(s, d)
  <1>1. s \in Seq(B) /\ Len(s) = 3 /\ s[1] = a /\ s[2] = b /\ s[3] = c OBVIOUS
  <1>2. t \in Seq(B) /\ Len(t) = 4 /\ t[1] = a /\ t[2] = b /\ t[3] = c /\ t[4] = d OBVIOUS
  <1> HIDE DEF s, t
  <1>3. r \in Seq(B) /\ Len(r) = 3 + 1 /\ r[3 + 1] = d /\ \A k \in 1 .. 3 : r[k] = s[k]
    BY <1>1, Further
  <1> HIDE DEF r
  <1>4. r \in Seq(B) /\ Len(r) = 4 /\ r[4] = d /\ r[1] = s[1] /\ r[2] = s[2] /\ r[3] = s[3] BY <1>3
  <1>5. \A k \in 1 .. 4 : k = 1 \/ k = 2 \/ k = 3 \/ k = 4 OBVIOUS
  <1>6. r = t BY <1>1, <1>2, <1>4, <1>5
  <1> QED BY <1>6 DEF r, s, t

LEMMA OwnBytes ==
  /\ Esc \in Seq(Bytes) /\ Half \in Seq(Bytes) /\ Query \in Seq(Bytes)
  /\ St \in Seq(Bytes) /\ StEsc \in Seq(Bytes) /\ Clear \in Seq(Bytes)
  /\ <<>> \in Seq(Bytes)
  /\ Append(<<>>, "esc") = Esc /\ Append(Esc, "[") = Half /\ Append(Half, "n") = Query
  /\ Append(Esc, "\\") = St /\ Append(St, "esc") = StEsc /\ Append(StEsc, "c") = Clear
  <1>0. Append(<<>>, "esc") = Esc BY DEF Esc
  <1>1. Append(Esc, "[") = Half BY BytesAre, Two DEF Esc, Half
  <1>2. Append(Half, "n") = Query BY BytesAre, Three DEF Half, Query
  <1>3. Append(Esc, "\\") = St BY BytesAre, Two DEF Esc, St
  <1>4. Append(St, "esc") = StEsc BY BytesAre, Three DEF St, StEsc
  <1>5. Append(StEsc, "c") = Clear BY BytesAre, Four DEF StEsc, Clear
  <1>6. <<>> \in Seq(Bytes) OBVIOUS
  <1>7. Esc \in Seq(Bytes) BY BytesAre DEF Esc
  <1>8. Half \in Seq(Bytes) /\ St \in Seq(Bytes) BY <1>1, <1>3, <1>7, BytesAre
  <1>9. Query \in Seq(Bytes) BY <1>2, <1>8, BytesAre
  <1>10. StEsc \in Seq(Bytes) BY <1>4, <1>8, BytesAre
  <1>11. Clear \in Seq(Bytes) BY <1>5, <1>10, BytesAre
  <1> QED BY <1>0, <1>1, <1>2, <1>3, <1>4, <1>5, <1>6, <1>7, <1>8, <1>9, <1>10, <1>11

LEMMA Unanswered ==
  ASSUME NEW s, NEW x, NEW b, NEW q, s # "csi" \/ b \notin {"n", "c"}
  PROVE  Answer(s, x, b, q) = <<>>
  BY DEF Answer

\* One byte more that is not answered.
Unasked(u, v, b) == v.state = Then(u.state, b) /\ v.scr = Drawn(u.state, u.scr, b) /\ v.replies = u.replies

LEMMA TypedQuiet ==
  ASSUME NEW t \in Terms, NEW x \in Seq(Bytes), NEW b \in Bytes, NEW q \in Nat,
         NEW y, y = Append(x, b), Typed(t, x, q).state # "csi" \/ b \notin {"n", "c"}
  PROVE  Unasked(Typed(t, x, q), Typed(t, y, q), b)
  <1> DEFINE u == Typed(t, x, q)
             v == Typed(t, Append(x, b), q)
  <1>1. /\ u \in Terms /\ v.state = Then(u.state, b) /\ v.scr = Drawn(u.state, u.scr, b)
        /\ v.replies = u.replies \o Answer(u.state, u.scr, b, q)
    BY TypedMore
  <1>2. Answer(u.state, u.scr, b, q) = <<>> BY Unanswered
  <1>3. u.replies \in Seq(Report) BY <1>1 DEF Terms
  <1>5. v = Typed(t, y, q) OBVIOUS
  <1> HIDE DEF u, v
  <1>4. u.replies \o <<>> = u.replies BY <1>3
  <1>6. Unasked(u, v, b) BY <1>1, <1>2, <1>4 DEF Unasked
  <1> QED BY <1>5, <1>6 DEF u

LEMMA TypedPlain ==
  ASSUME NEW t \in Terms, NEW x \in Seq(Bytes), NEW b \in Bytes, NEW q \in Nat,
         NEW y, y = Append(x, b), b # "n", b # "c"
  PROVE  Unasked(Typed(t, x, q), Typed(t, y, q), b)
  BY TypedQuiet

\* The question: not answered before its last byte, answered where no sequence is open,
\* swallowed where one is; after it none is open.
LEMMA QueryFed ==
  ASSUME NEW t \in Terms, NEW q \in Nat
  PROVE  /\ Typed(t, Half, q).replies = t.replies
         /\ Typed(t, Query, q) \in Terms /\ Typed(t, Query, q).state = "normal"
         /\ t.state = "normal" =>
              /\ Typed(t, Query, q).scr = t.scr
              /\ Typed(t, Query, q).replies = t.replies \o <<Place(t.scr, q)>>
         /\ t.state # "normal" => Typed(t, Query, q).replies = t.replies
  <1> DEFINE z == Typed(t, <<>>, q)
             e == Typed(t, Esc, q)
             h == Typed(t, Half, q)
             u == Typed(t, Query, q)
             Claim == /\ h.replies = t.replies /\ u \in Terms /\ u.state = "normal"
                      /\ t.state = "normal" => u.scr = t.scr /\ u.replies = t.replies \o <<Place(t.scr, q)>>
                      /\ t.state # "normal" => u.replies = t.replies
  <1>t. z = t BY TypedNothing
  <1>1. e.state = Then(z.state, "esc") /\ e.scr = Drawn(z.state, z.scr, "esc") /\ e.replies = z.replies
    <2>1. "esc" # "n" /\ "esc" # "c" OBVIOUS
    <2>2. "esc" \in Bytes /\ <<>> \in Seq(Bytes) BY BytesAre, OwnBytes
    <2>3. Esc = Append(<<>>, "esc") BY OwnBytes
    <2>4. Unasked(z, e, "esc") BY <2>1, <2>2, <2>3, TypedPlain
    <2> QED BY <2>4 DEF Unasked
  <1>2. h.state = Then(e.state, "[") /\ h.scr = Drawn(e.state, e.scr, "[") /\ h.replies = e.replies
    <2>1. "[" # "n" /\ "[" # "c" OBVIOUS
    <2>2. "[" \in Bytes /\ Esc \in Seq(Bytes) BY BytesAre, OwnBytes
    <2>3. Half = Append(Esc, "[") BY OwnBytes
    <2>4. Unasked(e, h, "[") BY <2>1, <2>2, <2>3, TypedPlain
    <2> QED BY <2>4 DEF Unasked
  <1>3. /\ h \in Terms /\ u \in Terms /\ u.state = Then(h.state, "n") /\ u.scr = Drawn(h.state, h.scr, "n")
        /\ u.replies = h.replies \o Answer(h.state, h.scr, "n", q)
    <2> DEFINE y == Append(Half, "n")
               w == Typed(t, y, q)
    <2>1. /\ h \in Terms /\ w \in Terms /\ w.state = Then(h.state, "n") /\ w.scr = Drawn(h.state, h.scr, "n")
          /\ w.replies = h.replies \o Answer(h.state, h.scr, "n", q)
      <3>1. "n" \in Bytes /\ Half \in Seq(Bytes) BY BytesAre, OwnBytes
      <3> QED BY <3>1, TypedMore
    <2>2. w = u BY OwnBytes
    <2> HIDE DEF w, h, u
    <2> QED BY <2>1, <2>2
  <1>s. t.state \in States /\ t.replies \in Seq(Report) BY DEF Terms
  <1>e. t.replies \o <<>> = t.replies BY <1>s
  <1> HIDE DEF z, e, h, u
  <1>4. ASSUME t.state = "normal" PROVE Claim
    <2>1. e.state = "esc" /\ e.scr = t.scr BY <1>1, <1>t, <1>4 DEF Then, Drawn
    <2>2. h.state = "csi" /\ h.scr = t.scr BY <1>2, <2>1 DEF Then, Drawn
    <2>3. u.state = "normal" /\ u.scr = t.scr BY <1>3, <2>2 DEF Then, Drawn
    <2>4. Answer("csi", t.scr, "n", q) = <<Place(t.scr, q)>> BY DEF Answer, Place
    <2>5. u.replies = t.replies \o <<Place(t.scr, q)>> BY <1>1, <1>2, <1>3, <1>t, <2>2, <2>4
    <2> QED BY <1>1, <1>2, <1>3, <1>4, <1>t, <2>3, <2>5
  <1>5. ASSUME t.state # "normal" PROVE Claim
    <2>1. e.state \in {"normal", "csi", "stresc"} BY <1>1, <1>t, <1>5, <1>s DEF Then, States
    <2>2. h.state = "normal" BY <1>2, <2>1 DEF Then
    <2>3. u.state = "normal" BY <1>3, <2>2 DEF Then
    <2>4. Answer(h.state, h.scr, "n", q) = <<>> BY <2>2 DEF Answer
    <2>5. u.replies = t.replies BY <1>1, <1>2, <1>3, <1>t, <2>4, <1>e
    <2> QED BY <1>1, <1>2, <1>3, <1>5, <1>t, <2>3, <2>5
  <1>6. Claim BY <1>4, <1>5
  <1> QED BY <1>6 DEF h, u

\* ESC \ ESC c: whatever was open is closed, the screen is cleared, nothing is answered.
LEMMA ClearFed ==
  ASSUME NEW t \in Terms, NEW q \in Nat
  PROVE  /\ Typed(t, Clear, q) \in Terms /\ Typed(t, Clear, q).state = "normal"
         /\ Typed(t, Clear, q).scr = <<>> /\ Typed(t, Clear, q).replies = t.replies
  <1> DEFINE z == Typed(t, <<>>, q)
             e == Typed(t, Esc, q)
             f == Typed(t, St, q)
             g == Typed(t, StEsc, q)
             u == Typed(t, Clear, q)
             Claim == u \in Terms /\ u.state = "normal" /\ u.scr = <<>> /\ u.replies = t.replies
  <1>t. z = t BY TypedNothing
  <1>s. t.state \in States BY DEF Terms
  <1>1. e.state = Then(z.state, "esc") /\ e.replies = z.replies
    <2>1. "esc" # "n" /\ "esc" # "c" OBVIOUS
    <2>2. "esc" \in Bytes /\ <<>> \in Seq(Bytes) BY BytesAre, OwnBytes
    <2>3. Esc = Append(<<>>, "esc") BY OwnBytes
    <2>4. Unasked(z, e, "esc") BY <2>1, <2>2, <2>3, TypedPlain
    <2> QED BY <2>4 DEF Unasked
  <1>2. f.state = Then(e.state, "\\") /\ f.replies = e.replies
    <2>1. "\\" # "n" /\ "\\" # "c" OBVIOUS
    <2>2. "\\" \in Bytes /\ Esc \in Seq(Bytes) BY BytesAre, OwnBytes
    <2>3. St = Append(Esc, "\\") BY OwnBytes
    <2>4. Unasked(e, f, "\\") BY <2>1, <2>2, <2>3, TypedPlain
    <2> QED BY <2>4 DEF Unasked
  <1>3. g.state = Then(f.state, "esc") /\ g.replies = f.replies
    <2>1. "esc" # "n" /\ "esc" # "c" OBVIOUS
    <2>2. "esc" \in Bytes /\ St \in Seq(Bytes) BY BytesAre, OwnBytes
    <2>3. StEsc = Append(St, "esc") BY OwnBytes
    <2>4. Unasked(f, g, "esc") BY <2>1, <2>2, <2>3, TypedPlain
    <2> QED BY <2>4 DEF Unasked
  <1>8. u \in Terms BY OwnBytes, TypedType
  <1>4. e.state \in {"esc", "normal", "csi", "stresc"}
    <2> HIDE DEF z, e
    <2> QED BY <1>1, <1>t, <1>s DEF Then, States
  <1>5. f.state = "normal"
    <2> HIDE DEF e, f
    <2> QED BY <1>2, <1>4 DEF Then
  <1>6. g.state = "esc"
    <2> HIDE DEF f, g
    <2> QED BY <1>3, <1>5 DEF Then
  <1>7. u.state = Then(g.state, "c") /\ u.scr = Drawn(g.state, g.scr, "c") /\ u.replies = g.replies
    <2>1. "c" \notin {"n", "c"} \/ g.state # "csi" BY <1>6
    <2>2. "c" \in Bytes /\ StEsc \in Seq(Bytes) BY BytesAre, OwnBytes
    <2>3. Clear = Append(StEsc, "c") BY OwnBytes
    <2>4. Unasked(g, u, "c") BY <2>1, <2>2, <2>3, TypedQuiet
    <2> QED BY <2>4 DEF Unasked
  <1> HIDE DEF z, e, f, g, u
  <1>9. Claim BY <1>1, <1>2, <1>3, <1>t, <1>6, <1>7, <1>8 DEF Then, Drawn
  <1> QED BY <1>9 DEF u

--------------------------------------------------------------------------------
(***************************************************************************)
(* Reports among reports.                                                  *)
(***************************************************************************)
Lacks(K, s) == \A k \in 1 .. Len(s) : s[k].kind \notin K
Cpr == {"cpr"}
AnyKind == {"cpr", "da"}

LEMMA NoneNothing == ASSUME NEW K PROVE Lacks(K, <<>>)
  BY DEF Lacks

LEMMA NoneCat ==
  ASSUME NEW K, NEW l \in Seq(Report), NEW a \in Seq(Report)
  PROVE  Lacks(K, l \o a) <=> Lacks(K, l) /\ Lacks(K, a)
  <1> DEFINE la == l \o a
             n == Len(l)
             m == Len(a)
  <1>n. n \in Nat /\ m \in Nat OBVIOUS
  <1>1. Len(la) = n + m /\ \A k \in 1 .. n + m : la[k] = IF k <= n THEN l[k] ELSE a[k - n]
    BY ConcatProperties
  <1> HIDE DEF la, n, m
  <1>2. ASSUME Lacks(K, la) PROVE Lacks(K, l) /\ Lacks(K, a)
    <2>1. ASSUME NEW k \in 1 .. n PROVE l[k].kind \notin K
      <3>1. k \in 1 .. n + m /\ k <= n BY <1>n
      <3>2. la[k] = l[k] BY <1>1, <3>1
      <3> QED BY <1>1, <1>2, <3>1, <3>2 DEF Lacks
    <2>2. ASSUME NEW k \in 1 .. m PROVE a[k].kind \notin K
      <3>1. k + n \in 1 .. n + m /\ ~(k + n <= n) /\ (k + n) - n = k BY <1>n
      <3>2. la[k + n] = a[k] BY <1>1, <3>1
      <3> QED BY <1>1, <1>2, <3>1, <3>2 DEF Lacks
    <2> QED BY <2>1, <2>2 DEF Lacks, n, m
  <1>3. ASSUME Lacks(K, l), Lacks(K, a) PROVE Lacks(K, la)
    <2>1. ASSUME NEW k \in 1 .. n + m PROVE la[k].kind \notin K
      <3>1. CASE k <= n
        <4>1. k \in 1 .. n /\ la[k] = l[k] BY <3>1, <1>n, <1>1
        <4> QED BY <4>1, <1>3 DEF Lacks, n
      <3>2. CASE ~(k <= n)
        <4>1. k - n \in 1 .. m /\ la[k] = a[k - n] BY <3>2, <1>n, <1>1
        <4> QED BY <4>1, <1>3 DEF Lacks, m
      <3> QED BY <3>1, <3>2
    <2> QED BY <2>1, <1>1 DEF Lacks
  <1> QED BY <1>2, <1>3 DEF la

LEMMA NoneAlike ==
  ASSUME NEW K, NEW r, NEW s, AlikeReplies(r, s) PROVE Lacks(K, r) <=> Lacks(K, s)
  BY DEF Lacks, AlikeReplies

LEMMA NoneRetag ==
  ASSUME NEW K, NEW s \in Seq(Report), NEW q \in Nat PROVE Lacks(K, Retag(s, q)) <=> Lacks(K, s)
  <1> DEFINE r == Retag(s, q)
  <1>1. Len(r) = Len(s) /\ \A k \in 1 .. Len(s) : r[k] = [kind |-> s[k].kind, at |-> s[k].at, for |-> q]
    BY RetagIs
  <1> HIDE DEF r
  <1>2. ASSUME NEW k \in 1 .. Len(s) PROVE r[k].kind = s[k].kind
    <2>1. r[k] = [kind |-> s[k].kind, at |-> s[k].at, for |-> q] BY <1>1
    <2> QED BY <2>1
  <1>3. Lacks(K, r) <=> Lacks(K, s) BY <1>1, <1>2 DEF Lacks
  <1> QED BY <1>3 DEF r

LEMMA NoneCprs == ASSUME NEW s \in Seq(Report) PROVE Cprs(s) = {} <=> Lacks(Cpr, s)
  <1>1. DOMAIN s = 1 .. Len(s) OBVIOUS
  <1> QED BY <1>1 DEF Cprs, Lacks, Cpr

LEMMA NoneAny == ASSUME NEW s \in Seq(Report) PROVE Lacks(AnyKind, s) <=> s = <<>>
  <1>1. ASSUME Lacks(AnyKind, s), Len(s) # 0 PROVE FALSE
    <2>1. 1 \in 1 .. Len(s) /\ s[1] \in Report BY <1>1
    <2>2. s[1].kind \in AnyKind BY <2>1 DEF Report, AnyKind
    <2> QED BY <1>1, <2>1, <2>2 DEF Lacks
  <1>2. Len(s) = 0 => s = <<>> OBVIOUS
  <1> QED BY <1>1, <1>2, NoneNothing

LEMMA NonePlace == ASSUME NEW x, NEW q PROVE ~Lacks(Cpr, <<Place(x, q)>>)
  <1> DEFINE e == Place(x, q)
  <1>1. e.kind = "cpr" BY DEF Place
  <1> HIDE DEF e
  <1>2. Len(<<e>>) = 1 /\ <<e>>[1] = e /\ 1 \in 1 .. 1 OBVIOUS
  <1>3. ~Lacks(Cpr, <<e>>) BY <1>1, <1>2 DEF Lacks, Cpr
  <1> QED BY <1>3 DEF e

\* K, which is Cpr or AnyKind, holds what position reports are.
LEMMA AnyCpr == ASSUME NEW s PROVE Lacks(AnyKind, s) => Lacks(Cpr, s)
  BY DEF Lacks, AnyKind, Cpr

LEMMA CatNothing == ASSUME NEW s \in Seq(Report) PROVE s \o <<>> = s /\ <<>> \o s = s
  OBVIOUS

LEMMA CatThree ==
  ASSUME NEW r \in Seq(Report), NEW s \in Seq(Report), NEW t \in Seq(Report)
  PROVE  /\ r \o s \in Seq(Report) /\ (r \o s) \o t = r \o (s \o t)
  OBVIOUS

LEMMA NoneApart ==
  ASSUME NEW K, NEW s \in Seq(Report), s # <<>>, Lacks(K, s) PROVE Lacks(K, <<Head(s)>>) /\ Lacks(K, Tail(s))
  <1>1. <<Head(s)>> \in Seq(Report) /\ Tail(s) \in Seq(Report) OBVIOUS
  <1>2. s = <<Head(s)>> \o Tail(s) OBVIOUS
  <1> DEFINE h == <<Head(s)>>  r == Tail(s)
  <1> HIDE DEF h, r
  <1>3. h \in Seq(Report) /\ r \in Seq(Report) BY <1>1 DEF h, r
  <1>4. s = h \o r BY <1>2 DEF h, r
  <1>5. Lacks(K, h) /\ Lacks(K, r) BY <1>3, <1>4, NoneCat
  <1> QED BY <1>5 DEF h, r

--------------------------------------------------------------------------------
(***************************************************************************)
(* The first byte on its way is processed.                                 *)
(***************************************************************************)
LEMMA TermIs ==
  ASSUME NEW t \in Terms
  PROVE  /\ t.state \in States /\ t.scr \in Seq(Shown) /\ t.effects \in Nat /\ t.replies \in Seq(Report)
         /\ [t EXCEPT !.replies = <<>>] \in Terms
         /\ [t EXCEPT !.replies = <<>>].state = t.state /\ [t EXCEPT !.replies = <<>>].scr = t.scr
         /\ [t EXCEPT !.replies = <<>>].replies = <<>>
  <1> DEFINE z == <<>>
             u == [t EXCEPT !.replies = z]
  <1>1. /\ t = [state |-> t.state, scr |-> t.scr, effects |-> t.effects, replies |-> t.replies]
        /\ t.state \in States /\ t.scr \in Seq(Shown) /\ t.effects \in Nat /\ t.replies \in Seq(Report)
    BY DEF Terms
  <1>2. z \in Seq(Report) OBVIOUS
  <1> HIDE DEF z
  <1>3. u = [state |-> t.state, scr |-> t.scr, effects |-> t.effects, replies |-> z] BY <1>1, Fields
  <1> HIDE DEF u
  <1>4. u \in Terms /\ u.state = t.state /\ u.scr = t.scr /\ u.replies = z
    BY <1>1, <1>2, <1>3 DEF Terms
  <1> QED BY <1>1, <1>4 DEF u, z

LEMMA HeadApart ==
  ASSUME NEW w \in Seq(Wire), w # <<>>
  PROVE  /\ Head(w) \in Wire /\ Tail(w) \in Seq(Wire) /\ w = <<Head(w)>> \o Tail(w)
         /\ <<Head(w)>> \in Seq(Wire) /\ Head(w).b \in Bytes /\ Head(w).for \in Nat
         /\ Len(Tail(w)) = Len(w) - 1
  <1>1. Head(w) \in Wire /\ Tail(w) \in Seq(Wire) /\ Len(Tail(w)) = Len(w) - 1 OBVIOUS
  <1>2. w = <<Head(w)>> \o Tail(w) OBVIOUS
  <1>3. Head(w).b \in Bytes /\ Head(w).for \in Nat BY <1>1 DEF Wire
  <1>4. <<Head(w)>> \in Seq(Wire) BY <1>1
  <1> QED BY <1>1, <1>2, <1>3, <1>4

Step(t, w) == Feed(t, Head(w).b, Head(w).for)
Quieted(t) == [t EXCEPT !.replies = <<>>]

LEMMA FedFirst ==
  ASSUME NEW t \in Terms, t.replies = <<>>, NEW w \in Seq(Wire), w # <<>>
  PROVE  /\ Step(t, w) \in Terms /\ Quieted(Step(t, w)) \in Terms /\ Quieted(Step(t, w)).replies = <<>>
         /\ Step(t, w).replies \in Seq(Report) /\ Len(Step(t, w).replies) \in 0 .. 1
         /\ Fed(t, w).state = Fed(Quieted(Step(t, w)), Tail(w)).state
         /\ Fed(t, w).scr = Fed(Quieted(Step(t, w)), Tail(w)).scr
         /\ Fed(t, w).replies = Step(t, w).replies \o Fed(Quieted(Step(t, w)), Tail(w)).replies
  <1> DEFINE h == Head(w)
             r == Tail(w)
             u == Step(t, w)
             d == Quieted(u)
             a == Answer(t.state, t.scr, h.b, h.for)
  <1>h. /\ h \in Wire /\ r \in Seq(Wire) /\ w = <<h>> \o r /\ <<h>> \in Seq(Wire) /\ h.b \in Bytes /\ h.for \in Nat
    BY HeadApart
  <1>t. t.scr \in Seq(Shown) BY TermIs
  <1>u. u = Feed(t, h.b, h.for) BY DEF Step
  <1> HIDE DEF h, r, u
  <1>1. u \in Terms /\ u.replies = t.replies \o a BY <1>h, <1>u, FeedIs
  <1>2. a \in Seq(Report) /\ Len(a) \in 0 .. 1 BY <1>h, <1>t, AnswerIs
  <1> HIDE DEF a
  <1>3. u.replies = a BY <1>1, <1>2
  <1>4. d \in Terms /\ d.state = u.state /\ d.scr = u.scr /\ d.replies = <<>>
    BY <1>1, TermIs DEF Quieted
  <1> HIDE DEF d
  <1>5. Fed(t, w) = Fed(Fed(t, <<h>>), r)
    <2> DEFINE v == <<h>>
    <2>1. v \in Seq(Wire) /\ w = v \o r BY <1>h
    <2> HIDE DEF v
    <2>2. Fed(t, v \o r) = Fed(Fed(t, v), r) BY <2>1, <1>h, FedBoth
    <2>3. Fed(t, w) = Fed(Fed(t, v), r) BY <2>1, <2>2
    <2> QED BY <2>3 DEF v
  <1>6. Fed(t, <<h>>) = u BY <1>h, <1>u, FedOne
  <1>7. Fed(t, w) = Fed(u, r) BY <1>5, <1>6
  <1>8. /\ Fed(u, r).state = Fed(d, r).state /\ Fed(u, r).scr = Fed(d, r).scr
        /\ Fed(u, r).replies = u.replies \o Fed(d, r).replies
    BY <1>1, <1>4, <1>h, FedAfter
  <1>9. /\ u \in Terms /\ d \in Terms /\ d.replies = <<>> /\ u.replies \in Seq(Report) /\ Len(u.replies) \in 0 .. 1
        /\ Fed(t, w).state = Fed(d, r).state /\ Fed(t, w).scr = Fed(d, r).scr
        /\ Fed(t, w).replies = u.replies \o Fed(d, r).replies
    BY <1>1, <1>2, <1>3, <1>4, <1>7, <1>8
  <1> QED BY <1>9 DEF d, r, u

--------------------------------------------------------------------------------
(***************************************************************************)
(* Parts of a sequence, and where a case is divided.                       *)
(***************************************************************************)
LEMMA PartIs ==
  ASSUME NEW B, NEW s \in Seq(B), NEW n \in Nat, NEW m \in Nat, n <= m, m <= Len(s)
  PROVE  /\ SubSeq(s, n + 1, m) \in Seq(B) /\ Len(SubSeq(s, n + 1, m)) = m - n
         /\ \A k \in 1 .. m - n : SubSeq(s, n + 1, m)[k] = s[n + k]
  <1> DEFINE t == SubSeq(s, n + 1, m)
  <1>0. Len(s) \in Nat OBVIOUS
  <1>1. \A k \in n + 1 .. m : s[k] \in B BY <1>0
  <1>2. t \in Seq(B) BY <1>1
  <1>3. Len(t) = m - n BY <1>0
  <1>4. \A k \in 1 .. m - n : t[k] = s[(n + 1) + k - 1] BY <1>0
  <1>5. \A k \in 1 .. m - n : (n + 1) + k - 1 = n + k OBVIOUS
  <1> HIDE DEF t
  <1>6. \A k \in 1 .. m - n : t[k] = s[n + k] BY <1>4, <1>5
  <1> QED BY <1>2, <1>3, <1>6 DEF t

LEMMA PartsMeet ==
  ASSUME NEW B, NEW s \in Seq(B), NEW n \in Nat, NEW m \in Nat, NEW p \in Nat, n <= m, m <= p, p <= Len(s)
  PROVE  SubSeq(s, n + 1, p) = SubSeq(s, n + 1, m) \o SubSeq(s, m + 1, p)
  <1> DEFINE o == n + 1
  <1>1. o \in 1 .. Len(s) + 1 /\ m \in o - 1 .. Len(s) /\ p \in m .. Len(s) OBVIOUS
  <1> HIDE DEF o
  <1>2. SubSeq(s, o, m) \o SubSeq(s, m + 1, p) = SubSeq(s, o, p) BY <1>1, ConcatAdjacentSubSeq
  <1> QED BY <1>2 DEF o

LEMMA PartOfPart ==
  ASSUME NEW B, NEW s \in Seq(B), NEW n \in Nat, NEW a \in Nat, NEW b \in Nat, a <= b, n + b <= Len(s)
  PROVE  SubSeq(SubSeq(s, n + 1, Len(s)), a + 1, b) = SubSeq(s, (n + a) + 1, n + b)
  <1> DEFINE t == SubSeq(s, n + 1, Len(s))
             l == Len(s)
             x == SubSeq(t, a + 1, b)
             na == n + a
             nb == n + b
             y == SubSeq(s, na + 1, nb)
  <1>0. l \in Nat /\ n <= l /\ na \in Nat /\ nb \in Nat /\ na <= nb /\ nb <= l OBVIOUS
  <1>t. t \in Seq(B) /\ Len(t) = l - n /\ \A k \in 1 .. l - n : t[k] = s[n + k] BY <1>0, PartIs
  <1> HIDE DEF t
  <1>1. b <= Len(t) BY <1>0, <1>t DEF nb
  <1>x. x \in Seq(B) /\ Len(x) = b - a /\ \A k \in 1 .. b - a : x[k] = t[a + k]
    BY <1>t, <1>1, PartIs
  <1> HIDE DEF l, x, na, nb
  <1>y. y \in Seq(B) /\ Len(y) = nb - na /\ \A k \in 1 .. nb - na : y[k] = s[na + k]
    BY <1>0, PartIs DEF l
  <1> HIDE DEF y
  <1>2. nb - na = b - a BY DEF na, nb
  <1>3. ASSUME NEW k \in 1 .. b - a PROVE x[k] = y[k]
    <2>1. a + k \in 1 .. l - n /\ n + (a + k) = na + k BY <1>0 DEF na, nb
    <2>2. x[k] = t[a + k] BY <1>x
    <2>3. t[a + k] = s[n + (a + k)] BY <2>1, <1>t
    <2>4. y[k] = s[na + k] BY <1>y, <1>2
    <2> QED BY <2>1, <2>2, <2>3, <2>4
  <1>4. Len(x) = b - a /\ Len(y) = b - a BY <1>x, <1>y, <1>2
  <1>5. x = y BY <1>x, <1>y, <1>3, <1>4
  <1> QED BY <1>5 DEF x, y, t, na, nb, l

LEMMA SliceIs == ASSUME TargetFine PROVE Slice \in Nat \ {0}
  <1>1. Window \in Nat \ {0} /\ Chunk \in Nat \ {0} /\ Chunk <= Window BY DEF TargetFine
  <1>2. Window % Chunk \in 0 .. Chunk - 1 BY <1>1
  <1> QED BY <1>1, <1>2 DEF Slice

\* Multiples of s: the next one, and none before it.
LEMMA Multiples ==
  ASSUME NEW s \in Nat \ {0}, NEW n \in Nat, n % s = 0
  PROVE  (n + s) % s = 0 /\ \A k \in Nat : k % s = 0 /\ k > n => k >= n + s
  <1> DEFINE d == n \div s
  <1>1. d \in Int /\ n = s * d BY Z3
  <1>2. n + s = s * (d + 1) BY <1>1, Z3
  <1>3. (n + s) % s = 0
    <2> DEFINE m == n + s
               e == m \div s
               r == m % s
    <2>1. m \in Nat OBVIOUS
    <2> HIDE DEF m
    <2>2. e \in Int /\ r \in 0 .. s - 1 /\ m = s * e + r BY <2>1, Z3
    <2> HIDE DEF d, e, r
    <2>3. s * (d + 1 - e) = r BY <1>1, <1>2, <2>1, <2>2, Z3 DEF m
    <2>4. CASE d + 1 - e >= 1
      <3>1. s * (d + 1 - e) >= s BY <2>4, <1>1, <2>2, Z3
      <3> QED BY <3>1, <2>2, <2>3
    <2>5. CASE d + 1 - e <= 0 - 1
      <3>1. s * (d + 1 - e) <= 0 - s BY <2>5, <1>1, <2>2, Z3
      <3> QED BY <3>1, <2>2, <2>3
    <2>6. CASE d + 1 - e = 0
      <3>1. s * (d + 1 - e) = 0 BY <2>6, Z3
      <3> QED BY <3>1, <2>3 DEF r, m
    <2> QED BY <2>4, <2>5, <2>6, <1>1, <2>2
  <1>4. ASSUME NEW k \in Nat, k % s = 0, k > n PROVE k >= n + s
    <2> DEFINE e == k \div s
    <2>1. e \in Int /\ k = s * e BY <1>4, Z3
    <2> HIDE DEF d, e
    <2>2. s * (e - d) = k - n BY <1>1, <2>1, Z3
    <2>3. e - d >= 1
      <3>1. CASE e - d <= 0
        <4>1. s * (e - d) <= 0 BY <3>1, <1>1, <2>1, Z3
        <4> QED BY <4>1, <2>2, <1>4
      <3> QED BY <3>1, <1>1, <2>1
    <2>4. s * (e - d) >= s BY <2>3, <1>1, <2>1, Z3
    <2> QED BY <2>2, <2>4
  <1> QED BY <1>3, <1>4

--------------------------------------------------------------------------------
(***************************************************************************)
(* What the bytes of a case do alone.                                      *)
(***************************************************************************)
LEMMA BlankIs ==
  /\ Blank \in Terms /\ Blank.state = "normal" /\ Blank.scr = <<>>
  /\ Blank.replies = <<>>
  <1> DEFINE x == <<>>  r == <<>>
             b == [state |-> "normal", scr |-> x, effects |-> 0, replies |-> r]
  <1>1. x \in Seq(Shown) /\ r \in Seq(Report) OBVIOUS
  <1> HIDE DEF x, r
  <1>2. b \in Terms /\ b.state = "normal" /\ b.scr = x /\ b.replies = r BY <1>1 DEF Terms, States
  <1> QED BY <1>2 DEF b, x, r, Blank

LEMMA RenderedIs ==
  ASSUME NEW x \in Seq(Bytes)
  PROVE  Rendered(x) = Typed(Blank, x, 0) /\ Rendered(x) \in Terms
  <1>1. Rendered(x) = Typed(Blank, x, 0) BY DEF Rendered, Typed
  <1> QED BY <1>1, BlankIs, TypedType

LEMMA UptoIs ==
  ASSUME NEW data \in Seq(Bytes), NEW n \in Nat, n <= Len(data)
  PROVE  /\ SubSeq(data, 1, n) \in Seq(Bytes)
         /\ Upto(data, n) = Typed(Blank, SubSeq(data, 1, n), 0)
         /\ Upto(data, n) \in Terms
  <1> DEFINE x == SubSeq(data, 0 + 1, n)
  <1>1. x \in Seq(Bytes) BY PartIs
  <1>2. x = SubSeq(data, 1, n) OBVIOUS
  <1> HIDE DEF x
  <1>3. Upto(data, n) = Rendered(x) BY <1>2 DEF Upto
  <1> QED BY <1>1, <1>2, <1>3, RenderedIs

LEMMA UptoEnds ==
  ASSUME NEW data \in Seq(Bytes)
  PROVE  Upto(data, 0) = Blank /\ Upto(data, Len(data)) = Rendered(data)
  <1>1. SubSeq(data, 1, 0) = <<>> BY SubSeqEmpty
  <1>2. SubSeq(data, 1, Len(data)) = data BY SubSeqFull
  <1>3. Upto(data, Len(data)) = Rendered(data) BY <1>2 DEF Upto
  <1>4. 0 <= Len(data) OBVIOUS
  <1>5. Upto(data, 0) = Typed(Blank, SubSeq(data, 1, 0), 0) BY <1>4, UptoIs
  <1>6. Upto(data, 0) = Typed(Blank, <<>>, 0) BY <1>1, <1>5
  <1> QED BY <1>3, <1>6, TypedNothing

LEMMA UptoFurther ==
  ASSUME NEW data \in Seq(Bytes), NEW n \in Nat, NEW m \in Nat, n <= m, m <= Len(data)
  PROVE  /\ SubSeq(data, n + 1, m) \in Seq(Bytes)
         /\ Upto(data, m) = Typed(Upto(data, n), SubSeq(data, n + 1, m), 0)
  <1> DEFINE x == SubSeq(data, 1, n)
             y == SubSeq(data, n + 1, m)
             z == SubSeq(data, 1, m)
  <1>0. n <= Len(data) OBVIOUS
  <1>1. y \in Seq(Bytes) BY PartIs
  <1>2. z = x \o y
    <2>1. SubSeq(data, 0 + 1, m) = SubSeq(data, 0 + 1, n) \o SubSeq(data, n + 1, m) BY PartsMeet
    <2>2. 0 + 1 = 1 OBVIOUS
    <2> QED BY <2>1, <2>2
  <1>3. x \in Seq(Bytes) /\ Upto(data, n) = Typed(Blank, x, 0) BY <1>0, UptoIs
  <1>4. Upto(data, m) = Typed(Blank, z, 0) BY UptoIs
  <1> HIDE DEF x, y, z
  <1>5. Typed(Blank, x \o y, 0) = Typed(Typed(Blank, x, 0), y, 0)
    BY <1>1, <1>3, TypedBoth
  <1>6. y \in Seq(Bytes) /\ Upto(data, m) = Typed(Upto(data, n), y, 0)
    BY <1>1, <1>2, <1>3, <1>4, <1>5
  <1> QED BY <1>6 DEF y

\* The window that is sent, when n bytes of the case have been.
SentNext(data, n, m) ==
  /\ n \in Nat /\ m \in Nat /\ n <= m /\ m <= Len(data)
  /\ m \in Boundaries(data) \cup {Len(data)}
  /\ Window1 = SubSeq(data, n + 1, m) /\ Rest = SubSeq(data, m + 1, Len(data))
  /\ Rest = <<>> => m = Len(data)
  /\ m = Len(data) => Rest = <<>> /\ Window1 = LastWindow(data)
LEMMA WindowIs ==
  ASSUME TargetFine, NEW data \in Seq(Bytes), NEW n, n \in {0} \cup Boundaries(data),
         unsent = SubSeq(data, n + 1, Len(data))
  PROVE  \E m \in Nat : SentNext(data, n, m)
  <1> DEFINE l == Len(data)
             s == Slice
             B == Boundaries(data)
  <1>s. s \in Nat \ {0} BY SliceIs
  <1>l. l \in Nat OBVIOUS
  <1>b. \A k : k \in B <=> k \in 1 .. l - 1 /\ k % s = 0 BY DEF Boundaries
  <1>w. LastWindow(data) = SubSeq(data, Max({0} \cup B) + 1, l)
    BY DEF LastWindow
  <1> HIDE DEF l, s, B
  <1>n. n \in Nat /\ n <= l BY <1>b, <1>l DEF B
  <1>m. n % s = 0
    <2>1. 0 % s = 0 BY <1>s
    <2> QED BY <2>1, <1>b DEF B
  <1>u. unsent = SubSeq(data, n + 1, l) /\ unsent \in Seq(Bytes) /\ Len(unsent) = l - n
    BY <1>n, <1>l, PartIs DEF l
  <1>r. Rest = SubSeq(unsent, s + 1, l - n) BY <1>u DEF Rest, s
  <1>1. CASE l - n <= s
    <2>1. Window1 = SubSeq(data, n + 1, l) BY <1>1, <1>u DEF Window1, s
    <2>2. Rest = <<>>
      <3>1. s + 1 \in Int /\ l - n \in Int /\ l - n < s + 1 BY <1>1, <1>s, <1>l, <1>n
      <3> QED BY <3>1, <1>r, SubSeqEmpty
    <2>3. SubSeq(data, l + 1, l) = <<>>
      <3>1. l + 1 \in Int /\ l \in Int /\ l < l + 1 BY <1>l
      <3> QED BY <3>1, SubSeqEmpty
    <2>4. \A k \in {0} \cup B : n >= k
      <3> SUFFICES ASSUME NEW k \in B, k > n PROVE FALSE BY <1>n, <1>b, <1>l
      <3>1. k \in Nat /\ k % s = 0 /\ k <= l - 1 BY <1>b, <1>l
      <3>2. k >= n + s BY <3>1, <1>s, <1>n, <1>m, Multiples
      <3> QED BY <3>1, <3>2, <1>1, <1>l, <1>n, <1>s
    <2>5. n = Max({0} \cup B)
      <3> DEFINE M == {0} \cup B
      <3>1. n \in M /\ \A k \in M : n >= k BY <2>4 DEF B
      <3>2. \A k \in M : k \in Nat BY <1>b, <1>l
      <3> HIDE DEF M
      <3>3. Max(M) = CHOOSE x \in M : \A y \in M : x >= y BY DEF Max
      <3>4. Max(M) \in M /\ \A y \in M : Max(M) >= y BY <3>1, <3>3
      <3>5. Max(M) >= n /\ n >= Max(M) /\ Max(M) \in Nat BY <3>1, <3>2, <3>4
      <3> QED BY <3>5, <1>n DEF M
    <2>6. Window1 = LastWindow(data) BY <2>1, <2>5, <1>w
    <2>7. SentNext(data, n, l) BY <2>1, <2>2, <2>3, <2>6, <1>l, <1>n DEF SentNext, B, l
    <2> QED BY <2>7, <1>l
  <1>2. CASE l - n > s
    <2> DEFINE m == n + s
    <2>1. m \in B
      <3>1. m % s = 0 BY <1>s, <1>n, <1>m, Multiples
      <3>2. m \in 1 .. l - 1 BY <1>2, <1>s, <1>n, <1>l
      <3> QED BY <3>1, <3>2, <1>b
    <2>2. m \in Nat /\ n <= m /\ m <= l /\ m < l BY <1>2, <1>s, <1>n, <1>l
    <2>3. Window1 = SubSeq(data, n + 1, m)
      <3>1. Window1 = SubSeq(unsent, 1, s)
        BY <1>2, <1>u, <1>s, <1>n, <1>l DEF Window1, s
      <3>2. SubSeq(SubSeq(data, n + 1, l), 0 + 1, s) = SubSeq(data, (n + 0) + 1, n + s)
        BY <1>n, <1>s, <2>2, PartOfPart DEF l
      <3>3. 0 + 1 = 1 /\ (n + 0) + 1 = n + 1 BY <1>n
      <3> QED BY <3>1, <3>2, <3>3, <1>u
    <2>4. Rest = SubSeq(data, m + 1, l)
      <3> DEFINE p == l - n
      <3>1. p \in Nat /\ s <= p /\ n + p = l /\ n + p <= l BY <1>2, <1>s, <1>n, <1>l
      <3> HIDE DEF p
      <3>2. SubSeq(SubSeq(data, n + 1, l), s + 1, p) = SubSeq(data, (n + s) + 1, n + p)
        BY <1>n, <1>s, <3>1, PartOfPart DEF l
      <3> QED BY <3>1, <3>2, <1>u, <1>r DEF p
    <2>5. Rest # <<>>
      <3>1. Len(SubSeq(data, m + 1, l)) = l - m
        <4> HIDE DEF m
        <4> QED BY <2>2, <1>l, PartIs DEF l
      <3>2. l - m > 0 BY <2>2, <1>l
      <3>3. Len(Rest) > 0 BY <3>1, <3>2, <2>4
      <3>4. Len(<<>>) = 0 OBVIOUS
      <3> HIDE DEF m
      <3> QED BY <3>3, <3>4
    <2> HIDE DEF m
    <2>6. SentNext(data, n, m) BY <2>1, <2>2, <2>3, <2>4, <2>5, <1>l, <1>n DEF SentNext, B, l
    <2> QED BY <2>6, <2>2
  <1> QED BY <1>1, <1>2, <1>l, <1>n, <1>s

--------------------------------------------------------------------------------
(***************************************************************************)
(* The line: t the terminal, p what is on its way to it, k what is on its  *)
(* way back, r what was received.                                          *)
(***************************************************************************)
Less(s) == SubSeq(s, 1, Len(s) - 1)

LEMMA LessIs ==
  ASSUME NEW B, NEW s \in Seq(B), s # <<>>
  PROVE  /\ Less(s) \in Seq(B) /\ Len(Less(s)) = Len(s) - 1
         /\ \A i \in 1 .. Len(s) - 1 : Less(s)[i] = s[i]
  <1> DEFINE m == Len(s) - 1
             x == SubSeq(s, 0 + 1, m)
  <1>1. m \in Nat /\ m <= Len(s) BY EmptySeq
  <1>2. x \in Seq(B) /\ Len(x) = m - 0 /\ \A i \in 1 .. m - 0 : x[i] = s[0 + i]
    <2> HIDE DEF m
    <2>1. 0 \in Nat /\ 0 <= m BY <1>1
    <2> QED BY <1>1, <2>1, PartIs
  <1>3. x = Less(s) BY DEF Less
  <1> HIDE DEF x
  <1> QED BY <1>1, <1>2, <1>3

LEMMA LessOne == ASSUME NEW B, NEW s \in Seq(B), Len(s) = 1 PROVE Less(s) = <<>> /\ Tail(s) = <<>>
  <1>1. Len(s) - 1 \in Int /\ Len(s) - 1 < 1 OBVIOUS
  <1>2. Less(s) = <<>> BY <1>1, SubSeqEmpty DEF Less
  <1>3. Tail(s) \in Seq(B) /\ Len(Tail(s)) = 0 OBVIOUS
  <1>4. Tail(s) = <<>> BY <1>3, EmptySeq
  <1> QED BY <1>2, <1>4

LEMMA Longer == ASSUME NEW B, NEW s \in Seq(B), Len(s) >= 1 PROVE s # <<>>
  BY EmptySeq
LEMMA LessTail ==
  ASSUME NEW B, NEW s \in Seq(B), Len(s) >= 2
  PROVE  Less(s) # <<>> /\ Head(Less(s)) = Head(s) /\ Tail(Less(s)) = Less(Tail(s))
  <1>0. s # <<>> /\ Len(s) \in Nat BY EmptySeq
  <1>1. /\ Less(s) \in Seq(B) /\ Len(Less(s)) = Len(s) - 1
        /\ \A i \in 1 .. Len(s) - 1 : Less(s)[i] = s[i]
    BY <1>0, LessIs
  <1>2. /\ Tail(s) \in Seq(B) /\ Len(Tail(s)) = Len(s) - 1
        /\ \A i \in 1 .. Len(s) - 1 : Tail(s)[i] = s[i + 1]
    BY <1>0
  <1>3. Tail(s) # <<>>
    <2>1. Len(Tail(s)) >= 1 BY <1>0, <1>2
    <2> QED BY <1>2, <2>1, Longer
  <1>4. /\ Less(Tail(s)) \in Seq(B) /\ Len(Less(Tail(s))) = Len(s) - 2
        /\ \A i \in 1 .. Len(s) - 2 : Less(Tail(s))[i] = s[i + 1]
    <2> DEFINE v == Tail(s)
    <2> HIDE DEF v
    <2>1. /\ Less(v) \in Seq(B) /\ Len(Less(v)) = Len(v) - 1
          /\ \A i \in 1 .. Len(v) - 1 : Less(v)[i] = v[i]
      BY <1>2, <1>3, LessIs DEF v
    <2>2. Len(v) - 1 = Len(s) - 2 BY <1>0, <1>2 DEF v
    <2>3. \A i \in 1 .. Len(s) - 2 : i \in 1 .. Len(s) - 1 BY <1>0
    <2> QED BY <1>2, <2>1, <2>2, <2>3 DEF v
  <1> DEFINE l == Less(s)  m == Less(Tail(s))
  <1> HIDE DEF l, m
  <1>5. l # <<>> /\ Head(l) = s[1] /\ Head(s) = s[1] BY <1>0, <1>1, EmptySeq DEF l
  <1>6. /\ Tail(l) \in Seq(B) /\ Len(Tail(l)) = Len(s) - 2
        /\ \A i \in 1 .. Len(s) - 2 : Tail(l)[i] = s[i + 1]
    BY <1>0, <1>1, <1>5 DEF l
  <1>7. Tail(l) = m BY <1>4, <1>6, SeqEqual DEF m
  <1> QED BY <1>5, <1>7 DEF l, m

LEMMA NoneLess ==
  ASSUME NEW K, NEW s \in Seq(Report), NEW a \in Seq(Report), Len(a) \in 0 .. 1, Lacks(K, s), s \o a # <<>>
  PROVE  Lacks(K, Less(s \o a))
  <1>1. /\ s \o a \in Seq(Report) /\ Len(s \o a) = Len(s) + Len(a) /\ Len(s \o a) <= Len(s) + 1
        /\ Len(s \o a) \in Nat /\ Len(s) \in Nat
    <2>1. s \o a \in Seq(Report) /\ Len(s \o a) = Len(s) + Len(a) OBVIOUS
    <2>2. Len(s) \in Nat OBVIOUS
    <2>3. Len(a) = 0 \/ Len(a) = 1 OBVIOUS
    <2> DEFINE m == Len(s)  i == Len(a)  l == Len(s \o a)
    <2>4. l = m + i /\ m \in Nat /\ (i = 0 \/ i = 1) BY <2>1, <2>2, <2>3
    <2> HIDE DEF m, i, l
    <2>5. l <= m + 1 /\ l \in Nat BY <2>4
    <2> QED BY <2>1, <2>2, <2>5 DEF m, l
  <1>2. \A i \in 1 .. Len(s) : (s \o a)[i] = s[i] OBVIOUS
  <1> DEFINE u == s \o a
  <1> HIDE DEF u
  <1>3. Len(Less(u)) = Len(u) - 1 /\ \A i \in 1 .. Len(u) - 1 : Less(u)[i] = u[i]
    BY <1>1, LessIs DEF u
  <1>4. \A i \in 1 .. Len(u) - 1 : i \in 1 .. Len(s)
    <2>1. Len(u) \in Nat /\ Len(s) \in Nat /\ Len(u) <= Len(s) + 1 BY <1>1 DEF u
    <2> QED BY <2>1
  <1>5. \A i \in 1 .. Len(Less(u)) : Less(u)[i].kind \notin K BY <1>2, <1>3, <1>4 DEF u, Lacks
  <1> QED BY <1>5 DEF u, Lacks

LastOf(K, t, p, k, r) ==
  /\ p # <<>> => Lacks(K, r) /\ Lacks(K, k) /\ Lacks(K, Fed(t, Less(p)).replies)
  /\ p = <<>> /\ k # <<>> => Lacks(K, r) /\ Lacks(K, Less(k))

\* A byte taken from the wire: what is to come stays the same.
After(t, p) == Quieted(Step(t, p))
Said(t, p)  == Step(t, p).replies
LEMMA LineStep ==
  ASSUME NEW t \in Terms, t.replies = <<>>, NEW p \in Seq(Wire), p # <<>>, NEW k \in Seq(Report)
  PROVE  /\ After(t, p) \in Terms /\ After(t, p).replies = <<>> /\ Tail(p) \in Seq(Wire)
         /\ Said(t, p) \in Seq(Report) /\ Len(Said(t, p)) \in 0 .. 1
         /\ Fed(After(t, p), Tail(p)) \in Terms /\ Fed(t, p) \in Terms
         /\ Fed(After(t, p), Tail(p)).state = Fed(t, p).state
         /\ Fed(After(t, p), Tail(p)).scr = Fed(t, p).scr
         /\ k \o Said(t, p) \in Seq(Report)
         /\ (k \o Said(t, p)) \o Fed(After(t, p), Tail(p)).replies = k \o Fed(t, p).replies
  <1> DEFINE u == After(t, p)  v == Tail(p)  a == Said(t, p)  c == Fed(u, v).replies
  <1>1. u \in Terms /\ u.replies = <<>> /\ a \in Seq(Report) /\ Len(a) \in 0 .. 1
    BY FedFirst DEF After, Said
  <1>2. v \in Seq(Wire) BY HeadApart
  <1>3. Fed(u, v) \in Terms /\ Fed(t, p) \in Terms BY <1>1, <1>2, FedType
  <1>4. /\ Fed(t, p).state = Fed(u, v).state /\ Fed(t, p).scr = Fed(u, v).scr
        /\ Fed(t, p).replies = a \o c
    BY FedFirst DEF After, Said
  <1>5. c \in Seq(Report) BY <1>3, TermIs
  <1> HIDE DEF a, c
  <1>6. k \o a \in Seq(Report) /\ (k \o a) \o c = k \o (a \o c) BY <1>1, <1>5, CatThree
  <1> QED BY <1>1, <1>2, <1>3, <1>4, <1>6 DEF a, c

LEMMA LineMute ==
  ASSUME NEW t \in Terms, t.replies = <<>>, NEW p \in Seq(Wire), p # <<>>, NEW k \in Seq(Report),
         NEW K, Lacks(K, k), Lacks(K, Fed(t, p).replies)
  PROVE  Lacks(K, k \o Said(t, p)) /\ Lacks(K, Fed(After(t, p), Tail(p)).replies)
  <1> DEFINE x == Fed(t, p).replies  u == Fed(After(t, p), Tail(p))
             y == u.replies  a == Said(t, p)
  <1>1. u \in Terms /\ Fed(t, p) \in Terms /\ a \in Seq(Report) /\ k \o a \in Seq(Report)
        /\ (k \o a) \o y = k \o x
    BY LineStep
  <1>2. x \in Seq(Report) BY <1>1, TermIs
  <1>3. y \in Seq(Report)
    <2> HIDE DEF u
    <2> QED BY <1>1, TermIs
  <1> HIDE DEF x, y, a
  <1>4. Lacks(K, k \o x) BY <1>2, NoneCat DEF x
  <1>5. Lacks(K, (k \o a) \o y) BY <1>1, <1>4
  <1>6. Lacks(K, k \o a) /\ Lacks(K, y) BY <1>1, <1>3, <1>5, NoneCat
  <1> QED BY <1>6 DEF y, a

LEMMA LineLast ==
  ASSUME NEW t \in Terms, t.replies = <<>>, NEW p \in Seq(Wire), p # <<>>, NEW k \in Seq(Report), NEW r,
         NEW K, LastOf(K, t, p, k, r)
  PROVE  LastOf(K, After(t, p), Tail(p), k \o Said(t, p), r)
  <1> DEFINE a == Said(t, p)  u == After(t, p)  v == Tail(p)
  <1>1. Lacks(K, r) /\ Lacks(K, k) /\ Lacks(K, Fed(t, Less(p)).replies) BY DEF LastOf
  <1>2. a \in Seq(Report) /\ Len(a) \in 0 .. 1 /\ v \in Seq(Wire) BY LineStep
  <1>3. Len(v) = Len(p) - 1 /\ Len(p) \in Nat BY HeadApart
  <1>4. ASSUME v # <<>> PROVE Lacks(K, k \o a) /\ Lacks(K, Fed(u, Less(v)).replies)
    <2>1. Len(p) >= 2
      <3> HIDE DEF v
      <3>1. Len(v) # 0 BY <1>2, <1>4, EmptySeq
      <3> QED BY <1>3, <3>1
    <2>2. Less(p) # <<>> /\ Head(Less(p)) = Head(p) /\ Less(v) = Tail(Less(p)) BY <2>1, LessTail
    <2>3. Less(p) \in Seq(Wire) BY LessIs
    <2> DEFINE q == Less(p)
    <2>4. Step(t, q) = Step(t, p) BY <2>2 DEF Step
    <2>5. Said(t, q) = a /\ After(t, q) = u BY <2>4 DEF Said, After
    <2> HIDE DEF q
    <2>6. Lacks(K, k \o Said(t, q)) /\ Lacks(K, Fed(After(t, q), Tail(q)).replies)
      <3>1. q \in Seq(Wire) /\ q # <<>> /\ Lacks(K, k) /\ Lacks(K, Fed(t, q).replies)
        BY <1>1, <2>2, <2>3 DEF q
      <3> QED BY <3>1, LineMute
    <2> QED BY <2>2, <2>5, <2>6 DEF q
  <1> HIDE DEF a, u, v
  <1>5. k \o a # <<>> => Lacks(K, Less(k \o a)) BY <1>1, <1>2, NoneLess
  <1> QED BY <1>1, <1>4, <1>5 DEF LastOf, a, u, v

\* A report taken from the wire.
LEMMA LineReceived ==
  ASSUME NEW k \in Seq(Report), k # <<>>, NEW r \in Seq(Report), NEW c \in Seq(Report)
  PROVE  /\ Append(r, Head(k)) \in Seq(Report) /\ Tail(k) \in Seq(Report) /\ <<Head(k)>> \in Seq(Report)
         /\ Append(r, Head(k)) = r \o <<Head(k)>>
         /\ Append(r, Head(k)) \o (Tail(k) \o c) = r \o (k \o c)
  <1>1. Head(k) \in Report /\ Tail(k) \in Seq(Report) /\ k = <<Head(k)>> \o Tail(k) OBVIOUS
  <1>2. <<Head(k)>> \in Seq(Report) /\ Append(r, Head(k)) = r \o <<Head(k)>> /\ Append(r, Head(k)) \in Seq(Report)
    BY <1>1
  <1> DEFINE h == <<Head(k)>>  l == Tail(k)
  <1> HIDE DEF h, l
  <1>3. (h \o l) \o c = h \o (l \o c) /\ l \o c \in Seq(Report) BY <1>1, <1>2, CatThree DEF h, l
  <1>4. (r \o h) \o (l \o c) = r \o (h \o (l \o c)) BY <1>2, <1>3, CatThree DEF h
  <1> QED BY <1>1, <1>2, <1>3, <1>4 DEF h, l

LEMMA LineLastReceived ==
  ASSUME NEW t, NEW p, NEW k \in Seq(Report), k # <<>>, NEW r \in Seq(Report), NEW K, LastOf(K, t, p, k, r)
  PROVE  LastOf(K, t, p, Tail(k), Append(r, Head(k)))
  <1>1. <<Head(k)>> \in Seq(Report) /\ Append(r, Head(k)) = r \o <<Head(k)>> /\ Tail(k) \in Seq(Report)
    <2>1. <<>> \in Seq(Report) OBVIOUS
    <2> QED BY <2>1, LineReceived
  <1>2. CASE p # <<>>
    <2>1. Lacks(K, r) /\ Lacks(K, k) /\ Lacks(K, Fed(t, Less(p)).replies) BY <1>2 DEF LastOf
    <2>2. Lacks(K, <<Head(k)>>) /\ Lacks(K, Tail(k)) BY <2>1, NoneApart
    <2>3. Lacks(K, r \o <<Head(k)>>) BY <1>1, <2>1, <2>2, NoneCat
    <2> QED BY <1>1, <1>2, <2>1, <2>2, <2>3 DEF LastOf
  <1>3. ASSUME p = <<>>, Tail(k) # <<>> PROVE Lacks(K, Append(r, Head(k))) /\ Lacks(K, Less(Tail(k)))
    <2>1. Lacks(K, r) /\ Lacks(K, Less(k)) BY <1>3 DEF LastOf
    <2>2. Len(Tail(k)) = Len(k) - 1 /\ Len(k) \in Nat OBVIOUS
    <2>3. Len(k) >= 2 BY <1>1, <1>3, <2>2, EmptySeq
    <2>4. Less(k) # <<>> /\ Head(Less(k)) = Head(k) /\ Tail(Less(k)) = Less(Tail(k))
      BY <2>3, LessTail
    <2>5. Less(k) \in Seq(Report) BY LessIs
    <2>6. Lacks(K, <<Head(k)>>) /\ Lacks(K, Less(Tail(k)))
      <3> DEFINE q == Less(k)
      <3> HIDE DEF q
      <3>1. Lacks(K, <<Head(q)>>) /\ Lacks(K, Tail(q)) BY <2>1, <2>4, <2>5, NoneApart DEF q
      <3> QED BY <3>1, <2>4 DEF q
    <2>7. Lacks(K, r \o <<Head(k)>>) BY <1>1, <2>1, <2>6, NoneCat
    <2> QED BY <1>1, <2>6, <2>7
  <1> QED BY <1>2, <1>3 DEF LastOf

\* What may be answered last has been, once it is received.
LEMMA LineDone ==
  ASSUME NEW K, NEW t, NEW p, NEW k, NEW r, LastOf(K, t, p, k, r), ~Lacks(K, r)
  PROVE  p = <<>> /\ k = <<>>
  BY DEF LastOf

\* Nothing is answered when no byte could be the last of a question.
LEMMA QuietWire ==
  ASSUME NEW t \in Terms, NEW w \in Seq(Wire), \A n \in 1 .. Len(w) : w[n].b \notin {"n", "c"}
  PROVE  Fed(t, w).replies = t.replies
  <1> DEFINE r == t.replies
             S == {z \in Terms \X Terms : z[1] = z[2] /\ z[1].replies = r}
  <1>1. \A x, y : <<x, y>> \in S <=> x \in Terms /\ y = x /\ x.replies = r OBVIOUS
  <1> HIDE DEF S
  <1>2. SameBytes(w, w) BY DEF SameBytes
  <1>3. ASSUME NEW x, NEW y, <<x, y>> \in S, NEW n \in 1 .. Len(w)
        PROVE  <<Feed(x, w[n].b, w[n].for), Feed(y, w[n].b, w[n].for)>> \in S
    <2> DEFINE u == Feed(x, w[n].b, w[n].for)
    <2>1. x \in Terms /\ y = x /\ x.replies = r BY <1>1, <1>3
    <2>2. w[n].b \in Bytes /\ w[n].for \in Nat BY WireAt
    <2>3. u \in Terms /\ u.replies = x.replies \o Answer(x.state, x.scr, w[n].b, w[n].for)
      BY <2>1, <2>2, FeedIs
    <2>4. Answer(x.state, x.scr, w[n].b, w[n].for) = <<>> BY Unanswered
    <2>5. x.replies \in Seq(Report) BY <2>1, TermIs
    <2>6. u.replies = r BY <2>1, <2>3, <2>4, <2>5, CatNothing
    <2> HIDE DEF u
    <2>7. <<u, u>> \in S BY <1>1, <2>3, <2>6
    <2> QED BY <2>1, <2>7 DEF u
  <1>4. <<t, t>> \in S BY <1>1
  <1>5. <<Fed(t, w), Fed(t, w)>> \in S BY <1>2, <1>3, <1>4, FedKeeps
  <1> QED BY <1>1, <1>5

--------------------------------------------------------------------------------
(***************************************************************************)
(* The invariant: what is still to come on the line, and what a snapshot   *)
(* and a row already show.                                                 *)
(***************************************************************************)
Seen == Shown \cup {"old"}
SnapshotFile ==
  {Absent} \cup [st : {"ok", "busy"}, seq : Nat, scr : Seq(Seen), effects : Int]
Judgement ==
  {[ok |-> FALSE]} \cup [ok : {TRUE}, scr : Seq(Seen), cursor : Nat, reports : Seq(Report)]

LineTypes ==
  /\ pipe \in Seq(Wire) /\ back \in Seq(Report) /\ buf \in Seq(Report)
  /\ term \in Terms /\ term.replies = <<>> /\ alive \in BOOLEAN /\ up \in BOOLEAN
RunTypes ==
  /\ corpus \in [1 .. NCases -> Inputs] /\ case \in 1 .. NCases /\ unsent \in Seq(Bytes)
  /\ reports \in Seq(Report) /\ after \in Int /\ verdicts \in Seq(Judgement)
FileTypes == file \in SnapshotFile /\ seq \in Nat
Types == LineTypes /\ RunTypes /\ FileTypes

Data  == corpus[case]
Alone == Rendered(Data)
Clean(i) == \A j \in 1 .. i : ~AsksEarly(corpus[j]) /\ ~AsksRaw(corpus[j])
Paced(i) == ~Straddles(corpus[i]) /\ ~EndsInside(corpus[i])

\* the terminal once it has all that is on its way, and all reports till then
Coming  == Fed(term, pipe)
Owed    == buf \o (back \o Coming.replies)
Settled == pipe = <<>> /\ back = <<>>
Mute    == Lacks(Cpr, back) /\ Lacks(Cpr, Coming.replies)

\* Only the last byte under way asks for a report of kind K: one received is the last of all.
LastOnly(K) == LastOf(K, term, pipe, back, buf)

\* the reports on which a case is judged
Own(data, q) ==
  Retag(Rendered(data).replies, q) \o
    (IF EndsInQuery(LastWindow(data)) THEN <<>> ELSE <<Place(Rendered(data).scr, q)>>)

\* Before it has booted the terminal loses what is sent, a question whose last byte asks.
BootInv ==
  ~up => /\ buf = <<>> /\ back = <<>> /\ stage \in {"open", "ready", "readywait", "failed"}
         /\ \A k \in 1 .. Len(pipe) - 1 : pipe[k].b \notin {"n", "c"}

OpenInv ==
  alive => /\ stage \in {"open", "ready", "probe"} => Settled
           /\ stage = "readywait" => LastOnly(Cpr)

\* n bytes of the case have been sent, no sequence is open, nothing is awaited
SentTo(n) ==
  /\ n \in {0} \cup Boundaries(Data) /\ unsent = SubSeq(Data, n + 1, Len(Data))
  /\ Upto(Data, n).state = "normal" /\ Upto(Data, n).replies = <<>>
  /\ term.state = "normal" /\ term.scr = Upto(Data, n).scr
\* n bytes and the question have been sent
AskedAt(n) ==
  /\ n \in Boundaries(Data) \cup {Len(Data)} /\ unsent = SubSeq(Data, n + 1, Len(Data))
  /\ n = Len(Data) => ~EndsInQuery(LastWindow(Data))
  /\ Upto(Data, n).state = "normal" =>
       /\ Coming.scr = Upto(Data, n).scr
       /\ Owed = Retag(Upto(Data, n).replies, case) \o <<Place(Upto(Data, n).scr, case)>>
  /\ Upto(Data, n).state # "normal" => Lacks(Cpr, Owed)

ResetInv  == stage = "reset" => Mute
SyncInv   == stage = "sync" => LastOnly(Cpr) /\ Coming.state = "normal" /\ Coming.scr = <<>>
SendInv   == stage = "send" => Settled /\ \E n \in 0 .. Len(Data) : SentTo(n)
AckInv    == stage = "ack" => LastOnly(Cpr) /\ Coming.state = "normal" /\ \E n \in 0 .. Len(Data) : AskedAt(n)
ReplyInv  ==
  stage = "reply" => /\ LastOnly(AnyKind) /\ unsent = <<>> /\ EndsInQuery(LastWindow(Data))
                  /\ Coming.scr = Alone.scr /\ Owed = Retag(Alone.replies, case)
SettleInv ==
  stage = "settle" => Mute /\ (Paced(case) => Settled /\ term.scr = Alone.scr /\ buf = Own(Data, case))
FreshInv  ==
  stage = "fresh" => Mute /\ (Paced(case) => Settled /\ term.scr = Alone.scr /\ reports = Own(Data, case))
CaseInv ==
  alive /\ Clean(case) =>
    ResetInv /\ SyncInv /\ SendInv /\ AckInv /\ ReplyInv /\ SettleInv /\ FreshInv

\* A snapshot begun once render has looked shows the case, and what was peeked is its reports.
BusyInv == alive /\ file.st = "busy" => file.scr = term.scr
ShotInv ==
  /\ stage = "fresh" /\ Clean(case) /\ Paced(case)
  /\ file.st = "ok" \/ (file.st = "busy" /\ alive)
  /\ file.seq > after
  => file.scr = Alone.scr /\ reports = Own(Data, case)

PastInv ==
  /\ Len(verdicts) = IF stage = "done" THEN case ELSE case - 1
  /\ \A i \in 1 .. Len(verdicts) : verdicts[i].ok /\ Clean(i) /\ Paced(i) => Exact(i)

Tells == Types /\ BootInv /\ OpenInv /\ CaseInv /\ BusyInv /\ ShotInv /\ PastInv

--------------------------------------------------------------------------------
(***************************************************************************)
(* Types.                                                                  *)
(***************************************************************************)
LEMMA WindowTypes ==
  ASSUME TargetFine, unsent \in Seq(Bytes)
  PROVE  Window1 \in Seq(Bytes) /\ Rest \in Seq(Bytes)
  <1> DEFINE s == Slice  l == Len(unsent)
  <1>1. s \in Nat /\ s > 0 BY SliceIs
  <1>2. l \in Nat OBVIOUS
  <1>3. l <= s => Window1 = unsent BY DEF Window1
  <1>4. ~(l <= s) => Window1 = SubSeq(unsent, 1, s) BY DEF Window1
  <1>5. Rest = SubSeq(unsent, s + 1, l) BY DEF Rest
  <1> HIDE DEF s, l
  <1>6. CASE l <= s
    <2>1. s + 1 \in Int /\ l \in Int /\ l < s + 1 BY <1>1, <1>2, <1>6
    <2>2. Rest = <<>> BY <1>5, <2>1, SubSeqEmpty
    <2> QED BY <1>3, <1>6, <2>2, OwnBytes
  <1>7. CASE ~(l <= s)
    <2>1. s <= l /\ 0 \in Nat /\ 0 <= s BY <1>1, <1>2, <1>7
    <2>2. SubSeq(unsent, 0 + 1, s) \in Seq(Bytes) BY <1>1, <1>2, <2>1, PartIs DEF l
    <2>3. Rest \in Seq(Bytes) BY <1>1, <1>2, <1>5, <2>1, PartIs DEF l
    <2>4. 0 + 1 = 1 OBVIOUS
    <2>5. SubSeq(unsent, 1, s) \in Seq(Bytes) BY <2>2, <2>4
    <2> QED BY <1>4, <1>7, <2>3, <2>5
  <1> QED BY <1>6, <1>7

\* What is sent is on its way, unless the emulator has gone.
LEMMA SendIs ==
  ASSUME LineTypes, RunTypes, NEW x \in Seq(Bytes), SendOnly(x)
  PROVE  /\ OnWire(x, case) \in Seq(Wire) /\ pipe' \in Seq(Wire) /\ case \in Nat
         /\ pipe' = IF alive THEN pipe \o OnWire(x, case) ELSE pipe
         /\ UNCHANGED <<alive, up, back, term, gone, file, seq>>
  <1>1. case \in Nat BY DEF RunTypes
  <1>2. OnWire(x, case) \in Seq(Wire) BY <1>1, WireIs
  <1>3. pipe' = IF alive THEN pipe \o OnWire(x, case) ELSE pipe
    BY DEF SendOnly, Send
  <1>4. UNCHANGED <<alive, up, back, term, gone, file, seq>> BY DEF SendOnly, probe
  <1> QED BY <1>1, <1>2, <1>3, <1>4 DEF LineTypes

LEMMA SendTypes ==
  ASSUME LineTypes, RunTypes, NEW x \in Seq(Bytes), SendOnly(x), buf' \in Seq(Report)
  PROVE  LineTypes'
  BY SendIs DEF LineTypes

LEMMA FileIs ==
  ASSUME file \in SnapshotFile
  PROVE  /\ file.st = "ok" \/ file.st = "busy" =>
              file.seq \in Nat /\ file.scr \in Seq(Seen) /\ file.effects \in Int
         /\ file.st = "busy" =>
              /\ [file EXCEPT !.st = "ok"] \in SnapshotFile /\ [file EXCEPT !.st = "ok"].seq = file.seq
              /\ [file EXCEPT !.st = "ok"].scr = file.scr /\ [file EXCEPT !.st = "ok"].st = "ok"
  BY DEF SnapshotFile, Absent

LEMMA ShownSeen == ASSUME NEW x \in Seq(Shown) PROVE x \in Seq(Seen)
  BY DEF Seen

LEMMA LineTypesStep ==
  ASSUME TargetFine, LineTypes, RunTypes, TargetNext PROVE LineTypes'
  <1> USE OwnBytes
  <1>1. <<>> \in Seq(Report) OBVIOUS
  <1>2. ASSUME AskReady PROVE LineTypes'
    BY <1>1, <1>2, SendTypes DEF AskReady, ClearBuf
  <1>3. ASSUME Reset PROVE LineTypes'
    <2>1. Clear \o Query \in Seq(Bytes) BY ConcatProperties
    <2>2. Clear = <<"esc", "\\", "esc", "c">> BY DEF Clear
    <2>3. SendOnly(Clear \o Query) /\ buf' = <<>>
      BY <1>3, <2>2 DEF Reset, ClearBuf
    <2> QED BY <1>1, <2>1, <2>3, SendTypes
  <1>4. ASSUME SendWindow PROVE LineTypes'
    <2>1. Window1 \in Seq(Bytes) BY WindowTypes DEF RunTypes
    <2>2. Window1 \o Query \in Seq(Bytes) BY <2>1, ConcatProperties
    <2>3. /\ buf' = <<>>
          /\ SendOnly(Window1) \/ SendOnly(Window1 \o Query)
      BY <1>4 DEF SendWindow, ClearBuf
    <2> QED BY <1>1, <2>1, <2>2, <2>3, SendTypes
  <1>5. ASSUME Unacked PROVE LineTypes'
    <2>1. CASE unsent = <<>>
      BY <1>5, <2>1 DEF Unacked, machine, LineTypes
    <2>2. CASE unsent # <<>>
      <3>1. unsent \in Seq(Bytes) /\ buf \in Seq(Report) BY DEF RunTypes, LineTypes
      <3>2. SendOnly(unsent) /\ buf' = buf BY <1>5, <2>2 DEF Unacked
      <3> QED BY <3>1, <3>2, SendTypes
    <2> QED BY <2>1, <2>2
  <1>6. ASSUME Process PROVE LineTypes'
    <2>1. pipe # <<>> /\ pipe' = Tail(pipe) /\ UNCHANGED <<buf, alive, up>>
      BY <1>6 DEF Process, reader
    <2>2. pipe \in Seq(Wire) /\ back \in Seq(Report) /\ term \in Terms /\ term.replies = <<>>
      BY DEF LineTypes
    <2>3. pipe' \in Seq(Wire) BY <2>1, <2>2, HeadApart
    <2>4. CASE up
      <3>1. term' = After(term, pipe) /\ back' = back \o Said(term, pipe)
        BY <1>6, <2>4 DEF Process, After, Said, Step, Quieted
      <3> QED BY <2>1, <2>2, <2>3, <3>1, LineStep DEF LineTypes
    <2>5. CASE ~up
      <3>1. term' = Quieted(term) /\ back' = back \o term.replies
        BY <1>6, <2>5 DEF Process, Quieted
      <3>2. Quieted(term) \in Terms /\ Quieted(term).replies = <<>> BY <2>2, TermIs DEF Quieted
      <3>3. back' = back BY <2>2, <3>1, CatNothing
      <3> QED BY <2>1, <2>2, <2>3, <3>1, <3>2, <3>3 DEF LineTypes
    <2> QED BY <2>4, <2>5
  <1>7. ASSUME Receive PROVE LineTypes'
    <2>1. back # <<>> /\ buf' = Append(buf, Head(back)) /\ back' = Tail(back) /\ UNCHANGED <<alive, up, pipe, term>>
      BY <1>7 DEF Receive
    <2>2. Append(buf, Head(back)) \in Seq(Report) /\ Tail(back) \in Seq(Report)
      BY <1>1, <2>1, LineReceived DEF LineTypes
    <2> QED BY <2>1, <2>2 DEF LineTypes
  <1>8. ASSUME Exit PROVE LineTypes'
    <2>1. <<>> \in Seq(Wire) OBVIOUS
    <2> QED BY <1>8, <2>1 DEF Exit, reader, LineTypes
  <1>9. ASSUME Ready \/ Sync PROVE LineTypes'
    BY <1>1, <1>9 DEF Ready, Sync, ClearBuf, machine, LineTypes
  <1>10. ASSUME \/ Open \/ NotReady \/ WaitProbe \/ AskFails \/ Acked
                \/ Poll \/ NoReply \/ Look \/ Take \/ CaseFails
                \/ Eof \/ Boot \/ SnapshotBegins \/ SnapshotEnds \/ Finished
         PROVE  LineTypes'
    BY <1>10 DEF Open, NotReady, WaitProbe, AskFails, Acked,
         Poll, NoReply, Look, Take, CaseFails, Eof, Boot,
         SnapshotBegins, SnapshotEnds, Finished, machine, reader,
         target, LineTypes
  <1> QED BY <1>2, <1>3, <1>4, <1>5, <1>6, <1>7, <1>8, <1>9, <1>10 DEF TargetNext, Harness

\* The position among reports is that of one of them.
LEMMA CursorIs ==
  ASSUME NEW r \in Seq(Report), Cprs(r) # {}
  PROVE  Max(Cprs(r)) \in Cprs(r)
  <1> DEFINE S == Cprs(r)
  <1>1. S \subseteq 1 .. Len(r) BY DEF Cprs
  <1> HIDE DEF S
  <1>2. \A x \in S : x \in Int /\ x <= Len(r) BY <1>1
  <1>3. S # {} BY DEF S
  <1>4. \E x \in S : \A y \in S : x >= y
    <2> DEFINE m == Len(r)
               T == {m - x : x \in S}
    <2>1. m \in Nat OBVIOUS
    <2> HIDE DEF m
    <2>2. T \in SUBSET Nat /\ T # {}
      <3>1. \A x \in S : m - x \in Nat BY <1>2, <2>1 DEF m
      <3> QED BY <1>3, <3>1
    <2>3. PICK z \in T : \A y \in T : z <= y BY <2>2, Least
    <2>4. PICK x \in S : z = m - x BY <2>3
    <2>5. ASSUME NEW y \in S PROVE x >= y
      <3>1. m - y \in T OBVIOUS
      <3>2. m - x <= m - y BY <2>3, <2>4, <3>1
      <3>3. x \in Int /\ y \in Int BY <1>2
      <3> QED BY <2>1, <3>2, <3>3
    <2> QED BY <2>5
  <1>5. Max(S) = CHOOSE x \in S : \A y \in S : x >= y BY DEF Max
  <1>6. Max(S) \in S BY <1>4, <1>5
  <1> QED BY <1>6 DEF S

LEMMA RunTypesStep ==
  ASSUME TargetFine, LineTypes, RunTypes, FileTypes, TargetNext PROVE RunTypes'
  <1>c. NCases \in Nat \ {0} BY DEF TargetFine
  <1>d. corpus[case] \in Seq(Bytes) BY DEF RunTypes, TargetFine
  <1>1. ASSUME Sync PROVE RunTypes'
    BY <1>1, <1>d DEF Sync, ready, peeked, progress, RunTypes
  <1>2. ASSUME SendWindow PROVE RunTypes'
    <2>1. unsent' \in Seq(Bytes) BY <1>2, WindowTypes DEF SendWindow, RunTypes
    <2> QED BY <1>2, <2>1 DEF SendWindow, ready, peeked, progress,
               RunTypes
  <1>3. ASSUME Unacked PROVE RunTypes'
    BY <1>3, OwnBytes DEF Unacked, ready, peeked, progress, RunTypes
  <1>4. ASSUME Look PROVE RunTypes'
    <2>1. after' \in Int BY <1>4, FileIs DEF Look, CurrentSeq, Valid, FileTypes
    <2>2. reports' \in Seq(Report) BY <1>4 DEF Look, LineTypes
    <2> QED BY <1>4, <2>1, <2>2 DEF Look, ready, sending, progress,
               RunTypes
  <1>5. ASSUME NEW r \in Judgement, Record(r), UNCHANGED <<corpus, unsent, reports, after>> PROVE RunTypes'
    <2>1. verdicts' \in Seq(Judgement) BY <1>5 DEF Record, RunTypes
    <2>2. case' \in 1 .. NCases BY <1>5, <1>c DEF Record, RunTypes
    <2> QED BY <1>5, <2>1, <2>2 DEF RunTypes
  <1>6. ASSUME Take PROVE RunTypes'
    <2>1. file.scr \in Seq(Seen)
      BY <1>6, FileIs DEF Take, Fresh, Valid, FileTypes
    <2>2. reports \in Seq(Report) BY DEF RunTypes
    <2>3. Cursor \in Nat
      <3>1. CASE Cprs(reports) # {}
        <4>1. Max(Cprs(reports)) \in Cprs(reports) BY <2>2, <3>1, CursorIs
        <4>2. Max(Cprs(reports)) \in DOMAIN reports BY <4>1 DEF Cprs
        <4>3. reports[Max(Cprs(reports))] \in Report BY <2>2, <4>2
        <4>4. Cursor = reports[Max(Cprs(reports))].at BY <3>1 DEF Cursor
        <4> QED BY <4>3, <4>4 DEF Report
      <3>2. CASE Cprs(reports) = {} BY <2>1, <3>2 DEF Cursor
      <3> QED BY <3>1, <3>2
    <2>4. Verdict \in Judgement BY <2>1, <2>2, <2>3 DEF Verdict, Judgement
    <2>5. Record(Verdict) /\ UNCHANGED <<corpus, unsent, reports, after>>
      BY <1>6 DEF Take, ready, sending, peeked
    <2> QED BY <1>5, <2>4, <2>5
  <1>7. ASSUME CaseFails PROVE RunTypes'
    <2>1. Error \in Judgement BY DEF Error, Judgement
    <2>2. Record(Error) /\ UNCHANGED <<corpus, unsent, reports, after>>
      BY <1>7 DEF CaseFails, ready, sending, peeked
    <2> QED BY <1>5, <2>1, <2>2
  <1>8. ASSUME UNCHANGED <<corpus, case, unsent, reports, after, verdicts>> PROVE RunTypes'
    BY <1>8 DEF RunTypes
  <1>9. ASSUME \/ Open \/ AskReady \/ Ready \/ NotReady \/ WaitProbe
               \/ AskFails \/ Reset \/ Acked \/ Poll \/ NoReply
               \/ Receive \/ Eof \/ Boot \/ Process
               \/ SnapshotBegins \/ SnapshotEnds \/ Exit \/ Finished
        PROVE  UNCHANGED <<corpus, case, unsent, reports, after, verdicts>>
    BY <1>9 DEF Open, AskReady, Ready, NotReady, WaitProbe,
         AskFails, Reset, Acked, Poll, NoReply, Receive,
         Eof, Boot, Process, SnapshotBegins, SnapshotEnds, Exit,
         Finished, ready, sending, peeked, progress, harness,
         target
  <1> QED BY <1>1, <1>2, <1>3, <1>4, <1>6, <1>7, <1>8, <1>9 DEF TargetNext, Harness

LEMMA FileTypesStep ==
  ASSUME LineTypes, FileTypes, TargetNext PROVE FileTypes'
  <1>1. ASSUME Open PROVE FileTypes'
    BY <1>1 DEF Open, FileTypes, SnapshotFile
  <1>2. ASSUME SnapshotBegins PROVE FileTypes'
    <2>1. term.scr \in Seq(Seen) /\ term.effects \in Nat BY TermIs, ShownSeen DEF LineTypes
    <2>2. seq' \in Nat BY <1>2 DEF SnapshotBegins, FileTypes
    <2>3. file' = [st |-> "busy", seq |-> seq', scr |-> term.scr, effects |-> term.effects]
      BY <1>2 DEF SnapshotBegins
    <2> QED BY <2>1, <2>2, <2>3 DEF FileTypes, SnapshotFile
  <1>3. ASSUME SnapshotEnds PROVE FileTypes'
    BY <1>3, FileIs DEF SnapshotEnds, FileTypes
  <1>4. ASSUME UNCHANGED <<file, seq>> PROVE FileTypes'
    BY <1>4 DEF FileTypes
  <1>5. ASSUME \/ AskReady \/ Ready \/ NotReady \/ WaitProbe
               \/ AskFails \/ Reset \/ Sync \/ SendWindow \/ Acked
               \/ Unacked \/ Poll \/ NoReply \/ Look \/ Take
               \/ CaseFails \/ Receive \/ Eof \/ Boot \/ Process
               \/ Exit \/ Finished
        PROVE  UNCHANGED <<file, seq>>
    BY <1>5 DEF AskReady, Ready, NotReady, WaitProbe,
         AskFails, Reset, Sync, SendWindow, Acked, Unacked,
         Poll, NoReply, Look, Take, CaseFails, Receive,
         Eof, Boot, Process, Exit, Finished, SendOnly,
         probe, target
  <1> QED BY <1>1, <1>2, <1>3, <1>4, <1>5 DEF TargetNext, Harness

LEMMA TypesInit == ASSUME TargetFine, TargetInit PROVE Types
  <1>1. <<>> \in Seq(Wire) /\ <<>> \in Seq(Report) /\ <<>> \in Seq(Judgement) OBVIOUS
  <1>2. LineTypes BY <1>1, BlankIs DEF TargetInit, LineTypes
  <1>3. NCases \in Nat \ {0} BY DEF TargetFine
  <1>4. RunTypes BY <1>1, <1>3, OwnBytes DEF TargetInit, RunTypes
  <1>5. Leftover \in SnapshotFile
    <2>1. <<"old">> \in Seq(Seen) BY DEF Seen
    <2> DEFINE x == <<"old">>
    <2> HIDE DEF x
    <2>2. [st |-> "ok", seq |-> 0, scr |-> x, effects |-> 0 - 1] \in SnapshotFile
      BY <2>1 DEF SnapshotFile, x
    <2> QED BY <2>2 DEF x, Leftover
  <1>6. FileTypes BY <1>5 DEF TargetInit, FileTypes, SnapshotFile
  <1> QED BY <1>2, <1>4, <1>6 DEF Types

LEMMA TypesStep == ASSUME TargetFine, Types, TargetNext PROVE Types'
  BY LineTypesStep, RunTypesStep, FileTypesStep DEF Types

--------------------------------------------------------------------------------
(***************************************************************************)
(* Before the terminal has booted; the snapshot.                           *)
(***************************************************************************)
LEMMA QueryWire ==
  ASSUME NEW q \in Nat
  PROVE  /\ OnWire(Query, q) \in Seq(Wire) /\ Len(OnWire(Query, q)) = 3
         /\ \A k \in 1 .. 2 : OnWire(Query, q)[k].b \notin {"n", "c"}
  <1>1. Len(Query) = 3 /\ Query[1] = "esc" /\ Query[2] = "["
    BY DEF Query
  <1>2. /\ OnWire(Query, q) \in Seq(Wire)
        /\ Len(OnWire(Query, q)) = Len(Query)
        /\ \A k \in 1 .. Len(Query) : OnWire(Query, q)[k] = [b |-> Query[k], for |-> q]
    BY OwnBytes, WireIs
  <1>3. /\ OnWire(Query, q)[1] = [b |-> "esc", for |-> q]
        /\ OnWire(Query, q)[2] = [b |-> "[", for |-> q]
    BY <1>1, <1>2
  <1>4. \A k \in 1 .. 2 : k = 1 \/ k = 2 OBVIOUS
  <1> QED BY <1>1, <1>2, <1>3, <1>4

LEMMA BootStep ==
  ASSUME TargetNext, Types, BootInv, OpenInv PROVE BootInv'
  <1> SUFFICES ASSUME ~up' PROVE BootInv' BY DEF BootInv
  <1>0. ~up
    BY DEF TargetNext, Harness, Open, AskReady, Ready, NotReady,
      WaitProbe, AskFails, Reset, Sync, SendWindow, Acked,
      Unacked, Poll, NoReply, Look, Take, CaseFails,
      Receive, Eof, Boot, Process, SnapshotBegins, SnapshotEnds,
      Exit, Finished, machine, target, SendOnly
  <1>1. /\ buf = <<>> /\ back = <<>> /\ stage \in {"open", "ready", "readywait", "failed"}
        /\ \A k \in 1 .. Len(pipe) - 1 : pipe[k].b \notin {"n", "c"}
    BY <1>0 DEF BootInv
  <1>2. pipe \in Seq(Wire) /\ term.replies = <<>> BY DEF Types, LineTypes
  <1>3. ASSUME UNCHANGED <<buf, back, pipe>>, stage' \in {"open", "ready", "readywait", "failed"} PROVE BootInv'
    BY <1>1, <1>3 DEF BootInv
  <1>4. ASSUME AskReady PROVE BootInv'
    <2>1. SendOnly(Query) /\ buf' = <<>> /\ stage' = "readywait" /\ stage = "ready"
      BY <1>4 DEF AskReady, ClearBuf
    <2>2. /\ case \in Nat /\ back' = back
          /\ pipe' = IF alive THEN pipe \o OnWire(Query, case) ELSE pipe
      BY <2>1, OwnBytes, SendIs DEF Types
    <2> DEFINE w == OnWire(Query, case)
    <2>3. w \in Seq(Wire) /\ Len(w) = 3 /\ \A k \in 1 .. 2 : w[k].b \notin {"n", "c"}
      BY <2>2, QueryWire
    <2> HIDE DEF w
    <2>4. CASE alive
      <3>1. pipe = <<>> BY <2>1, <2>4 DEF OpenInv, Settled
      <3>2. pipe' = w BY <2>2, <2>3, <2>4, <3>1, ConcatEmptySeq DEF w
      <3>3. Len(pipe') - 1 = 2 /\ \A k \in 1 .. 2 : pipe'[k].b \notin {"n", "c"} BY <2>3, <3>2
      <3> QED BY <1>1, <2>1, <2>2, <3>3 DEF BootInv
    <2>5. CASE ~alive BY <1>1, <2>1, <2>2, <2>5 DEF BootInv
    <2> QED BY <2>4, <2>5
  <1>5. ASSUME Process PROVE BootInv'
    <2>1. pipe # <<>> /\ pipe' = Tail(pipe) /\ back' = back \o term.replies /\ UNCHANGED <<buf, stage>>
      BY <1>0, <1>5 DEF Process, reader, harness
    <2>2. back' = <<>> BY <1>1, <1>2, <2>1
    <2>3. /\ Len(pipe') = Len(pipe) - 1 /\ Len(pipe) \in Nat
          /\ \A k \in 1 .. Len(pipe) - 1 : pipe'[k] = pipe[k + 1]
      BY <1>2, <2>1
    <2>4. ASSUME NEW k \in 1 .. Len(pipe') - 1 PROVE pipe'[k].b \notin {"n", "c"}
      <3>1. k \in 1 .. Len(pipe) - 1 /\ k + 1 \in 1 .. Len(pipe) - 1 BY <2>3, <2>4
      <3> QED BY <1>1, <2>3, <3>1
    <2> QED BY <1>1, <2>1, <2>2, <2>4 DEF BootInv
  <1>6. ASSUME Exit PROVE BootInv'
    BY <1>1, <1>6 DEF Exit, harness, reader, BootInv
  <1>7. ASSUME Open \/ NotReady \/ AskFails PROVE BootInv'
    <2>1. UNCHANGED <<buf, back, pipe>> /\ stage' \in {"ready", "failed"}
      BY <1>7 DEF Open, NotReady, AskFails, reader, machine
    <2> QED BY <1>3, <2>1
  <1>8. ASSUME Eof \/ SnapshotBegins \/ SnapshotEnds \/ Finished PROVE BootInv'
    BY <1>1, <1>3, <1>8 DEF Eof, SnapshotBegins, SnapshotEnds, Finished,
      reader, machine, harness, target
  <1>9. ~Ready /\ ~Receive /\ ~Boot
    <2>1. ~Ready BY <1>1 DEF Ready, Answered, Cprs
    <2> QED BY <1>1, <2>1 DEF Receive, Boot
  <1>10. /\ ~WaitProbe /\ ~Reset /\ ~Sync /\ ~SendWindow /\ ~Acked
         /\ ~Unacked /\ ~Poll /\ ~NoReply /\ ~Look /\ ~Take /\ ~CaseFails
    BY <1>1 DEF WaitProbe, Reset, Sync, SendWindow, Acked,
       Unacked,
      Poll, NoReply, Look, Take, CaseFails
  <1> QED BY <1>4, <1>5, <1>6, <1>7, <1>8, <1>9, <1>10 DEF TargetNext, Harness

LEMMA BusyStep ==
  ASSUME TargetNext, Types, BusyInv PROVE BusyInv'
  <1>1. ASSUME Open PROVE BusyInv' BY <1>1 DEF Open, Absent, BusyInv
  <1>2. ASSUME Process PROVE BusyInv'
    BY <1>2 DEF Process, Running, probe, BusyInv
  <1>3. ASSUME SnapshotBegins PROVE BusyInv'
    BY <1>3 DEF SnapshotBegins, machine, BusyInv
  <1>4. ASSUME SnapshotEnds PROVE BusyInv'
    <2>1. file'.st = "ok" BY <1>4, FileIs DEF SnapshotEnds, Types, FileTypes
    <2> QED BY <2>1 DEF BusyInv
  <1>5. ASSUME Exit PROVE BusyInv' BY <1>5 DEF Exit, BusyInv
  <1>6. ASSUME \/ AskReady \/ Ready \/ NotReady \/ WaitProbe
               \/ AskFails \/ Reset \/ Sync \/ SendWindow \/ Acked
               \/ Unacked \/ Poll \/ NoReply \/ Look \/ Take
               \/ CaseFails \/ Receive \/ Eof \/ Boot \/ Finished
        PROVE  UNCHANGED <<alive, file, term>>
    BY <1>6 DEF AskReady, Ready, NotReady, WaitProbe,
         AskFails, Reset, Sync, SendWindow, Acked, Unacked,
         Poll, NoReply, Look, Take, CaseFails, Receive,
         Eof, Boot, Finished, SendOnly, probe, machine, target
  <1>7. ASSUME UNCHANGED <<alive, file, term>> PROVE BusyInv' BY <1>7 DEF BusyInv
  <1> QED BY <1>1, <1>2, <1>3, <1>4, <1>5, <1>6, <1>7 DEF TargetNext, Harness

LEMMA ShotStep ==
  ASSUME TargetNext, Types, CaseInv, BusyInv, ShotInv PROVE ShotInv'
  <1> SUFFICES ASSUME stage' = "fresh", Clean(case)', Paced(case)', (file.st = "ok" \/ (file.st = "busy" /\ alive))',
                      (file.seq > after)'
               PROVE  (file.scr = Alone.scr /\ reports = Own(Data, case))'
    BY DEF ShotInv
  <1>1. ASSUME UNCHANGED <<stage, corpus, case, reports, after>>
        PROVE  /\ stage = "fresh" /\ Clean(case) /\ Paced(case) /\ Alone' = Alone /\ reports' = reports
               /\ Own(Data, case)' = Own(Data, case)
    BY <1>1 DEF Clean, Paced, Alone, Data, Own
  <1>2. ASSUME UNCHANGED <<stage, corpus, case, reports, after, file>>, alive' => alive
        PROVE  (file.scr = Alone.scr /\ reports = Own(Data, case))'
    BY <1>1, <1>2 DEF ShotInv
  <1>3. CASE Look
    <2>1. /\ stage = "settle" /\ reports' = buf /\ after' = CurrentSeq
          /\ UNCHANGED <<corpus, case, file, alive, term>>
      BY <1>3 DEF Look, ready, progress, probe, machine
    <2>2. Clean(case) /\ Paced(case) /\ Alone' = Alone /\ Own(Data, case)' = Own(Data, case)
      BY <2>1 DEF Clean, Paced, Alone, Data, Own
    <2>3. file.st = "busy" /\ alive
      <3>1. file.st = "ok" => after' = file.seq /\ file.seq \in Nat
        BY <2>1, FileIs DEF CurrentSeq, Valid, Types, FileTypes
      <3> QED BY <2>1, <3>1
    <2>4. file.scr = term.scr BY <2>3 DEF BusyInv
    <2>5. term.scr = Alone.scr /\ buf = Own(Data, case) BY <2>1, <2>2, <2>3 DEF CaseInv, SettleInv
    <2> QED BY <2>1, <2>2, <2>4, <2>5
  <1>4. CASE SnapshotBegins
    <2>1. /\ alive /\ UNCHANGED <<stage, corpus, case, reports, after>> /\ file'.scr = term.scr
      BY <1>4 DEF SnapshotBegins, Running, harness, ready,
         progress, peeked
    <2>2. term.scr = Alone.scr /\ reports = Own(Data, case) BY <1>1, <2>1 DEF CaseInv, FreshInv
    <2> QED BY <1>1, <2>1, <2>2
  <1>5. CASE SnapshotEnds
    <2>1. /\ alive /\ file.st = "busy" /\ UNCHANGED <<stage, corpus, case, reports, after>>
          /\ file' = [file EXCEPT !.st = "ok"]
      BY <1>5 DEF SnapshotEnds, harness, ready, progress, peeked
    <2>2. file'.scr = file.scr /\ file'.seq = file.seq BY <2>1, FileIs DEF Types, FileTypes
    <2> QED BY <1>1, <2>1, <2>2 DEF ShotInv
  <1>6. CASE Finished BY <1>6 DEF Finished, target, harness
  <1>7. CASE Exit \/ Receive \/ Eof \/ Boot \/ Process
    <2>1. UNCHANGED <<stage, corpus, case, reports, after, file>> /\ (alive' => alive)
      BY <1>7 DEF Exit, Receive, Eof, Boot, Process,
         harness,
        ready, progress, peeked, probe, machine
    <2> QED BY <1>2, <2>1
  <1>8. ASSUME \/ Open \/ AskReady \/ Ready \/ NotReady \/ WaitProbe
               \/ AskFails \/ Reset \/ Sync \/ SendWindow \/ Acked
               \/ Unacked \/ Poll \/ NoReply \/ Take \/ CaseFails
        PROVE  FALSE
    BY <1>8 DEF Open, AskReady, Ready, NotReady, WaitProbe,
         AskFails, Reset, Sync, SendWindow, Acked, Unacked,
         Poll, NoReply, Take, CaseFails, Record
  <1> QED BY <1>3, <1>4, <1>5, <1>6, <1>7, <1>8 DEF TargetNext, Harness

--------------------------------------------------------------------------------
(***************************************************************************)
(* What is sent, and what the line carries.                                *)
(***************************************************************************)
LEMMA LessMore ==
  ASSUME NEW B, NEW s \in Seq(B), NEW e \in B
  PROVE  Less(Append(s, e)) = s
  <1> DEFINE u == Append(s, e)
  <1>1. u \in Seq(B) /\ Len(u) = Len(s) + 1 /\ \A i \in 1 .. Len(s) : u[i] = s[i] OBVIOUS
  <1>2. Len(s) \in Nat OBVIOUS
  <1> HIDE DEF u
  <1>3. u # <<>>
    <2>1. Len(u) >= 1 BY <1>1, <1>2
    <2> QED BY <1>1, <2>1, Longer
  <1> DEFINE l == Less(u)
  <1>4. l \in Seq(B) /\ Len(l) = Len(s) /\ \A i \in 1 .. Len(s) : l[i] = s[i]
    <2>1. l \in Seq(B) /\ Len(l) = Len(u) - 1 /\ \A i \in 1 .. Len(u) - 1 : l[i] = u[i]
      BY <1>1,
         <1>3,
         LessIs
    <2>2. Len(u) - 1 = Len(s) BY <1>1, <1>2
    <2> QED BY <1>1, <2>1, <2>2
  <1> HIDE DEF l
  <1>5. l = s BY <1>4, SeqEqual
  <1> QED BY <1>5 DEF l, u

LEMMA MoreCat ==
  ASSUME NEW B, NEW w \in Seq(B), NEW s \in Seq(B), NEW e \in B
  PROVE  w \o Append(s, e) = Append(w \o s, e)
  OBVIOUS

LEMMA LessQuery ==
  ASSUME NEW w \in Seq(Wire), NEW q \in Nat
  PROVE  Less(w \o OnWire(Query, q)) = w \o OnWire(Half, q)
  <1> DEFINE s == OnWire(Half, q)  e == [b |-> "n", for |-> q]
  <1>1. OnWire(Query, q) = Append(s, e) BY OwnBytes, BytesAre, WireMore
  <1>2. s \in Seq(Wire) BY OwnBytes, WireIs
  <1>3. e \in Wire BY BytesAre DEF Wire
  <1> HIDE DEF s, e
  <1>4. w \o Append(s, e) = Append(w \o s, e) /\ w \o s \in Seq(Wire)
    BY <1>2, <1>3, MoreCat, ConcatProperties
  <1>5. Less(Append(w \o s, e)) = w \o s BY <1>3, <1>4, LessMore
  <1> QED BY <1>1, <1>4, <1>5 DEF s

\* A question behind what asks for no position is the last to be answered.
LEMMA AskedLast ==
  ASSUME NEW t \in Terms, NEW w \in Seq(Wire), NEW q \in Nat, NEW k,
         Lacks(Cpr, k), Lacks(Cpr, Fed(t, w).replies)
  PROVE  /\ LastOf(Cpr, t, w \o OnWire(Query, q), k, <<>>)
         /\ Fed(t, w \o OnWire(Query, q)) = Typed(Fed(t, w), Query, q)
         /\ w \o OnWire(Query, q) # <<>>
  <1> DEFINE h == OnWire(Half, q)  s == OnWire(Query, q)  u == Fed(t, w)
  <1>1. h \in Seq(Wire) /\ s \in Seq(Wire) /\ Len(s) = 3 BY OwnBytes, WireIs, QueryWire
  <1>2. u \in Terms BY FedType
  <1>3. Fed(t, w \o h) = Typed(u, Half, q) BY <1>1, FedBoth DEF Typed
  <1>4. Fed(t, w \o s) = Typed(u, Query, q) BY <1>1, FedBoth DEF Typed
  <1>5. Typed(u, Half, q).replies = u.replies BY <1>2, QueryFed
  <1>6. Less(w \o s) = w \o h BY LessQuery
  <1>7. Lacks(Cpr, Fed(t, Less(w \o s)).replies) BY <1>3, <1>5, <1>6
  <1> HIDE DEF s
  <1>8. w \o s # <<>>
    <2>1. w \o s \in Seq(Wire) /\ Len(w \o s) = Len(w) + Len(s) BY <1>1, ConcatProperties
    <2>2. Len(w) \in Nat OBVIOUS
    <2>3. Len(w \o s) >= 1 BY <1>1, <2>1, <2>2
    <2> QED BY <2>1, <2>3, Longer
  <1>9. LastOf(Cpr, t, w \o s, k, <<>>) BY <1>7, <1>8, NoneNothing DEF LastOf
  <1> QED BY <1>4, <1>8, <1>9 DEF s, u

\* The terminal takes a byte, the reader a report.
LEMMA ProcessIs ==
  ASSUME LineTypes, Process
  PROVE  /\ pipe # <<>> /\ pipe' = Tail(pipe) /\ UNCHANGED <<buf, alive, up, gone, file, seq>>
         /\ UNCHANGED <<stage, corpus, case, unsent, reports, after, verdicts>>
         /\ up => term' = After(term, pipe) /\ back' = back \o Said(term, pipe)
         /\ ~up => term' = term /\ back' = back
  <1>1. pipe # <<>> /\ pipe' = Tail(pipe) /\ UNCHANGED <<buf, alive, up, gone, file, seq>>
    BY DEF Process, reader, probe
  <1>2. UNCHANGED <<stage, corpus, case, unsent, reports, after, verdicts>>
    BY DEF Process, harness, ready, sending, peeked,
       progress
  <1>3. up => term' = After(term, pipe) /\ back' = back \o Said(term, pipe)
    BY DEF Process, After, Said, Step, Quieted
  <1>4. ASSUME ~up PROVE term' = term /\ back' = back
    <2>1. term' = [term EXCEPT !.replies = <<>>] /\ back' = back \o term.replies
      BY <1>4 DEF Process
    <2>2. term = [state |-> term.state, scr |-> term.scr, effects |-> term.effects, replies |-> term.replies]
      BY DEF LineTypes, Terms
    <2>3. back' = back BY <2>1, CatNothing DEF LineTypes
    <2>4. term.replies = <<>> BY DEF LineTypes
    <2> HIDE DEF LineTypes
    <2> DEFINE r == term.replies
    <2>5. term' = [term EXCEPT !.replies = r] BY <2>1, <2>4
    <2> HIDE DEF r
    <2>6. [term EXCEPT !.replies = r] = [state |-> term.state, scr |-> term.scr, effects |-> term.effects, replies |-> r]
      BY <2>2, Fields
    <2> QED BY <2>2, <2>3, <2>5, <2>6 DEF r
  <1> QED BY <1>1, <1>2, <1>3, <1>4

LEMMA ProcessCarries ==
  ASSUME LineTypes, Process, up
  PROVE  /\ Coming' \in Terms /\ Coming \in Terms /\ Coming'.state = Coming.state /\ Coming'.scr = Coming.scr
         /\ back' \o Coming'.replies = back \o Coming.replies /\ Owed' = Owed
         /\ Mute => Mute'
  <1>1. /\ term \in Terms /\ term.replies = <<>> /\ pipe \in Seq(Wire) /\ back \in Seq(Report)
        /\ pipe # <<>> /\ pipe' = Tail(pipe) /\ buf' = buf
        /\ term' = After(term, pipe) /\ back' = back \o Said(term, pipe)
    BY ProcessIs DEF LineTypes
  <1>2. Coming' = Fed(After(term, pipe), Tail(pipe)) BY <1>1 DEF Coming
  <1>3. /\ Coming' \in Terms /\ Coming \in Terms /\ Coming'.state = Coming.state /\ Coming'.scr = Coming.scr
        /\ back' \o Coming'.replies = back \o Coming.replies
    BY <1>1, <1>2, LineStep DEF Coming
  <1>4. Owed' = Owed BY <1>1, <1>3 DEF Owed
  <1>5. ASSUME Mute PROVE Mute'
    <2>1. Lacks(Cpr, back) /\ Lacks(Cpr, Fed(term, pipe).replies) BY <1>5 DEF Mute, Coming
    <2>2. Lacks(Cpr, back \o Said(term, pipe)) /\ Lacks(Cpr, Fed(After(term, pipe), Tail(pipe)).replies)
      BY <1>1, <2>1, LineMute
    <2> QED BY <1>1, <1>2, <2>2 DEF Mute
  <1> QED BY <1>3, <1>4, <1>5

LEMMA ProcessLast ==
  ASSUME LineTypes, Process, up, NEW K, LastOnly(K) PROVE LastOnly(K)'
  <1>1. /\ term \in Terms /\ term.replies = <<>> /\ pipe \in Seq(Wire) /\ back \in Seq(Report)
        /\ pipe # <<>> /\ pipe' = Tail(pipe) /\ buf' = buf
        /\ term' = After(term, pipe) /\ back' = back \o Said(term, pipe)
    BY ProcessIs DEF LineTypes
  <1>2. LastOf(K, After(term, pipe), Tail(pipe), back \o Said(term, pipe), buf)
    BY <1>1, LineLast DEF LastOnly
  <1> QED BY <1>1, <1>2 DEF LastOnly

LEMMA ReceiveIs ==
  ASSUME Receive
  PROVE  /\ back # <<>> /\ buf' = Append(buf, Head(back)) /\ back' = Tail(back)
         /\ UNCHANGED <<pipe, term, alive, up, gone, file, seq>>
         /\ UNCHANGED <<stage, corpus, case, unsent, reports, after, verdicts>>
  BY DEF Receive, probe, harness, ready, sending, peeked,
    progress

LEMMA ReceiveCarries ==
  ASSUME LineTypes, Receive
  PROVE  Coming' = Coming /\ Owed' = Owed /\ (Mute => Mute')
  <1>1. Coming' = Coming BY ReceiveIs DEF Coming
  <1>2. Coming.replies \in Seq(Report) BY FedType, TermIs DEF LineTypes, Coming
  <1>3. Owed' = Owed
    <2> DEFINE c == Coming.replies
    <2> HIDE DEF c
    <2>1. back # <<>> /\ back \in Seq(Report) /\ buf \in Seq(Report) /\ c \in Seq(Report)
      BY <1>2, ReceiveIs DEF LineTypes, c
    <2>2. Append(buf, Head(back)) \o (Tail(back) \o c) = buf \o (back \o c)
      BY <2>1, LineReceived
    <2> QED BY <1>1, <2>2, ReceiveIs DEF Owed, c
  <1>4. Mute => Mute' BY <1>1, ReceiveIs, NoneApart DEF Mute, LineTypes
  <1> QED BY <1>1, <1>3, <1>4

LEMMA ReceiveLast ==
  ASSUME LineTypes, Receive, NEW K, LastOnly(K) PROVE LastOnly(K)'
  <1>1. LastOf(K, term, pipe, Tail(back), Append(buf, Head(back)))
    BY ReceiveIs, LineLastReceived DEF LineTypes, LastOnly
  <1> QED BY <1>1, ReceiveIs DEF LastOnly

\* What an answer received, or a wait that ran out, says of the line.
LEMMA AnsweredSettles ==
  ASSUME LineTypes, NEW K, K \in {Cpr, AnyKind}, LastOnly(K), Answered PROVE Settled
  <1>1. ~Lacks(Cpr, buf) BY NoneCprs DEF Answered, LineTypes
  <1>2. ~Lacks(K, buf) BY <1>1, AnyCpr
  <1> QED BY <1>2, LineDone DEF LastOnly, Settled

LEMMA ExpirySettles ==
  ASSUME LineTypes, Hasty = {}, NEW w, Expires(w) PROVE Settled /\ Lacks(Cpr, buf)
  BY NoneCprs DEF Expires, Answered, Settled, LineTypes

LEMMA SettledIs ==
  ASSUME LineTypes, Settled PROVE Coming = term /\ Owed = buf /\ Mute
  <1>1. Coming = term BY FedNothing DEF Settled, Coming
  <1>2. Coming.replies = <<>> /\ back = <<>> /\ buf \in Seq(Report) BY <1>1 DEF LineTypes, Settled
  <1> HIDE DEF Coming
  <1>3. Mute BY <1>2, NoneNothing DEF Mute
  <1>4. <<>> \o <<>> = <<>> BY ConcatEmptySeq
  <1>5. Owed = buf
    <2>1. back \o Coming.replies = <<>> BY <1>2, <1>4
    <2> QED BY <1>2, <2>1, CatNothing DEF Owed
  <1> QED BY <1>1, <1>3, <1>5

LEMMA OpenStep ==
  ASSUME Hasty = {}, TargetNext, Types, BootInv, OpenInv PROVE OpenInv'
  <1> USE DEF Types
  <1>1. ASSUME Open PROVE OpenInv'
    BY <1>1 DEF Open, machine, OpenInv, Settled
  <1>2. ASSUME AskReady PROVE OpenInv'
    <2> SUFFICES ASSUME alive' PROVE LastOnly(Cpr)' BY <1>2 DEF AskReady, OpenInv
    <2>1. SendOnly(Query) /\ buf' = <<>> /\ stage = "ready"
      BY <1>2 DEF AskReady, ClearBuf
    <2>2. /\ case \in Nat /\ back' = back /\ term' = term /\ alive' = alive
          /\ pipe' = IF alive THEN pipe \o OnWire(Query, case) ELSE pipe
      BY <2>1, OwnBytes, SendIs
    <2>3. pipe' = pipe \o OnWire(Query, case) BY <2>2
    <2>4. Settled BY <2>1, <2>2 DEF OpenInv
    <2>5. Lacks(Cpr, back) /\ Lacks(Cpr, Fed(term, pipe).replies)
      BY <2>4, SettledIs DEF Mute, Coming
    <2>6. LastOf(Cpr, term, pipe \o OnWire(Query, case), back, <<>>)
      BY <2>2, <2>5, AskedLast DEF LineTypes
    <2> QED BY <2>1, <2>2, <2>3, <2>6 DEF LastOnly
  <1>3. ASSUME Ready PROVE OpenInv'
    <2>1. alive => Settled BY <1>3, AnsweredSettles DEF Ready, OpenInv
    <2> QED BY <1>3, <2>1 DEF Ready, machine, OpenInv, Settled
  <1>4. ASSUME NotReady PROVE OpenInv'
    <2>1. Settled BY <1>4, ExpirySettles DEF NotReady
    <2> QED BY <1>4, <2>1 DEF NotReady, machine, OpenInv, Settled
  <1>5. ASSUME Process PROVE OpenInv'
    <2> SUFFICES ASSUME alive' PROVE OpenInv' BY DEF OpenInv
    <2>1. stage' = stage /\ alive /\ pipe # <<>> /\ stage \notin {"open", "ready", "probe"}
      BY <1>5, ProcessIs DEF OpenInv, Settled
    <2>2. ASSUME stage = "readywait" PROVE LastOnly(Cpr)'
      <3>1. LastOnly(Cpr) BY <2>1, <2>2 DEF OpenInv
      <3>2. CASE up BY <1>5, <3>1, <3>2, ProcessLast
      <3>3. CASE ~up
        <4>1. buf' = <<>> /\ back' = <<>> /\ pipe' = Tail(pipe) /\ term' = term /\ pipe \in Seq(Wire)
          BY <1>5, <3>3, ProcessIs DEF BootInv, LineTypes
        <4>2. ASSUME pipe' # <<>> PROVE Lacks(Cpr, Fed(term, Less(pipe')).replies)
          <5>1. pipe' \in Seq(Wire) /\ Len(pipe') = Len(pipe) - 1 /\ \A k \in 1 .. Len(pipe) - 1 : pipe'[k] = pipe[k + 1]
            BY <2>1, <4>1
          <5>2. Len(pipe) \in Nat /\ \A k \in 1 .. Len(pipe) - 1 : pipe[k].b \notin {"n", "c"}
            BY <3>3, <4>1 DEF BootInv
          <5>3. /\ Less(pipe') \in Seq(Wire) /\ Len(Less(pipe')) = Len(pipe') - 1
                /\ \A i \in 1 .. Len(pipe') - 1 : Less(pipe')[i] = pipe'[i]
            BY <4>2, <5>1, LessIs
          <5>4. ASSUME NEW i \in 1 .. Len(Less(pipe')) PROVE Less(pipe')[i].b \notin {"n", "c"}
            <6>1. i \in 1 .. Len(pipe) - 1 /\ i + 1 \in 1 .. Len(pipe) - 1 /\ i \in 1 .. Len(pipe') - 1
              BY <5>1, <5>2, <5>3
            <6> QED BY <5>1, <5>2, <5>3, <6>1
          <5>5. Fed(term, Less(pipe')).replies = term.replies
            BY <5>3, <5>4, QuietWire DEF LineTypes
          <5> QED BY <5>5, NoneNothing DEF LineTypes
        <4> QED BY <4>1, <4>2, NoneNothing DEF LastOnly, LastOf
      <3> QED BY <3>2, <3>3
    <2> QED BY <2>1, <2>2 DEF OpenInv
  <1>6. ASSUME Receive PROVE OpenInv'
    <2> SUFFICES ASSUME alive' PROVE OpenInv' BY DEF OpenInv
    <2>1. stage' = stage /\ alive /\ back # <<>> /\ stage \notin {"open", "ready", "probe"}
      BY <1>6, ReceiveIs DEF OpenInv, Settled
    <2>2. stage = "readywait" => LastOnly(Cpr)' BY <1>6, <2>1, ReceiveLast DEF OpenInv
    <2> QED BY <2>1, <2>2 DEF OpenInv
  <1>7. ASSUME Exit PROVE OpenInv' BY <1>7 DEF Exit, OpenInv
  <1>8. ASSUME \/ Eof \/ Boot \/ SnapshotBegins \/ SnapshotEnds \/ Finished
        PROVE  OpenInv'
    <2>1. UNCHANGED <<stage, alive, pipe, back, buf, term>>
      BY <1>8 DEF Eof, Boot, SnapshotBegins, SnapshotEnds,
         Finished,
        harness, machine, reader, target
    <2> QED BY <2>1 DEF OpenInv, Settled, LastOnly
  <1>9. ASSUME \/ WaitProbe \/ AskFails \/ Reset \/ Sync \/ SendWindow
               \/ Acked \/ Unacked \/ Poll \/ NoReply \/ Look
               \/ Take \/ CaseFails
        PROVE  stage' \notin {"open", "ready", "probe", "readywait"}
    BY <1>9 DEF WaitProbe, AskFails, Reset, Sync, SendWindow,
      Acked, Unacked, Poll, NoReply, Look, Take,
      CaseFails, Record
  <1>10. ASSUME stage' \notin {"open", "ready", "probe", "readywait"} PROVE OpenInv'
    BY <1>10 DEF OpenInv
  <1> QED BY <1>1, <1>2, <1>3, <1>4, <1>5, <1>6, <1>7, <1>8, <1>9, <1>10 DEF TargetNext,
             Harness

--------------------------------------------------------------------------------
(***************************************************************************)
(* The windows of a case.                                                  *)
(***************************************************************************)
LEMMA ReverseLong == ASSUME NEW B, NEW s \in Seq(B) PROVE Len(Reverse(s)) = Len(s)
  <1>1. Reverse(s) = [i \in 1 .. Len(s) |-> s[(Len(s) - i) + 1]] BY DEF Reverse
  <1>2. Len(s) \in Nat OBVIOUS
  <1>3. \A i \in 1 .. Len(s) : s[(Len(s) - i) + 1] \in B
    <2> SUFFICES ASSUME NEW i \in 1 .. Len(s) PROVE s[(Len(s) - i) + 1] \in B OBVIOUS
    <2>1. (Len(s) - i) + 1 \in 1 .. Len(s) BY <1>2
    <2> QED BY <2>1
  <1> DEFINE n == Len(s)  f == [i \in 1 .. n |-> s[(n - i) + 1]]
  <1>4. f \in Seq(B)
    <2> HIDE DEF n
    <2> QED BY <1>2, <1>3 DEF n
  <1>5. DOMAIN f = 1 .. n OBVIOUS
  <1> HIDE DEF f
  <1>6. Len(f) = n BY <1>2, <1>4, <1>5, LenProperties
  <1> QED BY <1>1, <1>6 DEF f

LEMMA EndsNonempty ==
  ASSUME NEW w \in Seq(Bytes), EndsInQuery(w) PROVE Len(w) >= 1
  <1> DEFINE d == <<"esc", "[", "c">>
  <1>1. d \in Seq(Bytes) /\ Len(d) = 3 BY BytesAre
  <1>2. Query \in Seq(Bytes) /\ Len(Query) = 3 BY OwnBytes DEF Query
  <1> HIDE DEF d
  <1>3. PICK q \in {Query, d} : IsSuffix(q, w) BY DEF EndsInQuery, d
  <1>4. q \in Seq(Bytes) /\ Len(q) = 3 BY <1>1, <1>2
  <1>5. Len(Reverse(q)) <= Len(Reverse(w))
    BY <1>3 DEF IsSuffix, IsPrefix
  <1>6. Len(Reverse(q)) = 3 /\ Len(Reverse(w)) = Len(w) BY <1>4, ReverseLong
  <1>7. Len(w) \in Nat OBVIOUS
  <1> QED BY <1>5, <1>6, <1>7

LEMMA WindowFed ==
  ASSUME NEW data \in Seq(Bytes), NEW n \in Nat, NEW m \in Nat, n <= m, m <= Len(data),
         NEW t \in Terms, t.replies = <<>>, t.state = Upto(data, n).state, t.scr = Upto(data, n).scr,
         Upto(data, n).replies = <<>>, NEW q \in Nat
  PROVE  /\ SubSeq(data, n + 1, m) \in Seq(Bytes)
         /\ Typed(t, SubSeq(data, n + 1, m), q) \in Terms
         /\ Typed(t, SubSeq(data, n + 1, m), q).state = Upto(data, m).state
         /\ Typed(t, SubSeq(data, n + 1, m), q).scr = Upto(data, m).scr
         /\ Typed(t, SubSeq(data, n + 1, m), q).replies = Retag(Upto(data, m).replies, q)
  <1> DEFINE x == SubSeq(data, n + 1, m)  u == Upto(data, n)
  <1>1. x \in Seq(Bytes) /\ Upto(data, m) = Typed(u, x, 0) BY UptoFurther
  <1>2. n <= Len(data) OBVIOUS
  <1>3. u \in Terms BY <1>2, UptoIs
  <1> HIDE DEF x
  <1>4. /\ Typed(u, x, 0).state = Typed(t, x, q).state /\ Typed(u, x, 0).scr = Typed(t, x, q).scr
        /\ Typed(t, x, q).replies = Retag(Typed(u, x, 0).replies, q)
    <2>1. 0 \in Nat OBVIOUS
    <2> HIDE DEF u
    <2>2. t.state = u.state /\ t.scr = u.scr /\ u.replies = <<>> BY DEF u
    <2> QED BY <1>1, <1>3, <2>1, <2>2, TypedSame
  <1>5. Typed(t, x, q) \in Terms BY <1>1, TypedType
  <1> QED BY <1>1, <1>4, <1>5 DEF x

LEMMA WindowLess ==
  ASSUME NEW data \in Seq(Bytes), NEW n \in Nat, n < Len(data), NEW q \in Nat
  PROVE  /\ Less(OnWire(SubSeq(data, n + 1, Len(data)), q)) = OnWire(SubSeq(data, n + 1, Len(data) - 1), q)
         /\ OnWire(SubSeq(data, n + 1, Len(data)), q) # <<>>
  <1> DEFINE l == Len(data)
             x == SubSeq(data, n + 1, l)
             k == (l - n) - 1
             y == SubSeq(data, n + 1, l - 1)
  <1>1. l \in Nat /\ k \in Nat /\ n <= l /\ l <= l /\ n + k = l - 1 /\ n + k <= l /\ l - n = k + 1 OBVIOUS
  <1>2. x \in Seq(Bytes) /\ Len(x) = l - n
    <2> HIDE DEF k
    <2> QED BY <1>1, PartIs
  <1>3. SubSeq(x, 1, k) = y
    <2>1. SubSeq(SubSeq(data, n + 1, Len(data)), 0 + 1, k) = SubSeq(data, (n + 0) + 1, n + k)
      <3>1. 0 \in Nat /\ 0 <= k BY <1>1
      <3> HIDE DEF k
      <3> QED BY <1>1, <3>1, PartOfPart
    <2>2. 0 + 1 = 1 /\ (n + 0) + 1 = n + 1 OBVIOUS
    <2> QED BY <1>1, <2>1, <2>2
  <1> HIDE DEF x, y, k, l
  <1>4. /\ y \in Seq(Bytes) /\ x[k + 1] \in Bytes /\ x = Append(y, x[k + 1])
    <2>1. Len(x) = k + 1 BY <1>1, <1>2
    <2>2. y = SubSeq(x, 1, k) BY <1>3
    <2> QED BY <1>1, <1>2, <2>1, <2>2, LastApart
  <1> DEFINE b == x[k + 1]  s == OnWire(y, q)  e == [b |-> x[k + 1], for |-> q]
  <1>5. OnWire(x, q) = Append(s, e) BY <1>4, WireMore
  <1>6. s \in Seq(Wire) /\ e \in Wire BY <1>4, WireIs DEF Wire
  <1> HIDE DEF s, e
  <1>7. Less(Append(s, e)) = s BY <1>6, LessMore
  <1>8. Append(s, e) # <<>>
    <2>1. Append(s, e) \in Seq(Wire) /\ Len(Append(s, e)) = Len(s) + 1 /\ Len(s) \in Nat BY <1>6
    <2> DEFINE u == Append(s, e)
    <2> HIDE DEF u
    <2>2. u \in Seq(Wire) /\ Len(u) >= 1 BY <2>1 DEF u
    <2>3. u # <<>> BY <2>2, Longer
    <2> QED BY <2>3 DEF u
  <1> QED BY <1>5, <1>7, <1>8 DEF s, x, y, l

\* What a case that asks nothing early has been answered at a boundary, before the last byte
\* of a question at its end, and at an end without one.
LEMMA NothingEarly ==
  ASSUME NEW data, ~AsksEarly(data)
  PROVE  /\ \A k \in Boundaries(data) : Upto(data, k).replies = <<>>
         /\ EndsInQuery(LastWindow(data)) => Upto(data, Len(data) - 1).replies = <<>>
         /\ ~EndsInQuery(LastWindow(data)) => ~Asks(data)
  BY DEF AsksEarly

LEMMA NoAnswerYet ==
  ASSUME NEW data \in Seq(Bytes), ~AsksEarly(data), NEW m \in Boundaries(data) \cup {Len(data)},
         m = Len(data) => ~EndsInQuery(LastWindow(data))
  PROVE  m \in Nat /\ m <= Len(data) /\ Lacks(Cpr, Upto(data, m).replies)
  <1>1. CASE m \in Boundaries(data)
    <2>1. m \in Nat /\ m <= Len(data) BY <1>1 DEF Boundaries
    <2>2. Upto(data, m).replies = <<>> BY <1>1, NothingEarly
    <2> QED BY <2>1, <2>2, NoneNothing
  <1>2. CASE m = Len(data)
    <2>1. ~Asks(data) BY <1>2, NothingEarly
    <2>2. Rendered(data).replies \in Seq(Report) BY RenderedIs, TermIs
    <2>3. Lacks(Cpr, Rendered(data).replies) BY <2>1, <2>2, NoneCprs DEF Asks
    <2>4. Upto(data, Len(data)) = Rendered(data) BY UptoEnds
    <2>5. Len(data) \in Nat OBVIOUS
    <2> QED BY <1>2, <2>3, <2>4, <2>5
  <1> QED BY <1>1, <1>2

--------------------------------------------------------------------------------
(***************************************************************************)
(* The steps of a case.                                                    *)
(***************************************************************************)
LEMMA DataIs ==
  ASSUME TargetFine, RunTypes
  PROVE  /\ Data \in Seq(Bytes) /\ case \in Nat
         /\ Clean(case) => ~AsksEarly(Data) /\ ~AsksRaw(Data)
  <1>1. Data \in Inputs /\ case \in 1 .. NCases /\ case \in Nat
    BY DEF RunTypes, Data, TargetFine
  <1>2. Data \in Seq(Bytes) BY <1>1 DEF TargetFine
  <1>3. case \in 1 .. case BY <1>1
  <1>4. Clean(case) => ~AsksEarly(Data) /\ ~AsksRaw(Data) BY <1>3 DEF Clean, Data
  <1> QED BY <1>1, <1>2, <1>4

LEMMA SameCase ==
  ASSUME UNCHANGED <<corpus, case>>
  PROVE  /\ Data' = Data /\ Alone' = Alone /\ Clean(case)' = Clean(case) /\ Paced(case)' = Paced(case)
         /\ Own(Data, case)' = Own(Data, case)
  BY DEF Data, Alone, Clean, Paced, Own

LEMMA ResetGives ==
  ASSUME TargetFine, Types, Reset, alive, Mute PROVE SyncInv'
  <1> USE DEF Types
  <1>1. Clear \o Query \in Seq(Bytes) BY OwnBytes, ConcatProperties
  <1>2. SendOnly(Clear \o Query) /\ buf' = <<>>
    BY DEF Reset, ClearBuf, Clear
  <1>3. /\ case \in Nat /\ back' = back /\ term' = term
        /\ pipe' = pipe \o OnWire(Clear \o Query, case)
    BY <1>1, <1>2, SendIs
  <1> DEFINE c == OnWire(Clear, case)  s == OnWire(Query, case)  w == pipe \o c
  <1>4. c \in Seq(Wire) /\ s \in Seq(Wire) BY <1>3, OwnBytes, WireIs
  <1>5. pipe \in Seq(Wire) /\ term \in Terms /\ back \in Seq(Report) BY DEF LineTypes
  <1>6. pipe' = w \o s
    <2>1. OnWire(Clear \o Query, case) = c \o s
      <3>1. Clear \in Seq(Bytes) /\ Query \in Seq(Bytes) BY OwnBytes
      <3> QED BY <1>3, <3>1, WireBoth
    <2> HIDE DEF c, s
    <2>2. pipe \o (c \o s) = (pipe \o c) \o s BY <1>4, <1>5, ConcatAssociative
    <2> QED BY <1>3, <2>1, <2>2 DEF c, s
  <1>7. w \in Seq(Wire) BY <1>4, <1>5, ConcatProperties
  <1>8. Fed(term, w) = Typed(Coming, Clear, case)
    <2>1. Fed(term, pipe \o c) = Fed(Fed(term, pipe), c) BY <1>4, <1>5, FedBoth
    <2> QED BY <2>1 DEF Typed, Coming
  <1>9. Coming \in Terms BY <1>5, FedType DEF Coming
  <1>10. /\ Typed(Coming, Clear, case) \in Terms /\ Typed(Coming, Clear, case).state = "normal"
         /\ Typed(Coming, Clear, case).scr = <<>> /\ Typed(Coming, Clear, case).replies = Coming.replies
    BY <1>3, <1>9, ClearFed
  <1> DEFINE u == Fed(term, w)
  <1>11. /\ u \in Terms /\ u.state = "normal" /\ u.scr = <<>> /\ Lacks(Cpr, u.replies) /\ Lacks(Cpr, back)
    BY <1>8, <1>10 DEF Mute
  <1> HIDE DEF w
  <1>12. LastOf(Cpr, term, w \o s, back, <<>>) /\ Fed(term, w \o s) = Typed(u, Query, case)
    BY <1>3, <1>5, <1>7, <1>11, AskedLast
  <1>13. LastOnly(Cpr)' BY <1>2, <1>3, <1>6, <1>12 DEF LastOnly
  <1>14. Coming' = Typed(u, Query, case) BY <1>3, <1>6, <1>12 DEF Coming
  <1> HIDE DEF u
  <1>15. Coming'.state = "normal" /\ Coming'.scr = <<>> BY <1>3, <1>11, <1>14, QueryFed
  <1> QED BY <1>13, <1>15 DEF SyncInv

LEMMA SyncGives ==
  ASSUME TargetFine, Hasty = {}, Types, Sync, SyncInv PROVE SendInv'
  <1> USE DEF Types
  <1>1. stage = "sync" /\ unsent' = Data /\ UNCHANGED <<corpus, case, pipe, back, term>>
    BY DEF Sync, Data, ready, progress, machine
  <1>2. corpus' = corpus
    BY DEF Sync, ready
  <1>3. LastOnly(Cpr) /\ Coming.state = "normal" /\ Coming.scr = <<>> BY <1>1 DEF SyncInv
  <1>4. Settled BY <1>3, AnsweredSettles, ExpirySettles DEF Sync
  <1>5. Coming = term BY <1>4, SettledIs
  <1>6. Data' = Data /\ Data \in Seq(Bytes) BY <1>1, <1>2, SameCase, DataIs
  <1>7. Upto(Data, 0) = Blank /\ SubSeq(Data, 0 + 1, Len(Data)) = Data
    <2>1. SubSeq(Data, 1, Len(Data)) = Data BY <1>6, SubSeqFull
    <2>2. 0 + 1 = 1 OBVIOUS
    <2> QED BY <1>6, <2>1, <2>2, UptoEnds
  <1> DEFINE d == Data
  <1>8. /\ unsent' = SubSeq(d, 0 + 1, Len(d)) /\ Upto(d, 0).state = "normal" /\ Upto(d, 0).replies = <<>>
        /\ term'.state = "normal" /\ term'.scr = Upto(d, 0).scr /\ d \in Seq(Bytes)
    BY <1>1, <1>3, <1>5, <1>6, <1>7, BlankIs
  <1> HIDE DEF d
  <1>9. d = Data' BY <1>6 DEF d
  <1>10. 0 \in 0 .. Len(d) BY <1>8
  <1>11. SentTo(0)' BY <1>8, <1>9 DEF SentTo
  <1>12. \E n \in 0 .. Len(Data') : SentTo(n)' BY <1>9, <1>10, <1>11
  <1> QED BY <1>1, <1>4, <1>12 DEF SendInv, Settled

LEMMA SendRawGives ==
  ASSUME TargetFine, Types, SendWindow, alive, Clean(case), SendInv,
         Rest = <<>>, EndsInQuery(Window1)
  PROVE  stage' = "reply" /\ ReplyInv'
  <1> USE DEF Types
  <1>1. stage = "send" /\ stage' = "reply" /\ buf' = <<>> /\ unsent' = Rest /\ SendOnly(Window1)
        /\ UNCHANGED <<corpus, case>>
    BY DEF SendWindow, ClearBuf, ready, progress
  <1>2. Data' = Data /\ Alone' = Alone BY <1>1, SameCase
  <1>3. Data \in Seq(Bytes) /\ case \in Nat /\ ~AsksEarly(Data) BY DataIs
  <1>4. Settled /\ term \in Terms /\ term.replies = <<>> BY <1>1 DEF SendInv, LineTypes
  <1>5. PICK n \in 0 .. Len(Data) : SentTo(n) BY <1>1 DEF SendInv
  <1>6. PICK m \in Nat : SentNext(Data, n, m) BY <1>3, <1>5, WindowIs DEF SentTo
  <1> DEFINE l == Len(Data)  x == SubSeq(Data, n + 1, l)  w == OnWire(x, case)
  <1>7. n \in Nat /\ n <= l /\ Window1 = x /\ Window1 = LastWindow(Data)
    BY <1>6 DEF SentNext
  <1>8. /\ Upto(Data, n).replies = <<>> /\ term.state = Upto(Data, n).state
        /\ term.scr = Upto(Data, n).scr
    BY <1>5 DEF SentTo
  <1>9. l \in Nat /\ x \in Seq(Bytes) /\ Len(x) = l - n BY <1>3, <1>7, PartIs
  <1>10. n < l
    <2>1. Len(x) >= 1 BY <1>7, <1>9, EndsNonempty
    <2> HIDE DEF l, x
    <2> QED BY <1>7, <1>9, <2>1
  <1>11. pipe' = w /\ back' = <<>> /\ term' = term
    <2>1. pipe' = pipe \o w /\ back' = back /\ term' = term BY <1>1, <1>7, <1>9, SendIs
    <2>2. w \in Seq(Wire) BY <1>3, <1>9, WireIs
    <2>3. pipe = <<>> /\ back = <<>> BY <1>4 DEF Settled
    <2> HIDE DEF w
    <2> QED BY <2>1, <2>2, <2>3, ConcatEmptySeq
  <1>12. /\ Less(w) = OnWire(SubSeq(Data, n + 1, l - 1), case) /\ w # <<>>
    BY <1>3, <1>7, <1>10, WindowLess
  <1>13. Fed(term, Less(w)).replies = <<>>
    <2> DEFINE k == l - 1
    <2>1. k \in Nat /\ n <= k /\ k <= l BY <1>7, <1>9, <1>10
    <2>2. Upto(Data, k).replies = <<>> BY <1>3, <1>7, NothingEarly
    <2> HIDE DEF k
    <2>3. Typed(term, SubSeq(Data, n + 1, k), case).replies = Retag(Upto(Data, k).replies, case)
      BY <1>3, <1>4, <1>7, <1>8, <2>1, WindowFed
    <2> QED BY <1>3, <1>12, <2>2, <2>3, RetagNothing DEF Typed, k
  <1>14. LastOnly(AnyKind)'
    <2> HIDE DEF w
    <2>1. LastOf(AnyKind, term, w, <<>>, <<>>) BY <1>12, <1>13, NoneNothing DEF LastOf
    <2> QED BY <1>1, <1>11, <2>1 DEF LastOnly
  <1>15. /\ Typed(term, x, case) \in Terms /\ Typed(term, x, case).scr = Alone.scr
         /\ Typed(term, x, case).replies = Retag(Alone.replies, case)
    <2>1. Upto(Data, l) = Alone BY <1>3, UptoEnds DEF Alone
    <2>2. l <= l BY <1>9
    <2> QED BY <1>3, <1>4, <1>7, <1>8, <1>9, <2>1, <2>2, WindowFed
  <1>16. Coming' = Typed(term, x, case) BY <1>11 DEF Coming, Typed
  <1>17. Owed' = Coming'.replies
    <2> DEFINE r == Coming'.replies
    <2>1. r \in Seq(Report) BY <1>15, <1>16, TermIs
    <2> HIDE DEF r
    <2>2. <<>> \o (<<>> \o r) = r BY <2>1, CatNothing
    <2> QED BY <1>1, <1>11, <2>2 DEF Owed, r
  <1>18. Coming'.scr = Alone' .scr /\ Owed' = Retag(Alone'.replies, case')
    BY <1>1, <1>2, <1>15, <1>16, <1>17
  <1>19. unsent' = <<>> /\ EndsInQuery(LastWindow(Data'))
    BY <1>1, <1>2, <1>7
  <1> QED BY <1>1, <1>14, <1>18, <1>19 DEF ReplyInv

LEMMA SendAsksGives ==
  ASSUME TargetFine, Types, SendWindow, alive, Clean(case), SendInv,
         ~(Rest = <<>> /\ EndsInQuery(Window1))
  PROVE  stage' = "ack" /\ AckInv'
  <1> USE DEF Types
  <1>1. stage = "send" /\ stage' = "ack" /\ buf' = <<>> /\ unsent' = Rest
        /\ SendOnly(Window1 \o Query) /\ UNCHANGED <<corpus, case>>
    BY DEF SendWindow, ClearBuf, ready, progress
  <1>2. Data' = Data BY <1>1, SameCase
  <1>3. Data \in Seq(Bytes) /\ case \in Nat /\ ~AsksEarly(Data) BY DataIs
  <1>4. Settled /\ term \in Terms /\ term.replies = <<>> BY <1>1 DEF SendInv, LineTypes
  <1>5. PICK n \in 0 .. Len(Data) : SentTo(n) BY <1>1 DEF SendInv
  <1>6. PICK m \in Nat : SentNext(Data, n, m) BY <1>3, <1>5, WindowIs DEF SentTo
  <1> DEFINE l == Len(Data)  x == SubSeq(Data, n + 1, m)  w == OnWire(x, case)
             s == OnWire(Query, case)
  <1>7. /\ n \in Nat /\ n <= m /\ m <= l /\ m \in Boundaries(Data) \cup {l}
        /\ Window1 = x /\ Rest = SubSeq(Data, m + 1, l)
        /\ m = l => ~EndsInQuery(LastWindow(Data))
    BY <1>6 DEF SentNext
  <1>8. /\ Upto(Data, n).replies = <<>> /\ term.state = Upto(Data, n).state
        /\ term.scr = Upto(Data, n).scr
    BY <1>5 DEF SentTo
  <1> DEFINE u == Typed(term, x, case)  v == Upto(Data, m)
  <1>9. /\ x \in Seq(Bytes) /\ u \in Terms /\ u.state = v.state /\ u.scr = v.scr
        /\ u.replies = Retag(v.replies, case)
    BY <1>3, <1>4, <1>7, <1>8, WindowFed
  <1>10. v \in Terms /\ v.replies \in Seq(Report)
    <2>1. v \in Terms BY <1>3, <1>7, UptoIs
    <2> HIDE DEF v
    <2> QED BY <2>1, TermIs
  <1>11. Lacks(Cpr, v.replies) BY <1>3, <1>7, NoAnswerYet
  <1>12. Lacks(Cpr, u.replies)
    <2> HIDE DEF u, v
    <2> QED BY <1>3, <1>9, <1>10, <1>11, NoneRetag
  <1>13. w \in Seq(Wire) /\ u = Fed(term, w) BY <1>3, <1>9, WireIs DEF Typed
  <1>14. pipe' = w \o s /\ back' = <<>> /\ term' = term
    <2>1. Query \in Seq(Bytes) BY OwnBytes
    <2>2. OnWire(x \o Query, case) = w \o s /\ x \o Query \in Seq(Bytes)
      <3> HIDE DEF x
      <3> QED BY <1>3, <1>9, <2>1, WireBoth, ConcatProperties
    <2>3. pipe' = pipe \o (w \o s) /\ back' = back /\ term' = term BY <1>1, <1>7, <2>2, SendIs
    <2>4. s \in Seq(Wire) BY <1>3, <2>1, WireIs
    <2>5. pipe = <<>> /\ back = <<>> BY <1>4 DEF Settled
    <2> HIDE DEF w, s
    <2>6. w \o s \in Seq(Wire) BY <1>13, <2>4, ConcatProperties
    <2> QED BY <2>3, <2>5, <2>6, ConcatEmptySeq
  <1>15. LastOf(Cpr, term, w \o s, <<>>, <<>>) /\ Fed(term, w \o s) = Typed(Fed(term, w), Query, case)
    <2> HIDE DEF w
    <2> QED BY <1>3, <1>4, <1>12, <1>13, NoneNothing, AskedLast
  <1>16. LastOnly(Cpr)' BY <1>1, <1>14, <1>15 DEF LastOnly
  <1> DEFINE t == Typed(u, Query, case)
  <1>17. Coming' = t BY <1>13, <1>14, <1>15 DEF Coming
  <1> HIDE DEF w, s, u
  <1>18. /\ t \in Terms /\ t.state = "normal"
         /\ u.state = "normal" => t.scr = u.scr /\ t.replies = u.replies \o <<Place(u.scr, case)>>
         /\ u.state # "normal" => t.replies = u.replies
    BY <1>3, <1>9, QueryFed
  <1>19. Owed' = t.replies
    <2> DEFINE r == t.replies
    <2>1. r \in Seq(Report)
      <3> HIDE DEF t
      <3> QED BY <1>18, TermIs
    <2> HIDE DEF r
    <2>2. <<>> \o (<<>> \o r) = r BY <2>1, CatNothing
    <2> QED BY <1>1, <1>14, <1>17, <2>2 DEF Owed, r
  <1> HIDE DEF t
  <1> DEFINE d == Data
  <1>20. d = Data' BY <1>2
  <1>21. /\ unsent' = SubSeq(d, m + 1, Len(d)) /\ m \in Boundaries(d) \cup {Len(d)}
         /\ m = Len(d) => ~EndsInQuery(LastWindow(d))
         /\ v = Upto(d, m) /\ m \in 0 .. Len(d)
    BY <1>1, <1>3, <1>7
  <1>22. ASSUME v.state = "normal"
         PROVE  Coming'.scr = v.scr /\ Owed' = Retag(v.replies, case') \o <<Place(v.scr, case')>>
    BY <1>1, <1>9, <1>17, <1>18, <1>19, <1>22
  <1>23. ASSUME v.state # "normal" PROVE Lacks(Cpr, Owed')
    BY <1>9, <1>12, <1>18, <1>19, <1>23
  <1> HIDE DEF d, v
  <1>24. AskedAt(m)' BY <1>20, <1>21, <1>22, <1>23 DEF AskedAt
  <1>25. \E k \in 0 .. Len(Data') : AskedAt(k)' BY <1>20, <1>21, <1>24
  <1> QED BY <1>1, <1>16, <1>17, <1>18, <1>25 DEF AckInv

\* At an answer, or when none can come any more, AskedAt says what was received.
LEMMA AskedIs ==
  ASSUME TargetFine, Types, Clean(case), Settled, NEW n \in 0 .. Len(Data), AskedAt(n),
         Coming.state = "normal"
  PROVE  /\ Coming = term /\ term.state = "normal" /\ Data \in Seq(Bytes) /\ case \in Nat /\ n \in Nat
         /\ Lacks(Cpr, buf) <=> Upto(Data, n).state # "normal"
         /\ ~Lacks(Cpr, buf) =>
              /\ term.scr = Upto(Data, n).scr
              /\ buf = Retag(Upto(Data, n).replies, case) \o <<Place(Upto(Data, n).scr, case)>>
         /\ unsent = <<>> <=> n = Len(Data)
  <1> USE DEF Types
  <1>1. Data \in Seq(Bytes) /\ case \in Nat /\ n \in Nat /\ n <= Len(Data) /\ Len(Data) \in Nat
    BY DataIs
  <1>2. Coming = term /\ Owed = buf BY SettledIs
  <1> DEFINE u == Upto(Data, n)  r == Retag(u.replies, case)  p == <<Place(u.scr, case)>>
  <1>3. u \in Terms BY <1>1, UptoIs
  <1>4. r \in Seq(Report) /\ u.scr \in Seq(Shown)
    <2> HIDE DEF u
    <2> QED BY <1>1, <1>3, TermIs, RetagIs
  <1>5. p \in Seq(Report)
    <2> DEFINE y == u.scr
    <2>1. y \in Seq(Shown) BY <1>4
    <2> HIDE DEF y
    <2>2. Len(y) \in Nat BY <2>1
    <2>3. Place(y, case) \in Report BY <1>1, <2>2 DEF Place, Report
    <2> QED BY <2>3 DEF y
  <1>6. u.state = "normal" => term.scr = u.scr /\ buf = r \o p BY <1>2 DEF AskedAt
  <1>7. u.state # "normal" => Lacks(Cpr, buf) BY <1>2 DEF AskedAt
  <1>8. ~Lacks(Cpr, p) BY NonePlace
  <1>9. unsent = SubSeq(Data, n + 1, Len(Data)) BY DEF AskedAt
  <1>10. Len(SubSeq(Data, n + 1, Len(Data))) = Len(Data) - n /\ SubSeq(Data, n + 1, Len(Data)) \in Seq(Bytes)
    BY <1>1, PartIs
  <1>11. unsent = <<>> <=> n = Len(Data)
    <2>1. unsent = <<>> <=> Len(unsent) = 0 BY <1>9, <1>10, EmptySeq
    <2>2. Len(unsent) = Len(Data) - n BY <1>9, <1>10
    <2> QED BY <1>1, <2>1, <2>2
  <1> HIDE DEF u, r, p
  <1>12. u.state = "normal" => ~Lacks(Cpr, buf) BY <1>4, <1>5, <1>6, <1>8, NoneCat
  <1> QED BY <1>1, <1>2, <1>6, <1>7, <1>11, <1>12 DEF u, r, p

LEMMA AckedGives ==
  ASSUME TargetFine, Types, Acked, alive, Clean(case), AckInv
  PROVE  SendInv' /\ SettleInv' /\ stage' \in {"send", "settle"}
  <1> USE DEF Types
  <1>1. /\ stage = "ack" /\ Answered /\ stage' = (IF unsent = <<>> THEN "settle" ELSE "send")
        /\ UNCHANGED <<corpus, case, unsent, buf, pipe, back, term>>
    BY DEF Acked, ready, progress, sending, reader,
       machine
  <1>2. LastOnly(Cpr) /\ Coming.state = "normal" BY <1>1 DEF AckInv
  <1>3. PICK n \in 0 .. Len(Data) : AskedAt(n) BY <1>1 DEF AckInv
  <1>4. Settled BY <1>1, <1>2, AnsweredSettles
  <1>5. ~Lacks(Cpr, buf) BY <1>1, NoneCprs DEF Answered, LineTypes
  <1>6. /\ Coming = term /\ term.state = "normal" /\ Data \in Seq(Bytes) /\ n \in Nat
        /\ Upto(Data, n).state = "normal" /\ term.scr = Upto(Data, n).scr
        /\ buf = Retag(Upto(Data, n).replies, case) \o <<Place(Upto(Data, n).scr, case)>>
        /\ unsent = <<>> <=> n = Len(Data)
    BY <1>2, <1>3, <1>4, <1>5, AskedIs
  <1>7. Settled' BY <1>1, <1>4 DEF Settled
  <1>8. ~AsksEarly(Data) BY DataIs
  <1>9. /\ n \in Boundaries(Data) \cup {Len(Data)} /\ unsent = SubSeq(Data, n + 1, Len(Data))
        /\ n = Len(Data) => ~EndsInQuery(LastWindow(Data))
    BY <1>3 DEF AskedAt
  <1>10. CASE unsent = <<>>
    <2>1. n = Len(Data) /\ stage' = "settle" BY <1>1, <1>6, <1>10
    <2>2. Upto(Data, n) = Alone BY <1>6, <2>1, UptoEnds DEF Alone
    <2>3. term.scr = Alone.scr /\ buf = Own(Data, case) BY <1>6, <1>9, <2>1, <2>2 DEF Own, Alone
    <2>4. Mute' BY <1>1, <1>4, SettledIs DEF Mute, Coming
    <2>5. Alone' = Alone /\ Own(Data, case)' = Own(Data, case) BY <1>1, SameCase
    <2>6. term'.scr = Alone'.scr /\ buf' = Own(Data, case)' BY <1>1, <2>3, <2>5
    <2> QED BY <1>7, <2>1, <2>4, <2>6 DEF SettleInv, SendInv
  <1>11. CASE unsent # <<>>
    <2>1. n # Len(Data) /\ stage' = "send" /\ n \in Boundaries(Data) BY <1>1, <1>6, <1>9, <1>11
    <2>2. Upto(Data, n).replies = <<>> BY <1>8, <2>1, NothingEarly
    <2>3. SentTo(n) BY <1>6, <1>9, <2>1, <2>2 DEF SentTo
    <2>4. SentTo(n)' /\ n \in 0 .. Len(Data') BY <1>1, <1>3, <2>3, SameCase DEF SentTo
    <2> QED BY <1>7, <2>1, <2>4 DEF SendInv, SettleInv
  <1> QED BY <1>1, <1>10, <1>11

LEMMA UnackedGives ==
  ASSUME TargetFine, Hasty = {}, Types, Unacked, alive, Clean(case), AckInv
  PROVE  SettleInv' /\ stage' = "settle"
  <1> USE DEF Types
  <1>1. /\ stage = "ack" /\ Expires("ack") /\ stage' = "settle" /\ UNCHANGED <<corpus, case, buf>>
    BY DEF Unacked, ready, progress
  <1>2. LastOnly(Cpr) /\ Coming.state = "normal" BY <1>1 DEF AckInv
  <1>3. PICK n \in 0 .. Len(Data) : AskedAt(n) BY <1>1 DEF AckInv
  <1>4. Settled /\ Lacks(Cpr, buf) BY <1>1, ExpirySettles
  <1>5. /\ Coming = term /\ term.state = "normal" /\ Data \in Seq(Bytes) /\ n \in Nat /\ case \in Nat
        /\ Upto(Data, n).state # "normal"
        /\ unsent = <<>> <=> n = Len(Data)
    BY <1>2, <1>3, <1>4, AskedIs
  <1>6. /\ n \in Boundaries(Data) \cup {Len(Data)} /\ unsent = SubSeq(Data, n + 1, Len(Data))
    BY <1>3 DEF AskedAt
  <1>7. Paced(case)' = Paced(case) BY <1>1, SameCase
  <1>8. ~AsksRaw(Data) BY DataIs
  <1>9. CASE unsent = <<>>
    <2>1. Upto(Data, n) = Rendered(Data) BY <1>5, <1>9, UptoEnds
    <2>2. ~Paced(case) BY <1>5, <2>1 DEF Paced, EndsInside, Data
    <2>3. UNCHANGED <<pipe, back, term>> BY <1>9 DEF Unacked, machine
    <2>4. Mute' BY <1>4, <2>3, SettledIs DEF Mute, Coming
    <2> QED BY <1>1, <1>7, <2>2, <2>4 DEF SettleInv
  <1>10. CASE unsent # <<>>
    <2>1. n \in Boundaries(Data) /\ Cut(Data, n) BY <1>5, <1>6, <1>10 DEF Cut
    <2>2. ~Paced(case) BY <2>1 DEF Paced, Straddles, Data
    <2>3. ~Asks(unsent) BY <1>6, <1>8, <2>1 DEF AsksRaw
    <2>4. unsent \in Seq(Bytes) BY DEF RunTypes
    <2> DEFINE w == OnWire(unsent, case)
    <2>5. pipe' = w /\ back' = <<>> /\ term' = term
      <3>1. SendOnly(unsent) BY <1>10 DEF Unacked
      <3>2. pipe' = pipe \o w /\ back' = back /\ term' = term /\ w \in Seq(Wire)
        BY <2>4, <3>1, SendIs
      <3>3. pipe = <<>> /\ back = <<>> BY <1>4 DEF Settled
      <3> HIDE DEF w
      <3> QED BY <3>2, <3>3, ConcatEmptySeq
    <2>6. AlikeReplies(Typed(Blank, unsent, 0).replies, Typed(term, unsent, case).replies)
      <3>1. term \in Terms /\ term.replies = <<>> /\ 0 \in Nat BY DEF LineTypes
      <3> QED BY <1>5, <2>4, <3>1, BlankIs, TypedAlike
    <2>7. Lacks(Cpr, Rendered(unsent).replies)
      <3>1. Rendered(unsent).replies \in Seq(Report) BY <2>4, RenderedIs, TermIs
      <3> QED BY <2>3, <3>1, NoneCprs DEF Asks
    <2>8. Lacks(Cpr, Typed(term, unsent, case).replies) BY <2>4, <2>6, <2>7, RenderedIs, NoneAlike
    <2>9. Coming' = Typed(term, unsent, case) BY <2>5 DEF Coming, Typed
    <2>10. Mute' BY <2>5, <2>8, <2>9, NoneNothing DEF Mute
    <2> QED BY <1>1, <1>7, <2>2, <2>10 DEF SettleInv
  <1> QED BY <1>1, <1>9, <1>10

LEMMA ReplyGives ==
  ASSUME TargetFine, Hasty = {}, Types, Poll \/ NoReply, alive, ReplyInv
  PROVE  ReplyInv' /\ SettleInv' /\ stage' \in {"reply", "settle"}
  <1> USE DEF Types
  <1>1. /\ stage = "reply" /\ stage' \in {"reply", "settle"}
        /\ UNCHANGED <<corpus, case, unsent, buf, pipe, back, term>>
    BY DEF Poll, NoReply, ready, progress, sending,
       reader, machine
  <1>2. /\ LastOnly(AnyKind) /\ unsent = <<>> /\ EndsInQuery(LastWindow(Data))
        /\ Coming.scr = Alone.scr /\ Owed = Retag(Alone.replies, case)
    BY <1>1 DEF ReplyInv
  <1>3. /\ Data' = Data /\ Alone' = Alone /\ Own(Data, case)' = Own(Data, case)
    BY <1>1, SameCase
  <1>4. UNCHANGED <<Coming, Owed>> BY <1>1 DEF Coming, Owed
  <1>5. LastOnly(AnyKind)' BY <1>1, <1>2 DEF LastOnly
  <1>6. ReplyInv' BY <1>1, <1>2, <1>3, <1>4, <1>5 DEF ReplyInv
  <1>7. ASSUME stage' = "settle" PROVE Mute' /\ Settled' /\ term'.scr = Alone'.scr /\ buf' = Own(Data, case)'
    <2>1. Settled
      <3>1. CASE NoReply BY <3>1, ExpirySettles DEF NoReply
      <3>2. CASE Poll
        <4>1. Len(buf) > 0 BY <1>1, <1>7, <3>2 DEF Poll
        <4>2. buf \in Seq(Report) /\ Len(<<>>) = 0 BY DEF LineTypes
        <4>3. ~Lacks(AnyKind, buf) BY <4>1, <4>2, NoneAny
        <4> QED BY <1>2, <4>3, LineDone DEF LastOnly, Settled
      <3> QED BY <3>1, <3>2
    <2>2. Coming = term /\ Owed = buf /\ Mute BY <2>1, SettledIs
    <2>3. Mute' BY <1>1, <2>2 DEF Mute, Coming
    <2>4. Retag(Alone.replies, case) = Own(Data, case)
      <3>1. Data \in Seq(Bytes) /\ case \in Nat BY DataIs
      <3> DEFINE r == Alone.replies
      <3>2. r \in Seq(Report) BY <3>1, RenderedIs, TermIs DEF Alone
      <3> HIDE DEF r
      <3>3. Retag(r, case) \in Seq(Report) BY <3>1, <3>2, RetagIs
      <3>4. Retag(r, case) \o <<>> = Retag(r, case) BY <3>3, CatNothing
      <3> QED BY <1>2, <3>4 DEF Own, Alone, r
    <2> QED BY <1>1, <1>2, <1>3, <2>1, <2>2, <2>3, <2>4 DEF Settled
  <1> QED BY <1>1, <1>6, <1>7 DEF SettleInv

LEMMA LookGives ==
  ASSUME Types, Look, SettleInv PROVE FreshInv' /\ stage' = "fresh"
  <1>1. /\ stage = "settle" /\ stage' = "fresh" /\ reports' = buf /\ UNCHANGED <<corpus, case, buf, pipe, back, term>>
    BY DEF Look, ready, progress, reader, machine
  <1>2. Mute' BY <1>1 DEF SettleInv, Mute, Coming
  <1>3. /\ Alone' = Alone /\ Own(Data, case)' = Own(Data, case) /\ Paced(case)' = Paced(case)
    BY <1>1, SameCase
  <1>4. Paced(case) => Settled' /\ term'.scr = Alone'.scr /\ reports' = Own(Data, case)'
    BY <1>1, <1>3 DEF SettleInv, Settled
  <1> QED BY <1>1, <1>2, <1>3, <1>4 DEF FreshInv

\* The line moves, the harness does not.
LEMMA MoveGives ==
  ASSUME Types, BootInv, UNCHANGED <<stage, corpus, case, unsent, reports>>, ~Settled,
         Coming'.state = Coming.state, Coming'.scr = Coming.scr, Owed' = Owed, Mute => Mute',
         LastOnly(Cpr) => LastOnly(Cpr)', LastOnly(AnyKind) => LastOnly(AnyKind)',
         ResetInv, SyncInv, SendInv, AckInv, ReplyInv, SettleInv, FreshInv
  PROVE  ResetInv' /\ SyncInv' /\ SendInv' /\ AckInv' /\ ReplyInv' /\ SettleInv' /\ FreshInv'
  <1>1. /\ Data' = Data /\ Alone' = Alone /\ Own(Data, case)' = Own(Data, case) /\ Paced(case)' = Paced(case)
    BY SameCase
  <1>2. ResetInv' /\ SyncInv' BY DEF ResetInv, SyncInv
  <1>3. SendInv' BY DEF SendInv
  <1>4. AckInv'
    <2> SUFFICES ASSUME stage = "ack" PROVE AckInv' BY DEF AckInv
    <2>1. PICK n \in 0 .. Len(Data) : AskedAt(n) BY DEF AckInv
    <2>2. AskedAt(n)' BY <1>1, <2>1 DEF AskedAt
    <2>3. LastOnly(Cpr)' /\ Coming'.state = "normal" BY DEF AckInv
    <2> QED BY <1>1, <2>2, <2>3 DEF AckInv
  <1>5. ReplyInv' BY <1>1 DEF ReplyInv
  <1>6. SettleInv' BY <1>1 DEF SettleInv
  <1>7. FreshInv' BY <1>1 DEF FreshInv
  <1> QED BY <1>2, <1>3, <1>4, <1>5, <1>6, <1>7

LEMMA StillGives ==
  ASSUME UNCHANGED <<stage, corpus, case, unsent, reports, buf, pipe, back, term>>,
         ResetInv, SyncInv, SendInv, AckInv, ReplyInv, SettleInv, FreshInv
  PROVE  ResetInv' /\ SyncInv' /\ SendInv' /\ AckInv' /\ ReplyInv' /\ SettleInv' /\ FreshInv'
  <1>1. /\ Data' = Data /\ Alone' = Alone /\ Own(Data, case)' = Own(Data, case) /\ Paced(case)' = Paced(case)
    BY SameCase
  <1>2. UNCHANGED <<Coming, Owed, Mute, Settled>> BY DEF Coming, Owed, Mute, Settled
  <1>3. LastOnly(Cpr)' = LastOnly(Cpr) /\ LastOnly(AnyKind)' = LastOnly(AnyKind) BY DEF LastOnly
  <1>4. ResetInv' /\ SyncInv' BY <1>2, <1>3 DEF ResetInv, SyncInv
  <1>5. SendInv'
    <2> SUFFICES ASSUME stage = "send" PROVE SendInv' BY DEF SendInv
    <2>1. PICK n \in 0 .. Len(Data) : SentTo(n) BY DEF SendInv
    <2>2. SentTo(n)' BY <1>1, <2>1 DEF SentTo
    <2> QED BY <1>1, <1>2, <2>2 DEF SendInv
  <1>6. AckInv'
    <2> SUFFICES ASSUME stage = "ack" PROVE AckInv' BY DEF AckInv
    <2>1. PICK n \in 0 .. Len(Data) : AskedAt(n) BY DEF AckInv
    <2>2. AskedAt(n)' BY <1>1, <1>2, <2>1 DEF AskedAt
    <2> QED BY <1>1, <1>2, <1>3, <2>2 DEF AckInv
  <1>7. ReplyInv' BY <1>1, <1>2, <1>3 DEF ReplyInv
  <1>8. SettleInv' BY <1>1, <1>2 DEF SettleInv
  <1>9. FreshInv' BY <1>1, <1>2 DEF FreshInv
  <1> QED BY <1>4, <1>5, <1>6, <1>7, <1>8, <1>9

\* Of the seven parts only the one of the next place matters.
LEMMA OnePlace ==
  /\ stage # "reset" => ResetInv
  /\ stage # "sync" => SyncInv
  /\ stage # "send" => SendInv
  /\ stage # "ack" => AckInv
  /\ stage # "reply" => ReplyInv
  /\ stage # "settle" => SettleInv
  /\ stage # "fresh" => FreshInv
  BY DEF ResetInv, SyncInv, SendInv, AckInv, ReplyInv, SettleInv, FreshInv

LEMMA CleanBefore ==
  ASSUME NEW i \in Nat, NEW j \in Nat, j <= i, Clean(i) PROVE Clean(j)
  <1>1. \A k \in 1 .. j : k \in 1 .. i OBVIOUS
  <1> QED BY <1>1 DEF Clean

Placed == ResetInv /\ SyncInv /\ SendInv /\ AckInv /\ ReplyInv /\ SettleInv /\ FreshInv

LEMMA CaseStep ==
  ASSUME TargetFine, Hasty = {}, TargetNext, Types, BootInv, OpenInv, CaseInv PROVE CaseInv'
  <1> SUFFICES ASSUME alive', Clean(case)' PROVE Placed' BY DEF CaseInv, Placed
  <1>1. ASSUME alive, UNCHANGED <<corpus, case>> PROVE Clean(case) /\ Placed
    BY <1>1, SameCase DEF CaseInv, Placed
  <1>2. ASSUME UNCHANGED <<stage, corpus, case, unsent, reports, buf, pipe, back, term, alive>> PROVE Placed'
    BY <1>1, <1>2, StillGives DEF Placed
  <1>3. ASSUME Process PROVE Placed'
    <2>1. /\ UNCHANGED <<stage, corpus, case, unsent, reports, alive>> /\ ~Settled
      BY <1>3, ProcessIs DEF Types, Settled
    <2>2. Placed BY <1>1, <2>1
    <2>3. CASE up
      <3>1. /\ Coming'.state = Coming.state /\ Coming'.scr = Coming.scr /\ Owed' = Owed /\ (Mute => Mute')
        BY <1>3, <2>3, ProcessCarries DEF Types
      <3>2. (LastOnly(Cpr) => LastOnly(Cpr)') /\ (LastOnly(AnyKind) => LastOnly(AnyKind)')
        BY <1>3, <2>3, ProcessLast DEF Types
      <3> QED BY <2>1, <2>2, <3>1, <3>2, MoveGives DEF Placed
    <2>4. CASE ~up
      <3>1. stage' \in {"open", "ready", "readywait", "failed"} BY <2>1, <2>4 DEF BootInv
      <3> QED BY <3>1 DEF Placed, ResetInv, SyncInv, SendInv, AckInv, ReplyInv, SettleInv, FreshInv
    <2> QED BY <2>3, <2>4
  <1>4. ASSUME Receive PROVE Placed'
    <2>1. /\ UNCHANGED <<stage, corpus, case, unsent, reports, alive>> /\ ~Settled
      BY <1>4, ReceiveIs DEF Settled
    <2>2. Placed BY <1>1, <2>1
    <2>3. Coming' = Coming /\ Owed' = Owed /\ (Mute => Mute') BY <1>4, ReceiveCarries DEF Types
    <2>4. Coming'.state = Coming.state /\ Coming'.scr = Coming.scr BY <2>3
    <2>5. (LastOnly(Cpr) => LastOnly(Cpr)') /\ (LastOnly(AnyKind) => LastOnly(AnyKind)')
      BY <1>4, ReceiveLast DEF Types
    <2> QED BY <2>1, <2>2, <2>3, <2>4, <2>5, MoveGives DEF Placed
  <1>5. ASSUME stage' \in {"ready", "readywait", "probe", "failed", "done"} PROVE Placed'
    BY <1>5 DEF Placed, ResetInv, SyncInv, SendInv, AckInv, ReplyInv, SettleInv, FreshInv
  <1>6. ASSUME Open \/ AskReady \/ Ready \/ NotReady \/ AskFails PROVE Placed'
    BY <1>5, <1>6 DEF Open, AskReady, Ready, NotReady, AskFails
  <1>7. ASSUME WaitProbe PROVE Placed'
    <2>1. stage = "probe" /\ stage' \in {"reset", "failed"} /\ UNCHANGED <<alive, pipe, back, term>>
      BY <1>7 DEF WaitProbe, machine
    <2>2. Settled BY <2>1 DEF OpenInv
    <2>3. Mute BY <2>2, SettledIs DEF Types
    <2>4. Mute' BY <2>1, <2>3 DEF Mute, Coming
    <2> QED BY <2>1, <2>4 DEF Placed, ResetInv, SyncInv, SendInv, AckInv, ReplyInv, SettleInv,
               FreshInv
  <1>8. ASSUME Reset PROVE Placed'
    <2>1. stage = "reset" /\ stage' = "sync" /\ UNCHANGED <<corpus, case, alive>>
      BY <1>8 DEF Reset, ready, progress, SendOnly
    <2>2. Mute /\ alive BY <1>1, <2>1 DEF Placed, ResetInv
    <2>3. SyncInv' BY <1>8, <2>2, ResetGives
    <2> QED BY <2>1, <2>3 DEF Placed, ResetInv, SendInv, AckInv, ReplyInv, SettleInv, FreshInv
  <1>9. ASSUME Sync PROVE Placed'
    <2>1. stage' = "send" /\ UNCHANGED <<corpus, case, alive>>
      BY <1>9 DEF Sync, ready, progress, machine
    <2>2. SyncInv BY <1>1, <2>1 DEF Placed
    <2>3. SendInv' BY <1>9, <2>2, SyncGives
    <2> QED BY <2>1, <2>3 DEF Placed, ResetInv, SyncInv, AckInv, ReplyInv, SettleInv, FreshInv
  <1>10. ASSUME SendWindow PROVE Placed'
    <2>1. UNCHANGED <<corpus, case, alive>>
      BY <1>10 DEF SendWindow, ready, progress, SendOnly
    <2>2. SendInv /\ Clean(case) /\ alive BY <1>1, <2>1 DEF Placed
    <2>3. (stage' = "reply" /\ ReplyInv') \/ (stage' = "ack" /\ AckInv')
      BY <1>10, <2>2, SendRawGives, SendAsksGives
    <2> QED BY <2>3 DEF Placed, ResetInv, SyncInv, SendInv, AckInv, ReplyInv, SettleInv, FreshInv
  <1>11. ASSUME Acked PROVE Placed'
    <2>1. UNCHANGED <<corpus, case, alive>>
      BY <1>11 DEF Acked, ready, progress, machine
    <2>2. AckInv /\ Clean(case) /\ alive BY <1>1, <2>1 DEF Placed
    <2>3. SendInv' /\ SettleInv' /\ stage' \in {"send", "settle"} BY <1>11, <2>2, AckedGives
    <2> QED BY <2>3 DEF Placed, ResetInv, SyncInv, AckInv, ReplyInv, FreshInv
  <1>12. ASSUME Unacked PROVE Placed'
    <2>1. UNCHANGED <<corpus, case, alive>>
      BY <1>12 DEF Unacked, ready, progress, machine, SendOnly
    <2>2. AckInv /\ Clean(case) /\ alive BY <1>1, <2>1 DEF Placed
    <2>3. SettleInv' /\ stage' = "settle" BY <1>12, <2>2, UnackedGives
    <2> QED BY <2>3 DEF Placed, ResetInv, SyncInv, SendInv, AckInv, ReplyInv, FreshInv
  <1>13. ASSUME Poll \/ NoReply PROVE Placed'
    <2>1. UNCHANGED <<corpus, case, alive>>
      BY <1>13 DEF Poll, NoReply, ready, progress, machine
    <2>2. ReplyInv /\ alive BY <1>1, <2>1 DEF Placed
    <2>3. ReplyInv' /\ SettleInv' /\ stage' \in {"reply", "settle"} BY <1>13, <2>2, ReplyGives
    <2> QED BY <2>3 DEF Placed, ResetInv, SyncInv, SendInv, AckInv, FreshInv
  <1>14. ASSUME Look PROVE Placed'
    <2>1. UNCHANGED <<corpus, case, alive>>
      BY <1>14 DEF Look, ready, progress, machine
    <2>2. SettleInv BY <1>1, <2>1 DEF Placed
    <2>3. FreshInv' /\ stage' = "fresh" BY <1>14, <2>2, LookGives
    <2> QED BY <2>3 DEF Placed, ResetInv, SyncInv, SendInv, AckInv, ReplyInv, SettleInv
  <1>15. ASSUME Take PROVE Placed'
    <2>1. /\ stage = "fresh" /\ UNCHANGED <<corpus, alive, pipe, back, term>>
          /\ (stage' = "done" /\ case' = case) \/ (stage' = "reset" /\ case' = case + 1)
      BY <1>15 DEF Take, ready, machine, Record
    <2>2. CASE stage' = "done" BY <1>5, <2>2
    <2>3. CASE stage' = "reset" /\ case' = case + 1
      <3>1. case \in Nat /\ case + 1 \in Nat /\ case <= case + 1
        <4>1. case \in 1 .. NCases BY DEF Types, RunTypes
        <4> QED BY <4>1 DEF TargetFine
      <3>2. Clean(case + 1) BY <2>1, <2>3 DEF Clean
      <3>3. Clean(case) BY <3>1, <3>2, CleanBefore
      <3>4. Mute BY <2>1, <3>3 DEF CaseInv, FreshInv
      <3>5. Mute' BY <2>1, <3>4 DEF Mute, Coming
      <3> QED BY <2>3, <3>5 DEF Placed, ResetInv, SyncInv, SendInv, AckInv, ReplyInv, SettleInv,
                 FreshInv
    <2> QED BY <2>1, <2>2, <2>3
  <1>16. ~CaseFails /\ ~Exit
    BY DEF CaseFails, Exit, machine
  <1>17. ASSUME \/ Eof \/ Boot \/ SnapshotBegins \/ SnapshotEnds \/ Finished
         PROVE  Placed'
    <2>1. UNCHANGED <<stage, corpus, case, unsent, reports, buf, pipe, back, term, alive>>
      BY <1>17 DEF Eof, Boot, SnapshotBegins, SnapshotEnds,
         Finished,
        harness, machine, reader, target, ready, sending,
        peeked, progress
    <2> QED BY <1>2, <2>1
  <1> QED BY <1>3, <1>4, <1>6, <1>7, <1>8, <1>9, <1>10, <1>11, <1>12, <1>13, <1>14, <1>15, <1>16,
             <1>17
        DEF TargetNext, Harness

--------------------------------------------------------------------------------
(***************************************************************************)
(* The verdict.                                                            *)
(***************************************************************************)
LEMMA OnlyOne == ASSUME NEW c, c \in 0 .. 1, NEW k, k \in 1 .. c PROVE k = 1 /\ c = 1
  OBVIOUS

\* Where a case that asks nothing early asks for the position, all it draws is drawn.
LEMMA OwnAt ==
  ASSUME NEW data \in Seq(Bytes), ~AsksEarly(data), NEW q \in Nat
  PROVE  /\ Own(data, q) \in Seq(Report)
         /\ \A k \in Cprs(Own(data, q)) : Own(data, q)[k].at = Len(Rendered(data).scr)
  <1> DEFINE t == Rendered(data)  r == t.replies  y == Retag(r, q)  p == Place(t.scr, q)  n == Len(t.scr)
  <1>1. t \in Terms BY RenderedIs
  <1>2. r \in Seq(Report) /\ n \in Nat
    <2> HIDE DEF t
    <2>1. r \in Seq(Report) /\ t.scr \in Seq(Shown) BY <1>1, TermIs
    <2> QED BY <2>1
  <1>3. y \in Seq(Report) /\ Len(y) = Len(r) /\ \A k \in 1 .. Len(r) : y[k] = [kind |-> r[k].kind, at |-> r[k].at, for |-> q]
    <2> HIDE DEF r
    <2> QED BY <1>2, RetagIs
  <1>4. CASE EndsInQuery(LastWindow(data))
    <2>1. Own(data, q) = y
      <3> HIDE DEF y
      <3>1. Own(data, q) = y \o <<>> BY <1>4 DEF Own, y
      <3> QED BY <1>3, <3>1, CatNothing
    <2> DEFINE l == Len(data) - 1  x == SubSeq(data, 1, l)  b == data[l + 1]  u == Upto(data, l)
    <2>2. l \in Nat /\ Len(data) = l + 1 /\ l <= Len(data)
      <3>1. data # <<>>
        <4> SUFFICES ASSUME data = <<>> PROVE FALSE OBVIOUS
        <4>1. Len(data) = 0 OBVIOUS
        <4>2. Boundaries(data) = {}
          <5>1. 1 .. 0 - 1 = {} OBVIOUS
          <5> QED BY <4>1, <5>1 DEF Boundaries
        <4>3. Max({0}) = 0 BY DEF Max
        <4>4. {0} \cup {} = {0} OBVIOUS
        <4>5. LastWindow(data) = SubSeq(data, 0 + 1, 0)
          BY <4>1, <4>2, <4>3, <4>4 DEF LastWindow
        <4>6. SubSeq(data, 0 + 1, 0) \in Seq(Bytes) /\ Len(SubSeq(data, 0 + 1, 0)) = 0 - 0
          <5>1. 0 \in Nat /\ 0 <= 0 /\ 0 <= Len(data) BY <4>1
          <5> QED BY <5>1, PartIs
        <4>7. Len(LastWindow(data)) >= 1 BY <1>4, <4>5, <4>6, EndsNonempty
        <4> QED BY <4>5, <4>6, <4>7
      <3> QED BY <3>1, EmptySeq
    <2>3. /\ x \in Seq(Bytes) /\ b \in Bytes /\ data = Append(x, b)
      <3> HIDE DEF l
      <3> QED BY <2>2, LastApart
    <2>4. u = Typed(Blank, x, 0) /\ u \in Terms BY <2>2, UptoIs
    <2>5. u.replies = <<>> BY <1>4, NothingEarly
    <2>6. t = Typed(Blank, Append(x, b), 0)
      <3>1. t = Typed(Blank, data, 0) BY RenderedIs
      <3> HIDE DEF x, b, t
      <3> QED BY <2>3, <3>1
    <2> DEFINE a == Answer(u.state, u.scr, b, 0)
    <2>7. t.scr = Drawn(u.state, u.scr, b) /\ r = u.replies \o a
      <3>1. 0 \in Nat OBVIOUS
      <3> HIDE DEF x, b, t, u
      <3> QED BY <2>3, <2>4, <2>6, <3>1, BlankIs, TypedMore
    <2>8. a \in Seq(Report) /\ Len(a) \in 0 .. 1
      <3> DEFINE s == u.scr
      <3>1. s \in Seq(Shown)
        <4> HIDE DEF u
        <4> QED BY <2>4, TermIs
      <3>2. 0 \in Nat OBVIOUS
      <3> HIDE DEF s
      <3> QED BY <3>1, <3>2, AnswerIs DEF s
    <2>9. r = a
      <3> HIDE DEF a, r, u
      <3> QED BY <2>5, <2>7, <2>8, CatNothing
    <2>10. ASSUME NEW k \in 1 .. Len(a) PROVE a[k].at = n
      <3>1. k = 1 /\ Len(a) = 1
        <4> HIDE DEF a
        <4> QED BY <2>8, <2>10, OnlyOne
      <3>2. u.state = "csi" /\ b \in {"n", "c"} /\ a[1].at = Len(u.scr)
        <4> HIDE DEF u, b
        <4>1. u.scr \in Seq(Shown) /\ 0 \in Nat BY <2>4, TermIs
        <4> DEFINE s == u.scr
        <4> HIDE DEF s
        <4>2. /\ u.state = "csi" /\ b \in {"n", "c"}
              /\ Answer(u.state, s, b, 0)[1] = [kind |-> IF b = "n" THEN "cpr" ELSE "da", at |-> Len(s), for |-> 0]
          BY <3>1, <4>1, AnswerIs DEF s
        <4> QED BY <4>2 DEF s
      <3>3. t.scr = u.scr
        <4> HIDE DEF u, b, t
        <4> QED BY <2>7, <3>2 DEF Drawn
      <3> QED BY <3>1, <3>2, <3>3
    <2>11. ASSUME NEW k \in Cprs(y) PROVE y[k].at = n
      <3>1. k \in 1 .. Len(r)
        <4> HIDE DEF y, r
        <4> QED BY <1>3 DEF Cprs
      <3> HIDE DEF y, r, a, n
      <3>2. y[k].at = r[k].at
        <4>1. y[k] = [kind |-> r[k].kind, at |-> r[k].at, for |-> q] BY <1>3, <3>1
        <4> QED BY <4>1
      <3> QED BY <2>9, <2>10, <3>1, <3>2
    <2> QED BY <1>3, <2>1, <2>11
  <1>5. CASE ~EndsInQuery(LastWindow(data))
    <2>1. Own(data, q) = y \o <<p>> BY <1>5 DEF Own
    <2>2. Lacks(Cpr, r)
      <3>1. ~Asks(data) BY <1>5, NothingEarly
      <3> QED BY <1>2, <3>1, NoneCprs DEF Asks
    <2> HIDE DEF y, r, n
    <2>3. p = [kind |-> "cpr", at |-> n, for |-> q] /\ p \in Report BY <1>2 DEF Place, Report, n
    <2> HIDE DEF p
    <2>4. y \o <<p>> = Append(y, p) /\ Append(y, p) \in Seq(Report) /\ Len(Append(y, p)) = Len(y) + 1
          /\ Append(y, p)[Len(y) + 1] = p /\ \A k \in 1 .. Len(y) : Append(y, p)[k] = y[k]
      BY <1>3, <2>3
    <2> DEFINE z == Append(y, p)
    <2> HIDE DEF z
    <2>5. ASSUME NEW k \in Cprs(z) PROVE z[k].at = n
      <3>1. k \in 1 .. Len(y) + 1 /\ z[k].kind = "cpr" BY <2>4, <2>5 DEF z, Cprs
      <3>2. Len(y) \in Nat BY <1>3
      <3>3. CASE k = Len(y) + 1 BY <2>3, <2>4, <3>3 DEF z
      <3>4. CASE k \in 1 .. Len(y)
        <4>1. z[k] = y[k] BY <2>4, <3>4 DEF z
        <4>2. k \in 1 .. Len(r) BY <1>3, <3>4
        <4>3. y[k].kind = r[k].kind
          <5>1. y[k] = [kind |-> r[k].kind, at |-> r[k].at, for |-> q] BY <1>3, <4>2
          <5> QED BY <5>1
        <4>4. r[k].kind = "cpr" BY <3>1, <4>1, <4>3
        <4> QED BY <2>2, <4>2, <4>4 DEF Lacks, Cpr
      <3> QED BY <3>1, <3>2, <3>3, <3>4
    <2> QED BY <2>1, <2>4, <2>5 DEF z, n
  <1> QED BY <1>4, <1>5

ExactIs(v, data, i) ==
  LET t == Rendered(data)
      r == [t EXCEPT !.replies =
              IF EndsInQuery(LastWindow(data)) THEN @
              ELSE Append(@, [kind |-> "cpr", at |-> Len(t.scr), for |-> 0])]
  IN  v.scr = r.scr /\ v.cursor = Len(r.scr) /\ v.reports = Retag(r.replies, i)

LEMMA ExactTo == ASSUME NEW i PROVE Exact(i) <=> ExactIs(verdicts[i], corpus[i], i)
  BY Zenon DEF Exact, ExactIs, Retag

\* The reports of ExactIs are those of Own.
LEMMA ExactOwn ==
  ASSUME NEW data \in Seq(Bytes), NEW i \in Nat, NEW v,
         v.scr = Rendered(data).scr, v.cursor = Len(Rendered(data).scr), v.reports = Own(data, i)
  PROVE  ExactIs(v, data, i)
  <1> DEFINE t == Rendered(data)  e == [kind |-> "cpr", at |-> Len(t.scr), for |-> 0]
             s == IF EndsInQuery(LastWindow(data)) THEN t.replies ELSE Append(t.replies, e)
             r == [t EXCEPT !.replies = s]
  <1>1. t \in Terms BY RenderedIs
  <1>2. r.scr = t.scr /\ r.replies = s
    <2> HIDE DEF t, s
    <2> QED BY <1>1 DEF Terms
  <1>3. t.replies \in Seq(Report) /\ Len(t.scr) \in Nat
    <2> HIDE DEF t
    <2>1. t.replies \in Seq(Report) /\ t.scr \in Seq(Shown) BY <1>1, TermIs
    <2> QED BY <2>1
  <1>4. Own(data, i) = Retag(s, i)
    <2> DEFINE w == t.replies  n == Len(t.scr)  p == Place(t.scr, i)
    <2>1. p = [kind |-> "cpr", at |-> n, for |-> i] BY DEF Place
    <2>2. w \in Seq(Report) /\ n \in Nat BY <1>3
    <2>3. Own(data, i) = Retag(w, i) \o (IF EndsInQuery(LastWindow(data)) THEN <<>> ELSE <<p>>)
      BY DEF Own
    <2>4. e = [kind |-> "cpr", at |-> n, for |-> 0] OBVIOUS
    <2> HIDE DEF w, n, p, e
    <2>5. e \in Report BY <2>2, <2>4 DEF Report
    <2>6. Retag(w, i) \in Seq(Report) BY <2>2, RetagIs
    <2>7. Append(w, e) = w \o <<e>> /\ <<e>> \in Seq(Report) /\ Len(<<e>>) = 1 /\ <<e>>[1] = e
      BY <2>2, <2>5
    <2>8. Retag(<<e>>, i) = <<p>>
      <3> DEFINE x == <<e>>
      <3>1. x \in Seq(Report) /\ Len(x) = 1 /\ x[1] = e BY <2>7
      <3> HIDE DEF x
      <3>2. Retag(x, i) \in Seq(Report) /\ Len(Retag(x, i)) = 1
            /\ Retag(x, i)[1] = [kind |-> x[1].kind, at |-> x[1].at, for |-> i]
        BY <3>1, RetagIs
      <3>3. Retag(x, i)[1] = p BY <2>1, <2>4, <3>1, <3>2
      <3> DEFINE z == Retag(x, i)
      <3> HIDE DEF z
      <3>4. z \in Seq(Report) /\ Len(z) = 1 /\ z[1] = p BY <3>2, <3>3 DEF z
      <3>5. z = <<p>> BY <3>4
      <3> QED BY <3>5 DEF x, z
    <2>9. Retag(Append(w, e), i) = Retag(w, i) \o <<p>> BY <2>2, <2>7, <2>8, RetagCat
    <2> QED BY <2>3, <2>6, <2>9, CatNothing DEF w
  <1> HIDE DEF s
  <1>5. v.scr = r.scr /\ v.cursor = Len(r.scr) /\ v.reports = Retag(r.replies, i) BY <1>2, <1>4
  <1> QED BY <1>5, Zenon DEF ExactIs, s, r, t

LEMMA ExactNext == ASSUME NEW i PROVE Exact(i)' <=> ExactIs(verdicts'[i], corpus'[i], i)
  BY Zenon DEF Exact, ExactIs, Retag

LEMMA PastStep ==
  ASSUME TargetFine, TargetNext, Types, ShotInv, PastInv PROVE PastInv'
  <1> USE DEF Types
  <1>1. ASSUME NEW i, corpus' = corpus, verdicts'[i] = verdicts[i], Exact(i) PROVE Exact(i)'
    BY <1>1, ExactTo, ExactNext
  <1>2. ASSUME UNCHANGED <<corpus, case, verdicts>>, (stage' = "done") <=> (stage = "done") PROVE PastInv'
    BY <1>1, <1>2 DEF PastInv, Clean, Paced
  <1>3. ASSUME NEW v, Record(v), stage # "done", corpus' = corpus,
               v.ok /\ Clean(case) /\ Paced(case) => ExactIs(v, corpus[case], case)
        PROVE  PastInv'
    <2>1. /\ verdicts' = Append(verdicts, v)
          /\ (stage' = "done" /\ case' = case) \/ (stage' = "reset" /\ case' = case + 1)
      BY <1>3 DEF Record
    <2>2. case \in Nat /\ Len(verdicts) = case - 1
      <3>1. case \in 1 .. NCases /\ NCases \in Nat BY DEF RunTypes, TargetFine
      <3> QED BY <1>3, <3>1 DEF PastInv
    <2>3. /\ Len(verdicts') = Len(verdicts) + 1 /\ verdicts'[Len(verdicts) + 1] = v
          /\ \A i \in 1 .. Len(verdicts) : verdicts'[i] = verdicts[i]
      BY <2>1 DEF RunTypes
    <2>4. Len(verdicts') = case /\ verdicts'[case] = v BY <2>2, <2>3
    <2>5. Len(verdicts') = IF stage' = "done" THEN case' ELSE case' - 1 BY <2>1, <2>2, <2>4
    <2>6. ASSUME NEW i \in 1 .. Len(verdicts'), verdicts'[i].ok, Clean(i)', Paced(i)' PROVE Exact(i)'
      <3>1. Clean(i) /\ Paced(i) BY <1>3, <2>6 DEF Clean, Paced
      <3>2. CASE i = case
        <4>1. ExactIs(verdicts'[i], corpus'[i], i) BY <1>3, <2>4, <2>6, <3>1, <3>2
        <4> QED BY <4>1, ExactNext
      <3>3. CASE i # case
        <4>1. i \in 1 .. Len(verdicts) BY <2>2, <2>4, <3>3
        <4>2. verdicts'[i] = verdicts[i] BY <2>3, <4>1
        <4>3. Exact(i) BY <2>6, <3>1, <4>1, <4>2 DEF PastInv
        <4> QED BY <1>1, <1>3, <4>2, <4>3
      <3> QED BY <3>2, <3>3
    <2> QED BY <2>5, <2>6 DEF PastInv
  <1>4. ASSUME Take PROVE PastInv'
    <2> DEFINE v == Verdict
    <2>1. Record(v) /\ stage = "fresh" /\ corpus' = corpus /\ file.st = "ok" /\ file.seq > after
      BY <1>4 DEF Take, ready, Fresh, Valid
    <2>2. v.scr = file.scr /\ v.cursor = Cursor /\ v.reports = reports BY DEF Verdict
    <2> HIDE DEF v
    <2>3. ASSUME Clean(case), Paced(case) PROVE ExactIs(v, corpus[case], case)
      <3>1. file.scr = Alone.scr /\ reports = Own(Data, case) BY <2>1, <2>3 DEF ShotInv
      <3>2. Data \in Seq(Bytes) /\ case \in Nat /\ ~AsksEarly(Data) BY <2>3, DataIs
      <3>3. /\ reports \in Seq(Report)
            /\ \A k \in Cprs(reports) : reports[k].at = Len(Alone.scr)
        BY <3>1, <3>2, OwnAt DEF Alone
      <3>4. Cursor = Len(Alone.scr)
        <4>1. CASE Cprs(reports) # {}
          <5>1. Max(Cprs(reports)) \in Cprs(reports) BY <3>3, <4>1, CursorIs
          <5> QED BY <3>3, <4>1, <5>1 DEF Cursor
        <4>2. CASE Cprs(reports) = {} BY <3>1, <4>2 DEF Cursor
        <4> QED BY <4>1, <4>2
      <3>5. ExactIs(v, Data, case) BY <2>2, <3>1, <3>2, <3>4, ExactOwn DEF Alone
      <3> QED BY <3>5 DEF Data
    <2> QED BY <1>3, <2>1, <2>3
  <1>5. ASSUME CaseFails PROVE PastInv'
    <2>1. Record(Error) /\ stage # "done" /\ corpus' = corpus /\ ~Error.ok
      BY <1>5 DEF CaseFails, ready, Error
    <2> QED BY <1>3, <2>1
  <1>6. ASSUME \/ Open \/ AskReady \/ Ready \/ NotReady \/ WaitProbe
               \/ AskFails \/ Reset \/ Sync \/ SendWindow \/ Acked
               \/ Unacked \/ Poll \/ NoReply \/ Look
        PROVE  UNCHANGED <<corpus, case, verdicts>> /\ stage # "done" /\ stage' # "done"
    BY <1>6 DEF Open, AskReady, Ready, NotReady, WaitProbe,
         AskFails, Reset, Sync, SendWindow, Acked, Unacked,
         Poll, NoReply, Look, ready, progress
  <1>7. ASSUME \/ Receive \/ Eof \/ Boot \/ Process
               \/ SnapshotBegins \/ SnapshotEnds \/ Exit \/ Finished
        PROVE  UNCHANGED <<stage, corpus, case, verdicts>>
    BY <1>7 DEF Receive, Eof, Boot, Process, SnapshotBegins,
      SnapshotEnds, Exit, Finished, harness, ready, progress, target
  <1> QED BY <1>2, <1>4, <1>5, <1>6, <1>7 DEF TargetNext, Harness

LEMMA TellsInit == ASSUME TargetFine, TargetInit PROVE Tells
  <1>1. Types BY TypesInit
  <1>2. /\ stage = "open" /\ buf = <<>> /\ pipe = <<>> /\ back = <<>> /\ verdicts = <<>> /\ case = 1
        /\ file.st # "busy"
    BY DEF TargetInit, Absent, Leftover
  <1>3. BootInv BY <1>2 DEF BootInv
  <1>4. OpenInv BY <1>2 DEF OpenInv, Settled
  <1>5. CaseInv BY <1>2 DEF CaseInv, ResetInv, SyncInv, SendInv, AckInv, ReplyInv, SettleInv,
                   FreshInv
  <1>6. BusyInv /\ ShotInv BY <1>2 DEF BusyInv, ShotInv
  <1>7. PastInv BY <1>2 DEF PastInv
  <1> QED BY <1>1, <1>3, <1>4, <1>5, <1>6, <1>7 DEF Tells

LEMMA TellsStep == ASSUME TargetFine, Hasty = {}, Tells, [TargetNext]_target PROVE Tells'
  <1>1. CASE TargetNext
    <2>1. Types' BY <1>1, TypesStep DEF Tells
    <2>2. BootInv' /\ OpenInv' /\ CaseInv' BY <1>1, BootStep, OpenStep, CaseStep DEF Tells
    <2>3. BusyInv' /\ ShotInv' /\ PastInv' BY <1>1, BusyStep, ShotStep, PastStep DEF Tells
    <2> QED BY <2>1, <2>2, <2>3 DEF Tells
  <1>2. CASE UNCHANGED target
    <2>1. /\ UNCHANGED <<stage, corpus, case, unsent, reports, buf, pipe, back, term, alive>>
          /\ UNCHANGED <<after, verdicts, up, file, seq>>
      BY <1>2 DEF target, harness, machine, reader, ready,
         sending,
        peeked, progress, probe
    <2>2. Types' BY <2>1 DEF Tells, Types, LineTypes, RunTypes, FileTypes
    <2>3. BootInv' /\ OpenInv' BY <2>1 DEF Tells, BootInv, OpenInv, Settled, LastOnly
    <2>4. CaseInv'
      <3> SUFFICES ASSUME alive', Clean(case)' PROVE Placed' BY DEF CaseInv, Placed
      <3>1. Placed BY <2>1, SameCase DEF Tells, CaseInv, Placed
      <3> QED BY <2>1, <3>1, StillGives DEF Placed
    <2>5. BusyInv' /\ ShotInv' BY <2>1, SameCase DEF Tells, BusyInv, ShotInv
    <2>6. PastInv'
      <3>1. ASSUME NEW i, Exact(i) PROVE Exact(i)' BY <2>1, <3>1, ExactTo, ExactNext
      <3> QED BY <2>1, <3>1 DEF Tells, PastInv, Clean, Paced
    <2> QED BY <2>2, <2>3, <2>4, <2>5, <2>6 DEF Tells
  <1> QED BY <1>1, <1>2

LEMMA TellsEnough == Tells => FaithfulVerdict
  <1> SUFFICES ASSUME Tells, NEW i \in 1 .. NCases, Judged(i), Clean(i), Paced(i) PROVE Exact(i)
    BY DEF FaithfulVerdict, Clean, Paced
  <1>1. i \in DOMAIN verdicts /\ verdicts[i].ok BY DEF Judged
  <1>2. i \in 1 .. Len(verdicts) BY <1>1 DEF Tells, Types, RunTypes
  <1> QED BY <1>1, <1>2 DEF Tells, PastInv

\* The screen, cursor and reports on which a case is judged are its own, for any corpus, windows and
\* slices, if no wait gives up on an answer that is on its way.
THEOREM FaithfulVerdictCorrect ==
  Hasty = {} => (TargetSpec => []FaithfulVerdict)
  <1> SUFFICES ASSUME Hasty = {} PROVE TargetSpec => []FaithfulVerdict OBVIOUS
  <1> USE TargetAssumption
  <1>1. TargetInit => Tells BY TellsInit
  <1>2. Tells /\ [TargetNext]_target => Tells' BY TellsStep
  <1>3. Tells => FaithfulVerdict BY TellsEnough
  <1> QED BY <1>1, <1>2, <1>3, PTL DEF TargetSpec

--------------------------------------------------------------------------------
(***************************************************************************)
(* Loading the corpus.                                                     *)
(***************************************************************************)
\* The library's bijections, reached twice.
LEMMA SameBijections == ASSUME NEW S, NEW T PROVE Ld!Bijection(S, T) = Bijection(S, T)
  BY DEF Bijection, Injection, Surjection, IsInjective,
         Ld!Bijection, Ld!Injection, Ld!Surjection, Ld!IsInjective

\* something errors must name
Wrong(r) == r.missing \/ ~Ld!Validates(r)

\* record i of file f has been read
Read(f, i) == f < at \/ (f = at /\ i < rec)

LoadType ==
  /\ files \in [1 .. NFiles -> Ld!Contents] /\ at \in 1 .. NFiles + 1 /\ rec \in Nat \ {0}
  /\ at <= NFiles => rec <= Len(files[at].recs) + 1
  /\ pc \in {"load", "raised", "loaded", "died"} /\ (pc \in {"raised", "loaded"} => at > NFiles)

\* All that is wrong so far has been noted, and nothing so far has escaped.
Told ==
  \A f \in 1 .. NFiles :
    /\ f < at => files[f].kind # "undecoded" /\ (Ld!Unreadable(files[f]) => <<f, 0>> \in errors)
    /\ \A i \in DOMAIN files[f].recs :
         Read(f, i) =>
           ~Ld!Escapes(files[f].recs[i]) /\ (Wrong(files[f].recs[i]) => <<f, i>> \in errors)

Distinct(s) == \A i, j \in DOMAIN s : s[i].id = s[j].id => i = j

\* s holds the records read so far, all of them and nothing else.
Whole(s) ==
  /\ s \in Seq(Records) /\ Distinct(s) /\ (\A k \in DOMAIN s : ~Wrong(s[k]))
  /\ \A k \in DOMAIN s : \E f \in 1 .. NFiles : \E i \in DOMAIN files[f].recs :
       Read(f, i) /\ s[k] = files[f].recs[i]
  /\ \A f \in 1 .. NFiles : \A i \in DOMAIN files[f].recs :
       Read(f, i) => \E k \in DOMAIN s : s[k] = files[f].recs[i]

Ordered(s) == \A i, j \in DOMAIN s : i < j => ~Ld!Before(s[j], s[i])

\* As long as nothing is wrong the cases are what has been read.
Kept ==
  /\ errors = {} => Whole(loaded) /\ ids = {loaded[k].id : k \in DOMAIN loaded}
  /\ pc = "loaded" => errors = {} /\ Ordered(loaded)

LInv == LoadType /\ Told /\ Kept /\ Ld!DiesOfThese

\* A file holds a list of records, or nothing.
LEMMA File ==
  ASSUME LoadType, NEW f \in 1 .. NFiles
  PROVE  /\ files[f].recs \in Seq(Records)
         /\ Ld!Unreadable(files[f]) => files[f].recs = <<>>
         /\ files[f].kind = "undecoded" \/ Ld!Unreadable(files[f]) \/ Ld!Listed(files[f])
  <1>1. files[f] \in Ld!Contents BY DEF LoadType
  <1>2. CASE files[f].kind \in {"undecoded", "invalid", "notlist"}
    <2>1. files[f].recs = <<>> BY <1>1, <1>2 DEF Ld!Contents
    <2> QED BY <1>2, <2>1 DEF Ld!Unreadable
  <1>3. CASE files[f].kind = "list"
    <2>1. files[f].recs \in Ld!BoundedSeq(Records, MaxRecords) BY <1>1, <1>3 DEF Ld!Contents
    <2>2. PICK m \in 0 .. MaxRecords : files[f].recs \in [1 .. m -> Records]
      BY <2>1 DEF Ld!BoundedSeq, Ld!SeqOf
    <2>3. m \in Nat OBVIOUS
    <2>4. files[f].recs \in Seq(Records) BY <2>2, <2>3
    <2>5. ~Ld!Unreadable(files[f]) BY <1>3 DEF Ld!Unreadable
    <2> QED BY <1>3, <2>4, <2>5 DEF Ld!Listed
  <1>4. files[f].kind \in {"undecoded", "invalid", "notlist"} \/ files[f].kind = "list"
    BY <1>1 DEF Ld!Contents
  <1> QED BY <1>2, <1>3, <1>4

\* A sequence of records with different ids can be sorted.
LEMMA SortExists ==
  ASSUME Ld!CorpusFine, NEW s \in Seq(Records), Distinct(s)
  PROVE  \E p \in Bijection(DOMAIN s, DOMAIN s) : \A i, j \in DOMAIN s : i < j => ~Ld!Before(s[p[j]], s[p[i]])
  <1> DEFINE n == Len(s)
             lower(i) == {j \in 1 .. n : Ld!Before(s[j], s[i])}
             rank == [i \in 1 .. n |-> Cardinality(lower(i)) + 1]
  <1>n. n \in Nat /\ DOMAIN s = 1 .. n OBVIOUS
  <1>f. IsFiniteSet(1 .. n) /\ Cardinality(1 .. n) = n BY <1>n, FS_Interval
  <1>t. \A i \in 1 .. n : s[i].id \in Int /\ s[i].category \in Int BY <1>n DEF Ld!CorpusFine
  <1>b. /\ \A i \in 1 .. n : ~Ld!Before(s[i], s[i])
        /\ \A i, j \in 1 .. n : i # j => Ld!Before(s[i], s[j]) \/ Ld!Before(s[j], s[i])
        /\ \A i, j, k \in 1 .. n : Ld!Before(s[i], s[j]) /\ Ld!Before(s[j], s[k]) => Ld!Before(s[i], s[k])
    <2>1. \A i, j \in 1 .. n : i # j => s[i].id # s[j].id BY <1>n DEF Distinct
    <2> QED BY <1>t, <2>1 DEF Ld!Before
  <1> HIDE DEF n
  <1>1. \A i \in 1 .. n : IsFiniteSet(lower(i)) /\ Cardinality(lower(i)) \in 0 .. n - 1
    <2> SUFFICES ASSUME NEW i \in 1 .. n PROVE IsFiniteSet(lower(i)) /\ Cardinality(lower(i)) \in 0 .. n - 1
      OBVIOUS
    <2>1. lower(i) \in SUBSET (1 .. n) /\ lower(i) # 1 .. n BY <1>b
    <2> HIDE DEF lower
    <2>2. IsFiniteSet(lower(i)) /\ Cardinality(lower(i)) <= n /\ Cardinality(lower(i)) # n
      BY <2>1, <1>f, FS_Subset
    <2>3. Cardinality(lower(i)) \in Nat BY <2>2, FS_CardinalityType
    <2> QED BY <2>2, <2>3, <1>n
  <1>2. \A i, j \in 1 .. n : Ld!Before(s[i], s[j]) => rank[i] < rank[j]
    <2> SUFFICES ASSUME NEW i \in 1 .. n, NEW j \in 1 .. n, Ld!Before(s[i], s[j]) PROVE rank[i] < rank[j]
      OBVIOUS
    <2>1. lower(i) \in SUBSET lower(j) /\ lower(i) # lower(j) BY <1>b
    <2> HIDE DEF lower
    <2>2. Cardinality(lower(i)) <= Cardinality(lower(j)) /\ Cardinality(lower(i)) # Cardinality(lower(j))
      BY <2>1, <1>1, FS_Subset
    <2> QED BY <2>2, <1>1
  <1>3. rank \in Injection(1 .. n, 1 .. n)
    <2> HIDE DEF lower
    <2>1. \A i \in 1 .. n : Cardinality(lower(i)) + 1 \in 1 .. n BY <1>1, <1>n
    <2>2. rank \in [1 .. n -> 1 .. n] BY <2>1
    <2> HIDE DEF rank
    <2>3. \A i, j \in 1 .. n : i # j => rank[i] # rank[j]
      <3> SUFFICES ASSUME NEW i \in 1 .. n, NEW j \in 1 .. n, i # j PROVE rank[i] # rank[j] OBVIOUS
      <3>1. rank[i] < rank[j] \/ rank[j] < rank[i] BY <1>2, <1>b
      <3>2. rank[i] \in Int /\ rank[j] \in Int BY <2>2
      <3> QED BY <3>1, <3>2
    <2> QED BY <2>2, <2>3 DEF Injection, IsInjective
  <1>4. rank \in Surjection(1 .. n, 1 .. n) BY <1>3, <1>f, FS_Injection
  <1>r. \A i \in 1 .. n : rank[i] \in 1 .. n BY <1>3 DEF Injection
  <1>i. \A i, j \in 1 .. n : rank[i] = rank[j] => i = j
    <2> HIDE DEF rank
    <2> QED BY <1>3 DEF Injection, IsInjective
  <1> HIDE DEF rank
  <1> DEFINE p == [k \in 1 .. n |-> CHOOSE i \in 1 .. n : rank[i] = k]
  <1>5. \A k \in 1 .. n : p[k] \in 1 .. n /\ rank[p[k]] = k BY <1>4 DEF Surjection
  <1>6. p \in [1 .. n -> 1 .. n] BY <1>5
  <1>7. p \in Bijection(1 .. n, 1 .. n)
    <2>1. \A i, j \in 1 .. n : p[i] = p[j] => i = j BY <1>5
    <2> HIDE DEF p
    <2>3. \A i \in 1 .. n : p[rank[i]] = i BY <1>5, <1>i, <1>r
    <2>4. p \in Injection(1 .. n, 1 .. n) BY <1>6, <2>1 DEF Injection, IsInjective
    <2>5. p \in Surjection(1 .. n, 1 .. n) BY <1>6, <1>r, <2>3 DEF Surjection
    <2> QED BY <2>4, <2>5 DEF Bijection
  <1>8. \A i, j \in 1 .. n : i < j => ~Ld!Before(s[p[j]], s[p[i]])
    <2> HIDE DEF p
    <2> QED BY <1>2, <1>5, <1>n
  <1> QED BY <1>7, <1>8, <1>n

\* What is sorted has the same elements, in order.
LEMMA SortedIs ==
  ASSUME Ld!CorpusFine, NEW s \in Seq(Records), Distinct(s)
  PROVE  /\ Ld!Sorted(s) \in Seq(Records) /\ DOMAIN Ld!Sorted(s) = DOMAIN s
         /\ Distinct(Ld!Sorted(s)) /\ Ordered(Ld!Sorted(s))
         /\ \A k \in DOMAIN s : \E i \in DOMAIN s : Ld!Sorted(s)[k] = s[i]
         /\ \A i \in DOMAIN s : \E k \in DOMAIN s : Ld!Sorted(s)[k] = s[i]
  <1> DEFINE P(p) == \A i, j \in DOMAIN s : i < j => ~Ld!Before(s[p[j]], s[p[i]])
             q == CHOOSE p \in Ld!Bijection(DOMAIN s, DOMAIN s) : P(p)
  <1>0. Ld!Bijection(DOMAIN s, DOMAIN s) = Bijection(DOMAIN s, DOMAIN s) BY SameBijections
  <1>1. q \in Bijection(DOMAIN s, DOMAIN s) /\ P(q) BY <1>0, SortExists
  <1>2. Ld!Sorted(s) = [i \in DOMAIN s |-> s[q[i]]] BY DEF Ld!Sorted
  <1> HIDE DEF q
  <1>3. q \in [DOMAIN s -> DOMAIN s] /\ (\A i, j \in DOMAIN s : q[i] = q[j] => i = j)
        /\ \A i \in DOMAIN s : \E k \in DOMAIN s : q[k] = i
    BY <1>1 DEF Bijection, Injection, Surjection, IsInjective
  <1>4. Ld!Sorted(s) \in Seq(Records) /\ DOMAIN Ld!Sorted(s) = DOMAIN s
    <2> DEFINE n == Len(s)
    <2>1. n \in Nat /\ DOMAIN s = 1 .. n OBVIOUS
    <2>2. \A i \in 1 .. n : s[q[i]] \in Records BY <2>1, <1>3
    <2> QED BY <1>2, <2>1, <2>2
  <1>5. \A k \in DOMAIN s : Ld!Sorted(s)[k] = s[q[k]] BY <1>2
  <1>6. Distinct(Ld!Sorted(s))
    <2> SUFFICES ASSUME NEW i \in DOMAIN s, NEW j \in DOMAIN s, Ld!Sorted(s)[i].id = Ld!Sorted(s)[j].id
                 PROVE  i = j
      BY <1>4 DEF Distinct
    <2>1. q[i] \in DOMAIN s /\ q[j] \in DOMAIN s BY <1>3
    <2>2. q[i] = q[j] BY <2>1, <1>5 DEF Distinct
    <2> QED BY <2>2, <1>3
  <1>7. Ordered(Ld!Sorted(s)) BY <1>1, <1>4, <1>5 DEF Ordered
  <1> QED BY <1>3, <1>4, <1>5, <1>6, <1>7

--------------------------------------------------------------------------------
LEMMA LoadInit == Ld!CorpusFine /\ Ld!Init => LInv
  <1> SUFFICES ASSUME Ld!CorpusFine, Ld!Init PROVE LInv OBVIOUS
  <1>1. LoadType BY File DEF LoadType, Ld!Init, Ld!CorpusFine
  <1>2. \A f \in 1 .. NFiles : files[f].recs \in Seq(Records) BY <1>1, File
  <1>3. \A f \in 1 .. NFiles : \A i \in DOMAIN files[f].recs : ~Read(f, i)
    <2> SUFFICES ASSUME NEW f \in 1 .. NFiles, NEW i \in DOMAIN files[f].recs PROVE ~Read(f, i)
      OBVIOUS
    <2>1. i \in 1 .. Len(files[f].recs) BY <1>2
    <2> QED BY <2>1 DEF Read, Ld!Init
  <1>4. Told BY <1>3 DEF Told, Ld!Init
  <1>5. Kept BY <1>3 DEF Kept, Whole, Distinct, Ld!Init
  <1> QED BY <1>1, <1>4, <1>5 DEF LInv, Ld!DiesOfThese, Ld!Init

LEMMA SkipFileKeeps == ASSUME Ld!CorpusFine, LInv, Ld!SkipFile PROVE LInv'
  <1>1. LoadType' 
    <2>1. at \in Nat /\ at < NFiles + 1 /\ files[at].recs \in Seq(Records) /\ files[at].recs = <<>>
      BY File DEF LInv, LoadType, Ld!CorpusFine, Ld!SkipFile
    <2>2. rec = 1 BY <2>1 DEF LInv, LoadType, Ld!SkipFile
    <2>3. \A f \in 1 .. NFiles : 1 <= Len(files[f].recs) + 1 BY File DEF LInv
    <2> QED BY <2>1, <2>2, <2>3 DEF LInv, LoadType, Ld!SkipFile, Ld!CorpusFine
  <1>2. Told'
    <2>1. \A f \in 1 .. NFiles : f < at + 1 => f < at \/ f = at BY DEF LInv, LoadType
    <2>2. files[at].recs = <<>> BY File DEF LInv, LoadType, Ld!CorpusFine, Ld!SkipFile
    <2>3. files' = files /\ at' = at + 1 /\ rec' = rec /\ errors' = errors \cup {<<at, 0>>}
      BY DEF Ld!SkipFile
    <2>4. \A f \in 1 .. NFiles :
            f < at' => files[f].kind # "undecoded" /\ (Ld!Unreadable(files[f]) => <<f, 0>> \in errors')
      <3>1. files[at].kind # "undecoded" BY DEF Ld!SkipFile, Ld!Unreadable
      <3> QED BY <2>1, <2>3, <3>1 DEF LInv, Told
    <2>5. \A f \in 1 .. NFiles : \A i \in DOMAIN files[f].recs :
            Read(f, i)' => Read(f, i)
      <3> SUFFICES ASSUME NEW f \in 1 .. NFiles, NEW i \in DOMAIN files[f].recs, Read(f, i)'
                   PROVE  Read(f, i)
        OBVIOUS
      <3>1. f # at BY <2>2
      <3>2. f < at + 1 \/ (f = at + 1 /\ i < rec) BY <2>3 DEF Read
      <3>3. rec = 1 BY <2>2 DEF LInv, LoadType, Ld!CorpusFine, Ld!SkipFile
      <3>4. ~(i < 1)
        <4>1. i \in 1 .. Len(files[f].recs) BY File DEF LInv
        <4> QED BY <4>1
      <3> QED BY <2>1, <3>1, <3>2, <3>3, <3>4 DEF Read
    <2>6. \A f \in 1 .. NFiles : \A i \in DOMAIN files[f].recs :
            Read(f, i)' =>
              ~Ld!Escapes(files[f].recs[i]) /\ (Wrong(files[f].recs[i]) => <<f, i>> \in errors')
      BY <2>3, <2>5 DEF LInv, Told
    <2> QED BY <2>3, <2>4, <2>6 DEF Told, Wrong
  <1>3. Kept' BY DEF Kept, Ld!SkipFile, LInv
  <1>4. Ld!DiesOfThese' BY DEF Ld!DiesOfThese, Ld!SkipFile
  <1> QED BY <1>1, <1>2, <1>3, <1>4 DEF LInv

LEMMA NextFileKeeps == ASSUME Ld!CorpusFine, LInv, Ld!NextFile PROVE LInv'
  <1>0. at \in 1 .. NFiles /\ files[at].recs \in Seq(Records) /\ rec = Len(files[at].recs) + 1
    BY File DEF LInv, LoadType, Ld!CorpusFine, Ld!NextFile
  <1>1. LoadType' 
    <2>3. \A f \in 1 .. NFiles : 1 <= Len(files[f].recs) + 1 BY File DEF LInv
    <2> QED BY <1>0, <2>3 DEF LInv, LoadType, Ld!NextFile, Ld!CorpusFine
  <1>2. \A f \in 1 .. NFiles : \A i \in DOMAIN files[f].recs : Read(f, i)' <=> Read(f, i)
    <2> SUFFICES ASSUME NEW f \in 1 .. NFiles, NEW i \in DOMAIN files[f].recs
                 PROVE  Read(f, i)' <=> Read(f, i)
      OBVIOUS
    <2>1. i \in 1 .. Len(files[f].recs) /\ Len(files[f].recs) \in Nat BY File DEF LInv
    <2>2. CASE f = at BY <2>1, <2>2, <1>0 DEF Read, Ld!NextFile
    <2>3. CASE f # at BY <2>1, <2>3, <1>0 DEF Read, Ld!NextFile
    <2> QED BY <2>2, <2>3
  <1>3. Told'
    <2>1. \A f \in 1 .. NFiles : f < at + 1 => f < at \/ f = at BY <1>0
    <2>2. files[at].kind # "undecoded" /\ ~Ld!Unreadable(files[at])
      BY DEF Ld!NextFile, Ld!Listed, Ld!Unreadable
    <2>3. \A f \in 1 .. NFiles :
            f < at' => files[f].kind # "undecoded" /\ (Ld!Unreadable(files[f]) => <<f, 0>> \in errors)
      BY <2>1, <2>2 DEF LInv, Told, Ld!NextFile
    <2>4. \A f \in 1 .. NFiles : \A i \in DOMAIN files[f].recs :
            Read(f, i)' =>
              ~Ld!Escapes(files[f].recs[i]) /\ (Wrong(files[f].recs[i]) => <<f, i>> \in errors)
      BY <1>2 DEF LInv, Told
    <2>5. files' = files /\ errors' = errors BY DEF Ld!NextFile
    <2> QED BY <2>3, <2>4, <2>5 DEF Told, Wrong
  <1>4. Kept'
    <2>1. ASSUME Whole(loaded) PROVE Whole(loaded)'
      BY <1>2, <2>1 DEF Whole, Distinct, Ld!NextFile
    <2> QED BY <2>1 DEF LInv, Kept, Ld!NextFile, Ordered
  <1>5. Ld!DiesOfThese' BY DEF Ld!DiesOfThese, Ld!NextFile
  <1> QED BY <1>1, <1>3, <1>4, <1>5 DEF LInv

\* The loading stops where it is.
LEMMA DieKeeps == ASSUME Ld!CorpusFine, LInv, Ld!Die PROVE LInv'
  <1>1. UNCHANGED <<files, at, rec, loaded, ids, errors>> /\ pc' = "died" BY DEF Ld!Die
  <1>2. LoadType' BY <1>1 DEF LInv, LoadType
  <1>3. Told' BY <1>1 DEF LInv, Told, Read, Wrong
  <1>4. Kept'
    <2>1. Whole(loaded) => Whole(loaded)' BY <1>1 DEF Whole, Distinct, Read, Wrong
    <2> QED BY <1>1, <2>1 DEF LInv, Kept
  <1>5. Ld!DiesOfThese'
    <2>1. at \in 1 .. NFiles /\ rec \in Nat \ {0} BY DEF Ld!Die, LInv, LoadType, Ld!CorpusFine
    <2>2. CASE files[at].kind = "undecoded" BY <1>1, <2>1, <2>2 DEF Ld!DiesOfThese
    <2>3. CASE rec <= Len(files[at].recs) /\ Ld!Escapes(files[at].recs[rec])
      <3>1. rec \in DOMAIN files[at].recs BY <2>1, <2>3, File DEF LInv
      <3> QED BY <1>1, <2>1, <2>3, <3>1 DEF Ld!DiesOfThese
    <2> QED BY <2>2, <2>3 DEF Ld!Die
  <1> QED BY <1>2, <1>3, <1>4, <1>5 DEF LInv

LEMMA ReadRecordKeeps == ASSUME Ld!CorpusFine, LInv, Ld!ReadRecord PROVE LInv'
  <1> DEFINE r == files[at].recs[rec]
  <1>0. at \in 1 .. NFiles /\ files[at].recs \in Seq(Records) /\ rec \in 1 .. Len(files[at].recs)
    BY File DEF LInv, LoadType, Ld!CorpusFine, Ld!ReadRecord
  <1>r. r \in Records BY <1>0
  <1>1. LoadType' BY <1>0 DEF LInv, LoadType, Ld!ReadRecord, Ld!CorpusFine
  <1>2. \A f \in 1 .. NFiles : \A i \in DOMAIN files[f].recs :
          Read(f, i)' <=> Read(f, i) \/ (f = at /\ i = rec)
    <2> SUFFICES ASSUME NEW f \in 1 .. NFiles, NEW i \in DOMAIN files[f].recs
                 PROVE  Read(f, i)' <=> Read(f, i) \/ (f = at /\ i = rec)
      OBVIOUS
    <2>1. i \in 1 .. Len(files[f].recs) /\ Len(files[f].recs) \in Nat BY File DEF LInv
    <2> QED BY <2>1, <1>0 DEF Read, Ld!ReadRecord
  <1>u. files' = files /\ at' = at /\ pc' = pc /\ pc = "load" BY DEF Ld!ReadRecord
  <1>e. ~Ld!Escapes(r) BY DEF Ld!ReadRecord
  <1>d. Ld!DiesOfThese' BY <1>u DEF Ld!DiesOfThese
  <1> HIDE DEF r
  <1>a. CASE Ld!SkipRecord(r)
    <2>1. errors' = errors \cup {<<at, rec>>} BY <1>a DEF Ld!SkipRecord
    <2>2. Told' BY <2>1, <1>2, <1>u, <1>e DEF LInv, Told, r
    <2>3. Kept' BY <2>1, <1>u DEF Kept
    <2> QED BY <1>1, <1>d, <2>2, <2>3 DEF LInv
  <1>b. CASE Ld!TakeRecord(r) 
    <2>1. errors \subseteq errors' /\ (Wrong(r) => <<at, rec>> \in errors')
      BY <1>b DEF Ld!TakeRecord, Wrong
    <2>2. Told'
      <3> SUFFICES ASSUME NEW f \in 1 .. NFiles
                   PROVE  /\ f < at => /\ files[f].kind # "undecoded"
                                       /\ Ld!Unreadable(files[f]) => <<f, 0>> \in errors'
                          /\ \A i \in DOMAIN files[f].recs :
                               Read(f, i)' => /\ ~Ld!Escapes(files[f].recs[i])
                                              /\ Wrong(files[f].recs[i]) => <<f, i>> \in errors'
        BY <1>u DEF Told, Wrong
      <3> QED BY <2>1, <1>2, <1>e DEF LInv, Told, r
    <2>3. ASSUME errors' = {} PROVE Whole(loaded)' /\ ids' = {loaded'[k].id : k \in DOMAIN loaded'}
      <3>1. errors = {} /\ ~Ld!Duplicate(r) /\ ~Wrong(r) /\ loaded' = Append(loaded, r) /\ ids' = ids \cup {r.id}
        BY <2>3, <1>b DEF Ld!TakeRecord, Wrong
      <3>2. Whole(loaded) /\ ids = {loaded[k].id : k \in DOMAIN loaded} BY <3>1 DEF LInv, Kept
      <3> DEFINE n == Len(loaded)  t == loaded'
      <3>3. loaded \in Seq(Records) /\ n \in Nat /\ DOMAIN loaded = 1 .. n BY <3>2 DEF Whole
      <3>4. /\ t \in Seq(Records) /\ DOMAIN t = 1 .. n + 1 /\ t[n + 1] = r
            /\ \A k \in 1 .. n : t[k] = loaded[k]
        BY <3>1, <3>3, <1>r
      <3>5. r.id \notin ids BY <3>1 DEF Ld!Duplicate
      <3> HIDE DEF n, t
      <3>6. \A k \in 1 .. n + 1 : k \in 1 .. n \/ k = n + 1 BY <3>3
      <3>7. ids' = {t[k].id : k \in DOMAIN t} BY <3>1, <3>2, <3>3, <3>4, <3>6
      <3>8. Distinct(t) BY <3>2, <3>3, <3>4, <3>5, <3>6 DEF Distinct, Whole
      <3>9. \A k \in DOMAIN t : ~Wrong(t[k]) BY <3>1, <3>2, <3>3, <3>4, <3>6 DEF Whole
      <3>10. \A k \in DOMAIN t : \E f \in 1 .. NFiles : \E i \in DOMAIN files[f].recs :
               Read(f, i)' /\ t[k] = files[f].recs[i]
        <4>1. ASSUME NEW k \in 1 .. n
              PROVE  \E f \in 1 .. NFiles : \E i \in DOMAIN files[f].recs :
                       Read(f, i)' /\ t[k] = files[f].recs[i]
          <5>1. PICK f \in 1 .. NFiles :
                  \E i \in DOMAIN files[f].recs : Read(f, i) /\ loaded[k] = files[f].recs[i]
            BY <3>2, <3>3 DEF Whole
          <5>2. PICK i \in DOMAIN files[f].recs : Read(f, i) /\ loaded[k] = files[f].recs[i]
            BY <5>1
          <5>3. Read(f, i)' BY <5>2, <1>2
          <5> QED BY <5>2, <5>3, <3>4
        <4>2. rec \in DOMAIN files[at].recs BY <1>0
        <4> QED BY <1>2, <1>0, <3>4, <3>6, <4>1, <4>2 DEF r
      <3>11. \A f \in 1 .. NFiles : \A i \in DOMAIN files[f].recs :
               Read(f, i)' => \E k \in DOMAIN t : t[k] = files[f].recs[i]
        <4> SUFFICES ASSUME NEW f \in 1 .. NFiles, NEW i \in DOMAIN files[f].recs, Read(f, i)'
                     PROVE  \E k \in 1 .. n + 1 : t[k] = files[f].recs[i]
          BY <3>4
        <4>1. CASE Read(f, i) 
          <5>1. PICK k \in 1 .. n : loaded[k] = files[f].recs[i] BY <4>1, <3>2, <3>3 DEF Whole
          <5> QED BY <5>1, <3>3, <3>4
        <4>2. CASE f = at /\ i = rec BY <4>2, <3>3, <3>4 DEF r
        <4> QED BY <4>1, <4>2, <1>2
      <3> QED BY <1>u, <3>4, <3>7, <3>8, <3>9, <3>10, <3>11 DEF Whole, Distinct, Wrong, t
    <2>4. Kept' BY <2>3, <1>u DEF Kept
    <2> QED BY <1>1, <1>d, <2>2, <2>4 DEF LInv
  <1> QED BY <1>a, <1>b DEF Ld!ReadRecord, r

LEMMA DecideKeeps == ASSUME Ld!CorpusFine, LInv, Ld!Decide PROVE LInv'
  <1>1. LoadType' BY DEF LInv, LoadType, Ld!Decide, Ld!CorpusFine
  <1>2. files' = files /\ at' = at /\ rec' = rec /\ errors' = errors /\ ids' = ids /\ pc = "load"
    BY DEF Ld!Decide
  <1>3. Told' BY <1>2 DEF LInv, Told, Read, Wrong
  <1>5. Ld!DiesOfThese' BY <1>2 DEF Ld!Decide, Ld!DiesOfThese
  <1>4. Kept'
    <2>1. CASE errors # {} BY <2>1, <1>2 DEF Ld!Decide, Kept
    <2>3. CASE errors = {} /\ Ld!Mixed(loaded)
      <3>1. loaded' = loaded /\ pc' = "died" BY <2>3 DEF Ld!Decide
      <3>2. Whole(loaded) => Whole(loaded)' BY <1>2, <3>1 DEF Whole, Distinct, Read, Wrong
      <3> QED BY <1>2, <3>1, <3>2 DEF LInv, Kept
    <2>2. CASE errors = {} /\ ~Ld!Mixed(loaded)
      <3> DEFINE t == Ld!Sorted(loaded)
      <3>1. loaded' = t BY <2>2 DEF Ld!Decide
      <3>2. Whole(loaded) /\ ids = {loaded[k].id : k \in DOMAIN loaded} BY <2>2 DEF LInv, Kept
      <3>3. /\ t \in Seq(Records) /\ DOMAIN t = DOMAIN loaded
            /\ Distinct(t) /\ Ordered(t)
            /\ \A k \in DOMAIN loaded : \E i \in DOMAIN loaded : t[k] = loaded[i]
            /\ \A i \in DOMAIN loaded : \E k \in DOMAIN loaded : t[k] = loaded[i]
        BY <3>2, SortedIs DEF Whole
      <3> HIDE DEF t
      <3> DEFINE D == DOMAIN loaded
      <3>D. DOMAIN t = D BY <3>3
      <3>W. \A k \in D : ~Wrong(loaded[k]) BY <3>2 DEF Whole
      <3>A. \A k \in D : \E f \in 1 .. NFiles : \E i \in DOMAIN files[f].recs :
              Read(f, i) /\ loaded[k] = files[f].recs[i]
        BY <3>2 DEF Whole
      <3>B. \A f \in 1 .. NFiles : \A i \in DOMAIN files[f].recs :
              Read(f, i) => \E k \in D : loaded[k] = files[f].recs[i]
        BY <3>2 DEF Whole
      <3> HIDE DEF D
      <3>C. (\A k \in D : \E i \in D : t[k] = loaded[i]) /\ (\A i \in D : \E k \in D : t[k] = loaded[i])
        BY <3>3 DEF D
      <3>4. Whole(t)
        <4>1. \A k \in D : ~Wrong(t[k]) BY <3>W, <3>C
        <4>2. \A k \in D : \E f \in 1 .. NFiles : \E i \in DOMAIN files[f].recs :
                Read(f, i) /\ t[k] = files[f].recs[i]
          BY <3>A, <3>C
        <4>3. \A f \in 1 .. NFiles : \A i \in DOMAIN files[f].recs :
                Read(f, i) => \E k \in D : t[k] = files[f].recs[i]
          BY <3>B, <3>C
        <4> QED BY <4>1, <4>2, <4>3, <3>3, <3>D DEF Whole
      <3>5. ids = {t[k].id : k \in DOMAIN t}
        <4>1. ids = {loaded[k].id : k \in D} BY <3>2 DEF D
        <4>2. \A k \in D : t[k].id \in ids BY <4>1, <3>C
        <4>3. \A x \in ids : \E k \in D : x = t[k].id
          <5> TAKE x \in ids
          <5>1. PICK i \in D : x = loaded[i].id BY <4>1
          <5>2. PICK k \in D : t[k] = loaded[i] BY <3>C
          <5> QED BY <5>1, <5>2
        <4> QED BY <4>2, <4>3, <3>D
      <3>6. Whole(loaded)' BY <3>1, <3>4, <1>2 DEF Whole, Distinct, Wrong, Read
      <3>7. Ordered(loaded)' BY <3>1, <3>3 DEF Ordered
      <3> QED BY <3>1, <3>5, <3>6, <3>7, <1>2, <2>2 DEF Kept
    <2> QED BY <2>1, <2>2, <2>3
  <1> QED BY <1>1, <1>3, <1>4, <1>5 DEF LInv

LEMMA LoadNext == ASSUME Ld!CorpusFine, LInv, [Ld!Next]_(Ld!vars) PROVE LInv'
  <1>1. CASE UNCHANGED Ld!vars
    <2>1. UNCHANGED <<files, at, rec, loaded, ids, errors, pc>> BY <1>1 DEF Ld!vars
    <2>2. LoadType' BY <2>1 DEF LInv, LoadType
    <2>3. Told' BY <2>1 DEF LInv, Told, Read
    <2>4. Kept' BY <2>1 DEF LInv, Kept, Whole, Ordered, Distinct, Read
    <2>5. Ld!DiesOfThese' BY <2>1 DEF LInv, Ld!DiesOfThese, Ld!Mixed
    <2> QED BY <2>2, <2>3, <2>4, <2>5 DEF LInv
  <1> QED BY <1>1, SkipFileKeeps, NextFileKeeps, ReadRecordKeeps, DieKeeps, DecideKeeps DEF Ld!Next, Ld!Stop

\* The invariant at the end of the loading is the property.
LEMMA LoadedIsWhole == ASSUME Ld!CorpusFine, LInv PROVE LoadsAllOrTells
  <1> DEFINE done == pc \in {"raised", "loaded"}
  <1>0. /\ \A f \in 1 .. NFiles : files[f].recs \in Seq(Records)
        /\ done => \A f \in 1 .. NFiles : f < at
    BY File DEF LInv, LoadType, Ld!CorpusFine
  <1>r. done => \A f \in 1 .. NFiles : \A i \in DOMAIN files[f].recs : Read(f, i)
    BY <1>0 DEF Read
  <1>1. Ld!AllReported BY <1>0, <1>r DEF Ld!AllReported, LInv, Told, Wrong
  <1>2. Ld!NothingSkipped
    <2> SUFFICES ASSUME pc = "loaded" PROVE Ld!NothingSkipped!2
      BY DEF Ld!NothingSkipped
    <2>1. errors = {} /\ Whole(loaded) /\ Ordered(loaded) BY DEF LInv, Kept
    <2>2. \A f \in 1 .. NFiles : Ld!Listed(files[f]) BY <1>0, <2>1, File DEF LInv, Told
    <2>3. Ld!Range(loaded) = UNION {Ld!Range(files[f].recs) : f \in 1 .. NFiles}
      BY <1>r, <2>1 DEF Whole, Range, Ld!Range
    <2> QED BY <2>1, <2>2, <2>3 DEF Ordered, Whole, Distinct
  <1>3. Ld!LateErrorsAreShapes
    <2> SUFFICES ASSUME pc = "loaded", NEW c \in Ld!Range(loaded),
                        NEW v \in {c.input} \cup {c.expect[k] : k \in DOMAIN c.expect},
                        Ld!Bad(v) \/ Ld!Unfit(v)
                 PROVE  \E k \in DOMAIN c.expect \ Ld!Reports :
                          Ld!Unfit(c.expect[k]) /\ ~(k = "attr" /\ c.expect[k] = "misshapen")
      BY DEF Ld!LateErrorsAreShapes
    <2>1. errors = {} /\ Whole(loaded) BY DEF LInv, Kept
    <2>2. c \in Records /\ ~c.missing /\ Ld!Validates(c) BY <2>1 DEF Whole, Ld!Range, Wrong
    <2>3. ~Ld!Escapes(c)
      <3>1. PICK f \in 1 .. NFiles : \E i \in DOMAIN files[f].recs : Read(f, i) /\ c = files[f].recs[i]
        BY <2>1 DEF Whole, Ld!Range
      <3> QED BY <3>1 DEF LInv, Told
    <2>4. v # c.input BY <2>2, <2>3 DEF Ld!Validates, Ld!Escapes
    <2>5. PICK k \in DOMAIN c.expect : v = c.expect[k] BY <2>4
    <2>6. k \notin Ld!Reports
      BY <2>2, <2>3, <2>5 DEF Ld!Validates, Ld!ExpectDecodes, Ld!Escapes
    <2>7. ~Ld!Bad(v) BY <2>2, <2>5, <2>6 DEF Ld!CorpusFine
    <2>8. ~(k = "attr" /\ c.expect[k] = "misshapen") BY <2>2, <2>3 DEF Ld!Escapes
    <2> QED BY <2>5, <2>6, <2>7, <2>8
  <1> QED BY <1>1, <1>2, <1>3 DEF LInv, LoadsAllOrTells, Ld!LoadsAllOrTells

\* load_corpus gives all records of the directory, each once and in order, or names every
\* file and record that is wrong by itself; what it lets pass, to raise later, is only an
\* expectation of a shape it does not look at, and what ends it with nothing named is only a
\* file that is not text, a record that trips it or keys it cannot compare: for any number
\* of files of any length.
THEOREM LoadsAllOrTellsCorrect == Ld!Spec => []LoadsAllOrTells
  <1>1. Ld!CorpusFine BY CorpusAssumption
  <1>2. Ld!Init => LInv BY <1>1, LoadInit
  <1>3. LInv /\ [Ld!Next]_(Ld!vars) => LInv' BY <1>1, LoadNext
  <1>4. LInv => LoadsAllOrTells BY <1>1, LoadedIsWhole
  <1> QED BY <1>2, <1>3, <1>4, PTL DEF Ld!Spec

================================================================================
