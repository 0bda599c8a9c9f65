---------------------------------- MODULE Corpus ----------------------------------
(***************************************************************************)
(* Loading the conformance corpus: load_corpus reads every file, checks    *)
(* every record, collects what it finds wrong and raises once at the end.  *)
(* What it does not look for goes one of two ways: an exception of the     *)
(* code's own ends the loading with nothing collected told, or the record  *)
(* loads and the exception comes while the cases run (Conformance has that *)
(* half).                                                                  *)
(*                                                                         *)
(* A file is its list of records or one of the ways not to be one.  An id  *)
(* and a category are numbers in the order of the names, 0 the empty one;  *)
(* a negative one is JSON of another type, which cannot be compared with a *)
(* name.  A value is fine, holds a bad escape, or does not fit its reader: *)
(* misshapen (nothing to iterate over, not as many parts as are unpacked)  *)
(* or mistyped (the parts are there, and of another type).                 *)
(***************************************************************************)
EXTENDS Integers, Sequences, SequencesExt

CONSTANTS
  Records,       \* records a file may hold
  MaxRecords,    \* records in a file
  NFiles         \* files in the corpus directory

Status  == {"supported", "partial", "unsupported"}
Basis   == {"spec", "profile", "tolerance", "degenerate", "unobservable"}
Keys    == {"cursor", "rows", "cells", "has", "absent", "attr", "state", "report", "report_absent"}
Kinds   == {"inverse", "normal"}
NoId    == 0      \* the empty id

\* what a file holds; of one that is not text, not JSON or not a list, nothing
Contents ==
  [kind : {"undecoded", "invalid", "notlist"}, recs : {<<>>}] \cup
  [kind : {"list"}, recs : BoundedSeq(Records, MaxRecords)]

\* the expectations that are strings to decode
Reports == {"report", "report_absent"}

\* decode raises the ValueError that is waited for
Bad(value) == value = "badescape"

\* whoever reads the value raises something else
Unfit(value) == value \in {"misshapen", "mistyped"}

\* ids and categories have an order, and only a string that is decoded can hold a bad
\* escape
CorpusFine ==
  /\ NFiles \in Nat
  /\ \A r \in Records :
       /\ r.id \in Int /\ r.category \in Int
       /\ \A k \in DOMAIN r.expect \ Reports : ~Bad(r.expect[k])

VARIABLES
  files,         \* the directory, in the order of the file names
  at, rec,       \* the file being read and the record in it
  cases, ids,    \* records accepted so far, ids seen
  errors,        \* problems found: of a file, or of a record in it
  pc

vars == <<files, at, rec, cases, ids, errors, pc>>

--------------------------------------------------------------------------------
\* the strings of the expectations that check will decode
ExpectDecodes(r) == \A k \in Reports \cap DOMAIN r.expect : ~Bad(r.expect[k])

\* An exception nobody catches: the record is not an object or its id cannot be looked
\* up, or _validate trips over what it unpacks or decodes.
Escapes(r) ==
  \/ r.kind = "other"
  \/ /\ ~r.missing
     /\ \/ Unfit(r.input)
        \/ \E k \in Reports \cap DOMAIN r.expect : Unfit(r.expect[k])
        \/ "attr" \in DOMAIN r.expect /\ r.expect["attr"] = "misshapen"

\* _validate finds nothing; no other expectation's shape is looked at
Validates(r) ==
  /\ r.id # NoId /\ r.status \in Status /\ r.basis \in Basis
  /\ DOMAIN r.expect \subseteq Keys
  /\ "attr" \in DOMAIN r.expect => r.expect["attr"] \in Kinds \cup {"mistyped"}
  /\ ~Bad(r.input) /\ ExpectDecodes(r)

Init ==
  /\ files \in [1 .. NFiles -> Contents]
  /\ at = 1 /\ rec = 1 /\ cases = <<>> /\ ids = {} /\ errors = {} /\ pc = "load"

Unreadable(f) == f.kind \in {"invalid", "notlist"}
Listed(f)     == f.kind = "list"

\* not JSON or not a list: noted, and the next file is read
SkipFile ==
  /\ pc = "load" /\ at <= NFiles /\ Unreadable(files[at])
  /\ errors' = errors \cup {<<at, 0>>}
  /\ at' = at + 1
  /\ UNCHANGED <<files, rec, cases, ids, pc>>

\* a record without a key it needs is noted and left out
SkipRecord(r) ==
  /\ r.missing
  /\ errors' = errors \cup {<<at, rec>>}
  /\ UNCHANGED <<cases, ids>>

\* Deviation: ids are compared within a file only.
PerFileDuplicate(r) == r.id \in ids /\ \E i \in 1 .. rec - 1 : files[at].recs[i].id = r.id

Duplicate(r) == r.id \in ids

\* any other becomes a case; what is wrong with it is noted
TakeRecord(r) ==
  /\ ~r.missing
  /\ cases' = Append(cases, r) /\ ids' = ids \cup {r.id}
  /\ errors' = IF Duplicate(r) \/ ~Validates(r) THEN errors \cup {<<at, rec>>} ELSE errors

ReadRecord ==
  /\ pc = "load" /\ at <= NFiles /\ Listed(files[at]) /\ rec <= Len(files[at].recs)
  /\ ~Escapes(files[at].recs[rec])
  /\ SkipRecord(files[at].recs[rec]) \/ TakeRecord(files[at].recs[rec])
  /\ rec' = rec + 1
  /\ UNCHANGED <<files, at, pc>>

\* the exception leaves load_corpus, and what was collected goes with it
Die ==
  /\ pc = "load" /\ at <= NFiles
  /\ \/ files[at].kind = "undecoded"
     \/ Listed(files[at]) /\ rec <= Len(files[at].recs) /\ Escapes(files[at].recs[rec])
  /\ pc' = "died"
  /\ UNCHANGED <<files, at, rec, cases, ids, errors>>

NextFile ==
  /\ pc = "load" /\ at <= NFiles /\ Listed(files[at]) /\ rec > Len(files[at].recs)
  /\ at' = at + 1 /\ rec' = 1
  /\ UNCHANGED <<files, cases, ids, errors, pc>>

Before(r, s) == r.category < s.category \/ (r.category = s.category /\ r.id < s.id)

\* by category, then by id
Sorted(s) ==
  LET p == CHOOSE p \in Bijection(DOMAIN s, DOMAIN s) :
             \A i, j \in DOMAIN s : i < j => ~Before(s[p[j]], s[p[i]])
  IN  [i \in DOMAIN s |-> s[p[i]]]

\* two keys of the sort that Python does not compare
Mixed(s) ==
  \E i, j \in DOMAIN s :
    \/ s[i].category < 0 /\ s[j].category >= 0
    \/ s[i].category = s[j].category /\ s[i].id < 0 /\ s[j].id >= 0

\* one exception for all that was found, or the cases in their order
Decide ==
  /\ pc = "load" /\ at > NFiles
  /\ \/ errors # {} /\ pc' = "raised" /\ UNCHANGED cases
     \/ errors = {} /\ Mixed(cases) /\ pc' = "died" /\ UNCHANGED cases
     \/ errors = {} /\ ~Mixed(cases) /\ pc' = "loaded" /\ cases' = Sorted(cases)
  /\ UNCHANGED <<files, at, rec, ids, errors>>

Stop == pc # "load" /\ UNCHANGED vars
Next == SkipFile \/ ReadRecord \/ Die \/ NextFile \/ Decide \/ Stop

Spec == Init /\ [][Next]_vars

--------------------------------------------------------------------------------
(***************************************************************************)
(* Properties.                                                             *)
(***************************************************************************)
\* A corpus that loads is the whole of its files, sorted: no record was left out, and
\* no id names two of them, also not in different files.
NothingSkipped ==
  pc = "loaded" =>
    /\ \A f \in 1 .. NFiles : Listed(files[f])
    /\ Range(cases) = UNION {Range(files[f].recs) : f \in 1 .. NFiles}
    /\ \A i, j \in DOMAIN cases : i < j => ~Before(cases[j], cases[i])
    /\ \A i, j \in DOMAIN cases : cases[i].id = cases[j].id => i = j

\* A case that raises when it is rendered or checked got past the loading in one way
\* only: an expectation that is not decoded, of a shape that is not looked at.
LateErrorsAreShapes ==
  pc = "loaded" =>
    \A c \in Range(cases) :
      (\E v \in {c.input} \cup {c.expect[k] : k \in DOMAIN c.expect} : Bad(v) \/ Unfit(v)) =>
        \E k \in DOMAIN c.expect \ Reports :
          Unfit(c.expect[k]) /\ ~(k = "attr" /\ c.expect[k] = "misshapen")

\* The collected exception names every file and record that is wrong by itself, not the
\* first alone.
AllReported ==
  pc = "raised" =>
    \A f \in 1 .. NFiles :
      /\ files[f].kind # "undecoded" /\ (Unreadable(files[f]) => <<f, 0>> \in errors)
      /\ \A i \in DOMAIN files[f].recs :
           /\ ~Escapes(files[f].recs[i])
           /\ files[f].recs[i].missing \/ ~Validates(files[f].recs[i]) => <<f, i>> \in errors

\* Only a file that is not text, a record that trips the code, or keys of different
\* types end the loading with nothing told.
DiesOfThese ==
  pc = "died" =>
    \/ \E f \in 1 .. NFiles :
         files[f].kind = "undecoded" \/ \E i \in DOMAIN files[f].recs : Escapes(files[f].recs[i])
    \/ errors = {} /\ Mixed(cases)

\* load_corpus gives the corpus or says what is wrong with it, as far as it looks: what
\* it returns is whole, what it collects is all there is to collect, and what can still
\* go wrong, then or later, is one of the mistakes it does not look for.
LoadsAllOrTells == NothingSkipped /\ LateErrorsAreShapes /\ AllReported /\ DiesOfThese

================================================================================
