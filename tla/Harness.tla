---------------------------------- MODULE Harness ----------------------------------
(***************************************************************************)
(* The two halves of a program of the harness: the loading of the corpus,  *)
(* and the cases that run once it is there.                                *)
(***************************************************************************)
EXTENDS Conformance

CONSTANTS Records, MaxRecords, NFiles
VARIABLES files, at, rec, loaded, ids, errors, pc

loader == <<files, at, rec, loaded, ids, errors, pc>>

Ld == INSTANCE Corpus WITH cases <- loaded

ASSUME CorpusAssumption == Ld!CorpusFine

\* load_corpus gives the corpus or says what is wrong with it.
LoadsAllOrTells == Ld!LoadsAllOrTells

================================================================================
