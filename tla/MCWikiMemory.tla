---------------------------- MODULE MCWikiMemory ----------------------------
(***************************************************************************)
(* One process that captures and one that reads.  A deployment that starts *)
(* with QMD may change between its two backends; one that starts with      *)
(* markdown stays.                                                         *)
(***************************************************************************)
EXTENDS WikiMemory, TLC

QmdOnly == {<<"dual", "qmd">>, <<"qmd", "dual">>}
MCSymmetry == Permutations(Texts)
=============================================================================
