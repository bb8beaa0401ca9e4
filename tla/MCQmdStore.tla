----------------------------- MODULE MCQmdStore -----------------------------
(***************************************************************************)
(* Small instances of QmdStore.                                            *)
(***************************************************************************)
EXTENDS QmdStore, TLC

CONSTANTS a, b, big, w1, w2, g1, g2

Light == Permutations(Ids \ Heavy)
Symmetry == Light \cup Permutations(Writers) \cup Permutations(Pages)
=============================================================================
