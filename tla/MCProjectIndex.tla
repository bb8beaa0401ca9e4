--------------------------- MODULE MCProjectIndex ---------------------------
(***************************************************************************)
(* Small instances of ProjectIndex: two contents, the second with a place  *)
(* the first does not have, so a block can be left over.                   *)
(***************************************************************************)
EXTENDS ProjectIndex, TLC

CONSTANTS w1, w2, p1, p2, f1, f2, v1, v2, u1, u2, b1, b2

MCBlocksOf == v1 :> {b1} @@ v2 :> {b1, b2}

Symmetry == Permutations(Files) \cup Permutations(Unreads)
=============================================================================
