----------------------- MODULE MCFoundationMigration -----------------------
(***************************************************************************)
(* Two points with a text, the version of their schema, which may be old,  *)
(* the new one or missing, and a promotion state, their own or missing.    *)
(***************************************************************************)
EXTENDS FoundationMigration, TLC

MCPayloads ==
    {[k \in Keys |-> CASE k = "text" -> "own" [] k = "schema" -> s [] k = "state" -> t] :
        s \in {None, "old", "new"}, t \in {None, "own"}}
MCSymmetry == Permutations(Points)
=============================================================================
