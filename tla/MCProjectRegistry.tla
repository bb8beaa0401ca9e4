------------------------- MODULE MCProjectRegistry -------------------------
(***************************************************************************)
(* Two processes, two projects, two remotes whose repositories have one    *)
(* name, so that both want one clone directory, and one root an operator   *)
(* names.  Both projects have tasks with tracker keys.                     *)
(***************************************************************************)
EXTENDS ProjectRegistry, TLC

CONSTANTS w1, w2, p1, p2, shop, site, u1, u2, clone, clone1, clone2, local

\* A call that names a root names a remote with it, whose clone is elsewhere or is still to be made.
MCNamed == {<<local, u1>>, <<local, u2>>}
MCConflictDir == u1 :> clone1 @@ u2 :> clone2
MCLeafOf == clone :> shop @@ clone1 :> site @@ clone2 :> site @@ local :> site
MCNameOf == u1 :> shop @@ u2 :> shop

\* The two remotes are alike, each with the directory of its conflict; so are the projects.
Swapped == [x \in {u1, u2, clone1, clone2} |->
              CASE x = u1 -> u2 [] x = u2 -> u1 [] x = clone1 -> clone2 [] x = clone2 -> clone1]
MCSymmetry ==
    {f @@ g @@ h : f \in Permutations({w1, w2}), g \in Permutations({p1, p2}),
                   h \in {Swapped, [x \in DOMAIN Swapped |-> x]}}
=============================================================================
