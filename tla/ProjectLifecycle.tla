-------------------------- MODULE ProjectLifecycle --------------------------
(***************************************************************************)
(* What a project's lifecycle promises (projects.lifecycle_status, read by *)
(* every retrieval): the statuses a project passes through, one step per   *)
(* change of status, whatever the index does meanwhile.                    *)
(***************************************************************************)
CONSTANT Projects

VARIABLE lifecycle

Init == lifecycle = [p \in Projects |-> "absent"]

Move(p, from, to) == lifecycle[p] \in from /\ lifecycle' = [lifecycle EXCEPT ![p] = to]

Known == {"active", "deindexed", "detached", "disabled"}

Create(p) == Move(p, {"absent"}, "active")
Deindex(p) == Move(p, Known, "deindexed")
Reindex(p) == Move(p, {"deindexed"}, "active")

\* A project leaves the registry only after it has left the index.
Withdraw(p) == \E status \in {"detached", "disabled"} : Move(p, {"deindexed"}, status)

\* Only an unregistered project can be purged.
Purge(p) == Move(p, {"disabled"}, "absent")

Next == \E p \in Projects : Create(p) \/ Deindex(p) \/ Reindex(p) \/ Withdraw(p) \/ Purge(p)

Spec == Init /\ [][Next]_lifecycle
=============================================================================
