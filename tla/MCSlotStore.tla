---------------------------- MODULE MCSlotStore ----------------------------
(***************************************************************************)
(* Small instances of SlotStore: a volatile project key, an internal key   *)
(* and an ordinary one, two categories the sweep knows and one it does     *)
(* not.  The clock is coarse: what auto-capture wrote as `project` (7      *)
(* days) is over at the next tick, as `custom` (14 days) at the one after. *)
(***************************************************************************)
EXTENDS SlotStore, TLC

CONSTANTS s1, s2, phase, hash, note, v1, v2, project, custom, profile, w1, w2

MCInfer == [k \in Keys |-> IF k = phase THEN project ELSE custom]
MCDays == project :> 0 @@ custom :> 1
MCReadings == {<<s1>>} \cup {<<s1, s2>> : s \in Scopes \ {s1}}

Symmetry == Permutations(Procs) \cup Permutations(Values)
=============================================================================
